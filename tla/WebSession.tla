------------------------------ MODULE WebSession ------------------------------
(* The admin's sign-in: first-run setup, login, the require_auth middleware    *)
(* with its sliding expiry and CSRF check, logout, sign-out everywhere and the *)
(* change of the password (auth.rs, models/session.rs, routes/auth.rs, part of *)
(* routes/settings.rs), `rusno init` as far as it writes the same settings     *)
(* (main.rs), and the documents the templates build in a browser.  A handler   *)
(* is one action per await, so that requests interleave wherever they can.     *)
(* Browsers and htmx are external: the cookie jar, and that a boosted          *)
(* navigation replaces the body and keeps the head and its listeners.          *)
EXTENDS Integers, FiniteSets

CONSTANTS
  Browser,      \* browsers, each with one tab and one cookie jar
  Request,      \* slots for requests that are in flight at the same time
  Password,     \* passwords, as positive numbers
  Secret,       \* values session_secret may take
  MaxSession    \* bound: sessions ever opened

ASSUME BrowserAssumption == "cli" \notin Browser
ASSUME RequestAssumption == IsFiniteSet(Browser) /\ IsFiniteSet(Request)
ASSUME PasswordAssumption == Password \subseteq Nat \ {0}
ASSUME SecretAssumption == 0 \notin Secret
ASSUME SessionAssumption == MaxSession \in Nat

None == 0       \* no password, secret, session or token
Sessions == 1..MaxSession

VARIABLES
  \* settings: admin_password_hash (by the password it is of), session_secret.
  hash, secret,
  \* sessions: whether there is a row and expires_at is in the past; ids are
  \* random and never repeat.
  row, opened,
  \* Browsers: the cookie, and the document that is shown.
  cookie, doc,
  \* Requests in flight, and the `rusno init` processes.
  req,
  \* History: the sessions opened before the last sign-out everywhere.
  signedOut

live == {i \in Sessions : row[i] # "none"}
settingVars == <<hash, secret>>
sessionVars == <<row, opened>>
browserVars == <<cookie, doc>>
vars == <<settingVars, sessionVars, browserVars, req, signedOut>>

-------------------------------------------------------------------------------
(* Documents and requests *)

Pages == {"setup", "login", "app", "settings"}
\* "get_app" is every protected GET but the settings page.
Gets == {"get_setup", "get_login", "get_app", "get_settings"}
PublicPosts == {"post_setup", "post_login"}
\* What require_auth takes for state-changing; "act" is every handler that
\* answers with a fragment of the page.
GuardedPosts == {"act", "logout", "sign_out", "change_password"}
Ops == Gets \cup PublicPosts \cup GuardedPosts \cup {"init"}

PageOf(op) ==
  CASE op = "get_setup" -> "setup"
    [] op \in {"get_login", "post_login"} -> "login"
    [] op = "get_app" -> "app"
    [] OTHER -> "settings"

\* The forms and buttons of a page.  No page has one for /logout: it is typed
\* by hand, with the headers the document would send.
Posts(page) ==
  CASE page = "setup"    -> {"post_setup"}
    [] page = "login"    -> {"post_login"}
    [] page = "app"      -> {"act", "logout"}
    [] page = "settings" -> {"act", "sign_out", "change_password"}
    [] OTHER             -> {}

\* The links of a page; without a document any address may be typed.
Links(page) ==
  CASE page = "blank" -> Gets
    [] page \in {"app", "settings"} -> {"get_app", "get_settings"}
    [] OTHER -> {}

NoCookie == [id |-> None, key |-> None]
\* meta is the token in the head (csrf-token, one for each session), script
\* whether CSRF_SCRIPT has bound it to the requests of htmx.
Blank == [page |-> "blank", meta |-> None, script |-> FALSE]

\* from: the browser, "cli" also for one that no longer waits for the answer.
\* early: history, the request began before the first run was complete.
\* blind: history, a read that failed hid a password or a secret from it.
\* barred: history, a sign-out everywhere had closed its session before it began.
Idle == [pc |-> "idle", op |-> "act", from |-> "cli", cookie |-> NoCookie,
         header |-> None, pw |-> None, key |-> None, sess |-> None,
         to |-> "login", jar |-> "keep", early |-> FALSE, blind |-> FALSE,
         barred |-> FALSE]

\* A secret that is drawn is one that nobody has heard of.
Known == {secret} \cup {cookie[b].key : b \in Browser}
  \cup (UNION {{req[r].key, req[r].cookie.key} : r \in Request})
Fresh == Secret \ Known

Init ==
  /\ hash = None /\ secret = None
  /\ row = [i \in Sessions |-> "none"] /\ opened = None
  /\ cookie = [b \in Browser |-> NoCookie]
  /\ doc = [b \in Browser |-> Blank]
  /\ req = [r \in Request |-> Idle]
  /\ signedOut = None

-------------------------------------------------------------------------------
(* Sending *)

\* The router: setup and login are public, the rest is behind require_auth.
Entry(op) ==
  CASE op \in {"get_setup", "get_login"} \cup PublicPosts -> "hash"
    [] op = "init" -> "set_hash"
    [] OTHER -> "gate"

FirstRun == hash = None \/ secret = None

Arrives(b, op, pw, c) ==
  LET new == [Idle EXCEPT !.pc = Entry(op), !.op = op, !.from = b, !.pw = pw]
  IN IF Entry(op) = "hash" THEN [new EXCEPT !.early = FirstRun /\ op \in PublicPosts]
     ELSE [new EXCEPT !.cookie = c, !.barred = c.id \in 1..signedOut,
                      !.header = IF op \in GuardedPosts /\ doc[b].script
                                 THEN doc[b].meta ELSE None]

\* Ids are used up by logins: the bound leaves one for each that is under way.
Room == opened + Cardinality({r \in Request : req[r].op = "post_login"}) < MaxSession

\* A page loaded in full when there is no document, or a boosted link.
Visit(r, b) ==
  /\ req[r] = Idle
  /\ \E op \in Links(doc[b].page) : req' = [req EXCEPT ![r] = Arrives(b, op, None, cookie[b])]
  /\ UNCHANGED <<settingVars, sessionVars, browserVars, signedOut>>

\* The browser leaves the document for another address: what the document was
\* waiting for goes on in the server and is answered to nobody.
Leave(b) ==
  /\ doc[b] # Blank
  /\ doc' = [doc EXCEPT ![b] = Blank]
  /\ req' = [r \in Request |->
       IF req[r].from # b THEN req[r]
       ELSE IF req[r].pc = "answer" THEN Idle ELSE [req[r] EXCEPT !.from = "cli"]]
  /\ UNCHANGED <<settingVars, sessionVars, cookie, signedOut>>

\* A control of the page.  None as a password: a wrong one, or a form that
\* does not pass (empty, or not confirmed); change_password answers such a form
\* as an "act".
Submit(r, b) ==
  /\ req[r] = Idle
  /\ \E op \in Posts(doc[b].page), pw \in Password \cup {None} :
       /\ IF op = "change_password" THEN pw # None ELSE op \in PublicPosts \/ pw = None
       /\ op = "post_login" => Room
       /\ req' = [req EXCEPT ![r] = Arrives(b, op, pw, cookie[b])]
  /\ UNCHANGED <<settingVars, sessionVars, browserVars, signedOut>>

\* `rusno init`: with --admin-password it writes the password unasked; then, or
\* without one at once, it ensures a secret.
RunInit(r) ==
  /\ req[r] = Idle
  /\ \E pw \in Password \cup {None} :
       req' = [req EXCEPT ![r] = [Idle EXCEPT !.pc = IF pw = None THEN "secret" ELSE "set_hash",
                                    !.op = "init", !.pw = pw, !.early = FirstRun]]
  /\ UNCHANGED <<settingVars, sessionVars, browserVars, signedOut>>

-------------------------------------------------------------------------------
(* Setup and login *)

At(r, pc) == req[r].pc = pc
Goto(r, pc) == req' = [req EXCEPT ![r].pc = pc]
\* The end of init, and an answer that leaves the document and the cookie alone.
Done(r) == req' = [req EXCEPT ![r] = Idle]
\* The answer to a browser that has left reaches nobody.
Reply(r, answer) ==
  IF req[r].from = "cli" THEN Done(r)
  ELSE req' = [req EXCEPT ![r] = [answer EXCEPT !.pc = "answer", !.from = req[r].from]]
\* An answer is a page or a redirect; only a page of a session shows its token.
Answer(r, to) ==
  Reply(r, [Idle EXCEPT !.to = to, !.sess = IF to \in Pages THEN req[r].sess ELSE None])

\* What a read of a setting gives a handler that takes an error for no value.
ReadOf(setting) == {setting, None}

\* Mutant of ReadHash: post_setup does not look for a password.
ReadHashForLogin(r) ==
  /\ At(r, "hash")
  /\ \E found \in ReadOf(hash) :
       CASE req[r].op = "post_setup" -> Goto(r, "set_hash")
         [] req[r].op = "post_login" /\ found # None /\ req[r].pw = found -> Goto(r, "secret")
         [] OTHER -> Answer(r, IF found = None THEN "setup" ELSE "login")
  /\ UNCHANGED <<settingVars, sessionVars, browserVars, signedOut>>

\* The read of admin_password_hash that each public handler begins with.
ReadHash(r) ==
  /\ At(r, "hash")
  /\ \E found \in ReadOf(hash) :
       CASE req[r].op = "get_setup" ->
              Answer(r, IF found # None THEN "get_login" ELSE "setup")
         [] req[r].op = "get_login" ->
              Answer(r, IF found = None THEN "get_setup" ELSE "login")
         [] req[r].op = "post_setup" ->
              IF found # None THEN Answer(r, "get_login")
              ELSE IF req[r].pw = None THEN Answer(r, "get_setup")
              ELSE req' = [req EXCEPT ![r].pc = "set_hash", ![r].blind = hash # None]
         [] OTHER ->
              IF found = None THEN Answer(r, "get_setup")
              ELSE IF req[r].pw # found THEN Answer(r, "login")
              ELSE Goto(r, "secret")
  /\ UNCHANGED <<settingVars, sessionVars, browserVars, signedOut>>

\* A write that fails is answered with an error, as if it was Dropped, but for
\* change_password, which does not look.
SetHash(r) ==
  /\ At(r, "set_hash")
  /\ hash' \in {req[r].pw} \cup (IF req[r].op = "change_password" THEN {hash} ELSE {})
  /\ IF req[r].op = "change_password" THEN Answer(r, "get_settings") ELSE Goto(r, "secret")
  /\ UNCHANGED <<secret, sessionVars, browserVars, signedOut>>

\* Where post_setup, init and post_login ensure the secret.  A login also draws
\* one when its read fails; post_setup goes on without, and init is Dropped.
ReadSecret(r) ==
  /\ At(r, "secret")
  /\ \/ /\ secret = None \/ req[r].op = "post_login"
        /\ \E s \in Fresh :
             req' = [req EXCEPT ![r].pc = "set_secret", ![r].key = s,
                                ![r].blind = @ \/ secret # None]
     \/ /\ secret # None /\ req[r].op = "post_login"
        /\ req' = [req EXCEPT ![r].pc = "insert", ![r].key = secret]
     \/ /\ req[r].op = "post_setup" \/ (req[r].op = "init" /\ secret # None)
        /\ Answer(r, "get_login")
  /\ UNCHANGED <<settingVars, sessionVars, browserVars, signedOut>>

SetSecret(r) ==
  /\ At(r, "set_secret")
  /\ secret' = req[r].key
  /\ IF req[r].op = "post_login" THEN Goto(r, "insert")
     ELSE Answer(r, "get_login")
  /\ UNCHANGED <<hash, sessionVars, browserVars, signedOut>>

\* The redirect of a login, with the signed cookie.
Welcome(r, id) ==
  Reply(r, [Idle EXCEPT !.to = "get_app", !.jar = "set", !.sess = id, !.key = req[r].key])

\* Mutant of CreateSession: the counter of ids is not advanced.
CreateReused(r) ==
  /\ At(r, "insert")
  /\ row' = [row EXCEPT ![opened + 1] = "valid"]
  /\ Welcome(r, opened + 1)
  /\ UNCHANGED <<settingVars, opened, browserVars, signedOut>>

CreateSession(r) ==
  /\ At(r, "insert")
  /\ opened' = opened + 1
  /\ row' = [row EXCEPT ![opened'] = "valid"]
  /\ Welcome(r, opened')
  /\ UNCHANGED <<settingVars, browserVars, signedOut>>

-------------------------------------------------------------------------------
(* require_auth and the handlers behind it *)

GateSecret(r) ==
  /\ At(r, "gate")
  /\ \E found \in ReadOf(secret) :
       IF found = None THEN Answer(r, "get_setup")
       ELSE req' = [req EXCEPT ![r].pc = "lookup", ![r].key = found]
  /\ UNCHANGED <<settingVars, sessionVars, browserVars, signedOut>>

CsrfPasses(r) == req[r].op \in GuardedPosts => req[r].header = req[r].cookie.id

\* session_from_cookie, and the CSRF check, which awaits nothing after it.  A
\* look-up that fails finds no session.
LookUp(r) ==
  LET c == req[r].cookie
      found == c.id \in live /\ c.key = req[r].key
  IN
  /\ At(r, "lookup")
  /\ \/ Answer(r, "get_login")
     \/ found /\ row[c.id] = "lapsed" /\ Goto(r, "expire")
     \/ found /\ row[c.id] = "valid" /\ ~CsrfPasses(r) /\ Done(r)
     \/ /\ found /\ row[c.id] = "valid" /\ CsrfPasses(r)
        /\ req' = [req EXCEPT ![r].pc = "touch", ![r].sess = c.id, ![r].cookie = NoCookie,
                               ![r].header = None, ![r].key = None]
  /\ UNCHANGED <<settingVars, sessionVars, browserVars, signedOut>>

\* The handlers ignore it when one of the writes below fails (`let _`).
DeleteExpired(r) ==
  /\ At(r, "expire")
  /\ row' \in {row, [row EXCEPT ![req[r].cookie.id] = "none"]}
  /\ Answer(r, "get_login")
  /\ UNCHANGED <<settingVars, opened, browserVars, signedOut>>

\* Mutant of Touch: an upsert.
TouchUpserts(r) ==
  /\ At(r, "touch")
  /\ row' = [row EXCEPT ![req[r].sess] = "valid"]
  /\ Goto(r, "handle")
  /\ UNCHANGED <<settingVars, opened, browserVars, signedOut>>

\* An UPDATE: it finds no row when the session was closed in between, and the
\* request goes on all the same.
Touch(r) ==
  /\ At(r, "touch")
  /\ \/ row' = row
     \/ req[r].sess \in live /\ row' = [row EXCEPT ![req[r].sess] = "valid"]
  /\ Goto(r, "handle")
  /\ UNCHANGED <<settingVars, opened, browserVars, signedOut>>

\* Pages, and the handlers that leave the session and the password alone.
HandlePage(r) ==
  /\ At(r, "handle")
  /\ \/ req[r].op \in {"get_app", "get_settings"} /\ Answer(r, PageOf(req[r].op))
     \/ req[r].op = "act" /\ Done(r)
     \/ req[r].op = "change_password" /\ Goto(r, "set_hash")
  /\ UNCHANGED <<settingVars, sessionVars, browserVars, signedOut>>

Leaves(r) == Reply(r, [Idle EXCEPT !.to = "get_login", !.jar = "clear"])

HandleLogout(r) ==
  /\ At(r, "handle") /\ req[r].op = "logout"
  /\ row' \in {row, [row EXCEPT ![req[r].sess] = "none"]}
  /\ Leaves(r)
  /\ UNCHANGED <<settingVars, opened, browserVars, signedOut>>

\* Mutant of HandleSignOut: it ends the caller's session only.
SignOutHere(r) ==
  /\ At(r, "handle") /\ req[r].op = "sign_out"
  /\ row' = [row EXCEPT ![req[r].sess] = "none"]
  /\ signedOut' = opened
  /\ Leaves(r)
  /\ UNCHANGED <<settingVars, opened, browserVars>>

\* signedOut counts the sign-outs whose DELETE took place.
HandleSignOut(r) ==
  /\ At(r, "handle") /\ req[r].op = "sign_out"
  /\ \/ row' = [i \in Sessions |-> "none"] /\ signedOut' = opened
     \/ UNCHANGED <<row, signedOut>>
  /\ Leaves(r)
  /\ UNCHANGED <<settingVars, opened, browserVars>>

-------------------------------------------------------------------------------
(* Answers *)

Jar(r) ==
  CASE req[r].jar = "set" -> [id |-> req[r].sess, key |-> req[r].key]
    [] req[r].jar = "clear" -> NoCookie
    [] OTHER -> cookie[req[r].from]

\* The document after a page arrives.  Without one the page is loaded in full
\* and has a head of its own; a boosted one leaves the head that is there.  The settings page runs
\* CSRF_SCRIPT, which binds what token it finds in the head.
Shown(r) ==
  LET old == doc[req[r].from]
      page == req[r].to
      meta == IF old # Blank THEN old.meta
              ELSE IF page \in {"app", "settings"} THEN req[r].sess ELSE None
  IN [page |-> page, meta |-> meta,
      script |-> old.script \/ (page = "settings" /\ meta # None)]

\* The browser takes the cookie, and follows a redirect in the same way as it
\* sent the request.
Deliver(r) ==
  LET b == req[r].from IN
  /\ At(r, "answer")
  /\ cookie' = [cookie EXCEPT ![b] = Jar(r)]
  /\ \/ /\ req[r].to \in Gets
        /\ req' = [req EXCEPT ![r] = Arrives(b, req[r].to, None, Jar(r))]
        /\ doc' = doc
     \/ /\ req[r].to \in Pages
        /\ doc' = [doc EXCEPT ![b] = Shown(r)]
        /\ req' = [req EXCEPT ![r] = Idle]
  /\ UNCHANGED <<settingVars, sessionVars, signedOut>>

\* The caller goes away, the server stops or init is interrupted: what was
\* awaited is never continued, and the browser keeps what it shows.
Dropped(r) ==
  /\ req[r] # Idle
  /\ req' = [req EXCEPT ![r] = Idle]
  /\ UNCHANGED <<settingVars, sessionVars, browserVars, signedOut>>

\* SESSION_TTL_SECS pass without a request of the session, or since the login:
\* the cookie's Max-Age counts from there and no later answer renews it.
RowLapses(i) ==
  /\ row[i] = "valid"
  /\ row' = [row EXCEPT ![i] = "lapsed"]
  /\ UNCHANGED <<settingVars, opened, browserVars, req, signedOut>>

CookieLapses(b) ==
  /\ cookie[b] # NoCookie
  /\ cookie' = [cookie EXCEPT ![b] = NoCookie]
  /\ UNCHANGED <<settingVars, sessionVars, doc, req, signedOut>>

Public(r) ==
  ReadHash(r) \/ SetHash(r) \/ ReadSecret(r) \/ SetSecret(r) \/ CreateSession(r)
Protected(r) ==
  \/ GateSecret(r) \/ LookUp(r) \/ DeleteExpired(r) \/ Touch(r)
  \/ HandlePage(r) \/ HandleLogout(r) \/ HandleSignOut(r)
Step(r) == Public(r) \/ Protected(r) \/ Deliver(r)

Next ==
  \/ \E r \in Request :
       \/ Step(r) \/ Dropped(r) \/ RunInit(r)
       \/ \E b \in Browser : Visit(r, b) \/ Submit(r, b)
  \/ \E i \in Sessions : RowLapses(i)
  \/ \E b \in Browser : CookieLapses(b) \/ Leave(b)

Spec == Init /\ [][Next]_vars

-------------------------------------------------------------------------------
(* Properties *)

Cookies == [id : 0..MaxSession, key : Secret \cup {None}]
TypeOK ==
  /\ hash \in Password \cup {None} /\ secret \in Secret \cup {None}
  /\ live \subseteq 1..opened /\ opened \in 0..MaxSession
  /\ row \in [Sessions -> {"none", "valid", "lapsed"}] /\ signedOut \in 0..opened
  /\ cookie \in [Browser -> Cookies]
  /\ doc \in [Browser -> [page : Pages \cup {"blank"}, meta : 0..MaxSession, script : BOOLEAN]]
  /\ req \in [Request ->
       [pc : {"idle", "hash", "set_hash", "secret", "set_secret", "insert", "gate", "lookup",
              "expire", "touch", "handle", "answer"},
        op : Ops, from : Browser \cup {"cli"}, cookie : Cookies,
        header : 0..MaxSession, pw : Password \cup {None}, key : Secret \cup {None}, sess : 0..MaxSession,
        to : Pages \cup Gets, jar : {"keep", "set", "clear"},
        early : BOOLEAN, blind : BOOLEAN, barred : BOOLEAN]]

\* A session that was closed stays closed, whatever request was looking at it
\* at the time: the touch of require_auth brings no row back (auth.rs:96).
NoResurrection == [][\A i \in 1..opened : i \notin live => i \notin live']_vars

\* A request that begins after a sign-out everywhere is served with a session
\* of a later login only, on every browser (routes/settings.rs:340).
SignedOutStaysOut ==
  \A r \in Request :
    req[r].pc \in {"touch", "handle"} => ~req[r].barred

\* Once there is a password and a secret the wizard is closed and the secret is
\* kept: what begins later writes a password only as `rusno init` or as the
\* change of a session, and never a secret, which would end every session.  There
\* are two exceptions: requests that were under way then, their check and their
\* write being awaits apart (routes/auth.rs:73, routes/auth.rs:96, main.rs:174), and
\* those from which a failed read hid what there is: the code takes an error of the
\* read for no value (routes/auth.rs:73, routes/auth.rs:139).
FirstRunCloses ==
  \A r \in Request :
    req[r].pc \in {"set_hash", "set_secret"} =>
      \/ req[r].early \/ req[r].blind
      \/ req[r].pc = "set_hash" /\ req[r].op \in {"init", "change_password"}

\* docs/03-features.md:9: "every state-changing HTMX request sends
\* `X-CSRF-Token` from a meta tag injected into each page".
PostsCarryToken ==
  \A r \in Request : req[r].pc = "gate" /\ req[r].op = "act" => req[r].header # None

===============================================================================
