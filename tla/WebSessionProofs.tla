--------------------------- MODULE WebSessionProofs ----------------------------
(* Theorems about WebSession: what a closed session, a sign-out everywhere and *)
(* the end of the first run mean for the requests that interleave with them.   *)
EXTENDS WebSession, FiniteSetTheorems, TLAPS

ReqType ==
  [pc : {"idle", "hash", "set_hash", "secret", "set_secret", "insert", "gate", "lookup",
         "expire", "touch", "handle", "answer"},
   op : Ops, from : Browser \cup {"cli"}, cookie : Cookies,
   header : 0..MaxSession, pw : Password \cup {None}, key : Secret \cup {None},
   sess : 0..MaxSession, to : Pages \cup Gets, jar : {"keep", "set", "clear"},
   early : BOOLEAN, blind : BOOLEAN, barred : BOOLEAN]
Typed == req \in [Request -> ReqType]

\* Which requests come to which step, and what they write there is something.
Stage(r) ==
  /\ At(r, "hash") => req[r].op \in {"get_setup", "get_login"} \cup PublicPosts
  /\ At(r, "set_hash") =>
       req[r].op \in {"post_setup", "init", "change_password"} /\ req[r].pw # None
  /\ At(r, "secret") \/ At(r, "set_secret") =>
       req[r].op \in {"post_setup", "post_login", "init"}
  /\ At(r, "set_secret") => req[r].key # None
  /\ At(r, "insert") => req[r].op = "post_login"
  /\ req[r].op = "change_password" => req[r].pw # None
  /\ At(r, "answer") => req[r].from \in Browser /\ req[r].op = "act"

\* A request that began after the sign-out of its session still has the cookie of
\* a session that is closed, and does not come past the look-up with it.
Barred(r) ==
  /\ At(r, "gate") \/ At(r, "lookup") \/ At(r, "expire") =>
       (req[r].barred => req[r].cookie.id \in 1..signedOut)
  /\ At(r, "touch") \/ At(r, "handle") => ~req[r].barred

\* While the first run lasts, every setup, login and init under way began in it;
\* what writes a password or a secret later is blind.
Early(r) ==
  /\ req[r].op \in PublicPosts \cup {"init"} => req[r].early \/ ~FirstRun
  /\ At(r, "set_hash") /\ req[r].op = "post_setup" => req[r].early \/ req[r].blind
  /\ At(r, "set_secret") => req[r].early \/ req[r].blind

Good(r) == Stage(r) /\ Barred(r) /\ Early(r)

\* Each login under way has an id left (Room), which keeps ids within the bound.
Logins == {r \in Request : req[r].op = "post_login"}
IdsLeft == opened + Cardinality(Logins) <= MaxSession

\* A sign-out everywhere left no session of before it, and none comes back.
SignedOutClosed == \A i \in 1..signedOut : i \notin live

SessionInv ==
  TypeOK /\ IdsLeft /\ SignedOutClosed /\ \A r \in Request : Good(r)

--------------------------------------------------------------------------------
(* Requests.                                                                   *)

LEMMA IdleType == Idle \in ReqType
  BY SessionAssumption
     DEF Idle, ReqType, Ops, Gets, PublicPosts, GuardedPosts, Cookies, NoCookie, None, Pages

\* Replacing one request leaves the others alone.
Becomes(r, new) ==
  /\ Typed' /\ req'[r] = new
  /\ \A q \in Request \ {r} : req'[q] = req[q]

LEMMA Update ==
  ASSUME Typed, NEW r \in Request, NEW new \in ReqType, req' = [req EXCEPT ![r] = new]
  PROVE  Becomes(r, new)
  BY DEF Typed, Becomes

LEMMA DoneBecomes ==
  ASSUME Typed, NEW r \in Request, Done(r)
  PROVE  Becomes(r, Idle)
  BY IdleType, Update DEF Done

LEMMA GotoBecomes ==
  ASSUME Typed, NEW r \in Request,
         NEW to \in {"set_hash", "secret", "insert", "expire", "handle"}, Goto(r, to)
  PROVE  Becomes(r, [req[r] EXCEPT !.pc = to])
  <1>1. req[r] \in ReqType
    BY DEF Typed
  <1>2. [req[r] EXCEPT !.pc = to] \in ReqType
    BY <1>1 DEF ReqType
  <1>3. req' = [req EXCEPT ![r] = [req[r] EXCEPT !.pc = to]]
    BY DEF Goto, Typed
  <1> QED
    BY <1>2, <1>3, Update

\* A request that is answered, or ended, does nothing more in the server.
Answered(r) ==
  \E new \in ReqType :
    /\ Becomes(r, new) /\ new.pc \in {"idle", "answer"} /\ new.op = "act"
    /\ new.pc = "answer" => new.from \in Browser

LEMMA DoneAnswers ==
  ASSUME Typed, NEW r \in Request, Done(r)
  PROVE  Answered(r)
  BY DoneBecomes, IdleType DEF Answered, Idle

LEMMA ReplyAnswers ==
  ASSUME Typed, NEW r \in Request, NEW a \in ReqType, a.op = "act", Reply(r, a)
  PROVE  Answered(r)
  <1>1. CASE Done(r)
    BY <1>1, DoneAnswers
  <1>2. CASE /\ req[r].from # "cli"
             /\ req' = [req EXCEPT ![r] = [a EXCEPT !.pc = "answer", !.from = req[r].from]]
    <2>1. req[r] \in ReqType
      BY DEF Typed
    <2> DEFINE new == [a EXCEPT !.pc = "answer", !.from = req[r].from]
    <2>2. /\ new \in ReqType /\ new.pc = "answer" /\ new.op = "act"
          /\ new.from = req[r].from
      BY <2>1 DEF ReqType
    <2>4. req[r].from \in Browser
      BY <1>2, <2>1 DEF ReqType
    <2> HIDE DEF new
    <2>3. req' = [req EXCEPT ![r] = new]
      BY <1>2 DEF new
    <2> QED
      BY <2>2, <2>3, <2>4, Update DEF Answered
  <1> QED
    BY <1>1, <1>2 DEF Reply

LEMMA AnswerAnswers ==
  ASSUME Typed, NEW r \in Request, NEW to \in Pages \cup Gets, Answer(r, to)
  PROVE  Answered(r)
  <1> DEFINE sess == IF to \in Pages THEN req[r].sess ELSE None
             a == [Idle EXCEPT !.to = to, !.sess = sess]
  <1>1. req[r] \in ReqType
    BY DEF Typed
  <1>2. sess \in 0..MaxSession
    BY <1>1, SessionAssumption DEF ReqType, None
  <1> HIDE DEF sess
  <1>3. a \in ReqType /\ a.op = "act"
    BY <1>2, IdleType DEF ReqType, Idle
  <1> HIDE DEF a
  <1>4. Reply(r, a)
    BY DEF Answer, a, sess
  <1> QED
    BY <1>3, <1>4, ReplyAnswers

\* The answers that take the cookie along.
LEMMA JarAnswers ==
  ASSUME Typed, NEW r \in Request, NEW id \in 0..MaxSession, Welcome(r, id) \/ Leaves(r)
  PROVE  Answered(r)
  <1>1. req[r] \in ReqType
    BY DEF Typed
  <1>2. req[r].key \in Secret \cup {None}
    BY <1>1 DEF ReqType
  <1>3. CASE Welcome(r, id)
    <2> DEFINE key == req[r].key
               a == [Idle EXCEPT !.to = "get_app", !.jar = "set", !.sess = id, !.key = key]
    <2> HIDE DEF key
    <2>1. a \in ReqType /\ a.op = "act"
      BY <1>2, IdleType DEF ReqType, Idle, Gets, key
    <2> HIDE DEF a
    <2>2. Reply(r, a)
      BY <1>3 DEF Welcome, a, key
    <2> QED
      BY <2>1, <2>2, ReplyAnswers
  <1>4. CASE Leaves(r)
    <2> DEFINE a == [Idle EXCEPT !.to = "get_login", !.jar = "clear"]
    <2>1. a \in ReqType /\ a.op = "act"
      BY IdleType DEF ReqType, Idle, Gets
    <2> HIDE DEF a
    <2>2. Reply(r, a)
      BY <1>4 DEF Leaves, a
    <2> QED
      BY <2>1, <2>2, ReplyAnswers
  <1> QED
    BY <1>3, <1>4

\* What a browser sends.
LEMMA ArrivesAt ==
  ASSUME TypeOK, NEW b \in Browser, NEW op \in Gets \cup PublicPosts \cup GuardedPosts,
         NEW pw \in Password \cup {None}, NEW c \in Cookies
  PROVE  /\ Arrives(b, op, pw, c) \in ReqType
         /\ Arrives(b, op, pw, c).op = op /\ Arrives(b, op, pw, c).pw = pw
         /\ Arrives(b, op, pw, c).pc = Entry(op) /\ Entry(op) \in {"hash", "gate"}
         /\ op \in PublicPosts \/ Entry(op) = "hash" =>
              op \in {"get_setup", "get_login"} \cup PublicPosts
         /\ op \in PublicPosts => Arrives(b, op, pw, c).early = FirstRun
         /\ Arrives(b, op, pw, c).barred => Arrives(b, op, pw, c).cookie.id \in 1..signedOut
  <1> DEFINE new == [Idle EXCEPT !.pc = Entry(op), !.op = op, !.from = b, !.pw = pw]
             early == FirstRun /\ op \in PublicPosts
             barred == c.id \in 1..signedOut
             header == IF op \in GuardedPosts /\ doc[b].script THEN doc[b].meta ELSE None
  <1>1. Entry(op) = IF op \in {"get_setup", "get_login"} \cup PublicPosts THEN "hash" ELSE "gate"
    BY DEF Entry, Gets, PublicPosts, GuardedPosts
  <1>2. /\ new \in ReqType /\ new.op = op /\ new.pw = pw /\ new.pc = Entry(op)
        /\ new.barred = FALSE
    BY <1>1, IdleType DEF ReqType, Idle, Ops
  <1>3. early \in BOOLEAN /\ barred \in BOOLEAN /\ header \in 0..MaxSession
    BY SessionAssumption DEF TypeOK, None
  <1>4. Arrives(b, op, pw, c) =
          IF Entry(op) = "hash" THEN [new EXCEPT !.early = early]
          ELSE [new EXCEPT !.cookie = c, !.barred = barred, !.header = header]
    BY DEF Arrives
  <1> HIDE DEF new, early, barred, header
  <1>5. CASE Entry(op) = "hash"
    <2>1. /\ [new EXCEPT !.early = early] \in ReqType
          /\ [new EXCEPT !.early = early].op = op /\ [new EXCEPT !.early = early].pw = pw
          /\ [new EXCEPT !.early = early].pc = Entry(op)
          /\ [new EXCEPT !.early = early].early = early
          /\ [new EXCEPT !.early = early].barred = FALSE
      BY <1>2, <1>3 DEF ReqType
    <2>2. op \in PublicPosts => early = FirstRun
      BY DEF early, FirstRun
    <2> QED
      BY <1>1, <1>4, <1>5, <2>1, <2>2
  <1>6. CASE Entry(op) # "hash"
    <2> DEFINE a == [new EXCEPT !.cookie = c, !.barred = barred, !.header = header]
    <2>1. /\ a \in ReqType /\ a.op = op /\ a.pw = pw /\ a.pc = Entry(op)
          /\ a.barred = barred /\ a.cookie = c
      BY <1>2, <1>3 DEF ReqType
    <2>2. barred => c.id \in 1..signedOut
      BY DEF barred
    <2> HIDE DEF a
    <2>3. Arrives(b, op, pw, c) = a
      BY <1>4, <1>6 DEF a
    <2> QED
      BY <1>1, <1>6, <2>1, <2>2, <2>3
  <1> QED
    BY <1>5, <1>6

--------------------------------------------------------------------------------
(* Ids of sessions.                                                            *)

\* One login more or less.
LEMMA LoginsCounted ==
  /\ Cardinality(Logins) \in Nat
  /\ \A r \in Logins : Cardinality(Logins) >= 1
  <1>1. Logins \subseteq Request /\ IsFiniteSet(Logins)
    BY RequestAssumption, FS_Subset DEF Logins
  <1>2. Cardinality(Logins) \in Nat
    BY <1>1, FS_CardinalityType
  <1>3. ASSUME NEW r \in Logins PROVE Cardinality(Logins) >= 1
    <2>1. Cardinality(Logins) # 0
      BY <1>1, FS_EmptySet
    <2> QED
      BY <1>2, <2>1
  <1> QED
    BY <1>2, <1>3

LEMMA LoginsChange ==
  ASSUME NEW r \in Request, \A q \in Request \ {r} : req'[q] = req[q]
  PROVE  /\ Cardinality(Logins') \in Nat
         /\ r \in Logins /\ r \notin Logins' => Cardinality(Logins') = Cardinality(Logins) - 1
         /\ r \in Logins \/ r \notin Logins' => Cardinality(Logins') <= Cardinality(Logins)
         /\ Cardinality(Logins') <= Cardinality(Logins) + 1
  <1>1. /\ Logins \subseteq Request /\ IsFiniteSet(Logins) /\ Cardinality(Logins) \in Nat
        /\ Logins' \subseteq Request
    BY RequestAssumption, FS_Subset, FS_CardinalityType DEF Logins
  <1>2. \A q \in Request \ {r} : q \in Logins' <=> q \in Logins
    BY DEF Logins
  <1>3. CASE r \in Logins /\ r \notin Logins'
    <2>1. Logins' = Logins \ {r}
      BY <1>1, <1>2, <1>3
    <2>2. Cardinality(Logins') = Cardinality(Logins) - 1
      BY <1>1, <1>3, <2>1, FS_RemoveElement
    <2>3. Cardinality(Logins) # 0
      BY <1>1, <1>3, FS_EmptySet
    <2> QED
      BY <1>1, <1>3, <2>2, <2>3
  <1>4. CASE r \notin Logins /\ r \in Logins'
    <2>1. Logins' = Logins \cup {r}
      BY <1>1, <1>2, <1>4
    <2>2. Cardinality(Logins') = Cardinality(Logins) + 1
      BY <1>1, <1>4, <2>1, FS_AddElement
    <2> QED
      BY <1>1, <1>4, <2>2
  <1>5. CASE r \in Logins' <=> r \in Logins
    <2>1. Logins' = Logins
      BY <1>1, <1>2, <1>5
    <2> QED
      BY <1>1, <1>5, <2>1
  <1> QED
    BY <1>3, <1>4, <1>5

--------------------------------------------------------------------------------
(* A request moves on.                                                         *)

\* The first run does not begin again, nor is a sign-out everywhere taken back.
Onward == (FirstRun' => FirstRun) /\ signedOut' = signedOut

Advanced(r) ==
  /\ Typed' /\ \A q \in Request \ {r} : req'[q] = req[q]
  /\ Good(r)' /\ (req'[r].op = "post_login" => req[r].op = "post_login")

LEMMA AnsweredAdvances ==
  ASSUME NEW r \in Request, Answered(r)
  PROVE  Advanced(r) /\ r \notin Logins'
  <1>1. /\ Typed' /\ \A q \in Request \ {r} : req'[q] = req[q]
        /\ req'[r].pc \in {"idle", "answer"} /\ req'[r].op = "act"
        /\ req'[r].pc = "answer" => req'[r].from \in Browser
    BY DEF Answered, Becomes
  <1> QED
    BY <1>1 DEF Advanced, Good, Stage, Barred, Early, At, PublicPosts, Logins

\* What the request must have found where it goes on to.
MayGo(r, to) ==
  CASE to = "set_hash" ->
         /\ req[r].op \in {"post_setup", "init", "change_password"} /\ req[r].pw # None
         /\ req[r].op = "post_setup" => req[r].early \/ req[r].blind
    [] to = "secret" -> req[r].op \in {"post_setup", "post_login", "init"}
    [] to = "insert" -> req[r].op = "post_login"
    [] to = "expire" -> At(r, "lookup")
    [] to = "handle" -> At(r, "touch")

LEMMA GotoAdvances ==
  ASSUME Typed, Onward, NEW r \in Request, Good(r),
         NEW to \in {"set_hash", "secret", "insert", "expire", "handle"},
         Goto(r, to), MayGo(r, to)
  PROVE  Advanced(r)
  <1>1. Becomes(r, [req[r] EXCEPT !.pc = to])
    BY GotoBecomes
  <1>2. req[r] \in ReqType
    BY DEF Typed
  <1>3. /\ req'[r].pc = to /\ req'[r].op = req[r].op /\ req'[r].pw = req[r].pw
        /\ req'[r].early = req[r].early /\ req'[r].blind = req[r].blind
        /\ req'[r].barred = req[r].barred /\ req'[r].cookie = req[r].cookie
    BY <1>1, <1>2 DEF Becomes, ReqType
  <1>4. Stage(r)'
    BY <1>3 DEF MayGo, Good, Stage, At
  <1>5. Barred(r)'
    BY <1>3 DEF Onward, MayGo, Good, Barred, At
  <1>6. Early(r)'
    <2>1. req'[r].op \in PublicPosts \cup {"init"} => req'[r].early \/ ~FirstRun'
      BY <1>3 DEF Onward, Good, Early
    <2>2. to = "set_hash" /\ req'[r].op = "post_setup" => req'[r].early \/ req'[r].blind
      BY <1>3 DEF MayGo
    <2> QED
      BY <1>3, <2>1, <2>2 DEF Early, At, FirstRun
  <1> QED
    BY <1>1, <1>3, <1>4, <1>5, <1>6 DEF Advanced, Good, Becomes

LEMMA PublicAdvances ==
  ASSUME SessionInv, NEW r \in Request, Public(r)
  PROVE  Advanced(r)
  <1>1. Typed /\ Good(r) /\ req[r] \in ReqType
    BY DEF SessionInv, TypeOK, Typed, ReqType
  <1>2. CASE ReadHash(r)
    <2>1. Onward /\ At(r, "hash")
      BY <1>2 DEF ReadHash, Onward, FirstRun, settingVars
    <2>2. ASSUME NEW to \in Pages \cup Gets, Answer(r, to) PROVE Advanced(r)
      BY <1>1, <2>2, AnswerAnswers, AnsweredAdvances
    <2>3. CASE /\ req[r].op = "post_setup" /\ req[r].pw # None
               /\ req' = [req EXCEPT ![r].pc = "set_hash", ![r].blind = hash # None]
      <3> DEFINE blind == hash # None
                 new == [req[r] EXCEPT !.pc = "set_hash", !.blind = blind]
      <3>1. blind \in BOOLEAN /\ (req[r].early \/ blind)
        BY <1>1, <2>3 DEF Good, Early, FirstRun, PublicPosts
      <3> HIDE DEF blind
      <3>2. /\ new \in ReqType /\ new.pc = "set_hash" /\ new.blind = blind
            /\ new.op = req[r].op /\ new.pw = req[r].pw /\ new.early = req[r].early
        BY <1>1, <3>1 DEF ReqType
      <3>3. req' = [req EXCEPT ![r] = new]
        BY <1>1, <2>3 DEF Typed, blind
      <3> HIDE DEF new
      <3>4. Becomes(r, new)
        BY <1>1, <3>2, <3>3, Update
      <3>5. Early(r)'
        BY <1>1, <2>1, <2>3, <3>1, <3>2, <3>4
           DEF Becomes, Good, Early, FirstRun, At, Onward, PublicPosts
      <3>6. Stage(r)' /\ Barred(r)'
        BY <1>1, <2>3, <3>2, <3>4 DEF Becomes, Good, Stage, Barred, At
      <3> QED
        BY <2>3, <3>2, <3>4, <3>5, <3>6 DEF Advanced, Becomes, Good
    <2>4. CASE Goto(r, "secret") /\ req[r].op = "post_login"
      BY <1>1, <2>1, <2>4, GotoAdvances DEF MayGo
    <2>5. PICK found \in {hash, None} :
            CASE req[r].op = "get_setup" ->
                   Answer(r, IF found # None THEN "get_login" ELSE "setup")
              [] req[r].op = "get_login" ->
                   Answer(r, IF found = None THEN "get_setup" ELSE "login")
              [] req[r].op = "post_setup" ->
                   IF found # None THEN Answer(r, "get_login")
                   ELSE IF req[r].pw = None THEN Answer(r, "get_setup")
                   ELSE req' = [req EXCEPT ![r].pc = "set_hash", ![r].blind = hash # None]
              [] OTHER ->
                   IF found = None THEN Answer(r, "get_setup")
                   ELSE IF req[r].pw # found THEN Answer(r, "login")
                   ELSE Goto(r, "secret")
      BY <1>2 DEF ReadHash, ReadOf
    <2>6. {"setup", "login", "get_setup", "get_login"} \subseteq Pages \cup Gets
      BY DEF Pages, Gets
    <2>7. CASE req[r].op = "get_setup"
      BY <2>2, <2>5, <2>6, <2>7
    <2>8. CASE req[r].op = "get_login"
      BY <2>2, <2>5, <2>6, <2>8
    <2>9. CASE req[r].op = "post_setup"
      BY <2>2, <2>3, <2>5, <2>6, <2>9
    <2>10. CASE req[r].op = "post_login"
      BY <2>2, <2>4, <2>5, <2>6, <2>10
    <2> QED
      BY <1>1, <2>1, <2>7, <2>8, <2>9, <2>10 DEF Good, Stage, PublicPosts
  <1>3. CASE SetHash(r)
    <2>1. /\ hash' \in {hash, req[r].pw} /\ secret' = secret /\ signedOut' = signedOut
          /\ req[r].pw # None /\ req[r].op \in {"post_setup", "init", "change_password"}
      BY <1>1, <1>3 DEF SetHash, Good, Stage
    <2>2. Onward
      BY <2>1 DEF Onward, FirstRun
    <2>3. CASE req[r].op = "change_password"
      <3>1. Answer(r, "get_settings") /\ "get_settings" \in Gets
        BY <1>3, <2>3 DEF SetHash, Gets
      <3> QED
        BY <1>1, <3>1, AnswerAnswers, AnsweredAdvances
    <2>4. CASE req[r].op # "change_password"
      <3>1. Goto(r, "secret") /\ req[r].op \in {"post_setup", "init"}
        BY <1>3, <2>1, <2>4 DEF SetHash
      <3> QED
        BY <1>1, <2>2, <3>1, GotoAdvances DEF MayGo
    <2> QED
      BY <2>3, <2>4
  <1>4. CASE ReadSecret(r)
    <2>1. /\ Onward /\ UNCHANGED <<hash, secret>>
          /\ req[r].op \in {"post_setup", "post_login", "init"}
      BY <1>1, <1>4 DEF ReadSecret, Onward, FirstRun, settingVars, Good, Stage
    <2>2. CASE \E s \in Fresh :
                 req' = [req EXCEPT ![r].pc = "set_secret", ![r].key = s,
                                    ![r].blind = @ \/ secret # None]
      <3>1. PICK s \in Fresh : req' = [req EXCEPT ![r].pc = "set_secret", ![r].key = s,
                                                ![r].blind = @ \/ secret # None]
        BY <2>2
      <3>2. s \in Secret /\ s # None
        BY SecretAssumption DEF Fresh, None
      <3> DEFINE blind == req[r].blind \/ secret # None
                 new == [req[r] EXCEPT !.pc = "set_secret", !.key = s, !.blind = blind]
      <3>8. blind \in BOOLEAN
        BY <1>1 DEF ReqType
      <3>6. req[r].early \/ blind
        BY <1>1, <2>1 DEF Good, Early, FirstRun, PublicPosts
      <3>9. req' = [req EXCEPT ![r] = new]
        BY <1>1, <3>1 DEF Typed
      <3> HIDE DEF blind
      <3>3. /\ new \in ReqType /\ new.pc = "set_secret" /\ new.key = s /\ new.blind = blind
            /\ new.op = req[r].op /\ new.pw = req[r].pw /\ new.early = req[r].early
        BY <1>1, <3>2, <3>8 DEF ReqType
      <3> HIDE DEF new
      <3>5. Becomes(r, new)
        BY <1>1, <3>3, <3>9, Update
      <3>7. Good(r)'
        BY <1>1, <2>1, <3>2, <3>3, <3>5, <3>6 DEF Becomes, Good, Stage, Barred, Early, At, FirstRun
      <3> QED
        BY <3>3, <3>5, <3>7 DEF Advanced, Becomes
    <2>3. CASE /\ secret # None /\ req[r].op = "post_login"
               /\ req' = [req EXCEPT ![r].pc = "insert", ![r].key = secret]
      <3>1. req' = [req EXCEPT ![r].pc = "insert", ![r].key = secret]
        BY <2>3
      <3>2. secret \in Secret \cup {None}
        BY DEF SessionInv, TypeOK
      <3> DEFINE new == [req[r] EXCEPT !.pc = "insert", !.key = secret]
      <3>3. /\ new \in ReqType /\ new.pc = "insert"
            /\ new.op = req[r].op /\ new.pw = req[r].pw /\ new.early = req[r].early
        BY <1>1, <3>2 DEF ReqType
      <3>4. req' = [req EXCEPT ![r] = new]
        BY <1>1, <3>1 DEF Typed
      <3> HIDE DEF new
      <3>5. Becomes(r, new)
        BY <1>1, <3>3, <3>4, Update
      <3>6. Early(r)'
        BY <1>1, <2>1, <3>3, <3>5 DEF Becomes, Good, Early, FirstRun, At
      <3>7. Good(r)'
        BY <1>1, <2>3, <3>3, <3>5, <3>6 DEF Becomes, Good, Stage, Barred, At
      <3> QED
        BY <3>3, <3>5, <3>7 DEF Advanced, Becomes
    <2>4. CASE Answer(r, "get_login")
      <3>1. "get_login" \in Gets
        BY DEF Gets
      <3> QED
        BY <1>1, <2>4, <3>1, AnswerAnswers, AnsweredAdvances
    <2> QED
      BY <1>4, <2>2, <2>3, <2>4 DEF ReadSecret
  <1>5. CASE SetSecret(r)
    <2>1. /\ secret' = req[r].key /\ hash' = hash /\ signedOut' = signedOut
          /\ req[r].key # None
      BY <1>1, <1>5 DEF SetSecret, Good, Stage
    <2>2. Onward
      BY <2>1 DEF Onward, FirstRun
    <2>3. CASE req[r].op = "post_login"
      BY <1>1, <1>5, <2>2, <2>3, GotoAdvances DEF SetSecret, MayGo
    <2>4. CASE req[r].op # "post_login"
      <3>1. Answer(r, "get_login") /\ "get_login" \in Gets
        BY <1>5, <2>4 DEF SetSecret, Gets
      <3> QED
        BY <1>1, <3>1, AnswerAnswers, AnsweredAdvances
    <2> QED
      BY <2>3, <2>4
  <1>6. CASE CreateSession(r)
    <2>1. opened' = opened + 1 /\ opened \in 0..MaxSession /\ r \in Logins
      BY <1>1, <1>6 DEF CreateSession, SessionInv, TypeOK, Good, Stage, Logins
    <2>2. opened' \in 0..MaxSession
      <3>1. PICK n \in Nat : n = Cardinality(Logins) /\ n >= 1 /\ opened + n <= MaxSession
        BY <2>1, LoginsCounted DEF SessionInv, IdsLeft
      <3> QED
        BY <2>1, <3>1, SessionAssumption
    <2> QED
      BY <1>1, <1>6, <2>2, JarAnswers, AnsweredAdvances DEF CreateSession
  <1> QED
    BY <1>2, <1>3, <1>4, <1>5, <1>6 DEF Public

LEMMA ProtectedAdvances ==
  ASSUME SessionInv, NEW r \in Request, Protected(r)
  PROVE  Advanced(r)
  <1>1. Typed /\ Good(r) /\ req[r] \in ReqType
    BY DEF SessionInv, TypeOK, Typed, ReqType
  <1>2. ASSUME NEW to \in Pages \cup Gets, Answer(r, to) PROVE Advanced(r)
    BY <1>1, <1>2, AnswerAnswers, AnsweredAdvances
  <1>3. {"get_setup", "get_login"} \subseteq Pages \cup Gets
    BY DEF Gets
  <1>4. ASSUME Done(r) PROVE Advanced(r)
    BY <1>1, <1>4, DoneAnswers, AnsweredAdvances
  <1>5. CASE GateSecret(r)
    <2>1. Onward /\ At(r, "gate") /\ UNCHANGED <<hash, secret>>
      BY <1>5 DEF GateSecret, Onward, FirstRun, settingVars
    <2>2. CASE Answer(r, "get_setup")
      BY <1>2, <1>3, <2>2
    <2>3. CASE req' = [req EXCEPT ![r].pc = "lookup", ![r].key = secret]
      <3>1. req' = [req EXCEPT ![r].pc = "lookup", ![r].key = secret]
        BY <2>3
      <3>2. secret \in Secret \cup {None}
        BY DEF SessionInv, TypeOK
      <3> DEFINE new == [req[r] EXCEPT !.pc = "lookup", !.key = secret]
      <3>3. /\ new \in ReqType /\ new.pc = "lookup"
            /\ new.op = req[r].op /\ new.pw = req[r].pw /\ new.early = req[r].early
            /\ new.barred = req[r].barred /\ new.cookie = req[r].cookie
        BY <1>1, <3>2 DEF ReqType
      <3>4. req' = [req EXCEPT ![r] = new]
        BY <1>1, <3>1 DEF Typed
      <3> HIDE DEF new
      <3>5. Becomes(r, new)
        BY <1>1, <3>3, <3>4, Update
      <3>6. Early(r)'
        BY <1>1, <2>1, <3>3, <3>5 DEF Becomes, Good, Early, FirstRun, At
      <3>7. Stage(r)' /\ Barred(r)'
        BY <1>1, <2>1, <3>3, <3>5 DEF Becomes, Good, Stage, Barred, At, Onward
      <3> QED
        BY <3>3, <3>5, <3>6, <3>7 DEF Advanced, Becomes, Good
    <2> QED
      BY <1>5, <2>2, <2>3 DEF GateSecret, ReadOf
  <1>6. CASE LookUp(r)
    <2>1. Onward /\ At(r, "lookup") /\ UNCHANGED <<hash, secret>>
      BY <1>6 DEF LookUp, Onward, FirstRun, settingVars
    <2>2. CASE Goto(r, "expire")
      BY <1>1, <2>1, <2>2, GotoAdvances DEF MayGo
    <2>3. CASE /\ req[r].cookie.id \in live
               /\ req' = [req EXCEPT ![r].pc = "touch", ![r].sess = req[r].cookie.id,
                                     ![r].cookie = NoCookie, ![r].header = None, ![r].key = None]
      <3>1. req[r].cookie.id \in 0..MaxSession /\ NoCookie \in Cookies /\ None \in 0..MaxSession
        BY <1>1, SessionAssumption DEF ReqType, Cookies, NoCookie, None
      <3> DEFINE id == req[r].cookie.id
                 new == [req[r] EXCEPT !.pc = "touch", !.sess = id, !.cookie = NoCookie,
                                       !.header = None, !.key = None]
      <3> HIDE DEF id
      <3>2. /\ new \in ReqType /\ new.pc = "touch"
            /\ new.op = req[r].op /\ new.pw = req[r].pw /\ new.early = req[r].early
            /\ new.barred = req[r].barred
        BY <1>1, <3>1 DEF ReqType, id
      <3>3. req' = [req EXCEPT ![r] = new]
        BY <1>1, <2>3 DEF Typed, id
      <3> HIDE DEF new
      <3>4. Becomes(r, new)
        BY <1>1, <3>2, <3>3, Update
      <3>5. ~req[r].barred
        BY <1>1, <2>1, <2>3 DEF Good, Barred, SessionInv, SignedOutClosed
      <3>6. Early(r)'
        BY <1>1, <2>1, <3>2, <3>4 DEF Becomes, Good, Early, FirstRun, At
      <3>7. Stage(r)' /\ Barred(r)'
        BY <1>1, <2>1, <3>2, <3>4, <3>5 DEF Becomes, Good, Stage, Barred, At
      <3> QED
        BY <3>2, <3>4, <3>6, <3>7 DEF Advanced, Becomes, Good
    <2> QED
      BY <1>2, <1>3, <1>4, <1>6, <2>2, <2>3 DEF LookUp
  <1>7. CASE DeleteExpired(r)
    BY <1>2, <1>3, <1>7 DEF DeleteExpired
  <1>8. CASE Touch(r)
    <2>1. Onward /\ At(r, "touch") /\ Goto(r, "handle")
      BY <1>8 DEF Touch, Onward, FirstRun, settingVars
    <2> QED
      BY <1>1, <2>1, GotoAdvances DEF MayGo
  <1>9. CASE HandlePage(r)
    <2>1. Onward /\ At(r, "handle")
      BY <1>9 DEF HandlePage, Onward, FirstRun, settingVars
    <2>2. CASE req[r].op \in {"get_app", "get_settings"} /\ Answer(r, PageOf(req[r].op))
      <3>1. PageOf(req[r].op) \in Pages
        BY <2>2 DEF PageOf, Pages
      <3> QED
        BY <1>2, <2>2, <3>1
    <2>3. CASE req[r].op = "change_password" /\ Goto(r, "set_hash")
      <3>1. MayGo(r, "set_hash")
        BY <1>1, <2>3 DEF MayGo, Good, Stage
      <3> QED
        BY <1>1, <2>1, <2>3, <3>1, GotoAdvances
    <2> QED
      BY <1>4, <1>9, <2>2, <2>3 DEF HandlePage
  <1>10. CASE HandleLogout(r) \/ HandleSignOut(r)
    <2>1. Leaves(r) /\ 0 \in 0..MaxSession
      BY <1>10, SessionAssumption DEF HandleLogout, HandleSignOut
    <2> QED
      BY <1>1, <2>1, JarAnswers, AnsweredAdvances
  <1> QED
    BY <1>5, <1>6, <1>7, <1>8, <1>9, <1>10 DEF Protected

--------------------------------------------------------------------------------
(* Browsers.                                                                   *)

\* A request that a browser sends is one of its time.
LEMMA ArrivalAdvances ==
  ASSUME SessionInv, NEW r \in Request, NEW b \in Browser,
         NEW op \in Gets \cup PublicPosts \cup GuardedPosts, NEW pw \in Password \cup {None},
         NEW c \in Cookies, op = "change_password" => pw # None,
         req' = [req EXCEPT ![r] = Arrives(b, op, pw, c)],
         UNCHANGED <<hash, secret, signedOut>>
  PROVE  /\ Typed' /\ Good(r)' /\ \A q \in Request \ {r} : req'[q] = req[q]
         /\ req'[r].op = op
  <1> DEFINE new == Arrives(b, op, pw, c)
  <1>1. TypeOK /\ Typed
    BY DEF SessionInv, TypeOK, Typed, ReqType
  <1>2. /\ new \in ReqType /\ new.op = op /\ new.pw = pw /\ new.pc \in {"hash", "gate"}
        /\ new.pc = "hash" => op \in {"get_setup", "get_login"} \cup PublicPosts
        /\ op \in PublicPosts => new.early = FirstRun
        /\ new.barred => new.cookie.id \in 1..signedOut
    BY <1>1, ArrivesAt
  <1> HIDE DEF new
  <1>3. Becomes(r, new)
    BY <1>1, <1>2, Update DEF new
  <1>4. Stage(r)' /\ Barred(r)'
    BY <1>2, <1>3 DEF Becomes, Stage, Barred, At
  <1>5. Early(r)'
    <2>1. op # "init"
      BY DEF Gets, PublicPosts, GuardedPosts
    <2> QED
      BY <1>2, <1>3, <2>1 DEF Becomes, Early, At, FirstRun
  <1> QED
    BY <1>2, <1>3, <1>4, <1>5 DEF Becomes, Good

LEMMA OfferedOps ==
  /\ \A page : Links(page) \subseteq Gets
  /\ \A page : Posts(page) \subseteq PublicPosts \cup GuardedPosts
  BY DEF Links, Posts, Gets, PublicPosts, GuardedPosts

LEMMA JarType ==
  ASSUME TypeOK, NEW r \in Request, req[r].from \in Browser
  PROVE  Jar(r) \in Cookies
  BY SessionAssumption DEF TypeOK, Jar, Cookies, NoCookie, None

LEMMA ShownType ==
  ASSUME TypeOK, NEW r \in Request, req[r].from \in Browser, req[r].to \in Pages
  PROVE  Shown(r) \in [page : Pages \cup {"blank"}, meta : 0..MaxSession, script : BOOLEAN]
  <1>1. /\ req[r].sess \in 0..MaxSession /\ None \in 0..MaxSession
        /\ doc[req[r].from].meta \in 0..MaxSession /\ doc[req[r].from].script \in BOOLEAN
    BY SessionAssumption DEF TypeOK, None
  <1> DEFINE old == doc[req[r].from]
             meta == IF old # Blank THEN old.meta
                     ELSE IF req[r].to \in {"app", "settings"} THEN req[r].sess ELSE None
             script == old.script \/ (req[r].to = "settings" /\ meta # None)
  <1>2. meta \in 0..MaxSession
    BY <1>1
  <1>3. script \in BOOLEAN
    BY <1>1
  <1>4. Shown(r) = [page |-> req[r].to, meta |-> meta, script |-> script]
    BY DEF Shown
  <1> HIDE DEF meta, script
  <1> QED
    BY <1>2, <1>3, <1>4

\* A delivered answer sets the cookie, and shows a page or sends the next request.
LEMMA DeliverKeeps ==
  ASSUME SessionInv, NEW r \in Request, Deliver(r)
  PROVE  /\ Typed' /\ Good(r)' /\ \A q \in Request \ {r} : req'[q] = req[q]
         /\ req'[r].op # "post_login"
         /\ cookie' \in [Browser -> Cookies]
         /\ doc' \in [Browser -> [page : Pages \cup {"blank"}, meta : 0..MaxSession,
                                  script : BOOLEAN]]
  <1>1. TypeOK /\ Typed /\ At(r, "answer") /\ req[r].from \in Browser
    BY DEF SessionInv, TypeOK, Typed, ReqType, Deliver, Good, Stage
  <1>2. Jar(r) \in Cookies
    BY <1>1, JarType
  <1>3. cookie' \in [Browser -> Cookies]
    BY <1>1, <1>2 DEF TypeOK, Deliver
  <1>4. UNCHANGED <<hash, secret, signedOut>>
    BY DEF Deliver, settingVars
  <1>5. CASE /\ req[r].to \in Gets /\ doc' = doc
             /\ req' = [req EXCEPT ![r] = Arrives(req[r].from, req[r].to, None, Jar(r))]
    <2> DEFINE to == req[r].to
    <2>2. /\ to \in Gets \cup PublicPosts \cup GuardedPosts /\ to # "change_password"
          /\ None \in Password \cup {None}
      BY <1>5 DEF Gets
    <2>3. req' = [req EXCEPT ![r] = Arrives(req[r].from, to, None, Jar(r))]
      BY <1>5
    <2> HIDE DEF to
    <2>4. /\ Typed' /\ Good(r)' /\ \A q \in Request \ {r} : req'[q] = req[q]
          /\ req'[r].op = to
      BY <1>1, <1>2, <1>4, <2>2, <2>3, ArrivalAdvances
    <2>1. /\ Typed' /\ Good(r)' /\ \A q \in Request \ {r} : req'[q] = req[q]
          /\ req'[r].op = req[r].to
      BY <2>4 DEF to
    <2> QED
      BY <1>1, <1>3, <1>5, <2>1 DEF TypeOK, Gets
  <1>6. CASE /\ req[r].to \in Pages /\ Done(r)
             /\ doc' = [doc EXCEPT ![req[r].from] = Shown(r)]
    <2>1. Advanced(r) /\ r \notin Logins'
      BY <1>1, <1>6, DoneAnswers, AnsweredAdvances
    <2>2. Shown(r) \in [page : Pages \cup {"blank"}, meta : 0..MaxSession, script : BOOLEAN]
      BY <1>1, <1>6, ShownType
    <2> HIDE DEF Shown
    <2>3. doc' \in [Browser -> [page : Pages \cup {"blank"}, meta : 0..MaxSession,
                                script : BOOLEAN]]
      BY <1>1, <1>6, <2>2 DEF TypeOK
    <2> QED
      BY <1>3, <2>1, <2>3 DEF Advanced, Logins
  <1> QED
    BY <1>5, <1>6 DEF Deliver, Done

\* What a browser that leaves was waiting for goes on for nobody.
LEMMA LeaveKeeps ==
  ASSUME SessionInv, NEW b \in Browser, Leave(b)
  PROVE  /\ Typed' /\ (\A r \in Request : Good(r)') /\ Logins' = Logins
         /\ doc' \in [Browser -> [page : Pages \cup {"blank"}, meta : 0..MaxSession,
                                  script : BOOLEAN]]
  <1>1. TypeOK /\ Typed
    BY DEF SessionInv, TypeOK, Typed, ReqType
  <1>2. UNCHANGED <<hash, secret, signedOut>>
    BY DEF Leave, settingVars
  <1>3. Blank \in [page : Pages \cup {"blank"}, meta : 0..MaxSession, script : BOOLEAN]
    BY SessionAssumption DEF Blank, None
  <1>4. doc' \in [Browser -> [page : Pages \cup {"blank"}, meta : 0..MaxSession,
                              script : BOOLEAN]]
    BY <1>1, <1>3 DEF TypeOK, Leave
  <1>5. ASSUME NEW r \in Request
        PROVE  /\ req'[r] \in ReqType /\ Good(r)'
               /\ req'[r].op = "post_login" <=> req[r].op = "post_login"
    <2>1. req[r] \in ReqType /\ Good(r)
      BY <1>1 DEF Typed, SessionInv
    <2>2. CASE req'[r] = req[r]
      BY <1>2, <2>1, <2>2 DEF Good, Stage, Barred, Early, At, FirstRun
    <2>3. CASE At(r, "answer") /\ req'[r] = Idle
      <3>1. req[r].op = "act"
        BY <2>1, <2>3 DEF Good, Stage
      <3> QED
        BY <2>3, <3>1, IdleType DEF Good, Stage, Barred, Early, At, Idle, PublicPosts
    <2>4. CASE ~At(r, "answer") /\ req'[r] = [req[r] EXCEPT !.from = "cli"]
      <3>1. /\ req'[r] \in ReqType /\ req'[r].pc = req[r].pc /\ req'[r].op = req[r].op
            /\ req'[r].pw = req[r].pw /\ req'[r].key = req[r].key
            /\ req'[r].early = req[r].early /\ req'[r].blind = req[r].blind
            /\ req'[r].barred = req[r].barred /\ req'[r].cookie = req[r].cookie
        BY <2>1, <2>4 DEF ReqType
      <3>2. Stage(r)'
        BY <2>1, <2>4, <3>1 DEF Good, Stage, At
      <3>3. Barred(r)' /\ Early(r)'
        BY <1>2, <2>1, <3>1 DEF Good, Barred, Early, At, FirstRun
      <3> QED
        BY <3>1, <3>2, <3>3 DEF Good
    <2> QED
      BY <1>1, <2>2, <2>3, <2>4 DEF Leave, At
  <1>6. Typed'
    <2>1. DOMAIN req' = Request /\ req' = [r \in Request |-> req'[r]]
      BY DEF Leave
    <2> QED
      BY <1>5, <2>1 DEF Typed
  <1>7. Logins' = Logins
    BY <1>5 DEF Logins
  <1> QED
    BY <1>4, <1>5, <1>6, <1>7

--------------------------------------------------------------------------------
(* The tables.                                                                 *)

Settings ==
  hash \in Password \cup {None} /\ secret \in Secret \cup {None}
SessionRows ==
  /\ live \subseteq 1..opened /\ opened \in 0..MaxSession
  /\ row \in [Sessions -> {"none", "valid", "lapsed"}] /\ signedOut \in 0..opened
Browsers ==
  /\ cookie \in [Browser -> Cookies]
  /\ doc \in [Browser -> [page : Pages \cup {"blank"}, meta : 0..MaxSession, script : BOOLEAN]]

LEMMA TypeParts == TypeOK <=> Settings /\ SessionRows /\ Browsers /\ Typed
  BY DEF TypeOK, Settings, SessionRows, Browsers, Typed, ReqType

LEMMA TypePartsPrimed == (TypeOK <=> Settings /\ SessionRows /\ Browsers /\ Typed)'
  BY TypeParts, PTL

\* Sessions end, or are as they were.
LEMMA RowsEnd ==
  ASSUME SessionRows, SignedOutClosed, UNCHANGED <<opened, signedOut>>,
         row' \in [Sessions -> {"none", "valid", "lapsed"}], live' \subseteq live
  PROVE  SessionRows' /\ SignedOutClosed'
  BY DEF SessionRows, SignedOutClosed

LEMMA RowsStay ==
  ASSUME SessionRows, SignedOutClosed, UNCHANGED <<row, opened, signedOut>>
  PROVE  SessionRows' /\ SignedOutClosed'
  BY RowsEnd DEF SessionRows, live

\* Each step of the server, by what it does to the tables.
LEMMA ServerTables ==
  ASSUME SessionInv, NEW r \in Request, Public(r) \/ Protected(r)
  PROVE  /\ Settings' /\ SessionRows' /\ SignedOutClosed' /\ Browsers'
         /\ signedOut <= signedOut' /\ (FirstRun' => FirstRun)
         /\ opened' = opened \/ (CreateSession(r) /\ opened' = opened + 1)
  <1>1. /\ Settings /\ SessionRows /\ SignedOutClosed /\ Browsers /\ Typed
        /\ req[r] \in ReqType /\ Good(r) /\ signedOut \in Nat
    <2>1. TypeOK /\ SignedOutClosed /\ Good(r)
      BY DEF SessionInv
    <2>2. signedOut \in Nat
      BY <2>1 DEF TypeOK
    <2> QED
      BY <2>1, <2>2, TypeParts DEF Typed
  <1>2. Browsers'
    <2>1. UNCHANGED <<cookie, doc>>
      BY DEF Public, Protected, ReadHash, SetHash, ReadSecret, SetSecret, CreateSession,
             GateSecret, LookUp, DeleteExpired, Touch, HandlePage, HandleLogout,
             HandleSignOut, browserVars
    <2> QED
      BY <1>1, <2>1 DEF Browsers
  <1>3. Settings' /\ (FirstRun' => FirstRun)
    <2>1. CASE SetHash(r)
      <3>1. hash' \in {hash, req[r].pw} /\ secret' = secret /\ req[r].pw # None
        BY <1>1, <2>1 DEF SetHash, Good, Stage
      <3>2. req[r].pw \in Password \cup {None}
        BY <1>1 DEF ReqType
      <3> QED
        BY <1>1, <3>1, <3>2 DEF Settings, FirstRun
    <2>2. CASE SetSecret(r)
      <3>1. secret' = req[r].key /\ hash' = hash /\ req[r].key # None
        BY <1>1, <2>2 DEF SetSecret, Good, Stage
      <3>2. req[r].key \in Secret \cup {None}
        BY <1>1 DEF ReqType
      <3> QED
        BY <1>1, <3>1, <3>2 DEF Settings, FirstRun
    <2>3. CASE UNCHANGED <<hash, secret>>
      BY <1>1, <2>3 DEF Settings, FirstRun
    <2> QED
      BY <2>1, <2>2, <2>3
         DEF Public, Protected, ReadHash, ReadSecret, CreateSession, GateSecret, LookUp,
             DeleteExpired, Touch, HandlePage, HandleLogout, HandleSignOut, settingVars
  <1>4. CASE CreateSession(r)
    <2>1. /\ opened' = opened + 1 /\ row' = [row EXCEPT ![opened + 1] = "valid"]
          /\ signedOut' = signedOut /\ r \in Logins
      BY <1>1, <1>4 DEF CreateSession, Good, Stage, Logins
    <2>2. opened \in Nat /\ opened' \in Sessions /\ opened' \in 0..MaxSession
      <3>1. PICK n \in Nat : n = Cardinality(Logins) /\ n >= 1 /\ opened + n <= MaxSession
        BY <2>1, LoginsCounted DEF SessionInv, IdsLeft
      <3> QED
        BY <1>1, <2>1, <3>1, SessionAssumption DEF SessionRows, Sessions
    <2>3. row' \in [Sessions -> {"none", "valid", "lapsed"}]
      BY <1>1, <2>1 DEF SessionRows
    <2>4. live' \subseteq live \cup {opened'}
      BY <1>1, <2>1 DEF SessionRows, live
    <2>5. SessionRows'
      BY <1>1, <2>1, <2>2, <2>3, <2>4 DEF SessionRows
    <2>6. \A i \in 1..signedOut : i # opened'
      BY <1>1, <2>1, <2>2 DEF SessionRows
    <2>7. SignedOutClosed'
      BY <1>1, <2>1, <2>4, <2>6 DEF SignedOutClosed
    <2> QED
      BY <1>1, <1>2, <1>3, <1>4, <2>1, <2>5, <2>7
  <1>5. CASE HandleSignOut(r) /\ row' = [i \in Sessions |-> "none"] /\ signedOut' = opened
    <2>1. /\ row' = [i \in Sessions |-> "none"] /\ signedOut' = opened /\ opened' = opened
      BY <1>5 DEF HandleSignOut
    <2>2. live' = {}
      BY <2>1 DEF live
    <2>3. SessionRows' /\ SignedOutClosed' /\ signedOut <= signedOut'
      BY <1>1, <2>1, <2>2, SessionAssumption DEF SessionRows, SignedOutClosed
    <2> QED
      BY <1>2, <1>3, <2>1, <2>3
  <1>6. ASSUME UNCHANGED <<opened, signedOut>>,
               \/ row' = row
               \/ \E i : row' = [row EXCEPT ![i] = "none"]
               \/ \E i \in live : row' = [row EXCEPT ![i] = "valid"]
        PROVE  SessionRows' /\ SignedOutClosed' /\ signedOut <= signedOut'
    <2>1. row' \in [Sessions -> {"none", "valid", "lapsed"}] /\ live' \subseteq live
      BY <1>1, <1>6 DEF SessionRows, live
    <2> QED
      BY <1>1, <1>6, <2>1, RowsEnd
  <1>7. CASE ~CreateSession(r) /\ ~(row' = [i \in Sessions |-> "none"] /\ signedOut' = opened)
    <2>1. /\ UNCHANGED <<opened, signedOut>>
          /\ \/ row' = row
             \/ \E i : row' = [row EXCEPT ![i] = "none"]
             \/ \E i \in live : row' = [row EXCEPT ![i] = "valid"]
      BY <1>7 DEF Public, Protected, ReadHash, SetHash, ReadSecret, SetSecret, GateSecret,
                  LookUp, DeleteExpired, Touch, HandlePage, HandleLogout, HandleSignOut,
                  sessionVars
    <2> QED
      BY <1>2, <1>3, <1>6, <2>1
  <1>8. CASE ~HandleSignOut(r) /\ ~CreateSession(r)
    <2>1. UNCHANGED <<opened, signedOut>>
      BY <1>8 DEF Public, Protected, ReadHash, SetHash, ReadSecret, SetSecret, GateSecret,
                  LookUp, DeleteExpired, Touch, HandlePage, HandleLogout, sessionVars
    <2>2. \/ row' = row
          \/ \E i : row' = [row EXCEPT ![i] = "none"]
          \/ \E i \in live : row' = [row EXCEPT ![i] = "valid"]
      BY <1>8 DEF Public, Protected, ReadHash, SetHash, ReadSecret, SetSecret, GateSecret,
                  LookUp, DeleteExpired, Touch, HandlePage, HandleLogout, sessionVars
    <2> QED
      BY <1>2, <1>3, <1>6, <2>1, <2>2
  <1> QED
    BY <1>4, <1>5, <1>7, <1>8

--------------------------------------------------------------------------------
(* SessionInv is inductive.                                                    *)

\* The requests that a step does not touch stay good.
LEMMA OthersGood ==
  ASSUME SessionInv, SessionRows', signedOut <= signedOut', FirstRun' => FirstRun,
         NEW q \in Request, req'[q] = req[q]
  PROVE  Good(q)'
  <1>1. Good(q) /\ signedOut \in Nat /\ signedOut' \in Nat
    BY DEF SessionInv, TypeOK, SessionRows
  <1>2. 1..signedOut \subseteq 1..signedOut'
    BY <1>1
  <1> QED
    BY <1>1, <1>2 DEF Good, Stage, Barred, Early, At

\* One request changes, and no id is taken that was not set aside.
LEMMA OneRequest ==
  ASSUME SessionInv, NEW r \in Request, Settings', SessionRows', SignedOutClosed', Browsers',
         Typed', Good(r)', \A q \in Request \ {r} : req'[q] = req[q],
         signedOut <= signedOut', FirstRun' => FirstRun, IdsLeft'
  PROVE  SessionInv'
  <1>1. \A q \in Request : Good(q)'
    BY OthersGood
  <1>2. TypeOK'
    BY TypePartsPrimed
  <1> QED
    BY <1>1, <1>2 DEF SessionInv

LEMMA IdsKept ==
  ASSUME SessionInv, NEW r \in Request, \A q \in Request \ {r} : req'[q] = req[q],
         opened' = opened, r \in Logins \/ r \notin Logins'
  PROVE  IdsLeft'
  <1>1. PICK n \in Nat, m \in Nat : n = Cardinality(Logins) /\ m = Cardinality(Logins') /\ m <= n
    BY LoginsCounted, LoginsChange
  <1>2. opened + n <= MaxSession /\ opened \in Nat
    BY <1>1 DEF SessionInv, IdsLeft, TypeOK
  <1>3. opened' + m <= MaxSession
    BY <1>1, <1>2, SessionAssumption
  <1> QED
    BY <1>1, <1>3 DEF IdsLeft

LEMMA ServerKeeps ==
  ASSUME SessionInv, NEW r \in Request, Public(r) \/ Protected(r)
  PROVE  SessionInv'
  <1>1. Advanced(r)
    BY PublicAdvances, ProtectedAdvances
  <1>2. /\ Settings' /\ SessionRows' /\ SignedOutClosed' /\ Browsers'
        /\ signedOut <= signedOut' /\ (FirstRun' => FirstRun)
        /\ opened' = opened \/ (CreateSession(r) /\ opened' = opened + 1)
    BY ServerTables
  <1>3. IdsLeft'
    <2>1. CASE opened' = opened
      BY <1>1, <2>1, IdsKept DEF Advanced, Logins
    <2>2. CASE CreateSession(r) /\ opened' = opened + 1
      <3>1. r \in Logins /\ opened + 1 \in 0..MaxSession /\ Typed /\ opened \in Nat
        <4>1. Good(r) /\ TypeOK
          BY DEF SessionInv
        <4>2. r \in Logins
          BY <2>2, <4>1 DEF CreateSession, Good, Stage, Logins
        <4>3. opened' \in 0..MaxSession
          BY <1>2 DEF SessionRows
        <4> QED
          BY <2>2, <4>1, <4>2, <4>3, TypeParts DEF TypeOK
      <3>2. Welcome(r, opened + 1)
        BY <2>2 DEF CreateSession
      <3>3. r \notin Logins'
        BY <3>1, <3>2, JarAnswers, AnsweredAdvances
      <3>4. PICK n \in Nat, m \in Nat :
              n = Cardinality(Logins) /\ m = Cardinality(Logins') /\ m = n - 1
        BY <1>1, <3>1, <3>3, LoginsCounted, LoginsChange DEF Advanced
      <3>5. opened + n <= MaxSession
        BY <3>4 DEF SessionInv, IdsLeft
      <3>6. opened' + m <= MaxSession
        BY <2>2, <3>1, <3>4, <3>5, SessionAssumption
      <3> QED
        BY <3>4, <3>6 DEF IdsLeft
    <2> QED
      BY <1>2, <2>1, <2>2
  <1> QED
    BY <1>1, <1>2, <1>3, OneRequest DEF Advanced

\* Requests that begin, with a browser or at the command line.
LEMMA BeginKeeps ==
  ASSUME SessionInv, NEW r \in Request,
         RunInit(r) \/ \E b \in Browser : Visit(r, b) \/ Submit(r, b)
  PROVE  SessionInv'
  <1>1. /\ TypeOK /\ Settings /\ SessionRows /\ SignedOutClosed /\ Browsers /\ Typed
        /\ signedOut \in Nat
    <2>1. TypeOK /\ SignedOutClosed
      BY DEF SessionInv
    <2> QED
      BY <2>1, TypeParts DEF TypeOK
  <1>2. UNCHANGED <<hash, secret, row, opened, cookie, doc, signedOut>> /\ req[r] = Idle
    BY DEF RunInit, Visit, Submit, settingVars, sessionVars, browserVars
  <1>3. /\ Settings' /\ SessionRows' /\ SignedOutClosed' /\ Browsers'
        /\ signedOut <= signedOut' /\ (FirstRun' => FirstRun)
    BY <1>1, <1>2, RowsStay DEF Settings, Browsers, FirstRun
  <1>4. r \notin Logins
    BY <1>2 DEF Logins, Idle
  <1>5. ASSUME NEW b \in Browser, Visit(r, b) PROVE SessionInv'
    <2> DEFINE c == cookie[b]
    <2> HIDE DEF c
    <2>1. PICK op \in Gets : req' = [req EXCEPT ![r] = Arrives(b, op, None, c)]
      BY <1>5, OfferedOps DEF Visit, c
    <2>2. /\ c \in Cookies /\ None \in Password \cup {None}
          /\ op \in Gets \cup PublicPosts \cup GuardedPosts /\ op # "change_password"
          /\ UNCHANGED <<hash, secret, signedOut>>
      BY <1>1, <1>2 DEF Browsers, Gets, c
    <2>3. /\ Typed' /\ Good(r)' /\ \A q \in Request \ {r} : req'[q] = req[q]
          /\ req'[r].op = op
      BY ONLY SessionInv, <2>1, <2>2, ArrivalAdvances
    <2>4. IdsLeft'
      BY <1>2, <2>3, IdsKept DEF Logins, Gets
    <2> QED
      BY <1>3, <2>3, <2>4, OneRequest
  <1>6. ASSUME NEW b \in Browser, Submit(r, b) PROVE SessionInv'
    <2> DEFINE c == cookie[b]
    <2> HIDE DEF c
    <2>1. PICK op \in PublicPosts \cup GuardedPosts, pw \in Password \cup {None} :
            /\ op = "change_password" => pw # None
            /\ op = "post_login" => Room
            /\ req' = [req EXCEPT ![r] = Arrives(b, op, pw, c)]
      BY <1>6, OfferedOps DEF Submit, c
    <2>2. /\ c \in Cookies /\ op \in Gets \cup PublicPosts \cup GuardedPosts
          /\ UNCHANGED <<hash, secret, signedOut>>
      BY <1>1, <1>2 DEF Browsers, c
    <2>3. /\ Typed' /\ Good(r)' /\ \A q \in Request \ {r} : req'[q] = req[q]
          /\ req'[r].op = op
      BY ONLY SessionInv, <2>1, <2>2, ArrivalAdvances
    <2>4. CASE op # "post_login"
      <3>1. IdsLeft'
        BY <1>2, <2>3, <2>4, IdsKept DEF Logins
      <3> QED
        BY <1>3, <2>3, <3>1, OneRequest
    <2>5. CASE op = "post_login"
      <3>1. PICK n \in Nat, m \in Nat :
              n = Cardinality(Logins) /\ m = Cardinality(Logins') /\ m <= n + 1
        BY <2>3, LoginsCounted, LoginsChange
      <3>2. opened + n < MaxSession /\ opened \in Nat
        BY <1>1, <2>1, <2>5, <3>1 DEF Room, Logins, SessionRows
      <3>3. opened' + m <= MaxSession
        BY <1>2, <3>1, <3>2, SessionAssumption
      <3>4. IdsLeft'
        BY <3>1, <3>3 DEF IdsLeft
      <3> QED
        BY <1>3, <2>3, <3>4, OneRequest
    <2> QED
      BY <2>4, <2>5
  <1>7. CASE RunInit(r)
    <2>1. PICK pw \in Password \cup {None} :
            req' = [req EXCEPT ![r] =
                      [Idle EXCEPT !.pc = IF pw = None THEN "secret" ELSE "set_hash",
                                   !.op = "init", !.pw = pw, !.early = FirstRun]]
      BY <1>7 DEF RunInit
    <2> DEFINE early == FirstRun
               pc == IF pw = None THEN "secret" ELSE "set_hash"
               new == [Idle EXCEPT !.pc = pc, !.op = "init", !.pw = pw, !.early = early]
    <2>2. early \in BOOLEAN /\ pc \in {"secret", "set_hash"} /\ (pc = "set_hash" => pw # None)
      BY DEF FirstRun
    <2>4. req' = [req EXCEPT ![r] = new]
      BY <2>1
    <2> HIDE DEF early, pc
    <2>3. /\ new \in ReqType /\ new.pc = pc /\ new.op = "init" /\ new.pw = pw
          /\ new.early = early
      BY <2>2, IdleType DEF ReqType, Idle, Ops
    <2> HIDE DEF new
    <2>5. Becomes(r, new)
      BY <1>1, <2>3, <2>4, Update
    <2>6. Early(r)'
      <3>1. req'[r].early \/ ~FirstRun'
        BY <1>2, <2>3, <2>5 DEF Becomes, early, FirstRun
      <3> QED
        BY <2>2, <2>3, <2>5, <3>1 DEF Becomes, Early, At
    <2>7. Stage(r)' /\ Barred(r)'
      BY <2>2, <2>3, <2>5 DEF Becomes, Stage, Barred, At
    <2>8. IdsLeft'
      BY <1>2, <2>3, <2>5, IdsKept DEF Becomes, Logins
    <2> QED
      BY <1>3, <2>5, <2>6, <2>7, <2>8, OneRequest DEF Becomes, Good
  <1> QED
    BY <1>5, <1>6, <1>7

\* Deliver and Dropped write no session and no setting.
LEMMA EndKeeps ==
  ASSUME SessionInv, NEW r \in Request, Deliver(r) \/ Dropped(r)
  PROVE  SessionInv'
  <1>1. /\ TypeOK /\ Settings /\ SessionRows /\ SignedOutClosed /\ Browsers /\ Typed
        /\ signedOut \in Nat
    <2>1. TypeOK /\ SignedOutClosed
      BY DEF SessionInv
    <2> QED
      BY <2>1, TypeParts DEF TypeOK
  <1>2. UNCHANGED <<hash, secret, row, opened, signedOut>>
    BY DEF Deliver, Dropped, settingVars, sessionVars
  <1>3. /\ Settings' /\ SessionRows' /\ SignedOutClosed'
        /\ signedOut <= signedOut' /\ (FirstRun' => FirstRun)
    BY <1>1, <1>2, RowsStay DEF Settings, FirstRun
  <1>4. /\ Typed' /\ Good(r)' /\ \A q \in Request \ {r} : req'[q] = req[q]
        /\ r \notin Logins' /\ Browsers'
    <2>1. CASE Deliver(r)
      BY <2>1, DeliverKeeps DEF Logins, Browsers
    <2>2. CASE Dropped(r)
      <3>1. Done(r) /\ UNCHANGED <<cookie, doc>>
        BY <2>2 DEF Dropped, Done, browserVars
      <3>2. Advanced(r) /\ r \notin Logins'
        BY <1>1, <3>1, DoneAnswers, AnsweredAdvances
      <3> QED
        BY <1>1, <3>1, <3>2 DEF Advanced, Browsers
    <2> QED
      BY <2>1, <2>2
  <1>5. IdsLeft'
    BY <1>2, <1>4, IdsKept
  <1> QED
    BY <1>3, <1>4, <1>5, OneRequest

\* What happens without a request.
LEMMA OutsideKeeps ==
  ASSUME SessionInv,
         \/ \E i \in Sessions : RowLapses(i)
         \/ \E b \in Browser : CookieLapses(b) \/ Leave(b)
         \/ UNCHANGED vars
  PROVE  SessionInv'
  <1>1. /\ TypeOK /\ Settings /\ SessionRows /\ SignedOutClosed /\ Browsers /\ Typed
        /\ signedOut \in Nat
    <2>1. TypeOK /\ SignedOutClosed
      BY DEF SessionInv
    <2> QED
      BY <2>1, TypeParts DEF TypeOK
  <1>2. /\ UNCHANGED <<hash, secret, opened, signedOut>>
        /\ Settings' /\ signedOut <= signedOut' /\ (FirstRun' => FirstRun)
    <2>1. UNCHANGED <<hash, secret, opened, signedOut>>
      BY DEF RowLapses, CookieLapses, Leave, vars, settingVars, sessionVars
    <2> QED
      BY <1>1, <2>1 DEF Settings, FirstRun
  <1>3. SessionRows' /\ SignedOutClosed'
    <2>1. CASE row' = row
      BY <1>1, <1>2, <2>1, RowsStay
    <2>2. ASSUME NEW i \in Sessions, RowLapses(i) PROVE SessionRows' /\ SignedOutClosed'
      <3>1. row' \in [Sessions -> {"none", "valid", "lapsed"}] /\ live' \subseteq live
        BY <1>1, <2>2 DEF RowLapses, SessionRows, live
      <3> QED
        BY <1>1, <1>2, <3>1, RowsEnd
    <2> QED
      BY <2>1, <2>2 DEF CookieLapses, Leave, vars, sessionVars
  <1>4. CASE req' = req /\ Browsers'
    <2>1. (\A r \in Request : Good(r)') /\ Typed' /\ IdsLeft'
      <3>1. \A r \in Request : Good(r)'
        BY <1>2, <1>3, <1>4, OthersGood
      <3>2. Typed' /\ Logins' = Logins
        BY <1>1, <1>4 DEF Typed, Logins
      <3> QED
        BY <1>2, <3>1, <3>2 DEF SessionInv, IdsLeft
    <2> QED
      BY <1>2, <1>3, <1>4, <2>1, TypePartsPrimed DEF SessionInv
  <1>5. ASSUME NEW b \in Browser, Leave(b) PROVE SessionInv'
    <2>1. /\ Typed' /\ (\A r \in Request : Good(r)') /\ Logins' = Logins
          /\ doc' \in [Browser -> [page : Pages \cup {"blank"}, meta : 0..MaxSession,
                                   script : BOOLEAN]]
      BY <1>5, LeaveKeeps
    <2>2. Browsers' /\ IdsLeft'
      BY <1>1, <1>2, <1>5, <2>1 DEF Leave, Browsers, SessionInv, IdsLeft
    <2> QED
      BY <1>2, <1>3, <2>1, <2>2, TypePartsPrimed DEF SessionInv
  <1>6. ASSUME NEW b \in Browser, CookieLapses(b) PROVE req' = req /\ Browsers'
    <2>1. NoCookie \in Cookies
      BY SessionAssumption DEF NoCookie, Cookies, None
    <2> QED
      BY <1>1, <1>6, <2>1 DEF CookieLapses, Browsers
  <1>7. ASSUME (\E i \in Sessions : RowLapses(i)) \/ UNCHANGED vars
        PROVE  req' = req /\ Browsers'
    BY <1>1, <1>7 DEF RowLapses, vars, browserVars, Browsers
  <1> QED
    BY <1>4, <1>5, <1>6, <1>7

LEMMA SessionStep == SessionInv /\ [Next]_vars => SessionInv'
  BY ServerKeeps, BeginKeeps, EndKeeps, OutsideKeeps DEF Next, Step

LEMMA InitSession == Init => SessionInv
  <1> SUFFICES ASSUME Init PROVE SessionInv
    OBVIOUS
  <1>1. Settings /\ SessionRows /\ Browsers /\ SignedOutClosed
    BY SessionAssumption
       DEF Init, Settings, SessionRows, Browsers, SignedOutClosed, live, NoCookie, Cookies,
           Blank, None
  <1>2. Typed /\ \A r \in Request : Good(r)
    BY IdleType DEF Init, Typed, Good, Stage, Barred, Early, At, Idle, PublicPosts
  <1>3. IdsLeft
    <2>1. Logins = {}
      BY DEF Init, Logins, Idle
    <2> QED
      BY <2>1, FS_EmptySet, SessionAssumption DEF Init, IdsLeft, None
  <1> QED
    BY <1>1, <1>2, <1>3, TypeParts DEF SessionInv

--------------------------------------------------------------------------------
(* Theorems.                                                                   *)

\* Whatever the browsers send and in whatever order it is handled, the settings,
\* the sessions, the cookies, the documents and the requests have their types, and
\* no login needs an id that is not there.
THEOREM TypeCorrect == Spec => []TypeOK
  <1>1. SessionInv => TypeOK
    BY DEF SessionInv
  <1> QED
    BY <1>1, InitSession, SessionStep, PTL DEF Spec

\* The touch of require_auth, which comes an await after the look-up, brings no
\* session back that was closed or expired in between (auth.rs:96).
THEOREM NothingIsResurrected == Spec => NoResurrection
  <1>1. ASSUME SessionInv, [Next]_vars, NEW i \in 1..opened, i \notin live
        PROVE  i \notin live'
    <2>1. SessionRows /\ opened \in Nat
      <3>1. TypeOK
        BY <1>1 DEF SessionInv
      <3> QED
        BY <3>1, TypeParts DEF TypeOK
    <2>2. CASE UNCHANGED row
      BY <1>1, <2>2 DEF live
    <2>3. ASSUME NEW r \in Request, Public(r) \/ Protected(r) PROVE i \notin live'
      <3>1. CASE CreateSession(r)
        <4>1. row' = [row EXCEPT ![opened + 1] = "valid"] /\ i # opened + 1
          BY <2>1, <3>1 DEF CreateSession
        <4> QED
          BY <1>1, <2>1, <4>1 DEF live, SessionRows
      <3>2. CASE HandleSignOut(r)
        BY <1>1, <3>2 DEF HandleSignOut, live
      <3>3. ASSUME \/ row' = row
                   \/ \E k : row' = [row EXCEPT ![k] = "none"]
                   \/ \E k \in live : row' = [row EXCEPT ![k] = "valid"]
            PROVE  i \notin live'
        BY <1>1, <2>1, <3>3 DEF live, SessionRows
      <3>4. CASE ~CreateSession(r) /\ ~HandleSignOut(r)
        BY <2>3, <3>3, <3>4
           DEF Public, Protected, ReadHash, SetHash, ReadSecret, SetSecret, GateSecret,
               LookUp, DeleteExpired, Touch, HandlePage, HandleLogout, sessionVars
      <3> QED
        BY <3>1, <3>2, <3>4
    <2>4. ASSUME NEW k \in Sessions, RowLapses(k) PROVE i \notin live'
      BY <1>1, <2>1, <2>4 DEF RowLapses, live, SessionRows
    <2> QED
      BY <1>1, <2>2, <2>3, <2>4
         DEF Next, Step, Deliver, Dropped, RunInit, Visit, Submit, CookieLapses, Leave,
             sessionVars, vars
  <1>2. SessionInv /\ [Next]_vars =>
          [\A i \in 1..opened : i \notin live => i \notin live']_vars
    BY <1>1
  <1> QED
    BY <1>2, InitSession, SessionStep, PTL DEF Spec, NoResurrection

\* After a sign-out everywhere no browser is served with a session of before it,
\* unless its request had begun already (routes/settings.rs:340).
THEOREM SignOutIsEverywhere == Spec => []SignedOutStaysOut
  <1>1. SessionInv => SignedOutStaysOut
    BY DEF SessionInv, Good, Barred, At, SignedOutStaysOut
  <1> QED
    BY <1>1, InitSession, SessionStep, PTL DEF Spec

\* No request that begins when the first run is complete writes a secret, nor a
\* password but as init or as the change of a session (routes/auth.rs:73), unless
\* a failed read hid from it what there is.
THEOREM FirstRunIsOver == Spec => []FirstRunCloses
  <1>1. SessionInv => FirstRunCloses
    <2> SUFFICES ASSUME SessionInv, NEW r \in Request, At(r, "set_hash") \/ At(r, "set_secret")
                 PROVE  \/ req[r].early \/ req[r].blind
                        \/ At(r, "set_hash") /\ req[r].op \in {"init", "change_password"}
      BY DEF FirstRunCloses, At
    <2>1. Stage(r) /\ Early(r)
      BY DEF SessionInv, Good
    <2> QED
      BY <2>1 DEF Stage, Early
  <1> QED
    BY <1>1, InitSession, SessionStep, PTL DEF Spec

================================================================================
