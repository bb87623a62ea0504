------------------------------- MODULE Registry -------------------------------
(* The projects table and what asks for deploys through it: registration with  *)
(* its slug (routes/projects.rs, models/project.rs), deploy now and rollback,  *)
(* the webhook toggle, removal, and the webhook endpoint with its rate limiter *)
(* (webhooks.rs).  Requests interleave at every await.  A deploy ends here as  *)
(* a row of deploys; DeployScheduler models what becomes of it, ProjectFolder  *)
(* what removal does to containers and files.                                  *)
EXTENDS Integers, Sequences, FiniteSets

CONSTANTS
  Folder,       \* folder names an admin may enter
  Candidates,   \* for each, the slugs unique_slug tries, in order
  Hooked,       \* bound: the slugs that deliveries are sent to
  Request,      \* slots for requests in flight at the same time
  Limit,        \* RATE_LIMIT, deliveries of one window
  MaxProject,   \* bound: projects ever registered
  MaxRow,       \* bound: rows of deploys ever queued
  MaxWindow     \* bound: rate windows of a slug

Slugs == UNION {{Candidates[f][i] : i \in 1..Len(Candidates[f])} : f \in Folder}
Ids == 1..MaxProject

ASSUME CandidatesAssumption ==
  \A f \in Folder : Candidates[f] \in Seq(Slugs) /\ Candidates[f] # <<>>
ASSUME BoundsAssumption ==
  /\ {Limit, MaxWindow} \subseteq Nat \ {0} /\ {MaxProject, MaxRow} \subseteq Nat
  /\ IsFiniteSet(Request) /\ Hooked \subseteq Slugs
ASSUME NoneAssumption == "none" \notin Slugs \cup Folder   \* a mark, not a name

VARIABLES
  \* projects: the rows by id (AUTOINCREMENT: an id is never used again).  The
  \* id stands for the row's webhook_secret too, which is random.
  projects, created,
  deploys,      \* deploys: the rows, alike ones as one, and who signed the delivery
  rate,         \* RATE_LIMITS: by slug, the count and whether 60 s have passed
  req,          \* the requests in flight
  \* History: by slug, rows queued by deliveries and windows opened; by id,
  \* toggles answered (their parity) and whether two toggles ever overlapped.
  queued, windows, flips, overlapped

dbVars == <<projects, created, deploys>>
historyVars == <<queued, windows, flips, overlapped>>
vars == <<dbVars, rate, req, historyVars>>

NoRow == [slug |-> "none", enabled |-> FALSE]
Rows == {i \in Ids : projects[i] # NoRow}
Named(slug) == {i \in Rows : projects[i].slug = slug}
NoId == 0

\* deploys.trigger: what the CHECK of the schema lets in.
Triggers == {"webhook_github", "webhook_plain", "manual", "rollback", "restart"}

\* since: history, the projects there were when the slug was found to be free.
Idle == [pc |-> "idle", op |-> "none", folder |-> "none", try |-> 0, slug |-> "none",
         id |-> NoId, enabled |-> FALSE, trigger |-> "none", signer |-> NoId, since |-> 0]

Init ==
  /\ projects = [i \in Ids |-> NoRow] /\ created = 0
  /\ deploys = {}
  /\ rate = [s \in Hooked |-> [count |-> 0, over |-> FALSE]]
  /\ req = [r \in Request |-> Idle]
  /\ queued = [s \in Hooked |-> 0] /\ windows = [s \in Hooked |-> 1]
  /\ flips = [i \in Ids |-> FALSE] /\ overlapped = [i \in Ids |-> FALSE]

At(r, pc) == req[r].pc = pc
Goto(r, pc) == req' = [req EXCEPT ![r].pc = pc]
Done(r) == req' = [req EXCEPT ![r] = Idle]

-------------------------------------------------------------------------------
(* Requests *)

\* POST /projects with a source URL and a folder name: the empty ones are
\* bounced back to the form and change nothing.
AskCreate(r) ==
  /\ req[r] = Idle
  /\ \E f \in Folder : req' = [req EXCEPT ![r] =
       [Idle EXCEPT !.pc = "exists", !.op = "create", !.folder = f, !.try = 1]]
  /\ UNCHANGED <<dbVars, rate, historyVars>>

\* The handlers of one project, and the webhook.  "manual" is deploy_now and,
\* with another trigger, rollback_to of a commit.
Ask(r) ==
  /\ req[r] = Idle
  /\ \E op \in {"manual", "toggle", "remove", "hook"}, s \in Slugs :
       /\ op = "hook" => s \in Hooked
       /\ req' = [req EXCEPT ![r] = [Idle EXCEPT !.pc = "find", !.op = op, !.slug = s]]
  /\ UNCHANGED <<dbVars, rate, historyVars>>

-------------------------------------------------------------------------------
(* Registration *)

\* Mutant of Exists: the folder's own slug is taken as it is.
ExistsUnasked(r) ==
  /\ At(r, "exists")
  /\ req' = [req EXCEPT ![r].pc = "insert", ![r].since = created,
                        ![r].slug = Candidates[req[r].folder][1]]
  /\ UNCHANGED <<dbVars, rate, historyVars>>

\* unique_slug: one query for each candidate.
Exists(r) ==
  LET slug == Candidates[req[r].folder][req[r].try] IN
  /\ At(r, "exists")
  /\ IF Named(slug) = {}
     THEN req' = [req EXCEPT ![r].pc = "insert", ![r].slug = slug, ![r].since = created]
     ELSE /\ req[r].try < Len(Candidates[req[r].folder])
          /\ req' = [req EXCEPT ![r].try = @ + 1]
  /\ UNCHANGED <<dbVars, rate, historyVars>>

Inserted(r) ==
  /\ created' = created + 1
  /\ projects' = [projects EXCEPT ![created'] = [slug |-> req[r].slug, enabled |-> TRUE]]
  /\ req' = [req EXCEPT ![r].pc = "enqueue", ![r].id = created', ![r].trigger = "initial"]

\* The INSERT: UNIQUE refuses a slug that was taken in the meantime, and the
\* form is shown with create-failed.
Insert(r) ==
  /\ At(r, "insert")
  /\ \/ Named(req[r].slug) = {} /\ created < MaxProject /\ Inserted(r)
     \/ Named(req[r].slug) # {} /\ Done(r) /\ UNCHANGED <<projects, created>>
  /\ UNCHANGED <<deploys, rate, historyVars>>

-------------------------------------------------------------------------------
(* Handlers of a project *)

\* require_project, and get_project of the webhook: 404 when there is no row,
\* or, for the webhook, none that is enabled.
Found(r, i) ==
  /\ i \in Named(req[r].slug)
  /\ req[r].op = "hook" => projects[i].enabled

Other(r, i) == {q \in Request \ {r} : req[q].op = "toggle" /\ req[q].id = i}

Find(r) ==
  /\ At(r, "find")
  /\ \/ \E i \in Ids :
          /\ Found(r, i)
          /\ req' = [req EXCEPT ![r].id = i, ![r].enabled = req[r].op = "toggle" /\ projects[i].enabled,
               ![r].trigger = IF req[r].op = "manual" THEN "manual" ELSE "none",
               ![r].pc = CASE req[r].op = "toggle" -> "update"
                           [] req[r].op = "remove" -> "delete"
                           [] req[r].op = "hook"   -> "verify"
                           [] OTHER                -> "enqueue"]
          /\ overlapped' = IF req[r].op = "toggle" /\ Other(r, i) # {}
                           THEN [overlapped EXCEPT ![i] = TRUE] ELSE overlapped
     \/ /\ \A i \in Ids : ~Found(r, i)
        /\ Done(r)
        /\ UNCHANGED overlapped
  /\ UNCHANGED <<dbVars, rate, queued, windows, flips>>

\* Mutant of Update: the row is written as it was read.
UpdateUnflipped(r) ==
  LET i == req[r].id IN
  /\ At(r, "update")
  /\ projects' = IF i \in Rows THEN [projects EXCEPT ![i].enabled = req[r].enabled]
                 ELSE projects
  /\ flips' = [flips EXCEPT ![i] = ~@]
  /\ Done(r)
  /\ UNCHANGED <<created, deploys, rate, queued, windows, overlapped>>

\* toggle_webhook writes the row it read back with the flag flipped; without a
\* row any more, fetch_one fails and the answer is an error.
Update(r) ==
  LET i == req[r].id IN
  /\ At(r, "update")
  /\ \/ /\ i \in Rows
        /\ projects' = [projects EXCEPT ![i].enabled = ~req[r].enabled]
        /\ flips' = [flips EXCEPT ![i] = ~@]
     \/ /\ i \notin Rows
        /\ UNCHANGED <<projects, flips>>
  /\ Done(r)
  /\ UNCHANGED <<created, deploys, rate, queued, windows, overlapped>>

\* Mutant of Delete: the rows of the deploys are left (foreign_keys is off).
DeleteAlone(r) ==
  /\ At(r, "delete")
  /\ projects' = [projects EXCEPT ![req[r].id] = NoRow]
  /\ Done(r)
  /\ UNCHANGED <<created, deploys, rate, historyVars>>

\* remove_project, when the containers and the folder are gone: the rows of its
\* deploys go with it (ON DELETE CASCADE).
Delete(r) ==
  /\ At(r, "delete")
  /\ projects' = [projects EXCEPT ![req[r].id] = NoRow]
  /\ deploys' = {d \in deploys : d.project # req[r].id}
  /\ Done(r)
  /\ UNCHANGED <<created, rate, historyVars>>

\* Mutant of Enqueue: the project is looked up again by its slug.
EnqueueBySlug(r) ==
  /\ At(r, "enqueue")
  /\ IF req[r].trigger \in Triggers /\ Named(req[r].slug) # {} /\ Cardinality(deploys) < MaxRow
     THEN \E i \in Named(req[r].slug) :
            deploys' = deploys \cup
              {[project |-> i, trigger |-> req[r].trigger, signer |-> req[r].signer]}
     ELSE UNCHANGED deploys
  /\ IF req[r].op = "create" THEN Goto(r, "created") ELSE Done(r)
  /\ UNCHANGED <<projects, created, rate, historyVars>>

\* create_deploy of DeployManager::enqueue: the CHECK refuses a trigger it does
\* not know, the foreign key a project that is gone.  The error is logged.
Enqueue(r) ==
  LET d == [project |-> req[r].id, trigger |-> req[r].trigger, signer |-> req[r].signer] IN
  /\ At(r, "enqueue")
  /\ \/ /\ req[r].trigger \in Triggers /\ req[r].id \in Rows
        /\ Cardinality(deploys) < MaxRow
        /\ deploys' = deploys \cup {d}
        /\ queued' = IF req[r].op = "hook" THEN [queued EXCEPT ![req[r].slug] = @ + 1]
                     ELSE queued
     \/ /\ req[r].trigger \notin Triggers \/ req[r].id \notin Rows
        /\ UNCHANGED <<deploys, queued>>
  /\ IF req[r].op = "create" THEN Goto(r, "created") ELSE Done(r)
  /\ UNCHANGED <<projects, created, rate, windows, flips, overlapped>>

\* create_project redirects to the page of the project.
Created(r) ==
  /\ At(r, "created")
  /\ Done(r)
  /\ UNCHANGED <<dbVars, rate, historyVars>>

-------------------------------------------------------------------------------
(* Webhooks *)

\* Mutant of Limited: off by one.
LimitedLate(c) == c.count > Limit + 1

\* rate_limited: a window begins with its first delivery, and the first that
\* comes after 60 s begins the next.
Counted(s) ==
  IF rate[s].over THEN [count |-> 1, over |-> FALSE]
  ELSE [count |-> rate[s].count + 1, over |-> FALSE]
Limited(c) == c.count > Limit

\* A delivery is in GitHub's mode, in plain mode or has no header at all.  Its
\* signature or secret is that of a project, or of none; push says whether that
\* is the event, match whether branch_filter lets the branch pass (one that
\* cannot be parsed passes).
Accepted(r, mode, signer, push, match) ==
  /\ mode # "none"
  /\ signer = req[r].id
  /\ mode = "webhook_github" => push /\ match

\* From the limiter to the queue handle_webhook awaits nothing.  Beyond the
\* limit the count makes no difference and is not counted on.
Verify(r) ==
  LET s == req[r].slug
      c == Counted(s) IN
  /\ At(r, "verify")
  /\ rate[s].over => windows[s] < MaxWindow
  /\ rate' = [rate EXCEPT ![s] = IF c.count > Limit + 1 THEN @ ELSE c]
  /\ windows' = IF rate[s].over THEN [windows EXCEPT ![s] = @ + 1] ELSE windows
  /\ \/ Limited(c) /\ Done(r)
     \/ /\ ~Limited(c)
        /\ \E mode \in {"webhook_github", "webhook_plain", "none"},
              signer \in 0..created, push, match \in BOOLEAN :
             IF Accepted(r, mode, signer, push, match)
             THEN req' = [req EXCEPT ![r].pc = "enqueue", ![r].trigger = mode,
                                     ![r].signer = signer]
             ELSE Done(r)
  /\ UNCHANGED <<dbVars, queued, flips, overlapped>>

WindowOver(s) ==
  /\ rate[s].count > 0 /\ ~rate[s].over
  /\ rate' = [rate EXCEPT ![s].over = TRUE]
  /\ UNCHANGED <<dbVars, req, historyVars>>

\* The client goes away, and with it the handler, wherever it is.
Dropped(r) ==
  /\ req[r] # Idle
  /\ Done(r)
  /\ UNCHANGED <<dbVars, rate, historyVars>>

\* A stop ends every handler and takes the counts of the limiter, which are in
\* memory only; the next delivery begins a window.
Restart ==
  /\ \A s \in Hooked : windows[s] < MaxWindow
  /\ req' = [r \in Request |-> Idle]
  /\ rate' = [s \in Hooked |-> [count |-> 0, over |-> FALSE]]
  /\ windows' = [s \in Hooked |-> windows[s] + 1]
  /\ UNCHANGED <<dbVars, queued, flips, overlapped>>

Next ==
  \/ Restart
  \/ \E r \in Request :
       \/ AskCreate(r) \/ Exists(r) \/ Insert(r) \/ Created(r)
       \/ Ask(r) \/ Find(r) \/ Update(r) \/ Delete(r) \/ Enqueue(r)
       \/ Verify(r) \/ Dropped(r)
  \/ \E s \in Hooked : WindowOver(s)

Spec == Init /\ [][Next]_vars

-------------------------------------------------------------------------------
(* Properties *)

TypeOK ==
  /\ projects \in [Ids -> [slug : Slugs \cup {"none"}, enabled : BOOLEAN]]
  /\ created \in 0..MaxProject /\ Rows \subseteq 1..created
  /\ deploys \subseteq [project : Rows, trigger : Triggers, signer : 0..created]
  /\ rate \in [Hooked -> [count : 0..Limit + 1, over : BOOLEAN]]
  /\ queued \in [Hooked -> Nat] /\ windows \in [Hooked -> 1..MaxWindow]
  /\ flips \in [Ids -> BOOLEAN] /\ overlapped \in [Ids -> BOOLEAN]
  /\ \A r \in Request : req[r].id \in 0..created /\ req[r].slug \in Slugs \cup {"none"}

\* A row that a delivery queued belongs to the project whose secret signed it,
\* although the slug may have passed to another project while the delivery was
\* handled (webhooks.rs:92-180).
DeliveryMatchesProject ==
  \A d \in deploys :
    d.trigger \in {"webhook_github", "webhook_plain"} => d.signer = d.project

\* The deliveries of a slug queue no more deploys than the limit for each of
\* its windows, when some of them reach the queue in a later window too; a
\* restart of the process begins one (webhooks.rs:27).
QueuedWithinLimit == \A s \in Hooked : queued[s] <= Limit * windows[s]

\* The flag is what the toggles made of it: it is lost track of only when two
\* toggles of a project overlapped (routes/projects.rs:485-500).
EnabledIsParity ==
  \A i \in Rows : ~overlapped[i] => projects[i].enabled = ~flips[i]

\* A registration fails only when another one took the slug after it was found
\* to be free (models/project.rs:59-86).
FailsOnlyWhenRaced ==
  [][\A r \in Request :
       req[r].pc = "insert" /\ Named(req[r].slug) # {} => created > req[r].since]_vars

\* docs/03-features.md:105: "Inserts the project row, then **immediately
\* triggers the first deploy**".
FirstDeployQueued ==
  \A r \in Request :
    req[r].pc = "created" /\ req[r].id \in Rows =>
      \E d \in deploys : d.project = req[r].id

===============================================================================
