----------------------------- MODULE ProjectFolder -----------------------------
(* One folder under projects_root, the projects registered with it, and what   *)
(* deploys (deploy/worker.rs, deploy/git.rs, docker.rs) and the handlers of    *)
(* routes/projects.rs (create, stop, restart, remove, the compose editor) do   *)
(* to its checkout and its containers.  A project runs one deploy at a time,   *)
(* which is what DeployScheduler shows; statuses and permits are left to it.   *)
(* Git, docker, the containers and the pushes to the branch are external.      *)
EXTENDS Integers, FiniteSets

CONSTANTS
  Projects,     \* ids of the projects whose folder_path this is
  Services,     \* services of the compose file
  Checked,      \* those with a healthcheck
  MaxCommits,   \* bound: commits ever made
  Found         \* what the folder may hold before anything is registered with it

Kinds == {"absent", "empty", "files", "repo"}

ASSUME ProjectsAssumption == IsFiniteSet(Projects)
ASSUME ServicesAssumption == Checked \subseteq Services
ASSUME CommitsAssumption == MaxCommits \in Nat \ {0}
ASSUME FoundAssumption == Found \subseteq Kinds

Commits == 1..MaxCommits
NoCommit == 0

VARIABLES
  \* The database: projects ever registered, those that still are, and the commit
  \* of a project's latest succeeded deploy.
  born, rows, last,
  \* The remote: the branch the projects name, the ancestors of every commit
  \* (empty: not made yet).
  remote, anc,
  \* The folder: what it holds, whether the compose file is among it, and of a repo
  \* its HEAD, the local branch (NoCommit: not made yet) and what HEAD is on: that
  \* branch, another one that the remote has for default, or a commit.
  kind, compose, head, branch, on,
  \* Containers: the state of each service.
  svc,
  \* Workers: next step, request in hand, recorded commit, whether a restart is due.
  pc, req, sha, fresh,
  \* History of the deploys that run: where the remote branch was since, the HEAD
  \* compose up ran with, and what went wrong under it: a removal took the checkout
  \* ("wiped"), or the clone is of another branch ("default").
  seen, built, slips,
  \* The step of a project's remove_project handler.
  rm

dbVars == <<born, rows, last>>
remoteVars == <<remote, anc>>
folderVars == <<kind, compose, head, branch, on>>
workVars == <<pc, req, sha, fresh, seen, built, slips>>
vars == <<dbVars, remoteVars, folderVars, svc, workVars, rm>>

Requests ==
  [kind : {"normal", "restart"}, target : {NoCommit}]
    \cup [kind : {"rollback"}, target : Commits]
NoRequest == [kind |-> "normal", target |-> NoCommit]

Up == {"running", "starting", "healthy", "unhealthy"}
SvcStates == Up \cup {"absent", "exited"}
Phases == {"idle", "log", "sync", "clone", "skip", "fetch", "checkout", "pull", "stash",
           "repull", "record", "up", "poll", "succeed", "fail"}

Slips == {"wiped", "default"}

Init ==
  /\ born = {} /\ rows = {} /\ last = [p \in Projects |-> NoCommit]
  /\ remote = 1 /\ anc = [c \in Commits |-> IF c = 1 THEN {1} ELSE {}]
  /\ kind \in Found /\ compose \in BOOLEAN /\ (compose => kind \in {"files", "repo"})
  /\ head = (IF kind = "repo" THEN 1 ELSE NoCommit)
  /\ branch \in {NoCommit, head} /\ on \in {"branch", "default", "commit"}
  /\ IF kind = "repo" THEN on = "branch" => branch = head ELSE on = "branch"
  /\ svc = [s \in Services |-> "absent"]
  /\ pc = [p \in Projects |-> "idle"] /\ req = [p \in Projects |-> NoRequest]
  /\ sha = [p \in Projects |-> NoCommit] /\ fresh = [p \in Projects |-> TRUE]
  /\ seen = [p \in Projects |-> {}] /\ built = [p \in Projects |-> NoCommit]
  /\ slips = [p \in Projects |-> {}]
  /\ rm = [p \in Projects |-> "idle"]

--------------------------------------------------------------------------------
(* The branch, the containers and the operator.                                *)

\* The remote branch moves, and the deploys that run may fetch it there.
MoveBranch(c) ==
  /\ remote' = c
  /\ seen' = [p \in Projects |-> IF pc[p] = "idle" THEN {} ELSE seen[p] \cup {c}]
  /\ UNCHANGED <<dbVars, folderVars, svc, pc, req, sha, fresh, built, slips, rm>>

\* Someone pushes a new commit; a forced push drops what was there.
Push ==
  \E c \in Commits, base \in {{}, anc[remote]} :
    /\ anc[c] = {} /\ \A d \in 1..(c - 1) : anc[d] # {}
    /\ anc' = [anc EXCEPT ![c] = base \cup {c}]
    /\ MoveBranch(c)

\* A forced push may also take the branch back to an older commit.
Rewind == \E c \in anc[remote] : MoveBranch(c) /\ UNCHANGED anc

Started(s) == IF s \in Checked THEN "starting" ELSE "running"

\* A container exits, or its healthcheck reports.
ServiceStep(s) ==
  /\ svc[s] \in Up
  /\ \E to \in {"exited"} \cup IF s \in Checked THEN {"healthy", "unhealthy"} ELSE {} :
       svc' = [svc EXCEPT ![s] = to]
  /\ UNCHANGED <<dbVars, remoteVars, folderVars, workVars, rm>>

\* create_project: the row, then the folder, whose creation may fail.  Nothing looks
\* into an existing one.
CreateProject(p) ==
  /\ p \notin born
  /\ born' = born \cup {p} /\ rows' = rows \cup {p}
  /\ kind' \in {kind, IF kind = "absent" THEN "empty" ELSE kind}
  /\ fresh' = [fresh EXCEPT ![p] = FALSE]
  /\ UNCHANGED <<last, remoteVars, compose, head, branch, on, svc,
                 pc, req, sha, seen, built, slips, rm>>

\* save_env and save_compose: the file is written, its directory made if need be.
\* The reset of save_compose takes it from the repository.
SaveFile ==
  /\ rows # {}
  /\ kind' = (IF kind = "repo" THEN kind ELSE "files") /\ compose' \in {compose, TRUE}
  /\ UNCHANGED <<dbVars, remoteVars, head, branch, on, svc, workVars, rm>>

\* stop_project and restart_project: docker may fail half-way, which is only logged.
StopProject ==
  /\ rows # {} /\ compose
  /\ \E S \in SUBSET Services :
       svc' = [s \in Services |-> IF s \in S /\ svc[s] \in Up THEN "exited" ELSE svc[s]]
  /\ UNCHANGED <<dbVars, remoteVars, folderVars, workVars, rm>>

RestartProject ==
  /\ rows # {} /\ compose
  /\ \E S \in SUBSET {s \in Services : svc[s] # "absent"} :
       svc' = [s \in Services |-> IF s \in S THEN Started(s) ELSE svc[s]]
  /\ UNCHANGED <<dbVars, remoteVars, folderVars, workVars, rm>>

\* The process stops in the middle of whatever it does, and starts again.
ProcessRestart ==
  /\ born # {}
  /\ pc' = [p \in Projects |-> "idle"] /\ req' = [p \in Projects |-> NoRequest]
  /\ sha' = [p \in Projects |-> NoCommit] /\ fresh' = [p \in Projects |-> TRUE]
  /\ seen' = [p \in Projects |-> {}] /\ built' = [p \in Projects |-> NoCommit]
  /\ slips' = [p \in Projects |-> {}]
  /\ rm' = [p \in Projects |-> "idle"]
  /\ UNCHANGED <<dbVars, remoteVars, folderVars, svc>>

--------------------------------------------------------------------------------
(* remove_project: down, delete the folder, delete the row.                    *)

RmGoto(p, from, to) == rm[p] = from /\ rm' = [rm EXCEPT ![p] = to]

RemoveProject(p) ==
  /\ p \in rows /\ RmGoto(p, "idle", "down")
  /\ UNCHANGED <<dbVars, remoteVars, folderVars, svc, workVars>>

\* compose down needs the compose file; whatever it says, the handler goes on.
RemoveDown(p) ==
  /\ RmGoto(p, "down", "rmdir")
  /\ \E S \in SUBSET Services :
       /\ S # {} => compose
       /\ svc' = [s \in Services |-> IF s \in S THEN "absent" ELSE svc[s]]
  /\ UNCHANGED <<dbVars, remoteVars, folderVars, workVars>>

\* What remove_dir_all may leave of a folder; a broken repository counts as files.
Remains == {"absent"} \cup (IF kind = "empty" THEN {"empty"} ELSE {})
                      \cup (IF kind \in {"files", "repo"} THEN {"empty", "files", kind} ELSE {})

\* remove_dir_all may stop half-way; the error is only logged.  A deploy that is
\* between git and compose up goes on with what is left.
RemoveDir(p) ==
  /\ RmGoto(p, "rmdir", "delete")
  /\ kind' \in Remains
  /\ compose' \in {FALSE, compose} /\ (compose' => kind' \in {"files", "repo"})
  /\ IF kind' = "repo" THEN UNCHANGED <<head, branch, on>>
                       ELSE head' = NoCommit /\ branch' = NoCommit /\ on' = "branch"
  /\ slips' = [q \in Projects |->
       IF pc[q] \in {"record", "up"} /\ ~UNCHANGED folderVars
         THEN slips[q] \cup {"wiped"} ELSE slips[q]]
  /\ UNCHANGED <<dbVars, remoteVars, svc, pc, req, sha, fresh, seen, built>>

\* delete_project, with the rows of the project's deploys; it may fail.
RemoveRow(p) ==
  /\ RmGoto(p, "delete", "idle")
  /\ \/ rows' = rows \ {p} /\ last' = [last EXCEPT ![p] = NoCommit]
     \/ UNCHANGED <<rows, last>>
  /\ UNCHANGED <<born, remoteVars, folderVars, svc, workVars>>

--------------------------------------------------------------------------------
(* run_deploy.                                                                 *)

Goto(p, from, to) == pc[p] = from /\ pc' = [pc EXCEPT ![p] = to]

\* The deploy is over, whatever its outcome: its locals are dropped.
Return(p) ==
  /\ pc' = [pc EXCEPT ![p] = "idle"] /\ req' = [req EXCEPT ![p] = NoRequest]
  /\ sha' = [sha EXCEPT ![p] = NoCommit] /\ seen' = [seen EXCEPT ![p] = {}]
  /\ built' = [built EXCEPT ![p] = NoCommit] /\ slips' = [slips EXCEPT ![p] = {}]

\* An outcome that ends the deploy as failed, or leaves run_deploy through `?`.
GiveUp(p, from) ==
  /\ pc[p] = from /\ Return(p)
  /\ UNCHANGED <<dbVars, remoteVars, svc, fresh, rm>>

\* A step that only moves on, with the folder as it is.
Proceed(p, from, to) ==
  /\ Goto(p, from, to)
  /\ UNCHANGED <<dbVars, remoteVars, folderVars, svc, req, sha, fresh, seen, built, slips, rm>>

\* A step of git that changes the folder.
Git(p, from, to) ==
  /\ Goto(p, from, to)
  /\ UNCHANGED <<dbVars, remoteVars, svc, req, sha, fresh, seen, built, rm>>

\* The worker takes up a request: a restart only as its first since boot, a
\* rollback to whatever commit the form names.
Begin(p) ==
  /\ p \in rows /\ Goto(p, "idle", "log")
  /\ \E r \in Requests :
       /\ r.kind = "restart" => fresh[p]
       /\ req' = [req EXCEPT ![p] = r]
  /\ seen' = [seen EXCEPT ![p] = {remote}]
  /\ fresh' = [fresh EXCEPT ![p] = FALSE]
  /\ UNCHANGED <<dbVars, remoteVars, folderVars, svc, sha, built, slips, rm>>

\* Mutant of OpenLog: the folder is emptied before its logs directory is made.
OpenLogWipes(p) ==
  /\ Git(p, "log", "sync") /\ kind' = "files" /\ UNCHANGED <<compose, head, branch, on, slips>>

\* create_dir_all(folder/logs), then the log file: the folder exists from here on.
\* It may also do so when the step fails.
OpenLog(p) ==
  /\ \/ Git(p, "log", "sync") /\ UNCHANGED slips /\ kind' = IF kind = "repo" THEN kind ELSE "files"
     \/ GiveUp(p, "log") /\ kind' \in {kind, IF kind = "repo" THEN kind ELSE "files"}
  /\ UNCHANGED <<compose, head, branch, on>>

\* Which git commands this request needs.
GitSync(p) ==
  Proceed(p, "sync",
    CASE req[p].kind = "rollback" -> "fetch"
      [] req[p].kind # "rollback" /\ kind # "repo" -> "clone"
      [] req[p].kind = "restart" /\ kind = "repo" -> "skip"
      [] req[p].kind = "normal" /\ kind = "repo" -> "fetch")

CommitsMade == {c \in Commits : anc[c] # {}}

\* git clone, which refuses a folder that holds anything.  It is not told the branch:
\* HEAD is on the remote's default branch, the project's or another one.
Clone(p) ==
  \/ /\ kind \in {"absent", "empty"} /\ Git(p, "clone", "record")
     /\ kind' = "repo" /\ compose' \in BOOLEAN
     /\ \/ head' = remote /\ branch' = remote /\ on' = "branch" /\ UNCHANGED slips
        \/ /\ head' \in CommitsMade /\ branch' = NoCommit /\ on' = "default"
           /\ slips' = [slips EXCEPT ![p] = @ \cup {"default"}]
  \/ GiveUp(p, "clone") /\ UNCHANGED folderVars

\* Mutant of SkipPull: any restart with a checkout skips the pull.
SkipAlways(p) == Proceed(p, "skip", IF kind = "repo" THEN "record" ELSE "fetch")

\* A restart does not pull when HEAD is what the last succeeded deploy recorded; an
\* error on the way to that answer counts as no.
SkipPull(p) ==
  \/ kind = "repo" /\ last[p] # NoCommit /\ head = last[p] /\ Proceed(p, "skip", "record")
  \/ Proceed(p, "skip", "fetch")

Fetch(p) ==
  \/ kind = "repo" /\ Proceed(p, "fetch", "checkout")
  \/ GiveUp(p, "fetch") /\ UNCHANGED folderVars

\* git checkout of the branch, or of a rollback's commit, which detaches HEAD.  What
\* is checked out may have the compose file or not.
CheckoutGit(p, to) ==
  kind = "repo" /\ Git(p, "checkout", to) /\ compose' \in BOOLEAN /\ UNCHANGED <<kind, slips>>

\* Mutant of Checkout: a rollback checks the branch out, like any other deploy.
CheckoutBranch(p) ==
  /\ CheckoutGit(p, IF req[p].kind = "rollback" THEN "record" ELSE "pull")
  /\ branch # NoCommit /\ head' = branch /\ on' = "branch" /\ UNCHANGED branch

\* Mutant of Checkout: a rollback resets the branch to the commit.
CheckoutResets(p) ==
  /\ IF req[p].kind = "rollback"
       THEN CheckoutGit(p, "record") /\ branch' = req[p].target
       ELSE CheckoutGit(p, "pull") /\ branch # NoCommit /\ UNCHANGED branch
  /\ head' = branch' /\ on' = "branch"

\* A local branch that is not there yet is made where the last fetch saw the remote's,
\* which is somewhere it was since this deploy began.  Checkout fails, for one, when
\* the commit is not there or edits to tracked files are in the way.
Checkout(p) ==
  \/ /\ req[p].kind = "rollback" /\ CheckoutGit(p, "record")
     /\ req[p].target \in CommitsMade /\ head' = req[p].target /\ on' = "commit"
     /\ UNCHANGED branch
  \/ /\ req[p].kind # "rollback" /\ CheckoutGit(p, "pull")
     /\ branch' \in (IF branch = NoCommit THEN seen[p] ELSE {branch})
     /\ head' = branch' /\ on' = "branch"
  \/ GiveUp(p, "checkout") /\ UNCHANGED folderVars

\* git pull --ff-only succeeds: the branch HEAD is on has or gets what the remote has.
FastForward(p, from) ==
  /\ kind = "repo" /\ Git(p, from, "record")
  /\ \/ /\ on = "branch" /\ (branch \in anc[remote] \/ remote \in anc[branch])
        /\ branch' = (IF remote \in anc[branch] THEN branch ELSE remote) /\ head' = branch'
     \/ on = "default" /\ head' \in {c \in Commits : head \in anc[c]} /\ UNCHANGED branch
  /\ compose' \in BOOLEAN /\ UNCHANGED <<kind, on, slips>>

\* The network, a diverged branch or edits in the way make pull fail.
Pull(p) == FastForward(p, "pull") \/ Proceed(p, "pull", "stash")

\* git stash puts edits away, of the compose file too; its own failure is ignored.
Stash(p) ==
  /\ Git(p, "stash", "repull")
  /\ compose' \in {compose} \cup (IF kind = "repo" THEN BOOLEAN ELSE {})
  /\ UNCHANGED <<kind, head, branch, on, slips>>

PullAgain(p) ==
  \/ FastForward(p, "repull")
  \/ GiveUp(p, "repull") /\ UNCHANGED folderVars

\* Mutant of RecordCommit: the branch is asked for its tip, not HEAD.
RecordBranch(p) ==
  /\ Goto(p, "record", "up") /\ sha' = [sha EXCEPT ![p] = branch]
  /\ UNCHANGED <<dbVars, remoteVars, folderVars, svc, req, fresh, seen, built, slips, rm>>

\* git rev-parse HEAD: without a repository, and on any other error, the commit is
\* recorded as "" and the deploy goes on.
RecordCommit(p) ==
  \/ /\ Goto(p, "record", "up")
     /\ \E c \in {head, NoCommit} : sha' = [sha EXCEPT ![p] = c]
     /\ UNCHANGED <<dbVars, remoteVars, folderVars, svc, req, fresh, seen, built, slips, rm>>
  \/ GiveUp(p, "record") /\ UNCHANGED folderVars

\* docker compose <compose_command>: it needs the compose file, with a checkout or
\* without, and builds what is there now; a command that fails may have started
\* containers before.
ComposeUp(p) ==
  \/ /\ compose /\ Goto(p, "up", "poll")
     /\ svc' = [s \in Services |-> Started(s)]
     /\ built' = [built EXCEPT ![p] = head]
     /\ UNCHANGED <<dbVars, remoteVars, folderVars, req, sha, fresh, seen, slips, rm>>
  \/ /\ pc[p] = "up" /\ Return(p)
     /\ \E S \in SUBSET Services :
          /\ S # {} => compose
          /\ svc' = [s \in Services |-> IF s \in S THEN Started(s) ELSE svc[s]]
     /\ UNCHANGED <<dbVars, remoteVars, folderVars, fresh, rm>>

\* What docker compose ps lists: by default, no container that has exited.
Listed == {s \in Services : svc[s] \in Up}

\* compose_ps_healthy: no line of ps's output speaks against it.
PsHealthy == \A s \in Listed : svc[s] = IF s \in Checked THEN "healthy" ELSE "running"

\* One turn of the health loop; ps cannot run once the folder is gone, and lists
\* nothing without the compose file.
Poll(p) ==
  \/ kind # "absent" /\ (compose => PsHealthy) /\ Proceed(p, "poll", "succeed")
  \/ GiveUp(p, "poll") /\ UNCHANGED folderVars

\* finish_deploy(succeeded), on no row when the project is gone; it may fail.
Succeed(p) ==
  /\ pc[p] = "succeed" /\ Return(p)
  /\ \/ p \in rows /\ last' = [last EXCEPT ![p] = sha[p]]
     \/ UNCHANGED last
  /\ UNCHANGED <<born, rows, remoteVars, folderVars, svc, fresh, rm>>

--------------------------------------------------------------------------------
WorkerStep(p) ==
  \/ Begin(p) \/ OpenLog(p) \/ GitSync(p) \/ Clone(p) \/ SkipPull(p) \/ Fetch(p)
  \/ Checkout(p) \/ Pull(p) \/ Stash(p) \/ PullAgain(p) \/ RecordCommit(p)
  \/ ComposeUp(p) \/ Poll(p) \/ Succeed(p)

Removal(p) == RemoveProject(p) \/ RemoveDown(p) \/ RemoveDir(p) \/ RemoveRow(p)

Next ==
  \/ Push \/ Rewind
  \/ \E s \in Services : ServiceStep(s)
  \/ SaveFile \/ StopProject \/ RestartProject \/ ProcessRestart
  \/ \E p \in Projects : CreateProject(p) \/ Removal(p) \/ WorkerStep(p)

Spec == Init /\ [][Next]_vars

--------------------------------------------------------------------------------
(* What is true of it.                                                         *)

TypeOK ==
  /\ born \subseteq Projects /\ rows \subseteq born
  /\ last \in [Projects -> Commits \cup {NoCommit}]
  /\ remote \in Commits /\ anc \in [Commits -> SUBSET Commits]
  /\ kind \in Kinds /\ compose \in BOOLEAN /\ (compose => kind \in {"files", "repo"})
  /\ head \in Commits \cup {NoCommit} /\ branch \in Commits \cup {NoCommit}
  /\ (kind = "repo") = (head # NoCommit)
  /\ on \in {"branch", "default", "commit"}
  /\ IF kind = "repo" THEN on = "branch" => branch = head
                      ELSE on = "branch" /\ branch = NoCommit
  /\ svc \in [Services -> SvcStates]
  /\ pc \in [Projects -> Phases] /\ req \in [Projects -> Requests]
  /\ sha \in [Projects -> Commits \cup {NoCommit}]
  /\ fresh \in [Projects -> BOOLEAN]
  /\ seen \in [Projects -> SUBSET Commits]
  /\ built \in [Projects -> Commits \cup {NoCommit}]
  /\ slips \in [Projects -> SUBSET Slips]
  /\ rm \in [Projects -> {"idle", "down", "rmdir", "delete"}]

\* The commit a successful deploy records, if git told it one, is the HEAD its
\* containers were built from, though git and compose are asked at different times
\* and an editor or another handler may be at work in the folder between them: only
\* a removal that takes the folder in that very window makes the record wrong.
SucceededIsBuilt ==
  \A p \in Projects :
    pc[p] = "succeed" /\ "wiped" \notin slips[p] => sha[p] \in {built[p], NoCommit}

\* A rollback that succeeds runs the commit that was selected, unless a removal took
\* the checkout before compose ran.
RollbackLandsOnTarget ==
  \A p \in Projects :
    (pc[p] = "succeed" /\ req[p].kind = "rollback" /\ "wiped" \notin slips[p]) =>
      built[p] = req[p].target

\* A deploy that succeeds runs everything that was on the branch at some moment
\* after its turn came, so a push that was coalesced away is deployed by the request
\* that replaced it; a restart may run the last succeeded commit instead.  What can
\* go wrong is named: the clone of another branch, or a removal before compose ran.
DeploysThePush ==
  \A p \in Projects :
    (pc[p] = "succeed" /\ req[p].kind # "rollback" /\ p \in rows /\ slips[p] = {}) =>
      seen[p] \cap anc[built[p]] # {} \/ (req[p].kind = "restart" /\ built[p] = last[p])

\* The local branch is never taken back, not by a rollback either: the deploy after
\* a rollback goes forward from where the branch was.
BranchMovesForward ==
  [][kind = "repo" /\ kind' = "repo" /\ branch # NoCommit => branch \in anc[branch']]_vars

\* git clone is asked only for a folder that can be cloned into.
CloneTargetIsFree ==
  \A p \in Projects : pc[p] = "clone" => kind \in {"absent", "empty"}

\* The health check passes only a stack whose services all run.
HealthyMeansRunning ==
  [][\A p \in Projects : (pc[p] = "poll" /\ pc'[p] = "succeed") =>
       \A s \in Services : svc[s] \in {"running", "healthy"}]_vars

\* The row of a project is only deleted once the on-disk state is gone.
RowOutlivesFolder ==
  [][\A p \in Projects : p \in rows /\ p \notin rows' => kind = "absent"]_vars
================================================================================
