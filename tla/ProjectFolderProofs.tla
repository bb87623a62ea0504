-------------------------- MODULE ProjectFolderProofs --------------------------
(* Theorems about ProjectFolder, for every set of services and any number of   *)
(* commits.  What a deploy runs is shown for a folder that is not shared: two  *)
(* projects registered with one folder check out what they like in it.         *)
EXTENDS ProjectFolder, TLAPS

\* One project at most has this folder.
NotShared == \A p, q \in Projects : p = q

\* What TypeOK says of the folder.
FolderOK ==
  /\ kind \in Kinds /\ compose \in BOOLEAN /\ (compose => kind \in {"files", "repo"})
  /\ head \in Commits \cup {NoCommit} /\ branch \in Commits \cup {NoCommit}
  /\ (kind = "repo") = (head # NoCommit)
  /\ on \in {"branch", "default", "commit"}
  /\ IF kind = "repo" THEN on = "branch" => branch = head
                      ELSE on = "branch" /\ branch = NoCommit

\* The steps that leave the workers and the checkout alone.
Elsewhere ==
  \/ \E s \in Services : ServiceStep(s)
  \/ SaveFile \/ StopProject \/ RestartProject
  \/ \E p \in Projects : RemoveProject(p) \/ RemoveDown(p)

--------------------------------------------------------------------------------
(* Type correctness.                                                           *)

LEMMA InitTypeOK == Init => TypeOK
  <1> SUFFICES ASSUME Init PROVE TypeOK
    OBVIOUS
  <1>1. 1 \in Commits /\ NoCommit \notin Commits
    BY CommitsAssumption DEF Commits, NoCommit
  <1>2. FolderOK
    BY <1>1, FoundAssumption DEF Init, NoCommit, FolderOK, Kinds
  <1>3. NoRequest \in Requests
    BY DEF NoRequest, Requests
  <1>4. anc \in [Commits -> SUBSET Commits] /\ remote \in Commits
    BY <1>1 DEF Init
  <1> QED
    BY <1>2, <1>3, <1>4 DEF Init, TypeOK, FolderOK, SvcStates, Phases, Slips

\* A new commit and a moved branch are commits.
LEMMA PushTypeOK ==
  ASSUME TypeOK, Push \/ Rewind
  PROVE  TypeOK'
  <1>1. ASSUME NEW c \in Commits, MoveBranch(c), anc' \in [Commits -> SUBSET Commits]
        PROVE  TypeOK'
    BY <1>1 DEF TypeOK, MoveBranch, dbVars, folderVars
  <1>2. CASE Push
    <2>1. PICK c \in Commits, base \in {{}, anc[remote]} :
            anc' = [anc EXCEPT ![c] = base \cup {c}] /\ MoveBranch(c)
      BY <1>2 DEF Push
    <2>2. anc' \in [Commits -> SUBSET Commits]
      BY <2>1 DEF TypeOK
    <2> QED
      BY <1>1, <2>1, <2>2
  <1>3. CASE Rewind
    BY <1>1, <1>3 DEF Rewind, TypeOK
  <1> QED
    BY <1>2, <1>3

\* The operator and the containers keep the types.
LEMMA ElsewhereTypeOK ==
  ASSUME TypeOK, Elsewhere
  PROVE  TypeOK'
  <1>1. ASSUME NEW s \in Services, ServiceStep(s) PROVE TypeOK'
    BY <1>1 DEF TypeOK, ServiceStep, SvcStates, Up, dbVars, remoteVars, folderVars, workVars
  <1>2. CASE SaveFile
    <2>1. FolderOK'
      BY <1>2 DEF TypeOK, SaveFile, FolderOK, Kinds
    <2> QED
      BY <1>2, <2>1 DEF TypeOK, FolderOK, SaveFile, dbVars, remoteVars, workVars
  <1>3. CASE StopProject
    BY <1>3 DEF TypeOK, StopProject, SvcStates, dbVars, remoteVars, folderVars, workVars
  <1>4. CASE RestartProject
    BY <1>4 DEF TypeOK, RestartProject, Started, SvcStates, Up, dbVars, remoteVars,
                folderVars, workVars
  <1>5. ASSUME NEW p \in Projects, RemoveProject(p) \/ RemoveDown(p) PROVE TypeOK'
    BY <1>5 DEF TypeOK, RemoveProject, RemoveDown, RmGoto, SvcStates, dbVars, remoteVars,
                folderVars, workVars
  <1> QED
    BY <1>1, <1>2, <1>3, <1>4, <1>5 DEF Elsewhere

\* So do the registration, the end of the removal and the restart of the process.
LEMMA RowsTypeOK ==
  ASSUME TypeOK,
         ProcessRestart \/ \E p \in Projects : CreateProject(p) \/ RemoveDir(p) \/ RemoveRow(p)
  PROVE  TypeOK'
  <1>1. CASE ProcessRestart
    <2>1. NoRequest \in Requests
      BY DEF NoRequest, Requests
    <2> QED
      BY <1>1, <2>1 DEF TypeOK, ProcessRestart, Phases, dbVars, remoteVars, folderVars
  <1>2. ASSUME NEW p \in Projects, CreateProject(p) PROVE TypeOK'
    <2>1. FolderOK'
      BY <1>2 DEF TypeOK, CreateProject, FolderOK, Kinds
    <2> QED
      BY <1>2, <2>1 DEF TypeOK, FolderOK, CreateProject, remoteVars
  <1>3. ASSUME NEW p \in Projects, RemoveDir(p) PROVE TypeOK'
    <2>1. FolderOK'
      BY <1>3 DEF TypeOK, RemoveDir, Remains, FolderOK, Kinds
    <2>2. slips' \in [Projects -> SUBSET Slips]
      BY <1>3 DEF TypeOK, RemoveDir, Slips
    <2> QED
      BY <1>3, <2>1, <2>2 DEF TypeOK, FolderOK, RemoveDir, RmGoto, dbVars, remoteVars
  <1>4. ASSUME NEW p \in Projects, RemoveRow(p) PROVE TypeOK'
    BY <1>4 DEF TypeOK, RemoveRow, RmGoto, remoteVars, folderVars, workVars
  <1> QED
    BY <1>1, <1>2, <1>3, <1>4

\* The end of a deploy clears the worker's locals.
LEMMA ReturnType ==
  ASSUME TypeOK, NEW p \in Projects, Return(p)
  PROVE  /\ pc' \in [Projects -> Phases] /\ req' \in [Projects -> Requests]
         /\ sha' \in [Projects -> Commits \cup {NoCommit}]
         /\ built' \in [Projects -> Commits \cup {NoCommit}]
         /\ seen' \in [Projects -> SUBSET Commits]
         /\ slips' \in [Projects -> SUBSET Slips]
  <1>1. NoRequest \in Requests
    BY DEF NoRequest, Requests
  <1> QED
    BY <1>1 DEF TypeOK, Return, Phases, Slips

\* The steps of a deploy that leave the checkout alone.
LEMMA LoopTypeOK ==
  ASSUME TypeOK, NEW p \in Projects,
         \/ Begin(p) \/ GitSync(p) \/ SkipPull(p) \/ Fetch(p)
         \/ RecordCommit(p) \/ ComposeUp(p) \/ Poll(p) \/ Succeed(p)
  PROVE  TypeOK'
  <1>1. ASSUME NEW from, NEW to \in Phases, Proceed(p, from, to) PROVE TypeOK'
    BY <1>1 DEF TypeOK, Proceed, Goto, dbVars, remoteVars, folderVars
  <1>2. ASSUME NEW from, GiveUp(p, from), UNCHANGED folderVars PROVE TypeOK'
    BY <1>2, ReturnType DEF TypeOK, GiveUp, dbVars, remoteVars, folderVars
  <1>3. CASE Begin(p)
    BY <1>3 DEF TypeOK, Begin, Goto, Phases, dbVars, remoteVars, folderVars
  <1>4. CASE GitSync(p)
    <2>1. req[p].kind \in {"normal", "restart", "rollback"}
      BY DEF TypeOK, Requests
    <2> QED
      BY <1>1, <1>4, <2>1 DEF GitSync, Phases
  <1>5. CASE SkipPull(p)
    BY <1>1, <1>5 DEF SkipPull, Phases
  <1>6. CASE Fetch(p) \/ Poll(p)
    BY <1>1, <1>2, <1>6 DEF Fetch, Poll, Phases
  <1>7. CASE RecordCommit(p)
    <2>1. CASE GiveUp(p, "record") /\ UNCHANGED folderVars
      BY <1>2, <2>1
    <2>2. CASE Goto(p, "record", "up")
      BY <1>7, <2>2 DEF TypeOK, RecordCommit, GiveUp, Return, Goto, Phases, dbVars, remoteVars,
                        folderVars
    <2> QED
      BY <1>7, <2>1, <2>2 DEF RecordCommit
  <1>8. CASE ComposeUp(p)
    <2>1. svc' \in [Services -> SvcStates]
      BY <1>8 DEF TypeOK, ComposeUp, Started, SvcStates, Up
    <2>2. CASE Return(p) /\ UNCHANGED <<dbVars, remoteVars, folderVars, fresh, rm>>
      BY <2>1, <2>2, ReturnType DEF TypeOK, dbVars, remoteVars, folderVars
    <2>3. CASE /\ Goto(p, "up", "poll") /\ built' = [built EXCEPT ![p] = head]
               /\ UNCHANGED <<dbVars, remoteVars, folderVars, req, sha, fresh, seen, slips, rm>>
      BY <2>1, <2>3 DEF TypeOK, Goto, Phases, dbVars, remoteVars, folderVars
    <2> QED
      BY <1>8, <2>2, <2>3 DEF ComposeUp
  <1>9. CASE Succeed(p)
    <2>1. last' \in [Projects -> Commits \cup {NoCommit}]
      BY <1>9 DEF TypeOK, Succeed
    <2> QED
      BY <1>9, <2>1, ReturnType DEF TypeOK, Succeed, remoteVars, folderVars
  <1> QED
    BY <1>3, <1>4, <1>5, <1>6, <1>7, <1>8, <1>9

\* The steps of a deploy that may change the checkout.
LEMMA GitTypeOK ==
  ASSUME TypeOK, NEW p \in Projects,
         OpenLog(p) \/ Clone(p) \/ Checkout(p) \/ Pull(p) \/ Stash(p) \/ PullAgain(p)
  PROVE  TypeOK'
  <1>0. NoCommit \notin Commits
    BY DEF NoCommit, Commits
  <1>1. ASSUME NEW from, NEW to \in Phases, Git(p, from, to), FolderOK',
               slips' \in [Projects -> SUBSET Slips]
        PROVE  TypeOK'
    BY <1>1 DEF TypeOK, FolderOK, Git, Goto, dbVars, remoteVars
  <1>2. ASSUME NEW from, GiveUp(p, from), FolderOK' PROVE TypeOK'
    BY <1>2, ReturnType DEF TypeOK, FolderOK, GiveUp, dbVars, remoteVars
  <1>3. ASSUME NEW from, NEW to \in Phases, Proceed(p, from, to) PROVE TypeOK'
    BY <1>3 DEF TypeOK, Proceed, Goto, dbVars, remoteVars, folderVars
  <1>4. UNCHANGED slips => slips' \in [Projects -> SUBSET Slips]
    BY DEF TypeOK
  <1>5. UNCHANGED folderVars => FolderOK'
    BY DEF TypeOK, FolderOK, folderVars
  <1>6. CASE OpenLog(p)
    <2>1. FolderOK'
      BY <1>6 DEF OpenLog, TypeOK, FolderOK, Kinds
    <2> QED
      BY <1>1, <1>2, <1>4, <1>6, <2>1 DEF OpenLog, Phases
  <1>7. CASE Clone(p)
    <2>1. CASE Git(p, "clone", "record")
      <3>1. FolderOK'
        BY <1>0, <1>5, <1>7, <2>1 DEF Clone, CommitsMade, TypeOK, FolderOK, Kinds
      <3>2. slips' \in [Projects -> SUBSET Slips]
        BY <1>7, <2>1 DEF Clone, GiveUp, Return, TypeOK, Slips
      <3> QED
        BY <1>1, <2>1, <3>1, <3>2 DEF Phases
    <2> QED
      BY <1>2, <1>5, <1>7, <2>1 DEF Clone
  <1>8. CASE Checkout(p)
    <2>1. ASSUME NEW to \in Phases, CheckoutGit(p, to), head' \in Commits,
                 branch' \in Commits \cup {NoCommit}, on' \in {"branch", "commit"},
                 on' = "branch" => branch' = head'
          PROVE  TypeOK'
      BY <1>0, <1>1, <1>4, <2>1 DEF CheckoutGit, FolderOK, TypeOK
    <2>2. CASE /\ CheckoutGit(p, "record") /\ req[p].target \in CommitsMade
               /\ head' = req[p].target /\ on' = "commit" /\ UNCHANGED branch
      BY <2>1, <2>2 DEF CommitsMade, TypeOK, Phases
    <2>3. CASE /\ CheckoutGit(p, "pull") /\ head' = branch' /\ on' = "branch"
               /\ branch' \in (IF branch = NoCommit THEN seen[p] ELSE {branch})
      <3>1. branch' \in Commits
        BY <2>3 DEF TypeOK
      <3> QED
        BY <2>1, <2>3, <3>1 DEF Phases
    <2> QED
      BY <1>2, <1>5, <1>8, <2>2, <2>3 DEF Checkout
  <1>9. ASSUME NEW from, FastForward(p, from) PROVE TypeOK'
    <2>1. FolderOK'
      BY <1>0, <1>9 DEF TypeOK, FolderOK, FastForward
    <2> QED
      BY <1>1, <1>4, <1>9, <2>1 DEF FastForward, Phases
  <1>10. CASE Stash(p)
    <2>1. FolderOK'
      BY <1>10 DEF Stash, TypeOK, FolderOK
    <2> QED
      BY <1>1, <1>4, <1>10, <2>1 DEF Stash, Phases
  <1>11. Proceed(p, "pull", "stash") => TypeOK'
    BY <1>3 DEF Phases
  <1> QED
    BY <1>2, <1>5, <1>6, <1>7, <1>8, <1>9, <1>10, <1>11 DEF Pull, PullAgain

LEMMA NextTypeOK == TypeOK /\ [Next]_vars => TypeOK'
  <1> SUFFICES ASSUME TypeOK, [Next]_vars PROVE TypeOK'
    OBVIOUS
  <1>1. CASE UNCHANGED vars
    BY <1>1 DEF TypeOK, vars, dbVars, remoteVars, folderVars, workVars
  <1>2. ASSUME NEW p \in Projects, WorkerStep(p) PROVE TypeOK'
    BY <1>2, LoopTypeOK, GitTypeOK DEF WorkerStep
  <1> QED
    BY <1>1, <1>2, PushTypeOK, ElsewhereTypeOK, RowsTypeOK DEF Next, Removal, Elsewhere

\* Every variable of the folder model keeps its type, and the folder has a HEAD and
\* a local branch exactly when it is a repository.
THEOREM TypeCorrect == Spec => []TypeOK
  BY InitTypeOK, NextTypeOK, PTL DEF Spec

--------------------------------------------------------------------------------
(* The local branch.                                                           *)

\* Every commit in use was made, and is among its own ancestors.
Made ==
  /\ remote \in anc[remote] /\ (branch # NoCommit => branch \in anc[branch])
  /\ \A c \in Commits : \A d \in anc[c] : d \in anc[d]
  /\ \A p \in Projects : \A c \in seen[p] : c \in anc[c]

\* What a deploy may fetch grows by where the remote branch is, at most.
SeenStep == \A p \in Projects : seen'[p] \subseteq seen[p] \cup {remote'}

\* How a step can change the local branch.
BranchStep ==
  \/ UNCHANGED <<remote, anc, branch>>
  \/ kind # "repo" /\ branch' = remote /\ UNCHANGED <<remote, anc>>
  \/ (kind # "repo" \/ kind' # "repo") /\ branch' = NoCommit /\ UNCHANGED <<remote, anc>>
  \/ branch = NoCommit /\ (\E p \in Projects : branch' \in seen[p]) /\ UNCHANGED <<remote, anc>>
  \/ branch \in anc[remote] /\ branch' = remote /\ UNCHANGED <<remote, anc>>
  \/ (Push \/ Rewind) /\ UNCHANGED branch

LEMMA NextBranchStep == TypeOK /\ [Next]_vars => BranchStep
  <1> SUFFICES ASSUME TypeOK, [Next]_vars PROVE BranchStep
    OBVIOUS
  <1>1. CASE UNCHANGED vars
    BY <1>1 DEF vars, remoteVars, folderVars, BranchStep
  <1>2. CASE Push \/ Rewind
    BY <1>2 DEF Push, Rewind, MoveBranch, folderVars, BranchStep
  <1>3. CASE Elsewhere \/ ProcessRestart
    BY <1>3 DEF Elsewhere, ServiceStep, SaveFile, StopProject, RestartProject, RemoveProject,
                RemoveDown, ProcessRestart, remoteVars, folderVars, BranchStep
  <1>4. ASSUME NEW p \in Projects, CreateProject(p) \/ RemoveRow(p) PROVE BranchStep
    BY <1>4 DEF CreateProject, RemoveRow, remoteVars, folderVars, BranchStep
  <1>5. ASSUME NEW p \in Projects, RemoveDir(p) PROVE BranchStep
    BY <1>5 DEF RemoveDir, remoteVars, folderVars, BranchStep
  <1>6. ASSUME NEW p \in Projects, Clone(p) PROVE BranchStep
    BY <1>6 DEF Clone, Git, GiveUp, remoteVars, folderVars, BranchStep
  <1>7. ASSUME NEW p \in Projects, Pull(p) \/ PullAgain(p) PROVE BranchStep
    BY <1>7 DEF Pull, PullAgain, FastForward, Git, Proceed, GiveUp, remoteVars, folderVars,
                BranchStep
  <1>8. ASSUME NEW p \in Projects, Begin(p) \/ RecordCommit(p) \/ ComposeUp(p) \/ Succeed(p)
        PROVE  BranchStep
    BY <1>8 DEF Begin, RecordCommit, ComposeUp, Succeed, GiveUp, remoteVars, folderVars,
                BranchStep
  <1>9. ASSUME NEW p \in Projects, OpenLog(p) \/ GitSync(p) \/ SkipPull(p) \/ Fetch(p)
                                   \/ Stash(p) \/ Poll(p)
        PROVE  BranchStep
    BY <1>9 DEF OpenLog, GitSync, SkipPull, Fetch, Stash, Poll, Git, Proceed, GiveUp,
                remoteVars, folderVars, BranchStep
  <1>10. ASSUME NEW p \in Projects, Checkout(p) PROVE BranchStep
    BY <1>10 DEF Checkout, CheckoutGit, Git, GiveUp, remoteVars, folderVars, BranchStep
  <1> QED
    BY <1>1, <1>2, <1>3, <1>4, <1>5, <1>6, <1>7, <1>8, <1>9, <1>10
       DEF Next, Elsewhere, Removal, WorkerStep

LEMMA NextSeenStep == TypeOK /\ [Next]_vars => SeenStep
  <1> SUFFICES ASSUME TypeOK, [Next]_vars PROVE SeenStep
    OBVIOUS
  <1>1. UNCHANGED seen => SeenStep
    BY DEF SeenStep
  <1>2. ASSUME NEW p \in Projects, Return(p) PROVE SeenStep
    BY <1>2 DEF Return, SeenStep, TypeOK
  <1>3. CASE UNCHANGED vars \/ Elsewhere
    BY <1>1, <1>3 DEF vars, Elsewhere, ServiceStep, SaveFile, StopProject, RestartProject,
                      RemoveProject, RemoveDown, workVars
  <1>4. CASE Push \/ Rewind
    BY <1>4 DEF Push, Rewind, MoveBranch, SeenStep, TypeOK
  <1>5. CASE ProcessRestart
    BY <1>5 DEF ProcessRestart, SeenStep
  <1>6. ASSUME NEW p \in Projects, CreateProject(p) \/ RemoveDir(p) \/ RemoveRow(p)
        PROVE  SeenStep
    BY <1>1, <1>6 DEF CreateProject, RemoveDir, RemoveRow, workVars
  <1>7. ASSUME NEW p \in Projects, Begin(p) PROVE SeenStep
    BY <1>7 DEF Begin, SeenStep, TypeOK, remoteVars
  <1>8. ASSUME NEW p \in Projects,
               \/ OpenLog(p) \/ GitSync(p) \/ Clone(p) \/ SkipPull(p) \/ Fetch(p)
               \/ Checkout(p) \/ Pull(p) \/ Stash(p) \/ PullAgain(p)
        PROVE  SeenStep
    BY <1>1, <1>2, <1>8
       DEF OpenLog, GitSync, Clone, SkipPull, Fetch, Checkout, CheckoutGit, Pull, Stash,
           PullAgain, FastForward, Git, Proceed, GiveUp
  <1>9. ASSUME NEW p \in Projects, RecordCommit(p) \/ ComposeUp(p) \/ Poll(p) \/ Succeed(p)
        PROVE  SeenStep
    BY <1>1, <1>2, <1>9 DEF RecordCommit, ComposeUp, Poll, Succeed, Proceed, GiveUp
  <1> QED
    BY <1>3, <1>4, <1>5, <1>6, <1>7, <1>8, <1>9 DEF Next, Elsewhere, Removal, WorkerStep

LEMMA MadeStep == TypeOK /\ Made /\ BranchStep /\ SeenStep => Made'
  <1> SUFFICES ASSUME TypeOK, Made, BranchStep, SeenStep PROVE Made'
    OBVIOUS
  <1>1. CASE UNCHANGED <<remote, anc>>
    <2>1. branch' # NoCommit => branch' \in anc[branch']
      BY <1>1 DEF Made, BranchStep, Push, Rewind, MoveBranch, NoCommit
    <2>2. \A p \in Projects : \A c \in seen'[p] : c \in anc[c]
      BY <1>1 DEF Made, SeenStep
    <2> QED
      BY <1>1, <2>1, <2>2 DEF Made
  <1>2. CASE Push /\ UNCHANGED branch
    <2>1. PICK c \in Commits, base \in {{}, anc[remote]} :
            /\ anc[c] = {} /\ anc' = [anc EXCEPT ![c] = base \cup {c}]
            /\ remote' = c
      BY <1>2 DEF Push, MoveBranch
    <2>2. \A d \in Commits : d \in anc[d] => d # c /\ anc'[d] = anc[d]
      BY <2>1 DEF TypeOK
    <2>3. anc'[c] = base \cup {c} /\ \A d \in base : d \in Commits /\ d \in anc[d]
      BY <2>1 DEF TypeOK, Made
    <2>4. \A e \in Commits : \A d \in anc'[e] : d \in anc'[d]
      BY <2>1, <2>2, <2>3 DEF TypeOK, Made
    <2>5. branch' # NoCommit => branch' \in anc'[branch']
      BY <1>2, <2>2 DEF TypeOK, Made
    <2>6. \A p \in Projects : \A d \in seen'[p] : d \in anc'[d]
      BY <2>1, <2>2, <2>3 DEF TypeOK, Made, SeenStep
    <2> QED
      BY <2>1, <2>3, <2>4, <2>5, <2>6 DEF Made
  <1>3. CASE Rewind /\ UNCHANGED branch
    BY <1>3 DEF Rewind, MoveBranch, Made, SeenStep, TypeOK
  <1> QED
    BY <1>1, <1>2, <1>3 DEF BranchStep

LEMMA BranchForwardStep ==
  TypeOK /\ Made /\ BranchStep =>
    (kind = "repo" /\ kind' = "repo" /\ branch # NoCommit => branch \in anc[branch'])
  BY DEF BranchStep, Made, TypeOK

\* The local branch of a project's checkout only ever moves forward, whatever
\* deploys, rollbacks, forced pushes and removals do, in a shared folder too.
THEOREM BranchOnlyMovesForward == Spec => BranchMovesForward
  <1>1. Init => TypeOK /\ Made
    BY InitTypeOK, CommitsAssumption DEF Init, Made, Commits, NoCommit
  <1>2. TypeOK /\ Made /\ [Next]_vars => (TypeOK /\ Made)'
    BY NextTypeOK, NextBranchStep, NextSeenStep, MadeStep
  <1>3. TypeOK /\ Made /\ [Next]_vars =>
          [kind = "repo" /\ kind' = "repo" /\ branch # NoCommit => branch \in anc[branch']]_vars
    BY NextBranchStep, BranchForwardStep
  <1> QED
    BY <1>1, <1>2, <1>3, PTL DEF Spec, BranchMovesForward

--------------------------------------------------------------------------------
(* What a deploy runs.                                                         *)

RolledBack(p) == req[p].kind = "rollback"

\* Nobody took the checkout from under the deploy.
Kept(p) == "wiped" \notin slips[p]

\* From the checkout of a rollback to its end, the commit is the target: HEAD as
\* long as the checkout is kept, then what compose was run with.
TargetInv(p) ==
  /\ pc[p] \in {"clone", "skip", "pull", "stash", "repull"} => ~RolledBack(p)
  /\ pc[p] = "skip" => req[p].kind = "restart"
  /\ (pc[p] \in {"pull", "stash", "repull"} /\ kind = "repo") => on = "branch"
  /\ (pc[p] \in {"record", "up"} /\ Kept(p)) => kind = "repo"
  /\ (pc[p] \in {"record", "up"} /\ Kept(p) /\ RolledBack(p)) => head = req[p].target
  /\ (pc[p] \in {"poll", "succeed"} /\ Kept(p) /\ RolledBack(p)) => built[p] = req[p].target

\* The recorded commit is HEAD until compose runs, and then what it ran with, or none.
CommitInv(p) ==
  /\ (pc[p] = "up" /\ Kept(p)) => sha[p] \in {head, NoCommit}
  /\ (pc[p] \in {"poll", "succeed"} /\ Kept(p)) => sha[p] \in {built[p], NoCommit}

\* The pushes a deploy has to run: c is as new as the branch was at some moment of
\* the deploy, or the restart kept what last succeeded.
Fresh(p, c) == seen[p] \cap anc[c] # {} \/ (req[p].kind = "restart" /\ c = last[p])

FreshInv(p) ==
  /\ pc[p] # "idle" => p \in born /\ remote \in seen[p]
  /\ (pc[p] \in {"record", "up"} /\ slips[p] = {} /\ ~RolledBack(p) /\ p \in rows) =>
       Fresh(p, head)
  /\ (pc[p] \in {"poll", "succeed"} /\ slips[p] = {} /\ ~RolledBack(p) /\ p \in rows) =>
       built[p] \in Commits /\ Fresh(p, built[p])

DeployInv == \A p \in Projects : TargetInv(p) /\ CommitInv(p) /\ FreshInv(p)

LEMMA InitDeployInv == Init => DeployInv
  BY DEF Init, DeployInv, TargetInv, CommitInv, FreshInv

\* A push only adds ancestors to a commit nobody has, and to what a deploy may fetch.
LEMMA PushDeployInv ==
  ASSUME TypeOK, Made, DeployInv, Push \/ Rewind
  PROVE  DeployInv'
  <1> SUFFICES ASSUME NEW p \in Projects PROVE (TargetInv(p) /\ CommitInv(p) /\ FreshInv(p))'
    BY DEF DeployInv
  <1>1. PICK c \in Commits : MoveBranch(c)
    BY DEF TypeOK, Push, Rewind
  <1>2. TargetInv(p)' /\ CommitInv(p)'
    BY <1>1 DEF DeployInv, TargetInv, CommitInv, Kept, RolledBack, MoveBranch, folderVars
  <1>3. pc[p] # "idle" => seen'[p] = seen[p] \cup {c}
    BY <1>1 DEF MoveBranch, TypeOK
  <1>4. \A d \in Commits : anc[d] # {} => anc'[d] = anc[d]
    BY DEF Push, Rewind, TypeOK
  <1>5. ASSUME NEW d \in Commits, pc[p] # "idle", Fresh(p, d) PROVE Fresh(p, d)'
    BY <1>1, <1>3, <1>4, <1>5 DEF Fresh, MoveBranch, dbVars
  <1>6. FreshInv(p)'
    <2>1. FreshInv(p)
      BY DEF DeployInv
    <2>2. UNCHANGED <<born, rows, pc, req, built, slips, head>> /\ remote' = c
      BY <1>1 DEF MoveBranch, dbVars, folderVars
    <2>3. (pc[p] \in {"record", "up"} /\ slips[p] = {}) => head \in Commits
      BY DEF TypeOK, DeployInv, TargetInv, Kept
    <2> QED
      BY <1>3, <1>5, <2>1, <2>2, <2>3 DEF FreshInv, RolledBack
  <1> QED
    BY <1>2, <1>6

\* A project's invariant survives a step that leaves its deploy alone, takes the
\* checkout from it only on record, and registers only projects without a deploy.
LEMMA FrameInv ==
  ASSUME NEW p \in Projects, TargetInv(p), CommitInv(p), FreshInv(p),
         UNCHANGED <<remote, anc, pc, req, sha, seen, built>>,
         slips[p] \subseteq slips'[p],
         kind' = "repo" => kind = "repo" /\ on' = on,
         (pc[p] \in {"record", "up"} /\ Kept(p)' /\ kind = "repo") =>
           kind' = "repo" /\ head' = head,
         born \subseteq born',
         p \in rows' => pc[p] = "idle" \/ (p \in rows /\ last'[p] = last[p])
  PROVE  (TargetInv(p) /\ CommitInv(p) /\ FreshInv(p))'
  <1>1. /\ Kept(p)' => Kept(p)
        /\ slips'[p] = {} => slips[p] = {} /\ Kept(p)'
    BY DEF Kept
  <1>2. TargetInv(p)'
    BY <1>1 DEF TargetInv, RolledBack
  <1>3. CommitInv(p)'
    BY <1>1 DEF CommitInv, TargetInv
  <1>4. FreshInv(p)'
    BY <1>1 DEF FreshInv, Fresh, RolledBack, TargetInv
  <1> QED
    BY <1>2, <1>3, <1>4

\* What happens outside the deploy leaves the invariant alone.
LEMMA OutsideDeployInv ==
  ASSUME TypeOK, DeployInv,
         \/ Elsewhere \/ UNCHANGED vars
         \/ \E p \in Projects : CreateProject(p) \/ RemoveDir(p) \/ RemoveRow(p)
  PROVE  DeployInv'
  <1> SUFFICES ASSUME NEW p \in Projects PROVE (TargetInv(p) /\ CommitInv(p) /\ FreshInv(p))'
    BY DEF DeployInv
  <1>1. TargetInv(p) /\ CommitInv(p) /\ FreshInv(p)
    BY DEF DeployInv
  <1>2. CASE Elsewhere \/ UNCHANGED vars
    BY <1>1, <1>2, FrameInv
       DEF Elsewhere, ServiceStep, SaveFile, StopProject, RestartProject, RemoveProject,
           RemoveDown, vars, dbVars, remoteVars, folderVars, workVars
  <1>3. ASSUME NEW q \in Projects, CreateProject(q)
        PROVE  (TargetInv(p) /\ CommitInv(p) /\ FreshInv(p))'
    <2>1. p \in rows' => pc[p] = "idle" \/ (p \in rows /\ last'[p] = last[p])
      BY <1>1, <1>3 DEF CreateProject, FreshInv
    <2> QED
      BY <1>1, <1>3, <2>1, FrameInv DEF CreateProject, remoteVars
  <1>4. ASSUME NEW q \in Projects, RemoveDir(q)
        PROVE  (TargetInv(p) /\ CommitInv(p) /\ FreshInv(p))'
    <2>1. slips[p] \subseteq slips'[p] /\ (kind' = "repo" => kind = "repo" /\ on' = on)
      BY <1>4 DEF RemoveDir, Remains, TypeOK
    <2>2. pc[p] \in {"record", "up"} /\ Kept(p)' => UNCHANGED <<kind, head>>
      BY <1>4 DEF RemoveDir, Kept, folderVars
    <2> QED
      BY <1>1, <1>4, <2>1, <2>2, FrameInv DEF RemoveDir, dbVars, remoteVars
  <1>5. ASSUME NEW q \in Projects, RemoveRow(q)
        PROVE  (TargetInv(p) /\ CommitInv(p) /\ FreshInv(p))'
    <2>1. p \in rows' => p \in rows /\ last'[p] = last[p]
      BY <1>5 DEF RemoveRow, TypeOK
    <2> QED
      BY <1>1, <1>5, <2>1, FrameInv DEF RemoveRow, remoteVars, folderVars, workVars
  <1> QED
    BY <1>2, <1>3, <1>4, <1>5

\* A worker without a deploy claims nothing.
LEMMA IdleInv ==
  ASSUME NEW p \in Projects, pc[p] = "idle"
  PROVE  TargetInv(p) /\ CommitInv(p) /\ FreshInv(p)
  BY DEF TargetInv, CommitInv, FreshInv

LEMMA ReturnInv ==
  ASSUME TypeOK, NEW p \in Projects, Return(p)
  PROVE  (TargetInv(p) /\ CommitInv(p) /\ FreshInv(p))'
  <1>1. pc'[p] = "idle"
    BY DEF Return, TypeOK
  <1> QED
    BY <1>1 DEF TargetInv, CommitInv, FreshInv

\* The steps of a deploy up to the record of its commit.
LEMMA SyncDeployInv ==
  ASSUME TypeOK, Made, NEW p \in Projects, TargetInv(p), CommitInv(p), FreshInv(p),
         \/ Begin(p) \/ OpenLog(p) \/ GitSync(p) \/ Clone(p) \/ SkipPull(p) \/ Fetch(p)
         \/ Checkout(p) \/ Pull(p) \/ Stash(p) \/ PullAgain(p)
  PROVE  (TargetInv(p) /\ CommitInv(p) /\ FreshInv(p))'
  <1>1. CASE \E from \in Phases : GiveUp(p, from)
    BY <1>1, ReturnInv DEF GiveUp
  <1>2. CASE Begin(p)
    <2>1. pc'[p] = "log" /\ seen'[p] = {remote} /\ remote' = remote /\ p \in born'
      BY <1>2 DEF Begin, Goto, TypeOK, dbVars, remoteVars
    <2> QED
      BY <2>1 DEF TargetInv, CommitInv, FreshInv
  <1>3. CASE Git(p, "log", "sync") \/ Proceed(p, "fetch", "checkout")
    BY <1>3 DEF Git, Proceed, Goto, TypeOK, TargetInv, CommitInv, FreshInv, dbVars, remoteVars
  <1>4. CASE GitSync(p)
    <2>1. /\ pc'[p] \in {"clone", "skip", "fetch"} /\ (RolledBack(p) => pc'[p] = "fetch")
          /\ pc'[p] = "skip" => req[p].kind = "restart"
      BY <1>4 DEF GitSync, Proceed, Goto, TypeOK, RolledBack, Requests
    <2>2. pc[p] = "sync" /\ UNCHANGED <<dbVars, remoteVars, req, seen>>
      BY <1>4 DEF GitSync, Proceed, Goto
    <2> QED
      BY <2>1, <2>2 DEF TargetInv, CommitInv, FreshInv, RolledBack, dbVars, remoteVars
  <1>5. CASE Clone(p) /\ Git(p, "clone", "record")
    <2>1. pc[p] = "clone" /\ pc'[p] = "record" /\ UNCHANGED <<dbVars, remoteVars, req, seen>>
      BY <1>5 DEF Git, Goto, TypeOK
    <2>2. kind' = "repo" /\ (slips'[p] = {} => head' = remote)
      BY <1>5, <2>1 DEF Clone, GiveUp, Return, TypeOK
    <2>3. Fresh(p, remote)
      BY <2>1 DEF FreshInv, Fresh, Made
    <2> QED
      BY <2>1, <2>2, <2>3
         DEF TargetInv, CommitInv, FreshInv, Fresh, RolledBack, dbVars, remoteVars
  <1>6. CASE SkipPull(p)
    <2>1. /\ pc[p] = "skip" /\ UNCHANGED <<dbVars, remoteVars, folderVars, req, seen>>
          /\ (pc'[p] = "record" /\ kind = "repo" /\ head = last[p]) \/ pc'[p] = "fetch"
      BY <1>6 DEF SkipPull, Proceed, Goto, TypeOK
    <2> QED
      BY <2>1 DEF TargetInv, CommitInv, FreshInv, Fresh, RolledBack, dbVars, remoteVars,
                  folderVars
  <1>7. CASE Checkout(p) /\ pc'[p] # "idle"
    <2>1. /\ pc[p] = "checkout" /\ kind' = "repo"
          /\ UNCHANGED <<dbVars, remoteVars, req, seen>>
      BY <1>7 DEF Checkout, CheckoutGit, Git, Goto, GiveUp, Return, TypeOK
    <2>2. \/ RolledBack(p) /\ pc'[p] = "record" /\ head' = req[p].target
          \/ ~RolledBack(p) /\ pc'[p] = "pull" /\ on' = "branch"
      BY <1>7 DEF Checkout, CheckoutGit, Git, Goto, GiveUp, Return, TypeOK, RolledBack
    <2> QED
      BY <2>1, <2>2 DEF TargetInv, CommitInv, FreshInv, RolledBack, dbVars, remoteVars
  <1>8. ASSUME FastForward(p, pc[p]), pc[p] \in {"pull", "repull"}
        PROVE  (TargetInv(p) /\ CommitInv(p) /\ FreshInv(p))'
    <2>1. pc'[p] = "record" /\ kind' = "repo" /\ UNCHANGED <<dbVars, remoteVars, req, seen>>
      BY <1>8 DEF FastForward, Git, Goto, TypeOK
    <2>2. head' = remote \/ remote \in anc[head']
      BY <1>8 DEF FastForward, TargetInv
    <2>3. Fresh(p, head')
      BY <1>8, <2>2 DEF FreshInv, Fresh, Made
    <2> QED
      BY <1>8, <2>1, <2>3
         DEF TargetInv, CommitInv, FreshInv, Fresh, RolledBack, dbVars, remoteVars
  <1>9. CASE Proceed(p, "pull", "stash") \/ Stash(p)
    BY <1>9 DEF Proceed, Stash, Git, Goto, TypeOK, TargetInv, CommitInv, FreshInv, RolledBack,
                dbVars, remoteVars, folderVars
  <1>10. CASE Checkout(p) /\ pc'[p] = "idle"
    BY <1>10 DEF TargetInv, CommitInv, FreshInv
  <1> QED
    BY <1>1, <1>2, <1>3, <1>4, <1>5, <1>6, <1>7, <1>8, <1>9, <1>10
       DEF OpenLog, Clone, Fetch, Pull, PullAgain, FastForward, Git, Goto, Phases

\* The steps from the record of the commit to the end of a deploy.
LEMMA RunDeployInv ==
  ASSUME TypeOK, NEW p \in Projects, TargetInv(p), CommitInv(p), FreshInv(p),
         RecordCommit(p) \/ ComposeUp(p) \/ Poll(p) \/ Succeed(p)
  PROVE  (TargetInv(p) /\ CommitInv(p) /\ FreshInv(p))'
  <1>1. CASE Return(p)
    BY <1>1, ReturnInv
  <1>2. CASE RecordCommit(p) /\ ~Return(p)
    <2>1. /\ pc[p] = "record" /\ pc'[p] = "up" /\ sha'[p] \in {head, NoCommit}
          /\ UNCHANGED <<dbVars, remoteVars, folderVars, req, seen, slips>>
      BY <1>2 DEF RecordCommit, GiveUp, Goto, TypeOK
    <2> QED
      BY <2>1 DEF TargetInv, CommitInv, FreshInv, Fresh, Kept, RolledBack, dbVars, remoteVars,
                  folderVars
  <1>3. CASE ComposeUp(p) /\ ~Return(p)
    <2>1. /\ pc[p] = "up" /\ pc'[p] = "poll" /\ built'[p] = head
          /\ UNCHANGED <<dbVars, remoteVars, req, sha, seen, slips>>
      BY <1>3 DEF ComposeUp, Goto, TypeOK
    <2>2. slips[p] = {} => Kept(p) /\ head \in Commits
      BY <2>1 DEF TypeOK, TargetInv, Kept
    <2> QED
      BY <2>1, <2>2 DEF TargetInv, CommitInv, FreshInv, Fresh, Kept, RolledBack, dbVars,
                        remoteVars
  <1>4. CASE Proceed(p, "poll", "succeed")
    <2>1. /\ pc[p] = "poll" /\ pc'[p] = "succeed"
          /\ UNCHANGED <<dbVars, remoteVars, req, sha, seen, built, slips>>
      BY <1>4 DEF Proceed, Goto, TypeOK
    <2> QED
      BY <2>1 DEF TargetInv, CommitInv, FreshInv, Fresh, Kept, RolledBack, dbVars, remoteVars
  <1> QED
    BY <1>1, <1>2, <1>3, <1>4 DEF Poll, GiveUp, Succeed

LEMMA NextDeployInv ==
  ASSUME NotShared, TypeOK, Made, DeployInv, [Next]_vars
  PROVE  DeployInv'
  <1>1. ASSUME NEW p \in Projects, WorkerStep(p) PROVE DeployInv'
    <2>1. (TargetInv(p) /\ CommitInv(p) /\ FreshInv(p))'
      BY <1>1, SyncDeployInv, RunDeployInv DEF WorkerStep, DeployInv
    <2>2. Projects = {p}
      BY DEF NotShared
    <2> QED
      BY <2>1, <2>2 DEF DeployInv
  <1>2. CASE ProcessRestart
    <2>1. \A p \in Projects : pc'[p] = "idle"
      BY <1>2 DEF ProcessRestart
    <2> QED
      BY <2>1 DEF DeployInv, TargetInv, CommitInv, FreshInv
  <1> QED
    BY <1>1, <1>2, PushDeployInv, OutsideDeployInv DEF Next, Removal, Elsewhere

\* The invariant that the theorems on what a deploy runs share.
LEMMA DeployInvariant ==
  ASSUME NotShared
  PROVE  Spec => [](TypeOK /\ Made /\ DeployInv)
  <1>1. Init => TypeOK /\ Made /\ DeployInv
    BY InitTypeOK, InitDeployInv, CommitsAssumption DEF Init, Made, Commits, NoCommit
  <1>2. TypeOK /\ Made /\ DeployInv /\ [Next]_vars => (TypeOK /\ Made /\ DeployInv)'
    BY NotShared, NextTypeOK, NextBranchStep, NextSeenStep, MadeStep, NextDeployInv
  <1> QED
    BY <1>1, <1>2, PTL DEF Spec

\* In a folder of its own, a project's successful deploy records the commit its
\* containers were built from, or none, whatever editors, pushes and other handlers do
\* meanwhile; only a removal between the record and compose can make it another one.
THEOREM SuccessRecordsWhatRuns ==
  ASSUME NotShared
  PROVE  Spec => []SucceededIsBuilt
  <1>1. DeployInv => SucceededIsBuilt
    BY DEF DeployInv, CommitInv, Kept, SucceededIsBuilt
  <1> QED
    BY <1>1, DeployInvariant, PTL

\* In a folder of its own, a successful rollback runs the commit that was selected,
\* unless a removal takes the checkout before compose runs.
THEOREM RollbackRunsTarget ==
  ASSUME NotShared
  PROVE  Spec => []RollbackLandsOnTarget
  <1>1. DeployInv => RollbackLandsOnTarget
    BY DEF DeployInv, TargetInv, Kept, RolledBack, RollbackLandsOnTarget
  <1> QED
    BY <1>1, DeployInvariant, PTL

\* In a folder of its own, a successful deploy runs the pushes it was asked for, and
\* only a restart may keep the last succeeded commit instead; a clone that took the
\* remote's default branch and a removal before compose are the exceptions.
THEOREM SuccessRunsThePush ==
  ASSUME NotShared
  PROVE  Spec => []DeploysThePush
  <1>1. DeployInv => DeploysThePush
    BY DEF DeployInv, FreshInv, Fresh, RolledBack, DeploysThePush
  <1> QED
    BY <1>1, DeployInvariant, PTL
================================================================================
