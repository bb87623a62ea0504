------------------------- MODULE DeployRefinementProofs ------------------------
(* DeployScheduler implements DeployLifecycle: every step of the startup, the  *)
(* handlers and the workers is a step of the promise, or invisible to it.      *)
EXTENDS DeployCustodyProofs

\* The deploy each project runs: the refinement mapping.
Run == [p \in Projects |-> IF pc[p] \in Holding THEN cur[p] ELSE 0]

\* Ids are handed out in order, and a worker away from recv() has a request.
RowsInv ==
  /\ \A i \in DeployIds : i >= nextId => status[i] = "none"
  /\ \A p \in Projects : pc[p] # "recv" => cur[p] # 0

RefineInv ==
  TypeOK /\ QuietAtStartup /\ PermitsConserved /\ CustodyInv /\ StatusInv /\ RowsInv

\* What a step may do, seen from DeployLifecycle.
Implements == [Lifecycle!Next]_(Lifecycle!vars)

--------------------------------------------------------------------------------
(* RowsInv is inductive.                                                       *)

\* An UPDATE touches no row that was not inserted.
LEMMA MarkKeepsNone ==
  ASSUME TypeOK, NEW e, NEW s, status' = Mark(e, s)
  PROVE  \A i \in DeployIds : status[i] = "none" => status'[i] = "none"
  BY DEF TypeOK, Mark

\* A worker step inserts no row, and keeps or closes the request in hand.
LEMMA WorkerRows ==
  ASSUME TypeOK, RowsInv, NEW p \in Projects, WorkerStep(p) \/ StepError(p)
  PROVE  RowsInv'
  <1>1. /\ UNCHANGED nextId
        /\ status' = status \/ (\E e, s : status' = Mark(e, s))
    BY DEF WorkerStep, StepError, Recv, TakeNewer, Coalesce, DrainDone, Load, Acquire,
           OpenLog, GitSync, RecordCommit, ComposeUp, Call, SetPulling, SetBuilding,
           SetStarting, SetHealthy, Write, Poll, Missing, Succeed, Fail, Close, dbVars
  <1>2. \A i \in DeployIds : i >= nextId' => status'[i] = "none"
    BY <1>1, MarkKeepsNone DEF RowsInv
  <1>3. \A q \in Projects \ {p} : pc'[q] = pc[q] /\ cur'[q] = cur[q]
    BY DEF TypeOK, WorkerStep, StepError, Recv, TakeNewer, Coalesce, DrainDone, Load,
           Acquire, OpenLog, GitSync, RecordCommit, ComposeUp, Call, SetPulling,
           SetBuilding, SetStarting, SetHealthy, Write, Poll, Missing, Succeed, Fail,
           Close, Return, Goto
  <1>4. pc'[p] # "recv" => cur'[p] # 0
    <2>1. CASE Recv(p) \/ TakeNewer(p)
      <3>1. chan[p] \in Seq(DeployIds) /\ chan[p] # <<>> /\ cur'[p] = Head(chan[p])
        BY <2>1 DEF TypeOK, Recv, TakeNewer
      <3> QED
        BY <3>1, BoundsAssumption DEF DeployIds
    <2>2. CASE pc[p] # "recv" /\ cur' = cur
      BY <2>2 DEF RowsInv
    <2>3. CASE Return(p)
      BY <2>3 DEF TypeOK, Return
    <2> QED
      BY <2>1, <2>2, <2>3
         DEF WorkerStep, StepError, Coalesce, DrainDone, Load, Acquire, OpenLog, GitSync,
             RecordCommit, ComposeUp, Call, SetPulling, SetBuilding, SetStarting,
             SetHealthy, Write, Poll, Missing, Succeed, Fail, Close, Goto
  <1> QED
    BY <1>2, <1>3, <1>4 DEF RowsInv

\* A trigger takes the next id.
LEMMA CreateRows ==
  ASSUME TypeOK, RowsInv, NEW p \in Projects, CreateRow(p), UNCHANGED <<pc, cur>>
  PROVE  RowsInv'
  BY BoundsAssumption DEF TypeOK, RowsInv, CreateRow, DeployIds

\* RowsInv holds in every step.
LEMMA RowsStep == TypeOK /\ QuietAtStartup /\ RowsInv /\ [Next]_vars => RowsInv'
  <1> SUFFICES ASSUME TypeOK, QuietAtStartup, RowsInv, [Next]_vars PROVE RowsInv'
    OBVIOUS
  <1>1. CASE Recover
    BY <1>1 DEF RowsInv, Recover, Recovered, workVars
  <1>2. CASE Crash
    BY <1>2 DEF RowsInv, Crash, Volatile, dbVars
  <1>3. CASE StartManager \/ Serve
    BY <1>3 DEF RowsInv, StartManager, Serve, dbVars, workVars
  <1>4. ASSUME NEW p \in Projects, AutoStartNext(p) \/ Enqueue(p) PROVE RowsInv'
    BY <1>4, CreateRows DEF AutoStartNext, Enqueue, workVars
  <1>5. ASSUME NEW p \in Projects, RemoveProject(p) PROVE RowsInv'
    BY <1>5 DEF RowsInv, RemoveProject, workVars
  <1>6. ASSUME NEW p \in Projects, WorkerStep(p) \/ StepError(p) PROVE RowsInv'
    BY <1>6, WorkerRows
  <1>7. ASSUME NEW p \in Projects, NEW i \in DeployIds, Send(p, i) \/ CallerGone(p, i)
        PROVE  RowsInv'
    BY <1>7 DEF RowsInv, Send, CallerGone, dbVars, workVars
  <1>8. ASSUME NEW n \in Settings, SaveConcurrency(n) PROVE RowsInv'
    BY <1>8 DEF RowsInv, SaveConcurrency, workVars
  <1>9. CASE UNCHANGED vars
    BY <1>9 DEF RowsInv, vars, dbVars, workVars
  <1> QED
    BY <1>1, <1>2, <1>3, <1>4, <1>5, <1>6, <1>7, <1>8, <1>9 DEF Next, BootStep

--------------------------------------------------------------------------------
(* Steps that the promise does not see.                                        *)

\* A step that changes no row, no cap and no running deploy.
LEMMA Stutter ==
  ASSUME UNCHANGED <<status, owner, cap>>, Run' = Run
  PROVE  Implements
  BY DEF Implements, Lifecycle!vars, Run

\* A worker that moves on the same side of acquire runs what it ran.
LEMMA GotoRun ==
  ASSUME TypeOK, NEW p \in Projects, NEW from, NEW to, Goto(p, from, to),
         from \in Holding <=> to \in Holding,
         cur' = cur \/ (from \notin Holding /\ \A q \in Projects \ {p} : cur'[q] = cur[q])
  PROVE  Run' = Run
  <1>1. \A q \in Projects : /\ pc'[q] \in Holding <=> pc[q] \in Holding
                            /\ pc[q] \in Holding => cur'[q] = cur[q]
    BY DEF TypeOK, Goto
  <1> QED
    BY <1>1 DEF Run

\* The rest of the loop, the calls to git and docker, and a turn of the health loop.
LEMMA SilentSteps ==
  ASSUME TypeOK, NEW p \in Projects,
         \/ Recv(p) \/ TakeNewer(p) \/ DrainDone(p) \/ Load(p)
         \/ OpenLog(p) \/ GitSync(p) \/ RecordCommit(p) \/ ComposeUp(p) \/ Poll(p)
  PROVE  Implements
  <1>1. CASE Recv(p) \/ TakeNewer(p)
    <2>1. \A q \in Projects \ {p} : cur'[q] = cur[q]
      BY <1>1 DEF TypeOK, Recv, TakeNewer
    <2>2. Run' = Run
      BY <1>1, <2>1, GotoRun DEF Recv, TakeNewer, Holding
    <2> QED
      BY <1>1, <2>2, Stutter DEF Recv, TakeNewer, dbVars, bootVars
  <1>2. CASE DrainDone(p) \/ Load(p)
    <2>1. Run' = Run
      BY <1>2, GotoRun DEF DrainDone, Load, Holding
    <2> QED
      BY <1>2, <2>1, Stutter DEF DrainDone, Load, dbVars, bootVars
  <1>3. CASE OpenLog(p) \/ GitSync(p) \/ RecordCommit(p) \/ ComposeUp(p) \/ Poll(p)
    <2>1. Run' = Run
      BY <1>3, GotoRun DEF OpenLog, GitSync, RecordCommit, ComposeUp, Call, Poll, Holding
    <2> QED
      BY <1>3, <2>1, Stutter
         DEF OpenLog, GitSync, RecordCommit, ComposeUp, Call, Poll, dbVars, bootVars
  <1> QED
    BY <1>1, <1>2, <1>3

--------------------------------------------------------------------------------
(* Steps of the promise.                                                       *)

\* UPDATE on the row e: nothing on a row that is gone, else that one write.
LEMMA MarkWrites ==
  ASSUME TypeOK, NEW e \in DeployIds \cup {0}, NEW s
  PROVE  \/ Mark(e, s) = status
         \/ e \in DeployIds /\ status[e] # "none" /\ Mark(e, s) = [status EXCEPT ![e] = s]
  BY BoundsAssumption DEF TypeOK, Mark, DeployIds

\* A row that no worker runs is closed: Reject.
LEMMA RejectStep ==
  ASSUME TypeOK, NEW e \in DeployIds \cup {0}, status' = Mark(e, "failed"),
         e \in DeployIds => status[e] \in {"queued", "none"},
         \A q \in Projects : pc[q] \in Holding => cur[q] # e,
         UNCHANGED <<owner, cap>>, Run' = Run
  PROVE  Implements
  <1>1. CASE status' = status
    BY <1>1, Stutter
  <1>2. CASE status' # status
    <2>1. e \in DeployIds /\ status[e] = "queued" /\ status' = [status EXCEPT ![e] = "failed"]
      BY <1>2, MarkWrites
    <2>2. e # 0
      BY <2>1, BoundsAssumption DEF DeployIds
    <2>3. Lifecycle!Reject(e)
      BY <2>1, <2>2 DEF Lifecycle!Reject, Run
    <2> QED
      BY <2>1, <2>3 DEF Implements, Lifecycle!Next
  <1> QED
    BY <1>1, <1>2

\* The row coalesced away ran nowhere.
LEMMA CoalesceRefines ==
  ASSUME RefineInv, NEW p \in Projects, Coalesce(p)
  PROVE  Implements
  <1> USE DEF RefineInv
  <1>1. /\ old[p] \in DeployIds \cup {0}
        /\ HeldBy(p, old[p]) /\ WaitsFor(p, old[p])
    BY DEF TypeOK, HeldBy, WaitsFor
  <1>2. old[p] \in DeployIds => status[old[p]] \in {"queued", "none"}
    BY <1>1 DEF StatusInv, Shown
  <1>3. \A q \in Projects : pc[q] \in Holding => cur[q] # old[p]
    <2>1. SUFFICES ASSUME NEW q \in Projects, pc[q] \in Holding, cur[q] = old[p]
                   PROVE  FALSE
      OBVIOUS
    <2>2. old[p] # 0
      BY <2>1 DEF RowsInv, Holding
    <2>3. HeldBy(q, old[p]) /\ HeldBy(p, old[p]) /\ old[p] \in DeployIds
      BY <1>1, <2>1, <2>2 DEF HeldBy
    <2>4. q = p
      BY <2>3 DEF CustodyInv, Owned
    <2> QED
      BY <2>1, <2>2, <2>4 DEF CustodyInv, Apart
  <1>4. Run' = Run /\ UNCHANGED <<owner, cap>> /\ status' = Mark(old[p], "failed")
    BY GotoRun DEF Coalesce, Holding, bootVars
  <1> QED
    BY <1>1, <1>2, <1>3, <1>4, RejectStep

\* A deploy whose project is gone ends before it ran.
LEMMA MissingRefines ==
  ASSUME RefineInv, NEW p \in Projects, Missing(p)
  PROVE  Implements
  <1> USE DEF RefineInv
  <1>1. /\ pc[p] = "missing" /\ status' = Mark(cur[p], "failed") /\ UNCHANGED <<owner, cap>>
        /\ pc' = [pc EXCEPT ![p] = "recv"] /\ cur' = [cur EXCEPT ![p] = 0]
    BY DEF Missing, Close, Return, bootVars
  <1>2. cur[p] \in DeployIds
    BY <1>1 DEF TypeOK, RowsInv
  <1>3. status[cur[p]] \in {"queued", "none"}
    BY <1>1, <1>2, ShownAtIs DEF StatusInv, Shown
  <1>4. ASSUME NEW q \in Projects, pc[q] \in Holding PROVE cur[q] # cur[p]
    <2>1. q # p
      BY <1>1, <1>4 DEF Holding
    <2> QED
      BY <1>2, <2>1 DEF CustodyInv, Owned, HeldBy
  <1>5. Run' = Run
    BY <1>1 DEF TypeOK, Run, Holding
  <1> QED
    BY <1>1, <1>2, <1>3, <1>4, <1>5, RejectStep

\* Both modules count with the same operator.
LEMMA SameCardinality == \A S : Lifecycle!Cardinality(S) = Cardinality(S)
  BY DEF Lifecycle!Cardinality, Cardinality

\* acquire: the deploy starts, its project idle and the host below its cap.
LEMMA AcquireRefines ==
  ASSUME RefineInv, NEW p \in Projects, Acquire(p)
  PROVE  Implements
  <1> USE DEF RefineInv
  <1>1. /\ pc[p] = "permit" /\ pc' = [pc EXCEPT ![p] = "log"] /\ permits > 0
        /\ UNCHANGED <<status, owner, cap, cur>>
    BY DEF Acquire, Goto, dbVars, bootVars
  <1>2. cur[p] \in DeployIds
    BY <1>1 DEF TypeOK, RowsInv
  <1>3. Run[p] = 0 /\ Run' = [Run EXCEPT ![p] = cur[p]]
    BY <1>1 DEF TypeOK, Run, Holding
  <1>4. owner[cur[p]] = p /\ status[cur[p]] \in {"queued", "none"}
    BY <1>1, <1>2, ShownAtIs DEF CustodyInv, Owned, HeldBy, StatusInv, Shown
  <1>5. Lifecycle!Cardinality(Lifecycle!Runners) < cap
    <2>1. Lifecycle!Runners = Holders
      BY DEF Lifecycle!Runners, Holders, RowsInv, Holding
    <2>2. Cardinality(Holders) \in Nat /\ permits \in Nat /\ cap \in Nat
      BY HoldersFinite, FS_CardinalityType DEF TypeOK
    <2>3. Cardinality(Holders) < cap
      BY <1>1, <2>2 DEF PermitsConserved
    <2> QED
      BY <2>1, <2>3, SameCardinality
  <1>6. Lifecycle!Start(cur[p], p)
    BY <1>1, <1>2, <1>3, <1>4, <1>5 DEF Lifecycle!Start, Run
  <1> QED
    BY <1>2, <1>6 DEF Implements, Lifecycle!Next

\* A status write of a running deploy: Advance, unless the row is gone.
LEMMA WriteRefines ==
  ASSUME RefineInv, NEW p \in Projects, NEW from \in Holding, NEW s, NEW to \in Holding,
         Write(p, from, s, to),
         \A st \in ShownAt(from) : st \in DOMAIN NextStatus /\ NextStatus[st] = s
  PROVE  Implements
  <1> USE DEF RefineInv
  <1>1. /\ pc[p] = from /\ status' = Mark(cur[p], s)
        /\ UNCHANGED <<owner, cap, cur>>
    BY DEF Write, Goto, bootVars
  <1>2. cur[p] \in DeployIds
    BY <1>1 DEF TypeOK, RowsInv, Holding
  <1>3. Run' = Run
    BY <1>1, GotoRun DEF Write
  <1>4. CASE status' = status
    BY <1>1, <1>3, <1>4, Stutter
  <1>5. CASE status' # status
    <2>1. status[cur[p]] # "none" /\ status' = [status EXCEPT ![cur[p]] = s]
      BY <1>1, <1>2, <1>5, MarkWrites
    <2>2. status[cur[p]] \in DOMAIN NextStatus /\ NextStatus[status[cur[p]]] = s
      BY <1>1, <1>2, <2>1 DEF StatusInv, Shown
    <2>3. Run[p] = cur[p] /\ cur[p] # 0
      BY <1>1, <1>2, BoundsAssumption DEF Run, DeployIds
    <2>4. Lifecycle!Advance(p)
      BY <1>1, <1>3, <2>1, <2>2, <2>3 DEF Lifecycle!Advance, Lifecycle!NextStatus, NextStatus, Run
    <2> QED
      BY <2>4 DEF Implements, Lifecycle!Next
  <1> QED
    BY <1>4, <1>5

\* The last write of a deploy: Finish, or WalkAway from a row that is gone.
LEMMA CloseRefines ==
  ASSUME RefineInv, NEW p \in Projects, Succeed(p) \/ Fail(p)
  PROVE  Implements
  <1> USE DEF RefineInv
  <1>1. PICK s \in {"succeeded", "failed"} :
          /\ status' = Mark(cur[p], s) /\ pc[p] \in {"succeed", "fail"}
          /\ s = "succeeded" => pc[p] = "succeed"
    BY DEF Succeed, Fail, Close
  <1>2. /\ pc' = [pc EXCEPT ![p] = "recv"] /\ cur' = [cur EXCEPT ![p] = 0]
        /\ UNCHANGED <<owner, cap>>
    BY DEF Succeed, Fail, Close, Return, bootVars
  <1>3. cur[p] \in DeployIds /\ cur[p] # 0
    BY <1>1, BoundsAssumption DEF TypeOK, RowsInv, DeployIds
  <1>4. Run[p] = cur[p] /\ Run' = [Run EXCEPT ![p] = 0]
    BY <1>1, <1>2 DEF TypeOK, Run, Holding
  <1>5. CASE status' = status
    <2>1. Lifecycle!WalkAway(p)
      BY <1>2, <1>3, <1>4, <1>5 DEF Lifecycle!WalkAway, Run
    <2> QED
      BY <2>1 DEF Implements, Lifecycle!Next
  <1>6. CASE status' # status
    <2>1. status[cur[p]] # "none" /\ status' = [status EXCEPT ![cur[p]] = s]
      BY <1>1, <1>3, <1>6, MarkWrites
    <2>2. /\ status[cur[p]] \in {"healthy", "pulling", "building", "starting"}
          /\ s = "succeeded" => status[cur[p]] = "healthy"
      BY <1>1, <1>3, <2>1, ShownAtIs DEF StatusInv, Shown
    <2>3. Lifecycle!InFlight(status[cur[p]])
      BY <2>2 DEF Lifecycle!InFlight, Lifecycle!Statuses, Lifecycle!Terminal
    <2>4. Lifecycle!Finish(p)
      BY <1>2, <1>3, <1>4, <2>1, <2>2, <2>3 DEF Lifecycle!Finish, Run
    <2> QED
      BY <2>4 DEF Implements, Lifecycle!Next
  <1> QED
    BY <1>5, <1>6

\* A storage error: the worker walks away from what it runs, if it runs anything.
LEMMA ErrorRefines ==
  ASSUME RefineInv, NEW p \in Projects, StepError(p)
  PROVE  Implements
  <1> USE DEF RefineInv
  <1>1. UNCHANGED <<status, owner, cap>>
    BY DEF StepError, dbVars, bootVars
  <1>2. CASE Goto(p, "coalesce", "drain") /\ UNCHANGED cur
    BY <1>1, <1>2, GotoRun, Stutter DEF Holding
  <1>3. CASE Return(p)
    <2>1. pc' = [pc EXCEPT ![p] = "recv"] /\ cur' = [cur EXCEPT ![p] = 0]
      BY <1>3 DEF Return
    <2>2. Run' = [Run EXCEPT ![p] = 0]
      BY <2>1 DEF TypeOK, Run, Holding
    <2>3. CASE Run[p] = 0
      <3>1. Run' = Run
        BY <2>2, <2>3 DEF Run
      <3> QED
        BY <1>1, <3>1, Stutter
    <2>4. CASE Run[p] # 0
      <3>1. Lifecycle!WalkAway(p)
        BY <1>1, <2>2, <2>4 DEF Lifecycle!WalkAway, Run
      <3> QED
        BY <3>1 DEF Implements, Lifecycle!Next
    <2> QED
      BY <2>3, <2>4
  <1> QED
    BY <1>2, <1>3 DEF StepError

\* The four status writes on the way to "healthy".
LEMMA AdvanceRefines ==
  ASSUME RefineInv, NEW p \in Projects,
         SetPulling(p) \/ SetBuilding(p) \/ SetStarting(p) \/ SetHealthy(p)
  PROVE  Implements
  <1>1. /\ DOMAIN NextStatus = {"queued", "pulling", "building", "starting"}
        /\ NextStatus["queued"] = "pulling" /\ NextStatus["pulling"] = "building"
        /\ NextStatus["building"] = "starting" /\ NextStatus["starting"] = "healthy"
    BY DEF NextStatus
  <1>2. CASE SetPulling(p)
    BY <1>1, <1>2, ShownAtIs, WriteRefines DEF SetPulling, Holding
  <1>3. CASE SetBuilding(p)
    BY <1>1, <1>3, ShownAtIs, WriteRefines DEF SetBuilding, Holding
  <1>4. CASE SetStarting(p)
    BY <1>1, <1>4, ShownAtIs, WriteRefines DEF SetStarting, Holding
  <1>5. CASE SetHealthy(p)
    BY <1>1, <1>5, ShownAtIs, WriteRefines DEF SetHealthy, Holding
  <1> QED
    BY <1>2, <1>3, <1>4, <1>5

\* An inserted row is new to the promise, and nobody runs it.
LEMMA CreateRefines ==
  ASSUME RefineInv, NEW p \in Projects, CreateRow(p), UNCHANGED <<cap, pc, cur>>
  PROVE  Implements
  <1> USE DEF RefineInv
  <1>1. /\ nextId \in DeployIds /\ nextId \in Nat
        /\ status' = [status EXCEPT ![nextId] = "queued"]
        /\ owner' = [owner EXCEPT ![nextId] = p]
    BY BoundsAssumption DEF TypeOK, CreateRow, DeployIds
  <1>2. status[nextId] = "none"
    BY <1>1 DEF RowsInv
  <1>3. \A q \in Projects : Run[q] # nextId
    <2>1. \A q \in Projects : cur[q] # nextId
      BY <1>1 DEF CustodyInv, Owned, HeldBy
    <2> QED
      BY <1>1, <2>1, BoundsAssumption DEF Run, DeployIds
  <1>4. Lifecycle!Create(nextId, p)
    BY <1>1, <1>2, <1>3 DEF Lifecycle!Create, Run
  <1> QED
    BY <1>1, <1>4 DEF Implements, Lifecycle!Next

\* Startup and stop are Recover, Open and Stop: nothing runs meanwhile.
LEMMA BootRefines ==
  ASSUME RefineInv, BootStep \/ Crash
  PROVE  Implements
  <1> USE DEF RefineInv
  <1>1. CASE Recover
    <2>1. /\ cap = 0 /\ \A p \in Projects : cur[p] = 0
          /\ UNCHANGED <<owner, cap, pc, cur>>
          /\ status' = [i \in DeployIds |->
                          IF status[i] \in Recovered THEN "failed" ELSE status[i]]
      BY <1>1 DEF Recover, QuietAtStartup, workVars
    <2>2. Run = [p \in Projects |-> 0] /\ Run' = Run
      BY <2>1 DEF Run
    <2>3. Lifecycle!Recover
      BY <2>1, <2>2 DEF Lifecycle!Recover, Lifecycle!Idle, Lifecycle!Recovered, Recovered, Run
    <2> QED
      BY <2>3 DEF Implements, Lifecycle!Next
  <1>2. CASE StartManager
    <2>1. /\ cap = 0 /\ \A p \in Projects : cur[p] = 0
          /\ UNCHANGED <<status, owner, pc, cur>>
          /\ cap' = ParsedConcurrency(setting) /\ setting \in Settings
      BY <1>2 DEF StartManager, QuietAtStartup, workVars, dbVars, TypeOK
    <2>2. Run = [p \in Projects |-> 0] /\ Run' = Run
      BY <2>1 DEF Run
    <2>3. Lifecycle!Open
      BY <2>1, <2>2 DEF Lifecycle!Open, Lifecycle!Idle, Run
    <2> QED
      BY <2>3 DEF Implements, Lifecycle!Next
  <1>3. CASE Serve
    BY <1>3, Stutter DEF Serve, dbVars, workVars, Run
  <1>4. ASSUME NEW p \in Projects, AutoStartNext(p) PROVE Implements
    BY <1>4, CreateRefines DEF AutoStartNext, workVars
  <1>5. CASE Crash
    <2>1. /\ cap' = 0 /\ \A p \in Projects : cur'[p] = 0
          /\ UNCHANGED <<status, owner>>
      BY <1>5 DEF Crash, Volatile, dbVars
    <2>2. Run' = [p \in Projects |-> 0]
      BY <2>1 DEF Run
    <2>3. Lifecycle!Stop
      BY <2>1, <2>2 DEF Lifecycle!Stop, Lifecycle!Idle, Run
    <2> QED
      BY <2>3 DEF Implements, Lifecycle!Next
  <1> QED
    BY <1>1, <1>2, <1>3, <1>4, <1>5 DEF BootStep

--------------------------------------------------------------------------------
(* The refinement.                                                             *)

\* Every step of the scheduler is a step of the promise, or invisible to it.
LEMMA RefineStep == RefineInv /\ [Next]_vars => Implements
  <1> SUFFICES ASSUME RefineInv, [Next]_vars PROVE Implements
    OBVIOUS
  <1>1. CASE BootStep \/ Crash
    BY <1>1, BootRefines
  <1>2. ASSUME NEW p \in Projects, Enqueue(p) PROVE Implements
    BY <1>2, CreateRefines DEF Enqueue, bootVars, workVars
  <1>3. ASSUME NEW p \in Projects, RemoveProject(p) PROVE Implements
    <2>1. Run' = Run /\ UNCHANGED <<owner, cap>>
          /\ status' = [i \in DeployIds |-> IF owner[i] = p THEN "none" ELSE status[i]]
      BY <1>3 DEF RemoveProject, bootVars, workVars, Run
    <2>2. Lifecycle!RemoveProject(p)
      BY <2>1 DEF Lifecycle!RemoveProject, Run
    <2> QED
      BY <2>2 DEF Implements, Lifecycle!Next
  <1>4. ASSUME NEW p \in Projects, WorkerStep(p) PROVE Implements
    BY <1>4, SilentSteps, CoalesceRefines, AcquireRefines, AdvanceRefines, MissingRefines,
       CloseRefines DEF WorkerStep, RefineInv
  <1>5. ASSUME NEW p \in Projects, StepError(p) PROVE Implements
    BY <1>5, ErrorRefines
  <1>6. ASSUME NEW p \in Projects, NEW i \in DeployIds, Send(p, i) \/ CallerGone(p, i)
        PROVE  Implements
    BY <1>6, Stutter DEF Send, CallerGone, dbVars, bootVars, workVars, Run
  <1>7. ASSUME NEW n \in Settings, SaveConcurrency(n) PROVE Implements
    BY <1>7, Stutter DEF SaveConcurrency, bootVars, workVars, Run
  <1>8. CASE UNCHANGED vars
    BY <1>8, Stutter DEF vars, dbVars, bootVars, workVars, Run
  <1> QED
    BY <1>1, <1>2, <1>3, <1>4, <1>5, <1>6, <1>7, <1>8 DEF Next

\* The invariant the refinement rests on is inductive.
LEMMA RefineInvStep == RefineInv /\ [Next]_vars => RefineInv'
  <1> SUFFICES ASSUME RefineInv, [Next]_vars PROVE RefineInv'
    OBVIOUS
  <1>1. TypeOK' /\ QuietAtStartup'
    BY NextTypeOK, QuietStep DEF RefineInv
  <1>2. PermitsConserved'
    BY PermitStep DEF RefineInv, PermitInv
  <1>3. CustodyInv' /\ StatusInv'
    BY CustodyStep, StatusStep DEF RefineInv
  <1>4. RowsInv'
    BY RowsStep DEF RefineInv
  <1> QED
    BY <1>1, <1>2, <1>3, <1>4 DEF RefineInv

\* At first nothing is inserted, held or run.
LEMMA InitRefines == Init => RefineInv /\ Lifecycle!Init
  <1> SUFFICES ASSUME Init PROVE RefineInv /\ Lifecycle!Init
    OBVIOUS
  <1>1. RowsInv
    BY DEF Init, RowsInv
  <1>2. RefineInv
    BY <1>1, InitPermit, InitCustody, InitStatus DEF PermitInv, RefineInv
  <1>3. Run = [p \in Projects |-> 0]
    BY DEF Init, Run, Holding
  <1>4. Lifecycle!Init
    BY <1>3 DEF Init, Lifecycle!Init, Lifecycle!Idle, Run
  <1> QED
    BY <1>2, <1>4

\* The deploy pipeline keeps its promise: rows move forward only and are final once
\* closed, a project runs one deploy at a time, the host at most its cap, and an
\* interrupted row is closed before anything runs again.
THEOREM PipelineImplementsLifecycle == Spec => ImplementsLifecycle
  <1>1. RefineInv /\ [Next]_vars => [Lifecycle!Next]_(Lifecycle!vars)
    BY RefineStep DEF Implements
  <1> QED
    BY InitRefines, RefineInvStep, <1>1, PTL DEF Spec, ImplementsLifecycle, Lifecycle!Spec
================================================================================
