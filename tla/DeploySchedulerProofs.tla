------------------------- MODULE DeploySchedulerProofs -------------------------
(* Theorems about DeployScheduler, for every set of projects, every setting,   *)
(* every channel capacity and every bound.                                     *)
EXTENDS DeployScheduler, FiniteSetTheorems, SequenceTheorems, TLAPS

--------------------------------------------------------------------------------
(* Type correctness.                                                           *)

\* The initial state is well-typed.
LEMMA InitTypeOK == Init => TypeOK
  BY BoundsAssumption, ProjectsAssumption
     DEF Init, TypeOK, DeployIds, Phases, Holding

\* Startup and stop keep the types.
LEMMA BootTypeOK ==
  ASSUME TypeOK, BootStep \/ Crash
  PROVE  TypeOK'
  <1> USE BoundsAssumption, ProjectsAssumption DEF DeployIds
  <1>1. CASE Recover
    BY <1>1 DEF TypeOK, Recover, semVars, chanVars, workVars, envVars, Statuses
  <1>2. CASE StartManager
    BY <1>2 DEF TypeOK, StartManager, dbVars, chanVars, workVars, envVars,
                ParsedConcurrency
  <1>3. ASSUME NEW p \in Projects, AutoStartNext(p) PROVE TypeOK'
    BY <1>3 DEF TypeOK, AutoStartNext, CreateRow, semVars, workVars, envVars, Statuses
  <1>4. CASE Serve
    BY <1>4 DEF TypeOK, Serve, dbVars, semVars, chanVars, workVars, envVars
  <1>5. CASE Crash
    BY <1>5 DEF TypeOK, Crash, Volatile, dbVars, Phases
  <1> QED
    BY <1>1, <1>2, <1>3, <1>4, <1>5 DEF BootStep

\* So do a trigger and the removal of a project.
LEMMA ProjectTypeOK ==
  ASSUME TypeOK, NEW p \in Projects, Enqueue(p) \/ RemoveProject(p)
  PROVE  TypeOK'
  <1>1. CASE Enqueue(p)
    BY <1>1, BoundsAssumption
       DEF TypeOK, Enqueue, CreateRow, bootVars, semVars, workVars, envVars, Statuses, DeployIds
  <1>2. CASE RemoveProject(p)
    BY <1>2 DEF TypeOK, RemoveProject, bootVars, semVars, chanVars, workVars, envVars
  <1> QED
    BY <1>1, <1>2

\* And so does the end of enqueue, sent or not.
LEMMA SendTypeOK ==
  ASSUME TypeOK, NEW p \in Projects, NEW i \in DeployIds, Send(p, i) \/ CallerGone(p, i)
  PROVE  TypeOK'
  <1>1. CASE Send(p, i)
    <2>1. Append(chan[p], i) \in Seq(DeployIds) /\ Append(accepted[p], i) \in Seq(DeployIds)
      BY AppendProperties DEF TypeOK
    <2>2. chan' \in [Projects -> Seq(DeployIds)]
      BY <1>1, <2>1 DEF TypeOK, Send
    <2>3. accepted' \in [Projects -> Seq(DeployIds)]
      BY <1>1, <2>1 DEF TypeOK, Send
    <2> QED
      BY <1>1, <2>2, <2>3 DEF TypeOK, Send, dbVars, bootVars, semVars, workVars, envVars
  <1>2. CASE CallerGone(p, i)
    BY <1>2, BoundsAssumption DEF TypeOK, CallerGone, dbVars, bootVars, semVars, workVars
  <1> QED
    BY <1>1, <1>2

\* A row keeps a type-correct status whatever is written to it.
LEMMA MarkType ==
  ASSUME TypeOK, NEW i, NEW s \in Statuses
  PROVE  Mark(i, s) \in [DeployIds -> Statuses \cup {"none"}]
  BY DEF TypeOK, Mark

\* A worker that moves on is in a phase again.
LEMMA GotoType ==
  ASSUME TypeOK, NEW p \in Projects, NEW from, NEW to \in Phases, Goto(p, from, to)
  PROVE  pc' \in [Projects -> Phases]
  BY DEF TypeOK, Goto

\* run_deploy's return clears the worker's locals and gives back at most a permit.
LEMMA ReturnType ==
  ASSUME TypeOK, NEW p \in Projects, Return(p)
  PROVE  /\ pc' \in [Projects -> Phases]
         /\ cur' \in [Projects -> DeployIds \cup {0}]
         /\ elapsed' \in [Projects -> Nat]
         /\ permits' \in Nat
  BY DEF TypeOK, Return, Phases

\* The steps of the worker loop keep the types.
LEMMA LoopTypeOK ==
  ASSUME TypeOK, NEW p \in Projects,
         \/ Recv(p) \/ TakeNewer(p) \/ Coalesce(p) \/ DrainDone(p) \/ Load(p) \/ Acquire(p)
  PROVE  TypeOK'
  <1> USE BoundsAssumption, ProjectsAssumption
  <1>1. CASE Recv(p)
    BY <1>1 DEF TypeOK, Recv, Goto, Phases, dbVars, bootVars, semVars, envVars
  <1>2. CASE TakeNewer(p)
    BY <1>2 DEF TypeOK, TakeNewer, Goto, Phases, dbVars, bootVars, semVars, envVars
  <1>3. CASE Coalesce(p)
    BY <1>3, MarkType
       DEF TypeOK, Coalesce, Goto, Phases, bootVars, semVars, chanVars, envVars, Statuses
  <1>4. CASE DrainDone(p)
    BY <1>4 DEF TypeOK, DrainDone, Goto, Phases, dbVars, bootVars, semVars, chanVars, envVars
  <1>5. CASE Load(p)
    <2>1. waitq \in Seq(Projects) /\ (waitq' = Append(waitq, p) \/ waitq' = waitq)
      BY <1>5 DEF TypeOK, Load
    <2>3. waitq' \in Seq(Projects)
      BY <2>1, AppendProperties
    <2>2. pc' \in [Projects -> Phases]
      BY <1>5, GotoType DEF Load, Phases
    <2> QED
      BY <1>5, <2>3, <2>2 DEF TypeOK, Load, dbVars, bootVars, chanVars, envVars
  <1>6. CASE Acquire(p)
    <2>1. waitq' \in Seq(Projects) /\ permits' \in Nat
      BY <1>6 DEF TypeOK, Acquire
    <2>2. pc' \in [Projects -> Phases]
      BY <1>6, GotoType DEF Acquire, Phases, Holding
    <2> QED
      BY <1>6, <2>1, <2>2 DEF TypeOK, Acquire, dbVars, bootVars, chanVars, envVars
  <1> QED
    BY <1>1, <1>2, <1>3, <1>4, <1>5, <1>6

\* And the steps of run_deploy, failures included.
LEMMA RunTypeOK ==
  ASSUME TypeOK, NEW p \in Projects,
         \/ OpenLog(p) \/ SetPulling(p) \/ GitSync(p) \/ RecordCommit(p) \/ SetBuilding(p)
         \/ ComposeUp(p) \/ SetStarting(p) \/ Poll(p) \/ SetHealthy(p)
         \/ Missing(p) \/ Succeed(p) \/ Fail(p) \/ StepError(p)
  PROVE  TypeOK'
  <1> USE BoundsAssumption, ProjectsAssumption
  <1>1. ASSUME NEW from, NEW outcomes \in SUBSET Phases, Call(p, from, outcomes)
        PROVE  TypeOK'
    BY <1>1, GotoType DEF TypeOK, Call, dbVars, bootVars, semVars, chanVars, envVars
  <1>2. ASSUME NEW from, NEW s \in Statuses, NEW to \in Phases, Write(p, from, s, to)
        PROVE  TypeOK'
    BY <1>2, GotoType, MarkType DEF TypeOK, Write, bootVars, semVars, chanVars, envVars
  <1>3. ASSUME NEW from, NEW s \in Statuses, Close(p, from, s)
        PROVE  TypeOK'
    <2>1. Return(p) /\ status' \in [DeployIds -> Statuses \cup {"none"}]
      BY <1>3, MarkType DEF Close
    <2> QED
      BY <1>3, <2>1, ReturnType DEF TypeOK, Close, bootVars, chanVars, envVars
  <1>4. CASE Poll(p)
    <2>1. elapsed' \in [Projects -> Nat]
      BY <1>4 DEF TypeOK, Poll
    <2>2. pc' \in [Projects -> Phases]
      BY <1>4, GotoType DEF Poll, Phases, Holding
    <2> QED
      BY <1>4, <2>1, <2>2 DEF TypeOK, Poll, dbVars, bootVars, semVars, chanVars, envVars
  <1>5. CASE StepError(p)
    <2>1. faults' \in 0..MaxFaults
      BY <1>5, BoundsAssumption DEF TypeOK, StepError
    <2>2. CASE Return(p) /\ UNCHANGED old
      BY <1>5, <2>1, <2>2, ReturnType DEF TypeOK, StepError, dbVars, bootVars, chanVars
    <2>3. CASE /\ Goto(p, "coalesce", "drain") /\ old' = [old EXCEPT ![p] = 0]
               /\ UNCHANGED <<cur, elapsed, permits>>
      <3>1. pc' \in [Projects -> Phases]
        BY <2>3, GotoType DEF Phases
      <3> QED
        BY <1>5, <2>1, <2>3, <3>1 DEF TypeOK, StepError, dbVars, bootVars, chanVars
    <2> QED
      BY <1>5, <2>2, <2>3 DEF StepError
  <1>6. CASE OpenLog(p) \/ GitSync(p) \/ RecordCommit(p) \/ ComposeUp(p)
    BY <1>1, <1>6 DEF OpenLog, GitSync, RecordCommit, ComposeUp, Phases, Holding
  <1>7. CASE SetPulling(p) \/ SetBuilding(p) \/ SetStarting(p) \/ SetHealthy(p)
    BY <1>2, <1>7 DEF SetPulling, SetBuilding, SetStarting, SetHealthy, Statuses, Phases,
                      Holding
  <1>8. CASE Missing(p) \/ Succeed(p) \/ Fail(p)
    BY <1>3, <1>8 DEF Missing, Succeed, Fail, Statuses
  <1> QED
    BY <1>4, <1>5, <1>6, <1>7, <1>8

\* Every step of the specification, and a stuttering step, keeps the types.
LEMMA NextTypeOK == TypeOK /\ [Next]_vars => TypeOK'
  <1> SUFFICES ASSUME TypeOK, [Next]_vars PROVE TypeOK'
    OBVIOUS
  <1>1. CASE BootStep \/ Crash
    BY <1>1, BootTypeOK
  <1>2. ASSUME NEW p \in Projects, Enqueue(p) \/ RemoveProject(p) PROVE TypeOK'
    BY <1>2, ProjectTypeOK
  <1>3. ASSUME NEW p \in Projects, NEW i \in DeployIds, Send(p, i) \/ CallerGone(p, i)
        PROVE  TypeOK'
    BY <1>3, SendTypeOK
  <1>4. ASSUME NEW n \in Settings, SaveConcurrency(n) PROVE TypeOK'
    BY <1>4 DEF TypeOK, SaveConcurrency, bootVars, semVars, chanVars, workVars, envVars
  <1>5. ASSUME NEW p \in Projects, WorkerStep(p) \/ StepError(p) PROVE TypeOK'
    BY <1>5, LoopTypeOK, RunTypeOK DEF WorkerStep
  <1>6. CASE UNCHANGED vars
    BY <1>6 DEF TypeOK, vars, dbVars, bootVars, semVars, chanVars, workVars, envVars
  <1> QED
    BY <1>1, <1>2, <1>3, <1>4, <1>5, <1>6 DEF Next

\* Every variable of the scheduler keeps its type in every reachable state.
THEOREM TypeCorrect == Spec => []TypeOK
  <1>1. TypeOK /\ [Next]_vars => TypeOK'
    BY NextTypeOK
  <1> QED
    BY InitTypeOK, <1>1, PTL DEF Spec
--------------------------------------------------------------------------------
(* The permits of the semaphore.                                               *)

\* What makes PermitsConserved inductive: when StartManager sizes the semaphore, no
\* worker holds a permit of an earlier life of the process.
PermitInv == TypeOK /\ QuietAtStartup /\ PermitsConserved

\* Projects are finite, hence so are the workers that hold a permit.
LEMMA HoldersFinite == IsFiniteSet(Holders)
  BY ProjectsAssumption, FS_Subset DEF Holders

\* A move on the same side of acquire leaves the set of holders alone.
LEMMA GotoHolders ==
  ASSUME TypeOK, NEW p \in Projects, NEW from, NEW to, Goto(p, from, to),
         from \in Holding <=> to \in Holding
  PROVE  Holders' = Holders
  BY DEF TypeOK, Goto, Holders

\* acquire adds the worker to the holders and takes one permit.
LEMMA AcquireConserves ==
  ASSUME TypeOK, PermitsConserved, NEW p \in Projects, Acquire(p)
  PROVE  PermitsConserved'
  <1>1. p \notin Holders /\ Holders' = Holders \cup {p}
    BY DEF TypeOK, Acquire, Goto, Holders, Holding
  <1>2. Cardinality(Holders') = Cardinality(Holders) + 1
    BY <1>1, HoldersFinite, FS_AddElement
  <1>3. Cardinality(Holders) \in Nat
    BY HoldersFinite, FS_CardinalityType
  <1>4. permits' = permits - 1 /\ cap' = cap /\ permits \in Nat /\ cap \in Nat
    BY DEF TypeOK, Acquire, bootVars
  <1> QED
    BY <1>2, <1>3, <1>4 DEF PermitsConserved

\* The return of run_deploy gives back the permit of a holder, and only that.
LEMMA ReturnConserves ==
  ASSUME TypeOK, PermitsConserved, NEW p \in Projects, Return(p), UNCHANGED cap
  PROVE  PermitsConserved'
  <1>1. Cardinality(Holders) \in Nat /\ permits \in Nat /\ cap \in Nat
    BY HoldersFinite, FS_CardinalityType DEF TypeOK
  <1>2. CASE p \in Holders
    <2>1. Holders' = Holders \ {p} /\ permits' = permits + 1
      BY <1>2 DEF TypeOK, Return, Holders, Holding
    <2>2. Cardinality(Holders') = Cardinality(Holders) - 1
      BY <1>2, <2>1, HoldersFinite, FS_RemoveElement
    <2> QED
      BY <1>1, <2>1, <2>2 DEF PermitsConserved
  <1>3. CASE p \notin Holders
    <2>1. Holders' = Holders /\ permits' = permits
      BY <1>3 DEF TypeOK, Return, Holders, Holding
    <2> QED
      BY <2>1 DEF PermitsConserved
  <1> QED
    BY <1>2, <1>3

\* Every step of a worker conserves the permits.
LEMMA WorkerConserves ==
  ASSUME TypeOK, PermitsConserved, NEW p \in Projects, WorkerStep(p) \/ StepError(p)
  PROVE  PermitsConserved'
  <1>1. CASE Acquire(p)
    BY <1>1, AcquireConserves
  <1>2. ASSUME NEW from, NEW to, Goto(p, from, to), from \in Holding <=> to \in Holding,
               UNCHANGED <<cap, permits>>
        PROVE  PermitsConserved'
    BY <1>2, GotoHolders DEF PermitsConserved
  <1>3. CASE Recv(p) \/ TakeNewer(p) \/ Coalesce(p) \/ DrainDone(p)
    BY <1>2, <1>3 DEF Recv, TakeNewer, Coalesce, DrainDone, Holding, bootVars, semVars
  <1>4. CASE Load(p)
    BY <1>2, <1>4 DEF Load, Holding, bootVars
  <1>5. CASE OpenLog(p) \/ GitSync(p) \/ RecordCommit(p) \/ ComposeUp(p)
    BY <1>2, <1>5 DEF OpenLog, GitSync, RecordCommit, ComposeUp, Call, Holding, bootVars, semVars
  <1>6. CASE SetPulling(p) \/ SetBuilding(p) \/ SetStarting(p) \/ SetHealthy(p)
    BY <1>2, <1>6 DEF SetPulling, SetBuilding, SetStarting, SetHealthy, Write, Holding,
                      bootVars, semVars
  <1>7. CASE Poll(p)
    BY <1>2, <1>7 DEF Poll, Holding, bootVars, semVars
  <1>8. CASE Missing(p) \/ Succeed(p) \/ Fail(p)
    BY <1>8, ReturnConserves DEF Missing, Succeed, Fail, Close, bootVars
  <1>9. CASE StepError(p)
    <2>1. CASE Return(p)
      BY <1>9, <2>1, ReturnConserves DEF StepError, bootVars
    <2>2. CASE Goto(p, "coalesce", "drain") /\ UNCHANGED permits
      BY <1>2, <1>9, <2>2 DEF StepError, Holding, bootVars
    <2> QED
      BY <1>9, <2>1, <2>2 DEF StepError
  <1> QED
    BY <1>1, <1>3, <1>4, <1>5, <1>6, <1>7, <1>8, <1>9 DEF WorkerStep

\* The process starts with no permit and no holder, and a stop returns to that.
LEMMA EmptyConserves ==
  ASSUME \A p \in Projects : pc[p] = "recv", permits = cap, cap \in Nat
  PROVE  PermitsConserved
  <1>1. Holders = {}
    BY DEF Holders, Holding
  <1> QED
    BY <1>1, FS_EmptySet DEF PermitsConserved

\* Startup and stop conserve the permits, as nothing runs while they change.
LEMMA BootConserves ==
  ASSUME PermitInv, BootStep \/ Crash
  PROVE  PermitsConserved'
  <1> USE DEF PermitInv
  <1>1. CASE Recover \/ Serve \/ (\E p \in Projects : AutoStartNext(p))
    BY <1>1 DEF Recover, Serve, AutoStartNext, PermitsConserved, Holders, semVars, workVars
  <1>2. CASE StartManager
    <2>1. \A p \in Projects : pc'[p] = "recv"
      BY <1>2 DEF StartManager, QuietAtStartup, workVars
    <2>2. permits' = cap' /\ cap' \in Nat
      BY <1>2, BootTypeOK DEF StartManager, BootStep, TypeOK
    <2>3. Holders' = {}
      BY <2>1 DEF Holders, Holding
    <2> QED
      BY <2>2, <2>3, FS_EmptySet DEF PermitsConserved
  <1>3. CASE Crash
    <2>1. Holders' = {} /\ permits' = 0 /\ cap' = 0
      BY <1>3 DEF Crash, Volatile, Holders, Holding
    <2> QED
      BY <2>1, FS_EmptySet DEF PermitsConserved
  <1> QED
    BY <1>1, <1>2, <1>3 DEF BootStep

\* Nothing is enqueued, sent or received before StartManager, and a stop empties all.
LEMMA QuietStep ==
  ASSUME TypeOK, QuietAtStartup, [Next]_vars
  PROVE  QuietAtStartup'
  <1>1. CASE BootStep \/ Crash
    BY <1>1 DEF QuietAtStartup, BootStep, Crash, Volatile, Recover, StartManager, AutoStartNext,
                Serve, semVars, chanVars, workVars
  <1>2. ASSUME NEW p \in Projects, Enqueue(p) \/ RemoveProject(p)
        PROVE  QuietAtStartup'
    BY <1>2 DEF QuietAtStartup, Enqueue, RemoveProject, bootVars
  <1>3. ASSUME NEW p \in Projects, NEW i \in DeployIds, Send(p, i) \/ CallerGone(p, i)
        PROVE  QuietAtStartup'
    BY <1>3 DEF QuietAtStartup, Send, CallerGone, bootVars
  <1>4. ASSUME NEW n \in Settings, SaveConcurrency(n)
        PROVE  QuietAtStartup'
    BY <1>4 DEF QuietAtStartup, SaveConcurrency, bootVars
  <1>5. ASSUME NEW p \in Projects, WorkerStep(p) \/ StepError(p)
        PROVE  QuietAtStartup'
    <2>1. boot' = boot
      BY <1>5 DEF WorkerStep, StepError, Recv, TakeNewer, Coalesce, DrainDone, Load, Acquire,
                  OpenLog, GitSync, RecordCommit, ComposeUp, Call, SetPulling, SetBuilding,
                  SetStarting, SetHealthy, Write, Poll, Missing, Succeed, Fail, Close, bootVars
    <2>2. pc[p] # "recv" \/ chan[p] # <<>>
      BY <1>5 DEF WorkerStep, StepError, Recv, TakeNewer, Coalesce, DrainDone, Load, Acquire,
                  OpenLog, GitSync, RecordCommit, ComposeUp, Call, SetPulling, SetBuilding,
                  SetStarting, SetHealthy, Write, Poll, Missing, Succeed, Fail, Close, Goto
    <2> QED
      BY <2>1, <2>2 DEF QuietAtStartup
  <1>6. CASE UNCHANGED vars
    BY <1>6 DEF QuietAtStartup, vars, bootVars, semVars, chanVars, workVars
  <1> QED
    BY <1>1, <1>2, <1>3, <1>4, <1>5, <1>6 DEF Next

\* The invariant of the permits is inductive.
LEMMA PermitStep == PermitInv /\ [Next]_vars => PermitInv'
  <1> SUFFICES ASSUME PermitInv, [Next]_vars PROVE PermitsConserved'
    BY NextTypeOK, QuietStep DEF PermitInv
  <1>1. CASE BootStep \/ Crash
    BY <1>1, BootConserves
  <1>2. ASSUME NEW p \in Projects, WorkerStep(p) \/ StepError(p)
        PROVE  PermitsConserved'
    BY <1>2, WorkerConserves DEF PermitInv
  <1>3. CASE UNCHANGED <<cap, permits, pc>>
    BY <1>3 DEF PermitInv, PermitsConserved, Holders
  <1>4. ASSUME NEW p \in Projects, Enqueue(p) \/ RemoveProject(p)
        PROVE  UNCHANGED <<cap, permits, pc>>
    BY <1>4 DEF Enqueue, RemoveProject, bootVars, semVars, workVars
  <1>5. ASSUME NEW p \in Projects, NEW i \in DeployIds, Send(p, i) \/ CallerGone(p, i)
        PROVE  UNCHANGED <<cap, permits, pc>>
    BY <1>5 DEF Send, CallerGone, bootVars, semVars, workVars
  <1>6. ASSUME NEW n \in Settings, SaveConcurrency(n)
        PROVE  UNCHANGED <<cap, permits, pc>>
    BY <1>6 DEF SaveConcurrency, bootVars, semVars, workVars
  <1>7. CASE UNCHANGED vars
    BY <1>3, <1>7 DEF vars, bootVars, semVars, workVars
  <1> QED
    BY <1>1, <1>2, <1>3, <1>4, <1>5, <1>6, <1>7 DEF Next

\* The initial state has no permit, no holder and nothing in progress.
LEMMA InitPermit == Init => PermitInv
  <1> SUFFICES ASSUME Init PROVE PermitInv
    OBVIOUS
  <1>1. TypeOK
    BY InitTypeOK
  <1>2. QuietAtStartup
    BY DEF Init, QuietAtStartup
  <1>3. PermitsConserved
    BY EmptyConserves DEF Init
  <1> QED
    BY <1>1, <1>2, <1>3 DEF PermitInv

\* The semaphore neither leaks nor invents a permit: in every reachable state the
\* free permits and the workers inside run_deploy make up the configured cap.
THEOREM PermitsAreConserved == Spec => []PermitsConserved
  <1>1. PermitInv => PermitsConserved
    BY DEF PermitInv
  <1> QED
    BY InitPermit, PermitStep, <1>1, PTL DEF Spec

\* Nothing is held or runs while startup repairs the rows: recover_crashed_deploys
\* never races a worker.
THEOREM StartupIsQuiet == Spec => []QuietAtStartup
  <1>1. PermitInv => QuietAtStartup
    BY DEF PermitInv
  <1> QED
    BY InitPermit, PermitStep, <1>1, PTL DEF Spec
================================================================================
