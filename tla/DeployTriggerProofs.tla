-------------------------- MODULE DeployTriggerProofs ---------------------------
(* More theorems about DeployScheduler, of what becomes of a trigger: how its  *)
(* row can be left unfinished, and by what it can be superseded.               *)
EXTENDS DeployCustodyProofs

\* A worker that waits has nothing in hand, what it drops it drops at once, and
\* a channel never holds more than its capacity.
HandsInv ==
  \A p \in Projects :
    /\ pc[p] = "recv" => cur[p] = 0
    /\ pc[p] # "coalesce" => old[p] = 0
    /\ Len(chan[p]) <= ChannelCap

\* How many of the requests that the channel accepted the worker has received.
Received(p) == Len(accepted[p]) - Len(chan[p])

\* The channel is what was accepted last; in the drain the request in hand is the
\* last one received, and the one that is dropped is the one before.
Ordered(p) ==
  /\ Received(p) \in Nat
  /\ \A k \in 1..Len(chan[p]) : chan[p][k] = accepted[p][Received(p) + k]
  /\ pc[p] \in {"drain", "coalesce"} =>
       Received(p) >= 1 /\ cur[p] = accepted[p][Received(p)]
  /\ pc[p] = "coalesce" =>
       Received(p) >= 2 /\ old[p] = accepted[p][Received(p) - 1]
OrderInv == \A p \in Projects : Ordered(p)

\* The rows of a project are there as long as the project is.
CascadeInv ==
  \A i \in DeployIds :
    i < nextId => (status[i] = "none" <=> owner[i] \notin projects)

TriggerInv == TypeOK /\ QuietAtStartup /\ CustodyInv /\ StatusInv /\ HandsInv

--------------------------------------------------------------------------------
(* Worker steps by what they change.                                           *)

\* What a worker receives is the first request of its channel.
LEMMA HeadAndTail ==
  ASSUME NEW s \in Seq(DeployIds), s # <<>>
  PROVE  /\ DOMAIN s = 1..Len(s) /\ Len(s) \in Nat \ {0}
         /\ Head(s) = s[1] /\ s[1] \in DeployIds
         /\ Len(Tail(s)) = Len(s) - 1 /\ DOMAIN Tail(s) = 1..(Len(s) - 1)
         /\ \A k \in 1..(Len(s) - 1) : Tail(s)[k] = s[k + 1]
  OBVIOUS

LEMMA TailKeeps ==
  ASSUME NEW s \in Seq(DeployIds), s # <<>>, NEW i, In(s, i)
  PROVE  i = Head(s) \/ In(Tail(s), i)
  <1>1. PICK k \in 1..Len(s) : s[k] = i
    BY HeadAndTail DEF In
  <1>2. CASE k = 1
    BY <1>1, <1>2, HeadAndTail
  <1>3. CASE k # 1
    <2>1. k - 1 \in 1..(Len(s) - 1) /\ (k - 1) + 1 = k
      BY <1>3, HeadAndTail
    <2>2. Tail(s)[k - 1] = i
      BY <1>1, <2>1, HeadAndTail
    <2> QED
      BY <2>1, <2>2, HeadAndTail DEF In
  <1> QED
    BY <1>2, <1>3

\* Steps of run_deploy, and the last of the drain: nothing is received or given up.
Carries(p) ==
  \/ DrainDone(p) \/ Load(p) \/ Acquire(p)
  \/ OpenLog(p) \/ GitSync(p) \/ RecordCommit(p) \/ ComposeUp(p)
  \/ SetPulling(p) \/ SetBuilding(p) \/ SetStarting(p) \/ SetHealthy(p) \/ Poll(p)

LEMMA CarriesAlong ==
  ASSUME TypeOK, NEW p \in Projects, Carries(p)
  PROVE  /\ UNCHANGED <<projects, owner, nextId, boot, sending, chan, accepted, cur, old>>
         /\ \E from, to \in Phases \ {"recv", "coalesce"} :
              Goto(p, from, to) /\ (to # "drain")
         /\ \/ status' = status
            \/ \E s \in {"pulling", "building", "starting", "healthy"} :
                 status' = Mark(cur[p], s)
  <1>1. UNCHANGED <<projects, owner, nextId, boot, sending, chan, accepted, cur, old>>
    BY DEF Carries, DrainDone, Load, Acquire, OpenLog, GitSync, RecordCommit, ComposeUp,
           Call, SetPulling, SetBuilding, SetStarting, SetHealthy, Write, Poll, dbVars,
           bootVars, chanVars
  <1>2. \E from, to \in Phases \ {"recv", "coalesce"} : Goto(p, from, to) /\ (to # "drain")
    <2>1. \A from, to \in Phases \ {"recv", "coalesce"} :
            Goto(p, from, to) /\ to # "drain" =>
              \E f, t \in Phases \ {"recv", "coalesce"} : Goto(p, f, t) /\ (t # "drain")
      OBVIOUS
    <2>2. CASE DrainDone(p) \/ Load(p) \/ Acquire(p)
      BY <2>1, <2>2 DEF DrainDone, Load, Acquire, Phases, Holding
    <2>3. CASE OpenLog(p) \/ GitSync(p) \/ RecordCommit(p) \/ ComposeUp(p)
      BY <2>1, <2>3 DEF OpenLog, GitSync, RecordCommit, ComposeUp, Call, Phases, Holding
    <2>4. CASE SetPulling(p) \/ SetBuilding(p) \/ SetStarting(p) \/ SetHealthy(p)
      BY <2>1, <2>4 DEF SetPulling, SetBuilding, SetStarting, SetHealthy, Write, Phases, Holding
    <2>5. CASE Poll(p)
      BY <2>1, <2>5 DEF Poll, Phases, Holding
    <2> QED
      BY <2>2, <2>3, <2>4, <2>5 DEF Carries
  <1>3. \/ status' = status
        \/ \E s \in {"pulling", "building", "starting", "healthy"} :
             status' = Mark(cur[p], s)
    BY DEF Carries, DrainDone, Load, Acquire, OpenLog, GitSync, RecordCommit, ComposeUp,
           Call, SetPulling, SetBuilding, SetStarting, SetHealthy, Write, Poll, dbVars
  <1> QED
    BY <1>1, <1>2, <1>3

\* The steps that close a deploy.
Closes(p) == Missing(p) \/ Succeed(p) \/ Fail(p)

LEMMA ClosesRow ==
  ASSUME TypeOK, NEW p \in Projects, Closes(p)
  PROVE  /\ UNCHANGED <<projects, owner, nextId, boot, sending, chan, accepted, old>>
         /\ pc[p] \in {"missing", "succeed", "fail"} /\ Return(p)
         /\ \E s \in {"succeeded", "failed"} : status' = Mark(cur[p], s)
  BY DEF Closes, Missing, Succeed, Fail, Close, bootVars, chanVars

LEMMA WorkerSplit ==
  ASSUME NEW p \in Projects, WorkerStep(p)
  PROVE  Recv(p) \/ TakeNewer(p) \/ Coalesce(p) \/ Carries(p) \/ Closes(p)
  BY DEF WorkerStep, Carries, Closes

--------------------------------------------------------------------------------
(* HandsInv is inductive.                                                      *)

\* The other workers' hands are their own.
LEMMA WorkerAlone ==
  ASSUME TypeOK, NEW p \in Projects, WorkerStep(p) \/ StepError(p), NEW q \in Projects, q # p
  PROVE  /\ pc'[q] = pc[q] /\ cur'[q] = cur[q] /\ old'[q] = old[q]
         /\ chan'[q] = chan[q] /\ accepted'[q] = accepted[q]
  <1>1. CASE Recv(p) \/ TakeNewer(p)
    BY <1>1 DEF TypeOK, Recv, TakeNewer, Goto
  <1>2. CASE Coalesce(p)
    BY <1>2 DEF TypeOK, Coalesce, Goto, chanVars
  <1>3. CASE Carries(p)
    BY <1>3, CarriesAlong DEF TypeOK, Goto
  <1>4. CASE Closes(p)
    BY <1>4, ClosesRow DEF TypeOK, Return
  <1>5. CASE StepError(p)
    BY <1>5 DEF TypeOK, StepError, Return, Goto, chanVars
  <1> QED
    BY <1>1, <1>2, <1>3, <1>4, <1>5, WorkerSplit

LEMMA WorkerHands ==
  ASSUME TypeOK, HandsInv, NEW p \in Projects, WorkerStep(p) \/ StepError(p)
  PROVE  HandsInv'
  <1>1. ASSUME NEW q \in Projects, q # p
        PROVE  /\ pc'[q] = "recv" => cur'[q] = 0
               /\ pc'[q] # "coalesce" => old'[q] = 0
               /\ Len(chan'[q]) <= ChannelCap
    BY <1>1, WorkerAlone DEF HandsInv
  <1>2. /\ pc'[p] = "recv" => cur'[p] = 0
        /\ pc'[p] # "coalesce" => old'[p] = 0
        /\ Len(chan'[p]) <= ChannelCap
    <2>1. CASE Recv(p) \/ TakeNewer(p)
      <3>1. chan[p] \in Seq(DeployIds) /\ chan[p] # <<>> /\ chan'[p] = Tail(chan[p])
        BY <2>1 DEF TypeOK, Recv, TakeNewer
      <3>2. Len(chan'[p]) <= ChannelCap
        BY <3>1, HeadAndTail, BoundsAssumption DEF HandsInv
      <3>3. pc'[p] # "recv" /\ (pc'[p] # "coalesce" => old'[p] = 0)
        BY <2>1 DEF TypeOK, HandsInv, Recv, TakeNewer, Goto
      <3> QED
        BY <3>2, <3>3
    <2>2. CASE Coalesce(p)
      BY <2>2 DEF TypeOK, HandsInv, Coalesce, Goto, chanVars
    <2>3. CASE Carries(p)
      BY <2>3, CarriesAlong DEF TypeOK, HandsInv, Goto
    <2>4. CASE Closes(p)
      BY <2>4, ClosesRow DEF TypeOK, HandsInv, Return
    <2>5. CASE StepError(p)
      BY <2>5 DEF TypeOK, HandsInv, StepError, Return, Goto, chanVars
    <2> QED
      BY <2>1, <2>2, <2>3, <2>4, <2>5, WorkerSplit
  <1> QED
    BY <1>1, <1>2 DEF HandsInv

LEMMA HandsStep == TypeOK /\ HandsInv /\ [Next]_vars => HandsInv'
  <1> SUFFICES ASSUME TypeOK, HandsInv, [Next]_vars PROVE HandsInv'
    OBVIOUS
  <1>1. ASSUME UNCHANGED <<chan, pc, cur, old>> PROVE HandsInv'
    BY <1>1 DEF HandsInv
  <1>2. CASE Recover \/ StartManager \/ Serve
    BY <1>1, <1>2 DEF Recover, StartManager, Serve, chanVars, workVars
  <1>3. ASSUME NEW p \in Projects, AutoStartNext(p) \/ Enqueue(p) PROVE HandsInv'
    BY <1>1, <1>3 DEF AutoStartNext, Enqueue, CreateRow, workVars
  <1>4. CASE Crash
    BY <1>4, BoundsAssumption DEF Crash, Volatile, HandsInv
  <1>5. ASSUME NEW p \in Projects, RemoveProject(p) PROVE HandsInv'
    BY <1>1, <1>5 DEF RemoveProject, chanVars, workVars
  <1>6. ASSUME NEW p \in Projects, WorkerStep(p) \/ StepError(p) PROVE HandsInv'
    BY <1>6, WorkerHands
  <1>7. ASSUME NEW p \in Projects, NEW i \in DeployIds, Send(p, i) PROVE HandsInv'
    <2>1. /\ UNCHANGED <<pc, cur, old>> /\ chan[p] \in Seq(DeployIds)
          /\ \/ Len(chan[p]) < ChannelCap /\ chan' = [chan EXCEPT ![p] = Append(@, i)]
             \/ chan' = chan
      BY <1>7 DEF TypeOK, Send, workVars
    <2>2. Len(Append(chan[p], i)) = Len(chan[p]) + 1 /\ Len(chan[p]) \in Nat
      BY <2>1
    <2>3. Len(Append(chan[p], i)) <= ChannelCap \/ chan' = chan
      BY <2>1, <2>2, BoundsAssumption
    <2>4. \A q \in Projects :
            chan'[q] = chan[q] \/ chan'[q] = Append(chan[p], i)
      BY <2>1 DEF TypeOK
    <2>5. \A q \in Projects : Len(chan'[q]) <= ChannelCap
      BY <2>3, <2>4 DEF HandsInv
    <2> QED
      BY <2>1, <2>5 DEF HandsInv
  <1>8. ASSUME NEW p \in Projects, NEW i \in DeployIds, CallerGone(p, i) PROVE HandsInv'
    BY <1>1, <1>8 DEF CallerGone, workVars
  <1>9. ASSUME NEW n \in Settings, SaveConcurrency(n) PROVE HandsInv'
    BY <1>1, <1>9 DEF SaveConcurrency, chanVars, workVars
  <1>10. CASE UNCHANGED vars
    BY <1>1, <1>10 DEF vars, chanVars, workVars
  <1> QED
    BY <1>2, <1>3, <1>4, <1>5, <1>6, <1>7, <1>8, <1>9, <1>10 DEF Next, BootStep

LEMMA InitHands == Init => HandsInv
  BY BoundsAssumption DEF Init, HandsInv

LEMMA TriggerStep == TriggerInv /\ [Next]_vars => TriggerInv'
  BY NextTypeOK, QuietStep, CustodyStep, StatusStep, HandsStep DEF TriggerInv

LEMMA InitTrigger == Init => TriggerInv
  BY InitTypeOK, InitPermit, InitCustody, InitStatus, InitHands DEF TriggerInv, PermitInv

--------------------------------------------------------------------------------
(* What is left unfinished.                                                    *)

\* A request has a holder when some project holds it.
LEMMA HeldIs == \A i \in DeployIds : Held(i) <=> \E p \in Projects : HeldBy(p, i)
  <1> SUFFICES ASSUME NEW i \in DeployIds
               PROVE  Held(i) <=> \E p \in Projects : HeldBy(p, i)
    OBVIOUS
  <1>1. ASSUME Held(i) PROVE \E p \in Projects : HeldBy(p, i)
    BY <1>1, CustodianHolds DEF Held
  <1>2. ASSUME NEW p \in Projects, HeldBy(p, i) PROVE Held(i)
    <2>1. CASE <<p, i>> \in sending
      BY <2>1 DEF Held, Custodians
    <2>2. CASE In(chan[p], i)
      <3>1. PICK k \in DOMAIN chan[p] : chan[p][k] = i
        BY <2>2 DEF In
      <3>2. <<"channel", p, k>> \in Custodians(i)
        BY <3>1 DEF Custodians
      <3> QED
        BY <3>2 DEF Held
    <2>3. CASE old[p] = i \/ cur[p] = i
      BY <2>3 DEF Held, Custodians
    <2> QED
      BY <1>2, <2>1, <2>2, <2>3 DEF HeldBy, WaitsFor
  <1> QED
    BY <1>1, <1>2

LEMMA HeldPrimed ==
  (\A i \in DeployIds : Held(i) <=> \E p \in Projects : HeldBy(p, i))'
  BY HeldIs, PTL

\* The row of i is still somebody's, or is not in progress.
Settled(i) == (\E p \in Projects : HeldBy(p, i)') \/ ~InFlight(status'[i])

\* Why the request of row i may be given up with the row as it is.
Excused(i) ==
  \/ boot' = "down" \/ faults' > faults
  \/ \E p \in Projects : <<p, i>> \in sending /\ Len(chan[p]) = ChannelCap

\* A step that takes nothing from anybody.
LEMMA HeldOn ==
  ASSUME NEW i \in DeployIds, NEW p \in Projects, HeldBy(p, i),
         sending \subseteq sending', UNCHANGED <<chan, cur, old>>
  PROVE  Settled(i)
  BY DEF Settled, HeldBy, WaitsFor, In

\* What is written when a request is dropped or its deploy ends.
LEMMA ClosedRow ==
  ASSUME TypeOK, NEW i \in DeployIds, NEW s \in {"succeeded", "failed"}, status' = Mark(i, s)
  PROVE  ~InFlight(status'[i])
  BY DEF TypeOK, Mark, InFlight, Terminal, Statuses

\* A send puts the request into the channel when there is room for it.
LEMMA SendSettles ==
  ASSUME TriggerInv, NEW q \in Projects, NEW e \in DeployIds, Send(q, e),
         NEW i \in DeployIds, NEW p \in Projects, HeldBy(p, i)
  PROVE  Settled(i) \/ Excused(i)
  <1> USE DEF TriggerInv
  <1>1. /\ <<q, e>> \in sending /\ sending' = sending \ {<<q, e>>}
        /\ UNCHANGED <<cur, old>> /\ chan[q] \in Seq(DeployIds)
    BY DEF TypeOK, Send, workVars
  <1>2. CASE Len(chan[q]) < ChannelCap
    <2>1. chan' = [chan EXCEPT ![q] = Append(@, e)]
      BY <1>2 DEF Send
    <2>2. chan'[q] = Append(chan[q], e) /\ \A o \in Projects \ {q} : chan'[o] = chan[o]
      BY <2>1 DEF TypeOK
    <2>3. Apart(q) /\ ~In(chan[q], e)
      BY <1>1 DEF CustodyInv, Apart
    <2>4. \A k : In(chan'[q], k) <=> In(chan[q], k) \/ k = e
      BY <1>1, <2>2, <2>3, AppendIn DEF Apart
    <2>5. HeldBy(p, i)'
      BY <1>1, <2>2, <2>4 DEF HeldBy, WaitsFor, In
    <2> QED
      BY <2>5 DEF Settled
  <1>3. CASE Len(chan[q]) >= ChannelCap
    <2>1. Len(chan[q]) = ChannelCap
      BY <1>1, <1>3, BoundsAssumption DEF HandsInv
    <2>2. CASE i = e /\ p = q
      BY <1>1, <2>1, <2>2 DEF Excused
    <2>3. CASE i # e \/ p # q
      <3>1. chan' = chan
        BY <1>1, <1>3, BoundsAssumption DEF Send
      <3>2. HeldBy(p, i)'
        BY <1>1, <2>3, <3>1 DEF HeldBy, WaitsFor, In
      <3> QED
        BY <3>2 DEF Settled
    <2> QED
      BY <2>2, <2>3
  <1> QED
    BY <1>1, <1>2, <1>3, BoundsAssumption

\* A worker closes the row of every request it gives up, but for a storage error.
LEMMA WorkerSettles ==
  ASSUME TriggerInv, NEW q \in Projects, WorkerStep(q) \/ StepError(q),
         NEW i \in DeployIds, NEW p \in Projects, HeldBy(p, i)
  PROVE  Settled(i) \/ Excused(i)
  <1> USE DEF TriggerInv
  <1>1. i # 0
    BY BoundsAssumption DEF DeployIds
  <1>2. CASE Recv(q) \/ TakeNewer(q)
    <2>1. /\ chan[q] \in Seq(DeployIds) /\ chan[q] # <<>> /\ chan'[q] = Tail(chan[q])
          /\ cur'[q] = Head(chan[q]) /\ sending' = sending
      BY <1>2 DEF TypeOK, Recv, TakeNewer
    <2>2. \A k : In(chan[q], k) => k = cur'[q] \/ In(chan'[q], k)
      BY <2>1, TailKeeps
    <2>3. HeldBy(p, i)'
      <3>1. CASE p # q
        BY <1>2, <2>1, <3>1, WorkerAlone DEF HeldBy, WaitsFor, In
      <3>2. CASE p = q /\ <<p, i>> \in sending
        BY <2>1, <3>2 DEF HeldBy, WaitsFor
      <3>3. CASE p = q /\ In(chan[q], i)
        BY <2>2, <3>3 DEF HeldBy, WaitsFor, In
      <3>4. CASE p = q /\ cur[q] = i
        BY <1>1, <1>2, <3>4 DEF TypeOK, Recv, TakeNewer, Goto, HandsInv, HeldBy, WaitsFor
      <3>5. old[q] # i
        BY <1>1, <1>2 DEF Recv, TakeNewer, Goto, HandsInv
      <3> QED
        BY <3>1, <3>2, <3>3, <3>4, <3>5 DEF HeldBy, WaitsFor
    <2> QED
      BY <2>3 DEF Settled
  <1>3. CASE Coalesce(q)
    <2>1. /\ status' = Mark(old[q], "failed") /\ UNCHANGED <<sending, chan, cur>>
          /\ old' = [old EXCEPT ![q] = 0]
      BY <1>3 DEF Coalesce, chanVars
    <2>2. CASE i = old[q]
      BY <2>1, <2>2, ClosedRow DEF Settled
    <2>3. CASE i # old[q]
      <3>1. HeldBy(p, i)'
        BY <2>1, <2>3 DEF TypeOK, HeldBy, WaitsFor, In
      <3> QED
        BY <3>1 DEF Settled
    <2> QED
      BY <2>2, <2>3
  <1>4. CASE Carries(q)
    BY <1>4, CarriesAlong, HeldOn
  <1>5. CASE Closes(q)
    <2>1. /\ UNCHANGED <<sending, chan, old>> /\ cur' = [cur EXCEPT ![q] = 0]
          /\ \E s \in {"succeeded", "failed"} : status' = Mark(cur[q], s)
      BY <1>5, ClosesRow DEF Return
    <2>2. CASE i = cur[q]
      BY <2>1, <2>2, ClosedRow DEF Settled
    <2>3. CASE i # cur[q]
      <3>1. HeldBy(p, i)'
        BY <2>1, <2>3 DEF TypeOK, HeldBy, WaitsFor, In
      <3> QED
        BY <3>1 DEF Settled
    <2> QED
      BY <2>2, <2>3
  <1>6. CASE StepError(q)
    <2>1. faults' = faults + 1 /\ faults \in Nat
      BY <1>6, BoundsAssumption DEF TypeOK, StepError
    <2> QED
      BY <2>1 DEF Excused
  <1> QED
    BY <1>2, <1>3, <1>4, <1>5, <1>6, WorkerSplit

\* Whoever gives a request up has closed its row, or is excused.
LEMMA EveryStepSettles ==
  ASSUME TriggerInv, Next, NEW i \in DeployIds, NEW p \in Projects, HeldBy(p, i)
  PROVE  Settled(i) \/ Excused(i)
  <1>1. CASE Recover \/ StartManager \/ Serve
    BY <1>1, HeldOn DEF Recover, StartManager, Serve, chanVars, workVars
  <1>2. ASSUME NEW q \in Projects, AutoStartNext(q) \/ Enqueue(q)
        PROVE  Settled(i)
    BY <1>2, HeldOn DEF AutoStartNext, Enqueue, CreateRow, workVars
  <1>3. CASE Crash
    BY <1>3 DEF Crash, Volatile, Excused
  <1>4. ASSUME NEW q \in Projects, RemoveProject(q) PROVE Settled(i)
    BY <1>4, HeldOn DEF RemoveProject, chanVars, workVars
  <1>5. ASSUME NEW q \in Projects, WorkerStep(q) \/ StepError(q)
        PROVE  Settled(i) \/ Excused(i)
    BY <1>5, WorkerSettles
  <1>6. ASSUME NEW q \in Projects, NEW e \in DeployIds, Send(q, e)
        PROVE  Settled(i) \/ Excused(i)
    BY <1>6, SendSettles
  <1>7. ASSUME NEW q \in Projects, NEW e \in DeployIds, CallerGone(q, e)
        PROVE  Excused(i)
    <2>1. faults' = faults + 1 /\ faults \in Nat
      BY <1>7, BoundsAssumption DEF TriggerInv, TypeOK, CallerGone
    <2> QED
      BY <2>1 DEF Excused
  <1>8. ASSUME NEW n \in Settings, SaveConcurrency(n) PROVE Settled(i)
    BY <1>8, HeldOn DEF SaveConcurrency, chanVars, workVars
  <1> QED
    BY <1>1, <1>2, <1>3, <1>4, <1>5, <1>6, <1>7, <1>8 DEF Next, BootStep

\* No path through the worker loop, the handlers or the startup loses a request with
\* its row in progress: only a stop, a storage error, a caller that went away or a
\* send on a full channel does, in every behaviour.
THEOREM OrphansAreExplained == Spec => OrphansExplained
  <1>1. ASSUME TriggerInv, [Next]_vars, NEW i \in DeployIds,
               Held(i), ~Held(i)', InFlight(status'[i])
        PROVE  Excused(i)
    <2>1. PICK p \in Projects : HeldBy(p, i)
      BY <1>1, HeldIs
    <2>2. ~Settled(i)
      BY <1>1, HeldPrimed DEF Settled
    <2>3. CASE UNCHANGED vars
      BY <2>1, <2>2, <2>3, HeldOn DEF vars, chanVars, workVars
    <2>4. CASE Next
      BY <1>1, <2>1, <2>2, <2>4, EveryStepSettles
    <2> QED
      BY <1>1, <2>3, <2>4
  <1>2. TriggerInv /\ [Next]_vars =>
          [\A i \in DeployIds :
             (Held(i) /\ ~Held(i)' /\ InFlight(status'[i])) =>
               \/ boot' = "down" \/ faults' > faults
               \/ \E p \in Projects : <<p, i>> \in sending /\ Len(chan[p]) = ChannelCap]_vars
    BY <1>1 DEF Excused
  <1> QED
    BY <1>2, InitTrigger, TriggerStep, PTL DEF Spec, OrphansExplained

--------------------------------------------------------------------------------
(* What supersedes a trigger.                                                  *)

\* Where the channel, the worker's hands and its step are as they were.
LEMMA OrderFrame ==
  ASSUME NEW p \in Projects, Ordered(p), chan'[p] = chan[p], accepted'[p] = accepted[p],
         \/ pc'[p] = pc[p] /\ cur'[p] = cur[p] /\ old'[p] = old[p]
         \/ pc'[p] \notin {"drain", "coalesce"}
         \/ pc[p] = "coalesce" /\ pc'[p] = "drain" /\ cur'[p] = cur[p]
  PROVE  Ordered(p)'
  <1>1. Received(p)' = Received(p)
    BY DEF Received
  <1> QED
    BY <1>1 DEF Ordered

\* A send puts the request last in both.
LEMMA SendOrder ==
  ASSUME TypeOK, OrderInv, NEW p \in Projects, NEW i \in DeployIds, Send(p, i)
  PROVE  OrderInv'
  <1>1. UNCHANGED <<pc, cur, old>>
    BY DEF Send, workVars
  <1>2. ASSUME NEW q \in Projects, chan'[q] = chan[q], accepted'[q] = accepted[q]
        PROVE  Ordered(q)'
    BY <1>1, <1>2, OrderFrame DEF OrderInv
  <1>3. CASE Len(chan[p]) < ChannelCap
    <2>1. /\ chan[p] \in Seq(DeployIds) /\ accepted[p] \in Seq(DeployIds)
          /\ chan'[p] = Append(chan[p], i) /\ accepted'[p] = Append(accepted[p], i)
          /\ \A q \in Projects \ {p} : chan'[q] = chan[q] /\ accepted'[q] = accepted[q]
      BY <1>3 DEF TypeOK, Send
    <2>2. PICK n \in Nat, m \in Nat : n = Len(chan[p]) /\ m = Len(accepted[p])
      BY <2>1
    <2>11. Received(p) = m - n /\ m - n \in Nat
      BY <2>2 DEF OrderInv, Ordered, Received
    <2>12. /\ Len(chan'[p]) = n + 1 /\ chan'[p][n + 1] = i
           /\ \A k \in 1..n : chan'[p][k] = chan[p][k]
      BY <2>1, <2>2
    <2>13. /\ Len(accepted'[p]) = m + 1 /\ accepted'[p][m + 1] = i
           /\ \A k \in 1..m : accepted'[p][k] = accepted[p][k]
      BY <2>1, <2>2
    <2>3. Received(p)' = m - n
      <3>1. Received(p)' = (m + 1) - (n + 1)
        BY <2>12, <2>13 DEF Received
      <3> QED
        BY <3>1
    <2>4. ASSUME NEW k \in 1..(n + 1)
          PROVE  chan'[p][k] = accepted'[p][(m - n) + k]
      <3>1. CASE k = n + 1
        <4>1. (m - n) + k = m + 1
          BY <3>1
        <4> QED
          BY <2>12, <2>13, <3>1, <4>1
      <3>2. CASE k \in 1..n
        <4>1. chan[p][k] = accepted[p][(m - n) + k]
          BY <2>2, <2>11, <3>2 DEF OrderInv, Ordered
        <4>2. (m - n) + k \in 1..m
          BY <2>11, <3>2
        <4> QED
          BY <2>12, <2>13, <3>2, <4>1, <4>2
      <3>3. k = n + 1 \/ k \in 1..n
        OBVIOUS
      <3> QED
        BY <3>1, <3>2, <3>3
    <2>5. /\ pc[p] \in {"drain", "coalesce"} => m - n >= 1 /\ cur[p] = accepted[p][m - n]
          /\ pc[p] = "coalesce" => m - n >= 2 /\ old[p] = accepted[p][(m - n) - 1]
      BY <2>11 DEF OrderInv, Ordered
    <2>6. m - n >= 1 => accepted'[p][m - n] = accepted[p][m - n]
      <3>1. m - n >= 1 => m - n \in 1..m
        BY <2>11
      <3> QED
        BY <2>13, <3>1
    <2>7. m - n >= 2 => accepted'[p][(m - n) - 1] = accepted[p][(m - n) - 1]
      <3>1. m - n >= 2 => (m - n) - 1 \in 1..m
        BY <2>11
      <3> QED
        BY <2>13, <3>1
    <2>8. /\ pc'[p] \in {"drain", "coalesce"} => m - n >= 1 /\ cur'[p] = accepted'[p][m - n]
          /\ pc'[p] = "coalesce" => m - n >= 2 /\ old'[p] = accepted'[p][(m - n) - 1]
      BY <1>1, <2>5, <2>6, <2>7
    <2>10. Ordered(p)'
      BY <2>3, <2>4, <2>8, <2>11, <2>12 DEF Ordered
    <2> QED
      BY <1>2, <2>1, <2>10 DEF OrderInv
  <1>4. CASE ~(Len(chan[p]) < ChannelCap)
    BY <1>2, <1>4 DEF Send, OrderInv
  <1> QED
    BY <1>3, <1>4

\* A receive takes the next of what was accepted.
LEMMA ReceiveOrder ==
  ASSUME TypeOK, OrderInv, NEW p \in Projects, Recv(p) \/ TakeNewer(p)
  PROVE  Ordered(p)'
  <1>1. /\ chan[p] \in Seq(DeployIds) /\ chan[p] # <<>> /\ chan'[p] = Tail(chan[p])
        /\ cur'[p] = Head(chan[p]) /\ accepted' = accepted
    BY DEF TypeOK, Recv, TakeNewer
  <1>2. PICK n \in Nat, m \in Nat : n = Len(chan[p]) /\ m = Len(accepted[p])
    BY <1>1 DEF TypeOK
  <1>3. /\ n >= 1 /\ cur'[p] = chan[p][1] /\ Len(chan'[p]) = n - 1
        /\ \A k \in 1..(n - 1) : chan'[p][k] = chan[p][k + 1]
    BY <1>1, <1>2, HeadAndTail
  <1>4. /\ Received(p) = m - n /\ m - n \in Nat
        /\ \A k \in 1..n : chan[p][k] = accepted[p][(m - n) + k]
        /\ pc[p] = "drain" => m - n >= 1 /\ cur[p] = accepted[p][m - n]
    BY <1>2 DEF OrderInv, Ordered, Received
  <1>5. Received(p)' = (m - n) + 1
    <2>1. Received(p)' = m - (n - 1)
      BY <1>1, <1>2, <1>3 DEF Received
    <2> QED
      BY <2>1
  <1>6. ASSUME NEW k \in 1..(n - 1) PROVE chan'[p][k] = accepted[p][((m - n) + 1) + k]
    <2>1. k + 1 \in 1..n /\ (m - n) + (k + 1) = ((m - n) + 1) + k
      OBVIOUS
    <2> QED
      BY <1>3, <1>4, <2>1
  <1>7. cur'[p] = accepted[p][(m - n) + 1]
    <2>1. 1 \in 1..n
      BY <1>3
    <2> QED
      BY <1>3, <1>4, <2>1
  <1>8. pc'[p] = "coalesce" => m - n >= 1 /\ old'[p] = accepted[p][m - n]
    BY <1>4 DEF TypeOK, Recv, TakeNewer, Goto
  <1>9. ((m - n) + 1) - 1 = m - n /\ (m - n) + 1 \in Nat /\ (m - n) + 1 >= 1
    BY <1>4
  <1>10. pc'[p] = "coalesce" =>
           (m - n) + 1 >= 2 /\ old'[p] = accepted[p][((m - n) + 1) - 1]
    <2>1. m - n >= 1 => (m - n) + 1 >= 2
      OBVIOUS
    <2> QED
      BY <1>8, <1>9, <2>1
  <1> QED
    BY <1>1, <1>3, <1>5, <1>6, <1>7, <1>9, <1>10 DEF Ordered

\* The rest of the loop receives nothing.
LEMMA WorkerOrder ==
  ASSUME TypeOK, OrderInv, NEW p \in Projects, WorkerStep(p) \/ StepError(p)
  PROVE  OrderInv'
  <1>1. ASSUME NEW q \in Projects, q # p PROVE Ordered(q)'
    BY <1>1, WorkerAlone, OrderFrame DEF OrderInv
  <1>2. Ordered(p)'
    <2>1. CASE Recv(p) \/ TakeNewer(p)
      BY <2>1, ReceiveOrder
    <2>2. CASE Coalesce(p)
      BY <2>2, OrderFrame DEF TypeOK, OrderInv, Coalesce, Goto, chanVars
    <2>3. CASE Carries(p)
      <3>1. pc'[p] \notin {"drain", "coalesce"} /\ UNCHANGED <<chan, accepted>>
        BY <2>3, CarriesAlong DEF TypeOK, Goto
      <3> QED
        BY <3>1, OrderFrame DEF OrderInv
    <2>4. CASE Closes(p)
      <3>1. pc'[p] \notin {"drain", "coalesce"} /\ UNCHANGED <<chan, accepted>>
        BY <2>4, ClosesRow DEF TypeOK, Return
      <3> QED
        BY <3>1, OrderFrame DEF OrderInv
    <2>5. CASE StepError(p)
      <3>1. UNCHANGED <<chan, accepted>>
        BY <2>5 DEF StepError, chanVars
      <3>2. \/ pc'[p] = "recv"
            \/ pc[p] = "coalesce" /\ pc'[p] = "drain" /\ cur' = cur
        BY <2>5 DEF TypeOK, StepError, Return, Goto
      <3> QED
        BY <3>1, <3>2, OrderFrame DEF OrderInv
    <2> QED
      BY <2>1, <2>2, <2>3, <2>4, <2>5, WorkerSplit
  <1> QED
    BY <1>1, <1>2 DEF OrderInv

LEMMA OrderStep == TypeOK /\ OrderInv /\ [Next]_vars => OrderInv'
  <1> SUFFICES ASSUME TypeOK, OrderInv, [Next]_vars PROVE OrderInv'
    OBVIOUS
  <1>1. ASSUME UNCHANGED <<chan, accepted, pc, cur, old>> PROVE OrderInv'
    BY <1>1, OrderFrame DEF OrderInv
  <1>2. CASE Recover \/ StartManager \/ Serve
    BY <1>1, <1>2 DEF Recover, StartManager, Serve, chanVars, workVars
  <1>3. ASSUME NEW p \in Projects, AutoStartNext(p) \/ Enqueue(p) PROVE OrderInv'
    BY <1>1, <1>3 DEF AutoStartNext, Enqueue, CreateRow, workVars
  <1>4. CASE Crash
    <2>1. \A p \in Projects : chan'[p] = <<>> /\ accepted'[p] = <<>> /\ pc'[p] = "recv"
      BY <1>4 DEF Crash, Volatile
    <2> QED
      BY <2>1 DEF OrderInv, Ordered, Received
  <1>5. ASSUME NEW p \in Projects, RemoveProject(p) PROVE OrderInv'
    BY <1>1, <1>5 DEF RemoveProject, chanVars, workVars
  <1>6. ASSUME NEW p \in Projects, WorkerStep(p) \/ StepError(p) PROVE OrderInv'
    BY <1>6, WorkerOrder
  <1>7. ASSUME NEW p \in Projects, NEW i \in DeployIds, Send(p, i) PROVE OrderInv'
    BY <1>7, SendOrder
  <1>8. ASSUME NEW p \in Projects, NEW i \in DeployIds, CallerGone(p, i) PROVE OrderInv'
    BY <1>1, <1>8 DEF CallerGone, workVars
  <1>9. ASSUME NEW n \in Settings, SaveConcurrency(n) PROVE OrderInv'
    BY <1>1, <1>9 DEF SaveConcurrency, chanVars, workVars
  <1>10. CASE UNCHANGED vars
    BY <1>1, <1>10 DEF vars, chanVars, workVars
  <1> QED
    BY <1>2, <1>3, <1>4, <1>5, <1>6, <1>7, <1>8, <1>9, <1>10 DEF Next, BootStep

LEMMA InitOrder == Init => OrderInv
  BY DEF Init, OrderInv, Ordered, Received

\* Only the removal of a project takes rows away, and it takes all of them.
LEMMA CascadeStep == TypeOK /\ CascadeInv /\ [Next]_vars => CascadeInv'
  <1> SUFFICES ASSUME TypeOK, CascadeInv, [Next]_vars PROVE CascadeInv'
    OBVIOUS
  <1>1. ASSUME UNCHANGED <<projects, owner, nextId>>,
               \A i \in DeployIds : status'[i] = "none" <=> status[i] = "none"
        PROVE  CascadeInv'
    BY <1>1 DEF CascadeInv
  <1>2. CASE Recover
    BY <1>1, <1>2 DEF Recover, Recovered
  <1>3. CASE StartManager \/ Serve \/ Crash
    BY <1>1, <1>3 DEF StartManager, Serve, Crash, dbVars
  <1>4. ASSUME NEW p \in Projects, AutoStartNext(p) \/ Enqueue(p) PROVE CascadeInv'
    <2>1. /\ p \in projects /\ nextId \in DeployIds /\ nextId' = nextId + 1
          /\ UNCHANGED projects
          /\ \A i \in DeployIds :
               /\ status'[i] = IF i = nextId THEN "queued" ELSE status[i]
               /\ owner'[i] = IF i = nextId THEN p ELSE owner[i]
      BY <1>4 DEF TypeOK, AutoStartNext, Enqueue, CreateRow
    <2>2. \A i \in DeployIds : i < nextId + 1 <=> i < nextId \/ i = nextId
      BY BoundsAssumption, <2>1 DEF DeployIds
    <2> QED
      BY <2>1, <2>2 DEF CascadeInv
  <1>5. ASSUME NEW p \in Projects, RemoveProject(p) PROVE CascadeInv'
    BY <1>5 DEF TypeOK, RemoveProject, CascadeInv
  <1>6. ASSUME NEW p \in Projects, WorkerStep(p) \/ StepError(p) PROVE CascadeInv'
    <2>1. ASSUME NEW e, NEW s, s # "none", status' = Mark(e, s)
          PROVE  \A i \in DeployIds : status'[i] = "none" <=> status[i] = "none"
      BY <2>1 DEF TypeOK, Mark
    <2>2. CASE Recv(p) \/ TakeNewer(p) \/ StepError(p)
      BY <1>1, <2>2 DEF Recv, TakeNewer, StepError, dbVars
    <2>3. CASE Coalesce(p)
      BY <1>1, <2>1, <2>3 DEF Coalesce
    <2>4. CASE Carries(p)
      BY <1>1, <2>1, <2>4, CarriesAlong
    <2>5. CASE Closes(p)
      BY <1>1, <2>1, <2>5, ClosesRow
    <2> QED
      BY <1>6, <2>2, <2>3, <2>4, <2>5, WorkerSplit
  <1>7. ASSUME NEW p \in Projects, NEW i \in DeployIds, Send(p, i) \/ CallerGone(p, i)
        PROVE  CascadeInv'
    BY <1>1, <1>7 DEF Send, CallerGone, dbVars
  <1>8. ASSUME NEW n \in Settings, SaveConcurrency(n) PROVE CascadeInv'
    BY <1>1, <1>8 DEF SaveConcurrency
  <1>9. CASE UNCHANGED vars
    BY <1>1, <1>9 DEF vars, dbVars
  <1> QED
    BY <1>2, <1>3, <1>4, <1>5, <1>6, <1>7, <1>8, <1>9 DEF Next, BootStep

LEMMA InitCascade == Init => CascadeInv
  BY BoundsAssumption DEF Init, CascadeInv, DeployIds

\* A queued row becomes a failed one by the startup, or by the worker that holds it:
\* dropped for a newer one, or closed because the project is gone.
LEMMA FailsQueued ==
  ASSUME TriggerInv, Next, NEW i \in DeployIds, status[i] = "queued", status'[i] = "failed"
  PROVE  \/ boot' = "recovered"
         \/ \E p \in Projects : Coalesce(p) /\ old[p] = i
         \/ \E p \in Projects : Closes(p) /\ cur[p] = i
  <1> USE DEF TriggerInv
  <1>1. CASE Recover
    BY <1>1 DEF Recover
  <1>2. CASE StartManager \/ Serve \/ Crash
    BY <1>2 DEF StartManager, Serve, Crash, dbVars
  <1>3. ASSUME NEW p \in Projects, AutoStartNext(p) \/ Enqueue(p) PROVE FALSE
    BY <1>3 DEF TypeOK, AutoStartNext, Enqueue, CreateRow
  <1>4. ASSUME NEW p \in Projects, RemoveProject(p) PROVE FALSE
    BY <1>4 DEF RemoveProject
  <1>5. ASSUME NEW p \in Projects, WorkerStep(p) \/ StepError(p)
        PROVE  (Coalesce(p) /\ old[p] = i) \/ (Closes(p) /\ cur[p] = i)
    <2>1. ASSUME NEW e, NEW s, status' = Mark(e, s) PROVE e = i /\ s = "failed"
      BY <2>1 DEF TypeOK, Mark
    <2>2. CASE Recv(p) \/ TakeNewer(p) \/ StepError(p)
      BY <2>2 DEF Recv, TakeNewer, StepError, dbVars
    <2>3. CASE Coalesce(p)
      BY <2>1, <2>3 DEF Coalesce
    <2>4. CASE Carries(p)
      BY <2>1, <2>4, CarriesAlong
    <2>5. CASE Closes(p)
      BY <2>1, <2>5, ClosesRow
    <2> QED
      BY <1>5, <2>2, <2>3, <2>4, <2>5, WorkerSplit
  <1>6. ASSUME NEW p \in Projects, NEW e \in DeployIds, Send(p, e) \/ CallerGone(p, e)
        PROVE  FALSE
    BY <1>6 DEF Send, CallerGone, dbVars
  <1>7. ASSUME NEW n \in Settings, SaveConcurrency(n) PROVE FALSE
    BY <1>7 DEF SaveConcurrency
  <1> QED
    BY <1>1, <1>2, <1>3, <1>4, <1>5, <1>6, <1>7 DEF Next, BootStep

\* What the drain drops was accepted just before the request it keeps, which is
\* still queued: the row of the one is there, so the project is, so the other's is.
LEMMA CoalesceSupersedes ==
  ASSUME TriggerInv, OrderInv, CascadeInv, NEW p \in Projects, NEW i \in DeployIds,
         Coalesce(p), old[p] = i, status[i] = "queued"
  PROVE  \E j, k \in DOMAIN accepted[p] :
           j < k /\ accepted[p][j] = i /\ accepted[p][k] = cur'[p]
             /\ status'[cur'[p]] = "queued"
  <1> USE DEF TriggerInv
  <1>1. /\ pc[p] = "coalesce" /\ cur' = cur /\ status' = Mark(i, "failed")
        /\ accepted[p] \in Seq(DeployIds) /\ chan[p] \in Seq(DeployIds)
    BY DEF TypeOK, Coalesce, Goto
  <1>2. /\ Received(p) >= 2 /\ cur[p] = accepted[p][Received(p)]
        /\ i = accepted[p][Received(p) - 1] /\ Received(p) \in Nat
    BY <1>1 DEF OrderInv, Ordered
  <1>3. Received(p) <= Len(accepted[p])
    <2>1. PICK n \in Nat, m \in Nat : n = Len(chan[p]) /\ m = Len(accepted[p])
      BY <1>1
    <2>2. m - n <= m
      OBVIOUS
    <2> QED
      BY <2>1, <2>2 DEF Received
  <1>4. /\ Received(p) \in DOMAIN accepted[p] /\ Received(p) - 1 \in DOMAIN accepted[p]
        /\ Received(p) - 1 < Received(p)
    BY <1>1, <1>2, <1>3
  <1>5. cur[p] \in DeployIds /\ cur[p] # i
    <2>1. cur[p] \in DeployIds
      BY <1>1, <1>2, <1>4
    <2> QED
      BY <2>1, BoundsAssumption DEF CustodyInv, Apart, DeployIds
  <1>6. i < nextId /\ owner[i] = p /\ cur[p] < nextId /\ owner[cur[p]] = p
    BY <1>5 DEF CustodyInv, Owned, HeldBy, WaitsFor
  <1>7. status[cur[p]] # "none"
    BY <1>5, <1>6 DEF CascadeInv
  <1>8. status[cur[p]] = "queued"
    BY <1>1, <1>5, <1>7, ShownAtIs DEF StatusInv, Shown
  <1>9. status'[cur[p]] = "queued"
    BY <1>1, <1>5, <1>8 DEF TypeOK, Mark
  <1> QED
    BY <1>1, <1>2, <1>4, <1>9

\* Coalescing never discards the latest trigger: whatever is accepted while a drain
\* goes on, the row it closes was accepted before the one it keeps, still to run.
THEOREM CoalescingKeepsTheLatest == Spec => SupersededByLater
  <1>1. ASSUME TriggerInv, OrderInv, CascadeInv, [Next]_vars,
               NEW p \in Projects, NEW i \in DeployIds,
               pc[p] = "coalesce", status[i] = "queued", status'[i] = "failed",
               owner[i] = p, boot' # "recovered"
        PROVE  \E j, k \in DOMAIN accepted[p] :
                 j < k /\ accepted[p][j] = i /\ accepted[p][k] = cur'[p]
                   /\ status'[cur'[p]] = "queued"
    <2>1. Next
      BY <1>1 DEF vars, dbVars
    <2>2. \/ \E q \in Projects : Coalesce(q) /\ old[q] = i
          \/ \E q \in Projects : Closes(q) /\ cur[q] = i
      BY <1>1, <2>1, FailsQueued
    <2>3. \A q \in Projects : HeldBy(q, i) => q = p
      BY <1>1 DEF TriggerInv, CustodyInv, Owned
    <2>4. ~Closes(p)
      BY <1>1, ClosesRow DEF TriggerInv
    <2>5. Coalesce(p) /\ old[p] = i
      BY <2>2, <2>3, <2>4 DEF HeldBy, WaitsFor
    <2> QED
      BY <1>1, <2>5, CoalesceSupersedes
  <1>2. TriggerInv /\ OrderInv /\ CascadeInv /\ [Next]_vars =>
          [\A p \in Projects, i \in DeployIds :
             (/\ pc[p] = "coalesce" /\ status[i] = "queued" /\ status'[i] = "failed"
              /\ owner[i] = p /\ boot' # "recovered") =>
               \E j, k \in DOMAIN accepted[p] :
                 j < k /\ accepted[p][j] = i /\ accepted[p][k] = cur'[p]
                   /\ status'[cur'[p]] = "queued"]_vars
    BY <1>1
  <1>3. TriggerInv /\ OrderInv /\ CascadeInv /\ [Next]_vars => OrderInv' /\ CascadeInv'
    BY OrderStep, CascadeStep DEF TriggerInv
  <1> QED
    BY <1>2, <1>3, InitTrigger, TriggerStep, InitOrder, InitCascade, PTL
       DEF Spec, SupersededByLater

================================================================================
