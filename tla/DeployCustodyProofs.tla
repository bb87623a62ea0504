-------------------------- MODULE DeployCustodyProofs --------------------------
(* More theorems about DeployScheduler: a request is held in one place only,   *)
(* and its row shows the step its worker is at.                                *)
EXTENDS DeploySchedulerProofs

--------------------------------------------------------------------------------
(* Who holds a request.                                                        *)

In(s, i) == \E k \in DOMAIN s : s[k] = i

\* The request of row i waits for p's worker: with its caller, in the channel, or
\* as the request the worker is dropping.
WaitsFor(p, i) == <<p, i>> \in sending \/ In(chan[p], i) \/ old[p] = i

HeldBy(p, i) == WaitsFor(p, i) \/ cur[p] = i

\* No request is in two of a project's places, or twice in its channel.
Apart(p) ==
  /\ \A i \in DeployIds : <<p, i>> \in sending => ~In(chan[p], i) /\ cur[p] # i /\ old[p] # i
  /\ \A j, k \in DOMAIN chan[p] : chan[p][j] = chan[p][k] => j = k
  /\ ~In(chan[p], cur[p]) /\ ~In(chan[p], old[p])
  /\ cur[p] = old[p] => cur[p] = 0

\* What a project holds is its own, and inserted already.
Owned(p) == \A i \in DeployIds : HeldBy(p, i) => i < nextId /\ owner[i] = p

\* The inductive form of SingleCustody: projects are apart because rows have one
\* owner, and the row a trigger inserts is held by nobody yet.
CustodyInv == \A p \in Projects : Apart(p) /\ Owned(p)

--------------------------------------------------------------------------------
(* The channel as a queue of requests.                                         *)

\* A send puts one request into the channel and moves none.
LEMMA AppendIn ==
  ASSUME NEW s \in Seq(DeployIds), NEW e \in DeployIds, ~In(s, e),
         \A j, k \in DOMAIN s : s[j] = s[k] => j = k
  PROVE  /\ \A i : In(Append(s, e), i) <=> In(s, i) \/ i = e
         /\ \A j, k \in DOMAIN Append(s, e) : Append(s, e)[j] = Append(s, e)[k] => j = k
  <1>1. /\ DOMAIN s = 1..Len(s) /\ Len(s) \in Nat
        /\ DOMAIN Append(s, e) = 1..(Len(s) + 1)
        /\ \A k \in 1..Len(s) : Append(s, e)[k] = s[k]
        /\ Append(s, e)[Len(s) + 1] = e
    OBVIOUS
  <1>2. 1..(Len(s) + 1) = (1..Len(s)) \cup {Len(s) + 1}
    BY <1>1
  <1>3. \A i : In(Append(s, e), i) <=> In(s, i) \/ i = e
    BY <1>1, <1>2 DEF In
  <1>4. \A j, k \in DOMAIN Append(s, e) : Append(s, e)[j] = Append(s, e)[k] => j = k
    BY <1>1, <1>2 DEF In
  <1> QED
    BY <1>3, <1>4

\* A receive takes the first request out of the channel.
LEMMA TailIn ==
  ASSUME NEW s \in Seq(DeployIds), s # <<>>,
         \A j, k \in DOMAIN s : s[j] = s[k] => j = k
  PROVE  /\ Head(s) \in DeployIds /\ In(s, Head(s)) /\ ~In(Tail(s), Head(s))
         /\ \A i : In(Tail(s), i) => In(s, i)
         /\ \A j, k \in DOMAIN Tail(s) : Tail(s)[j] = Tail(s)[k] => j = k
  <1>1. /\ DOMAIN s = 1..Len(s) /\ Len(s) \in Nat \ {0}
        /\ DOMAIN Tail(s) = 1..(Len(s) - 1)
        /\ \A k \in 1..(Len(s) - 1) : Tail(s)[k] = s[k + 1]
        /\ Head(s) = s[1] /\ s[1] \in DeployIds
    OBVIOUS
  <1>2. \A k \in 1..(Len(s) - 1) : k + 1 \in DOMAIN s /\ k + 1 # 1
    BY <1>1
  <1>3. 1 \in DOMAIN s
    BY <1>1
  <1>4. \A i : In(Tail(s), i) => In(s, i)
    BY <1>1, <1>2 DEF In
  <1>5. In(s, Head(s)) /\ ~In(Tail(s), Head(s))
    BY <1>1, <1>2, <1>3 DEF In
  <1>6. \A j, k \in DOMAIN Tail(s) : Tail(s)[j] = Tail(s)[k] => j = k
    BY <1>1, <1>2
  <1> QED
    BY <1>1, <1>4, <1>5, <1>6

--------------------------------------------------------------------------------
(* CustodyInv is inductive.                                                    *)

\* A step that takes nothing into a project's places keeps them apart.
LEMMA CustodyFrame ==
  ASSUME TypeOK, CustodyInv, NEW p \in Projects,
         sending' \subseteq sending, chan'[p] = chan[p],
         cur'[p] \in {cur[p], 0}, old'[p] \in {old[p], 0}, UNCHANGED <<nextId, owner>>
  PROVE  Apart(p)' /\ Owned(p)'
  <1>1. ~In(chan[p], 0) /\ 0 \notin DeployIds
    BY BoundsAssumption DEF TypeOK, In, DeployIds
  <1>2. Apart(p) /\ Owned(p)
    BY DEF CustodyInv
  <1>3. Apart(p)'
    BY <1>1, <1>2 DEF Apart, In
  <1>4. Owned(p)'
    BY <1>1, <1>2 DEF Owned, HeldBy, WaitsFor, In
  <1> QED
    BY <1>3, <1>4

\* A trigger's new row is held by its caller alone.
LEMMA CreateCustody ==
  ASSUME TypeOK, CustodyInv, NEW p \in Projects, CreateRow(p), UNCHANGED <<cur, old>>
  PROVE  CustodyInv'
  <1> USE DEF CustodyInv
  <1>1. /\ nextId \in DeployIds /\ nextId \in Nat /\ 0 \notin DeployIds
        /\ chan' = chan /\ nextId' = nextId + 1
        /\ sending' = sending \cup {<<p, nextId>>}
        /\ owner' = [owner EXCEPT ![nextId] = p]
    BY BoundsAssumption DEF CreateRow, TypeOK, DeployIds
  <1>2. \A q \in Projects : ~HeldBy(q, nextId)
    BY <1>1 DEF Owned
  <1>3. ASSUME NEW q \in Projects PROVE Apart(q)'
    BY <1>1, <1>2 DEF Apart, HeldBy, WaitsFor, In
  <1>4. ASSUME NEW q \in Projects, NEW i \in DeployIds, HeldBy(q, i)'
        PROVE  i < nextId' /\ owner'[i] = q
    <2>1. CASE HeldBy(q, i)
      <3>1. i < nextId /\ owner[i] = q
        BY <2>1 DEF Owned
      <3> QED
        BY <1>1, <3>1 DEF TypeOK, DeployIds
    <2>2. CASE ~HeldBy(q, i)
      <3>1. q = p /\ i = nextId
        BY <1>1, <1>4, <2>2 DEF HeldBy, WaitsFor, In
      <3> QED
        BY <1>1, <3>1 DEF TypeOK, DeployIds
    <2> QED
      BY <2>1, <2>2
  <1> QED
    BY <1>3, <1>4 DEF Owned

\* A sent request moves from its caller to the channel, or is dropped.
LEMMA SendCustody ==
  ASSUME TypeOK, CustodyInv, NEW p \in Projects, NEW i \in DeployIds, Send(p, i)
  PROVE  CustodyInv'
  <1> USE DEF CustodyInv
  <1>1. /\ <<p, i>> \in sending /\ sending' = sending \ {<<p, i>>}
        /\ UNCHANGED <<cur, old, nextId, owner>>
        /\ \/ chan' = [chan EXCEPT ![p] = Append(@, i)]
           \/ chan' = chan
    BY DEF Send, dbVars, workVars
  <1>2. ASSUME NEW q \in Projects, chan'[q] = chan[q] PROVE Apart(q)' /\ Owned(q)'
    BY <1>1, <1>2, CustodyFrame
  <1>3. CASE chan' = [chan EXCEPT ![p] = Append(@, i)]
    <2>1. chan[p] \in Seq(DeployIds) /\ chan'[p] = Append(chan[p], i)
      BY <1>3 DEF TypeOK
    <2>2. Apart(p) /\ Owned(p)
      OBVIOUS
    <2>3. ~In(chan[p], i) /\ cur[p] # i /\ old[p] # i
      BY <1>1, <2>2 DEF Apart
    <2>4. /\ \A e : In(chan'[p], e) <=> In(chan[p], e) \/ e = i
          /\ \A j, k \in DOMAIN chan'[p] : chan'[p][j] = chan'[p][k] => j = k
      BY <2>1, <2>2, <2>3, AppendIn DEF Apart
    <2>5. Apart(p)'
      <3>1. \A e \in DeployIds :
              <<p, e>> \in sending' => ~In(chan'[p], e) /\ cur'[p] # e /\ old'[p] # e
        BY <1>1, <2>2, <2>4 DEF Apart
      <3>2. ~In(chan'[p], cur'[p]) /\ ~In(chan'[p], old'[p]) /\ (cur'[p] = old'[p] => cur'[p] = 0)
        BY <1>1, <2>2, <2>3, <2>4 DEF Apart
      <3>3. Apart(p)' <=>
             /\ \A e \in DeployIds :
                  <<p, e>> \in sending' => ~In(chan'[p], e) /\ cur'[p] # e /\ old'[p] # e
             /\ \A j, k \in DOMAIN chan'[p] : chan'[p][j] = chan'[p][k] => j = k
             /\ ~In(chan'[p], cur'[p]) /\ ~In(chan'[p], old'[p])
             /\ cur'[p] = old'[p] => cur'[p] = 0
        BY DEF Apart, In
      <3> QED
        BY <2>4, <3>1, <3>2, <3>3
    <2>6. Owned(p)'
      <3>1. \A e \in DeployIds : HeldBy(p, e)' => HeldBy(p, e)
        BY <1>1, <2>4 DEF HeldBy, WaitsFor, In
      <3> QED
        BY <1>1, <2>2, <3>1 DEF Owned
    <2>7. \A q \in Projects \ {p} : chan'[q] = chan[q]
      BY <1>3 DEF TypeOK
    <2> QED
      BY <1>2, <2>5, <2>6, <2>7
  <1>4. CASE chan' = chan
    BY <1>2, <1>4
  <1> QED
    BY <1>1, <1>3, <1>4

\* A received request moves from the channel to the worker's hands, and in the
\* drain the one in hand becomes the one being dropped.
LEMMA ReceiveCustody ==
  ASSUME TypeOK, CustodyInv, NEW p \in Projects,
         chan[p] # <<>>, chan' = [chan EXCEPT ![p] = Tail(@)],
         cur' = [cur EXCEPT ![p] = Head(chan[p])],
         \/ old' = old
         \/ old' = [old EXCEPT ![p] = cur[p]],
         UNCHANGED <<sending, nextId, owner>>
  PROVE  CustodyInv'
  <1> USE DEF CustodyInv
  <1>1. \A q \in Projects \ {p} : chan'[q] = chan[q] /\ cur'[q] = cur[q] /\ old'[q] = old[q]
    BY DEF TypeOK
  <1>2. \A q \in Projects \ {p} : Apart(q)' /\ Owned(q)'
    BY <1>1, CustodyFrame
  <1>3. Apart(p) /\ Owned(p)
    OBVIOUS
  <1>4. /\ chan[p] \in Seq(DeployIds) /\ chan'[p] = Tail(chan[p])
        /\ cur'[p] = Head(chan[p]) /\ old'[p] \in {old[p], cur[p]}
        /\ 0 \notin DeployIds
    BY BoundsAssumption DEF TypeOK, DeployIds
  <1>5. /\ cur'[p] \in DeployIds /\ In(chan[p], cur'[p]) /\ ~In(chan'[p], cur'[p])
        /\ \A e : In(chan'[p], e) => In(chan[p], e)
        /\ \A j, k \in DOMAIN chan'[p] : chan'[p][j] = chan'[p][k] => j = k
    BY <1>3, <1>4, TailIn DEF Apart
  <1>6. Apart(p)'
    <2>1. \A e \in DeployIds :
            <<p, e>> \in sending' => ~In(chan'[p], e) /\ cur'[p] # e /\ old'[p] # e
      BY <1>3, <1>4, <1>5 DEF Apart
    <2>2. /\ ~In(chan'[p], cur'[p]) /\ ~In(chan'[p], old'[p])
          /\ cur'[p] # old'[p]
      BY <1>3, <1>4, <1>5 DEF Apart
    <2>3. Apart(p)' <=>
           /\ \A e \in DeployIds :
                <<p, e>> \in sending' => ~In(chan'[p], e) /\ cur'[p] # e /\ old'[p] # e
           /\ \A j, k \in DOMAIN chan'[p] : chan'[p][j] = chan'[p][k] => j = k
           /\ ~In(chan'[p], cur'[p]) /\ ~In(chan'[p], old'[p])
           /\ cur'[p] = old'[p] => cur'[p] = 0
      BY DEF Apart, In
    <2> QED
      BY <1>5, <2>1, <2>2, <2>3
  <1>7. Owned(p)'
    <2>1. \A e \in DeployIds : HeldBy(p, e)' => HeldBy(p, e)
      BY <1>4, <1>5 DEF HeldBy, WaitsFor, In
    <2> QED
      BY <1>3, <2>1 DEF Owned
  <1> QED
    BY <1>2, <1>6, <1>7

\* A step of p's worker that receives nothing leaves every request where it is, or
\* gives it up.
LEMMA WorkerCustody ==
  ASSUME TypeOK, CustodyInv, NEW p \in Projects, WorkerStep(p) \/ StepError(p)
  PROVE  CustodyInv'
  <1>1. CASE Recv(p) \/ TakeNewer(p)
    <2>1. UNCHANGED <<sending, nextId, owner>>
      BY <1>1 DEF Recv, TakeNewer, dbVars
    <2> QED
      BY <1>1, <2>1, ReceiveCustody DEF Recv, TakeNewer
  <1>2. ASSUME UNCHANGED <<sending, chan, nextId, owner>>,
               cur' = cur \/ cur' = [cur EXCEPT ![p] = 0],
               old' = old \/ old' = [old EXCEPT ![p] = 0]
        PROVE  CustodyInv'
    <2>1. \A q \in Projects : cur'[q] \in {cur[q], 0} /\ old'[q] \in {old[q], 0}
      BY <1>2 DEF TypeOK
    <2> QED
      BY <1>2, <2>1, CustodyFrame DEF CustodyInv
  <1>3. CASE Coalesce(p) \/ DrainDone(p) \/ Load(p) \/ Acquire(p)
    BY <1>2, <1>3 DEF Coalesce, DrainDone, Load, Acquire, dbVars, chanVars
  <1>4. CASE OpenLog(p) \/ GitSync(p) \/ RecordCommit(p) \/ ComposeUp(p)
    BY <1>2, <1>4 DEF OpenLog, GitSync, RecordCommit, ComposeUp, Call, dbVars, chanVars
  <1>5. CASE SetPulling(p) \/ SetBuilding(p) \/ SetStarting(p) \/ SetHealthy(p)
    BY <1>2, <1>5 DEF SetPulling, SetBuilding, SetStarting, SetHealthy, Write, chanVars
  <1>6. CASE Poll(p)
    BY <1>2, <1>6 DEF Poll, dbVars, chanVars
  <1>7. CASE Missing(p) \/ Succeed(p) \/ Fail(p)
    BY <1>2, <1>7 DEF Missing, Succeed, Fail, Close, Return, chanVars
  <1>8. CASE StepError(p)
    BY <1>2, <1>8 DEF StepError, Return, dbVars, chanVars
  <1> QED
    BY <1>1, <1>3, <1>4, <1>5, <1>6, <1>7, <1>8 DEF WorkerStep

\* Every step keeps each request in one place.
LEMMA CustodyStep == TypeOK /\ CustodyInv /\ [Next]_vars => CustodyInv'
  <1> SUFFICES ASSUME TypeOK, CustodyInv, [Next]_vars PROVE CustodyInv'
    OBVIOUS
  <1>1. ASSUME sending' \subseteq sending, UNCHANGED <<chan, cur, old, nextId, owner>>
        PROVE  CustodyInv'
    BY <1>1, CustodyFrame DEF CustodyInv
  <1>2. CASE Recover \/ StartManager \/ Serve
    BY <1>1, <1>2 DEF Recover, StartManager, Serve, dbVars, chanVars, workVars
  <1>3. ASSUME NEW p \in Projects, AutoStartNext(p) \/ Enqueue(p) PROVE CustodyInv'
    BY <1>3, CreateCustody DEF AutoStartNext, Enqueue, workVars
  <1>4. CASE Crash
    <2>1. \A p \in Projects :
            sending' = {} /\ chan'[p] = <<>> /\ cur'[p] = 0 /\ old'[p] = 0
      BY <1>4 DEF Crash, Volatile
    <2> QED
      BY <2>1, BoundsAssumption
         DEF CustodyInv, Apart, Owned, HeldBy, WaitsFor, In, DeployIds
  <1>5. ASSUME NEW p \in Projects, RemoveProject(p) PROVE CustodyInv'
    BY <1>1, <1>5 DEF RemoveProject, chanVars, workVars
  <1>6. ASSUME NEW p \in Projects, WorkerStep(p) \/ StepError(p) PROVE CustodyInv'
    BY <1>6, WorkerCustody
  <1>7. ASSUME NEW p \in Projects, NEW i \in DeployIds, Send(p, i) \/ CallerGone(p, i)
        PROVE  CustodyInv'
    BY <1>1, <1>7, SendCustody DEF CallerGone, dbVars, workVars
  <1>8. ASSUME NEW n \in Settings, SaveConcurrency(n) PROVE CustodyInv'
    BY <1>1, <1>8 DEF SaveConcurrency, chanVars, workVars
  <1>9. CASE UNCHANGED vars
    BY <1>1, <1>9 DEF vars, dbVars, chanVars, workVars
  <1> QED
    BY <1>2, <1>3, <1>4, <1>5, <1>6, <1>7, <1>8, <1>9 DEF Next, BootStep

\* At the first start nothing is held.
LEMMA InitCustody == Init => CustodyInv
  BY BoundsAssumption DEF Init, CustodyInv, Apart, Owned, HeldBy, WaitsFor, In, DeployIds

\* A custodian of row i belongs to a project that holds it, in one of four places.
Place(c, p, i) ==
  \/ c = <<"caller", p, 0>> /\ <<p, i>> \in sending
  \/ \E k \in DOMAIN chan[p] : c = <<"channel", p, k>> /\ chan[p][k] = i
  \/ c = <<"current", p, 0>> /\ cur[p] = i
  \/ c = <<"dropped", p, 0>> /\ old[p] = i

LEMMA CustodianHolds ==
  ASSUME NEW i, NEW c \in Custodians(i)
  PROVE  \E p \in Projects : c[2] = p /\ HeldBy(p, i) /\ Place(c, p, i)
  <1>1. \E p \in Projects : Place(c, p, i)
    BY DEF Custodians, Place
  <1>2. PICK p \in Projects : Place(c, p, i)
    BY <1>1
  <1>3. c[2] = p /\ HeldBy(p, i)
    BY <1>2 DEF Place, HeldBy, WaitsFor, In
  <1> QED
    BY <1>2, <1>3

\* CustodyInv says what SingleCustody says.
LEMMA CustodyIsSingle == TypeOK /\ CustodyInv => SingleCustody
  <1> SUFFICES ASSUME TypeOK, CustodyInv, NEW i \in DeployIds
               PROVE  /\ Cardinality(Custodians(i)) <= 1
                      /\ \A c \in Custodians(i) : owner[i] = c[2]
    BY DEF SingleCustody
  <1>1. \A c \in Custodians(i) : owner[i] = c[2]
    BY CustodianHolds DEF CustodyInv, Owned
  <1>2. ASSUME NEW c \in Custodians(i), NEW d \in Custodians(i) PROVE c = d
    <2>1. PICK p \in Projects : HeldBy(p, i) /\ Place(c, p, i)
      BY CustodianHolds
    <2>2. PICK q \in Projects : HeldBy(q, i) /\ Place(d, q, i)
      BY CustodianHolds
    <2>3. p = q
      BY <2>1, <2>2 DEF CustodyInv, Owned
    <2>4. Apart(p) /\ i # 0
      BY BoundsAssumption DEF CustodyInv, DeployIds
    <2> QED
      BY <2>1, <2>2, <2>3, <2>4 DEF Apart, In, Place
  <1>3. CASE Custodians(i) = {}
    BY <1>1, <1>3, FS_EmptySet
  <1>4. CASE Custodians(i) # {}
    <2>1. PICK c \in Custodians(i) : TRUE
      BY <1>4
    <2>2. Custodians(i) = {c}
      BY <1>2, <2>1
    <2>3. Cardinality({c}) = 1
      BY FS_Singleton
    <2> QED
      BY <1>1, <2>2, <2>3
  <1> QED
    BY <1>3, <1>4

\* No row is deployed twice or written by two tasks: in every reachable state a
\* request is with its caller, in its channel or in one worker's hands, once.
THEOREM RequestsHaveOneHolder == Spec => []SingleCustody
  <1>1. Init => TypeOK /\ CustodyInv
    BY InitTypeOK, InitCustody
  <1>2. TypeOK /\ CustodyInv /\ [Next]_vars => TypeOK' /\ CustodyInv'
    BY NextTypeOK, CustodyStep
  <1> QED
    BY <1>1, <1>2, CustodyIsSingle, PTL DEF Spec

--------------------------------------------------------------------------------
(* What a row shows.                                                           *)

\* A row in p's hands shows the step of p's worker, a row that waits is queued.
Shown(p) ==
  \A i \in DeployIds :
    /\ cur[p] = i => status[i] \in ShownAt(pc[p]) \cup {"none"}
    /\ WaitsFor(p, i) => status[i] \in {"queued", "none"}

\* The inductive form of StatusMatchesStep.
StatusInv == \A p \in Projects : Shown(p)

\* The table of ShownAt, step by step.
LEMMA ShownAtIs ==
  /\ \A s \in {"recv", "drain", "coalesce", "load", "missing", "permit", "log", "pull"} :
       ShownAt(s) = {"queued"}
  /\ \A s \in {"sync", "record", "build"} : ShownAt(s) = {"pulling"}
  /\ \A s \in {"up", "start"} : ShownAt(s) = {"building"}
  /\ \A s \in {"poll", "healthy"} : ShownAt(s) = {"starting"}
  /\ ShownAt("succeed") = {"healthy"}
  /\ ShownAt("fail") = {"pulling", "building", "starting"}
  BY DEF ShownAt

\* A project whose held rows keep their status, or vanish, and whose worker moves
\* between steps that show the same, still shows what it should.
LEMMA ShownFrame ==
  ASSUME StatusInv, NEW p \in Projects,
         \A i \in DeployIds : HeldBy(p, i)' => status'[i] \in {status[i], "none"},
         \A i \in DeployIds : WaitsFor(p, i)' => WaitsFor(p, i),
         \/ cur'[p] = cur[p] /\ ShownAt(pc[p]) \subseteq ShownAt(pc'[p])
         \/ cur'[p] = 0
  PROVE  Shown(p)'
  <1>1. \A i \in DeployIds : i # 0
    BY BoundsAssumption DEF DeployIds
  <1>2. Shown(p)
    BY DEF StatusInv
  <1>3. ASSUME NEW i \in DeployIds, cur'[p] = i
        PROVE  status'[i] \in ShownAt(pc'[p]) \cup {"none"}
    BY <1>1, <1>2, <1>3 DEF Shown, HeldBy
  <1>4. ASSUME NEW i \in DeployIds, WaitsFor(p, i)'
        PROVE  status'[i] \in {"queued", "none"}
    BY <1>2, <1>4 DEF Shown, HeldBy
  <1> QED
    BY <1>3, <1>4 DEF Shown, WaitsFor, In, ShownAt

\* A step of p that writes to no row but those p holds leaves the others' rows.
LEMMA OthersShown ==
  ASSUME CustodyInv, StatusInv, NEW p \in Projects, NEW q \in Projects, q # p,
         \A i \in DeployIds : ~HeldBy(p, i) => status'[i] = status[i],
         UNCHANGED sending, chan'[q] = chan[q], cur'[q] = cur[q], old'[q] = old[q],
         pc'[q] = pc[q]
  PROVE  Shown(q)'
  <1>1. \A i \in DeployIds : WaitsFor(q, i)' <=> WaitsFor(q, i)
    BY DEF WaitsFor, In
  <1>2. \A i \in DeployIds : HeldBy(q, i)' <=> HeldBy(q, i)
    BY <1>1 DEF HeldBy
  <1>3. \A i \in DeployIds : HeldBy(q, i) => ~HeldBy(p, i)
    BY DEF CustodyInv, Owned
  <1> QED
    BY <1>1, <1>2, <1>3, ShownFrame

\* Mark writes to the row it names and to no other.
LEMMA MarkIs ==
  ASSUME TypeOK, NEW e \in DeployIds \cup {0}, NEW s, status' = Mark(e, s)
  PROVE  \A i \in DeployIds :
           /\ i # e => status'[i] = status[i]
           /\ i = e => status'[i] \in {s, "none"}
  BY DEF TypeOK, Mark

\* The loop of a worker: what it receives is queued, what it drops is closed.
LEMMA LoopShown ==
  ASSUME TypeOK, CustodyInv, StatusInv, NEW p \in Projects,
         Recv(p) \/ TakeNewer(p) \/ Coalesce(p)
  PROVE  StatusInv'
  <1> USE BoundsAssumption DEF DeployIds
  <1>1. Apart(p) /\ Owned(p) /\ Shown(p)
    BY DEF CustodyInv, StatusInv
  <1>2. CASE Recv(p) \/ TakeNewer(p)
    <2>1. /\ chan[p] \in Seq(DeployIds) /\ chan[p] # <<>> /\ chan'[p] = Tail(chan[p])
          /\ cur'[p] = Head(chan[p]) /\ old'[p] \in {old[p], cur[p]}
          /\ old'[p] = cur[p] => pc[p] = "drain" \/ old'[p] = old[p]
          /\ pc'[p] \in {"drain", "coalesce"}
          /\ UNCHANGED <<sending, status>>
      BY <1>2 DEF TypeOK, Recv, TakeNewer, Goto, dbVars
    <2>2. /\ In(chan[p], cur'[p])
          /\ \A i : In(chan'[p], i) => In(chan[p], i)
      BY <1>1, <2>1, TailIn DEF Apart
    <2>3. ShownAt(pc'[p]) = {"queued"} /\ ShownAt("drain") = {"queued"}
      BY <2>1, ShownAtIs
    <2>4. ASSUME NEW i \in DeployIds, cur'[p] = i
          PROVE  status'[i] \in ShownAt(pc'[p]) \cup {"none"}
      BY <1>1, <2>1, <2>2, <2>3, <2>4 DEF Shown, WaitsFor
    <2>5. ASSUME NEW i \in DeployIds, WaitsFor(p, i)'
          PROVE  status'[i] \in {"queued", "none"}
      <3>1. WaitsFor(p, i) \/ (pc[p] = "drain" /\ cur[p] = i)
        BY <2>1, <2>2, <2>5 DEF WaitsFor, In
      <3> QED
        BY <1>1, <2>1, <2>3, <3>1 DEF Shown
    <2>6. Shown(p)'
      BY <2>4, <2>5 DEF Shown, WaitsFor, In, ShownAt
    <2>7. ASSUME NEW q \in Projects, q # p PROVE Shown(q)'
      <3>1. chan'[q] = chan[q] /\ cur'[q] = cur[q] /\ old'[q] = old[q] /\ pc'[q] = pc[q]
        BY <1>2, <2>7 DEF TypeOK, Recv, TakeNewer, Goto
      <3> QED
        BY <2>1, <2>7, <3>1, OthersShown
    <2> QED
      BY <2>6, <2>7 DEF StatusInv
  <1>3. CASE Coalesce(p)
    <2>1. /\ status' = Mark(old[p], "failed") /\ old[p] \in DeployIds \cup {0}
          /\ UNCHANGED <<sending, chan, cur>>
          /\ old' = [old EXCEPT ![p] = 0] /\ pc' = [pc EXCEPT ![p] = "drain"]
          /\ pc[p] = "coalesce"
      BY <1>3 DEF TypeOK, Coalesce, Goto, chanVars
    <2>2. \A i \in DeployIds : i # old[p] => status'[i] = status[i]
      BY <2>1, MarkIs
    <2>3. \A i \in DeployIds : HeldBy(p, i)' => i # old[p]
      BY <1>1, <2>1 DEF TypeOK, Apart, HeldBy, WaitsFor, In
    <2>4. \A i \in DeployIds : WaitsFor(p, i)' => WaitsFor(p, i)
      BY <2>1 DEF TypeOK, WaitsFor, In
    <2>5. ShownAt(pc[p]) \subseteq ShownAt(pc'[p])
      BY <2>1, ShownAtIs DEF TypeOK
    <2>6. Shown(p)'
      BY <2>1, <2>2, <2>3, <2>4, <2>5, ShownFrame
    <2>7. ASSUME NEW q \in Projects, q # p PROVE Shown(q)'
      <3>1. cur'[q] = cur[q] /\ old'[q] = old[q] /\ pc'[q] = pc[q]
        BY <2>1, <2>7 DEF TypeOK
      <3>2. \A i \in DeployIds : ~HeldBy(p, i) => status'[i] = status[i]
        BY <2>2 DEF HeldBy, WaitsFor
      <3> QED
        BY <2>1, <2>7, <3>1, <3>2, OthersShown
    <2> QED
      BY <2>6, <2>7 DEF StatusInv
  <1> QED
    BY <1>2, <1>3

\* A step that writes no row, or deletes some, and takes nothing in.
LEMMA SilentShown ==
  ASSUME StatusInv, \A i \in DeployIds : status'[i] \in {status[i], "none"},
         sending' \subseteq sending, chan' = chan,
         \A q \in Projects :
           /\ old'[q] \in {old[q], 0}
           /\ \/ cur'[q] = cur[q] /\ ShownAt(pc[q]) \subseteq ShownAt(pc'[q])
              \/ cur'[q] = 0
  PROVE  StatusInv'
  <1>1. \A q \in Projects, i \in DeployIds : WaitsFor(q, i)' => WaitsFor(q, i)
    BY BoundsAssumption DEF WaitsFor, In, DeployIds
  <1> QED
    BY <1>1, ShownFrame DEF StatusInv

\* The same for a worker that moves between steps that show the same.
LEMMA MoveShown ==
  ASSUME TypeOK, StatusInv, NEW p \in Projects, NEW from, NEW to, Goto(p, from, to),
         ShownAt(from) \subseteq ShownAt(to), UNCHANGED <<status, sending, chan, cur, old>>
  PROVE  StatusInv'
  <1>1. \A q \in Projects : ShownAt(pc[q]) \subseteq ShownAt(pc'[q])
    BY DEF TypeOK, Goto
  <1> QED
    BY <1>1, SilentShown

\* A step that writes the status of the deploy in hand, and then shows it.
LEMMA WriteShown ==
  ASSUME TypeOK, CustodyInv, StatusInv, NEW p \in Projects, NEW from, NEW s, NEW to,
         Write(p, from, s, to), ShownAt(to) = {s}
  PROVE  StatusInv'
  <1>1. /\ status' = Mark(cur[p], s) /\ cur[p] \in DeployIds \cup {0}
        /\ UNCHANGED <<sending, chan, cur, old>>
        /\ pc' = [pc EXCEPT ![p] = to] /\ pc'[p] = to
    BY DEF TypeOK, Write, Goto, chanVars
  <1>2. \A i \in DeployIds : /\ i # cur[p] => status'[i] = status[i]
                             /\ i = cur[p] => status'[i] \in {s, "none"}
    BY <1>1, MarkIs
  <1>3. Apart(p) /\ Shown(p)
    BY DEF CustodyInv, StatusInv
  <1>4. Shown(p)'
    <2>1. ASSUME NEW i \in DeployIds, cur'[p] = i
          PROVE  status'[i] \in ShownAt(pc'[p]) \cup {"none"}
      BY <1>1, <1>2, <2>1
    <2>2. ASSUME NEW i \in DeployIds, WaitsFor(p, i)'
          PROVE  status'[i] \in {"queued", "none"}
      <3>1. WaitsFor(p, i) /\ i # cur[p]
        BY <1>1, <1>3, <2>2, BoundsAssumption DEF Apart, WaitsFor, In, DeployIds
      <3> QED
        BY <1>2, <1>3, <3>1 DEF Shown
    <2> QED
      BY <2>1, <2>2 DEF Shown, WaitsFor, In, ShownAt
  <1>5. ASSUME NEW q \in Projects, q # p PROVE Shown(q)'
    <2>1. pc'[q] = pc[q]
      BY <1>1, <1>5 DEF TypeOK
    <2>2. \A i \in DeployIds : ~HeldBy(p, i) => status'[i] = status[i]
      BY <1>2 DEF HeldBy
    <2> QED
      BY <1>1, <1>5, <2>1, <2>2, OthersShown
  <1> QED
    BY <1>4, <1>5 DEF StatusInv

\* The end of run_deploy closes the row and lets it go.
LEMMA CloseShown ==
  ASSUME TypeOK, CustodyInv, StatusInv, NEW p \in Projects, NEW from, NEW s,
         Close(p, from, s)
  PROVE  StatusInv'
  <1>1. /\ status' = Mark(cur[p], s) /\ cur[p] \in DeployIds \cup {0}
        /\ UNCHANGED <<sending, chan, old>>
        /\ cur' = [cur EXCEPT ![p] = 0] /\ cur'[p] = 0
        /\ pc' = [pc EXCEPT ![p] = "recv"]
    BY DEF TypeOK, Close, Return, chanVars
  <1>2. \A i \in DeployIds : i # cur[p] => status'[i] = status[i]
    BY <1>1, MarkIs
  <1>3. Apart(p)
    BY DEF CustodyInv
  <1>4. \A i \in DeployIds : WaitsFor(p, i)' <=> WaitsFor(p, i)
    BY <1>1 DEF WaitsFor, In
  <1>5. \A i \in DeployIds : HeldBy(p, i)' => i # cur[p]
    BY <1>1, <1>3, <1>4, BoundsAssumption DEF Apart, HeldBy, WaitsFor, In, DeployIds
  <1>6. Shown(p)'
    BY <1>1, <1>2, <1>4, <1>5, ShownFrame
  <1>7. ASSUME NEW q \in Projects, q # p PROVE Shown(q)'
    <2>1. cur'[q] = cur[q] /\ pc'[q] = pc[q]
      BY <1>1, <1>7 DEF TypeOK
    <2>2. \A i \in DeployIds : ~HeldBy(p, i) => status'[i] = status[i]
      BY <1>2 DEF HeldBy
    <2> QED
      BY <1>1, <1>7, <2>1, <2>2, OthersShown
  <1> QED
    BY <1>6, <1>7 DEF StatusInv

\* Every step of a worker keeps its rows in step with it.
LEMMA WorkerShown ==
  ASSUME TypeOK, CustodyInv, StatusInv, NEW p \in Projects, WorkerStep(p) \/ StepError(p)
  PROVE  StatusInv'
  <1>1. CASE Recv(p) \/ TakeNewer(p) \/ Coalesce(p)
    BY <1>1, LoopShown
  <1>2. CASE DrainDone(p)
    BY <1>2, MoveShown, ShownAtIs DEF DrainDone, dbVars, chanVars
  <1>3. CASE Load(p)
    <2>1. UNCHANGED <<status, sending, chan, cur, old>>
      BY <1>3 DEF Load, dbVars, chanVars
    <2>2. Goto(p, "load", "permit") \/ Goto(p, "load", "missing")
      BY <1>3 DEF Load
    <2> QED
      BY <2>1, <2>2, MoveShown, ShownAtIs
  <1>4. CASE Acquire(p)
    BY <1>4, MoveShown, ShownAtIs DEF Acquire, dbVars, chanVars
  <1>5. ASSUME NEW from, NEW outcomes, Call(p, from, outcomes),
               \A to \in outcomes : ShownAt(from) \subseteq ShownAt(to)
        PROVE  StatusInv'
    BY <1>5, MoveShown DEF Call, dbVars, chanVars
  <1>6. CASE OpenLog(p) \/ GitSync(p) \/ RecordCommit(p) \/ ComposeUp(p)
    BY <1>5, <1>6, ShownAtIs DEF OpenLog, GitSync, RecordCommit, ComposeUp
  <1>7. CASE SetPulling(p) \/ SetBuilding(p) \/ SetStarting(p) \/ SetHealthy(p)
    BY <1>7, WriteShown, ShownAtIs DEF SetPulling, SetBuilding, SetStarting, SetHealthy
  <1>8. CASE Poll(p)
    <2>1. UNCHANGED <<status, sending, chan, cur, old>>
      BY <1>8 DEF Poll, dbVars, chanVars
    <2>2. \E to \in {"healthy", "poll", "fail"} : Goto(p, "poll", to)
      BY <1>8 DEF Poll
    <2> QED
      BY <2>1, <2>2, MoveShown, ShownAtIs
  <1>9. CASE Missing(p) \/ Succeed(p) \/ Fail(p)
    BY <1>9, CloseShown DEF Missing, Succeed, Fail
  <1>10. CASE StepError(p)
    <2>1. UNCHANGED <<status, sending, chan>>
      BY <1>10 DEF StepError, dbVars, chanVars
    <2>2. CASE Return(p) /\ UNCHANGED old
      <3>1. \A q \in Projects : cur'[q] = 0 \/ (cur'[q] = cur[q] /\ pc'[q] = pc[q])
        BY <2>2 DEF TypeOK, Return
      <3> QED
        BY <2>1, <2>2, <3>1, SilentShown
    <2>3. CASE Goto(p, "coalesce", "drain") /\ old' = [old EXCEPT ![p] = 0] /\ UNCHANGED cur
      <3>1. \A q \in Projects :
              old'[q] \in {old[q], 0} /\ ShownAt(pc[q]) \subseteq ShownAt(pc'[q])
        BY <2>3, ShownAtIs DEF TypeOK, Goto
      <3> QED
        BY <2>1, <2>3, <3>1, SilentShown
    <2> QED
      BY <1>10, <2>2, <2>3 DEF StepError
  <1> QED
    BY <1>1, <1>2, <1>3, <1>4, <1>6, <1>7, <1>8, <1>9, <1>10 DEF WorkerStep

\* A trigger's new row is queued, and nobody else holds it.
LEMMA CreateShown ==
  ASSUME TypeOK, CustodyInv, StatusInv, NEW p \in Projects, CreateRow(p),
         UNCHANGED <<cur, old, pc>>
  PROVE  StatusInv'
  <1>1. /\ nextId \in DeployIds /\ nextId \in Nat /\ chan' = chan
        /\ sending' = sending \cup {<<p, nextId>>}
        /\ \A i \in DeployIds : i # nextId => status'[i] = status[i]
        /\ status'[nextId] = "queued"
    BY BoundsAssumption DEF CreateRow, TypeOK, DeployIds
  <1>2. \A q \in Projects : ~HeldBy(q, nextId)
    BY <1>1 DEF CustodyInv, Owned
  <1>3. ASSUME NEW q \in Projects PROVE Shown(q)'
    <2>1. ASSUME NEW i \in DeployIds, cur'[q] = i
          PROVE  status'[i] \in ShownAt(pc'[q]) \cup {"none"}
      BY <1>1, <1>2, <2>1 DEF StatusInv, Shown, HeldBy
    <2>2. ASSUME NEW i \in DeployIds, WaitsFor(q, i)'
          PROVE  status'[i] \in {"queued", "none"}
      <3>1. i = nextId \/ WaitsFor(q, i)
        BY <1>1, <2>2 DEF WaitsFor, In
      <3> QED
        BY <1>1, <3>1 DEF StatusInv, Shown
    <2> QED
      BY <2>1, <2>2 DEF Shown, WaitsFor, In, ShownAt
  <1> QED
    BY <1>3 DEF StatusInv

\* A sent request is still queued.
LEMMA SendShown ==
  ASSUME TypeOK, CustodyInv, StatusInv, NEW p \in Projects, NEW i \in DeployIds, Send(p, i)
  PROVE  StatusInv'
  <1>1. /\ <<p, i>> \in sending /\ sending' \subseteq sending
        /\ UNCHANGED <<status, cur, old, pc>>
        /\ \/ chan' = [chan EXCEPT ![p] = Append(@, i)]
           \/ chan' = chan
    BY DEF Send, dbVars, workVars
  <1>2. ASSUME NEW q \in Projects, NEW e \in DeployIds, WaitsFor(q, e)' PROVE WaitsFor(q, e)
    <2>1. CASE chan'[q] = chan[q]
      BY <1>1, <1>2, <2>1 DEF WaitsFor, In
    <2>2. CASE q = p /\ chan'[p] = Append(chan[p], i)
      <3>1. chan[p] \in Seq(DeployIds) /\ Apart(p)
        BY DEF TypeOK, CustodyInv
      <3>2. \A k : In(Append(chan[p], i), k) <=> In(chan[p], k) \/ k = i
        BY <1>1, <3>1, AppendIn DEF Apart
      <3> QED
        BY <1>1, <1>2, <2>2, <3>2 DEF WaitsFor, In
    <2> QED
      BY <1>1, <2>1, <2>2 DEF TypeOK
  <1> QED
    BY <1>1, <1>2, ShownFrame DEF StatusInv

\* Startup touches rows only while nothing is held, and a stop drops everything.
LEMMA BootShown ==
  ASSUME TypeOK, QuietAtStartup, CustodyInv, StatusInv, BootStep \/ Crash
  PROVE  StatusInv'
  <1>1. CASE Recover \/ Crash
    <2>1. \A p \in Projects : sending' = {} /\ chan'[p] = <<>> /\ cur'[p] = 0 /\ old'[p] = 0
      BY <1>1 DEF Recover, Crash, Volatile, QuietAtStartup, chanVars, workVars
    <2>2. \A p \in Projects, i \in DeployIds : ~WaitsFor(p, i)' /\ cur'[p] # i
      BY <2>1, BoundsAssumption DEF WaitsFor, In, DeployIds
    <2>3. \A p \in Projects : Shown(p)'
      BY <2>2 DEF Shown, WaitsFor, In, ShownAt
    <2> QED
      BY <2>3 DEF StatusInv
  <1>2. CASE StartManager \/ Serve
    BY <1>2, SilentShown DEF StartManager, Serve, dbVars, chanVars, workVars
  <1>3. ASSUME NEW p \in Projects, AutoStartNext(p) PROVE StatusInv'
    BY <1>3, CreateShown DEF AutoStartNext, workVars
  <1> QED
    BY <1>1, <1>2, <1>3 DEF BootStep

\* Every step keeps the rows in step with their workers.
LEMMA StatusStep ==
  TypeOK /\ QuietAtStartup /\ CustodyInv /\ StatusInv /\ [Next]_vars => StatusInv'
  <1> SUFFICES ASSUME TypeOK, QuietAtStartup, CustodyInv, StatusInv, [Next]_vars
               PROVE  StatusInv'
    OBVIOUS
  <1>1. CASE BootStep \/ Crash
    BY <1>1, BootShown
  <1>2. ASSUME NEW p \in Projects, Enqueue(p) PROVE StatusInv'
    BY <1>2, CreateShown DEF Enqueue, workVars
  <1>3. ASSUME NEW p \in Projects, RemoveProject(p) PROVE StatusInv'
    <2>1. \A i \in DeployIds : status'[i] \in {status[i], "none"}
      BY <1>3 DEF RemoveProject
    <2> QED
      BY <1>3, <2>1, SilentShown DEF RemoveProject, chanVars, workVars
  <1>4. ASSUME NEW p \in Projects, WorkerStep(p) \/ StepError(p) PROVE StatusInv'
    BY <1>4, WorkerShown
  <1>5. ASSUME NEW p \in Projects, NEW i \in DeployIds, Send(p, i) PROVE StatusInv'
    BY <1>5, SendShown
  <1>6. ASSUME NEW p \in Projects, NEW i \in DeployIds, CallerGone(p, i) PROVE StatusInv'
    BY <1>6, SilentShown DEF CallerGone, dbVars, workVars
  <1>7. ASSUME NEW n \in Settings, SaveConcurrency(n) PROVE StatusInv'
    BY <1>7, SilentShown DEF SaveConcurrency, chanVars, workVars
  <1>8. CASE UNCHANGED vars
    BY <1>8, SilentShown DEF vars, dbVars, chanVars, workVars
  <1> QED
    BY <1>1, <1>2, <1>3, <1>4, <1>5, <1>6, <1>7, <1>8 DEF Next

\* At the first start nothing is held, so nothing is shown wrongly.
LEMMA InitStatus == Init => StatusInv
  BY BoundsAssumption DEF Init, StatusInv, Shown, WaitsFor, In, DeployIds

\* With one holder per request, StatusInv says what StatusMatchesStep says.
LEMMA StatusMatches == TypeOK /\ CustodyInv /\ StatusInv => StatusMatchesStep
  <1> SUFFICES ASSUME TypeOK, CustodyInv, StatusInv, NEW p \in Projects, NEW i \in DeployIds
               PROVE  /\ cur[p] = i => status[i] \in ShownAt(pc[p]) \cup {"none"}
                      /\ (Held(i) /\ cur[p] # i /\ owner[i] = p) => status[i] \in {"queued", "none"}
    BY DEF StatusMatchesStep
  <1>1. Shown(p)
    BY DEF StatusInv
  <1>2. ASSUME Held(i), cur[p] # i, owner[i] = p PROVE status[i] \in {"queued", "none"}
    <2>1. PICK q \in Projects : HeldBy(q, i)
      BY <1>2, CustodianHolds DEF Held
    <2>2. q = p
      BY <1>2, <2>1 DEF CustodyInv, Owned
    <2> QED
      BY <1>1, <1>2, <2>1, <2>2 DEF HeldBy, Shown
  <1> QED
    BY <1>1, <1>2 DEF Shown

\* The status a user sees is never ahead of or behind the worker that drives it, and
\* a request that still waits shows "queued", in every reachable state.
THEOREM StatusFollowsWorker == Spec => []StatusMatchesStep
  <1>1. Init => TypeOK /\ QuietAtStartup /\ CustodyInv /\ StatusInv
    BY InitTypeOK, InitPermit, InitCustody, InitStatus DEF PermitInv
  <1>2. /\ TypeOK /\ QuietAtStartup /\ CustodyInv /\ StatusInv /\ [Next]_vars
        => TypeOK' /\ QuietAtStartup' /\ CustodyInv' /\ StatusInv'
    BY NextTypeOK, QuietStep, CustodyStep, StatusStep
  <1> QED
    BY <1>1, <1>2, StatusMatches, PTL DEF Spec
================================================================================
