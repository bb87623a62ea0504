---------------------------- MODULE RegistryProofs ----------------------------
(* Theorems about Registry, for every set of folders and of requests, every    *)
(* list of candidate slugs, every limit and every bound.                       *)
EXTENDS Registry, FiniteSetTheorems, SequenceTheorems, TLAPS

--------------------------------------------------------------------------------
(* Inductive invariants                                                        *)

\* What a request may hold at each step of its handler.
RequestType ==
  [pc : {"idle", "exists", "insert", "find", "update", "delete", "enqueue", "created",
         "verify"},
   op : {"none", "create", "manual", "toggle", "remove", "hook"},
   folder : Folder \cup {"none"}, try : Nat, slug : Slugs \cup {"none"},
   id : Ids \cup {NoId}, enabled : BOOLEAN, trigger : Triggers \cup {"none", "initial"},
   signer : Ids \cup {NoId}, since : Nat]

Placed(r) ==
  /\ At(r, "exists") => /\ req[r].folder \in Folder
                        /\ req[r].try \in 1..Len(Candidates[req[r].folder])
  /\ req[r].pc \in {"exists", "insert", "created"} => req[r].op = "create"
  /\ At(r, "find") => req[r].op \in {"manual", "toggle", "remove", "hook"}
  /\ req[r].pc \notin {"idle", "exists"} => req[r].slug \in Slugs
  /\ req[r].op = "hook" => req[r].slug \in Hooked
  /\ At(r, "verify") => req[r].op = "hook"
  /\ At(r, "update") => req[r].op = "toggle"
  /\ req[r].pc \in {"update", "delete", "enqueue", "verify"} => req[r].id # NoId
  /\ req[r].id <= created /\ req[r].signer <= created /\ req[r].since <= created

\* TypeOK leaves the steps of a request open; they decide what it reads next.
TypeInv ==
  /\ TypeOK
  /\ req \in [Request -> RequestType] /\ \A r \in Request : Placed(r)
  /\ \A i \in Rows : projects[i].slug \in Slugs

\* A request that is about to queue a deploy as a delivery was signed with the
\* secret of the project that it holds, not of the one the slug leads to by now.
SignedInv ==
  \A r \in Request :
    At(r, "enqueue") /\ req[r].trigger \in {"webhook_github", "webhook_plain"} =>
      req[r].signer = req[r].id

\* A slug that was free is taken by a project that is younger than the answer.
RaceInv ==
  \A r \in Request : At(r, "insert") =>
    \A i \in Rows : projects[i].slug = req[r].slug => req[r].since < i

\* Two toggles that hold one row have overlapped, and one that holds it alone
\* has read what it still contains.
ToggleInv ==
  /\ \A i \in Ids : created < i => ~flips[i]
  /\ \A r \in Request : req[r].op = "toggle" /\ req[r].id # NoId => At(r, "update")
  /\ \A r, q \in Request :
       r # q /\ At(r, "update") /\ At(q, "update") /\ req[r].id = req[q].id =>
         overlapped[req[r].id]
  /\ \A r \in Request :
       At(r, "update") /\ req[r].id \in Rows /\ ~overlapped[req[r].id] =>
         req[r].enabled = projects[req[r].id].enabled

\* What passed the limiter and is not in the table yet, and what the windows of
\* a slug have let pass so far.
Passed(s) == {r \in Request : At(r, "enqueue") /\ req[r].op = "hook" /\ req[r].slug = s}
Counting(s) == IF rate[s].count < Limit THEN rate[s].count ELSE Limit
LimitInv ==
  \A s \in Hooked :
    queued[s] + Cardinality(Passed(s)) <= Limit * (windows[s] - 1) + Counting(s)

--------------------------------------------------------------------------------
(* Type correctness                                                            *)

LEMMA InitTypeInv == Init => TypeInv
  <1> SUFFICES ASSUME Init PROVE TypeInv
    OBVIOUS
  <1>1. Rows = {}
    BY DEF Init, Rows
  <1> QED
    BY <1>1, BoundsAssumption, NoneAssumption
       DEF Init, TypeInv, TypeOK, RequestType, Placed, At, Idle, NoId, NoRow, Ids, Rows, Slugs

\* What a step of one request leaves behind: the others as they were, and the
\* request itself in order.
Moves(r) ==
  /\ req' \in [Request -> RequestType]
  /\ \A q \in Request \ {r} : req'[q] = req[q]
  /\ Placed(r)'

LEMMA CreatedIsNat ==
  ASSUME TypeInv
  PROVE  created \in Nat
  BY BoundsAssumption DEF TypeInv, TypeOK

LEMMA StartMoves ==
  ASSUME TypeInv, NEW r \in Request, AskCreate(r) \/ Ask(r)
  PROVE  Moves(r)
  <1>1. created \in Nat /\ created' = created /\ req \in [Request -> RequestType]
    BY CreatedIsNat DEF AskCreate, Ask, dbVars, TypeInv
  <1>2. CASE AskCreate(r)
    <2>1. PICK f \in Folder : req' = [req EXCEPT ![r] =
            [Idle EXCEPT !.pc = "exists", !.op = "create", !.folder = f, !.try = 1]]
      BY <1>2 DEF AskCreate
    <2>2. Len(Candidates[f]) \in Nat \ {0}
      BY CandidatesAssumption, EmptySeq, LenProperties
    <2>3. req' \in [Request -> RequestType] /\ \A q \in Request \ {r} : req'[q] = req[q]
      BY <1>1, <2>1 DEF RequestType, Idle
    <2>4. req'[r] = [Idle EXCEPT !.pc = "exists", !.op = "create", !.folder = f, !.try = 1]
      BY <1>1, <2>1
    <2>5. Placed(r)'
      BY <1>1, <2>2, <2>4 DEF Idle, NoId, Placed, At
    <2> QED
      BY <2>3, <2>5 DEF Moves
  <1>3. CASE Ask(r)
    <2>1. PICK op \in {"manual", "toggle", "remove", "hook"}, s \in Slugs :
            /\ op = "hook" => s \in Hooked
            /\ req' = [req EXCEPT ![r] = [Idle EXCEPT !.pc = "find", !.op = op, !.slug = s]]
      BY <1>3 DEF Ask
    <2>2. req' \in [Request -> RequestType] /\ \A q \in Request \ {r} : req'[q] = req[q]
      BY <1>1, <2>1 DEF RequestType, Idle
    <2>3. req'[r] = [Idle EXCEPT !.pc = "find", !.op = op, !.slug = s]
      BY <1>1, <2>1
    <2>4. Placed(r)'
      BY <1>1, <2>1, <2>3 DEF Idle, NoId, Placed, At
    <2> QED
      BY <2>2, <2>4 DEF Moves
  <1> QED
    BY <1>2, <1>3

LEMMA DoneMoves ==
  ASSUME TypeInv, NEW r \in Request, Done(r), created' \in Nat
  PROVE  Moves(r)
  BY DEF Done, TypeInv, RequestType, Idle, NoId, Moves, Placed, At

\* unique_slug asks for slugs only.
LEMMA CandidateIsSlug ==
  ASSUME NEW f \in Folder, NEW i \in 1..Len(Candidates[f])
  PROVE  Candidates[f][i] \in Slugs
  BY CandidatesAssumption, ElementOfSeq

LEMMA RegistrationMoves ==
  ASSUME TypeInv, NEW r \in Request, Exists(r) \/ Insert(r)
  PROVE  Moves(r) /\ created' \in created..MaxProject
  <1>1. created \in Nat /\ created \in 0..MaxProject /\ req \in [Request -> RequestType]
        /\ Placed(r)
    BY CreatedIsNat DEF TypeInv, TypeOK
  <1>2. CASE Exists(r)
    <2> DEFINE f == req[r].folder
               slug == Candidates[f][req[r].try]
    <2>1. created' = created /\ req[r].op = "create" /\ f \in Folder
          /\ req[r].try \in 1..Len(Candidates[f]) /\ slug \in Slugs
      BY <1>1, <1>2, CandidateIsSlug DEF Exists, Placed, At, dbVars
    <2>2. Len(Candidates[f]) \in Nat
      BY <2>1, CandidatesAssumption, LenProperties
    <2>3. CASE req' = [req EXCEPT ![r].pc = "insert", ![r].slug = slug, ![r].since = created]
      <3>1. req' \in [Request -> RequestType] /\ \A q \in Request \ {r} : req'[q] = req[q]
        <4>1. [req[r] EXCEPT !.pc = "insert", !.slug = slug, !.since = created] \in RequestType
          BY <1>1, <2>1 DEF RequestType
        <4> QED
          BY <1>1, <2>3, <4>1
      <3>2. req'[r] = [req[r] EXCEPT !.pc = "insert", !.slug = slug, !.since = created]
        BY <1>1, <2>3
      <3>3. Placed(r)'
        BY <1>1, <2>1, <3>2 DEF Placed, At, RequestType
      <3> QED
        BY <1>1, <2>1, <3>1, <3>3 DEF Moves
    <2>4. CASE /\ req[r].try < Len(Candidates[f])
               /\ req' = [req EXCEPT ![r].try = @ + 1]
      <3>1. req' \in [Request -> RequestType] /\ \A q \in Request \ {r} : req'[q] = req[q]
        <4>1. [req[r] EXCEPT !.try = @ + 1] \in RequestType
          BY <1>1 DEF RequestType
        <4> QED
          BY <1>1, <2>4, <4>1
      <3>2. req'[r] = [req[r] EXCEPT !.try = @ + 1]
        BY <1>1, <2>4
      <3>3. Placed(r)'
        BY <1>1, <2>1, <2>2, <2>4, <3>2 DEF Placed, At, RequestType
      <3> QED
        BY <1>1, <2>1, <3>1, <3>3 DEF Moves
    <2> QED
      BY <1>2, <2>3, <2>4 DEF Exists
  <1>3. CASE Insert(r) /\ Inserted(r) /\ created < MaxProject
    <2>1. /\ created' = created + 1 /\ created' \in 1..MaxProject
          /\ req' = [req EXCEPT ![r].pc = "enqueue", ![r].id = created', ![r].trigger = "initial"]
      BY <1>1, <1>3, BoundsAssumption DEF Inserted
    <2>2. req' \in [Request -> RequestType] /\ \A q \in Request \ {r} : req'[q] = req[q]
      <3>1. [req[r] EXCEPT !.pc = "enqueue", !.id = created', !.trigger = "initial"] \in RequestType
        <4>1. req[r] \in RequestType /\ created' \in Ids
          BY <1>1, <2>1 DEF Ids
        <4> QED
          BY <4>1 DEF RequestType
      <3> QED
        BY <1>1, <2>1, <3>1
    <2>3. req'[r] = [req[r] EXCEPT !.pc = "enqueue", !.id = created', !.trigger = "initial"]
      BY <1>1, <2>1
    <2>4. Placed(r)'
      <3>1. At(r, "insert")
        BY <1>3 DEF Insert
      <3> QED
        BY <1>1, <2>1, <2>3, <3>1 DEF Placed, At, RequestType, Ids, NoId
    <2> QED
      BY <1>1, <2>1, <2>2, <2>4 DEF Moves
  <1>4. CASE Insert(r) /\ Done(r) /\ created' = created
    BY <1>1, <1>4, DoneMoves
  <1> QED
    BY <1>2, <1>3, <1>4 DEF Insert

LEMMA HandlerMoves ==
  ASSUME TypeInv, NEW r \in Request, Find(r) \/ Update(r) \/ Delete(r) \/ Created(r) \/ Dropped(r)
  PROVE  Moves(r) /\ created' = created
  <1>1. created' = created
    BY DEF Find, Update, Delete, Created, Dropped, dbVars
  <1>2. created \in Nat /\ created \in 0..MaxProject /\ req \in [Request -> RequestType]
        /\ Placed(r) /\ Rows \subseteq 1..created
    BY CreatedIsNat DEF TypeInv, TypeOK
  <1>3. CASE Done(r)
    BY <1>1, <1>2, <1>3, DoneMoves
  <1>4. ASSUME Find(r), NEW i \in Ids, Found(r, i),
               req' = [req EXCEPT ![r].id = i, ![r].enabled = req[r].op = "toggle" /\ projects[i].enabled,
               ![r].trigger = IF req[r].op = "manual" THEN "manual" ELSE "none",
               ![r].pc = CASE req[r].op = "toggle" -> "update"
                           [] req[r].op = "remove" -> "delete"
                           [] req[r].op = "hook"   -> "verify"
                           [] OTHER                -> "enqueue"]
        PROVE  Moves(r)
    <2>1. At(r, "find") /\ i \in 1..created
      BY <1>2, <1>4 DEF Find, Found, Named
    <2>2. projects[i].enabled \in BOOLEAN
      BY DEF TypeInv, TypeOK
    <2>3. \A q \in Request \ {r} : req'[q] = req[q]
      BY <1>2, <1>4
    <2>4. /\ req'[r].pc = CASE req[r].op = "toggle" -> "update"
                           [] req[r].op = "remove" -> "delete"
                           [] req[r].op = "hook"   -> "verify"
                           [] OTHER                -> "enqueue"
          /\ req'[r].id = i /\ req'[r].slug = req[r].slug /\ req'[r].op = req[r].op
          /\ req'[r].signer = req[r].signer /\ req'[r].since = req[r].since
      BY <1>2, <1>4 DEF RequestType
    <2>5. req' \in [Request -> RequestType]
      <3> DEFINE flag == req[r].op = "toggle" /\ projects[i].enabled
                 trigger == IF req[r].op = "manual" THEN "manual" ELSE "none"
                 pc == CASE req[r].op = "toggle" -> "update"
                         [] req[r].op = "remove" -> "delete"
                         [] req[r].op = "hook"   -> "verify"
                         [] OTHER                -> "enqueue"
      <3>2. req[r] \in RequestType
        BY <1>2
      <3>3. flag \in BOOLEAN /\ trigger \in Triggers \cup {"none"}
        BY DEF Triggers
      <3>4. pc \in {"update", "delete", "verify", "enqueue"}
        OBVIOUS
      <3>5. req' = [req EXCEPT ![r] =
               [req[r] EXCEPT !.id = i, !.enabled = flag, !.trigger = trigger, !.pc = pc]]
        BY <1>2, <1>4
      <3> HIDE DEF flag, trigger, pc
      <3>6. [req[r] EXCEPT !.id = i, !.enabled = flag, !.trigger = trigger, !.pc = pc]
              \in RequestType
        BY <3>2, <3>3, <3>4 DEF RequestType
      <3> QED
        BY <1>2, <3>5, <3>6
    <2>6. Placed(r)'
      BY <1>1, <1>2, <2>1, <2>4 DEF Placed, At, NoId
    <2> QED
      BY <2>3, <2>5, <2>6 DEF Moves
  <1> QED
    BY <1>1, <1>3, <1>4 DEF Find, Update, Delete, Created, Dropped

\* A request that stays what it is and goes on to another step.
LEMMA GotoMoves ==
  ASSUME TypeInv, NEW r \in Request, Goto(r, "created"), At(r, "enqueue"),
         req[r].op = "create", created' = created
  PROVE  Moves(r)
  <1>1. req \in [Request -> RequestType] /\ Placed(r) /\ created \in Nat
    BY CreatedIsNat DEF TypeInv
  <1>2. req' = [req EXCEPT ![r] = [req[r] EXCEPT !.pc = "created"]]
    BY <1>1 DEF Goto
  <1>3. [req[r] EXCEPT !.pc = "created"] \in RequestType
    <2>1. req[r] \in RequestType
      BY <1>1
    <2> QED
      BY <2>1 DEF RequestType
  <1>4. req' \in [Request -> RequestType] /\ \A q \in Request \ {r} : req'[q] = req[q]
    BY <1>1, <1>2, <1>3
  <1>5. req'[r] = [req[r] EXCEPT !.pc = "created"]
    BY <1>1, <1>2
  <1>6. Placed(r)'
    BY <1>1, <1>5 DEF Placed, At, RequestType
  <1> QED
    BY <1>4, <1>6 DEF Moves

LEMMA QueueMoves ==
  ASSUME TypeInv, NEW r \in Request, Enqueue(r) \/ Verify(r)
  PROVE  Moves(r) /\ created' = created
  <1>1. created' = created
    BY DEF Enqueue, Verify, dbVars
  <1>2. created \in Nat /\ created \in 0..MaxProject /\ req \in [Request -> RequestType]
        /\ Placed(r)
    BY CreatedIsNat DEF TypeInv, TypeOK
  <1>3. CASE Done(r)
    BY <1>1, <1>2, <1>3, DoneMoves
  <1>4. CASE Enqueue(r) /\ Goto(r, "created") /\ req[r].op = "create"
    BY <1>1, <1>4, GotoMoves DEF Enqueue
  <1>5. ASSUME Verify(r), NEW mode \in {"webhook_github", "webhook_plain", "none"},
               NEW signer \in 0..created, NEW push \in BOOLEAN, NEW match \in BOOLEAN,
               Accepted(r, mode, signer, push, match),
               req' = [req EXCEPT ![r].pc = "enqueue", ![r].trigger = mode, ![r].signer = signer]
        PROVE  Moves(r)
    <2>1. At(r, "verify") /\ mode \in Triggers /\ signer \in Ids \cup {NoId} /\ signer <= created
      <3>1. At(r, "verify") /\ mode \in Triggers
        BY <1>5 DEF Verify, Accepted, Triggers
      <3>2. signer \in Ids \cup {NoId} /\ signer <= created
        BY <1>2, BoundsAssumption DEF Ids, NoId
      <3> QED
        BY <3>1, <3>2
    <2>2. [req[r] EXCEPT !.pc = "enqueue", !.trigger = mode, !.signer = signer] \in RequestType
      <3>1. req[r] \in RequestType
        BY <1>2
      <3> QED
        BY <2>1, <3>1 DEF RequestType
    <2>3. req' = [req EXCEPT ![r] =
            [req[r] EXCEPT !.pc = "enqueue", !.trigger = mode, !.signer = signer]]
      BY <1>2, <1>5
    <2>4. req' \in [Request -> RequestType] /\ \A q \in Request \ {r} : req'[q] = req[q]
      BY <1>2, <2>2, <2>3
    <2>5. req'[r] = [req[r] EXCEPT !.pc = "enqueue", !.trigger = mode, !.signer = signer]
      BY <1>2, <2>3
    <2>6. Placed(r)'
      BY <1>1, <1>2, <2>1, <2>5 DEF Placed, At, RequestType
    <2> QED
      BY <2>4, <2>6 DEF Moves
  <1>6. CASE Enqueue(r)
    <2>1. (Goto(r, "created") /\ req[r].op = "create") \/ Done(r)
      BY <1>6 DEF Enqueue
    <2> QED
      BY <1>1, <1>3, <1>4, <1>6, <2>1
  <1>7. CASE Verify(r)
    <2>1. \/ Done(r)
          \/ \E mode \in {"webhook_github", "webhook_plain", "none"},
                signer \in 0..created, push, match \in BOOLEAN :
               /\ Accepted(r, mode, signer, push, match)
               /\ req' = [req EXCEPT ![r].pc = "enqueue", ![r].trigger = mode,
                                     ![r].signer = signer]
      BY ONLY Verify(r) DEF Verify
    <2> QED
      BY <1>1, <1>3, <1>5, <1>7, <2>1
  <1> QED
    BY <1>6, <1>7

\* A step of one request leaves the others in order: ids are only ever added.
LEMMA RequestsTyped ==
  ASSUME TypeInv, NEW r \in Request, Moves(r), created' \in Nat, created <= created'
  PROVE  req' \in [Request -> RequestType] /\ \A q \in Request : Placed(q)'
  <1>1. ASSUME NEW q \in Request \ {r} PROVE Placed(q)'
    <2>1. Placed(q) /\ req'[q] = req[q] /\ req[q] \in RequestType /\ created \in Nat
      BY CreatedIsNat DEF Moves, TypeInv
    <2>2. req[q].id \in Nat /\ req[q].signer \in Nat /\ req[q].since \in Nat
      BY <2>1 DEF RequestType, Ids, NoId
    <2> QED
      BY <2>1, <2>2 DEF Placed, At
  <1> QED
    BY <1>1 DEF Moves

\* The part of TypeInv that is about the tables and the limiter.
Tables ==
  /\ projects \in [Ids -> [slug : Slugs \cup {"none"}, enabled : BOOLEAN]]
  /\ created \in 0..MaxProject /\ Rows \subseteq 1..created
  /\ \A i \in Rows : projects[i].slug \in Slugs
  /\ deploys \subseteq [project : Rows, trigger : Triggers, signer : 0..created]
  /\ rate \in [Hooked -> [count : 0..Limit + 1, over : BOOLEAN]]
  /\ queued \in [Hooked -> Nat] /\ windows \in [Hooked -> 1..MaxWindow]
  /\ flips \in [Ids -> BOOLEAN] /\ overlapped \in [Ids -> BOOLEAN]

LEMMA TypeInvParts ==
  TypeInv <=> /\ Tables
              /\ req \in [Request -> RequestType] /\ \A r \in Request : Placed(r)
  <1>1. ASSUME Tables, req \in [Request -> RequestType], NEW r \in Request, Placed(r)
        PROVE  req[r].id \in 0..created /\ req[r].slug \in Slugs \cup {"none"}
    <2>1. created \in Nat /\ req[r] \in RequestType
      BY <1>1, BoundsAssumption DEF Tables
    <2> QED
      BY <1>1, <2>1 DEF RequestType, Placed, Ids, NoId
  <1> QED
    BY <1>1 DEF TypeInv, TypeOK, Tables

LEMMA TypeInvPrimed ==
  ASSUME Tables', (req \in [Request -> RequestType])', (\A r \in Request : Placed(r))'
  PROVE  TypeInv'
  BY TypeInvParts, PTL

LEMMA InsertTables ==
  ASSUME TypeInv, NEW r \in Request, Insert(r), Inserted(r), created < MaxProject
  PROVE  Tables'
  <1> DEFINE new == [slug |-> req[r].slug, enabled |-> TRUE]
  <1>1. Tables /\ req[r].slug \in Slugs
    BY TypeInvParts DEF TypeInv, Placed, Insert, At
  <1>2. /\ created' = created + 1 /\ created' \in Ids /\ created \in Nat
        /\ projects' = [projects EXCEPT ![created'] = new]
    BY <1>1, BoundsAssumption DEF Inserted, Tables, Ids
  <1>3. /\ projects' \in [Ids -> [slug : Slugs \cup {"none"}, enabled : BOOLEAN]]
        /\ projects'[created'] = new
        /\ \A i \in Ids \ {created'} : projects'[i] = projects[i]
    BY <1>1, <1>2 DEF Tables
  <1>4. new # NoRow /\ new.slug \in Slugs
    BY <1>1, NoneAssumption DEF NoRow
  <1>5. Rows' = Rows \cup {created'}
    BY <1>2, <1>3, <1>4 DEF Rows
  <1>6. /\ Rows' \subseteq 1..created' /\ 1..created \subseteq 1..created'
        /\ 0..created \subseteq 0..created'
    BY <1>1, <1>2, <1>5 DEF Tables
  <1>7. \A i \in Rows' : projects'[i].slug \in Slugs
    BY <1>1, <1>3, <1>4, <1>5 DEF Tables, Rows
  <1>8. deploys' \subseteq [project : Rows', trigger : Triggers, signer : 0..created']
    BY <1>1, <1>5, <1>6 DEF Insert, Tables
  <1> QED
    BY <1>1, <1>2, <1>3, <1>6, <1>7, <1>8, BoundsAssumption DEF Insert, Tables, Ids, historyVars

LEMMA UpdateTables ==
  ASSUME TypeInv, NEW r \in Request, Update(r)
  PROVE  Tables' /\ Rows' = Rows
  <1> DEFINE i == req[r].id
  <1>1. Tables /\ req[r] \in RequestType
    BY TypeInvParts
  <1>2. CASE i \in Rows /\ projects' = [projects EXCEPT ![i].enabled = ~req[r].enabled]
             /\ flips' = [flips EXCEPT ![i] = ~@]
    <2>1. i \in Ids /\ req[r].enabled \in BOOLEAN
      BY <1>1, <1>2 DEF Rows, RequestType
    <2>2. \A j \in Ids : /\ projects'[j].slug = projects[j].slug
                         /\ j # i => projects'[j] = projects[j]
      BY <1>1, <1>2, <2>1 DEF Tables
    <2>3. projects' \in [Ids -> [slug : Slugs \cup {"none"}, enabled : BOOLEAN]]
      <3>1. projects[i] \in [slug : Slugs \cup {"none"}, enabled : BOOLEAN]
        BY <1>1, <2>1 DEF Tables
      <3>2. [projects[i] EXCEPT !.enabled = ~req[r].enabled]
              \in [slug : Slugs \cup {"none"}, enabled : BOOLEAN]
        BY <2>1, <3>1
      <3> QED
        BY <1>1, <1>2, <2>1, <3>2 DEF Tables
    <2>4. Rows' = Rows
      <3>1. projects[i].slug # "none" /\ projects'[i].slug = projects[i].slug
        BY <1>1, <1>2, <2>1, <2>2, NoneAssumption DEF Tables
      <3>2. projects'[i] # NoRow
        BY <3>1 DEF NoRow
      <3> QED
        BY <1>2, <2>2, <3>2 DEF Rows
    <2>5. flips' \in [Ids -> BOOLEAN]
      BY <1>1, <1>2, <2>1 DEF Tables
    <2> QED
      BY <1>1, <2>2, <2>3, <2>4, <2>5 DEF Update, Tables, Rows
  <1>3. CASE UNCHANGED <<projects, flips>>
    BY <1>1, <1>3 DEF Update, Tables, Rows
  <1> QED
    BY <1>2, <1>3 DEF Update

LEMMA DeleteTables ==
  ASSUME TypeInv, NEW r \in Request, Delete(r)
  PROVE  Tables' /\ Rows' = Rows \ {req[r].id}
  <1> DEFINE i == req[r].id
  <1>1. Tables /\ i \in Ids
    BY TypeInvParts DEF Delete, At, Placed, RequestType
  <1>2. projects' = [projects EXCEPT ![i] = NoRow]
    BY DEF Delete
  <1>3. /\ projects' \in [Ids -> [slug : Slugs \cup {"none"}, enabled : BOOLEAN]]
        /\ \A j \in Ids : projects'[j] = IF j = i THEN NoRow ELSE projects[j]
    BY <1>1, <1>2 DEF Tables, NoRow
  <1>4. Rows' = Rows \ {i}
    BY <1>3 DEF Rows
  <1>5. deploys' \subseteq [project : Rows', trigger : Triggers, signer : 0..created]
    BY <1>1, <1>4 DEF Delete, Tables
  <1> QED
    BY <1>1, <1>3, <1>4, <1>5 DEF Delete, Tables, historyVars, Rows

LEMMA EnqueueTables ==
  ASSUME TypeInv, NEW r \in Request, Enqueue(r)
  PROVE  Tables' /\ Rows' = Rows
  <1>1. Tables /\ req[r] \in RequestType /\ Placed(r) /\ created \in Nat
    BY TypeInvParts, CreatedIsNat
  <1>2. Rows' = Rows /\ UNCHANGED <<projects, created, rate, windows, flips, overlapped>>
    BY DEF Enqueue, Rows
  <1>3. CASE UNCHANGED <<deploys, queued>>
    BY <1>1, <1>2, <1>3 DEF Tables
  <1>4. CASE ~UNCHANGED <<deploys, queued>>
    <2>1. /\ req[r].trigger \in Triggers /\ req[r].id \in Rows
          /\ deploys' = deploys \cup
               {[project |-> req[r].id, trigger |-> req[r].trigger, signer |-> req[r].signer]}
          /\ queued' = IF req[r].op = "hook" THEN [queued EXCEPT ![req[r].slug] = @ + 1]
                       ELSE queued
      BY <1>4 DEF Enqueue
    <2>2. req[r].signer \in 0..created
      BY <1>1 DEF RequestType, Placed, Ids, NoId
    <2>3. queued' \in [Hooked -> Nat]
      BY <1>1, <2>1 DEF Tables, Placed
    <2> QED
      BY <1>1, <1>2, <2>1, <2>2, <2>3 DEF Tables
  <1> QED
    BY <1>3, <1>4

LEMMA VerifyTables ==
  ASSUME TypeInv, NEW r \in Request, Verify(r)
  PROVE  Tables' /\ Rows' = Rows
  <1> DEFINE s == req[r].slug
             c == Counted(s)
  <1>1. Tables /\ s \in Hooked
    BY TypeInvParts DEF Verify, At, Placed
  <1>2. Rows' = Rows /\ UNCHANGED <<dbVars, queued, flips, overlapped>>
    BY DEF Verify, Rows, dbVars
  <1>3. rate[s].count \in 0..Limit + 1 /\ rate[s].over \in BOOLEAN /\ windows[s] \in 1..MaxWindow
    BY <1>1 DEF Tables
  <1>4. c.count > Limit + 1 \/ c \in [count : 0..Limit + 1, over : BOOLEAN]
    BY <1>3, BoundsAssumption DEF Counted
  <1>5. rate' \in [Hooked -> [count : 0..Limit + 1, over : BOOLEAN]]
    BY <1>1, <1>3, <1>4 DEF Verify, Tables
  <1>6. windows' \in [Hooked -> 1..MaxWindow]
    BY <1>1, <1>3, BoundsAssumption DEF Verify, Tables
  <1> QED
    BY <1>1, <1>2, <1>5, <1>6 DEF Tables, dbVars

LEMMA LimiterTables ==
  ASSUME TypeInv, Restart \/ \E s \in Hooked : WindowOver(s)
  PROVE  Tables' /\ Rows' = Rows
  <1>1. Tables
    BY TypeInvParts
  <1>2. CASE Restart
    BY <1>1, <1>2, BoundsAssumption DEF Restart, Tables, dbVars, Rows
  <1>3. ASSUME NEW s \in Hooked, WindowOver(s) PROVE Tables' /\ Rows' = Rows
    <2>1. rate' \in [Hooked -> [count : 0..Limit + 1, over : BOOLEAN]]
      BY <1>1, <1>3 DEF WindowOver, Tables
    <2> QED
      BY <1>1, <1>3, <2>1 DEF WindowOver, Tables, dbVars, historyVars, Rows
  <1> QED
    BY <1>2, <1>3

\* Reads leave the tables alone; Find notes that two toggles overlap.
LEMMA ReadTables ==
  ASSUME TypeInv, NEW r \in Request,
         \/ AskCreate(r) \/ Ask(r) \/ Exists(r) \/ Find(r) \/ Created(r) \/ Dropped(r)
         \/ Insert(r) /\ Done(r) /\ UNCHANGED <<projects, created>>
  PROVE  Tables' /\ Rows' = Rows
  <1>1. Tables /\ UNCHANGED <<dbVars, rate, queued, windows, flips>>
    BY TypeInvParts
       DEF AskCreate, Ask, Exists, Find, Created, Dropped, Insert, historyVars, dbVars
  <1>2. overlapped' \in [Ids -> BOOLEAN]
    BY <1>1 DEF AskCreate, Ask, Exists, Find, Created, Dropped, Insert, historyVars, Tables
  <1> QED
    BY <1>1, <1>2 DEF Tables, dbVars, Rows

LEMMA NextTypeInv ==
  ASSUME TypeInv, [Next]_vars
  PROVE  TypeInv'
  <1>1. ASSUME NEW r \in Request, Moves(r), created' \in created..MaxProject, Tables'
        PROVE  TypeInv'
    <2>1. created' \in Nat /\ created <= created'
      BY <1>1, CreatedIsNat, BoundsAssumption
    <2>2. req' \in [Request -> RequestType] /\ \A q \in Request : Placed(q)'
      BY <1>1, <2>1, RequestsTyped
    <2>3. RequestType' = RequestType
      BY DEF RequestType
    <2> QED
      BY <1>1, <2>2, <2>3, TypeInvPrimed
  <1>2. created \in created..MaxProject
    BY CreatedIsNat, BoundsAssumption DEF TypeInv, TypeOK
  <1>3. ASSUME NEW r \in Request, AskCreate(r) \/ Ask(r) PROVE TypeInv'
    <2>1. created' = created
      BY <1>3 DEF AskCreate, Ask, dbVars
    <2> QED
      BY <1>1, <1>2, <1>3, <2>1, StartMoves, ReadTables
  <1>4. ASSUME NEW r \in Request, Exists(r) \/ Insert(r) PROVE TypeInv'
    BY <1>1, <1>4, RegistrationMoves, ReadTables, InsertTables DEF Insert
  <1>5. ASSUME NEW r \in Request,
               Find(r) \/ Update(r) \/ Delete(r) \/ Created(r) \/ Dropped(r)
        PROVE  TypeInv'
    BY <1>1, <1>2, <1>5, HandlerMoves, ReadTables, UpdateTables, DeleteTables
  <1>6. ASSUME NEW r \in Request, Enqueue(r) \/ Verify(r) PROVE TypeInv'
    BY <1>1, <1>2, <1>6, QueueMoves, EnqueueTables, VerifyTables
  <1>7. CASE Restart
    <2>1. req' \in [Request -> RequestType]
      BY <1>7 DEF Restart, RequestType, Idle, NoId
    <2>2. \A r \in Request : Placed(r)'
      BY <1>7, CreatedIsNat DEF Restart, Placed, At, Idle, NoId, dbVars
    <2> QED
      BY <1>7, <2>1, <2>2, LimiterTables, TypeInvPrimed
  <1>8. CASE \E s \in Hooked : WindowOver(s)
    <2>1. req' = req /\ req \in [Request -> RequestType] /\ created' = created
      BY <1>8 DEF WindowOver, dbVars, TypeInv
    <2>2. \A r \in Request : Placed(r)'
      BY <2>1 DEF TypeInv, Placed, At
    <2> QED
      BY <1>8, <2>1, <2>2, LimiterTables, TypeInvPrimed
  <1>9. CASE UNCHANGED vars
    BY <1>9 DEF vars, dbVars, historyVars, TypeInv, TypeOK, RequestType, Placed, At, Rows
  <1> QED
    BY <1>3, <1>4, <1>5, <1>6, <1>7, <1>8, <1>9 DEF Next

\* The tables, the limiter's counts and the requests keep their types: a deploy
\* is of a project that is there, a count never passes the limit by more than
\* one, and a handler holds what its step reads (the schema, webhooks.rs:27).
THEOREM TypeCorrect == Spec => []TypeOK
  <1>1. Spec => []TypeInv
    BY InitTypeInv, NextTypeInv, PTL DEF Spec
  <1>2. TypeInv => TypeOK
    BY DEF TypeInv
  <1> QED
    BY <1>1, <1>2, PTL

--------------------------------------------------------------------------------
(* Slugs                                                                       *)

\* What a step does to the slugs of the projects: they stay, go, or one is
\* added that no project has.
LEMMA SlugsOfStep ==
  ASSUME TypeInv, [Next]_vars
  PROVE  \/ /\ Rows' \subseteq Rows /\ created' = created
            /\ \A i \in Rows' : projects'[i].slug = projects[i].slug
         \/ \E r \in Request :
              /\ Insert(r) /\ Inserted(r) /\ Named(req[r].slug) = {}
              /\ created \in Nat /\ created' = created + 1
              /\ Rows' = Rows \cup {created'} /\ created' \notin Rows
              /\ projects'[created'].slug = req[r].slug
              /\ \A i \in Rows : projects'[i].slug = projects[i].slug
  <1>1. Tables /\ req \in [Request -> RequestType] /\ created \in Nat
    BY TypeInvParts, CreatedIsNat
  <1>2. ASSUME UNCHANGED <<projects, created>>
        PROVE  /\ Rows' \subseteq Rows /\ created' = created
               /\ \A i \in Rows' : projects'[i].slug = projects[i].slug
    BY <1>2 DEF Rows
  <1>3. ASSUME NEW r \in Request, Update(r)
        PROVE  /\ Rows' \subseteq Rows /\ created' = created
               /\ \A i \in Rows' : projects'[i].slug = projects[i].slug
    <2>1. Rows' = Rows
      BY <1>3, UpdateTables
    <2>2. \A i \in Ids : projects'[i].slug = projects[i].slug
      BY <1>1, <1>3 DEF Update, Tables
    <2> QED
      BY <1>3, <2>1, <2>2 DEF Update, Rows
  <1>4. ASSUME NEW r \in Request, Delete(r)
        PROVE  /\ Rows' \subseteq Rows /\ created' = created
               /\ \A i \in Rows' : projects'[i].slug = projects[i].slug
    <2>1. Rows' = Rows \ {req[r].id}
      BY <1>4, DeleteTables
    <2> QED
      BY <1>1, <1>4, <2>1 DEF Delete, Rows, Tables
  <1>5. ASSUME NEW r \in Request, Insert(r), Inserted(r), Named(req[r].slug) = {},
               created < MaxProject
        PROVE  /\ created' = created + 1
               /\ Rows' = Rows \cup {created'} /\ created' \notin Rows
               /\ projects'[created'].slug = req[r].slug
               /\ \A i \in Rows : projects'[i].slug = projects[i].slug
    <2> DEFINE new == [slug |-> req[r].slug, enabled |-> TRUE]
    <2>1. /\ created' = created + 1 /\ created' \in Ids
          /\ projects' = [projects EXCEPT ![created'] = new]
      BY <1>1, <1>5, BoundsAssumption DEF Inserted, Ids
    <2>2. /\ projects'[created'] = new
          /\ \A i \in Ids \ {created'} : projects'[i] = projects[i]
      BY <1>1, <2>1 DEF Tables
    <2>3. new # NoRow /\ created' \notin Rows
      <3>1. req[r].slug # "none"
        BY <1>5, NoneAssumption DEF TypeInv, Placed, Insert, At
      <3>2. created' \notin Rows
        BY <1>1, <2>1 DEF Tables
      <3> QED
        BY <3>1, <3>2 DEF NoRow
    <2> QED
      BY <2>1, <2>2, <2>3 DEF Rows
  <1>6. ASSUME NEW r \in Request,
               \/ AskCreate(r) \/ Exists(r) \/ Created(r) \/ Ask(r) \/ Find(r) \/ Enqueue(r)
               \/ Verify(r) \/ Dropped(r)
        PROVE  UNCHANGED <<projects, created>>
    BY <1>6 DEF AskCreate, Exists, Created, Ask, Find, Enqueue, Verify, Dropped, dbVars
  <1>7. ASSUME Restart \/ (\E s \in Hooked : WindowOver(s)) \/ UNCHANGED vars
        PROVE  UNCHANGED <<projects, created>>
    BY <1>7 DEF Restart, WindowOver, vars, dbVars
  <1> QED
    BY <1>1, <1>2, <1>3, <1>4, <1>5, <1>6, <1>7 DEF Next, Insert

--------------------------------------------------------------------------------
(* Deliveries                                                                  *)

\* The steps of one request, and what all of them have in common.
RequestStep(r) ==
  \/ AskCreate(r) \/ Exists(r) \/ Insert(r) \/ Created(r)
  \/ Ask(r) \/ Find(r) \/ Update(r) \/ Delete(r) \/ Enqueue(r)
  \/ Verify(r) \/ Dropped(r)

LEMMA StepMoves ==
  ASSUME TypeInv, NEW r \in Request, RequestStep(r)
  PROVE  Moves(r)
  BY StartMoves, RegistrationMoves, HandlerMoves, QueueMoves DEF RequestStep

\* A step that is of no request ends them all, or none.
LEMMA OtherSteps ==
  ASSUME [Next]_vars
  PROVE  \/ \E r \in Request : RequestStep(r)
         \/ Restart
         \/ /\ UNCHANGED <<dbVars, req, historyVars>>
            /\ \/ UNCHANGED rate
               \/ \E s \in Hooked : WindowOver(s)
  BY DEF Next, RequestStep, WindowOver, vars

\* What require_project gives a handler to go on with.
Finds(r, i) ==
  req' = [req EXCEPT ![r].id = i, ![r].enabled = req[r].op = "toggle" /\ projects[i].enabled,
               ![r].trigger = IF req[r].op = "manual" THEN "manual" ELSE "none",
               ![r].pc = CASE req[r].op = "toggle" -> "update"
                           [] req[r].op = "remove" -> "delete"
                           [] req[r].op = "hook"   -> "verify"
                           [] OTHER                -> "enqueue"]
FindsFields(r, i) ==
  /\ req'[r].id = i /\ req'[r].op = req[r].op /\ req'[r].slug = req[r].slug
  /\ req[r].op = "toggle" => req'[r].enabled = projects[i].enabled
  /\ req'[r].trigger \in {"manual", "none"}
  /\ req'[r].pc = CASE req[r].op = "toggle" -> "update"
                    [] req[r].op = "remove" -> "delete"
                    [] req[r].op = "hook"   -> "verify"
                    [] OTHER                -> "enqueue"

LEMMA FindLeads ==
  ASSUME TypeInv, NEW r \in Request, NEW i \in Ids, Finds(r, i)
  PROVE  FindsFields(r, i)
  <1>1. req \in [Request -> RequestType] /\ projects[i].enabled \in BOOLEAN
    BY DEF TypeInv, TypeOK
  <1> QED
    BY <1>1 DEF Finds, FindsFields, RequestType

\* Where the request of a step may be when it is about to queue a deploy.
LEMMA ReachesEnqueue ==
  ASSUME TypeInv, NEW r \in Request, RequestStep(r), At(r, "enqueue")'
  PROVE  \/ Insert(r) /\ Inserted(r) /\ req'[r].trigger = "initial" /\ req'[r].op = "create"
         \/ Find(r) /\ req'[r].trigger \in {"manual", "none"} /\ req'[r].op = "manual"
         \/ /\ Verify(r) /\ ~Limited(Counted(req[r].slug)) /\ req'[r].signer = req'[r].id
            /\ req'[r].op = "hook" /\ req'[r].slug = req[r].slug
  <1>1. req \in [Request -> RequestType] /\ Placed(r)
    BY DEF TypeInv
  <1>2. CASE AskCreate(r) \/ Ask(r) \/ Exists(r)
    <2>1. CASE AskCreate(r)
      BY <1>1, <2>1 DEF AskCreate, At, Idle
    <2>2. CASE Ask(r)
      BY <1>1, <2>2 DEF Ask, At, Idle
    <2>3. CASE Exists(r)
      <3>1. req'[r].pc \in {"exists", "insert"}
        BY <1>1, <2>3 DEF Exists, At, RequestType
      <3> QED
        BY <3>1 DEF At
    <2> QED
      BY <1>2, <2>1, <2>2, <2>3
  <1>3. CASE Done(r)
    BY <1>1, <1>3 DEF Done, At, Idle
  <1>4. CASE Goto(r, "created")
    BY <1>1, <1>4 DEF Goto, At
  <1>5. CASE Insert(r) /\ Inserted(r)
    BY <1>1, <1>5 DEF Insert, Inserted, At, Placed, RequestType
  <1>6. CASE Find(r) /\ ~Done(r)
    <2>1. PICK i \in Ids : Finds(r, i)
      BY <1>6 DEF Find, Finds
    <2>2. FindsFields(r, i)
      BY <1>6, <2>1, FindLeads
    <2>3. req[r].op \in {"manual", "toggle", "remove", "hook"} /\ req'[r].pc = "enqueue"
      BY <1>1, <1>6 DEF At, Find, Placed
    <2>4. req'[r].op = "manual"
      BY <2>2, <2>3 DEF FindsFields
    <2> QED
      BY <1>6, <2>2, <2>4 DEF FindsFields
  <1>7. CASE Verify(r) /\ ~Done(r)
    BY <1>1, <1>7 DEF Verify, Accepted, At, Placed, RequestType
  <1> QED
    BY <1>2, <1>3, <1>4, <1>5, <1>6, <1>7
       DEF RequestStep, Insert, Created, Find, Update, Delete, Enqueue, Verify, Dropped

LEMMA SignedStep ==
  ASSUME TypeInv, SignedInv, [Next]_vars
  PROVE  SignedInv'
  <1>1. ASSUME NEW r \in Request, RequestStep(r) PROVE SignedInv'
    <2>1. \A q \in Request \ {r} : req'[q] = req[q]
      BY <1>1, StepMoves DEF Moves
    <2>2. At(r, "enqueue")' /\ req'[r].trigger \in {"webhook_github", "webhook_plain"} =>
            req'[r].signer = req'[r].id
      BY <1>1, ReachesEnqueue
    <2> QED
      BY <2>1, <2>2 DEF SignedInv, At
  <1>2. CASE Restart
    BY <1>2 DEF Restart, SignedInv, At, Idle
  <1>3. CASE UNCHANGED req
    BY <1>3 DEF SignedInv, At
  <1> QED
    BY <1>1, <1>2, <1>3, OtherSteps

\* A row is queued by Enqueue only; nothing else adds to the table.
LEMMA DeliveryStep ==
  ASSUME SignedInv, DeliveryMatchesProject, [Next]_vars
  PROVE  DeliveryMatchesProject'
  <1>1. ASSUME NEW r \in Request, Enqueue(r) PROVE DeliveryMatchesProject'
    <2>1. At(r, "enqueue")
          /\ (\/ deploys' = deploys
              \/ deploys' = deploys \cup
                   {[project |-> req[r].id, trigger |-> req[r].trigger, signer |-> req[r].signer]})
      BY <1>1 DEF Enqueue
    <2> QED
      BY <2>1 DEF SignedInv, DeliveryMatchesProject
  <1>2. ASSUME NEW r \in Request, Delete(r) PROVE DeliveryMatchesProject'
    BY <1>2 DEF Delete, DeliveryMatchesProject
  <1>3. CASE deploys' = deploys
    BY <1>3 DEF DeliveryMatchesProject
  <1>4. ASSUME NEW r \in Request, RequestStep(r), ~Enqueue(r), ~Delete(r)
        PROVE  deploys' = deploys
    BY <1>4 DEF RequestStep, AskCreate, Exists, Insert, Created, Ask, Find, Update, Verify,
                Dropped, dbVars
  <1> QED
    BY <1>1, <1>2, <1>3, <1>4, OtherSteps DEF Restart, dbVars

\* A deploy that a delivery queued is one of the project that signed it, however
\* often the slug changed hands while the delivery was handled
\* (webhooks.rs:92-180).
THEOREM DeliveriesMatch == Spec => []DeliveryMatchesProject
  <1>1. Init => SignedInv /\ DeliveryMatchesProject
    BY DEF Init, SignedInv, DeliveryMatchesProject, At, Idle
  <1> QED
    BY <1>1, InitTypeInv, NextTypeInv, SignedStep, DeliveryStep, PTL DEF Spec

--------------------------------------------------------------------------------
(* Registrations that fail                                                     *)

LEMMA RaceStep ==
  ASSUME TypeInv, RaceInv, [Next]_vars
  PROVE  RaceInv'
  <1>1. Tables /\ created \in Nat /\ req \in [Request -> RequestType]
        /\ \A q \in Request : Placed(q)
    BY TypeInvParts, CreatedIsNat
  \* Whoever waits to insert without a step of its own.
  <1>2. ASSUME NEW q \in Request, At(q, "insert"), NEW i \in Rows',
               projects'[i].slug = req[q].slug
        PROVE  req[q].since < i
    <2>1. CASE /\ Rows' \subseteq Rows
               /\ \A j \in Rows' : projects'[j].slug = projects[j].slug
      BY <1>2, <2>1 DEF RaceInv
    <2>2. CASE /\ created' = created + 1 /\ Rows' = Rows \cup {created'}
               /\ \A j \in Rows : projects'[j].slug = projects[j].slug
      <3>1. req[q].since \in Nat /\ req[q].since <= created
        BY <1>1 DEF RequestType, Placed
      <3>2. CASE i \in Rows
        BY <1>2, <2>2, <3>2 DEF RaceInv
      <3> QED
        BY <1>1, <1>2, <2>2, <3>1, <3>2
    <2> QED
      BY <2>1, <2>2, SlugsOfStep
  <1>3. ASSUME NEW r \in Request, RequestStep(r), At(r, "insert")'
        PROVE  Exists(r) /\ \A i \in Rows' : projects'[i].slug # req'[r].slug
    <2>1. CASE AskCreate(r) \/ Ask(r)
      <3>1. req'[r].pc \in {"exists", "find"}
        BY <1>1, <2>1 DEF AskCreate, Ask, Idle
      <3> QED
        BY <1>3, <3>1 DEF At
    <2>2. CASE Exists(r)
      <3>1. req'[r].slug = Candidates[req[r].folder][req[r].try]
            /\ Named(Candidates[req[r].folder][req[r].try]) = {}
        BY <1>1, <1>3, <2>2 DEF Exists, At, RequestType
      <3>2. projects' = projects
        BY <2>2 DEF Exists, dbVars
      <3> QED
        BY <2>2, <3>1, <3>2 DEF Named, Rows
    <2>3. CASE Done(r)
      BY <1>1, <1>3, <2>3 DEF Done, At, Idle
    <2>4. CASE Goto(r, "created")
      BY <1>1, <1>3, <2>4 DEF Goto, At
    <2>5. CASE Insert(r) /\ Inserted(r)
      BY <1>1, <1>3, <2>5 DEF Inserted, At, RequestType
    <2>6. CASE Find(r) /\ ~Done(r)
      <3>1. req'[r].pc \in {"update", "delete", "verify", "enqueue"}
        BY <2>6, FindLeads DEF Find, Finds, FindsFields
      <3> QED
        BY <1>3, <3>1 DEF At
    <2>7. CASE Verify(r) /\ ~Done(r)
      BY <1>1, <1>3, <2>7 DEF Verify, At, RequestType
    <2> QED
      BY <1>3, <2>1, <2>2, <2>3, <2>4, <2>5, <2>6, <2>7
         DEF RequestStep, Insert, Created, Find, Update, Delete, Enqueue, Verify, Dropped
  <1>4. ASSUME NEW r \in Request, RequestStep(r) PROVE RaceInv'
    <2>1. \A q \in Request \ {r} : req'[q] = req[q]
      BY <1>4, StepMoves DEF Moves
    <2>2. \A q \in Request \ {r} : At(q, "insert")' =>
            \A i \in Rows' : projects'[i].slug = req'[q].slug => req'[q].since < i
      BY <1>2, <2>1 DEF At
    <2>3. At(r, "insert")' =>
            \A i \in Rows' : projects'[i].slug = req'[r].slug => req'[r].since < i
      BY <1>3, <1>4
    <2> QED
      BY <2>2, <2>3 DEF RaceInv
  <1>5. CASE Restart
    BY <1>5 DEF Restart, RaceInv, At, Idle
  <1>6. CASE UNCHANGED <<dbVars, req, historyVars>>
    BY <1>6 DEF RaceInv, At, Rows, dbVars
  <1> QED
    BY <1>4, <1>5, <1>6, OtherSteps

\* The INSERT is refused only to a registration that another one overtook: one
\* that is alone gets the slug it was told is free (models/project.rs:59-86).
THEOREM RegistrationFailsWhenRaced == Spec => FailsOnlyWhenRaced
  <1>1. Init => RaceInv
    BY DEF Init, RaceInv, At, Idle
  <1>2. TypeInv /\ RaceInv =>
          \A r \in Request :
            req[r].pc = "insert" /\ Named(req[r].slug) # {} => created > req[r].since
    <2> SUFFICES ASSUME TypeInv, RaceInv, NEW r \in Request, req[r].pc = "insert",
                        NEW i \in Named(req[r].slug)
                 PROVE  created > req[r].since
      OBVIOUS
    <2>1. req[r].since \in Nat /\ created \in Nat /\ i \in 1..created
      BY CreatedIsNat DEF TypeInv, TypeOK, RequestType, Named
    <2>2. req[r].since < i
      BY DEF RaceInv, At, Named
    <2> QED
      BY <2>1, <2>2
  <1>3. Spec => [](TypeInv /\ RaceInv)
    BY <1>1, InitTypeInv, NextTypeInv, RaceStep, PTL DEF Spec
  <1>4. Spec => [][\A r \in Request :
          req[r].pc = "insert" /\ Named(req[r].slug) # {} => created > req[r].since]_vars
    BY <1>2, <1>3, PTL
  <1> QED
    BY <1>4 DEF FailsOnlyWhenRaced

--------------------------------------------------------------------------------
(* Toggles                                                                     *)

\* Only require_project brings a toggle to its write, and it notes the others
\* that hold the same row.
LEMMA ReachesUpdate ==
  ASSUME TypeInv, ToggleInv, NEW r \in Request, RequestStep(r),
         \/ At(r, "update")'
         \/ req'[r].op = "toggle" /\ req'[r].id # NoId
  PROVE  \E i \in Rows :
           /\ Find(r) /\ FindsFields(r, i) /\ At(r, "update")'
           /\ overlapped' = IF Other(r, i) # {} THEN [overlapped EXCEPT ![i] = TRUE]
                            ELSE overlapped
  <1>1. req \in [Request -> RequestType] /\ Placed(r)
    BY DEF TypeInv
  <1>2. CASE Find(r) /\ ~Done(r)
    <2>1. PICK i \in Ids :
            /\ Found(r, i) /\ Finds(r, i)
            /\ overlapped' = IF req[r].op = "toggle" /\ Other(r, i) # {}
                             THEN [overlapped EXCEPT ![i] = TRUE] ELSE overlapped
      BY <1>2 DEF Find, Finds
    <2>2. FindsFields(r, i) /\ i \in Rows /\ req[r].op \in {"manual", "toggle", "remove", "hook"}
      BY <1>1, <1>2, <2>1, FindLeads DEF Found, Named, Find, Placed
    <2>3. req[r].op = "toggle"
      BY <2>2 DEF FindsFields, At
    <2>4. At(r, "update")'
      BY <2>2, <2>3 DEF FindsFields, At
    <2> QED
      BY <1>2, <2>1, <2>2, <2>3, <2>4
  <1>3. CASE Done(r)
    BY <1>1, <1>3 DEF Done, Idle, NoId, At
  <1>4. CASE AskCreate(r)
    BY <1>1, <1>4 DEF AskCreate, Idle, NoId, At
  <1>5. CASE Ask(r)
    BY <1>1, <1>5 DEF Ask, Idle, NoId, At
  <1>6. CASE Exists(r) \/ (Insert(r) /\ Inserted(r))
    <2>1. req'[r].op = req[r].op /\ req[r].op = "create" /\ req'[r].pc # "update"
      BY <1>1, <1>6 DEF Exists, Insert, Inserted, Placed, At, RequestType
    <2> QED
      BY <2>1 DEF At
  <1>7. CASE Goto(r, "created") /\ At(r, "enqueue")
    <2>1. req'[r] = [req[r] EXCEPT !.pc = "created"]
      BY <1>1, <1>7 DEF Goto
    <2>2. req'[r].op = req[r].op /\ req'[r].id = req[r].id /\ req'[r].pc = "created"
          /\ req[r].pc = "enqueue"
      BY <1>1, <1>7, <2>1 DEF RequestType, At
    <2> QED
      BY <2>2 DEF ToggleInv, At
  <1>8. CASE Verify(r) /\ ~Done(r)
    <2>1. req'[r].op = req[r].op /\ req[r].op = "hook" /\ req'[r].pc = "enqueue"
      BY <1>1, <1>8 DEF Verify, Placed, At, RequestType
    <2> QED
      BY <2>1 DEF At
  <1>9. Created(r) \/ Update(r) \/ Delete(r) \/ Dropped(r) => Done(r)
    BY DEF Created, Update, Delete, Dropped
  <1>10. /\ Insert(r) => Inserted(r) \/ Done(r)
         /\ Enqueue(r) => At(r, "enqueue") /\ (Goto(r, "created") \/ Done(r))
    BY DEF Insert, Enqueue
  <1> QED
    BY <1>2, <1>3, <1>4, <1>5, <1>6, <1>7, <1>8, <1>9, <1>10 DEF RequestStep

\* A step that writes no flag and registers nothing.
LEMMA FlagsStay ==
  ASSUME TypeInv, NEW r \in Request, RequestStep(r), ~Update(r),
         ~(Insert(r) /\ Inserted(r))
  PROVE  /\ UNCHANGED <<created, flips>> /\ Rows' \subseteq Rows
         /\ \A i \in Rows' : projects'[i] = projects[i]
         /\ ~Find(r) => overlapped' = overlapped
  <1>1. CASE Delete(r)
    <2>1. Rows' = Rows \ {req[r].id} /\ Tables
      BY <1>1, DeleteTables, TypeInvParts
    <2>2. \A i \in Rows' : projects'[i] = projects[i]
      BY <1>1, <2>1 DEF Delete, Rows, Tables
    <2> QED
      BY <1>1, <2>1, <2>2 DEF Delete, historyVars
  <1>2. CASE ~Delete(r)
    <2>1. UNCHANGED <<created, flips, projects>>
      BY <1>2 DEF RequestStep, AskCreate, Exists, Insert, Created, Ask, Find, Enqueue, Verify,
                  Dropped, dbVars, historyVars
    <2>2. ~Find(r) => overlapped' = overlapped
      BY <1>2 DEF RequestStep, AskCreate, Exists, Insert, Created, Ask, Enqueue, Verify,
                  Dropped, dbVars, historyVars
    <2> QED
      BY <2>1, <2>2 DEF Rows
  <1> QED
    BY <1>1, <1>2

LEMMA UpdateToggles ==
  ASSUME TypeInv, ToggleInv, EnabledIsParity, NEW r \in Request, Update(r)
  PROVE  ToggleInv' /\ EnabledIsParity'
  <1> DEFINE i == req[r].id
  <1>1. Tables /\ req \in [Request -> RequestType] /\ Rows' = Rows /\ At(r, "update")
        /\ i \in Ids /\ i <= created /\ req[r].enabled \in BOOLEAN /\ created \in Nat
    BY UpdateTables, TypeInvParts, CreatedIsNat DEF Update, Placed, RequestType, At
  <1>2. /\ req'[r] = Idle /\ \A q \in Request \ {r} : req'[q] = req[q]
        /\ created' = created /\ overlapped' = overlapped
    BY <1>1 DEF Update, Done
  <1>3. \A j \in Ids : j # i => projects'[j] = projects[j] /\ flips'[j] = flips[j]
    BY <1>1 DEF Update, Tables
  <1>4. /\ flips' = flips \/ (i \in Rows /\ flips' = [flips EXCEPT ![i] = ~@])
    BY DEF Update
  <1>5. ToggleInv'
    <2>1. \A j \in Ids : created' < j => ~flips'[j]
      BY <1>1, <1>2, <1>3 DEF ToggleInv, Ids
    <2>2. \A q \in Request :
            req'[q].op = "toggle" /\ req'[q].id # NoId => At(q, "update")'
      BY <1>2 DEF ToggleInv, At, Idle, NoId
    <2>3. \A p, q \in Request :
            p # q /\ At(p, "update")' /\ At(q, "update")' /\ req'[p].id = req'[q].id =>
              overlapped'[req'[p].id]
      BY <1>2 DEF ToggleInv, At, Idle
    <2>4. ASSUME NEW q \in Request, At(q, "update")', req'[q].id \in Rows',
                 ~overlapped'[req'[q].id]
          PROVE  req'[q].enabled = projects'[req'[q].id].enabled
      <3>1. q # r /\ req'[q] = req[q] /\ At(q, "update") /\ req[q].id \in Rows
            /\ ~overlapped[req[q].id]
        BY <1>1, <1>2, <2>4 DEF At, Idle
      <3>2. req[q].id # i
        BY <1>1, <3>1 DEF ToggleInv
      <3>3. projects'[req[q].id] = projects[req[q].id]
        BY <1>3, <3>1, <3>2 DEF Rows
      <3> QED
        BY <3>1, <3>3 DEF ToggleInv
    <2> QED
      BY <2>1, <2>2, <2>3, <2>4 DEF ToggleInv
  <1>6. ASSUME NEW j \in Rows', ~overlapped'[j]
        PROVE  projects'[j].enabled = ~flips'[j]
    <2>1. j \in Rows /\ j \in Ids /\ ~overlapped[j]
      BY <1>1, <1>2, <1>6 DEF Rows
    <2>2. CASE j # i
      BY <1>3, <2>1, <2>2 DEF EnabledIsParity
    <2>3. CASE j = i
      <3>1. /\ projects' = [projects EXCEPT ![i].enabled = ~req[r].enabled]
            /\ flips' = [flips EXCEPT ![i] = ~@]
        BY <2>1, <2>3 DEF Update
      <3>2. projects'[i].enabled = ~req[r].enabled /\ flips'[i] = ~flips[i]
        BY <1>1, <3>1 DEF Tables
      <3>3. req[r].enabled = projects[i].enabled /\ projects[i].enabled = ~flips[i]
        BY <1>1, <2>1, <2>3 DEF ToggleInv, EnabledIsParity
      <3> QED
        BY <2>3, <3>2, <3>3
    <2> QED
      BY <2>2, <2>3
  <1> QED
    BY <1>5, <1>6 DEF EnabledIsParity

LEMMA InsertToggles ==
  ASSUME TypeInv, ToggleInv, EnabledIsParity, NEW r \in Request, Insert(r), Inserted(r),
         created < MaxProject
  PROVE  ToggleInv' /\ EnabledIsParity'
  <1>1. Tables /\ req \in [Request -> RequestType] /\ created \in Nat
        /\ \A q \in Request : Placed(q)
    BY TypeInvParts, CreatedIsNat
  <1>2. /\ created' = created + 1 /\ created' \in Ids /\ created' \notin Rows
        /\ flips' = flips /\ overlapped' = overlapped
    BY <1>1, BoundsAssumption DEF Insert, Inserted, Tables, Ids, historyVars
  <1>3. /\ projects'[created'].enabled = TRUE
        /\ \A i \in Ids \ {created'} : projects'[i] = projects[i]
    BY <1>1, <1>2 DEF Inserted, Tables
  <1>4. /\ req'[r].pc = "enqueue" /\ req'[r].op = "create"
        /\ \A q \in Request \ {r} : req'[q] = req[q]
    BY <1>1 DEF Insert, Inserted, Placed, At, RequestType
  <1>5. ToggleInv'
    <2>1. \A j \in Ids : created' < j => ~flips'[j]
      BY <1>1, <1>2 DEF ToggleInv, Ids
    <2>2. \A q \in Request :
            req'[q].op = "toggle" /\ req'[q].id # NoId => At(q, "update")'
      BY <1>4 DEF ToggleInv, At
    <2>3. \A p, q \in Request :
            p # q /\ At(p, "update")' /\ At(q, "update")' /\ req'[p].id = req'[q].id =>
              overlapped'[req'[p].id]
      BY <1>2, <1>4 DEF ToggleInv, At
    <2>4. ASSUME NEW q \in Request, At(q, "update")', req'[q].id \in Rows',
                 ~overlapped'[req'[q].id]
          PROVE  req'[q].enabled = projects'[req'[q].id].enabled
      <3>1. q # r /\ req'[q] = req[q] /\ At(q, "update")
        BY <1>4, <2>4 DEF At
      <3>2. req[q].id \in Ids /\ req[q].id # created'
        BY <1>1, <1>2, <2>4, <3>1 DEF Placed, Rows, RequestType
      <3> QED
        BY <1>2, <1>3, <2>4, <3>1, <3>2 DEF ToggleInv, Rows
    <2> QED
      BY <2>1, <2>2, <2>3, <2>4 DEF ToggleInv
  <1>6. ASSUME NEW j \in Rows', ~overlapped'[j]
        PROVE  projects'[j].enabled = ~flips'[j]
    <2>1. CASE j = created'
      <3>1. created < created' /\ ~flips[created']
        BY <1>1, <1>2 DEF ToggleInv
      <3> QED
        BY <1>2, <1>3, <2>1, <3>1
    <2>2. CASE j # created'
      BY <1>2, <1>3, <1>6, <2>2 DEF EnabledIsParity, Rows
    <2> QED
      BY <2>1, <2>2
  <1> QED
    BY <1>5, <1>6 DEF EnabledIsParity

LEMMA QuietToggles ==
  ASSUME TypeInv, ToggleInv, EnabledIsParity, NEW r \in Request, RequestStep(r), ~Update(r),
         ~(Insert(r) /\ Inserted(r))
  PROVE  ToggleInv' /\ EnabledIsParity'
  <1>1. /\ created' = created /\ flips' = flips /\ Rows' \subseteq Rows
        /\ \A i \in Rows' : projects'[i] = projects[i]
        /\ \A q \in Request \ {r} : req'[q] = req[q]
    BY FlagsStay, StepMoves DEF Moves
  <1>2. Tables
    BY TypeInvParts
  <1>3. CASE ~(At(r, "update")' \/ (req'[r].op = "toggle" /\ req'[r].id # NoId))
    <2>1. \A i \in Ids : overlapped[i] => overlapped'[i]
      BY <1>2, FlagsStay DEF Find, Tables
    <2>2. \A q \in Request : At(q, "update")' => q # r /\ req'[q] = req[q] /\ At(q, "update")
          /\ req[q].id \in Ids
      BY <1>1, <1>3 DEF At, TypeInv, Placed, RequestType
    <2>3. ToggleInv'
      BY <1>1, <1>3, <2>1, <2>2 DEF ToggleInv, At
    <2>4. EnabledIsParity'
      BY <1>1, <2>1 DEF EnabledIsParity, Rows
    <2> QED
      BY <2>3, <2>4
  <1>4. CASE At(r, "update")' \/ (req'[r].op = "toggle" /\ req'[r].id # NoId)
    <2>1. PICK i \in Rows :
            /\ Find(r) /\ FindsFields(r, i) /\ At(r, "update")'
            /\ overlapped' = IF Other(r, i) # {} THEN [overlapped EXCEPT ![i] = TRUE]
                             ELSE overlapped
      BY <1>4, ReachesUpdate
    <2>2. req'[r].id = i /\ i \in Ids /\ ~Update(r)
          /\ (At(r, "update")' => req'[r].enabled = projects[i].enabled)
      BY <2>1, <1>2 DEF FindsFields, Rows, At
    <2>3. \A j \in Ids : overlapped[j] => overlapped'[j]
      BY <1>2, <2>1 DEF Tables
    <2>4. \A q \in Request \ {r} : At(q, "update") /\ req[q].id = i => overlapped'[i]
      <3> SUFFICES ASSUME NEW q \in Request \ {r}, At(q, "update"), req[q].id = i
                   PROVE  overlapped'[i]
        OBVIOUS
      <3>1. q \in Other(r, i)
        BY DEF Other, TypeInv, Placed, At
      <3> QED
        BY <1>2, <2>1, <2>2, <3>1 DEF Tables
    <2>5. \A j \in Ids : created' < j => ~flips'[j]
      BY <1>1 DEF ToggleInv
    <2>6. \A q \in Request :
            req'[q].op = "toggle" /\ req'[q].id # NoId => At(q, "update")'
      BY <1>1, <2>1 DEF ToggleInv, At
    <2>7. \A p, q \in Request :
            p # q /\ At(p, "update")' /\ At(q, "update")' /\ req'[p].id = req'[q].id =>
              overlapped'[req'[p].id]
      <3>1. \A q \in Request \ {r} :
              At(q, "update")' => At(q, "update") /\ req'[q].id = req[q].id /\ req[q].id \in Ids
        BY <1>1 DEF At, TypeInv, Placed, RequestType
      <3> QED
        BY <2>2, <2>3, <2>4, <3>1 DEF ToggleInv
    <2>8. \A q \in Request :
            At(q, "update")' /\ req'[q].id \in Rows' /\ ~overlapped'[req'[q].id] =>
              req'[q].enabled = projects'[req'[q].id].enabled
      BY <1>1, <2>2, <2>3 DEF ToggleInv, At, Rows
    <2>9. EnabledIsParity'
      BY <1>1, <2>3 DEF EnabledIsParity, Rows
    <2> QED
      BY <2>5, <2>6, <2>7, <2>8, <2>9 DEF ToggleInv
  <1> QED
    BY <1>3, <1>4

LEMMA ToggleStep ==
  ASSUME TypeInv, ToggleInv, EnabledIsParity, [Next]_vars
  PROVE  ToggleInv' /\ EnabledIsParity'
  <1>1. ASSUME NEW r \in Request, RequestStep(r) PROVE ToggleInv' /\ EnabledIsParity'
    <2>1. Insert(r) /\ Inserted(r) => created < MaxProject
      BY CreatedIsNat DEF Insert, Inserted
    <2> QED
      BY <1>1, <2>1, UpdateToggles, InsertToggles, QuietToggles
  <1>2. CASE Restart
    BY <1>2 DEF Restart, ToggleInv, EnabledIsParity, At, Idle, NoId, Rows, dbVars
  <1>3. CASE UNCHANGED <<dbVars, req, historyVars>>
    BY <1>3 DEF ToggleInv, EnabledIsParity, At, Rows, dbVars, historyVars
  <1> QED
    BY <1>1, <1>2, <1>3, OtherSteps

\* Toggles that do not overlap are never lost, whatever else happens to the row
\* and to the handlers between their read and their write
\* (routes/projects.rs:485-500).
THEOREM TogglesCount == Spec => []EnabledIsParity
  <1>1. Init => ToggleInv /\ EnabledIsParity
    BY DEF Init, ToggleInv, EnabledIsParity, At, Idle, NoId, Rows, NoRow
  <1> QED
    BY <1>1, InitTypeInv, NextTypeInv, ToggleStep, PTL DEF Spec

--------------------------------------------------------------------------------
(* The limiter                                                                 *)

\* One request more or less past the limiter.
LEMMA PassedCount ==
  ASSUME NEW s \in Hooked, NEW r \in Request,
         \A q \in Request \ {r} : q \in Passed(s)' <=> q \in Passed(s)
  PROVE  /\ Cardinality(Passed(s)) \in Nat /\ Cardinality(Passed(s)') \in Nat
         /\ r \in Passed(s) => r \in Passed(s)' \/ Cardinality(Passed(s)') = Cardinality(Passed(s)) - 1
         /\ r \notin Passed(s) => Cardinality(Passed(s)') <= Cardinality(Passed(s)) + 1
         /\ (r \in Passed(s)' <=> r \in Passed(s)) => Cardinality(Passed(s)') = Cardinality(Passed(s))
         /\ r \notin Passed(s)' => Cardinality(Passed(s)') <= Cardinality(Passed(s))
  <1>1. /\ Passed(s) \subseteq Request /\ IsFiniteSet(Passed(s))
        /\ Passed(s)' \subseteq Request /\ IsFiniteSet(Passed(s)')
    BY FS_Subset, BoundsAssumption DEF Passed
  <1>2. Cardinality(Passed(s)) \in Nat /\ Cardinality(Passed(s)') \in Nat
    BY <1>1, FS_CardinalityType
  <1>3. CASE r \in Passed(s) /\ r \notin Passed(s)'
    <2>1. Passed(s)' = Passed(s) \ {r}
      BY <1>1, <1>3
    <2> QED
      BY <1>1, <1>2, <1>3, <2>1, FS_RemoveElement
  <1>4. CASE r \notin Passed(s) /\ r \in Passed(s)'
    <2>1. Passed(s)' = Passed(s) \cup {r}
      BY <1>1, <1>4
    <2> QED
      BY <1>1, <1>2, <1>4, <2>1, FS_AddElement
  <1>5. CASE r \in Passed(s)' <=> r \in Passed(s)
    <2>1. Passed(s)' = Passed(s)
      BY <1>1, <1>5
    <2> QED
      BY <1>2, <1>5, <2>1
  <1> QED
    BY <1>3, <1>4, <1>5

\* What the windows of a slug have let pass; a new one adds to it, even when the
\* one before was used up.
Budget(s) == Limit * (windows[s] - 1) + Counting(s)

LEMMA WindowAdds ==
  ASSUME NEW w \in Nat \ {0}
  PROVE  Limit * w = Limit * (w - 1) + Limit /\ Limit * (w - 1) \in Nat
  BY BoundsAssumption

LEMMA BudgetType ==
  ASSUME TypeInv, NEW s \in Hooked
  PROVE  /\ windows[s] \in Nat \ {0} /\ queued[s] \in Nat
         /\ rate[s].count \in 0..Limit + 1 /\ rate[s].over \in BOOLEAN
         /\ Counting(s) \in 0..Limit
         /\ Budget(s) \in Nat /\ Budget(s) <= Limit * windows[s] /\ Limit * windows[s] \in Nat
  <1>1. /\ windows[s] \in Nat \ {0} /\ queued[s] \in Nat
        /\ rate[s].count \in 0..Limit + 1 /\ rate[s].over \in BOOLEAN
    BY TypeInvParts, BoundsAssumption DEF Tables
  <1>2. Counting(s) \in 0..Limit
    BY <1>1, BoundsAssumption DEF Counting
  <1>3. Limit * windows[s] = Limit * (windows[s] - 1) + Limit /\ Limit * (windows[s] - 1) \in Nat
    BY <1>1, WindowAdds
  <1> QED
    BY <1>1, <1>2, <1>3, BoundsAssumption DEF Budget

\* The limiter pays for what it lets pass, in the slug's window or with a new one.
LEMMA VerifyBudget ==
  ASSUME TypeInv, NEW r \in Request, Verify(r), NEW s \in Hooked
  PROVE  /\ Budget(s)' \in Nat /\ Budget(s) <= Budget(s)'
         /\ s = req[r].slug /\ ~Limited(Counted(s)) => Budget(s) + 1 <= Budget(s)'
  <1>1. /\ windows[s] \in Nat \ {0} /\ rate[s].count \in 0..Limit + 1 /\ Counting(s) \in 0..Limit
        /\ Limit \in Nat \ {0}
        /\ Limit * windows[s] = Limit * (windows[s] - 1) + Limit /\ Limit * (windows[s] - 1) \in Nat
    BY BudgetType, WindowAdds, BoundsAssumption
  <1>2. Tables /\ Counted(s).count \in Nat
    BY <1>1, TypeInvParts DEF Counted
  <1>3. CASE s # req[r].slug
    <2>1. rate'[s] = rate[s] /\ windows'[s] = windows[s]
      BY <1>2, <1>3 DEF Verify, Tables
    <2> QED
      BY <1>1, <1>3, <2>1 DEF Budget, Counting
  <1>4. CASE s = req[r].slug /\ rate[s].over
    <2>1. Counted(s) = [count |-> 1, over |-> FALSE]
      BY <1>4 DEF Counted
    <2>2. rate'[s].count = 1 /\ windows'[s] = windows[s] + 1
      BY <1>1, <1>2, <1>4, <2>1 DEF Verify, Tables
    <2>3. Budget(s)' = Limit * windows[s] + 1
      <3>1. windows'[s] - 1 = windows[s]
        BY <1>1, <2>2
      <3>2. Counting(s)' = 1
        BY <1>1, <2>2 DEF Counting
      <3> QED
        BY <3>1, <3>2 DEF Budget
    <2> QED
      BY <1>1, <2>3 DEF Budget
  <1>5. CASE s = req[r].slug /\ ~rate[s].over
    <2>1. Counted(s).count = rate[s].count + 1
      BY <1>5 DEF Counted
    <2>2. windows'[s] = windows[s]
          /\ rate'[s].count = IF rate[s].count + 1 > Limit + 1 THEN rate[s].count
                              ELSE rate[s].count + 1
      BY <1>2, <1>5, <2>1 DEF Verify, Tables
    <2>3. /\ Counting(s)' \in Nat /\ Counting(s) <= Counting(s)'
          /\ ~Limited(Counted(s)) => Counting(s) + 1 <= Counting(s)'
      BY <1>1, <2>1, <2>2 DEF Counting, Limited
    <2> QED
      BY <1>1, <2>2, <2>3 DEF Budget
  <1> QED
    BY <1>3, <1>4, <1>5

LEMMA LimitStep ==
  ASSUME TypeInv, LimitInv, [Next]_vars
  PROVE  LimitInv'
  <1> SUFFICES ASSUME NEW s \in Hooked
               PROVE  queued'[s] + Cardinality(Passed(s)') <= Budget(s)'
    BY DEF LimitInv, Budget
  <1>1. /\ queued[s] + Cardinality(Passed(s)) <= Budget(s) /\ queued[s] \in Nat
        /\ Budget(s) \in Nat
    BY BudgetType DEF LimitInv, Budget
  <1>2. ASSUME NEW r \in Request, RequestStep(r)
        PROVE  queued'[s] + Cardinality(Passed(s)') <= Budget(s)'
    <2>1. \A q \in Request \ {r} : q \in Passed(s)' <=> q \in Passed(s)
      BY <1>2, StepMoves DEF Moves, Passed, At
    <2>2. CASE Verify(r)
      <3>1. r \notin Passed(s) /\ queued' = queued
        BY <2>2 DEF Verify, Passed, At
      <3>2. CASE r \in Passed(s)'
        <4>1. At(r, "enqueue")' /\ req'[r].slug = s
          BY <3>2 DEF Passed, At
        <4>2. s = req[r].slug /\ ~Limited(Counted(s))
          BY <1>2, <2>2, <4>1, ReachesEnqueue DEF Insert, Find, Verify, At
        <4> QED
          BY <1>1, <2>1, <2>2, <3>1, <4>2, PassedCount, VerifyBudget
      <3>3. CASE r \notin Passed(s)'
        BY <1>1, <2>1, <2>2, <3>1, <3>3, PassedCount, VerifyBudget
      <3> QED
        BY <3>2, <3>3
    <2>3. CASE Enqueue(r)
      <3>1. Budget(s)' = Budget(s) /\ At(r, "enqueue")
        BY <2>3 DEF Enqueue, Budget, Counting
      <3>2. r \notin Passed(s)'
        <4>1. Goto(r, "created") \/ Done(r)
          BY <2>3 DEF Enqueue
        <4>2. req \in [Request -> RequestType]
          BY DEF TypeInv
        <4>3. CASE Goto(r, "created")
          <5>1. req'[r] = [req[r] EXCEPT !.pc = "created"]
            BY <1>2, <4>2, <4>3 DEF Goto
          <5>2. req[r] \in RequestType
            BY <1>2, <4>2
          <5>3. req'[r].pc = "created"
            BY <5>1, <5>2 DEF RequestType
          <5> QED
            BY <5>3 DEF Passed, At
        <4>4. CASE Done(r)
          <5>1. req'[r] = Idle
            BY <1>2, <4>2, <4>4 DEF Done
          <5> QED
            BY <5>1 DEF Passed, At, Idle
        <4> QED
          BY <4>1, <4>3, <4>4
      <3>3. CASE queued' = queued
        BY <1>1, <2>1, <3>1, <3>2, <3>3, PassedCount
      <3>4. CASE req[r].op = "hook" /\ queued' = [queued EXCEPT ![req[r].slug] = @ + 1]
        <4>1. CASE req[r].slug = s
          <5>1. r \in Passed(s) /\ queued'[s] = queued[s] + 1
            BY <3>1, <3>4, <4>1, TypeInvParts DEF Passed, Tables
          <5> QED
            BY <1>1, <2>1, <3>1, <3>2, <5>1, PassedCount
        <4>2. CASE req[r].slug # s
          <5>1. queued'[s] = queued[s]
            BY <3>4, <4>2, TypeInvParts DEF Tables
          <5> QED
            BY <1>1, <2>1, <3>1, <3>2, <5>1, PassedCount
        <4> QED
          BY <4>1, <4>2
      <3> QED
        BY <2>3, <3>3, <3>4 DEF Enqueue
    <2>4. CASE ~Verify(r) /\ ~Enqueue(r)
      <3>1. UNCHANGED <<rate, queued, windows>>
        BY <1>2, <2>4 DEF RequestStep, AskCreate, Exists, Insert, Created, Ask, Find, Update,
                          Delete, Dropped, historyVars
      <3>2. r \notin Passed(s)'
        <4> SUFFICES ASSUME At(r, "enqueue")', req'[r].op = "hook" PROVE FALSE
          BY DEF Passed, At
        <4> QED
          BY <1>2, <2>4, ReachesEnqueue
      <3> QED
        BY <1>1, <2>1, <3>1, <3>2, PassedCount DEF Budget, Counting
    <2> QED
      BY <2>2, <2>3, <2>4
  <1>3. CASE Restart
    <2>1. Passed(s)' = {} /\ queued' = queued
      BY <1>3 DEF Restart, Passed, At, Idle
    <2>2. rate'[s].count = 0 /\ windows'[s] = windows[s] + 1
      BY <1>3 DEF Restart
    <2>3. Limit * windows[s] \in Nat /\ windows[s] \in Nat /\ Budget(s) <= Limit * windows[s]
      BY BudgetType
    <2>4. Counting(s)' = 0
      BY <2>2, BoundsAssumption DEF Counting
    <2>5. windows'[s] - 1 = windows[s]
      BY <2>2, <2>3
    <2>6. Budget(s)' = Limit * windows[s]
      BY <2>3, <2>4, <2>5 DEF Budget
    <2>7. Cardinality(Passed(s)') = 0 /\ Cardinality(Passed(s)) \in Nat
      BY <2>1, FS_EmptySet, FS_Subset, FS_CardinalityType, BoundsAssumption DEF Passed
    <2> QED
      BY <1>1, <2>1, <2>3, <2>6, <2>7
  <1>4. CASE UNCHANGED <<dbVars, req, historyVars>> /\ \E t \in Hooked : WindowOver(t)
    <2>1. Passed(s)' = Passed(s) /\ queued' = queued /\ windows' = windows
      BY <1>4 DEF Passed, At, historyVars
    <2>2. rate'[s].count = rate[s].count
      BY <1>4, TypeInvParts DEF WindowOver, Tables
    <2> QED
      BY <1>1, <2>1, <2>2 DEF Budget, Counting
  <1>5. CASE UNCHANGED <<dbVars, req, historyVars>> /\ UNCHANGED rate
    BY <1>1, <1>5 DEF Passed, At, historyVars, Budget, Counting
  <1> QED
    BY <1>2, <1>3, <1>4, <1>5, OtherSteps

\* Whatever reaches the queue, and in whichever window it does: the deliveries of
\* a slug queue no more than the limit for each window it had (webhooks.rs:27).
THEOREM LimiterHolds == Spec => []QueuedWithinLimit
  <1>1. Init => LimitInv
    <2> SUFFICES ASSUME Init, NEW s \in Hooked
                 PROVE  queued[s] + Cardinality(Passed(s)) <= Budget(s)
      BY DEF LimitInv, Budget
    <2>1. Passed(s) = {} /\ queued[s] = 0 /\ windows[s] = 1 /\ rate[s].count = 0
      BY DEF Init, Passed, At, Idle
    <2> QED
      BY <2>1, FS_EmptySet, BoundsAssumption DEF Budget, Counting
  <1>2. TypeInv /\ LimitInv => QueuedWithinLimit
    <2> SUFFICES ASSUME TypeInv, LimitInv, NEW s \in Hooked
                 PROVE  queued[s] <= Limit * windows[s]
      BY DEF QueuedWithinLimit
    <2>1. queued[s] + Cardinality(Passed(s)) <= Budget(s)
      BY DEF LimitInv, Budget
    <2>2. Cardinality(Passed(s)) \in Nat
      BY FS_Subset, FS_CardinalityType, BoundsAssumption DEF Passed
    <2> QED
      BY <2>1, <2>2, BudgetType
  <1> QED
    BY <1>1, <1>2, InitTypeInv, NextTypeInv, LimitStep, PTL DEF Spec

===============================================================================
