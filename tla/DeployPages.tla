----------------------------- MODULE DeployPages ------------------------------
(* GET /deployments: the list of deploys, newest first, PER_PAGE at a time by  *)
(* LIMIT and OFFSET, walked with its "older" links while deploys are queued    *)
(* and projects are removed (routes/deployments.rs, models/deploy.rs and the   *)
(* template).                                                                  *)
EXTENDS Integers, Sequences, FiniteSets

CONSTANTS
  PerPage,      \* PER_PAGE
  MaxDeploy     \* bound: deploys ever queued

VARIABLES
  rows,         \* the deploys as ORDER BY started_at DESC gives them
  inserted,     \* deploys ever queued
  walk,         \* the walk from the newest page to the oldest
  gaps          \* history: a row went away, or a query failed, during the walk

table == <<rows, inserted>>
vars == <<table, walk, gaps>>

RowsIn(s) == {s[i] : i \in DOMAIN s}

\* total: what the count said; seen: what the pages so far showed; start: the
\* rows that there were when the walk began.
Idle == [pc |-> "idle", page |-> 1, total |-> 0, seen |-> {}, start |-> {}]

Init ==
  /\ rows = <<>> /\ inserted = 0
  /\ walk = Idle /\ gaps = FALSE

-------------------------------------------------------------------------------

\* create_deploy: started_at is the wall clock, which may have been set back.
Queue ==
  /\ inserted < MaxDeploy
  /\ inserted' = inserted + 1
  /\ \E i \in 0..Len(rows) :
       rows' = SubSeq(rows, 1, i) \o <<inserted'>> \o SubSeq(rows, i + 1, Len(rows))
  /\ UNCHANGED <<walk, gaps>>

\* The deploys of a project go with it; the others stay in their order.
RemoveProject ==
  /\ \E kept \in SUBSET DOMAIN rows :
       LET Nth(i) == CHOOSE j \in kept : Cardinality({k \in kept : k <= j}) = i IN
       kept # DOMAIN rows /\ rows' = [i \in 1..Cardinality(kept) |-> rows[Nth(i)]]
  /\ gaps' = TRUE
  /\ UNCHANGED <<inserted, walk>>

\* The first page; the walk may start again whenever somebody likes.
Open ==
  /\ walk' = [Idle EXCEPT !.pc = "list", !.start = RowsIn(rows)]
  /\ gaps' = FALSE
  /\ UNCHANGED table

Offset(page) == (page - 1) * PerPage
PageRows(page) ==
  {rows[i] : i \in {j \in DOMAIN rows : Offset(page) < j /\ j <= Offset(page) + PerPage}}

\* unwrap_or_default: an error of either query looks like an empty table.
List ==
  /\ walk.pc = "list"
  /\ \/ walk' = [walk EXCEPT !.pc = "count", !.seen = @ \cup PageRows(walk.page)]
        /\ UNCHANGED gaps
     \/ walk' = [walk EXCEPT !.pc = "count"] /\ gaps' = TRUE
  /\ UNCHANGED table

Count ==
  /\ walk.pc = "count"
  /\ \/ walk' = [walk EXCEPT !.pc = "page", !.total = Len(rows)] /\ UNCHANGED gaps
     \/ walk' = [walk EXCEPT !.pc = "page", !.total = 0] /\ gaps' = TRUE
  /\ UNCHANGED table

\* Mutant of TotalPages: the quotient is rounded down.
TotalPagesFloor(total) == total \div PerPage
TotalPages(total) == (total + PerPage - 1) \div PerPage
HasOlder == walk.page < TotalPages(walk.total)

Older ==
  /\ walk.pc = "page" /\ HasOlder
  /\ walk' = [walk EXCEPT !.pc = "list", !.page = @ + 1]
  /\ UNCHANGED <<table, gaps>>

Next == Queue \/ RemoveProject \/ Open \/ List \/ Count \/ Older

Spec == Init /\ [][Next]_vars

-------------------------------------------------------------------------------
(* Properties *)

TypeOK ==
  /\ rows \in Seq(1..MaxDeploy) /\ inserted \in 0..MaxDeploy
  /\ walk.pc \in {"idle", "list", "count", "page"} /\ walk.page \in 1..(MaxDeploy + 1)
  /\ walk.total \in 0..MaxDeploy
  /\ walk.seen \cup walk.start \subseteq 1..MaxDeploy
  /\ gaps \in BOOLEAN

\* A walk to the page without an "older" link shows every deploy that was there
\* when it began, however many are queued between its queries, which shift the
\* rows between the offsets and change the count that the link depends on
\* (routes/deployments.rs:33-40).  Rows skip the pages only when others are
\* removed meanwhile.
WalkSeesAll ==
  walk.pc = "page" /\ ~HasOlder /\ ~gaps => walk.start \subseteq walk.seen

===============================================================================
