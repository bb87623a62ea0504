---------------------------- MODULE DeployLifecycle ----------------------------
(* What the deploy pipeline promises about the rows a user sees, without its   *)
(* queues, workers or program counters.  A row moves forward only and is never *)
(* touched again once terminal; a project runs one deploy at a time and the    *)
(* host at most `cap`; a deploy that runs is never cancelled, only the process *)
(* or a storage error can make the runner walk away from it; a row that does   *)
(* not run may be rejected (coalesced, or its project is gone).                *)
EXTENDS DeployRow, Naturals, FiniteSets

CONSTANTS Projects, NoProject, DeployIds, Caps

VARIABLES status, owner, running, cap

vars == <<status, owner, running, cap>>

Idle == [p \in Projects |-> 0]
Runners == {p \in Projects : running[p] # 0}

Init ==
  /\ status = [i \in DeployIds |-> "none"]
  /\ owner = [i \in DeployIds |-> NoProject]
  /\ running = Idle
  /\ cap = 0

\* A trigger inserts a fresh row.
Create(i, p) ==
  /\ status[i] = "none" /\ \A q \in Projects : running[q] # i
  /\ status' = [status EXCEPT ![i] = "queued"]
  /\ owner' = [owner EXCEPT ![i] = p]
  /\ UNCHANGED <<running, cap>>

\* A deploy starts only when its project is idle and the host has room.
Start(i, p) ==
  /\ running[p] = 0 /\ Cardinality(Runners) < cap
  /\ owner[i] = p /\ status[i] \in {"queued", "none"}
  /\ running' = [running EXCEPT ![p] = i]
  /\ UNCHANGED <<status, owner, cap>>

Advance(p) ==
  /\ running[p] # 0 /\ status[running[p]] \in DOMAIN NextStatus
  /\ status' = [status EXCEPT ![running[p]] = NextStatus[@]]
  /\ UNCHANGED <<owner, running, cap>>

Finish(p) ==
  /\ running[p] # 0
  /\ \E s \in {"succeeded", "failed"} :
       /\ s = "succeeded" => status[running[p]] = "healthy"
       /\ InFlight(status[running[p]])
       /\ status' = [status EXCEPT ![running[p]] = s]
  /\ running' = [running EXCEPT ![p] = 0]
  /\ UNCHANGED <<owner, cap>>

\* The runner leaves a row where it is: a storage error, or the row is gone.
WalkAway(p) ==
  /\ running[p] # 0
  /\ running' = [running EXCEPT ![p] = 0]
  /\ UNCHANGED <<status, owner, cap>>

\* A queued row that nobody runs is closed without having run.
Reject(i) ==
  /\ status[i] = "queued" /\ \A p \in Projects : running[p] # i
  /\ status' = [status EXCEPT ![i] = "failed"]
  /\ UNCHANGED <<owner, running, cap>>

RemoveProject(p) ==
  /\ status' = [i \in DeployIds |-> IF owner[i] = p THEN "none" ELSE status[i]]
  /\ UNCHANGED <<owner, running, cap>>

Stop ==
  /\ running' = Idle /\ cap' = 0
  /\ UNCHANGED <<status, owner>>

\* After a stop, the interrupted rows are closed before anything can run.
Recover ==
  /\ cap = 0 /\ running = Idle
  /\ status' = [i \in DeployIds |->
                  IF status[i] \in Recovered THEN "failed" ELSE status[i]]
  /\ UNCHANGED <<owner, running, cap>>

Open ==
  /\ cap = 0 /\ running = Idle
  /\ cap' \in Caps
  /\ UNCHANGED <<status, owner, running>>

Next ==
  \/ \E i \in DeployIds, p \in Projects : Create(i, p) \/ Start(i, p)
  \/ \E p \in Projects : Advance(p) \/ Finish(p) \/ WalkAway(p) \/ RemoveProject(p)
  \/ \E i \in DeployIds : Reject(i)
  \/ Stop \/ Recover \/ Open

Spec == Init /\ [][Next]_vars
================================================================================
