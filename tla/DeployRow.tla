------------------------------- MODULE DeployRow -------------------------------
(* The status column of a row of the "deploys" table and what the rest of      *)
(* rusno derives from it.  "none" stands for the absence of the row: it was    *)
(* not inserted yet, or the removal of its project deleted it (the foreign     *)
(* key cascades, and AUTOINCREMENT never hands the id out again).              *)

Statuses ==
  {"queued", "pulling", "building", "starting", "healthy", "succeeded", "failed"}

Terminal(s) == s \in {"succeeded", "failed"}

InFlight(s) == s \in Statuses /\ ~Terminal(s)

\* The status run_deploy writes after s when nothing goes wrong.
NextStatus ==
  [s \in {"queued", "pulling", "building", "starting"} |->
     CASE s = "queued"   -> "pulling"
       [] s = "pulling"  -> "building"
       [] s = "building" -> "starting"
       [] s = "starting" -> "healthy"]

\* Mutant of Recovered: the health phase is forgotten.
RecoveredEarly == {"queued", "pulling", "building"}

\* What recover_crashed_deploys selects at startup; "healthy" is not listed.
Recovered == {"queued", "pulling", "building", "starting"}
================================================================================
