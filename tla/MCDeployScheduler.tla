--------------------------- MODULE MCDeployScheduler ---------------------------
(* Small instances of DeployScheduler for TLC.                                 *)
EXTENDS DeployScheduler

CONSTANTS p1, p2

================================================================================
