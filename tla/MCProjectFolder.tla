---------------------------- MODULE MCProjectFolder ----------------------------
(* Small instances of ProjectFolder for TLC.                                   *)
EXTENDS ProjectFolder

CONSTANTS p1, p2, web, db

================================================================================
