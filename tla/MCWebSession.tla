---------------------------- MODULE MCWebSession ------------------------------
(* Small instances of WebSession for TLC.                                      *)
EXTENDS WebSession, TLC

CONSTANTS b1, r1, r2, s1, s2

\* Requests and secrets differ in their names only.
Symmetry == Permutations(Request) \cup Permutations(Secret)

\* Bound: what follows a second secret is explored with one session, what follows
\* a second session with one secret.
SecretsOrSessions == opened <= 1 \/ Cardinality(Known \ {None}) <= 1

===============================================================================
