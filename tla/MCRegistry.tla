------------------------------ MODULE MCRegistry ------------------------------
(* Small instances of Registry for TLC.                                        *)
EXTENDS Registry, TLC

CONSTANTS r1, r2

\* Two folders with one slug, as "Blog" and "blog".
SameSlug == "Blog" :> <<"blog", "blog-2">> @@ "blog" :> <<"blog", "blog-2">>
Symmetry == Permutations(Request)

===============================================================================
