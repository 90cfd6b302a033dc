--------------------------- MODULE MCSlugRegistry ---------------------------
(* The slug registry over two tables, for TLC. *)
EXTENDS SlugRegistry, TLC

CONSTANTS e1, e2, e3, kindA, kindB

\* e1 and e2 share a table, e3 lives in another.
MCEntities == {e1, e2, e3}
MCKinds == {kindA, kindB}
MCKind == [e \in MCEntities |-> IF e = e3 THEN kindB ELSE kindA]

Symmetry == Permutations(Slugs) \cup Permutations(Txs) \cup Permutations({e1, e2})
=============================================================================
