-------------------------- MODULE MCContactClicks --------------------------
(* A few clicks of a few visitors, for TLC. *)
EXTENDS ContactClicks, TLC

Symmetry == Permutations(Visitors) \cup Permutations(ClickIds)
=============================================================================
