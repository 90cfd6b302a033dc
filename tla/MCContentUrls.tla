--------------------------- MODULE MCContentUrls ---------------------------
(* A small site of content pages, for TLC. *)
EXTENDS ContentUrls, TLC

Symmetry == Permutations(Paths) \cup Permutations(Contents)
=============================================================================
