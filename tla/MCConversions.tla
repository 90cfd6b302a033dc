--------------------------- MODULE MCConversions ---------------------------
(* Lead conversions on one lead, for TLC. *)
EXTENDS Conversions
=============================================================================
