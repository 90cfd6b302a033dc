----------------------------- MODULE MCAccounts -----------------------------
(* Two accounts, of which the first starts as an admin, for TLC. *)
EXTENDS Accounts, TLC

CONSTANTS u1, u2

MCUsers == {u1, u2}
MCGooglers == {u1}
MCInboxes == {u2}
MCTwoAdmins == u1 :> 2 @@ u2 :> 2
MCFirstRank == u1 :> 2 @@ u2 :> 0

Symmetry == Permutations(Requests)
=============================================================================
