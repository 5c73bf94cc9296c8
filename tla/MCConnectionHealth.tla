------------------------- MODULE MCConnectionHealth -------------------------
(* Small instances of ConnectionHealth for TLC.                            *)
EXTENDS ConnectionHealth, TLC

Symmetry == Permutations(Call)

(* Of the user's operations only the reset, which takes leases away.       *)
NoSettings == op.type = "none"
=============================================================================
