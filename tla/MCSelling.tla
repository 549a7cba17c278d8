----------------------------- MODULE MCSelling -----------------------------
(* Small instance of Selling for TLC. *)
EXTENDS Selling, TLC
CallSymmetry == Permutations(Calls)
=============================================================================
