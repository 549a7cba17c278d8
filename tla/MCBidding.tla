------------------------------ MODULE MCBidding ------------------------------
(* Bidding for TLC: symmetry over the calls of placeBid. *)
EXTENDS Bidding, TLC
RequestSymmetry == Permutations(Requests)
=============================================================================
