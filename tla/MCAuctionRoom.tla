---------------------------- MODULE MCAuctionRoom ----------------------------
(* AuctionRoom for TLC: symmetry over the calls of each kind. *)
EXTENDS AuctionRoom, TLC
CallSymmetry == Permutations(Requests) \cup Permutations(Controls)
=============================================================================
