----------------------------- MODULE MCLiveRoom -----------------------------
(* Small instance of LiveRoom for TLC. *)
EXTENDS LiveRoom, TLC
CallSymmetry == Permutations(Calls)
=============================================================================
