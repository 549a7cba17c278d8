------------------------------ MODULE MCWallet ------------------------------
(* Wallet for TLC: symmetry over the calls. *)
EXTENDS Wallet, TLC
CallSymmetry == Permutations(Calls)
=============================================================================
