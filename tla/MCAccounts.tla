----------------------------- MODULE MCAccounts -----------------------------
(* Accounts for TLC: symmetry over the requests. *)
EXTENDS Accounts, TLC
CallSymmetry == Permutations(Calls)
=============================================================================
