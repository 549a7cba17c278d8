--------------------------- MODULE MCSubscription ---------------------------
(* Subscription for TLC: symmetry over the webhook deliveries. *)
EXTENDS Subscription, TLC
HookSymmetry == Permutations(Hooks)
=============================================================================
