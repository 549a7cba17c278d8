---------------------------- MODULE MCSettlement ----------------------------
(* Settlement for TLC: two bidders, and a participant who did not bid. *)
EXTENDS Settlement, TLC

CONSTANTS u1, u2, u3

MCBids == u1 :> 9 @@ u2 :> 8 @@ u3 :> 0
=============================================================================
