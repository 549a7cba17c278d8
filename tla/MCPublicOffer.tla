---------------------------- MODULE MCPublicOffer ----------------------------
(* PublicOffer for TLC: two bidders, the deposit of u2's bid rounded to 0,  *)
(* and a participant who did not bid.                                       *)
EXTENDS PublicOffer, TLC

CONSTANTS u1, u2, u3

MCBids == u1 :> 9 @@ u2 :> 3 @@ u3 :> 0

PublicSymmetry == Permutations(Calls) \cup Permutations(PublicCalls)

\* Bound: calls that are made, with a failure and a crash counted as one each.
\* Five are a decline, and two buyers who both order and verify.
MostIncidents == 5
FewIncidents ==
    crashes + (IF failed THEN 1 ELSE 0)
        + Cardinality({ c \in Calls : ~CallAt(c, "idle") })
        + Cardinality({ c \in PublicCalls : ~PubAt(c, "idle") }) <= MostIncidents
=============================================================================
