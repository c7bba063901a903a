---------------------------- MODULE MCPromotion ----------------------------
(***************************************************************************)
(* Instances of Promotion: two processes, an integration of two cards and  *)
(* one of a single card.                                                   *)
(***************************************************************************)
EXTENDS Promotion, TLC

CONSTANTS p1, p2, i1, i2, c1, c2, c3

MCProcess == {p1, p2}
MCIntegration == {i1, i2}
MCMembers == i1 :> {c1, c2} @@ i2 :> {c3}

\* A single integration of two cards.
OneIntegration == {i1}
OneMembers == i1 :> {c1, c2}

MCOpId == 1 .. MaxCalls + MaxFaults + 1
Processes == Permutations(MCProcess)
============================================================================
