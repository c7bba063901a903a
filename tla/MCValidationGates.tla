------------------------- MODULE MCValidationGates -------------------------
(***************************************************************************)
(* Instances of ValidationGates: two `gate run` processes on one card.     *)
(***************************************************************************)
EXTENDS ValidationGates, TLC

CONSTANTS p1, p2, c1, v1, v2

MCProcess == {p1, p2}
Symmetric == Permutations(MCProcess) \cup Permutations({v1, v2})
============================================================================
