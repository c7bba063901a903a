--------------------------- MODULE MCTransaction ---------------------------
(***************************************************************************)
(* Two command processes, three operations, two contents of the tracked    *)
(* records.                                                                *)
(***************************************************************************)
EXTENDS Transaction, TLC

CONSTANTS p1, p2

MCProcess == {p1, p2}
Processes == Permutations(MCProcess)
============================================================================
