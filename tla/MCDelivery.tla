----------------------------- MODULE MCDelivery -----------------------------
(***************************************************************************)
(* Delivery for TLC: a card with a card that depends on it, which may be   *)
(* revised; or a card alone, whose reviews find two things at one place.   *)
(***************************************************************************)
EXTENDS Delivery, TLC

CONSTANTS first, second, alone

Findings(open, still, settled) == [open |-> open, still |-> still, settled |-> settled]

MCScenarios == {{first, second}, {alone}}

MCDependsOn == [card \in Cards |-> IF card = second THEN {first} ELSE {}]

MCTallies ==
    [card \in Cards |->
        IF card = alone
        THEN {Findings(0, 0, 0), Findings(2, 0, 0), Findings(0, 1, 0),
              Findings(0, 0, 1), Findings(0, 1, 1), Findings(0, 0, 2)}
        ELSE {Findings(0, 0, 0)}]

MCMaxRevisions == [card \in Cards |-> IF card = second THEN 2 ELSE 1]
MCMaxHandoffs == [card \in Cards |-> IF card = second THEN 1 ELSE 2]
MCMaxReviews == first :> 2 @@ second :> 1 @@ alone :> 3
=============================================================================
