---------------------------- MODULE MCAllocation ----------------------------
(***************************************************************************)
(* Allocation for TLC: a new cycle beside one an earlier version left, a   *)
(* card of the new cycle, and a card whose author may put it in either     *)
(* cycle, on the same area or another, after the first card or not.        *)
(***************************************************************************)
EXTENDS Allocation, TLC

CONSTANTS c1, c2, new, old, x, y, Again

First == [cycle |-> new, scope |-> {x}, depends |-> {}]

MCDrafts ==
    c1 :> {First, [First EXCEPT !.depends = {c2}]}
    @@ c2 :> {[First EXCEPT !.scope = {y}],
              [First EXCEPT !.scope = {y}, !.depends = {c1}],
              [First EXCEPT !.cycle = old],
              [First EXCEPT !.cycle = old, !.scope = {y}]}

MCMaxRevisions == [card \in Cards |-> IF card \in Again THEN 2 ELSE 1]

\* The old cycle is sealed or abandoned where there is one card.
Products ==
    cycleStatus[old] \in {"sealed", "abandoned"} =>
        Cardinality({card \in Cards : Activated(card)}) <= 1
=============================================================================
