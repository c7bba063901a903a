-------------------------- MODULE DependencyOrder --------------------------
(***************************************************************************)
(* The order in which the selected cards are merged: topological_order of  *)
(* domain/integration.rs. A card is its number, so that identifiers are    *)
(* ordered as the code orders them.                                        *)
(***************************************************************************)
EXTENDS Naturals, Sequences, FiniteSets, SequencesExt

\* Each time the first card, by identifier, all of whose dependencies inside
\* the selection have been ordered; when there is none the rest form a cycle
\* and the sequence stays short.
TopologicalOrder(cards, dependsOn) ==
    LET inside == [card \in cards |-> dependsOn[card] \cap cards]
        order[n \in 0 .. Cardinality(cards)] ==
            IF n = 0 THEN <<>>
            ELSE LET before == order[n - 1]
                     ready == {card \in cards \ ToSet(before) : inside[card] \subseteq ToSet(before)}
                 IN  IF ready = {} THEN before
                     ELSE Append(before, CHOOSE card \in ready : \A other \in ready : card <= other)
    IN  order[Cardinality(cards)]

Orders(cards, dependsOn) == Len(TopologicalOrder(cards, dependsOn)) = Cardinality(cards)
============================================================================
