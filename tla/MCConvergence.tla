--------------------------- MODULE MCConvergence ---------------------------
(***************************************************************************)
(* Two policies whose limits differ and a u32 that ends where the products *)
(* of the budgets do.                                                      *)
(***************************************************************************)
EXTENDS Convergence, TLC

CONSTANTS c1, c2, y1, y2, pA, pB, low, high

MCCards == {c1, c2}
MCCycles == {y1, y2}

\* A riskier card gets fewer attempts.
MCCardLimit ==
    [chosen \in Policies |-> [level \in Risks |->
        [dimension \in Dimensions |->
            IF chosen = pA /\ level = low /\ dimension # "repair_attempt" THEN 2 ELSE 1]]]

MCCycleLimit == [chosen \in Policies |-> 1]

\* Two cards share a cycle, or one card meets two cycles, of which one ends; a
\* cycle is sealed, a card declares failures and works without a policy where
\* there is no other card or cycle; a project without an authorizer or with
\* mutation exemptions is followed to its first cycle.
Placed == {card \in Cards : home[card] # None}
Begun == {cycle \in Cycles : Exists(cycle)}
In(status) == {cycle \in Cycles : cycleStatus[cycle] = status}
OneOfEach == Cardinality(Placed) <= 1 /\ Cardinality(Begun) <= 1
Declared == {i \in DOMAIN ledger : ledger[i].what = "gate_failure"}

Products ==
    /\ Begun # {} => authorization /\ ~exemption
    /\ Cardinality(Placed) <= 1 \/ Cardinality(Begun) <= 1
    /\ Cardinality(In("abandoned")) <= 1
    /\ policy = None \/ Declared # {} \/ In("sealed") # {} => OneOfEach

Symmetric == Permutations(Cards) \cup Permutations(Cycles)
============================================================================
