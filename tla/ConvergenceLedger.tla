------------------------- MODULE ConvergenceLedger -------------------------
(***************************************************************************)
(* What policy/convergence.rs computes from the append-only facts of one   *)
(* cycle: the projection (`project`) and the two assessments read from it. *)
(*                                                                         *)
(* A fact is one convergence.attempt_recorded or                           *)
(* convergence.disposition_recorded event. Its identifier is its place in  *)
(* the ledger. Bindings that every command fills from the records it has   *)
(* just read (revision, digest, head, evidence, rationale) are left out,   *)
(* and a dimension is named by the attempt kind it counts. `subject` is a  *)
(* card, or None for a fact about the whole cycle.                         *)
(***************************************************************************)
EXTENDS Naturals, Sequences, FiniteSets, SequencesExt

CONSTANTS
    Cards, Cycles, Policies, Risks,
    None,           \* no card, no dimension, no policy
    MaxU32,         \* the largest u32
    CardLimit,      \* [Policies -> [Risks -> [Dimensions -> limit]]]
    CycleLimit      \* [Policies -> limit]

\* AttemptKind
AttemptKinds ==
    {"review_return", "repair_attempt", "gate_failure", "material_scope_revision",
     "integration_failure"}

\* CardDimension: what a disposition can name.
Dimensions == AttemptKinds \ {"integration_failure"}

\* DispositionKind
DispositionKinds == {"renew", "rebaseline", "abandon", "accept_risk", "split", "redesign"}

Reasons ==
    {"acceptance_defect", "regression", "security_concern", "scope_change",
     "integration_conflict", "non_blocking_improvement"}

\* AttemptKind::admits
Admits(kind) ==
    CASE kind = "review_return" ->
            {"acceptance_defect", "regression", "security_concern", "non_blocking_improvement"}
      [] kind = "repair_attempt" -> {"acceptance_defect", "regression", "security_concern"}
      [] kind = "gate_failure" -> {"regression", "security_concern"}
      [] kind = "material_scope_revision" -> {"scope_change"}
      [] kind = "integration_failure" -> {"integration_conflict"}

\* A validated policy grants at least one attempt of every kind.
ASSUME LedgerAssumption ==
    /\ MaxU32 \in Nat \ {0}
    /\ None \notin Cards \cup Cycles \cup Policies \cup Dimensions \cup Nat
    /\ CardLimit \in [Policies -> [Risks -> [Dimensions -> 1 .. MaxU32]]]
    /\ CycleLimit \in [Policies -> 1 .. MaxU32]

Subjects == Cards \cup {None}

AttemptFact(cycle, subject, kind, reason, policy) ==
    [what |-> kind, cycle |-> cycle, subject |-> subject, dimension |-> None,
     reason |-> reason, policy |-> policy, retires |-> None]

DispositionFact(cycle, subject, kind, dimension, policy, retires) ==
    [what |-> kind, cycle |-> cycle, subject |-> subject, dimension |-> dimension,
     reason |-> None, policy |-> policy, retires |-> retires]

\* What the event store can be handed.
Fact ==
    [what : AttemptKinds \cup DispositionKinds, cycle : Cycles, subject : Subjects,
     dimension : Dimensions \cup {None}, reason : Reasons \cup {None},
     policy : Policies, retires : Policies \cup {None}]

IsAttempt(fact) == fact.what \in AttemptKinds

-----------------------------------------------------------------------------
(***************************************************************************)
(* The projection as a statement about the set of a cycle's facts.         *)
(***************************************************************************)

FactsOf(ledger, cycle) == {i \in DOMAIN ledger : ledger[i].cycle = cycle}

RetiredPolicies(ledger, cycle) ==
    {ledger[i].retires : i \in {i \in FactsOf(ledger, cycle) : ledger[i].what = "rebaseline"}}

\* Every fact names the policy in force or one a rebaseline retired.
Accounted(fact, policy, retired) == fact.policy \in {policy} \cup retired

\* integration_failure and rebaseline are cycle-only, everything else is
\* bound to a card; an attempt declares a reason its kind admits.
WellBound(fact) ==
    /\ (fact.subject = None) <=> (fact.what \in {"integration_failure", "rebaseline"})
    /\ IsAttempt(fact) => fact.reason \in Admits(fact.what)
    /\ fact.what \in {"renew", "accept_risk", "split"} => fact.dimension \in Dimensions

CountedAttempts(ledger, cycle, policy, subject, kind) ==
    {i \in DOMAIN ledger :
        /\ ledger[i].what = kind
        /\ ledger[i].subject = subject
        /\ ledger[i].cycle = cycle
        /\ ledger[i].policy = policy}

CountedDispositions(ledger, cycle, policy, card, kinds, dimension) ==
    {i \in DOMAIN ledger :
        /\ ledger[i].what \in kinds
        /\ ledger[i].subject = card
        /\ ledger[i].cycle = cycle
        /\ ledger[i].dimension = dimension
        /\ ledger[i].policy = policy}

Attempts(ledger, cycle, policy, subject, kind) ==
    Cardinality(CountedAttempts(ledger, cycle, policy, subject, kind))

Renewals(ledger, cycle, policy, card, dimension) ==
    Cardinality(CountedDispositions(ledger, cycle, policy, card, {"renew"}, dimension))

Waived(ledger, cycle, policy, card, dimension) ==
    CountedDispositions(ledger, cycle, policy, card, {"accept_risk", "split"}, dimension) # {}

\* Otherwise `project` refuses the whole view of the cycle.
Readable(ledger, cycle, policy) ==
    LET retired == RetiredPolicies(ledger, cycle) IN
    /\ policy \notin retired
    /\ \A i \in FactsOf(ledger, cycle) :
          Accounted(ledger[i], policy, retired) /\ WellBound(ledger[i])
    /\ \/ Cardinality(FactsOf(ledger, cycle)) <= MaxU32
       \/ /\ \A subject \in Subjects, kind \in AttemptKinds :
                 Attempts(ledger, cycle, policy, subject, kind) <= MaxU32
          /\ \A card \in Cards, dimension \in Dimensions :
                 Renewals(ledger, cycle, policy, card, dimension) <= MaxU32

-----------------------------------------------------------------------------
(***************************************************************************)
(* The projection as the code folds it: the rebaselines first, then the    *)
(* attempts, then the dispositions, every pass over the events of the      *)
(* cycle (`for_cycle`) in their order. A pass is a recursive function of   *)
(* the number of events already read.                                      *)
(***************************************************************************)

EmptyView ==
    [readable |-> TRUE,
     count |-> [subject \in Subjects |-> [kind \in AttemptKinds |-> 0]],
     renewals |-> [card \in Cards |-> [dimension \in Dimensions |-> 0]],
     waived |-> [card \in Cards |-> [dimension \in Dimensions |-> FALSE]]]

Refused == [EmptyView EXCEPT !.readable = FALSE]

Rebases(fact, cycle) == fact.cycle = cycle /\ fact.what = "rebaseline"

\* Pass 1: what every rebaseline of the cycle retires.
CollectRetired(ledger, cycle) ==
    LET collected[n \in 0 .. Len(ledger)] ==
            IF n = 0 THEN {}
            ELSE IF Rebases(ledger[n], cycle)
                 THEN collected[n - 1] \cup {ledger[n].retires}
                 ELSE collected[n - 1]
    IN  collected[Len(ledger)]

RefusesRebaselines(ledger, cycle, policy, retired) ==
    \/ policy \in retired
    \/ \E i \in DOMAIN ledger :
          /\ Rebases(ledger[i], cycle)
          /\ ~Accounted(ledger[i], policy, retired) \/ ~WellBound(ledger[i])

\* A bug: attempts measured by a retired policy still count.
FoldEveryAttempt(policy, retired, view, fact) ==
    LET counted == view.count[fact.subject][fact.what] IN
    IF ~view.readable \/ ~Accounted(fact, policy, retired) \/ ~WellBound(fact) THEN Refused
    ELSE IF counted = MaxU32 THEN Refused
    ELSE [view EXCEPT !.count[fact.subject][fact.what] = counted + 1]

FoldAttempt(policy, retired, view, fact) ==
    LET counted == view.count[fact.subject][fact.what] IN
    IF ~view.readable \/ ~Accounted(fact, policy, retired) \/ ~WellBound(fact) THEN Refused
    ELSE IF fact.policy # policy THEN view
    ELSE IF counted = MaxU32 THEN Refused
    ELSE [view EXCEPT !.count[fact.subject][fact.what] = counted + 1]

FoldRenewal(policy, retired, view, fact) ==
    LET granted == view.renewals[fact.subject][fact.dimension] IN
    IF ~view.readable \/ ~Accounted(fact, policy, retired) \/ ~WellBound(fact) THEN Refused
    ELSE IF fact.policy # policy THEN view
    ELSE IF granted = MaxU32 THEN Refused
    ELSE [view EXCEPT !.renewals[fact.subject][fact.dimension] = granted + 1]

\* A waived dimension is a flag: a second acceptance changes nothing.
FoldAcceptedRisk(policy, retired, view, fact) ==
    IF ~view.readable \/ ~Accounted(fact, policy, retired) \/ ~WellBound(fact) THEN Refused
    ELSE IF fact.policy # policy THEN view
    ELSE [view EXCEPT !.waived[fact.subject][fact.dimension] = TRUE]

\* A split sets the very same flag.
FoldSplit(policy, retired, view, fact) == FoldAcceptedRisk(policy, retired, view, fact)

\* An abandonment folds into nothing.
FoldAbandon(policy, retired, view, fact) ==
    IF ~view.readable \/ ~Accounted(fact, policy, retired) \/ ~WellBound(fact)
    THEN Refused ELSE view

\* Nor does a redesign: there is no card left to assess.
FoldRedesign(policy, retired, view, fact) == FoldAbandon(policy, retired, view, fact)

\* Which pass reads a fact is decided by its kind alone.
FoldFact(policy, retired, view, fact) ==
    CASE IsAttempt(fact) -> FoldAttempt(policy, retired, view, fact)
      [] fact.what = "renew" -> FoldRenewal(policy, retired, view, fact)
      [] fact.what = "abandon" -> FoldAbandon(policy, retired, view, fact)
      [] fact.what = "accept_risk" -> FoldAcceptedRisk(policy, retired, view, fact)
      [] fact.what = "split" -> FoldSplit(policy, retired, view, fact)
      [] fact.what = "redesign" -> FoldRedesign(policy, retired, view, fact)

Pass(ledger, cycle, policy, retired, view, kinds) ==
    LET folded[n \in 0 .. Len(ledger)] ==
            IF n = 0 THEN view
            ELSE IF ledger[n].cycle = cycle /\ ledger[n].what \in kinds
                 THEN FoldFact(policy, retired, folded[n - 1], ledger[n])
                 ELSE folded[n - 1]
    IN  folded[Len(ledger)]

Project(ledger, cycle, policy) ==
    LET retired == CollectRetired(ledger, cycle)
        Read(view, kinds) == Pass(ledger, cycle, policy, retired, view, kinds)
        attempts == Read(EmptyView, AttemptKinds)
        renewals == Read(attempts, {"renew"})
        abandons == Read(renewals, {"abandon"})
        risks == Read(abandons, {"accept_risk"})
        splits == Read(risks, {"split"})
    IN  IF RefusesRebaselines(ledger, cycle, policy, retired) THEN Refused
        ELSE Read(splits, {"redesign"})

\* What `Project` ought to be: the set-based projection above.
ProjectedFacts(ledger, cycle, policy) ==
    IF ~Readable(ledger, cycle, policy) THEN Refused
    ELSE [readable |-> TRUE,
          count |-> [subject \in Subjects |-> [kind \in AttemptKinds |->
                        Attempts(ledger, cycle, policy, subject, kind)]],
          renewals |-> [card \in Cards |-> [dimension \in Dimensions |->
                        Renewals(ledger, cycle, policy, card, dimension)]],
          waived |-> [card \in Cards |-> [dimension \in Dimensions |->
                        Waived(ledger, cycle, policy, card, dimension)]]]

-----------------------------------------------------------------------------
(***************************************************************************)
(* The assessments.                                                        *)
(***************************************************************************)

\* The configured limit, once more for every renewal; None on overflow.
EffectiveBudget(limit, renewals) ==
    IF renewals + 1 > MaxU32 \/ limit * (renewals + 1) > MaxU32
    THEN None ELSE limit * (renewals + 1)

\* A bug: the budget must be exceeded, not reached.
Overspent(ledger, cycle, policy, card, risk, dimension) ==
    LET budget == EffectiveBudget(CardLimit[policy][risk][dimension],
                                  Renewals(ledger, cycle, policy, card, dimension))
    IN  /\ budget # None => Attempts(ledger, cycle, policy, card, dimension) > budget
        /\ ~Waived(ledger, cycle, policy, card, dimension)

\* assess_card, one dimension. A waiver outranks even an overflowed budget.
Exhausted(ledger, cycle, policy, card, risk, dimension) ==
    LET budget == EffectiveBudget(CardLimit[policy][risk][dimension],
                                  Renewals(ledger, cycle, policy, card, dimension))
    IN  /\ budget # None => Attempts(ledger, cycle, policy, card, dimension) >= budget
        /\ ~Waived(ledger, cycle, policy, card, dimension)

AssessCard(ledger, cycle, policy, card, risk) ==
    {dimension \in Dimensions : Exhausted(ledger, cycle, policy, card, risk, dimension)}

\* assess_cycle: no disposition renews or waives the cycle's own dimension.
CycleEscalated(ledger, cycle, policy) ==
    Attempts(ledger, cycle, policy, None, "integration_failure") >= CycleLimit[policy]
============================================================================
