---------------------------- MODULE Convergence ----------------------------
(***************************************************************************)
(* The convergence budget of cards and cycles: every command that appends  *)
(* a fact to the ledger, every command the budget stops, the dispositions  *)
(* that answer an escalation, and the project commands that replace the    *)
(* policy the facts are measured by. Each action is one transaction under  *)
(* the project lock, except for a conflicted merge, whose fact is recorded *)
(* by a second transaction after reads made outside the lock.              *)
(*                                                                         *)
(* Leases, plans, candidates and receipts are Delivery's; here an action's *)
(* guard holds what the budget, the lifecycle and the ledger decide.       *)
(***************************************************************************)
EXTENDS ConvergenceLedger

CONSTANTS
    ReturnReasons,      \* reasons a reviewer declares with changes_requested
    FirstPolicy,        \* what `project init` was given, or None
    FirstAuthorization,
    MaxDeclared,        \* feature gates of a card: most failures one handoff declares
    Mergers,            \* command processes that merge integrations
    MaxFacts,           \* bound: facts in the ledger
    Movable,            \* scenario: a revision may name another cycle or risk
    Cautions            \* what the operator avoids, see below

(***************************************************************************)
(* Cautions an operator may or may not take:                               *)
(*   "named"    a revision names a cycle that exists                       *)
(*   "settled"  policies are replaced while no cycle is a draft            *)
(*   "fresh"    a rebaseline installs a policy no fact names               *)
(*   "early"    mutation exemptions are set while no cycle is open         *)
(***************************************************************************)
AllCautions == {"named", "settled", "fresh", "early"}

ASSUME ConvergenceAssumption ==
    /\ IsFiniteSet(Cycles)
    /\ IsFiniteSet(Mergers)
    /\ ReturnReasons \subseteq Reasons
    /\ FirstPolicy \in Policies \cup {None}
    /\ FirstAuthorization \in BOOLEAN
    /\ MaxDeclared \in Nat
    /\ MaxFacts \in 0 .. MaxU32
    /\ Movable \in BOOLEAN
    /\ Cautions \subseteq AllCautions

VARIABLES
    policy,         \* config.convergence_policy
    authorization,  \* whether config.final_authorization_policy is set
    exemption,      \* whether config.mutation_exemption_policy is set
    cycleStatus,    \* status of each cycle; "absent" before it is created
    pinned,         \* CycleRecord.project_revision of each cycle
    cardState,      \* CardStateRecord.state of each card
    home,           \* CardRecord.cycle_id of the current revision, or None
    risk,           \* CardRecord.risk of the current revision
    begun,          \* cards whose latest handoff has a begun review
    ledger,         \* the convergence events, oldest first
    merging         \* what each merger still has to record

vars == <<policy, authorization, exemption, cycleStatus, pinned, cardState, home, risk, begun,
          ledger, merging>>
projectVars == <<policy, authorization, exemption>>
cycleVars == <<cycleStatus, pinned>>
cardVars == <<cardState, home, risk, begun>>

L == INSTANCE Lifecycle

\* The part of project.json whose digest a cycle pins.
ConfigWith(chosen) ==
    [policy |-> chosen, authorization |-> authorization, exemption |-> exemption]

Config == ConfigWith(policy)
NoConfig == [policy |-> None, authorization |-> FALSE, exemption |-> FALSE]

Takes(caution) == caution \in Cautions

Idle == [at |-> "idle", cycle |-> None, policy |-> None]

Init ==
    /\ policy = FirstPolicy
    /\ authorization = FirstAuthorization
    /\ exemption = FALSE
    /\ cycleStatus = [cycle \in Cycles |-> "absent"]
    /\ pinned = [cycle \in Cycles |-> NoConfig]
    /\ cardState = [card \in Cards |-> "draft"]
    /\ home = [card \in Cards |-> None]
    /\ risk \in [Cards -> Risks]
    /\ begun = {}
    /\ ledger = <<>>
    /\ merging = [merger \in Mergers |-> Idle]

Exists(cycle) == cycleStatus[cycle] # "absent"
Open(cycle) == Exists(cycle) /\ ~L!IsTerminalCycle(cycleStatus[cycle])

Usable(cycle) == policy = None \/ Readable(ledger, cycle, policy)

\* The dimensions of the card that the record just loaded has exhausted.
ExhaustedNow(card) ==
    IF policy = None \/ home[card] = None THEN {}
    ELSE AssessCard(ledger, home[card], policy, card, risk[card])

RequireConvergenceBudget(card) == Usable(home[card]) /\ ExhaustedNow(card) = {}

RequireCycleConvergenceBudget(cycle) ==
    Usable(cycle) /\ (policy # None => ~CycleEscalated(ledger, cycle, policy))

Append_(facts) ==
    /\ Len(ledger) + Len(facts) <= MaxFacts
    /\ ledger' = ledger \o facts

-----------------------------------------------------------------------------
(***************************************************************************)
(* Cycles.                                                                 *)
(***************************************************************************)

CreateCycle(cycle) ==
    /\ ~Exists(cycle)
    /\ cycleStatus' = [cycleStatus EXCEPT ![cycle] = "draft"]
    /\ pinned' = [pinned EXCEPT ![cycle] = Config]
    /\ UNCHANGED <<projectVars, cardVars, ledger, merging>>

\* `cycle activate`, `cycle seal` and `cycle abandon` keep the pinned revision.
MoveCycle(cycle, status) ==
    /\ Exists(cycle)
    /\ L!CheckCycleTransition(cycleStatus[cycle], status)
    /\ cycleStatus' = [cycleStatus EXCEPT ![cycle] = status]
    /\ UNCHANGED <<projectVars, pinned, cardVars, ledger, merging>>

ActivateCycle(cycle) == cycleStatus[cycle] = "draft" /\ MoveCycle(cycle, "active")
SealCycle(cycle) == cycleStatus[cycle] = "active" /\ MoveCycle(cycle, "sealed")
AbandonCycle(cycle) == MoveCycle(cycle, "abandoned")

-----------------------------------------------------------------------------
(***************************************************************************)
(* Cards.                                                                  *)
(***************************************************************************)

SetCard(card, state) == cardState' = [cardState EXCEPT ![card] = state]

ActivateCard(card, cycle) ==
    /\ cardState[card] = "draft"
    /\ Exists(cycle) /\ L!AcceptsCards(cycleStatus[cycle])
    /\ SetCard(card, "ready")
    /\ home' = [home EXCEPT ![card] = cycle]
    /\ UNCHANGED <<projectVars, cycleVars, risk, begun, ledger, merging>>

\* A bug: only new work is asked for a budget, not resumed work.
TakeUpUnasked(card) ==
    /\ cardState[card] = "ready"
    /\ SetCard(card, "active")
    /\ UNCHANGED <<projectVars, cycleVars, home, risk, begun, ledger, merging>>

\* `work start`, and `work resume` of a revised card that kept its lease.
TakeUp(card) ==
    /\ cardState[card] = "ready"
    /\ RequireConvergenceBudget(card)
    /\ SetCard(card, "active")
    /\ UNCHANGED <<projectVars, cycleVars, home, risk, begun, ledger, merging>>

\* `work resume` from any other state, and `handoff revoke`: no budget asked.
TakeBack(card) ==
    /\ cardState[card] # "leased"
    /\ L!CheckTransition(cardState[card], "active")
    /\ SetCard(card, "active")
    /\ UNCHANGED <<projectVars, cycleVars, home, risk, begun, ledger, merging>>

\* repair_attempt_reason: what the newest review return of the card, in any
\* cycle and under any policy, leaves for a repair to inherit.
ReturnsOf(card) ==
    {i \in DOMAIN ledger : ledger[i].what = "review_return" /\ ledger[i].subject = card}

RepairReasons(card) ==
    {ledger[i].reason : i \in {i \in ReturnsOf(card) : \A j \in ReturnsOf(card) : j <= i}}
        \cap Admits("repair_attempt")

GateFailureFacts(card, declared) ==
    [i \in 1 .. declared |->
        AttemptFact(home[card], card, "gate_failure", "regression", policy)]

\* Each feature gate of the card is declared to have failed once at most; without
\* a policy nothing is recorded and anything goes.
ValidateDeclaredGateFailures(declared) == policy # None => declared <= MaxDeclared

HandOff(card, declared) ==
    /\ ValidateDeclaredGateFailures(declared)
    /\ L!CheckTransition(cardState[card], "handed_off")
    /\ RequireConvergenceBudget(card)
    /\ IF policy = None
       THEN UNCHANGED ledger
       ELSE \/ /\ RepairReasons(card) = {}
               /\ Append_(GateFailureFacts(card, declared))
            \/ \E reason \in RepairReasons(card) :
                  Append_(Append(GateFailureFacts(card, declared),
                                 AttemptFact(home[card], card, "repair_attempt", reason,
                                             policy)))
    /\ SetCard(card, "handed_off")
    /\ begun' = begun \ {card}
    /\ UNCHANGED <<projectVars, cycleVars, home, risk, merging>>

BeginReview(card) ==
    /\ L!CheckTransition(cardState[card], "review_pending")
    /\ RequireConvergenceBudget(card)
    /\ SetCard(card, "review_pending")
    /\ begun' = begun \cup {card}
    /\ UNCHANGED <<projectVars, cycleVars, home, risk, ledger, merging>>

IsReviewReturn(decision) == decision = "changes_requested"

\* Work is returned for a declared reason, and one that a return may have.
RequireReviewReturnReason(decision, reason) ==
    policy # None /\ IsReviewReturn(decision) => reason \in Admits("review_return")

\* An adverse verdict needs a begun review of the latest handoff, not the
\* state review_pending: a revoked handoff cannot suppress it.
RecordReview(card, decision, reason) ==
    /\ RequireReviewReturnReason(decision, reason)
    /\ card \in begun
    /\ L!CheckTransition(cardState[card], decision)
    /\ RequireConvergenceBudget(card)
    /\ SetCard(card, decision)
    /\ IF policy # None /\ IsReviewReturn(decision)
       THEN Append_(<<AttemptFact(home[card], card, "review_return", reason, policy)>>)
       ELSE UNCHANGED ledger
    /\ UNCHANGED <<projectVars, cycleVars, home, risk, begun, merging>>

\* `work block`
Block(card) ==
    /\ L!CheckTransition(cardState[card], "blocked")
    /\ SetCard(card, "blocked")
    /\ UNCHANGED <<projectVars, cycleVars, home, risk, begun, ledger, merging>>

\* The budget is asked of the superseded revision in its cycle; the fact is
\* recorded in the cycle the new revision names, which nothing looks up.
Revise(card, cycle, newRisk, material) ==
    /\ cardState[card] # "draft"
    /\ L!IsRevisable(cardState[card])
    /\ RequireConvergenceBudget(card)
    /\ Movable \/ (cycle = home[card] /\ newRisk = risk[card])
    /\ Takes("named") => Exists(cycle)
    /\ SetCard(card, "ready")
    /\ home' = [home EXCEPT ![card] = cycle]
    /\ risk' = [risk EXCEPT ![card] = newRisk]
    /\ begun' = begun \ {card}
    /\ IF material /\ policy # None
       THEN Append_(<<AttemptFact(cycle, card, "material_scope_revision", "scope_change",
                                  policy)>>)
       ELSE UNCHANGED ledger
    /\ UNCHANGED <<projectVars, cycleVars, merging>>

\* `card abandon`
AbandonCard(card) ==
    /\ cardState[card] # "draft"
    /\ L!CheckTransition(cardState[card], "abandoned")
    /\ SetCard(card, "abandoned")
    /\ UNCHANGED <<projectVars, cycleVars, home, risk, begun, ledger, merging>>

-----------------------------------------------------------------------------
(***************************************************************************)
(* A merge that conflicts. The transaction leaves no trace; what it owes   *)
(* the ledger is read and written afterwards.                              *)
(***************************************************************************)

SetMerging(merger, entry) == merging' = [merging EXCEPT ![merger] = entry]

MergeConflicts(merger, cycle) ==
    /\ merging[merger] = Idle
    /\ Exists(cycle) /\ cycleStatus[cycle] # "draft"
    /\ RequireCycleConvergenceBudget(cycle)
    /\ SetMerging(merger, [at |-> "conflicted", cycle |-> cycle, policy |-> None])
    /\ UNCHANGED <<projectVars, cycleVars, cardVars, ledger>>

ReadPolicy(merger) ==
    /\ merging[merger].at = "conflicted"
    /\ SetMerging(merger,
                  IF policy = None THEN Idle
                  ELSE [merging[merger] EXCEPT !.at = "recording", !.policy = policy])
    /\ UNCHANGED <<projectVars, cycleVars, cardVars, ledger>>

RecordIntegrationFailure(merger) ==
    /\ merging[merger].at = "recording"
    /\ Append_(<<AttemptFact(merging[merger].cycle, None, "integration_failure",
                             "integration_conflict", merging[merger].policy)>>)
    /\ SetMerging(merger, Idle)
    /\ UNCHANGED <<projectVars, cycleVars, cardVars>>

\* The process dies, or the second transaction fails: the fact is lost.
ForgetFailure(merger) ==
    /\ merging[merger] # Idle
    /\ SetMerging(merger, Idle)
    /\ UNCHANGED <<projectVars, cycleVars, cardVars, ledger>>

-----------------------------------------------------------------------------
(***************************************************************************)
(* Project policies.                                                       *)
(***************************************************************************)

\* A bug: sealed and integrating cycles are thought to be past measuring.
BlocksWhileActive(status) == status = "active"

BlocksPolicyChange(status) == status \notin {"absent", "draft", "closed", "abandoned"}

RefuseBlockingCycles == \A cycle \in Cycles : ~BlocksPolicyChange(cycleStatus[cycle])

\* Only attempt facts are looked for.
RefuseOrphaningFacts == \A i \in DOMAIN ledger : ~IsAttempt(ledger[i])

NoDraftOpen == \A cycle \in Cycles : cycleStatus[cycle] # "draft"

SetConvergencePolicy(new) ==
    /\ new # policy
    /\ RefuseBlockingCycles
    /\ RefuseOrphaningFacts
    /\ Takes("settled") => NoDraftOpen
    /\ policy' = new
    /\ UNCHANGED <<authorization, exemption, cycleVars, cardVars, ledger, merging>>

\* Installing the policy; that an installed one may be replaced changes only its
\* revision, which IntegrationPipeline follows.
SetFinalAuthorization ==
    /\ ~authorization
    /\ RefuseBlockingCycles
    /\ Takes("settled") => NoDraftOpen
    /\ authorization' = TRUE
    /\ UNCHANGED <<policy, exemption, cycleVars, cardVars, ledger, merging>>

NoCycleOpen == \A cycle \in Cycles : ~Open(cycle)

\* The same document is written and no cycle is asked for. The first installation
\* stands for every later one, which moves the document in the same way.
SetMutationExemption ==
    /\ ~exemption
    /\ Takes("early") => NoCycleOpen
    /\ exemption' = TRUE
    /\ UNCHANGED <<policy, authorization, cycleVars, cardVars, ledger, merging>>

-----------------------------------------------------------------------------
(***************************************************************************)
(* Dispositions.                                                           *)
(***************************************************************************)

RequireAuthorizer == authorization

\* A policy is configured and the projection reads.
RequireProjection(card) == policy # None /\ Usable(home[card])

RequireRenewable(card, dimension) ==
    /\ cardState[card] # "draft"
    /\ RequireProjection(card)
    /\ dimension \in ExhaustedNow(card)
    /\ RequireAuthorizer

Renew(card, dimension) ==
    /\ RequireRenewable(card, dimension)
    /\ Append_(<<DispositionFact(home[card], card, "renew", dimension, policy, None)>>)
    /\ UNCHANGED <<projectVars, cycleVars, cardVars, merging>>

\* A waived dimension is never exhausted, so it is never waived twice.
RequireRiskAcceptable(card, dimension) ==
    /\ cardState[card] # "draft"
    /\ RequireProjection(card)
    /\ dimension \in ExhaustedNow(card)
    /\ RequireAuthorizer

AcceptRisk(card, dimension) ==
    /\ RequireRiskAcceptable(card, dimension)
    /\ Append_(<<DispositionFact(home[card], card, "accept_risk", dimension, policy, None)>>)
    /\ UNCHANGED <<projectVars, cycleVars, cardVars, merging>>

RequireSplittable(card, dimension, followUp) ==
    /\ cardState[card] # "draft"
    /\ RequireProjection(card)
    /\ dimension \in ExhaustedNow(card)
    /\ cardState[followUp] # "draft"
    /\ followUp # card
    /\ home[followUp] = home[card]
    /\ ~L!IsTerminal(cardState[followUp])
    /\ RequireAuthorizer

Split(card, dimension, followUp) ==
    /\ RequireSplittable(card, dimension, followUp)
    /\ Append_(<<DispositionFact(home[card], card, "split", dimension, policy, None)>>)
    /\ UNCHANGED <<projectVars, cycleVars, cardVars, merging>>

RequireAbandonable(card) ==
    /\ cardState[card] # "draft"
    /\ RequireProjection(card)
    /\ ExhaustedNow(card) # {}
    /\ L!CheckTransition(cardState[card], "abandoned")
    /\ RequireAuthorizer

AbandonEscalated(card) ==
    /\ RequireAbandonable(card)
    /\ SetCard(card, "abandoned")
    /\ Append_(<<DispositionFact(home[card], card, "abandon", None, policy, None)>>)
    /\ UNCHANGED <<projectVars, cycleVars, home, risk, begun, merging>>

RequireRedesignable(card, replacement) ==
    /\ RequireAbandonable(card)
    /\ cardState[replacement] # "draft"
    /\ replacement # card
    /\ ~L!IsTerminal(cardState[replacement])

Redesign(card, replacement) ==
    /\ RequireRedesignable(card, replacement)
    /\ SetCard(card, "abandoned")
    /\ Append_(<<DispositionFact(home[card], card, "redesign", None, policy, None)>>)
    /\ UNCHANGED <<projectVars, cycleVars, home, risk, begun, merging>>

\* `require_rebaseline` compares the new policy with the installed one only.
RequireRebaseline(new) ==
    /\ policy # None
    /\ new # policy
    /\ RequireAuthorizer

NamedByNoFact(new) ==
    \A i \in DOMAIN ledger : new # ledger[i].policy /\ new # ledger[i].retires

\* The cycles a rebaseline re-pins, one after another.
Orders(cycles) ==
    {order \in [1 .. Cardinality(cycles) -> cycles] :
        \A cycle \in cycles : \E i \in DOMAIN order : order[i] = cycle}

Repinned(new) ==
    [cycle \in Cycles |->
        IF Open(cycle)
        THEN ConfigWith(new) ELSE pinned[cycle]]

\* Installs the policy, re-pins every cycle that is not over and records one
\* fact in each.
Rebaseline(new) ==
    /\ RequireRebaseline(new)
    /\ Takes("fresh") => NamedByNoFact(new)
    /\ policy' = new
    /\ pinned' = Repinned(new)
    /\ \E order \in Orders({cycle \in Cycles : Open(cycle)}) :
          Append_([i \in DOMAIN order |->
                      DispositionFact(order[i], None, "rebaseline", None, new, policy)])
    /\ UNCHANGED <<authorization, exemption, cycleStatus, cardVars, merging>>

-----------------------------------------------------------------------------

CycleStep(cycle) ==
    \/ CreateCycle(cycle)
    \/ ActivateCycle(cycle)
    \/ SealCycle(cycle)
    \/ AbandonCycle(cycle)

CardStep(card) ==
    \/ \E cycle \in Cycles : ActivateCard(card, cycle)
    \/ TakeUp(card)
    \/ TakeBack(card)
    \/ \E declared \in 0 .. (MaxDeclared + 1) : HandOff(card, declared)
    \/ BeginReview(card)
    \/ \E decision \in {"approved", "changes_requested", "blocked"},
          reason \in ReturnReasons \cup {None} : RecordReview(card, decision, reason)
    \/ Block(card)
    \/ \E cycle \in Cycles, newRisk \in Risks, material \in BOOLEAN :
          Revise(card, cycle, newRisk, material)
    \/ AbandonCard(card)

MergeStep(merger) ==
    \/ \E cycle \in Cycles : MergeConflicts(merger, cycle)
    \/ ReadPolicy(merger)
    \/ RecordIntegrationFailure(merger)
    \/ ForgetFailure(merger)

PolicyStep ==
    \/ \E new \in Policies : SetConvergencePolicy(new) \/ Rebaseline(new)
    \/ SetFinalAuthorization
    \/ SetMutationExemption

\* Every disposition answers an escalation.
Disposition(card) ==
    /\ ExhaustedNow(card) # {}
    /\ \/ \E dimension \in Dimensions :
             \/ Renew(card, dimension)
             \/ AcceptRisk(card, dimension)
             \/ \E other \in Cards : Split(card, dimension, other)
       \/ AbandonEscalated(card)
       \/ \E other \in Cards : Redesign(card, other)

Next ==
    \/ \E cycle \in Cycles : CycleStep(cycle)
    \/ \E card \in Cards : CardStep(card) \/ Disposition(card)
    \/ \E merger \in Mergers : MergeStep(merger)
    \/ PolicyStep

Spec == Init /\ [][Next]_vars
-----------------------------------------------------------------------------
(***************************************************************************)
(* Properties.                                                             *)
(***************************************************************************)

\* Type correctness of every variable.
TypeOK ==
    /\ policy \in Policies \cup {None}
    /\ authorization \in BOOLEAN
    /\ exemption \in BOOLEAN
    /\ cycleStatus \in [Cycles -> L!CycleStatuses \cup {"absent"}]
    /\ pinned \in [Cycles -> [policy : Policies \cup {None}, authorization : BOOLEAN,
                           exemption : BOOLEAN]]
    /\ cardState \in [Cards -> L!CardStates]
    /\ home \in [Cards -> Cycles \cup {None}]
    /\ \A card \in Cards : cardState[card] # "draft" => home[card] \in Cycles
    /\ risk \in [Cards -> Risks]
    /\ begun \subseteq Cards
    /\ ledger \in Seq(Fact) /\ Len(ledger) <= MaxFacts
    /\ merging \in [Mergers -> [at : {"idle", "conflicted", "recording"},
                               cycle : Cycles \cup {None}, policy : Policies \cup {None}]]

\* The facts of every open cycle are such as `project` reads.
OpenCycleAssessable ==
    policy # None =>
        \A cycle \in Cycles : Open(cycle) => Readable(ledger, cycle, policy)

\* The project.json an open cycle pins is the one in force: the gate commands
\* of its cards compare the two digests and refuse when they differ.
OpenCyclePinsProject ==
    \A cycle \in Cycles : Open(cycle) => pinned[cycle] = Config

\* No sequence of policy changes, dispositions and attempts leaves an open cycle
\* unworkable: every gated command of its cards would be refused as corruption
\* of its facts, or for a project document other than the one it was made under.
OpenCycleWorkable == OpenCycleAssessable /\ OpenCyclePinsProject

\* The same of the cycles that hold cards: nothing may replace the document a
\* working cycle measures its cards by, whichever of its policies changes.
WorkingCyclePinsProject ==
    \A cycle \in Cycles : cycleStatus[cycle] \in {"active", "sealed"} => pinned[cycle] = Config

\* The most a limit can be, whatever risk the card is revised to.
LargestLimit ==
    [chosen \in Policies |-> [dimension \in Dimensions |->
        CHOOSE limit \in {CardLimit[chosen][level][dimension] : level \in Risks} :
            \A level \in Risks : CardLimit[chosen][level][dimension] <= limit]]

\* One handoff is asked of the budget once and may record several failures.
Overshoot(dimension) ==
    IF dimension = "gate_failure" /\ MaxDeclared > 0 THEN MaxDeclared - 1 ELSE 0

\* No interleaving of attempts, revisions, moves between cycles, renewals and
\* policy changes spends more attempts of a dimension than its limit, granted
\* once more for every renewal, allows; only a waiver lifts it.
AttemptsWithinGrant ==
    \A cycle \in Cycles, card \in Cards, chosen \in Policies, dimension \in Dimensions :
        LET attempts == Attempts(ledger, cycle, chosen, card, dimension)
            limit == LargestLimit[chosen][dimension]
            granted == Renewals(ledger, cycle, chosen, card, dimension) + 1
        IN  \/ attempts <= limit * granted + Overshoot(dimension)
            \/ Waived(ledger, cycle, chosen, card, dimension)

\* The least a limit can be.
SmallestLimit ==
    [chosen \in Policies |-> [dimension \in Dimensions |->
        CHOOSE limit \in {CardLimit[chosen][level][dimension] : level \in Risks} :
            \A level \in Risks : limit <= CardLimit[chosen][level][dimension]]]

\* No renewal is banked: however the card was revised and moved meanwhile, the
\* budgets granted before a renewal were spent when it was recorded, unless
\* their product no longer fits a u32.
NothingRenewedAhead ==
    \A cycle \in Cycles, card \in Cards, chosen \in Policies, dimension \in Dimensions :
        LET granted == Renewals(ledger, cycle, chosen, card, dimension) IN
        \/ SmallestLimit[chosen][dimension] * granted
              <= Attempts(ledger, cycle, chosen, card, dimension)
        \/ LargestLimit[chosen][dimension] * granted > MaxU32

\* Conflicts are recorded after the lock that the budget was asked under is
\* released: all but one of the mergers may be past the check already.
FailuresWithinGrant ==
    \A cycle \in Cycles, chosen \in Policies :
        Attempts(ledger, cycle, chosen, None, "integration_failure") <=
            CycleLimit[chosen] + Cardinality(Mergers) - 1

\* In an open cycle no attempt recorded before the last rebaseline counts
\* toward a budget, whenever the transaction that owed it began.
TallyStartsAtRebaseline ==
    policy # None =>
        \A j \in DOMAIN ledger :
            ledger[j].what = "rebaseline" /\ Open(ledger[j].cycle) =>
                \A subject \in Subjects, kind \in AttemptKinds :
                    \A i \in CountedAttempts(ledger, ledger[j].cycle, policy, subject, kind) :
                        j < i

\* The budget is kept: whatever the interleaving of commands, late merge
\* conflicts, revisions and dispositions, nothing is spent beyond the grant,
\* granted before it was spent, or counted from before a rebaseline.
BudgetKept ==
    /\ TypeOK
    /\ AttemptsWithinGrant
    /\ FailuresWithinGrant
    /\ NothingRenewedAhead
    /\ TallyStartsAtRebaseline

\* An escalated card does not reach review, hand off or start again before a
\* disposition, a policy change or its own abandonment answers the escalation:
\* the only steps it takes meanwhile give work back or end it.
EscalationHolds ==
    [][\A card \in Cards :
          /\ cardState'[card] # cardState[card]
          /\ cardState[card] # "draft"
          /\ ExhaustedNow(card) # {}
          => \/ cardState'[card] \in {"blocked", "abandoned"}
             \/ cardState'[card] = "active" /\ cardState[card] # "ready"]_vars
============================================================================
