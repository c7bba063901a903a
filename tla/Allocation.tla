----------------------------- MODULE Allocation -----------------------------
(***************************************************************************)
(* Who may work on what, and when: cycles and their distribution plans,    *)
(* the claims cards hold against each other, and the leases under which    *)
(* their work is done (commands/cycle.rs, commands/card.rs,                *)
(* commands/work.rs, policy/allocation.rs, domain/cycle_plan.rs).          *)
(*                                                                         *)
(* Each action is one transaction under the project lock, except that      *)
(* `work resume` decides outside the lock that there is work to take up    *)
(* and takes it up in a transaction of its own.                            *)
(*                                                                         *)
(* Paths, contract domains and exclusive resources are all compared for    *)
(* being shared, so a card's claims are one set of areas. The caller of a  *)
(* planned start is the actor the plan assigns. The budget of a card is    *)
(* Convergence's, its handoffs and reviews are Delivery's: here they only  *)
(* move the card.                                                          *)
(***************************************************************************)
EXTENDS Naturals, FiniteSets, Sequences, SequencesExt

CONSTANTS
    Cards,
    Cycles,
    OldCycles,      \* active cycles an earlier version created, without a plan
    Areas,          \* what a card may claim
    Drafts,         \* scenario: the revisions each card's author may submit
    Ending,         \* scenario: cycles that get sealed or abandoned
    MaxRevisions,   \* bound: revisions of each card
    None

Revision == [cycle : Cycles, scope : (SUBSET Areas) \ {{}}, depends : SUBSET Cards]

ASSUME AllocationAssumption ==
    /\ IsFiniteSet(Cards)
    /\ OldCycles \subseteq Cycles
    /\ Drafts \in [Cards -> SUBSET Revision]
    /\ Ending \subseteq Cycles
    /\ MaxRevisions \in [Cards -> Nat]
    /\ None \notin Cycles

VARIABLES
    cycleStatus,    \* CycleRecord.status; "absent" before the cycle is created
    members,        \* CycleRecord.card_ids
    plan,           \* the distribution plan bound to each cycle, or NoPlan
    legacy,         \* cycles with plan_migration_provenance
    cardState,      \* CardStateRecord.state; "draft" before activation
    revisions,      \* the immutable revisions of each card, oldest first
    binding,        \* the cycle whose plan the card's state record is bound to
    lease,          \* the lease of each card
    locator,        \* card revision in the worktree's locator; 0 without one
    branches,       \* cards whose branch and worktree exist
    resuming,       \* cards some `work resume` has found ready to take up
    revoked         \* cards made active by revoking their handoff

cycleVars == <<cycleStatus, members, plan, legacy>>
leaseVars == <<lease, locator, branches>>
vars == <<cycleVars, cardState, revisions, binding, leaseVars, resuming, revoked>>

L == INSTANCE Lifecycle

Distributions == {"parallel", "sequential", "joint_integration"}

NoPlan == [order |-> <<>>, distribution |-> <<>>, revision |-> <<>>]
NoLease == [revision |-> 0, held |-> FALSE]

Activated(card) == revisions[card] # <<>>
Current(card) == Last(revisions[card])
Exists(cycle) == cycleStatus[cycle] # "absent"
Planned(cycle) == ToSet(plan[cycle].order)
HasPlan(cycle) == plan[cycle] # NoPlan

Init ==
    /\ cycleStatus = [cycle \in Cycles |-> IF cycle \in OldCycles THEN "active" ELSE "absent"]
    /\ members = [cycle \in Cycles |-> {}]
    /\ plan = [cycle \in Cycles |-> NoPlan]
    /\ legacy = {}
    /\ cardState = [card \in Cards |-> "draft"]
    /\ revisions = [card \in Cards |-> <<>>]
    /\ binding = [card \in Cards |-> None]
    /\ lease = [card \in Cards |-> NoLease]
    /\ locator = [card \in Cards |-> 0]
    /\ branches = {}
    /\ resuming = {}
    /\ revoked = {}

-----------------------------------------------------------------------------
(***************************************************************************)
(* Claims and dependencies: policy/allocation.rs.                          *)
(***************************************************************************)

HoldsClaims(card) == cardState[card] \notin {"closed", "abandoned", "landed", "draft"}

\* The cards whose claims a candidate meets: of one cycle, of every active one.
ExistingClaims(cycle, card) == members[cycle] \ {card}

ActiveCycleClaims(card) ==
    UNION {ExistingClaims(c, card) : c \in {d \in Cycles : cycleStatus[d] = "active"}}

CheckAdmissible(existing, scope) ==
    \A other \in existing : HoldsClaims(other) => Current(other).scope \cap scope = {}

\* Nothing among `cards` waits for itself, directly or through others.
Acyclic(depends, cards) ==
    \A S \in SUBSET cards : S # {} => \E card \in S : depends[card] \cap S = {}

CheckDependencies(cycle, card, depends) ==
    LET all == ExistingClaims(cycle, card) \cup {card}
        edges == [c \in all |-> IF c = card THEN depends ELSE Current(c).depends]
    IN  /\ \A c \in all : edges[c] \subseteq all
        /\ Acyclic(edges, all)

CheckAllocation(cycle, card, record) ==
    /\ CheckAdmissible(ActiveCycleClaims(card), record.scope)
    /\ CheckDependencies(cycle, card, record.depends)

-----------------------------------------------------------------------------
(***************************************************************************)
(* Cycles and their plans.                                                 *)
(***************************************************************************)

CreateCycle(cycle) ==
    /\ ~Exists(cycle)
    /\ cycleStatus' = [cycleStatus EXCEPT ![cycle] = "draft"]
    /\ UNCHANGED <<members, plan, legacy, cardState, revisions, binding, leaseVars,
                   resuming, revoked>>

MoveCycle(cycle, status) ==
    /\ Exists(cycle)
    /\ L!CheckCycleTransition(cycleStatus[cycle], status)
    /\ cycleStatus' = [cycleStatus EXCEPT ![cycle] = status]
    /\ UNCHANGED <<members, plan, legacy, cardState, revisions, binding, leaseVars,
                   resuming, revoked>>

\* The baseline is frozen once: no blocked cycle is activated again.
ActivateCycle(cycle) == cycleStatus[cycle] = "draft" /\ MoveCycle(cycle, "active")
SealCycle(cycle) == cycle \in Ending /\ MoveCycle(cycle, "sealed")
AbandonCycle(cycle) == cycle \in Ending /\ MoveCycle(cycle, "abandoned")

\* Which revision of each card a plan may be drawn up for: any it ever had.
Revisions(cards) ==
    {r \in [cards -> UNION {DOMAIN revisions[card] : card \in cards}] :
        \A card \in cards : r[card] \in DOMAIN revisions[card]}

PlannedRevision(p, card) == revisions[card][p.revision[card]]

HasCycle(p, cards) == ~Acyclic([card \in cards |-> PlannedRevision(p, card).depends], cards)

\* CyclePlan::validate.
ValidPlan(p, cards) ==
    /\ cards # {}
    /\ \A card \in cards : PlannedRevision(p, card).depends \subseteq cards
    /\ \A card, other \in cards :
          card # other /\ {p.distribution[card], p.distribution[other]} = {"parallel"}
              => PlannedRevision(p, card).scope \cap PlannedRevision(p, other).scope = {}
    /\ ~HasCycle(p, cards)

\* A cycle is planned once, and exactly its members are.
ValidatePlanAgainstControl(cycle, cards) ==
    /\ Exists(cycle) /\ ~HasPlan(cycle) /\ cycle \notin legacy
    /\ cards = members[cycle]

RequireLegacyEligibility(cycle) ==
    cycle \in OldCycles /\ ~HasPlan(cycle) /\ cycle \notin legacy

\* `cycle plan` binds the cycle and every card planned, at a revision it ever had.
PersistPlan(cycle, cards) ==
    /\ ValidatePlanAgainstControl(cycle, cards)
    /\ \E order \in SetToSeqs(cards), distribution \in [cards -> Distributions],
          revision \in Revisions(cards) :
          LET p == [order |-> order, distribution |-> distribution, revision |-> revision]
          IN  /\ ValidPlan(p, cards)
              /\ plan' = [plan EXCEPT ![cycle] = p]
    /\ binding' = [card \in Cards |-> IF card \in cards THEN cycle ELSE binding[card]]
    /\ UNCHANGED <<cycleStatus, members, legacy, cardState, revisions, leaseVars,
                   resuming, revoked>>

\* `cycle migrate-legacy`: a cycle this version created has no such way out.
MigrateLegacy(cycle) ==
    /\ RequireLegacyEligibility(cycle)
    /\ legacy' = legacy \cup {cycle}
    /\ UNCHANGED <<cycleStatus, members, plan, cardState, revisions, binding, leaseVars,
                   resuming, revoked>>

-----------------------------------------------------------------------------
(***************************************************************************)
(* Cards.                                                                  *)
(***************************************************************************)

SetCard(card, state) ==
    /\ cardState' = [cardState EXCEPT ![card] = state]
    /\ revoked' = revoked \ {card}

\* A revision is never rewritten: it is added, and the card's state record starts
\* afresh, bound to no plan.
WriteRevision(card, record) ==
    /\ SetCard(card, "ready")
    /\ revisions' = [revisions EXCEPT ![card] = Append(@, record)]
    /\ binding' = [binding EXCEPT ![card] = None]

RequireUnpinnedCycle(cycle) == ~HasPlan(cycle)

CycleAcceptingCards(cycle) ==
    /\ Exists(cycle) /\ L!AcceptsCards(cycleStatus[cycle])
    /\ RequireUnpinnedCycle(cycle)

ActivateCard(card, record) ==
    /\ ~Activated(card)
    /\ CycleAcceptingCards(record.cycle)
    /\ CheckAllocation(record.cycle, card, record)
    /\ WriteRevision(card, record)
    /\ members' = [members EXCEPT ![record.cycle] = @ \cup {card}]
    /\ UNCHANGED <<cycleStatus, plan, legacy, leaseVars, resuming>>

\* A bug: a revision is checked against the cards of its own cycle alone.
ReviseWithinCycle(card, record) ==
    /\ Activated(card) /\ L!IsRevisable(cardState[card])
    /\ Len(revisions[card]) < MaxRevisions[card]
    /\ LET cycle == Current(card).cycle
       IN  /\ Exists(cycle)
           /\ CheckAdmissible(ExistingClaims(cycle, card), record.scope)
           /\ CheckDependencies(cycle, card, record.depends)
    /\ WriteRevision(card, record)
    /\ UNCHANGED <<cycleVars, leaseVars, resuming>>

\* A bug: the revised dependencies are not looked at again.
ReviseUnordered(card, record) ==
    /\ Activated(card) /\ L!IsRevisable(cardState[card])
    /\ Len(revisions[card]) < MaxRevisions[card]
    /\ Exists(Current(card).cycle) /\ CheckAdmissible(ActiveCycleClaims(card), record.scope)
    /\ record.depends \subseteq members[Current(card).cycle]
    /\ WriteRevision(card, record)
    /\ UNCHANGED <<cycleVars, leaseVars, resuming>>

\* `card revise` checks the new record against the cycle of the old one.
Revise(card, record) ==
    /\ Activated(card) /\ L!IsRevisable(cardState[card])
    /\ Len(revisions[card]) < MaxRevisions[card]
    /\ Exists(Current(card).cycle)
    /\ CheckAllocation(Current(card).cycle, card, record)
    /\ WriteRevision(card, record)
    /\ UNCHANGED <<cycleVars, leaseVars, resuming>>

AbandonCard(card) ==
    /\ Activated(card) /\ L!CheckTransition(cardState[card], "abandoned")
    /\ SetCard(card, "abandoned")
    /\ UNCHANGED <<cycleVars, revisions, binding, leaseVars, resuming>>

-----------------------------------------------------------------------------
(***************************************************************************)
(* Admission to work: what the plan of the card's cycle allows.            *)
(***************************************************************************)

RequireActivePlan(cycle) == Exists(cycle) /\ (HasPlan(cycle) \/ cycle \in legacy)

RequireCardPlanBinding(cycle, card) == HasPlan(cycle) => binding[card] = cycle

RequirePlanAssignment(card) ==
    LET cycle == Current(card).cycle
    IN  /\ RequireActivePlan(cycle)
        /\ RequireCardPlanBinding(cycle, card)
        /\ HasPlan(cycle) => card \in Planned(cycle)

Underway(card) == cardState[card] \in {"leased", "active"}

\* Sequential work excludes every other, and a joint start whatever is not in it.
RequireExecutionOverlapPolicy(cycle, requested, joint) ==
    LET p == plan[cycle]
    IN  \A other \in Planned(cycle) \ requested : Underway(other) =>
            /\ ~joint
            /\ p.distribution[other] # "sequential"
            /\ \A card \in requested : p.distribution[card] # "sequential"

Priors(p, card) == {p.order[i] : i \in 1 .. (SelectInSeq(p.order, LAMBDA c : c = card) - 1)}

\* A bug: only the card that starts is asked whether it must be alone.
AdmitsBesideSequential(card) ==
    LET cycle == Current(card).cycle
        p == plan[cycle]
    IN  /\ RequireActivePlan(cycle)
        /\ HasPlan(cycle) =>
              /\ card \in Planned(cycle) /\ p.distribution[card] # "joint_integration"
              /\ \A other \in PlannedRevision(p, card).depends : L!IsAccepted(cardState[other])
              /\ p.distribution[card] = "sequential" =>
                    \A other \in Planned(cycle) \ {card} : ~Underway(other)
              /\ p.distribution[card] = "sequential" =>
                    \A other \in Priors(p, card) : L!IsAccepted(cardState[other])

RequireWorkAdmission(card) ==
    LET cycle == Current(card).cycle
        p == plan[cycle]
    IN  /\ RequireActivePlan(cycle)
        /\ HasPlan(cycle) =>
              /\ card \in Planned(cycle) /\ p.distribution[card] # "joint_integration"
              /\ RequireExecutionOverlapPolicy(cycle, {card}, FALSE)
              /\ \A other \in PlannedRevision(p, card).depends : L!IsAccepted(cardState[other])
              /\ p.distribution[card] = "sequential" =>
                    \A other \in Priors(p, card) : L!IsAccepted(cardState[other])

\* Nothing is planned of a migrated cycle, so any cards of it may start together.
RequireJointWorkAdmission(cycle, cards) ==
    /\ RequireActivePlan(cycle)
    /\ HasPlan(cycle) =>
          /\ cards = {c \in Planned(cycle) : plan[cycle].distribution[c] = "joint_integration"}
          /\ RequireExecutionOverlapPolicy(cycle, cards, TRUE)
          /\ \A card \in cards :
                \A other \in PlannedRevision(plan[cycle], card).depends :
                    other \in cards \/ L!IsAccepted(cardState[other])

-----------------------------------------------------------------------------
(***************************************************************************)
(* Leases.                                                                 *)
(***************************************************************************)

HeldLeases == {card \in Cards : lease[card].held}

HeldLease(card) == card \in HeldLeases

PreflightStart(card) ==
    /\ Activated(card)
    /\ ~HeldLease(card)
    /\ L!CheckTransition(cardState[card], "leased")
    /\ card \notin branches

MayStart(card) ==
    PreflightStart(card) /\ RequirePlanAssignment(card) /\ RequireWorkAdmission(card)

\* parse_unique_card_ids, and one cycle for them all.
MayStartBatch(cards) ==
    /\ Cardinality(cards) >= 2
    /\ \A card \in cards : PreflightStart(card) /\ RequirePlanAssignment(card)
    /\ \E cycle \in Cycles :
          /\ \A card \in cards : Current(card).cycle = cycle
          /\ RequireJointWorkAdmission(cycle, cards)

\* The branch, the worktree on it, and the locator inside.
AllocateWorktree(cards) ==
    /\ branches' = branches \cup cards
    /\ locator' = [c \in Cards |-> IF c \in cards THEN Len(revisions[c]) ELSE locator[c]]

AllocateMembers(cards) ==
    /\ AllocateWorktree(cards)
    /\ lease' = [card \in Cards |->
                    IF card \in cards
                    THEN [revision |-> Len(revisions[card]), held |-> TRUE]
                    ELSE lease[card]]
    /\ cardState' = [card \in Cards |-> IF card \in cards THEN "active" ELSE cardState[card]]
    /\ revoked' = revoked \ cards
    /\ UNCHANGED <<cycleVars, revisions, binding, resuming>>

Start(card) == MayStart(card) /\ AllocateMembers({card})

StartBatch(cards) == MayStartBatch(cards) /\ AllocateMembers(cards)

\* The transaction fails while it allocates: its records are undone, but not
\* the branches it made outside the control repository.
FailStart(cards, made) ==
    /\ MayStartBatch(cards) \/ \E card \in cards : cards = {card} /\ MayStart(card)
    /\ made # {} /\ made \subseteq cards
    /\ AllocateWorktree(made)
    /\ UNCHANGED <<cycleVars, cardState, revisions, binding, lease, resuming, revoked>>

\* The operator removes what a failed start left, as its journal tells him to.
RemoveLeftover(card) ==
    /\ card \in branches /\ ~HeldLease(card)
    /\ branches' = branches \ {card}
    /\ locator' = [locator EXCEPT ![card] = 0]
    /\ UNCHANGED <<cycleVars, cardState, revisions, binding, lease, resuming, revoked>>

ResumesToActive(card) ==
    cardState[card] \in {"changes_requested", "blocked", "ready", "review_pending"}

\* `work resume`, before its transaction.
CheckResume(card) ==
    /\ HeldLease(card) /\ card \notin resuming
    /\ RequirePlanAssignment(card)
    /\ ResumesToActive(card) /\ RequireWorkAdmission(card)
    /\ resuming' = resuming \cup {card}
    /\ UNCHANGED <<cycleVars, cardState, revisions, binding, leaseVars, revoked>>

VerifyLocator(card) == card \in branches /\ locator[card] = lease[card].revision

MayResume(card) ==
    /\ HeldLease(card)
    /\ RequirePlanAssignment(card) /\ RequireWorkAdmission(card)
    /\ VerifyLocator(card)
    /\ cardState[card] = "ready" \/ L!CheckTransition(cardState[card], "active")

\* A bug: what was read before the lock was taken is not asked again.
ResumeOnFirstSight(card) ==
    /\ card \in resuming
    /\ SetCard(card, "active")
    /\ resuming' = resuming \ {card}
    /\ UNCHANGED <<cycleVars, revisions, binding, leaseVars>>

\* resume_to_active takes the card back from whatever state it is in by now.
Resume(card) ==
    /\ card \in resuming /\ MayResume(card)
    /\ SetCard(card, "active")
    /\ resuming' = resuming \ {card}
    /\ UNCHANGED <<cycleVars, revisions, binding, leaseVars>>

RefuseResume(card) ==
    /\ card \in resuming /\ ~MayResume(card)
    /\ resuming' = resuming \ {card}
    /\ UNCHANGED <<cycleVars, cardState, revisions, binding, leaseVars, revoked>>

\* `work reclaim` hands the lease over: the locator is written for the card's
\* current revision, while the lease stays granted for the one it started at.
Reclaim(card) ==
    /\ HeldLease(card)
    /\ locator' = [locator EXCEPT ![card] = Len(revisions[card])]
    /\ UNCHANGED <<cycleVars, cardState, revisions, binding, lease, branches, resuming, revoked>>

Block(card) ==
    /\ Activated(card) /\ L!CheckTransition(cardState[card], "blocked")
    /\ SetCard(card, "blocked")
    /\ UNCHANGED <<cycleVars, revisions, binding, leaseVars, resuming>>

\* Nothing but the end of the worktree ends a lease: not handing the work over, and
\* not abandoning it.
ReleaseLease(card) == lease' = [lease EXCEPT ![card].held = FALSE]

\* `archive close` removes the worktree of a landed card and ends its lease.
Close(card) ==
    /\ L!CheckTransition(cardState[card], "closed")
    /\ SetCard(card, "closed")
    /\ ReleaseLease(card)
    /\ locator' = [locator EXCEPT ![card] = 0]
    /\ branches' = branches \ {card}
    /\ UNCHANGED <<cycleVars, revisions, binding, resuming>>

\* A bug: a landed card's lease ends while its worktree is still there.
ReleaseAtLanding(card, to) ==
    /\ Activated(card) /\ L!Advances(cardState[card], to)
    /\ to \notin {"leased", "active", "blocked", "closed", "abandoned"}
    /\ SetCard(card, to)
    /\ lease' = [lease EXCEPT ![card].held = @ /\ to # "landed"]
    /\ UNCHANGED <<cycleVars, revisions, binding, locator, branches, resuming>>

\* Every other command that moves a card: handoff.rs:1201, review.rs:552 and 1608,
\* integration.rs:1025, acceptance.rs:673, and settle_promotion, the last one.
Progress(card, to) ==
    /\ Activated(card) /\ L!Advances(cardState[card], to)
    /\ to \notin {"leased", "active", "blocked", "closed", "abandoned"}
    /\ SetCard(card, to)
    /\ UNCHANGED <<cycleVars, revisions, binding, leaseVars, resuming>>

\* `handoff revoke` asks no plan before the card is active again.
Revoke(card) ==
    /\ Activated(card) /\ cardState[card] # "leased"
    /\ L!CheckTransition(cardState[card], "active")
    /\ cardState' = [cardState EXCEPT ![card] = "active"]
    /\ revoked' = revoked \cup {card}
    /\ UNCHANGED <<cycleVars, revisions, binding, leaseVars, resuming>>

-----------------------------------------------------------------------------

Next ==
    \/ \E cycle \in Cycles :
          \/ CreateCycle(cycle) \/ MigrateLegacy(cycle)
          \/ ActivateCycle(cycle) \/ SealCycle(cycle) \/ AbandonCycle(cycle)
          \/ \E cards \in SUBSET Cards : PersistPlan(cycle, cards)
    \/ \E card \in Cards :
          \/ \E record \in Drafts[card] : ActivateCard(card, record) \/ Revise(card, record)
          \/ AbandonCard(card) \/ Start(card) \/ Block(card)
          \/ CheckResume(card) \/ Resume(card) \/ RefuseResume(card)
          \/ Reclaim(card) \/ Close(card) \/ Revoke(card) \/ RemoveLeftover(card)
          \/ \E to \in L!CardStates : Progress(card, to)
    \/ \E cards \in SUBSET Cards :
          \/ StartBatch(cards)
          \/ \E made \in SUBSET cards : FailStart(cards, made)

Spec == Init /\ [][Next]_vars
-----------------------------------------------------------------------------
(***************************************************************************)
(* What the allocation must guarantee.                                     *)
(***************************************************************************)

TypeOK ==
    /\ cycleStatus \in [Cycles -> L!CycleStatuses \cup {"absent"}]
    /\ members \in [Cycles -> SUBSET Cards]
    /\ legacy \subseteq Cycles
    /\ cardState \in [Cards -> L!CardStates]
    /\ revisions \in [Cards -> Seq(Revision)]
    /\ binding \in [Cards -> Cycles \cup {None}]
    /\ lease \in [Cards -> [revision : Nat, held : BOOLEAN]]
    /\ locator \in [Cards -> Nat]
    /\ \A card \in Cards : lease[card].revision <= Len(revisions[card])
    /\ \A card \in Cards : locator[card] <= Len(revisions[card])
    /\ branches \subseteq Cards /\ resuming \subseteq Cards /\ revoked \subseteq Cards

\* No two cards of active cycles claim the same area while both hold their
\* claims, whichever cycles they belong to and however they were revised.
ActiveClaimsDisjoint ==
    \A mine, theirs \in Cycles : {cycleStatus[mine], cycleStatus[theirs]} = {"active"} =>
        \A card \in members[mine], other \in members[theirs] :
            card # other /\ HoldsClaims(card) /\ HoldsClaims(other)
                => Current(card).scope \cap Current(other).scope = {}

\* However cards are revised, and into whatever cycle, no card ever waits for
\* itself: each check looks at one cycle, the order it keeps is everyone's.
DependenciesAcyclic ==
    Acyclic([card \in Cards |-> IF Activated(card) THEN Current(card).depends ELSE {}], Cards)

\* A plan keeps covering exactly the members of its cycle: neither activation
\* nor revision changes what has been distributed.
PlanCoversMembers == \A cycle \in Cycles : HasPlan(cycle) => Planned(cycle) = members[cycle]

StaysIn(card, cycle) == \A i \in DOMAIN revisions[card] : revisions[card][i].cycle = cycle

\* A sequential card that never left its cycle has been allocated only after
\* every card planned before it was accepted, resumed and reclaimed or not.
SequentialOrder ==
    \A cycle \in Cycles : HasPlan(cycle) =>
        \A card \in Planned(cycle) :
            /\ plan[cycle].distribution[card] = "sequential"
            /\ StaysIn(card, cycle) /\ lease[card] # NoLease
            => \A other \in Priors(plan[cycle], card) :
                  L!IsAccepted(cardState[other]) \/ cardState[other] = "abandoned"

\* Of two planned cards under way at once neither is sequential, unless one of
\* them was taken back by revoking its handoff, which asks no plan.
SequentialWorkAlone ==
    \A cycle \in Cycles : HasPlan(cycle) =>
        \A card, other \in Planned(cycle) :
            /\ card # other /\ Underway(card) /\ Underway(other)
            /\ StaysIn(card, cycle) /\ StaysIn(other, cycle)
            /\ {card, other} \cap revoked = {}
            => plan[cycle].distribution[card] # "sequential"

\* A joint set is allocated as a whole: a start that fails on a later member
\* leaves branches behind but no member leased without the others.
JointTogether ==
    \A cycle \in Cycles : HasPlan(cycle) =>
        \A card, other \in Planned(cycle) :
            /\ plan[cycle].distribution[card] = "joint_integration"
            /\ plan[cycle].distribution[other] = "joint_integration"
            /\ StaysIn(card, cycle) /\ StaysIn(other, cycle)
            => (lease[card] = NoLease <=> lease[other] = NoLease)

\* A distributed plan is honoured, whatever is revised, moved, handed over or
\* fails half-way: it covers its cycle, its order is the order of the work, its
\* sequential cards work alone and its joint set starts as one.
PlanHonoured ==
    /\ TypeOK
    /\ PlanCoversMembers
    /\ SequentialOrder
    /\ SequentialWorkAlone
    /\ JointTogether

\* Work that was begun has its lease and its worktree until it is closed: no
\* revision, handover, failed start or clean-up takes them from under it.
WorkIsLeased ==
    \A card \in Cards :
        cardState[card] \notin {"draft", "ready", "closed", "abandoned"}
            => lease[card].held /\ card \in branches

\* Every command moves a card along the lifecycle, or revises it: Lifecycle's
\* specification is implemented.
CardsFollowLifecycle == L!Spec

\* "Invariant 7.3.2: active cards may not overlap write scopes or exclusive
\* resources": said of active cards, of whatever cycle.
ActiveWorkDisjoint ==
    \A card, other \in Cards :
        card # other /\ cardState[card] = "active" /\ cardState[other] = "active"
            => Current(card).scope \cap Current(other).scope = {}

\* "Performs the changes_requested/blocked to active transition": `work resume`
\* takes back only work that waits for its actor.
ResumeTakesUpWaitingWork == [][\A card \in Cards : Resume(card) => ResumesToActive(card)]_vars
=============================================================================
