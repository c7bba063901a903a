------------------------ MODULE IntegrationPipeline ------------------------
(***************************************************************************)
(* An integration from `integration prepare` to `archive close`: prepare,  *)
(* merge, land, verify, review, exceptions, `acceptance record`, promote,  *)
(* abandon and close, against the cards, cycles and final authorization    *)
(* policy that other commands move meanwhile.                              *)
(*                                                                         *)
(* Commands run one after another (ProjectLock), so each is one step; what *)
(* a crash leaves of a promotion is Promotion's subject. A command that    *)
(* refuses takes no step. Mode `batch` admits whatever `individual` does   *)
(* and is what every preparation uses; cards carry no lesson obligations,  *)
(* release invariants or shared artifacts, whose checks only refuse.       *)
(* Every cycle has a bound plan, so sealed means final. The landing commit *)
(* of an integration is identified with the integration, and a commit of   *)
(* the protected branch with the sequence of landings that lead to it.     *)
(***************************************************************************)
EXTENDS DependencyOrder, Integers

CONSTANTS
    Cards,       \* numbers: a card's identifier
    Cycles,
    CycleOf,     \* the cycle that declares each card
    DependsOn,   \* the dependencies each card declares
    Joint,       \* cards their plan distributes as joint_integration
    Groups,      \* atomic groups that may be declared
    Conflicts,   \* pairs of cards whose candidates do not merge
    Limit,       \* integration failures the convergence policy allows a cycle
    Actors,
    Author,      \* who implemented each card
    Authorizers, \* those each final authorization policy names
    Scenarios    \* the cards there are, and how often each thing happens

\* What may happen to the cards and cycles beside the integrations; a group
\* may be declared before any of its cards integrates, or late.
AllMoves == {"resume", "abandon card", "seal", "abandon cycle", "group", "late group",
             "fail", "dirty", "rebaseline"}

ASSUME PipelineAssumption ==
    /\ IsFiniteSet(Cards) /\ Cards \subseteq Nat \ {0}
    /\ CycleOf \in [Cards -> Cycles]
    /\ DependsOn \in [Cards -> SUBSET Cards]
    /\ Joint \subseteq Cards
    /\ Groups \subseteq SUBSET Cards
    /\ Conflicts \subseteq SUBSET Cards
    /\ Limit \in Nat \ {0}
    /\ Author \in [Cards -> Actors]
    /\ \A s \in Scenarios :
        /\ s.cards \subseteq Cards
        /\ s.actors \subseteq Actors
        /\ s.moves \subseteq AllMoves
        /\ {s.commits, s.integrations, s.policies, s.exceptions, s.foreign} \subseteq Nat
        /\ \A p \in 1 .. s.policies : Authorizers[p] \subseteq Actors

VARIABLES
    scenario,     \* the scenario played: never changes
    authority,    \* the protected branch: integrations landed, Foreign commits
    card,         \* state, approved candidate and branch head of each card
    cycle,        \* status and atomic groups of each cycle
    integrations, \* integration records, by number, with what hangs on them
    policy,       \* revision of the final authorization policy, 0 when there is none
    failures,     \* integration failures counted against each cycle
    unrecorded,   \* integrations whose merge conflicted, the fact not yet written
    stuck         \* the integration whose promotion or cleanup broke off, or 0

recordVars == <<card, cycle, integrations, policy, failures>>
vars == <<scenario, authority, recordVars, unrecorded, stuck>>

Foreign == 0

Statuses == {"prepared", "verified", "reviewed", "accepted", "promoted", "archived",
             "blocked", "abandoned"}

StatusSuccessors ==
    [prepared |-> {"verified", "blocked", "abandoned"},
     verified |-> {"reviewed", "blocked", "abandoned"},
     reviewed |-> {"accepted", "blocked", "abandoned"},
     accepted |-> {"promoted", "abandoned"},
     promoted |-> {"archived"},
     archived |-> {},
     blocked |-> {"prepared", "abandoned"},
     abandoned |-> {}]

HoldsLease(status) == status \notin {"archived", "abandoned"}

\* The record, with the verification, the decision, the exceptions and the
\* archive that are kept beside it; each card it combines is pinned to its
\* approved candidate.
IsIntegrationRecord(record) ==
    /\ record.cycle \in Cycles
    /\ record.status \in Statuses
    /\ record.candidate \in [ToSet(record.members) -> Nat]
    /\ {record.final, record.merged, record.landing} \subseteq BOOLEAN
    /\ record.verifier \in Actors \cup {"none"}
    /\ record.decision \in {"none", "accepted", "rejected"}
    /\ record.exceptions \in Seq([policy : Nat, resolved : BOOLEAN])
    /\ record.archive \subseteq Nat \X Nat

\* Cards the scenario leaves out are drafts nobody registers.
CardState == [c \in Cards |-> IF c \in scenario.cards THEN card[c].state ELSE "draft"]

L == INSTANCE Lifecycle WITH cardState <- CardState

CardsOf(y) == {c \in scenario.cards : CycleOf[c] = y}

MembersOf(i) == ToSet(integrations[i].members)

Landed == {i \in ToSet(authority) : i # Foreign}

Numbers == DOMAIN integrations

Init ==
    /\ scenario \in Scenarios
    /\ authority = <<>>
    /\ card = [c \in scenario.cards |-> [state |-> "approved", candidate |-> 1, head |-> 1]]
    /\ cycle = [y \in Cycles |-> [status |-> "active", groups |-> {}]]
    /\ integrations = <<>>
    /\ policy = 0
    /\ failures = [y \in Cycles |-> 0]
    /\ unrecorded = {}
    /\ stuck = 0

-----------------------------------------------------------------------------
(***************************************************************************)
(* Cards and cycles.                                                       *)
(***************************************************************************)

\* A promotion that could not settle, or a cleanup that broke off, leaves a
\* journal entry that asks for recovery: every command refuses until it is
\* resolved.
CommandsRun == stuck = 0

\* The author commits in the card's worktree, whatever the records say.
Commit(c) ==
    /\ card[c].head <= scenario.commits
    /\ card[c].state # "closed"
    /\ card' = [card EXCEPT ![c].head = @ + 1]
    /\ UNCHANGED <<scenario, authority, cycle, integrations, policy, failures, unrecorded, stuck>>

MoveCard(c, to) ==
    /\ CommandsRun
    /\ L!CheckTransition(card[c].state, to)
    /\ card' = [card EXCEPT ![c].state = to]
    /\ UNCHANGED <<scenario, authority, cycle, integrations, policy, failures, unrecorded, stuck>>

\* `work resume` of an approved card; it comes back approved at its head as
\* Delivery has it.
Resume(c) ==
    /\ "resume" \in scenario.moves
    /\ card[c].state = "approved"
    /\ MoveCard(c, "active")

Deliver(c) ==
    /\ CommandsRun
    /\ card[c].state = "active"
    /\ card' = [card EXCEPT ![c].state = "approved", ![c].candidate = card[c].head]
    /\ UNCHANGED <<scenario, authority, cycle, integrations, policy, failures, unrecorded, stuck>>

AbandonCard(c) ==
    /\ "abandon card" \in scenario.moves
    /\ MoveCard(c, "abandoned")

MoveCycle(y, to) ==
    /\ CommandsRun
    /\ L!CheckCycleTransition(cycle[y].status, to)
    /\ cycle' = [cycle EXCEPT ![y].status = to]
    /\ UNCHANGED <<scenario, authority, card, integrations, policy, failures, unrecorded, stuck>>

SealCycle(y) == "seal" \in scenario.moves /\ MoveCycle(y, "sealed")

AbandonCycle(y) == "abandon cycle" \in scenario.moves /\ MoveCycle(y, "abandoned")

\* No card in two groups, none of another cycle; the cycle's status and the
\* states of the cards are not asked.
DeclareGroup(y, group) ==
    /\ {"group", "late group"} \cap scenario.moves # {}
    /\ CommandsRun
    /\ group \subseteq CardsOf(y)
    /\ \/ "late group" \in scenario.moves
       \/ \A c \in group : card[c].state \in {"approved", "active"}
    /\ Cardinality(group) >= 2
    /\ \A other \in cycle[y].groups : other \cap group = {}
    /\ cycle' = [cycle EXCEPT ![y].groups = @ \cup {group}]
    /\ UNCHANGED <<scenario, authority, card, integrations, policy, failures, unrecorded, stuck>>

\* `project set-final-authorization-policy`.
SetFinalAuthorizationPolicy ==
    /\ CommandsRun
    /\ policy < scenario.policies
    /\ policy' = policy + 1
    /\ UNCHANGED <<scenario, authority, card, cycle, integrations, failures, unrecorded, stuck>>

\* `disposition rebaseline` retires the digest the failures were counted under.
Rebaseline ==
    /\ "rebaseline" \in scenario.moves
    /\ CommandsRun
    /\ failures' = [y \in Cycles |-> 0]
    /\ UNCHANGED <<scenario, authority, card, cycle, integrations, policy, unrecorded, stuck>>

ForeignPush ==
    /\ Cardinality({k \in DOMAIN authority : authority[k] = Foreign}) < scenario.foreign
    /\ authority' = Append(authority, Foreign)
    /\ UNCHANGED <<scenario, recordVars, unrecorded, stuck>>

-----------------------------------------------------------------------------
(***************************************************************************)
(* integration prepare.                                                    *)
(***************************************************************************)

\* require_cycle_convergence_budget: the first thing every step towards
\* promotion asks.
WithinBudget(y) == failures[y] < Limit

\* assess: approved, and the approval is of the branch as it is now.
Ready(c) == card[c].state = "approved" /\ card[c].head = card[c].candidate

\* What `integration ready` lists.
ReadyCards(y) == {c \in CardsOf(y) : Ready(c)}

\* An omitted request selects every ready card.
Select(y, requested) == IF requested = {} THEN ReadyCards(y) ELSE requested

\* Faulty: an approved dependency will do.
CheckDependenciesApproved(y, selected) ==
    \A c \in selected : \A d \in DependsOn[c] \ selected :
        d \in CardsOf(y) /\ card[d].state \in {"approved", "landed", "closed"}

CheckDependencies(y, selected) ==
    \A c \in selected : \A d \in DependsOn[c] \ selected :
        d \in CardsOf(y) /\ card[d].state \in {"landed", "closed"}

CheckAtomicGroups(y, selected) ==
    \A group \in cycle[y].groups : group \cap selected = {} \/ group \subseteq selected

\* Joint cards are prepared together and with nothing else.
RequireExecutionClassification(y, selected) ==
    LET planned == Joint \cap CardsOf(y)
    IN  planned \cap selected = {} \/ planned = selected

\* A final integration accounts for every card: abandoned or selected.
FinalCycleBinding(y, selected) ==
    \A c \in CardsOf(y) : card[c].state = "abandoned" \/ c \in selected

IsOpenFor(y) ==
    \E i \in Numbers : integrations[i].cycle = y /\ HoldsLease(integrations[i].status)

\* A sealed cycle is integrated whole, unless `cycle migrate-legacy` recorded
\* that it predates plans, which no cycle here does.
ResolveFinalMode(y) == cycle[y].status = "sealed"

BuildPlan(y, requested) ==
    LET final == ResolveFinalMode(y)
        selected == Select(y, requested)
    IN  /\ ~IsOpenFor(y)
        /\ final => requested = {}
        /\ \A c \in selected : Ready(c)
        /\ final => FinalCycleBinding(y, selected)
        /\ selected = {} => final /\ CardsOf(y) # {}
        /\ CheckDependencies(y, selected)
        /\ CheckAtomicGroups(y, selected)
        /\ RequireExecutionClassification(y, selected)
        /\ Orders(selected, DependsOn)

\* The sealed digest of a final integration is the cycle record it was taken
\* from.
BuildRecord(y, selected) ==
    [cycle |-> y, status |-> "prepared",
     members |-> TopologicalOrder(selected, DependsOn),
     candidate |-> [c \in selected |-> card[c].candidate],
     final |-> ResolveFinalMode(y), seal |-> cycle[y],
     expected |-> authority, merged |-> FALSE, landing |-> FALSE,
     verifier |-> "none",
     decision |-> "none", under |-> 0, exceptions |-> <<>>, archive |-> {}]

CardsTo(cards, to) ==
    card' = [c \in scenario.cards |->
                IF c \in cards THEN [card[c] EXCEPT !.state = to] ELSE card[c]]

Prepare(y, requested) ==
    /\ CommandsRun
    /\ Len(integrations) < scenario.integrations
    /\ WithinBudget(y)
    /\ BuildPlan(y, requested)
    /\ integrations' = Append(integrations, BuildRecord(y, Select(y, requested)))
    /\ CardsTo(Select(y, requested), "integrating")
    /\ UNCHANGED <<scenario, authority, cycle, policy, failures, unrecorded, stuck>>

-----------------------------------------------------------------------------
(***************************************************************************)
(* merge, land, verify, review.                                            *)
(***************************************************************************)

SameButIntegrations ==
    UNCHANGED <<scenario, authority, card, cycle, policy, failures, unrecorded, stuck>>

Advancing(i) == CommandsRun /\ WithinBudget(integrations[i].cycle)

Moves(i, to) == to \in StatusSuccessors[integrations[i].status]

\* require_fresh_authority.
Fresh(i) == authority = integrations[i].expected

\* require_pinned_candidates: no branch has moved since the plan.
Pinned(i) == \A c \in MembersOf(i) : card[c].head = integrations[i].candidate[c]

LandedCards == UNION {MembersOf(i) : i \in Landed}

\* The conflicts Git reports when a candidate is merged with what is held.
MergeTree(c, held) == {pair \in Conflicts : c \in pair /\ pair \ {c} \subseteq held}

\* What the integration holds when its n-th member is merged.
HeldBefore(i, n) == LandedCards \cup ToSet(SubSeq(integrations[i].members, 1, n - 1))

\* simulate: each member in turn merges with what the base and the members
\* before it hold.
MergesCleanly(i) ==
    \A n \in DOMAIN integrations[i].members :
        MergeTree(integrations[i].members[n], HeldBefore(i, n)) = {}

\* A merge in the worktree that has nothing to add is a conflict too.
Contributes(i) ==
    \A n \in DOMAIN integrations[i].members :
        integrations[i].members[n] \notin HeldBefore(i, n)

\* build_integration, in a worktree of its own that is removed on every path:
\* the smoke gates may leave it dirty. One that fails refuses the command, and
\* that is no step.
LeavesClean(clean) == clean \/ "dirty" \in scenario.moves

Mergeable(i) ==
    /\ Advancing(i)
    /\ integrations[i].status = "prepared"
    /\ ~integrations[i].merged
    /\ Fresh(i)
    /\ Pinned(i)

Merge(i) ==
    /\ Mergeable(i)
    /\ MergesCleanly(i)
    /\ Contributes(i)
    /\ integrations' = [integrations EXCEPT ![i].merged = TRUE]
    /\ SameButIntegrations

\* A conflict rolls the command's transaction back; the failure is written by
\* a second one, which other commands may precede and a crash may prevent.
MergeConflicts(i) ==
    /\ Mergeable(i)
    /\ \E clean \in BOOLEAN :
        /\ LeavesClean(clean)
        /\ ~(MergesCleanly(i) /\ Contributes(i) /\ clean)
    /\ unrecorded' = unrecorded \cup {i}
    /\ UNCHANGED <<scenario, authority, recordVars, stuck>>

RecordIntegrationFailure(i) ==
    /\ CommandsRun
    /\ i \in unrecorded
    /\ failures' = [failures EXCEPT ![integrations[i].cycle] = @ + 1]
    /\ unrecorded' = unrecorded \ {i}
    /\ UNCHANGED <<scenario, authority, card, cycle, integrations, policy, stuck>>

LoseIntegrationFailure(i) ==
    /\ i \in unrecorded
    /\ unrecorded' = unrecorded \ {i}
    /\ UNCHANGED <<scenario, authority, recordVars, stuck>>

\* What a landing is built from: a merged integration, over the branch it was
\* prepared against.
LandingInputs(i) ==
    /\ integrations[i].status = "prepared"
    /\ integrations[i].merged
    /\ Fresh(i)

\* The commit has the expected branch and the merge for parents and is kept by
\* a ref of its own; no branch moves.
CreateLanding(record) == [record EXCEPT !.landing = TRUE]

Land(i) ==
    /\ Advancing(i)
    /\ ~integrations[i].landing
    /\ LandingInputs(i)
    /\ integrations' = [integrations EXCEPT ![i] = CreateLanding(@)]
    /\ SameButIntegrations

\* verify_landing: what is verified is the landing that was built, and the
\* gates it runs may pass or fail.
VerifyLanding(i, passed) ==
    /\ integrations[i].landing
    /\ passed \/ "fail" \in scenario.moves

\* There is one verification record, whatever it says and however often it is
\* made; only a pass moves the status.
StoreVerification(record, actor, passed) ==
    [record EXCEPT !.verifier = actor, !.status = IF passed THEN "verified" ELSE @]

Verify(i, actor, passed) ==
    /\ Advancing(i)
    /\ Moves(i, "verified")
    /\ VerifyLanding(i, passed)
    /\ integrations' = [integrations EXCEPT ![i] = StoreVerification(@, actor, passed)]
    /\ SameButIntegrations

Implementers(i) == {Author[c] : c \in MembersOf(i)}

RefuseVerifierReviewing(i, reviewer) == reviewer # integrations[i].verifier

RefuseMemberImplementerReviewing(i, reviewer) == reviewer \notin Implementers(i)

Review(i, reviewer) ==
    /\ Advancing(i)
    /\ Moves(i, "reviewed")
    /\ RefuseVerifierReviewing(i, reviewer)
    /\ RefuseMemberImplementerReviewing(i, reviewer)
    /\ integrations' = [integrations EXCEPT ![i].status = "reviewed"]
    /\ SameButIntegrations

-----------------------------------------------------------------------------
(***************************************************************************)
(* Exceptions and the final authorization.                                 *)
(***************************************************************************)

\* The cycle is still, to the byte, the one the integration was prepared for.
SealStands(i) ==
    LET record == integrations[i]
    IN  cycle[record.cycle].status = "sealed" /\ cycle[record.cycle] = record.seal

\* exceptions_for refuses altogether when one was raised under another policy.
ExceptionsReadable(i) ==
    \A k \in DOMAIN integrations[i].exceptions : integrations[i].exceptions[k].policy = policy

NoPendingException(i) ==
    /\ ExceptionsReadable(i)
    /\ \A k \in DOMAIN integrations[i].exceptions : integrations[i].exceptions[k].resolved

ExceptionBindings(i) ==
    /\ integrations[i].final
    /\ integrations[i].status \in {"reviewed", "accepted"}
    /\ policy > 0
    /\ SealStands(i)

RaiseException(i) ==
    /\ CommandsRun
    /\ Len(integrations[i].exceptions) < scenario.exceptions
    /\ ExceptionBindings(i)
    /\ NoPendingException(i)
    /\ integrations' = [integrations EXCEPT
            ![i].exceptions = Append(@, [policy |-> policy, resolved |-> FALSE])]
    /\ SameButIntegrations

ValidateExceptionAuthorizer(actor) == actor \in Authorizers[policy]

ResolveException(i, k, actor) ==
    /\ CommandsRun
    /\ ExceptionBindings(i)
    /\ ValidateExceptionAuthorizer(actor)
    /\ ExceptionsReadable(i)
    /\ ~integrations[i].exceptions[k].resolved
    /\ integrations' = [integrations EXCEPT ![i].exceptions[k].resolved = TRUE]
    /\ SameButIntegrations

\* validate_final_authorization.
MayAuthorize(i, actor) ==
    integrations[i].final => policy > 0 /\ actor \in Authorizers[policy] /\ SealStands(i)

RequireReviewed(i) == integrations[i].status = "reviewed"

\* A second decision is refused, whatever the first one was.
RefuseExistingAcceptance(i) == integrations[i].decision = "none"

RefuseAuthorAccepting(i, actor) == actor \notin Implementers(i)

MayAccept(i, actor) ==
    /\ Advancing(i)
    /\ RequireReviewed(i)
    /\ NoPendingException(i)
    /\ RefuseExistingAcceptance(i)
    /\ RefuseAuthorAccepting(i, actor)
    /\ MayAuthorize(i, actor)

BuildAcceptance(record, decision) ==
    [record EXCEPT !.decision = decision, !.under = policy]

Accept(i, actor) ==
    /\ MayAccept(i, actor)
    /\ \A c \in MembersOf(i) : L!CheckTransition(card[c].state, "accepted")
    /\ integrations' = [integrations EXCEPT
            ![i] = [BuildAcceptance(@, "accepted") EXCEPT !.status = "accepted"]]
    /\ CardsTo(MembersOf(i), "accepted")
    /\ UNCHANGED <<scenario, authority, cycle, policy, failures, unrecorded, stuck>>

\* A rejection is recorded and advances nothing.
Reject(i, actor) ==
    /\ MayAccept(i, actor)
    /\ integrations' = [integrations EXCEPT ![i] = BuildAcceptance(@, "rejected")]
    /\ SameButIntegrations

-----------------------------------------------------------------------------
(***************************************************************************)
(* promote, abandon, close.                                                *)
(***************************************************************************)

\* Faulty: the decision was validated when it was recorded.
AuthorizedOnce(i) == integrations[i].final => policy > 0 /\ SealStands(i)

\* validate_final_authorization_for_promotion.
AuthorizationStands(i) ==
    integrations[i].final => integrations[i].under = policy /\ policy > 0 /\ SealStands(i)

RefuseAuthorPromoting(i, actor) == actor \notin Implementers(i)

\* Faulty: landing has checked that the branch did not move.
CheckPromotionOnce(i, actor) ==
    /\ Advancing(i)
    /\ integrations[i].status = "accepted"
    /\ AuthorizationStands(i)
    /\ NoPendingException(i)
    /\ RefuseAuthorPromoting(i, actor)

\* Faulty: the budget was asked for when the integration was accepted.
CheckPromotionUnbudgeted(i, actor) ==
    /\ CommandsRun
    /\ integrations[i].status = "accepted"
    /\ AuthorizationStands(i)
    /\ NoPendingException(i)
    /\ RefuseAuthorPromoting(i, actor)
    /\ Fresh(i)

CheckPromotion(i, actor) ==
    /\ Advancing(i)
    /\ integrations[i].status = "accepted"
    /\ AuthorizationStands(i)
    /\ NoPendingException(i)
    /\ RefuseAuthorPromoting(i, actor)
    /\ Fresh(i)

\* settle_promotion moves every member, or refuses at the first it cannot.
Settles(i) == \A c \in MembersOf(i) : card[c].state \in {"accepted", "landed"}

Publish(i) == authority' = Append(authority, i)

Promote(i, actor) ==
    /\ CheckPromotion(i, actor)
    /\ Publish(i)
    /\ \/ /\ Settles(i)
          /\ integrations' = [integrations EXCEPT ![i].status = "promoted"]
          /\ CardsTo(MembersOf(i), "landed")
          /\ UNCHANGED stuck
       \/ /\ ~Settles(i)
          /\ stuck' = i
          /\ UNCHANGED <<card, integrations>>
    /\ UNCHANGED <<scenario, cycle, policy, failures, unrecorded>>

\* Cards past `integrating` stay where they are.
Abandon(i) ==
    /\ CommandsRun
    /\ Moves(i, "abandoned")
    /\ integrations' = [integrations EXCEPT ![i].status = "abandoned"]
    /\ CardsTo({c \in MembersOf(i) : card[c].state = "integrating"}, "approved")
    /\ UNCHANGED <<scenario, authority, cycle, policy, failures, unrecorded, stuck>>

-----------------------------------------------------------------------------
(***************************************************************************)
(* archive create, verify and close.                                       *)
(***************************************************************************)

\* One ref for the landing commit and one for each member's candidate: "a
\* squashed or rebased landing tree does not contain" them.
RefsFor(i) == {<<0, i>>} \cup {<<c, integrations[i].candidate[c]>> : c \in MembersOf(i)}

RequirePromoted(i) == integrations[i].status = "promoted"

ArchiveCreate(i) ==
    /\ CommandsRun
    /\ RequirePromoted(i)
    /\ integrations' = [integrations EXCEPT ![i].archive = RefsFor(i)]
    /\ SameButIntegrations

\* load_archive and verify; nobody else moves the harness's refs.
ArchiveIntact(i) == integrations[i].archive = RefsFor(i)

Kept(c) == UNION {{ref[2] : ref \in {r \in integrations[i].archive : r[1] = c}} : i \in Numbers}

\* Work on the card's branch, or in its worktree, that no other ref reaches.
UnarchivedCommits(c) == {n \in 1 .. card[c].head : \A kept \in Kept(c) : n > kept}

\* How a close may find the checkouts: the members whose worktree holds work
\* that was never committed, and whether the branch the operator is on holds
\* what was landed ("sitting on a feature branch, which is the ordinary state").
Checkouts(i) == [dirty : SUBSET MembersOf(i), holdsLanded : BOOLEAN]

\* What clean_up_card and its preview both refuse.
SafeToCleanUp(c, found) == UnarchivedCommits(c) = {} /\ c \notin found.dirty

\* `git branch -d` refuses, besides, what the branch checked out does not hold.
CleanUpCard(c, found) ==
    /\ SafeToCleanUp(c, found)
    /\ found.holdsLanded
    /\ L!CheckTransition(card[c].state, "closed")

PreviewClose(i, found) ==
    /\ Moves(i, "archived")
    /\ ArchiveIntact(i)
    /\ \A c \in MembersOf(i) : SafeToCleanUp(c, found)

\* Cleaning up has begun when a card is found that may not be cleaned up: the
\* command fails beyond what a rollback undoes.
Close(i, found) ==
    /\ CommandsRun
    /\ Moves(i, "archived")
    /\ ArchiveIntact(i)
    /\ \/ /\ \A c \in MembersOf(i) : CleanUpCard(c, found)
          /\ integrations' = [integrations EXCEPT ![i].status = "archived"]
          /\ CardsTo(MembersOf(i), "closed")
          /\ UNCHANGED stuck
       \/ /\ \E c \in MembersOf(i) : ~CleanUpCard(c, found)
          /\ stuck' = i
          /\ UNCHANGED <<card, integrations>>
    /\ UNCHANGED <<scenario, authority, cycle, policy, failures, unrecorded>>

Next ==
    \/ \E c \in scenario.cards : Commit(c) \/ Resume(c) \/ Deliver(c) \/ AbandonCard(c)
    \/ \E y \in Cycles :
        \/ SealCycle(y)
        \/ AbandonCycle(y)
        \/ \E group \in Groups : DeclareGroup(y, group)
        \/ \E requested \in SUBSET CardsOf(y) : Prepare(y, requested)
    \/ \E i \in Numbers :
        \/ Merge(i)
        \/ MergeConflicts(i)
        \/ RecordIntegrationFailure(i)
        \/ LoseIntegrationFailure(i)
        \/ Land(i)
        \/ RaiseException(i)
        \/ Abandon(i)
        \/ ArchiveCreate(i)
        \/ \E found \in Checkouts(i) : Close(i, found)
        \/ \E actor \in scenario.actors :
            \/ \E passed \in BOOLEAN : Verify(i, actor, passed)
            \/ Review(i, actor)
            \/ Accept(i, actor)
            \/ Reject(i, actor)
            \/ Promote(i, actor)
            \/ \E k \in DOMAIN integrations[i].exceptions : ResolveException(i, k, actor)
    \/ SetFinalAuthorizationPolicy
    \/ Rebaseline
    \/ ForeignPush

Spec == Init /\ [][Next]_vars
-----------------------------------------------------------------------------
(***************************************************************************)
(* Properties.                                                             *)
(***************************************************************************)

\* The type invariant.
TypeOK ==
    /\ scenario \in Scenarios
    /\ authority \in Seq(Nat)
    /\ card \in [scenario.cards -> [state : L!CardStates, candidate : Nat, head : Nat]]
    /\ cycle \in [Cycles -> [status : L!CycleStatuses, groups : SUBSET Groups]]
    /\ \A i \in Numbers :
        /\ IsIntegrationRecord(integrations[i])
        /\ MembersOf(i) \subseteq CardsOf(integrations[i].cycle)
    /\ policy \in 0 .. scenario.policies
    /\ failures \in [Cycles -> Nat]
    /\ unrecorded \subseteq Numbers
    /\ stuck \in {0} \cup Numbers

\* A card's state and its integrations agree (run_prepare: "what stops a second
\* integration from selecting the same candidate"): it is integrating for one
\* undecided integration only, and each integration's cards are as far as it
\* is, unless they were abandoned.
CardsFollowIntegration ==
    /\ \A c \in scenario.cards :
        card[c].state = "integrating" =>
            Cardinality({i \in Numbers : c \in MembersOf(i)
                /\ integrations[i].status \in {"prepared", "verified", "reviewed"}}) = 1
    /\ \A i \in Numbers : \A c \in MembersOf(i) :
        /\ integrations[i].status \in {"prepared", "verified", "reviewed"}
              => card[c].state \in {"integrating", "abandoned"}
        /\ integrations[i].status = "accepted" => card[c].state \in {"accepted", "abandoned"}
        /\ integrations[i].status = "promoted" => card[c].state = "landed"
        /\ integrations[i].status = "archived" => card[c].state = "closed"

\* Nothing that lands is lost or built on anything but what was there: each
\* landing in the protected branch was prepared against the branch before it
\* (expected_main_sha), whatever was landed or pushed in between.
LandingsBuildOnAuthority ==
    \A k \in DOMAIN authority :
        authority[k] # Foreign =>
            integrations[authority[k]].expected = SubSeq(authority, 1, k - 1)

\* What lands is what was approved, once and in order: over all the landings
\* of the branch each card appears once, after its dependencies, and at the
\* candidate it was last approved at.
LandedInOrder ==
    /\ \A i \in Landed : \A c \in MembersOf(i) :
        integrations[i].candidate[c] = card[c].candidate
    /\ \A j, k \in DOMAIN authority :
        j # k /\ Foreign \notin {authority[j], authority[k]} =>
            MembersOf(authority[j]) \cap MembersOf(authority[k]) = {}
    /\ \A k \in DOMAIN authority : authority[k] # Foreign =>
        LET members == integrations[authority[k]].members
        IN  \A n \in DOMAIN members : DependsOn[members[n]] \subseteq
                ToSet(SubSeq(members, 1, n - 1))
                \cup UNION {MembersOf(i) : i \in ToSet(SubSeq(authority, 1, k - 1)) \ {Foreign}}

\* Cards that must land together do: "A group of cards that must land together
\* or not at all" (domain/cycle.rs:148), and likewise joint cards.
LandsWhole ==
    \A i \in Landed :
        LET y == integrations[i].cycle
        IN  \A whole \in cycle[y].groups \cup {Joint \cap CardsOf(y)} :
                whole \cap MembersOf(i) = {} \/ whole \subseteq MembersOf(i)

\* A final landing finishes its cycle: every card of the cycle is in it or
\* abandoned (final_cycle_binding), however often it was prepared anew.
FinalCoversCycle ==
    \A i \in Landed : integrations[i].final =>
        \A c \in CardsOf(integrations[i].cycle) :
            c \in MembersOf(i) \/ card[c].state = "abandoned"

\* "An escalated cycle cannot be advanced toward promotion" (integration.rs:
\* require_cycle_convergence_budget), by whichever command and whatever had
\* already been done: until a rebaseline its integrations are only abandoned,
\* archived, closed, or raise and resolve exceptions, and none is prepared or published.
Step(i) == [integrations[i] EXCEPT !.exceptions = <<>>, !.archive = {}]

EscalatedCycleStands ==
    [][\A y \in Cycles : failures[y] >= Limit =>
        /\ \A i \in DOMAIN integrations' : integrations'[i].cycle = y =>
            /\ i \in Numbers
            /\ \/ Step(i)' = Step(i)
               \/ integrations'[i].status \in {"abandoned", "archived"}
        /\ authority' # authority /\ Foreign # authority'[Len(authority')]
              => integrations[authority'[Len(authority')]].cycle # y]_vars

\* What authorizes a final promotion still stands at the moment the branch
\* moves, whatever happened since the decision: the cycle is the one sealed,
\* the policy the one decided under, and no exception is open or unreadable.
PublishesAuthorized ==
    [][LET i == authority'[Len(authority')]
       IN  authority' # authority /\ i # Foreign /\ integrations[i].final =>
            /\ cycle[integrations[i].cycle] = integrations[i].seal
            /\ integrations[i].under = policy
            /\ \A k \in DOMAIN integrations[i].exceptions :
                integrations[i].exceptions[k] = [policy |-> policy, resolved |-> TRUE]]_vars

\* "All of them are verified before step 9 moves the authority, because that
\* step is the only irreversible one" (integration.rs:4362): no promotion
\* publishes and then cannot be recorded.
PublishedSettles == stuck = 0

\* A command that breaks off beyond recovery has landed what it was to land,
\* whole: a promotion breaks off over an accepted card abandoned before it was
\* recorded, and over nothing else; a cleanup with its archive complete, so
\* that the landing and every candidate are kept, and with its cards landed.
BreaksOffAfterLanding ==
    stuck # 0 =>
        /\ stuck \in Landed
        /\ \/ /\ integrations[stuck].status = "accepted"
              /\ \E c \in MembersOf(stuck) : card[c].state = "abandoned"
           \/ /\ integrations[stuck].status = "promoted"
              /\ ArchiveIntact(stuck)
              /\ \A c \in MembersOf(stuck) : card[c].state = "landed"

\* "A branch holding commits no other ref can reach must not be deleted,
\* whatever the card's state says" (commands/archive.rs:343): every commit of a
\* closed card's branch is kept by the archive of the integration it landed in.
ClosedWorkIsKept ==
    \A c \in scenario.cards :
        card[c].state = "closed" =>
            \E i \in Landed : <<c, card[c].head>> \in integrations[i].archive

\* "A preview that skips checks is worse than no preview" (archive.rs:411): what
\* the preview of a close promises, the close does, but for the one check that
\* only Git makes, whether the branch checked out holds the branch to delete.
PreviewKeepsItsWord ==
    \A i \in Numbers : \A found \in Checkouts(i) :
        CommandsRun /\ PreviewClose(i, found) /\ found.holdsLanded =>
            \A c \in MembersOf(i) : CleanUpCard(c, found)

\* Integration keeps what approval promised: every member is as far as its
\* integration; what lands is the approved candidates, in order, in whole
\* groups, and for a final landing the whole cycle; what is cleaned up is kept.
LandsAsApproved ==
    /\ TypeOK
    /\ CardsFollowIntegration
    /\ LandedInOrder
    /\ LandsWhole
    /\ FinalCoversCycle
    /\ BreaksOffAfterLanding
    /\ ClosedWorkIsKept
    /\ PreviewKeepsItsWord

\* "`cycle abandon` ends the cycle outright" (integration.rs:391).
AbandonedCycleLandsNothing ==
    [][authority' # authority /\ authority'[Len(authority')] # Foreign =>
        cycle[integrations[authority'[Len(authority')]].cycle].status # "abandoned"]_vars

\* A stale authorization can be given anew: "record a fresh decision against
\* the current state with `acceptance record`" (acceptance.rs,
\* FINAL_AUTHORIZATION_STALE_RECOVERY).
StaleDecisionRenewable ==
    \A i \in Numbers :
        CommandsRun /\ integrations[i].status = "accepted" /\ ~AuthorizationStands(i)
            => \E actor \in Actors : MayAccept(i, actor)
============================================================================
