------------------------------ MODULE Delivery ------------------------------
(***************************************************************************)
(* From a finished piece of work to an approval integration may rely on:   *)
(* handoffs, reviews, and what makes either of them stale                  *)
(* (commands/handoff.rs, commands/review.rs, domain/handoff.rs,            *)
(* domain/review.rs, and the selection of commands/integration.rs).        *)
(*                                                                         *)
(* A card's author goes on moving its branch whatever the state of the     *)
(* card: worktrees are outside the control repository and its lock. A      *)
(* commit is a number with the set of commits it contains. A card's        *)
(* digest is its revision number. Every delivered card holds its lease     *)
(* (Allocation), so its head can always be read. A finding is its          *)
(* location and disposition, and a review counts them. The identity of     *)
(* the reviewer is ReviewEvidence's, budgets are Convergence's.            *)
(***************************************************************************)
EXTENDS Naturals, FiniteSets, Sequences, SequencesExt, FiniteSetsExt

CONSTANTS
    Cards,
    DependsOn,      \* CardDraft.depends_on of each card
    Locations,      \* where a finding may be
    Scenarios,      \* scenario: cards delivered beside each other
    Authors,        \* scenario: cards whose branch gets work of its own
    Tallies,        \* scenario: what the reviews of each card may find at a location
    MaxCommits,     \* bound: commits made in all
    MaxRevisions,   \* bound: revisions of each card
    MaxHandoffs,    \* bound: handoffs of each card, and commits its gates pass for
    MaxReviews      \* bound: reviews of each card

Tally == [open : Nat, still : Nat, settled : Nat]

ASSUME DeliveryAssumption ==
    /\ IsFiniteSet(Cards)
    /\ DependsOn \in [Cards -> SUBSET Cards]
    /\ Scenarios \subseteq SUBSET Cards
    /\ Authors \subseteq Cards
    /\ \A card \in Cards : Tallies[card] \subseteq Tally
    /\ MaxCommits \in Nat \ {0}
    /\ MaxRevisions \in [Cards -> Nat]
    /\ MaxHandoffs \in [Cards -> Nat]
    /\ MaxReviews \in [Cards -> Nat]

VARIABLES
    scenario,   \* the cards of this behaviour
    contains,   \* contains[c] is the history of the c-th commit, itself included
    head,       \* HEAD of each card's worktree
    cardState,  \* CardStateRecord.state
    revision,   \* CardStateRecord.current_revision
    passed,     \* revisions and commits every feature gate of the card passed for
    handoffs,   \* HandoffRecords of each card, oldest first
    begun,      \* handoffs of each card a review.begun event names
    reviews,    \* ReviewRecords of each card, oldest first
    member      \* the review each integrating card was selected on; 0 without one

workVars == <<scenario, contains, head>>
vars == <<workVars, cardState, revision, passed, handoffs, begun, reviews, member>>

L == INSTANCE Lifecycle

Decisions == {"approved", "changes_requested", "blocked"}

Baseline == 1
Nothing == 0     \* no commit: the dependency is not in the candidate

Commits == DOMAIN contains
IsAncestor(ancestor, commit) == ancestor \in contains[commit]

Init ==
    /\ scenario \in Scenarios
    /\ contains = << {Baseline} >>
    /\ head = [card \in Cards |-> Baseline]
    /\ cardState = [card \in Cards |-> "active"]
    /\ revision = [card \in Cards |-> 1]
    /\ passed = [card \in Cards |-> {}]
    /\ handoffs = [card \in Cards |-> <<>>]
    /\ begun = [card \in Cards |-> {}]
    /\ reviews = [card \in Cards |-> <<>>]
    /\ member = [card \in Cards |-> 0]

-----------------------------------------------------------------------------
(***************************************************************************)
(* The worktree, which its author moves as he likes.                       *)
(***************************************************************************)

CommitOn(card, history) ==
    /\ Len(contains) < MaxCommits
    /\ contains' = Append(contains, history \cup {Len(contains) + 1})
    /\ head' = [head EXCEPT ![card] = Len(contains) + 1]
    /\ UNCHANGED <<scenario, cardState, revision, passed, handoffs, begun, reviews, member>>

Work(card) == CommitOn(card, contains[head[card]])
Rewrite(card) == CommitOn(card, contains[Baseline])

\* A merge of a branch that is only ahead moves to its head. Bound: a dependency
\* is merged once.
Merge(card, dependency) ==
    /\ dependency \in DependsOn[card] /\ head[dependency] # Baseline
    /\ contains[head[dependency]] \cap contains[head[card]] = {Baseline}
    /\ IF IsAncestor(head[card], head[dependency])
       THEN /\ head' = [head EXCEPT ![card] = head[dependency]]
            /\ UNCHANGED <<scenario, contains, cardState, revision, passed, handoffs, begun,
                           reviews, member>>
       ELSE CommitOn(card, contains[head[card]] \cup contains[head[dependency]])

\* The branch is reset to a commit that was handed off before.
Reset(card) ==
    /\ \E i \in DOMAIN handoffs[card] :
          /\ handoffs[card][i].candidate # head[card]
          /\ head' = [head EXCEPT ![card] = handoffs[card][i].candidate]
    /\ UNCHANGED <<scenario, contains, cardState, revision, passed, handoffs, begun, reviews,
                   member>>

\* `gate run` records a receipt for each feature gate.
RunGates(card) ==
    /\ cardState[card] = "active"
    /\ Cardinality(passed[card]) < MaxHandoffs[card]
    /\ <<revision[card], head[card]>> \notin passed[card]
    /\ passed' = [passed EXCEPT ![card] = @ \cup {<<revision[card], head[card]>>}]
    /\ UNCHANGED <<workVars, cardState, revision, handoffs, begun, reviews, member>>

-----------------------------------------------------------------------------
(***************************************************************************)
(* Handoffs.                                                               *)
(***************************************************************************)

SetCard(card, to) == cardState' = [cardState EXCEPT ![card] = to]

LatestHandoff(card) == Last(handoffs[card])

\* Which commit of each dependency a candidate of the card contains, or Nothing.
DependencyBindings(card) == [DependsOn[card] -> Nat]

\* The newest commit of a dependency, of those it ever handed off, in a candidate.
IncorporatedSha(dependency, candidate) ==
    LET InCandidate(handoff) == IsAncestor(handoff.candidate, candidate)
        i == SelectLastInSeq(handoffs[dependency], InCandidate)
    IN  IF i = 0 THEN Nothing ELSE handoffs[dependency][i].candidate

ResolveDependencyBindings(card, candidate) ==
    [dependency \in DependsOn[card] |-> IncorporatedSha(dependency, candidate)]

CollectEvidence(card, candidate) == <<revision[card], candidate>> \in passed[card]

CreateHandoff(card) ==
    LET candidate == head[card]
    IN  /\ L!CheckTransition(cardState[card], "handed_off")
        /\ Len(handoffs[card]) < MaxHandoffs[card]
        /\ candidate # Baseline
        /\ CollectEvidence(card, candidate)
        /\ handoffs' = [handoffs EXCEPT ![card] = Append(@,
               [revision |-> revision[card], candidate |-> candidate, active |-> TRUE,
                bindings |-> ResolveDependencyBindings(card, candidate)])]
        /\ SetCard(card, "handed_off")
        /\ UNCHANGED <<workVars, revision, passed, begun, reviews, member>>

\* A bug: the card stays where it was, only its handoff is withdrawn.
RevokeInPlace(card) ==
    /\ handoffs[card] # <<>> /\ LatestHandoff(card).active
    /\ L!CheckTransition(cardState[card], "active")
    /\ handoffs' = [handoffs EXCEPT ![card][Len(handoffs[card])].active = FALSE]
    /\ UNCHANGED <<workVars, cardState, revision, passed, begun, reviews, member>>

RevokeHandoff(card) ==
    /\ handoffs[card] # <<>> /\ LatestHandoff(card).active
    /\ L!CheckTransition(cardState[card], "active")
    /\ handoffs' = [handoffs EXCEPT ![card][Len(handoffs[card])].active = FALSE]
    /\ SetCard(card, "active")
    /\ UNCHANGED <<workVars, revision, passed, begun, reviews, member>>

-----------------------------------------------------------------------------
(***************************************************************************)
(* Reviews.                                                                *)
(***************************************************************************)

BeginReview(card) ==
    /\ handoffs[card] # <<>> /\ LatestHandoff(card).active
    /\ L!CheckTransition(cardState[card], "review_pending")
    /\ begun' = [begun EXCEPT ![card] = @ \cup {Len(handoffs[card])}]
    /\ SetCard(card, "review_pending")
    /\ UNCHANGED <<workVars, revision, passed, handoffs, reviews, member>>

Blocking(tally) == tally.open + tally.still
Accounting(tally) == tally.still + tally.settled

\* A bug: one entry at a location answers for everything found there.
ChecksSupersedesByPresence(findings, superseded) ==
    \A at \in Locations :
        /\ Blocking(superseded[at]) > 0 => Accounting(findings[at]) > 0
        /\ findings[at].still <= Blocking(superseded[at])

ChecksSupersedes(findings, superseded) ==
    \A at \in Locations :
        /\ Accounting(findings[at]) >= Blocking(superseded[at])
        /\ findings[at].still <= Blocking(superseded[at])

\* The review a new one follows.
LatestReview(card) == Last(reviews[card])

\* What the reviewer supplies: what was reviewed is for the harness to say.
Verdicts(card) == [decision : Decisions, findings : [Locations -> Tallies[card]]]

ValidReview(card, verdict) ==
    /\ verdict.decision = "approved" =>
          \A at \in Locations : Blocking(verdict.findings[at]) = 0
    /\ verdict.decision = "changes_requested" =>
          \E at \in Locations :
              Blocking(verdict.findings[at]) + verdict.findings[at].settled > 0
    /\ IF reviews[card] = <<>>
       THEN \A at \in Locations : verdict.findings[at].still = 0
       ELSE ChecksSupersedes(verdict.findings, LatestReview(card).findings)

BindingStands(card, handoff) == handoff.revision = revision[card]

HandoffStands(card, handoff) ==
    handoff.active /\ handoff.candidate = head[card] /\ BindingStands(card, handoff)

\* Asked of the events, not of the card's state: revoking the handoff rewrites it.
RequireReviewBegun(card) == Len(handoffs[card]) \in begun[card]

\* Only an approval answers for what was delivered; the others for what was asked.
RequireCurrentHandoff(card, decision) ==
    IF decision = "approved" THEN HandoffStands(card, LatestHandoff(card))
    ELSE RequireReviewBegun(card) /\ BindingStands(card, LatestHandoff(card))

StateFor(decision) == decision

RecordReview(card, verdict) ==
    /\ handoffs[card] # <<>> /\ Len(reviews[card]) < MaxReviews[card]
    /\ RequireCurrentHandoff(card, verdict.decision)
    /\ L!CheckTransition(cardState[card], StateFor(verdict.decision))
    /\ ValidReview(card, verdict)
    /\ reviews' = [reviews EXCEPT ![card] = Append(@,
           [handoff |-> Len(handoffs[card]), revision |-> revision[card],
            candidate |-> LatestHandoff(card).candidate,
            bindings |-> LatestHandoff(card).bindings,
            decision |-> verdict.decision, findings |-> verdict.findings])]
    /\ SetCard(card, StateFor(verdict.decision))
    /\ UNCHANGED <<workVars, revision, passed, handoffs, begun, member>>

-----------------------------------------------------------------------------
(***************************************************************************)
(* Where an approval stands.                                               *)
(***************************************************************************)

StandingApproval(card) == reviews[card] # <<>> /\ LatestReview(card).decision = "approved"

\* The commit of a card that its standing approval blessed, wherever its branch is.
ApprovedCandidate(card) ==
    IF StandingApproval(card) THEN LatestReview(card).candidate ELSE Nothing

\* Where each dependency stands against what a record says it incorporated.
DependencyStandings(card, bindings) ==
    [dependency \in DependsOn[card] |->
        LET bound == bindings[dependency]
            approved == ApprovedCandidate(dependency)
        IN  [approved |-> approved,
             contained |-> Nothing \in {bound, approved} \/ IsAncestor(bound, approved)]]

\* A bug: an approval is not asked about what it was built on.
IgnoresDependencies(card, review) == TRUE

\* No dependency it incorporates stands approved where that commit is missing.
DependenciesStand(card, review) ==
    LET standings == DependencyStandings(card, review.bindings)
    IN  \A dependency \in DependsOn[card] :
            \/ review.bindings[dependency] = Nothing
            \/ standings[dependency].approved = Nothing
            \/ standings[dependency].contained

IsCurrentFor(card, review, candidate) ==
    /\ review.candidate = candidate /\ review.revision = revision[card]
    /\ DependenciesStand(card, review)

\* The newest approval that describes the candidate; 0 without one.
CurrentApproval(card, candidate) ==
    SelectLastInSeq(reviews[card], LAMBDA review :
        review.decision = "approved" /\ IsCurrentFor(card, review, candidate))

\* A bug: an approval is compared with the handoff it was given for.
AssessedAgainstHandoff(card) ==
    IF cardState[card] # "approved" \/ handoffs[card] = <<>> THEN 0
    ELSE CurrentApproval(card, LatestHandoff(card).candidate)

\* The approval a card is ready to be integrated on; 0 while it is not ready.
Assess(card) ==
    IF cardState[card] # "approved" \/ handoffs[card] = <<>> THEN 0
    ELSE CurrentApproval(card, head[card])

CheckDependencies(cards) ==
    \A card \in cards : \A dependency \in DependsOn[card] :
        dependency \in cards \/ cardState[dependency] \in {"landed", "closed"}

-----------------------------------------------------------------------------
(***************************************************************************)
(* What goes on around a delivery.                                         *)
(***************************************************************************)

\* `work resume`.
Resume(card) ==
    /\ cardState[card] \in {"changes_requested", "blocked", "ready", "review_pending"}
    /\ SetCard(card, "active")
    /\ UNCHANGED <<workVars, revision, passed, handoffs, begun, reviews, member>>

\* `card revise`.
Revise(card) ==
    /\ L!IsRevisable(cardState[card]) /\ revision[card] < MaxRevisions[card]
    /\ revision' = [revision EXCEPT ![card] = @ + 1]
    /\ SetCard(card, "ready")
    /\ UNCHANGED <<workVars, passed, handoffs, begun, reviews, member>>

\* `integration prepare`: the members are pinned to the approvals they have.
Prepare(cards) ==
    /\ cards # {} /\ \A card \in cards : Assess(card) # 0
    /\ CheckDependencies(cards)
    /\ member' = [card \in Cards |-> IF card \in cards THEN Assess(card) ELSE member[card]]
    /\ cardState' = [card \in Cards |->
                        IF card \in cards THEN "integrating" ELSE cardState[card]]
    /\ UNCHANGED <<workVars, revision, passed, handoffs, begun, reviews>>

Integrating == {card \in Cards : cardState[card] = "integrating"}

\* `integration abandon` returns what it was to integrate to approved.
AbandonIntegration ==
    /\ Integrating # {}
    /\ cardState' = [card \in Cards |->
                        IF card \in Integrating THEN "approved" ELSE cardState[card]]
    /\ member' = [card \in Cards |-> IF card \in Integrating THEN 0 ELSE member[card]]
    /\ UNCHANGED <<workVars, revision, passed, handoffs, begun, reviews>>

\* Acceptance and promotion.
Land ==
    /\ Integrating # {}
    /\ cardState' = [card \in Cards |->
                        IF card \in Integrating THEN "landed" ELSE cardState[card]]
    /\ UNCHANGED <<workVars, revision, passed, handoffs, begun, reviews, member>>

Next ==
    \/ \E card \in scenario :
          \/ card \in Authors /\ (Work(card) \/ Rewrite(card))
          \/ \E dependency \in Cards : Merge(card, dependency)
          \/ Reset(card)
          \/ RunGates(card)
          \/ CreateHandoff(card)
          \/ RevokeHandoff(card)
          \/ BeginReview(card)
          \/ \E verdict \in Verdicts(card) : RecordReview(card, verdict)
          \/ Resume(card)
          \/ Revise(card)
    \/ \E cards \in SUBSET Cards : Prepare(cards)
    \/ AbandonIntegration
    \/ Land

Spec == Init /\ [][Next]_vars

-----------------------------------------------------------------------------

Handoff(card) ==
    [revision : Nat \ {0}, candidate : Nat, active : BOOLEAN,
     bindings : DependencyBindings(card)]

Review(card) ==
    [handoff : Nat \ {0}, revision : Nat \ {0}, candidate : Nat,
     bindings : DependencyBindings(card),
     decision : Decisions, findings : [Locations -> Tally]]

\* The shapes of the variables.
TypeOK ==
    /\ scenario \in Scenarios
    /\ contains \in Seq(SUBSET (1 .. MaxCommits))
    /\ head \in [Cards -> Commits]
    /\ cardState \in [Cards -> L!CardStates]
    /\ revision \in [Cards -> Nat \ {0}]
    /\ \A card \in Cards :
        /\ passed[card] \subseteq (1 .. revision[card]) \X Commits
        /\ handoffs[card] \in Seq(Handoff(card))
        /\ begun[card] \subseteq DOMAIN handoffs[card]
        /\ reviews[card] \in Seq(Review(card))
        /\ member[card] \in {0} \cup DOMAIN reviews[card]

\* Every verdict was reached in a review that was opened on the very handoff it
\* is recorded for, whichever way the card went in between: nothing checks it for
\* an approval, the states of the card alone guarantee it (require_review_begun).
ReviewsWereOpened ==
    \A card \in Cards : \A i \in DOMAIN reviews[card] : reviews[card][i].handoff \in begun[card]

\* A card is approved only while its latest handoff stands unrevoked, for its
\* current revision, and the last word of its reviewers approved that handoff.
ApprovedCardStands ==
    \A card \in Cards : cardState[card] = "approved" =>
        /\ StandingApproval(card)
        /\ Last(handoffs[card]).active
        /\ Last(reviews[card]).handoff = Len(handoffs[card])
        /\ Last(reviews[card]).revision = revision[card]

\* The verdicts in force are verdicts on what is in force.
VerdictsStand == TypeOK /\ ReviewsWereOpened /\ ApprovedCardStands

\* Nothing a reviewer left open is lost between rounds: what was open after one
\* review is, after any later one, still open or was settled entry by entry since.
\* In particular an approval leaves nothing of any earlier round unanswered.
OpenFindingsCarried ==
    \A card \in Cards, at \in Locations : \A j \in DOMAIN reviews[card] : \A i \in 1 .. j :
        LET found(k) == reviews[card][k].findings[at]
        IN  Blocking(found(i)) <=
                Blocking(found(j)) + MapThenSumSet(LAMBDA k : found(k).settled, (i + 1) .. j)

Selected(card) == cardState[card] # "integrating" /\ cardState'[card] = "integrating"

\* What is selected for integration is the commit the branch holds, and for that
\* commit and the card's current revision its gates passed, it was handed off, and
\* a review of that handoff approved it: no commit nobody reviewed is integrated
\* (integration.rs, assess).
OnlyReviewedCommitsSelected ==
    [][\A card \in Cards : Selected(card) =>
          LET review == reviews[card][member'[card]]
              handoff == handoffs[card][review.handoff]
          IN  /\ review.decision = "approved" /\ review.handoff \in begun[card]
              /\ review.candidate = head[card] /\ handoff.candidate = head[card]
              /\ review.revision = revision[card] /\ handoff.revision = revision[card]
              /\ <<revision[card], head[card]>> \in passed[card]]_vars

\* A card is selected with what it depends on, or after it; and the commit its
\* handoff binds of a dependency, the newest one that dependency had handed off
\* which the candidate contains, is part of what the dependency stands approved
\* at. It says no more: work of the dependency that was never handed off may lie
\* on top of the bound commit and passes unseen (handoff.rs:327, domain/
\* handoff.rs:158), as may an older handoff the candidate contains besides.
DependenciesSelectedApproved ==
    [][\A card \in Cards : Selected(card) =>
          \A dependency \in DependsOn[card] :
             /\ cardState'[dependency] \in {"integrating", "landed"}
             /\ StandingApproval(dependency)
             /\ reviews[card][member'[card]].bindings[dependency] # Nothing =>
                   IsAncestor(reviews[card][member'[card]].bindings[dependency],
                              Last(reviews[dependency]).candidate)]_vars

\* The plan says: "a revoked handoff never applies again". It does: a branch reset
\* to a commit whose handoff was revoked is selected on the approval of that handoff.
RevokedHandoffNeverApplies ==
    [][\A card \in Cards : Selected(card) =>
          handoffs[card][reviews[card][member'[card]].handoff].active]_vars
=============================================================================
