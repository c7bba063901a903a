--------------------------- MODULE ReviewEvidence ---------------------------
(***************************************************************************)
(* What an approval rests on: who reviewed, who attested, which mutation   *)
(* the reviewer saw caught or which exemption stands for it, and whether   *)
(* all of that still holds when an integration relies on the approval      *)
(* (domain/review.rs, domain/mutation.rs, policy/actors.rs and the review  *)
(* command). Begun reviews, findings and the card's state are Delivery's.  *)
(*                                                                         *)
(* Names are compared by policy/actors.rs without case and outer blanks;   *)
(* here equal names are equal values, and a blank one is Undeclared. A     *)
(* digest is the value it digests.                                         *)
(***************************************************************************)
EXTENDS Naturals, Sequences, FiniteSets

CONSTANTS
    Undeclared,         \* an actor, principal or session that is not named
    Implementer,        \* who handed the candidates off: [actor, principal, session]
    Candidates,
    FirstCandidate,
    ReceiptIds,
    Receipts,           \* what a mutation receipt may say
    ExemptionPolicies,  \* sets of rules [code, approver, principal, session]
    Verdicts,           \* what a reviewer may submit
    ReviewPolicy,       \* the card's review_policy
    MaxRevision,        \* bound: revisions of the card
    MaxReviews          \* bound: verdicts recorded

ASSUME ReviewEvidenceAssumption ==
    /\ FirstCandidate \in Candidates
    /\ MaxRevision \in Nat \ {0} /\ MaxReviews \in Nat

VARIABLES
    revision,   \* current revision of the card
    risk,       \* its risk
    candidate,  \* candidate of the latest handoff
    receipts,   \* mutation-receipts/<id>.json, or Undeclared
    rules,      \* config.mutation_exemption_policy, or Undeclared
    reviews     \* the card's ReviewRecords, oldest first

evidenceVars == <<revision, risk, candidate, receipts, rules, reviews>>

Same(left, right) == left # Undeclared /\ left = right

\* ActorIdentity.same_boundary
SameBoundary(left, right) ==
    \/ Same(left.session, right.session)
    \/ Same(left.principal, right.principal)
    \/ Same(left.actor, right.actor)

Reviewer(verdict) ==
    [actor |-> verdict.actor,
     principal |-> IF verdict.provenance = Undeclared THEN Undeclared
                   ELSE verdict.provenance.principal,
     session |-> IF verdict.provenance = Undeclared THEN Undeclared
                 ELSE verdict.provenance.session]

\* An implementer who declared no principal is one named like the actor.
ImplementerBoundary ==
    [Implementer EXCEPT !.principal = IF @ = Undeclared THEN Implementer.actor ELSE @]

-----------------------------------------------------------------------------
(***************************************************************************)
(* Who may record which verdict.                                           *)
(***************************************************************************)

CheckIndependence(verdict) == verdict.actor # Implementer.actor

RefuseSharedReviewerBoundary(verdict) ==
    verdict.provenance # Undeclared =>
        ~SameBoundary(Reviewer(verdict), ImplementerBoundary)

ValidateReviewerIdentity(verdict) ==
    /\ verdict.kind = "agent" => verdict.attestation = Undeclared
    /\ verdict.kind = "human" =>
          /\ verdict.attestation # Undeclared
          /\ verdict.attestation.independent
          /\ verdict.attestation.actor # verdict.actor

\* The implementer's principal is not taken to be the actor here.
ValidateHumanAttestationBoundary(verdict) ==
    verdict.kind = "human" =>
        /\ verdict.attestation # Undeclared
        /\ verdict.attestation.principal # Undeclared
        /\ verdict.attestation.session # Undeclared
        /\ ~SameBoundary(verdict.attestation, Reviewer(verdict))
        /\ ~SameBoundary(verdict.attestation, Implementer)

CheckReviewConduct(verdict) ==
    ReviewPolicy = "independent" => verdict.conduct = "separate_process"

CheckRiskPolicy(verdict) ==
    verdict.decision = "approved" /\ risk = "high" =>
        verdict.kind = "human" \/ verdict.humanReviewer

\* A bug: provenance is left to the reviewer.
TypedWithoutProvenance(verdict) ==
    /\ verdict.humanReviewer => verdict.kind = "human"
    /\ risk = "high" => verdict.kind = "human"
    /\ verdict.decision = "approved" => verdict.kind # Undeclared

RequireTypedReviewerContract(verdict) ==
    /\ verdict.humanReviewer => verdict.kind = "human"
    /\ risk = "high" => verdict.kind = "human"
    /\ verdict.decision = "approved" =>
          /\ verdict.kind # Undeclared
          /\ verdict.provenance # Undeclared
          /\ verdict.provenance.session # Undeclared
          /\ verdict.provenance.principal # Undeclared
          /\ verdict.kind = "agent" => verdict.attestation = Undeclared

-----------------------------------------------------------------------------
(***************************************************************************)
(* Mutation evidence.                                                      *)
(***************************************************************************)

\* The receipt exists, is valid and is bound to the revision, the candidate
\* and the reviewer of the review.
ReceiptHolds(id, review) ==
    /\ receipts[id] # Undeclared
    /\ receipts[id].valid
    /\ receipts[id].revision = review.revision
    /\ receipts[id].candidate = review.candidate
    /\ receipts[id].actor = review.actor
    /\ \A part \in {"principal", "session"} :
          Reviewer(review)[part] # Undeclared => receipts[id][part] = Reviewer(review)[part]

RulesFor(exemption) ==
    {rule \in (IF rules = Undeclared THEN {} ELSE rules) :
        rule.code = exemption.code /\ rule.approver = exemption.approver}

\* The approver is someone else, and for an approval the registered policy
\* authorizes the approver under an identity that is not the reviewer's.
ExemptionHolds(review) ==
    /\ review.exemption.approver # review.actor
    /\ review.decision = "approved" =>
          \E rule \in RulesFor(review.exemption) :
              /\ ~Same(Reviewer(review).principal, rule.principal)
              /\ ~Same(Reviewer(review).session, rule.session)

\* validate_mutation_receipts, with validate_mutation_exemption inside it.
ValidateMutationEvidence(review) ==
    IF review.exemption # Undeclared
    THEN review.receiptIds = {} /\ ExemptionHolds(review)
    ELSE /\ review.decision = "approved" => review.receiptIds # {}
         /\ \A id \in review.receiptIds : ReceiptHolds(id, review)

\* MutationReceiptBinding of every receipt and MutationExemptionBinding.
Bindings(review) ==
    [receipts |-> [id \in review.receiptIds |-> receipts[id]],
     exemption |-> IF review.exemption # Undeclared /\ review.decision = "approved"
                   THEN rules ELSE Undeclared]

\* A bug: valid evidence is enough, whatever the approval pinned.
EvidenceIsValid(review) == ValidateMutationEvidence(review)

\* What was pinned when the approval was recorded is derived again.
ValidateApprovedReviewEvidence(review) ==
    /\ ValidateMutationEvidence(review)
    /\ Bindings(review) = review.bindings

-----------------------------------------------------------------------------
(***************************************************************************)
(* Actions.                                                                *)
(***************************************************************************)

EvidenceInit ==
    /\ revision = 1
    /\ risk \in {"low", "high"}
    /\ candidate = FirstCandidate
    /\ receipts = [id \in ReceiptIds |-> Undeclared]
    /\ rules = Undeclared
    /\ reviews = <<>>

\* The card was returned and handed off again with another candidate.
Redeliver(new) ==
    /\ new # candidate
    /\ candidate' = new
    /\ UNCHANGED <<revision, risk, receipts, rules, reviews>>

ReviseRisk(new) ==
    /\ revision < MaxRevision
    /\ revision' = revision + 1
    /\ risk' = new
    /\ UNCHANGED <<candidate, receipts, rules, reviews>>

\* Receipts are files of the control repository no command writes: one may
\* appear, be replaced under its identifier, or go.
PlaceReceipt(id, receipt) ==
    /\ receipts' = [receipts EXCEPT ![id] = receipt]
    /\ UNCHANGED <<revision, risk, candidate, rules, reviews>>

RegisterExemptions(new) ==
    /\ new # rules
    /\ rules' = new
    /\ UNCHANGED <<revision, risk, candidate, receipts, reviews>>

BuildReviewRecord(verdict) ==
    [actor |-> verdict.actor, kind |-> verdict.kind, provenance |-> verdict.provenance,
     attestation |-> verdict.attestation, humanReviewer |-> verdict.humanReviewer,
     conduct |-> verdict.conduct, decision |-> verdict.decision,
     receiptIds |-> verdict.receiptIds, exemption |-> verdict.exemption,
     revision |-> revision, candidate |-> candidate, bindings |-> Undeclared]

RecordVerdict(verdict) ==
    LET review == BuildReviewRecord(verdict) IN
    /\ Len(reviews) < MaxReviews
    /\ RefuseSharedReviewerBoundary(verdict)
    /\ ValidateHumanAttestationBoundary(verdict)
    /\ CheckIndependence(verdict)
    /\ ValidateReviewerIdentity(verdict)
    /\ CheckReviewConduct(verdict)
    /\ CheckRiskPolicy(verdict)
    /\ RequireTypedReviewerContract(verdict)
    /\ ValidateMutationEvidence(review)
    /\ reviews' = Append(reviews, [review EXCEPT !.bindings = Bindings(review)])
    /\ UNCHANGED <<revision, risk, candidate, receipts, rules>>

EvidenceNext ==
    \/ \E new \in Candidates : Redeliver(new)
    \/ \E new \in {"low", "high"} : ReviseRisk(new)
    \/ \E id \in ReceiptIds, receipt \in Receipts \cup {Undeclared} : PlaceReceipt(id, receipt)
    \/ \E new \in ExemptionPolicies : RegisterExemptions(new)
    \/ \E verdict \in Verdicts : RecordVerdict(verdict)

-----------------------------------------------------------------------------

IsCurrent(review) == review.candidate = candidate /\ review.revision = revision

CurrentApprovals ==
    {n \in DOMAIN reviews : reviews[n].decision = "approved" /\ IsCurrent(reviews[n])}

\* current_approval: the newest current approval, and no older one when its
\* evidence no longer holds.
ReliedOn ==
    {n \in CurrentApprovals :
        /\ \A other \in CurrentApprovals : other <= n
        /\ ValidateApprovedReviewEvidence(reviews[n])}

EvidenceTypeOK ==
    /\ revision \in 1 .. MaxRevision
    /\ risk \in {"low", "high"}
    /\ candidate \in Candidates
    /\ receipts \in [ReceiptIds -> Receipts \cup {Undeclared}]
    /\ rules \in ExemptionPolicies \cup {Undeclared}
    /\ Len(reviews) <= MaxReviews

\* Whatever was rewritten since, the approval an integration would rely on now
\* rests on the receipts its reviewer saw, made for the candidate and revision
\* in force, or on an exemption the policy in force still grants.
ReliedEvidenceStands ==
    \A n \in ReliedOn : LET review == reviews[n] IN
        /\ review.exemption = Undeclared => review.receiptIds # {}
        /\ \A id \in review.receiptIds :
              /\ review.bindings.receipts[id] = receipts[id]
              /\ receipts[id].candidate = candidate /\ receipts[id].revision = revision
        /\ review.exemption # Undeclared =>
              /\ review.bindings.exemption = rules
              /\ \E rule \in rules : rule.approver = review.exemption.approver

\* While a card is high risk, the approval relied on is a human's, attested by
\* a third party; a card that became high risk after it was approved is not
\* integrated on the old approval.
HighRiskSeenByHuman ==
    risk = "high" =>
        \A n \in ReliedOn : LET review == reviews[n] IN
            /\ review.kind = "human"
            /\ review.attestation.independent
            /\ ~SameBoundary(review.attestation, Reviewer(review))
            /\ ~SameBoundary(review.attestation, Implementer)

\* The approval relied on names a principal and a session, and none of what it
\* names is the implementer's; an exempted mutation was exempted by a third
\* identity.
NobodyBlessesOwnWork ==
    \A n \in ReliedOn : LET review == reviews[n] IN
        /\ Undeclared \notin {Reviewer(review).principal, Reviewer(review).session}
        /\ ~SameBoundary(Reviewer(review), ImplementerBoundary)
        /\ review.exemption # Undeclared =>
              /\ review.exemption.approver # review.actor
              /\ \E rule \in review.bindings.exemption :
                    /\ rule.approver = review.exemption.approver
                    /\ ~Same(rule.principal, Reviewer(review).principal)
                    /\ ~Same(rule.session, Reviewer(review).session)

\* What is relied on was judged by somebody else than its author, and by a human
\* where the risk asks for one, whatever was edited after the verdict.
IndependentlyJudged == EvidenceTypeOK /\ HighRiskSeenByHuman /\ NobodyBlessesOwnWork
=============================================================================
