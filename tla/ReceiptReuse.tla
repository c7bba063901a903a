---------------------------- MODULE ReceiptReuse ----------------------------
(***************************************************************************)
(* Whether the receipt of an earlier gate run answers for the state in     *)
(* front of the consumer (policy/receipt_compatibility.rs over             *)
(* runner/receipt.rs). One card and one gate; a receipt's identifier is    *)
(* its place in `runs`. A state is [candidate, base, card, lease, gate,    *)
(* policy, proof, environment]: the card's revision and digest are one     *)
(* member, and so are the seven captured dimensions. Of an                 *)
(* integration's verification the candidate is the landing, and the card   *)
(* stands for the integration with its cycle and digest.                   *)
(***************************************************************************)
EXTENDS Naturals, Sequences, FiniteSets

CONSTANTS
    Contexts,       \* states a gate may run in and a consumer may be in
    Captures,       \* what the runtime that runs the gate may capture
    MaxAttempts,    \* retry_policy.max_attempts
    MaxRuns         \* bound: runs of the gate

StateParts ==
    {"candidate", "base", "card", "lease", "gate", "policy", "proof", "environment"}

\* The harness itself captures "some" of the dimensions; a receipt written
\* before provenance existed has "none".
ASSUME ReceiptReuseAssumption ==
    /\ \A context \in Contexts : context = [part \in StateParts |-> context[part]]
    /\ Captures \subseteq {"every", "some"}
    /\ MaxAttempts \in Nat /\ MaxRuns \in Nat

VARIABLE runs

SubjectParts == {"candidate", "base", "card", "lease"}
FreshnessParts == {"card", "gate", "lease", "policy"}

Differs(one, two, parts) == \E part \in parts : one[part] # two[part]

-----------------------------------------------------------------------------
(***************************************************************************)
(* A run and the one before it.                                            *)
(***************************************************************************)

\* lineage_from_prior: the newest earlier receipt of the gate, when it has
\* provenance, is invalidated by a change and superseded otherwise.
Lineage(context) ==
    IF runs = <<>> \/ runs[Len(runs)].captured = "none" THEN {}
    ELSE LET prior == runs[Len(runs)] IN
         {[prior |-> Len(runs),
           kind |-> IF Differs(prior.context, context, SubjectParts \cup FreshnessParts)
                    THEN "invalidates" ELSE "supersedes"]}

\* Every earlier receipt of this card as it is, this commit and this definition of
\* the gate: a revised card counts from the start.
AttemptNumber(context) ==
    1 + Cardinality({n \in DOMAIN runs :
            ~Differs(runs[n].context, context, {"card", "candidate", "gate"})})

Receipt(context, captured, passed, clean) ==
    [context |-> context, captured |-> captured, passed |-> passed, clean |-> clean,
     attempt |-> AttemptNumber(context), lineage |-> Lineage(context)]

RunGate(context, captured, passed, clean) ==
    /\ Len(runs) < MaxRuns
    /\ runs' = Append(runs, Receipt(context, captured, passed, clean))

\* A project may carry a receipt from before provenance was recorded.
ReuseInit ==
    \/ runs = <<>>
    \/ \E context \in Contexts :
          runs = <<[context |-> context, captured |-> "none", passed |-> TRUE,
                    clean |-> TRUE, attempt |-> 1, lineage |-> {}]>>

ReuseNext ==
    \E context \in Contexts, captured \in Captures, passed, clean \in BOOLEAN :
        RunGate(context, captured, passed, clean)

-----------------------------------------------------------------------------
(***************************************************************************)
(* The decision. A request names a plan, one of whose checks it is about,  *)
(* and what it expects of a receipt. The plan is given by the state it was *)
(* made for; `planned` says that its schema is the current one and that    *)
(* the check, with its gate, is among those of the requested stage. Nobody *)
(* compares the plan with the card as it is now (gate status and audit     *)
(* check the card's name).                                                 *)
(***************************************************************************)

\* request_matches_plan: what is expected is what the plan was made for.
RequestMatchesPlan(plan, expected) ==
    ~Differs(plan, expected, {"base", "card", "policy", "proof"})

\* A bug: a run that changed something is not looked for.
SupersededOnly(receipts, n, kind) ==
    kind = "supersedes" /\ \E later \in receipts :
        [prior |-> n, kind |-> kind] \in runs[later].lineage

HasLineageRelation(receipts, n, kind) ==
    \E later \in receipts : [prior |-> n, kind |-> kind] \in runs[later].lineage

\* A later receipt whose own provenance is incomplete leaves the question open.
LineageUnreadable(receipts, n) ==
    \E later \in receipts :
        /\ runs[later].captured # "every"
        /\ \E fact \in runs[later].lineage : fact.prior = n

ReuseMaterial(n) == runs[n].captured = "every"

\* What differs, in the order in which it is reported.
CompareProvenance(expected, actual) ==
    LET order == <<"candidate", "base", "lease", "card", "gate", "policy", "proof",
                   "environment">>
        differing == {n \in DOMAIN order : Differs(expected, actual, {order[n]})}
    IN  {order[n] : n \in {n \in differing : \A other \in differing : n <= other}}

ReceiptsFor == DOMAIN runs

\* `compatible`: why the receipt cannot be reused, or nothing.
Refusal(plan, expected, n) ==
    LET receipt == runs[n] IN
    IF receipt.attempt > MaxAttempts THEN {"stale"}
    ELSE IF receipt.context.card # plan.card THEN {"foreign"}
    ELSE IF receipt.context.candidate # expected.candidate THEN {"candidate"}
    ELSE IF receipt.context.gate # plan.gate THEN {"gate"}
    ELSE IF ~receipt.clean \/ ~receipt.passed \/ LineageUnreadable(ReceiptsFor, n)
    THEN {"stale"}
    ELSE IF HasLineageRelation(ReceiptsFor, n, "invalidates") THEN {"invalidated"}
    ELSE IF HasLineageRelation(ReceiptsFor, n, "supersedes") THEN {"superseded"}
    ELSE IF ~ReuseMaterial(n) THEN {"incomplete"}
    ELSE CompareProvenance(expected, receipt.context)

Rerun(reasons) == [reuse |-> 0, reasons |-> reasons]

\* The receipts nothing is said against.
Compatible(refusal) == {n \in DOMAIN refusal : refusal[n] = {}}

\* The first compatible receipt, or every reason there is to run again, from what
\* is said against each receipt.
Decision(refusal) ==
    IF Compatible(refusal) # {}
    THEN [reuse |-> CHOOSE n \in Compatible(refusal) :
                        \A other \in Compatible(refusal) : n <= other,
          reasons |-> {}]
    ELSE Rerun(IF DOMAIN refusal = {} THEN {"missing"}
               ELSE UNION {refusal[n] : n \in DOMAIN refusal})

Evaluate(plan, planned, expected) ==
    IF ~planned \/ ~RequestMatchesPlan(plan, expected) THEN Rerun({"stale"})
    ELSE Decision([n \in ReceiptsFor |-> Refusal(plan, expected, n)])

-----------------------------------------------------------------------------
(***************************************************************************)
(* The same decision for an integration's combined verification: of the    *)
(* receipts its verification record names. A request says what it is asked *)
(* about (`asked`, with the gate of its check), and what it expects; the   *)
(* integration is now as `now` says. It has no proof map.                  *)
(***************************************************************************)

\* What is asked about is the integration, its verification and the gate of today.
CurrentRequest(now, asked, expected) ==
    /\ ~Differs(now, asked, {"candidate", "base", "card", "policy", "gate"})
    /\ expected.gate = now.gate

\* What is expected of the receipt is what the request asks about.
IntegrationRequestMatchesContext(asked, expected) ==
    ~Differs(asked, expected, {"candidate", "base", "card", "policy", "proof"})

\* `compatible_integration`. A verification runs its gates once each.
IntegrationRefusal(inventory, expected, n) ==
    LET receipt == runs[n] IN
    IF receipt.context.card # expected.card THEN {"foreign"}
    ELSE IF receipt.context.gate # expected.gate \/ receipt.attempt > MaxAttempts THEN {"gate"}
    ELSE IF ~receipt.passed \/ ~receipt.clean \/ LineageUnreadable(inventory, n) THEN {"stale"}
    ELSE IF HasLineageRelation(inventory, n, "invalidates") THEN {"invalidated"}
    ELSE IF HasLineageRelation(inventory, n, "supersedes") THEN {"superseded"}
    ELSE IF ~ReuseMaterial(n) THEN {"incomplete"}
    ELSE CompareProvenance(expected, receipt.context)

\* The receipts one verification record pins, all of this integration.
ReceiptsForIntegrationVerification(now) ==
    {inventory \in SUBSET DOMAIN runs :
        \A n \in inventory : runs[n].context.card = now.card}

\* An error (GateEvidenceStale): there is no decision.
NoDecision == [reuse |-> 0, reasons |-> {}]

EvaluateIntegration(now, inventory, asked, expected) ==
    IF ~CurrentRequest(now, asked, expected) THEN NoDecision
    ELSE IF ~IntegrationRequestMatchesContext(asked, expected) THEN Rerun({"stale"})
    ELSE Decision([n \in inventory |-> IntegrationRefusal(inventory, expected, n)])

-----------------------------------------------------------------------------

ReuseTypeOK ==
    /\ Len(runs) <= MaxRuns + 1
    /\ \A n \in DOMAIN runs :
          /\ runs[n].context \in Contexts
          /\ runs[n].captured \in Captures \cup {"none"}
          /\ \A fact \in runs[n].lineage : fact.prior \in 1 .. n - 1

\* The run answers for a state: it ran in that very state and a clean worktree,
\* passed within the declared attempts, and captured everything.
Exact(n, expected) ==
    /\ runs[n].context = expected
    /\ runs[n].clean /\ runs[n].passed
    /\ runs[n].attempt <= MaxAttempts
    /\ runs[n].captured = "every"

\* A receipt is reused exactly when it is the gate's latest run, answers for the
\* state that is expected, and the request is about a check of a plan made for that
\* state: a change made and undone does not revive it, and nothing else stands in the
\* way of reusing it.
LatestRunAnswers ==
    \A plan, expected \in Contexts, planned \in BOOLEAN :
        LET last == Len(runs)
            decision == Evaluate(plan, planned, expected)
            exact == /\ last > 0
                     /\ Exact(last, expected)
                     /\ planned
                     /\ ~Differs(plan, expected, {"base", "card", "policy", "proof", "gate"})
        IN  /\ decision.reuse = IF exact THEN last ELSE 0
            /\ (decision.reasons = {}) <=> exact

\* An integration reuses no receipt but one its verification names, which answers
\* for the integration as it is now and which no run the verification names followed.
InventoryAnswers ==
    \A now \in Contexts : \A inventory \in ReceiptsForIntegrationVerification(now) :
        LET decision == EvaluateIntegration(now, inventory, now, now)
            exact == {n \in inventory :
                        Exact(n, now) /\ ~\E later \in inventory :
                            \E fact \in runs[later].lineage : fact.prior = n}
        IN  /\ decision.reuse \in exact \cup {0}
            /\ decision.reuse = 0 <=> exact = {}
            /\ \A asked, expected \in Contexts :
                  Differs(now, expected, {"candidate", "base", "card", "gate", "policy"})
                      => EvaluateIntegration(now, inventory, asked, expected).reuse = 0

\* Evidence is reused for exactly the state it was gathered in, of a card or of an
\* integration, and neither a later run nor a stale request is overlooked.
ReuseIsExact == ReuseTypeOK /\ LatestRunAnswers /\ InventoryAnswers
=============================================================================
