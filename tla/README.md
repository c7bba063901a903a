# Verification of Change Harness

Change Harness is a command line program that governs how changes of a
repository are authorized, carried out, reviewed, integrated and promoted.
Every invocation is one short process; what they share is a *control
repository* (records in a Git working tree, with a journal beside it), the
candidate repository with its worktrees, and an authority repository whose
protected branch is the product. Nothing stays in memory between commands, so
everything that can go wrong goes wrong between two processes, or between a
process and the one that recovers from its death. That is what is modelled
here.

Paths are relative to the repository (`src/src/...` is the Rust source).

## 1. Inventory

| Component | Source | State | Operations |
|---|---|---|---|
| Project lock | `control/lock.rs` | `harness.lock`, the holder record in it | acquire, diagnose, clear stale, drop, retry |
| Control repository | `control/repository.rs` | tracked records, index, `.git/index.lock`, head | hygiene, capture, atomic write, commit, discard |
| Operation journal | `control/journal.rs` | one record per operation, never committed | begin, step, mutation started, outside control, finish, discard |
| Transaction wrapper | `commands/transaction.rs` | the guard of one command | everything around a command's body |
| Event store | `control/event_store.rs` | `events/*.json` | append, next identifier |
| Recovery | `commands/project.rs` | none of its own | `project recover`, `--resume`, `--settle-clean-mutation`, `--settle-committed-gate-run` |
| Authority | `git/authority.rs` | the protected branch | compare-and-swap update |
| Integration | `commands/integration.rs`, `domain/integration.rs`, `git/landing.rs`, `git/merge.rs`, `git/integration_worktree.rs`, `policy/verification.rs` | integration records, landing refs, worktrees | plan, prepare, merge, land, verify, review, promote, abandon, exceptions |
| Acceptance | `commands/acceptance.rs` | acceptance records | record, inspect |
| Gates | `commands/gate.rs`, `domain/gate.rs`, `domain/validation_reservation.rs`, `runner/*` | definitions, receipts, reservations, execution permits, CPU lanes | register, reserve, run, settle, abandon, mutate, schedule |
| Cards | `commands/card.rs`, `domain/card.rs` | card, revision, state | create, activate, revise, abandon |
| Work | `commands/work.rs`, `domain/lease.rs`, `git/worktree.rs`, `policy/allocation.rs` | leases, branches, worktrees | start, batch, checkpoint, resume, verify, block, reclaim |
| Cycles | `commands/cycle.rs`, `domain/cycle.rs`, `domain/cycle_plan.rs` | cycle, plan, status | plan, create, activate, seal, groups, abandon |
| Handoff and review | `commands/handoff.rs`, `commands/review.rs`, `domain/handoff.rs`, `domain/review.rs` | handoffs, reviews, findings | create, revoke, begin, record |
| Convergence | `policy/convergence.rs`, `commands/disposition.rs` | counters derived from events, dispositions | renew, rebaseline, split, redesign, accept risk, abandon |
| Mutations | `commands/mutation.rs`, `domain/mutation.rs` | receipts | create |
| Scopes and verification | `policy/paths.rs`, `policy/allocation.rs`, `policy/verification.rs`, `git/diff.rs`, `domain/artifact.rs` | none of their own | match, overlap, verify a candidate's diff |
| Receipt reuse | `runner/receipt.rs`, `policy/receipt_compatibility.rs` | provenance and lineage of receipts | decide whether a receipt answers |
| Lessons | `commands/lesson.rs`, `domain/lesson.rs`, `policy/lessons.rs` | lesson registry, card manifests | propose, activate, retire; freeze, answer |
| Archive | `commands/archive.rs` | archives, archive refs | create, preview, close |
| Backup, audit, doctor, snapshots, configuration, CLI, assurance | the remaining files | copies, reports | mostly reads |

**How they interact.** Every mutating command runs its body inside
`with_transaction`: take the project lock, refuse if any journal entry is
unresolved, open an entry, run the body, settle the entry, drop the lock. A
body writes tracked records and commits them once, and announces in its journal
entry (`outside_control`) the effects it is about to have outside the control
repository - all but two: `integration abandon` releases a landing ref and
`archive create` makes and releases refs with no step of their own
(`commands/integration.rs:5197`, `commands/archive.rs:200-206`). If it dies, the
lock file, the entry and whatever it wrote remain; the next command refuses, and
`project recover` is the only way on.

**What is hard.** (a) The lock is a file: it is inspected in several accesses
while it is taken, released, abandoned and cleared, and the liveness of its
holder is asked of `ps`, which may not answer and whose process numbers are
recycled. (b) A process may be killed between any two writes; the journal is
the only evidence. (c) A promotion spans three repositories and cannot be
rolled back once the authority has moved; everything after that must be
resumable. (d) Several recovery commands read before they lock. (e) Gates run
for long outside the lock, on evidence that may be stale when they return.
(f) Candidate branches, the authority and the local checkout are touched by
people at any time.

**What makes each part correct.** Lock: one writer, and only an abandoned lock
is ever removed. Transaction: part-way work is told by an unresolved entry, of
which there is one at most, and how an entry was settled is final. Promotion:
atomic from outside, evident until recorded, recorded whole, eventually recorded
and committed. Acceptance and
abandonment: never both. Gates: an execution permit belongs to one live
reservation, a CPU-heavy lane to one permit, and both return. Cards, work,
handoff and review: one live lease per card, and an approval only ever covers
the exact commit and card revision it was given for. Integration: only approved
and still current candidates are landed, in dependency order. Convergence: the
budget counts each attempt once, and nothing but a disposition reopens what it
stopped. Scopes: what two cards may write never meets. Evidence: what an
approval rests on still stands when it is relied on.

## 2. Modules

| Module | Part of the system | Built on |
|---|---|---|
| `ExclusiveLock` | what a lock promises | |
| `ProjectLock` | the lock file | implements `ExclusiveLock` |
| `ControlRepository` | lock, journal, index lock, tree and head, as every command uses them | `ExclusiveLock`'s lock |
| `Transaction` | the wrapper around any body | extends `ControlRepository` |
| `AtomicPromotion` | what a promotion promises | |
| `Promotion` | promote, abandon, accept and recovery, killed anywhere | extends `ControlRepository`, implements `AtomicPromotion` |
| `ValidationGates` | reservations, permits, lanes, evidence | |
| `Lifecycle` | the successor tables, and what a command promises of cards | |
| `ConvergenceLedger` | the projection of the recorded facts | |
| `Convergence` | the commands the budget stops or that spend it | extends `ConvergenceLedger`, instantiates `Lifecycle` |
| `Allocation` | cycles, plans, claims, leases | implements `Lifecycle` |
| `Delivery` | handoff, review, selection | instantiates `Lifecycle` |
| `DependencyOrder` | `topological_order` | |
| `IntegrationPipeline` | prepare to close | extends `DependencyOrder`, instantiates `Lifecycle` |
| `PathPatterns` | the pattern language | |
| `WriteScopes` | claims against candidates | extends `PathPatterns` |
| `ReviewEvidence` | who judges on what evidence | |
| `ReceiptReuse` | whether a receipt answers | |
| `Lessons` | registry, manifests, obligations | extends `PathPatterns` |
| `Evidence` | the four before it, and the fold of the ledger, one at a time | composes them and `ConvergenceLedger` |
| `MCControl` | the lock file, or the promotions that rely on such a lock | composes `MCProjectLock` and `MCPromotion` |

The `MC...` modules give the constants values, the `...Proofs` modules hold the
theorems (section 4). Commands are single steps wherever no command's
half-way state matters: that a transaction may be taken for one step is what
`Transaction` and `Promotion` are about.

### ProjectLock

`lockFile` is the contents of `harness.lock`; `stage`, `seen`, `answer` and `passes`
are the local variables of one `acquire` or `recover` in each process. The
inspection (`diagnose_with`) is `CheckExists`, `ReadContents`, `AskLiveness`,
one file access or `ps` call each; `clear_stale` is `CompareStale` and
`RemoveStale`. A process is an incarnation: it starts once and ends once, and
`PidOf` lets two of them run under one number, one after the other. When
`PsAnswers` is FALSE, `ps` may fail at any call. `abandoned` is a history
variable: who was killed with the lock.

### ControlRepository and Transaction

`journal` maps identifiers to operation records, `mem` is each process's copy
of its own. `tree` is what the tracked files hold, `committed` what the head
holds; the head is identified with its contents. `Acquire`, `RequireSettled`,
`Hygiene`, `Begin`, `Finish` and `Release` are the steps of
`with_transaction`; `Finish` covers its four endings (completed, discarded
no-persist, failed, refused for a sensitive value and rolled back).
`.git/index.lock` is modelled because a kill leaves it behind and every later
command then fails.

`Transaction` lets a body do anything bodies do, in any order: recheck and
refuse, declare a mutation, write records, announce and perform an effect
outside control, or perform one unannounced, remove a disposable worktree and
record the removal, commit, fail, be killed. Two constraints are kept from the
bodies: a recheck that ends without a trace comes before the first write, and the
two commands with unannounced effects journal nothing before them and recheck
nothing after. `adrift` has the operations with an announced effect that no
committed record describes, `unannounced` those with an unannounced one. The two
single-entry recoveries read the unresolved entry, then take the lock, then check
and write the copy they read, with a failure text and a time of their own: `by` in
a record says whose. `project recover --resume` clears a stale lock whatever is
unresolved (`Tidy`), and has then nothing to resume or refuses: this module is about
every command but `integration promote`, whose entries `--resume` settles, without
the lock, in `Promotion`.

### Promotion and AtomicPromotion

Each durable write of `integration promote`, `integration abandon`,
`acceptance record` and `project recover --resume` is an action: announce,
compare-and-swap on the authority, journal step, fast-forward of the local
branch, status, each card, event, staging, commit. The landing commit of an
integration is identified with the integration. People edit the candidate
repository (`EditLocal`, `TidyLocal`), push to the authority (`ForeignPush`)
and remove a left-over index lock.

What the program does not enforce is a set of *cautions*: `quiet` (a recovery runs
with no command and no other recovery beside it), `shielded` (from settling what it
found until its own entry says that it reaches outside control, a recovery is not
killed and none of its writes fails), `patient` (the candidate repository is put in
order first) and `exclusive` (nobody pushes over a landing); `undisturbed` is more
than `shielded`, a recovery that never fails at all. The `Cautions` of a run list
those it assumes; section 3 says what happens when one is missing.

### ValidationGates

A `gate run` is two transactions around an unlocked subprocess: `Acquire`
writes the execution permit and, for a CPU-heavy run, the lane record;
`SettleRun` records the receipt and the settlement and removes them, if
`StillHolds`; `RunDies` is a process killed in between (or one whose second
transaction is refused), which leaves permit and lane. `Reserve`,
`SettleByHand` and `Abandon` are the other commands. Transactions are single
steps here, as `Transaction` allows. `candidate` stands for everything a
reservation key binds of a card (commit, revision, lease); `MoveCandidate`
changes it at any time. A receipt's `passed` means passed from a clean worktree.
`expired` counts the reservations past `expires_at`: they are made in order and
last equally long. The ladder of `policy/progressive_validation.rs` is
`Acceptable` and `IsNext`, with gates in their frozen order and one attempt
bound for all.

### Lifecycle, ConvergenceLedger and Convergence

`Lifecycle` has the tables of `domain/card.rs` and `domain/cycle.rs` and, as an
abstract specification, what every command promises: a card moves along its
table, or is revised while it may be. `Allocation` is shown to implement it.

`ConvergenceLedger` is the arithmetic of `policy/convergence.rs`: a ledger is the
sequence of facts, and `Attempts`, `Renewals`, `Waived`, `Exhausted`,
`CycleEscalated` and `Readable` are what `project` and the assessments compute,
with u32 products that may overflow. They are stated for the set of a cycle's
facts; `Project` is the code's way there, pass by pass in the order of the ledger:
the rebaselines, the attempts, then each kind of disposition, with counters that
are carried along and a view that is refused at the first fact that does not fit.
`Convergence` keeps that ledger, the project's policy, each cycle's status and
the document it pins, each card's state, home and risk, and what a merge whose
conflict is not yet recorded still has to record. Every command that records an
attempt (`RecordReview`, handoffs with failed gates, revisions, repairs, merges)
or is stopped by the budget is an action, with the six dispositions and the
commands that replace the policy. The operator's *cautions* are named:
`named` (a revision names a cycle that exists), `settled` (policies are
replaced while no cycle is a draft), `fresh` (a rebaseline installs a policy no
fact names) and `early` (mutation exemptions are set while no cycle is open).
Each of them keeps out behaviour the code allows; see section 3.

### Allocation

Who may work on what: `cycleStatus`, `members`, `plan` and `legacy` of cycles;
`cardState`, the `revisions` of a card and the cycle it is bound to; `lease`,
`locator` and `branches` of its work. Activation and revision compare claims and
dependencies with the cards the code looks at, and no others. `work start`, the
batch with its failure after some members exist (`FailStart`), `work resume` as
a decision outside the lock and a transaction that acts on it (`CheckResume`,
`Resume`, `RefuseResume`), block, reclaim, close and the moves of other
commands (`Progress`) are actions. Paths, contracts and exclusive resources are
all compared for being shared, so a claim is a set of areas.

### Delivery

A commit is a number with the set of commits it contains; `head` is where each
worktree stands and moves whatever the card's state is. `handoffs`, `begun` and
`reviews` are the records, in order. `CreateHandoff` binds the candidate, the
revision and the approved candidates of the dependencies it incorporates;
`RecordReview` demands a begun review of the standing handoff and findings that
account for what the last round left open (`ReconcileFindings`); `Prepare` is
the selection of `integration prepare`. A finding is its location and
disposition, a review counts them, because the code matches by location and the
hazard is one entry answering for two.

### DependencyOrder and IntegrationPipeline

`integrations` holds each record with its verification, exceptions and archive;
`authority` is the sequence of landings on the protected branch. From `Prepare`
to `Close` every command is one action over the whole record, the cards and the
cycle, with cards that move, are resumed or abandoned meanwhile, groups that are
declared, a policy that is replaced, foreign pushes and smoke gates that leave
the worktree dirty. `stuck` is a promotion or a cleanup that refused half-way and
refuses again whenever it is resumed. A close may find worktrees with uncommitted
work and a checked-out branch that does not hold what was landed (`Checkouts`). A
scenario says which cards there are
and how often each thing happens: constants of an instance, not of the code.

### PathPatterns, WriteScopes, ReviewEvidence, ReceiptReuse, Lessons, Evidence

Four components that share nothing are followed one at a time by `Evidence`
(`subject`), with the fold of the ledger as the fifth. `PathPatterns` models the
matcher of `policy/paths.rs` character by character, because overlap is decided
between patterns and permission between a pattern and a path; its walks are
recursive functions over pairs of places, a path is any sequence of names over
`Characters`, and `Means` says what a pattern should describe. `WriteScopes`
admits claims that do not overlap and records every path a handed-off candidate
touches. `ReviewEvidence` lets receipts be replaced, exemption policies be
edited, cards be revised and candidates move around the recorded verdicts.
`ReceiptReuse` runs one gate in changing states and asks for every state whether
some receipt answers, in requests about checks of plans made for any state, in the
plan or not. `Lessons` takes a registered gate for granted (`load_gate`). The ledger takes facts of two cycles in any order, under the
policy in force, under a retired one and under a foreign one, an attempt
for the wrong reason and a rebaseline that names a card among them. `Lessons` moves the registry while a card is revised,
handed off, reviewed and integrated.

## 3. Runs

| Run | Question | Instance |
|---|---|---|
| `control` | is the lock exclusive, and only an abandoned one removed, when `ps` may fail; is a promotion atomic, evident and whole for a careful operator? | lock: 4 incarnations, 2 of them sharing a number, one recovery at a time; promotion: 2 processes, 2 integrations of 2 and 1 cards, the first accepted at the start, or both, or none, 2 calls, 2 faults, all cautions but `undisturbed` |
| `recovery` | is an abandoned lock eventually cleared, and an interrupted promotion recorded? | lock: 3 incarnations, the operator immortal; promotion: 1 integration of 2 cards, 1 call, 2 faults |
| `live_lock` | violation: of two recoveries one removes a live command's lock | the lock of `control`, with `ps` answering and recoveries not kept apart |
| `lost_commit` | violation: an interrupted promotion is never committed | 1 integration, 1 call, 1 fault, all cautions |
| `transaction` | is every part-way state evident, and every settlement final? | 2 processes, 2 operations, 2 contents |
| `gates` | does a reservation buy one execution, one settlement, and evidence only for the state it was made for? | 2 `gate run` processes, 1 card, 2 candidates, 2 gates, 3 reservations, 1 lane |
| `convergence` | is the budget kept, and does an escalation hold? | 2 cards, 2 cycles, 2 policies, 2 facts, u32 up to 5, 1 merger |
| `exemption_pin` | violation: an exemption policy may be set under a working cycle | 1 card, 1 cycle, without `early` |
| `allocation` | do claims stay disjoint, dependencies acyclic, plans honoured, work leased? | 2 cards, a new and an old cycle, 2 areas, one card revised once |
| `delivery` | do verdicts stand on what they judged, and are findings carried? | a card with a dependent one, or one card with three reviews of two findings; 3 commits |
| `evidence` | do scopes, evidence, reuse and lessons hold? | small inputs for each part, 4 facts |
| `pipeline` | does integration land what was approved? | seven scenarios over 4 cards in 2 cycles, up to 3 integrations |

`control` and `recovery` ask their questions of the lock file or of promotions:
`subject` says, from the start, which of the two moves while the other stays
as it began. The promotions take the lock as `ExclusiveLock` has it.

Some properties are named groups, so that one run asks one question:

 - `BudgetKept`: `AttemptsWithinGrant`, `FailuresWithinGrant`,
   `NothingRenewedAhead`, `TallyStartsAtRebaseline`;
 - `PlanHonoured`: `PlanCoversMembers`, `SequentialOrder`, `SequentialWorkAlone`,
   `JointTogether`;
 - `LandsAsApproved`: `CardsFollowIntegration`, `LandedInOrder`, `LandsWhole`,
   `FinalCoversCycle`, `BreaksOffAfterLanding`, `ClosedWorkIsKept`,
   `PreviewKeepsItsWord`;
 - `ScopesHold`: `DisjointWrites`, `WrittenAsMeant`;
 - `IndependentlyJudged`: `HighRiskSeenByHuman`, `NobodyBlessesOwnWork`;
 - `ReuseIsExact`: `LatestRunAnswers`, `InventoryAnswers`;
 - `CommittedPromotionIsWhole`: `PromotionLoggedOnce` and that its cards are landed.

**What some of them do not say.** `PartialWorkHasEvidence`: an unannounced effect
keeps its evidence when the command is killed, but a failure on a clean tree is
recorded as `failed_clean` all the same. `CommittedPromotionIsWhole`: at most one
event, since none is possible too (`lost_commit`'s window). `PublishedIsRecorded`:
written in the working tree, not committed, and with the escape the code leaves, a
resumption that was itself interrupted. `SettlementIsFinal`: the state and the rest
of a settled entry; a second recoverer may rewrite who settled it and when.
`DependenciesSelectedApproved`: what the dependent's handoff *recorded* as
incorporated, its newest handed-off ancestor; of commits on top of that which were
never handed off it "passes containment with no sign of the gap"
(`commands/handoff.rs:327-333`). `ReuseIsExact`:
the request's plan is compared with what the request expects, and nobody compares
it with the card as it is now (`commands/gate.rs:3878-3904`). `PreviewKeepsItsWord`:
up to the check that only Git makes, below. `LadderInOrder` and
`EvidenceSettlesOnce` are two halves: what evidence needs to exist, and that a
state which moved while its gate ran gets none.

**Bounds.** Two recycled incarnations and two others are the smallest instance
in which a number is reused while a recovery and a command compete. Two
operations suffice for an interrupted command, its recovery and a successor that
must refuse (identifiers are handed out in order and the operation after the
last one simply does not start). One lane and two processes make CPU-heavy runs
compete (the code has two lanes); three reservations give a key its second and
third generation, or one key in several modes, and two candidates let a
candidate move and come back. Two calls and two faults let a promotion be
interrupted, resumed, interrupted again and resumed, beside a second command on
the same or another integration. Two facts are an attempt and the disposition
that answers it, with limits of one, and a u32 of 5 ends where the products of
the budgets do. The constraint `Products` of `convergence` keeps apart what
would only multiply: two cards share a cycle, or one card meets two cycles of
which one ends, and cycles are sealed where there is one of each;
that of `allocation` ends the old cycle where there is one card. Three
commits are a card's, its dependent's and a rewrite of either; three reviews a
finding raised, carried and settled. The scenarios of `pipeline` are described
in `MCIntegrationPipeline`. `MaxCalls`, `MaxFaults`, `MaxReservations`, `OpId`,
`MaxFacts`, `MaxRevisions`, `MaxCommits`, `MaxHandoffs`, `MaxReviews`,
`MaxRevision`, `MaxRuns`, `MaxCardRevision`, `MaxEvents` and the counts of a
scenario are the only bounds, and appear in guards only; where there is a proof
it lifts them. Deadlock is not checked: once the bounded calls are made, or
every process has ended, the system stops.

**Fairness.** A running command keeps executing: weak fairness of its steps.
Nobody is obliged to run a command; the liveness runs assume an operator who,
as the refusals ask, tidies the candidate repository, removes an index lock that
no command holds (weak fairness) and runs `project recover --resume` again and
again (strong fairness, because it competes with others for the lock). There is
no fairness on faults, and a process may be killed at any point.

**The violations.** `live_lock`: `clear_stale` compares the holder and then removes
the path. Two recoveries diagnose the same dead holder; one removes the lock, a
command takes it, and the other, which had compared before, removes that. The
comment says a stale verdict "only ever removes that lock". `control` keeps
recoveries apart (`SerialRecovery`), which the code does not.

`lost_commit`: a promotion is killed or fails after its last card was written
`landed` and before its commit. `resume_promotion` asks for a card short of landed,
so the recovery settles the entry and reports that no promotion reached the
authority; status, cards and event stay uncommitted or unwritten. The defect
register has this as fixed (#15).

`exemption_pin`: three commands rewrite `project.json`, whose
digest every cycle pins; `set-convergence-policy` and
`set-final-authorization-policy` refuse while a cycle works,
`set-mutation-exemption-policy` does not ask, and the gates of the cycle's cards
then refuse the document. `PROJECT.json` quotes the comment it disagrees with.

**What the models showed and no run keeps.** The following is what the code does;
each was found by dropping a caution or by a property that TLC refuted. The
refuted properties stay in the modules as commented definitions
(`RetriesAreNumbered`, `ActiveWorkDisjoint`, `ResumeTakesUpWaitingWork`,
`RevokedHandoffNeverApplies`, `PublishedSettles`, `AbandonedCycleLandsNothing`,
`StaleDecisionRenewable`, `UnmetLessonReturnable`).

 - *Recovery.* `recover --resume` marks the interrupted entries completed before
   its own is open and without the lock. Killed in between, an authority that moved
   is told of by nothing (`shielded`, which also covers a write of that stretch
   failing). Run beside a live promotion it finishes that promotion's entry, which
   the promotion's next step makes `started` again: a settled entry does change,
   and in between nothing is unresolved (`quiet`). A recovery that fails leaves a
   `project.recover` entry that `--resume` refuses, and nothing else may start,
   although re-deriving the state is said to make it "safe to run again"
   (`commands/project.rs:1331`): the escape of `PublishedIsRecorded`. A push over
   the landing loses it (`exclusive`). That the protected branch is the one checked
   out is not checked again when a promotion is resumed.
 - *Effects outside control.* An `archive create` that fails after it has made or
   released refs, and before its first record, is recorded as clean.
 - *Gates.* The attempt number is computed before the subprocess and recorded
   after it: one gate reserved in two modes and run twice at once yields two
   first attempts. `gate settle` and `gate abandon` leave permit and lane, and
   nothing removes them. Once a failing receipt has settled a reservation,
   reserving again answers with the settled one.
 - *Convergence.* A rebaseline to a policy used before makes the cycle
   unreadable (`fresh`); a policy replaced while only draft cycles exist leaves
   them pinned to the old document (`settled`); a revision may name a cycle that
   does not exist (`named`), and changes the base and the risk unchecked. A renewal after a
   handoff that declared several failures leaves the card escalated. An
   integration's conflict is recorded by a second transaction and is lost if
   the process dies before it.
 - *Allocation.* Claims of cards in sealed or abandoned cycles are not compared.
   A revoked handoff makes a card active without asking the overlap policy. A
   card revised in a planned cycle is unbound for good, and one reclaimed or
   revised then matches no assignment of the plan. Cards of a joint set cannot
   be resumed. A sequential order that contradicts the dependencies, or an
   abandoned predecessor, stops the rest. The lease of an abandoned card is
   never released. A resume decides outside the lock.
 - *Delivery.* A verdict names no handoff: of a revoked handoff with a begun
   review an adverse verdict can be filed again and again, and one handed off
   anew is judged by a review begun before. `current_approval` ignores later
   adverse reviews and revocation.
 - *Pipeline.* An atomic group declared late, or one with an abandoned card,
   lands in parts or never. A sealed cycle one card of which landed individually
   is never finalized. An accepted integration that is abandoned leaves its cards
   accepted; a rejected one stays reviewed; a cycle abandoned meanwhile still
   lands. A promotion over an abandoned card breaks off for good, after the
   branch has moved. A failed verification's record is overwritten by the retry.
   A refused `archive close` leaves an operation no recovery resumes. Beside its
   own checks it runs `git branch -d`, which refuses a branch that neither the
   checked-out branch nor its upstream holds; the preview does not try that, though
   "every check the real close makes runs here too" (`commands/archive.rs:411`).
 - *Evidence.* The matcher takes the first occurrence of the last run of a
   segment, so `*ab` may miss a name it describes. The approver of an exemption
   may be the implementer, and an attester is compared with the implementer's
   declared principal only. Generated-artifact patterns may overlap with
   different classes, the first deciding. An unmet check of a required lesson
   is refused for every decision, so such a card cannot even be returned. The
   harness captures too little for its own receipts ever to be reused.

**Hazards no property covers.** A lock that disappears between the check for its
existence and the read is reported as unreadable (`control/lock.rs:399`; it
only costs a refusal). The cards of an accepted integration that is
abandoned stay accepted (`commands/integration.rs:5187`). Two concurrent
initializations may both go on (`commands/project.rs:871`). A gate that declares
several attempts cannot use them under one key (`commands/gate.rs:2211`).

## 4. Proofs

All theorems hold for every value of the constants that satisfies the named
assumptions of their modules (`LockAssumption`, `NoLockAssumption`,
`ControlAssumption`, `ContentsAssumption`, `PromotionAssumption`,
`GatesAssumption`, `AllocationAssumption`, `DeliveryAssumption`,
`PipelineAssumption`, `ConvergenceAssumption`, `LedgerAssumption`,
`ReviewEvidenceAssumption`, `ReceiptReuseAssumption`, `LessonsAssumption`,
`ScopesAssumption`, `FactsAssumption`). TLC evaluates each of them. Some theorems ask more, of the operator
and in their statement: `SerialRecovery`, `Careful`, `GroupsComeFirst` and the
cautions of `Convergence`, below.

The larger proofs have one shape. What each action does is stated once, in
...Effect lemmas, as one of a few kinds of step, each a handful of facts about
single cards or records; `EveryStep` says that every step of `Next` is of a kind.
The invariants are layers, each resting on those before it, and their proofs
never look into an action.

`ControlProofs` is about the lock and the transaction. Of the lock (all but its types
assuming `SerialRecovery`, one recovery at a time, without which `live_lock` refutes
what is proved): types, mutual exclusion, that a stale
verdict is only reached about a process killed with the lock, that only an own
or abandoned lock is removed, and that the protocol implements `ExclusiveLock`,
for any set of processes and any reuse of numbers. A stale verdict joins two
observations made at different times - the holder is gone, the lock still names
it - so the invariant cannot be about one moment: `StaleIsGone` says that what
was answered stays true (gone is for ever), `LockHasHistory` and
`AbandonedIsGone` that a lock whose holder is gone is an abandoned one, and
`RemovesWhatItCompared` that with one recovery at a time nothing changes between
comparing and removing.

Of the transaction: types, `PartialWorkHasEvidence`, `OneInterruption`,
`HeadFollowsItsOperation` and `SettlementIsFinal`. The invariant says where
evidence comes from: inside the section the lock names the process
(`LockIsHeld`), its memory is what the journal has (`JournalIsCurrent`), it began
with nothing unresolved (`StartsSettled`) and on a clean tree (`StandsOnHead`), an
effect adrift has an entry that says so (`AdriftIsRecorded`), and a recoverer's
copy is either still the entry or one the entry was settled to as the copy would
settle it (`CopyIsFaithful`), which is why writing back a stale copy changes nothing
but who settled the entry and when.

`PromotionProofs`: types, `LocalNeverAhead`, and, under the cautions `quiet`,
`shielded`, `patient` and `exclusive` (`Careful`; a recovery may fail and be killed
once it has announced its work), `PublishedIsEvident`, `PublishedLandingKept`,
`CommittedPromotionIsWhole`, `OneInterruption` and `SettlementIsFinal` of promotions
and recoveries too, and the refinement of `AtomicPromotion`, for any processes,
integrations, cards, operations, calls and faults. The layers are
`Typed`, `Control` (who holds the lock; one open operation at most), `World`
(what the records say of what was published), `Told` (what event log and commit
say) and `Ahead` (how far the tree is ahead of the commit). A promotion
interrupted at any write leaves a state that `World` and `Told` describe by how
far it got, so that a resumption finds exactly the writes still to make.
Section 3 says why no caution can be spared; types and `LocalNeverAhead` need
none.

`ValidationGatesProofs`: types, `OneWinner`, `StartedAtMostOnce`,
`HeavyRunsHoldLanes`, `LadderInOrder` and `EvidenceSettlesOnce`. The winner needs
`GenerationsGrow` (ids and generations of a key grow together, so the newest
generation is the last reservation and all before it were abandoned). One
execution needs `StartLeavesTrace`: a reservation that was started still has its
permit or has been settled, so the two checks of `Acquire` suffice although a
run may vanish at any point. Lanes need `RunIsExecution`: two runs never share a
reservation, so the lane a settlement frees is not another run's. The ladder
needs that acceptable evidence stays acceptable when receipts are appended
(`EvidenceStays`), which is true because the first pass decides.

`AllocationProofs`: `ActiveClaimsDisjoint`, `DependenciesAcyclic`, `PlanHonoured`,
`WorkIsLeased` and the refinement of `Lifecycle`. Beside the types the invariant
needs `RecordsAgree` (a card has a revision just when it is no draft, no lease
before that, and members are activated cards of cycles that have been active)
and `PlansComeFirst` (until its cycle is planned or migrated no card that stayed
in it is leased). No dependency loop ever closes, although each
check looks at the cards of one cycle: what a check accepts depends only on
cards it looked at, so a loop through the new card would lie among them
(`NoNewLoop`).

`DeliveryProofs`: `VerdictsStand`, `OpenFindingsCarried`,
`OnlyReviewedCommitsSelected` and `DependenciesSelectedApproved`. `Judged` ties
each review to the handoff it was opened on and an approved card to its last
review and its last handoff; `CarriedOn` says of consecutive rounds what
`OpenFindingsCarried` says of any two.

`IntegrationPipelineProofs`: that `topological_order` lists an acyclic selection
whole, each card once and after its dependencies, and refuses only cycles; types;
the parts of `LandsAsApproved`; `LandingsBuildOnAuthority`, `EscalatedCycleStands`
and `PublishesAuthorized`. A cleanup that breaks off does so after every commit it
was to remove is kept (`BreaksOffOnlyAfterLanding`), whichever of its checks fails.
Over twelve kinds of step the layers are `Typed`,
`Following` (each card is as far as the integration that holds it), `AllBased`
(the dependencies of a selection are in it or in what it was prepared against),
`Kepts` (final landings, archives, what breaks off) and `Wholes` (groups and
joint sets are not divided). Only `Wholes`, and so `LandsApproved` as a whole,
assumes `GroupsComeFirst`: nobody declares an atomic group one of whose cards
is already in an integration. The code lets them, and then the group lands in
parts; the parts of `LandsAsApproved` that do not depend on it are theorems of
their own.

`ConvergenceProofs`: types, `BudgetKept`, `OpenCycleWorkable` and
`EscalationHolds`. The invariants count facts of a ledger that is only appended
to, so the first half is about counting: appended facts raise a tally by no more
than there are of them, and what a tally says of the largest and the smallest
limit survives that. Steps are of six kinds. `BudgetKept` needs more than it
says: `Away` - in a cycle that a card has left an attempt is to spare, because
the budget asked when a card moves is that of the cycle it leaves, and the
attempt is recorded in the one it enters - and `Owed`: failures recorded and
failures that mergers still have to record are together within the grant, which
is where the one-per-merger excess of `FailuresWithinGrant` comes from. It
assumes `fresh` and no other caution: a policy rebaselined to a second time
brings its old attempts back. `OpenCycleWorkable` rests on `Rooted` (facts, homes
and mergers are of cycles that exist), `Heard` and `Told` (what an open cycle
recorded, or a merger still owes it, names the policy in force or one the cycle
was told it lost) and assumes all four cautions, as section 3 says the code needs
it to. `EscalationHolds` and the types assume none.

`EvidenceProofs`: `ReliedEvidenceStands`, `IndependentlyJudged`, `ReuseIsExact`,
`LessonsAnswered`, `ScopesHold` and `ProjectionAgrees`. `Evidence` follows one part at a time, so each part has an
invariant of its own (`PartsMove`). What a relying command checks anew needs
none, and `ReliedEvidenceStands` is just that; who judged is checked once, when
the review is recorded, and `ReviewsRecorded` says why it stays enough: a card's
risk changes only with its revision, and a review of an earlier revision is not
relied on. `RunsFollow` says that every run names the one before it unless that
one recorded no provenance; so of all receipts the last alone is unanswered for,
and `compatible`, which looks at eight things in order, refuses all others
(`RefusalIsExact`), after `request_matches_plan` and the look into the plan. `LessonsCarried` follows a manifest from the revision that
froze it through packet, review and verification while the registry it was built
from only grows, which is why the answers given stay answers to what was active
then.

`ScopesHold` is about all patterns, so its proof is mostly about the matchers.
Each is a recursive function over the places of two sequences, or over the
bounds of a segment's runs; `FixedPoint` says that such a definition has a
value (what it gives at a place depends on places of lower rank only), and
`WalkSolves`, `MatchSolves` and `CursorSolves` that the code's answer is read off
it. `Means` is stated without recursion, as a way to lay a pattern over a name.
Then: what `segment_matches` finds can be laid over the name (`SegmentMeant`);
two segments laid over one name are found to meet, and two patterns that match
one path to intersect (`MeaningsMeet`, `MatchesMeet`: of the places both reach
with the same prefix of the name, take one nearest the end); what is contained
is matched (`Contained`); so two scopes that allow one path overlap
(`AllowedTogether`), and what is matched is meant (`MatchesMean`). The converse of
the last is false, as section 3 says, and nothing here needs it. The invariant
itself is small: active claims do not overlap one way round, each path written
passed `check_path` against its card's claim, and a card without a claim has
written nothing.

`ProjectionAgrees` is about all ledgers, so its proof is about the fold. Its idea is
that what a pass has read is a *set* of places, whatever the order: `ViewOf` gives
the view a set of places has (refused if one of its facts belongs to no policy or is
ill-bound, or if a count leaves u32; else the counts), and `FoldOneMore` says that
folding one more fact into the view of a set gives the view of the set with that
place. It has a case per kind of fact: an attempt or a renewal moves one cell of one
table, or refuses exactly where the cell would leave u32; a waiver raises one flag;
an abandonment, a redesign and a fact under a retired policy change nothing; a
refused view stays refused. Then a pass adds the places of its kinds (`PassReads`),
so the six passes together read every fact that is not a rebaseline (`AllPasses`),
the first pass collects the retired policies (`CollectsRetired`), and what it
refuses of the rebaselines is the rest of `Readable` (`ProjectionMeans`). That the
order of the facts is immaterial - the claim of the comment above the first pass and
of `rebaselines_are_independent_of_event_order` - follows, since the set-based side
only counts (`OrderIsImmaterial`).

**Induction.** The library's induction theorems take an operator as a parameter
and cannot be used here, but the proofs need induction in seven places: the
dependency order, the last element of a sequence that satisfies a condition, the
sums of findings, findings over rounds, the largest of a policy's limits, the
matchers and the passes of a projection. Each is done by the least element of the set of numbers that fail,
which `WellFoundedInduction` gives as facts about sets (`WFMin`,
`NatLessThanWellFounded`).

**Only model-checked.** Liveness (`AbandonedLockCleared`, `PublishedIsRecorded`),
because fairness and ENABLED are out of the prover's reach.
Every invariant and every action property of the passing runs is proved.

## 5. Not modelled, and the plan

Left out: what counts as a sensitive value (string matching), the contents of
records the properties do not tell apart, parsing, rendering, configuration,
audit and snapshots (read only), project initialization (once per project),
backup (copies), the gate runner's subprocess, Git itself (what the commands
need of it is modelled where it is used), disk failure below `write_atomic`.

Next, in this order:
 1. `gate mutate`, `gate register` and the advisory schedule in
    `ValidationGates`.
 2. The derivation of a validation plan.
