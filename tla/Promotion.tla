----------------------------- MODULE Promotion -----------------------------
(***************************************************************************)
(* `integration promote`, the commands it competes with                    *)
(* (`acceptance record`, `integration abandon`) and its recovery           *)
(* (`project recover --resume`), each of them a body run by                *)
(* with_transaction (ControlRepository), with every durable write a step   *)
(* of its own and a crash or an error possible between any two.            *)
(*                                                                         *)
(* src/src/commands/integration.rs, acceptance.rs and project.rs. The      *)
(* landing commit of an integration is identified with the integration.    *)
(***************************************************************************)
EXTENDS ControlRepository, Sequences, FiniteSets

CONSTANTS
    Integration,
    Members,    \* the cards of each integration
    Baseline,   \* expected_main_sha: the commit every landing was built on
    Elsewhere,  \* any other commit
    Cautions,   \* what the operator avoids, see below
    MaxCalls,   \* bound on the commands invoked, recoveries apart
    MaxFaults   \* bound on crashes and errors in a body

(***************************************************************************)
(* Cautions an operator may or may not take:                               *)
(*   "quiet"       `recover --resume` runs alone, no command and no other  *)
(*                 recovery beside it                                      *)
(*   "shielded"    from settling the entries it found until its own entry  *)
(*                 says it reaches outside the control repository, it is   *)
(*                 not killed and none of its writes fails                 *)
(*   "undisturbed" nor is it, or does one, later                           *)
(*   "patient"     it runs once the local main can be fast-forwarded, with *)
(*                 the protected branch checked out, and once a leftover   *)
(*                 .git/index.lock has been removed                        *)
(*   "exclusive"   nobody else pushes to a protected branch that holds a   *)
(*                 landing commit                                          *)
(***************************************************************************)
AllCautions == {"quiet", "shielded", "undisturbed", "patient", "exclusive"}

ASSUME PromotionAssumption ==
    /\ Baseline \notin Integration
    /\ Elsewhere \notin Integration \cup {Baseline}
    /\ Cautions \subseteq AllCautions
    /\ MaxCalls \in Nat
    /\ MaxFaults \in Nat

Card == UNION {Members[i] : i \in Integration}

VARIABLES
    authority,  \* the protected branch of the authority repository
    localMain,  \* the protected branch of the candidate repository
    checkedOut, \* TRUE: it is the branch checked out there
    blocked,    \* TRUE: its worktree cannot be fast-forwarded (uncommitted work)
    retained,   \* landing refs kept in the candidate repository
    target,     \* the integration each command is about
    found,      \* copies of the unresolved records a recovery has read
    published,  \* history: landings the authority has ever pointed at
    calls,
    faults

worldVars == <<authority, localMain, checkedOut, blocked, retained, published>>
localVars == <<target, found>>
vars == <<controlVars, processVars, worldVars, localVars, calls, faults>>

Command == {"integration.promote", "integration.abandon",
            "acceptance.record", "project.recover"}

(***************************************************************************)
(* The tracked records: integration statuses, card states, acceptance      *)
(* decisions and the event log.                                            *)
(***************************************************************************)
Event == {"acceptance.recorded", "integration.promoted", "integration.abandoned"}
                \X Integration

Records ==
    [status : [Integration -> {"reviewed", "accepted", "promoted", "abandoned"}],
     card : [Card -> {"approved", "integrating", "accepted", "landed"}],
     decision : [Integration -> {"none", "accepted", "rejected"}],
     log : Seq(Event)]

\* Each integration has been reviewed, or reviewed and accepted.
Initial(accepted) ==
    [status |-> [i \in Integration |-> IF i \in accepted THEN "accepted" ELSE "reviewed"],
     card |-> [c \in Card |-> IF \E i \in accepted : c \in Members[i]
                              THEN "accepted" ELSE "integrating"],
     decision |-> [i \in Integration |-> IF i \in accepted THEN "accepted" ELSE "none"],
     log |-> <<>>]

Init ==
    /\ \E accepted \in SUBSET Integration : InitControl(Initial(accepted))
    /\ authority = Baseline
    /\ localMain = Baseline
    /\ checkedOut = TRUE
    /\ blocked = FALSE
    /\ retained = Integration
    /\ target = [p \in Process |-> Nothing]
    /\ found = [p \in Process |-> <<>>]
    /\ published = {}
    /\ calls = 0
    /\ faults = 0

Takes(caution) == caution \in Cautions

Running(p, command) == mem[p].command = command

\* A process is carrying out `recover --resume`.
Recovering(p) == Running(p, "project.recover")

(***************************************************************************)
(* Invoking commands.                                                      *)
(***************************************************************************)
Invoke(p, command, i) ==
    /\ calls < MaxCalls
    /\ Takes("quiet") => \A q \in Process : ~Recovering(q)
    /\ Call(p, command)
    /\ target' = [target EXCEPT ![p] = i]
    /\ calls' = calls + 1
    /\ UNCHANGED <<worldVars, found, faults>>

\* check_promotion: the recorded decision still stands, the authority is where
\* the landing expects it, and the local main is clean, there, and checked out.
CheckPromotion(i) ==
    /\ tree.status[i] = "accepted"
    /\ tree.decision[i] = "accepted"
    /\ authority = Baseline
    /\ checkedOut
    /\ localMain = Baseline
    /\ ~blocked

\* run_promote checks before it opens a transaction, and again inside it.
CallPromote(p, i) ==
    /\ CheckPromotion(i)
    /\ Invoke(p, "integration.promote", i)

CallAbandon(p, i) == Invoke(p, "integration.abandon", i)

CallAccept(p, i) == Invoke(p, "acceptance.record", i)

(***************************************************************************)
(* Pieces of bodies.                                                       *)
(***************************************************************************)
SameWorld == UNCHANGED <<worldVars, localVars, calls, faults>>

\* write_atomic of one record: the working tree only.
WriteTree(p, records, to) ==
    /\ tree' = records
    /\ Goto(p, to)
    /\ UNCHANGED <<lock, indexLock, journal, committed, op, mem, snapshot, outcome>>
    /\ SameWorld

Refuse(p, how) ==
    /\ Return(p, how)
    /\ UNCHANGED <<controlVars, op, mem, snapshot>>
    /\ SameWorld

Logged(records, type, i) == [records EXCEPT !.log = Append(@, <<type, i>>)]

EventOf == [command \in Command |->
    CASE command = "acceptance.record" -> "acceptance.recorded"
      [] command = "integration.abandon" -> "integration.abandoned"
      [] OTHER -> "integration.promoted"]

AppendEvent(p) ==
    /\ At(p, "event")
    /\ WriteTree(p, Logged(tree, EventOf[mem[p].command], target[p]), "stage")

Stage(p) ==
    /\ At(p, "stage")
    /\ StageCommit(p, "commit")
    /\ SameWorld

CommitRecords(p) ==
    /\ At(p, "commit")
    /\ InstallCommit(p)
    /\ Return(p, "ok")
    /\ UNCHANGED <<op, mem, snapshot>>
    /\ SameWorld

(***************************************************************************)
(* acceptance record.                                                      *)
(***************************************************************************)
RecordAcceptance(p) ==
    /\ At(p, "body")
    /\ Running(p, "acceptance.record")
    /\ LET i == target[p]
       IN \/ /\ tree.status[i] = "reviewed"
             /\ tree.decision[i] = "none"
             /\ \/ WriteTree(p, [tree EXCEPT !.decision[i] = "accepted"], "accept")
                \/ WriteTree(p, [tree EXCEPT !.decision[i] = "rejected"], "event")
          \/ /\ tree.status[i] # "reviewed" \/ tree.decision[i] # "none"
             /\ Refuse(p, "error")

MarkAccepted(p) ==
    /\ At(p, "accept")
    /\ WriteTree(p, [tree EXCEPT !.status[target[p]] = "accepted"], "accept cards")

\* Each member moves from `integrating`; any other state refuses.
AcceptCard(p) ==
    /\ At(p, "accept cards")
    /\ LET pending == {c \in Members[target[p]] : tree.card[c] # "accepted"}
       IN \/ /\ pending = {}
             /\ WriteTree(p, tree, "event")
          \/ \E c \in pending :
                \/ /\ tree.card[c] = "integrating"
                   /\ WriteTree(p, [tree EXCEPT !.card[c] = "accepted"], "accept cards")
                \/ tree.card[c] # "integrating" /\ Refuse(p, "error")

(***************************************************************************)
(* integration abandon.                                                    *)
(***************************************************************************)
MarkAbandoned(p) ==
    /\ At(p, "body")
    /\ Running(p, "integration.abandon")
    /\ \/ /\ tree.status[target[p]] \in {"reviewed", "accepted"}
          /\ WriteTree(p, [tree EXCEPT !.status[target[p]] = "abandoned"], "return cards")
       \/ /\ tree.status[target[p]] \notin {"reviewed", "accepted"}
          /\ Refuse(p, "error")

\* Only cards still `integrating` go back to `approved`; then the landing ref
\* is released.
ReturnCard(p) ==
    /\ At(p, "return cards")
    /\ LET pending == {c \in Members[target[p]] : tree.card[c] = "integrating"}
       IN \/ \E c \in pending :
                WriteTree(p, [tree EXCEPT !.card[c] = "approved"], "return cards")
          \/ /\ pending = {}
             /\ Goto(p, "event")
             /\ retained' = retained \ {target[p]}
             /\ UNCHANGED <<controlVars, op, mem, snapshot, outcome, authority, localMain,
                            checkedOut, blocked, published, localVars, calls, faults>>

(***************************************************************************)
(* integration promote: publish, then settle_promotion.                    *)
(***************************************************************************)
AnnouncePublish(p) ==
    /\ At(p, "body")
    /\ Running(p, "integration.promote")
    /\ \/ /\ CheckPromotion(target[p])
          /\ WriteRecord(p, OutsideControl(mem[p]))
          /\ Goto(p, "publish")
          /\ UNCHANGED <<lock, indexLock, tree, committed, op, snapshot, outcome>>
          /\ SameWorld
       \/ ~CheckPromotion(target[p]) /\ Refuse(p, "error")

\* Faulty: the branch is moved wherever it was; a rejection goes unnoticed.
Forced == TRUE
RejectedUnnoticed(p) == authority # Baseline /\ WriteTree(p, tree, "published")

\* update-ref <branch> <landing> <expected>: a compare-and-swap. A rejection
\* is an error; the authority was not touched.
AsExpected == authority = Baseline
Rejected(p) == authority # Baseline /\ Refuse(p, "error")

Publish(p) ==
    /\ At(p, "publish")
    /\ \/ /\ AsExpected
          /\ authority' = target[p]
          /\ published' = published \cup {target[p]}
          /\ Goto(p, "published")
          /\ UNCHANGED <<controlVars, op, mem, snapshot, outcome, localMain, checkedOut,
                         blocked, retained, localVars, calls, faults>>
       \/ Rejected(p)

Published(p) ==
    /\ At(p, "published")
    /\ WriteRecord(p, OutsideControl(mem[p]))
    /\ Goto(p, "sync")
    /\ UNCHANGED <<lock, indexLock, tree, committed, op, snapshot, outcome>>
    /\ SameWorld

\* synchronize_local_main: `git merge --ff-only` moves whatever is checked out
\* and fails, asking for recovery, when that cannot be fast-forwarded.
SyncLocalMain(p) ==
    /\ At(p, "sync")
    /\ WriteRecord(p, OutsideControl(mem[p]))
    /\ \/ /\ ~blocked
          /\ checkedOut => localMain \in {Baseline, target[p]}
          /\ localMain' = IF checkedOut THEN target[p] ELSE localMain
          /\ Goto(p, "mark")
          /\ UNCHANGED outcome
       \/ /\ blocked \/ (checkedOut /\ localMain \notin {Baseline, target[p]})
          /\ Return(p, "recovery")
          /\ UNCHANGED localMain
    /\ UNCHANGED <<lock, indexLock, tree, committed, op, snapshot, authority, checkedOut,
                   blocked, retained, published, localVars, calls, faults>>

\* The step is journaled with the whole record, then the status is written.
MarkPromoted(p) ==
    /\ At(p, "mark")
    /\ WriteRecord(p, mem[p])
    /\ tree' = [tree EXCEPT !.status[target[p]] = "promoted"]
    /\ Goto(p, "land")
    /\ UNCHANGED <<lock, indexLock, committed, op, snapshot, outcome>>
    /\ SameWorld

LandCard(p) ==
    /\ At(p, "land")
    /\ LET pending == {c \in Members[target[p]] : tree.card[c] # "landed"}
       IN \/ pending = {} /\ WriteTree(p, tree, "event")
          \/ \E c \in pending :
                \/ /\ tree.card[c] = "accepted"
                   /\ WriteTree(p, [tree EXCEPT !.card[c] = "landed"], "land")
                \/ tree.card[c] # "accepted" /\ Refuse(p, "error")

(***************************************************************************)
(* project recover --resume.                                               *)
(***************************************************************************)
ReadyForRecovery == checkedOut /\ ~blocked /\ ~indexLock

\* The unresolved records are read before, and settled without, the lock.
StartRecovery(p) ==
    /\ At(p, "idle")
    /\ Takes("quiet") => \A q \in Process : At(q, "idle")
    /\ Takes("patient") => ReadyForRecovery
    /\ Unresolved # {} \/ lock = Stale
    /\ found' = [found EXCEPT ![p] = [n \in Unresolved |-> journal[n]]]
    /\ mem' = [mem EXCEPT ![p].command = "project.recover"]
    /\ Goto(p, "clear")
    /\ UNCHANGED <<controlVars, op, snapshot, outcome, worldVars, target, calls, faults>>

\* Faulty: an entry a killed promotion left `started` is not recognized.
IsFailedPromotion(record) ==
    record.command = "integration.promote" /\ record.state = "failed_partial"

IsPromotion(record) == record.command = "integration.promote"

\* clear_stale, then: nothing to resume, or something that is no promotion.
ClearLock(p) ==
    /\ At(p, "clear")
    /\ ClearStaleLock
    /\ \/ /\ \/ DOMAIN found[p] = {}
             \/ \E n \in DOMAIN found[p] : ~IsPromotion(found[p][n])
          /\ Forget(p)
          /\ found' = [found EXCEPT ![p] = <<>>]
       \/ /\ DOMAIN found[p] # {}
          /\ \A n \in DOMAIN found[p] : IsPromotion(found[p][n])
          /\ Goto(p, "settle")
          /\ UNCHANGED <<op, mem, snapshot, outcome, found>>
    /\ UNCHANGED <<indexLock, journal, tree, committed, worldVars, target, calls, faults>>

\* Every copy is finished as completed; then run_resume opens a transaction.
SettleFound(p) ==
    /\ At(p, "settle")
    /\ \E n \in DOMAIN found[p] :
        /\ \A m \in DOMAIN found[p] : n <= m
        /\ journal' = [journal EXCEPT ![n] = Finished(p, found[p][n], "completed")]
        /\ found' = [found EXCEPT ![p] = [m \in DOMAIN found[p] \ {n} |-> found[p][m]]]
        /\ Goto(p, IF DOMAIN found[p] = {n} THEN "acquire" ELSE "settle")
    /\ UNCHANGED <<lock, indexLock, tree, committed, op, mem, snapshot, outcome,
                   worldVars, target, calls, faults>>

\* Faulty: only what is still accepted.
AcceptedOnly(i) == authority = i /\ tree.status[i] = "accepted"

\* resume_promotion derives what is left from the authority: the integration
\* whose landing it holds, accepted, or promoted with a card short of landed.
Resumable(i) ==
    /\ authority = i
    /\ \/ tree.status[i] = "accepted"
       \/ tree.status[i] = "promoted" /\ \E c \in Members[i] : tree.card[c] # "landed"

Resume(p) ==
    /\ At(p, "body")
    /\ Running(p, "project.recover")
    /\ \/ \E i \in Integration :
            /\ Resumable(i)
            /\ target' = [target EXCEPT ![p] = i]
            /\ Goto(p, "sync")
            /\ UNCHANGED outcome
       \/ /\ \A i \in Integration : ~Resumable(i)
          /\ Return(p, "ok")
          /\ UNCHANGED target
    /\ UNCHANGED <<controlVars, op, mem, snapshot, worldVars, found, calls, faults>>

(***************************************************************************)
(* What goes wrong, and what the world does meanwhile.                     *)
(***************************************************************************)

\* What a recovery found is settled and nothing tells yet of its own work.
Exposed(p) == Recovering(p) /\ ~At(p, "clear") /\ ~mem[p].outside

Disturb(p) ==
    /\ faults < MaxFaults
    /\ Takes("shielded") => ~Exposed(p)
    /\ Takes("undisturbed") => ~Recovering(p)
    /\ faults' = faults + 1

BodySteps == {"body", "accept", "accept cards", "return cards", "publish",
              "published", "sync", "mark", "land", "event", "stage"}

InBody(p) == pc[p] \in BodySteps

\* A write, Git or an injected interruption fails in the body.
BodyFails(p) ==
    /\ InBody(p)
    /\ Disturb(p)
    /\ \E how \in {"error", "recovery"} : Return(p, how)
    /\ UNCHANGED <<controlVars, op, mem, snapshot, worldVars, localVars, calls>>

Killed(p) ==
    /\ Disturb(p)
    /\ Crash(p)
    /\ target' = [target EXCEPT ![p] = Nothing]
    /\ found' = [found EXCEPT ![p] = <<>>]
    /\ UNCHANGED <<worldVars, calls>>

\* Somebody works in the candidate repository: uncommitted work, another
\* branch.
EditLocal ==
    /\ Takes("patient") => \A p \in Process : ~Recovering(p)
    /\ \/ ~blocked /\ blocked' = TRUE /\ UNCHANGED checkedOut
       \/ checkedOut /\ checkedOut' = FALSE /\ UNCHANGED blocked
    /\ UNCHANGED <<controlVars, processVars, authority, localMain, retained, published,
                   localVars, calls, faults>>

\* The work is put away and the protected branch checked out again.
TidyLocal ==
    /\ blocked \/ ~checkedOut
    /\ blocked' = FALSE
    /\ checkedOut' = TRUE
    /\ UNCHANGED <<controlVars, processVars, authority, localMain, retained, published,
                   localVars, calls, faults>>

\* Somebody else pushes to the authority.
ForeignPush ==
    /\ authority # Elsewhere
    /\ Takes("exclusive") => authority = Baseline
    /\ authority' = Elsewhere
    /\ UNCHANGED <<controlVars, processVars, localMain, checkedOut, blocked, retained,
                   published, localVars, calls, faults>>

\* A person removes a .git/index.lock no command holds.
RemoveIndexLock ==
    /\ indexLock
    /\ lock \notin Process
    /\ indexLock' = FALSE
    /\ UNCHANGED <<lock, journal, tree, committed, processVars, worldVars, localVars,
                   calls, faults>>

End(p) ==
    /\ Release(p)
    /\ target' = [target EXCEPT ![p] = Nothing]
    /\ UNCHANGED <<worldVars, found, calls, faults>>

Work(p) ==
    \/ Opening(p) /\ UNCHANGED <<worldVars, localVars, calls, faults>>
    \/ RecordAcceptance(p)
    \/ MarkAccepted(p)
    \/ AcceptCard(p)
    \/ MarkAbandoned(p)
    \/ ReturnCard(p)
    \/ AnnouncePublish(p)
    \/ Publish(p)
    \/ Published(p)
    \/ SyncLocalMain(p)
    \/ MarkPromoted(p)
    \/ LandCard(p)
    \/ ClearLock(p)
    \/ SettleFound(p)
    \/ Resume(p)
    \/ AppendEvent(p)
    \/ Stage(p)
    \/ CommitRecords(p)
    \/ Finish(p) /\ SameWorld
    \/ End(p)

Next ==
    \/ \E p \in Process :
        \/ \E i \in Integration : CallPromote(p, i) \/ CallAbandon(p, i) \/ CallAccept(p, i)
        \/ StartRecovery(p)
        \/ Work(p)
        \/ BodyFails(p)
        \/ Killed(p)
    \/ EditLocal
    \/ TidyLocal
    \/ ForeignPush
    \/ RemoveIndexLock

Spec == Init /\ [][Next]_vars

\* A running command keeps executing. After an interruption the operator
\* tidies the candidate repository, removes an index lock no command holds and
\* runs `project recover --resume`, as its messages ask.
PromotionFairness ==
    /\ \A p \in Process : WF_vars(Work(p)) /\ SF_vars(StartRecovery(p))
    /\ WF_vars(RemoveIndexLock) /\ WF_vars(TidyLocal)

FairSpec == Spec /\ PromotionFairness
----------------------------------------------------------------------------
(***************************************************************************)
(* Properties.                                                             *)
(***************************************************************************)

\* Where a process may stand.
Points == {"idle", "acquire", "settled?", "hygiene", "quarantine", "begin", "finish",
           "release", "commit", "clear", "settle"} \cup BodySteps

\* The type invariant.
TypeOK ==
    /\ lock \in Process \cup {Free, Stale}
    /\ indexLock \in BOOLEAN
    /\ journal \in [OpId -> Record(Command, Records)]
    /\ tree \in Records
    /\ committed \in Records
    /\ mem \in [Process -> Record(Command, Records)]
    /\ snapshot \in [Process -> Records \cup {Nothing}]
    /\ op \in [Process -> OpId \cup {0}]
    /\ pc \in [Process -> Points]
    /\ outcome \in [Process -> {"none", "ok", "error", "recovery"}]
    /\ authority \in Integration \cup {Baseline, Elsewhere}
    /\ localMain \in Integration \cup {Baseline}
    /\ checkedOut \in BOOLEAN
    /\ blocked \in BOOLEAN
    /\ retained \subseteq Integration
    /\ published \subseteq Integration
    /\ target \in [Process -> Integration \cup {Nothing}]
    /\ DOMAIN found = Process
    /\ \A p \in Process :
        /\ DOMAIN found[p] \subseteq OpId
        /\ found[p] \in [DOMAIN found[p] -> Record(Command, Records)]
    /\ calls \in 0 .. MaxCalls
    /\ faults \in 0 .. MaxFaults

\* A recovery has settled the interrupted records and is carrying on.
RecoveryUnderWay == \E p \in Process : Recovering(p) /\ ~At(p, "clear")

\* Evidence, "what it was part-way through" (journal.rs:5): from the moment the
\* authority moves until the promotion is recorded, some journal entry asks for
\* recovery, so that nothing else starts meanwhile. A promotion no entry tells
\* of would be an authority that moved behind the records' back.
PublishedIsEvident ==
    \A i \in published :
        tree.status[i] # "promoted" => Unresolved # {} \/ RecoveryUnderWay

\* What was published is never given up: its integration is not abandoned and
\* the ref that keeps its landing commit alive is not released.
PublishedLandingKept ==
    \A i \in published : tree.status[i] # "abandoned" /\ i \in retained

\* A resumed promotion is not recorded twice.
PromotionLoggedOnce ==
    \A m, n \in DOMAIN tree.log :
        tree.log[m] = tree.log[n] /\ tree.log[m][1] = "integration.promoted" => m = n

\* However often it is interrupted and resumed, a promotion the committed
\* records tell of is whole: all its cards are landed, and its event is in the
\* log no more than once.
CommittedPromotionIsWhole ==
    /\ TypeOK
    /\ PromotionLoggedOnce
    /\ \A i \in Integration :
        committed.status[i] = "promoted" => \A c \in Members[i] : committed.card[c] = "landed"

\* The local protected branch is only ever moved to what the authority has
\* already published (synchronize_local_main runs after publish).
LocalNeverAhead == localMain \in Integration => localMain \in published

\* The stages of a promotion seen from outside are one step: the
\* authority's compare-and-swap is the promotion, all that follows only records
\* it.
Phase == [i \in Integration |->
    IF i \in published /\ committed.status[i] # "abandoned" THEN "promoted"
    ELSE committed.status[i]]

Atomic == INSTANCE AtomicPromotion WITH phase <- Phase, protected <- authority

ImplementsAtomicPromotion == Atomic!Spec

\* The records tell of the promotion and of every landed card.
Recorded(i) == tree.status[i] = "promoted" /\ \A c \in Members[i] : tree.card[c] = "landed"

\* A resumption was itself interrupted: its own entry is left, which --resume
\* refuses for ever ("not promotions", project.rs:1528-1542).
ResumptionInterrupted == \E n \in Unresolved : ~IsPromotion(journal[n])

\* A promotion the authority has accepted, however often it is interrupted, is
\* eventually written down card by card, or stands behind the entry of a
\* resumption that was interrupted too. (Written in the working tree; that it
\* is committed as well is PublishedIsCommitted.)
PublishedIsRecorded ==
    \A i \in Integration : i \in published ~> Recorded(i) \/ ResumptionInterrupted

\* What defect 15 of the register promises as fixed ("a post-publish failure is
\* unrecoverable, and recover falsely reports that no promotion reached the
\* authority", docs/DEFECT-REGISTER.md:50): once recovery has nothing left to
\* report, the control repository has the promotion. The code does not keep it:
\* a promotion interrupted after its last card landed and before its commit is
\* neither committed nor resumable (integration.rs:5068-5078).
PublishedIsCommitted ==
    Unresolved = {} /\ (\A p \in Process : At(p, "idle"))
        => \A i \in published : committed.status[i] = "promoted"
============================================================================
