-------------------------- MODULE PromotionProofs --------------------------
(***************************************************************************)
(* A published promotion is never lost, left undone without evidence or    *)
(* recorded twice: for any processes, integrations, cards and operations.  *)
(*                                                                         *)
(* What each action does is first stated point by point (the ...Effect     *)
(* lemmas), so that the invariants below never look into it. The inductive *)
(* invariant has five layers, each resting on those before it:             *)
(*   Typed    the types, and what each process is about                    *)
(*   Control  who holds the lock, and that one operation is open at most   *)
(*   World    what the records say of what was published                   *)
(*   Told     what the log and the commit say of a promotion               *)
(*   Ahead    how far the working tree is ahead of the commit              *)
(* The first layer holds whatever the operator does, and so does Followed, *)
(* about the local branch. The others need the cautions of Careful.        *)
(***************************************************************************)
EXTENDS Promotion, FunctionTheorems, SequenceTheorems, TLAPS

(***************************************************************************)
(* What a step does, point by point.                                       *)
(***************************************************************************)

\* Nothing of another process changes.
Only(p) ==
    \A q \in Process : q # p =>
        /\ pc'[q] = pc[q] /\ op'[q] = op[q] /\ mem'[q] = mem[q]
        /\ outcome'[q] = outcome[q] /\ target'[q] = target[q] /\ found'[q] = found[q]

\* A step of p from one point to the next that leaves its memory as it is.
Steps(p, to) ==
    /\ Only(p) /\ pc'[p] = to
    /\ op'[p] = op[p] /\ mem'[p] = mem[p] /\ target'[p] = target[p] /\ found'[p] = found[p]

\* A step that tells of work outside control before it is done.
Announces(p, to) ==
    /\ Only(p) /\ pc'[p] = to /\ op'[p] = op[p] /\ target'[p] = target[p]
    /\ mem'[p] = OutsideControl(mem[p])
    /\ journal' = [journal EXCEPT ![op[p]] = mem'[p]]

Returns(p, how) == Steps(p, "finish") /\ outcome'[p] = how

\* The process is over.
Ends(p) == Only(p) /\ pc'[p] = "idle" /\ mem'[p] = NoRecord

(***************************************************************************)
(* Types.                                                                  *)
(***************************************************************************)

\* Where a process has not opened its entry yet.
Unopened == {"acquire", "settled?", "hygiene", "quarantine", "begin", "clear", "settle"}

\* What a process is about: what it runs, and for which integration.
AssignedTo(p) ==
    /\ pc[p] = "idle" => mem[p] = NoRecord
    /\ pc[p] \in Unopened => ~mem[p].outside
    /\ pc[p] # "idle" => mem[p].command \in Command
    /\ pc[p] # "idle" /\ ~Recovering(p) => target[p] \in Integration
    /\ pc[p] \in {"clear", "settle"} => Recovering(p)
    /\ pc[p] \in {"accept", "accept cards"} => Running(p, "acceptance.record")
    /\ pc[p] = "return cards" => Running(p, "integration.abandon")
    /\ pc[p] \in {"publish", "published"} => Running(p, "integration.promote")
    /\ pc[p] \in {"sync", "mark", "land"} =>
          mem[p].command \in {"integration.promote", "project.recover"}
    /\ pc[p] \in {"sync", "mark", "land", "event"} => target[p] \in Integration

Assigned == \A p \in Process : AssignedTo(p)

Typed == TypeOK /\ Assigned

\* An operation record stays one when a step rewrites it.
LEMMA RecordUpdates ==
    ASSUME NEW r \in Record(Command, Records)
    PROVE  /\ \A command \in Command :
                [r EXCEPT !.command = command] \in Record(Command, Records)
           /\ \A head \in Records :
                [r EXCEPT !.state = "started", !.head = head] \in Record(Command, Records)
           /\ \A p \in Process, state \in {"completed", "failed_clean", "failed_partial"} :
                Finished(p, r, state) \in Record(Command, Records)
           /\ OutsideControl(r) \in Record(Command, Records)
<1> HIDE DEF Records
<1> QED
  BY DEF Record, OutsideControl, Finished

\* An identifier not yet handed out has a record too.
LEMMA NoRecordType == NoRecord \in Record(Command, Records)
  BY DEF NoRecord, Record

\* It tells of no command.
LEMMA NoRecordTells == NoRecord.command = "none"
  BY DEF NoRecord

\* A process that starts has done nothing outside control.
LEMMA NewCommand ==
    ASSUME NEW command
    PROVE  /\ [NoRecord EXCEPT !.command = command].command = command
           /\ [NoRecord EXCEPT !.command = command].outside = FALSE
  BY DEF NoRecord

\* The tracked records stay well formed when one of them is written.
LEMMA TreeUpdates ==
    ASSUME NEW r \in Records, NEW i \in Integration
    PROVE  /\ \A decision \in {"accepted", "rejected"} :
                [r EXCEPT !.decision[i] = decision] \in Records
           /\ \A status \in {"accepted", "abandoned", "promoted"} :
                [r EXCEPT !.status[i] = status] \in Records
           /\ \A c \in Members[i], state \in {"accepted", "approved", "landed"} :
                [r EXCEPT !.card[c] = state] \in Records
           /\ \A type \in {"acceptance.recorded", "integration.promoted",
                           "integration.abandoned"} : Logged(r, type, i) \in Records
<1>1. \A c \in Members[i] : c \in Card
  BY DEF Card
<1>2. ASSUME NEW type \in {"acceptance.recorded", "integration.promoted",
                           "integration.abandoned"}
      PROVE  Append(r.log, <<type, i>>) \in Seq(Event)
  <2>1. <<type, i>> \in Event
    BY DEF Event
  <2> QED
    BY <2>1, AppendProperties DEF Records
<1> QED
  BY <1>1, <1>2 DEF Records, Logged

\* A write of the working tree.
LEMMA WriteTreeEffect ==
    ASSUME TypeOK, NEW p \in Process, NEW records, NEW to, WriteTree(p, records, to)
    PROVE  /\ Steps(p, to) /\ outcome'[p] = outcome[p] /\ tree' = records
           /\ UNCHANGED <<lock, indexLock, journal, committed, worldVars, calls, faults>>
  BY DEF WriteTree, SameWorld, Goto, TypeOK, Points, BodySteps, Steps, Only, localVars

\* The body returns.
LEMMA ReturnEffect ==
    ASSUME TypeOK, NEW p \in Process, NEW how, Return(p, how),
           UNCHANGED <<op, mem, localVars>>
    PROVE  Returns(p, how)
  BY DEF Return, Goto, TypeOK, Points, BodySteps, Returns, Steps, Only, localVars

\* The body refuses and has written nothing.
LEMMA RefuseEffect ==
    ASSUME TypeOK, NEW p \in Process, NEW how, Refuse(p, how)
    PROVE  Returns(p, how) /\ UNCHANGED <<controlVars, worldVars, calls, faults>>
  BY ReturnEffect DEF Refuse, SameWorld

\* The memory of a process is gone when it is over.
LEMMA ForgetEffect ==
    ASSUME TypeOK, NEW p \in Process, Forget(p),
           \A q \in Process : q # p => target'[q] = target[q] /\ found'[q] = found[q]
    PROVE  Ends(p)
  BY DEF Forget, Goto, TypeOK, Points, BodySteps, Ends, Only

\* A command is invoked.
LEMMA InvokeEffect ==
    ASSUME TypeOK, NEW p \in Process, NEW command, NEW i, Invoke(p, command, i)
    PROVE  /\ Only(p) /\ pc[p] = "idle" /\ pc'[p] = "acquire" /\ op'[p] = op[p]
           /\ mem'[p] = [mem[p] EXCEPT !.command = command] /\ target'[p] = i
           /\ UNCHANGED <<controlVars, worldVars>>
  BY DEF Invoke, Call, At, Goto, TypeOK, Points, BodySteps, Only

\* A recovery reads the unresolved entries.
LEMMA StartRecoveryEffect ==
    ASSUME TypeOK, NEW p \in Process, StartRecovery(p)
    PROVE  /\ Only(p) /\ pc[p] = "idle" /\ pc'[p] = "clear" /\ target'[p] = target[p]
           /\ mem'[p] = [mem[p] EXCEPT !.command = "project.recover"]
           /\ found'[p] = [n \in Unresolved |-> journal[n]]
           /\ UNCHANGED <<controlVars, worldVars>>
  BY DEF StartRecovery, At, Goto, TypeOK, Points, BodySteps, Only

\* The checks with_transaction makes before it opens an entry.
LEMMA OpeningEffect ==
    ASSUME TypeOK, NEW p \in Process, UNCHANGED localVars
    PROVE  /\ Acquire(p) => /\ pc[p] = "acquire" /\ lock = Free /\ lock' = p
                            /\ Steps(p, "settled?")
           /\ RefusedLock(p) => pc[p] = "acquire" /\ lock # Free /\ Ends(p)
           /\ RequireSettled(p) =>
                 /\ pc[p] = "settled?"
                 /\ Steps(p, IF Unresolved = {} THEN "hygiene" ELSE "release")
           /\ Hygiene(p) =>
                 \/ /\ pc[p] = "hygiene" /\ indexLock'
                    /\ Steps(p, IF indexLock THEN "release" ELSE "quarantine")
                 \/ pc[p] = "quarantine" /\ ~indexLock' /\ Steps(p, "begin")
  BY ForgetEffect
  DEF Acquire, RefusedLock, RequireSettled, Hygiene, At, Goto, TypeOK, Points, BodySteps,
      Steps, Only, localVars

\* The entry is opened, with an identifier nothing was recorded under.
LEMMA BeginEffect ==
    ASSUME TypeOK, NEW p \in Process, Begin(p), UNCHANGED localVars
    PROVE  \E n \in OpId :
              /\ pc[p] = "begin" /\ pc'[p] = "body" /\ Only(p)
              /\ journal[n].state = "absent"
              /\ op'[p] = n /\ target'[p] = target[p]
              /\ mem'[p] = [mem[p] EXCEPT !.state = "started", !.head = committed]
              /\ journal' = [journal EXCEPT ![n] = mem'[p]]
<1>1. PICK n \in OpId : /\ IsNextId(n)
                        /\ op' = [op EXCEPT ![p] = n]
                        /\ mem' = [mem EXCEPT ![p] = [mem[p] EXCEPT !.state = "started",
                                                                   !.head = committed]]
                        /\ journal' = [journal EXCEPT ![n] = [mem[p] EXCEPT
                                            !.state = "started", !.head = committed]]
  BY DEF Begin
<1>2. journal[n].state = "absent"
  BY <1>1, ControlAssumption DEF IsNextId
<1>3. pc[p] = "begin" /\ pc' = [pc EXCEPT ![p] = "body"] /\ UNCHANGED outcome
  BY DEF Begin, At, Goto
<1> QED
  BY <1>1, <1>2, <1>3 DEF TypeOK, Only, localVars

\* A step rewrites the whole operation record.
LEMMA WriteRecordEffect ==
    ASSUME TypeOK, NEW p \in Process, NEW record, WriteRecord(p, record)
    PROVE  /\ mem'[p] = record /\ \A q \in Process : q # p => mem'[q] = mem[q]
           /\ journal' = [journal EXCEPT ![op[p]] = record]
  BY DEF WriteRecord, TypeOK

\* A stale lock is cleared; the recovery goes on only over promotions.
LEMMA ClearLockEffect ==
    ASSUME TypeOK, NEW p \in Process, ClearLock(p)
    PROVE  /\ pc[p] = "clear"
           /\ lock' = IF lock = Stale THEN Free ELSE lock
           /\ UNCHANGED <<indexLock, journal, tree, committed, worldVars>>
           /\ \/ /\ \/ DOMAIN found[p] = {}
                    \/ \E n \in DOMAIN found[p] : ~IsPromotion(found[p][n])
                 /\ Ends(p)
              \/ /\ DOMAIN found[p] # {}
                 /\ \A n \in DOMAIN found[p] : IsPromotion(found[p][n])
                 /\ Steps(p, "settle")
<1>1. /\ pc[p] = "clear" /\ lock' = IF lock = Stale THEN Free ELSE lock
      /\ UNCHANGED <<indexLock, journal, tree, committed, worldVars, target>>
  BY DEF ClearLock, ClearStaleLock, At
<1>2. CASE Forget(p) /\ found' = [found EXCEPT ![p] = <<>>]
  BY <1>1, <1>2, ForgetEffect DEF ClearLock, TypeOK
<1>3. CASE /\ DOMAIN found[p] # {} /\ \A n \in DOMAIN found[p] : IsPromotion(found[p][n])
           /\ Goto(p, "settle") /\ UNCHANGED <<op, mem, snapshot, outcome, found>>
  BY <1>1, <1>3 DEF Goto, TypeOK, Points, BodySteps, Steps, Only
<1> QED
  BY <1>1, <1>2, <1>3 DEF ClearLock

\* One of the entries found is recorded as completed.
LEMMA SettleFoundEffect ==
    ASSUME TypeOK, NEW p \in Process, SettleFound(p)
    PROVE  \E n \in DOMAIN found[p] :
              /\ pc[p] = "settle" /\ Only(p)
              /\ pc'[p] = IF DOMAIN found[p] = {n} THEN "acquire" ELSE "settle"
              /\ mem'[p] = mem[p] /\ target'[p] = target[p]
              /\ journal' = [journal EXCEPT ![n] = Finished(p, found[p][n], "completed")]
              /\ found'[p] = [m \in DOMAIN found[p] \ {n} |-> found[p][m]]
              /\ UNCHANGED <<lock, indexLock, tree, committed, worldVars>>
<1>1. PICK n \in DOMAIN found[p] :
        /\ journal' = [journal EXCEPT ![n] = Finished(p, found[p][n], "completed")]
        /\ found' = [found EXCEPT ![p] = [m \in DOMAIN found[p] \ {n} |-> found[p][m]]]
        /\ pc' = [pc EXCEPT ![p] = IF DOMAIN found[p] = {n} THEN "acquire" ELSE "settle"]
  BY DEF SettleFound, Goto
<1>2. pc[p] = "settle" /\ UNCHANGED <<lock, indexLock, tree, committed, op, mem, outcome,
                                       worldVars, target>>
  BY DEF SettleFound, At
<1> QED
  BY <1>1, <1>2 DEF TypeOK, Only

\* acceptance record: the decision.
LEMMA RecordAcceptanceEffect ==
    ASSUME TypeOK, NEW p \in Process, RecordAcceptance(p)
    PROVE  /\ pc[p] = "body" /\ Running(p, "acceptance.record")
           /\ UNCHANGED <<lock, indexLock, journal, committed, worldVars>>
           /\ \/ /\ tree.status[target[p]] = "reviewed"
                 /\ \/ /\ Steps(p, "accept")
                       /\ tree' = [tree EXCEPT !.decision[target[p]] = "accepted"]
                    \/ /\ Steps(p, "event")
                       /\ tree' = [tree EXCEPT !.decision[target[p]] = "rejected"]
              \/ Returns(p, "error") /\ UNCHANGED tree
  BY WriteTreeEffect, RefuseEffect DEF RecordAcceptance, At, controlVars

\* acceptance record: the status.
LEMMA MarkAcceptedEffect ==
    ASSUME TypeOK, NEW p \in Process, MarkAccepted(p)
    PROVE  /\ pc[p] = "accept" /\ Steps(p, "accept cards")
           /\ tree' = [tree EXCEPT !.status[target[p]] = "accepted"]
           /\ UNCHANGED <<lock, indexLock, journal, committed, worldVars>>
  BY WriteTreeEffect DEF MarkAccepted, At

\* acceptance record: one card.
LEMMA AcceptCardEffect ==
    ASSUME TypeOK, NEW p \in Process, AcceptCard(p)
    PROVE  /\ pc[p] = "accept cards"
           /\ UNCHANGED <<lock, indexLock, journal, committed, worldVars>>
           /\ \/ /\ Steps(p, "event") /\ UNCHANGED tree
              \/ Returns(p, "error") /\ UNCHANGED tree
              \/ \E c \in Members[target[p]] :
                    /\ Steps(p, "accept cards") /\ tree.card[c] = "integrating"
                    /\ tree' = [tree EXCEPT !.card[c] = "accepted"]
  BY WriteTreeEffect, RefuseEffect DEF AcceptCard, At, controlVars

\* integration abandon: the status.
LEMMA MarkAbandonedEffect ==
    ASSUME TypeOK, NEW p \in Process, MarkAbandoned(p)
    PROVE  /\ pc[p] = "body" /\ Running(p, "integration.abandon")
           /\ UNCHANGED <<lock, indexLock, journal, committed, worldVars>>
           /\ \/ /\ tree.status[target[p]] \in {"reviewed", "accepted"}
                 /\ Steps(p, "return cards")
                 /\ tree' = [tree EXCEPT !.status[target[p]] = "abandoned"]
              \/ Returns(p, "error") /\ UNCHANGED tree
  BY WriteTreeEffect, RefuseEffect DEF MarkAbandoned, At, controlVars

\* integration abandon: one card, then the landing ref.
LEMMA ReturnCardEffect ==
    ASSUME TypeOK, NEW p \in Process, ReturnCard(p)
    PROVE  /\ pc[p] = "return cards"
           /\ UNCHANGED <<lock, indexLock, journal, committed, authority, localMain,
                          checkedOut, blocked, published>>
           /\ \/ /\ Steps(p, "event") /\ UNCHANGED tree
                 /\ retained' = retained \ {target[p]}
              \/ \E c \in Members[target[p]] :
                    /\ Steps(p, "return cards") /\ UNCHANGED retained
                    /\ tree.card[c] = "integrating"
                    /\ tree' = [tree EXCEPT !.card[c] = "approved"]
<1>1. CASE \E c \in Members[target[p]] :
                /\ tree.card[c] = "integrating"
                /\ WriteTree(p, [tree EXCEPT !.card[c] = "approved"], "return cards")
  BY <1>1, WriteTreeEffect DEF ReturnCard, At, worldVars
<1>2. CASE /\ Goto(p, "event") /\ retained' = retained \ {target[p]}
           /\ UNCHANGED <<controlVars, op, mem, snapshot, outcome, authority, localMain,
                          checkedOut, blocked, published, localVars, calls, faults>>
  BY <1>2 DEF ReturnCard, At, Goto, TypeOK, Steps, Only, controlVars, localVars
<1> QED
  BY <1>1, <1>2 DEF ReturnCard

\* integration promote: the checks are made again, then the entry tells of it.
LEMMA AnnouncePublishEffect ==
    ASSUME TypeOK, NEW p \in Process, AnnouncePublish(p)
    PROVE  /\ pc[p] = "body" /\ Running(p, "integration.promote")
           /\ UNCHANGED <<lock, indexLock, tree, committed, worldVars>>
           /\ \/ /\ CheckPromotion(target[p])
                 /\ Only(p) /\ pc'[p] = "publish" /\ op'[p] = op[p] /\ target'[p] = target[p]
                 /\ mem'[p] = OutsideControl(mem[p])
                 /\ journal' = [journal EXCEPT ![op[p]] = mem'[p]]
              \/ Returns(p, "error") /\ UNCHANGED journal
<1>1. CASE /\ CheckPromotion(target[p])
           /\ WriteRecord(p, OutsideControl(mem[p])) /\ Goto(p, "publish") /\ SameWorld
           /\ UNCHANGED <<lock, indexLock, tree, committed, op, snapshot, outcome>>
  BY <1>1, WriteRecordEffect
  DEF AnnouncePublish, At, Goto, SameWorld, TypeOK, Only, localVars
<1>2. CASE Refuse(p, "error")
  BY <1>2, RefuseEffect DEF AnnouncePublish, At, controlVars
<1> QED
  BY <1>1, <1>2 DEF AnnouncePublish

\* integration promote: the compare-and-swap.
LEMMA PublishEffect ==
    ASSUME TypeOK, NEW p \in Process, Publish(p)
    PROVE  /\ pc[p] = "publish"
           /\ UNCHANGED <<controlVars, localMain, checkedOut, blocked, retained>>
           /\ \/ /\ authority = Baseline /\ authority' = target[p]
                 /\ published' = published \cup {target[p]}
                 /\ Steps(p, "published")
              \/ Returns(p, "error") /\ UNCHANGED <<authority, published>>
<1>1. CASE /\ AsExpected /\ authority' = target[p] /\ published' = published \cup {target[p]}
           /\ Goto(p, "published")
           /\ UNCHANGED <<controlVars, op, mem, snapshot, outcome, localMain, checkedOut,
                          blocked, retained, localVars, calls, faults>>
  BY <1>1 DEF Publish, AsExpected, At, Goto, TypeOK, Steps, Only, localVars
<1>2. CASE Refuse(p, "error")
  BY <1>2, RefuseEffect DEF Publish, At, controlVars, worldVars
<1> QED
  BY <1>1, <1>2 DEF Publish, Rejected

\* integration promote: the entry tells that it was made.
LEMMA PublishedEffect ==
    ASSUME TypeOK, NEW p \in Process, Published(p)
    PROVE  /\ pc[p] = "published" /\ Announces(p, "sync")
           /\ UNCHANGED <<lock, indexLock, tree, committed, worldVars>>
  BY WriteRecordEffect DEF Published, At, Goto, SameWorld, TypeOK, Only, Announces, localVars

\* integration promote: the local branch follows, or asks for recovery.
LEMMA SyncLocalMainEffect ==
    ASSUME TypeOK, NEW p \in Process, SyncLocalMain(p)
    PROVE  /\ pc[p] = "sync"
           /\ UNCHANGED <<lock, indexLock, tree, committed, authority, checkedOut, blocked,
                          retained, published>>
           /\ \/ /\ Announces(p, "mark") /\ localMain' \in {localMain, target[p]}
              \/ /\ Announces(p, "finish") /\ outcome'[p] = "recovery" /\ UNCHANGED localMain
                 /\ blocked \/ (checkedOut /\ localMain \notin {Baseline, target[p]})
  BY WriteRecordEffect
  DEF SyncLocalMain, At, Goto, Return, TypeOK, Only, Announces, localVars

\* integration promote: the status.
LEMMA MarkPromotedEffect ==
    ASSUME TypeOK, NEW p \in Process, MarkPromoted(p)
    PROVE  /\ pc[p] = "mark" /\ Steps(p, "land")
           /\ tree' = [tree EXCEPT !.status[target[p]] = "promoted"]
           /\ journal' = [journal EXCEPT ![op[p]] = mem[p]]
           /\ UNCHANGED <<lock, indexLock, committed, worldVars>>
  BY WriteRecordEffect DEF MarkPromoted, At, Goto, SameWorld, TypeOK, Only, Steps, localVars

\* integration promote: one card.
LEMMA LandCardEffect ==
    ASSUME TypeOK, NEW p \in Process, LandCard(p)
    PROVE  /\ pc[p] = "land"
           /\ UNCHANGED <<lock, indexLock, journal, committed, worldVars>>
           /\ \/ /\ Steps(p, "event") /\ UNCHANGED tree
                 /\ \A c \in Members[target[p]] : tree.card[c] = "landed"
              \/ Returns(p, "error") /\ UNCHANGED tree
              \/ \E c \in Members[target[p]] :
                    /\ Steps(p, "land")
                    /\ tree' = [tree EXCEPT !.card[c] = "landed"]
  BY WriteTreeEffect, RefuseEffect DEF LandCard, At, controlVars

\* The resumed promotion is the one whose landing the authority holds.
LEMMA ResumeEffect ==
    ASSUME TypeOK, NEW p \in Process, Resume(p)
    PROVE  /\ pc[p] = "body" /\ Recovering(p)
           /\ UNCHANGED <<controlVars, worldVars>>
           /\ \/ \E i \in Integration :
                    /\ Resumable(i) /\ Only(p) /\ pc'[p] = "sync" /\ target'[p] = i
                    /\ op'[p] = op[p] /\ mem'[p] = mem[p]
              \/ (\A i \in Integration : ~Resumable(i)) /\ Returns(p, "ok")
<1>1. pc[p] = "body" /\ Recovering(p) /\ UNCHANGED <<controlVars, worldVars, op, mem, found>>
  BY DEF Resume, At, Recovering
<1>2. CASE \E i \in Integration :
            /\ Resumable(i) /\ target' = [target EXCEPT ![p] = i]
            /\ Goto(p, "sync") /\ UNCHANGED outcome
  BY <1>1, <1>2 DEF Goto, TypeOK, Only
<1>3. CASE (\A i \in Integration : ~Resumable(i)) /\ Return(p, "ok") /\ UNCHANGED target
  BY <1>1, <1>3, ReturnEffect DEF localVars
<1> QED
  BY <1>1, <1>2, <1>3 DEF Resume

\* The event is appended to the log.
LEMMA AppendEventEffect ==
    ASSUME TypeOK, NEW p \in Process, AppendEvent(p)
    PROVE  /\ pc[p] = "event" /\ Steps(p, "stage")
           /\ tree' = Logged(tree, EventOf[mem[p].command], target[p])
           /\ UNCHANGED <<lock, indexLock, journal, committed, worldVars>>
  BY WriteTreeEffect DEF AppendEvent, At

\* The records are staged, or the commit refuses.
LEMMA StageEffect ==
    ASSUME TypeOK, NEW p \in Process, Stage(p)
    PROVE  /\ pc[p] = "stage" /\ (Steps(p, "commit") \/ Returns(p, "error"))
           /\ UNCHANGED <<lock, journal, tree, committed, worldVars>>
  BY
  DEF Stage, StageCommit, Return, SameWorld, At, Goto, TypeOK, Steps, Returns, Only, localVars

\* The commit takes the working tree as it is.
LEMMA CommitRecordsEffect ==
    ASSUME TypeOK, NEW p \in Process, CommitRecords(p)
    PROVE  /\ pc[p] = "commit" /\ Returns(p, "ok")
           /\ committed' = tree
           /\ UNCHANGED <<lock, journal, tree, worldVars>>
  BY ReturnEffect DEF CommitRecords, InstallCommit, SameWorld, At

\* The entry is settled; as failed_clean only if nothing was changed.
LEMMA FinishEffect ==
    ASSUME TypeOK, NEW p \in Process, Finish(p), SameWorld
    PROVE  /\ pc[p] = "finish" /\ Steps(p, "release")
           /\ UNCHANGED <<lock, indexLock, tree, committed, worldVars>>
           /\ \E state \in {"completed", "failed_clean", "failed_partial"} :
                /\ journal' = [journal EXCEPT ![op[p]] = Finished(p, mem[p], state)]
                /\ state = "completed" => outcome[p] = "ok"
                /\ state = "failed_clean" => outcome[p] # "recovery" /\ ~mem[p].outside /\ Clean
<1>1. /\ pc[p] = "finish" /\ Steps(p, "release")
      /\ UNCHANGED <<lock, indexLock, committed, worldVars>>
  BY DEF Finish, At, Goto, SameWorld, TypeOK, Steps, Only, localVars
<1>2. outcome[p] \in {"none", "ok", "error", "recovery"}
  BY DEF TypeOK
<1>3. UNCHANGED tree
  BY <1>2 DEF Finish
<1>4. \/ outcome[p] = "ok" /\ Settle(p, "completed")
      \/ Settle(p, TerminalState(outcome[p], mem[p]))
  BY <1>2 DEF Finish
<1> QED
  BY <1>1, <1>2, <1>3, <1>4 DEF Settle, TerminalState

\* The lock is dropped.
LEMMA EndEffect ==
    ASSUME TypeOK, NEW p \in Process, End(p)
    PROVE  /\ pc[p] = "release" /\ Ends(p) /\ lock' = Free
           /\ UNCHANGED <<indexLock, journal, tree, committed, worldVars>>
  BY ForgetEffect DEF End, Release, At, TypeOK

\* The body fails at any of its points; a careful recovery does not.
LEMMA BodyFailsEffect ==
    ASSUME TypeOK, NEW p \in Process, BodyFails(p)
    PROVE  /\ pc[p] \in BodySteps /\ (Takes("shielded") => ~Exposed(p))
           /\ (Returns(p, "error") \/ Returns(p, "recovery"))
           /\ UNCHANGED <<controlVars, worldVars>>
  BY ReturnEffect DEF BodyFails, InBody, Disturb

\* A process is killed; a careful recovery is not.
LEMMA KilledEffect ==
    ASSUME TypeOK, NEW p \in Process, Killed(p)
    PROVE  /\ pc[p] # "idle" /\ (Takes("shielded") => ~Exposed(p))
           /\ Ends(p) /\ lock' = IF lock = p THEN Stale ELSE lock
           /\ UNCHANGED <<indexLock, journal, tree, committed, worldVars>>
  BY ForgetEffect DEF Killed, Crash, Disturb, At, TypeOK

\* Initially every variable has its type.
LEMMA InitTyped == Init => Typed
<1> SUFFICES ASSUME Init PROVE Typed
  OBVIOUS
<1> USE ControlAssumption, PromotionAssumption DEF Init, InitControl
<1>1. ASSUME NEW accepted \in SUBSET Integration PROVE Initial(accepted) \in Records
  BY DEF Initial, Records
<1>2. Assigned
  BY DEF Assigned, AssignedTo, Unopened
<1>3. TypeOK
  <2>1. tree \in Records /\ committed \in Records
    BY <1>1
  <2>2. /\ journal \in [OpId -> Record(Command, Records)]
        /\ mem \in [Process -> Record(Command, Records)]
    BY NoRecordType
  <2>3. /\ DOMAIN found = Process
        /\ \A p \in Process : /\ DOMAIN found[p] \subseteq OpId
                             /\ found[p] \in [DOMAIN found[p] -> Record(Command, Records)]
    <3>1. DOMAIN <<>> = {} /\ <<>> \in [{} -> Record(Command, Records)]
      OBVIOUS
    <3> QED
      BY <3>1
  <2>4. snapshot \in [Process -> Records \cup {Nothing}] /\ op \in [Process -> OpId \cup {0}]
    OBVIOUS
  <2>5. /\ pc = [p \in Process |-> "idle"]
        /\ outcome \in [Process -> {"none", "ok", "error", "recovery"}]
        /\ target \in [Process -> Integration \cup {Nothing}]
    OBVIOUS
  <2>6. /\ lock = Free /\ indexLock = FALSE /\ authority = Baseline /\ localMain = Baseline
        /\ checkedOut = TRUE /\ blocked = FALSE /\ retained = Integration /\ published = {}
        /\ calls \in 0 .. MaxCalls /\ faults \in 0 .. MaxFaults
    OBVIOUS
  <2> HIDE DEF Init, InitControl
  <2> QED
    BY <2>1, <2>2, <2>3, <2>4, <2>5, <2>6 DEF TypeOK, Points
<1> QED
  BY <1>2, <1>3 DEF Typed

\* The shapes of step that most bodies are made of keep every type.
LEMMA WriteTreeTyped ==
    ASSUME TypeOK, NEW p \in Process, NEW records \in Records, NEW to \in BodySteps,
           WriteTree(p, records, to)
    PROVE  TypeOK'
  BY DEF WriteTree, SameWorld, Goto, TypeOK, Points, BodySteps, worldVars, localVars

\* Types, where a body returns.
LEMMA ReturnTyped ==
    ASSUME TypeOK, NEW p \in Process, NEW how \in {"ok", "error", "recovery"}, Return(p, how),
           UNCHANGED <<lock, indexLock, journal, tree, op, mem, snapshot, worldVars,
                       localVars, calls>>,
           committed' \in Records, faults' \in 0 .. MaxFaults
    PROVE  TypeOK'
  BY ZenonT(60) DEF Return, Goto, TypeOK, Points, BodySteps, worldVars, localVars

\* Types, where it refuses.
LEMMA RefuseTyped ==
    ASSUME TypeOK, NEW p \in Process, Refuse(p, "error")
    PROVE  TypeOK'
<1>1. UNCHANGED <<lock, indexLock, journal, tree, committed, op, mem, snapshot, worldVars,
                  localVars, calls, faults>>
  BY DEF Refuse, SameWorld, controlVars
<1>2. committed' \in Records /\ faults' \in 0 .. MaxFaults
  BY <1>1 DEF TypeOK
<1> QED
  BY <1>1, <1>2, ReturnTyped DEF Refuse

\* Types, where an operation record is rewritten.
LEMMA WriteRecordTyped ==
    ASSUME TypeOK, NEW p \in Process, NEW record \in Record(Command, Records),
           WriteRecord(p, record)
    PROVE  /\ mem' \in [Process -> Record(Command, Records)]
           /\ journal' \in [OpId -> Record(Command, Records)]
  BY DEF WriteRecord, TypeOK

\* Types, where a process is over.
LEMMA ForgetTyped ==
    ASSUME TypeOK, NEW p \in Process, Forget(p),
           lock' \in Process \cup {Free, Stale},
           UNCHANGED <<indexLock, journal, tree, committed>>,
           \/ UNCHANGED found
           \/ found' = [found EXCEPT ![p] = <<>>],
           \/ UNCHANGED target
           \/ target' = [target EXCEPT ![p] = Nothing],
           UNCHANGED <<worldVars, calls>>, faults' \in 0 .. MaxFaults
    PROVE  TypeOK'
<1>1. /\ mem' \in [Process -> Record(Command, Records)]
      /\ op' \in [Process -> OpId \cup {0}]
      /\ snapshot' \in [Process -> Records \cup {Nothing}]
  BY NoRecordType DEF Forget, TypeOK
<1>2. /\ pc' = [pc EXCEPT ![p] = "idle"]
      /\ outcome' \in [Process -> {"none", "ok", "error", "recovery"}]
      /\ target' \in [Process -> Integration \cup {Nothing}]
  BY DEF Forget, Goto, TypeOK, Points, BodySteps
<1>3. DOMAIN <<>> = {} /\ <<>> \in [{} -> Record(Command, Records)]
  OBVIOUS
<1>4. /\ DOMAIN found' = Process
      /\ \A q \in Process : /\ DOMAIN found'[q] \subseteq OpId
                           /\ found'[q] \in [DOMAIN found'[q] -> Record(Command, Records)]
  BY <1>3 DEF TypeOK
<1>5. pc' \in [Process -> Points]
  BY <1>2 DEF TypeOK, Points
<1> QED
  BY <1>1, <1>2, <1>4, <1>5 DEF TypeOK, worldVars

\* Every step keeps the types.
LEMMA TypeStep == Typed /\ [Next]_vars => TypeOK'
<1> SUFFICES ASSUME Typed, [Next]_vars PROVE TypeOK'
  OBVIOUS
<1> USE ControlAssumption, PromotionAssumption DEF Typed
<1>a. /\ TypeOK
      /\ \A p \in Process :
            /\ pc[p] \in {"accept", "accept cards", "return cards", "publish", "published",
                          "sync", "mark", "land", "event"} => target[p] \in Integration
            /\ pc[p] = "body" /\ ~Recovering(p) => target[p] \in Integration
            /\ pc[p] # "idle" => mem[p].command \in Command
  BY DEF Assigned, AssignedTo, Recovering, Running
<1> HIDE DEF Typed
<1>0. CASE UNCHANGED vars
  BY <1>a, <1>0 DEF vars, TypeOK, controlVars, processVars, worldVars, localVars
<1>1. ASSUME NEW p \in Process, NEW i \in Integration, CallPromote(p, i)
      PROVE  TypeOK'
  <2>1. Invoke(p, "integration.promote", i)
    BY <1>1 DEF CallPromote
  <2>2. [mem[p] EXCEPT !.command = "integration.promote"] \in Record(Command, Records)
    BY <1>a, RecordUpdates DEF TypeOK, Command
  <2>3. /\ mem' = [mem EXCEPT ![p] = [mem[p] EXCEPT !.command = "integration.promote"]]
        /\ pc' = [pc EXCEPT ![p] = "acquire"]
        /\ target' = [target EXCEPT ![p] = i]
        /\ UNCHANGED <<lock, indexLock, journal, tree, committed, op, snapshot, outcome,
                       authority, localMain, checkedOut, blocked, retained, published,
                       found, faults>>
    BY <2>1 DEF Invoke, Call, Goto, controlVars, worldVars
  <2>4. /\ calls \in 0 .. MaxCalls /\ calls < MaxCalls /\ calls' = calls + 1
    BY <1>a, <2>1 DEF Invoke, TypeOK
  <2>5. calls' \in 0 .. MaxCalls
    BY <2>4
  <2> QED
    BY <1>a, <2>2, <2>3, <2>5 DEF TypeOK, Points
<1>2. ASSUME NEW p \in Process, NEW i \in Integration, CallAbandon(p, i)
      PROVE  TypeOK'
  <2>1. Invoke(p, "integration.abandon", i)
    BY <1>2 DEF CallAbandon
  <2>2. [mem[p] EXCEPT !.command = "integration.abandon"] \in Record(Command, Records)
    BY <1>a, RecordUpdates DEF TypeOK, Command
  <2>3. /\ mem' = [mem EXCEPT ![p] = [mem[p] EXCEPT !.command = "integration.abandon"]]
        /\ pc' = [pc EXCEPT ![p] = "acquire"]
        /\ target' = [target EXCEPT ![p] = i]
        /\ UNCHANGED <<lock, indexLock, journal, tree, committed, op, snapshot, outcome,
                       authority, localMain, checkedOut, blocked, retained, published,
                       found, faults>>
    BY <2>1 DEF Invoke, Call, Goto, controlVars, worldVars
  <2>4. /\ calls \in 0 .. MaxCalls /\ calls < MaxCalls /\ calls' = calls + 1
    BY <1>a, <2>1 DEF Invoke, TypeOK
  <2>5. calls' \in 0 .. MaxCalls
    BY <2>4
  <2> QED
    BY <1>a, <2>2, <2>3, <2>5 DEF TypeOK, Points
<1>3. ASSUME NEW p \in Process, NEW i \in Integration, CallAccept(p, i)
      PROVE  TypeOK'
  <2>1. Invoke(p, "acceptance.record", i)
    BY <1>3 DEF CallAccept
  <2>2. [mem[p] EXCEPT !.command = "acceptance.record"] \in Record(Command, Records)
    BY <1>a, RecordUpdates DEF TypeOK, Command
  <2>3. /\ mem' = [mem EXCEPT ![p] = [mem[p] EXCEPT !.command = "acceptance.record"]]
        /\ pc' = [pc EXCEPT ![p] = "acquire"]
        /\ target' = [target EXCEPT ![p] = i]
        /\ UNCHANGED <<lock, indexLock, journal, tree, committed, op, snapshot, outcome,
                       authority, localMain, checkedOut, blocked, retained, published,
                       found, faults>>
    BY <2>1 DEF Invoke, Call, Goto, controlVars, worldVars
  <2>4. /\ calls \in 0 .. MaxCalls /\ calls < MaxCalls /\ calls' = calls + 1
    BY <1>a, <2>1 DEF Invoke, TypeOK
  <2>5. calls' \in 0 .. MaxCalls
    BY <2>4
  <2> QED
    BY <1>a, <2>2, <2>3, <2>5 DEF TypeOK, Points
<1>4. ASSUME NEW p \in Process, StartRecovery(p)
      PROVE  TypeOK'
  <2>1. /\ mem' \in [Process -> Record(Command, Records)]
        /\ pc' = [pc EXCEPT ![p] = "clear"]
    BY <1>a, <1>4, RecordUpdates DEF StartRecovery, Goto, TypeOK, Points, BodySteps, Command
  <2>2. /\ DOMAIN found' = Process
        /\ \A q \in Process : /\ DOMAIN found'[q] \subseteq OpId
                             /\ found'[q] \in [DOMAIN found'[q] -> Record(Command, Records)]
    BY <1>a, <1>4 DEF StartRecovery, TypeOK, Unresolved
  <2> QED
    BY <1>a, <1>4, <2>1, <2>2 DEF TypeOK, Points, StartRecovery, controlVars, worldVars
<1>5. ASSUME NEW p \in Process, Acquire(p), UNCHANGED <<worldVars, localVars, calls, faults>>
      PROVE  TypeOK'
  BY <1>a, <1>5 DEF Acquire, Goto, worldVars, localVars, TypeOK, Points
<1>6. ASSUME NEW p \in Process, RefusedLock(p),
             UNCHANGED <<worldVars, localVars, calls, faults>>
      PROVE  TypeOK'
  <2>1. lock' \in Process \cup {Free, Stale} /\ faults' \in 0 .. MaxFaults
    BY <1>a, <1>6 DEF RefusedLock, controlVars, TypeOK
  <2> QED
    BY <1>a, <1>6, <2>1, ForgetTyped DEF RefusedLock, controlVars, localVars
<1>7. ASSUME NEW p \in Process, RequireSettled(p),
             UNCHANGED <<worldVars, localVars, calls, faults>>
      PROVE  TypeOK'
  BY <1>a, <1>7 DEF RequireSettled, Goto, controlVars, worldVars, localVars, TypeOK, Points
<1>8. ASSUME NEW p \in Process, Hygiene(p), UNCHANGED <<worldVars, localVars, calls, faults>>
      PROVE  TypeOK'
  BY <1>a, <1>8 DEF Hygiene, Goto, worldVars, localVars, TypeOK, Points
<1>9. ASSUME NEW p \in Process, Begin(p), UNCHANGED <<worldVars, localVars, calls, faults>>
      PROVE  TypeOK'
  <2> DEFINE r == [mem[p] EXCEPT !.state = "started", !.head = committed]
  <2>1. r \in Record(Command, Records)
    BY <1>a, RecordUpdates DEF TypeOK
  <2>2. PICK n \in OpId : /\ op' = [op EXCEPT ![p] = n]
                          /\ mem' = [mem EXCEPT ![p] = r]
                          /\ journal' = [journal EXCEPT ![n] = r]
    BY <1>9 DEF Begin
  <2> HIDE DEF r
  <2>3. /\ pc' = [pc EXCEPT ![p] = "body"] /\ snapshot' = [snapshot EXCEPT ![p] = tree]
        /\ UNCHANGED <<lock, indexLock, tree, committed, outcome>>
    BY <1>9 DEF Begin, Capture, Goto
  <2> QED
    BY <1>a, <1>9, <2>1, <2>2, <2>3 DEF TypeOK, Points, BodySteps, worldVars, localVars
<1>10. ASSUME NEW p \in Process, RecordAcceptance(p)
      PROVE  TypeOK'
  <2>1. /\ target[p] \in Integration /\ tree \in Records
    BY <1>a, <1>10 DEF RecordAcceptance, At, Running, Recovering, TypeOK
  <2>2. \/ (\E records \in Records, to \in BodySteps : WriteTree(p, records, to))
        \/ Refuse(p, "error")
    BY <1>10, <2>1, TreeUpdates DEF RecordAcceptance, BodySteps
  <2> QED
    BY <1>a, <2>2, WriteTreeTyped, RefuseTyped
<1>11. ASSUME NEW p \in Process, MarkAccepted(p)
      PROVE  TypeOK'
  <2>1. /\ target[p] \in Integration /\ tree \in Records
    BY <1>a, <1>11 DEF MarkAccepted, At, Running, Recovering, TypeOK
  <2>2. \/ (\E records \in Records, to \in BodySteps : WriteTree(p, records, to))
        \/ Refuse(p, "error")
    BY <1>11, <2>1, TreeUpdates DEF MarkAccepted, BodySteps
  <2> QED
    BY <1>a, <2>2, WriteTreeTyped, RefuseTyped
<1>12. ASSUME NEW p \in Process, AcceptCard(p)
      PROVE  TypeOK'
  <2>1. /\ target[p] \in Integration /\ tree \in Records
    BY <1>a, <1>12 DEF AcceptCard, At, Running, Recovering, TypeOK
  <2>2. \/ (\E records \in Records, to \in BodySteps : WriteTree(p, records, to))
        \/ Refuse(p, "error")
    BY <1>12, <2>1, TreeUpdates DEF AcceptCard, BodySteps
  <2> QED
    BY <1>a, <2>2, WriteTreeTyped, RefuseTyped
<1>13. ASSUME NEW p \in Process, MarkAbandoned(p)
      PROVE  TypeOK'
  <2>1. /\ target[p] \in Integration /\ tree \in Records
    BY <1>a, <1>13 DEF MarkAbandoned, At, Running, Recovering, TypeOK
  <2>2. \/ (\E records \in Records, to \in BodySteps : WriteTree(p, records, to))
        \/ Refuse(p, "error")
    BY <1>13, <2>1, TreeUpdates DEF MarkAbandoned, BodySteps
  <2> QED
    BY <1>a, <2>2, WriteTreeTyped, RefuseTyped
<1>14. ASSUME NEW p \in Process, ReturnCard(p)
      PROVE  TypeOK'
  <2>1. target[p] \in Integration /\ tree \in Records
    BY <1>a, <1>14 DEF ReturnCard, At, TypeOK
  <2>2. CASE \E c \in Members[target[p]] :
                WriteTree(p, [tree EXCEPT !.card[c] = "approved"], "return cards")
    BY <1>a, <2>1, <2>2, TreeUpdates, WriteTreeTyped DEF BodySteps
  <2>3. CASE Goto(p, "event") /\ retained' = retained \ {target[p]} /\ UNCHANGED
                <<controlVars, op, mem, snapshot, outcome, authority, localMain,
                  checkedOut, blocked, published, localVars, calls, faults>>
    BY <1>a, <2>3 DEF Goto, TypeOK, Points, BodySteps, controlVars, localVars
  <2> QED
    BY <1>14, <2>2, <2>3 DEF ReturnCard
<1>15. ASSUME NEW p \in Process, AnnouncePublish(p)
      PROVE  TypeOK'
  <2>1. OutsideControl(mem[p]) \in Record(Command, Records)
    BY <1>a, RecordUpdates DEF TypeOK
  <2>2. CASE /\ WriteRecord(p, OutsideControl(mem[p])) /\ Goto(p, "publish") /\ SameWorld
             /\ UNCHANGED <<lock, indexLock, tree, committed, op, snapshot, outcome>>
    BY <1>a, <2>1, <2>2, WriteRecordTyped
    DEF Goto, SameWorld, TypeOK, Points, BodySteps, worldVars, localVars
  <2> QED
    BY <1>a, <1>15, <2>2, RefuseTyped DEF AnnouncePublish
<1>16. ASSUME NEW p \in Process, Publish(p)
      PROVE  TypeOK'
  <2>1. target[p] \in Integration
    BY <1>a, <1>16 DEF Publish, At
  <2>2. CASE /\ authority' = target[p] /\ published' = published \cup {target[p]}
             /\ Goto(p, "published")
             /\ UNCHANGED <<controlVars, op, mem, snapshot, outcome, localMain, checkedOut,
                            blocked, retained, localVars, calls, faults>>
    BY <1>a, <2>1, <2>2 DEF Goto, TypeOK, Points, BodySteps, controlVars, localVars
  <2> QED
    BY <1>a, <1>16, <2>2, RefuseTyped DEF Publish, Rejected
<1>17. ASSUME NEW p \in Process, Published(p)
      PROVE  TypeOK'
  <2>1. OutsideControl(mem[p]) \in Record(Command, Records)
    BY <1>a, RecordUpdates DEF TypeOK
  <2> QED
    BY <1>a, <1>17, <2>1, WriteRecordTyped
    DEF Published, Goto, SameWorld, TypeOK, Points, BodySteps, worldVars, localVars
<1>18. ASSUME NEW p \in Process, SyncLocalMain(p)
      PROVE  TypeOK'
  <2>1. OutsideControl(mem[p]) \in Record(Command, Records)
    BY <1>a, RecordUpdates DEF TypeOK
  <2>2. target[p] \in Integration
    BY <1>a, <1>18 DEF SyncLocalMain, At
  <2>3. /\ localMain' \in {localMain, target[p]}
        /\ pc' \in {[pc EXCEPT ![p] = "mark"], [pc EXCEPT ![p] = "finish"]}
        /\ outcome' \in {outcome, [outcome EXCEPT ![p] = "recovery"]}
    BY <1>18 DEF SyncLocalMain, Return, Goto
  <2>4. /\ localMain' \in Integration \cup {Baseline}
        /\ mem' \in [Process -> Record(Command, Records)]
        /\ journal' \in [OpId -> Record(Command, Records)]
        /\ outcome' \in [Process -> {"none", "ok", "error", "recovery"}]
    BY <1>a, <1>18, <2>1, <2>2, <2>3, WriteRecordTyped DEF SyncLocalMain, TypeOK
  <2>5. UNCHANGED <<lock, indexLock, tree, committed, op, snapshot, authority, checkedOut,
                    blocked, retained, published, target, found, calls, faults>>
    BY <1>18 DEF SyncLocalMain, localVars
  <2>6. pc' \in [Process -> Points]
    BY <1>a, <2>3 DEF TypeOK, Points, BodySteps
  <2> QED
    BY <1>a, <2>4, <2>5, <2>6 DEF TypeOK
<1>19. ASSUME NEW p \in Process, MarkPromoted(p)
      PROVE  TypeOK'
  <2>1. target[p] \in Integration
    BY <1>a, <1>19 DEF MarkPromoted, At
  <2>2. tree' \in Records
    BY <1>a, <1>19, <2>1, TreeUpdates DEF MarkPromoted, TypeOK
  <2>3. mem[p] \in Record(Command, Records)
    BY <1>a DEF TypeOK
  <2> QED
    BY <1>a, <1>19, <2>2, <2>3, WriteRecordTyped
    DEF MarkPromoted, Goto, SameWorld, TypeOK, Points, BodySteps, worldVars, localVars
<1>20. ASSUME NEW p \in Process, LandCard(p)
      PROVE  TypeOK'
  <2>1. /\ target[p] \in Integration /\ tree \in Records
    BY <1>a, <1>20 DEF LandCard, At, Running, Recovering, TypeOK
  <2>2. \/ (\E records \in Records, to \in BodySteps : WriteTree(p, records, to))
        \/ Refuse(p, "error")
    BY <1>20, <2>1, TreeUpdates DEF LandCard, BodySteps
  <2> QED
    BY <1>a, <2>2, WriteTreeTyped, RefuseTyped
<1>21. ASSUME NEW p \in Process, ClearLock(p)
      PROVE  TypeOK'
  <2>1. lock' \in Process \cup {Free, Stale} /\ faults' \in 0 .. MaxFaults
    BY <1>a, <1>21 DEF ClearLock, ClearStaleLock, TypeOK
  <2>2. CASE Forget(p) /\ found' = [found EXCEPT ![p] = <<>>]
    BY <1>a, <1>21, <2>1, <2>2, ForgetTyped DEF ClearLock
  <2>3. CASE Goto(p, "settle") /\ UNCHANGED <<op, mem, snapshot, outcome, found>>
    BY <1>a, <1>21, <2>1, <2>3 DEF ClearLock, Goto, TypeOK, Points, BodySteps, worldVars
  <2> QED
    BY <1>21, <2>2, <2>3 DEF ClearLock
<1>22. ASSUME NEW p \in Process, SettleFound(p)
      PROVE  TypeOK'
  <2>1. PICK n \in DOMAIN found[p] :
            /\ journal' = [journal EXCEPT ![n] = Finished(p, found[p][n], "completed")]
            /\ found' = [found EXCEPT ![p] = [m \in DOMAIN found[p] \ {n} |-> found[p][m]]]
            /\ pc' = [pc EXCEPT ![p] = IF DOMAIN found[p] = {n} THEN "acquire" ELSE "settle"]
    BY <1>22 DEF SettleFound, Goto
  <2>2. Finished(p, found[p][n], "completed") \in Record(Command, Records)
    <3>1. found[p][n] \in Record(Command, Records)
      BY ZenonT(60), <1>a, <2>1 DEF TypeOK
    <3> QED
      BY <3>1, RecordUpdates
  <2>3. journal' \in [OpId -> Record(Command, Records)]
    BY <1>a, <2>1, <2>2 DEF TypeOK
  <2>4. /\ DOMAIN found' = Process
        /\ \A q \in Process : /\ DOMAIN found'[q] \subseteq OpId
                             /\ found'[q] \in [DOMAIN found'[q] -> Record(Command, Records)]
    BY ZenonT(60), <1>a, <2>1 DEF TypeOK
  <2>5. UNCHANGED <<lock, indexLock, tree, committed, op, mem, snapshot, outcome,
                    authority, localMain, checkedOut, blocked, retained, published,
                    target, calls, faults>>
    BY <1>22 DEF SettleFound, worldVars
  <2>6. pc' \in [Process -> Points]
    BY <1>a, <2>1 DEF TypeOK, Points
  <2> QED
    BY <1>a, <2>3, <2>4, <2>5, <2>6 DEF TypeOK
<1>23. ASSUME NEW p \in Process, Resume(p)
      PROVE  TypeOK'
  <2>1. \/ \E i \in Integration : target' = [target EXCEPT ![p] = i] /\ Goto(p, "sync")
                                  /\ UNCHANGED outcome
        \/ Return(p, "ok") /\ UNCHANGED target
    BY <1>23 DEF Resume
  <2>2. UNCHANGED <<controlVars, op, mem, snapshot, worldVars, found, calls, faults>>
    BY <1>23 DEF Resume
  <2> QED
    <3>1. CASE \E i \in Integration : target' = [target EXCEPT ![p] = i] /\ Goto(p, "sync")
                                      /\ UNCHANGED outcome
      <4>1. PICK i \in Integration : target' = [target EXCEPT ![p] = i] /\ Goto(p, "sync")
                                      /\ UNCHANGED outcome
        BY <3>1
      <4>2. pc' \in [Process -> Points] /\ target' \in [Process -> Integration \cup {Nothing}]
        BY <1>a, <4>1 DEF Goto, TypeOK, Points, BodySteps
      <4> QED
        BY <1>a, <2>2, <4>1, <4>2 DEF TypeOK, controlVars, worldVars
    <3>2. CASE Return(p, "ok") /\ UNCHANGED target
      BY <1>a, <2>2, <3>2 DEF Return, Goto, TypeOK, Points, controlVars, worldVars
    <3> QED
      BY <2>1, <3>1, <3>2
<1>24. ASSUME NEW p \in Process, AppendEvent(p)
      PROVE  TypeOK'
  <2>1. /\ target[p] \in Integration /\ tree \in Records
        /\ EventOf[mem[p].command] \in {"acceptance.recorded", "integration.promoted",
                                         "integration.abandoned"}
    BY <1>a, <1>24 DEF AppendEvent, At, EventOf, Command, TypeOK
  <2> QED
    BY <1>a, <1>24, <2>1, TreeUpdates, WriteTreeTyped DEF AppendEvent, BodySteps
<1>25. ASSUME NEW p \in Process, Stage(p)
      PROVE  TypeOK'
  BY ZenonT(60), <1>a, <1>25
  DEF Stage, StageCommit, Return, SameWorld, Goto, TypeOK, Points, BodySteps,
     worldVars, localVars
<1>26. ASSUME NEW p \in Process, CommitRecords(p)
      PROVE  TypeOK'
  BY <1>a, <1>26
  DEF CommitRecords, InstallCommit, Return, SameWorld, Goto, TypeOK, Points, BodySteps,
      worldVars, localVars
<1>27. ASSUME NEW p \in Process, Finish(p), SameWorld
      PROVE  TypeOK'
  <2>1. PICK state \in {"completed", "failed_clean", "failed_partial"} : Settle(p, state)
    BY <1>a, <1>27 DEF Finish, TerminalState, TypeOK
  <2>2. Finished(p, mem[p], state) \in Record(Command, Records)
    BY <1>a, RecordUpdates DEF TypeOK
  <2>3. journal' \in [OpId -> Record(Command, Records)]
    BY <1>a, <2>1, <2>2 DEF Settle, TypeOK
  <2>4. UNCHANGED tree
    BY <1>a, <1>27 DEF Finish, TypeOK
  <2>5. pc' = [pc EXCEPT ![p] = "release"]
    BY <1>27 DEF Finish, Goto
  <2>6. UNCHANGED <<lock, indexLock, committed, op, mem, snapshot, outcome, worldVars,
                    localVars, calls, faults>>
    BY <1>27 DEF Finish, SameWorld
  <2> QED
    BY <1>a, <2>3, <2>4, <2>5, <2>6 DEF TypeOK, Points, worldVars, localVars
<1>28. ASSUME NEW p \in Process, End(p)
      PROVE  TypeOK'
  <2>1. lock' \in Process \cup {Free, Stale} /\ faults' \in 0 .. MaxFaults
    BY <1>a, <1>28 DEF End, Release, TypeOK
  <2> QED
    BY <1>a, <1>28, <2>1, ForgetTyped DEF End, Release
<1>29. ASSUME NEW p \in Process, BodyFails(p)
      PROVE  TypeOK'
  <2>1. /\ \E how \in {"error", "recovery"} : Return(p, how)
        /\ UNCHANGED <<lock, indexLock, journal, tree, committed, op, mem, snapshot, worldVars,
                       localVars, calls>>
    BY <1>29 DEF BodyFails, controlVars
  <2>2. /\ faults \in 0 .. MaxFaults /\ faults < MaxFaults /\ faults' = faults + 1
        /\ committed' \in Records
    BY <1>a, <1>29, <2>1 DEF BodyFails, Disturb, TypeOK
  <2>3. faults' \in 0 .. MaxFaults
    BY <2>2
  <2> QED
    BY <1>a, <2>1, <2>2, <2>3, ReturnTyped
<1>30. ASSUME NEW p \in Process, Killed(p)
      PROVE  TypeOK'
  <2>1. /\ lock' \in Process \cup {Free, Stale}
        /\ faults \in 0 .. MaxFaults /\ faults < MaxFaults /\ faults' = faults + 1
    BY <1>a, <1>30 DEF Killed, Disturb, Crash, TypeOK
  <2>2. faults' \in 0 .. MaxFaults
    BY <2>1
  <2> QED
    BY <1>a, <1>30, <2>1, <2>2, ForgetTyped DEF Killed, Crash
<1>31. CASE EditLocal
  BY <1>a, <1>31 DEF EditLocal, localVars, TypeOK, controlVars, processVars
<1>32. CASE TidyLocal
  BY <1>a, <1>32 DEF TidyLocal, localVars, TypeOK, controlVars, processVars
<1>33. CASE ForeignPush
  BY <1>a, <1>33 DEF ForeignPush, localVars, TypeOK, controlVars, processVars
<1>34. CASE RemoveIndexLock
  BY <1>a, <1>34 DEF RemoveIndexLock, worldVars, localVars, TypeOK, controlVars, processVars
<1> QED
  BY <1>0, <1>1, <1>2, <1>3, <1>4, <1>5, <1>6, <1>7, <1>8, <1>9, <1>10, <1>11, <1>12,
     <1>13, <1>14, <1>15, <1>16, <1>17, <1>18, <1>19, <1>20, <1>21, <1>22, <1>23,
     <1>24, <1>25, <1>26, <1>27, <1>28, <1>29, <1>30, <1>31, <1>32, <1>33, <1>34
  DEF Next, Work, Opening, SameWorld

\* The fields of a rewritten operation record.
LEMMA Fields ==
    ASSUME NEW r \in Record(Command, Records)
    PROVE  /\ \A command : [r EXCEPT !.command = command].command = command
           /\ \A command : [r EXCEPT !.command = command].outside = r.outside
           /\ \A head : /\ [r EXCEPT !.state = "started", !.head = head].state = "started"
                       /\ [r EXCEPT !.state = "started", !.head = head].command = r.command
           /\ \A p, state : /\ Finished(p, r, state).state = state
                           /\ Finished(p, r, state).command = r.command
           /\ \A head : [r EXCEPT !.state = "started", !.head = head].outside = r.outside
           /\ OutsideControl(r).state = r.state
           /\ OutsideControl(r).command = r.command
           /\ OutsideControl(r).outside
<1> HIDE DEF Records
<1> QED
  BY DEF Record, OutsideControl, Finished

\* The other processes go on with what they were about.
LEMMA AssignedFrame ==
    ASSUME Assigned, NEW p \in Process, Only(p), AssignedTo(p)'
    PROVE  Assigned'
<1> SUFFICES ASSUME NEW q \in Process, q # p PROVE AssignedTo(q)'
  BY DEF Assigned
<1> QED
  BY ZenonT(60) DEF Assigned, AssignedTo, Only, Recovering, Running

\* Every step keeps what a process is about.
LEMMA AssignedStep == Typed /\ [Next]_vars => Assigned'
<1> SUFFICES ASSUME Typed, [Next]_vars PROVE Assigned'
  OBVIOUS
<1>a. TypeOK /\ Assigned
  BY DEF Typed
<1>b. ASSUME NEW p \in Process PROVE mem[p] \in Record(Command, Records) /\ AssignedTo(p)
  BY <1>a DEF TypeOK, Assigned
<1>0. CASE UNCHANGED vars
  BY <1>a, <1>0
  DEF vars, processVars, localVars, Assigned, AssignedTo, Recovering, Running
<1>1. ASSUME NEW p \in Process, NEW i \in Integration, CallPromote(p, i)
      PROVE  Assigned'
  <2>1. /\ Only(p) /\ pc[p] = "idle" /\ pc'[p] = "acquire"
        /\ mem'[p] = [mem[p] EXCEPT !.command = "integration.promote"] /\ target'[p] = i
    BY <1>a, <1>1, InvokeEffect DEF CallPromote
  <2>a. mem'[p] = [NoRecord EXCEPT !.command = "integration.promote"]
    BY Zenon, <1>b, <2>1 DEF AssignedTo
  <2>2. mem'[p].command = "integration.promote" /\ ~mem'[p].outside
    BY <2>a, NewCommand
  <2>3. AssignedTo(p)'
    BY <1>b, <2>1, <2>2 DEF AssignedTo, Unopened, Recovering, Running, Command
  <2> QED
    BY <1>a, <2>1, <2>3, AssignedFrame
<1>2. ASSUME NEW p \in Process, NEW i \in Integration, CallAbandon(p, i)
      PROVE  Assigned'
  <2>1. /\ Only(p) /\ pc[p] = "idle" /\ pc'[p] = "acquire"
        /\ mem'[p] = [mem[p] EXCEPT !.command = "integration.abandon"] /\ target'[p] = i
    BY <1>a, <1>2, InvokeEffect DEF CallAbandon
  <2>a. mem'[p] = [NoRecord EXCEPT !.command = "integration.abandon"]
    BY Zenon, <1>b, <2>1 DEF AssignedTo
  <2>2. mem'[p].command = "integration.abandon" /\ ~mem'[p].outside
    BY <2>a, NewCommand
  <2>3. AssignedTo(p)'
    BY <1>b, <2>1, <2>2 DEF AssignedTo, Unopened, Recovering, Running, Command
  <2> QED
    BY <1>a, <2>1, <2>3, AssignedFrame
<1>3. ASSUME NEW p \in Process, NEW i \in Integration, CallAccept(p, i)
      PROVE  Assigned'
  <2>1. /\ Only(p) /\ pc[p] = "idle" /\ pc'[p] = "acquire"
        /\ mem'[p] = [mem[p] EXCEPT !.command = "acceptance.record"] /\ target'[p] = i
    BY <1>a, <1>3, InvokeEffect DEF CallAccept
  <2>a. mem'[p] = [NoRecord EXCEPT !.command = "acceptance.record"]
    BY Zenon, <1>b, <2>1 DEF AssignedTo
  <2>2. mem'[p].command = "acceptance.record" /\ ~mem'[p].outside
    BY <2>a, NewCommand
  <2>3. AssignedTo(p)'
    BY <1>b, <2>1, <2>2 DEF AssignedTo, Unopened, Recovering, Running, Command
  <2> QED
    BY <1>a, <2>1, <2>3, AssignedFrame
<1>4. ASSUME NEW p \in Process, StartRecovery(p)
      PROVE  Assigned'
  <2>1. /\ Only(p) /\ pc[p] = "idle" /\ pc'[p] = "clear"
        /\ mem'[p] = [mem[p] EXCEPT !.command = "project.recover"] /\ target'[p] = target[p]
    BY <1>a, <1>4, StartRecoveryEffect
  <2>a. mem'[p] = [NoRecord EXCEPT !.command = "project.recover"]
    BY Zenon, <1>b, <2>1 DEF AssignedTo
  <2>2. mem'[p].command = "project.recover" /\ ~mem'[p].outside
    BY <2>a, NewCommand
  <2>3. AssignedTo(p)'
    BY <1>b, <2>1, <2>2 DEF AssignedTo, Unopened, Recovering, Running, Command
  <2> QED
    BY <1>a, <2>1, <2>3, AssignedFrame
<1>5. ASSUME NEW p \in Process, Acquire(p), UNCHANGED <<worldVars, localVars, calls, faults>>
      PROVE  Assigned'
  <2>1. /\ Only(p) /\ pc[p] = "acquire" /\ pc'[p] = "settled?"
        /\ mem'[p] = mem[p] /\ target'[p] = target[p]
    BY <1>a, <1>5, OpeningEffect DEF Steps, Returns
  <2>2. AssignedTo(p)'
    BY <1>b, <2>1 DEF AssignedTo, Unopened, Recovering, Running
  <2> QED
    BY <1>a, <2>1, <2>2, AssignedFrame
<1>6. ASSUME NEW p \in Process, RefusedLock(p),
             UNCHANGED <<worldVars, localVars, calls, faults>>
      PROVE  Assigned'
  <2>1. Only(p) /\ pc'[p] = "idle" /\ mem'[p] = NoRecord
    BY <1>a, <1>6, OpeningEffect DEF Ends
  <2>2. AssignedTo(p)'
    BY <2>1 DEF AssignedTo, Unopened, Recovering, Running
  <2> QED
    BY <1>a, <2>1, <2>2, AssignedFrame
<1>7. ASSUME NEW p \in Process, RequireSettled(p),
             UNCHANGED <<worldVars, localVars, calls, faults>>
      PROVE  Assigned'
  <2>1. /\ Only(p) /\ pc[p] = "settled?" /\ pc'[p] \in {"hygiene", "release"}
        /\ mem'[p] = mem[p] /\ target'[p] = target[p]
    BY <1>a, <1>7, OpeningEffect DEF Steps, Returns
  <2>2. AssignedTo(p)'
    BY <1>b, <2>1 DEF AssignedTo, Unopened, Recovering, Running
  <2> QED
    BY <1>a, <2>1, <2>2, AssignedFrame
<1>8. ASSUME NEW p \in Process, Hygiene(p), UNCHANGED <<worldVars, localVars, calls, faults>>
      PROVE  Assigned'
  <2>1. /\ Only(p) /\ pc[p] \in {"hygiene", "quarantine"}
        /\ pc'[p] \in {"quarantine", "begin", "release"}
        /\ mem'[p] = mem[p] /\ target'[p] = target[p]
    BY <1>a, <1>8, OpeningEffect DEF Steps, Returns
  <2>2. AssignedTo(p)'
    BY <1>b, <2>1 DEF AssignedTo, Unopened, Recovering, Running
  <2> QED
    BY <1>a, <2>1, <2>2, AssignedFrame
<1>9. ASSUME NEW p \in Process, Begin(p), UNCHANGED <<worldVars, localVars, calls, faults>>
      PROVE  Assigned'
  <2>1. /\ Only(p) /\ pc[p] = "begin" /\ pc'[p] = "body"
        /\ mem'[p] = [mem[p] EXCEPT !.state = "started", !.head = committed]
        /\ target'[p] = target[p]
    BY <1>a, <1>9, BeginEffect
  <2>2. mem'[p].command = mem[p].command
    BY <1>b, <2>1, Fields
  <2>3. AssignedTo(p)'
    BY <1>b, <2>1, <2>2 DEF AssignedTo, Unopened, Recovering, Running
  <2> QED
    BY <1>a, <2>1, <2>3, AssignedFrame
<1>10. ASSUME NEW p \in Process, RecordAcceptance(p)
      PROVE  Assigned'
  <2>1. /\ Only(p) /\ pc[p] = "body" /\ Running(p, "acceptance.record")
        /\ pc'[p] \in {"accept", "event", "finish"}
        /\ mem'[p] = mem[p] /\ target'[p] = target[p]
    BY <1>a, <1>10, RecordAcceptanceEffect DEF Steps, Returns
  <2>2. AssignedTo(p)'
    BY <1>b, <2>1 DEF AssignedTo, Unopened, Recovering, Running
  <2> QED
    BY <1>a, <2>1, <2>2, AssignedFrame
<1>11. ASSUME NEW p \in Process, MarkAccepted(p)
      PROVE  Assigned'
  <2>1. /\ Only(p) /\ pc[p] = "accept"
        /\ pc'[p] \in {"accept cards"}
        /\ mem'[p] = mem[p] /\ target'[p] = target[p]
    BY <1>a, <1>11, MarkAcceptedEffect DEF Steps, Returns
  <2>2. AssignedTo(p)'
    BY <1>b, <2>1 DEF AssignedTo, Unopened, Recovering, Running
  <2> QED
    BY <1>a, <2>1, <2>2, AssignedFrame
<1>12. ASSUME NEW p \in Process, AcceptCard(p)
      PROVE  Assigned'
  <2>1. /\ Only(p) /\ pc[p] = "accept cards"
        /\ pc'[p] \in {"accept cards", "event", "finish"}
        /\ mem'[p] = mem[p] /\ target'[p] = target[p]
    BY <1>a, <1>12, AcceptCardEffect DEF Steps, Returns
  <2>2. AssignedTo(p)'
    BY <1>b, <2>1 DEF AssignedTo, Unopened, Recovering, Running
  <2> QED
    BY <1>a, <2>1, <2>2, AssignedFrame
<1>13. ASSUME NEW p \in Process, MarkAbandoned(p)
      PROVE  Assigned'
  <2>1. /\ Only(p) /\ pc[p] = "body" /\ Running(p, "integration.abandon")
        /\ pc'[p] \in {"return cards", "finish"}
        /\ mem'[p] = mem[p] /\ target'[p] = target[p]
    BY <1>a, <1>13, MarkAbandonedEffect DEF Steps, Returns
  <2>2. AssignedTo(p)'
    BY <1>b, <2>1 DEF AssignedTo, Unopened, Recovering, Running
  <2> QED
    BY <1>a, <2>1, <2>2, AssignedFrame
<1>14. ASSUME NEW p \in Process, ReturnCard(p)
      PROVE  Assigned'
  <2>1. /\ Only(p) /\ pc[p] = "return cards"
        /\ pc'[p] \in {"return cards", "event"}
        /\ mem'[p] = mem[p] /\ target'[p] = target[p]
    BY <1>a, <1>14, ReturnCardEffect DEF Steps, Returns
  <2>2. AssignedTo(p)'
    BY <1>b, <2>1 DEF AssignedTo, Unopened, Recovering, Running
  <2> QED
    BY <1>a, <2>1, <2>2, AssignedFrame
<1>15. ASSUME NEW p \in Process, AnnouncePublish(p)
      PROVE  Assigned'
  <2>1. /\ Only(p) /\ pc[p] = "body" /\ Running(p, "integration.promote")
        /\ pc'[p] \in {"publish", "finish"}
        /\ mem'[p] \in {mem[p], OutsideControl(mem[p])} /\ target'[p] = target[p]
    BY <1>a, <1>15, AnnouncePublishEffect DEF Returns, Steps
  <2>2. mem'[p].command = mem[p].command
    BY <1>b, <2>1, Fields
  <2>3. AssignedTo(p)'
    BY <1>b, <2>1, <2>2 DEF AssignedTo, Unopened, Recovering, Running
  <2> QED
    BY <1>a, <2>1, <2>3, AssignedFrame
<1>16. ASSUME NEW p \in Process, Publish(p)
      PROVE  Assigned'
  <2>1. /\ Only(p) /\ pc[p] = "publish"
        /\ pc'[p] \in {"published", "finish"}
        /\ mem'[p] = mem[p] /\ target'[p] = target[p]
    BY <1>a, <1>16, PublishEffect DEF Steps, Returns
  <2>2. AssignedTo(p)'
    BY <1>b, <2>1 DEF AssignedTo, Unopened, Recovering, Running
  <2> QED
    BY <1>a, <2>1, <2>2, AssignedFrame
<1>17. ASSUME NEW p \in Process, Published(p)
      PROVE  Assigned'
  <2>1. /\ Only(p) /\ pc[p] = "published" /\ pc'[p] = "sync"
        /\ mem'[p] \in {mem[p], OutsideControl(mem[p])} /\ target'[p] = target[p]
    BY <1>a, <1>17, PublishedEffect DEF Announces
  <2>2. mem'[p].command = mem[p].command
    BY <1>b, <2>1, Fields
  <2>3. AssignedTo(p)'
    BY <1>b, <2>1, <2>2 DEF AssignedTo, Unopened, Recovering, Running
  <2> QED
    BY <1>a, <2>1, <2>3, AssignedFrame
<1>18. ASSUME NEW p \in Process, SyncLocalMain(p)
      PROVE  Assigned'
  <2>1. /\ Only(p) /\ pc[p] = "sync" /\ pc'[p] \in {"mark", "finish"}
        /\ mem'[p] \in {mem[p], OutsideControl(mem[p])} /\ target'[p] = target[p]
    BY <1>a, <1>18, SyncLocalMainEffect DEF Announces
  <2>2. mem'[p].command = mem[p].command
    BY <1>b, <2>1, Fields
  <2>3. AssignedTo(p)'
    BY <1>b, <2>1, <2>2 DEF AssignedTo, Unopened, Recovering, Running
  <2> QED
    BY <1>a, <2>1, <2>3, AssignedFrame
<1>19. ASSUME NEW p \in Process, MarkPromoted(p)
      PROVE  Assigned'
  <2>1. /\ Only(p) /\ pc[p] = "mark"
        /\ pc'[p] \in {"land"}
        /\ mem'[p] = mem[p] /\ target'[p] = target[p]
    BY <1>a, <1>19, MarkPromotedEffect DEF Steps, Returns
  <2>2. AssignedTo(p)'
    BY <1>b, <2>1 DEF AssignedTo, Unopened, Recovering, Running
  <2> QED
    BY <1>a, <2>1, <2>2, AssignedFrame
<1>20. ASSUME NEW p \in Process, LandCard(p)
      PROVE  Assigned'
  <2>1. /\ Only(p) /\ pc[p] = "land"
        /\ pc'[p] \in {"land", "event", "finish"}
        /\ mem'[p] = mem[p] /\ target'[p] = target[p]
    BY <1>a, <1>20, LandCardEffect DEF Steps, Returns
  <2>2. AssignedTo(p)'
    BY <1>b, <2>1 DEF AssignedTo, Unopened, Recovering, Running
  <2> QED
    BY <1>a, <2>1, <2>2, AssignedFrame
<1>21. ASSUME NEW p \in Process, ClearLock(p)
      PROVE  Assigned'
  <2>1. /\ Only(p) /\ pc[p] = "clear"
        /\ \/ pc'[p] = "idle" /\ mem'[p] = NoRecord
           \/ pc'[p] = "settle" /\ mem'[p] = mem[p] /\ target'[p] = target[p]
    BY <1>a, <1>21, ClearLockEffect DEF Ends, Steps
  <2>2. AssignedTo(p)'
    BY <1>b, <2>1 DEF AssignedTo, Unopened, Recovering, Running
  <2> QED
    BY <1>a, <2>1, <2>2, AssignedFrame
<1>22. ASSUME NEW p \in Process, SettleFound(p)
      PROVE  Assigned'
  <2>1. /\ Only(p) /\ pc[p] = "settle" /\ pc'[p] \in {"settle", "acquire"}
        /\ mem'[p] = mem[p] /\ target'[p] = target[p]
    BY <1>a, <1>22, SettleFoundEffect DEF Steps, Returns
  <2>2. AssignedTo(p)'
    BY <1>b, <2>1 DEF AssignedTo, Unopened, Recovering, Running
  <2> QED
    BY <1>a, <2>1, <2>2, AssignedFrame
<1>23. ASSUME NEW p \in Process, Resume(p)
      PROVE  Assigned'
  <2>1. /\ Only(p) /\ pc[p] = "body" /\ Recovering(p) /\ mem'[p] = mem[p]
        /\ \/ pc'[p] = "sync" /\ target'[p] \in Integration
           \/ pc'[p] = "finish" /\ target'[p] = target[p]
    BY <1>a, <1>23, ResumeEffect DEF Returns, Steps
  <2>2. AssignedTo(p)'
    BY <1>b, <2>1 DEF AssignedTo, Unopened, Recovering, Running
  <2> QED
    BY <1>a, <2>1, <2>2, AssignedFrame
<1>24. ASSUME NEW p \in Process, AppendEvent(p)
      PROVE  Assigned'
  <2>1. /\ Only(p) /\ pc[p] = "event"
        /\ pc'[p] \in {"stage"}
        /\ mem'[p] = mem[p] /\ target'[p] = target[p]
    BY <1>a, <1>24, AppendEventEffect DEF Steps, Returns
  <2>2. AssignedTo(p)'
    BY <1>b, <2>1 DEF AssignedTo, Unopened, Recovering, Running
  <2> QED
    BY <1>a, <2>1, <2>2, AssignedFrame
<1>25. ASSUME NEW p \in Process, Stage(p)
      PROVE  Assigned'
  <2>1. /\ Only(p) /\ pc[p] = "stage"
        /\ pc'[p] \in {"commit", "finish"}
        /\ mem'[p] = mem[p] /\ target'[p] = target[p]
    BY <1>a, <1>25, StageEffect DEF Steps, Returns
  <2>2. AssignedTo(p)'
    BY <1>b, <2>1 DEF AssignedTo, Unopened, Recovering, Running
  <2> QED
    BY <1>a, <2>1, <2>2, AssignedFrame
<1>26. ASSUME NEW p \in Process, CommitRecords(p)
      PROVE  Assigned'
  <2>1. /\ Only(p) /\ pc[p] = "commit"
        /\ pc'[p] \in {"finish"}
        /\ mem'[p] = mem[p] /\ target'[p] = target[p]
    BY <1>a, <1>26, CommitRecordsEffect DEF Steps, Returns
  <2>2. AssignedTo(p)'
    BY <1>b, <2>1 DEF AssignedTo, Unopened, Recovering, Running
  <2> QED
    BY <1>a, <2>1, <2>2, AssignedFrame
<1>27. ASSUME NEW p \in Process, Finish(p), SameWorld
      PROVE  Assigned'
  <2>1. /\ Only(p) /\ pc[p] = "finish"
        /\ pc'[p] \in {"release"}
        /\ mem'[p] = mem[p] /\ target'[p] = target[p]
    BY <1>a, <1>27, FinishEffect DEF Steps, Returns
  <2>2. AssignedTo(p)'
    BY <1>b, <2>1 DEF AssignedTo, Unopened, Recovering, Running
  <2> QED
    BY <1>a, <2>1, <2>2, AssignedFrame
<1>28. ASSUME NEW p \in Process, End(p)
      PROVE  Assigned'
  <2>1. Only(p) /\ pc'[p] = "idle" /\ mem'[p] = NoRecord
    BY <1>a, <1>28, EndEffect DEF Ends
  <2>2. AssignedTo(p)'
    BY <2>1 DEF AssignedTo, Unopened, Recovering, Running
  <2> QED
    BY <1>a, <2>1, <2>2, AssignedFrame
<1>29. ASSUME NEW p \in Process, BodyFails(p)
      PROVE  Assigned'
  <2>1. /\ Only(p) /\ pc[p] \in BodySteps /\ pc'[p] = "finish"
        /\ mem'[p] = mem[p] /\ target'[p] = target[p]
    BY <1>a, <1>29, BodyFailsEffect DEF Steps, Returns
  <2>2. AssignedTo(p)'
    BY <1>b, <2>1 DEF AssignedTo, Unopened, Recovering, Running, BodySteps
  <2> QED
    BY <1>a, <2>1, <2>2, AssignedFrame
<1>30. ASSUME NEW p \in Process, Killed(p)
      PROVE  Assigned'
  <2>1. Only(p) /\ pc'[p] = "idle" /\ mem'[p] = NoRecord
    BY <1>a, <1>30, KilledEffect DEF Ends
  <2>2. AssignedTo(p)'
    BY <2>1 DEF AssignedTo, Unopened, Recovering, Running
  <2> QED
    BY <1>a, <2>1, <2>2, AssignedFrame
<1>31. CASE EditLocal
  BY <1>a, <1>31
  DEF EditLocal, localVars, processVars, Assigned, AssignedTo, Recovering, Running
<1>32. CASE TidyLocal
  BY <1>a, <1>32
  DEF TidyLocal, localVars, processVars, Assigned, AssignedTo, Recovering, Running
<1>33. CASE ForeignPush
  BY <1>a, <1>33
  DEF ForeignPush, localVars, processVars, Assigned, AssignedTo, Recovering, Running
<1>34. CASE RemoveIndexLock
  BY <1>a, <1>34 DEF RemoveIndexLock, worldVars, localVars, processVars, Assigned, AssignedTo,
     Recovering, Running
<1> QED
  BY <1>0, <1>1, <1>2, <1>3, <1>4, <1>5, <1>6, <1>7, <1>8, <1>9, <1>10, <1>11, <1>12,
     <1>13, <1>14, <1>15, <1>16, <1>17, <1>18, <1>19, <1>20, <1>21, <1>22, <1>23,
     <1>24, <1>25, <1>26, <1>27, <1>28, <1>29, <1>30, <1>31, <1>32, <1>33, <1>34
  DEF Next, Work, Opening, SameWorld

\* Both together.
LEMMA TypedStep == Typed /\ [Next]_vars => Typed'
  BY TypeStep, AssignedStep DEF Typed

(***************************************************************************)
(* Who holds the lock, and what the journal says of it.                    *)
(***************************************************************************)

\* What the operator has to take care of. Nothing in the program enforces it:
\* not "quiet" (project.rs:1496-1551 hold no lock), and "shielded" no operator
\* can promise. A resumption that is interrupted later is not excluded.
Careful == {"quiet", "shielded", "patient", "exclusive"} \subseteq Cautions

\* The process has a journal entry of its own open.
Live == BodySteps \cup {"commit", "finish"}

\* The process is inside the section the project lock protects.
Inside == {"settled?", "hygiene", "quarantine", "begin", "release"} \cup Live

\* A recovery runs alone, has everything ready, and knows all there is to
\* settle.
RecoveryGoes(p) ==
    /\ \A q \in Process : q # p => pc[q] = "idle"
    /\ checkedOut /\ ~blocked
    /\ pc[p] \in {"clear", "settle", "acquire", "settled?", "hygiene"} => ~indexLock
    /\ pc[p] \in {"settle", "acquire"} => lock = Free
    /\ pc[p] \in {"clear", "settle"} =>
          DOMAIN found[p] = Unresolved /\ \A n \in Unresolved : found[p][n] = journal[n]
    /\ pc[p] = "settle" => Unresolved # {} /\ \A n \in Unresolved : IsPromotion(journal[n])
    /\ pc[p] \in {"acquire", "settled?"} => Unresolved = {}

ControlOf(p) ==
    /\ pc[p] \in Inside => lock = p
    /\ pc[p] \in Live => op[p] \in OpId /\ journal[op[p]] = mem[p] /\ mem[p].state = "started"
    /\ pc[p] \in {"hygiene", "quarantine", "begin"} => Unresolved = {}
    /\ Recovering(p) => RecoveryGoes(p)

LockIsUsed == lock \in Process => pc[lock] \in Inside

Control == OneInterruption /\ LockIsUsed /\ \A p \in Process : ControlOf(p)

\* Beside a process inside, the others have not begun, and none recovers.
LEMMA Alone ==
    ASSUME Typed, Control, NEW p \in Process, pc[p] \in Inside,
           NEW q \in Process, q # p
    PROVE  pc[q] \in {"idle", "acquire"} /\ ~Recovering(q)
<1>1. ControlOf(p) /\ ControlOf(q)
  BY DEF Control
<1>2. pc[p] # "idle"
  BY DEF Inside, Live, BodySteps
<1>3. ~Recovering(q)
  BY <1>1, <1>2 DEF ControlOf, RecoveryGoes
<1>4. pc[q] \notin Inside
  BY <1>1 DEF ControlOf
<1>5. pc[q] \notin {"clear", "settle"}
  BY <1>3 DEF Typed, Assigned, AssignedTo
<1>6. pc[q] \in Points
  BY DEF Typed, TypeOK
<1> QED
  BY <1>3, <1>4, <1>5, <1>6 DEF Points, Inside, Live

\* What is unresolved depends on the journal alone.
LEMMA Settled == UNCHANGED journal => Unresolved' = Unresolved
  BY DEF Unresolved

\* An open entry is the only unresolved one, and stays so while it is written.
LEMMA OwnEntry ==
    ASSUME Typed, Control, NEW p \in Process, pc[p] \in Live
    PROVE  /\ op[p] \in OpId /\ journal[op[p]] = mem[p] /\ mem[p].state = "started"
           /\ Unresolved = {op[p]}
           /\ \A r : journal' = [journal EXCEPT ![op[p]] = r] =>
                 /\ journal'[op[p]] = r
                 /\ \A n \in OpId : n # op[p] => journal'[n] = journal[n]
                 /\ r.state = "started" => Unresolved' = {op[p]}
                 /\ Unresolved' \subseteq {op[p]}
<1>1. op[p] \in OpId /\ journal[op[p]] = mem[p] /\ mem[p].state = "started"
  BY DEF Control, ControlOf
<1>2. Unresolved = {op[p]}
  BY <1>1 DEF Control, OneInterruption, Unresolved, NeedsRecovery
<1>3. ASSUME NEW r, journal' = [journal EXCEPT ![op[p]] = r]
      PROVE  /\ journal'[op[p]] = r
             /\ \A n \in OpId : n # op[p] => journal'[n] = journal[n]
  BY <1>1, <1>3 DEF Typed, TypeOK
<1>4. ASSUME NEW r, journal' = [journal EXCEPT ![op[p]] = r]
      PROVE  /\ r.state = "started" => Unresolved' = {op[p]}
             /\ Unresolved' \subseteq {op[p]}
  BY <1>1, <1>2, <1>3, <1>4 DEF Unresolved, NeedsRecovery
<1> QED
  BY <1>1, <1>2, <1>3, <1>4

\* What a step inside the lock owes: nothing is said of the others.
LEMMA InsideFrame ==
    ASSUME Typed, Control, NEW p \in Process, pc[p] \in Inside, Only(p),
           OneInterruption', lock' = p, pc'[p] \in Inside, ControlOf(p)'
    PROVE  Control'
<1>1. LockIsUsed'
  BY DEF LockIsUsed
<1>2. ASSUME NEW q \in Process, q # p PROVE ControlOf(q)'
  <2>1. pc[q] \in {"idle", "acquire"} /\ ~Recovering(q)
    BY <1>2, Alone
  <2>2. pc'[q] = pc[q] /\ mem'[q] = mem[q]
    BY <1>2 DEF Only
  <2> QED
    BY <2>1, <2>2 DEF ControlOf, Recovering, Running, Inside, Live, BodySteps
<1> QED
  BY <1>1, <1>2 DEF Control

\* A step of an open operation that only moves on, whatever it does beside.
LEMMA LiveFrame ==
    ASSUME Typed, Control, NEW p \in Process, pc[p] \in Live, pc'[p] \in Live,
           Only(p), op'[p] = op[p], mem'[p].command = mem[p].command,
           \/ UNCHANGED journal /\ mem'[p] = mem[p]
           \/ /\ journal' = [journal EXCEPT ![op[p]] = mem'[p]]
              /\ mem'[p].state = "started",
           UNCHANGED <<lock, checkedOut, blocked>>
    PROVE  Control'
<1>1. lock = p /\ pc[p] \in Inside /\ pc'[p] \in Inside
  BY DEF Control, ControlOf, Inside
<1>2. /\ op[p] \in OpId /\ journal'[op[p]] = mem'[p] /\ mem'[p].state = "started"
      /\ Unresolved' = {op[p]}
  BY OwnEntry, Settled
<1>3. Recovering(p)' => RecoveryGoes(p)'
  <2>1. SUFFICES ASSUME Recovering(p) PROVE RecoveryGoes(p)'
    BY DEF Recovering, Running
  <2>2. RecoveryGoes(p)
    BY <2>1 DEF Control, ControlOf
  <2> QED
    BY <2>2 DEF RecoveryGoes, Only, Live, BodySteps
<1>4. ControlOf(p)'
  BY <1>1, <1>2, <1>3 DEF ControlOf, Live, BodySteps
<1>5. OneInterruption'
  BY <1>2 DEF OneInterruption
<1> QED
  BY <1>1, <1>4, <1>5, InsideFrame

\* Initially nothing is unresolved and nobody holds the lock.
LEMMA InitControlled == Init => Control
<1> SUFFICES ASSUME Init PROVE Control
  OBVIOUS
<1>1. /\ \A p \in Process : pc[p] = "idle" /\ mem[p] = NoRecord
      /\ \A n \in OpId : journal[n] = NoRecord
      /\ lock = Free
  BY DEF Init, InitControl
<1>2. Unresolved = {}
  BY <1>1 DEF Unresolved, NeedsRecovery, NoRecord
<1>3. ASSUME NEW p \in Process PROVE ~Recovering(p)
  <2>1. mem[p] = NoRecord
    BY <1>1
  <2> QED
    BY <2>1 DEF Recovering, Running, NoRecord
<1>4. "idle" \notin Inside /\ "idle" \notin Live
  BY DEF Inside, Live, BodySteps
<1>5. \A p \in Process : ControlOf(p)
  BY <1>1, <1>2, <1>3, <1>4 DEF ControlOf
<1>6. OneInterruption /\ LockIsUsed
  BY <1>1, <1>2, ControlAssumption DEF OneInterruption, LockIsUsed
<1> QED
  BY <1>5, <1>6 DEF Control

\* A process that ends leaves the lock to nobody it belongs to.
LEMMA EndsControl ==
    ASSUME Typed, Control, NEW p \in Process, pc[p] # "idle", Ends(p),
           lock' = lock \/ lock' \notin Process,
           lock' # p, lock' = lock \/ \A q \in Process : q # p => pc[q] \notin Inside,
           UNCHANGED journal
    PROVE  Control'
<1>1. /\ pc'[p] = "idle" /\ mem'[p] = NoRecord /\ Only(p) /\ Unresolved' = Unresolved
  BY Settled DEF Ends
<1>2. ControlOf(p)'
  <2>1. ~Recovering(p)'
    BY <1>1 DEF Recovering, Running, NoRecord
  <2>2. "idle" \notin Inside /\ "idle" \notin Live
    BY DEF Inside, Live, BodySteps
  <2> QED
    BY <1>1, <2>1, <2>2 DEF ControlOf
<1>3. ASSUME NEW q \in Process, q # p PROVE ControlOf(q)'
  <2>1. ControlOf(q) /\ ~Recovering(q)
    BY <1>3 DEF Control, ControlOf, RecoveryGoes
  <2>2. pc'[q] = pc[q] /\ op'[q] = op[q] /\ mem'[q] = mem[q]
    BY <1>1, <1>3 DEF Only
  <2> QED
    BY <1>1, <1>3, <2>1, <2>2 DEF ControlOf, Recovering, Running, Inside
<1>4. LockIsUsed' /\ OneInterruption'
  BY <1>1 DEF Control, LockIsUsed, OneInterruption, Only
<1> QED
  BY <1>2, <1>3, <1>4 DEF Control

\* What happens around the commands disturbs no recovery.
LEMMA WorldControl ==
    ASSUME Typed, Control, UNCHANGED <<lock, journal, pc, op, mem, found>>,
           (\E p \in Process : Recovering(p)) =>
                checkedOut' /\ ~blocked' /\ (~indexLock => ~indexLock')
    PROVE  Control'
<1>1. ASSUME NEW p \in Process PROVE ControlOf(p)'
  <2>1. Unresolved' = Unresolved
    BY Settled
  <2>2. ASSUME Recovering(p) PROVE RecoveryGoes(p)'
    BY <2>1, <2>2 DEF Control, ControlOf, RecoveryGoes
  <2> QED
    BY <2>1, <2>2 DEF Control, ControlOf, Recovering, Running
<1> QED
  BY <1>1, Settled DEF Control, LockIsUsed, OneInterruption

\* A command is not invoked beside a recovery.
LEMMA InvokeControl ==
    ASSUME Typed, Control, Takes("quiet"), NEW p \in Process, NEW i \in Integration,
           NEW command \in {"integration.promote", "integration.abandon", "acceptance.record"},
           Invoke(p, command, i)
    PROVE  Control'
<1>1. /\ Only(p) /\ pc[p] = "idle" /\ pc'[p] = "acquire"
      /\ mem'[p] = [mem[p] EXCEPT !.command = command]
      /\ UNCHANGED <<lock, journal>>
  BY InvokeEffect DEF Typed, controlVars
<1>2. mem'[p].command = command
  BY <1>1, Fields DEF Typed, TypeOK
<1>3. \A q \in Process : ~Recovering(q)
  BY DEF Invoke
<1>4. ASSUME NEW q \in Process PROVE ControlOf(q)'
  <2>1. ~Recovering(q)'
    BY <1>1, <1>2, <1>3 DEF Only, Recovering, Running
  <2>2. CASE q = p
    BY <1>1, <2>1, <2>2 DEF ControlOf, Inside, Live, BodySteps
  <2>3. CASE q # p
    BY <1>1, <2>1, <2>3, Settled DEF Control, ControlOf, Only
  <2> QED
    BY <2>2, <2>3
<1>5. LockIsUsed' /\ OneInterruption'
  BY <1>1, Settled DEF Control, LockIsUsed, OneInterruption, Only, Inside, Live, BodySteps
<1> QED
  BY <1>4, <1>5 DEF Control

\* Every step keeps one process inside and one operation open.
LEMMA ControlStep ==
    ASSUME Careful, Typed, Control, [Next]_vars
    PROVE  Control'
<1>a. TypeOK /\ Assigned
  BY DEF Typed
<1>b. ASSUME NEW p \in Process
      PROVE  /\ mem[p] \in Record(Command, Records)
             /\ AssignedTo(p) /\ ControlOf(p)
  BY <1>a DEF TypeOK, Assigned, Control
<1>c. /\ Takes("quiet") /\ Takes("shielded") /\ Takes("patient") /\ Takes("exclusive")
      /\ Free \notin Process /\ Stale \notin Process /\ Free # Stale
  BY ControlAssumption DEF Takes, Careful
<1>0. CASE UNCHANGED vars
  <2>1. /\ UNCHANGED <<lock, indexLock, journal, pc, op, mem, found, checkedOut, blocked>>
    BY <1>0 DEF vars, controlVars, processVars, worldVars, localVars
  <2> QED
    BY <1>b, <2>1, WorldControl DEF ControlOf, RecoveryGoes
<1>1. ASSUME NEW p \in Process, NEW i \in Integration, CallPromote(p, i)
      PROVE  Control'
  <2>1. Invoke(p, "integration.promote", i)
    BY <1>1 DEF CallPromote
  <2> QED
    BY <1>c, <2>1, InvokeControl
<1>2. ASSUME NEW p \in Process, NEW i \in Integration, CallAbandon(p, i)
      PROVE  Control'
  <2>1. Invoke(p, "integration.abandon", i)
    BY <1>2 DEF CallAbandon
  <2> QED
    BY <1>c, <2>1, InvokeControl
<1>3. ASSUME NEW p \in Process, NEW i \in Integration, CallAccept(p, i)
      PROVE  Control'
  <2>1. Invoke(p, "acceptance.record", i)
    BY <1>3 DEF CallAccept
  <2> QED
    BY <1>c, <2>1, InvokeControl
<1>4. ASSUME NEW p \in Process, StartRecovery(p)
      PROVE  Control'
  <2>1. /\ Only(p) /\ pc[p] = "idle" /\ pc'[p] = "clear"
        /\ found'[p] = [n \in Unresolved |-> journal[n]]
        /\ UNCHANGED <<lock, indexLock, journal, checkedOut, blocked>>
    BY <1>a, <1>4, StartRecoveryEffect DEF controlVars, worldVars
  <2>a. /\ \A q \in Process : pc[q] = "idle"
        /\ checkedOut /\ ~blocked /\ ~indexLock
    BY <1>c, <1>4 DEF StartRecovery, ReadyForRecovery, At
  <2>2. /\ \A q \in Process : pc[q] = "idle" /\ ~Recovering(q)
        /\ checkedOut /\ ~blocked /\ ~indexLock
    BY <1>b, <2>a, NoRecordTells DEF AssignedTo, Recovering, Running
  <2>3. RecoveryGoes(p)'
    BY <2>1, <2>2, Settled DEF RecoveryGoes, Only
  <2>4. ControlOf(p)'
    BY <2>1, <2>3 DEF ControlOf, Inside, Live, BodySteps
  <2>5. ASSUME NEW q \in Process, q # p PROVE ControlOf(q)'
    BY <2>1, <2>2, <2>5 DEF ControlOf, Only, Recovering, Running, Inside, Live, BodySteps
  <2>6. LockIsUsed' /\ OneInterruption'
    BY <2>1, <2>2, Settled
    DEF Control, LockIsUsed, OneInterruption, Only, Inside, Live, BodySteps
  <2> QED
    BY <2>4, <2>5, <2>6 DEF Control
<1>5. ASSUME NEW p \in Process, Acquire(p), UNCHANGED <<worldVars, localVars, calls, faults>>
      PROVE  Control'
  <2>1. /\ pc[p] = "acquire" /\ pc'[p] = "settled?" /\ Only(p) /\ lock = Free /\ lock' = p
        /\ mem'[p] = mem[p]
    BY <1>a, <1>5, OpeningEffect DEF Steps
  <2>2. UNCHANGED <<indexLock, journal, checkedOut, blocked>>
    BY <1>5 DEF Acquire, worldVars
  <2>3. \A q \in Process : pc[q] \notin Inside
    BY <1>b, <1>c, <2>1 DEF ControlOf
  <2>4. Recovering(p)' => RecoveryGoes(p)'
    BY <1>b, <2>1, <2>2, Settled DEF ControlOf, RecoveryGoes, Recovering, Running, Only
  <2>5. ControlOf(p)'
    BY <2>1, <2>4 DEF ControlOf, Live, BodySteps
  <2>6. ASSUME NEW q \in Process, q # p PROVE ControlOf(q)'
    <3>1. ~Recovering(q)
      BY <1>b, <2>1, <2>6 DEF ControlOf, RecoveryGoes
    <3> QED
      BY <2>1, <2>3, <2>6, <3>1
      DEF ControlOf, Only, Recovering, Running, Inside, Live, BodySteps
  <2>7. LockIsUsed' /\ OneInterruption'
    BY <2>1, <2>2, Settled DEF Control, LockIsUsed, OneInterruption, Inside
  <2> QED
    BY <2>5, <2>6, <2>7 DEF Control
<1>6. ASSUME NEW p \in Process, RefusedLock(p),
             UNCHANGED <<worldVars, localVars, calls, faults>>
      PROVE  Control'
  <2>1. pc[p] = "acquire" /\ Ends(p) /\ UNCHANGED <<lock, journal>>
    BY <1>a, <1>6, OpeningEffect DEF RefusedLock, controlVars
  <2>2. lock # p
    BY <2>1 DEF Control, LockIsUsed, Inside, Live, BodySteps
  <2> QED
    BY <2>1, <2>2, EndsControl
<1>7. ASSUME NEW p \in Process, RequireSettled(p),
             UNCHANGED <<worldVars, localVars, calls, faults>>
      PROVE  Control'
  <2>1. /\ pc[p] = "settled?" /\ Only(p) /\ op'[p] = op[p] /\ mem'[p] = mem[p]
        /\ pc'[p] = IF Unresolved = {} THEN "hygiene" ELSE "release"
    BY <1>a, <1>7, OpeningEffect DEF Steps
  <2>2. UNCHANGED <<lock, indexLock, journal, checkedOut, blocked>>
    BY <1>7 DEF RequireSettled, controlVars, worldVars
  <2>3. pc[p] \in Inside /\ pc'[p] \in Inside
    BY <2>1 DEF Inside
  <2>4. lock = p
    BY <1>b, <2>3 DEF ControlOf
  <2>5. Recovering(p)' => RecoveryGoes(p)'
    BY <1>b, <2>1, <2>2, Settled DEF ControlOf, RecoveryGoes, Recovering, Running, Only
  <2>6. ControlOf(p)'
    BY <2>1, <2>2, <2>4, <2>5, Settled DEF ControlOf, Live, BodySteps
  <2>7. OneInterruption'
    BY <2>2, Settled DEF Control, OneInterruption
  <2> QED
    BY <2>1, <2>2, <2>3, <2>4, <2>6, <2>7, InsideFrame
<1>8. ASSUME NEW p \in Process, Hygiene(p), UNCHANGED <<worldVars, localVars, calls, faults>>
      PROVE  Control'
  <2>1. /\ pc[p] \in {"hygiene", "quarantine"} /\ Only(p) /\ mem'[p] = mem[p]
        /\ pc'[p] \in {"quarantine", "begin", "release"}
    BY <1>a, <1>8, OpeningEffect DEF Steps
  <2>2. UNCHANGED <<lock, journal, checkedOut, blocked>>
    BY <1>8 DEF Hygiene, worldVars
  <2>3. pc[p] \in Inside /\ pc'[p] \in Inside
    BY <2>1 DEF Inside
  <2>4. lock = p /\ Unresolved' = {}
    BY <1>b, <2>1, <2>2, <2>3, Settled DEF ControlOf
  <2>5. Recovering(p)' => RecoveryGoes(p)'
    BY <1>b, <2>1, <2>2, Settled DEF ControlOf, RecoveryGoes, Recovering, Running, Only
  <2>6. ControlOf(p)'
    BY <2>1, <2>2, <2>4, <2>5 DEF ControlOf, Live, BodySteps
  <2>7. OneInterruption'
    BY <2>4 DEF OneInterruption
  <2> QED
    BY <2>1, <2>2, <2>3, <2>4, <2>6, <2>7, InsideFrame
<1>9. ASSUME NEW p \in Process, Begin(p), UNCHANGED <<worldVars, localVars, calls, faults>>
      PROVE  Control'
  <2>1. PICK n \in OpId :
            /\ pc[p] = "begin" /\ pc'[p] = "body" /\ Only(p)
            /\ journal[n].state = "absent" /\ op'[p] = n
            /\ mem'[p] = [mem[p] EXCEPT !.state = "started", !.head = committed]
            /\ journal' = [journal EXCEPT ![n] = mem'[p]]
    BY <1>a, <1>9, BeginEffect
  <2>2. UNCHANGED <<lock, checkedOut, blocked>>
    BY <1>9 DEF Begin, worldVars
  <2>3. pc[p] \in Inside /\ pc'[p] \in Inside
    BY <2>1 DEF Inside, Live, BodySteps
  <2>4. lock = p /\ Unresolved = {}
    BY <1>b, <2>1, <2>3 DEF ControlOf
  <2>5. mem'[p].state = "started" /\ mem'[p].command = mem[p].command
    BY <1>b, <2>1, Fields
  <2>6. /\ journal'[n] = mem'[p] /\ \A m \in OpId : m # n => journal'[m] = journal[m]
    BY <1>a, <2>1 DEF TypeOK
  <2>7. OneInterruption'
    BY <2>4, <2>6 DEF OneInterruption, Unresolved
  <2>8. Recovering(p)' => RecoveryGoes(p)'
    BY <1>b, <2>1, <2>2, <2>5 DEF ControlOf, RecoveryGoes, Recovering, Running, Only
  <2>9. ControlOf(p)'
    BY <2>1, <2>2, <2>4, <2>5, <2>6, <2>8 DEF ControlOf
  <2> QED
    BY <2>1, <2>2, <2>3, <2>4, <2>7, <2>9, InsideFrame
<1>10. ASSUME NEW p \in Process, RecordAcceptance(p)
      PROVE  Control'
  <2>1. /\ pc[p] \in Live /\ pc'[p] \in Live /\ Only(p)
        /\ op'[p] = op[p] /\ mem'[p] = mem[p]
        /\ UNCHANGED <<lock, checkedOut, blocked, journal>>
    BY <1>a, <1>10, RecordAcceptanceEffect
    DEF Steps, Returns, Live, BodySteps, controlVars, worldVars
  <2> QED
    BY <2>1, LiveFrame
<1>11. ASSUME NEW p \in Process, MarkAccepted(p)
      PROVE  Control'
  <2>1. /\ pc[p] \in Live /\ pc'[p] \in Live /\ Only(p)
        /\ op'[p] = op[p] /\ mem'[p] = mem[p]
        /\ UNCHANGED <<lock, checkedOut, blocked, journal>>
    BY <1>a, <1>11, MarkAcceptedEffect
    DEF Steps, Returns, Live, BodySteps, controlVars, worldVars
  <2> QED
    BY <2>1, LiveFrame
<1>12. ASSUME NEW p \in Process, AcceptCard(p)
      PROVE  Control'
  <2>1. /\ pc[p] \in Live /\ pc'[p] \in Live /\ Only(p)
        /\ op'[p] = op[p] /\ mem'[p] = mem[p]
        /\ UNCHANGED <<lock, checkedOut, blocked, journal>>
    BY <1>a, <1>12, AcceptCardEffect DEF Steps, Returns, Live, BodySteps, controlVars, worldVars
  <2> QED
    BY <2>1, LiveFrame
<1>13. ASSUME NEW p \in Process, MarkAbandoned(p)
      PROVE  Control'
  <2>1. /\ pc[p] \in Live /\ pc'[p] \in Live /\ Only(p)
        /\ op'[p] = op[p] /\ mem'[p] = mem[p]
        /\ UNCHANGED <<lock, checkedOut, blocked, journal>>
    BY <1>a, <1>13, MarkAbandonedEffect
    DEF Steps, Returns, Live, BodySteps, controlVars, worldVars
  <2> QED
    BY <2>1, LiveFrame
<1>14. ASSUME NEW p \in Process, ReturnCard(p)
      PROVE  Control'
  <2>1. /\ pc[p] \in Live /\ pc'[p] \in Live /\ Only(p)
        /\ op'[p] = op[p] /\ mem'[p] = mem[p]
        /\ UNCHANGED <<lock, checkedOut, blocked, journal>>
    BY <1>a, <1>14, ReturnCardEffect DEF Steps, Returns, Live, BodySteps, controlVars, worldVars
  <2> QED
    BY <2>1, LiveFrame
<1>15. ASSUME NEW p \in Process, AnnouncePublish(p)
      PROVE  Control'
  <2>1. /\ pc[p] \in Live /\ pc'[p] \in Live /\ Only(p) /\ op'[p] = op[p]
        /\ UNCHANGED <<lock, checkedOut, blocked>>
        /\ \/ /\ mem'[p] = OutsideControl(mem[p])
              /\ journal' = [journal EXCEPT ![op[p]] = mem'[p]]
           \/ UNCHANGED journal /\ mem'[p] = mem[p]
    BY <1>a, <1>15, AnnouncePublishEffect DEF Returns, Steps, Live, BodySteps, worldVars
  <2>2. mem'[p].state = "started" /\ mem'[p].command = mem[p].command
    BY <1>b, <2>1, OwnEntry, Fields
  <2> QED
    BY <2>1, <2>2, LiveFrame
<1>16. ASSUME NEW p \in Process, Publish(p)
      PROVE  Control'
  <2>1. /\ pc[p] \in Live /\ pc'[p] \in Live /\ Only(p)
        /\ op'[p] = op[p] /\ mem'[p] = mem[p]
        /\ UNCHANGED <<lock, checkedOut, blocked, journal>>
    BY <1>a, <1>16, PublishEffect DEF Steps, Returns, Live, BodySteps, controlVars, worldVars
  <2> QED
    BY <2>1, LiveFrame
<1>17. ASSUME NEW p \in Process, Published(p)
      PROVE  Control'
  <2>1. /\ pc[p] \in Live /\ pc'[p] \in Live /\ Only(p) /\ op'[p] = op[p]
        /\ mem'[p] = OutsideControl(mem[p])
        /\ journal' = [journal EXCEPT ![op[p]] = mem'[p]]
        /\ UNCHANGED <<lock, checkedOut, blocked>>
    BY <1>a, <1>17, PublishedEffect DEF Announces, Live, BodySteps, worldVars
  <2>2. mem'[p].state = "started" /\ mem'[p].command = mem[p].command
    BY <1>b, <2>1, OwnEntry, Fields
  <2> QED
    BY <2>1, <2>2, LiveFrame
<1>18. ASSUME NEW p \in Process, SyncLocalMain(p)
      PROVE  Control'
  <2>1. /\ pc[p] \in Live /\ pc'[p] \in Live /\ Only(p) /\ op'[p] = op[p]
        /\ mem'[p] = OutsideControl(mem[p])
        /\ journal' = [journal EXCEPT ![op[p]] = mem'[p]]
        /\ UNCHANGED <<lock, checkedOut, blocked>>
    BY <1>a, <1>18, SyncLocalMainEffect DEF Announces, Live, BodySteps, worldVars
  <2>2. mem'[p].state = "started" /\ mem'[p].command = mem[p].command
    BY <1>b, <2>1, OwnEntry, Fields
  <2> QED
    BY <2>1, <2>2, LiveFrame
<1>19. ASSUME NEW p \in Process, MarkPromoted(p)
      PROVE  Control'
  <2>1. /\ pc[p] \in Live /\ pc'[p] \in Live /\ Only(p)
        /\ op'[p] = op[p] /\ mem'[p] = mem[p]
        /\ journal' = [journal EXCEPT ![op[p]] = mem'[p]]
        /\ UNCHANGED <<lock, checkedOut, blocked>>
    BY <1>a, <1>19, MarkPromotedEffect DEF Steps, Live, BodySteps, worldVars
  <2>2. mem'[p].state = "started"
    BY <2>1, OwnEntry
  <2> QED
    BY <2>1, <2>2, LiveFrame
<1>20. ASSUME NEW p \in Process, LandCard(p)
      PROVE  Control'
  <2>1. /\ pc[p] \in Live /\ pc'[p] \in Live /\ Only(p)
        /\ op'[p] = op[p] /\ mem'[p] = mem[p]
        /\ UNCHANGED <<lock, checkedOut, blocked, journal>>
    BY <1>a, <1>20, LandCardEffect DEF Steps, Returns, Live, BodySteps, controlVars, worldVars
  <2> QED
    BY <2>1, LiveFrame
<1>21. ASSUME NEW p \in Process, ClearLock(p)
      PROVE  Control'
  <2>1. /\ pc[p] = "clear" /\ Recovering(p)
        /\ lock' = IF lock = Stale THEN Free ELSE lock
        /\ UNCHANGED <<indexLock, journal, checkedOut, blocked>>
    BY <1>a, <1>b, <1>21, ClearLockEffect DEF AssignedTo, worldVars
  <2>2. RecoveryGoes(p)
    BY <1>b, <2>1 DEF ControlOf
  <2>3. lock \notin Process
    BY <2>1, <2>2 DEF RecoveryGoes, Control, LockIsUsed, Inside, Live, BodySteps
  <2>4. lock' = Free
    BY <1>a, <2>1, <2>3 DEF TypeOK
  <2>5. CASE Ends(p)
    <3>1. \A q \in Process : q # p => pc[q] \notin Inside
      BY <2>2 DEF RecoveryGoes, Inside, Live, BodySteps
    <3> QED
      BY <1>c, <2>1, <2>4, <2>5, <3>1, EndsControl
  <2>6. CASE /\ DOMAIN found[p] # {}
             /\ \A n \in DOMAIN found[p] : IsPromotion(found[p][n])
             /\ Steps(p, "settle")
    <3>1. Only(p) /\ pc'[p] = "settle" /\ found'[p] = found[p] /\ mem'[p] = mem[p]
      BY <2>6 DEF Steps
    <3>2. RecoveryGoes(p)'
      BY <2>1, <2>2, <2>4, <2>6, <3>1, Settled DEF RecoveryGoes, Only
    <3>3. ControlOf(p)'
      BY <3>1, <3>2 DEF ControlOf, Inside, Live, BodySteps
    <3>4. ASSUME NEW q \in Process, q # p PROVE ControlOf(q)'
      <4>1. pc'[q] = "idle" /\ mem'[q] = NoRecord
        BY <1>b, <2>2, <3>1, <3>4 DEF RecoveryGoes, Only, AssignedTo
      <4> QED
        BY <4>1 DEF ControlOf, Recovering, Running, NoRecord, Inside, Live, BodySteps
    <3>5. LockIsUsed' /\ OneInterruption'
      BY <1>c, <2>1, <2>4, Settled DEF Control, LockIsUsed, OneInterruption
    <3> QED
      BY <3>3, <3>4, <3>5 DEF Control
  <2> QED
    BY <1>a, <1>21, <2>5, <2>6, ClearLockEffect
<1>22. ASSUME NEW p \in Process, SettleFound(p)
      PROVE  Control'
  <2>1. PICK n \in DOMAIN found[p] :
            /\ pc[p] = "settle" /\ Only(p)
            /\ pc'[p] = IF DOMAIN found[p] = {n} THEN "acquire" ELSE "settle"
            /\ mem'[p] = mem[p]
            /\ journal' = [journal EXCEPT ![n] = Finished(p, found[p][n], "completed")]
            /\ UNCHANGED <<lock, indexLock, checkedOut, blocked>>
    BY <1>a, <1>22, SettleFoundEffect DEF worldVars
  <2>2. Recovering(p) /\ RecoveryGoes(p)
    BY <1>b, <2>1 DEF AssignedTo, ControlOf
  <2>3. DOMAIN found[p] = {n} /\ Unresolved = {n} /\ n \in OpId
    BY <2>1, <2>2 DEF RecoveryGoes, Control, OneInterruption, Unresolved
  <2>4. Finished(p, found[p][n], "completed").state = "completed"
    <3>1. found[p][n] \in Record(Command, Records)
      BY <1>a, <2>1 DEF TypeOK
    <3> QED
      BY <3>1, Fields
  <2>5. /\ journal'[n].state = "completed"
        /\ \A m \in OpId : m # n => journal'[m] = journal[m]
    BY <1>a, <2>1, <2>3, <2>4 DEF TypeOK
  <2>6. Unresolved' = {}
    BY <2>3, <2>5 DEF Unresolved, NeedsRecovery
  <2>7. pc'[p] = "acquire" /\ RecoveryGoes(p)'
    BY <2>1, <2>2, <2>3, <2>6 DEF RecoveryGoes, Only
  <2>8. ControlOf(p)'
    BY <2>7 DEF ControlOf, Inside, Live, BodySteps
  <2>9. ASSUME NEW q \in Process, q # p PROVE ControlOf(q)'
    <3>1. pc'[q] = "idle" /\ mem'[q] = NoRecord
      BY <1>b, <2>1, <2>2, <2>9 DEF RecoveryGoes, Only, AssignedTo
    <3> QED
      BY <3>1 DEF ControlOf, Recovering, Running, NoRecord, Inside, Live, BodySteps
  <2>10. LockIsUsed' /\ OneInterruption'
    BY <1>c, <2>1, <2>2, <2>6 DEF RecoveryGoes, LockIsUsed, OneInterruption
  <2> QED
    BY <2>8, <2>9, <2>10 DEF Control
<1>23. ASSUME NEW p \in Process, Resume(p)
      PROVE  Control'
  <2>1. /\ pc[p] \in Live /\ pc'[p] \in Live /\ Only(p)
        /\ op'[p] = op[p] /\ mem'[p] = mem[p]
        /\ UNCHANGED <<lock, checkedOut, blocked, journal>>
    BY <1>a, <1>23, ResumeEffect DEF Steps, Returns, Live, BodySteps, controlVars, worldVars
  <2> QED
    BY <2>1, LiveFrame
<1>24. ASSUME NEW p \in Process, AppendEvent(p)
      PROVE  Control'
  <2>1. /\ pc[p] \in Live /\ pc'[p] \in Live /\ Only(p)
        /\ op'[p] = op[p] /\ mem'[p] = mem[p]
        /\ UNCHANGED <<lock, checkedOut, blocked, journal>>
    BY <1>a, <1>24, AppendEventEffect
    DEF Steps, Returns, Live, BodySteps, controlVars, worldVars
  <2> QED
    BY <2>1, LiveFrame
<1>25. ASSUME NEW p \in Process, Stage(p)
      PROVE  Control'
  <2>1. /\ pc[p] \in Live /\ pc'[p] \in Live /\ Only(p)
        /\ op'[p] = op[p] /\ mem'[p] = mem[p]
        /\ UNCHANGED <<lock, checkedOut, blocked, journal>>
    BY <1>a, <1>25, StageEffect DEF Steps, Returns, Live, BodySteps, controlVars, worldVars
  <2> QED
    BY <2>1, LiveFrame
<1>26. ASSUME NEW p \in Process, CommitRecords(p)
      PROVE  Control'
  <2>1. /\ pc[p] \in Live /\ pc'[p] \in Live /\ Only(p)
        /\ op'[p] = op[p] /\ mem'[p] = mem[p]
        /\ UNCHANGED <<lock, checkedOut, blocked, journal>>
    BY <1>a, <1>26, CommitRecordsEffect
    DEF Steps, Returns, Live, BodySteps, controlVars, worldVars
  <2> QED
    BY <2>1, LiveFrame
<1>27. ASSUME NEW p \in Process, Finish(p), SameWorld
      PROVE  Control'
  <2>1. /\ pc[p] = "finish" /\ pc'[p] = "release" /\ Only(p) /\ op'[p] = op[p]
        /\ mem'[p] = mem[p] /\ UNCHANGED <<lock, indexLock, checkedOut, blocked>>
        /\ \E r : journal' = [journal EXCEPT ![op[p]] = r]
    BY <1>a, <1>27, FinishEffect DEF Steps, worldVars
  <2>2. pc[p] \in Live /\ pc[p] \in Inside /\ pc'[p] \in Inside
    BY <2>1 DEF Inside, Live
  <2>3. lock = p
    BY <1>b, <2>2 DEF ControlOf
  <2>4. Unresolved' \subseteq {op[p]}
    BY <2>1, <2>2, OwnEntry
  <2>5. OneInterruption'
    BY <2>4 DEF OneInterruption
  <2>6. Recovering(p)' => RecoveryGoes(p)'
    BY <1>b, <2>1 DEF ControlOf, RecoveryGoes, Recovering, Running, Only
  <2>7. ControlOf(p)'
    BY <2>1, <2>3, <2>6 DEF ControlOf, Live, BodySteps
  <2> QED
    BY <2>1, <2>2, <2>3, <2>5, <2>7, InsideFrame
<1>28. ASSUME NEW p \in Process, End(p)
      PROVE  Control'
  <2>1. pc[p] = "release" /\ Ends(p) /\ lock' = Free /\ UNCHANGED journal
    BY <1>a, <1>28, EndEffect
  <2>2. pc[p] \in Inside
    BY <2>1 DEF Inside
  <2>3. \A q \in Process : q # p => pc[q] \notin Inside
    BY <2>2, Alone DEF Inside, Live, BodySteps
  <2> QED
    BY <1>c, <2>1, <2>3, EndsControl
<1>29. ASSUME NEW p \in Process, BodyFails(p)
      PROVE  Control'
  <2>1. /\ pc[p] \in Live /\ pc'[p] \in Live /\ Only(p)
        /\ op'[p] = op[p] /\ mem'[p] = mem[p]
        /\ UNCHANGED <<lock, checkedOut, blocked, journal>>
    BY <1>a, <1>29, BodyFailsEffect DEF Steps, Returns, Live, BodySteps, controlVars, worldVars
  <2> QED
    BY <2>1, LiveFrame
<1>30. ASSUME NEW p \in Process, Killed(p)
      PROVE  Control'
  <2>1. /\ pc[p] # "idle" /\ Ends(p) /\ UNCHANGED journal
        /\ lock' = IF lock = p THEN Stale ELSE lock
    BY <1>a, <1>30, KilledEffect
  <2>2. lock = p => \A q \in Process : q # p => pc[q] \notin Inside
    BY <1>b DEF ControlOf
  <2> QED
    BY <1>c, <2>1, <2>2, EndsControl
<1>31. CASE EditLocal
  <2>1. UNCHANGED <<lock, journal, pc, op, mem, found>>
    BY <1>31 DEF EditLocal, controlVars, processVars, localVars
  <2>2. (\E p \in Process : Recovering(p)) => FALSE
    BY <1>c, <1>31 DEF EditLocal
  <2>3. (\E p \in Process : Recovering(p)) =>
            checkedOut' /\ ~blocked' /\ (~indexLock => ~indexLock')
    BY <1>b, <2>2 DEF ControlOf, RecoveryGoes
  <2> QED
    BY <2>1, <2>3, WorldControl
<1>32. CASE TidyLocal
  <2>1. UNCHANGED <<lock, journal, pc, op, mem, found>>
    BY <1>32 DEF TidyLocal, controlVars, processVars, localVars
  <2>2. checkedOut' /\ ~blocked' /\ UNCHANGED indexLock
    BY <1>32 DEF TidyLocal, controlVars
  <2>3. (\E p \in Process : Recovering(p)) =>
            checkedOut' /\ ~blocked' /\ (~indexLock => ~indexLock')
    BY <1>b, <2>2 DEF ControlOf, RecoveryGoes
  <2> QED
    BY <2>1, <2>3, WorldControl
<1>33. CASE ForeignPush
  <2>1. UNCHANGED <<lock, journal, pc, op, mem, found>>
    BY <1>33 DEF ForeignPush, controlVars, processVars, localVars
  <2>2. UNCHANGED <<checkedOut, blocked, indexLock>>
    BY <1>33 DEF ForeignPush, controlVars
  <2>3. (\E p \in Process : Recovering(p)) =>
            checkedOut' /\ ~blocked' /\ (~indexLock => ~indexLock')
    BY <1>b, <2>2 DEF ControlOf, RecoveryGoes
  <2> QED
    BY <2>1, <2>3, WorldControl
<1>34. CASE RemoveIndexLock
  <2>1. UNCHANGED <<lock, journal, pc, op, mem, found>>
    BY <1>34 DEF RemoveIndexLock, controlVars, processVars, localVars
  <2>2. UNCHANGED <<checkedOut, blocked>> /\ ~indexLock'
    BY <1>34 DEF RemoveIndexLock, worldVars
  <2>3. (\E p \in Process : Recovering(p)) =>
            checkedOut' /\ ~blocked' /\ (~indexLock => ~indexLock')
    BY <1>b, <2>2 DEF ControlOf, RecoveryGoes
  <2> QED
    BY <2>1, <2>3, WorldControl
<1> QED
  BY <1>0, <1>1, <1>2, <1>3, <1>4, <1>5, <1>6, <1>7, <1>8, <1>9, <1>10, <1>11, <1>12,
     <1>13, <1>14, <1>15, <1>16, <1>17, <1>18, <1>19, <1>20, <1>21, <1>22, <1>23,
     <1>24, <1>25, <1>26, <1>27, <1>28, <1>29, <1>30, <1>31, <1>32, <1>33, <1>34
  DEF Next, Work, Opening, SameWorld

(***************************************************************************)
(* What the records say of what was published.                             *)
(***************************************************************************)

Promoting(p) == mem[p].command \in {"integration.promote", "project.recover"}

AllWhole == \A i \in published : Recorded(i)

\* At most one landing is ever published, and then the authority stays there.
OneLanding ==
    /\ published = {authority} \cap Integration
    /\ localMain \in Integration => localMain \in published

Kept ==
    /\ \A i \in published : tree.status[i] \in {"accepted", "promoted"}
    /\ \A i \in Integration : tree.status[i] = "promoted" => i \in published
    /\ \A i \in Integration \ retained : tree.status[i] = "abandoned"

\* Whatever is published is whole, or an entry tells of what is missing.
Evident == AllWhole \/ Unresolved # {} \/ RecoveryUnderWay

\* What a body may rely on at each of its points.
BodyOf(p) ==
    /\ pc[p] \in Live /\ ~Promoting(p) => AllWhole
    /\ pc[p] \in {"body", "publish"} /\ Running(p, "integration.promote") => AllWhole
    /\ pc[p] \in {"event", "stage", "commit"} => AllWhole
    /\ pc[p] = "finish" /\ outcome[p] = "ok" => AllWhole
    /\ pc[p] = "finish" /\ ~AllWhole => mem[p].outside \/ outcome[p] = "recovery"
    /\ pc[p] = "accept" => tree.status[target[p]] = "reviewed"
    /\ pc[p] = "return cards" => tree.status[target[p]] = "abandoned"
    /\ pc[p] = "publish" => tree.status[target[p]] = "accepted"
    /\ pc[p] \in {"published", "sync", "mark", "land"} => target[p] \in published
    /\ pc[p] = "land" => tree.status[target[p]] = "promoted"
    /\ pc[p] \in {"publish", "published", "mark", "land"} => mem[p].outside
    /\ pc[p] = "sync" /\ ~Recovering(p) => mem[p].outside
    /\ pc[p] = "event" /\ Promoting(p) => target[p] \in published
    /\ pc[p] = "release" /\ Recovering(p) => AllWhole \/ Unresolved # {}

World == OneLanding /\ Kept /\ Evident /\ \A p \in Process : BodyOf(p)

\* Initially nothing is published.
LEMMA InitWorld == Init => World
<1> SUFFICES ASSUME Init PROVE World
  OBVIOUS
<1>1. published = {} /\ authority = Baseline /\ localMain = Baseline /\ retained = Integration
  BY DEF Init
<1>2. \A p \in Process : pc[p] = "idle"
  BY DEF Init, InitControl
<1>3. PICK accepted \in SUBSET Integration : tree = Initial(accepted)
  BY DEF Init, InitControl
<1>4. \A i \in Integration : tree.status[i] # "promoted"
  BY <1>3 DEF Initial
<1>5. OneLanding
  BY <1>1, PromotionAssumption DEF OneLanding
<1>6. Kept
  BY <1>1, <1>4 DEF Kept
<1>7. AllWhole
  BY <1>1 DEF AllWhole
<1>8. \A p \in Process : BodyOf(p)
  BY <1>2, <1>7 DEF BodyOf, Live, BodySteps
<1> QED
  BY <1>5, <1>6, <1>7, <1>8 DEF World, Evident

\* What the writes of the records leave as it was.
LEMMA TreeAfter ==
    ASSUME tree \in Records, NEW i \in Integration
    PROVE  /\ \A d : tree' = [tree EXCEPT !.decision[i] = d] =>
                tree'.status = tree.status /\ tree'.card = tree.card /\ tree'.log = tree.log
           /\ \A s : tree' = [tree EXCEPT !.status[i] = s] =>
                /\ tree'.status[i] = s
                /\ \A j \in Integration : j # i => tree'.status[j] = tree.status[j]
                /\ tree'.card = tree.card /\ tree'.log = tree.log
           /\ \A c \in Members[i] : \A s : tree' = [tree EXCEPT !.card[c] = s] =>
                /\ tree'.card[c] = s
                /\ \A b \in Card : b # c => tree'.card[b] = tree.card[b]
                /\ tree'.status = tree.status /\ tree'.log = tree.log
           /\ \A type : tree' = Logged(tree, type, i) =>
                tree'.status = tree.status /\ tree'.card = tree.card
<1>1. \A c \in Members[i] : c \in Card
  BY DEF Card
<1> QED
  BY <1>1 DEF Records, Logged

\* Where neither a status nor a branch changes.
LEMMA SameStatus ==
    ASSUME World, UNCHANGED <<authority, localMain, retained, published>>,
           tree'.status = tree.status
    PROVE  OneLanding' /\ Kept'
  BY DEF World, OneLanding, Kept

\* Where neither a status nor a card changes.
LEMMA SameWhole ==
    ASSUME UNCHANGED published, tree'.status = tree.status, tree'.card = tree.card
    PROVE  AllWhole' <=> AllWhole
  BY DEF AllWhole, Recorded

\* What is whole stays so while its cards stay landed.
LEMMA LandedStays ==
    ASSUME UNCHANGED published, published \subseteq Integration, AllWhole,
           tree'.status = tree.status,
           \A c \in Card : tree.card[c] = "landed" => tree'.card[c] = "landed"
    PROVE  AllWhole'
<1> SUFFICES ASSUME NEW i \in published PROVE Recorded(i)'
  BY DEF AllWhole
<1>1. Recorded(i) /\ \A c \in Members[i] : c \in Card
  BY DEF AllWhole, Card
<1> QED
  BY <1>1 DEF Recorded

\* A step inside owes nothing to the other processes.
LEMMA InsideWorld ==
    ASSUME Typed, Control, NEW p \in Process, pc[p] \in Inside, Only(p),
           OneLanding', Kept', Evident', BodyOf(p)'
    PROVE  World'
<1>1. ASSUME NEW q \in Process, q # p PROVE BodyOf(q)'
  <2>1. pc'[q] \in {"idle", "acquire"}
    BY <1>1, Alone DEF Only
  <2> QED
    BY <2>1 DEF BodyOf, Live, BodySteps
<1> QED
  BY <1>1 DEF World

\* A step within a body leaves its own entry unresolved.
LEMMA LiveWorld ==
    ASSUME Typed, Control, Control', NEW p \in Process, pc[p] \in Live, pc'[p] \in Live,
           Only(p), OneLanding', Kept', BodyOf(p)'
    PROVE  World'
<1>1. op'[p] \in OpId /\ journal'[op'[p]] = mem'[p] /\ mem'[p].state = "started"
  BY DEF Control, ControlOf
<1>2. Unresolved' # {}
  BY <1>1 DEF Unresolved, NeedsRecovery
<1> QED
  BY <1>2, InsideWorld DEF Evident, Inside

\* A step that touches neither the records nor the repositories.
LEMMA QuietWorld ==
    ASSUME World, NEW p \in Process, Only(p),
           UNCHANGED <<journal, tree, authority, localMain, retained, published>>,
           BodyOf(p)', Evident'
    PROVE  World'
<1>1. OneLanding' /\ Kept' /\ (AllWhole' <=> AllWhole) /\ Unresolved' = Unresolved
  BY SameStatus, SameWhole, Settled
<1>3. ASSUME NEW q \in Process, q # p PROVE BodyOf(q)'
  <2>1. BodyOf(q)
    BY DEF World
  <2> QED
    BY ZenonT(60), <1>1, <1>3, <2>1 DEF BodyOf, Only, Promoting, Recovering, Running
<1> QED
  BY <1>1, <1>3 DEF World

\* Outside the section the lock protects a body relies on nothing.
LEMMA OutsideBody ==
    ASSUME NEW p \in Process,
           pc'[p] \in {"idle", "acquire", "settled?", "hygiene", "quarantine", "begin",
                       "clear", "settle"}
    PROVE  BodyOf(p)'
  BY DEF BodyOf, Live, BodySteps

\* A record of an integration that was not published is another matter.
LEMMA OtherWhole ==
    ASSUME UNCHANGED published, published \subseteq Integration, AllWhole,
           NEW i \in Integration \ published, tree'.card = tree.card,
           \A j \in Integration : j # i => tree'.status[j] = tree.status[j]
    PROVE  AllWhole'
<1> SUFFICES ASSUME NEW j \in published PROVE Recorded(j)'
  BY DEF AllWhole
<1>1. Recorded(j) /\ tree'.status[j] = tree.status[j]
  BY DEF AllWhole
<1> QED
  BY <1>1 DEF Recorded

\* A recovery under way stays so while it moves on.
LEMMA EvidentStays ==
    ASSUME World, NEW p \in Process, Only(p), mem'[p] = mem[p], pc'[p] # "clear",
           UNCHANGED <<journal, tree, published>>
    PROVE  Evident'
<1>1. RecoveryUnderWay => RecoveryUnderWay'
  BY DEF RecoveryUnderWay, Recovering, Running, At, Only
<1>2. (AllWhole' <=> AllWhole) /\ Unresolved' = Unresolved
  BY SameWhole, Settled
<1> QED
  BY <1>1, <1>2 DEF World, Evident

\* A process that was not recovering ends.
LEMMA EndsWorld ==
    ASSUME Typed, World, NEW p \in Process, Ends(p), ~Recovering(p) \/ pc[p] = "clear",
           UNCHANGED <<journal, tree, authority, localMain, retained, published>>
    PROVE  World'
<1>1. RecoveryUnderWay => RecoveryUnderWay'
  BY DEF RecoveryUnderWay, Recovering, Running, At, Ends, Only
<1>2. (AllWhole' <=> AllWhole) /\ Unresolved' = Unresolved
  BY SameWhole, Settled
<1>3. Evident'
  BY <1>1, <1>2 DEF World, Evident
<1>4. Only(p) /\ BodyOf(p)'
  BY OutsideBody DEF Ends
<1> QED
  BY <1>3, <1>4, QuietWorld

\* An invocation leaves the records alone.
LEMMA InvokeWorld ==
    ASSUME Typed, World, Takes("quiet"), NEW p \in Process, NEW i \in Integration,
           NEW command \in {"integration.promote", "integration.abandon", "acceptance.record"},
           Invoke(p, command, i)
    PROVE  World'
<1>1. /\ Only(p) /\ pc'[p] = "acquire"
      /\ UNCHANGED <<journal, tree, authority, localMain, retained, published>>
  BY InvokeEffect DEF Typed, controlVars, worldVars
<1>2. ~RecoveryUnderWay
  BY DEF Invoke, RecoveryUnderWay
<1>3. (AllWhole' <=> AllWhole) /\ Unresolved' = Unresolved
  BY <1>1, SameWhole, Settled
<1>4. Evident'
  BY <1>2, <1>3 DEF World, Evident
<1>5. BodyOf(p)'
  BY <1>1, OutsideBody
<1> QED
  BY <1>1, <1>4, <1>5, QuietWorld

\* A step of a body that writes no more than the log, if that, and moves no
\* branch.
LEMMA SteadyWorld ==
    ASSUME Typed, Control, Control', World, NEW p \in Process, pc[p] \in Live,
           pc'[p] \in Live, Only(p), tree'.status = tree.status, tree'.card = tree.card,
           UNCHANGED <<authority, localMain, retained, published>>,
           AllWhole => BodyOf(p)', ~AllWhole => BodyOf(p)'
    PROVE  World'
  BY SameStatus, LiveWorld

\* So does what happens around the commands.
LEMMA StillWorld ==
    ASSUME World, UNCHANGED <<journal, tree, pc, op, mem, outcome, target, found,
                              authority, localMain, retained, published>>
    PROVE  World'
<1>1. OneLanding' /\ Kept' /\ (AllWhole' <=> AllWhole) /\ Unresolved' = Unresolved
  BY SameStatus, SameWhole, Settled
<1>2. Evident'
  BY <1>1 DEF World, Evident, RecoveryUnderWay, Recovering, Running, At
<1>3. ASSUME NEW p \in Process PROVE BodyOf(p)'
  BY <1>1 DEF World, BodyOf, Promoting, Recovering, Running
<1> QED
  BY <1>1, <1>2, <1>3 DEF World

\* Every step keeps what the records say of what was published.
LEMMA WorldStep ==
    ASSUME Careful, Typed, Control, Control', World, [Next]_vars
    PROVE  World'
<1>a. /\ TypeOK /\ Assigned /\ tree \in Records
      /\ Takes("quiet") /\ Takes("shielded") /\ Takes("exclusive")
  BY DEF Typed, TypeOK, Takes, Careful
<1>b. ASSUME NEW p \in Process
      PROVE  /\ mem[p] \in Record(Command, Records)
             /\ AssignedTo(p) /\ ControlOf(p) /\ BodyOf(p)
  BY <1>a DEF TypeOK, Assigned, Control, World
<1>0. CASE UNCHANGED vars
  <2>1. UNCHANGED <<journal, tree, pc, op, mem, outcome, target, found,
                    authority, localMain, retained, published>>
    BY <1>0 DEF vars, controlVars, processVars, worldVars, localVars
  <2> QED
    BY <2>1, StillWorld
<1>1. ASSUME NEW p \in Process, NEW i \in Integration, CallPromote(p, i)
      PROVE  World'
  <2>1. Invoke(p, "integration.promote", i)
    BY <1>1 DEF CallPromote
  <2> QED
    BY <1>a, <2>1, InvokeWorld
<1>2. ASSUME NEW p \in Process, NEW i \in Integration, CallAbandon(p, i)
      PROVE  World'
  <2>1. Invoke(p, "integration.abandon", i)
    BY <1>2 DEF CallAbandon
  <2> QED
    BY <1>a, <2>1, InvokeWorld
<1>3. ASSUME NEW p \in Process, NEW i \in Integration, CallAccept(p, i)
      PROVE  World'
  <2>1. Invoke(p, "acceptance.record", i)
    BY <1>3 DEF CallAccept
  <2> QED
    BY <1>a, <2>1, InvokeWorld
<1>4. ASSUME NEW p \in Process, StartRecovery(p)
      PROVE  World'
  <2>1. /\ Only(p) /\ pc'[p] = "clear"
        /\ UNCHANGED <<journal, tree, authority, localMain, retained, published>>
    BY <1>a, <1>4, StartRecoveryEffect DEF controlVars, worldVars
  <2>a. \A q \in Process : pc[q] = "idle"
    BY <1>a, <1>4 DEF StartRecovery, At
  <2>2. ~RecoveryUnderWay
    BY <1>b, <2>a, NoRecordTells DEF RecoveryUnderWay, Recovering, Running, AssignedTo
  <2>3. (AllWhole' <=> AllWhole) /\ Unresolved' = Unresolved
    BY <2>1, SameWhole, Settled
  <2>4. Evident'
    BY <2>2, <2>3 DEF World, Evident
  <2>5. BodyOf(p)'
    BY <2>1, OutsideBody
  <2> QED
    BY <2>1, <2>4, <2>5, QuietWorld
<1>5. ASSUME NEW p \in Process, Acquire(p), UNCHANGED <<worldVars, localVars, calls, faults>>
      PROVE  World'
  <2>1. /\ Only(p) /\ pc'[p] = "settled?" /\ mem'[p] = mem[p]
        /\ UNCHANGED <<journal, tree, authority, localMain, retained, published>>
    BY <1>a, <1>5, OpeningEffect DEF Steps, Acquire, worldVars
  <2>2. Evident'
    BY <2>1, EvidentStays
  <2>3. BodyOf(p)'
    BY <2>1, OutsideBody
  <2> QED
    BY <2>1, <2>2, <2>3, QuietWorld
<1>6. ASSUME NEW p \in Process, RefusedLock(p),
             UNCHANGED <<worldVars, localVars, calls, faults>>
      PROVE  World'
  <2>1. /\ pc[p] = "acquire" /\ lock # Free /\ Ends(p)
        /\ UNCHANGED <<journal, tree, authority, localMain, retained, published>>
    BY <1>a, <1>6, OpeningEffect DEF RefusedLock, controlVars, worldVars
  <2>2. ~Recovering(p)
    BY <1>b, <2>1 DEF ControlOf, RecoveryGoes
  <2> QED
    BY <2>1, <2>2, EndsWorld
<1>7. ASSUME NEW p \in Process, RequireSettled(p),
             UNCHANGED <<worldVars, localVars, calls, faults>>
      PROVE  World'
  <2>1. /\ Only(p) /\ mem'[p] = mem[p]
        /\ pc'[p] = IF Unresolved = {} THEN "hygiene" ELSE "release"
        /\ UNCHANGED <<journal, tree, authority, localMain, retained, published>>
    BY <1>a, <1>7, OpeningEffect DEF Steps, RequireSettled, controlVars, worldVars
  <2>2. Evident'
    BY <2>1, EvidentStays
  <2>3. BodyOf(p)'
    BY <2>1, Settled DEF BodyOf, Live, BodySteps
  <2> QED
    BY <2>1, <2>2, <2>3, QuietWorld
<1>8. ASSUME NEW p \in Process, Hygiene(p), UNCHANGED <<worldVars, localVars, calls, faults>>
      PROVE  World'
  <2>1. /\ Only(p) /\ mem'[p] = mem[p]
        /\ \/ pc[p] = "hygiene" /\ pc'[p] = IF indexLock THEN "release" ELSE "quarantine"
           \/ pc'[p] = "begin"
        /\ UNCHANGED <<journal, tree, authority, localMain, retained, published>>
    BY <1>a, <1>8, OpeningEffect DEF Steps, Hygiene, worldVars
  <2>2. pc'[p] = "release" => ~Recovering(p)'
    BY <1>b, <2>1 DEF ControlOf, RecoveryGoes, Recovering, Running
  <2>3. Evident'
    BY <2>1, EvidentStays
  <2>4. BodyOf(p)'
    BY <2>1, <2>2 DEF BodyOf, Live, BodySteps
  <2> QED
    BY <2>1, <2>3, <2>4, QuietWorld
<1>9. ASSUME NEW p \in Process, Begin(p), UNCHANGED <<worldVars, localVars, calls, faults>>
      PROVE  World'
  <2>1. PICK n \in OpId :
            /\ pc[p] = "begin" /\ pc'[p] = "body" /\ Only(p) /\ op'[p] = n
            /\ mem'[p] = [mem[p] EXCEPT !.state = "started", !.head = committed]
            /\ journal' = [journal EXCEPT ![n] = mem'[p]]
    BY <1>a, <1>9, BeginEffect
  <2>2. UNCHANGED <<tree, authority, localMain, retained, published>>
    BY <1>9 DEF Begin, worldVars
  <2>3. mem'[p].command = mem[p].command /\ mem'[p].state = "started"
    BY <1>b, <2>1, Fields
  <2>4. Unresolved = {} /\ pc[p] \in Inside /\ ~At(p, "clear")
    BY <1>b, <2>1 DEF ControlOf, Inside, At
  <2>5. RecoveryUnderWay => Recovering(p)
    BY <2>4, Alone DEF RecoveryUnderWay
  <2>6. ~Recovering(p) => AllWhole
    BY <2>4, <2>5 DEF World, Evident
  <2>7. AllWhole' <=> AllWhole
    BY <2>2, SameWhole
  <2>8. journal'[n] = mem'[p] /\ Unresolved' # {}
    BY <1>a, <2>1, <2>3 DEF TypeOK, Unresolved, NeedsRecovery
  <2>9. BodyOf(p)'
    BY <2>1, <2>3, <2>6, <2>7
    DEF BodyOf, Promoting, Recovering, Running, Live, BodySteps
  <2> QED
    BY <2>1, <2>2, <2>4, <2>8, <2>9, SameStatus, InsideWorld DEF Evident
<1>10. ASSUME NEW p \in Process, RecordAcceptance(p)
      PROVE  World'
  <2>1. /\ pc[p] = "body" /\ Running(p, "acceptance.record") /\ Only(p)
        /\ mem'[p] = mem[p] /\ target'[p] = target[p]
        /\ UNCHANGED <<authority, localMain, retained, published>>
        /\ \/ /\ pc'[p] = "accept" /\ tree.status[target[p]] = "reviewed"
              /\ tree' = [tree EXCEPT !.decision[target[p]] = "accepted"]
           \/ pc'[p] = "event" /\ tree' = [tree EXCEPT !.decision[target[p]] = "rejected"]
           \/ pc'[p] = "finish" /\ UNCHANGED tree
    BY <1>a, <1>10, RecordAcceptanceEffect DEF Steps, Returns, worldVars
  <2>2. target[p] \in Integration /\ ~Promoting(p) /\ ~Recovering(p)
    BY <1>b, <2>1 DEF AssignedTo, Recovering, Running, Promoting
  <2>3. tree'.status = tree.status /\ tree'.card = tree.card
    BY <1>a, <2>1, <2>2, TreeAfter
  <2>4. AllWhole /\ AllWhole'
    BY <1>b, <2>1, <2>2, <2>3, SameWhole DEF BodyOf, Live, BodySteps
  <2>5. BodyOf(p)'
    BY <2>1, <2>2, <2>3, <2>4 DEF BodyOf, Recovering, Running, Promoting
  <2> QED
    BY <2>1, <2>3, <2>5, SteadyWorld DEF Live, BodySteps
<1>11. ASSUME NEW p \in Process, MarkAccepted(p)
      PROVE  World'
  <2>1. /\ pc[p] = "accept" /\ pc'[p] = "accept cards" /\ Only(p)
        /\ mem'[p] = mem[p] /\ target'[p] = target[p]
        /\ tree' = [tree EXCEPT !.status[target[p]] = "accepted"]
        /\ UNCHANGED <<authority, localMain, retained, published>>
    BY <1>a, <1>11, MarkAcceptedEffect DEF Steps, worldVars
  <2>2. /\ target[p] \in Integration /\ ~Promoting(p) /\ ~Recovering(p)
        /\ tree.status[target[p]] = "reviewed"
    BY <1>b, <2>1 DEF AssignedTo, Recovering, Running, Promoting, BodyOf
  <2>3. /\ tree'.status[target[p]] = "accepted" /\ tree'.card = tree.card
        /\ \A j \in Integration : j # target[p] => tree'.status[j] = tree.status[j]
    BY <1>a, <2>1, <2>2, TreeAfter
  <2>4. target[p] \notin published /\ published \subseteq Integration
    BY <1>a, <2>2 DEF World, Kept, TypeOK
  <2>5. AllWhole'
    <3>1. AllWhole
      BY <1>b, <2>1, <2>2 DEF BodyOf, Live, BodySteps
    <3> QED
      BY <2>1, <2>2, <2>3, <2>4, <3>1, OtherWhole
  <2>6. OneLanding' /\ Kept'
    BY <2>1, <2>2, <2>3, <2>4 DEF World, OneLanding, Kept
  <2>7. BodyOf(p)'
    BY <2>1, <2>2, <2>5 DEF BodyOf, Recovering, Running, Promoting
  <2> QED
    BY <2>1, <2>6, <2>7, LiveWorld DEF Live, BodySteps
<1>12. ASSUME NEW p \in Process, AcceptCard(p)
      PROVE  World'
  <2>1. /\ pc[p] = "accept cards" /\ pc'[p] \in {"event", "finish", "accept cards"}
        /\ Only(p) /\ mem'[p] = mem[p] /\ target'[p] = target[p]
        /\ UNCHANGED <<authority, localMain, retained, published>>
        /\ \/ UNCHANGED tree
           \/ \E c \in Members[target[p]] :
                 tree.card[c] = "integrating" /\ tree' = [tree EXCEPT !.card[c] = "accepted"]
    BY <1>a, <1>12, AcceptCardEffect DEF Steps, Returns, worldVars
  <2>2. target[p] \in Integration /\ ~Promoting(p) /\ ~Recovering(p)
    BY <1>b, <2>1 DEF AssignedTo, Recovering, Running, Promoting
  <2>3. /\ tree'.status = tree.status
        /\ \A b \in Card : tree.card[b] = "landed" => tree'.card[b] = "landed"
    <3>1. CASE UNCHANGED tree
      BY <3>1
    <3>2. ASSUME NEW c \in Members[target[p]], tree.card[c] = "integrating",
                 tree' = [tree EXCEPT !.card[c] = "accepted"]
          PROVE  /\ tree'.status = tree.status
                 /\ \A b \in Card : tree.card[b] = "landed" => tree'.card[b] = "landed"
      BY <1>a, <2>2, <3>2, TreeAfter
    <3> QED
      BY <2>1, <3>1, <3>2
  <2>4. AllWhole
    BY <1>b, <2>1, <2>2 DEF BodyOf, Live, BodySteps
  <2>5. AllWhole'
    BY <1>a, <2>1, <2>3, <2>4, LandedStays DEF TypeOK
  <2>6. BodyOf(p)'
    BY <2>1, <2>2, <2>5 DEF BodyOf, Recovering, Running, Promoting
  <2> QED
    BY <2>1, <2>3, <2>6, SameStatus, LiveWorld DEF Live, BodySteps
<1>13. ASSUME NEW p \in Process, MarkAbandoned(p)
      PROVE  World'
  <2>1. /\ pc[p] = "body" /\ Running(p, "integration.abandon") /\ Only(p)
        /\ mem'[p] = mem[p] /\ target'[p] = target[p]
        /\ UNCHANGED <<authority, localMain, retained, published>>
        /\ \/ /\ pc'[p] = "return cards" /\ tree.status[target[p]] \in {"reviewed", "accepted"}
              /\ tree' = [tree EXCEPT !.status[target[p]] = "abandoned"]
           \/ pc'[p] = "finish" /\ UNCHANGED tree
    BY <1>a, <1>13, MarkAbandonedEffect DEF Steps, Returns, worldVars
  <2>2. target[p] \in Integration /\ ~Promoting(p) /\ ~Recovering(p)
    BY <1>b, <2>1 DEF AssignedTo, Recovering, Running, Promoting
  <2>3. AllWhole
    BY <1>b, <2>1, <2>2 DEF BodyOf, Live, BodySteps
  <2>4. CASE pc'[p] = "finish" /\ UNCHANGED tree
    <3>1. BodyOf(p)'
      BY <2>1, <2>2, <2>3, <2>4, SameWhole DEF BodyOf, Recovering, Running, Promoting
    <3> QED
      BY <2>1, <2>4, <3>1, SteadyWorld DEF Live, BodySteps
  <2>5. CASE /\ pc'[p] = "return cards" /\ tree.status[target[p]] \in {"reviewed", "accepted"}
             /\ tree' = [tree EXCEPT !.status[target[p]] = "abandoned"]
    <3>1. /\ tree'.status[target[p]] = "abandoned" /\ tree'.card = tree.card
          /\ \A j \in Integration : j # target[p] => tree'.status[j] = tree.status[j]
      BY <1>a, <2>2, <2>5, TreeAfter
    <3>2. target[p] \notin published /\ published \subseteq Integration
      BY <1>a, <2>3, <2>5 DEF AllWhole, Recorded, TypeOK
    <3>3. AllWhole'
      BY <2>1, <2>2, <2>3, <3>1, <3>2, OtherWhole
    <3>4. OneLanding' /\ Kept'
      BY <2>1, <3>1, <3>2 DEF World, OneLanding, Kept
    <3>5. BodyOf(p)'
      BY <2>1, <2>2, <2>5, <3>1, <3>3 DEF BodyOf, Recovering, Running, Promoting
    <3> QED
      BY <2>1, <2>5, <3>4, <3>5, LiveWorld DEF Live, BodySteps
  <2> QED
    BY <2>1, <2>4, <2>5
<1>14. ASSUME NEW p \in Process, ReturnCard(p)
      PROVE  World'
  <2>1. /\ pc[p] = "return cards" /\ pc'[p] \in {"event", "return cards"}
        /\ Only(p) /\ mem'[p] = mem[p] /\ target'[p] = target[p]
        /\ UNCHANGED <<authority, localMain, published>>
        /\ \/ UNCHANGED tree /\ retained' = retained \ {target[p]}
           \/ /\ UNCHANGED retained
              /\ \E c \in Members[target[p]] :
                    tree.card[c] = "integrating" /\ tree' = [tree EXCEPT !.card[c] = "approved"]
    BY <1>a, <1>14, ReturnCardEffect DEF Steps
  <2>2. /\ target[p] \in Integration /\ ~Promoting(p) /\ ~Recovering(p)
        /\ tree.status[target[p]] = "abandoned"
    BY <1>b, <2>1 DEF AssignedTo, Recovering, Running, Promoting, BodyOf
  <2>3. /\ tree'.status = tree.status
        /\ \A b \in Card : tree.card[b] = "landed" => tree'.card[b] = "landed"
    <3>1. CASE UNCHANGED tree
      BY <3>1
    <3>2. ASSUME NEW c \in Members[target[p]], tree.card[c] = "integrating",
                 tree' = [tree EXCEPT !.card[c] = "approved"]
          PROVE  /\ tree'.status = tree.status
                 /\ \A b \in Card : tree.card[b] = "landed" => tree'.card[b] = "landed"
      BY <1>a, <2>2, <3>2, TreeAfter
    <3> QED
      BY <2>1, <3>1, <3>2
  <2>4. AllWhole
    BY <1>b, <2>1, <2>2 DEF BodyOf, Live, BodySteps
  <2>5. AllWhole'
    BY <1>a, <2>1, <2>3, <2>4, LandedStays DEF TypeOK
  <2>6. OneLanding' /\ Kept'
    BY <2>1, <2>2, <2>3 DEF World, OneLanding, Kept
  <2>7. BodyOf(p)'
    BY <2>1, <2>2, <2>3, <2>5 DEF BodyOf, Recovering, Running, Promoting
  <2> QED
    BY <2>1, <2>6, <2>7, LiveWorld DEF Live, BodySteps
<1>15. ASSUME NEW p \in Process, AnnouncePublish(p)
      PROVE  World'
  <2>1. /\ pc[p] = "body" /\ Running(p, "integration.promote") /\ Only(p)
        /\ target'[p] = target[p]
        /\ UNCHANGED <<tree, authority, localMain, retained, published>>
        /\ \/ /\ pc'[p] = "publish" /\ CheckPromotion(target[p])
              /\ mem'[p] = OutsideControl(mem[p])
           \/ pc'[p] = "finish" /\ mem'[p] = mem[p]
    BY <1>a, <1>15, AnnouncePublishEffect DEF Steps, Returns, worldVars
  <2>2. /\ mem'[p].command = "integration.promote"
        /\ pc'[p] = "publish" => mem'[p].outside
    BY <1>b, <2>1, Fields DEF Running
  <2>3. pc'[p] = "publish" => tree.status[target[p]] = "accepted"
    BY <2>1 DEF CheckPromotion
  <2>4. AllWhole /\ (AllWhole' <=> AllWhole)
    BY <1>b, <2>1, SameWhole DEF BodyOf
  <2>5. BodyOf(p)'
    BY <2>1, <2>2, <2>3, <2>4 DEF BodyOf, Promoting, Recovering, Running
  <2> QED
    BY <2>1, <2>5, SteadyWorld DEF Live, BodySteps
<1>16. ASSUME NEW p \in Process, Publish(p)
      PROVE  World'
  <2>1. /\ pc[p] = "publish" /\ Only(p) /\ mem'[p] = mem[p] /\ target'[p] = target[p]
        /\ UNCHANGED <<tree, localMain, retained>>
        /\ \/ /\ pc'[p] = "published" /\ authority = Baseline /\ authority' = target[p]
              /\ published' = published \cup {target[p]}
           \/ pc'[p] = "finish" /\ outcome'[p] = "error" /\ UNCHANGED <<authority, published>>
    BY <1>a, <1>16, PublishEffect DEF Steps, Returns, controlVars
  <2>2. /\ target[p] \in Integration /\ Running(p, "integration.promote") /\ Promoting(p)
        /\ mem[p].outside /\ tree.status[target[p]] = "accepted"
    BY <1>b, <2>1 DEF AssignedTo, Recovering, Running, Promoting, BodyOf
  <2>3. CASE /\ pc'[p] = "finish" /\ outcome'[p] = "error"
             /\ UNCHANGED <<authority, published>>
    <3>1. BodyOf(p)'
      BY <2>1, <2>2, <2>3 DEF BodyOf, Promoting, Recovering, Running
    <3> QED
      BY <2>1, <2>3, <3>1, SteadyWorld DEF Live, BodySteps
  <2>4. CASE /\ pc'[p] = "published" /\ authority = Baseline /\ authority' = target[p]
             /\ published' = published \cup {target[p]}
    <3>1. published = {} /\ published' = {target[p]}
      BY <2>4, PromotionAssumption DEF World, OneLanding
    <3>2. OneLanding'
      BY <2>1, <2>2, <2>4, <3>1 DEF World, OneLanding
    <3>3. Kept'
      BY <2>1, <2>2, <3>1 DEF World, Kept
    <3>4. BodyOf(p)'
      BY <2>1, <2>2, <2>4, <3>1 DEF BodyOf, Promoting, Recovering, Running
    <3> QED
      BY <2>1, <2>4, <3>2, <3>3, <3>4, LiveWorld DEF Live, BodySteps
  <2> QED
    BY <2>1, <2>3, <2>4
<1>17. ASSUME NEW p \in Process, Published(p)
      PROVE  World'
  <2>1. /\ pc[p] = "published" /\ pc'[p] = "sync" /\ Only(p) /\ target'[p] = target[p]
        /\ mem'[p] = OutsideControl(mem[p])
        /\ UNCHANGED <<tree, authority, localMain, retained, published>>
    BY <1>a, <1>17, PublishedEffect DEF Announces, worldVars
  <2>2. mem'[p].command = mem[p].command /\ mem'[p].outside
    BY <1>b, <2>1, Fields
  <2>4. mem[p].command = "integration.promote" /\ target[p] \in published
    BY <1>b, <2>1 DEF AssignedTo, Running, BodyOf
  <2>3. BodyOf(p)'
    BY <2>1, <2>2, <2>4 DEF BodyOf, Promoting, Recovering, Running
  <2> QED
    BY <2>1, <2>3, SteadyWorld DEF Live, BodySteps
<1>18. ASSUME NEW p \in Process, SyncLocalMain(p)
      PROVE  World'
  <2>1. /\ pc[p] = "sync" /\ pc'[p] \in {"mark", "finish"} /\ Only(p)
        /\ target'[p] = target[p] /\ mem'[p] = OutsideControl(mem[p])
        /\ UNCHANGED <<tree, authority, retained, published>>
        /\ localMain' \in {localMain, target[p]}
        /\ pc'[p] = "finish" => outcome'[p] = "recovery"
    BY <1>a, <1>18, SyncLocalMainEffect DEF Announces
  <2>0. mem'[p].command = mem[p].command /\ mem'[p].outside
    BY <1>b, <2>1, Fields
  <2>2. Promoting(p) /\ target[p] \in published
    BY <1>b, <2>1 DEF AssignedTo, Promoting, BodyOf
  <2>3. BodyOf(p)'
    BY <2>0, <2>1, <2>2 DEF BodyOf, Promoting, Recovering, Running
  <2>4. OneLanding' /\ Kept'
    BY <2>1, <2>2 DEF World, OneLanding, Kept
  <2> QED
    BY <2>1, <2>3, <2>4, LiveWorld DEF Live, BodySteps
<1>19. ASSUME NEW p \in Process, MarkPromoted(p)
      PROVE  World'
  <2>1. /\ pc[p] = "mark" /\ pc'[p] = "land" /\ Only(p)
        /\ mem'[p] = mem[p] /\ target'[p] = target[p]
        /\ tree' = [tree EXCEPT !.status[target[p]] = "promoted"]
        /\ UNCHANGED <<authority, localMain, retained, published>>
    BY <1>a, <1>19, MarkPromotedEffect DEF Steps, worldVars
  <2>2. /\ target[p] \in Integration /\ Promoting(p) /\ mem[p].outside
        /\ target[p] \in published
    BY <1>b, <2>1 DEF AssignedTo, Promoting, BodyOf
  <2>3. /\ tree'.status[target[p]] = "promoted"
        /\ \A j \in Integration : j # target[p] => tree'.status[j] = tree.status[j]
    BY <1>a, <2>1, <2>2, TreeAfter
  <2>4. OneLanding'
    BY <2>1 DEF World, OneLanding
  <2>5. target[p] \in retained
    BY <2>2 DEF World, Kept
  <2>6. Kept'
    BY <1>a, <2>1, <2>2, <2>3, <2>5 DEF World, Kept, TypeOK
  <2>7. BodyOf(p)'
    BY <2>1, <2>2, <2>3 DEF BodyOf, Promoting, Recovering, Running
  <2> QED
    BY <2>1, <2>4, <2>6, <2>7, LiveWorld DEF Live, BodySteps
<1>20. ASSUME NEW p \in Process, LandCard(p)
      PROVE  World'
  <2>1. /\ pc[p] = "land" /\ Only(p) /\ mem'[p] = mem[p] /\ target'[p] = target[p]
        /\ UNCHANGED <<authority, localMain, retained, published>>
        /\ \/ /\ pc'[p] = "event" /\ UNCHANGED tree
              /\ \A c \in Members[target[p]] : tree.card[c] = "landed"
           \/ pc'[p] = "finish" /\ UNCHANGED tree /\ outcome'[p] = "error"
           \/ /\ pc'[p] = "land"
              /\ \E c \in Members[target[p]] : tree' = [tree EXCEPT !.card[c] = "landed"]
    BY <1>a, <1>20, LandCardEffect DEF Steps, Returns, worldVars
  <2>2. /\ target[p] \in Integration /\ Promoting(p) /\ mem[p].outside
        /\ target[p] \in published /\ tree.status[target[p]] = "promoted"
    BY <1>b, <2>1 DEF AssignedTo, Promoting, BodyOf
  <2>3. tree'.status = tree.status
    <3>1. ASSUME NEW c \in Members[target[p]], tree' = [tree EXCEPT !.card[c] = "landed"]
          PROVE  tree'.status = tree.status
      BY <1>a, <2>2, <3>1, TreeAfter
    <3> QED
      BY <2>1, <3>1
  <2>4. pc'[p] = "event" => AllWhole'
    <3>1. published = {target[p]}
      BY <2>2 DEF World, OneLanding
    <3> QED
      BY <2>1, <2>2, <3>1 DEF AllWhole, Recorded
  <2>5. BodyOf(p)'
    BY <2>1, <2>2, <2>3, <2>4 DEF BodyOf, Promoting, Recovering, Running
  <2> QED
    BY <2>1, <2>3, <2>5, SameStatus, LiveWorld DEF Live, BodySteps
<1>21. ASSUME NEW p \in Process, ClearLock(p)
      PROVE  World'
  <2>1. /\ pc[p] = "clear" /\ (Ends(p) \/ Steps(p, "settle"))
        /\ UNCHANGED <<journal, tree, authority, localMain, retained, published>>
    BY <1>a, <1>21, ClearLockEffect DEF worldVars
  <2>2. CASE Ends(p)
    BY <2>1, <2>2, EndsWorld
  <2>3. CASE Steps(p, "settle")
    <3>1. Only(p) /\ pc'[p] = "settle" /\ mem'[p] = mem[p]
      BY <2>3 DEF Steps
    <3>2. Evident' /\ BodyOf(p)'
      BY <2>1, <3>1, EvidentStays, OutsideBody
    <3> QED
      BY <2>1, <3>1, <3>2, QuietWorld
  <2> QED
    BY <2>1, <2>2, <2>3
<1>22. ASSUME NEW p \in Process, SettleFound(p)
      PROVE  World'
  <2>1. /\ pc[p] = "settle" /\ pc'[p] \in {"acquire", "settle"} /\ Only(p)
        /\ mem'[p] = mem[p]
        /\ UNCHANGED <<tree, authority, localMain, retained, published>>
    BY <1>a, <1>22, SettleFoundEffect DEF worldVars
  <2>2. Recovering(p) /\ RecoveryGoes(p)
    BY <1>b, <2>1 DEF AssignedTo, ControlOf
  <2>3. Evident'
    BY <2>1, <2>2 DEF Evident, RecoveryUnderWay, Recovering, Running, At
  <2>4. OneLanding' /\ Kept'
    BY <2>1, SameStatus
  <2>5. BodyOf(p)'
    BY <2>1 DEF BodyOf, Live, BodySteps
  <2>6. ASSUME NEW q \in Process, q # p PROVE BodyOf(q)'
    <3>1. pc'[q] = "idle"
      BY <2>1, <2>2, <2>6 DEF RecoveryGoes, Only
    <3> QED
      BY <3>1 DEF BodyOf, Live, BodySteps
  <2> QED
    BY <2>3, <2>4, <2>5, <2>6 DEF World
<1>23. ASSUME NEW p \in Process, Resume(p)
      PROVE  World'
  <2>1. /\ pc[p] = "body" /\ Recovering(p) /\ Only(p) /\ mem'[p] = mem[p]
        /\ UNCHANGED <<tree, authority, localMain, retained, published>>
        /\ \/ \E i \in Integration : Resumable(i) /\ pc'[p] = "sync" /\ target'[p] = i
           \/ /\ \A i \in Integration : ~Resumable(i)
              /\ pc'[p] = "finish" /\ outcome'[p] = "ok"
    BY <1>a, <1>23, ResumeEffect DEF Steps, Returns, controlVars, worldVars
  <2>2. pc'[p] = "sync" => target'[p] \in published
    BY <2>1 DEF Resumable, World, OneLanding
  <2>3. pc'[p] = "finish" => AllWhole'
    BY <1>a, <2>1 DEF Resumable, World, OneLanding, Kept, AllWhole, Recorded, TypeOK
  <2>4. BodyOf(p)'
    BY <2>1, <2>2, <2>3 DEF BodyOf, Promoting, Recovering, Running
  <2> QED
    BY <2>1, <2>4, SteadyWorld DEF Live, BodySteps
<1>24. ASSUME NEW p \in Process, AppendEvent(p)
      PROVE  World'
  <2>1. /\ pc[p] = "event" /\ pc'[p] = "stage" /\ Only(p) /\ mem'[p] = mem[p]
        /\ tree' = Logged(tree, EventOf[mem[p].command], target[p])
        /\ UNCHANGED <<authority, localMain, retained, published>>
    BY <1>a, <1>24, AppendEventEffect DEF Steps, worldVars
  <2>2. target[p] \in Integration
    BY <1>b, <2>1 DEF AssignedTo
  <2>3. tree'.status = tree.status /\ tree'.card = tree.card
    BY <1>a, <2>1, <2>2, TreeAfter
  <2>4. AllWhole'
    BY <1>b, <2>1, <2>3, SameWhole DEF BodyOf
  <2>5. BodyOf(p)'
    BY <2>1, <2>4 DEF BodyOf
  <2> QED
    BY <2>1, <2>3, <2>5, SteadyWorld DEF Live, BodySteps
<1>25. ASSUME NEW p \in Process, Stage(p)
      PROVE  World'
  <2>1. /\ pc[p] = "stage" /\ pc'[p] \in {"commit", "finish"} /\ Only(p) /\ mem'[p] = mem[p]
        /\ UNCHANGED <<tree, authority, localMain, retained, published>>
    BY <1>a, <1>25, StageEffect DEF Steps, Returns, worldVars
  <2>2. AllWhole'
    BY <1>b, <2>1, SameWhole DEF BodyOf
  <2>3. BodyOf(p)'
    BY <2>1, <2>2 DEF BodyOf
  <2> QED
    BY <2>1, <2>3, SteadyWorld DEF Live, BodySteps
<1>26. ASSUME NEW p \in Process, CommitRecords(p)
      PROVE  World'
  <2>1. /\ pc[p] = "commit" /\ pc'[p] = "finish" /\ Only(p) /\ mem'[p] = mem[p]
        /\ UNCHANGED <<tree, authority, localMain, retained, published>>
    BY <1>a, <1>26, CommitRecordsEffect DEF Steps, Returns, worldVars
  <2>2. AllWhole'
    BY <1>b, <2>1, SameWhole DEF BodyOf
  <2>3. BodyOf(p)'
    BY <2>1, <2>2 DEF BodyOf
  <2> QED
    BY <2>1, <2>3, SteadyWorld DEF Live, BodySteps
<1>27. ASSUME NEW p \in Process, Finish(p), SameWorld
      PROVE  World'
  <2>1. /\ pc[p] = "finish" /\ pc'[p] = "release" /\ Only(p) /\ mem'[p] = mem[p]
        /\ UNCHANGED <<tree, authority, localMain, retained, published>>
        /\ \E state \in {"completed", "failed_clean", "failed_partial"} :
              /\ journal' = [journal EXCEPT ![op[p]] = Finished(p, mem[p], state)]
              /\ state = "completed" => outcome[p] = "ok"
              /\ state = "failed_clean" => outcome[p] # "recovery" /\ ~mem[p].outside
    BY <1>a, <1>27, FinishEffect DEF Steps, worldVars
  <2>2. pc[p] \in Live /\ pc[p] \in Inside
    BY <2>1 DEF Inside, Live
  <2>3. op[p] \in OpId
    BY <2>2, OwnEntry
  <2>4. AllWhole' <=> AllWhole
    BY <2>1, SameWhole
  <2>5. AllWhole \/ Unresolved' # {}
    <3>1. SUFFICES ASSUME ~AllWhole PROVE Unresolved' # {}
      OBVIOUS
    <3>2. outcome[p] # "ok" /\ (mem[p].outside \/ outcome[p] = "recovery")
      BY <1>b, <2>1, <3>1 DEF BodyOf
    <3>3. journal' = [journal EXCEPT ![op[p]] = Finished(p, mem[p], "failed_partial")]
      BY <2>1, <3>2
    <3>4. journal'[op[p]].state = "failed_partial"
      BY <1>a, <1>b, <2>3, <3>3, Fields DEF TypeOK
    <3> QED
      BY <2>3, <3>4 DEF Unresolved, NeedsRecovery
  <2>6. BodyOf(p)'
    BY <2>1, <2>4, <2>5 DEF BodyOf, Live, BodySteps
  <2> QED
    BY <2>1, <2>2, <2>4, <2>5, <2>6, SameStatus, InsideWorld DEF Evident
<1>28. ASSUME NEW p \in Process, End(p)
      PROVE  World'
  <2>1. /\ pc[p] = "release" /\ Ends(p)
        /\ UNCHANGED <<journal, tree, authority, localMain, retained, published>>
    BY <1>a, <1>28, EndEffect DEF worldVars
  <2>2. CASE ~Recovering(p)
    BY <2>1, <2>2, EndsWorld
  <2>3. CASE Recovering(p)
    <3>1. (AllWhole' <=> AllWhole) /\ Unresolved' = Unresolved
      BY <2>1, SameWhole, Settled
    <3>2. Evident'
      BY <1>b, <2>1, <2>3, <3>1 DEF BodyOf, Evident
    <3>3. Only(p) /\ BodyOf(p)'
      BY <2>1, OutsideBody DEF Ends
    <3> QED
      BY <2>1, <3>2, <3>3, QuietWorld
  <2> QED
    BY <2>2, <2>3
<1>29. ASSUME NEW p \in Process, BodyFails(p)
      PROVE  World'
  <2>1. /\ pc[p] \in BodySteps /\ pc'[p] = "finish" /\ Only(p) /\ mem'[p] = mem[p]
        /\ outcome'[p] # "ok" /\ ~Exposed(p)
        /\ UNCHANGED <<tree, authority, localMain, retained, published>>
    BY <1>a, <1>29, BodyFailsEffect DEF Steps, Returns, controlVars, worldVars
  <2>2. AllWhole' <=> AllWhole
    BY <2>1, SameWhole
  <2>3. ~AllWhole => Promoting(p) /\ mem[p].outside
    <3>0. Recovering(p) => Promoting(p) /\ mem[p].outside
      BY <2>1 DEF Exposed, At, BodySteps, Promoting, Recovering, Running
    <3>1. SUFFICES ASSUME ~AllWhole, ~Recovering(p) PROVE Promoting(p) /\ mem[p].outside
      BY <3>0
    <3>2. Promoting(p)
      BY <1>b, <2>1, <3>1 DEF BodyOf, Live
    <3>3. Running(p, "integration.promote")
      BY <2>1, <3>1, <3>2 DEF Promoting, Recovering, Running
    <3>4. pc[p] \notin {"accept", "accept cards", "return cards"}
      BY <1>b, <3>3 DEF AssignedTo, Running
    <3> QED
      BY <1>b, <2>1, <3>1, <3>2, <3>3, <3>4 DEF BodyOf, BodySteps
  <2>4. BodyOf(p)'
    BY <2>1, <2>2, <2>3 DEF BodyOf, Promoting, Recovering, Running
  <2> QED
    BY <2>1, <2>4, SteadyWorld DEF Live
<1>30. ASSUME NEW p \in Process, Killed(p)
      PROVE  World'
  <2>1. /\ Ends(p) /\ ~Exposed(p) /\ pc[p] # "idle"
        /\ UNCHANGED <<journal, tree, authority, localMain, retained, published>>
    BY <1>a, <1>30, KilledEffect DEF worldVars
  <2>2. CASE ~Recovering(p) \/ pc[p] = "clear"
    BY <2>1, <2>2, EndsWorld
  <2>3. CASE Recovering(p) /\ pc[p] # "clear"
    <3>1. mem[p].outside
      BY <2>1, <2>3 DEF Exposed, At
    <3>2. pc[p] \in Live \cup {"release"}
      BY <1>a, <1>b, <2>1, <3>1 DEF AssignedTo, Unopened, TypeOK, Points, Live
    <3>3. AllWhole \/ Unresolved # {}
      <4>1. CASE pc[p] = "release"
        BY <1>b, <2>3, <4>1 DEF BodyOf
      <4>2. CASE pc[p] \in Live
        BY <4>2, OwnEntry
      <4> QED
        BY <3>2, <4>1, <4>2
    <3>4. (AllWhole' <=> AllWhole) /\ Unresolved' = Unresolved
      BY <2>1, SameWhole, Settled
    <3>5. Evident' /\ Only(p) /\ BodyOf(p)'
      BY <2>1, <3>3, <3>4, OutsideBody DEF Evident, Ends
    <3> QED
      BY <2>1, <3>5, QuietWorld
  <2> QED
    BY <2>2, <2>3
<1>31. CASE EditLocal
  <2>1. UNCHANGED <<journal, tree, pc, op, mem, outcome, target, found,
                    authority, localMain, retained, published>>
    BY <1>31 DEF EditLocal, controlVars, processVars, localVars
  <2> QED
    BY <2>1, StillWorld
<1>32. CASE TidyLocal
  <2>1. UNCHANGED <<journal, tree, pc, op, mem, outcome, target, found,
                    authority, localMain, retained, published>>
    BY <1>32 DEF TidyLocal, controlVars, processVars, localVars
  <2> QED
    BY <2>1, StillWorld
<1>33. CASE ForeignPush
  <2>1. /\ UNCHANGED <<journal, tree, pc, op, mem, outcome, target, found,
                       localMain, retained, published>>
        /\ authority = Baseline /\ authority' = Elsewhere
    BY <1>a, <1>33 DEF ForeignPush, controlVars, processVars, localVars
  <2>2. published = {} /\ OneLanding'
    BY <2>1, PromotionAssumption DEF World, OneLanding
  <2>3. Kept' /\ (AllWhole' <=> AllWhole)
    BY <2>1, SameWhole DEF World, Kept
  <2>4. Evident' /\ \A p \in Process : BodyOf(p)'
    BY ZenonT(60), <2>1, <2>2, <2>3, Settled
    DEF World, Evident, RecoveryUnderWay, BodyOf, Promoting, Recovering, Running, At
  <2> QED
    BY <2>2, <2>3, <2>4 DEF World
<1>34. CASE RemoveIndexLock
  <2>1. UNCHANGED <<journal, tree, pc, op, mem, outcome, target, found,
                    authority, localMain, retained, published>>
    BY <1>34 DEF RemoveIndexLock, processVars, worldVars, localVars
  <2> QED
    BY <2>1, StillWorld
<1> QED
  BY <1>0, <1>1, <1>2, <1>3, <1>4, <1>5, <1>6, <1>7, <1>8, <1>9, <1>10, <1>11, <1>12,
     <1>13, <1>14, <1>15, <1>16, <1>17, <1>18, <1>19, <1>20, <1>21, <1>22, <1>23,
     <1>24, <1>25, <1>26, <1>27, <1>28, <1>29, <1>30, <1>31, <1>32, <1>33, <1>34
  DEF Next, Work, Opening, SameWorld

(***************************************************************************)
(* Who writes what.                                                        *)
(***************************************************************************)

Writes(p) ==
    \/ RecordAcceptance(p) \/ MarkAccepted(p) \/ AcceptCard(p) \/ MarkAbandoned(p)
    \/ ReturnCard(p) \/ MarkPromoted(p) \/ LandCard(p) \/ AppendEvent(p)

\* The records, the commit and the branches each have their writers.
LEMMA Writers ==
    ASSUME TypeOK, [Next]_vars
    PROVE  /\ UNCHANGED tree \/ \E p \in Process : Writes(p)
           /\ UNCHANGED committed \/ \E p \in Process : CommitRecords(p)
           /\ UNCHANGED <<authority, published>> \/ ForeignPush \/ \E p \in Process : Publish(p)
           /\ UNCHANGED localMain \/ \E p \in Process : SyncLocalMain(p)
<1>0. CASE UNCHANGED vars
  BY <1>0 DEF vars, controlVars, worldVars
<1>1. ASSUME NEW p \in Process, NEW i \in Integration, CallPromote(p, i)
      PROVE  /\ UNCHANGED tree \/ Writes(p)
             /\ UNCHANGED committed \/ CommitRecords(p)
             /\ UNCHANGED <<authority, published>> \/ Publish(p)
             /\ UNCHANGED localMain \/ SyncLocalMain(p)
  BY <1>1 DEF CallPromote, Invoke, Call, controlVars, worldVars
<1>2. ASSUME NEW p \in Process, NEW i \in Integration, CallAbandon(p, i)
      PROVE  /\ UNCHANGED tree \/ Writes(p)
             /\ UNCHANGED committed \/ CommitRecords(p)
             /\ UNCHANGED <<authority, published>> \/ Publish(p)
             /\ UNCHANGED localMain \/ SyncLocalMain(p)
  BY <1>2 DEF CallAbandon, Invoke, Call, controlVars, worldVars
<1>3. ASSUME NEW p \in Process, NEW i \in Integration, CallAccept(p, i)
      PROVE  /\ UNCHANGED tree \/ Writes(p)
             /\ UNCHANGED committed \/ CommitRecords(p)
             /\ UNCHANGED <<authority, published>> \/ Publish(p)
             /\ UNCHANGED localMain \/ SyncLocalMain(p)
  BY <1>3 DEF CallAccept, Invoke, Call, controlVars, worldVars
<1>4. ASSUME NEW p \in Process, StartRecovery(p)
      PROVE  /\ UNCHANGED tree \/ Writes(p)
             /\ UNCHANGED committed \/ CommitRecords(p)
             /\ UNCHANGED <<authority, published>> \/ Publish(p)
             /\ UNCHANGED localMain \/ SyncLocalMain(p)
  BY <1>4 DEF StartRecovery, controlVars, worldVars
<1>5. ASSUME NEW p \in Process, Acquire(p), UNCHANGED <<worldVars, localVars, calls, faults>>
      PROVE  /\ UNCHANGED tree \/ Writes(p)
             /\ UNCHANGED committed \/ CommitRecords(p)
             /\ UNCHANGED <<authority, published>> \/ Publish(p)
             /\ UNCHANGED localMain \/ SyncLocalMain(p)
  BY <1>5 DEF Acquire, controlVars, worldVars
<1>6. ASSUME NEW p \in Process, RefusedLock(p),
             UNCHANGED <<worldVars, localVars, calls, faults>>
      PROVE  /\ UNCHANGED tree \/ Writes(p)
             /\ UNCHANGED committed \/ CommitRecords(p)
             /\ UNCHANGED <<authority, published>> \/ Publish(p)
             /\ UNCHANGED localMain \/ SyncLocalMain(p)
  BY <1>6 DEF RefusedLock, controlVars, worldVars
<1>7. ASSUME NEW p \in Process, RequireSettled(p),
             UNCHANGED <<worldVars, localVars, calls, faults>>
      PROVE  /\ UNCHANGED tree \/ Writes(p)
             /\ UNCHANGED committed \/ CommitRecords(p)
             /\ UNCHANGED <<authority, published>> \/ Publish(p)
             /\ UNCHANGED localMain \/ SyncLocalMain(p)
  BY <1>7 DEF RequireSettled, controlVars, worldVars
<1>8. ASSUME NEW p \in Process, Hygiene(p), UNCHANGED <<worldVars, localVars, calls, faults>>
      PROVE  /\ UNCHANGED tree \/ Writes(p)
             /\ UNCHANGED committed \/ CommitRecords(p)
             /\ UNCHANGED <<authority, published>> \/ Publish(p)
             /\ UNCHANGED localMain \/ SyncLocalMain(p)
  BY <1>8 DEF Hygiene, controlVars, worldVars
<1>9. ASSUME NEW p \in Process, Begin(p), UNCHANGED <<worldVars, localVars, calls, faults>>
      PROVE  /\ UNCHANGED tree \/ Writes(p)
             /\ UNCHANGED committed \/ CommitRecords(p)
             /\ UNCHANGED <<authority, published>> \/ Publish(p)
             /\ UNCHANGED localMain \/ SyncLocalMain(p)
  BY <1>9 DEF Begin, controlVars, worldVars
<1>10. ASSUME NEW p \in Process, RecordAcceptance(p)
      PROVE  /\ UNCHANGED tree \/ Writes(p)
             /\ UNCHANGED committed \/ CommitRecords(p)
             /\ UNCHANGED <<authority, published>> \/ Publish(p)
             /\ UNCHANGED localMain \/ SyncLocalMain(p)
  BY <1>10, RecordAcceptanceEffect DEF Writes, controlVars, worldVars
<1>11. ASSUME NEW p \in Process, MarkAccepted(p)
      PROVE  /\ UNCHANGED tree \/ Writes(p)
             /\ UNCHANGED committed \/ CommitRecords(p)
             /\ UNCHANGED <<authority, published>> \/ Publish(p)
             /\ UNCHANGED localMain \/ SyncLocalMain(p)
  BY <1>11, MarkAcceptedEffect DEF Writes, controlVars, worldVars
<1>12. ASSUME NEW p \in Process, AcceptCard(p)
      PROVE  /\ UNCHANGED tree \/ Writes(p)
             /\ UNCHANGED committed \/ CommitRecords(p)
             /\ UNCHANGED <<authority, published>> \/ Publish(p)
             /\ UNCHANGED localMain \/ SyncLocalMain(p)
  BY <1>12, AcceptCardEffect DEF Writes, controlVars, worldVars
<1>13. ASSUME NEW p \in Process, MarkAbandoned(p)
      PROVE  /\ UNCHANGED tree \/ Writes(p)
             /\ UNCHANGED committed \/ CommitRecords(p)
             /\ UNCHANGED <<authority, published>> \/ Publish(p)
             /\ UNCHANGED localMain \/ SyncLocalMain(p)
  BY <1>13, MarkAbandonedEffect DEF Writes, controlVars, worldVars
<1>14. ASSUME NEW p \in Process, ReturnCard(p)
      PROVE  /\ UNCHANGED tree \/ Writes(p)
             /\ UNCHANGED committed \/ CommitRecords(p)
             /\ UNCHANGED <<authority, published>> \/ Publish(p)
             /\ UNCHANGED localMain \/ SyncLocalMain(p)
  BY <1>14, ReturnCardEffect DEF Writes
<1>15. ASSUME NEW p \in Process, AnnouncePublish(p)
      PROVE  /\ UNCHANGED tree \/ Writes(p)
             /\ UNCHANGED committed \/ CommitRecords(p)
             /\ UNCHANGED <<authority, published>> \/ Publish(p)
             /\ UNCHANGED localMain \/ SyncLocalMain(p)
  BY <1>15, AnnouncePublishEffect DEF controlVars, worldVars
<1>16. ASSUME NEW p \in Process, Publish(p)
      PROVE  /\ UNCHANGED tree \/ Writes(p)
             /\ UNCHANGED committed \/ CommitRecords(p)
             /\ UNCHANGED <<authority, published>> \/ Publish(p)
             /\ UNCHANGED localMain \/ SyncLocalMain(p)
  BY <1>16, PublishEffect DEF controlVars
<1>17. ASSUME NEW p \in Process, Published(p)
      PROVE  /\ UNCHANGED tree \/ Writes(p)
             /\ UNCHANGED committed \/ CommitRecords(p)
             /\ UNCHANGED <<authority, published>> \/ Publish(p)
             /\ UNCHANGED localMain \/ SyncLocalMain(p)
  BY <1>17, PublishedEffect DEF controlVars, worldVars
<1>18. ASSUME NEW p \in Process, SyncLocalMain(p)
      PROVE  /\ UNCHANGED tree \/ Writes(p)
             /\ UNCHANGED committed \/ CommitRecords(p)
             /\ UNCHANGED <<authority, published>> \/ Publish(p)
             /\ UNCHANGED localMain \/ SyncLocalMain(p)
  BY <1>18, SyncLocalMainEffect
<1>19. ASSUME NEW p \in Process, MarkPromoted(p)
      PROVE  /\ UNCHANGED tree \/ Writes(p)
             /\ UNCHANGED committed \/ CommitRecords(p)
             /\ UNCHANGED <<authority, published>> \/ Publish(p)
             /\ UNCHANGED localMain \/ SyncLocalMain(p)
  BY <1>19, MarkPromotedEffect DEF Writes, controlVars, worldVars
<1>20. ASSUME NEW p \in Process, LandCard(p)
      PROVE  /\ UNCHANGED tree \/ Writes(p)
             /\ UNCHANGED committed \/ CommitRecords(p)
             /\ UNCHANGED <<authority, published>> \/ Publish(p)
             /\ UNCHANGED localMain \/ SyncLocalMain(p)
  BY <1>20, LandCardEffect DEF Writes, controlVars, worldVars
<1>21. ASSUME NEW p \in Process, ClearLock(p)
      PROVE  /\ UNCHANGED tree \/ Writes(p)
             /\ UNCHANGED committed \/ CommitRecords(p)
             /\ UNCHANGED <<authority, published>> \/ Publish(p)
             /\ UNCHANGED localMain \/ SyncLocalMain(p)
  BY <1>21, ClearLockEffect DEF controlVars, worldVars
<1>22. ASSUME NEW p \in Process, SettleFound(p)
      PROVE  /\ UNCHANGED tree \/ Writes(p)
             /\ UNCHANGED committed \/ CommitRecords(p)
             /\ UNCHANGED <<authority, published>> \/ Publish(p)
             /\ UNCHANGED localMain \/ SyncLocalMain(p)
  BY <1>22, SettleFoundEffect DEF worldVars
<1>23. ASSUME NEW p \in Process, Resume(p)
      PROVE  /\ UNCHANGED tree \/ Writes(p)
             /\ UNCHANGED committed \/ CommitRecords(p)
             /\ UNCHANGED <<authority, published>> \/ Publish(p)
             /\ UNCHANGED localMain \/ SyncLocalMain(p)
  BY <1>23, ResumeEffect DEF controlVars, worldVars
<1>24. ASSUME NEW p \in Process, AppendEvent(p)
      PROVE  /\ UNCHANGED tree \/ Writes(p)
             /\ UNCHANGED committed \/ CommitRecords(p)
             /\ UNCHANGED <<authority, published>> \/ Publish(p)
             /\ UNCHANGED localMain \/ SyncLocalMain(p)
  BY <1>24, AppendEventEffect DEF Writes, controlVars, worldVars
<1>25. ASSUME NEW p \in Process, Stage(p)
      PROVE  /\ UNCHANGED tree \/ Writes(p)
             /\ UNCHANGED committed \/ CommitRecords(p)
             /\ UNCHANGED <<authority, published>> \/ Publish(p)
             /\ UNCHANGED localMain \/ SyncLocalMain(p)
  BY <1>25, StageEffect DEF controlVars, worldVars
<1>26. ASSUME NEW p \in Process, CommitRecords(p)
      PROVE  /\ UNCHANGED tree \/ Writes(p)
             /\ UNCHANGED committed \/ CommitRecords(p)
             /\ UNCHANGED <<authority, published>> \/ Publish(p)
             /\ UNCHANGED localMain \/ SyncLocalMain(p)
  BY <1>26, CommitRecordsEffect DEF worldVars
<1>27. ASSUME NEW p \in Process, Finish(p), SameWorld
      PROVE  /\ UNCHANGED tree \/ Writes(p)
             /\ UNCHANGED committed \/ CommitRecords(p)
             /\ UNCHANGED <<authority, published>> \/ Publish(p)
             /\ UNCHANGED localMain \/ SyncLocalMain(p)
  BY <1>27, FinishEffect DEF worldVars
<1>28. ASSUME NEW p \in Process, End(p)
      PROVE  /\ UNCHANGED tree \/ Writes(p)
             /\ UNCHANGED committed \/ CommitRecords(p)
             /\ UNCHANGED <<authority, published>> \/ Publish(p)
             /\ UNCHANGED localMain \/ SyncLocalMain(p)
  BY <1>28, EndEffect DEF controlVars, worldVars
<1>29. ASSUME NEW p \in Process, BodyFails(p)
      PROVE  /\ UNCHANGED tree \/ Writes(p)
             /\ UNCHANGED committed \/ CommitRecords(p)
             /\ UNCHANGED <<authority, published>> \/ Publish(p)
             /\ UNCHANGED localMain \/ SyncLocalMain(p)
  BY <1>29, BodyFailsEffect DEF controlVars, worldVars
<1>30. ASSUME NEW p \in Process, Killed(p)
      PROVE  /\ UNCHANGED tree \/ Writes(p)
             /\ UNCHANGED committed \/ CommitRecords(p)
             /\ UNCHANGED <<authority, published>> \/ Publish(p)
             /\ UNCHANGED localMain \/ SyncLocalMain(p)
  BY <1>30, KilledEffect DEF controlVars, worldVars
<1>31. CASE EditLocal
  BY <1>31 DEF EditLocal, controlVars
<1>32. CASE TidyLocal
  BY <1>32 DEF TidyLocal, controlVars
<1>33. CASE ForeignPush
  BY <1>33 DEF ForeignPush, controlVars
<1>34. CASE RemoveIndexLock
  BY <1>34 DEF RemoveIndexLock, worldVars
<1> QED
  BY <1>0, <1>1, <1>2, <1>3, <1>4, <1>5, <1>6, <1>7, <1>8, <1>9, <1>10, <1>11, <1>12,
     <1>13, <1>14, <1>15, <1>16, <1>17, <1>18, <1>19, <1>20, <1>21, <1>22, <1>23,
     <1>24, <1>25, <1>26, <1>27, <1>28, <1>29, <1>30, <1>31, <1>32, <1>33, <1>34
  DEF Next, Work, Opening, SameWorld

(***************************************************************************)
(* What is told of a promotion.                                            *)
(***************************************************************************)

\* Once whole, a promotion stays so.
LEMMA WholeStays ==
    ASSUME Careful, Typed, Control, World, [Next]_vars, NEW i \in Integration, Recorded(i)
    PROVE  Recorded(i)'
<1>a. TypeOK /\ tree \in Records /\ (\A c \in Members[i] : c \in Card) /\ i \in published
  BY DEF Typed, TypeOK, World, Kept, Recorded, Card
<1>b. ASSUME NEW p \in Process PROVE AssignedTo(p) /\ BodyOf(p)
  BY DEF Typed, Assigned, World
<1>1. CASE UNCHANGED tree
  BY <1>1 DEF Recorded
<1>2. ASSUME NEW p \in Process, RecordAcceptance(p) PROVE Recorded(i)'
  <2>1. target[p] \in Integration
    BY <1>a, <1>b, <1>2, RecordAcceptanceEffect DEF AssignedTo, Recovering, Running
  <2>2. tree'.status = tree.status /\ tree'.card = tree.card
    BY <1>a, <1>2, <2>1, RecordAcceptanceEffect, TreeAfter
  <2> QED
    BY <2>2 DEF Recorded
<1>3. ASSUME NEW p \in Process, MarkAccepted(p) PROVE Recorded(i)'
  <2>1. /\ target[p] \in Integration /\ tree.status[target[p]] = "reviewed"
        /\ tree' = [tree EXCEPT !.status[target[p]] = "accepted"]
    BY <1>a, <1>b, <1>3, MarkAcceptedEffect DEF AssignedTo, BodyOf, Recovering, Running
  <2>2. target[p] # i
    BY <2>1 DEF Recorded
  <2> QED
    BY <1>a, <2>1, <2>2, TreeAfter DEF Recorded
<1>4. ASSUME NEW p \in Process, AcceptCard(p) PROVE Recorded(i)'
  <2>1. target[p] \in Integration
    BY <1>a, <1>b, <1>4, AcceptCardEffect DEF AssignedTo, Recovering, Running
  <2>2. ASSUME NEW c \in Members[target[p]], tree.card[c] = "integrating",
               tree' = [tree EXCEPT !.card[c] = "accepted"]
        PROVE  Recorded(i)'
    BY <1>a, <2>1, <2>2, TreeAfter DEF Recorded
  <2> QED
    BY <1>a, <1>1, <1>4, <2>2, AcceptCardEffect
<1>5. ASSUME NEW p \in Process, MarkAbandoned(p) PROVE Recorded(i)'
  <2>1. target[p] \in Integration
    BY <1>a, <1>b, <1>5, MarkAbandonedEffect DEF AssignedTo, Recovering, Running
  <2>2. ASSUME tree.status[target[p]] \in {"reviewed", "accepted"},
               tree' = [tree EXCEPT !.status[target[p]] = "abandoned"]
        PROVE  Recorded(i)'
    <3>1. target[p] # i
      BY <2>2 DEF Recorded
    <3> QED
      BY <1>a, <2>1, <2>2, <3>1, TreeAfter DEF Recorded
  <2> QED
    BY <1>a, <1>1, <1>5, <2>2, MarkAbandonedEffect
<1>6. ASSUME NEW p \in Process, ReturnCard(p) PROVE Recorded(i)'
  <2>1. target[p] \in Integration
    BY <1>a, <1>b, <1>6, ReturnCardEffect DEF AssignedTo, Recovering, Running
  <2>2. ASSUME NEW c \in Members[target[p]], tree.card[c] = "integrating",
               tree' = [tree EXCEPT !.card[c] = "approved"]
        PROVE  Recorded(i)'
    BY <1>a, <2>1, <2>2, TreeAfter DEF Recorded
  <2> QED
    BY <1>a, <1>1, <1>6, <2>2, ReturnCardEffect
<1>7. ASSUME NEW p \in Process, MarkPromoted(p) PROVE Recorded(i)'
  <2>1. /\ target[p] \in Integration
        /\ tree' = [tree EXCEPT !.status[target[p]] = "promoted"]
    BY <1>a, <1>b, <1>7, MarkPromotedEffect DEF AssignedTo
  <2> QED
    BY <1>a, <2>1, TreeAfter DEF Recorded
<1>8. ASSUME NEW p \in Process, LandCard(p) PROVE Recorded(i)'
  <2>1. target[p] \in Integration
    BY <1>a, <1>b, <1>8, LandCardEffect DEF AssignedTo
  <2>2. ASSUME NEW c \in Members[target[p]], tree' = [tree EXCEPT !.card[c] = "landed"]
        PROVE  Recorded(i)'
    BY <1>a, <2>1, <2>2, TreeAfter DEF Recorded
  <2> QED
    BY <1>a, <1>1, <1>8, <2>2, LandCardEffect
<1>9. ASSUME NEW p \in Process, AppendEvent(p) PROVE Recorded(i)'
  <2>1. /\ target[p] \in Integration
        /\ tree' = Logged(tree, EventOf[mem[p].command], target[p])
    BY <1>a, <1>b, <1>9, AppendEventEffect DEF AssignedTo
  <2>2. tree'.status = tree.status /\ tree'.card = tree.card
    BY <1>a, <2>1, TreeAfter
  <2> QED
    BY <2>2 DEF Recorded
<1> QED
  BY <1>a, <1>1, <1>2, <1>3, <1>4, <1>5, <1>6, <1>7, <1>8, <1>9, Writers DEF Writes

\* Only an appended event changes the log.
LEMMA LogStays ==
    ASSUME Typed, [Next]_vars
    PROVE  UNCHANGED tree \/ tree'.log = tree.log \/ \E p \in Process : AppendEvent(p)
<1>a. TypeOK /\ tree \in Records
  BY DEF Typed, TypeOK
<1>1. ASSUME NEW p \in Process, Writes(p), ~AppendEvent(p)
      PROVE  UNCHANGED tree \/ tree'.log = tree.log
  <2>a. AssignedTo(p)
    BY DEF Typed, Assigned
  <2>1. CASE RecordAcceptance(p)
    <3>1. target[p] \in Integration
      BY <1>a, <2>a, <2>1, RecordAcceptanceEffect DEF AssignedTo, Recovering, Running
    <3> QED
      BY <1>a, <2>1, <3>1, RecordAcceptanceEffect, TreeAfter
  <2>2. CASE MarkAccepted(p)
    <3>1. target[p] \in Integration
      BY <1>a, <2>a, <2>2, MarkAcceptedEffect DEF AssignedTo, Recovering, Running
    <3> QED
      BY <1>a, <2>2, <3>1, MarkAcceptedEffect, TreeAfter
  <2>3. CASE AcceptCard(p)
    <3>1. target[p] \in Integration
      BY <1>a, <2>a, <2>3, AcceptCardEffect DEF AssignedTo, Recovering, Running
    <3>2. ASSUME NEW c \in Members[target[p]], tree' = [tree EXCEPT !.card[c] = "accepted"]
          PROVE  tree'.log = tree.log
      BY <1>a, <3>1, <3>2, TreeAfter
    <3> QED
      BY <1>a, <2>3, <3>2, AcceptCardEffect
  <2>4. CASE MarkAbandoned(p)
    <3>1. target[p] \in Integration
      BY <1>a, <2>a, <2>4, MarkAbandonedEffect DEF AssignedTo, Recovering, Running
    <3>2. \/ UNCHANGED tree
          \/ tree' = [tree EXCEPT !.status[target[p]] = "abandoned"]
      BY <1>a, <2>4, MarkAbandonedEffect
    <3> QED
      BY <1>a, <3>1, <3>2, TreeAfter
  <2>5. CASE ReturnCard(p)
    <3>1. target[p] \in Integration
      BY <1>a, <2>a, <2>5, ReturnCardEffect DEF AssignedTo, Recovering, Running
    <3>2. ASSUME NEW c \in Members[target[p]], tree' = [tree EXCEPT !.card[c] = "approved"]
          PROVE  tree'.log = tree.log
      BY <1>a, <3>1, <3>2, TreeAfter
    <3>3. \/ UNCHANGED tree
          \/ \E c \in Members[target[p]] : tree' = [tree EXCEPT !.card[c] = "approved"]
      BY <1>a, <2>5, ReturnCardEffect
    <3> QED
      BY <3>2, <3>3
  <2>6. CASE MarkPromoted(p)
    <3>1. target[p] \in Integration
      BY <1>a, <2>a, <2>6, MarkPromotedEffect DEF AssignedTo
    <3> QED
      BY <1>a, <2>6, <3>1, MarkPromotedEffect, TreeAfter
  <2>7. CASE LandCard(p)
    <3>1. target[p] \in Integration
      BY <1>a, <2>a, <2>7, LandCardEffect DEF AssignedTo
    <3>2. ASSUME NEW c \in Members[target[p]], tree' = [tree EXCEPT !.card[c] = "landed"]
          PROVE  tree'.log = tree.log
      BY <1>a, <3>1, <3>2, TreeAfter
    <3> QED
      BY <1>a, <2>7, <3>2, LandCardEffect
  <2> QED
    BY <1>1, <2>1, <2>2, <2>3, <2>4, <2>5, <2>6, <2>7 DEF Writes
<1> QED
  BY <1>a, <1>1, Writers

\* The points from which a promotion, or its resumption, has yet to be logged.
Untold == {"publish", "published", "sync", "mark", "land", "event"}

\* A process comes to them with a promotion that is not whole, or was there.
Came(q) ==
    \/ pc[q] \in Untold /\ Promoting(q) /\ target'[q] = target[q]
    \/ ~Recorded(target'[q]) /\ target'[q] \in Integration /\ UNCHANGED tree

\* Every step to such a point is one of those.
LEMMA Arrivals ==
    ASSUME Careful, Typed, Control, World, [Next]_vars, NEW q \in Process,
           pc'[q] \in Untold, Promoting(q)'
    PROVE  Came(q)
<1>a. TypeOK
  BY DEF Typed
<1>b. ASSUME NEW p \in Process
      PROVE  mem[p] \in Record(Command, Records) /\ AssignedTo(p)
  BY <1>a DEF TypeOK, Typed, Assigned
<1>c. ASSUME pc' = pc, mem' = mem, target' = target PROVE Came(q)
  BY <1>c DEF Came, Promoting
<1>d. ASSUME NEW p \in Process, Only(p), p # q PROVE Came(q)
  BY <1>d DEF Came, Promoting, Only
<1>e. ASSUME NEW p \in Process, Only(p), pc'[p] \notin Untold PROVE Came(q)
  BY <1>d, <1>e
<1>f. ASSUME NEW p \in Process, Steps(p, pc'[p]), pc[p] \in Untold PROVE Came(q)
  <2>1. CASE p = q
    BY <1>f, <2>1 DEF Came, Steps, Promoting
  <2> QED
    BY <1>d, <1>f, <2>1 DEF Steps
<1>0. CASE UNCHANGED vars
  BY <1>c, <1>0 DEF vars, processVars, localVars
<1>1. ASSUME NEW p \in Process, NEW i \in Integration, CallPromote(p, i)
      PROVE  Came(q)
  <2>1. Invoke(p, "integration.promote", i)
    BY <1>1 DEF CallPromote
  <2>2. Only(p) /\ pc'[p] = "acquire"
    BY <1>a, <2>1, InvokeEffect
  <2> QED
    BY <1>e, <2>2 DEF Untold
<1>2. ASSUME NEW p \in Process, NEW i \in Integration, CallAbandon(p, i)
      PROVE  Came(q)
  <2>1. Invoke(p, "integration.abandon", i)
    BY <1>2 DEF CallAbandon
  <2>2. Only(p) /\ pc'[p] = "acquire"
    BY <1>a, <2>1, InvokeEffect
  <2> QED
    BY <1>e, <2>2 DEF Untold
<1>3. ASSUME NEW p \in Process, NEW i \in Integration, CallAccept(p, i)
      PROVE  Came(q)
  <2>1. Invoke(p, "acceptance.record", i)
    BY <1>3 DEF CallAccept
  <2>2. Only(p) /\ pc'[p] = "acquire"
    BY <1>a, <2>1, InvokeEffect
  <2> QED
    BY <1>e, <2>2 DEF Untold
<1>4. ASSUME NEW p \in Process, StartRecovery(p)
      PROVE  Came(q)
  <2>1. Only(p) /\ pc'[p] \in {"clear"}
    BY <1>a, <1>4, StartRecoveryEffect
  <2> QED
    BY <1>e, <2>1 DEF Untold
<1>5. ASSUME NEW p \in Process, Acquire(p), UNCHANGED <<worldVars, localVars, calls, faults>>
      PROVE  Came(q)
  <2>1. Only(p) /\ pc'[p] \in {"settled?", "idle", "hygiene", "quarantine", "begin", "release"}
    BY <1>a, <1>5, OpeningEffect DEF Steps, Ends
  <2> QED
    BY <1>e, <2>1 DEF Untold
<1>6. ASSUME NEW p \in Process, RefusedLock(p),
             UNCHANGED <<worldVars, localVars, calls, faults>>
      PROVE  Came(q)
  <2>1. Only(p) /\ pc'[p] \in {"settled?", "idle", "hygiene", "quarantine", "begin", "release"}
    BY <1>a, <1>6, OpeningEffect DEF Steps, Ends
  <2> QED
    BY <1>e, <2>1 DEF Untold
<1>7. ASSUME NEW p \in Process, RequireSettled(p),
             UNCHANGED <<worldVars, localVars, calls, faults>>
      PROVE  Came(q)
  <2>1. Only(p) /\ pc'[p] \in {"settled?", "idle", "hygiene", "quarantine", "begin", "release"}
    BY <1>a, <1>7, OpeningEffect DEF Steps, Ends
  <2> QED
    BY <1>e, <2>1 DEF Untold
<1>8. ASSUME NEW p \in Process, Hygiene(p), UNCHANGED <<worldVars, localVars, calls, faults>>
      PROVE  Came(q)
  <2>1. Only(p) /\ pc'[p] \in {"settled?", "idle", "hygiene", "quarantine", "begin", "release"}
    BY <1>a, <1>8, OpeningEffect DEF Steps, Ends
  <2> QED
    BY <1>e, <2>1 DEF Untold
<1>9. ASSUME NEW p \in Process, Begin(p), UNCHANGED <<worldVars, localVars, calls, faults>>
      PROVE  Came(q)
  <2>1. Only(p) /\ pc'[p] \in {"body"}
    BY <1>a, <1>9, BeginEffect
  <2> QED
    BY <1>e, <2>1 DEF Untold
<1>10. ASSUME NEW p \in Process, RecordAcceptance(p)
      PROVE  Came(q)
  <2>1. Only(p) /\ ~Promoting(p) /\ mem'[p] = mem[p]
    BY <1>a, <1>b, <1>10, RecordAcceptanceEffect
    DEF AssignedTo, Steps, Returns, Running, Promoting
  <2>2. p # q
    BY <2>1 DEF Promoting
  <2> QED
    BY <1>d, <2>1, <2>2
<1>11. ASSUME NEW p \in Process, MarkAccepted(p)
      PROVE  Came(q)
  <2>1. Only(p) /\ ~Promoting(p) /\ mem'[p] = mem[p]
    BY <1>a, <1>b, <1>11, MarkAcceptedEffect DEF AssignedTo, Steps, Returns, Running, Promoting
  <2>2. p # q
    BY <2>1 DEF Promoting
  <2> QED
    BY <1>d, <2>1, <2>2
<1>12. ASSUME NEW p \in Process, AcceptCard(p)
      PROVE  Came(q)
  <2>1. Only(p) /\ ~Promoting(p) /\ mem'[p] = mem[p]
    BY <1>a, <1>b, <1>12, AcceptCardEffect DEF AssignedTo, Steps, Returns, Running, Promoting
  <2>2. p # q
    BY <2>1 DEF Promoting
  <2> QED
    BY <1>d, <2>1, <2>2
<1>13. ASSUME NEW p \in Process, MarkAbandoned(p)
      PROVE  Came(q)
  <2>1. Only(p) /\ ~Promoting(p) /\ mem'[p] = mem[p]
    BY <1>a, <1>b, <1>13, MarkAbandonedEffect DEF AssignedTo, Steps, Returns, Running, Promoting
  <2>2. p # q
    BY <2>1 DEF Promoting
  <2> QED
    BY <1>d, <2>1, <2>2
<1>14. ASSUME NEW p \in Process, ReturnCard(p)
      PROVE  Came(q)
  <2>1. Only(p) /\ ~Promoting(p) /\ mem'[p] = mem[p]
    BY <1>a, <1>b, <1>14, ReturnCardEffect DEF AssignedTo, Steps, Returns, Running, Promoting
  <2>2. p # q
    BY <2>1 DEF Promoting
  <2> QED
    BY <1>d, <2>1, <2>2
<1>15. ASSUME NEW p \in Process, AnnouncePublish(p)
      PROVE  Came(q)
  <2>1. /\ Only(p) /\ UNCHANGED tree /\ target'[p] = target[p]
        /\ \/ pc'[p] = "publish" /\ CheckPromotion(target[p])
           \/ pc'[p] = "finish"
    BY <1>a, <1>15, AnnouncePublishEffect DEF Steps, Returns
  <2>2. CASE pc'[p] = "publish" /\ CheckPromotion(target[p])
    <3>1. target[p] \in Integration
      BY <1>a, <1>b, <1>15, AnnouncePublishEffect DEF AssignedTo, Recovering, Running
    <3> QED
      BY <1>d, <2>1, <2>2, <3>1 DEF Came, Recorded, CheckPromotion
  <2> QED
    BY <1>e, <2>1, <2>2 DEF Untold
<1>16. ASSUME NEW p \in Process, Publish(p)
      PROVE  Came(q)
  <2>1. /\ Only(p) /\ pc[p] \in Untold /\ target'[p] = target[p]
        /\ mem'[p].command = mem[p].command
    BY <1>a, <1>b, <1>16, Fields, PublishEffect DEF Steps, Returns, Announces, Untold
  <2> QED
    BY <1>d, <2>1 DEF Came, Promoting
<1>17. ASSUME NEW p \in Process, Published(p)
      PROVE  Came(q)
  <2>1. /\ Only(p) /\ pc[p] \in Untold /\ target'[p] = target[p]
        /\ mem'[p].command = mem[p].command
    BY <1>a, <1>b, <1>17, Fields, PublishedEffect DEF Steps, Returns, Announces, Untold
  <2> QED
    BY <1>d, <2>1 DEF Came, Promoting
<1>18. ASSUME NEW p \in Process, SyncLocalMain(p)
      PROVE  Came(q)
  <2>1. /\ Only(p) /\ pc[p] \in Untold /\ target'[p] = target[p]
        /\ mem'[p].command = mem[p].command
    BY <1>a, <1>b, <1>18, Fields, SyncLocalMainEffect DEF Steps, Returns, Announces, Untold
  <2> QED
    BY <1>d, <2>1 DEF Came, Promoting
<1>19. ASSUME NEW p \in Process, MarkPromoted(p)
      PROVE  Came(q)
  <2>1. /\ Only(p) /\ pc[p] \in Untold /\ target'[p] = target[p]
        /\ mem'[p].command = mem[p].command
    BY <1>a, <1>b, <1>19, Fields, MarkPromotedEffect DEF Steps, Returns, Announces, Untold
  <2> QED
    BY <1>d, <2>1 DEF Came, Promoting
<1>20. ASSUME NEW p \in Process, LandCard(p)
      PROVE  Came(q)
  <2>1. /\ Only(p) /\ pc[p] \in Untold /\ target'[p] = target[p]
        /\ mem'[p].command = mem[p].command
    BY <1>a, <1>b, <1>20, Fields, LandCardEffect DEF Steps, Returns, Announces, Untold
  <2> QED
    BY <1>d, <2>1 DEF Came, Promoting
<1>21. ASSUME NEW p \in Process, ClearLock(p)
      PROVE  Came(q)
  <2>1. Only(p) /\ pc'[p] \in {"idle", "settle"}
    BY <1>a, <1>21, ClearLockEffect DEF Steps, Ends
  <2> QED
    BY <1>e, <2>1 DEF Untold
<1>22. ASSUME NEW p \in Process, SettleFound(p)
      PROVE  Came(q)
  <2>1. Only(p) /\ pc'[p] \in {"acquire", "settle"}
    BY <1>a, <1>22, SettleFoundEffect
  <2> QED
    BY <1>e, <2>1 DEF Untold
<1>23. ASSUME NEW p \in Process, Resume(p)
      PROVE  Came(q)
  <2>1. /\ Only(p) /\ UNCHANGED tree
        /\ \/ target'[p] \in Integration /\ Resumable(target'[p])
           \/ pc'[p] = "finish"
    BY <1>a, <1>23, ResumeEffect DEF Steps, Returns, controlVars
  <2>2. CASE target'[p] \in Integration /\ Resumable(target'[p])
    BY <1>d, <2>1, <2>2 DEF Came, Recorded, Resumable
  <2> QED
    BY <1>e, <2>1, <2>2 DEF Untold
<1>24. ASSUME NEW p \in Process, AppendEvent(p)
      PROVE  Came(q)
  <2>1. Only(p) /\ pc'[p] \in {"stage"}
    BY <1>a, <1>24, AppendEventEffect DEF Steps, Returns, Ends
  <2> QED
    BY <1>e, <2>1 DEF Untold
<1>25. ASSUME NEW p \in Process, Stage(p)
      PROVE  Came(q)
  <2>1. Only(p) /\ pc'[p] \in {"commit", "finish"}
    BY <1>a, <1>25, StageEffect DEF Steps, Returns, Ends
  <2> QED
    BY <1>e, <2>1 DEF Untold
<1>26. ASSUME NEW p \in Process, CommitRecords(p)
      PROVE  Came(q)
  <2>1. Only(p) /\ pc'[p] \in {"finish"}
    BY <1>a, <1>26, CommitRecordsEffect DEF Steps, Returns, Ends
  <2> QED
    BY <1>e, <2>1 DEF Untold
<1>27. ASSUME NEW p \in Process, Finish(p), SameWorld
      PROVE  Came(q)
  <2>1. Only(p) /\ pc'[p] \in {"release"}
    BY <1>a, <1>27, FinishEffect DEF Steps, Returns, Ends
  <2> QED
    BY <1>e, <2>1 DEF Untold
<1>28. ASSUME NEW p \in Process, End(p)
      PROVE  Came(q)
  <2>1. Only(p) /\ pc'[p] \in {"idle"}
    BY <1>a, <1>28, EndEffect DEF Steps, Returns, Ends
  <2> QED
    BY <1>e, <2>1 DEF Untold
<1>29. ASSUME NEW p \in Process, BodyFails(p)
      PROVE  Came(q)
  <2>1. Only(p) /\ pc'[p] \in {"finish"}
    BY <1>a, <1>29, BodyFailsEffect DEF Steps, Returns, Ends
  <2> QED
    BY <1>e, <2>1 DEF Untold
<1>30. ASSUME NEW p \in Process, Killed(p)
      PROVE  Came(q)
  <2>1. Only(p) /\ pc'[p] \in {"idle"}
    BY <1>a, <1>30, KilledEffect DEF Steps, Returns, Ends
  <2> QED
    BY <1>e, <2>1 DEF Untold
<1>31. CASE EditLocal
  BY <1>c, <1>31 DEF EditLocal, processVars, localVars
<1>32. CASE TidyLocal
  BY <1>c, <1>32 DEF TidyLocal, processVars, localVars
<1>33. CASE ForeignPush
  BY <1>c, <1>33 DEF ForeignPush, processVars, localVars
<1>34. CASE RemoveIndexLock
  BY <1>c, <1>34 DEF RemoveIndexLock, processVars, localVars
<1> QED
  BY <1>0, <1>1, <1>2, <1>3, <1>4, <1>5, <1>6, <1>7, <1>8, <1>9, <1>10, <1>11, <1>12,
     <1>13, <1>14, <1>15, <1>16, <1>17, <1>18, <1>19, <1>20, <1>21, <1>22, <1>23,
     <1>24, <1>25, <1>26, <1>27, <1>28, <1>29, <1>30, <1>31, <1>32, <1>33, <1>34
  DEF Next, Work, Opening, SameWorld

\* Every promotion that is told of is whole, and told of once.
Told ==
    /\ PromotionLoggedOnce
    /\ \A m \in DOMAIN tree.log :
          tree.log[m][1] = "integration.promoted" => Recorded(tree.log[m][2])
    /\ \A p \in Process : pc[p] \in Untold /\ Promoting(p) =>
          \A m \in DOMAIN tree.log : tree.log[m] # <<"integration.promoted", target[p]>>
    /\ \A i \in Integration :
          committed.status[i] = "promoted" => \A c \in Members[i] : committed.card[c] = "landed"

\* Initially the log is empty.
LEMMA InitTold == Init => Told
<1> SUFFICES ASSUME Init PROVE Told
  OBVIOUS
<1>1. PICK accepted \in SUBSET Integration : tree = Initial(accepted) /\ committed = tree
  BY DEF Init, InitControl
<1>2. /\ tree.log = <<>> /\ DOMAIN tree.log = {}
      /\ \A i \in Integration : committed.status[i] # "promoted"
  BY <1>1 DEF Initial
<1> QED
  BY <1>2 DEF Told, PromotionLoggedOnce

\* Every step tells of a whole promotion, once.
LEMMA ToldStep ==
    ASSUME Careful, Typed, Control, World, Told, [Next]_vars
    PROVE  Told'
<1>a. TypeOK /\ tree \in Records /\ tree.log \in Seq(Event)
  BY DEF Typed, TypeOK, Records
<1>l. ASSUME NEW m \in DOMAIN tree.log PROVE tree.log[m] \in Event
  BY <1>a, <1>l, ElementOfSeq, LenProperties
<1>b. ASSUME NEW p \in Process PROVE AssignedTo(p) /\ BodyOf(p)
  BY DEF Typed, Assigned, World
<1>1. \A i \in Integration :
          committed'.status[i] = "promoted" =>
              \A c \in Members[i] : committed'.card[c] = "landed"
  <2>1. CASE UNCHANGED committed
    BY <2>1 DEF Told
  <2>2. ASSUME NEW p \in Process, CommitRecords(p)
        PROVE  \A i \in Integration : tree.status[i] = "promoted" => Recorded(i)
    <3>1. AllWhole
      BY <1>a, <1>b, <2>2, CommitRecordsEffect DEF BodyOf
    <3> QED
      BY <3>1 DEF AllWhole, World, Kept
  <2>3. ASSUME NEW p \in Process, CommitRecords(p) PROVE committed' = tree
    BY <1>a, <2>3, CommitRecordsEffect
  <2> QED
    BY <1>a, <2>1, <2>2, <2>3, Writers DEF Recorded
<1>2. CASE tree'.log = tree.log
  <2>1. PromotionLoggedOnce'
    BY <1>2 DEF Told, PromotionLoggedOnce
  <2>2. ASSUME NEW m \in DOMAIN tree.log, tree.log[m][1] = "integration.promoted"
        PROVE  Recorded(tree.log[m][2])'
    <3>1. Recorded(tree.log[m][2]) /\ tree.log[m][2] \in Integration
      BY <1>l, <2>2 DEF Told, Event
    <3>2. PICK i \in Integration : i = tree.log[m][2]
      BY <3>1
    <3>3. Recorded(i)'
      BY <3>1, <3>2, WholeStays
    <3> QED
      BY <1>2, <3>2, <3>3 DEF Recorded
  <2>3. ASSUME NEW q \in Process, pc'[q] \in Untold, Promoting(q)',
               NEW m \in DOMAIN tree.log, tree.log[m] = <<"integration.promoted", target'[q]>>
        PROVE  FALSE
    <3>1. CASE pc[q] \in Untold /\ Promoting(q) /\ target'[q] = target[q]
      BY <2>3, <3>1 DEF Told
    <3>2. CASE ~Recorded(target'[q])
      <4>1. tree.log[m][1] = "integration.promoted" /\ tree.log[m][2] = target'[q]
        BY <2>3
      <4> QED
        BY <3>2, <4>1 DEF Told
    <3> QED
        BY <2>3, <3>1, <3>2, Arrivals DEF Came
  <2>4. (\A m \in DOMAIN tree.log :
            tree.log[m][1] = "integration.promoted" => Recorded(tree.log[m][2]))'
    BY <1>2, <2>2
  <2> QED
    BY <1>1, <1>2, <2>1, <2>3, <2>4 DEF Told
<1>3. ASSUME NEW p \in Process, AppendEvent(p) PROVE Told'
  <2>1. /\ pc[p] = "event" /\ Steps(p, "stage")
        /\ tree' = Logged(tree, EventOf[mem[p].command], target[p])
    BY <1>a, <1>3, AppendEventEffect
  <2>2. target[p] \in Integration /\ mem[p].command \in Command
    BY <1>b, <2>1 DEF AssignedTo
  <2> DEFINE type == EventOf[mem[p].command]
             n == Len(tree.log) + 1
  <2>3. /\ type = "integration.promoted" <=> Promoting(p)
    BY <2>2 DEF EventOf, Promoting, Command
  <2>4. tree'.log = Append(tree.log, <<type, target[p]>>)
    BY <1>a, <2>1 DEF Logged, Records
  <2>5. tree'.status = tree.status /\ tree'.card = tree.card
    BY <1>a, <2>1, <2>2, TreeAfter
  <2>6. <<type, target[p]>> \in Event
    BY <2>2 DEF EventOf, Event, Command
  <2> HIDE DEF type
  <2>7. /\ Len(tree.log) \in Nat /\ DOMAIN tree.log = 1 .. Len(tree.log)
        /\ DOMAIN tree'.log = 1 .. n
        /\ \A m \in DOMAIN tree.log : tree'.log[m] = tree.log[m]
        /\ tree'.log[n] = <<type, target[p]>>
    BY <1>a, <2>4, <2>6, AppendProperties, LenProperties
  <2>8. /\ \A m \in DOMAIN tree'.log : m \in DOMAIN tree.log \/ m = n
        /\ n \notin DOMAIN tree.log
    BY <2>7
  <2> HIDE DEF n
  <2>9. ASSUME Promoting(p), NEW m \in DOMAIN tree.log
        PROVE  tree.log[m] # <<"integration.promoted", target[p]>>
    BY <2>1, <2>9 DEF Told, Untold
  <2>10. PromotionLoggedOnce'
    BY SMTT(30), <2>3, <2>7, <2>8, <2>9 DEF Told, PromotionLoggedOnce
  <2>11. ASSUME NEW m \in DOMAIN tree'.log, tree'.log[m][1] = "integration.promoted"
         PROVE  Recorded(tree'.log[m][2])
    <3>1. CASE m \in DOMAIN tree.log
      BY <2>7, <2>11, <3>1 DEF Told
    <3>2. CASE m = n
      <4>1. Promoting(p) /\ tree'.log[m][2] = target[p]
        BY <2>3, <2>7, <2>11, <3>2
      <4>2. target[p] \in published /\ AllWhole
        BY <1>b, <2>1, <4>1 DEF BodyOf
      <4> QED
        BY <4>1, <4>2 DEF AllWhole
    <3> QED
      BY <2>8, <3>1, <3>2
  <2>12. (\A m \in DOMAIN tree.log :
            tree.log[m][1] = "integration.promoted" => Recorded(tree.log[m][2]))'
    BY <2>5, <2>11 DEF Recorded
  <2>13. ASSUME NEW q \in Process PROVE pc'[q] \notin Untold
    <3>1. CASE q = p
      BY <2>1, <3>1 DEF Steps, Untold
    <3>2. CASE q # p
      <4>1. pc[q] \in {"idle", "acquire"}
        BY <2>1, <3>2, Alone DEF Inside, Live, BodySteps
      <4> QED
        BY <2>1, <3>2, <4>1 DEF Steps, Only, Untold
    <3> QED
      BY <3>1, <3>2
  <2> QED
    BY <1>1, <2>10, <2>12, <2>13 DEF Told
<1> QED
  BY <1>2, <1>3, LogStays

(***************************************************************************)
(* How far the working tree is ahead of the commit.                        *)
(***************************************************************************)

Differs(i) == tree.status[i] # committed.status[i] /\ i \notin published

\* Only the command that is settling an integration, or was interrupted in it,
\* makes the working tree tell more of it than the commit.
AheadOf(i) ==
    /\ Unresolved # {}
    /\ \A n \in Unresolved :
          journal[n].command \notin {"integration.promote", "project.recover"}
    /\ \A p \in Process : pc[p] \in Live => target[p] = i
    /\ \A p \in Process : ~(pc[p] = "finish" /\ outcome[p] = "ok")
    /\ \/ committed.status[i] = "reviewed" /\ tree.status[i] = "accepted"
       \/ committed.status[i] \in {"reviewed", "accepted"} /\ tree.status[i] = "abandoned"

Ahead ==
    \A i \in Integration :
        /\ committed.status[i] = "abandoned" => tree.status[i] = "abandoned"
        /\ Differs(i) => AheadOf(i)

\* Initially the working tree is what is committed.
LEMMA InitAhead == Init => Ahead
  BY DEF Init, InitControl, Ahead, Differs

\* A promotion, or its resumption, finds the records as they are committed.
LEMMA NoneDiffers ==
    ASSUME Typed, Control, Ahead, NEW p \in Process, pc[p] \in Live, Promoting(p),
           NEW i \in Integration
    PROVE  ~Differs(i)
<1>1. op[p] \in OpId /\ journal[op[p]] = mem[p] /\ Unresolved = {op[p]}
  BY OwnEntry
<1> QED
  BY <1>1 DEF Ahead, AheadOf, Promoting

\* Nothing is written, and nothing is opened or closed.
LEMMA QuietAhead ==
    ASSUME Ahead, NEW p \in Process, Only(p), pc'[p] \notin Live,
           UNCHANGED <<journal, tree, committed, published>>
    PROVE  Ahead'
<1>1. SUFFICES ASSUME NEW i \in Integration, Differs(i) PROVE AheadOf(i)'
  BY DEF Ahead, Differs
<1>2. AheadOf(i)
  BY <1>1 DEF Ahead
<1>3. ASSUME NEW q \in Process
      PROVE  /\ pc'[q] \in Live => target'[q] = i
             /\ ~(pc'[q] = "finish" /\ outcome'[q] = "ok")
  BY <1>2 DEF AheadOf, Only, Live
<1> QED
  BY <1>2, <1>3, Settled DEF AheadOf

\* What happens around the commands writes no record.
LEMMA StillAhead ==
    ASSUME Ahead, UNCHANGED <<journal, tree, committed, published, pc, target, outcome>>
    PROVE  Ahead'
  BY Settled DEF Ahead, Differs, AheadOf

\* A step of a body that leaves the statuses alone.
LEMMA LiveAhead ==
    ASSUME Ahead, NEW p \in Process, Only(p), pc[p] \in Live,
           target'[p] = target[p], pc'[p] = "finish" => outcome'[p] # "ok",
           tree'.status = tree.status, UNCHANGED <<journal, committed, published>>
    PROVE  Ahead'
<1>1. SUFFICES ASSUME NEW i \in Integration, Differs(i) PROVE AheadOf(i)'
  BY DEF Ahead, Differs
<1>2. AheadOf(i)
  BY <1>1 DEF Ahead
<1>3. ASSUME NEW q \in Process
      PROVE  /\ pc'[q] \in Live => target'[q] = i
             /\ ~(pc'[q] = "finish" /\ outcome'[q] = "ok")
  BY <1>2 DEF AheadOf, Only
<1> QED
  BY <1>2, <1>3, Settled DEF AheadOf

\* A promotion or its resumption touches the status of no other integration.
LEMMA PromotingAhead ==
    ASSUME Typed, Control, Ahead, NEW p \in Process, pc[p] \in Live, Promoting(p),
           UNCHANGED committed, published \subseteq published',
           \A i \in Integration : tree'.status[i] = tree.status[i] \/ i \in published,
           \A i \in Integration : tree.status[i] = "abandoned" => tree'.status[i] = "abandoned"
    PROVE  Ahead'
<1>1. SUFFICES ASSUME NEW i \in Integration PROVE ~Differs(i)'
  BY DEF Ahead, Differs
<1> QED
  BY <1>1, NoneDiffers DEF Differs

\* An invocation opens no entry yet.
LEMMA InvokeAhead ==
    ASSUME Typed, Ahead, NEW p \in Process, NEW i \in Integration,
           NEW command \in {"integration.promote", "integration.abandon", "acceptance.record"},
           Invoke(p, command, i)
    PROVE  Ahead'
<1>1. Only(p) /\ pc'[p] = "acquire" /\ UNCHANGED <<journal, tree, committed, published>>
  BY InvokeEffect DEF Typed, controlVars, worldVars
<1> QED
  BY <1>1, QuietAhead DEF Live, BodySteps

\* An acceptance or an abandonment settles its own integration.
LEMMA SettlingAhead ==
    ASSUME Typed, Control, Control', World, Ahead, NEW p \in Process,
           pc[p] \in Live, pc'[p] \in Live \ {"finish"}, ~Promoting(p),
           target[p] \in Integration, Only(p),
           op'[p] = op[p], mem'[p] = mem[p], target'[p] = target[p],
           UNCHANGED <<journal, committed, published>>,
           \A j \in Integration : j # target[p] => tree'.status[j] = tree.status[j],
           \/ tree.status[target[p]] = "reviewed" /\ tree'.status[target[p]] = "accepted"
           \/ /\ tree.status[target[p]] \in {"reviewed", "accepted"}
              /\ tree'.status[target[p]] = "abandoned",
           target[p] \notin published
    PROVE  Ahead'
<1> DEFINE i == target[p]
<1>1. /\ op[p] \in OpId /\ journal[op[p]] = mem[p] /\ Unresolved = {op[p]}
      /\ Unresolved' = Unresolved
  BY OwnEntry, Settled
<1>2. ASSUME NEW q \in Process, q # p PROVE pc'[q] \in {"idle", "acquire"}
  <2>1. pc[p] \in Inside
    BY DEF Inside
  <2> QED
    BY <1>2, <2>1, Alone DEF Only
<1>3. ASSUME NEW j \in Integration, j # i PROVE ~Differs(j)
  BY <1>3 DEF Ahead, AheadOf
<1>4. \/ committed.status[i] = "reviewed" /\ tree'.status[i] = "accepted"
      \/ committed.status[i] \in {"reviewed", "accepted"} /\ tree'.status[i] = "abandoned"
  BY DEF Ahead, AheadOf, Differs
<1>5. \A q \in Process :
        /\ pc'[q] \in Live => target'[q] = i
        /\ ~(pc'[q] = "finish" /\ outcome'[q] = "ok")
  BY <1>2 DEF Live, BodySteps
<1>6. /\ Unresolved' # {}
      /\ \A n \in Unresolved' :
            journal'[n].command \notin {"integration.promote", "project.recover"}
  BY <1>1 DEF Promoting
<1> HIDE DEF i
<1>7. ASSUME NEW j \in Integration, j = i
      PROVE  /\ committed'.status[j] = "abandoned" => tree'.status[j] = "abandoned"
             /\ AheadOf(j)'
  BY <1>4, <1>5, <1>6, <1>7 DEF AheadOf
<1>8. ASSUME NEW j \in Integration, j # i
      PROVE  /\ committed'.status[j] = "abandoned" => tree'.status[j] = "abandoned"
             /\ ~Differs(j)'
  <2>1. tree'.status[j] = tree.status[j]
    BY <1>8 DEF i
  <2> QED
    BY <1>3, <1>8, <2>1 DEF Ahead, Differs
<1> QED
  BY <1>7, <1>8 DEF Ahead

\* Every step keeps the working tree ahead in one integration at most.
LEMMA AheadStep ==
    ASSUME Careful, Typed, Control, Control', World, Ahead, [Next]_vars
    PROVE  Ahead'
<1>a. TypeOK /\ tree \in Records /\ published \subseteq Integration
  BY DEF Typed, TypeOK
<1>b. ASSUME NEW p \in Process
      PROVE  /\ mem[p] \in Record(Command, Records)
             /\ AssignedTo(p) /\ ControlOf(p) /\ BodyOf(p)
  BY <1>a DEF TypeOK, Typed, Assigned, Control, World
<1>0. CASE UNCHANGED vars
  BY <1>0, StillAhead DEF vars, controlVars, processVars, worldVars, localVars
<1>1. ASSUME NEW p \in Process, NEW i \in Integration, CallPromote(p, i)
      PROVE  Ahead'
  <2>1. Invoke(p, "integration.promote", i)
    BY <1>1 DEF CallPromote
  <2> QED
    BY <2>1, InvokeAhead
<1>2. ASSUME NEW p \in Process, NEW i \in Integration, CallAbandon(p, i)
      PROVE  Ahead'
  <2>1. Invoke(p, "integration.abandon", i)
    BY <1>2 DEF CallAbandon
  <2> QED
    BY <2>1, InvokeAhead
<1>3. ASSUME NEW p \in Process, NEW i \in Integration, CallAccept(p, i)
      PROVE  Ahead'
  <2>1. Invoke(p, "acceptance.record", i)
    BY <1>3 DEF CallAccept
  <2> QED
    BY <2>1, InvokeAhead
<1>4. ASSUME NEW p \in Process, StartRecovery(p)
      PROVE  Ahead'
  <2>1. /\ Only(p) /\ pc'[p] \in {"clear"}
        /\ UNCHANGED <<journal, tree, committed, published>>
    BY <1>a, <1>4, StartRecoveryEffect DEF controlVars, worldVars
  <2>2. pc'[p] \notin Live
    BY <2>1 DEF Live, BodySteps
  <2> QED
    BY <2>1, <2>2, QuietAhead
<1>5. ASSUME NEW p \in Process, Acquire(p), UNCHANGED <<worldVars, localVars, calls, faults>>
      PROVE  Ahead'
  <2>1. /\ /\ Only(p)
        /\ pc'[p] \in {"settled?", "idle", "hygiene", "quarantine", "begin", "release"}
        /\ UNCHANGED <<journal, tree, committed, published>>
    BY <1>a, <1>5, OpeningEffect DEF Acquire, Steps, Ends, controlVars, worldVars
  <2>2. pc'[p] \notin Live
    BY <2>1 DEF Live, BodySteps
  <2> QED
    BY <2>1, <2>2, QuietAhead
<1>6. ASSUME NEW p \in Process, RefusedLock(p),
             UNCHANGED <<worldVars, localVars, calls, faults>>
      PROVE  Ahead'
  <2>1. /\ /\ Only(p)
        /\ pc'[p] \in {"settled?", "idle", "hygiene", "quarantine", "begin", "release"}
        /\ UNCHANGED <<journal, tree, committed, published>>
    BY <1>a, <1>6, OpeningEffect DEF RefusedLock, Steps, Ends, controlVars, worldVars
  <2>2. pc'[p] \notin Live
    BY <2>1 DEF Live, BodySteps
  <2> QED
    BY <2>1, <2>2, QuietAhead
<1>7. ASSUME NEW p \in Process, RequireSettled(p),
             UNCHANGED <<worldVars, localVars, calls, faults>>
      PROVE  Ahead'
  <2>1. /\ /\ Only(p)
        /\ pc'[p] \in {"settled?", "idle", "hygiene", "quarantine", "begin", "release"}
        /\ UNCHANGED <<journal, tree, committed, published>>
    BY <1>a, <1>7, OpeningEffect DEF RequireSettled, Steps, Ends, controlVars, worldVars
  <2>2. pc'[p] \notin Live
    BY <2>1 DEF Live, BodySteps
  <2> QED
    BY <2>1, <2>2, QuietAhead
<1>8. ASSUME NEW p \in Process, Hygiene(p), UNCHANGED <<worldVars, localVars, calls, faults>>
      PROVE  Ahead'
  <2>1. /\ /\ Only(p)
        /\ pc'[p] \in {"settled?", "idle", "hygiene", "quarantine", "begin", "release"}
        /\ UNCHANGED <<journal, tree, committed, published>>
    BY <1>a, <1>8, OpeningEffect DEF Hygiene, Steps, Ends, controlVars, worldVars
  <2>2. pc'[p] \notin Live
    BY <2>1 DEF Live, BodySteps
  <2> QED
    BY <2>1, <2>2, QuietAhead
<1>9. ASSUME NEW p \in Process, Begin(p), UNCHANGED <<worldVars, localVars, calls, faults>>
      PROVE  Ahead'
  <2>1. pc[p] = "begin" /\ UNCHANGED <<tree, committed, published>>
    BY <1>a, <1>9, BeginEffect DEF Begin, worldVars
  <2>2. Unresolved = {}
    BY <1>b, <2>1 DEF ControlOf
  <2>3. ASSUME NEW i \in Integration PROVE ~Differs(i)
    BY <2>2 DEF Ahead, AheadOf
  <2> QED
    BY <2>1, <2>3 DEF Ahead, Differs
<1>10. ASSUME NEW p \in Process, RecordAcceptance(p)
      PROVE  Ahead'
  <2>1. /\ pc[p] \in Live /\ Only(p) /\ target'[p] = target[p]
        /\ pc'[p] = "finish" => outcome'[p] = "error"
        /\ Running(p, "acceptance.record")
        /\ UNCHANGED <<journal, committed, published>>
        /\ \/ UNCHANGED tree
           \/ tree' = [tree EXCEPT !.decision[target[p]] = "accepted"]
           \/ tree' = [tree EXCEPT !.decision[target[p]] = "rejected"]
    BY <1>a, <1>10, RecordAcceptanceEffect DEF Steps, Returns, Live, BodySteps, worldVars
  <2>2. target[p] \in Integration
    BY <1>b, <2>1 DEF AssignedTo, Recovering, Running, Live, BodySteps
  <2>3. tree'.status = tree.status
    BY <1>a, <2>1, <2>2, TreeAfter
  <2> QED
    BY <2>1, <2>3, LiveAhead
<1>11. ASSUME NEW p \in Process, MarkAccepted(p)
      PROVE  Ahead'
  <2>1. /\ pc[p] = "accept" /\ pc'[p] = "accept cards" /\ Only(p)
        /\ op'[p] = op[p] /\ mem'[p] = mem[p] /\ target'[p] = target[p]
        /\ tree' = [tree EXCEPT !.status[target[p]] = "accepted"]
        /\ UNCHANGED <<journal, committed, published>>
    BY <1>a, <1>11, MarkAcceptedEffect DEF Steps, worldVars
  <2>2. /\ target[p] \in Integration /\ ~Promoting(p)
        /\ tree.status[target[p]] = "reviewed"
    BY <1>b, <2>1 DEF AssignedTo, Recovering, Running, Promoting, BodyOf
  <2>3. /\ tree'.status[target[p]] = "accepted"
        /\ \A j \in Integration : j # target[p] => tree'.status[j] = tree.status[j]
    BY <1>a, <2>1, <2>2, TreeAfter
  <2>4. target[p] \notin published
    BY <2>2 DEF World, Kept
  <2>5. pc[p] \in Live /\ pc'[p] \in Live \ {"finish"}
    BY <2>1 DEF Live, BodySteps
  <2> QED
    BY <2>1, <2>2, <2>3, <2>4, <2>5, SettlingAhead
<1>12. ASSUME NEW p \in Process, AcceptCard(p)
      PROVE  Ahead'
  <2>1. /\ pc[p] \in Live /\ Only(p) /\ target'[p] = target[p]
        /\ pc'[p] = "finish" => outcome'[p] = "error"
        /\ UNCHANGED <<journal, committed, published>>
        /\ \/ UNCHANGED tree
           \/ \E c \in Members[target[p]] : tree' = [tree EXCEPT !.card[c] = "accepted"]
    BY <1>a, <1>12, AcceptCardEffect DEF Steps, Returns, Live, BodySteps, worldVars
  <2>2. target[p] \in Integration
    BY <1>a, <1>b, <1>12, AcceptCardEffect DEF AssignedTo, Recovering, Running
  <2>3. tree'.status = tree.status
    <3>1. ASSUME NEW c \in Members[target[p]], tree' = [tree EXCEPT !.card[c] = "accepted"]
          PROVE  tree'.status = tree.status
      BY <1>a, <2>2, <3>1, TreeAfter
    <3> QED
      BY <2>1, <3>1
  <2> QED
    BY <2>1, <2>3, LiveAhead
<1>13. ASSUME NEW p \in Process, MarkAbandoned(p)
      PROVE  Ahead'
  <2>1. /\ pc[p] = "body" /\ Running(p, "integration.abandon") /\ Only(p)
        /\ op'[p] = op[p] /\ mem'[p] = mem[p] /\ target'[p] = target[p]
        /\ UNCHANGED <<journal, committed, published>>
        /\ \/ /\ pc'[p] = "return cards" /\ tree.status[target[p]] \in {"reviewed", "accepted"}
              /\ tree' = [tree EXCEPT !.status[target[p]] = "abandoned"]
           \/ pc'[p] = "finish" /\ outcome'[p] = "error" /\ UNCHANGED tree
    BY <1>a, <1>13, MarkAbandonedEffect DEF Steps, Returns, worldVars
  <2>2. target[p] \in Integration /\ ~Promoting(p)
    BY <1>b, <2>1 DEF AssignedTo, Recovering, Running, Promoting
  <2>3. pc[p] \in Live
    BY <2>1 DEF Live, BodySteps
  <2>4. CASE pc'[p] = "finish" /\ outcome'[p] = "error" /\ UNCHANGED tree
    BY <2>1, <2>3, <2>4, LiveAhead
  <2>5. CASE /\ pc'[p] = "return cards" /\ tree.status[target[p]] \in {"reviewed", "accepted"}
             /\ tree' = [tree EXCEPT !.status[target[p]] = "abandoned"]
    <3>1. /\ tree'.status[target[p]] = "abandoned"
          /\ \A j \in Integration : j # target[p] => tree'.status[j] = tree.status[j]
      BY <1>a, <2>2, <2>5, TreeAfter
    <3>2. target[p] \notin published
      BY <1>b, <2>2, <2>3, <2>5 DEF BodyOf, AllWhole, Recorded
    <3>3. pc'[p] \in Live \ {"finish"}
      BY <2>5 DEF Live, BodySteps
    <3> QED
      BY <2>1, <2>2, <2>3, <2>5, <3>1, <3>2, <3>3, SettlingAhead
  <2> QED
    BY <2>1, <2>4, <2>5
<1>14. ASSUME NEW p \in Process, ReturnCard(p)
      PROVE  Ahead'
  <2>1. /\ pc[p] \in Live /\ Only(p) /\ target'[p] = target[p]
        /\ pc'[p] = "finish" => outcome'[p] = "error"
        /\ UNCHANGED <<journal, committed, published>>
        /\ \/ UNCHANGED tree
           \/ \E c \in Members[target[p]] : tree' = [tree EXCEPT !.card[c] = "approved"]
    BY <1>a, <1>14, ReturnCardEffect DEF Steps, Returns, Live, BodySteps, worldVars
  <2>2. target[p] \in Integration
    BY <1>a, <1>b, <1>14, ReturnCardEffect DEF AssignedTo, Recovering, Running
  <2>3. tree'.status = tree.status
    <3>1. ASSUME NEW c \in Members[target[p]], tree' = [tree EXCEPT !.card[c] = "approved"]
          PROVE  tree'.status = tree.status
      BY <1>a, <2>2, <3>1, TreeAfter
    <3> QED
      BY <2>1, <3>1
  <2> QED
    BY <2>1, <2>3, LiveAhead
<1>15. ASSUME NEW p \in Process, AnnouncePublish(p)
      PROVE  Ahead'
  <2>1. /\ pc[p] \in Live /\ published \subseteq published'
        /\ UNCHANGED <<tree, committed>>
    BY <1>a, <1>15, AnnouncePublishEffect DEF Live, BodySteps, controlVars, worldVars
  <2>2. Promoting(p)
    BY <1>a, <1>b, <1>15, AnnouncePublishEffect DEF AssignedTo, Recovering, Running, Promoting
  <2> QED
    BY <2>1, <2>2, PromotingAhead
<1>16. ASSUME NEW p \in Process, Publish(p)
      PROVE  Ahead'
  <2>1. /\ pc[p] \in Live /\ published \subseteq published'
        /\ UNCHANGED <<tree, committed>>
    BY <1>a, <1>16, PublishEffect DEF Live, BodySteps, controlVars, worldVars
  <2>2. Promoting(p)
    BY <1>a, <1>b, <1>16, PublishEffect DEF AssignedTo, Recovering, Running, Promoting
  <2> QED
    BY <2>1, <2>2, PromotingAhead
<1>17. ASSUME NEW p \in Process, Published(p)
      PROVE  Ahead'
  <2>1. /\ pc[p] \in Live /\ published \subseteq published'
        /\ UNCHANGED <<tree, committed>>
    BY <1>a, <1>17, PublishedEffect DEF Live, BodySteps, controlVars, worldVars
  <2>2. Promoting(p)
    BY <1>a, <1>b, <1>17, PublishedEffect DEF AssignedTo, Recovering, Running, Promoting
  <2> QED
    BY <2>1, <2>2, PromotingAhead
<1>18. ASSUME NEW p \in Process, SyncLocalMain(p)
      PROVE  Ahead'
  <2>1. /\ pc[p] \in Live /\ published \subseteq published'
        /\ UNCHANGED <<tree, committed>>
    BY <1>a, <1>18, SyncLocalMainEffect DEF Live, BodySteps, controlVars, worldVars
  <2>2. Promoting(p)
    BY <1>a, <1>b, <1>18, SyncLocalMainEffect DEF AssignedTo, Recovering, Running, Promoting
  <2> QED
    BY <2>1, <2>2, PromotingAhead
<1>19. ASSUME NEW p \in Process, MarkPromoted(p)
      PROVE  Ahead'
  <2>1. /\ pc[p] = "mark" /\ UNCHANGED <<committed, published>>
        /\ tree' = [tree EXCEPT !.status[target[p]] = "promoted"]
    BY <1>a, <1>19, MarkPromotedEffect DEF worldVars
  <2>2. target[p] \in Integration /\ Promoting(p) /\ target[p] \in published
    BY <1>b, <2>1 DEF AssignedTo, Promoting, BodyOf
  <2>3. \A j \in Integration : j # target[p] => tree'.status[j] = tree.status[j]
    BY <1>a, <2>1, <2>2, TreeAfter
  <2>4. tree.status[target[p]] # "abandoned"
    BY <2>2 DEF World, Kept
  <2>5. pc[p] \in Live
    BY <2>1 DEF Live, BodySteps
  <2> QED
    BY <2>1, <2>2, <2>3, <2>4, <2>5, PromotingAhead
<1>20. ASSUME NEW p \in Process, LandCard(p)
      PROVE  Ahead'
  <2>1. /\ pc[p] \in Live /\ Only(p) /\ target'[p] = target[p]
        /\ pc'[p] = "finish" => outcome'[p] = "error"
        /\ UNCHANGED <<journal, committed, published>>
        /\ \/ UNCHANGED tree
           \/ \E c \in Members[target[p]] : tree' = [tree EXCEPT !.card[c] = "landed"]
    BY <1>a, <1>20, LandCardEffect DEF Steps, Returns, Live, BodySteps, worldVars
  <2>2. target[p] \in Integration
    BY <1>a, <1>b, <1>20, LandCardEffect DEF AssignedTo, Recovering, Running
  <2>3. tree'.status = tree.status
    <3>1. ASSUME NEW c \in Members[target[p]], tree' = [tree EXCEPT !.card[c] = "landed"]
          PROVE  tree'.status = tree.status
      BY <1>a, <2>2, <3>1, TreeAfter
    <3> QED
      BY <2>1, <3>1
  <2> QED
    BY <2>1, <2>3, LiveAhead
<1>21. ASSUME NEW p \in Process, ClearLock(p)
      PROVE  Ahead'
  <2>1. /\ Only(p) /\ pc'[p] \in {"idle", "settle"}
        /\ UNCHANGED <<journal, tree, committed, published>>
    BY <1>a, <1>21, ClearLockEffect DEF Steps, Ends, worldVars
  <2>2. pc'[p] \notin Live
    BY <2>1 DEF Live, BodySteps
  <2> QED
    BY <2>1, <2>2, QuietAhead
<1>22. ASSUME NEW p \in Process, SettleFound(p)
      PROVE  Ahead'
  <2>1. pc[p] = "settle" /\ UNCHANGED <<tree, committed, published>>
    BY <1>a, <1>22, SettleFoundEffect DEF worldVars
  <2>2. Unresolved # {} /\ \A n \in Unresolved : IsPromotion(journal[n])
    BY <1>b, <2>1 DEF AssignedTo, ControlOf, RecoveryGoes
  <2>3. ASSUME NEW i \in Integration PROVE ~Differs(i)
    BY <2>2 DEF Ahead, AheadOf, IsPromotion
  <2> QED
    BY <2>1, <2>3 DEF Ahead, Differs
<1>23. ASSUME NEW p \in Process, Resume(p)
      PROVE  Ahead'
  <2>1. /\ pc[p] \in Live /\ published \subseteq published'
        /\ UNCHANGED <<tree, committed>>
    BY <1>a, <1>23, ResumeEffect DEF Live, BodySteps, controlVars, worldVars
  <2>2. Promoting(p)
    BY <1>a, <1>b, <1>23, ResumeEffect DEF AssignedTo, Recovering, Running, Promoting
  <2> QED
    BY <2>1, <2>2, PromotingAhead
<1>24. ASSUME NEW p \in Process, AppendEvent(p)
      PROVE  Ahead'
  <2>1. /\ pc[p] = "event" /\ pc'[p] = "stage" /\ Only(p) /\ target'[p] = target[p]
        /\ tree' = Logged(tree, EventOf[mem[p].command], target[p])
        /\ UNCHANGED <<journal, committed, published>>
    BY <1>a, <1>24, AppendEventEffect DEF Steps, worldVars
  <2>2. target[p] \in Integration
    BY <1>b, <2>1 DEF AssignedTo
  <2>3. tree'.status = tree.status
    BY <1>a, <2>1, <2>2, TreeAfter
  <2> QED
    BY <2>1, <2>3, LiveAhead DEF Live, BodySteps
<1>25. ASSUME NEW p \in Process, Stage(p)
      PROVE  Ahead'
  <2>1. /\ pc[p] \in Live /\ Only(p) /\ target'[p] = target[p]
        /\ pc'[p] = "finish" => outcome'[p] = "error"
        /\ UNCHANGED <<journal, tree, committed, published>>
    BY <1>a, <1>25, StageEffect DEF Steps, Returns, Live, BodySteps, worldVars
  <2> QED
    BY <2>1, LiveAhead
<1>26. ASSUME NEW p \in Process, CommitRecords(p)
      PROVE  Ahead'
  <2>1. committed' = tree /\ UNCHANGED tree
    BY <1>a, <1>26, CommitRecordsEffect
  <2> QED
    BY <2>1 DEF Ahead, Differs
<1>27. ASSUME NEW p \in Process, Finish(p), SameWorld
      PROVE  Ahead'
  <2>1. /\ pc[p] = "finish" /\ pc'[p] = "release" /\ Only(p)
        /\ UNCHANGED <<tree, committed, published>>
        /\ \E state \in {"completed", "failed_clean", "failed_partial"} :
              /\ journal' = [journal EXCEPT ![op[p]] = Finished(p, mem[p], state)]
              /\ state = "completed" => outcome[p] = "ok"
              /\ state = "failed_clean" => Clean
    BY <1>a, <1>27, FinishEffect DEF Steps, worldVars
  <2>2. SUFFICES ASSUME NEW i \in Integration, Differs(i) PROVE AheadOf(i)'
    BY <2>1 DEF Ahead, Differs
  <2>3. AheadOf(i) /\ outcome[p] # "ok" /\ ~Clean
    BY <2>1, <2>2 DEF Ahead, AheadOf, Differs, Clean
  <2>4. journal' = [journal EXCEPT ![op[p]] = Finished(p, mem[p], "failed_partial")]
    BY <2>1, <2>3
  <2>5. op[p] \in OpId /\ journal[op[p]] = mem[p] /\ Unresolved = {op[p]}
    BY <2>1, OwnEntry DEF Live
  <2>6. /\ journal'[op[p]].state = "failed_partial"
        /\ journal'[op[p]].command = mem[p].command
        /\ \A n \in OpId : n # op[p] => journal'[n] = journal[n]
    BY <1>a, <1>b, <2>4, <2>5, Fields DEF TypeOK
  <2>7. Unresolved' = {op[p]}
    BY <2>5, <2>6 DEF Unresolved, NeedsRecovery
  <2>8. mem[p].command \notin {"integration.promote", "project.recover"}
    BY <2>3, <2>5 DEF AheadOf
  <2>9. ASSUME NEW q \in Process
        PROVE  /\ pc'[q] \in Live => target'[q] = i
               /\ ~(pc'[q] = "finish" /\ outcome'[q] = "ok")
    BY <2>1, <2>3 DEF AheadOf, Only, Live, BodySteps
  <2> QED
    BY <2>1, <2>3, <2>6, <2>7, <2>8, <2>9 DEF AheadOf
<1>28. ASSUME NEW p \in Process, End(p)
      PROVE  Ahead'
  <2>1. /\ Only(p) /\ pc'[p] \in {"idle"}
        /\ UNCHANGED <<journal, tree, committed, published>>
    BY <1>a, <1>28, EndEffect DEF Ends, worldVars
  <2>2. pc'[p] \notin Live
    BY <2>1 DEF Live, BodySteps
  <2> QED
    BY <2>1, <2>2, QuietAhead
<1>29. ASSUME NEW p \in Process, BodyFails(p)
      PROVE  Ahead'
  <2>1. /\ pc[p] \in Live /\ Only(p) /\ target'[p] = target[p]
        /\ pc'[p] = "finish" => outcome'[p] # "ok"
        /\ UNCHANGED <<journal, tree, committed, published>>
    BY <1>a, <1>29, BodyFailsEffect DEF Steps, Returns, Live, controlVars, worldVars
  <2> QED
    BY <2>1, LiveAhead
<1>30. ASSUME NEW p \in Process, Killed(p)
      PROVE  Ahead'
  <2>1. /\ Only(p) /\ pc'[p] \in {"idle"}
        /\ UNCHANGED <<journal, tree, committed, published>>
    BY <1>a, <1>30, KilledEffect DEF Ends, worldVars
  <2>2. pc'[p] \notin Live
    BY <2>1 DEF Live, BodySteps
  <2> QED
    BY <2>1, <2>2, QuietAhead
<1>31. CASE EditLocal
  BY <1>31, StillAhead DEF EditLocal, controlVars, processVars, localVars
<1>32. CASE TidyLocal
  BY <1>32, StillAhead DEF TidyLocal, controlVars, processVars, localVars
<1>33. CASE ForeignPush
  BY <1>33, StillAhead DEF ForeignPush, controlVars, processVars, localVars
<1>34. CASE RemoveIndexLock
  BY <1>34, StillAhead DEF RemoveIndexLock, processVars, worldVars, localVars
<1> QED
  BY <1>0, <1>1, <1>2, <1>3, <1>4, <1>5, <1>6, <1>7, <1>8, <1>9, <1>10, <1>11, <1>12,
     <1>13, <1>14, <1>15, <1>16, <1>17, <1>18, <1>19, <1>20, <1>21, <1>22, <1>23,
     <1>24, <1>25, <1>26, <1>27, <1>28, <1>29, <1>30, <1>31, <1>32, <1>33, <1>34
  DEF Next, Work, Opening, SameWorld

(***************************************************************************)
(* The steps of a promotion, seen as one.                                  *)
(***************************************************************************)

\* Initially every integration is reviewed or accepted.
LEMMA AtomicInit == Init => Atomic!Init
<1> SUFFICES ASSUME Init PROVE Atomic!Init
  OBVIOUS
<1>1. PICK accepted \in SUBSET Integration : committed = Initial(accepted)
  BY DEF Init, InitControl
<1>2. \A i \in Integration : committed.status[i] \in {"reviewed", "accepted"}
  BY <1>1 DEF Initial
<1>3. published = {} /\ authority = Baseline
  BY DEF Init
<1> QED
  BY <1>2, <1>3 DEF Atomic!Init, Phase

\* A publication is the promotion, a commit settles one integration or none.
LEMMA AtomicStep ==
    ASSUME Typed, Control, World, Ahead, [Next]_vars
    PROVE  Atomic!Next \/ UNCHANGED Atomic!vars
<1>a. TypeOK /\ tree \in Records /\ committed \in Records /\ published \subseteq Integration
  BY DEF Typed, TypeOK
<1>b. ASSUME NEW p \in Process PROVE AssignedTo(p) /\ BodyOf(p)
  BY DEF Typed, Assigned, World
<1>1. CASE UNCHANGED <<authority, published, committed>>
  BY <1>1 DEF Atomic!vars, Phase
<1>2. CASE ForeignPush
  <2>1. authority' = Elsewhere /\ UNCHANGED <<published, committed>>
    BY <1>2 DEF ForeignPush, controlVars
  <2>2. UNCHANGED Phase
    BY <2>1 DEF Phase
  <2>3. Atomic!ForeignPush
    BY <2>1, <2>2, PromotionAssumption DEF Atomic!ForeignPush
  <2> QED
    BY <2>3 DEF Atomic!Next
<1>3. ASSUME NEW p \in Process, Publish(p), ~UNCHANGED <<authority, published>>
      PROVE  \E i \in Integration : Atomic!Promote(i)
  <2>1. /\ pc[p] = "publish" /\ authority = Baseline /\ authority' = target[p]
        /\ published' = published \cup {target[p]} /\ UNCHANGED committed
    BY <1>a, <1>3, PublishEffect DEF controlVars
  <2>2. /\ target[p] \in Integration /\ Promoting(p) /\ tree.status[target[p]] = "accepted"
        /\ pc[p] \in Live
    BY <1>b, <2>1
    DEF AssignedTo, BodyOf, Recovering, Running, Promoting, Live, BodySteps
  <2>3. PICK i \in Integration : i = target[p]
    BY <2>2
  <2>4. published = {}
    BY <2>1, PromotionAssumption DEF World, OneLanding
  <2>5. committed.status[i] = "accepted"
    <3>1. ~Differs(i)
      BY <2>2, NoneDiffers
    <3> QED
      BY <2>2, <2>3, <2>4, <3>1 DEF Differs
  <2>6. Phase[i] = "accepted"
    BY <2>4, <2>5 DEF Phase
  <2>7. Phase' = [Phase EXCEPT ![i] = "promoted"]
    BY <2>1, <2>3, <2>4, <2>5 DEF Phase
  <2> QED
    BY <2>1, <2>3, <2>6, <2>7 DEF Atomic!Promote
<1>4. ASSUME NEW p \in Process, CommitRecords(p)
      PROVE  Atomic!Next \/ UNCHANGED Atomic!vars
  <2>1. /\ pc[p] = "commit" /\ committed' = tree /\ UNCHANGED <<tree, authority, published>>
    BY <1>a, <1>4, CommitRecordsEffect DEF worldVars
  <2>2. pc[p] \in Live
    BY <2>1 DEF Live
  <2>3. ASSUME NEW i \in Integration, ~Differs(i) PROVE Phase'[i] = Phase[i]
    <3>1. CASE i \in published
      <4>1. tree.status[i] # "abandoned" /\ committed.status[i] # "abandoned"
        BY <3>1 DEF World, Kept, Ahead
      <4> QED
        BY <2>1, <3>1, <4>1 DEF Phase
    <3>2. CASE i \notin published
      BY <2>1, <2>3, <3>2 DEF Phase, Differs
    <3> QED
      BY <3>1, <3>2
  <2>4. DOMAIN Phase = Integration /\ Phase = [i \in Integration |-> Phase[i]]
        /\ Phase' = [i \in Integration |-> Phase'[i]]
    BY DEF Phase
  <2>5. CASE \A i \in Integration : ~Differs(i)
    BY <2>1, <2>3, <2>4, <2>5 DEF Atomic!vars
  <2>6. ASSUME NEW i \in Integration, Differs(i)
        PROVE  Atomic!Accept(i) \/ Atomic!Abandon(i)
    <3>1. AheadOf(i) /\ target[p] = i
      BY <2>2, <2>6 DEF Ahead, AheadOf
    <3>2. \A j \in Integration : j # i => Phase'[j] = Phase[j]
      BY <2>2, <2>3, <3>1 DEF Ahead, AheadOf
    <3>3. i \notin published /\ Phase[i] = committed.status[i] /\ Phase'[i] = tree.status[i]
      BY <2>1, <2>6 DEF Phase, Differs
    <3>4. Phase' = [Phase EXCEPT ![i] = tree.status[i]]
      BY <2>4, <3>2, <3>3
    <3> QED
      BY <2>1, <3>1, <3>3, <3>4 DEF AheadOf, Atomic!Accept, Atomic!Abandon
  <2> QED
    BY <2>5, <2>6 DEF Atomic!Next
<1>5. ASSUME NEW p \in Process, CommitRecords(p) PROVE UNCHANGED <<authority, published>>
  BY <1>a, <1>5, CommitRecordsEffect DEF worldVars
<1> QED
  BY <1>a, <1>1, <1>2, <1>3, <1>4, Writers DEF Atomic!Next

(***************************************************************************)
(* The local branch follows the authority, whatever the operator does.     *)
(***************************************************************************)
Followed ==
    /\ authority \in Integration => authority \in published
    /\ LocalNeverAhead
    /\ \A p \in Process : pc[p] \in {"published", "sync"} => target[p] \in published

\* Every step leaves the local branch behind the authority.
LEMMA FollowedStep ==
    ASSUME Typed, Followed, [Next]_vars
    PROVE  Followed'
<1>a. TypeOK
  BY DEF Typed
<1>b. ASSUME NEW p \in Process PROVE AssignedTo(p)
  BY DEF Typed, Assigned
<1>1. /\ published \subseteq published'
      /\ (authority' \in Integration => authority' \in published')
  <2>1. CASE UNCHANGED <<authority, published>>
    BY <2>1 DEF Followed
  <2>2. CASE ForeignPush
    BY <2>2, PromotionAssumption DEF ForeignPush
  <2>3. ASSUME NEW p \in Process, Publish(p)
        PROVE  /\ published \subseteq published'
               /\ authority' \in Integration => authority' \in published'
    BY <1>a, <2>3, PublishEffect DEF Followed
  <2> QED
    BY <1>a, <2>1, <2>2, <2>3, Writers
<1>2. LocalNeverAhead'
  <2>1. ASSUME NEW p \in Process, SyncLocalMain(p)
        PROVE  localMain' = localMain \/ localMain' \in published
    BY <1>a, <2>1, SyncLocalMainEffect DEF Followed
  <2> QED
    BY <1>a, <1>1, <2>1, Writers DEF Followed, LocalNeverAhead
<1> DEFINE Follows(p) == pc'[p] \in {"published", "sync"} => target'[p] \in published'
<1>c. ASSUME NEW q \in Process, pc'[q] = pc[q], target'[q] = target[q] PROVE Follows(q)
  BY <1>1, <1>c DEF Followed
<1>d. ASSUME NEW p \in Process, Only(p), Follows(p) PROVE \A q \in Process : Follows(q)
  BY <1>c, <1>d DEF Only
<1>e. ASSUME NEW p \in Process, Only(p), pc'[p] \notin {"published", "sync"}
      PROVE  \A q \in Process : Follows(q)
  BY <1>d, <1>e
<1> HIDE DEF Follows
<1>f. ASSUME pc' = pc, target' = target PROVE \A q \in Process : Follows(q)
  BY <1>c, <1>f
<1>3. \A q \in Process : Follows(q)
  <2>0. CASE UNCHANGED vars
    BY <1>f, <2>0 DEF vars, processVars, localVars
  <2>1. ASSUME NEW p \in Process, NEW i \in Integration, CallPromote(p, i)
        PROVE  \A q \in Process : Follows(q)
    <3>1. Invoke(p, "integration.promote", i)
      BY <2>1 DEF CallPromote
    <3>2. Only(p) /\ pc'[p] = "acquire"
      BY <1>a, <3>1, InvokeEffect
    <3> QED
      BY <1>e, <3>2
  <2>2. ASSUME NEW p \in Process, NEW i \in Integration, CallAbandon(p, i)
        PROVE  \A q \in Process : Follows(q)
    <3>1. Invoke(p, "integration.abandon", i)
      BY <2>2 DEF CallAbandon
    <3>2. Only(p) /\ pc'[p] = "acquire"
      BY <1>a, <3>1, InvokeEffect
    <3> QED
      BY <1>e, <3>2
  <2>3. ASSUME NEW p \in Process, NEW i \in Integration, CallAccept(p, i)
        PROVE  \A q \in Process : Follows(q)
    <3>1. Invoke(p, "acceptance.record", i)
      BY <2>3 DEF CallAccept
    <3>2. Only(p) /\ pc'[p] = "acquire"
      BY <1>a, <3>1, InvokeEffect
    <3> QED
      BY <1>e, <3>2
  <2>4. ASSUME NEW p \in Process, StartRecovery(p)
        PROVE  \A q \in Process : Follows(q)
    <3>1. Only(p) /\ pc'[p] \in {"clear"}
      BY <1>a, <2>4, StartRecoveryEffect
    <3> QED
      BY <1>e, <3>1
  <2>5. ASSUME NEW p \in Process, Acquire(p), UNCHANGED <<worldVars, localVars, calls, faults>>
        PROVE  \A q \in Process : Follows(q)
    <3>1. /\ Only(p)
          /\ pc'[p] \in {"settled?", "idle", "hygiene", "quarantine", "begin", "release"}
      BY <1>a, <2>5, OpeningEffect DEF Steps, Ends
    <3> QED
      BY <1>e, <3>1
  <2>6. ASSUME NEW p \in Process, RefusedLock(p),
               UNCHANGED <<worldVars, localVars, calls, faults>>
        PROVE  \A q \in Process : Follows(q)
    <3>1. /\ Only(p)
          /\ pc'[p] \in {"settled?", "idle", "hygiene", "quarantine", "begin", "release"}
      BY <1>a, <2>6, OpeningEffect DEF Steps, Ends
    <3> QED
      BY <1>e, <3>1
  <2>7. ASSUME NEW p \in Process, RequireSettled(p),
               UNCHANGED <<worldVars, localVars, calls, faults>>
        PROVE  \A q \in Process : Follows(q)
    <3>1. /\ Only(p)
          /\ pc'[p] \in {"settled?", "idle", "hygiene", "quarantine", "begin", "release"}
      BY <1>a, <2>7, OpeningEffect DEF Steps, Ends
    <3> QED
      BY <1>e, <3>1
  <2>8. ASSUME NEW p \in Process, Hygiene(p), UNCHANGED <<worldVars, localVars, calls, faults>>
        PROVE  \A q \in Process : Follows(q)
    <3>1. /\ Only(p)
          /\ pc'[p] \in {"settled?", "idle", "hygiene", "quarantine", "begin", "release"}
      BY <1>a, <2>8, OpeningEffect DEF Steps, Ends
    <3> QED
      BY <1>e, <3>1
  <2>9. ASSUME NEW p \in Process, Begin(p), UNCHANGED <<worldVars, localVars, calls, faults>>
        PROVE  \A q \in Process : Follows(q)
    <3>1. Only(p) /\ pc'[p] \in {"body"}
      BY <1>a, <2>9, BeginEffect DEF Steps, Returns, Ends, Announces
    <3> QED
      BY <1>e, <3>1
  <2>10. ASSUME NEW p \in Process, RecordAcceptance(p)
        PROVE  \A q \in Process : Follows(q)
    <3>1. Only(p) /\ pc'[p] \in {"accept", "event", "finish"}
      BY <1>a, <2>10, RecordAcceptanceEffect DEF Steps, Returns, Ends, Announces
    <3> QED
      BY <1>e, <3>1
  <2>11. ASSUME NEW p \in Process, MarkAccepted(p)
        PROVE  \A q \in Process : Follows(q)
    <3>1. Only(p) /\ pc'[p] \in {"accept cards"}
      BY <1>a, <2>11, MarkAcceptedEffect DEF Steps, Returns, Ends, Announces
    <3> QED
      BY <1>e, <3>1
  <2>12. ASSUME NEW p \in Process, AcceptCard(p)
        PROVE  \A q \in Process : Follows(q)
    <3>1. Only(p) /\ pc'[p] \in {"accept cards", "event", "finish"}
      BY <1>a, <2>12, AcceptCardEffect DEF Steps, Returns, Ends, Announces
    <3> QED
      BY <1>e, <3>1
  <2>13. ASSUME NEW p \in Process, MarkAbandoned(p)
        PROVE  \A q \in Process : Follows(q)
    <3>1. Only(p) /\ pc'[p] \in {"return cards", "finish"}
      BY <1>a, <2>13, MarkAbandonedEffect DEF Steps, Returns, Ends, Announces
    <3> QED
      BY <1>e, <3>1
  <2>14. ASSUME NEW p \in Process, ReturnCard(p)
        PROVE  \A q \in Process : Follows(q)
    <3>1. Only(p) /\ pc'[p] \in {"return cards", "event"}
      BY <1>a, <2>14, ReturnCardEffect DEF Steps, Returns, Ends, Announces
    <3> QED
      BY <1>e, <3>1
  <2>15. ASSUME NEW p \in Process, AnnouncePublish(p)
        PROVE  \A q \in Process : Follows(q)
    <3>1. Only(p) /\ pc'[p] \in {"publish", "finish"}
      BY <1>a, <2>15, AnnouncePublishEffect DEF Steps, Returns, Ends, Announces
    <3> QED
      BY <1>e, <3>1
  <2>16. ASSUME NEW p \in Process, Publish(p)
        PROVE  \A q \in Process : Follows(q)
    <3>1. /\ Only(p) /\ target'[p] = target[p]
          /\ target[p] \in published' \/ pc'[p] = "finish"
      BY <1>a, <2>16, PublishEffect DEF Steps, Returns
    <3> QED
      BY <1>d, <3>1 DEF Follows
  <2>17. ASSUME NEW p \in Process, Published(p)
        PROVE  \A q \in Process : Follows(q)
    <3>1. pc[p] = "published" /\ Only(p) /\ target'[p] = target[p] /\ UNCHANGED published
      BY <1>a, <2>17, PublishedEffect DEF Announces, worldVars
    <3> QED
      BY <1>d, <3>1 DEF Follows, Followed
  <2>18. ASSUME NEW p \in Process, SyncLocalMain(p)
        PROVE  \A q \in Process : Follows(q)
    <3>1. Only(p) /\ pc'[p] \in {"mark", "finish"}
      BY <1>a, <2>18, SyncLocalMainEffect DEF Steps, Returns, Ends, Announces
    <3> QED
      BY <1>e, <3>1
  <2>19. ASSUME NEW p \in Process, MarkPromoted(p)
        PROVE  \A q \in Process : Follows(q)
    <3>1. Only(p) /\ pc'[p] \in {"land"}
      BY <1>a, <2>19, MarkPromotedEffect DEF Steps, Returns, Ends, Announces
    <3> QED
      BY <1>e, <3>1
  <2>20. ASSUME NEW p \in Process, LandCard(p)
        PROVE  \A q \in Process : Follows(q)
    <3>1. Only(p) /\ pc'[p] \in {"event", "finish", "land"}
      BY <1>a, <2>20, LandCardEffect DEF Steps, Returns, Ends, Announces
    <3> QED
      BY <1>e, <3>1
  <2>21. ASSUME NEW p \in Process, ClearLock(p)
        PROVE  \A q \in Process : Follows(q)
    <3>1. Only(p) /\ pc'[p] \in {"idle", "settle"}
      BY <1>a, <2>21, ClearLockEffect DEF Steps, Returns, Ends, Announces
    <3> QED
      BY <1>e, <3>1
  <2>22. ASSUME NEW p \in Process, SettleFound(p)
        PROVE  \A q \in Process : Follows(q)
    <3>1. Only(p) /\ pc'[p] \in {"acquire", "settle"}
      BY <1>a, <2>22, SettleFoundEffect DEF Steps, Returns, Ends, Announces
    <3> QED
      BY <1>e, <3>1
  <2>23. ASSUME NEW p \in Process, Resume(p)
        PROVE  \A q \in Process : Follows(q)
    <3>1. /\ Only(p) /\ UNCHANGED published
          /\ \/ target'[p] \in Integration /\ Resumable(target'[p])
             \/ pc'[p] = "finish"
      BY <1>a, <2>23, ResumeEffect DEF Steps, Returns, worldVars
    <3> QED
      BY <1>d, <3>1 DEF Follows, Followed, Resumable
  <2>24. ASSUME NEW p \in Process, AppendEvent(p)
        PROVE  \A q \in Process : Follows(q)
    <3>1. Only(p) /\ pc'[p] \in {"stage"}
      BY <1>a, <2>24, AppendEventEffect DEF Steps, Returns, Ends, Announces
    <3> QED
      BY <1>e, <3>1
  <2>25. ASSUME NEW p \in Process, Stage(p)
        PROVE  \A q \in Process : Follows(q)
    <3>1. Only(p) /\ pc'[p] \in {"commit", "finish"}
      BY <1>a, <2>25, StageEffect DEF Steps, Returns, Ends, Announces
    <3> QED
      BY <1>e, <3>1
  <2>26. ASSUME NEW p \in Process, CommitRecords(p)
        PROVE  \A q \in Process : Follows(q)
    <3>1. Only(p) /\ pc'[p] \in {"finish"}
      BY <1>a, <2>26, CommitRecordsEffect DEF Steps, Returns, Ends, Announces
    <3> QED
      BY <1>e, <3>1
  <2>27. ASSUME NEW p \in Process, Finish(p), SameWorld
        PROVE  \A q \in Process : Follows(q)
    <3>1. Only(p) /\ pc'[p] \in {"release"}
      BY <1>a, <2>27, FinishEffect DEF Steps, Returns, Ends, Announces
    <3> QED
      BY <1>e, <3>1
  <2>28. ASSUME NEW p \in Process, End(p)
        PROVE  \A q \in Process : Follows(q)
    <3>1. Only(p) /\ pc'[p] \in {"idle"}
      BY <1>a, <2>28, EndEffect DEF Steps, Returns, Ends, Announces
    <3> QED
      BY <1>e, <3>1
  <2>29. ASSUME NEW p \in Process, BodyFails(p)
        PROVE  \A q \in Process : Follows(q)
    <3>1. Only(p) /\ pc'[p] \in {"finish"}
      BY <1>a, <2>29, BodyFailsEffect DEF Steps, Returns, Ends, Announces
    <3> QED
      BY <1>e, <3>1
  <2>30. ASSUME NEW p \in Process, Killed(p)
        PROVE  \A q \in Process : Follows(q)
    <3>1. Only(p) /\ pc'[p] \in {"idle"}
      BY <1>a, <2>30, KilledEffect DEF Steps, Returns, Ends, Announces
    <3> QED
      BY <1>e, <3>1
  <2>31. CASE EditLocal
    BY <1>f, <2>31 DEF EditLocal, processVars, localVars
  <2>32. CASE TidyLocal
    BY <1>f, <2>32 DEF TidyLocal, processVars, localVars
  <2>33. CASE ForeignPush
    BY <1>f, <2>33 DEF ForeignPush, processVars, localVars
  <2>34. CASE RemoveIndexLock
    BY <1>f, <2>34 DEF RemoveIndexLock, processVars, localVars
  <2> QED
    BY <2>0, <2>1, <2>2, <2>3, <2>4, <2>5, <2>6, <2>7, <2>8, <2>9, <2>10, <2>11, <2>12,
       <2>13, <2>14, <2>15, <2>16, <2>17, <2>18, <2>19, <2>20, <2>21, <2>22, <2>23,
       <2>24, <2>25, <2>26, <2>27, <2>28, <2>29, <2>30, <2>31, <2>32, <2>33, <2>34
    DEF Next, Work, Opening, SameWorld
<1> QED
  BY <1>1, <1>2, <1>3 DEF Followed, Follows

(***************************************************************************)
(* Theorems.                                                               *)
(***************************************************************************)
Invariant == Typed /\ Control /\ World /\ Told /\ Ahead

\* Every variable keeps its type, whatever is interrupted and whatever care is
\* taken.
THEOREM TypeCorrect == Spec => []TypeOK
<1>1. Init => Typed
  BY InitTyped
<1>2. Typed /\ [Next]_vars => Typed'
  BY TypedStep
<1>3. Typed => TypeOK
  BY DEF Typed
<1> QED
  BY <1>1, <1>2, <1>3, PTL DEF Spec

\* The local protected branch is only ever moved to what the authority has
\* already published, whatever is interrupted and whatever care is taken.
THEOREM LocalFollowsAuthority == Spec => []LocalNeverAhead
<1>1. Init => Typed /\ Followed
  <2>1. ASSUME Init PROVE Followed
    <3>1. /\ authority = Baseline /\ localMain = Baseline
          /\ \A p \in Process : pc[p] = "idle"
      BY <2>1 DEF Init, InitControl
    <3> QED
      BY <3>1, PromotionAssumption DEF Followed, LocalNeverAhead
  <2> QED
    BY <2>1, InitTyped
<1>2. Typed /\ Followed /\ [Next]_vars => (Typed /\ Followed)'
  BY TypedStep, FollowedStep
<1>3. Typed /\ Followed => LocalNeverAhead
  BY DEF Followed
<1> QED
  BY <1>1, <1>2, <1>3, PTL DEF Spec

\* The inductive invariant, under the cautions of Careful.
THEOREM PromotionInvariant ==
    ASSUME Careful PROVE Spec => []Invariant
<1>1. Init => Invariant
  BY InitTyped, InitControlled, InitWorld, InitTold, InitAhead DEF Invariant
<1>2. Invariant /\ [Next]_vars => Invariant'
  <2> SUFFICES ASSUME Invariant, [Next]_vars PROVE Invariant'
    OBVIOUS
  <2>1. Typed /\ Control /\ World /\ Told /\ Ahead
    BY DEF Invariant
  <2>2. Typed' /\ Control'
    BY <2>1, TypedStep, ControlStep
  <2>3. World' /\ Told' /\ Ahead'
    BY <2>1, <2>2, WorldStep, ToldStep, AheadStep
  <2> QED
    BY <2>2, <2>3 DEF Invariant
<1> QED
  BY <1>1, <1>2, PTL DEF Spec

\* One operation at most is ever unresolved, a promotion, an abandonment, an
\* acceptance or a recovery (require_settled, journal.rs:339).
THEOREM OneOperationInterrupted ==
    ASSUME Careful PROVE Spec => []OneInterruption
<1>1. Invariant => OneInterruption
  BY DEF Invariant, Control
<1> QED
  BY <1>1, PromotionInvariant, PTL

\* Nothing but its own command and a recovery writes a journal entry.
LEMMA JournalWriters ==
    ASSUME Careful, Typed, Control, [Next]_vars
    PROVE  \/ UNCHANGED journal
           \/ \E p \in Process, n \in OpId : \E r :
                /\ journal[n].state = "absent" \/ n \in Unresolved
                /\ journal' = [journal EXCEPT ![n] = r]
<1>a. TypeOK /\ Assigned
  BY DEF Typed
<1>b. ASSUME NEW p \in Process, pc[p] \in Live
      PROVE  op[p] \in OpId /\ op[p] \in Unresolved
  BY <1>b, OwnEntry
<1>1. ASSUME NEW p \in Process, Begin(p), UNCHANGED localVars
      PROVE  \E n \in OpId : \E r : /\ journal[n].state = "absent"
                                /\ journal' = [journal EXCEPT ![n] = r]
  <2>1. PICK n \in OpId : /\ journal[n].state = "absent"
                          /\ journal' = [journal EXCEPT ![n] = mem'[p]]
    BY <1>a, <1>1, BeginEffect
  <2> QED
    BY <2>1
<1>2. ASSUME NEW p \in Process,
             AnnouncePublish(p) \/ Published(p) \/ SyncLocalMain(p) \/ MarkPromoted(p)
      PROVE  UNCHANGED journal \/ \E r : journal' = [journal EXCEPT ![op[p]] = r]
  BY <1>2 DEF AnnouncePublish, Published, SyncLocalMain, MarkPromoted, WriteRecord, Refuse,
              controlVars
<1>3. ASSUME NEW p \in Process,
             AnnouncePublish(p) \/ Published(p) \/ SyncLocalMain(p) \/ MarkPromoted(p)
      PROVE  pc[p] \in Live
  BY <1>3 DEF AnnouncePublish, Published, SyncLocalMain, MarkPromoted, At, Live, BodySteps
<1>4. ASSUME NEW p \in Process, Finish(p), SameWorld
      PROVE  pc[p] \in Live /\ \E r : journal' = [journal EXCEPT ![op[p]] = r]
  BY <1>a, <1>4, FinishEffect DEF Live
<1>5. ASSUME NEW p \in Process, SettleFound(p)
      PROVE  \E n \in OpId : \E r : n \in Unresolved /\ journal' = [journal EXCEPT ![n] = r]
  <2>1. PICK n \in DOMAIN found[p] :
            /\ pc[p] = "settle"
            /\ journal' = [journal EXCEPT ![n] = Finished(p, found[p][n], "completed")]
    BY <1>a, <1>5, SettleFoundEffect
  <2>2. Recovering(p)
    BY <1>a, <2>1 DEF Assigned, AssignedTo
  <2>3. DOMAIN found[p] = Unresolved
    BY <2>1, <2>2 DEF Control, ControlOf, RecoveryGoes
  <2> QED
    BY <2>1, <2>3 DEF Unresolved
<1>6. \/ UNCHANGED journal
      \/ \E p \in Process :
            \/ Begin(p) /\ UNCHANGED localVars
            \/ AnnouncePublish(p) \/ Published(p) \/ SyncLocalMain(p) \/ MarkPromoted(p)
            \/ Finish(p) /\ SameWorld
            \/ SettleFound(p)
  <2>1. ASSUME NEW p \in Process, NEW i \in Integration,
               CallPromote(p, i) \/ CallAbandon(p, i) \/ CallAccept(p, i)
        PROVE  UNCHANGED journal
    BY <2>1 DEF CallPromote, CallAbandon, CallAccept, Invoke, Call, controlVars
  <2>2. ASSUME NEW p \in Process, StartRecovery(p) \/ BodyFails(p) \/ Killed(p)
        PROVE  UNCHANGED journal
    BY <2>2 DEF StartRecovery, BodyFails, Killed, Crash, controlVars
  <2>3. ASSUME NEW p \in Process, Acquire(p) \/ RefusedLock(p) \/ RequireSettled(p) \/ Hygiene(p)
        PROVE  UNCHANGED journal
    BY <2>3 DEF Acquire, RefusedLock, RequireSettled, Hygiene, controlVars
  <2>4. ASSUME NEW p \in Process,
               \/ RecordAcceptance(p) \/ MarkAccepted(p) \/ AcceptCard(p)
               \/ MarkAbandoned(p) \/ ReturnCard(p) \/ AppendEvent(p)
        PROVE  UNCHANGED journal
    BY <2>4 DEF RecordAcceptance, MarkAccepted, AcceptCard, MarkAbandoned, ReturnCard,
                AppendEvent, WriteTree, Refuse, controlVars
  <2>5. ASSUME NEW p \in Process,
               \/ Publish(p) \/ LandCard(p) \/ ClearLock(p) \/ Resume(p)
               \/ Stage(p) \/ CommitRecords(p) \/ End(p)
        PROVE  UNCHANGED journal
    BY <2>5 DEF Publish, Rejected, LandCard, ClearLock, Resume, Stage, StageCommit,
                CommitRecords, InstallCommit, End, Release, WriteTree, Refuse, controlVars
  <2>6. CASE EditLocal \/ TidyLocal \/ ForeignPush \/ RemoveIndexLock
    BY <2>6 DEF EditLocal, TidyLocal, ForeignPush, RemoveIndexLock, controlVars
  <2>7. CASE UNCHANGED vars
    BY <2>7 DEF vars, controlVars
  <2> QED
    BY <2>1, <2>2, <2>3, <2>4, <2>5, <2>6, <2>7 DEF Next, Work, Opening
<1> QED
  BY <1>b, <1>1, <1>2, <1>3, <1>4, <1>5, <1>6

\* A record says of itself who settled it.
LEMMA Resettled == ASSUME NEW r \in Record(Command, Records) PROVE r = [r EXCEPT !.by = r.by]
<1> HIDE DEF Records
<1> QED
  BY DEF Record

\* A settled entry keeps its outcome: a recovery that runs alone writes back only
\* copies of what is still unresolved (project.rs:1547-1551).
THEOREM SettlementStands ==
    ASSUME Careful PROVE Spec => SettlementIsFinal
<1> DEFINE Stands == \A n \in OpId : journal[n].state \in {"completed", "failed_clean"}
                        => journal'[n] = [journal[n] EXCEPT !.by = journal'[n].by]
<1>1. Invariant /\ [Next]_vars => [Stands]_journal
  <2> SUFFICES ASSUME Invariant, [Next]_vars, NEW n \in OpId,
                      journal[n].state \in {"completed", "failed_clean"}
               PROVE  journal'[n] = [journal[n] EXCEPT !.by = journal'[n].by]
    OBVIOUS
  <2>1. TypeOK /\ Typed /\ Control
    BY DEF Invariant, Typed
  <2>2. journal'[n] = journal[n]
    BY <2>1, JournalWriters DEF TypeOK, Unresolved, NeedsRecovery
  <2>3. journal[n] \in Record(Command, Records)
    BY <2>1 DEF TypeOK
  <2> QED
    BY <2>2, <2>3, Resettled
<1> QED
  BY <1>1, PromotionInvariant, PTL DEF SettlementIsFinal, Spec

\* From the moment the authority moves until the promotion is recorded, an
\* unresolved entry or a recovery tells of it. Of a recovery that is killed
\* this is shown where its own entry already tells of work outside control, or
\* where it has settled nothing; between the two (project.rs:1547-1551) it is
\* assumed to survive.
THEOREM PublishedAlwaysEvident ==
    ASSUME Careful PROVE Spec => []PublishedIsEvident
<1>1. Invariant => PublishedIsEvident
  BY DEF Invariant, World, Evident, AllWhole, Recorded, PublishedIsEvident
<1> QED
  BY <1>1, PromotionInvariant, PTL

\* The integration of a published landing is never abandoned and the ref that
\* keeps its commit alive is never released.
THEOREM PublishedNeverGivenUp ==
    ASSUME Careful PROVE Spec => []PublishedLandingKept
<1>1. Invariant => PublishedLandingKept
  BY DEF Invariant, Typed, TypeOK, World, Kept, PublishedLandingKept
<1> QED
  BY <1>1, PromotionInvariant, PTL

\* A promotion the committed records tell of has all its cards landed, and its
\* event in the log no more than once.
THEOREM CommittedAlwaysWhole ==
    ASSUME Careful PROVE Spec => []CommittedPromotionIsWhole
<1>1. Invariant => CommittedPromotionIsWhole
  BY DEF Invariant, Typed, Told, CommittedPromotionIsWhole
<1> QED
  BY <1>1, PromotionInvariant, PTL

\* Seen from outside a promotion is one step, and an abandonment excludes it.
THEOREM PromotionIsAtomic ==
    ASSUME Careful PROVE Spec => ImplementsAtomicPromotion
<1>1. Init => Atomic!Init
  BY AtomicInit
<1>2. Invariant /\ [Next]_vars => [Atomic!Next]_Atomic!vars
  BY AtomicStep DEF Invariant
<1> QED
  BY <1>1, <1>2, PromotionInvariant, PTL DEF Spec, ImplementsAtomicPromotion, Atomic!Spec
=============================================================================
