---------------------------- MODULE ControlProofs ----------------------------
(***************************************************************************)
(* The safety of the control repository. First the project lock, for any   *)
(* number of process incarnations, any reuse of process numbers and any    *)
(* clock, provided recoveries are run one at a time (SerialRecovery). Then *)
(* with_transaction, which leaves evidence of every part-way state, for    *)
(* any number of processes, operations and record contents.                *)
(***************************************************************************)
EXTENDS ProjectLock, Transaction, TLAPS

(***************************************************************************)
(* The inductive invariant. A stale verdict comes from two observations at *)
(* different times - the liveness of the holder, then the lock file again  *)
(* - so it is not a fact about one moment; what makes it sound is that     *)
(* "gone" is for ever and that a lock whose holder is gone is abandoned.   *)
(***************************************************************************)

\* A lock file names a process inside the protected section, or one that was
\* killed there.
LockHasHistory ==
    lockFile # NoLock => stage[lockFile.process] = "holding" \/ lockFile.process \in abandoned

AbandonedIsGone == \A p \in abandoned : stage[p] = "gone"

\* A holder record was written by a process that has started.
SeenWasBorn == \A p \in Incarnation : seen[p] # NoLock => stage[seen[p].process] # "unborn"

\* The liveness answer: the process that wrote the record has ended. (While a
\* second pass asks, the answer of the first is still there.)
StaleIsGone ==
    \A p \in Incarnation :
        answer[p] = "Stale" /\ stage[p] # "ask" => seen[p] # NoLock /\ stage[seen[p].process] = "gone"

\* A recovery about to remove the lock file is about to remove what it compared.
RemovesWhatItCompared ==
    \A p \in Incarnation : stage[p] = "removing" => answer[p] = "Stale" /\ lockFile = seen[p]

RecoveryKnowsItself ==
    \A p \in Incarnation : stage[p] \in {"clearing", "removing"} => recovering[p]

\* An inspection that goes on to ask has a pass left, and somebody to ask about.
AskIsDue == \A p \in Incarnation : stage[p] = "ask" => passes[p] < MaxPasses /\ seen[p] # NoLock

OneRecovery == \A p, q \in Incarnation : InRecovery(p) /\ InRecovery(q) => p = q

LockInv ==
    /\ LockTypeOK
    /\ AskIsDue
    /\ LockNamesItsHolder
    /\ LockHasHistory
    /\ AbandonedIsGone
    /\ SeenWasBorn
    /\ StaleIsGone
    /\ StaleVerdictIsAbandonment
    /\ RemovesWhatItCompared
    /\ RecoveryKnowsItself
    /\ OneRecovery

LEMMA LockInitInv == LockInit => LockInv
  BY LockAssumption, NoLockAssumption
  DEF LockInit, LockInv, LockTypeOK, AskIsDue, LockNamesItsHolder, LockHasHistory, AbandonedIsGone,
      SeenWasBorn, StaleIsGone, StaleVerdictIsAbandonment, RemovesWhatItCompared,
      RecoveryKnowsItself, OneRecovery, InRecovery, Alive, Diagnosis, MaxPasses

LEMMA LockTypeStep == LockTypeOK /\ AskIsDue /\ [LockNext]_lockVars => LockTypeOK' /\ AskIsDue'
<1> SUFFICES ASSUME LockTypeOK, AskIsDue, [LockNext]_lockVars PROVE LockTypeOK' /\ AskIsDue'
  OBVIOUS
<1> USE LockAssumption, NoLockAssumption DEF LockTypeOK, AskIsDue, Alive, Diagnosis, MaxPasses
<1> DEFINE Goal == LockTypeOK' /\ AskIsDue'
<1>1. CASE UNCHANGED lockVars
  BY <1>1 DEF lockVars
<1>2. ASSUME NEW p \in Incarnation, Spawn(p) PROVE Goal
  BY <1>2 DEF Spawn
<1>3. ASSUME NEW p \in Incarnation, Exit(p) PROVE Goal
  BY <1>3 DEF Exit
<1>4. ASSUME NEW p \in Incarnation, Kill(p) PROVE Goal
  BY <1>4 DEF Kill, ForgetInspection
<1>5. ASSUME NEW p \in Incarnation, NEW at \in Instant, NEW started \in BOOLEAN,
             AcquireWins(p, at, started)
      PROVE  Goal
  BY <1>5 DEF AcquireWins, CanLink, Holder
<1>6. ASSUME NEW p \in Incarnation, NEW forRecovery \in BOOLEAN, Inspect(p, forRecovery)
      PROVE  Goal
  BY <1>6 DEF Inspect
<1>7. ASSUME NEW p \in Incarnation, ReleaseLock(p) PROVE Goal
  BY <1>7 DEF ReleaseLock
<1>8. ASSUME NEW p \in Incarnation, CheckExists(p) PROVE Goal
  BY <1>8 DEF CheckExists, Conclude
<1>9. ASSUME NEW p \in Incarnation, ReadContents(p) PROVE Goal
  BY <1>9 DEF ReadContents, PassesLeft, Conclude, AskAbout
<1>10. ASSUME NEW p \in Incarnation, AskLiveness(p) PROVE Goal
  BY <1>10 DEF AskLiveness, DiagnoseHolder
<1>11. ASSUME NEW p \in Incarnation, Report(p) PROVE Goal
  BY <1>11 DEF Report, ForgetInspection
<1>12. ASSUME NEW p \in Incarnation, CompareStale(p) PROVE Goal
  <2>1. CASE answer[p] = "Stale" /\ lockFile = seen[p]
    BY <1>12, <2>1 DEF CompareStale, StillTheDiagnosed
  <2>2. CASE ~(answer[p] = "Stale" /\ lockFile = seen[p])
    <3>1. /\ stage' = [stage EXCEPT ![p] = "idle"]
          /\ ForgetInspection(p)
          /\ UNCHANGED <<lockFile, abandoned>>
      BY <1>12, <2>2 DEF CompareStale, StillTheDiagnosed
    <3> QED
      BY <3>1 DEF ForgetInspection
  <2> QED
    BY <2>1, <2>2
<1>13. ASSUME NEW p \in Incarnation, RemoveStale(p) PROVE Goal
  BY <1>13 DEF RemoveStale, ForgetInspection
<1> QED
  BY <1>1, <1>2, <1>3, <1>4, <1>5, <1>6, <1>7, <1>8, <1>9, <1>10, <1>11, <1>12, <1>13
  DEF LockNext, LockStep, InspectToRecover, AcquireLoses

(***************************************************************************)
(* The other conjuncts, action by action.                                  *)
(***************************************************************************)
LEMMA LockSafeStep ==
    ASSUME SerialRecovery, LockInv, LockTypeOK', [LockNext]_lockVars
    PROVE  /\ LockNamesItsHolder'
           /\ LockHasHistory'
           /\ AbandonedIsGone'
           /\ SeenWasBorn'
           /\ StaleIsGone'
           /\ StaleVerdictIsAbandonment'
           /\ RemovesWhatItCompared'
           /\ RecoveryKnowsItself'
           /\ OneRecovery'
<1> DEFINE Goal == /\ LockNamesItsHolder'
                   /\ LockHasHistory'
                   /\ AbandonedIsGone'
                   /\ SeenWasBorn'
                   /\ StaleIsGone'
                   /\ StaleVerdictIsAbandonment'
                   /\ RemovesWhatItCompared'
                   /\ RecoveryKnowsItself'
                   /\ OneRecovery'
<1> USE LockAssumption, NoLockAssumption
    DEF LockInv, LockTypeOK, LockNamesItsHolder, LockHasHistory, AbandonedIsGone, SeenWasBorn,
        StaleIsGone, StaleVerdictIsAbandonment, RemovesWhatItCompared,
        RecoveryKnowsItself, OneRecovery, InRecovery, Alive, Holder, AskIsDue
<1>1. CASE UNCHANGED lockVars
  BY <1>1 DEF lockVars
<1>2. ASSUME NEW p \in Incarnation, Spawn(p) PROVE Goal
  BY <1>2 DEF Spawn
<1>3. ASSUME NEW p \in Incarnation, Exit(p) PROVE Goal
  BY <1>3 DEF Exit
<1>4. ASSUME NEW p \in Incarnation, Kill(p) PROVE Goal
  BY <1>4 DEF Kill, ForgetInspection
<1>5. ASSUME NEW p \in Incarnation, NEW at \in Instant, NEW started \in BOOLEAN,
             AcquireWins(p, at, started)
      PROVE  Goal
  BY <1>5 DEF AcquireWins, CanLink
<1>6. ASSUME NEW p \in Incarnation, InspectToRecover(p) PROVE Goal
  BY <1>6 DEF InspectToRecover, Inspect
<1>7. ASSUME NEW p \in Incarnation, AcquireLoses(p) PROVE Goal
  BY <1>7 DEF AcquireLoses, Inspect
<1>8. ASSUME NEW p \in Incarnation, ReleaseLock(p) PROVE Goal
  BY <1>8 DEF ReleaseLock
<1>9. ASSUME NEW p \in Incarnation, CheckExists(p) PROVE Goal
  BY <1>9 DEF CheckExists, Conclude
<1>10. ASSUME NEW p \in Incarnation, ReadContents(p) PROVE Goal
  <2>1. CASE lockFile = NoLock /\ Conclude(p, "Ambiguous")
    BY <1>10, <2>1 DEF ReadContents, Conclude
  <2>2. CASE lockFile # NoLock /\ lockFile = seen[p] /\ Conclude(p, answer[p])
    \* A stale answer is confirmed: the holder was already gone, and is the one
    \* the file still names.
    <3>1. answer[p] = "Stale" => seen[p].process \in abandoned
      BY <1>10, <2>2 DEF ReadContents
    <3> QED
      BY <1>10, <2>2, <3>1 DEF ReadContents, Conclude
  <2>3. CASE lockFile # NoLock /\ AskAbout(p, lockFile)
    BY <1>10, <2>3 DEF ReadContents, AskAbout
  <2>4. CASE lockFile # NoLock /\ Conclude(p, "Held")
    BY <1>10, <2>4 DEF ReadContents, Conclude
  <2> QED
    BY <1>10, <2>1, <2>2, <2>3, <2>4 DEF ReadContents
<1>11. ASSUME NEW p \in Incarnation, AskLiveness(p) PROVE Goal
  \* Whatever runs under the number, the process that wrote the record does
  \* not, and it had started: it is gone.
  <2>1. answer'[p] = "Stale" => seen[p] # NoLock /\ stage[seen[p].process] = "gone"
    BY <1>11 DEF AskLiveness, DiagnoseHolder, UnderItsNumber
  <2>2. /\ stage' = [stage EXCEPT ![p] = "exists"]
        /\ stage[p] = "ask"
        /\ \A q \in Incarnation : q # p => answer'[q] = answer[q]
        /\ UNCHANGED <<lockFile, recovering, seen, abandoned>>
    BY <1>11 DEF AskLiveness
  <2> QED
    BY <2>1, <2>2
<1>12. ASSUME NEW p \in Incarnation, Report(p) PROVE Goal
  BY <1>12 DEF Report, ForgetInspection
<1>13. ASSUME NEW p \in Incarnation, CompareStale(p) PROVE Goal
  <2>1. CASE /\ answer[p] = "Stale"
             /\ lockFile = seen[p]
             /\ stage' = [stage EXCEPT ![p] = "removing"]
             /\ UNCHANGED <<recovering, seen, answer, passes>>
    BY <1>13, <2>1 DEF CompareStale, StillTheDiagnosed
  <2>2. CASE stage' = [stage EXCEPT ![p] = "idle"] /\ ForgetInspection(p)
    BY <1>13, <2>2 DEF CompareStale, StillTheDiagnosed, ForgetInspection
  <2> QED
    BY <1>13, <2>1, <2>2 DEF CompareStale, StillTheDiagnosed
<1>14. ASSUME NEW p \in Incarnation, RemoveStale(p) PROVE Goal
  BY <1>14 DEF RemoveStale, ForgetInspection
<1> QED
  BY <1>1, <1>2, <1>3, <1>4, <1>5, <1>6, <1>7, <1>8, <1>9, <1>10, <1>11, <1>12, <1>13,
     <1>14
  DEF LockNext, LockStep

LEMMA LockInvStep == SerialRecovery /\ LockInv /\ [LockNext]_lockVars => LockInv'
<1> SUFFICES ASSUME SerialRecovery, LockInv, [LockNext]_lockVars PROVE LockInv'
  OBVIOUS
<1>1. LockTypeOK' /\ AskIsDue'
  BY LockTypeStep DEF LockInv
<1> QED
  BY <1>1, LockSafeStep DEF LockInv

THEOREM LockInvariance == SerialRecovery /\ LockSpec => []LockInv
<1>1. ASSUME SerialRecovery PROVE LockSpec => []LockInv
  <2>1. LockInv /\ [LockNext]_lockVars => LockInv'
    BY <1>1, LockInvStep
  <2> QED
    BY LockInitInv, <2>1, PTL DEF LockSpec
<1> QED
  BY <1>1

(***************************************************************************)
(* What follows from it.                                                   *)
(***************************************************************************)

\* The type invariant, for every number of processes (lock.rs).
THEOREM LockTypeCorrect == SerialRecovery /\ LockSpec => []LockTypeOK
<1>1. LockInv => LockTypeOK
  BY DEF LockInv
<1> QED
  BY <1>1, LockInvariance, PTL

\* One writer at a time: acquire's exclusive link, the holder's Drop and the
\* recovery's removal never let two commands into the protected section.
THEOREM OneWriter == SerialRecovery /\ LockSpec => []MutualExclusion
<1>1. LockInv => MutualExclusion
  BY DEF LockInv, LockNamesItsHolder, MutualExclusion
<1> QED
  BY <1>1, LockInvariance, PTL

\* The two-observation rule of diagnose_with is sound: "stale" is only ever
\* said of a process killed inside the protected section.
THEOREM StaleIsSound == SerialRecovery /\ LockSpec => []StaleVerdictIsAbandonment
<1>1. LockInv => StaleVerdictIsAbandonment
  BY DEF LockInv
<1> QED
  BY <1>1, LockInvariance, PTL

\* As long as the operator runs one recovery at a time, which the program does
\* not enforce: no step takes the lock file away from a command that still
\* runs. Without it a step can (the run live_lock): the file that is removed
\* need not be the one compared (lock.rs:481-484).
THEOREM RemovalIsSafe == SerialRecovery /\ LockSpec => OnlyOwnOrAbandonedLockRemoved
<1> DEFINE Safe == lockFile # NoLock /\ lockFile' = NoLock =>
                      \/ lockFile.process \in abandoned
                      \/ stage[lockFile.process] = "holding" /\ stage'[lockFile.process] = "idle"
<1>1. LockInv /\ [LockNext]_lockVars => [Safe]_lockVars
  <2> SUFFICES ASSUME LockInv, LockNext, lockFile # NoLock, lockFile' = NoLock PROVE Safe
    BY DEF lockVars
  <2> USE DEF LockInv, LockTypeOK, LockNamesItsHolder, StaleVerdictIsAbandonment,
              RemovesWhatItCompared
  <2>1. PICK p \in Incarnation : ReleaseLock(p) \/ RemoveStale(p)
    BY NoLockAssumption
    DEF LockNext, LockStep, Spawn, Exit, Kill, AcquireWins, InspectToRecover, AcquireLoses, Inspect,
        CheckExists, ReadContents, AskLiveness, Report, CompareStale, Conclude, AskAbout,
        Holder
  <2>2. CASE ReleaseLock(p)
    BY <2>1, <2>2 DEF ReleaseLock
  <2>3. CASE RemoveStale(p)
    BY <2>1, <2>3 DEF RemoveStale
  <2> QED
    BY <2>1, <2>2, <2>3
<1> QED
  BY <1>1, LockInvariance, PTL DEF OnlyOwnOrAbandonedLockRemoved, LockSpec

(***************************************************************************)
(* The detailed lock implements the abstract one.                          *)
(***************************************************************************)
LEMMA AbstractStep ==
    ASSUME LockInv, [LockNext]_lockVars
    PROVE  [Abstract!Next]_Abstract!vars
<1> USE LockAssumption, NoLockAssumption
    DEF LockInv, LockTypeOK, LockNamesItsHolder, LockHasHistory, AbandonedIsGone,
        StaleVerdictIsAbandonment, RemovesWhatItCompared, Alive, Holder, Disposition
<1> DEFINE Goal == [Abstract!Next]_Abstract!vars
           inside == {q \in Incarnation : stage[q] = "holding"}
<1>1. CASE UNCHANGED <<lockFile, abandoned>> /\ inside' = inside
  BY <1>1 DEF Abstract!vars
<1>2. ASSUME NEW p \in Incarnation, NEW at \in Instant, NEW started \in BOOLEAN,
             AcquireWins(p, at, started)
      PROVE  Goal
  <2>1. Disposition = NoLock /\ Disposition' = p /\ inside' = {p}
    BY <1>2 DEF AcquireWins, CanLink
  <2> QED
    BY <2>1 DEF Abstract!Next, Abstract!Acquire
<1>3. ASSUME NEW p \in Incarnation, ReleaseLock(p) PROVE Goal
  <2>1. Disposition = p /\ Disposition' = NoLock /\ inside' = {}
    BY <1>3 DEF ReleaseLock
  <2> QED
    BY <2>1 DEF Abstract!Next, Abstract!Release
<1>4. ASSUME NEW p \in Incarnation, Kill(p) PROVE Goal
  <2>1. CASE stage[p] = "holding"
    <3>1. Disposition = p /\ Disposition' = "Stale" /\ inside' = {}
      BY <1>4, <2>1 DEF Kill
    <3> QED
      BY <3>1 DEF Abstract!Next, Abstract!Abandon
  <2>2. CASE stage[p] # "holding"
    BY <1>4, <2>2 DEF Kill, Abstract!vars
  <2> QED
    BY <2>1, <2>2
<1>5. ASSUME NEW p \in Incarnation, RemoveStale(p) PROVE Goal
  <2>1. Disposition = "Stale" /\ Disposition' = NoLock /\ inside' = inside
    BY <1>5 DEF RemoveStale
  <2> QED
    BY <2>1 DEF Abstract!Next, Abstract!Clear
<1>6. \/ UNCHANGED <<lockFile, abandoned>> /\ inside' = inside
      \/ \E p \in Incarnation : ReleaseLock(p) \/ Kill(p) \/ RemoveStale(p)
      \/ \E p \in Incarnation, at \in Instant, started \in BOOLEAN : AcquireWins(p, at, started)
  BY DEF LockNext, LockStep, Spawn, Exit, InspectToRecover, AcquireLoses, Inspect, CheckExists,
         ReadContents, AskLiveness, Report, CompareStale, Conclude, AskAbout, ForgetInspection, lockVars
<1> QED
  BY <1>1, <1>2, <1>3, <1>4, <1>5, <1>6

\* Every behaviour of the lock file, with its scratch files, reads, `ps` calls
\* and removals one step at a time, is a behaviour of ExclusiveLock: what the
\* commands' own modules assume of the lock.
THEOREM LockRefinement == SerialRecovery /\ LockSpec => ImplementsExclusiveLock
<1>1. LockInit => Abstract!Init
  BY DEF LockInit, Abstract!Init, Disposition
<1>2. LockInv /\ [LockNext]_lockVars => [Abstract!Next]_Abstract!vars
  BY AbstractStep
<1> QED
  BY <1>1, <1>2, LockInvariance, PTL DEF ImplementsExclusiveLock, Abstract!Spec, LockSpec

-----------------------------------------------------------------------------
(***************************************************************************)
(* with_transaction.                                                       *)
(***************************************************************************)

(***************************************************************************)
(* The inductive invariant.                                                *)
(***************************************************************************)

\* The process has a journal entry of its own open.
Live == {"body", "unannounced", "outside", "removed", "restored", "commit", "committed", "finish"}

\* The process is inside the section the project lock protects.
Inside == {"settled?", "hygiene", "quarantine", "begin", "settling", "release"} \cup Live

LockIsHeld == \A p \in Process : pc[p] \in Inside => lock = p

\* The record in memory is the record in the journal.
JournalIsCurrent ==
    \A p \in Process : pc[p] \in Live =>
        /\ op[p] \in OpId
        /\ journal[op[p]] = mem[p]
        /\ mem[p].state = "started"
        /\ mem[p].outside => mem[p].mutated
        /\ snapshot[p] \in Contents

\* A command has touched nothing before its entry is opened.
FreshRecord ==
    \A p \in Process :
        pc[p] \in {"idle", "acquire", "settled?", "hygiene", "quarantine", "begin"}
            => ~mem[p].outside

\* After require_settled nothing is unresolved until the entry is opened.
StartsSettled ==
    \A p \in Process : pc[p] \in {"hygiene", "quarantine", "begin"} => Unresolved = {}

\* An announced effect that no committed record describes is one whose entry
\* says so, and whose removal nobody has recorded.
AdriftIsRecorded ==
    /\ adrift \subseteq Unresolved
    /\ \A n \in adrift : journal[n].outside /\ ~journal[n].restored

\* One that was not announced is known from its entry until a failure closes it.
UnannouncedIsKnown ==
    \A n \in unannounced :
        /\ journal[n].command = "other"
        /\ NeedsRecovery(journal[n]) \/ journal[n].state = "failed_clean"

\* What the working tree holds and the head does not belongs to an entry.
DirtIsRecorded == tree # committed => Unresolved # {}

\* Until it commits, an operation stands where it began: on a clean tree.
StandsOnHead ==
    \A p \in Process :
        pc[p] \in {"body", "unannounced", "outside", "removed", "restored", "commit"} =>
            /\ snapshot[p] = committed
            /\ mem[p].head = committed

\* Nothing the operation did is without a committed record.
Whole(p) == Clean /\ adrift = {} /\ op[p] \notin unannounced

\* What each point of the body has established.
BodyPoints ==
    \A p \in Process :
        /\ pc[p] \in {"body", "outside", "removed", "restored"} => op[p] \notin unannounced
        /\ pc[p] = "outside" => mem[p].outside /\ ~mem[p].restored
        /\ pc[p] \in {"removed", "restored"} => adrift = {}
        /\ pc[p] = "committed" => Whole(p)
        /\ pc[p] = "finish" /\ outcome[p] = "ok" => Whole(p)
        /\ pc[p] = "finish" /\ outcome[p] = "no_persist" /\ ~mem[p].mutated => Whole(p)

\* A recoverer's copy of a failed record is the record, or it has since been
\* settled the one way its shape allows.
CopyIsFaithful ==
    \A p \in Process : pc[p] \in {"settle?", "settling"} =>
        /\ op[p] \in OpId
        /\ mem[p].state = "failed_partial" =>
              \/ journal[op[p]] = mem[p]
              \/ /\ mem[p].command = "mutation.create"
                 /\ \E q \in Process : journal[op[p]] = Finished(q, mem[p], "failed_clean")
              \/ /\ mem[p].command = "gate.run.settle"
                 /\ \E q \in Process : journal[op[p]] = Finished(q, mem[p], "completed")

Safe ==
    /\ LockIsHeld
    /\ JournalIsCurrent
    /\ FreshRecord
    /\ StartsSettled
    /\ OneInterruption
    /\ AdriftIsRecorded
    /\ UnannouncedIsKnown
    /\ DirtIsRecorded
    /\ StandsOnHead
    /\ BodyPoints
    /\ CopyIsFaithful

Inv == TypeOK /\ Safe

(***************************************************************************)
(* Types.                                                                  *)
(***************************************************************************)
LEMMA RecordUpdates ==
    ASSUME NEW r \in Record(Command, Contents)
    PROVE  /\ \A command \in Command :
                [r EXCEPT !.command = command] \in Record(Command, Contents)
           /\ \A head \in Contents :
                [r EXCEPT !.state = "started", !.head = head] \in Record(Command, Contents)
           /\ \A state \in {"completed", "failed_clean", "failed_partial"}, p \in Process :
                Finished(p, r, state) \in Record(Command, Contents)
           /\ Mutating(r) \in Record(Command, Contents)
           /\ OutsideControl(r) \in Record(Command, Contents)
           /\ Restored(r) \in Record(Command, Contents)
           /\ Cleared(r) \in Record(Command, Contents)
  BY DEF Record, Finished, Mutating, OutsideControl, Restored, Cleared

LEMMA NoRecordType == NoRecord \in Record(Command, Contents)
  BY DEF NoRecord, Record

LEMMA InitInv == Init => Inv
<1> SUFFICES ASSUME Init PROVE Inv
  OBVIOUS
<1> USE ControlAssumption, ContentsAssumption DEF Init, InitControl
<1>1. TypeOK
  BY NoRecordType DEF TypeOK
<1>2. Unresolved = {}
  BY DEF Unresolved, NeedsRecovery, NoRecord
<1>3. /\ LockIsHeld /\ JournalIsCurrent /\ FreshRecord /\ StartsSettled /\ StandsOnHead
      /\ BodyPoints /\ CopyIsFaithful
  BY DEF LockIsHeld, JournalIsCurrent, FreshRecord, StartsSettled, StandsOnHead, BodyPoints,
         CopyIsFaithful, Inside, Live, NoRecord
<1>4. OneInterruption /\ AdriftIsRecorded /\ UnannouncedIsKnown /\ DirtIsRecorded
  BY <1>2 DEF OneInterruption, AdriftIsRecorded, UnannouncedIsKnown, DirtIsRecorded
<1> QED
  BY <1>1, <1>3, <1>4 DEF Inv, Safe

LEMMA TypeStep == TypeOK /\ JournalIsCurrent /\ [Next]_vars => TypeOK'
<1> SUFFICES ASSUME TypeOK, JournalIsCurrent, [Next]_vars PROVE TypeOK'
  OBVIOUS
<1> USE ControlAssumption, ContentsAssumption
    DEF TypeOK, controlVars, processVars, outsideVars, At, InBody
<1>0. CASE UNCHANGED vars
  BY <1>0 DEF vars
<1>1. ASSUME NEW p \in Process, NEW command \in Command, Call(p, command), UNCHANGED outsideVars
      PROVE  TypeOK'
  BY <1>1, RecordUpdates DEF Call, Goto
<1>2. ASSUME NEW p \in Process, Acquire(p), UNCHANGED outsideVars
      PROVE  TypeOK'
  BY <1>2 DEF Acquire, Goto
<1>3. ASSUME NEW p \in Process, RefusedLock(p), UNCHANGED outsideVars
      PROVE  TypeOK'
  BY <1>3, NoRecordType DEF RefusedLock, Forget, Goto
<1>4. ASSUME NEW p \in Process, RequireSettled(p), UNCHANGED outsideVars
      PROVE  TypeOK'
  BY <1>4 DEF RequireSettled, Goto
<1>5. ASSUME NEW p \in Process, Hygiene(p), UNCHANGED outsideVars
      PROVE  TypeOK'
  BY <1>5 DEF Hygiene, Goto
<1>6. ASSUME NEW p \in Process, Begin(p), UNCHANGED outsideVars
      PROVE  TypeOK'
  <2> DEFINE r == [mem[p] EXCEPT !.state = "started", !.head = committed]
  <2>1. r \in Record(Command, Contents)
    BY RecordUpdates
  <2>2. PICK n \in OpId : /\ op' = [op EXCEPT ![p] = n]
                          /\ mem' = [mem EXCEPT ![p] = r]
                          /\ journal' = [journal EXCEPT ![n] = r]
    BY <1>6 DEF Begin
  <2> HIDE DEF r
  <2> QED
    BY <1>6, <2>1, <2>2 DEF Begin, Capture, Goto
<1>7. ASSUME NEW p \in Process, Recheck(p)
      PROVE  TypeOK'
  BY <1>7 DEF Recheck, Return, Goto
<1>8. ASSUME NEW p \in Process, MutationStarted(p)
      PROVE  TypeOK'
  BY <1>8, RecordUpdates DEF MutationStarted, WriteRecord
<1>9. ASSUME NEW p \in Process, Write(p)
      PROVE  TypeOK'
  BY <1>9 DEF Write
<1>10. ASSUME NEW p \in Process, AnnounceOutside(p)
      PROVE  TypeOK'
  BY <1>10, RecordUpdates DEF AnnounceOutside, WriteRecord, Goto
<1>11. ASSUME NEW p \in Process, TouchOutside(p) \/ TouchUnannounced(p)
      PROVE  TypeOK'
  <2>1. op[p] \in OpId
    BY <1>11 DEF TouchOutside, TouchUnannounced, JournalIsCurrent, Live
  <2> QED
    BY <1>11, <2>1 DEF TouchOutside, TouchUnannounced, Goto
<1>12. ASSUME NEW p \in Process, RemoveWorktree(p)
      PROVE  TypeOK'
  BY <1>12 DEF RemoveWorktree, Goto
<1>13. ASSUME NEW p \in Process, RecordRestored(p)
      PROVE  TypeOK'
  <2>1. WriteRecord(p, Restored(mem[p])) \/ WriteRecord(p, Cleared(mem[p]))
    BY <1>13 DEF RecordRestored
  <2>2. PICK r \in Record(Command, Contents) : WriteRecord(p, r)
    BY <2>1, RecordUpdates
  <2> QED
    BY <1>13, <2>2 DEF RecordRestored, WriteRecord, Return, Goto
<1>14. ASSUME NEW p \in Process, BodyFails(p)
      PROVE  TypeOK'
  BY <1>14 DEF BodyFails, Return, Goto
<1>15. ASSUME NEW p \in Process, StartCommit(p)
      PROVE  TypeOK'
  BY <1>15 DEF StartCommit, StageCommit, Return, Goto
<1>16. ASSUME NEW p \in Process, RefuseStaged(p)
      PROVE  TypeOK'
  BY <1>16 DEF RefuseStaged, Return, Goto
<1>17. ASSUME NEW p \in Process, EndCommit(p)
      PROVE  TypeOK'
  BY <1>17 DEF EndCommit, InstallCommit, Goto
<1>18. ASSUME NEW p \in Process, Succeed(p)
      PROVE  TypeOK'
  BY <1>18 DEF Succeed, Return, Goto
<1>19. ASSUME NEW p \in Process, Finish(p), UNCHANGED outsideVars
      PROVE  TypeOK'
  <2>1. journal' \in [OpId -> Record(Command, Contents)]
    <3>1. PICK r \in Record(Command, Contents) : journal' = [journal EXCEPT ![op[p]] = r]
      <4>1. \/ journal' = [journal EXCEPT ![op[p]] = NoRecord]
            \/ \E state \in {"completed", "failed_clean", "failed_partial"} :
                  Settle(p, state)
        BY <1>19 DEF Finish, TerminalState
      <4> QED
        BY <4>1, RecordUpdates, NoRecordType DEF Settle
    <3> QED
      BY <3>1
  <2>2. tree' \in Contents
    BY <1>19 DEF Finish, JournalIsCurrent, Live
  <2> QED
    BY <1>19, <2>1, <2>2 DEF Finish, Goto
<1>20. ASSUME NEW p \in Process, Release(p), UNCHANGED outsideVars
      PROVE  TypeOK'
  BY <1>20, NoRecordType DEF Release, Forget, Goto
<1>21. ASSUME NEW p \in Process, Crash(p), UNCHANGED outsideVars
      PROVE  TypeOK'
  BY <1>21, NoRecordType DEF Crash, Forget, Goto
<1>22. ASSUME NEW p \in Process, ReadUnresolved(p)
      PROVE  TypeOK'
  <2>1. PICK n \in OpId : /\ op' = [op EXCEPT ![p] = n]
                          /\ mem' = [mem EXCEPT ![p] = journal[n]]
    BY <1>22 DEF ReadUnresolved, Unresolved
  <2> QED
    BY <1>22, <2>1 DEF ReadUnresolved, Goto
<1>23. ASSUME NEW p \in Process, LockToSettle(p)
      PROVE  TypeOK'
  BY <1>23 DEF LockToSettle, Goto
<1>24. ASSUME NEW p \in Process, RefusedSettle(p)
      PROVE  TypeOK'
  BY <1>24, NoRecordType DEF RefusedSettle, Forget, Goto
<1>25. ASSUME NEW p \in Process, SettleOne(p)
      PROVE  TypeOK'
  <2>1. journal' \in [OpId -> Record(Command, Contents)]
    <3>1. \/ UNCHANGED journal
          \/ \E state \in {"completed", "failed_clean"} : Settle(p, state)
      BY <1>25 DEF SettleOne
    <3>2. PICK r \in Record(Command, Contents) :
                UNCHANGED journal \/ journal' = [journal EXCEPT ![op[p]] = r]
      BY <3>1, RecordUpdates DEF Settle
    <3> QED
      BY <3>2
  <2> QED
    BY <1>25, <2>1 DEF SettleOne, Goto
<1>26. CASE Tidy
  BY <1>26 DEF Tidy, ClearStaleLock
<1> QED
  BY <1>0, <1>1, <1>2, <1>3, <1>4, <1>5, <1>6, <1>7, <1>8, <1>9, <1>10, <1>11, <1>12, <1>13, <1>14, <1>15, <1>16, <1>17, <1>18, <1>19, <1>20, <1>21, <1>22, <1>23, <1>24, <1>25, <1>26 DEF Next, Opening, Body

(***************************************************************************)
(* The other conjuncts, action by action.                                  *)
(***************************************************************************)

\* A step rewrites the record of the one operation that is unresolved.
LEMMA RewriteOwn ==
    ASSUME Inv, NEW p \in Process, pc[p] \in Live,
           NEW r \in Record(Command, Contents), r.state = "started", WriteRecord(p, r)
    PROVE  /\ Unresolved = {op[p]}
           /\ Unresolved' = {op[p]}
           /\ journal'[op[p]] = r
           /\ mem'[p] = r
           /\ \A q \in Process : q # p => mem'[q] = mem[q] /\ pc[q] \notin Inside
           /\ \A n \in OpId : n # op[p] => journal'[n] = journal[n]
<1> USE DEF Inv, Safe
<1>1. /\ op[p] \in OpId
      /\ journal[op[p]] = mem[p]
      /\ mem[p].state = "started"
  BY DEF JournalIsCurrent
<1>2. Unresolved = {op[p]}
  BY <1>1 DEF OneInterruption, Unresolved, NeedsRecovery
<1>3. /\ journal'[op[p]] = r
      /\ \A n \in OpId : n # op[p] => journal'[n] = journal[n]
      /\ mem'[p] = r
      /\ \A q \in Process : q # p => mem'[q] = mem[q]
  BY <1>1 DEF WriteRecord, TypeOK
<1>4. Unresolved' = {op[p]}
  BY <1>1, <1>2, <1>3 DEF Unresolved, NeedsRecovery
<1>5. \A q \in Process : q # p => pc[q] \notin Inside
  BY ControlAssumption DEF LockIsHeld, Inside
<1> QED
  BY <1>2, <1>3, <1>4, <1>5

\* A state written over a record is its state, and leaves the rest alone.
LEMMA StateWritten ==
    ASSUME NEW r \in Record(Command, Contents), NEW state, NEW p
    PROVE  /\ Finished(p, r, state).state = state
           /\ Finished(p, r, state).command = r.command
           /\ Finished(p, r, state).outside = r.outside
           /\ Finished(p, r, state).restored = r.restored
  BY DEF Record, Finished

\* Only who wrote it, and when, tells two settlements of one record apart.
LEMMA Resettled ==
    ASSUME NEW r \in Record(Command, Contents)
    PROVE  /\ r = [r EXCEPT !.by = r.by]
           /\ \A p, q, state : Finished(p, r, state) =
                    [Finished(q, r, state) EXCEPT !.by = Finished(p, r, state).by]
  BY DEF Record, Finished

\* A recoverer's copy is of a settled or failed record: it survives a change of
\* any other.
LEMMA CopySurvives ==
    ASSUME Inv, NEW p \in Process, NEW n \in OpId,
           journal[n].state \notin {"failed_partial", "failed_clean", "completed"},
           \A m \in OpId : m # n => journal'[m] = journal[m],
           \A q \in Process : q # p => /\ pc'[q] = pc[q]
                                       /\ op'[q] = op[q]
                                       /\ mem'[q] = mem[q],
           pc'[p] \notin {"settle?", "settling"}
    PROVE  CopyIsFaithful'
<1> SUFFICES ASSUME NEW q \in Process, q # p, pc[q] \in {"settle?", "settling"}
             PROVE  /\ op'[q] \in OpId
                    /\ mem'[q].state = "failed_partial" => journal'[op'[q]] = journal[op[q]]
  BY DEF Inv, Safe, CopyIsFaithful
<1>1. op[q] \in OpId
  BY DEF Inv, Safe, CopyIsFaithful
<1>2. mem[q] \in Record(Command, Contents)
  BY DEF Inv, TypeOK
<1>3. mem[q].state = "failed_partial" => op[q] # n
  <2>1. CASE journal[op[q]] = mem[q]
    BY <2>1
  <2>2. ASSUME NEW r \in Process, NEW state \in {"failed_clean", "completed"},
               journal[op[q]] = Finished(r, mem[q], state)
        PROVE  op[q] # n
    BY <1>2, <2>2, StateWritten
  <2> QED
    BY <2>1, <2>2 DEF Inv, Safe, CopyIsFaithful
<1> QED
  BY <1>1, <1>3

\* What is known of a process in its body.
LEMMA InTheBody ==
    ASSUME Inv, NEW p \in Process, pc[p] \in Live
    PROVE  /\ mem[p] \in Record(Command, Contents)
           /\ mem[p].state = "started"
           /\ mem[p].outside => mem[p].mutated
           /\ op[p] \in OpId
           /\ journal[op[p]] = mem[p]
           /\ Unresolved = {op[p]}
           /\ adrift \subseteq {op[p]}
           /\ adrift # {} => mem[p].outside /\ ~mem[p].restored
<1>1. /\ mem[p] \in Record(Command, Contents)
      /\ mem[p].state = "started"
      /\ mem[p].outside => mem[p].mutated
      /\ op[p] \in OpId
      /\ journal[op[p]] = mem[p]
  BY DEF Inv, Safe, TypeOK, JournalIsCurrent
<1>2. Unresolved = {op[p]}
  BY <1>1 DEF Inv, Safe, OneInterruption, Unresolved, NeedsRecovery
<1> QED
  BY <1>1, <1>2 DEF Inv, Safe, AdriftIsRecorded

\* What any step that rewrites the operation's own record leaves as it was.
LEMMA OwnWrite ==
    ASSUME Inv, TypeOK', NEW p \in Process, pc[p] \in Live,
           NEW r \in Record(Command, Contents), r.state = "started",
           r.command = mem[p].command,
           r.outside => r.mutated, WriteRecord(p, r),
           pc'[p] \in Live, \A q \in Process : q # p => pc'[q] = pc[q],
           UNCHANGED <<lock, op, snapshot, unannounced>>
    PROVE  /\ LockIsHeld'
           /\ JournalIsCurrent'
           /\ FreshRecord'
           /\ StartsSettled'
           /\ OneInterruption'
           /\ CopyIsFaithful'
           /\ UnannouncedIsKnown'
           /\ DirtIsRecorded'
<1>1. /\ Unresolved' = {op[p]}
      /\ journal'[op[p]] = r
      /\ mem'[p] = r
      /\ \A q \in Process : q # p => mem'[q] = mem[q] /\ pc[q] \notin Inside
      /\ \A n \in OpId : n # op[p] => journal'[n] = journal[n]
  BY RewriteOwn
<1>2. /\ op[p] \in OpId
      /\ journal[op[p]].state = "started"
      /\ snapshot[p] \in Contents
      /\ lock = p
  BY DEF Inv, Safe, JournalIsCurrent, LockIsHeld, Inside
<1>3. LockIsHeld'
  BY <1>1, <1>2 DEF LockIsHeld, Inv, Safe, Inside
<1>4. JournalIsCurrent'
  BY <1>1, <1>2 DEF JournalIsCurrent, Inside
<1>5. StartsSettled'
  BY <1>1 DEF StartsSettled, Inside, Live
<1>6. OneInterruption' /\ DirtIsRecorded'
  BY <1>1 DEF OneInterruption, DirtIsRecorded
<1>7. CopyIsFaithful'
  BY <1>1, <1>2, CopySurvives DEF Live
<1>8. FreshRecord'
  BY <1>1 DEF FreshRecord, Inv, Safe, Live
<1>9. UnannouncedIsKnown'
  BY <1>1, InTheBody DEF UnannouncedIsKnown, NeedsRecovery, Inv, Safe, TypeOK
<1> QED
  BY <1>3, <1>4, <1>5, <1>6, <1>7, <1>8, <1>9

\* The records a body writes.
LEMMA Fields ==
    ASSUME NEW r \in Record(Command, Contents)
    PROVE  /\ Mutating(r).command = r.command
           /\ Mutating(r).state = r.state
           /\ Mutating(r).head = r.head
           /\ Mutating(r).outside = r.outside
           /\ Mutating(r).restored = r.restored
           /\ Mutating(r).mutated
           /\ OutsideControl(r).command = r.command
           /\ OutsideControl(r).state = r.state
           /\ OutsideControl(r).head = r.head
           /\ OutsideControl(r).outside
           /\ OutsideControl(r).restored = r.restored
           /\ OutsideControl(r).mutated
           /\ Restored(r).command = r.command
           /\ Restored(r).state = r.state
           /\ Restored(r).head = r.head
           /\ Restored(r).outside = r.outside
           /\ Restored(r).mutated = r.mutated
           /\ Cleared(r).command = r.command
           /\ Cleared(r).state = r.state
           /\ Cleared(r).head = r.head
           /\ ~Cleared(r).outside
  BY DEF Record, Mutating, OutsideControl, Restored, Cleared

\* Steps that rewrite the operation's own record, whichever record they write.
LEMMA OwnWriteSafe ==
    ASSUME Inv, TypeOK', NEW p \in Process,
           NEW r \in Record(Command, Contents), r.state = "started", r.head = mem[p].head,
           r.command = mem[p].command, r.outside => r.mutated, WriteRecord(p, r),
           pc'[p] \in {"body", "outside", "restored", "finish"},
           pc[p] \in {"body", "outside", "removed", "restored"},
           \A q \in Process : q # p => pc'[q] = pc[q],
           UNCHANGED <<lock, tree, committed, op, snapshot, outsideVars>>,
           adrift # {} => r.outside /\ ~r.restored,
           pc'[p] = "outside" => r.outside /\ ~r.restored,
           pc'[p] = "restored" => adrift = {},
           pc'[p] = "finish" => outcome'[p] = "error",
           \A q \in Process : q # p => outcome'[q] = outcome[q]
    PROVE  Safe'
<1>1. /\ LockIsHeld' /\ JournalIsCurrent' /\ FreshRecord' /\ StartsSettled'
      /\ OneInterruption' /\ CopyIsFaithful' /\ UnannouncedIsKnown' /\ DirtIsRecorded'
  BY OwnWrite DEF Live, outsideVars
<1>2. /\ Unresolved' = {op[p]}
      /\ journal'[op[p]] = r
      /\ mem'[p] = r
      /\ \A q \in Process : q # p => mem'[q] = mem[q] /\ pc[q] \notin Inside
  BY RewriteOwn DEF Live
<1>3. AdriftIsRecorded'
  BY <1>2, InTheBody DEF AdriftIsRecorded, Live, outsideVars
<1>4. StandsOnHead'
  BY <1>2 DEF StandsOnHead, Inv, Safe, Inside, Live
<1>5. BodyPoints'
  BY <1>2 DEF BodyPoints, Whole, Clean, Inside, Live, outsideVars, Inv, Safe
<1> QED
  BY <1>1, <1>3, <1>4, <1>5 DEF Safe

LEMMA MutationStartedSafe ==
    ASSUME Inv, TypeOK', NEW p \in Process, MutationStarted(p)
    PROVE  Safe'
<1> DEFINE r == Mutating(mem[p])
<1>1. pc[p] = "body" /\ WriteRecord(p, r) /\ pc'[p] = "body"
      /\ UNCHANGED <<lock, tree, committed, op, snapshot, outsideVars, pc, outcome>>
  BY DEF MutationStarted, InBody, At
<1>2. /\ mem[p] \in Record(Command, Contents) /\ mem[p].state = "started"
      /\ adrift # {} => mem[p].outside /\ ~mem[p].restored
  BY <1>1, InTheBody DEF Live
<1>3. /\ r \in Record(Command, Contents) /\ r.state = "started" /\ r.head = mem[p].head
      /\ r.command = mem[p].command /\ r.mutated /\ (adrift # {} => r.outside /\ ~r.restored)
  BY <1>2, RecordUpdates, Fields
<1> HIDE DEF r
<1> QED
  BY <1>1, <1>3, OwnWriteSafe DEF Live

LEMMA AnnounceOutsideSafe ==
    ASSUME Inv, TypeOK', NEW p \in Process, AnnounceOutside(p)
    PROVE  Safe'
<1> DEFINE r == OutsideControl(mem[p])
<1>1. /\ pc[p] = "body" /\ WriteRecord(p, r) /\ ~mem[p].restored
      /\ pc'[p] = "outside" /\ \A q \in Process : q # p => pc'[q] = pc[q]
      /\ UNCHANGED <<lock, tree, committed, op, snapshot, outsideVars, outcome>>
  BY DEF AnnounceOutside, InBody, At, Goto, Inv, TypeOK
<1>2. mem[p] \in Record(Command, Contents) /\ mem[p].state = "started"
  BY <1>1, InTheBody DEF Live
<1>3. /\ r \in Record(Command, Contents) /\ r.state = "started" /\ r.head = mem[p].head
      /\ r.command = mem[p].command /\ r.mutated /\ r.outside /\ ~r.restored
  BY <1>1, <1>2, RecordUpdates, Fields
<1> HIDE DEF r
<1> QED
  BY <1>1, <1>3, OwnWriteSafe DEF Live

LEMMA RecordRestoredSafe ==
    ASSUME Inv, TypeOK', NEW p \in Process, RecordRestored(p)
    PROVE  Safe'
<1>1. pc[p] \in {"removed", "restored"} /\ adrift = {}
  BY DEF RecordRestored, At, Inv, Safe, BodyPoints
<1>2. mem[p] \in Record(Command, Contents) /\ mem[p].state = "started"
      /\ (mem[p].outside => mem[p].mutated)
  BY <1>1, InTheBody DEF Live
<1>3. CASE pc[p] = "removed"
  <2> DEFINE r == Restored(mem[p])
  <2>1. /\ WriteRecord(p, r)
        /\ pc'[p] = "restored" /\ \A q \in Process : q # p => pc'[q] = pc[q]
        /\ UNCHANGED <<lock, tree, committed, op, snapshot, outsideVars, outcome>>
    BY <1>3 DEF RecordRestored, At, Goto, Inv, TypeOK
  <2>2. /\ r \in Record(Command, Contents) /\ r.state = "started" /\ r.head = mem[p].head
        /\ r.command = mem[p].command /\ (r.outside => r.mutated)
    BY <1>2, RecordUpdates, Fields
  <2> HIDE DEF r
  <2> QED
    BY <1>1, <1>3, <2>1, <2>2, OwnWriteSafe DEF Live
<1>4. CASE pc[p] = "restored"
  <2> DEFINE r == Cleared(mem[p])
  <2>1. /\ WriteRecord(p, r)
        /\ pc'[p] = "finish" /\ \A q \in Process : q # p => pc'[q] = pc[q]
        /\ outcome'[p] = "error" /\ \A q \in Process : q # p => outcome'[q] = outcome[q]
        /\ UNCHANGED <<lock, tree, committed, op, snapshot, outsideVars>>
    BY <1>4 DEF RecordRestored, At, Return, Goto, Inv, TypeOK
  <2>2. /\ r \in Record(Command, Contents) /\ r.state = "started" /\ r.head = mem[p].head
        /\ r.command = mem[p].command /\ ~r.outside
    BY <1>2, RecordUpdates, Fields
  <2> HIDE DEF r
  <2> QED
    BY <1>1, <1>4, <2>1, <2>2, OwnWriteSafe DEF Live
<1> QED
  BY <1>1, <1>3, <1>4

\* Others are outside the section the lock protects.
LEMMA Alone ==
    ASSUME Inv, NEW p \in Process, pc[p] \in Inside
    PROVE  lock = p /\ \A q \in Process : q # p => pc[q] \notin Inside
  BY DEF Inv, Safe, LockIsHeld

LEMMA BeginSafe ==
    ASSUME Inv, TypeOK', NEW p \in Process, Begin(p), UNCHANGED outsideVars
    PROVE  Safe'
<1> DEFINE r == [mem[p] EXCEPT !.state = "started", !.head = committed]
<1>1. PICK n \in OpId :
        /\ IsNextId(n)
        /\ pc[p] = "begin"
        /\ pc'[p] = "body" /\ \A q \in Process : q # p => pc'[q] = pc[q]
        /\ op'[p] = n /\ \A q \in Process : q # p => op'[q] = op[q]
        /\ mem'[p] = r /\ \A q \in Process : q # p => mem'[q] = mem[q]
        /\ journal'[n] = r /\ \A m \in OpId : m # n => journal'[m] = journal[m]
        /\ snapshot'[p] = tree /\ \A q \in Process : q # p => snapshot'[q] = snapshot[q]
        /\ UNCHANGED <<lock, tree, committed, outcome>>
  BY DEF Begin, Capture, Goto, At, Inv, TypeOK
<1>2. lock = p /\ \A q \in Process : q # p => pc[q] \notin Inside
  BY <1>1, Alone DEF Inside
<1>3. Unresolved = {} /\ tree = committed /\ adrift = {}
  BY <1>1 DEF Inv, Safe, StartsSettled, DirtIsRecorded, AdriftIsRecorded
<1>4. journal[n].state = "absent" /\ n \notin unannounced
  BY <1>1, ControlAssumption DEF IsNextId, Inv, Safe, UnannouncedIsKnown, NeedsRecovery
<1>5. r.state = "started" /\ r.head = committed /\ ~r.outside
  BY <1>1 DEF Inv, Safe, FreshRecord, TypeOK, Record
<1> HIDE DEF r
<1>6. Unresolved' = {n}
  BY <1>1, <1>3, <1>5 DEF Unresolved, NeedsRecovery
<1>7. CopyIsFaithful'
  BY <1>1, <1>4, CopySurvives
<1>8. LockIsHeld' /\ JournalIsCurrent' /\ FreshRecord' /\ StartsSettled'
  BY <1>1, <1>2, <1>5
  DEF LockIsHeld, JournalIsCurrent, FreshRecord, StartsSettled, Inside, Live, Inv, Safe,
      TypeOK
<1>9. OneInterruption' /\ AdriftIsRecorded' /\ UnannouncedIsKnown' /\ DirtIsRecorded'
  BY <1>1, <1>3, <1>4, <1>6
  DEF OneInterruption, AdriftIsRecorded, UnannouncedIsKnown, DirtIsRecorded, outsideVars,
      Inv, Safe, TypeOK
<1>10. StandsOnHead' /\ BodyPoints'
  BY <1>1, <1>2, <1>3, <1>4, <1>5
  DEF StandsOnHead, BodyPoints, Whole, Clean, Inside, Live, outsideVars
<1> QED
  BY <1>7, <1>8, <1>9, <1>10 DEF Safe

\* An operation is settled when it left nothing behind, and asks for recovery
\* otherwise.
LEMMA FinishSettles ==
    ASSUME Inv, NEW p \in Process, Finish(p), UNCHANGED outsideVars
    PROVE  \/ /\ journal'[op[p]].state = "failed_partial"
              /\ journal'[op[p]].command = mem[p].command
              /\ journal'[op[p]].outside = mem[p].outside
              /\ journal'[op[p]].restored = mem[p].restored
           \/ /\ ~NeedsRecovery(journal'[op[p]])
              /\ tree' = committed
              /\ adrift = {}
              /\ \/ op[p] \notin unannounced
                 \/ /\ journal'[op[p]].state = "failed_clean"
                    /\ journal'[op[p]].command = mem[p].command
<1>1. /\ pc[p] = "finish"
      /\ mem[p] \in Record(Command, Contents)
      /\ op[p] \in OpId
      /\ adrift # {} => mem[p].outside
      /\ journal \in [OpId -> Record(Command, Contents)]
  BY InTheBody DEF Finish, At, Live, Inv, TypeOK
<1>2. \A state \in {"completed", "failed_clean", "failed_partial"} :
        Settle(p, state) =>
            /\ journal'[op[p]].state = state
            /\ journal'[op[p]].command = mem[p].command
            /\ journal'[op[p]].outside = mem[p].outside
            /\ journal'[op[p]].restored = mem[p].restored
  BY <1>1, StateWritten DEF Settle
<1>3. CASE outcome[p] = "ok"
  BY <1>1, <1>2, <1>3 DEF Finish, NeedsRecovery, Inv, Safe, BodyPoints, Whole, Clean
<1>4. CASE outcome[p] = "no_persist" /\ ~mem[p].mutated
  <2>1. journal'[op[p]] = NoRecord /\ tree' = tree
    BY <1>1, <1>4 DEF Finish
  <2>2. Whole(p)
    BY <1>1, <1>4 DEF Inv, Safe, BodyPoints
  <2> QED
    BY <2>1, <2>2 DEF NeedsRecovery, NoRecord, Whole, Clean
<1>5. CASE \/ outcome[p] \in {"error", "recovery"}
           \/ outcome[p] = "no_persist" /\ mem[p].mutated
  <2>1. Settle(p, TerminalState(outcome[p], mem[p])) /\ tree' = tree
    BY <1>5 DEF Finish
  <2>2. CASE TerminalState(outcome[p], mem[p]) = "failed_partial"
    BY <1>2, <2>1, <2>2
  <2>3. CASE TerminalState(outcome[p], mem[p]) = "failed_clean"
    <3>1. Clean /\ ~mem[p].outside
      BY <2>3 DEF TerminalState
    <3>2. journal'[op[p]].state = "failed_clean" /\ journal'[op[p]].command = mem[p].command
      BY <1>2, <2>1, <2>3
    <3> QED
      BY <1>1, <2>1, <3>1, <3>2 DEF NeedsRecovery, Clean
  <2> QED
    BY <2>2, <2>3 DEF TerminalState
<1>6. CASE outcome[p] = "sensitive"
  <2>1. CASE mem[p].outside \/ snapshot[p] # committed
    BY <1>2, <1>6, <2>1 DEF Finish
  <2>2. CASE ~mem[p].outside /\ snapshot[p] = committed
    <3>1. Settle(p, "failed_clean") /\ tree' = committed
      BY <1>6, <2>2 DEF Finish
    <3> QED
      BY <1>1, <1>2, <2>2, <3>1 DEF NeedsRecovery
  <2> QED
    BY <2>1, <2>2
<1> QED
  BY <1>3, <1>4, <1>5, <1>6 DEF Finish

LEMMA FinishSafe ==
    ASSUME Inv, TypeOK', NEW p \in Process, Finish(p), UNCHANGED outsideVars
    PROVE  Safe'
<1>1. /\ pc[p] = "finish"
      /\ pc'[p] = "release" /\ \A q \in Process : q # p => pc'[q] = pc[q]
      /\ \A n \in OpId : n # op[p] => journal'[n] = journal[n]
      /\ UNCHANGED <<lock, committed, op, mem, snapshot, outcome>>
  BY DEF Finish, Settle, At, Goto, Inv, TypeOK
<1>2. lock = p /\ \A q \in Process : q # p => pc[q] \notin Inside
  BY <1>1, Alone DEF Inside, Live
<1>3. /\ op[p] \in OpId
      /\ journal[op[p]] = mem[p]
      /\ mem[p].state = "started"
      /\ Unresolved = {op[p]}
      /\ adrift \subseteq {op[p]}
      /\ adrift # {} => mem[p].outside /\ ~mem[p].restored
      /\ op[p] \in unannounced => mem[p].command = "other"
  BY <1>1, InTheBody DEF Live, Inv, Safe, UnannouncedIsKnown
<1>4. CopyIsFaithful'
  BY <1>1, <1>3, CopySurvives
<1>5. LockIsHeld' /\ JournalIsCurrent' /\ FreshRecord' /\ StartsSettled'
      /\ StandsOnHead' /\ BodyPoints'
  BY <1>1, <1>2
  DEF LockIsHeld, JournalIsCurrent, FreshRecord, StartsSettled, StandsOnHead, BodyPoints,
      Whole, Inside, Live, Inv, Safe
<1>6. UnannouncedIsKnown'
  BY <1>1, <1>3, FinishSettles DEF UnannouncedIsKnown, NeedsRecovery, outsideVars, Inv, Safe, TypeOK
<1>7. OneInterruption' /\ AdriftIsRecorded' /\ DirtIsRecorded'
  <2>1. CASE /\ journal'[op[p]].state = "failed_partial"
             /\ journal'[op[p]].outside = mem[p].outside
             /\ journal'[op[p]].restored = mem[p].restored
    <3>1. Unresolved' = {op[p]}
      BY <1>1, <1>3, <2>1 DEF Unresolved, NeedsRecovery
    <3> QED
      BY <1>3, <2>1, <3>1 DEF OneInterruption, AdriftIsRecorded, DirtIsRecorded, outsideVars
  <2>2. CASE ~NeedsRecovery(journal'[op[p]]) /\ tree' = committed /\ adrift = {}
    <3>1. Unresolved' = {}
      BY <1>1, <1>3, <2>2 DEF Unresolved
    <3> QED
      BY <1>1, <2>2, <3>1 DEF OneInterruption, AdriftIsRecorded, DirtIsRecorded, outsideVars
  <2> QED
    BY <2>1, <2>2, FinishSettles
<1> QED
  BY <1>4, <1>5, <1>6, <1>7 DEF Safe

\* A recovery settles the one unresolved entry, over a clean project; or it
\* puts its own end on an entry another one has settled the same way.
LEMMA SettlesOnceAndClean ==
    ASSUME Inv, NEW p \in Process, SettleOne(p)
    PROVE  \/ UNCHANGED journal
           \/ /\ mem[p].state = "failed_partial"
              /\ \E q \in Process, state \in {"failed_clean", "completed"} :
                    /\ mem[p].command = IF state = "completed" THEN "gate.run.settle"
                                        ELSE "mutation.create"
                    /\ journal[op[p]] = Finished(q, mem[p], state)
                    /\ Settle(p, state)
           \/ /\ Unresolved = {op[p]} /\ Unresolved' = {}
              /\ journal[op[p]] = mem[p]
              /\ mem[p].state = "failed_partial"
              /\ tree = committed /\ adrift = {}
              /\ \/ mem[p].command = "mutation.create" /\ Settle(p, "failed_clean")
                 \/ mem[p].command = "gate.run.settle" /\ Settle(p, "completed")
<1>1. /\ pc[p] = "settling"
      /\ op[p] \in OpId
      /\ mem[p] \in Record(Command, Contents)
      /\ journal \in [OpId -> Record(Command, Contents)]
  BY DEF SettleOne, At, Inv, Safe, TypeOK, CopyIsFaithful
<1>2. SUFFICES ASSUME NEW state \in {"failed_clean", "completed"}, Settle(p, state),
                      mem[p].state = "failed_partial", Clean,
                      mem[p].restored \/ ~mem[p].outside,
                      mem[p].command = IF state = "completed" THEN "gate.run.settle"
                                       ELSE "mutation.create"
               PROVE  \/ \E q \in Process : journal[op[p]] = Finished(q, mem[p], state)
                      \/ /\ Unresolved = {op[p]} /\ Unresolved' = {}
                         /\ journal[op[p]] = mem[p]
                         /\ tree = committed /\ adrift = {}
  BY DEF SettleOne, CleanMutation, CommittedGateRun
<1>3. CASE journal[op[p]] = mem[p]
  <2>1. Unresolved = {op[p]}
    BY <1>1, <1>2, <1>3 DEF Inv, Safe, OneInterruption, Unresolved, NeedsRecovery
  <2>2. journal'[op[p]].state = state
    BY <1>1, <1>2, StateWritten DEF Settle
  <2>3. Unresolved' = {}
    BY <1>1, <1>2, <2>1, <2>2 DEF Unresolved, NeedsRecovery, Settle
  <2>4. adrift = {}
    BY <1>2, <1>3, <2>1 DEF Inv, Safe, AdriftIsRecorded
  <2> QED
    BY <1>2, <1>3, <2>1, <2>3, <2>4 DEF Clean
<1>4. CASE \E q \in Process : journal[op[p]] = Finished(q, mem[p], state)
  BY <1>4
<1> QED
  BY <1>1, <1>2, <1>3, <1>4 DEF Inv, Safe, CopyIsFaithful

\* A copy of an entry that has been settled is faithful whoever settled it.
LEMMA SettledCopies ==
    ASSUME Inv, NEW p \in Process, NEW state \in {"failed_clean", "completed"}, Settle(p, state),
           pc[p] = "settling", mem[p].state = "failed_partial",
           mem[p].command = IF state = "completed" THEN "gate.run.settle" ELSE "mutation.create",
           journal[op[p]] = mem[p] \/ \E q \in Process : journal[op[p]] = Finished(q, mem[p], state),
           \A q \in Process : q # p => pc'[q] = pc[q] /\ pc[q] \notin Inside,
           pc'[p] = "release", UNCHANGED <<op, mem>>
    PROVE  CopyIsFaithful'
<1> SUFFICES ASSUME NEW q \in Process, q # p, pc[q] = "settle?"
             PROVE  /\ op[q] \in OpId
                    /\ mem[q].state = "failed_partial" =>
                          \/ journal'[op[q]] = mem[q]
                          \/ /\ mem[q].command = "mutation.create"
                             /\ \E r \in Process : journal'[op[q]] = Finished(r, mem[q], "failed_clean")
                          \/ /\ mem[q].command = "gate.run.settle"
                             /\ \E r \in Process : journal'[op[q]] = Finished(r, mem[q], "completed")
  BY DEF CopyIsFaithful, Inside
<1>1. /\ op[p] \in OpId /\ op[q] \in OpId
      /\ journal \in [OpId -> Record(Command, Contents)]
      /\ mem[p] \in Record(Command, Contents) /\ mem[q] \in Record(Command, Contents)
  BY DEF Inv, Safe, TypeOK, CopyIsFaithful
<1>2. CASE op[q] # op[p]
  BY <1>1, <1>2 DEF Settle, Inv, Safe, CopyIsFaithful
<1>3. CASE op[q] = op[p] /\ mem[q].state # "failed_partial"
  BY <1>1, <1>3
<1>4. CASE op[q] = op[p] /\ mem[q].state = "failed_partial"
  <2>1. journal'[op[q]] = Finished(p, mem[p], state)
    BY <1>1, <1>4 DEF Settle
  <2>2. \/ journal[op[q]] = mem[q]
        \/ \E r \in Process, s \in {"failed_clean", "completed"} :
                journal[op[q]] = Finished(r, mem[q], s)
    BY <1>4 DEF Inv, Safe, CopyIsFaithful
  \* Both copies are the failed record.
  <2>3. /\ mem[q].command = mem[p].command
        /\ Finished(p, mem[p], state) = Finished(p, mem[q], state)
    <3>1. CASE journal[op[p]] = mem[p]
      <4>1. journal[op[q]] = mem[q]
        BY <1>1, <1>4, <2>2, <3>1, StateWritten
      <4> QED
        BY <1>4, <3>1, <4>1
    <3>2. ASSUME NEW r \in Process, journal[op[p]] = Finished(r, mem[p], state)
          PROVE  /\ mem[q].command = mem[p].command
                 /\ Finished(p, mem[p], state) = Finished(p, mem[q], state)
      <4>1. journal[op[p]].state = state
        BY <1>1, <3>2, StateWritten
      <4>2. PICK t \in Process : journal[op[q]] = Finished(t, mem[q], state)
        BY <1>1, <1>4, <2>2, <4>1, StateWritten
      <4>3. Finished(r, mem[p], state) = Finished(t, mem[q], state)
        BY <1>4, <3>2, <4>2
      <4> QED
        BY <1>1, <4>3 DEF Finished, Record
    <3> QED
      BY <3>1, <3>2
  <2> QED
    BY <1>1, <1>4, <2>1, <2>3
<1> QED
  BY <1>2, <1>3, <1>4

LEMMA SettleOneSafe ==
    ASSUME Inv, TypeOK', NEW p \in Process, SettleOne(p)
    PROVE  Safe'
<1>1. /\ pc[p] = "settling"
      /\ pc'[p] = "release" /\ \A q \in Process : q # p => pc'[q] = pc[q]
      /\ UNCHANGED <<lock, tree, committed, op, mem, snapshot, outcome, outsideVars>>
  BY DEF SettleOne, At, Goto, Inv, TypeOK
<1>2. lock = p /\ \A q \in Process : q # p => pc[q] \notin Inside
  BY <1>1, Alone DEF Inside
<1>3. /\ \A n \in OpId : n # op[p] => journal'[n] = journal[n]
      /\ UNCHANGED journal => Unresolved' = Unresolved
      /\ op[p] \in OpId
      /\ mem[p] \in Record(Command, Contents)
      /\ journal \in [OpId -> Record(Command, Contents)]
  BY <1>1 DEF SettleOne, Settle, Inv, Safe, TypeOK, CopyIsFaithful, Unresolved
<1>4. LockIsHeld' /\ JournalIsCurrent' /\ FreshRecord'
      /\ StandsOnHead' /\ BodyPoints'
  BY <1>1, <1>2
  DEF LockIsHeld, JournalIsCurrent, FreshRecord, StandsOnHead, BodyPoints, Whole, Clean,
      outsideVars, Inside, Live, Inv, Safe
<1>5. StartsSettled'
  BY <1>1, <1>2 DEF StartsSettled, Inside
<1>6. CASE UNCHANGED journal
  BY <1>1, <1>3, <1>4, <1>5, <1>6
  DEF Safe, Inv, CopyIsFaithful, OneInterruption, AdriftIsRecorded, UnannouncedIsKnown,
      DirtIsRecorded, outsideVars
<1>7. ASSUME NEW state \in {"failed_clean", "completed"}, Settle(p, state),
             mem[p].state = "failed_partial",
             mem[p].command = IF state = "completed" THEN "gate.run.settle" ELSE "mutation.create",
             \/ \E q \in Process : journal[op[p]] = Finished(q, mem[p], state)
             \/ /\ Unresolved' = {} /\ journal[op[p]] = mem[p]
                /\ tree = committed /\ adrift = {}
      PROVE  Safe'
  <2>1. CopyIsFaithful'
    BY <1>1, <1>2, <1>7, SettledCopies
  <2>2. journal'[op[p]] = Finished(p, mem[p], state)
    BY <1>3, <1>7 DEF Settle
  <2>3. journal'[op[p]].state = state /\ journal'[op[p]].command = mem[p].command
    BY <1>3, <2>2, StateWritten
  \* No unannounced effect is this operation's.
  <2>4. op[p] \notin unannounced
    <3>1. journal[op[p]].command = mem[p].command
      BY <1>3, <1>7, StateWritten
    <3> QED
      BY <1>7, <3>1 DEF Inv, Safe, UnannouncedIsKnown
  <2>5. UnannouncedIsKnown'
    BY <1>1, <1>3, <2>4 DEF UnannouncedIsKnown, NeedsRecovery, outsideVars, Inv, Safe, TypeOK
  <2>6. OneInterruption' /\ AdriftIsRecorded' /\ DirtIsRecorded'
    <3>1. CASE Unresolved' = {} /\ tree = committed /\ adrift = {}
      BY <1>1, <3>1 DEF OneInterruption, AdriftIsRecorded, DirtIsRecorded, outsideVars
    <3>2. CASE \E q \in Process : journal[op[p]] = Finished(q, mem[p], state)
      <4>1. journal[op[p]].state = state
        BY <1>3, <3>2, StateWritten
      <4>2. Unresolved' = Unresolved /\ op[p] \notin Unresolved
        BY <1>3, <2>3, <4>1 DEF Unresolved, NeedsRecovery
      <4>3. adrift \subseteq Unresolved /\ \A n \in adrift : n \in OpId /\ journal'[n] = journal[n]
        BY <1>3, <4>2 DEF Inv, Safe, TypeOK, AdriftIsRecorded
      <4> QED
        BY <1>1, <4>2, <4>3
        DEF Inv, Safe, OneInterruption, AdriftIsRecorded, DirtIsRecorded, outsideVars
    <3> QED
      BY <1>7, <3>1, <3>2
  <2> QED
    BY <1>4, <1>5, <2>1, <2>5, <2>6 DEF Safe
<1> QED
  BY <1>6, <1>7, SettlesOnceAndClean

\* A process that ends leaves the lock to nobody it belongs to, and no trace of
\* its own in the journal.
LEMMA ForgetSafe ==
    ASSUME Inv, TypeOK', NEW p \in Process, Forget(p),
           \A q \in Process : q # p /\ pc[q] \in Inside => lock' = lock,
           UNCHANGED <<journal, tree, committed, outsideVars>>
    PROVE  Safe'
<1>1. /\ pc'[p] = "idle" /\ \A q \in Process : q # p => pc'[q] = pc[q]
      /\ mem'[p] = NoRecord /\ \A q \in Process : q # p => mem'[q] = mem[q]
      /\ \A q \in Process : q # p => op'[q] = op[q] /\ snapshot'[q] = snapshot[q]
                                               /\ outcome'[q] = outcome[q]
  BY DEF Forget, Goto, Inv, TypeOK
<1>2. ~mem'[p].outside
  BY <1>1 DEF NoRecord
<1>3. Unresolved' = Unresolved
  BY DEF Unresolved
<1>4. LockIsHeld' /\ JournalIsCurrent' /\ FreshRecord' /\ StartsSettled'
  BY <1>1, <1>2, <1>3
  DEF LockIsHeld, JournalIsCurrent, FreshRecord, StartsSettled, Inside, Live, Inv, Safe
<1>5. StandsOnHead' /\ BodyPoints' /\ CopyIsFaithful'
  BY <1>1 DEF StandsOnHead, BodyPoints, CopyIsFaithful, Whole, Clean, outsideVars, Inv, Safe
<1>6. OneInterruption' /\ AdriftIsRecorded' /\ UnannouncedIsKnown' /\ DirtIsRecorded'
  BY <1>3
  DEF OneInterruption, AdriftIsRecorded, UnannouncedIsKnown, DirtIsRecorded, outsideVars, Inv, Safe
<1> QED
  BY <1>4, <1>5, <1>6 DEF Safe

LEMMA CallSafe ==
    ASSUME Inv, TypeOK', NEW p \in Process, NEW command \in Command, Call(p, command),
           UNCHANGED outsideVars
    PROVE  Safe'
<1>1. /\ pc[p] = "idle"
      /\ pc'[p] = "acquire" /\ \A q \in Process : q # p => pc'[q] = pc[q]
      /\ \A q \in Process : q # p => mem'[q] = mem[q]
      /\ mem'[p] = [mem[p] EXCEPT !.command = command]
      /\ UNCHANGED <<lock, journal, tree, committed, op, snapshot, outcome>>
  BY DEF Call, At, Goto, controlVars, Inv, TypeOK
<1>2. ~mem'[p].outside
  BY <1>1 DEF Inv, Safe, FreshRecord, TypeOK, Record
<1>3. Unresolved' = Unresolved
  BY <1>1 DEF Unresolved
<1>4. LockIsHeld' /\ JournalIsCurrent' /\ FreshRecord' /\ StartsSettled'
  <2>1. LockIsHeld' /\ FreshRecord'
    BY <1>1, <1>2 DEF LockIsHeld, FreshRecord, Inside, Live, Inv, Safe
  <2>2. JournalIsCurrent'
    BY <1>1 DEF JournalIsCurrent, Live, Inv, Safe
  <2>3. StartsSettled'
    BY <1>1, <1>3 DEF StartsSettled, Inv, Safe
  <2> QED
    BY <2>1, <2>2, <2>3
<1>5. StandsOnHead' /\ BodyPoints' /\ CopyIsFaithful'
  BY <1>1 DEF StandsOnHead, BodyPoints, CopyIsFaithful, Whole, Clean, outsideVars, Inv, Safe
<1>6. OneInterruption' /\ AdriftIsRecorded' /\ UnannouncedIsKnown' /\ DirtIsRecorded'
  BY <1>1, <1>3
  DEF OneInterruption, AdriftIsRecorded, UnannouncedIsKnown, DirtIsRecorded, outsideVars, Inv, Safe
<1> QED
  BY <1>4, <1>5, <1>6 DEF Safe

\* Effects outside control, and what records or removes them.
LEMMA OutsideSafe ==
    ASSUME Inv, TypeOK', NEW p \in Process,
           \/ TouchOutside(p) \/ TouchUnannounced(p) \/ RemoveWorktree(p) \/ EndCommit(p)
    PROVE  Safe'
<1>1. /\ pc[p] \in Live \ {"finish", "committed"} /\ pc'[p] \in Live \ {"finish"}
      /\ pc'[p] \in {"body", "unannounced", "removed", "committed"}
      /\ \A q \in Process : q # p => pc'[q] = pc[q]
      /\ UNCHANGED <<lock, journal, tree, op, mem, snapshot, outcome>>
  BY DEF TouchOutside, TouchUnannounced, RemoveWorktree, EndCommit, InstallCommit, At, InBody,
         Goto, Live, controlVars, Inv, TypeOK
<1>2. /\ lock = p /\ \A q \in Process : q # p => pc[q] \notin Inside
      /\ op[p] \in OpId /\ journal[op[p]] = mem[p] /\ Unresolved = {op[p]}
      /\ mem[p].state = "started"
      /\ adrift \subseteq {op[p]}
      /\ Unresolved' = Unresolved
  BY <1>1, Alone, InTheBody DEF Inside, Unresolved
<1>3. LockIsHeld' /\ JournalIsCurrent' /\ FreshRecord' /\ StartsSettled' /\ OneInterruption'
      /\ CopyIsFaithful' /\ DirtIsRecorded'
  BY <1>1, <1>2
  DEF LockIsHeld, JournalIsCurrent, FreshRecord, StartsSettled, OneInterruption, CopyIsFaithful,
      DirtIsRecorded, Inside, Live, Inv, Safe
<1>4. CASE TouchOutside(p)
  <2>1. AdriftIsRecorded' /\ UnannouncedIsKnown' /\ StandsOnHead' /\ BodyPoints'
    BY <1>1, <1>2, <1>4
    DEF TouchOutside, At, Goto, controlVars, AdriftIsRecorded, UnannouncedIsKnown, StandsOnHead,
        BodyPoints, Whole, Clean, Inside, Live, Inv, Safe, TypeOK
  <2> QED
    BY <1>3, <2>1 DEF Safe
<1>5. CASE TouchUnannounced(p)
  <2>1. AdriftIsRecorded' /\ UnannouncedIsKnown' /\ StandsOnHead' /\ BodyPoints'
    BY <1>1, <1>2, <1>5
    DEF TouchUnannounced, InBody, At, Goto, controlVars, AdriftIsRecorded, UnannouncedIsKnown,
        NeedsRecovery, StandsOnHead, BodyPoints, Whole, Clean, Inside, Live, Inv, Safe, TypeOK
  <2> QED
    BY <1>3, <2>1 DEF Safe
<1>6. CASE RemoveWorktree(p)
  <2>1. AdriftIsRecorded' /\ UnannouncedIsKnown' /\ StandsOnHead' /\ BodyPoints'
    BY <1>1, <1>2, <1>6
    DEF RemoveWorktree, InBody, At, Goto, controlVars, AdriftIsRecorded, UnannouncedIsKnown,
        StandsOnHead, BodyPoints, Whole, Clean, Inside, Live, Inv, Safe, TypeOK
  <2> QED
    BY <1>3, <2>1 DEF Safe
<1>7. CASE EndCommit(p)
  <2>1. AdriftIsRecorded' /\ UnannouncedIsKnown' /\ StandsOnHead' /\ BodyPoints'
    BY <1>1, <1>2, <1>7
    DEF EndCommit, InstallCommit, At, Goto, AdriftIsRecorded, UnannouncedIsKnown,
        StandsOnHead, BodyPoints, Whole, Clean, Inside, Live, Inv, Safe, TypeOK
  <2> QED
    BY <1>3, <2>1 DEF Safe
<1> QED
  BY <1>4, <1>5, <1>6, <1>7

LEMMA SafeStep == Inv /\ TypeOK' /\ [Next]_vars => Safe'
<1> SUFFICES ASSUME Inv, TypeOK', [Next]_vars PROVE Safe'
  OBVIOUS
<1> USE ControlAssumption
    DEF Inv, Safe, TypeOK, LockIsHeld, JournalIsCurrent, FreshRecord, StartsSettled,
        OneInterruption, AdriftIsRecorded, StandsOnHead, BodyPoints, CopyIsFaithful,
        UnannouncedIsKnown, DirtIsRecorded, Whole, Unresolved, NeedsRecovery, Clean, Inside, Live,
        controlVars, processVars, outsideVars, At, InBody
<1>0. CASE UNCHANGED vars
  BY <1>0 DEF vars
<1>1. ASSUME NEW p \in Process, NEW command \in Command, Call(p, command), UNCHANGED outsideVars
      PROVE  Safe'
  BY <1>1, CallSafe
<1>2. ASSUME NEW p \in Process, Acquire(p), UNCHANGED outsideVars
      PROVE  Safe'
  BY <1>2 DEF Acquire, Goto
<1>3. ASSUME NEW p \in Process, RefusedLock(p), UNCHANGED outsideVars
      PROVE  Safe'
  BY <1>3, ForgetSafe DEF RefusedLock
<1>4. ASSUME NEW p \in Process, RequireSettled(p), UNCHANGED outsideVars
      PROVE  Safe'
  BY <1>4 DEF RequireSettled, Goto
<1>5. ASSUME NEW p \in Process, Hygiene(p), UNCHANGED outsideVars
      PROVE  Safe'
  BY <1>5 DEF Hygiene, Goto
<1>6. ASSUME NEW p \in Process, Begin(p), UNCHANGED outsideVars
      PROVE  Safe'
  BY <1>6, BeginSafe
<1>7. ASSUME NEW p \in Process, Recheck(p)
      PROVE  Safe'
  BY <1>7, InTheBody, Alone DEF Recheck, Return, Goto
<1>8. ASSUME NEW p \in Process, MutationStarted(p)
      PROVE  Safe'
  BY <1>8, MutationStartedSafe
<1>9. ASSUME NEW p \in Process, Write(p)
      PROVE  Safe'
  BY <1>9, InTheBody, Alone DEF Write
<1>10. ASSUME NEW p \in Process, AnnounceOutside(p)
      PROVE  Safe'
  BY <1>10, AnnounceOutsideSafe
<1>11. ASSUME NEW p \in Process, TouchOutside(p) \/ TouchUnannounced(p)
      PROVE  Safe'
  BY <1>11, OutsideSafe
<1>12. ASSUME NEW p \in Process, RemoveWorktree(p) \/ EndCommit(p)
      PROVE  Safe'
  BY <1>12, OutsideSafe
<1>13. ASSUME NEW p \in Process, RecordRestored(p)
      PROVE  Safe'
  BY <1>13, RecordRestoredSafe
<1>14. ASSUME NEW p \in Process, BodyFails(p)
      PROVE  Safe'
  BY <1>14 DEF BodyFails, Return, Goto
<1>15. ASSUME NEW p \in Process, StartCommit(p)
      PROVE  Safe'
  BY <1>15 DEF StartCommit, StageCommit, Return, Goto
<1>16. ASSUME NEW p \in Process, RefuseStaged(p)
      PROVE  Safe'
  BY <1>16 DEF RefuseStaged, Return, Goto
<1>18. ASSUME NEW p \in Process, Succeed(p)
      PROVE  Safe'
  BY <1>18, InTheBody, Alone DEF Succeed, Return, Goto
<1>19. ASSUME NEW p \in Process, Finish(p), UNCHANGED outsideVars
      PROVE  Safe'
  BY <1>19, FinishSafe
<1>20. ASSUME NEW p \in Process, Release(p), UNCHANGED outsideVars
      PROVE  Safe'
  BY <1>20, ForgetSafe DEF Release
<1>21. ASSUME NEW p \in Process, Crash(p), UNCHANGED outsideVars
      PROVE  Safe'
  BY <1>21, ForgetSafe DEF Crash
<1>22. ASSUME NEW p \in Process, ReadUnresolved(p)
      PROVE  Safe'
  BY <1>22 DEF ReadUnresolved, Goto
<1>23. ASSUME NEW p \in Process, LockToSettle(p)
      PROVE  Safe'
  BY <1>23 DEF LockToSettle, Goto
<1>24. ASSUME NEW p \in Process, RefusedSettle(p)
      PROVE  Safe'
  BY <1>24, ForgetSafe DEF RefusedSettle
<1>25. ASSUME NEW p \in Process, SettleOne(p)
      PROVE  Safe'
  BY <1>25, SettleOneSafe
<1>26. CASE Tidy
  BY <1>26 DEF Tidy, ClearStaleLock
<1> QED
  BY <1>0, <1>1, <1>2, <1>3, <1>4, <1>5, <1>6, <1>7, <1>8, <1>9, <1>10, <1>11, <1>12, <1>13, <1>14, <1>15, <1>16, <1>18, <1>19, <1>20, <1>21, <1>22, <1>23, <1>24, <1>25, <1>26
  DEF Next, Opening, Body

LEMMA InvStep == Inv /\ [Next]_vars => Inv'
<1> SUFFICES ASSUME Inv, [Next]_vars PROVE Inv'
  OBVIOUS
<1>1. TypeOK'
  BY TypeStep DEF Inv, Safe
<1> QED
  BY <1>1, SafeStep DEF Inv

THEOREM Invariance == Spec => []Inv
  BY InitInv, InvStep, PTL DEF Spec

(***************************************************************************)
(* What follows from it.                                                   *)
(***************************************************************************)

\* The type invariant.
THEOREM TypeCorrect == Spec => []TypeOK
<1>1. Inv => TypeOK
  BY DEF Inv
<1> QED
  BY <1>1, Invariance, PTL

\* with_transaction and the two settling recoveries: whatever is killed,
\* refused or interrupted, a dirty tree is never without an entry that asks for
\* recovery, nor an announced effect without its own; an unannounced effect
\* (integration.rs:5197, archive.rs:200-206) keeps its entry too, unless its
\* operation failed with a clean tree and was recorded as leaving nothing.
THEOREM Evidence == Spec => []PartialWorkHasEvidence
<1>1. Inv => PartialWorkHasEvidence
  BY DEF Inv, Safe, PartialWorkHasEvidence, AdriftIsRecorded, UnannouncedIsKnown, DirtIsRecorded,
         Unresolved
<1> QED
  BY <1>1, Invariance, PTL

\* require_settled under the lock: at most one operation is ever unresolved.
THEOREM SingleInterruption == Spec => []OneInterruption
<1>1. Inv => OneInterruption
  BY DEF Inv, Safe
<1> QED
  BY <1>1, Invariance, PTL

\* The head moves only under an open operation, from where it began.
THEOREM HeadIsCompared == Spec => HeadFollowsItsOperation
<1> DEFINE Follows == committed' # committed =>
                        /\ committed' = tree
                        /\ \E p \in Process :
                                /\ lock = p
                                /\ op[p] \in OpId
                                /\ journal[op[p]].state = "started"
                                /\ journal[op[p]].head = committed
<1>1. Inv /\ [Next]_vars => [Follows]_vars
  <2> SUFFICES ASSUME Inv, Next, committed' # committed PROVE Follows
    BY DEF vars
  <2>1. PICK p \in Process : EndCommit(p)
    BY DEF Next, Opening, Body, Call, Acquire, RefusedLock, RequireSettled, Hygiene, Begin,
           Recheck, MutationStarted, Write, AnnounceOutside, TouchOutside, TouchUnannounced,
           RemoveWorktree,
           RecordRestored, BodyFails, StartCommit, StageCommit, RefuseStaged, Succeed,
           Finish, Release, Crash, ReadUnresolved, LockToSettle, RefusedSettle, SettleOne,
           Tidy, controlVars
  <2>2. pc[p] = "commit" /\ committed' = tree
    BY <2>1 DEF EndCommit, InstallCommit, At
  <2>3. lock = p
    BY <2>2, Alone DEF Inside, Live
  <2>4. op[p] \in OpId /\ journal[op[p]].state = "started" /\ journal[op[p]].head = committed
    BY <2>2, InTheBody DEF Live, Inv, Safe, StandsOnHead
  <2> QED
    BY <2>2, <2>3, <2>4
<1> QED
  BY <1>1, Invariance, PTL DEF HeadFollowsItsOperation, Spec

\* Neither a later operation nor a recoverer with an old copy gives a settled
\* entry another state, or other flags (Journal::finish, next_id, run_recover);
\* a second recoverer does rewrite who settled it and when.
THEOREM SettledForGood == Spec => SettlementIsFinal
<1> DEFINE Kept == \A n \in OpId : journal[n].state \in {"completed", "failed_clean"}
                        => journal'[n] = [journal[n] EXCEPT !.by = journal'[n].by]
<1>1. Inv /\ [Next]_vars => [Kept]_journal
  <2> SUFFICES ASSUME Inv, Next PROVE Kept
    BY DEF vars, controlVars
  <2> USE DEF Inv, TypeOK
  <2>1. \/ UNCHANGED journal
        \/ \E p \in Process : \/ Begin(p)
                              \/ pc[p] \in Live /\ \E r : WriteRecord(p, r)
                              \/ Finish(p)
                              \/ SettleOne(p)
    BY DEF Next, Opening, Body, Call, Acquire, RefusedLock, RequireSettled, Hygiene,
           Recheck, MutationStarted, Write, AnnounceOutside, TouchOutside, TouchUnannounced,
           RemoveWorktree,
           RecordRestored, BodyFails, StartCommit, StageCommit, RefuseStaged, Succeed,
           EndCommit, InstallCommit, Release, Crash, ReadUnresolved, LockToSettle,
           RefusedSettle, Tidy, controlVars, At, InBody, Live
  <2>2. \A n \in OpId : journal[n] = [journal[n] EXCEPT !.by = journal[n].by]
    BY Resettled
  <2>3. ASSUME NEW p \in Process, Begin(p) PROVE Kept
    <3>1. \A n \in OpId : journal[n].state # "absent" => journal'[n] = journal[n]
      BY <2>3, ControlAssumption DEF Begin, IsNextId
    <3> QED
      BY <2>2, <3>1
  <2>4. ASSUME NEW p \in Process, pc[p] \in Live, \/ \E r : WriteRecord(p, r) \/ Finish(p)
        PROVE  Kept
    <3>1. journal[op[p]].state = "started" /\ op[p] \in OpId
      BY <2>4, InTheBody
    <3>2. \A n \in OpId : n # op[p] => journal'[n] = journal[n]
      BY <2>4 DEF WriteRecord, Finish, Settle
    <3> QED
      BY <2>2, <3>1, <3>2
  <2>5. ASSUME NEW p \in Process, SettleOne(p) PROVE Kept
    <3>1. op[p] \in OpId /\ mem[p] \in Record(Command, Contents)
      BY <2>5 DEF SettleOne, At, Safe, CopyIsFaithful
    <3>2. \A n \in OpId : n # op[p] => journal'[n] = journal[n]
      BY <2>5 DEF SettleOne, Settle
    <3>3. CASE UNCHANGED journal
      BY <2>2, <3>3
    <3>4. ASSUME NEW q \in Process, NEW state \in {"failed_clean", "completed"},
                 journal[op[p]] = Finished(q, mem[p], state), Settle(p, state)
          PROVE  Kept
      <4>1. journal'[op[p]] = Finished(p, mem[p], state)
        BY <3>1, <3>4 DEF Settle
      <4>2. journal'[op[p]] = [journal[op[p]] EXCEPT !.by = journal'[op[p]].by]
        BY <3>1, <3>4, <4>1, Resettled
      <4> QED
        BY <2>2, <3>2, <4>2
    <3>5. CASE journal[op[p]] = mem[p] /\ mem[p].state = "failed_partial"
      BY <2>2, <3>2, <3>5
    <3> QED
      BY <2>5, <3>3, <3>4, <3>5, SettlesOnceAndClean
  <2>6. \A p \in Process : Finish(p) => pc[p] \in Live
    BY DEF Finish, At, Live
  <2> QED
    BY <2>1, <2>2, <2>3, <2>4, <2>5, <2>6
<1> QED
  BY <1>1, Invariance, PTL DEF SettlementIsFinal, Spec
=============================================================================
