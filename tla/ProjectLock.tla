---------------------------- MODULE ProjectLock ----------------------------
(***************************************************************************)
(* The single-writer project lock of the control repository                *)
(* (src/src/control/lock.rs) and the two commands that touch it:           *)
(*                                                                         *)
(*   - a mutating command, which links a complete holder record into place *)
(*     (acquire), diagnoses the lock when the link fails, and removes the  *)
(*     file when its guard is dropped;                                     *)
(*   - `project recover --resume`, which diagnoses the lock and clears it  *)
(*     when the holder is provably gone (diagnose, then clear_stale).      *)
(*                                                                         *)
(* Every file access of the inspection is a step of its own: the lock may  *)
(* be released, taken, abandoned or cleared between any two of them.       *)
(***************************************************************************)
EXTENDS Naturals

CONSTANTS
    Incarnation,    \* process incarnations: each is started at most once
    Pid,            \* process numbers; the system recycles them
    PidOf,          \* the number each incarnation runs under
    Instant,        \* values of LockHolder.acquired_at (whole seconds)
    Mortal,         \* the incarnations that end or are killed (the others
                    \* stand for an operator who is always there)
    PsAnswers,      \* `ps` can always be consulted
    SerialRecovery, \* the operator runs one `project recover` at a time
    NoLock          \* "no harness.lock file"

ASSUME LockAssumption ==
    /\ PidOf \in [Incarnation -> Pid]
    /\ Mortal \subseteq Incarnation
    /\ PsAnswers \in BOOLEAN
    /\ SerialRecovery \in BOOLEAN

\* LockHolder. The pair (pid, process_start) identifies the incarnation;
\* `started` is FALSE when the platform reported no start time.
Holder == [process : Incarnation, at : Instant, started : BOOLEAN]

ASSUME NoLockAssumption == NoLock \notin Holder

VARIABLES
    lockFile,   \* contents of harness.lock, or NoLock
    stage,      \* where each incarnation stands
    recovering, \* TRUE: this inspection is `recover --resume`, else acquire
    seen,       \* the holder record the inspection is about
    answer,     \* LockDiagnosis computed for `seen`
    passes,     \* calls to liveness this inspection has made
    abandoned   \* history: incarnations killed while they held the lock

lockVars == <<lockFile, stage, recovering, seen, answer, passes, abandoned>>

Alive == {"idle", "exists", "read", "ask", "refused",
          "clearing", "removing", "holding"}
Diagnosis == {"none", "Free", "Held", "Stale", "Ambiguous"}

MaxPasses == 2

(***************************************************************************)
(* What `ps` and the holder record establish together (diagnose_holder).   *)
(***************************************************************************)
UnderItsNumber(h) == {p \in Incarnation : stage[p] \in Alive /\ PidOf[p] = PidOf[h.process]}

\* Faulty: an unanswered `ps` counts as a process that ended.
DiagnoseSilenceAsDeath(h) ==
    (IF PsAnswers THEN {} ELSE {"Stale"}) \cup
    (IF UnderItsNumber(h) = {} THEN {"Stale"}
     ELSE IF ~h.started THEN {"Ambiguous"}
     ELSE IF h.process \in UnderItsNumber(h) THEN {"Held"} ELSE {"Stale"})

\* Faulty: whatever runs under the number is taken for the holder.
DiagnoseByNumber(h) == IF UnderItsNumber(h) = {} THEN {"Stale"} ELSE {"Held"}

DiagnoseHolder(h) ==
    (IF PsAnswers THEN {} ELSE {"Ambiguous"}) \cup
    (IF UnderItsNumber(h) = {} THEN {"Stale"}
     ELSE IF ~h.started THEN {"Ambiguous"}
     ELSE IF h.process \in UnderItsNumber(h) THEN {"Held"} ELSE {"Stale"})

(***************************************************************************)
(* Processes come and go.                                                  *)
(***************************************************************************)
LockInit ==
    /\ lockFile = NoLock
    /\ stage = [p \in Incarnation |-> "unborn"]
    /\ recovering = [p \in Incarnation |-> FALSE]
    /\ seen = [p \in Incarnation |-> NoLock]
    /\ answer = [p \in Incarnation |-> "none"]
    /\ passes = [p \in Incarnation |-> 0]
    /\ abandoned = {}

\* A number is free for reuse once its incarnation is gone.
Spawn(p) ==
    /\ stage[p] = "unborn"
    /\ \A q \in Incarnation : PidOf[q] = PidOf[p] => stage[q] \notin Alive
    /\ stage' = [stage EXCEPT ![p] = "idle"]
    /\ UNCHANGED <<lockFile, recovering, seen, answer, passes, abandoned>>

\* The locals of an inspection go out of scope.
ForgetInspection(p) ==
    /\ recovering' = [recovering EXCEPT ![p] = FALSE]
    /\ seen' = [seen EXCEPT ![p] = NoLock]
    /\ answer' = [answer EXCEPT ![p] = "none"]
    /\ passes' = [passes EXCEPT ![p] = 0]

\* A command that is not using the lock ends.
Exit(p) ==
    /\ p \in Mortal
    /\ stage[p] = "idle"
    /\ stage' = [stage EXCEPT ![p] = "gone"]
    /\ UNCHANGED <<lockFile, recovering, seen, answer, passes, abandoned>>

\* Killed outright: no destructor runs, so a held lock file stays behind.
Kill(p) ==
    /\ p \in Mortal
    /\ stage[p] \in Alive
    /\ stage' = [stage EXCEPT ![p] = "gone"]
    /\ abandoned' = IF stage[p] = "holding" THEN abandoned \cup {p} ELSE abandoned
    /\ ForgetInspection(p)
    /\ UNCHANGED lockFile

(***************************************************************************)
(* acquire: the scratch file is written and hard-linked to harness.lock.   *)
(* The link is exclusive and the file is complete when it appears.         *)
(***************************************************************************)
Inspect(p, forRecovery) ==
    /\ stage' = [stage EXCEPT ![p] = "exists"]
    /\ recovering' = [recovering EXCEPT ![p] = forRecovery]
    /\ seen' = [seen EXCEPT ![p] = NoLock]
    /\ answer' = [answer EXCEPT ![p] = "none"]
    /\ passes' = [passes EXCEPT ![p] = 0]
    /\ UNCHANGED <<lockFile, abandoned>>

\* Faulty: the scratch file is renamed over whatever is there.
RenameInstead == TRUE

\* hard_link fails when the name exists.
CanLink == lockFile = NoLock

AcquireWins(p, at, started) ==
    /\ stage[p] = "idle"
    /\ CanLink
    /\ PsAnswers => started
    /\ lockFile' = [process |-> p, at |-> at, started |-> started]
    /\ stage' = [stage EXCEPT ![p] = "holding"]
    /\ UNCHANGED <<recovering, seen, answer, passes, abandoned>>

AcquireLoses(p) ==
    /\ stage[p] = "idle"
    /\ lockFile # NoLock
    /\ Inspect(p, FALSE)

\* Drop removes the path, whatever the file there names by then.
ReleaseLock(p) ==
    /\ stage[p] = "holding"
    /\ lockFile' = NoLock
    /\ stage' = [stage EXCEPT ![p] = "idle"]
    /\ UNCHANGED <<recovering, seen, answer, passes, abandoned>>

(***************************************************************************)
(* diagnose_with, one file access or `ps` call at a time.                  *)
(***************************************************************************)
Conclude(p, d) ==
    /\ answer' = [answer EXCEPT ![p] = d]
    /\ stage' = [stage EXCEPT ![p] = IF recovering[p] THEN "clearing" ELSE "refused"]
    /\ UNCHANGED <<lockFile, recovering, seen, passes, abandoned>>

\* read_current: path.exists()
CheckExists(p) ==
    /\ stage[p] = "exists"
    /\ \/ /\ lockFile = NoLock
          /\ Conclude(p, "Free")
       \/ /\ lockFile # NoLock
          /\ stage' = [stage EXCEPT ![p] = "read"]
          /\ UNCHANGED <<lockFile, recovering, seen, answer, passes, abandoned>>

AskAbout(p, h) ==
    /\ seen' = [seen EXCEPT ![p] = h]
    /\ stage' = [stage EXCEPT ![p] = "ask"]
    /\ UNCHANGED <<lockFile, recovering, answer, passes, abandoned>>

PassesLeft(p) == passes[p] < MaxPasses

\* read_current: read_to_string. The file may have gone since exists().
ReadContents(p) ==
    /\ stage[p] = "read"
    /\ \/ /\ lockFile = NoLock
          /\ Conclude(p, "Ambiguous")
       \/ /\ lockFile # NoLock
          /\ lockFile = seen[p]
          /\ Conclude(p, answer[p])
       \/ /\ lockFile # NoLock
          /\ lockFile # seen[p]
          /\ PassesLeft(p)
          /\ AskAbout(p, lockFile)
       \/ /\ lockFile # NoLock
          /\ lockFile # seen[p]
          /\ ~PassesLeft(p)
          /\ Conclude(p, "Held")

AskLiveness(p) ==
    /\ stage[p] = "ask"
    /\ \E d \in DiagnoseHolder(seen[p]) : answer' = [answer EXCEPT ![p] = d]
    /\ passes' = [passes EXCEPT ![p] = @ + 1]
    /\ stage' = [stage EXCEPT ![p] = "exists"]
    /\ UNCHANGED <<lockFile, recovering, seen, abandoned>>

\* The refusal is reported. PolicyLockHeld (Held, Free) is what
\* retry_while_lock_held retries; the retry is the next attempt to link.
Report(p) ==
    /\ stage[p] = "refused"
    /\ stage' = [stage EXCEPT ![p] = "idle"]
    /\ ForgetInspection(p)
    /\ UNCHANGED <<lockFile, abandoned>>

(***************************************************************************)
(* `project recover --resume`: diagnose, then clear_stale.                 *)
(***************************************************************************)
InRecovery(p) == stage[p] \in {"exists", "read", "ask", "clearing", "removing"}
                 /\ recovering[p]

InspectToRecover(p) ==
    /\ stage[p] = "idle"
    /\ SerialRecovery => \A q \in Incarnation : ~InRecovery(q)
    /\ Inspect(p, TRUE)

StillTheDiagnosed(p) == answer[p] = "Stale" /\ lockFile = seen[p]

\* clear_stale reads the holder again and compares it with the diagnosed one.
CompareStale(p) ==
    /\ stage[p] = "clearing"
    /\ \/ /\ StillTheDiagnosed(p)
          /\ stage' = [stage EXCEPT ![p] = "removing"]
          /\ UNCHANGED <<recovering, seen, answer, passes>>
       \/ /\ ~StillTheDiagnosed(p)
          /\ stage' = [stage EXCEPT ![p] = "idle"]
          /\ ForgetInspection(p)
    /\ UNCHANGED <<lockFile, abandoned>>

\* remove_file, on the path and not on what was compared.
RemoveStale(p) ==
    /\ stage[p] = "removing"
    /\ lockFile' = NoLock
    /\ stage' = [stage EXCEPT ![p] = "idle"]
    /\ ForgetInspection(p)
    /\ UNCHANGED abandoned

LockStep(p) ==
    \/ AcquireLoses(p)
    \/ ReleaseLock(p)
    \/ CheckExists(p)
    \/ ReadContents(p)
    \/ AskLiveness(p)
    \/ Report(p)
    \/ CompareStale(p)
    \/ RemoveStale(p)

LockNext == \E p \in Incarnation :
    \/ Spawn(p)
    \/ Exit(p)
    \/ Kill(p)
    \/ \E at \in Instant, started \in BOOLEAN : AcquireWins(p, at, started)
    \/ InspectToRecover(p)
    \/ LockStep(p)

LockSpec == LockInit /\ [][LockNext]_lockVars

\* A running process keeps executing. Nothing obliges an operator to run
\* `project recover`; RecoverySpec adds the operator who does, repeatedly
\* enough that contention for SerialRecovery cannot starve it.
Fairness == \A p \in Incarnation :
    WF_lockVars(ReleaseLock(p) \/ CheckExists(p) \/ ReadContents(p) \/ AskLiveness(p)
            \/ Report(p) \/ CompareStale(p) \/ RemoveStale(p))

RecoveryFairness ==
    /\ Fairness
    /\ \A p \in Incarnation \ Mortal : WF_lockVars(Spawn(p)) /\ SF_lockVars(InspectToRecover(p))

RecoverySpec == LockSpec /\ RecoveryFairness
----------------------------------------------------------------------------
(***************************************************************************)
(* Properties.                                                             *)
(***************************************************************************)

\* The type invariant.
LockTypeOK ==
    /\ lockFile \in Holder \cup {NoLock}
    /\ stage \in [Incarnation -> Alive \cup {"unborn", "gone"}]
    /\ recovering \in [Incarnation -> BOOLEAN]
    /\ seen \in [Incarnation -> Holder \cup {NoLock}]
    /\ answer \in [Incarnation -> Diagnosis]
    /\ passes \in [Incarnation -> 0 .. MaxPasses]
    /\ abandoned \subseteq Incarnation

\* "One project accepts one mutating command at a time" (lock.rs:3): no two
\* processes are inside the section the lock protects.
MutualExclusion ==
    \A p, q \in Incarnation : stage[p] = "holding" /\ stage[q] = "holding" => p = q

\* Whoever is inside the protected section is the one the lock file names, so
\* that every diagnosis another process makes is about the real writer.
LockNamesItsHolder ==
    \A p \in Incarnation : stage[p] = "holding" => lockFile # NoLock /\ lockFile.process = p

\* A stale verdict is only ever reached about a process that was killed while
\* it held the lock: never about one that released the lock and then ended
\* during the inspection (the defect diagnose_with's second read removes).
StaleVerdictIsAbandonment ==
    \A p \in Incarnation :
        stage[p] \in {"refused", "clearing", "removing"} /\ answer[p] = "Stale"
            => seen[p] # NoLock /\ seen[p].process \in abandoned

\* A lock file disappears only when its own holder drops it, or after that
\* holder was killed: "a stale verdict about one specific abandoned lock only
\* ever removes that lock" (lock.rs:470).
OnlyOwnOrAbandonedLockRemoved ==
    [][ lockFile # NoLock /\ lockFile' = NoLock =>
            \/ lockFile.process \in abandoned
            \/ stage[lockFile.process] = "holding" /\ stage'[lockFile.process] = "idle" ]_lockVars

\* What the commands are promised, ExclusiveLock: whatever the interleaving of
\* inspections, releases, kills and recoveries, one process is inside the
\* protected section for as long as the lock file names it, and an abandoned
\* lock is only opened by clearing it.
Disposition ==
    IF lockFile = NoLock THEN NoLock
    ELSE IF lockFile.process \in abandoned THEN "Stale" ELSE lockFile.process

Abstract == INSTANCE ExclusiveLock WITH
                Process <- Incarnation, lock <- Disposition,
                inside <- {p \in Incarnation : stage[p] = "holding"}, Free <- NoLock, Stale <- "Stale"

ImplementsExclusiveLock == Abstract!Spec

\* An abandoned lock does not block the project for ever once an operator
\* keeps running `project recover --resume`.
AbandonedLockCleared ==
    \A q \in Incarnation :
        (lockFile # NoLock /\ lockFile.process = q /\ q \in abandoned)
            ~> (lockFile = NoLock \/ lockFile.process # q)
============================================================================
