------------------------- MODULE ControlRepository -------------------------
(***************************************************************************)
(* The control repository and the wrapper every mutating command runs in:  *)
(* the project lock, the operation journal, Git's index lock, the tracked  *)
(* records in the working tree and the committed ones, and with_transaction*)
(* (src/src/control/*.rs, src/src/commands/transaction.rs).                *)
(*                                                                         *)
(* The body a command runs between Begin and Finish is the business of the *)
(* modules that extend this one: Transaction for the general contract,     *)
(* Promotion for the commands around `integration promote`.                *)
(*                                                                         *)
(* The project lock is taken here at the level of ExclusiveLock, which     *)
(* ProjectLock implements.                                                 *)
(***************************************************************************)
EXTENDS Naturals

CONSTANTS
    Process,   \* command processes; a crashed one is started afresh
    Free,      \* value of `lock`: no lock file
    Stale,     \* value of `lock`: left behind by a killed process
    Nothing,   \* no head, no snapshot
    OpId       \* operation identifiers: an initial segment of 1, 2, ...

ASSUME ControlAssumption ==
    /\ Free \notin Process
    /\ Stale \notin Process
    /\ Free # Stale
    /\ OpId \subseteq Nat \ {0}

VARIABLES
    lock,      \* holder of harness.lock, Free or Stale
    indexLock, \* TRUE: .git/index.lock exists
    journal,   \* the operation records under journal/ (never committed)
    tree,      \* the tracked records as the working tree has them
    committed, \* the tracked records at the control head
    pc,        \* where each process stands
    op,        \* the journal identifier a process opened, 0 before
    mem,       \* the operation record it holds in memory
    snapshot,  \* the tracked paths captured when the transaction began
    outcome    \* how the body ended

controlVars == <<lock, indexLock, journal, tree, committed>>
processVars == <<pc, op, mem, snapshot, outcome>>

(***************************************************************************)
(* Journal records (OperationRecord). `head` is expected_control_head,     *)
(* `outside` touched_outside_control, `mutated` mutation_started and       *)
(* `restored` that mutation-worktree-restored is among the recorded steps. *)
(* `by` is the process that last wrote the record's end: it stands for     *)
(* `failure` and `finished_at`, which every settlement writes afresh. The  *)
(* head is identified with what it holds.                                  *)
(***************************************************************************)
Record(Command, Contents) ==
    [command : Command \cup {"none"},
     state : {"absent", "started", "completed", "failed_clean", "failed_partial"},
     head : Contents \cup {Nothing},
     outside : BOOLEAN, mutated : BOOLEAN, restored : BOOLEAN,
     by : Process \cup {Nothing}]

NoRecord == [command |-> "none", state |-> "absent", head |-> Nothing, outside |-> FALSE,
             mutated |-> FALSE, restored |-> FALSE, by |-> Nothing]

NeedsRecovery(record) == record.state \in {"started", "failed_partial"}

Unresolved == {n \in OpId : NeedsRecovery(journal[n])}

\* Faulty: the highest identifier may be handed out again.
IsLastId(n) ==
    /\ \A m \in OpId : m > n => journal[m].state = "absent"
    /\ n > 1 => n - 1 \in OpId /\ journal[n - 1].state # "absent"

\* next_id: one more than the highest identifier in the directory.
IsNextId(n) ==
    /\ \A m \in OpId : m >= n => journal[m].state = "absent"
    /\ n > 1 => n - 1 \in OpId /\ journal[n - 1].state # "absent"

\* is_clean: `git status` reports nothing staged or modified.
Clean == tree = committed

\* terminal_state: how a failed operation is recorded.
\* Faulty: only the working tree decides.
TerminalStateOfTree(how, record) ==
    IF how = "recovery" \/ ~Clean THEN "failed_partial" ELSE "failed_clean"

TerminalState(how, record) ==
    IF how = "recovery" \/ record.mutated \/ record.outside \/ ~Clean
    THEN "failed_partial" ELSE "failed_clean"

(***************************************************************************)
(* Steps of with_transaction around the body.                              *)
(***************************************************************************)
At(p, from) == pc[p] = from
Goto(p, to) == pc' = [pc EXCEPT ![p] = to]

InitControl(contents) ==
    /\ lock = Free
    /\ indexLock = FALSE
    /\ journal = [n \in OpId |-> NoRecord]
    /\ tree = contents
    /\ committed = contents
    /\ pc = [p \in Process |-> "idle"]
    /\ op = [p \in Process |-> 0]
    /\ mem = [p \in Process |-> NoRecord]
    /\ snapshot = [p \in Process |-> Nothing]
    /\ outcome = [p \in Process |-> "none"]

\* The process is over: its memory is gone.
Forget(p) ==
    /\ Goto(p, "idle")
    /\ op' = [op EXCEPT ![p] = 0]
    /\ mem' = [mem EXCEPT ![p] = NoRecord]
    /\ snapshot' = [snapshot EXCEPT ![p] = Nothing]
    /\ outcome' = [outcome EXCEPT ![p] = "none"]

\* A command is invoked; `mem` carries its name until the record is opened.
Call(p, command) ==
    /\ At(p, "idle")
    /\ Goto(p, "acquire")
    /\ mem' = [mem EXCEPT ![p].command = command]
    /\ UNCHANGED <<controlVars, op, snapshot, outcome>>

Acquire(p) ==
    /\ At(p, "acquire")
    /\ lock = Free
    /\ Goto(p, "settled?")
    /\ lock' = p
    /\ UNCHANGED <<indexLock, journal, tree, committed, op, mem, snapshot, outcome>>

\* PolicyLockHeld or PolicyStaleLock: nothing was touched.
RefusedLock(p) ==
    /\ At(p, "acquire")
    /\ lock # Free
    /\ Forget(p)
    /\ UNCHANGED controlVars

\* Faulty: unresolved operations are not looked for.
AssumeSettled(p) ==
    /\ At(p, "settled?")
    /\ Goto(p, "hygiene")
    /\ UNCHANGED <<controlVars, op, mem, snapshot, outcome>>

\* require_settled, before anything is written.
RequireSettled(p) ==
    /\ At(p, "settled?")
    /\ Goto(p, IF Unresolved = {} THEN "hygiene" ELSE "release")
    /\ UNCHANGED <<controlVars, op, mem, snapshot, outcome>>

\* validate_hygiene stages into a quarantine while it holds .git/index.lock,
\* and fails when the file is already there.
Hygiene(p) ==
    \/ /\ At(p, "hygiene")
       /\ Goto(p, IF indexLock THEN "release" ELSE "quarantine")
       /\ indexLock' = TRUE
       /\ UNCHANGED <<lock, journal, tree, committed, op, mem, snapshot, outcome>>
    \/ /\ At(p, "quarantine")
       /\ Goto(p, "begin")
       /\ indexLock' = FALSE
       /\ UNCHANGED <<lock, journal, tree, committed, op, mem, snapshot, outcome>>

\* snapshot_tracked_paths
Capture(p) == snapshot' = [snapshot EXCEPT ![p] = tree]

\* snapshot_tracked_paths, head and journal.begin.
Begin(p) == \E n \in OpId :
    /\ At(p, "begin")
    /\ IsNextId(n)
    /\ Goto(p, "body")
    /\ op' = [op EXCEPT ![p] = n]
    /\ LET record == [mem[p] EXCEPT !.state = "started", !.head = committed]
       IN /\ mem' = [mem EXCEPT ![p] = record]
          /\ journal' = [journal EXCEPT ![n] = record]
    /\ Capture(p)
    /\ UNCHANGED <<lock, indexLock, tree, committed, outcome>>

Opening(p) == Acquire(p) \/ RefusedLock(p) \/ RequireSettled(p) \/ Hygiene(p) \/ Begin(p)

(***************************************************************************)
(* What a body does to the control repository. A step rewrites the whole   *)
(* operation record from memory (Journal::step).                           *)
(***************************************************************************)
WriteRecord(p, record) ==
    /\ mem' = [mem EXCEPT ![p] = record]
    /\ journal' = [journal EXCEPT ![op[p]] = record]

\* mutation_started
Mutating(record) == [record EXCEPT !.mutated = TRUE]

\* outside_control: mutation_started, then the flag, then the step.
OutsideControl(record) == [record EXCEPT !.mutated = TRUE, !.outside = TRUE]

\* The body returns: "ok", "error", "recovery" (an error whose category asks
\* for recovery), "no_persist" or "sensitive" (PolicySensitiveValue).
Return(p, how) ==
    /\ Goto(p, "finish")
    /\ outcome' = [outcome EXCEPT ![p] = how]

\* commit: compare the head, then create .git/index.lock and stage.
StageCommit(p, then) ==
    /\ \/ /\ committed # mem[p].head \/ indexLock
          /\ Return(p, "error")
          /\ UNCHANGED indexLock
       \/ /\ committed = mem[p].head
          /\ ~indexLock
          /\ Goto(p, then)
          /\ indexLock' = TRUE
          /\ UNCHANGED outcome
    /\ UNCHANGED <<lock, journal, tree, committed, op, mem, snapshot>>

\* The index is installed over the lock file and `git commit` records it;
\* everything under the tracked paths goes in. With nothing staged the lock
\* is dropped and there is no commit.
InstallCommit(p) ==
    /\ indexLock' = FALSE
    /\ committed' = tree
    /\ UNCHANGED <<lock, journal, tree>>

(***************************************************************************)
(* After the body: the record is settled, then the lock is dropped.        *)
(***************************************************************************)

\* Journal::finish, of whatever copy of the record process p holds.
Finished(p, record, state) == [record EXCEPT !.state = state, !.by = p]

Settle(p, state) ==
    journal' = [journal EXCEPT ![op[p]] = Finished(p, mem[p], state)]

Finish(p) ==
    /\ At(p, "finish")
    /\ Goto(p, "release")
    /\ \/ /\ outcome[p] = "ok"
          /\ Settle(p, "completed")
          /\ UNCHANGED tree
       \/ /\ outcome[p] = "no_persist"
          /\ ~mem[p].mutated
          /\ journal' = [journal EXCEPT ![op[p]] = NoRecord]
          /\ UNCHANGED tree
       \/ /\ \/ outcome[p] \in {"error", "recovery"}
             \/ outcome[p] = "no_persist" /\ mem[p].mutated
          /\ Settle(p, TerminalState(outcome[p], mem[p]))
          /\ UNCHANGED tree
       \/ /\ outcome[p] = "sensitive"
          /\ tree' = snapshot[p]
          /\ Settle(p, IF mem[p].outside \/ snapshot[p] # committed
                       THEN "failed_partial" ELSE "failed_clean")
    /\ UNCHANGED <<lock, indexLock, committed, op, mem, snapshot, outcome>>

Release(p) ==
    /\ At(p, "release")
    /\ lock' = Free
    /\ Forget(p)
    /\ UNCHANGED <<indexLock, journal, tree, committed>>

\* Killed outright. The lock file and Git's index lock stay where they are.
Crash(p) ==
    /\ ~At(p, "idle")
    /\ lock' = IF lock = p THEN Stale ELSE lock
    /\ Forget(p)
    /\ UNCHANGED <<indexLock, journal, tree, committed>>

\* diagnose and clear_stale, as `project recover --resume` runs them: only a
\* lock whose holder is gone is removed.
\* Faulty: none is removed.
ClearNoLock == UNCHANGED lock

ClearStaleLock == lock' = IF lock = Stale THEN Free ELSE lock
----------------------------------------------------------------------------
(***************************************************************************)
(* Properties, of every module that extends this one.                      *)
(***************************************************************************)

\* Recovery never has two interrupted operations to tell apart: no operation
\* begins while another one is unresolved (require_settled, journal.rs:339).
OneInterruption == \A m, n \in Unresolved : m = n

\* A settled operation keeps its outcome: neither a recoverer holding an old
\* copy of the record nor a later operation gives it another state, or takes
\* from it what it says the operation did. (A second recoverer does rewrite
\* who settled it and when.)
SettlementIsFinal ==
    [][ \A n \in OpId : journal[n].state \in {"completed", "failed_clean"}
            => journal'[n] = [journal[n] EXCEPT !.by = journal'[n].by] ]_journal
============================================================================
