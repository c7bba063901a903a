---------------------------- MODULE Transaction ----------------------------
(***************************************************************************)
(* The contract between with_transaction and the bodies it runs: what a    *)
(* mutating command of the program may do between journal.begin and        *)
(* journal.finish, together with the two recoveries that settle one        *)
(* journal entry under the lock, `project recover --settle-clean-mutation` *)
(* and `--settle-committed-gate-run`.                                      *)
(*                                                                         *)
(* It is about every command but `integration promote`, whose interrupted  *)
(* entry `project recover --resume` settles, without the lock, before it   *)
(* carries on: that is Promotion. Beside the entries of this module        *)
(* `--resume` clears a stale lock and refuses.                             *)
(*                                                                         *)
(* An effect outside the control repository (a branch, a worktree, a ref,  *)
(* the authority) that no committed record describes yet belongs to the    *)
(* operation that had it: `adrift` when a journal step announced it,       *)
(* `unannounced` when none did. `integration abandon` releases, and        *)
(* `archive create` makes and releases, refs with no step of their own     *)
(* (integration.rs:5197, archive.rs:200-206).                              *)
(***************************************************************************)
EXTENDS ControlRepository

CONSTANTS
    Contents,   \* values the tracked records take
    First       \* what project initialization committed

ASSUME ContentsAssumption ==
    /\ First \in Contents
    /\ Nothing \notin Contents

VARIABLES adrift, unannounced

outsideVars == <<adrift, unannounced>>
vars == <<controlVars, processVars, outsideVars>>

Command == {"mutation.create", "gate.run.settle", "other"}

Init ==
    /\ InitControl(First)
    /\ adrift = {}
    /\ unannounced = {}

(***************************************************************************)
(* The body.                                                               *)
(***************************************************************************)
InBody(p) == At(p, "body")

\* A recheck refuses. pure_recheck wraps the error for cleanup only while no
\* durable effect has begun, and every body rechecks before its first write
\* or after mutation_started.
Recheck(p) ==
    /\ InBody(p)
    /\ mem[p].mutated \/ tree = snapshot[p]
    /\ Return(p, IF mem[p].mutated THEN "error" ELSE "no_persist")
    /\ UNCHANGED <<controlVars, op, mem, snapshot, outsideVars>>

MutationStarted(p) ==
    /\ InBody(p)
    /\ ~mem[p].mutated
    /\ WriteRecord(p, Mutating(mem[p]))
    /\ UNCHANGED <<lock, indexLock, tree, committed, pc, op, snapshot, outcome, outsideVars>>

\* write_atomic or events.append.
Write(p) ==
    /\ pc[p] \in {"body", "unannounced"}
    /\ \E contents \in Contents : tree' = contents
    /\ UNCHANGED <<lock, indexLock, journal, committed, processVars, outsideVars>>

\* The step is journaled, then the effect it names happens.
AnnounceOutside(p) ==
    /\ InBody(p)
    /\ ~mem[p].restored
    /\ WriteRecord(p, OutsideControl(mem[p]))
    /\ Goto(p, "outside")
    /\ UNCHANGED <<lock, indexLock, tree, committed, op, snapshot, outcome, outsideVars>>

TouchOutside(p) ==
    /\ At(p, "outside")
    /\ adrift' = adrift \cup {op[p]}
    /\ Goto(p, "body")
    /\ UNCHANGED <<controlVars, op, mem, snapshot, outcome, unannounced>>

\* landing::release, or the archive refs, straight away: neither command has
\* journaled an effect before, and neither checks anything again afterwards.
TouchUnannounced(p) ==
    /\ InBody(p)
    /\ mem[p].command = "other"
    /\ ~mem[p].mutated
    /\ unannounced' = unannounced \cup {op[p]}
    /\ Goto(p, "unannounced")
    /\ UNCHANGED <<controlVars, op, mem, snapshot, outcome, adrift>>

\* mutation.create removes its disposable worktree. After a success it goes on
\* to commit its receipt; after a failure it records the removal
\* (outside_control_restored: the step, then the cleared flags).
RemoveWorktree(p) ==
    /\ InBody(p)
    /\ mem[p].command = "mutation.create"
    /\ mem[p].outside
    /\ adrift' = adrift \ {op[p]}
    /\ Goto(p, "body") \/ Goto(p, "removed")
    /\ UNCHANGED <<controlVars, op, mem, snapshot, outcome, unannounced>>

Restored(record) == [record EXCEPT !.restored = TRUE]
Cleared(record) == [record EXCEPT !.outside = FALSE, !.mutated = FALSE]

RecordRestored(p) ==
    \/ /\ At(p, "removed")
       /\ WriteRecord(p, Restored(mem[p]))
       /\ Goto(p, "restored")
       /\ UNCHANGED <<lock, indexLock, tree, committed, op, snapshot, outcome, outsideVars>>
    \/ /\ At(p, "restored")
       /\ WriteRecord(p, Cleared(mem[p]))
       /\ Return(p, "error")
       /\ UNCHANGED <<lock, indexLock, tree, committed, op, snapshot, outsideVars>>

\* An error anywhere in the body: a policy refusal, Git, the file system, or
\* an injected interruption, whose category asks for recovery.
BodyFails(p) ==
    /\ pc[p] \in {"body", "unannounced", "outside", "removed", "restored", "committed"}
    /\ \E how \in {"error", "recovery"} : Return(p, how)
    /\ UNCHANGED <<controlVars, op, mem, snapshot, outsideVars>>

StartCommit(p) ==
    /\ pc[p] \in {"body", "unannounced"}
    /\ StageCommit(p, "commit")
    /\ UNCHANGED outsideVars

\* The staged bytes are refused (PolicySensitiveValue); the lock is dropped.
RefuseStaged(p) ==
    /\ At(p, "commit")
    /\ Return(p, "sensitive")
    /\ indexLock' = FALSE
    /\ UNCHANGED <<lock, journal, tree, committed, op, mem, snapshot, outsideVars>>

\* The committed records describe every effect the body had.
EndCommit(p) ==
    /\ At(p, "commit")
    /\ InstallCommit(p)
    /\ adrift' = adrift \ {op[p]}
    /\ unannounced' = unannounced \ {op[p]}
    /\ Goto(p, "committed")
    /\ UNCHANGED <<op, mem, snapshot, outcome>>

\* A body returns Ok after its commit, or without having done anything.
Succeed(p) ==
    /\ \/ At(p, "committed")
       \/ InBody(p) /\ tree = snapshot[p] /\ ~mem[p].mutated
    /\ Return(p, "ok")
    /\ UNCHANGED <<controlVars, op, mem, snapshot, outsideVars>>

Body(p) ==
    \/ Recheck(p)
    \/ MutationStarted(p)
    \/ Write(p)
    \/ AnnounceOutside(p)
    \/ TouchOutside(p)
    \/ TouchUnannounced(p)
    \/ RemoveWorktree(p)
    \/ RecordRestored(p)
    \/ BodyFails(p)
    \/ StartCommit(p)
    \/ RefuseStaged(p)
    \/ EndCommit(p)
    \/ Succeed(p)

(***************************************************************************)
(* Settling one entry. The unresolved entries are read before the lock is  *)
(* taken; the checks run on that copy, and that copy is written back.      *)
(***************************************************************************)
ReadUnresolved(p) ==
    /\ At(p, "idle")
    /\ \E n \in Unresolved :
        /\ op' = [op EXCEPT ![p] = n]
        /\ mem' = [mem EXCEPT ![p] = journal[n]]
    /\ Goto(p, "settle?")
    /\ UNCHANGED <<controlVars, snapshot, outcome, outsideVars>>

LockToSettle(p) ==
    /\ At(p, "settle?")
    /\ lock = Free
    /\ lock' = p
    /\ Goto(p, "settling")
    /\ UNCHANGED <<indexLock, journal, tree, committed, op, mem, snapshot, outcome, outsideVars>>

RefusedSettle(p) ==
    /\ At(p, "settle?")
    /\ lock # Free
    /\ Forget(p)
    /\ UNCHANGED <<controlVars, outsideVars>>

\* cleanup_was_reported
CleanMutation(record) ==
    /\ record.command = "mutation.create"
    /\ record.state = "failed_partial"
    /\ record.restored
    /\ record.head = committed
    /\ Clean

\* committed_gate_run_has_settleable_shape
CommittedGateRun(record) ==
    /\ record.command = "gate.run.settle"
    /\ record.state = "failed_partial"
    /\ ~record.outside
    /\ ~record.mutated
    /\ record.head # committed
    /\ Clean

SettleOne(p) ==
    /\ At(p, "settling")
    /\ \/ CleanMutation(mem[p]) /\ Settle(p, "failed_clean")
       \/ CommittedGateRun(mem[p]) /\ Settle(p, "completed")
       \/ /\ ~CleanMutation(mem[p]) /\ ~CommittedGateRun(mem[p])
          /\ UNCHANGED journal
    /\ Goto(p, "release")
    /\ UNCHANGED <<lock, indexLock, tree, committed, op, mem, snapshot, outcome, outsideVars>>

\* `project recover --resume` clears the lock first, whatever is unresolved,
\* and has nothing to resume or refuses; a person removes a stale
\* .git/index.lock by hand.
Tidy ==
    \/ lock = Stale /\ ClearStaleLock
       /\ UNCHANGED <<indexLock, journal, tree, committed, processVars, outsideVars>>
    \/ indexLock /\ lock \notin Process /\ indexLock' = FALSE
       /\ UNCHANGED <<lock, journal, tree, committed, processVars, outsideVars>>

Next ==
    \/ \E p \in Process :
        \/ \E command \in Command : Call(p, command) /\ UNCHANGED outsideVars
        \/ Opening(p) /\ UNCHANGED outsideVars
        \/ Body(p)
        \/ Finish(p) /\ UNCHANGED outsideVars
        \/ Release(p) /\ UNCHANGED outsideVars
        \/ Crash(p) /\ UNCHANGED outsideVars
        \/ ReadUnresolved(p)
        \/ LockToSettle(p)
        \/ RefusedSettle(p)
        \/ SettleOne(p)
    \/ Tidy

Spec == Init /\ [][Next]_vars
----------------------------------------------------------------------------
(***************************************************************************)
(* Properties.                                                             *)
(***************************************************************************)

\* The type invariant.
TypeOK ==
    /\ lock \in Process \cup {Free, Stale}
    /\ indexLock \in BOOLEAN
    /\ journal \in [OpId -> Record(Command, Contents)]
    /\ tree \in Contents
    /\ committed \in Contents
    /\ pc \in [Process -> {"idle", "acquire", "settled?", "hygiene", "quarantine",
                           "begin", "body", "unannounced", "outside", "removed", "restored",
                           "commit", "committed", "finish", "release",
                           "settle?", "settling"}]
    /\ op \in [Process -> OpId \cup {0}]
    /\ mem \in [Process -> Record(Command, Contents)]
    /\ snapshot \in [Process -> Contents \cup {Nothing}]
    /\ outcome \in [Process -> {"none", "ok", "error", "recovery",
                                "no_persist", "sensitive"}]
    /\ adrift \subseteq OpId
    /\ unannounced \subseteq OpId

\* "A process killed at any point leaves evidence of what it was part-way
\* through" (journal.rs:5): whenever the working tree holds something the head
\* does not, some journal entry asks for recovery; and as long as an announced
\* effect outside control has no committed record, the entry of the very
\* operation that had it does. An effect that was not announced keeps its
\* evidence when the command is killed, but a failure that leaves the tree
\* clean is recorded as one that left nothing behind.
PartialWorkHasEvidence ==
    /\ tree # committed => Unresolved # {}
    /\ \A n \in adrift : NeedsRecovery(journal[n])
    /\ \A n \in unannounced : NeedsRecovery(journal[n]) \/ journal[n].state = "failed_clean"

\* The head advances only to what the working tree holds, from the very head
\* the operation recorded when it began.
HeadFollowsItsOperation ==
    [][ committed' # committed =>
            /\ committed' = tree
            /\ \E p \in Process :
                    /\ lock = p
                    /\ op[p] \in OpId
                    /\ journal[op[p]].state = "started"
                    /\ journal[op[p]].head = committed ]_vars
============================================================================
