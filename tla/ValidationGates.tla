--------------------------- MODULE ValidationGates ---------------------------
(***************************************************************************)
(* Expensive validation of candidates: `gate reserve`, `gate run`,         *)
(* `gate settle` and `gate abandon` (src/src/commands/gate.rs).            *)
(*                                                                         *)
(* A run is two transactions with the gate's subprocess between them, and  *)
(* nothing is locked while the subprocess runs: the candidate moves, the   *)
(* reservation expires or is settled by somebody else, other runs of the   *)
(* same gate begin and end. The first transaction leaves an execution      *)
(* permit, and for CPU-heavy validation a lane; the second records the     *)
(* receipt, settles the reservation and removes them.                      *)
(*                                                                         *)
(* A transaction is one step here: Transaction shows that one interrupted  *)
(* part-way stops every other command until it is recovered. Commands are  *)
(* invoked by the holder of the reservation they name.                     *)
(***************************************************************************)
EXTENDS Naturals, Sequences, FiniteSets

CONSTANTS
    Process,          \* processes that run `gate run`
    Card,
    Candidate,        \* what a key binds of a card: commit, revision, lease
    NoLease,          \* the card holds no lease
    Lane,             \* CPU-heavy lanes: 1 .. 2 in the code
    Gates,            \* length of a card's validation ladder
    MaxAttempts,      \* attempts a gate declares
    MaxReservations   \* bound

ASSUME GatesAssumption ==
    /\ NoLease \notin Candidate
    /\ Lane \subseteq Nat \ {0}
    /\ Gates \in Nat
    /\ MaxAttempts \in Nat \ {0}
    /\ MaxReservations \in Nat

Gate == 1 .. Gates    \* the card's checks in their frozen order
Id == 1 .. MaxReservations

VARIABLES
    candidate,    \* what each card currently stands for
    reservations, \* the reservation records, by identifier
    expired,      \* reservations 1 .. expired are past expires_at
    settlement,   \* the terminal outcome of each reservation
    permit,       \* its execution permit, and the lane that names (0 if none)
    lanes,        \* the reservation each lane record names, 0 if none
    receipts,     \* the receipts, oldest first
    run,          \* what each `gate run` holds in memory
    executions    \* history: times each reservation's gate was started

vars == <<candidate, reservations, expired, settlement, permit, lanes, receipts, run,
          executions>>

Mode == {"named-gate", "cpu-heavy", "declared-mutations"}
Outcome == {"none", "receipt", "failed", "abandoned"}

\* ValidationReservationKeyV1
Key == [card : Card, candidate : Candidate, gate : Gate, mode : Mode]

Reservation == [key : Key, generation : Nat \ {0}, predecessor : Id \cup {0}]

\* The part of a receipt that is compared, and the reservation that bought it.
Receipt == [card : Card, candidate : Candidate, gate : Gate, attempt : Nat \ {0},
            passed : BOOLEAN, reservation : Id]

\* A process runs the gate of reservation `id`, or none. `passed` stands for a
\* run that passed from a clean worktree.
Idle == [id |-> 0, attempt |-> 0]
Running(p) == run[p] # Idle

Permit == [held : BOOLEAN, lane : Lane \cup {0}]
NullPermit == [held |-> FALSE, lane |-> 0]
PermitOn(l) == [held |-> TRUE, lane |-> l]

Reserved == 1 .. Len(reservations)
KeyOf(n) == reservations[n].key

Init ==
    /\ candidate \in [Card -> Candidate]
    /\ reservations = <<>>
    /\ expired = 0
    /\ settlement = [n \in Id |-> "none"]
    /\ permit = [n \in Id |-> NullPermit]
    /\ lanes = [l \in Lane |-> 0]
    /\ receipts = <<>>
    /\ run = [p \in Process |-> Idle]
    /\ executions = [n \in Id |-> 0]

(***************************************************************************)
(* The validation ladder (policy/progressive_validation.rs).               *)
(***************************************************************************)
\* Receipts of one gate for one card, as it stands for `v`.
Of(c, v, g) == {n \in DOMAIN receipts : /\ receipts[n].card = c
                                        /\ receipts[n].candidate = v
                                        /\ receipts[n].gate = g}

Passing(c, v, g) == {n \in Of(c, v, g) : receipts[n].passed}

\* evidence_is_acceptable: the first clean pass came within the attempts.
Acceptable(c, v, g) ==
    \E n \in Passing(c, v, g) :
        /\ \A m \in Passing(c, v, g) : n <= m
        /\ receipts[n].attempt <= MaxAttempts

\* Faulty: any gate still short of evidence may run.
IsOutstanding(c, g) == ~Acceptable(c, candidate[c], g)

\* require_next_gate
IsNext(c, g) ==
    /\ ~Acceptable(c, candidate[c], g)
    /\ \A h \in 1 .. g - 1 : Acceptable(c, candidate[c], h)

\* next_attempt_number
NextAttempt(c, g) == Cardinality(Of(c, candidate[c], g)) + 1

\* reservation_key with require_next: the key is the current one, and its gate
\* the next one.
IsCurrent(key) == key.candidate = candidate[key.card] /\ IsNext(key.card, key.gate)

(***************************************************************************)
(* gate reserve.                                                           *)
(***************************************************************************)
IsExpired(n) == n <= expired
IsSettled(n) == settlement[n] # "none"

Matching(key) == {n \in Reserved : KeyOf(n) = key}

\* newest_matching_reservation
IsNewest(n, key) ==
    /\ n \in Matching(key)
    /\ \A m \in Matching(key) : reservations[m].generation <= reservations[n].generation

\* retry_lineage
MayRetry(n) == IsExpired(n) /\ settlement[n] = "abandoned"

Record(key, generation, predecessor) ==
    reservations' = Append(reservations, [key |-> key, generation |-> generation,
                                          predecessor |-> predecessor])

Reserve(c, g, m) ==
    /\ Len(reservations) < MaxReservations
    /\ candidate[c] # NoLease
    /\ LET key == [card |-> c, candidate |-> candidate[c], gate |-> g, mode |-> m]
       IN /\ IsCurrent(key)
          /\ \/ /\ Matching(key) = {}
                /\ Record(key, 1, 0)
             \/ \E n \in Reserved :
                    /\ IsNewest(n, key)
                    /\ MayRetry(n)
                    /\ Record(key, reservations[n].generation + 1, n)
    /\ UNCHANGED <<candidate, expired, settlement, permit, lanes, receipts, run, executions>>

(***************************************************************************)
(* gate run: acquire, the subprocess, settle.                              *)
(***************************************************************************)
\* live_reservation_for_run. The key it computes has no campaign, so a mutation
\* reservation never matches.
IsLive(n) ==
    /\ n \in Reserved
    /\ ~IsSettled(n)
    /\ ~IsExpired(n)
    /\ IsCurrent(KeyOf(n))
    /\ KeyOf(n).mode # "declared-mutations"

\* Faulty: an execution permit left behind does not count.
PermitIgnored(n) == TRUE

\* execution_permit_for
NoPermit(n) == ~permit[n].held

\* acquire_cpu_heavy_lane: the lowest free lane, or a refusal.
TakeLane(n) ==
    \/ /\ KeyOf(n).mode # "cpu-heavy"
       /\ permit' = [permit EXCEPT ![n] = PermitOn(0)]
       /\ UNCHANGED lanes
    \/ /\ KeyOf(n).mode = "cpu-heavy"
       /\ \E l \in Lane :
            /\ lanes[l] = 0
            /\ \A k \in Lane : k < l => lanes[k] # 0
            /\ lanes' = [lanes EXCEPT ![l] = n]
            /\ permit' = [permit EXCEPT ![n] = PermitOn(l)]

Acquire(p, n) ==
    /\ ~Running(p)
    /\ IsLive(n)
    /\ NoPermit(n)
    /\ TakeLane(n)
    /\ run' = [run EXCEPT ![p] =
                    [id |-> n, attempt |-> NextAttempt(KeyOf(n).card, KeyOf(n).gate)]]
    /\ executions' = [executions EXCEPT ![n] = @ + 1]
    /\ UNCHANGED <<candidate, reservations, expired, settlement, receipts>>

\* The process is killed, or its checkout or subprocess cannot be set up.
RunDies(p) ==
    /\ Running(p)
    /\ run' = [run EXCEPT ![p] = Idle]
    /\ UNCHANGED <<candidate, reservations, expired, settlement, permit, lanes, receipts,
                   executions>>

\* Faulty: that the candidate moved meanwhile is not noticed.
PermitStillHolds(n) == permit[n].held /\ ~IsSettled(n)

\* What settle_governed_gate_execution checks again.
StillHolds(n) ==
    /\ permit[n].held
    /\ permit[n].lane # 0 => lanes[permit[n].lane] = n
    /\ ~IsSettled(n)
    /\ IsCurrent(KeyOf(n))

\* The gate ran on a disposable checkout of the reserved commit.
ReceiptFor(r, passed) ==
    [card |-> KeyOf(r.id).card, candidate |-> KeyOf(r.id).candidate,
     gate |-> KeyOf(r.id).gate, attempt |-> r.attempt, passed |-> passed,
     reservation |-> r.id]

\* The subprocess is over: the second transaction.
SettleRun(p, passed) ==
    /\ Running(p)
    /\ LET n == run[p].id
       IN \/ /\ StillHolds(n)
             /\ receipts' = Append(receipts, ReceiptFor(run[p], passed))
             /\ settlement' = [settlement EXCEPT ![n] = "receipt"]
             /\ permit' = [permit EXCEPT ![n] = NullPermit]
             /\ lanes' = [l \in Lane |-> IF l = permit[n].lane THEN 0 ELSE lanes[l]]
          \/ /\ ~StillHolds(n)
             /\ UNCHANGED <<receipts, settlement, permit, lanes>>
    /\ run' = [run EXCEPT ![p] = Idle]
    /\ UNCHANGED <<candidate, reservations, expired, executions>>

(***************************************************************************)
(* gate settle, gate abandon: by hand. Neither looks at the permit.        *)
(***************************************************************************)
\* Faulty: the lane is given back although the run may still be going on.
AndFreeTheLane(n) ==
    /\ lanes' = [l \in Lane |-> IF lanes[l] = n THEN 0 ELSE lanes[l]]
    /\ permit' = [permit EXCEPT ![n] = NullPermit]

LeavingThePermit(n) == UNCHANGED <<lanes, permit>>

\* settlement_outcome: `failed`, `abandoned`, or a receipt that matches the key
\* in everything but how it was run.
SettleByHand(n) ==
    /\ n \in Reserved
    /\ ~IsSettled(n)
    /\ \/ \E outcome \in {"failed", "abandoned"} :
            settlement' = [settlement EXCEPT ![n] = outcome]
       \/ /\ Of(KeyOf(n).card, KeyOf(n).candidate, KeyOf(n).gate) # {}
          /\ settlement' = [settlement EXCEPT ![n] = "receipt"]
    /\ LeavingThePermit(n)
    /\ UNCHANGED <<candidate, reservations, expired, receipts, run, executions>>

Abandon(n) ==
    /\ n \in Reserved
    /\ ~IsSettled(n)
    /\ IsExpired(n)
    /\ settlement' = [settlement EXCEPT ![n] = "abandoned"]
    /\ LeavingThePermit(n)
    /\ UNCHANGED <<candidate, reservations, expired, receipts, run, executions>>

(***************************************************************************)
(* Meanwhile.                                                              *)
(***************************************************************************)
\* Somebody commits, resets, revises the card or moves its lease.
MoveCandidate(c) ==
    /\ \E v \in Candidate \cup {NoLease} :
            v # candidate[c] /\ candidate' = [candidate EXCEPT ![c] = v]
    /\ UNCHANGED <<reservations, expired, settlement, permit, lanes, receipts, run, executions>>

\* An hour after it was made a reservation expires; older ones have before.
Expire ==
    /\ expired < Len(reservations)
    /\ expired' = expired + 1
    /\ UNCHANGED <<candidate, reservations, settlement, permit, lanes, receipts, run,
                   executions>>

Next ==
    \/ \E c \in Card, g \in Gate, m \in Mode : Reserve(c, g, m)
    \/ \E p \in Process :
        \/ \E n \in Id : Acquire(p, n)
        \/ RunDies(p)
        \/ \E passed \in BOOLEAN : SettleRun(p, passed)
    \/ \E n \in Id : SettleByHand(n) \/ Abandon(n)
    \/ \E c \in Card : MoveCandidate(c)
    \/ Expire

Spec == Init /\ [][Next]_vars
----------------------------------------------------------------------------
(***************************************************************************)
(* Properties.                                                             *)
(***************************************************************************)

\* The type invariant.
TypeOK ==
    /\ candidate \in [Card -> Candidate \cup {NoLease}]
    /\ reservations \in Seq(Reservation)
    /\ Len(reservations) \in 0 .. MaxReservations
    /\ expired \in 0 .. Len(reservations)
    /\ settlement \in [Id -> Outcome]
    /\ permit \in [Id -> Permit]
    /\ lanes \in [Lane -> Id \cup {0}]
    /\ receipts \in Seq(Receipt)
    /\ run \in [Process -> [id : Id \cup {0}, attempt : Nat]]
    /\ executions \in [Id -> Nat]

\* One winner: of the reservations of one key at most one is still open, and a
\* later one was only made after its predecessor had expired and been abandoned
\* ("explicit_recovery_required").
OneWinner ==
    \A m, n \in Reserved : m < n /\ KeyOf(m) = KeyOf(n) => settlement[m] = "abandoned"

\* "A crash after this point must not make the reservation reusable"
\* (gate.rs:3258): the gate of a reservation is started once at most, whoever
\* dies, whatever expires and whatever is settled meanwhile.
StartedAtMostOnce == \A n \in Id : executions[n] <= 1

\* A run that comes back after its reservation was settled by hand, or after the
\* candidate moved, leaves no evidence: a receipt is only ever recorded for the
\* candidate as it then stands, together with the settlement of the reservation
\* that bought it, and no settlement is rewritten (gate.rs:3044, "already
\* settled", and 3055, "attaching a receipt to state that no longer matches").
EvidenceSettlesOnce ==
    [][ /\ \A n \in Id : IsSettled(n) => settlement'[n] = settlement[n]
        /\ receipts' # receipts =>
                LET receipt == receipts'[Len(receipts')]
                    n == receipt.reservation
                IN  /\ ~IsSettled(n) /\ settlement'[n] = "receipt"
                    /\ receipt.candidate = candidate[receipt.card] ]_vars

\* The ladder: a gate that has run on a candidate had all earlier gates'
\* acceptable evidence for that same candidate, and still has it.
LadderInOrder ==
    \A k \in DOMAIN receipts : \A h \in 1 .. receipts[k].gate - 1 :
        Acceptable(receipts[k].card, receipts[k].candidate, h)

\* Every CPU-heavy gate that is running holds a lane of its own, so that there
\* are never more of them than lanes.
HeavyRunsHoldLanes ==
    \A p \in Process : Running(p) /\ KeyOf(run[p].id).mode = "cpu-heavy" =>
        /\ \E l \in Lane : lanes[l] = run[p].id
        /\ \A q \in Process : Running(q) /\ run[q].id = run[p].id => p = q

\* "Numbering continues across runs so a retry is visible as a retry rather
\* than as a fresh first attempt" (gate.rs:1274).
RetriesAreNumbered ==
    \A j, k \in DOMAIN receipts :
        /\ receipts[j].card = receipts[k].card
        /\ receipts[j].candidate = receipts[k].candidate
        /\ receipts[j].gate = receipts[k].gate
        /\ receipts[j].attempt = receipts[k].attempt
        => j = k
============================================================================
