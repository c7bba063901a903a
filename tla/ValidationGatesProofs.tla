------------------------ MODULE ValidationGatesProofs ------------------------
(***************************************************************************)
(* A reservation buys one execution, one settlement, and evidence only for *)
(* the state it was made for: for any processes, cards, candidates, lanes  *)
(* and ladders.                                                            *)
(***************************************************************************)
EXTENDS ValidationGates, FiniteSetTheorems, SequenceTheorems, TLAPS

(***************************************************************************)
(* The inductive invariant.                                                *)
(***************************************************************************)

\* A later reservation of a key is a later generation of it.
GenerationsGrow ==
    \A m, n \in Reserved :
        m < n /\ KeyOf(m) = KeyOf(n) => reservations[m].generation < reservations[n].generation

\* What has been started has left its permit, or been settled.
StartLeavesTrace ==
    \A n \in Id :
        /\ executions[n] = 0 \/ executions[n] = 1
        /\ executions[n] = 1 => permit[n].held \/ IsSettled(n)

\* A run is the execution of a reservation, and its only one.
RunIsExecution ==
    \A p \in Process : Running(p) =>
        /\ run[p].id \in Reserved
        /\ run[p].attempt # 0
        /\ executions[run[p].id] = 1
        /\ \A q \in Process : Running(q) /\ run[q].id = run[p].id => p = q

Inv ==
    /\ TypeOK
    /\ OneWinner
    /\ GenerationsGrow
    /\ StartLeavesTrace
    /\ RunIsExecution
    /\ HeavyRunsHoldLanes
    /\ LadderInOrder

(***************************************************************************)
(* Types.                                                                  *)
(***************************************************************************)
LEMMA ReservedIds == TypeOK => Reserved \subseteq Id /\ \A n \in Reserved : reservations[n] \in Reservation
  BY GatesAssumption, ElementOfSeq DEF TypeOK, Reserved, Id

LEMMA PermitTypes == NullPermit \in Permit /\ \A l \in Lane \cup {0} : PermitOn(l) \in Permit
  BY DEF Permit, NullPermit, PermitOn

\* Attempts are numbered from one: next_attempt_number adds one to a count.
LEMMA AttemptType ==
    ASSUME TypeOK, NEW c, NEW g
    PROVE  NextAttempt(c, g) \in Nat \ {0}
<1>1. DOMAIN receipts = 1 .. Len(receipts) /\ Len(receipts) \in Nat
  BY LenProperties DEF TypeOK
<1>2. IsFiniteSet(DOMAIN receipts)
  BY <1>1, FS_Interval
<1>3. Of(c, candidate[c], g) \in SUBSET DOMAIN receipts
  BY DEF Of
<1>4. Cardinality(Of(c, candidate[c], g)) \in Nat
  BY <1>2, <1>3, FS_Subset, FS_CardinalityType
<1> QED
  BY <1>4 DEF NextAttempt

LEMMA ReservationAdded ==
    ASSUME TypeOK, NEW c \in Card, NEW g \in Gate, NEW m \in Mode, Reserve(c, g, m)
    PROVE  \E r \in Reservation :
              /\ reservations' = Append(reservations, r)
              /\ r.key = [card |-> c, candidate |-> candidate[c], gate |-> g, mode |-> m]
              /\ \/ Matching(r.key) = {}
                 \/ \E n \in Reserved :
                        /\ IsNewest(n, r.key)
                        /\ settlement[n] = "abandoned"
                        /\ r.generation = reservations[n].generation + 1
<1> DEFINE key == [card |-> c, candidate |-> candidate[c], gate |-> g, mode |-> m]
<1>1. key \in Key
  BY DEF TypeOK, Reserve, Key
<1>2. CASE Matching(key) = {} /\ Record(key, 1, 0)
  <2> DEFINE r == [key |-> key, generation |-> 1, predecessor |-> 0]
  <2>1. r \in Reservation
    BY <1>1 DEF Reservation
  <2> QED
    BY <1>2, <2>1 DEF Record
<1>3. ASSUME NEW n \in Reserved, IsNewest(n, key), MayRetry(n),
             Record(key, reservations[n].generation + 1, n)
      PROVE  \E r \in Reservation :
                /\ reservations' = Append(reservations, r)
                /\ r.key = key
                /\ settlement[n] = "abandoned"
                /\ r.generation = reservations[n].generation + 1
  <2> DEFINE r == [key |-> key, generation |-> reservations[n].generation + 1,
                   predecessor |-> n]
  <2>1. n \in Id /\ reservations[n] \in Reservation
    BY ReservedIds
  <2>2. reservations[n].generation \in Nat
    BY <2>1 DEF Reservation
  <2>3. r \in Reservation
    BY <1>1, <2>1, <2>2 DEF Reservation
  <2> QED
    BY <1>3, <2>3 DEF Record, MayRetry
<1>4. \/ Matching(key) = {} /\ Record(key, 1, 0)
      \/ \E n \in Reserved : /\ IsNewest(n, key)
                             /\ MayRetry(n)
                             /\ Record(key, reservations[n].generation + 1, n)
  BY DEF Reserve
<1> HIDE DEF key
<1>5. CASE Matching(key) = {} /\ Record(key, 1, 0)
  BY <1>2, <1>5 DEF key
<1>6. CASE \E n \in Reserved : /\ IsNewest(n, key)
                               /\ MayRetry(n)
                               /\ Record(key, reservations[n].generation + 1, n)
  <2>1. PICK n \in Reserved : /\ IsNewest(n, key)
                              /\ MayRetry(n)
                              /\ Record(key, reservations[n].generation + 1, n)
    BY <1>6
  <2>2. PICK r \in Reservation :
                /\ reservations' = Append(reservations, r)
                /\ r.key = key
                /\ settlement[n] = "abandoned"
                /\ r.generation = reservations[n].generation + 1
    BY <2>1, <1>3
  <2> QED
    BY <2>1, <2>2 DEF key
<1> QED
  BY <1>4, <1>5, <1>6

\* Reserve adds one reservation at the end; the others stay what they are.
LEMMA Appended ==
    ASSUME TypeOK, NEW r \in Reservation, reservations' = Append(reservations, r)
    PROVE  /\ Len(reservations) \in Nat
           /\ reservations' \in Seq(Reservation)
           /\ Len(reservations') = Len(reservations) + 1
           /\ Reserved' = Reserved \cup {Len(reservations) + 1}
           /\ Len(reservations) + 1 \notin Reserved
           /\ \A n \in Reserved : reservations'[n] = reservations[n]
           /\ reservations'[Len(reservations) + 1] = r
<1>1. reservations \in Seq(Reservation)
  BY DEF TypeOK
<1>2. Len(reservations) \in Nat
  BY <1>1, LenProperties
<1>3. /\ reservations' \in Seq(Reservation)
      /\ Len(reservations') = Len(reservations) + 1
      /\ \A n \in 1 .. Len(reservations) : reservations'[n] = reservations[n]
      /\ reservations'[Len(reservations) + 1] = r
  BY <1>1, AppendProperties
<1> QED
  BY <1>2, <1>3 DEF Reserved

LEMMA InitInv == Init => Inv
<1> SUFFICES ASSUME Init PROVE Inv
  OBVIOUS
<1> USE GatesAssumption DEF Init
<1>1. Reserved = {} /\ DOMAIN receipts = {} /\ \A p \in Process : ~Running(p)
  <2>1. Len(reservations) = 0 /\ DOMAIN receipts = {}
    BY EmptySeq, LenProperties
  <2> QED
    BY <2>1 DEF Reserved, Running
<1>2. TypeOK
  <2>1. reservations \in Seq(Reservation) /\ Len(reservations) = 0 /\ receipts \in Seq(Receipt)
    BY EmptySeq
  <2> QED
    BY <2>1, PermitTypes DEF TypeOK, Outcome, Idle
<1>3. OneWinner /\ GenerationsGrow /\ RunIsExecution /\ HeavyRunsHoldLanes /\ LadderInOrder
  BY <1>1 DEF OneWinner, GenerationsGrow, RunIsExecution, HeavyRunsHoldLanes, LadderInOrder
<1>4. StartLeavesTrace
  BY DEF StartLeavesTrace
<1> QED
  BY <1>2, <1>3, <1>4 DEF Inv

LEMMA TypeStep == Inv /\ [Next]_vars => TypeOK'
<1> SUFFICES ASSUME Inv, [Next]_vars PROVE TypeOK'
  OBVIOUS
<1> TypeOK
  BY DEF Inv
<1> USE GatesAssumption
<1>0. CASE UNCHANGED vars
  BY <1>0 DEF vars, TypeOK
<1>1. ASSUME NEW c \in Card, NEW g \in Gate, NEW m \in Mode, Reserve(c, g, m)
      PROVE  TypeOK'
  <2>1. PICK r \in Reservation : reservations' = Append(reservations, r)
    BY <1>1, ReservationAdded
  <2>2. reservations' \in Seq(Reservation) /\ Len(reservations') = Len(reservations) + 1
    BY <2>1, Appended
  <2>3. Len(reservations) < MaxReservations
    BY <1>1 DEF Reserve
  <2>4. expired \in 0 .. Len(reservations')
    BY <2>2, LenProperties DEF TypeOK
  <2>5. Len(reservations') \in 0 .. MaxReservations
    BY <2>2, <2>3, LenProperties DEF TypeOK
  <2> QED
    BY <1>1, <2>2, <2>4, <2>5 DEF Reserve, TypeOK
<1>2. ASSUME NEW p \in Process, NEW n \in Id, Acquire(p, n)
      PROVE  TypeOK'
  <2>1. run' \in [Process -> [id : Id \cup {0}, attempt : Nat]]
    <3>1. NextAttempt(KeyOf(n).card, KeyOf(n).gate) \in Nat
      BY AttemptType
    <3> QED
      BY <1>2, <3>1 DEF Acquire, TypeOK
  <2>2. permit' \in [Id -> Permit]
    <3>1. \E l \in Lane \cup {0} : permit' = [permit EXCEPT ![n] = PermitOn(l)]
      BY <1>2 DEF Acquire, TakeLane
    <3> QED
      BY <3>1, PermitTypes DEF TypeOK
  <2>3. lanes' \in [Lane -> Id \cup {0}]
    BY <1>2 DEF Acquire, TakeLane, TypeOK
  <2>4. executions' \in [Id -> Nat]
    BY <1>2 DEF Acquire, TypeOK
  <2> QED
    BY <1>2, <2>1, <2>2, <2>3, <2>4 DEF Acquire, TypeOK
<1>3. ASSUME NEW p \in Process, RunDies(p)
      PROVE  TypeOK'
  BY <1>3 DEF RunDies, Idle, TypeOK
<1>4. ASSUME NEW p \in Process, NEW passed \in BOOLEAN, SettleRun(p, passed)
      PROVE  TypeOK'
  <2> DEFINE n == run[p].id
  <2>1. n \in Id /\ reservations[n] \in Reservation /\ run[p].attempt \in Nat \ {0}
    BY <1>4, ReservedIds DEF SettleRun, Inv, RunIsExecution, TypeOK
  <2>2. ReceiptFor(run[p], passed) \in Receipt
    BY <2>1 DEF ReceiptFor, Receipt, KeyOf, Reservation, Key
  <2>3. Append(receipts, ReceiptFor(run[p], passed)) \in Seq(Receipt)
    BY <2>2, AppendProperties DEF TypeOK
  <2>4. receipts' \in Seq(Receipt)
    BY <1>4, <2>3 DEF SettleRun, TypeOK
  <2>5. settlement' \in [Id -> Outcome]
    BY <1>4, <2>1 DEF SettleRun, Outcome, TypeOK
  <2>6. permit' \in [Id -> Permit]
    BY <1>4, <2>1, PermitTypes DEF SettleRun, TypeOK
  <2>7. lanes' \in [Lane -> Id \cup {0}]
    BY <1>4, <2>1 DEF SettleRun, TypeOK
  <2> QED
    BY <1>4, <2>4, <2>5, <2>6, <2>7 DEF SettleRun, Idle, TypeOK
<1>5. ASSUME NEW n \in Id, SettleByHand(n)
      PROVE  TypeOK'
  BY <1>5 DEF SettleByHand, LeavingThePermit, Outcome, TypeOK
<1>6. ASSUME NEW n \in Id, Abandon(n)
      PROVE  TypeOK'
  BY <1>6 DEF Abandon, LeavingThePermit, Outcome, TypeOK
<1>7. ASSUME NEW c \in Card, MoveCandidate(c)
      PROVE  TypeOK'
  BY <1>7 DEF MoveCandidate, TypeOK
<1>8. ASSUME Expire
      PROVE  TypeOK'
  BY <1>8, LenProperties DEF Expire, TypeOK
<1> QED
  BY <1>0, <1>1, <1>2, <1>3, <1>4, <1>5, <1>6, <1>7, <1>8 DEF Next

(***************************************************************************)
(* gate reserve: one winner.                                               *)
(***************************************************************************)
LEMMA WinnerStep == Inv /\ [Next]_vars => OneWinner' /\ GenerationsGrow'
<1> SUFFICES ASSUME Inv, [Next]_vars PROVE OneWinner' /\ GenerationsGrow'
  OBVIOUS
<1> TypeOK
  BY DEF Inv
<1> USE GatesAssumption
<1>1. CASE /\ UNCHANGED reservations
           /\ \A n \in Id : IsSettled(n) => settlement'[n] = settlement[n]
  <2>1. Reserved' = Reserved /\ \A n \in Reserved : KeyOf(n)' = KeyOf(n)
    BY <1>1 DEF Reserved, KeyOf
  <2>2. \A n \in Reserved : settlement[n] = "abandoned" => settlement'[n] = "abandoned"
    BY <1>1, ReservedIds DEF IsSettled
  <2> QED
    BY <1>1, <2>1, <2>2 DEF Inv, OneWinner, GenerationsGrow
<1>2. ASSUME NEW c \in Card, NEW g \in Gate, NEW m \in Mode, Reserve(c, g, m)
      PROVE  OneWinner' /\ GenerationsGrow'
  <2> DEFINE new == Len(reservations) + 1
  <2>1. PICK r \in Reservation :
              /\ reservations' = Append(reservations, r)
              /\ \/ Matching(r.key) = {}
                 \/ \E n \in Reserved :
                        /\ IsNewest(n, r.key)
                        /\ settlement[n] = "abandoned"
                        /\ r.generation = reservations[n].generation + 1
    BY <1>2, ReservationAdded
  <2>2. /\ Reserved' = Reserved \cup {new}
        /\ new \notin Reserved
        /\ \A n \in Reserved : reservations'[n] = reservations[n] /\ n < new
        /\ reservations'[new] = r
        /\ UNCHANGED settlement
    BY <1>2, <2>1, Appended DEF Reserve, Reserved
  <2>3. ASSUME NEW k \in Reserved, KeyOf(k) = r.key
        PROVE  settlement[k] = "abandoned" /\ reservations[k].generation < r.generation
    <3>1. k \in Matching(r.key)
      BY <2>3 DEF Matching
    <3>2. PICK n \in Reserved : /\ IsNewest(n, r.key)
                                /\ settlement[n] = "abandoned"
                                /\ r.generation = reservations[n].generation + 1
      BY <2>1, <3>1
    <3>3. reservations[k].generation \in Nat /\ reservations[n].generation \in Nat
      BY ReservedIds DEF Reservation
    <3>4. KeyOf(n) = r.key /\ reservations[k].generation <= reservations[n].generation
      BY <3>1, <3>2 DEF IsNewest, Matching
    <3>5. k = n \/ k < n \/ n < k
      BY DEF Reserved
    <3>6. ~(n < k)
      BY <2>3, <3>3, <3>4 DEF Inv, GenerationsGrow
    <3>7. k < n => settlement[k] = "abandoned"
      BY <2>3, <3>4 DEF Inv, OneWinner
    <3> QED
      BY <3>2, <3>3, <3>4, <3>5, <3>6, <3>7
  <2> HIDE DEF new
  <2>4. ASSUME NEW j \in Reserved', NEW k \in Reserved', j < k, KeyOf(j)' = KeyOf(k)'
        PROVE  settlement'[j] = "abandoned" /\ reservations'[j].generation < reservations'[k].generation
    <3>1. CASE j \in Reserved /\ k \in Reserved
      BY <2>2, <2>4, <3>1 DEF Inv, OneWinner, GenerationsGrow, KeyOf
    <3>2. CASE j \in Reserved /\ k = new
      <4>1. KeyOf(j) = r.key
        BY <2>2, <2>4, <3>2 DEF KeyOf
      <4> QED
        BY <2>2, <2>3, <3>2, <4>1
    <3>3. ~(j = new /\ k = new)
      BY <2>4 DEF Reserved
    <3>4. ~(j = new /\ k \in Reserved)
      <4>1. k \in Reserved => k < new /\ k \in Nat /\ new \in Nat
        BY <2>2 DEF Reserved, new, TypeOK
      <4> QED
        BY <2>4, <4>1
    <3> QED
      BY <2>2, <3>1, <3>2, <3>3, <3>4
  <2> QED
    BY <2>4 DEF OneWinner, GenerationsGrow
<1>3. ASSUME NEW p \in Process, NEW passed \in BOOLEAN, SettleRun(p, passed)
      PROVE  /\ UNCHANGED reservations
             /\ \A n \in Id : IsSettled(n) => settlement'[n] = settlement[n]
  BY <1>3 DEF SettleRun, StillHolds, TypeOK
<1>4. ASSUME NEW n \in Id, SettleByHand(n) \/ Abandon(n)
      PROVE  /\ UNCHANGED reservations
             /\ \A k \in Id : IsSettled(k) => settlement'[k] = settlement[k]
  BY <1>4 DEF SettleByHand, Abandon, TypeOK
<1> QED
  BY <1>1, <1>2, <1>3, <1>4 DEF Next, vars, Acquire, RunDies, MoveCandidate, Expire

(***************************************************************************)
(* gate run: one execution, with a lane of its own when it is CPU-heavy.   *)
(***************************************************************************)
LEMMA ExecutionStep ==
    Inv /\ [Next]_vars => StartLeavesTrace' /\ RunIsExecution' /\ HeavyRunsHoldLanes'
<1> SUFFICES ASSUME Inv, [Next]_vars
             PROVE  StartLeavesTrace' /\ RunIsExecution' /\ HeavyRunsHoldLanes'
  OBVIOUS
<1> TypeOK /\ StartLeavesTrace /\ RunIsExecution /\ HeavyRunsHoldLanes
  BY DEF Inv
<1> USE GatesAssumption
\* Reservations are only added, and settlements stay.
<1>1. /\ Reserved \subseteq Reserved'
      /\ \A n \in Reserved : KeyOf(n)' = KeyOf(n)
      /\ \A n \in Id : IsSettled(n) => IsSettled(n)'
  <2>1. CASE UNCHANGED reservations
    <3>1. Reserved' = Reserved /\ \A n \in Reserved : KeyOf(n)' = KeyOf(n)
      BY <2>1 DEF Reserved, KeyOf
    <3>2. \A n \in Id : IsSettled(n) => IsSettled(n)'
      <4>1. ASSUME NEW p \in Process, NEW passed \in BOOLEAN, SettleRun(p, passed)
            PROVE  \A n \in Id : IsSettled(n) => IsSettled(n)'
        BY <4>1 DEF SettleRun, IsSettled, TypeOK
      <4>2. ASSUME NEW k \in Id, SettleByHand(k) \/ Abandon(k)
            PROVE  \A n \in Id : IsSettled(n) => IsSettled(n)'
        BY <4>2 DEF SettleByHand, Abandon, IsSettled, TypeOK
      <4>3. UNCHANGED settlement => \A n \in Id : IsSettled(n) => IsSettled(n)'
        BY DEF IsSettled
      <4> QED
        BY <4>1, <4>2, <4>3 DEF Next, vars, Reserve, Acquire, RunDies, MoveCandidate, Expire
    <3> QED
      BY <3>1, <3>2
  <2>2. ASSUME NEW c \in Card, NEW g \in Gate, NEW m \in Mode, Reserve(c, g, m)
        PROVE  /\ Reserved \subseteq Reserved'
               /\ \A n \in Reserved : KeyOf(n)' = KeyOf(n)
               /\ \A n \in Id : IsSettled(n) => IsSettled(n)'
    <3>1. PICK r \in Reservation : reservations' = Append(reservations, r)
      BY <2>2, ReservationAdded
    <3> QED
      BY <2>2, <3>1, Appended DEF Reserve, KeyOf, IsSettled
  <2> QED
    BY <2>1, <2>2 DEF Next, vars, Acquire, RunDies, SettleRun, SettleByHand, Abandon,
       MoveCandidate, Expire
<1>2. CASE UNCHANGED <<permit, lanes, run, executions>>
  <2>1. \A p \in Process : Running(p)' = Running(p)
    BY <1>2 DEF Running
  <2>2. StartLeavesTrace'
    BY <1>1, <1>2 DEF StartLeavesTrace
  <2>3. RunIsExecution'
    BY <1>1, <1>2, <2>1 DEF RunIsExecution
  <2>4. HeavyRunsHoldLanes'
    BY <1>1, <1>2, <2>1 DEF HeavyRunsHoldLanes, RunIsExecution
  <2> QED
    BY <2>2, <2>3, <2>4
<1>3. ASSUME NEW p \in Process, NEW n \in Id, Acquire(p, n)
      PROVE  StartLeavesTrace' /\ RunIsExecution' /\ HeavyRunsHoldLanes'
  <2>1. n \in Reserved /\ ~permit[n].held /\ ~IsSettled(n) /\ UNCHANGED <<settlement, reservations>>
    BY <1>3 DEF Acquire, IsLive, NoPermit
  <2>2. executions[n] = 0
    BY <2>1 DEF StartLeavesTrace
  <2>3. executions' = [executions EXCEPT ![n] = 1]
    BY <1>3, <2>2 DEF Acquire, TypeOK
  <2>4. permit'[n].held /\ \A k \in Id : k # n => permit'[k] = permit[k]
    BY <1>3 DEF Acquire, TakeLane, PermitOn, TypeOK
  <2>5. StartLeavesTrace'
    BY <2>1, <2>3, <2>4 DEF StartLeavesTrace, IsSettled, TypeOK
  <2>6. \A q \in Process : Running(q) => run[q].id # n
    BY <2>2 DEF RunIsExecution
  <2>7. /\ run'[p].id = n
        /\ run'[p].attempt # 0
        /\ \A q \in Process : q # p => run'[q] = run[q]
    BY <1>3, AttemptType DEF Acquire, TypeOK
  <2>8. \A q \in Process : q # p => (Running(q)' <=> Running(q))
    BY <2>7 DEF Running
  <2>9. RunIsExecution'
    <3> SUFFICES ASSUME NEW q \in Process, Running(q)'
                 PROVE  /\ run'[q].id \in Reserved'
                        /\ run'[q].attempt # 0
                        /\ executions'[run'[q].id] = 1
                        /\ \A o \in Process :
                              Running(o)' /\ run'[o].id = run'[q].id => q = o
      BY DEF RunIsExecution
    <3>1. CASE q = p
      BY <1>1, <2>1, <2>3, <2>6, <2>7, <2>8, <3>1 DEF TypeOK
    <3>2. CASE q # p
      <4>1. Running(q) /\ run'[q] = run[q] /\ run[q].id # n /\ run[q].id \in Id
        BY <2>6, <2>7, <2>8, <3>2, ReservedIds DEF RunIsExecution
      <4>2. executions'[run[q].id] = 1
        BY <2>3, <4>1 DEF RunIsExecution, TypeOK
      <4>3. ASSUME NEW o \in Process, Running(o)', run'[o].id = run'[q].id
            PROVE  q = o
        BY <2>7, <2>8, <4>1, <4>3 DEF RunIsExecution
      <4> QED
        BY <1>1, <4>1, <4>2, <4>3 DEF RunIsExecution
    <3> QED
      BY <3>1, <3>2
  <2>10. ASSUME NEW q \in Process, Running(q)', KeyOf(run[q].id)'.mode = "cpu-heavy"
         PROVE  \E l \in Lane : lanes'[l] = run'[q].id
    <3>1. CASE q = p
      <4>1. KeyOf(n).mode = "cpu-heavy"
        BY <1>1, <2>1, <2>7, <2>10, <3>1 DEF KeyOf
      <4> QED
        BY <1>3, <2>7, <3>1, <4>1 DEF Acquire, TakeLane, TypeOK
    <3>2. CASE q # p
      <4>1. Running(q) /\ run'[q] = run[q]
        BY <2>7, <2>8, <2>10, <3>2
      <4>2. run[q].id \in Reserved /\ run[q].id \in Id
        BY <4>1, ReservedIds DEF RunIsExecution
      <4>3. KeyOf(run[q].id).mode = "cpu-heavy"
        BY <1>1, <2>10, <4>1, <4>2 DEF KeyOf
      <4>4. PICK l \in Lane : lanes[l] = run[q].id
        BY <4>1, <4>3 DEF HeavyRunsHoldLanes
      <4>5. lanes[l] # 0
        BY <4>2, <4>4 DEF Id
      <4>6. lanes'[l] = lanes[l]
        BY <1>3, <4>5 DEF Acquire, TakeLane, TypeOK
      <4> QED
        BY <4>1, <4>4, <4>6
    <3> QED
      BY <3>1, <3>2
  <2>11. HeavyRunsHoldLanes'
    BY <2>9, <2>10 DEF HeavyRunsHoldLanes, RunIsExecution
  <2> QED
    BY <2>5, <2>9, <2>11
\* A run that ends, with or without a result.
<1>4. ASSUME NEW p \in Process, Running(p), run' = [run EXCEPT ![p] = Idle],
             UNCHANGED executions
      PROVE  /\ \A q \in Process : Running(q)' => q # p /\ Running(q) /\ run'[q] = run[q]
             /\ RunIsExecution'
  <2>1. \A q \in Process : Running(q)' => q # p /\ Running(q) /\ run'[q] = run[q]
    BY <1>4 DEF Running, TypeOK
  <2> QED
    BY <1>1, <1>4, <2>1 DEF RunIsExecution
<1>5. ASSUME NEW p \in Process, RunDies(p)
      PROVE  StartLeavesTrace' /\ RunIsExecution' /\ HeavyRunsHoldLanes'
  <2>1. UNCHANGED <<permit, lanes, executions, settlement>>
    BY <1>5 DEF RunDies
  <2>2. /\ \A q \in Process : Running(q)' => q # p /\ Running(q) /\ run'[q] = run[q]
        /\ RunIsExecution'
    BY <1>4, <1>5 DEF RunDies
  <2>3. StartLeavesTrace'
    BY <2>1 DEF StartLeavesTrace, IsSettled
  <2>4. HeavyRunsHoldLanes'
    BY <1>1, <2>1, <2>2 DEF HeavyRunsHoldLanes, RunIsExecution
  <2> QED
    BY <2>2, <2>3, <2>4
<1>6. ASSUME NEW p \in Process, NEW passed \in BOOLEAN, SettleRun(p, passed)
      PROVE  StartLeavesTrace' /\ RunIsExecution' /\ HeavyRunsHoldLanes'
  <2> DEFINE n == run[p].id
  <2>1. UNCHANGED executions /\ n \in Id
    BY <1>6, ReservedIds DEF SettleRun, RunIsExecution
  <2>2. /\ \A q \in Process : Running(q)' => q # p /\ Running(q) /\ run'[q] = run[q]
        /\ RunIsExecution'
    BY <1>4, <1>6 DEF SettleRun
  <2>3. \/ /\ StillHolds(n)
           /\ settlement' = [settlement EXCEPT ![n] = "receipt"]
           /\ permit' = [permit EXCEPT ![n] = NullPermit]
           /\ lanes' = [l \in Lane |-> IF l = permit[n].lane THEN 0 ELSE lanes[l]]
        \/ UNCHANGED <<settlement, permit, lanes>>
    BY <1>6 DEF SettleRun
  <2>4. StartLeavesTrace'
    BY <1>1, <2>1, <2>3 DEF StartLeavesTrace, IsSettled, TypeOK
  <2>5. ASSUME NEW q \in Process, Running(q)', KeyOf(run[q].id)'.mode = "cpu-heavy"
        PROVE  \E l \in Lane : lanes'[l] = run'[q].id
    <3>1. q # p /\ Running(q) /\ run'[q] = run[q]
      BY <2>2, <2>5
    <3>2. run[q].id \in Reserved /\ run[q].id # n
      BY <1>6, <3>1 DEF RunIsExecution, SettleRun
    <3>3. KeyOf(run[q].id).mode = "cpu-heavy"
      BY <1>1, <2>5, <3>1, <3>2 DEF KeyOf
    <3>4. PICK l \in Lane : lanes[l] = run[q].id
      BY <3>1, <3>3 DEF HeavyRunsHoldLanes
    <3>5. StillHolds(n) => l # permit[n].lane
      BY <3>2, <3>4 DEF StillHolds
    <3>6. lanes'[l] = lanes[l]
      BY <2>3, <3>5
    <3> QED
      BY <3>1, <3>4, <3>6
  <2>6. HeavyRunsHoldLanes'
    BY <2>2, <2>5 DEF HeavyRunsHoldLanes, RunIsExecution
  <2> QED
    BY <2>2, <2>4, <2>6
<1> QED
  BY <1>2, <1>3, <1>5, <1>6 DEF Next, vars, Reserve, SettleByHand, Abandon, LeavingThePermit,
     MoveCandidate, Expire

(***************************************************************************)
(* The ladder: acceptable evidence stays acceptable.                       *)
(***************************************************************************)
LEMMA EvidenceStays ==
    ASSUME TypeOK, NEW r \in Receipt, receipts' = Append(receipts, r),
           NEW c, NEW v, NEW g, Acceptable(c, v, g)
    PROVE  Acceptable(c, v, g)'
<1>1. /\ Len(receipts) \in Nat
      /\ DOMAIN receipts = 1 .. Len(receipts)
      /\ DOMAIN receipts' = 1 .. Len(receipts) + 1
      /\ \A k \in DOMAIN receipts : receipts'[k] = receipts[k]
  <2>1. receipts \in Seq(Receipt) /\ receipts' \in Seq(Receipt)
    BY AppendProperties DEF TypeOK
  <2> QED
    BY <2>1, LenProperties, AppendProperties
<1>2. PICK n \in Passing(c, v, g) : /\ \A m \in Passing(c, v, g) : n <= m
                                    /\ receipts[n].attempt <= MaxAttempts
  BY DEF Acceptable
<1>3. n \in DOMAIN receipts /\ n \in Passing(c, v, g)'
  BY <1>1, <1>2 DEF Passing, Of
<1>4. ASSUME NEW m \in Passing(c, v, g)'
      PROVE  n <= m
  <2>1. CASE m \in DOMAIN receipts
    <3>1. m \in Passing(c, v, g)
      BY <1>1, <1>4, <2>1 DEF Passing, Of
    <3> QED
      BY <1>2, <3>1
  <2>2. CASE m \notin DOMAIN receipts
    <3>1. m = Len(receipts) + 1
      BY <1>1, <1>4, <2>2 DEF Passing, Of
    <3> QED
      BY <1>1, <1>3, <3>1
  <2> QED
    BY <2>1, <2>2
<1> QED
  BY <1>1, <1>2, <1>3, <1>4 DEF Acceptable

LEMMA LadderStep == Inv /\ [Next]_vars => LadderInOrder'
<1> SUFFICES ASSUME Inv, [Next]_vars PROVE LadderInOrder'
  OBVIOUS
<1> TypeOK /\ RunIsExecution /\ LadderInOrder
  BY DEF Inv
<1> USE GatesAssumption
<1>1. CASE UNCHANGED receipts
  BY <1>1 DEF LadderInOrder, Acceptable, Passing, Of
<1>2. ASSUME NEW p \in Process, NEW passed \in BOOLEAN, SettleRun(p, passed),
             receipts' # receipts
      PROVE  LadderInOrder'
  <2> DEFINE n == run[p].id
             r == ReceiptFor(run[p], passed)
  <2>1. /\ StillHolds(n)
        /\ receipts' = Append(receipts, r)
    BY <1>2 DEF SettleRun
  <2>2. n \in Reserved /\ reservations[n] \in Reservation /\ run[p].attempt \in Nat \ {0} /\ n \in Id
    BY <1>2, ReservedIds DEF SettleRun, RunIsExecution, TypeOK
  <2>3. r \in Receipt
    BY <2>2 DEF ReceiptFor, Receipt, KeyOf, Reservation, Key
  <2>4. \A h \in 1 .. r.gate - 1 : Acceptable(r.card, r.candidate, h)
    BY <2>1 DEF StillHolds, IsCurrent, IsNext, ReceiptFor
  <2> HIDE DEF r
  <2>5. /\ DOMAIN receipts' = DOMAIN receipts \cup {Len(receipts) + 1}
        /\ \A k \in DOMAIN receipts : receipts'[k] = receipts[k]
        /\ receipts'[Len(receipts) + 1] = r
    <3>1. receipts \in Seq(Receipt) /\ receipts' \in Seq(Receipt)
      BY <2>1, <2>3, AppendProperties DEF TypeOK
    <3>2. /\ Len(receipts) \in Nat
          /\ DOMAIN receipts = 1 .. Len(receipts)
          /\ DOMAIN receipts' = 1 .. Len(receipts')
          /\ Len(receipts') = Len(receipts) + 1
      BY <2>1, <2>3, <3>1, LenProperties, AppendProperties
    <3> QED
      BY <2>1, <2>3, <3>1, <3>2, AppendProperties
  <2>6. ASSUME NEW k \in DOMAIN receipts', NEW c, NEW v, NEW h \in 1 .. receipts'[k].gate - 1,
               c = receipts'[k].card, v = receipts'[k].candidate
        PROVE  Acceptable(c, v, h)'
    <3>1. Acceptable(c, v, h)
      BY <2>4, <2>5, <2>6 DEF LadderInOrder
    <3> QED
      BY <2>1, <2>3, <3>1, EvidenceStays
  <2> QED
    BY <2>6 DEF LadderInOrder, Acceptable, Passing, Of
<1> QED
  BY <1>1, <1>2 DEF Next, vars, Reserve, Acquire, RunDies, SettleRun, SettleByHand, Abandon,
     MoveCandidate, Expire

(***************************************************************************)
(* The theorems.                                                           *)
(***************************************************************************)
LEMMA Invariance == Spec => []Inv
<1>1. Inv /\ [Next]_vars => Inv'
  BY TypeStep, WinnerStep, ExecutionStep, LadderStep DEF Inv
<1> QED
  BY InitInv, <1>1, PTL DEF Spec

\* Every record the gate commands write is well formed.
THEOREM TypeCorrect == Spec => []TypeOK
<1>1. Inv => TypeOK
  BY DEF Inv
<1> QED
  BY <1>1, Invariance, PTL

\* Of the reservations of one key only the last can still be open: `gate reserve`
\* replaces one only after it expired and was abandoned.
THEOREM SingleWinner == Spec => []OneWinner
<1>1. Inv => OneWinner
  BY DEF Inv
<1> QED
  BY <1>1, Invariance, PTL

\* Whoever dies, whatever expires and is settled by hand, no reservation is
\* executed twice: its permit, or its settlement, stays.
THEOREM SingleExecution == Spec => []StartedAtMostOnce
<1>1. Inv => StartedAtMostOnce
  BY DEF Inv, StartLeavesTrace, StartedAtMostOnce
<1> QED
  BY <1>1, Invariance, PTL

\* The CPU-heavy lanes bound the CPU-heavy runs.
THEOREM LaneForEachRun == Spec => []HeavyRunsHoldLanes
<1>1. Inv => HeavyRunsHoldLanes
  BY DEF Inv
<1> QED
  BY <1>1, Invariance, PTL

\* No evidence for a gate without the earlier gates' evidence for that very
\* candidate, however the candidate moved while the gates ran.
THEOREM LadderIsClimbed == Spec => []LadderInOrder
<1>1. Inv => LadderInOrder
  BY DEF Inv
<1> QED
  BY <1>1, Invariance, PTL

\* A receipt is of the candidate as it stands and comes with the settlement of an
\* open reservation, and a settlement is never rewritten.
THEOREM EvidenceIsSettled == Spec => EvidenceSettlesOnce
<1> DEFINE Step == /\ \A n \in Id : IsSettled(n) => settlement'[n] = settlement[n]
                   /\ receipts' # receipts =>
                        LET receipt == receipts'[Len(receipts')]
                            n == receipt.reservation
                        IN  /\ ~IsSettled(n) /\ settlement'[n] = "receipt"
                            /\ receipt.candidate = candidate[receipt.card]
<1>1. Inv /\ [Next]_vars => [Step]_vars
  <2> SUFFICES ASSUME Inv, Next PROVE Step
    BY DEF vars
  <2> TypeOK /\ RunIsExecution
    BY DEF Inv
  <2>1. ASSUME NEW p \in Process, NEW passed \in BOOLEAN, SettleRun(p, passed)
        PROVE  Step
    <3> DEFINE n == run[p].id
               r == ReceiptFor(run[p], passed)
    <3>1. n \in Reserved /\ n \in Id /\ reservations[n] \in Reservation /\ run[p].attempt \in Nat \ {0}
      BY <2>1, ReservedIds DEF SettleRun, RunIsExecution, TypeOK
    <3>2. r \in Receipt /\ r.reservation = n
      BY <3>1 DEF ReceiptFor, Receipt, KeyOf, Reservation, Key
    <3>3. CASE UNCHANGED <<receipts, settlement>>
      BY <3>3
    <3>4. CASE StillHolds(n) /\ receipts' = Append(receipts, r)
                             /\ settlement' = [settlement EXCEPT ![n] = "receipt"]
      <4> HIDE DEF r
      <4>1. receipts'[Len(receipts')] = r
        BY <3>2, <3>4, AppendProperties DEF TypeOK
      <4>2. ~IsSettled(n) /\ settlement'[n] = "receipt"
        BY <3>1, <3>4 DEF StillHolds, TypeOK
      <4>3. \A k \in Id : IsSettled(k) => settlement'[k] = settlement[k]
        BY <3>4, <4>2 DEF TypeOK
      <4>4. r.candidate = candidate[r.card]
        BY <3>4 DEF StillHolds, IsCurrent, ReceiptFor, r
      <4> QED
        BY <3>2, <4>1, <4>2, <4>3, <4>4
    <3> QED
      BY <2>1, <3>3, <3>4 DEF SettleRun
  <2>2. ASSUME NEW n \in Id, SettleByHand(n) \/ Abandon(n)
        PROVE  Step
    BY <2>2 DEF SettleByHand, Abandon, TypeOK
  <2>3. CASE UNCHANGED <<receipts, settlement>>
    BY <2>3
  <2> QED
    BY <2>1, <2>2, <2>3 DEF Next, Reserve, Acquire, RunDies, MoveCandidate, Expire
<1> QED
  BY <1>1, Invariance, PTL DEF EvidenceSettlesOnce, Spec
=============================================================================
