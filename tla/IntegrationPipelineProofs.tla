--------------------- MODULE IntegrationPipelineProofs ---------------------
(***************************************************************************)
(* What lands is what was approved, in order and once, and is never lost:  *)
(* for any cards, cycles, dependencies, actors and bounds.                 *)
(*                                                                         *)
(* First the dependency order: a selection is refused only for a cycle,    *)
(* and is otherwise listed whole with dependencies first. Then the steps:  *)
(* every action is shown to be of one of twelve kinds, each a handful of   *)
(* facts about single cards and records (the ...Effect lemmas, EveryStep), *)
(* so that the invariants never look into an action. They are:             *)
(*   Typed      the types                                                  *)
(*   Following  each card is as far as the integration that holds it       *)
(*   AllBased   a selection's dependencies are in it or in what it was     *)
(*              prepared against, which is what the branch holds           *)
(*   Kepts      final landings, archives, and what breaks off              *)
(*   Wholes     groups and joint cards are never divided                   *)
(* Only the last asks anything of the operator: that nobody declares a     *)
(* group one of whose cards is already in an integration.                  *)
(***************************************************************************)
EXTENDS IntegrationPipeline, WellFoundedInduction, FiniteSetTheorems, SequenceTheorems,
        TLAPS

(***************************************************************************)
(* The dependency order.                                                   *)
(***************************************************************************)


\* Induction, as the provers can use it: of a set of numbers, not a predicate.
LEMMA Least ==
    ASSUME NEW T \in SUBSET Nat, T # {}
    PROVE  \E n \in T : \A m \in T : n <= m
<1> DEFINE LessThan == {pair \in Nat \X Nat : pair[1] < pair[2]}
<1>1. IsWellFoundedOn(LessThan, Nat)
  <2>1. LessThan = OpToRel(<, Nat)
    BY DEF OpToRel
  <2> QED
    BY <2>1, NatLessThanWellFounded
<1>2. PICK n \in T : \A m \in T : <<m, n>> \notin LessThan
  BY <1>1, WFMin
<1>3. ASSUME NEW m \in T
      PROVE  n <= m
  <2>1. m \in Nat /\ n \in Nat
    OBVIOUS
  <2>2. ~ (m < n)
    BY <1>2, <2>1
  <2> QED
    BY <2>1, <2>2
<1> QED
  BY <1>3

\* Numbers are reached from zero, one at a time.
LEMMA Induction ==
    ASSUME NEW S, 0 \in S, \A n \in Nat : n \in S => n + 1 \in S
    PROVE  Nat \subseteq S
<1>1. SUFFICES ASSUME Nat \ S # {}
               PROVE  FALSE
  OBVIOUS
<1>2. PICK n \in Nat \ S : \A m \in Nat \ S : n <= m
  BY <1>1, Least
<1>3. n - 1 \in Nat /\ n - 1 \in S
  BY <1>2
<1> QED
  BY <1>2, <1>3

\* The cards that may come next.
ReadyAfter(cards, dependsOn, before) ==
    {k \in cards \ ToSet(before) : dependsOn[k] \cap cards \subseteq ToSet(before)}

\* One card more, if there is one.
Extend(cards, dependsOn, before) ==
    LET ready == ReadyAfter(cards, dependsOn, before)
    IN  IF ready = {} THEN before
        ELSE Append(before, CHOOSE k \in ready : \A other \in ready : k <= other)

\* The sequences TopologicalOrder iterates through, one card or none at a time.
Iterates(order, N, cards, dependsOn) ==
    order = [n \in 0 .. N |->
                IF n = 0 THEN <<>> ELSE Extend(cards, dependsOn, order[n - 1])]

\* The recursive function that TopologicalOrder chooses exists.
LEMMA IterationExists ==
    ASSUME NEW cards, NEW dependsOn, NEW N \in Nat
    PROVE  \E order : Iterates(order, N, cards, dependsOn)
<1> DEFINE S == {n \in Nat : \E order : Iterates(order, n, cards, dependsOn)}
<1>1. 0 \in S
  <2>1. Iterates([n \in 0 .. 0 |-> <<>>], 0, cards, dependsOn)
    BY DEF Iterates
  <2> QED
    BY <2>1
<1>2. ASSUME NEW n \in Nat, n \in S
      PROVE  n + 1 \in S
  <2>1. PICK old : Iterates(old, n, cards, dependsOn)
    BY <1>2
  <2> DEFINE new == [m \in 0 .. n + 1 |->
                        IF m = n + 1 THEN Extend(cards, dependsOn, old[n]) ELSE old[m]]
  <2>2. ASSUME NEW m \in 0 .. n + 1
        PROVE  new[m] = IF m = 0 THEN <<>> ELSE Extend(cards, dependsOn, new[m - 1])
    <3>1. CASE m = n + 1
      BY <3>1
    <3>2. CASE m # n + 1
      <4>1. m \in 0 .. n
        BY <3>2
      <4>2. old[m] = IF m = 0 THEN <<>> ELSE Extend(cards, dependsOn, old[m - 1])
        BY <2>1, <4>1 DEF Iterates
      <4>3. new[m] = old[m]
        BY <3>2
      <4>4. m # 0 => new[m - 1] = old[m - 1]
        BY <4>1
      <4> QED
        BY <4>2, <4>3, <4>4
    <3> QED
      BY <3>1, <3>2
  <2>3. Iterates(new, n + 1, cards, dependsOn)
    BY <2>2 DEF Iterates
  <2> QED
    BY <2>3
<1> HIDE DEF S
<1>3. N \in S
  BY <1>1, <1>2, Induction
<1> QED
  BY <1>3 DEF S

\* The cards of the sequence are of the selection, once each, after all they
\* depend on inside it.
RespectsOrder(sequence, cards, dependsOn) ==
    /\ sequence \in Seq(cards)
    /\ \A m, n \in DOMAIN sequence : sequence[m] = sequence[n] => m = n
    /\ \A n \in DOMAIN sequence : \A d \in dependsOn[sequence[n]] \cap cards :
          \E m \in 1 .. n - 1 : sequence[m] = d

\* The elements of a sequence, and of one with an element more.
LEMMA ToSetOf ==
    ASSUME NEW S, NEW s \in Seq(S)
    PROVE  /\ ToSet(s) \subseteq S
           /\ ToSet(s) = {s[n] : n \in 1 .. Len(s)}
           /\ \A e \in S : ToSet(Append(s, e)) = ToSet(s) \cup {e}
BY AppendProperties, LenProperties, ElementOfSeq DEF ToSet

\* Adding the smallest ready card keeps an order an order.
LEMMA ExtendRespects ==
    ASSUME NEW cards \in SUBSET Nat, NEW dependsOn, NEW s,
           RespectsOrder(s, cards, dependsOn)
    PROVE  LET t == Extend(cards, dependsOn, s)
           IN  /\ RespectsOrder(t, cards, dependsOn)
               /\ IF ReadyAfter(cards, dependsOn, s) = {} THEN t = s ELSE Len(t) = Len(s) + 1
<1> DEFINE ready == ReadyAfter(cards, dependsOn, s)
<1>1. CASE ready = {}
  BY <1>1 DEF Extend
<1>2. CASE ready # {}
  <2>1. ready \in SUBSET Nat
    BY DEF ReadyAfter
  <2>2. PICK e \in ready : Extend(cards, dependsOn, s) = Append(s, e)
    <3>1. \E k \in ready : \A other \in ready : k <= other
      BY <1>2, <2>1, Least
    <3> QED
      BY <1>2, <3>1 DEF Extend
  <2>3. e \in cards /\ e \notin ToSet(s) /\ dependsOn[e] \cap cards \subseteq ToSet(s)
    BY DEF ReadyAfter
  <2> DEFINE t == Append(s, e)
  <2>4. /\ s \in Seq(cards) /\ Len(s) \in Nat /\ DOMAIN s = 1 .. Len(s)
        /\ t \in Seq(cards) /\ Len(t) = Len(s) + 1 /\ DOMAIN t = 1 .. Len(s) + 1
        /\ \A n \in 1 .. Len(s) : t[n] = s[n]
        /\ t[Len(s) + 1] = e
    BY <2>3, AppendProperties, LenProperties DEF RespectsOrder
  <2>5. ToSet(s) = {s[n] : n \in 1 .. Len(s)}
    BY <2>4, ToSetOf
  <2> HIDE DEF t
  <2>6. \A m, n \in DOMAIN t : t[m] = t[n] => m = n
    BY <2>3, <2>4, <2>5 DEF RespectsOrder
  <2>7. ASSUME NEW n \in DOMAIN t, NEW d \in dependsOn[t[n]] \cap cards
        PROVE  \E m \in 1 .. n - 1 : t[m] = d
    <3>1. CASE n = Len(s) + 1
      BY <2>3, <2>4, <2>5, <3>1
    <3>2. CASE n # Len(s) + 1
      <4>1. n \in 1 .. Len(s)
        BY <2>4, <3>2
      <4>2. PICK m \in 1 .. n - 1 : s[m] = d
        BY <2>4, <4>1 DEF RespectsOrder
      <4>3. m \in 1 .. Len(s)
        BY <2>4, <4>1
      <4> QED
        BY <2>4, <4>2, <4>3
    <3> QED
      BY <3>1, <3>2
  <2>8. RespectsOrder(t, cards, dependsOn)
    BY <2>4, <2>6, <2>7 DEF RespectsOrder
  <2> QED
    BY <1>2, <2>2, <2>4, <2>8 DEF t
<1> QED
  BY <1>1, <1>2

\* Each iteration is an order, and one that stays short has no card ready.
LEMMA IterationRespects ==
    ASSUME NEW cards \in SUBSET Nat, NEW dependsOn, NEW N \in Nat, NEW order,
           Iterates(order, N, cards, dependsOn)
    PROVE  \A n \in 0 .. N :
              /\ RespectsOrder(order[n], cards, dependsOn)
              /\ Len(order[n]) <= n
              /\ Len(order[n]) < n => ReadyAfter(cards, dependsOn, order[n]) = {}
<1> DEFINE Good(n) ==
              /\ RespectsOrder(order[n], cards, dependsOn)
              /\ Len(order[n]) <= n
              /\ Len(order[n]) < n => ReadyAfter(cards, dependsOn, order[n]) = {}
           S == {n \in Nat : n <= N => Good(n)}
<1>1. 0 \in S
  <2>1. order[0] = <<>>
    BY DEF Iterates
  <2>2. RespectsOrder(<<>>, cards, dependsOn)
    BY EmptySeq DEF RespectsOrder
  <2>3. Len(<<>>) = 0
    BY EmptySeq
  <2> QED
    BY <2>1, <2>2, <2>3
<1>2. ASSUME NEW n \in Nat, n \in S
      PROVE  n + 1 \in S
  <2>1. SUFFICES ASSUME n + 1 <= N
                 PROVE  Good(n + 1)
    OBVIOUS
  <2>2. Good(n)
    BY <1>2, <2>1
  <2>3. order[n + 1] = Extend(cards, dependsOn, order[n])
    <3>1. n + 1 \in 0 .. N /\ n + 1 # 0 /\ (n + 1) - 1 = n
      BY <2>1
    <3> QED
      BY <3>1 DEF Iterates
  <2> DEFINE s == order[n]
             t == order[n + 1]
  <2>4. /\ RespectsOrder(t, cards, dependsOn)
        /\ IF ReadyAfter(cards, dependsOn, s) = {} THEN t = s ELSE Len(t) = Len(s) + 1
    <3>1. RespectsOrder(s, cards, dependsOn) /\ t = Extend(cards, dependsOn, s)
      BY <2>2, <2>3
    <3> HIDE DEF s, t
    <3> QED
      BY <3>1, ExtendRespects
  <2>5. Len(s) \in Nat /\ Len(t) \in Nat
    BY <2>2, <2>4, LenProperties DEF RespectsOrder
  <2>6. Len(t) <= n + 1 /\ (Len(t) < n + 1 => ReadyAfter(cards, dependsOn, t) = {})
    <3> HIDE DEF s, t
    <3>1. Len(s) <= n /\ (Len(s) < n => ReadyAfter(cards, dependsOn, s) = {})
      BY <2>2 DEF s
    <3> QED
      BY <2>4, <2>5, <3>1
  <2> QED
    BY <2>4, <2>6
<1> HIDE DEF Good
<1>3. Nat \subseteq S
  <2> HIDE DEF S
  <2> QED
    BY <1>1, <1>2, Induction
<1>4. \A n \in 0 .. N : Good(n)
  BY <1>3
<1> QED
  BY <1>4 DEF Good

\* TopologicalOrder is the last of its iterations.
LEMMA OrderIterates ==
    ASSUME NEW cards \in SUBSET Nat, IsFiniteSet(cards), NEW dependsOn
    PROVE  \E order : /\ Iterates(order, Cardinality(cards), cards, dependsOn)
                      /\ TopologicalOrder(cards, dependsOn) = order[Cardinality(cards)]
<1> DEFINE N == Cardinality(cards)
           order == CHOOSE f : Iterates(f, N, cards, dependsOn)
<1>1. N \in Nat
  BY FS_CardinalityType
<1>2. Iterates(order, N, cards, dependsOn)
  BY <1>1, IterationExists
<1>3. ASSUME NEW f
      PROVE  Iterates(f, N, cards, dependsOn)
             <=> f = [n \in 0 .. Cardinality(cards) |->
                    IF n = 0 THEN <<>>
                    ELSE LET before == f[n - 1]
                             ready == {k \in cards \ ToSet(before) :
                                [c \in cards |-> dependsOn[c] \cap cards][k]
                                  \subseteq ToSet(before)}
                         IN  IF ready = {} THEN before
                             ELSE Append(before,
                                    CHOOSE k \in ready : \A other \in ready : k <= other)]
  <2> DEFINE IsNext(before) == {k \in cards \ ToSet(before) :
                                [c \in cards |-> dependsOn[c] \cap cards][k]
                                  \subseteq ToSet(before)}
             Body(before) == IF IsNext(before) = {} THEN before
                             ELSE Append(before, CHOOSE k \in IsNext(before) :
                                    \A other \in IsNext(before) : k <= other)
  <2>1. ASSUME NEW before
        PROVE  Extend(cards, dependsOn, before) = Body(before)
    <3>1. ReadyAfter(cards, dependsOn, before) = IsNext(before)
      BY DEF ReadyAfter
    <3> HIDE DEF IsNext
    <3> QED
      BY <3>1 DEF Extend
  <2> HIDE DEF Body
  <2>2. Iterates(f, N, cards, dependsOn)
        <=> f = [n \in 0 .. Cardinality(cards) |->
                    IF n = 0 THEN <<>> ELSE Body(f[n - 1])]
    BY <2>1 DEF Iterates
  <2> QED
    BY <2>2 DEF Body
<1>4. TopologicalOrder(cards, dependsOn) = order[N]
  BY <1>3 DEF TopologicalOrder
<1> QED
  BY <1>2, <1>4

\* What a successful order is, for any selection: it is all of the selection.
THEOREM OrderOfSelection ==
    ASSUME NEW cards \in SUBSET Nat, IsFiniteSet(cards), NEW dependsOn,
           Orders(cards, dependsOn)
    PROVE  /\ RespectsOrder(TopologicalOrder(cards, dependsOn), cards, dependsOn)
           /\ ToSet(TopologicalOrder(cards, dependsOn)) = cards
<1> DEFINE s == TopologicalOrder(cards, dependsOn)
           N == Cardinality(cards)
<1>1. N \in Nat
  BY FS_CardinalityType
<1>2. RespectsOrder(s, cards, dependsOn)
  <2>1. N \in 0 .. N
    BY <1>1
  <2> QED
    BY <1>1, <2>1, OrderIterates, IterationRespects
<1>3. Len(s) = N
  BY DEF Orders
<1>4. s \in Injection(1 .. N, cards)
  <2>1. s \in [1 .. N -> cards] /\ DOMAIN s = 1 .. N
    BY <1>2, <1>3, LenProperties DEF RespectsOrder
  <2> QED
    BY <1>2, <2>1 DEF RespectsOrder, Injection, IsInjective
<1>5. Cardinality(1 .. N) = N
  BY <1>1, FS_Interval
<1>6. s \in Surjection(1 .. N, cards)
  BY <1>4, <1>5, FS_Injection
<1>7. ToSet(s) = cards
  <2> HIDE DEF s
  <2>1. s \in Seq(cards)
    BY <1>2 DEF RespectsOrder
  <2>2. ToSet(s) \subseteq cards /\ ToSet(s) = {s[n] : n \in 1 .. N}
    BY <2>1, <1>3, ToSetOf
  <2> QED
    BY <2>2, <1>6 DEF Surjection
<1> QED
  BY <1>2, <1>7

\* A selection that cannot be ordered contains cards that wait for one another.
THEOREM OnlyCyclesRefuse ==
    ASSUME NEW cards \in SUBSET Nat, IsFiniteSet(cards), NEW dependsOn,
           ~ Orders(cards, dependsOn)
    PROVE  \E waiting \in SUBSET cards :
              waiting # {} /\ \A c \in waiting : dependsOn[c] \cap waiting # {}
<1> DEFINE s == TopologicalOrder(cards, dependsOn)
           N == Cardinality(cards)
<1>1. N \in Nat
  BY FS_CardinalityType
<1>2. /\ RespectsOrder(s, cards, dependsOn)
      /\ Len(s) <= N
      /\ Len(s) < N => ReadyAfter(cards, dependsOn, s) = {}
  <2>1. N \in 0 .. N
    BY <1>1
  <2> QED
    BY <1>1, <2>1, OrderIterates, IterationRespects
<1> HIDE DEF N, s
<1>3. s \in Seq(cards) /\ Len(s) \in Nat
  BY <1>2, LenProperties DEF RespectsOrder
<1>4. Len(s) < N /\ ReadyAfter(cards, dependsOn, s) = {}
  <2>1. Len(s) # N
    BY DEF Orders, s, N
  <2> QED
    BY <1>1, <1>2, <1>3, <2>1
<1> DEFINE waiting == cards \ ToSet(s)
<1>5. waiting # {}
  <2>1. SUFFICES ASSUME cards = ToSet(s)
                 PROVE  FALSE
    BY <1>3, ToSetOf
  <2>2. s \in Surjection(1 .. Len(s), cards)
    <3>1. s \in [1 .. Len(s) -> cards] /\ cards = {s[n] : n \in 1 .. Len(s)}
      BY <1>3, <2>1, ToSetOf, LenProperties
    <3> QED
      BY <3>1 DEF Surjection
  <2>3. IsFiniteSet(1 .. Len(s)) /\ Cardinality(1 .. Len(s)) = Len(s)
    <3>1. 1 \in Int /\ Len(s) \in Int /\ (1 > Len(s) => Len(s) = 0)
      BY <1>3
    <3>2. IsFiniteSet(1 .. Len(s))
          /\ Cardinality(1 .. Len(s)) = IF 1 > Len(s) THEN 0 ELSE Len(s) - 1 + 1
      BY ONLY <3>1, FS_Interval
    <3> QED
      BY <1>3, <3>1, <3>2
  <2>4. N <= Len(s)
    BY <2>2, <2>3, FS_Surjection DEF N
  <2> QED
    BY <1>1, <1>3, <1>4, <2>4
<1>6. ASSUME NEW c \in waiting
      PROVE  dependsOn[c] \cap waiting # {}
  BY <1>4 DEF ReadyAfter
<1> QED
  BY <1>5, <1>6

\* Candidates of some of the cards.
Candidates == UNION {[cards -> Nat] : cards \in SUBSET Cards}

\* An exception raised under a policy.
ExceptionRecord == [policy : Nat, resolved : BOOLEAN]

\* A card.
CardRecord == [state : L!CardStates, candidate : Nat, head : Nat]

\* A cycle.
CycleRecord == [status : L!CycleStatuses, groups : SUBSET Groups]

\* An integration.
IntegrationRecord ==
    [cycle : Cycles, status : Statuses, members : Seq(Cards), candidate : Candidates,
     final : BOOLEAN, seal : CycleRecord, expected : Seq(Nat), merged : BOOLEAN,
     landing : BOOLEAN, verifier : Actors \cup {"none"},
     decision : {"none", "accepted", "rejected"}, under : Nat,
     exceptions : Seq(ExceptionRecord), archive : SUBSET (Nat \X Nat)]

\* A record with its own candidates and the cards of its own cycle.
Proper(record) ==
    /\ record \in IntegrationRecord
    /\ record.candidate \in [ToSet(record.members) -> Nat]
    /\ ToSet(record.members) \subseteq CardsOf(record.cycle)

\* The types, with the fields of the records and their cards.
Typed ==
    /\ scenario \in Scenarios
    /\ authority \in Seq(Nat)
    /\ card \in [scenario.cards -> CardRecord]
    /\ cycle \in [Cycles -> CycleRecord]
    /\ integrations \in Seq(IntegrationRecord)
    /\ \A i \in Numbers : Proper(integrations[i])
    /\ policy \in 0 .. scenario.policies
    /\ failures \in [Cycles -> Nat]
    /\ unrecorded \subseteq Numbers
    /\ stuck \in {0} \cup Numbers

\* What a preparation pinned stays as it was.
SameTerms(old, new) ==
    /\ new.cycle = old.cycle /\ new.members = old.members /\ new.candidate = old.candidate
    /\ new.final = old.final /\ new.seal = old.seal /\ new.expected = old.expected

\* What an escalated cycle may not change in a record.
Bare(record) == [record EXCEPT !.exceptions = <<>>, !.archive = {}]

\* The states of cards and cycles.
LEMMA CardStatesKnown ==
    /\ L!CardStates =
        {"draft", "ready", "leased", "active", "handed_off", "review_pending",
         "changes_requested", "approved", "integrating", "accepted", "landed",
         "closed", "blocked", "abandoned"}
    /\ L!CycleStatuses =
        {"draft", "active", "sealed", "integrating", "accepted", "landed", "closed",
         "blocked", "abandoned"}
  BY DEF L!CardStates, L!CycleStatuses

\* The moves of cards that integration makes.
LEMMA MovesKnown ==
    ASSUME NEW from \in L!CardStates, NEW to
    PROVE  /\ L!CheckTransition(from, to) => to \in L!CardStates
           /\ L!CheckTransition(from, "accepted") <=> from = "integrating"
           /\ L!CheckTransition(from, "closed") <=> from = "landed"
           /\ L!CheckTransition(from, "abandoned")
                => from \notin {"landed", "closed", "abandoned"}
  BY CardStatesKnown DEF L!CheckTransition, L!Successors

\* A cycle moves to a status of cycles.
LEMMA CycleMovesKnown ==
    ASSUME NEW from \in L!CycleStatuses, NEW to, L!CheckCycleTransition(from, to)
    PROVE  to \in L!CycleStatuses
  BY CardStatesKnown DEF L!CheckCycleTransition, L!CycleSuccessors

\* Where an integration may move from.
LEMMA StatusMovesKnown ==
    ASSUME NEW from \in Statuses
    PROVE  /\ "verified" \in StatusSuccessors[from] <=> from = "prepared"
           /\ "reviewed" \in StatusSuccessors[from] <=> from = "verified"
           /\ "archived" \in StatusSuccessors[from] <=> from = "promoted"
           /\ "abandoned" \in StatusSuccessors[from]
                => from \in {"prepared", "verified", "reviewed", "accepted", "blocked"}
  BY DEF Statuses, StatusSuccessors

\* What the types say of one record and of the branch.
LEMMA TypedRecords ==
    ASSUME Typed
    PROVE  /\ Len(integrations) \in Nat /\ Numbers = 1 .. Len(integrations)
           /\ \A i \in Numbers : integrations[i] \in IntegrationRecord
           /\ Len(authority) \in Nat /\ DOMAIN authority = 1 .. Len(authority)
           /\ \A k \in DOMAIN authority : authority[k] \in Nat
  BY LenProperties, ElementOfSeq DEF Typed, Numbers

\* One record is written anew.
Rewrites(i, new) ==
    /\ integrations' \in Seq(IntegrationRecord)
    /\ Len(integrations') = Len(integrations) /\ Numbers' = Numbers
    /\ integrations'[i] = new
    /\ \A j \in Numbers : j # i => integrations'[j] = integrations[j]

\* A record replaced leaves the others.
LEMMA RewriteEffect ==
    ASSUME Typed, NEW i \in Numbers, NEW new \in IntegrationRecord,
           integrations' = [integrations EXCEPT ![i] = new]
    PROVE  Rewrites(i, new)
<1>1. /\ integrations \in Seq(IntegrationRecord) /\ Numbers = 1 .. Len(integrations)
      /\ Len(integrations) \in Nat
  BY TypedRecords DEF Typed
<1>2. /\ integrations' \in Seq(IntegrationRecord)
      /\ Len(integrations') = Len(integrations)
      /\ \A j \in 1 .. Len(integrations) :
            integrations'[j] = IF j = i THEN new ELSE integrations[j]
  BY <1>1, ExceptSeq
<1>3. Numbers' = 1 .. Len(integrations)
  BY <1>2, LenProperties DEF Numbers
<1> QED
  BY <1>1, <1>2, <1>3 DEF Rewrites

\* A record is one still after each of the things that can be written in it.
LEMMA RecordUpdates ==
    ASSUME NEW r, Proper(r)
    PROVE  /\ LET s == [r EXCEPT !.merged = TRUE]
              IN  Proper(s) /\ SameTerms(r, s) /\ s.status = r.status /\ s.archive = r.archive
           /\ LET s == CreateLanding(r)
              IN  Proper(s) /\ SameTerms(r, s) /\ s.status = r.status /\ s.archive = r.archive
           /\ \A actor \in Actors :
                /\ LET s == StoreVerification(r, actor, TRUE)
                   IN  /\ Proper(s) /\ SameTerms(r, s) /\ s.archive = r.archive
                       /\ s.status = "verified"
                /\ LET s == StoreVerification(r, actor, FALSE)
                   IN  /\ Proper(s) /\ SameTerms(r, s) /\ s.archive = r.archive
                       /\ s.status = r.status
           /\ \A status \in Statuses :
                LET s == [r EXCEPT !.status = status]
                IN  /\ Proper(s) /\ SameTerms(r, s) /\ s.archive = r.archive
                    /\ s.status = status
           /\ \A exceptions \in Seq(ExceptionRecord) :
                LET s == [r EXCEPT !.exceptions = exceptions]
                IN  /\ Proper(s) /\ SameTerms(r, s) /\ s.archive = r.archive
                    /\ s.status = r.status /\ Bare(s) = Bare(r)
<1>1. LET s == [r EXCEPT !.merged = TRUE]
      IN  Proper(s) /\ SameTerms(r, s) /\ s.status = r.status /\ s.archive = r.archive
  BY DEF Proper, IntegrationRecord, SameTerms
<1>2. LET s == CreateLanding(r)
      IN  Proper(s) /\ SameTerms(r, s) /\ s.status = r.status /\ s.archive = r.archive
  BY DEF Proper, IntegrationRecord, SameTerms, CreateLanding
<1>3. ASSUME NEW actor \in Actors
      PROVE  /\ LET s == StoreVerification(r, actor, TRUE)
                IN  /\ Proper(s) /\ SameTerms(r, s) /\ s.archive = r.archive
                    /\ s.status = "verified"
             /\ LET s == StoreVerification(r, actor, FALSE)
                IN  /\ Proper(s) /\ SameTerms(r, s) /\ s.archive = r.archive
                    /\ s.status = r.status
  <2>1. LET s == StoreVerification(r, actor, TRUE)
        IN  Proper(s) /\ SameTerms(r, s) /\ s.archive = r.archive /\ s.status = "verified"
    BY DEF Proper, IntegrationRecord, SameTerms, StoreVerification, Statuses
  <2>2. LET s == StoreVerification(r, actor, FALSE)
        IN  Proper(s) /\ SameTerms(r, s) /\ s.archive = r.archive /\ s.status = r.status
    BY DEF Proper, IntegrationRecord, SameTerms, StoreVerification
  <2> QED
    BY <2>1, <2>2
<1>4. ASSUME NEW status \in Statuses
      PROVE  LET s == [r EXCEPT !.status = status]
             IN  /\ Proper(s) /\ SameTerms(r, s) /\ s.archive = r.archive
                 /\ s.status = status
  BY DEF Proper, IntegrationRecord, SameTerms
<1>5. ASSUME NEW exceptions \in Seq(ExceptionRecord)
      PROVE  LET s == [r EXCEPT !.exceptions = exceptions]
             IN  /\ Proper(s) /\ SameTerms(r, s) /\ s.archive = r.archive
                 /\ s.status = r.status /\ Bare(s) = Bare(r)
  BY DEF Proper, IntegrationRecord, SameTerms, Bare
<1> QED
  BY <1>1, <1>2, <1>3, <1>4, <1>5

\* A decision is written with the policy it was made under.
LEMMA DecisionUpdates ==
    ASSUME NEW r, Proper(r), policy \in Nat
    PROVE  /\ LET s == BuildAcceptance(r, "rejected")
              IN  Proper(s) /\ SameTerms(r, s) /\ s.status = r.status /\ s.archive = r.archive
           /\ LET s == [BuildAcceptance(r, "accepted") EXCEPT !.status = "accepted"]
              IN  Proper(s) /\ SameTerms(r, s) /\ s.status = "accepted" /\ s.archive = r.archive
  BY DEF Proper, IntegrationRecord, SameTerms, BuildAcceptance, Statuses

\* Cards move together; what each is approved and worked at stays.
MoveTogether(cards, to) ==
    \A c \in scenario.cards :
        /\ card'[c].candidate = card[c].candidate /\ card'[c].head = card[c].head
        /\ card'[c].state = IF c \in cards THEN to ELSE card[c].state

\* Moving cards moves exactly them.
LEMMA CardsToEffect ==
    ASSUME Typed, NEW cards, NEW to \in L!CardStates, CardsTo(cards, to), scenario' = scenario
    PROVE  MoveTogether(cards, to) /\ card' \in [scenario'.cards -> CardRecord]
  BY DEF Typed, CardsTo, CardRecord, MoveTogether

\* An integration on which nobody has decided.
Undecided == {"prepared", "verified", "reviewed"}

\* One card moves, by itself.
CardStep(c) ==
    /\ UNCHANGED <<scenario, authority, cycle, integrations, policy, failures, unrecorded,
                   stuck>>
    /\ \A d \in scenario.cards : d # c => card'[d] = card[d]
    /\ \/ /\ card[c].state # "closed"
          /\ card'[c].state = card[c].state /\ card'[c].candidate = card[c].candidate
          /\ card'[c].head = card[c].head + 1
       \/ /\ CommandsRun /\ card[c].state = "active"
          /\ card'[c].state = "approved" /\ card'[c].candidate = card[c].head
          /\ card'[c].head = card[c].head
       \/ /\ CommandsRun
          /\ card'[c].candidate = card[c].candidate /\ card'[c].head = card[c].head
          /\ \/ card[c].state = "approved" /\ card'[c].state = "active"
             \/ /\ card[c].state \notin {"landed", "closed", "abandoned"}
                /\ card'[c].state = "abandoned"

\* A cycle moves, or a group is declared in it.
CycleStep(y) ==
    /\ UNCHANGED <<scenario, authority, card, integrations, policy, failures, unrecorded,
                   stuck>>
    /\ \A z \in Cycles : z # y => cycle'[z] = cycle[z]
    /\ \/ cycle'[y].groups = cycle[y].groups
       \/ \E group \in SUBSET CardsOf(y) :
            /\ cycle'[y].groups = cycle[y].groups \cup {group}
            /\ \/ "late group" \in scenario.moves
               \/ \A c \in group : card[c].state \in {"approved", "active"}

\* What is counted and configured beside the integrations.
CountStep == UNCHANGED <<scenario, authority, card, cycle, integrations, stuck>>

\* Someone pushes to the protected branch.
PushStep ==
    /\ authority' = Append(authority, Foreign)
    /\ UNCHANGED <<scenario, recordVars, unrecorded, stuck>>

\* A new record, of the selected cards.
PrepareStep(y, requested) ==
    LET selected == Select(y, requested)
        new == Len(integrations) + 1
        record == BuildRecord(y, selected)
    IN  /\ CommandsRun /\ WithinBudget(y)
        /\ selected \subseteq CardsOf(y)
        /\ BuildPlan(y, requested)
        /\ Numbers' = Numbers \cup {new} /\ new \notin Numbers
        /\ \A i \in Numbers : integrations'[i] = integrations[i]
        /\ integrations'[new] = record
        /\ record \in IntegrationRecord
        /\ RespectsOrder(record.members, selected, DependsOn)
        /\ ToSet(record.members) = selected
        /\ MoveTogether(selected, "integrating")
        /\ UNCHANGED <<scenario, authority, cycle, policy, failures, unrecorded, stuck>>

\* An integration is written anew, on its way.
RecordStep(i) ==
    /\ CommandsRun
    /\ Rewrites(i, integrations'[i]) /\ SameTerms(integrations[i], integrations'[i])
    /\ integrations'[i].archive = integrations[i].archive
    /\ \/ integrations'[i].status = integrations[i].status
       \/ integrations[i].status \in Undecided /\ integrations'[i].status \in Undecided
    /\ WithinBudget(integrations[i].cycle) \/ Bare(integrations'[i]) = Bare(integrations[i])
    /\ SameButIntegrations

\* An integration reaches a decision together with its cards.
SettleStep(i, status, cards, to) ==
    /\ CommandsRun
    /\ Rewrites(i, integrations'[i]) /\ SameTerms(integrations[i], integrations'[i])
    /\ integrations'[i].archive = integrations[i].archive
    /\ integrations'[i].status = status
    /\ MoveTogether(cards, to)
    /\ UNCHANGED <<scenario, cycle, policy, failures, unrecorded, stuck>>

\* An acceptance.
AcceptStep(i) ==
    /\ SettleStep(i, "accepted", MembersOf(i), "accepted")
    /\ WithinBudget(integrations[i].cycle)
    /\ integrations[i].status = "reviewed"
    /\ \A c \in MembersOf(i) : card[c].state = "integrating"
    /\ UNCHANGED authority

\* A promotion that settles.
PromoteStep(i) ==
    /\ SettleStep(i, "promoted", MembersOf(i), "landed")
    /\ WithinBudget(integrations[i].cycle)
    /\ integrations[i].status = "accepted"
    /\ \A c \in MembersOf(i) : card[c].state \in {"accepted", "landed"}
    /\ Fresh(i)
    /\ authority' = Append(authority, i)

\* An abandonment.
AbandonStep(i) ==
    /\ SettleStep(i, "abandoned", {c \in MembersOf(i) : card[c].state = "integrating"},
                  "approved")
    /\ integrations[i].status \in Undecided \cup {"accepted", "blocked"}
    /\ UNCHANGED authority

\* A cleanup of archived cards.
CloseStep(i) ==
    /\ SettleStep(i, "archived", MembersOf(i), "closed")
    /\ integrations[i].status = "promoted"
    /\ \A c \in MembersOf(i) : UnarchivedCommits(c) = {} /\ card[c].state = "landed"
    /\ ArchiveIntact(i)
    /\ UNCHANGED authority

\* A promotion or a cleanup that breaks off.
BreakStep(i) ==
    /\ CommandsRun
    /\ stuck' = i
    /\ UNCHANGED <<scenario, card, cycle, integrations, policy, failures, unrecorded>>
    /\ \/ /\ integrations[i].status = "accepted" /\ ~ Settles(i)
          /\ WithinBudget(integrations[i].cycle)
          /\ Fresh(i) /\ authority' = Append(authority, i)
       \/ /\ integrations[i].status = "promoted" /\ ArchiveIntact(i)
          /\ UNCHANGED authority

\* An archive is made.
ArchiveStep(i) ==
    /\ CommandsRun
    /\ Rewrites(i, integrations'[i]) /\ SameTerms(integrations[i], integrations'[i])
    /\ integrations'[i].archive = RefsFor(i)
    /\ integrations[i].status = "promoted" /\ integrations'[i].status = "promoted"
    /\ Bare(integrations'[i]) = Bare(integrations[i])
    /\ SameButIntegrations

\* A card in another state.
LEMMA CardUpdate ==
    ASSUME NEW r \in CardRecord, NEW to
    PROVE  LET s == [r EXCEPT !.state = to]
           IN  /\ s.state = to /\ s.candidate = r.candidate /\ s.head = r.head
               /\ to \in L!CardStates => s \in CardRecord
  BY DEF CardRecord

\* A commit moves a head.
LEMMA CommitEffect ==
    ASSUME Typed, NEW c \in scenario.cards, Commit(c)
    PROVE  Typed' /\ CardStep(c)
<1>1. card[c] \in CardRecord /\ card[c].head + 1 \in Nat
  BY DEF Typed, CardRecord
<1>2. /\ card' \in [scenario'.cards -> CardRecord]
      /\ card'[c] = [card[c] EXCEPT !.head = card[c].head + 1]
      /\ \A d \in scenario.cards : d # c => card'[d] = card[d]
  BY <1>1 DEF Typed, Commit, CardRecord
<1>3. CardStep(c)
  BY <1>1, <1>2 DEF Commit, CardRecord, CardStep
<1> QED
  BY <1>2, <1>3 DEF Typed, Commit, Numbers, Proper, CardsOf

\* A card moves as its state allows.
LEMMA MoveCardEffect ==
    ASSUME Typed, NEW c \in scenario.cards, NEW to, MoveCard(c, to)
    PROVE  /\ Typed'
           /\ UNCHANGED <<scenario, authority, cycle, integrations, policy, failures,
                          unrecorded, stuck>>
           /\ \A d \in scenario.cards : d # c => card'[d] = card[d]
           /\ card'[c].candidate = card[c].candidate /\ card'[c].head = card[c].head
           /\ card'[c].state = to /\ CommandsRun
           /\ L!CheckTransition(card[c].state, to)
<1>1. card[c] \in CardRecord /\ card[c].state \in L!CardStates
  BY DEF Typed, CardRecord
<1>2. to \in L!CardStates
  BY <1>1, MovesKnown DEF MoveCard
<1>3. /\ card' \in [scenario'.cards -> CardRecord]
      /\ \A d \in scenario.cards : d # c => card'[d] = card[d]
      /\ card'[c] = [card[c] EXCEPT !.state = to]
  <2>1. [card[c] EXCEPT !.state = to] \in CardRecord
    BY <1>1, <1>2, CardUpdate
  <2>2. card' = [card EXCEPT ![c] = [card[c] EXCEPT !.state = to]]
    BY DEF MoveCard
  <2>3. scenario' = scenario /\ card \in [scenario.cards -> CardRecord]
    BY DEF MoveCard, Typed
  <2> HIDE DEF CardRecord
  <2> QED
    BY <2>1, <2>2, <2>3
<1>4. /\ card'[c].candidate = card[c].candidate /\ card'[c].head = card[c].head
      /\ card'[c].state = to
  <2>1. card'[c] = [card[c] EXCEPT !.state = to]
    BY <1>3
  <2> QED
    BY <1>1, <2>1, CardUpdate
<1>5. Typed'
  BY <1>3 DEF Typed, MoveCard, Numbers, Proper, CardsOf
<1> QED
  BY <1>3, <1>4, <1>5 DEF MoveCard

\* Resuming reopens an approved card.
LEMMA ResumeEffect ==
    ASSUME Typed, NEW c \in scenario.cards, Resume(c)
    PROVE  Typed' /\ CardStep(c)
<1>1. MoveCard(c, "active") /\ card[c].state = "approved"
  BY DEF Resume
<1>2. /\ Typed' /\ CommandsRun
      /\ UNCHANGED <<scenario, authority, cycle, integrations, policy, failures,
                     unrecorded, stuck>>
      /\ \A d \in scenario.cards : d # c => card'[d] = card[d]
      /\ card'[c].candidate = card[c].candidate /\ card'[c].head = card[c].head
      /\ card'[c].state = "active"
  BY <1>1, MoveCardEffect
<1> QED
  BY <1>1, <1>2 DEF CardStep

\* Abandoning ends a card that has not landed.
LEMMA AbandonCardEffect ==
    ASSUME Typed, NEW c \in scenario.cards, AbandonCard(c)
    PROVE  Typed' /\ CardStep(c)
<1>1. card[c].state \in L!CardStates
  BY DEF Typed, CardRecord
<1>2. MoveCard(c, "abandoned")
  BY DEF AbandonCard
<1>3. card[c].state \notin {"landed", "closed", "abandoned"}
  BY <1>1, <1>2, MovesKnown DEF MoveCard
<1> QED
  BY <1>2, <1>3, MoveCardEffect DEF CardStep

\* Delivering approves the card at its head.
LEMMA DeliverEffect ==
    ASSUME Typed, NEW c \in scenario.cards, Deliver(c)
    PROVE  Typed' /\ CardStep(c)
<1>1. card' \in [scenario'.cards -> CardRecord] /\ CardStep(c)
  BY CardStatesKnown DEF Typed, Deliver, CardRecord, CardStep
<1> QED
  BY <1>1 DEF Typed, Deliver, Numbers, Proper, CardsOf

\* A cycle moves as its status allows.
LEMMA MoveCycleEffect ==
    ASSUME Typed, NEW y \in Cycles, NEW to, MoveCycle(y, to)
    PROVE  Typed' /\ CycleStep(y)
<1>1. cycle[y] \in CycleRecord /\ cycle[y].status \in L!CycleStatuses
  BY DEF Typed, CycleRecord
<1>2. to \in L!CycleStatuses
  BY <1>1, CycleMovesKnown DEF MoveCycle
<1>3. cycle' \in [Cycles -> CycleRecord] /\ CycleStep(y)
  BY <1>1, <1>2 DEF Typed, MoveCycle, CycleRecord, CycleStep
<1> QED
  BY <1>3 DEF Typed, MoveCycle, Numbers, Proper, CardsOf

\* A group is added to its cycle.
LEMMA DeclareGroupEffect ==
    ASSUME Typed, NEW y \in Cycles, NEW group \in Groups, DeclareGroup(y, group)
    PROVE  Typed' /\ CycleStep(y)
<1>1. /\ cycle' \in [Cycles -> CycleRecord]
      /\ \A z \in Cycles : z # y => cycle'[z] = cycle[z]
      /\ cycle'[y].groups = cycle[y].groups \cup {group}
  BY DEF Typed, DeclareGroup, CycleRecord
<1> QED
  BY <1>1 DEF Typed, DeclareGroup, Numbers, Proper, CardsOf, CycleStep

\* A policy is counted.
LEMMA PolicyEffect ==
    ASSUME Typed, SetFinalAuthorizationPolicy
    PROVE  Typed' /\ CountStep
<1>1. scenario.policies \in Nat
  BY PipelineAssumption DEF Typed
<1>2. policy' \in 0 .. scenario'.policies
  BY <1>1 DEF Typed, SetFinalAuthorizationPolicy
<1> QED
  BY <1>2 DEF Typed, SetFinalAuthorizationPolicy, CountStep, Numbers, Proper, CardsOf

\* A rebaseline forgets failures.
LEMMA RebaselineEffect ==
    ASSUME Typed, Rebaseline
    PROVE  Typed' /\ CountStep
  BY DEF Typed, Rebaseline, CountStep, Numbers, Proper, CardsOf

\* A push appends to the branch.
LEMMA ForeignPushEffect ==
    ASSUME Typed, ForeignPush
    PROVE  Typed' /\ PushStep
<1>1. authority' \in Seq(Nat)
  BY AppendProperties DEF Typed, ForeignPush, Foreign
<1> QED
  BY <1>1 DEF Typed, ForeignPush, PushStep, Numbers, Proper, CardsOf, recordVars

\* A conflict, recorded or lost, moves no card or integration.
LEMMA FailureEffects ==
    ASSUME Typed, NEW i \in Numbers,
           MergeConflicts(i) \/ RecordIntegrationFailure(i) \/ LoseIntegrationFailure(i)
    PROVE  Typed' /\ CountStep
<1>1. integrations[i].cycle \in Cycles
  BY TypedRecords DEF IntegrationRecord
<1>2. CASE MergeConflicts(i)
  BY <1>2 DEF Typed, MergeConflicts, CountStep, Numbers, Proper, CardsOf, recordVars
<1>3. CASE RecordIntegrationFailure(i)
  <2>1. failures' \in [Cycles -> Nat] /\ unrecorded' \subseteq Numbers
    BY <1>1, <1>3 DEF Typed, RecordIntegrationFailure
  <2> QED
    BY <1>3, <2>1 DEF Typed, RecordIntegrationFailure, CountStep, Numbers, Proper, CardsOf
<1>4. CASE LoseIntegrationFailure(i)
  BY <1>4 DEF Typed, LoseIntegrationFailure, CountStep, Numbers, Proper, CardsOf, recordVars
<1> QED
  BY <1>2, <1>3, <1>4

\* What remains typed when only a record is written anew.
LEMMA RewriteTyped ==
    ASSUME Typed, NEW i \in Numbers, NEW new, Proper(new), SameTerms(integrations[i], new),
           integrations' = [integrations EXCEPT ![i] = new], scenario' = scenario
    PROVE  /\ Rewrites(i, new)
           /\ integrations' \in Seq(IntegrationRecord)
           /\ (\A j \in Numbers : Proper(integrations[j]))'
<1>1. Rewrites(i, new)
  BY RewriteEffect DEF Proper
<1>2. \A j \in Numbers' : Proper(integrations'[j])
  BY <1>1 DEF Rewrites, Typed
<1> QED
  BY <1>1, <1>2 DEF Rewrites, Proper, CardsOf

\* A step that only writes one record.
LEMMA RecordEffect ==
    ASSUME Typed, NEW i \in Numbers, NEW new, Proper(new), SameTerms(integrations[i], new),
           integrations' = [integrations EXCEPT ![i] = new], SameButIntegrations
    PROVE  Typed' /\ Rewrites(i, integrations'[i]) /\ integrations'[i] = new
<1>1. Rewrites(i, new) /\ Rewrites(i, integrations'[i]) /\ integrations'[i] = new
  BY RewriteTyped DEF Rewrites, SameButIntegrations
<1>2. integrations' \in Seq(IntegrationRecord) /\ (\A j \in Numbers : Proper(integrations[j]))'
  BY RewriteTyped DEF SameButIntegrations
<1>3. Numbers' = Numbers
  BY <1>1 DEF Rewrites
<1>4. Typed'
  BY <1>2, <1>3 DEF Typed, SameButIntegrations
<1> QED
  BY <1>1, <1>4

\* Merging advances one record.
LEMMA MergeEffect ==
    ASSUME Typed, NEW i \in Numbers, Merge(i)
    PROVE  Typed' /\ RecordStep(i)
<1> DEFINE new == [integrations[i] EXCEPT !.merged = TRUE]
<1>1. /\ Proper(new) /\ SameTerms(integrations[i], new)
      /\ new.status = integrations[i].status /\ new.archive = integrations[i].archive
  BY RecordUpdates DEF Typed
<1>2. /\ integrations' = [integrations EXCEPT ![i] = new] /\ SameButIntegrations
      /\ CommandsRun /\ WithinBudget(integrations[i].cycle)
  BY DEF Merge, Mergeable, Advancing
<1> HIDE DEF new
<1>3. Typed' /\ Rewrites(i, integrations'[i]) /\ integrations'[i] = new
  BY <1>1, <1>2, RecordEffect
<1> QED
  BY <1>1, <1>2, <1>3 DEF RecordStep

\* Landing advances one record.
LEMMA LandEffect ==
    ASSUME Typed, NEW i \in Numbers, Land(i)
    PROVE  Typed' /\ RecordStep(i)
<1> DEFINE new == CreateLanding(integrations[i])
<1>1. /\ Proper(new) /\ SameTerms(integrations[i], new)
      /\ new.status = integrations[i].status /\ new.archive = integrations[i].archive
  BY RecordUpdates DEF Typed
<1>2. /\ integrations' = [integrations EXCEPT ![i] = new] /\ SameButIntegrations
      /\ CommandsRun /\ WithinBudget(integrations[i].cycle)
  BY DEF Land, Advancing
<1> HIDE DEF new
<1>3. Typed' /\ Rewrites(i, integrations'[i]) /\ integrations'[i] = new
  BY <1>1, <1>2, RecordEffect
<1> QED
  BY <1>1, <1>2, <1>3 DEF RecordStep

\* Verifying advances one record.
LEMMA VerifyEffect ==
    ASSUME Typed, NEW i \in Numbers, NEW actor \in Actors, NEW passed \in BOOLEAN,
           Verify(i, actor, passed)
    PROVE  Typed' /\ RecordStep(i)
<1> DEFINE new == StoreVerification(integrations[i], actor, passed)
<1>1. /\ Proper(new) /\ SameTerms(integrations[i], new)
      /\ new.status \in {integrations[i].status, "verified"}
      /\ new.archive = integrations[i].archive
  <2>1. Proper(integrations[i])
    BY DEF Typed
  <2>2. CASE passed = TRUE
    BY <2>1, <2>2, RecordUpdates
  <2>3. CASE passed = FALSE
    BY <2>1, <2>3, RecordUpdates
  <2> QED
    BY <2>2, <2>3
<1>2. /\ integrations' = [integrations EXCEPT ![i] = new] /\ SameButIntegrations
      /\ CommandsRun /\ WithinBudget(integrations[i].cycle)
      /\ integrations[i].status = "prepared"
  <2>1. integrations[i].status \in Statuses
    BY TypedRecords DEF IntegrationRecord
  <2> QED
    BY <2>1, StatusMovesKnown DEF Verify, Advancing, Moves
<1> HIDE DEF new
<1>3. Typed' /\ Rewrites(i, integrations'[i]) /\ integrations'[i] = new
  BY <1>1, <1>2, RecordEffect
<1> QED
  BY <1>1, <1>2, <1>3 DEF RecordStep, Undecided

\* Reviewing advances one record.
LEMMA ReviewEffect ==
    ASSUME Typed, NEW i \in Numbers, NEW reviewer, Review(i, reviewer)
    PROVE  Typed' /\ RecordStep(i)
<1> DEFINE new == [integrations[i] EXCEPT !.status = "reviewed"]
<1>1. /\ Proper(new) /\ SameTerms(integrations[i], new)
      /\ new.status = "reviewed" /\ new.archive = integrations[i].archive
  <2>1. Proper(integrations[i]) /\ "reviewed" \in Statuses
    BY DEF Typed, Statuses
  <2> QED
    BY <2>1, RecordUpdates
<1>2. /\ integrations' = [integrations EXCEPT ![i] = new] /\ SameButIntegrations
      /\ CommandsRun /\ WithinBudget(integrations[i].cycle)
      /\ integrations[i].status = "verified"
  <2>1. integrations[i].status \in Statuses
    BY TypedRecords DEF IntegrationRecord
  <2> QED
    BY <2>1, StatusMovesKnown DEF Review, Advancing, Moves
<1> HIDE DEF new
<1>3. Typed' /\ Rewrites(i, integrations'[i]) /\ integrations'[i] = new
  BY <1>1, <1>2, RecordEffect
<1> QED
  BY <1>1, <1>2, <1>3 DEF RecordStep, Undecided

\* Rejecting advances one record.
LEMMA RejectEffect ==
    ASSUME Typed, NEW i \in Numbers, NEW actor, Reject(i, actor)
    PROVE  Typed' /\ RecordStep(i)
<1> DEFINE new == BuildAcceptance(integrations[i], "rejected")
<1>1. /\ Proper(new) /\ SameTerms(integrations[i], new)
      /\ new.status = integrations[i].status /\ new.archive = integrations[i].archive
  <2>1. Proper(integrations[i]) /\ policy \in Nat
    BY PipelineAssumption DEF Typed
  <2> QED
    BY <2>1, DecisionUpdates
<1>2. /\ integrations' = [integrations EXCEPT ![i] = new] /\ SameButIntegrations
      /\ CommandsRun /\ WithinBudget(integrations[i].cycle)
  BY DEF Reject, MayAccept, Advancing
<1> HIDE DEF new
<1>3. Typed' /\ Rewrites(i, integrations'[i]) /\ integrations'[i] = new
  BY <1>1, <1>2, RecordEffect
<1> QED
  BY <1>1, <1>2, <1>3 DEF RecordStep

\* Exceptions are raised one after another.
LEMMA RaiseEffect ==
    ASSUME Typed, NEW i \in Numbers, RaiseException(i)
    PROVE  Typed' /\ RecordStep(i)
<1> DEFINE raised == Append(integrations[i].exceptions, [policy |-> policy, resolved |-> FALSE])
           new == [integrations[i] EXCEPT !.exceptions = raised]
<1>0. Proper(integrations[i]) /\ integrations[i].exceptions \in Seq(ExceptionRecord)
  BY DEF Typed, Proper, IntegrationRecord
<1>1. raised \in Seq(ExceptionRecord)
  <2>1. [policy |-> policy, resolved |-> FALSE] \in ExceptionRecord
    BY PipelineAssumption DEF Typed, ExceptionRecord
  <2> QED
    BY <1>0, <2>1, AppendProperties
<1> HIDE DEF raised
<1>2. /\ Proper(new) /\ SameTerms(integrations[i], new)
      /\ new.status = integrations[i].status /\ new.archive = integrations[i].archive
      /\ Bare(new) = Bare(integrations[i])
  BY <1>0, <1>1, RecordUpdates
<1>3. integrations' = [integrations EXCEPT ![i] = new] /\ SameButIntegrations /\ CommandsRun
  BY DEF RaiseException, raised
<1> HIDE DEF new
<1>4. Typed' /\ Rewrites(i, integrations'[i]) /\ integrations'[i] = new
  BY <1>2, <1>3, RecordEffect
<1> QED
  BY <1>2, <1>3, <1>4 DEF RecordStep

\* Resolving changes the exceptions of one record.
LEMMA ResolveEffect ==
    ASSUME Typed, NEW i \in Numbers, NEW k \in DOMAIN integrations[i].exceptions, NEW actor,
           ResolveException(i, k, actor)
    PROVE  Typed' /\ RecordStep(i)
<1> DEFINE resolved == [integrations[i].exceptions EXCEPT ![k].resolved = TRUE]
           new == [integrations[i] EXCEPT !.exceptions = resolved]
<1>0. Proper(integrations[i]) /\ integrations[i].exceptions \in Seq(ExceptionRecord)
  BY DEF Typed, Proper, IntegrationRecord
<1>1. resolved \in Seq(ExceptionRecord)
  <2>1. k \in 1 .. Len(integrations[i].exceptions)
    BY <1>0, LenProperties
  <2>2. [integrations[i].exceptions[k] EXCEPT !.resolved = TRUE] \in ExceptionRecord
    <3>1. integrations[i].exceptions[k] \in ExceptionRecord
      BY <1>0, <2>1, ElementOfSeq
    <3> QED
      BY <3>1 DEF ExceptionRecord
  <2>3. resolved = [integrations[i].exceptions EXCEPT
            ![k] = [integrations[i].exceptions[k] EXCEPT !.resolved = TRUE]]
    BY <1>0, <2>1
  <2> QED
    BY <1>0, <2>1, <2>2, <2>3, ExceptSeq
<1> HIDE DEF resolved
<1>2. /\ Proper(new) /\ SameTerms(integrations[i], new)
      /\ new.status = integrations[i].status /\ new.archive = integrations[i].archive
      /\ Bare(new) = Bare(integrations[i])
  BY <1>0, <1>1, RecordUpdates
<1>3. integrations' = [integrations EXCEPT ![i] = new] /\ SameButIntegrations /\ CommandsRun
  BY DEF ResolveException, resolved
<1> HIDE DEF new
<1>4. Typed' /\ Rewrites(i, integrations'[i]) /\ integrations'[i] = new
  BY <1>2, <1>3, RecordEffect
<1> QED
  BY <1>2, <1>3, <1>4 DEF RecordStep

\* A step that writes one record and moves cards.
LEMMA SettleEffect ==
    ASSUME Typed, NEW i \in Numbers, NEW new, Proper(new), SameTerms(integrations[i], new),
           integrations' = [integrations EXCEPT ![i] = new],
           NEW cards, NEW to \in L!CardStates, CardsTo(cards, to),
           UNCHANGED <<scenario, cycle, policy, failures, unrecorded, stuck>>,
           authority' \in Seq(Nat)
    PROVE  /\ Typed' /\ Rewrites(i, integrations'[i]) /\ integrations'[i] = new
           /\ MoveTogether(cards, to)
<1>1. Rewrites(i, new) /\ Rewrites(i, integrations'[i]) /\ integrations'[i] = new
  BY RewriteTyped DEF Rewrites
<1>2. integrations' \in Seq(IntegrationRecord) /\ (\A j \in Numbers : Proper(integrations[j]))'
  BY RewriteTyped
<1>3. Numbers' = Numbers
  BY <1>1 DEF Rewrites
<1>4. MoveTogether(cards, to) /\ card' \in [scenario'.cards -> CardRecord]
  BY CardsToEffect
<1>5. Typed'
  BY <1>2, <1>3, <1>4 DEF Typed
<1> QED
  BY <1>1, <1>4, <1>5

\* Accepting moves the record and its cards.
LEMMA AcceptEffect ==
    ASSUME Typed, NEW i \in Numbers, NEW actor, Accept(i, actor)
    PROVE  Typed' /\ AcceptStep(i)
<1> DEFINE new == [BuildAcceptance(integrations[i], "accepted") EXCEPT !.status = "accepted"]
<1>1. /\ Proper(new) /\ SameTerms(integrations[i], new)
      /\ new.status = "accepted" /\ new.archive = integrations[i].archive
  <2>1. Proper(integrations[i]) /\ policy \in Nat
    BY PipelineAssumption DEF Typed
  <2> QED
    BY <2>1, DecisionUpdates
<1>2. /\ integrations' = [integrations EXCEPT ![i] = new]
      /\ CardsTo(MembersOf(i), "accepted")
      /\ UNCHANGED <<scenario, authority, cycle, policy, failures, unrecorded, stuck>>
      /\ CommandsRun /\ WithinBudget(integrations[i].cycle)
      /\ integrations[i].status = "reviewed"
  BY DEF Accept, MayAccept, Advancing, RequireReviewed
<1>3. ASSUME NEW c \in MembersOf(i)
      PROVE  card[c].state = "integrating"
  <2>1. c \in scenario.cards
    BY DEF Typed, Proper, CardsOf, MembersOf
  <2>2. card[c].state \in L!CardStates
    BY <2>1 DEF Typed, CardRecord
  <2> QED
    BY <2>2, MovesKnown DEF Accept
<1> HIDE DEF new
<1>4. /\ Typed' /\ Rewrites(i, integrations'[i]) /\ integrations'[i] = new
      /\ MoveTogether(MembersOf(i), "accepted")
  <2>1. authority' \in Seq(Nat) /\ "accepted" \in L!CardStates
    BY <1>2, CardStatesKnown DEF Typed
  <2> QED
    BY <1>1, <1>2, <2>1, SettleEffect
<1> QED
  BY <1>1, <1>2, <1>3, <1>4 DEF AcceptStep, SettleStep

\* Promoting publishes, and settles or breaks off.
LEMMA PromoteEffect ==
    ASSUME Typed, NEW i \in Numbers, NEW actor, Promote(i, actor)
    PROVE  Typed' /\ (PromoteStep(i) \/ BreakStep(i))
<1>1. /\ CommandsRun /\ WithinBudget(integrations[i].cycle)
      /\ integrations[i].status = "accepted" /\ Fresh(i)
      /\ authority' = Append(authority, i)
      /\ UNCHANGED <<scenario, cycle, policy, failures, unrecorded>>
  BY DEF Promote, CheckPromotion, Advancing, Publish
<1>2. authority' \in Seq(Nat)
  <2>1. i \in Nat
    BY TypedRecords
  <2> QED
    BY <1>1, <2>1, AppendProperties DEF Typed
<1>3. CASE /\ Settles(i)
           /\ integrations' = [integrations EXCEPT ![i].status = "promoted"]
           /\ CardsTo(MembersOf(i), "landed")
           /\ UNCHANGED stuck
  <2> DEFINE new == [integrations[i] EXCEPT !.status = "promoted"]
  <2>1. /\ Proper(new) /\ SameTerms(integrations[i], new)
        /\ new.status = "promoted" /\ new.archive = integrations[i].archive
    <3>1. Proper(integrations[i]) /\ "promoted" \in Statuses
      BY DEF Typed, Statuses
    <3> QED
      BY <3>1, RecordUpdates
  <2>2. integrations' = [integrations EXCEPT ![i] = new]
    BY <1>3
  <2> HIDE DEF new
  <2>3. /\ Typed' /\ Rewrites(i, integrations'[i]) /\ integrations'[i] = new
        /\ MoveTogether(MembersOf(i), "landed")
    <3>1. "landed" \in L!CardStates
      BY CardStatesKnown
    <3> QED
      BY <1>1, <1>2, <1>3, <2>1, <2>2, <3>1, SettleEffect
  <2> QED
    BY <1>1, <1>3, <2>1, <2>3 DEF PromoteStep, SettleStep, Settles
<1>4. CASE /\ ~Settles(i)
           /\ stuck' = i
           /\ UNCHANGED <<card, integrations>>
  <2>1. Typed'
    BY <1>1, <1>2, <1>4 DEF Typed, Numbers, Proper, CardsOf
  <2> QED
    BY <1>1, <1>4, <2>1 DEF BreakStep
<1> QED
  BY <1>3, <1>4 DEF Promote

\* Abandoning moves the record and returns its cards.
LEMMA AbandonEffect ==
    ASSUME Typed, NEW i \in Numbers, Abandon(i)
    PROVE  Typed' /\ AbandonStep(i)
<1> DEFINE new == [integrations[i] EXCEPT !.status = "abandoned"]
           cards == {c \in MembersOf(i) : card[c].state = "integrating"}
<1>1. /\ Proper(new) /\ SameTerms(integrations[i], new)
      /\ new.status = "abandoned" /\ new.archive = integrations[i].archive
  <2>1. Proper(integrations[i]) /\ "abandoned" \in Statuses
    BY DEF Typed, Statuses
  <2> QED
    BY <2>1, RecordUpdates
<1>2. /\ integrations' = [integrations EXCEPT ![i] = new]
      /\ CardsTo(cards, "approved")
      /\ UNCHANGED <<scenario, authority, cycle, policy, failures, unrecorded, stuck>>
      /\ CommandsRun
      /\ integrations[i].status \in Undecided \cup {"accepted", "blocked"}
  <2>1. integrations[i].status \in Statuses
    BY TypedRecords DEF IntegrationRecord
  <2> QED
    BY <2>1, StatusMovesKnown DEF Abandon, Moves, Undecided
<1> HIDE DEF new
<1>3. /\ Typed' /\ Rewrites(i, integrations'[i]) /\ integrations'[i] = new
      /\ MoveTogether(cards, "approved")
  <2>1. authority' \in Seq(Nat) /\ "approved" \in L!CardStates
    BY <1>2, CardStatesKnown DEF Typed
  <2> QED
    BY <1>1, <1>2, <2>1, SettleEffect
<1> QED
  BY <1>1, <1>2, <1>3 DEF AbandonStep, SettleStep

\* Closing ends the record and its cards, or breaks off.
LEMMA CloseEffect ==
    ASSUME Typed, NEW i \in Numbers, NEW found \in Checkouts(i), Close(i, found)
    PROVE  Typed' /\ (CloseStep(i) \/ BreakStep(i))
<1>1. /\ CommandsRun /\ ArchiveIntact(i)
      /\ integrations[i].status = "promoted"
      /\ UNCHANGED <<scenario, authority, cycle, policy, failures, unrecorded>>
  <2>1. integrations[i].status \in Statuses
    BY TypedRecords DEF IntegrationRecord
  <2> QED
    BY <2>1, StatusMovesKnown DEF Close, Moves
<1>2. CASE /\ \A c \in MembersOf(i) : CleanUpCard(c, found)
           /\ integrations' = [integrations EXCEPT ![i].status = "archived"]
           /\ CardsTo(MembersOf(i), "closed")
           /\ UNCHANGED stuck
  <2> DEFINE new == [integrations[i] EXCEPT !.status = "archived"]
  <2>1. /\ Proper(new) /\ SameTerms(integrations[i], new)
        /\ new.status = "archived" /\ new.archive = integrations[i].archive
    <3>1. Proper(integrations[i]) /\ "archived" \in Statuses
      BY DEF Typed, Statuses
    <3> QED
      BY <3>1, RecordUpdates
  <2>2. integrations' = [integrations EXCEPT ![i] = new]
    BY <1>2
  <2> HIDE DEF new
  <2>3. /\ Typed' /\ Rewrites(i, integrations'[i]) /\ integrations'[i] = new
        /\ MoveTogether(MembersOf(i), "closed")
    <3>1. "closed" \in L!CardStates /\ authority' \in Seq(Nat)
      BY <1>1, CardStatesKnown DEF Typed
    <3> QED
      BY <1>1, <1>2, <2>1, <2>2, <3>1, SettleEffect
  <2>4. ASSUME NEW c \in MembersOf(i)
        PROVE  UnarchivedCommits(c) = {} /\ card[c].state = "landed"
    <3>1. c \in scenario.cards
      BY DEF Typed, Proper, CardsOf, MembersOf
    <3>2. card[c].state \in L!CardStates
      BY <3>1 DEF Typed, CardRecord
    <3> QED
      BY <1>2, <3>2, MovesKnown DEF CleanUpCard, SafeToCleanUp
  <2> QED
    BY <1>1, <1>2, <2>1, <2>3, <2>4 DEF CloseStep, SettleStep
<1>3. CASE /\ \E c \in MembersOf(i) : ~CleanUpCard(c, found)
           /\ stuck' = i
           /\ UNCHANGED <<card, integrations>>
  <2>1. Typed'
    BY <1>1, <1>3 DEF Typed, Numbers, Proper, CardsOf
  <2> QED
    BY <1>1, <1>3, <2>1 DEF BreakStep
<1> QED
  BY <1>2, <1>3 DEF Close

\* A record with another archive.
LEMMA ArchiveUpdate ==
    ASSUME NEW r, Proper(r), NEW kept \in SUBSET (Nat \X Nat)
    PROVE  LET s == [r EXCEPT !.archive = kept]
           IN  /\ Proper(s) /\ SameTerms(r, s) /\ s.status = r.status
               /\ s.archive = kept /\ Bare(s) = Bare(r)
  BY DEF Proper, IntegrationRecord, SameTerms, Bare

\* Archiving keeps the refs of one record.
LEMMA ArchiveEffect ==
    ASSUME Typed, NEW i \in Numbers, ArchiveCreate(i)
    PROVE  Typed' /\ ArchiveStep(i)
<1> DEFINE refs == RefsFor(i)
           new == [integrations[i] EXCEPT !.archive = refs]
<1>0. Proper(integrations[i])
  BY DEF Typed
<1>1. refs \in SUBSET (Nat \X Nat)
  <2>1. i \in Nat
    BY TypedRecords
  <2>2. ASSUME NEW c \in MembersOf(i)
        PROVE  c \in Nat /\ integrations[i].candidate[c] \in Nat
    <3>1. c \in scenario.cards /\ c \in Cards
      BY <1>0, PipelineAssumption DEF Typed, Proper, CardsOf, MembersOf
    <3> QED
      BY <1>0, <3>1, PipelineAssumption DEF Proper, MembersOf
  <2> QED
    BY <2>1, <2>2 DEF RefsFor
<1> HIDE DEF refs
<1>2. /\ Proper(new) /\ SameTerms(integrations[i], new)
      /\ new.status = integrations[i].status /\ new.archive = refs
      /\ Bare(new) = Bare(integrations[i])
  BY <1>0, <1>1, ArchiveUpdate
<1>3. /\ integrations' = [integrations EXCEPT ![i] = new] /\ SameButIntegrations
      /\ CommandsRun /\ integrations[i].status = "promoted"
  BY DEF ArchiveCreate, RequirePromoted, refs
<1> HIDE DEF new
<1>4. Typed' /\ Rewrites(i, integrations'[i]) /\ integrations'[i] = new
  BY <1>2, <1>3, RecordEffect
<1> QED
  BY <1>2, <1>3, <1>4 DEF ArchiveStep, refs

\* Preparing adds a record of the selected cards in order.
LEMMA PrepareEffect ==
    ASSUME Typed, NEW y \in Cycles, NEW requested \in SUBSET CardsOf(y), Prepare(y, requested)
    PROVE  Typed' /\ PrepareStep(y, requested)
<1> DEFINE selected == Select(y, requested)
           record == BuildRecord(y, selected)
           new == Len(integrations) + 1
<1>1. selected \in SUBSET CardsOf(y)
  BY DEF Select, ReadyCards
<1>2. selected \in SUBSET Cards /\ selected \in SUBSET Nat /\ IsFiniteSet(selected)
  <2>1. selected \in SUBSET Cards
    BY <1>1, PipelineAssumption DEF Typed, CardsOf
  <2> QED
    BY <2>1, PipelineAssumption, FS_Subset
<1>3. /\ RespectsOrder(record.members, selected, DependsOn)
      /\ ToSet(record.members) = selected
  <2>1. Orders(selected, DependsOn)
    BY DEF Prepare, BuildPlan
  <2> HIDE DEF selected
  <2>2. record.members = TopologicalOrder(selected, DependsOn)
    BY DEF BuildRecord
  <2> QED
    BY <1>2, <2>1, <2>2, OrderOfSelection
<1> HIDE DEF selected
<1>4. Proper(record)
  <2>1. record.members \in Seq(Cards)
    BY <1>2, <1>3, SeqMonotonic DEF RespectsOrder
  <2>2. record.candidate \in [selected -> Nat] /\ record.candidate \in Candidates
    <3>1. record.candidate = [c \in selected |-> card[c].candidate]
      BY DEF BuildRecord
    <3>2. \A c \in selected : card[c].candidate \in Nat
      BY <1>1 DEF Typed, CardRecord, CardsOf
    <3>3. record.candidate \in [selected -> Nat]
      BY <3>1, <3>2
    <3> QED
      BY <1>2, <3>3 DEF Candidates
  <2>3. cycle[y] \in CycleRecord /\ authority \in Seq(Nat) /\ <<>> \in Seq(ExceptionRecord)
    BY EmptySeq DEF Typed
  <2>4. ResolveFinalMode(y) \in BOOLEAN
    BY DEF ResolveFinalMode
  <2>5. record \in IntegrationRecord
    BY <2>1, <2>2, <2>3, <2>4 DEF BuildRecord, IntegrationRecord, Statuses
  <2>6. record.cycle = y
    BY DEF BuildRecord
  <2> QED
    BY <1>1, <1>3, <2>2, <2>5, <2>6 DEF Proper
<1>5. /\ CommandsRun /\ WithinBudget(y) /\ BuildPlan(y, requested)
      /\ integrations' = Append(integrations, record)
      /\ CardsTo(selected, "integrating")
      /\ UNCHANGED <<scenario, authority, cycle, policy, failures, unrecorded, stuck>>
  BY DEF Prepare, selected
<1> HIDE DEF record
<1>6. /\ integrations' \in Seq(IntegrationRecord)
      /\ Numbers' = Numbers \cup {new} /\ new \notin Numbers
      /\ \A i \in Numbers : integrations'[i] = integrations[i]
      /\ integrations'[new] = record
  <2>1. /\ integrations \in Seq(IntegrationRecord) /\ record \in IntegrationRecord
        /\ Len(integrations) \in Nat /\ Numbers = 1 .. Len(integrations)
    BY <1>4, TypedRecords DEF Typed, Proper
  <2>2. /\ integrations' \in Seq(IntegrationRecord)
        /\ Len(integrations') = Len(integrations) + 1
        /\ \A i \in 1 .. Len(integrations) : integrations'[i] = integrations[i]
        /\ integrations'[Len(integrations) + 1] = record
    BY <1>5, <2>1, AppendProperties
  <2>3. Numbers' = 1 .. Len(integrations) + 1
    BY <2>2, LenProperties DEF Numbers
  <2> QED
    BY <2>1, <2>2, <2>3
<1>7. MoveTogether(selected, "integrating") /\ card' \in [scenario'.cards -> CardRecord]
  <2>1. "integrating" \in L!CardStates
    BY CardStatesKnown
  <2> QED
    BY <1>5, <2>1, CardsToEffect
<1>8. Typed'
  <2>1. \A i \in Numbers' : Proper(integrations'[i])
    BY <1>4, <1>6 DEF Typed
  <2>2. (\A i \in Numbers : Proper(integrations[i]))'
    BY <1>5, <2>1 DEF Proper, CardsOf
  <2> QED
    BY <1>5, <1>6, <1>7, <2>2 DEF Typed
<1> QED
  BY <1>1, <1>3, <1>4, <1>5, <1>6, <1>7, <1>8 DEF PrepareStep, Proper, record, selected

\* Every step is one of these.
AnyStep ==
    \/ \E c \in scenario.cards : CardStep(c)
    \/ \E y \in Cycles : CycleStep(y)
    \/ CountStep
    \/ PushStep
    \/ \E y \in Cycles : \E requested \in SUBSET CardsOf(y) : PrepareStep(y, requested)
    \/ \E i \in Numbers :
        \/ RecordStep(i)
        \/ AcceptStep(i)
        \/ PromoteStep(i)
        \/ AbandonStep(i)
        \/ ArchiveStep(i)
        \/ CloseStep(i)
        \/ BreakStep(i)

\* Every action is a step of one of these kinds and keeps the types.
LEMMA EveryStep ==
    ASSUME Typed, [Next]_vars
    PROVE  Typed' /\ AnyStep
<1>1. scenario \in Scenarios /\ scenario.actors \subseteq Actors
  BY PipelineAssumption DEF Typed
<1>2. ASSUME NEW c \in scenario.cards, Commit(c) \/ Resume(c) \/ Deliver(c) \/ AbandonCard(c)
      PROVE  Typed' /\ AnyStep
  BY <1>2, CommitEffect, ResumeEffect, DeliverEffect, AbandonCardEffect DEF AnyStep
<1>3. ASSUME NEW y \in Cycles, SealCycle(y) \/ AbandonCycle(y)
      PROVE  Typed' /\ AnyStep
  BY <1>3, MoveCycleEffect DEF AnyStep, SealCycle, AbandonCycle
<1>4. ASSUME NEW y \in Cycles, NEW group \in Groups, DeclareGroup(y, group)
      PROVE  Typed' /\ AnyStep
  BY <1>4, DeclareGroupEffect DEF AnyStep
<1>5. ASSUME NEW y \in Cycles, NEW requested \in SUBSET CardsOf(y), Prepare(y, requested)
      PROVE  Typed' /\ AnyStep
  BY <1>5, PrepareEffect DEF AnyStep
<1>6. ASSUME NEW i \in Numbers, Merge(i) \/ Land(i) \/ RaiseException(i)
      PROVE  Typed' /\ AnyStep
  BY <1>6, MergeEffect, LandEffect, RaiseEffect DEF AnyStep
<1>7. ASSUME NEW i \in Numbers,
             MergeConflicts(i) \/ RecordIntegrationFailure(i) \/ LoseIntegrationFailure(i)
      PROVE  Typed' /\ AnyStep
  BY <1>7, FailureEffects DEF AnyStep
<1>8. ASSUME NEW i \in Numbers,
             \/ Abandon(i) \/ ArchiveCreate(i)
             \/ \E found \in Checkouts(i) : Close(i, found)
      PROVE  Typed' /\ AnyStep
  BY <1>8, AbandonEffect, ArchiveEffect, CloseEffect DEF AnyStep
<1>9. ASSUME NEW i \in Numbers, NEW actor \in scenario.actors, NEW passed \in BOOLEAN,
             Verify(i, actor, passed)
      PROVE  Typed' /\ AnyStep
  BY <1>1, <1>9, VerifyEffect DEF AnyStep
<1>10. ASSUME NEW i \in Numbers, NEW actor, Review(i, actor) \/ Reject(i, actor)
       PROVE  Typed' /\ AnyStep
  BY <1>10, ReviewEffect, RejectEffect DEF AnyStep
<1>11. ASSUME NEW i \in Numbers, NEW actor, Accept(i, actor) \/ Promote(i, actor)
       PROVE  Typed' /\ AnyStep
  BY <1>11, AcceptEffect, PromoteEffect DEF AnyStep
<1>12. ASSUME NEW i \in Numbers, NEW actor, NEW k \in DOMAIN integrations[i].exceptions,
              ResolveException(i, k, actor)
       PROVE  Typed' /\ AnyStep
  BY <1>12, ResolveEffect DEF AnyStep
<1>13. ASSUME SetFinalAuthorizationPolicy \/ Rebaseline \/ ForeignPush
       PROVE  Typed' /\ AnyStep
  BY <1>13, PolicyEffect, RebaselineEffect, ForeignPushEffect DEF AnyStep
<1>14. CASE UNCHANGED vars
  <2>1. Typed'
    BY <1>14 DEF vars, recordVars, Typed, Numbers, Proper, CardsOf
  <2> QED
    BY <1>14, <2>1 DEF vars, recordVars, AnyStep, CountStep
<1> QED
  BY <1>2, <1>3, <1>4, <1>5, <1>6, <1>7, <1>8, <1>9, <1>10, <1>11, <1>12, <1>13, <1>14
     DEF Next

\* The initial states have the types.
LEMMA InitTyped == Init => Typed
<1> SUFFICES ASSUME Init
             PROVE  Typed
  OBVIOUS
<1>1. authority \in Seq(Nat) /\ integrations \in Seq(IntegrationRecord) /\ Numbers = {}
  BY EmptySeq DEF Init, Numbers
<1>2. card \in [scenario.cards -> CardRecord] /\ cycle \in [Cycles -> CycleRecord]
  BY CardStatesKnown DEF Init, CardRecord, CycleRecord
<1>3. policy \in 0 .. scenario.policies
  BY PipelineAssumption DEF Init
<1> QED
  BY <1>1, <1>2, <1>3 DEF Init, Typed

\* The types imply the type invariant of the module.
LEMMA TypedIsTypeOK == Typed => TypeOK
<1> SUFFICES ASSUME Typed
             PROVE  TypeOK
  OBVIOUS
<1>1. ASSUME NEW i \in Numbers
      PROVE  /\ IsIntegrationRecord(integrations[i])
             /\ MembersOf(i) \subseteq CardsOf(integrations[i].cycle)
  <2>1. Proper(integrations[i])
    BY DEF Typed
  <2> QED
    BY <2>1 DEF Proper, IntegrationRecord, IsIntegrationRecord, MembersOf, ExceptionRecord
<1> QED
  BY <1>1 DEF Typed, TypeOK, CardRecord, CycleRecord

\* The cards and integrations are always of the types the records declare.
THEOREM TypeCorrect == Spec => []TypeOK
<1>1. Typed /\ [Next]_vars => Typed'
  BY EveryStep
<1> QED
  BY <1>1, InitTyped, TypedIsTypeOK, PTL DEF Spec

(***************************************************************************)
(* What no step undoes.                                                    *)
(***************************************************************************)

\* A branch with one commit more.
LEMMA Extended ==
    ASSUME NEW s \in Seq(Nat), NEW e \in Nat
    PROVE  /\ Len(Append(s, e)) = Len(s) + 1 /\ Len(s) \in Nat
           /\ DOMAIN Append(s, e) = 1 .. Len(s) + 1 /\ DOMAIN s = 1 .. Len(s)
           /\ \A k \in DOMAIN s : Append(s, e)[k] = s[k]
           /\ Append(s, e)[Len(s) + 1] = e
           /\ ToSet(Append(s, e)) = ToSet(s) \cup {e}
           /\ \A k \in 1 .. Len(s) + 1 : SubSeq(Append(s, e), 1, k - 1) = SubSeq(s, 1, k - 1)
           /\ SubSeq(s, 1, Len(s)) = s
<1> DEFINE t == Append(s, e)
<1>1. /\ t \in Seq(Nat) /\ Len(t) = Len(s) + 1 /\ Len(s) \in Nat
      /\ DOMAIN t = 1 .. Len(s) + 1 /\ DOMAIN s = 1 .. Len(s)
      /\ \A k \in 1 .. Len(s) : t[k] = s[k]
      /\ t[Len(s) + 1] = e
  BY AppendProperties, LenProperties
<1>2. ToSet(t) = ToSet(s) \cup {e}
  BY ToSetOf
<1> HIDE DEF t
<1>3. ASSUME NEW k \in 1 .. Len(s) + 1
      PROVE  SubSeq(t, 1, k - 1) = SubSeq(s, 1, k - 1)
  <2>1. k - 1 \in Int /\ 1 \in Int /\ k - 1 \in 0 .. Len(s)
    BY <1>1
  <2>2. \A m \in 1 .. k - 1 : s[m] \in Nat /\ t[m] \in Nat /\ t[m] = s[m]
    <3>1. \A m \in 1 .. Len(s) : s[m] \in Nat
      BY ElementOfSeq
    <3>2. \A m \in 1 .. k - 1 : m \in 1 .. Len(s)
      BY <1>1, <2>1
    <3> QED
      BY <1>1, <3>1, <3>2
  <2>3. /\ SubSeq(s, 1, k - 1) \in Seq(Nat)
        /\ Len(SubSeq(s, 1, k - 1)) = k - 1
        /\ \A m \in 1 .. k - 1 : SubSeq(s, 1, k - 1)[m] = s[m]
    BY <2>1, <2>2, SubSeqProperties
  <2>4. /\ SubSeq(t, 1, k - 1) \in Seq(Nat)
        /\ Len(SubSeq(t, 1, k - 1)) = k - 1
        /\ \A m \in 1 .. k - 1 : SubSeq(t, 1, k - 1)[m] = t[m]
    BY <2>1, <2>2, SubSeqProperties
  <2> QED
    BY <2>2, <2>3, <2>4, SeqEqual
<1>4. SubSeq(s, 1, Len(s)) = s
  BY SubSeqFull
<1> QED
  BY <1>1, <1>2, <1>3, <1>4 DEF t

\* How the status of an integration may change.
StatusMoves(from, to) ==
    \/ to = from
    \/ from \in Undecided /\ to \in Undecided
    \/ from = "reviewed" /\ to = "accepted"
    \/ from = "accepted" /\ to = "promoted"
    \/ from = "promoted" /\ to = "archived"
    \/ from \in Undecided \cup {"accepted", "blocked"} /\ to = "abandoned"

\* A branch only grows; an approved candidate stays until the card is delivered
\* anew; an abandoned card stays abandoned.
CardHolds(c) ==
    /\ card'[c].head >= card[c].head
    /\ card[c].state # "active" => card'[c].candidate = card[c].candidate
    /\ card[c].state = "abandoned" => card'[c].state = "abandoned"

\* What every step leaves as it was.
LEMMA Steady ==
    ASSUME Typed, AnyStep
    PROVE  /\ scenario' = scenario
           /\ Numbers \subseteq Numbers'
           /\ \A i \in Numbers :
                /\ SameTerms(integrations[i], integrations'[i])
                /\ StatusMoves(integrations[i].status, integrations'[i].status)
           /\ \A c \in scenario.cards : CardHolds(c)
           /\ \/ authority' = authority
              \/ PushStep
              \/ \E i \in Numbers : /\ authority' = Append(authority, i) /\ Fresh(i)
                                    /\ PromoteStep(i) \/ BreakStep(i)
<1> DEFINE Same == /\ Numbers \subseteq Numbers'
                   /\ \A i \in Numbers :
                        /\ SameTerms(integrations[i], integrations'[i])
                        /\ StatusMoves(integrations[i].status, integrations'[i].status)
           Cards1 == \A c \in scenario.cards : CardHolds(c)
<1>0. \A c \in scenario.cards : card[c].head \in Nat /\ card[c].candidate \in Nat
  BY DEF Typed, CardRecord
<1>1. ASSUME NEW c \in scenario.cards, CardStep(c)
      PROVE  Cards1
  BY <1>0, <1>1 DEF CardStep, CardHolds
<1>2. ASSUME NEW cards, NEW to, MoveTogether(cards, to),
             \A c \in cards : card[c].state # "abandoned"
      PROVE  Cards1
  BY <1>0, <1>2 DEF MoveTogether, CardHolds
<1>3. ASSUME UNCHANGED card
      PROVE  Cards1
  BY <1>0, <1>3 DEF CardHolds
<1>4. ASSUME UNCHANGED integrations
      PROVE  Same
  BY <1>4 DEF SameTerms, StatusMoves, Numbers
<1>5. ASSUME NEW i \in Numbers, Rewrites(i, integrations'[i]),
             SameTerms(integrations[i], integrations'[i]),
             StatusMoves(integrations[i].status, integrations'[i].status)
      PROVE  Same
  BY <1>5 DEF Rewrites, SameTerms, StatusMoves
<1> HIDE DEF Same, Cards1
<1>6. CASE \E c \in scenario.cards : CardStep(c)
  <2>1. UNCHANGED <<scenario, authority, integrations>>
    BY <1>6 DEF CardStep
  <2> QED
    BY <1>1, <1>4, <1>6, <2>1 DEF Same, Cards1
<1>7. CASE (\E y \in Cycles : CycleStep(y)) \/ CountStep
  <2>1. UNCHANGED <<scenario, authority, card, integrations>>
    BY <1>7 DEF CycleStep, CountStep
  <2> QED
    BY <1>3, <1>4, <2>1 DEF Same, Cards1
<1>8. CASE PushStep
  <2>1. UNCHANGED <<scenario, card, integrations>>
    BY <1>8 DEF PushStep, recordVars
  <2> QED
    BY <1>3, <1>4, <1>8, <2>1 DEF Same, Cards1
<1>9. ASSUME NEW y \in Cycles, NEW requested \in SUBSET CardsOf(y), PrepareStep(y, requested)
      PROVE  Same /\ Cards1 /\ UNCHANGED <<scenario, authority>>
  <2>1. Same
    BY <1>9 DEF PrepareStep, Same, SameTerms, StatusMoves
  <2>2. \A c \in Select(y, requested) : card[c].state # "abandoned"
    BY <1>9 DEF PrepareStep, BuildPlan, Ready
  <2>3. Cards1
    BY <1>2, <1>9, <2>2 DEF PrepareStep
  <2> QED
    BY <1>9, <2>1, <2>3 DEF PrepareStep
<1>10. ASSUME NEW i \in Numbers, RecordStep(i) \/ ArchiveStep(i)
       PROVE  Same /\ Cards1 /\ UNCHANGED <<scenario, authority>>
  <2>1. StatusMoves(integrations[i].status, integrations'[i].status)
    BY <1>10 DEF RecordStep, ArchiveStep, StatusMoves
  <2>2. Same
    BY <1>5, <1>10, <2>1 DEF RecordStep, ArchiveStep
  <2> QED
    BY <1>3, <1>10, <2>2 DEF RecordStep, ArchiveStep, SameButIntegrations
<1>11. ASSUME NEW i \in Numbers, AcceptStep(i) \/ AbandonStep(i) \/ CloseStep(i)
       PROVE  Same /\ Cards1 /\ UNCHANGED <<scenario, authority>>
  <2>1. StatusMoves(integrations[i].status, integrations'[i].status)
    BY <1>11 DEF AcceptStep, AbandonStep, CloseStep, SettleStep, StatusMoves
  <2>2. Same
    BY <1>5, <1>11, <2>1 DEF AcceptStep, AbandonStep, CloseStep, SettleStep
  <2>3. ASSUME AcceptStep(i)
        PROVE  Cards1
    <3>1. MoveTogether(MembersOf(i), "accepted")
      BY <2>3 DEF AcceptStep, SettleStep
    <3>2. \A c \in MembersOf(i) : card[c].state # "abandoned"
      BY <2>3 DEF AcceptStep
    <3> QED
      BY <1>2, <3>1, <3>2
  <2>4. ASSUME AbandonStep(i)
        PROVE  Cards1
    <3>1. MoveTogether({c \in MembersOf(i) : card[c].state = "integrating"}, "approved")
      BY <2>4 DEF AbandonStep, SettleStep
    <3>2. \A c \in {c \in MembersOf(i) : card[c].state = "integrating"} :
            card[c].state # "abandoned"
      BY <2>4 DEF AbandonStep
    <3> QED
      BY <1>2, <3>1, <3>2
  <2>5. ASSUME CloseStep(i)
        PROVE  Cards1
    <3>1. MoveTogether(MembersOf(i), "closed")
      BY <2>5 DEF CloseStep, SettleStep
    <3>2. \A c \in MembersOf(i) : card[c].state # "abandoned"
      BY <2>5 DEF CloseStep
    <3> QED
      BY <1>2, <3>1, <3>2
  <2>6. UNCHANGED <<scenario, authority>>
    BY <1>11 DEF AcceptStep, AbandonStep, CloseStep, SettleStep
  <2> QED
    BY <1>11, <2>2, <2>3, <2>4, <2>5, <2>6
<1>12. ASSUME NEW i \in Numbers, PromoteStep(i)
       PROVE  /\ Same /\ Cards1 /\ UNCHANGED scenario
              /\ authority' = Append(authority, i) /\ Fresh(i)
  <2>1. StatusMoves(integrations[i].status, integrations'[i].status)
    BY <1>12 DEF PromoteStep, SettleStep, StatusMoves
  <2>2. Same
    BY <1>5, <1>12, <2>1 DEF PromoteStep, SettleStep
  <2>3. Cards1
    BY <1>2, <1>12 DEF PromoteStep, SettleStep
  <2> QED
    BY <1>12, <2>2, <2>3 DEF PromoteStep, SettleStep
<1>13. ASSUME NEW i \in Numbers, BreakStep(i)
       PROVE  /\ Same /\ Cards1 /\ UNCHANGED scenario
              /\ \/ authority' = authority
                 \/ authority' = Append(authority, i) /\ Fresh(i)
  <2>1. UNCHANGED <<scenario, card, integrations>>
    BY <1>13 DEF BreakStep
  <2> QED
    BY <1>3, <1>4, <1>13, <2>1 DEF BreakStep
<1> QED
  BY <1>6, <1>7, <1>8, <1>9, <1>10, <1>11, <1>12, <1>13 DEF AnyStep, Same, Cards1

(***************************************************************************)
(* Cards and integrations agree.                                           *)
(***************************************************************************)

\* An integration that was not abandoned.
Stands(i) == integrations[i].status # "abandoned"

\* A card is worked on from the candidate that was approved.
Heads ==
    \A c \in scenario.cards : card[c].candidate >= 1 /\ card[c].candidate <= card[c].head

\* The branch holds the promoted integrations, and one whose promotion broke off.
LandedOnRecord ==
    /\ \A i \in Landed :
        /\ i \in Numbers
        /\ \/ integrations[i].status \in {"promoted", "archived"}
           \/ stuck = i /\ integrations[i].status = "accepted"
    /\ \A i \in Numbers : integrations[i].status \in {"promoted", "archived"} => i \in Landed

\* A card is in one integration at a time.
OneAtATime ==
    \A i, j \in Numbers : i # j /\ Stands(i) /\ Stands(j) => MembersOf(i) \cap MembersOf(j) = {}

\* A member is as far as its integration.
AsFar(i, c) ==
    /\ integrations[i].status \in Undecided => card[c].state \in {"integrating", "abandoned"}
    /\ integrations[i].status = "accepted" => card[c].state \in {"accepted", "abandoned"}
    /\ integrations[i].status = "promoted" => card[c].state = "landed"
    /\ integrations[i].status = "archived" => card[c].state = "closed"

\* Every member is.
MembersAsFar == \A i \in Numbers : \A c \in MembersOf(i) : AsFar(i, c)

\* A card that integrates or landed does so in some integration.
Accounted(c) ==
    /\ card[c].state = "integrating" =>
        \E i \in Numbers : c \in MembersOf(i) /\ integrations[i].status \in Undecided
    /\ card[c].state \in {"landed", "closed"} => \E i \in Landed : c \in MembersOf(i)

\* Every card is accounted for.
CardsAccounted == \A c \in scenario.cards : Accounted(c)

\* What an integration pinned is what is approved, on the branch still.
CandidatesStand ==
   \A i \in Numbers : \A c \in MembersOf(i) :
     /\ Stands(i) => integrations[i].candidate[c] = card[c].candidate
     /\ integrations[i].candidate[c] <= card[c].head

\* Nothing blocks an integration.
NoneBlocked == \A i \in Numbers : integrations[i].status # "blocked"

\* Each card is as far as the integration that holds it.
Following ==
    /\ Heads /\ LandedOnRecord /\ OneAtATime /\ MembersAsFar /\ CardsAccounted
    /\ CandidatesStand /\ NoneBlocked

\* What the types say of a member.
LEMMA Members ==
    ASSUME Typed, NEW i \in Numbers, NEW c \in MembersOf(i)
    PROVE  /\ c \in scenario.cards /\ c \in Cards
           /\ card[c].head \in Nat /\ card[c].candidate \in Nat
           /\ integrations[i].candidate[c] \in Nat
           /\ integrations[i].status \in Statuses
           /\ i \in Nat /\ i # Foreign
<1>1. Proper(integrations[i])
  BY DEF Typed
<1>2. c \in scenario.cards /\ c \in Cards
  BY <1>1, PipelineAssumption DEF Typed, Proper, CardsOf, MembersOf
<1>3. card[c].head \in Nat /\ card[c].candidate \in Nat
  BY <1>2 DEF Typed, CardRecord
<1>4. integrations[i].candidate[c] \in Nat /\ integrations[i].status \in Statuses
  BY <1>1 DEF Proper, MembersOf, IntegrationRecord
<1>5. i \in Nat /\ i # Foreign
  BY TypedRecords DEF Foreign
<1> QED
  BY <1>2, <1>3, <1>4, <1>5

\* What every step leaves of one integration.
LEMMA MembersSteady ==
    ASSUME Typed, AnyStep, NEW i \in Numbers
    PROVE  /\ MembersOf(i)' = MembersOf(i)
           /\ Stands(i)' => Stands(i)
           /\ i \in Numbers'
           /\ SameTerms(integrations[i], integrations'[i])
           /\ StatusMoves(integrations[i].status, integrations'[i].status)
  BY Steady DEF MembersOf, SameTerms, Stands, StatusMoves, Undecided

\* A standing integration's cards are neither ready nor at work.
LEMMA StandingCards ==
    ASSUME Typed, Following, NEW i \in Numbers, Stands(i), NEW c \in MembersOf(i)
    PROVE  card[c].state \in {"integrating", "accepted", "landed", "closed", "abandoned"}
<1>1. integrations[i].status \in Undecided \cup {"accepted", "promoted", "archived"}
  BY Members DEF Following, NoneBlocked, Stands, Statuses, Undecided
<1> QED
  BY <1>1 DEF Following, MembersAsFar, AsFar

\* What the branch holds after a push and after a promotion.
LEMMA Landings ==
    ASSUME Typed
    PROVE  /\ UNCHANGED authority => Landed' = Landed
           /\ PushStep => Landed' = Landed
           /\ \A i \in Numbers : authority' = Append(authority, i) => Landed' = Landed \cup {i}
<1>1. ASSUME NEW e \in Nat, authority' = Append(authority, e)
      PROVE  ToSet(authority') = ToSet(authority) \cup {e}
  BY <1>1, Extended DEF Typed
<1>2. PushStep => ToSet(authority') = ToSet(authority) \cup {0}
  BY <1>1 DEF PushStep, Foreign
<1>3. \A i \in Numbers : i \in Nat /\ i # 0
  BY TypedRecords
<1> QED
  BY <1>1, <1>2, <1>3 DEF Landed, Foreign

\* A landing is a promotion, settled or broken off; nothing moves beyond that.
LEMMA LandingSteps ==
    ASSUME Typed, AnyStep
    PROVE  \/ /\ Landed' = Landed /\ stuck' = stuck
              /\ \A i \in Numbers' : integrations'[i].status \in {"promoted", "archived"} =>
                    i \in Numbers /\ integrations[i].status \in {"promoted", "archived"}
              /\ stuck # 0 => UNCHANGED integrations
           \/ \E i \in Numbers : PromoteStep(i) /\ Landed' = Landed \cup {i}
           \/ \E i \in Numbers : BreakStep(i) /\ Landed' \in {Landed, Landed \cup {i}}
<1> DEFINE Quiet == /\ Landed' = Landed /\ stuck' = stuck
                    /\ \A i \in Numbers' : integrations'[i].status \in {"promoted", "archived"}
                      => i \in Numbers /\ integrations[i].status \in {"promoted", "archived"}
                    /\ stuck # 0 => UNCHANGED integrations
<1>1. ASSUME UNCHANGED <<integrations, stuck>>, Landed' = Landed
      PROVE  Quiet
  BY <1>1 DEF Numbers
<1>2. ASSUME NEW c \in scenario.cards, CardStep(c)
      PROVE  Quiet
  BY <1>1, <1>2, Landings DEF CardStep
<1>3. ASSUME (\E y \in Cycles : CycleStep(y)) \/ CountStep
      PROVE  Quiet
  BY <1>1, <1>3, Landings DEF CycleStep, CountStep
<1>4. ASSUME PushStep
      PROVE  Quiet
  BY <1>1, <1>4, Landings DEF PushStep, recordVars
<1>5. ASSUME NEW y \in Cycles, NEW requested \in SUBSET CardsOf(y), PrepareStep(y, requested)
      PROVE  Quiet
  BY <1>5, Landings DEF PrepareStep, CommandsRun, BuildRecord
<1>6. ASSUME NEW i \in Numbers, RecordStep(i) \/ ArchiveStep(i)
      PROVE  Quiet
  BY <1>6, Landings
     DEF RecordStep, ArchiveStep, Rewrites, SameButIntegrations, CommandsRun, Undecided
<1>7. ASSUME NEW i \in Numbers, AcceptStep(i) \/ AbandonStep(i) \/ CloseStep(i)
      PROVE  Quiet
  BY <1>7, Landings DEF AcceptStep, AbandonStep, CloseStep, SettleStep, Rewrites, CommandsRun
<1>8. ASSUME NEW i \in Numbers, PromoteStep(i)
      PROVE  Landed' = Landed \cup {i}
  BY <1>8, Landings DEF PromoteStep
<1>9. ASSUME NEW i \in Numbers, BreakStep(i)
      PROVE  Landed' \in {Landed, Landed \cup {i}}
  BY <1>9, Landings DEF BreakStep
<1> HIDE DEF Quiet
<1>10. Quiet \/ (\E i \in Numbers : PromoteStep(i) \/ BreakStep(i))
  BY <1>2, <1>3, <1>4, <1>5, <1>6, <1>7 DEF AnyStep
<1> QED
  BY <1>8, <1>9, <1>10 DEF Quiet

\* Only a preparation adds a record.
LEMMA NumbersStep ==
    ASSUME AnyStep
    PROVE  \/ Numbers' = Numbers
           \/ \E y \in Cycles : \E requested \in SUBSET CardsOf(y) : PrepareStep(y, requested)
<1>1. ASSUME UNCHANGED integrations
      PROVE  Numbers' = Numbers
  BY <1>1 DEF Numbers
<1> QED
  BY <1>1 DEF AnyStep, CardStep, CycleStep, CountStep, PushStep, recordVars, RecordStep,
        AcceptStep, PromoteStep, AbandonStep, CloseStep, SettleStep, ArchiveStep, BreakStep,
        Rewrites

\* Every step keeps Heads.
LEMMA HeadsStep ==
    ASSUME Typed, Heads, AnyStep
    PROVE  Heads'
<1>1. scenario' = scenario
  BY Steady
<1>2. ASSUME NEW c \in scenario.cards
      PROVE  card'[c].candidate >= 1 /\ card'[c].candidate <= card'[c].head
  <2>1. /\ card[c].candidate >= 1 /\ card[c].candidate <= card[c].head
        /\ card[c].candidate \in Nat /\ card[c].head \in Nat
    BY DEF Heads, Typed, CardRecord
  <2>2. \/ /\ card'[c].candidate = card[c].candidate
           /\ card'[c].head \in {card[c].head, card[c].head + 1}
        \/ card'[c].candidate = card[c].head /\ card'[c].head = card[c].head
    <3>1. CASE \E d \in scenario.cards : CardStep(d)
      BY <3>1 DEF CardStep
    <3>2. CASE UNCHANGED card
      BY <3>2
    <3>3. CASE \E cards, to : MoveTogether(cards, to)
      BY <3>3 DEF MoveTogether
    <3> QED
      BY <3>1, <3>2, <3>3 DEF AnyStep, CycleStep, CountStep, PushStep, recordVars, PrepareStep,
            RecordStep, SameButIntegrations, AcceptStep, PromoteStep, AbandonStep, CloseStep,
            SettleStep, BreakStep, ArchiveStep
  <2> QED
    BY <2>1, <2>2
<1> QED
  BY <1>1, <1>2 DEF Heads

\* Every step keeps LandedOnRecord.
LEMMA LandedOnRecordStep ==
    ASSUME Typed, Following, AnyStep
    PROVE  LandedOnRecord'
<1>1. LandedOnRecord
  BY DEF Following
<1>2. \A i \in Numbers : i \in Numbers' /\ i # 0
                         /\ StatusMoves(integrations[i].status, integrations'[i].status)
  BY MembersSteady, TypedRecords
<1>3. CASE /\ Landed' = Landed /\ stuck' = stuck
           /\ \A i \in Numbers' : integrations'[i].status \in {"promoted", "archived"} =>
                    i \in Numbers /\ integrations[i].status \in {"promoted", "archived"}
           /\ stuck # 0 => UNCHANGED integrations
  <2>1. ASSUME NEW i \in Landed
        PROVE  /\ i \in Numbers'
               /\ \/ integrations'[i].status \in {"promoted", "archived"}
                  \/ stuck' = i /\ integrations'[i].status = "accepted"
    BY <1>1, <1>2, <1>3 DEF LandedOnRecord, StatusMoves, Undecided
  <2> QED
    BY <1>1, <1>3, <2>1 DEF LandedOnRecord
<1>4. ASSUME NEW i \in Numbers, PromoteStep(i), Landed' = Landed \cup {i}
      PROVE  LandedOnRecord'
  <2>1. /\ stuck = 0 /\ Numbers' = Numbers /\ integrations'[i].status = "promoted"
        /\ \A j \in Numbers : j # i => integrations'[j] = integrations[j]
    BY <1>4 DEF PromoteStep, SettleStep, Rewrites, CommandsRun
  <2> QED
    BY <1>1, <1>2, <1>4, <2>1 DEF LandedOnRecord
<1>5. ASSUME NEW i \in Numbers, BreakStep(i), Landed' \in {Landed, Landed \cup {i}}
      PROVE  LandedOnRecord'
  <2>1. /\ stuck = 0 /\ stuck' = i /\ integrations' = integrations /\ Numbers' = Numbers
        /\ integrations[i].status \in {"accepted", "promoted"}
    BY <1>5 DEF BreakStep, CommandsRun, Numbers
  <2> QED
    BY <1>1, <1>2, <1>5, <2>1 DEF LandedOnRecord
<1> QED
  BY <1>3, <1>4, <1>5, LandingSteps

\* Every step keeps NoneBlocked.
LEMMA NoneBlockedStep ==
    ASSUME Typed, Following, AnyStep
    PROVE  NoneBlocked'
<1>1. ASSUME NEW i \in Numbers
      PROVE  integrations'[i].status # "blocked"
  BY MembersSteady DEF Following, NoneBlocked, StatusMoves, Undecided
<1>2. CASE Numbers' = Numbers
  BY <1>1, <1>2 DEF NoneBlocked
<1>3. CASE \E y \in Cycles : \E requested \in SUBSET CardsOf(y) : PrepareStep(y, requested)
  BY <1>1, <1>3 DEF PrepareStep, BuildRecord, NoneBlocked
<1> QED
  BY <1>2, <1>3, NumbersStep

\* What a preparation finds and leaves.
LEMMA PrepareFacts ==
    ASSUME Typed, Following, NEW y \in Cycles, NEW requested \in SUBSET CardsOf(y),
           PrepareStep(y, requested), NEW new, new = Len(integrations) + 1
    PROVE  LET selected == Select(y, requested)
           IN  /\ Numbers' = Numbers \cup {new} /\ new \notin Numbers
               /\ MembersOf(new)' = selected
               /\ \A i \in Numbers : /\ integrations'[i] = integrations[i]
                                     /\ MembersOf(i)' = MembersOf(i)
                                     /\ Stands(i) => MembersOf(i) \cap selected = {}
               /\ integrations'[new].status = "prepared"
               /\ \A c \in selected :
                    /\ c \in scenario.cards /\ card[c].state = "approved"
                    /\ card'[c].state = "integrating"
                    /\ integrations'[new].candidate[c] = card[c].candidate
               /\ \A c \in scenario.cards \ selected : card'[c].state = card[c].state
               /\ \A c \in scenario.cards : card'[c].candidate = card[c].candidate
                                            /\ card'[c].head = card[c].head
               /\ UNCHANGED <<scenario, authority, cycle, stuck>>
<1> DEFINE selected == Select(y, requested)
<1>1. /\ Numbers' = Numbers \cup {new} /\ new \notin Numbers
      /\ \A i \in Numbers : integrations'[i] = integrations[i]
      /\ integrations'[new] = BuildRecord(y, selected)
      /\ ToSet(integrations'[new].members) = selected
      /\ selected \subseteq CardsOf(y)
      /\ \A c \in selected : Ready(c)
      /\ MoveTogether(selected, "integrating")
      /\ UNCHANGED <<scenario, authority, cycle, stuck>>
  BY DEF PrepareStep, BuildPlan
<1> HIDE DEF selected
<1>2. ASSUME NEW c \in selected
      PROVE  c \in scenario.cards /\ card[c].state = "approved"
  BY <1>1 DEF Ready, CardsOf
<1>3. ASSUME NEW i \in Numbers, Stands(i)
      PROVE  MembersOf(i) \cap selected = {}
  BY <1>2, <1>3, StandingCards
<1>4. integrations'[new].status = "prepared"
      /\ \A c \in selected : integrations'[new].candidate[c] = card[c].candidate
  BY <1>1 DEF BuildRecord
<1>5. MembersOf(new)' = selected /\ \A i \in Numbers : MembersOf(i)' = MembersOf(i)
  BY <1>1 DEF MembersOf
<1>6. \A c \in scenario.cards :
        /\ card'[c].candidate = card[c].candidate /\ card'[c].head = card[c].head
        /\ card'[c].state = IF c \in selected THEN "integrating" ELSE card[c].state
  BY <1>1 DEF MoveTogether
<1> QED
  BY <1>1, <1>2, <1>3, <1>4, <1>5, <1>6 DEF selected

\* What a step that moves the cards of one integration leaves of the others.
LEMMA SettleFacts ==
    ASSUME Typed, Following, NEW i \in Numbers, Stands(i), NEW status, NEW cards, NEW to,
           cards \subseteq MembersOf(i), SettleStep(i, status, cards, to)
    PROVE  /\ Numbers' = Numbers /\ integrations'[i].status = status
           /\ \A j \in Numbers : /\ MembersOf(j)' = MembersOf(j)
                                 /\ j # i => integrations'[j] = integrations[j]
                                 /\ j # i /\ Stands(j) => \A c \in MembersOf(j) :
                                        card'[c].state = card[c].state
           /\ \A c \in scenario.cards :
                /\ card'[c].state = IF c \in cards THEN to ELSE card[c].state
                /\ card'[c].candidate = card[c].candidate /\ card'[c].head = card[c].head
           /\ UNCHANGED <<scenario, cycle, stuck>>
<1>1. /\ Numbers' = Numbers /\ integrations'[i].status = status
      /\ \A j \in Numbers : j # i => integrations'[j] = integrations[j]
      /\ SameTerms(integrations[i], integrations'[i])
      /\ MoveTogether(cards, to)
      /\ UNCHANGED <<scenario, cycle, stuck>>
  BY DEF SettleStep, Rewrites
<1>2. \A c \in scenario.cards :
        /\ card'[c].state = IF c \in cards THEN to ELSE card[c].state
        /\ card'[c].candidate = card[c].candidate /\ card'[c].head = card[c].head
  BY <1>1 DEF MoveTogether
<1>3. \A j \in Numbers : MembersOf(j)' = MembersOf(j)
  BY <1>1 DEF MembersOf, SameTerms
<1>4. ASSUME NEW j \in Numbers, j # i, Stands(j), NEW c \in MembersOf(j)
      PROVE  card'[c].state = card[c].state
  <2>1. c \in scenario.cards
    BY Members
  <2>2. c \notin cards
    BY <1>4 DEF Following, OneAtATime
  <2> QED
    BY <1>2, <2>1, <2>2
<1> QED
  BY <1>1, <1>2, <1>3, <1>4

\* Each integration after a step is an old one, or the prepared one.
LEMMA OneAtATimeStep ==
    ASSUME Typed, Following, AnyStep
    PROVE  OneAtATime'
<1>1. \A i \in Numbers : MembersOf(i)' = MembersOf(i) /\ (Stands(i)' => Stands(i))
  BY MembersSteady
<1>2. CASE Numbers' = Numbers
  BY <1>1, <1>2 DEF Following, OneAtATime
<1>3. ASSUME NEW y \in Cycles, NEW requested \in SUBSET CardsOf(y), PrepareStep(y, requested)
      PROVE  OneAtATime'
  <2>0. PICK new : new = Len(integrations) + 1
    OBVIOUS
  <2>1. /\ Numbers' = Numbers \cup {new} /\ new \notin Numbers
        /\ \A i \in Numbers : Stands(i) => MembersOf(i) \cap MembersOf(new)' = {}
    BY <1>3, <2>0, PrepareFacts
  <2> QED
    BY <1>1, <2>1 DEF Following, OneAtATime
<1> QED
  BY <1>2, <1>3, NumbersStep

\* Every step keeps MembersAsFar.
LEMMA MembersAsFarStep ==
    ASSUME Typed, Following, AnyStep
    PROVE  MembersAsFar'
<1> DEFINE StillAsFar == \A i \in Numbers : \A c \in MembersOf(i) : AsFar(i, c)'
<1>0. \A i \in Numbers : MembersOf(i)' = MembersOf(i)
  BY MembersSteady
<1>1. \A i \in Numbers : \A c \in MembersOf(i) : AsFar(i, c) /\ c \in scenario.cards
  BY Members DEF Following, MembersAsFar
<1>2. ASSUME NEW d \in scenario.cards, CardStep(d)
      PROVE  StillAsFar
  BY <1>1, <1>2 DEF CardStep, AsFar
<1>3. ASSUME UNCHANGED card, \A i \in Numbers :
                \/ integrations'[i].status = integrations[i].status
                \/ integrations[i].status \in Undecided /\ integrations'[i].status \in Undecided
      PROVE  StillAsFar
  BY <1>1, <1>3 DEF AsFar, Undecided
<1>4. ASSUME (\E y \in Cycles : CycleStep(y)) \/ CountStep \/ PushStep \/ \E i : BreakStep(i)
      PROVE  StillAsFar
  <2>1. UNCHANGED <<card, integrations>>
    BY <1>4 DEF CycleStep, CountStep, PushStep, recordVars, BreakStep
  <2> QED
    BY <1>3, <2>1
<1>5. ASSUME NEW i \in Numbers, RecordStep(i) \/ ArchiveStep(i)
      PROVE  StillAsFar
  <2>1. UNCHANGED card
    BY <1>5 DEF RecordStep, ArchiveStep, SameButIntegrations
  <2>2. \A j \in Numbers :
          \/ integrations'[j].status = integrations[j].status
          \/ integrations[j].status \in Undecided /\ integrations'[j].status \in Undecided
    BY <1>5 DEF RecordStep, ArchiveStep, Rewrites
  <2> QED
    BY <1>3, <2>1, <2>2
<1>6. ASSUME NEW i \in Numbers, Stands(i), NEW status, NEW cards, NEW to,
             cards \subseteq MembersOf(i), SettleStep(i, status, cards, to),
             \A c \in MembersOf(i) : AsFar(i, c)'
      PROVE  StillAsFar
  <2>1. ASSUME NEW j \in Numbers, j # i, NEW c \in MembersOf(j)
        PROVE  AsFar(j, c)'
    <3>1. integrations'[j] = integrations[j]
      BY <1>6, <2>1, SettleFacts
    <3>2. Stands(j) => card'[c].state = card[c].state
      BY <1>6, <2>1, SettleFacts
    <3> QED
      BY <1>1, <3>1, <3>2 DEF AsFar, Stands, Undecided
  <2> QED
    BY <1>6, <2>1
<1>7. ASSUME NEW i \in Numbers, AcceptStep(i)
      PROVE  StillAsFar
  <2>1. Stands(i) /\ SettleStep(i, "accepted", MembersOf(i), "accepted")
    BY <1>7 DEF AcceptStep, Stands
  <2>2. \A c \in MembersOf(i) : AsFar(i, c)'
    BY <1>1, <2>1, SettleFacts DEF AsFar, Undecided
  <2> QED
    BY <1>6, <2>1, <2>2
<1>8. ASSUME NEW i \in Numbers, PromoteStep(i)
      PROVE  StillAsFar
  <2>1. Stands(i) /\ SettleStep(i, "promoted", MembersOf(i), "landed")
    BY <1>8 DEF PromoteStep, Stands
  <2>2. \A c \in MembersOf(i) : AsFar(i, c)'
    BY <1>1, <2>1, SettleFacts DEF AsFar, Undecided
  <2> QED
    BY <1>6, <2>1, <2>2
<1>9. ASSUME NEW i \in Numbers, CloseStep(i)
      PROVE  StillAsFar
  <2>1. Stands(i) /\ SettleStep(i, "archived", MembersOf(i), "closed")
    BY <1>9 DEF CloseStep, Stands
  <2>2. \A c \in MembersOf(i) : AsFar(i, c)'
    BY <1>1, <2>1, SettleFacts DEF AsFar, Undecided
  <2> QED
    BY <1>6, <2>1, <2>2
<1>10. ASSUME NEW i \in Numbers, AbandonStep(i)
       PROVE  StillAsFar
  <2> DEFINE cards == {c \in MembersOf(i) : card[c].state = "integrating"}
  <2>1. Stands(i) /\ SettleStep(i, "abandoned", cards, "approved")
        /\ cards \subseteq MembersOf(i)
    BY <1>10 DEF AbandonStep, Stands, Undecided
  <2>2. \A c \in MembersOf(i) : AsFar(i, c)'
    BY <2>1 DEF AsFar, SettleStep, Undecided
  <2> QED
    BY <1>6, <2>1, <2>2
<1>11. ASSUME NEW y \in Cycles, NEW requested \in SUBSET CardsOf(y), PrepareStep(y, requested)
       PROVE  MembersAsFar'
  <2> DEFINE selected == Select(y, requested)
  <2>0. PICK new : new = Len(integrations) + 1
    OBVIOUS
  <2>1. /\ Numbers' = Numbers \cup {new} /\ new \notin Numbers
        /\ MembersOf(new)' = selected
        /\ \A i \in Numbers : /\ integrations'[i] = integrations[i]
                              /\ MembersOf(i)' = MembersOf(i)
                              /\ Stands(i) => MembersOf(i) \cap selected = {}
        /\ integrations'[new].status = "prepared"
        /\ \A c \in selected : card'[c].state = "integrating"
        /\ \A c \in scenario.cards \ selected : card'[c].state = card[c].state
    BY <1>11, <2>0, PrepareFacts
  <2> HIDE DEF selected
  <2>2. \A c \in MembersOf(new)' : AsFar(new, c)'
    BY <2>1 DEF AsFar, Undecided
  <2>3. ASSUME NEW i \in Numbers, NEW c \in MembersOf(i)
        PROVE  AsFar(i, c)'
    <3>1. Stands(i) => card'[c].state = card[c].state
      BY <1>1, <2>1
    <3> QED
      BY <1>1, <2>1, <3>1 DEF AsFar, Stands, Undecided
  <2> QED
    BY <2>1, <2>2, <2>3 DEF MembersAsFar
<1> HIDE DEF StillAsFar
<1>12. StillAsFar \/ MembersAsFar'
  BY <1>2, <1>4, <1>5, <1>7, <1>8, <1>9, <1>10, <1>11 DEF AnyStep
<1>13. ASSUME StillAsFar, Numbers' = Numbers
       PROVE  MembersAsFar'
  BY <1>0, <1>13 DEF StillAsFar, MembersAsFar
<1> QED
  BY <1>11, <1>12, <1>13, NumbersStep

\* Every step keeps CandidatesStand.
LEMMA CandidatesStep ==
    ASSUME Typed, Typed', Following, AnyStep
    PROVE  CandidatesStand'
<1>1. ASSUME NEW i \in Numbers, NEW c \in MembersOf(i)
      PROVE  /\ Stands(i)' => integrations'[i].candidate[c] = card'[c].candidate
             /\ integrations'[i].candidate[c] <= card'[c].head
  <2>1. /\ integrations'[i].candidate = integrations[i].candidate
        /\ Stands(i)' => Stands(i)
    BY MembersSteady DEF SameTerms
  <2>2. c \in scenario.cards /\ card[c].head \in Nat /\ integrations[i].candidate[c] \in Nat
    BY Members
  <2>3. /\ card'[c].head >= card[c].head
        /\ card[c].state # "active" => card'[c].candidate = card[c].candidate
    BY <2>2, Steady DEF CardHolds
  <2>4. card'[c].head \in Nat
    <3>1. scenario' = scenario
      BY Steady
    <3> QED
      BY <2>2, <3>1 DEF Typed, CardRecord
  <2>5. Stands(i) => card[c].state # "active"
    BY StandingCards
  <2> QED
    BY <2>1, <2>2, <2>3, <2>4, <2>5 DEF Following, CandidatesStand
<1>2. \A i \in Numbers : MembersOf(i)' = MembersOf(i)
  BY MembersSteady
<1>3. CASE Numbers' = Numbers
  BY <1>1, <1>2, <1>3 DEF CandidatesStand
<1>4. ASSUME NEW y \in Cycles, NEW requested \in SUBSET CardsOf(y), PrepareStep(y, requested)
      PROVE  CandidatesStand'
  <2>0. PICK new : new = Len(integrations) + 1
    OBVIOUS
  <2>1. /\ Numbers' = Numbers \cup {new}
        /\ \A c \in MembersOf(new)' :
                /\ c \in scenario.cards
                /\ integrations'[new].candidate[c] = card[c].candidate
        /\ \A c \in scenario.cards : card'[c].candidate = card[c].candidate
                                     /\ card'[c].head = card[c].head
    BY <1>4, <2>0, PrepareFacts
  <2>2. ASSUME NEW c \in MembersOf(new)'
        PROVE  /\ integrations'[new].candidate[c] = card'[c].candidate
               /\ integrations'[new].candidate[c] <= card'[c].head
    BY <2>1 DEF Following, Heads
  <2> QED
    BY <1>1, <1>2, <2>1, <2>2 DEF CandidatesStand
<1> QED
  BY <1>3, <1>4, NumbersStep

\* Every step keeps CardsAccounted.
LEMMA AccountedStep ==
    ASSUME Typed, Following, AnyStep
    PROVE  CardsAccounted'
<1> DEFINE Undecidedly(c) == \E i \in Numbers : c \in MembersOf(i)
                                /\ integrations[i].status \in Undecided
           Finished(c) == \E i \in Landed : c \in MembersOf(i)
<1>0. /\ scenario' = scenario
      /\ \A i \in Numbers : MembersOf(i)' = MembersOf(i) /\ i \in Numbers'
      /\ Landed \subseteq Landed' /\ Landed \subseteq Numbers
  BY MembersSteady, Steady, LandingSteps DEF Following, LandedOnRecord
<1>1. \A c \in scenario.cards : /\ card[c].state = "integrating" => Undecidedly(c)
                                /\ card[c].state \in {"landed", "closed"} => Finished(c)
  BY DEF Following, CardsAccounted, Accounted
<1>2. \A c \in scenario.cards : Finished(c) => Finished(c)'
  BY <1>0
<1>3. ASSUME \A i \in Numbers : integrations[i].status \in Undecided
                                  => integrations'[i].status \in Undecided,
             \A c \in scenario.cards :
                card'[c].state \in {"integrating", "landed", "closed"}
                    => card'[c].state = card[c].state
      PROVE  CardsAccounted'
  <2>1. ASSUME NEW c \in scenario.cards
        PROVE  Undecidedly(c) => Undecidedly(c)'
    BY <1>0, <1>3
  <2>2. ASSUME NEW c \in scenario.cards
        PROVE  Accounted(c)'
    <3> HIDE DEF Undecidedly, Finished
    <3>1. /\ card'[c].state = "integrating" => Undecidedly(c)'
          /\ card'[c].state \in {"landed", "closed"} => Finished(c)'
      BY <1>1, <1>2, <1>3, <2>1
    <3> QED
      BY <3>1 DEF Undecidedly, Finished, Accounted
  <2> QED
    BY <1>0, <2>2 DEF CardsAccounted
<1>4. ASSUME NEW d \in scenario.cards, CardStep(d)
      PROVE  CardsAccounted'
  BY <1>3, <1>4 DEF CardStep
<1>5. ASSUME (\E y \in Cycles : CycleStep(y)) \/ CountStep \/ PushStep \/ \E i : BreakStep(i)
      PROVE  CardsAccounted'
  <2>1. UNCHANGED <<card, integrations>>
    BY <1>5 DEF CycleStep, CountStep, PushStep, recordVars, BreakStep
  <2> QED
    BY <1>3, <2>1
<1>6. ASSUME NEW i \in Numbers, RecordStep(i) \/ ArchiveStep(i)
      PROVE  CardsAccounted'
  <2>1. UNCHANGED card
    BY <1>6 DEF RecordStep, ArchiveStep, SameButIntegrations
  <2>2. \A j \in Numbers : integrations[j].status \in Undecided
                             => integrations'[j].status \in Undecided
    BY <1>6 DEF RecordStep, ArchiveStep, Rewrites, Undecided
  <2> QED
    BY <1>3, <2>1, <2>2
<1>7. ASSUME NEW i \in Numbers, NEW status, NEW cards, NEW to,
             SettleStep(i, status, cards, to), Stands(i), cards \subseteq MembersOf(i),
             \A c \in MembersOf(i) : card'[c].state # "integrating",
             to \in {"landed", "closed"} => i \in Landed'
      PROVE  CardsAccounted'
  <2>1. /\ \A j \in Numbers : j # i => integrations'[j] = integrations[j]
        /\ \A c \in scenario.cards :
                card'[c].state = IF c \in cards THEN to ELSE card[c].state
    BY <1>7, SettleFacts
  <2>2. ASSUME NEW c \in scenario.cards, card'[c].state = "integrating"
        PROVE  Undecidedly(c)'
    <3>1. c \notin MembersOf(i) /\ card[c].state = "integrating"
      BY <1>7, <2>1, <2>2
    <3>2. PICK j \in Numbers : c \in MembersOf(j) /\ integrations[j].status \in Undecided
      BY <1>1, <3>1
    <3>3. j # i
      BY <3>1, <3>2
    <3> QED
      BY <1>0, <2>1, <3>2, <3>3
  <2>3. ASSUME NEW c \in scenario.cards, card'[c].state \in {"landed", "closed"}
        PROVE  Finished(c)'
    <3>1. CASE c \in cards
      BY <1>0, <1>7, <2>1, <2>3, <3>1
    <3>2. CASE c \notin cards
      BY <1>1, <1>2, <2>1, <2>3, <3>2
    <3> QED
      BY <3>1, <3>2
  <2> QED
    BY <1>0, <2>2, <2>3 DEF CardsAccounted, Accounted
<1>8. ASSUME NEW i \in Numbers, AcceptStep(i)
      PROVE  CardsAccounted'
  <2>1. Stands(i) /\ SettleStep(i, "accepted", MembersOf(i), "accepted")
    BY <1>8 DEF AcceptStep, Stands
  <2>2. \A c \in MembersOf(i) : card'[c].state # "integrating"
    BY <2>1, Members DEF SettleStep, MoveTogether
  <2> QED
    BY <1>7, <2>1, <2>2
<1>9. ASSUME NEW i \in Numbers, PromoteStep(i)
      PROVE  CardsAccounted'
  <2>1. Stands(i) /\ SettleStep(i, "promoted", MembersOf(i), "landed")
    BY <1>9 DEF PromoteStep, Stands
  <2>2. \A c \in MembersOf(i) : card'[c].state # "integrating"
    BY <2>1, Members DEF SettleStep, MoveTogether
  <2>3. i \in Landed'
    BY <1>9, Landings DEF PromoteStep
  <2> QED
    BY <1>7, <2>1, <2>2, <2>3
<1>10. ASSUME NEW i \in Numbers, CloseStep(i)
       PROVE  CardsAccounted'
  <2>1. Stands(i) /\ SettleStep(i, "archived", MembersOf(i), "closed")
    BY <1>10 DEF CloseStep, Stands
  <2>2. \A c \in MembersOf(i) : card'[c].state # "integrating"
    BY <2>1, Members DEF SettleStep, MoveTogether
  <2>3. i \in Landed'
    BY <1>0, <1>10 DEF CloseStep, Following, LandedOnRecord
  <2> QED
    BY <1>7, <2>1, <2>2, <2>3
<1>11. ASSUME NEW i \in Numbers, AbandonStep(i)
       PROVE  CardsAccounted'
  <2> DEFINE cards == {c \in MembersOf(i) : card[c].state = "integrating"}
  <2>1. Stands(i) /\ SettleStep(i, "abandoned", cards, "approved")
        /\ cards \subseteq MembersOf(i)
    BY <1>11 DEF AbandonStep, Stands, Undecided
  <2>2. \A c \in MembersOf(i) : card'[c].state # "integrating"
    BY <2>1, Members DEF SettleStep, MoveTogether
  <2> QED
    BY <1>7, <2>1, <2>2
<1>12. ASSUME NEW y \in Cycles, NEW requested \in SUBSET CardsOf(y), PrepareStep(y, requested)
       PROVE  CardsAccounted'
  <2> DEFINE selected == Select(y, requested)
  <2>0. PICK new : new = Len(integrations) + 1
    OBVIOUS
  <2>1. /\ Numbers' = Numbers \cup {new}
        /\ MembersOf(new)' = selected
        /\ \A i \in Numbers : integrations'[i] = integrations[i]
        /\ integrations'[new].status = "prepared"
        /\ \A c \in selected : card'[c].state = "integrating"
        /\ \A c \in scenario.cards \ selected : card'[c].state = card[c].state
    BY <1>12, <2>0, PrepareFacts
  <2> HIDE DEF selected
  <2>2. ASSUME NEW c \in scenario.cards, card'[c].state = "integrating"
        PROVE  Undecidedly(c)'
    <3>1. CASE c \in selected
      BY <2>1, <3>1 DEF Undecided
    <3>2. CASE c \notin selected
      BY <1>0, <1>1, <2>1, <2>2, <3>2
    <3> QED
      BY <3>1, <3>2
  <2>3. ASSUME NEW c \in scenario.cards, card'[c].state \in {"landed", "closed"}
        PROVE  Finished(c)'
    <3>1. card'[c].state = card[c].state
      BY <2>1, <2>3
    <3> QED
      BY <1>1, <1>2, <2>3, <3>1
  <2> QED
    BY <1>0, <2>2, <2>3 DEF CardsAccounted, Accounted
<1> QED
  BY <1>4, <1>5, <1>6, <1>8, <1>9, <1>10, <1>11, <1>12 DEF AnyStep

\* Every step keeps Following.
LEMMA FollowingStep ==
    ASSUME Typed, Typed', Following, AnyStep
    PROVE  Following'
<1>1. Heads'
  BY HeadsStep DEF Following
<1> QED
  BY <1>1, LandedOnRecordStep, OneAtATimeStep, MembersAsFarStep, AccountedStep, CandidatesStep,
     NoneBlockedStep DEF Following

\* Following holds initially.
LEMMA InitFollowing == Init => Following
<1> SUFFICES ASSUME Init
             PROVE  Following
  OBVIOUS
<1>1. Numbers = {} /\ Landed = {}
  BY DEF Init, Numbers, Landed, ToSet
<1>2. \A c \in scenario.cards : card[c] = [state |-> "approved", candidate |-> 1, head |-> 1]
  BY DEF Init
<1> QED
  BY <1>1, <1>2 DEF Following, Heads, LandedOnRecord, OneAtATime, MembersAsFar, CardsAccounted,
     Accounted, CandidatesStand, NoneBlocked

\* Following says that cards follow their integration.
LEMMA FollowingFollows ==
    ASSUME Typed, Following
    PROVE  CardsFollowIntegration
<1>1. ASSUME NEW i \in Numbers, NEW c \in MembersOf(i)
      PROVE  AsFar(i, c)
  BY DEF Following, MembersAsFar
<1>2. ASSUME NEW c \in scenario.cards, card[c].state = "integrating"
      PROVE  Cardinality({i \in Numbers : c \in MembersOf(i)
                /\ integrations[i].status \in {"prepared", "verified", "reviewed"}}) = 1
  <2>1. PICK i \in Numbers : c \in MembersOf(i) /\ integrations[i].status \in Undecided
    BY <1>2 DEF Following, CardsAccounted, Accounted
  <2>2. ASSUME NEW j \in Numbers, c \in MembersOf(j), integrations[j].status \in Undecided
        PROVE  j = i
    BY <2>1, <2>2 DEF Following, OneAtATime, Stands, Undecided
  <2>3. {j \in Numbers : c \in MembersOf(j)
            /\ integrations[j].status \in {"prepared", "verified", "reviewed"}} = {i}
    BY <2>1, <2>2 DEF Undecided
  <2> QED
    BY <2>3, FS_Singleton
<1> QED
  BY <1>1, <1>2 DEF CardsFollowIntegration, AsFar, Undecided

\* The types and Following always hold.
LEMMA FollowingInvariant == Spec => [](Typed /\ Following)
<1>1. Init => Typed /\ Following
  BY InitTyped, InitFollowing
<1>2. Typed /\ Following /\ [Next]_vars => (Typed /\ Following)'
  BY EveryStep, FollowingStep
<1> QED
  BY <1>1, <1>2, PTL DEF Spec

\* A card is integrating for one undecided integration only, and each member is as far
\* as its integration (integration.rs: run_prepare to run_close).
THEOREM CardsFollowTheirIntegration == Spec => []CardsFollowIntegration
  BY FollowingInvariant, FollowingFollows, PTL

(***************************************************************************)
(* What landings are built on.                                             *)
(***************************************************************************)

\* A card's dependencies come before it in its integration, or had landed when
\* the integration was prepared.
Based(i) ==
    /\ \A n \in DOMAIN integrations[i].members : \A d \in DependsOn[integrations[i].members[n]] :
          \/ \E m \in 1 .. n - 1 : integrations[i].members[m] = d
          \/ \E j \in ToSet(integrations[i].expected) \ {Foreign} : d \in MembersOf(j)
    /\ ToSet(integrations[i].expected) \ {Foreign} \subseteq Landed

\* Every integration is.
AllBased == \A i \in Numbers : Based(i)

\* An earlier element is among the earlier elements.
LEMMA PrefixHolds ==
    ASSUME NEW S, NEW s \in Seq(S), NEW n \in DOMAIN s, NEW m \in 1 .. n - 1
    PROVE  s[m] \in ToSet(SubSeq(s, 1, n - 1))
<1>1. n \in 1 .. Len(s) /\ Len(s) \in Nat
  BY LenProperties
<1>2. n - 1 \in Int /\ 1 \in Int /\ \A k \in 1 .. n - 1 : s[k] \in S
  BY <1>1, ElementOfSeq
<1>3. /\ SubSeq(s, 1, n - 1) \in Seq(S)
      /\ Len(SubSeq(s, 1, n - 1)) = n - 1
      /\ SubSeq(s, 1, n - 1)[m] = s[m]
  BY <1>1, <1>2, SubSeqProperties
<1>4. m \in DOMAIN SubSeq(s, 1, n - 1)
  BY <1>3, LenProperties
<1> QED
  BY <1>3, <1>4 DEF ToSet

\* Every step keeps LandingsBuildOnAuthority.
LEMMA BuildsStep ==
    ASSUME Typed, Following, LandingsBuildOnAuthority, AnyStep
    PROVE  LandingsBuildOnAuthority'
<1>1. \A k \in DOMAIN authority : authority[k] # Foreign => authority[k] \in Numbers
  <2>1. \A k \in DOMAIN authority : authority[k] # Foreign => authority[k] \in Landed
    BY DEF Landed, ToSet
  <2> QED
    BY <2>1 DEF Following, LandedOnRecord
<1>2. ASSUME NEW k \in DOMAIN authority, authority[k] # Foreign
      PROVE  integrations'[authority[k]].expected = SubSeq(authority, 1, k - 1)
  BY <1>1, <1>2, MembersSteady DEF SameTerms, LandingsBuildOnAuthority
<1>3. CASE authority' = authority
  BY <1>2, <1>3 DEF LandingsBuildOnAuthority
<1>4. ASSUME NEW e \in Nat, authority' = Append(authority, e),
             e # Foreign => e \in Numbers /\ Fresh(e)
      PROVE  LandingsBuildOnAuthority'
  <2>1. /\ DOMAIN authority' = 1 .. Len(authority) + 1 /\ DOMAIN authority = 1 .. Len(authority)
        /\ \A k \in DOMAIN authority : authority'[k] = authority[k]
        /\ authority'[Len(authority) + 1] = e /\ Len(authority) \in Nat
        /\ \A k \in 1 .. Len(authority) + 1 :
                SubSeq(authority', 1, k - 1) = SubSeq(authority, 1, k - 1)
        /\ SubSeq(authority, 1, Len(authority)) = authority
    BY <1>4, Extended DEF Typed
  <2>2. ASSUME NEW k \in DOMAIN authority', authority'[k] # Foreign
        PROVE  integrations'[authority'[k]].expected = SubSeq(authority', 1, k - 1)
    <3>1. CASE k \in DOMAIN authority
      BY <1>2, <2>1, <2>2, <3>1
    <3>2. CASE k = Len(authority) + 1
      <4>1. authority'[k] = e /\ e # Foreign
        BY <2>1, <2>2, <3>2
      <4>2. integrations'[e].expected = integrations[e].expected
        BY <1>4, <4>1, MembersSteady DEF SameTerms
      <4>3. integrations[e].expected = authority
        BY <1>4, <4>1 DEF Fresh
      <4>4. SubSeq(authority', 1, k - 1) = authority
        <5>1. k - 1 = Len(authority)
          BY <2>1, <3>2
        <5> QED
          BY <2>1, <3>2, <5>1
      <4> QED
        BY <4>1, <4>2, <4>3, <4>4
    <3> QED
      BY <2>1, <3>1, <3>2
  <2> QED
    BY <2>2 DEF LandingsBuildOnAuthority
<1>5. CASE PushStep
  BY <1>4, <1>5 DEF PushStep, Foreign
<1>6. ASSUME NEW i \in Numbers, authority' = Append(authority, i), Fresh(i)
      PROVE  LandingsBuildOnAuthority'
  BY <1>4, <1>6, TypedRecords
<1> QED
  BY <1>3, <1>5, <1>6, Steady

\* Every step keeps AllBased.
LEMMA BasedStep ==
    ASSUME Typed, Following, AllBased, AnyStep
    PROVE  AllBased'
<1>0. Landed \subseteq Landed' /\ Landed \subseteq Numbers
  BY LandingSteps DEF Following, LandedOnRecord
<1>1. ASSUME NEW i \in Numbers
      PROVE  Based(i)'
  <2>1. /\ integrations'[i].members = integrations[i].members
        /\ integrations'[i].expected = integrations[i].expected
    BY MembersSteady DEF SameTerms
  <2>2. ToSet(integrations[i].expected) \ {Foreign} \subseteq Landed
    BY DEF AllBased, Based
  <2>3. \A j \in ToSet(integrations[i].expected) \ {Foreign} : MembersOf(j)' = MembersOf(j)
    BY <1>0, <2>2, MembersSteady
  <2> QED
    BY <1>0, <2>1, <2>2, <2>3 DEF AllBased, Based
<1>2. CASE Numbers' = Numbers
  BY <1>1, <1>2 DEF AllBased
<1>3. ASSUME NEW y \in Cycles, NEW requested \in SUBSET CardsOf(y), PrepareStep(y, requested)
      PROVE  AllBased'
  <2> DEFINE selected == Select(y, requested)
  <2>0. PICK new : new = Len(integrations) + 1
    OBVIOUS
  <2>1. /\ Numbers' = Numbers \cup {new}
        /\ integrations'[new] = BuildRecord(y, selected)
        /\ RespectsOrder(integrations'[new].members, selected, DependsOn)
        /\ CheckDependencies(y, selected)
    BY <1>3, <2>0 DEF PrepareStep, BuildPlan
  <2>2. integrations'[new].expected = authority
    BY <2>1 DEF BuildRecord
  <2> HIDE DEF selected
  <2>3. ToSet(authority) \ {Foreign} = Landed
    BY DEF Landed
  <2>4. ASSUME NEW n \in DOMAIN integrations'[new].members,
               NEW d \in DependsOn[integrations'[new].members[n]]
        PROVE  \/ \E m \in 1 .. n - 1 : integrations'[new].members[m] = d
               \/ \E j \in Landed : d \in MembersOf(j)'
    <3>1. integrations'[new].members[n] \in selected
      BY <2>1, LenProperties, ElementOfSeq DEF RespectsOrder
    <3>2. CASE d \in selected
      BY <2>1, <3>2 DEF RespectsOrder
    <3>3. CASE d \notin selected
      <4>1. d \in scenario.cards /\ card[d].state \in {"landed", "closed"}
        BY <2>1, <3>1, <3>3 DEF CheckDependencies, CardsOf
      <4>2. PICK j \in Landed : d \in MembersOf(j)
        BY <4>1 DEF Following, CardsAccounted, Accounted
      <4> QED
        BY <1>0, <4>2, MembersSteady
    <3> QED
      BY <3>2, <3>3
  <2>5. Based(new)'
    BY <1>0, <2>2, <2>3, <2>4 DEF Based
  <2> QED
    BY <1>1, <2>1, <2>5 DEF AllBased
<1> QED
  BY <1>2, <1>3, NumbersStep

\* Both hold initially.
LEMMA InitBuilt == Init => LandingsBuildOnAuthority /\ AllBased
<1> SUFFICES ASSUME Init
             PROVE  LandingsBuildOnAuthority /\ AllBased
  OBVIOUS
<1> QED
  BY DEF Init, LandingsBuildOnAuthority, AllBased, Numbers

\* Both always hold.
LEMMA BuiltInvariant ==
    Spec => [](Typed /\ Following /\ LandingsBuildOnAuthority /\ AllBased)
<1>1. Init => Typed /\ Following /\ LandingsBuildOnAuthority /\ AllBased
  BY InitTyped, InitFollowing, InitBuilt
<1>2. Typed /\ Following /\ LandingsBuildOnAuthority /\ AllBased /\ [Next]_vars
        => (Typed /\ Following /\ LandingsBuildOnAuthority /\ AllBased)'
  BY EveryStep, FollowingStep, BuildsStep, BasedStep
<1> QED
  BY <1>1, <1>2, PTL DEF Spec

\* Each landing of the protected branch was prepared against exactly the branch before it
\* (require_fresh_authority at merge, land and promotion).
THEOREM BranchIsBuiltInOrder == Spec => []LandingsBuildOnAuthority
  BY BuiltInvariant, PTL

\* What was prepared over the branch is in order with it.
LEMMA LandedOrder ==
    ASSUME Typed, Following, LandingsBuildOnAuthority, AllBased
    PROVE  LandedInOrder
<1>0. \A k \in DOMAIN authority : authority[k] # Foreign =>
            authority[k] \in Landed /\ authority[k] \in Numbers /\ Stands(authority[k])
  <2>1. \A k \in DOMAIN authority : authority[k] # Foreign => authority[k] \in Landed
    BY DEF Landed, ToSet
  <2> QED
    BY <2>1 DEF Following, LandedOnRecord, Stands
<1>1. \A i \in Landed : \A c \in MembersOf(i) :
        integrations[i].candidate[c] = card[c].candidate
  BY DEF Following, LandedOnRecord, CandidatesStand, Stands
<1>2. ASSUME NEW j \in DOMAIN authority, NEW k \in DOMAIN authority, j # k,
             Foreign \notin {authority[j], authority[k]}
      PROVE  MembersOf(authority[j]) \cap MembersOf(authority[k]) = {}
  <2>1. authority[j] # authority[k]
    <3>1. SUFFICES ASSUME authority[j] = authority[k]
                   PROVE  FALSE
      OBVIOUS
    <3>2. SubSeq(authority, 1, j - 1) = SubSeq(authority, 1, k - 1)
      BY <1>2, <3>1 DEF LandingsBuildOnAuthority
    <3>3. ASSUME NEW n \in DOMAIN authority
          PROVE  Len(SubSeq(authority, 1, n - 1)) = n - 1
      <4>1. n \in 1 .. Len(authority) /\ Len(authority) \in Nat
        BY TypedRecords
      <4>2. n - 1 \in Int /\ 1 \in Int /\ \A m \in 1 .. n - 1 : authority[m] \in Nat
        BY <4>1, TypedRecords
      <4>3. Len(SubSeq(authority, 1, n - 1)) = IF 1 <= n - 1 THEN (n - 1) - 1 + 1 ELSE 0
        BY <4>2, SubSeqProperties
      <4> QED
        BY <4>1, <4>3
    <3>4. j \in Nat /\ k \in Nat
      BY TypedRecords
    <3> QED
      BY <1>2, <3>2, <3>3, <3>4
  <2> QED
    BY <1>0, <1>2, <2>1 DEF Following, OneAtATime
<1>3. ASSUME NEW k \in DOMAIN authority, authority[k] # Foreign
      PROVE  LET members == integrations[authority[k]].members
             IN  \A n \in DOMAIN members : DependsOn[members[n]] \subseteq
                ToSet(SubSeq(members, 1, n - 1))
                \cup UNION {MembersOf(i) : i \in ToSet(SubSeq(authority, 1, k - 1)) \ {Foreign}}
  <2> DEFINE members == integrations[authority[k]].members
             expected == integrations[authority[k]].expected
  <2>1. expected = SubSeq(authority, 1, k - 1)
    BY <1>3 DEF LandingsBuildOnAuthority
  <2>2. members \in Seq(Cards)
    BY <1>0, <1>3, TypedRecords DEF IntegrationRecord
  <2>3. \A n \in DOMAIN members : \A d \in DependsOn[members[n]] :
          \/ \E m \in 1 .. n - 1 : members[m] = d
          \/ \E j \in ToSet(expected) \ {Foreign} : d \in MembersOf(j)
    BY <1>0, <1>3 DEF AllBased, Based
  <2> HIDE DEF members, expected
  <2>4. ASSUME NEW n \in DOMAIN members, NEW m \in 1 .. n - 1
        PROVE  members[m] \in ToSet(SubSeq(members, 1, n - 1))
    BY <2>2, PrefixHolds
  <2> QED
    BY <2>1, <2>3, <2>4 DEF members
<1> QED
  BY <1>1, <1>2, <1>3 DEF LandedInOrder

\* Over all landings each card lands once, after its dependencies, at its approved
\* candidate.
THEOREM LandsOnceInOrder == Spec => []LandedInOrder
  BY BuiltInvariant, LandedOrder, PTL

(***************************************************************************)
(* Final integrations, groups and archives.                                *)
(***************************************************************************)

\* A final integration was prepared with every card of its cycle that was not
\* abandoned.
FinalBinding ==
    \A i \in Numbers : integrations[i].final =>
        \A c \in CardsOf(integrations[i].cycle) :
            c \in MembersOf(i) \/ card[c].state = "abandoned"

\* Every step keeps FinalBinding.
LEMMA FinalStep ==
    ASSUME Typed, Following, FinalBinding, AnyStep
    PROVE  FinalBinding'
<1>0. scenario' = scenario /\ \A c \in scenario.cards : CardHolds(c)
  BY Steady
<1>1. ASSUME NEW i \in Numbers, integrations'[i].final,
             NEW c \in CardsOf(integrations'[i].cycle)
      PROVE  c \in MembersOf(i)' \/ card'[c].state = "abandoned"
  <2>1. /\ integrations'[i].final = integrations[i].final
        /\ integrations'[i].cycle = integrations[i].cycle
        /\ MembersOf(i)' = MembersOf(i)
    BY MembersSteady DEF SameTerms
  <2>2. c \in MembersOf(i) \/ card[c].state = "abandoned"
    BY <1>1, <2>1 DEF FinalBinding
  <2>3. c \in scenario.cards
    BY DEF CardsOf
  <2> QED
    BY <1>0, <2>1, <2>2, <2>3 DEF CardHolds
<1>2. CASE Numbers' = Numbers
  BY <1>0, <1>1, <1>2 DEF FinalBinding, CardsOf
<1>3. ASSUME NEW y \in Cycles, NEW requested \in SUBSET CardsOf(y), PrepareStep(y, requested)
      PROVE  FinalBinding'
  <2> DEFINE selected == Select(y, requested)
  <2>0. PICK new : new = Len(integrations) + 1
    OBVIOUS
  <2>1. /\ Numbers' = Numbers \cup {new}
        /\ integrations'[new] = BuildRecord(y, selected)
        /\ MembersOf(new)' = selected
        /\ ResolveFinalMode(y) => FinalCycleBinding(y, selected)
    BY <1>3, <2>0, PrepareFacts DEF PrepareStep, BuildPlan
  <2>2. integrations'[new].final = ResolveFinalMode(y) /\ integrations'[new].cycle = y
    BY <2>1 DEF BuildRecord
  <2> HIDE DEF selected
  <2>3. ASSUME integrations'[new].final, NEW c \in CardsOf(y)
        PROVE  c \in MembersOf(new)' \/ card'[c].state = "abandoned"
    <3>1. c \in scenario.cards
      BY DEF CardsOf
    <3> QED
      BY <1>0, <2>1, <2>2, <2>3, <3>1 DEF FinalCycleBinding, CardHolds
  <2> QED
    BY <1>0, <1>1, <2>1, <2>2, <2>3 DEF FinalBinding, CardsOf
<1> QED
  BY <1>2, <1>3, NumbersStep

\* What landed was bound so.
LEMMA FinalCovers ==
    ASSUME Following, FinalBinding
    PROVE  FinalCoversCycle
  BY DEF Following, LandedOnRecord, FinalBinding, FinalCoversCycle

\* The sets of a cycle's cards that land together.
WholesIn(y) == cycle[y].groups \cup {Joint \cap CardsOf(y)}

\* None of the sets is divided.
Together(wholes, members) ==
    \A whole \in wholes : whole \cap members = {} \/ whole \subseteq members

\* A group, or the joint cards, of an integration's cycle are all in it or none.
Whole(i) ==
    \E y \in Cycles : y = integrations[i].cycle /\ Together(WholesIn(y), MembersOf(i))

\* No standing integration divides one.
Wholes == \A i \in Numbers : Stands(i) => Whole(i)

\* Whoever declares a group does it before any of its cards integrates.
GroupsComeFirst == \A s \in Scenarios : "late group" \notin s.moves

\* Every step keeps Wholes, when no group is declared late.
LEMMA WholesStep ==
    ASSUME Typed, Following, Wholes, GroupsComeFirst, AnyStep
    PROVE  Wholes'
<1>0. scenario' = scenario /\ "late group" \notin scenario.moves
  BY Steady DEF Typed, GroupsComeFirst
<1>1. ASSUME NEW i \in Numbers, Stands(i)',
             \A z \in Cycles : \/ cycle'[z].groups = cycle[z].groups
                               \/ \E group : /\ cycle'[z].groups = cycle[z].groups \cup {group}
                                             /\ group \cap MembersOf(i) = {}
      PROVE  Whole(i)'
  <2>1. /\ Whole(i)
        /\ MembersOf(i)' = MembersOf(i) /\ integrations'[i].cycle = integrations[i].cycle
    BY <1>1, MembersSteady DEF Wholes, SameTerms
  <2>2. PICK z \in Cycles : z = integrations[i].cycle /\ Together(WholesIn(z), MembersOf(i))
    BY <2>1 DEF Whole
  <2>3. CardsOf(z)' = CardsOf(z)
    BY <1>0 DEF CardsOf
  <2>4. \/ WholesIn(z)' = WholesIn(z)
        \/ \E group : WholesIn(z)' = WholesIn(z) \cup {group} /\ group \cap MembersOf(i) = {}
    BY <1>1, <2>3 DEF WholesIn
  <2>5. Together(WholesIn(z)', MembersOf(i))
    BY <2>2, <2>4 DEF Together
  <2>6. Together(WholesIn(z), MembersOf(i))'
    BY <2>1, <2>5 DEF Together
  <2> QED
    BY <2>1, <2>2, <2>6 DEF Whole
<1>2. ASSUME Numbers' = Numbers, \A z \in Cycles : cycle'[z].groups = cycle[z].groups
      PROVE  Wholes'
  BY <1>1, <1>2 DEF Wholes
<1>3. ASSUME NEW y \in Cycles, CycleStep(y)
      PROVE  Wholes'
  <2>1. Numbers' = Numbers /\ \A i \in Numbers : Stands(i)' => Stands(i)
    BY <1>3, MembersSteady DEF CycleStep, Numbers
  <2>2. ASSUME NEW i \in Numbers, Stands(i)', NEW z \in Cycles
        PROVE  \/ cycle'[z].groups = cycle[z].groups
               \/ \E group : /\ cycle'[z].groups = cycle[z].groups \cup {group}
                             /\ group \cap MembersOf(i) = {}
    <3>1. CASE cycle'[z].groups = cycle[z].groups
      BY <3>1
    <3>2. CASE cycle'[z].groups # cycle[z].groups
      <4>1. PICK group : /\ cycle'[z].groups = cycle[z].groups \cup {group}
                         /\ \A c \in group : card[c].state \in {"approved", "active"}
        BY <1>0, <1>3, <3>2 DEF CycleStep
      <4>2. group \cap MembersOf(i) = {}
        BY <2>1, <2>2, <4>1, StandingCards
      <4> QED
        BY <4>1, <4>2
    <3> QED
      BY <3>1, <3>2
  <2> QED
    BY <1>1, <2>1, <2>2 DEF Wholes
<1>4. ASSUME NEW y \in Cycles, NEW requested \in SUBSET CardsOf(y), PrepareStep(y, requested)
      PROVE  Wholes'
  <2> DEFINE selected == Select(y, requested)
  <2>0. PICK new : new = Len(integrations) + 1
    OBVIOUS
  <2>1. /\ Numbers' = Numbers \cup {new}
        /\ integrations'[new] = BuildRecord(y, selected)
        /\ MembersOf(new)' = selected
        /\ CheckAtomicGroups(y, selected) /\ RequireExecutionClassification(y, selected)
        /\ UNCHANGED cycle
    BY <1>4, <2>0, PrepareFacts DEF PrepareStep, BuildPlan
  <2>2. integrations'[new].cycle = y
    BY <2>1 DEF BuildRecord
  <2>3. CardsOf(y)' = CardsOf(y)
    BY <1>0 DEF CardsOf
  <2> HIDE DEF selected
  <2>4. Together(WholesIn(y), selected)
    BY <2>1 DEF CheckAtomicGroups, RequireExecutionClassification, Together, WholesIn
  <2>5. WholesIn(y)' = WholesIn(y)
    BY <2>1, <2>3 DEF WholesIn
  <2>6. Together(WholesIn(y), MembersOf(new))'
    BY <2>1, <2>4, <2>5 DEF Together
  <2>7. Whole(new)'
    BY <2>2, <2>6 DEF Whole
  <2>8. ASSUME NEW i \in Numbers, Stands(i)'
        PROVE  Whole(i)'
    BY <1>1, <2>1, <2>8
  <2> QED
    BY <2>1, <2>7, <2>8 DEF Wholes
<1>5. CASE UNCHANGED <<integrations, cycle>>
  BY <1>2, <1>5 DEF Numbers
<1>6. CASE Numbers' = Numbers /\ UNCHANGED cycle
  BY <1>2, <1>6
<1> QED
  BY <1>3, <1>4, <1>5, <1>6 DEF AnyStep, CardStep, CountStep, PushStep, recordVars, RecordStep,
     SameButIntegrations, Rewrites, AcceptStep, PromoteStep, AbandonStep, CloseStep, SettleStep,
     ArchiveStep, BreakStep

\* What landed divided none.
LEMMA LandWhole ==
    ASSUME Following, Wholes
    PROVE  LandsWhole
<1>1. ASSUME NEW i \in Landed
      PROVE  i \in Numbers /\ Stands(i)
  BY DEF Following, LandedOnRecord, Stands
<1>2. ASSUME NEW i \in Landed
      PROVE  Together(WholesIn(integrations[i].cycle), MembersOf(i))
  BY <1>1 DEF Wholes, Whole
<1> QED
  BY <1>2 DEF Together, WholesIn, LandsWhole

(***************************************************************************)
(* Archives.                                                               *)
(***************************************************************************)

\* An archive keeps nothing but what its integration landed.
ArchiveTrue ==
    \A i \in Numbers : /\ integrations[i].archive \subseteq RefsFor(i)
                       /\ integrations[i].archive # {} => i \in Landed

\* The refs of an integration never change.
LEMMA RefsSteady ==
    ASSUME NEW i, MembersOf(i)' = MembersOf(i),
           integrations'[i].candidate = integrations[i].candidate
    PROVE  RefsFor(i)' = RefsFor(i)
  BY DEF RefsFor

\* An archive only grows, to all the refs of its integration.
LEMMA ArchivesGrow ==
    ASSUME Typed, Following, ArchiveTrue, AnyStep, NEW i \in Numbers
    PROVE  /\ integrations[i].archive \subseteq integrations'[i].archive
           /\ \/ integrations'[i].archive = integrations[i].archive
              \/ integrations'[i].archive = RefsFor(i) /\ i \in Landed
<1>1. CASE integrations'[i].archive = integrations[i].archive
  BY <1>1
<1>2. ASSUME NEW j \in Numbers, ArchiveStep(j), j = i
      PROVE  integrations'[i].archive = RefsFor(i) /\ i \in Landed
  BY <1>2 DEF ArchiveStep, Following, LandedOnRecord
<1>3. integrations[i].archive \subseteq RefsFor(i)
  BY DEF ArchiveTrue
<1>4. CASE UNCHANGED integrations
  BY <1>4
<1>5. ASSUME NEW y \in Cycles, NEW requested \in SUBSET CardsOf(y), PrepareStep(y, requested)
      PROVE  integrations'[i] = integrations[i]
  BY <1>5 DEF PrepareStep
<1>6. ASSUME NEW j \in Numbers, Rewrites(j, integrations'[j]),
             integrations'[j].archive = integrations[j].archive
      PROVE  integrations'[i].archive = integrations[i].archive
  BY <1>6 DEF Rewrites
<1>7. ASSUME NEW j \in Numbers, ArchiveStep(j), j # i
      PROVE  integrations'[i].archive = integrations[i].archive
  BY <1>7 DEF ArchiveStep, Rewrites
<1>8. ASSUME NEW j \in Numbers, RecordStep(j) \/ AcceptStep(j) \/ PromoteStep(j)
                                \/ AbandonStep(j) \/ CloseStep(j)
      PROVE  integrations'[i].archive = integrations[i].archive
  BY <1>6, <1>8 DEF RecordStep, AcceptStep, PromoteStep, AbandonStep, CloseStep, SettleStep
<1>9. \/ integrations'[i].archive = integrations[i].archive
      \/ ArchiveStep(i)
  BY <1>4, <1>5, <1>7, <1>8
     DEF AnyStep, CardStep, CycleStep, CountStep, PushStep, recordVars, BreakStep
<1> QED
  BY <1>1, <1>2, <1>3, <1>9

\* What landed stays.
LEMMA LandedGrows ==
    ASSUME Typed, AnyStep
    PROVE  Landed \subseteq Landed'
  BY LandingSteps

\* Every step keeps ArchiveTrue.
LEMMA ArchiveStepTrue ==
    ASSUME Typed, Following, ArchiveTrue, AnyStep
    PROVE  ArchiveTrue'
<1>1. ASSUME NEW i \in Numbers
      PROVE  (/\ integrations[i].archive \subseteq RefsFor(i)
              /\ integrations[i].archive # {} => i \in Landed)'
  <2>1. RefsFor(i)' = RefsFor(i)
    BY MembersSteady, RefsSteady DEF SameTerms
  <2> QED
    BY <2>1, ArchivesGrow, LandedGrows DEF ArchiveTrue
<1>2. CASE Numbers' = Numbers
  BY <1>1, <1>2 DEF ArchiveTrue
<1>3. ASSUME NEW y \in Cycles, NEW requested \in SUBSET CardsOf(y), PrepareStep(y, requested)
      PROVE  ArchiveTrue'
  <2>0. PICK new : new = Len(integrations) + 1
    OBVIOUS
  <2>1. Numbers' = Numbers \cup {new} /\ integrations'[new].archive = {}
    BY <1>3, <2>0 DEF PrepareStep, BuildRecord
  <2> QED
    BY <1>1, <2>1 DEF ArchiveTrue
<1> QED
  BY <1>2, <1>3, NumbersStep

\* What an archive keeps of a card is the candidate its integration landed.
LEMMA KeptCandidates ==
    ASSUME Typed, Following, ArchiveTrue, NEW c \in scenario.cards, NEW kept \in Kept(c)
    PROVE  \E j \in Landed : /\ j \in Numbers /\ c \in MembersOf(j)
                             /\ kept = integrations[j].candidate[c]
                             /\ <<c, kept>> \in integrations[j].archive
                             /\ kept \in Nat /\ kept <= card[c].head
<1>1. PICK j \in Numbers : \E r \in integrations[j].archive : r[1] = c /\ kept = r[2]
  BY DEF Kept
<1>0. PICK ref \in integrations[j].archive : ref[1] = c /\ kept = ref[2]
  BY <1>1
<1>2. j \in Landed /\ ref \in RefsFor(j)
  BY <1>0 DEF ArchiveTrue
<1>3. c # 0
  BY PipelineAssumption DEF Typed
<1>4. PICK d \in MembersOf(j) : ref = <<d, integrations[j].candidate[d]>>
  BY <1>0, <1>2, <1>3 DEF RefsFor
<1>5. d = c /\ kept = integrations[j].candidate[c] /\ ref = <<c, kept>>
  BY <1>0, <1>4
<1>6. kept \in Nat
  BY <1>4, <1>5, Members
<1>7. kept <= card[c].head
  BY <1>4, <1>5 DEF Following, CandidatesStand
<1> QED
  BY <1>0, <1>2, <1>4, <1>5, <1>6, <1>7

\* A closed card stays as it is, and only the end of an integration closes one.
LEMMA ClosedSteps ==
    ASSUME Typed, AnyStep, NEW c \in scenario.cards
    PROVE  /\ card[c].state = "closed" => /\ card'[c].state = "closed"
                                          /\ card'[c].head = card[c].head
           /\ card[c].state # "closed" /\ card'[c].state = "closed" =>
                \E i \in Numbers : CloseStep(i) /\ c \in MembersOf(i)
<1> DEFINE Result == /\ card[c].state = "closed" => /\ card'[c].state = "closed"
                                                    /\ card'[c].head = card[c].head
                     /\ card[c].state # "closed" => card'[c].state # "closed"
<1>1. ASSUME NEW d \in scenario.cards, CardStep(d)
      PROVE  Result
  BY <1>1 DEF CardStep
<1>2. ASSUME NEW cards, NEW to, MoveTogether(cards, to), to # "closed",
             \A d \in cards : card[d].state # "closed"
      PROVE  Result
  BY <1>2 DEF MoveTogether
<1>3. ASSUME UNCHANGED card
      PROVE  Result
  BY <1>3
<1>4. ASSUME NEW y \in Cycles, NEW requested \in SUBSET CardsOf(y), PrepareStep(y, requested)
      PROVE  Result
  <2>1. \A d \in Select(y, requested) : card[d].state # "closed"
    BY <1>4 DEF PrepareStep, BuildPlan, Ready
  <2> QED
    BY <1>2, <1>4, <2>1 DEF PrepareStep
<1>5. ASSUME NEW i \in Numbers, AcceptStep(i)
      PROVE  Result
  BY <1>2, <1>5 DEF AcceptStep, SettleStep
<1>6. ASSUME NEW i \in Numbers, PromoteStep(i)
      PROVE  Result
  <2>1. \A d \in MembersOf(i) : card[d].state # "closed"
    BY <1>6 DEF PromoteStep
  <2> QED
    BY <1>2, <1>6, <2>1 DEF PromoteStep, SettleStep
<1>7. ASSUME NEW i \in Numbers, AbandonStep(i)
      PROVE  Result
  <2> DEFINE moved == {d \in MembersOf(i) : card[d].state = "integrating"}
  <2>1. MoveTogether(moved, "approved") /\ \A d \in moved : card[d].state # "closed"
    BY <1>7 DEF AbandonStep, SettleStep
  <2> HIDE DEF moved
  <2> QED
    BY <1>2, <2>1
<1>8. ASSUME NEW i \in Numbers, CloseStep(i), c \notin MembersOf(i)
      PROVE  Result
  BY <1>8 DEF CloseStep, SettleStep, MoveTogether
<1>9. ASSUME NEW i \in Numbers, CloseStep(i), c \in MembersOf(i)
      PROVE  card[c].state # "closed"
  BY <1>9 DEF CloseStep
<1> HIDE DEF Result
<1>10. Result \/ \E i \in Numbers : CloseStep(i) /\ c \in MembersOf(i)
  BY <1>1, <1>3, <1>4, <1>5, <1>6, <1>7, <1>8
     DEF AnyStep, CycleStep, CountStep, PushStep, recordVars, RecordStep, SameButIntegrations,
         BreakStep, ArchiveStep
<1> QED
  BY <1>9, <1>10 DEF Result

\* Every step keeps ClosedWorkIsKept.
LEMMA ClosedKeptStep ==
    ASSUME Typed, Following, ArchiveTrue, ClosedWorkIsKept, AnyStep
    PROVE  ClosedWorkIsKept'
<1>0. scenario' = scenario
  BY Steady
<1>1. ASSUME NEW j \in Landed
      PROVE  /\ j \in Numbers /\ j \in Landed'
             /\ integrations[j].archive \subseteq integrations'[j].archive
  BY ArchivesGrow, LandedGrows DEF Following, LandedOnRecord
<1>2. ASSUME NEW c \in scenario.cards, card'[c].state = "closed"
      PROVE  \E j \in Landed : <<c, card'[c].head>> \in integrations[j].archive
  <2>1. CASE card[c].state = "closed"
    BY <2>1, ClosedSteps DEF ClosedWorkIsKept
  <2>2. CASE card[c].state # "closed"
    <3>1. PICK i \in Numbers : CloseStep(i) /\ c \in MembersOf(i)
      BY <1>2, <2>2, ClosedSteps
    <3>2. UnarchivedCommits(c) = {} /\ card'[c].head = card[c].head
      BY <3>1 DEF CloseStep, SettleStep, MoveTogether
    <3>3. card[c].head \in Nat /\ card[c].head >= 1
      BY DEF Following, Heads, Typed, CardRecord
    <3>4. card[c].head \in 1 .. card[c].head
      BY <3>3
    <3>5. PICK kept \in Kept(c) : ~ (card[c].head > kept)
      BY <3>2, <3>4 DEF UnarchivedCommits
    <3>6. PICK j \in Landed : /\ <<c, kept>> \in integrations[j].archive
                              /\ kept \in Nat /\ kept <= card[c].head
      BY KeptCandidates
    <3>7. kept = card[c].head
      BY <3>3, <3>5, <3>6
    <3> QED
      BY <3>2, <3>6, <3>7
  <2> QED
    BY <2>1, <2>2
<1> QED
  BY <1>0, <1>1, <1>2 DEF ClosedWorkIsKept

\* Every step keeps BreaksOffAfterLanding.
LEMMA BreakingOffStep ==
    ASSUME Typed, Following, Following', BreaksOffAfterLanding, AnyStep
    PROVE  BreaksOffAfterLanding'
<1>0. Landed \subseteq Landed'
  BY LandedGrows
<1>1. ASSUME stuck # 0
      PROVE  BreaksOffAfterLanding'
  <2>1. UNCHANGED <<integrations, stuck>>
    BY <1>1, LandingSteps DEF PromoteStep, SettleStep, BreakStep, CommandsRun
  <2>2. stuck \in Numbers /\ stuck \in Landed'
    BY <1>0, <1>1 DEF Typed, BreaksOffAfterLanding
  <2>3. /\ MembersOf(stuck)' = MembersOf(stuck)
        /\ ArchiveIntact(stuck) => ArchiveIntact(stuck)'
    BY <2>1 DEF MembersOf, ArchiveIntact, RefsFor
  <2>4. ASSUME NEW c \in MembersOf(stuck), card[c].state = "abandoned"
        PROVE  card'[c].state = "abandoned"
    BY <2>2, <2>4, Members, Steady DEF CardHolds
  <2>5. integrations[stuck].status = "promoted" =>
            \A c \in MembersOf(stuck) : card'[c].state = "landed"
    BY <2>1, <2>2, <2>3 DEF Following, MembersAsFar, AsFar, Numbers
  <2> QED
    BY <1>1, <2>1, <2>2, <2>3, <2>4, <2>5 DEF BreaksOffAfterLanding
<1>2. ASSUME NEW i \in Numbers, BreakStep(i)
      PROVE  BreaksOffAfterLanding'
  <2>1. /\ stuck' = i /\ UNCHANGED <<integrations, card>> /\ MembersOf(i)' = MembersOf(i)
        /\ ArchiveIntact(i) => ArchiveIntact(i)'
    BY <1>2 DEF BreakStep, MembersOf, ArchiveIntact, RefsFor
  <2>2. CASE /\ integrations[i].status = "accepted" /\ ~ Settles(i)
             /\ authority' = Append(authority, i)
    <3>1. i \in Landed'
      BY <2>2, Landings
    <3>2. \E c \in MembersOf(i) : card[c].state = "abandoned"
      BY <2>2 DEF Settles, Following, MembersAsFar, AsFar
    <3> QED
      BY <2>1, <2>2, <3>1, <3>2 DEF BreaksOffAfterLanding
  <2>3. CASE integrations[i].status = "promoted" /\ ArchiveIntact(i)
    <3>1. i \in Landed'
      BY <1>0, <2>3 DEF Following, LandedOnRecord
    <3>2. \A c \in MembersOf(i) : card[c].state = "landed"
      BY <2>3 DEF Following, MembersAsFar, AsFar
    <3> QED
      BY <2>1, <2>3, <3>1, <3>2 DEF BreaksOffAfterLanding
  <2> QED
    BY <1>2, <2>2, <2>3 DEF BreakStep
<1>3. ASSUME stuck = 0, stuck' = 0
      PROVE  BreaksOffAfterLanding'
  BY <1>3 DEF BreaksOffAfterLanding
<1>4. stuck' = stuck \/ \E i \in Numbers : BreakStep(i)
  BY LandingSteps DEF PromoteStep, SettleStep
<1> QED
  BY <1>1, <1>2, <1>3, <1>4

\* A landed card may be closed.
LEMMA PreviewHolds ==
    ASSUME Typed, Following
    PROVE  PreviewKeepsItsWord
<1>1. ASSUME NEW i \in Numbers, NEW found \in Checkouts(i), PreviewClose(i, found),
             found.holdsLanded, NEW c \in MembersOf(i)
      PROVE  CleanUpCard(c, found)
  <2>1. integrations[i].status = "promoted"
    BY <1>1, Members, StatusMovesKnown DEF PreviewClose, Moves
  <2>2. card[c].state = "landed" /\ card[c].state \in L!CardStates
    BY <2>1, CardStatesKnown DEF Following, MembersAsFar, AsFar
  <2> QED
    BY <1>1, <2>2, MovesKnown DEF PreviewClose, CleanUpCard
<1> QED
  BY <1>1 DEF PreviewKeepsItsWord

\* They hold initially.
LEMMA InitArchived == Init => FinalBinding /\ Wholes /\ ArchiveTrue /\ ClosedWorkIsKept
                              /\ BreaksOffAfterLanding
<1> SUFFICES ASSUME Init
             PROVE  FinalBinding /\ Wholes /\ ArchiveTrue /\ ClosedWorkIsKept
                    /\ BreaksOffAfterLanding
  OBVIOUS
<1>1. Numbers = {} /\ stuck = 0 /\ \A c \in scenario.cards : card[c].state # "closed"
  BY DEF Init, Numbers
<1> QED
  BY <1>1 DEF FinalBinding, Wholes, ArchiveTrue, ClosedWorkIsKept, BreaksOffAfterLanding

\* What the pipeline keeps whoever declares groups when.
Kepts == FinalBinding /\ ArchiveTrue /\ ClosedWorkIsKept /\ BreaksOffAfterLanding

\* What the pipeline keeps always holds.
LEMMA KeptInvariant == Spec => [](Typed /\ Following /\ Kepts)
<1>1. Init => Typed /\ Following /\ Kepts
  BY InitTyped, InitFollowing, InitArchived DEF Kepts
<1>2. Typed /\ Following /\ Kepts /\ [Next]_vars => (Typed /\ Following /\ Kepts)'
  <2> SUFFICES ASSUME Typed, Following, Kepts, [Next]_vars
               PROVE  (Typed /\ Following /\ Kepts)'
    OBVIOUS
  <2>1. Typed' /\ AnyStep
    BY EveryStep
  <2>2. Following'
    BY <2>1, FollowingStep
  <2>3. FinalBinding' /\ ArchiveTrue' /\ ClosedWorkIsKept' /\ BreaksOffAfterLanding'
    BY <2>1, <2>2, FinalStep, ArchiveStepTrue, ClosedKeptStep, BreakingOffStep DEF Kepts
  <2> QED
    BY <2>1, <2>2, <2>3 DEF Kepts
<1> QED
  BY <1>1, <1>2, PTL DEF Spec

\* A final landing leaves no card of its cycle behind but abandoned ones
\* (final_cycle_binding).
THEOREM FinalLandingFinishesCycle == Spec => []FinalCoversCycle
<1>1. Typed /\ Following /\ Kepts => FinalCoversCycle
  BY FinalCovers DEF Kepts
<1> QED
  BY <1>1, KeptInvariant, PTL

\* Every commit of a closed card's branch is kept by the archive of the integration it
\* landed in (archive.rs: unarchived_commits).
THEOREM NoClosedWorkIsLost == Spec => []ClosedWorkIsKept
<1>1. Typed /\ Following /\ Kepts => ClosedWorkIsKept
  BY DEF Kepts
<1> QED
  BY <1>1, KeptInvariant, PTL

\* A promotion that breaks off has landed and met an abandoned card (integration.rs:
\* settle_promotion); a cleanup that breaks off has an archive that keeps the landing and
\* every candidate (archive.rs: clean_up_card).
THEOREM BreaksOffOnlyAfterLanding == Spec => []BreaksOffAfterLanding
<1>1. Typed /\ Following /\ Kepts => BreaksOffAfterLanding
  BY DEF Kepts
<1> QED
  BY <1>1, KeptInvariant, PTL

\* What the preview of a close promises, the close does when the branch checked out holds
\* what was landed (archive.rs: preview_close, clean_up_card).
THEOREM PreviewIsKept == Spec => []PreviewKeepsItsWord
<1>1. Typed /\ Following /\ Kepts => PreviewKeepsItsWord
  BY PreviewHolds
<1> QED
  BY <1>1, KeptInvariant, PTL

\* When no group is declared late, none is divided.
LEMMA WholesInvariant ==
    ASSUME GroupsComeFirst
    PROVE  Spec => [](Typed /\ Following /\ Wholes)
<1>1. Init => Typed /\ Following /\ Wholes
  BY InitTyped, InitFollowing, InitArchived
<1>2. Typed /\ Following /\ Wholes /\ [Next]_vars => (Typed /\ Following /\ Wholes)'
  <2> SUFFICES ASSUME Typed, Following, Wholes, [Next]_vars
               PROVE  (Typed /\ Following /\ Wholes)'
    OBVIOUS
  <2>1. Typed' /\ AnyStep
    BY EveryStep
  <2> QED
    BY <2>1, FollowingStep, WholesStep
<1> QED
  BY <1>1, <1>2, PTL DEF Spec

\* When no group is declared late, integration keeps all that approval promised.
THEOREM LandsApproved ==
    ASSUME GroupsComeFirst
    PROVE  Spec => []LandsAsApproved
<1>1. Typed /\ Following => TypeOK /\ CardsFollowIntegration /\ PreviewKeepsItsWord
  BY TypedIsTypeOK, FollowingFollows, PreviewHolds
<1>2. Typed /\ Following /\ Wholes => LandsWhole
  BY LandWhole
<1>3. Typed /\ Following /\ Kepts => FinalCoversCycle /\ BreaksOffAfterLanding /\ ClosedWorkIsKept
  BY FinalCovers DEF Kepts
<1>4. /\ Typed /\ Following /\ Kepts /\ Wholes /\ LandedInOrder
      => LandsAsApproved
  BY <1>1, <1>2, <1>3 DEF LandsAsApproved
<1> QED
  BY <1>4, KeptInvariant, WholesInvariant, LandsOnceInOrder, PTL

(***************************************************************************)
(* What a step may never do.                                               *)
(***************************************************************************)

\* Integrations are numbered.
LEMMA Numbered ==
    ASSUME Typed
    PROVE  Numbers \subseteq Nat
<1>1. Len(integrations) \in Nat /\ Numbers = 1 .. Len(integrations)
  BY TypedRecords
<1> QED
  BY <1>1

\* What a step publishes it appends, as a promotion of an accepted integration.
LEMMA PublishingStep ==
    ASSUME Typed, AnyStep, authority' # authority, Foreign # authority'[Len(authority')]
    PROVE  \E i \in Numbers : /\ authority'[Len(authority')] = i
                              /\ PromoteStep(i) \/ BreakStep(i)
                              /\ authority' = Append(authority, i)
<1>1. \A e \in Nat : LET s == Append(authority, e) IN s[Len(s)] = e
  BY Extended DEF Typed
<1>2. ~ PushStep
  BY <1>1 DEF PushStep, Foreign
<1>3. PICK i \in Numbers : authority' = Append(authority, i) /\ (PromoteStep(i) \/ BreakStep(i))
  BY <1>2, Steady
<1>4. authority'[Len(authority')] = i
  <2>1. i \in Nat
    BY Numbered
  <2>3. authority' = Append(authority, i)
    BY <1>3 DEF Promote, Publish
  <2>2. Append(authority, i)[Len(Append(authority, i))] = i
    BY <1>1, <2>1
  <2> QED
    BY <2>2, <2>3
<1> QED
  BY <1>3, <1>4

\* No step advances or publishes an integration of a cycle out of budget.
LEMMA EscalatedStep ==
    ASSUME Typed, Following, AnyStep, NEW y \in Cycles, failures[y] >= Limit
    PROVE  /\ \A i \in DOMAIN integrations' : integrations'[i].cycle = y =>
                /\ i \in Numbers
                /\ \/ Step(i)' = Step(i)
                   \/ integrations'[i].status \in {"abandoned", "archived"}
           /\ authority' # authority /\ Foreign # authority'[Len(authority')]
                => integrations[authority'[Len(authority')]].cycle # y
<1>0. ~ WithinBudget(y)
  BY PipelineAssumption DEF WithinBudget, Typed
<1>1. \A i \in Numbers : integrations'[i].cycle = integrations[i].cycle
  BY MembersSteady DEF SameTerms
<1>2. ASSUME NEW i \in Numbers, integrations'[i] = integrations[i]
      PROVE  Step(i)' = Step(i)
  BY <1>2 DEF Step
<1>3. ASSUME NEW i \in Numbers, integrations'[i].cycle = y
      PROVE  \/ Step(i)' = Step(i)
             \/ integrations'[i].status \in {"abandoned", "archived"}
  <2>0. ~ WithinBudget(integrations[i].cycle)
    BY <1>0, <1>1, <1>3
  <2>1. CASE integrations'[i] = integrations[i]
    BY <1>2, <2>1
  <2>2. CASE Bare(integrations'[i]) = Bare(integrations[i])
    BY <2>2 DEF Step, Bare
  <2>3. \/ integrations'[i] = integrations[i]
        \/ Bare(integrations'[i]) = Bare(integrations[i])
        \/ integrations'[i].status \in {"abandoned", "archived"}
    BY <2>0 DEF AnyStep, CardStep, CycleStep, CountStep, PushStep, recordVars, PrepareStep,
         RecordStep, Rewrites, AcceptStep, PromoteStep, AbandonStep, CloseStep, SettleStep,
         BreakStep, ArchiveStep
  <2> QED
    BY <1>3, <2>1, <2>2, <2>3
<1>4. \A i \in DOMAIN integrations' : integrations'[i].cycle = y => i \in Numbers
  <2>1. CASE Numbers' = Numbers
    BY <2>1 DEF Numbers
  <2>2. ASSUME NEW z \in Cycles, NEW requested \in SUBSET CardsOf(z), PrepareStep(z, requested)
        PROVE  \A i \in DOMAIN integrations' : integrations'[i].cycle = y => i \in Numbers
    <3>0. PICK new : new = Len(integrations) + 1
      OBVIOUS
    <3>1. DOMAIN integrations' = Numbers \cup {new} /\ integrations'[new].cycle = z
          /\ WithinBudget(z)
      BY <2>2, <3>0 DEF PrepareStep, BuildRecord, Numbers
    <3> QED
      BY <1>0, <3>1
  <2> QED
    BY <2>1, <2>2, NumbersStep
<1>5. ASSUME authority' # authority, Foreign # authority'[Len(authority')]
      PROVE  integrations[authority'[Len(authority')]].cycle # y
  <2>1. PICK i \in Numbers : /\ authority'[Len(authority')] = i
                             /\ PromoteStep(i) \/ BreakStep(i)
                             /\ authority' = Append(authority, i)
    BY <1>5, PublishingStep
  <2>2. Append(authority, i) # authority
    BY <1>5, <2>1
  <2>3. WithinBudget(integrations[i].cycle)
    BY <2>1, <2>2 DEF PromoteStep, BreakStep
  <2> QED
    BY <1>0, <2>1, <2>3
<1> QED
  BY <1>3, <1>4, <1>5

\* An escalated cycle is not advanced toward promotion by any command
\* (require_cycle_convergence_budget).
THEOREM EscalationStopsCycle == Spec => EscalatedCycleStands
<1>1. Typed /\ Following /\ [Next]_vars =>
        [\A y \in Cycles : failures[y] >= Limit =>
            /\ \A i \in DOMAIN integrations' : integrations'[i].cycle = y =>
                /\ i \in Numbers
                /\ \/ Step(i)' = Step(i)
                   \/ integrations'[i].status \in {"abandoned", "archived"}
            /\ authority' # authority /\ Foreign # authority'[Len(authority')]
                  => integrations[authority'[Len(authority')]].cycle # y]_vars
  BY EveryStep, EscalatedStep
<1> QED
  BY <1>1, FollowingInvariant, PTL DEF Spec, EscalatedCycleStands

\* Only a promotion appends an integration to the branch.
LEMMA OnlyPromotionPublishes ==
    ASSUME Typed, Next, authority' # authority, Foreign # authority'[Len(authority')]
    PROVE  \E i \in Numbers : \E actor \in scenario.actors :
                authority'[Len(authority')] = i /\ CheckPromotion(i, actor)
<1>1. \A e \in Nat : LET s == Append(authority, e) IN s[Len(s)] = e
  BY Extended DEF Typed
<1>2. ~ ForeignPush
  BY <1>1 DEF ForeignPush, Foreign
<1>3. PICK i \in Numbers : \E actor \in scenario.actors : Promote(i, actor)
  <2>1. \A c \in scenario.cards : ~ (Commit(c) \/ Resume(c) \/ Deliver(c) \/ AbandonCard(c))
    BY DEF Commit, Resume, MoveCard, Deliver, AbandonCard
  <2>2. \A y \in Cycles :
            /\ ~ (SealCycle(y) \/ AbandonCycle(y))
            /\ \A group \in Groups : ~ DeclareGroup(y, group)
            /\ \A requested \in SUBSET CardsOf(y) : ~ Prepare(y, requested)
    BY DEF MoveCycle, SealCycle, AbandonCycle, DeclareGroup, Prepare
  <2>3. \A i \in Numbers :
            /\ ~ (Merge(i) \/ MergeConflicts(i) \/ RecordIntegrationFailure(i))
            /\ ~ (LoseIntegrationFailure(i) \/ Land(i) \/ RaiseException(i) \/ Abandon(i))
            /\ ~ (ArchiveCreate(i) \/ \E found \in Checkouts(i) : Close(i, found))
    BY DEF Merge, MergeConflicts, RecordIntegrationFailure, LoseIntegrationFailure, Land,
       RaiseException, Abandon, ArchiveCreate, Close, recordVars, SameButIntegrations
  <2>4. \A i \in Numbers : \A actor \in scenario.actors :
            /\ \A passed \in BOOLEAN : ~ Verify(i, actor, passed)
            /\ ~ (Review(i, actor) \/ Accept(i, actor) \/ Reject(i, actor))
            /\ \A k \in DOMAIN integrations[i].exceptions : ~ ResolveException(i, k, actor)
    BY DEF Verify, Review, Accept, Reject, ResolveException, SameButIntegrations
  <2>5. ~ (SetFinalAuthorizationPolicy \/ Rebaseline)
    BY DEF SetFinalAuthorizationPolicy, Rebaseline
  <2> QED
    BY <1>2, <2>1, <2>2, <2>3, <2>4, <2>5 DEF Next
<1>4. authority'[Len(authority')] = i
  <2>1. i \in Nat
    BY Numbered
  <2>3. authority' = Append(authority, i)
    BY <1>3 DEF Promote, Publish
  <2>2. Append(authority, i)[Len(Append(authority, i))] = i
    BY <1>1, <2>1
  <2> QED
    BY <2>2, <2>3
<1> QED
  BY <1>3, <1>4 DEF Promote

\* A step that publishes has asked for the authorization.
LEMMA AuthorizedStep ==
    ASSUME Typed, [Next]_vars
    PROVE  LET i == authority'[Len(authority')]
           IN  authority' # authority /\ i # Foreign /\ integrations[i].final =>
                /\ cycle[integrations[i].cycle] = integrations[i].seal
                /\ integrations[i].under = policy
                /\ \A k \in DOMAIN integrations[i].exceptions :
                    integrations[i].exceptions[k] = [policy |-> policy, resolved |-> TRUE]
<1> SUFFICES ASSUME authority' # authority, authority'[Len(authority')] # Foreign
             PROVE  LET i == authority'[Len(authority')]
                    IN  integrations[i].final =>
                          /\ cycle[integrations[i].cycle] = integrations[i].seal
                          /\ integrations[i].under = policy
                          /\ \A k \in DOMAIN integrations[i].exceptions :
                              integrations[i].exceptions[k]
                                = [policy |-> policy, resolved |-> TRUE]
  OBVIOUS
<1>1. Next
  BY DEF vars
<1>2. PICK i \in Numbers : \E actor \in scenario.actors :
                authority'[Len(authority')] = i /\ CheckPromotion(i, actor)
  BY <1>1, OnlyPromotionPublishes
<1>3. AuthorizationStands(i) /\ NoPendingException(i)
  BY <1>2 DEF CheckPromotion
<1>4. ASSUME NEW k \in DOMAIN integrations[i].exceptions
      PROVE  integrations[i].exceptions[k] = [policy |-> policy, resolved |-> TRUE]
  <2>1. integrations[i].exceptions[k] \in ExceptionRecord
    BY TypedRecords, ElementOfSeq, LenProperties DEF IntegrationRecord
  <2>2. integrations[i].exceptions[k].policy = policy /\ integrations[i].exceptions[k].resolved
    BY <1>3 DEF NoPendingException, ExceptionsReadable
  <2> QED
    BY <2>1, <2>2 DEF ExceptionRecord
<1> QED
  BY <1>2, <1>3, <1>4 DEF AuthorizationStands, SealStands

\* What authorizes a final promotion still stands when the branch moves
\* (validate_final_authorization_for_promotion).
THEOREM PublishesOnlyAuthorized == Spec => PublishesAuthorized
<1>1. Typed /\ [Next]_vars =>
        [LET i == authority'[Len(authority')]
         IN  authority' # authority /\ i # Foreign /\ integrations[i].final =>
                /\ cycle[integrations[i].cycle] = integrations[i].seal
                /\ integrations[i].under = policy
                /\ \A k \in DOMAIN integrations[i].exceptions :
                    integrations[i].exceptions[k] = [policy |-> policy, resolved |-> TRUE]]_vars
  BY AuthorizedStep
<1> QED
  BY <1>1, FollowingInvariant, PTL DEF Spec, PublishesAuthorized
=============================================================================
