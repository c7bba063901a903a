-------------------------- MODULE ConvergenceProofs --------------------------
(***************************************************************************)
(* What the convergence budget promises, for every set of cards, cycles,   *)
(* policies, dimension limits and mergers, and for ledgers of any length   *)
(* up to MaxFacts.                                                         *)
(*                                                                         *)
(* The proof is made in layers. Numbers and sequences come first: limits   *)
(* have a largest and a smallest, and appending facts to a ledger changes  *)
(* a count by no more than the facts appended. Then every command is       *)
(* reduced to one of six kinds of step by what it reads, appends and moves *)
(* (EveryStep), so that each inductive invariant is kept by kinds of step  *)
(* and not by commands:                                                    *)
(*   Budgeted   what was spent is granted, what was renewed was spent, and *)
(*              a cycle the card has left has an attempt to spare;         *)
(*   Answered   failures recorded and still owed are within the grant, and *)
(*              attempts come after the last rebaseline;                   *)
(*   Workable   the facts of an open cycle, and those still owed to it,    *)
(*              name policies it has heard of, and it pins the project.    *)
(* The theorems are at the end.                                            *)
(***************************************************************************)
EXTENDS Convergence, FiniteSetTheorems, SequenceTheorems, WellFoundedInduction, TLAPS

-----------------------------------------------------------------------------
(* Numbers. *)

\* A set of numbers has a least one.
LEMMA Least ==
    ASSUME NEW T \in SUBSET Nat, T # {}
    PROVE  \E n \in T : \A m \in T : n <= m
<1> DEFINE LessThan == {pair \in Nat \X Nat : pair[1] < pair[2]}
<1>1. IsWellFoundedOn(LessThan, Nat)
  <2>1. LessThan = OpToRel(<, Nat)
    BY DEF OpToRel
  <2> QED
    BY <2>1, NatLessThanWellFounded, Zenon
<1>2. PICK n \in T : \A m \in T : <<m, n>> \notin LessThan
  BY <1>1, WFMin
<1>3. ASSUME NEW m \in T
      PROVE  n <= m
  <2>1. m \in Nat /\ n \in Nat
    OBVIOUS
  <2>2. ~ (m < n)
    BY <1>2, <2>1
  <2> QED
    BY <2>1, <2>2
<1> QED
  BY <1>3

\* A bounded set of numbers has a greatest one.
LEMMA Greatest ==
    ASSUME NEW T, NEW bound \in Nat, T \subseteq 0 .. bound, T # {}
    PROVE  \E n \in T : \A m \in T : m <= n
<1> DEFINE Gaps == {bound - n : n \in T}
<1>1. Gaps \in SUBSET Nat /\ Gaps # {}
  <2>1. \A n \in T : bound - n \in Nat
    OBVIOUS
  <2> QED
    BY <2>1
<1>2. PICK gap \in Gaps : \A other \in Gaps : gap <= other
  BY <1>1, Least
<1>3. PICK n \in T : gap = bound - n
  BY <1>2
<1>4. \A m \in T : bound - n <= bound - m
  BY <1>2, <1>3
<1> QED
  BY <1>3, <1>4

\* More budgets of one size, or the same of a larger size, are no less.
LEMMA Grants ==
    ASSUME NEW a \in Nat, NEW b \in Nat, NEW m \in Nat, NEW n \in Nat, a <= b, m <= n
    PROVE  a * m <= b * n
<1>1. PICK c \in Nat : b = a + c
  <2>1. b - a \in Nat /\ b = a + (b - a)
    OBVIOUS
  <2> QED
    BY <2>1
<1>2. PICK d \in Nat : n = m + d
  <2>1. n - m \in Nat /\ n = m + (n - m)
    OBVIOUS
  <2> QED
    BY <2>1
<1>3. b * n = a * m + a * d + c * m + c * d
  BY <1>1, <1>2
<1>4. a * m \in Nat /\ a * d \in Nat /\ c * m \in Nat /\ c * d \in Nat
  OBVIOUS
<1> QED
  BY <1>3, <1>4

\* A policy's limits of a dimension lie between the least and the greatest.
LEMMA Limits ==
    ASSUME NEW chosen \in Policies, NEW dimension \in Dimensions, NEW level \in Risks
    PROVE  /\ SmallestLimit[chosen][dimension] \in Nat \ {0}
           /\ LargestLimit[chosen][dimension] \in Nat \ {0}
           /\ CardLimit[chosen][level][dimension] \in Nat \ {0}
           /\ SmallestLimit[chosen][dimension] <= CardLimit[chosen][level][dimension]
           /\ CardLimit[chosen][level][dimension] <= LargestLimit[chosen][dimension]
<1> DEFINE all == {CardLimit[chosen][r][dimension] : r \in Risks}
<1>1. all \subseteq 1 .. MaxU32 /\ MaxU32 \in Nat /\ CardLimit[chosen][level][dimension] \in all
  BY LedgerAssumption
<1>2. PICK most \in all : \A r \in Risks : CardLimit[chosen][r][dimension] <= most
  <2>1. all \subseteq 0 .. MaxU32 /\ all # {}
    BY <1>1
  <2> HIDE DEF all
  <2>2. \E n \in all : \A m \in all : m <= n
    BY <1>1, <2>1, Greatest
  <2> QED
    BY <2>2 DEF all
<1>3. PICK least \in all : \A r \in Risks : least <= CardLimit[chosen][r][dimension]
  <2>1. all \in SUBSET Nat /\ all # {}
    BY <1>1
  <2> HIDE DEF all
  <2>2. \E n \in all : \A m \in all : n <= m
    BY <1>1, <2>1, Least
  <2> QED
    BY <2>2 DEF all
<1>4. /\ LargestLimit[chosen][dimension] \in all
      /\ \A r \in Risks : CardLimit[chosen][r][dimension] <= LargestLimit[chosen][dimension]
  BY <1>2 DEF LargestLimit
<1>5. /\ SmallestLimit[chosen][dimension] \in all
      /\ \A r \in Risks : SmallestLimit[chosen][dimension] <= CardLimit[chosen][r][dimension]
  BY <1>3 DEF SmallestLimit
<1>6. all \subseteq Nat \ {0}
  BY <1>1
<1> QED
  BY <1>1, <1>4, <1>5, <1>6

\* So has the cycle's.
LEMMA CycleLimits == \A chosen \in Policies : CycleLimit[chosen] \in Nat \ {0}
  BY LedgerAssumption

-----------------------------------------------------------------------------
(* Counting facts. Which(l, T) are the places of the ledger l with a fact of T. *)

Which(l, T) == {i \in DOMAIN l : l[i] \in T}

Number(l, T) == Cardinality(Which(l, T))

\* Facts are counted among those of a sequence and those that are appended.
LEMMA Counting ==
    ASSUME NEW l \in Seq(Fact), NEW facts \in Seq(Fact), NEW T
    PROVE  /\ Which(l \o facts, T) =
                Which(l, T) \cup {Len(l) + i : i \in Which(facts, T)}
           /\ IsFiniteSet(Which(l, T))
           /\ Number(l, T) \in Nat /\ Number(facts, T) \in Nat /\ Number(l \o facts, T) \in Nat
           /\ Number(l, T) <= Number(l \o facts, T)
           /\ Number(l \o facts, T) <= Number(l, T) + Number(facts, T)
           /\ Number(l, T) <= Len(l)
<1> DEFINE both == l \o facts
           shifted == {Len(l) + i : i \in Which(facts, T)}
<1>0. /\ Len(l) \in Nat /\ DOMAIN l = 1 .. Len(l)
      /\ Len(facts) \in Nat /\ DOMAIN facts = 1 .. Len(facts)
      /\ DOMAIN both = 1 .. Len(l) + Len(facts)
      /\ \A i \in 1 .. Len(l) + Len(facts) :
            both[i] = IF i <= Len(l) THEN l[i] ELSE facts[i - Len(l)]
  OBVIOUS
<1> HIDE DEF both
<1>1. Which(both, T) = Which(l, T) \cup shifted
  <2>1. ASSUME NEW i \in Which(both, T) PROVE i \in Which(l, T) \cup shifted
    <3>1. i \in 1 .. Len(l) + Len(facts) /\ both[i] \in T
      BY <1>0, <2>1 DEF Which
    <3>2. CASE i <= Len(l)
      BY <1>0, <3>1, <3>2 DEF Which
    <3>3. CASE i > Len(l)
      <4>1. /\ i - Len(l) \in 1 .. Len(facts) /\ facts[i - Len(l)] \in T
            /\ i = Len(l) + (i - Len(l))
        BY <1>0, <3>1, <3>3
      <4> QED
        BY <1>0, <4>1 DEF Which
    <3> QED
      BY <1>0, <3>1, <3>2, <3>3
  <2>2. ASSUME NEW i \in Which(l, T) PROVE i \in Which(both, T)
    BY <1>0, <2>2 DEF Which
  <2>3. ASSUME NEW i \in Which(facts, T) PROVE Len(l) + i \in Which(both, T)
    <3>1. i \in 1 .. Len(facts) /\ facts[i] \in T
      BY <1>0, <2>3 DEF Which
    <3>2. /\ Len(l) + i \in 1 .. Len(l) + Len(facts) /\ ~(Len(l) + i <= Len(l))
          /\ (Len(l) + i) - Len(l) = i
      BY <1>0, <3>1
    <3>3. both[Len(l) + i] = facts[i]
      BY <1>0, <3>2
    <3> QED
      BY <1>0, <3>1, <3>2, <3>3 DEF Which
  <2> QED
    BY <2>1, <2>2, <2>3
<1>2. ASSUME NEW s \in Seq(Fact)
      PROVE  IsFiniteSet(Which(s, T)) /\ Number(s, T) \in Nat /\ Number(s, T) <= Len(s)
  <2>1. /\ Len(s) \in Nat /\ DOMAIN s = 1 .. Len(s) /\ Which(s, T) \subseteq 1 .. Len(s)
    BY <1>2 DEF Which
  <2>2. IsFiniteSet(1 .. Len(s)) /\ Cardinality(1 .. Len(s)) = Len(s)
    <3>1. \A n \in Nat : IsFiniteSet(1 .. n) /\ Cardinality(1 .. n) = n
      <4>1. \A n \in Nat : n \in Int /\ 1 \in Int /\ (IF 1 > n THEN 0 ELSE n - 1 + 1) = n
        OBVIOUS
      <4> QED
        BY <4>1, FS_Interval
    <3> QED
      BY ONLY <2>1, <3>1
  <2>3. IsFiniteSet(Which(s, T)) /\ Cardinality(Which(s, T)) <= Len(s)
    BY <2>1, <2>2, FS_Subset
  <2> QED
    BY <2>3, FS_CardinalityType DEF Number
<1>3. both \in Seq(Fact)
  BY DEF both
<1>4. IsFiniteSet(Which(both, T)) /\ Number(l, T) <= Number(both, T)
  <2>1. IsFiniteSet(Which(both, T)) /\ Which(l, T) \subseteq Which(both, T)
    BY <1>1, <1>2, <1>3
  <2> QED
    BY <2>1, FS_Subset DEF Number
<1>5. Number(both, T) <= Number(l, T) + Number(facts, T)
  <2>1. IsFiniteSet(shifted) /\ Cardinality(shifted) <= Cardinality(Which(facts, T))
    <3> DEFINE f == [i \in Which(facts, T) |-> Len(l) + i]
    <3>1. f \in Surjection(Which(facts, T), shifted)
      BY DEF Surjection
    <3>2. IsFiniteSet(Which(facts, T))
      BY <1>2
    <3> QED
      BY <3>1, <3>2, FS_Surjection
  <2>2. /\ IsFiniteSet(Which(l, T))
        /\ Cardinality(Which(l, T) \cup shifted) =
              Cardinality(Which(l, T)) + Cardinality(shifted)
                - Cardinality(Which(l, T) \cap shifted)
    BY <1>2, <2>1, FS_Union
  <2>3. Cardinality(Which(l, T) \cap shifted) \in Nat
    BY <1>2, FS_Intersection, FS_CardinalityType
  <2>4. Cardinality(Which(l, T)) \in Nat /\ Cardinality(shifted) \in Nat
        /\ Cardinality(Which(facts, T)) \in Nat
    BY <1>2, <2>1, FS_CardinalityType
  <2> QED
    BY <1>1, <2>1, <2>2, <2>3, <2>4 DEF Number
<1> QED
  BY <1>1, <1>2, <1>3, <1>4, <1>5 DEF both

\* None of a sequence counts toward what none of its facts is of; one counts once.
LEMMA FewFacts ==
    ASSUME NEW T
    PROVE  /\ \A facts : (\A i \in DOMAIN facts : facts[i] \notin T) => Number(facts, T) = 0
           /\ \A fact : Number(<<fact>>, T) \in 0 .. 1
<1>1. ASSUME NEW facts, \A i \in DOMAIN facts : facts[i] \notin T
      PROVE  Number(facts, T) = 0
  <2>1. Which(facts, T) = {}
    BY <1>1 DEF Which
  <2> QED
    BY <2>1, FS_EmptySet DEF Number
<1>2. ASSUME NEW fact
      PROVE  Number(<<fact>>, T) \in 0 .. 1
  <2>1. Which(<<fact>>, T) \subseteq {1}
    BY DEF Which
  <2>2. IsFiniteSet({1}) /\ Cardinality({1}) = 1
    BY FS_Singleton
  <2>3. /\ IsFiniteSet(Which(<<fact>>, T)) /\ Cardinality(Which(<<fact>>, T)) <= 1
    BY <2>1, <2>2, FS_Subset
  <2>4. Cardinality(Which(<<fact>>, T)) \in Nat
    BY <2>3, FS_CardinalityType
  <2> QED
    BY <2>3, <2>4 DEF Number
<1> QED
  BY <1>1, <1>2

\* What the ledger counts, as sets of facts.
AttemptsOn(cycle, chosen, subject, kind) ==
    {f \in Fact : f.what = kind /\ f.subject = subject /\ f.cycle = cycle /\ f.policy = chosen}

AnswersOn(cycle, chosen, card, kinds, dimension) ==
    {f \in Fact : /\ f.what \in kinds /\ f.subject = card /\ f.cycle = cycle
                  /\ f.dimension = dimension /\ f.policy = chosen}

\* The ledger's counts are numbers of facts,
LEMMA Counts ==
    ASSUME NEW l \in Seq(Fact), NEW cycle, NEW chosen, NEW subject, NEW kind
    PROVE  /\ CountedAttempts(l, cycle, chosen, subject, kind)
                = Which(l, AttemptsOn(cycle, chosen, subject, kind))
           /\ Attempts(l, cycle, chosen, subject, kind)
                = Number(l, AttemptsOn(cycle, chosen, subject, kind))
           /\ Renewals(l, cycle, chosen, subject, kind)
                = Number(l, AnswersOn(cycle, chosen, subject, {"renew"}, kind))
           /\ Waived(l, cycle, chosen, subject, kind)
                <=> Which(l, AnswersOn(cycle, chosen, subject, {"accept_risk", "split"},
                                       kind)) # {}
<1>1. \A i \in DOMAIN l : l[i] \in Fact
  OBVIOUS
<1>2. CountedAttempts(l, cycle, chosen, subject, kind)
                = Which(l, AttemptsOn(cycle, chosen, subject, kind))
  BY <1>1 DEF CountedAttempts, Which, AttemptsOn
<1>3. \A kinds : CountedDispositions(l, cycle, chosen, subject, kinds, kind)
                = Which(l, AnswersOn(cycle, chosen, subject, kinds, kind))
  BY <1>1 DEF CountedDispositions, Which, AnswersOn
<1> QED
  BY <1>2, <1>3 DEF Attempts, Renewals, Waived, Number

\* which only grow, and by no more than the facts appended.
LEMMA Tallies ==
    ASSUME NEW l \in Seq(Fact), NEW facts \in Seq(Fact),
           NEW cycle, NEW chosen, NEW subject, NEW kind
    PROVE  /\ l \o facts \in Seq(Fact)
           /\ Attempts(l, cycle, chosen, subject, kind) \in Nat
           /\ Attempts(l \o facts, cycle, chosen, subject, kind) \in Nat
           /\ Attempts(l, cycle, chosen, subject, kind)
                <= Attempts(l \o facts, cycle, chosen, subject, kind)
           /\ Attempts(l \o facts, cycle, chosen, subject, kind)
                <= Attempts(l, cycle, chosen, subject, kind)
                     + Number(facts, AttemptsOn(cycle, chosen, subject, kind))
           /\ Number(facts, AttemptsOn(cycle, chosen, subject, kind)) \in Nat
           /\ Renewals(l, cycle, chosen, subject, kind) \in Nat
           /\ Renewals(l \o facts, cycle, chosen, subject, kind) \in Nat
           /\ Renewals(l, cycle, chosen, subject, kind)
                <= Renewals(l \o facts, cycle, chosen, subject, kind)
           /\ Renewals(l \o facts, cycle, chosen, subject, kind)
                <= Renewals(l, cycle, chosen, subject, kind)
                     + Number(facts, AnswersOn(cycle, chosen, subject, {"renew"}, kind))
           /\ Number(facts, AnswersOn(cycle, chosen, subject, {"renew"}, kind)) \in Nat
           /\ Waived(l, cycle, chosen, subject, kind)
                => Waived(l \o facts, cycle, chosen, subject, kind)
<1> DEFINE both == l \o facts
<1>1. both \in Seq(Fact)
  OBVIOUS
<1>2. Which(l, AnswersOn(cycle, chosen, subject, {"accept_risk", "split"}, kind))
        \subseteq Which(both,
                        AnswersOn(cycle, chosen, subject, {"accept_risk", "split"}, kind))
  BY Counting
<1>3. \A T : /\ Number(l, T) \in Nat /\ Number(facts, T) \in Nat
             /\ Number(both, T) \in Nat
             /\ Number(l, T) <= Number(both, T)
             /\ Number(both, T) <= Number(l, T) + Number(facts, T)
  BY Counting
<1> HIDE DEF both
<1>4. /\ Attempts(l, cycle, chosen, subject, kind)
           = Number(l, AttemptsOn(cycle, chosen, subject, kind))
      /\ Renewals(l, cycle, chosen, subject, kind)
           = Number(l, AnswersOn(cycle, chosen, subject, {"renew"}, kind))
      /\ Waived(l, cycle, chosen, subject, kind)
           <=> Which(l, AnswersOn(cycle, chosen, subject, {"accept_risk", "split"}, kind)) # {}
  BY Counts
<1>5. /\ Attempts(both, cycle, chosen, subject, kind)
           = Number(both, AttemptsOn(cycle, chosen, subject, kind))
      /\ Renewals(both, cycle, chosen, subject, kind)
           = Number(both, AnswersOn(cycle, chosen, subject, {"renew"}, kind))
      /\ Waived(both, cycle, chosen, subject, kind)
           <=> Which(both,
                     AnswersOn(cycle, chosen, subject, {"accept_risk", "split"}, kind)) # {}
  BY <1>1, Counts
<1> QED
  BY <1>1, <1>2, <1>3, <1>4, <1>5 DEF both

-----------------------------------------------------------------------------
(* The budget of one dimension of a card in a cycle under a policy. *)

\* An attempt more is within the grant, whatever the card's risk.
Unspent(l, cycle, card, chosen, dimension) ==
    \/ Attempts(l, cycle, chosen, card, dimension)
         < LargestLimit[chosen][dimension] * (Renewals(l, cycle, chosen, card, dimension) + 1)
    \/ Waived(l, cycle, chosen, card, dimension)

Within(l, cycle, card, chosen, dimension) ==
    \/ Attempts(l, cycle, chosen, card, dimension)
         <= LargestLimit[chosen][dimension] * (Renewals(l, cycle, chosen, card, dimension) + 1)
              + Overshoot(dimension)
    \/ Waived(l, cycle, chosen, card, dimension)

SpentFirst(l, cycle, card, chosen, dimension) ==
    \/ SmallestLimit[chosen][dimension] * Renewals(l, cycle, chosen, card, dimension)
         <= Attempts(l, cycle, chosen, card, dimension)
    \/ LargestLimit[chosen][dimension] * Renewals(l, cycle, chosen, card, dimension) > MaxU32

LEMMA OvershootIsNat == \A dimension : Overshoot(dimension) \in Nat
  BY ConvergenceAssumption DEF Overshoot

\* What appended facts do to a budget.
LEMMA BudgetGrows ==
    ASSUME NEW l \in Seq(Fact), NEW facts \in Seq(Fact), NEW level \in Risks,
           NEW cycle, NEW card, NEW chosen \in Policies, NEW dimension \in Dimensions
    PROVE  LET attempts == Number(facts, AttemptsOn(cycle, chosen, card, dimension))
               renewals == Number(facts, AnswersOn(cycle, chosen, card, {"renew"}, dimension))
           IN  /\ attempts = 0 /\ Unspent(l, cycle, card, chosen, dimension)
                    => Unspent(l \o facts, cycle, card, chosen, dimension)
               /\ attempts = 0 /\ Within(l, cycle, card, chosen, dimension)
                    => Within(l \o facts, cycle, card, chosen, dimension)
               /\ attempts <= 1 + Overshoot(dimension)
                    /\ Unspent(l, cycle, card, chosen, dimension)
                    => Within(l \o facts, cycle, card, chosen, dimension)
               /\ renewals = 0 /\ SpentFirst(l, cycle, card, chosen, dimension)
                    => SpentFirst(l \o facts, cycle, card, chosen, dimension)
<1> DEFINE attempts == Number(facts, AttemptsOn(cycle, chosen, card, dimension))
           renewals == Number(facts, AnswersOn(cycle, chosen, card, {"renew"}, dimension))
           largest == LargestLimit[chosen][dimension]
           smallest == SmallestLimit[chosen][dimension]
           a == Attempts(l, cycle, chosen, card, dimension)
           b == Attempts(l \o facts, cycle, chosen, card, dimension)
           r == Renewals(l, cycle, chosen, card, dimension)
           s == Renewals(l \o facts, cycle, chosen, card, dimension)
           extra == Overshoot(dimension)
<1>1. /\ a \in Nat /\ b \in Nat /\ a <= b /\ b <= a + attempts /\ attempts \in Nat
      /\ r \in Nat /\ s \in Nat /\ r <= s /\ s <= r + renewals /\ renewals \in Nat
      /\ Waived(l, cycle, chosen, card, dimension)
           => Waived(l \o facts, cycle, chosen, card, dimension)
  BY Tallies
<1>2. largest \in Nat /\ smallest \in Nat /\ extra \in Nat
  BY Limits, OvershootIsNat
<1> HIDE DEF attempts, renewals, largest, smallest, a, b, r, s, extra
<1>3. /\ largest * (r + 1) \in Nat /\ largest * (s + 1) \in Nat
      /\ largest * (r + 1) <= largest * (s + 1)
  BY <1>1, <1>2, Grants
<1>4. /\ attempts = 0 /\ a < largest * (r + 1) => b < largest * (s + 1)
      /\ attempts = 0 /\ a <= largest * (r + 1) + extra => b <= largest * (s + 1) + extra
      /\ attempts <= 1 + extra /\ a < largest * (r + 1) => b <= largest * (s + 1) + extra
  BY <1>1, <1>2, <1>3
<1>5. ASSUME renewals = 0
      PROVE  /\ smallest * r <= a => smallest * s <= b
             /\ largest * r > MaxU32 => largest * s > MaxU32
  <2>1. r = s
    BY <1>1, <1>5
  <2>2. smallest * r \in Nat
    BY <1>1, <1>2
  <2> QED
    BY <1>1, <2>1, <2>2
<1>6. /\ attempts = 0 /\ Unspent(l, cycle, card, chosen, dimension)
           => Unspent(l \o facts, cycle, card, chosen, dimension)
      /\ attempts = 0 /\ Within(l, cycle, card, chosen, dimension)
           => Within(l \o facts, cycle, card, chosen, dimension)
      /\ attempts <= 1 + extra /\ Unspent(l, cycle, card, chosen, dimension)
           => Within(l \o facts, cycle, card, chosen, dimension)
  BY <1>1, <1>4 DEF Unspent, Within, largest, a, b, r, s, extra
<1>7. renewals = 0 /\ SpentFirst(l, cycle, card, chosen, dimension)
           => SpentFirst(l \o facts, cycle, card, chosen, dimension)
  BY <1>5 DEF SpentFirst, largest, smallest, a, b, r, s
<1> QED
  BY <1>6, <1>7 DEF attempts, renewals, extra

\* A budget nothing was recorded against is unspent, and one unspent is kept.
LEMMA Fresh ==
    ASSUME NEW l \in Seq(Fact), NEW level \in Risks,
           NEW cycle, NEW card, NEW chosen \in Policies, NEW dimension \in Dimensions
    PROVE  /\ Attempts(l, cycle, chosen, card, dimension) = 0
                => Unspent(l, cycle, card, chosen, dimension)
           /\ Unspent(l, cycle, card, chosen, dimension)
                => Within(l, cycle, card, chosen, dimension)
<1> DEFINE largest == LargestLimit[chosen][dimension]
           a == Attempts(l, cycle, chosen, card, dimension)
           r == Renewals(l, cycle, chosen, card, dimension)
           extra == Overshoot(dimension)
<1>1. a \in Nat /\ r \in Nat /\ largest \in Nat \ {0} /\ extra \in Nat
  <2>1. <<>> \in Seq(Fact)
    OBVIOUS
  <2> QED
    BY <2>1, Tallies, Limits, OvershootIsNat
<1> HIDE DEF largest, a, r, extra
<1>2. largest * (r + 1) \in Nat /\ 1 * 1 <= largest * (r + 1)
  <2>1. 1 <= largest /\ 1 <= r + 1 /\ largest \in Nat /\ r + 1 \in Nat /\ 1 \in Nat
    BY <1>1
  <2>2. 1 * 1 <= largest * (r + 1)
    BY ONLY <2>1, Grants
  <2> QED
    BY <2>1, <2>2
<1>3. a = 0 => a < largest * (r + 1)
  BY <1>1, <1>2
<1>4. a < largest * (r + 1) => a <= largest * (r + 1) + extra
  BY <1>1, <1>2
<1> QED
  BY <1>3, <1>4 DEF Unspent, Within, largest, a, r, extra

\* A dimension that is not exhausted is unspent.
LEMMA BudgetLeft ==
    ASSUME NEW l \in Seq(Fact), NEW level \in Risks, NEW cycle, NEW card,
           NEW chosen \in Policies, NEW dimension \in Dimensions,
           ~Exhausted(l, cycle, chosen, card, level, dimension)
    PROVE  Unspent(l, cycle, card, chosen, dimension)
<1> DEFINE limit == CardLimit[chosen][level][dimension]
           largest == LargestLimit[chosen][dimension]
           a == Attempts(l, cycle, chosen, card, dimension)
           r == Renewals(l, cycle, chosen, card, dimension)
<1>1. a \in Nat /\ r \in Nat /\ limit \in Nat /\ largest \in Nat /\ limit <= largest
  <2>1. <<>> \in Seq(Fact)
    OBVIOUS
  <2> QED
    BY <2>1, Tallies, Limits
<1>2. Waived(l, cycle, chosen, card, dimension) \/ ~(a >= limit * (r + 1))
  BY DEF Exhausted, EffectiveBudget
<1> HIDE DEF limit, largest, a, r
<1>3. limit * (r + 1) \in Nat /\ largest * (r + 1) \in Nat
      /\ limit * (r + 1) <= largest * (r + 1)
  BY <1>1, Grants
<1>4. ~(a >= limit * (r + 1)) => a < largest * (r + 1)
  BY <1>1, <1>3
<1> QED
  BY <1>2, <1>4 DEF Unspent, largest, a, r

\* A renewal answers an exhausted dimension.
LEMMA RenewalIsEarned ==
    ASSUME NEW l \in Seq(Fact), NEW facts \in Seq(Fact), NEW level \in Risks,
           NEW cycle, NEW card, NEW chosen \in Policies, NEW dimension \in Dimensions,
           Exhausted(l, cycle, chosen, card, level, dimension),
           Number(facts, AnswersOn(cycle, chosen, card, {"renew"}, dimension)) <= 1,
           SpentFirst(l, cycle, card, chosen, dimension)
    PROVE  SpentFirst(l \o facts, cycle, card, chosen, dimension)
<1> DEFINE limit == CardLimit[chosen][level][dimension]
           largest == LargestLimit[chosen][dimension]
           smallest == SmallestLimit[chosen][dimension]
           renewals == Number(facts, AnswersOn(cycle, chosen, card, {"renew"}, dimension))
           a == Attempts(l, cycle, chosen, card, dimension)
           b == Attempts(l \o facts, cycle, chosen, card, dimension)
           r == Renewals(l, cycle, chosen, card, dimension)
           s == Renewals(l \o facts, cycle, chosen, card, dimension)
<1>1. /\ a \in Nat /\ b \in Nat /\ a <= b
      /\ r \in Nat /\ s \in Nat /\ r <= s /\ s <= r + renewals /\ renewals \in Nat
  BY Tallies
<1>2. /\ limit \in Nat \ {0} /\ largest \in Nat \ {0} /\ smallest \in Nat \ {0}
      /\ smallest <= limit /\ limit <= largest
  BY Limits
<1>3. CASE s = r
  <2>1. renewals = 0 \/ renewals # 0
    OBVIOUS
  <2>2. smallest * r \in Nat
    BY <1>1, <1>2
  <2> HIDE DEF limit, largest, smallest, a, b, r, s, renewals
  <2>3. smallest * r <= a => smallest * s <= b
    BY <1>1, <1>3, <2>2
  <2>4. largest * r > MaxU32 => largest * s > MaxU32
    BY <1>3
  <2> QED
    BY <2>3, <2>4 DEF SpentFirst, largest, smallest, a, b, r, s
<1>4. CASE s = r + 1
  <2>1. \/ r + 1 > MaxU32
        \/ limit * (r + 1) > MaxU32
        \/ a >= limit * (r + 1)
    <3>1. MaxU32 \in Nat /\ None \notin Nat
      BY LedgerAssumption
    <3> DEFINE budget == EffectiveBudget(limit, r)
    <3>2. budget # None => a >= budget
      BY DEF Exhausted
    <3>3. \/ r + 1 > MaxU32 \/ limit * (r + 1) > MaxU32
          \/ budget = limit * (r + 1)
      BY DEF EffectiveBudget
    <3>4. ASSUME budget = limit * (r + 1) PROVE a >= limit * (r + 1)
      <4>1. limit * (r + 1) \in Nat
        <5>1. limit \in Nat /\ r \in Nat
          BY <1>1, <1>2
        <5> HIDE DEF limit, r
        <5> QED
          BY <5>1
      <4>2. budget # None
        BY <3>1, <3>4, <4>1
      <4> HIDE DEF budget, limit, a, r
      <4> QED
        BY <3>2, <3>4, <4>2
    <3> HIDE DEF budget, limit, a, r
    <3> QED
      BY <3>3, <3>4
  <2> HIDE DEF limit, largest, smallest, a, b, r, s, renewals
  <2>2. /\ smallest * s \in Nat /\ limit * s \in Nat /\ largest * s \in Nat
        /\ smallest * s <= limit * s /\ limit * s <= largest * s
    BY <1>1, <1>2, Grants
  <2>3. 1 * s <= largest * s /\ 1 * s = s
    <3>1. 1 <= largest /\ s <= s /\ largest \in Nat /\ s \in Nat /\ 1 \in Nat
      BY <1>1, <1>2
    <3> QED
      BY ONLY <3>1, Grants
  <2>4. MaxU32 \in Nat
    BY LedgerAssumption
  <2>5. smallest * s <= b \/ largest * s > MaxU32
    BY <1>1, <1>4, <2>1, <2>2, <2>3, <2>4
  <2> QED
    BY <2>5 DEF SpentFirst, largest, smallest, b, s
<1>5. s = r \/ s = r + 1
  <2>1. renewals <= 1
    OBVIOUS
  <2> HIDE DEF limit, largest, smallest, a, b, r, s, renewals
  <2> QED
    BY <1>1, <2>1
<1> QED
  BY <1>3, <1>4, <1>5

-----------------------------------------------------------------------------
(* Types. *)

Configs == [policy : Policies \cup {None}, authorization : BOOLEAN, exemption : BOOLEAN]

Merging == [at : {"idle", "conflicted", "recording"},
            cycle : Cycles \cup {None}, policy : Policies \cup {None}]

\* The types, and what goes with a card's and a merger's state.
Typed ==
    /\ TypeOK
    /\ \A card \in Cards : cardState[card] = "draft" => home[card] = None
    /\ \A merger \in Mergers :
          /\ merging[merger].at # "idle" => merging[merger].cycle \in Cycles
          /\ merging[merger].at = "recording" => merging[merger].policy \in Policies

\* The states the commands name, and where the tables lead.
LEMMA Tables ==
    /\ \A from \in L!CardStates : \A to :
          L!CheckTransition(from, to) => to \in L!CardStates /\ to # "draft"
    /\ \A to : L!CheckTransition("draft", to) => to \in {"ready", "abandoned"}
    /\ \A to : L!CheckTransition("ready", to) => to \in {"leased", "abandoned"}
    /\ {"draft", "ready", "active", "handed_off", "review_pending", "abandoned", "blocked"}
          \subseteq L!CardStates
    /\ \A from \in L!CycleStatuses : \A to :
          L!CheckCycleTransition(from, to) =>
             /\ to \in L!CycleStatuses /\ to \notin {"draft", "absent"}
             /\ ~L!IsTerminalCycle(to) => ~L!IsTerminalCycle(from)
    /\ "absent" \notin L!CycleStatuses /\ "draft" \in L!CycleStatuses
  BY DEF L!CheckTransition, L!Successors, L!CardStates, L!CheckCycleTransition,
     L!CycleSuccessors, L!CycleStatuses, L!IsTerminalCycle

\* The constants, and what the initial state needs of them.
LEMMA ConstantsTyped ==
    /\ MaxU32 \in Nat /\ MaxFacts \in Nat /\ MaxFacts <= MaxU32 /\ MaxDeclared \in Nat
    /\ None \notin Cards /\ None \notin Cycles /\ None \notin Policies
    /\ None \notin Dimensions /\ None \notin Nat
    /\ IsFiniteSet(Cycles) /\ IsFiniteSet(Mergers)
    /\ FirstPolicy \in Policies \cup {None} /\ FirstAuthorization \in BOOLEAN
    /\ Dimensions = {"review_return", "repair_attempt", "gate_failure",
                     "material_scope_revision"}
    /\ ReturnReasons \subseteq Reasons
  BY LedgerAssumption, ConvergenceAssumption DEF Dimensions, AttemptKinds

\* A reason that a kind admits is a reason.
LEMMA AdmitsReasons == \A kind \in AttemptKinds : Admits(kind) \subseteq Reasons
<1>1. ASSUME NEW kind \in AttemptKinds, NEW reason \in Admits(kind) PROVE reason \in Reasons
  <2>1. kind \in {"review_return", "repair_attempt", "gate_failure",
                  "material_scope_revision", "integration_failure"}
    BY DEF AttemptKinds
  <2>2. CASE kind = "review_return"
    BY <1>1, <2>2 DEF Admits, Reasons
  <2>3. CASE kind = "repair_attempt"
    BY <1>1, <2>3 DEF Admits, Reasons
  <2>4. CASE kind = "gate_failure"
    BY <1>1, <2>4 DEF Admits, Reasons
  <2>5. CASE kind = "material_scope_revision"
    BY <1>1, <2>5 DEF Admits, Reasons
  <2>6. CASE kind = "integration_failure"
    BY <1>1, <2>6 DEF Admits, Reasons
  <2> QED
    BY <2>1, <2>2, <2>3, <2>4, <2>5, <2>6
<1> QED
  BY <1>1

\* An attempt of the card in the cycle, measured by the policy in force.
Spending(fact, card, cycle, chosen) ==
    /\ fact \in Fact
    /\ fact.what \in Dimensions /\ fact.subject = card
    /\ fact.cycle = cycle /\ fact.policy = chosen
    /\ fact.reason \in Admits(fact.what)

\* What the commands record.
LEMMA FactsMade ==
    /\ \A cycle \in Cycles, subject \in Subjects, kind \in AttemptKinds, chosen \in Policies :
          \A reason \in Admits(kind) :
             /\ AttemptFact(cycle, subject, kind, reason, chosen) \in Fact
             /\ kind # "integration_failure" =>
                   Spending(AttemptFact(cycle, subject, kind, reason, chosen),
                            subject, cycle, chosen)
    /\ \A cycle \in Cycles, subject \in Subjects, kind \in DispositionKinds :
          \A dimension \in Dimensions \cup {None}, chosen \in Policies,
             retires \in Policies \cup {None} :
             DispositionFact(cycle, subject, kind, dimension, chosen, retires) \in Fact
    /\ \A cycle, subject, kind, reason, chosen :
          /\ AttemptFact(cycle, subject, kind, reason, chosen).what = kind
          /\ AttemptFact(cycle, subject, kind, reason, chosen).cycle = cycle
          /\ AttemptFact(cycle, subject, kind, reason, chosen).subject = subject
          /\ AttemptFact(cycle, subject, kind, reason, chosen).policy = chosen
          /\ AttemptFact(cycle, subject, kind, reason, chosen).reason = reason
    /\ \A cycle, subject, kind, dimension, chosen, retires :
          /\ DispositionFact(cycle, subject, kind, dimension, chosen, retires).what = kind
          /\ DispositionFact(cycle, subject, kind, dimension, chosen, retires).cycle = cycle
          /\ DispositionFact(cycle, subject, kind, dimension, chosen, retires).subject
                = subject
          /\ DispositionFact(cycle, subject, kind, dimension, chosen, retires).dimension
                = dimension
          /\ DispositionFact(cycle, subject, kind, dimension, chosen, retires).policy = chosen
          /\ DispositionFact(cycle, subject, kind, dimension, chosen, retires).retires
                = retires
    /\ "regression" \in Admits("gate_failure")
    /\ "scope_change" \in Admits("material_scope_revision")
    /\ "integration_conflict" \in Admits("integration_failure")
<1>1. \A cycle, subject, kind, reason, chosen :
          /\ AttemptFact(cycle, subject, kind, reason, chosen).what = kind
          /\ AttemptFact(cycle, subject, kind, reason, chosen).cycle = cycle
          /\ AttemptFact(cycle, subject, kind, reason, chosen).subject = subject
          /\ AttemptFact(cycle, subject, kind, reason, chosen).policy = chosen
          /\ AttemptFact(cycle, subject, kind, reason, chosen).reason = reason
  BY DEF AttemptFact
<1>2. \A cycle, subject, kind, dimension, chosen, retires :
          /\ DispositionFact(cycle, subject, kind, dimension, chosen, retires).what = kind
          /\ DispositionFact(cycle, subject, kind, dimension, chosen, retires).cycle = cycle
          /\ DispositionFact(cycle, subject, kind, dimension, chosen, retires).subject
                = subject
          /\ DispositionFact(cycle, subject, kind, dimension, chosen, retires).dimension
                = dimension
          /\ DispositionFact(cycle, subject, kind, dimension, chosen, retires).policy = chosen
          /\ DispositionFact(cycle, subject, kind, dimension, chosen, retires).retires
                = retires
  BY DEF DispositionFact
<1>3. ASSUME NEW cycle \in Cycles, NEW subject \in Subjects, NEW kind \in AttemptKinds,
             NEW chosen \in Policies, NEW reason \in Admits(kind)
      PROVE  /\ AttemptFact(cycle, subject, kind, reason, chosen) \in Fact
             /\ kind # "integration_failure" =>
                   Spending(AttemptFact(cycle, subject, kind, reason, chosen),
                            subject, cycle, chosen)
  <2>1. reason \in Reasons
    BY AdmitsReasons
  <2>2. AttemptFact(cycle, subject, kind, reason, chosen) \in Fact
    BY <2>1 DEF AttemptFact, Fact
  <2> QED
    BY <1>1, <2>2 DEF Spending, Dimensions
<1>4. ASSUME NEW cycle \in Cycles, NEW subject \in Subjects, NEW kind \in DispositionKinds,
             NEW dimension \in Dimensions \cup {None}, NEW chosen \in Policies,
             NEW retires \in Policies \cup {None}
      PROVE  DispositionFact(cycle, subject, kind, dimension, chosen, retires) \in Fact
  BY DEF DispositionFact, Fact
<1>5. /\ "regression" \in Admits("gate_failure")
      /\ "scope_change" \in Admits("material_scope_revision")
      /\ "integration_conflict" \in Admits("integration_failure")
  BY DEF Admits
<1> QED
  BY <1>1, <1>2, <1>3, <1>4, <1>5

-----------------------------------------------------------------------------
(* What a step of each kind does. *)

\* A command on a card moves no other card and no cycle; what it appends are
\* attempts of the card in its (new) cycle, asked of the budget of its old one.
Spends(card, facts) ==
    /\ ledger' = ledger \o facts
    /\ facts \in Seq(Fact)
    /\ \A i \in DOMAIN facts : Spending(facts[i], card, home'[card], policy)
    /\ \A dimension \in Dimensions :
          Number(facts, AttemptsOn(home'[card], policy, card, dimension))
             <= 1 + Overshoot(dimension)
    /\ \/ facts = <<>> /\ home'[card] = home[card]
       \/ ExhaustedNow(card) = {}
    /\ facts = <<>> \/ (policy \in Policies /\ home'[card] \in Cycles)

OnCard(card) ==
    /\ UNCHANGED <<projectVars, cycleVars, merging>>
    /\ \A other \in Cards : other = card \/ home'[other] = home[other]
    /\ \/ home'[card] = home[card]
       \/ home'[card] \in Cycles /\ (Takes("named") => Exists(home'[card]))
    /\ \E facts : Spends(card, facts)

\* A disposition answers an exhausted dimension of the card.
Answers(card, fact) ==
    /\ ledger' = Append(ledger, fact)
    /\ fact \in Fact /\ WellBound(fact)
    /\ fact.what \in {"renew", "accept_risk", "split", "abandon", "redesign"}
    /\ fact.subject = card /\ fact.cycle = home[card] /\ fact.policy = policy
    /\ fact.what = "renew" => fact.dimension \in ExhaustedNow(card)

OnEscalation(card) ==
    /\ UNCHANGED <<projectVars, cycleVars, home, risk, begun, merging>>
    /\ policy \in Policies /\ home[card] \in Cycles
    /\ \E fact : Answers(card, fact)

OnCycle(cycle) ==
    /\ UNCHANGED <<projectVars, cardVars, ledger, merging>>
    /\ \A other \in Cycles :
          \/ cycleStatus'[other] = cycleStatus[other] /\ pinned'[other] = pinned[other]
          \/ /\ ~Exists(other)
             /\ cycleStatus'[other] = "draft" /\ pinned'[other] = Config
          \/ /\ Exists(other) /\ cycleStatus'[other] \notin {"absent", "draft"}
             /\ pinned'[other] = pinned[other]
             /\ ~L!IsTerminalCycle(cycleStatus'[other])
                  => ~L!IsTerminalCycle(cycleStatus[other])

\* A merger goes from one state to the next, and may append the fact it owes.
OnMerger(merger) ==
    /\ UNCHANGED <<projectVars, cycleVars, cardVars>>
    /\ merging' = [merging EXCEPT ![merger] = merging'[merger]]
    /\ \/ /\ UNCHANGED ledger
          /\ merging'[merger] = Idle
       \/ /\ UNCHANGED ledger
          /\ merging[merger] = Idle
          /\ merging'[merger].at = "conflicted" /\ merging'[merger].cycle \in Cycles
          /\ Exists(merging'[merger].cycle)
          /\ policy # None => ~CycleEscalated(ledger, merging'[merger].cycle, policy)
       \/ /\ UNCHANGED ledger
          /\ merging[merger].at = "conflicted" /\ merging'[merger].at = "recording"
          /\ merging'[merger].cycle = merging[merger].cycle
          /\ policy \in Policies /\ merging'[merger].policy = policy
       \/ /\ merging[merger].at = "recording" /\ merging'[merger] = Idle
          /\ ledger' = Append(ledger, AttemptFact(merging[merger].cycle, None,
                                         "integration_failure", "integration_conflict",
                                         merging[merger].policy))

OnProject ==
    /\ UNCHANGED <<cycleVars, cardVars, ledger, merging>>
    /\ \/ /\ UNCHANGED <<authorization, exemption>>
          /\ policy' \in Policies
          /\ \A i \in DOMAIN ledger : ~IsAttempt(ledger[i])
          /\ Takes("settled") => NoCycleOpen
       \/ /\ UNCHANGED policy
          /\ Takes("settled") /\ Takes("early") => NoCycleOpen

\* Every open cycle, and no other, is told of the policy it loses.
OnPolicy(new, facts) ==
    /\ UNCHANGED <<authorization, exemption, cycleStatus, cardVars, merging>>
    /\ policy \in Policies /\ new \in Policies /\ new # policy /\ policy' = new
    /\ Takes("fresh") => NamedByNoFact(new)
    /\ \A cycle \in Cycles : Open(cycle) => pinned'[cycle] = ConfigWith(new)
    /\ ledger' = ledger \o facts
    /\ facts \in Seq(Fact)
    /\ \A i \in DOMAIN facts :
          /\ facts[i].what = "rebaseline" /\ facts[i].subject = None
          /\ facts[i].policy = new /\ facts[i].retires = policy /\ Open(facts[i].cycle)
    /\ \A cycle \in Cycles : Open(cycle) => \E i \in DOMAIN facts : facts[i].cycle = cycle

AnyStep ==
    \/ \E card \in Cards : OnCard(card)
    \/ \E card \in Cards : OnEscalation(card)
    \/ \E cycle \in Cycles : OnCycle(cycle)
    \/ \E merger \in Mergers : OnMerger(merger)
    \/ OnProject
    \/ \E new, facts : OnPolicy(new, facts)
    \/ UNCHANGED vars

\* A card that is not a draft is in a cycle, of which the budget was asked.
LEMMA CardTyped ==
    ASSUME Typed, NEW card \in Cards
    PROVE  /\ cardState[card] \in L!CardStates /\ risk[card] \in Risks
           /\ home[card] \in Cycles \cup {None}
           /\ cardState[card] # "draft" => home[card] \in Cycles
           /\ policy \in Policies \cup {None}
           /\ ledger \in Seq(Fact) /\ Len(ledger) \in Nat
           /\ card \in Subjects /\ None \in Subjects
  BY DEF Typed, TypeOK, Subjects

\* What `Spends` asks, of no fact, of one, and of a handoff's.
LEMMA SpendsNothing ==
    ASSUME Typed, NEW card \in Cards, ledger' = ledger,
           home'[card] = home[card] \/ ExhaustedNow(card) = {}
    PROVE  Spends(card, <<>>)
<1>1. ledger' = ledger \o <<>> /\ <<>> \in Seq(Fact) /\ DOMAIN <<>> = {}
  BY CardTyped
<1>2. \A T : Number(<<>>, T) = 0
  BY FewFacts
<1>3. \A dimension \in Dimensions :
          Number(<<>>, AttemptsOn(home'[card], policy, card, dimension))
             <= 1 + Overshoot(dimension)
  BY <1>2, OvershootIsNat
<1> QED
  BY <1>1, <1>3 DEF Spends

LEMMA SpendsOne ==
    ASSUME Typed, NEW card \in Cards, NEW fact,
           Spending(fact, card, home'[card], policy), ledger' = ledger \o <<fact>>,
           policy \in Policies, home'[card] \in Cycles, ExhaustedNow(card) = {}
    PROVE  Spends(card, <<fact>>)
<1>1. fact \in Fact
  BY DEF Spending
<1>2. <<fact>> \in Seq(Fact) /\ \A i \in DOMAIN <<fact>> : <<fact>>[i] = fact
  BY <1>1
<1>3. \A T : Number(<<fact>>, T) \in 0 .. 1
  BY FewFacts
<1>4. \A dimension \in Dimensions :
          Number(<<fact>>, AttemptsOn(home'[card], policy, card, dimension))
             <= 1 + Overshoot(dimension)
  BY <1>3, OvershootIsNat
<1> QED
  BY <1>2, <1>4 DEF Spends

LEMMA SpendsHandoff ==
    ASSUME Typed, NEW card \in Cards, NEW declared \in 0 .. MaxDeclared,
           NEW repairs \in Seq(Fact),
           \/ repairs = <<>>
           \/ \E reason \in Admits("repair_attempt") :
                 repairs = <<AttemptFact(home[card], card, "repair_attempt", reason, policy)>>,
           ledger' = ledger \o (GateFailureFacts(card, declared) \o repairs),
           policy \in Policies, home'[card] = home[card], home[card] \in Cycles,
           ExhaustedNow(card) = {}
    PROVE  Spends(card, GateFailureFacts(card, declared) \o repairs)
<1> DEFINE failures == GateFailureFacts(card, declared)
           failure == AttemptFact(home[card], card, "gate_failure", "regression", policy)
           facts == failures \o repairs
<1>1. MaxDeclared \in Nat /\ declared \in Nat /\ declared <= MaxDeclared
  BY ConstantsTyped
<1>2. failure \in Fact /\ Spending(failure, card, home[card], policy)
      /\ failure.what = "gate_failure"
  <2>1. /\ "gate_failure" \in AttemptKinds /\ "regression" \in Admits("gate_failure")
        /\ card \in Subjects
    BY CardTyped, FactsMade DEF AttemptKinds
  <2> QED
    BY <2>1, FactsMade
<1>3. /\ failures \in Seq(Fact) /\ Len(failures) = declared /\ DOMAIN failures = 1 .. declared
      /\ \A i \in 1 .. declared : failures[i] = failure
  <2>1. failures = [i \in 1 .. declared |-> failure]
    BY DEF GateFailureFacts
  <2> HIDE DEF failures, failure
  <2> QED
    BY <1>1, <1>2, <2>1
<1>4. \A i \in DOMAIN repairs :
          /\ Spending(repairs[i], card, home[card], policy)
          /\ repairs[i].what = "repair_attempt"
          /\ Len(repairs) = 1
  <2>1. CASE repairs = <<>>
    BY <2>1
  <2>2. CASE repairs # <<>>
    <3>1. PICK reason \in Admits("repair_attempt") :
             repairs = <<AttemptFact(home[card], card, "repair_attempt", reason, policy)>>
      BY <2>2
    <3>2. "repair_attempt" \in AttemptKinds /\ card \in Subjects
      BY CardTyped DEF AttemptKinds
    <3> DEFINE repair == AttemptFact(home[card], card, "repair_attempt", reason, policy)
    <3>3. Spending(repair, card, home[card], policy) /\ repair.what = "repair_attempt"
      BY <3>2, FactsMade
    <3> HIDE DEF repair
    <3>4. repairs = <<repair>>
      BY <3>1 DEF repair
    <3> QED
      BY <3>3, <3>4
  <2> QED
    BY <2>1, <2>2
<1> HIDE DEF failures, failure
<1>5. facts \in Seq(Fact) /\ \A i \in DOMAIN facts : Spending(facts[i], card, home[card], policy)
  <2>1. facts \in Seq(Fact)
    BY <1>3
  <2>2. ASSUME NEW i \in DOMAIN facts PROVE Spending(facts[i], card, home[card], policy)
    <3>1. /\ i \in 1 .. declared + Len(repairs) /\ Len(repairs) \in Nat
          /\ facts[i] = IF i <= declared THEN failures[i] ELSE repairs[i - declared]
      BY <1>1, <1>3, <2>2
    <3>2. CASE i <= declared
      BY <1>2, <1>3, <3>1, <3>2
    <3>3. CASE ~(i <= declared)
      <4>1. i - declared \in DOMAIN repairs
        BY <1>1, <3>1, <3>3
      <4> QED
        BY <1>4, <3>1, <3>3, <4>1
    <3> QED
      BY <3>2, <3>3
  <2> QED
    BY <2>1, <2>2
<1>6. ASSUME NEW dimension \in Dimensions
      PROVE  Number(facts, AttemptsOn(home[card], policy, card, dimension))
                <= 1 + Overshoot(dimension)
  <2> DEFINE T == AttemptsOn(home[card], policy, card, dimension)
  <2>1. /\ Number(failures, T) \in Nat /\ Number(repairs, T) \in Nat /\ Number(facts, T) \in Nat
        /\ Number(facts, T) <= Number(failures, T) + Number(repairs, T)
        /\ Number(failures, T) <= declared /\ Number(repairs, T) <= Len(repairs)
    BY <1>3, Counting
  <2>2. Overshoot(dimension) \in Nat
    BY OvershootIsNat
  <2>3. dimension # "gate_failure" => Number(failures, T) = 0
    <3>1. ASSUME dimension # "gate_failure"
          PROVE  \A i \in DOMAIN failures : failures[i] \notin T
      BY <1>2, <1>3, <3>1 DEF AttemptsOn
    <3> QED
      BY <3>1, FewFacts
  <2>4. dimension # "repair_attempt" => Number(repairs, T) = 0
    <3>1. ASSUME dimension # "repair_attempt"
          PROVE  \A i \in DOMAIN repairs : repairs[i] \notin T
      BY <1>4, <3>1 DEF AttemptsOn
    <3> QED
      BY <3>1, FewFacts
  <2>5. Len(repairs) \in Nat /\ Len(repairs) <= 1
    <3>1. CASE repairs = <<>>
      BY <3>1
    <3>2. CASE repairs # <<>>
      BY <1>4, <3>2
    <3> QED
      BY <3>1, <3>2
  <2>6. dimension = "gate_failure" => declared <= 1 + Overshoot(dimension)
    BY <1>1 DEF Overshoot
  <2> DEFINE a == Number(failures, T)
             b == Number(repairs, T)
             c == Number(facts, T)
             extra == Overshoot(dimension)
  <2> HIDE DEF a, b, c, extra
  <2>7. /\ a \in Nat /\ b \in Nat /\ c \in Nat /\ extra \in Nat
        /\ c <= a + b /\ a <= declared /\ b <= 1
        /\ dimension # "gate_failure" => a = 0
        /\ dimension # "repair_attempt" => b = 0
        /\ dimension = "gate_failure" => declared <= 1 + extra
    <3>1. b <= 1
      BY <2>1, <2>5 DEF b
    <3> QED
      BY <2>1, <2>2, <2>3, <2>4, <2>6, <3>1 DEF a, b, c, extra
  <2>8. c <= 1 + extra
    <3>1. CASE dimension = "gate_failure"
      BY <1>1, <2>7, <3>1
    <3>2. CASE dimension # "gate_failure"
      BY <2>7, <3>2
    <3> QED
      BY <3>1, <3>2
  <2> QED
    BY <2>8 DEF c, extra
<1>7. /\ ledger' = ledger \o facts
      /\ \A i \in DOMAIN facts : Spending(facts[i], card, home'[card], policy)
      /\ \A dimension \in Dimensions :
            Number(facts, AttemptsOn(home'[card], policy, card, dimension))
               <= 1 + Overshoot(dimension)
  BY <1>5, <1>6 DEF failures
<1> QED
  BY <1>5, <1>7 DEF Spends, failures

\* A command that moves the card alone, and records nothing.
LEMMA MovesEffect ==
    ASSUME Typed, NEW card \in Cards, NEW state \in L!CardStates \ {"draft"},
           NEW cycle \in Cycles,
           SetCard(card, state), UNCHANGED <<projectVars, cycleVars, risk, ledger, merging>>,
           begun' \subseteq Cards,
           \/ home' = home /\ cardState[card] # "draft"
           \/ home' = [home EXCEPT ![card] = cycle] /\ ExhaustedNow(card) = {}
              /\ (Takes("named") => Exists(cycle))
    PROVE  Typed' /\ OnCard(card)
<1>1. /\ \A other \in Cards : other = card \/ home'[other] = home[other]
      /\ \/ home'[card] = home[card] /\ cardState[card] # "draft"
         \/ /\ home'[card] = cycle /\ (Takes("named") => Exists(cycle))
            /\ ExhaustedNow(card) = {}
      /\ home' \in [Cards -> Cycles \cup {None}]
  BY DEF Typed, TypeOK
<1>2. home'[card] \in Cycles
  BY <1>1, CardTyped
<1>3. Spends(card, <<>>)
  BY <1>1, SpendsNothing
<1>4. OnCard(card)
  BY <1>1, <1>3 DEF OnCard, projectVars, cycleVars
<1>5. /\ cardState' \in [Cards -> L!CardStates]
      /\ cardState'[card] = state
      /\ \A other \in Cards : other = card \/ cardState'[other] = cardState[other]
  BY DEF Typed, TypeOK, SetCard
<1>6. Typed'
  BY <1>1, <1>2, <1>5 DEF Typed, TypeOK, projectVars, cycleVars
<1> QED
  BY <1>4, <1>6

\* A command that appends attempts: the types, given what it spends.
LEMMA SpendingTyped ==
    ASSUME Typed, NEW card \in Cards, NEW state \in L!CardStates \ {"draft"}, NEW facts,
           SetCard(card, state), UNCHANGED <<projectVars, cycleVars, merging>>,
           begun' \subseteq Cards, risk' \in [Cards -> Risks],
           home' = [home EXCEPT ![card] = home'[card]], home'[card] \in Cycles,
           Takes("named") => home'[card] = home[card] \/ Exists(home'[card]),
           Spends(card, facts), Append_(facts)
    PROVE  Typed' /\ OnCard(card)
<1>1. /\ \A other \in Cards : other = card \/ home'[other] = home[other]
      /\ home' \in [Cards -> Cycles \cup {None}]
  BY DEF Typed, TypeOK
<1>2. OnCard(card)
  BY <1>1 DEF OnCard, projectVars, cycleVars
<1>3. /\ cardState' \in [Cards -> L!CardStates]
      /\ cardState'[card] = state
      /\ \A other \in Cards : other = card \/ cardState'[other] = cardState[other]
  BY DEF Typed, TypeOK, SetCard
<1>4. ledger' \in Seq(Fact) /\ Len(ledger') <= MaxFacts
  <2>1. facts \in Seq(Fact) /\ ledger \in Seq(Fact)
    BY CardTyped DEF Spends
  <2>2. Len(ledger \o facts) = Len(ledger) + Len(facts) /\ ledger \o facts \in Seq(Fact)
    BY <2>1
  <2> QED
    BY <2>2 DEF Append_
<1>5. Typed'
  BY <1>1, <1>3, <1>4 DEF Typed, TypeOK, projectVars, cycleVars
<1> QED
  BY <1>2, <1>5

\* The commands that only move their card,
LEMMA MovingCommands ==
    ASSUME Typed, NEW card \in Cards,
           \/ \E cycle \in Cycles : ActivateCard(card, cycle)
           \/ TakeUp(card)
           \/ TakeBack(card)
           \/ BeginReview(card)
           \/ Block(card)
           \/ AbandonCard(card)
    PROVE  Typed' /\ OnCard(card)
<1>1. begun \subseteq Cards /\ cardState[card] \in L!CardStates
  BY DEF Typed, TypeOK
<1>2. ASSUME NEW cycle \in Cycles, ActivateCard(card, cycle) PROVE Typed' /\ OnCard(card)
  <2>1. ExhaustedNow(card) = {}
    BY <1>2 DEF ActivateCard, Typed, ExhaustedNow
  <2>2. /\ SetCard(card, "ready") /\ UNCHANGED <<projectVars, cycleVars, risk, ledger, merging>>
        /\ begun' \subseteq Cards /\ home' = [home EXCEPT ![card] = cycle] /\ Exists(cycle)
    BY <1>1, <1>2 DEF ActivateCard
  <2>3. "ready" \in L!CardStates \ {"draft"}
    BY Tables
  <2> QED
    BY <2>1, <2>2, <2>3, MovesEffect
<1>3. ASSUME NEW state \in L!CardStates \ {"draft"}, cardState[card] # "draft",
             SetCard(card, state),
             UNCHANGED <<projectVars, cycleVars, home, risk, ledger, merging>>,
             begun' \subseteq Cards
      PROVE  Typed' /\ OnCard(card)
  <2>1. home[card] \in Cycles
    BY <1>3, CardTyped
  <2> QED
    BY <1>3, <2>1, MovesEffect
<1>4. CASE TakeUp(card)
  <2>1. "active" \in L!CardStates \ {"draft"}
    BY Tables
  <2> QED
    BY <1>1, <1>3, <1>4, <2>1 DEF TakeUp
<1>5. CASE TakeBack(card)
  <2>1. "active" \in L!CardStates \ {"draft"} /\ cardState[card] # "draft"
    BY <1>5, Tables DEF TakeBack
  <2> QED
    BY <1>1, <1>3, <1>5, <2>1 DEF TakeBack
<1>6. CASE BeginReview(card)
  <2>1. "review_pending" \in L!CardStates \ {"draft"} /\ cardState[card] # "draft"
    BY <1>6, Tables DEF BeginReview
  <2> QED
    BY <1>1, <1>3, <1>6, <2>1 DEF BeginReview
<1>7. CASE Block(card)
  <2>1. "blocked" \in L!CardStates \ {"draft"} /\ cardState[card] # "draft"
    BY <1>7, Tables DEF Block
  <2> QED
    BY <1>1, <1>3, <1>7, <2>1 DEF Block
<1>8. CASE AbandonCard(card)
  <2>1. "abandoned" \in L!CardStates \ {"draft"} /\ cardState[card] # "draft"
    BY <1>8, Tables DEF AbandonCard
  <2> QED
    BY <1>1, <1>3, <1>8, <2>1 DEF AbandonCard
<1> QED
  BY <1>2, <1>4, <1>5, <1>6, <1>7, <1>8

\* a handoff,
LEMMA HandOffEffect ==
    ASSUME Typed, NEW card \in Cards, NEW declared \in 0 .. (MaxDeclared + 1),
           HandOff(card, declared)
    PROVE  Typed' /\ OnCard(card)
<1>1. /\ begun' \subseteq Cards /\ cardState[card] \in L!CardStates
      /\ SetCard(card, "handed_off") /\ UNCHANGED <<projectVars, cycleVars, home, risk, merging>>
      /\ "handed_off" \in L!CardStates \ {"draft"} /\ cardState[card] # "draft"
      /\ ExhaustedNow(card) = {}
  BY Tables DEF Typed, TypeOK, HandOff, RequireConvergenceBudget
<1>2. home[card] \in Cycles /\ policy \in Policies \cup {None}
  BY <1>1, CardTyped
<1>3. CASE policy = None
  <2>1. ledger' = ledger
    BY <1>3 DEF HandOff
  <2> QED
    BY <1>1, <1>2, <2>1, MovesEffect
<1>4. CASE policy # None
  <2>1. policy \in Policies /\ declared \in 0 .. MaxDeclared
    BY <1>2, <1>4, ConstantsTyped DEF HandOff, ValidateDeclaredGateFailures
  <2>2. /\ risk' \in [Cards -> Risks] /\ home' = [home EXCEPT ![card] = home'[card]]
        /\ home'[card] = home[card]
    BY <1>1 DEF Typed, TypeOK
  <2> DEFINE failures == GateFailureFacts(card, declared)
  <2>3. failures \in Seq(Fact)
    <3> DEFINE failure == AttemptFact(home[card], card, "gate_failure", "regression", policy)
    <3>1. failure \in Fact
      <4>1. /\ "gate_failure" \in AttemptKinds /\ "regression" \in Admits("gate_failure")
            /\ card \in Subjects
        BY CardTyped, FactsMade DEF AttemptKinds
      <4> QED
        BY <1>2, <2>1, <4>1, FactsMade
    <3>2. failures = [i \in 1 .. declared |-> failure]
      BY DEF GateFailureFacts
    <3> HIDE DEF failures, failure
    <3>3. declared \in Nat
      BY <2>1
    <3> QED
      BY <3>1, <3>2, <3>3
  <2>4. \E repairs \in Seq(Fact) :
           /\ \/ repairs = <<>>
              \/ \E reason \in Admits("repair_attempt") :
                    repairs = <<AttemptFact(home[card], card, "repair_attempt", reason,
                                            policy)>>
           /\ Append_(failures \o repairs)
    <3>1. CASE Append_(failures)
      <4>1. failures \o <<>> = failures /\ <<>> \in Seq(Fact)
        BY <2>3
      <4> HIDE DEF failures
      <4> QED
        BY <3>1, <4>1
    <3>2. ASSUME NEW reason \in RepairReasons(card),
                 Append_(Append(failures, AttemptFact(home[card], card, "repair_attempt",
                                                      reason, policy)))
          PROVE  \E repairs \in Seq(Fact) :
                   /\ \/ repairs = <<>>
                      \/ \E other \in Admits("repair_attempt") :
                            repairs = <<AttemptFact(home[card], card, "repair_attempt", other,
                                                    policy)>>
                   /\ Append_(failures \o repairs)
      <4> DEFINE repair == AttemptFact(home[card], card, "repair_attempt", reason, policy)
      <4>1. reason \in Admits("repair_attempt")
        BY DEF RepairReasons
      <4>2. repair \in Fact
        <5>1. "repair_attempt" \in AttemptKinds /\ card \in Subjects
          BY CardTyped DEF AttemptKinds
        <5> QED
          BY <1>2, <2>1, <4>1, <5>1, FactsMade
      <4> HIDE DEF repair, failures
      <4>3. Append(failures, repair) = failures \o <<repair>> /\ <<repair>> \in Seq(Fact)
        BY <2>3, <4>2
      <4>4. Append_(failures \o <<repair>>)
        BY <3>2, <4>3 DEF repair
      <4> QED
        BY <4>1, <4>3, <4>4 DEF repair
    <3>3. \/ Append_(failures)
          \/ \E reason \in RepairReasons(card) :
                Append_(Append(failures, AttemptFact(home[card], card, "repair_attempt",
                                                     reason, policy)))
      BY <1>4 DEF HandOff
    <3> HIDE DEF failures
    <3> QED
      BY <3>1, <3>2, <3>3
  <2>5. PICK repairs \in Seq(Fact) :
           /\ \/ repairs = <<>>
              \/ \E reason \in Admits("repair_attempt") :
                    repairs = <<AttemptFact(home[card], card, "repair_attempt", reason,
                                            policy)>>
           /\ Append_(failures \o repairs)
    BY <2>4
  <2>6. ledger' = ledger \o (failures \o repairs)
    BY <2>5 DEF Append_
  <2>7. Spends(card, failures \o repairs)
    BY <1>1, <1>2, <2>1, <2>2, <2>5, <2>6, SpendsHandoff
  <2> HIDE DEF failures
  <2> QED
    BY <1>1, <1>2, <2>2, <2>5, <2>7, SpendingTyped
<1> QED
  BY <1>3, <1>4

\* a verdict,
LEMMA RecordReviewEffect ==
    ASSUME Typed, NEW card \in Cards,
           NEW decision \in {"approved", "changes_requested", "blocked"},
           NEW reason \in ReturnReasons \cup {None},
           RecordReview(card, decision, reason)
    PROVE  Typed' /\ OnCard(card)
<1>1. /\ begun' \subseteq Cards /\ cardState[card] \in L!CardStates
      /\ SetCard(card, decision) /\ UNCHANGED <<projectVars, cycleVars, home, risk, merging>>
      /\ L!CheckTransition(cardState[card], decision)
      /\ ExhaustedNow(card) = {}
  BY DEF Typed, TypeOK, RecordReview, RequireConvergenceBudget
<1>2. decision \in L!CardStates \ {"draft"} /\ cardState[card] # "draft"
  BY <1>1, Tables
<1>3. home[card] \in Cycles /\ policy \in Policies \cup {None} /\ card \in Subjects
  BY <1>2, CardTyped
<1>4. CASE ~(policy # None /\ IsReviewReturn(decision))
  <2>1. ledger' = ledger
    BY <1>4 DEF RecordReview
  <2> QED
    BY <1>1, <1>2, <1>3, <2>1, MovesEffect
<1>5. CASE policy # None /\ IsReviewReturn(decision)
  <2> DEFINE fact == AttemptFact(home[card], card, "review_return", reason, policy)
  <2>1. policy \in Policies /\ reason \in Admits("review_return") /\ Append_(<<fact>>)
    BY <1>3, <1>5 DEF RecordReview, RequireReviewReturnReason
  <2>2. Spending(fact, card, home[card], policy)
    <3>1. "review_return" \in AttemptKinds
      BY DEF AttemptKinds
    <3> QED
      BY <1>3, <2>1, <3>1, FactsMade
  <2>3. /\ risk' \in [Cards -> Risks] /\ home' = [home EXCEPT ![card] = home'[card]]
        /\ home'[card] = home[card]
    BY <1>1 DEF Typed, TypeOK
  <2>4. ledger' = ledger \o <<fact>>
    BY <2>1 DEF Append_
  <2> HIDE DEF fact
  <2>5. Spends(card, <<fact>>)
    BY <1>1, <1>3, <2>1, <2>2, <2>3, <2>4, SpendsOne
  <2> QED
    BY <1>1, <1>2, <1>3, <2>1, <2>3, <2>5, SpendingTyped
<1> QED
  BY <1>4, <1>5

\* a revision.
LEMMA ReviseEffect ==
    ASSUME Typed, NEW card \in Cards, NEW cycle \in Cycles, NEW newRisk \in Risks,
           NEW material \in BOOLEAN, Revise(card, cycle, newRisk, material)
    PROVE  Typed' /\ OnCard(card)
<1>1. /\ begun' \subseteq Cards
      /\ SetCard(card, "ready") /\ UNCHANGED <<projectVars, cycleVars, merging>>
      /\ "ready" \in L!CardStates \ {"draft"} /\ cardState[card] # "draft"
      /\ ExhaustedNow(card) = {}
      /\ Takes("named") => Exists(cycle)
      /\ home' = [home EXCEPT ![card] = cycle]
      /\ risk' = [risk EXCEPT ![card] = newRisk]
  BY Tables DEF Typed, TypeOK, Revise, RequireConvergenceBudget
<1>2. /\ home'[card] = cycle /\ home' = [home EXCEPT ![card] = home'[card]]
      /\ risk' \in [Cards -> Risks]
  BY <1>1 DEF Typed, TypeOK
<1>3. \E facts : Spends(card, facts) /\ Append_(facts)
  <2>1. CASE ~(material /\ policy # None)
    <3>1. ledger' = ledger
      BY <2>1 DEF Revise
    <3>2. Append_(<<>>)
      <4>1. /\ ledger \in Seq(Fact) /\ Len(ledger) \in Nat /\ Len(ledger) <= MaxFacts
            /\ Len(<<>>) = 0
        BY CardTyped DEF Typed, TypeOK
      <4>2. ledger \o <<>> = ledger
        BY <4>1
      <4> QED
        BY <3>1, <4>1, <4>2 DEF Append_
    <3> QED
      BY <1>1, <3>1, <3>2, SpendsNothing
  <2>2. CASE material /\ policy # None
    <3> DEFINE fact == AttemptFact(cycle, card, "material_scope_revision", "scope_change",
                                   policy)
    <3>1. policy \in Policies /\ Append_(<<fact>>)
      BY <2>2, CardTyped DEF Revise
    <3>2. Spending(fact, card, cycle, policy)
      <4>1. /\ "material_scope_revision" \in AttemptKinds /\ card \in Subjects
            /\ "scope_change" \in Admits("material_scope_revision")
        BY CardTyped, FactsMade DEF AttemptKinds
      <4> QED
        BY <3>1, <4>1, FactsMade
    <3> HIDE DEF fact
    <3>3. ledger' = ledger \o <<fact>>
      BY <3>1 DEF Append_
    <3>4. Spends(card, <<fact>>)
      BY <1>1, <1>2, <3>1, <3>2, <3>3, SpendsOne
    <3> QED
      BY <3>1, <3>4
  <2> QED
    BY <2>1, <2>2
<1> QED
  BY <1>1, <1>2, <1>3, SpendingTyped

\* Appending one fact.
LEMMA AppendOne ==
    ASSUME Typed, NEW fact \in Fact, Append_(<<fact>>)
    PROVE  /\ ledger' = Append(ledger, fact)
           /\ ledger' \in Seq(Fact) /\ Len(ledger') <= MaxFacts
<1>1. /\ ledger \in Seq(Fact) /\ ledger' = ledger \o <<fact>>
      /\ Len(ledger) + Len(<<fact>>) <= MaxFacts
  BY DEF Append_, Typed, TypeOK
<1>2. /\ Len(<<fact>>) = 1 /\ <<fact>> \in Seq(Fact)
      /\ ledger \o <<fact>> = Append(ledger, fact)
      /\ Len(Append(ledger, fact)) = Len(ledger) + 1 /\ Append(ledger, fact) \in Seq(Fact)
  BY <1>1
<1> QED
  BY <1>1, <1>2

\* The dispositions answer the escalation they were asked for.
LEMMA DispositionEffect ==
    ASSUME Typed, NEW card \in Cards, Disposition(card)
    PROVE  Typed' /\ OnEscalation(card)
<1>1. ExhaustedNow(card) # {} /\ policy \in Policies /\ home[card] \in Cycles
      /\ card \in Subjects
  <2>1. ExhaustedNow(card) # {}
    BY DEF Disposition
  <2>2. policy # None /\ home[card] # None
    BY <2>1 DEF ExhaustedNow
  <2> QED
    BY <2>1, <2>2, CardTyped
<1>2. ASSUME NEW kind \in {"renew", "accept_risk", "split", "abandon", "redesign"},
             NEW dimension \in Dimensions \cup {None},
             kind \in {"renew", "accept_risk", "split"} => dimension \in Dimensions,
             kind = "renew" => dimension \in ExhaustedNow(card),
             Append_(<<DispositionFact(home[card], card, kind, dimension, policy, None)>>),
             UNCHANGED <<projectVars, cycleVars, home, risk, begun, merging>>,
             cardState' = cardState \/ (SetCard(card, "abandoned") /\ cardState[card] # "draft")
      PROVE  Typed' /\ OnEscalation(card)
  <2> DEFINE fact == DispositionFact(home[card], card, kind, dimension, policy, None)
  <2>1. /\ fact \in Fact /\ fact.what = kind /\ fact.cycle = home[card] /\ fact.subject = card
        /\ fact.dimension = dimension /\ fact.policy = policy
    <3>1. kind \in DispositionKinds
      BY <1>2 DEF DispositionKinds
    <3> QED
      BY <1>1, <3>1, FactsMade
  <2>2. WellBound(fact)
    <3>1. card # None /\ kind \notin {"integration_failure", "rebaseline"}
          /\ kind \notin AttemptKinds
      BY <1>2, ConstantsTyped DEF AttemptKinds
    <3> HIDE DEF fact
    <3> QED
      BY <1>2, <2>1, <3>1 DEF WellBound, IsAttempt
  <2>3. Append_(<<fact>>)
    BY <1>2
  <2> HIDE DEF fact
  <2>4. ledger' = Append(ledger, fact) /\ ledger' \in Seq(Fact) /\ Len(ledger') <= MaxFacts
    BY <2>1, <2>3, AppendOne
  <2>5. Answers(card, fact)
    BY <1>2, <2>1, <2>2, <2>4 DEF Answers
  <2>6. OnEscalation(card)
    BY <1>1, <1>2, <2>5 DEF OnEscalation
  <2>7. /\ cardState' \in [Cards -> L!CardStates]
        /\ \A other \in Cards : cardState'[other] = "draft" <=> cardState[other] = "draft"
    BY <1>2, Tables DEF SetCard, Typed, TypeOK
  <2>8. Typed'
    BY <1>2, <2>4, <2>7 DEF Typed, TypeOK, projectVars, cycleVars
  <2> QED
    BY <2>6, <2>8
<1>3. ASSUME NEW dimension \in Dimensions, Renew(card, dimension)
      PROVE  Typed' /\ OnEscalation(card)
  BY <1>2, <1>3 DEF Renew, RequireRenewable, cardVars
<1>4. ASSUME NEW dimension \in Dimensions, AcceptRisk(card, dimension)
      PROVE  Typed' /\ OnEscalation(card)
  BY <1>2, <1>4 DEF AcceptRisk, cardVars
<1>5. ASSUME NEW dimension \in Dimensions, NEW other \in Cards, Split(card, dimension, other)
      PROVE  Typed' /\ OnEscalation(card)
  BY <1>2, <1>5 DEF Split, cardVars
<1>6. ASSUME AbandonEscalated(card)
      PROVE  Typed' /\ OnEscalation(card)
  BY <1>2, <1>6 DEF AbandonEscalated, RequireAbandonable
<1>7. ASSUME NEW other \in Cards, Redesign(card, other)
      PROVE  Typed' /\ OnEscalation(card)
  BY <1>2, <1>7 DEF Redesign, RequireRedesignable, RequireAbandonable
<1> QED
  BY <1>3, <1>4, <1>5, <1>6, <1>7 DEF Disposition

\* Cycles are created as drafts of the document in force, and move along the table.
LEMMA CycleEffect ==
    ASSUME Typed, NEW cycle \in Cycles, CycleStep(cycle)
    PROVE  Typed' /\ OnCycle(cycle)
<1>1. cycleStatus \in [Cycles -> L!CycleStatuses \cup {"absent"}]
      /\ pinned \in [Cycles -> Configs]
  BY DEF Typed, TypeOK, Configs
<1>2. CASE CreateCycle(cycle)
  <2>1. Config \in Configs
    BY DEF Config, ConfigWith, Configs, Typed, TypeOK
  <2>2. /\ ~Exists(cycle)
        /\ cycleStatus' = [cycleStatus EXCEPT ![cycle] = "draft"]
        /\ pinned' = [pinned EXCEPT ![cycle] = Config]
        /\ UNCHANGED <<projectVars, cardVars, ledger, merging>>
    BY <1>2 DEF CreateCycle
  <2>3. OnCycle(cycle)
    BY <1>1, <2>2 DEF OnCycle
  <2>4. /\ cycleStatus' \in [Cycles -> L!CycleStatuses \cup {"absent"}]
        /\ pinned' \in [Cycles -> Configs]
    BY <1>1, <2>1, <2>2, Tables
  <2> QED
    BY <2>2, <2>3, <2>4 DEF Typed, TypeOK, projectVars, cardVars, Configs
<1>3. ASSUME NEW status, MoveCycle(cycle, status) PROVE Typed' /\ OnCycle(cycle)
  <2>1. /\ Exists(cycle) /\ L!CheckCycleTransition(cycleStatus[cycle], status)
        /\ cycleStatus' = [cycleStatus EXCEPT ![cycle] = status]
        /\ UNCHANGED <<projectVars, pinned, cardVars, ledger, merging>>
    BY <1>3 DEF MoveCycle
  <2>2. cycleStatus[cycle] \in L!CycleStatuses
    BY <1>1, <2>1 DEF Exists
  <2>3. /\ status \in L!CycleStatuses /\ status \notin {"draft", "absent"}
        /\ ~L!IsTerminalCycle(status) => ~L!IsTerminalCycle(cycleStatus[cycle])
    BY <2>1, <2>2, Tables
  <2>4. OnCycle(cycle)
    BY <1>1, <2>1, <2>3 DEF OnCycle
  <2>5. cycleStatus' \in [Cycles -> L!CycleStatuses \cup {"absent"}]
    BY <1>1, <2>1, <2>3
  <2> QED
    BY <2>1, <2>4, <2>5 DEF Typed, TypeOK, projectVars, cardVars
<1> QED
  BY <1>2, <1>3 DEF CycleStep, ActivateCycle, SealCycle, AbandonCycle

\* A merge that conflicts, and the transaction that records it.
LEMMA MergerEffect ==
    ASSUME Typed, NEW merger \in Mergers, MergeStep(merger)
    PROVE  Typed' /\ OnMerger(merger)
<1>1. merging \in [Mergers -> Merging]
  BY DEF Typed, TypeOK, Merging
<1>2. UNCHANGED <<projectVars, cycleVars, cardVars>>
  BY DEF MergeStep, MergeConflicts, ReadPolicy, RecordIntegrationFailure, ForgetFailure
<1>3. ASSUME NEW entry \in Merging, SetMerging(merger, entry),
             ledger' \in Seq(Fact), Len(ledger') <= MaxFacts,
             entry.at # "idle" => entry.cycle \in Cycles,
             entry.at = "recording" => entry.policy \in Policies
      PROVE  /\ Typed' /\ merging'[merger] = entry
             /\ merging' = [merging EXCEPT ![merger] = merging'[merger]]
  <2>1. /\ merging' \in [Mergers -> Merging] /\ merging'[merger] = entry
        /\ \A other \in Mergers : other = merger \/ merging'[other] = merging[other]
    BY <1>1, <1>3 DEF SetMerging
  <2>2. Typed'
    BY <1>2, <1>3, <2>1 DEF Typed, TypeOK, projectVars, cycleVars, cardVars, Merging
  <2> QED
    BY <1>3, <2>1, <2>2 DEF SetMerging
<1>4. Idle \in Merging /\ Idle.at = "idle"
  BY DEF Idle, Merging
<1>5. ledger \in Seq(Fact) /\ Len(ledger) <= MaxFacts
  BY DEF Typed, TypeOK
<1>6. ASSUME NEW cycle \in Cycles, MergeConflicts(merger, cycle)
      PROVE  Typed' /\ OnMerger(merger)
  <2> DEFINE entry == [at |-> "conflicted", cycle |-> cycle, policy |-> None]
  <2>1. /\ entry \in Merging /\ entry.at = "conflicted" /\ entry.cycle = cycle
        /\ entry.at # "recording"
    BY DEF Merging
  <2>2. /\ merging[merger] = Idle /\ Exists(cycle)
        /\ policy # None => ~CycleEscalated(ledger, cycle, policy)
        /\ SetMerging(merger, entry) /\ ledger' = ledger
    BY <1>6 DEF MergeConflicts, RequireCycleConvergenceBudget
  <2> HIDE DEF entry
  <2>3. /\ Typed' /\ merging'[merger] = entry
        /\ merging' = [merging EXCEPT ![merger] = merging'[merger]]
    BY <1>3, <1>5, <2>1, <2>2
  <2> QED
    BY <1>2, <2>1, <2>2, <2>3 DEF OnMerger
<1>7. CASE ReadPolicy(merger)
  <2>1. merging[merger].at = "conflicted" /\ ledger' = ledger
    BY <1>7 DEF ReadPolicy
  <2>2. CASE policy = None
    <3>1. SetMerging(merger, Idle)
      BY <1>7, <2>2 DEF ReadPolicy
    <3>2. /\ Typed' /\ merging'[merger] = Idle
          /\ merging' = [merging EXCEPT ![merger] = merging'[merger]]
      BY <1>3, <1>4, <1>5, <2>1, <3>1
    <3> QED
      BY <1>2, <2>1, <3>2 DEF OnMerger
  <2>3. CASE policy # None
    <3> DEFINE entry == [merging[merger] EXCEPT !.at = "recording", !.policy = policy]
    <3>1. policy \in Policies
      BY <2>3 DEF Typed, TypeOK
    <3>2. /\ entry \in Merging /\ entry.at = "recording" /\ entry.policy = policy
          /\ entry.cycle = merging[merger].cycle
      BY <1>1, <3>1 DEF Merging
    <3>3. SetMerging(merger, entry)
      BY <1>7, <2>3 DEF ReadPolicy
    <3>4. merging[merger].cycle \in Cycles
      BY <2>1 DEF Typed
    <3> HIDE DEF entry
    <3>5. /\ Typed' /\ merging'[merger] = entry
          /\ merging' = [merging EXCEPT ![merger] = merging'[merger]]
      BY <1>3, <1>5, <2>1, <3>1, <3>2, <3>3, <3>4
    <3> QED
      BY <1>2, <2>1, <3>1, <3>2, <3>5 DEF OnMerger
  <2> QED
    BY <2>2, <2>3
<1>8. CASE RecordIntegrationFailure(merger)
  <2> DEFINE fact == AttemptFact(merging[merger].cycle, None, "integration_failure",
                                 "integration_conflict", merging[merger].policy)
  <2>1. /\ merging[merger].at = "recording" /\ Append_(<<fact>>) /\ SetMerging(merger, Idle)
    BY <1>8 DEF RecordIntegrationFailure
  <2>2. merging[merger].cycle \in Cycles /\ merging[merger].policy \in Policies
    BY <2>1 DEF Typed
  <2>3. fact \in Fact
    <3>1. /\ "integration_failure" \in AttemptKinds /\ None \in Subjects
          /\ "integration_conflict" \in Admits("integration_failure")
      BY FactsMade DEF AttemptKinds, Subjects
    <3> QED
      BY <2>2, <3>1, FactsMade
  <2>4. ledger' = Append(ledger, fact) /\ ledger' \in Seq(Fact) /\ Len(ledger') <= MaxFacts
    BY <2>1, <2>3, AppendOne
  <2>5. /\ Typed' /\ merging'[merger] = Idle
        /\ merging' = [merging EXCEPT ![merger] = merging'[merger]]
    BY <1>3, <1>4, <2>1, <2>4
  <2> QED
    BY <1>2, <2>1, <2>4, <2>5 DEF OnMerger
<1>9. CASE ForgetFailure(merger)
  <2>1. SetMerging(merger, Idle) /\ ledger' = ledger
    BY <1>9 DEF ForgetFailure
  <2>2. /\ Typed' /\ merging'[merger] = Idle
        /\ merging' = [merging EXCEPT ![merger] = merging'[merger]]
    BY <1>3, <1>4, <1>5, <2>1
  <2> QED
    BY <1>2, <2>1, <2>2 DEF OnMerger
<1> QED
  BY <1>6, <1>7, <1>8, <1>9 DEF MergeStep

\* The commands that rewrite project.json while no cycle is told of it.
LEMMA ProjectEffect ==
    ASSUME Typed,
           \/ \E new \in Policies : SetConvergencePolicy(new)
           \/ SetFinalAuthorization
           \/ SetMutationExemption
    PROVE  Typed' /\ OnProject
<1>1. ASSUME RefuseBlockingCycles, NoDraftOpen PROVE NoCycleOpen
  BY <1>1 DEF RefuseBlockingCycles, NoDraftOpen, NoCycleOpen, BlocksPolicyChange, Open, Exists,
     L!IsTerminalCycle
<1>2. ASSUME NEW new \in Policies, SetConvergencePolicy(new) PROVE Typed' /\ OnProject
  <2>1. OnProject
    BY <1>1, <1>2 DEF SetConvergencePolicy, OnProject, RefuseOrphaningFacts
  <2>2. Typed'
    BY <1>2 DEF SetConvergencePolicy, Typed, TypeOK, cycleVars, cardVars
  <2> QED
    BY <2>1, <2>2
<1>3. CASE SetFinalAuthorization
  <2>1. OnProject
    BY <1>1, <1>3 DEF SetFinalAuthorization, OnProject
  <2>2. Typed'
    BY <1>3 DEF SetFinalAuthorization, Typed, TypeOK, cycleVars, cardVars
  <2> QED
    BY <2>1, <2>2
<1>4. CASE SetMutationExemption
  <2>1. OnProject
    BY <1>1, <1>4 DEF SetMutationExemption, OnProject
  <2>2. Typed'
    BY <1>4 DEF SetMutationExemption, Typed, TypeOK, cycleVars, cardVars
  <2> QED
    BY <2>1, <2>2
<1> QED
  BY <1>2, <1>3, <1>4

\* A rebaseline.
LEMMA RebaselineEffect ==
    ASSUME Typed, NEW new \in Policies, Rebaseline(new)
    PROVE  Typed' /\ \E facts : OnPolicy(new, facts)
<1> DEFINE open == {cycle \in Cycles : Open(cycle)}
<1>1. /\ policy \in Policies /\ new # policy /\ policy' = new /\ pinned' = Repinned(new)
      /\ Takes("fresh") => NamedByNoFact(new)
      /\ UNCHANGED <<authorization, exemption, cycleStatus, cardVars, merging>>
  BY DEF Rebaseline, RequireRebaseline, Typed, TypeOK
<1>2. PICK order \in Orders(open) :
         Append_([i \in DOMAIN order |->
                     DispositionFact(order[i], None, "rebaseline", None, new, policy)])
  BY DEF Rebaseline
<1> DEFINE facts == [i \in DOMAIN order |->
                       DispositionFact(order[i], None, "rebaseline", None, new, policy)]
<1>3. /\ Cardinality(open) \in Nat /\ order \in [1 .. Cardinality(open) -> open]
      /\ \A cycle \in open : \E i \in DOMAIN order : order[i] = cycle
  <2>1. IsFiniteSet(open) /\ open \subseteq Cycles
    BY ConstantsTyped, FS_Subset
  <2> QED
    BY <2>1, FS_CardinalityType DEF Orders
<1>4. ASSUME NEW i \in DOMAIN order
      PROVE  /\ facts[i] \in Fact /\ facts[i].what = "rebaseline" /\ facts[i].subject = None
             /\ facts[i].policy = new /\ facts[i].retires = policy /\ facts[i].cycle = order[i]
             /\ order[i] \in open
  <2>1. order[i] \in open /\ order[i] \in Cycles
    BY <1>3
  <2>2. "rebaseline" \in DispositionKinds /\ None \in Subjects
    BY DEF DispositionKinds, Subjects
  <2> QED
    BY <1>1, <2>1, <2>2, FactsMade
<1>5. facts \in Seq(Fact) /\ DOMAIN facts = DOMAIN order /\ DOMAIN order = 1 .. Cardinality(open)
  <2>1. DOMAIN facts = DOMAIN order /\ DOMAIN order = 1 .. Cardinality(open)
    BY <1>3
  <2>2. facts \in [1 .. Cardinality(open) -> Fact]
    BY <1>4, <2>1
  <2> HIDE DEF facts, open
  <2> QED
    BY <1>3, <2>1, <2>2
<1>6. Append_(facts)
  BY <1>2
<1> HIDE DEF facts
<1>7. ledger' = ledger \o facts /\ ledger' \in Seq(Fact) /\ Len(ledger') <= MaxFacts
  <2>1. /\ ledger \in Seq(Fact) /\ ledger' = ledger \o facts
        /\ Len(ledger) + Len(facts) <= MaxFacts
    BY <1>6 DEF Append_, Typed, TypeOK
  <2>2. Len(ledger \o facts) = Len(ledger) + Len(facts) /\ ledger \o facts \in Seq(Fact)
    BY <1>5, <2>1
  <2> QED
    BY <2>1, <2>2
<1>8. /\ \A cycle \in Cycles : Open(cycle) => pinned'[cycle] = ConfigWith(new)
      /\ pinned' \in [Cycles -> Configs]
  <2>1. ConfigWith(new) \in Configs
    BY DEF ConfigWith, Configs, Typed, TypeOK
  <2> QED
    BY <1>1, <2>1 DEF Repinned, Configs, Typed, TypeOK
<1>9. OnPolicy(new, facts)
  <2>1. \A i \in DOMAIN facts :
          /\ facts[i].what = "rebaseline" /\ facts[i].subject = None
          /\ facts[i].policy = new /\ facts[i].retires = policy /\ Open(facts[i].cycle)
    BY <1>4, <1>5
  <2>2. \A cycle \in Cycles : Open(cycle) => \E i \in DOMAIN facts : facts[i].cycle = cycle
    BY <1>3, <1>4, <1>5
  <2> QED
    BY <1>1, <1>5, <1>7, <1>8, <2>1, <2>2 DEF OnPolicy
<1>10. Typed'
  BY <1>1, <1>7, <1>8 DEF Typed, TypeOK, cardVars, Configs
<1> QED
  BY <1>9, <1>10

\* Every step is of one of the kinds, and keeps the types.
LEMMA EveryStep ==
    ASSUME Typed, [Next]_vars
    PROVE  Typed' /\ AnyStep
<1>1. ASSUME NEW card \in Cards, CardStep(card) PROVE Typed' /\ AnyStep
  <2>1. Typed' /\ OnCard(card)
    BY <1>1, MovingCommands, HandOffEffect, RecordReviewEffect, ReviseEffect DEF CardStep
  <2> QED
    BY <2>1 DEF AnyStep
<1>2. ASSUME NEW card \in Cards, Disposition(card) PROVE Typed' /\ AnyStep
  BY <1>2, DispositionEffect DEF AnyStep
<1>3. ASSUME NEW cycle \in Cycles, CycleStep(cycle) PROVE Typed' /\ AnyStep
  BY <1>3, CycleEffect DEF AnyStep
<1>4. ASSUME NEW merger \in Mergers, MergeStep(merger) PROVE Typed' /\ AnyStep
  BY <1>4, MergerEffect DEF AnyStep
<1>5. ASSUME PolicyStep PROVE Typed' /\ AnyStep
  BY <1>5, ProjectEffect, RebaselineEffect DEF PolicyStep, AnyStep
<1>6. ASSUME UNCHANGED vars PROVE Typed' /\ AnyStep
  BY <1>6 DEF Typed, TypeOK, vars, AnyStep
<1> QED
  BY <1>1, <1>2, <1>3, <1>4, <1>5, <1>6 DEF Next

\* The types hold at first.
LEMMA TypedFirst ==
    ASSUME Init
    PROVE  Typed
<1>1. /\ policy \in Policies \cup {None} /\ authorization \in BOOLEAN /\ exemption \in BOOLEAN
      /\ risk \in [Cards -> Risks] /\ begun \subseteq Cards
  BY ConstantsTyped DEF Init
<1>2. ledger \in Seq(Fact) /\ Len(ledger) <= MaxFacts
  BY ConstantsTyped DEF Init
<1>3. pinned \in [Cycles -> Configs] /\ merging \in [Mergers -> Merging]
  BY DEF Init, NoConfig, Configs, Idle, Merging
<1>4. /\ cardState \in [Cards -> L!CardStates] /\ home \in [Cards -> Cycles \cup {None}]
      /\ cycleStatus \in [Cycles -> L!CycleStatuses \cup {"absent"}]
      /\ \A card \in Cards : cardState[card] = "draft" /\ home[card] = None
      /\ \A merger \in Mergers : merging[merger].at = "idle"
  BY Tables DEF Init, Idle
<1> QED
  BY <1>1, <1>2, <1>3, <1>4 DEF Typed, TypeOK, Configs, Merging

-----------------------------------------------------------------------------
(* Grants and renewals. *)

\* Nobody is beyond the grant,
Grant(l) ==
    \A cycle \in Cycles, card \in Cards, chosen \in Policies, dimension \in Dimensions :
        Within(l, cycle, card, chosen, dimension)

\* in a cycle that a card has left an attempt is to spare,
Away(l, chosen, homes) ==
    chosen # None =>
        \A cycle \in Cycles, card \in Cards, dimension \in Dimensions :
            cycle # homes[card] => Unspent(l, cycle, card, chosen, dimension)

\* and what was renewed had been spent.
Earned(l) ==
    \A cycle \in Cycles, card \in Cards, chosen \in Policies, dimension \in Dimensions :
        SpentFirst(l, cycle, card, chosen, dimension)

Budgeted == Grant(ledger) /\ Away(ledger, policy, home) /\ Earned(ledger)

\* Facts that are no attempt of a card cost nothing, and no renewal gives nothing.
LEMMA Quiet ==
    ASSUME Typed, NEW facts \in Seq(Fact), NEW cycle, NEW card \in Cards,
           NEW chosen \in Policies, NEW dimension \in Dimensions
    PROVE  /\ \/ \E i \in DOMAIN facts :
                    facts[i] \in AttemptsOn(cycle, chosen, card, dimension)
              \/ /\ Unspent(ledger, cycle, card, chosen, dimension)
                       => Unspent(ledger \o facts, cycle, card, chosen, dimension)
                 /\ Within(ledger, cycle, card, chosen, dimension)
                       => Within(ledger \o facts, cycle, card, chosen, dimension)
           /\ \/ \E i \in DOMAIN facts :
                    facts[i] \in AnswersOn(cycle, chosen, card, {"renew"}, dimension)
              \/ SpentFirst(ledger, cycle, card, chosen, dimension)
                    => SpentFirst(ledger \o facts, cycle, card, chosen, dimension)
<1>1. ledger \in Seq(Fact) /\ risk[card] \in Risks
  BY CardTyped
<1>2. \A T : (\A i \in DOMAIN facts : facts[i] \notin T) => Number(facts, T) = 0
  BY FewFacts
<1> QED
  BY <1>1, <1>2, BudgetGrows

\* Where no dimension is exhausted, an attempt is to spare everywhere.
LEMMA UnspentNow ==
    ASSUME Typed, Budgeted, NEW card \in Cards, ExhaustedNow(card) = {}, policy \in Policies,
           NEW cycle \in Cycles, NEW dimension \in Dimensions
    PROVE  Unspent(ledger, cycle, card, policy, dimension)
<1>1. policy # None /\ cycle # None
  BY ConstantsTyped
<1>2. CASE cycle # home[card]
  BY <1>1, <1>2 DEF Budgeted, Away
<1>3. CASE cycle = home[card]
  <2>1. ~Exhausted(ledger, cycle, policy, card, risk[card], dimension)
    BY <1>1, <1>3 DEF ExhaustedNow, AssessCard
  <2> QED
    BY <2>1, CardTyped, BudgetLeft
<1> QED
  BY <1>2, <1>3

\* A policy that no attempt names has everything to spare.
LEMMA Untouched ==
    ASSUME Typed, NEW chosen \in Policies,
           \A i \in DOMAIN ledger : ~(IsAttempt(ledger[i]) /\ ledger[i].policy = chosen)
    PROVE  /\ \A cycle, subject, kind :
                 kind \in AttemptKinds =>
                     CountedAttempts(ledger, cycle, chosen, subject, kind) = {}
           /\ \A cycle, subject, kind :
                 kind \in AttemptKinds => Attempts(ledger, cycle, chosen, subject, kind) = 0
           /\ \A cycle : \A card \in Cards, dimension \in Dimensions :
                 Unspent(ledger, cycle, card, chosen, dimension)
<1>1. ASSUME NEW cycle, NEW subject, NEW kind, kind \in AttemptKinds
      PROVE  CountedAttempts(ledger, cycle, chosen, subject, kind) = {}
  BY <1>1 DEF CountedAttempts, IsAttempt
<1>2. ASSUME NEW cycle, NEW subject, NEW kind, kind \in AttemptKinds
      PROVE  Attempts(ledger, cycle, chosen, subject, kind) = 0
  BY <1>1, <1>2, FS_EmptySet DEF Attempts
<1>3. ASSUME NEW cycle, NEW card \in Cards, NEW dimension \in Dimensions
      PROVE  Unspent(ledger, cycle, card, chosen, dimension)
  <2>1. Attempts(ledger, cycle, chosen, card, dimension) = 0
    BY <1>2 DEF Dimensions
  <2> QED
    BY <2>1, CardTyped, Fresh
<1> QED
  BY <1>1, <1>2, <1>3

\* Commands on a card.
LEMMA BudgetedOnCard ==
    ASSUME Typed, Budgeted, NEW card \in Cards, OnCard(card)
    PROVE  Budgeted'
<1>1. PICK facts : Spends(card, facts)
  BY DEF OnCard
<1>2. /\ ledger' = ledger \o facts /\ facts \in Seq(Fact) /\ policy' = policy
      /\ \A other \in Cards : other = card \/ home'[other] = home[other]
      /\ facts = <<>> \/ (policy \in Policies /\ home'[card] \in Cycles)
      /\ (facts = <<>> /\ home'[card] = home[card]) \/ ExhaustedNow(card) = {}
  BY <1>1 DEF Spends, OnCard, projectVars
<1>3. ASSUME NEW cycle, NEW other \in Cards, NEW chosen \in Policies, NEW dimension \in Dimensions
      PROVE  \A i \in DOMAIN facts :
                /\ facts[i] \notin AnswersOn(cycle, chosen, other, {"renew"}, dimension)
                /\ facts[i] \in AttemptsOn(cycle, chosen, other, dimension) =>
                      other = card /\ cycle = home'[card] /\ chosen = policy
  BY <1>1, ConstantsTyped DEF Spends, Spending, AnswersOn, AttemptsOn
<1>4. ASSUME NEW cycle \in Cycles, NEW other \in Cards, NEW chosen \in Policies,
             NEW dimension \in Dimensions
      PROVE  Within(ledger', cycle, other, chosen, dimension)
  <2>1. Within(ledger, cycle, other, chosen, dimension)
    BY DEF Budgeted, Grant
  <2>2. CASE facts = <<>> \/ ~(other = card /\ cycle = home'[card] /\ chosen = policy)
    <3>1. \A i \in DOMAIN facts : facts[i] \notin AttemptsOn(cycle, chosen, other, dimension)
      BY <1>3, <2>2
    <3> QED
      BY <1>2, <2>1, <3>1, Quiet
  <2>3. CASE facts # <<>> /\ other = card /\ cycle = home'[card] /\ chosen = policy
    <3>1. Unspent(ledger, cycle, card, policy, dimension)
      BY <1>2, <2>3, UnspentNow
    <3>2. Number(facts, AttemptsOn(cycle, policy, card, dimension)) <= 1 + Overshoot(dimension)
      BY <1>1, <2>3 DEF Spends
    <3> QED
      BY <1>2, <2>3, <3>1, <3>2, CardTyped, BudgetGrows
  <2> QED
    BY <2>2, <2>3
<1>5. ASSUME NEW cycle \in Cycles, NEW other \in Cards, NEW chosen \in Policies,
             NEW dimension \in Dimensions
      PROVE  SpentFirst(ledger', cycle, other, chosen, dimension)
  <2>1. SpentFirst(ledger, cycle, other, chosen, dimension)
    BY DEF Budgeted, Earned
  <2> QED
    BY <1>2, <1>3, <2>1, Quiet
<1>6. ASSUME policy # None, NEW cycle \in Cycles, NEW other \in Cards,
             NEW dimension \in Dimensions, cycle # home'[other]
      PROVE  Unspent(ledger', cycle, other, policy, dimension)
  <2>1. policy \in Policies
    BY <1>6, CardTyped
  <2>2. Unspent(ledger, cycle, other, policy, dimension)
    <3>1. CASE cycle # home[other]
      BY <1>6, <3>1 DEF Budgeted, Away
    <3>2. CASE cycle = home[other]
      <4>1. other = card /\ ExhaustedNow(card) = {}
        BY <1>2, <1>6, <3>2
      <4> QED
        BY <2>1, <4>1, UnspentNow
    <3> QED
      BY <3>1, <3>2
  <2>3. \A i \in DOMAIN facts : facts[i] \notin AttemptsOn(cycle, policy, other, dimension)
    BY <1>3, <1>6, <2>1
  <2> QED
    BY <1>2, <2>1, <2>2, <2>3, Quiet
<1>7. Grant(ledger') /\ Earned(ledger') /\ Away(ledger', policy', home')
  BY <1>2, <1>4, <1>5, <1>6 DEF Grant, Earned, Away
<1> QED
  BY <1>7 DEF Budgeted

\* Whatever appends no attempt of a card and no renewal.
LEMMA BudgetedElsewhere ==
    ASSUME Typed, Budgeted, NEW facts \in Seq(Fact), ledger' = ledger \o facts,
           \A i \in DOMAIN facts : facts[i].what \notin Dimensions \cup {"renew"},
           home' = home, policy' \in Policies \cup {None},
           \/ policy' = policy
           \/ \A i \in DOMAIN ledger : ~(IsAttempt(ledger[i]) /\ ledger[i].policy = policy')
    PROVE  Budgeted'
<1>1. ASSUME NEW cycle, NEW card, NEW chosen, NEW dimension \in Dimensions
      PROVE  \A i \in DOMAIN facts :
                /\ facts[i] \notin AnswersOn(cycle, chosen, card, {"renew"}, dimension)
                /\ facts[i] \notin AttemptsOn(cycle, chosen, card, dimension)
  BY DEF AnswersOn, AttemptsOn
<1>2. Grant(ledger')
  BY <1>1, Quiet DEF Budgeted, Grant
<1>3. Earned(ledger')
  BY <1>1, Quiet DEF Budgeted, Earned
<1>4. ASSUME policy' # None, NEW cycle \in Cycles, NEW card \in Cards,
             NEW dimension \in Dimensions, cycle # home[card]
      PROVE  Unspent(ledger', cycle, card, policy', dimension)
  <2>1. PICK chosen \in Policies : chosen = policy'
    BY <1>4
  <2>2. Unspent(ledger, cycle, card, chosen, dimension)
    <3>1. CASE policy' = policy
      BY <1>4, <2>1, <3>1 DEF Budgeted, Away
    <3>2. CASE \A i \in DOMAIN ledger : ~(IsAttempt(ledger[i]) /\ ledger[i].policy = policy')
      BY <2>1, <3>2, Untouched
    <3> QED
      BY <3>1, <3>2
  <2>3. Unspent(ledger \o facts, cycle, card, chosen, dimension)
    BY <1>1, <2>2, Quiet
  <2> QED
    BY <2>1, <2>3
<1>5. Away(ledger', policy', home')
  BY <1>4 DEF Away
<1> QED
  BY <1>2, <1>3, <1>5 DEF Budgeted

\* Dispositions.
LEMMA BudgetedOnEscalation ==
    ASSUME Typed, Budgeted, NEW card \in Cards, OnEscalation(card)
    PROVE  Budgeted'
<1>1. PICK fact : Answers(card, fact)
  BY DEF OnEscalation
<1>2. policy \in Policies /\ home[card] \in Cycles /\ policy' = policy /\ home' = home
  BY DEF OnEscalation, projectVars
<1>3. /\ ledger \in Seq(Fact) /\ fact \in Fact /\ ledger' = Append(ledger, fact)
      /\ fact.what \notin Dimensions
  BY <1>1, CardTyped, ConstantsTyped DEF Answers
<1>4. /\ <<fact>> \in Seq(Fact) /\ ledger' = ledger \o <<fact>>
      /\ \A i \in DOMAIN <<fact>> : <<fact>>[i] = fact
  BY <1>3
<1>5. ASSUME NEW cycle, NEW other, NEW chosen, NEW dimension \in Dimensions
      PROVE  \A i \in DOMAIN <<fact>> :
                <<fact>>[i] \notin AttemptsOn(cycle, chosen, other, dimension)
  BY <1>3, <1>4 DEF AttemptsOn
<1>6. Grant(ledger')
  BY <1>4, <1>5, Quiet DEF Budgeted, Grant
<1>7. Away(ledger', policy', home')
  BY <1>2, <1>4, <1>5, Quiet DEF Budgeted, Away
<1>8. ASSUME NEW cycle \in Cycles, NEW other \in Cards, NEW chosen \in Policies,
             NEW dimension \in Dimensions
      PROVE  SpentFirst(ledger', cycle, other, chosen, dimension)
  <2>1. SpentFirst(ledger, cycle, other, chosen, dimension)
    BY DEF Budgeted, Earned
  <2>2. CASE fact \notin AnswersOn(cycle, chosen, other, {"renew"}, dimension)
    BY <1>4, <2>1, <2>2, Quiet
  <2>3. CASE fact \in AnswersOn(cycle, chosen, other, {"renew"}, dimension)
    <3>1. /\ cycle = home[card] /\ other = card /\ chosen = policy
          /\ dimension \in ExhaustedNow(card)
      BY <1>1, <2>3 DEF Answers, AnswersOn
    <3>2. Exhausted(ledger, cycle, chosen, other, risk[other], dimension)
      BY <3>1 DEF ExhaustedNow, AssessCard
    <3>3. Number(<<fact>>, AnswersOn(cycle, chosen, other, {"renew"}, dimension)) <= 1
      BY FewFacts
    <3> QED
      BY <1>3, <1>4, <2>1, <3>2, <3>3, CardTyped, RenewalIsEarned
  <2> QED
    BY <2>2, <2>3
<1> QED
  BY <1>6, <1>7, <1>8 DEF Budgeted, Earned

\* Every step keeps the grants, when rebaselines install fresh policies.
LEMMA BudgetedStep ==
    ASSUME Typed, Typed', Budgeted, AnyStep, Takes("fresh")
    PROVE  Budgeted'
<1>1. ledger \in Seq(Fact) /\ policy' \in Policies \cup {None}
  BY DEF Typed, TypeOK
<1>2. /\ <<>> \in Seq(Fact) /\ DOMAIN <<>> = {} /\ ledger = ledger \o <<>>
  BY <1>1
<1>3. ASSUME UNCHANGED <<ledger, home>>,
             \/ policy' = policy
             \/ \A i \in DOMAIN ledger : ~IsAttempt(ledger[i])
      PROVE  Budgeted'
  <2>1. ledger' = ledger \o <<>>
    BY <1>2, <1>3
  <2> QED
    BY <1>1, <1>2, <1>3, <2>1, BudgetedElsewhere
<1>4. ASSUME NEW cycle \in Cycles, OnCycle(cycle) PROVE Budgeted'
  BY <1>3, <1>4 DEF OnCycle, projectVars, cardVars
<1>5. ASSUME NEW merger \in Mergers, OnMerger(merger) PROVE Budgeted'
  <2>1. policy' = policy /\ home' = home
    BY <1>5 DEF OnMerger, projectVars, cardVars
  <2>2. CASE ledger' = ledger
    BY <1>3, <2>1, <2>2
  <2>3. CASE ledger' # ledger
    <3> DEFINE fact == AttemptFact(merging[merger].cycle, None, "integration_failure",
                                   "integration_conflict", merging[merger].policy)
    <3>1. ledger' = Append(ledger, fact) /\ merging[merger].at = "recording"
      BY <1>5, <2>3 DEF OnMerger
    <3>2. fact.what = "integration_failure" /\ fact \in Fact
      <4>1. /\ "integration_failure" \in AttemptKinds /\ None \in Subjects
            /\ "integration_conflict" \in Admits("integration_failure")
            /\ merging[merger].cycle \in Cycles /\ merging[merger].policy \in Policies
        BY <3>1, FactsMade DEF AttemptKinds, Subjects, Typed
      <4> QED
        BY <4>1, FactsMade
    <3> HIDE DEF fact
    <3>3. /\ <<fact>> \in Seq(Fact) /\ ledger' = ledger \o <<fact>>
          /\ \A i \in DOMAIN <<fact>> : <<fact>>[i].what \notin Dimensions \cup {"renew"}
      BY <1>1, <3>1, <3>2, ConstantsTyped
    <3> QED
      BY <1>1, <2>1, <3>3, BudgetedElsewhere
  <2> QED
    BY <2>2, <2>3
<1>6. ASSUME OnProject PROVE Budgeted'
  BY <1>3, <1>6 DEF OnProject, cardVars
<1>7. ASSUME NEW new, NEW facts, OnPolicy(new, facts) PROVE Budgeted'
  <2>1. /\ facts \in Seq(Fact) /\ ledger' = ledger \o facts /\ home' = home
        /\ \A i \in DOMAIN facts : facts[i].what \notin Dimensions \cup {"renew"}
        /\ \A i \in DOMAIN ledger : ~(IsAttempt(ledger[i]) /\ ledger[i].policy = policy')
    BY <1>7, ConstantsTyped DEF OnPolicy, cardVars, NamedByNoFact
  <2> QED
    BY <1>1, <2>1, BudgetedElsewhere
<1>8. ASSUME UNCHANGED vars PROVE Budgeted'
  BY <1>3, <1>8 DEF vars
<1> QED
  BY <1>4, <1>5, <1>6, <1>7, <1>8, BudgetedOnCard, BudgetedOnEscalation DEF AnyStep

\* At first nothing is recorded.
LEMMA BudgetedFirst ==
    ASSUME Init, Typed
    PROVE  Budgeted
<1>1. /\ \A chosen \in Policies : \A i \in DOMAIN ledger :
            ~(IsAttempt(ledger[i]) /\ ledger[i].policy = chosen)
      /\ ledger = <<>>
  BY DEF Init
<1>2. ASSUME NEW cycle, NEW card \in Cards, NEW chosen \in Policies, NEW dimension \in Dimensions
      PROVE  /\ Unspent(ledger, cycle, card, chosen, dimension)
             /\ Within(ledger, cycle, card, chosen, dimension)
             /\ SpentFirst(ledger, cycle, card, chosen, dimension)
  <2>1. Unspent(ledger, cycle, card, chosen, dimension)
    BY <1>1, Untouched
  <2>2. Within(ledger, cycle, card, chosen, dimension)
    BY <2>1, CardTyped, Fresh
  <2>3. Renewals(ledger, cycle, chosen, card, dimension) = 0
    <3>1. Number(ledger, AnswersOn(cycle, chosen, card, {"renew"}, dimension)) = 0
      BY <1>1, FewFacts
    <3> QED
      BY <3>1, CardTyped, Counts
  <2>4. /\ Attempts(ledger, cycle, chosen, card, dimension) \in Nat
        /\ SmallestLimit[chosen][dimension] \in Nat
    <3>1. <<>> \in Seq(Fact)
      OBVIOUS
    <3> QED
      BY <3>1, CardTyped, Tallies, Limits
  <2>5. SmallestLimit[chosen][dimension] * 0 = 0
    BY <2>4
  <2> QED
    BY <2>1, <2>2, <2>3, <2>4, <2>5 DEF SpentFirst
<1>3. policy \in Policies \cup {None}
  BY DEF Typed, TypeOK
<1> QED
  BY <1>2, <1>3 DEF Budgeted, Grant, Away, Earned

-----------------------------------------------------------------------------
(* The tally starts at the last rebaseline. *)

Tallied(l, current) ==
    \A i, j \in DOMAIN l :
        /\ IsAttempt(l[i]) /\ l[i].policy = current
        /\ l[j].what = "rebaseline" /\ l[j].cycle = l[i].cycle
        => j < i

\* Attempts come after what there is, and rebaselines before what is to come.
LEMMA TalliedGrows ==
    ASSUME NEW l \in Seq(Fact), NEW facts \in Seq(Fact), NEW current,
           \/ /\ Tallied(l, current)
              /\ \A i \in DOMAIN facts : facts[i].what # "rebaseline"
           \/ /\ \A i \in DOMAIN l : ~(IsAttempt(l[i]) /\ l[i].policy = current)
              /\ \A i \in DOMAIN facts : ~IsAttempt(facts[i])
    PROVE  Tallied(l \o facts, current)
<1> DEFINE both == l \o facts
<1>1. /\ Len(l) \in Nat /\ DOMAIN l = 1 .. Len(l)
      /\ Len(facts) \in Nat /\ DOMAIN facts = 1 .. Len(facts)
      /\ DOMAIN both = 1 .. Len(l) + Len(facts)
      /\ \A i \in 1 .. Len(l) + Len(facts) :
            both[i] = IF i <= Len(l) THEN l[i] ELSE facts[i - Len(l)]
  OBVIOUS
<1> HIDE DEF both
<1>2. ASSUME NEW i \in DOMAIN both
      PROVE  /\ i \in Nat
             /\ \/ i <= Len(l) /\ i \in DOMAIN l /\ both[i] = l[i]
                \/ i > Len(l) /\ \E k \in DOMAIN facts : both[i] = facts[k]
  <2>1. CASE i <= Len(l)
    BY <1>1, <2>1
  <2>2. CASE ~(i <= Len(l))
    <3>1. i - Len(l) \in DOMAIN facts /\ both[i] = facts[i - Len(l)] /\ i > Len(l) /\ i \in Nat
      BY <1>1, <2>2
    <3> QED
      BY <3>1
  <2> QED
    BY <2>1, <2>2
<1>3. ASSUME NEW i \in DOMAIN both, NEW j \in DOMAIN both,
             IsAttempt(both[i]), both[i].policy = current,
             both[j].what = "rebaseline", both[j].cycle = both[i].cycle
      PROVE  j < i
  <2>1. CASE /\ Tallied(l, current)
             /\ \A k \in DOMAIN facts : facts[k].what # "rebaseline"
    <3>1. j <= Len(l) /\ j \in DOMAIN l /\ both[j] = l[j] /\ j \in Nat
      BY <1>2, <1>3, <2>1
    <3>2. CASE i <= Len(l) /\ i \in DOMAIN l /\ both[i] = l[i]
      BY <1>3, <2>1, <3>1, <3>2 DEF Tallied
    <3>3. CASE i > Len(l)
      BY <1>1, <1>2, <3>1, <3>3
    <3> QED
      BY <1>2, <3>2, <3>3
  <2>2. CASE /\ \A k \in DOMAIN l : ~(IsAttempt(l[k]) /\ l[k].policy = current)
             /\ \A k \in DOMAIN facts : ~IsAttempt(facts[k])
    BY <1>2, <1>3, <2>2
  <2> QED
    BY <2>1, <2>2
<1>4. Tallied(both, current)
  BY <1>3 DEF Tallied
<1> QED
  BY <1>4 DEF both

-----------------------------------------------------------------------------
(* What mergers still owe counts with what they recorded. *)

\* The mergers that may yet record a failure of the cycle under the policy.
Owing(entries, current, cycle, chosen) ==
    {merger \in Mergers :
        /\ entries[merger].cycle = cycle
        /\ \/ entries[merger].at = "recording" /\ entries[merger].policy = chosen
           \/ entries[merger].at = "conflicted" /\ current = chosen}

Failed(l, cycle, chosen) == Attempts(l, cycle, chosen, None, "integration_failure")

Owed(l, entries, current) ==
    \A cycle \in Cycles, chosen \in Policies :
        Failed(l, cycle, chosen) + Cardinality(Owing(entries, current, cycle, chosen))
            <= CycleLimit[chosen] + Cardinality(Mergers) - 1

\* Numbers of mergers.
LEMMA MergerCounts ==
    /\ Cardinality(Mergers) \in Nat
    /\ \A S \in SUBSET Mergers :
          IsFiniteSet(S) /\ Cardinality(S) \in Nat /\ Cardinality(S) <= Cardinality(Mergers)
    /\ \A S \in SUBSET Mergers : \A T \in SUBSET S : Cardinality(T) <= Cardinality(S)
    /\ \A S \in SUBSET Mergers : \A merger \in S :
          Cardinality(S \ {merger}) = Cardinality(S) - 1
<1>1. \A S \in SUBSET Mergers : IsFiniteSet(S) /\ Cardinality(S) <= Cardinality(Mergers)
  BY ConstantsTyped, FS_Subset
<1>2. \A S \in SUBSET Mergers : Cardinality(S) \in Nat
  BY <1>1, FS_CardinalityType
<1>3. \A S \in SUBSET Mergers : \A T \in SUBSET S : Cardinality(T) <= Cardinality(S)
  BY <1>1, FS_Subset
<1>4. \A S \in SUBSET Mergers : \A merger \in S : Cardinality(S \ {merger}) = Cardinality(S) - 1
  BY <1>1, FS_RemoveElement
<1> QED
  BY <1>1, <1>2, <1>3, <1>4

\* Nothing more is owed and nothing recorded.
LEMMA OwedKept ==
    ASSUME Typed, NEW facts \in Seq(Fact), ledger' = ledger \o facts,
           NEW cycle \in Cycles, NEW chosen \in Policies, NEW now, NEW then,
           Failed(ledger, cycle, chosen) + Cardinality(now)
              <= CycleLimit[chosen] + Cardinality(Mergers) - 1,
           now \subseteq Mergers, then \subseteq now,
           \A i \in DOMAIN facts : facts[i].what # "integration_failure"
    PROVE  Failed(ledger', cycle, chosen) + Cardinality(then)
              <= CycleLimit[chosen] + Cardinality(Mergers) - 1
<1> DEFINE T == AttemptsOn(cycle, chosen, None, "integration_failure")
<1>1. Number(facts, T) = 0
  BY FewFacts DEF AttemptsOn
<1>2. ledger \in Seq(Fact)
  BY DEF Typed, TypeOK
<1>3. /\ Failed(ledger, cycle, chosen) \in Nat /\ Failed(ledger', cycle, chosen) \in Nat
      /\ Failed(ledger', cycle, chosen) <= Failed(ledger, cycle, chosen) + Number(facts, T)
  BY <1>2, Tallies DEF Failed
<1>4. /\ Cardinality(now) \in Nat /\ Cardinality(then) \in Nat
      /\ Cardinality(then) <= Cardinality(now) /\ Cardinality(Mergers) \in Nat
  BY MergerCounts
<1>5. CycleLimit[chosen] \in Nat
  BY CycleLimits
<1> DEFINE a == Failed(ledger, cycle, chosen)
           b == Failed(ledger', cycle, chosen)
           c == Cardinality(now)
           d == Cardinality(then)
           e == Cardinality(Mergers)
           f == CycleLimit[chosen]
           n == Number(facts, T)
<1>6. /\ a \in Nat /\ b \in Nat /\ c \in Nat /\ d \in Nat /\ e \in Nat /\ f \in Nat
      /\ n = 0 /\ b <= a + n /\ d <= c /\ a + c <= f + e - 1
  BY <1>1, <1>3, <1>4, <1>5
<1> HIDE DEF a, b, c, d, e, f, n
<1>7. b + d <= f + e - 1
  BY <1>6
<1> QED
  BY <1>7 DEF b, d, e, f

\* A policy no failure was recorded under.
LEMMA OwedAnew ==
    ASSUME Typed, NEW facts \in Seq(Fact), ledger' = ledger \o facts,
           NEW cycle \in Cycles, NEW chosen \in Policies, NEW then, then \subseteq Mergers,
           Failed(ledger, cycle, chosen) = 0,
           \A i \in DOMAIN facts : facts[i].what # "integration_failure"
    PROVE  Failed(ledger', cycle, chosen) + Cardinality(then)
              <= CycleLimit[chosen] + Cardinality(Mergers) - 1
<1>1. /\ Cardinality(Mergers) \in Nat /\ Cardinality(then) \in Nat
      /\ Cardinality(then) <= Cardinality(Mergers) /\ CycleLimit[chosen] \in Nat \ {0}
  BY MergerCounts, CycleLimits
<1> DEFINE d == Cardinality(then)
           e == Cardinality(Mergers)
           f == CycleLimit[chosen]
<1>2. 0 + d <= f + e - 1
  <2>1. d \in Nat /\ e \in Nat /\ f \in Nat \ {0} /\ d <= e
    BY <1>1
  <2> HIDE DEF d, e, f
  <2> QED
    BY <2>1
<1>3. Failed(ledger, cycle, chosen) + Cardinality(then)
        <= CycleLimit[chosen] + Cardinality(Mergers) - 1
  BY <1>2
<1> QED
  BY <1>3, OwedKept

Answered == Tallied(ledger, policy) /\ Owed(ledger, merging, policy)

\* Whatever is no failure, by a step that lets no merger begin.
LEMMA AnsweredElsewhere ==
    ASSUME Typed, Answered, NEW facts \in Seq(Fact), ledger' = ledger \o facts,
           \A i \in DOMAIN facts : facts[i].what # "integration_failure",
           merging' = merging,
           \/ policy' = policy /\ \A i \in DOMAIN facts : facts[i].what # "rebaseline"
           \/ /\ policy' \in Policies
              /\ \A i \in DOMAIN ledger : ~(IsAttempt(ledger[i]) /\ ledger[i].policy = policy')
              /\ \A i \in DOMAIN facts : ~IsAttempt(facts[i])
    PROVE  Answered'
<1>1. ledger \in Seq(Fact)
  BY DEF Typed, TypeOK
<1>2. Tallied(ledger', policy')
  BY <1>1, TalliedGrows DEF Answered
<1>3. ASSUME NEW cycle \in Cycles, NEW chosen \in Policies
      PROVE  Failed(ledger', cycle, chosen)
                + Cardinality(Owing(merging, policy', cycle, chosen))
                <= CycleLimit[chosen] + Cardinality(Mergers) - 1
  <2> DEFINE now == Owing(merging, policy, cycle, chosen)
             then == Owing(merging, policy', cycle, chosen)
  <2>1. now \subseteq Mergers /\ then \subseteq Mergers
    BY DEF Owing
  <2>2. Failed(ledger, cycle, chosen) + Cardinality(now)
           <= CycleLimit[chosen] + Cardinality(Mergers) - 1
    BY DEF Answered, Owed
  <2>3. CASE policy' = policy \/ policy' # chosen
    <3>1. then \subseteq now
      BY <2>3 DEF Owing
    <3> HIDE DEF now, then
    <3> QED
      BY <2>1, <2>2, <3>1, OwedKept DEF then
  <2>4. CASE policy' # policy /\ policy' = chosen
    <3>1. Failed(ledger, cycle, chosen) = 0
      BY <2>4, Untouched DEF Failed, AttemptKinds
    <3> HIDE DEF now, then
    <3> QED
      BY <2>1, <3>1, OwedAnew DEF then
  <2> QED
    BY <2>3, <2>4
<1>4. Owed(ledger', merging', policy')
  BY <1>3 DEF Owed
<1> QED
  BY <1>2, <1>4 DEF Answered

\* What a merger does.
LEMMA AnsweredOnMerger ==
    ASSUME Typed, Typed', Answered, NEW merger \in Mergers, OnMerger(merger)
    PROVE  Answered'
<1>1. /\ ledger \in Seq(Fact) /\ policy' = policy /\ merging \in [Mergers -> Merging]
      /\ merging' = [merging EXCEPT ![merger] = merging'[merger]]
      /\ \A other \in Mergers : other = merger \/ merging'[other] = merging[other]
  BY DEF Typed, TypeOK, OnMerger, projectVars, Merging
<1>2. Idle.at = "idle"
  BY DEF Idle
<1>3. ledger = ledger \o <<>> /\ <<>> \in Seq(Fact) /\ DOMAIN <<>> = {}
  BY <1>1
<1>4. ASSUME ledger' = ledger,
             \A cycle \in Cycles, chosen \in Policies :
                \/ Owing(merging', policy, cycle, chosen)
                      \subseteq Owing(merging, policy, cycle, chosen)
                \/ Failed(ledger, cycle, chosen) < CycleLimit[chosen]
      PROVE  Answered'
  <2>1. ledger' = ledger \o <<>>
    BY <1>3, <1>4
  <2>2. ASSUME NEW cycle \in Cycles, NEW chosen \in Policies
        PROVE  Failed(ledger', cycle, chosen)
                  + Cardinality(Owing(merging', policy, cycle, chosen))
                  <= CycleLimit[chosen] + Cardinality(Mergers) - 1
    <3> DEFINE now == Owing(merging, policy, cycle, chosen)
               then == Owing(merging', policy, cycle, chosen)
    <3>1. now \subseteq Mergers /\ then \subseteq Mergers
      BY DEF Owing
    <3>2. Failed(ledger, cycle, chosen) + Cardinality(now)
             <= CycleLimit[chosen] + Cardinality(Mergers) - 1
      BY DEF Answered, Owed
    <3>3. CASE then \subseteq now
      <4> HIDE DEF now, then
      <4> QED
        BY <1>3, <2>1, <3>1, <3>2, <3>3, OwedKept DEF then
    <3>4. CASE Failed(ledger, cycle, chosen) < CycleLimit[chosen]
      <4>1. /\ Failed(ledger, cycle, chosen) \in Nat /\ CycleLimit[chosen] \in Nat
            /\ Cardinality(then) \in Nat /\ Cardinality(then) <= Cardinality(Mergers)
            /\ Cardinality(Mergers) \in Nat
        BY <1>1, <1>3, <3>1, MergerCounts, CycleLimits, Tallies DEF Failed
      <4> DEFINE a == Failed(ledger, cycle, chosen)
                 d == Cardinality(then)
                 e == Cardinality(Mergers)
                 f == CycleLimit[chosen]
      <4>2. a \in Nat /\ d \in Nat /\ e \in Nat /\ f \in Nat /\ a < f /\ d <= e
        BY <3>4, <4>1
      <4> HIDE DEF a, d, e, f
      <4>3. a + d <= f + e - 1
        BY <4>2
      <4> QED
        BY <1>4, <4>3 DEF a, d, e, f
    <3> QED
      BY <1>4, <3>3, <3>4
  <2>3. Tallied(ledger', policy') /\ Owed(ledger', merging', policy')
    BY <1>1, <1>4, <2>2 DEF Answered, Owed
  <2> QED
    BY <2>3 DEF Answered
<1>5. CASE ledger' = ledger /\ merging'[merger] = Idle
  <2>1. \A cycle, chosen :
          Owing(merging', policy, cycle, chosen) \subseteq Owing(merging, policy, cycle, chosen)
    BY <1>1, <1>2, <1>5 DEF Owing
  <2> QED
    BY <1>4, <1>5, <2>1
<1>6. CASE /\ ledger' = ledger /\ merging[merger] = Idle
           /\ merging'[merger].at = "conflicted"
           /\ policy # None => ~CycleEscalated(ledger, merging'[merger].cycle, policy)
  <2>1. ASSUME NEW cycle \in Cycles, NEW chosen \in Policies
        PROVE  \/ Owing(merging', policy, cycle, chosen)
                     \subseteq Owing(merging, policy, cycle, chosen)
               \/ Failed(ledger, cycle, chosen) < CycleLimit[chosen]
    <3>1. CASE cycle = merging'[merger].cycle /\ chosen = policy
      <4>1. /\ ~(Failed(ledger, cycle, chosen) >= CycleLimit[chosen])
            /\ Failed(ledger, cycle, chosen) \in Nat /\ CycleLimit[chosen] \in Nat
        BY <1>1, <1>3, <1>6, <3>1, ConstantsTyped, CycleLimits, Tallies
           DEF CycleEscalated, Failed
      <4> QED
        BY <4>1
    <3>2. CASE ~(cycle = merging'[merger].cycle /\ chosen = policy)
      BY <1>1, <1>6, <3>2 DEF Owing
    <3> QED
      BY <3>1, <3>2
  <2> QED
    BY <1>4, <1>6, <2>1
<1>7. CASE /\ ledger' = ledger
           /\ merging[merger].at = "conflicted" /\ merging'[merger].at = "recording"
           /\ merging'[merger].cycle = merging[merger].cycle
           /\ merging'[merger].policy = policy
  <2>1. \A cycle, chosen :
          Owing(merging', policy, cycle, chosen) \subseteq Owing(merging, policy, cycle, chosen)
    BY <1>1, <1>7 DEF Owing
  <2> QED
    BY <1>4, <1>7, <2>1
<1>8. CASE /\ merging[merger].at = "recording" /\ merging'[merger] = Idle
           /\ ledger' = Append(ledger, AttemptFact(merging[merger].cycle, None,
                                         "integration_failure", "integration_conflict",
                                         merging[merger].policy))
  <2> DEFINE fact == AttemptFact(merging[merger].cycle, None, "integration_failure",
                                 "integration_conflict", merging[merger].policy)
  <2>1. merging[merger].cycle \in Cycles /\ merging[merger].policy \in Policies
    BY <1>8 DEF Typed
  <2>2. /\ fact \in Fact /\ fact.what = "integration_failure"
        /\ fact.cycle = merging[merger].cycle /\ fact.policy = merging[merger].policy
    <3>1. /\ "integration_failure" \in AttemptKinds /\ None \in Subjects
          /\ "integration_conflict" \in Admits("integration_failure")
      BY FactsMade DEF AttemptKinds, Subjects
    <3> QED
      BY <2>1, <3>1, FactsMade
  <2>3. ledger' = Append(ledger, fact)
    BY <1>8
  <2> HIDE DEF fact
  <2>4. /\ <<fact>> \in Seq(Fact) /\ ledger' = ledger \o <<fact>>
        /\ \A i \in DOMAIN <<fact>> : <<fact>>[i] = fact
    BY <1>1, <2>2, <2>3
  <2>5. Tallied(ledger', policy')
    BY <1>1, <2>2, <2>4, TalliedGrows DEF Answered
  <2>6. ASSUME NEW cycle \in Cycles, NEW chosen \in Policies
        PROVE  Failed(ledger', cycle, chosen)
                  + Cardinality(Owing(merging', policy, cycle, chosen))
                  <= CycleLimit[chosen] + Cardinality(Mergers) - 1
    <3> DEFINE now == Owing(merging, policy, cycle, chosen)
               then == Owing(merging', policy, cycle, chosen)
               T == AttemptsOn(cycle, chosen, None, "integration_failure")
    <3>1. now \subseteq Mergers /\ then \subseteq Mergers /\ then \subseteq now \ {merger}
      BY <1>1, <1>2, <1>8 DEF Owing
    <3>2. Failed(ledger, cycle, chosen) + Cardinality(now)
             <= CycleLimit[chosen] + Cardinality(Mergers) - 1
      BY DEF Answered, Owed
    <3>3. /\ Failed(ledger, cycle, chosen) \in Nat /\ Failed(ledger', cycle, chosen) \in Nat
          /\ Failed(ledger', cycle, chosen)
                <= Failed(ledger, cycle, chosen) + Number(<<fact>>, T)
          /\ Number(<<fact>>, T) \in 0 .. 1
      BY <1>1, <2>4, Tallies, FewFacts DEF Failed
    <3>4. fact \notin T => Number(<<fact>>, T) = 0
      BY <2>4, FewFacts
    <3>5. fact \in T => merger \in now
      BY <1>8, <2>2 DEF AttemptsOn, Owing
    <3>6. /\ Cardinality(now) \in Nat /\ Cardinality(then) \in Nat
          /\ Cardinality(Mergers) \in Nat /\ CycleLimit[chosen] \in Nat
          /\ Cardinality(then) <= Cardinality(now)
          /\ merger \in now => Cardinality(then) <= Cardinality(now) - 1
      <4> HIDE DEF now, then
      <4>1. then \subseteq now /\ now \ {merger} \subseteq Mergers
        BY <3>1
      <4>2. /\ Cardinality(then) <= Cardinality(now)
            /\ Cardinality(then) <= Cardinality(now \ {merger})
        BY <3>1, <4>1, MergerCounts
      <4>3. merger \in now => Cardinality(now \ {merger}) = Cardinality(now) - 1
        BY <3>1, MergerCounts
      <4> QED
        BY <3>1, <4>2, <4>3, MergerCounts, CycleLimits
    <3> DEFINE a == Failed(ledger, cycle, chosen)
               b == Failed(ledger', cycle, chosen)
               c == Cardinality(now)
               d == Cardinality(then)
               e == Cardinality(Mergers)
               f == CycleLimit[chosen]
               n == Number(<<fact>>, T)
    <3>7. /\ a \in Nat /\ b \in Nat /\ c \in Nat /\ d \in Nat /\ e \in Nat /\ f \in Nat
          /\ n \in 0 .. 1 /\ b <= a + n /\ d <= c /\ a + c <= f + e - 1
          /\ n = 0 \/ d <= c - 1
      BY <3>2, <3>3, <3>4, <3>5, <3>6
    <3> HIDE DEF a, b, c, d, e, f, n, now, then, T
    <3>8. b + d <= f + e - 1
      BY <3>7
    <3> QED
      BY <3>8 DEF b, d, e, f, then
  <2>7. Owed(ledger', merging', policy')
    BY <1>1, <2>6 DEF Owed
  <2> QED
    BY <2>5, <2>7 DEF Answered
<1> QED
  BY <1>5, <1>6, <1>7, <1>8 DEF OnMerger

\* Every step keeps the tally and what is owed within the grant.
LEMMA AnsweredStep ==
    ASSUME Typed, Typed', Answered, AnyStep, Takes("fresh")
    PROVE  Answered'
<1>1. ledger \in Seq(Fact)
  BY DEF Typed, TypeOK
<1>2. /\ <<>> \in Seq(Fact) /\ DOMAIN <<>> = {} /\ ledger = ledger \o <<>>
  BY <1>1
<1>3. ASSUME UNCHANGED <<ledger, merging>>,
             \/ policy' = policy
             \/ policy' \in Policies /\ \A i \in DOMAIN ledger : ~IsAttempt(ledger[i])
      PROVE  Answered'
  <2>1. ledger' = ledger \o <<>>
    BY <1>2, <1>3
  <2> QED
    BY <1>2, <1>3, <2>1, AnsweredElsewhere
<1>4. ASSUME NEW card \in Cards, OnCard(card) PROVE Answered'
  <2>1. PICK facts : Spends(card, facts)
    BY <1>4 DEF OnCard
  <2>2. /\ facts \in Seq(Fact) /\ ledger' = ledger \o facts /\ policy' = policy
        /\ merging' = merging
        /\ \A i \in DOMAIN facts : facts[i].what \notin {"integration_failure", "rebaseline"}
    BY <1>4, <2>1, ConstantsTyped DEF Spends, Spending, OnCard, projectVars
  <2> QED
    BY <2>2, AnsweredElsewhere
<1>5. ASSUME NEW card \in Cards, OnEscalation(card) PROVE Answered'
  <2>1. PICK fact : Answers(card, fact)
    BY <1>5 DEF OnEscalation
  <2>2. /\ fact \in Fact /\ ledger' = Append(ledger, fact) /\ policy' = policy
        /\ merging' = merging /\ fact.what \notin {"integration_failure", "rebaseline"}
    BY <1>5, <2>1 DEF Answers, OnEscalation, projectVars
  <2>3. /\ <<fact>> \in Seq(Fact) /\ ledger' = ledger \o <<fact>>
        /\ \A i \in DOMAIN <<fact>> : <<fact>>[i] = fact
    BY <1>1, <2>2
  <2> QED
    BY <2>2, <2>3, AnsweredElsewhere
<1>6. ASSUME NEW cycle \in Cycles, OnCycle(cycle) PROVE Answered'
  BY <1>3, <1>6 DEF OnCycle, projectVars
<1>7. ASSUME OnProject PROVE Answered'
  BY <1>3, <1>7 DEF OnProject
<1>8. ASSUME NEW new, NEW facts, OnPolicy(new, facts) PROVE Answered'
  <2>1. /\ facts \in Seq(Fact) /\ ledger' = ledger \o facts /\ merging' = merging
        /\ policy' \in Policies
        /\ \A i \in DOMAIN facts : facts[i].what # "integration_failure" /\ ~IsAttempt(facts[i])
        /\ \A i \in DOMAIN ledger : ~(IsAttempt(ledger[i]) /\ ledger[i].policy = policy')
    BY <1>8 DEF OnPolicy, NamedByNoFact, IsAttempt, AttemptKinds
  <2> QED
    BY <2>1, AnsweredElsewhere
<1>9. ASSUME UNCHANGED vars PROVE Answered'
  BY <1>3, <1>9 DEF vars
<1> QED
  BY <1>4, <1>5, <1>6, <1>7, <1>8, <1>9, AnsweredOnMerger DEF AnyStep

\* At first nothing is owed.
LEMMA AnsweredFirst ==
    ASSUME Init, Typed
    PROVE  Answered
<1>1. ledger = <<>> /\ \A merger \in Mergers : merging[merger].at = "idle"
  BY DEF Init, Idle
<1>2. Tallied(ledger, policy)
  BY <1>1 DEF Tallied
<1>3. ASSUME NEW cycle \in Cycles, NEW chosen \in Policies
      PROVE  Failed(ledger, cycle, chosen)
                + Cardinality(Owing(merging, policy, cycle, chosen))
                <= CycleLimit[chosen] + Cardinality(Mergers) - 1
  <2>1. Owing(merging, policy, cycle, chosen) = {}
    BY <1>1 DEF Owing
  <2>2. Cardinality(Owing(merging, policy, cycle, chosen)) = 0
    BY <2>1, FS_EmptySet
  <2>3. Failed(ledger, cycle, chosen) = 0
    BY <1>1, Untouched DEF Failed, AttemptKinds
  <2>4. Cardinality(Mergers) \in Nat /\ CycleLimit[chosen] \in Nat \ {0}
    BY MergerCounts, CycleLimits
  <2> DEFINE a == Failed(ledger, cycle, chosen)
             d == Cardinality(Owing(merging, policy, cycle, chosen))
             e == Cardinality(Mergers)
             f == CycleLimit[chosen]
  <2>5. a = 0 /\ d = 0 /\ e \in Nat /\ f \in Nat \ {0}
    BY <2>2, <2>3, <2>4
  <2> HIDE DEF a, d, e, f
  <2>6. a + d <= f + e - 1
    BY <2>5
  <2> QED
    BY <2>6 DEF a, d, e, f
<1>4. Owed(ledger, merging, policy)
  BY <1>3 DEF Owed
<1> QED
  BY <1>2, <1>4 DEF Answered

-----------------------------------------------------------------------------
(* Open cycles can be worked on. *)

\* What is recorded, owned or owed belongs to a cycle that exists,
Rooted ==
    /\ \A i \in DOMAIN ledger : Exists(ledger[i].cycle)
    /\ \A card \in Cards : home[card] # None => Exists(home[card])
    /\ \A merger \in Mergers : merging[merger].at # "idle" => Exists(merging[merger].cycle)

\* and what is owed to an open cycle names a policy the cycle has heard of.
Heard ==
    \A merger \in Mergers :
        merging[merger].at = "recording" /\ Open(merging[merger].cycle) =>
            merging[merger].policy \in
                {policy} \cup RetiredPolicies(ledger, merging[merger].cycle)

\* No cycle comes to exist but as a draft, or ceases to, or opens again.
CyclesMove ==
    \A cycle \in Cycles :
        \/ cycleStatus'[cycle] = cycleStatus[cycle]
        \/ ~Exists(cycle) /\ cycleStatus'[cycle] = "draft" /\ pinned'[cycle] = Config
        \/ /\ Exists(cycle) /\ cycleStatus'[cycle] # "absent"
           /\ ~L!IsTerminalCycle(cycleStatus'[cycle]) => ~L!IsTerminalCycle(cycleStatus[cycle])

\* Steps of every kind move cycles so.
LEMMA EveryCycleMoves ==
    ASSUME Typed, AnyStep
    PROVE  CyclesMove
<1>1. cycleStatus' = cycleStatus => CyclesMove
  BY DEF CyclesMove
<1>2. ASSUME NEW cycle \in Cycles, OnCycle(cycle) PROVE CyclesMove
  BY <1>2 DEF OnCycle, CyclesMove
<1> QED
  BY <1>1, <1>2 DEF AnyStep, OnCard, OnEscalation, OnMerger, OnProject, OnPolicy, vars, cycleVars

\* What exists goes on existing, and what is open then was so or is new.
LEMMA Lasting ==
    ASSUME CyclesMove, NEW cycle \in Cycles
    PROVE  /\ Exists(cycle) => cycleStatus'[cycle] # "absent"
           /\ /\ cycleStatus'[cycle] # "absent"
              /\ ~L!IsTerminalCycle(cycleStatus'[cycle])
              => \/ Open(cycle)
                 \/ ~Exists(cycle) /\ pinned'[cycle] = Config
  BY DEF CyclesMove, Exists, Open

\* The facts a step appends, and where.
LEMMA AppendedFacts ==
    ASSUME Typed, Rooted, AnyStep, Takes("named")
    PROVE  \E facts \in Seq(Fact) :
              /\ ledger' = ledger \o facts
              /\ \A i \in DOMAIN facts : facts[i].cycle \in Cycles /\ Exists(facts[i].cycle)
                                         /\ WellBound(facts[i])
              /\ \/ facts = <<>>
                 \/ /\ policy' = policy /\ UNCHANGED <<cycleVars>>
                    /\ \A i \in DOMAIN facts : facts[i].what # "rebaseline"
                    /\ \A i \in DOMAIN facts :
                          \/ facts[i].policy = policy
                          \/ \E merger \in Mergers :
                                /\ merging[merger].at = "recording"
                                /\ facts[i].cycle = merging[merger].cycle
                                /\ facts[i].policy = merging[merger].policy
                 \/ \E new : OnPolicy(new, facts)
<1> DEFINE Goal(facts) ==
      /\ ledger' = ledger \o facts
      /\ \A i \in DOMAIN facts : facts[i].cycle \in Cycles /\ Exists(facts[i].cycle)
                                 /\ WellBound(facts[i])
      /\ \/ facts = <<>>
         \/ /\ policy' = policy /\ UNCHANGED <<cycleVars>>
            /\ \A i \in DOMAIN facts : facts[i].what # "rebaseline"
            /\ \A i \in DOMAIN facts :
                  \/ facts[i].policy = policy
                  \/ \E merger \in Mergers :
                        /\ merging[merger].at = "recording"
                        /\ facts[i].cycle = merging[merger].cycle
                        /\ facts[i].policy = merging[merger].policy
         \/ \E new : OnPolicy(new, facts)
<1>1. ledger \in Seq(Fact)
  BY DEF Typed, TypeOK
<1>2. ASSUME ledger' = ledger PROVE \E facts \in Seq(Fact) : Goal(facts)
  <2>1. <<>> \in Seq(Fact) /\ DOMAIN <<>> = {} /\ ledger' = ledger \o <<>>
    BY <1>1, <1>2
  <2>2. Goal(<<>>)
    BY <2>1
  <2> QED
    BY <2>1, <2>2
<1>3. ASSUME NEW card \in Cards, OnCard(card) PROVE \E facts \in Seq(Fact) : Goal(facts)
  <2>1. PICK facts : Spends(card, facts)
    BY <1>3 DEF OnCard
  <2>2. CASE facts = <<>>
    <3>1. ledger' = ledger
      BY <1>1, <2>1, <2>2 DEF Spends
    <3> QED
      BY <1>2, <3>1
  <2>3. CASE facts # <<>>
    <3>1. /\ facts \in Seq(Fact) /\ ledger' = ledger \o facts
          /\ policy \in Policies /\ home'[card] \in Cycles
          /\ policy' = policy /\ UNCHANGED <<cycleVars>>
      BY <1>3, <2>1, <2>3 DEF Spends, OnCard, projectVars
    <3>2. Exists(home'[card])
      BY <1>3, <3>1, ConstantsTyped DEF OnCard, Rooted
    <3>3. ASSUME NEW i \in DOMAIN facts
          PROVE  /\ facts[i].cycle = home'[card] /\ facts[i].policy = policy
                 /\ facts[i].what # "rebaseline" /\ WellBound(facts[i])
      <4>1. Spending(facts[i], card, home'[card], policy)
        BY <2>1 DEF Spends
      <4>2. card # None
        BY ConstantsTyped
      <4> QED
        BY <4>1, <4>2, ConstantsTyped DEF Spending, WellBound
    <3>4. Goal(facts)
      BY <3>1, <3>2, <3>3
    <3> QED
      BY <3>1, <3>4
  <2> QED
    BY <2>2, <2>3
<1>4. ASSUME NEW card \in Cards, OnEscalation(card) PROVE \E facts \in Seq(Fact) : Goal(facts)
  <2>1. PICK fact : Answers(card, fact)
    BY <1>4 DEF OnEscalation
  <2>2. /\ policy \in Policies /\ home[card] \in Cycles /\ policy' = policy
        /\ UNCHANGED <<cycleVars>>
        /\ fact \in Fact /\ ledger' = Append(ledger, fact) /\ WellBound(fact)
        /\ fact.cycle = home[card] /\ fact.policy = policy /\ fact.what # "rebaseline"
    BY <1>4, <2>1 DEF Answers, OnEscalation, projectVars
  <2>3. Exists(home[card])
    BY <2>2, ConstantsTyped DEF Rooted
  <2>4. /\ <<fact>> \in Seq(Fact) /\ ledger' = ledger \o <<fact>>
        /\ \A i \in DOMAIN <<fact>> : <<fact>>[i] = fact
    BY <1>1, <2>2
  <2>5. Goal(<<fact>>)
    BY <2>2, <2>3, <2>4
  <2> QED
    BY <2>4, <2>5
<1>5. ASSUME NEW merger \in Mergers, OnMerger(merger), ledger' # ledger
      PROVE  \E facts \in Seq(Fact) : Goal(facts)
  <2> DEFINE fact == AttemptFact(merging[merger].cycle, None, "integration_failure",
                                 "integration_conflict", merging[merger].policy)
  <2>1. /\ merging[merger].at = "recording" /\ ledger' = Append(ledger, fact)
        /\ policy' = policy /\ UNCHANGED <<cycleVars>>
    BY <1>5 DEF OnMerger, projectVars
  <2>2. /\ merging[merger].cycle \in Cycles /\ merging[merger].policy \in Policies
        /\ Exists(merging[merger].cycle)
    BY <2>1 DEF Typed, Rooted
  <2>3. /\ fact \in Fact /\ fact.what = "integration_failure" /\ fact.subject = None
        /\ fact.cycle = merging[merger].cycle /\ fact.policy = merging[merger].policy
        /\ fact.reason \in Admits("integration_failure")
    <3>1. /\ "integration_failure" \in AttemptKinds /\ None \in Subjects
          /\ "integration_conflict" \in Admits("integration_failure")
      BY FactsMade DEF AttemptKinds, Subjects
    <3> QED
      BY <2>2, <3>1, FactsMade
  <2> HIDE DEF fact
  <2>4. WellBound(fact)
    BY <2>3 DEF WellBound
  <2>5. /\ <<fact>> \in Seq(Fact) /\ ledger' = ledger \o <<fact>>
        /\ \A i \in DOMAIN <<fact>> : <<fact>>[i] = fact
    BY <1>1, <2>1, <2>3
  <2>6. Goal(<<fact>>)
    BY <2>1, <2>2, <2>3, <2>4, <2>5
  <2> QED
    BY <2>5, <2>6
<1>6. ASSUME NEW new, NEW facts, OnPolicy(new, facts)
      PROVE  \E other \in Seq(Fact) : Goal(other)
  <2>1. /\ facts \in Seq(Fact) /\ ledger' = ledger \o facts
        /\ \A i \in DOMAIN facts :
              /\ facts[i].what = "rebaseline" /\ facts[i].subject = None
              /\ Open(facts[i].cycle)
    BY <1>6 DEF OnPolicy
  <2>2. ASSUME NEW i \in DOMAIN facts
        PROVE  facts[i].cycle \in Cycles /\ Exists(facts[i].cycle) /\ WellBound(facts[i])
    <3>1. facts[i] \in Fact
      BY <2>1
    <3> QED
      BY <2>1, <3>1 DEF Open, Fact, WellBound, IsAttempt, AttemptKinds
  <2>3. Goal(facts)
    BY <1>6, <2>1, <2>2
  <2> QED
    BY <2>1, <2>3
<1> QED
  BY <1>2, <1>3, <1>4, <1>5, <1>6 DEF AnyStep, OnCycle, OnMerger, OnProject, vars

\* The facts of a ledger that grew are the old ones and the new ones.
LEMMA Joined ==
    ASSUME NEW l \in Seq(Fact), NEW facts \in Seq(Fact)
    PROVE  /\ \A i \in DOMAIN l : i \in DOMAIN (l \o facts) /\ (l \o facts)[i] = l[i]
           /\ \A k \in DOMAIN facts : \E i \in DOMAIN (l \o facts) : (l \o facts)[i] = facts[k]
           /\ \A i \in DOMAIN (l \o facts) :
                 \/ i \in DOMAIN l /\ (l \o facts)[i] = l[i]
                 \/ \E k \in DOMAIN facts : (l \o facts)[i] = facts[k]
<1> DEFINE both == l \o facts
<1>1. /\ Len(l) \in Nat /\ DOMAIN l = 1 .. Len(l)
      /\ Len(facts) \in Nat /\ DOMAIN facts = 1 .. Len(facts)
      /\ DOMAIN both = 1 .. Len(l) + Len(facts)
      /\ \A i \in 1 .. Len(l) + Len(facts) :
            both[i] = IF i <= Len(l) THEN l[i] ELSE facts[i - Len(l)]
  OBVIOUS
<1> HIDE DEF both
<1>2. \A i \in DOMAIN l : i \in DOMAIN both /\ both[i] = l[i]
  BY <1>1
<1>3. ASSUME NEW k \in DOMAIN facts PROVE \E i \in DOMAIN both : both[i] = facts[k]
  <2>1. /\ Len(l) + k \in DOMAIN both /\ ~(Len(l) + k <= Len(l)) /\ (Len(l) + k) - Len(l) = k
    BY <1>1
  <2>2. both[Len(l) + k] = facts[k]
    BY <1>1, <2>1
  <2> QED
    BY <2>1, <2>2
<1>4. ASSUME NEW i \in DOMAIN both
      PROVE  \/ i \in DOMAIN l /\ both[i] = l[i]
             \/ \E k \in DOMAIN facts : both[i] = facts[k]
  <2>1. CASE i <= Len(l)
    BY <1>1, <2>1
  <2>2. CASE ~(i <= Len(l))
    <3>1. i - Len(l) \in DOMAIN facts /\ both[i] = facts[i - Len(l)]
      BY <1>1, <2>2
    <3> QED
      BY <3>1
  <2> QED
    BY <2>1, <2>2
<1> QED
  BY <1>2, <1>3, <1>4 DEF both

\* So are the policies that its rebaselines retired.
LEMMA Retiring ==
    ASSUME NEW l \in Seq(Fact), NEW facts \in Seq(Fact), NEW cycle
    PROVE  RetiredPolicies(l \o facts, cycle)
              = RetiredPolicies(l, cycle) \cup RetiredPolicies(facts, cycle)
<1> DEFINE both == l \o facts
           Retires(s, chosen) == \E i \in DOMAIN s : /\ s[i].cycle = cycle
                                                     /\ s[i].what = "rebaseline"
                                                     /\ s[i].retires = chosen
<1>1. \A s, chosen : chosen \in RetiredPolicies(s, cycle) <=> Retires(s, chosen)
  BY DEF RetiredPolicies, FactsOf
<1>2. ASSUME NEW chosen
      PROVE  Retires(both, chosen) <=> Retires(l, chosen) \/ Retires(facts, chosen)
  <2>1. /\ \A i \in DOMAIN l : i \in DOMAIN both /\ both[i] = l[i]
        /\ \A k \in DOMAIN facts : \E i \in DOMAIN both : both[i] = facts[k]
        /\ \A i \in DOMAIN both :
              \/ i \in DOMAIN l /\ both[i] = l[i]
              \/ \E k \in DOMAIN facts : both[i] = facts[k]
    BY Joined
  <2> HIDE DEF both
  <2> QED
    BY <2>1
<1> HIDE DEF both, Retires
<1> QED
  BY <1>1, <1>2 DEF both

\* Rooted is kept, when revisions name cycles that exist.
LEMMA RootedStep ==
    ASSUME Typed, Typed', Rooted, AnyStep, Takes("named")
    PROVE  Rooted'
<1>1. \A cycle \in Cycles : Exists(cycle) => cycleStatus'[cycle] # "absent"
  BY EveryCycleMoves, Lasting
<1>2. PICK facts \in Seq(Fact) :
         /\ ledger' = ledger \o facts
         /\ \A i \in DOMAIN facts : facts[i].cycle \in Cycles /\ Exists(facts[i].cycle)
  BY AppendedFacts
<1>3. ledger \in Seq(Fact) /\ \A i \in DOMAIN ledger : ledger[i].cycle \in Cycles
  <2>1. ledger \in Seq(Fact)
    BY DEF Typed, TypeOK
  <2>2. \A i \in DOMAIN ledger : ledger[i] \in Fact
    BY <2>1
  <2> QED
    BY <2>1, <2>2 DEF Fact
<1>4. \A i \in DOMAIN ledger' : cycleStatus'[ledger'[i].cycle] # "absent"
  BY <1>1, <1>2, <1>3, Joined DEF Rooted
<1>5. ASSUME NEW card \in Cards, home'[card] # None
      PROVE  cycleStatus'[home'[card]] # "absent"
  <2>1. home[card] \in Cycles \cup {None}
    BY CardTyped
  <2>2. \/ home'[card] = home[card]
        \/ home'[card] \in Cycles /\ Exists(home'[card])
    BY DEF AnyStep, OnCard, OnEscalation, OnCycle, OnMerger, OnProject, OnPolicy, vars, cardVars
  <2> QED
    BY <1>1, <1>5, <2>1, <2>2 DEF Rooted
<1>6. ASSUME NEW merger \in Mergers, merging'[merger].at # "idle"
      PROVE  cycleStatus'[merging'[merger].cycle] # "absent"
  <2>1. CASE merging'[merger] = merging[merger]
    BY <1>1, <1>6, <2>1 DEF Rooted, Typed
  <2>2. CASE merging'[merger] # merging[merger]
    <3>1. PICK other \in Mergers : OnMerger(other)
      BY <2>2 DEF AnyStep, OnCard, OnEscalation, OnCycle, OnProject, OnPolicy, vars, projectVars,
         cycleVars, cardVars
    <3>2. merging \in [Mergers -> Merging]
          /\ merging' = [merging EXCEPT ![other] = merging'[other]]
      BY <3>1 DEF Typed, TypeOK, Merging, OnMerger
    <3>3. other = merger
      BY <2>2, <3>2
    <3>4. Idle.at = "idle"
      BY DEF Idle
    <3> QED
      BY <1>1, <1>6, <3>1, <3>3, <3>4 DEF OnMerger, Rooted, Typed
  <2> QED
    BY <2>1, <2>2
<1> QED
  BY <1>4, <1>5, <1>6 DEF Rooted, Exists

\* The facts of an open cycle name the policy in force or one it was told of.
Told ==
    policy # None =>
        \A cycle \in Cycles : Open(cycle) =>
            /\ policy \notin RetiredPolicies(ledger, cycle)
            /\ \A i \in FactsOf(ledger, cycle) :
                  Accounted(ledger[i], policy, RetiredPolicies(ledger, cycle))

Bound == \A i \in DOMAIN ledger : WellBound(ledger[i])

Workable == Rooted /\ Heard /\ Told /\ Bound /\ OpenCyclePinsProject

\* A step that appends no rebaseline, and changes no cycle, policy or document.
LEMMA WorkableGrows ==
    ASSUME Typed, Typed', Workable, NEW facts \in Seq(Fact), ledger' = ledger \o facts,
           UNCHANGED <<projectVars, cycleVars>>,
           \A i \in DOMAIN facts : facts[i].what # "rebaseline",
           \A i \in DOMAIN facts :
              \/ facts[i].policy = policy
              \/ \E merger \in Mergers :
                    /\ merging[merger].at = "recording"
                    /\ facts[i].cycle = merging[merger].cycle
                    /\ facts[i].policy = merging[merger].policy,
           \A merger \in Mergers :
              merging'[merger].at = "recording" =>
                 \/ merging'[merger] = merging[merger]
                 \/ merging'[merger].policy = policy
    PROVE  Heard' /\ Told' /\ OpenCyclePinsProject'
<1>1. ledger \in Seq(Fact) /\ policy' = policy /\ cycleStatus' = cycleStatus /\ pinned' = pinned
      /\ authorization' = authorization /\ exemption' = exemption
  BY DEF Typed, TypeOK, projectVars, cycleVars
<1>2. ASSUME NEW cycle
      PROVE  RetiredPolicies(ledger', cycle) = RetiredPolicies(ledger, cycle)
  <2>1. RetiredPolicies(facts, cycle) = {}
    BY DEF RetiredPolicies, FactsOf
  <2>2. RetiredPolicies(ledger \o facts, cycle)
           = RetiredPolicies(ledger, cycle) \cup RetiredPolicies(facts, cycle)
    BY <1>1, Retiring
  <2> QED
    BY <2>1, <2>2
<1>3. Heard'
  BY <1>1, <1>2 DEF Workable, Heard, Open, Exists
<1>4. Told'
  <2>1. ASSUME policy # None, NEW cycle \in Cycles, Open(cycle), NEW i \in DOMAIN ledger',
               ledger'[i].cycle = cycle
        PROVE  Accounted(ledger'[i], policy, RetiredPolicies(ledger, cycle))
    <3>1. CASE i \in DOMAIN ledger /\ ledger'[i] = ledger[i]
      BY <2>1, <3>1 DEF Workable, Told, FactsOf
    <3>2. ASSUME NEW k \in DOMAIN facts, ledger'[i] = facts[k]
          PROVE  Accounted(ledger'[i], policy, RetiredPolicies(ledger, cycle))
      BY <2>1, <3>2 DEF Workable, Heard, Accounted
    <3> QED
      BY <1>1, <3>1, <3>2, Joined
  <2>2. ASSUME policy # None, NEW cycle \in Cycles, Open(cycle)
        PROVE  policy \notin RetiredPolicies(ledger, cycle)
    BY <2>2 DEF Workable, Told
  <2> QED
    BY <1>1, <1>2, <2>1, <2>2 DEF Told, FactsOf, Open, Exists
<1>5. OpenCyclePinsProject'
  BY <1>1 DEF Workable, OpenCyclePinsProject, Open, Exists, Config, ConfigWith
<1> QED
  BY <1>3, <1>4, <1>5

\* What a cycle's own step does.
LEMMA WorkableOnCycle ==
    ASSUME Typed, Workable, NEW cycle \in Cycles, OnCycle(cycle)
    PROVE  Heard' /\ Told' /\ OpenCyclePinsProject'
<1>1. /\ ledger' = ledger /\ policy' = policy /\ merging' = merging
      /\ authorization' = authorization /\ exemption' = exemption
  BY DEF OnCycle, projectVars
<1>2. ASSUME NEW other \in Cycles, cycleStatus'[other] # "absent",
             ~L!IsTerminalCycle(cycleStatus'[other])
      PROVE  \/ Open(other) /\ pinned'[other] = pinned[other]
             \/ ~Exists(other) /\ pinned'[other] = Config
  BY <1>2 DEF OnCycle, Exists, Open
<1>3. ASSUME NEW other \in Cycles, ~Exists(other)
      PROVE  /\ FactsOf(ledger, other) = {} /\ RetiredPolicies(ledger, other) = {}
             /\ \A merger \in Mergers :
                   merging[merger].at = "recording" => merging[merger].cycle # other
  <2>1. FactsOf(ledger, other) = {}
    BY <1>3 DEF Workable, Rooted, FactsOf
  <2> QED
    BY <1>3, <2>1 DEF RetiredPolicies, Workable, Rooted
<1>4. Heard'
  <2>1. ASSUME NEW merger \in Mergers, merging[merger].at = "recording",
               cycleStatus'[merging[merger].cycle] # "absent",
               ~L!IsTerminalCycle(cycleStatus'[merging[merger].cycle])
        PROVE  merging[merger].policy \in
                  {policy} \cup RetiredPolicies(ledger, merging[merger].cycle)
    <3>1. merging[merger].cycle \in Cycles /\ Exists(merging[merger].cycle)
      BY <2>1 DEF Typed, Workable, Rooted
    <3>2. Open(merging[merger].cycle)
      BY <1>2, <2>1, <3>1
    <3> QED
      BY <2>1, <3>2 DEF Workable, Heard
  <2> QED
    BY <1>1, <2>1 DEF Heard, Open, Exists
<1>5. Told'
  <2>1. ASSUME policy # None, NEW other \in Cycles, cycleStatus'[other] # "absent",
               ~L!IsTerminalCycle(cycleStatus'[other])
        PROVE  /\ policy \notin RetiredPolicies(ledger, other)
               /\ \A i \in FactsOf(ledger, other) :
                     Accounted(ledger[i], policy, RetiredPolicies(ledger, other))
    <3>1. CASE Open(other)
      BY <2>1, <3>1 DEF Workable, Told
    <3>2. CASE ~Exists(other)
      BY <1>3, <3>2
    <3> QED
      BY <1>2, <2>1, <3>1, <3>2
  <2> QED
    BY <1>1, <2>1 DEF Told, Open, Exists
<1>6. OpenCyclePinsProject'
  BY <1>1, <1>2 DEF Workable, OpenCyclePinsProject, Open, Exists, Config, ConfigWith
<1> QED
  BY <1>4, <1>5, <1>6

\* Project commands, while no cycle is open.
LEMMA WorkableOnProject ==
    ASSUME Typed, Workable, OnProject, Takes("settled"), Takes("early")
    PROVE  Heard' /\ Told' /\ OpenCyclePinsProject'
<1>1. /\ NoCycleOpen /\ ledger' = ledger /\ merging' = merging /\ cycleStatus' = cycleStatus
  BY DEF OnProject, cycleVars
<1>2. \A other \in Cycles :
          cycleStatus'[other] = "absent" \/ L!IsTerminalCycle(cycleStatus'[other])
  BY <1>1 DEF NoCycleOpen, Open, Exists
<1>3. \A merger \in Mergers :
         merging'[merger].at = "recording" => merging'[merger].cycle \in Cycles
  BY <1>1 DEF Typed
<1> QED
  BY <1>2, <1>3 DEF Heard, Told, OpenCyclePinsProject, Open, Exists

\* A rebaseline tells every open cycle.
LEMMA WorkableOnPolicy ==
    ASSUME Typed, Workable, NEW new, NEW facts, OnPolicy(new, facts), Takes("fresh")
    PROVE  Heard' /\ Told' /\ OpenCyclePinsProject'
<1>1. /\ ledger \in Seq(Fact) /\ facts \in Seq(Fact) /\ ledger' = ledger \o facts
      /\ policy \in Policies /\ new # policy /\ policy' = new /\ policy # None
      /\ NamedByNoFact(new)
      /\ cycleStatus' = cycleStatus /\ merging' = merging
      /\ authorization' = authorization /\ exemption' = exemption
  BY ConstantsTyped DEF OnPolicy, Typed, TypeOK
<1>2. \A i \in DOMAIN facts :
          /\ facts[i].what = "rebaseline" /\ facts[i].policy = new /\ facts[i].retires = policy
  BY DEF OnPolicy
<1>3. ASSUME NEW cycle \in Cycles, Open(cycle)
      PROVE  RetiredPolicies(ledger', cycle) = RetiredPolicies(ledger, cycle) \cup {policy}
  <2>1. \E i \in DOMAIN facts : facts[i].cycle = cycle
    BY <1>3 DEF OnPolicy
  <2>2. RetiredPolicies(facts, cycle) = {policy}
    BY <1>2, <2>1 DEF RetiredPolicies, FactsOf
  <2> QED
    BY <1>1, <2>2, Retiring
<1>4. Heard'
  <2>1. \A merger \in Mergers : merging[merger].at = "recording" => merging[merger].cycle \in Cycles
    BY DEF Typed
  <2> QED
    BY <1>1, <1>3, <2>1 DEF Workable, Heard, Open, Exists
<1>5. Told'
  <2>1. ASSUME NEW cycle \in Cycles, Open(cycle)
        PROVE  new \notin RetiredPolicies(ledger', cycle)
    <3>1. new \notin RetiredPolicies(ledger, cycle)
      BY <1>1 DEF RetiredPolicies, FactsOf, NamedByNoFact
    <3> QED
      BY <1>1, <1>3, <2>1, <3>1
  <2>2. ASSUME NEW cycle \in Cycles, Open(cycle), NEW i \in DOMAIN ledger',
               ledger'[i].cycle = cycle
        PROVE  Accounted(ledger'[i], new, RetiredPolicies(ledger', cycle))
    <3>1. CASE i \in DOMAIN ledger /\ ledger'[i] = ledger[i]
      <4>1. Accounted(ledger[i], policy, RetiredPolicies(ledger, cycle))
        BY <1>1, <2>2, <3>1 DEF Workable, Told, FactsOf
      <4> QED
        BY <1>3, <2>2, <3>1, <4>1 DEF Accounted
    <3>2. ASSUME NEW k \in DOMAIN facts, ledger'[i] = facts[k]
          PROVE  Accounted(ledger'[i], new, RetiredPolicies(ledger', cycle))
      BY <1>2, <3>2 DEF Accounted
    <3> QED
      BY <1>1, <3>1, <3>2, Joined
  <2> QED
    BY <1>1, <2>1, <2>2 DEF Told, FactsOf, Open, Exists
<1>6. OpenCyclePinsProject'
  <2>1. ASSUME NEW cycle \in Cycles, Open(cycle) PROVE pinned'[cycle] = ConfigWith(new)
    BY <2>1 DEF OnPolicy
  <2> QED
    BY <1>1, <2>1 DEF OpenCyclePinsProject, Open, Exists, Config, ConfigWith
<1> QED
  BY <1>4, <1>5, <1>6

\* Every step keeps open cycles workable.
LEMMA WorkableStep ==
    ASSUME Typed, Typed', Workable, AnyStep, Cautions = AllCautions
    PROVE  Workable'
<1>1. Takes("named") /\ Takes("settled") /\ Takes("fresh") /\ Takes("early")
  BY DEF Takes, AllCautions
<1>2. Rooted'
  BY <1>1, RootedStep DEF Workable
<1>3. PICK facts \in Seq(Fact) :
         /\ ledger' = ledger \o facts
         /\ \A i \in DOMAIN facts : WellBound(facts[i])
         /\ \/ facts = <<>>
            \/ /\ policy' = policy /\ UNCHANGED <<cycleVars>>
               /\ \A i \in DOMAIN facts : facts[i].what # "rebaseline"
               /\ \A i \in DOMAIN facts :
                     \/ facts[i].policy = policy
                     \/ \E merger \in Mergers :
                           /\ merging[merger].at = "recording"
                           /\ facts[i].cycle = merging[merger].cycle
                           /\ facts[i].policy = merging[merger].policy
            \/ \E new : OnPolicy(new, facts)
  BY <1>1, AppendedFacts DEF Workable
<1>4. Bound'
  <2>1. ledger \in Seq(Fact)
    BY DEF Typed, TypeOK
  <2> QED
    BY <1>3, <2>1, Joined DEF Workable, Bound
<1>5. ASSUME UNCHANGED <<projectVars, cycleVars>>,
             \A merger \in Mergers :
                merging'[merger].at = "recording" =>
                   \/ merging'[merger] = merging[merger]
                   \/ merging'[merger].policy = policy
      PROVE  Heard' /\ Told' /\ OpenCyclePinsProject'
  <2>1. CASE \E new : OnPolicy(new, facts)
    <3>1. policy' # policy
      BY <2>1 DEF OnPolicy
    <3> QED
      BY <1>5, <3>1 DEF projectVars
  <2>2. CASE ~ \E new : OnPolicy(new, facts)
    BY <1>3, <1>5, <2>2, WorkableGrows
  <2> QED
    BY <2>1, <2>2
<1>6. ASSUME NEW card \in Cards, OnCard(card) \/ OnEscalation(card)
      PROVE  Heard' /\ Told' /\ OpenCyclePinsProject'
  BY <1>5, <1>6 DEF OnCard, OnEscalation
<1>7. ASSUME NEW merger \in Mergers, OnMerger(merger)
      PROVE  Heard' /\ Told' /\ OpenCyclePinsProject'
  <2>1. UNCHANGED <<projectVars, cycleVars>> /\ merging \in [Mergers -> Merging]
        /\ merging' = [merging EXCEPT ![merger] = merging'[merger]]
    BY <1>7 DEF OnMerger, Typed, TypeOK, Merging
  <2>2. merging'[merger].at = "recording" => merging'[merger].policy = policy
    BY <1>7 DEF OnMerger, Idle
  <2>3. \A other \in Mergers : other = merger \/ merging'[other] = merging[other]
    BY <2>1
  <2> QED
    BY <1>5, <2>1, <2>2, <2>3
<1>8. ASSUME UNCHANGED vars PROVE Heard' /\ Told' /\ OpenCyclePinsProject'
  BY <1>5, <1>8 DEF vars, projectVars, cycleVars
<1>9. Heard' /\ Told' /\ OpenCyclePinsProject'
  BY <1>1, <1>6, <1>7, <1>8, WorkableOnCycle, WorkableOnProject, WorkableOnPolicy DEF AnyStep
<1> QED
  BY <1>2, <1>4, <1>9 DEF Workable

\* At first there is no cycle.
LEMMA WorkableFirst ==
    ASSUME Init
    PROVE  Workable
<1>1. /\ \A cycle \in Cycles : cycleStatus[cycle] = "absent"
      /\ ledger = <<>> /\ \A card \in Cards : home[card] = None
      /\ \A merger \in Mergers : merging[merger].at = "idle"
  BY DEF Init, Idle
<1> QED
  BY <1>1 DEF Workable, Rooted, Heard, Told, Bound, OpenCyclePinsProject, Open, Exists

-----------------------------------------------------------------------------
(* The theorems. *)

\* The types hold in every reachable state, whatever the operator avoids.
THEOREM ConvergenceTypes == Spec => []TypeOK
<1>1. Typed /\ [Next]_vars => Typed'
  BY EveryStep
<1>2. Typed => TypeOK
  BY DEF Typed
<1> QED
  BY <1>1, <1>2, TypedFirst, PTL DEF Spec

\* The inductive invariants say what the budget promises.
LEMMA BudgetHolds ==
    ASSUME Typed, Budgeted, Answered
    PROVE  BudgetKept
<1>1. AttemptsWithinGrant
  BY DEF Budgeted, Grant, Within, AttemptsWithinGrant
<1>2. NothingRenewedAhead
  BY DEF Budgeted, Earned, SpentFirst, NothingRenewedAhead
<1>3. FailuresWithinGrant
  <2>1. ASSUME NEW cycle \in Cycles, NEW chosen \in Policies
        PROVE  Attempts(ledger, cycle, chosen, None, "integration_failure")
                  <= CycleLimit[chosen] + Cardinality(Mergers) - 1
    <3> DEFINE a == Attempts(ledger, cycle, chosen, None, "integration_failure")
               d == Cardinality(Owing(merging, policy, cycle, chosen))
               e == Cardinality(Mergers)
               f == CycleLimit[chosen]
    <3>1. a + d <= f + e - 1
      BY DEF Answered, Owed, Failed
    <3>2. d \in Nat /\ e \in Nat /\ f \in Nat
      BY MergerCounts, CycleLimits DEF Owing
    <3>3. a \in Nat
      <4>1. ledger \in Seq(Fact) /\ <<>> \in Seq(Fact)
        BY DEF Typed, TypeOK
      <4> QED
        BY <4>1, Tallies
    <3> HIDE DEF a, d, e, f
    <3>4. a <= f + e - 1
      BY <3>1, <3>2, <3>3
    <3> QED
      BY <3>4 DEF a, e, f
  <2> QED
    BY <2>1 DEF FailuresWithinGrant
<1>4. TallyStartsAtRebaseline
  BY DEF Answered, Tallied, TallyStartsAtRebaseline, CountedAttempts, IsAttempt
<1> QED
  BY <1>1, <1>2, <1>3, <1>4 DEF BudgetKept, Typed

\* No interleaving spends beyond the grant, grants ahead of the spending or counts
\* from before a rebaseline, when rebaselines install policies no fact names: the
\* code compares the new policy with the installed one only.
THEOREM BudgetIsKept ==
    ASSUME Takes("fresh")
    PROVE  Spec => []BudgetKept
<1> DEFINE Kept == Typed /\ Budgeted /\ Answered
<1>1. Init => Kept
  BY TypedFirst, BudgetedFirst, AnsweredFirst
<1>2. Kept /\ [Next]_vars => Kept'
  <2> SUFFICES ASSUME Kept, [Next]_vars
               PROVE  Kept'
    OBVIOUS
  <2>1. Typed' /\ AnyStep
    BY EveryStep
  <2>2. Budgeted'
    BY <2>1, BudgetedStep
  <2>3. Answered'
    BY <2>1, AnsweredStep
  <2> QED
    BY <2>1, <2>2, <2>3
<1>3. Kept => BudgetKept
  BY BudgetHolds
<1> QED
  BY <1>1, <1>2, <1>3, PTL DEF Spec

\* An open cycle reads.
LEMMA OpenCyclesRead ==
    ASSUME Typed, Workable
    PROVE  OpenCycleWorkable
<1>1. ASSUME policy # None, NEW cycle \in Cycles, Open(cycle)
      PROVE  Readable(ledger, cycle, policy)
  <2>1. policy \notin RetiredPolicies(ledger, cycle)
    BY <1>1 DEF Workable, Told
  <2>2. \A i \in FactsOf(ledger, cycle) :
           /\ Accounted(ledger[i], policy, RetiredPolicies(ledger, cycle))
           /\ WellBound(ledger[i])
    BY <1>1 DEF Workable, Told, Bound, FactsOf
  <2>3. Cardinality(FactsOf(ledger, cycle)) <= MaxU32
    <3>1. /\ Len(ledger) \in Nat /\ Len(ledger) <= MaxFacts
          /\ FactsOf(ledger, cycle) \subseteq 1 .. Len(ledger)
      BY DEF Typed, TypeOK, FactsOf
    <3>2. /\ IsFiniteSet(1 .. Len(ledger)) /\ Cardinality(1 .. Len(ledger)) = Len(ledger)
      <4>1. 1 \in Int /\ Len(ledger) \in Int
        BY <3>1
      <4>2. /\ IsFiniteSet(1 .. Len(ledger))
            /\ Cardinality(1 .. Len(ledger))
                  = IF 1 > Len(ledger) THEN 0 ELSE Len(ledger) - 1 + 1
        BY <4>1, FS_Interval
      <4> DEFINE n == Len(ledger)
                 c == Cardinality(1 .. Len(ledger))
      <4>3. n \in Nat /\ c = IF 1 > n THEN 0 ELSE n - 1 + 1
        BY <3>1, <4>2
      <4> HIDE DEF n, c
      <4>4. c = n
        BY <4>3
      <4> QED
        BY <4>2, <4>4 DEF n, c
    <3>3. /\ IsFiniteSet(FactsOf(ledger, cycle))
          /\ Cardinality(FactsOf(ledger, cycle)) <= Cardinality(1 .. Len(ledger))
      BY <3>1, <3>2, FS_Subset
    <3>4. Cardinality(FactsOf(ledger, cycle)) \in Nat
      BY <3>3, FS_CardinalityType
    <3> QED
      BY <3>1, <3>2, <3>3, <3>4, ConstantsTyped
  <2> QED
    BY <2>1, <2>2, <2>3 DEF Readable
<1> QED
  BY <1>1 DEF Workable, OpenCycleWorkable, OpenCycleAssessable

\* No sequence of policy changes, dispositions and attempts makes an open cycle
\* unworkable, when the operator takes every caution; the code asks for none.
THEOREM OpenCyclesAreWorkable ==
    ASSUME Cautions = AllCautions
    PROVE  Spec => []OpenCycleWorkable
<1> DEFINE Kept == Typed /\ Workable
<1>1. Init => Kept
  BY TypedFirst, WorkableFirst
<1>2. Kept /\ [Next]_vars => Kept'
  <2> SUFFICES ASSUME Kept, [Next]_vars
               PROVE  Kept'
    OBVIOUS
  <2>1. Typed' /\ AnyStep
    BY EveryStep
  <2>2. Workable'
    BY <2>1, WorkableStep
  <2> QED
    BY <2>1, <2>2
<1>3. Kept => OpenCycleWorkable
  BY OpenCyclesRead
<1> QED
  BY <1>1, <1>2, <1>3, PTL DEF Spec

-----------------------------------------------------------------------------
(* Escalations. *)

\* What an escalated card may do.
Restrained(card) ==
    /\ cardState'[card] # cardState[card]
    /\ cardState[card] # "draft"
    /\ ExhaustedNow(card) # {}
    => \/ cardState'[card] \in {"blocked", "abandoned"}
       \/ cardState'[card] = "active" /\ cardState[card] # "ready"

\* Commands on a card leave the others where they are and are asked for a budget.
LEMMA RestrainedCommands ==
    ASSUME Typed, NEW mover \in Cards, CardStep(mover), NEW card \in Cards
    PROVE  Restrained(card)
<1>1. cardState \in [Cards -> L!CardStates]
  BY DEF Typed, TypeOK
<1>2. ASSUME NEW state, SetCard(mover, state),
             \/ cardState[mover] = "draft" \/ ExhaustedNow(mover) = {}
             \/ state \in {"blocked", "abandoned"}
             \/ state = "active" /\ cardState[mover] # "ready"
      PROVE  Restrained(card)
  BY <1>1, <1>2 DEF SetCard, Restrained
<1>3. CASE \E cycle \in Cycles : ActivateCard(mover, cycle)
  BY <1>2, <1>3 DEF ActivateCard
<1>4. CASE TakeUp(mover)
  BY <1>2, <1>4 DEF TakeUp, RequireConvergenceBudget
<1>5. CASE TakeBack(mover)
  <2>1. cardState[mover] # "ready"
    BY <1>5, Tables DEF TakeBack
  <2> QED
    BY <1>2, <1>5, <2>1 DEF TakeBack
<1>6. CASE \E declared \in 0 .. (MaxDeclared + 1) : HandOff(mover, declared)
  BY <1>2, <1>6 DEF HandOff, RequireConvergenceBudget
<1>7. CASE BeginReview(mover)
  BY <1>2, <1>7 DEF BeginReview, RequireConvergenceBudget
<1>8. CASE \E decision \in {"approved", "changes_requested", "blocked"},
              reason \in ReturnReasons \cup {None} : RecordReview(mover, decision, reason)
  BY <1>2, <1>8 DEF RecordReview, RequireConvergenceBudget
<1>9. CASE Block(mover)
  BY <1>2, <1>9 DEF Block
<1>10. CASE \E cycle \in Cycles, newRisk \in Risks, material \in BOOLEAN :
              Revise(mover, cycle, newRisk, material)
  BY <1>2, <1>10 DEF Revise, RequireConvergenceBudget
<1>11. CASE AbandonCard(mover)
  BY <1>2, <1>11 DEF AbandonCard
<1> QED
  BY <1>3, <1>4, <1>5, <1>6, <1>7, <1>8, <1>9, <1>10, <1>11 DEF CardStep

\* Dispositions end cards or leave them.
LEMMA RestrainedDispositions ==
    ASSUME Typed, NEW mover \in Cards, Disposition(mover), NEW card \in Cards
    PROVE  Restrained(card)
<1>1. cardState \in [Cards -> L!CardStates]
  BY DEF Typed, TypeOK
<1>2. cardState' = cardState => Restrained(card)
  BY DEF Restrained
<1>3. SetCard(mover, "abandoned") => Restrained(card)
  BY <1>1 DEF SetCard, Restrained
<1> QED
  BY <1>2, <1>3 DEF Disposition, Renew, AcceptRisk, Split, AbandonEscalated, Redesign, cardVars

\* An escalated card goes on only once the escalation is answered: no command
\* takes it towards review, hands it off or starts it again meanwhile.
THEOREM EscalationIsHeld == Spec => EscalationHolds
<1>1. Typed /\ [Next]_vars => Typed'
  BY EveryStep
<1>2. Typed /\ [Next]_vars =>
        [\A card \in Cards :
          /\ cardState'[card] # cardState[card]
          /\ cardState[card] # "draft"
          /\ ExhaustedNow(card) # {}
          => \/ cardState'[card] \in {"blocked", "abandoned"}
             \/ cardState'[card] = "active" /\ cardState[card] # "ready"]_vars
  <2> SUFFICES ASSUME Typed, Next, NEW card \in Cards
               PROVE  Restrained(card)
    BY DEF Restrained
  <2>1. cardState' = cardState => Restrained(card)
    BY DEF Restrained
  <2>2. CASE \E cycle \in Cycles : CycleStep(cycle)
    BY <2>1, <2>2, CycleEffect DEF OnCycle, cardVars
  <2>3. CASE \E mover \in Cards : CardStep(mover) \/ Disposition(mover)
    BY <2>3, RestrainedCommands, RestrainedDispositions
  <2>4. CASE \E merger \in Mergers : MergeStep(merger)
    BY <2>1, <2>4, MergerEffect DEF OnMerger, cardVars
  <2>5. CASE PolicyStep
    BY <2>1, <2>5 DEF PolicyStep, SetConvergencePolicy, Rebaseline, SetFinalAuthorization,
       SetMutationExemption, cardVars
  <2> QED
    BY <2>2, <2>3, <2>4, <2>5 DEF Next
<1> QED
  BY <1>1, <1>2, TypedFirst, PTL DEF Spec, EscalationHolds
==============================================================================
