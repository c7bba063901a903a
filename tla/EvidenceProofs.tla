--------------------------- MODULE EvidenceProofs ---------------------------
(***************************************************************************)
(* What the parts of the harness that judge evidence promise, for every    *)
(* set of verdicts, receipts, lessons, shapes and claims and for every     *)
(* bound. Each part is followed alone (Evidence), so each has an invariant *)
(* of its own and its proof looks at its own actions.                      *)
(***************************************************************************)
EXTENDS Evidence, WellFoundedInduction, FiniteSetTheorems, SequenceTheorems, TLAPS

-----------------------------------------------------------------------------
(***************************************************************************)
(* Sequences whose elements have no set of their own.                      *)
(***************************************************************************)

IsSequence(s) == s \in Seq(ToSet(s))

LEMMA NoElements == IsSequence(<<>>) /\ Len(<<>>) = 0 /\ DOMAIN <<>> = {}
BY EmptySeq DEF IsSequence, ToSet

LEMMA SequenceDomain ==
    ASSUME NEW s, IsSequence(s)
    PROVE  Len(s) \in Nat /\ DOMAIN s = 1 .. Len(s)
BY LenProperties DEF IsSequence

\* A sequence of any set is one.
LEMMA SequenceOf ==
    ASSUME NEW S, NEW s \in Seq(S)
    PROVE  IsSequence(s)
<1>1. Len(s) \in Nat /\ DOMAIN s = 1 .. Len(s) /\ s \in [1 .. Len(s) -> S]
  BY LenProperties
<1>2. \A n \in 1 .. Len(s) : s[n] \in ToSet(s)
  BY <1>1 DEF ToSet
<1>3. s \in [1 .. Len(s) -> ToSet(s)]
  BY <1>1, <1>2
<1> QED
  BY <1>1, <1>3 DEF IsSequence

LEMMA Appending ==
    ASSUME NEW s, IsSequence(s), NEW e
    PROVE  /\ IsSequence(Append(s, e))
           /\ Len(Append(s, e)) = Len(s) + 1
           /\ DOMAIN Append(s, e) = 1 .. Len(s) + 1
           /\ \A n \in 1 .. Len(s) : Append(s, e)[n] = s[n]
           /\ Append(s, e)[Len(s) + 1] = e
<1> DEFINE S == ToSet(s) \cup {e}
<1>1. s \in Seq(S)
  <2>1. s \in Seq(ToSet(s)) /\ ToSet(s) \subseteq S
    BY DEF IsSequence
  <2> QED
    BY <2>1
<1>2. e \in S
  OBVIOUS
<1> HIDE DEF S
<1>3. Append(s, e) \in Seq(S)
  BY <1>1, <1>2, AppendProperties
<1>4. IsSequence(Append(s, e))
  BY <1>3, SequenceOf
<1>5. /\ Len(Append(s, e)) = Len(s) + 1
      /\ \A n \in 1 .. Len(s) : Append(s, e)[n] = s[n]
      /\ Append(s, e)[Len(s) + 1] = e
  BY <1>1, <1>2, AppendProperties
<1>6. DOMAIN Append(s, e) = 1 .. Len(s) + 1
  BY <1>4, <1>5, SequenceDomain
<1> QED
  BY <1>4, <1>5, <1>6

-----------------------------------------------------------------------------
(* Numbers. *)

\* A set of numbers has a least one.
LEMMA Least ==
    ASSUME NEW T \in SUBSET Nat, T # {}
    PROVE  \E n \in T : \A m \in T : n <= m
<1> DEFINE LessThan == {pair \in Nat \X Nat : pair[1] < pair[2]}
<1>1. IsWellFoundedOn(LessThan, Nat)
  <2>1. LessThan = OpToRel(<, Nat)
    BY DEF OpToRel
  <2> QED
    BY <2>1, NatLessThanWellFounded, Zenon
<1>2. PICK n \in T : \A m \in T : <<m, n>> \notin LessThan
  BY <1>1, WFMin
<1>3. ASSUME NEW m \in T
      PROVE  n <= m
  <2>1. m \in Nat /\ n \in Nat
    OBVIOUS
  <2>2. ~ (m < n)
    BY <1>2, <2>1
  <2> QED
    BY <2>1, <2>2
<1> QED
  BY <1>3

\* A set of numbers within a bound has a greatest one.
LEMMA Greatest ==
    ASSUME NEW N \in Nat, NEW T \in SUBSET (0 .. N), T # {}
    PROVE  \E n \in T : \A m \in T : m <= n
<1> DEFINE U == {N - m : m \in T}
<1>1. U \in SUBSET Nat /\ U # {}
  <2>1. \A m \in T : m \in 0 .. N /\ N - m \in Nat
    OBVIOUS
  <2> QED
    BY <2>1
<1>2. PICK u \in U : \A v \in U : u <= v
  BY <1>1, Least
<1>3. PICK n \in T : u = N - n
  OBVIOUS
<1>4. ASSUME NEW m \in T
      PROVE  m <= n
  <2>1. N - n <= N - m
    BY <1>2, <1>3
  <2>2. m \in Nat /\ n \in Nat
    OBVIOUS
  <2> QED
    BY <2>1, <2>2
<1> QED
  BY <1>4

\* Induction.
LEMMA Reaches ==
    ASSUME NEW S, 0 \in S, \A n \in Nat : n \in S => n + 1 \in S
    PROVE  Nat \subseteq S
<1> DEFINE T == Nat \ S
<1>1. ASSUME T # {}
      PROVE  FALSE
  <2>1. PICK n \in T : \A m \in T : n <= m
    BY <1>1, Least
  <2>2. n \in Nat /\ n # 0 /\ n - 1 \in Nat /\ n - 1 \notin T
    BY <2>1
  <2> QED
    BY <2>2
<1> QED
  BY <1>1

-----------------------------------------------------------------------------
(***************************************************************************)
(* Recursive functions: what is defined at each point from points of lower *)
(* rank is defined.                                                        *)
(***************************************************************************)

\* A step gives a function from a function; what it gives at a point depends on
\* points of lower rank only, and ranks are bounded.
Descends(step, rank, bound, start, D, V) ==
    /\ bound \in Nat /\ rank \in [D -> Nat] /\ \A at \in D : rank[at] <= bound
    /\ step \in [[D -> V] -> [D -> V]] /\ start \in [D -> V]
    /\ \A f, g \in [D -> V] : \A at \in D :
           (\A b \in D : rank[b] < rank[at] => f[b] = g[b]) => step[f][at] = step[g][at]

Settles(step, D, V) == \E f \in [D -> V] : f = step[f]

\* What is defined at each point from points of lower rank is defined.
LEMMA FixedPoint ==
    ASSUME NEW D, NEW V, NEW rank, NEW N, NEW step, NEW start,
           Descends(step, rank, N, start, D, V)
    PROVE  Settles(step, D, V)
<1> USE DEF Descends
<1> DEFINE Good(f, m) == \A at \in D : rank[at] < m => f[at] = step[f][at]
           S == {m \in Nat : \E f \in [D -> V] : Good(f, m)}
<1>1. 0 \in S
  <2>1. Good(start, 0)
    OBVIOUS
  <2> QED
    BY <2>1
<1>2. ASSUME NEW m \in Nat, m \in S
      PROVE  m + 1 \in S
  <2>1. PICK f \in [D -> V] : Good(f, m)
    BY <1>2
  <2>2. step[f] \in [D -> V]
    OBVIOUS
  <2>3. ASSUME NEW at \in D, rank[at] < m + 1
        PROVE  step[f][at] = step[step[f]][at]
    <3>1. \A b \in D : rank[b] < rank[at] => f[b] = step[f][b]
      BY <2>1, <2>3
    <3> QED
      BY <2>2, <3>1 DEF Descends
  <2>4. Good(step[f], m + 1)
    BY <2>3
  <2> QED
    BY <2>2, <2>4
<1>3. N + 1 \in S
  <2> HIDE DEF S
  <2> QED
    BY <1>1, <1>2, Reaches
<1>4. PICK f \in [D -> V] : Good(f, N + 1)
  BY <1>3
<1>5. f = step[f]
  <2>1. \A at \in D : f[at] = step[f][at]
    BY <1>4
  <2>2. step[f] \in [D -> V]
    OBVIOUS
  <2> QED
    BY <2>1, <2>2
<1> QED
  BY <1>4, <1>5 DEF Settles

\* The positions of a walk over two sequences, and walks each position of which
\* depends on the next ones only.
Positions(left, right) == (1 .. Len(left) + 1) \X (1 .. Len(right) + 1)

Onward(step, left, right) ==
    LET D == Positions(left, right) IN
    /\ Len(left) \in Nat /\ Len(right) \in Nat
    /\ step \in [[D -> BOOLEAN] -> [D -> BOOLEAN]]
    /\ \A f, g \in [D -> BOOLEAN] : \A i \in 1 .. Len(left) + 1, j \in 1 .. Len(right) + 1 :
          /\ i <= Len(left) => f[<<i + 1, j>>] = g[<<i + 1, j>>]
          /\ j <= Len(right) => f[<<i, j + 1>>] = g[<<i, j + 1>>]
          /\ i <= Len(left) /\ j <= Len(right) => f[<<i + 1, j + 1>>] = g[<<i + 1, j + 1>>]
          => step[f][<<i, j>>] = step[g][<<i, j>>]

LEMMA WalkSettles ==
    ASSUME NEW step, NEW left, NEW right, Onward(step, left, right)
    PROVE  Settles(step, Positions(left, right), BOOLEAN)
<1> DEFINE D == Positions(left, right)
           N == Len(left) + Len(right) + 2
           rank == [at \in D |-> N - (at[1] + at[2])]
           start == [at \in D |-> FALSE]
<1>1. Len(left) \in Nat /\ Len(right) \in Nat
  BY DEF Onward
<1>2. N \in Nat /\ rank \in [D -> Nat] /\ \A at \in D : rank[at] <= N
  BY <1>1 DEF Positions
<1>3. start \in [D -> BOOLEAN]
  OBVIOUS
<1>4. ASSUME NEW f \in [D -> BOOLEAN], NEW g \in [D -> BOOLEAN], NEW at \in D,
             \A b \in D : rank[b] < rank[at] => f[b] = g[b]
      PROVE  step[f][at] = step[g][at]
  <2>1. PICK i \in 1 .. Len(left) + 1, j \in 1 .. Len(right) + 1 : at = <<i, j>>
    BY DEF Positions
  <2>2. ASSUME NEW x \in {i, i + 1}, NEW y \in {j, j + 1}, <<x, y>> # at,
               x <= Len(left) + 1, y <= Len(right) + 1
        PROVE  f[<<x, y>>] = g[<<x, y>>]
    <3>1. <<x, y>> \in D
      BY <1>1, <2>2 DEF Positions
    <3>2. rank[<<x, y>>] = N - (x + y) /\ rank[at] = N - (i + j)
      BY <2>1, <3>1
    <3>3. x + y > i + j /\ x + y \in Nat /\ i + j \in Nat
      BY <2>1, <2>2
    <3>4. rank[<<x, y>>] < rank[at]
      <4> HIDE DEF rank, N
      <4> QED
        BY <1>2, <3>2, <3>3
    <3> QED
      BY <1>4, <3>1, <3>4
  <2>3. /\ i <= Len(left) => f[<<i + 1, j>>] = g[<<i + 1, j>>]
        /\ j <= Len(right) => f[<<i, j + 1>>] = g[<<i, j + 1>>]
        /\ i <= Len(left) /\ j <= Len(right) => f[<<i + 1, j + 1>>] = g[<<i + 1, j + 1>>]
    BY <1>1, <2>1, <2>2
  <2> QED
    BY <2>1, <2>3 DEF Onward
<1> HIDE DEF rank, N, start
<1>5. Descends(step, rank, N, start, D, BOOLEAN)
  BY <1>2, <1>3, <1>4 DEF Descends, Onward
<1> QED
  BY <1>5, FixedPoint

WalkBody(left, right, meet, at) ==
    LET i == at[1]
        j == at[2]
        leftEnds == i > Len(left)
        rightEnds == j > Len(right)
    IN  \/ leftEnds /\ rightEnds
        \/ ~leftEnds /\ left[i] = Star /\ meet[<<i + 1, j>>]
        \/ ~rightEnds /\ right[j] = Star /\ meet[<<i, j + 1>>]
        \/ ~leftEnds /\ ~rightEnds /\ left[i] = Star /\ meet[<<i, j + 1>>]
        \/ ~leftEnds /\ ~rightEnds /\ right[j] = Star /\ meet[<<i + 1, j>>]
        \/ /\ ~leftEnds /\ ~rightEnds
           /\ Star \notin {left[i], right[j]}
           /\ left[i] = right[j]
           /\ meet[<<i + 1, j + 1>>]

LEMMA WalkIs ==
    ASSUME NEW left, NEW right
    PROVE  SegmentsIntersect(left, right)
           = (CHOOSE f : f = [at \in Positions(left, right) |->
                                WalkBody(left, right, f, at)])[<<1, 1>>]
BY DEF SegmentsIntersect, WalkBody, Positions

\* There is such a walk, and the code's answer is where it starts.
LEMMA WalkSolves ==
    ASSUME NEW left, NEW right, Len(left) \in Nat, Len(right) \in Nat
    PROVE  \E meet \in [Positions(left, right) -> BOOLEAN] :
              /\ \A at \in Positions(left, right) : meet[at] = WalkBody(left, right, meet, at)
              /\ SegmentsIntersect(left, right) = meet[<<1, 1>>]
<1> DEFINE D == Positions(left, right)
           body(f, at) == WalkBody(left, right, f, at)
           step == [f \in [D -> BOOLEAN] |-> [at \in D |-> body(f, at)]]
           meet == CHOOSE g : g = [at \in D |-> body(g, at)]
<1>1. \A f, at : body(f, at) \in BOOLEAN
  BY DEF WalkBody
<1>2. ASSUME NEW f \in [D -> BOOLEAN], NEW g \in [D -> BOOLEAN],
             NEW i \in 1 .. Len(left) + 1, NEW j \in 1 .. Len(right) + 1,
             i <= Len(left) => f[<<i + 1, j>>] = g[<<i + 1, j>>],
             j <= Len(right) => f[<<i, j + 1>>] = g[<<i, j + 1>>],
             i <= Len(left) /\ j <= Len(right) => f[<<i + 1, j + 1>>] = g[<<i + 1, j + 1>>]
      PROVE  body(f, <<i, j>>) = body(g, <<i, j>>)
  BY <1>2 DEF WalkBody
<1>3. SegmentsIntersect(left, right) = meet[<<1, 1>>]
  BY WalkIs
<1> HIDE DEF body
<1>4. Onward(step, left, right)
  <2>1. step \in [[D -> BOOLEAN] -> [D -> BOOLEAN]]
    BY <1>1
  <2>2. \A i \in 1 .. Len(left) + 1, j \in 1 .. Len(right) + 1 : <<i, j>> \in D
    BY DEF Positions
  <2> HIDE DEF D
  <2>3. \A f \in [D -> BOOLEAN] : \A at \in D : step[f][at] = body(f, at)
    OBVIOUS
  <2> HIDE DEF step
  <2>4. ASSUME NEW f \in [D -> BOOLEAN], NEW g \in [D -> BOOLEAN],
               NEW i \in 1 .. Len(left) + 1, NEW j \in 1 .. Len(right) + 1,
               i <= Len(left) => f[<<i + 1, j>>] = g[<<i + 1, j>>],
               j <= Len(right) => f[<<i, j + 1>>] = g[<<i, j + 1>>],
               i <= Len(left) /\ j <= Len(right) => f[<<i + 1, j + 1>>] = g[<<i + 1, j + 1>>]
        PROVE  step[f][<<i, j>>] = step[g][<<i, j>>]
    <3>1. body(f, <<i, j>>) = body(g, <<i, j>>)
      BY <1>2, <2>4
    <3> QED
      BY <2>2, <2>3, <3>1
  <2>5. \A f, g \in [D -> BOOLEAN] : \A i \in 1 .. Len(left) + 1, j \in 1 .. Len(right) + 1 :
          /\ i <= Len(left) => f[<<i + 1, j>>] = g[<<i + 1, j>>]
          /\ j <= Len(right) => f[<<i, j + 1>>] = g[<<i, j + 1>>]
          /\ i <= Len(left) /\ j <= Len(right) => f[<<i + 1, j + 1>>] = g[<<i + 1, j + 1>>]
          => step[f][<<i, j>>] = step[g][<<i, j>>]
    BY <2>4
  <2> QED
    BY <2>1, <2>5, Zenon DEF Onward, D
<1>5. PICK f \in [D -> BOOLEAN] : f = step[f]
  BY <1>4, WalkSettles DEF Settles
<1> HIDE DEF D
<1>6. f = [at \in D |-> body(f, at)]
  BY <1>5
<1>7. meet = [at \in D |-> body(meet, at)]
  BY <1>6
<1> HIDE DEF meet
<1>8. meet \in [D -> BOOLEAN] /\ \A at \in D : meet[at] = body(meet, at)
  BY <1>1, <1>7
<1> QED
  BY <1>3, <1>8 DEF D, body

-----------------------------------------------------------------------------
(***************************************************************************)
(* Segments: what the matcher finds a segment means, and segments that mean *)
(* one name are found to meet.                                             *)
(***************************************************************************)

\* A string has positions.
IsWord(s) == Len(s) \in Nat /\ DOMAIN s = 1 .. Len(s)

\* What MeansSegment asks of the places where a pattern's characters end.
Laid(end, pattern, name) ==
    /\ end \in [0 .. Len(pattern) -> 0 .. Len(name)]
    /\ end[0] = 0 /\ end[Len(pattern)] = Len(name)
    /\ \A i \in 1 .. Len(pattern) :
          IF pattern[i] = Star THEN end[i - 1] <= end[i]
          ELSE end[i] = end[i - 1] + 1 /\ name[end[i]] = pattern[i]

\* Having read so much of a name a pattern can stand before its i-th character.
Stands(end, pattern, i, k) ==
    /\ i \in 1 .. Len(pattern) + 1 /\ k \in Nat
    /\ \/ k = end[i - 1]
       \/ i <= Len(pattern) /\ pattern[i] = Star /\ end[i - 1] <= k /\ k <= end[i]

\* How a pattern goes on from where it stands.
LEMMA GoesOn ==
    ASSUME NEW pattern, NEW name, NEW end, NEW i, NEW k,
           IsWord(pattern), IsWord(name), Laid(end, pattern, name), Stands(end, pattern, i, k)
    PROVE  /\ k \in 0 .. Len(name)
           /\ i > Len(pattern) => k = Len(name)
           /\ i <= Len(pattern) /\ pattern[i] = Star =>
                 Stands(end, pattern, i + 1, k) \/ (k < Len(name) /\ Stands(end, pattern, i, k + 1))
           /\ i <= Len(pattern) /\ pattern[i] # Star =>
                 k < Len(name) /\ name[k + 1] = pattern[i] /\ Stands(end, pattern, i + 1, k + 1)
<1>1. /\ Len(pattern) \in Nat /\ Len(name) \in Nat /\ i \in 1 .. Len(pattern) + 1
      /\ end[i - 1] \in 0 .. Len(name)
      /\ i <= Len(pattern) => end[i] \in 0 .. Len(name) /\ (i + 1) - 1 = i
  <2>1. /\ Len(pattern) \in Nat /\ Len(name) \in Nat /\ i \in 1 .. Len(pattern) + 1
        /\ end \in [0 .. Len(pattern) -> 0 .. Len(name)]
    BY DEF IsWord, Laid, Stands
  <2>2. i - 1 \in 0 .. Len(pattern)
        /\ (i <= Len(pattern) => i \in 0 .. Len(pattern) /\ (i + 1) - 1 = i)
    BY <2>1
  <2> QED
    BY <2>1, <2>2
<1>2. CASE i > Len(pattern)
  <2>1. i - 1 = Len(pattern)
    BY <1>1, <1>2
  <2> QED
    BY <1>1, <1>2, <2>1 DEF Stands, Laid
<1>3. CASE i <= Len(pattern) /\ pattern[i] = Star
  <2>1. end[i - 1] <= end[i] /\ k \in 0 .. Len(name) /\ end[i - 1] <= k /\ k <= end[i]
    <3>1. i \in 1 .. Len(pattern)
      BY <1>1, <1>3
    <3>2. end[i - 1] <= end[i]
      BY <1>3, <3>1 DEF Laid
    <3>3. k = end[i - 1] \/ (k \in Nat /\ end[i - 1] <= k /\ k <= end[i])
      BY DEF Stands
    <3> QED
      BY <1>1, <1>3, <3>2, <3>3
  <2>2. k = end[i] => Stands(end, pattern, i + 1, k)
    BY <1>1, <1>3 DEF Stands
  <2>3. k < end[i] => k < Len(name) /\ Stands(end, pattern, i, k + 1)
    BY <1>1, <1>3, <2>1 DEF Stands
  <2> QED
    BY <1>1, <1>3, <2>1, <2>2, <2>3
<1>4. CASE i <= Len(pattern) /\ pattern[i] # Star
  <2>1. k = end[i - 1] /\ end[i] = k + 1 /\ name[k + 1] = pattern[i]
    BY <1>1, <1>4 DEF Stands, Laid
  <2>2. Stands(end, pattern, i + 1, k + 1)
    BY <1>1, <1>4, <2>1 DEF Stands
  <2> QED
    BY <1>1, <1>4, <2>1, <2>2
<1> QED
  BY <1>1, <1>2, <1>3, <1>4

\* "A product walk over the two is exact" (segments_intersect), where it must be:
\* segments that mean one name are found to meet.
LEMMA MeaningsMeet ==
    ASSUME NEW left, NEW right, NEW name, IsWord(left), IsWord(right), IsWord(name),
           MeansSegment(left, name), MeansSegment(right, name)
    PROVE  SegmentsIntersect(left, right)
<1>1. PICK x : Laid(x, left, name)
  BY DEF MeansSegment, Laid, IsWord
<1>2. PICK y : Laid(y, right, name)
  BY DEF MeansSegment, Laid, IsWord
<1>3. Len(left) \in Nat /\ Len(right) \in Nat /\ Len(name) \in Nat
  BY DEF IsWord
<1>4. PICK meet : /\ \A at \in Positions(left, right) : meet[at] = WalkBody(left, right, meet, at)
                  /\ SegmentsIntersect(left, right) = meet[<<1, 1>>]
  BY <1>3, WalkSolves
<1> DEFINE Together(i, j, k) == Stands(x, left, i, k) /\ Stands(y, right, j, k)
           togo(i, j, k) == ((Len(left) + 1 - i) + (Len(right) + 1 - j)) + (Len(name) - k)
           Bad == {m \in Nat : \E i, j, k : Together(i, j, k) /\ m = togo(i, j, k)
                                            /\ ~meet[<<i, j>>]}
<1>5. ASSUME Bad # {}
      PROVE  FALSE
  <2>1. PICK m \in Bad : \A other \in Bad : m <= other
    BY <1>5, Least
  <2>2. PICK i, j, k : Together(i, j, k) /\ m = togo(i, j, k) /\ ~meet[<<i, j>>]
    BY <2>1
  <2>3. /\ i \in 1 .. Len(left) + 1 /\ j \in 1 .. Len(right) + 1
        /\ k \in 0 .. Len(name)
    BY <1>1, <1>2, <2>2, GoesOn DEF Stands
  <2>4. ASSUME NEW p \in {i, i + 1}, NEW q \in {j, j + 1}, NEW r \in {k, k + 1},
               <<p, q, r>> # <<i, j, k>>, Together(p, q, r)
        PROVE  meet[<<p, q>>]
    <3>1. /\ p \in 1 .. Len(left) + 1 /\ q \in 1 .. Len(right) + 1
          /\ r \in 0 .. Len(name)
      BY <1>1, <1>2, <2>4, GoesOn DEF Stands
    <3>2. togo(p, q, r) \in Nat /\ togo(p, q, r) < m
      <4>1. (p + q) + r > (i + j) + k
        BY <2>3, <2>4
      <4> DEFINE N == ((Len(left) + 1) + (Len(right) + 1)) + Len(name)
      <4>2. togo(p, q, r) = N - ((p + q) + r) /\ togo(i, j, k) = N - ((i + j) + k)
        BY <1>3, <2>3, <3>1
      <4>3. togo(p, q, r) \in Nat
        BY <1>3, <3>1
      <4>4. /\ N \in Nat
            /\ p \in Nat /\ q \in Nat /\ r \in Nat /\ i \in Nat /\ j \in Nat /\ k \in Nat
        <5>1. N \in Nat
          BY <1>3
        <5>2. p \in Nat /\ q \in Nat /\ r \in Nat
          BY <3>1
        <5>3. i \in Nat /\ j \in Nat /\ k \in Nat
          BY <2>3
        <5> QED
          BY <5>1, <5>2, <5>3
      <4> HIDE DEF togo, N
      <4> QED
        BY <2>2, <4>1, <4>2, <4>3, <4>4
    <3>3. togo(p, q, r) \notin Bad
      <4> HIDE DEF Bad, togo
      <4>1. m \in Nat
        BY DEF Bad
      <4> QED
        BY <2>1, <3>2, <4>1
    <3> QED
      BY <2>4, <3>2, <3>3
  <2> HIDE DEF togo, Bad
  <2>5. /\ i > Len(left) => k = Len(name)
        /\ i <= Len(left) /\ left[i] = Star =>
              Stands(x, left, i + 1, k) \/ (k < Len(name) /\ Stands(x, left, i, k + 1))
        /\ i <= Len(left) /\ left[i] # Star =>
              k < Len(name) /\ name[k + 1] = left[i] /\ Stands(x, left, i + 1, k + 1)
    BY <1>1, <2>2, GoesOn
  <2>6. /\ j > Len(right) => k = Len(name)
        /\ j <= Len(right) /\ right[j] = Star =>
              Stands(y, right, j + 1, k) \/ (k < Len(name) /\ Stands(y, right, j, k + 1))
        /\ j <= Len(right) /\ right[j] # Star =>
              k < Len(name) /\ name[k + 1] = right[j] /\ Stands(y, right, j + 1, k + 1)
    BY <1>2, <2>2, GoesOn
  <2>7. ~WalkBody(left, right, meet, <<i, j>>)
    BY <1>4, <2>2, <2>3 DEF Positions
  <2>8. CASE i > Len(left) /\ j > Len(right)
    BY <2>7, <2>8 DEF WalkBody
  <2>9. CASE i <= Len(left) /\ left[i] = Star
    <3>1. Stands(x, left, i + 1, k) => meet[<<i + 1, j>>]
      BY <2>2, <2>3, <2>4
    <3>2. ASSUME k < Len(name), Stands(x, left, i, k + 1)
          PROVE  j <= Len(right) /\ (meet[<<i, j + 1>>] \/ meet[<<i, j>>])
      <4>1. j <= Len(right)
        BY <1>3, <2>3, <2>6, <3>2
      <4>2. Stands(y, right, j + 1, k) => meet[<<i, j + 1>>]
        BY <2>2, <2>3, <2>4
      <4>3. Stands(y, right, j, k + 1) => meet[<<i, j>>]
        BY <2>3, <2>4, <3>2
      <4>4. Stands(y, right, j + 1, k + 1) => meet[<<i, j + 1>>]
        BY <2>3, <2>4, <3>2
      <4> QED
        BY <2>6, <4>1, <4>2, <4>3, <4>4
    <3> QED
      BY <2>2, <2>5, <2>7, <2>9, <3>1, <3>2, <1>3, <2>3 DEF WalkBody
  <2>10. CASE j <= Len(right) /\ right[j] = Star /\ ~(i <= Len(left) /\ left[i] = Star)
    <3>1. Stands(y, right, j + 1, k) => meet[<<i, j + 1>>]
      BY <2>2, <2>3, <2>4
    <3>2. ASSUME k < Len(name), Stands(y, right, j, k + 1)
          PROVE  i <= Len(left) /\ meet[<<i + 1, j>>]
      <4>1. i <= Len(left)
        BY <1>3, <2>3, <2>5, <3>2
      <4>2. Stands(x, left, i + 1, k + 1)
        BY <2>5, <2>10, <4>1
      <4> QED
        BY <2>3, <2>4, <3>2, <4>1, <4>2
    <3> QED
      BY <2>6, <2>7, <2>10, <3>1, <3>2, <1>3, <2>3 DEF WalkBody
  <2>11. CASE i <= Len(left) /\ left[i] # Star /\ j <= Len(right) /\ right[j] # Star
    <3>1. meet[<<i + 1, j + 1>>]
      BY <2>3, <2>4, <2>5, <2>6, <2>11
    <3>2. left[i] = right[j]
      BY <2>5, <2>6, <2>11
    <3> QED
      BY <2>3, <2>7, <2>11, <3>1, <3>2, <1>3 DEF WalkBody
  <2>12. CASE i > Len(left) /\ j <= Len(right) /\ right[j] # Star
    BY <1>3, <2>5, <2>6, <2>12
  <2>13. CASE j > Len(right) /\ i <= Len(left) /\ left[i] # Star
    BY <1>3, <2>5, <2>6, <2>13
  <2> QED
    BY <1>3, <2>3, <2>8, <2>9, <2>10, <2>11, <2>12, <2>13
<1>6. Together(1, 1, 0)
  BY <1>1, <1>2, <1>3 DEF Laid, Stands
<1>7. togo(1, 1, 0) \in Nat
  BY <1>3
<1>8. meet[<<1, 1>>]
  <2> HIDE DEF togo
  <2> QED
    BY <1>5, <1>6, <1>7
<1> QED
  BY <1>4, <1>8

\* The bounds around a place in a pattern.
LEMMA BoundsAround ==
    ASSUME NEW pattern, IsWord(pattern)
    PROVE  /\ Bounds(pattern) \subseteq 0 .. Len(pattern) + 1
           /\ 0 \in Bounds(pattern) /\ Len(pattern) + 1 \in Bounds(pattern)
           /\ \A bound \in Bounds(pattern) \ {0} :
                 /\ BoundBefore(pattern, bound) \in Bounds(pattern)
                 /\ BoundBefore(pattern, bound) < bound
                 /\ \A other \in Bounds(pattern) :
                       other < bound => other <= BoundBefore(pattern, bound)
           /\ \A i \in 0 .. Len(pattern) : \E next \in Bounds(pattern) :
                 next > i /\ \A other \in Bounds(pattern) : other > i => next <= other
<1>1. /\ Bounds(pattern) \subseteq 0 .. Len(pattern) + 1
      /\ 0 \in Bounds(pattern) /\ Len(pattern) + 1 \in Bounds(pattern)
      /\ Len(pattern) \in Nat
  BY DEF Bounds, IsWord
<1> DEFINE B == Bounds(pattern)
<1> HIDE DEF B
<1>2. ASSUME NEW bound \in B \ {0}
      PROVE  /\ BoundBefore(pattern, bound) \in B
             /\ BoundBefore(pattern, bound) < bound
             /\ \A other \in B : other < bound => other <= BoundBefore(pattern, bound)
  <2> DEFINE T == {k \in B : k < bound}
  <2>1. T \in SUBSET (0 .. Len(pattern) + 1) /\ 0 \in T
    BY <1>1 DEF B
  <2>2. Len(pattern) + 1 \in Nat
    BY <1>1
  <2> HIDE DEF T
  <2>3. PICK k \in T : \A m \in T : m <= k
    BY <2>1, <2>2, Greatest
  <2> QED
    BY <2>3 DEF BoundBefore, B, T
<1>3. ASSUME NEW i \in 0 .. Len(pattern)
      PROVE  \E next \in B : next > i /\ \A other \in B : other > i => next <= other
  <2> DEFINE T == {k \in B : k > i}
  <2>1. T \in SUBSET Nat /\ Len(pattern) + 1 \in T
    BY <1>1 DEF B
  <2>2. PICK k \in T : \A m \in T : k <= m
    BY <2>1, Least
  <2> QED
    BY <2>2
<1> QED
  BY <1>1, <1>2, <1>3 DEF B

CursorBody(pattern, name, cursor, bound) ==
    IF bound = 0 THEN 0
    ELSE LET before == BoundBefore(pattern, bound)
             run == RunBefore(pattern, bound)
             found == {k \in cursor[before] .. Len(name) :
                          OccursAt(run, name, k) /\ (before = 0 => k = 0)}
         IN  IF run = <<>> THEN cursor[before]
             ELSE IF found = {} THEN Len(name) + 1
             ELSE Len(run) + CHOOSE k \in found : \A other \in found : k <= other

LEMMA CursorIs ==
    ASSUME NEW pattern, NEW name
    PROVE  LET cursor == CHOOSE f : f = [bound \in Bounds(pattern) |->
                                            CursorBody(pattern, name, f, bound)]
           IN  SegmentMatches(pattern, name)
               <=> \/ pattern = <<Star>>
                   \/ Star \notin ToSet(pattern) /\ pattern = name
                   \/ /\ Star \in ToSet(pattern)
                      /\ cursor[Len(pattern) + 1] # Len(name) + 1
                      /\ Last(pattern) = Star \/ cursor[Len(pattern) + 1] = Len(name)
BY DEF SegmentMatches, CursorBody

\* Runs are sequences of characters.
LEMMA RunOf ==
    ASSUME NEW pattern \in Seq(Characters), NEW bound \in Bounds(pattern) \ {0}
    PROVE  /\ RunBefore(pattern, bound) \in Seq(Characters)
           /\ Len(RunBefore(pattern, bound)) = (bound - 1) - BoundBefore(pattern, bound)
           /\ \A x \in 1 .. Len(RunBefore(pattern, bound)) :
                 RunBefore(pattern, bound)[x] = pattern[BoundBefore(pattern, bound) + x]
<1> DEFINE p == BoundBefore(pattern, bound)
<1>1. IsWord(pattern)
  BY LenProperties DEF IsWord
<1>2. p \in 0 .. Len(pattern) + 1 /\ p < bound /\ bound \in 1 .. Len(pattern) + 1
      /\ Len(pattern) \in Nat
  BY <1>1, BoundsAround DEF IsWord
<1> HIDE DEF p
<1>3. RunBefore(pattern, bound) = SubSeq(pattern, p + 1, bound - 1)
  BY DEF RunBefore, p
<1>4. p + 1 \in 1 .. Len(pattern) + 1 /\ bound - 1 \in p .. Len(pattern)
  BY <1>2
<1>5. \A n \in (p + 1) .. (bound - 1) : pattern[n] \in Characters
  BY <1>2, ElementOfSeq
<1> QED
  BY <1>2, <1>3, <1>4, <1>5, SubSeqProperties DEF p

\* There is such a search, and it decides what the code's matcher says.
LEMMA CursorSolves ==
    ASSUME NEW pattern \in Seq(Characters), NEW name \in Seq(Characters)
    PROVE  \E cursor \in [Bounds(pattern) -> Nat] :
              /\ \A bound \in Bounds(pattern) :
                    cursor[bound] = CursorBody(pattern, name, cursor, bound)
              /\ SegmentMatches(pattern, name)
                 <=> \/ pattern = <<Star>>
                     \/ Star \notin ToSet(pattern) /\ pattern = name
                     \/ /\ Star \in ToSet(pattern)
                        /\ cursor[Len(pattern) + 1] # Len(name) + 1
                        /\ Last(pattern) = Star \/ cursor[Len(pattern) + 1] = Len(name)
<1> DEFINE B == Bounds(pattern)
           body(f, bound) == CursorBody(pattern, name, f, bound)
           step == [f \in [B -> Nat] |-> [bound \in B |-> body(f, bound)]]
           rank == [bound \in B |-> bound]
           start == [bound \in B |-> 0]
           cursor == CHOOSE f : f = [bound \in B |-> body(f, bound)]
<1>1. IsWord(pattern) /\ IsWord(name)
  BY LenProperties DEF IsWord
<1>2. /\ Len(pattern) \in Nat /\ Len(name) \in Nat
      /\ B \subseteq 0 .. Len(pattern) + 1
      /\ \A bound \in B \ {0} : BoundBefore(pattern, bound) \in B
                                /\ BoundBefore(pattern, bound) < bound
  BY <1>1, BoundsAround DEF IsWord
<1>3. ASSUME NEW f \in [B -> Nat], NEW bound \in B
      PROVE  body(f, bound) \in Nat
  <2>1. CASE bound = 0
    BY <2>1 DEF CursorBody
  <2>2. CASE bound # 0
    <3> DEFINE before == BoundBefore(pattern, bound)
               run == RunBefore(pattern, bound)
               found == {k \in f[before] .. Len(name) :
                            OccursAt(run, name, k) /\ (before = 0 => k = 0)}
    <3>1. f[before] \in Nat /\ Len(run) \in Nat
      BY <1>2, <2>2, RunOf, LenProperties
    <3>2. body(f, bound) = IF run = <<>> THEN f[before]
                           ELSE IF found = {} THEN Len(name) + 1
                           ELSE Len(run) + CHOOSE k \in found : \A other \in found : k <= other
      BY <2>2 DEF CursorBody
    <3>3. found \in SUBSET Nat
      BY <1>2, <3>1
    <3> HIDE DEF found, before, run, body
    <3>4. found # {} => (CHOOSE k \in found : \A other \in found : k <= other) \in Nat
      BY <3>3, Least
    <3> QED
      BY <1>2, <3>1, <3>2, <3>4
  <2> QED
    BY <2>1, <2>2
<1>4. ASSUME NEW f, NEW g, NEW bound \in B,
             bound # 0 => f[BoundBefore(pattern, bound)] = g[BoundBefore(pattern, bound)]
      PROVE  body(f, bound) = body(g, bound)
  <2> DEFINE before == BoundBefore(pattern, bound)
             run == RunBefore(pattern, bound)
             found(from) == {k \in from .. Len(name) :
                                OccursAt(run, name, k) /\ (before = 0 => k = 0)}
             reached(from) ==
                IF run = <<>> THEN from
                ELSE IF found(from) = {} THEN Len(name) + 1
                ELSE Len(run) + CHOOSE k \in found(from) : \A other \in found(from) : k <= other
  <2>1. /\ body(f, bound) = IF bound = 0 THEN 0 ELSE reached(f[before])
        /\ body(g, bound) = IF bound = 0 THEN 0 ELSE reached(g[before])
    BY DEF CursorBody
  <2> HIDE DEF reached, body
  <2> QED
    BY <1>4, <2>1
<1>5. SegmentMatches(pattern, name)
      <=> \/ pattern = <<Star>>
          \/ Star \notin ToSet(pattern) /\ pattern = name
          \/ /\ Star \in ToSet(pattern)
             /\ cursor[Len(pattern) + 1] # Len(name) + 1
             /\ Last(pattern) = Star \/ cursor[Len(pattern) + 1] = Len(name)
  BY CursorIs
<1> HIDE DEF body, B
<1>6. Descends(step, rank, Len(pattern) + 1, start, B, Nat)
  <2>1. Len(pattern) + 1 \in Nat /\ rank \in [B -> Nat] /\ start \in [B -> Nat]
    BY <1>2
  <2>2. \A bound \in B : rank[bound] = bound /\ rank[bound] <= Len(pattern) + 1
    BY <1>2
  <2>3. step \in [[B -> Nat] -> [B -> Nat]]
    BY <1>3
  <2>4. ASSUME NEW f \in [B -> Nat], NEW g \in [B -> Nat], NEW bound \in B,
               \A b \in B : rank[b] < rank[bound] => f[b] = g[b]
        PROVE  step[f][bound] = step[g][bound]
    <3>1. bound # 0 => f[BoundBefore(pattern, bound)] = g[BoundBefore(pattern, bound)]
      BY <1>2, <2>2, <2>4
    <3> QED
      BY <1>4, <3>1
  <2> HIDE DEF rank, start, step
  <2> QED
    BY <2>1, <2>2, <2>3, <2>4 DEF Descends
<1>7. PICK f \in [B -> Nat] : f = step[f]
  <2> HIDE DEF rank, start, step
  <2> QED
    BY <1>6, FixedPoint DEF Settles
<1>8. f = [bound \in B |-> body(f, bound)]
  BY <1>7
<1>9. cursor = [bound \in B |-> body(cursor, bound)]
  BY <1>8
<1> HIDE DEF cursor
<1>10. cursor \in [B -> Nat]
  <2> DEFINE Wrong == {bound \in B : cursor[bound] \notin Nat}
  <2>1. ASSUME Wrong # {}
        PROVE  FALSE
    <3>1. Wrong \in SUBSET Nat /\ B \subseteq Nat
      <4>1. B \subseteq Nat
        BY <1>2
      <4> QED
        BY <4>1
    <3>2. PICK bound \in Wrong : \A other \in Wrong : bound <= other
      BY <2>1, <3>1, Least
    <3> DEFINE right == [b \in B |-> IF cursor[b] \in Nat THEN cursor[b] ELSE 0]
    <3>3. right \in [B -> Nat]
      OBVIOUS
    <3>4. bound # 0 => right[BoundBefore(pattern, bound)] = cursor[BoundBefore(pattern, bound)]
      <4>1. bound # 0 => BoundBefore(pattern, bound) \in B \ Wrong
        <5> SUFFICES ASSUME bound # 0, BoundBefore(pattern, bound) \in Wrong
                     PROVE  FALSE
          BY <1>2
        <5>1. BoundBefore(pattern, bound) < bound /\ bound <= BoundBefore(pattern, bound)
          BY <1>2, <3>2
        <5> QED
          BY <3>1, <5>1
      <4> QED
        BY <4>1
    <3>5. cursor[bound] = body(right, bound)
      BY <1>4, <1>9, <3>4
    <3> QED
      BY <1>3, <3>3, <3>5
  <2> QED
    BY <1>9, <2>1
<1> QED
  BY <1>5, <1>9, <1>10 DEF B, body

Searches(cursor, pattern, name) ==
    /\ cursor \in [Bounds(pattern) -> Nat]
    /\ \A bound \in Bounds(pattern) : cursor[bound] = CursorBody(pattern, name, cursor, bound)

\* The run that ends at a bound is in the name, and ends where the search stands.
Found(cursor, pattern, name, bound) ==
    LET before == BoundBefore(pattern, bound)
        begins == cursor[bound] - ((bound - 1) - before)
    IN  /\ cursor[before] <= begins /\ cursor[bound] <= Len(name)
        /\ before = 0 => begins = 0
        /\ \A x \in 1 .. (bound - 1) - before : name[begins + x] = pattern[before + x]

LEMMA SearchFinds ==
    ASSUME NEW pattern \in Seq(Characters), NEW name \in Seq(Characters), NEW cursor,
           Searches(cursor, pattern, name), NEW bound \in Bounds(pattern) \ {0},
           cursor[bound] <= Len(name)
    PROVE  Found(cursor, pattern, name, bound)
<1> DEFINE before == BoundBefore(pattern, bound)
           run == RunBefore(pattern, bound)
           found == {k \in cursor[before] .. Len(name) :
                        OccursAt(run, name, k) /\ (before = 0 => k = 0)}
           r == (bound - 1) - before
<1>1. /\ IsWord(pattern) /\ IsWord(name)
      /\ Len(pattern) \in Nat /\ Len(name) \in Nat
  BY LenProperties DEF IsWord
<1>2. /\ before \in Bounds(pattern) /\ before < bound
      /\ before \in Nat /\ bound \in Nat
      /\ before \in 0 .. Len(pattern) + 1 /\ bound \in 0 .. Len(pattern) + 1
  BY <1>1, BoundsAround
<1>3. /\ run \in Seq(Characters) /\ Len(run) = r /\ r \in Nat
      /\ \A x \in 1 .. r : run[x] = pattern[before + x]
  BY <1>2, RunOf
<1>4. cursor[bound] = IF run = <<>> THEN cursor[before]
                      ELSE IF found = {} THEN Len(name) + 1
                      ELSE Len(run) + CHOOSE k \in found : \A other \in found : k <= other
  BY <1>2 DEF Searches, CursorBody
<1>5. cursor[before] \in Nat /\ cursor[bound] \in Nat /\ cursor[0] = 0
  BY <1>1, <1>2, BoundsAround DEF Searches, CursorBody
<1>6. CASE run = <<>>
  <2>1. r = 0
    BY <1>3, <1>6
  <2>2. before = 0 => cursor[before] = 0
    BY <1>5
  <2> HIDE DEF before, r, run
  <2>3. cursor[bound] - r = cursor[before]
    BY <1>4, <1>5, <1>6, <2>1
  <2> QED
    BY <1>5, <2>1, <2>2, <2>3 DEF Found, before, r
<1>7. CASE run # <<>>
  <2>1. found # {}
    BY <1>1, <1>4, <1>7
  <2>2. found \in SUBSET Nat
    BY <1>1, <1>5
  <2> DEFINE k == CHOOSE k \in found : \A other \in found : k <= other
  <2>3. k \in found
    <3> HIDE DEF found
    <3> QED
      BY <2>1, <2>2, Least
  <2>4. cursor[bound] = r + k
    BY <1>3, <1>4, <1>7, <2>1
  <2> HIDE DEF k
  <2>5. k \in cursor[before] .. Len(name) /\ OccursAt(run, name, k) /\ (before = 0 => k = 0)
    BY <2>3
  <2> HIDE DEF found
  <2>6. k \in Nat /\ k + r <= Len(name) /\ SubSeq(name, k + 1, k + r) = run
    BY <1>1, <1>3, <1>5, <2>5 DEF OccursAt
  <2>7. \A x \in 1 .. r : name[k + x] = run[x]
    <3> TAKE x \in 1 .. r
    <3>1. k + 1 \in Int /\ k + r \in Int /\ x \in 1 .. ((k + r) - (k + 1)) + 1
      BY <1>3, <2>6
    <3>2. \A n \in k + 1 .. k + r : name[n] \in Characters
      BY <1>1, <1>3, <2>6, ElementOfSeq
    <3>3. SubSeq(name, k + 1, k + r)[x] = name[((k + 1) + x) - 1]
      BY <3>1, <3>2, SubSeqProperties
    <3>4. ((k + 1) + x) - 1 = k + x
      BY <1>3, <2>6
    <3> QED
      BY <2>6, <3>3, <3>4
  <2>8. cursor[bound] - r = k
    BY <1>3, <2>4, <2>6
  <2> HIDE DEF r, before, run
  <2>9. cursor[before] <= k
    BY <1>1, <1>5, <2>5
  <2> QED
    BY <1>3, <2>5, <2>7, <2>8, <2>9 DEF Found, r, before
<1> QED
  BY <1>6, <1>7

\* The search stands in the name or just past it.
LEMMA SearchEnds ==
    ASSUME NEW pattern \in Seq(Characters), NEW name \in Seq(Characters), NEW cursor,
           Searches(cursor, pattern, name)
    PROVE  \A bound \in Bounds(pattern) : cursor[bound] <= Len(name) + 1
<1> DEFINE B == Bounds(pattern)
           Past == {bound \in B : ~(cursor[bound] <= Len(name) + 1)}
<1>1. /\ IsWord(pattern) /\ IsWord(name)
      /\ Len(pattern) \in Nat /\ Len(name) \in Nat
  BY LenProperties DEF IsWord
<1>2. ASSUME Past # {}
      PROVE  FALSE
  <2>1. Past \in SUBSET Nat
    <3>1. B \subseteq Nat
      BY <1>1, BoundsAround
    <3> QED
      BY <3>1
  <2>2. PICK b \in Past : \A other \in Past : b <= other
    BY <1>2, <2>1, Least
  <2>3. b # 0
    BY <1>1 DEF Searches, CursorBody
  <2> DEFINE before == BoundBefore(pattern, b)
             run == RunBefore(pattern, b)
             found == {k \in cursor[before] .. Len(name) :
                          OccursAt(run, name, k) /\ (before = 0 => k = 0)}
  <2>4. before \in B /\ before < b /\ before \in Nat /\ b \in Nat /\ cursor[before] \in Nat
    BY <1>1, <2>3, BoundsAround DEF Searches
  <2>5. before \notin Past
    <3> HIDE DEF before, Past
    <3> QED
      BY <2>2, <2>4
  <2>6. cursor[b] = IF run = <<>> THEN cursor[before]
                    ELSE IF found = {} THEN Len(name) + 1
                    ELSE Len(run) + CHOOSE k \in found : \A other \in found : k <= other
    BY <2>3 DEF Searches, CursorBody
  <2>7. run \in Seq(Characters) /\ Len(run) \in Nat
    BY <2>3, RunOf, LenProperties
  <2>8. CASE run = <<>>
    BY <2>2, <2>4, <2>5, <2>6, <2>8
  <2>9. CASE run # <<>> /\ found = {}
    BY <1>1, <2>2, <2>6, <2>9
  <2>10. CASE run # <<>> /\ found # {}
    <3> DEFINE k == CHOOSE k \in found : \A other \in found : k <= other
    <3>1. found \in SUBSET Nat
      BY <1>1, <2>4
    <3>2. k \in found
      <4> HIDE DEF found
      <4> QED
        BY <2>10, <3>1, Least
    <3>3. cursor[b] = Len(run) + k
      BY <2>6, <2>10
    <3> HIDE DEF k
    <3>4. k \in Nat /\ k + Len(run) <= Len(name)
      BY <3>1, <3>2 DEF OccursAt
    <3>5. cursor[b] <= Len(name) + 1
      <4> HIDE DEF run
      <4> QED
        BY <1>1, <2>7, <3>3, <3>4
    <3> QED
      BY <2>2, <3>5
  <2> QED
    BY <2>8, <2>9, <2>10
<1> QED
  BY <1>2

\* When the whole pattern was found, so was every run of it.
LEMMA AllFound ==
    ASSUME NEW pattern \in Seq(Characters), NEW name \in Seq(Characters), NEW cursor,
           Searches(cursor, pattern, name), cursor[Len(pattern) + 1] # Len(name) + 1
    PROVE  \A bound \in Bounds(pattern) \ {0} : Found(cursor, pattern, name, bound)
<1> DEFINE B == Bounds(pattern)
           Lost == {bound \in B : ~(cursor[bound] <= Len(name))}
<1>1. /\ IsWord(pattern) /\ IsWord(name)
      /\ Len(pattern) \in Nat /\ Len(name) \in Nat
  BY LenProperties DEF IsWord
<1>2. \A bound \in B \ {0} : bound \notin Lost =>
         Found(cursor, pattern, name, bound) /\ BoundBefore(pattern, bound) \notin Lost
  <2> SUFFICES ASSUME NEW bound \in B \ {0}, bound \notin Lost
               PROVE  Found(cursor, pattern, name, bound)
                      /\ BoundBefore(pattern, bound) \notin Lost
    OBVIOUS
  <2>1. Found(cursor, pattern, name, bound)
    BY SearchFinds
  <2> DEFINE before == BoundBefore(pattern, bound)
             r == (bound - 1) - before
  <2>2. cursor[before] <= cursor[bound] - r /\ cursor[bound] <= Len(name)
    BY <2>1 DEF Found
  <2>3. before \in B /\ cursor[before] \in Nat /\ cursor[bound] \in Nat /\ r \in Nat
    <3>1. before \in B /\ before < bound
      BY <1>1, BoundsAround
    <3>2. before \in Nat /\ bound \in Nat
      BY <1>1, <3>1, BoundsAround
    <3>3. cursor[before] \in Nat /\ cursor[bound] \in Nat
      BY <3>1 DEF Searches
    <3> HIDE DEF before, B
    <3> QED
      BY <3>1, <3>2, <3>3
  <2>4. cursor[before] <= Len(name)
    <3> HIDE DEF before, r
    <3> QED
      BY <1>1, <2>2, <2>3
  <2> QED
    BY <2>1, <2>4
<1>3. ASSUME Lost # {}
      PROVE  FALSE
  <2>1. Lost \in SUBSET (0 .. Len(pattern) + 1) /\ Len(pattern) + 1 \in Nat
    BY <1>1, BoundsAround
  <2>2. PICK b \in Lost : \A other \in Lost : other <= b
    <3> HIDE DEF Lost
    <3> QED
      BY <1>3, <2>1, Greatest
  <2>3. b # Len(pattern) + 1
    <3>1. cursor[Len(pattern) + 1] \in Nat /\ cursor[Len(pattern) + 1] <= Len(name) + 1
      BY <1>1, BoundsAround, SearchEnds DEF Searches
    <3>2. cursor[Len(pattern) + 1] <= Len(name)
      BY <1>1, <3>1
    <3> QED
      BY <3>2
  <2>4. b \in 0 .. Len(pattern) /\ b \in B
    BY <1>1, <2>1, <2>3
  <2>5. PICK next \in B : next > b /\ \A other \in B : other > b => next <= other
    BY <1>1, <2>4, BoundsAround
  <2>6. next \in Nat /\ b \in Nat /\ next \notin Lost /\ next # 0
    <3>1. next \in Nat /\ b \in Nat
      BY <1>1, <2>4, BoundsAround
    <3> HIDE DEF Lost
    <3> QED
      BY <2>2, <2>5, <3>1
  <2>7. BoundBefore(pattern, next) = b
    <3> DEFINE before == BoundBefore(pattern, next)
    <3>1. before \in B /\ before < next /\ b <= before /\ before \in Nat
      BY <1>1, <2>4, <2>5, <2>6, BoundsAround
    <3>2. ~(before > b)
      <4> HIDE DEF before
      <4> QED
        BY <2>5, <2>6, <3>1
    <3> HIDE DEF before
    <3> QED
      BY <2>6, <3>1, <3>2 DEF before
  <2> QED
    BY <1>2, <2>6, <2>7
<1> QED
  BY <1>2, <1>3

NextBound(pattern, i) ==
    CHOOSE next \in Bounds(pattern) :
        next > i /\ \A other \in Bounds(pattern) : other > i => next <= other

\* Between a bound and the next there is none.
LEMMA NextAround ==
    ASSUME NEW pattern, IsWord(pattern), NEW i \in 0 .. Len(pattern)
    PROVE  /\ NextBound(pattern, i) \in Bounds(pattern) \ {0}
           /\ NextBound(pattern, i) \in Nat
           /\ i < NextBound(pattern, i) /\ NextBound(pattern, i) <= Len(pattern) + 1
           /\ \A other \in Bounds(pattern) : other > i => NextBound(pattern, i) <= other
           /\ BoundBefore(pattern, NextBound(pattern, i)) \in Nat
           /\ BoundBefore(pattern, NextBound(pattern, i)) <= i
           /\ i \in Bounds(pattern) => BoundBefore(pattern, NextBound(pattern, i)) = i
<1> DEFINE B == Bounds(pattern)
           next == NextBound(pattern, i)
           before == BoundBefore(pattern, next)
<1>1. Len(pattern) \in Nat /\ B \subseteq 0 .. Len(pattern) + 1 /\ i \in Nat
  BY BoundsAround DEF IsWord
<1>2. next \in B /\ next > i /\ \A other \in B : other > i => next <= other
  BY BoundsAround DEF NextBound
<1>3. next \in Nat /\ next <= Len(pattern) + 1 /\ next # 0
  BY <1>1, <1>2
<1>4. before \in B /\ before < next /\ \A other \in B : other < next => other <= before
  BY <1>2, <1>3, BoundsAround
<1>5. before \in Nat
  BY <1>1, <1>4
<1> HIDE DEF before, next, B
<1>6. before <= i
  <2> SUFFICES ASSUME before > i
               PROVE  FALSE
    BY <1>1, <1>5
  <2> QED
    BY <1>2, <1>3, <1>4, <1>5
<1>7. i \in B => before = i
  BY <1>1, <1>2, <1>3, <1>4, <1>5, <1>6
<1> QED
  BY <1>2, <1>3, <1>5, <1>6, <1>7 DEF before, next, B

\* A segment that the matcher finds in a name means it.
LEMMA SegmentMeant ==
    ASSUME NEW pattern \in Seq(Characters), NEW name \in Seq(Characters),
           SegmentMatches(pattern, name)
    PROVE  MeansSegment(pattern, name)
<1>1. IsWord(pattern) /\ IsWord(name) /\ Len(pattern) \in Nat /\ Len(name) \in Nat
  BY LenProperties DEF IsWord
<1>2. SUFFICES \E end : Laid(end, pattern, name)
  BY <1>1 DEF MeansSegment, Laid, IsWord
<1>3. CASE pattern = <<Star>>
  <2> DEFINE end == [i \in 0 .. 1 |-> IF i = 0 THEN 0 ELSE Len(name)]
  <2>1. Len(pattern) = 1
    BY <1>3
  <2>2. Laid(end, pattern, name)
    <3>1. end \in [0 .. 1 -> 0 .. Len(name)]
      BY <1>1
    <3>2. \A i \in 1 .. 1 : pattern[i] = Star /\ end[i - 1] <= end[i]
      BY <1>1, <1>3
    <3> QED
      BY <2>1, <3>1, <3>2 DEF Laid
  <2> QED
    BY <2>2
<1>4. CASE Star \notin ToSet(pattern) /\ pattern = name
  <2> DEFINE end == [i \in 0 .. Len(pattern) |-> i]
  <2>1. \A i \in 1 .. Len(pattern) : pattern[i] # Star
    BY <1>1, <1>4 DEF ToSet, IsWord
  <2>2. Laid(end, pattern, name)
    BY <1>1, <1>4, <2>1 DEF Laid
  <2> QED
    BY <2>2
<1>5. CASE Star \in ToSet(pattern) /\ pattern # <<Star>>
  <2> DEFINE N == Len(pattern)
             B == Bounds(pattern)
  <2>1. PICK cursor : /\ Searches(cursor, pattern, name)
                      /\ cursor[N + 1] # Len(name) + 1
                      /\ Last(pattern) = Star \/ cursor[N + 1] = Len(name)
    BY <1>5, CursorSolves DEF Searches
  <2>2. N \in Nat /\ N # 0
    BY <1>1, <1>5 DEF ToSet, IsWord
  <2> DEFINE next(i) == NextBound(pattern, i)
             before(i) == BoundBefore(pattern, next(i))
             E(i) == cursor[next(i)] - ((next(i) - 1) - i)
             end == [i \in 0 .. N |-> IF i = N THEN Len(name) ELSE E(i)]
  <2>3. ASSUME NEW i \in 0 .. N
        PROVE  /\ next(i) \in Nat /\ next(i) \in B /\ before(i) \in Nat
               /\ i < next(i) /\ next(i) <= N + 1
               /\ before(i) <= i /\ (i \in B => before(i) = i)
               /\ \A other \in B : other > i => next(i) <= other
               /\ cursor[next(i)] \in Nat /\ cursor[before(i)] \in Nat
               /\ cursor[next(i)] <= Len(name)
               /\ cursor[before(i)] <= cursor[next(i)] - ((next(i) - 1) - before(i))
               /\ before(i) = 0 => cursor[next(i)] - ((next(i) - 1) - before(i)) = 0
               /\ \A x \in 1 .. (next(i) - 1) - before(i) :
                     name[(cursor[next(i)] - ((next(i) - 1) - before(i))) + x]
                     = pattern[before(i) + x]
    <3>1. /\ next(i) \in Nat /\ next(i) \in B \ {0} /\ before(i) \in Nat
          /\ i < next(i) /\ next(i) <= N + 1
          /\ before(i) <= i /\ (i \in B => before(i) = i)
          /\ \A other \in B : other > i => next(i) <= other
      BY <1>1, NextAround
    <3>2. Found(cursor, pattern, name, next(i))
      BY <2>1, <3>1, AllFound
    <3>3. before(i) \in B
      BY <1>1, <3>1, BoundsAround
    <3>4. cursor[next(i)] \in Nat /\ cursor[before(i)] \in Nat
      BY <2>1, <3>1, <3>3 DEF Searches
    <3> QED
      BY <3>1, <3>2, <3>4 DEF Found
  <2> HIDE DEF next, before, N, B
  <2>11. ASSUME NEW i \in 0 .. N
         PROVE  /\ next(i) \in Nat /\ next(i) \in B
                /\ i < next(i) /\ next(i) <= N + 1 /\ (i \in B => before(i) = i)
                /\ \A other \in B : other > i => next(i) <= other
    BY <2>3
  <2>12. ASSUME NEW i \in 0 .. N
         PROVE  /\ next(i) \in Nat /\ before(i) \in Nat
                /\ cursor[next(i)] \in Nat /\ cursor[before(i)] \in Nat
                /\ i < next(i) /\ before(i) <= i /\ cursor[next(i)] <= Len(name)
                /\ cursor[before(i)] <= cursor[next(i)] - ((next(i) - 1) - before(i))
                /\ before(i) = 0 => cursor[next(i)] - ((next(i) - 1) - before(i)) = 0
    BY <2>3
  <2>4. ASSUME NEW i \in 0 .. N
        PROVE  /\ E(i) \in 0 .. Len(name)
               /\ before(i) = i => cursor[before(i)] <= E(i)
               /\ before(i) = 0 => E(i) = i
    <3> DEFINE c == cursor[next(i)]
               d == cursor[before(i)]
               n == next(i)
               b == before(i)
    <3>0. i \in Nat
      BY <2>2
    <3>1. /\ n \in Nat /\ b \in Nat /\ c \in Nat /\ d \in Nat
          /\ i < n /\ b <= i /\ c <= Len(name) /\ d <= c - ((n - 1) - b)
          /\ b = 0 => c - ((n - 1) - b) = 0
      BY <2>12, Zenon
    <3>2. E(i) = c - ((n - 1) - i) /\ cursor[before(i)] = d /\ before(i) = b
      OBVIOUS
    <3> HIDE DEF c, d, n, b, E
    <3>3. Len(name) \in Nat
      BY <1>1
    <3>4. /\ c - ((n - 1) - i) \in 0 .. Len(name)
          /\ b = i => d <= c - ((n - 1) - i)
          /\ b = 0 => c - ((n - 1) - i) = i
      BY <3>0, <3>1, <3>3
    <3> QED
      BY <3>2, <3>4
  <2>5. end \in [0 .. N -> 0 .. Len(name)]
    BY <1>1, <2>4
  <2>6. 0 \in B /\ \A i \in 1 .. N : i \in B <=> pattern[i] = Star
    BY <1>1, <2>2 DEF B, N, Bounds, IsWord
  <2>7. end[0] = 0 /\ end[N] = Len(name)
    BY <2>2, <2>3, <2>4, <2>6
  <2>8. ASSUME NEW i \in 1 .. N, pattern[i] = Star
        PROVE  end[i - 1] <= end[i]
    <3>0. i - 1 \in 0 .. N /\ i \in 0 .. N /\ i - 1 # N /\ i \in B /\ i \in Nat
      BY <2>2, <2>6, <2>8
    <3>1. next(i - 1) = i
      <4>1. next(i - 1) \in Nat /\ i - 1 < next(i - 1) /\ next(i - 1) <= i
        BY <2>11, <3>0
      <4> QED
        BY <3>0, <4>1
    <3>2. end[i - 1] = cursor[i]
      <4>1. end[i - 1] = E(i - 1)
        BY <3>0
      <4>2. cursor[next(i - 1)] \in Nat
        BY <2>3, <3>0
      <4>3. E(i - 1) = cursor[i] - ((i - 1) - (i - 1))
        BY <3>1
      <4> QED
        BY <3>0, <3>1, <4>1, <4>2, <4>3
    <3>3. before(i) = i
      BY <2>11, <3>0
    <3>4. i # N => end[i] = E(i)
      BY <2>2
    <3>5. CASE i = N
      BY <1>1, <2>2, <2>5, <3>5
    <3>6. CASE i # N
      <4> HIDE DEF E, end
      <4> QED
        BY <2>2, <2>4, <3>2, <3>3, <3>4, <3>6
    <3> QED
      BY <3>5, <3>6
  <2>9. ASSUME NEW i \in 1 .. N, pattern[i] # Star
        PROVE  end[i] = end[i - 1] + 1 /\ name[end[i]] = pattern[i]
    <3>1. i \notin B /\ i - 1 \in 0 .. N /\ i \in 0 .. N /\ i - 1 # N
      BY <2>2, <2>6, <2>9
    <3>2. next(i - 1) = next(i)
      <4>1. next(i - 1) > i
        BY <2>2, <2>3, <3>1
      <4>2. next(i - 1) <= next(i)
        BY <2>2, <2>3, <3>1
      <4>3. next(i) <= next(i - 1)
        BY <2>2, <2>3, <3>1, <4>1
      <4> QED
        BY <2>3, <3>1, <4>2, <4>3
    <3>3. end[i] = E(i)
      <4>1. CASE i # N
        BY <3>1, <4>1
      <4>2. CASE i = N
        <5>1. Last(pattern) = pattern[i]
          BY <4>2 DEF Last, N
        <5>2. cursor[N + 1] = Len(name)
          BY <2>1, <2>9, <5>1 DEF N
        <5>3. next(N) = N + 1
          <6>1. next(N) \in Nat /\ N < next(N) /\ next(N) <= N + 1
            BY <2>2, <2>11
          <6> QED
            BY <2>2, <6>1
        <5> QED
          BY <2>2, <1>1, <4>2, <5>2, <5>3
      <4> QED
        BY <4>1, <4>2
    <3>4. end[i - 1] = E(i - 1)
      BY <2>2, <3>1
    <3>5. E(i) = E(i - 1) + 1
      <4>1. next(i) \in Nat /\ cursor[next(i)] \in Nat
        BY <2>3, <3>1
      <4> QED
        BY <3>2, <4>1
    <3>6. name[E(i)] = pattern[i]
      <4> DEFINE x == i - before(i)
      <4>1. before(i) = before(i - 1)
        BY <3>2 DEF before
      <4>2. /\ next(i) \in Nat /\ cursor[next(i)] \in Nat /\ before(i) \in Nat
            /\ i < next(i) /\ before(i) <= i - 1
        BY <2>3, <3>1, <4>1
      <4>3. x \in 1 .. (next(i) - 1) - before(i)
        BY <4>2
      <4>4. name[(cursor[next(i)] - ((next(i) - 1) - before(i))) + x]
            = pattern[before(i) + x]
        BY <2>3, <3>1, <4>3
      <4>5. /\ (cursor[next(i)] - ((next(i) - 1) - before(i))) + x = E(i)
            /\ before(i) + x = i
        BY <4>2
      <4> QED
        BY <4>4, <4>5
    <3> HIDE DEF E, end
    <3> QED
      BY <3>3, <3>4, <3>5, <3>6
  <2> HIDE DEF end
  <2>10. Laid(end, pattern, name)
    BY <2>5, <2>7, <2>8, <2>9 DEF Laid, N
  <2> QED
    BY <2>10
<1> QED
  BY <1>3, <1>4, <1>5, CursorSolves

-----------------------------------------------------------------------------
(***************************************************************************)
(* Paths: what matches one path is found to intersect, what an exclusion is *)
(* proved to contain it matches, and what matches is meant.                *)
(***************************************************************************)

MatchBody(pattern, other, isPattern, match, at) ==
    LET i == at[1]
        j == at[2]
        ends == i > Len(pattern)
        otherEnds == j > Len(other)
        wide == ~ends /\ pattern[i] = DoubleStar
        otherWide == isPattern /\ ~otherEnds /\ other[j] = DoubleStar
    IN  \/ ends /\ otherEnds
        \/ wide /\ (match[<<i + 1, j>>] \/ (~otherEnds /\ match[<<i, j + 1>>]))
        \/ ~wide /\ otherWide /\ (match[<<i, j + 1>>] \/ (~ends /\ match[<<i + 1, j>>]))
        \/ /\ ~ends /\ ~otherEnds /\ ~wide /\ ~otherWide
           /\ IF isPattern THEN SegmentsIntersect(pattern[i], other[j])
                           ELSE SegmentMatches(pattern[i], other[j])
           /\ match[<<i + 1, j + 1>>]

LEMMA MatchIs ==
    ASSUME NEW pattern, NEW other, NEW isPattern
    PROVE  MatchSegments(pattern, other, isPattern)
           = (CHOOSE f : f = [at \in Positions(pattern, other) |->
                                MatchBody(pattern, other, isPattern, f, at)])[<<1, 1>>]
BY DEF MatchSegments, MatchBody, Positions

\* A walk over the segments: what it says of each pair of places.
Walks(match, pattern, other, isPattern) ==
    /\ match \in [Positions(pattern, other) -> BOOLEAN]
    /\ \A at \in Positions(pattern, other) :
          match[at] = MatchBody(pattern, other, isPattern, match, at)

\* There is such a walk, and the code's answer is where it starts.
LEMMA MatchSolves ==
    ASSUME NEW pattern, NEW other, NEW isPattern, Len(pattern) \in Nat, Len(other) \in Nat
    PROVE  \E match : /\ Walks(match, pattern, other, isPattern)
                      /\ MatchSegments(pattern, other, isPattern) = match[<<1, 1>>]
<1> DEFINE D == Positions(pattern, other)
           body(f, at) == MatchBody(pattern, other, isPattern, f, at)
           step == [f \in [D -> BOOLEAN] |-> [at \in D |-> body(f, at)]]
           match == CHOOSE g : g = [at \in D |-> body(g, at)]
<1>1. \A f, at : body(f, at) \in BOOLEAN
  BY DEF MatchBody
<1>2. ASSUME NEW f \in [D -> BOOLEAN], NEW g \in [D -> BOOLEAN],
             NEW i \in 1 .. Len(pattern) + 1, NEW j \in 1 .. Len(other) + 1,
             i <= Len(pattern) => f[<<i + 1, j>>] = g[<<i + 1, j>>],
             j <= Len(other) => f[<<i, j + 1>>] = g[<<i, j + 1>>],
             i <= Len(pattern) /\ j <= Len(other) => f[<<i + 1, j + 1>>] = g[<<i + 1, j + 1>>]
      PROVE  body(f, <<i, j>>) = body(g, <<i, j>>)
  BY <1>2 DEF MatchBody
<1>3. MatchSegments(pattern, other, isPattern) = match[<<1, 1>>]
  BY MatchIs
<1> HIDE DEF body
<1>4. Onward(step, pattern, other)
  <2>1. step \in [[D -> BOOLEAN] -> [D -> BOOLEAN]]
    BY <1>1
  <2>2. \A i \in 1 .. Len(pattern) + 1, j \in 1 .. Len(other) + 1 : <<i, j>> \in D
    BY DEF Positions
  <2> HIDE DEF D
  <2>3. \A f \in [D -> BOOLEAN] : \A at \in D : step[f][at] = body(f, at)
    OBVIOUS
  <2> HIDE DEF step
  <2>4. ASSUME NEW f \in [D -> BOOLEAN], NEW g \in [D -> BOOLEAN],
               NEW i \in 1 .. Len(pattern) + 1, NEW j \in 1 .. Len(other) + 1,
               i <= Len(pattern) => f[<<i + 1, j>>] = g[<<i + 1, j>>],
               j <= Len(other) => f[<<i, j + 1>>] = g[<<i, j + 1>>],
               i <= Len(pattern) /\ j <= Len(other) => f[<<i + 1, j + 1>>] = g[<<i + 1, j + 1>>]
        PROVE  step[f][<<i, j>>] = step[g][<<i, j>>]
    <3>1. body(f, <<i, j>>) = body(g, <<i, j>>)
      BY <1>2, <2>4
    <3> QED
      BY <2>2, <2>3, <3>1
  <2>5. \A f, g \in [D -> BOOLEAN] : \A i \in 1 .. Len(pattern) + 1, j \in 1 .. Len(other) + 1 :
          /\ i <= Len(pattern) => f[<<i + 1, j>>] = g[<<i + 1, j>>]
          /\ j <= Len(other) => f[<<i, j + 1>>] = g[<<i, j + 1>>]
          /\ i <= Len(pattern) /\ j <= Len(other) => f[<<i + 1, j + 1>>] = g[<<i + 1, j + 1>>]
          => step[f][<<i, j>>] = step[g][<<i, j>>]
    BY <2>4
  <2> QED
    BY <2>1, <2>5, Zenon DEF Onward, D
<1>5. PICK f \in [D -> BOOLEAN] : f = step[f]
  BY <1>4, WalkSettles DEF Settles
<1> HIDE DEF D
<1>6. f = [at \in D |-> body(f, at)]
  BY <1>5
<1>7. match = [at \in D |-> body(match, at)]
  BY <1>6
<1> HIDE DEF match
<1>8. match \in [D -> BOOLEAN] /\ \A at \in D : match[at] = body(match, at)
  BY <1>1, <1>7
<1> QED
  BY <1>3, <1>8 DEF D, body, Walks

\* Two patterns that match one path are found to meet: match_segments, told to
\* meet a pattern, sees every contention it would find when told to match a path
\* (policy/paths.rs, patterns_intersect).
THEOREM MatchesMeet ==
    ASSUME NEW left \in Paths, NEW right \in Paths, NEW path \in Paths,
           Matches(left, path), Matches(right, path)
    PROVE  PatternsIntersect(left, right)
<1>1. /\ Len(left) \in Nat /\ Len(right) \in Nat /\ Len(path) \in Nat
      /\ \A i \in 1 .. Len(left) : left[i] \in Seq(Characters)
      /\ \A i \in 1 .. Len(right) : right[i] \in Seq(Characters)
      /\ \A i \in 1 .. Len(path) : path[i] \in Seq(Characters)
  BY LenProperties, ElementOfSeq DEF Paths
<1>2. PICK x : Walks(x, left, path, FALSE) /\ Matches(left, path) = x[<<1, 1>>]
  BY <1>1, MatchSolves DEF Matches
<1>3. PICK y : Walks(y, right, path, FALSE) /\ Matches(right, path) = y[<<1, 1>>]
  BY <1>1, MatchSolves DEF Matches
<1>4. PICK meet : Walks(meet, left, right, TRUE)
                  /\ PatternsIntersect(left, right) = meet[<<1, 1>>]
  BY <1>1, MatchSolves DEF PatternsIntersect
<1> DEFINE Within(i, j, k) == /\ i \in 1 .. Len(left) + 1
                              /\ j \in 1 .. Len(right) + 1
                              /\ k \in 1 .. Len(path) + 1
           Together(i, j, k) == Within(i, j, k) /\ x[<<i, k>>] /\ y[<<j, k>>]
           N == ((Len(left) + 1) + (Len(right) + 1)) + (Len(path) + 1)
           togo(i, j, k) == N - ((i + j) + k)
           Bad == {m \in Nat : \E i, j, k : Together(i, j, k) /\ m = togo(i, j, k)
                                            /\ ~meet[<<i, j>>]}
<1>5. ASSUME Bad # {}
      PROVE  FALSE
  <2>1. PICK m \in Bad : \A other \in Bad : m <= other
    BY <1>5, Least
  <2>2. PICK i, j, k : Together(i, j, k) /\ m = togo(i, j, k) /\ ~meet[<<i, j>>]
    BY <2>1
  <2>3. i \in Nat /\ j \in Nat /\ k \in Nat /\ N \in Nat /\ m \in Nat
    BY <1>1, <2>2
  <2>4. ASSUME NEW p \in {i, i + 1}, NEW q \in {j, j + 1}, NEW r \in {k, k + 1},
               <<p, q, r>> # <<i, j, k>>, Together(p, q, r)
        PROVE  meet[<<p, q>>]
    <3>1. p \in Nat /\ q \in Nat /\ r \in Nat /\ (p + q) + r > (i + j) + k
      BY <2>3, <2>4
    <3>2. togo(p, q, r) \in Nat
      BY <1>1, <2>4
    <3>3. togo(p, q, r) < m
      <4> HIDE DEF N
      <4> QED
        BY <2>2, <2>3, <3>1
    <3>4. togo(p, q, r) \notin Bad
      <4> HIDE DEF Bad, togo
      <4> QED
        BY <2>1, <2>3, <3>2, <3>3
    <3> QED
      BY <2>4, <3>2, <3>4
  <2>5. /\ x[<<i, k>>] = MatchBody(left, path, FALSE, x, <<i, k>>)
        /\ y[<<j, k>>] = MatchBody(right, path, FALSE, y, <<j, k>>)
        /\ meet[<<i, j>>] = MatchBody(left, right, TRUE, meet, <<i, j>>)
    BY <1>2, <1>3, <1>4, <2>2 DEF Walks, Positions
  <2> DEFINE pEnds == i > Len(left)
             qEnds == j > Len(right)
             ends == k > Len(path)
             pWide == ~pEnds /\ left[i] = DoubleStar
             qWide == ~qEnds /\ right[j] = DoubleStar
  <2>6. \/ pEnds /\ ends
        \/ pWide /\ (x[<<i + 1, k>>] \/ (~ends /\ x[<<i, k + 1>>]))
        \/ /\ ~pEnds /\ ~ends /\ ~pWide
           /\ SegmentMatches(left[i], path[k]) /\ x[<<i + 1, k + 1>>]
    BY <2>2, <2>5 DEF MatchBody
  <2>7. \/ qEnds /\ ends
        \/ qWide /\ (y[<<j + 1, k>>] \/ (~ends /\ y[<<j, k + 1>>]))
        \/ /\ ~qEnds /\ ~ends /\ ~qWide
           /\ SegmentMatches(right[j], path[k]) /\ y[<<j + 1, k + 1>>]
    BY <2>2, <2>5 DEF MatchBody
  <2>8. /\ ~(pEnds /\ qEnds)
        /\ pWide => ~meet[<<i + 1, j>>] /\ (qEnds \/ ~meet[<<i, j + 1>>])
        /\ ~pWide /\ qWide => ~meet[<<i, j + 1>>] /\ (pEnds \/ ~meet[<<i + 1, j>>])
        /\ ~pEnds /\ ~qEnds /\ ~pWide /\ ~qWide =>
              ~(SegmentsIntersect(left[i], right[j]) /\ meet[<<i + 1, j + 1>>])
    BY <2>2, <2>5 DEF MatchBody
  <2>9. /\ ~pEnds => i + 1 \in 1 .. Len(left) + 1
        /\ ~qEnds => j + 1 \in 1 .. Len(right) + 1
        /\ ~ends => k + 1 \in 1 .. Len(path) + 1
        /\ i \in 1 .. Len(left) + 1 /\ j \in 1 .. Len(right) + 1 /\ k \in 1 .. Len(path) + 1
    <3>1. Within(i, j, k)
      BY <2>2
    <3>2. ~pEnds => i + 1 \in 1 .. Len(left) + 1
      BY <1>1, <3>1
    <3>3. ~qEnds => j + 1 \in 1 .. Len(right) + 1
      BY <1>1, <3>1
    <3>4. ~ends => k + 1 \in 1 .. Len(path) + 1
      BY <1>1, <3>1
    <3>5. i \in 1 .. Len(left) + 1 /\ j \in 1 .. Len(right) + 1 /\ k \in 1 .. Len(path) + 1
      BY <3>1
    <3> HIDE DEF pEnds, qEnds, ends
    <3> QED
      BY <3>2, <3>3, <3>4, <3>5
  <2>10. /\ ~pEnds => i \in 1 .. Len(left)
         /\ ~qEnds => j \in 1 .. Len(right)
         /\ ~ends => k \in 1 .. Len(path)
    BY <1>1, <2>2
  <2>11. i + 1 # i /\ j + 1 # j /\ k + 1 # k
    BY <2>3
  <2>12. /\ ~pEnds /\ x[<<i + 1, k>>] /\ y[<<j, k>>] => meet[<<i + 1, j>>]
         /\ ~qEnds /\ x[<<i, k>>] /\ y[<<j + 1, k>>] => meet[<<i, j + 1>>]
         /\ ~ends /\ x[<<i, k + 1>>] /\ y[<<j, k + 1>>] => meet[<<i, j>>]
         /\ ~qEnds /\ ~ends /\ x[<<i, k + 1>>] /\ y[<<j + 1, k + 1>>] => meet[<<i, j + 1>>]
         /\ ~pEnds /\ ~ends /\ x[<<i + 1, k + 1>>] /\ y[<<j, k + 1>>] => meet[<<i + 1, j>>]
         /\ ~pEnds /\ ~qEnds /\ ~ends /\ x[<<i + 1, k + 1>>] /\ y[<<j + 1, k + 1>>]
               => meet[<<i + 1, j + 1>>]
    <3> HIDE DEF pEnds, qEnds, ends
    <3> QED
      BY <2>4, <2>9, <2>11
  <2>13. ASSUME ~pEnds, ~qEnds, ~ends,
                SegmentMatches(left[i], path[k]), SegmentMatches(right[j], path[k])
         PROVE  SegmentsIntersect(left[i], right[j])
    <3>1. /\ left[i] \in Seq(Characters) /\ right[j] \in Seq(Characters)
          /\ path[k] \in Seq(Characters)
      BY <1>1, <2>10, <2>13
    <3>2. IsWord(left[i]) /\ IsWord(right[j]) /\ IsWord(path[k])
      BY <3>1, LenProperties DEF IsWord
    <3>3. MeansSegment(left[i], path[k]) /\ MeansSegment(right[j], path[k])
      BY <2>13, <3>1, SegmentMeant
    <3> QED
      BY <3>2, <3>3, MeaningsMeet
  <2>14. x[<<i, k>>] /\ y[<<j, k>>] /\ ~meet[<<i, j>>]
    BY <2>2
  <2>15. pWide => ~pEnds
    OBVIOUS
  <2>16. qWide => ~qEnds
    OBVIOUS
  <2> HIDE DEF pEnds, qEnds, ends, pWide, qWide
  <2> QED
    BY <2>6, <2>7, <2>8, <2>12, <2>13, <2>14, <2>15, <2>16
<1>6. Together(1, 1, 1) /\ togo(1, 1, 1) \in Nat
  <2>1. Within(1, 1, 1) /\ togo(1, 1, 1) \in Nat
    BY <1>1
  <2>2. x[<<1, 1>>] /\ y[<<1, 1>>]
    BY <1>2, <1>3
  <2> QED
    BY <2>1, <2>2
<1>7. meet[<<1, 1>>]
  <2> HIDE DEF Together, togo
  <2> QED
    BY <1>5, <1>6
<1> QED
  BY <1>4, <1>7

\* One step of a walk over a path.
LEMMA WalkStep ==
    ASSUME NEW match, NEW pattern \in Paths, NEW path \in Paths,
           Walks(match, pattern, path, FALSE),
           NEW i \in 1 .. Len(pattern) + 1, NEW k \in 1 .. Len(path) + 1
    PROVE  match[<<i, k>>]
           <=> \/ i > Len(pattern) /\ k > Len(path)
               \/ /\ i <= Len(pattern) /\ pattern[i] = DoubleStar
                  /\ match[<<i + 1, k>>] \/ (k <= Len(path) /\ match[<<i, k + 1>>])
               \/ /\ i <= Len(pattern) /\ k <= Len(path) /\ pattern[i] # DoubleStar
                  /\ SegmentMatches(pattern[i], path[k])
                  /\ match[<<i + 1, k + 1>>]
<1>1. Len(pattern) \in Nat /\ Len(path) \in Nat
  BY LenProperties DEF Paths
<1>2. match[<<i, k>>] = MatchBody(pattern, path, FALSE, match, <<i, k>>)
  BY DEF Walks, Positions
<1>3. ~(i > Len(pattern)) <=> i <= Len(pattern)
  BY <1>1
<1>4. ~(k > Len(path)) <=> k <= Len(path)
  BY <1>1
<1> QED
  BY <1>2, <1>3, <1>4 DEF MatchBody

\* A segment without a star is matched by itself alone.
LEMMA LiteralSegment ==
    ASSUME NEW segment, NEW name, Star \notin ToSet(segment), IsWord(segment)
    PROVE  /\ segment # DoubleStar
           /\ SegmentMatches(segment, name) <=> segment = name
<1>1. segment # DoubleStar /\ segment # <<Star>>
  <2>1. Star \in ToSet(<<Star>>) /\ Star \in ToSet(<<Star, Star>>)
    BY DEF ToSet
  <2> QED
    BY <2>1 DEF DoubleStar
<1> QED
  BY <1>1, CursorIs

\* The first n segments of a pattern have no star.
Literal(pattern, n) ==
    n \in 0 .. Len(pattern) /\ \A m \in 1 .. n : Star \notin ToSet(pattern[m])

\* The part of a pattern without a star is matched by itself alone.
LEMMA LiteralWalk ==
    ASSUME NEW match, NEW pattern \in Paths, NEW path \in Paths,
           Walks(match, pattern, path, FALSE), match[<<1, 1>>],
           NEW n, Literal(pattern, n)
    PROVE  /\ \A m \in 1 .. n : m <= Len(path) /\ path[m] = pattern[m]
           /\ n + 1 <= Len(path) + 1 /\ match[<<n + 1, n + 1>>]
<1> USE DEF Literal
<1>1. Len(pattern) \in Nat /\ Len(path) \in Nat /\ n \in Nat /\ n <= Len(pattern)
  BY LenProperties DEF Paths
<1> DEFINE Here(m) == m <= Len(path) + 1 /\ match[<<m, m>>]
           Off == {m \in Nat : 1 <= m /\ m <= n + 1 /\ ~Here(m)}
<1>2. ASSUME NEW m \in 1 .. n, Here(m)
      PROVE  m <= Len(path) /\ path[m] = pattern[m] /\ Here(m + 1)
  <2>1. /\ m \in 1 .. Len(pattern) + 1 /\ m \in 1 .. Len(path) + 1 /\ m <= Len(pattern)
        /\ m \in 1 .. Len(pattern)
    BY <1>1, <1>2
  <2>2. IsWord(pattern[m])
    <3>1. pattern[m] \in Seq(Characters)
      BY <2>1, ElementOfSeq DEF Paths
    <3> QED
      BY <3>1, LenProperties DEF IsWord
  <2>3. /\ pattern[m] # DoubleStar
        /\ SegmentMatches(pattern[m], path[m]) <=> pattern[m] = path[m]
    BY <2>2, LiteralSegment
  <2>4. m <= Len(path) /\ SegmentMatches(pattern[m], path[m]) /\ match[<<m + 1, m + 1>>]
    <3>1. ~(m > Len(pattern))
      BY <1>1, <2>1
    <3> QED
      BY <1>2, <2>1, <2>3, <3>1, WalkStep
  <2>5. m + 1 <= Len(path) + 1
    BY <1>1, <2>1, <2>4
  <2> QED
    BY <2>3, <2>4, <2>5
<1>3. ASSUME Off # {}
      PROVE  FALSE
  <2>1. PICK m \in Off : \A other \in Off : m <= other
    BY <1>3, Least
  <2>2. m # 1
    BY <1>1
  <2>3. m - 1 \in 1 .. n /\ m - 1 \in Nat /\ (m - 1) + 1 = m /\ ~(m <= m - 1)
    BY <1>1, <2>2
  <2>4. Here(m - 1)
    <3>1. m - 1 \notin Off
      <4> HIDE DEF Off
      <4> QED
        BY <2>1, <2>3
    <3>2. 1 <= m - 1 /\ m - 1 <= n + 1
      BY <1>1, <2>3
    <3> HIDE DEF Here
    <3> QED
      BY <2>3, <3>1, <3>2
  <2>5. Here(m)
    <3> HIDE DEF Here
    <3> QED
      BY <1>2, <2>3, <2>4
  <2> QED
    BY <2>5
<1>4. ASSUME NEW m \in 1 .. n + 1
      PROVE  Here(m)
  <2>1. m \in Nat /\ 1 <= m /\ m <= n + 1
    BY <1>1
  <2> HIDE DEF Here
  <2> QED
    BY <1>3, <2>1
<1>5. n + 1 \in 1 .. n + 1 /\ \A m \in 1 .. n : m \in 1 .. n + 1
  BY <1>1
<1> QED
  BY <1>2, <1>4, <1>5

\* `**` at the end takes whatever is left.
LEMMA WideTail ==
    ASSUME NEW match, NEW pattern \in Paths, NEW path \in Paths,
           Walks(match, pattern, path, FALSE),
           pattern # <<>>, pattern[Len(pattern)] = DoubleStar
    PROVE  \A k \in 1 .. Len(path) + 1 : match[<<Len(pattern), k>>]
<1> DEFINE N == Len(pattern)
           L == Len(path)
           Off == {k \in 1 .. L + 1 : ~match[<<N, k>>]}
<1>1. N \in Nat /\ L \in Nat /\ N # 0
  BY LenProperties DEF Paths
<1>2. N \in 1 .. N + 1 /\ N + 1 \in 1 .. N + 1 /\ N + 1 > N /\ ~(N > N) /\ N <= N
  BY <1>1
<1>3. \A k \in 1 .. L + 1 :
         match[<<N, k>>] <=> match[<<N + 1, k>>] \/ (k <= L /\ match[<<N, k + 1>>])
  BY <1>2, WalkStep
<1>4. ASSUME Off # {}
      PROVE  FALSE
  <2>1. Off \in SUBSET (0 .. L + 1) /\ L + 1 \in Nat
    BY <1>1
  <2>2. PICK k \in Off : \A other \in Off : other <= k
    <3> HIDE DEF Off
    <3> QED
      BY <1>4, <2>1, Greatest
  <2>3. CASE k = L + 1
    <3>1. L + 1 \in 1 .. L + 1 /\ L + 1 > L
      BY <1>1
    <3>2. match[<<N + 1, L + 1>>]
      <4>1. match[<<N + 1, L + 1>>] = MatchBody(pattern, path, FALSE, match, <<N + 1, L + 1>>)
        BY <1>2, <3>1 DEF Walks, Positions
      <4> QED
        BY <1>2, <3>1, <4>1 DEF MatchBody
    <3>3. match[<<N, L + 1>>]
      BY <1>3, <3>1, <3>2
    <3> QED
      BY <2>3, <3>3
  <2>4. CASE k # L + 1
    <3>1. k <= L /\ k + 1 \in 1 .. L + 1 /\ ~(k + 1 <= k)
      BY <1>1, <2>2, <2>4
    <3>2. match[<<N, k + 1>>]
      BY <2>2, <3>1
    <3> QED
      BY <1>3, <3>1, <3>2
  <2> QED
    BY <2>3, <2>4
<1> QED
  BY <1>4

\* What an exclusion is proved to contain it matches wherever it is matched.
LEMMA Contained ==
    ASSUME NEW container \in Paths, NEW contained \in Paths, NEW path \in Paths,
           ProvablyContainsPattern(container, contained), Matches(contained, path)
    PROVE  Matches(container, path)
<1>1. /\ Len(container) \in Nat /\ Len(contained) \in Nat /\ Len(path) \in Nat
      /\ IsWord(container) /\ IsWord(contained) /\ IsWord(path)
      /\ \A i \in 1 .. Len(container) : container[i] \in Seq(Characters)
      /\ \A i \in 1 .. Len(contained) : contained[i] \in Seq(Characters)
  BY LenProperties, ElementOfSeq DEF Paths, IsWord
<1>2. PICK x : Walks(x, container, path, FALSE) /\ Matches(container, path) = x[<<1, 1>>]
  BY <1>1, MatchSolves DEF Matches
<1>3. PICK y : Walks(y, contained, path, FALSE) /\ Matches(contained, path) = y[<<1, 1>>]
  BY <1>1, MatchSolves DEF Matches
<1>4. CASE ~HasStar(contained)
  <2> DEFINE n == Len(contained)
  <2>1. Literal(contained, n)
    BY <1>1, <1>4 DEF HasStar, IsWord, Literal
  <2>2. /\ \A m \in 1 .. n : m <= Len(path) /\ path[m] = contained[m]
        /\ n + 1 <= Len(path) + 1 /\ y[<<n + 1, n + 1>>]
    BY <1>3, <2>1, LiteralWalk
  <2>3. n <= Len(path) /\ n + 1 \in 1 .. Len(contained) + 1 /\ n + 1 \in 1 .. Len(path) + 1
        /\ ~(n + 1 <= Len(contained))
    BY <1>1, <2>2
  <2>4. n + 1 > Len(path)
    <3> HIDE DEF n
    <3> QED
      BY <1>3, <2>2, <2>3, WalkStep
  <2>5. n = Len(path)
    BY <1>1, <2>3, <2>4
  <2>6. path = contained
    BY <2>2, <2>5, SeqEqual DEF Paths
  <2> QED
    BY <1>4, <2>6 DEF ProvablyContainsPattern
<1>5. CASE container = contained
  BY <1>5
<1>6. CASE container = <<DoubleStar>>
  <2>1. Len(container) = 1 /\ container # <<>> /\ container[Len(container)] = DoubleStar
    BY <1>6
  <2>2. 1 \in 1 .. Len(path) + 1
    BY <1>1
  <2> QED
    BY <1>2, <2>1, <2>2, WideTail
<1>7. CASE /\ Len(container) > 1
           /\ Last(container) = DoubleStar
           /\ ~HasStar(Front(container))
           /\ Len(contained) > Len(Front(container))
           /\ IsPrefix(Front(container), contained)
  <2> DEFINE n == Len(container) - 1
             prefix == Front(container)
  <2>1. n \in Nat /\ n + 1 = Len(container) /\ n >= 1
    BY <1>1, <1>7
  <2>2. /\ prefix \in Seq(Seq(Characters)) /\ Len(prefix) = n
        /\ \A m \in 1 .. n : prefix[m] = container[m]
    <3>1. prefix = SubSeq(container, 1, n)
      BY DEF Front
    <3>2. \A m \in 1 .. n : m \in 1 .. Len(container) /\ container[m] \in Seq(Characters)
      BY <1>1, <2>1
    <3>3. \A m \in 1 .. n : (1 + m) - 1 = m /\ m \in 1 .. (n - 1) + 1
      BY <2>1
    <3>4. 1 \in Nat /\ n \in 1 - 1 .. n /\ 1 <= n + 1 /\ (n - 1) + 1 = n
      BY <2>1
    <3> HIDE DEF n, prefix
    <3> QED
      BY <2>1, <3>1, <3>2, <3>3, <3>4, SubSeqProperties
  <2>3. n <= Len(contained) /\ \A m \in 1 .. n : contained[m] = container[m]
    <3>1. n <= Len(contained) /\ SubSeq(prefix, 1, n) = SubSeq(contained, 1, n)
      BY <1>7, <2>2 DEF IsPrefix
    <3>2. \A m \in 1 .. n : prefix[m] \in Seq(Characters) /\ contained[m] \in Seq(Characters)
      BY <1>1, <2>1, <2>2, <3>1, ElementOfSeq
    <3>3. \A m \in 1 .. n : (1 + m) - 1 = m /\ m \in 1 .. (n - 1) + 1
      BY <2>1
    <3>4. 1 \in Nat /\ n \in 1 - 1 .. n /\ 1 <= n + 1 /\ (n - 1) + 1 = n
      BY <2>1
    <3> HIDE DEF n, prefix
    <3>5. \A m \in 1 .. n : SubSeq(prefix, 1, n)[m] = prefix[m]
      BY <2>1, <3>2, <3>3, <3>4, SubSeqProperties
    <3>6. \A m \in 1 .. n : SubSeq(contained, 1, n)[m] = contained[m]
      BY <2>1, <3>2, <3>3, <3>4, SubSeqProperties
    <3> QED
      BY <2>2, <3>1, <3>5, <3>6
  <2>4. \A m \in 1 .. n : Star \notin ToSet(container[m])
    <3>1. DOMAIN prefix = 1 .. n
      BY <2>2, LenProperties
    <3> QED
      BY <1>7, <2>2, <3>1 DEF HasStar
  <2>5. /\ \A m \in 1 .. n : m <= Len(path) /\ path[m] = container[m]
        /\ n + 1 <= Len(path) + 1
    <3>1. Literal(contained, n)
      BY <1>1, <2>1, <2>3, <2>4 DEF Literal
    <3>2. Walks(y, contained, path, FALSE) /\ y[<<1, 1>>]
      BY <1>3
    <3> HIDE DEF n
    <3>3. /\ \A m \in 1 .. n : m <= Len(path) /\ path[m] = contained[m]
          /\ n + 1 <= Len(path) + 1 /\ y[<<n + 1, n + 1>>]
      BY <3>1, <3>2, LiteralWalk
    <3> QED
      BY <2>3, <3>3
  <2>6. x[<<n + 1, n + 1>>]
    <3>1. container # <<>> /\ container[Len(container)] = DoubleStar
      BY <1>7 DEF Last
    <3>2. n + 1 \in 1 .. Len(path) + 1
      BY <1>1, <2>1, <2>5
    <3> QED
      BY <1>2, <2>1, <3>1, <3>2, WideTail
  <2> DEFINE Off == {m \in 1 .. n + 1 : ~x[<<m, m>>]}
  <2>7. ASSUME Off # {}
        PROVE  FALSE
    <3>1. Off \in SUBSET (0 .. n + 1) /\ n + 1 \in Nat
      BY <2>1
    <3>2. PICK m \in Off : \A other \in Off : other <= m
      <4> HIDE DEF Off
      <4> QED
        BY <2>7, <3>1, Greatest
    <3>3. m # n + 1
      BY <2>6
    <3>4. /\ m \in 1 .. n /\ m + 1 \in 1 .. n + 1 /\ ~(m + 1 <= m)
          /\ m \in 1 .. Len(container) /\ m \in 1 .. Len(container) + 1 /\ m <= Len(container)
          /\ m \in 1 .. Len(path) + 1
      <4>1. m \in Nat /\ 1 <= m /\ m <= n
        BY <2>1, <3>2, <3>3
      <4>2. m <= Len(container) /\ m <= Len(path) + 1
        BY <1>1, <2>1, <2>5, <4>1
      <4>3. m \in 1 .. n /\ m + 1 \in 1 .. n + 1 /\ ~(m + 1 <= m)
        BY <2>1, <4>1
      <4> HIDE DEF n
      <4> QED
        BY <1>1, <4>1, <4>2, <4>3
    <3>5. x[<<m + 1, m + 1>>] /\ ~x[<<m, m>>]
      BY <3>2, <3>4
    <3>6. IsWord(container[m])
      BY <1>1, <3>4, LenProperties DEF IsWord
    <3>7. m <= Len(path) /\ container[m] # DoubleStar /\ SegmentMatches(container[m], path[m])
      BY <2>4, <2>5, <3>4, <3>6, LiteralSegment
    <3> HIDE DEF n, Off
    <3> QED
      BY <1>2, <3>4, <3>5, <3>7, WalkStep
  <2>8. 1 \in 1 .. n + 1
    BY <2>1
  <2> QED
    BY <1>2, <2>7, <2>8
<1> QED
  BY <1>4, <1>5, <1>6, <1>7 DEF ProvablyContainsPattern

\* What the matcher lets through, the grammar at the head of policy/paths.rs
\* means, though the matcher tries first occurrences only.
THEOREM MatchesMean ==
    ASSUME NEW pattern \in Paths, NEW path \in Paths, Matches(pattern, path)
    PROVE  Means(pattern, path)
<1> DEFINE N == Len(pattern)
           L == Len(path)
           Step(end, m) == IF pattern[m] = DoubleStar THEN end[m - 1] <= end[m]
                           ELSE end[m] = end[m - 1] + 1 /\ MeansSegment(pattern[m], path[end[m]])
           Fits(end, i, k) == /\ end \in [0 .. N -> 0 .. L]
                              /\ end[i - 1] = k - 1 /\ end[N] = L
                              /\ \A m \in i .. N : Step(end, m)
<1>1. /\ N \in Nat /\ L \in Nat /\ IsWord(pattern)
      /\ \A i \in 1 .. N : pattern[i] \in Seq(Characters)
      /\ \A i \in 1 .. L : path[i] \in Seq(Characters)
  BY LenProperties, ElementOfSeq DEF Paths, IsWord
<1>2. PICK x : Walks(x, pattern, path, FALSE) /\ Matches(pattern, path) = x[<<1, 1>>]
  BY <1>1, MatchSolves DEF Matches
<1> DEFINE togo(i, k) == ((N + 1) + (L + 1)) - (i + k)
           Bad == {n \in Nat : \E i \in 1 .. N + 1, k \in 1 .. L + 1 :
                      n = togo(i, k) /\ x[<<i, k>>] /\ ~(\E end : Fits(end, i, k))}
<1>3. ASSUME NEW i \in 1 .. N, NEW k \in 1 .. L + 1, NEW to \in {k, k + 1}, NEW end,
             Fits(end, i + 1, to), to # k => k <= L,
             IF pattern[i] = DoubleStar THEN TRUE
             ELSE to = k + 1 /\ MeansSegment(pattern[i], path[k])
      PROVE  \E other : Fits(other, i, k)
  <2> DEFINE other == [end EXCEPT ![i - 1] = k - 1]
  <2>1. i - 1 \in 0 .. N /\ k - 1 \in 0 .. L /\ i - 1 # N /\ i # i - 1 /\ i \in 0 .. N
    BY <1>1
  <2>2. /\ other \in [0 .. N -> 0 .. L] /\ other[i - 1] = k - 1 /\ other[N] = L
        /\ \A m \in 0 .. N : m # i - 1 => other[m] = end[m]
    BY <1>1, <1>3, <2>1
  <2>3. other[i] = to - 1
    <3>1. (i + 1) - 1 = i
      BY <1>1
    <3> QED
      BY <1>3, <2>1, <2>2, <3>1
  <2> HIDE DEF other
  <2>4. Step(other, i)
    <3>1. CASE to = k
      BY <1>1, <1>3, <2>2, <2>3, <3>1
    <3>2. CASE to = k + 1
      <4>1. other[i] = k /\ k = (k - 1) + 1 /\ k - 1 <= k
        BY <1>1, <2>3, <3>2
      <4> QED
        BY <1>3, <2>2, <4>1
    <3> QED
      BY <1>3, <3>1, <3>2
  <2>5. ASSUME NEW m \in i .. N
        PROVE  Step(other, m)
    <3>1. CASE m = i
      BY <2>4, <3>1
    <3>2. CASE m # i
      <4>1. m \in (i + 1) .. N /\ m \in 0 .. N /\ m - 1 \in 0 .. N /\ m # i - 1 /\ m - 1 # i - 1
        BY <1>1, <3>2
      <4>2. Step(end, m)
        BY <1>3, <4>1
      <4>3. other[m] = end[m] /\ other[m - 1] = end[m - 1]
        BY <2>2, <4>1
      <4> QED
        BY <4>2, <4>3
    <3> QED
      BY <3>1, <3>2
  <2>6. Fits(other, i, k)
    <3> HIDE DEF Step
    <3> QED
      BY <2>2, <2>5
  <2> QED
    BY <2>6
<1>4. ASSUME Bad # {}
      PROVE  FALSE
  <2>1. PICK n \in Bad : \A other \in Bad : n <= other
    BY <1>4, Least
  <2>2. PICK i \in 1 .. N + 1, k \in 1 .. L + 1 :
           n = togo(i, k) /\ x[<<i, k>>] /\ ~(\E end : Fits(end, i, k))
    BY <2>1
  <2>3. ASSUME NEW p \in {i, i + 1}, NEW q \in {k, k + 1}, <<p, q>> # <<i, k>>,
               p <= N + 1, q <= L + 1, x[<<p, q>>]
        PROVE  \E end : Fits(end, p, q)
    <3>1. p \in 1 .. N + 1 /\ q \in 1 .. L + 1 /\ p + q > i + k
      BY <1>1, <2>3
    <3>2. togo(p, q) \in Nat /\ togo(p, q) < n
      BY <1>1, <2>2, <3>1
    <3>3. togo(p, q) \notin Bad
      <4>1. n \in Nat
        BY <2>1
      <4> HIDE DEF Bad, togo
      <4> QED
        BY <2>1, <3>2, <4>1
    <3> HIDE DEF Fits, togo
    <3> QED
      BY <2>3, <3>1, <3>2, <3>3
  <2>4. \/ i > N /\ k > L
        \/ i <= N /\ pattern[i] = DoubleStar /\ (x[<<i + 1, k>>] \/ (k <= L /\ x[<<i, k + 1>>]))
        \/ /\ i <= N /\ k <= L /\ pattern[i] # DoubleStar
           /\ SegmentMatches(pattern[i], path[k]) /\ x[<<i + 1, k + 1>>]
    BY <1>2, <2>2, WalkStep
  <2>5. CASE i > N /\ k > L
    <3> DEFINE end == [m \in 0 .. N |-> L]
    <3>1. i = N + 1 /\ k = L + 1
      BY <1>1, <2>5
    <3>2. Fits(end, i, k)
      BY <1>1, <3>1
    <3> QED
      BY <2>2, <3>2
  <2>6. CASE i <= N /\ pattern[i] = DoubleStar /\ x[<<i + 1, k>>]
    <3>1. i \in 1 .. N /\ i + 1 <= N + 1 /\ k <= L + 1 /\ <<i + 1, k>> # <<i, k>>
      BY <1>1, <2>6
    <3>2. PICK end : Fits(end, i + 1, k)
      BY <2>3, <2>6, <3>1
    <3> HIDE DEF Fits
    <3> QED
      BY <1>3, <2>2, <2>6, <3>1, <3>2
  <2>7. CASE i <= N /\ pattern[i] = DoubleStar /\ k <= L /\ x[<<i, k + 1>>]
    <3>1. i \in 1 .. N /\ i <= N + 1 /\ k + 1 <= L + 1 /\ <<i, k + 1>> # <<i, k>>
      BY <1>1, <2>7
    <3>2. PICK end : Fits(end, i, k + 1)
      BY <2>3, <2>7, <3>1
    <3>3. end[i - 1] = k /\ i - 1 \in 0 .. N /\ i - 1 # N
      BY <1>1, <2>7, <3>1, <3>2
    <3> DEFINE other == [end EXCEPT ![i - 1] = k - 1]
    <3>4. /\ k - 1 \in 0 .. L /\ other \in [0 .. N -> 0 .. L] /\ other[i - 1] = k - 1
          /\ other[N] = L
          /\ \A m \in 0 .. N : m # i - 1 => other[m] = end[m]
      BY <1>1, <2>7, <3>2, <3>3
    <3> HIDE DEF other
    <3>5. ASSUME NEW m \in i .. N
          PROVE  Step(other, m)
      <4>1. m \in 0 .. N /\ m - 1 \in 0 .. N /\ m # i - 1 /\ m \in 1 .. N
        BY <1>1, <3>1
      <4>2. Step(end, m) /\ other[m] = end[m]
        BY <3>2, <3>4, <4>1
      <4>3. CASE m = i
        <5>1. k <= end[i] /\ end[i] \in 0 .. L
          BY <2>7, <3>2, <3>3, <4>1, <4>2, <4>3
        <5>2. k - 1 <= end[i]
          BY <1>1, <5>1
        <5> QED
          BY <2>7, <3>4, <4>2, <4>3, <5>2
      <4>4. CASE m # i
        <5>1. m - 1 # i - 1
          BY <3>1, <4>1, <4>4
        <5>2. other[m - 1] = end[m - 1]
          BY <3>4, <4>1, <5>1
        <5> QED
          BY <4>2, <5>2
      <4> QED
        BY <4>3, <4>4
    <3>6. Fits(other, i, k)
      <4> HIDE DEF Step
      <4> QED
        BY <3>4, <3>5
    <3> QED
      BY <2>2, <3>6
  <2>8. CASE /\ i <= N /\ k <= L /\ pattern[i] # DoubleStar
             /\ SegmentMatches(pattern[i], path[k]) /\ x[<<i + 1, k + 1>>]
    <3>1. /\ i \in 1 .. N /\ i + 1 <= N + 1 /\ k + 1 <= L + 1 /\ <<i + 1, k + 1>> # <<i, k>>
          /\ k \in 1 .. L
      BY <1>1, <2>8
    <3>2. PICK end : Fits(end, i + 1, k + 1)
      BY <2>3, <2>8, <3>1
    <3>3. MeansSegment(pattern[i], path[k])
      BY <1>1, <2>8, <3>1, SegmentMeant
    <3> HIDE DEF Fits
    <3> QED
      BY <1>3, <2>2, <2>8, <3>1, <3>2, <3>3
  <2> QED
    BY <2>4, <2>5, <2>6, <2>7, <2>8
<1>5. togo(1, 1) \in Nat /\ 1 \in 1 .. N + 1 /\ 1 \in 1 .. L + 1 /\ x[<<1, 1>>]
  <2>1. togo(1, 1) \in Nat /\ 1 \in 1 .. N + 1 /\ 1 \in 1 .. L + 1
    BY <1>1
  <2>2. x[<<1, 1>>]
    BY <1>2
  <2> QED
    BY <2>1, <2>2
<1>6. PICK end : Fits(end, 1, 1)
  <2> HIDE DEF togo, Fits
  <2> QED
    BY <1>4, <1>5
<1>7. end[0] = 0
  BY <1>6
<1> QED
  BY <1>1, <1>6, <1>7 DEF Means, IsWord

-----------------------------------------------------------------------------
(***************************************************************************)
(* One part moves at a time.                                               *)
(***************************************************************************)

LEMMA PartsMove ==
    [Next]_vars =>
        /\ [ScopesNext]_scopeVars
        /\ [EvidenceNext]_evidenceVars
        /\ [ReuseNext]_runs
        /\ [LessonsNext]_lessonVars
        /\ [\E fact \in Appended : AppendFact(fact)]_events
<1> SUFFICES ASSUME [Next]_vars
             PROVE  /\ [ScopesNext]_scopeVars
                    /\ [EvidenceNext]_evidenceVars
                    /\ [ReuseNext]_runs
                    /\ [LessonsNext]_lessonVars
                    /\ [\E fact \in Appended : AppendFact(fact)]_events
  OBVIOUS
<1>1. CASE UNCHANGED vars
  BY <1>1 DEF vars
<1>2. CASE Next
  BY <1>2 DEF Next
<1> QED
  BY <1>1, <1>2

-----------------------------------------------------------------------------
(***************************************************************************)
(* Write scopes.                                                           *)
(***************************************************************************)

ScopeOfPaths(scope) == scope.include \cup scope.exclude \subseteq Paths

\* Two scopes that allow one path overlap (Scope.overlaps in policy/paths.rs):
\* an exclusion that drops an include from the comparison really excludes it.
THEOREM AllowedTogether ==
    ASSUME NEW left, NEW right, NEW path \in Paths,
           ScopeOfPaths(left), ScopeOfPaths(right), Allows(left, path), Allows(right, path)
    PROVE  Overlaps(left, right)
<1>1. PICK p \in left.include : Matches(p, path)
  BY DEF Allows
<1>2. PICK q \in right.include : Matches(q, path)
  BY DEF Allows
<1>3. p \in Paths /\ q \in Paths
  BY DEF ScopeOfPaths
<1>4. ASSUME NEW scope \in {left, right}, NEW excluded \in scope.exclude, NEW pattern \in {p, q},
             ProvablyContainsPattern(excluded, pattern)
      PROVE  FALSE
  <2>1. excluded \in Paths
    BY DEF ScopeOfPaths
  <2>2. Matches(excluded, path)
    BY <1>1, <1>2, <1>3, <1>4, <2>1, Contained
  <2> QED
    BY <2>2 DEF Allows
<1>5. p \in EffectiveIncludes(left) /\ q \in EffectiveIncludes(right)
  BY <1>4 DEF EffectiveIncludes
<1>6. PatternsIntersect(p, q)
  BY <1>1, <1>2, <1>3, MatchesMeet
<1> QED
  BY <1>4, <1>5, <1>6 DEF Overlaps

\* What verification lets through is in the claim's scope and not the harness's.
LEMMA NotBlocked ==
    ASSUME NEW path, NEW claim, BlockingAt(path, claim) = {}
    PROVE  Allows(claim, path) /\ ~(Len(path) > 1 /\ Head(path) \in ProtectedNames)
BY DEF BlockingAt

Touchable == UNION {TouchedPaths(change) : change \in Changes}

ScopesInv ==
    /\ claims \in [Holders -> Claims \cup {NoClaim}]
    /\ written \in [Holders -> SUBSET Touchable]
    /\ \A one, two \in Active :
          one # two => ~Overlaps(claims[one], claims[two]) \/ ~Overlaps(claims[two], claims[one])
    /\ \A card \in Active : \A path \in written[card] : BlockingAt(path, claims[card]) = {}
    /\ \A card \in Holders \ Active : written[card] = {}

LEMMA ScopesInvHolds == ScopesInv => ScopesHold
<1> SUFFICES ASSUME ScopesInv
             PROVE  ScopesHold
  OBVIOUS
<1>1. ScopesTypeOK
  BY DEF ScopesInv, ScopesTypeOK, Touchable
<1>2. ASSUME NEW card \in Active, NEW path \in written[card]
      PROVE  /\ path \in Paths /\ ScopeOfPaths(claims[card]) /\ Allows(claims[card], path)
             /\ ~(Len(path) > 1 /\ Head(path) \in ProtectedNames)
  <2>1. card \in Holders /\ claims[card] \in Claims
    BY DEF Active, ScopesInv
  <2>2. ScopeOfPaths(claims[card])
    BY <2>1, ScopesAssumption DEF ScopeOfPaths
  <2>3. path \in Paths
    BY <2>1, ScopesAssumption DEF ScopesInv, Touchable
  <2> QED
    BY <2>2, <2>3, NotBlocked DEF ScopesInv
<1>3. DisjointWrites
  <2> SUFFICES ASSUME NEW one \in Active, NEW two \in Active, one # two,
                      NEW path, path \in written[one], path \in written[two]
               PROVE  FALSE
    BY DEF DisjointWrites
  <2>1. Overlaps(claims[one], claims[two]) /\ Overlaps(claims[two], claims[one])
    BY <1>2, AllowedTogether
  <2> QED
    BY <2>1 DEF ScopesInv
<1>4. WrittenAsMeant
  <2> SUFFICES ASSUME NEW card \in Active, NEW path \in written[card]
               PROVE  \E pattern \in claims[card].include : Means(pattern, path)
    BY <1>2 DEF WrittenAsMeant
  <2>1. PICK pattern \in claims[card].include : Matches(pattern, path)
    BY <1>2 DEF Allows
  <2>2. pattern \in Paths /\ path \in Paths
    BY <1>2 DEF ScopeOfPaths
  <2> QED
    BY <2>1, <2>2, MatchesMean
<1> QED
  BY <1>1, <1>3, <1>4 DEF ScopesHold

LEMMA ScopesStart == ScopesInit => ScopesInv
BY DEF ScopesInit, ScopesInv, Active

LEMMA ScopesStep ==
    ASSUME ScopesInv, ScopesNext
    PROVE  ScopesInv'
<1> PICK card \in Holders :
       \/ \E claim \in Claims : Admit(card, claim)
       \/ \E facts \in CandidateFacts : HandOffCandidate(card, facts)
       \/ ReleaseClaims(card)
  BY DEF ScopesNext
<1>1. ASSUME NEW claim \in Claims, Admit(card, claim)
      PROVE  ScopesInv'
  <2>1. /\ claims' = [claims EXCEPT ![card] = claim] /\ written' = written
        /\ claims[card] = NoClaim
        /\ \A other \in Active \ {card} : ~Overlaps(claim, claims[other])
    BY <1>1 DEF Admit, CheckAdmissible
  <2>2. claims' \in [Holders -> Claims \cup {NoClaim}] /\ claims'[card] = claim
        /\ \A other \in Holders \ {card} : claims'[other] = claims[other]
    BY <2>1 DEF ScopesInv
  <2>3. Active' \subseteq Active \cup {card} /\ Active \subseteq Active'
        /\ card \notin Active /\ Active' \subseteq Holders
    BY <2>1, <2>2 DEF Active
  <2>4. written[card] = {}
    BY <2>3 DEF ScopesInv
  <2>5. ASSUME NEW one \in Active', NEW two \in Active', one # two
        PROVE  ~Overlaps(claims'[one], claims'[two]) \/ ~Overlaps(claims'[two], claims'[one])
    BY <2>1, <2>2, <2>3, <2>5 DEF ScopesInv
  <2>6. \A other \in Active' : \A path \in written'[other] :
           BlockingAt(path, claims'[other]) = {}
    BY <2>1, <2>2, <2>3, <2>4 DEF ScopesInv
  <2>7. \A other \in Holders \ Active' : written'[other] = {}
    BY <2>1, <2>3 DEF ScopesInv
  <2> QED
    BY <2>1, <2>2, <2>5, <2>6, <2>7 DEF ScopesInv
<1>2. ASSUME NEW facts \in CandidateFacts, HandOffCandidate(card, facts)
      PROVE  ScopesInv'
  <2>1. /\ claims' = claims /\ claims[card] # NoClaim /\ Verify(claims[card], facts) = {}
        /\ written' = [written EXCEPT ![card] =
                          UNION {TouchedPaths(change) : change \in facts.changes}]
    BY <1>2 DEF HandOffCandidate
  <2>2. facts.changes \subseteq Changes
    BY DEF CandidateFacts
  <2>3. /\ \A other \in Holders \ {card} : written'[other] = written[other]
        /\ \A path \in written'[card] :
              \E change \in facts.changes : path \in TouchedPaths(change)
    <3>1. written'[card] = UNION {TouchedPaths(change) : change \in facts.changes}
      BY <2>1 DEF ScopesInv
    <3>2. \A other \in Holders \ {card} : written'[other] = written[other]
      BY <2>1 DEF ScopesInv
    <3> QED
      BY <3>1, <3>2
  <2>4. \A path \in written'[card] : path \in Touchable
    BY <2>2, <2>3 DEF Touchable
  <2>5. written' \in [Holders -> SUBSET Touchable]
    BY <2>1, <2>4 DEF ScopesInv
  <2>6. ASSUME NEW path \in written'[card]
        PROVE  BlockingAt(path, claims[card]) = {}
    <3>1. PICK change \in facts.changes : path \in TouchedPaths(change)
      BY <2>3
    <3>2. CheckChange(change, claims[card]) = {}
      BY <2>1 DEF Verify
    <3> QED
      BY <3>1, <3>2 DEF CheckChange
  <2>7. card \in Active /\ Active' = Active
    BY <2>1 DEF Active
  <2>8. \A other \in Active : \A path \in written'[other] :
           BlockingAt(path, claims[other]) = {}
    BY <2>3, <2>6 DEF ScopesInv, Active
  <2>9. \A other \in Holders \ Active : written'[other] = {}
    BY <2>3, <2>7 DEF ScopesInv
  <2> QED
    BY <2>1, <2>5, <2>7, <2>8, <2>9 DEF ScopesInv
<1>3. ASSUME ReleaseClaims(card)
      PROVE  ScopesInv'
  <2>1. /\ claims' = [claims EXCEPT ![card] = NoClaim]
        /\ written' = [written EXCEPT ![card] = {}]
    BY <1>3 DEF ReleaseClaims
  <2>2. /\ claims' \in [Holders -> Claims \cup {NoClaim}] /\ claims'[card] = NoClaim
        /\ \A other \in Holders \ {card} : claims'[other] = claims[other]
        /\ written' \in [Holders -> SUBSET Touchable] /\ written'[card] = {}
        /\ \A other \in Holders \ {card} : written'[other] = written[other]
    BY <2>1 DEF ScopesInv
  <2>3. Active' = Active \ {card} /\ Active \subseteq Holders
    BY <2>2 DEF Active
  <2>4. ASSUME NEW one \in Active', NEW two \in Active', one # two
        PROVE  ~Overlaps(claims'[one], claims'[two]) \/ ~Overlaps(claims'[two], claims'[one])
    BY <2>2, <2>3, <2>4 DEF ScopesInv
  <2>5. \A other \in Active' : \A path \in written'[other] :
           BlockingAt(path, claims'[other]) = {}
    BY <2>2, <2>3 DEF ScopesInv
  <2>6. \A other \in Holders \ Active' : written'[other] = {}
    BY <2>2, <2>3 DEF ScopesInv
  <2> QED
    BY <2>2, <2>4, <2>5, <2>6 DEF ScopesInv
<1> QED
  BY <1>1, <1>2, <1>3

LEMMA ScopesAlways == Spec => []ScopesInv
<1>1. Init => ScopesInv
  BY ScopesStart DEF Init
<1>2. ScopesInv /\ UNCHANGED scopeVars => ScopesInv'
  BY DEF ScopesInv, scopeVars, Active
<1>3. ScopesInv /\ [Next]_vars => ScopesInv'
  BY <1>2, ScopesStep, PartsMove
<1> QED
  BY <1>1, <1>3, PTL DEF Spec

\* No two active cards hand off candidates that touch one file, and everything
\* handed off is where an include pattern of its card means: what the allocator
\* finds disjoint and what verification lets through cannot meet
\* (policy/paths.rs, policy/allocation.rs, policy/verification.rs).
THEOREM ScopesAlwaysHold == Spec => []ScopesHold
BY ScopesAlways, ScopesInvHolds, PTL

-----------------------------------------------------------------------------
(***************************************************************************)
(* Reviews.                                                                *)
(***************************************************************************)

\* What stays true of a recorded review: it is of this revision or an earlier
\* one, whose risk was the one it was judged at, and its reviewer was somebody.
Recorded(review) ==
    /\ review.revision \in 1 .. revision
    /\ review.decision = "approved" =>
          /\ Reviewer(review).principal # Undeclared
          /\ Reviewer(review).session # Undeclared
          /\ ~SameBoundary(Reviewer(review), ImplementerBoundary)
    /\ review.kind = "human" =>
          /\ review.attestation.independent
          /\ ~SameBoundary(review.attestation, Reviewer(review))
          /\ ~SameBoundary(review.attestation, Implementer)
    /\ review.revision = revision /\ risk = "high" => review.kind = "human"

ReviewsRecorded ==
    /\ EvidenceTypeOK
    /\ IsSequence(reviews)
    /\ \A n \in DOMAIN reviews : Recorded(reviews[n])

\* The record of a verdict says what the verdict says.
LEMMA RecordOf ==
    ASSUME NEW given, NEW bindings
    PROVE  LET review == [BuildReviewRecord(given) EXCEPT !.bindings = bindings] IN
           /\ review.kind = given.kind /\ review.decision = given.decision
           /\ review.attestation = given.attestation
           /\ review.revision = revision
           /\ Reviewer(review) = Reviewer(given)
BY DEF BuildReviewRecord, Reviewer

LEMMA RecordVerdictStep ==
    ASSUME ReviewsRecorded, NEW given \in Verdicts, RecordVerdict(given)
    PROVE  ReviewsRecorded'
<1> DEFINE review == [BuildReviewRecord(given) EXCEPT
                        !.bindings = Bindings(BuildReviewRecord(given))]
<1>1. /\ review.kind = given.kind /\ review.decision = given.decision
      /\ review.attestation = given.attestation
      /\ review.revision = revision
      /\ Reviewer(review) = Reviewer(given)
  BY RecordOf
<1>2. /\ reviews' = Append(reviews, review) /\ Len(reviews) < MaxReviews
      /\ UNCHANGED <<revision, risk, candidate, receipts, rules>>
  BY DEF RecordVerdict
<1>3. Recorded(review)
  <2>1. revision \in 1 .. revision
    BY ReviewEvidenceAssumption DEF ReviewsRecorded, EvidenceTypeOK
  <2>2. given.decision = "approved" =>
          /\ Reviewer(given).principal # Undeclared
          /\ Reviewer(given).session # Undeclared
          /\ ~SameBoundary(Reviewer(given), ImplementerBoundary)
    BY DEF RecordVerdict, RequireTypedReviewerContract, RefuseSharedReviewerBoundary, Reviewer
  <2>3. given.kind = "human" =>
          /\ given.attestation.independent
          /\ ~SameBoundary(given.attestation, Reviewer(given))
          /\ ~SameBoundary(given.attestation, Implementer)
    BY DEF RecordVerdict, ValidateReviewerIdentity, ValidateHumanAttestationBoundary
  <2>4. risk = "high" => given.kind = "human"
    BY DEF RecordVerdict, RequireTypedReviewerContract
  <2> HIDE DEF review
  <2> QED
    BY <1>1, <2>1, <2>2, <2>3, <2>4 DEF Recorded
<1> HIDE DEF review
<1>4. /\ IsSequence(reviews') /\ Len(reviews') = Len(reviews) + 1
      /\ DOMAIN reviews' = 1 .. Len(reviews) + 1
      /\ \A n \in 1 .. Len(reviews) : reviews'[n] = reviews[n]
      /\ reviews'[Len(reviews) + 1] = review
  BY <1>2, Appending DEF ReviewsRecorded
<1>5. Len(reviews) \in Nat /\ DOMAIN reviews = 1 .. Len(reviews)
  BY SequenceDomain DEF ReviewsRecorded
<1>6. \A n \in DOMAIN reviews' : Recorded(reviews'[n])
  <2> TAKE n \in DOMAIN reviews'
  <2>1. n \in DOMAIN reviews \/ n = Len(reviews) + 1
    BY <1>4, <1>5
  <2> QED
    BY <1>3, <1>4, <1>5, <2>1 DEF ReviewsRecorded
<1>7. (\A n \in DOMAIN reviews : Recorded(reviews[n]))'
  BY <1>2, <1>6 DEF Recorded
<1>8. EvidenceTypeOK'
  BY <1>2, <1>4, <1>5, ReviewEvidenceAssumption DEF EvidenceTypeOK, ReviewsRecorded
<1> QED
  BY <1>4, <1>7, <1>8 DEF ReviewsRecorded

LEMMA ReviewsRecordedStep == ReviewsRecorded /\ [EvidenceNext]_evidenceVars => ReviewsRecorded'
<1> SUFFICES ASSUME ReviewsRecorded, [EvidenceNext]_evidenceVars
             PROVE  ReviewsRecorded'
  OBVIOUS
<1> USE ReviewEvidenceAssumption
<1>1. CASE UNCHANGED <<revision, risk, reviews>> /\ EvidenceTypeOK'
  BY <1>1 DEF ReviewsRecorded, Recorded
<1>2. CASE UNCHANGED evidenceVars
  BY <1>1, <1>2 DEF evidenceVars, ReviewsRecorded, EvidenceTypeOK
<1>3. ASSUME NEW new \in Candidates, Redeliver(new)
      PROVE  ReviewsRecorded'
  BY <1>1, <1>3 DEF Redeliver, ReviewsRecorded, EvidenceTypeOK
<1>4. ASSUME NEW new \in {"low", "high"}, ReviseRisk(new)
      PROVE  ReviewsRecorded'
  <2>1. /\ revision \in Nat /\ revision' = revision + 1 /\ UNCHANGED reviews
        /\ EvidenceTypeOK'
    BY <1>4 DEF ReviseRisk, ReviewsRecorded, EvidenceTypeOK
  <2>2. ASSUME NEW n \in DOMAIN reviews
        PROVE  Recorded(reviews[n])'
    <3>1. Recorded(reviews[n])
      BY DEF ReviewsRecorded
    <3>2. reviews[n].revision \in 1 .. revision' /\ reviews[n].revision # revision'
      BY <2>1, <3>1 DEF Recorded
    <3> QED
      BY <2>1, <3>1, <3>2 DEF Recorded
  <2> QED
    BY <2>1, <2>2 DEF ReviewsRecorded
<1>5. ASSUME NEW id \in ReceiptIds, NEW receipt \in Receipts \cup {Undeclared},
             PlaceReceipt(id, receipt)
      PROVE  ReviewsRecorded'
  BY <1>1, <1>5 DEF PlaceReceipt, ReviewsRecorded, EvidenceTypeOK
<1>6. ASSUME NEW new \in ExemptionPolicies, RegisterExemptions(new)
      PROVE  ReviewsRecorded'
  BY <1>1, <1>6 DEF RegisterExemptions, ReviewsRecorded, EvidenceTypeOK
<1>7. ASSUME NEW given \in Verdicts, RecordVerdict(given)
      PROVE  ReviewsRecorded'
  BY <1>7, RecordVerdictStep
<1> QED
  BY <1>2, <1>3, <1>4, <1>5, <1>6, <1>7 DEF EvidenceNext

LEMMA ReviewsRecordedInit == Init => ReviewsRecorded
<1> SUFFICES ASSUME Init
             PROVE  ReviewsRecorded
  OBVIOUS
<1>1. EvidenceTypeOK
  BY ReviewEvidenceAssumption, NoElements DEF Init, EvidenceInit, EvidenceTypeOK
<1> QED
  BY <1>1, NoElements DEF Init, EvidenceInit, ReviewsRecorded

LEMMA ReviewsAreRecorded == Spec => []ReviewsRecorded
<1>1. ReviewsRecorded /\ [Next]_vars => ReviewsRecorded'
  BY PartsMove, ReviewsRecordedStep
<1> QED
  BY <1>1, ReviewsRecordedInit, PTL DEF Spec

\* What the evidence of the approval relied on was checked for, just now.
LEMMA Reliance ==
    ASSUME NEW n \in ReliedOn
    PROVE  /\ n \in DOMAIN reviews /\ reviews[n].decision = "approved"
           /\ reviews[n].candidate = candidate /\ reviews[n].revision = revision
           /\ ValidateMutationEvidence(reviews[n])
           /\ Bindings(reviews[n]) = reviews[n].bindings
BY DEF ReliedOn, CurrentApprovals, IsCurrent, ValidateApprovedReviewEvidence

\* The exemption relied on is granted by a rule in force.
LEMMA ExemptionRelied ==
    ASSUME NEW n \in ReliedOn, reviews[n].exemption # Undeclared
    PROVE  /\ reviews[n].bindings.exemption = rules
           /\ reviews[n].exemption.approver # reviews[n].actor
           /\ \E rule \in rules :
                 /\ rule.approver = reviews[n].exemption.approver
                 /\ ~Same(rule.principal, Reviewer(reviews[n]).principal)
                 /\ ~Same(rule.session, Reviewer(reviews[n]).session)
<1> DEFINE review == reviews[n]
<1>1. /\ review.decision = "approved" /\ ExemptionHolds(review)
      /\ Bindings(review) = review.bindings
  BY Reliance DEF ValidateMutationEvidence
<1>2. Bindings(review).exemption = rules
  BY <1>1 DEF Bindings
<1>3. PICK rule \in RulesFor(review.exemption) :
         /\ ~Same(Reviewer(review).principal, rule.principal)
         /\ ~Same(Reviewer(review).session, rule.session)
  BY <1>1 DEF ExemptionHolds
<1>4. rule \in rules /\ rule.approver = review.exemption.approver
  BY <1>3 DEF RulesFor
<1> QED
  BY <1>1, <1>2, <1>3, <1>4 DEF ExemptionHolds, Same

\* Evidence is checked again whenever it is relied on, so nothing written in
\* between matters (current_approval, validate_approved_review_evidence): it is
\* the evidence the approval pinned, for the candidate and revision in force.
THEOREM RelianceStands == Spec => []ReliedEvidenceStands
<1>1. ReliedEvidenceStands
  <2> SUFFICES ASSUME NEW n \in ReliedOn
               PROVE  LET review == reviews[n] IN
                      /\ review.exemption = Undeclared => review.receiptIds # {}
                      /\ \A id \in review.receiptIds :
                            /\ review.bindings.receipts[id] = receipts[id]
                            /\ receipts[id].candidate = candidate
                            /\ receipts[id].revision = revision
                      /\ review.exemption # Undeclared =>
                            /\ review.bindings.exemption = rules
                            /\ \E rule \in rules : rule.approver = review.exemption.approver
    BY DEF ReliedEvidenceStands
  <2> DEFINE review == reviews[n]
  <2>1. review.exemption = Undeclared => review.receiptIds # {}
    BY Reliance DEF ValidateMutationEvidence
  <2>2. ASSUME NEW id \in review.receiptIds
        PROVE  /\ review.bindings.receipts[id] = receipts[id]
               /\ receipts[id].candidate = candidate
               /\ receipts[id].revision = revision
    <3>1. ReceiptHolds(id, review)
      BY <2>2, Reliance DEF ValidateMutationEvidence
    <3>2. Bindings(review).receipts[id] = receipts[id]
      BY <2>2 DEF Bindings
    <3> QED
      BY <3>1, <3>2, Reliance DEF ReceiptHolds
  <2>3. review.exemption # Undeclared =>
            /\ review.bindings.exemption = rules
            /\ \E rule \in rules : rule.approver = review.exemption.approver
    BY ExemptionRelied
  <2> QED
    BY <2>1, <2>2, <2>3
<1> QED
  BY <1>1, PTL

\* Whoever is relied on was not the author, said who it was, and was a human a
\* third party attested where the risk in force asks for one: a card revised to
\* a higher risk is not integrated on the approval it had
\* (require_typed_reviewer_contract and the checks beside it in domain/review.rs).
THEOREM JudgedIndependently == Spec => []IndependentlyJudged
<1>1. ReviewsRecorded => HighRiskSeenByHuman
  BY Reliance DEF ReviewsRecorded, Recorded, HighRiskSeenByHuman
<1>2. ReviewsRecorded => NobodyBlessesOwnWork
  <2> SUFFICES ASSUME ReviewsRecorded, NEW n \in ReliedOn
               PROVE  LET review == reviews[n] IN
                      /\ Undeclared \notin {Reviewer(review).principal, Reviewer(review).session}
                      /\ ~SameBoundary(Reviewer(review), ImplementerBoundary)
                      /\ review.exemption # Undeclared =>
                            /\ review.exemption.approver # review.actor
                            /\ \E rule \in review.bindings.exemption :
                                  /\ rule.approver = review.exemption.approver
                                  /\ ~Same(rule.principal, Reviewer(review).principal)
                                  /\ ~Same(rule.session, Reviewer(review).session)
    BY DEF NobodyBlessesOwnWork
  <2>1. Recorded(reviews[n]) /\ reviews[n].decision = "approved"
    BY Reliance DEF ReviewsRecorded
  <2> QED
    BY <2>1, ExemptionRelied DEF Recorded
<1>3. ReviewsRecorded => IndependentlyJudged
  BY <1>1, <1>2 DEF IndependentlyJudged, ReviewsRecorded
<1> QED
  BY <1>3, ReviewsAreRecorded, PTL

-----------------------------------------------------------------------------
(***************************************************************************)
(* Receipts.                                                               *)
(***************************************************************************)

\* A run answers the one before it, and nothing else; only the first may be
\* from before provenance was recorded.
FollowsItsPrior(n) ==
    /\ runs[n].attempt \in Nat
    /\ runs[n].captured = "none" => n = 1
    /\ runs[n].lineage \subseteq
          {[prior |-> n - 1, kind |-> kind] : kind \in {"invalidates", "supersedes"}}
    /\ n > 1 => runs[n - 1].captured = "none" \/ runs[n].lineage # {}

RunsFollow ==
    /\ IsSequence(runs)
    /\ ReuseTypeOK
    /\ \A n \in DOMAIN runs : FollowsItsPrior(n)

LEMMA RunsFollowInit == Init => RunsFollow
<1> SUFFICES ASSUME Init
             PROVE  RunsFollow
  OBVIOUS
<1> USE ReceiptReuseAssumption
<1>1. CASE runs = <<>>
  BY <1>1, NoElements DEF RunsFollow, ReuseTypeOK
<1>2. ASSUME NEW context \in Contexts,
             runs = <<[context |-> context, captured |-> "none", passed |-> TRUE,
                       clean |-> TRUE, attempt |-> 1, lineage |-> {}]>>
      PROVE  RunsFollow
  <2>1. /\ Len(runs) = 1 /\ DOMAIN runs = 1 .. 1
        /\ runs[1].context = context /\ runs[1].captured = "none"
        /\ runs[1].attempt = 1 /\ runs[1].lineage = {}
    BY <1>2
  <2>2. IsSequence(runs)
    <3>1. runs \in Seq({runs[1]})
      BY <1>2
    <3> QED
      BY <3>1, SequenceOf
  <2>3. ReuseTypeOK
    BY <2>1 DEF ReuseTypeOK
  <2>4. \A n \in DOMAIN runs : FollowsItsPrior(n)
    BY <2>1 DEF FollowsItsPrior
  <2> QED
    BY <2>2, <2>3, <2>4 DEF RunsFollow
<1> QED
  BY <1>1, <1>2 DEF Init, ReuseInit

LEMMA AttemptIsNumber ==
    ASSUME RunsFollow, NEW context
    PROVE  AttemptNumber(context) \in Nat
<1> DEFINE same == {n \in DOMAIN runs :
                      ~Differs(runs[n].context, context, {"card", "candidate", "gate"})}
<1>1. IsFiniteSet(DOMAIN runs)
  BY SequenceDomain, FS_Interval DEF RunsFollow
<1>2. IsFiniteSet(same)
  BY <1>1, FS_Subset
<1>3. Cardinality(same) \in Nat
  BY <1>2, FS_CardinalityType
<1> QED
  BY <1>3 DEF AttemptNumber

LEMMA LineageOfNext ==
    ASSUME RunsFollow, NEW context
    PROVE  /\ Lineage(context) \subseteq
                 {[prior |-> Len(runs), kind |-> kind] : kind \in {"invalidates", "supersedes"}}
           /\ Len(runs) > 0 /\ runs[Len(runs)].captured # "none" => Lineage(context) # {}
<1>1. Len(runs) > 0 => runs # <<>>
  BY NoElements
<1> QED
  BY <1>1 DEF Lineage

LEMMA RunGateStep ==
    ASSUME RunsFollow, NEW context \in Contexts, NEW captured \in Captures,
           NEW passed \in BOOLEAN, NEW clean \in BOOLEAN,
           RunGate(context, captured, passed, clean)
    PROVE  RunsFollow'
<1> DEFINE receipt == Receipt(context, captured, passed, clean)
           last == Len(runs)
<1>1. runs' = Append(runs, receipt) /\ last < MaxRuns
  BY DEF RunGate
<1>2. /\ receipt.context = context /\ receipt.captured = captured
      /\ receipt.attempt = AttemptNumber(context) /\ receipt.lineage = Lineage(context)
  BY DEF Receipt
<1> HIDE DEF receipt
<1>3. last \in Nat /\ DOMAIN runs = 1 .. last
  BY SequenceDomain DEF RunsFollow
<1>4. /\ IsSequence(runs') /\ Len(runs') = last + 1
      /\ DOMAIN runs' = 1 .. last + 1
      /\ \A n \in 1 .. last : runs'[n] = runs[n]
      /\ runs'[last + 1] = receipt
  BY <1>1, Appending DEF RunsFollow
<1>5. captured # "none"
  BY ReceiptReuseAssumption
<1>6. ReuseTypeOK'
  <2>1. ASSUME NEW n \in 1 .. last + 1
        PROVE  /\ runs'[n].context \in Contexts
               /\ runs'[n].captured \in Captures \cup {"none"}
               /\ \A fact \in runs'[n].lineage : fact.prior \in 1 .. n - 1
    <3>1. CASE n \in 1 .. last
      BY <1>3, <1>4, <3>1 DEF RunsFollow, ReuseTypeOK
    <3>2. CASE n = last + 1
      <4>1. ASSUME NEW fact \in Lineage(context)
            PROVE  fact.prior \in 1 .. last
        <5>1. fact.prior = last
          BY LineageOfNext
        <5>2. last # 0
          <6>1. runs # <<>>
            BY DEF Lineage
          <6>2. last = 0 => runs = <<>>
            BY <1>3, EmptySeq DEF RunsFollow, IsSequence
          <6> QED
            BY <6>1, <6>2
        <5> QED
          BY <1>3, <5>1, <5>2
      <4> QED
        BY <1>2, <1>3, <1>4, <3>2, <4>1
    <3> QED
      BY <1>3, <3>1, <3>2
  <2> QED
    BY <1>1, <1>3, <1>4, <2>1, ReceiptReuseAssumption DEF ReuseTypeOK
<1>7. (\A n \in DOMAIN runs : FollowsItsPrior(n))'
  <2>1. ASSUME NEW n \in 1 .. last + 1
        PROVE  FollowsItsPrior(n)'
    <3>1. CASE n \in 1 .. last
      <4>1. runs'[n] = runs[n] /\ (n > 1 => runs'[n - 1] = runs[n - 1])
        BY <1>3, <1>4, <3>1
      <4> QED
        BY <1>3, <3>1, <4>1 DEF RunsFollow, FollowsItsPrior
    <3>2. CASE n = last + 1
      <4>1. n > 1 => runs'[n - 1] = runs[last]
        BY <1>3, <1>4, <3>2
      <4> QED
        BY <1>2, <1>3, <1>4, <1>5, <3>2, <4>1, AttemptIsNumber, LineageOfNext
        DEF FollowsItsPrior
    <3> QED
      BY <1>3, <3>1, <3>2
  <2> QED
    BY <1>4, <2>1
<1> QED
  BY <1>4, <1>6, <1>7 DEF RunsFollow

LEMMA RunsAlwaysFollow == Spec => []RunsFollow
<1>1. RunsFollow /\ [ReuseNext]_runs => RunsFollow'
  <2>1. RunsFollow /\ runs' = runs => RunsFollow'
    BY DEF RunsFollow, ReuseTypeOK, FollowsItsPrior
  <2>2. RunsFollow /\ ReuseNext => RunsFollow'
    BY RunGateStep DEF ReuseNext
  <2> QED
    BY <2>1, <2>2
<1>2. RunsFollow /\ [Next]_vars => RunsFollow'
  BY <1>1, PartsMove
<1> QED
  BY <1>2, RunsFollowInit, PTL DEF Spec

\* The comparison finds every difference.
LEMMA ComparesAll ==
    ASSUME NEW expected \in Contexts, NEW actual \in Contexts
    PROVE  CompareProvenance(expected, actual) = {} <=> actual = expected
<1> DEFINE order == <<"candidate", "base", "lease", "card", "gate", "policy", "proof",
                      "environment">>
           differing == {n \in DOMAIN order : Differs(expected, actual, {order[n]})}
           first == {n \in differing : \A other \in differing : n <= other}
<1>1. DOMAIN order = 1 .. 8
  OBVIOUS
<1>2. /\ order[1] = "candidate" /\ order[2] = "base" /\ order[3] = "lease"
      /\ order[4] = "card" /\ order[5] = "gate" /\ order[6] = "policy"
      /\ order[7] = "proof" /\ order[8] = "environment"
  OBVIOUS
<1>3. CompareProvenance(expected, actual) = {order[n] : n \in first}
  BY DEF CompareProvenance
<1> HIDE DEF order
<1>4. differing = {n \in 1 .. 8 : expected[order[n]] # actual[order[n]]}
  BY <1>1 DEF Differs
<1>5. differing = {} => \A part \in StateParts : actual[part] = expected[part]
  <2>1. \A part \in StateParts : \E n \in 1 .. 8 : order[n] = part
    <3>1. /\ 1 \in 1 .. 8 /\ 2 \in 1 .. 8 /\ 3 \in 1 .. 8 /\ 4 \in 1 .. 8
          /\ 5 \in 1 .. 8 /\ 6 \in 1 .. 8 /\ 7 \in 1 .. 8 /\ 8 \in 1 .. 8
      OBVIOUS
    <3> QED
      BY <1>2, <3>1, Zenon DEF StateParts
  <2>2. differing = {} => \A n \in 1 .. 8 : expected[order[n]] = actual[order[n]]
    BY <1>4
  <2> QED
    BY <2>1, <2>2
<1>6. differing = {} => actual = expected
  <2>1. /\ actual = [part \in StateParts |-> actual[part]]
        /\ expected = [part \in StateParts |-> expected[part]]
    BY ReceiptReuseAssumption
  <2> QED
    BY <1>5, <2>1
<1>7. actual = expected => differing = {}
  BY <1>4
<1>8. differing # {} => first # {}
  <2>1. differing \in SUBSET Nat
    BY <1>4
  <2> HIDE DEF differing
  <2> QED
    BY <2>1, Least
<1>9. first \subseteq differing
  OBVIOUS
<1> HIDE DEF differing, first
<1> QED
  BY <1>3, <1>6, <1>7, <1>8, <1>9

\* Every run that a later one followed is answered for: by what the later run
\* says of it, or by having no provenance to compare.
LEMMA FollowedIsAnswered ==
    ASSUME RunsFollow, NEW n \in DOMAIN runs, n # Len(runs)
    PROVE  \/ LineageUnreadable(ReceiptsFor, n)
           \/ HasLineageRelation(ReceiptsFor, n, "invalidates")
           \/ HasLineageRelation(ReceiptsFor, n, "supersedes")
           \/ ~ReuseMaterial(n)
<1>1. Len(runs) \in Nat /\ DOMAIN runs = 1 .. Len(runs)
  BY SequenceDomain DEF RunsFollow
<1>2. n \in Nat /\ n + 1 \in DOMAIN runs /\ n + 1 > 1 /\ (n + 1) - 1 = n
  BY <1>1
<1>3. FollowsItsPrior(n + 1)
  BY <1>2 DEF RunsFollow
<1>4. CASE runs[n].captured = "none"
  BY <1>4 DEF ReuseMaterial
<1>5. CASE runs[n].captured # "none"
  <2>1. PICK fact \in runs[n + 1].lineage :
           \E kind \in {"invalidates", "supersedes"} : fact = [prior |-> n, kind |-> kind]
    BY <1>2, <1>3, <1>5 DEF FollowsItsPrior
  <2> QED
    BY <1>2, <2>1 DEF HasLineageRelation, ReceiptsFor
<1> QED
  BY <1>4, <1>5

\* Nothing speaks of the last run.
LEMMA LastIsUnanswered ==
    ASSUME RunsFollow, NEW later \in DOMAIN runs, NEW fact \in runs[later].lineage
    PROVE  fact.prior # Len(runs)
<1>1. Len(runs) \in Nat /\ DOMAIN runs = 1 .. Len(runs)
  BY SequenceDomain DEF RunsFollow
<1>2. fact.prior = later - 1
  BY DEF RunsFollow, FollowsItsPrior
<1> QED
  BY <1>1, <1>2

\* A fact is one of two kinds.
LEMMA FactKinds ==
    ASSUME RunsFollow, NEW later \in DOMAIN runs, NEW fact \in runs[later].lineage
    PROVE  \E kind \in {"invalidates", "supersedes"} : fact = [prior |-> fact.prior, kind |-> kind]
BY DEF RunsFollow, FollowsItsPrior

\* `compatible` finds nothing against exactly the latest run, when it answers and
\* the plan is for this card and this gate.
LEMMA RefusalIsExact ==
    ASSUME RunsFollow, NEW plan \in Contexts, NEW expected \in Contexts, NEW n \in DOMAIN runs
    PROVE  Refusal(plan, expected, n) = {}
           <=> n = Len(runs) /\ Exact(n, expected) /\ ~Differs(plan, expected, {"card", "gate"})
<1>1. /\ runs[n].context \in Contexts /\ runs[n].attempt \in Nat
  BY DEF RunsFollow, ReuseTypeOK, FollowsItsPrior
<1>2. CompareProvenance(expected, runs[n].context) = {} <=> runs[n].context = expected
  BY <1>1, ComparesAll
<1>3. ASSUME n = Len(runs)
      PROVE  /\ ~LineageUnreadable(ReceiptsFor, n)
             /\ ~HasLineageRelation(ReceiptsFor, n, "invalidates")
             /\ ~HasLineageRelation(ReceiptsFor, n, "supersedes")
  BY <1>3, LastIsUnanswered DEF LineageUnreadable, HasLineageRelation, ReceiptsFor
<1>4. runs[n].attempt > MaxAttempts <=> ~(runs[n].attempt <= MaxAttempts)
  BY <1>1, ReceiptReuseAssumption
<1>5. Differs(plan, expected, {"card", "gate"})
      <=> plan.card # expected.card \/ plan.gate # expected.gate
  BY DEF Differs
<1>6. runs[n].context = expected =>
         /\ runs[n].context.card = expected.card /\ runs[n].context.gate = expected.gate
         /\ runs[n].context.candidate = expected.candidate
  OBVIOUS
<1> HIDE DEF Differs
<1> QED
  BY <1>2, <1>3, <1>4, <1>5, <1>6, FollowedIsAnswered DEF Refusal, Exact, ReuseMaterial

\* `compatible_integration` likewise, of what the verification names.
LEMMA IntegrationRefusalIsExact ==
    ASSUME RunsFollow, NEW expected \in Contexts, NEW inventory \in SUBSET DOMAIN runs,
           NEW n \in inventory
    PROVE  IntegrationRefusal(inventory, expected, n) = {}
           <=> /\ Exact(n, expected)
               /\ ~\E later \in inventory : \E fact \in runs[later].lineage : fact.prior = n
<1>1. /\ runs[n].context \in Contexts /\ runs[n].attempt \in Nat
  BY DEF RunsFollow, ReuseTypeOK, FollowsItsPrior
<1>2. CompareProvenance(expected, runs[n].context) = {} <=> runs[n].context = expected
  BY <1>1, ComparesAll
<1> DEFINE followed == \E later \in inventory :
                          \E fact \in runs[later].lineage : fact.prior = n
<1>3. followed <=> \/ LineageUnreadable(inventory, n)
                   \/ HasLineageRelation(inventory, n, "invalidates")
                   \/ HasLineageRelation(inventory, n, "supersedes")
  BY FactKinds DEF LineageUnreadable, HasLineageRelation
<1>4. runs[n].attempt > MaxAttempts <=> ~(runs[n].attempt <= MaxAttempts)
  BY <1>1, ReceiptReuseAssumption
<1> HIDE DEF followed
<1>5. IntegrationRefusal(inventory, expected, n) = {} <=> Exact(n, expected) /\ ~followed
  BY <1>2, <1>3, <1>4 DEF IntegrationRefusal, Exact, ReuseMaterial
<1> QED
  BY <1>5 DEF followed

\* The decision takes a receipt just when there is a compatible one.
LEMMA DecisionFollows ==
    ASSUME NEW refusal, DOMAIN refusal \subseteq Nat \ {0}
    PROVE  /\ IF Compatible(refusal) = {} THEN Decision(refusal).reuse = 0
              ELSE Decision(refusal).reuse \in Compatible(refusal)
           /\ Decision(refusal).reasons = {} <=> Compatible(refusal) # {}
           /\ \A n : Compatible(refusal) = {n} => Decision(refusal).reuse = n
<1>1. CASE Compatible(refusal) = {}
  <2>1. /\ Decision(refusal).reuse = 0
        /\ Decision(refusal).reasons = IF DOMAIN refusal = {} THEN {"missing"}
                                       ELSE UNION {refusal[n] : n \in DOMAIN refusal}
    BY <1>1 DEF Decision, Rerun
  <2>2. \A n \in DOMAIN refusal : refusal[n] # {}
    BY <1>1 DEF Compatible
  <2>3. DOMAIN refusal # {} => UNION {refusal[n] : n \in DOMAIN refusal} # {}
    <3>1. SUFFICES ASSUME NEW n \in DOMAIN refusal
                   PROVE  UNION {refusal[k] : k \in DOMAIN refusal} # {}
      OBVIOUS
    <3>2. PICK reason \in refusal[n] : TRUE
      BY <2>2
    <3> QED
      BY <3>2
  <2> QED
    BY <1>1, <2>1, <2>3
<1>2. CASE Compatible(refusal) # {}
  <2>1. Compatible(refusal) \in SUBSET Nat
    BY DEF Compatible
  <2>2. PICK n \in Compatible(refusal) : \A other \in Compatible(refusal) : n <= other
    BY <1>2, <2>1, Least
  <2>3. /\ Decision(refusal).reuse = CHOOSE k \in Compatible(refusal) :
                                        \A other \in Compatible(refusal) : k <= other
        /\ Decision(refusal).reasons = {}
    BY <1>2 DEF Decision
  <2>4. Decision(refusal).reuse \in Compatible(refusal)
    BY <2>2, <2>3
  <2> QED
    BY <1>2, <2>3, <2>4
<1> QED
  BY <1>1, <1>2

LEMMA LatestAnswers == RunsFollow => LatestRunAnswers
<1> SUFFICES ASSUME RunsFollow, NEW plan \in Contexts, NEW expected \in Contexts,
                    NEW planned \in BOOLEAN
             PROVE  LET last == Len(runs)
                        decision == Evaluate(plan, planned, expected)
                        exact == /\ last > 0
                                 /\ Exact(last, expected)
                                 /\ planned
                                 /\ ~Differs(plan, expected,
                                             {"base", "card", "policy", "proof", "gate"})
                    IN  /\ decision.reuse = IF exact THEN last ELSE 0
                        /\ (decision.reasons = {}) <=> exact
  BY DEF LatestRunAnswers
<1> DEFINE refusal == [n \in ReceiptsFor |-> Refusal(plan, expected, n)]
           last == Len(runs)
           taken == planned /\ RequestMatchesPlan(plan, expected)
           answers == last > 0 /\ Exact(last, expected) /\ ~Differs(plan, expected, {"card", "gate"})
           exact == /\ last > 0
                    /\ Exact(last, expected)
                    /\ planned
                    /\ ~Differs(plan, expected, {"base", "card", "policy", "proof", "gate"})
<1>1. last \in Nat /\ DOMAIN runs = 1 .. last
  BY SequenceDomain DEF RunsFollow
<1>2. Compatible(refusal) = {n \in DOMAIN runs : /\ n = last /\ Exact(n, expected)
                                                 /\ ~Differs(plan, expected, {"card", "gate"})}
  BY RefusalIsExact DEF Compatible, ReceiptsFor
<1>3. Compatible(refusal) = IF answers THEN {last} ELSE {}
  <2>1. last \in DOMAIN runs <=> last > 0
    BY <1>1
  <2> HIDE DEF refusal, last
  <2> QED
    BY <1>2, <2>1
<1>4. DOMAIN refusal \subseteq Nat \ {0}
  BY <1>1 DEF ReceiptsFor
<1>5. Evaluate(plan, planned, expected) = IF taken THEN Decision(refusal) ELSE Rerun({"stale"})
  BY DEF Evaluate
<1>6. exact <=> taken /\ answers
  BY DEF RequestMatchesPlan, Differs
<1> HIDE DEF refusal, exact, taken, answers
<1>7. /\ Decision(refusal).reuse = IF answers THEN last ELSE 0
      /\ (Decision(refusal).reasons = {}) <=> answers
  BY <1>3, <1>4, DecisionFollows
<1>8. Rerun({"stale"}).reuse = 0 /\ Rerun({"stale"}).reasons # {}
  BY DEF Rerun
<1>9. /\ Evaluate(plan, planned, expected).reuse = IF exact THEN last ELSE 0
      /\ (Evaluate(plan, planned, expected).reasons = {}) <=> exact
  BY <1>5, <1>6, <1>7, <1>8
<1> QED
  BY <1>9 DEF exact

LEMMA InventoriesAnswer == RunsFollow => InventoryAnswers
<1> SUFFICES ASSUME RunsFollow, NEW now \in Contexts,
                    NEW inventory \in ReceiptsForIntegrationVerification(now)
             PROVE  LET decision == EvaluateIntegration(now, inventory, now, now)
                        exact == {n \in inventory :
                                    Exact(n, now) /\ ~\E later \in inventory :
                                        \E fact \in runs[later].lineage : fact.prior = n}
                    IN  /\ decision.reuse \in exact \cup {0}
                        /\ decision.reuse = 0 <=> exact = {}
                        /\ \A asked, expected \in Contexts :
                              Differs(now, expected,
                                      {"candidate", "base", "card", "gate", "policy"})
                              => EvaluateIntegration(now, inventory, asked, expected).reuse = 0
  BY DEF InventoryAnswers
<1> DEFINE refusal == [n \in inventory |-> IntegrationRefusal(inventory, now, n)]
           exact == {n \in inventory :
                        Exact(n, now) /\ ~\E later \in inventory :
                            \E fact \in runs[later].lineage : fact.prior = n}
<1>1. inventory \in SUBSET DOMAIN runs
  BY DEF ReceiptsForIntegrationVerification
<1>2. inventory \subseteq Nat \ {0}
  <2>1. Len(runs) \in Nat /\ DOMAIN runs = 1 .. Len(runs)
    BY SequenceDomain DEF RunsFollow
  <2> QED
    BY <1>1, <2>1
<1>3. Compatible(refusal) = exact
  BY <1>1, IntegrationRefusalIsExact DEF Compatible
<1>4. EvaluateIntegration(now, inventory, now, now) = Decision(refusal)
  BY DEF EvaluateIntegration, CurrentRequest, IntegrationRequestMatchesContext, Differs
<1>5. DOMAIN refusal \subseteq Nat \ {0}
  BY <1>2
<1>6. exact \subseteq Nat \ {0}
  BY <1>2
<1>7. /\ Decision(refusal).reuse \in exact \cup {0}
      /\ Decision(refusal).reuse = 0 <=> exact = {}
  <2> HIDE DEF refusal, exact
  <2> QED
    BY <1>3, <1>5, <1>6, DecisionFollows
<1>8. ASSUME NEW asked \in Contexts, NEW expected \in Contexts,
             Differs(now, expected, {"candidate", "base", "card", "gate", "policy"})
      PROVE  EvaluateIntegration(now, inventory, asked, expected).reuse = 0
  BY <1>8 DEF EvaluateIntegration, CurrentRequest, IntegrationRequestMatchesContext, Differs,
     NoDecision, Rerun
<1> QED
  BY <1>4, <1>7, <1>8

\* A card's receipt is reused exactly when the request is about a check of a plan
\* made for the state it expects, and the receipt is the latest run of its gate and
\* ran in that very state; an integration's when no run its verification names
\* followed it: lineage leaves no earlier run standing
\* (policy/receipt_compatibility.rs). Whether the plan is for the card as it is
\* now nobody asks (gate.rs:3878-3904).
THEOREM ReusedExactly == Spec => []ReuseIsExact
<1>1. RunsFollow => ReuseIsExact
  BY LatestAnswers, InventoriesAnswer DEF ReuseIsExact, RunsFollow
<1> QED
  BY <1>1, RunsAlwaysFollow, PTL

-----------------------------------------------------------------------------
(***************************************************************************)
(* Lessons.                                                                *)
(***************************************************************************)

\* A lesson is proposed, then active, then retired, and nothing is taken back.
InOrder(past) ==
    /\ IsSequence(past) /\ Len(past) <= 3
    /\ \A n \in DOMAIN past : past[n] = <<"proposed", "active", "retired">>[n]

\* What a revision of the card froze is what applied when it was written, as the
\* registry still tells it.
FreezesWhatApplied(n) ==
    LET asOf == frozen[n].asOf IN
    /\ \A lesson \in Lessons : asOf[lesson] \in 0 .. Len(history[lesson])
    /\ frozen[n].lessons =
          {<<lesson, asOf[lesson]>> :
              lesson \in {lesson \in Lessons :
                  /\ asOf[lesson] > 0
                  /\ history[lesson][asOf[lesson]] = "active"
                  /\ MatchesCard(shape[n], lesson)}}

\* Every check has its answer, and no required lesson one that is unmet.
Answers(manifest, checks) ==
    \A entry \in manifest :
        entry[1].enforcement # "informational" =>
            \A check \in entry[1].checks :
                /\ <<entry[1], check>> \in DOMAIN checks
                /\ entry[1].enforcement = "required" =>
                      checks[<<entry[1], check>>] # "not_satisfied"

RegistryInOrder ==
    /\ DOMAIN history = Lessons
    /\ \A lesson \in Lessons : InOrder(history[lesson])
    /\ authorization \in Authorizations

RevisionsFrozen ==
    /\ IsSequence(shape) /\ IsSequence(frozen)
    /\ Len(frozen) = Len(shape) /\ Len(shape) <= MaxCardRevision
    /\ \A n \in DOMAIN frozen : FreezesWhatApplied(n)

PacketIsFrozen ==
    packet # Unfrozen =>
        /\ packet.revision \in DOMAIN frozen
        /\ packet.manifest = frozen[packet.revision].lessons

VerdictAnswers ==
    verdict # Unfrozen =>
        /\ packet # Unfrozen
        /\ verdict.manifest = packet.manifest
        /\ Answers(verdict.manifest, verdict.checks)

EvidenceAnswers ==
    evidence # Unfrozen =>
        /\ evidence = [revision |-> evidence.revision, manifest |-> evidence.manifest,
                       used |-> evidence.used, checks |-> evidence.checks,
                       gates |-> evidence.gates]
        /\ evidence.revision \in DOMAIN frozen
        /\ evidence.manifest = frozen[evidence.revision].lessons
        /\ Answers(evidence.manifest, evidence.checks)
        /\ evidence.gates = RequiredGates(evidence.manifest)

LessonsCarried ==
    RegistryInOrder /\ RevisionsFrozen /\ PacketIsFrozen /\ VerdictAnswers /\ EvidenceAnswers

LEMMA LessonsCarriedInit == Init => LessonsCarried
<1> SUFFICES ASSUME LessonsInit
             PROVE  LessonsCarried
  BY DEF Init
<1>1. RegistryInOrder
  BY NoElements DEF LessonsInit, RegistryInOrder, InOrder
<1>2. RevisionsFrozen
  BY NoElements, LessonsAssumption DEF LessonsInit, RevisionsFrozen
<1>3. PacketIsFrozen /\ VerdictAnswers /\ EvidenceAnswers
  BY DEF LessonsInit, PacketIsFrozen, VerdictAnswers, EvidenceAnswers
<1> QED
  BY <1>1, <1>2, <1>3 DEF LessonsCarried

\* The registry only grows, so what was frozen of it stays told.
LEMMA RegistryGrows ==
    ASSUME LessonsCarried, RegistryInOrder',
           UNCHANGED <<shape, frozen, packet, verdict, evidence>>,
           \A lesson \in Lessons :
               /\ Len(history[lesson]) <= Len(history'[lesson])
               /\ \A n \in DOMAIN history[lesson] : history'[lesson][n] = history[lesson][n]
    PROVE  LessonsCarried'
<1>1. ASSUME NEW lesson \in Lessons
      PROVE  /\ Len(history[lesson]) \in Nat /\ Len(history'[lesson]) \in Nat
             /\ DOMAIN history[lesson] = 1 .. Len(history[lesson])
  BY SequenceDomain DEF LessonsCarried, RegistryInOrder, InOrder
<1>2. ASSUME NEW n \in DOMAIN frozen
      PROVE  FreezesWhatApplied(n)'
  <2> DEFINE asOf == frozen[n].asOf
  <2>1. FreezesWhatApplied(n)
    BY DEF LessonsCarried, RevisionsFrozen
  <2>2. \A lesson \in Lessons :
           /\ asOf[lesson] \in 0 .. Len(history[lesson])
           /\ asOf[lesson] \in 0 .. Len(history'[lesson])
           /\ asOf[lesson] > 0 => history'[lesson][asOf[lesson]] = history[lesson][asOf[lesson]]
    BY <1>1, <2>1 DEF FreezesWhatApplied
  <2>3. frozen[n].lessons =
          {<<lesson, asOf[lesson]>> :
              lesson \in {lesson \in Lessons :
                  /\ asOf[lesson] > 0
                  /\ history'[lesson][asOf[lesson]] = "active"
                  /\ MatchesCard(shape[n], lesson)}}
    BY <2>1, <2>2 DEF FreezesWhatApplied
  <2> QED
    BY <2>2, <2>3 DEF FreezesWhatApplied
<1>3. RevisionsFrozen'
  BY <1>2 DEF LessonsCarried, RevisionsFrozen
<1> QED
  BY <1>3 DEF LessonsCarried, PacketIsFrozen, VerdictAnswers, EvidenceAnswers

LEMMA ProposeStep ==
    ASSUME LessonsCarried, NEW lesson \in Lessons, Propose(lesson)
    PROVE  LessonsCarried'
<1>1. /\ history' = [history EXCEPT ![lesson] = <<"proposed">>]
      /\ UNCHANGED <<authorization, shape, frozen, packet, verdict, evidence>>
      /\ history[lesson] = <<>>
  BY DEF Propose, IsRegistered
<1>2. InOrder(<<"proposed">>) /\ Len(<<"proposed">>) = 1
  <2>1. <<"proposed">> \in Seq({"proposed"}) /\ Len(<<"proposed">>) = 1
        /\ <<"proposed">>[1] = "proposed" /\ DOMAIN <<"proposed">> = 1 .. 1
    OBVIOUS
  <2>2. IsSequence(<<"proposed">>)
    BY <2>1, SequenceOf
  <2>3. \A n \in 1 .. 1 : n = 1
    OBVIOUS
  <2>4. <<"proposed", "active", "retired">>[1] = "proposed"
    OBVIOUS
  <2> QED
    BY <2>1, <2>2, <2>3, <2>4 DEF InOrder
<1>3. RegistryInOrder'
  BY <1>1, <1>2 DEF LessonsCarried, RegistryInOrder
<1>4. \A other \in Lessons :
         /\ Len(history[other]) <= Len(history'[other])
         /\ \A n \in DOMAIN history[other] : history'[other][n] = history[other][n]
  <2> TAKE other \in Lessons
  <2>1. CASE other = lesson
    BY <1>1, <1>2, <2>1, NoElements DEF LessonsCarried, RegistryInOrder
  <2>2. CASE other # lesson
    BY <1>1, <2>2, SequenceDomain DEF LessonsCarried, RegistryInOrder, InOrder
  <2> QED
    BY <2>1, <2>2
<1> QED
  BY <1>1, <1>3, <1>4, RegistryGrows

LEMMA SetStateStep ==
    ASSUME LessonsCarried, NEW lesson \in Lessons, NEW next \in {"active", "retired"},
           NEW actor \in Actors, SetState(lesson, next, actor)
    PROVE  LessonsCarried'
<1> DEFINE past == history[lesson]
           now == Append(past, next)
<1>1. /\ history' = [history EXCEPT ![lesson] = now]
      /\ UNCHANGED <<authorization, shape, frozen, packet, verdict, evidence>>
      /\ past # <<>>
      /\ <<past[Len(past)], next>> \in {<<"proposed", "active">>, <<"active", "retired">>}
  BY DEF SetState, IsRegistered, RequireLessonTransition, Last
<1>2. InOrder(past)
  BY DEF LessonsCarried, RegistryInOrder
<1> HIDE DEF past
<1>3. Len(past) \in Nat /\ DOMAIN past = 1 .. Len(past) /\ Len(past) > 0
  <2>1. Len(past) \in Nat /\ DOMAIN past = 1 .. Len(past)
    BY <1>2, SequenceDomain DEF InOrder
  <2>2. Len(past) # 0
    BY <1>1, <1>2, EmptySeq DEF InOrder, IsSequence
  <2> QED
    BY <2>1, <2>2
<1>4. /\ IsSequence(now) /\ Len(now) = Len(past) + 1 /\ DOMAIN now = 1 .. Len(past) + 1
      /\ \A n \in 1 .. Len(past) : now[n] = past[n]
      /\ now[Len(past) + 1] = next
  BY <1>2, Appending DEF InOrder
<1> HIDE DEF now
<1>5. Len(past) \in 1 .. 2 /\ next = <<"proposed", "active", "retired">>[Len(past) + 1]
  <2>1. Len(past) \in 1 .. 3 /\ past[Len(past)] = <<"proposed", "active", "retired">>[Len(past)]
    BY <1>2, <1>3 DEF InOrder
  <2> QED
    BY <1>1, <2>1
<1>6. InOrder(now)
  BY <1>2, <1>3, <1>4, <1>5 DEF InOrder
<1>7. RegistryInOrder'
  BY <1>1, <1>6 DEF LessonsCarried, RegistryInOrder
<1>8. \A other \in Lessons :
         /\ Len(history[other]) <= Len(history'[other])
         /\ \A n \in DOMAIN history[other] : history'[other][n] = history[other][n]
  <2> TAKE other \in Lessons
  <2>1. CASE other = lesson
    BY <1>1, <1>3, <1>4, <2>1 DEF LessonsCarried, RegistryInOrder, past
  <2>2. CASE other # lesson
    BY <1>1, <2>2, SequenceDomain DEF LessonsCarried, RegistryInOrder, InOrder
  <2> QED
    BY <2>1, <2>2
<1> QED
  BY <1>1, <1>7, <1>8, RegistryGrows

LEMMA WriteRevisionStep ==
    ASSUME LessonsCarried, NEW card \in Shapes, WriteRevision(card)
    PROVE  LessonsCarried'
<1> DEFINE asOf == [lesson \in Lessons |-> Len(history[lesson])]
           record == [lessons |-> BuildManifest(card), asOf |-> asOf]
           last == Len(shape)
<1>1. /\ shape' = Append(shape, card) /\ frozen' = Append(frozen, record)
      /\ last < MaxCardRevision
      /\ UNCHANGED <<history, authorization, packet, verdict, evidence>>
  BY DEF WriteRevision, Revision
<1>2. /\ IsSequence(shape) /\ IsSequence(frozen)
      /\ last \in Nat /\ Len(frozen) = last /\ DOMAIN frozen = 1 .. last
  BY SequenceDomain DEF LessonsCarried, RevisionsFrozen
<1>3. record.lessons = BuildManifest(card) /\ record.asOf = asOf
  OBVIOUS
<1> HIDE DEF record
<1>4. /\ IsSequence(shape') /\ Len(shape') = last + 1
      /\ \A n \in 1 .. last : shape'[n] = shape[n]
      /\ shape'[last + 1] = card
  BY <1>1, <1>2, Appending
<1>5. /\ IsSequence(frozen') /\ Len(frozen') = last + 1 /\ DOMAIN frozen' = 1 .. last + 1
      /\ \A n \in 1 .. last : frozen'[n] = frozen[n]
      /\ frozen'[last + 1] = record
  BY <1>1, <1>2, Appending
<1> HIDE DEF last
<1>6. ASSUME NEW n \in 1 .. last
      PROVE  FreezesWhatApplied(n)'
  <2>1. FreezesWhatApplied(n) /\ shape'[n] = shape[n] /\ frozen'[n] = frozen[n]
    BY <1>2, <1>4, <1>5 DEF LessonsCarried, RevisionsFrozen
  <2> QED
    BY <1>1, <2>1 DEF FreezesWhatApplied
<1>7. ASSUME NEW n, n = last + 1
      PROVE  FreezesWhatApplied(n)'
  <2>1. \A lesson \in Lessons :
           /\ asOf[lesson] = Len(history[lesson]) /\ Len(history[lesson]) \in Nat
           /\ IsRegistered(lesson) <=> Len(history[lesson]) > 0
    <3> TAKE lesson \in Lessons
    <3>1. IsSequence(history[lesson]) /\ Len(history[lesson]) \in Nat
      BY SequenceDomain DEF LessonsCarried, RegistryInOrder, InOrder
    <3> QED
      BY <3>1, EmptySeq DEF IsRegistered, IsSequence
  <2>2. BuildManifest(card) =
          {<<lesson, asOf[lesson]>> :
              lesson \in {lesson \in Lessons :
                  /\ asOf[lesson] > 0
                  /\ history[lesson][asOf[lesson]] = "active"
                  /\ MatchesCard(card, lesson)}}
    BY <2>1 DEF BuildManifest, Last
  <2> HIDE DEF asOf
  <2>3. shape'[n] = card /\ frozen'[n].lessons = BuildManifest(card)
        /\ frozen'[n].asOf = asOf /\ history' = history
    BY <1>1, <1>3, <1>4, <1>5, <1>7
  <2>4. \A lesson \in Lessons : asOf[lesson] \in 0 .. Len(history[lesson])
    BY <2>1
  <2> QED
    BY <1>7, <2>2, <2>3, <2>4 DEF FreezesWhatApplied
<1>8. RevisionsFrozen'
  <2>1. Len(shape') <= MaxCardRevision
    BY <1>1, <1>2, <1>4, LessonsAssumption DEF last
  <2>2. ASSUME NEW n \in DOMAIN frozen'
        PROVE  FreezesWhatApplied(n)'
    <3>1. n \in 1 .. last \/ n = last + 1
      BY <1>2, <1>5
    <3> QED
      BY <1>6, <1>7, <3>1
  <2>3. (\A n \in DOMAIN frozen : FreezesWhatApplied(n))'
    BY <2>2
  <2> QED
    BY <1>4, <1>5, <2>1, <2>3 DEF RevisionsFrozen
<1>9. \A n \in DOMAIN frozen : n \in DOMAIN frozen' /\ frozen'[n] = frozen[n]
  BY <1>2, <1>5
<1> QED
  BY <1>1, <1>8, <1>9
  DEF LessonsCarried, RegistryInOrder, PacketIsFrozen, VerdictAnswers, EvidenceAnswers

LEMMA HandOffPacketStep ==
    ASSUME LessonsCarried, NEW returned, NEW passed, HandOffPacket(returned, passed)
    PROVE  LessonsCarried'
<1>1. Revision \in DOMAIN frozen
  BY SequenceDomain DEF HandOffPacket, Revision, LessonsCarried, RevisionsFrozen
<1>2. /\ packet' = [revision |-> Revision, manifest |-> frozen[Revision].lessons,
                    passed |-> passed]
      /\ verdict' = Unfrozen
      /\ UNCHANGED <<history, authorization, shape, frozen, evidence>>
  BY DEF HandOffPacket, FrozenCardManifest
<1>3. PacketIsFrozen'
  BY <1>1, <1>2 DEF PacketIsFrozen
<1>4. VerdictAnswers' /\ EvidenceAnswers'
  BY <1>2 DEF LessonsCarried, VerdictAnswers, EvidenceAnswers
<1>5. RegistryInOrder' /\ RevisionsFrozen'
  BY <1>2 DEF LessonsCarried, RegistryInOrder, RevisionsFrozen, FreezesWhatApplied
<1> QED
  BY <1>3, <1>4, <1>5 DEF LessonsCarried

LEMMA RecordLessonVerdictStep ==
    ASSUME LessonsCarried, NEW decision, NEW checks, NEW actor \in Actors,
           RecordLessonVerdict(decision, checks, actor)
    PROVE  LessonsCarried'
<1>1. /\ packet # Unfrozen
      /\ verdict' = [decision |-> decision, manifest |-> packet.manifest, checks |-> checks]
      /\ UNCHANGED <<history, authorization, shape, frozen, packet, evidence>>
  BY DEF RecordLessonVerdict
<1>2. Answers(packet.manifest, checks)
  BY DEF RecordLessonVerdict, RequireLessonChecks, RequireReviewDispositions, Answers
<1>3. VerdictAnswers'
  BY <1>1, <1>2 DEF VerdictAnswers
<1>4. PacketIsFrozen' /\ EvidenceAnswers'
  BY <1>1 DEF LessonsCarried, PacketIsFrozen, EvidenceAnswers
<1>5. RegistryInOrder' /\ RevisionsFrozen'
  BY <1>1 DEF LessonsCarried, RegistryInOrder, RevisionsFrozen, FreezesWhatApplied
<1> QED
  BY <1>3, <1>4, <1>5 DEF LessonsCarried

LEMMA VerifyLessonsStep ==
    ASSUME LessonsCarried, VerifyLessons
    PROVE  LessonsCarried'
<1>1. /\ packet # Unfrozen /\ packet.revision \in DOMAIN frozen
      /\ packet.manifest = frozen[packet.revision].lessons
      /\ packet.revision = Revision
      /\ verdict.manifest = packet.manifest
      /\ Answers(packet.manifest, verdict.checks)
  BY DEF VerifyLessons, LessonsCarried, VerdictAnswers, PacketIsFrozen
<1>2. /\ evidence' = [revision |-> Revision, manifest |-> packet.manifest, used |-> FALSE,
                      checks |-> verdict.checks, gates |-> RequiredGates(packet.manifest)]
      /\ UNCHANGED <<history, authorization, shape, frozen, packet, verdict>>
  BY DEF VerifyLessons
<1>3. EvidenceAnswers'
  BY <1>1, <1>2 DEF EvidenceAnswers
<1>4. PacketIsFrozen' /\ VerdictAnswers'
  BY <1>2 DEF LessonsCarried, PacketIsFrozen, VerdictAnswers
<1>5. RegistryInOrder' /\ RevisionsFrozen'
  BY <1>2 DEF LessonsCarried, RegistryInOrder, RevisionsFrozen, FreezesWhatApplied
<1> QED
  BY <1>3, <1>4, <1>5 DEF LessonsCarried

LEMMA ValidateLessonVerificationStep ==
    ASSUME LessonsCarried, ValidateLessonVerification
    PROVE  LessonsCarried'
<1>1. /\ evidence # Unfrozen
      /\ evidence' = [evidence EXCEPT !.used = TRUE]
      /\ UNCHANGED <<history, authorization, shape, frozen, packet, verdict>>
  BY DEF ValidateLessonVerification
<1>2. evidence' = [revision |-> evidence.revision, manifest |-> evidence.manifest,
                   used |-> TRUE, checks |-> evidence.checks, gates |-> evidence.gates]
  BY <1>1 DEF LessonsCarried, EvidenceAnswers
<1>3. EvidenceAnswers'
  BY <1>1, <1>2 DEF LessonsCarried, EvidenceAnswers
<1>4. PacketIsFrozen' /\ VerdictAnswers'
  BY <1>1 DEF LessonsCarried, PacketIsFrozen, VerdictAnswers
<1>5. RegistryInOrder' /\ RevisionsFrozen'
  BY <1>1 DEF LessonsCarried, RegistryInOrder, RevisionsFrozen, FreezesWhatApplied
<1> QED
  BY <1>3, <1>4, <1>5 DEF LessonsCarried

LEMMA LessonsAlwaysCarried == Spec => []LessonsCarried
<1>1. LessonsCarried /\ UNCHANGED lessonVars => LessonsCarried'
  BY DEF LessonsCarried, lessonVars, RegistryInOrder, RevisionsFrozen, FreezesWhatApplied,
         PacketIsFrozen, VerdictAnswers, EvidenceAnswers
<1>2. LessonsCarried /\ LessonsNext => LessonsCarried'
  BY ProposeStep, SetStateStep, WriteRevisionStep, HandOffPacketStep,
     RecordLessonVerdictStep, VerifyLessonsStep, ValidateLessonVerificationStep
  DEF LessonsNext
<1>3. LessonsCarried /\ [Next]_vars => LessonsCarried'
  BY <1>1, <1>2, PartsMove
<1> QED
  BY <1>3, LessonsCarriedInit, PTL DEF Spec

LEMMA CarriedIsAnswered == LessonsCarried => LessonsAnswered
<1> SUFFICES ASSUME LessonsCarried
             PROVE  LessonsAnswered
  OBVIOUS
<1>1. \A lesson \in Lessons :
         /\ Len(history[lesson]) <= 3 /\ DOMAIN history[lesson] = 1 .. Len(history[lesson])
         /\ ToSet(history[lesson]) \subseteq Statuses
  <2> TAKE lesson \in Lessons
  <2>1. InOrder(history[lesson])
    BY DEF LessonsCarried, RegistryInOrder
  <2>2. Len(history[lesson]) \in Nat /\ DOMAIN history[lesson] = 1 .. Len(history[lesson])
    BY <2>1, SequenceDomain DEF InOrder
  <2>3. \A n \in DOMAIN history[lesson] : history[lesson][n] \in Statuses
    BY <2>1, <2>2 DEF InOrder, Statuses
  <2> QED
    BY <2>1, <2>2, <2>3 DEF InOrder, ToSet
<1>2. ASSUME NEW n \in DOMAIN frozen
      PROVE  /\ FreezesWhatApplied(n)
             /\ ValidateManifestRegistry(frozen[n].lessons)
  <2>1. FreezesWhatApplied(n)
    BY DEF LessonsCarried, RevisionsFrozen
  <2>2. ASSUME NEW entry \in frozen[n].lessons
        PROVE  entry[2] \in DOMAIN history[entry[1]]
    <3>1. PICK lesson \in Lessons : entry = <<lesson, frozen[n].asOf[lesson]>>
                                    /\ frozen[n].asOf[lesson] > 0
      BY <2>1 DEF FreezesWhatApplied
    <3> QED
      BY <1>1, <2>1, <3>1 DEF FreezesWhatApplied
  <2> QED
    BY <2>1, <2>2 DEF ValidateManifestRegistry
<1>3. LessonsTypeOK
  BY <1>1, <1>2 DEF LessonsTypeOK, LessonsCarried, RegistryInOrder, RevisionsFrozen
<1>4. ASSUME evidence # Unfrozen,
             NEW lesson \in Lessons,
             frozen[evidence.revision].asOf[lesson] > 0,
             history[lesson][frozen[evidence.revision].asOf[lesson]] = "active",
             MatchesCard(shape[evidence.revision], lesson)
      PROVE  /\ lesson.enforcement # "informational" =>
                   \A check \in lesson.checks : <<lesson, check>> \in DOMAIN evidence.checks
             /\ lesson.enforcement = "required" =>
                   /\ lesson.integration \subseteq evidence.gates
                   /\ \A check \in lesson.checks :
                         evidence.checks[<<lesson, check>>] # "not_satisfied"
  <2> DEFINE entry == <<lesson, frozen[evidence.revision].asOf[lesson]>>
  <2>1. /\ evidence.revision \in DOMAIN frozen
        /\ evidence.manifest = frozen[evidence.revision].lessons
        /\ Answers(evidence.manifest, evidence.checks)
        /\ evidence.gates = RequiredGates(evidence.manifest)
    BY <1>4 DEF LessonsCarried, EvidenceAnswers
  <2>2. entry \in evidence.manifest /\ entry[1] = lesson
    BY <1>2, <1>4, <2>1 DEF FreezesWhatApplied
  <2> HIDE DEF entry
  <2>3. lesson.enforcement # "informational" =>
           \A check \in lesson.checks :
               /\ <<lesson, check>> \in DOMAIN evidence.checks
               /\ lesson.enforcement = "required" =>
                     evidence.checks[<<lesson, check>>] # "not_satisfied"
    BY <2>1, <2>2 DEF Answers
  <2>4. lesson.enforcement = "required" => lesson.integration \subseteq evidence.gates
    <3>1. lesson.enforcement = "required" => lesson \in Required(evidence.manifest)
      BY <2>2 DEF Required
    <3> QED
      BY <2>1, <3>1 DEF RequiredGates
  <2>5. lesson.enforcement = "required" => lesson.enforcement # "informational"
    OBVIOUS
  <2> QED
    BY <2>3, <2>4, <2>5
<1> QED
  BY <1>3, <1>4 DEF LessonsAnswered

\* An integration is accepted on answers to every lesson that was active and
\* applied when its card was written, whatever became of the lesson since
\* (policy/lessons.rs, and the handoff, review and integration commands).
THEOREM LessonsAlwaysAnswered == Spec => []LessonsAnswered
BY LessonsAlwaysCarried, CarriedIsAnswered, PTL

-----------------------------------------------------------------------------
(***************************************************************************)
(* The convergence ledger. What a projection has read so far is the set of *)
(* places it has read, whatever the order, so a view is stated for a set.  *)
(***************************************************************************)

CountedIn(ledger, places, policy, of, kind) ==
    {i \in places : /\ ledger[i].what = kind
                    /\ ledger[i].subject = of
                    /\ ledger[i].policy = policy}

DisposedIn(ledger, places, policy, of, kinds, dimension) ==
    {i \in places : /\ ledger[i].what \in kinds
                    /\ ledger[i].subject = of
                    /\ ledger[i].dimension = dimension
                    /\ ledger[i].policy = policy}

Count(ledger, places, policy, of, kind) == Cardinality(CountedIn(ledger, places, policy, of, kind))

Granted(ledger, places, policy, of, dimension) ==
    Cardinality(DisposedIn(ledger, places, policy, of, {"renew"}, dimension))

Waives(ledger, places, policy, of, dimension) ==
    DisposedIn(ledger, places, policy, of, {"accept_risk", "split"}, dimension) # {}

Fits(ledger, places, policy, retired) ==
    \A i \in places : Accounted(ledger[i], policy, retired) /\ WellBound(ledger[i])

Bounded(ledger, places, policy) ==
    /\ \A of \in Subjects, kind \in AttemptKinds :
           Count(ledger, places, policy, of, kind) <= MaxU32
    /\ \A of \in Cards, dimension \in Dimensions :
           Granted(ledger, places, policy, of, dimension) <= MaxU32

Counts(ledger, places, policy) ==
    [of \in Subjects |-> [kind \in AttemptKinds |-> Count(ledger, places, policy, of, kind)]]

Grants(ledger, places, policy) ==
    [of \in Cards |-> [dimension \in Dimensions |->
        Granted(ledger, places, policy, of, dimension)]]

Waivers(ledger, places, policy) ==
    [of \in Cards |-> [dimension \in Dimensions |->
        Waives(ledger, places, policy, of, dimension)]]

Tallied(ledger, places, policy) ==
    [readable |-> TRUE, count |-> Counts(ledger, places, policy),
     renewals |-> Grants(ledger, places, policy), waived |-> Waivers(ledger, places, policy)]

ViewOf(ledger, places, policy, retired) ==
    IF Fits(ledger, places, policy, retired) /\ Bounded(ledger, places, policy)
    THEN Tallied(ledger, places, policy) ELSE Refused

LEMMA RefusedIsUnreadable == ~Refused.readable
BY DEF Refused, EmptyView

LEMMA OtherKinds ==
    ASSUME NEW fact \in Fact, fact.what # "rebaseline", ~IsAttempt(fact)
    PROVE  fact.what \in {"renew", "abandon", "accept_risk", "split", "redesign"}
BY DEF Fact, IsAttempt, DispositionKinds

\* A pass refuses what it cannot account for, whatever its kind.
LEMMA FoldRefuses ==
    ASSUME NEW policy, NEW retired, NEW view, NEW fact \in Fact, fact.what # "rebaseline",
           ~view.readable \/ ~Accounted(fact, policy, retired) \/ ~WellBound(fact)
    PROVE  FoldFact(policy, retired, view, fact) = Refused
<1>1. CASE IsAttempt(fact)
  <2>1. FoldFact(policy, retired, view, fact) = FoldAttempt(policy, retired, view, fact)
    BY <1>1 DEF FoldFact, IsAttempt, AttemptKinds
  <2> QED
    BY <2>1 DEF FoldAttempt
<1>2. CASE ~IsAttempt(fact)
  <2>1. fact.what \in {"renew", "abandon", "accept_risk", "split", "redesign"}
    BY <1>2, OtherKinds
  <2>2. CASE fact.what = "renew"
    BY <1>2, <2>2 DEF FoldFact, FoldRenewal
  <2>3. CASE fact.what = "abandon"
    BY <1>2, <2>3 DEF FoldFact, FoldAbandon
  <2>4. CASE fact.what = "accept_risk"
    BY <1>2, <2>4 DEF FoldFact, FoldAcceptedRisk
  <2>5. CASE fact.what = "split"
    BY <1>2, <2>5 DEF FoldFact, FoldSplit, FoldAcceptedRisk
  <2>6. CASE fact.what = "redesign"
    BY <1>2, <2>6 DEF FoldFact, FoldRedesign, FoldAbandon
  <2> QED
    BY <2>1, <2>2, <2>3, <2>4, <2>5, <2>6
<1> QED
  BY <1>1, <1>2

\* A fact measured by a retired policy changes nothing, nor does one that ends
\* its card.
LEMMA FoldPasses ==
    ASSUME NEW policy, NEW retired, NEW view, NEW fact \in Fact, fact.what # "rebaseline",
           view.readable, Accounted(fact, policy, retired), WellBound(fact),
           fact.policy # policy \/ fact.what \in {"abandon", "redesign"}
    PROVE  FoldFact(policy, retired, view, fact) = view
<1>1. CASE IsAttempt(fact)
  <2>1. FoldFact(policy, retired, view, fact) = FoldAttempt(policy, retired, view, fact)
    BY <1>1 DEF FoldFact, IsAttempt, AttemptKinds
  <2>2. fact.policy # policy
    BY <1>1 DEF IsAttempt, AttemptKinds
  <2> QED
    BY <2>1, <2>2 DEF FoldAttempt
<1>2. CASE ~IsAttempt(fact)
  <2>1. fact.what \in {"renew", "abandon", "accept_risk", "split", "redesign"}
    BY <1>2, OtherKinds
  <2>2. CASE fact.what = "renew"
    BY <1>2, <2>2 DEF FoldFact, FoldRenewal
  <2>3. CASE fact.what = "abandon"
    BY <1>2, <2>3 DEF FoldFact, FoldAbandon
  <2>4. CASE fact.what = "accept_risk"
    BY <1>2, <2>4 DEF FoldFact, FoldAcceptedRisk
  <2>5. CASE fact.what = "split"
    BY <1>2, <2>5 DEF FoldFact, FoldSplit, FoldAcceptedRisk
  <2>6. CASE fact.what = "redesign"
    BY <1>2, <2>6 DEF FoldFact, FoldRedesign, FoldAbandon
  <2> QED
    BY <2>1, <2>2, <2>3, <2>4, <2>5, <2>6
<1> QED
  BY <1>1, <1>2

\* One place more.
LEMMA CountOneMore ==
    ASSUME NEW ledger, NEW places, IsFiniteSet(places), NEW i, i \notin places,
           NEW policy, NEW of, NEW kind
    PROVE  /\ Count(ledger, places, policy, of, kind) \in Nat
           /\ Count(ledger, places \cup {i}, policy, of, kind)
                = IF /\ ledger[i].what = kind
                     /\ ledger[i].subject = of
                     /\ ledger[i].policy = policy
                  THEN Count(ledger, places, policy, of, kind) + 1
                  ELSE Count(ledger, places, policy, of, kind)
<1> DEFINE old == CountedIn(ledger, places, policy, of, kind)
           new == CountedIn(ledger, places \cup {i}, policy, of, kind)
           counts == ledger[i].what = kind /\ ledger[i].subject = of /\ ledger[i].policy = policy
<1>1. old \in SUBSET places /\ i \notin old
  BY DEF CountedIn
<1>2. IsFiniteSet(old)
  BY <1>1, FS_Subset
<1>3. new = IF counts THEN old \cup {i} ELSE old
  BY DEF CountedIn
<1>4. Cardinality(old) \in Nat /\ Cardinality(old \cup {i}) = Cardinality(old) + 1
  BY <1>1, <1>2, FS_CardinalityType, FS_AddElement
<1> HIDE DEF old, new
<1>5. Cardinality(new) = IF counts THEN Cardinality(old) + 1 ELSE Cardinality(old)
  BY <1>3, <1>4
<1> QED
  BY <1>4, <1>5 DEF Count, old, new

OneDisposedMore(ledger, places, i, policy, of, kinds, dimension) ==
    LET old == DisposedIn(ledger, places, policy, of, kinds, dimension)
        new == DisposedIn(ledger, places \cup {i}, policy, of, kinds, dimension)
    IN  /\ Cardinality(old) \in Nat
        /\ Cardinality(new) = IF /\ ledger[i].what \in kinds
                                 /\ ledger[i].subject = of
                                 /\ ledger[i].dimension = dimension
                                 /\ ledger[i].policy = policy
                              THEN Cardinality(old) + 1 ELSE Cardinality(old)

LEMMA DisposedOneMore ==
    ASSUME NEW ledger, NEW places, IsFiniteSet(places), NEW i, i \notin places,
           NEW policy, NEW of, NEW kinds, NEW dimension
    PROVE  OneDisposedMore(ledger, places, i, policy, of, kinds, dimension)
<1> DEFINE old == DisposedIn(ledger, places, policy, of, kinds, dimension)
           new == DisposedIn(ledger, places \cup {i}, policy, of, kinds, dimension)
           counts == /\ ledger[i].what \in kinds
                     /\ ledger[i].subject = of
                     /\ ledger[i].dimension = dimension
                     /\ ledger[i].policy = policy
<1>1. old \in SUBSET places /\ i \notin old
  BY DEF DisposedIn
<1>2. IsFiniteSet(old)
  BY <1>1, FS_Subset
<1>3. new = IF counts THEN old \cup {i} ELSE old
  BY DEF DisposedIn
<1>4. Cardinality(old) \in Nat /\ Cardinality(old \cup {i}) = Cardinality(old) + 1
  BY <1>1, <1>2, FS_CardinalityType, FS_AddElement
<1> HIDE DEF old, new
<1>5. Cardinality(new) = IF counts THEN Cardinality(old) + 1 ELSE Cardinality(old)
  BY <1>3, <1>4
<1> QED
  BY <1>4, <1>5 DEF old, new, OneDisposedMore

\* Tables of two keys that differ in one cell.
Table(f, A, B) == f = [a \in A |-> [b \in B |-> f[a][b]]]

OneDiffers(f, g, A, B, x, y, v) ==
    /\ Table(f, A, B) /\ Table(g, A, B)
    /\ x \in A /\ y \in B /\ g[x][y] = v
    /\ \A a \in A, b \in B : a # x \/ b # y => g[a][b] = f[a][b]

Flagged(f, x, y) == [f EXCEPT ![x][y] = TRUE]

CellSet(f, x, y, v) == [f EXCEPT ![x][y] = v]

LEMMA OneCell ==
    ASSUME NEW A, NEW B, NEW f, NEW g, NEW x, NEW y, NEW v, OneDiffers(f, g, A, B, x, y, v)
    PROVE  g = CellSet(f, x, y, v)
<1> USE DEF OneDiffers, CellSet
<1> DEFINE h == [f EXCEPT ![x][y] = v]
<1>1. DOMAIN f = A /\ DOMAIN g = A /\ \A a \in A : /\ f[a] = [b \in B |-> f[a][b]]
                                                  /\ g[a] = [b \in B |-> g[a][b]]
  BY DEF Table
<1>2. f = [a \in A |-> f[a]] /\ g = [a \in A |-> g[a]]
  BY <1>1 DEF Table
<1>3. h = [a \in A |-> IF a = x THEN [f[x] EXCEPT ![y] = v] ELSE f[a]]
  BY <1>2
<1>4. [f[x] EXCEPT ![y] = v] = g[x]
  <2> DEFINE r == f[x]
             t == g[x]
  <2>1. r = [b \in B |-> r[b]] /\ t = [b \in B |-> t[b]]
    BY <1>1
  <2>2. t[y] = v /\ \A b \in B : b # y => t[b] = r[b]
    OBVIOUS
  <2> HIDE DEF r, t
  <2>3. [r EXCEPT ![y] = v] = t
    BY <2>1, <2>2
  <2> QED
    BY <2>3 DEF r, t
<1>5. ASSUME NEW a \in A, a # x
      PROVE  f[a] = g[a]
  <2>1. \A b \in B : g[a][b] = f[a][b]
    BY <1>5
  <2> QED
    BY <1>1, <2>1
<1> HIDE DEF h
<1>6. h = [a \in A |-> g[a]]
  BY <1>3, <1>4, <1>5
<1> QED
  BY <1>2, <1>6 DEF h

\* What one place more changes, by kind.
Measured(fact, policy, of, kind) ==
    fact.what = kind /\ fact.subject = of /\ fact.policy = policy

LEMMA CountsOneMore ==
    ASSUME NEW ledger, NEW places, IsFiniteSet(places), NEW i, i \notin places, NEW policy
    PROVE  /\ ~IsAttempt(ledger[i]) \/ ledger[i].policy # policy =>
                Counts(ledger, places \cup {i}, policy) = Counts(ledger, places, policy)
           /\ \A of \in Subjects, kind \in AttemptKinds :
                Measured(ledger[i], policy, of, kind) =>
                    Counts(ledger, places \cup {i}, policy)
                        = CellSet(Counts(ledger, places, policy), of, kind,
                                  Count(ledger, places, policy, of, kind) + 1)
<1> DEFINE old(of, kind) == Count(ledger, places, policy, of, kind)
           new(of, kind) == Count(ledger, places \cup {i}, policy, of, kind)
<1>1. \A of, kind : new(of, kind) = IF Measured(ledger[i], policy, of, kind)
                                   THEN old(of, kind) + 1 ELSE old(of, kind)
  <2> TAKE of, kind
  <2> QED
    BY CountOneMore DEF Measured
<1>2. /\ Counts(ledger, places, policy)
            = [of \in Subjects |-> [kind \in AttemptKinds |-> old(of, kind)]]
      /\ Counts(ledger, places \cup {i}, policy)
            = [of \in Subjects |-> [kind \in AttemptKinds |-> new(of, kind)]]
  BY DEF Counts
<1> HIDE DEF old, new
<1>3. ASSUME ~IsAttempt(ledger[i]) \/ ledger[i].policy # policy
      PROVE  Counts(ledger, places \cup {i}, policy) = Counts(ledger, places, policy)
  <2>1. \A of \in Subjects, kind \in AttemptKinds : new(of, kind) = old(of, kind)
    BY <1>1, <1>3 DEF Measured, IsAttempt
  <2> QED
    BY <1>2, <2>1
<1>4. ASSUME NEW of \in Subjects, NEW kind \in AttemptKinds,
             Measured(ledger[i], policy, of, kind)
      PROVE  Counts(ledger, places \cup {i}, policy)
                = CellSet(Counts(ledger, places, policy), of, kind,
                                  old(of, kind) + 1)
  <2>1. new(of, kind) = old(of, kind) + 1
    BY <1>1, <1>4
  <2>2. \A s \in Subjects, k \in AttemptKinds :
            s # of \/ k # kind => new(s, k) = old(s, k)
    BY <1>1, <1>4 DEF Measured
  <2> DEFINE f == Counts(ledger, places, policy)
             g == Counts(ledger, places \cup {i}, policy)
             v == old(of, kind) + 1
  <2>3. /\ f = [s \in Subjects |-> [k \in AttemptKinds |-> old(s, k)]]
        /\ g = [s \in Subjects |-> [k \in AttemptKinds |-> new(s, k)]]
    BY <1>2
  <2>4. new(of, kind) = v
    BY <2>1
  <2> HIDE DEF f, g, v
  <2>5. Table(f, Subjects, AttemptKinds) /\ Table(g, Subjects, AttemptKinds)
    BY <2>3 DEF Table
  <2>6. \A s \in Subjects, k \in AttemptKinds : f[s][k] = old(s, k) /\ g[s][k] = new(s, k)
    BY <2>3
  <2>7. OneDiffers(f, g, Subjects, AttemptKinds, of, kind, v)
    BY <2>2, <2>4, <2>5, <2>6 DEF OneDiffers
  <2>8. g = CellSet(f, of, kind, v)
    BY <2>7, OneCell
  <2> QED
    BY <2>8 DEF f, g, v
<1> QED
  BY <1>3, <1>4 DEF old

LEMMA GrantsOneMore ==
    ASSUME NEW ledger, NEW places, IsFiniteSet(places), NEW i, i \notin places, NEW policy
    PROVE  /\ ledger[i].what # "renew" \/ ledger[i].policy # policy =>
                Grants(ledger, places \cup {i}, policy) = Grants(ledger, places, policy)
           /\ \A of \in Cards, dimension \in Dimensions :
                Measured(ledger[i], policy, of, "renew") /\ ledger[i].dimension = dimension =>
                    Grants(ledger, places \cup {i}, policy)
                        = CellSet(Grants(ledger, places, policy), of, dimension,
                                  Granted(ledger, places, policy, of, dimension) + 1)
<1> DEFINE old(of, dimension) == Granted(ledger, places, policy, of, dimension)
           new(of, dimension) == Granted(ledger, places \cup {i}, policy, of, dimension)
           counts(of, dimension) ==
               Measured(ledger[i], policy, of, "renew") /\ ledger[i].dimension = dimension
<1>1. \A of, dimension : new(of, dimension) = IF counts(of, dimension)
                                              THEN old(of, dimension) + 1 ELSE old(of, dimension)
  <2> TAKE of, dimension
  <2> QED
    <3>1. OneDisposedMore(ledger, places, i, policy, of, {"renew"}, dimension)
      BY DisposedOneMore
    <3> QED
      BY <3>1 DEF Measured, Granted, OneDisposedMore
<1>2. /\ Grants(ledger, places, policy)
            = [of \in Cards |-> [dimension \in Dimensions |-> old(of, dimension)]]
      /\ Grants(ledger, places \cup {i}, policy)
            = [of \in Cards |-> [dimension \in Dimensions |-> new(of, dimension)]]
  BY DEF Grants
<1> HIDE DEF old, new
<1>3. ASSUME ledger[i].what # "renew" \/ ledger[i].policy # policy
      PROVE  Grants(ledger, places \cup {i}, policy) = Grants(ledger, places, policy)
  <2>1. \A of \in Cards, dimension \in Dimensions : new(of, dimension) = old(of, dimension)
    BY <1>1, <1>3 DEF Measured
  <2> QED
    BY <1>2, <2>1
<1>4. ASSUME NEW of \in Cards, NEW dimension \in Dimensions, counts(of, dimension)
      PROVE  Grants(ledger, places \cup {i}, policy)
                = CellSet(Grants(ledger, places, policy), of, dimension,
                                  old(of, dimension) + 1)
  <2>1. new(of, dimension) = old(of, dimension) + 1
    BY <1>1, <1>4
  <2>2. \A s \in Cards, d \in Dimensions :
            s # of \/ d # dimension => new(s, d) = old(s, d)
    BY <1>1, <1>4 DEF Measured
  <2> DEFINE f == Grants(ledger, places, policy)
             g == Grants(ledger, places \cup {i}, policy)
             v == old(of, dimension) + 1
  <2>3. /\ f = [s \in Cards |-> [k \in Dimensions |-> old(s, k)]]
        /\ g = [s \in Cards |-> [k \in Dimensions |-> new(s, k)]]
    BY <1>2
  <2>4. new(of, dimension) = v
    BY <2>1
  <2> HIDE DEF f, g, v
  <2>5. Table(f, Cards, Dimensions) /\ Table(g, Cards, Dimensions)
    BY <2>3 DEF Table
  <2>6. \A s \in Cards, k \in Dimensions : f[s][k] = old(s, k) /\ g[s][k] = new(s, k)
    BY <2>3
  <2>7. OneDiffers(f, g, Cards, Dimensions, of, dimension, v)
    BY <2>2, <2>4, <2>5, <2>6 DEF OneDiffers
  <2>8. g = CellSet(f, of, dimension, v)
    BY <2>7, OneCell
  <2> QED
    BY <2>8 DEF f, g, v
<1> QED
  BY <1>3, <1>4 DEF old

LEMMA WaiversOneMore ==
    ASSUME NEW ledger, NEW places, IsFiniteSet(places), NEW i, i \notin places, NEW policy
    PROVE  /\ ledger[i].what \notin {"accept_risk", "split"} \/ ledger[i].policy # policy =>
                Waivers(ledger, places \cup {i}, policy) = Waivers(ledger, places, policy)
           /\ \A of \in Cards, kind \in {"accept_risk", "split"}, dimension \in Dimensions :
                Measured(ledger[i], policy, of, kind) /\ ledger[i].dimension = dimension =>
                    Waivers(ledger, places \cup {i}, policy)
                        = Flagged(Waivers(ledger, places, policy), of, dimension)
<1> DEFINE old(of, dimension) == Waives(ledger, places, policy, of, dimension)
           new(of, dimension) == Waives(ledger, places \cup {i}, policy, of, dimension)
           counts(of, dimension) ==
               /\ ledger[i].what \in {"accept_risk", "split"}
               /\ ledger[i].subject = of
               /\ ledger[i].dimension = dimension
               /\ ledger[i].policy = policy
<1>1. \A of, dimension : new(of, dimension) = (counts(of, dimension) \/ old(of, dimension))
  <2> TAKE of, dimension
  <2> QED
    BY DEF Waives, DisposedIn
<1>2. /\ Waivers(ledger, places, policy)
            = [of \in Cards |-> [dimension \in Dimensions |-> old(of, dimension)]]
      /\ Waivers(ledger, places \cup {i}, policy)
            = [of \in Cards |-> [dimension \in Dimensions |-> new(of, dimension)]]
  BY DEF Waivers
<1>3. \A of, dimension : old(of, dimension) \in BOOLEAN /\ new(of, dimension) \in BOOLEAN
  BY DEF Waives
<1> HIDE DEF old, new
<1>4. ASSUME ledger[i].what \notin {"accept_risk", "split"} \/ ledger[i].policy # policy
      PROVE  Waivers(ledger, places \cup {i}, policy) = Waivers(ledger, places, policy)
  <2>1. \A of \in Cards, dimension \in Dimensions : new(of, dimension) = old(of, dimension)
    BY <1>1, <1>3, <1>4
  <2> QED
    BY <1>2, <2>1
<1>5. ASSUME NEW of \in Cards, NEW kind \in {"accept_risk", "split"}, NEW dimension \in Dimensions,
             Measured(ledger[i], policy, of, kind), ledger[i].dimension = dimension
      PROVE  Waivers(ledger, places \cup {i}, policy)
                = Flagged(Waivers(ledger, places, policy), of, dimension)
  <2>1. new(of, dimension) = TRUE
    BY <1>1, <1>3, <1>5 DEF Measured
  <2>2. \A s \in Cards, d \in Dimensions :
            s # of \/ d # dimension => new(s, d) = old(s, d)
    BY <1>1, <1>3, <1>5 DEF Measured
  <2> DEFINE f == Waivers(ledger, places, policy)
             g == Waivers(ledger, places \cup {i}, policy)
             v == TRUE
  <2>3. /\ f = [s \in Cards |-> [k \in Dimensions |-> old(s, k)]]
        /\ g = [s \in Cards |-> [k \in Dimensions |-> new(s, k)]]
    BY <1>2
  <2>4. new(of, dimension) = v
    BY <2>1
  <2> HIDE DEF f, g, v
  <2>5. Table(f, Cards, Dimensions) /\ Table(g, Cards, Dimensions)
    BY <2>3 DEF Table
  <2>6. \A s \in Cards, k \in Dimensions : f[s][k] = old(s, k) /\ g[s][k] = new(s, k)
    BY <2>3
  <2>7. OneDiffers(f, g, Cards, Dimensions, of, dimension, v)
    BY <2>2, <2>4, <2>5, <2>6 DEF OneDiffers
  <2>8. g = CellSet(f, of, dimension, v)
    BY <2>7, OneCell
  <2> QED
    BY <2>8 DEF f, g, v, CellSet, Flagged
<1> QED
  BY <1>4, <1>5

LEMMA FitsOneMore ==
    ASSUME NEW ledger, NEW places, NEW i, NEW policy, NEW retired
    PROVE  Fits(ledger, places \cup {i}, policy, retired) <=>
              /\ Fits(ledger, places, policy, retired)
              /\ Accounted(ledger[i], policy, retired) /\ WellBound(ledger[i])
BY DEF Fits

GrantedOneMore(ledger, places, i, policy, of, dimension) ==
    /\ Granted(ledger, places, policy, of, dimension) \in Nat
    /\ Granted(ledger, places \cup {i}, policy, of, dimension)
          = IF Measured(ledger[i], policy, of, "renew") /\ ledger[i].dimension = dimension
            THEN Granted(ledger, places, policy, of, dimension) + 1
            ELSE Granted(ledger, places, policy, of, dimension)

LEMMA GrantOneMore ==
    ASSUME NEW ledger, NEW places, IsFiniteSet(places), NEW i, i \notin places,
           NEW policy, NEW of, NEW dimension
    PROVE  GrantedOneMore(ledger, places, i, policy, of, dimension)
<1>1. OneDisposedMore(ledger, places, i, policy, of, {"renew"}, dimension)
  BY DisposedOneMore
<1> QED
  BY <1>1 DEF OneDisposedMore, GrantedOneMore, Granted, Measured

\* A view never becomes readable again, and a count is refused where it leaves
\* the width of its field.
LEMMA BoundedOneMore ==
    ASSUME NEW ledger, NEW places, IsFiniteSet(places), NEW i, i \notin places, NEW policy
    PROVE  /\ Bounded(ledger, places \cup {i}, policy) => Bounded(ledger, places, policy)
           /\ \A of \in Subjects, kind \in AttemptKinds :
                Measured(ledger[i], policy, of, kind) =>
                    (Bounded(ledger, places \cup {i}, policy) <=>
                        /\ Bounded(ledger, places, policy)
                        /\ Count(ledger, places, policy, of, kind) # MaxU32)
           /\ \A of \in Cards, dimension \in Dimensions :
                Measured(ledger[i], policy, of, "renew") /\ ledger[i].dimension = dimension =>
                    (Bounded(ledger, places \cup {i}, policy) <=>
                        /\ Bounded(ledger, places, policy)
                        /\ Granted(ledger, places, policy, of, dimension) # MaxU32)
           /\ (~IsAttempt(ledger[i]) /\ ledger[i].what # "renew") \/ ledger[i].policy # policy =>
                (Bounded(ledger, places \cup {i}, policy) <=> Bounded(ledger, places, policy))
<1> DEFINE old(of, kind) == Count(ledger, places, policy, of, kind)
           new(of, kind) == Count(ledger, places \cup {i}, policy, of, kind)
           granted(of, dimension) == Granted(ledger, places, policy, of, dimension)
           grants(of, dimension) == Granted(ledger, places \cup {i}, policy, of, dimension)
           small == Bounded(ledger, places, policy)
           small2 == Bounded(ledger, places \cup {i}, policy)
<1>1. \A of, kind : /\ old(of, kind) \in Nat
                    /\ new(of, kind) = IF Measured(ledger[i], policy, of, kind)
                                       THEN old(of, kind) + 1 ELSE old(of, kind)
  <2> TAKE of, kind
  <2> QED
    BY CountOneMore DEF Measured
<1>2. \A of, dimension :
        /\ granted(of, dimension) \in Nat
        /\ grants(of, dimension)
             = IF Measured(ledger[i], policy, of, "renew") /\ ledger[i].dimension = dimension
               THEN granted(of, dimension) + 1 ELSE granted(of, dimension)
  <2> TAKE of, dimension
  <2>1. GrantedOneMore(ledger, places, i, policy, of, dimension)
    BY GrantOneMore
  <2> QED
    BY <2>1 DEF GrantedOneMore
<1>3. small <=> /\ \A of \in Subjects, kind \in AttemptKinds : old(of, kind) <= MaxU32
                /\ \A of \in Cards, dimension \in Dimensions : granted(of, dimension) <= MaxU32
  BY DEF Bounded
<1>4. small2 <=> /\ \A of \in Subjects, kind \in AttemptKinds : new(of, kind) <= MaxU32
                 /\ \A of \in Cards, dimension \in Dimensions : grants(of, dimension) <= MaxU32
  BY DEF Bounded
<1>5. MaxU32 \in Nat
  BY LedgerAssumption
<1> HIDE DEF old, new, granted, grants, small, small2
<1>6. small2 => small
  BY <1>1, <1>2, <1>3, <1>4, <1>5
<1>7. ASSUME NEW of \in Subjects, NEW kind \in AttemptKinds,
             Measured(ledger[i], policy, of, kind)
      PROVE  small2 <=> small /\ old(of, kind) # MaxU32
  <2>1. \A s, d : grants(s, d) = granted(s, d)
    BY <1>2, <1>7 DEF Measured, AttemptKinds
  <2>2. \A s, k : s # of \/ k # kind => new(s, k) = old(s, k)
    BY <1>1, <1>7 DEF Measured
  <2>3. new(of, kind) = old(of, kind) + 1 /\ old(of, kind) \in Nat
    BY <1>1, <1>7
  <2>4. new(of, kind) <= MaxU32 <=> old(of, kind) <= MaxU32 /\ old(of, kind) # MaxU32
    BY <2>3, <1>5
  <2> QED
    BY <2>1, <2>2, <2>4, <1>3, <1>4, <1>7
<1>8. ASSUME NEW of \in Cards, NEW dimension \in Dimensions,
             Measured(ledger[i], policy, of, "renew"), ledger[i].dimension = dimension
      PROVE  small2 <=> small /\ granted(of, dimension) # MaxU32
  <2>2. \A s, d : s # of \/ d # dimension => grants(s, d) = granted(s, d)
    BY <1>2, <1>8 DEF Measured
  <2>3. grants(of, dimension) = granted(of, dimension) + 1 /\ granted(of, dimension) \in Nat
    BY <1>2, <1>8
  <2>4. grants(of, dimension) <= MaxU32
            <=> granted(of, dimension) <= MaxU32 /\ granted(of, dimension) # MaxU32
    BY <2>3, <1>5
  <2>5. \A s \in Subjects, k \in AttemptKinds : new(s, k) = old(s, k)
    BY <1>1, <1>8 DEF Measured, AttemptKinds
  <2> QED
    BY <2>2, <2>4, <2>5, <1>3, <1>4, <1>8
<1>9. ASSUME (~IsAttempt(ledger[i]) /\ ledger[i].what # "renew") \/ ledger[i].policy # policy
      PROVE  small2 <=> small
  <2>1. \A of \in Subjects, kind \in AttemptKinds : new(of, kind) = old(of, kind)
    BY <1>1, <1>9 DEF Measured, IsAttempt
  <2>2. \A of, dimension : grants(of, dimension) = granted(of, dimension)
    BY <1>2, <1>9 DEF Measured
  <2> QED
    BY <2>1, <2>2, <1>3, <1>4
<1> QED
  BY <1>6, <1>7, <1>8, <1>9 DEF small, small2, old, granted

Viewed(readable, count, renewals, waived) ==
    [readable |-> readable, count |-> count, renewals |-> renewals, waived |-> waived]

Recounted(view, table) == [view EXCEPT !.count = table]
Renewed(view, table) == [view EXCEPT !.renewals = table]
Rewaived(view, table) == [view EXCEPT !.waived = table]

IsView(view, A, B, C, D) ==
    view \in [readable : A, count : B, renewals : C, waived : D]

SetsOneField(view, table) ==
    /\ Recounted(view, table) = Viewed(view.readable, table, view.renewals, view.waived)
    /\ Renewed(view, table) = Viewed(view.readable, view.count, table, view.waived)
    /\ Rewaived(view, table) = Viewed(view.readable, view.count, view.renewals, table)

LEMMA FieldsOfOne ==
    ASSUME NEW A, NEW B, NEW C, NEW D, NEW view, IsView(view, A, B, C, D), NEW table
    PROVE  SetsOneField(view, table)
<1> SUFFICES ASSUME view \in [readable : A, count : B, renewals : C, waived : D]
             PROVE  SetsOneField(view, table)
  BY DEF IsView
<1> QED
  BY DEF Recounted, Renewed, Rewaived, Viewed, SetsOneField

TallyFields(view, ledger, places, policy) ==
    /\ view = Viewed(TRUE, Counts(ledger, places, policy), Grants(ledger, places, policy),
                     Waivers(ledger, places, policy))
    /\ view.readable = TRUE
    /\ view.count = Counts(ledger, places, policy)
    /\ view.renewals = Grants(ledger, places, policy)
    /\ view.waived = Waivers(ledger, places, policy)

LEMMA TalliedFields ==
    ASSUME NEW ledger, NEW places, NEW policy
    PROVE  TallyFields(Tallied(ledger, places, policy), ledger, places, policy)
BY DEF Tallied, Viewed, TallyFields

LEMMA TallySets ==
    ASSUME NEW ledger, NEW places, NEW policy, NEW view,
           TallyFields(view, ledger, places, policy), NEW table
    PROVE  SetsOneField(view, table)
<1>1. view = [readable |-> view.readable, count |-> view.count, renewals |-> view.renewals,
              waived |-> view.waived]
  BY DEF TallyFields, Viewed
<1>2. IsView(view, {view.readable}, {view.count}, {view.renewals}, {view.waived})
  BY <1>1 DEF IsView
<1> QED
  BY <1>2, FieldsOfOne

LEMMA CellsOf ==
    ASSUME NEW ledger, NEW places, NEW policy
    PROVE  /\ \A of \in Subjects, kind \in AttemptKinds :
                 Counts(ledger, places, policy)[of][kind]
                     = Count(ledger, places, policy, of, kind)
           /\ \A of \in Cards, dimension \in Dimensions :
                 Grants(ledger, places, policy)[of][dimension]
                     = Granted(ledger, places, policy, of, dimension)
BY DEF Counts, Grants

\* A fact about a card is bound to it, and a disposition to a dimension.
LEMMA BoundFact ==
    ASSUME NEW fact \in Fact, WellBound(fact), fact.what # "rebaseline"
    PROVE  /\ fact.subject \in Subjects
           /\ fact.what # "integration_failure" => fact.subject \in Cards
           /\ fact.what \in {"renew", "accept_risk", "split"} => fact.dimension \in Dimensions
BY DEF Fact, WellBound, Subjects

\* The state of a pass between two facts.
Reading(ledger, places, i, policy, retired) ==
    /\ IsFiniteSet(places) /\ i \notin places
    /\ ledger[i] \in Fact /\ ledger[i].what # "rebaseline" /\ ledger[i].policy = policy
    /\ Accounted(ledger[i], policy, retired) /\ WellBound(ledger[i])
    /\ Fits(ledger, places, policy, retired) /\ Bounded(ledger, places, policy)

FoldsIn(ledger, places, i, policy, retired) ==
    FoldFact(policy, retired, Tallied(ledger, places, policy), ledger[i])
        = ViewOf(ledger, places \cup {i}, policy, retired)

OneMore(ledger, places, i) == IsFiniteSet(places) /\ i \notin places

LEMMA CountsSame ==
    ASSUME NEW ledger, NEW places, NEW i, NEW policy, OneMore(ledger, places, i),
           ~IsAttempt(ledger[i])
    PROVE  Counts(ledger, places \cup {i}, policy) = Counts(ledger, places, policy)
BY CountsOneMore DEF OneMore

LEMMA GrantsSame ==
    ASSUME NEW ledger, NEW places, NEW i, NEW policy, OneMore(ledger, places, i),
           ledger[i].what # "renew"
    PROVE  Grants(ledger, places \cup {i}, policy) = Grants(ledger, places, policy)
BY GrantsOneMore DEF OneMore

LEMMA WaiversSame ==
    ASSUME NEW ledger, NEW places, NEW i, NEW policy, OneMore(ledger, places, i),
           ledger[i].what \notin {"accept_risk", "split"}
    PROVE  Waivers(ledger, places \cup {i}, policy) = Waivers(ledger, places, policy)
BY WaiversOneMore DEF OneMore

LEMMA AttemptKindsApart ==
    ASSUME NEW fact, IsAttempt(fact)
    PROVE  fact.what \notin {"renew", "abandon", "accept_risk", "split", "redesign", "rebaseline"}
BY DEF IsAttempt, AttemptKinds

LEMMA AttemptOneMore ==
    ASSUME NEW ledger, NEW places, NEW i, NEW policy, NEW retired,
           Reading(ledger, places, i, policy, retired), IsAttempt(ledger[i])
    PROVE  FoldsIn(ledger, places, i, policy, retired)
<1> DEFINE fact == ledger[i]
           view == Tallied(ledger, places, policy)
           more == places \cup {i}
           of == fact.subject
           key == fact.what
           counted == Count(ledger, places, policy, of, key)
<1>1. of \in Subjects /\ key \in AttemptKinds
  BY BoundFact DEF Reading, IsAttempt
<1>2. Measured(fact, policy, of, fact.what)
  BY DEF Reading, Measured
<1>3. OneMore(ledger, places, i)
  BY DEF OneMore, Reading
<1>4. TallyFields(view, ledger, places, policy)
  BY TalliedFields
<1>5. FoldFact(policy, retired, view, fact) = IF counted = MaxU32 THEN Refused
          ELSE Recounted(view, CellSet(view.count, of, key, counted + 1))
  <2>1. FoldFact(policy, retired, view, fact) = FoldAttempt(policy, retired, view, fact)
    BY AttemptKindsApart DEF FoldFact, IsAttempt, AttemptKinds, FoldSplit
  <2>2. view.readable = TRUE /\ fact.policy = policy
    BY <1>4 DEF TallyFields, Reading
  <2>3. Accounted(fact, policy, retired) /\ WellBound(fact)
    BY DEF Reading
  <2>4. view.count[of][key] = counted
    <3>1. view.count = Counts(ledger, places, policy)
      BY <1>4 DEF TallyFields
    <3>2. Counts(ledger, places, policy)[of][key] = counted
      BY <1>1, CellsOf
    <3> QED
      BY <3>1, <3>2
  <2> HIDE DEF view, fact, counted
  <2> QED
    BY <2>1, <2>2, <2>3, <2>4 DEF FoldAttempt, Recounted, CellSet, Flagged, of, key
<1>6. Fits(ledger, more, policy, retired)
  BY FitsOneMore DEF Reading
<1>7. Bounded(ledger, more, policy) <=> counted # MaxU32
  BY <1>1, <1>2, <1>3, BoundedOneMore DEF OneMore, Reading
<1>8. Counts(ledger, more, policy) = CellSet(Counts(ledger, places, policy), of, key, counted + 1)
  BY <1>1, <1>2, <1>3, CountsOneMore DEF OneMore
<1>9. Grants(ledger, more, policy) = Grants(ledger, places, policy)
  BY <1>3, AttemptKindsApart, GrantsSame
<1>10. Waivers(ledger, more, policy) = Waivers(ledger, places, policy)
  BY <1>3, AttemptKindsApart, WaiversSame
<1> HIDE DEF view, fact, more, counted, of, key
<1>11. Recounted(view, CellSet(view.count, of, key, counted + 1)) = Tallied(ledger, more, policy)
  <2>1. SetsOneField(view, CellSet(view.count, of, key, counted + 1))
    BY <1>4, TallySets
  <2>2. TallyFields(Tallied(ledger, more, policy), ledger, more, policy)
    BY TalliedFields
  <2>3. /\ view.readable = TRUE
        /\ view.count = Counts(ledger, places, policy)
        /\ view.renewals = Grants(ledger, places, policy)
        /\ view.waived = Waivers(ledger, places, policy)
    BY <1>4 DEF TallyFields
  <2>4. Recounted(view, CellSet(view.count, of, key, counted + 1))
          = Viewed(view.readable, CellSet(view.count, of, key, counted + 1),
                   view.renewals, view.waived)
    BY <2>1 DEF SetsOneField
  <2>5. Tallied(ledger, more, policy)
          = Viewed(TRUE, Counts(ledger, more, policy), Grants(ledger, more, policy),
                   Waivers(ledger, more, policy))
    BY <2>2 DEF TallyFields
  <2> HIDE DEF of, key
  <2> QED
    BY <1>8, <1>9, <1>10, <2>3, <2>4, <2>5
<1> QED
  BY <1>5, <1>6, <1>7, <1>11 DEF FoldsIn, ViewOf, view, more, fact

LEMMA RenewalOneMore ==
    ASSUME NEW ledger, NEW places, NEW i, NEW policy, NEW retired,
           Reading(ledger, places, i, policy, retired), ledger[i].what = "renew"
    PROVE  FoldsIn(ledger, places, i, policy, retired)
<1> DEFINE fact == ledger[i]
           view == Tallied(ledger, places, policy)
           more == places \cup {i}
           of == fact.subject
           key == fact.dimension
           counted == Granted(ledger, places, policy, of, key)
<1>1. of \in Cards /\ key \in Dimensions
  BY BoundFact DEF Reading, IsAttempt
<1>2. Measured(fact, policy, of, fact.what)
  BY DEF Reading, Measured
<1>3. OneMore(ledger, places, i)
  BY DEF OneMore, Reading
<1>4. TallyFields(view, ledger, places, policy)
  BY TalliedFields
<1>5. FoldFact(policy, retired, view, fact) = IF counted = MaxU32 THEN Refused
          ELSE Renewed(view, CellSet(view.renewals, of, key, counted + 1))
  <2>1. FoldFact(policy, retired, view, fact) = FoldRenewal(policy, retired, view, fact)
    BY AttemptKindsApart DEF FoldFact, IsAttempt, AttemptKinds, FoldSplit
  <2>2. view.readable = TRUE /\ fact.policy = policy
    BY <1>4 DEF TallyFields, Reading
  <2>3. Accounted(fact, policy, retired) /\ WellBound(fact)
    BY DEF Reading
  <2>4. view.renewals[of][key] = counted
    <3>1. view.renewals = Grants(ledger, places, policy)
      BY <1>4 DEF TallyFields
    <3>2. Grants(ledger, places, policy)[of][key] = counted
      BY <1>1, CellsOf
    <3> QED
      BY <3>1, <3>2
  <2> HIDE DEF view, fact, counted
  <2> QED
    BY <2>1, <2>2, <2>3, <2>4 DEF FoldRenewal, Renewed, CellSet, Flagged, of, key
<1>6. Fits(ledger, more, policy, retired)
  BY FitsOneMore DEF Reading
<1>7. Bounded(ledger, more, policy) <=> counted # MaxU32
  BY <1>1, <1>2, <1>3, BoundedOneMore DEF OneMore, Reading
<1>8. Grants(ledger, more, policy) = CellSet(Grants(ledger, places, policy), of, key, counted + 1)
  BY <1>1, <1>2, <1>3, GrantsOneMore DEF OneMore
<1>9. Counts(ledger, more, policy) = Counts(ledger, places, policy)
  BY <1>3, AttemptKindsApart, CountsSame
<1>10. Waivers(ledger, more, policy) = Waivers(ledger, places, policy)
  BY <1>3, WaiversSame
<1> HIDE DEF view, fact, more, counted, of, key
<1>11. Renewed(view, CellSet(view.renewals, of, key, counted + 1)) = Tallied(ledger, more, policy)
  <2>1. SetsOneField(view, CellSet(view.renewals, of, key, counted + 1))
    BY <1>4, TallySets
  <2>2. TallyFields(Tallied(ledger, more, policy), ledger, more, policy)
    BY TalliedFields
  <2>3. /\ view.readable = TRUE
        /\ view.count = Counts(ledger, places, policy)
        /\ view.renewals = Grants(ledger, places, policy)
        /\ view.waived = Waivers(ledger, places, policy)
    BY <1>4 DEF TallyFields
  <2>4. Renewed(view, CellSet(view.renewals, of, key, counted + 1))
          = Viewed(view.readable, view.count, CellSet(view.renewals, of, key, counted + 1),
                   view.waived)
    BY <2>1 DEF SetsOneField
  <2>5. Tallied(ledger, more, policy)
          = Viewed(TRUE, Counts(ledger, more, policy), Grants(ledger, more, policy),
                   Waivers(ledger, more, policy))
    BY <2>2 DEF TallyFields
  <2> HIDE DEF of, key
  <2> QED
    BY <1>8, <1>9, <1>10, <2>3, <2>4, <2>5
<1> QED
  BY <1>5, <1>6, <1>7, <1>11 DEF FoldsIn, ViewOf, view, more, fact

LEMMA WaiverOneMore ==
    ASSUME NEW ledger, NEW places, NEW i, NEW policy, NEW retired,
           Reading(ledger, places, i, policy, retired), ledger[i].what \in {"accept_risk", "split"}
    PROVE  FoldsIn(ledger, places, i, policy, retired)
<1> DEFINE fact == ledger[i]
           view == Tallied(ledger, places, policy)
           more == places \cup {i}
           of == fact.subject
           key == fact.dimension
<1>1. of \in Cards /\ key \in Dimensions
  BY BoundFact DEF Reading, IsAttempt
<1>2. Measured(fact, policy, of, fact.what)
  BY DEF Reading, Measured
<1>3. OneMore(ledger, places, i)
  BY DEF OneMore, Reading
<1>4. TallyFields(view, ledger, places, policy)
  BY TalliedFields
<1>5. FoldFact(policy, retired, view, fact) = Rewaived(view, Flagged(view.waived, of, key))
  <2>1. FoldFact(policy, retired, view, fact) = FoldAcceptedRisk(policy, retired, view, fact)
    BY AttemptKindsApart DEF FoldFact, IsAttempt, AttemptKinds, FoldSplit
  <2>2. view.readable = TRUE /\ fact.policy = policy
    BY <1>4 DEF TallyFields, Reading
  <2>3. Accounted(fact, policy, retired) /\ WellBound(fact)
    BY DEF Reading
  <2> HIDE DEF view, fact
  <2> QED
    BY <2>1, <2>2, <2>3 DEF FoldAcceptedRisk, Rewaived, CellSet, Flagged, of, key
<1>6. Fits(ledger, more, policy, retired)
  BY FitsOneMore DEF Reading
<1>7. Bounded(ledger, more, policy)
  BY <1>3, AttemptKindsApart, BoundedOneMore DEF OneMore, Reading
<1>8. Waivers(ledger, more, policy) = Flagged(Waivers(ledger, places, policy), of, key)
  BY <1>1, <1>2, <1>3, WaiversOneMore DEF OneMore
<1>9. Counts(ledger, more, policy) = Counts(ledger, places, policy)
  BY <1>3, AttemptKindsApart, CountsSame
<1>10. Grants(ledger, more, policy) = Grants(ledger, places, policy)
  BY <1>3, GrantsSame
<1> HIDE DEF view, fact, more, of, key
<1>11. Rewaived(view, Flagged(view.waived, of, key)) = Tallied(ledger, more, policy)
  <2>1. SetsOneField(view, Flagged(view.waived, of, key))
    BY <1>4, TallySets
  <2>2. TallyFields(Tallied(ledger, more, policy), ledger, more, policy)
    BY TalliedFields
  <2>3. /\ view.readable = TRUE
        /\ view.count = Counts(ledger, places, policy)
        /\ view.renewals = Grants(ledger, places, policy)
        /\ view.waived = Waivers(ledger, places, policy)
    BY <1>4 DEF TallyFields
  <2>4. Rewaived(view, Flagged(view.waived, of, key))
          = Viewed(view.readable, view.count, view.renewals, Flagged(view.waived, of, key))
    BY <2>1 DEF SetsOneField
  <2>5. Tallied(ledger, more, policy)
          = Viewed(TRUE, Counts(ledger, more, policy), Grants(ledger, more, policy),
                   Waivers(ledger, more, policy))
    BY <2>2 DEF TallyFields
  <2> HIDE DEF of, key
  <2> QED
    BY <1>8, <1>9, <1>10, <2>3, <2>4, <2>5
<1> QED
  BY <1>5, <1>6, <1>7, <1>11 DEF FoldsIn, ViewOf, view, more, fact

\* Whatever a pass has read, one fact more makes the view that the set of the
\* facts it has read then has.
LEMMA FoldOneMore ==
    ASSUME NEW ledger, NEW places, NEW i, NEW policy, NEW retired, OneMore(ledger, places, i),
           ledger[i] \in Fact, ledger[i].what # "rebaseline"
    PROVE  FoldFact(policy, retired, ViewOf(ledger, places, policy, retired), ledger[i])
             = ViewOf(ledger, places \cup {i}, policy, retired)
<1> DEFINE fact == ledger[i]
           more == places \cup {i}
           view == ViewOf(ledger, places, policy, retired)
           fits == Fits(ledger, places, policy, retired) /\ Bounded(ledger, places, policy)
           stands == Accounted(fact, policy, retired) /\ WellBound(fact)
<1>1. Fits(ledger, more, policy, retired) <=> Fits(ledger, places, policy, retired) /\ stands
  BY FitsOneMore
<1>2. Bounded(ledger, more, policy) => Bounded(ledger, places, policy)
  BY BoundedOneMore DEF OneMore
<1>3. CASE ~fits
  <2>1. view = Refused /\ ViewOf(ledger, more, policy, retired) = Refused
    BY <1>1, <1>2, <1>3 DEF ViewOf
  <2>2. ~view.readable
    BY <2>1, RefusedIsUnreadable
  <2>3. FoldFact(policy, retired, view, fact) = Refused
    <3> HIDE DEF view
    <3> QED
      BY <2>2, FoldRefuses
  <2> QED
    BY <2>1, <2>3
<1>4. CASE ~stands
  <2>1. ViewOf(ledger, more, policy, retired) = Refused
    BY <1>1, <1>4 DEF ViewOf
  <2>2. FoldFact(policy, retired, view, fact) = Refused
    <3> HIDE DEF view
    <3> QED
      BY <1>4, FoldRefuses
  <2> QED
    BY <2>1, <2>2
<1>5. CASE /\ fits /\ stands
           /\ fact.policy # policy \/ fact.what \in {"abandon", "redesign"}
  <2>1. view = Tallied(ledger, places, policy)
    BY <1>5 DEF ViewOf
  <2>2. view.readable
    BY <2>1, TalliedFields DEF TallyFields
  <2>3. FoldFact(policy, retired, view, fact) = view
    <3> HIDE DEF view
    <3> QED
      BY <1>5, <2>2, FoldPasses
  <2>4. fact.what \in {"abandon", "redesign"} =>
           ~IsAttempt(fact) /\ fact.what # "renew" /\ fact.what \notin {"accept_risk", "split"}
    BY AttemptKindsApart
  <2>5. Counts(ledger, more, policy) = Counts(ledger, places, policy)
    BY <1>5, <2>4, CountsOneMore DEF OneMore
  <2>6. Grants(ledger, more, policy) = Grants(ledger, places, policy)
    BY <1>5, <2>4, GrantsOneMore DEF OneMore
  <2>7. Waivers(ledger, more, policy) = Waivers(ledger, places, policy)
    BY <1>5, <2>4, WaiversOneMore DEF OneMore
  <2>8. Tallied(ledger, more, policy) = Tallied(ledger, places, policy)
    BY <2>5, <2>6, <2>7 DEF Tallied
  <2>9. Bounded(ledger, more, policy)
    BY <1>5, <2>4, BoundedOneMore DEF OneMore
  <2> QED
    BY <1>1, <1>5, <2>1, <2>3, <2>8, <2>9 DEF ViewOf
<1>6. CASE /\ fits /\ stands /\ fact.policy = policy
           /\ fact.what \notin {"abandon", "redesign"}
  <2>1. Reading(ledger, places, i, policy, retired)
    BY <1>6 DEF Reading, OneMore
  <2>2. view = Tallied(ledger, places, policy)
    BY <1>6 DEF ViewOf
  <2>3. IsAttempt(fact) \/ fact.what = "renew" \/ fact.what \in {"accept_risk", "split"}
    BY <1>6, OtherKinds
  <2>4. FoldsIn(ledger, places, i, policy, retired)
    BY <2>1, <2>3, AttemptOneMore, RenewalOneMore, WaiverOneMore
  <2> QED
    BY <2>2, <2>4 DEF FoldsIn
<1> QED
  BY <1>3, <1>4, <1>5, <1>6

-----------------------------------------------------------------------------
(* A pass. *)

ReadPlaces(ledger, cycle, kinds, n) ==
    {i \in 1 .. n : ledger[i].cycle = cycle /\ ledger[i].what \in kinds}

PassBody(ledger, cycle, policy, retired, view, kinds, folded, n) ==
    IF n = 0 THEN view
    ELSE IF ledger[n].cycle = cycle /\ ledger[n].what \in kinds
         THEN FoldFact(policy, retired, folded[n - 1], ledger[n])
         ELSE folded[n - 1]

IsPass(ledger, cycle, policy, retired, view, kinds, folded) ==
    folded = [n \in 0 .. Len(ledger) |->
                PassBody(ledger, cycle, policy, retired, view, kinds, folded, n)]

LEMMA PassIs ==
    ASSUME NEW ledger, NEW cycle, NEW policy, NEW retired, NEW view, NEW kinds,
           NEW some, IsPass(ledger, cycle, policy, retired, view, kinds, some)
    PROVE  \E folded : /\ IsPass(ledger, cycle, policy, retired, view, kinds, folded)
                       /\ Pass(ledger, cycle, policy, retired, view, kinds)
                            = folded[Len(ledger)]
<1> DEFINE chosen == CHOOSE folded :
               IsPass(ledger, cycle, policy, retired, view, kinds, folded)
<1>1. IsPass(ledger, cycle, policy, retired, view, kinds, chosen)
  <2> HIDE DEF IsPass
  <2> QED
    OBVIOUS
<1>2. Pass(ledger, cycle, policy, retired, view, kinds) = chosen[Len(ledger)]
  BY DEF Pass, IsPass, PassBody
<1> QED
  BY <1>1, <1>2

LEMMA PassReads ==
    ASSUME NEW ledger \in Seq(Fact), NEW cycle, NEW policy, NEW retired, NEW places, NEW kinds,
           IsFiniteSet(places), "rebaseline" \notin kinds,
           places \cap ReadPlaces(ledger, cycle, kinds, Len(ledger)) = {}
    PROVE  Pass(ledger, cycle, policy, retired, ViewOf(ledger, places, policy, retired), kinds)
             = ViewOf(ledger, places \cup ReadPlaces(ledger, cycle, kinds, Len(ledger)),
                      policy, retired)
<1> DEFINE N == Len(ledger)
           read(n) == ReadPlaces(ledger, cycle, kinds, n)
           start == ViewOf(ledger, places, policy, retired)
           seen(n) == ViewOf(ledger, places \cup read(n), policy, retired)
           g == [n \in 0 .. N |-> seen(n)]
<1>1. N \in Nat /\ DOMAIN ledger = 1 .. N /\ \A n \in 1 .. N : ledger[n] \in Fact
  BY LenProperties
<1>2. seen(0) = start
  <2>1. read(0) = {}
    BY DEF ReadPlaces
  <2> QED
    BY <2>1
<1>3. ASSUME NEW n \in 1 .. N
      PROVE  seen(n) = IF ledger[n].cycle = cycle /\ ledger[n].what \in kinds
                       THEN FoldFact(policy, retired, seen(n - 1), ledger[n])
                       ELSE seen(n - 1)
  <2>1. CASE ledger[n].cycle = cycle /\ ledger[n].what \in kinds
    <3>1. read(n) = read(n - 1) \cup {n} /\ n \notin read(n - 1)
      BY <1>1, <2>1 DEF ReadPlaces
    <3>2. n \in read(N)
      BY <1>1, <2>1 DEF ReadPlaces
    <3>3. IsFiniteSet(read(n - 1))
      <4>1. IsFiniteSet(1 .. n - 1)
        BY <1>1, FS_Interval
      <4>2. read(n - 1) \in SUBSET (1 .. n - 1)
        BY DEF ReadPlaces
      <4> QED
        BY <4>1, <4>2, FS_Subset
    <3>4. IsFiniteSet(places \cup read(n - 1))
      BY <3>3, FS_Union
    <3>5. OneMore(ledger, places \cup read(n - 1), n)
      BY <3>1, <3>2, <3>4 DEF OneMore
    <3>6. FoldFact(policy, retired, seen(n - 1), ledger[n])
            = ViewOf(ledger, (places \cup read(n - 1)) \cup {n}, policy, retired)
      BY <1>1, <2>1, <3>5, FoldOneMore
    <3>7. (places \cup read(n - 1)) \cup {n} = places \cup read(n)
      BY <3>1
    <3> QED
      BY <2>1, <3>6, <3>7
  <2>2. CASE ~(ledger[n].cycle = cycle /\ ledger[n].what \in kinds)
    <3>1. read(n) = read(n - 1)
      BY <1>1, <2>2 DEF ReadPlaces
    <3> QED
      BY <2>2, <3>1
  <2> QED
    BY <2>1, <2>2
<1> HIDE DEF N, seen, start
<1>4. IsPass(ledger, cycle, policy, retired, start, kinds, g)
  <2>1. ASSUME NEW n \in 0 .. N
        PROVE  g[n] = PassBody(ledger, cycle, policy, retired, start, kinds, g, n)
    <3>1. CASE n = 0
      BY <1>2, <3>1 DEF PassBody
    <3>2. CASE n # 0
      <4>1. n \in 1 .. N /\ n - 1 \in 0 .. N
        BY <1>1, <3>2
      <4>2. g[n - 1] = seen(n - 1) /\ g[n] = seen(n)
        BY <4>1
      <4> HIDE DEF g
      <4> QED
        BY <1>3, <3>2, <4>1, <4>2 DEF PassBody
    <3> QED
      BY <3>1, <3>2
  <2> QED
    BY <2>1 DEF IsPass, N
<1>5. PICK folded : /\ IsPass(ledger, cycle, policy, retired, start, kinds, folded)
                    /\ Pass(ledger, cycle, policy, retired, start, kinds) = folded[N]
  <2> HIDE DEF g
  <2> QED
    BY <1>4, PassIs DEF N
<1>6. \A n \in 0 .. N :
        folded[n] = PassBody(ledger, cycle, policy, retired, start, kinds, folded, n)
  BY <1>5 DEF IsPass, N
<1> DEFINE S == {n \in Nat : n <= N => folded[n] = seen(n)}
<1>7. 0 \in S
  BY <1>1, <1>2, <1>6 DEF PassBody
<1>8. ASSUME NEW n \in Nat, n \in S
      PROVE  n + 1 \in S
  <2>1. CASE n + 1 <= N
    <3>1. n + 1 \in 1 .. N /\ n + 1 \in 0 .. N /\ n <= N /\ (n + 1) - 1 = n /\ n + 1 # 0
      BY <1>1, <2>1
    <3>2. folded[n] = seen(n)
      BY <1>8, <3>1
    <3>3. folded[n + 1]
            = PassBody(ledger, cycle, policy, retired, start, kinds, folded, n + 1)
      BY <1>6, <3>1
    <3>4. folded[n + 1] = seen(n + 1)
      BY <1>3, <3>1, <3>2, <3>3 DEF PassBody
    <3> QED
      BY <3>4
  <2>2. CASE ~(n + 1 <= N)
    BY <2>2
  <2> QED
    BY <2>1, <2>2
<1>9. N \in S
  <2> HIDE DEF S
  <2>1. Nat \subseteq S
    BY <1>7, <1>8, Reaches
  <2> QED
    BY <1>1, <2>1
<1>10. folded[N] = seen(N)
  BY <1>1, <1>9
<1> QED
  BY <1>5, <1>10 DEF seen, start, N

-----------------------------------------------------------------------------
(* The rebaselines. *)

RetiredBy(ledger, cycle, n) ==
    {ledger[i].retires : i \in {i \in 1 .. n : Rebases(ledger[i], cycle)}}

CollectBody(ledger, cycle, collected, n) ==
    IF n = 0 THEN {}
    ELSE IF Rebases(ledger[n], cycle)
         THEN collected[n - 1] \cup {ledger[n].retires}
         ELSE collected[n - 1]

IsCollection(ledger, cycle, collected) ==
    collected = [n \in 0 .. Len(ledger) |-> CollectBody(ledger, cycle, collected, n)]

LEMMA CollectionIs ==
    ASSUME NEW ledger, NEW cycle, NEW some, IsCollection(ledger, cycle, some)
    PROVE  \E collected : /\ IsCollection(ledger, cycle, collected)
                          /\ CollectRetired(ledger, cycle) = collected[Len(ledger)]
<1> DEFINE chosen == CHOOSE collected : IsCollection(ledger, cycle, collected)
<1>1. IsCollection(ledger, cycle, chosen)
  <2> HIDE DEF IsCollection
  <2> QED
    OBVIOUS
<1>2. CollectRetired(ledger, cycle) = chosen[Len(ledger)]
  BY DEF CollectRetired, IsCollection, CollectBody
<1> QED
  BY <1>1, <1>2

LEMMA CollectsRetired ==
    ASSUME NEW ledger \in Seq(Fact), NEW cycle
    PROVE  CollectRetired(ledger, cycle) = RetiredPolicies(ledger, cycle)
<1> DEFINE N == Len(ledger)
           seen(n) == RetiredBy(ledger, cycle, n)
           g == [n \in 0 .. N |-> seen(n)]
<1>1. N \in Nat /\ DOMAIN ledger = 1 .. N
  BY LenProperties
<1>2. seen(0) = {}
  BY DEF RetiredBy
<1>3. ASSUME NEW n \in 1 .. N
      PROVE  seen(n) = IF Rebases(ledger[n], cycle)
                       THEN seen(n - 1) \cup {ledger[n].retires} ELSE seen(n - 1)
  <2> DEFINE read(m) == {i \in 1 .. m : Rebases(ledger[i], cycle)}
  <2>1. read(n) = IF Rebases(ledger[n], cycle) THEN read(n - 1) \cup {n} ELSE read(n - 1)
    BY <1>1
  <2>2. \A m : seen(m) = {ledger[i].retires : i \in read(m)}
    BY DEF RetiredBy
  <2> HIDE DEF read, seen
  <2> QED
    BY <2>1, <2>2
<1>4. seen(N) = RetiredPolicies(ledger, cycle)
  BY <1>1 DEF RetiredBy, RetiredPolicies, FactsOf, Rebases
<1> HIDE DEF N, seen
<1>5. IsCollection(ledger, cycle, g)
  <2>1. ASSUME NEW n \in 0 .. N
        PROVE  g[n] = CollectBody(ledger, cycle, g, n)
    <3>1. CASE n = 0
      BY <1>2, <3>1 DEF CollectBody
    <3>2. CASE n # 0
      <4>1. n \in 1 .. N /\ n - 1 \in 0 .. N
        BY <1>1, <3>2
      <4>2. g[n - 1] = seen(n - 1) /\ g[n] = seen(n)
        BY <4>1
      <4> HIDE DEF g
      <4> QED
        BY <1>3, <3>2, <4>1, <4>2 DEF CollectBody
    <3> QED
      BY <3>1, <3>2
  <2> QED
    BY <2>1 DEF IsCollection, N
<1>6. PICK collected : /\ IsCollection(ledger, cycle, collected)
                       /\ CollectRetired(ledger, cycle) = collected[N]
  <2> HIDE DEF g
  <2> QED
    BY <1>5, CollectionIs DEF N
<1>7. \A n \in 0 .. N : collected[n] = CollectBody(ledger, cycle, collected, n)
  BY <1>6 DEF IsCollection, N
<1> DEFINE S == {n \in Nat : n <= N => collected[n] = seen(n)}
<1>8. 0 \in S
  <2>1. collected[0] = CollectBody(ledger, cycle, collected, 0)
    BY <1>1, <1>7
  <2>2. CollectBody(ledger, cycle, collected, 0) = {}
    BY DEF CollectBody
  <2> QED
    BY <2>1, <2>2, <1>2
<1>9. ASSUME NEW n \in Nat, n \in S
      PROVE  n + 1 \in S
  <2>1. CASE n + 1 <= N
    <3>1. n + 1 \in 1 .. N /\ n + 1 \in 0 .. N /\ n <= N /\ (n + 1) - 1 = n /\ n + 1 # 0
      BY <1>1, <2>1
    <3>2. collected[n] = seen(n)
      BY <1>9, <3>1
    <3>3. collected[n + 1] = CollectBody(ledger, cycle, collected, n + 1)
      BY <1>7, <3>1
    <3>4. collected[n + 1] = seen(n + 1)
      BY <1>3, <3>1, <3>2, <3>3 DEF CollectBody
    <3> QED
      BY <3>4
  <2>2. CASE ~(n + 1 <= N)
    BY <2>2
  <2> QED
    BY <2>1, <2>2
<1>10. N \in S
  <2> HIDE DEF S
  <2>1. Nat \subseteq S
    BY <1>8, <1>9, Reaches
  <2> QED
    BY <1>1, <2>1
<1>11. collected[N] = seen(N)
  BY <1>1, <1>10
<1> QED
  BY <1>4, <1>6, <1>11

-----------------------------------------------------------------------------
(* The passes together. *)

FoldedKinds == AttemptKinds \cup (DispositionKinds \ {"rebaseline"})

LEMMA EmptyIsNothing ==
    ASSUME NEW ledger, NEW policy, NEW retired
    PROVE  ViewOf(ledger, {}, policy, retired) = EmptyView
<1>1. /\ \A of, kind : CountedIn(ledger, {}, policy, of, kind) = {}
      /\ \A of, kinds, dimension : DisposedIn(ledger, {}, policy, of, kinds, dimension) = {}
  BY DEF CountedIn, DisposedIn
<1>2. /\ \A of, kind : Count(ledger, {}, policy, of, kind) = 0
      /\ \A of, dimension : Granted(ledger, {}, policy, of, dimension) = 0
      /\ \A of, dimension : Waives(ledger, {}, policy, of, dimension) = FALSE
  BY <1>1, FS_EmptySet DEF Count, Granted, Waives
<1>3. Fits(ledger, {}, policy, retired) /\ Bounded(ledger, {}, policy)
  BY <1>2, LedgerAssumption DEF Fits, Bounded
<1>4. Counts(ledger, {}, policy) = [of \in Subjects |-> [kind \in AttemptKinds |-> 0]]
  BY <1>2 DEF Counts
<1>5. Grants(ledger, {}, policy) = [of \in Cards |-> [dimension \in Dimensions |-> 0]]
  BY <1>2 DEF Grants
<1>6. Waivers(ledger, {}, policy) = [of \in Cards |-> [dimension \in Dimensions |-> FALSE]]
  BY <1>2 DEF Waivers
<1>7. Tallied(ledger, {}, policy) = EmptyView
  BY <1>4, <1>5, <1>6, Zenon DEF Tallied, EmptyView
<1> QED
  BY <1>3, <1>7 DEF ViewOf

LEMMA PassMore ==
    ASSUME NEW ledger \in Seq(Fact), NEW cycle, NEW policy, NEW retired, NEW view,
           NEW done, NEW kinds, done \cap kinds = {}, "rebaseline" \notin kinds,
           view = ViewOf(ledger, ReadPlaces(ledger, cycle, done, Len(ledger)), policy, retired)
    PROVE  Pass(ledger, cycle, policy, retired, view, kinds)
             = ViewOf(ledger, ReadPlaces(ledger, cycle, done \cup kinds, Len(ledger)),
                      policy, retired)
<1> DEFINE places(k) == ReadPlaces(ledger, cycle, k, Len(ledger))
<1>1. /\ places(done) \cap places(kinds) = {}
      /\ places(done) \cup places(kinds) = places(done \cup kinds)
  BY DEF ReadPlaces
<1>2. IsFiniteSet(places(done))
  <2>1. IsFiniteSet(1 .. Len(ledger))
    BY FS_Interval, LenProperties
  <2>2. places(done) \in SUBSET (1 .. Len(ledger))
    BY DEF ReadPlaces
  <2> QED
    BY <2>1, <2>2, FS_Subset
<1>3. Pass(ledger, cycle, policy, retired, view, kinds)
         = ViewOf(ledger, places(done) \cup places(kinds), policy, retired)
  BY <1>1, <1>2, PassReads
<1> QED
  BY <1>1, <1>3

LEMMA AllPasses ==
    ASSUME NEW ledger \in Seq(Fact), NEW cycle, NEW policy
    PROVE  Project(ledger, cycle, policy)
             = LET retired == RetiredPolicies(ledger, cycle)
               IN  IF RefusesRebaselines(ledger, cycle, policy, retired) THEN Refused
                   ELSE ViewOf(ledger, ReadPlaces(ledger, cycle, FoldedKinds, Len(ledger)),
                               policy, retired)
<1> DEFINE retired == CollectRetired(ledger, cycle)
           Read(view, kinds) == Pass(ledger, cycle, policy, retired, view, kinds)
           attempts == Read(EmptyView, AttemptKinds)
           renewals == Read(attempts, {"renew"})
           abandons == Read(renewals, {"abandon"})
           risks == Read(abandons, {"accept_risk"})
           splits == Read(risks, {"split"})
           redesigns == Read(splits, {"redesign"})
           After(kinds) == ViewOf(ledger, ReadPlaces(ledger, cycle, kinds, Len(ledger)),
                                  policy, retired)
           k2 == AttemptKinds \cup {"renew"}
           k3 == k2 \cup {"abandon"}
           k4 == k3 \cup {"accept_risk"}
           k5 == k4 \cup {"split"}
           k6 == k5 \cup {"redesign"}
<1>1. Project(ledger, cycle, policy)
        = IF RefusesRebaselines(ledger, cycle, policy, retired) THEN Refused ELSE redesigns
  BY DEF Project
<1>2. retired = RetiredPolicies(ledger, cycle)
  BY CollectsRetired
<1>3. EmptyView = After({})
  <2>1. ReadPlaces(ledger, cycle, {}, Len(ledger)) = {}
    BY DEF ReadPlaces
  <2> QED
    BY <2>1, EmptyIsNothing
<1> HIDE DEF retired
<1>4. attempts = After(AttemptKinds)
  <2>1. attempts = After({} \cup AttemptKinds)
    BY <1>3, PassMore DEF AttemptKinds
  <2>2. {} \cup AttemptKinds = AttemptKinds
    OBVIOUS
  <2> QED
    BY <2>1, <2>2
<1>5. renewals = After(k2)
  <2> HIDE DEF attempts
  <2> QED
    BY <1>4, PassMore DEF AttemptKinds
<1>6. abandons = After(k3)
  <2>1. k2 \cap {"abandon"} = {}
    BY DEF AttemptKinds
  <2> HIDE DEF renewals, k2
  <2> QED
    BY <1>5, <2>1, PassMore
<1>7. risks = After(k4)
  <2>1. k3 \cap {"accept_risk"} = {}
    BY DEF AttemptKinds
  <2> HIDE DEF abandons, k3
  <2> QED
    BY <1>6, <2>1, PassMore
<1>8. splits = After(k5)
  <2>1. k4 \cap {"split"} = {}
    BY DEF AttemptKinds
  <2> HIDE DEF risks, k4
  <2> QED
    BY <1>7, <2>1, PassMore
<1>9. redesigns = After(k6)
  <2>1. k5 \cap {"redesign"} = {}
    BY DEF AttemptKinds
  <2> HIDE DEF splits, k5
  <2> QED
    BY <1>8, <2>1, PassMore
<1>10. k6 = FoldedKinds
  BY DEF FoldedKinds, DispositionKinds
<1> HIDE DEF redesigns, k6
<1> QED
  BY <1>1, <1>2, <1>9, <1>10

\* What a set of the cycle's facts counts is what the passes counted.
LEMMA CountedTheSame ==
    ASSUME NEW ledger \in Seq(Fact), NEW cycle, NEW policy
    PROVE  LET places == ReadPlaces(ledger, cycle, FoldedKinds, Len(ledger)) IN
           /\ \A of \in Subjects, kind \in AttemptKinds :
                CountedIn(ledger, places, policy, of, kind)
                    = CountedAttempts(ledger, cycle, policy, of, kind)
           /\ \A of, dimension :
                /\ DisposedIn(ledger, places, policy, of, {"renew"}, dimension)
                     = CountedDispositions(ledger, cycle, policy, of, {"renew"}, dimension)
                /\ DisposedIn(ledger, places, policy, of, {"accept_risk", "split"}, dimension)
                     = CountedDispositions(ledger, cycle, policy, of, {"accept_risk", "split"},
                                           dimension)
<1>1. DOMAIN ledger = 1 .. Len(ledger)
  BY LenProperties
<1>2. AttemptKinds \subseteq FoldedKinds /\ {"renew", "accept_risk", "split"} \subseteq FoldedKinds
  BY DEF FoldedKinds, DispositionKinds
<1> HIDE DEF FoldedKinds
<1> QED
  BY <1>1, <1>2 DEF CountedIn, CountedAttempts, DisposedIn, CountedDispositions, ReadPlaces

LEMMA FactsBound ==
    ASSUME NEW ledger \in Seq(Fact), NEW cycle, NEW policy,
           Cardinality(FactsOf(ledger, cycle)) <= MaxU32
    PROVE  /\ \A of, kind : Attempts(ledger, cycle, policy, of, kind) <= MaxU32
           /\ \A of, dimension : Renewals(ledger, cycle, policy, of, dimension) <= MaxU32
<1> DEFINE facts == FactsOf(ledger, cycle)
<1>1. IsFiniteSet(facts)
  <2>1. IsFiniteSet(1 .. Len(ledger)) /\ DOMAIN ledger = 1 .. Len(ledger)
    BY FS_Interval, LenProperties
  <2>2. facts \in SUBSET (1 .. Len(ledger))
    BY <2>1 DEF FactsOf
  <2> QED
    BY <2>1, <2>2, FS_Subset
<1>2. ASSUME NEW T \in SUBSET facts
      PROVE  Cardinality(T) <= MaxU32
  <2> HIDE DEF facts
  <2>1. IsFiniteSet(T) /\ Cardinality(T) <= Cardinality(facts)
    BY <1>1, FS_Subset
  <2>2. Cardinality(T) \in Nat /\ Cardinality(facts) \in Nat /\ MaxU32 \in Nat
    BY <1>1, <2>1, FS_CardinalityType, LedgerAssumption
  <2>3. Cardinality(facts) <= MaxU32
    BY DEF facts
  <2> QED
    BY <2>1, <2>2, <2>3
<1>3. /\ \A of, kind : CountedAttempts(ledger, cycle, policy, of, kind) \in SUBSET facts
      /\ \A of, dimension :
           CountedDispositions(ledger, cycle, policy, of, {"renew"}, dimension) \in SUBSET facts
  BY DEF CountedAttempts, CountedDispositions, FactsOf
<1> HIDE DEF facts
<1> QED
  BY <1>2, <1>3 DEF Attempts, Renewals

\* The view of a cycle that the passes fold from a ledger is the one the set of
\* the cycle's facts has, whatever the order of the ledger and whatever else
\* stands in it (convergence.rs, project): the rebaselines refuse what the set
\* refuses, and no pass depends on another.
THEOREM ProjectionMeans ==
    ASSUME NEW ledger \in Seq(Fact), NEW cycle, NEW policy
    PROVE  Project(ledger, cycle, policy) = ProjectedFacts(ledger, cycle, policy)
<1> DEFINE retired == RetiredPolicies(ledger, cycle)
           N == Len(ledger)
           places == ReadPlaces(ledger, cycle, FoldedKinds, N)
           refuses == RefusesRebaselines(ledger, cycle, policy, retired)
           fits == Fits(ledger, places, policy, retired)
           small == Bounded(ledger, places, policy)
           readable == Readable(ledger, cycle, policy)
<1>1. Project(ledger, cycle, policy)
        = IF refuses THEN Refused ELSE ViewOf(ledger, places, policy, retired)
  BY AllPasses
<1>2. N \in Nat /\ DOMAIN ledger = 1 .. N /\ \A i \in 1 .. N : ledger[i] \in Fact
  BY LenProperties
<1>3. /\ \A of \in Subjects, kind \in AttemptKinds :
           Count(ledger, places, policy, of, kind) = Attempts(ledger, cycle, policy, of, kind)
      /\ \A of, dimension :
           /\ Granted(ledger, places, policy, of, dimension)
                = Renewals(ledger, cycle, policy, of, dimension)
           /\ Waives(ledger, places, policy, of, dimension)
                = Waived(ledger, cycle, policy, of, dimension)
  BY CountedTheSame DEF Count, Granted, Waives, Attempts, Renewals, Waived
<1>4. \A i \in 1 .. N : ledger[i].cycle = cycle <=> i \in places \/ Rebases(ledger[i], cycle)
  <2>1. \A i \in 1 .. N : ledger[i].what \in FoldedKinds \/ ledger[i].what = "rebaseline"
    BY <1>2 DEF Fact, FoldedKinds
  <2> QED
    BY <2>1 DEF ReadPlaces, Rebases
<1>5. FactsOf(ledger, cycle) = {i \in 1 .. N : i \in places \/ Rebases(ledger[i], cycle)}
  BY <1>2, <1>4 DEF FactsOf
<1>6. places \subseteq 1 .. N
  BY DEF ReadPlaces
<1> HIDE DEF retired, N, places
<1>7. refuses <=> \/ policy \in retired
                  \/ \E i \in 1 .. N :
                       /\ Rebases(ledger[i], cycle)
                       /\ ~(Accounted(ledger[i], policy, retired) /\ WellBound(ledger[i]))
  BY <1>2 DEF RefusesRebaselines
<1>8. (~refuses /\ fits) <=>
          /\ policy \notin retired
          /\ \A i \in FactsOf(ledger, cycle) :
                Accounted(ledger[i], policy, retired) /\ WellBound(ledger[i])
  BY <1>5, <1>6, <1>7 DEF Fits
<1>9. small <=>
          /\ \A of \in Subjects, kind \in AttemptKinds :
                Attempts(ledger, cycle, policy, of, kind) <= MaxU32
          /\ \A of \in Cards, dimension \in Dimensions :
                Renewals(ledger, cycle, policy, of, dimension) <= MaxU32
  BY <1>3 DEF Bounded
<1>10. Cardinality(FactsOf(ledger, cycle)) <= MaxU32 => small
  <2> HIDE DEF small
  <2> QED
    BY <1>9, FactsBound
<1>11. readable <=> ~refuses /\ fits /\ small
  <2> HIDE DEF refuses, fits, small
  <2> QED
    BY <1>8, <1>9, <1>10 DEF Readable, retired
<1>12. Tallied(ledger, places, policy)
         = [readable |-> TRUE,
            count |-> [of \in Subjects |-> [kind \in AttemptKinds |->
                          Attempts(ledger, cycle, policy, of, kind)]],
            renewals |-> [card \in Cards |-> [dimension \in Dimensions |->
                          Renewals(ledger, cycle, policy, card, dimension)]],
            waived |-> [card \in Cards |-> [dimension \in Dimensions |->
                          Waived(ledger, cycle, policy, card, dimension)]]]
  <2>1. Counts(ledger, places, policy)
          = [of \in Subjects |-> [kind \in AttemptKinds |->
                Attempts(ledger, cycle, policy, of, kind)]]
    BY <1>3 DEF Counts
  <2>2. Grants(ledger, places, policy)
          = [card \in Cards |-> [dimension \in Dimensions |->
                Renewals(ledger, cycle, policy, card, dimension)]]
    BY <1>3 DEF Grants
  <2>3. Waivers(ledger, places, policy)
          = [card \in Cards |-> [dimension \in Dimensions |->
                Waived(ledger, cycle, policy, card, dimension)]]
    BY <1>3 DEF Waivers
  <2> QED
    BY <2>1, <2>2, <2>3, Zenon DEF Tallied
<1>13. ViewOf(ledger, places, policy, retired)
         = IF fits /\ small THEN Tallied(ledger, places, policy) ELSE Refused
  BY DEF ViewOf
<1> HIDE DEF refuses, fits, small
<1>14. CASE readable
  <2>1. Project(ledger, cycle, policy) = Tallied(ledger, places, policy)
    BY <1>1, <1>11, <1>13, <1>14
  <2>2. ProjectedFacts(ledger, cycle, policy) = Tallied(ledger, places, policy)
    BY <1>12, <1>14, Zenon DEF ProjectedFacts
  <2> QED
    BY <2>1, <2>2
<1>15. CASE ~readable
  <2>1. Project(ledger, cycle, policy) = Refused
    BY <1>1, <1>11, <1>13, <1>15
  <2>2. ProjectedFacts(ledger, cycle, policy) = Refused
    BY <1>15 DEF ProjectedFacts
  <2> QED
    BY <2>1, <2>2
<1> QED
  BY <1>14, <1>15

-----------------------------------------------------------------------------
(* The order of the events. *)

\* `other` holds the facts of `ledger` in another order.
Reorders(p, ledger, other) ==
    /\ ledger \in Seq(Fact) /\ other \in Seq(Fact) /\ Len(other) = Len(ledger)
    /\ p \in Bijection(1 .. Len(ledger), 1 .. Len(ledger))
    /\ \A i \in 1 .. Len(ledger) : other[i] = ledger[p[i]]

LEMMA SameSize ==
    ASSUME NEW N \in Nat, NEW p \in Bijection(1 .. N, 1 .. N), NEW S \in SUBSET (1 .. N),
           NEW T \in SUBSET (1 .. N), \A i \in 1 .. N : i \in T <=> p[i] \in S
    PROVE  Cardinality(T) = Cardinality(S)
<1> DEFINE q == [i \in T |-> p[i]]
<1>1. /\ p \in [1 .. N -> 1 .. N]
      /\ \A i, j \in 1 .. N : p[i] = p[j] => i = j
      /\ \A k \in 1 .. N : \E i \in 1 .. N : p[i] = k
  BY DEF Bijection, Injection, Surjection, IsInjective
<1>2. q \in [T -> S]
  BY <1>1
<1>3. \A i, j \in T : q[i] = q[j] => i = j
  BY <1>1
<1>4. \A k \in S : \E i \in T : q[i] = k
  BY <1>1
<1>5. q \in Bijection(T, S)
  <2> HIDE DEF q
  <2> QED
    BY <1>2, <1>3, <1>4 DEF Bijection, Injection, Surjection, IsInjective
<1>6. IsFiniteSet(T)
  <2>1. IsFiniteSet(1 .. N)
    BY FS_Interval
  <2> QED
    BY <2>1, FS_Subset
<1>7. ExistsBijection(T, S)
  BY <1>5 DEF ExistsBijection
<1> QED
  BY <1>6, <1>7, FS_Bijection

LEMMA ReorderedCounts ==
    ASSUME NEW p, NEW ledger, NEW other, Reorders(p, ledger, other), NEW cycle, NEW policy
    PROVE  /\ RetiredPolicies(other, cycle) = RetiredPolicies(ledger, cycle)
           /\ Cardinality(FactsOf(other, cycle)) = Cardinality(FactsOf(ledger, cycle))
           /\ \A of, kind : Attempts(other, cycle, policy, of, kind)
                               = Attempts(ledger, cycle, policy, of, kind)
           /\ \A of, dimension : Renewals(other, cycle, policy, of, dimension)
                                    = Renewals(ledger, cycle, policy, of, dimension)
           /\ \A of, dimension : Waived(other, cycle, policy, of, dimension)
                                    = Waived(ledger, cycle, policy, of, dimension)
<1> DEFINE N == Len(ledger)
<1>1. /\ N \in Nat /\ DOMAIN ledger = 1 .. N /\ DOMAIN other = 1 .. N
      /\ p \in Bijection(1 .. N, 1 .. N) /\ \A i \in 1 .. N : other[i] = ledger[p[i]]
  BY LenProperties DEF Reorders
<1>2. /\ \A i \in 1 .. N : p[i] \in 1 .. N
      /\ \A k \in 1 .. N : \E i \in 1 .. N : p[i] = k
  BY <1>1 DEF Bijection, Injection, Surjection
<1> HIDE DEF N
<1>3. ASSUME NEW S \in SUBSET (1 .. N), NEW T \in SUBSET (1 .. N),
             \A i \in 1 .. N : i \in T <=> p[i] \in S
      PROVE  Cardinality(T) = Cardinality(S)
  BY <1>1, <1>3, SameSize
<1>4. RetiredPolicies(other, cycle) = RetiredPolicies(ledger, cycle)
  <2> DEFINE R(l) == {i \in FactsOf(l, cycle) : l[i].what = "rebaseline"}
  <2>1. \A i \in 1 .. N : i \in R(other) <=> p[i] \in R(ledger)
    BY <1>1, <1>2 DEF FactsOf
  <2>2. R(other) \subseteq 1 .. N /\ R(ledger) \subseteq 1 .. N
    BY <1>1 DEF FactsOf
  <2>3. /\ RetiredPolicies(other, cycle) = {other[i].retires : i \in R(other)}
        /\ RetiredPolicies(ledger, cycle) = {ledger[i].retires : i \in R(ledger)}
    BY DEF RetiredPolicies
  <2> HIDE DEF R
  <2>4. ASSUME NEW i \in R(other)
        PROVE  other[i].retires \in {ledger[k].retires : k \in R(ledger)}
    BY <1>1, <2>1, <2>2
  <2>5. ASSUME NEW k \in R(ledger)
        PROVE  ledger[k].retires \in {other[i].retires : i \in R(other)}
    <3>1. PICK i \in 1 .. N : p[i] = k
      BY <1>2, <2>2
    <3>2. i \in R(other) /\ other[i] = ledger[k]
      BY <1>1, <2>1, <3>1
    <3> QED
      BY <3>2
  <2> QED
    BY <2>3, <2>4, <2>5
<1>5. Cardinality(FactsOf(other, cycle)) = Cardinality(FactsOf(ledger, cycle))
  <2>1. /\ FactsOf(other, cycle) \in SUBSET (1 .. N) /\ FactsOf(ledger, cycle) \in SUBSET (1 .. N)
        /\ \A i \in 1 .. N : i \in FactsOf(other, cycle) <=> p[i] \in FactsOf(ledger, cycle)
    BY <1>1, <1>2 DEF FactsOf
  <2> QED
    BY <1>3, <2>1
<1>6. ASSUME NEW of, NEW kind
      PROVE  Attempts(other, cycle, policy, of, kind) = Attempts(ledger, cycle, policy, of, kind)
  <2> DEFINE C(l) == CountedAttempts(l, cycle, policy, of, kind)
  <2>1. /\ C(other) \in SUBSET (1 .. N) /\ C(ledger) \in SUBSET (1 .. N)
        /\ \A i \in 1 .. N : i \in C(other) <=> p[i] \in C(ledger)
    BY <1>1, <1>2 DEF CountedAttempts
  <2> HIDE DEF C
  <2>2. Cardinality(C(other)) = Cardinality(C(ledger))
    BY <1>3, <2>1
  <2> QED
    BY <2>2 DEF C, Attempts
<1>7. ASSUME NEW of, NEW kinds, NEW dimension
      PROVE  LET C(l) == CountedDispositions(l, cycle, policy, of, kinds, dimension) IN
             Cardinality(C(other)) = Cardinality(C(ledger)) /\ (C(other) # {} <=> C(ledger) # {})
  <2> DEFINE C(l) == CountedDispositions(l, cycle, policy, of, kinds, dimension)
  <2>1. /\ C(other) \in SUBSET (1 .. N) /\ C(ledger) \in SUBSET (1 .. N)
        /\ \A i \in 1 .. N : i \in C(other) <=> p[i] \in C(ledger)
    BY <1>1, <1>2 DEF CountedDispositions
  <2> HIDE DEF C
  <2>2. Cardinality(C(other)) = Cardinality(C(ledger))
    BY <1>3, <2>1
  <2>3. C(other) # {} <=> C(ledger) # {}
    BY <1>2, <2>1
  <2> QED
    BY <2>2, <2>3 DEF C
<1>8. ASSUME NEW of, NEW dimension
      PROVE  Renewals(other, cycle, policy, of, dimension)
                = Renewals(ledger, cycle, policy, of, dimension)
  BY <1>7 DEF Renewals
<1>9. ASSUME NEW of, NEW dimension
      PROVE  Waived(other, cycle, policy, of, dimension)
                = Waived(ledger, cycle, policy, of, dimension)
  BY <1>7 DEF Waived
<1> QED
  BY <1>4, <1>5, <1>6, <1>8, <1>9

\* The same facts in any order give the same view (convergence.rs, the comment
\* above the first pass and rebaselines_are_independent_of_event_order): a
\* rebaseline may stand before or after what it retires.
THEOREM OrderIsImmaterial ==
    ASSUME NEW p, NEW ledger, NEW other, Reorders(p, ledger, other), NEW cycle, NEW policy
    PROVE  Project(other, cycle, policy) = Project(ledger, cycle, policy)
<1> DEFINE retired == RetiredPolicies(ledger, cycle)
<1>1. /\ RetiredPolicies(other, cycle) = retired
      /\ Cardinality(FactsOf(other, cycle)) = Cardinality(FactsOf(ledger, cycle))
      /\ \A of, kind : Attempts(other, cycle, policy, of, kind)
                          = Attempts(ledger, cycle, policy, of, kind)
      /\ \A of, dimension : Renewals(other, cycle, policy, of, dimension)
                               = Renewals(ledger, cycle, policy, of, dimension)
      /\ \A of, dimension : Waived(other, cycle, policy, of, dimension)
                               = Waived(ledger, cycle, policy, of, dimension)
  BY ReorderedCounts
<1>2. (\A i \in FactsOf(other, cycle) :
          Accounted(other[i], policy, retired) /\ WellBound(other[i]))
        <=> (\A i \in FactsOf(ledger, cycle) :
               Accounted(ledger[i], policy, retired) /\ WellBound(ledger[i]))
  <2> DEFINE N == Len(ledger)
             good(fact) == Accounted(fact, policy, retired) /\ WellBound(fact)
  <2>1. /\ N \in Nat /\ DOMAIN ledger = 1 .. N /\ DOMAIN other = 1 .. N
        /\ p \in Bijection(1 .. N, 1 .. N) /\ \A i \in 1 .. N : other[i] = ledger[p[i]]
    <3>1. Len(ledger) \in Nat /\ DOMAIN ledger = 1 .. Len(ledger)
      BY LenProperties DEF Reorders
    <3>2. DOMAIN other = 1 .. Len(ledger)
      BY LenProperties DEF Reorders
    <3> QED
      BY <3>1, <3>2 DEF Reorders
  <2>2. /\ \A i \in 1 .. N : p[i] \in 1 .. N
        /\ \A k \in 1 .. N : \E i \in 1 .. N : p[i] = k
    BY <2>1 DEF Bijection, Injection, Surjection
  <2> HIDE DEF N, good, retired
  <2>3. (\A i \in FactsOf(other, cycle) : good(other[i]))
            <=> (\A i \in FactsOf(ledger, cycle) : good(ledger[i]))
    <3>1. /\ FactsOf(other, cycle) \subseteq 1 .. N /\ FactsOf(ledger, cycle) \subseteq 1 .. N
          /\ \A i \in 1 .. N : i \in FactsOf(other, cycle) <=> p[i] \in FactsOf(ledger, cycle)
      BY <2>1, <2>2 DEF FactsOf
    <3>2. ASSUME \A i \in FactsOf(other, cycle) : good(other[i]),
                 NEW k \in FactsOf(ledger, cycle)
          PROVE  good(ledger[k])
      <4>1. PICK i \in 1 .. N : p[i] = k
        BY <2>2, <3>1
      <4>2. i \in FactsOf(other, cycle) /\ other[i] = ledger[k]
        BY <2>1, <3>1, <4>1
      <4> QED
        BY <3>2, <4>2
    <3>3. ASSUME \A k \in FactsOf(ledger, cycle) : good(ledger[k]),
                 NEW i \in FactsOf(other, cycle)
          PROVE  good(other[i])
      <4>1. i \in 1 .. N /\ p[i] \in FactsOf(ledger, cycle) /\ other[i] = ledger[p[i]]
        BY <2>1, <3>1
      <4> QED
        BY <3>3, <4>1
    <3> QED
      BY <3>2, <3>3
  <2> QED
    BY <2>3 DEF good
<1> HIDE DEF retired
<1>3. Readable(other, cycle, policy) <=> Readable(ledger, cycle, policy)
  BY <1>1, <1>2 DEF Readable, retired
<1>4. ProjectedFacts(other, cycle, policy) = ProjectedFacts(ledger, cycle, policy)
  BY <1>1, <1>3 DEF ProjectedFacts
<1>5. ledger \in Seq(Fact) /\ other \in Seq(Fact)
  BY DEF Reorders
<1> QED
  BY <1>4, <1>5, ProjectionMeans

-----------------------------------------------------------------------------
(* The ledger grows by facts. *)

LedgerInv ==
    /\ subject \in Judged
    /\ events \in Seq(Appended) /\ Len(events) <= MaxEvents

LEMMA LedgerStarts == Init => LedgerInv
BY EmptySeq, FactsAssumption DEF Init, LedgerInv

LEMMA LedgerStep == LedgerInv /\ [Next]_vars => LedgerInv'
<1> SUFFICES ASSUME LedgerInv, [Next]_vars
             PROVE  LedgerInv'
  OBVIOUS
<1>1. subject' = subject
  BY DEF Next, vars
<1>2. [\E fact \in Appended : AppendFact(fact)]_events
  BY PartsMove
<1>3. CASE events' = events
  BY <1>1, <1>3 DEF LedgerInv
<1>4. ASSUME NEW fact \in Appended, AppendFact(fact)
      PROVE  LedgerInv'
  <2>1. events' \in Seq(Appended) /\ Len(events') = Len(events) + 1
    BY <1>4, AppendProperties DEF AppendFact, LedgerInv
  <2>2. Len(events) < MaxEvents /\ Len(events) \in Nat
    BY <1>4, LenProperties DEF AppendFact, LedgerInv
  <2> QED
    BY <1>1, <2>1, <2>2, FactsAssumption DEF LedgerInv
<1> QED
  BY <1>2, <1>3, <1>4

\* The projection of every cycle agrees with the set of its facts in every
\* state, however many facts the store has taken.
THEOREM ProjectionAlwaysAgrees == Spec => []ProjectionAgrees
<1>1. LedgerInv => ProjectionAgrees
  <2> SUFFICES ASSUME LedgerInv
               PROVE  ProjectionAgrees
    OBVIOUS
  <2>1. events \in Seq(Appended) /\ Len(events) <= MaxEvents /\ subject \in Judged
    BY DEF LedgerInv
  <2>2. Len(events) \in Nat /\ DOMAIN events = 1 .. Len(events)
        /\ \A n \in 1 .. Len(events) : events[n] \in Appended
    BY <2>1, LenProperties
  <2>3. ToSet(events) \subseteq Appended
    BY <2>2 DEF ToSet
  <2>4. events \in Seq(Fact)
    BY <2>1, FactsAssumption
  <2>5. TypeOK
    BY <2>1, <2>3 DEF TypeOK
  <2> QED
    BY <2>4, <2>5, ProjectionMeans DEF ProjectionAgrees
<1> QED
  BY <1>1, LedgerStarts, LedgerStep, PTL DEF Spec
=============================================================================
