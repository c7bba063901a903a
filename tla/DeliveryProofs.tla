--------------------------- MODULE DeliveryProofs ---------------------------
(***************************************************************************)
(* The verdicts in force are verdicts on what is in force, nothing that a  *)
(* reviewer left open is lost, and only reviewed commits are selected,     *)
(* with or after what they depend on: for any cards, dependencies,         *)
(* locations, findings and bounds.                                         *)
(*                                                                         *)
(* Every action does one of nine things to each card (CardStep, EveryStep, *)
(* the ...Step lemmas) and at most adds a commit (WorkStep). The invariant *)
(* has these layers:                                                       *)
(*   Typed      the types, and that every handoff is of a commit the gates *)
(*              of its card passed for at that revision                    *)
(*   Judged     every review is of a handoff it was opened on and repeats  *)
(*              what that one said; an approved or integrating card's last *)
(*              review approved its last handoff, which stands             *)
(*   CarriedOn  each review answers for what the one before left open      *)
(* What OpenFindingsCarried says of any two reviews follows from CarriedOn *)
(* by induction on the later one, done by hand with the least number that  *)
(* fails: SumsExist and SumIs do the same for the sum of the modules.      *)
(***************************************************************************)
EXTENDS Delivery, TLAPS, FiniteSetTheorems, SequenceTheorems, WellFoundedInduction

(***************************************************************************)
(* Tables and sequences.                                                   *)
(***************************************************************************)

\* The states there are.
LEMMA Words ==
    L!CardStates =
         {"draft", "ready", "leased", "active", "handed_off", "review_pending",
          "changes_requested", "approved", "integrating", "accepted", "landed",
          "closed", "blocked", "abandoned"}
  BY DEF L!CardStates

\* The moves the commands ask of the table.
LEMMA Moves ==
    ASSUME NEW from \in L!CardStates
    PROVE  /\ L!CheckTransition(from, "handed_off") => from = "active"
           /\ L!CheckTransition(from, "review_pending") => from = "handed_off"
           /\ L!CheckTransition(from, "approved") <=> from = "review_pending"
           /\ L!CheckTransition(from, "active") =>
                 from \notin {"integrating", "landed", "closed"}
           /\ \A to \in Decisions :
                 L!CheckTransition(from, to) => from \notin {"landed", "closed"}
           /\ L!IsRevisable(from) => from \notin {"integrating", "landed", "closed"}
  BY Words DEF L!CheckTransition, L!Successors, L!IsRevisable, Decisions

\* Of a set of numbers there is a least, and of a bounded one a greatest.
LEMMA Least ==
    ASSUME NEW T \in SUBSET Nat, T # {}
    PROVE  \E n \in T : \A m \in T : n <= m
<1> DEFINE LessThan == {pair \in Nat \X Nat : pair[1] < pair[2]}
<1>1. IsWellFoundedOn(LessThan, Nat)
  <2>1. LessThan = OpToRel(<, Nat)
    BY DEF OpToRel
  <2> QED
    BY <2>1, NatLessThanWellFounded
<1>2. PICK n \in T : \A m \in T : <<m, n>> \notin LessThan
  BY <1>1, WFMin
<1>3. ASSUME NEW m \in T
      PROVE  n <= m
  <2>1. m \in Nat /\ n \in Nat
    OBVIOUS
  <2>2. ~ (m < n)
    BY <1>2, <2>1
  <2> QED
    BY <2>1, <2>2
<1> QED
  BY <1>3

\* ... and what Max names is the greatest.
LEMMA Greatest ==
    ASSUME NEW n \in Nat, NEW T \in SUBSET (1 .. n), T # {}
    PROVE  /\ Max(T) \in T
           /\ \A m \in T : Max(T) >= m
<1> DEFINE Under == {k \in Nat : \A m \in T : m <= k}
<1>1. n \in Under
  OBVIOUS
<1>2. PICK k \in Under : \A j \in Under : k <= j
  BY <1>1, Least
<1>3. k \in T
  <2> SUFFICES ASSUME k \notin T PROVE FALSE
    OBVIOUS
  <2>1. \A m \in T : m <= k - 1
    OBVIOUS
  <2>2. PICK m \in T : m <= k - 1 /\ m \in 1 .. n
    BY <2>1
  <2>3. k - 1 \in Under
    BY <2>1, <2>2
  <2> QED
    BY <1>2, <2>3
<1>4. k \in T /\ \A m \in T : k >= m
  BY <1>2, <1>3
<1> HIDE DEF Under
<1> QED
  BY <1>4 DEF Max

\* What appending to a sequence keeps and adds.
LEMMA Appended ==
    ASSUME NEW S, NEW seq \in Seq(S), NEW elt \in S
    PROVE  /\ Append(seq, elt) \in Seq(S) /\ Append(seq, elt) # <<>>
           /\ Len(seq) \in Nat /\ Len(Append(seq, elt)) = Len(seq) + 1
           /\ DOMAIN seq = 1 .. Len(seq) /\ DOMAIN Append(seq, elt) = 1 .. (Len(seq) + 1)
           /\ \A i \in DOMAIN seq : i \in DOMAIN Append(seq, elt) /\ Append(seq, elt)[i] = seq[i]
           /\ Append(seq, elt)[Len(seq) + 1] = elt /\ Last(Append(seq, elt)) = elt
           /\ \A i \in DOMAIN Append(seq, elt) : i \in DOMAIN seq \/ i = Len(seq) + 1
<1>1. /\ Append(seq, elt) \in Seq(S) /\ Append(seq, elt) # <<>>
      /\ Len(seq) \in Nat /\ Len(Append(seq, elt)) = Len(seq) + 1
      /\ DOMAIN seq = 1 .. Len(seq)
      /\ \A i \in 1 .. Len(seq) : Append(seq, elt)[i] = seq[i]
      /\ Append(seq, elt)[Len(seq) + 1] = elt
  BY AppendProperties, LenProperties
<1>2. DOMAIN Append(seq, elt) = 1 .. (Len(seq) + 1)
  BY <1>1, LenProperties
<1>3. Last(Append(seq, elt)) = elt
  BY <1>1 DEF Last
<1> QED
  BY <1>1, <1>2, <1>3

\* The last element of a sequence.
LEMMA LastOf ==
    ASSUME NEW S, NEW seq \in Seq(S), seq # <<>>
    PROVE  /\ Len(seq) \in DOMAIN seq /\ Last(seq) = seq[Len(seq)] /\ Last(seq) \in S
           /\ Len(seq) \in Nat \ {0} /\ DOMAIN seq = 1 .. Len(seq)
  BY LenProperties, ElementOfSeq, EmptySeq DEF Last

(***************************************************************************)
(* Types.                                                                  *)
(***************************************************************************)

\* What is known of one card's records; a handoff is of a commit its gates passed for.
CardTyped(card) ==
    /\ head[card] \in Commits
    /\ cardState[card] \in L!CardStates
    /\ revision[card] \in Nat \ {0}
    /\ passed[card] \subseteq (1 .. revision[card]) \X Commits
    /\ handoffs[card] \in Seq(Handoff(card))
    /\ \A i \in DOMAIN handoffs[card] :
          <<handoffs[card][i].revision, handoffs[card][i].candidate>> \in passed[card]
    /\ begun[card] \subseteq DOMAIN handoffs[card]
    /\ reviews[card] \in Seq(Review(card))
    /\ member[card] \in {0} \cup DOMAIN reviews[card]

\* Each variable is a function of the cards.
Tables ==
    /\ head = [card \in Cards |-> head[card]]
    /\ cardState = [card \in Cards |-> cardState[card]]
    /\ revision = [card \in Cards |-> revision[card]]
    /\ passed = [card \in Cards |-> passed[card]]
    /\ handoffs = [card \in Cards |-> handoffs[card]]
    /\ begun = [card \in Cards |-> begun[card]]
    /\ reviews = [card \in Cards |-> reviews[card]]
    /\ member = [card \in Cards |-> member[card]]

\* The history of the commits, of which there is one from the start.
History ==
    /\ contains \in Seq(SUBSET (1 .. MaxCommits))
    /\ contains # <<>>
    /\ Len(contains) <= MaxCommits

Typed ==
    /\ scenario \in Scenarios /\ scenario \subseteq Cards
    /\ History
    /\ Tables
    /\ \A card \in Cards : CardTyped(card)

\* Commits are the numbers from the baseline to the newest.
LEMMA CommitsAreNumbers ==
    ASSUME History
    PROVE  /\ Len(contains) \in Nat /\ Commits = 1 .. Len(contains) /\ Baseline \in Commits
           /\ \A commit \in Commits : contains[commit] \subseteq 1 .. MaxCommits
<1>1. contains \in Seq(SUBSET (1 .. MaxCommits)) /\ contains # <<>>
  BY DEF History
<1>2. Len(contains) \in Nat \ {0} /\ DOMAIN contains = 1 .. Len(contains)
  BY <1>1, LastOf
<1> QED
  BY <1>1, <1>2, ElementOfSeq DEF Commits, Baseline

\* The invariant of the proofs has the model's own as a part.
LEMMA TypedIsTypeOK == Typed => TypeOK
<1> SUFFICES ASSUME Typed PROVE TypeOK
  OBVIOUS
<1>1. head \in [Cards -> Commits]
  BY DEF Typed, Tables, CardTyped
<1>2. cardState \in [Cards -> L!CardStates]
  BY DEF Typed, Tables, CardTyped
<1>3. revision \in [Cards -> Nat \ {0}]
  BY DEF Typed, Tables, CardTyped
<1>4. \A card \in Cards :
        /\ passed[card] \subseteq (1 .. revision[card]) \X Commits
        /\ handoffs[card] \in Seq(Handoff(card))
        /\ begun[card] \subseteq DOMAIN handoffs[card]
        /\ reviews[card] \in Seq(Review(card))
        /\ member[card] \in {0} \cup DOMAIN reviews[card]
  BY DEF Typed, CardTyped
<1> QED
  BY <1>1, <1>2, <1>3, <1>4 DEF Typed, History, TypeOK

\* At the start every record is empty.
LEMMA TypedInit == Init => Typed
<1> SUFFICES ASSUME Init PROVE Typed
  OBVIOUS
<1>1. MaxCommits \in Nat \ {0} /\ {Baseline} \in SUBSET (1 .. MaxCommits)
  BY DeliveryAssumption DEF Baseline
<1>2. /\ contains = << {Baseline} >> /\ contains \in Seq(SUBSET (1 .. MaxCommits))
      /\ Len(contains) = 1 /\ DOMAIN contains = {1} /\ contains # <<>>
  BY <1>1 DEF Init
<1>3. History
  BY <1>1, <1>2 DEF History
<1>4. Tables
  BY DEF Init, Tables
<1>5. ASSUME NEW card \in Cards
      PROVE  CardTyped(card)
  <2>1. /\ head[card] = Baseline /\ cardState[card] = "active" /\ revision[card] = 1
        /\ passed[card] = {} /\ handoffs[card] = <<>> /\ begun[card] = {}
        /\ reviews[card] = <<>> /\ member[card] = 0
    BY DEF Init
  <2>2. handoffs[card] \in Seq(Handoff(card)) /\ reviews[card] \in Seq(Review(card))
        /\ DOMAIN handoffs[card] = {}
    BY <2>1, EmptySeq
  <2>3. head[card] \in Commits /\ cardState[card] \in L!CardStates
    BY <2>1, <1>2, Words DEF Commits, Baseline
  <2>4. passed[card] \subseteq (1 .. revision[card]) \X Commits
    BY <2>1
  <2>5. begun[card] \subseteq DOMAIN handoffs[card] /\ revision[card] \in Nat \ {0}
    BY <2>1
  <2> QED
    BY <2>1, <2>2, <2>3, <2>4, <2>5 DEF CardTyped
<1>6. scenario \in Scenarios /\ scenario \subseteq Cards
  BY DeliveryAssumption DEF Init
<1> QED
  BY <1>3, <1>4, <1>5, <1>6 DEF Typed

(***************************************************************************)
(* What a step does to one card, whichever card it is a step of.           *)
(***************************************************************************)

\* Nothing but perhaps its branch.
Untouched(card) ==
    /\ cardState'[card] = cardState[card] /\ revision'[card] = revision[card]
    /\ passed'[card] = passed[card] /\ handoffs'[card] = handoffs[card]
    /\ begun'[card] = begun[card] /\ reviews'[card] = reviews[card]
    /\ member'[card] = member[card]

\* Its gates passed for the commit its branch holds.
Gated(card) ==
    /\ passed'[card] = passed[card] \cup {<<revision[card], head[card]>>}
    /\ cardState'[card] = cardState[card] /\ revision'[card] = revision[card]
    /\ handoffs'[card] = handoffs[card] /\ begun'[card] = begun[card]
    /\ reviews'[card] = reviews[card] /\ member'[card] = member[card]

\* A commit of it was handed off.
HandedOff(card) ==
    /\ cardState[card] = "active" /\ cardState'[card] = "handed_off"
    /\ \E handoff \in Handoff(card) :
          /\ handoffs'[card] = Append(handoffs[card], handoff)
          /\ <<handoff.revision, handoff.candidate>> \in passed[card]
    /\ revision'[card] = revision[card] /\ passed'[card] = passed[card]
    /\ begun'[card] = begun[card] /\ reviews'[card] = reviews[card]
    /\ member'[card] = member[card]

\* Its last handoff was withdrawn.
Revoked(card) ==
    /\ handoffs[card] # <<>>
    /\ handoffs'[card] = [handoffs[card] EXCEPT ![Len(handoffs[card])].active = FALSE]
    /\ cardState[card] \notin {"integrating", "landed", "closed"}
    /\ cardState'[card] = "active" /\ revision'[card] = revision[card]
    /\ passed'[card] = passed[card] /\ begun'[card] = begun[card]
    /\ reviews'[card] = reviews[card] /\ member'[card] = member[card]

\* A review of its last handoff was opened.
Opened(card) ==
    /\ handoffs[card] # <<>> /\ begun'[card] = begun[card] \cup {Len(handoffs[card])}
    /\ cardState[card] = "handed_off" /\ cardState'[card] = "review_pending"
    /\ revision'[card] = revision[card] /\ passed'[card] = passed[card]
    /\ handoffs'[card] = handoffs[card] /\ reviews'[card] = reviews[card]
    /\ member'[card] = member[card]

\* A review answers for every finding the one before it left open.
Answers(card, review) ==
    reviews[card] # <<>> =>
        \A at \in Locations :
            Accounting(review.findings[at]) >= Blocking(Last(reviews[card]).findings[at])

\* A review of its last handoff was recorded.
Reviewed(card) ==
    /\ handoffs[card] # <<>>
    /\ \E review \in Review(card) :
          /\ reviews'[card] = Append(reviews[card], review)
          /\ review.handoff = Len(handoffs[card]) /\ review.revision = revision[card]
          /\ Last(handoffs[card]).revision = revision[card]
          /\ review.candidate = Last(handoffs[card]).candidate
          /\ Answers(card, review)
          /\ IF review.decision = "approved"
             THEN cardState[card] = "review_pending" /\ Last(handoffs[card]).active
             ELSE Len(handoffs[card]) \in begun[card]
          /\ cardState'[card] = review.decision
    /\ cardState[card] \notin {"landed", "closed"}
    /\ revision'[card] = revision[card] /\ passed'[card] = passed[card]
    /\ handoffs'[card] = handoffs[card] /\ begun'[card] = begun[card]
    /\ member'[card] = member[card]

\* Work on it was taken up again, or it was revised.
Reopened(card) ==
    /\ cardState[card] \notin {"integrating", "landed", "closed"}
    /\ cardState'[card] \in {"active", "ready"}
    /\ revision'[card] \in {revision[card], revision[card] + 1}
    /\ passed'[card] = passed[card] /\ handoffs'[card] = handoffs[card]
    /\ begun'[card] = begun[card] /\ reviews'[card] = reviews[card]
    /\ member'[card] = member[card]

\* It was selected for integration on the approval it has.
Taken(card) ==
    /\ Assess(card) # 0 /\ member'[card] = Assess(card)
    /\ cardState[card] = "approved" /\ cardState'[card] = "integrating"
    /\ revision'[card] = revision[card] /\ passed'[card] = passed[card]
    /\ handoffs'[card] = handoffs[card] /\ begun'[card] = begun[card]
    /\ reviews'[card] = reviews[card]

\* Its integration was given up, or landed.
Released(card) ==
    /\ cardState[card] = "integrating" /\ cardState'[card] \in {"approved", "landed"}
    /\ member'[card] \in {0, member[card]}
    /\ revision'[card] = revision[card] /\ passed'[card] = passed[card]
    /\ handoffs'[card] = handoffs[card] /\ begun'[card] = begun[card]
    /\ reviews'[card] = reviews[card]

CardStep(card) ==
    \/ Untouched(card) \/ Gated(card) \/ HandedOff(card) \/ Revoked(card) \/ Opened(card)
    \/ Reviewed(card) \/ Reopened(card) \/ Taken(card) \/ Released(card)

\* What every step does to the commits.
WorkStep ==
    /\ scenario' = scenario
    /\ \/ contains' = contains
       \/ /\ Len(contains) < MaxCommits
          /\ \E history \in SUBSET (1 .. MaxCommits) : contains' = Append(contains, history)
    /\ \A card \in Cards : head'[card] \in 1 .. Len(contains')

AnyStep == WorkStep /\ Tables' /\ \A card \in Cards : CardStep(card)

\* A step of one card leaves the commits and the other cards as they are.
LEMMA WorkKept ==
    ASSUME Typed, UNCHANGED workVars
    PROVE  WorkStep /\ head' = [card \in Cards |-> head'[card]]
<1>1. /\ scenario' = scenario /\ contains' = contains /\ head' = head
  BY DEF workVars
<1>2. \A card \in Cards : head[card] \in 1 .. Len(contains)
  BY CommitsAreNumbers DEF Typed, CardTyped
<1> QED
  BY <1>1, <1>2 DEF WorkStep, Typed, Tables

\* A new commit on a branch disturbs no record.
LEMMA CommitStep ==
    ASSUME Typed, NEW card \in Cards, NEW history \in SUBSET (1 .. MaxCommits),
           CommitOn(card, history)
    PROVE  AnyStep
<1> DEFINE n == Len(contains)
<1>1. /\ n < MaxCommits /\ contains' = Append(contains, history \cup {n + 1})
      /\ head' = [head EXCEPT ![card] = n + 1]
      /\ UNCHANGED <<scenario, cardState, revision, passed, handoffs, begun, reviews, member>>
  BY DEF CommitOn
<1>2. /\ n \in Nat /\ Commits = 1 .. n /\ contains \in Seq(SUBSET (1 .. MaxCommits))
      /\ \A other \in Cards : head[other] \in 1 .. n
  BY CommitsAreNumbers DEF Typed, History, CardTyped
<1>3. history \cup {n + 1} \in SUBSET (1 .. MaxCommits)
  <2>1. MaxCommits \in Nat
    BY DeliveryAssumption
  <2>2. n + 1 \in 1 .. MaxCommits
    BY <1>1, <1>2, <2>1
  <2> QED
    BY <2>2
<1>4. Len(contains') = n + 1
  BY <1>1, <1>2, <1>3, Appended
<1>5. head = [other \in Cards |-> head[other]]
  BY DEF Typed, Tables
<1>6. /\ head' = [other \in Cards |-> head'[other]]
      /\ \A other \in Cards : head'[other] \in 1 .. (n + 1)
  BY <1>1, <1>2, <1>5
<1>7. WorkStep
  BY <1>1, <1>3, <1>4, <1>6 DEF WorkStep
<1>8. Tables'
  BY <1>1, <1>6 DEF Typed, Tables
<1>9. \A other \in Cards : CardStep(other)
  BY <1>1 DEF CardStep, Untouched
<1> QED
  BY <1>7, <1>8, <1>9 DEF AnyStep

\* Nor does moving a branch to a commit there is.
LEMMA MovedStep ==
    ASSUME Typed, NEW card \in Cards, NEW commit \in Commits,
           head' = [head EXCEPT ![card] = commit],
           UNCHANGED <<scenario, contains, cardState, revision, passed, handoffs, begun,
                       reviews, member>>
    PROVE  AnyStep
<1>1. /\ Commits = 1 .. Len(contains) /\ \A other \in Cards : head[other] \in 1 .. Len(contains)
  BY CommitsAreNumbers DEF Typed, CardTyped
<1>2. head = [other \in Cards |-> head[other]]
  BY DEF Typed, Tables
<1>3. /\ head' = [other \in Cards |-> head'[other]]
      /\ \A other \in Cards : head'[other] \in 1 .. Len(contains)
  BY <1>1, <1>2
<1>4. WorkStep /\ Tables'
  BY <1>3 DEF WorkStep, Typed, Tables
<1>5. \A other \in Cards : CardStep(other)
  BY DEF CardStep, Untouched
<1> QED
  BY <1>4, <1>5 DEF AnyStep

\* Whatever the author does is one of these two.
LEMMA BranchSteps ==
    ASSUME Typed, NEW card \in Cards
    PROVE  /\ Work(card) => AnyStep
           /\ Rewrite(card) => AnyStep
           /\ \A dependency \in Cards : Merge(card, dependency) => AnyStep
           /\ Reset(card) => AnyStep
<1>1. /\ \A commit \in Commits : contains[commit] \in SUBSET (1 .. MaxCommits)
      /\ Baseline \in Commits /\ \A other \in Cards : head[other] \in Commits
  BY CommitsAreNumbers DEF Typed, CardTyped
<1>2. Work(card) => AnyStep
  BY <1>1, CommitStep DEF Work
<1>3. Rewrite(card) => AnyStep
  BY <1>1, CommitStep DEF Rewrite
<1>4. ASSUME NEW dependency \in Cards, Merge(card, dependency)
      PROVE  AnyStep
  <2>1. CASE IsAncestor(head[card], head[dependency])
    <3>1. /\ head' = [head EXCEPT ![card] = head[dependency]]
          /\ UNCHANGED <<scenario, contains, cardState, revision, passed, handoffs, begun,
                         reviews, member>>
      BY <1>4, <2>1 DEF Merge
    <3> QED
      BY <3>1, <1>1, MovedStep
  <2>2. CASE ~ IsAncestor(head[card], head[dependency])
    <3>1. CommitOn(card, contains[head[card]] \cup contains[head[dependency]])
      BY <1>4, <2>2 DEF Merge
    <3>2. contains[head[card]] \cup contains[head[dependency]] \in SUBSET (1 .. MaxCommits)
      BY <1>1
    <3> QED
      BY <3>1, <3>2, CommitStep
  <2> QED
    BY <2>1, <2>2
<1>5. ASSUME Reset(card)
      PROVE  AnyStep
  <2>1. PICK i \in DOMAIN handoffs[card] :
            head' = [head EXCEPT ![card] = handoffs[card][i].candidate]
    BY <1>5 DEF Reset
  <2>2. handoffs[card][i].candidate \in Commits
    BY DEF Typed, CardTyped
  <2>3. UNCHANGED <<scenario, contains, cardState, revision, passed, handoffs, begun, reviews,
                    member>>
    BY <1>5 DEF Reset
  <2> QED
    BY <2>1, <2>2, <2>3, MovedStep
<1> QED
  BY <1>2, <1>3, <1>4, <1>5

\* Running the gates is Gated.
LEMMA GatesStep ==
    ASSUME Typed, NEW card \in Cards, RunGates(card)
    PROVE  AnyStep
<1>1. /\ UNCHANGED workVars
      /\ passed' = [passed EXCEPT ![card] = @ \cup {<<revision[card], head[card]>>}]
      /\ UNCHANGED <<cardState, revision, handoffs, begun, reviews, member>>
  BY DEF RunGates
<1>2. passed = [other \in Cards |-> passed[other]]
  BY DEF Typed, Tables
<1>3. /\ passed' = [other \in Cards |-> passed'[other]]
      /\ passed'[card] = passed[card] \cup {<<revision[card], head[card]>>}
      /\ \A other \in Cards \ {card} : passed'[other] = passed[other]
  BY <1>1, <1>2
<1>4. WorkStep /\ head' = [other \in Cards |-> head'[other]]
  BY <1>1, WorkKept
<1>5. Tables'
  BY <1>1, <1>3, <1>4 DEF Typed, Tables
<1>6. Gated(card) /\ \A other \in Cards \ {card} : Untouched(other)
  BY <1>1, <1>3 DEF Gated, Untouched
<1> QED
  BY <1>4, <1>5, <1>6 DEF AnyStep, CardStep

\* The newest element of a sequence that passes a test is one that passes it.
LEMMA NewestHandoff ==
    ASSUME NEW S, NEW seq \in Seq(S), NEW T \in SUBSET (1 .. Len(seq)), T # {}
    PROVE  Max(T) \in T /\ Max(T) \in DOMAIN seq /\ seq[Max(T)] \in S
<1>1. Len(seq) \in Nat /\ DOMAIN seq = 1 .. Len(seq)
  BY LenProperties
<1> QED
  BY <1>1, Greatest, ElementOfSeq

\* What a handoff says it incorporates of a dependency is a commit or nothing.
LEMMA BindingsTyped ==
    ASSUME Typed, NEW card \in Cards, NEW candidate
    PROVE  ResolveDependencyBindings(card, candidate) \in DependencyBindings(card)
<1>1. DependsOn[card] \subseteq Cards
  BY DeliveryAssumption
<1>2. ASSUME NEW dependency \in DependsOn[card]
      PROVE  IncorporatedSha(dependency, candidate) \in Nat
  <2> DEFINE T == {i \in 1 .. Len(handoffs[dependency]) :
                      IsAncestor(handoffs[dependency][i].candidate, candidate)}
  <2>1. handoffs[dependency] \in Seq(Handoff(dependency))
    BY <1>1 DEF Typed, CardTyped
  <2>2. IncorporatedSha(dependency, candidate) =
            IF (IF T # {} THEN Max(T) ELSE 0) = 0 THEN Nothing
            ELSE handoffs[dependency][IF T # {} THEN Max(T) ELSE 0].candidate
    BY DEF IncorporatedSha, SelectLastInSeq
  <2>3. ASSUME T # {}
        PROVE  handoffs[dependency][Max(T)].candidate \in Nat
    <3>1. handoffs[dependency][Max(T)] \in Handoff(dependency)
      <4>1. T \in SUBSET (1 .. Len(handoffs[dependency]))
        OBVIOUS
      <4> HIDE DEF T
      <4> QED
        BY <4>1, <2>1, <2>3, NewestHandoff
    <3> QED
      BY <3>1 DEF Handoff
  <2> HIDE DEF T
  <2> QED
    BY <2>2, <2>3 DEF Nothing
<1> QED
  BY <1>2 DEF ResolveDependencyBindings, DependencyBindings

\* Creating a handoff is HandedOff: of what the gates passed for.
LEMMA HandoffStep ==
    ASSUME Typed, NEW card \in Cards, CreateHandoff(card)
    PROVE  AnyStep
<1> DEFINE handoff == [revision |-> revision[card], candidate |-> head[card], active |-> TRUE,
                       bindings |-> ResolveDependencyBindings(card, head[card])]
<1>1. /\ UNCHANGED workVars
      /\ L!CheckTransition(cardState[card], "handed_off")
      /\ <<revision[card], head[card]>> \in passed[card]
      /\ handoffs' = [handoffs EXCEPT ![card] = Append(handoffs[card], handoff)]
      /\ cardState' = [cardState EXCEPT ![card] = "handed_off"]
      /\ UNCHANGED <<revision, passed, begun, reviews, member>>
  BY DEF CreateHandoff, SetCard, CollectEvidence
<1>2. /\ handoffs = [other \in Cards |-> handoffs[other]]
      /\ cardState = [other \in Cards |-> cardState[other]]
  BY DEF Typed, Tables
<1>3. cardState[card] = "active"
  BY <1>1, Moves DEF Typed, CardTyped
<1>4. handoff \in Handoff(card)
  <2>1. head[card] \in Nat /\ revision[card] \in Nat \ {0}
    BY CommitsAreNumbers DEF Typed, CardTyped
  <2> QED
    BY <2>1, BindingsTyped DEF Handoff
<1>5. handoff.revision = revision[card] /\ handoff.candidate = head[card]
  OBVIOUS
<1> HIDE DEF handoff
<1>6. /\ handoffs' = [other \in Cards |-> handoffs'[other]]
      /\ handoffs'[card] = Append(handoffs[card], handoff)
      /\ \A other \in Cards \ {card} : handoffs'[other] = handoffs[other]
  BY <1>1, <1>2
<1>7. /\ cardState' = [other \in Cards |-> cardState'[other]]
      /\ cardState'[card] = "handed_off"
      /\ \A other \in Cards \ {card} : cardState'[other] = cardState[other]
  BY <1>1, <1>2
<1>8. WorkStep /\ head' = [other \in Cards |-> head'[other]]
  BY <1>1, WorkKept
<1>9. Tables'
  BY <1>1, <1>6, <1>7, <1>8 DEF Typed, Tables
<1>10. HandedOff(card) /\ \A other \in Cards \ {card} : Untouched(other)
  BY <1>1, <1>3, <1>4, <1>5, <1>6, <1>7 DEF HandedOff, Untouched
<1> QED
  BY <1>8, <1>9, <1>10 DEF AnyStep, CardStep

\* Revoking one is Revoked.
LEMMA RevokeStep ==
    ASSUME Typed, NEW card \in Cards, RevokeHandoff(card)
    PROVE  AnyStep
<1> DEFINE withdrawn == [handoffs[card] EXCEPT ![Len(handoffs[card])].active = FALSE]
<1>1. /\ UNCHANGED workVars
      /\ handoffs[card] # <<>>
      /\ L!CheckTransition(cardState[card], "active")
      /\ cardState' = [cardState EXCEPT ![card] = "active"]
      /\ UNCHANGED <<revision, passed, begun, reviews, member>>
  BY DEF RevokeHandoff, SetCard
<1>2. handoffs' = [handoffs EXCEPT ![card] = withdrawn]
  BY DEF RevokeHandoff
<1>3. /\ handoffs = [other \in Cards |-> handoffs[other]]
      /\ cardState = [other \in Cards |-> cardState[other]]
  BY DEF Typed, Tables
<1>4. cardState[card] \notin {"integrating", "landed", "closed"}
  BY <1>1, Moves DEF Typed, CardTyped
<1>5. /\ handoffs' = [other \in Cards |-> handoffs'[other]]
      /\ handoffs'[card] = withdrawn
      /\ \A other \in Cards \ {card} : handoffs'[other] = handoffs[other]
  <2> HIDE DEF withdrawn
  <2> QED
    BY <1>2, <1>3
<1>6. /\ cardState' = [other \in Cards |-> cardState'[other]]
      /\ cardState'[card] = "active"
      /\ \A other \in Cards \ {card} : cardState'[other] = cardState[other]
  BY <1>1, <1>3
<1>7. WorkStep /\ head' = [other \in Cards |-> head'[other]]
  BY <1>1, WorkKept
<1>8. Tables'
  BY <1>1, <1>5, <1>6, <1>7 DEF Typed, Tables
<1>9. Revoked(card)
  BY <1>1, <1>4, <1>5, <1>6 DEF Revoked
<1>10. \A other \in Cards \ {card} : Untouched(other)
  BY <1>1, <1>5, <1>6 DEF Untouched
<1> QED
  BY <1>7, <1>8, <1>9, <1>10 DEF AnyStep, CardStep

\* Beginning a review is Opened.
LEMMA BeginStep ==
    ASSUME Typed, NEW card \in Cards, BeginReview(card)
    PROVE  AnyStep
<1>1. /\ UNCHANGED workVars
      /\ handoffs[card] # <<>>
      /\ L!CheckTransition(cardState[card], "review_pending")
      /\ begun' = [begun EXCEPT ![card] = begun[card] \cup {Len(handoffs[card])}]
      /\ cardState' = [cardState EXCEPT ![card] = "review_pending"]
      /\ UNCHANGED <<revision, passed, handoffs, reviews, member>>
  BY DEF BeginReview, SetCard
<1>2. /\ begun = [other \in Cards |-> begun[other]]
      /\ cardState = [other \in Cards |-> cardState[other]]
  BY DEF Typed, Tables
<1>3. cardState[card] = "handed_off"
  BY <1>1, Moves DEF Typed, CardTyped
<1>4. /\ begun' = [other \in Cards |-> begun'[other]]
      /\ begun'[card] = begun[card] \cup {Len(handoffs[card])}
      /\ \A other \in Cards \ {card} : begun'[other] = begun[other]
  BY <1>1, <1>2
<1>5. /\ cardState' = [other \in Cards |-> cardState'[other]]
      /\ cardState'[card] = "review_pending"
      /\ \A other \in Cards \ {card} : cardState'[other] = cardState[other]
  BY <1>1, <1>2
<1>6. WorkStep /\ head' = [other \in Cards |-> head'[other]]
  BY <1>1, WorkKept
<1>7. Tables'
  BY <1>1, <1>4, <1>5, <1>6 DEF Typed, Tables
<1>8. Opened(card) /\ \A other \in Cards \ {card} : Untouched(other)
  BY <1>1, <1>3, <1>4, <1>5 DEF Opened, Untouched
<1> QED
  BY <1>6, <1>7, <1>8 DEF AnyStep, CardStep

\* Recording one is Reviewed: an approval only while its review is pending.
LEMMA RecordStep ==
    ASSUME Typed, NEW card \in Cards, NEW verdict \in Verdicts(card),
           RecordReview(card, verdict)
    PROVE  AnyStep
<1> DEFINE latest == Last(handoffs[card])
           review == [handoff |-> Len(handoffs[card]), revision |-> revision[card],
                      candidate |-> latest.candidate, bindings |-> latest.bindings,
                      decision |-> verdict.decision, findings |-> verdict.findings]
<1>1. /\ UNCHANGED workVars
      /\ handoffs[card] # <<>>
      /\ RequireCurrentHandoff(card, verdict.decision)
      /\ L!CheckTransition(cardState[card], verdict.decision)
      /\ reviews' = [reviews EXCEPT ![card] = Append(reviews[card], review)]
      /\ cardState' = [cardState EXCEPT ![card] = verdict.decision]
      /\ UNCHANGED <<revision, passed, handoffs, begun, member>>
  BY DEF RecordReview, SetCard, StateFor, LatestHandoff
<1>2. /\ reviews = [other \in Cards |-> reviews[other]]
      /\ cardState = [other \in Cards |-> cardState[other]]
  BY DEF Typed, Tables
<1>3. /\ verdict.decision \in Decisions
      /\ verdict.findings \in [Locations -> Tallies[card]] /\ Tallies[card] \subseteq Tally
  BY DeliveryAssumption DEF Verdicts
<1>4. /\ cardState[card] \notin {"landed", "closed"}
      /\ verdict.decision = "approved" => cardState[card] = "review_pending"
  BY <1>1, <1>3, Moves DEF Typed, CardTyped
<1>5. /\ latest.revision = revision[card]
      /\ IF verdict.decision = "approved" THEN latest.active
         ELSE Len(handoffs[card]) \in begun[card]
  BY <1>1 DEF RequireCurrentHandoff, HandoffStands, BindingStands, RequireReviewBegun,
              LatestHandoff
<1>6. review \in Review(card)
  <2>1. latest \in Handoff(card) /\ Len(handoffs[card]) \in Nat \ {0}
    BY <1>1, LastOf DEF Typed, CardTyped
  <2>2. latest.candidate \in Nat /\ latest.bindings \in DependencyBindings(card)
    BY <2>1 DEF Handoff
  <2>3. revision[card] \in Nat \ {0}
    BY DEF Typed, CardTyped
  <2>4. verdict.findings \in [Locations -> Tally]
    BY <1>3
  <2> HIDE DEF latest
  <2> QED
    BY <1>3, <2>1, <2>2, <2>3, <2>4 DEF Review
<1>7. /\ review.handoff = Len(handoffs[card]) /\ review.revision = revision[card]
      /\ review.candidate = latest.candidate /\ review.decision = verdict.decision
      /\ review.findings = verdict.findings
  OBVIOUS
<1> HIDE DEF review
<1>8. /\ reviews' = [other \in Cards |-> reviews'[other]]
      /\ reviews'[card] = Append(reviews[card], review)
      /\ \A other \in Cards \ {card} : reviews'[other] = reviews[other]
  BY <1>1, <1>2
<1>9. /\ cardState' = [other \in Cards |-> cardState'[other]]
      /\ cardState'[card] = verdict.decision
      /\ \A other \in Cards \ {card} : cardState'[other] = cardState[other]
  BY <1>1, <1>2
<1>10. WorkStep /\ head' = [other \in Cards |-> head'[other]]
  BY <1>1, WorkKept
<1>11. Tables'
  BY <1>1, <1>8, <1>9, <1>10 DEF Typed, Tables
<1>12. Reviewed(card)
  <2>1. ValidReview(card, verdict)
    BY DEF RecordReview
  <2>2. Answers(card, review)
    BY <1>7, <2>1 DEF ValidReview, ChecksSupersedes, LatestReview, Answers
  <2> QED
    BY <1>1, <1>4, <1>5, <1>6, <1>7, <1>8, <1>9, <2>2 DEF Reviewed
<1>13. \A other \in Cards \ {card} : Untouched(other)
  BY <1>1, <1>8, <1>9 DEF Untouched
<1> QED
  BY <1>10, <1>11, <1>12, <1>13 DEF AnyStep, CardStep

\* Resuming work and revising the card are Reopened.
LEMMA ReopenSteps ==
    ASSUME Typed, NEW card \in Cards
    PROVE  (Resume(card) => AnyStep) /\ (Revise(card) => AnyStep)
<1>1. /\ revision = [other \in Cards |-> revision[other]]
      /\ cardState = [other \in Cards |-> cardState[other]]
  BY DEF Typed, Tables
<1>2. ASSUME Resume(card)
      PROVE  AnyStep
  <2>1. /\ UNCHANGED workVars
        /\ cardState[card] \notin {"integrating", "landed", "closed"}
        /\ cardState' = [cardState EXCEPT ![card] = "active"]
        /\ UNCHANGED <<revision, passed, handoffs, begun, reviews, member>>
    BY <1>2 DEF Resume, SetCard
  <2>2. /\ cardState' = [other \in Cards |-> cardState'[other]]
        /\ cardState'[card] = "active"
        /\ \A other \in Cards \ {card} : cardState'[other] = cardState[other]
    BY <1>1, <2>1
  <2>3. WorkStep /\ Tables'
    BY <2>1, <2>2, WorkKept DEF Typed, Tables
  <2>4. Reopened(card) /\ \A other \in Cards \ {card} : Untouched(other)
    BY <2>1, <2>2 DEF Reopened, Untouched
  <2> QED
    BY <2>3, <2>4 DEF AnyStep, CardStep
<1>3. ASSUME Revise(card)
      PROVE  AnyStep
  <2>1. /\ UNCHANGED workVars
        /\ L!IsRevisable(cardState[card])
        /\ revision' = [revision EXCEPT ![card] = revision[card] + 1]
        /\ cardState' = [cardState EXCEPT ![card] = "ready"]
        /\ UNCHANGED <<passed, handoffs, begun, reviews, member>>
    BY <1>3 DEF Revise, SetCard
  <2>2. cardState[card] \notin {"integrating", "landed", "closed"}
    BY <2>1, Moves DEF Typed, CardTyped
  <2>3. /\ cardState' = [other \in Cards |-> cardState'[other]]
        /\ cardState'[card] = "ready"
        /\ \A other \in Cards \ {card} : cardState'[other] = cardState[other]
    BY <1>1, <2>1
  <2>4. /\ revision' = [other \in Cards |-> revision'[other]]
        /\ revision'[card] = revision[card] + 1
        /\ \A other \in Cards \ {card} : revision'[other] = revision[other]
    BY <1>1, <2>1
  <2>5. WorkStep /\ Tables'
    BY <2>1, <2>3, <2>4, WorkKept DEF Typed, Tables
  <2>6. Reopened(card) /\ \A other \in Cards \ {card} : Untouched(other)
    BY <2>1, <2>2, <2>3, <2>4 DEF Reopened, Untouched
  <2> QED
    BY <2>5, <2>6 DEF AnyStep, CardStep
<1> QED
  BY <1>2, <1>3

\* An integration takes its members, and releases them when it ends.
LEMMA IntegrationSteps ==
    ASSUME Typed
    PROVE  /\ \A cards \in SUBSET Cards : Prepare(cards) => AnyStep
           /\ AbandonIntegration => AnyStep
           /\ Land => AnyStep
<1>1. ASSUME NEW cards \in SUBSET Cards, Prepare(cards)
      PROVE  AnyStep
  <2>1. WorkStep /\ Tables'
    BY <1>1, WorkKept DEF Prepare, Typed, Tables
  <2>2. ASSUME NEW card \in cards
        PROVE  Taken(card)
    <3>1. Assess(card) # 0 /\ cardState[card] = "approved"
      BY <1>1 DEF Prepare, Assess
    <3>2. member'[card] = Assess(card) /\ cardState'[card] = "integrating"
      BY <1>1 DEF Prepare
    <3> QED
      BY <1>1, <3>1, <3>2 DEF Prepare, Taken
  <2>3. ASSUME NEW card \in Cards \ cards
        PROVE  Untouched(card)
    BY <1>1 DEF Prepare, Untouched
  <2> QED
    BY <2>1, <2>2, <2>3 DEF AnyStep, CardStep
<1>2. ASSUME AbandonIntegration
      PROVE  AnyStep
  <2>1. WorkStep /\ Tables'
    BY <1>2, WorkKept DEF AbandonIntegration, Typed, Tables
  <2>2. \A card \in Integrating : Released(card)
    BY <1>2 DEF AbandonIntegration, Released, Integrating
  <2>3. \A card \in Cards \ Integrating : Untouched(card)
    BY <1>2 DEF AbandonIntegration, Untouched, Integrating
  <2> QED
    BY <2>1, <2>2, <2>3 DEF AnyStep, CardStep
<1>3. ASSUME Land
      PROVE  AnyStep
  <2>1. WorkStep /\ Tables'
    BY <1>3, WorkKept DEF Land, Typed, Tables
  <2>2. \A card \in Integrating : Released(card)
    BY <1>3 DEF Land, Released, Integrating
  <2>3. \A card \in Cards \ Integrating : Untouched(card)
    BY <1>3 DEF Land, Untouched, Integrating
  <2> QED
    BY <2>1, <2>2, <2>3 DEF AnyStep, CardStep
<1> QED
  BY <1>1, <1>2, <1>3

\* Every step is one of these.
LEMMA EveryStep ==
    ASSUME Typed, [Next]_vars
    PROVE  AnyStep
<1>1. CASE UNCHANGED vars
  <2>1. UNCHANGED workVars
    BY <1>1 DEF vars
  <2>2. UNCHANGED <<cardState, revision, passed, handoffs, begun, reviews, member>>
    BY <1>1 DEF vars
  <2>3. WorkStep /\ Tables'
    BY <2>1, <2>2, WorkKept DEF Typed, Tables
  <2> QED
    BY <2>2, <2>3 DEF AnyStep, CardStep, Untouched
<1>2. CASE \E card \in scenario :
              \/ card \in Authors /\ (Work(card) \/ Rewrite(card))
              \/ \E dependency \in Cards : Merge(card, dependency)
              \/ Reset(card)
  BY <1>2, BranchSteps DEF Typed
<1>3. CASE \E card \in scenario :
              \/ RunGates(card)
              \/ CreateHandoff(card)
              \/ RevokeHandoff(card)
              \/ BeginReview(card)
              \/ \E verdict \in Verdicts(card) : RecordReview(card, verdict)
              \/ Resume(card)
              \/ Revise(card)
  BY <1>3, GatesStep, HandoffStep, RevokeStep, BeginStep, RecordStep, ReopenSteps DEF Typed
<1>4. CASE (\E cards \in SUBSET Cards : Prepare(cards)) \/ AbandonIntegration \/ Land
  BY <1>4, IntegrationSteps
<1> QED
  BY <1>1, <1>2, <1>3, <1>4 DEF Next

\* What a card is ready to be integrated on is an approval of what its branch holds.
LEMMA AssessedApproval ==
    ASSUME Typed, NEW card \in Cards, Assess(card) # 0
    PROVE  /\ Assess(card) \in DOMAIN reviews[card]
           /\ reviews[card][Assess(card)] \in Review(card)
           /\ reviews[card][Assess(card)].decision = "approved"
           /\ IsCurrentFor(card, reviews[card][Assess(card)], head[card])
           /\ cardState[card] = "approved"
<1> DEFINE T == {i \in 1 .. Len(reviews[card]) :
                    reviews[card][i].decision = "approved"
                    /\ IsCurrentFor(card, reviews[card][i], head[card])}
<1>1. reviews[card] \in Seq(Review(card))
  BY DEF Typed, CardTyped
<1>2. /\ cardState[card] = "approved"
      /\ Assess(card) = IF T # {} THEN Max(T) ELSE 0
  BY DEF Assess, CurrentApproval, SelectLastInSeq
<1>3. T # {} /\ Assess(card) = Max(T)
  BY <1>2
<1>4. T \in SUBSET (1 .. Len(reviews[card]))
  OBVIOUS
<1>5. /\ Assess(card) \in T /\ Assess(card) \in DOMAIN reviews[card]
      /\ reviews[card][Assess(card)] \in Review(card)
  <2> HIDE DEF T
  <2> QED
    BY <1>1, <1>3, <1>4, NewestHandoff
<1> QED
  BY <1>2, <1>5

\* Commits are never forgotten.
LEMMA CommitsKept ==
    ASSUME Typed, AnyStep
    PROVE  /\ History' /\ Commits \subseteq Commits'
           /\ \A card \in Cards : head'[card] \in Commits'
<1>1. /\ contains \in Seq(SUBSET (1 .. MaxCommits)) /\ contains # <<>>
      /\ Len(contains) \in Nat /\ Len(contains) <= MaxCommits /\ Commits = 1 .. Len(contains)
  BY CommitsAreNumbers DEF Typed, History
<1>2. History' /\ Len(contains) <= Len(contains')
  <2>1. CASE contains' = contains
    BY <1>1, <2>1 DEF History
  <2>2. ASSUME NEW history \in SUBSET (1 .. MaxCommits), contains' = Append(contains, history),
               Len(contains) < MaxCommits
        PROVE  History' /\ Len(contains) <= Len(contains')
    <3>1. /\ contains' \in Seq(SUBSET (1 .. MaxCommits)) /\ contains' # <<>>
          /\ Len(contains') = Len(contains) + 1
      BY <1>1, <2>2, Appended
    <3>2. Len(contains) + 1 <= MaxCommits
      BY <1>1, <2>2, DeliveryAssumption
    <3> QED
      BY <1>1, <3>1, <3>2 DEF History
  <2> QED
    BY <2>1, <2>2 DEF AnyStep, WorkStep
<1>3. Len(contains') \in Nat /\ Commits' = 1 .. Len(contains')
  <2>1. contains' \in Seq(SUBSET (1 .. MaxCommits))
    BY <1>2 DEF History
  <2> QED
    BY <2>1, LenProperties DEF Commits
<1> QED
  BY <1>1, <1>2, <1>3 DEF AnyStep, WorkStep

\* What a card's records were, with one handoff withdrawn.
LEMMA Withdrawn ==
    ASSUME Typed, NEW card \in Cards, Revoked(card)
    PROVE  /\ handoffs'[card] \in Seq(Handoff(card))
           /\ Len(handoffs'[card]) = Len(handoffs[card])
           /\ DOMAIN handoffs'[card] = DOMAIN handoffs[card]
           /\ \A i \in DOMAIN handoffs[card] :
                /\ handoffs'[card][i].revision = handoffs[card][i].revision
                /\ handoffs'[card][i].candidate = handoffs[card][i].candidate
<1> DEFINE n == Len(handoffs[card])
           last == [handoffs[card][n] EXCEPT !.active = FALSE]
<1>1. /\ handoffs[card] \in Seq(Handoff(card)) /\ handoffs[card] # <<>>
      /\ n \in DOMAIN handoffs[card] /\ handoffs[card][n] \in Handoff(card)
      /\ DOMAIN handoffs[card] = 1 .. n /\ n \in Nat
  BY LastOf DEF Typed, CardTyped, Revoked
<1>2. /\ last \in Handoff(card) /\ last.revision = handoffs[card][n].revision
      /\ last.candidate = handoffs[card][n].candidate
  BY <1>1 DEF Handoff
<1>3. handoffs'[card] = [handoffs[card] EXCEPT ![n] = last]
  BY DEF Revoked
<1> HIDE DEF last
<1>4. handoffs'[card] \in Seq(Handoff(card)) /\ Len(handoffs'[card]) = n
  BY <1>1, <1>2, <1>3, ExceptSeq
<1>5. DOMAIN handoffs'[card] = DOMAIN handoffs[card]
  BY <1>1, <1>4, LenProperties
<1>6. \A i \in DOMAIN handoffs[card] :
          handoffs'[card][i] = IF i = n THEN last ELSE handoffs[card][i]
  BY <1>1, <1>3
<1> QED
  BY <1>2, <1>4, <1>5, <1>6

\* Every step keeps the shapes of the records.
LEMMA TypedStep ==
    ASSUME Typed, AnyStep
    PROVE  Typed'
<1>1. /\ History' /\ Commits \subseteq Commits'
      /\ \A card \in Cards : head'[card] \in Commits'
  BY CommitsKept
<1>2. ASSUME NEW card \in Cards
      PROVE  CardTyped(card)'
  <2> DEFINE Fact == CardTyped(card)'
             Passes == \A i \in DOMAIN handoffs[card] :
                <<handoffs[card][i].revision, handoffs[card][i].candidate>> \in passed[card]
  <2>1. /\ head[card] \in Commits /\ cardState[card] \in L!CardStates
        /\ revision[card] \in Nat \ {0}
        /\ passed[card] \subseteq (1 .. revision[card]) \X Commits
        /\ handoffs[card] \in Seq(Handoff(card)) /\ Passes
        /\ begun[card] \subseteq DOMAIN handoffs[card]
        /\ reviews[card] \in Seq(Review(card))
        /\ member[card] \in {0} \cup DOMAIN reviews[card]
    BY DEF Typed, CardTyped
  <2>2. head'[card] \in Commits' /\ passed[card] \subseteq (1 .. revision[card]) \X Commits'
    BY <1>1, <2>1
  <2>3. ASSUME Untouched(card) PROVE Fact
    BY <2>1, <2>2, <2>3 DEF Untouched, CardTyped
  <2>4. ASSUME Gated(card) PROVE Fact
    <3>1. <<revision[card], head[card]>> \in (1 .. revision[card]) \X Commits'
      BY <1>1, <2>1
    <3>2. passed'[card] \subseteq (1 .. revision[card]) \X Commits'
      BY <2>2, <2>4, <3>1 DEF Gated
    <3>3. \A i \in DOMAIN handoffs[card] :
            <<handoffs[card][i].revision, handoffs[card][i].candidate>> \in passed'[card]
      BY <2>1, <2>4 DEF Gated
    <3> QED
      BY <2>1, <2>2, <2>4, <3>2, <3>3 DEF Gated, CardTyped
  <2>5. ASSUME HandedOff(card) PROVE Fact
    <3>1. PICK handoff \in Handoff(card) :
            /\ handoffs'[card] = Append(handoffs[card], handoff)
            /\ <<handoff.revision, handoff.candidate>> \in passed[card]
      BY <2>5 DEF HandedOff
    <3>2. /\ handoffs'[card] \in Seq(Handoff(card))
          /\ \A i \in DOMAIN handoffs'[card] :
              <<handoffs'[card][i].revision, handoffs'[card][i].candidate>> \in passed[card]
          /\ DOMAIN handoffs[card] \subseteq DOMAIN handoffs'[card]
      <4>1. /\ Append(handoffs[card], handoff) \in Seq(Handoff(card))
            /\ \A i \in DOMAIN handoffs[card] :
                 /\ i \in DOMAIN Append(handoffs[card], handoff)
                 /\ Append(handoffs[card], handoff)[i] = handoffs[card][i]
            /\ Append(handoffs[card], handoff)[Len(handoffs[card]) + 1] = handoff
            /\ \A i \in DOMAIN Append(handoffs[card], handoff) :
                 i \in DOMAIN handoffs[card] \/ i = Len(handoffs[card]) + 1
        BY <2>1, Appended
      <4> QED
        BY <2>1, <3>1, <4>1
    <3>3. "handed_off" \in L!CardStates
      BY Words
    <3> QED
      BY <2>1, <2>2, <2>5, <3>2, <3>3 DEF HandedOff, CardTyped
  <2>6. ASSUME Revoked(card) PROVE Fact
    <3>1. /\ handoffs'[card] \in Seq(Handoff(card))
          /\ DOMAIN handoffs'[card] = DOMAIN handoffs[card]
          /\ \A i \in DOMAIN handoffs[card] :
              <<handoffs'[card][i].revision, handoffs'[card][i].candidate>> \in passed[card]
      BY <2>1, <2>6, Withdrawn
    <3>2. "active" \in L!CardStates
      BY Words
    <3> QED
      BY <2>1, <2>2, <2>6, <3>1, <3>2 DEF Revoked, CardTyped
  <2>7. ASSUME Opened(card) PROVE Fact
    <3>1. "review_pending" \in L!CardStates /\ Len(handoffs[card]) \in DOMAIN handoffs[card]
      BY <2>1, <2>7, Words, LastOf DEF Opened
    <3> QED
      BY <2>1, <2>2, <2>7, <3>1 DEF Opened, CardTyped
  <2>8. ASSUME Reviewed(card) PROVE Fact
    <3>1. PICK review \in Review(card) :
            reviews'[card] = Append(reviews[card], review) /\ cardState'[card] = review.decision
      BY <2>8 DEF Reviewed
    <3>2. /\ reviews'[card] \in Seq(Review(card))
          /\ DOMAIN reviews[card] \subseteq DOMAIN reviews'[card]
      BY <2>1, <3>1, Appended
    <3>3. cardState'[card] \in L!CardStates
      BY <3>1, Words DEF Review, Decisions
    <3> QED
      BY <2>1, <2>2, <2>8, <3>2, <3>3 DEF Reviewed, CardTyped
  <2>9. ASSUME Reopened(card) PROVE Fact
    <3>1. cardState'[card] \in L!CardStates /\ revision'[card] \in Nat \ {0}
      BY <2>1, <2>9, Words DEF Reopened
    <3>2. passed[card] \subseteq (1 .. revision'[card]) \X Commits'
      <4>1. 1 .. revision[card] \subseteq 1 .. revision'[card]
        BY <2>1, <2>9 DEF Reopened
      <4> QED
        BY <2>2, <4>1
    <3> QED
      BY <2>1, <2>2, <2>9, <3>1, <3>2 DEF Reopened, CardTyped
  <2>10. ASSUME Taken(card) PROVE Fact
    <3>1. "integrating" \in L!CardStates /\ member'[card] \in DOMAIN reviews[card]
      BY <2>10, Words, AssessedApproval DEF Taken
    <3> QED
      BY <2>1, <2>2, <2>10, <3>1 DEF Taken, CardTyped
  <2>11. ASSUME Released(card) PROVE Fact
    <3>1. cardState'[card] \in L!CardStates /\ member'[card] \in {0} \cup DOMAIN reviews[card]
      BY <2>1, <2>11, Words DEF Released
    <3> QED
      BY <2>1, <2>2, <2>11, <3>1 DEF Released, CardTyped
  <2> HIDE DEF Fact
  <2>12. Fact
    BY <2>3, <2>4, <2>5, <2>6, <2>7, <2>8, <2>9, <2>10, <2>11 DEF AnyStep, CardStep
  <2> QED
    BY <2>12 DEF Fact
<1>3. scenario' = scenario /\ Tables'
  BY DEF AnyStep, WorkStep
<1> QED
  BY <1>1, <1>2, <1>3 DEF Typed

\* The records of every card always have their shapes.
LEMMA AlwaysTyped == Spec => []Typed
<1>1. ASSUME Typed, [Next]_vars
      PROVE  Typed'
  BY <1>1, EveryStep, TypedStep
<1> QED
  BY TypedInit, <1>1, PTL DEF Spec

(***************************************************************************)
(* What reviews are of.                                                    *)
(***************************************************************************)

\* A review is of a handoff a review was opened on, and says what that handoff said.
Follows(review, opened, delivered) ==
    /\ review.handoff \in opened
    /\ review.revision = delivered[review.handoff].revision
    /\ review.candidate = delivered[review.handoff].candidate

\* The last review approved the last handoff, which stands.
ApprovalStands(card) ==
    /\ handoffs[card] # <<>> /\ Last(handoffs[card]).active
    /\ StandingApproval(card)
    /\ Last(reviews[card]).handoff = Len(handoffs[card])
    /\ Last(reviews[card]).revision = revision[card]

CardJudged(card) ==
    /\ cardState[card] # "closed"
    /\ \A i \in DOMAIN reviews[card] : Follows(reviews[card][i], begun[card], handoffs[card])
    /\ cardState[card] = "review_pending" =>
          handoffs[card] # <<>> /\ Len(handoffs[card]) \in begun[card]
    /\ cardState[card] \in {"approved", "integrating"} => ApprovalStands(card)
    /\ cardState[card] = "landed" => StandingApproval(card)

Judged == \A card \in Cards : CardJudged(card)

\* At the start nothing was reviewed.
LEMMA JudgedInit == Init => Judged
<1> SUFFICES ASSUME Init, NEW card \in Cards PROVE CardJudged(card)
  BY DEF Judged
<1>1. cardState[card] = "active" /\ DOMAIN reviews[card] = {}
  BY DEF Init
<1> QED
  BY <1>1 DEF CardJudged

\* No step changes what a review was of.
LEMMA ReviewsKept ==
    ASSUME Typed, NEW card \in Cards, CardStep(card),
           NEW review, Follows(review, begun[card], handoffs[card])
    PROVE  Follows(review, begun'[card], handoffs'[card])
<1> DEFINE Fact == Follows(review, begun'[card], handoffs'[card])
<1>1. /\ review.handoff \in begun[card] /\ review.handoff \in DOMAIN handoffs[card]
      /\ review.revision = handoffs[card][review.handoff].revision
      /\ review.candidate = handoffs[card][review.handoff].candidate
      /\ handoffs[card] \in Seq(Handoff(card))
  BY DEF Follows, Typed, CardTyped
<1>2. ASSUME begun'[card] = begun[card] \/ Opened(card), handoffs'[card] = handoffs[card]
      PROVE  Fact
  BY <1>1, <1>2 DEF Follows, Opened
<1>3. ASSUME HandedOff(card) PROVE Fact
  <2>1. PICK handoff \in Handoff(card) : handoffs'[card] = Append(handoffs[card], handoff)
    BY <1>3 DEF HandedOff
  <2>2. handoffs'[card][review.handoff] = handoffs[card][review.handoff]
    BY <1>1, <2>1, Appended
  <2> QED
    BY <1>1, <1>3, <2>2 DEF HandedOff, Follows
<1>4. ASSUME Revoked(card) PROVE Fact
  <2>1. /\ handoffs'[card][review.handoff].revision = handoffs[card][review.handoff].revision
        /\ handoffs'[card][review.handoff].candidate = handoffs[card][review.handoff].candidate
    BY <1>1, <1>4, Withdrawn
  <2> QED
    BY <1>1, <1>4, <2>1 DEF Revoked, Follows
<1>5. ASSUME \/ Untouched(card) \/ Gated(card) \/ Opened(card) \/ Reviewed(card)
             \/ Reopened(card) \/ Taken(card) \/ Released(card)
      PROVE  Fact
  <2>1. begun'[card] = begun[card] \/ Opened(card)
    BY <1>5 DEF Untouched, Gated, Opened, Reviewed, Reopened, Taken, Released
  <2>2. handoffs'[card] = handoffs[card]
    BY <1>5 DEF Untouched, Gated, Opened, Reviewed, Reopened, Taken, Released
  <2> QED
    BY <1>2, <2>1, <2>2
<1> HIDE DEF Fact
<1>6. Fact
  BY <1>3, <1>4, <1>5 DEF CardStep
<1> QED
  BY <1>6 DEF Fact

\* Every step keeps reviews true to their handoffs, and approvals in force.
LEMMA JudgedStep ==
    ASSUME Typed, Judged, AnyStep
    PROVE  Judged'
<1> SUFFICES ASSUME NEW card \in Cards PROVE CardJudged(card)'
  BY DEF Judged
<1> DEFINE Fact == CardJudged(card)'
           Follow == \A i \in DOMAIN reviews[card] :
                        Follows(reviews[card][i], begun'[card], handoffs'[card])
           Opening == cardState[card] = "review_pending" =>
                          handoffs[card] # <<>> /\ Len(handoffs[card]) \in begun[card]
           Standing == cardState[card] \in {"approved", "integrating"} => ApprovalStands(card)
           Landed == cardState[card] = "landed" => StandingApproval(card)
<1>1. /\ cardState[card] # "closed"
      /\ \A i \in DOMAIN reviews[card] : Follows(reviews[card][i], begun[card], handoffs[card])
      /\ Opening /\ Standing /\ Landed
  BY DEF Judged, CardJudged
<1>2. /\ handoffs[card] \in Seq(Handoff(card)) /\ reviews[card] \in Seq(Review(card))
      /\ begun[card] \subseteq DOMAIN handoffs[card] /\ CardStep(card)
  BY DEF Typed, CardTyped, AnyStep
<1>3. Follow
  BY <1>1, <1>2, ReviewsKept
<1> HIDE DEF Follow
<1>4. ASSUME reviews'[card] = reviews[card]
      PROVE  \A i \in DOMAIN reviews'[card] :
                Follows(reviews[card][i], begun'[card], handoffs'[card])
  BY <1>3, <1>4 DEF Follow
<1>5. ASSUME /\ reviews'[card] = reviews[card] /\ handoffs'[card] = handoffs[card]
             /\ revision'[card] = revision[card] /\ begun'[card] = begun[card]
             /\ \/ cardState'[card] = cardState[card]
                \/ cardState[card] = "approved" /\ cardState'[card] = "integrating"
                \/ cardState[card] = "integrating" /\ cardState'[card] \in {"approved", "landed"}
      PROVE  Fact
  <2>1. /\ (ApprovalStands(card))' <=> ApprovalStands(card)
        /\ (StandingApproval(card))' <=> StandingApproval(card)
        /\ (Opening)' <=> \/ cardState'[card] # "review_pending"
                          \/ handoffs[card] # <<>> /\ Len(handoffs[card]) \in begun[card]
    BY <1>5 DEF ApprovalStands, StandingApproval, LatestReview
  <2>2. \A i \in DOMAIN reviews'[card] :
           Follows(reviews'[card][i], begun'[card], handoffs'[card])
    BY <1>4, <1>5
  <2>3. (Opening)' /\ (Standing)' /\ (Landed)' /\ cardState'[card] # "closed"
    BY <1>1, <1>5, <2>1 DEF ApprovalStands
  <2> HIDE DEF Opening, Standing, Landed
  <2> QED
    BY <2>2, <2>3 DEF CardJudged, Opening, Standing, Landed
<1>6. ASSUME /\ reviews'[card] = reviews[card]
             /\ cardState'[card] \in {"active", "ready", "handed_off"}
      PROVE  Fact
  BY <1>4, <1>6 DEF CardJudged
<1>7. ASSUME Opened(card) PROVE Fact
  <2>1. \A i \in DOMAIN reviews'[card] :
           Follows(reviews'[card][i], begun'[card], handoffs'[card])
    BY <1>4, <1>7 DEF Opened
  <2>2. /\ cardState'[card] = "review_pending" /\ handoffs'[card] # <<>>
        /\ Len(handoffs'[card]) \in begun'[card]
    BY <1>7 DEF Opened
  <2> QED
    BY <2>1, <2>2 DEF CardJudged
<1>8. ASSUME Reviewed(card) PROVE Fact
  <2>1. PICK review \in Review(card) :
          /\ reviews'[card] = Append(reviews[card], review)
          /\ review.handoff = Len(handoffs[card]) /\ review.revision = revision[card]
          /\ Last(handoffs[card]).revision = revision[card]
          /\ review.candidate = Last(handoffs[card]).candidate
          /\ Answers(card, review)
          /\ IF review.decision = "approved"
             THEN cardState[card] = "review_pending" /\ Last(handoffs[card]).active
             ELSE Len(handoffs[card]) \in begun[card]
          /\ cardState'[card] = review.decision
    BY <1>8 DEF Reviewed
  <2>2. /\ handoffs[card] # <<>> /\ handoffs'[card] = handoffs[card]
        /\ begun'[card] = begun[card] /\ revision'[card] = revision[card]
    BY <1>8 DEF Reviewed
  <2>3. Len(handoffs[card]) \in begun[card]
    BY <1>1, <2>1
  <2>4. Last(handoffs[card]) = handoffs[card][Len(handoffs[card])]
    BY <1>2, <2>2, LastOf
  <2>5. Follows(review, begun'[card], handoffs'[card])
    BY <2>1, <2>2, <2>3, <2>4 DEF Follows
  <2>6. /\ reviews'[card] # <<>> /\ Last(reviews'[card]) = review
        /\ \A i \in DOMAIN reviews'[card] :
              \/ reviews'[card][i] = review
              \/ /\ i \in DOMAIN reviews[card]
                 /\ reviews'[card][i] = reviews[card][i]
    <3>1. /\ Append(reviews[card], review) # <<>> /\ Last(Append(reviews[card], review)) = review
          /\ \A i \in DOMAIN reviews[card] : Append(reviews[card], review)[i] = reviews[card][i]
          /\ Append(reviews[card], review)[Len(reviews[card]) + 1] = review
          /\ \A i \in DOMAIN Append(reviews[card], review) :
               i \in DOMAIN reviews[card] \/ i = Len(reviews[card]) + 1
      BY <1>2, Appended
    <3>2. reviews'[card] = Append(reviews[card], review)
      BY <2>1
    <3>3. /\ reviews'[card] # <<>> /\ Last(reviews'[card]) = review
          /\ \A i \in DOMAIN reviews[card] : reviews'[card][i] = reviews[card][i]
          /\ reviews'[card][Len(reviews[card]) + 1] = review
          /\ \A i \in DOMAIN reviews'[card] :
               i \in DOMAIN reviews[card] \/ i = Len(reviews[card]) + 1
      BY <3>1, <3>2
    <3> QED
      BY <3>3
  <2>7. \A i \in DOMAIN reviews'[card] :
           Follows(reviews'[card][i], begun'[card], handoffs'[card])
    <3> SUFFICES ASSUME NEW i \in DOMAIN reviews'[card]
                 PROVE  Follows(reviews'[card][i], begun'[card], handoffs'[card])
      OBVIOUS
    <3>1. CASE reviews'[card][i] = review
      BY <2>5, <3>1 DEF Follows
    <3>2. CASE i \in DOMAIN reviews[card] /\ reviews'[card][i] = reviews[card][i]
      BY <1>3, <3>2 DEF Follow, Follows
    <3> QED
      BY <2>6, <3>1, <3>2
  <2>8. review.decision \in {"approved", "changes_requested", "blocked"}
    BY DEF Review, Decisions
  <2>9. cardState'[card] = "approved" => (ApprovalStands(card))'
    BY <2>1, <2>2, <2>6 DEF ApprovalStands, StandingApproval, LatestReview
  <2> QED
    BY <2>1, <2>7, <2>8, <2>9 DEF CardJudged
<1>9. ASSUME Untouched(card) \/ Gated(card) \/ Taken(card) \/ Released(card)
      PROVE  Fact
  <2>1. /\ reviews'[card] = reviews[card] /\ handoffs'[card] = handoffs[card]
        /\ revision'[card] = revision[card] /\ begun'[card] = begun[card]
    BY <1>9 DEF Untouched, Gated, Taken, Released
  <2>2. \/ cardState'[card] = cardState[card]
        \/ cardState[card] = "approved" /\ cardState'[card] = "integrating"
        \/ cardState[card] = "integrating" /\ cardState'[card] \in {"approved", "landed"}
    BY <1>9 DEF Untouched, Gated, Taken, Released
  <2> HIDE DEF Fact
  <2> QED
    BY <1>5, <2>1, <2>2
<1>10. ASSUME HandedOff(card) \/ Revoked(card) \/ Reopened(card)
       PROVE  Fact
  <2>1. /\ reviews'[card] = reviews[card]
        /\ cardState'[card] \in {"active", "ready", "handed_off"}
    BY <1>10 DEF HandedOff, Revoked, Reopened
  <2> HIDE DEF Fact
  <2> QED
    BY <1>6, <2>1
<1> HIDE DEF Fact
<1>11. Fact
  BY <1>2, <1>7, <1>8, <1>9, <1>10 DEF CardStep
<1> QED
  BY <1>11 DEF Fact

\* Both layers are invariants.
LEMMA AlwaysJudged == Spec => [](Typed /\ Judged)
<1>1. ASSUME Typed /\ Judged, [Next]_vars
      PROVE  Typed' /\ Judged'
  BY <1>1, EveryStep, TypedStep, JudgedStep
<1> QED
  BY TypedInit, JudgedInit, <1>1, PTL DEF Spec

(***************************************************************************)
(* Results.                                                                *)
(***************************************************************************)

\* The verdicts in force are verdicts on what is in force.
THEOREM VerdictsHold == Spec => []VerdictsStand
<1>1. Typed /\ Judged => VerdictsStand
  <2> SUFFICES ASSUME Typed, Judged PROVE VerdictsStand
    OBVIOUS
  <2>1. ReviewsWereOpened
    BY DEF Judged, CardJudged, Follows, ReviewsWereOpened
  <2>2. ApprovedCardStands
    BY DEF Judged, CardJudged, ApprovalStands, ApprovedCardStands
  <2> QED
    BY <2>1, <2>2, TypedIsTypeOK DEF VerdictsStand
<1> QED
  BY <1>1, AlwaysJudged, PTL

\* What a step selects is what its card was ready to be integrated on.
LEMMA SelectedIsTaken ==
    ASSUME Typed, AnyStep, NEW card \in Cards, Selected(card)
    PROVE  Taken(card)
<1>1. cardState[card] # "integrating" /\ cardState'[card] = "integrating" /\ CardStep(card)
  BY DEF Selected, AnyStep
<1>2. ~ Reviewed(card)
  BY <1>1 DEF Reviewed, Review, Decisions
<1> QED
  BY <1>1, <1>2 DEF CardStep, Untouched, Gated, HandedOff, Revoked, Opened, Reopened, Released

\* The approval a card is taken on is of what its branch holds, gates and all.
LEMMA SelectedWasReviewed ==
    ASSUME Typed, Judged, AnyStep, NEW card \in Cards, Selected(card)
    PROVE  LET review == reviews[card][member'[card]]
               handoff == handoffs[card][review.handoff]
           IN  /\ review.decision = "approved" /\ review.handoff \in begun[card]
               /\ review.candidate = head[card] /\ handoff.candidate = head[card]
               /\ review.revision = revision[card] /\ handoff.revision = revision[card]
               /\ <<revision[card], head[card]>> \in passed[card]
<1> DEFINE review == reviews[card][member'[card]]
           handoff == handoffs[card][review.handoff]
<1>1. Assess(card) # 0 /\ member'[card] = Assess(card)
  BY SelectedIsTaken DEF Taken
<1>2. /\ member'[card] \in DOMAIN reviews[card] /\ review.decision = "approved"
      /\ IsCurrentFor(card, review, head[card])
  BY <1>1, AssessedApproval
<1>3. review.candidate = head[card] /\ review.revision = revision[card]
  BY <1>2 DEF IsCurrentFor
<1>4. Follows(review, begun[card], handoffs[card])
  BY <1>2 DEF Judged, CardJudged
<1>5. /\ review.handoff \in begun[card] /\ review.handoff \in DOMAIN handoffs[card]
      /\ handoff.revision = review.revision /\ handoff.candidate = review.candidate
  BY <1>4 DEF Follows, Typed, CardTyped
<1>6. <<handoff.revision, handoff.candidate>> \in passed[card]
  BY <1>5 DEF Typed, CardTyped
<1> QED
  BY <1>2, <1>3, <1>5, <1>6

\* No commit nobody reviewed is integrated.
THEOREM SelectionIsReviewed == Spec => OnlyReviewedCommitsSelected
<1>1. Typed /\ Judged /\ [Next]_vars =>
        [\A card \in Cards : Selected(card) =>
            LET review == reviews[card][member'[card]]
                handoff == handoffs[card][review.handoff]
            IN  /\ review.decision = "approved" /\ review.handoff \in begun[card]
                /\ review.candidate = head[card] /\ handoff.candidate = head[card]
                /\ review.revision = revision[card] /\ handoff.revision = revision[card]
                /\ <<revision[card], head[card]>> \in passed[card]]_vars
  BY EveryStep, SelectedWasReviewed
<1> QED
  BY <1>1, AlwaysJudged, PTL DEF Spec, OnlyReviewedCommitsSelected

\* Dependencies are selected first or together.
LEMMA SelectedTogether ==
    ASSUME Typed, Judged, Next, NEW card \in Cards, Selected(card),
           NEW dependency \in DependsOn[card]
    PROVE  /\ dependency \in Cards
           /\ cardState'[dependency] \in {"integrating", "landed"}
           /\ StandingApproval(dependency)
<1>1. dependency \in Cards
  BY DeliveryAssumption
<1>2. [Next]_vars
  OBVIOUS
<1>3. AnyStep
  BY <1>2, EveryStep
<1>4. Taken(card)
  BY <1>3, SelectedIsTaken
<1>5. PICK cards \in SUBSET Cards : Prepare(cards) /\ card \in cards
  <2>1. cardState[card] = "approved" /\ cardState'[card] = "integrating"
    BY <1>4 DEF Taken
  <2>2. /\ card \in DOMAIN cardState /\ cardState = [other \in Cards |-> cardState[other]]
    BY DEF Typed, Tables
  <2>3. ASSUME NEW other \in Cards, NEW to, SetCard(other, to), to # "integrating"
        PROVE  FALSE
    BY <2>1, <2>2, <2>3 DEF SetCard
  <2>4. ~ \E other \in scenario :
              \/ other \in Authors /\ (Work(other) \/ Rewrite(other))
              \/ \E from \in Cards : Merge(other, from)
              \/ Reset(other)
              \/ RunGates(other)
    BY <2>1 DEF Work, Rewrite, Merge, Reset, RunGates, CommitOn
  <2>5. ~ \E other \in scenario :
              \/ CreateHandoff(other)
              \/ RevokeHandoff(other)
              \/ BeginReview(other)
              \/ \E verdict \in Verdicts(other) : RecordReview(other, verdict)
              \/ Resume(other)
              \/ Revise(other)
    BY <2>3 DEF CreateHandoff, RevokeHandoff, BeginReview, RecordReview, Resume, Revise,
                Typed, StateFor, Verdicts, Decisions
  <2>6. ~ AbandonIntegration /\ ~ Land
    BY <2>1 DEF AbandonIntegration, Land, Integrating
  <2>7. PICK cards \in SUBSET Cards : Prepare(cards)
    BY <2>4, <2>5, <2>6 DEF Next
  <2>8. card \in cards
    BY <2>1, <2>7 DEF Prepare
  <2> QED
    BY <2>7, <2>8
<1>6. CASE dependency \in cards
  <2>1. Assess(dependency) # 0 /\ cardState'[dependency] = "integrating"
    BY <1>1, <1>5, <1>6 DEF Prepare
  <2>2. cardState[dependency] = "approved"
    BY <1>1, <2>1, AssessedApproval
  <2> QED
    BY <1>1, <2>1, <2>2 DEF Judged, CardJudged, ApprovalStands
<1>7. CASE dependency \notin cards
  <2>1. /\ cardState[dependency] \in {"landed", "closed"}
        /\ cardState'[dependency] = cardState[dependency]
    BY <1>1, <1>5, <1>7 DEF Prepare, CheckDependencies
  <2> QED
    BY <1>1, <2>1 DEF Judged, CardJudged
<1> QED
  BY <1>1, <1>6, <1>7

\* What it contains of a dependency is in what that one was approved at.
LEMMA SelectedContains ==
    ASSUME Typed, Judged, AnyStep, NEW card \in Cards, Selected(card),
           NEW dependency \in DependsOn[card], dependency \in Cards,
           StandingApproval(dependency),
           reviews[card][member'[card]].bindings[dependency] # Nothing
    PROVE  IsAncestor(reviews[card][member'[card]].bindings[dependency],
                      Last(reviews[dependency]).candidate)
<1> DEFINE review == reviews[card][member'[card]]
           latest == Last(reviews[dependency])
<1>1. Assess(card) # 0 /\ member'[card] = Assess(card)
  BY SelectedIsTaken DEF Taken
<1>2. IsCurrentFor(card, review, head[card])
  BY <1>1, AssessedApproval
<1>3. DependenciesStand(card, review)
  BY <1>2 DEF IsCurrentFor
<1>4. ApprovedCandidate(dependency) = latest.candidate
  BY DEF ApprovedCandidate, LatestReview
<1>5. latest.candidate # Nothing
  <2>1. /\ reviews[dependency] \in Seq(Review(dependency)) /\ reviews[dependency] # <<>>
    BY DEF Typed, CardTyped, StandingApproval
  <2>2. Len(reviews[dependency]) \in DOMAIN reviews[dependency]
        /\ latest = reviews[dependency][Len(reviews[dependency])]
    BY <2>1, LastOf
  <2>3. Follows(latest, begun[dependency], handoffs[dependency])
    BY <2>2 DEF Judged, CardJudged
  <2>4. /\ latest.handoff \in DOMAIN handoffs[dependency]
        /\ latest.candidate = handoffs[dependency][latest.handoff].candidate
    BY <2>3 DEF Follows, Typed, CardTyped
  <2>5. latest.candidate \in Commits
    BY <2>4 DEF Typed, CardTyped
  <2> QED
    BY <2>5, CommitsAreNumbers DEF Nothing, Typed
<1>6. DependencyStandings(card, review.bindings)[dependency].contained
  <2>1. DependencyStandings(card, review.bindings)[dependency].approved
            = ApprovedCandidate(dependency)
    BY DEF DependencyStandings
  <2> QED
    BY <1>3, <1>4, <1>5, <2>1 DEF DependenciesStand
<1>7. DependencyStandings(card, review.bindings)[dependency].contained
        = (Nothing \in {review.bindings[dependency], ApprovedCandidate(dependency)}
           \/ IsAncestor(review.bindings[dependency], ApprovedCandidate(dependency)))
  BY DEF DependencyStandings
<1> QED
  BY <1>4, <1>5, <1>6, <1>7

\* A card is selected with or after its dependencies, and the newest handed-off commit of
\* one that it contains is part of what that one stands approved at (handoff.rs:
\* resolve_dependency_bindings); work never handed off is not looked at.
THEOREM SelectionIsOrdered == Spec => DependenciesSelectedApproved
<1>1. Typed /\ Judged /\ [Next]_vars =>
        [\A card \in Cards : Selected(card) =>
           \A dependency \in DependsOn[card] :
              /\ cardState'[dependency] \in {"integrating", "landed"}
              /\ StandingApproval(dependency)
              /\ reviews[card][member'[card]].bindings[dependency] # Nothing =>
                    IsAncestor(reviews[card][member'[card]].bindings[dependency],
                               Last(reviews[dependency]).candidate)]_vars
  <2> SUFFICES ASSUME Typed, Judged, Next, NEW card \in Cards, Selected(card),
                      NEW dependency \in DependsOn[card]
               PROVE  /\ cardState'[dependency] \in {"integrating", "landed"}
                      /\ StandingApproval(dependency)
                      /\ reviews[card][member'[card]].bindings[dependency] # Nothing =>
                            IsAncestor(reviews[card][member'[card]].bindings[dependency],
                                       Last(reviews[dependency]).candidate)
    OBVIOUS
  <2>1. AnyStep
    BY EveryStep
  <2>2. /\ dependency \in Cards /\ cardState'[dependency] \in {"integrating", "landed"}
        /\ StandingApproval(dependency)
    BY SelectedTogether
  <2> QED
    BY <2>1, <2>2, SelectedContains
<1> QED
  BY <1>1, AlwaysJudged, PTL DEF Spec, DependenciesSelectedApproved

(***************************************************************************)
(* Sums over finite sets of numbers.                                       *)
(***************************************************************************)

\* g gives the sum of s over each set of elements of S, in whatever order.
Sums(g, s, S) ==
    /\ g \in [SUBSET S -> Nat]
    /\ g[{}] = 0
    /\ \A t \in SUBSET S : \A x \in t : g[t] = s[x] + g[t \ {x}]

\* A sum over the sets below a number extends to that number.
LEMMA SumsExtended ==
    ASSUME NEW k \in Nat \ {0}, NEW s, \A x \in 1 .. k : s[x] \in Nat,
           NEW g, Sums(g, s, 1 .. (k - 1))
    PROVE  \E wider : Sums(wider, s, 1 .. k)
<1> DEFINE wider == [t \in SUBSET (1 .. k) |-> IF k \in t THEN s[k] + g[t \ {k}] ELSE g[t]]
<1>1. /\ g \in [SUBSET (1 .. (k - 1)) -> Nat] /\ g[{}] = 0
      /\ \A t \in SUBSET (1 .. (k - 1)) : \A x \in t : g[t] = s[x] + g[t \ {x}]
  BY DEF Sums
<1>2. \A t \in SUBSET (1 .. k) : t \ {k} \in SUBSET (1 .. (k - 1))
  OBVIOUS
<1>3. \A t \in SUBSET (1 .. k) : k \notin t => t \in SUBSET (1 .. (k - 1))
  OBVIOUS
<1>4. wider \in [SUBSET (1 .. k) -> Nat]
  BY <1>1, <1>2, <1>3
<1>5. wider[{}] = 0
  BY <1>1
<1>6. ASSUME NEW t \in SUBSET (1 .. k), NEW x \in t
      PROVE  wider[t] = s[x] + wider[t \ {x}]
  <2>1. t \ {x} \in SUBSET (1 .. k)
    OBVIOUS
  <2>2. /\ wider[t] = IF k \in t THEN s[k] + g[t \ {k}] ELSE g[t]
        /\ wider[t \ {x}] = IF k \in t \ {x} THEN s[k] + g[(t \ {x}) \ {k}] ELSE g[t \ {x}]
    BY <2>1
  <2> HIDE DEF wider
  <2>3. CASE x = k
    BY <2>2, <2>3
  <2>4. CASE x # k /\ k \in t
    <3>1. t \ {k} \in SUBSET (1 .. (k - 1)) /\ x \in t \ {k}
      BY <1>2, <2>4
    <3>2. g[t \ {k}] = s[x] + g[(t \ {k}) \ {x}]
      BY <1>1, <3>1
    <3>3. (t \ {k}) \ {x} = (t \ {x}) \ {k} /\ (t \ {k}) \ {x} \in SUBSET (1 .. (k - 1))
      BY <3>1
    <3>4. g[(t \ {x}) \ {k}] \in Nat /\ g[t \ {k}] \in Nat
      BY <1>1, <3>1, <3>3
    <3>5. wider[t] = s[k] + g[t \ {k}] /\ wider[t \ {x}] = s[k] + g[(t \ {x}) \ {k}]
      BY <2>2, <2>4
    <3>6. g[t \ {k}] = s[x] + g[(t \ {x}) \ {k}]
      BY <3>2, <3>3
    <3>7. s[x] \in Nat /\ s[k] \in Nat
      OBVIOUS
    <3> QED
      BY <3>4, <3>5, <3>6, <3>7
  <2>5. CASE x # k /\ k \notin t
    <3>1. g[t] = s[x] + g[t \ {x}]
      BY <1>1, <1>3, <2>5
    <3> QED
      BY <2>2, <2>5, <3>1
  <2> QED
    BY <2>3, <2>4, <2>5
<1> HIDE DEF wider
<1>7. Sums(wider, s, 1 .. k)
  BY <1>4, <1>5, <1>6 DEF Sums
<1> QED
  BY <1>7

\* So there is one over the sets below any number.
LEMMA SumsExist ==
    ASSUME NEW n \in Nat, NEW s, \A x \in 1 .. n : s[x] \in Nat
    PROVE  \E g : Sums(g, s, 1 .. n)
<1> DEFINE Bad == {m \in 0 .. n : ~ \E g : Sums(g, s, 1 .. m)}
<1>1. CASE Bad = {}
  <2>1. n \in 0 .. n
    OBVIOUS
  <2> QED
    BY <1>1, <2>1
<1>2. CASE Bad # {}
  <2>1. Bad \in SUBSET Nat
    OBVIOUS
  <2>2. PICK k \in Bad : \A m \in Bad : k <= m
    <3> HIDE DEF Bad
    <3> QED
      BY <1>2, <2>1, Least
  <2>3. k \in 0 .. n /\ ~ \E g : Sums(g, s, 1 .. k)
    OBVIOUS
  <2>4. CASE k = 0
    <3> DEFINE none == [t \in SUBSET (1 .. 0) |-> 0]
    <3>1. 1 .. 0 = {}
      OBVIOUS
    <3>2. Sums(none, s, 1 .. 0)
      BY <3>1 DEF Sums
    <3> QED
      BY <2>3, <2>4, <3>2
  <2>5. CASE k # 0
    <3>1. k - 1 \in 0 .. n /\ k \in Nat \ {0} /\ k \in 1 .. n
      BY <2>3, <2>5
    <3>2. k - 1 \notin Bad
      BY <2>2, <3>1
    <3>3. PICK g : Sums(g, s, 1 .. (k - 1))
      BY <3>1, <3>2
    <3>4. \E wider : Sums(wider, s, 1 .. k)
      BY <3>1, <3>3, SumsExtended
    <3> QED
      BY <2>3, <3>4
  <2> QED
    BY <2>4, <2>5
<1> QED
  BY <1>1, <1>2

\* What some of the reviews settled at a location.
SettledOver(r, at, S) == MapThenSumSet(LAMBDA k : r[k].findings[at].settled, S)

\* g gives what any of the first n reviews settled.
SettledSums(g, r, at, n) == Sums(g, [x \in 1 .. n |-> r[x].findings[at].settled], 1 .. n)

\* The sum of the community modules is that sum, here of what reviews settled.
LEMMA SumIs ==
    ASSUME NEW n \in Nat, NEW r, NEW at, NEW g, SettledSums(g, r, at, n),
           NEW S \in SUBSET (1 .. n)
    PROVE  SettledOver(r, at, S) = g[S]
<1> DEFINE s == [x \in 1 .. n |-> r[x].findings[at].settled]
           choice(t) == CHOOSE x \in t : TRUE
           Iterates(f) == f = [t \in SUBSET S |->
                IF t = {} THEN 0
                ELSE r[choice(t)].findings[at].settled + f[t \ {choice(t)}]]
           iter == CHOOSE f : Iterates(f)
           narrow == [t \in SUBSET S |-> g[t]]
<1>1. SettledOver(r, at, S) = iter[S]
  BY DEF SettledOver, MapThenSumSet, MapThenFoldSet
<1>2. /\ g \in [SUBSET (1 .. n) -> Nat] /\ g[{}] = 0
      /\ \A t \in SUBSET (1 .. n) : \A x \in t : g[t] = s[x] + g[t \ {x}]
  BY DEF SettledSums, Sums
<1>3. ASSUME NEW t \in SUBSET S, t # {}
      PROVE  /\ choice(t) \in t /\ t \ {choice(t)} \in SUBSET S
             /\ g[t] = r[choice(t)].findings[at].settled + g[t \ {choice(t)}]
  <2>1. choice(t) \in t
    BY <1>3
  <2> HIDE DEF choice
  <2>2. t \in SUBSET (1 .. n) /\ choice(t) \in 1 .. n /\ t \ {choice(t)} \in SUBSET S
    BY <2>1
  <2>3. g[t] = s[choice(t)] + g[t \ {choice(t)}]
    BY <1>2, <2>1, <2>2
  <2> QED
    BY <2>1, <2>2, <2>3
<1> HIDE DEF choice
<1>4. Iterates(narrow)
  <2>1. ASSUME NEW t \in SUBSET S
        PROVE  g[t] = IF t = {} THEN 0
                      ELSE r[choice(t)].findings[at].settled + narrow[t \ {choice(t)}]
    <3>1. CASE t = {}
      BY <1>2, <3>1
    <3>2. CASE t # {}
      BY <1>3, <3>2
    <3> QED
      BY <3>1, <3>2
  <2> QED
    BY <2>1
<1>5. Iterates(iter)
  <2> HIDE DEF Iterates
  <2> QED
    BY <1>4
<1>6. \A t \in SUBSET S :
         iter[t] = IF t = {} THEN 0
                   ELSE r[choice(t)].findings[at].settled + iter[t \ {choice(t)}]
  <2> HIDE DEF iter
  <2> QED
    BY <1>5
<1> HIDE DEF iter, Iterates, narrow
<1> DEFINE Wrong == {t \in SUBSET S : iter[t] # g[t]}
           Sizes == {Cardinality(t) : t \in Wrong}
<1>7. \A t \in SUBSET S : IsFiniteSet(t)
  <2>1. IsFiniteSet(1 .. n)
    BY FS_Interval
  <2>2. IsFiniteSet(S)
    BY <2>1, FS_Subset
  <2> QED
    BY <2>2, FS_Subset
<1>8. Wrong = {}
  <2> SUFFICES ASSUME Wrong # {} PROVE FALSE
    OBVIOUS
  <2>1. Sizes \in SUBSET Nat /\ Sizes # {}
    BY <1>7, FS_CardinalityType
  <2>2. PICK least \in Sizes : \A m \in Sizes : least <= m
    <3> HIDE DEF Sizes
    <3> QED
      BY <2>1, Least
  <2>3. PICK t \in Wrong : Cardinality(t) = least
    OBVIOUS
  <2>4. t \in SUBSET S /\ iter[t] # g[t]
    OBVIOUS
  <2>5. t # {}
    BY <1>2, <1>6, <2>4
  <2>6. choice(t) \in t /\ t \ {choice(t)} \in SUBSET S
    BY <1>3, <2>4, <2>5
  <2>7. Cardinality(t \ {choice(t)}) = Cardinality(t) - 1 /\ Cardinality(t) \in Nat
    BY <1>7, <2>4, <2>6, FS_RemoveElement, FS_CardinalityType
  <2>8. t \ {choice(t)} \notin Wrong
    <3>1. Cardinality(t \ {choice(t)}) < least
      BY <2>3, <2>7
    <3>2. Cardinality(t \ {choice(t)}) \notin Sizes
      <4> HIDE DEF Sizes
      <4> QED
        BY <2>1, <2>2, <2>7, <3>1
    <3> QED
      BY <3>2
  <2>9. iter[t \ {choice(t)}] = g[t \ {choice(t)}]
    BY <2>6, <2>8
  <2>10. iter[t] = r[choice(t)].findings[at].settled + iter[t \ {choice(t)}]
    BY <1>6, <2>4, <2>5
  <2>11. g[t] = r[choice(t)].findings[at].settled + g[t \ {choice(t)}]
    BY <1>3, <2>4, <2>5
  <2> QED
    BY <2>4, <2>9, <2>10, <2>11
<1>9. iter[S] = g[S]
  BY <1>8
<1> QED
  BY <1>1, <1>9

(***************************************************************************)
(* What reviewers left open.                                               *)
(***************************************************************************)

\* Each review answers for everything the one before it left open.
CarriedOn ==
    \A card \in Cards, at \in Locations : \A k \in DOMAIN reviews[card] :
        k > 1 => Accounting(reviews[card][k].findings[at])
                     >= Blocking(reviews[card][k - 1].findings[at])

\* At the start there is no review.
LEMMA CarriedInit == Init => CarriedOn
<1> SUFFICES ASSUME Init, NEW card \in Cards PROVE DOMAIN reviews[card] = {}
  BY DEF CarriedOn
<1> QED
  BY DEF Init

\* Every review that is recorded answers for the one before it.
LEMMA CarriedStep ==
    ASSUME Typed, CarriedOn, AnyStep
    PROVE  CarriedOn'
<1> SUFFICES ASSUME NEW card \in Cards, NEW at \in Locations,
                    NEW k \in DOMAIN reviews'[card], k > 1
             PROVE  Accounting(reviews'[card][k].findings[at])
                        >= Blocking(reviews'[card][k - 1].findings[at])
  BY DEF CarriedOn
<1>1. CASE reviews'[card] = reviews[card]
  BY <1>1 DEF CarriedOn
<1>2. CASE Reviewed(card)
  <2>1. PICK review \in Review(card) :
          reviews'[card] = Append(reviews[card], review) /\ Answers(card, review)
    BY <1>2 DEF Reviewed
  <2>2. reviews[card] \in Seq(Review(card))
    BY DEF Typed, CardTyped
  <2> DEFINE n == Len(reviews[card])
  <2>3. /\ n \in Nat /\ DOMAIN reviews[card] = 1 .. n
        /\ DOMAIN reviews'[card] = 1 .. (n + 1)
        /\ \A i \in 1 .. n : reviews'[card][i] = reviews[card][i]
        /\ reviews'[card][n + 1] = review
    BY <2>1, <2>2, Appended
  <2>4. CASE k \in 1 .. n
    <3>1. k - 1 \in 1 .. n
      BY <2>3, <2>4
    <3>2. Accounting(reviews[card][k].findings[at])
              >= Blocking(reviews[card][k - 1].findings[at])
      BY <2>3, <2>4 DEF CarriedOn
    <3> QED
      BY <2>3, <2>4, <3>1, <3>2
  <2>5. CASE k = n + 1
    <3>1. n \in 1 .. n /\ k - 1 = n
      BY <2>3, <2>5
    <3>2. reviews[card] # <<>>
      BY <2>2, <2>3, <3>1, EmptySeq
    <3>3. Last(reviews[card]) = reviews[card][n]
      BY <2>2, <3>2, LastOf
    <3>4. Accounting(review.findings[at]) >= Blocking(reviews[card][n].findings[at])
      BY <2>1, <3>2, <3>3 DEF Answers
    <3> QED
      BY <2>3, <2>5, <3>1, <3>4
  <2>6. k \in 1 .. n \/ k = n + 1
    BY <2>3
  <2> QED
    BY <2>4, <2>5, <2>6
<1>3. reviews'[card] = reviews[card] \/ Reviewed(card)
  BY DEF AnyStep, CardStep, Untouched, Gated, HandedOff, Revoked, Opened, Reopened, Taken,
         Released
<1> QED
  BY <1>1, <1>2, <1>3

\* From one round to the next nothing is lost, so nothing is over several.
LEMMA CarriedAlong ==
    ASSUME Typed, CarriedOn
    PROVE  OpenFindingsCarried
<1> SUFFICES ASSUME NEW card \in Cards, NEW at \in Locations,
                    NEW j \in DOMAIN reviews[card], NEW i \in 1 .. j
             PROVE  Blocking(reviews[card][i].findings[at]) <=
                        Blocking(reviews[card][j].findings[at])
                        + SettledOver(reviews[card], at, (i + 1) .. j)
  BY DEF OpenFindingsCarried, SettledOver
<1> DEFINE n == Len(reviews[card])
           found(k) == reviews[card][k].findings[at]
           s == [k \in 1 .. n |-> reviews[card][k].findings[at].settled]
<1>1. n \in Nat /\ DOMAIN reviews[card] = 1 .. n /\ reviews[card] \in Seq(Review(card))
  BY LenProperties DEF Typed, CardTyped
<1>2. ASSUME NEW k \in 1 .. n
      PROVE  /\ found(k).open \in Nat /\ found(k).still \in Nat /\ found(k).settled \in Nat
             /\ s[k] = found(k).settled
  <2>1. reviews[card][k] \in Review(card)
    BY <1>1, ElementOfSeq
  <2>2. found(k) \in Tally
    BY <2>1 DEF Review
  <2> QED
    BY <2>2 DEF Tally
<1>3. \A k \in 1 .. n : s[k] \in Nat /\ s[k] = reviews[card][k].findings[at].settled
  BY <1>2
<1>4. ASSUME NEW k \in 1 .. n, k > 1
      PROVE  Blocking(found(k - 1)) <= Blocking(found(k)) + s[k]
  <2>1. k - 1 \in 1 .. n
    BY <1>1, <1>4
  <2>2. Accounting(found(k)) >= Blocking(found(k - 1))
    BY <1>1, <1>4 DEF CarriedOn
  <2>3. /\ found(k).open \in Nat /\ found(k).still \in Nat /\ found(k).settled \in Nat
        /\ s[k] = found(k).settled
    BY <1>2
  <2>4. found(k - 1).open \in Nat /\ found(k - 1).still \in Nat
    BY <1>2, <2>1
  <2> HIDE DEF found, s
  <2> QED
    BY <2>2, <2>3, <2>4 DEF Accounting, Blocking
<1>5. \A k \in 1 .. n : Blocking(found(k)) \in Nat
  <2> HIDE DEF found, s
  <2> QED
    BY <1>2 DEF Blocking
<1> HIDE DEF found, s
<1>6. PICK g : Sums(g, s, 1 .. n)
  BY <1>1, <1>3, SumsExist
<1>7. ASSUME NEW b \in 1 .. n, i < b
      PROVE  /\ g[(i + 1) .. b] = s[b] + g[(i + 1) .. (b - 1)]
             /\ g[(i + 1) .. (b - 1)] \in Nat
  <2>1. /\ (i + 1) .. b \in SUBSET (1 .. n) /\ b \in (i + 1) .. b
        /\ ((i + 1) .. b) \ {b} = (i + 1) .. (b - 1)
        /\ (i + 1) .. (b - 1) \in SUBSET (1 .. n)
    BY <1>1, <1>7
  <2>2. \A t \in SUBSET (1 .. n) : \A x \in t : g[t] = s[x] + g[t \ {x}]
    BY <1>6 DEF Sums
  <2>3. g[(i + 1) .. b] = s[b] + g[((i + 1) .. b) \ {b}]
    BY <2>1, <2>2
  <2>4. g \in [SUBSET (1 .. n) -> Nat]
    BY <1>6 DEF Sums
  <2> QED
    BY <2>1, <2>3, <2>4
<1> DEFINE Lost == {b \in i .. j :
                       ~ (Blocking(found(i)) <= Blocking(found(b)) + g[(i + 1) .. b])}
<1>8. Lost = {}
  <2> SUFFICES ASSUME Lost # {} PROVE FALSE
    OBVIOUS
  <2>1. Lost \in SUBSET Nat
    OBVIOUS
  <2>2. PICK b \in Lost : \A m \in Lost : b <= m
    <3> HIDE DEF Lost
    <3> QED
      BY <2>1, Least
  <2>3. b \in i .. j /\ ~ (Blocking(found(i)) <= Blocking(found(b)) + g[(i + 1) .. b])
    OBVIOUS
  <2>4. b \in 1 .. n /\ i \in 1 .. n
    BY <1>1, <2>3
  <2>5. CASE b = i
    <3>1. (i + 1) .. b = {} /\ g[{}] = 0
      BY <1>6, <2>5 DEF Sums
    <3>2. ~ (Blocking(found(i)) <= Blocking(found(i)) + 0)
      BY <2>3, <2>5, <3>1
    <3> QED
      BY <1>5, <2>4, <3>2
  <2>6. CASE b # i
    <3>1. i < b /\ b - 1 \in i .. j /\ b - 1 < b /\ b > 1 /\ b - 1 \in 1 .. n
      BY <2>3, <2>4, <2>6
    <3>2. b - 1 \notin Lost
      BY <2>2, <2>1, <3>1
    <3>3. Blocking(found(i)) <= Blocking(found(b - 1)) + g[(i + 1) .. (b - 1)]
      BY <3>1, <3>2
    <3>4. Blocking(found(b - 1)) <= Blocking(found(b)) + s[b]
      BY <1>4, <2>4, <3>1
    <3>5. /\ g[(i + 1) .. b] = s[b] + g[(i + 1) .. (b - 1)]
          /\ g[(i + 1) .. (b - 1)] \in Nat
      BY <1>7, <2>4, <3>1
    <3>6. /\ Blocking(found(i)) \in Nat /\ Blocking(found(b)) \in Nat
          /\ Blocking(found(b - 1)) \in Nat /\ s[b] \in Nat
      BY <1>3, <1>5, <2>4, <3>1
    <3> QED
      BY <2>3, <3>3, <3>4, <3>5, <3>6
  <2> QED
    BY <2>5, <2>6
<1>9. j \in i .. j /\ (i + 1) .. j \in SUBSET (1 .. n)
  BY <1>1
<1>10. Blocking(found(i)) <= Blocking(found(j)) + g[(i + 1) .. j]
  BY <1>8, <1>9
<1>11. SettledOver(reviews[card], at, (i + 1) .. j) = g[(i + 1) .. j]
  <2>1. SettledSums(g, reviews[card], at, n)
    BY <1>6 DEF SettledSums, s
  <2> HIDE DEF n
  <2> QED
    BY <1>1, <1>9, <2>1, SumIs
<1> QED
  BY <1>10, <1>11 DEF found

\* Nothing a reviewer left open is lost between rounds.
THEOREM FindingsAreCarried == Spec => []OpenFindingsCarried
<1>1. ASSUME Typed, CarriedOn, [Next]_vars
      PROVE  Typed' /\ CarriedOn'
  BY <1>1, EveryStep, TypedStep, CarriedStep
<1> QED
  BY TypedInit, CarriedInit, <1>1, CarriedAlong, PTL DEF Spec
=============================================================================
