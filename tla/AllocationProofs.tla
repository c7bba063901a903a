-------------------------- MODULE AllocationProofs --------------------------
(***************************************************************************)
(* Claims stay disjoint, nothing waits for itself, plans are honoured and  *)
(* work keeps its lease: for any cards, cycles, areas, drafts and bounds.  *)
(*                                                                         *)
(* Every action is of one of six kinds, each a few facts about single      *)
(* cards and cycles (AnyStep, EveryStep, the ...Effect lemmas). Above them *)
(* the invariant has these layers:                                         *)
(*   Typed           the types                                             *)
(*   RecordsAgree    a card has a revision just when it is no draft, has   *)
(*                   had no lease before that, and only activated cards    *)
(*                   are members, of cycles that have been active          *)
(*   PlansComeFirst  until its cycle is planned or migrated no card that   *)
(*                   stayed in it is leased, and no migrated cycle is      *)
(*                   ever planned                                          *)
(* The properties themselves are inductive beside these.                   *)
(***************************************************************************)
EXTENDS Allocation, TLAPS, FiniteSetTheorems, SequenceTheorems, WellFoundedInduction

-----------------------------------------------------------------------------
(* The lifecycle tables. *)

\* The states and statuses there are.
LEMMA Words ==
    /\ L!CardStates =
         {"draft", "ready", "leased", "active", "handed_off", "review_pending",
          "changes_requested", "approved", "integrating", "accepted", "landed",
          "closed", "blocked", "abandoned"}
    /\ L!CycleStatuses =
         {"draft", "active", "sealed", "integrating", "accepted", "landed", "closed",
          "blocked", "abandoned"}
  BY DEF L!CardStates, L!CycleStatuses

WorkBegun(state) == state \notin {"draft", "ready", "closed", "abandoned"}

Claiming(state) == state \notin {"closed", "abandoned", "landed", "draft"}

SettledState(state) == L!IsAccepted(state) \/ state = "abandoned"

\* Along the successor table nothing becomes a draft again, what is settled stays
\* settled, and claims and begun work are not taken up from nowhere.
LEMMA CardTable ==
    ASSUME NEW from \in L!CardStates, NEW to, L!Advances(from, to)
    PROVE  /\ to \in L!CardStates /\ to # "draft" 
           /\ SettledState(from) => SettledState(to)
           /\ Claiming(to) => Claiming(from) \/ from = "draft"
           /\ WorkBegun(to) => WorkBegun(from) \/ from = "ready"
           /\ from = "ready" => to \in {"leased", "active", "abandoned"}
           /\ from = "draft" => to \in {"ready", "abandoned"}
  BY Words DEF L!Advances, L!CheckTransition, L!Successors, SettledState, L!IsAccepted,
     Claiming, WorkBegun

\* A move of the table is an advance.
LEMMA TransitionAdvances ==
    ASSUME NEW from, NEW to, L!CheckTransition(from, to)
    PROVE  L!Advances(from, to)
  BY DEF L!Advances

\* The moves the commands name.
LEMMA NamedMoves ==
    ASSUME NEW from \in L!CardStates
    PROVE  /\ L!CheckTransition(from, "leased") <=> from = "ready"
           /\ L!CheckTransition(from, "closed") <=> from = "landed"
           /\ L!CheckTransition(from, "blocked")
                => from \in {"active", "review_pending", "integrating"}
           /\ L!CheckTransition(from, "active") => WorkBegun(from) /\ ~SettledState(from)
           /\ L!Advances("draft", "ready")
           /\ L!Advances("ready", "active")
           /\ L!IsRevisable(from) => ~SettledState(from)
           /\ from # "draft" /\ L!IsRevisable(from) => Claiming(from)
  BY Words DEF L!Advances, L!CheckTransition, L!Successors, SettledState, L!IsAccepted,
     Claiming, WorkBegun, L!IsRevisable

\* No cycle becomes a draft again.
LEMMA CycleTable ==
    ASSUME NEW from \in L!CycleStatuses, NEW to, L!CheckCycleTransition(from, to)
    PROVE  to \in L!CycleStatuses /\ to # "draft"
  BY Words DEF L!CheckCycleTransition, L!CycleSuccessors

-----------------------------------------------------------------------------
(* The kinds of step. *)

Plain ==
    /\ UNCHANGED <<cycleVars, cardState, revisions, lease, revoked>>
    /\ \A card \in branches : lease[card].held => card \in branches'

CycleMoved(cycle, status) ==
    /\ cycleStatus' = [cycleStatus EXCEPT ![cycle] = status]
    /\ status \in L!CycleStatuses
    /\ status = "active" => cycleStatus[cycle] = "draft"
    /\ status = "draft" => cycleStatus[cycle] = "absent"
    /\ UNCHANGED <<members, plan, legacy, cardState, revisions, leaseVars, revoked>>

CycleSettled(cycle) ==
    /\ ~HasPlan(cycle) /\ cycle \notin legacy
    /\ \/ /\ \E p : /\ plan' = [plan EXCEPT ![cycle] = p]
                    /\ ToSet(p.order) = members[cycle] /\ p.order \in Seq(Cards)
          /\ legacy' = legacy
       \/ /\ legacy' = legacy \cup {cycle}
          /\ plan' = plan
    /\ UNCHANGED <<cycleStatus, members, cardState, revisions, leaseVars, revoked>>

Written(card, record, cycle) ==
    /\ Exists(cycle)
    /\ CheckAllocation(cycle, card, record)
    /\ WriteRevision(card, record)
    /\ UNCHANGED <<cycleStatus, plan, legacy, leaseVars>>
    /\ \/ /\ ~Activated(card) /\ cycle = record.cycle
          /\ CycleAcceptingCards(cycle)
          /\ members' = [members EXCEPT ![cycle] = @ \cup {card}]
       \/ /\ Activated(card) /\ cycle = Current(card).cycle
          /\ L!IsRevisable(cardState[card])
          /\ UNCHANGED members

Allocated(cards) ==
    /\ AllocateMembers(cards)
    /\ \A card \in cards : PreflightStart(card) /\ RequirePlanAssignment(card)
    /\ \/ \E card : cards = {card} /\ RequireWorkAdmission(card)
       \/ \E cycle \in Cycles :
             /\ \A card \in cards : Current(card).cycle = cycle
             /\ RequireJointWorkAdmission(cycle, cards)

Moved(card, to) ==
    /\ Activated(card) \/ cardState[card] # "draft"
    /\ L!Advances(cardState[card], to)
    /\ cardState' = [cardState EXCEPT ![card] = to]
    /\ \/ ~Underway(card)' /\ revoked' = revoked \ {card}
       \/ to = "active" /\ MayResume(card) /\ revoked' = revoked \ {card}
       \/ to = "active" /\ revoked' = revoked \cup {card}
    /\ WorkBegun(to) => WorkBegun(cardState[card]) \/ (lease[card].held /\ card \in branches)
    /\ \/ UNCHANGED leaseVars
       \/ /\ ReleaseLease(card) /\ to = "closed"
          /\ \A other \in branches : other # card => other \in branches'
    /\ UNCHANGED <<cycleVars, revisions>>

AnyStep ==
    \/ Plain
    \/ \E cycle \in Cycles : CycleSettled(cycle) \/ \E status : CycleMoved(cycle, status)
    \/ \E card \in Cards : \E record \in Revision, cycle \in Cycles :
          Written(card, record, cycle)
    \/ \E cards \in SUBSET Cards : Allocated(cards)
    \/ \E card \in Cards : \E to \in L!CardStates : Moved(card, to)

Typed ==
    /\ TypeOK
    /\ plan = [cycle \in Cycles |-> plan[cycle]]

\* The initial state is typed.
LEMMA TypedInit == Init => Typed
<1> SUFFICES ASSUME Init PROVE Typed
  OBVIOUS
<1>1. Words
  BY Words
<1>2. plan = [cycle \in Cycles |-> plan[cycle]]
  BY DEF Init
<1>3. revisions \in [Cards -> Seq(Revision)] /\ \A card \in Cards : revisions[card] = <<>>
  BY DEF Init
<1>4. OldCycles \subseteq Cycles
  BY AllocationAssumption
<1> QED
  BY <1>1, <1>2, <1>3, <1>4, EmptySeq
  DEF Init, Typed, TypeOK, NoLease, L!CardStates, L!CycleStatuses

\* Appending a revision leaves the older ones and makes it the current one.
LEMMA RevisionAdded ==
    ASSUME Typed, NEW card \in Cards, NEW record \in Revision,
           revisions' = [revisions EXCEPT ![card] = Append(@, record)]
    PROVE  /\ revisions' \in [Cards -> Seq(Revision)]
           /\ \A c \in Cards : Len(revisions[c]) \in Nat /\ Len(revisions'[c]) \in Nat
           /\ \A c \in Cards : c # card => revisions'[c] = revisions[c]
           /\ Len(revisions'[card]) = Len(revisions[card]) + 1
           /\ revisions'[card] # <<>>
           /\ Last(revisions'[card]) = record
           /\ \A i \in DOMAIN revisions[card] :
                 i \in DOMAIN revisions'[card] /\ revisions'[card][i] = revisions[card][i]
           /\ revisions'[card][Len(revisions'[card])] = record
           /\ Len(revisions'[card]) \in DOMAIN revisions'[card]
<1> DEFINE s == revisions[card]
<1>1. s \in Seq(Revision) /\ revisions'[card] = Append(s, record)
  BY DEF Typed, TypeOK
<1>2. /\ Append(s, record) \in Seq(Revision)
      /\ Len(Append(s, record)) = Len(s) + 1
      /\ \A i \in 1 .. Len(s) : Append(s, record)[i] = s[i]
      /\ Append(s, record)[Len(s) + 1] = record
      /\ Len(s) \in Nat /\ DOMAIN s = 1 .. Len(s)
      /\ DOMAIN Append(s, record) = 1 .. Len(s) + 1
  BY <1>1, AppendProperties, LenProperties
<1>3. \A c \in Cards : Len(revisions[c]) \in Nat
  BY LenProperties DEF Typed, TypeOK
<1> HIDE DEF s
<1>4. Append(s, record) # <<>> /\ Last(Append(s, record)) = record
  BY <1>2 DEF Last
<1>5. \A c \in Cards : c # card => revisions'[c] = revisions[c]
  BY DEF Typed, TypeOK
<1>6. revisions' \in [Cards -> Seq(Revision)]
  BY <1>1, <1>2 DEF Typed, TypeOK
<1> QED
  BY <1>1, <1>2, <1>3, <1>4, <1>5, <1>6 DEF s

\* A card's number of revisions, positive once it is activated.
LEMMA LengthsAreNumbers ==
    Typed => \A card \in Cards : /\ Len(revisions[card]) \in Nat
                                 /\ Activated(card) => Len(revisions[card]) > 0
  BY LenProperties, EmptySeq DEF Typed, TypeOK, Activated

\* A step that writes no lease, no locator and no revision.
SameWork == UNCHANGED <<revisions, lease, locator>>

\* Typing of a step that writes no lease, locator or revision.
LEMMA TypedSameWork ==
    ASSUME Typed, SameWork,
           cycleStatus' \in [Cycles -> L!CycleStatuses \cup {"absent"}],
           members' = members, legacy' \subseteq Cycles,
           plan' = [cycle \in Cycles |-> plan'[cycle]],
           cardState' \in [Cards -> L!CardStates],
           binding' \in [Cards -> Cycles \cup {None}],
           branches' \subseteq Cards, resuming' \subseteq Cards, revoked' \subseteq Cards
    PROVE  Typed'
  BY DEF Typed, TypeOK, SameWork

\* Typing of a step that writes neither cycles nor revisions.
LEMMA TypedWork ==
    ASSUME Typed,
           UNCHANGED <<cycleVars, revisions>>,
           cardState' \in [Cards -> L!CardStates],
           binding' = binding,
           lease' \in [Cards -> [revision : Nat, held : BOOLEAN]],
           locator' \in [Cards -> Nat],
           \A card \in Cards : lease'[card].revision <= Len(revisions[card]),
           \A card \in Cards : locator'[card] <= Len(revisions[card]),
           branches' \subseteq Cards, resuming' \subseteq Cards, revoked' \subseteq Cards
    PROVE  Typed'
  BY DEF Typed, TypeOK, cycleVars

\* Typing of a step that writes a revision.
LEMMA TypedWritten ==
    ASSUME Typed, NEW card \in Cards, NEW record \in Revision,
           WriteRevision(card, record),
           members' \in [Cycles -> SUBSET Cards],
           UNCHANGED <<cycleStatus, plan, legacy, leaseVars, resuming>>
    PROVE  Typed'
<1>1. revisions' = [revisions EXCEPT ![card] = Append(@, record)]
  BY DEF WriteRevision
<1>2. /\ revisions' \in [Cards -> Seq(Revision)]
      /\ \A c \in Cards : Len(revisions[c]) \in Nat /\ Len(revisions'[c]) \in Nat
      /\ \A c \in Cards : c # card => revisions'[c] = revisions[c]
      /\ Len(revisions'[card]) = Len(revisions[card]) + 1
  BY <1>1, RevisionAdded
<1>3. \A c \in Cards : Len(revisions[c]) <= Len(revisions'[c])
  <2> SUFFICES ASSUME NEW c \in Cards PROVE Len(revisions[c]) <= Len(revisions'[c])
    OBVIOUS
  <2>1. Len(revisions[c]) \in Nat
    BY <1>2
  <2>2. CASE c # card
    BY <1>2, <2>1, <2>2
  <2>3. CASE c = card
    BY <1>2, <2>1, <2>3
  <2> QED
    BY <2>2, <2>3
<1>4. cardState' \in [Cards -> L!CardStates] /\ binding' \in [Cards -> Cycles \cup {None}]
      /\ revoked' \subseteq Cards
  BY Words DEF Typed, TypeOK, WriteRevision, SetCard
<1>5. /\ \A c \in Cards : lease[c].revision <= Len(revisions'[c])
      /\ \A c \in Cards : locator[c] <= Len(revisions'[c])
  <2> SUFFICES ASSUME NEW c \in Cards
               PROVE  lease[c].revision <= Len(revisions'[c]) /\ locator[c] <= Len(revisions'[c])
    OBVIOUS
  <2>1. lease[c].revision \in Nat /\ locator[c] \in Nat
        /\ lease[c].revision <= Len(revisions[c]) /\ locator[c] <= Len(revisions[c])
    BY DEF Typed, TypeOK
  <2> QED
    BY <2>1, <1>2, <1>3
<1> QED
  BY <1>2, <1>4, <1>5 DEF Typed, TypeOK, leaseVars

-----------------------------------------------------------------------------
(* What each action is. *)

\* `cycle create`.
LEMMA CreatesCycle ==
    ASSUME Typed, NEW cycle \in Cycles, CreateCycle(cycle)
    PROVE  Typed' /\ CycleMoved(cycle, "draft")
<1>1. CycleMoved(cycle, "draft")
  BY Words DEF CreateCycle, CycleMoved, Exists, leaseVars
<1>2. Typed'
  BY TypedSameWork, Words
  DEF Typed, TypeOK, SameWork, CreateCycle, cycleVars, leaseVars
<1> QED
  BY <1>1, <1>2

\* `cycle activate`, `seal` and `abandon`.
LEMMA MovesCycle ==
    ASSUME Typed, NEW cycle \in Cycles, NEW status, MoveCycle(cycle, status),
           status = "active" => cycleStatus[cycle] = "draft"
    PROVE  Typed' /\ CycleMoved(cycle, status)
<1>1. status \in L!CycleStatuses /\ status # "draft"
  BY CycleTable DEF MoveCycle, Typed, TypeOK, Exists
<1>2. CycleMoved(cycle, status)
  BY <1>1 DEF MoveCycle, CycleMoved, leaseVars
<1>3. Typed'
  BY <1>1, TypedSameWork DEF Typed, TypeOK, SameWork, MoveCycle, leaseVars
<1> QED
  BY <1>2, <1>3

\* The order of a plan for some cards lists exactly those cards.
LEMMA PlansListMembers ==
    ASSUME Typed, NEW cards \in SUBSET Cards, NEW order \in SetToSeqs(cards)
    PROVE  ToSet(order) = cards /\ order \in Seq(Cards)
<1> DEFINE n == Cardinality(cards)
<1>1. IsFiniteSet(cards)
  BY FS_Subset, AllocationAssumption
<1>2. order \in [1 .. n -> cards] /\ \A i, j \in 1 .. n : i # j => order[i] # order[j]
  BY DEF SetToSeqs
<1>3. n \in Nat /\ IsFiniteSet(1 .. n) /\ Cardinality(1 .. n) = n
  BY <1>1, FS_CardinalityType, FS_Interval
<1>4. order \in Injection(1 .. n, cards)
  BY <1>2 DEF Injection, IsInjective
<1>5. order \in Surjection(1 .. n, cards)
  BY <1>1, <1>3, <1>4, FS_Injection DEF Surjection, Bijection
<1>6. DOMAIN order = 1 .. n
  BY <1>2
<1>7. \A card \in cards : \E i \in 1 .. n : order[i] = card
  BY <1>5 DEF Surjection
<1>8. order \in Seq(Cards)
  <2>1. order \in [1 .. n -> Cards]
    BY <1>2
  <2> HIDE DEF n
  <2> QED
    BY <1>3, <2>1, SeqDef
<1> QED
  BY <1>2, <1>6, <1>7, <1>8 DEF ToSet

\* `cycle plan`.
LEMMA PersistsPlan ==
    ASSUME Typed, NEW cycle \in Cycles, NEW cards \in SUBSET Cards, PersistPlan(cycle, cards)
    PROVE  Typed' /\ CycleSettled(cycle)
<1>1. PICK order \in SetToSeqs(cards), distribution \in [cards -> Distributions],
           revision \in Revisions(cards) :
        plan' = [plan EXCEPT ![cycle] = [order |-> order, distribution |-> distribution,
                                         revision |-> revision]]
  BY DEF PersistPlan
<1> DEFINE p == [order |-> order, distribution |-> distribution, revision |-> revision]
<1>2. ToSet(p.order) = members[cycle] /\ p.order \in Seq(Cards)
  BY PlansListMembers DEF PersistPlan, ValidatePlanAgainstControl
<1>3. plan' = [plan EXCEPT ![cycle] = p]
  BY <1>1
<1>4. plan' = [c \in Cycles |-> plan'[c]]
  BY <1>3 DEF Typed
<1> HIDE DEF p
<1>5. CycleSettled(cycle)
  BY <1>2, <1>3 DEF PersistPlan, ValidatePlanAgainstControl, CycleSettled
<1>6. Typed'
  BY <1>4, TypedSameWork DEF Typed, TypeOK, SameWork, PersistPlan, leaseVars
<1> QED
  BY <1>5, <1>6

\* `cycle migrate-legacy`.
LEMMA MigratesCycle ==
    ASSUME Typed, NEW cycle \in Cycles, MigrateLegacy(cycle)
    PROVE  Typed' /\ CycleSettled(cycle)
<1>1. CycleSettled(cycle)
  BY DEF MigrateLegacy, RequireLegacyEligibility, CycleSettled
<1>2. Typed'
  BY TypedSameWork DEF Typed, TypeOK, SameWork, MigrateLegacy, leaseVars
<1> QED
  BY <1>1, <1>2

\* `card activate` and `card revise`.
LEMMA WritesRevision ==
    ASSUME Typed, NEW card \in Cards, NEW record \in Revision,
           ActivateCard(card, record) \/ Revise(card, record)
    PROVE  Typed' /\ \E cycle \in Cycles : Written(card, record, cycle)
<1>0. record.cycle \in Cycles
  BY DEF Revision
<1>1. CASE ActivateCard(card, record)
  <2>1. Written(card, record, record.cycle)
    BY <1>1 DEF ActivateCard, Written, CycleAcceptingCards
  <2>2. members' \in [Cycles -> SUBSET Cards]
    BY <1>0, <1>1 DEF ActivateCard, Typed, TypeOK
  <2>3. Typed'
    BY <1>1, <2>2, TypedWritten DEF ActivateCard
  <2> QED
    BY <1>0, <2>1, <2>3
<1>2. CASE Revise(card, record)
  <2>0. Current(card).cycle \in Cycles
    <3>1. revisions[card] \in Seq(Revision) /\ revisions[card] # <<>>
      BY <1>2 DEF Revise, Activated, Typed, TypeOK
    <3>2. Last(revisions[card]) \in Revision
      BY <3>1, LenProperties, ElementOfSeq, EmptySeq DEF Last
    <3> QED
      BY <3>2 DEF Current, Revision
  <2>1. Written(card, record, Current(card).cycle)
    BY <1>2 DEF Revise, Written, cycleVars
  <2>2. members' \in [Cycles -> SUBSET Cards]
    BY <1>2 DEF Revise, Typed, TypeOK, cycleVars
  <2>3. Typed'
    BY <1>2, <2>2, TypedWritten DEF Revise, cycleVars
  <2> QED
    BY <2>0, <2>1, <2>3
<1> QED
  BY <1>1, <1>2

\* Typing of an allocation.
LEMMA Allocates ==
    ASSUME Typed, NEW cards \in SUBSET Cards, AllocateMembers(cards)
    PROVE  Typed'
<1>1. \A card \in Cards : Len(revisions[card]) \in Nat
  BY LengthsAreNumbers
<1>2. /\ lease' \in [Cards -> [revision : Nat, held : BOOLEAN]]
      /\ \A card \in Cards : lease'[card].revision <= Len(revisions[card])
  <2>1. lease' = [card \in Cards |->
                    IF card \in cards
                    THEN [revision |-> Len(revisions[card]), held |-> TRUE]
                    ELSE lease[card]]
    BY DEF AllocateMembers
  <2>2. \A card \in Cards : /\ lease[card] \in [revision : Nat, held : BOOLEAN]
                            /\ lease[card].revision <= Len(revisions[card])
    BY DEF Typed, TypeOK
  <2> QED
    BY <1>1, <2>1, <2>2
<1>3. /\ locator' \in [Cards -> Nat]
      /\ \A card \in Cards : locator'[card] <= Len(revisions[card])
  BY <1>1 DEF AllocateMembers, AllocateWorktree, Typed, TypeOK
<1>4. /\ cardState' \in [Cards -> L!CardStates]
      /\ branches' \subseteq Cards /\ resuming' \subseteq Cards /\ revoked' \subseteq Cards
  BY Words DEF AllocateMembers, AllocateWorktree, Typed, TypeOK
<1> QED
  BY <1>2, <1>3, <1>4, TypedWork DEF AllocateMembers

\* `work start`.
LEMMA StartsOne ==
    ASSUME Typed, NEW card \in Cards, Start(card)
    PROVE  Typed' /\ Allocated({card})
<1>1. AllocateMembers({card}) /\ {card} \in SUBSET Cards
  BY DEF Start
<1>2. Typed'
  BY <1>1, Allocates
<1>3. Allocated({card})
  BY <1>1 DEF Start, MayStart, Allocated
<1> QED
  BY <1>2, <1>3

\* `work start` of several cards at once.
LEMMA StartsSeveral ==
    ASSUME Typed, NEW cards \in SUBSET Cards, StartBatch(cards)
    PROVE  Typed' /\ Allocated(cards)
<1>1. AllocateMembers(cards)
  BY DEF StartBatch
<1>2. Typed'
  BY <1>1, Allocates
<1>3. Allocated(cards)
  BY <1>1 DEF StartBatch, MayStartBatch, Allocated
<1> QED
  BY <1>2, <1>3

\* A start that fails while it allocates.
LEMMA FailsToStart ==
    ASSUME Typed, NEW cards \in SUBSET Cards, NEW made \in SUBSET cards, FailStart(cards, made)
    PROVE  Typed' /\ Plain
<1>1. \A card \in Cards : Len(revisions[card]) \in Nat
  BY LengthsAreNumbers
<1>2. /\ locator' \in [Cards -> Nat]
      /\ \A card \in Cards : locator'[card] <= Len(revisions[card])
  BY <1>1 DEF FailStart, AllocateWorktree, Typed, TypeOK
<1>3. branches' \subseteq Cards /\ branches \subseteq branches'
  BY DEF FailStart, AllocateWorktree, Typed, TypeOK
<1>4. Typed'
  BY <1>2, <1>3, TypedWork DEF FailStart, Typed, TypeOK
<1>5. Plain
  BY <1>3 DEF FailStart, Plain
<1> QED
  BY <1>4, <1>5

\* What touches neither a card's state nor its lease.
LEMMA PlainSteps ==
    ASSUME Typed, NEW card \in Cards,
           \/ RemoveLeftover(card) \/ CheckResume(card) \/ RefuseResume(card) \/ Reclaim(card)
    PROVE  Typed' /\ Plain
<1>1. CASE RemoveLeftover(card)
  <2>1. /\ locator' \in [Cards -> Nat]
        /\ \A c \in Cards : locator'[c] <= Len(revisions[c])
    BY <1>1, LengthsAreNumbers DEF RemoveLeftover, Typed, TypeOK
  <2>2. Typed'
    BY <1>1, <2>1, TypedWork DEF RemoveLeftover, Typed, TypeOK
  <2>3. Plain
    BY <1>1 DEF RemoveLeftover, Plain, HeldLease, HeldLeases, Typed, TypeOK
  <2> QED
    BY <2>2, <2>3
<1>2. CASE CheckResume(card)
  BY <1>2, TypedWork DEF CheckResume, Typed, TypeOK, Plain, leaseVars
<1>3. CASE RefuseResume(card)
  BY <1>3, TypedWork DEF RefuseResume, Typed, TypeOK, Plain, leaseVars
<1>4. CASE Reclaim(card)
  <2>1. /\ locator' \in [Cards -> Nat]
        /\ \A c \in Cards : locator'[c] <= Len(revisions[c])
    BY <1>4, LengthsAreNumbers DEF Reclaim, Typed, TypeOK
  <2>2. Typed'
    BY <1>4, <2>1, TypedWork DEF Reclaim, Typed, TypeOK
  <2>3. Plain
    BY <1>4 DEF Reclaim, Plain
  <2> QED
    BY <2>2, <2>3
<1> QED
  BY <1>1, <1>2, <1>3, <1>4

\* Typing of a step that moves one card.
LEMMA TypedMove ==
    ASSUME Typed, NEW card \in Cards, NEW to \in L!CardStates,
           cardState' = [cardState EXCEPT ![card] = to],
           revoked' \subseteq Cards, resuming' \subseteq Cards,
           UNCHANGED <<cycleVars, revisions, binding, leaseVars>>
    PROVE  Typed'
  BY TypedWork DEF Typed, TypeOK, leaseVars

\* `card abandon`, `work block`, and what handoff, review and integration do.
LEMMA StopsOrProgresses ==
    ASSUME Typed, NEW card \in Cards, NEW to \in L!CardStates,
           \/ AbandonCard(card) /\ to = "abandoned"
           \/ Block(card) /\ to = "blocked"
           \/ Progress(card, to)
    PROVE  Typed' /\ Moved(card, to)
<1>1. Activated(card) /\ L!Advances(cardState[card], to)
  BY TransitionAdvances DEF AbandonCard, Block, Progress
<1>2. to \notin {"leased", "active"}
  BY DEF Progress
<1>3. /\ SetCard(card, to)
      /\ UNCHANGED <<cycleVars, revisions, binding, leaseVars, resuming>>
  BY DEF AbandonCard, Block, Progress
<1>4. cardState[card] \in L!CardStates /\ card \in DOMAIN cardState
  BY DEF Typed, TypeOK
<1>5. Typed'
  BY <1>3, TypedMove DEF SetCard, Typed, TypeOK
<1>6. ~Underway(card)'
  BY <1>2, <1>3, <1>4 DEF Underway, SetCard
<1>7. WorkBegun(to) => WorkBegun(cardState[card])
  BY <1>1, <1>2, <1>4, CardTable DEF WorkBegun
<1>8. Moved(card, to)
  <2>1. cardState' = [cardState EXCEPT ![card] = to] /\ revoked' = revoked \ {card}
    BY <1>3 DEF SetCard
  <2>2. UNCHANGED leaseVars /\ UNCHANGED <<cycleVars, revisions>>
    BY <1>3
  <2> QED
    BY <1>1, <1>6, <1>7, <2>1, <2>2 DEF Moved
<1> QED
  BY <1>5, <1>8

\* `work resume`, in its transaction.
LEMMA Resumes ==
    ASSUME Typed, NEW card \in Cards, Resume(card)
    PROVE  Typed' /\ Moved(card, "active")
<1>0. "active" \in L!CardStates /\ cardState[card] \in L!CardStates
  BY Words DEF Typed, TypeOK
<1>1. L!Advances(cardState[card], "active") /\ cardState[card] # "draft"
  BY <1>0, NamedMoves, TransitionAdvances DEF Resume, MayResume, WorkBegun
<1>2. lease[card].held /\ card \in branches
  BY DEF Resume, MayResume, HeldLease, HeldLeases, VerifyLocator
<1>3. Typed'
  BY <1>0, TypedMove DEF Resume, SetCard, Typed, TypeOK
<1>4. Moved(card, "active")
  BY <1>1, <1>2 DEF Moved, Resume, SetCard
<1> QED
  BY <1>3, <1>4

\* `handoff revoke`.
LEMMA Revokes ==
    ASSUME Typed, NEW card \in Cards, Revoke(card)
    PROVE  Typed' /\ Moved(card, "active")
<1>0. "active" \in L!CardStates /\ cardState[card] \in L!CardStates
  BY Words DEF Typed, TypeOK
<1>1. L!Advances(cardState[card], "active") /\ WorkBegun(cardState[card])
  BY <1>0, NamedMoves, TransitionAdvances DEF Revoke
<1>2. Typed'
  BY <1>0, TypedMove DEF Revoke, Typed, TypeOK
<1>3. Moved(card, "active")
  BY <1>1 DEF Moved, Revoke, WorkBegun
<1> QED
  BY <1>2, <1>3

\* `archive close`.
LEMMA Closes ==
    ASSUME Typed, NEW card \in Cards, Close(card)
    PROVE  Typed' /\ Moved(card, "closed")
<1>0. "closed" \in L!CardStates /\ cardState[card] \in L!CardStates
  BY Words DEF Typed, TypeOK
<1>1. L!Advances(cardState[card], "closed") /\ cardState[card] = "landed"
  BY <1>0, NamedMoves, TransitionAdvances DEF Close
<1>2. cardState' = [cardState EXCEPT ![card] = "closed"] /\ revoked' = revoked \ {card}
  BY DEF Close, SetCard
<1>3. ~Underway(card)'
  BY <1>2 DEF Underway, Typed, TypeOK
<1>4. /\ lease' \in [Cards -> [revision : Nat, held : BOOLEAN]]
      /\ \A c \in Cards : lease'[c].revision = lease[c].revision
  BY DEF Close, ReleaseLease, Typed, TypeOK
<1>5. /\ locator' \in [Cards -> Nat]
      /\ \A c \in Cards : locator'[c] <= Len(revisions[c])
  BY LengthsAreNumbers DEF Close, Typed, TypeOK
<1>6. branches' \subseteq Cards /\ \A other \in branches : other # card => other \in branches'
  BY DEF Close, Typed, TypeOK
<1>7. cardState' \in [Cards -> L!CardStates] /\ revoked' \subseteq Cards
  BY <1>0, <1>2 DEF Typed, TypeOK
<1>8. \A c \in Cards : lease'[c].revision <= Len(revisions[c])
  BY <1>4 DEF Typed, TypeOK
<1>9. UNCHANGED <<cycleVars, revisions, binding, resuming>> /\ resuming \subseteq Cards
  BY DEF Close, Typed, TypeOK
<1>10. Typed'
  BY <1>4, <1>5, <1>6, <1>7, <1>8, <1>9, TypedWork
<1>11. Moved(card, "closed")
  BY <1>1, <1>2, <1>3, <1>6 DEF Moved, Close, WorkBegun
<1> QED
  BY <1>10, <1>11

-----------------------------------------------------------------------------

\* A step that does nothing.
LEMMA Stutters == Typed /\ UNCHANGED vars => Typed' /\ Plain
<1> SUFFICES ASSUME Typed, UNCHANGED vars PROVE Typed' /\ Plain
  OBVIOUS
<1>1. UNCHANGED <<cycleVars, cardState, revisions, binding, leaseVars, resuming, revoked>>
  BY DEF vars
<1> QED
  BY <1>1, TypedWork DEF Typed, TypeOK, Plain, leaseVars

\* The commands about a cycle.
LEMMA CycleSteps ==
    ASSUME Typed, NEW cycle \in Cycles,
           \/ CreateCycle(cycle) \/ MigrateLegacy(cycle)
           \/ ActivateCycle(cycle) \/ SealCycle(cycle) \/ AbandonCycle(cycle)
           \/ \E cards \in SUBSET Cards : PersistPlan(cycle, cards)
    PROVE  Typed' /\ AnyStep
<1>1. CASE CreateCycle(cycle)
  BY <1>1, CreatesCycle DEF AnyStep
<1>2. CASE MigrateLegacy(cycle)
  BY <1>2, MigratesCycle DEF AnyStep
<1>3. CASE ActivateCycle(cycle)
  BY <1>3, MovesCycle DEF AnyStep, ActivateCycle
<1>4. CASE SealCycle(cycle)
  BY <1>4, MovesCycle DEF AnyStep, SealCycle
<1>5. CASE AbandonCycle(cycle)
  BY <1>5, MovesCycle DEF AnyStep, AbandonCycle
<1>6. CASE \E cards \in SUBSET Cards : PersistPlan(cycle, cards)
  BY <1>6, PersistsPlan DEF AnyStep
<1> QED
  BY <1>1, <1>2, <1>3, <1>4, <1>5, <1>6

\* The commands about a card.
LEMMA CardSteps ==
    ASSUME Typed, NEW card \in Cards,
           \/ \E record \in Drafts[card] : ActivateCard(card, record) \/ Revise(card, record)
           \/ AbandonCard(card) \/ Start(card) \/ Block(card)
           \/ CheckResume(card) \/ Resume(card) \/ RefuseResume(card)
           \/ Reclaim(card) \/ Close(card) \/ Revoke(card) \/ RemoveLeftover(card)
           \/ \E to \in L!CardStates : Progress(card, to)
    PROVE  Typed' /\ AnyStep
<1>0. /\ Drafts[card] \subseteq Revision
      /\ {"abandoned", "blocked", "active", "closed"} \subseteq L!CardStates
  BY AllocationAssumption, Words
<1>1. CASE \E record \in Drafts[card] : ActivateCard(card, record) \/ Revise(card, record)
  <2>1. PICK record \in Revision : ActivateCard(card, record) \/ Revise(card, record)
    BY <1>0, <1>1
  <2> QED
    BY <2>1, WritesRevision DEF AnyStep
<1>2. CASE AbandonCard(card)
  BY <1>0, <1>2, StopsOrProgresses DEF AnyStep
<1>3. CASE Start(card)
  BY <1>3, StartsOne DEF AnyStep
<1>4. CASE Block(card)
  BY <1>0, <1>4, StopsOrProgresses DEF AnyStep
<1>5. CASE Resume(card)
  BY <1>0, <1>5, Resumes DEF AnyStep
<1>6. CASE Close(card)
  BY <1>0, <1>6, Closes DEF AnyStep
<1>7. CASE Revoke(card)
  BY <1>0, <1>7, Revokes DEF AnyStep
<1>8. CASE \E to \in L!CardStates : Progress(card, to)
  BY <1>8, StopsOrProgresses DEF AnyStep
<1>9. CASE CheckResume(card) \/ RefuseResume(card) \/ Reclaim(card) \/ RemoveLeftover(card)
  BY <1>9, PlainSteps DEF AnyStep
<1> QED
  BY <1>1, <1>2, <1>3, <1>4, <1>5, <1>6, <1>7, <1>8, <1>9

\* Every step keeps the types and is of one of the kinds.
LEMMA EveryStep == Typed /\ [Next]_vars => Typed' /\ AnyStep
<1> SUFFICES ASSUME Typed, [Next]_vars PROVE Typed' /\ AnyStep
  OBVIOUS
<1>1. CASE UNCHANGED vars
  BY <1>1, Stutters DEF AnyStep
<1>2. ASSUME NEW cycle \in Cycles,
             \/ CreateCycle(cycle) \/ MigrateLegacy(cycle)
             \/ ActivateCycle(cycle) \/ SealCycle(cycle) \/ AbandonCycle(cycle)
             \/ \E cards \in SUBSET Cards : PersistPlan(cycle, cards)
      PROVE  Typed' /\ AnyStep
  BY <1>2, CycleSteps
<1>3. ASSUME NEW card \in Cards,
             \/ \E record \in Drafts[card] : ActivateCard(card, record) \/ Revise(card, record)
             \/ AbandonCard(card) \/ Start(card) \/ Block(card)
             \/ CheckResume(card) \/ Resume(card) \/ RefuseResume(card)
             \/ Reclaim(card) \/ Close(card) \/ Revoke(card) \/ RemoveLeftover(card)
             \/ \E to \in L!CardStates : Progress(card, to)
      PROVE  Typed' /\ AnyStep
  BY <1>3, CardSteps
<1>4. ASSUME NEW cards \in SUBSET Cards,
             StartBatch(cards) \/ \E made \in SUBSET cards : FailStart(cards, made)
      PROVE  Typed' /\ AnyStep
  BY <1>4, StartsSeveral, FailsToStart DEF AnyStep
<1> QED
  BY <1>1, <1>2, <1>3, <1>4 DEF Next

\* What is recorded of a card and of a cycle agrees.
RecordsAgree ==
    /\ \A card \in Cards :
          /\ ~Activated(card) <=> cardState[card] = "draft"
          /\ ~Activated(card) => lease[card] = NoLease
          /\ lease[card] # NoLease => lease[card].revision > 0
    /\ \A cycle \in Cycles :
          /\ \A card \in members[cycle] : Activated(card)
          /\ cycleStatus[cycle] \in {"absent", "draft"} => members[cycle] = {}

\* What writing a revision does to each card.
LEMMA WrittenEffect ==
    ASSUME Typed, NEW card \in Cards, NEW record \in Revision, NEW cycle \in Cycles,
           Written(card, record, cycle)
    PROVE  /\ \A c \in Cards : c # card => /\ cardState'[c] = cardState[c]
                                           /\ revisions'[c] = revisions[c]
                                           /\ Activated(c)' <=> Activated(c)
                                           /\ Current(c)' = Current(c)
                                           /\ c \in revoked' <=> c \in revoked
           /\ cardState'[card] = "ready"
           /\ card \notin revoked'
           /\ Activated(card)'
           /\ Current(card)' = record
           /\ \A other \in Cycles : StaysIn(card, other)' =>
                 StaysIn(card, other) /\ record.cycle = other
<1>1. revisions' = [revisions EXCEPT ![card] = Append(@, record)]
  BY DEF Written, WriteRevision
<1>2. /\ revisions' \in [Cards -> Seq(Revision)]
      /\ \A c \in Cards : c # card => revisions'[c] = revisions[c]
      /\ revisions'[card] # <<>>
      /\ Last(revisions'[card]) = record
      /\ \A i \in DOMAIN revisions[card] :
            i \in DOMAIN revisions'[card] /\ revisions'[card][i] = revisions[card][i]
      /\ revisions'[card][Len(revisions'[card])] = record
      /\ Len(revisions'[card]) \in DOMAIN revisions'[card]
  BY <1>1, RevisionAdded
<1>3. /\ \A c \in Cards : c # card => cardState'[c] = cardState[c]
      /\ cardState'[card] = "ready"
      /\ revoked' = revoked \ {card}
  BY DEF Written, WriteRevision, SetCard, Typed, TypeOK
<1>4. \A c \in Cards : c # card => (Activated(c)' <=> Activated(c)) /\ Current(c)' = Current(c)
  BY <1>2 DEF Activated, Current
<1>5. Activated(card)' /\ Current(card)' = record
  BY <1>2 DEF Activated, Current
<1>6. \A other \in Cycles : StaysIn(card, other)' =>
                 StaysIn(card, other) /\ record.cycle = other
  BY <1>2 DEF StaysIn
<1> QED
  BY <1>2, <1>3, <1>4, <1>5, <1>6

\* What an allocation does to each card.
LEMMA AllocatedEffect ==
    ASSUME Typed, NEW cards \in SUBSET Cards, Allocated(cards)
    PROVE  /\ \A c \in Cards \ cards :
                 /\ cardState'[c] = cardState[c] /\ lease'[c] = lease[c]
                 /\ c \in revoked' <=> c \in revoked
           /\ \A c \in cards :
                 /\ cardState[c] = "ready" /\ cardState'[c] = "active"
                 /\ Activated(c) /\ c \in branches' /\ c \notin revoked'
                 /\ lease'[c].held /\ lease'[c].revision > 0 /\ lease'[c] # NoLease
                 /\ lease'[c] = [revision |-> Len(revisions[c]), held |-> TRUE]
           /\ branches \subseteq branches'
           /\ UNCHANGED <<cycleVars, revisions>>
<1>1. AllocateMembers(cards) /\ \A c \in cards : PreflightStart(c)
  BY DEF Allocated
<1>2. \A c \in cards : cardState[c] = "ready" /\ Activated(c) /\ Len(revisions[c]) \in Nat \ {0}
  BY <1>1, NamedMoves, LengthsAreNumbers DEF PreflightStart, Typed, TypeOK
<1>3. /\ \A c \in Cards \ cards : cardState'[c] = cardState[c] /\ lease'[c] = lease[c]
      /\ \A c \in cards : /\ cardState'[c] = "active"
                          /\ lease'[c] = [revision |-> Len(revisions[c]), held |-> TRUE]
      /\ branches' = branches \cup cards /\ revoked' = revoked \ cards
  BY <1>1 DEF AllocateMembers, AllocateWorktree
<1>4. \A c \in cards : lease'[c].held /\ lease'[c].revision > 0
  <2> SUFFICES ASSUME NEW c \in cards PROVE lease'[c].held /\ lease'[c].revision > 0
    OBVIOUS
  <2>1. lease'[c] = [revision |-> Len(revisions[c]), held |-> TRUE]
    BY <1>3
  <2>2. lease'[c].held /\ lease'[c].revision = Len(revisions[c])
    BY <2>1
  <2>3. Len(revisions[c]) > 0
    BY <1>2
  <2> QED
    BY <2>2, <2>3
<1>6. ~NoLease.held
  BY DEF NoLease
<1>7. \A c \in cards : lease'[c] # NoLease
  BY <1>4, <1>6
<1>5. UNCHANGED <<cycleVars, revisions>>
  BY <1>1 DEF AllocateMembers
<1> QED
  BY <1>2, <1>3, <1>4, <1>5, <1>7

\* Releasing what is not held changes nothing.
LEMMA ReleasedTwice ==
    ASSUME NEW r \in [revision : Nat, held : BOOLEAN], r.held = FALSE
    PROVE  [r EXCEPT !.held = FALSE] = r
  OBVIOUS

\* What moving a card does to each card.
LEMMA MovedEffect ==
    ASSUME Typed, NEW card \in Cards, NEW to \in L!CardStates, Moved(card, to)
    PROVE  /\ \A c \in Cards : c # card =>
                 /\ cardState'[c] = cardState[c] /\ lease'[c] = lease[c]
                 /\ c \in revoked' <=> c \in revoked
                 /\ c \in branches => c \in branches'
           /\ cardState'[card] = to
           /\ lease'[card].revision = lease[card].revision
           /\ to # "closed" => lease'[card] = lease[card] /\ branches' = branches
           /\ lease[card] = NoLease => lease'[card] = NoLease
           /\ UNCHANGED <<cycleVars, revisions>>
<1>1. /\ \A c \in Cards : c # card => cardState'[c] = cardState[c]
      /\ cardState'[card] = to
      /\ UNCHANGED <<cycleVars, revisions>>
  BY DEF Moved, Typed, TypeOK
<1>2. \A c \in Cards : c # card => (c \in revoked' <=> c \in revoked)
  BY DEF Moved
<1>3. /\ lease[card] \in [revision : Nat, held : BOOLEAN]
      /\ lease \in [Cards -> [revision : Nat, held : BOOLEAN]]
  BY DEF Typed, TypeOK
<1>4. CASE UNCHANGED leaseVars
  BY <1>1, <1>2, <1>4 DEF leaseVars
<1>5. CASE /\ ReleaseLease(card) /\ to = "closed"
           /\ \A other \in branches : other # card => other \in branches'
  <2>1. lease' = [lease EXCEPT ![card] = [lease[card] EXCEPT !.held = FALSE]]
    BY <1>5 DEF ReleaseLease
  <2>2. [lease[card] EXCEPT !.held = FALSE] \in [revision : Nat, held : BOOLEAN]
        /\ [lease[card] EXCEPT !.held = FALSE].revision = lease[card].revision
    BY <1>3
  <2>3. lease[card] = NoLease => [lease[card] EXCEPT !.held = FALSE] = NoLease
    <3>1. NoLease.held = FALSE
      BY DEF NoLease
    <3>2. CASE lease[card] = NoLease
      BY <1>3, <3>1, <3>2, ReleasedTwice
    <3> QED
      BY <3>2
  <2>4. /\ \A c \in Cards : c # card => lease'[c] = lease[c]
        /\ lease'[card] = [lease[card] EXCEPT !.held = FALSE]
    BY <1>3, <2>1
  <2> QED
    BY <1>1, <1>2, <1>5, <2>2, <2>3, <2>4
<1> QED
  BY <1>4, <1>5 DEF Moved

\* What is read off the revisions alone.
LEMMA SameRecords ==
    ASSUME revisions' = revisions
    PROVE  /\ \A c \in Cards : /\ Activated(c)' <=> Activated(c)
                               /\ Current(c)' = Current(c)
                               /\ \A cycle \in Cycles : StaysIn(c, cycle)' <=> StaysIn(c, cycle)
  BY DEF Activated, Current, StaysIn

\* What no step changes of a cycle but the two that do.
LEMMA CyclesChange ==
    ASSUME Typed, AnyStep
    PROVE  \A cycle \in Cycles :
              /\ members[cycle] \subseteq members'[cycle]
              /\ \A card \in members'[cycle] \ members[cycle] :
                    /\ Activated(card)' /\ cycleStatus[cycle] = "active" /\ ~HasPlan(cycle)
                    /\ \E record \in Revision, at \in Cycles : Written(card, record, at)
              /\ cycleStatus'[cycle] = "draft" => cycleStatus[cycle] \in {"absent", "draft"}
              /\ cycleStatus'[cycle] = "absent" => cycleStatus[cycle] = "absent"
              /\ cycleStatus'[cycle] = "active" => cycleStatus[cycle] \in {"draft", "active"}
              /\ members'[cycle] # members[cycle] => cycleStatus'[cycle] = "active"
<1> DEFINE Fact(cycle) ==
              /\ members[cycle] \subseteq members'[cycle]
              /\ \A card \in members'[cycle] \ members[cycle] :
                    /\ Activated(card)' /\ cycleStatus[cycle] = "active" /\ ~HasPlan(cycle)
                    /\ \E record \in Revision, at \in Cycles : Written(card, record, at)
              /\ cycleStatus'[cycle] = "draft" => cycleStatus[cycle] \in {"absent", "draft"}
              /\ cycleStatus'[cycle] = "absent" => cycleStatus[cycle] = "absent"
              /\ cycleStatus'[cycle] = "active" => cycleStatus[cycle] \in {"draft", "active"}
              /\ members'[cycle] # members[cycle] => cycleStatus'[cycle] = "active"
<1>1. ASSUME UNCHANGED <<cycleStatus, members>> PROVE \A cycle \in Cycles : Fact(cycle)
  BY <1>1
<1>2. CASE Plain
  BY <1>1, <1>2 DEF Plain, cycleVars
<1>3. ASSUME NEW at \in Cycles, CycleSettled(at) PROVE \A cycle \in Cycles : Fact(cycle)
  BY <1>1, <1>3 DEF CycleSettled
<1>4. ASSUME NEW at \in Cycles, NEW status, CycleMoved(at, status)
      PROVE  \A cycle \in Cycles : Fact(cycle)
  BY <1>4, Words DEF CycleMoved, Typed, TypeOK
<1>5. ASSUME NEW card \in Cards, NEW record \in Revision, NEW at \in Cycles,
             Written(card, record, at)
      PROVE  \A cycle \in Cycles : Fact(cycle)
  <2>1. Activated(card)'
    BY <1>5, WrittenEffect
  <2>2. CASE UNCHANGED members
    BY <1>5, <1>1, <2>2 DEF Written
  <2>3. CASE CycleAcceptingCards(at) /\ members' = [members EXCEPT ![at] = @ \cup {card}]
    BY <1>5, <2>1, <2>3
    DEF Written, CycleAcceptingCards, L!AcceptsCards, RequireUnpinnedCycle, Typed, TypeOK
  <2> QED
    BY <1>5, <2>2, <2>3 DEF Written
<1>6. ASSUME NEW cards \in SUBSET Cards, Allocated(cards) PROVE \A cycle \in Cycles : Fact(cycle)
  BY <1>1, <1>6, AllocatedEffect DEF cycleVars
<1>7. ASSUME NEW card \in Cards, NEW to \in L!CardStates, Moved(card, to)
      PROVE  \A cycle \in Cycles : Fact(cycle)
  BY <1>1, <1>7, MovedEffect DEF cycleVars
<1> QED
  BY <1>2, <1>3, <1>4, <1>5, <1>6, <1>7 DEF AnyStep

\* Whatever happens a card's record, state and lease go one way.
LEMMA CardsChange ==
    ASSUME Typed, Typed', RecordsAgree, AnyStep, NEW c \in Cards
    PROVE  /\ ~Activated(c)' <=> cardState'[c] = "draft"
           /\ ~Activated(c)' => lease'[c] = NoLease
           /\ lease'[c] # NoLease => lease'[c].revision > 0
           /\ Activated(c) => Activated(c)'
           /\ SettledState(cardState[c]) => SettledState(cardState'[c])
<1> DEFINE Fact ==
           /\ ~Activated(c)' <=> cardState'[c] = "draft"
           /\ ~Activated(c)' => lease'[c] = NoLease
           /\ lease'[c] # NoLease => lease'[c].revision > 0
           /\ Activated(c) => Activated(c)'
           /\ SettledState(cardState[c]) => SettledState(cardState'[c])
<1>0. /\ ~Activated(c) <=> cardState[c] = "draft"
      /\ ~Activated(c) => lease[c] = NoLease
      /\ lease[c] # NoLease => lease[c].revision > 0
      /\ cardState[c] \in L!CardStates
      /\ lease[c] \in [revision : Nat, held : BOOLEAN]
      /\ lease'[c] \in [revision : Nat, held : BOOLEAN]
  BY DEF RecordsAgree, Typed, TypeOK
<1>1. ASSUME UNCHANGED <<cardState, revisions, lease>> PROVE Fact
  BY <1>0, <1>1, SameRecords
<1>2. CASE Plain
  BY <1>1, <1>2 DEF Plain
<1>3. ASSUME NEW at \in Cycles, CycleSettled(at) PROVE Fact
  BY <1>1, <1>3 DEF CycleSettled, leaseVars
<1>4. ASSUME NEW at \in Cycles, NEW status, CycleMoved(at, status) PROVE Fact
  BY <1>1, <1>4 DEF CycleMoved, leaseVars
<1>5. ASSUME NEW card \in Cards, NEW record \in Revision, NEW at \in Cycles,
             Written(card, record, at)
      PROVE  Fact
  <2>1. lease' = lease
    BY <1>5 DEF Written, leaseVars
  <2>2. CASE c # card
    BY <1>0, <1>5, <2>1, <2>2, WrittenEffect
  <2>3. CASE c = card
    <3>1. cardState'[c] = "ready" /\ Activated(c)'
      BY <1>5, <2>3, WrittenEffect
    <3>2. ~SettledState(cardState[c])
      BY <1>0, <1>5, <2>3, NamedMoves DEF Written, SettledState, L!IsAccepted
    <3> QED
      BY <1>0, <2>1, <3>1, <3>2
  <2> QED
    BY <2>2, <2>3
<1>6. ASSUME NEW cards \in SUBSET Cards, Allocated(cards) PROVE Fact
  <2>1. Activated(c)' <=> Activated(c)
    BY <1>6, AllocatedEffect, SameRecords
  <2>2. CASE c \in cards
    BY <1>0, <1>6, <2>1, <2>2, AllocatedEffect DEF SettledState, L!IsAccepted
  <2>3. CASE c \notin cards
    BY <1>0, <1>6, <2>1, <2>3, AllocatedEffect
  <2> QED
    BY <2>2, <2>3
<1>7. ASSUME NEW card \in Cards, NEW to \in L!CardStates, Moved(card, to) PROVE Fact
  <2>1. Activated(c)' <=> Activated(c)
    BY <1>7, MovedEffect, SameRecords
  <2>2. CASE c = card
    <3>1. L!Advances(cardState[c], to) /\ (Activated(c) \/ cardState[c] # "draft")
      BY <1>7, <2>2 DEF Moved
    <3>2. to # "draft" /\ (SettledState(cardState[c]) => SettledState(to))
      BY <1>0, <3>1, CardTable
    <3>3. cardState'[c] = to /\ lease'[c].revision = lease[c].revision
          /\ (lease[c] = NoLease => lease'[c] = NoLease)
      BY <1>7, <2>2, MovedEffect
    <3> QED
      BY <1>0, <2>1, <3>1, <3>2, <3>3
  <2>3. CASE c # card
    BY <1>0, <1>7, <2>1, <2>3, MovedEffect
  <2> QED
    BY <2>2, <2>3
<1> QED
  BY <1>2, <1>3, <1>4, <1>5, <1>6, <1>7 DEF AnyStep

\* The records agree at the start,
LEMMA RecordsAgreeInit == Init => RecordsAgree
  BY DEF Init, RecordsAgree, Activated, NoLease

\* and after every step.
LEMMA RecordsAgreeStep == Typed /\ Typed' /\ RecordsAgree /\ AnyStep => RecordsAgree'
<1> SUFFICES ASSUME Typed, Typed', RecordsAgree, AnyStep PROVE RecordsAgree'
  OBVIOUS
<1>1. ASSUME NEW cycle \in Cycles
      PROVE  /\ \A card \in members'[cycle] : Activated(card)'
             /\ cycleStatus'[cycle] \in {"absent", "draft"} => members'[cycle] = {}
  <2>1. members[cycle] \subseteq Cards /\ members'[cycle] \subseteq Cards
    BY DEF Typed, TypeOK
  <2>2. \A card \in members[cycle] : Activated(card)'
    BY <2>1, CardsChange DEF RecordsAgree
  <2>3. \A card \in members'[cycle] \ members[cycle] : Activated(card)'
    BY CyclesChange
  <2>4. cycleStatus'[cycle] \in {"absent", "draft"}
        => members'[cycle] = members[cycle] /\ cycleStatus[cycle] \in {"absent", "draft"}
    BY CyclesChange
  <2> QED
    BY <2>2, <2>3, <2>4 DEF RecordsAgree
<1>2. \A card \in Cards :
          /\ ~Activated(card)' <=> cardState'[card] = "draft"
          /\ ~Activated(card)' => lease'[card] = NoLease
          /\ lease'[card] # NoLease => lease'[card].revision > 0
  BY CardsChange
<1>3. NoLease' = NoLease
  BY DEF NoLease
<1> QED
  BY <1>1, <1>2, <1>3 DEF RecordsAgree

-----------------------------------------------------------------------------
(* Work keeps its lease. *)

\* Nothing is begun at the start,
LEMMA WorkIsLeasedInit == Init => WorkIsLeased
  BY DEF Init, WorkIsLeased

\* and no step takes a lease or a worktree from begun work.
LEMMA WorkIsLeasedStep ==
    Typed /\ RecordsAgree /\ WorkIsLeased /\ AnyStep => WorkIsLeased'
<1> SUFFICES ASSUME Typed, RecordsAgree, WorkIsLeased, AnyStep, NEW c \in Cards
             PROVE  WorkBegun(cardState'[c]) => lease'[c].held /\ c \in branches'
  BY DEF WorkIsLeased, WorkBegun
<1> DEFINE Fact == WorkBegun(cardState'[c]) => lease'[c].held /\ c \in branches'
<1>0. /\ WorkBegun(cardState[c]) => lease[c].held /\ c \in branches
      /\ cardState[c] \in L!CardStates
  BY DEF WorkIsLeased, WorkBegun, Typed, TypeOK
<1>2. ASSUME Plain PROVE Fact
  BY <1>0, <1>2 DEF Plain
<1>3. ASSUME NEW at \in Cycles, CycleSettled(at) PROVE Fact
  BY <1>0, <1>3 DEF CycleSettled, leaseVars
<1>4. ASSUME NEW at \in Cycles, NEW status, CycleMoved(at, status) PROVE Fact
  BY <1>0, <1>4 DEF CycleMoved, leaseVars
<1>5. ASSUME NEW card \in Cards, NEW record \in Revision, NEW at \in Cycles,
             Written(card, record, at)
      PROVE  Fact
  <2>1. UNCHANGED leaseVars
    BY <1>5 DEF Written
  <2>2. ~WorkBegun("ready")
    BY DEF WorkBegun
  <2>3. CASE c = card
    BY <1>5, <2>2, <2>3, WrittenEffect
  <2>4. CASE c # card
    BY <1>0, <1>5, <2>1, <2>4, WrittenEffect DEF leaseVars
  <2> QED
    BY <2>3, <2>4
<1>6. ASSUME NEW cards \in SUBSET Cards, Allocated(cards) PROVE Fact
  <2>1. CASE c \in cards
    BY <1>6, <2>1, AllocatedEffect
  <2>2. CASE c \notin cards
    BY <1>0, <1>6, <2>2, AllocatedEffect
  <2> QED
    BY <2>1, <2>2
<1>7. ASSUME NEW card \in Cards, NEW to \in L!CardStates, Moved(card, to) PROVE Fact
  <2>1. CASE c = card
    <3>1. WorkBegun(to) => lease[c].held /\ c \in branches
      BY <1>0, <1>7, <2>1 DEF Moved
    <3>2. WorkBegun(to) => to # "closed"
      BY DEF WorkBegun
    <3> QED
      BY <1>7, <2>1, <3>1, <3>2, MovedEffect
  <2>2. CASE c # card
    BY <1>0, <1>7, <2>2, MovedEffect
  <2> QED
    BY <2>1, <2>2
<1> HIDE DEF Fact
<1>8. Fact
  BY <1>2, <1>3, <1>4, <1>5, <1>6, <1>7 DEF AnyStep
<1> QED
  BY <1>8 DEF Fact

-----------------------------------------------------------------------------
(* The claims of active cycles stay disjoint. *)

\* Two cards that claim nothing in common, if both hold their claims.
Apart(card, other) ==
    card # other /\ HoldsClaims(card) /\ HoldsClaims(other)
        => Current(card).scope \cap Current(other).scope = {}

\* No cycle has members at the start,
LEMMA DisjointInit == Init => ActiveClaimsDisjoint
  BY DEF Init, ActiveClaimsDisjoint

\* A card that holds its claims after a step held them before, at the same
\* revision, or was written by the step.
LEMMA ClaimsAreOld ==
    ASSUME Typed, RecordsAgree, AnyStep, NEW c \in Cards
    PROVE  \/ /\ HoldsClaims(c)' => HoldsClaims(c)
              /\ Activated(c) => Current(c)' = Current(c)
           \/ \E record \in Revision, at \in Cycles : Written(c, record, at)
<1> DEFINE Fact == /\ HoldsClaims(c)' => HoldsClaims(c)
                   /\ Activated(c) => Current(c)' = Current(c)
<1>0. cardState[c] \in L!CardStates /\ (~Activated(c) <=> cardState[c] = "draft")
      /\ (HoldsClaims(c) <=> Claiming(cardState[c]))
      /\ (HoldsClaims(c)' <=> Claiming(cardState'[c]))
  BY DEF Typed, TypeOK, RecordsAgree, HoldsClaims, Claiming
<1>1. ASSUME UNCHANGED <<cardState, revisions>> PROVE Fact
  BY <1>1, SameRecords DEF HoldsClaims
<1>2. ASSUME Plain PROVE Fact
  BY <1>1, <1>2 DEF Plain
<1>3. ASSUME NEW at \in Cycles, CycleSettled(at) PROVE Fact
  BY <1>1, <1>3 DEF CycleSettled
<1>4. ASSUME NEW at \in Cycles, NEW status, CycleMoved(at, status) PROVE Fact
  BY <1>1, <1>4 DEF CycleMoved
<1>5. ASSUME NEW card \in Cards, NEW record \in Revision, NEW at \in Cycles,
             Written(card, record, at), c # card
      PROVE  Fact
  BY <1>5, WrittenEffect DEF HoldsClaims
<1>6. ASSUME NEW cards \in SUBSET Cards, Allocated(cards) PROVE Fact
  <2>1. Current(c)' = Current(c)
    BY <1>6, AllocatedEffect, SameRecords
  <2>2. c \in cards => Claiming(cardState[c])
    BY <1>6, AllocatedEffect DEF Claiming
  <2>3. c \notin cards => cardState'[c] = cardState[c]
    BY <1>6, AllocatedEffect
  <2> QED
    BY <1>0, <2>1, <2>2, <2>3
<1>7. ASSUME NEW card \in Cards, NEW to \in L!CardStates, Moved(card, to) PROVE Fact
  <2>1. Current(c)' = Current(c)
    BY <1>7, MovedEffect, SameRecords
  <2>2. CASE c = card
    <3>1. L!Advances(cardState[c], to) /\ cardState[c] # "draft"
      BY <1>0, <1>7, <2>2 DEF Moved
    <3>2. Claiming(to) => Claiming(cardState[c])
      BY <1>0, <3>1, CardTable
    <3>3. cardState'[c] = to
      BY <1>7, <2>2, MovedEffect
    <3> QED
      BY <1>0, <2>1, <3>2, <3>3
  <2>3. CASE c # card
    BY <1>0, <1>7, <2>1, <2>3, MovedEffect
  <2> QED
    BY <2>2, <2>3
<1> HIDE DEF Fact
<1>8. Fact \/ \E record \in Revision, at \in Cycles : Written(c, record, at)
  BY <1>2, <1>3, <1>4, <1>5, <1>6, <1>7 DEF AnyStep
<1> QED
  BY <1>8 DEF Fact

\* What a card is written with meets no claim of the active cycles.
LEMMA WrittenApart ==
    ASSUME Typed, Typed', RecordsAgree, NEW card \in Cards, NEW record \in Revision,
           NEW at \in Cycles, Written(card, record, at),
           NEW other \in Cards, other # card, NEW cycle \in Cycles,
           cycleStatus[cycle] = "active", other \in members'[cycle]
    PROVE  Apart(card, other)' /\ Apart(other, card)'
<1>1. other \in members[cycle]
  <2>1. CASE UNCHANGED members
    BY <2>1
  <2>2. CASE members' = [members EXCEPT ![at] = @ \cup {card}]
    BY <2>2 DEF Typed, TypeOK
  <2> QED
    BY <2>1, <2>2 DEF Written
<1>2. other \in ActiveCycleClaims(card)
  BY <1>1 DEF ActiveCycleClaims, ExistingClaims
<1>3. CheckAdmissible(ActiveCycleClaims(card), record.scope)
  BY DEF Written, CheckAllocation
<1>4. HoldsClaims(other) => Current(other).scope \cap record.scope = {}
  BY <1>2, <1>3 DEF CheckAdmissible
<1>5. /\ Current(card)' = record /\ Current(other)' = Current(other)
      /\ cardState'[other] = cardState[other]
  BY WrittenEffect
<1>6. HoldsClaims(other)' <=> HoldsClaims(other)
  BY <1>5 DEF HoldsClaims
<1> QED
  BY <1>4, <1>5, <1>6 DEF Apart

\* and every step keeps the cards of active cycles apart.
LEMMA DisjointStep ==
    Typed /\ Typed' /\ RecordsAgree /\ ActiveClaimsDisjoint /\ AnyStep => ActiveClaimsDisjoint'
<1> SUFFICES ASSUME Typed, Typed', RecordsAgree, ActiveClaimsDisjoint, AnyStep,
                    NEW mine \in Cycles, NEW theirs \in Cycles,
                    cycleStatus'[mine] = "active", cycleStatus'[theirs] = "active",
                    NEW card \in members'[mine], NEW other \in members'[theirs]
             PROVE  Apart(card, other)'
  BY DEF ActiveClaimsDisjoint, Apart
<1>0. card \in Cards /\ other \in Cards
  BY DEF Typed, TypeOK
<1>1. CASE card = other
  BY <1>1 DEF Apart
<1>2. ASSUME card # other, NEW record \in Revision, NEW at \in Cycles,
             Written(card, record, at) \/ Written(other, record, at)
      PROVE  Apart(card, other)'
  <2>1. cycleStatus[mine] = "active" /\ cycleStatus[theirs] = "active"
    BY <1>2 DEF Written
  <2>2. CASE Written(card, record, at)
    BY <1>0, <1>2, <2>1, <2>2, WrittenApart
  <2>3. CASE Written(other, record, at)
    BY <1>0, <1>2, <2>1, <2>3, WrittenApart
  <2> QED
    BY <1>2, <2>2, <2>3
<1>3. ASSUME card # other,
             ~\E record \in Revision, at \in Cycles : Written(card, record, at),
             ~\E record \in Revision, at \in Cycles : Written(other, record, at)
      PROVE  Apart(card, other)'
  <2>1. /\ HoldsClaims(card)' => HoldsClaims(card)
        /\ HoldsClaims(other)' => HoldsClaims(other)
        /\ Activated(card) => Current(card)' = Current(card)
        /\ Activated(other) => Current(other)' = Current(other)
    BY <1>0, <1>3, ClaimsAreOld
  <2>2. HoldsClaims(card) => Activated(card)
    BY <1>0 DEF HoldsClaims, RecordsAgree
  <2>3. HoldsClaims(other) => Activated(other)
    BY <1>0 DEF HoldsClaims, RecordsAgree
  <2>4. ASSUME HoldsClaims(card), HoldsClaims(other)
        PROVE  /\ card \in members[mine] /\ cycleStatus[mine] = "active"
               /\ other \in members[theirs] /\ cycleStatus[theirs] = "active"
    <3>1. card \in members[mine] /\ other \in members[theirs]
      BY <1>3, CyclesChange
    <3> QED
      BY <3>1, CyclesChange DEF RecordsAgree
  <2> QED
    BY <1>3, <2>1, <2>2, <2>3, <2>4 DEF Apart, ActiveClaimsDisjoint
<1> QED
  BY <1>1, <1>2, <1>3

-----------------------------------------------------------------------------
(* No card waits for itself. *)

Waiting == [card \in Cards |-> IF Activated(card) THEN Current(card).depends ELSE {}]

\* Nothing waits at the start,
LEMMA AcyclicInit == Init => DependenciesAcyclic
<1> SUFFICES ASSUME Init PROVE Acyclic(Waiting, Cards)
  BY DEF DependenciesAcyclic, Waiting
<1>1. \A card \in Cards : Waiting[card] = {}
  BY DEF Waiting, Activated, Init
<1> QED
  BY <1>1 DEF Acyclic

\* A set that waits only within itself cannot be closed by one card whose new
\* dependencies keep within a closed set that has no such loop.
LEMMA NoNewLoop ==
    ASSUME NEW before, NEW after, NEW edges, NEW all \in SUBSET Cards, NEW card \in all,
           Acyclic(before, Cards), Acyclic(edges, all),
           \A c \in all : edges[c] \subseteq all /\ after[c] = edges[c],
           \A c \in Cards : c # card => after[c] = before[c]
    PROVE  Acyclic(after, Cards)
<1> SUFFICES ASSUME NEW S \in SUBSET Cards, S # {}
             PROVE  \E c \in S : after[c] \cap S = {}
  BY DEF Acyclic
<1>1. CASE card \notin S
  BY <1>1 DEF Acyclic
<1>2. CASE card \in S
  <2>1. S \cap all \in SUBSET all /\ S \cap all # {}
    BY <1>2
  <2>2. PICK c \in S \cap all : edges[c] \cap (S \cap all) = {}
    BY <2>1 DEF Acyclic
  <2>3. after[c] \cap S = {}
    BY <2>2
  <2> QED
    BY <2>2, <2>3
<1> QED
  BY <1>1, <1>2

\* and no step closes a loop.
LEMMA AcyclicStep ==
    Typed /\ RecordsAgree /\ DependenciesAcyclic /\ AnyStep => DependenciesAcyclic'
<1> SUFFICES ASSUME Typed, RecordsAgree, AnyStep, Acyclic(Waiting, Cards)
             PROVE  Acyclic(Waiting', Cards)
  BY DEF DependenciesAcyclic, Waiting, Acyclic
<1>1. ASSUME revisions' = revisions PROVE Waiting' = Waiting
  BY <1>1 DEF Waiting, Activated, Current
<1>2. ASSUME Plain PROVE Waiting' = Waiting
  BY <1>1, <1>2 DEF Plain
<1>3. ASSUME NEW at \in Cycles, CycleSettled(at) PROVE Waiting' = Waiting
  BY <1>1, <1>3 DEF CycleSettled
<1>4. ASSUME NEW at \in Cycles, NEW status, CycleMoved(at, status) PROVE Waiting' = Waiting
  BY <1>1, <1>4 DEF CycleMoved
<1>6. ASSUME NEW cards \in SUBSET Cards, Allocated(cards) PROVE Waiting' = Waiting
  BY <1>1, <1>6, AllocatedEffect
<1>7. ASSUME NEW card \in Cards, NEW to \in L!CardStates, Moved(card, to)
      PROVE  Waiting' = Waiting
  BY <1>1, <1>7, MovedEffect
<1>5. ASSUME NEW card \in Cards, NEW record \in Revision, NEW at \in Cycles,
             Written(card, record, at)
      PROVE  Acyclic(Waiting', Cards)
  <2> DEFINE all == ExistingClaims(at, card) \cup {card}
             edges == [c \in all |-> IF c = card THEN record.depends ELSE Current(c).depends]
  <2>1. /\ \A c \in all : edges[c] \subseteq all
        /\ Acyclic(edges, all)
    BY <1>5 DEF Written, CheckAllocation, CheckDependencies
  <2>2. all \in SUBSET Cards /\ card \in all
    BY DEF ExistingClaims, Typed, TypeOK
  <2>3. \A c \in all : c # card => Activated(c)
    BY DEF ExistingClaims, RecordsAgree
  <2>4. /\ Activated(card)' /\ Current(card)' = record
        /\ \A c \in Cards : c # card => /\ Activated(c)' <=> Activated(c)
                                        /\ Current(c)' = Current(c)
    BY <1>5, WrittenEffect
  <2>5. Waiting' = [c \in Cards |-> IF Activated(c)' THEN (Current(c)').depends ELSE {}]
    BY DEF Waiting
  <2>6. \A c \in Cards : c # card => Waiting'[c] = Waiting[c]
    BY <2>4, <2>5 DEF Waiting
  <2>7. \A c \in all : Waiting'[c] = edges[c]
    BY <2>2, <2>3, <2>4, <2>5
  <2> HIDE DEF all, edges
  <2>8. \A c \in all : edges[c] \subseteq all /\ Waiting'[c] = edges[c]
    BY <2>1, <2>7
  <2> QED
    BY <2>1, <2>2, <2>6, <2>8, NoNewLoop
<1> QED
  BY <1>2, <1>3, <1>4, <1>5, <1>6, <1>7 DEF AnyStep

-----------------------------------------------------------------------------
(* Cards follow the lifecycle. *)

\* Every step is one of the lifecycle's.
LEMMA LifecycleStep ==
    Typed /\ Typed' /\ RecordsAgree /\ AnyStep => [L!Next]_cardState
<1> SUFFICES ASSUME Typed, Typed', RecordsAgree, AnyStep PROVE L!Next
  OBVIOUS
<1>0. cardState \in [Cards -> L!CardStates] /\ cardState' \in [Cards -> L!CardStates]
  BY DEF Typed, TypeOK
<1> SUFFICES ASSUME NEW c \in Cards
             PROVE  \/ cardState'[c] = cardState[c]
                    \/ L!Advances(cardState[c], cardState'[c])
                    \/ L!Revises(cardState[c], cardState'[c])
  BY <1>0 DEF L!Next
<1> DEFINE Fact == \/ cardState'[c] = cardState[c]
                   \/ L!Advances(cardState[c], cardState'[c])
                   \/ L!Revises(cardState[c], cardState'[c])
<1>2. ASSUME Plain PROVE Fact
  BY <1>2 DEF Plain
<1>3. ASSUME NEW at \in Cycles, CycleSettled(at) PROVE Fact
  BY <1>3 DEF CycleSettled
<1>4. ASSUME NEW at \in Cycles, NEW status, CycleMoved(at, status) PROVE Fact
  BY <1>4 DEF CycleMoved
<1>5. ASSUME NEW card \in Cards, NEW record \in Revision, NEW at \in Cycles,
             Written(card, record, at)
      PROVE  Fact
  <2>1. CASE c # card
    BY <1>5, <2>1, WrittenEffect
  <2>2. CASE c = card /\ ~Activated(card)
    <3>1. cardState[c] = "draft" /\ cardState'[c] = "ready"
      BY <1>5, <2>2, WrittenEffect DEF RecordsAgree
    <3> QED
      BY <1>0, <3>1, NamedMoves
  <2>3. CASE c = card /\ Activated(card)
    <3>1. cardState[c] # "draft" /\ cardState'[c] = "ready"
      BY <1>5, <2>3, WrittenEffect DEF RecordsAgree
    <3>2. L!IsRevisable(cardState[c])
      BY <1>5, <2>3 DEF Written
    <3> QED
      BY <3>1, <3>2 DEF L!Revises
  <2> QED
    BY <2>1, <2>2, <2>3
<1>6. ASSUME NEW cards \in SUBSET Cards, Allocated(cards) PROVE Fact
  <2>1. c \in cards => L!Advances(cardState[c], cardState'[c])
    <3>1. c \in cards => cardState[c] = "ready" /\ cardState'[c] = "active"
      BY <1>6, AllocatedEffect
    <3>2. L!Advances("ready", "active")
      BY <1>0, NamedMoves
    <3> QED
      BY <3>1, <3>2
  <2>2. c \notin cards => cardState'[c] = cardState[c]
    BY <1>6, AllocatedEffect
  <2> QED
    BY <2>1, <2>2
<1>7. ASSUME NEW card \in Cards, NEW to \in L!CardStates, Moved(card, to) PROVE Fact
  BY <1>7, MovedEffect DEF Moved
<1> HIDE DEF Fact
<1>8. Fact
  BY <1>2, <1>3, <1>4, <1>5, <1>6, <1>7 DEF AnyStep
<1> QED
  BY <1>8 DEF Fact

\* All cards start as drafts.
LEMMA LifecycleInit == Init => L!Init
  BY DEF Init, L!Init

-----------------------------------------------------------------------------
(* Plans are honoured. *)

\* A cycle that has neither a plan nor been migrated lets no card of its own be
\* leased, and a migrated cycle is never planned.
PlansComeFirst ==
    /\ \A cycle \in legacy : ~HasPlan(cycle)
    /\ \A cycle \in Cycles : ~HasPlan(cycle) /\ cycle \notin legacy =>
          \A card \in Cards : StaysIn(card, cycle) => lease[card] = NoLease
    /\ \A cycle \in Cycles : HasPlan(cycle) => plan[cycle].order \in Seq(Cards)

\* There are no plans at the start.
LEMMA PlansInit == Init => PlansComeFirst /\ PlanCoversMembers /\ SequentialOrder
                           /\ SequentialWorkAlone /\ JointTogether
<1> SUFFICES ASSUME Init
             PROVE  PlansComeFirst /\ PlanCoversMembers /\ SequentialOrder
                    /\ SequentialWorkAlone /\ JointTogether
  OBVIOUS
<1>1. \A cycle \in Cycles : ~HasPlan(cycle)
  BY DEF Init, HasPlan
<1>2. PlansComeFirst
  BY <1>1 DEF Init, PlansComeFirst, NoLease
<1> QED
  BY <1>1, <1>2 DEF PlanCoversMembers, SequentialOrder, SequentialWorkAlone, JointTogether

\* A plan is bound by one kind of step, and never changed.
LEMMA PlansChange ==
    ASSUME Typed, AnyStep
    PROVE  \A cycle \in Cycles :
              /\ HasPlan(cycle) => plan'[cycle] = plan[cycle] /\ HasPlan(cycle)'
              /\ HasPlan(cycle)' /\ ~HasPlan(cycle) => CycleSettled(cycle)
              /\ cycle \in legacy => cycle \in legacy'
              /\ cycle \in legacy' /\ cycle \notin legacy => CycleSettled(cycle)
<1> DEFINE Fact(cycle) ==
              /\ HasPlan(cycle) => plan'[cycle] = plan[cycle] /\ HasPlan(cycle)'
              /\ HasPlan(cycle)' /\ ~HasPlan(cycle) => CycleSettled(cycle)
              /\ cycle \in legacy => cycle \in legacy'
              /\ cycle \in legacy' /\ cycle \notin legacy => CycleSettled(cycle)
<1>1. ASSUME UNCHANGED <<plan, legacy>> PROVE \A cycle \in Cycles : Fact(cycle)
  <2>1. \A cycle \in Cycles : HasPlan(cycle)' <=> HasPlan(cycle)
    BY <1>1 DEF HasPlan, NoPlan
  <2> QED
    BY <1>1, <2>1
<1>2. ASSUME Plain PROVE \A cycle \in Cycles : Fact(cycle)
  BY <1>1, <1>2 DEF Plain, cycleVars
<1>3. ASSUME NEW at \in Cycles, CycleSettled(at) PROVE \A cycle \in Cycles : Fact(cycle)
  <2>1. \A cycle \in Cycles : cycle # at => plan'[cycle] = plan[cycle]
    <3>1. CASE plan' = plan
      BY <3>1
    <3>2. ASSUME NEW p, plan' = [plan EXCEPT ![at] = p]
          PROVE  \A cycle \in Cycles : cycle # at => plan'[cycle] = plan[cycle]
      BY <3>2 DEF Typed
    <3> QED
      BY <1>3, <3>1, <3>2 DEF CycleSettled
  <2>2. \A cycle \in Cycles : cycle # at => (HasPlan(cycle)' <=> HasPlan(cycle))
    BY <2>1 DEF HasPlan, NoPlan
  <2>3. ~HasPlan(at) /\ legacy \subseteq legacy' /\ legacy' \subseteq legacy \cup {at}
    BY <1>3 DEF CycleSettled
  <2> QED
    BY <1>3, <2>1, <2>2, <2>3
<1>4. ASSUME NEW at \in Cycles, NEW status, CycleMoved(at, status)
      PROVE  \A cycle \in Cycles : Fact(cycle)
  BY <1>1, <1>4 DEF CycleMoved
<1>5. ASSUME NEW card \in Cards, NEW record \in Revision, NEW at \in Cycles,
             Written(card, record, at)
      PROVE  \A cycle \in Cycles : Fact(cycle)
  BY <1>1, <1>5 DEF Written
<1>6. ASSUME NEW cards \in SUBSET Cards, Allocated(cards) PROVE \A cycle \in Cycles : Fact(cycle)
  BY <1>1, <1>6, AllocatedEffect DEF cycleVars
<1>7. ASSUME NEW card \in Cards, NEW to \in L!CardStates, Moved(card, to)
      PROVE  \A cycle \in Cycles : Fact(cycle)
  BY <1>1, <1>7, MovedEffect DEF cycleVars
<1> HIDE DEF Fact
<1>8. \A cycle \in Cycles : Fact(cycle)
  BY <1>2, <1>3, <1>4, <1>5, <1>6, <1>7 DEF AnyStep
<1> QED
  BY <1>8 DEF Fact

\* A card leaves a cycle for good, and is leased only by an allocation.
LEMMA LeasesChange ==
    ASSUME Typed, RecordsAgree, AnyStep, NEW c \in Cards
    PROVE  /\ \A cycle \in Cycles : StaysIn(c, cycle)' => StaysIn(c, cycle)
           /\ \/ lease'[c] = NoLease <=> lease[c] = NoLease
              \/ \E cards \in SUBSET Cards : c \in cards /\ Allocated(cards)
<1> DEFINE Stays == \A cycle \in Cycles : StaysIn(c, cycle)' => StaysIn(c, cycle)
           Leased == \/ lease'[c] = NoLease <=> lease[c] = NoLease
                     \/ \E cards \in SUBSET Cards : c \in cards /\ Allocated(cards)
<1>1. ASSUME UNCHANGED <<revisions, lease>> PROVE Stays /\ Leased
  BY <1>1, SameRecords
<1>2. ASSUME Plain PROVE Stays /\ Leased
  BY <1>1, <1>2 DEF Plain
<1>3. ASSUME NEW at \in Cycles, CycleSettled(at) PROVE Stays /\ Leased
  BY <1>1, <1>3 DEF CycleSettled, leaseVars
<1>4. ASSUME NEW at \in Cycles, NEW status, CycleMoved(at, status) PROVE Stays /\ Leased
  BY <1>1, <1>4 DEF CycleMoved, leaseVars
<1>5. ASSUME NEW card \in Cards, NEW record \in Revision, NEW at \in Cycles,
             Written(card, record, at)
      PROVE  Stays /\ Leased
  <2>1. lease' = lease
    BY <1>5 DEF Written, leaseVars
  <2>2. CASE c = card
    BY <1>5, <2>1, <2>2, WrittenEffect
  <2>3. CASE c # card
    <3>1. revisions'[c] = revisions[c]
      BY <1>5, <2>3, WrittenEffect
    <3> QED
      BY <2>1, <3>1 DEF StaysIn
  <2> QED
    BY <2>2, <2>3
<1>6. ASSUME NEW cards \in SUBSET Cards, Allocated(cards) PROVE Stays /\ Leased
  <2>1. Stays
    BY <1>6, AllocatedEffect, SameRecords
  <2>2. c \notin cards => lease'[c] = lease[c]
    BY <1>6, AllocatedEffect
  <2> QED
    BY <1>6, <2>1, <2>2
<1>7. ASSUME NEW card \in Cards, NEW to \in L!CardStates, Moved(card, to) PROVE Stays /\ Leased
  <2>1. Stays
    BY <1>7, MovedEffect, SameRecords
  <2>2. CASE c # card
    BY <1>7, <2>1, <2>2, MovedEffect
  <2>3. CASE c = card
    <3>1. lease'[c].revision = lease[c].revision /\ (lease[c] = NoLease => lease'[c] = NoLease)
      BY <1>7, <2>3, MovedEffect
    <3>2. lease[c] # NoLease => lease[c].revision > 0
      BY DEF RecordsAgree
    <3>3. ~(NoLease.revision > 0)
      BY DEF NoLease
    <3>4. lease[c] # NoLease => lease'[c] # NoLease
      BY <3>1, <3>2, <3>3
    <3> QED
      BY <2>1, <3>1, <3>4
  <2> QED
    BY <2>2, <2>3
<1> HIDE DEF Stays, Leased
<1>8. Stays /\ Leased
  BY <1>2, <1>3, <1>4, <1>5, <1>6, <1>7 DEF AnyStep
<1> QED
  BY <1>8 DEF Stays, Leased

\* Who is under way after a step was so before, or was admitted by its plan, or
\* was taken back by a revoked handoff.
LEMMA UnderwayChange ==
    ASSUME Typed, RecordsAgree, AnyStep, NEW c \in Cards, Underway(c)', c \notin revoked'
    PROVE  \/ Underway(c) /\ c \notin revoked
           \/ \E cards \in SUBSET Cards : c \in cards /\ Allocated(cards)
           \/ Moved(c, "active") /\ MayResume(c)
<1> DEFINE Fact == \/ Underway(c) /\ c \notin revoked
                   \/ \E cards \in SUBSET Cards : c \in cards /\ Allocated(cards)
                   \/ Moved(c, "active") /\ MayResume(c)
<1>1. ASSUME UNCHANGED <<cardState, revoked>> PROVE Fact
  BY <1>1 DEF Underway
<1>2. ASSUME Plain PROVE Fact
  BY <1>1, <1>2 DEF Plain
<1>3. ASSUME NEW at \in Cycles, CycleSettled(at) PROVE Fact
  BY <1>1, <1>3 DEF CycleSettled
<1>4. ASSUME NEW at \in Cycles, NEW status, CycleMoved(at, status) PROVE Fact
  BY <1>1, <1>4 DEF CycleMoved
<1>5. ASSUME NEW card \in Cards, NEW record \in Revision, NEW at \in Cycles,
             Written(card, record, at)
      PROVE  Fact
  <2>1. c # card
    BY <1>5, WrittenEffect DEF Underway
  <2>2. cardState'[c] = cardState[c] /\ (c \in revoked' <=> c \in revoked)
    BY <1>5, <2>1, WrittenEffect
  <2> QED
    BY <2>2 DEF Underway
<1>6. ASSUME NEW cards \in SUBSET Cards, Allocated(cards) PROVE Fact
  <2>1. CASE c \notin cards
    <3>1. cardState'[c] = cardState[c] /\ (c \in revoked' <=> c \in revoked)
      BY <1>6, <2>1, AllocatedEffect
    <3> QED
      BY <3>1 DEF Underway
  <2> QED
    BY <1>6, <2>1
<1>7. ASSUME NEW card \in Cards, NEW to \in L!CardStates, Moved(card, to) PROVE Fact
  <2>1. CASE c # card
    <3>1. cardState'[c] = cardState[c] /\ (c \in revoked' <=> c \in revoked)
      BY <1>7, <2>1, MovedEffect
    <3> QED
      BY <3>1 DEF Underway
  <2>2. CASE c = card
    <3>1. to = "active" /\ MayResume(card)
      BY <1>7, <2>2 DEF Moved
    <3> QED
      BY <1>7, <2>2, <3>1
  <2> QED
    BY <2>1, <2>2
<1> HIDE DEF Fact
<1>8. Fact
  BY <1>2, <1>3, <1>4, <1>5, <1>6, <1>7 DEF AnyStep
<1> QED
  BY <1>8 DEF Fact

\* Of a card that stays in a cycle the current revision is of that cycle.
LEMMA StayingIsCurrent ==
    ASSUME Typed, NEW card \in Cards, NEW cycle, Activated(card), StaysIn(card, cycle)
    PROVE  Current(card).cycle = cycle
<1>1. Len(revisions[card]) \in Nat /\ Len(revisions[card]) > 0
      /\ DOMAIN revisions[card] = 1 .. Len(revisions[card])
  BY LengthsAreNumbers, LenProperties DEF Typed, TypeOK
<1>2. Len(revisions[card]) \in DOMAIN revisions[card]
  BY <1>1
<1> QED
  BY <1>2 DEF StaysIn, Current, Last

\* A card that is allocated has a plan of its cycle to answer to.
LEMMA AllocationsArePlanned ==
    ASSUME Typed, NEW cards \in SUBSET Cards, Allocated(cards), NEW card \in cards,
           NEW cycle \in Cycles, StaysIn(card, cycle)
    PROVE  /\ HasPlan(cycle) \/ cycle \in legacy
           /\ Current(card).cycle = cycle
           /\ HasPlan(cycle) =>
                \/ cards = {card} /\ RequireWorkAdmission(card)
                \/ RequireJointWorkAdmission(cycle, cards)
<1>1. Activated(card) /\ RequirePlanAssignment(card)
  BY AllocatedEffect DEF Allocated
<1>2. Current(card).cycle = cycle
  BY <1>1, StayingIsCurrent
<1> QED
  BY <1>1, <1>2 DEF Allocated, RequirePlanAssignment, RequireActivePlan

(* The dependency order.                                                   *)
(***************************************************************************)

\* Induction, as the provers can use it: of a set of numbers, not a predicate.
LEMMA Least ==
    ASSUME NEW T \in SUBSET Nat, T # {}
    PROVE  \E n \in T : \A m \in T : n <= m
<1> DEFINE LessThan == {pair \in Nat \X Nat : pair[1] < pair[2]}
<1>1. IsWellFoundedOn(LessThan, Nat)
  <2>1. LessThan = OpToRel(<, Nat)
    BY DEF OpToRel
  <2> QED
    BY <2>1, NatLessThanWellFounded
<1>2. PICK n \in T : \A m \in T : <<m, n>> \notin LessThan
  BY <1>1, WFMin
<1>3. ASSUME NEW m \in T
      PROVE  n <= m
  <2>1. m \in Nat /\ n \in Nat
    OBVIOUS
  <2>2. ~ (m < n)
    BY <1>2, <2>1
  <2> QED
    BY <2>1, <2>2
<1> QED
  BY <1>3

\* A plan, once bound, lists its cycle's members; only a cycle is migrated.
LEMMA PlanBound ==
    ASSUME Typed, AnyStep, NEW cycle \in Cycles, HasPlan(cycle)', ~HasPlan(cycle)
    PROVE  /\ plan'[cycle].order \in Seq(Cards)
           /\ ToSet(plan'[cycle].order) = members'[cycle]
<1>1. CycleSettled(cycle)
  BY PlansChange
<1>2. CASE plan' = plan
  BY <1>2 DEF HasPlan, NoPlan
<1>3. ASSUME NEW p, plan' = [plan EXCEPT ![cycle] = p],
             ToSet(p.order) = members[cycle], p.order \in Seq(Cards)
      PROVE  /\ plan'[cycle].order \in Seq(Cards)
             /\ ToSet(plan'[cycle].order) = members'[cycle]
  <2>1. plan'[cycle] = p
    BY <1>3 DEF Typed
  <2>2. members' = members
    BY <1>1 DEF CycleSettled
  <2> QED
    BY <1>3, <2>1, <2>2
<1> QED
  BY <1>1, <1>2, <1>3 DEF CycleSettled

\* The cards planned before one of a plan's cards are cards.
LEMMA PriorsAreCards ==
    ASSUME NEW p, p.order \in Seq(Cards), NEW card \in ToSet(p.order)
    PROVE  Priors(p, card) \subseteq Cards
<1> DEFINE order == p.order
           I == {i \in 1 .. Len(order) : order[i] = card}
<1>1. Len(order) \in Nat /\ DOMAIN order = 1 .. Len(order)
      /\ \A i \in 1 .. Len(order) : order[i] \in Cards
  BY LenProperties, ElementOfSeq
<1>2. I # {} /\ I \in SUBSET Nat
  BY <1>1 DEF ToSet
<1>3. \E i \in I : \A j \in I : i <= j
  BY <1>2, Least
<1>4. Min(I) \in I
  BY <1>3 DEF Min
<1>5. SelectInSeq(order, LAMBDA c : c = card) = Min(I)
  BY <1>2 DEF SelectInSeq
<1> DEFINE m == Min(I)
<1>6. m \in 1 .. Len(order)
  BY <1>4
<1>7. Priors(p, card) = {order[i] : i \in 1 .. (m - 1)}
  BY <1>5 DEF Priors
<1> HIDE DEF I, m, order
<1> QED
  BY <1>1, <1>6, <1>7

\* Every step leaves the cards of unplanned cycles unleased.
LEMMA PlansComeFirstStep ==
    ASSUME Typed, Typed', RecordsAgree, PlansComeFirst, AnyStep
    PROVE  PlansComeFirst'
<1>0. legacy \subseteq Cycles
  BY DEF Typed, TypeOK
<1>1. ASSUME NEW cycle \in legacy'
      PROVE  ~HasPlan(cycle)'
  <2>1. CASE cycle \in legacy
    BY <1>0, <2>1, PlansChange DEF PlansComeFirst, CycleSettled
  <2>2. CASE cycle \notin legacy
    <3>1. cycle \in Cycles
      BY DEF Typed, TypeOK
    <3>2. CycleSettled(cycle)
      BY <2>2, <3>1, PlansChange
    <3>3. plan' = plan /\ ~HasPlan(cycle)
      BY <2>2, <3>2 DEF CycleSettled
    <3> QED
      BY <3>3 DEF HasPlan, NoPlan
  <2> QED
    BY <2>1, <2>2
<1>2. ASSUME NEW cycle \in Cycles, ~HasPlan(cycle)', cycle \notin legacy',
             NEW card \in Cards, StaysIn(card, cycle)'
      PROVE  lease'[card] = NoLease
  <2>1. ~HasPlan(cycle) /\ cycle \notin legacy
    BY <1>2, PlansChange
  <2>2. StaysIn(card, cycle)
    BY <1>2, LeasesChange
  <2>3. lease[card] = NoLease
    BY <2>1, <2>2 DEF PlansComeFirst
  <2>4. ASSUME NEW cards \in SUBSET Cards, card \in cards, Allocated(cards) PROVE FALSE
    BY <2>1, <2>2, <2>4, AllocationsArePlanned
  <2> QED
    BY <2>3, <2>4, LeasesChange
<1>3. ASSUME NEW cycle \in Cycles, HasPlan(cycle)'
      PROVE  plan'[cycle].order \in Seq(Cards)
  <2>1. CASE HasPlan(cycle)
    BY <2>1, PlansChange DEF PlansComeFirst
  <2>2. CASE ~HasPlan(cycle)
    BY <1>3, <2>2, PlanBound
  <2> QED
    BY <2>1, <2>2
<1>4. NoLease' = NoLease
  BY DEF NoLease
<1> QED
  BY <1>1, <1>2, <1>3, <1>4 DEF PlansComeFirst

\* Every step leaves a plan covering its cycle's members.
LEMMA CoversStep ==
    ASSUME Typed, PlanCoversMembers, AnyStep
    PROVE  PlanCoversMembers'
<1> SUFFICES ASSUME NEW cycle \in Cycles, HasPlan(cycle)'
             PROVE  Planned(cycle)' = members'[cycle]
  BY DEF PlanCoversMembers
<1>1. CASE HasPlan(cycle)
  <2>1. plan'[cycle] = plan[cycle]
    BY <1>1, PlansChange
  <2>2. members'[cycle] = members[cycle]
    BY <1>1, CyclesChange
  <2> QED
    BY <1>1, <2>1, <2>2 DEF Planned, PlanCoversMembers
<1>2. CASE ~HasPlan(cycle)
  BY <1>2, PlanBound DEF Planned
<1> QED
  BY <1>1, <1>2

\* Every step keeps sequential cards behind the ones planned before them.
LEMMA SequentialOrderStep ==
    ASSUME Typed, Typed', RecordsAgree, PlansComeFirst, PlanCoversMembers, PlanCoversMembers',
           SequentialOrder, AnyStep
    PROVE  SequentialOrder'
<1> SUFFICES ASSUME NEW cycle \in Cycles, HasPlan(cycle)',
                    NEW card \in Planned(cycle)',
                    plan'[cycle].distribution[card] = "sequential",
                    StaysIn(card, cycle)', lease'[card] # NoLease,
                    NEW other \in Priors(plan'[cycle], card)
             PROVE  SettledState(cardState'[other])
  BY DEF SequentialOrder, SettledState, NoLease, Planned
<1>0. card \in Cards
  BY DEF PlanCoversMembers, Typed, TypeOK
<1>1. StaysIn(card, cycle)
  BY <1>0, LeasesChange
<1>2. CASE ~HasPlan(cycle)
  <2>1. CycleSettled(cycle)
    BY <1>2, PlansChange
  <2>2. lease' = lease /\ cycle \notin legacy
    BY <2>1 DEF CycleSettled, leaseVars
  <2> QED
    BY <1>0, <1>1, <1>2, <2>2 DEF PlansComeFirst
<1>3. CASE HasPlan(cycle)
  <2>1. plan'[cycle] = plan[cycle]
    BY <1>3, PlansChange
  <2>2. card \in Planned(cycle)
    BY <2>1 DEF Planned
  <2>3. other \in Cards
    BY <1>3, <2>1, <2>2, PriorsAreCards DEF PlansComeFirst, Planned
  <2>4. CASE lease[card] # NoLease
    <3>1. SettledState(cardState[other])
      BY <1>1, <1>3, <2>1, <2>2, <2>4 DEF SequentialOrder, SettledState
    <3> QED
      BY <2>3, <3>1, CardsChange
  <2>5. CASE lease[card] = NoLease
    <3>1. PICK cards \in SUBSET Cards : card \in cards /\ Allocated(cards)
      BY <1>0, <2>5, LeasesChange
    <3>2. RequireWorkAdmission(card)
      <4>1. CASE RequireJointWorkAdmission(cycle, cards)
        BY <1>3, <2>1, <3>1, <4>1 DEF RequireJointWorkAdmission
      <4> QED
        BY <1>1, <1>3, <3>1, <4>1, AllocationsArePlanned
    <3>3. Current(card).cycle = cycle
      BY <1>1, <3>1, AllocationsArePlanned
    <3>4. L!IsAccepted(cardState[other])
      BY <1>3, <2>1, <3>2, <3>3 DEF RequireWorkAdmission
    <3> QED
      BY <2>3, <3>4, CardsChange DEF SettledState
  <2> QED
    BY <2>4, <2>5
<1> QED
  BY <1>2, <1>3

\* Every step leases a joint set as one or not at all.
LEMMA JointTogetherStep ==
    ASSUME Typed, Typed', RecordsAgree, PlansComeFirst, PlanCoversMembers, PlanCoversMembers',
           JointTogether, AnyStep
    PROVE  JointTogether'
<1> SUFFICES ASSUME NEW cycle \in Cycles, HasPlan(cycle)',
                    NEW card \in Planned(cycle)', NEW other \in Planned(cycle)',
                    plan'[cycle].distribution[card] = "joint_integration",
                    plan'[cycle].distribution[other] = "joint_integration",
                    StaysIn(card, cycle)', StaysIn(other, cycle)'
             PROVE  lease'[card] = NoLease <=> lease'[other] = NoLease
  BY DEF JointTogether, NoLease, Planned
<1>0. card \in Cards /\ other \in Cards
  BY DEF PlanCoversMembers, Typed, TypeOK
<1>1. StaysIn(card, cycle) /\ StaysIn(other, cycle)
  BY <1>0, LeasesChange
<1>2. CASE ~HasPlan(cycle)
  <2>1. CycleSettled(cycle)
    BY <1>2, PlansChange
  <2>2. lease' = lease /\ cycle \notin legacy
    BY <2>1 DEF CycleSettled, leaseVars
  <2> QED
    BY <1>0, <1>1, <1>2, <2>2 DEF PlansComeFirst
<1>3. CASE HasPlan(cycle)
  <2>1. plan'[cycle] = plan[cycle]
    BY <1>3, PlansChange
  <2>2. card \in Planned(cycle) /\ other \in Planned(cycle)
    BY <2>1 DEF Planned
  <2>3. lease[card] = NoLease <=> lease[other] = NoLease
    BY <1>1, <1>3, <2>1, <2>2 DEF JointTogether
  <2>4. ASSUME NEW cards \in SUBSET Cards, Allocated(cards), card \in cards \/ other \in cards
        PROVE  card \in cards /\ other \in cards
    <3>1. PICK c \in cards : c = card \/ c = other
      BY <2>4
    <3>2. StaysIn(c, cycle) /\ plan[cycle].distribution[c] = "joint_integration"
      BY <1>1, <2>1, <3>1
    <3>3. ~RequireWorkAdmission(c)
      <4>1. Current(c).cycle = cycle
        BY <2>4, <3>2, AllocationsArePlanned
      <4> QED
        BY <1>3, <3>2, <4>1 DEF RequireWorkAdmission
    <3>4. RequireJointWorkAdmission(cycle, cards)
      BY <1>3, <2>4, <3>2, <3>3, AllocationsArePlanned
    <3> QED
      BY <1>3, <2>1, <2>2, <3>4 DEF RequireJointWorkAdmission
  <2>5. ASSUME NEW cards \in SUBSET Cards, Allocated(cards), card \in cards \/ other \in cards
        PROVE  lease'[card] # NoLease /\ lease'[other] # NoLease
    BY <2>4, <2>5, AllocatedEffect
  <2> QED
    BY <1>0, <2>3, <2>5, LeasesChange
<1> QED
  BY <1>2, <1>3

\* A card its plan admits is alone beside sequential work, and alone if sequential.
LEMMA AdmittedAlone ==
    ASSUME NEW card, NEW cycle, HasPlan(cycle), Current(card).cycle = cycle,
           RequireWorkAdmission(card), NEW other \in Planned(cycle), other # card,
           Underway(other)
    PROVE  /\ plan[cycle].distribution[card] # "sequential"
           /\ plan[cycle].distribution[other] # "sequential"
  BY DEF RequireWorkAdmission, RequireExecutionOverlapPolicy

\* Of two cards under way and not taken back, one of which an allocation began.
LEMMA AllocatedAlone ==
    ASSUME Typed, Typed', NEW cycle \in Cycles, HasPlan(cycle),
           NEW card \in Planned(cycle), NEW other \in Planned(cycle), card # other,
           card \in Cards, other \in Cards,
           StaysIn(card, cycle), StaysIn(other, cycle), Underway(card)', Underway(other)',
           NEW cards \in SUBSET Cards, Allocated(cards), card \in cards
    PROVE  /\ plan[cycle].distribution[card] # "sequential"
           /\ plan[cycle].distribution[other] # "sequential"
<1>1. Current(card).cycle = cycle
  BY AllocationsArePlanned
<1>2. other \notin cards => Underway(other)
  BY AllocatedEffect DEF Underway
<1>3. CASE cards = {card} /\ RequireWorkAdmission(card)
  BY <1>1, <1>2, <1>3, AdmittedAlone
<1>4. CASE RequireJointWorkAdmission(cycle, cards)
  BY <1>2, <1>4 DEF RequireJointWorkAdmission, RequireExecutionOverlapPolicy
<1> QED
  BY <1>3, <1>4, AllocationsArePlanned

\* The same of a card that `work resume` takes up again.
LEMMA ResumedAlone ==
    ASSUME Typed, Typed', RecordsAgree, NEW cycle \in Cycles, HasPlan(cycle),
           NEW card \in Planned(cycle), NEW other \in Planned(cycle), card # other,
           card \in Cards, other \in Cards,
           StaysIn(card, cycle), Underway(other)', Moved(card, "active"), MayResume(card)
    PROVE  /\ plan[cycle].distribution[card] # "sequential"
           /\ plan[cycle].distribution[other] # "sequential"
<1>1. lease[card].held /\ RequireWorkAdmission(card)
  BY DEF MayResume, HeldLease, HeldLeases
<1>2. Activated(card)
  BY <1>1 DEF RecordsAgree, NoLease
<1>3. Current(card).cycle = cycle
  BY <1>2, StayingIsCurrent
<1>4. Underway(other)
  BY Words, MovedEffect DEF Underway
<1> QED
  BY <1>1, <1>3, <1>4, AdmittedAlone

\* Every step leaves sequential work alone.
LEMMA SequentialWorkAloneStep ==
    ASSUME Typed, Typed', RecordsAgree, WorkIsLeased, PlansComeFirst,
           PlanCoversMembers, PlanCoversMembers', SequentialWorkAlone, AnyStep
    PROVE  SequentialWorkAlone'
<1> SUFFICES ASSUME NEW cycle \in Cycles, HasPlan(cycle)',
                    NEW card \in Planned(cycle)', NEW other \in Planned(cycle)',
                    card # other, Underway(card)', Underway(other)',
                    StaysIn(card, cycle)', StaysIn(other, cycle)',
                    card \notin revoked', other \notin revoked'
             PROVE  plan'[cycle].distribution[card] # "sequential"
  BY DEF SequentialWorkAlone, Planned
<1>0. card \in Cards /\ other \in Cards
  BY DEF PlanCoversMembers, Typed, TypeOK
<1>1. StaysIn(card, cycle) /\ StaysIn(other, cycle)
  BY <1>0, LeasesChange
<1>2. CASE ~HasPlan(cycle)
  <2>1. CycleSettled(cycle)
    BY <1>2, PlansChange
  <2>2. cardState' = cardState /\ cycle \notin legacy
    BY <2>1 DEF CycleSettled
  <2>3. lease[card].held
    BY <1>0, <2>2 DEF Underway, WorkIsLeased
  <2>4. ~NoLease.held
    BY DEF NoLease
  <2> QED
    BY <1>0, <1>1, <1>2, <2>2, <2>3, <2>4 DEF PlansComeFirst
<1>3. CASE HasPlan(cycle)
  <2>1. plan'[cycle] = plan[cycle]
    BY <1>3, PlansChange
  <2>2. card \in Planned(cycle) /\ other \in Planned(cycle)
    BY <2>1 DEF Planned
  <2>3. CASE Underway(card) /\ card \notin revoked /\ Underway(other) /\ other \notin revoked
    BY <1>1, <1>3, <2>1, <2>2, <2>3 DEF SequentialWorkAlone
  <2>4. ASSUME NEW cards \in SUBSET Cards, Allocated(cards), card \in cards \/ other \in cards
        PROVE  plan[cycle].distribution[card] # "sequential"
    BY <1>0, <1>1, <1>3, <2>2, <2>4, AllocatedAlone
  <2>5. ASSUME Moved(card, "active"), MayResume(card)
        PROVE  plan[cycle].distribution[card] # "sequential"
    BY <1>0, <1>1, <1>3, <2>2, <2>5, ResumedAlone
  <2>6. ASSUME Moved(other, "active"), MayResume(other)
        PROVE  plan[cycle].distribution[card] # "sequential"
    BY <1>0, <1>1, <1>3, <2>2, <2>6, ResumedAlone
  <2>7. \/ Underway(card) /\ card \notin revoked
        \/ \E cards \in SUBSET Cards : card \in cards /\ Allocated(cards)
        \/ Moved(card, "active") /\ MayResume(card)
    BY <1>0, UnderwayChange
  <2>8. \/ Underway(other) /\ other \notin revoked
        \/ \E cards \in SUBSET Cards : other \in cards /\ Allocated(cards)
        \/ Moved(other, "active") /\ MayResume(other)
    BY <1>0, UnderwayChange
  <2> QED
    BY <2>1, <2>3, <2>4, <2>5, <2>6, <2>7, <2>8
<1> QED
  BY <1>2, <1>3

(***************************************************************************)
(* The theorems.                                                           *)
(***************************************************************************)

IndInv ==
    /\ Typed
    /\ RecordsAgree
    /\ WorkIsLeased
    /\ ActiveClaimsDisjoint
    /\ DependenciesAcyclic
    /\ PlansComeFirst
    /\ PlanCoversMembers
    /\ SequentialOrder
    /\ SequentialWorkAlone
    /\ JointTogether

\* The invariant holds at the start,
LEMMA Initially == Init => IndInv
  BY TypedInit, RecordsAgreeInit, WorkIsLeasedInit, DisjointInit, AcyclicInit, PlansInit
  DEF IndInv

\* every step keeps it,
LEMMA Inductive == IndInv /\ [Next]_vars => IndInv' /\ AnyStep
<1> SUFFICES ASSUME IndInv, [Next]_vars PROVE IndInv' /\ AnyStep
  OBVIOUS
<1>1. Typed /\ Typed' /\ AnyStep
  BY EveryStep DEF IndInv
<1>2. RecordsAgree' /\ WorkIsLeased' /\ ActiveClaimsDisjoint' /\ DependenciesAcyclic'
  BY <1>1, RecordsAgreeStep, WorkIsLeasedStep, DisjointStep, AcyclicStep DEF IndInv
<1>3. PlansComeFirst' /\ PlanCoversMembers'
  BY <1>1, PlansComeFirstStep, CoversStep DEF IndInv
<1>4. SequentialOrder' /\ JointTogether' /\ SequentialWorkAlone'
  BY <1>1, <1>3, SequentialOrderStep, JointTogetherStep, SequentialWorkAloneStep DEF IndInv
<1> QED
  BY <1>1, <1>2, <1>3, <1>4 DEF IndInv

\* and so it always holds.
LEMMA Always == Spec => []IndInv
<1>1. Init => IndInv
  BY Initially
<1>2. IndInv /\ [Next]_vars => IndInv'
  BY Inductive
<1> QED
  BY <1>1, <1>2, PTL DEF Spec

\* Cards of active cycles that both hold their claims never claim the same area, in
\* whatever cycles, however often activated and revised (policy/allocation.rs).
THEOREM ClaimsStayDisjoint == Spec => []ActiveClaimsDisjoint
<1>1. IndInv => ActiveClaimsDisjoint
  BY DEF IndInv
<1> QED
  BY <1>1, Always, PTL

\* No chain of dependencies ever closes, although each activation and each revision
\* looks at the cards of one cycle only (check_dependencies).
THEOREM NoCardWaitsForItself == Spec => []DependenciesAcyclic
<1>1. IndInv => DependenciesAcyclic
  BY DEF IndInv
<1> QED
  BY <1>1, Always, PTL

\* A bound plan covers its cycle, its sequential cards are allocated in order and
\* work alone, and its joint set is leased as one (domain/cycle_plan.rs, work.rs).
THEOREM PlansAreHonoured == Spec => []PlanHonoured
<1>1. IndInv => PlanHonoured
  BY DEF IndInv, PlanHonoured, Typed
<1> QED
  BY <1>1, Always, PTL

\* Work once begun keeps its lease and its worktree until it is closed or abandoned.
THEOREM WorkKeepsItsLease == Spec => []WorkIsLeased
<1>1. IndInv => WorkIsLeased
  BY DEF IndInv
<1> QED
  BY <1>1, Always, PTL

\* Every command moves each card along the successor table of domain/card.rs, or
\* revises it: the allocation implements the lifecycle.
THEOREM LifecycleIsFollowed == Spec => CardsFollowLifecycle
<1>1. Init => L!Init
  BY LifecycleInit
<1>2. IndInv /\ [Next]_vars => [L!Next]_cardState
  BY Inductive, EveryStep, LifecycleStep DEF IndInv
<1> QED
  BY <1>1, <1>2, Always, PTL DEF Spec, CardsFollowLifecycle, L!Spec
=============================================================================
