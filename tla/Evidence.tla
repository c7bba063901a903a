------------------------------ MODULE Evidence ------------------------------
(***************************************************************************)
(* The parts of the harness that judge evidence share no state with one    *)
(* another: write scopes, reviews, receipts, lessons and the convergence   *)
(* ledger. Here they stand side by side, and a behaviour follows one of    *)
(* them, its `subject`, from that part's beginning; the others stay where  *)
(* they began.                                                             *)
(***************************************************************************)
EXTENDS WriteScopes, ReviewEvidence, ReceiptReuse, Lessons, ConvergenceLedger

CONSTANTS
    Appended,   \* facts an event store may hold about a cycle
    MaxEvents   \* bound: facts in the ledger

VARIABLES
    subject,    \* the part that is followed
    events      \* the convergence facts in the event store

\* Whatever is well-formed may be in the store.
ASSUME FactsAssumption == Appended \subseteq Fact /\ MaxEvents \in Nat

vars == <<subject, events, scopeVars, evidenceVars, runs, lessonVars>>

Judged == {"scopes", "review", "reuse", "lessons", "ledger"}

-----------------------------------------------------------------------------
(***************************************************************************)
(* The ledger: any fact may follow any other.                              *)
(***************************************************************************)

AppendFact(fact) ==
    /\ Len(events) < MaxEvents
    /\ events' = Append(events, fact)

\* The type invariant of what is the composition's own.
TypeOK ==
    /\ subject \in Judged
    /\ Len(events) <= MaxEvents /\ ToSet(events) \subseteq Appended

\* The view of a cycle that the code folds from the events is the one the set
\* of its facts has: no pass depends on where a rebaseline or a renewal stands
\* among the attempts, the facts of another cycle count for nothing, and a
\* fact that belongs to no policy, or a count that leaves u32, refuses it all.
ProjectionAgrees ==
    TypeOK /\ \A cycle \in Cycles, policy \in Policies :
        Project(events, cycle, policy) = ProjectedFacts(events, cycle, policy)

-----------------------------------------------------------------------------

Init ==
    /\ subject \in Judged
    /\ ScopesInit
    /\ EvidenceInit
    /\ ReuseInit
    /\ LessonsInit
    /\ events = <<>>
    \* Only the part that is followed chooses how it begins.
    /\ subject # "review" => risk = "low"
    /\ subject # "reuse" => runs = <<>>
    /\ subject # "lessons" => authorization = NoPolicy

Next ==
    /\ UNCHANGED subject
    /\ \/ /\ subject = "scopes"
          /\ ScopesNext
          /\ UNCHANGED <<evidenceVars, runs, lessonVars, events>>
       \/ /\ subject = "review"
          /\ EvidenceNext
          /\ UNCHANGED <<scopeVars, runs, lessonVars, events>>
       \/ /\ subject = "reuse"
          /\ ReuseNext
          /\ UNCHANGED <<scopeVars, evidenceVars, lessonVars, events>>
       \/ /\ subject = "lessons"
          /\ LessonsNext
          /\ UNCHANGED <<scopeVars, evidenceVars, runs, events>>
       \/ /\ subject = "ledger"
          /\ \E fact \in Appended : AppendFact(fact)
          /\ UNCHANGED <<scopeVars, evidenceVars, runs, lessonVars>>

Spec == Init /\ [][Next]_vars
=============================================================================
