-------------------------- MODULE AtomicPromotion --------------------------
(***************************************************************************)
(* What the lifecycle of an accepted integration promises, whatever is     *)
(* interrupted: it is promoted in one step, from the baseline it was built *)
(* on, or it is abandoned, and never both.                                 *)
(***************************************************************************)
CONSTANTS
    Integration,
    Baseline      \* the commit every landing was built on

VARIABLES
    phase,        \* where each integration stands
    protected     \* the protected branch of the authority

vars == <<phase, protected>>

Init ==
    /\ phase \in [Integration -> {"reviewed", "accepted"}]
    /\ protected = Baseline

Accept(i) ==
    /\ phase[i] = "reviewed"
    /\ phase' = [phase EXCEPT ![i] = "accepted"]
    /\ UNCHANGED protected

Abandon(i) ==
    /\ phase[i] \in {"reviewed", "accepted"}
    /\ phase' = [phase EXCEPT ![i] = "abandoned"]
    /\ UNCHANGED protected

Promote(i) ==
    /\ phase[i] = "accepted"
    /\ protected = Baseline
    /\ phase' = [phase EXCEPT ![i] = "promoted"]
    /\ protected' = i

\* Somebody else moves the protected branch.
ForeignPush ==
    /\ protected' \notin Integration \cup {Baseline}
    /\ UNCHANGED phase

Next == ForeignPush \/ \E i \in Integration : Accept(i) \/ Abandon(i) \/ Promote(i)

Spec == Init /\ [][Next]_vars
============================================================================
