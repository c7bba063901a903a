--------------------------- MODULE ExclusiveLock ---------------------------
(***************************************************************************)
(* What the project lock promises the commands of the harness: one process *)
(* at a time inside the section it protects, for as long as the lock names *)
(* it; and a lock that was left behind stays shut until it is cleared      *)
(* deliberately.                                                           *)
(***************************************************************************)
CONSTANTS Process, Free, Stale

VARIABLES
    lock,    \* the process the lock names, Free or Stale
    inside   \* the processes inside the protected section

vars == <<lock, inside>>

Init == lock = Free /\ inside = {}

Acquire(p) == lock = Free /\ lock' = p /\ inside' = {p}

Release(p) == lock = p /\ lock' = Free /\ inside' = {}

Abandon(p) == lock = p /\ lock' = Stale /\ inside' = {}

Clear == lock = Stale /\ lock' = Free /\ UNCHANGED inside

Next == Clear \/ \E p \in Process : Acquire(p) \/ Release(p) \/ Abandon(p)

Spec == Init /\ [][Next]_vars
============================================================================
