----------------------------- MODULE MCControl -----------------------------
(***************************************************************************)
(* The lock file of MCProjectLock, or the promotions of MCPromotion that   *)
(* rely on such a lock, and `project recover --resume` on both. They share *)
(* no state; one of them moves, `subject` says which, while the other      *)
(* stays as it began.                                                      *)
(***************************************************************************)
EXTENDS MCProjectLock, MCPromotion

VARIABLE subject

IsLock == subject = "lock file"
IsPromotions == subject = "promotions"

\* Of two integrations that of two cards is decided first, or none is.
Reviewed == {i \in Integration : tree.status[i] = "reviewed"}

ControlInit ==
    /\ LockInit
    /\ Init
    /\ subject \in {"lock file", "promotions"}
    /\ IsLock => tree = Initial({})
    /\ i1 \in Reviewed => Reviewed = Integration

\* b and c are alike, but for their numbers, which no state holds.
Alike == Processes \cup Permutations({b, c})

\* Of the two incarnations under one number, a1 is the earlier (which is which
\* makes no difference).
InOrder == stage[a2] # "unborn" => stage[a1] # "unborn"

ControlNext ==
    \/ IsLock /\ LockNext /\ InOrder' /\ UNCHANGED <<vars, subject>>
    \/ IsPromotions /\ Next /\ UNCHANGED <<lockVars, subject>>

ControlSpec == ControlInit /\ [][ControlNext]_<<vars, lockVars, subject>>

FairControlSpec ==
    /\ ControlSpec
    /\ IsLock => RecoveryFairness
    /\ IsPromotions => PromotionFairness
============================================================================
