--------------------------- MODULE MCProjectLock ---------------------------
(***************************************************************************)
(* Instances of ProjectLock: a1 and a2 run one after the other under the   *)
(* same recycled process number.                                           *)
(***************************************************************************)
EXTENDS ProjectLock, TLC

CONSTANTS a1, a2, b, c, n1, n2, n3

MCIncarnation == {a1, a2, b, c}
MCPidOf == a1 :> n1 @@ a2 :> n1 @@ b :> n2 @@ c :> n3
MCPid == {n1, n2, n3}

\* Three incarnations: b is the operator, who is never killed.
MCIncarnation3 == {a1, a2, b}
MCPidOf3 == a1 :> n1 @@ a2 :> n1 @@ b :> n2

\* In either, only the two under one number end.
Recycled == {a1, a2}
============================================================================
