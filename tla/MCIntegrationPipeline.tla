----------------------- MODULE MCIntegrationPipeline -----------------------
(***************************************************************************)
(* Instances of IntegrationPipeline: a cycle of two cards, the second      *)
(* depending on the first, that may be grouped; and one of a card that     *)
(* conflicts with the first, alone or with a joint companion.              *)
(***************************************************************************)
EXTENDS IntegrationPipeline

MCCards == 1 .. 4
MCCycles == {"north", "south"}
MCCycleOf == [c \in MCCards |-> IF c <= 2 THEN "north" ELSE "south"]
MCDependsOn == [c \in MCCards |-> IF c = 1 THEN {2} ELSE {}]
MCJoint == {3, 4}
MCGroups == {{1, 2}}
MCConflicts == {{1, 3}}
MCActors == {"author", "operator", "owner"}
MCAuthor == [c \in MCCards |-> "author"]
MCAuthorizers == [p \in 1 .. 2 |-> IF p = 1 THEN {"owner", "author"} ELSE {"operator"}]

Staff == {"operator", "owner"}

Scene(cards, actors, moves, commits, count, policies, exceptions, foreign) ==
    [cards |-> cards, actors |-> actors, moves |-> moves, commits |-> commits,
     integrations |-> count, policies |-> policies, exceptions |-> exceptions,
     foreign |-> foreign]

\* Sealed, authorized, and decided upon by everybody.
Authorizing == Scene({2}, MCActors, {"seal", "fail", "abandon cycle"}, 0, 2, 2, 1, 0)

\* A sealed cycle that loses cards.
Shrinking == Scene({1, 2}, Staff, {"seal", "abandon card"}, 0, 2, 1, 0, 0)

\* Branches that move, cards that are delivered anew, groups.
Moving == Scene({1, 2}, Staff, {"resume", "group"}, 1, 2, 0, 0, 0)

\* A joint cycle beside another.
JointBeside == Scene({2, 3, 4}, Staff, {"abandon card"}, 0, 3, 0, 0, 0)

\* Conflicts, with a third attempt.
Conflicting == Scene({1, 2, 3}, Staff, {"rebaseline"}, 0, 3, 0, 0, 0)

\* Conflicts, foreign pushes.
Overtaken == Scene({1, 2, 3}, Staff, {"rebaseline"}, 0, 2, 0, 0, 1)

\* Smoke gates that leave the worktree dirty: a failure without a conflict.
Untidy == Scene({1, 2}, Staff, {"dirty", "rebaseline"}, 0, 2, 0, 0, 0)

MCScenarios ==
    {Authorizing, Shrinking, Moving, JointBeside, Conflicting, Overtaken, Untidy}
============================================================================
