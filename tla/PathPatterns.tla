---------------------------- MODULE PathPatterns ----------------------------
(***************************************************************************)
(* Which paths a write scope covers and which scopes contend: the pattern  *)
(* language of policy/paths.rs. A path is a sequence of names, a name a    *)
(* sequence of characters, a pattern a sequence of segments in which `*`   *)
(* is a character. Spellings are canonical: `.`, empty segments and, on a  *)
(* host that ignores it, case are gone.                                    *)
(***************************************************************************)
EXTENDS Naturals, Sequences, FiniteSets, SequencesExt

CONSTANT Characters     \* what names are made of

Star == "*"

DoubleStar == <<Star, Star>>

Paths == Seq(Seq(Characters))

HasStar(pattern) == \E n \in DOMAIN pattern : Star \in ToSet(pattern[n])

-----------------------------------------------------------------------------
(***************************************************************************)
(* One segment.                                                            *)
(***************************************************************************)

OccursAt(part, name, k) ==
    k + Len(part) <= Len(name) /\ SubSeq(name, k + 1, k + Len(part)) = part

\* A run of a pattern begins after one of these and ends before the next; a run
\* may be empty.
Bounds(pattern) == {0, Len(pattern) + 1} \cup {k \in DOMAIN pattern : pattern[k] = Star}

BoundBefore(pattern, bound) ==
    CHOOSE k \in Bounds(pattern) :
        k < bound /\ \A other \in Bounds(pattern) : other < bound => other <= k

RunBefore(pattern, bound) == SubSeq(pattern, BoundBefore(pattern, bound) + 1, bound - 1)

\* Where in the name the run that ends at each bound was found: the first run is
\* anchored, each further one is at its first occurrence after the one before.
\* The last must reach the end of the name: "aa" is not matched by `*a`.
SegmentMatches(pattern, name) ==
    LET Lost == Len(name) + 1
        cursor[bound \in Bounds(pattern)] ==
            IF bound = 0 THEN 0
            ELSE LET before == BoundBefore(pattern, bound)
                     run == RunBefore(pattern, bound)
                     found == {k \in cursor[before] .. Len(name) :
                                  OccursAt(run, name, k) /\ (before = 0 => k = 0)}
                 IN  IF run = <<>> THEN cursor[before]
                     ELSE IF found = {} THEN Lost
                     ELSE Len(run) + CHOOSE k \in found : \A other \in found : k <= other
        reached == cursor[Len(pattern) + 1]
    IN  \/ pattern = <<Star>>
        \/ Star \notin ToSet(pattern) /\ pattern = name
        \/ /\ Star \in ToSet(pattern)
           /\ reached # Lost
           /\ Last(pattern) = Star \/ reached = Len(name)

\* The same with one side taken for a literal, as it used to be.
IntersectOneWay(left, right) == SegmentMatches(left, right) \/ SegmentMatches(right, left)

\* The walk over both segments and the name they would share.
SegmentsIntersect(left, right) ==
    LET meet[at \in (1 .. Len(left) + 1) \X (1 .. Len(right) + 1)] ==
            LET i == at[1]
                j == at[2]
                leftEnds == i > Len(left)
                rightEnds == j > Len(right)
            IN  \/ leftEnds /\ rightEnds
                \/ ~leftEnds /\ left[i] = Star /\ meet[<<i + 1, j>>]
                \/ ~rightEnds /\ right[j] = Star /\ meet[<<i, j + 1>>]
                \/ ~leftEnds /\ ~rightEnds /\ left[i] = Star /\ meet[<<i, j + 1>>]
                \/ ~leftEnds /\ ~rightEnds /\ right[j] = Star /\ meet[<<i + 1, j>>]
                \/ /\ ~leftEnds /\ ~rightEnds
                   /\ Star \notin {left[i], right[j]}
                   /\ left[i] = right[j]
                   /\ meet[<<i + 1, j + 1>>]
    IN  meet[<<1, 1>>]

-----------------------------------------------------------------------------
(***************************************************************************)
(* Paths and patterns.                                                     *)
(***************************************************************************)

\* The segment matcher shared by matching a path and meeting a pattern.
MatchSegments(pattern, other, isPattern) ==
    LET match[at \in (1 .. Len(pattern) + 1) \X (1 .. Len(other) + 1)] ==
            LET i == at[1]
                j == at[2]
                ends == i > Len(pattern)
                otherEnds == j > Len(other)
                wide == ~ends /\ pattern[i] = DoubleStar
                otherWide == isPattern /\ ~otherEnds /\ other[j] = DoubleStar
            IN  \/ ends /\ otherEnds
                \/ wide /\ (match[<<i + 1, j>>] \/ (~otherEnds /\ match[<<i, j + 1>>]))
                \/ ~wide /\ otherWide /\ (match[<<i, j + 1>>] \/ (~ends /\ match[<<i + 1, j>>]))
                \/ /\ ~ends /\ ~otherEnds /\ ~wide /\ ~otherWide
                   /\ IF isPattern THEN SegmentsIntersect(pattern[i], other[j])
                                   ELSE SegmentMatches(pattern[i], other[j])
                   /\ match[<<i + 1, j + 1>>]
    IN  match[<<1, 1>>]

Matches(pattern, path) == MatchSegments(pattern, path, FALSE)

PatternsIntersect(left, right) == MatchSegments(left, right, TRUE)

ProvablyContainsPattern(container, candidate) ==
    IF ~HasStar(candidate) THEN Matches(container, candidate)
    ELSE LET prefix == Front(container)
         IN  \/ container \in {<<DoubleStar>>, candidate}
             \/ /\ Len(container) > 1
                /\ Last(container) = DoubleStar
                /\ ~HasStar(prefix)
                /\ Len(candidate) > Len(prefix)
                /\ IsPrefix(prefix, candidate)

-----------------------------------------------------------------------------
(***************************************************************************)
(* Scopes.                                                                 *)
(***************************************************************************)

Allows(scope, path) ==
    /\ \A pattern \in scope.exclude : ~Matches(pattern, path)
    /\ \E pattern \in scope.include : Matches(pattern, path)

EffectiveIncludes(scope) ==
    {pattern \in scope.include :
        \A excluded \in scope.exclude : ~ProvablyContainsPattern(excluded, pattern)}

Overlaps(left, right) ==
    \E p \in EffectiveIncludes(left) : \E q \in EffectiveIncludes(right) :
        /\ PatternsIntersect(p, q)
        /\ \A excluded \in left.exclude : ~ProvablyContainsPattern(excluded, q)
        /\ \A excluded \in right.exclude : ~ProvablyContainsPattern(excluded, p)

-----------------------------------------------------------------------------
(***************************************************************************)
(* What the language means: "`*` matches any run of characters within one  *)
(* segment, never `/`; `**` matches zero or more whole segments; everything *)
(* else is literal" (policy/paths.rs:9).                                   *)
(***************************************************************************)

\* A pattern is laid over a name: where each of its characters ends there.
MeansSegment(pattern, name) ==
    \E end \in [0 .. Len(pattern) -> 0 .. Len(name)] :
        /\ end[0] = 0 /\ end[Len(pattern)] = Len(name)
        /\ \A i \in DOMAIN pattern :
              IF pattern[i] = Star THEN end[i - 1] <= end[i]
              ELSE end[i] = end[i - 1] + 1 /\ name[end[i]] = pattern[i]

Means(pattern, path) ==
    \E end \in [0 .. Len(pattern) -> 0 .. Len(path)] :
        /\ end[0] = 0 /\ end[Len(pattern)] = Len(path)
        /\ \A i \in DOMAIN pattern :
              IF pattern[i] = DoubleStar THEN end[i - 1] <= end[i]
              ELSE end[i] = end[i - 1] + 1 /\ MeansSegment(pattern[i], path[end[i]])
============================================================================
