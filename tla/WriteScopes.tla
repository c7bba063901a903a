---------------------------- MODULE WriteScopes ----------------------------
(***************************************************************************)
(* Who may write where: the allocator admits a card whose write scope      *)
(* meets no active card's (policy/allocation.rs), and a handoff is refused *)
(* unless the candidate's diff stays inside the card's own scope           *)
(* (policy/verification.rs over git/diff.rs and domain/artifact.rs).       *)
(***************************************************************************)
EXTENDS PathPatterns

CONSTANTS
    Holders,        \* cards
    Claims,         \* what a card may declare: [include, exclude, artifacts]
    Changes,        \* entries a diff may hold
    ProtectedNames, \* first segment of a path that belongs to the harness
    Manifests,      \* names that change what the build resolves
    Gitmodules,     \* the name `.gitmodules`
    NoPath,         \* no previous path
    NoClaim

VARIABLES
    claims,     \* the active claim of each card, or NoClaim
    written     \* every path the card's handed-off candidate touches

scopeVars == <<claims, written>>

-----------------------------------------------------------------------------
(***************************************************************************)
(* Declared artifacts.                                                     *)
(***************************************************************************)

ArtifactClasses == {"transient", "per_card", "shared", "serialized"}

CardMayCommit(class) == class \in {"per_card", "serialized"}

\* What an artifact of each class has to declare.
ValidArtifact(artifact) ==
    /\ artifact.class = "transient" => "generator" \notin artifact.declares
    /\ artifact.class \in {"per_card", "shared"} => "generator" \in artifact.declares
    /\ artifact.class = "per_card" => "sources" \in artifact.declares
    /\ artifact.class = "serialized" => "identifier" \in artifact.declares

RequireOneClassEach(artifacts) ==
    \A n \in DOMAIN artifacts :
        /\ ValidArtifact(artifacts[n])
        /\ \A earlier \in 1 .. n - 1 : artifacts[earlier].path # artifacts[n].path

\* The first declaration that matches decides.
MatchingArtifact(artifacts, path) ==
    {n \in DOMAIN artifacts :
        /\ Matches(artifacts[n].path, path)
        /\ \A earlier \in 1 .. n - 1 : ~Matches(artifacts[earlier].path, path)}

-----------------------------------------------------------------------------
(***************************************************************************)
(* One candidate's diff.                                                   *)
(***************************************************************************)

\* Both sides of a rename, and the source of a copy.
TouchedPaths(change) == {change.path, change.previous} \ {NoPath}

ASSUME ScopesAssumption ==
    /\ \A claim \in Claims : claim.include \cup claim.exclude \subseteq Paths
    /\ \A change \in Changes : TouchedPaths(change) \subseteq Paths

InvolvesSymlink(change) == "symlink" \in {change.old, change.new}
InvolvesSubmodule(change) == "gitlink" \in {change.old, change.new}

TouchesGitmodules(changes) ==
    \E change \in changes : \E path \in TouchedPaths(change) : Last(path) = Gitmodules

IsDependencyManifest(path) == Last(path) \in Manifests

\* check_path: a protected path is reported as that and nothing else.
BlockingAt(path, claim) ==
    IF Len(path) > 1 /\ Head(path) \in ProtectedNames THEN {"protected-path"}
    ELSE {kind \in {"out-of-scope"} : ~Allows(claim, path)}
         \cup {kind \in {"undeclared-dependency-manifest"} :
                  IsDependencyManifest(path) /\ path \notin claim.include}
         \cup {kind \in {"generated-artifact-not-owned"} :
                  \E n \in MatchingArtifact(claim.artifacts, path) :
                      ~CardMayCommit(claim.artifacts[n].class)}

BlockingEntry(change) ==
    {kind \in {"symlink-change"} : InvolvesSymlink(change)}
    \cup {kind \in {"submodule-change"} : InvolvesSubmodule(change)}

CheckChange(change, claim) ==
    BlockingEntry(change)
    \cup UNION {BlockingAt(path, claim) : path \in TouchedPaths(change)}

\* The blocking findings; the advisory ones decide nothing.
Verify(claim, facts) ==
    {kind \in {"base-ancestry-mismatch"} : ~facts.descends}
    \cup {kind \in {"dirty-worktree"} : ~facts.clean}
    \cup UNION {CheckChange(change, claim) : change \in facts.changes}
    \cup {kind \in {"gitmodules-change"} : TouchesGitmodules(facts.changes)}
    \cup {kind \in {"empty-commit-message"} : ~facts.described}

CandidateFacts ==
    [descends : BOOLEAN, clean : BOOLEAN, described : BOOLEAN,
     changes : {{change} : change \in Changes}]

-----------------------------------------------------------------------------

ScopesInit ==
    /\ claims = [card \in Holders |-> NoClaim]
    /\ written = [card \in Holders |-> {}]

Active == {card \in Holders : claims[card] # NoClaim}

\* `card activate` and the cycle plan's allocation. The cards here are those whose
\* claims active_cycle_claims collects: holders in an active cycle, as Allocation
\* has them (card.rs:849); a card whose cycle is not active holds no claim here.
CheckAdmissible(card, claim) ==
    \A other \in Active \ {card} : ~Overlaps(claim, claims[other])

Admit(card, claim) ==
    /\ claims[card] = NoClaim
    /\ RequireOneClassEach(claim.artifacts)
    /\ CheckAdmissible(card, claim)
    /\ claims' = [claims EXCEPT ![card] = claim]
    /\ UNCHANGED written

\* `handoff create` refuses a report with a blocking finding.
HandOffCandidate(card, facts) ==
    /\ claims[card] # NoClaim
    /\ Verify(claims[card], facts) = {}
    /\ written' = [written EXCEPT ![card] =
                      UNION {TouchedPaths(change) : change \in facts.changes}]
    /\ UNCHANGED claims

\* The card landed, was closed or was abandoned: its claims are released.
ReleaseClaims(card) ==
    /\ claims[card] # NoClaim
    /\ claims' = [claims EXCEPT ![card] = NoClaim]
    /\ written' = [written EXCEPT ![card] = {}]

ScopesNext ==
    \E card \in Holders :
        \/ \E claim \in Claims : Admit(card, claim)
        \/ \E facts \in CandidateFacts : HandOffCandidate(card, facts)
        \/ ReleaseClaims(card)

-----------------------------------------------------------------------------

ScopesTypeOK ==
    /\ claims \in [Holders -> Claims \cup {NoClaim}]
    /\ \A card \in Holders :
          written[card] \subseteq UNION {TouchedPaths(change) : change \in Changes}

\* No two active cards hand off candidates that touch one file, moved or
\* removed files included: what the allocator finds disjoint and what the
\* verification lets through never meet.
DisjointWrites ==
    \A one, two \in Active : one # two => written[one] \cap written[two] = {}

\* Everything handed off lies where an include pattern says, read as the
\* grammar of policy/paths.rs reads it, and never in the harness's territory.
WrittenAsMeant ==
    \A card \in Active : \A path \in written[card] :
        /\ \E pattern \in claims[card].include : Means(pattern, path)
        /\ ~(Len(path) > 1 /\ Head(path) \in ProtectedNames)

\* A claim holds what it says: candidates stay inside what their authors meant,
\* and so apart.
ScopesHold == ScopesTypeOK /\ DisjointWrites /\ WrittenAsMeant
=============================================================================
