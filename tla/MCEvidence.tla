----------------------------- MODULE MCEvidence -----------------------------
(***************************************************************************)
(* Small inputs for every part: patterns over two characters, identities   *)
(* that share an actor, a principal or a session, states that differ in    *)
(* one member, lessons of every enforcement, and facts of every kind, an   *)
(* attempt and a rebaseline that are ill-bound among them.                 *)
(***************************************************************************)
EXTENDS Evidence

CONSTANTS h1, h2, k1, k2, pA, pB, c1, y1, y2

-----------------------------------------------------------------------------
(* Write scopes. *)

a == <<"a">>
b == <<"b">>
ab == <<"a", "b">>
ba == <<"b", "a">>
AnyDepth == DoubleStar
Manifest == <<"manifest">>
GitmodulesName == <<".gitmodules">>
Harness == <<".harness">>

MCCharacters == {"a", "b", "manifest", ".gitmodules", ".harness", Star}

Claim(include, exclude, artifacts) ==
    [include |-> include, exclude |-> exclude, artifacts |-> artifacts]

Artifact(path, class, declares) == [path |-> path, class |-> class, declares |-> declares]

MCClaims ==
    {Claim({<<a, <<"a", Star>>>>}, {}, <<>>),
     Claim({<<a, <<Star, "b">>>>}, {<<a, b>>}, <<>>),
     Claim({<<a, AnyDepth>>}, {<<a, <<"a", Star>>>>}, <<>>),
     Claim({<<AnyDepth>>}, {<<a, AnyDepth>>}, <<>>),
     Claim({<<b>>, <<Manifest>>}, {},
           <<Artifact(<<b>>, "per_card", {"generator", "sources"})>>),
     Claim({<<AnyDepth>>}, {}, <<Artifact(<<b>>, "shared", {"generator"})>>),
     Claim({<<b>>}, {}, <<Artifact(<<b>>, "per_card", {"generator"})>>)}

Modified(path) == [path |-> path, previous |-> NoPath, old |-> "file", new |-> "file"]

MCChanges ==
    {Modified(path) : path \in {<<a, ab>>, <<a, b>>, <<a, ba>>, <<b>>, <<Manifest>>,
                                <<GitmodulesName>>, <<Harness, a>>}}
    \cup {[path |-> <<a, ab>>, previous |-> <<b>>, old |-> "file", new |-> "file"],
          [path |-> <<b>>, previous |-> NoPath, old |-> "file", new |-> "symlink"],
          [path |-> <<b>>, previous |-> NoPath, old |-> "gitlink", new |-> "gitlink"]}

MCProtected == {Harness}
MCManifests == {Manifest}

-----------------------------------------------------------------------------
(* Reviews. *)

MCImplementer == [actor |-> "author", principal |-> Undeclared, session |-> "s0"]

Identity(principal, session) == [principal |-> principal, session |-> session]

Agent(actor, provenance, decision, receiptIds, exemption) ==
    [actor |-> actor, kind |-> "agent", provenance |-> provenance, attestation |-> Undeclared,
     conduct |-> "separate_process", decision |-> decision, humanReviewer |-> FALSE,
     receiptIds |-> receiptIds, exemption |-> exemption]

Human(actor, provenance, attestation, receiptIds) ==
    [Agent(actor, provenance, "approved", receiptIds, Undeclared) EXCEPT
        !.kind = "human", !.attestation = attestation, !.humanReviewer = TRUE]

Attested(actor, principal, session) ==
    [actor |-> actor, principal |-> principal, session |-> session, independent |-> TRUE]

Exempted == [code |-> "docs", approver |-> "lead"]

MCVerdicts ==
    {Agent("r1", Identity("p1", "s1"), "approved", {"m1"}, Undeclared),
     Agent("r1", Identity("p1", "s1"), "changes_requested", {}, Undeclared),
     Agent("r1", Undeclared, "approved", {"m1"}, Undeclared),
     Agent("r2", Identity("author", "s1"), "approved", {"m1"}, Undeclared),
     Agent("r2", Identity("p1", "s0"), "approved", {"m1"}, Undeclared),
     Agent("author", Identity("p1", "s1"), "approved", {"m1"}, Undeclared),
     Agent("r1", Identity("p1", "s1"), "approved", {}, Exempted),
     Agent("r2", Identity("lead", "s2"), "approved", {}, Exempted),
     [Agent("r1", Identity("p1", "s1"), "approved", {"m1"}, Undeclared)
        EXCEPT !.conduct = "same_process"],
     Human("r1", Identity("p1", "s1"), Attested("third", "p3", "s3"), {"m1"}),
     Human("r1", Identity("p1", "s1"), Attested("third", "p1", "s3"), {"m1"}),
     Human("r1", Identity("p1", "s1"), Attested("author", "p3", "s3"), {"m1"})}

Witness(rev, cand, run) ==
    [valid |-> TRUE, revision |-> rev, candidate |-> cand, actor |-> "r1",
     principal |-> "p1", session |-> "s1", run |-> run]

MCReceipts ==
    {Witness(1, k1, 1), Witness(1, k1, 2), Witness(2, k1, 1),
     [Witness(1, k1, 1) EXCEPT !.valid = FALSE]}

Rule(principal) ==
    [code |-> "docs", approver |-> "lead", principal |-> principal, session |-> "s9"]

MCExemptionPolicies == {{}, {Rule("lead")}, {Rule("p1")}}

-----------------------------------------------------------------------------
(* Receipts. *)

Here == [candidate |-> 1, base |-> 1, card |-> 1, lease |-> 1, gate |-> 1, policy |-> 1,
         proof |-> 1, environment |-> 1]

MCContexts ==
    {Here, [Here EXCEPT !.candidate = 2], [Here EXCEPT !.card = 2, !.proof = 2]}

-----------------------------------------------------------------------------
(* Lessons. *)

Selectors(paths, contracts, kinds, minimum) ==
    [paths |-> paths, contracts |-> contracts, kinds |-> kinds, minimum |-> minimum]

MCLessons ==
    {[selectors |-> Selectors({<<a, AnyDepth>>}, {}, {}, {}), enforcement |-> "required",
      checks |-> {"q1"}, feature |-> {"f1"}, integration |-> {"g1"}],
     [selectors |-> Selectors({}, {"api"}, {"fix"}, {"medium"}), enforcement |-> "preferred",
      checks |-> {"q2"}, feature |-> {}, integration |-> {"g2"}],
     [selectors |-> Selectors({}, {}, {}, {"low"}), enforcement |-> "required",
      checks |-> {}, feature |-> {}, integration |-> {}]}

Shape(path, gates) ==
    [scope |-> Claim({path}, {}, <<>>), contracts |-> {"api"}, kind |-> "fix",
     risk |-> "medium", gates |-> gates]

MCShapes == {Shape(<<a, <<Star, "b">>>>, {"f1"}), Shape(<<b>>, {})}

-----------------------------------------------------------------------------
(* The ledger. *)

MCCardLimit ==
    [p \in Policies |-> [r \in Risks |-> [d \in Dimensions |-> 1]]]
MCCycleLimit == [p \in Policies |-> 1]

MCAppended ==
    {AttemptFact(y1, c1, "review_return", "regression", pA),
     AttemptFact(y1, c1, "review_return", "regression", pB),
     AttemptFact(y1, c1, "gate_failure", "scope_change", pA),
     AttemptFact(y1, None, "integration_failure", "integration_conflict", pA),
     AttemptFact(y2, c1, "repair_attempt", "regression", pA),
     DispositionFact(y1, c1, "renew", "review_return", pA, None),
     DispositionFact(y1, c1, "split", "review_return", pB, None),
     DispositionFact(y1, c1, "abandon", None, pA, None),
     DispositionFact(y1, None, "rebaseline", None, pB, pA),
     DispositionFact(y1, c1, "rebaseline", None, pB, pA)}

Symmetric == {[h \in Holders |-> IF h = h1 THEN h2 ELSE h1], [h \in Holders |-> h]}
=============================================================================
