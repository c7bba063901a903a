SPECIFICATION Spec
CONSTANTS
    h1 = h1
    h2 = h2
    k1 = k1
    k2 = k2
    pA = pA
    pB = pB
    c1 = c1
    y1 = y1
    y2 = y2
    Characters <- MCCharacters
    Holders = {h1, h2}
    Claims <- MCClaims
    Changes <- MCChanges
    ProtectedNames <- MCProtected
    Manifests <- MCManifests
    Gitmodules <- GitmodulesName
    NoPath = NoPath
    NoClaim = NoClaim
    Undeclared = Undeclared
    Implementer <- MCImplementer
    Candidates = {k1, k2}
    FirstCandidate = k1
    ReceiptIds = {"m1"}
    Receipts <- MCReceipts
    ExemptionPolicies <- MCExemptionPolicies
    Verdicts <- MCVerdicts
    ReviewPolicy = "independent"
    MaxRevision = 2
    MaxReviews = 2
    Contexts <- MCContexts
    Captures = {"every", "some"}
    MaxAttempts = 2
    MaxRuns = 3
    Lessons <- MCLessons
    Shapes <- MCShapes
    Actors = {"r1", "lead"}
    Authorizations = {NoPolicy, {"lead"}}
    NoPolicy = NoPolicy
    Unfrozen = Unfrozen
    MaxCardRevision = 2
    Cards = {c1}
    Cycles = {y1, y2}
    Policies = {pA, pB}
    Risks = {"high"}
    None = None
    MaxU32 = 2
    CardLimit <- MCCardLimit
    CycleLimit <- MCCycleLimit
    Appended <- MCAppended
    MaxEvents = 4
SYMMETRY Symmetric
INVARIANTS
    ScopesHold
    ReliedEvidenceStands
    IndependentlyJudged
    ReuseIsExact
    LessonsAnswered
    ProjectionAgrees
CHECK_DEADLOCK FALSE
