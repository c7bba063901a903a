------------------------------ MODULE Lessons ------------------------------
(***************************************************************************)
(* Governed lessons: a registry whose entries are proposed, activated and  *)
(* retired while cards are under way, and the manifest every card revision *)
(* freezes of it, which the handoff, the review and the verification of    *)
(* its integration must then answer for (the lesson command, domain/       *)
(* lesson.rs, policy/lessons.rs, and their callers in the handoff, review  *)
(* and integration commands). One card; a digest is the value it digests.  *)
(***************************************************************************)
EXTENDS PathPatterns

CONSTANTS
    Lessons,            \* what is proposed: [selectors, enforcement, checks,
                        \*   feature, integration]; the order of ids is not kept,
                        \*   the minimum risk is a set of at most one
    Shapes,             \* what a card revision says: [scope, contracts, kind, risk, gates]
    Actors,
    Authorizations,     \* values of config.final_authorization_policy
    NoPolicy,           \* ... which may be absent
    Unfrozen,           \* no handoff, no review, no verification
    MaxCardRevision     \* bound: revisions of the card

ASSUME LessonsAssumption == MaxCardRevision \in Nat

VARIABLES
    history,        \* lesson -> the statuses of its revisions
    authorization,  \* config.final_authorization_policy
    shape,          \* revision of the card -> what it says
    frozen,         \* revision -> [lessons, asOf]: its CardLessonBindingRecord and
                    \*   how long each lesson's history was when it was written
    packet,         \* the latest handoff: [revision, manifest, passed]
    verdict,        \* its latest review: [decision, manifest, checks]
    evidence        \* what the integration carries: [revision, manifest, checks, gates, used]

lessonVars == <<history, authorization, shape, frozen, packet, verdict, evidence>>

Statuses == {"proposed", "active", "retired"}
RiskRank == [low |-> 0, medium |-> 1, high |-> 2, critical |-> 3]

-----------------------------------------------------------------------------
(***************************************************************************)
(* The registry.                                                           *)
(***************************************************************************)

IsRegistered(lesson) == history[lesson] # <<>>

\* A lesson says to what it applies, and a required one what it requires.
ValidLesson(lesson) ==
    /\ LET selectors == lesson.selectors
       IN  selectors.paths \cup selectors.contracts \cup selectors.kinds \cup selectors.minimum # {}
    /\ lesson.enforcement = "required" =>
          lesson.checks \cup lesson.feature \cup lesson.integration # {}

RequireLessonAuthorizer(actor) == authorization # NoPolicy /\ actor \in authorization

RequireLessonTransition(lesson, next) ==
    <<Last(history[lesson]), next>> \in {<<"proposed", "active">>, <<"active", "retired">>}

\* Every dimension a lesson declares must match, any alternative within one.
MatchesCard(card, lesson) ==
    LET selectors == lesson.selectors IN
    /\ \/ selectors.paths = {}
       \/ Overlaps(card.scope, [include |-> selectors.paths, exclude |-> {}])
    /\ selectors.contracts = {} \/ selectors.contracts \cap card.contracts # {}
    /\ selectors.kinds = {} \/ card.kind \in selectors.kinds
    /\ \A least \in selectors.minimum : RiskRank[card.risk] >= RiskRank[least]

\* The applicable lessons, each with the revision of it that applies.
BuildManifest(card) ==
    {<<lesson, Len(history[lesson])>> :
        lesson \in {lesson \in Lessons :
            /\ IsRegistered(lesson)
            /\ Last(history[lesson]) = "active"
            /\ MatchesCard(card, lesson)}}

Revision == Len(shape)

-----------------------------------------------------------------------------
(***************************************************************************)
(* What a manifest demands.                                                *)
(***************************************************************************)

Required(manifest) == {entry[1] : entry \in {e \in manifest : e[1].enforcement = "required"}}

\* Every lesson revision the manifest names is in the registry.
ValidateManifestRegistry(manifest) ==
    \A entry \in manifest : entry[2] \in DOMAIN history[entry[1]]

\* A bug: the manifest is built again from the lessons active now.
ManifestOfToday == BuildManifest(shape[Revision])

FrozenCardManifest == frozen[Revision].lessons

ValidateFrozenCardManifest(manifest) ==
    /\ ValidateManifestRegistry(FrozenCardManifest)
    /\ manifest = FrozenCardManifest

\* Required feature gates are named by the card and passed. That every gate a
\* lesson names is registered (load_gate) is taken for granted: gates stay registered.
RequireLessonEvidence(manifest, passed) ==
    \A lesson \in Required(manifest) :
        /\ lesson.feature \subseteq shape[Revision].gates
        /\ lesson.feature \subseteq passed

\* checks: <<lesson, check>> -> status. Whatever the decision, an unmet check
\* of a required lesson is refused.
RequireReviewDispositions(manifest, checks, actor) ==
    \A entry \in manifest : LET lesson == entry[1] IN
        lesson.enforcement # "informational" =>
            \A check \in lesson.checks :
                /\ <<lesson, check>> \in DOMAIN checks
                /\ ~(lesson.enforcement = "required"
                     /\ checks[<<lesson, check>>] = "not_satisfied")
                /\ checks[<<lesson, check>>] = "not_applicable" =>
                      authorization # NoPolicy /\ actor \in authorization

RequireLessonChecks(manifest, checks, actor) ==
    /\ \A answered \in DOMAIN checks :
          /\ answered[1] \in {entry[1] : entry \in manifest}
          /\ answered[2] \in answered[1].checks
    /\ RequireReviewDispositions(manifest, checks, actor)

\* The gates lessons add to the integration's own.
RequiredGates(manifest) == UNION {lesson.integration : lesson \in Required(manifest)}

-----------------------------------------------------------------------------
(***************************************************************************)
(* Commands.                                                               *)
(***************************************************************************)

LessonsInit ==
    /\ history = [lesson \in Lessons |-> <<>>]
    /\ authorization \in Authorizations
    /\ shape = <<>>
    /\ frozen = <<>>
    /\ packet = Unfrozen
    /\ verdict = Unfrozen
    /\ evidence = Unfrozen

Propose(lesson) ==
    /\ ~IsRegistered(lesson)
    /\ ValidLesson(lesson)
    /\ history' = [history EXCEPT ![lesson] = <<"proposed">>]
    /\ UNCHANGED <<authorization, shape, frozen, packet, verdict, evidence>>

\* `lesson activate` and `lesson retire`: a new revision of the same lesson.
SetState(lesson, next, actor) ==
    /\ IsRegistered(lesson)
    /\ RequireLessonAuthorizer(actor)
    /\ RequireLessonTransition(lesson, next)
    /\ history' = [history EXCEPT ![lesson] = Append(@, next)]
    /\ UNCHANGED <<authorization, shape, frozen, packet, verdict, evidence>>

\* `card activate` and `card revise`: write_revision, freeze_card_manifest.
WriteRevision(card) ==
    /\ Revision < MaxCardRevision
    /\ shape' = Append(shape, card)
    /\ frozen' = Append(frozen,
          [lessons |-> BuildManifest(card), asOf |-> [l \in Lessons |-> Len(history[l])]])
    /\ UNCHANGED <<history, authorization, packet, verdict, evidence>>

\* The implementer returns the digest of the packet it worked from, or none
\* when no lesson applied.
HandOffPacket(returned, passed) ==
    LET manifest == FrozenCardManifest IN
    /\ Revision > 0
    /\ ValidateManifestRegistry(manifest)
    /\ returned = manifest
    /\ RequireLessonEvidence(manifest, passed)
    /\ packet' = [revision |-> Revision, manifest |-> manifest, passed |-> passed]
    /\ verdict' = Unfrozen
    /\ UNCHANGED <<history, authorization, shape, frozen, evidence>>

RecordLessonVerdict(decision, checks, actor) ==
    /\ packet # Unfrozen /\ packet.revision = Revision
    /\ verdict = Unfrozen
    /\ ValidateFrozenCardManifest(packet.manifest)
    /\ RequireLessonChecks(packet.manifest, checks, actor)
    /\ verdict' = [decision |-> decision, manifest |-> packet.manifest, checks |-> checks]
    /\ UNCHANGED <<history, authorization, shape, frozen, packet, evidence>>

\* `integration verify` pins what the approved review answered for.
VerifyLessons ==
    /\ evidence = Unfrozen
    /\ verdict # Unfrozen /\ verdict.decision = "approved"
    /\ packet.revision = Revision
    /\ verdict.manifest = packet.manifest
    /\ ValidateFrozenCardManifest(packet.manifest)
    /\ evidence' = [revision |-> Revision, manifest |-> packet.manifest, used |-> FALSE,
                    checks |-> verdict.checks, gates |-> RequiredGates(packet.manifest)]
    /\ UNCHANGED <<history, authorization, shape, frozen, packet, verdict>>

\* validate_lesson_verification, at review, acceptance and promotion: the
\* packets the members pinned still say what the verification carries.
ValidateLessonVerification ==
    /\ evidence # Unfrozen /\ ~evidence.used
    /\ ValidateFrozenCardManifest(evidence.manifest)
    /\ evidence' = [evidence EXCEPT !.used = TRUE]
    /\ UNCHANGED <<history, authorization, shape, frozen, packet, verdict>>

CheckStatuses == {"satisfied", "not_applicable", "not_satisfied"}

Questions == UNION {{lesson} \X lesson.checks : lesson \in Lessons}

LessonsNext ==
    \/ \E lesson \in Lessons : Propose(lesson)
    \/ \E lesson \in Lessons, next \in {"active", "retired"}, actor \in Actors :
          SetState(lesson, next, actor)
    \/ \E card \in Shapes : WriteRevision(card)
    \/ \E passed \in SUBSET UNION {lesson.feature : lesson \in Lessons} :
          \E n \in DOMAIN frozen : HandOffPacket(frozen[n].lessons, passed)
    \/ \E decision \in {"approved", "changes_requested"}, actor \in Actors :
          \E answered \in SUBSET Questions : \E checks \in [answered -> CheckStatuses] :
              RecordLessonVerdict(decision, checks, actor)
    \/ VerifyLessons
    \/ ValidateLessonVerification

-----------------------------------------------------------------------------

LessonsTypeOK ==
    /\ \A lesson \in Lessons :
          Len(history[lesson]) <= 3 /\ ToSet(history[lesson]) \subseteq Statuses
    /\ authorization \in Authorizations
    /\ Len(shape) <= MaxCardRevision /\ Len(frozen) = Len(shape)
    /\ \A n \in DOMAIN frozen : ValidateManifestRegistry(frozen[n].lessons)

\* What an integration was accepted on answers for every lesson that was active
\* and applied when the card's revision was written, also one that was retired
\* since: each of its checks has an answer, none that a required lesson makes
\* unmet, and the gates a required lesson adds are among those that ran.
LessonsAnswered ==
    LessonsTypeOK /\ (evidence # Unfrozen /\ evidence.used =>
        LET written == frozen[evidence.revision] IN
        \A lesson \in Lessons :
            /\ written.asOf[lesson] > 0
            /\ history[lesson][written.asOf[lesson]] = "active"
            /\ MatchesCard(shape[evidence.revision], lesson)
            => /\ lesson.enforcement # "informational" =>
                     \A check \in lesson.checks : <<lesson, check>> \in DOMAIN evidence.checks
               /\ lesson.enforcement = "required" =>
                     /\ lesson.integration \subseteq evidence.gates
                     /\ \A check \in lesson.checks :
                           evidence.checks[<<lesson, check>>] # "not_satisfied")

\* "The reviewer found the lesson unmet; this blocks approval"
\* (domain/lesson.rs, LessonCheckStatus): such a review can be recorded, as
\* one that returns the work. Not so: RequireReviewDispositions asks before the
\* decision is looked at.
UnmetLessonReturnable ==
    packet # Unfrozen /\ packet.revision = Revision =>
        \A lesson \in Required(packet.manifest), actor \in Actors :
            lesson.checks # {} =>
                RequireLessonChecks(packet.manifest,
                    [question \in {q \in Questions : q[1] \in {e[1] : e \in packet.manifest}} |->
                        IF question[1] = lesson THEN "not_satisfied" ELSE "satisfied"],
                    actor)
============================================================================
