--------------------------- MODULE ReviewPublication ---------------------------
(***************************************************************************)
(* The path from a Draft to an immutable CourseVersion.                     *)
(*                                                                         *)
(* Submission freezes the Draft in a Review; a decision approves the Review *)
(* or asks for changes; publication copies an approved Review into the      *)
(* Courses module, and then records that fact in the Authoring module.      *)
(* Those last two writes are separate transactions, and a request may die   *)
(* between them, be repeated, or race another one for the same Review or    *)
(* for the same semantic version.  Nothing but the frozen Review, the       *)
(* unique constraints of the two modules, and recovery by Review identity   *)
(* keeps them in agreement.                                                 *)
(*                                                                         *)
(* One Draft is enough: every Draft is created with a Course of its own, so *)
(* no two Drafts share the version numbers of a Course.                     *)
(***************************************************************************)
EXTENDS Naturals, FiniteSets

CONSTANTS
    Users,             \* members who hold the capability they exercise here
    Reviews,           \* identifiers of Review cycles
    Targets,           \* semantic versions a Draft may intend to publish
    Requests,          \* slots for decision and publication requests
    None,              \* absence of a user, a Review, a target or a version
    MaxRevision,       \* bound: the Draft is edited at most MaxRevision - 1 times
    MaxAssessment,     \* bound: how many question lists the Assessment may take
    IndependentReview, \* deployment setting: a submitter may not decide
    WidgetsMayChange   \* whether a pinned plugin release may be withdrawn

VARIABLES
    draft,           \* the mutable Draft: status, revision, intended version
    assessment,      \* the Draft's Assessment: 0 is an empty question list
    assetAvailable,  \* whether the Draft's Asset has finished its upload
    widgetAvailable, \* whether the plugin release its Lessons pin may run
    review,          \* authoring.review_cycle with its frozen snapshot
    versions,        \* courses.course_version with its publication provenance
    publication,     \* authoring.review_publication, by Review
    req              \* the requests in flight

content == <<draft, assessment, assetAvailable, widgetAvailable>>
stored  == <<review, versions, publication>>
vars    == <<draft, assessment, assetAvailable, widgetAvailable,
             review, versions, publication, req>>

-----------------------------------------------------------------------------
Decisions == {"APPROVED", "CHANGES_REQUESTED"}

ReviewCycle ==
    [status        : {"NONE", "IN_REVIEW"} \cup Decisions,
     revision      : 0..2,
     draftRevision : 0..MaxRevision,
     target        : Targets \cup {None},
     assessment    : 0..MaxAssessment,
     submitter     : Users \cup {None},
     decider       : Users \cup {None}]

\* A Review identifier that no submission has used.
Unused == [status |-> "NONE", revision |-> 0, draftRevision |-> 0, target |-> None,
           assessment |-> 0, submitter |-> None, decider |-> None]

CourseVersion ==
    [review         : Reviews,
     reviewRevision : 0..2,
     draftRevision  : 0..MaxRevision,
     target         : Targets,
     assessment     : 0..MaxAssessment,
     publisher      : Users]

ASSUME PublicationAssumption ==
    /\ None \notin Users \cup Reviews \cup CourseVersion
    /\ MaxRevision \in Nat \ {0}
    /\ MaxAssessment \in Nat
    /\ IndependentReview \in BOOLEAN
    /\ WidgetsMayChange \in BOOLEAN

\* PublicationConverter.Convert: the immutable aggregate for a Review cycle.
\* The publisher stands for the metadata of the publication itself.
Convert(r, cycle, u) ==
    [review |-> r, reviewRevision |-> cycle.revision,
     draftRevision |-> cycle.draftRevision, target |-> cycle.target,
     assessment |-> cycle.assessment, publisher |-> u]

\* Mutant of SamePublicationSource: compares the publisher as well.
SamePublication(v, candidate) == candidate = v

\* samePublicationSource: the metadata of the publication is the stored one's.
SamePublicationSource(v, candidate) == [candidate EXCEPT !.publisher = v.publisher] = v

PublishSteps == {"checkWidgets", "findStored", "resolve", "store", "reconcile", "record"}

\* The answers a publication request gives; the decision request's 200 and the
\* refusals that depend on nothing else are not kept.
Answers == {"published", "widgetUnavailable", "notPublishable", "versionExists",
            "provenanceMismatch", "publicationConflict"}

Steps == {"idle", "decide"} \cup PublishSteps \cup Answers

Request ==
    [step    : Steps,
     goal    : Decisions \cup {"PUBLISH"},
     actor   : Users \cup {None},
     review  : Reviews \cup {None},
     cycle   : ReviewCycle,
     version : CourseVersion \cup {None}]

Idle == [step |-> "idle", goal |-> "PUBLISH", actor |-> None,
         review |-> None, cycle |-> Unused, version |-> None]

\* CreateDraftForCreator.  Revisions are counted from the moment the content
\* refers to one Assessment, still empty, and to one Asset, still PENDING.
Init ==
    /\ draft \in [status : {"ACTIVE"}, revision : {1}, target : Targets]
    /\ assessment = 0
    /\ assetAvailable = FALSE
    /\ widgetAvailable = TRUE
    /\ review = [r \in Reviews |-> Unused]
    /\ versions = {}
    /\ publication = [r \in Reviews |-> None]
    /\ req = [p \in Requests |-> Idle]

-----------------------------------------------------------------------------
(* The Draft and what it refers to *)

\* Any committed Draft write: its revision advances, its intended version may
\* change.  DraftWorkspace has the requests behind it.
EditDraft ==
    /\ draft.status = "ACTIVE"
    /\ draft.revision < MaxRevision
    /\ \E t \in Targets :
          draft' = [draft EXCEPT !.revision = @ + 1, !.target = t]
    /\ UNCHANGED <<assessment, assetAvailable, widgetAvailable, stored, req>>

AbandonDraft ==
    /\ draft.status = "ACTIVE"
    /\ draft.revision < MaxRevision
    /\ draft' = [draft EXCEPT !.status = "ABANDONED", !.revision = @ + 1]
    /\ UNCHANGED <<assessment, assetAvailable, widgetAvailable, stored, req>>

\* An Assessment has a revision of its own: editing it leaves the Draft's, and asks for no
\* status of the Draft.
EditAssessment ==
    /\ \E a \in 0..MaxAssessment : assessment' = a
    /\ UNCHANGED <<draft, assetAvailable, widgetAvailable, stored, req>>

\* An Asset becomes AVAILABLE once and is never taken back.
FinishAssetUpload ==
    /\ assetAvailable' = TRUE
    /\ UNCHANGED <<draft, assessment, widgetAvailable, stored, req>>

\* An administrator disables, or enables again, the pinned plugin release.
ChangeWidgetAvailability ==
    /\ WidgetsMayChange
    /\ widgetAvailable' = ~widgetAvailable
    /\ UNCHANGED <<draft, assessment, assetAvailable, stored, req>>

-----------------------------------------------------------------------------
(* Review *)

\* SubmitReview, one repeatable-read transaction under the Draft lock.  The
\* unique constraints admit one cycle per Draft revision and one undecided
\* cycle per Draft.
SubmitReview(u, r) ==
    /\ draft.status = "ACTIVE"
    /\ review[r].status = "NONE"
    /\ \A s \in Reviews :
          /\ review[s].status # "IN_REVIEW"
          /\ review[s].draftRevision # draft.revision
    /\ review' = [review EXCEPT ![r] =
          [status |-> "IN_REVIEW", revision |-> 1, draftRevision |-> draft.revision,
           target |-> draft.target, assessment |-> assessment,
           submitter |-> u, decider |-> None]]
    /\ UNCHANGED <<content, versions, publication, req>>

CanDecide(cycle, expected) == cycle.status = "IN_REVIEW" /\ cycle.revision = expected

\* NewReviewDecisionPolicy(IndependentReview).Check
DecisionPolicy(u, cycle) == IndependentReview => u # cycle.submitter

Begin(p, step, goal, u, r) ==
    /\ req[p] = Idle
    /\ req' = [req EXCEPT ![p] =
          [step |-> step, goal |-> goal, actor |-> u, review |-> r,
           cycle |-> review[r], version |-> None]]
    /\ UNCHANGED <<content, stored>>

\* ReviewApplicationService.decide: load the Review, then check its state and
\* the policy.  Nothing is locked when it hands over to the repository.
BeginDecide(p, u, r, decision, expected) ==
    /\ CanDecide(review[r], expected)
    /\ DecisionPolicy(u, review[r])
    /\ Begin(p, "decide", decision, u, r)

\* A decision closes the cycle and names who made it.
Decided(cycle, decision, u) ==
    [cycle EXCEPT !.status = decision, !.revision = @ + 1, !.decider = u]

\* decideReview locks the cycle and checks its state again.
CommitDecision(p) ==
    LET q == req[p] IN
    /\ q.step = "decide"
    /\ CanDecide(review[q.review], q.cycle.revision)
    /\ review' = [review EXCEPT ![q.review] = Decided(@, q.goal, q.actor)]
    /\ req' = [req EXCEPT ![p] = Idle]
    /\ UNCHANGED <<content, versions, publication>>

-----------------------------------------------------------------------------
(* Publication *)

\* Mutant of BeginPublish: does not ask for an approval.
BeginPublishOfAny(p, u, r, expected) ==
    /\ review[r].status # "NONE"
    /\ review[r].revision = expected
    /\ Begin(p, "checkWidgets", "PUBLISH", u, r)

\* Publish loads the approved Review at the revision the client quotes.  It
\* does not ask whether the Draft is still ACTIVE.
BeginPublish(p, u, r, expected) ==
    /\ review[r].status = "APPROVED"
    /\ review[r].revision = expected
    /\ Begin(p, "checkWidgets", "PUBLISH", u, r)

GoTo(p, step) ==
    /\ req' = [req EXCEPT ![p].step = step]
    /\ UNCHANGED <<content, stored>>

\* Every pinned widget release of the snapshot must be available now.
CheckWidgets(p) ==
    /\ req[p].step = "checkWidgets"
    /\ GoTo(p, IF widgetAvailable THEN "findStored" ELSE "widgetUnavailable")

\* AssetPublicationResolver.Resolve consults the current state of the Assets.
AssetsResolve == assetAvailable

\* resolvePublicationAssessments reads the frozen snapshot only, where an empty
\* question list is not publishable.
AssessmentsResolve(cycle) == cycle.assessment > 0

\* The aggregate that Courses already holds for this Review, if any, must
\* come from the same source, which must have resolved; it then goes on to be
\* recorded.
UseStored(p, resolved, otherwise) ==
    LET q    == req[p]
        mine == {v \in versions : v.review = q.review}
    IN  \/ /\ mine = {}
           /\ GoTo(p, otherwise)
        \/ \E v \in mine :
              IF resolved /\ SamePublicationSource(v, Convert(q.review, q.cycle, q.actor))
              THEN /\ req' = [req EXCEPT ![p] = [@ EXCEPT !.step = "record", !.version = v]]
                   /\ UNCHANGED <<content, stored>>
              ELSE GoTo(p, "provenanceMismatch")

\* Mutant of FindStored: takes a stored version for a recorded publication.
FindStoredAndAnswer(p) ==
    /\ req[p].step = "findStored"
    /\ GoTo(p, IF \E v \in versions : v.review = req[p].review THEN "published" ELSE "resolve")

\* Recovery: GetByReviewID comes before the current Assets are consulted.
FindStored(p) ==
    /\ req[p].step = "findStored"
    /\ UseStored(p, AssessmentsResolve(req[p].cycle), "resolve")

\* Only a new publication resolves the Assets.
ResolveReferences(p) ==
    /\ req[p].step = "resolve"
    /\ GoTo(p, IF AssetsResolve /\ AssessmentsResolve(req[p].cycle)
               THEN "store" ELSE "notPublishable")

\* Mutant of VersionTaken: the semantic version is not unique in its Course.
ReviewTaken(candidate) == \E v \in versions : v.review = candidate.review

\* The unique constraints of courses.course_version and its provenance.
VersionTaken(candidate) ==
    \E v \in versions : v.target = candidate.target \/ v.review = candidate.review

\* StoreImmutableCourseVersion: the whole aggregate in one transaction.
StoreVersion(p) ==
    LET candidate == Convert(req[p].review, req[p].cycle, req[p].actor) IN
    /\ req[p].step = "store"
    /\ \/ /\ VersionTaken(candidate)
          /\ GoTo(p, "reconcile")
       \/ /\ ~VersionTaken(candidate)
          /\ versions' = versions \cup {candidate}
          /\ req' = [req EXCEPT ![p] = [@ EXCEPT !.step = "record", !.version = candidate]]
          /\ UNCHANGED <<content, review, publication>>

\* Mutant of Reconcile: goes on with its own aggregate instead of the stored one.
ReconcileWithOwn(p) ==
    /\ req[p].step = "reconcile"
    /\ req' = [req EXCEPT ![p] = [@ EXCEPT !.step = "record",
                                           !.version = Convert(req[p].review, req[p].cycle, req[p].actor)]]
    /\ UNCHANGED <<content, stored>>

\* reconcileExisting: the constraint was hit by this Review or by another.
Reconcile(p) ==
    /\ req[p].step = "reconcile"
    /\ UseStored(p, TRUE, "versionExists")

\* The unique constraints of authoring.review_publication over the version.
RecordTaken(r, v) == \E s \in Reviews \ {r} : publication[s] # None /\ publication[s].target = v.target

\* RecordPublication: insert, or accept the identical fact already there.
RecordPublication(p) ==
    LET r == req[p].review
        v == req[p].version
    IN  /\ req[p].step = "record"
        /\ IF publication[r] = None /\ ~RecordTaken(r, v)
           THEN /\ publication' = [publication EXCEPT ![r] = v]
                /\ req' = [req EXCEPT ![p].step = "published"]
                /\ UNCHANGED <<content, review, versions>>
           ELSE GoTo(p, IF publication[r] = v THEN "published" ELSE "publicationConflict")

\* The request is over: answered, cancelled, failed by a database, or lost
\* in a restart.  What it has committed stays.
EndRequest(p) ==
    /\ req[p] # Idle
    /\ req' = [req EXCEPT ![p] = Idle]
    /\ UNCHANGED <<content, stored>>

-----------------------------------------------------------------------------
Publish(p) ==
    \/ CheckWidgets(p)
    \/ FindStored(p)
    \/ ResolveReferences(p)
    \/ StoreVersion(p)
    \/ Reconcile(p)
    \/ RecordPublication(p)

Next ==
    \/ EditDraft
    \/ AbandonDraft
    \/ EditAssessment
    \/ FinishAssetUpload
    \/ ChangeWidgetAvailability
    \/ \E u \in Users, r \in Reviews : SubmitReview(u, r)
    \/ \E p \in Requests, u \in Users, r \in Reviews :
          \/ \E decision \in Decisions, expected \in 1..2 :
                BeginDecide(p, u, r, decision, expected)
          \/ \E expected \in 1..2 : BeginPublish(p, u, r, expected)
    \/ \E p \in Requests : CommitDecision(p) \/ Publish(p) \/ EndRequest(p)

Spec == Init /\ [][Next]_vars

\* A maintainer whose publication of r has not been answered tries again, and
\* no handler step fails every time that it is tried.
Retry(r) == \E p \in Requests, u \in Users : BeginPublish(p, u, r, review[r].revision)

FairSpec ==
    /\ Spec
    /\ \A p \in Requests :
          /\ SF_vars(CheckWidgets(p))
          /\ SF_vars(FindStored(p))
          /\ SF_vars(ResolveReferences(p))
          /\ SF_vars(StoreVersion(p))
          /\ SF_vars(Reconcile(p))
          /\ SF_vars(RecordPublication(p))
          /\ WF_vars(EndRequest(p))
    /\ \A r \in Reviews : SF_vars(Retry(r))

-----------------------------------------------------------------------------
(* Properties *)

\* Every variable has its type.
TypeOK ==
    /\ draft \in [status : {"ACTIVE", "ABANDONED"}, revision : 1..MaxRevision, target : Targets]
    /\ assessment \in 0..MaxAssessment
    /\ assetAvailable \in BOOLEAN
    /\ widgetAvailable \in BOOLEAN
    /\ review \in [Reviews -> ReviewCycle]
    /\ versions \subseteq CourseVersion
    /\ publication \in [Reviews -> CourseVersion \cup {None}]
    /\ req \in [Requests -> Request]

\* An immutable CourseVersion is the frozen content of one approved Review,
\* with no empty Assessment, whatever happened to the Draft and its Assessment
\* since the submission and whichever request stored it.
VersionsAreApprovedReviews ==
    \A v \in versions :
        /\ review[v.review].status = "APPROVED"
        /\ AssessmentsResolve(review[v.review])
        /\ v = Convert(v.review, review[v.review], v.publisher)

\* The two modules agree, although no transaction spans them: what Authoring
\* records, and what any request answers, is the one version that Courses
\* holds for that Review.
PublicationAgrees ==
    /\ \A r \in Reviews :
          publication[r] # None =>
              {v \in versions : v.review = r} = {publication[r]}
    /\ \A p \in Requests :
          req[p].step = "published" => req[p].version = publication[req[p].review]

\* Recovery and retries always recognise what an earlier request for the same
\* Review left behind: ErrPublicationProvenanceMismatch and
\* ErrPublicationConflict are never answered.
RecoveryRecognisesItsOwn ==
    \A p \in Requests :
        req[p].step \notin {"provenanceMismatch", "publicationConflict"}

\* With independent review required, nobody decides their own submission,
\* although the policy is checked on a copy read before the Review lock.
IndependentDecision ==
    \A r \in Reviews :
        IndependentReview /\ review[r].status \in Decisions =>
            review[r].decider # review[r].submitter

\* A decision is final: of two members deciding at once one is refused, and
\* no later step touches a decided Review.
DecisionIsFinal ==
    [][\A r \in Reviews :
          review[r].status \in Decisions => review'[r] = review[r]]_vars

\* A version left in Courses by a request that died is eventually recorded in
\* Authoring, if a maintainer keeps retrying.
RecoveryConverges ==
    \A r \in Reviews :
        (\E v \in versions : v.review = r) ~> publication[r] # None

\* How far a Review has come, as the contract counts it.
Stage(r) ==
    CASE publication[r] # None                -> "PUBLISHED"
      [] publication[r] = None
         /\ \E v \in versions : v.review = r -> "VERSIONED"
      [] OTHER                                -> review[r].status

Contract == INSTANCE PublicationContract
                WITH stage  <- [r \in Reviews |-> Stage(r)],
                     target <- [r \in Reviews |-> review[r].target]

\* Every step of the two modules, of whichever request, is an atomic step or a
\* stutter of the contract: no reader sees a Review go back a stage, or a
\* semantic version change hands.
ImplementsContract == Contract!Spec

\* docs/authoring-domain.md: "Replay and recovery first load the Courses
\* aggregate by exact Review provenance".  A Review whose version is stored is
\* then never refused for the plugins that are available today.
RecoveryIgnoresPlugins ==
    [][\A p \in Requests :
          req[p].step = "checkWidgets" /\ req'[p].step = "widgetUnavailable" =>
              \A v \in versions : v.review # req[p].review]_vars

=============================================================================
