------------------------ MODULE ReviewPublicationProofs ------------------------
(***************************************************************************)
(* Proofs about ReviewPublication, for any number of Users, Reviews,        *)
(* semantic versions and concurrent requests, and any bounds.               *)
(*                                                                         *)
(* None of the safety properties is inductive.  What makes them so is that  *)
(* the copy of a Review a publication request works on never goes stale     *)
(* (approved cycles are final), that no two stored versions share a Review  *)
(* or a semantic version, and that a recorded publication is always one of  *)
(* the stored versions.                                                     *)
(***************************************************************************)
EXTENDS ReviewPublication, TLAPS

\* A cycle is decided once, and a submitted one has frozen its target.
CyclesAreRegular ==
    \A r \in Reviews :
        /\ review[r].status = "IN_REVIEW" => review[r].revision = 1
        /\ review[r].status # "NONE" => review[r].target \in Targets

\* The unique constraints of the Courses module hold.
VersionsAreUnique ==
    \A v, w \in versions : v.review = w.review \/ v.target = w.target => v = w

\* What Authoring records is in Courses, under the same Review.
PublicationsAreStored ==
    \A r \in Reviews :
        publication[r] # None => publication[r] \in versions /\ publication[r].review = r

StoredInv ==
    /\ CyclesAreRegular
    /\ VersionsAreApprovedReviews
    /\ VersionsAreUnique
    /\ PublicationsAreStored
    /\ IndependentDecision

\* What a request has read still holds at its next step.
RequestInv(q) ==
    /\ q.step # "idle" => q.review \in Reviews /\ q.actor \in Users
    /\ q.step = "decide" =>
          /\ q.goal \in Decisions
          /\ review[q.review].status # "NONE"
          /\ IndependentReview => q.actor # review[q.review].submitter
    /\ q.step \in PublishSteps \cup Answers =>
          /\ q.cycle = review[q.review]
          /\ q.cycle.status = "APPROVED"
    /\ q.step \in {"store", "reconcile"} => AssessmentsResolve(q.cycle)
    /\ q.step = "record" => q.version \in versions /\ q.version.review = q.review
    /\ q.step = "published" => q.version = publication[q.review] /\ q.version # None
    /\ q.step \notin {"provenanceMismatch", "publicationConflict"}

RequestsInv == \A p \in Requests : RequestInv(req[p])

IInv == TypeOK /\ StoredInv /\ RequestsInv

-----------------------------------------------------------------------------
\* Nothing has been submitted, and no request is under way, at the start.
LEMMA InitInv == Init => IInv
<1> SUFFICES ASSUME Init PROVE IInv
  OBVIOUS
<1>1. Unused \in ReviewCycle
  BY PublicationAssumption DEF Unused, ReviewCycle
<1>2. Idle \in Request /\ RequestInv(Idle)
  BY <1>1 DEF Idle, Request, RequestInv, Steps, PublishSteps, Answers
<1>3. TypeOK
  <2>1. draft \in [status : {"ACTIVE", "ABANDONED"}, revision : 1..MaxRevision, target : Targets]
    BY PublicationAssumption DEF Init
  <2>2. assessment \in 0..MaxAssessment
    BY PublicationAssumption DEF Init
  <2>3. QED
    BY <1>1, <1>2, <2>1, <2>2 DEF Init, TypeOK
<1>4. StoredInv
  BY DEF Init, StoredInv, CyclesAreRegular, VersionsAreApprovedReviews,
      VersionsAreUnique, PublicationsAreStored, IndependentDecision, Unused, Decisions
<1>5. RequestsInv
  BY <1>2 DEF Init, RequestsInv
<1>6. QED
  BY <1>3, <1>4, <1>5 DEF IInv

\* A step that changes only what surrounds the Reviews keeps the invariant.
LEMMA ContentStep ==
  ASSUME IInv, UNCHANGED <<stored, req>>, TypeOK'
  PROVE  IInv'
  BY DEF IInv, TypeOK, StoredInv, CyclesAreRegular, VersionsAreApprovedReviews,
      VersionsAreUnique, PublicationsAreStored, IndependentDecision, RequestsInv,
      RequestInv, stored

\* So does a step of one request alone, into a state that fits what is stored.
LEMMA RequestStep ==
  ASSUME IInv, UNCHANGED <<content, stored>>,
         NEW p \in Requests, NEW q \in Request, RequestInv(q),
         req' = [req EXCEPT ![p] = q]
  PROVE  IInv'
<1>1. TypeOK'
  BY DEF IInv, TypeOK, content, stored
<1>2. StoredInv'
  BY DEF IInv, StoredInv, CyclesAreRegular, VersionsAreApprovedReviews,
      VersionsAreUnique, PublicationsAreStored, IndependentDecision, stored
<1>3. RequestsInv'
  BY DEF IInv, TypeOK, RequestsInv, RequestInv, stored
<1>4. QED
  BY <1>1, <1>2, <1>3 DEF IInv

\* Moving on without writing anything.
LEMMA GoToStep ==
  ASSUME IInv, NEW p \in Requests, NEW step \in Steps,
         GoTo(p, step), req[p].step \in PublishSteps,
         step \in (PublishSteps \cup Answers)
                   \ {"record", "published", "provenanceMismatch", "publicationConflict"},
         step \in {"store", "reconcile"} => AssessmentsResolve(req[p].cycle)
  PROVE  IInv'
<1> DEFINE q == [req[p] EXCEPT !.step = step]
<1>1. req[p] \in Request /\ RequestInv(req[p])
  BY DEF IInv, TypeOK, RequestsInv
<1>2. q \in Request
  BY <1>1 DEF Request
<1>3. RequestInv(q)
  BY <1>1 DEF Request, RequestInv, PublishSteps, Answers, AssessmentsResolve
<1>4. req' = [req EXCEPT ![p] = q]
  BY DEF GoTo
<1>5. QED
  BY <1>2, <1>3, <1>4, RequestStep DEF GoTo

\* A request that dies takes nothing committed with it.
LEMMA EndRequestStep ==
  ASSUME IInv, NEW p \in Requests, EndRequest(p)
  PROVE  IInv'
<1>1. Idle \in Request /\ RequestInv(Idle)
  BY PublicationAssumption
  DEF Idle, Request, RequestInv, Unused, ReviewCycle, Steps, PublishSteps, Answers
<1>2. QED
  BY <1>1, RequestStep DEF EndRequest

-----------------------------------------------------------------------------
(* One lemma for each kind of action *)

ContentAction ==
    EditDraft \/ AbandonDraft \/ EditAssessment \/ FinishAssetUpload \/ ChangeWidgetAvailability

\* Editing the Draft, its Assessment, Asset or plugins touches no Review.
LEMMA ContentActionStep ==
  ASSUME IInv, ContentAction
  PROVE  IInv'
<1>1. UNCHANGED <<stored, req>>
  BY DEF ContentAction, EditDraft, AbandonDraft, EditAssessment, FinishAssetUpload,
      ChangeWidgetAvailability
<1>2. draft' \in [status : {"ACTIVE", "ABANDONED"}, revision : 1..MaxRevision, target : Targets]
  <2>1. draft \in [status : {"ACTIVE", "ABANDONED"}, revision : 1..MaxRevision, target : Targets]
    BY DEF IInv, TypeOK
  <2>2. CASE EditDraft
    <3>1. PICK t \in Targets : draft' = [draft EXCEPT !.revision = @ + 1, !.target = t]
      BY <2>2 DEF EditDraft
    <3>2. draft.revision + 1 \in 1..MaxRevision
      BY <2>1, <2>2, PublicationAssumption DEF EditDraft
    <3>3. QED
      BY <2>1, <3>1, <3>2
  <2>3. CASE AbandonDraft
    <3>1. draft.revision + 1 \in 1..MaxRevision
      BY <2>1, <2>3, PublicationAssumption DEF AbandonDraft
    <3>2. QED
      BY <2>1, <2>3, <3>1 DEF AbandonDraft
  <2>4. CASE UNCHANGED draft
    BY <2>1, <2>4
  <2>5. QED
    BY <2>2, <2>3, <2>4
    DEF ContentAction, EditAssessment, FinishAssetUpload, ChangeWidgetAvailability
<1>3. /\ assessment' \in 0..MaxAssessment
      /\ assetAvailable' \in BOOLEAN
      /\ widgetAvailable' \in BOOLEAN
  BY DEF IInv, TypeOK, ContentAction, EditDraft, AbandonDraft, EditAssessment, FinishAssetUpload,
      ChangeWidgetAvailability
<1>4. TypeOK'
  BY <1>1, <1>2, <1>3 DEF IInv, TypeOK, stored
<1>5. QED
  BY <1>1, <1>4, ContentStep

\* A new cycle takes an unused identifier, on which nothing depends yet.
LEMMA SubmitReviewStep ==
  ASSUME IInv, NEW u \in Users, NEW r \in Reviews, SubmitReview(u, r)
  PROVE  IInv'
<1> DEFINE cycle == [status |-> "IN_REVIEW", revision |-> 1, draftRevision |-> draft.revision,
                     target |-> draft.target, assessment |-> assessment,
                     submitter |-> u, decider |-> None]
<1>1. cycle \in ReviewCycle
  BY PublicationAssumption DEF IInv, TypeOK, ReviewCycle
<1>2. /\ review' = [review EXCEPT ![r] = cycle]
      /\ review[r].status = "NONE"
      /\ UNCHANGED <<content, versions, publication, req>>
  BY DEF SubmitReview
<1>3. TypeOK'
  BY <1>1, <1>2 DEF IInv, TypeOK, content
<1>4. \A s \in Reviews : review[s].status # "NONE" => review'[s] = review[s]
  BY <1>2 DEF IInv, TypeOK
<1>5. StoredInv'
  <2>1. CyclesAreRegular'
    BY <1>2 DEF IInv, TypeOK, StoredInv, CyclesAreRegular
  <2>2. VersionsAreApprovedReviews'
    BY <1>2, <1>4 DEF IInv, TypeOK, StoredInv, VersionsAreApprovedReviews, CourseVersion
  <2>3. VersionsAreUnique' /\ PublicationsAreStored'
    BY <1>2 DEF IInv, StoredInv, VersionsAreUnique, PublicationsAreStored
  <2>4. IndependentDecision'
    BY <1>2 DEF IInv, TypeOK, StoredInv, IndependentDecision, Decisions
  <2>5. QED
    BY <2>1, <2>2, <2>3, <2>4 DEF StoredInv
<1>6. RequestsInv'
  <2> SUFFICES ASSUME NEW p \in Requests PROVE RequestInv(req[p])'
    BY <1>2 DEF RequestsInv
  <2>1. RequestInv(req[p])
    BY DEF IInv, RequestsInv
  <2>2. req[p].step \in {"decide"} \cup PublishSteps \cup Answers =>
           review'[req[p].review] = review[req[p].review]
    BY <1>4, <2>1 DEF RequestInv, PublishSteps, Answers
  <2>3. QED
    BY <1>2, <2>1, <2>2 DEF RequestInv
<1>7. QED
  BY <1>3, <1>5, <1>6 DEF IInv

\* A decision begins with the checks of ReviewApplicationService.decide.
LEMMA BeginDecideStep ==
  ASSUME IInv, NEW p \in Requests, NEW u \in Users, NEW r \in Reviews,
         NEW decision \in Decisions, NEW expected, BeginDecide(p, u, r, decision, expected)
  PROVE  IInv'
<1> DEFINE q == [step |-> "decide", goal |-> decision, actor |-> u, review |-> r,
                 cycle |-> review[r], version |-> None]
<1>1. q \in Request
  BY DEF IInv, TypeOK, Request, Steps
<1>2. RequestInv(q)
  BY DEF RequestInv, BeginDecide, CanDecide, DecisionPolicy, PublishSteps, Answers
<1>3. QED
  BY <1>1, <1>2, RequestStep DEF BeginDecide, Begin

\* A publication begins with a copy of an approved cycle.
LEMMA BeginPublishStep ==
  ASSUME IInv, NEW p \in Requests, NEW u \in Users, NEW r \in Reviews,
         NEW expected, BeginPublish(p, u, r, expected)
  PROVE  IInv'
<1> DEFINE q == [step |-> "checkWidgets", goal |-> "PUBLISH", actor |-> u, review |-> r,
                 cycle |-> review[r], version |-> None]
<1>1. q \in Request
  BY DEF IInv, TypeOK, Request, Steps, PublishSteps
<1>2. RequestInv(q)
  BY DEF RequestInv, BeginPublish
<1>3. QED
  BY <1>1, <1>2, RequestStep DEF BeginPublish, Begin

\* The cycle that decideReview writes is well typed.
LEMMA DecidedCycleType ==
  ASSUME NEW c \in ReviewCycle, c.revision = 1, NEW d \in Decisions, NEW u \in Users
  PROVE  Decided(c, d, u) \in ReviewCycle
<1>1. [c EXCEPT !.status = d] \in ReviewCycle
  BY DEF ReviewCycle
<1>2. c.revision + 1 \in 0..2
  OBVIOUS
<1>3. QED
  BY <1>1, <1>2 DEF ReviewCycle, Decided

\* The Review lock and the second CanDecide: only an open cycle changes.
LEMMA CommitDecisionStep ==
  ASSUME IInv, NEW p \in Requests, CommitDecision(p)
  PROVE  IInv'
<1> DEFINE q == req[p]
           r == q.review
           decided == Decided(review[r], q.goal, q.actor)
<1>1. q \in Request /\ RequestInv(q) /\ q.step = "decide"
  BY DEF IInv, TypeOK, RequestsInv, CommitDecision
<1>2. /\ r \in Reviews
      /\ q.actor \in Users
      /\ q.goal \in Decisions
      /\ IndependentReview => q.actor # review[r].submitter
  BY <1>1 DEF RequestInv
<1>3. review[r] \in ReviewCycle /\ review[r].status = "IN_REVIEW" /\ review[r].revision = 1
  BY <1>2 DEF CommitDecision, CanDecide, IInv, TypeOK, StoredInv, CyclesAreRegular
<1>4. /\ review' = [review EXCEPT ![r] = decided]
      /\ req' = [req EXCEPT ![p] = Idle]
      /\ UNCHANGED <<content, versions, publication>>
  BY DEF CommitDecision
<1>5. decided \in ReviewCycle
  BY <1>2, <1>3, DecidedCycleType
<1>6. Idle \in Request
  BY PublicationAssumption DEF Idle, Request, Unused, ReviewCycle, Steps
<1>7. TypeOK'
  BY <1>2, <1>4, <1>5, <1>6 DEF IInv, TypeOK, content
<1>8. \A s \in Reviews : review[s].status # "IN_REVIEW" => review'[s] = review[s]
  BY <1>3, <1>4 DEF IInv, TypeOK
<1>9. StoredInv'
  <2>1. CyclesAreRegular'
    BY <1>2, <1>3, <1>4 DEF IInv, TypeOK, StoredInv, CyclesAreRegular, ReviewCycle, Decided, Decisions
  <2>2. VersionsAreApprovedReviews'
    BY <1>4, <1>8 DEF IInv, TypeOK, StoredInv, VersionsAreApprovedReviews, CourseVersion
  <2>3. VersionsAreUnique' /\ PublicationsAreStored'
    BY <1>4 DEF IInv, StoredInv, VersionsAreUnique, PublicationsAreStored
  <2>4. IndependentDecision'
    BY <1>2, <1>3, <1>4 DEF IInv, TypeOK, StoredInv, IndependentDecision, ReviewCycle, Decided
  <2>5. QED
    BY <2>1, <2>2, <2>3, <2>4 DEF StoredInv
<1>10. RequestsInv'
  <2> SUFFICES ASSUME NEW o \in Requests PROVE RequestInv(req[o])'
    BY DEF RequestsInv
  <2>1. CASE o = p
    <3>1. req'[o] = Idle
      BY <1>4, <2>1 DEF IInv, TypeOK
    <3>2. QED
      BY <3>1 DEF RequestInv, Idle, PublishSteps, Answers
  <2>2. CASE o # p
    <3>1. req'[o] = req[o] /\ RequestInv(req[o])
      BY <1>4, <2>2 DEF IInv, TypeOK, RequestsInv
    <3>2. req[o].step \in PublishSteps \cup Answers =>
             review'[req[o].review] = review[req[o].review]
      BY <1>8, <3>1 DEF RequestInv, PublishSteps, Answers
    <3>3. req[o].step = "decide" =>
             /\ review'[req[o].review].status # "NONE"
             /\ review'[req[o].review].submitter = review[req[o].review].submitter
      BY <1>2, <1>3, <1>4, <3>1 DEF RequestInv, IInv, TypeOK, ReviewCycle, Decided, Decisions
    <3>4. QED
      BY <1>4, <3>1, <3>2, <3>3 DEF RequestInv
  <2>3. QED
    BY <2>1, <2>2
<1>11. QED
  BY <1>7, <1>9, <1>10 DEF IInv

\* The plugin check of PublicationService.Publish only answers or moves on.
LEMMA CheckWidgetsStep ==
  ASSUME IInv, NEW p \in Requests, CheckWidgets(p)
  PROVE  IInv'
BY GoToStep DEF CheckWidgets, Steps, PublishSteps, Answers

\* Asset and Assessment resolution only answers or moves on.
LEMMA ResolveReferencesStep ==
  ASSUME IInv, NEW p \in Requests, ResolveReferences(p)
  PROVE  IInv'
BY GoToStep DEF ResolveReferences, Steps, PublishSteps, Answers

\* A stored version of the request's Review always is the one its copy of the
\* Review converts to, but for the publisher.
LEMMA StoredIsSameSource ==
  ASSUME IInv, NEW p \in Requests, req[p].step \in PublishSteps,
         NEW v \in versions, v.review = req[p].review
  PROVE  /\ AssessmentsResolve(req[p].cycle)
         /\ SamePublicationSource(v, Convert(req[p].review, req[p].cycle, req[p].actor))
<1>1. req[p].cycle = review[req[p].review]
  BY DEF IInv, RequestsInv, RequestInv
<1>2. /\ v = Convert(v.review, review[v.review], v.publisher)
      /\ AssessmentsResolve(review[v.review])
  BY DEF IInv, StoredInv, VersionsAreApprovedReviews
<1>3. QED
  BY <1>1, <1>2 DEF SamePublicationSource, Convert

\* Recovery finds the request's own source in Courses, or nothing.
LEMMA UseStoredStep ==
  ASSUME IInv, NEW p \in Requests, req[p].step \in {"findStored", "reconcile"},
         NEW resolved, AssessmentsResolve(req[p].cycle) => resolved,
         NEW otherwise \in {"resolve", "versionExists"}, UseStored(p, resolved, otherwise)
  PROVE  IInv'
<1>1. CASE GoTo(p, otherwise)
  BY <1>1, GoToStep DEF Steps, PublishSteps, Answers
<1>2. CASE ~GoTo(p, otherwise)
  <2>1. PICK v \in versions :
           /\ v.review = req[p].review
           /\ IF resolved /\ SamePublicationSource(v, Convert(req[p].review, req[p].cycle, req[p].actor))
              THEN /\ req' = [req EXCEPT ![p] = [@ EXCEPT !.step = "record", !.version = v]]
                   /\ UNCHANGED <<content, stored>>
              ELSE GoTo(p, "provenanceMismatch")
    BY <1>2 DEF UseStored
  <2>2. resolved /\ SamePublicationSource(v, Convert(req[p].review, req[p].cycle, req[p].actor))
    BY <2>1, StoredIsSameSource DEF PublishSteps
  <2> DEFINE q == [req[p] EXCEPT !.step = "record", !.version = v]
  <2>3. req[p] \in Request /\ RequestInv(req[p]) /\ v \in CourseVersion
    BY DEF IInv, TypeOK, RequestsInv
  <2>4. q \in Request
    BY <2>3 DEF Request, Steps, PublishSteps
  <2>5. RequestInv(q)
    BY <2>1, <2>3 DEF Request, RequestInv, PublishSteps, Answers
  <2>6. req' = [req EXCEPT ![p] = q] /\ UNCHANGED <<content, stored>>
    BY <2>1, <2>2
  <2>7. QED
    BY <2>4, <2>5, <2>6, RequestStep
<1>3. QED
  BY <1>1, <1>2

\* A request that does not move keeps what it has read, as versions are added
\* and as publications of other Reviews are recorded.
LEMMA OtherRequest ==
  ASSUME NEW o \in Requests, RequestInv(req[o]), req'[o] = req[o],
         review' = review, versions \subseteq versions',
         req[o].step = "published" => publication'[req[o].review] = publication[req[o].review]
  PROVE  RequestInv(req[o])'
<1> DEFINE q == req[o]
<1>1. q.step = "record" => q.version \in versions' /\ q.version.review = q.review
  BY DEF RequestInv
<1>2. q.step = "published" => q.version = publication'[q.review] /\ q.version # None
  BY DEF RequestInv
<1>3. /\ q.step # "idle" => q.review \in Reviews /\ q.actor \in Users
      /\ q.step = "decide" =>
            /\ q.goal \in Decisions
            /\ review'[q.review].status # "NONE"
            /\ IndependentReview => q.actor # review'[q.review].submitter
      /\ q.step \in PublishSteps \cup Answers =>
            /\ q.cycle = review'[q.review]
            /\ q.cycle.status = "APPROVED"
      /\ q.step \in {"store", "reconcile"} => AssessmentsResolve(q.cycle)
      /\ q.step \notin {"provenanceMismatch", "publicationConflict"}
  BY DEF RequestInv
<1>4. QED
  BY <1>1, <1>2, <1>3 DEF RequestInv

\* The unique constraints are what keeps the stored versions unique.
LEMMA StoreVersionStep ==
  ASSUME IInv, NEW p \in Requests, StoreVersion(p)
  PROVE  IInv'
<1> DEFINE q == req[p]
           candidate == Convert(q.review, q.cycle, q.actor)
           next == [q EXCEPT !.step = "record", !.version = candidate]
<1>1. q \in Request /\ RequestInv(q) /\ q.step = "store"
  BY DEF IInv, TypeOK, RequestsInv, StoreVersion
<1>2. CASE GoTo(p, "reconcile")
  BY <1>1, <1>2, GoToStep DEF RequestInv, Steps, PublishSteps, Answers
<1>3. CASE ~GoTo(p, "reconcile")
  <2>1. /\ ~VersionTaken(candidate)
        /\ versions' = versions \cup {candidate}
        /\ req' = [req EXCEPT ![p] = next]
        /\ UNCHANGED <<content, review, publication>>
    BY <1>3 DEF StoreVersion
  <2>2. /\ q.review \in Reviews
        /\ q.actor \in Users
        /\ q.cycle = review[q.review]
        /\ review[q.review].status = "APPROVED"
        /\ AssessmentsResolve(review[q.review])
    BY <1>1 DEF RequestInv, PublishSteps
  <2>3. review[q.review] \in ReviewCycle /\ review[q.review].target \in Targets
    BY <2>2 DEF IInv, TypeOK, StoredInv, CyclesAreRegular
  <2>4. candidate \in CourseVersion
    BY <2>2, <2>3 DEF Convert, CourseVersion, ReviewCycle
  <2>5. next \in Request
    BY <1>1, <2>4 DEF Request, Steps, PublishSteps
  <2>6. TypeOK'
    BY <2>1, <2>4, <2>5 DEF IInv, TypeOK, content
  <2>7. candidate.review = q.review /\ candidate.publisher = q.actor
    BY DEF Convert
  <2>8. StoredInv'
    <3>1. CyclesAreRegular' /\ IndependentDecision'
      BY <2>1 DEF IInv, StoredInv, CyclesAreRegular, IndependentDecision
    <3>2. VersionsAreApprovedReviews'
      BY <2>1, <2>2, <2>7 DEF IInv, StoredInv, VersionsAreApprovedReviews
    <3>3. VersionsAreUnique'
      BY <2>1 DEF IInv, StoredInv, VersionsAreUnique, VersionTaken
    <3>4. PublicationsAreStored'
      BY <2>1 DEF IInv, StoredInv, PublicationsAreStored
    <3>5. QED
      BY <3>1, <3>2, <3>3, <3>4 DEF StoredInv
  <2>9. RequestsInv'
    <3> SUFFICES ASSUME NEW o \in Requests PROVE RequestInv(req[o])'
      BY DEF RequestsInv
    <3>1. CASE o = p
      <4>1. req'[o] = next
        BY <2>1, <3>1 DEF IInv, TypeOK
      <4>2. /\ next.step = "record"
            /\ next.review = q.review
            /\ next.actor = q.actor
            /\ next.cycle = q.cycle
            /\ next.version = candidate
        BY <1>1 DEF Request
      <4>3. /\ candidate \in versions'
            /\ review' = review
        BY <2>1
      <4>4. next.cycle = review'[next.review] /\ next.cycle.status = "APPROVED"
        BY <2>2, <4>2, <4>3
      <4>5. QED
        BY <2>2, <2>7, <4>1, <4>2, <4>3, <4>4 DEF RequestInv
    <3>2. CASE o # p
      <4>1. req'[o] = req[o] /\ RequestInv(req[o])
        BY <2>1, <3>2 DEF IInv, TypeOK, RequestsInv
      <4>2. QED
        BY <2>1, <4>1, OtherRequest
    <3>3. QED
      BY <3>1, <3>2
  <2>10. QED
    BY <2>6, <2>8, <2>9 DEF IInv
<1>4. QED
  BY <1>2, <1>3

\* The Authoring side accepts every version that Courses has stored.
LEMMA RecordPublicationStep ==
  ASSUME IInv, NEW p \in Requests, RecordPublication(p)
  PROVE  IInv'
<1> DEFINE q == req[p]
           r == q.review
           v == q.version
           next == [q EXCEPT !.step = "published"]
<1>1. q \in Request /\ RequestInv(q) /\ q.step = "record"
  BY DEF IInv, TypeOK, RequestsInv, RecordPublication
<1>2. /\ r \in Reviews
      /\ v \in versions
      /\ v.review = r
      /\ v \in CourseVersion
      /\ v # None
  BY <1>1, PublicationAssumption DEF RequestInv, IInv, TypeOK
<1>3. next \in Request
  BY <1>1 DEF Request, Steps, Answers
<1>4. /\ next.step = "published"
      /\ next.review = r
      /\ next.actor = q.actor
      /\ next.cycle = q.cycle
      /\ next.version = v
  BY <1>1 DEF Request
<1>5. publication[r] = None \/ publication[r] = v
  BY <1>2 DEF IInv, StoredInv, PublicationsAreStored, VersionsAreUnique
<1>6. ~RecordTaken(r, v)
  BY <1>2 DEF RecordTaken, IInv, StoredInv, PublicationsAreStored, VersionsAreUnique
<1>7. CASE publication[r] = v
  <2>1. req' = [req EXCEPT ![p] = next] /\ UNCHANGED <<content, stored>>
    BY <1>2, <1>7 DEF RecordPublication, GoTo
  <2>2. RequestInv(next)
    BY <1>1, <1>2, <1>4, <1>7 DEF RequestInv, PublishSteps, Answers
  <2>3. QED
    BY <1>3, <2>1, <2>2, RequestStep
<1>8. CASE publication[r] = None
  <2>1. /\ publication' = [publication EXCEPT ![r] = v]
        /\ req' = [req EXCEPT ![p] = next]
        /\ UNCHANGED <<content, review, versions>>
    BY <1>6, <1>8 DEF RecordPublication
  <2>2. TypeOK'
    BY <1>2, <1>3, <2>1 DEF IInv, TypeOK, content
  <2>3. StoredInv'
    <3>1. CyclesAreRegular' /\ VersionsAreApprovedReviews' /\ VersionsAreUnique' /\ IndependentDecision'
      BY <2>1 DEF IInv, StoredInv, CyclesAreRegular, VersionsAreApprovedReviews,
          VersionsAreUnique, IndependentDecision
    <3>2. PublicationsAreStored'
      BY <1>2, <2>1 DEF IInv, TypeOK, StoredInv, PublicationsAreStored
    <3>3. QED
      BY <3>1, <3>2 DEF StoredInv
  <2>4. RequestsInv'
    <3> SUFFICES ASSUME NEW o \in Requests PROVE RequestInv(req[o])'
      BY DEF RequestsInv
    <3>1. publication'[r] = v
      BY <1>2, <2>1 DEF IInv, TypeOK
    <3>2. CASE o = p
      <4>1. req'[o] = next
        BY <2>1, <3>2 DEF IInv, TypeOK
      <4>2. QED
        BY <1>1, <1>2, <1>4, <2>1, <3>1, <4>1 DEF RequestInv, PublishSteps, Answers
    <3>3. CASE o # p
      <4>1. req'[o] = req[o] /\ RequestInv(req[o])
        BY <2>1, <3>3 DEF IInv, TypeOK, RequestsInv
      <4>2. req[o].step = "published" => publication'[req[o].review] = publication[req[o].review]
        BY <1>8, <2>1, <4>1 DEF RequestInv, IInv, TypeOK
      <4>3. QED
        BY <2>1, <4>1, <4>2, OtherRequest
    <3>4. QED
      BY <3>2, <3>3
  <2>5. QED
    BY <2>2, <2>3, <2>4 DEF IInv
<1>9. QED
  BY <1>5, <1>7, <1>8

-----------------------------------------------------------------------------
(* Every step *)

\* The invariant is inductive: one case for each action.
LEMMA NextInv == IInv /\ [Next]_vars => IInv'
<1> SUFFICES ASSUME IInv, [Next]_vars PROVE IInv'
  OBVIOUS
<1>1. CASE ContentAction
  BY <1>1, ContentActionStep
<1>2. ASSUME NEW u \in Users, NEW r \in Reviews, SubmitReview(u, r) PROVE IInv'
  BY <1>2, SubmitReviewStep
<1>3. ASSUME NEW p \in Requests, NEW u \in Users, NEW r \in Reviews,
             NEW decision \in Decisions, NEW expected \in 1..2,
             BeginDecide(p, u, r, decision, expected)
      PROVE  IInv'
  BY <1>3, BeginDecideStep
<1>4. ASSUME NEW p \in Requests, NEW u \in Users, NEW r \in Reviews,
             NEW expected \in 1..2, BeginPublish(p, u, r, expected)
      PROVE  IInv'
  BY <1>4, BeginPublishStep
<1>5. ASSUME NEW p \in Requests, CommitDecision(p) PROVE IInv'
  BY <1>5, CommitDecisionStep
<1>6. ASSUME NEW p \in Requests, Publish(p) PROVE IInv'
  <2>1. CASE CheckWidgets(p)
    BY <2>1, CheckWidgetsStep
  <2>2. CASE FindStored(p)
    BY <2>2, UseStoredStep DEF FindStored
  <2>3. CASE ResolveReferences(p)
    BY <2>3, ResolveReferencesStep
  <2>4. CASE StoreVersion(p)
    BY <2>4, StoreVersionStep
  <2>5. CASE Reconcile(p)
    BY <2>5, UseStoredStep DEF Reconcile
  <2>6. CASE RecordPublication(p)
    BY <2>6, RecordPublicationStep
  <2>7. QED
    BY <1>6, <2>1, <2>2, <2>3, <2>4, <2>5, <2>6 DEF Publish
<1>7. ASSUME NEW p \in Requests, EndRequest(p) PROVE IInv'
  BY <1>7, EndRequestStep
<1>8. CASE UNCHANGED vars
  <2>1. TypeOK'
    BY <1>8 DEF IInv, TypeOK, vars
  <2>2. QED
    BY <1>8, <2>1, ContentStep DEF vars, stored
<1>9. QED
  BY <1>1, <1>2, <1>3, <1>4, <1>5, <1>6, <1>7, <1>8 DEF Next, ContentAction

\* The inductive invariant holds in every reachable state.
THEOREM Inductive == Spec => []IInv
BY InitInv, NextInv, PTL DEF Spec

\* Every variable keeps its type, for any number of actors and any bounds.
THEOREM TypeCorrect == Spec => []TypeOK
<1>1. IInv => TypeOK
  BY DEF IInv
<1>2. QED
  BY <1>1, Inductive, PTL

\* An immutable CourseVersion is always the frozen content of one approved
\* Review: PublicationService.Publish never stores anything else.
THEOREM VersionsCorrect == Spec => []VersionsAreApprovedReviews
<1>1. IInv => VersionsAreApprovedReviews
  BY DEF IInv, StoredInv
<1>2. QED
  BY <1>1, Inductive, PTL

\* What Authoring records and every request answers is the one version that
\* Courses holds, although the two writes are separate transactions.
THEOREM ModulesAgree == Spec => []PublicationAgrees
<1>1. IInv => PublicationAgrees
  <2> SUFFICES ASSUME IInv PROVE PublicationAgrees
    OBVIOUS
  <2>1. ASSUME NEW r \in Reviews, publication[r] # None
        PROVE  {v \in versions : v.review = r} = {publication[r]}
    BY <2>1 DEF IInv, StoredInv, PublicationsAreStored, VersionsAreUnique
  <2>2. ASSUME NEW p \in Requests, req[p].step = "published"
        PROVE  req[p].version = publication[req[p].review]
    BY <2>2 DEF IInv, RequestsInv, RequestInv
  <2>3. QED
    BY <2>1, <2>2 DEF PublicationAgrees
<1>2. QED
  BY <1>1, Inductive, PTL

\* reconcileExisting, samePublicationSource and RecordPublication recognise
\* whatever an earlier request for the same Review left behind.
THEOREM RecoveryCorrect == Spec => []RecoveryRecognisesItsOwn
<1>1. IInv => RecoveryRecognisesItsOwn
  BY DEF IInv, RequestsInv, RequestInv, RecoveryRecognisesItsOwn
<1>2. QED
  BY <1>1, Inductive, PTL

\* With independent review required nobody decides their own submission.
THEOREM DecisionsAreIndependent == Spec => []IndependentDecision
<1>1. IInv => IndependentDecision
  BY DEF IInv, StoredInv
<1>2. QED
  BY <1>1, Inductive, PTL

-----------------------------------------------------------------------------
(* What a step may do to a Review *)

\* The actions that write neither a Review, nor a version, nor a publication.
\* All of them are stutters of the contract.
ReadOnly ==
    \/ ContentAction
    \/ \E p \in Requests, u \in Users, r \in Reviews :
          \/ \E decision \in Decisions, expected \in 1..2 :
                BeginDecide(p, u, r, decision, expected)
          \/ \E expected \in 1..2 : BeginPublish(p, u, r, expected)
    \/ \E p \in Requests : EndRequest(p)
    \/ UNCHANGED vars

\* The steps that only read leave both modules as they are.
LEMMA ReadOnlyWritesNothing == ReadOnly => UNCHANGED stored
BY DEF ReadOnly, ContentAction, EditDraft, AbandonDraft, EditAssessment, FinishAssetUpload,
    ChangeWidgetAvailability, BeginDecide, BeginPublish, Begin, EndRequest, stored, vars

\* A publication request writes one version, or one publication, or nothing.
Stores(p) ==
    LET candidate == Convert(req[p].review, req[p].cycle, req[p].actor) IN
    /\ req[p].step = "store"
    /\ ~VersionTaken(candidate)
    /\ versions' = versions \cup {candidate}
    /\ UNCHANGED <<review, publication>>

Records(p) ==
    /\ req[p].step = "record"
    /\ publication[req[p].review] = None
    /\ publication' = [publication EXCEPT ![req[p].review] = req[p].version]
    /\ UNCHANGED <<review, versions>>

\* Of the steps of PublicationService.Publish only two write.
LEMMA PublishWrites ==
  ASSUME NEW p \in Requests, Publish(p)
  PROVE  Stores(p) \/ Records(p) \/ UNCHANGED stored
<1>1. CASE CheckWidgets(p) \/ ResolveReferences(p)
  BY <1>1 DEF CheckWidgets, ResolveReferences, GoTo
<1>2. CASE FindStored(p) \/ Reconcile(p)
  BY <1>2 DEF FindStored, Reconcile, UseStored, GoTo
<1>3. CASE StoreVersion(p)
  <2>1. CASE GoTo(p, "reconcile")
    BY <2>1 DEF GoTo
  <2>2. CASE ~GoTo(p, "reconcile")
    BY <1>3, <2>2 DEF StoreVersion, Stores
  <2>3. QED
    BY <2>1, <2>2
<1>4. CASE RecordPublication(p)
  <2>1. CASE publication[req[p].review] = None /\ ~RecordTaken(req[p].review, req[p].version)
    BY <1>4, <2>1 DEF RecordPublication, Records
  <2>2. CASE ~(publication[req[p].review] = None /\ ~RecordTaken(req[p].review, req[p].version))
    BY <1>4, <2>2 DEF RecordPublication, GoTo
  <2>3. QED
    BY <2>1, <2>2
<1>5. QED
  BY <1>1, <1>2, <1>3, <1>4 DEF Publish

\* Every step is one of the four writes or leaves both modules alone.
LEMMA Writes ==
  ASSUME [Next]_vars
  PROVE  \/ UNCHANGED stored
         \/ \E u \in Users, r \in Reviews : SubmitReview(u, r)
         \/ \E p \in Requests : CommitDecision(p) \/ Stores(p) \/ Records(p)
<1>1. CASE ReadOnly
  BY <1>1, ReadOnlyWritesNothing
<1>2. CASE ~ReadOnly
  <2>1. \/ \E u \in Users, r \in Reviews : SubmitReview(u, r)
        \/ \E p \in Requests : CommitDecision(p) \/ Publish(p)
    BY <1>2 DEF Next, ReadOnly, ContentAction
  <2>2. QED
    BY <2>1, PublishWrites
<1>3. QED
  BY <1>1, <1>2

\* A decision is final: no step of any request touches a decided Review.
THEOREM DecisionsAreFinal == Spec => DecisionIsFinal
<1>1. IInv /\ [Next]_vars =>
         \A r \in Reviews : review[r].status \in Decisions => review'[r] = review[r]
  <2> SUFFICES ASSUME IInv, [Next]_vars, NEW r \in Reviews, review[r].status \in Decisions
               PROVE  review'[r] = review[r]
    OBVIOUS
  <2>1. ASSUME NEW u \in Users, NEW s \in Reviews, SubmitReview(u, s)
        PROVE  review'[r] = review[r]
    BY <2>1 DEF SubmitReview, IInv, TypeOK, Decisions
  <2>2. ASSUME NEW p \in Requests, CommitDecision(p)
        PROVE  review'[r] = review[r]
    BY <2>2 DEF CommitDecision, CanDecide, IInv, TypeOK, Decisions
  <2>3. QED
    BY <2>1, <2>2, Writes DEF stored, Stores, Records
<1>2. QED
  BY <1>1, Inductive, PTL DEF Spec, DecisionIsFinal

-----------------------------------------------------------------------------
(* The contract *)

StoredReview(r) == \E v \in versions : v.review = r

\* In a reachable state the stages of a Review exclude each other as they read.
LEMMA Stages ==
  ASSUME IInv, NEW r \in Reviews
  PROVE  /\ publication[r] # None => Stage(r) = "PUBLISHED" /\ StoredReview(r)
         /\ StoredReview(r) => review[r].status = "APPROVED"
         /\ publication[r] = None /\ StoredReview(r) => Stage(r) = "VERSIONED"
         /\ ~StoredReview(r) => Stage(r) = review[r].status
         /\ review[r].status \in {"NONE", "IN_REVIEW"} \cup Decisions
<1>1. publication[r] # None => publication[r] \in versions /\ publication[r].review = r
  BY DEF IInv, StoredInv, PublicationsAreStored
<1>2. StoredReview(r) => review[r].status = "APPROVED"
  BY DEF IInv, StoredInv, VersionsAreApprovedReviews, StoredReview
<1>3. review[r] \in ReviewCycle
  BY DEF IInv, TypeOK
<1>4. QED
  BY <1>1, <1>2, <1>3 DEF Stage, StoredReview, ReviewCycle

\* Reviews whose cycle, version and publication stay keep their stage.
LEMMA SameStage ==
  ASSUME NEW r \in Reviews, review'[r] = review[r], publication'[r] = publication[r],
         StoredReview(r)' <=> StoredReview(r)
  PROVE  Stage(r)' = Stage(r)
BY DEF Stage, StoredReview

\* SubmitReview is the contract's Submit.
LEMMA SubmitRefines ==
  ASSUME IInv, IInv', NEW u \in Users, NEW r \in Reviews, SubmitReview(u, r)
  PROVE  Contract!Submit(r)
<1>1. /\ review[r].status = "NONE"
      /\ \A s \in Reviews : review[s].status # "IN_REVIEW"
      /\ review'[r].status = "IN_REVIEW"
      /\ review'[r].target = draft.target
      /\ draft.target \in Targets
      /\ \A s \in Reviews \ {r} : review'[s] = review[s]
      /\ versions' = versions /\ publication' = publication
  BY DEF SubmitReview, IInv, TypeOK
<1>2. \A s \in Reviews : Stage(s) # "IN_REVIEW"
  BY <1>1, Stages
<1>3. ~StoredReview(r) /\ Stage(r) = "NONE"
  BY <1>1, Stages
<1>4. ~StoredReview(r)'
  BY <1>1, <1>3 DEF StoredReview
<1>5. Stage(r)' = "IN_REVIEW"
  <2>1. publication'[r] = None
    BY <1>1, <1>3, Stages
  <2>2. QED
    BY <1>1, <1>4, <2>1 DEF Stage, StoredReview
<1>6. \A s \in Reviews \ {r} : Stage(s)' = Stage(s)
  BY <1>1, SameStage DEF StoredReview
<1>7. QED
  BY <1>1, <1>2, <1>3, <1>5, <1>6 DEF Contract!Submit, Contract!Advance

\* decideReview is the contract's Decide.
LEMMA DecideRefines ==
  ASSUME IInv, IInv', NEW p \in Requests, NEW r, r = req[p].review, CommitDecision(p)
  PROVE  Contract!Decide(r)
<1>1. /\ r \in Reviews
      /\ req[p].goal \in Decisions
      /\ review[r].status = "IN_REVIEW"
      /\ review[r] \in ReviewCycle
  BY DEF CommitDecision, CanDecide, IInv, TypeOK, RequestsInv, RequestInv
<1>2. /\ review'[r].status = req[p].goal
      /\ review'[r].target = review[r].target
      /\ \A s \in Reviews \ {r} : review'[s] = review[s]
      /\ versions' = versions /\ publication' = publication
  BY <1>1 DEF CommitDecision, Decided, IInv, TypeOK, ReviewCycle
<1>3. ~StoredReview(r) /\ Stage(r) = "IN_REVIEW" /\ publication[r] = None
  BY <1>1, Stages
<1>4. Stage(r)' = req[p].goal
  BY <1>2, <1>3 DEF Stage, StoredReview
<1>5. \A s \in Reviews \ {r} : Stage(s)' = Stage(s)
  BY <1>2, SameStage DEF StoredReview
<1>6. QED
  BY <1>1, <1>2, <1>3, <1>4, <1>5 DEF Contract!Decide, Contract!Advance, Decisions

\* The unique constraint on the semantic version is the claim.
LEMMA StoreRefines ==
  ASSUME IInv, IInv', NEW p \in Requests, NEW r, r = req[p].review, Stores(p)
  PROVE  Contract!Claim(r)
<1> DEFINE candidate == Convert(r, req[p].cycle, req[p].actor)
<1>1. /\ r \in Reviews
      /\ req[p].cycle = review[r]
      /\ review[r].status = "APPROVED"
  BY DEF Stores, IInv, RequestsInv, RequestInv, PublishSteps
<1>2. /\ versions' = versions \cup {candidate}
      /\ ~VersionTaken(candidate)
      /\ review' = review /\ publication' = publication
  BY DEF Stores
<1>3. candidate.review = r /\ candidate.target = review[r].target
  BY <1>1 DEF Convert
<1>4. ~StoredReview(r) /\ Stage(r) = "APPROVED" /\ publication[r] = None
  <2>1. ~StoredReview(r)
    BY <1>2, <1>3 DEF VersionTaken, StoredReview
  <2>2. QED
    BY <1>1, <2>1, Stages
<1>5. Stage(r)' = "VERSIONED"
  BY <1>2, <1>3, <1>4 DEF Stage
<1>6. \A s \in Reviews \ {r} : Stage(s)' = Stage(s)
  BY <1>2, <1>3, SameStage DEF StoredReview
<1>7. ASSUME NEW s \in Reviews, Stage(s) \in {"VERSIONED", "PUBLISHED"}
      PROVE  review[s].target # review[r].target
  <2>1. StoredReview(s)
    BY <1>7, Stages DEF Decisions
  <2>2. PICK v \in versions : v.review = s
    BY <2>1 DEF StoredReview
  <2>3. v.target = review[s].target
    BY <2>2 DEF IInv, StoredInv, VersionsAreApprovedReviews, Convert
  <2>4. QED
    BY <1>2, <1>3, <2>2, <2>3 DEF VersionTaken
<1>8. QED
  BY <1>1, <1>2, <1>4, <1>5, <1>6, <1>7 DEF Contract!Claim, Contract!Advance

\* RecordPublication is the contract's Record.
LEMMA RecordRefines ==
  ASSUME IInv, IInv', NEW p \in Requests, NEW r, r = req[p].review, Records(p)
  PROVE  Contract!Record(r)
<1> DEFINE v == req[p].version
<1>1. r \in Reviews /\ v \in versions /\ v.review = r /\ v # None
  BY PublicationAssumption DEF Records, IInv, TypeOK, RequestsInv, RequestInv
<1>2. /\ publication[r] = None
      /\ publication'[r] = v
      /\ \A s \in Reviews \ {r} : publication'[s] = publication[s]
      /\ review' = review /\ versions' = versions
  BY <1>1 DEF Records, IInv, TypeOK
<1>3. StoredReview(r) /\ Stage(r) = "VERSIONED"
  BY <1>1, <1>2, Stages DEF StoredReview
<1>4. Stage(r)' = "PUBLISHED"
  BY <1>1, <1>2 DEF Stage
<1>5. \A s \in Reviews \ {r} : Stage(s)' = Stage(s)
  BY <1>2, SameStage DEF StoredReview
<1>6. QED
  BY <1>1, <1>2, <1>3, <1>4, <1>5 DEF Contract!Record, Contract!Advance

\* Two modules, two databases' worth of constraints and any number of racing,
\* repeated and abandoned requests implement the four atomic steps of the
\* contract: what PublicationService and ReviewApplicationService promise.
THEOREM Refinement == Spec => ImplementsContract
<1>1. Init => Contract!Init
  BY DEF Init, Contract!Init, Stage, Unused
<1>2. IInv /\ IInv' /\ [Next]_vars => [Contract!Next]_Contract!vars
  <2> SUFFICES ASSUME IInv, IInv', [Next]_vars PROVE [Contract!Next]_Contract!vars
    OBVIOUS
  <2>1. CASE UNCHANGED stored
    <3>1. \A r \in Reviews : Stage(r)' = Stage(r) /\ review'[r] = review[r]
      BY <2>1 DEF Stage, stored
    <3>2. QED
      BY <3>1 DEF Contract!vars
  <2>2. ASSUME NEW u \in Users, NEW r \in Reviews, SubmitReview(u, r)
        PROVE  Contract!Next
    BY <2>2, SubmitRefines DEF Contract!Next
  <2>3. ASSUME NEW p \in Requests, CommitDecision(p) \/ Stores(p) \/ Records(p)
        PROVE  Contract!Next
    <3>1. req[p].review \in Reviews
      BY <2>3 DEF CommitDecision, Stores, Records, IInv, RequestsInv, RequestInv
    <3>2. QED
      BY <2>3, <3>1, DecideRefines, StoreRefines, RecordRefines DEF Contract!Next
  <2>4. QED
    BY <2>1, <2>2, <2>3, Writes
<1>3. QED
  BY <1>1, <1>2, Inductive, PTL DEF Spec, ImplementsContract, Contract!Spec

=============================================================================
