\* Two members, two Reviews, two concurrent requests, two semantic versions.
CONSTANTS
    None = None
    Users = {ana, bo}
    Reviews = {r1, r2}
    Targets = {v1, v2}
    Requests = {p1, p2}
    MaxRevision = 2
    MaxAssessment = 1
    IndependentReview = TRUE
    WidgetsMayChange = TRUE
SYMMETRY Interchangeable
SPECIFICATION Spec
INVARIANTS VersionsAreApprovedReviews PublicationAgrees RecoveryRecognisesItsOwn
PROPERTIES ImplementsContract
CHECK_DEADLOCK FALSE
