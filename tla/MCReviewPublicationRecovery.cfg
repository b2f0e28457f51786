\* Fair retries, plugins that stay available: what was stored gets recorded.
CONSTANTS
    None = None
    Users = {ana}
    Reviews = {r1}
    Targets = {v1}
    Requests = {p1, p2}
    MaxRevision = 2
    MaxAssessment = 1
    IndependentReview = FALSE
    WidgetsMayChange = FALSE
SPECIFICATION FairSpec
PROPERTIES RecoveryConverges
CHECK_DEADLOCK FALSE
