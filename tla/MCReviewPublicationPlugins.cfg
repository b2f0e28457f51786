\* The plugin release a Review pins is withdrawn between storing and recording.
CONSTANTS
    None = None
    Users = {ana}
    Reviews = {r1}
    Targets = {v1}
    Requests = {p1}
    MaxRevision = 1
    MaxAssessment = 1
    IndependentReview = FALSE
    WidgetsMayChange = TRUE
SPECIFICATION Spec
PROPERTIES RecoveryIgnoresPlugins
CHECK_DEADLOCK FALSE
