\* Three Lessons, one of which requires the two others.
CONSTANTS
    Absent = Absent
    Modules = {m1}
    Lessons = {l1, l2, l3}
    MaxRevision = 7
SYMMETRY Interchangeable
SPECIFICATION Spec
INVARIANTS PrerequisitesAreReviewable
CHECK_DEADLOCK FALSE
