\* Two Modules and three Lessons, eight writes from an empty outline.
CONSTANTS
    Absent = Absent
    Modules = {m1, m2}
    Lessons = {l1, l2, l3}
    MaxRevision = 9
SYMMETRY Interchangeable
SPECIFICATION Spec
INVARIANTS OutlineHasNoGaps NothingDangles
PROPERTIES ChangesAreVisible
CHECK_DEADLOCK FALSE
