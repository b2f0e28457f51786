\* Three certificates, lists of two positions, two concurrent requests.
CONSTANTS
    None = None
    Certificates = {c1, c2, c3}
    Lists = {l1, l2}
    Capacity = 2
    Requests = {p1, p2}
SYMMETRY Interchangeable
SPECIFICATION Spec
INVARIANTS AllocationIsExact CurrentSnapshotIsTrue NoStaleStatus BadgesAgree
PROPERTIES ImplementsContract
