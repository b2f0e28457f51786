\* Two requests race on a Draft with two users; clients quote revisions they saw.
CONSTANTS
    Creator = ana
    Users = {ana, bo}
    Requests = {p1, p2}
    Fields = {title, changelog}
    Values = {old, new}
    InitialValue = old
    MaxRevision = 4
    MaxAhead = 0
SYMMETRY Interchangeable
SPECIFICATION Spec
INVARIANTS MaintainerRemains
PROPERTIES NoStaleAuthority ImplementsContract
CHECK_DEADLOCK FALSE
