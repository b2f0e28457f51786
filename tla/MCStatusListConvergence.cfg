\* Fair polling: a revocation that failed to publish is shown all the same.
CONSTANTS
    None = None
    Certificates = {c1}
    Lists = {l1}
    Capacity = 1
    Requests = {p1, p2}
SPECIFICATION FairSpec
PROPERTIES RevocationConverges
