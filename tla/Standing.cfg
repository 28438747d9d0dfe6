CONSTANTS
    r1 = r1
    r2 = r2
    r3 = r3
    f1 = f1
    f2 = f2
    s1 = s1
    s2 = s2
    NoOne = NoOne
    Request = {r1, r2, r3}
    Fact = {f1, f2}
    EvidenceOf <- TwoOfThreeFacts
    Handler = {s1, s2}
    Bounds <- ThreeBounds
    MaxClock = 1
    MaxRevision = 2
    MaxReactivations = 1
SYMMETRY ScansAndRequests
SPECIFICATION Spec
INVARIANT TypeOK
INVARIANT NothingRestored
INVARIANT EnvelopeBounds
PROPERTY GrantsInService
PROPERTY DecidedOnce
PROPERTY KeepsLineage
CHECK_DEADLOCK FALSE
