CONSTANTS
    r1 = r1
    r2 = r2
    r3 = r3
    f1 = f1
    f2 = f2
    s1 = s1
    s2 = s2
    NoOne = NoOne
    Request = {r1, r2}
    Fact = {f1}
    EvidenceOf <- OneFact
    Handler = {s1}
    Bounds <- OneBound
    MaxClock = 0
    MaxRevision = 3
    MaxReactivations = 0
SPECIFICATION Spec
INVARIANT OneFactOneAct
CHECK_DEADLOCK FALSE
