SPECIFICATION Spec
CONSTANTS
    a1 = a1
    r1 = r1
    r2 = r2
    r3 = r3
    v1 = v1
    d1 = d1
    h1 = h1
    h2 = h2
    NoOne = NoOne
    Agent = {}
    Request = {r1, r2, r3}
    Executor = {h1, h2}
    Crashes = TRUE
    MaxClock = 3
    Stop = {}
    Perishable <- Lasting
    Proposer <- Human
    Revision <- OneRevision
    Destination <- OneDestination
INVARIANTS OneInFlight NoBlindRepublish
SYMMETRY Alike
CHECK_DEADLOCK FALSE
