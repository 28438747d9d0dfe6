SPECIFICATION Spec
CONSTANTS
    a1 = a1
    r1 = r1
    r2 = r2
    r3 = r3
    v1 = v1
    d1 = d1
    h1 = h1
    h2 = h2
    NoOne = NoOne
    Agent = {a1}
    Request = {r1, r2}
    Executor = {h1, h2}
    Stop = {"tenant", "deployment"}
    Perishable <- TargetMayGo
    Crashes = TRUE
    MaxClock = 2
    Proposer <- AgentProposes
    Revision <- FirstPublishes
    Destination <- FirstPublishes
INVARIANTS TypeOK SpendIsRecorded HonestOutcome
PROPERTIES StopsHold KeepsPromise
SYMMETRY Executors
