SPECIFICATION FairSpec
CONSTANTS
    a1 = a1
    bo = bo
    r1 = r1
    r2 = r2
    r3 = r3
    d1 = d1
    d2 = d2
    s1 = s1
    k1 = k1
    NoOne = NoOne
    Human = {bo, de}
    Bootstrap = bo
    Agent = {a1}
    Request = {r1, r2}
    Kind = {k1}
    Handler = {h1, h2}
    de = de
    h1 = h1
    h2 = h2
    MaxReactivations = 1
    Owner <- MCOwner
    KindOf <- MCKindOf
    Proposer <- TwoOfAgent
    Digest <- FirstAgain
    PlanStep <- OnePlanStep
PROPERTIES HandlersEnd
