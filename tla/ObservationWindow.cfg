SPECIFICATION Spec
CONSTANTS
    se = se
    me = me
    du = du
    so = so
    ma = ma
    t1 = t1
    t2 = t2
    w1 = w1
    w2 = w2
    i1 = i1
    i2 = i2
    NoOne = NoOne
    Lineage = {so}
    Kind <- OneScope
    Terms = {t1, t2}
    TermsOf <- TwoForObservation
    Perishable = {t1}
    Writer = {w1}
    MaxRevisions = 2
    Every <- TwoOrThree
    Subject <- Itself
    Invoker = {i1, i2}
    MaxClock = 2
INVARIANT CadenceOfScope
SYMMETRY Invocations
