SPECIFICATION Spec
CONSTANTS
    fo = fo
    al = al
    be = be
    p1 = p1
    p2 = p2
    i1 = i1
    i2 = i2
    h1 = h1
    h2 = h2
    NoOne = NoOne
    Human = {fo, al}
    Founder = fo
    Genesis = fo
    Permit = {p1, p2}
    Invitation = {i1, i2}
    Handler = {h1, h2}
INVARIANTS OwnerRemains
SYMMETRY Rows
\* When every id is used and every member gone, nothing more can happen.
CHECK_DEADLOCK FALSE
