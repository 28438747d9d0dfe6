SPECIFICATION Spec
CONSTANTS
    bo = bo
    de = de
    no = no
    h1 = h1
    h2 = h2
    NoOne = NoOne
    Human = {bo, de, no}
    Handler = {h1, h2}
    MaxDecisions = 4
INVARIANTS TypeOK OneGenesis LedgerJustified DecidersHeldAuthority
PROPERTIES AuthorityMovesAsDecided RevocationsEndAuthority KeepsRegister
SYMMETRY Symmetric
