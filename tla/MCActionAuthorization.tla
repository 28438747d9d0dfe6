----------------------- MODULE MCActionAuthorization -----------------------
(* Small instances of ActionAuthorization for TLC. *)
EXTENDS ActionAuthorization, TLC

CONSTANTS a1, bo, r1, r2, r3, d1, d2, s1, k1, h1, h2, de

MCOwner == [a \in Agent |-> bo]
MCKindOf == [r \in Request |-> k1]

Handlers == Permutations(Handler)

\* An agent proposes two acts (r1, r2) for one step of its plan; a human
\* proposes (r3) the act of the first.
TwoOfAgent == [r \in Request |-> IF r = r3 THEN NoOne ELSE a1]
FirstAgain == [r \in Request |-> IF r = r2 THEN d2 ELSE d1]
OnePlanStep == [r \in Request |-> IF r = r3 THEN NoOne ELSE s1]
=============================================================================
