-------------------------- MODULE MCStandingMutation --------------------------
(* StandingMutation on small instances *)
EXTENDS StandingMutation, TLC

CONSTANTS r1, r2, r3, f1, f2, s1, s2

TwoOfThreeFacts == r1 :> f1 @@ r2 :> f2 @@ r3 :> f1
OneFact == r1 :> f1 @@ r2 :> f1

\* Two acts a tick apart; one act, in a window that opens later; one act, in a
\* window that closes at once.
TwoApart == [from |-> 0, until |-> 3, acts |-> 2, every |-> 1]
OneLater == [from |-> 1, until |-> 2, acts |-> 1, every |-> 1]
OneEarly == [from |-> 0, until |-> 1, acts |-> 1, every |-> 1]

ThreeBounds == {TwoApart, OneLater, OneEarly}
OneBound == {TwoApart}

Scans == Permutations({s1, s2})
ScansAndRequests == Scans \cup Permutations({r1, r3})
=============================================================================
