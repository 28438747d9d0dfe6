------------------------ MODULE MCGovernanceAuthority ------------------------
(* GovernanceAuthority on small instances *)
EXTENDS GovernanceAuthority, TLC

CONSTANTS bo, de, no, h1, h2

Humans == Permutations(Human)
Symmetric == Humans \cup Permutations(Handler)
=============================================================================
