-------------------------- MODULE MCTenantMembership --------------------------
(* TenantMembership on small instances *)
EXTENDS TenantMembership, TLC

CONSTANTS fo, al, be, p1, p2, i1, i2, h1, h2

Handlers == Permutations(Handler)
Rows == Handlers \cup Permutations(Permit) \cup Permutations(Invitation)
=============================================================================
