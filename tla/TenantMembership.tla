--------------------------- MODULE TenantMembership ---------------------------
(***************************************************************************)
(* How humans come to belong to one tenant and stop belonging to it        *)
(* (features/membership-authority, human-onboarding, membership-lifecycle).*)
(* A governance authority permits one human to be onboarded in one band;   *)
(* an invitation spends that permit; the invited human, proving it is      *)
(* they, spends the invitation on a membership; and an authority may end   *)
(* the membership.  Every row is spent by an UPDATE guarded by the status  *)
(* the row must still have, after unlocked reads that chose the refusal.   *)
(***************************************************************************)
EXTENDS FiniteSets

CONSTANTS
    Human,
    Founder,       \* the owner the tenant was provisioned with
    Genesis,       \* the human of the genesis decision, whose authority is "bootstrap"
    Permit,        \* ids of membership_authorizations rows
    Invitation,    \* ids of invitations rows
    Handler,       \* concurrent requests
    NoOne

ASSUME MembershipAssumption ==
    /\ Founder \in Human
    /\ Genesis \in Human
    /\ NoOne \notin Human \cup Permit \cup Invitation

Band == {"owner", "member"}

VARIABLES
    permit,       \* membership_authorizations, by id
    invitation,   \* invitations, by id
    lapsed,       \* invitations whose expires_at has passed
    membership,   \* memberships, by human: one row per human for good
    handler

vars == <<permit, invitation, lapsed, membership, handler>>

PermitRow ==
    [status : {"none", "authorized", "consumed"}, who : Human \cup {NoOne},
     role : Band, via : {"bootstrap", "delegated"}, spentOn : Invitation \cup {NoOne}]
InvitationRow ==
    [status : {"none", "pending", "accepted", "revoked"}, who : Human \cup {NoOne},
     role : Band]
MembershipRow ==
    [status : {"none", "active", "revoked"}, role : Band,
     accepted : Invitation \cup {NoOne}]

Idle == [at |-> "idle", by |-> NoOne, row |-> NoOne, via |-> "delegated", role |-> "member"]

\* A revocation of a membership holds its row once it has "counted" the other
\* owners.
HandlerState ==
    [at : {"idle", "authorizing", "issuing", "accepting", "withdrawing", "revoking",
           "counting", "counted"},
     by : Human \cup {NoOne}, row : Human \cup Permit \cup Invitation \cup {NoOne},
     via : {"bootstrap", "delegated"}, role : Band]

TypeOK ==
    /\ permit \in [Permit -> PermitRow]
    /\ invitation \in [Invitation -> InvitationRow]
    /\ lapsed \subseteq Invitation
    /\ membership \in [Human -> MembershipRow]
    /\ handler \in [Handler -> HandlerState]

Init ==
    /\ permit = [p \in Permit |-> [status |-> "none", who |-> NoOne, role |-> "member",
                                   via |-> "delegated", spentOn |-> NoOne]]
    /\ invitation = [i \in Invitation |-> [status |-> "none", who |-> NoOne,
                                           role |-> "member"]]
    /\ lapsed = {}
    /\ membership = [u \in Human |->
                       [status |-> IF u = Founder THEN "active" ELSE "none",
                        role |-> IF u = Founder THEN "owner" ELSE "member",
                        accepted |-> NoOne]]
    /\ handler = [h \in Handler |-> Idle]

-----------------------------------------------------------------------------
(* What the rows say *)

Active(u) == membership[u].status = "active"
Owner(u) == Active(u) /\ membership[u].role = "owner"

\* membership_authorizations_one_active_per_email_uq
PermitSlotFree(u) == ~\E p \in Permit : permit[p].status = "authorized" /\ permit[p].who = u

\* invitations_pending_email_uq: a lapsed invitation still holds its slot.
InvitationSlotFree(u) ==
    ~\E i \in Invitation : invitation[i].status = "pending" /\ invitation[i].who = u

At(h, at) == handler[h].at = at

\* The caller's authority is resolved here, and in no other step.  Which
\* members hold a delegation is the ledger's affair: anyone may.
Begin(h, at, u, row, via, role) ==
    /\ At(h, "idle")
    /\ Active(u)
    /\ via = "bootstrap" <=> u = Genesis
    /\ handler' = [handler EXCEPT ![h] = [at |-> at, by |-> u, row |-> row, via |-> via,
                                          role |-> role]]
    /\ UNCHANGED <<permit, invitation, lapsed, membership>>

Finish(h) == handler' = [handler EXCEPT ![h] = Idle]

-----------------------------------------------------------------------------
(* Permitting a human in *)

\* Mutant: any authority may permit an owner.
BeginAuthorizationOfAnyBand(h, u, who, via, role) ==
    /\ PermitSlotFree(who)
    /\ Begin(h, "authorizing", u, who, via, role)

\* Only the genesis human may permit an owner.
BeginAuthorization(h, u, who, via, role) ==
    /\ role = "owner" => via = "bootstrap"
    /\ PermitSlotFree(who)
    /\ Begin(h, "authorizing", u, who, via, role)

\* The INSERT, which the unique index refuses while a permit for that human
\* lives.
AuthorizeMembership(h, p) ==
    /\ At(h, "authorizing")
    /\ permit[p].status = "none"
    /\ PermitSlotFree(handler[h].row)
    /\ permit' = [permit EXCEPT ![p] =
                     [status |-> "authorized", who |-> handler[h].row,
                      role |-> handler[h].role, via |-> handler[h].via, spentOn |-> NoOne]]
    /\ Finish(h)
    /\ UNCHANGED <<invitation, lapsed, membership>>

BeginIssuance(h, u, p, via) ==
    /\ permit[p].status = "authorized"
    /\ Begin(h, "issuing", u, p, via, permit[p].role)

\* Mutant: the permit is spent by its id alone.
IssueOnEarlierRead(h, i) ==
    /\ At(h, "issuing")
    /\ LET p == handler[h].row IN
         /\ invitation[i].status = "none"
         /\ InvitationSlotFree(permit[p].who)
         /\ invitation' = [invitation EXCEPT ![i] =
                              [status |-> "pending", who |-> permit[p].who,
                               role |-> permit[p].role]]
         /\ permit' = [permit EXCEPT ![p].status = "consumed", ![p].spentOn = i]
    /\ Finish(h)
    /\ UNCHANGED <<lapsed, membership>>

\* The invitation, and the UPDATE that spends the permit only if it is still
\* live, in one transaction.
IssueInvitation(h, i) ==
    /\ At(h, "issuing")
    /\ LET p == handler[h].row IN
         /\ permit[p].status = "authorized"
         /\ invitation[i].status = "none"
         /\ InvitationSlotFree(permit[p].who)
         /\ invitation' = [invitation EXCEPT ![i] =
                              [status |-> "pending", who |-> permit[p].who,
                               role |-> permit[p].role]]
         /\ permit' = [permit EXCEPT ![p].status = "consumed", ![p].spentOn = i]
    /\ Finish(h)
    /\ UNCHANGED <<lapsed, membership>>

-----------------------------------------------------------------------------
(* Joining *)

\* The reads, against the clock the request began with: the UPDATE compares
\* expires_at with that same instant, so a lapse behind it changes nothing.
BeginAcceptance(h, i) ==
    /\ At(h, "idle")
    /\ invitation[i].status = "pending"
    /\ i \notin lapsed
    /\ membership[invitation[i].who].status = "none"
    /\ \E p \in Permit : permit[p].spentOn = i /\ permit[p].status = "consumed"
    /\ handler' = [handler EXCEPT ![h] =
                      [at |-> "accepting", by |-> invitation[i].who, row |-> i,
                       via |-> "delegated", role |-> invitation[i].role]]
    /\ UNCHANGED <<permit, invitation, lapsed, membership>>

\* Mutant: the invitation is not asked again whether it is pending.
AcceptOnEarlierRead(h) ==
    /\ At(h, "accepting")
    /\ LET i == handler[h].row IN
         /\ membership[handler[h].by].status = "none"
         /\ invitation' = [invitation EXCEPT ![i].status = "accepted"]
         /\ membership' = [membership EXCEPT ![handler[h].by] =
                              [status |-> "active", role |-> handler[h].role, accepted |-> i]]
    /\ Finish(h)
    /\ UNCHANGED <<permit, lapsed>>

\* The guarded UPDATE of the invitation, and the membership row, of which a
\* human has one for good.
AcceptInvitation(h) ==
    /\ At(h, "accepting")
    /\ LET i == handler[h].row IN
         /\ invitation[i].status = "pending"
         /\ membership[handler[h].by].status = "none"
         /\ invitation' = [invitation EXCEPT ![i].status = "accepted"]
         /\ membership' = [membership EXCEPT ![handler[h].by] =
                              [status |-> "active", role |-> handler[h].role, accepted |-> i]]
    /\ Finish(h)
    /\ UNCHANGED <<permit, lapsed>>

BeginWithdrawal(h, u, i, via) ==
    /\ invitation[i].status = "pending"
    /\ Begin(h, "withdrawing", u, i, via, invitation[i].role)

\* Revoking asks nothing of the clock, and leaves the permit consumed.
RevokeInvitation(h) ==
    /\ At(h, "withdrawing")
    /\ LET i == handler[h].row IN
         /\ invitation[i].status = "pending"
         /\ invitation' = [invitation EXCEPT ![i].status = "revoked"]
    /\ Finish(h)
    /\ UNCHANGED <<permit, lapsed, membership>>

-----------------------------------------------------------------------------
(* Ending a membership *)

BeginRevocation(h, u, who, via) == Begin(h, "revoking", u, who, via, membership[who].role)

RowUnlocked(who) ==
    \A g \in Handler : handler[g].at \in {"counting", "counted"} => handler[g].row # who

\* The membership's own row FOR UPDATE ...
LockMembership(h) ==
    /\ At(h, "revoking")
    /\ Active(handler[h].row)
    /\ RowUnlocked(handler[h].row)
    /\ handler' = [handler EXCEPT ![h].at = "counting"]
    /\ UNCHANGED <<permit, invitation, lapsed, membership>>

\* ... and the other owners, whose rows nothing locks.
CountOtherOwners(h) ==
    /\ At(h, "counting")
    /\ Owner(handler[h].row) => \E u \in Human \ {handler[h].row} : Owner(u)
    /\ handler' = [handler EXCEPT ![h].at = "counted"]
    /\ UNCHANGED <<permit, invitation, lapsed, membership>>

RevokeMembership(h) ==
    /\ At(h, "counted")
    /\ Active(handler[h].row)
    /\ membership' = [membership EXCEPT ![handler[h].row].status = "revoked"]
    /\ Finish(h)
    /\ UNCHANGED <<permit, invitation, lapsed>>

\* A refusal, a race lost, a dead process: nothing was committed.
Abort(h) ==
    /\ ~At(h, "idle")
    /\ Finish(h)
    /\ UNCHANGED <<permit, invitation, lapsed, membership>>

\* Mutant: the lapse is written as a status.
LapseAsExpired(i) ==
    /\ invitation[i].status = "pending"
    /\ invitation' = [invitation EXCEPT ![i].status = "expired"]
    /\ UNCHANGED <<permit, lapsed, membership, handler>>

\* expires_at passes; nothing writes it.
Lapse(i) ==
    /\ invitation[i].status = "pending"
    /\ lapsed' = lapsed \cup {i}
    /\ UNCHANGED <<permit, invitation, membership, handler>>

-----------------------------------------------------------------------------

Handle(h) ==
    \/ \E u \in Human, via \in {"bootstrap", "delegated"} :
         \/ \E who \in Human, role \in Band : BeginAuthorization(h, u, who, via, role)
         \/ \E p \in Permit : BeginIssuance(h, u, p, via)
         \/ \E i \in Invitation : BeginWithdrawal(h, u, i, via)
         \/ \E who \in Human : BeginRevocation(h, u, who, via)
    \/ \E p \in Permit : AuthorizeMembership(h, p)
    \/ \E i \in Invitation : BeginAcceptance(h, i) \/ IssueInvitation(h, i)
    \/ AcceptInvitation(h)
    \/ RevokeInvitation(h)
    \/ LockMembership(h)
    \/ CountOtherOwners(h)
    \/ RevokeMembership(h)
    \/ Abort(h)

Next == (\E h \in Handler : Handle(h)) \/ \E i \in Invitation : Lapse(i)

Spec == Init /\ [][Next]_vars

-----------------------------------------------------------------------------
(* Properties *)

\* Whoever belongs to the tenant was let in once, by one chain of rows that
\* agree: the membership names an accepted invitation of that human and band,
\* which exactly one permit, for the same human and band, was spent on; and an
\* owner's permit was the genesis human's to give.
Provenance ==
    \A u \in Human \ {Founder} : membership[u].status # "none" =>
        LET i == membership[u].accepted IN
        /\ i \in Invitation
        /\ invitation[i].status = "accepted"
        /\ invitation[i].who = u /\ invitation[i].role = membership[u].role
        /\ \E p \in Permit :
             /\ permit[p].status = "consumed" /\ permit[p].spentOn = i
             /\ permit[p].who = u /\ permit[p].role = membership[u].role
             /\ permit[p].role = "owner" => permit[p].via = "bootstrap"
             /\ \A q \in Permit : permit[q].spentOn = i => q = p

\* Every invitation is paid for by one permit of its own, and every accepted
\* one made one member: no permit invites twice, no invitation admits twice.
SpentOnce ==
    /\ \A i \in Invitation : invitation[i].status # "none" =>
         \E p \in Permit : permit[p].spentOn = i /\ permit[p].status = "consumed"
    /\ \A i \in Invitation : invitation[i].status = "accepted" =>
         \E u \in Human : membership[u].accepted = i
    /\ \A u, w \in Human : membership[u].accepted = membership[w].accepted
         => u = w \/ membership[u].accepted = NoOne

\* What ended stays ended: a revoked invitation admits nobody, a revoked
\* membership is never active again, and no row changes hands.
EndingsAreFinal ==
    [][/\ \A i \in Invitation : invitation[i].status \in {"accepted", "revoked"} =>
            invitation'[i] = invitation[i]
       /\ \A u \in Human :
            /\ membership[u].status = "revoked" => membership'[u] = membership[u]
            /\ membership[u].status # "none" => membership'[u].role = membership[u].role]_vars

\* What the comment on the count says: two concurrent revocations cannot both
\* remove an owner, so an active owner always remains.
OwnerRemains == \E u \in Human : Owner(u)
=============================================================================
