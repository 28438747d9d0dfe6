-------------------------- MODULE GovernanceAuthority --------------------------
(***************************************************************************)
(* Who may govern one tenant (features/governance-genesis and              *)
(* features/governance-decision).  There is no table of authorities: the   *)
(* ledger of decisions is the only record, and authority is a query over   *)
(* it.  An operator nominates one human, who accepts and then spends the   *)
(* entitlement on the tenant's genesis decision; that human holds          *)
(* authority for good.  Everyone else holds it through a delegation that   *)
(* no later decision revokes.                                              *)
(*                                                                         *)
(* Delegations and revocations take the row of the genesis decision FOR    *)
(* UPDATE and resolve authority again behind it.  Genesis itself has no    *)
(* row to lock, and an ordinary decision resolves authority before its     *)
(* transaction and takes no lock.                                          *)
(***************************************************************************)
EXTENDS Naturals, Sequences

CONSTANTS
    Human,          \* humans of the tenant, past and present
    Handler,        \* concurrent requests
    NoOne,
    MaxDecisions    \* bound on the length of the ledger

ASSUME GovernanceAssumption ==
    /\ NoOne \notin Human
    /\ MaxDecisions \in Nat

VARIABLES
    member,       \* humans with an active membership and an active identity
    nomination,   \* the tenant's one genesis nomination
    decisions,    \* decision_records, in the order they commit
    handler       \* what each request is doing, as whom, to whom, to which row

vars == <<member, nomination, decisions, handler>>

Decision ==
    [kind : {"genesis", "delegate", "revoke", "ordinary"}, by : Human,
     to : Human \cup {NoOne}, of : Nat]

Idle == [at |-> "idle", by |-> NoOne, to |-> NoOne, of |-> 0]

\* Authority acts are "delegating" or "revoking", hold the tenant's lock once
\* "granting" or "ending", and have passed their checks once "granted" or
\* "ended".
HandlerState ==
    [at : {"idle", "accepting", "establishing", "deciding", "delegating",
           "granting", "granted", "revoking", "ending", "ended"},
     by : Human \cup {NoOne}, to : Human \cup {NoOne}, of : Nat]

TypeOK ==
    /\ member \subseteq Human
    /\ nomination \in [state : {"none", "pending", "accepted"},
                       who : Human \cup {NoOne}, consumedBy : Nat]
    /\ decisions \in Seq(Decision)
    /\ handler \in [Handler -> HandlerState]

Init ==
    /\ member = Human
    /\ nomination = [state |-> "none", who |-> NoOne, consumedBy |-> 0]
    /\ decisions = <<>>
    /\ handler = [h \in Handler |-> Idle]

-----------------------------------------------------------------------------
(* What the ledger d says *)

Rows(d, kind) == {i \in DOMAIN d : d[i].kind = kind}

Genesis(d, u) == \E g \in Rows(d, "genesis") : d[g].by = u

\* Mutant: a delegation lasts no longer than its grantor's authority.
DelegationsOfAuthorities(d) ==
    LET kept == {i \in Rows(d, "delegate") : \A r \in Rows(d, "revoke") : d[r].of # i}
    IN  {i \in kept : Genesis(d, d[i].by) \/ \E j \in kept : d[j].to = d[i].by}

\* The `not exists` of every reader: a delegation no revocation names.
ActiveDelegations(d) ==
    {i \in Rows(d, "delegate") : \A r \in Rows(d, "revoke") : d[r].of # i}

HoldsDelegation(d, u) == \E i \in ActiveDelegations(d) : d[i].to = u

Authorized(d, u) == Genesis(d, u) \/ HoldsDelegation(d, u)

-----------------------------------------------------------------------------
(* Requests *)

At(h, at) == handler[h].at = at

Locked == {"granting", "granted", "ending", "ended"}

\* Mutant: the genesis row is read without FOR UPDATE.
TenantNeverLocked == TRUE

TenantUnlocked == \A g \in Handler : handler[g].at \notin Locked

Begin(h, at, u, to, of) ==
    /\ At(h, "idle")
    /\ u \in member
    /\ handler' = [handler EXCEPT ![h] = [at |-> at, by |-> u, to |-> to, of |-> of]]
    /\ UNCHANGED <<member, nomination, decisions>>

Advance(h, at) ==
    /\ handler' = [handler EXCEPT ![h] =
                      [at |-> at, by |-> @.by, to |-> @.to, of |-> @.of]]
    /\ UNCHANGED <<member, nomination, decisions>>

Commit(h, kind, to, of) ==
    /\ Len(decisions) < MaxDecisions
    /\ decisions' = Append(decisions, [kind |-> kind, by |-> handler[h].by,
                                       to |-> to, of |-> of])
    /\ handler' = [handler EXCEPT ![h] = Idle]

-----------------------------------------------------------------------------
(* The genesis ceremony *)

\* The operator's script: one nomination that is not revoked per tenant, and
\* nothing revokes one.
NominateGenesisHuman(u) ==
    /\ u \in member
    /\ nomination.state = "none"
    /\ nomination' = [state |-> "pending", who |-> u, consumedBy |-> 0]
    /\ UNCHANGED <<member, decisions, handler>>

BeginAcceptance(h, u) ==
    /\ nomination.state = "pending"
    /\ nomination.who = u
    /\ Begin(h, "accepting", u, NoOne, 0)

\* Mutant: acceptance writes the word of a spent entitlement.
AcceptAsConsumed(h) ==
    /\ At(h, "accepting")
    /\ nomination.state = "pending"
    /\ nomination' = [nomination EXCEPT !.state = "consumed"]
    /\ handler' = [handler EXCEPT ![h] = Idle]
    /\ UNCHANGED <<member, decisions>>

\* UPDATE ... WHERE status = 'pending' and the nominee is the caller.
AcceptGenesisNomination(h) ==
    /\ At(h, "accepting")
    /\ nomination.state = "pending"
    /\ nomination.who = handler[h].by
    /\ nomination' = [nomination EXCEPT !.state = "accepted"]
    /\ handler' = [handler EXCEPT ![h] = Idle]
    /\ UNCHANGED <<member, decisions>>

\* The reads that choose the refusal.
BeginEstablishment(h, u) ==
    /\ nomination.state = "accepted"
    /\ nomination.who = u
    /\ nomination.consumedBy = 0
    /\ Rows(decisions, "genesis") = {}
    /\ Begin(h, "establishing", u, NoOne, 0)

\* Mutant: what was read before the transaction is not asked again.
EstablishOnEarlierRead(h) ==
    /\ At(h, "establishing")
    /\ Commit(h, "genesis", NoOne, 0)
    /\ nomination' = [nomination EXCEPT !.consumedBy = Len(decisions) + 1]
    /\ UNCHANGED member

\* The INSERT under the unique index of genesis rows, and the UPDATE that
\* spends the entitlement only if nobody has, in one transaction.
EstablishGovernanceAuthority(h) ==
    /\ At(h, "establishing")
    /\ Rows(decisions, "genesis") = {}
    /\ nomination.state = "accepted"
    /\ nomination.consumedBy = 0
    /\ Commit(h, "genesis", NoOne, 0)
    /\ nomination' = [nomination EXCEPT !.consumedBy = Len(decisions) + 1]
    /\ UNCHANGED member

-----------------------------------------------------------------------------
(* Delegation and revocation *)

BeginDelegation(h, u, to) ==
    /\ to # u
    /\ Begin(h, "delegating", u, to, 0)

BeginRevocation(h, u, of) == Begin(h, "revoking", u, NoOne, of)

LockedAs(at) == IF at = "delegating" THEN "granting" ELSE "ending"

\* The genesis row FOR UPDATE, and the caller's authority behind it.
LockTenantGovernance(h) ==
    /\ handler[h].at \in {"delegating", "revoking"}
    /\ Rows(decisions, "genesis") # {}
    /\ TenantUnlocked
    /\ Authorized(decisions, handler[h].by)
    /\ Advance(h, LockedAs(handler[h].at))

\* Mutant: whether the receiving human already governs is not asked.
CheckDelegationOfAnyMember(h) ==
    /\ At(h, "granting")
    /\ handler[h].to \in member
    /\ Advance(h, "granted")

\* The receiving human is an active member, not the genesis human, and holds
\* no delegation yet.
CheckDelegation(h) ==
    /\ At(h, "granting")
    /\ handler[h].to \in member
    /\ ~Authorized(decisions, handler[h].to)
    /\ Advance(h, "granted")

DelegateGovernanceAuthority(h) ==
    /\ At(h, "granted")
    /\ Commit(h, "delegate", handler[h].to, 0)
    /\ UNCHANGED <<member, nomination>>

\* Mutant: any authority may revoke any delegation.
CheckRevocationByAnyone(h) ==
    /\ At(h, "ending")
    /\ handler[h].of \in ActiveDelegations(decisions)
    /\ Advance(h, "ended")

\* The row is a delegation no one revoked, and the caller is the genesis human
\* or granted it (A1-c).
CheckRevocation(h) ==
    /\ At(h, "ending")
    /\ handler[h].of \in ActiveDelegations(decisions)
    /\ \/ Genesis(decisions, handler[h].by)
       \/ decisions[handler[h].of].by = handler[h].by
    /\ Advance(h, "ended")

RevokeGovernanceAuthority(h) ==
    /\ At(h, "ended")
    /\ Commit(h, "revoke", NoOne, handler[h].of)
    /\ UNCHANGED <<member, nomination>>

-----------------------------------------------------------------------------
(* Ordinary decisions *)

\* Mutant: any member decides.
BeginDecisionOfAnyMember(h, u) == Begin(h, "deciding", u, NoOne, 0)

\* Authority is resolved here, before the transaction.
BeginDecision(h, u) ==
    /\ Authorized(decisions, u)
    /\ Begin(h, "deciding", u, NoOne, 0)

RecordGovernanceDecision(h) ==
    /\ At(h, "deciding")
    /\ Commit(h, "ordinary", NoOne, 0)
    /\ UNCHANGED <<member, nomination>>

\* A check that fails, a write that throws, a dead process: nothing commits
\* and the lock is released.
Abort(h) ==
    /\ ~At(h, "idle")
    /\ handler' = [handler EXCEPT ![h] = Idle]
    /\ UNCHANGED <<member, nomination, decisions>>

\* A membership ends without asking the ledger, and never comes back.
RevokeMembership(u) ==
    /\ member' = member \ {u}
    /\ UNCHANGED <<nomination, decisions, handler>>

-----------------------------------------------------------------------------

Handle(h) ==
    \/ \E u \in Human :
         \/ BeginAcceptance(h, u)
         \/ BeginEstablishment(h, u)
         \/ \E to \in Human : BeginDelegation(h, u, to)
         \/ \E of \in DOMAIN decisions : BeginRevocation(h, u, of)
         \/ BeginDecision(h, u)
    \/ AcceptGenesisNomination(h)
    \/ EstablishGovernanceAuthority(h)
    \/ LockTenantGovernance(h)
    \/ CheckDelegation(h)
    \/ DelegateGovernanceAuthority(h)
    \/ CheckRevocation(h)
    \/ RevokeGovernanceAuthority(h)
    \/ RecordGovernanceDecision(h)
    \/ Abort(h)

Environment == \E u \in Human : NominateGenesisHuman(u) \/ RevokeMembership(u)

Next == Environment \/ \E h \in Handler : Handle(h)

Spec == Init /\ [][Next]_vars

-----------------------------------------------------------------------------
(* Properties *)

\* Two sessions may race to found the tenant: there is never more than one
\* genesis decision, it is the nominee's, and it and the spent entitlement
\* name each other.
OneGenesis ==
    /\ \A g \in Rows(decisions, "genesis") :
         g = nomination.consumedBy /\ decisions[g].by = nomination.who
    /\ nomination.consumedBy # 0 =>
         /\ nomination.consumedBy \in Rows(decisions, "genesis")
         /\ nomination.state = "accepted"

Justified(past, d) ==
    /\ d.kind \in {"delegate", "revoke"} => Authorized(past, d.by)
    /\ d.kind = "delegate" => ~Authorized(past, d.to)
    /\ d.kind = "revoke" =>
         /\ d.of \in ActiveDelegations(past)
         /\ Genesis(past, d.by) \/ past[d.of].by = d.by

\* The ledger alone justifies itself: every delegation and every revocation in
\* it was made by a human whom the decisions before it authorized, on a
\* delegation still active then, and no delegate ended a peer's grant.
LedgerJustified ==
    \A i \in DOMAIN decisions : Justified(SubSeq(decisions, 1, i - 1), decisions[i])

\* Authority moves one human at a time: a delegation adds exactly its grantee,
\* a revocation takes it from exactly the human it was delegated to, at once,
\* and nothing else in the system moves it.
AuthorityMovesAsDecided ==
    [][LET before == {u \in Human : Authorized(decisions, u)}
           after == {u \in Human : Authorized(decisions', u)}
           d == decisions'[Len(decisions')]
       IN  after # before =>
             \/ d.kind = "genesis" /\ before = {} /\ after = {d.by}
             \/ d.kind = "delegate" /\ d.to \notin before
                  /\ after = before \cup {d.to}
             \/ d.kind = "revoke" /\ decisions[d.of].to \in before
                  /\ after = before \ {decisions[d.of].to}]_vars

\* Every revocation does end an authority: none is a second word on the same
\* delegation, or on a human who keeps another.
RevocationsEndAuthority ==
    [][\A i \in Rows(decisions', "revoke") \ DOMAIN decisions :
           ~Authorized(decisions', decisions[decisions'[i].of].to)]_vars

\* Nobody decides on the strength of an authority they never held: an ordinary
\* decision, whatever committed since its caller was resolved, is by a human
\* whom the decisions before it authorized at some moment.
DecidersHeldAuthority ==
    \A i \in Rows(decisions, "ordinary") : \E k \in 0 .. i - 1 :
        Authorized(SubSeq(decisions, 1, k), decisions[i].by)

\* The register of authorities that a ledger d amounts to.
Founder(d) ==
    LET genesis == Rows(d, "genesis") IN
    IF genesis = {} THEN NoOne ELSE d[CHOOSE g \in genesis : TRUE].by

Grantor(d) ==
    LET active == ActiveDelegations(d) IN
    [u \in Human |->
        IF \E i \in active : d[i].to = u
        THEN d[CHOOSE i \in active : d[i].to = u].by
        ELSE NoOne]

Register ==
    INSTANCE AuthorityRegister WITH founder <- Founder(decisions), grantor <- Grantor(decisions)

\* The ledger implements the register that no table keeps: whoever governs
\* holds it of one human's act, a delegate's act ends only their own grants,
\* the founder's place is never touched, and no request changes it otherwise.
KeepsRegister == Register!Spec

\* What the resolver's comment says of every decision: a revoked delegation
\* cannot be raced past, so each was made by a human authorized when it
\* committed.
DecisionsByAuthority ==
    [][\A i \in Rows(decisions', "ordinary") \ DOMAIN decisions :
           Authorized(decisions, decisions'[i].by)]_vars
=============================================================================
