------------------------- MODULE ActionAuthorization -------------------------
(***************************************************************************)
(* The authority half of a governed act, in one tenant                     *)
(* (features/action-authorization and features/agent-identity):            *)
(*                                                                         *)
(*   a human or a durable agent files a request; a Governance authority    *)
(*   approves it, which mints one permit, or rejects it; the permit is     *)
(*   spent once, by a human or by a machine, or revoked, or it expires;    *)
(*   the agent that proposed may be suspended, reactivated or retired at   *)
(*   any moment in between.                                                *)
(*                                                                         *)
(* Every server action runs as a handler: it reads outside its             *)
(* transaction, then opens one.  A handler is cut where another one can    *)
(* interleave, which is between those reads and the transaction, and       *)
(* inside a transaction at each row lock it waits for.  The row locks are  *)
(* not variables: they are what the running transactions hold.             *)
(***************************************************************************)
EXTENDS Naturals, FiniteSets

CONSTANTS
    Human,             \* members of the tenant that may call a handler
    Bootstrap,         \* the human named by the tenant's bootstrap decision
    Agent,             \* durable agent identities
    Owner,             \* the human owner of each agent
    Request,           \* rows heby_action_requests may come to hold
    Proposer,          \* who proposes each request: an agent, or NoOne (a human)
    Digest,            \* the payload digest of each request
    PlanStep,          \* the plan step each request follows up, or NoOne
    Kind,              \* action kinds
    KindOf,            \* the kind of each request
    Handler,           \* concurrent invocations of the server's actions
    NoOne,
    MaxReactivations   \* bound on how often an agent is put back in service

ASSUME AuthorizationAssumption ==
    /\ Bootstrap \in Human
    /\ Owner \in [Agent -> Human]
    /\ Proposer \in [Request -> Agent \cup {NoOne}]
    /\ \A r \in Request : Proposer[r] = NoOne => PlanStep[r] = NoOne
    /\ KindOf \in [Request -> Kind]
    /\ NoOne \notin Agent \cup Request
    /\ MaxReactivations \in Nat

VARIABLES
    request,     \* status of each request row, "absent" before it is filed
    permit,      \* status of the permit minted for a request, "none" before
    expired,     \* permits whose expires_at has passed on the database clock
    authority,   \* humans resolveGovernanceAuthority now answers for
    service,     \* service status of each agent
    mandate,     \* kinds the effective mandate of each agent admits
    handler,     \* what each handler is doing
    era,         \* history: how many times each agent has been reactivated
    issuedIn,    \* history: its agent's era when a permit was issued
    spentIn      \* history: its agent's era when a permit was spent

rows == <<request, permit, expired>>
agents == <<service, mandate>>
history == <<era, issuedIn, spentIn>>
vars == <<request, permit, expired, authority, service, mandate, handler,
          era, issuedIn, spentIn>>

Lifecycle == {"suspend", "reactivate", "retire"}
Decision == {"approve", "reject"}
Operation == {"propose", "revoke", "spend"} \cup Decision \cup Lifecycle

(***************************************************************************)
(* at: "idle"; "begun" - the reads outside the transaction are done;       *)
(* "spending" - the spend UPDATE ran, its permit row is locked;            *)
(* "checked" - and the agent row is held FOR SHARE; "locked" - a           *)
(* lifecycle transition holds the agent row FOR UPDATE.  asof is the set   *)
(* of permits that had expired when the handler began.                     *)
(* Whose call it is has no field: a handler asks for the caller's          *)
(* authority in its first step, and afterwards only writes the caller down.*)
(***************************************************************************)
Idle == [op |-> "none", at |-> "idle", req |-> NoOne, agent |-> NoOne, asof |-> {}]

HandlerState ==
    [op : Operation \cup {"none"},
     at : {"idle", "begun", "spending", "checked", "locked"},
     req : Request \cup {NoOne}, agent : Agent \cup {NoOne}, asof : SUBSET Request]

TypeOK ==
    /\ request \in [Request -> {"absent", "pending", "approved", "rejected"}]
    /\ permit \in [Request -> {"none", "active", "consumed", "revoked"}]
    /\ expired \subseteq Request
    /\ authority \subseteq Human
    /\ service \in [Agent -> {"in-service", "suspended", "retired"}]
    /\ mandate \in [Agent -> SUBSET Kind]
    /\ handler \in [Handler -> HandlerState]
    /\ era \in [Agent -> Nat]
    /\ issuedIn \in [Request -> Nat]
    /\ spentIn \in [Request -> Nat]

Init ==
    /\ request = [r \in Request |-> "absent"]
    /\ permit = [r \in Request |-> "none"]
    /\ expired = {}
    /\ authority = {Bootstrap}
    /\ service = [a \in Agent |-> "in-service"]
    /\ mandate = [a \in Agent |-> Kind]
    /\ handler = [h \in Handler |-> Idle]
    /\ era = [a \in Agent |-> 0]
    /\ issuedIn = [r \in Request |-> 0]
    /\ spentIn = [r \in Request |-> 0]

-----------------------------------------------------------------------------
(* What the rows and the running transactions say *)

ProposedByAgent(r) == Proposer[r] \in Agent

\* isAgentInService, asked of the proposer; a human-proposed request has no
\* agent to ask.
ProposerInService(r) ==
    ProposedByAgent(r) => service[Proposer[r]] = "in-service"

\* refuseOutsideAgentMandate: an absent or withdrawn mandate admits nothing.
WithinMandate(r) == ProposedByAgent(r) => KindOf[r] \in mandate[Proposer[r]]

EraOf(r) == IF ProposedByAgent(r) THEN era[Proposer[r]] ELSE 0

Spendable(r) == permit[r] = "active" /\ r \notin expired

\* Mutant: the comparison with now() is the wrong way round.
LapsedPermits(a, asof) ==
    {r \in Request : Proposer[r] = a /\ permit[r] = "active" /\ r \in asof}

\* countUsableAgentPermitsWithin, at a transaction whose now() saw asof expired
UsablePermits(a, asof) ==
    {r \in Request : Proposer[r] = a /\ permit[r] = "active" /\ r \notin asof}

\* Mutant: the index covers the rows of one proposer only.
DigestFreePerProposer(r) ==
    \A q \in Request : Digest[q] = Digest[r] /\ Proposer[q] = Proposer[r] => request[q] # "pending"

\* heby_action_requests_one_pending_per_digest_uq
DigestFree(r) ==
    \A q \in Request : Digest[q] = Digest[r] => request[q] # "pending"

\* Mutant: the index forgets that an approved request still holds its step.
PlanStepFreeOncePending(r) ==
    \A q \in Request : PlanStep[r] # NoOne /\ PlanStep[q] = PlanStep[r] => request[q] # "pending"

\* heby_action_requests_open_plan_step_uq
PlanStepFree(r) ==
    \A q \in Request : PlanStep[r] # NoOne /\ PlanStep[q] = PlanStep[r]
                         => request[q] \notin {"pending", "approved"}

Running(h, op, at) == handler[h].op = op /\ handler[h].at = at

\* Mutant: another writer does not wait for the permit row.
PermitFreeWhileSpending(r) ==
    \E h \in Handler : handler[h].req = r /\ handler[h].at = "checked"

\* The permit row is locked by a spend that has run its UPDATE.
PermitLocked(r) ==
    \E h \in Handler : handler[h].req = r /\ handler[h].at \in {"spending", "checked"}

\* Mutant: the spend reads liveness without holding the agent row.
AgentSharedByNobody(a) == \E h \in Handler : handler[h].agent = a /\ handler[h].at = "idle"

\* The agent row is held FOR SHARE by a spend, FOR UPDATE by a transition.
AgentShared(a) == \E h \in Handler : handler[h].agent = a /\ handler[h].at = "checked"
AgentLocked(a) == \E h \in Handler : handler[h].agent = a /\ handler[h].at = "locked"

Begin(h, op, at, r, a, asof) ==
    /\ handler[h].at = "idle"
    /\ handler' = [handler EXCEPT ![h] =
                     [op |-> op, at |-> at, req |-> r, agent |-> a, asof |-> asof]]

Advance(h, at) == handler' = [handler EXCEPT ![h].at = at]

Finish(h) == handler' = [handler EXCEPT ![h] = Idle]

-----------------------------------------------------------------------------
(* Filing a request *)

\* recordActionRequest: the pre-check and the insert are one step, because
\* the unique index, not the pre-check, is what decides between two writers.
RecordActionRequest(r) ==
    /\ ~ProposedByAgent(r)
    /\ request[r] = "absent"
    /\ DigestFree(r)
    /\ request' = [request EXCEPT ![r] = "pending"]
    /\ UNCHANGED <<permit, expired, authority, agents, handler, history>>

\* recordAgentOriginatedActionRequest, first half: the proposer is resolved
\* in service and its mandate read, before and outside the insert.
AdmitAgentProposal(h, r) ==
    /\ ProposedByAgent(r)
    /\ request[r] = "absent"
    /\ ProposerInService(r)
    /\ WithinMandate(r)
    /\ Begin(h, "propose", "begun", r, Proposer[r], {})
    /\ UNCHANGED <<rows, authority, agents, history>>

\* insertActionRequest under the two unique indexes.
RecordAgentOriginatedActionRequest(h) ==
    /\ Running(h, "propose", "begun")
    /\ LET r == handler[h].req IN
         /\ request[r] = "absent"
         /\ DigestFree(r)
         /\ PlanStepFree(r)
         /\ request' = [request EXCEPT ![r] = "pending"]
    /\ Finish(h)
    /\ UNCHANGED <<permit, expired, authority, agents, history>>

-----------------------------------------------------------------------------
(* Deciding *)

\* approveActionRequest and rejectActionRequest: authority resolved and the
\* request read pending, both outside the transaction.
BeginDecision(h, op, who, r) ==
    /\ who \in authority
    /\ request[r] = "pending"
    /\ Begin(h, op, "begun", r, Proposer[r], {})
    /\ UNCHANGED <<rows, authority, agents, history>>

\* Mutant: the approval's UPDATE matches a request by its id alone.
ApproveDecidedRequest(h) ==
    /\ Running(h, "approve", "begun")
    /\ LET r == handler[h].req IN
         /\ ~AgentLocked(Proposer[r])
         /\ ProposerInService(r)
         /\ request' = [request EXCEPT ![r] = "approved"]
         /\ permit' = [permit EXCEPT ![r] = "active"]
         /\ issuedIn' = [issuedIn EXCEPT ![r] = EraOf(r)]
    /\ Finish(h)
    /\ UNCHANGED <<expired, authority, agents, era, spentIn>>

\* The approval transaction: the agent row FOR SHARE must be in service, the
\* UPDATE matches only a pending row, and the permit is inserted with it.
ApproveActionRequest(h) ==
    /\ Running(h, "approve", "begun")
    /\ LET r == handler[h].req IN
         /\ ~AgentLocked(Proposer[r])
         /\ ProposerInService(r)
         /\ request[r] = "pending"
         /\ request' = [request EXCEPT ![r] = "approved"]
         /\ permit' = [permit EXCEPT ![r] = "active"]
         /\ issuedIn' = [issuedIn EXCEPT ![r] = EraOf(r)]
    /\ Finish(h)
    /\ UNCHANGED <<expired, authority, agents, era, spentIn>>

\* Mutant: the rejection writes the status of a permit.
RejectAsRevoked(h) ==
    /\ Running(h, "reject", "begun")
    /\ request[handler[h].req] = "pending"
    /\ request' = [request EXCEPT ![handler[h].req] = "revoked"]
    /\ Finish(h)
    /\ UNCHANGED <<permit, expired, authority, agents, history>>

\* A rejection asks nothing of the agent and frees the digest and the step.
RejectActionRequest(h) ==
    /\ Running(h, "reject", "begun")
    /\ LET r == handler[h].req IN
         /\ request[r] = "pending"
         /\ request' = [request EXCEPT ![r] = "rejected"]
    /\ Finish(h)
    /\ UNCHANGED <<permit, expired, authority, agents, history>>

-----------------------------------------------------------------------------
(* Ending or spending a permit *)

\* revokeActionPermit: an expired permit that is still active may be revoked.
BeginRevocation(h, who, r) ==
    /\ who \in authority
    /\ permit[r] = "active"
    /\ Begin(h, "revoke", "begun", r, NoOne, {})
    /\ UNCHANGED <<rows, authority, agents, history>>

RevokeActionPermit(h) ==
    /\ Running(h, "revoke", "begun")
    /\ LET r == handler[h].req IN
         /\ ~PermitLocked(r)
         /\ permit[r] = "active"
         /\ permit' = [permit EXCEPT ![r] = "revoked"]
    /\ Finish(h)
    /\ UNCHANGED <<request, expired, authority, agents, history>>

\* Door one: a Governance authority, resolved before the spend transaction.
ConsumeActionPermit(h, who, r) ==
    /\ who \in authority
    /\ permit[r] # "none"
    /\ Begin(h, "spend", "begun", r, Proposer[r], expired \cap {r})
    /\ UNCHANGED <<rows, authority, agents, history>>

\* Door two: a principal minted from an active permit an agent proposed.
ConsumeActionPermitAsMachine(h, r) ==
    /\ ProposedByAgent(r)
    /\ permit[r] = "active"
    /\ Begin(h, "spend", "begun", r, Proposer[r], expired \cap {r})
    /\ UNCHANGED <<rows, authority, agents, history>>

\* spendPermit, first statement: the UPDATE that must match one active,
\* unexpired row; the row stays locked.  now() is the start of the
\* transaction, anywhere between the handler's beginning and this step, so a
\* permit that expired in between may be matched or refused.
SpendPermit(h) ==
    /\ Running(h, "spend", "begun")
    /\ LET r == handler[h].req IN
         /\ ~PermitLocked(r)
         /\ permit[r] = "active"
         /\ r \notin handler[h].asof
    /\ Advance(h, "spending")
    /\ UNCHANGED <<rows, authority, agents, history>>

\* The continuing-authority check: the agent row FOR SHARE, then its mandate.
\* A human-proposed act has no agent row to hold and takes no lock.
CheckContinuingAuthority(h) ==
    /\ Running(h, "spend", "spending")
    /\ LET r == handler[h].req IN
         /\ ~AgentLocked(Proposer[r])
         /\ ProposerInService(r)
         /\ WithinMandate(r)
    /\ Advance(h, "checked")
    /\ UNCHANGED <<rows, authority, agents, history>>

CommitSpend(h) ==
    /\ Running(h, "spend", "checked")
    /\ LET r == handler[h].req IN
         /\ permit' = [permit EXCEPT ![r] = "consumed"]
         /\ spentIn' = [spentIn EXCEPT ![r] = EraOf(r)]
    /\ Finish(h)
    /\ UNCHANGED <<request, expired, authority, agents, era, issuedIn>>

-----------------------------------------------------------------------------
(* The agent's lifecycle *)

\* The agent row FOR UPDATE, then the two gates: owner and authority.
LockAgent(h, op, who, a) ==
    /\ ~AgentLocked(a)
    /\ ~AgentShared(a)
    /\ who = Owner[a]
    /\ who \in authority
    /\ Begin(h, op, "locked", NoOne, a, expired)
    /\ UNCHANGED <<rows, authority, agents, history>>

SuspendDurableAgentIdentity(h) ==
    /\ Running(h, "suspend", "locked")
    /\ service[handler[h].agent] = "in-service"
    /\ service' = [service EXCEPT ![handler[h].agent] = "suspended"]
    /\ Finish(h)
    /\ UNCHANGED <<rows, authority, mandate, history>>

\* Mutant: the count of usable permits waits for their rows' locks, so a spend
\* and a reactivation wait for each other.
ReactivateBehindSpends(h) ==
    /\ Running(h, "reactivate", "locked")
    /\ LET a == handler[h].agent IN
         /\ \A r \in Request : Proposer[r] = a => ~PermitLocked(r)
         /\ service[a] = "suspended"
         /\ UsablePermits(a, handler[h].asof) = {}
         /\ era[a] < MaxReactivations
         /\ service' = [service EXCEPT ![a] = "in-service"]
         /\ era' = [era EXCEPT ![a] = @ + 1]
    /\ Finish(h)
    /\ UNCHANGED <<rows, authority, mandate, issuedIn, spentIn>>

\* Refused while the agent holds a permit that could still be spent.
ReactivateDurableAgentIdentity(h) ==
    /\ Running(h, "reactivate", "locked")
    /\ LET a == handler[h].agent IN
         /\ service[a] = "suspended"
         /\ UsablePermits(a, handler[h].asof) = {}
         /\ era[a] < MaxReactivations
         /\ service' = [service EXCEPT ![a] = "in-service"]
         /\ era' = [era EXCEPT ![a] = @ + 1]
    /\ Finish(h)
    /\ UNCHANGED <<rows, authority, mandate, issuedIn, spentIn>>

RetireDurableAgentIdentity(h) ==
    /\ Running(h, "retire", "locked")
    /\ service[handler[h].agent] # "retired"
    /\ service' = [service EXCEPT ![handler[h].agent] = "retired"]
    /\ Finish(h)
    /\ UNCHANGED <<rows, authority, mandate, history>>

-----------------------------------------------------------------------------
(* Refusals, crashes, and what else moves *)

\* The guard a handler meets at its next step does not hold: it writes
\* nothing, its transaction rolls back and its locks go.
Refused(h) ==
    LET s == handler[h] IN
    \/ /\ s.op = "propose"
       /\ ~(request[s.req] = "absent" /\ DigestFree(s.req) /\ PlanStepFree(s.req))
    \/ /\ s.op \in Decision
       /\ request[s.req] # "pending"
    \/ /\ s.op = "approve"
       /\ ~AgentLocked(s.agent)
       /\ ~ProposerInService(s.req)
    \/ /\ s.op = "revoke"
       /\ ~PermitLocked(s.req)
       /\ permit[s.req] # "active"
    \/ /\ Running(h, "spend", "begun")
       /\ ~PermitLocked(s.req)
       /\ ~Spendable(s.req)
    \/ /\ Running(h, "spend", "spending")
       /\ ~AgentLocked(s.agent)
       /\ ~(ProposerInService(s.req) /\ WithinMandate(s.req))
    \/ /\ s.op = "suspend"
       /\ service[s.agent] # "in-service"
    \/ /\ s.op = "reactivate"
       /\ \/ service[s.agent] # "suspended"
          \/ UsablePermits(s.agent, s.asof) # {}
          \/ era[s.agent] = MaxReactivations
    \/ /\ s.op = "retire"
       /\ service[s.agent] = "retired"

Refuse(h) ==
    /\ Refused(h)
    /\ Finish(h)
    /\ UNCHANGED <<rows, authority, agents, history>>

\* The process dies, or a write inside the transaction throws (the audit
\* event, the handoff callback): nothing was committed.
Abort(h) ==
    /\ handler[h].at # "idle"
    /\ Finish(h)
    /\ UNCHANGED <<rows, authority, agents, history>>

\* delegateGovernanceAuthority and revokeGovernanceAuthority, as this
\* component sees them.  The bootstrap human's authority is not revocable.
MoveAuthority(who) ==
    /\ who # Bootstrap
    /\ authority' = IF who \in authority THEN authority \ {who}
                                         ELSE authority \cup {who}
    /\ UNCHANGED <<rows, agents, handler, history>>

\* A mandate revision takes no lock on the agent row.
ReviseMandate(a, kinds) ==
    /\ mandate[a] # kinds
    /\ mandate' = [mandate EXCEPT ![a] = kinds]
    /\ UNCHANGED <<rows, authority, service, handler, history>>

\* The database clock passes expires_at of a permit.
Expire(r) ==
    /\ permit[r] = "active"
    /\ r \notin expired
    /\ expired' = expired \cup {r}
    /\ UNCHANGED <<request, permit, authority, agents, handler, history>>

-----------------------------------------------------------------------------

\* One handler starts: its reads outside the transaction.
Start(h) ==
    \/ \E r \in Request :
         \/ AdmitAgentProposal(h, r)
         \/ ConsumeActionPermitAsMachine(h, r)
         \/ \E who \in Human :
              \/ \E op \in Decision : BeginDecision(h, op, who, r)
              \/ BeginRevocation(h, who, r)
              \/ ConsumeActionPermit(h, who, r)
    \/ \E a \in Agent, who \in Human, op \in Lifecycle : LockAgent(h, op, who, a)

\* One running handler takes its next step, unless a row lock holds it.
Step(h) ==
    \/ RecordAgentOriginatedActionRequest(h)
    \/ ApproveActionRequest(h)
    \/ RejectActionRequest(h)
    \/ RevokeActionPermit(h)
    \/ SpendPermit(h)
    \/ CheckContinuingAuthority(h)
    \/ CommitSpend(h)
    \/ SuspendDurableAgentIdentity(h)
    \/ ReactivateDurableAgentIdentity(h)
    \/ RetireDurableAgentIdentity(h)
    \/ Refuse(h)

Environment ==
    \/ \E r \in Request : RecordActionRequest(r) \/ Expire(r)
    \/ \E who \in Human : MoveAuthority(who)
    \/ \E a \in Agent, kinds \in SUBSET Kind : ReviseMandate(a, kinds)

Next ==
    \/ Environment
    \/ \E h \in Handler : Start(h) \/ Step(h) \/ Abort(h)

Spec == Init /\ [][Next]_vars

(***************************************************************************)
(* A started handler is not left running for ever, and a row-lock queue is *)
(* served in order, so a handler that can take its next step again and     *)
(* again does take it.                                                     *)
(***************************************************************************)
FairSpec == Spec /\ \A h \in Handler : SF_vars(Step(h))

-----------------------------------------------------------------------------
(* Properties *)

\* Two live proposals never name the same act, and one step of an agent's
\* plan never has two open proposals, however many writers race past the
\* pre-checks (record-action-request.server.ts).
OneOpenProposal ==
    \A r, q \in Request : r # q =>
        /\ Digest[r] = Digest[q] => ~(request[r] = "pending" /\ request[q] = "pending")
        /\ PlanStep[r] # NoOne /\ PlanStep[r] = PlanStep[q]
             => ~({request[r], request[q]} \subseteq {"pending", "approved"})

\* Once a proposal is approved its plan step is closed for good: no proposal
\* for the step is filed or decided after it, not even when the permit lapses
\* unspent or is revoked (heby_action_requests_open_plan_step_uq, "it says
\* nothing about whether a permit is live or spent").
ApprovedStepsStayClosed ==
    [][\A r, q \in Request :
         request[r] = "approved" /\ PlanStep[r] # NoOne /\ PlanStep[q] = PlanStep[r]
           => request'[q] = request[q]]_vars

\* No permit is minted for an agent, and none is spent, at a commit where that
\* agent is suspended or retired: approval and spend serialize with the
\* lifecycle on the agent row, whatever each read before.
AuthorityMovesInService ==
    [][\A r \in Request :
         permit'[r] # permit[r] /\ permit'[r] \in {"active", "consumed"}
           => ProposerInService(r)]_vars

\* Reactivating an agent leaves it no permit from before the reactivation that
\* could still be spent (suspend-durable-agent-identity.server.ts, decision 1).
NothingRestored ==
    \A r \in Request :
        permit[r] = "active" /\ issuedIn[r] < EraOf(r) => r \in expired

\* Every concurrent execution of the handlers is an execution of the chain
\* as promised: decided once, ended once, never spent and revoked.
ActPhase(r) ==
    CASE permit[r] = "active" -> "authorized"
      [] permit[r] = "consumed" -> "spent"
      [] permit[r] = "revoked" -> "withdrawn"
      [] request[r] = "pending" -> "proposed"
      [] request[r] = "rejected" -> "declined"
      [] OTHER -> "none"

Promise == INSTANCE GovernedAct WITH
               Act <- Request, phase <- [r \in Request |-> ActPhase(r)]

KeepsPromise == Promise!Spec

\* No two handlers wait for each other's row locks: each one that began ends.
HandlersEnd ==
    \A h \in Handler : handler[h].at # "idle" ~> handler[h].at = "idle"

\* What suspend-durable-agent-identity.server.ts says of reactivation, taken to
\* the end: no permit granted before a reactivation is spent after it.
ReactivationRestoresNoAuthority ==
    \A r \in Request : permit[r] = "consumed" => spentIn[r] = issuedIn[r]
=============================================================================
