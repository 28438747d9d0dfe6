--------------------------- MODULE ActionExecution ---------------------------
(***************************************************************************)
(* The execution half of a governed act, in one tenant                     *)
(* (features/action-execution): an executor checks the world, spends the   *)
(* permit and records an attempt in one transaction, checks again what may *)
(* have been stopped since, makes one provider call, and writes what it    *)
(* learned.  A publication also passes the duplicate guard, once when it   *)
(* is proposed and again under a row lock when it is spent.                *)
(*                                                                         *)
(* The provider may perform an act late, after the executor has stopped    *)
(* waiting.  A process may die between any two steps.  Requests, decisions *)
(* and permits move here as ActionAuthorization's handlers move them, each *)
(* in one step; both modules keep the promise of GovernedAct.              *)
(***************************************************************************)
EXTENDS Naturals, Sequences, FiniteSets

CONSTANTS
    Agent,         \* durable agent identities
    Request,       \* rows heby_action_requests may come to hold
    Proposer,      \* who proposes each request: an agent, or NoOne (a human)
    Revision,      \* the artifact revision a publication names, NoOne for a send
    Destination,   \* the account it publishes to, NoOne for a send
    Executor,      \* concurrent invocations of the server's actions
    Stop,          \* the stops that may be placed: "tenant", "deployment"
    Perishable,    \* what each request's target may lose while it is under way
    Crashes,       \* whether a process may die
    MaxClock,      \* bound on the executions begun
    NoOne

\* What a target stands on: the recipient and the work artifact ("record"), the
\* Content Package of a publication, and its media asset.
Facet == {"record", "package", "media"}

ASSUME ExecutionAssumption ==
    /\ Proposer \in [Request -> Agent \cup {NoOne}]
    /\ \A r \in Request : Revision[r] = NoOne <=> Destination[r] = NoOne
    /\ NoOne \notin Agent \cup Request
    /\ Stop \subseteq {"tenant", "deployment"}
    /\ Perishable \in [Request -> SUBSET Facet]
    /\ \A r \in Request : Revision[r] = NoOne => Perishable[r] \subseteq {"record"}
    /\ Crashes \in BOOLEAN
    /\ MaxClock \in Nat

VARIABLES
    request,     \* status of each request row, "absent" before it is filed
    permit,      \* status of the permit minted for a request, "none" before
    expired,     \* permits whose expires_at has passed
    ack,         \* the request whose attempt a filed publication acknowledges
    attempt,     \* status of the attempt of a request, "none" before its spend
    startedAt,   \* started_at of each attempt
    clock,       \* the application clock
    stops,       \* stops in force: the tenant's arming, the deployment's control
    suspended,   \* agents out of service
    withdrawn,   \* what each request's target has lost
    wire,        \* the provider's side of each act
    executor,    \* what each handler is doing
    ledger,      \* history: spent requests in the order their spends committed
    standing     \* history: what was stopped before an executor's last look at
                 \* it and has been stopped ever since

ruling == <<stops, suspended, withdrawn>>
rows == <<request, permit, expired, ack>>
attempts == <<attempt, startedAt, ledger>>
vars == <<request, permit, expired, ack, attempt, startedAt, clock, stops,
          suspended, withdrawn, wire, executor, ledger, standing>>

Terminal == {"accepted", "failed", "unknown", "refused"}

\* "begun" - the pre-flight passed; "spending" - the permit row is locked and
\* the agent row shared; "guarded" - and the revision row is locked; then the
\* spend is committed and the looks before the call follow, one by one.
Unspent == {"begun", "spending", "guarded"}
BeforeCall == {"committed", "armed", "reachable", "packaged", "verified", "cleared"}

Idle == [at |-> "idle", req |-> NoOne, ack |-> NoOne, now |-> 0]

ExecutorState ==
    {Idle} \cup [at : {"filing", "sent"} \cup Unspent \cup BeforeCall,
                req : Request, ack : Request \cup {NoOne}, now : Nat]

\* What an executor may still have to look at.
Ruling == Stop \cup {"agent"} \cup Facet

TypeOK ==
    /\ request \in [Request -> {"absent", "pending", "approved", "rejected"}]
    /\ permit \in [Request -> {"none", "active", "consumed", "revoked"}]
    /\ expired \subseteq Request
    /\ ack \in [Request -> Request \cup {NoOne}]
    /\ attempt \in [Request -> {"none", "pending"} \cup Terminal]
    /\ startedAt \in [Request -> Nat]
    /\ clock \in Nat
    /\ stops \subseteq Stop
    /\ suspended \subseteq Agent
    /\ withdrawn \in [Request -> SUBSET Facet]
    /\ wire \in [Request -> {"quiet", "sent", "performed", "dropped"}]
    /\ executor \in [Executor -> ExecutorState]
    /\ ledger \in Seq(Request)
    /\ standing \in [Executor -> SUBSET Ruling]

Init ==
    /\ request = [r \in Request |-> "absent"]
    /\ permit = [r \in Request |-> "none"]
    /\ expired = {}
    /\ ack = [r \in Request |-> NoOne]
    /\ attempt = [r \in Request |-> "none"]
    /\ startedAt = [r \in Request |-> 0]
    /\ clock = 0
    /\ stops = {}
    /\ suspended = {}
    /\ withdrawn = [r \in Request |-> {}]
    /\ wire = [r \in Request |-> "quiet"]
    /\ executor = [h \in Executor |-> Idle]
    /\ ledger = <<>>
    /\ standing = [h \in Executor |-> {}]

-----------------------------------------------------------------------------
(* The publication history of a revision, and the one policy over it *)

IsPublication(r) == Revision[r] # NoOne

\* The publication identity: kind, destination account and exact revision.
SameIdentity(q, r) ==
    IsPublication(r) /\ Revision[q] = Revision[r] /\ Destination[q] = Destination[r]

\* Mutant: a publication whose outcome is unknown is read as failed.
AcceptedOnly(r) ==
    {q \in Request : SameIdentity(q, r) /\ attempt[q] = "accepted"}

\* The attempts that may have published: accepted, or unknown.
Consequential(r) ==
    {q \in Request : SameIdentity(q, r) /\ attempt[q] \in {"accepted", "unknown"}}

\* a is the consequential attempt that started last, NoOne if there is none.
LatestConsequential(r, a) ==
    IF Consequential(r) = {} THEN a = NoOne
    ELSE /\ a \in Consequential(r)
         /\ \A p \in Consequential(r) : startedAt[p] <= startedAt[a]

\* IN_FLIGHT_AT_PROPOSAL
InFlightAtProposal(q) ==
    \/ request[q] = "pending"
    \/ permit[q] = "active" /\ q \notin expired
    \/ attempt[q] = "pending"
    \/ permit[q] = "consumed" /\ attempt[q] = "none"

\* IN_FLIGHT_AT_EXECUTION
InFlightAtExecution(q) ==
    attempt[q] = "pending" \/ (permit[q] = "consumed" /\ attempt[q] = "none")

\* evaluatePublicationGuard: nothing in flight, and the acknowledgement is
\* exactly the latest consequential attempt - none when there is none.
ClearToPropose(r, a) ==
    /\ \A q \in Request : SameIdentity(q, r) => ~InFlightAtProposal(q)
    /\ LatestConsequential(r, a)

ClearToExecute(r) ==
    IsPublication(r) =>
        /\ \A q \in Request \ {r} : SameIdentity(q, r) => ~InFlightAtExecution(q)
        /\ LatestConsequential(r, ack[r])

-----------------------------------------------------------------------------
(* Locks the running transactions hold *)

At(h, at) == executor[h].at = at

InService(r) == Proposer[r] \notin suspended

\* Mutant: the permit row is locked only once the guard has passed.
PermitLockedLate(r) == \E h \in Executor : executor[h].req = r /\ executor[h].at = "committed"

PermitLocked(r) ==
    \E h \in Executor : executor[h].req = r /\ executor[h].at \in {"spending", "guarded"}

AgentShared(a) ==
    \E h \in Executor : /\ executor[h].at \in {"spending", "guarded"}
                        /\ Proposer[executor[h].req] = a

\* Mutant: the guard locks the revision only against its own request.
RevisionLockedByItself(r) ==
    IsPublication(r) /\ \E h \in Executor : At(h, "guarded") /\ executor[h].req = r

RevisionLocked(r) ==
    /\ IsPublication(r)
    /\ \E h \in Executor : At(h, "guarded") /\ Revision[executor[h].req] = Revision[r]

Begin(h, at, r, a) ==
    /\ At(h, "idle")
    /\ executor' = [executor EXCEPT ![h] = [at |-> at, req |-> r, ack |-> a, now |-> clock]]
    /\ UNCHANGED standing

Advance(h, at) ==
    /\ executor' = [executor EXCEPT ![h].at = at]
    /\ UNCHANGED standing

Finish(h) ==
    /\ executor' = [executor EXCEPT ![h] = Idle]
    /\ standing' = [standing EXCEPT ![h] = {}]

-----------------------------------------------------------------------------
(* Requests, decisions and permits *)

\* A send is filed without a guard.
ProposeSend(r) ==
    /\ ~IsPublication(r)
    /\ request[r] = "absent"
    /\ request' = [request EXCEPT ![r] = "pending"]
    /\ UNCHANGED <<permit, expired, ack, attempts, clock, ruling, wire, executor, standing>>

\* checkPriorPublicationAtProposal reads outside any transaction ...
CheckPriorPublicationAtProposal(h, r, a) ==
    /\ IsPublication(r)
    /\ request[r] = "absent"
    /\ ClearToPropose(r, a)
    /\ Begin(h, "filing", r, a)
    /\ UNCHANGED <<rows, attempts, clock, ruling, wire>>

\* ... so two proposals of one identity may both be filed.
ProposePublication(h) ==
    /\ At(h, "filing")
    /\ request[executor[h].req] = "absent"
    /\ request' = [request EXCEPT ![executor[h].req] = "pending"]
    /\ ack' = [ack EXCEPT ![executor[h].req] = executor[h].ack]
    /\ Finish(h)
    /\ UNCHANGED <<permit, expired, attempts, clock, ruling, wire>>

ApproveActionRequest(r) ==
    /\ request[r] = "pending"
    /\ InService(r)
    /\ request' = [request EXCEPT ![r] = "approved"]
    /\ permit' = [permit EXCEPT ![r] = "active"]
    /\ UNCHANGED <<expired, ack, attempts, clock, ruling, wire, executor, standing>>

RejectActionRequest(r) ==
    /\ request[r] = "pending"
    /\ request' = [request EXCEPT ![r] = "rejected"]
    /\ UNCHANGED <<permit, expired, ack, attempts, clock, ruling, wire, executor, standing>>

RevokeActionPermit(r) ==
    /\ permit[r] = "active"
    /\ ~PermitLocked(r)
    /\ permit' = [permit EXCEPT ![r] = "revoked"]
    /\ UNCHANGED <<request, expired, ack, attempts, clock, ruling, wire, executor, standing>>

Expire(r) ==
    /\ permit[r] = "active"
    /\ r \notin expired
    /\ expired' = expired \cup {r}
    /\ UNCHANGED <<request, permit, ack, attempts, clock, ruling, wire, executor, standing>>

-----------------------------------------------------------------------------
(* What may stop an act, and what each executor has still to look at *)

\* Executors at one of points whose look at b is still to come keep it.
Noticed(b, hs) ==
    standing' = [h \in Executor |-> IF h \in hs THEN standing[h] \cup {b} ELSE standing[h]]

Forgotten(b) == standing' = [h \in Executor |-> standing[h] \ {b}]

\* The arming is withdrawn, or the deployment's control is turned off.
PlaceStop(s) ==
    /\ s \notin stops
    /\ stops' = stops \cup {s}
    /\ Noticed(s, {h \in Executor :
           executor[h].at \in Unspent \cup {"committed"}
                                \cup (IF s = "deployment" THEN {"armed"} ELSE {})})
    /\ UNCHANGED <<rows, attempts, clock, suspended, withdrawn, wire, executor>>

LiftStop(s) ==
    /\ s \in stops
    /\ stops' = stops \ {s}
    /\ Forgotten(s)
    /\ UNCHANGED <<rows, attempts, clock, suspended, withdrawn, wire, executor>>

\* A suspension waits for the spends that share the agent's row.
SuspendAgent(a) ==
    /\ a \notin suspended
    /\ ~AgentShared(a)
    /\ suspended' = suspended \cup {a}
    /\ Noticed("agent", {h \in Executor :
           /\ executor[h].at \in {"begun"} \cup (BeforeCall \ {"cleared"})
           /\ Proposer[executor[h].req] = a})
    /\ UNCHANGED <<rows, attempts, clock, stops, withdrawn, wire, executor>>

\* Refused while the agent holds a usable permit.
ReactivateAgent(a) ==
    /\ a \in suspended
    /\ \A r \in Request : Proposer[r] = a => permit[r] # "active" \/ r \in expired
    /\ suspended' = suspended \ {a}
    /\ standing' = [h \in Executor |->
           IF executor[h].req \in Request /\ Proposer[executor[h].req] = a
           THEN standing[h] \ {"agent"} ELSE standing[h]]
    /\ UNCHANGED <<rows, attempts, clock, stops, withdrawn, wire, executor>>

\* The executions whose last look at a facet is still to come.  The spend's
\* transaction reads recipient and artifact, for the last time, and the media;
\* only after the commit come the package, which the transaction does not
\* read, and then the media once more.
LookedAtUntil(f) ==
    CASE f = "record" -> Unspent
      [] f = "package" -> Unspent \cup {"committed", "armed", "reachable"}
      [] f = "media" -> Unspent \cup {"committed", "armed", "reachable", "packaged"}

\* The recipient, the artifact or the media asset is retired, or the package
\* stops being ready; none of it waits for a spend.
WithdrawTarget(r, f) ==
    /\ f \in Perishable[r] \ withdrawn[r]
    /\ withdrawn' = [withdrawn EXCEPT ![r] = @ \cup {f}]
    /\ Noticed(f, {h \in Executor :
           executor[h].req = r /\ executor[h].at \in LookedAtUntil(f)})
    /\ UNCHANGED <<rows, attempts, clock, stops, suspended, wire, executor>>

\* Retirement is for good; readiness is derived on every read and comes back.
RestorePackage(r) ==
    /\ "package" \in withdrawn[r]
    /\ withdrawn' = [withdrawn EXCEPT ![r] = @ \ {"package"}]
    /\ standing' = [h \in Executor |->
           IF executor[h].req = r THEN standing[h] \ {"package"} ELSE standing[h]]
    /\ UNCHANGED <<rows, attempts, clock, stops, suspended, wire, executor>>

-----------------------------------------------------------------------------
(* Executing *)

\* The pre-flight of executeAuthorizedAction: reachability, a live permit and
\* a target that stands, none of it in a transaction.
ExecuteAuthorizedAction(h, r) ==
    /\ clock < MaxClock
    /\ stops = {}
    /\ permit[r] = "active"
    /\ r \notin expired
    /\ withdrawn[r] = {}
    /\ Begin(h, "begun", r, NoOne)
    /\ clock' = clock + 1
    /\ UNCHANGED <<rows, attempts, ruling, wire>>

\* consumeActionPermit up to its callback: the permit row is updated and
\* stays locked, the agent's row is shared and in service.  The expiry is
\* judged by the transaction's now(), which may lie before the step Expire.
SpendPermit(h) ==
    /\ At(h, "begun")
    /\ LET r == executor[h].req IN
         /\ ~PermitLocked(r)
         /\ permit[r] = "active"
         /\ InService(r)
    /\ Advance(h, "spending")
    /\ UNCHANGED <<rows, attempts, clock, ruling, wire>>

\* guardPublicationWithin: the revision row FOR UPDATE, then its history.
GuardPublication(h) ==
    /\ At(h, "spending")
    /\ ~RevisionLocked(executor[h].req)
    /\ ClearToExecute(executor[h].req)
    /\ Advance(h, "guarded")
    /\ UNCHANGED <<rows, attempts, clock, ruling, wire>>

\* What the spend's transaction resolves again.
ReadAtCommit == {"record", "media"}

\* Mutant: a withdrawn target burns the permit and leaves no attempt row.
SpendWithoutAttempt(h) ==
    /\ At(h, "guarded")
    /\ LET r == executor[h].req IN
         /\ permit' = [permit EXCEPT ![r] = "consumed"]
         /\ startedAt' = [startedAt EXCEPT ![r] = executor[h].now]
         /\ ledger' = Append(ledger, r)
         /\ \/ /\ withdrawn[r] \cap ReadAtCommit # {}
               /\ UNCHANGED attempt
               /\ Finish(h)
            \/ /\ withdrawn[r] \cap ReadAtCommit = {}
               /\ attempt' = [attempt EXCEPT ![r] = "pending"]
               /\ Advance(h, "committed")
    /\ UNCHANGED <<request, expired, ack, clock, ruling, wire>>

\* The rest of the transaction: the target is resolved again, the attempt is
\* inserted, refused at birth when the target is gone - or, for a publication,
\* its connection is no longer the eligible one - and all is committed.
CommitSpend(h) ==
    /\ At(h, "guarded")
    /\ LET r == executor[h].req IN
         /\ permit' = [permit EXCEPT ![r] = "consumed"]
         /\ startedAt' = [startedAt EXCEPT ![r] = executor[h].now]
         /\ ledger' = Append(ledger, r)
         /\ \/ /\ IsPublication(r) \/ withdrawn[r] \cap ReadAtCommit # {}
               /\ attempt' = [attempt EXCEPT ![r] = "refused"]
               /\ Finish(h)
            \/ /\ withdrawn[r] \cap ReadAtCommit = {}
               /\ attempt' = [attempt EXCEPT ![r] = "pending"]
               /\ Advance(h, "committed")
    /\ UNCHANGED <<request, expired, ack, clock, ruling, wire>>

\* completeAttempt: only an open attempt is completed.
CompleteAttempt(h, status) ==
    /\ attempt[executor[h].req] = "pending"
    /\ attempt' = [attempt EXCEPT ![executor[h].req] = status]
    /\ Finish(h)
    /\ UNCHANGED <<rows, startedAt, ledger, clock, ruling, wire>>

\* One of the looks before the call: pass on, or close the attempt refused.
\* Every look fails closed: an answer that cannot be read refuses as well.
Look(h, from, to, ok) ==
    /\ At(h, from)
    /\ \/ /\ ok
          /\ Advance(h, to)
          /\ UNCHANGED <<rows, attempts, clock, ruling, wire>>
       \/ CompleteAttempt(h, "refused")

\* resolveExternalSendReachability, again: the tenant's own state first ...
RereadTenantArming(h) == Look(h, "committed", "armed", "tenant" \notin stops)

\* A send has nothing more to look at but its agent.
AfterReach(h) == IF IsPublication(executor[h].req) THEN "reachable" ELSE "verified"

\* Mutant: the answer of the pre-flight is kept for the deployment's control.
CachedExecutionControl(h) == Look(h, "armed", AfterReach(h), TRUE)

\* ... then the deployment's master stop.
RereadExecutionControl(h) ==
    Look(h, "armed", AfterReach(h), "deployment" \notin stops)

\* The package of a publication, again: does it still authorize this media?
RereadPackage(h) ==
    Look(h, "reachable", "packaged", "package" \notin withdrawn[executor[h].req])

\* And the media, as they are stored.  Recipient and artifact are not read again.
RereadMedia(h) ==
    Look(h, "packaged", "verified", "media" \notin withdrawn[executor[h].req])

\* proposingAgentStillInService
RereadAgent(h) == Look(h, "verified", "cleared", InService(executor[h].req))

\* The one provider call: the bytes leave.
Dispatch(h) ==
    /\ At(h, "cleared")
    /\ wire' = [wire EXCEPT ![executor[h].req] = "sent"]
    /\ Advance(h, "sent")
    /\ UNCHANGED <<rows, attempts, clock, ruling>>

\* A send learns that it has no adapter before it asks for its agent, a
\* publication that it has no credential or another channel afterwards.
MayBeUnequipped(h) ==
    \/ At(h, "verified") /\ ~IsPublication(executor[h].req)
    \/ At(h, "cleared") /\ IsPublication(executor[h].req)

\* Mutant: the provider's word for a refusal is written as the status.
RefuseDispatchAsRejected(h) ==
    /\ MayBeUnequipped(h)
    /\ CompleteAttempt(h, "rejected")

\* No adapter, no credential, another channel than the one bound: nothing
\* leaves the process.
RefuseDispatch(h) ==
    /\ MayBeUnequipped(h)
    /\ CompleteAttempt(h, "refused")

\* Mutant: a call whose answer was lost is written down as failed.
LostAnswerFails(h) ==
    /\ At(h, "sent")
    /\ LET w == wire[executor[h].req] IN
         \/ w = "performed" /\ CompleteAttempt(h, "accepted")
         \/ w = "dropped" /\ CompleteAttempt(h, "failed")
         \/ CompleteAttempt(h, "failed")

\* Mutant: an attempt whose answer was lost is left for later.
LostAnswerWaits(h) ==
    /\ At(h, "sent")
    /\ LET w == wire[executor[h].req] IN
         \/ w = "performed" /\ CompleteAttempt(h, "accepted")
         \/ w = "dropped" /\ CompleteAttempt(h, "failed")

\* The provider's answer, written down: accepted only with the provider's own
\* id, failed only when it refused or nothing left, otherwise unknown.
RecordAnswer(h) ==
    /\ At(h, "sent")
    /\ LET w == wire[executor[h].req] IN
         \/ w = "performed" /\ CompleteAttempt(h, "accepted")
         \/ w = "dropped" /\ CompleteAttempt(h, "failed")
         \/ CompleteAttempt(h, "unknown")

\* The provider acts on what it received, or never will.
ProviderActs(r) ==
    /\ wire[r] = "sent"
    /\ \E w \in {"performed", "dropped"} : wire' = [wire EXCEPT ![r] = w]
    /\ UNCHANGED <<rows, attempts, clock, ruling, executor, standing>>

-----------------------------------------------------------------------------
(* Refusals and crashes *)

\* A guard met before the commit does not hold: the transaction rolls back
\* and the permit stays as it was.
Refused(h) ==
    LET r == executor[h].req IN
    \/ At(h, "filing") /\ request[r] # "absent"
    \/ At(h, "begun") /\ ~PermitLocked(r) /\ (permit[r] # "active" \/ r \in expired)
    \/ At(h, "begun") /\ ~PermitLocked(r) /\ ~InService(r)
    \/ At(h, "spending") /\ ~RevisionLocked(r) /\ ~ClearToExecute(r)

Refuse(h) ==
    /\ Refused(h)
    /\ Finish(h)
    /\ UNCHANGED <<rows, attempts, clock, ruling, wire>>

\* The process dies, or a database call throws: what was committed stays as
\* it is, and no one takes the attempt up again.
Crash(h) ==
    /\ Crashes
    /\ ~At(h, "idle")
    /\ Finish(h)
    /\ UNCHANGED <<rows, attempts, clock, ruling, wire>>

-----------------------------------------------------------------------------

Start(h) ==
    \E r \in Request :
        \/ \E a \in Request \cup {NoOne} : CheckPriorPublicationAtProposal(h, r, a)
        \/ ExecuteAuthorizedAction(h, r)

Step(h) ==
    \/ ProposePublication(h)
    \/ SpendPermit(h)
    \/ GuardPublication(h)
    \/ CommitSpend(h)
    \/ RereadTenantArming(h)
    \/ RereadExecutionControl(h)
    \/ RereadPackage(h)
    \/ RereadMedia(h)
    \/ RereadAgent(h)
    \/ Dispatch(h)
    \/ RefuseDispatch(h)
    \/ RecordAnswer(h)
    \/ Refuse(h)

Environment ==
    \/ \E r \in Request :
         \/ ProposeSend(r)
         \/ ApproveActionRequest(r)
         \/ RejectActionRequest(r)
         \/ RevokeActionPermit(r)
         \/ Expire(r)
         \/ \E f \in Facet : WithdrawTarget(r, f)
         \/ RestorePackage(r)
         \/ ProviderActs(r)
    \/ \E s \in Stop : PlaceStop(s) \/ LiftStop(s)
    \/ \E a \in Agent : SuspendAgent(a) \/ ReactivateAgent(a)

Next ==
    \/ Environment
    \/ \E h \in Executor : Start(h) \/ Step(h) \/ Crash(h)

Spec == Init /\ [][Next]_vars

\* A running handler is not abandoned, row-lock queues are served in order,
\* and every provider call is bounded by a timeout.
FairSpec == Spec /\ \A h \in Executor : SF_vars(Step(h))

-----------------------------------------------------------------------------
(* Properties *)

\* Two attempts of one publication identity are never open at once: the guard
\* under the revision lock sees every attempt an earlier spend committed.
OneInFlight ==
    \A q, r \in Request :
        q # r /\ SameIdentity(q, r) => ~(attempt[q] = "pending" /\ attempt[r] = "pending")

\* A permit is spent exactly when an attempt records it, and nothing reaches
\* the provider that the attempt ledger does not show.
SpendIsRecorded ==
    \A r \in Request :
        /\ permit[r] = "consumed" <=> attempt[r] # "none"
        /\ wire[r] # "quiet" => attempt[r] \notin {"none", "refused"}

\* The ledger never claims more than happened: failed and refused attempts
\* were not and will not be performed, accepted ones were - however late the
\* provider acts and wherever the process dies.
HonestOutcome ==
    \A r \in Request :
        /\ attempt[r] \in {"failed", "refused"} => wire[r] \in {"quiet", "dropped"}
        /\ attempt[r] = "accepted" => wire[r] = "performed"

\* When two publications of one identity were sent and the first may have
\* gone out, the second was authorized in knowledge of it: it acknowledges
\* that attempt or a later one.
NoBlindRepublish ==
    \A i, j \in DOMAIN ledger :
        /\ i < j
        /\ SameIdentity(ledger[i], ledger[j])
        /\ wire[ledger[i]] \in {"sent", "performed"}
        /\ wire[ledger[j]] # "quiet"
        => \E k \in i .. j - 1 :
               /\ ledger[k] = ack[ledger[j]]
               /\ SameIdentity(ledger[k], ledger[j])

\* A stop, a suspension or a withdrawal that precedes the executor's last look
\* at it, and is still in force, keeps the bytes from leaving.  For recipient
\* and artifact that look is in the spend's transaction, for the package, the
\* media, the agent and the stops it follows the commit.
StopsHold == [][\A h \in Executor : At(h, "cleared") /\ executor'[h].at = "sent"
                   => standing[h] = {}]_vars

\* What the two halves promise about one act, with the performance in it.
ActPhase(r) ==
    CASE wire[r] = "performed" -> "performed"
      [] permit[r] = "consumed" /\ wire[r] # "performed" -> "spent"
      [] permit[r] = "active" -> "authorized"
      [] permit[r] = "revoked" -> "withdrawn"
      [] permit[r] = "none" /\ request[r] = "pending" -> "proposed"
      [] permit[r] = "none" /\ request[r] = "rejected" -> "declined"
      [] OTHER -> "none"

Promise == INSTANCE GovernedAct WITH
               Act <- Request, phase <- [r \in Request |-> ActPhase(r)]

KeepsPromise == Promise!Spec

\* When no process dies, every attempt gets an outcome, and so never blocks
\* its identity for good.
AttemptsSettle ==
    \A r \in Request : attempt[r] = "pending" ~> attempt[r] # "pending"
=============================================================================
