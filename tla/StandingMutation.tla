--------------------------- MODULE StandingMutation ---------------------------
(***************************************************************************)
(* Standing authority over one agent of one tenant                         *)
(* (features/standing-mutation-authority): a human signs an envelope - a   *)
(* window, a number of acts and a least interval between them - and a scan *)
(* then turns the agent's own evidenced proposals into permits without a   *)
(* decision per act.  Envelopes are revisions of one lineage: signing and  *)
(* withdrawing append, nothing is edited, the highest revision is in       *)
(* effect.  The number of acts, their spacing and the evidence already     *)
(* used are counted over the permits, behind the row lock of the envelope. *)
(*                                                                         *)
(* An issuance waits twice: for the agent's row, FOR SHARE, and for the    *)
(* envelope's, FOR UPDATE.  The query that waits for the envelope chose it *)
(* before it waited.                                                       *)
(***************************************************************************)
EXTENDS Naturals, Sequences, FiniteSets

CONSTANTS
    Request,           \* the agent's record-work proposals, all filed
    Fact,              \* organizational facts a proposal may cite
    EvidenceOf,        \* the fact each proposal cites first, NoOne for none
    Handler,           \* concurrent invocations: scans and humans' actions
    Bounds,            \* windows, quotas and cadences a human may sign
    NoOne,
    MaxClock,          \* bound on the clock
    MaxRevision,       \* bound on the revisions of the lineage
    MaxReactivations   \* bound on how often the agent is put back in service

ASSUME StandingAssumption ==
    /\ IsFiniteSet(Request)
    /\ EvidenceOf \in [Request -> Fact \cup {NoOne}]
    /\ Bounds \subseteq [from : Nat, until : Nat, acts : Nat, every : Nat]
    /\ NoOne \notin Request \cup Fact
    /\ {MaxClock, MaxRevision, MaxReactivations} \subseteq Nat

VARIABLES
    request,     \* status of each request row
    permit,      \* status of its permit: "ended" is spent, revoked or expired
    under,       \* standing_authorization_id: a revision, 0 for a human's decision
    issuedAt,    \* issued_at of each permit an envelope issued
    envelope,    \* the revisions of the lineage, oldest first
    service,     \* service status of the agent
    clock,
    handler,     \* what each handler is doing
    era,         \* history: how many times the agent has been reactivated
    grantedIn,   \* history: the era in which each permit was issued
    signedIn     \* history: the era in which each revision was appended

permits == <<request, permit, under, issuedAt, grantedIn>>
lineage == <<envelope, signedIn>>
agent == <<service, era>>
vars == <<request, permit, under, issuedAt, envelope, service, clock, handler,
          era, grantedIn, signedIn>>

\* One revision: its window, quota and cadence, and the revision it supersedes,
\* which is the one its author had been shown.
Envelope == [state : {"active", "withdrawn"}, terms : Bounds, shown : Nat]

\* An issuance is "begun", then holds the agent's row ("shared"), has chosen
\* its envelope ("seeking"), and holds its row ("counted").  rev is the
\* envelope chosen, or the revision a human observed before writing.
Idle == [at |-> "idle", req |-> NoOne, now |-> 0, rev |-> 0]

HandlerState ==
    [at : {"idle", "begun", "shared", "seeking", "counted", "authorizing", "withdrawing"},
     req : Request \cup {NoOne}, now : Nat, rev : Nat]

TypeOK ==
    /\ request \in [Request -> {"pending", "approved", "rejected"}]
    /\ permit \in [Request -> {"none", "active", "ended"}]
    /\ under \in [Request -> Nat]
    /\ issuedAt \in [Request -> Nat]
    /\ envelope \in Seq(Envelope)
    /\ service \in {"in-service", "suspended"}
    /\ clock \in Nat
    /\ handler \in [Handler -> HandlerState]
    /\ era \in Nat
    /\ grantedIn \in [Request -> Nat]
    /\ signedIn \in Seq(Nat)

Init ==
    /\ request = [r \in Request |-> "pending"]
    /\ permit = [r \in Request |-> "none"]
    /\ under = [r \in Request |-> 0]
    /\ issuedAt = [r \in Request |-> 0]
    /\ envelope = <<>>
    /\ service = "in-service"
    /\ clock = 0
    /\ handler = [h \in Handler |-> Idle]
    /\ era = 0
    /\ grantedIn = [r \in Request |-> 0]
    /\ signedIn = <<>>

-----------------------------------------------------------------------------
(* What the rows and the running transactions say *)

InForce == Len(envelope) > 0 /\ envelope[Len(envelope)].state = "active"

\* Mutant: a window that has not opened yet does not count.
OpenEnvelope == InForce /\ envelope[Len(envelope)].terms.from <= clock
                        /\ clock < envelope[Len(envelope)].terms.until

\* hasValidStandingEnvelopeWithin: in force, and its window has not closed.
ValidEnvelope == InForce /\ clock < envelope[Len(envelope)].terms.until

\* Every permit issued under a revision, whatever became of it.
ActsUnder(v) == {r \in Request : under[r] = v}

\* The checks behind the envelope's lock, for a handler whose clock says now.
Admits(v, r, now) ==
    /\ envelope[v].state = "active"
    /\ envelope[v].terms.from <= now /\ now < envelope[v].terms.until
    /\ EvidenceOf[r] # NoOne
    /\ \A q \in ActsUnder(v) : EvidenceOf[q] # EvidenceOf[r]
    /\ Cardinality(ActsUnder(v)) < envelope[v].terms.acts
    /\ \A q \in ActsUnder(v) : issuedAt[q] + envelope[v].terms.every <= now

At(h, at) == handler[h].at = at

AgentShared == \E h \in Handler : handler[h].at \in {"shared", "seeking", "counted"}

\* Mutant: the envelope is read without its row lock.
EnvelopeUnlocked(v) == FALSE

EnvelopeLocked(v) == \E h \in Handler : At(h, "counted") /\ handler[h].rev = v

Begin(h, at, r, now, v) ==
    /\ At(h, "idle")
    /\ handler' = [handler EXCEPT ![h] = [at |-> at, req |-> r, now |-> now, rev |-> v]]

Advance(h, at, v) ==
    handler' = [handler EXCEPT ![h] = [at |-> at, req |-> @.req, now |-> @.now, rev |-> v]]

Finish(h) == handler' = [handler EXCEPT ![h] = Idle]

-----------------------------------------------------------------------------
(* Issuing a permit under the envelope *)

\* The clock is read before the transaction; the request is read unlocked.
BeginIssuance(h, r) ==
    /\ request[r] = "pending"
    /\ Begin(h, "begun", r, clock, 0)
    /\ UNCHANGED <<permits, lineage, agent, clock>>

\* The agent's row FOR SHARE, until the transaction ends.
HoldAgent(h) ==
    /\ At(h, "begun")
    /\ service = "in-service"
    /\ Advance(h, "shared", 0)
    /\ UNCHANGED <<permits, lineage, agent, clock>>

\* The query for the highest revision picks its row ...
SeekEnvelope(h) ==
    /\ At(h, "shared")
    /\ Len(envelope) > 0
    /\ Advance(h, "seeking", Len(envelope))
    /\ UNCHANGED <<permits, lineage, agent, clock>>

\* ... and gets that row, FOR UPDATE, when no one else holds it.
LockEnvelope(h) ==
    /\ At(h, "seeking")
    /\ ~EnvelopeLocked(handler[h].rev)
    /\ Admits(handler[h].rev, handler[h].req, handler[h].now)
    /\ Advance(h, "counted", handler[h].rev)
    /\ UNCHANGED <<permits, lineage, agent, clock>>

\* Mutant: the UPDATE matches the request by its id alone.
IssueForDecidedRequest(h) ==
    /\ At(h, "counted")
    /\ LET r == handler[h].req IN
         /\ request' = [request EXCEPT ![r] = "approved"]
         /\ permit' = [permit EXCEPT ![r] = "active"]
         /\ under' = [under EXCEPT ![r] = handler[h].rev]
         /\ issuedAt' = [issuedAt EXCEPT ![r] = handler[h].now]
         /\ grantedIn' = [grantedIn EXCEPT ![r] = era]
    /\ Finish(h)
    /\ UNCHANGED <<lineage, agent, clock>>

\* The guarded UPDATE of the request, and the permit, dated by the handler.
IssuePermit(h) ==
    /\ At(h, "counted")
    /\ LET r == handler[h].req IN
         /\ request[r] = "pending"
         /\ request' = [request EXCEPT ![r] = "approved"]
         /\ permit' = [permit EXCEPT ![r] = "active"]
         /\ under' = [under EXCEPT ![r] = handler[h].rev]
         /\ issuedAt' = [issuedAt EXCEPT ![r] = handler[h].now]
         /\ grantedIn' = [grantedIn EXCEPT ![r] = era]
    /\ Finish(h)
    /\ UNCHANGED <<lineage, agent, clock>>

-----------------------------------------------------------------------------
(* Signing and withdrawing *)

\* The human's page showed a revision; liveness is asked unlocked, and only
\* of a signature.
BeginWrite(h, next) ==
    /\ next = "authorizing" => service = "in-service"
    /\ Begin(h, next, NoOne, 0, Len(envelope))
    /\ UNCHANGED <<permits, lineage, agent, clock>>

AppendRevision(h, state, b) ==
    /\ Len(envelope) < MaxRevision
    /\ envelope' = Append(envelope, [state |-> state, terms |-> b, shown |-> handler[h].rev])
    /\ signedIn' = Append(signedIn, era)

\* Mutant: service is not asked again inside the transaction.
AuthorizeOnEarlierAnswer(h, b) ==
    /\ At(h, "authorizing")
    /\ handler[h].rev = Len(envelope)
    /\ ~InForce
    /\ ~EnvelopeLocked(Len(envelope))
    /\ AppendRevision(h, "active", b)
    /\ Finish(h)
    /\ UNCHANGED <<permits, agent, clock>>

\* The agent's row FOR SHARE again, the observed revision still the highest
\* and not in force.  The foreign key to the superseded row waits for an
\* issuance that holds it.
AuthorizeStandingMutation(h, b) ==
    /\ At(h, "authorizing")
    /\ service = "in-service"
    /\ handler[h].rev = Len(envelope)
    /\ ~InForce
    /\ ~EnvelopeLocked(Len(envelope))
    /\ AppendRevision(h, "active", b)
    /\ Finish(h)
    /\ UNCHANGED <<permits, agent, clock>>

\* Mutant: the revision is written in the word of a permit.
WithdrawAsRevoked(h) ==
    /\ At(h, "withdrawing")
    /\ handler[h].rev = Len(envelope)
    /\ InForce
    /\ ~EnvelopeLocked(Len(envelope))
    /\ AppendRevision(h, "revoked", envelope[Len(envelope)].terms)
    /\ Finish(h)
    /\ UNCHANGED <<permits, agent, clock>>

\* Mutant: the revision the human was shown is not compared with the highest.
WithdrawWhateverStands(h) ==
    /\ At(h, "withdrawing")
    /\ InForce
    /\ ~EnvelopeLocked(Len(envelope))
    /\ AppendRevision(h, "withdrawn", envelope[Len(envelope)].terms)
    /\ Finish(h)
    /\ UNCHANGED <<permits, agent, clock>>

\* Withdrawing asks nothing of the agent and touches no permit.  Its bounds are
\* read again from the revision it ends, never taken from the browser.
WithdrawStandingMutation(h) ==
    /\ At(h, "withdrawing")
    /\ handler[h].rev = Len(envelope)
    /\ InForce
    /\ ~EnvelopeLocked(Len(envelope))
    /\ AppendRevision(h, "withdrawn", envelope[Len(envelope)].terms)
    /\ Finish(h)
    /\ UNCHANGED <<permits, agent, clock>>

\* A check that fails, a revision that moved, a request decided meanwhile, a
\* write that throws, a dead process: nothing was committed.
Abort(h) ==
    /\ ~At(h, "idle")
    /\ Finish(h)
    /\ UNCHANGED <<permits, lineage, agent, clock>>

-----------------------------------------------------------------------------
(* What happens around the envelope *)

\* A human decides the same proposal; the approval holds the agent's row.
ApproveActionRequest(r) ==
    /\ request[r] = "pending"
    /\ service = "in-service"
    /\ request' = [request EXCEPT ![r] = "approved"]
    /\ permit' = [permit EXCEPT ![r] = "active"]
    /\ grantedIn' = [grantedIn EXCEPT ![r] = era]
    /\ UNCHANGED <<under, issuedAt, lineage, agent, clock, handler>>

RejectActionRequest(r) ==
    /\ request[r] = "pending"
    /\ request' = [request EXCEPT ![r] = "rejected"]
    /\ UNCHANGED <<permit, under, issuedAt, grantedIn, lineage, agent, clock, handler>>

\* The permit is spent, revoked, or passes its expires_at.
EndPermit(r) ==
    /\ permit[r] = "active"
    /\ permit' = [permit EXCEPT ![r] = "ended"]
    /\ UNCHANGED <<request, under, issuedAt, grantedIn, lineage, agent, clock, handler>>

\* The agent's row FOR UPDATE: a transition waits for those that share it.
SuspendDurableAgentIdentity ==
    /\ ~AgentShared
    /\ service = "in-service"
    /\ service' = "suspended"
    /\ UNCHANGED <<permits, lineage, era, clock, handler>>

\* Refused while a permit could be spent or the envelope could issue one.
ReactivateDurableAgentIdentity ==
    /\ ~AgentShared
    /\ service = "suspended"
    /\ \A r \in Request : permit[r] # "active"
    /\ ~ValidEnvelope
    /\ era < MaxReactivations
    /\ service' = "in-service"
    /\ era' = era + 1
    /\ UNCHANGED <<permits, lineage, clock, handler>>

Tick ==
    /\ clock < MaxClock
    /\ clock' = clock + 1
    /\ UNCHANGED <<permits, lineage, agent, handler>>

-----------------------------------------------------------------------------

Handle(h) ==
    \/ \E r \in Request : BeginIssuance(h, r)
    \/ HoldAgent(h)
    \/ SeekEnvelope(h)
    \/ LockEnvelope(h)
    \/ IssuePermit(h)
    \/ \E next \in {"authorizing", "withdrawing"} : BeginWrite(h, next)
    \/ \E b \in Bounds : AuthorizeStandingMutation(h, b)
    \/ WithdrawStandingMutation(h)
    \/ Abort(h)

Environment ==
    \/ \E r \in Request :
         ApproveActionRequest(r) \/ RejectActionRequest(r) \/ EndPermit(r)
    \/ SuspendDurableAgentIdentity
    \/ ReactivateDurableAgentIdentity
    \/ Tick

Next == Environment \/ \E h \in Handler : Handle(h)

Spec == Init /\ [][Next]_vars

-----------------------------------------------------------------------------
(* Properties *)

\* An envelope never gives more than it says, however many scans race for it:
\* within one revision its quota holds, no two acts stand on one fact, and any
\* two are as far apart as its cadence.
EnvelopeBounds ==
    \A v \in DOMAIN envelope :
        /\ Cardinality(ActsUnder(v)) <= envelope[v].terms.acts
        /\ \A q, r \in ActsUnder(v) : q # r =>
               /\ EvidenceOf[q] # EvidenceOf[r]
               /\ \/ issuedAt[q] + envelope[v].terms.every <= issuedAt[r]
                  \/ issuedAt[r] + envelope[v].terms.every <= issuedAt[q]

\* An agent back in service holds no permit and stands under no usable
\* envelope from before (suspend-durable-agent-identity.server.ts, decision 1).
NothingRestored ==
    service = "in-service" =>
        /\ \A r \in Request : permit[r] = "active" => grantedIn[r] = era
        /\ ValidEnvelope => signedIn[Len(envelope)] = era

\* A proposal is decided once, by a human or by the envelope, never by both:
\* what was decided is not decided again and keeps what it was decided under.
DecidedOnce ==
    [][\A r \in Request : request[r] # "pending" =>
           /\ request'[r] = request[r]
           /\ under'[r] = under[r]
           /\ permit[r] = "ended" => permit'[r] = "ended"]_vars

\* No permit is issued to an agent, and no envelope signed for it, at a commit
\* where it is out of service.
GrantsInService ==
    [][\/ /\ \A r \in Request : permit'[r] = "active" => permit[r] = "active"
          /\ InForce' => envelope' = envelope
       \/ service = "in-service"]_vars

\* The envelope is a governed authority like the others: whoever signs or
\* withdraws replaces exactly the revision they were shown, only what is in
\* force is withdrawn, and the withdrawal repeats its terms.
Promise == INSTANCE RevisionLineage WITH
               Lineage <- {"agent"}, Terms <- Bounds,
               lineage <- [l \in {"agent"} |-> envelope]

KeepsLineage == Promise!Spec

\* What the tests and comments say of evidence: one organizational fact funds
\* exactly one standing-authorized act.
OneFactOneAct ==
    \A q, r \in Request : q # r /\ under[q] # 0 /\ under[r] # 0
        => EvidenceOf[q] # EvidenceOf[r]

\* What the test says of withdrawal: it stops issuance immediately.
WithdrawalStopsIssuance ==
    [][\A r \in Request : under'[r] # under[r] => InForce]_vars
=============================================================================
