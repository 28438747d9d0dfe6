----------------------- MODULE StandingMutation_proofs -----------------------
(***************************************************************************)
(* Proofs about StandingMutation, for every set of requests, facts,        *)
(* handlers and bounds.  What an envelope promises rests on one argument:  *)
(* behind the row lock the counts an issuance made stay true until it      *)
(* issues, because nothing else issues under that revision meanwhile and   *)
(* nothing ever edits a revision.                                          *)
(***************************************************************************)
EXTENDS StandingMutation, FiniteSetTheorems, TLAPS

(***************************************************************************)
(* The inductive invariant                                                 *)
(***************************************************************************)

\* An agent whose row is shared is in service.
SharedInService == AgentShared => service = "in-service"

\* Issuances know their request, and the revision they chose exists.
IssuanceShape ==
    \A h \in Handler :
        /\ handler[h].at \in {"begun", "shared", "seeking", "counted"} => handler[h].req \in Request
        /\ handler[h].at \in {"seeking", "counted"} => handler[h].rev \in 1 .. Len(envelope)

\* A revision's lock has one holder.
OneCounts ==
    \A g, h \in Handler :
        At(g, "counted") /\ At(h, "counted") /\ handler[g].rev = handler[h].rev => g = h

\* What an issuance counted behind the lock is still so.
CountsHold ==
    \A h \in Handler, v \in Nat, r \in Request, now \in Nat :
        /\ At(h, "counted")
        /\ handler[h].rev = v /\ handler[h].req = r /\ handler[h].now = now
        => Admits(v, r, now)

\* Permits name revisions that exist; an undecided request names none.
UnderKnown ==
    \A r \in Request :
        /\ under[r] <= Len(envelope)
        /\ request[r] = "pending" => under[r] = 0

\* Whatever the agent's service, nothing usable is older than its era.
OfThisEra ==
    /\ Len(signedIn) = Len(envelope)
    /\ \A r \in Request : permit[r] = "active" => grantedIn[r] = era
    /\ ValidEnvelope => signedIn[Len(envelope)] = era

IInv ==
    /\ TypeOK
    /\ SharedInService
    /\ IssuanceShape
    /\ OneCounts
    /\ CountsHold
    /\ UnderKnown
    /\ OfThisEra
    /\ EnvelopeBounds

(***************************************************************************)
(* Typing                                                                  *)
(***************************************************************************)

LEMMA TypeInit == Init => TypeOK
BY DEF Init, TypeOK, HandlerState, Idle, Envelope

\* What starting, advancing and ending do to the handlers.
LEMMA Begins ==
  ASSUME TypeOK, NEW h \in Handler, NEW at \in {"begun", "authorizing", "withdrawing"},
         NEW r \in Request \cup {NoOne}, NEW now \in Nat, NEW v \in Nat,
         Begin(h, at, r, now, v)
  PROVE  /\ handler' \in [Handler -> HandlerState]
         /\ handler[h].at = "idle"
         /\ handler'[h] = [at |-> at, req |-> r, now |-> now, rev |-> v]
         /\ \A g \in Handler : g # h => handler'[g] = handler[g]
<1> DEFINE new == [at |-> at, req |-> r, now |-> now, rev |-> v]
<1>1. new \in HandlerState
  BY DEF TypeOK, HandlerState
<1>2. handler' = [handler EXCEPT ![h] = new] /\ handler[h].at = "idle"
  BY DEF Begin, At
<1>3. handler \in [Handler -> HandlerState]
  BY DEF TypeOK
<1> HIDE DEF new
<1>4. handler' \in [Handler -> HandlerState] /\ handler'[h] = new
      /\ \A g \in Handler : g # h => handler'[g] = handler[g]
  BY <1>1, <1>2, <1>3
<1>5. QED
  BY <1>2, <1>4 DEF new

LEMMA Advances ==
  ASSUME TypeOK, NEW h \in Handler, NEW at \in {"shared", "seeking", "counted"},
         NEW v \in Nat, Advance(h, at, v)
  PROVE  /\ handler' \in [Handler -> HandlerState]
         /\ handler'[h] = [at |-> at, req |-> handler[h].req, now |-> handler[h].now, rev |-> v]
         /\ \A g \in Handler : g # h => handler'[g] = handler[g]
<1> DEFINE new == [at |-> at, req |-> handler[h].req, now |-> handler[h].now, rev |-> v]
<1>1. handler \in [Handler -> HandlerState] /\ handler[h] \in HandlerState
  BY DEF TypeOK
<1>2. new \in HandlerState
  BY <1>1 DEF HandlerState
<1>3. handler' = [handler EXCEPT ![h] = new]
  BY <1>1 DEF Advance
<1> HIDE DEF new
<1>4. handler' \in [Handler -> HandlerState] /\ handler'[h] = new
      /\ \A g \in Handler : g # h => handler'[g] = handler[g]
  BY <1>1, <1>2, <1>3
<1>5. QED
  BY <1>4 DEF new

LEMMA Ends ==
  ASSUME TypeOK, NEW h \in Handler, Finish(h)
  PROVE  /\ handler' \in [Handler -> HandlerState]
         /\ handler'[h].at = "idle"
         /\ \A g \in Handler : g # h => handler'[g] = handler[g]
<1>1. Idle \in HandlerState /\ Idle.at = "idle"
  BY DEF HandlerState, Idle
<1>2. QED
  BY <1>1 DEF TypeOK, Finish

\* Appending a revision keeps the lineage a lineage, and every older revision.
LEMMA Appends ==
  ASSUME TypeOK, NEW h \in Handler, NEW state \in {"active", "withdrawn"}, NEW b \in Bounds,
         AppendRevision(h, state, b)
  PROVE  /\ envelope' \in Seq(Envelope) /\ signedIn' \in Seq(Nat)
         /\ Len(envelope') = Len(envelope) + 1 /\ Len(signedIn') = Len(signedIn) + 1
         /\ envelope'[Len(envelope')] = [state |-> state, terms |-> b, shown |-> handler[h].rev]
         /\ signedIn'[Len(signedIn')] = era
         /\ \A v \in 1 .. Len(envelope) : envelope'[v] = envelope[v]
<1> DEFINE e == [state |-> state, terms |-> b, shown |-> handler[h].rev]
<1>1. handler[h].rev \in Nat
  BY DEF TypeOK, HandlerState
<1>2. e \in Envelope
  BY <1>1 DEF Envelope
<1>3. envelope' = Append(envelope, e) /\ signedIn' = Append(signedIn, era)
  BY DEF AppendRevision
<1>4. envelope \in Seq(Envelope) /\ signedIn \in Seq(Nat) /\ era \in Nat
  BY DEF TypeOK
<1> HIDE DEF e
<1>5. /\ envelope' \in Seq(Envelope) /\ signedIn' \in Seq(Nat)
      /\ Len(envelope') = Len(envelope) + 1 /\ Len(signedIn') = Len(signedIn) + 1
      /\ envelope'[Len(envelope')] = e /\ signedIn'[Len(signedIn')] = era
      /\ \A v \in 1 .. Len(envelope) : envelope'[v] = envelope[v]
  BY <1>2, <1>3, <1>4
<1>6. QED
  BY <1>5 DEF e

\* Every revision, the effective one too, is within the bounds a human may sign.
LEMMA EffectiveTerms ==
  ASSUME TypeOK, InForce
  PROVE  envelope[Len(envelope)] \in Envelope /\ envelope[Len(envelope)].terms \in Bounds
<1>1. envelope[Len(envelope)] \in Envelope
  BY DEF TypeOK, InForce
<1>2. QED
  BY <1>1 DEF Envelope

\* The bounds of a revision are numbers.
LEMMA SignedBounds ==
  ASSUME NEW e \in Envelope
  PROVE  /\ e.terms \in Bounds
         /\ e.terms.from \in Nat /\ e.terms.until \in Nat
         /\ e.terms.acts \in Nat /\ e.terms.every \in Nat
<1>1. e.terms \in Bounds
  BY DEF Envelope
<1>2. e.terms \in [from : Nat, until : Nat, acts : Nat, every : Nat]
  BY <1>1, StandingAssumption
<1>3. QED
  BY <1>1, <1>2

\* What a transaction that writes the lineage does, whichever way.
Writes(h, state, b) ==
  /\ handler[h].rev = Len(envelope)
  /\ ~EnvelopeLocked(Len(envelope))
  /\ state = "withdrawn" => InForce /\ b = envelope[Len(envelope)].terms
  /\ state = "active" => service = "in-service"
  /\ AppendRevision(h, state, b)
  /\ Finish(h)
  /\ UNCHANGED <<permits, agent, clock>>

LEMMA Writers ==
  ASSUME TypeOK, NEW h \in Handler,
         (\E b \in Bounds : AuthorizeStandingMutation(h, b)) \/ WithdrawStandingMutation(h)
  PROVE  \E state \in {"active", "withdrawn"}, b \in Bounds : Writes(h, state, b)
<1>1. ASSUME NEW b \in Bounds, AuthorizeStandingMutation(h, b) PROVE Writes(h, "active", b)
  BY <1>1 DEF AuthorizeStandingMutation, Writes
<1>2. ASSUME WithdrawStandingMutation(h)
      PROVE  /\ envelope[Len(envelope)].terms \in Bounds
             /\ Writes(h, "withdrawn", envelope[Len(envelope)].terms)
  BY <1>2, EffectiveTerms DEF WithdrawStandingMutation, Writes
<1>3. QED
  BY <1>1, <1>2

LEMMA TypeStep == TypeOK /\ [Next]_vars => TypeOK'
<1> SUFFICES ASSUME TypeOK, [Next]_vars PROVE TypeOK'
  OBVIOUS
<1>1. ASSUME NEW h \in Handler, Handle(h) PROVE TypeOK'
  <2>1. ASSUME NEW r \in Request, BeginIssuance(h, r) PROVE TypeOK'
    BY <2>1, Begins DEF BeginIssuance, TypeOK, permits, lineage, agent
  <2>2. ASSUME HoldAgent(h) PROVE TypeOK'
    BY <2>2, Advances DEF HoldAgent, TypeOK, permits, lineage, agent
  <2>3. ASSUME SeekEnvelope(h) PROVE TypeOK'
    <3>1. Len(envelope) \in Nat
      BY DEF TypeOK
    <3>2. QED
      BY <2>3, <3>1, Advances DEF SeekEnvelope, TypeOK, permits, lineage, agent
  <2>4. ASSUME LockEnvelope(h) PROVE TypeOK'
    <3>1. handler[h].rev \in Nat
      BY DEF TypeOK, HandlerState
    <3>2. QED
      BY <2>4, <3>1, Advances DEF LockEnvelope, TypeOK, permits, lineage, agent
  <2>5. ASSUME IssuePermit(h) PROVE TypeOK'
    <3>1. handler' \in [Handler -> HandlerState]
      BY <2>5, Ends DEF IssuePermit
    <3>2. handler[h].rev \in Nat /\ handler[h].now \in Nat
      BY DEF TypeOK, HandlerState
    <3>3. QED
      BY <2>5, <3>1, <3>2 DEF IssuePermit, TypeOK, lineage, agent
  <2>6. ASSUME NEW next \in {"authorizing", "withdrawing"}, BeginWrite(h, next) PROVE TypeOK'
    <3>1. Len(envelope) \in Nat
      BY DEF TypeOK
    <3>2. Begin(h, next, NoOne, 0, Len(envelope)) /\ UNCHANGED <<permits, lineage, agent, clock>>
      BY <2>6 DEF BeginWrite
    <3>3. NoOne \in Request \cup {NoOne} /\ next \in {"begun", "authorizing", "withdrawing"}
      OBVIOUS
    <3>4. handler' \in [Handler -> HandlerState]
      BY <3>1, <3>2, <3>3, Begins
    <3>5. QED
      BY <3>2, <3>4 DEF TypeOK, permits, lineage, agent
  <2>7. ASSUME (\E b \in Bounds : AuthorizeStandingMutation(h, b)) \/ WithdrawStandingMutation(h)
        PROVE  TypeOK'
    <3>1. PICK state \in {"active", "withdrawn"}, b \in Bounds : Writes(h, state, b)
      BY <2>7, Writers
    <3>2. envelope' \in Seq(Envelope) /\ signedIn' \in Seq(Nat)
      BY <3>1, Appends DEF Writes
    <3>3. handler' \in [Handler -> HandlerState]
      BY <3>1, Ends DEF Writes
    <3>4. QED
      BY <3>1, <3>2, <3>3 DEF Writes, TypeOK, permits, agent
  <2>9. ASSUME Abort(h) PROVE TypeOK'
    BY <2>9, Ends DEF Abort, TypeOK, permits, lineage, agent
  <2>10. QED
    BY <1>1, <2>1, <2>2, <2>3, <2>4, <2>5, <2>6, <2>7, <2>9 DEF Handle
<1>2. ASSUME Environment PROVE TypeOK'
  <2>1. ASSUME NEW r \in Request, ApproveActionRequest(r) PROVE TypeOK'
    BY <2>1 DEF ApproveActionRequest, TypeOK, lineage, agent
  <2>2. ASSUME NEW r \in Request, RejectActionRequest(r) \/ EndPermit(r) PROVE TypeOK'
    BY <2>2 DEF RejectActionRequest, EndPermit, TypeOK, lineage, agent
  <2>3. ASSUME SuspendDurableAgentIdentity \/ ReactivateDurableAgentIdentity PROVE TypeOK'
    BY <2>3 DEF SuspendDurableAgentIdentity, ReactivateDurableAgentIdentity, TypeOK,
                permits, lineage
  <2>4. ASSUME Tick PROVE TypeOK'
    BY <2>4 DEF Tick, TypeOK, permits, lineage, agent
  <2>5. QED
    BY <1>2, <2>1, <2>2, <2>3, <2>4 DEF Environment
<1>3. CASE UNCHANGED vars
  BY <1>3 DEF vars, TypeOK
<1>4. QED
  BY <1>1, <1>2, <1>3 DEF Next

\* Every row, revision and handler keeps its type.
THEOREM TypeCorrect == Spec => []TypeOK
BY TypeInit, TypeStep, PTL DEF Spec

\* Each way a step may leave the lineage and the agent's service.
LEMMA LineageMoves ==
  ASSUME TypeOK, [Next]_vars
  PROVE  /\ \/ UNCHANGED lineage
            \/ \E h \in Handler, state \in {"active", "withdrawn"}, b \in Bounds :
                   Writes(h, state, b)
         /\ \/ UNCHANGED agent
            \/ SuspendDurableAgentIdentity
            \/ ReactivateDurableAgentIdentity
<1>1. ASSUME NEW h \in Handler, Handle(h)
      PROVE  /\ \/ UNCHANGED lineage
                \/ \E state \in {"active", "withdrawn"}, b \in Bounds : Writes(h, state, b)
             /\ UNCHANGED agent
  <2>1. CASE (\E b \in Bounds : AuthorizeStandingMutation(h, b)) \/ WithdrawStandingMutation(h)
    BY <2>1, Writers DEF Writes
  <2>2. CASE /\ ~\E b \in Bounds : AuthorizeStandingMutation(h, b)
             /\ ~WithdrawStandingMutation(h)
    BY <1>1, <2>2
       DEF Handle, BeginIssuance, HoldAgent, SeekEnvelope, LockEnvelope, IssuePermit, BeginWrite, Abort
  <2>3. QED
    BY <2>1, <2>2
<1>2. CASE Environment \/ UNCHANGED vars
  BY <1>2 DEF Environment, ApproveActionRequest, RejectActionRequest, EndPermit, vars, lineage, agent,
           SuspendDurableAgentIdentity, ReactivateDurableAgentIdentity, Tick
<1>3. QED
  BY <1>1, <1>2 DEF Next

(***************************************************************************)
(* What no step of another transaction changes under a revision            *)
(***************************************************************************)

\* What a revision promises, for one revision.
Within(v) ==
    /\ Cardinality(ActsUnder(v)) <= envelope[v].terms.acts
    /\ \A q, r \in ActsUnder(v) : q # r =>
           /\ EvidenceOf[q] # EvidenceOf[r]
           /\ \/ issuedAt[q] + envelope[v].terms.every <= issuedAt[r]
              \/ issuedAt[r] + envelope[v].terms.every <= issuedAt[q]

\* The revision, and the acts and dates under it, are as they were.
Kept(v) ==
    /\ envelope'[v] = envelope[v]
    /\ ActsUnder(v)' = ActsUnder(v)
    /\ \A q \in ActsUnder(v) : issuedAt'[q] = issuedAt[q]

LEMMA KeptWithin == ASSUME NEW v, Within(v), Kept(v) PROVE Within(v)'
BY DEF Within, Kept

LEMMA KeptAdmits ==
  ASSUME NEW v, NEW r, NEW now, Admits(v, r, now), Kept(v) PROVE Admits(v, r, now)'
BY DEF Admits, Kept

\* A decision touches no act under a revision: it is about a request that
\* names none.
LEMMA RowsKept ==
  ASSUME TypeOK, UnderKnown, NEW v \in 1 .. Len(envelope), envelope'[v] = envelope[v],
         \A q \in Request : /\ under'[q] = v <=> under[q] = v
                            /\ under[q] = v => issuedAt'[q] = issuedAt[q]
  PROVE  Kept(v)
BY DEF Kept, ActsUnder

LEMMA KeptElsewhere ==
  ASSUME IInv, NEW h \in Handler, IssuePermit(h), NEW v \in 1 .. Len(envelope),
         v # handler[h].rev
  PROVE  Kept(v)
<1>1. TypeOK /\ UnderKnown
  BY DEF IInv
<1>2. under[handler[h].req] = 0 /\ handler[h].req \in Request
  BY DEF IInv, IssuanceShape, IssuePermit, At, UnderKnown
<1>3. v # 0
  OBVIOUS
<1>4. \A q \in Request : /\ under'[q] = v <=> under[q] = v
                         /\ under[q] = v => issuedAt'[q] = issuedAt[q]
  BY <1>1, <1>2, <1>3 DEF IssuePermit, TypeOK
<1>5. envelope'[v] = envelope[v]
  BY DEF IssuePermit, lineage
<1>6. QED
  BY <1>1, <1>4, <1>5, RowsKept

LEMMA KeptOtherwise ==
  ASSUME IInv, [Next]_vars, ~\E h \in Handler : IssuePermit(h), NEW v \in 1 .. Len(envelope)
  PROVE  Kept(v)
<1>1. TypeOK /\ UnderKnown
  BY DEF IInv
<1>2. v # 0 /\ v \in Nat
  BY <1>1 DEF TypeOK
<1>3. ASSUME NEW r \in Request, ApproveActionRequest(r) PROVE Kept(v)
  <2>1. under[r] = 0 /\ UNCHANGED <<under, envelope>>
    BY <1>1, <1>3 DEF UnderKnown, ApproveActionRequest, lineage
  <2>2. \A q \in Request : under[q] = v => issuedAt'[q] = issuedAt[q]
    BY <1>1, <1>2, <1>3, <2>1 DEF ApproveActionRequest, TypeOK
  <2>3. QED
    BY <1>1, <2>1, <2>2, RowsKept
<1>4. ASSUME NEW h \in Handler, NEW state \in {"active", "withdrawn"}, NEW b \in Bounds,
             Writes(h, state, b)
      PROVE  Kept(v)
  BY <1>1, <1>4, Appends, RowsKept DEF Writes, permits
<1>5. ASSUME UNCHANGED <<under, issuedAt, envelope>> PROVE Kept(v)
  BY <1>1, <1>5, RowsKept
<1>6. ASSUME NEW h \in Handler, Handle(h) PROVE Kept(v)
  <2>1. ASSUME (\E b \in Bounds : AuthorizeStandingMutation(h, b)) \/ WithdrawStandingMutation(h)
        PROVE  Kept(v)
    BY <1>1, <1>4, <2>1, Writers
  <2>3. ASSUME \/ \E r \in Request : BeginIssuance(h, r)
               \/ HoldAgent(h) \/ SeekEnvelope(h) \/ LockEnvelope(h)
               \/ \E next \in {"authorizing", "withdrawing"} : BeginWrite(h, next)
               \/ Abort(h)
        PROVE  Kept(v)
    <3>1. UNCHANGED <<under, issuedAt, envelope>>
      BY <2>3 DEF BeginIssuance, HoldAgent, SeekEnvelope, LockEnvelope, BeginWrite, Abort,
                  permits, lineage
    <3>2. QED
      BY <1>5, <3>1
  <2>4. QED
    BY <1>6, <2>1, <2>3 DEF Handle
<1>7. ASSUME NEW r \in Request, RejectActionRequest(r) \/ EndPermit(r) PROVE Kept(v)
  <2>1. UNCHANGED <<under, issuedAt, envelope>>
    BY <1>7 DEF RejectActionRequest, EndPermit, lineage
  <2>2. QED
    BY <1>5, <2>1
<1>8. ASSUME SuspendDurableAgentIdentity \/ ReactivateDurableAgentIdentity \/ Tick \/ UNCHANGED vars
      PROVE  Kept(v)
  <2>1. UNCHANGED <<under, issuedAt, envelope>>
    BY <1>8 DEF SuspendDurableAgentIdentity, ReactivateDurableAgentIdentity, Tick, vars,
                permits, lineage
  <2>2. QED
    BY <1>5, <2>1
<1>9. QED
  BY <1>3, <1>6, <1>7, <1>8 DEF Next, Environment

\* The issuance itself keeps its revision's promise: that is what it counted.
LEMMA IssueWithin ==
  ASSUME IInv, NEW h \in Handler, IssuePermit(h), NEW v \in 1 .. Len(envelope),
         handler[h].rev = v, Within(v)
  PROVE  Within(v)'
<1> DEFINE r == handler[h].req
           now == handler[h].now
<1>1. TypeOK /\ UnderKnown
  BY DEF IInv
<1>2. r \in Request /\ now \in Nat /\ v \in Nat /\ v # 0
  BY <1>1 DEF IInv, IssuanceShape, IssuePermit, At, TypeOK, HandlerState
<1>3. under[r] = 0 /\ At(h, "counted")
  BY <1>1, <1>2 DEF UnderKnown, IssuePermit
<1>4. Admits(v, r, now)
  BY <1>2, <1>3 DEF IInv, CountsHold
<1>5. /\ envelope' = envelope
      /\ under' = [under EXCEPT ![r] = v]
      /\ issuedAt' = [issuedAt EXCEPT ![r] = now]
  BY DEF IssuePermit, lineage
<1> HIDE DEF r, now
<1>6. ActsUnder(v)' = ActsUnder(v) \cup {r} /\ r \notin ActsUnder(v)
  BY <1>1, <1>2, <1>3, <1>5 DEF ActsUnder, TypeOK
<1>7. issuedAt'[r] = now /\ \A q \in ActsUnder(v) : issuedAt'[q] = issuedAt[q]
  BY <1>1, <1>2, <1>5, <1>6 DEF TypeOK, ActsUnder
<1>8. Cardinality(ActsUnder(v)') <= envelope[v].terms.acts
  <2>1. IsFiniteSet(ActsUnder(v))
    BY StandingAssumption, FS_Subset DEF ActsUnder
  <2>2. Cardinality(ActsUnder(v) \cup {r}) = Cardinality(ActsUnder(v)) + 1
    BY <1>6, <2>1, FS_AddElement
  <2>3. Cardinality(ActsUnder(v)) \in Nat /\ envelope[v].terms.acts \in Nat
    <3>1. Cardinality(ActsUnder(v)) \in Nat
      BY <2>1, FS_CardinalityType
    <3>2. envelope[v] \in Envelope
      BY <1>1, <1>2 DEF TypeOK
    <3>3. QED
      BY <3>1, <3>2, SignedBounds
  <2>4. QED
    BY <1>4, <1>6, <2>2, <2>3 DEF Admits
<1>9. ASSUME NEW p \in ActsUnder(v)', NEW q \in ActsUnder(v)', p # q
      PROVE  /\ EvidenceOf[p] # EvidenceOf[q]
             /\ \/ issuedAt'[p] + envelope[v].terms.every <= issuedAt'[q]
                \/ issuedAt'[q] + envelope[v].terms.every <= issuedAt'[p]
  <2>1. CASE p \in ActsUnder(v) /\ q \in ActsUnder(v)
    <3>1. issuedAt'[p] = issuedAt[p] /\ issuedAt'[q] = issuedAt[q]
      BY <1>7, <2>1
    <3>2. QED
      BY <1>9, <2>1, <3>1 DEF Within
  <2>2. CASE p = r
    <3>1. q \in ActsUnder(v)
      BY <1>6, <1>9, <2>2
    <3>2. EvidenceOf[q] # EvidenceOf[r] /\ issuedAt[q] + envelope[v].terms.every <= now
      BY <1>4, <3>1 DEF Admits
    <3>3. QED
      BY <1>7, <2>2, <3>1, <3>2
  <2>3. CASE q = r
    <3>1. p \in ActsUnder(v)
      BY <1>6, <1>9, <2>3
    <3>2. EvidenceOf[p] # EvidenceOf[r] /\ issuedAt[p] + envelope[v].terms.every <= now
      BY <1>4, <3>1 DEF Admits
    <3>3. QED
      BY <1>7, <2>3, <3>1, <3>2
  <2>4. QED
    BY <1>6, <2>1, <2>2, <2>3
<1>10. QED
  BY <1>5, <1>8, <1>9 DEF Within

LEMMA BoundsStep == IInv /\ [Next]_vars => EnvelopeBounds'
<1> SUFFICES ASSUME IInv, [Next]_vars PROVE EnvelopeBounds'
  OBVIOUS
<1>1. TypeOK /\ UnderKnown /\ TypeOK' /\ \A v \in 1 .. Len(envelope) : Within(v)
  BY TypeStep DEF IInv, EnvelopeBounds, Within, TypeOK
<1>2. ASSUME NEW v \in 1 .. Len(envelope) PROVE Within(v)'
  <2>1. CASE \E h \in Handler : IssuePermit(h) /\ handler[h].rev = v
    BY <1>1, <1>2, <2>1, IssueWithin
  <2>2. CASE \E h \in Handler : IssuePermit(h) /\ handler[h].rev # v
    BY <1>1, <1>2, <2>2, KeptElsewhere, KeptWithin
  <2>3. CASE ~\E h \in Handler : IssuePermit(h)
    BY <1>1, <1>2, <2>3, KeptOtherwise, KeptWithin
  <2>4. QED
    BY <2>1, <2>2, <2>3
<1>3. ASSUME NEW h \in Handler, NEW state \in {"active", "withdrawn"}, NEW b \in Bounds,
             Writes(h, state, b), NEW v \in Nat, v = Len(envelope')
      PROVE  Len(envelope') = Len(envelope) + 1 /\ Within(v)'
  <2>1. envelope'[v].terms = b /\ Len(envelope') = Len(envelope) + 1
    <3>1. AppendRevision(h, state, b)
      BY <1>3 DEF Writes
    <3>2. envelope'[v] = [state |-> state, terms |-> b, shown |-> handler[h].rev]
          /\ Len(envelope') = Len(envelope) + 1
      BY <1>1, <1>3, <3>1, Appends
    <3>3. QED
      BY <3>2
  <2>2. ASSUME NEW r \in Request PROVE under'[r] # v
    BY <1>1, <1>3, <2>1 DEF UnderKnown, TypeOK, permits, Writes
  <2>3. ActsUnder(v)' = {}
    BY <2>2 DEF ActsUnder
  <2>4. Cardinality({}) = 0 /\ b.acts \in Nat
    BY FS_EmptySet, StandingAssumption
  <2>5. QED
    BY <2>1, <2>3, <2>4 DEF Within
<1>4. ASSUME NEW v \in Nat, v = Len(envelope'), Len(envelope') # Len(envelope)
      PROVE  Len(envelope') = Len(envelope) + 1 /\ Within(v)'
  <2>1. PICK h \in Handler, state \in {"active", "withdrawn"}, b \in Bounds : Writes(h, state, b)
    <3>1. ~UNCHANGED envelope
      BY <1>4
    <3>2. QED
      BY <1>1, <3>1, LineageMoves DEF lineage
  <2>2. QED
    BY <1>3, <1>4, <2>1
<1>5. DOMAIN envelope' = 1 .. Len(envelope') /\ Len(envelope) \in Nat /\ Len(envelope') \in Nat
  BY <1>1 DEF TypeOK
<1> DEFINE old == Len(envelope)
           new == Len(envelope')
<1>6. \A v \in 1 .. new : Within(v)'
  <2>1. old \in Nat /\ new \in Nat
    BY <1>5
  <2>2. \A v \in 1 .. old : Within(v)'
    BY <1>2
  <2>3. \A v \in Nat : v = new /\ new # old => new = old + 1 /\ Within(v)'
    BY <1>4
  <2> HIDE DEF old, new
  <2>4. SUFFICES ASSUME NEW v \in 1 .. new, v \notin 1 .. old PROVE Within(v)'
    BY <2>2
  <2>5. new # old /\ new = old + 1
    BY <2>1, <2>3, <2>4
  <2>6. v = new /\ v \in Nat
    BY <2>1, <2>4, <2>5
  <2>7. QED
    BY <2>3, <2>5, <2>6
<1>7. QED
  BY <1>5, <1>6 DEF EnvelopeBounds, Within

(***************************************************************************)
(* The rest of the invariant, step by step                                 *)
(***************************************************************************)

LEMMA InductiveInit == Init => IInv
<1> SUFFICES ASSUME Init PROVE IInv
  OBVIOUS
<1>1. TypeOK
  BY TypeInit
<1>2. /\ SharedInService /\ IssuanceShape /\ OneCounts /\ CountsHold
  BY DEF Init, Idle, SharedInService, IssuanceShape, OneCounts, CountsHold, At
<1>3. Len(envelope) = 0 /\ DOMAIN envelope = {}
  BY DEF Init
<1>4. UnderKnown /\ OfThisEra /\ EnvelopeBounds
  BY <1>3 DEF Init, UnderKnown, OfThisEra, ValidEnvelope, InForce, EnvelopeBounds
<1>5. QED
  BY <1>1, <1>2, <1>4 DEF IInv

\* A step that keeps the lineage's length, and leaves each handler idle,
\* writing, or as it was, leaves the shapes alone.
LEMMA Quiet ==
  ASSUME IInv, TypeOK', Len(envelope') \in {Len(envelope), Len(envelope) + 1},
         \A h \in Handler : \/ handler'[h] = handler[h]
                            \/ handler'[h].at \in {"idle", "authorizing", "withdrawing"}
  PROVE  IssuanceShape' /\ OneCounts'
<1>1. Len(envelope) \in Nat
  BY DEF IInv, TypeOK
<1>2. IssuanceShape'
  BY <1>1 DEF IInv, IssuanceShape
<1>3. OneCounts'
  BY DEF IInv, OneCounts, At
<1>4. QED
  BY <1>2, <1>3

\* Counts stay true for the handlers that stay where they were.
LEMMA CountsStay ==
  ASSUME IInv, NEW g \in Handler, At(g, "counted"), handler'[g] = handler[g],
         Kept(handler[g].rev)
  PROVE  \A v \in Nat, r \in Request, now \in Nat :
            /\ handler'[g].rev = v /\ handler'[g].req = r /\ handler'[g].now = now
            => Admits(v, r, now)'
<1> SUFFICES ASSUME NEW v \in Nat, NEW r \in Request, NEW now \in Nat,
                    handler'[g].rev = v, handler'[g].req = r, handler'[g].now = now
             PROVE  Admits(v, r, now)'
  OBVIOUS
<1>1. Admits(v, r, now)
  BY DEF IInv, CountsHold
<1>2. Kept(v)
  OBVIOUS
<1>3. QED
  BY <1>1, <1>2, KeptAdmits

\* Each way a step may leave a handler.
LEMMA HandlersMove ==
  ASSUME IInv, [Next]_vars, NEW g \in Handler
  PROVE  \/ handler'[g] = handler[g]
         \/ handler'[g].at \in {"idle", "authorizing", "withdrawing"}
         \/ handler'[g].at = "begun" /\ handler'[g].req \in Request
         \/ HoldAgent(g) /\ handler'[g].at = "shared" /\ handler'[g].req = handler[g].req
         \/ /\ SeekEnvelope(g) /\ handler'[g].at = "seeking" /\ handler'[g].req = handler[g].req
            /\ handler'[g].rev = Len(envelope)
         \/ LockEnvelope(g) /\ handler'[g] = [handler[g] EXCEPT !.at = "counted"]
<1>1. TypeOK
  BY DEF IInv
<1>2. Len(envelope) \in Nat /\ handler[g] \in HandlerState
  BY <1>1 DEF TypeOK
<1>3. ASSUME NEW h \in Handler, NEW r \in Request, BeginIssuance(h, r)
      PROVE  handler'[g] = handler[g] \/ (handler'[g].at = "begun" /\ handler'[g].req \in Request)
  <2>1. Begin(h, "begun", r, clock, 0) /\ clock \in Nat
    BY <1>1, <1>3 DEF BeginIssuance, TypeOK
  <2>2. /\ handler'[h] = [at |-> "begun", req |-> r, now |-> clock, rev |-> 0]
        /\ g # h => handler'[g] = handler[g]
    BY <1>1, <2>1, Begins
  <2>3. QED
    BY <2>2
<1>4. ASSUME NEW h \in Handler, HoldAgent(h)
      PROVE  \/ handler'[g] = handler[g]
             \/ HoldAgent(g) /\ handler'[g].at = "shared" /\ handler'[g].req = handler[g].req
  <2>1. Advance(h, "shared", 0)
    BY <1>4 DEF HoldAgent
  <2>2. /\ handler'[h] = [at |-> "shared", req |-> handler[h].req, now |-> handler[h].now, rev |-> 0]
        /\ g # h => handler'[g] = handler[g]
    BY <1>1, <2>1, Advances
  <2>3. QED
    BY <1>4, <2>2
<1>5. ASSUME NEW h \in Handler, SeekEnvelope(h)
      PROVE  \/ handler'[g] = handler[g]
             \/ /\ SeekEnvelope(g) /\ handler'[g].at = "seeking"
                /\ handler'[g].req = handler[g].req /\ handler'[g].rev = Len(envelope)
  <2>1. Advance(h, "seeking", Len(envelope))
    BY <1>5 DEF SeekEnvelope
  <2>2. /\ handler'[h] = [at |-> "seeking", req |-> handler[h].req, now |-> handler[h].now,
                          rev |-> Len(envelope)]
        /\ g # h => handler'[g] = handler[g]
    BY <1>1, <1>2, <2>1, Advances
  <2>3. QED
    BY <1>5, <2>2
<1>6. ASSUME NEW h \in Handler, LockEnvelope(h)
      PROVE  \/ handler'[g] = handler[g]
             \/ LockEnvelope(g) /\ handler'[g] = [handler[g] EXCEPT !.at = "counted"]
  <2>1. Advance(h, "counted", handler[h].rev) /\ handler[h].rev \in Nat
    BY <1>1, <1>6 DEF LockEnvelope, TypeOK, HandlerState
  <2>2. CASE g = h
    <3>1. handler'[g] = [at |-> "counted", req |-> handler[g].req, now |-> handler[g].now,
                         rev |-> handler[g].rev]
      BY <1>1, <2>1, <2>2, Advances
    <3>2. handler'[g] = [handler[g] EXCEPT !.at = "counted"]
      BY <1>2, <3>1 DEF HandlerState
    <3>3. QED
      BY <1>6, <2>2, <3>2
  <2>3. CASE g # h
    BY <1>1, <2>1, <2>3, Advances
  <2>4. QED
    BY <2>2, <2>3
<1>7. ASSUME NEW h \in Handler, NEW next \in {"authorizing", "withdrawing"}, BeginWrite(h, next)
      PROVE  handler'[g] = handler[g] \/ handler'[g].at \in {"idle", "authorizing", "withdrawing"}
  <2>1. Begin(h, next, NoOne, 0, Len(envelope))
    BY <1>7 DEF BeginWrite
  <2>2. NoOne \in Request \cup {NoOne} /\ next \in {"begun", "authorizing", "withdrawing"}
    OBVIOUS
  <2>3. /\ handler'[h] = [at |-> next, req |-> NoOne, now |-> 0, rev |-> Len(envelope)]
        /\ g # h => handler'[g] = handler[g]
    BY <1>1, <1>2, <2>1, <2>2, Begins
  <2>4. CASE g = h
    <3>1. handler'[g].at = next
      BY <2>3, <2>4
    <3>2. QED
      BY <3>1
  <2>5. QED
    BY <2>3, <2>4
<1>8. ASSUME NEW h \in Handler, Finish(h)
      PROVE  handler'[g] = handler[g] \/ handler'[g].at \in {"idle", "authorizing", "withdrawing"}
  BY <1>1, <1>8, Ends
<1>9. ASSUME UNCHANGED handler PROVE handler'[g] = handler[g]
  BY <1>9
<1>10. CASE Environment \/ UNCHANGED vars
  <2>1. UNCHANGED handler
    BY <1>10 DEF Environment, ApproveActionRequest, RejectActionRequest, EndPermit, vars,
             SuspendDurableAgentIdentity, ReactivateDurableAgentIdentity, Tick
  <2>2. QED
    BY <2>1
<1>11. ASSUME NEW h \in Handler, \/ IssuePermit(h) \/ \E b \in Bounds : AuthorizeStandingMutation(h, b)
                                 \/ WithdrawStandingMutation(h) \/ Abort(h)
       PROVE  Finish(h)
  BY <1>11 DEF IssuePermit, AuthorizeStandingMutation, WithdrawStandingMutation, Abort
<1>12. QED
  BY <1>3, <1>4, <1>5, <1>6, <1>7, <1>8, <1>10, <1>11 DEF Next, Handle

LEMMA Lengths ==
  ASSUME IInv, [Next]_vars
  PROVE  Len(envelope) \in Nat /\ Len(envelope') \in {Len(envelope), Len(envelope) + 1}
<1>1. TypeOK
  BY DEF IInv
<1>2. Len(envelope) \in Nat
  BY <1>1 DEF TypeOK
<1>3. ASSUME NEW h \in Handler, NEW state \in {"active", "withdrawn"}, NEW b \in Bounds,
             Writes(h, state, b)
      PROVE  Len(envelope') = Len(envelope) + 1
  BY <1>1, <1>3, Appends DEF Writes
<1>4. UNCHANGED lineage => Len(envelope') = Len(envelope)
  BY DEF lineage
<1>5. QED
  BY <1>1, <1>2, <1>3, <1>4, LineageMoves

LEMMA ShapeStep == IInv /\ [Next]_vars => SharedInService' /\ IssuanceShape' /\ OneCounts'
<1> SUFFICES ASSUME IInv, [Next]_vars PROVE SharedInService' /\ IssuanceShape' /\ OneCounts'
  OBVIOUS
<1>1. TypeOK /\ SharedInService /\ IssuanceShape /\ OneCounts
  BY DEF IInv
<1>2. SharedInService'
  <2>1. SUFFICES ASSUME NEW g \in Handler, handler'[g].at \in {"shared", "seeking", "counted"}
                 PROVE  service' = "in-service"
    BY DEF SharedInService, AgentShared
  <2>2. CASE HoldAgent(g)
    BY <2>2 DEF HoldAgent, agent
  <2>3. CASE ~HoldAgent(g)
    <3>1. handler[g].at \in {"shared", "seeking", "counted"}
      BY <2>1, <2>3, HandlersMove DEF SeekEnvelope, LockEnvelope, At
    <3>2. AgentShared /\ service = "in-service"
      BY <1>1, <3>1 DEF SharedInService, AgentShared
    <3>3. service' = service
      BY <1>1, <3>2, LineageMoves DEF agent, SuspendDurableAgentIdentity, ReactivateDurableAgentIdentity
    <3>4. QED
      BY <3>2, <3>3
  <2>4. QED
    BY <2>2, <2>3
<1>3. IssuanceShape'
  <2> DEFINE old == Len(envelope)
             new == Len(envelope')
  <2>1. SUFFICES ASSUME NEW g \in Handler
                 PROVE  /\ handler'[g].at \in {"begun", "shared", "seeking", "counted"}
                              => handler'[g].req \in Request
                        /\ handler'[g].at \in {"seeking", "counted"} => handler'[g].rev \in 1 .. new
    BY DEF IssuanceShape
  <2>2. old \in Nat /\ new \in {old, old + 1}
    BY Lengths
  <2>3. /\ handler[g].at \in {"begun", "shared", "seeking", "counted"} => handler[g].req \in Request
        /\ handler[g].at \in {"seeking", "counted"} => handler[g].rev \in 1 .. old
    BY <1>1 DEF IssuanceShape
  <2>4. CASE HoldAgent(g) /\ handler'[g].at = "shared" /\ handler'[g].req = handler[g].req
    BY <2>3, <2>4 DEF HoldAgent, At
  <2>5. CASE SeekEnvelope(g) /\ handler'[g].at = "seeking" /\ handler'[g].req = handler[g].req
             /\ handler'[g].rev = Len(envelope)
    <3>1. handler[g].at = "shared" /\ old > 0 /\ handler'[g].rev = old
      BY <2>5 DEF SeekEnvelope, At
    <3> HIDE DEF old, new
    <3>2. QED
      BY <2>2, <2>3, <2>5, <3>1
  <2>6. CASE LockEnvelope(g) /\ handler'[g] = [handler[g] EXCEPT !.at = "counted"]
    <3>1. handler[g].at = "seeking"
      BY <2>6 DEF LockEnvelope, At
    <3>2. handler[g] \in HandlerState
      BY <1>1 DEF TypeOK
    <3>3. handler'[g].req = handler[g].req /\ handler'[g].rev = handler[g].rev
      BY <2>6, <3>2 DEF HandlerState
    <3> HIDE DEF old, new
    <3>4. QED
      BY <2>2, <2>3, <3>1, <3>3
  <2>7. CASE handler'[g] = handler[g]
    <3> HIDE DEF old, new
    <3>1. QED
      BY <2>2, <2>3, <2>7
  <2>8. QED
    BY <2>4, <2>5, <2>6, <2>7, HandlersMove
<1>4. OneCounts'
  <2>1. SUFFICES ASSUME NEW g \in Handler, NEW h \in Handler,
                        handler'[g].at = "counted", handler'[h].at = "counted",
                        handler'[g].rev = handler'[h].rev, g # h
                 PROVE  FALSE
    BY DEF OneCounts, At
  <2>2. \A k \in {g, h} : handler'[k] = handler[k] \/ LockEnvelope(k)
    BY <2>1, HandlersMove
  <2>3. ASSUME NEW j \in Handler, NEW k \in Handler, j # k, LockEnvelope(j),
               handler'[k].at = "counted", handler'[k].rev = handler'[j].rev
        PROVE  FALSE
    <3>1. Advance(j, "counted", handler[j].rev) /\ handler[j].rev \in Nat
      BY <1>1, <2>3 DEF LockEnvelope, TypeOK, HandlerState
    <3>2. /\ handler'[j] = [at |-> "counted", req |-> handler[j].req, now |-> handler[j].now,
                            rev |-> handler[j].rev]
          /\ handler'[k] = handler[k]
      BY <1>1, <2>3, <3>1, Advances
    <3>3. EnvelopeLocked(handler[j].rev)
      BY <2>3, <3>2 DEF EnvelopeLocked, At
    <3>4. QED
      BY <2>3, <3>3 DEF LockEnvelope
  <2>4. CASE handler'[g] = handler[g] /\ handler'[h] = handler[h]
    BY <1>1, <2>1, <2>4 DEF OneCounts, At
  <2>5. QED
    BY <2>1, <2>2, <2>3, <2>4
<1>5. QED
  BY <1>2, <1>3, <1>4

LEMMA CountsStep == IInv /\ [Next]_vars => CountsHold'
<1> SUFFICES ASSUME IInv, [Next]_vars, NEW g \in Handler, handler'[g].at = "counted",
                    NEW v \in Nat, NEW r \in Request, NEW now \in Nat,
                    handler'[g].rev = v, handler'[g].req = r, handler'[g].now = now
             PROVE  Admits(v, r, now)'
  BY DEF CountsHold, At
<1>1. TypeOK /\ IssuanceShape /\ OneCounts
  BY DEF IInv
<1>2. CASE LockEnvelope(g) /\ handler'[g] = [handler[g] EXCEPT !.at = "counted"]
  <2>1. handler[g] \in HandlerState
    BY <1>1 DEF TypeOK
  <2>2. handler[g].rev = v /\ handler[g].req = r /\ handler[g].now = now
    BY <1>2, <2>1 DEF HandlerState
  <2>3. Admits(v, r, now) /\ UNCHANGED <<under, issuedAt, envelope>>
    BY <1>2, <2>2 DEF LockEnvelope, permits, lineage
  <2>4. QED
    BY <2>3 DEF Admits, ActsUnder
<1>3. CASE handler'[g] = handler[g]
  <2>1. At(g, "counted") /\ handler[g].rev \in 1 .. Len(envelope)
    BY <1>1, <1>3 DEF IssuanceShape, At
  <2>2. ASSUME NEW h \in Handler, IssuePermit(h) PROVE Kept(handler[g].rev)
    <3>1. handler'[h].at = "idle"
      BY <1>1, <2>2, Ends DEF IssuePermit
    <3>2. h # g /\ At(h, "counted")
      BY <2>2, <3>1 DEF IssuePermit
    <3>3. handler[h].rev # handler[g].rev
      BY <1>1, <2>1, <3>2 DEF OneCounts
    <3>4. QED
      BY <2>1, <2>2, <3>3, KeptElsewhere
  <2>3. Kept(handler[g].rev)
    BY <2>1, <2>2, KeptOtherwise
  <2>4. QED
    BY <1>3, <2>1, <2>3, CountsStay
<1>4. QED
  BY <1>2, <1>3, HandlersMove

LEMMA KnownStep == IInv /\ [Next]_vars => UnderKnown'
<1> SUFFICES ASSUME IInv, [Next]_vars PROVE UnderKnown'
  OBVIOUS
<1>1. TypeOK /\ UnderKnown /\ IssuanceShape
  BY DEF IInv
<1> DEFINE old == Len(envelope)
           new == Len(envelope')
<1>2. old \in Nat /\ new \in {old, old + 1} /\ \A q \in Request : under[q] \in Nat
  BY <1>1, Lengths DEF TypeOK
<1>3. ASSUME \A q \in Request : /\ under'[q] = under[q] \/ under'[q] \in 1 .. old
                                /\ request'[q] = "pending" => request[q] = "pending" /\ under'[q] = under[q]
      PROVE  UnderKnown'
  <2>1. \A q \in Request : under[q] <= old /\ (request[q] = "pending" => under[q] = 0)
    BY <1>1 DEF UnderKnown
  <2>2. \A q \in Request : under'[q] <= new /\ (request'[q] = "pending" => under'[q] = 0)
    <3> HIDE DEF old, new
    <3>1. QED
      BY <1>2, <1>3, <2>1
  <2>3. QED
    BY <2>2 DEF UnderKnown
<1>4. ASSUME NEW h \in Handler, IssuePermit(h) PROVE UnderKnown'
  <2>1. handler[h].rev \in 1 .. old /\ handler[h].req \in Request
    BY <1>1, <1>4 DEF IssuanceShape, IssuePermit, At
  <2>2. \A q \in Request : /\ under'[q] = under[q] \/ under'[q] \in 1 .. old
                           /\ request'[q] = "pending" => request[q] = "pending" /\ under'[q] = under[q]
    BY <1>1, <1>4, <2>1 DEF IssuePermit, TypeOK
  <2>3. QED
    BY <1>3, <2>2
<1>5. CASE ~\E h \in Handler : IssuePermit(h)
  <2>1. under' = under
    BY <1>5 DEF Next, Handle, Environment, BeginIssuance, HoldAgent, SeekEnvelope, LockEnvelope,
        BeginWrite, AuthorizeStandingMutation, WithdrawStandingMutation, Abort, ApproveActionRequest,
        RejectActionRequest, EndPermit, SuspendDurableAgentIdentity, ReactivateDurableAgentIdentity,
        Tick, vars, permits
  <2>2. \A q \in Request : request'[q] = "pending" => request[q] = "pending"
    <3>1. ASSUME NEW r \in Request, ApproveActionRequest(r) \/ RejectActionRequest(r) \/ EndPermit(r)
          PROVE  \A q \in Request : request'[q] = "pending" => request[q] = "pending"
      <4>1. request' = request \/ \E w \in {"approved", "rejected"} :
                                     request' = [request EXCEPT ![r] = w]
        BY <3>1 DEF ApproveActionRequest, RejectActionRequest, EndPermit
      <4>2. QED
        BY <1>1, <4>1 DEF TypeOK
    <3>2. (~\E r \in Request : ApproveActionRequest(r) \/ RejectActionRequest(r) \/ EndPermit(r))
          => request' = request
      BY <1>5 DEF Next, Handle, Environment, BeginIssuance, HoldAgent, SeekEnvelope, LockEnvelope,
          BeginWrite, AuthorizeStandingMutation, WithdrawStandingMutation, Abort,
          SuspendDurableAgentIdentity, ReactivateDurableAgentIdentity, Tick, vars, permits
    <3>3. QED
      BY <3>1, <3>2
  <2>3. QED
    BY <1>3, <2>1, <2>2
<1>6. QED
  BY <1>4, <1>5

LEMMA EraStep == IInv /\ [Next]_vars => OfThisEra'
<1> SUFFICES ASSUME IInv, [Next]_vars PROVE OfThisEra'
  OBVIOUS
<1>1. TypeOK /\ OfThisEra /\ TypeOK'
  BY TypeStep DEF IInv
<1>2. Len(signedIn') = Len(envelope')
  <2>1. UNCHANGED lineage => Len(signedIn') = Len(envelope')
    BY <1>1 DEF OfThisEra, lineage
  <2>2. ASSUME NEW h \in Handler, NEW state \in {"active", "withdrawn"}, NEW b \in Bounds,
               Writes(h, state, b)
        PROVE  Len(signedIn') = Len(envelope')
    BY <1>1, <2>2, Appends DEF OfThisEra, Writes
  <2>3. QED
    BY <1>1, <2>1, <2>2, LineageMoves
<1>3. \A r \in Request : permit'[r] = "active" => grantedIn'[r] = era'
  <2>1. ASSUME NEW h \in Handler, IssuePermit(h)
        PROVE  \A r \in Request : permit'[r] = "active" => grantedIn'[r] = era'
    BY <1>1, <2>1 DEF IssuePermit, OfThisEra, TypeOK, agent
  <2>2. ASSUME NEW q \in Request, ApproveActionRequest(q) \/ RejectActionRequest(q) \/ EndPermit(q)
        PROVE  \A r \in Request : permit'[r] = "active" => grantedIn'[r] = era'
    <3>1. CASE ApproveActionRequest(q)
      BY <1>1, <3>1 DEF ApproveActionRequest, OfThisEra, TypeOK, agent
    <3>2. CASE RejectActionRequest(q)
      BY <1>1, <3>2 DEF RejectActionRequest, OfThisEra, agent
    <3>3. CASE EndPermit(q)
      BY <1>1, <3>3 DEF EndPermit, OfThisEra, TypeOK, agent
    <3>4. QED
      BY <2>2, <3>1, <3>2, <3>3
  <2>3. CASE ReactivateDurableAgentIdentity
    BY <2>3 DEF ReactivateDurableAgentIdentity, permits
  <2>4. ASSUME UNCHANGED <<permit, grantedIn, era>>
        PROVE  \A r \in Request : permit'[r] = "active" => grantedIn'[r] = era'
    BY <1>1, <2>4 DEF OfThisEra
  <2>5. ASSUME ~\E h \in Handler : IssuePermit(h), ~ReactivateDurableAgentIdentity,
               ~\E q \in Request : ApproveActionRequest(q) \/ RejectActionRequest(q) \/ EndPermit(q)
        PROVE  UNCHANGED <<permit, grantedIn, era>>
    BY <2>5 DEF Next, Handle, Environment, BeginIssuance, HoldAgent, SeekEnvelope, LockEnvelope,
        BeginWrite, AuthorizeStandingMutation, WithdrawStandingMutation, Abort,
        SuspendDurableAgentIdentity, Tick, vars, permits, agent
  <2>6. QED
    BY <2>1, <2>2, <2>3, <2>4, <2>5
<1>4. ASSUME ValidEnvelope' PROVE signedIn'[Len(envelope')] = era'
  <2>1. CASE \E h \in Handler, state \in {"active", "withdrawn"}, b \in Bounds : Writes(h, state, b)
    BY <1>1, <1>2, <2>1, Appends DEF agent, Writes
  <2>2. CASE UNCHANGED lineage
    <3>1. clock' = clock \/ clock' = clock + 1
      BY DEF Next, Handle, Environment, BeginIssuance, HoldAgent, SeekEnvelope, LockEnvelope, IssuePermit,
        BeginWrite, AuthorizeStandingMutation, WithdrawStandingMutation, Abort, ApproveActionRequest,
        RejectActionRequest, EndPermit, SuspendDurableAgentIdentity, ReactivateDurableAgentIdentity,
        Tick, vars
    <3>2. ValidEnvelope
      <4>1. Len(envelope) > 0 /\ envelope[Len(envelope)].state = "active"
            /\ clock' < envelope[Len(envelope)].terms.until
        BY <1>4, <2>2 DEF ValidEnvelope, InForce, lineage
      <4>2. envelope[Len(envelope)] \in Envelope
        BY <1>1, <4>1 DEF TypeOK
      <4>3. envelope[Len(envelope)].terms.until \in Nat /\ clock \in Nat
        BY <1>1, <4>2, SignedBounds DEF TypeOK
      <4>4. clock < envelope[Len(envelope)].terms.until
        BY <3>1, <4>1, <4>3
      <4>5. QED
        BY <4>1, <4>4 DEF ValidEnvelope, InForce
    <3>3. ~ReactivateDurableAgentIdentity
      BY <3>2 DEF ReactivateDurableAgentIdentity
    <3>4. era' = era
      BY <1>1, <3>3, LineageMoves DEF agent, SuspendDurableAgentIdentity
    <3>5. QED
      BY <1>1, <2>2, <3>2, <3>4 DEF OfThisEra, lineage
  <2>3. QED
    BY <1>1, <2>1, <2>2, LineageMoves
<1>5. QED
  BY <1>2, <1>3, <1>4 DEF OfThisEra

LEMMA InductiveStep == IInv /\ [Next]_vars => IInv'
<1> SUFFICES ASSUME IInv, [Next]_vars PROVE IInv'
  OBVIOUS
<1>1. TypeOK'
  BY TypeStep DEF IInv
<1>2. QED
  BY <1>1, ShapeStep, CountsStep, KnownStep, EraStep, BoundsStep DEF IInv

\* The invariant holds in every state: the rows, the locks and the counts of
\* issuances agree.
THEOREM Inductive == Spec => []IInv
BY InductiveInit, InductiveStep, PTL DEF Spec

(***************************************************************************)
(* What follows                                                            *)
(***************************************************************************)

\* However many scans race for it, an envelope issues no more acts than its
\* quota, none on evidence it has used, and none closer than its cadence.
THEOREM BoundsHold == Spec => []EnvelopeBounds
<1>1. IInv => EnvelopeBounds
  BY DEF IInv
<1>2. QED
  BY <1>1, Inductive, PTL

\* Reactivating an agent revives no permit and no envelope from before.
THEOREM ReactivationRestoresNothing == Spec => []NothingRestored
<1>1. IInv => NothingRestored
  BY DEF IInv, OfThisEra, NothingRestored
<1>2. QED
  BY <1>1, Inductive, PTL

\* Permits are issued and envelopes signed only for an agent in service.
THEOREM ServesInService == Spec => GrantsInService
<1>1. IInv /\ [Next]_vars =>
        [\/ /\ \A r \in Request : permit'[r] = "active" => permit[r] = "active"
            /\ InForce' => envelope' = envelope
         \/ service = "in-service"]_vars
  <2> SUFFICES ASSUME IInv, [Next]_vars, service # "in-service"
               PROVE  /\ \A r \in Request : permit'[r] = "active" => permit[r] = "active"
                      /\ InForce' => envelope' = envelope
    OBVIOUS
  <2>1. TypeOK /\ ~AgentShared
    BY DEF IInv, SharedInService
  <2>2. ASSUME NEW h \in Handler, IssuePermit(h) PROVE FALSE
    BY <2>1, <2>2 DEF IssuePermit, At, AgentShared
  <2>3. ASSUME NEW h \in Handler, WithdrawStandingMutation(h)
        PROVE  permit' = permit /\ ~InForce'
    <3> DEFINE b == envelope[Len(envelope)].terms
    <3>1. b \in Bounds /\ AppendRevision(h, "withdrawn", b) /\ permit' = permit
      BY <2>1, <2>3, EffectiveTerms DEF WithdrawStandingMutation, permits
    <3> HIDE DEF b
    <3>2. envelope'[Len(envelope')] =
              [state |-> "withdrawn", terms |-> b, shown |-> handler[h].rev]
      BY <2>1, <3>1, Appends
    <3>3. QED
      BY <3>1, <3>2 DEF InForce
  <2>4. ASSUME NEW r \in Request, RejectActionRequest(r) \/ EndPermit(r)
        PROVE  /\ \A q \in Request : permit'[q] = "active" => permit[q] = "active"
               /\ envelope' = envelope
    BY <2>1, <2>4 DEF RejectActionRequest, EndPermit, TypeOK, lineage
  <2>5. ASSUME ~\E h \in Handler : IssuePermit(h) \/ WithdrawStandingMutation(h),
               ~\E r \in Request : RejectActionRequest(r) \/ EndPermit(r)
        PROVE  UNCHANGED <<permit, envelope>>
    BY <2>5 DEF Next, Handle, Environment, BeginIssuance, HoldAgent, SeekEnvelope, LockEnvelope,
        BeginWrite, AuthorizeStandingMutation, Abort, ApproveActionRequest,
        SuspendDurableAgentIdentity, ReactivateDurableAgentIdentity, Tick, vars, permits, lineage
  <2>6. QED
    BY <2>2, <2>3, <2>4, <2>5
<1>2. QED
  BY <1>1, Inductive, PTL DEF Spec, GrantsInService

\* A proposal is decided once, by a human or by the envelope.
THEOREM DecidesOnce == Spec => DecidedOnce
<1>1. TypeOK /\ [Next]_vars =>
        [\A r \in Request : request[r] # "pending" =>
            /\ request'[r] = request[r]
            /\ under'[r] = under[r]
            /\ permit[r] = "ended" => permit'[r] = "ended"]_vars
  <2> SUFFICES ASSUME TypeOK, [Next]_vars, NEW r \in Request, request[r] # "pending"
               PROVE  /\ request'[r] = request[r]
                      /\ under'[r] = under[r]
                      /\ permit[r] = "ended" => permit'[r] = "ended"
    OBVIOUS
  <2>1. ASSUME NEW h \in Handler, IssuePermit(h)
        PROVE  request'[r] = request[r] /\ under'[r] = under[r] /\ permit'[r] = permit[r]
    BY <2>1 DEF IssuePermit, TypeOK
  <2>2. ASSUME NEW q \in Request, ApproveActionRequest(q)
        PROVE  request'[r] = request[r] /\ under'[r] = under[r] /\ permit'[r] = permit[r]
    BY <2>2 DEF ApproveActionRequest, TypeOK
  <2>3. ASSUME NEW q \in Request, RejectActionRequest(q)
        PROVE  request'[r] = request[r] /\ under'[r] = under[r] /\ permit'[r] = permit[r]
    BY <2>3 DEF RejectActionRequest, TypeOK
  <2>4. ASSUME NEW q \in Request, EndPermit(q)
        PROVE  /\ request'[r] = request[r] /\ under'[r] = under[r]
               /\ permit[r] = "ended" => permit'[r] = "ended"
    BY <2>4 DEF EndPermit, TypeOK
  <2>5. ASSUME ~\E h \in Handler : IssuePermit(h),
               ~\E q \in Request : ApproveActionRequest(q) \/ RejectActionRequest(q) \/ EndPermit(q)
        PROVE  UNCHANGED <<request, under, permit>>
    BY <2>5 DEF Next, Handle, Environment, BeginIssuance, HoldAgent, SeekEnvelope, LockEnvelope,
        BeginWrite, AuthorizeStandingMutation, WithdrawStandingMutation, Abort,
        SuspendDurableAgentIdentity, ReactivateDurableAgentIdentity, Tick, vars, permits
  <2>6. QED
    BY <2>1, <2>2, <2>3, <2>4, <2>5
<1>2. QED
  BY <1>1, TypeCorrect, PTL DEF Spec, DecidedOnce

(***************************************************************************)
(* The envelope implements a lineage                                       *)
(***************************************************************************)

\* One transaction that appends is one step of RevisionLineage.
LEMMA WriteExtends ==
  ASSUME TypeOK, NEW h \in Handler, NEW state \in {"active", "withdrawn"}, NEW b \in Bounds,
         Writes(h, state, b)
  PROVE  Promise!Next
<1> DEFINE row == [state |-> state, terms |-> b, shown |-> Len(envelope)]
<1>1. envelope' = Append(envelope, row)
  BY DEF Writes, AppendRevision
<1> HIDE DEF row
<1>2. [l \in {"agent"} |-> envelope'] =
        [[l \in {"agent"} |-> envelope] EXCEPT !["agent"] = Append(@, row)]
  BY <1>1
<1>3. Promise!Extend("agent", row)
  BY <1>2 DEF Promise!Extend
<1>4. CASE state = "active"
  <2>1. Promise!Activate("agent", b)
    BY <1>3, <1>4 DEF Promise!Activate, row
  <2>2. QED
    BY <2>1 DEF Promise!Next
<1>5. CASE state = "withdrawn"
  <2>1. InForce /\ b = envelope[Len(envelope)].terms
    BY <1>5 DEF Writes
  <2>2. Promise!InForce("agent")
    BY <2>1 DEF InForce, Promise!InForce
  <2>3. Promise!Withdraw("agent", b)
    BY <1>3, <1>5, <2>1, <2>2 DEF Promise!Withdraw, row
  <2>4. QED
    BY <2>3 DEF Promise!Next
<1>6. QED
  BY <1>4, <1>5

\* Standing mutation authority keeps the promise of the other governed
\* authorities: every revision replaces the one its author was shown, and a
\* withdrawal ends what is in force and repeats its terms.
THEOREM LineageKept == Spec => KeepsLineage
<1> DEFINE mapped == [l \in {"agent"} |-> envelope]
<1>1. Init => Promise!Init
  BY DEF Init, Promise!Init
<1>2. TypeOK /\ [Next]_vars => [Promise!Next]_mapped
  <2> SUFFICES ASSUME TypeOK, [Next]_vars PROVE Promise!Next \/ UNCHANGED mapped
    OBVIOUS
  <2>1. UNCHANGED lineage => UNCHANGED mapped
    BY DEF lineage
  <2>2. QED
    BY <2>1, LineageMoves, WriteExtends
<1>3. QED
  BY <1>1, <1>2, TypeCorrect, PTL DEF Spec, KeepsLineage, Promise!Spec

(***************************************************************************)
(* ... and its history can be read as one                                  *)
(***************************************************************************)

History == INSTANCE RevisionLineage_proofs WITH
               Lineage <- {"agent"}, Terms <- Bounds,
               lineage <- [l \in {"agent"} |-> envelope]

\* The rows of standing_mutation_authorizations alone tell what happened: each
\* envelope names the one its author was shown, which is the one before it, and
\* each withdrawal follows the envelope it ended and repeats its terms.
THEOREM EnvelopesTell ==
    Spec => [](\A i \in 1 .. Len(envelope) : History!Follows(envelope, i))
<1>1. KeepsLineage => History!Spec
  BY DEF KeepsLineage, Promise!Spec, Promise!Init, Promise!Next, Promise!Activate,
         Promise!Withdraw, Promise!Extend, Promise!InForce, History!Spec, History!Init,
         History!Next, History!Activate, History!Withdraw, History!Extend, History!InForce
<1>2. History!Spec => []History!HistoryTells
  BY History!HistoryCanBeRead
<1>3. History!HistoryTells => \A i \in 1 .. Len(envelope) : History!Follows(envelope, i)
  BY DEF History!HistoryTells
<1>4. QED
  BY <1>1, <1>2, <1>3, LineageKept, PTL

(***************************************************************************)
(* Where the two statements that do not hold would hold                    *)
(*                                                                         *)
(* WithdrawalStopsIssuance and OneFactOneAct are said of the code and are  *)
(* not true of it.  Each theorem names the one thing that defeats the      *)
(* statement: exclude it, and the statement follows for every instance.    *)
(***************************************************************************)

\* The row an issuance locks is the revision in effect when it gets it, as it
\* would be if the query were repeated behind the lock.
LocksWhatIsEffective ==
    [][\A h \in Handler : At(h, "seeking") /\ At(h, "counted")'
         => handler[h].rev = Len(envelope)]_vars

\* An issuance holds the revision in effect.
HoldsTheEffective == \A h \in Handler : At(h, "counted") => handler[h].rev = Len(envelope)

LEMMA HoldsStep ==
  ASSUME IInv, HoldsTheEffective, [Next]_vars,
         \A h \in Handler : At(h, "seeking") /\ At(h, "counted")'
           => handler[h].rev = Len(envelope)
  PROVE  HoldsTheEffective'
<1> SUFFICES ASSUME NEW g \in Handler, handler'[g].at = "counted"
             PROVE  handler'[g].rev = Len(envelope')
  BY DEF HoldsTheEffective, At
<1>1. TypeOK
  BY DEF IInv
<1>2. CASE LockEnvelope(g) /\ handler'[g] = [handler[g] EXCEPT !.at = "counted"]
  <2>1. handler[g] \in HandlerState
    BY <1>1 DEF TypeOK
  <2>2. handler'[g].rev = handler[g].rev /\ UNCHANGED envelope
    BY <1>2, <2>1 DEF HandlerState, LockEnvelope, lineage
  <2>3. handler[g].rev = Len(envelope)
    BY <1>2 DEF LockEnvelope, At
  <2>4. QED
    BY <2>2, <2>3
<1>3. CASE handler'[g] = handler[g]
  <2>1. EnvelopeLocked(Len(envelope)) /\ handler'[g].rev = Len(envelope)
    BY <1>3 DEF HoldsTheEffective, EnvelopeLocked, At
  <2>2. UNCHANGED lineage
    BY <1>1, <2>1, LineageMoves DEF Writes
  <2>3. QED
    BY <2>1, <2>2 DEF lineage
<1>4. QED
  BY <1>2, <1>3, HandlersMove

\* Withdrawal stops issuance at once, if an issuance never gets the lock of a
\* revision withdrawn while it waited: that wait is all that defeats it,
\* because a withdrawal in turn waits for an issuance that has the lock.
THEOREM WithdrawalStopsWhatReReads == Spec /\ LocksWhatIsEffective => WithdrawalStopsIssuance
<1>1. Init => HoldsTheEffective
  BY DEF Init, Idle, HoldsTheEffective, At
<1>2. /\ IInv /\ HoldsTheEffective /\ [Next]_vars
      /\ [\A h \in Handler : At(h, "seeking") /\ At(h, "counted")'
             => handler[h].rev = Len(envelope)]_vars
      => HoldsTheEffective'
  <2>1. CASE UNCHANGED vars
    BY <2>1 DEF vars, HoldsTheEffective, At
  <2>2. QED
    BY <2>1, HoldsStep
<1>3. IInv /\ HoldsTheEffective /\ [Next]_vars
        => [\A r \in Request : under'[r] # under[r] => InForce]_vars
  <2> SUFFICES ASSUME IInv, HoldsTheEffective, [Next]_vars,
                      NEW r \in Request, under'[r] # under[r]
               PROVE  InForce
    OBVIOUS
  <2>1. PICK h \in Handler : IssuePermit(h)
    BY DEF Next, Handle, Environment, BeginIssuance, HoldAgent, SeekEnvelope, LockEnvelope,
        BeginWrite, AuthorizeStandingMutation, WithdrawStandingMutation, Abort, ApproveActionRequest,
        RejectActionRequest, EndPermit, SuspendDurableAgentIdentity, ReactivateDurableAgentIdentity,
        Tick, vars, permits
  <2>2. /\ At(h, "counted") /\ handler[h].rev = Len(envelope)
        /\ handler[h].rev \in 1 .. Len(envelope) /\ handler[h].rev \in Nat
        /\ handler[h].req \in Request /\ handler[h].now \in Nat
    BY <2>1 DEF IssuePermit, HoldsTheEffective, IInv, IssuanceShape, TypeOK, HandlerState, At
  <2>3. Admits(handler[h].rev, handler[h].req, handler[h].now)
    BY <2>2 DEF IInv, CountsHold
  <2>4. QED
    BY <2>2, <2>3 DEF Admits, InForce
<1>4. QED
  BY <1>1, <1>2, <1>3, Inductive, PTL
     DEF Spec, LocksWhatIsEffective, WithdrawalStopsIssuance

\* One envelope has been signed, and not another after it.
SignedOnce ==
    \A v, w \in DOMAIN envelope : envelope[v].state = "active" /\ envelope[w].state = "active"
        => v = w

\* Permits are issued under revisions that grant.
UnderActive == \A r \in Request : under[r] # 0 => envelope[under[r]].state = "active"

LEMMA UnderActiveStep == IInv /\ UnderActive /\ [Next]_vars => UnderActive'
<1> SUFFICES ASSUME IInv, UnderActive, [Next]_vars, NEW r \in Request, under'[r] # 0
             PROVE  envelope'[under'[r]].state = "active"
  BY DEF UnderActive
<1>1. TypeOK /\ UnderKnown
  BY DEF IInv
<1>2. \A v \in 1 .. Len(envelope) : envelope'[v] = envelope[v]
  BY KeptOtherwise, KeptElsewhere, <1>1 DEF Kept, IssuePermit, lineage
<1>3. CASE under'[r] = under[r]
  <2>1. under[r] \in 1 .. Len(envelope)
    BY <1>1, <1>3 DEF UnderKnown, TypeOK
  <2>2. QED
    BY <1>2, <1>3, <2>1 DEF UnderActive
<1>4. CASE under'[r] # under[r]
  <2>1. PICK h \in Handler : IssuePermit(h)
    BY <1>4
       DEF Next, Handle, Environment, BeginIssuance, HoldAgent, SeekEnvelope, LockEnvelope,
           BeginWrite, AuthorizeStandingMutation, WithdrawStandingMutation, Abort,
           ApproveActionRequest, RejectActionRequest, EndPermit, SuspendDurableAgentIdentity,
           ReactivateDurableAgentIdentity, Tick, vars, permits
  <2>2. /\ At(h, "counted") /\ handler[h].rev \in 1 .. Len(envelope)
        /\ handler[h].req \in Request /\ handler[h].now \in Nat /\ handler[h].rev \in Nat
    BY <1>1, <2>1 DEF IssuePermit, IInv, IssuanceShape, TypeOK, HandlerState, At
  <2>3. Admits(handler[h].rev, handler[h].req, handler[h].now)
    BY <2>2 DEF IInv, CountsHold
  <2>4. under'[r] = handler[h].rev
    BY <1>1, <1>4, <2>1 DEF IssuePermit, TypeOK
  <2>5. QED
    BY <1>2, <2>2, <2>3, <2>4 DEF Admits
<1>5. QED
  BY <1>3, <1>4

\* One fact funds one act for as long as one envelope has been signed: only
\* signing again, which starts the count of used evidence anew, defeats it.
THEOREM OneFactOneActUnderOneEnvelope == Spec => [](SignedOnce => OneFactOneAct)
<1>1. Init => UnderActive
  BY DEF Init, UnderActive
<1>2. IInv /\ UnderActive /\ SignedOnce => OneFactOneAct
  <2> SUFFICES ASSUME IInv, UnderActive, SignedOnce, NEW q \in Request, NEW r \in Request,
                      q # r, under[q] # 0, under[r] # 0
               PROVE  EvidenceOf[q] # EvidenceOf[r]
    BY DEF OneFactOneAct
  <2>1. TypeOK /\ UnderKnown /\ EnvelopeBounds
    BY DEF IInv
  <2>2. under[q] \in DOMAIN envelope /\ under[r] \in DOMAIN envelope
    BY <2>1 DEF TypeOK, UnderKnown
  <2>3. under[q] = under[r]
    BY <2>2 DEF UnderActive, SignedOnce
  <2>4. q \in ActsUnder(under[q]) /\ r \in ActsUnder(under[q])
    BY <2>3 DEF ActsUnder
  <2>5. QED
    BY <2>1, <2>2, <2>4 DEF EnvelopeBounds
<1>3. QED
  BY <1>1, <1>2, UnderActiveStep, Inductive, PTL DEF Spec
=============================================================================
