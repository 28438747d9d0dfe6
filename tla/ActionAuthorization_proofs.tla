--------------------- MODULE ActionAuthorization_proofs ---------------------
(***************************************************************************)
(* Proofs about ActionAuthorization, for every set of humans, agents,      *)
(* requests and handlers.  TypeOK is inductive alone; everything else      *)
(* follows from IInv, which adds what the row locks guarantee to the       *)
(* transactions that hold them.                                            *)
(***************************************************************************)
EXTENDS ActionAuthorization, TLAPS

(***************************************************************************)
(* The inductive invariant                                                 *)
(***************************************************************************)

\* What a handler can be doing at each step, and with which rows.
HandlerShape ==
    \A h \in Handler :
        /\ handler[h].op # "none" /\ handler[h].op \notin Lifecycle
             => /\ handler[h].req \in Request
                /\ handler[h].op # "revoke" => handler[h].agent = Proposer[handler[h].req]
        /\ handler[h].at \in {"spending", "checked"} => handler[h].op = "spend"
        /\ handler[h].at = "locked" => handler[h].agent \in Agent
        /\ handler[h].asof \subseteq expired

\* A permit exists exactly for an approved request.
PermitOfApproval == \A r \in Request : permit[r] # "none" <=> request[r] = "approved"

\* The permit a spend has locked stays active, and is locked by it alone.
SpendsHoldPermit ==
    \A h \in Handler : handler[h].at \in {"spending", "checked"} =>
        /\ permit[handler[h].req] = "active"
        /\ \A g \in Handler :
              handler[g].at \in {"spending", "checked"} /\ handler[g].req = handler[h].req
                => g = h

\* A lifecycle transition holds its agent row against every other holder.
TransitionsHoldAgent ==
    \A g, h \in Handler :
        /\ handler[g].at = "locked"
        /\ handler[h].at \in {"locked", "checked"}
        /\ handler[g].agent = handler[h].agent
        => g = h

\* The agent a spend has checked stays in service until the spend ends.
CheckedInService ==
    \A h \in Handler : handler[h].at = "checked" => ProposerInService(handler[h].req)

IInv ==
    /\ TypeOK
    /\ HandlerShape
    /\ PermitOfApproval
    /\ SpendsHoldPermit
    /\ TransitionsHoldAgent
    /\ CheckedInService
    /\ NothingRestored

(***************************************************************************)
(* Typing                                                                  *)
(***************************************************************************)

LEMMA TypeInit == Init => TypeOK
BY AuthorizationAssumption
   DEF Init, TypeOK, Idle, HandlerState, Operation, Lifecycle, Decision

\* Begin, Advance and Finish leave the handlers well-typed.
LEMMA BeginTyping ==
    ASSUME TypeOK, NEW h \in Handler,
           NEW op \in Operation, NEW at \in {"begun", "locked"},
           NEW r \in Request \cup {NoOne},
           NEW a \in Agent \cup {NoOne}, NEW asof \in SUBSET Request,
           Begin(h, op, at, r, a, asof)
    PROVE  handler' \in [Handler -> HandlerState]
<1>1. [op |-> op, at |-> at, req |-> r, agent |-> a, asof |-> asof]
        \in HandlerState
  BY DEF HandlerState
<1>2. QED
  BY <1>1 DEF Begin, TypeOK

LEMMA MoveTyping ==
    ASSUME TypeOK, NEW h \in Handler
    PROVE  /\ \A at \in {"spending", "checked"} :
                 Advance(h, at) => handler' \in [Handler -> HandlerState]
           /\ Finish(h) => handler' \in [Handler -> HandlerState]
<1>1. Idle \in HandlerState
  BY DEF Idle, HandlerState
<1>2. \A s \in HandlerState, at \in {"spending", "checked"} : [s EXCEPT !.at = at] \in HandlerState
  BY DEF HandlerState
<1>3. handler \in [Handler -> HandlerState]
  BY DEF TypeOK
<1>4. ASSUME NEW at \in {"spending", "checked"}, Advance(h, at)
      PROVE  handler' \in [Handler -> HandlerState]
  BY <1>2, <1>3, <1>4 DEF Advance
<1>5. Finish(h) => handler' \in [Handler -> HandlerState]
  BY <1>1, <1>3 DEF Finish
<1>6. QED
  BY <1>4, <1>5

LEMMA TypeStep == TypeOK /\ [Next]_vars => TypeOK'
<1> SUFFICES ASSUME TypeOK, [Next]_vars PROVE TypeOK'
  OBVIOUS
<1> USE DEF TypeOK
<1>1. ASSUME NEW r \in Request, RecordActionRequest(r) \/ Expire(r) PROVE TypeOK'
  BY <1>1 DEF RecordActionRequest, Expire, agents, history
<1>2. ASSUME NEW who \in Human, MoveAuthority(who) PROVE TypeOK'
  BY <1>2 DEF MoveAuthority, rows, agents, history
<1>3. ASSUME NEW a \in Agent, NEW kinds \in SUBSET Kind, ReviseMandate(a, kinds) PROVE TypeOK'
  BY <1>3 DEF ReviseMandate, rows, history
<1>4. ASSUME NEW h \in Handler, Start(h) PROVE TypeOK'
  <2>1. handler' \in [Handler -> HandlerState]
    <3>1. \A r \in Request : Proposer[r] \in Agent \cup {NoOne}
      BY AuthorizationAssumption
    <3>2. \A r \in Request : {} \in SUBSET Request /\ expired \cap {r} \in SUBSET Request
      OBVIOUS
    <3>3. ASSUME NEW r \in Request, AdmitAgentProposal(h, r) \/ ConsumeActionPermitAsMachine(h, r)
          PROVE  handler' \in [Handler -> HandlerState]
      BY <3>1, <3>2, <3>3, BeginTyping
         DEF AdmitAgentProposal, ConsumeActionPermitAsMachine, Operation
    <3>4. ASSUME NEW r \in Request, NEW who \in Human, NEW op \in Decision,
                 BeginDecision(h, op, who, r)
          PROVE  handler' \in [Handler -> HandlerState]
      <4>1. op \in Operation /\ Begin(h, op, "begun", r, Proposer[r], {})
        BY <3>4 DEF BeginDecision, Operation
      <4>2. QED
        BY <3>1, <3>2, <4>1, BeginTyping
    <3>5. ASSUME NEW r \in Request, NEW who \in Human,
                 BeginRevocation(h, who, r) \/ ConsumeActionPermit(h, who, r)
          PROVE  handler' \in [Handler -> HandlerState]
      <4>1. \/ Begin(h, "revoke", "begun", r, NoOne, {})
            \/ Begin(h, "spend", "begun", r, Proposer[r], expired \cap {r})
        BY <3>5 DEF BeginRevocation, ConsumeActionPermit
      <4>2. {"revoke", "spend"} \subseteq Operation
        BY DEF Operation
      <4>3. QED
        BY <3>1, <3>2, <4>1, <4>2, BeginTyping
    <3>6. ASSUME NEW a \in Agent, NEW who \in Human, NEW op \in Lifecycle, LockAgent(h, op, who, a)
          PROVE  handler' \in [Handler -> HandlerState]
      BY <3>6, BeginTyping DEF LockAgent, Operation
    <3>7. QED
      BY <1>4, <3>3, <3>4, <3>5, <3>6 DEF Start
  <2>2. UNCHANGED <<rows, authority, agents, history>>
    BY <1>4 DEF Start, AdmitAgentProposal, ConsumeActionPermitAsMachine, BeginDecision,
                BeginRevocation, ConsumeActionPermit, LockAgent
  <2>3. QED
    BY <2>1, <2>2 DEF rows, agents, history
<1>5. ASSUME NEW h \in Handler, Step(h) PROVE TypeOK'
  <2>1. ASSUME RecordAgentOriginatedActionRequest(h) PROVE TypeOK'
    BY <2>1, MoveTyping DEF RecordAgentOriginatedActionRequest, agents, history
  <2>2. ASSUME ApproveActionRequest(h) PROVE TypeOK'
    <3>1. EraOf(handler[h].req) \in Nat
      BY DEF EraOf, ProposedByAgent
    <3>2. QED
      BY <2>2, <3>1, MoveTyping DEF ApproveActionRequest, agents
  <2>3. ASSUME RejectActionRequest(h) PROVE TypeOK'
    BY <2>3, MoveTyping DEF RejectActionRequest, agents, history
  <2>4. ASSUME RevokeActionPermit(h) PROVE TypeOK'
    BY <2>4, MoveTyping DEF RevokeActionPermit, agents, history
  <2>5. ASSUME SpendPermit(h) \/ CheckContinuingAuthority(h) PROVE TypeOK'
    BY <2>5, MoveTyping
       DEF SpendPermit, CheckContinuingAuthority, rows, agents, history
  <2>6. ASSUME CommitSpend(h) PROVE TypeOK'
    <3>1. EraOf(handler[h].req) \in Nat
      BY DEF EraOf, ProposedByAgent
    <3>2. QED
      BY <2>6, <3>1, MoveTyping DEF CommitSpend, agents
  <2>7. ASSUME SuspendDurableAgentIdentity(h) \/ RetireDurableAgentIdentity(h) PROVE TypeOK'
    BY <2>7, MoveTyping
       DEF SuspendDurableAgentIdentity, RetireDurableAgentIdentity, rows, history
  <2>8. ASSUME ReactivateDurableAgentIdentity(h) PROVE TypeOK'
    <3> DEFINE a == handler[h].agent
    <3>1. /\ service' = [service EXCEPT ![a] = "in-service"]
          /\ era' = [era EXCEPT ![a] = era[a] + 1]
      BY <2>8 DEF ReactivateDurableAgentIdentity
    <3>2. service' \in [Agent -> {"in-service", "suspended", "retired"}]
      BY <3>1
    <3>3. \A b \in Agent : era[b] + 1 \in Nat
      OBVIOUS
    <3>4. era' \in [Agent -> Nat]
      BY <3>1, <3>3
    <3>5. QED
      BY <2>8, <3>2, <3>4, MoveTyping DEF ReactivateDurableAgentIdentity, rows
  <2>9. ASSUME Refuse(h) PROVE TypeOK'
    BY <2>9, MoveTyping DEF Refuse, rows, agents, history
  <2>10. QED
    BY <1>5, <2>1, <2>2, <2>3, <2>4, <2>5, <2>6, <2>7, <2>8, <2>9 DEF Step
<1>6. ASSUME NEW h \in Handler, Abort(h) PROVE TypeOK'
  BY <1>6, MoveTyping DEF Abort, rows, agents, history
<1>7. ASSUME UNCHANGED vars PROVE TypeOK'
  BY <1>7 DEF vars
<1>8. QED
  BY <1>1, <1>2, <1>3, <1>4, <1>5, <1>6, <1>7 DEF Next, Environment

\* Every row, agent and handler keeps its type (the columns' CHECKs and the
\* handlers' own steps).
THEOREM TypeCorrect == Spec => []TypeOK
BY TypeInit, TypeStep, PTL DEF Spec

(***************************************************************************)
(* Induction                                                               *)
(***************************************************************************)

\* What each kind of handler step leaves in the handlers, field by field.
LEMMA HandlerMoves ==
    ASSUME TypeOK, NEW h \in Handler
    PROVE  /\ \A op, at, r, a, asof :
                 Begin(h, op, at, r, a, asof) =>
                   /\ handler[h].at = "idle"
                   /\ handler'[h].op = op /\ handler'[h].at = at /\ handler'[h].req = r
                   /\ handler'[h].agent = a /\ handler'[h].asof = asof
                   /\ \A g \in Handler \ {h} : handler'[g] = handler[g]
           /\ \A at : Advance(h, at) =>
                   /\ handler'[h].op = handler[h].op /\ handler'[h].at = at
                   /\ handler'[h].req = handler[h].req /\ handler'[h].agent = handler[h].agent
                   /\ handler'[h].asof = handler[h].asof
                   /\ \A g \in Handler \ {h} : handler'[g] = handler[g]
           /\ Finish(h) =>
                   /\ handler'[h].op = "none" /\ handler'[h].at = "idle"
                   /\ handler'[h].asof = {}
                   /\ \A g \in Handler \ {h} : handler'[g] = handler[g]
<1>1. handler \in [Handler -> HandlerState]
  BY DEF TypeOK
<1>2. ASSUME NEW op, NEW at, NEW r, NEW a, NEW asof, Begin(h, op, at, r, a, asof)
      PROVE  /\ handler[h].at = "idle"
             /\ handler'[h].op = op /\ handler'[h].at = at /\ handler'[h].req = r
             /\ handler'[h].agent = a /\ handler'[h].asof = asof
             /\ \A g \in Handler \ {h} : handler'[g] = handler[g]
  BY <1>1, <1>2 DEF Begin
<1>3. ASSUME NEW at, Advance(h, at)
      PROVE  /\ handler'[h].op = handler[h].op /\ handler'[h].at = at
             /\ handler'[h].req = handler[h].req /\ handler'[h].agent = handler[h].agent
             /\ handler'[h].asof = handler[h].asof
             /\ \A g \in Handler \ {h} : handler'[g] = handler[g]
  BY <1>1, <1>3 DEF Advance, HandlerState
<1>4. ASSUME Finish(h)
      PROVE  /\ handler'[h].op = "none" /\ handler'[h].at = "idle" /\ handler'[h].asof = {}
             /\ \A g \in Handler \ {h} : handler'[g] = handler[g]
  BY <1>1, <1>4 DEF Finish, Idle
<1>5. QED
  BY <1>2, <1>3, <1>4

LEMMA InductiveInit == Init => IInv
<1> SUFFICES ASSUME Init PROVE IInv
  OBVIOUS
<1>1. \A h \in Handler : /\ handler[h].at = "idle" /\ handler[h].op = "none"
                         /\ handler[h].asof = {}
  BY DEF Init, Idle
<1>2. QED
  BY <1>1, TypeInit
     DEF Init, IInv, HandlerShape, PermitOfApproval, SpendsHoldPermit, TransitionsHoldAgent,
         CheckedInService, NothingRestored, Lifecycle

\* A handler that starts takes no permit row; a lifecycle transition takes an
\* agent row that nobody holds.
LEMMA StartKeepsIInv ==
    ASSUME IInv, TypeOK', NEW h \in Handler, Start(h) PROVE IInv'
<1>1. UNCHANGED <<rows, authority, agents, history>>
  BY DEF Start, AdmitAgentProposal, ConsumeActionPermitAsMachine, BeginDecision, BeginRevocation,
         ConsumeActionPermit, LockAgent
<1> DEFINE Begun ==
             /\ handler'[h].at = "begun"
             /\ handler'[h].req \in Request
             /\ handler'[h].op # "revoke" => handler'[h].agent = Proposer[handler'[h].req]
           Locked ==
             /\ handler'[h].at = "locked"
             /\ handler'[h].op \in Lifecycle
             /\ handler'[h].agent \in Agent
             /\ ~AgentLocked(handler'[h].agent) /\ ~AgentShared(handler'[h].agent)
           Started ==
             /\ handler[h].at = "idle"
             /\ \A g \in Handler \ {h} : handler'[g] = handler[g]
             /\ handler'[h].asof \subseteq expired
             /\ Begun \/ Locked
<1>2. Started
  <2>1. ASSUME NEW r \in Request, NEW op, NEW asof,
               asof = {} \/ asof = expired \cap {r},
               \/ Begin(h, op, "begun", r, Proposer[r], asof)
               \/ op = "revoke" /\ Begin(h, op, "begun", r, NoOne, asof)
        PROVE  Started
    BY <2>1, HandlerMoves DEF IInv
  <2>2. ASSUME NEW r \in Request, AdmitAgentProposal(h, r) \/ ConsumeActionPermitAsMachine(h, r)
        PROVE  Started
    BY <2>1, <2>2 DEF AdmitAgentProposal, ConsumeActionPermitAsMachine
  <2>3. ASSUME NEW r \in Request, NEW who \in Human, NEW op \in Decision,
               BeginDecision(h, op, who, r)
        PROVE  Started
    BY <2>1, <2>3 DEF BeginDecision
  <2>4. ASSUME NEW r \in Request, NEW who \in Human,
               BeginRevocation(h, who, r) \/ ConsumeActionPermit(h, who, r)
        PROVE  Started
    BY <2>1, <2>4 DEF BeginRevocation, ConsumeActionPermit
  <2>5. ASSUME NEW a \in Agent, NEW who \in Human, NEW op \in Lifecycle, LockAgent(h, op, who, a)
        PROVE  Started
    BY <2>5, HandlerMoves DEF IInv, LockAgent
  <2>6. QED
    BY <2>2, <2>3, <2>4, <2>5 DEF Start
<1>3. HandlerShape'
  BY <1>1, <1>2 DEF IInv, HandlerShape, rows, Lifecycle
<1>4. (PermitOfApproval /\ NothingRestored)'
  BY <1>1 DEF IInv, PermitOfApproval, NothingRestored, EraOf, ProposedByAgent, rows, agents, history
<1>5. SpendsHoldPermit'
  BY <1>1, <1>2 DEF IInv, SpendsHoldPermit, rows
<1>6. TransitionsHoldAgent'
  BY <1>2 DEF IInv, TransitionsHoldAgent, AgentLocked, AgentShared
<1>7. CheckedInService'
  BY <1>1, <1>2 DEF IInv, CheckedInService, ProposerInService, agents
<1>8. QED
  BY <1>3, <1>4, <1>5, <1>6, <1>7 DEF IInv

\* Ending a handler releases its locks and gives nobody another.
LEMMA FinishKeeps ==
    ASSUME IInv, NEW h \in Handler, Finish(h), UNCHANGED expired
    PROVE  /\ HandlerShape'
           /\ TransitionsHoldAgent'
           /\ UNCHANGED permit => SpendsHoldPermit'
           /\ UNCHANGED service => CheckedInService'
<1>1. /\ handler'[h].op = "none" /\ handler'[h].at = "idle" /\ handler'[h].asof = {}
      /\ \A g \in Handler \ {h} : handler'[g] = handler[g]
  BY HandlerMoves DEF IInv
<1>2. HandlerShape'
  BY <1>1 DEF IInv, HandlerShape
<1>3. TransitionsHoldAgent'
  BY <1>1 DEF IInv, TransitionsHoldAgent
<1>4. UNCHANGED permit => SpendsHoldPermit'
  BY <1>1 DEF IInv, SpendsHoldPermit
<1>5. UNCHANGED service => CheckedInService'
  BY <1>1 DEF IInv, CheckedInService, ProposerInService
<1>6. QED
  BY <1>2, <1>3, <1>4, <1>5

LEMMA StepKeepsIInv ==
    ASSUME IInv, TypeOK', NEW h \in Handler, Step(h) PROVE IInv'
<1> DEFINE r == handler[h].req
           a == handler[h].agent
<1> USE DEF IInv
<1>1. ASSUME RecordAgentOriginatedActionRequest(h) PROVE IInv'
  <2>1. (PermitOfApproval /\ NothingRestored)'
    BY <1>1 DEF RecordAgentOriginatedActionRequest, TypeOK, PermitOfApproval, NothingRestored,
                EraOf, ProposedByAgent, history
  <2>2. QED
    BY <1>1, <2>1, FinishKeeps DEF RecordAgentOriginatedActionRequest, agents
<1>2. ASSUME ApproveActionRequest(h) PROVE IInv'
  <2>1. r \in Request /\ handler[h].at = "begun" /\ request[r] = "pending" /\ permit[r] = "none"
    BY <1>2 DEF ApproveActionRequest, Running, HandlerShape, Lifecycle, PermitOfApproval, TypeOK
  <2>2. /\ permit' = [permit EXCEPT ![r] = "active"]
        /\ request' = [request EXCEPT ![r] = "approved"]
        /\ issuedIn' = [issuedIn EXCEPT ![r] = EraOf(r)]
        /\ UNCHANGED <<expired, service, era>>
        /\ Finish(h)
    BY <1>2 DEF ApproveActionRequest, agents
  <2>3. PermitOfApproval'
    BY <2>1, <2>2 DEF PermitOfApproval, TypeOK
  <2>4. SpendsHoldPermit'
    <3>1. \A g \in Handler : handler[g].at \in {"spending", "checked"} => handler[g].req # r
      BY <2>1 DEF SpendsHoldPermit
    <3>2. \A g \in Handler : handler[g].at \in {"spending", "checked"} => handler[g].req \in Request
      BY DEF HandlerShape, Lifecycle
    <3>3. \A g \in Handler : handler'[g].at \in {"spending", "checked"} =>
             g # h /\ handler'[g] = handler[g]
      BY <2>2, HandlerMoves
    <3>4. QED
      BY <2>2, <3>1, <3>2, <3>3 DEF SpendsHoldPermit, TypeOK
  <2>5. NothingRestored'
    <3>1. EraOf(r) \in Nat
      BY DEF EraOf, ProposedByAgent, TypeOK
    <3>2. \A q \in Request : EraOf(q)' = EraOf(q)
      BY <2>2 DEF EraOf, ProposedByAgent
    <3>3. QED
      BY <2>1, <2>2, <3>1, <3>2 DEF NothingRestored, TypeOK
  <2>6. QED
    BY <2>2, <2>3, <2>4, <2>5, FinishKeeps
<1>3. ASSUME RejectActionRequest(h) PROVE IInv'
  <2>1. r \in Request /\ request[r] = "pending" /\ permit[r] = "none"
    BY <1>3 DEF RejectActionRequest, Running, HandlerShape, Lifecycle, PermitOfApproval, TypeOK
  <2>2. (PermitOfApproval /\ NothingRestored)'
    BY <1>3, <2>1 DEF RejectActionRequest, TypeOK, PermitOfApproval, NothingRestored,
                      EraOf, ProposedByAgent, history
  <2>3. QED
    BY <1>3, <2>2, FinishKeeps DEF RejectActionRequest, agents
<1>4. ASSUME RevokeActionPermit(h) PROVE IInv'
  <2>1. /\ r \in Request /\ permit[r] = "active" /\ ~PermitLocked(r)
        /\ permit' = [permit EXCEPT ![r] = "revoked"]
        /\ UNCHANGED <<request, expired, service, era, issuedIn>>
        /\ Finish(h)
    BY <1>4 DEF RevokeActionPermit, Running, HandlerShape, Lifecycle, agents, history
  <2>2. (PermitOfApproval /\ NothingRestored)'
    BY <2>1 DEF TypeOK, PermitOfApproval, NothingRestored, EraOf, ProposedByAgent
  <2>3. SpendsHoldPermit'
    <3>1. \A g \in Handler : handler'[g].at \in {"spending", "checked"} =>
             g # h /\ handler'[g] = handler[g] /\ handler[g].req # r
      BY <2>1, HandlerMoves DEF PermitLocked
    <3>2. \A g \in Handler : handler[g].at \in {"spending", "checked"} => handler[g].req \in Request
      BY DEF HandlerShape, Lifecycle
    <3>3. QED
      BY <2>1, <3>1, <3>2 DEF SpendsHoldPermit, TypeOK
  <2>4. QED
    BY <2>1, <2>2, <2>3, FinishKeeps
<1>5. ASSUME SpendPermit(h) \/ CheckContinuingAuthority(h) PROVE IInv'
  <2>1. /\ handler[h].op = "spend" /\ r \in Request /\ a = Proposer[r]
        /\ handler[h].at \in {"begun", "spending"}
    BY <1>5 DEF SpendPermit, CheckContinuingAuthority, Running, HandlerShape, Lifecycle
  <2>2. /\ handler'[h].op = "spend" /\ handler'[h].req = r /\ handler'[h].agent = a
        /\ handler'[h].at \in {"spending", "checked"}
        /\ handler'[h].asof = handler[h].asof
        /\ \A g \in Handler \ {h} : handler'[g] = handler[g]
        /\ UNCHANGED <<request, permit, expired, service, era, issuedIn>>
    BY <1>5, <2>1, HandlerMoves
       DEF SpendPermit, CheckContinuingAuthority, rows, agents, history
  <2>3. (HandlerShape /\ PermitOfApproval /\ NothingRestored)'
    BY <2>1, <2>2 DEF HandlerShape, PermitOfApproval, NothingRestored, EraOf, ProposedByAgent,
                      Lifecycle
  <2>4. CASE SpendPermit(h)
    <3>1. handler'[h].at = "spending" /\ permit[r] = "active" /\ ~PermitLocked(r)
      BY <2>4, HandlerMoves DEF SpendPermit
    <3>2. SpendsHoldPermit'
      BY <2>2, <3>1 DEF SpendsHoldPermit, PermitLocked
    <3>3. (TransitionsHoldAgent /\ CheckedInService)'
      BY <2>2, <3>1 DEF TransitionsHoldAgent, CheckedInService, ProposerInService
    <3>4. QED
      BY <2>3, <3>2, <3>3
  <2>5. CASE CheckContinuingAuthority(h)
    <3>1. /\ handler[h].at = "spending" /\ handler'[h].at = "checked"
          /\ ~AgentLocked(a) /\ ProposerInService(r)
      BY <2>1, <2>5, HandlerMoves DEF CheckContinuingAuthority, Running
    <3>2. SpendsHoldPermit'
      BY <2>2, <3>1 DEF SpendsHoldPermit
    <3>3. TransitionsHoldAgent'
      BY <2>2, <3>1 DEF TransitionsHoldAgent, AgentLocked
    <3>4. CheckedInService'
      BY <2>2, <3>1 DEF CheckedInService, ProposerInService
    <3>5. QED
      BY <2>3, <3>2, <3>3, <3>4
  <2>6. QED
    BY <1>5, <2>4, <2>5
<1>6. ASSUME CommitSpend(h) PROVE IInv'
  <2>1. /\ r \in Request /\ permit[r] = "active" /\ handler[h].at = "checked"
        /\ permit' = [permit EXCEPT ![r] = "consumed"]
        /\ UNCHANGED <<request, expired, service, era, issuedIn>>
        /\ Finish(h)
    BY <1>6 DEF CommitSpend, Running, HandlerShape, Lifecycle, SpendsHoldPermit, agents
  <2>2. (PermitOfApproval /\ NothingRestored)'
    BY <2>1 DEF TypeOK, PermitOfApproval, NothingRestored, EraOf, ProposedByAgent
  <2>3. SpendsHoldPermit'
    <3>1. \A g \in Handler : handler'[g].at \in {"spending", "checked"} =>
             g # h /\ handler'[g] = handler[g] /\ handler[g].req # r
      BY <2>1, HandlerMoves DEF SpendsHoldPermit
    <3>2. \A g \in Handler : handler[g].at \in {"spending", "checked"} => handler[g].req \in Request
      BY DEF HandlerShape, Lifecycle
    <3>3. QED
      BY <2>1, <3>1, <3>2 DEF SpendsHoldPermit, TypeOK
  <2>4. QED
    BY <2>1, <2>2, <2>3, FinishKeeps
<1>7. ASSUME SuspendDurableAgentIdentity(h) \/ RetireDurableAgentIdentity(h) PROVE IInv'
  <2>1. /\ handler[h].at = "locked" /\ a \in Agent
        /\ \A b \in Agent \ {a} : service'[b] = service[b]
        /\ UNCHANGED <<request, permit, expired, era, issuedIn>>
        /\ Finish(h)
    BY <1>7 DEF SuspendDurableAgentIdentity, RetireDurableAgentIdentity, Running, HandlerShape,
                TypeOK, rows, history
  <2>2. (PermitOfApproval /\ NothingRestored)'
    BY <2>1 DEF PermitOfApproval, NothingRestored, EraOf, ProposedByAgent
  <2>3. CheckedInService'
    <3>1. \A g \in Handler : handler'[g].at = "checked" =>
             /\ g # h /\ handler'[g] = handler[g] /\ handler[g].agent # a
             /\ handler[g].agent = Proposer[handler[g].req]
      BY <2>1, HandlerMoves DEF TransitionsHoldAgent, HandlerShape, Lifecycle
    <3>2. QED
      BY <2>1, <3>1 DEF CheckedInService, ProposerInService, ProposedByAgent
  <2>4. QED
    BY <2>1, <2>2, <2>3, FinishKeeps
<1>8. ASSUME ReactivateDurableAgentIdentity(h) PROVE IInv'
  <2>1. /\ handler[h].at = "locked" /\ a \in Agent
        /\ UsablePermits(a, handler[h].asof) = {}
        /\ service' = [service EXCEPT ![a] = "in-service"]
        /\ era' = [era EXCEPT ![a] = era[a] + 1]
        /\ UNCHANGED <<request, permit, expired, issuedIn>>
        /\ Finish(h)
    BY <1>8 DEF ReactivateDurableAgentIdentity, Running, HandlerShape, rows
  <2>2. PermitOfApproval'
    BY <2>1 DEF PermitOfApproval
  <2>3. NothingRestored'
    <3>1. \A q \in Request : permit[q] = "active" /\ Proposer[q] = a => q \in expired
      BY <2>1 DEF UsablePermits, HandlerShape
    <3>2. \A q \in Request : Proposer[q] # a => EraOf(q)' = EraOf(q)
      BY <2>1 DEF EraOf, ProposedByAgent, TypeOK
    <3>3. QED
      BY <2>1, <3>1, <3>2 DEF NothingRestored
  <2>4. CheckedInService'
    <3>1. \A g \in Handler : handler'[g].at = "checked" => g # h /\ handler'[g] = handler[g]
      BY <2>1, HandlerMoves
    <3>2. QED
      BY <2>1, <3>1 DEF CheckedInService, ProposerInService, ProposedByAgent, TypeOK
  <2>5. QED
    BY <2>1, <2>2, <2>3, <2>4, FinishKeeps
<1>9. ASSUME Refuse(h) PROVE IInv'
  <2>1. Finish(h) /\ UNCHANGED <<request, permit, expired, service, era, issuedIn>>
    BY <1>9 DEF Refuse, rows, agents, history
  <2>2. (PermitOfApproval /\ NothingRestored)'
    BY <2>1 DEF PermitOfApproval, NothingRestored, EraOf, ProposedByAgent
  <2>3. QED
    BY <2>1, <2>2, FinishKeeps
<1>10. QED
  BY <1>1, <1>2, <1>3, <1>4, <1>5, <1>6, <1>7, <1>8, <1>9 DEF Step

LEMMA InductiveStep == IInv /\ [Next]_vars => IInv'
<1> SUFFICES ASSUME IInv, [Next]_vars PROVE IInv'
  OBVIOUS
<1>1. TypeOK'
  BY TypeStep DEF IInv
<1>2. ASSUME NEW r \in Request, RecordActionRequest(r) PROVE IInv'
  BY <1>1, <1>2
     DEF RecordActionRequest, IInv, TypeOK, HandlerShape, PermitOfApproval, SpendsHoldPermit,
         TransitionsHoldAgent, CheckedInService, NothingRestored, ProposerInService, EraOf,
         ProposedByAgent, agents, history
<1>3. ASSUME NEW r \in Request, Expire(r) PROVE IInv'
  BY <1>1, <1>3
     DEF Expire, IInv, HandlerShape, PermitOfApproval, SpendsHoldPermit,
         TransitionsHoldAgent, CheckedInService, NothingRestored, ProposerInService, EraOf,
         ProposedByAgent, agents, history
<1>4. ASSUME \/ \E who \in Human : MoveAuthority(who)
             \/ \E a \in Agent, kinds \in SUBSET Kind : ReviseMandate(a, kinds)
             \/ UNCHANGED vars
      PROVE  IInv'
  <2>1. UNCHANGED <<request, permit, expired, service, handler, era, issuedIn>>
    BY <1>4 DEF MoveAuthority, ReviseMandate, rows, agents, history, vars
  <2>2. QED
    BY <1>1, <2>1
       DEF IInv, HandlerShape, PermitOfApproval, SpendsHoldPermit, TransitionsHoldAgent,
           CheckedInService, NothingRestored, ProposerInService, EraOf, ProposedByAgent
<1>5. ASSUME NEW h \in Handler, Abort(h) PROVE IInv'
  <2>1. Finish(h) /\ UNCHANGED <<request, permit, expired, service, era, issuedIn>>
    BY <1>5 DEF Abort, rows, agents, history
  <2>2. (PermitOfApproval /\ NothingRestored)'
    BY <2>1 DEF IInv, PermitOfApproval, NothingRestored, EraOf, ProposedByAgent
  <2>3. QED
    BY <1>1, <2>1, <2>2, FinishKeeps DEF IInv
<1>6. QED
  BY <1>1, <1>2, <1>3, <1>4, <1>5, StartKeepsIInv, StepKeepsIInv DEF Next, Environment

\* The strengthening every safety theorem below rests on.
THEOREM Inductive == Spec => []IInv
BY InductiveInit, InductiveStep, PTL DEF Spec

(***************************************************************************)
(* What the actions guarantee                                              *)
(***************************************************************************)

\* Reactivation leaves no spendable permit from before it
\* (suspend-durable-agent-identity.server.ts, decision 1).
THEOREM ReactivationLeavesNothing == Spec => []NothingRestored
<1>1. IInv => NothingRestored
  BY DEF IInv
<1>2. QED
  BY <1>1, Inductive, PTL

\* Permits are minted and spent only while the proposing agent is in service,
\* for any number of handlers racing with its lifecycle.
THEOREM AuthorityServesInService == Spec => AuthorityMovesInService
<1> DEFINE Move == \A r \in Request :
                     permit'[r] # permit[r] /\ permit'[r] \in {"active", "consumed"}
                       => ProposerInService(r)
<1>1. IInv /\ [Next]_vars => [Move]_vars
  <2> SUFFICES ASSUME IInv, Next, NEW r \in Request,
                      permit'[r] # permit[r], permit'[r] \in {"active", "consumed"}
               PROVE  ProposerInService(r)
    BY DEF vars
  <2>1. ASSUME NEW h \in Handler, Step(h) PROVE ProposerInService(r)
    <3>1. CASE ApproveActionRequest(h)
      BY <3>1 DEF ApproveActionRequest, IInv, TypeOK
    <3>2. CASE CommitSpend(h)
      BY <3>2 DEF CommitSpend, Running, IInv, TypeOK, CheckedInService
    <3>3. CASE RevokeActionPermit(h)
      BY <3>3 DEF RevokeActionPermit, IInv, TypeOK
    <3>4. CASE /\ ~ApproveActionRequest(h) /\ ~CommitSpend(h) /\ ~RevokeActionPermit(h)
      BY <2>1, <3>4
         DEF Step, RecordAgentOriginatedActionRequest, RejectActionRequest, SpendPermit,
             CheckContinuingAuthority, SuspendDurableAgentIdentity,
             ReactivateDurableAgentIdentity, RetireDurableAgentIdentity, Refuse, rows
    <3>5. QED
      BY <3>1, <3>2, <3>3, <3>4
  <2>2. ASSUME NEW h \in Handler, Start(h) \/ Abort(h) PROVE UNCHANGED permit
    BY <2>2 DEF Start, AdmitAgentProposal, ConsumeActionPermitAsMachine, BeginDecision,
                BeginRevocation, ConsumeActionPermit, LockAgent, Abort, rows
  <2>3. ASSUME Environment PROVE UNCHANGED permit
    BY <2>3 DEF Environment, RecordActionRequest, Expire, MoveAuthority, ReviseMandate, rows
  <2>4. QED
    BY <2>1, <2>2, <2>3 DEF Next
<1>2. QED
  BY <1>1, Inductive, PTL DEF Spec, AuthorityMovesInService

LEMMA ProposalsInit == Init => OneOpenProposal
BY DEF Init, OneOpenProposal

\* What a step does to the request rows: nothing, or one row is filed past the
\* indexes, or one pending row is decided.
LEMMA RequestsMove ==
    ASSUME IInv, [Next]_vars
    PROVE  \/ UNCHANGED request
           \/ \E r \in Request :
                /\ request[r] = "absent"
                /\ DigestFree(r)
                /\ PlanStep[r] # NoOne => PlanStepFree(r)
                /\ request' = [request EXCEPT ![r] = "pending"]
           \/ \E r \in Request, s \in {"approved", "rejected"} :
                /\ request[r] = "pending"
                /\ request' = [request EXCEPT ![r] = s]
<1> DEFINE Files(r) == /\ request[r] = "absent"
                       /\ DigestFree(r)
                       /\ PlanStep[r] # NoOne => PlanStepFree(r)
                       /\ request' = [request EXCEPT ![r] = "pending"]
           Decides(r, s) == request[r] = "pending" /\ request' = [request EXCEPT ![r] = s]
           Moves == \/ UNCHANGED request
                    \/ \E r \in Request : Files(r)
                    \/ \E r \in Request, s \in {"approved", "rejected"} : Decides(r, s)
<1>1. ASSUME Environment PROVE Moves
  <2>1. ASSUME NEW r \in Request, RecordActionRequest(r) PROVE Files(r)
    BY <2>1, AuthorizationAssumption DEF RecordActionRequest, ProposedByAgent
  <2>2. QED
    BY <1>1, <2>1 DEF Environment, Expire, MoveAuthority, ReviseMandate, rows
<1>2. ASSUME NEW h \in Handler, Step(h) PROVE Moves
  <2>1. handler[h].op \in {"propose", "approve", "reject"} => handler[h].req \in Request
    BY DEF IInv, HandlerShape, Lifecycle
  <2>2. CASE RecordAgentOriginatedActionRequest(h)
    BY <2>1, <2>2 DEF RecordAgentOriginatedActionRequest, Running
  <2>3. CASE ApproveActionRequest(h)
    BY <2>1, <2>3 DEF ApproveActionRequest, Running
  <2>4. CASE RejectActionRequest(h)
    BY <2>1, <2>4 DEF RejectActionRequest, Running
  <2>5. QED
    BY <1>2, <2>2, <2>3, <2>4
       DEF Step, RevokeActionPermit, SpendPermit, CheckContinuingAuthority, CommitSpend,
           SuspendDurableAgentIdentity, ReactivateDurableAgentIdentity,
           RetireDurableAgentIdentity, Refuse, rows
<1>3. ASSUME NEW h \in Handler, Start(h) \/ Abort(h) PROVE UNCHANGED request
  BY <1>3 DEF Start, AdmitAgentProposal, ConsumeActionPermitAsMachine, BeginDecision,
              BeginRevocation, ConsumeActionPermit, LockAgent, Abort, rows
<1>4. QED
  BY <1>1, <1>2, <1>3 DEF Next, vars

LEMMA ProposalsStep == TypeOK /\ IInv /\ OneOpenProposal /\ [Next]_vars => OneOpenProposal'
<1> SUFFICES ASSUME IInv, OneOpenProposal, [Next]_vars PROVE OneOpenProposal'
  OBVIOUS
<1> USE DEF IInv
<1>1. ASSUME NEW r \in Request, request[r] = "absent", DigestFree(r),
             PlanStep[r] # NoOne => PlanStepFree(r),
             request' = [request EXCEPT ![r] = "pending"]
      PROVE  OneOpenProposal'
  BY <1>1 DEF OneOpenProposal, DigestFree, PlanStepFree, TypeOK
<1>2. ASSUME NEW r \in Request, request[r] = "pending",
             NEW s \in {"approved", "rejected"}, request' = [request EXCEPT ![r] = s]
      PROVE  OneOpenProposal'
  BY <1>2 DEF OneOpenProposal, TypeOK
<1>3. ASSUME UNCHANGED request PROVE OneOpenProposal'
  BY <1>3 DEF OneOpenProposal
<1>4. QED
  BY <1>1, <1>2, <1>3, RequestsMove

\* A row that moves is absent or pending; neither is, beside an approved row of
\* its step.
LEMMA ClosedStep ==
    ASSUME IInv, OneOpenProposal, [Next]_vars,
           NEW r \in Request, NEW q \in Request,
           request[r] = "approved", PlanStep[r] # NoOne, PlanStep[q] = PlanStep[r]
    PROVE  request'[q] = request[q]
<1>1. request[q] # "pending"
  BY DEF OneOpenProposal
<1>2. ASSUME NEW p \in Request, PlanStep[p] # NoOne => PlanStepFree(p),
             request' = [request EXCEPT ![p] = "pending"]
      PROVE  request'[q] = request[q]
  <2>1. PlanStepFree(q) => request[r] \notin {"pending", "approved"}
    BY DEF PlanStepFree
  <2>2. p # q
    BY <1>2, <2>1
  <2>3. QED
    BY <1>2, <2>2 DEF IInv, TypeOK
<1>3. ASSUME NEW p \in Request, NEW s \in {"approved", "rejected"}, request[p] = "pending",
             request' = [request EXCEPT ![p] = s]
      PROVE  request'[q] = request[q]
  BY <1>1, <1>3 DEF IInv, TypeOK
<1>4. QED
  BY <1>2, <1>3, RequestsMove

\* The two partial unique indexes of heby_action_requests hold one open
\* proposal per digest and per plan step, whoever writes them.
THEOREM ProposalsStayDistinct == Spec => []OneOpenProposal
<1>1. IInv => TypeOK
  BY DEF IInv
<1>2. QED
  BY <1>1, ProposalsInit, ProposalsStep, Inductive, PTL DEF Spec

\* An approval closes its plan step for good: from OneOpenProposal no other row
\* of the step is pending, and the index refuses the insert of a new one.
THEOREM ApprovedStepsClosed == Spec => ApprovedStepsStayClosed
<1>1. IInv /\ OneOpenProposal /\ [Next]_vars
        => [\A r, q \in Request :
              request[r] = "approved" /\ PlanStep[r] # NoOne /\ PlanStep[q] = PlanStep[r]
                => request'[q] = request[q]]_vars
  BY ClosedStep
<1>2. QED
  BY <1>1, ProposalsStayDistinct, Inductive, PTL DEF Spec, ApprovedStepsStayClosed

(***************************************************************************)
(* The handlers implement the promise                                      *)
(***************************************************************************)

\* One row's phase moves and the others stay.
LEMMA PhaseMoves ==
    ASSUME NEW r \in Request, NEW from, NEW to, ActPhase(r) = from, ActPhase(r)' = to,
           \A q \in Request \ {r} : ActPhase(q)' = ActPhase(q)
    PROVE  Promise!Move(r, from, to)
BY DEF Promise!Move

LEMMA OtherPhases ==
    ASSUME TypeOK, NEW r \in Request, NEW s, NEW p,
           request' = [request EXCEPT ![r] = s], permit' = [permit EXCEPT ![r] = p]
    PROVE  /\ request'[r] = s /\ permit'[r] = p
           /\ \A q \in Request \ {r} : ActPhase(q)' = ActPhase(q)
<1>1. \A q \in Request \ {r} : request'[q] = request[q] /\ permit'[q] = permit[q]
  BY DEF TypeOK
<1>2. \A q \in Request \ {r} : ActPhase(q)' = ActPhase(q)
  BY <1>1 DEF ActPhase
<1>3. QED
  BY <1>2 DEF TypeOK

\* Every execution of the handlers keeps the promise of GovernedAct: decided
\* once, ended once, never both spent and withdrawn.
THEOREM ChainKeepsPromise == Spec => KeepsPromise
<1> DEFINE phi == [r \in Request |-> ActPhase(r)]
<1>1. Init => Promise!Init
  BY DEF Init, Promise!Init, ActPhase
<1>2. IInv /\ [Next]_vars => [Promise!Next]_phi
  <2> SUFFICES ASSUME IInv, [Next]_vars PROVE Promise!Next \/ UNCHANGED phi
    OBVIOUS
  <2> USE DEF IInv
  <2>1. ASSUME UNCHANGED <<request, permit>> PROVE UNCHANGED phi
    BY <2>1 DEF ActPhase
  <2>2. ASSUME NEW r \in Request, request[r] = "absent",
               request' = [request EXCEPT ![r] = "pending"], UNCHANGED permit
        PROVE  Promise!Next
    <3>1. permit[r] = "none" /\ permit' = [permit EXCEPT ![r] = permit[r]]
      BY <2>2 DEF PermitOfApproval, TypeOK
    <3>2. \A q \in Request \ {r} : ActPhase(q)' = ActPhase(q)
      BY <2>2, <3>1, OtherPhases
    <3>3. ActPhase(r) = "none" /\ ActPhase(r)' = "proposed"
      BY <2>2, <3>1 DEF ActPhase, TypeOK
    <3>4. QED
      BY <3>2, <3>3, PhaseMoves DEF Promise!Propose, Promise!Next
  <2>3. ASSUME NEW r \in Request, request[r] = "pending",
               \/ /\ request' = [request EXCEPT ![r] = "approved"]
                  /\ permit' = [permit EXCEPT ![r] = "active"]
               \/ /\ request' = [request EXCEPT ![r] = "rejected"]
                  /\ UNCHANGED permit
        PROVE  Promise!Next
    <3>1. permit[r] = "none" /\ permit = [permit EXCEPT ![r] = permit[r]]
      BY <2>3 DEF PermitOfApproval, TypeOK
    <3>2. \A q \in Request \ {r} : ActPhase(q)' = ActPhase(q)
      <4>1. TypeOK
        OBVIOUS
      <4>2. CASE UNCHANGED permit
        BY <2>3, <3>1, <4>1, <4>2, OtherPhases
      <4>3. CASE permit' = [permit EXCEPT ![r] = "active"]
        BY <2>3, <4>1, <4>3, OtherPhases
      <4>4. QED
        BY <2>3, <4>2, <4>3
    <3>3. ActPhase(r) = "proposed" /\ ActPhase(r)' \in {"authorized", "declined"}
      BY <2>3, <3>1 DEF ActPhase, TypeOK
    <3>4. QED
      BY <3>2, <3>3, PhaseMoves DEF Promise!Authorize, Promise!Decline, Promise!Next
  <2>4. ASSUME NEW r \in Request, permit[r] = "active", UNCHANGED request,
               NEW p \in {"consumed", "revoked"}, permit' = [permit EXCEPT ![r] = p]
        PROVE  Promise!Next
    <3>1. TypeOK /\ request' = [request EXCEPT ![r] = request[r]]
      BY <2>4 DEF TypeOK
    <3>2. permit'[r] = p /\ \A q \in Request \ {r} : ActPhase(q)' = ActPhase(q)
      BY <2>4, <3>1, OtherPhases
    <3>3. request[r] = "approved" /\ request'[r] = "approved"
      BY <2>4 DEF PermitOfApproval
    <3>4. ActPhase(r) = "authorized" /\ ActPhase(r)' \in {"spent", "withdrawn"}
      BY <2>4, <3>2, <3>3 DEF ActPhase
    <3>5. QED
      BY <3>2, <3>4, PhaseMoves DEF Promise!Spend, Promise!Withdraw, Promise!Next
  <2>5. ASSUME Environment PROVE Promise!Next \/ UNCHANGED phi
    BY <2>1, <2>2, <2>5
       DEF Environment, RecordActionRequest, Expire, MoveAuthority, ReviseMandate, rows
  <2>6. ASSUME NEW h \in Handler, Start(h) \/ Abort(h) PROVE UNCHANGED phi
    BY <2>1, <2>6 DEF Start, AdmitAgentProposal, ConsumeActionPermitAsMachine, BeginDecision,
                      BeginRevocation, ConsumeActionPermit, LockAgent, Abort, rows
  <2>7. ASSUME NEW h \in Handler, Step(h) PROVE Promise!Next \/ UNCHANGED phi
    <3>1. handler[h].op \notin Lifecycle \cup {"none"} => handler[h].req \in Request
      BY DEF HandlerShape
    <3>2. CASE RecordAgentOriginatedActionRequest(h)
      BY <2>2, <3>1, <3>2 DEF RecordAgentOriginatedActionRequest, Running, Lifecycle
    <3>3. CASE ApproveActionRequest(h) \/ RejectActionRequest(h)
      BY <2>3, <3>1, <3>3 DEF ApproveActionRequest, RejectActionRequest, Running, Lifecycle
    <3>4. CASE RevokeActionPermit(h)
      BY <2>4, <3>1, <3>4 DEF RevokeActionPermit, Running, Lifecycle
    <3>5. CASE CommitSpend(h)
      BY <2>4, <3>1, <3>5 DEF CommitSpend, Running, Lifecycle, SpendsHoldPermit
    <3>6. QED
      BY <2>1, <2>7, <3>2, <3>3, <3>4, <3>5
         DEF Step, SpendPermit, CheckContinuingAuthority, SuspendDurableAgentIdentity,
             ReactivateDurableAgentIdentity, RetireDurableAgentIdentity, Refuse, rows
  <2>8. QED
    BY <2>1, <2>5, <2>6, <2>7 DEF Next, vars
<1>3. QED
  BY <1>1, <1>2, Inductive, PTL DEF Spec, KeepsPromise, Promise!Spec

(***************************************************************************)
(* Where reactivation would restore nothing                                *)
(*                                                                         *)
(* ReactivationRestoresNoAuthority is said of the reactivation gate and is *)
(* not true of it: a spend that matched a permit before it lapsed waits    *)
(* for the agent row while the agent is suspended and, the permit having   *)
(* lapsed, reactivated.  That is the only way it fails.                    *)
(***************************************************************************)

\* A spend that has the agent's row goes on only if the permit it matched has
\* not lapsed while it waited for that row.
ChecksExpiryAgain ==
    [][\A h \in Handler : handler[h].at = "spending" /\ handler'[h].at = "checked"
         => handler[h].req \notin expired]_vars

\* The permit of a spend that shares its agent's row is of the agent's era.
ChecksThisEra ==
    \A h \in Handler : handler[h].at = "checked" => issuedIn[handler[h].req] = EraOf(handler[h].req)

\* No permit is of an era to come.
IssuedByNow == \A r \in Request : issuedIn[r] <= EraOf(r)

\* The only steps that say when a permit was issued or spent, or begin an era.
LEMMA ErasMove ==
  ASSUME IInv, [Next]_vars,
         ~\E h \in Handler : \/ ApproveActionRequest(h) \/ CommitSpend(h)
                             \/ ReactivateDurableAgentIdentity(h)
  PROVE  /\ UNCHANGED history
         /\ \A r \in Request : permit'[r] = "consumed" => permit[r] = "consumed"
<1>1. CASE Environment
  BY <1>1 DEF Environment, RecordActionRequest, Expire, MoveAuthority, ReviseMandate, rows
<1>2. ASSUME NEW h \in Handler, Start(h) \/ Abort(h)
      PROVE  UNCHANGED history /\ permit' = permit
  BY <1>2 DEF Start, Abort, AdmitAgentProposal, ConsumeActionPermitAsMachine, BeginDecision,
              BeginRevocation, ConsumeActionPermit, LockAgent, rows
<1>3. ASSUME NEW h \in Handler, RevokeActionPermit(h)
      PROVE  /\ UNCHANGED history
             /\ \A r \in Request : permit'[r] = "consumed" => permit[r] = "consumed"
  BY <1>3 DEF RevokeActionPermit, IInv, TypeOK
<1>4. ASSUME NEW h \in Handler, Step(h), ~RevokeActionPermit(h)
      PROVE  UNCHANGED history /\ permit' = permit
  BY <1>4 DEF Step, RecordAgentOriginatedActionRequest, RejectActionRequest, SpendPermit,
              CheckContinuingAuthority, SuspendDurableAgentIdentity,
              RetireDurableAgentIdentity, Refuse, rows, history
<1>5. CASE UNCHANGED vars
  BY <1>5 DEF vars, history
<1> QED
  BY <1>1, <1>2, <1>3, <1>4, <1>5 DEF Next

\* Only the continuing-authority check brings a spend to the agent's row.
LEMMA ChecksMove ==
  ASSUME IInv, [Next]_vars, NEW g \in Handler, handler'[g].at = "checked"
  PROVE  handler'[g] = handler[g] \/ CheckContinuingAuthority(g)
<1>1. TypeOK
  BY DEF IInv
<1>2. ASSUME NEW h \in Handler, Start(h) PROVE handler'[g] = handler[g]
  <2>1. ASSUME NEW op, NEW at \in {"begun", "locked"}, NEW r, NEW a, NEW asof,
               Begin(h, op, at, r, a, asof)
        PROVE  handler'[g] = handler[g]
    BY <1>1, <2>1, HandlerMoves
  <2> QED
    BY <1>2, <2>1 DEF Start, AdmitAgentProposal, ConsumeActionPermitAsMachine, BeginDecision,
                      BeginRevocation, ConsumeActionPermit, LockAgent
<1>3. ASSUME NEW h \in Handler, Finish(h) PROVE handler'[g] = handler[g]
  BY <1>1, <1>3, HandlerMoves
<1>4. ASSUME NEW h \in Handler, Advance(h, "spending") PROVE handler'[g] = handler[g]
  BY <1>1, <1>4, HandlerMoves
<1>5. ASSUME NEW h \in Handler, CheckContinuingAuthority(h)
      PROVE  handler'[g] = handler[g] \/ CheckContinuingAuthority(g)
  BY <1>1, <1>5, HandlerMoves DEF CheckContinuingAuthority
<1>6. ASSUME NEW h \in Handler, Step(h) \/ Abort(h)
      PROVE  handler'[g] = handler[g] \/ CheckContinuingAuthority(g)
  BY <1>3, <1>4, <1>5, <1>6
     DEF Step, Abort, RecordAgentOriginatedActionRequest, ApproveActionRequest,
         RejectActionRequest, RevokeActionPermit, SpendPermit, CommitSpend,
         SuspendDurableAgentIdentity, ReactivateDurableAgentIdentity,
         RetireDurableAgentIdentity, Refuse
<1>7. ASSUME Environment PROVE UNCHANGED handler
  BY <1>7 DEF Environment, RecordActionRequest, Expire, MoveAuthority, ReviseMandate
<1> QED
  BY <1>2, <1>6, <1>7 DEF Next, vars

\* A spend keeps its permit's era from the check to the commit: the permit is
\* locked, so it is not issued anew, and the agent's row is shared, so the
\* agent is not reactivated.
LEMMA ChecksStep ==
  ASSUME IInv, IssuedByNow, ChecksThisEra, [Next]_vars,
         \A h \in Handler : handler[h].at = "spending" /\ handler'[h].at = "checked"
           => handler[h].req \notin expired
  PROVE  ChecksThisEra'
<1>1. /\ TypeOK /\ HandlerShape /\ PermitOfApproval /\ SpendsHoldPermit /\ NothingRestored
      /\ TransitionsHoldAgent
      /\ \A r \in Request : EraOf(r) \in Nat /\ issuedIn[r] \in Nat
  BY DEF IInv, TypeOK, EraOf, ProposedByAgent
<1>2. ASSUME NEW g \in Handler, NEW q, handler'[g].at = "checked", handler'[g].req = q
      PROVE  issuedIn'[q] = EraOf(q)'
  <2>1. CASE CheckContinuingAuthority(g)
    <3>1. handler[g].at = "spending" /\ handler[g].req = q
      BY <1>1, <1>2, <2>1, HandlerMoves DEF CheckContinuingAuthority, Running
    <3>2. UNCHANGED history
      BY <2>1 DEF CheckContinuingAuthority
    <3>3. q \in Request /\ permit[q] = "active" /\ q \notin expired
      BY <1>1, <1>2, <3>1 DEF HandlerShape, SpendsHoldPermit, Lifecycle
    <3>4. ~(issuedIn[q] < EraOf(q)) /\ issuedIn[q] <= EraOf(q)
      BY <1>1, <3>3 DEF NothingRestored, IssuedByNow
    <3>5. issuedIn[q] = EraOf(q)
      BY <1>1, <3>3, <3>4
    <3> QED
      BY <3>2, <3>5 DEF history, EraOf
  <2>2. CASE handler'[g] = handler[g]
    <3>1. /\ q \in Request /\ permit[q] = "active" /\ issuedIn[q] = EraOf(q)
          /\ handler[g].agent = Proposer[q]
      BY <1>1, <1>2, <2>2 DEF HandlerShape, SpendsHoldPermit, ChecksThisEra, Lifecycle
    <3>2. ASSUME NEW h \in Handler, ApproveActionRequest(h)
          PROVE  issuedIn'[q] = EraOf(q)'
      <4>1. handler[h].req \in Request /\ permit[handler[h].req] = "none"
        BY <1>1, <3>2 DEF ApproveActionRequest, Running, HandlerShape, PermitOfApproval,
                          Lifecycle, TypeOK
      <4>2. issuedIn'[q] = issuedIn[q] /\ era' = era
        BY <1>1, <3>1, <3>2, <4>1 DEF ApproveActionRequest, TypeOK
      <4> QED
        BY <3>1, <4>2 DEF EraOf
    <3>3. ASSUME NEW h \in Handler, CommitSpend(h) PROVE issuedIn'[q] = EraOf(q)'
      BY <3>1, <3>3 DEF CommitSpend, EraOf
    <3>4. ASSUME NEW h \in Handler, ReactivateDurableAgentIdentity(h)
          PROVE  issuedIn'[q] = EraOf(q)'
      <4>1. /\ handler[h].at = "locked" /\ handler[h].agent \in Agent
            /\ era' = [era EXCEPT ![handler[h].agent] = @ + 1] /\ issuedIn' = issuedIn
        BY <1>1, <3>4 DEF ReactivateDurableAgentIdentity, Running, HandlerShape
      <4>2. handler[h].agent # Proposer[q]
        BY <1>1, <1>2, <2>2, <3>1, <4>1 DEF TransitionsHoldAgent
      <4>3. EraOf(q)' = EraOf(q)
        BY <1>1, <4>1, <4>2 DEF EraOf, ProposedByAgent, TypeOK
      <4> QED
        BY <3>1, <4>1, <4>3
    <3>5. CASE ~\E h \in Handler : \/ ApproveActionRequest(h) \/ CommitSpend(h)
                                   \/ ReactivateDurableAgentIdentity(h)
      BY <3>1, <3>5, ErasMove DEF history, EraOf
    <3> QED
      BY <3>2, <3>3, <3>4, <3>5
  <2> QED
    BY <1>2, <2>1, <2>2, ChecksMove
<1>3. ASSUME NEW g \in Handler, handler'[g].at = "checked"
      PROVE  issuedIn'[handler'[g].req] = EraOf(handler[g].req)'
  <2>1. PICK q : q = handler'[g].req
    OBVIOUS
  <2>2. issuedIn'[q] = EraOf(q)'
    BY <1>2, <1>3, <2>1
  <2> QED
    BY <2>1, <2>2 DEF EraOf
<1> QED
  BY <1>3 DEF ChecksThisEra

LEMMA EraStep ==
  IInv /\ IssuedByNow /\ ChecksThisEra /\ ReactivationRestoresNoAuthority /\ [Next]_vars
    => IssuedByNow' /\ ReactivationRestoresNoAuthority'
<1> SUFFICES ASSUME IInv, IssuedByNow, ChecksThisEra, ReactivationRestoresNoAuthority,
                    [Next]_vars
             PROVE  IssuedByNow' /\ ReactivationRestoresNoAuthority'
  OBVIOUS
<1>1. /\ TypeOK /\ HandlerShape /\ PermitOfApproval /\ SpendsHoldPermit /\ NothingRestored
      /\ \A r \in Request : EraOf(r) \in Nat /\ issuedIn[r] \in Nat
  BY DEF IInv, TypeOK, EraOf, ProposedByAgent
<1>2. ASSUME NEW h \in Handler, ApproveActionRequest(h)
      PROVE  IssuedByNow' /\ ReactivationRestoresNoAuthority'
  <2> DEFINE q == handler[h].req
  <2>1. /\ q \in Request /\ permit[q] = "none"
        /\ permit' = [permit EXCEPT ![q] = "active"]
        /\ issuedIn' = [issuedIn EXCEPT ![q] = EraOf(q)]
        /\ era' = era /\ spentIn' = spentIn
    BY <1>1, <1>2 DEF ApproveActionRequest, Running, HandlerShape, PermitOfApproval, Lifecycle,
                      TypeOK
  <2>2. /\ issuedIn'[q] = EraOf(q) /\ permit'[q] = "active"
        /\ \A r \in Request : r # q => issuedIn'[r] = issuedIn[r] /\ permit'[r] = permit[r]
    BY <1>1, <2>1 DEF TypeOK
  <2>3. \A r \in Request : EraOf(r)' = EraOf(r)
    BY <2>1 DEF EraOf
  <2> HIDE DEF q
  <2>4. IssuedByNow'
    BY <1>1, <2>2, <2>3 DEF IssuedByNow
  <2> QED
    BY <2>1, <2>2, <2>4 DEF ReactivationRestoresNoAuthority
<1>3. ASSUME NEW h \in Handler, CommitSpend(h)
      PROVE  IssuedByNow' /\ ReactivationRestoresNoAuthority'
  <2> DEFINE q == handler[h].req
  <2>1. /\ q \in Request /\ EraOf(q) = issuedIn[q]
        /\ permit' = [permit EXCEPT ![q] = "consumed"]
        /\ spentIn' = [spentIn EXCEPT ![q] = EraOf(q)]
        /\ era' = era /\ issuedIn' = issuedIn
    BY <1>1, <1>3 DEF CommitSpend, Running, HandlerShape, ChecksThisEra, Lifecycle
  <2>2. /\ spentIn'[q] = EraOf(q)
        /\ \A r \in Request : r # q => spentIn'[r] = spentIn[r] /\ permit'[r] = permit[r]
    BY <1>1, <2>1 DEF TypeOK
  <2>3. \A r \in Request : EraOf(r)' = EraOf(r)
    BY <2>1 DEF EraOf
  <2> HIDE DEF q
  <2>4. IssuedByNow'
    BY <2>1, <2>3 DEF IssuedByNow
  <2> QED
    BY <2>1, <2>2, <2>4 DEF ReactivationRestoresNoAuthority
<1>4. ASSUME NEW h \in Handler, ReactivateDurableAgentIdentity(h)
      PROVE  IssuedByNow' /\ ReactivationRestoresNoAuthority'
  <2> DEFINE a == handler[h].agent
  <2>1. /\ era' = [era EXCEPT ![a] = @ + 1]
        /\ issuedIn' = issuedIn /\ spentIn' = spentIn /\ permit' = permit
    BY <1>4 DEF ReactivateDurableAgentIdentity, rows
  <2> HIDE DEF a
  <2>2. ASSUME NEW r \in Request PROVE EraOf(r) <= EraOf(r)'
    BY <1>1, <2>1 DEF EraOf, ProposedByAgent, TypeOK
  <2>3. ASSUME NEW r \in Request PROVE issuedIn'[r] <= EraOf(r)'
    <3>1. EraOf(r)' \in Nat
      BY TypeStep, <1>1 DEF TypeOK, EraOf, ProposedByAgent
    <3>2. issuedIn[r] <= EraOf(r) /\ EraOf(r) <= EraOf(r)'
      BY <2>2 DEF IssuedByNow
    <3>3. issuedIn[r] <= EraOf(r)'
      BY <1>1, <3>1, <3>2
    <3> QED
      BY <2>1, <3>3
  <2> QED
    BY <2>1, <2>3 DEF IssuedByNow, ReactivationRestoresNoAuthority
<1>5. CASE ~\E h \in Handler : \/ ApproveActionRequest(h) \/ CommitSpend(h)
                               \/ ReactivateDurableAgentIdentity(h)
  <2>1. /\ UNCHANGED history
        /\ \A r \in Request : permit'[r] = "consumed" => permit[r] = "consumed"
    BY <1>5, ErasMove
  <2> QED
    BY <2>1 DEF history, IssuedByNow, ReactivationRestoresNoAuthority, EraOf
<1> QED
  BY <1>2, <1>3, <1>4, <1>5

\* No permit granted before a reactivation is spent after it, if a spend asks
\* again, once it has the agent's row, whether its permit has lapsed: the gate
\* asks which permits are usable, not which are being used, and a permit that
\* lapses in the middle of its spend is all that the two miss together.
THEOREM ReactivationRestoresNothingReChecked ==
    Spec /\ ChecksExpiryAgain => []ReactivationRestoresNoAuthority
<1>1. Init => IssuedByNow /\ ChecksThisEra /\ ReactivationRestoresNoAuthority
  BY DEF Init, IssuedByNow, ChecksThisEra, ReactivationRestoresNoAuthority, EraOf,
         ProposedByAgent, Idle
<1>2. /\ IInv /\ IssuedByNow /\ ChecksThisEra /\ ReactivationRestoresNoAuthority /\ [Next]_vars
      /\ [\A h \in Handler : handler[h].at = "spending" /\ handler'[h].at = "checked"
             => handler[h].req \notin expired]_vars
      => ChecksThisEra' /\ IssuedByNow' /\ ReactivationRestoresNoAuthority'
  <2>1. CASE UNCHANGED vars
    BY <2>1, EraStep DEF vars, ChecksThisEra, EraOf
  <2> QED
    BY <2>1, ChecksStep, EraStep
<1> QED
  BY <1>1, <1>2, Inductive, PTL DEF Spec, ChecksExpiryAgain
=============================================================================
