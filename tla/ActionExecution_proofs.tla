----------------------- MODULE ActionExecution_proofs -----------------------
(***************************************************************************)
(* Proofs about ActionExecution, for every set of agents, requests and     *)
(* executors, with crashes or without.  Typing is inductive alone; IInv    *)
(* adds who owns a permit and an open attempt; LedgerInv, on top of IInv,  *)
(* what the guard knows under the revision lock; StandingIsTrue what an    *)
(* executor has still to look at.                                          *)
(***************************************************************************)
EXTENDS ActionExecution, TLAPS

(***************************************************************************)
(* The inductive invariant                                                 *)
(***************************************************************************)

Executing == Unspent \cup BeforeCall \cup {"sent"}
Sending == BeforeCall \cup {"sent"}
Consequent == {"accepted", "unknown"}

\* An execution works on a minted permit.
ExecutorShape ==
    \A h \in Executor :
        executor[h].at \in Executing => permit[executor[h].req] # "none"

\* A permit exists exactly for an approved request.
PermitOfApproval == \A r \in Request : permit[r] # "none" <=> request[r] = "approved"

\* The permit a spend has locked stays active, and is locked by it alone.
SpendsHoldPermit ==
    \A h \in Executor : executor[h].at \in {"spending", "guarded"} =>
        /\ permit[executor[h].req] = "active"
        /\ \A g \in Executor :
              executor[g].at \in {"spending", "guarded"} /\ executor[g].req = executor[h].req
                => g = h

\* Past the commit, an execution owns its open attempt; nothing has left
\* before the call.
SendsOwnAttempt ==
    \A h \in Executor : executor[h].at \in Sending =>
        /\ attempt[executor[h].req] = "pending"
        /\ executor[h].at \in BeforeCall => wire[executor[h].req] = "quiet"
        /\ \A g \in Executor :
              executor[g].at \in Sending /\ executor[g].req = executor[h].req => g = h

IInv ==
    /\ TypeOK
    /\ ExecutorShape
    /\ PermitOfApproval
    /\ SpendsHoldPermit
    /\ SendsOwnAttempt
    /\ SpendIsRecorded
    /\ HonestOutcome

(***************************************************************************)
(* Typing                                                                  *)
(***************************************************************************)

LEMMA TypeInit == Init => TypeOK
BY ExecutionAssumption DEF Init, TypeOK, Idle, ExecutorState

\* What each kind of executor step leaves in the executors, and their types.
LEMMA ExecutorMoves ==
    ASSUME TypeOK, NEW h \in Executor
    PROVE  /\ \A at \in {"filing", "begun"}, r \in Request, a \in Request \cup {NoOne} :
                 Begin(h, at, r, a) =>
                   /\ executor' \in [Executor -> ExecutorState]
                   /\ executor[h].at = "idle"
                   /\ executor'[h].at = at /\ executor'[h].req = r
                   /\ executor'[h].ack = a /\ executor'[h].now = clock
                   /\ \A g \in Executor \ {h} : executor'[g] = executor[g]
           /\ \A at \in Executing :
                 executor[h].at # "idle" /\ Advance(h, at) =>
                   /\ executor' \in [Executor -> ExecutorState]
                   /\ executor'[h].at = at /\ executor'[h].req = executor[h].req
                   /\ executor'[h].ack = executor[h].ack /\ executor'[h].now = executor[h].now
                   /\ \A g \in Executor \ {h} : executor'[g] = executor[g]
           /\ Finish(h) =>
                   /\ executor' \in [Executor -> ExecutorState]
                   /\ executor'[h].at = "idle"
                   /\ \A g \in Executor \ {h} : executor'[g] = executor[g]
<1>1. executor \in [Executor -> ExecutorState] /\ clock \in Nat
  BY DEF TypeOK
<1>2. ASSUME NEW at \in {"filing", "begun"}, NEW r \in Request, NEW a \in Request \cup {NoOne},
             Begin(h, at, r, a)
      PROVE  /\ executor' \in [Executor -> ExecutorState]
             /\ executor[h].at = "idle"
             /\ executor'[h].at = at /\ executor'[h].req = r
             /\ executor'[h].ack = a /\ executor'[h].now = clock
             /\ \A g \in Executor \ {h} : executor'[g] = executor[g]
  <2>1. [at |-> at, req |-> r, ack |-> a, now |-> clock] \in ExecutorState
    BY <1>1 DEF ExecutorState, Unspent
  <2>2. QED
    BY <1>1, <1>2, <2>1 DEF Begin, At
<1>3. ASSUME NEW at \in Executing, executor[h].at # "idle", Advance(h, at)
      PROVE  /\ executor' \in [Executor -> ExecutorState]
             /\ executor'[h].at = at /\ executor'[h].req = executor[h].req
             /\ executor'[h].ack = executor[h].ack /\ executor'[h].now = executor[h].now
             /\ \A g \in Executor \ {h} : executor'[g] = executor[g]
  <2>1. \A s \in ExecutorState : s.at # "idle" =>
          /\ [s EXCEPT !.at = at] \in ExecutorState
          /\ [s EXCEPT !.at = at].at = at /\ [s EXCEPT !.at = at].req = s.req
          /\ [s EXCEPT !.at = at].ack = s.ack /\ [s EXCEPT !.at = at].now = s.now
    BY DEF ExecutorState, Executing, Idle
  <2>2. executor' \in [Executor -> ExecutorState]
    BY <1>1, <1>3, <2>1 DEF Advance
  <2>3. QED
    BY <1>1, <1>3, <2>1, <2>2 DEF Advance
<1>4. ASSUME Finish(h)
      PROVE  /\ executor' \in [Executor -> ExecutorState]
             /\ executor'[h].at = "idle"
             /\ \A g \in Executor \ {h} : executor'[g] = executor[g]
  <2>1. Idle \in ExecutorState /\ Idle.at = "idle"
    BY DEF Idle, ExecutorState
  <2>2. QED
    BY <1>1, <1>4, <2>1 DEF Finish
<1>5. QED
  BY <1>2, <1>3, <1>4

\* The types of what completeAttempt writes.
LEMMA CompletionTyping ==
    ASSUME TypeOK, NEW h \in Executor, NEW s \in Terminal, CompleteAttempt(h, s)
    PROVE  TypeOK'
<1>1. executor' \in [Executor -> ExecutorState]
  BY ExecutorMoves DEF CompleteAttempt
<1>2. attempt' \in [Request -> {"none", "pending"} \cup Terminal]
  BY DEF TypeOK, CompleteAttempt
<1>3. standing' \in [Executor -> SUBSET Ruling]
  BY DEF TypeOK, CompleteAttempt, Finish
<1>4. QED
  BY <1>1, <1>2, <1>3 DEF TypeOK, CompleteAttempt, rows, ruling

LEMMA TypeStep == TypeOK /\ [Next]_vars => TypeOK'
<1> SUFFICES ASSUME TypeOK, [Next]_vars PROVE TypeOK'
  OBVIOUS
<1>1. ASSUME NEW r \in Request,
             \/ ProposeSend(r) \/ ApproveActionRequest(r) \/ RejectActionRequest(r)
             \/ RevokeActionPermit(r) \/ Expire(r) \/ ProviderActs(r)
      PROVE  TypeOK'
  <2>1. CASE ProposeSend(r) \/ RejectActionRequest(r)
    BY <2>1 DEF TypeOK, ProposeSend, RejectActionRequest, attempts, ruling
  <2>2. CASE ApproveActionRequest(r)
    BY <2>2 DEF TypeOK, ApproveActionRequest, attempts, ruling
  <2>3. CASE RevokeActionPermit(r) \/ Expire(r)
    BY <2>3 DEF TypeOK, RevokeActionPermit, Expire, attempts, ruling
  <2>4. CASE ProviderActs(r)
    BY <2>4 DEF TypeOK, ProviderActs, rows, attempts, ruling
  <2>5. QED
    BY <1>1, <2>1, <2>2, <2>3, <2>4
<1>2. ASSUME NEW b \in Ruling, NEW hs, Noticed(b, hs) \/ Forgotten(b)
      PROVE  standing' \in [Executor -> SUBSET Ruling]
  <2>1. standing \in [Executor -> SUBSET Ruling]
    BY DEF TypeOK
  <2>2. CASE Noticed(b, hs)
    <3>1. \A h \in Executor : (IF h \in hs THEN standing[h] \cup {b} ELSE standing[h])
                                 \in SUBSET Ruling
      BY <2>1
    <3>2. QED
      BY <2>2, <3>1 DEF Noticed
  <2>3. CASE Forgotten(b)
    BY <2>1, <2>3 DEF Forgotten
  <2>4. QED
    BY <1>2, <2>2, <2>3
<1>3. ASSUME NEW r \in Request, NEW f \in Facet, WithdrawTarget(r, f) PROVE TypeOK'
  <2>1. /\ f \in Ruling /\ withdrawn' = [withdrawn EXCEPT ![r] = @ \cup {f}]
        /\ \E hs : Noticed(f, hs)
    BY <1>3 DEF WithdrawTarget, Ruling
  <2>2. withdrawn' \in [Request -> SUBSET Facet]
    BY <2>1 DEF TypeOK
  <2>3. standing' \in [Executor -> SUBSET Ruling]
    BY <1>2, <2>1
  <2>4. QED
    BY <1>3, <2>2, <2>3 DEF TypeOK, WithdrawTarget, rows, attempts
<1>4. ASSUME NEW s \in Stop, PlaceStop(s) \/ LiftStop(s) PROVE TypeOK'
  BY <1>2, <1>4 DEF TypeOK, PlaceStop, LiftStop, Ruling, rows, attempts
<1>5. ASSUME NEW a \in Agent, SuspendAgent(a) PROVE TypeOK'
  BY <1>2, <1>5 DEF TypeOK, SuspendAgent, Ruling, rows, attempts
<1>6. ASSUME NEW a \in Agent, ReactivateAgent(a) PROVE TypeOK'
  <2>1. standing' \in [Executor -> SUBSET Ruling]
    BY <1>6 DEF TypeOK, ReactivateAgent
  <2>2. QED
    BY <1>6, <2>1 DEF TypeOK, ReactivateAgent, rows, attempts
<1>7. ASSUME NEW h \in Executor, Start(h) PROVE TypeOK'
  <2>1. ASSUME NEW r \in Request, NEW a \in Request \cup {NoOne},
               CheckPriorPublicationAtProposal(h, r, a)
        PROVE  TypeOK'
    BY <2>1, ExecutorMoves
       DEF TypeOK, CheckPriorPublicationAtProposal, Begin, rows, attempts, ruling
  <2>2. ASSUME NEW r \in Request, ExecuteAuthorizedAction(h, r) PROVE TypeOK'
    <3>1. Begin(h, "begun", r, NoOne) /\ clock' = clock + 1
      BY <2>2 DEF ExecuteAuthorizedAction
    <3>2. executor' \in [Executor -> ExecutorState] /\ UNCHANGED standing
      BY <3>1, ExecutorMoves DEF Begin
    <3>3. clock' \in Nat
      BY <3>1 DEF TypeOK
    <3>4. QED
      BY <2>2, <3>2, <3>3 DEF TypeOK, ExecuteAuthorizedAction, rows, attempts, ruling
  <2>3. QED
    BY <1>7, <2>1, <2>2 DEF Start
<1>8. ASSUME NEW h \in Executor, Step(h) \/ Crash(h) PROVE TypeOK'
  <2>1. Finish(h) => standing' \in [Executor -> SUBSET Ruling]
    BY DEF TypeOK, Finish
  <2>2. executor[h] \in ExecutorState
    BY DEF TypeOK
  <2>3. ASSUME ProposePublication(h) PROVE TypeOK'
    <3>1. executor[h].ack \in Request \cup {NoOne}
      BY <2>2 DEF ExecutorState, Idle
    <3>2. QED
      BY <2>1, <2>3, <3>1, ExecutorMoves DEF TypeOK, ProposePublication, attempts, ruling
  <2>4. ASSUME SpendPermit(h) \/ GuardPublication(h) PROVE TypeOK'
    <3>1. executor[h].at # "idle" /\ (Advance(h, "spending") \/ Advance(h, "guarded"))
      BY <2>4 DEF SpendPermit, GuardPublication, At
    <3>2. executor' \in [Executor -> ExecutorState] /\ UNCHANGED standing
      BY <3>1, ExecutorMoves DEF Advance, Executing, Unspent
    <3>3. QED
      BY <2>4, <3>2 DEF TypeOK, SpendPermit, GuardPublication, rows, attempts, ruling
  <2>5. ASSUME CommitSpend(h) PROVE TypeOK'
    <3>1. executor[h].now \in Nat /\ executor[h].req \in Request
      BY <2>2, <2>5 DEF CommitSpend, At, ExecutorState, Idle
    <3>2. /\ executor' \in [Executor -> ExecutorState]
          /\ standing' \in [Executor -> SUBSET Ruling]
      <4>1. Finish(h) \/ (executor[h].at # "idle" /\ Advance(h, "committed"))
        BY <2>5 DEF CommitSpend, At
      <4>2. "committed" \in Executing
        BY DEF Executing, BeforeCall
      <4>3. Advance(h, "committed") => UNCHANGED standing
        BY DEF Advance
      <4>4. QED
        BY <2>1, <4>1, <4>2, <4>3, ExecutorMoves DEF TypeOK
    <3>3. /\ permit' \in [Request -> {"none", "active", "consumed", "revoked"}]
          /\ startedAt' \in [Request -> Nat]
          /\ attempt' \in [Request -> {"none", "pending"} \cup Terminal]
      BY <2>5, <3>1 DEF TypeOK, CommitSpend, Terminal
    <3>4. ledger' \in Seq(Request)
      BY <2>5, <3>1 DEF TypeOK, CommitSpend
    <3>5. QED
      BY <2>5, <3>2, <3>3, <3>4 DEF TypeOK, CommitSpend, ruling
  <2>6. ASSUME NEW from, NEW to \in Executing, NEW ok, from # "idle", Look(h, from, to, ok)
        PROVE  TypeOK'
    <3>1. CASE CompleteAttempt(h, "refused")
      BY <3>1, CompletionTyping DEF Terminal
    <3>2. CASE Advance(h, to) /\ UNCHANGED <<rows, attempts, clock, ruling, wire>>
      <4>1. executor' \in [Executor -> ExecutorState] /\ UNCHANGED standing
        BY <2>6, <3>2, ExecutorMoves DEF Advance, Look, At
      <4>2. QED
        BY <3>2, <4>1 DEF TypeOK, rows, attempts, ruling
    <3>3. QED
      BY <2>6, <3>1, <3>2 DEF Look
  <2>7. ASSUME \/ RereadTenantArming(h) \/ RereadExecutionControl(h) \/ RereadPackage(h)
               \/ RereadMedia(h) \/ RereadAgent(h)
        PROVE  TypeOK'
    BY <2>6, <2>7 DEF RereadTenantArming, RereadExecutionControl, RereadPackage, RereadMedia,
                      RereadAgent, AfterReach, Executing, BeforeCall
  <2>8. ASSUME Dispatch(h) PROVE TypeOK'
    <3>1. executor' \in [Executor -> ExecutorState] /\ UNCHANGED standing
      BY <2>8, ExecutorMoves DEF Dispatch, Advance, At, Executing
    <3>2. QED
      BY <2>8, <3>1 DEF TypeOK, Dispatch, rows, attempts, ruling
  <2>9. ASSUME RefuseDispatch(h) \/ RecordAnswer(h) PROVE TypeOK'
    <3>1. \E s \in Terminal : CompleteAttempt(h, s)
      BY <2>9 DEF RefuseDispatch, RecordAnswer, Terminal
    <3>2. QED
      BY <3>1, CompletionTyping
  <2>10. ASSUME Refuse(h) \/ Crash(h) PROVE TypeOK'
    BY <2>1, <2>10, ExecutorMoves DEF TypeOK, Refuse, Crash, rows, attempts, ruling
  <2>11. QED
    BY <1>8, <2>3, <2>4, <2>5, <2>7, <2>8, <2>9, <2>10 DEF Step
<1>9. ASSUME UNCHANGED vars PROVE TypeOK'
  BY <1>9 DEF TypeOK, vars
<1>10. ASSUME NEW r \in Request, RestorePackage(r) PROVE TypeOK'
  <2>1. standing' \in [Executor -> SUBSET Ruling] /\ withdrawn' \in [Request -> SUBSET Facet]
    BY <1>10 DEF TypeOK, RestorePackage
  <2>2. QED
    BY <1>10, <2>1 DEF TypeOK, RestorePackage, rows, attempts
<1>11. QED
  BY <1>1, <1>3, <1>4, <1>5, <1>6, <1>7, <1>8, <1>9, <1>10 DEF Next, Environment

\* Every row, executor and history keeps its type.
THEOREM TypeCorrect == Spec => []TypeOK
BY TypeInit, TypeStep, PTL DEF Spec

(***************************************************************************)
(* Who owns a permit and an open attempt                                   *)
(***************************************************************************)

\* An executor that is doing something works on a request.
LEMMA BusyHasRequest ==
    ASSUME TypeOK, NEW h \in Executor, executor[h].at # "idle"
    PROVE  executor[h].req \in Request /\ executor[h].ack \in Request \cup {NoOne}
<1>1. executor[h] \in ExecutorState
  BY DEF TypeOK
<1>2. QED
  BY <1>1 DEF ExecutorState, Idle

LEMMA InductiveInit == Init => IInv
<1> SUFFICES ASSUME Init PROVE IInv
  OBVIOUS
<1>1. \A h \in Executor : executor[h].at = "idle"
  BY DEF Init, Idle
<1>2. QED
  BY <1>1, TypeInit
     DEF Init, IInv, ExecutorShape, PermitOfApproval, SpendsHoldPermit, SendsOwnAttempt,
         SpendIsRecorded, HonestOutcome, Executing, Unspent, BeforeCall, Sending

\* An executor that ends, or never holds anything, leaves the others' shares.
LEMMA ReleaseKeeps ==
    ASSUME IInv, NEW h \in Executor, executor'[h].at \in {"idle", "filing"},
           \A g \in Executor \ {h} : executor'[g] = executor[g],
           UNCHANGED <<permit, wire>>,
           \A r \in Request : r # executor[h].req \/ executor[h].at \notin Sending
                                => attempt'[r] = attempt[r]
    PROVE  ExecutorShape' /\ SpendsHoldPermit' /\ SendsOwnAttempt'
<1>1. ExecutorShape'
  BY DEF IInv, ExecutorShape, Executing, Unspent, BeforeCall
<1>2. SpendsHoldPermit'
  BY DEF IInv, SpendsHoldPermit
<1>3. SendsOwnAttempt'
  <2> SUFFICES ASSUME NEW g \in Executor, executor'[g].at \in Sending
               PROVE  /\ attempt'[executor'[g].req] = "pending"
                      /\ executor'[g].at \in BeforeCall => wire'[executor'[g].req] = "quiet"
                      /\ \A f \in Executor :
                            executor'[f].at \in Sending /\ executor'[f].req = executor'[g].req
                              => f = g
    BY DEF SendsOwnAttempt
  <2>1. g # h /\ executor'[g] = executor[g]
    BY DEF Sending, BeforeCall
  <2>2. executor[g].req \in Request
    BY <2>1, BusyHasRequest DEF IInv, Sending, BeforeCall
  <2>3. executor[h].req # executor[g].req \/ executor[h].at \notin Sending
    BY <2>1 DEF IInv, SendsOwnAttempt
  <2>4. \A f \in Executor : executor'[f].at \in Sending => f # h /\ executor'[f] = executor[f]
    BY DEF Sending, BeforeCall
  <2>5. QED
    BY <2>1, <2>2, <2>3, <2>4 DEF IInv, SendsOwnAttempt
<1>4. QED
  BY <1>1, <1>2, <1>3

\* completeAttempt closes the open attempt of its executor with what the
\* provider's side allows.
LEMMA CompletionKeeps ==
    ASSUME IInv, TypeOK', NEW h \in Executor, NEW s \in Terminal, CompleteAttempt(h, s),
           executor[h].at \in Sending,
           s \in {"failed", "refused"} => wire[executor[h].req] \in {"quiet", "dropped"},
           s = "refused" => wire[executor[h].req] = "quiet",
           s = "accepted" => wire[executor[h].req] = "performed"
    PROVE  IInv'
<1> DEFINE r == executor[h].req
<1>1. r \in Request
  BY BusyHasRequest DEF IInv, Sending, BeforeCall
<1>2. /\ attempt[r] = "pending" /\ attempt' = [attempt EXCEPT ![r] = s]
      /\ UNCHANGED <<request, permit, wire>>
      /\ Finish(h)
  BY DEF CompleteAttempt, rows
<1>3. attempt'[r] = s /\ \A q \in Request \ {r} : attempt'[q] = attempt[q]
  BY <1>1, <1>2 DEF IInv, TypeOK
<1>4. executor'[h].at = "idle" /\ \A g \in Executor \ {h} : executor'[g] = executor[g]
  BY <1>2, ExecutorMoves DEF IInv
<1>5. ExecutorShape' /\ SpendsHoldPermit' /\ SendsOwnAttempt'
  BY <1>2, <1>3, <1>4, ReleaseKeeps
<1>6. PermitOfApproval'
  BY <1>2 DEF IInv, PermitOfApproval
<1>7. SpendIsRecorded'
  BY <1>1, <1>2, <1>3 DEF IInv, SpendIsRecorded, Terminal
<1>8. HonestOutcome'
  BY <1>1, <1>2, <1>3 DEF IInv, HonestOutcome
<1>9. QED
  BY <1>5, <1>6, <1>7, <1>8 DEF IInv

LEMMA StartKeepsIInv ==
    ASSUME IInv, TypeOK', NEW h \in Executor, Start(h) PROVE IInv'
<1>1. UNCHANGED <<request, permit, attempt, wire>>
  BY DEF Start, CheckPriorPublicationAtProposal, ExecuteAuthorizedAction, rows, attempts
<1>2. /\ executor[h].at = "idle"
      /\ \A g \in Executor \ {h} : executor'[g] = executor[g]
      /\ \/ executor'[h].at = "filing"
         \/ executor'[h].at = "begun" /\ permit[executor'[h].req] = "active"
  <2>1. ASSUME NEW r \in Request, NEW a \in Request \cup {NoOne},
               CheckPriorPublicationAtProposal(h, r, a)
        PROVE  /\ executor[h].at = "idle" /\ executor'[h].at = "filing"
               /\ \A g \in Executor \ {h} : executor'[g] = executor[g]
    BY <2>1, ExecutorMoves DEF IInv, CheckPriorPublicationAtProposal
  <2>2. ASSUME NEW r \in Request, ExecuteAuthorizedAction(h, r)
        PROVE  /\ executor[h].at = "idle" /\ executor'[h].at = "begun"
               /\ permit[executor'[h].req] = "active"
               /\ \A g \in Executor \ {h} : executor'[g] = executor[g]
    <3>1. Begin(h, "begun", r, NoOne) /\ permit[r] = "active"
      BY <2>2 DEF ExecuteAuthorizedAction
    <3>2. QED
      BY <3>1, ExecutorMoves DEF IInv
  <2>3. QED
    BY <2>1, <2>2 DEF Start
<1>3. ExecutorShape'
  BY <1>1, <1>2 DEF IInv, ExecutorShape, Executing, Unspent, BeforeCall
<1>4. SpendsHoldPermit'
  BY <1>1, <1>2 DEF IInv, SpendsHoldPermit
<1>5. SendsOwnAttempt'
  BY <1>1, <1>2 DEF IInv, SendsOwnAttempt, Sending, BeforeCall
<1>6. (PermitOfApproval /\ SpendIsRecorded /\ HonestOutcome)'
  BY <1>1 DEF IInv, PermitOfApproval, SpendIsRecorded, HonestOutcome
<1>7. QED
  BY <1>3, <1>4, <1>5, <1>6 DEF IInv

\* A look before the call either passes on or closes an attempt of which
\* nothing has left.
LEMMA LookKeeps ==
    ASSUME IInv, TypeOK', NEW h \in Executor, NEW from \in BeforeCall, NEW to \in BeforeCall,
           NEW ok, Look(h, from, to, ok)
    PROVE  IInv'
<1> USE DEF IInv
<1>1. executor[h].at \in BeforeCall /\ executor[h].at # "idle"
  BY DEF Look, At, BeforeCall
<1>2. CASE CompleteAttempt(h, "refused")
  <2>1. wire[executor[h].req] = "quiet"
    BY <1>1 DEF SendsOwnAttempt, Sending
  <2>2. QED
    BY <1>1, <1>2, <2>1, CompletionKeeps DEF Terminal, Sending
<1>3. CASE Advance(h, to) /\ UNCHANGED <<rows, attempts, clock, ruling, wire>>
  <2>1. UNCHANGED <<request, permit, attempt, wire>>
    BY <1>3 DEF rows, attempts
  <2>2. /\ executor'[h].at = to /\ executor'[h].req = executor[h].req
        /\ \A g \in Executor \ {h} : executor'[g] = executor[g]
    BY <1>1, <1>3, ExecutorMoves DEF Executing
  <2>3. ExecutorShape'
    BY <1>1, <2>1, <2>2 DEF ExecutorShape, Executing
  <2>4. SpendsHoldPermit'
    BY <1>1, <2>1, <2>2 DEF SpendsHoldPermit, BeforeCall
  <2>5. SendsOwnAttempt'
    BY <1>1, <2>1, <2>2 DEF SendsOwnAttempt, Sending
  <2>6. (PermitOfApproval /\ SpendIsRecorded /\ HonestOutcome)'
    BY <2>1 DEF PermitOfApproval, SpendIsRecorded, HonestOutcome
  <2>7. QED
    BY <2>3, <2>4, <2>5, <2>6
<1>4. QED
  BY <1>2, <1>3 DEF Look

LEMMA StepKeepsIInv ==
    ASSUME IInv, TypeOK', NEW h \in Executor, Step(h) PROVE IInv'
<1> DEFINE r == executor[h].req
<1> USE DEF IInv
<1>1. ASSUME ProposePublication(h) PROVE IInv'
  <2>1. /\ r \in Request /\ request[r] = "absent" /\ executor[h].at = "filing"
        /\ request' = [request EXCEPT ![r] = "pending"]
        /\ UNCHANGED <<permit, attempt, wire>>
        /\ Finish(h)
    BY <1>1, BusyHasRequest DEF ProposePublication, At, attempts
  <2>2. executor'[h].at = "idle" /\ \A g \in Executor \ {h} : executor'[g] = executor[g]
    BY <2>1, ExecutorMoves
  <2>3. ExecutorShape' /\ SpendsHoldPermit' /\ SendsOwnAttempt'
    BY <2>1, <2>2, ReleaseKeeps
  <2>4. (PermitOfApproval /\ SpendIsRecorded /\ HonestOutcome)'
    BY <2>1 DEF PermitOfApproval, SpendIsRecorded, HonestOutcome, TypeOK
  <2>5. QED
    BY <2>3, <2>4
<1>2. ASSUME SpendPermit(h) PROVE IInv'
  <2>1. /\ r \in Request /\ executor[h].at = "begun" /\ ~PermitLocked(r) /\ permit[r] = "active"
        /\ UNCHANGED <<request, permit, attempt, wire>>
        /\ executor'[h].at = "spending" /\ executor'[h].req = r
        /\ \A g \in Executor \ {h} : executor'[g] = executor[g]
    BY <1>2, BusyHasRequest, ExecutorMoves
       DEF SpendPermit, At, rows, attempts, Executing, Unspent
  <2>2. ExecutorShape'
    BY <2>1 DEF ExecutorShape
  <2>3. SpendsHoldPermit'
    BY <2>1 DEF SpendsHoldPermit, PermitLocked
  <2>4. SendsOwnAttempt'
    BY <2>1 DEF SendsOwnAttempt, Sending, BeforeCall
  <2>5. (PermitOfApproval /\ SpendIsRecorded /\ HonestOutcome)'
    BY <2>1 DEF PermitOfApproval, SpendIsRecorded, HonestOutcome
  <2>6. QED
    BY <2>2, <2>3, <2>4, <2>5
<1>3. ASSUME GuardPublication(h) PROVE IInv'
  <2>1. /\ executor[h].at = "spending"
        /\ UNCHANGED <<request, permit, attempt, wire>>
        /\ executor'[h].at = "guarded" /\ executor'[h].req = r
        /\ \A g \in Executor \ {h} : executor'[g] = executor[g]
    BY <1>3, ExecutorMoves DEF GuardPublication, At, rows, attempts, Executing, Unspent
  <2>2. ExecutorShape'
    BY <2>1 DEF ExecutorShape, Executing, Unspent
  <2>3. SpendsHoldPermit'
    BY <2>1 DEF SpendsHoldPermit
  <2>4. SendsOwnAttempt'
    BY <2>1 DEF SendsOwnAttempt, Sending, BeforeCall
  <2>5. (PermitOfApproval /\ SpendIsRecorded /\ HonestOutcome)'
    BY <2>1 DEF PermitOfApproval, SpendIsRecorded, HonestOutcome
  <2>6. QED
    BY <2>2, <2>3, <2>4, <2>5
<1>4. ASSUME CommitSpend(h) PROVE IInv'
  <2>1. /\ r \in Request /\ executor[h].at = "guarded" /\ permit[r] = "active"
        /\ permit' = [permit EXCEPT ![r] = "consumed"]
        /\ UNCHANGED <<request, wire>>
    BY <1>4, BusyHasRequest DEF CommitSpend, At, SpendsHoldPermit
  <2>2. attempt[r] = "none" /\ wire[r] = "quiet"
    BY <2>1 DEF SpendIsRecorded
  <2>3. /\ executor'[h].at \in {"idle", "committed"}
        /\ executor'[h].at = "committed" => executor'[h].req = r /\ attempt'[r] = "pending"
        /\ attempt'[r] \in {"refused", "pending"}
        /\ \A g \in Executor \ {h} : executor'[g] = executor[g]
        /\ \A q \in Request \ {r} : attempt'[q] = attempt[q]
    <3>1. CASE Finish(h) /\ attempt' = [attempt EXCEPT ![r] = "refused"]
      BY <2>1, <3>1, ExecutorMoves DEF TypeOK
    <3>2. CASE Advance(h, "committed") /\ attempt' = [attempt EXCEPT ![r] = "pending"]
      BY <2>1, <3>2, ExecutorMoves DEF TypeOK, Executing, BeforeCall
    <3>3. QED
      BY <1>4, <3>1, <3>2 DEF CommitSpend
  <2>4. permit'[r] = "consumed" /\ \A q \in Request \ {r} : permit'[q] = permit[q]
    BY <2>1 DEF TypeOK
  <2>5. \A g \in Executor : executor[g].at # "idle" => executor[g].req \in Request
    BY BusyHasRequest
  <2>6. ExecutorShape'
    BY <2>1, <2>3, <2>4, <2>5 DEF ExecutorShape, Executing, Unspent, BeforeCall
  <2>7. SpendsHoldPermit'
    BY <2>1, <2>3, <2>4, <2>5 DEF SpendsHoldPermit
  <2>8. SendsOwnAttempt'
    <3>1. \A g \in Executor \ {h} : executor[g].at \in Sending =>
             executor[g].req # r /\ executor[g].req \in Request
      BY <2>2, <2>5 DEF SendsOwnAttempt, Sending, BeforeCall
    <3>2. QED
      BY <2>1, <2>2, <2>3, <3>1 DEF SendsOwnAttempt, Sending, BeforeCall
  <2>9. PermitOfApproval'
    BY <2>1, <2>4 DEF PermitOfApproval
  <2>10. SpendIsRecorded' /\ HonestOutcome'
    BY <2>1, <2>2, <2>3, <2>4 DEF SpendIsRecorded, HonestOutcome
  <2>11. QED
    BY <2>6, <2>7, <2>8, <2>9, <2>10
<1>5. ASSUME \/ RereadTenantArming(h) \/ RereadExecutionControl(h)
             \/ RereadPackage(h) \/ RereadMedia(h) \/ RereadAgent(h)
      PROVE  IInv'
  BY <1>5, LookKeeps
     DEF RereadTenantArming, RereadExecutionControl, RereadPackage, RereadMedia, RereadAgent,
         AfterReach, BeforeCall
<1>6. ASSUME Dispatch(h) PROVE IInv'
  <2>1. /\ r \in Request /\ executor[h].at = "cleared" /\ attempt[r] = "pending"
        /\ wire' = [wire EXCEPT ![r] = "sent"]
        /\ UNCHANGED <<request, permit, attempt>>
        /\ executor'[h].at = "sent" /\ executor'[h].req = r
        /\ \A g \in Executor \ {h} : executor'[g] = executor[g]
    BY <1>6, BusyHasRequest, ExecutorMoves
       DEF Dispatch, At, rows, attempts, Executing, SendsOwnAttempt, Sending, BeforeCall
  <2>2. wire'[r] = "sent" /\ \A q \in Request \ {r} : wire'[q] = wire[q]
    BY <2>1 DEF TypeOK
  <2>3. \A g \in Executor \ {h} : executor[g].at \in Sending =>
           executor[g].req # r /\ executor[g].req \in Request
    BY <2>1, BusyHasRequest DEF SendsOwnAttempt, Sending, BeforeCall
  <2>4. ExecutorShape' /\ SpendsHoldPermit'
    BY <2>1 DEF ExecutorShape, SpendsHoldPermit, Executing, BeforeCall
  <2>5. SendsOwnAttempt'
    BY <2>1, <2>2, <2>3 DEF SendsOwnAttempt, Sending, BeforeCall
  <2>6. (PermitOfApproval /\ SpendIsRecorded /\ HonestOutcome)'
    BY <2>1, <2>2 DEF PermitOfApproval, SpendIsRecorded, HonestOutcome
  <2>7. QED
    BY <2>4, <2>5, <2>6
<1>7. ASSUME RefuseDispatch(h) PROVE IInv'
  <2>1. executor[h].at \in BeforeCall /\ CompleteAttempt(h, "refused")
    BY <1>7 DEF RefuseDispatch, MayBeUnequipped, At, BeforeCall
  <2>2. wire[r] = "quiet"
    BY <2>1 DEF SendsOwnAttempt, Sending
  <2>3. QED
    BY <2>1, <2>2, CompletionKeeps DEF Terminal, Sending
<1>8. ASSUME RecordAnswer(h) PROVE IInv'
  <2>1. executor[h].at \in Sending
    BY <1>8 DEF RecordAnswer, At, Sending
  <2>2. PICK s \in {"accepted", "failed", "unknown"} :
           /\ CompleteAttempt(h, s)
           /\ s = "accepted" => wire[r] = "performed"
           /\ s = "failed" => wire[r] = "dropped"
    BY <1>8 DEF RecordAnswer
  <2>3. QED
    BY <2>1, <2>2, CompletionKeeps DEF Terminal
<1>9. ASSUME Refuse(h) PROVE IInv'
  <2>1. Finish(h) /\ UNCHANGED <<request, permit, attempt, wire>>
    BY <1>9 DEF Refuse, rows, attempts
  <2>2. executor'[h].at = "idle" /\ \A g \in Executor \ {h} : executor'[g] = executor[g]
    BY <2>1, ExecutorMoves
  <2>3. ExecutorShape' /\ SpendsHoldPermit' /\ SendsOwnAttempt'
    BY <2>1, <2>2, ReleaseKeeps
  <2>4. QED
    BY <2>1, <2>3 DEF PermitOfApproval, SpendIsRecorded, HonestOutcome
<1>10. QED
  BY <1>1, <1>2, <1>3, <1>4, <1>5, <1>6, <1>7, <1>8, <1>9 DEF Step

LEMMA EnvironmentKeepsIInv == ASSUME IInv, TypeOK', Environment PROVE IInv'
<1> USE DEF IInv
<1>1. UNCHANGED executor
  BY DEF Environment, ProposeSend, ApproveActionRequest, RejectActionRequest, RevokeActionPermit,
         Expire, WithdrawTarget, RestorePackage, ProviderActs, PlaceStop, LiftStop,
         SuspendAgent, ReactivateAgent
<1>2. \A h \in Executor : executor[h].at # "idle" => executor[h].req \in Request
  BY BusyHasRequest
<1>3. ASSUME NEW r \in Request, ProposeSend(r) \/ RejectActionRequest(r) PROVE IInv'
  <2>1. /\ UNCHANGED <<permit, attempt, wire>>
        /\ request[r] \in {"absent", "pending"} /\ request'[r] \in {"pending", "rejected"}
        /\ \A q \in Request \ {r} : request'[q] = request[q]
    BY <1>3 DEF ProposeSend, RejectActionRequest, attempts, TypeOK
  <2>2. PermitOfApproval'
    BY <2>1 DEF PermitOfApproval
  <2>3. QED
    BY <1>1, <2>1, <2>2
       DEF ExecutorShape, SpendsHoldPermit, SendsOwnAttempt, SpendIsRecorded, HonestOutcome
<1>4. ASSUME NEW r \in Request, ApproveActionRequest(r) PROVE IInv'
  <2>1. /\ UNCHANGED <<attempt, wire>> /\ request[r] = "pending" /\ permit[r] = "none"
        /\ request'[r] = "approved" /\ permit'[r] = "active"
        /\ \A q \in Request \ {r} : request'[q] = request[q] /\ permit'[q] = permit[q]
    BY <1>4 DEF ApproveActionRequest, attempts, TypeOK, PermitOfApproval
  <2>2. (PermitOfApproval /\ SpendIsRecorded /\ HonestOutcome)'
    BY <2>1 DEF PermitOfApproval, SpendIsRecorded, HonestOutcome
  <2>3. ExecutorShape' /\ SpendsHoldPermit'
    BY <1>1, <1>2, <2>1 DEF ExecutorShape, SpendsHoldPermit, Executing, Unspent, BeforeCall
  <2>4. QED
    BY <1>1, <2>1, <2>2, <2>3 DEF SendsOwnAttempt
<1>5. ASSUME NEW r \in Request, RevokeActionPermit(r) PROVE IInv'
  <2>1. /\ UNCHANGED <<request, attempt, wire>> /\ permit[r] = "active" /\ permit'[r] = "revoked"
        /\ \A q \in Request \ {r} : permit'[q] = permit[q]
        /\ ~PermitLocked(r)
    BY <1>5 DEF RevokeActionPermit, attempts, TypeOK
  <2>2. (PermitOfApproval /\ SpendIsRecorded /\ HonestOutcome)'
    BY <2>1 DEF PermitOfApproval, SpendIsRecorded, HonestOutcome
  <2>3. ExecutorShape' /\ SpendsHoldPermit'
    BY <1>1, <1>2, <2>1
       DEF ExecutorShape, SpendsHoldPermit, PermitLocked, Executing, Unspent, BeforeCall
  <2>4. QED
    BY <1>1, <2>1, <2>2, <2>3 DEF SendsOwnAttempt
<1>6. ASSUME NEW r \in Request, ProviderActs(r) PROVE IInv'
  <2>1. /\ UNCHANGED <<request, permit, attempt>> /\ wire[r] = "sent"
        /\ wire'[r] \in {"performed", "dropped"}
        /\ \A q \in Request \ {r} : wire'[q] = wire[q]
    BY <1>6 DEF ProviderActs, rows, attempts, TypeOK
  <2>2. (PermitOfApproval /\ SpendIsRecorded /\ HonestOutcome)'
    BY <2>1 DEF PermitOfApproval, SpendIsRecorded, HonestOutcome
  <2>3. SendsOwnAttempt'
    BY <1>1, <1>2, <2>1 DEF SendsOwnAttempt, Sending, BeforeCall
  <2>4. QED
    BY <1>1, <2>1, <2>2, <2>3 DEF ExecutorShape, SpendsHoldPermit
<1>7. ASSUME UNCHANGED <<request, permit, attempt, wire>> PROVE IInv'
  BY <1>1, <1>7
     DEF ExecutorShape, PermitOfApproval, SpendsHoldPermit, SendsOwnAttempt, SpendIsRecorded,
         HonestOutcome
<1>8. QED
  BY <1>3, <1>4, <1>5, <1>6, <1>7
     DEF Environment, Expire, WithdrawTarget, RestorePackage, PlaceStop, LiftStop, SuspendAgent,
         ReactivateAgent,
         rows, attempts

LEMMA InductiveStep == IInv /\ [Next]_vars => IInv'
<1> SUFFICES ASSUME IInv, [Next]_vars PROVE IInv'
  OBVIOUS
<1>1. TypeOK'
  BY TypeStep DEF IInv
<1>2. ASSUME NEW h \in Executor, Crash(h) PROVE IInv'
  <2>1. Finish(h) /\ UNCHANGED <<request, permit, attempt, wire>>
    BY <1>2 DEF Crash, rows, attempts
  <2>2. executor'[h].at = "idle" /\ \A g \in Executor \ {h} : executor'[g] = executor[g]
    BY <2>1, ExecutorMoves DEF IInv
  <2>3. ExecutorShape' /\ SpendsHoldPermit' /\ SendsOwnAttempt'
    BY <2>1, <2>2, ReleaseKeeps
  <2>4. QED
    BY <1>1, <2>1, <2>3 DEF IInv, PermitOfApproval, SpendIsRecorded, HonestOutcome
<1>3. ASSUME UNCHANGED vars PROVE IInv'
  BY <1>1, <1>3
     DEF vars, IInv, ExecutorShape, PermitOfApproval, SpendsHoldPermit, SendsOwnAttempt,
         SpendIsRecorded, HonestOutcome
<1>4. QED
  BY <1>1, <1>2, <1>3, StartKeepsIInv, StepKeepsIInv, EnvironmentKeepsIInv DEF Next

\* The strengthening the safety theorems below rest on.
THEOREM Inductive == Spec => []IInv
BY InductiveInit, InductiveStep, PTL DEF Spec

\* A permit is spent exactly when an attempt records it, across every crash.
THEOREM EverySpendRecorded == Spec => []SpendIsRecorded
<1>1. IInv => SpendIsRecorded
  BY DEF IInv
<1>2. QED
  BY <1>1, Inductive, PTL

\* The ledger never claims more or less than the provider did.
THEOREM LedgerIsHonest == Spec => []HonestOutcome
<1>1. IInv => HonestOutcome
  BY DEF IInv
<1>2. QED
  BY <1>1, Inductive, PTL

(***************************************************************************)
(* What the guard knows                                                    *)
(***************************************************************************)

\* Two guards that have passed are of different revisions.
GuardHoldsRevision ==
    \A g, h \in Executor :
        /\ executor[g].at = "guarded"
        /\ executor[h].at = "guarded"
        /\ IsPublication(executor[h].req)
        /\ Revision[executor[g].req] = Revision[executor[h].req]
        => g = h

\* What the guard read stays so until the spend it cleared commits.
GuardStaysClear ==
    \A h \in Executor : executor[h].at = "guarded" =>
        \A q \in Request \ {executor[h].req} : SameIdentity(q, executor[h].req) =>
            /\ attempt[q] # "pending"
            /\ attempt[q] \in Consequent =>
                 /\ ack[executor[h].req] \in Request
                 /\ SameIdentity(ack[executor[h].req], executor[h].req)
                 /\ attempt[ack[executor[h].req]] \in Consequent
                 /\ startedAt[q] <= startedAt[ack[executor[h].req]]

\* An acknowledged attempt was there when the request was filed, so it
\* started before any execution of that request.
AckIsEarlier ==
    /\ \A r \in Request : ack[r] \in Request => attempt[ack[r]] # "none"
    /\ \A h \in Executor :
         /\ executor[h].at = "filing" /\ executor[h].ack \in Request
              => attempt[executor[h].ack] # "none"
         /\ executor[h].at \in Executing =>
              /\ executor[h].now < clock
              /\ ack[executor[h].req] \in Request
                   => startedAt[ack[executor[h].req]] < executor[h].now
    /\ \A r \in Request : attempt[r] # "none" => startedAt[r] < clock

\* The ledger lists every attempt once.
LedgerShape ==
    /\ \A i \in DOMAIN ledger : attempt[ledger[i]] # "none"
    /\ \A i, j \in DOMAIN ledger : i # j => ledger[i] # ledger[j]
    /\ \A r \in Request : attempt[r] # "none" => \E i \in DOMAIN ledger : ledger[i] = r

\* Only the last attempt of an identity is open, consequential attempts of an
\* identity start in the order of their commits, and each acknowledges one
\* no earlier than any before it.
LedgerOrder ==
    \A i, j \in DOMAIN ledger : i < j /\ SameIdentity(ledger[i], ledger[j]) =>
        /\ attempt[ledger[i]] # "pending"
        /\ attempt[ledger[i]] \in Consequent =>
             /\ attempt[ledger[j]] \in Consequent \cup {"pending"}
                  => startedAt[ledger[i]] < startedAt[ledger[j]]
             /\ \E k \in i .. j - 1 :
                  ledger[k] = ack[ledger[j]] /\ SameIdentity(ledger[k], ledger[j])

LedgerInv ==
    /\ GuardHoldsRevision
    /\ GuardStaysClear
    /\ AckIsEarlier
    /\ LedgerShape
    /\ LedgerOrder

\* An attempt belongs to an approved request.
LEMMA AttemptIsFiled ==
    ASSUME IInv, NEW r \in Request, attempt[r] # "none"
    PROVE  request[r] # "absent" /\ permit[r] = "consumed"
BY DEF IInv, SpendIsRecorded, PermitOfApproval

LEMMA LedgerTyping ==
    ASSUME IInv
    PROVE  /\ DOMAIN ledger = 1 .. Len(ledger) /\ Len(ledger) \in Nat
           /\ \A i \in DOMAIN ledger : ledger[i] \in Request
           /\ startedAt \in [Request -> Nat] /\ clock \in Nat
           /\ \A h \in Executor : executor[h].at # "idle" =>
                 executor[h].req \in Request /\ executor[h].now \in Nat
<1>1. \A h \in Executor : executor[h] \in ExecutorState
  BY DEF IInv, TypeOK
<1>2. \A h \in Executor : executor[h].at # "idle" =>
        executor[h].req \in Request /\ executor[h].now \in Nat
  BY <1>1 DEF ExecutorState, Idle
<1>3. QED
  BY <1>2 DEF IInv, TypeOK

LEMMA LedgerInit == Init => LedgerInv
<1> SUFFICES ASSUME Init PROVE LedgerInv
  OBVIOUS
<1>1. \A h \in Executor : executor[h].at = "idle"
  BY DEF Init, Idle
<1>2. GuardHoldsRevision /\ GuardStaysClear /\ LedgerShape /\ LedgerOrder
  BY <1>1 DEF Init, GuardHoldsRevision, GuardStaysClear, LedgerShape, LedgerOrder
<1>3. AckIsEarlier
  BY <1>1, ExecutionAssumption DEF Init, AckIsEarlier, Executing, Unspent, BeforeCall
<1>4. QED
  BY <1>2, <1>3 DEF LedgerInv

\* A step that leaves the attempts, and the acknowledgement of every filed
\* request, and passes no guard.
LEMMA LedgerStays ==
    ASSUME IInv, LedgerInv, UNCHANGED attempts,
           \A r \in Request : request[r] # "absent" => ack'[r] = ack[r],
           \A h \in Executor : executor'[h].at = "guarded" =>
               executor[h].at = "guarded" /\ executor'[h].req = executor[h].req
    PROVE  GuardHoldsRevision' /\ GuardStaysClear' /\ LedgerShape' /\ LedgerOrder'
<1>1. UNCHANGED <<attempt, startedAt, ledger>>
  BY DEF attempts
<1>2. GuardHoldsRevision'
  BY DEF LedgerInv, GuardHoldsRevision
<1>3. GuardStaysClear'
  <2>1. \A h \in Executor : executor'[h].at = "guarded" =>
          /\ executor[h].at = "guarded" /\ executor'[h].req = executor[h].req
          /\ ack'[executor[h].req] = ack[executor[h].req]
    <3> SUFFICES ASSUME NEW h \in Executor, executor'[h].at = "guarded"
                 PROVE  ack'[executor[h].req] = ack[executor[h].req]
      OBVIOUS
    <3>1. executor[h].req \in Request /\ permit[executor[h].req] = "active"
      BY BusyHasRequest DEF IInv, SpendsHoldPermit
    <3>2. request[executor[h].req] = "approved"
      BY <3>1 DEF IInv, PermitOfApproval
    <3>3. QED
      BY <3>1, <3>2
  <2>2. QED
    BY <1>1, <2>1 DEF LedgerInv, GuardStaysClear, SameIdentity
<1>4. LedgerShape'
  BY <1>1 DEF LedgerInv, LedgerShape
<1>5. LedgerOrder'
  <2>1. \A j \in DOMAIN ledger : ack'[ledger[j]] = ack[ledger[j]]
    BY AttemptIsFiled, LedgerTyping DEF LedgerInv, LedgerShape
  <2>2. \A i, j \in DOMAIN ledger : SameIdentity(ledger[i], ledger[j])' <=> SameIdentity(ledger[i], ledger[j])
    BY <1>1 DEF SameIdentity
  <2> SUFFICES ASSUME NEW i \in DOMAIN ledger, NEW j \in DOMAIN ledger,
                      i < j, SameIdentity(ledger[i], ledger[j])
               PROVE  /\ attempt[ledger[i]] # "pending"
                      /\ attempt[ledger[i]] \in Consequent =>
                           /\ attempt[ledger[j]] \in Consequent \cup {"pending"}
                                => startedAt[ledger[i]] < startedAt[ledger[j]]
                           /\ \E k \in i .. j - 1 :
                                 ledger[k] = ack'[ledger[j]] /\ SameIdentity(ledger[k], ledger[j])
    BY <1>1, <2>2 DEF LedgerOrder, SameIdentity
  <2>3. QED
    BY <2>1 DEF LedgerInv, LedgerOrder
<1>6. QED
  BY <1>2, <1>3, <1>4, <1>5

\* The acknowledgements and the clock, in a step that leaves the attempts.
LEMMA AckStays ==
    ASSUME IInv, LedgerInv, UNCHANGED <<attempts, clock, ack>>,
           \A h \in Executor :
               \/ executor'[h].at = "idle"
               \/ /\ executor'[h].req = executor[h].req
                  /\ executor'[h].ack = executor[h].ack
                  /\ executor'[h].now = executor[h].now
                  /\ executor'[h].at = "filing" => executor[h].at = "filing"
                  /\ executor'[h].at \in Executing => executor[h].at \in Executing
    PROVE  AckIsEarlier'
BY DEF LedgerInv, AckIsEarlier, attempts, Executing, Unspent, BeforeCall

LEMMA StartKeepsLedger ==
    ASSUME IInv, LedgerInv, NEW h \in Executor, Start(h) PROVE LedgerInv'
<1>1. ASSUME NEW r \in Request, NEW a \in Request \cup {NoOne},
             CheckPriorPublicationAtProposal(h, r, a)
      PROVE  LedgerInv'
  <2>1. /\ Begin(h, "filing", r, a) /\ LatestConsequential(r, a)
        /\ UNCHANGED <<attempts, ack, clock>>
    BY <1>1 DEF CheckPriorPublicationAtProposal, ClearToPropose, rows
  <2>2. /\ executor[h].at = "idle" /\ executor'[h].at = "filing" /\ executor'[h].ack = a
        /\ \A g \in Executor \ {h} : executor'[g] = executor[g]
    BY <2>1, ExecutorMoves DEF IInv
  <2>3. GuardHoldsRevision' /\ GuardStaysClear' /\ LedgerShape' /\ LedgerOrder'
    BY <2>1, <2>2, LedgerStays
  <2>4. a \in Request => attempt[a] # "none"
    BY <2>1, ExecutionAssumption DEF LatestConsequential, Consequential
  <2>5. AckIsEarlier'
    BY <2>1, <2>2, <2>4
       DEF LedgerInv, AckIsEarlier, attempts, Executing, Unspent, BeforeCall
  <2>6. QED
    BY <2>3, <2>5 DEF LedgerInv
<1>2. ASSUME NEW r \in Request, ExecuteAuthorizedAction(h, r) PROVE LedgerInv'
  <2>1. /\ Begin(h, "begun", r, NoOne) /\ clock' = clock + 1 /\ clock \in Nat
        /\ UNCHANGED <<attempts, ack>>
    BY <1>2 DEF ExecuteAuthorizedAction, rows, IInv, TypeOK
  <2>2. /\ executor[h].at = "idle" /\ executor'[h].at = "begun"
        /\ executor'[h].req = r /\ executor'[h].now = clock
        /\ \A g \in Executor \ {h} : executor'[g] = executor[g]
    BY <2>1, ExecutorMoves DEF IInv
  <2>3. GuardHoldsRevision' /\ GuardStaysClear' /\ LedgerShape' /\ LedgerOrder'
    BY <2>1, <2>2, LedgerStays
  <2>4. AckIsEarlier'
    <3>1. \A q \in Request : startedAt[q] \in Nat
      BY DEF IInv, TypeOK
    <3>2. \A g \in Executor \ {h} : executor[g].at \in Executing => executor[g].now \in Nat
      BY LedgerTyping DEF Executing, Unspent, BeforeCall
    <3>3. \A q \in Request : attempt'[q] # "none" => startedAt'[q] < clock'
      BY <2>1, <3>1 DEF LedgerInv, AckIsEarlier, attempts
    <3>4. \A g \in Executor :
            executor'[g].at = "filing" /\ executor'[g].ack \in Request
              => attempt'[executor'[g].ack] # "none"
      BY <2>1, <2>2 DEF LedgerInv, AckIsEarlier, attempts
    <3>5. \A g \in Executor \ {h} :
            executor'[g].at \in Executing =>
              /\ executor'[g].now < clock'
              /\ ack'[executor'[g].req] \in Request
                   => startedAt'[ack'[executor'[g].req]] < executor'[g].now
      BY <2>1, <2>2, <3>2 DEF LedgerInv, AckIsEarlier, attempts
    <3>6. /\ executor'[h].now < clock'
          /\ ack'[r] \in Request => startedAt'[ack'[r]] < executor'[h].now
      BY <2>1, <2>2 DEF LedgerInv, AckIsEarlier, attempts
    <3>7. \A q \in Request : ack'[q] \in Request => attempt'[ack'[q]] # "none"
      BY <2>1 DEF LedgerInv, AckIsEarlier, attempts
    <3>8. QED
      BY <2>2, <3>3, <3>4, <3>5, <3>6, <3>7 DEF AckIsEarlier
  <2>5. QED
    BY <2>3, <2>4 DEF LedgerInv
<1>3. QED
  BY <1>1, <1>2 DEF Start

\* An open attempt gets its outcome.
LEMMA CompletionKeepsLedger ==
    ASSUME IInv, LedgerInv, NEW h \in Executor, executor[h].at \in Sending,
           NEW s \in Terminal, CompleteAttempt(h, s)
    PROVE  LedgerInv'
<1> DEFINE r == executor[h].req
<1>1. /\ r \in Request /\ attempt[r] = "pending" /\ attempt'[r] = s
      /\ \A q \in Request \ {r} : attempt'[q] = attempt[q]
      /\ UNCHANGED <<ack, startedAt, clock, ledger>>
  BY BusyHasRequest DEF IInv, TypeOK, CompleteAttempt, Sending, BeforeCall, rows
<1>2. executor'[h].at = "idle" /\ \A g \in Executor \ {h} : executor'[g] = executor[g]
  BY ExecutorMoves DEF IInv, CompleteAttempt
<1>3. s \notin {"none", "pending"}
  BY DEF Terminal
<1> HIDE DEF r
<1>4. GuardHoldsRevision'
  BY <1>2 DEF LedgerInv, GuardHoldsRevision
<1>5. GuardStaysClear'
  <2> SUFFICES ASSUME NEW g \in Executor, executor'[g].at = "guarded",
                      NEW q \in Request \ {executor'[g].req}, SameIdentity(q, executor'[g].req)
               PROVE  /\ attempt'[q] # "pending"
                      /\ attempt'[q] \in Consequent =>
                           /\ ack'[executor'[g].req] \in Request
                           /\ SameIdentity(ack'[executor'[g].req], executor'[g].req)
                           /\ attempt'[ack'[executor'[g].req]] \in Consequent
                           /\ startedAt'[q] <= startedAt'[ack'[executor'[g].req]]
    BY DEF GuardStaysClear, SameIdentity
  <2>1. executor'[g] = executor[g]
    BY <1>2
  <2>2. /\ attempt[q] # "pending"
        /\ attempt[q] \in Consequent =>
             /\ ack[executor[g].req] \in Request
             /\ SameIdentity(ack[executor[g].req], executor[g].req)
             /\ attempt[ack[executor[g].req]] \in Consequent
             /\ startedAt[q] <= startedAt[ack[executor[g].req]]
    BY <2>1 DEF LedgerInv, GuardStaysClear
  <2>3. q # r /\ (attempt[ack[executor[g].req]] \in Consequent => ack[executor[g].req] # r)
    BY <1>1, <2>2 DEF Consequent
  <2>4. QED
    BY <1>1, <2>1, <2>2, <2>3
<1>6. \A q \in Request : attempt'[q] = "none" <=> attempt[q] = "none"
  BY <1>1, <1>3
<1>7. AckIsEarlier'
  BY <1>1, <1>2, <1>6 DEF LedgerInv, AckIsEarlier, Executing, Unspent, BeforeCall
<1>8. LedgerShape'
  BY <1>1, <1>6, LedgerTyping DEF LedgerInv, LedgerShape
<1>9. LedgerOrder'
  <2> SUFFICES ASSUME NEW i \in DOMAIN ledger, NEW j \in DOMAIN ledger,
                      i < j, SameIdentity(ledger[i], ledger[j])
               PROVE  /\ attempt'[ledger[i]] # "pending"
                      /\ attempt'[ledger[i]] \in Consequent =>
                           /\ attempt'[ledger[j]] \in Consequent \cup {"pending"}
                                => startedAt[ledger[i]] < startedAt[ledger[j]]
                           /\ \E k \in i .. j - 1 :
                                 ledger[k] = ack[ledger[j]] /\ SameIdentity(ledger[k], ledger[j])
    BY <1>1 DEF LedgerOrder, SameIdentity
  <2>1. /\ attempt[ledger[i]] # "pending"
        /\ attempt[ledger[i]] \in Consequent =>
             /\ attempt[ledger[j]] \in Consequent \cup {"pending"}
                  => startedAt[ledger[i]] < startedAt[ledger[j]]
             /\ \E k \in i .. j - 1 :
                   ledger[k] = ack[ledger[j]] /\ SameIdentity(ledger[k], ledger[j])
    BY DEF LedgerInv, LedgerOrder
  <2>2. ledger[i] \in Request /\ ledger[j] \in Request
    BY LedgerTyping
  <2>3. attempt'[ledger[i]] = attempt[ledger[i]]
    BY <1>1, <2>1, <2>2
  <2>4. attempt'[ledger[j]] \in Consequent \cup {"pending"} =>
          attempt[ledger[j]] \in Consequent \cup {"pending"}
    BY <1>1, <2>2
  <2>5. QED
    BY <2>1, <2>3, <2>4
<1>10. QED
  BY <1>4, <1>5, <1>7, <1>8, <1>9 DEF LedgerInv

LEMMA GuardKeepsLedger ==
    ASSUME IInv, LedgerInv, NEW h \in Executor, GuardPublication(h) PROVE LedgerInv'
<1> DEFINE r == executor[h].req
<1>1. /\ executor[h].at = "spending" /\ r \in Request
      /\ ~RevisionLocked(r) /\ ClearToExecute(r)
      /\ UNCHANGED <<attempt, startedAt, ledger, ack, clock>>
  BY BusyHasRequest DEF IInv, GuardPublication, At, rows, attempts
<1>2. /\ executor'[h].at = "guarded" /\ executor'[h].req = r
      /\ executor'[h].ack = executor[h].ack /\ executor'[h].now = executor[h].now
      /\ \A g \in Executor \ {h} : executor'[g] = executor[g]
  BY <1>1, ExecutorMoves DEF IInv, GuardPublication, Executing, Unspent
<1> HIDE DEF r
<1>3. GuardHoldsRevision'
  BY <1>1, <1>2 DEF LedgerInv, GuardHoldsRevision, RevisionLocked, At, IsPublication
<1>4. GuardStaysClear'
  <2>1. ASSUME NEW q \in Request \ {r}, SameIdentity(q, r)
        PROVE  /\ attempt[q] # "pending"
               /\ attempt[q] \in Consequent =>
                    /\ ack[r] \in Request
                    /\ SameIdentity(ack[r], r)
                    /\ attempt[ack[r]] \in Consequent
                    /\ startedAt[q] <= startedAt[ack[r]]
    <3>1. ~InFlightAtExecution(q) /\ LatestConsequential(r, ack[r])
      BY <1>1, <2>1 DEF ClearToExecute, SameIdentity
    <3>2. attempt[q] \in Consequent => q \in Consequential(r)
      BY <2>1 DEF Consequential, Consequent
    <3>3. QED
      BY <3>1, <3>2 DEF InFlightAtExecution, LatestConsequential, Consequential, Consequent
  <2>2. \A g \in Executor : executor'[g].at = "guarded" =>
          executor'[g].req = executor[g].req /\ (g = h \/ executor[g].at = "guarded")
    BY <1>2 DEF r
  <2>3. QED
    BY <1>1, <1>2, <2>1, <2>2 DEF LedgerInv, GuardStaysClear, SameIdentity, IsPublication
<1>5. AckIsEarlier'
  BY <1>1, <1>2 DEF LedgerInv, AckIsEarlier, r, Executing, Unspent, BeforeCall
<1>6. LedgerShape' /\ LedgerOrder'
  BY <1>1 DEF LedgerInv, LedgerShape, LedgerOrder, SameIdentity
<1>7. QED
  BY <1>3, <1>4, <1>5, <1>6 DEF LedgerInv

LEMMA CommitKeepsLedger ==
    ASSUME IInv, LedgerInv, NEW h \in Executor, CommitSpend(h) PROVE LedgerInv'
<1> DEFINE r == executor[h].req
           n == Len(ledger)
<1>1. /\ executor[h].at = "guarded" /\ r \in Request /\ executor[h].now \in Nat
      /\ attempt'[r] \in {"refused", "pending"}
      /\ \A q \in Request \ {r} : attempt'[q] = attempt[q] /\ startedAt'[q] = startedAt[q]
      /\ startedAt'[r] = executor[h].now
      /\ ledger' = Append(ledger, r)
      /\ UNCHANGED <<ack, clock>>
  BY LedgerTyping DEF IInv, TypeOK, CommitSpend, At
<1>2. attempt[r] = "none"
  BY <1>1 DEF IInv, SpendsHoldPermit, SpendIsRecorded
<1>3. /\ executor'[h].at \in {"idle", "committed"}
      /\ executor'[h].at = "committed" =>
            executor'[h].req = r /\ executor'[h].now = executor[h].now
      /\ \A g \in Executor \ {h} : executor'[g] = executor[g]
  <2>1. Finish(h) \/ Advance(h, "committed")
    BY DEF CommitSpend
  <2>2. "committed" \in Executing
    BY DEF Executing, BeforeCall
  <2>3. QED
    BY <1>1, <2>1, <2>2, ExecutorMoves DEF IInv
<1>4. /\ n \in Nat /\ DOMAIN ledger = 1 .. n /\ DOMAIN ledger' = 1 .. n + 1
      /\ \A i \in 1 .. n : ledger'[i] = ledger[i] /\ ledger[i] \in Request /\ ledger[i] # r
      /\ ledger'[n + 1] = r
  <2>1. ledger \in Seq(Request)
    BY DEF IInv, TypeOK
  <2>2. \A i \in DOMAIN ledger : ledger[i] # r
    BY <1>2 DEF LedgerInv, LedgerShape
  <2>3. QED
    BY <1>1, <2>1, <2>2
<1> HIDE DEF r, n
<1>5. GuardHoldsRevision'
  BY <1>3 DEF LedgerInv, GuardHoldsRevision
<1>6. GuardStaysClear'
  <2> SUFFICES ASSUME NEW g \in Executor, executor'[g].at = "guarded",
                      NEW q \in Request \ {executor'[g].req}, SameIdentity(q, executor'[g].req)
               PROVE  /\ attempt'[q] # "pending"
                      /\ attempt'[q] \in Consequent =>
                           /\ ack'[executor'[g].req] \in Request
                           /\ SameIdentity(ack'[executor'[g].req], executor'[g].req)
                           /\ attempt'[ack'[executor'[g].req]] \in Consequent
                           /\ startedAt'[q] <= startedAt'[ack'[executor'[g].req]]
    BY DEF GuardStaysClear, SameIdentity
  <2>1. g # h /\ executor'[g] = executor[g]
    BY <1>3
  <2>2. q # r
    BY <1>1, <2>1 DEF LedgerInv, GuardHoldsRevision, SameIdentity, r, IsPublication
  <2>3. /\ attempt[q] # "pending"
        /\ attempt[q] \in Consequent =>
             /\ ack[executor[g].req] \in Request
             /\ SameIdentity(ack[executor[g].req], executor[g].req)
             /\ attempt[ack[executor[g].req]] \in Consequent
             /\ startedAt[q] <= startedAt[ack[executor[g].req]]
    BY <2>1 DEF LedgerInv, GuardStaysClear
  <2>4. attempt[ack[executor[g].req]] \in Consequent => ack[executor[g].req] # r
    BY <1>2 DEF Consequent
  <2>5. QED
    BY <1>1, <2>1, <2>2, <2>3, <2>4
<1>7. AckIsEarlier'
  <2>1. \A q \in Request : ack[q] \in Request => ack[q] # r /\ attempt[ack[q]] # "none"
    BY <1>2 DEF LedgerInv, AckIsEarlier
  <2>2. \A q \in Request : ack'[q] \in Request => attempt'[ack'[q]] # "none"
    BY <1>1, <2>1
  <2>3. \A g \in Executor : executor'[g].at = "filing" /\ executor'[g].ack \in Request
          => attempt'[executor'[g].ack] # "none"
    BY <1>1, <1>3 DEF LedgerInv, AckIsEarlier
  <2>4. ASSUME NEW g \in Executor, executor'[g].at \in Executing
        PROVE  /\ executor'[g].now < clock
               /\ ack[executor'[g].req] \in Request
                    => startedAt'[ack[executor'[g].req]] < executor'[g].now
    <3>1. /\ executor[g].at \in Executing /\ executor'[g].req = executor[g].req
          /\ executor'[g].now = executor[g].now
      BY <1>1, <1>3, <2>4 DEF r, Executing, Unspent, BeforeCall
    <3>2. executor[g].req \in Request
      BY <3>1, LedgerTyping DEF Executing, Unspent, BeforeCall
    <3>3. QED
      BY <1>1, <2>1, <3>1, <3>2 DEF LedgerInv, AckIsEarlier
  <2>5. executor[h].now < clock
    BY <1>1 DEF LedgerInv, AckIsEarlier, Executing, Unspent
  <2>6. \A q \in Request : attempt'[q] # "none" => startedAt'[q] < clock
    BY <1>1, <2>5 DEF LedgerInv, AckIsEarlier
  <2>7. QED
    BY <1>1, <2>2, <2>3, <2>4, <2>6 DEF AckIsEarlier
<1>8. LedgerShape'
  <2>1. \A i \in 1 .. n : attempt[ledger[i]] # "none"
    BY <1>4 DEF LedgerInv, LedgerShape
  <2>2. \A i \in DOMAIN ledger' : attempt'[ledger'[i]] # "none"
    BY <1>1, <1>4, <2>1
  <2>3. \A i, j \in DOMAIN ledger' : i # j => ledger'[i] # ledger'[j]
    <3>1. \A i, j \in 1 .. n : i # j => ledger[i] # ledger[j]
      BY <1>4 DEF LedgerInv, LedgerShape
    <3>2. QED
      BY <1>4, <3>1
  <2>4. ASSUME NEW q \in Request, attempt'[q] # "none"
        PROVE  \E i \in DOMAIN ledger' : ledger'[i] = q
    <3>1. CASE q = r
      BY <1>4, <3>1
    <3>2. CASE q # r
      <4>1. PICK i \in 1 .. n : ledger[i] = q
        BY <1>1, <1>4, <2>4, <3>2 DEF LedgerInv, LedgerShape
      <4>2. QED
        BY <1>4, <4>1
    <3>3. QED
      BY <3>1, <3>2
  <2>5. QED
    BY <2>2, <2>3, <2>4 DEF LedgerShape
<1>9. LedgerOrder'
  <2> SUFFICES ASSUME NEW i \in 1 .. n + 1, NEW j \in 1 .. n + 1,
                      i < j, SameIdentity(ledger'[i], ledger'[j])
               PROVE  /\ attempt'[ledger'[i]] # "pending"
                      /\ attempt'[ledger'[i]] \in Consequent =>
                           /\ attempt'[ledger'[j]] \in Consequent \cup {"pending"}
                                => startedAt'[ledger'[i]] < startedAt'[ledger'[j]]
                           /\ \E k \in i .. j - 1 :
                                 ledger'[k] = ack'[ledger'[j]] /\ SameIdentity(ledger'[k], ledger'[j])
    BY <1>4 DEF LedgerOrder, SameIdentity
  <2>1. i \in 1 .. n /\ ledger'[i] = ledger[i] /\ ledger[i] \in Request /\ ledger[i] # r
    BY <1>4
  <2>2. /\ attempt'[ledger'[i]] = attempt[ledger[i]]
        /\ startedAt'[ledger'[i]] = startedAt[ledger[i]]
    BY <1>1, <2>1
  <2>3. CASE j \in 1 .. n
    <3>1. ledger'[j] = ledger[j] /\ ledger[j] \in Request /\ ledger[j] # r
      BY <1>4, <2>3
    <3>2. /\ attempt'[ledger'[j]] = attempt[ledger[j]]
          /\ startedAt'[ledger'[j]] = startedAt[ledger[j]]
      BY <1>1, <3>1
    <3>3. /\ attempt[ledger[i]] # "pending"
          /\ attempt[ledger[i]] \in Consequent =>
               /\ attempt[ledger[j]] \in Consequent \cup {"pending"}
                    => startedAt[ledger[i]] < startedAt[ledger[j]]
               /\ \E k \in i .. j - 1 :
                     ledger[k] = ack[ledger[j]] /\ SameIdentity(ledger[k], ledger[j])
      BY <1>4, <2>1, <2>3, <3>1 DEF LedgerInv, LedgerOrder
    <3>4. \A k \in i .. j - 1 : ledger'[k] = ledger[k]
      BY <1>4, <2>3
    <3>5. QED
      BY <1>1, <2>1, <2>2, <3>1, <3>2, <3>3, <3>4
  <2>4. CASE j = n + 1
    <3> DEFINE q == ledger[i]
               a == ack[r]
    <3>1. ledger'[j] = r /\ SameIdentity(q, r) /\ q \in Request \ {r}
      BY <1>4, <2>1, <2>4
    <3>2. /\ attempt[q] # "pending"
          /\ attempt[q] \in Consequent =>
               /\ a \in Request /\ SameIdentity(a, r) /\ attempt[a] \in Consequent
               /\ startedAt[q] <= startedAt[a]
      BY <1>1, <3>1 DEF LedgerInv, GuardStaysClear, r
    <3>3. ASSUME attempt[q] \in Consequent
          PROVE  /\ startedAt[q] < startedAt'[r]
                 /\ \E k \in i .. n : ledger'[k] = a /\ SameIdentity(ledger'[k], r)
      <4>1. /\ a \in Request /\ SameIdentity(a, r) /\ attempt[a] \in Consequent
            /\ startedAt[q] <= startedAt[a]
        BY <3>2, <3>3
      <4>2. startedAt[q] \in Nat /\ startedAt[a] \in Nat /\ executor[h].now \in Nat
        BY <1>1, <3>1, <4>1, LedgerTyping
      <4>3. startedAt[a] < executor[h].now
        BY <1>1, <4>1 DEF LedgerInv, AckIsEarlier, Executing, Unspent, r
      <4>4. PICK k \in 1 .. n : ledger[k] = a
        BY <1>4, <4>1 DEF LedgerInv, LedgerShape, Consequent
      <4>5. SameIdentity(a, q)
        BY <3>1, <4>1 DEF SameIdentity, IsPublication
      <4>6. k >= i
        <5>1. k < i => startedAt[a] < startedAt[q]
          BY <1>4, <2>1, <3>3, <4>1, <4>4, <4>5 DEF LedgerInv, LedgerOrder
        <5>2. QED
          BY <1>4, <2>1, <4>1, <4>2, <4>4, <5>1
      <4>7. startedAt[q] < startedAt'[r]
        BY <1>1, <4>1, <4>2, <4>3
      <4>8. k \in i .. n /\ ledger'[k] = a
        BY <1>4, <4>4, <4>6
      <4>9. QED
        BY <4>1, <4>7, <4>8
    <3> HIDE DEF q, a
    <3>4. j - 1 = n
      BY <1>4, <2>4
    <3>5. QED
      BY <1>1, <2>1, <2>2, <3>1, <3>2, <3>3, <3>4 DEF q, a
  <2>5. QED
    BY <1>4, <2>3, <2>4
<1>10. QED
  BY <1>5, <1>6, <1>7, <1>8, <1>9 DEF LedgerInv

\* A publication is filed with the acknowledgement its check read.
LEMMA FilingKeepsLedger ==
    ASSUME IInv, LedgerInv, NEW h \in Executor, ProposePublication(h) PROVE LedgerInv'
<1> DEFINE r == executor[h].req
<1>1. /\ executor[h].at = "filing" /\ request[r] = "absent" /\ r \in Request
      /\ ack'[r] = executor[h].ack
      /\ \A q \in Request \ {r} : ack'[q] = ack[q]
      /\ UNCHANGED <<permit, attempts, clock>>
  BY BusyHasRequest DEF IInv, TypeOK, ProposePublication, At
<1>2. executor'[h].at = "idle" /\ \A g \in Executor \ {h} : executor'[g] = executor[g]
  BY ExecutorMoves DEF IInv, ProposePublication
<1> HIDE DEF r
<1>3. GuardHoldsRevision' /\ GuardStaysClear' /\ LedgerShape' /\ LedgerOrder'
  BY <1>1, <1>2, LedgerStays
<1>4. \A g \in Executor : executor[g].at \in Executing =>
        executor[g].req \in Request /\ executor[g].req # r
  <2> SUFFICES ASSUME NEW g \in Executor, executor[g].at \in Executing
               PROVE  executor[g].req \in Request /\ executor[g].req # r
    OBVIOUS
  <2>1. executor[g].req \in Request /\ permit[executor[g].req] # "none"
    BY BusyHasRequest DEF IInv, ExecutorShape, Executing, Unspent, BeforeCall
  <2>2. QED
    BY <1>1, <2>1 DEF IInv, PermitOfApproval
<1>5. ack'[r] \in Request => attempt[ack'[r]] # "none"
  BY <1>1 DEF LedgerInv, AckIsEarlier
<1>6. AckIsEarlier'
  BY <1>1, <1>2, <1>4, <1>5
     DEF LedgerInv, AckIsEarlier, attempts, Executing, Unspent, BeforeCall
<1>7. QED
  BY <1>3, <1>6 DEF LedgerInv

\* An executor that ends or moves on without touching rows or attempts.
LEMMA PassageKeepsLedger ==
    ASSUME IInv, LedgerInv, NEW h \in Executor, UNCHANGED <<rows, attempts, clock>>,
           \/ Finish(h)
           \/ \E at \in Executing \ {"guarded"} :
                 executor[h].at \in Executing /\ Advance(h, at)
    PROVE  LedgerInv'
<1>1. \/ executor'[h].at = "idle"
      \/ /\ executor[h].at \in Executing /\ executor'[h].at \in Executing \ {"guarded"}
         /\ executor'[h].req = executor[h].req /\ executor'[h].ack = executor[h].ack
         /\ executor'[h].now = executor[h].now
  <2>1. executor[h].at \in Executing => executor[h].at # "idle"
    BY DEF Executing, Unspent, BeforeCall
  <2>2. QED
    BY <2>1, ExecutorMoves DEF IInv
<1>2. \A g \in Executor \ {h} : executor'[g] = executor[g]
  <2>1. executor[h].at \in Executing => executor[h].at # "idle"
    BY DEF Executing, Unspent, BeforeCall
  <2>2. QED
    BY <2>1, ExecutorMoves DEF IInv
<1>3. "filing" \notin Executing
  BY DEF Executing, Unspent, BeforeCall
<1>4. GuardHoldsRevision' /\ GuardStaysClear' /\ LedgerShape' /\ LedgerOrder'
  BY <1>1, <1>2, LedgerStays DEF rows
<1>5. AckIsEarlier'
  BY <1>1, <1>2, <1>3, AckStays DEF rows
<1>6. QED
  BY <1>4, <1>5 DEF LedgerInv

LEMMA StepKeepsLedger ==
    ASSUME IInv, LedgerInv, NEW h \in Executor, Step(h) \/ Crash(h) PROVE LedgerInv'
<1>1. ASSUME NEW from, NEW to \in BeforeCall, NEW ok, from \in BeforeCall, Look(h, from, to, ok)
      PROVE  LedgerInv'
  <2>1. executor[h].at \in Sending /\ executor[h].at \in Executing /\ to \in Executing \ {"guarded"}
    BY <1>1 DEF Look, At, Sending, Executing, BeforeCall
  <2>2. CASE CompleteAttempt(h, "refused")
    BY <2>1, <2>2, CompletionKeepsLedger DEF Terminal
  <2>3. CASE Advance(h, to) /\ UNCHANGED <<rows, attempts, clock>>
    BY <2>1, <2>3, PassageKeepsLedger
  <2>4. QED
    BY <1>1, <2>2, <2>3 DEF Look
<1>2. ASSUME \/ RereadTenantArming(h) \/ RereadExecutionControl(h) \/ RereadPackage(h)
             \/ RereadMedia(h) \/ RereadAgent(h)
      PROVE  LedgerInv'
  BY <1>1, <1>2 DEF RereadTenantArming, RereadExecutionControl, RereadPackage, RereadMedia,
                    RereadAgent, AfterReach, BeforeCall
<1>3. ASSUME RefuseDispatch(h) \/ RecordAnswer(h) PROVE LedgerInv'
  <2>1. executor[h].at \in Sending /\ \E s \in Terminal : CompleteAttempt(h, s)
    BY <1>3 DEF RefuseDispatch, MayBeUnequipped, RecordAnswer, At, Terminal, Sending, BeforeCall
  <2>2. QED
    BY <2>1, CompletionKeepsLedger
<1>4. ASSUME SpendPermit(h) \/ Dispatch(h) PROVE LedgerInv'
  <2>1. /\ executor[h].at \in Executing /\ UNCHANGED <<rows, attempts, clock>>
        /\ Advance(h, "spending") \/ Advance(h, "sent")
    BY <1>4 DEF SpendPermit, Dispatch, At, Executing, Unspent, BeforeCall
  <2>2. {"spending", "sent"} \subseteq Executing \ {"guarded"}
    BY DEF Executing, Unspent
  <2>3. QED
    BY <2>1, <2>2, PassageKeepsLedger
<1>5. ASSUME Refuse(h) \/ Crash(h) PROVE LedgerInv'
  BY <1>5, PassageKeepsLedger DEF Refuse, Crash
<1>6. QED
  BY <1>2, <1>3, <1>4, <1>5, FilingKeepsLedger, GuardKeepsLedger, CommitKeepsLedger DEF Step

LEMMA LedgerStep == IInv /\ LedgerInv /\ [Next]_vars => LedgerInv'
<1> SUFFICES ASSUME IInv, LedgerInv, [Next]_vars PROVE LedgerInv'
  OBVIOUS
<1>1. CASE Environment \/ UNCHANGED vars
  <2>1. UNCHANGED <<attempts, clock, ack, executor>>
    BY <1>1 DEF Environment, ProposeSend, ApproveActionRequest, RejectActionRequest,
                RevokeActionPermit, Expire, WithdrawTarget, RestorePackage, ProviderActs,
                PlaceStop, LiftStop, SuspendAgent, ReactivateAgent, rows, attempts, vars
  <2>2. GuardHoldsRevision' /\ GuardStaysClear' /\ LedgerShape' /\ LedgerOrder'
    BY <2>1, LedgerStays
  <2>3. AckIsEarlier'
    BY <2>1 DEF LedgerInv, AckIsEarlier, attempts
  <2>4. QED
    BY <2>2, <2>3 DEF LedgerInv
<1>2. QED
  BY <1>1, StartKeepsLedger, StepKeepsLedger DEF Next

LEMMA LedgerHolds == Spec => [](IInv /\ LedgerInv)
<1>1. Init => IInv /\ LedgerInv
  BY InductiveInit, LedgerInit
<1>2. IInv /\ LedgerInv /\ [Next]_vars => (IInv /\ LedgerInv)'
  BY InductiveStep, LedgerStep
<1>3. QED
  BY <1>1, <1>2, PTL DEF Spec

\* Two attempts of one publication identity are never open at once.
THEOREM NeverTwoInFlight == Spec => []OneInFlight
<1>1. IInv /\ LedgerInv => OneInFlight
  <2> SUFFICES ASSUME IInv, LedgerInv, NEW q \in Request, NEW r \in Request, q # r,
                      SameIdentity(q, r), attempt[q] = "pending", attempt[r] = "pending"
               PROVE  FALSE
    BY DEF OneInFlight
  <2>1. PICK i \in DOMAIN ledger : ledger[i] = q
    BY DEF LedgerInv, LedgerShape
  <2>2. PICK j \in DOMAIN ledger : ledger[j] = r
    BY DEF LedgerInv, LedgerShape
  <2>3. SameIdentity(r, q)
    BY DEF SameIdentity, IsPublication
  <2>4. i < j \/ j < i
    BY <2>1, <2>2, LedgerTyping
  <2>5. QED
    BY <2>1, <2>2, <2>3, <2>4 DEF LedgerInv, LedgerOrder
<1>2. QED
  BY <1>1, LedgerHolds, PTL

\* A publication that follows one that may have gone out acknowledges it, or
\* a later one.
THEOREM RepublishesKnowingly == Spec => []NoBlindRepublish
<1>1. IInv /\ LedgerInv => NoBlindRepublish
  <2> SUFFICES ASSUME IInv, LedgerInv, NEW i \in DOMAIN ledger, NEW j \in DOMAIN ledger,
                      i < j, SameIdentity(ledger[i], ledger[j]),
                      wire[ledger[i]] \in {"sent", "performed"}
               PROVE  \E k \in i .. j - 1 :
                         ledger[k] = ack[ledger[j]] /\ SameIdentity(ledger[k], ledger[j])
    BY DEF NoBlindRepublish
  <2>1. ledger[i] \in Request
    BY LedgerTyping
  <2>2. attempt[ledger[i]] \in {"pending"} \cup Consequent
    BY <2>1 DEF IInv, TypeOK, Terminal, SpendIsRecorded, HonestOutcome, Consequent
  <2>3. QED
    BY <2>2 DEF LedgerInv, LedgerOrder
<1>2. QED
  BY <1>1, LedgerHolds, PTL

(***************************************************************************)
(* What is held against an executor                                        *)
(***************************************************************************)

\* What is noted against an executor is in force, and is gone once it has
\* been looked at for the last time.
StandingTrue(h) ==
    /\ executor[h].at \in {"idle", "filing"} => standing[h] = {}
    /\ standing[h] \cap {"tenant", "deployment"} \subseteq stops
    /\ "agent" \in standing[h] => Proposer[executor[h].req] \in suspended
    /\ \A f \in standing[h] \cap Facet : f \in withdrawn[executor[h].req]
    /\ standing[h] \cap {"package", "media"} # {} => IsPublication(executor[h].req)
    /\ executor[h].at \in BeforeCall \ {"committed"} => "tenant" \notin standing[h]
    /\ executor[h].at \in {"reachable", "packaged", "verified", "cleared"}
         => "deployment" \notin standing[h]
    /\ executor[h].at \in BeforeCall => "record" \notin standing[h]
    /\ executor[h].at \in {"packaged", "verified", "cleared"} => "package" \notin standing[h]
    /\ executor[h].at \in {"verified", "cleared"} => "media" \notin standing[h]
    /\ executor[h].at = "cleared" => "agent" \notin standing[h]

StandingIsTrue == \A h \in Executor : StandingTrue(h)

LEMMA StandingInit == Init => StandingIsTrue
<1> SUFFICES ASSUME Init, NEW h \in Executor PROVE StandingTrue(h)
  BY DEF StandingIsTrue
<1>1. standing[h] = {} /\ executor[h].at = "idle"
  BY DEF Init, Idle
<1>2. QED
  BY <1>1 DEF StandingTrue, BeforeCall

\* Rulings move while every executor stays where it is.
LEMMA RulingKeepsStanding ==
    ASSUME TypeOK, StandingIsTrue, Environment PROVE StandingIsTrue'
<1> SUFFICES ASSUME NEW h \in Executor PROVE StandingTrue(h)'
  BY DEF StandingIsTrue
<1>1. UNCHANGED executor
  BY DEF Environment, ProposeSend, ApproveActionRequest, RejectActionRequest, RevokeActionPermit,
         Expire, WithdrawTarget, RestorePackage, ProviderActs, PlaceStop, LiftStop,
         SuspendAgent, ReactivateAgent
<1>2. StandingTrue(h) /\ standing \in [Executor -> SUBSET Ruling]
  BY DEF StandingIsTrue, TypeOK
<1>3. ASSUME UNCHANGED <<stops, suspended, withdrawn, standing>> PROVE StandingTrue(h)'
  BY <1>1, <1>2, <1>3 DEF StandingTrue
<1>4. ASSUME NEW s \in Stop, PlaceStop(s) PROVE StandingTrue(h)'
  <2>1. s \in {"tenant", "deployment"}
    BY ExecutionAssumption
  <2>2. /\ stops' = stops \cup {s} /\ UNCHANGED <<suspended, withdrawn>>
        /\ \/ standing'[h] = standing[h]
           \/ /\ standing'[h] = standing[h] \cup {s}
              /\ \/ executor[h].at \in Unspent \cup {"committed"}
                 \/ s = "deployment" /\ executor[h].at = "armed"
    BY <1>4, <2>1 DEF PlaceStop, Noticed
  <2>3. QED
    BY <1>1, <1>2, <2>1, <2>2 DEF StandingTrue, Facet, Unspent, BeforeCall
<1>5. ASSUME NEW s \in Stop, LiftStop(s) PROVE StandingTrue(h)'
  <2>1. stops' = stops \ {s} /\ UNCHANGED <<suspended, withdrawn>> /\ standing'[h] = standing[h] \ {s}
    BY <1>5 DEF LiftStop, Forgotten
  <2>2. QED
    BY <1>1, <1>2, <2>1 DEF StandingTrue
<1>6. ASSUME NEW a \in Agent, SuspendAgent(a) PROVE StandingTrue(h)'
  <2>1. /\ suspended' = suspended \cup {a} /\ UNCHANGED <<stops, withdrawn>>
        /\ \/ standing'[h] = standing[h]
           \/ /\ standing'[h] = standing[h] \cup {"agent"}
              /\ executor[h].at \in {"begun"} \cup (BeforeCall \ {"cleared"})
              /\ Proposer[executor[h].req] = a
    BY <1>6 DEF SuspendAgent, Noticed
  <2>2. QED
    BY <1>1, <1>2, <2>1 DEF StandingTrue, Facet, BeforeCall
<1>7. ASSUME NEW a \in Agent, ReactivateAgent(a) PROVE StandingTrue(h)'
  <2>1. /\ suspended' = suspended \ {a} /\ UNCHANGED <<stops, withdrawn>>
        /\ \/ /\ standing'[h] = standing[h] \ {"agent"}
              /\ executor[h].req \in Request /\ Proposer[executor[h].req] = a
           \/ /\ standing'[h] = standing[h]
              /\ executor[h].req \notin Request \/ Proposer[executor[h].req] # a
    BY <1>7 DEF ReactivateAgent
  <2>2. executor[h].at # "idle" => executor[h].req \in Request
    BY BusyHasRequest
  <2>3. executor[h].req \notin Request => standing[h] = {}
    BY <1>2, <2>2 DEF StandingTrue
  <2>4. QED
    BY <1>1, <1>2, <2>1, <2>3 DEF StandingTrue
<1>8. ASSUME NEW r \in Request, NEW f \in Facet, WithdrawTarget(r, f) PROVE StandingTrue(h)'
  <2>1. /\ f \in {"package", "media"} => IsPublication(r)
        /\ UNCHANGED <<stops, suspended>>
        /\ withdrawn' = [withdrawn EXCEPT ![r] = @ \cup {f}]
        /\ \/ standing'[h] = standing[h]
           \/ /\ standing'[h] = standing[h] \cup {f}
              /\ executor[h].req = r
              /\ executor[h].at \in LookedAtUntil(f)
    BY <1>8, ExecutionAssumption DEF WithdrawTarget, Noticed, IsPublication
  <2>2. \A q : withdrawn[q] \subseteq withdrawn'[q]
    BY <2>1 DEF TypeOK
  <2>3. f \in withdrawn'[r]
    BY <2>1 DEF TypeOK
  <2>4. QED
    BY <1>1, <1>2, <2>1, <2>2, <2>3
       DEF StandingTrue, LookedAtUntil, Facet, Unspent, BeforeCall
<1>9. ASSUME NEW r \in Request, RestorePackage(r) PROVE StandingTrue(h)'
  <2>1. /\ withdrawn' = [withdrawn EXCEPT ![r] = @ \ {"package"}] /\ UNCHANGED <<stops, suspended>>
        /\ \/ executor[h].req = r /\ standing'[h] = standing[h] \ {"package"}
           \/ executor[h].req # r /\ standing'[h] = standing[h]
    BY <1>9 DEF RestorePackage
  <2>2. executor[h].at # "idle" => executor[h].req \in Request
    BY BusyHasRequest
  <2>3. standing'[h] \subseteq standing[h]
    BY <2>1
  <2>4. \A f \in standing'[h] \cap Facet : f \in withdrawn'[executor[h].req]
    BY <1>2, <2>1, <2>2 DEF StandingTrue, TypeOK
  <2>5. QED
    BY <1>1, <1>2, <2>1, <2>3, <2>4 DEF StandingTrue
<1>10. QED
  BY <1>3, <1>4, <1>5, <1>6, <1>7, <1>8, <1>9
     DEF Environment, ProposeSend, ApproveActionRequest, RejectActionRequest, RevokeActionPermit,
         Expire, ProviderActs, ruling

LEMMA StepKeepsStanding ==
    ASSUME IInv, StandingIsTrue, NEW h \in Executor, Start(h) \/ Step(h) \/ Crash(h)
    PROVE  StandingIsTrue'
<1> USE DEF IInv
<1>1. UNCHANGED <<stops, suspended, withdrawn>>
  BY DEF Start, CheckPriorPublicationAtProposal, ExecuteAuthorizedAction, Step, ProposePublication,
         SpendPermit, GuardPublication, CommitSpend, RereadTenantArming, RereadExecutionControl,
         RereadPackage, RereadMedia, RereadAgent, Look, Dispatch, RefuseDispatch, RecordAnswer,
         CompleteAttempt,
         Refuse, Crash, ruling
<1>2. StandingTrue(h) /\ standing \in [Executor -> SUBSET Ruling]
  BY DEF StandingIsTrue, TypeOK
<1>3. ASSUME \A g \in Executor \ {h} : executor'[g] = executor[g] /\ standing'[g] = standing[g],
             StandingTrue(h)'
      PROVE  StandingIsTrue'
  <2>1. \A g \in Executor \ {h} : StandingTrue(g) => StandingTrue(g)'
    BY <1>1, <1>3 DEF StandingTrue
  <2>2. QED
    BY <1>3, <2>1 DEF StandingIsTrue
<1>4. ASSUME Finish(h) PROVE StandingIsTrue'
  <2>1. /\ executor'[h].at = "idle" /\ standing'[h] = {}
        /\ \A g \in Executor \ {h} : executor'[g] = executor[g] /\ standing'[g] = standing[g]
    BY <1>2, <1>4, ExecutorMoves DEF Finish
  <2>2. QED
    BY <1>3, <2>1 DEF StandingTrue, BeforeCall
<1>5. ASSUME NEW at \in {"filing", "begun"}, NEW r \in Request, NEW a \in Request \cup {NoOne},
             Begin(h, at, r, a)
      PROVE  StandingIsTrue'
  <2>1. /\ executor[h].at = "idle" /\ executor'[h].at = at
        /\ \A g \in Executor \ {h} : executor'[g] = executor[g]
        /\ UNCHANGED standing
    BY <1>5, ExecutorMoves DEF Begin
  <2>2. standing'[h] = {}
    BY <1>2, <2>1 DEF StandingTrue
  <2>3. QED
    BY <1>3, <2>1, <2>2 DEF StandingTrue, BeforeCall
<1>6. ASSUME NEW at \in Executing, executor[h].at # "idle", Advance(h, at)
      PROVE  /\ executor'[h].at = at /\ executor'[h].req = executor[h].req
             /\ \A g \in Executor \ {h} : executor'[g] = executor[g]
             /\ UNCHANGED standing
             /\ at \in {"spending", "guarded", "sent"} => StandingIsTrue'
  <2>1. /\ executor'[h].at = at /\ executor'[h].req = executor[h].req
        /\ \A g \in Executor \ {h} : executor'[g] = executor[g]
        /\ UNCHANGED standing
    BY <1>6, ExecutorMoves DEF Advance
  <2>2. at \in {"spending", "guarded", "sent"} => StandingTrue(h)'
    BY <1>1, <1>2, <2>1 DEF StandingTrue, BeforeCall
  <2>3. QED
    BY <1>3, <2>1, <2>2
<1>7. ASSUME CommitSpend(h) PROVE StandingIsTrue'
  <2>1. executor[h].at = "guarded" /\ "committed" \in Executing
    BY <1>7 DEF CommitSpend, At, Executing, BeforeCall
  <2>2. CASE withdrawn[executor[h].req] \cap ReadAtCommit = {} /\ Advance(h, "committed")
    <3>1. /\ executor'[h].at = "committed" /\ executor'[h].req = executor[h].req
          /\ \A g \in Executor \ {h} : executor'[g] = executor[g]
          /\ UNCHANGED standing
      BY <1>6, <2>1, <2>2
    <3>2. "record" \notin standing[h]
      BY <1>2, <2>2 DEF StandingTrue, ReadAtCommit, Facet
    <3>3. StandingTrue(h)'
      BY <1>1, <1>2, <3>1, <3>2 DEF StandingTrue, IsPublication
    <3>4. QED
      BY <1>3, <3>1, <3>3
  <2>3. QED
    BY <1>4, <1>7, <2>2 DEF CommitSpend
<1>8. ASSUME NEW from, NEW to, NEW ok, Look(h, from, to, ok),
             \/ from = "committed" /\ to = "armed" /\ ok = ("tenant" \notin stops)
             \/ from = "armed" /\ to = AfterReach(h) /\ ok = ("deployment" \notin stops)
             \/ /\ from = "reachable" /\ to = "packaged"
                /\ ok = ("package" \notin withdrawn[executor[h].req])
             \/ /\ from = "packaged" /\ to = "verified"
                /\ ok = ("media" \notin withdrawn[executor[h].req])
             \/ from = "verified" /\ to = "cleared" /\ ok = InService(executor[h].req)
      PROVE  StandingIsTrue'
  <2>1. /\ executor[h].at = from /\ from # "idle" /\ from \in BeforeCall
        /\ to \in Executing /\ to \in BeforeCall
    BY <1>8 DEF Look, At, AfterReach, Executing, BeforeCall
  <2>2. CASE ok /\ Advance(h, to)
    <3>1. /\ executor'[h].at = to /\ executor'[h].req = executor[h].req
          /\ \A g \in Executor \ {h} : executor'[g] = executor[g]
          /\ UNCHANGED standing
      BY <1>6, <2>1, <2>2
    <3>2. StandingTrue(h)'
      BY <1>1, <1>2, <1>8, <2>1, <2>2, <3>1
         DEF StandingTrue, InService, AfterReach, IsPublication, Facet, BeforeCall
    <3>3. QED
      BY <1>3, <3>1, <3>2
  <2>3. QED
    BY <1>4, <1>8, <2>2 DEF Look, CompleteAttempt
<1>9. ASSUME \/ RereadTenantArming(h) \/ RereadExecutionControl(h)
             \/ RereadPackage(h) \/ RereadMedia(h) \/ RereadAgent(h)
      PROVE  StandingIsTrue'
  BY <1>8, <1>9 DEF RereadTenantArming, RereadExecutionControl, RereadPackage, RereadMedia,
                    RereadAgent
<1>10. ASSUME SpendPermit(h) \/ GuardPublication(h) \/ Dispatch(h) PROVE StandingIsTrue'
  BY <1>6, <1>10 DEF SpendPermit, GuardPublication, Dispatch, At, Executing, Unspent
<1>11. ASSUME Start(h) PROVE StandingIsTrue'
  BY <1>5, <1>11 DEF Start, CheckPriorPublicationAtProposal, ExecuteAuthorizedAction
<1>12. ASSUME \/ ProposePublication(h) \/ RefuseDispatch(h) \/ RecordAnswer(h)
              \/ Refuse(h) \/ Crash(h)
       PROVE  StandingIsTrue'
  BY <1>4, <1>12 DEF ProposePublication, RefuseDispatch, RecordAnswer, CompleteAttempt, Refuse, Crash
<1>13. QED
  BY <1>7, <1>9, <1>10, <1>11, <1>12 DEF Step

\* No bytes leave against a stop, a suspension or a withdrawal that preceded
\* the executor's last look at it and still stands.
THEOREM StopsAreHonoured == Spec => StopsHold
<1> DEFINE Honoured == \A h \in Executor : At(h, "cleared") /\ executor'[h].at = "sent"
                           => standing[h] = {}
<1>1. Init => IInv /\ StandingIsTrue
  BY InductiveInit, StandingInit
<1>2. IInv /\ StandingIsTrue /\ [Next]_vars => (IInv /\ StandingIsTrue)'
  <2> SUFFICES ASSUME IInv, StandingIsTrue, [Next]_vars PROVE StandingIsTrue'
    BY InductiveStep
  <2>1. CASE UNCHANGED vars
    BY <2>1 DEF vars, StandingIsTrue, StandingTrue
  <2>2. QED
    BY <2>1, RulingKeepsStanding, StepKeepsStanding DEF Next, IInv
<1>3. IInv /\ StandingIsTrue /\ [Next]_vars => [Honoured]_vars
  <2> SUFFICES ASSUME IInv, StandingIsTrue, NEW h \in Executor, executor[h].at = "cleared"
               PROVE  standing[h] = {}
    BY DEF At
  <2>1. standing[h] \subseteq {"tenant", "deployment", "agent", "record", "package", "media"}
    BY ExecutionAssumption DEF IInv, TypeOK, Ruling, Facet
  <2>2. QED
    BY <2>1 DEF StandingIsTrue, StandingTrue, BeforeCall
<1>4. QED
  BY <1>1, <1>2, <1>3, PTL DEF Spec, StopsHold

(***************************************************************************)
(* The promise about one act                                               *)
(***************************************************************************)

\* A step that touches one request moves that request's phase alone.
LEMMA OnePhaseMoves ==
    ASSUME NEW r \in Request,
           \A q \in Request \ {r} :
              request'[q] = request[q] /\ permit'[q] = permit[q] /\ wire'[q] = wire[q],
           NEW from, NEW to, ActPhase(r) = from, ActPhase(r)' = to
    PROVE  LET phi == [q \in Request |-> ActPhase(q)]
           IN  phi[r] = from /\ phi' = [phi EXCEPT ![r] = to]
<1>1. \A q \in Request \ {r} : ActPhase(q)' = ActPhase(q)
  BY DEF ActPhase
<1>2. QED
  BY <1>1

\* Every execution of the executors keeps the promise of GovernedAct: decided
\* once, ended once, and performed at most once, only when spent.
THEOREM ExecutionKeepsPromise == Spec => KeepsPromise
<1> DEFINE phi == [r \in Request |-> ActPhase(r)]
<1>1. Init => Promise!Init
  BY DEF Init, Promise!Init, ActPhase
<1>2. IInv /\ [Next]_vars => [Promise!Next]_phi
  <2> SUFFICES ASSUME IInv, [Next]_vars PROVE Promise!Next \/ UNCHANGED phi
    OBVIOUS
  <2> USE DEF IInv
  <2>1. ASSUME UNCHANGED <<request, permit, wire>> PROVE UNCHANGED phi
    BY <2>1 DEF ActPhase
  <2>2. \A r \in Request : permit[r] # "consumed" => wire[r] = "quiet"
    BY DEF SpendIsRecorded
  <2>3. ASSUME NEW r \in Request, request[r] = "absent",
               request' = [request EXCEPT ![r] = "pending"], UNCHANGED <<permit, wire>>
        PROVE  Promise!Next
    <3>1. permit[r] = "none" /\ wire[r] = "quiet" /\ request'[r] = "pending"
      BY <2>2, <2>3 DEF PermitOfApproval, TypeOK
    <3>2. ActPhase(r) = "none" /\ ActPhase(r)' = "proposed"
      BY <2>3, <3>1 DEF ActPhase
    <3>3. \A q \in Request \ {r} : request'[q] = request[q]
      BY <2>3 DEF TypeOK
    <3>4. QED
      BY <2>3, <3>2, <3>3, OnePhaseMoves DEF Promise!Propose, Promise!Move, Promise!Next
  <2>4. ASSUME NEW r \in Request, ApproveActionRequest(r) \/ RejectActionRequest(r)
        PROVE  Promise!Next
    <3>1. /\ request[r] = "pending" /\ permit[r] = "none" /\ wire[r] = "quiet" /\ UNCHANGED wire
          /\ \/ request'[r] = "approved" /\ permit'[r] = "active"
             \/ request'[r] = "rejected" /\ permit'[r] = "none"
          /\ \A q \in Request \ {r} : request'[q] = request[q] /\ permit'[q] = permit[q]
      BY <2>2, <2>4 DEF ApproveActionRequest, RejectActionRequest, PermitOfApproval, TypeOK
    <3>2. ActPhase(r) = "proposed" /\ ActPhase(r)' \in {"authorized", "declined"}
      BY <3>1 DEF ActPhase
    <3>3. QED
      BY <3>1, <3>2, OnePhaseMoves
         DEF Promise!Authorize, Promise!Decline, Promise!Move, Promise!Next
  <2>5. ASSUME NEW r \in Request, permit[r] = "active", UNCHANGED <<request, wire>>,
               NEW p \in {"consumed", "revoked"}, permit' = [permit EXCEPT ![r] = p]
        PROVE  Promise!Next
    <3>1. /\ wire[r] = "quiet" /\ permit'[r] = p
          /\ \A q \in Request \ {r} : permit'[q] = permit[q]
      BY <2>2, <2>5 DEF TypeOK
    <3>2. ActPhase(r) = "authorized" /\ ActPhase(r)' \in {"spent", "withdrawn"}
      BY <2>5, <3>1 DEF ActPhase
    <3>3. QED
      BY <2>5, <3>1, <3>2, OnePhaseMoves
         DEF Promise!Spend, Promise!Withdraw, Promise!Move, Promise!Next
  <2>6. ASSUME NEW r \in Request, permit[r] = "consumed", wire[r] # "performed",
               UNCHANGED <<request, permit>>,
               NEW w \in {"sent", "performed", "dropped"}, wire' = [wire EXCEPT ![r] = w]
        PROVE  Promise!Next \/ UNCHANGED phi
    <3>1. wire'[r] = w /\ \A q \in Request \ {r} : wire'[q] = wire[q]
      BY <2>6 DEF TypeOK
    <3>2. ActPhase(r) = "spent" /\ ActPhase(r)' = (IF w = "performed" THEN "performed" ELSE "spent")
      BY <2>6, <3>1 DEF ActPhase
    <3>3. CASE w = "performed"
      BY <2>6, <3>1, <3>2, <3>3, OnePhaseMoves DEF Promise!Perform, Promise!Move, Promise!Next
    <3>4. CASE w # "performed"
      <4>1. \A q \in Request : ActPhase(q)' = ActPhase(q)
        BY <2>6, <3>1, <3>2, <3>4 DEF ActPhase
      <4>2. QED
        BY <4>1
    <3>5. QED
      BY <3>3, <3>4
  <2>7. ASSUME Environment PROVE Promise!Next \/ UNCHANGED phi
    <3>1. ASSUME NEW r \in Request, ProviderActs(r) PROVE Promise!Next \/ UNCHANGED phi
      <4>1. permit[r] = "consumed" /\ wire[r] = "sent" /\ UNCHANGED <<request, permit>>
        BY <2>2, <3>1 DEF ProviderActs, rows
      <4>2. PICK w \in {"performed", "dropped"} : wire' = [wire EXCEPT ![r] = w]
        BY <3>1 DEF ProviderActs
      <4>3. QED
        BY <2>6, <4>1, <4>2
    <3>2. QED
      BY <2>1, <2>3, <2>4, <2>5, <2>7, <3>1
         DEF Environment, ProposeSend, RevokeActionPermit, Expire, WithdrawTarget,
             RestorePackage, PlaceStop,
             LiftStop, SuspendAgent, ReactivateAgent, rows
  <2>8. ASSUME NEW h \in Executor, Start(h) \/ Crash(h) PROVE UNCHANGED phi
    BY <2>1, <2>8 DEF Start, CheckPriorPublicationAtProposal, ExecuteAuthorizedAction, Crash, rows
  <2>9. ASSUME NEW h \in Executor, Step(h) PROVE Promise!Next \/ UNCHANGED phi
    <3>1. executor[h].at # "idle" => executor[h].req \in Request
      BY BusyHasRequest
    <3>2. CASE ProposePublication(h)
      BY <2>3, <3>1, <3>2 DEF ProposePublication, At
    <3>3. CASE CommitSpend(h)
      BY <2>5, <3>1, <3>3 DEF CommitSpend, At, SpendsHoldPermit
    <3>4. CASE Dispatch(h)
      <4>1. /\ executor[h].at = "cleared" /\ executor[h].req \in Request
            /\ wire' = [wire EXCEPT ![executor[h].req] = "sent"] /\ UNCHANGED <<request, permit>>
        BY <3>1, <3>4 DEF Dispatch, At, rows
      <4>2. attempt[executor[h].req] = "pending" /\ wire[executor[h].req] = "quiet"
        BY <4>1 DEF SendsOwnAttempt, Sending, BeforeCall
      <4>3. permit[executor[h].req] = "consumed"
        BY <4>1, <4>2 DEF SpendIsRecorded
      <4>4. QED
        BY <2>6, <4>1, <4>2, <4>3
    <3>5. QED
      BY <2>1, <2>9, <3>2, <3>3, <3>4
         DEF Step, SpendPermit, GuardPublication, RereadTenantArming, RereadExecutionControl,
             RereadPackage, RereadMedia, RereadAgent, Look, RefuseDispatch, RecordAnswer,
             CompleteAttempt,
             Refuse, rows
  <2>10. CASE UNCHANGED vars
    BY <2>1, <2>10 DEF vars
  <2>11. QED
    BY <2>7, <2>8, <2>9, <2>10 DEF Next
<1>3. QED
  BY <1>1, <1>2, Inductive, PTL DEF Spec, KeepsPromise, Promise!Spec
=============================================================================
