---------------------- MODULE StandingObservation_proofs ----------------------
(***************************************************************************)
(* Proofs about the lineages of GovernedRevisions and about the invocations *)
(* that observe under one of them.                                         *)
(***************************************************************************)
EXTENDS StandingObservation, TLAPS

-----------------------------------------------------------------------------
(* The lineages *)

\* A writer was shown no more than there is; one that is about to withdraw the
\* head it was shown withdraws what is in force, on no terms of its own.
ShownTo(h) ==
    writer[h] # NoWrite =>
        /\ writer[h].shown <= Len(lineage[writer[h].on])
        /\ (/\ writer[h].at = "read"
            /\ writer[h].state = "withdrawn"
            /\ writer[h].shown = Len(lineage[writer[h].on])) =>
               /\ Active(writer[h].on)
               /\ writer[h].terms \in {NoOne, Latest(writer[h].on).terms}

Shown == \A h \in Writer : ShownTo(h)

\* A busy writer's record, field by field.
LEMMA WriterFields ==
    ASSUME RevisionsTypeOK, NEW h \in Writer, writer[h] # NoWrite
    PROVE  /\ writer[h].at \in {"resolved", "read"}
           /\ writer[h].on \in Lineage
           /\ writer[h].state \in {"active", "withdrawn"}
           /\ writer[h].terms \in Terms \cup {NoOne}
           /\ writer[h].shown \in Nat
           /\ writer[h] \in [at : {"resolved", "read"}, on : Lineage,
                             state : {"active", "withdrawn"},
                             terms : Terms \cup {NoOne}, shown : Nat]
BY DEF RevisionsTypeOK, WriterState

\* The head of a lineage in force is a revision.
LEMMA LatestIsRevision ==
    ASSUME RevisionsTypeOK, NEW l \in Lineage, Active(l)
    PROVE  /\ Latest(l) \in Revision
           /\ Latest(l).terms \in Terms \cup {NoOne}
<1>1. lineage[l] \in Seq(Revision) /\ lineage[l] # <<>>
  BY DEF RevisionsTypeOK, Active
<1>2. Latest(l) \in Revision
  BY <1>1 DEF Latest
<1> QED
  BY <1>2 DEF Revision

\* What every transition does to the writer that makes it, and to nothing else.
LEMMA TransitionStep ==
    ASSUME NEW h \in Writer, RevisionsTypeOK, NEW k, NEW s \in {"active", "withdrawn"},
           NEW t \in Terms \cup {NoOne}, NEW ok, Transition(h, k, s, t, ok)
    PROVE  /\ RevisionsTypeOK'
           /\ lineage' = lineage
           /\ unfit' = unfit
           /\ writer[h] # NoWrite
           /\ \A g \in Writer \ {h} : writer'[g] = writer[g]
           /\ writer'[h].at = "read" /\ writer'[h].on = writer[h].on
           /\ writer'[h].state = s /\ writer'[h].terms = t
           /\ writer'[h].shown = writer[h].shown
           /\ writer[h].shown = Len(lineage[writer[h].on])
           /\ s = "withdrawn" => Active(writer[h].on)
<1>1. writer[h] # NoWrite
  BY DEF Transition, NoWrite
<1>2. writer[h] \in [at : {"resolved", "read"}, on : Lineage,
                     state : {"active", "withdrawn"},
                     terms : Terms \cup {NoOne}, shown : Nat]
  BY <1>1, WriterFields
<1>3. writer \in [Writer -> WriterState]
  BY DEF RevisionsTypeOK
<1>4. writer' = [writer EXCEPT ![h].at = "read", ![h].terms = t]
  BY DEF Transition
<1>5. writer'[h] = [writer[h] EXCEPT !.at = "read", !.terms = t]
  BY <1>3, <1>4
<1>6. \A g \in Writer \ {h} : writer'[g] = writer[g]
  BY <1>3, <1>4
<1>7. writer'[h] \in [at : {"resolved", "read"}, on : Lineage,
                      state : {"active", "withdrawn"},
                      terms : Terms \cup {NoOne}, shown : Nat]
  BY <1>2, <1>5
<1>8. writer' \in [Writer -> WriterState]
  <2>1. writer'[h] \in WriterState
    BY <1>7 DEF WriterState
  <2> QED
    BY <1>3, <1>4, <1>6, <2>1
<1>9. RevisionsTypeOK'
  BY <1>8 DEF RevisionsTypeOK, Transition
<1>10. /\ writer'[h].at = "read" /\ writer'[h].on = writer[h].on
       /\ writer'[h].state = writer[h].state /\ writer'[h].terms = t
       /\ writer'[h].shown = writer[h].shown
  BY <1>2, <1>5
<1> QED
  BY <1>1, <1>6, <1>9, <1>10 DEF Transition

\* A transition leaves its writer with something it may write.
LEMMA TransitionShown ==
    ASSUME NEW h \in Writer, RevisionsTypeOK, Shown, NEW k, NEW s \in {"active", "withdrawn"},
           NEW t \in Terms \cup {NoOne}, NEW ok, Transition(h, k, s, t, ok),
           s = "withdrawn" => t \in {NoOne, Latest(writer[h].on).terms}
    PROVE  RevisionsTypeOK' /\ Shown' /\ lineage' = lineage
<1>1. /\ RevisionsTypeOK' /\ lineage' = lineage /\ writer[h] # NoWrite
      /\ \A g \in Writer \ {h} : writer'[g] = writer[g]
      /\ writer'[h].at = "read" /\ writer'[h].on = writer[h].on
      /\ writer'[h].state = s /\ writer'[h].terms = t
      /\ writer'[h].shown = writer[h].shown
      /\ writer[h].shown = Len(lineage[writer[h].on])
      /\ s = "withdrawn" => Active(writer[h].on)
  BY TransitionStep
<1>2. ASSUME NEW g \in Writer PROVE ShownTo(g)'
  <2>1. CASE g = h
    <3>1. writer[h].on \in Lineage /\ writer[h].shown \in Nat
      BY <1>1, WriterFields
    <3>2. writer'[h].shown <= Len(lineage'[writer'[h].on])
      BY <1>1, <3>1
    <3>3. s = "withdrawn" =>
              /\ Active(writer[h].on)'
              /\ t \in {NoOne, Latest(writer[h].on)'.terms}
      BY <1>1 DEF Active, Latest
    <3> QED
      BY <1>1, <2>1, <3>2, <3>3 DEF ShownTo
  <2>2. CASE g # h
    <3>1. writer'[g] = writer[g]
      BY <1>1, <2>2
    <3>2. ShownTo(g)
      BY DEF Shown
    <3> QED
      BY <1>1, <3>1, <3>2 DEF ShownTo, Active, Latest
  <2> QED
    BY <2>1, <2>2
<1> QED
  BY <1>1, <1>2 DEF Shown

\* A lineage only ever grows at its end.
Grows ==
    \A l \in Lineage :
        /\ Len(lineage[l]) <= Len(lineage'[l])
        /\ \A r \in 1 .. Len(lineage[l]) : lineage'[l][r] = lineage[l][r]

\* The insert is a step of RevisionLineage, keeps types and what every other
\* writer was shown.
LEMMA InsertStep ==
    ASSUME NEW h \in Writer, RevisionsTypeOK, Shown, InsertRevision(h)
    PROVE  RevisionsTypeOK' /\ Shown' /\ Grows /\ Promise!Next
<1> DEFINE w == writer[h]
           l == w.on
           e == [state |-> w.state, terms |-> w.terms, shown |-> w.shown]
<1>1. w.at = "read" /\ writer[h] # NoWrite
  BY DEF InsertRevision, NoWrite
<1>2. /\ l \in Lineage /\ w.state \in {"active", "withdrawn"}
      /\ w.terms \in Terms \cup {NoOne} /\ w.shown \in Nat
  BY <1>1, WriterFields
<1>3. /\ lineage \in [Lineage -> Seq(Revision)]
      /\ writer \in [Writer -> WriterState]
      /\ unfit \subseteq Perishable
  BY DEF RevisionsTypeOK
<1>4. /\ w.shown = Len(lineage[l])
      /\ lineage' = [lineage EXCEPT ![l] = Append(@, e)]
      /\ writer' = [writer EXCEPT ![h] = NoWrite]
      /\ unfit' = unfit
  BY DEF InsertRevision
<1>5. e \in Revision
  BY <1>2 DEF Revision
<1>6. lineage[l] \in Seq(Revision)
  BY <1>2, <1>3
<1>7. /\ lineage'[l] = Append(lineage[l], e)
      /\ \A m \in Lineage \ {l} : lineage'[m] = lineage[m]
      /\ lineage' \in [Lineage -> Seq(Revision)]
  <2>1. Append(lineage[l], e) \in Seq(Revision)
    BY <1>5, <1>6
  <2> HIDE DEF l, e
  <2> QED
    BY <1>2, <1>3, <1>4, <2>1
<1>8. /\ Len(lineage'[l]) = Len(lineage[l]) + 1
      /\ \A r \in 1 .. Len(lineage[l]) : lineage'[l][r] = lineage[l][r]
      /\ Len(lineage[l]) \in Nat
  <2> HIDE DEF l, e
  <2> QED
    BY <1>5, <1>6, <1>7
<1>9. RevisionsTypeOK'
  <2>1. writer' \in [Writer -> WriterState]
    BY <1>3, <1>4 DEF WriterState
  <2> QED
    BY <1>3, <1>4, <1>7, <2>1 DEF RevisionsTypeOK
<1>10. Grows
  <2> SUFFICES ASSUME NEW m \in Lineage
               PROVE  /\ Len(lineage[m]) <= Len(lineage'[m])
                      /\ \A r \in 1 .. Len(lineage[m]) : lineage'[m][r] = lineage[m][r]
    BY DEF Grows
  <2>1. CASE m = l
    BY <1>8, <2>1
  <2>2. CASE m # l
    <3>1. lineage'[m] = lineage[m] /\ lineage[m] \in Seq(Revision)
      BY <1>3, <1>7, <2>2
    <3>2. Len(lineage[m]) \in Nat
      BY <3>1
    <3> QED
      BY <3>1, <3>2
  <2> QED
    BY <2>1, <2>2
<1>11. Shown'
  <2> SUFFICES ASSUME NEW g \in Writer PROVE ShownTo(g)'
    BY DEF Shown
  <2>1. CASE g = h
    <3>1. writer'[g] = NoWrite
      BY <1>3, <1>4, <2>1
    <3> QED
      BY <3>1 DEF ShownTo, NoWrite
  <2>2. CASE g # h
    <3>1. writer'[g] = writer[g]
      BY <1>3, <1>4, <2>2
    <3>2. ShownTo(g)
      BY DEF Shown
    <3>3. CASE writer[g] = NoWrite
      BY <3>1, <3>3 DEF ShownTo, NoWrite
    <3>4. CASE writer[g] # NoWrite
      <4>1. writer[g].on \in Lineage /\ writer[g].shown \in Nat
        BY <3>4, WriterFields
      <4>2. writer[g].shown <= Len(lineage[writer[g].on])
        BY <3>2, <3>4 DEF ShownTo
      <4>3. CASE writer[g].on = l
        <5>1. writer[g].shown < Len(lineage'[writer[g].on])
          BY <1>8, <4>1, <4>2, <4>3
        <5>2. Len(lineage'[writer[g].on]) \in Nat
          BY <1>8, <4>3
        <5> QED
          BY <3>1, <4>1, <5>1, <5>2 DEF ShownTo
      <4>4. CASE writer[g].on # l
        <5>1. lineage'[writer[g].on] = lineage[writer[g].on]
          BY <1>7, <4>1, <4>4
        <5> QED
          BY <3>1, <3>2, <3>4, <5>1 DEF ShownTo, Active, Latest
      <4> QED
        BY <4>3, <4>4
    <3> QED
      BY <3>3, <3>4
  <2> QED
    BY <2>1, <2>2
<1>12. Promise!Next
  <2>1. CASE w.state = "active"
    <3>1. e = [state |-> "active", terms |-> w.terms, shown |-> Len(lineage[l])]
      BY <1>4, <2>1
    <3>2. Promise!Activate(l, w.terms)
      BY <1>4, <3>1 DEF Promise!Activate, Promise!Extend
    <3> QED
      BY <1>2, <3>2 DEF Promise!Next
  <2>2. CASE w.state = "withdrawn"
    <3>1. e = [state |-> "withdrawn", terms |-> w.terms, shown |-> Len(lineage[l])]
      BY <1>4, <2>2
    <3>2. Active(l) /\ w.terms \in {NoOne, Latest(l).terms}
      BY <1>1, <1>4, <2>2 DEF Shown, ShownTo
    <3>3. Promise!Withdraw(l, w.terms)
      BY <1>4, <3>1, <3>2 DEF Promise!Withdraw, Promise!InForce, Promise!Extend, Active, Latest
    <3> QED
      BY <1>2, <3>3 DEF Promise!Next
  <2> QED
    BY <1>2, <2>1, <2>2
<1> QED
  BY <1>9, <1>10, <1>11, <1>12

\* A lineage that stays has grown by nothing.
LEMMA GrowsByNothing ==
    ASSUME RevisionsTypeOK, lineage' = lineage
    PROVE  Grows
<1>1. \A l \in Lineage : Len(lineage[l]) \in Nat
  BY DEF RevisionsTypeOK
<1> QED
  BY <1>1 DEF Grows

\* The page shows the head, whatever it is by the time it is acted on.
LEMMA PreflightStep ==
    ASSUME NEW h \in Writer, NEW l \in Lineage, NEW s \in {"active", "withdrawn"},
           NEW t \in Terms \cup {NoOne}, RevisionsTypeOK, Shown, Preflight(h, l, s, t)
    PROVE  RevisionsTypeOK' /\ Shown' /\ lineage' = lineage
<1> DEFINE w == [at |-> "resolved", on |-> l, state |-> s, terms |-> t,
                 shown |-> Len(lineage[l])]
<1>1. /\ lineage' = lineage /\ unfit' = unfit
      /\ writer' = [writer EXCEPT ![h] = w]
  BY DEF Preflight
<1>2. /\ writer \in [Writer -> WriterState]
      /\ lineage \in [Lineage -> Seq(Revision)]
  BY DEF RevisionsTypeOK
<1>3. Len(lineage[l]) \in Nat
  BY <1>2
<1>4. w \in WriterState
  BY <1>3 DEF WriterState
<1>5. writer' \in [Writer -> WriterState]
  <2> HIDE DEF w
  <2> QED
    BY <1>1, <1>2, <1>4
<1>6. RevisionsTypeOK'
  BY <1>1, <1>5 DEF RevisionsTypeOK
<1>7. ASSUME NEW g \in Writer PROVE ShownTo(g)'
  <2>1. CASE g = h
    <3>1. writer'[g] = w
      BY <1>1, <1>2, <2>1
    <3>2. writer'[g].at = "resolved" /\ writer'[g].on = l /\ writer'[g].shown = Len(lineage[l])
      BY <3>1
    <3> QED
      BY <1>1, <1>3, <3>2 DEF ShownTo
  <2>2. CASE g # h
    <3>1. writer'[g] = writer[g]
      BY <1>1, <1>2, <2>2
    <3>2. ShownTo(g)
      BY DEF Shown
    <3> QED
      BY <1>1, <3>1, <3>2 DEF ShownTo, Active, Latest
  <2> QED
    BY <2>1, <2>2
<1> QED
  BY <1>1, <1>6, <1>7 DEF Shown

\* A transaction that leaves nothing leaves its writer idle.
LEMMA AbortStep ==
    ASSUME NEW h \in Writer, RevisionsTypeOK, Shown, Abort(h)
    PROVE  RevisionsTypeOK' /\ Shown' /\ lineage' = lineage
<1>1. lineage' = lineage /\ unfit' = unfit /\ writer' = [writer EXCEPT ![h] = NoWrite]
  BY DEF Abort
<1>2. writer \in [Writer -> WriterState]
  BY DEF RevisionsTypeOK
<1>3. writer' \in [Writer -> WriterState]
  BY <1>1, <1>2 DEF WriterState
<1>4. RevisionsTypeOK'
  BY <1>1, <1>3 DEF RevisionsTypeOK
<1>5. ASSUME NEW g \in Writer PROVE ShownTo(g)'
  <2>1. CASE g = h
    BY <1>1, <1>2, <2>1 DEF ShownTo
  <2>2. CASE g # h
    <3>1. writer'[g] = writer[g]
      BY <1>1, <1>2, <2>2
    <3>2. ShownTo(g)
      BY DEF Shown
    <3> QED
      BY <1>1, <3>1, <3>2 DEF ShownTo, Active, Latest
  <2> QED
    BY <2>1, <2>2
<1> QED
  BY <1>1, <1>4, <1>5 DEF Shown

\* Every operation on a lineage is a transition, the insert or nothing.
LEMMA WriterStepKeeps ==
    ASSUME NEW h \in Writer, RevisionsTypeOK, Shown, WriterStep(h)
    PROVE  RevisionsTypeOK' /\ Shown' /\ Grows /\ (Promise!Next \/ lineage' = lineage)
<1> DEFINE Kept == RevisionsTypeOK' /\ Shown' /\ lineage' = lineage
<1>1. Kept => Grows
  BY GrowsByNothing
<1>2. ASSUME writer[h] # NoWrite
      PROVE  writer[h].terms \in Terms \cup {NoOne}
  BY <1>2, WriterFields
<1>3. ASSUME writer[h].at = "resolved" PROVE writer[h].terms \in Terms \cup {NoOne}
  BY <1>2, <1>3 DEF NoWrite
<1>4. CASE ArmTenantExternalSend(h)
  <2>1. writer[h].terms \in Terms \cup {NoOne}
    BY <1>3, <1>4 DEF ArmTenantExternalSend, Transition
  <2>2. Kept
    BY <1>4, <2>1, TransitionShown DEF ArmTenantExternalSend
  <2> QED
    BY <1>1, <2>2
<1>5. CASE DisarmTenantExternalSend(h)
  <2>1. Kept
    BY <1>5, TransitionShown DEF DisarmTenantExternalSend
  <2> QED
    BY <1>1, <2>1
<1>6. CASE AuthorizeTenantMachineExecution(h)
  <2>1. writer[h].terms \in Terms \cup {NoOne}
    BY <1>3, <1>6 DEF AuthorizeTenantMachineExecution, Transition
  <2>2. Kept
    BY <1>6, <2>1, TransitionShown DEF AuthorizeTenantMachineExecution
  <2> QED
    BY <1>1, <2>2
<1>7. CASE WithdrawTenantMachineExecution(h)
  <2>1. Kept
    BY <1>7, TransitionShown DEF WithdrawTenantMachineExecution
  <2> QED
    BY <1>1, <2>1
<1>8. CASE AuthorizeTenantExternalAiDataUse(h)
  <2>1. writer[h].terms \in Terms \cup {NoOne}
    BY <1>3, <1>8 DEF AuthorizeTenantExternalAiDataUse, Transition
  <2>2. Kept
    BY <1>8, <2>1, TransitionShown DEF AuthorizeTenantExternalAiDataUse
  <2> QED
    BY <1>1, <2>2
<1>9. CASE WithdrawTenantExternalAiDataUse(h)
  <2>1. Kept
    BY <1>9, TransitionShown DEF WithdrawTenantExternalAiDataUse
  <2> QED
    BY <1>1, <2>1
<1>10. CASE AuthorizeStandingObservation(h)
  <2>1. writer[h].terms \in Terms \cup {NoOne}
    BY <1>3, <1>10 DEF AuthorizeStandingObservation, Transition
  <2>2. Kept
    BY <1>10, <2>1, TransitionShown DEF AuthorizeStandingObservation
  <2> QED
    BY <1>1, <2>2
<1>11. CASE WithdrawStandingObservation(h)
  <2>1. writer[h] # NoWrite /\ Active(writer[h].on)
    BY <1>11 DEF WithdrawStandingObservation, Transition, NoWrite
  <2>2. Latest(writer[h].on).terms \in Terms \cup {NoOne}
    BY <2>1, WriterFields, LatestIsRevision
  <2>3. Kept
    BY <1>11, <2>2, TransitionShown DEF WithdrawStandingObservation
  <2> QED
    BY <1>1, <2>3
<1>12. CASE EstablishAgentMandate(h)
  <2>1. writer[h].terms \in Terms \cup {NoOne}
    BY <1>3, <1>12 DEF EstablishAgentMandate, Transition
  <2>2. Kept
    BY <1>12, <2>1, TransitionShown DEF EstablishAgentMandate
  <2> QED
    BY <1>1, <2>2
<1>13. CASE InsertRevision(h)
  BY <1>13, InsertStep
<1>14. CASE Abort(h)
  BY <1>1, <1>14, AbortStep
<1> QED
  BY <1>4, <1>5, <1>6, <1>7, <1>8, <1>9, <1>10, <1>11, <1>12, <1>13, <1>14 DEF WriterStep

LEMMA RevisionsStep ==
    ASSUME RevisionsTypeOK, Shown, RevisionsNext
    PROVE  RevisionsTypeOK' /\ Shown' /\ Grows /\ (Promise!Next \/ lineage' = lineage)
<1>1. ASSUME NEW h \in Writer, NEW l \in Lineage, NEW s \in {"active", "withdrawn"},
             NEW t \in Terms \cup {NoOne}, Preflight(h, l, s, t)
      PROVE  RevisionsTypeOK' /\ Shown' /\ lineage' = lineage
  BY <1>1, PreflightStep
<1>2. ASSUME NEW t \in Perishable, WorldTurns(t)
      PROVE  RevisionsTypeOK' /\ Shown' /\ lineage' = lineage
  <2>1. lineage' = lineage /\ writer' = writer
    BY <1>2 DEF WorldTurns
  <2>2. unfit' \subseteq Perishable
    BY <1>2 DEF WorldTurns, RevisionsTypeOK
  <2>3. ASSUME NEW g \in Writer PROVE ShownTo(g)'
    BY <2>1 DEF Shown, ShownTo, Active, Latest
  <2> QED
    BY <2>1, <2>2, <2>3 DEF RevisionsTypeOK, Shown
<1> QED
  BY <1>1, <1>2, GrowsByNothing, WriterStepKeeps DEF RevisionsNext

\* Leaving the lineages and their writers alone keeps all of it.
LEMMA RevisionsStay ==
    ASSUME RevisionsTypeOK, Shown, UNCHANGED revisions
    PROVE  RevisionsTypeOK' /\ Shown' /\ Grows /\ lineage' = lineage
<1>1. lineage' = lineage /\ writer' = writer /\ unfit' = unfit
  BY DEF revisions
<1>2. ASSUME NEW g \in Writer PROVE ShownTo(g)'
  BY <1>1 DEF Shown, ShownTo, Active, Latest
<1> QED
  BY <1>1, <1>2, GrowsByNothing DEF RevisionsTypeOK, Shown

-----------------------------------------------------------------------------
(* The invocations *)

Busy(i) == ~At(i, "idle")

\* An invocation runs under a revision there is.
NamedBy(i) == Busy(i) => invoker[i].rev \in 1 .. Len(lineage[invoker[i].on])

\* An invocation that claimed its window keeps the interval from everything
\* recorded under its revision.
Apart(i) ==
    \A o \in MachineObservations(invoker[i].on) :
        o.under = invoker[i].rev =>
            \/ o.at + Interval(invoker[i].on, invoker[i].rev) <= invoker[i].instant
            \/ invoker[i].instant + Interval(invoker[i].on, invoker[i].rev) <= o.at

\* What an invocation missed is gone, and it has still to look at it.
MissedBy(i) ==
    missed[i] \subseteq
        IF At(i, "idle") THEN {} ELSE Ahead(i) \cap Gone(invoker[i].on, invoker[i].rev)

Named == \A i \in Invoker : NamedBy(i)
Recorded == \A o \in observation : o.under \in 0 .. Len(lineage[o.on])
Claims == \A i \in Invoker : At(i, "claimed") => Apart(i)
Missing == \A i \in Invoker : MissedBy(i)

\* One recording transaction at a time holds the row of a revision.
OneHolder ==
    \A i, j \in Invoker :
        i # j /\ InTransaction(i) /\ InTransaction(j) =>
            ~(invoker[i].on = invoker[j].on /\ invoker[i].rev = invoker[j].rev)

IInv ==
    /\ TypeOK
    /\ Shown
    /\ Named
    /\ Recorded
    /\ OneHolder
    /\ Claims
    /\ CadenceOfRevision
    /\ Missing

\* A busy invocation's record, field by field.
LEMMA InvokerFields ==
    ASSUME TypeOK, NEW i \in Invoker, Busy(i)
    PROVE  /\ invoker[i] \in [at : Points, on : Scope, rev : Nat \ {0}, instant : Nat]
           /\ invoker[i].at \in Points
           /\ invoker[i].on \in Scope
           /\ invoker[i].on \in Lineage
           /\ invoker[i].rev \in Nat \ {0}
           /\ invoker[i].instant \in Nat
BY DEF TypeOK, InvokerState, Busy, At, Idle, Scope

LEMMA LengthIsNatural ==
    ASSUME TypeOK, NEW l \in Lineage
    PROVE  Len(lineage[l]) \in Nat
BY DEF TypeOK, RevisionsTypeOK

LEMMA GoneIsSomething ==
    ASSUME NEW l, NEW r
    PROVE  Gone(l, r) \subseteq {"revision", "switch", "connection"}
BY DEF Gone

LEMMA InitHolds == Init => IInv
<1> SUFFICES ASSUME Init PROVE IInv
  OBVIOUS
<1>1. /\ lineage = [l \in Lineage |-> <<>>] /\ unfit = {}
      /\ writer = [h \in Writer |-> NoWrite]
      /\ observation = {} /\ clock = 0 /\ enabled = TRUE
      /\ invoker = [i \in Invoker |-> Idle] /\ missed = [i \in Invoker |-> {}]
  BY DEF Init, RevisionsInit
<1>2. RevisionsTypeOK
  <2>1. lineage \in [Lineage -> Seq(Revision)]
    BY <1>1
  <2>2. writer \in [Writer -> WriterState]
    BY <1>1 DEF WriterState
  <2> QED
    BY <1>1, <2>1, <2>2 DEF RevisionsTypeOK
<1>3. TypeOK
  <2>1. invoker \in [Invoker -> InvokerState]
    BY <1>1 DEF InvokerState
  <2>2. missed \in [Invoker -> SUBSET {"revision", "switch", "connection"}]
    BY <1>1
  <2>3. observation \in SUBSET Observation /\ clock \in Nat /\ enabled \in BOOLEAN
    BY <1>1
  <2> QED
    BY <1>2, <2>1, <2>2, <2>3 DEF TypeOK
<1>4. \A i \in Invoker : At(i, "idle")
  BY <1>1 DEF At, Idle
<1>5. \A i \in Invoker : missed[i] = {}
  BY <1>1
<1>6. Shown
  BY <1>1 DEF Shown, ShownTo
<1>7. Named /\ Missing
  BY <1>4, <1>5 DEF Named, NamedBy, Busy, Missing, MissedBy
<1>8. OneHolder /\ Claims
  BY <1>4 DEF OneHolder, InTransaction, Claims, At
<1>9. Recorded /\ CadenceOfRevision
  BY <1>1 DEF Recorded, CadenceOfRevision, MachineObservations
<1> QED
  BY <1>3, <1>6, <1>7, <1>8, <1>9 DEF IInv

\* A human's revision, a turn of the world or of the switch: past revisions
\* keep their terms, and what is taken away is noticed.
LEMMA WorldStep ==
    ASSUME IInv, RevisionsTypeOK', Shown', Grows, enabled' \in BOOLEAN,
           UNCHANGED machine, Noticed
    PROVE  IInv'
<1>1. observation' = observation /\ clock' = clock /\ invoker' = invoker
  BY DEF machine
<1>2. TypeOK /\ Named /\ Recorded /\ OneHolder /\ Claims /\ CadenceOfRevision /\ Missing
  BY DEF IInv
<1>3. \A l \in Lineage : /\ Len(lineage[l]) \in Nat /\ Len(lineage'[l]) \in Nat
                         /\ Len(lineage[l]) <= Len(lineage'[l])
  BY <1>2, LengthIsNatural DEF Grows, RevisionsTypeOK
<1>4. \A l \in Lineage : \A r \in 1 .. Len(lineage[l]) : Interval(l, r)' = Interval(l, r)
  BY DEF Grows, Interval, TermsAt
<1>5. \A i \in Invoker : At(i, "idle")' = At(i, "idle") /\ Ahead(i)' = Ahead(i)
  BY <1>1 DEF At, Ahead
<1>6. ASSUME NEW i \in Invoker, Busy(i)
      PROVE  /\ invoker[i].rev \in 1 .. Len(lineage[invoker[i].on])
             /\ invoker[i].rev \in 1 .. Len(lineage'[invoker[i].on])
             /\ invoker[i].on \in Lineage
             /\ Interval(invoker[i].on, invoker[i].rev)' = Interval(invoker[i].on, invoker[i].rev)
  <2>1. invoker[i].rev \in 1 .. Len(lineage[invoker[i].on]) /\ invoker[i].on \in Lineage
    BY <1>2, <1>6, InvokerFields DEF Named, NamedBy
  <2>2. invoker[i].rev \in 1 .. Len(lineage'[invoker[i].on])
    BY <1>3, <2>1
  <2>3. Interval(invoker[i].on, invoker[i].rev)' = Interval(invoker[i].on, invoker[i].rev)
    BY <1>1, <2>1 DEF Grows, Interval, TermsAt
  <2> QED
    BY <2>1, <2>2, <2>3
<1>7. TypeOK'
  <2>1. ASSUME NEW i \in Invoker
        PROVE  missed'[i] \in SUBSET {"revision", "switch", "connection"}
    <3>1. missed[i] \subseteq {"revision", "switch", "connection"}
      BY <1>2 DEF TypeOK
    <3>2. Ahead(i) \subseteq {"revision", "switch", "connection"}
      BY DEF Ahead
    <3> QED
      BY <3>1, <3>2 DEF Noticed
  <2>2. missed' \in [Invoker -> SUBSET {"revision", "switch", "connection"}]
    BY <2>1 DEF Noticed
  <2> QED
    BY <1>1, <1>2, <2>2 DEF TypeOK
<1>8. Named'
  <2>1. ASSUME NEW i \in Invoker PROVE NamedBy(i)'
    BY <1>1, <1>6 DEF NamedBy, Busy, At
  <2> QED
    BY <2>1 DEF Named
<1>9. Recorded'
  <2>1. ASSUME NEW o \in observation PROVE o.under \in 0 .. Len(lineage'[o.on])
    <3>1. o.on \in Lineage /\ o.under \in 0 .. Len(lineage[o.on])
      BY <1>2 DEF TypeOK, Observation, Scope, Recorded
    <3> QED
      BY <1>3, <3>1
  <2> QED
    BY <1>1, <2>1 DEF Recorded
<1>10. OneHolder'
  BY <1>1, <1>2 DEF OneHolder, InTransaction
<1>11. \A l : MachineObservations(l)' = MachineObservations(l)
  BY <1>1 DEF MachineObservations
<1>12. Claims'
  <2>1. ASSUME NEW i \in Invoker, At(i, "claimed") PROVE Apart(i)'
    <3>1. Apart(i) /\ Busy(i)
      BY <1>2, <2>1 DEF Claims, Busy, At
    <3> QED
      BY <1>1, <1>6, <3>1 DEF Apart, MachineObservations
  <2> QED
    BY <1>1, <2>1 DEF Claims, At
<1>13. CadenceOfRevision'
  <2> SUFFICES ASSUME NEW l \in Scope,
                      NEW o \in MachineObservations(l), NEW p \in MachineObservations(l),
                      o # p, o.under = p.under
               PROVE  Spaced(o, p, Interval(l, o.under)')
    BY <1>11 DEF CadenceOfRevision
  <2>1. Spaced(o, p, Interval(l, o.under))
    BY <1>2 DEF CadenceOfRevision
  <2>2. o.on = l /\ o.under \in 1 .. Len(lineage[l])
    <3>1. o \in observation /\ o.on = l /\ o.under # 0
      BY DEF MachineObservations
    <3>2. o.under \in 0 .. Len(lineage[l]) /\ l \in Lineage
      BY <1>2, <3>1 DEF Recorded, Scope
    <3> QED
      BY <1>3, <3>1, <3>2
  <2>3. Interval(l, o.under)' = Interval(l, o.under)
    BY <1>4, <2>2 DEF Scope
  <2> QED
    BY <2>1, <2>3
<1>14. Missing'
  <2>1. ASSUME NEW i \in Invoker PROVE MissedBy(i)'
    <3>1. MissedBy(i)
      BY <1>2 DEF Missing
    <3>2. missed'[i] = IF At(i, "idle") THEN {}
                       ELSE (missed[i] \cup Ahead(i)) \cap Gone(invoker[i].on, invoker[i].rev)'
      BY DEF Noticed
    <3> QED
      BY <1>5, <3>1, <3>2 DEF MissedBy
  <2> QED
    BY <2>1 DEF Missing
<1> QED
  BY <1>7, <1>8, <1>9, <1>10, <1>12, <1>13, <1>14 DEF IInv

\* A look, a lock or a claim by invocation i that goes on to point q: it leaves
\* everything else alone, and what it must have found is a hypothesis.
LEMMA AdvanceStep ==
    ASSUME IInv, NEW i \in Invoker, NEW p \in Points, NEW q \in Points, NEW ok,
           Advance(i, p, q, ok),
           q \in {"locked", "claimed"} => p = "locked" \/ ~AuthorizationLocked(i),
           q = "claimed" => Apart(i),
           missed[i] \subseteq Ahead(i)'
    PROVE  IInv'
<1>1. /\ TypeOK /\ Shown /\ Named /\ Recorded /\ OneHolder /\ Claims
      /\ CadenceOfRevision /\ Missing
  BY DEF IInv
<1>2. /\ invoker[i].at = p /\ invoker' = [invoker EXCEPT ![i].at = q]
      /\ observation' = observation /\ clock' = clock /\ enabled' = enabled
      /\ missed' = missed /\ UNCHANGED revisions
  BY DEF Advance, At
<1>3. p # "idle" /\ q # "idle"
  BY DEF Points
<1>4. Busy(i)
  BY <1>2, <1>3 DEF Busy, At
<1>5. invoker[i] \in [at : Points, on : Scope, rev : Nat \ {0}, instant : Nat]
  BY <1>1, <1>4, InvokerFields
<1>6. invoker \in [Invoker -> InvokerState]
  BY <1>1 DEF TypeOK
<1>7. /\ invoker'[i] = [invoker[i] EXCEPT !.at = q]
      /\ \A j \in Invoker \ {i} : invoker'[j] = invoker[j]
  BY <1>2, <1>6
<1>8. /\ invoker'[i].at = q /\ invoker'[i].on = invoker[i].on
      /\ invoker'[i].rev = invoker[i].rev /\ invoker'[i].instant = invoker[i].instant
      /\ invoker'[i] \in [at : Points, on : Scope, rev : Nat \ {0}, instant : Nat]
  BY <1>5, <1>7
<1>9. \A j \in Invoker : /\ invoker'[j].on = invoker[j].on
                         /\ invoker'[j].rev = invoker[j].rev
                         /\ invoker'[j].instant = invoker[j].instant
  BY <1>7, <1>8
<1>10. RevisionsTypeOK' /\ Shown' /\ lineage' = lineage /\ unfit' = unfit
  BY <1>1, <1>2, RevisionsStay DEF TypeOK, revisions
<1>11. TypeOK'
  <2>1. \A j \in Invoker : invoker'[j] \in InvokerState
    BY <1>6, <1>7, <1>8 DEF InvokerState
  <2>2. invoker' \in [Invoker -> InvokerState]
    BY <1>2, <1>6, <2>1
  <2> QED
    BY <1>1, <1>2, <1>10, <2>2 DEF TypeOK
<1>12. Named'
  <2>1. ASSUME NEW j \in Invoker PROVE NamedBy(j)'
    <3>1. NamedBy(j)
      BY <1>1 DEF Named
    <3>2. Busy(j)' => Busy(j)
      BY <1>4, <1>7 DEF Busy, At
    <3> QED
      BY <1>9, <1>10, <3>1, <3>2 DEF NamedBy
  <2> QED
    BY <2>1 DEF Named
<1>13. Recorded' /\ CadenceOfRevision'
  BY <1>1, <1>2, <1>10 DEF Recorded, CadenceOfRevision, MachineObservations, Interval, TermsAt
<1>14. ASSUME NEW j \in Invoker \ {i}, InTransaction(i)', InTransaction(j)'
       PROVE  ~(invoker[i].on = invoker[j].on /\ invoker[i].rev = invoker[j].rev)
  <2>1. InTransaction(j)
    BY <1>7, <1>14 DEF InTransaction
  <2>2. q \in {"locked", "claimed"}
    BY <1>8, <1>14 DEF InTransaction
  <2>3. CASE p = "locked"
    BY <1>1, <1>2, <2>1, <2>3 DEF OneHolder, InTransaction
  <2>4. CASE ~AuthorizationLocked(i)
    BY <2>1, <2>4 DEF AuthorizationLocked
  <2> QED
    BY <2>2, <2>3, <2>4
<1>15. OneHolder'
  <2> SUFFICES ASSUME NEW j \in Invoker, NEW k \in Invoker, j # k,
                      InTransaction(j)', InTransaction(k)'
               PROVE  ~(invoker[j].on = invoker[k].on /\ invoker[j].rev = invoker[k].rev)
    BY <1>9 DEF OneHolder
  <2>1. CASE j = i
    BY <1>14, <2>1
  <2>2. CASE k = i
    BY <1>14, <2>2
  <2>3. CASE j # i /\ k # i
    <3>1. InTransaction(j) /\ InTransaction(k)
      BY <1>7, <2>3 DEF InTransaction
    <3> QED
      BY <1>1, <3>1 DEF OneHolder
  <2> QED
    BY <2>1, <2>2, <2>3
<1>16. Claims'
  <2>1. ASSUME NEW j \in Invoker, At(j, "claimed")' PROVE Apart(j)'
    <3>1. Apart(j)
      <4>1. CASE j = i
        BY <1>8, <2>1, <4>1 DEF At
      <4>2. CASE j # i
        BY <1>1, <1>7, <2>1, <4>2 DEF Claims, At
      <4> QED
        BY <4>1, <4>2
    <3> QED
      BY <1>2, <1>9, <1>10, <3>1 DEF Apart, MachineObservations, Interval, TermsAt
  <2> QED
    BY <2>1 DEF Claims
<1>17. Missing'
  <2>1. ASSUME NEW j \in Invoker PROVE MissedBy(j)'
    <3>1. MissedBy(j)
      BY <1>1 DEF Missing
    <3>2. CASE j = i
      <4>1. missed'[i] \subseteq Gone(invoker[i].on, invoker[i].rev)
        BY <1>2, <1>4, <3>1, <3>2 DEF MissedBy, Busy
      <4>2. missed'[i] \subseteq Ahead(i)'
        BY <1>2
      <4>3. missed'[i] \subseteq Gone(invoker[i].on, invoker[i].rev)'
        BY <1>2, <1>9, <1>10, <4>1 DEF Gone, Active, Latest, TermsAt
      <4>4. ~At(i, "idle")'
        BY <1>3, <1>8 DEF At
      <4> QED
        BY <3>2, <4>2, <4>3, <4>4 DEF MissedBy
    <3>3. CASE j # i
      <4>1. invoker'[j] = invoker[j]
        BY <1>7, <3>3
      <4> QED
        BY <1>2, <1>10, <3>1, <4>1 DEF MissedBy, At, Ahead, Gone, Active, Latest, TermsAt
    <3> QED
      BY <3>2, <3>3
  <2> QED
    BY <2>1 DEF Missing
<1> QED
  BY <1>10, <1>11, <1>12, <1>13, <1>15, <1>16, <1>17 DEF IInv

\* Where an advance leads, and what the invocation had missed before it.
LEMMA Advanced ==
    ASSUME IInv, NEW i \in Invoker, NEW p \in Points, NEW q \in Points, NEW ok,
           Advance(i, p, q, ok)
    PROVE  /\ invoker[i].at = p
           /\ invoker'[i].at = q
           /\ missed[i] \subseteq Ahead(i)
           /\ missed[i] \subseteq Gone(invoker[i].on, invoker[i].rev)
<1>1. invoker[i].at = p /\ invoker' = [invoker EXCEPT ![i].at = q]
  BY DEF Advance, At
<1>2. p # "idle"
  BY DEF Points
<1>3. TypeOK /\ MissedBy(i)
  BY DEF IInv, Missing
<1>4. Busy(i)
  BY <1>1, <1>2 DEF Busy, At
<1>5. invoker[i] \in [at : Points, on : Scope, rev : Nat \ {0}, instant : Nat]
  BY <1>3, <1>4, InvokerFields
<1>6. invoker \in [Invoker -> InvokerState]
  BY <1>3 DEF TypeOK
<1>7. invoker'[i] = [invoker[i] EXCEPT !.at = q]
  BY <1>1, <1>6
<1>8. invoker'[i].at = q
  BY <1>5, <1>7
<1> QED
  BY <1>1, <1>3, <1>4, <1>8 DEF MissedBy, Busy

LEMMA ScanStep ==
    ASSUME IInv, NEW i \in Invoker, ScanOne(i) \/ MintObservationPrincipal(i)
    PROVE  IInv'
<1>1. CASE ScanOne(i)
  <2>1. Advance(i, "listed", "named", Elapsed(i))
    BY <1>1 DEF ScanOne
  <2>2. "listed" \in Points /\ "named" \in Points
    BY DEF Points
  <2>3. invoker[i].at = "listed" /\ invoker'[i].at = "named" /\ missed[i] \subseteq Ahead(i)
    BY <2>1, <2>2, Advanced
  <2>4. missed[i] \subseteq Ahead(i)'
    BY <2>3 DEF Ahead
  <2> QED
    BY <2>1, <2>2, <2>4, AdvanceStep
<1>2. CASE MintObservationPrincipal(i)
  <2>1. Advance(i, "named", "minted", Effective(invoker[i].on, invoker[i].rev))
    BY <1>2 DEF MintObservationPrincipal
  <2>2. "named" \in Points /\ "minted" \in Points
    BY DEF Points
  <2>3. invoker[i].at = "named" /\ invoker'[i].at = "minted" /\ missed[i] \subseteq Ahead(i)
    BY <2>1, <2>2, Advanced
  <2>4. missed[i] \subseteq Ahead(i)'
    BY <2>3 DEF Ahead
  <2> QED
    BY <2>1, <2>2, <2>4, AdvanceStep
<1> QED
  BY <1>1, <1>2

\* Each look clears what it looks at.
LEMMA LookStep ==
    ASSUME IInv, NEW i \in Invoker,
           \/ RevalidateAuthorization(i) \/ ResolveObservationReadEnabled(i)
           \/ RevalidateConnection(i) \/ RevalidateCadence(i)
    PROVE  IInv'
<1> DEFINE l == invoker[i].on
           r == invoker[i].rev
<1>1. CASE RevalidateAuthorization(i)
  <2>1. Advance(i, "minted", "standing", Effective(l, r))
    BY <1>1 DEF RevalidateAuthorization
  <2>2. "minted" \in Points /\ "standing" \in Points
    BY DEF Points
  <2>3. /\ invoker[i].at = "minted" /\ invoker'[i].at = "standing"
        /\ missed[i] \subseteq Ahead(i) /\ missed[i] \subseteq Gone(l, r)
    BY <2>1, <2>2, Advanced
  <2>4. "revision" \notin Gone(l, r)
    BY <2>1 DEF Advance, Effective, Gone
  <2>5. missed[i] \subseteq Ahead(i)'
    BY <2>3, <2>4 DEF Ahead
  <2> HIDE DEF l, r
  <2> QED
    BY <2>1, <2>2, <2>5, AdvanceStep
<1>2. CASE ResolveObservationReadEnabled(i)
  <2>1. Advance(i, "standing", "switched", enabled)
    BY <1>2 DEF ResolveObservationReadEnabled
  <2>2. "standing" \in Points /\ "switched" \in Points
    BY DEF Points
  <2>3. /\ invoker[i].at = "standing" /\ invoker'[i].at = "switched"
        /\ missed[i] \subseteq Ahead(i) /\ missed[i] \subseteq Gone(l, r)
    BY <2>1, <2>2, Advanced
  <2>4. "switch" \notin Gone(l, r)
    BY <2>1 DEF Advance, Gone
  <2>5. missed[i] \subseteq Ahead(i)'
    BY <2>3, <2>4 DEF Ahead
  <2> QED
    BY <2>1, <2>2, <2>5, AdvanceStep
<1>3. CASE RevalidateConnection(i)
  <2>1. Advance(i, "switched", "connected", TermsAt(l, r) \notin unfit)
    BY <1>3 DEF RevalidateConnection
  <2>2. "switched" \in Points /\ "connected" \in Points
    BY DEF Points
  <2>3. /\ invoker[i].at = "switched" /\ invoker'[i].at = "connected"
        /\ missed[i] \subseteq Ahead(i) /\ missed[i] \subseteq Gone(l, r)
    BY <2>1, <2>2, Advanced
  <2>4. "connection" \notin Gone(l, r)
    BY <2>1 DEF Advance, Gone
  <2>5. missed[i] \subseteq Ahead(i)'
    BY <2>3, <2>4 DEF Ahead
  <2> HIDE DEF l, r
  <2> QED
    BY <2>1, <2>2, <2>5, AdvanceStep
<1>4. CASE RevalidateCadence(i)
  <2>1. Advance(i, "connected", "cleared", Elapsed(i))
    BY <1>4 DEF RevalidateCadence
  <2>2. "connected" \in Points /\ "cleared" \in Points
    BY DEF Points
  <2>3. /\ invoker[i].at = "connected" /\ invoker'[i].at = "cleared"
        /\ missed[i] \subseteq Ahead(i)
    BY <2>1, <2>2, Advanced
  <2>4. missed[i] \subseteq Ahead(i)'
    BY <2>3 DEF Ahead
  <2> QED
    BY <2>1, <2>2, <2>4, AdvanceStep
<1> QED
  BY <1>1, <1>2, <1>3, <1>4

\* The row lock admits one holder, and the window is claimed as it stands.
LEMMA ClaimStep ==
    ASSUME IInv, NEW i \in Invoker, LockAuthorization(i) \/ ClaimWindow(i)
    PROVE  IInv'
<1>1. CASE LockAuthorization(i)
  <2>1. Advance(i, "observed", "locked", ~AuthorizationLocked(i))
    BY <1>1 DEF LockAuthorization
  <2>2. "observed" \in Points /\ "locked" \in Points
    BY DEF Points
  <2>3. /\ invoker[i].at = "observed" /\ invoker'[i].at = "locked"
        /\ missed[i] \subseteq Ahead(i)
    BY <2>1, <2>2, Advanced
  <2>4. missed[i] \subseteq Ahead(i)'
    BY <2>3 DEF Ahead
  <2>5. ~AuthorizationLocked(i)
    BY <2>1 DEF Advance
  <2> QED
    BY <2>1, <2>2, <2>4, <2>5, AdvanceStep
<1>2. CASE ClaimWindow(i)
  <2> DEFINE v == invoker[i]
             Free == WindowFree(v.on, v.instant, Interval(v.on, v.rev))
  <2>1. Advance(i, "locked", "claimed", Free)
    BY <1>2 DEF ClaimWindow
  <2>2. "locked" \in Points /\ "claimed" \in Points
    BY DEF Points
  <2>3. /\ invoker[i].at = "locked" /\ invoker'[i].at = "claimed"
        /\ missed[i] \subseteq Ahead(i)
    BY <2>1, <2>2, Advanced
  <2>4. missed[i] \subseteq Ahead(i)'
    BY <2>3 DEF Ahead
  <2>5. Free
    BY <2>1 DEF Advance
  <2>6. Apart(i)
    BY <2>5 DEF WindowFree, Apart
  <2> HIDE DEF Free
  <2> QED
    BY <2>1, <2>2, <2>4, <2>6, AdvanceStep
<1> QED
  BY <1>1, <1>2

\* An invocation that ends, with its row or without, frees what it held.
LEMMA ReturnStep ==
    ASSUME IInv, NEW i \in Invoker,
           invoker' = [invoker EXCEPT ![i] = Idle],
           missed' = [missed EXCEPT ![i] = {}],
           UNCHANGED <<revisions, clock, enabled>>,
           observation' \in SUBSET Observation, Recorded', CadenceOfRevision',
           \A j \in Invoker \ {i} : At(j, "claimed") => Apart(j)'
    PROVE  IInv'
<1>1. TypeOK /\ Shown /\ Named /\ OneHolder /\ Missing
  BY DEF IInv
<1>2. invoker \in [Invoker -> InvokerState]
  BY <1>1 DEF TypeOK
<1>3. missed \in [Invoker -> SUBSET {"revision", "switch", "connection"}]
  BY <1>1 DEF TypeOK
<1>4. /\ invoker'[i] = Idle /\ missed'[i] = {}
      /\ \A j \in Invoker \ {i} : invoker'[j] = invoker[j] /\ missed'[j] = missed[j]
  BY <1>2, <1>3
<1>5. /\ RevisionsTypeOK' /\ Shown' /\ lineage' = lineage /\ unfit' = unfit
      /\ clock' = clock /\ enabled' = enabled
  BY <1>1, RevisionsStay DEF TypeOK, revisions
<1>6. At(i, "idle")' /\ ~InTransaction(i)' /\ ~At(i, "claimed")'
  BY <1>4 DEF At, InTransaction, Idle
<1>7. TypeOK'
  <2>1. invoker' \in [Invoker -> InvokerState]
    BY <1>2 DEF InvokerState
  <2>2. missed' \in [Invoker -> SUBSET {"revision", "switch", "connection"}]
    BY <1>3
  <2> QED
    BY <1>1, <1>5, <2>1, <2>2 DEF TypeOK
<1>8. Named'
  <2>1. ASSUME NEW j \in Invoker PROVE NamedBy(j)'
    <3>1. NamedBy(j)
      BY <1>1 DEF Named
    <3>2. CASE j = i
      BY <1>6, <3>2 DEF NamedBy, Busy
    <3>3. CASE j # i
      BY <1>4, <1>5, <3>1, <3>3 DEF NamedBy, Busy, At
    <3> QED
      BY <3>2, <3>3
  <2> QED
    BY <2>1 DEF Named
<1>9. OneHolder'
  <2> SUFFICES ASSUME NEW j \in Invoker, NEW k \in Invoker, j # k,
                      InTransaction(j)', InTransaction(k)'
               PROVE  ~(invoker'[j].on = invoker'[k].on /\ invoker'[j].rev = invoker'[k].rev)
    BY DEF OneHolder
  <2>1. j # i /\ k # i
    BY <1>6
  <2>2. invoker'[j] = invoker[j] /\ invoker'[k] = invoker[k]
    BY <1>4, <2>1
  <2>3. InTransaction(j) /\ InTransaction(k)
    BY <2>2 DEF InTransaction
  <2> QED
    BY <1>1, <2>2, <2>3 DEF OneHolder
<1>10. Claims'
  <2>1. ASSUME NEW j \in Invoker, At(j, "claimed")' PROVE Apart(j)'
    <3>1. j # i
      BY <1>6, <2>1
    <3>2. At(j, "claimed")
      BY <1>4, <2>1, <3>1 DEF At
    <3> QED
      BY <3>1, <3>2
  <2> QED
    BY <2>1 DEF Claims
<1>11. Missing'
  <2>1. ASSUME NEW j \in Invoker PROVE MissedBy(j)'
    <3>1. MissedBy(j)
      BY <1>1 DEF Missing
    <3>2. CASE j = i
      BY <1>4, <3>2 DEF MissedBy
    <3>3. CASE j # i
      BY <1>4, <1>5, <3>1, <3>3 DEF MissedBy, At, Ahead, Gone, Active, Latest, TermsAt
    <3> QED
      BY <3>2, <3>3
  <2> QED
    BY <2>1 DEF Missing
<1> QED
  BY <1>5, <1>7, <1>8, <1>9, <1>10, <1>11 DEF IInv

LEMMA EndStep ==
    ASSUME IInv, NEW i \in Invoker, EndInvocation(i)
    PROVE  IInv'
<1>1. /\ invoker' = [invoker EXCEPT ![i] = Idle] /\ missed' = [missed EXCEPT ![i] = {}]
      /\ UNCHANGED <<revisions, clock, enabled>> /\ observation' = observation
      /\ lineage' = lineage
  BY DEF EndInvocation, revisions
<1>2. observation' \in SUBSET Observation
  BY <1>1 DEF IInv, TypeOK
<1>3. Recorded' /\ CadenceOfRevision'
  BY <1>1 DEF IInv, Recorded, CadenceOfRevision, MachineObservations, Interval, TermsAt
<1>4. ASSUME NEW j \in Invoker \ {i}, At(j, "claimed") PROVE Apart(j)'
  <2>1. invoker'[j] = invoker[j]
    BY <1>1 DEF IInv, TypeOK
  <2>2. Apart(j)
    BY <1>4 DEF IInv, Claims
  <2> QED
    BY <1>1, <2>1, <2>2 DEF Apart, MachineObservations, Interval, TermsAt
<1> QED
  BY <1>1, <1>2, <1>3, <1>4, ReturnStep

\* The row that is committed keeps the interval from all of its revision: the
\* claim was made while its writer alone held the row, and still does.
LEMMA CommitStep ==
    ASSUME IInv, NEW i \in Invoker, CommitObservation(i)
    PROVE  IInv'
<1> DEFINE v == invoker[i]
           e == [on |-> v.on, at |-> v.instant, under |-> v.rev]
<1>1. /\ TypeOK /\ Named /\ Recorded /\ OneHolder /\ Claims /\ CadenceOfRevision
  BY DEF IInv
<1>2. /\ At(i, "claimed") /\ observation' = observation \cup {e}
      /\ invoker' = [invoker EXCEPT ![i] = Idle] /\ missed' = [missed EXCEPT ![i] = {}]
      /\ UNCHANGED <<revisions, clock, enabled>> /\ lineage' = lineage
  BY DEF CommitObservation, revisions
<1>3. Busy(i)
  BY <1>2 DEF Busy, At
<1>4. /\ v.on \in Scope /\ v.on \in Lineage /\ v.rev \in Nat \ {0} /\ v.instant \in Nat
      /\ v.rev \in 1 .. Len(lineage[v.on])
  BY <1>1, <1>3, InvokerFields DEF Named, NamedBy
<1>5. e.on = v.on /\ e.at = v.instant /\ e.under = v.rev /\ e \in Observation
  BY <1>4 DEF Observation
<1> HIDE DEF e
<1>6. observation' \in SUBSET Observation
  BY <1>1, <1>2, <1>5 DEF TypeOK
<1>7. Len(lineage[v.on]) \in Nat
  BY <1>1, <1>4, LengthIsNatural
<1>8. Recorded'
  <2>1. e.under \in 0 .. Len(lineage[e.on])
    BY <1>4, <1>5, <1>7
  <2> QED
    BY <1>1, <1>2, <2>1 DEF Recorded
<1>9. Apart(i)
  BY <1>1, <1>2 DEF Claims
<1>10. \A l : \A o \in MachineObservations(l)' :
          o \in MachineObservations(l) \/ (o = e /\ l = v.on)
  BY <1>2, <1>5 DEF MachineObservations
<1>11. \A l, r : Interval(l, r)' = Interval(l, r)
  BY <1>2 DEF Interval, TermsAt
<1>12. CadenceOfRevision'
  <2> SUFFICES ASSUME NEW l \in Scope, NEW o \in MachineObservations(l)',
                      NEW p \in MachineObservations(l)', o # p, o.under = p.under
               PROVE  Spaced(o, p, Interval(l, o.under))
    BY <1>2 DEF CadenceOfRevision, Interval, TermsAt
  <2>1. CASE o \in MachineObservations(l) /\ p \in MachineObservations(l)
    BY <1>1, <2>1 DEF CadenceOfRevision
  <2>2. CASE o = e /\ p \in MachineObservations(l) /\ l = v.on
    BY <1>5, <1>9, <2>2 DEF Apart, Spaced
  <2>3. CASE p = e /\ o \in MachineObservations(l) /\ l = v.on
    BY <1>5, <1>9, <2>3 DEF Apart, Spaced
  <2> QED
    BY <1>10, <2>1, <2>2, <2>3
<1>13. ASSUME NEW j \in Invoker \ {i}, At(j, "claimed") PROVE Apart(j)'
  <2>1. invoker'[j] = invoker[j]
    BY <1>1, <1>2 DEF TypeOK
  <2>2. Apart(j)
    BY <1>1, <1>13 DEF Claims
  <2>3. ~(invoker[j].on = v.on /\ invoker[j].rev = v.rev)
    BY <1>1, <1>2, <1>13 DEF OneHolder, InTransaction, At
  <2>4. ASSUME NEW o \in MachineObservations(invoker[j].on)', o.under = invoker[j].rev
        PROVE  o \in MachineObservations(invoker[j].on)
    <3>1. o \in observation' /\ o.on = invoker[j].on /\ o.under # 0
      BY <2>1, <2>4 DEF MachineObservations
    <3>2. o # e
      BY <1>5, <2>3, <2>4, <3>1
    <3> QED
      BY <1>2, <3>1, <3>2 DEF MachineObservations
  <2> QED
    BY <1>2, <2>1, <2>2, <2>4 DEF Apart, Interval, TermsAt
<1> QED
  BY <1>2, <1>6, <1>8, <1>12, <1>13, ReturnStep

\* An invocation that begins, or that the provider answers, is put where it
\* holds nothing; everything else stays.
LEMMA PlaceStep ==
    ASSUME IInv, NEW i \in Invoker,
           NEW v \in [at : Points, on : Scope, rev : Nat \ {0}, instant : Nat],
           v.at \notin {"locked", "claimed"},
           v.rev \in 1 .. Len(lineage[v.on]),
           invoker' = [invoker EXCEPT ![i] = v],
           missed' \in [Invoker -> SUBSET {"revision", "switch", "connection"}],
           \A j \in Invoker \ {i} : missed'[j] = missed[j],
           MissedBy(i)',
           UNCHANGED <<revisions, observation, clock, enabled>>
    PROVE  IInv'
<1>1. /\ TypeOK /\ Shown /\ Named /\ Recorded /\ OneHolder /\ Claims
      /\ CadenceOfRevision /\ Missing
  BY DEF IInv
<1>2. invoker \in [Invoker -> InvokerState]
  BY <1>1 DEF TypeOK
<1>3. invoker'[i] = v /\ \A j \in Invoker \ {i} : invoker'[j] = invoker[j]
  BY <1>2
<1>4. /\ RevisionsTypeOK' /\ Shown' /\ lineage' = lineage /\ unfit' = unfit
      /\ observation' = observation /\ clock' = clock /\ enabled' = enabled
  BY <1>1, RevisionsStay DEF TypeOK, revisions
<1>5. TypeOK'
  <2>1. v \in InvokerState
    BY DEF InvokerState
  <2>2. invoker' \in [Invoker -> InvokerState]
    BY <1>2, <2>1
  <2> QED
    BY <1>1, <1>4, <2>2 DEF TypeOK
<1>6. ~InTransaction(i)' /\ ~At(i, "claimed")'
  BY <1>3 DEF InTransaction, At
<1>7. Named'
  <2>1. ASSUME NEW j \in Invoker PROVE NamedBy(j)'
    <3>1. NamedBy(j)
      BY <1>1 DEF Named
    <3>2. CASE j = i
      BY <1>3, <1>4, <3>2 DEF NamedBy
    <3>3. CASE j # i
      BY <1>3, <1>4, <3>1, <3>3 DEF NamedBy, Busy, At
    <3> QED
      BY <3>2, <3>3
  <2> QED
    BY <2>1 DEF Named
<1>8. OneHolder'
  <2> SUFFICES ASSUME NEW j \in Invoker, NEW k \in Invoker, j # k,
                      InTransaction(j)', InTransaction(k)'
               PROVE  ~(invoker'[j].on = invoker'[k].on /\ invoker'[j].rev = invoker'[k].rev)
    BY DEF OneHolder
  <2>1. j # i /\ k # i
    BY <1>6
  <2>2. invoker'[j] = invoker[j] /\ invoker'[k] = invoker[k]
    BY <1>3, <2>1
  <2>3. InTransaction(j) /\ InTransaction(k)
    BY <2>2 DEF InTransaction
  <2> QED
    BY <1>1, <2>2, <2>3 DEF OneHolder
<1>9. Claims'
  <2>1. ASSUME NEW j \in Invoker, At(j, "claimed")' PROVE Apart(j)'
    <3>1. j # i
      BY <1>6, <2>1
    <3>2. invoker'[j] = invoker[j]
      BY <1>3, <3>1
    <3>3. Apart(j)
      BY <1>1, <2>1, <3>2 DEF Claims, At
    <3> QED
      BY <1>4, <3>2, <3>3 DEF Apart, MachineObservations, Interval, TermsAt
  <2> QED
    BY <2>1 DEF Claims
<1>10. Recorded' /\ CadenceOfRevision'
  BY <1>1, <1>4 DEF Recorded, CadenceOfRevision, MachineObservations, Interval, TermsAt
<1>11. Missing'
  <2>1. ASSUME NEW j \in Invoker, j # i PROVE MissedBy(j)'
    <3>1. MissedBy(j) /\ invoker'[j] = invoker[j] /\ missed'[j] = missed[j]
      BY <1>1, <1>3, <2>1 DEF Missing
    <3> QED
      BY <1>4, <3>1 DEF MissedBy, At, Ahead, Gone, Active, Latest, TermsAt
  <2> QED
    BY <2>1 DEF Missing
<1> QED
  BY <1>4, <1>5, <1>7, <1>8, <1>9, <1>10, <1>11 DEF IInv

\* An invocation begins under the head, with all of its looks ahead.
LEMMA BeginStep ==
    ASSUME IInv, NEW i \in Invoker, NEW l \in Scope, NEW at \in {"listed", "named"},
           Begin(i, at, l)
    PROVE  IInv'
<1> DEFINE v == [at |-> at, on |-> l, rev |-> Len(lineage[l]), instant |-> 0]
<1>1. /\ invoker' = [invoker EXCEPT ![i] = v]
      /\ missed' = [missed EXCEPT ![i] = Gone(l, Len(lineage[l]))]
      /\ UNCHANGED <<revisions, observation, clock, enabled>>
      /\ lineage' = lineage /\ unfit' = unfit /\ enabled' = enabled
      /\ Active(l)
  BY DEF Begin, revisions
<1>2. TypeOK /\ l \in Lineage
  BY DEF IInv, Scope
<1>3. Len(lineage[l]) \in Nat \ {0}
  <2>1. lineage[l] \in Seq(Revision) /\ lineage[l] # <<>>
    BY <1>1, <1>2 DEF TypeOK, RevisionsTypeOK, Active
  <2> QED
    BY <2>1
<1>4. v \in [at : Points, on : Scope, rev : Nat \ {0}, instant : Nat]
  BY <1>3 DEF Points
<1>5. /\ v.at = at /\ v.on = l /\ v.rev = Len(lineage[l])
      /\ v.at \notin {"locked", "claimed"} /\ v.rev \in 1 .. Len(lineage[v.on])
  BY <1>3
<1>6. Gone(l, Len(lineage[l])) \subseteq {"revision", "switch", "connection"}
  BY GoneIsSomething
<1>7. /\ missed' \in [Invoker -> SUBSET {"revision", "switch", "connection"}]
      /\ missed'[i] = Gone(l, Len(lineage[l]))
      /\ \A j \in Invoker \ {i} : missed'[j] = missed[j]
  BY <1>1, <1>2, <1>6 DEF TypeOK
<1> HIDE DEF v
<1>8. invoker'[i] = v
  BY <1>1, <1>2 DEF TypeOK
<1>9. MissedBy(i)'
  <2>1. /\ ~At(i, "idle")'
        /\ Ahead(i)' = {"revision", "switch", "connection"}
    BY <1>5, <1>8 DEF At, Ahead
  <2>2. missed'[i] \subseteq Gone(invoker[i].on, invoker[i].rev)'
    BY <1>1, <1>5, <1>7, <1>8 DEF Gone, Active, Latest, TermsAt
  <2> QED
    BY <1>6, <1>7, <2>1, <2>2 DEF MissedBy
<1> QED
  BY <1>1, <1>4, <1>5, <1>7, <1>9, PlaceStep

\* An invocation cleared to read the provider has missed nothing.
LEMMA ClearedMissesNothing ==
    ASSUME IInv, NEW i \in Invoker, At(i, "cleared")
    PROVE  missed[i] = {}
<1>1. MissedBy(i)
  BY DEF IInv, Missing
<1>2. ~At(i, "idle") /\ Ahead(i) = {}
  BY DEF At, Ahead
<1> QED
  BY <1>1, <1>2 DEF MissedBy

\* The provider answers an invocation that missed nothing.
LEMMA ObserveStep ==
    ASSUME IInv, NEW i \in Invoker, ObserveAuthorizedSubject(i)
    PROVE  IInv'
<1> DEFINE v == [invoker[i] EXCEPT !.at = "observed", !.instant = clock]
<1>1. /\ At(i, "cleared")
      /\ invoker' = [invoker EXCEPT ![i].at = "observed", ![i].instant = clock]
      /\ missed' = missed
      /\ UNCHANGED <<revisions, observation, clock, enabled>>
  BY DEF ObserveAuthorizedSubject
<1>2. TypeOK /\ NamedBy(i) /\ Busy(i)
  BY <1>1 DEF IInv, Named, Busy, At
<1>3. /\ invoker[i] \in [at : Points, on : Scope, rev : Nat \ {0}, instant : Nat]
      /\ clock \in Nat
  BY <1>2, InvokerFields DEF TypeOK
<1>4. v \in [at : Points, on : Scope, rev : Nat \ {0}, instant : Nat]
  BY <1>3 DEF Points
<1>5. v.at = "observed" /\ v.on = invoker[i].on /\ v.rev = invoker[i].rev
  BY <1>3
<1>6. v.at \notin {"locked", "claimed"} /\ v.rev \in 1 .. Len(lineage[v.on])
  BY <1>2, <1>5 DEF NamedBy
<1>7. invoker' = [invoker EXCEPT ![i] = v] /\ invoker'[i] = v
  BY <1>1, <1>2 DEF TypeOK
<1> HIDE DEF v
<1>8. MissedBy(i)'
  <2>1. missed'[i] = {}
    BY <1>1, ClearedMissesNothing
  <2> QED
    BY <2>1 DEF MissedBy
<1>9. missed' \in [Invoker -> SUBSET {"revision", "switch", "connection"}]
  BY <1>1, <1>2 DEF TypeOK
<1> QED
  BY <1>1, <1>4, <1>6, <1>7, <1>8, <1>9, PlaceStep

\* A human's read adds nothing to what machines observed, and a tick nothing
\* to anything but the clock.
LEMMA AsideStep ==
    ASSUME IInv, clock' \in Nat, UNCHANGED <<revisions, enabled, invoker, missed>>,
           observation' \in SUBSET Observation, Recorded',
           \A l : MachineObservations(l)' = MachineObservations(l)
    PROVE  IInv'
<1>1. /\ TypeOK /\ Shown /\ Named /\ OneHolder /\ Claims /\ CadenceOfRevision /\ Missing
  BY DEF IInv
<1>2. /\ RevisionsTypeOK' /\ Shown' /\ lineage' = lineage /\ unfit' = unfit
      /\ enabled' = enabled /\ invoker' = invoker /\ missed' = missed
  BY <1>1, RevisionsStay DEF TypeOK, revisions
<1>3. TypeOK'
  BY <1>1, <1>2 DEF TypeOK
<1>4. Named' /\ OneHolder'
  BY <1>1, <1>2 DEF Named, NamedBy, Busy, At, OneHolder, InTransaction
<1>5. Claims'
  <2>1. ASSUME NEW j \in Invoker, At(j, "claimed") PROVE Apart(j)'
    <3>1. Apart(j)
      BY <1>1, <2>1 DEF Claims
    <3> QED
      BY <1>2, <3>1 DEF Apart, Interval, TermsAt
  <2> QED
    BY <1>2, <2>1 DEF Claims, At
<1>6. CadenceOfRevision'
  BY <1>1, <1>2 DEF CadenceOfRevision, Interval, TermsAt
<1>7. Missing'
  BY <1>1, <1>2 DEF Missing, MissedBy, At, Ahead, Gone, Active, Latest, TermsAt
<1> QED
  BY <1>2, <1>3, <1>4, <1>5, <1>6, <1>7 DEF IInv

LEMMA RecordStep ==
    ASSUME IInv, NEW l \in Scope, RecordProviderObservation(l)
    PROVE  IInv'
<1> DEFINE e == [on |-> l, at |-> clock, under |-> 0]
<1>1. /\ observation' = observation \cup {e} /\ clock' = clock /\ lineage' = lineage
      /\ UNCHANGED <<revisions, enabled, invoker, missed>>
  BY DEF RecordProviderObservation, revisions
<1>2. TypeOK /\ Recorded /\ clock \in Nat /\ l \in Lineage
  BY DEF IInv, TypeOK, Scope
<1>3. e \in Observation /\ e.on = l /\ e.under = 0
  BY <1>2 DEF Observation
<1> HIDE DEF e
<1>4. observation' \in SUBSET Observation
  BY <1>1, <1>2, <1>3 DEF TypeOK
<1>5. Recorded'
  <2>1. e.under \in 0 .. Len(lineage[e.on])
    BY <1>2, <1>3, LengthIsNatural
  <2> QED
    BY <1>1, <1>2, <2>1 DEF Recorded
<1>6. \A m : MachineObservations(m)' = MachineObservations(m)
  BY <1>1, <1>3 DEF MachineObservations
<1> QED
  BY <1>1, <1>2, <1>4, <1>5, <1>6, AsideStep

LEMMA TickStep ==
    ASSUME IInv, Tick
    PROVE  IInv'
<1>1. /\ clock' = clock + 1 /\ observation' = observation /\ lineage' = lineage
      /\ UNCHANGED <<revisions, enabled, invoker, missed>>
  BY DEF Tick, revisions
<1>2. clock' \in Nat /\ observation' \in SUBSET Observation
  BY <1>1 DEF IInv, TypeOK
<1>3. Recorded' /\ \A l : MachineObservations(l)' = MachineObservations(l)
  BY <1>1 DEF IInv, Recorded, MachineObservations
<1> QED
  BY <1>1, <1>2, <1>3, AsideStep

LEMMA NextStep == IInv /\ [Next]_vars => IInv'
<1> SUFFICES ASSUME IInv, [Next]_vars PROVE IInv'
  OBVIOUS
<1>1. RevisionsTypeOK /\ Shown /\ enabled \in BOOLEAN
  BY DEF IInv, TypeOK
<1>2. CASE Revise
  <2>1. RevisionsNext /\ UNCHANGED machine /\ enabled' = enabled /\ Noticed
    BY <1>2 DEF Revise, machine
  <2>2. RevisionsTypeOK' /\ Shown' /\ Grows
    BY <1>1, <2>1, RevisionsStep
  <2> QED
    BY <1>1, <2>1, <2>2, WorldStep
<1>3. CASE SwitchObservationRead
  <2>1. UNCHANGED revisions /\ UNCHANGED machine /\ enabled' = ~enabled /\ Noticed
    BY <1>3 DEF SwitchObservationRead, machine
  <2>2. RevisionsTypeOK' /\ Shown' /\ Grows
    BY <1>1, <2>1, RevisionsStay
  <2> QED
    BY <1>1, <2>1, <2>2, WorldStep
<1>4. CASE Tick
  BY <1>4, TickStep
<1>5. ASSUME NEW l \in Scope, RecordProviderObservation(l) PROVE IInv'
  BY <1>5, RecordStep
<1>6. ASSUME NEW i \in Invoker, Invoke(i) PROVE IInv'
  <2>1. ASSUME NEW l \in Scope,
               ListActiveStandingObservations(i, l) \/ NameAuthorization(i, l)
        PROVE  IInv'
    BY <2>1, BeginStep DEF ListActiveStandingObservations, NameAuthorization
  <2> QED
    BY <1>6, <2>1, ScanStep, LookStep, ObserveStep, ClaimStep, CommitStep, EndStep DEF Invoke
<1>7. CASE UNCHANGED vars
  <2>1. /\ UNCHANGED <<revisions, enabled, invoker, missed>> /\ clock' = clock
        /\ observation' = observation /\ lineage' = lineage
    BY <1>7 DEF vars, revisions
  <2>2. clock' \in Nat /\ observation' \in SUBSET Observation
    BY <2>1 DEF IInv, TypeOK
  <2>3. Recorded' /\ \A l : MachineObservations(l)' = MachineObservations(l)
    BY <2>1 DEF IInv, Recorded, MachineObservations
  <2> QED
    BY <2>1, <2>2, <2>3, AsideStep
<1> QED
  BY <1>2, <1>3, <1>4, <1>5, <1>6, <1>7 DEF Next

-----------------------------------------------------------------------------
(* The theorems *)

\* The inductive invariant holds of every reachable state, whatever the
\* lineages, the sessions, the invocations, the intervals and the bounds.
THEOREM Invariant == Spec => []IInv
BY InitHolds, NextStep, PTL DEF Spec

\* Every reachable state has its type.
THEOREM TypeCorrect == Spec => []TypeOK
<1>1. IInv => TypeOK
  BY DEF IInv
<1> QED
  BY <1>1, Invariant, PTL

\* The cadence ceiling of one revision: the lock on the row of the named
\* revision and the window claimed by the INSERT keep two observations made
\* under it an interval apart, however many invocations race.
THEOREM CadenceHolds == Spec => []CadenceOfRevision
<1>1. IInv => CadenceOfRevision
  BY DEF IInv
<1> QED
  BY <1>1, Invariant, PTL

\* No provider is read by an invocation that was still to look at something
\* already gone: the looks of runAuthorizedObservation leave nothing out.
THEOREM ReadsCurrent == Spec => ReadsAreCurrent
<1>1. IInv => [\A i \in Invoker :
                  At(i, "cleared") /\ invoker'[i].at = "observed" => missed[i] = {}]_vars
  BY ClearedMissesNothing
<1> QED
  BY <1>1, Invariant, PTL DEF ReadsAreCurrent

\* Every step of the lineages is one their promise allows.
LEMMA LineageStep == IInv /\ [Next]_vars => [Promise!Next]_lineage
<1> SUFFICES ASSUME IInv, [Next]_vars PROVE Promise!Next \/ lineage' = lineage
  OBVIOUS
<1>1. CASE Revise
  BY <1>1, RevisionsStep DEF Revise, IInv, TypeOK
<1>2. CASE SwitchObservationRead
  BY <1>2 DEF SwitchObservationRead, revisions
<1>3. CASE Tick
  BY <1>3 DEF Tick, revisions
<1>4. ASSUME NEW l \in Scope, RecordProviderObservation(l) PROVE lineage' = lineage
  BY <1>4 DEF RecordProviderObservation, revisions
<1>5. ASSUME NEW i \in Invoker, Invoke(i) PROVE lineage' = lineage
  BY <1>5 DEF Invoke, ListActiveStandingObservations, NameAuthorization, Begin, ScanOne,
     MintObservationPrincipal, RevalidateAuthorization, ResolveObservationReadEnabled,
     RevalidateConnection, RevalidateCadence, Advance, ObserveAuthorizedSubject,
     LockAuthorization, ClaimWindow, CommitObservation, EndInvocation, revisions
<1>6. CASE UNCHANGED vars
  BY <1>6 DEF vars
<1> QED
  BY <1>1, <1>2, <1>3, <1>4, <1>5, <1>6 DEF Next

\* The governed authorities implement the lineage they promise: an insert at
\* the ordinal after the one shown is the only step that adds to it, and the
\* unique index makes it refuse what a second writer never saw.
THEOREM LineageKept == Spec => KeepsLineage
<1>1. Init => Promise!Init
  BY DEF Init, RevisionsInit, Promise!Init
<1> QED
  BY <1>1, Invariant, LineageStep, PTL DEF Spec, KeepsLineage, Promise!Spec

History == INSTANCE RevisionLineage_proofs

\* The rows of the five authorities alone tell what happened: each revision
\* names the one its author was shown, which is the one before it, and each
\* withdrawal follows the revision it ended.
THEOREM RevisionsTell == Spec => []History!HistoryTells
<1>1. KeepsLineage => History!Spec
  BY DEF KeepsLineage, Promise!Spec, Promise!Init, Promise!Next, Promise!Activate,
         Promise!Withdraw, Promise!Extend, Promise!InForce, History!Spec, History!Init,
         History!Next, History!Activate, History!Withdraw, History!Extend, History!InForce
<1>2. History!Spec => []History!HistoryTells
  BY History!HistoryCanBeRead
<1> QED
  BY <1>1, <1>2, LineageKept, PTL

-----------------------------------------------------------------------------
(* Where the ceiling would hold of the whole scope                         *)
(*                                                                         *)
(* CadenceOfScope is said of the code and is not true of it.  Two          *)
(* recording transactions in one scope, under two revisions, hold two      *)
(* different row locks; that is the only way it fails.                     *)

\* One recording transaction at a time in a scope, as a lock on the scope
\* rather than on the revision would have it.
OneRecordsInScope ==
    \A i, j \in Invoker :
        InTransaction(i) /\ InTransaction(j) /\ invoker[i].on = invoker[j].on => i = j

\* What a transaction claimed is still free of every machine observation.
WindowsHold ==
    \A i \in Invoker : At(i, "claimed") =>
        WindowFree(invoker[i].on, invoker[i].instant, Interval(invoker[i].on, invoker[i].rev))

\* A revision, once written, keeps its interval.
LEMMA RevisionsLast ==
    ASSUME IInv, [Next]_vars
    PROVE  Grows
<1>1. CASE Revise
  BY <1>1, RevisionsStep DEF Revise, IInv, TypeOK
<1>2. CASE ~Revise
  <2>1. lineage' = lineage
    BY <1>2
       DEF Next, SwitchObservationRead, Tick, RecordProviderObservation, Invoke,
           ListActiveStandingObservations, NameAuthorization, Begin, ScanOne,
           MintObservationPrincipal, RevalidateAuthorization, ResolveObservationReadEnabled,
           RevalidateConnection, RevalidateCadence, Advance, ObserveAuthorizedSubject,
           LockAuthorization, ClaimWindow, CommitObservation, EndInvocation, revisions, vars
  <2> QED
    BY <2>1, GrowsByNothing DEF IInv, TypeOK
<1> QED
  BY <1>1, <1>2

\* Who claims a window, and who adds to what machines observed.
LEMMA InvokersMove ==
    ASSUME IInv, [Next]_vars, NEW j \in Invoker
    PROVE  \/ invoker'[j] = invoker[j]
           \/ invoker'[j].at # "claimed"
           \/ ClaimWindow(j) /\ invoker'[j] = [invoker[j] EXCEPT !.at = "claimed"]
<1>1. invoker \in [Invoker -> InvokerState]
  BY DEF IInv, TypeOK
<1>2. ASSUME NEW i \in Invoker, NEW p \in Points, NEW q \in Points \ {"claimed"}, NEW ok,
             Advance(i, p, q, ok)
      PROVE  invoker'[j] = invoker[j] \/ invoker'[j].at # "claimed"
  <2>1. invoker'[i].at = q
    BY <1>2, Advanced
  <2>2. j # i => invoker'[j] = invoker[j]
    BY <1>1, <1>2 DEF Advance
  <2> QED
    BY <1>2, <2>1, <2>2
<1>3. ASSUME NEW i \in Invoker, ClaimWindow(i)
      PROVE  \/ invoker'[j] = invoker[j]
             \/ ClaimWindow(j) /\ invoker'[j] = [invoker[j] EXCEPT !.at = "claimed"]
  BY <1>1, <1>3 DEF ClaimWindow, Advance
<1>4. ASSUME NEW i \in Invoker, NEW v, invoker' = [invoker EXCEPT ![i] = v], v.at # "claimed"
      PROVE  invoker'[j] = invoker[j] \/ invoker'[j].at # "claimed"
  BY <1>1, <1>4
<1>5. ASSUME NEW i \in Invoker, NEW l \in Scope, NEW at \in {"listed", "named"}, Begin(i, at, l)
      PROVE  invoker'[j] = invoker[j] \/ invoker'[j].at # "claimed"
  BY <1>4, <1>5 DEF Begin
<1>6. ASSUME NEW i \in Invoker, ObserveAuthorizedSubject(i)
      PROVE  invoker'[j] = invoker[j] \/ invoker'[j].at # "claimed"
  <2>1. At(i, "cleared") /\ invoker' = [invoker EXCEPT ![i].at = "observed", ![i].instant = clock]
    BY <1>6 DEF ObserveAuthorizedSubject
  <2>2. Busy(i)
    BY <2>1 DEF Busy, At
  <2>3. invoker[i] \in [at : Points, on : Scope, rev : Nat \ {0}, instant : Nat]
    BY <2>2, InvokerFields DEF IInv
  <2>4. invoker'[i].at = "observed"
    BY <1>1, <2>1, <2>3
  <2>5. j # i => invoker'[j] = invoker[j]
    BY <1>1, <2>1
  <2> QED
    BY <2>4, <2>5
<1>7. ASSUME NEW i \in Invoker, CommitObservation(i) \/ EndInvocation(i)
      PROVE  invoker'[j] = invoker[j] \/ invoker'[j].at # "claimed"
  <2>1. invoker' = [invoker EXCEPT ![i] = Idle]
    BY <1>7 DEF CommitObservation, EndInvocation
  <2>2. Idle.at # "claimed"
    BY DEF Idle
  <2> QED
    BY <1>4, <2>1, <2>2
<1>8. ASSUME NEW i \in Invoker, Invoke(i), ~ClaimWindow(i)
      PROVE  invoker'[j] = invoker[j] \/ invoker'[j].at # "claimed"
  <2>1. ASSUME NEW l \in Scope,
               ListActiveStandingObservations(i, l) \/ NameAuthorization(i, l)
        PROVE  invoker'[j] = invoker[j] \/ invoker'[j].at # "claimed"
    BY <1>5, <2>1 DEF ListActiveStandingObservations, NameAuthorization
  <2>2. ASSUME \/ ScanOne(i) \/ MintObservationPrincipal(i) \/ RevalidateAuthorization(i)
               \/ ResolveObservationReadEnabled(i) \/ RevalidateConnection(i)
               \/ RevalidateCadence(i) \/ LockAuthorization(i)
        PROVE  \E p \in Points, q \in Points \ {"claimed"}, ok \in BOOLEAN : Advance(i, p, q, ok)
    <3>1. ASSUME NEW p \in Points, NEW q \in Points \ {"claimed"}, NEW ok, Advance(i, p, q, ok)
          PROVE  Advance(i, p, q, TRUE)
      BY <3>1 DEF Advance
    <3>2. {"listed", "named", "minted", "standing", "switched", "connected", "cleared",
           "observed", "locked"} \subseteq Points \ {"claimed"}
      BY DEF Points
    <3> QED
      BY <2>2, <3>1, <3>2
         DEF ScanOne, MintObservationPrincipal, RevalidateAuthorization,
             ResolveObservationReadEnabled, RevalidateConnection, RevalidateCadence,
             LockAuthorization
  <2> QED
    BY <1>2, <1>6, <1>7, <1>8, <2>1, <2>2 DEF Invoke
<1>9. CASE ~\E i \in Invoker : Invoke(i)
  BY <1>9 DEF Next, Revise, SwitchObservationRead, Tick, RecordProviderObservation, machine, vars
<1> QED
  BY <1>3, <1>8, <1>9

LEMMA ObservationsMove ==
    ASSUME IInv, [Next]_vars, ~\E i \in Invoker : CommitObservation(i), NEW l
    PROVE  MachineObservations(l)' = MachineObservations(l)
<1>1. ASSUME NEW m \in Scope, RecordProviderObservation(m)
      PROVE  MachineObservations(l)' = MachineObservations(l)
  BY <1>1 DEF RecordProviderObservation, MachineObservations
<1>2. CASE ~\E m \in Scope : RecordProviderObservation(m)
  <2>1. observation' = observation
    BY <1>2
       DEF Next, Revise, SwitchObservationRead, Tick, Invoke, machine,
           ListActiveStandingObservations, NameAuthorization, Begin, ScanOne,
           MintObservationPrincipal, RevalidateAuthorization, ResolveObservationReadEnabled,
           RevalidateConnection, RevalidateCadence, Advance, ObserveAuthorizedSubject,
           LockAuthorization, ClaimWindow, EndInvocation, vars
  <2> QED
    BY <2>1 DEF MachineObservations
<1> QED
  BY <1>1, <1>2

LEMMA ScopeStep ==
    IInv /\ WindowsHold /\ CadenceOfScope /\ OneRecordsInScope /\ [Next]_vars
      => WindowsHold' /\ CadenceOfScope'
<1> SUFFICES ASSUME IInv, WindowsHold, CadenceOfScope, OneRecordsInScope, [Next]_vars
             PROVE  WindowsHold' /\ CadenceOfScope'
  OBVIOUS
<1>1. TypeOK /\ Named /\ Recorded
  BY DEF IInv
<1>2. \A l \in Scope : \A r \in 1 .. Len(lineage[l]) : Interval(l, r)' = Interval(l, r)
  BY RevisionsLast DEF Grows, Interval, TermsAt, Scope
<1>3. \A l \in Scope : \A o \in MachineObservations(l) : Interval(l, o.under)' = Interval(l, o.under)
  <2> SUFFICES ASSUME NEW l \in Scope, NEW o \in MachineObservations(l)
               PROVE  o.under \in 1 .. Len(lineage[l])
    BY <1>2
  <2>1. o \in Observation /\ o.under \in 0 .. Len(lineage[l]) /\ o.under # 0
    BY <1>1 DEF MachineObservations, Recorded, TypeOK
  <2>2. l \in Lineage
    BY DEF Scope
  <2>3. Len(lineage[l]) \in Nat
    BY <1>1, <2>2, LengthIsNatural
  <2> QED
    BY <2>1, <2>3
<1>4. ASSUME NEW i \in Invoker, CommitObservation(i)
      PROVE  WindowsHold' /\ CadenceOfScope'
  <2> DEFINE v == invoker[i]
             e == [on |-> v.on, at |-> v.instant, under |-> v.rev]
  <2>1. /\ At(i, "claimed") /\ observation' = observation \cup {e}
        /\ invoker' = [invoker EXCEPT ![i] = Idle] /\ lineage' = lineage
    BY <1>4 DEF CommitObservation, revisions
  <2>2. WindowFree(v.on, v.instant, Interval(v.on, v.rev))
    BY <2>1 DEF WindowsHold
  <2>3. e.on = v.on /\ e.at = v.instant /\ e.under = v.rev
    OBVIOUS
  <2> HIDE DEF e
  <2>4. \A l : \A o \in MachineObservations(l)' :
            o \in MachineObservations(l) \/ (o = e /\ l = v.on)
    BY <2>1, <2>3 DEF MachineObservations
  <2>5. CadenceOfScope'
    <3> SUFFICES ASSUME NEW l \in Scope, NEW o \in MachineObservations(l)',
                        NEW p \in MachineObservations(l)', o # p
                 PROVE  Spaced(o, p, Interval(l, o.under)) \/ Spaced(o, p, Interval(l, p.under))
      BY <2>1 DEF CadenceOfScope, Interval, TermsAt
    <3>1. CASE o \in MachineObservations(l) /\ p \in MachineObservations(l)
      BY <3>1 DEF CadenceOfScope
    <3>2. CASE o = e /\ p \in MachineObservations(l) /\ l = v.on
      BY <2>2, <2>3, <3>2 DEF WindowFree, Spaced
    <3>3. CASE p = e /\ o \in MachineObservations(l) /\ l = v.on
      BY <2>2, <2>3, <3>3 DEF WindowFree, Spaced
    <3> QED
      BY <2>4, <3>1, <3>2, <3>3
  <2>6. ASSUME NEW j \in Invoker, invoker'[j].at = "claimed"
        PROVE  WindowFree(invoker[j].on, invoker[j].instant,
                          Interval(invoker[j].on, invoker[j].rev))'
    <3>1. j # i /\ invoker'[j] = invoker[j]
      BY <1>1, <2>1, <2>6 DEF TypeOK, Idle
    <3>2. invoker[j].on # v.on
      BY <2>1, <2>6, <3>1 DEF OneRecordsInScope, InTransaction, At
    <3>3. \A o \in MachineObservations(invoker[j].on)' : o \in MachineObservations(invoker[j].on)
      BY <2>4, <3>1, <3>2
    <3>4. WindowFree(invoker[j].on, invoker[j].instant, Interval(invoker[j].on, invoker[j].rev))
      BY <2>6, <3>1 DEF WindowsHold, At
    <3> QED
      BY <2>1, <3>1, <3>3, <3>4 DEF WindowFree, Interval, TermsAt
  <2> QED
    BY <2>5, <2>6 DEF WindowsHold, At
<1>5. CASE ~\E i \in Invoker : CommitObservation(i)
  <2>1. \A l \in Scope : MachineObservations(l)' = MachineObservations(l)
    BY <1>5, ObservationsMove
  <2>2. CadenceOfScope'
    BY <1>3, <2>1 DEF CadenceOfScope
  <2>3. ASSUME NEW j \in Invoker, invoker'[j].at = "claimed"
        PROVE  WindowFree(invoker[j].on, invoker[j].instant,
                          Interval(invoker[j].on, invoker[j].rev))'
    <3> DEFINE v == invoker[j]
    <3>1. /\ invoker'[j].on = v.on /\ invoker'[j].instant = v.instant /\ invoker'[j].rev = v.rev
          /\ v.at \in {"locked", "claimed"}
          /\ WindowFree(v.on, v.instant, Interval(v.on, v.rev))
      <4>1. CASE invoker'[j] = invoker[j]
        BY <2>3, <4>1 DEF WindowsHold, At
      <4>2. CASE ClaimWindow(j) /\ invoker'[j] = [invoker[j] EXCEPT !.at = "claimed"]
        <5>1. At(j, "locked") /\ WindowFree(v.on, v.instant, Interval(v.on, v.rev))
          BY <4>2 DEF ClaimWindow, Advance
        <5>2. Busy(j)
          BY <5>1 DEF Busy, At
        <5>3. invoker[j] \in [at : Points, on : Scope, rev : Nat \ {0}, instant : Nat]
          BY <1>1, <5>2, InvokerFields
        <5> QED
          BY <4>2, <5>1, <5>3 DEF At
      <4> QED
        BY <2>3, <4>1, <4>2, InvokersMove
    <3>2. Busy(j)
      BY <3>1 DEF Busy, At
    <3>3. PICK l \in Scope, r \in 1 .. Len(lineage[v.on]) : l = v.on /\ r = v.rev
      BY <1>1, <3>2, InvokerFields DEF Named, NamedBy
    <3>4. Interval(l, r)' = Interval(l, r)
      BY <1>2, <3>3
    <3>5. MachineObservations(l)' = MachineObservations(l)
      BY <2>1
    <3> QED
      BY <3>1, <3>3, <3>4, <3>5 DEF WindowFree
  <2> QED
    BY <2>2, <2>3 DEF WindowsHold, At
<1> QED
  BY <1>4, <1>5

\* The cadence ceiling holds of a whole scope, if recording transactions in
\* one scope exclude each other: the lock on the revision's row, which two
\* revisions do not share, is all that is missing.
THEOREM CadenceOfScopeUnderOneLock == Spec /\ []OneRecordsInScope => []CadenceOfScope
<1>1. Init => WindowsHold /\ CadenceOfScope
  BY DEF Init, WindowsHold, CadenceOfScope, At, Idle, MachineObservations
<1> QED
  BY <1>1, ScopeStep, Invariant, PTL DEF Spec
=============================================================================
