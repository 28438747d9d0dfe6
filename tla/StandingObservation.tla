-------------------------- MODULE StandingObservation --------------------------
(***************************************************************************)
(* Observing a provider under a standing authorization                     *)
(* (features/provider-observation-history, observation-trigger).  An       *)
(* invocation names one revision; it mints a principal from it, looks      *)
(* again at everything that may have been taken away, makes one provider   *)
(* read outside any transaction, and records it in a short transaction     *)
(* that locks the row of the revision it was named and claims the cadence  *)
(* window by the INSERT itself.  Scans and a person's ceremony may run at  *)
(* the same time, and humans revise the authorization as they please.      *)
(***************************************************************************)
EXTENDS GovernedRevisions

CONSTANTS
    Every,      \* interval_minutes of the terms of an observation
    Subject,    \* what a scope observes; two capabilities may share it
    Invoker,    \* concurrent scans and ceremonies
    MaxClock    \* bound on the instants told apart

Scope == {l \in Lineage : Kind[l] = "standing_observation"}

ASSUME ObservationAssumption ==
    /\ Every \in [Terms -> Nat]
    /\ Scope \subseteq DOMAIN Subject
    /\ NoOne \notin Scope
    /\ MaxClock \in Nat

VARIABLES
    observation,  \* recorded observations: scope, instant, revision (0: a human's read)
    clock,        \* Hebun's clock
    enabled,      \* the operator's observation switch
    invoker,      \* what each invocation is doing
    missed        \* history: what was taken away before an invocation's last
                  \* look at it, and is still gone

machine == <<observation, clock, invoker>>
vars == <<lineage, unfit, writer, observation, clock, enabled, invoker, missed>>

\* "listed" - a scan found the revision in the register; "named" - it is due,
\* or a person named it; "minted", "standing", "switched", "connected" - the
\* looks passed one by one; "cleared" - the cadence too; "observed" - the
\* provider answered; "locked", "claimed" - inside the recording transaction.
Idle == [at |-> "idle", on |-> NoOne, rev |-> 0, instant |-> 0]

Points == {"listed", "named", "minted", "standing", "switched", "connected",
           "cleared", "observed", "locked", "claimed"}

InvokerState == {Idle} \cup [at : Points, on : Scope, rev : Nat \ {0}, instant : Nat]

Observation == [on : Scope, at : Nat, under : Nat]

TypeOK ==
    /\ RevisionsTypeOK
    /\ observation \in SUBSET Observation
    /\ clock \in Nat
    /\ enabled \in BOOLEAN
    /\ invoker \in [Invoker -> InvokerState]
    /\ missed \in [Invoker -> SUBSET {"revision", "switch", "connection"}]

Init ==
    /\ RevisionsInit
    /\ observation = {}
    /\ clock = 0
    /\ enabled = TRUE
    /\ invoker = [i \in Invoker |-> Idle]
    /\ missed = [i \in Invoker |-> {}]

-----------------------------------------------------------------------------
(* What an invocation depends on *)

At(i, p) == invoker[i].at = p

\* Mutant: the named revision is judged by its own state alone.
NotWithdrawnItself(l, r) == r <= Len(lineage[l]) /\ lineage[l][r].state = "active"

\* The named revision is the head of its lineage, and active.
Effective(l, r) == r = Len(lineage[l]) /\ Active(l)

TermsAt(l, r) == lineage[l][r].terms

Interval(l, r) == Every[TermsAt(l, r)]

\* What is taken away from an invocation under revision r of l ...
Gone(l, r) ==
    (IF r = Len(lineage[l]) /\ Active(l) THEN {} ELSE {"revision"})
    \cup (IF enabled THEN {} ELSE {"switch"})
    \cup (IF TermsAt(l, r) \in unfit THEN {"connection"} ELSE {})

\* ... and what it has still to look at.
Ahead(i) ==
    CASE invoker[i].at \in {"listed", "named", "minted"} -> {"revision", "switch", "connection"}
      [] invoker[i].at = "standing" -> {"switch", "connection"}
      [] invoker[i].at = "switched" -> {"connection"}
      [] OTHER -> {}

\* A step of the world: what an invocation had missed, or can still see, is
\* remembered as long as it is gone.
Noticed ==
    missed' = [i \in Invoker |->
        IF At(i, "idle") THEN {}
        ELSE (missed[i] \cup Ahead(i)) \cap Gone(invoker[i].on, invoker[i].rev)']

\* The observations a machine made of a scope.
MachineObservations(l) == {o \in observation : o.on = l /\ o.under # 0}

-----------------------------------------------------------------------------
(* Beginning an invocation *)

\* Both kinds of caller choose among the effective revisions in force.
Begin(i, at, l) ==
    /\ At(i, "idle")
    /\ Active(l)
    /\ invoker' = [invoker EXCEPT ![i] =
           [at |-> at, on |-> l, rev |-> Len(lineage[l]), instant |-> 0]]
    /\ missed' = [missed EXCEPT ![i] = Gone(l, Len(lineage[l]))]
    /\ UNCHANGED <<revisions, observation, clock, enabled>>

Advance(i, from, to, ok) ==
    /\ At(i, from)
    /\ ok
    /\ invoker' = [invoker EXCEPT ![i].at = to]
    /\ UNCHANGED <<revisions, observation, clock, enabled, missed>>

Elapsed(i) ==
    \A o \in MachineObservations(invoker[i].on) :
        clock >= o.at + Interval(invoker[i].on, invoker[i].rev)

\* A scan lists them all ...
ListActiveStandingObservations(i, l) == Begin(i, "listed", l)

\* ... and goes through them: the last observation is an interval away.
ScanOne(i) == Advance(i, "listed", "named", Elapsed(i))

\* A person's ceremony shows one and waits for its confirmation.
NameAuthorization(i, l) == Begin(i, "named", l)

-----------------------------------------------------------------------------
(* The looks before the provider is read *)

MintObservationPrincipal(i) ==
    Advance(i, "named", "minted", Effective(invoker[i].on, invoker[i].rev))

\* revalidateStandingObservation mints again ...
RevalidateAuthorization(i) ==
    Advance(i, "minted", "standing", Effective(invoker[i].on, invoker[i].rev))

\* Mutant: the switch is left to the trigger.
SwitchUnread(i) == Advance(i, "standing", "switched", TRUE)

\* ... reads the operator's switch ...
ResolveObservationReadEnabled(i) == Advance(i, "standing", "switched", enabled)

\* ... the connection, its capability and its credential ...
RevalidateConnection(i) ==
    Advance(i, "switched", "connected", TermsAt(invoker[i].on, invoker[i].rev) \notin unfit)

\* ... and the latest observation a machine recorded.
RevalidateCadence(i) == Advance(i, "connected", "cleared", Elapsed(i))

\* The one provider read, at an instant of Hebun's clock.  A credential that
\* does not open by now fails it (EndInvocation).
ObserveAuthorizedSubject(i) ==
    /\ At(i, "cleared")
    /\ invoker' = [invoker EXCEPT ![i].at = "observed", ![i].instant = clock]
    /\ UNCHANGED <<revisions, observation, clock, enabled, missed>>

-----------------------------------------------------------------------------
(* Recording it *)

InTransaction(i) == invoker[i].at \in {"locked", "claimed"}

\* Mutant: the transaction locks no row.
NeverLocked(i) == FALSE

\* Another recording transaction holds the row of the same revision.
AuthorizationLocked(i) ==
    \E j \in Invoker \ {i} :
        InTransaction(j) /\ invoker[j].on = invoker[i].on /\ invoker[j].rev = invoker[i].rev

\* select ... for update
LockAuthorization(i) == Advance(i, "observed", "locked", ~AuthorizationLocked(i))

\* Mutant: only an earlier observation counts against the window.
OnlyEarlierObservations(l, t, n) ==
    \A o \in MachineObservations(l) : o.at > t \/ o.at + n <= t

\* No machine observation lies within n of t, on either side.
WindowFree(l, t, n) ==
    \A o \in MachineObservations(l) : o.at + n <= t \/ t + n <= o.at

\* insert ... where not exists: the window as the statement's snapshot shows it
ClaimWindow(i) ==
    LET v == invoker[i] IN
    Advance(i, "locked", "claimed", WindowFree(v.on, v.instant, Interval(v.on, v.rev)))

\* One row per subject and instant, whoever read it and with what capability.
InstantFree(l, t) == \A o \in observation : ~(Subject[o.on] = Subject[l] /\ o.at = t)

\* on conflict do nothing: of two rows in flight the index keeps the first.
CommitObservation(i) ==
    LET v == invoker[i] IN
    /\ At(i, "claimed")
    /\ InstantFree(v.on, v.instant)
    /\ observation' = observation \cup {[on |-> v.on, at |-> v.instant, under |-> v.rev]}
    /\ invoker' = [invoker EXCEPT ![i] = Idle]
    /\ missed' = [missed EXCEPT ![i] = {}]
    /\ UNCHANGED <<revisions, clock, enabled>>

\* A look fails, the provider does not answer, the window or the instant is
\* taken, the database fails or the process dies: nothing is recorded.
EndInvocation(i) ==
    /\ ~At(i, "idle")
    /\ invoker' = [invoker EXCEPT ![i] = Idle]
    /\ missed' = [missed EXCEPT ![i] = {}]
    /\ UNCHANGED <<revisions, observation, clock, enabled>>

\* A human read of the same subject never touches the authorization.
RecordProviderObservation(l) ==
    /\ InstantFree(l, clock)
    /\ observation' = observation \cup {[on |-> l, at |-> clock, under |-> 0]}
    /\ UNCHANGED <<revisions, clock, enabled, invoker, missed>>

-----------------------------------------------------------------------------

Revise == RevisionsNext /\ UNCHANGED <<machine, enabled>> /\ Noticed

SwitchObservationRead ==
    /\ enabled' = ~enabled
    /\ UNCHANGED <<revisions, machine>>
    /\ Noticed

Tick ==
    /\ clock < MaxClock
    /\ clock' = clock + 1
    /\ UNCHANGED <<revisions, observation, enabled, invoker, missed>>

Invoke(i) ==
    \/ \E l \in Scope :
         \/ ListActiveStandingObservations(i, l)
         \/ NameAuthorization(i, l)
    \/ ScanOne(i)
    \/ MintObservationPrincipal(i)
    \/ RevalidateAuthorization(i)
    \/ ResolveObservationReadEnabled(i)
    \/ RevalidateConnection(i)
    \/ RevalidateCadence(i)
    \/ ObserveAuthorizedSubject(i)
    \/ LockAuthorization(i)
    \/ ClaimWindow(i)
    \/ CommitObservation(i)
    \/ EndInvocation(i)

Next ==
    \/ Revise
    \/ SwitchObservationRead
    \/ Tick
    \/ \E l \in Scope : RecordProviderObservation(l)
    \/ \E i \in Invoker : Invoke(i)

Spec == Init /\ [][Next]_vars

-----------------------------------------------------------------------------
(* Properties *)

Spaced(o, p, n) == o.at + n <= p.at \/ p.at + n <= o.at

\* Two observations recorded under one revision lie at least its interval
\* apart, in whichever order two racing writers reach the row lock.
CadenceOfRevision ==
    \A l \in Scope : \A o, p \in MachineObservations(l) :
        o # p /\ o.under = p.under => Spaced(o, p, Interval(l, o.under))

\* No two machine observations of a scope lie within the ceiling of each
\* other, even taking the shorter interval of the revisions they were made
\* under (write-provider-observation.server.ts states it of the scope).
CadenceOfScope ==
    \A l \in Scope : \A o, p \in MachineObservations(l) :
        o # p => Spaced(o, p, Interval(l, o.under)) \/ Spaced(o, p, Interval(l, p.under))

\* A withdrawal, a newer revision, the operator's switch or a lost connection
\* that precedes an invocation's last look at it, and still stands, keeps the
\* provider from being read.
ReadsAreCurrent ==
    [][\A i \in Invoker : At(i, "cleared") /\ invoker'[i].at = "observed" => missed[i] = {}]_vars
=============================================================================
