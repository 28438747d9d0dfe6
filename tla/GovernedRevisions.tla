-------------------------- MODULE GovernedRevisions --------------------------
(***************************************************************************)
(* The append-only authorities of a tenant: arming external sends, letting *)
(* a machine execute a capability, using an external AI processor,         *)
(* observing a subject on a standing basis, and the mandate of an agent.   *)
(*                                                                         *)
(* A human is shown the head of a lineage and submits a transition; the    *)
(* Governance authority is resolved, then one transaction reads the head,  *)
(* compares it with what the human was shown, applies the rules of the     *)
(* kind and inserts the next ordinal.  Nothing is locked: a unique index   *)
(* on the ordinal refuses the slower of two writers, who does not retry.   *)
(***************************************************************************)
EXTENDS Naturals, Sequences, FiniteSets

CONSTANTS
    Lineage,       \* lineages: one per tenant, capability, scope or agent
    Kind,          \* the authority each lineage belongs to
    Terms,         \* connection and interval, attestation and scopes, or scope of a mandate
    TermsOf,       \* the terms a human may ask for in a lineage
    Perishable,    \* terms whose connection, attestation or agent may go
    Writer,        \* concurrent sessions of humans
    MaxRevisions,  \* bound on the revisions written, all lineages together
    NoOne

Kinds == {"external_send", "machine_execution", "data_use", "standing_observation", "mandate"}

ASSUME RevisionsAssumption ==
    /\ Kind \in [Lineage -> Kinds]
    /\ TermsOf \in [Lineage -> SUBSET Terms]
    /\ NoOne \notin Terms
    /\ Perishable \subseteq Terms
    /\ MaxRevisions \in Nat

VARIABLES
    lineage,   \* the revisions of each lineage, by ordinal
    unfit,     \* terms whose connection, attestation, agent or domain does not stand now
    writer     \* what each session is doing

revisions == <<lineage, unfit, writer>>

Revision == [state : {"active", "withdrawn"}, terms : Terms \cup {NoOne}, shown : Nat]

NoWrite == [at |-> "idle", on |-> NoOne, state |-> "active", terms |-> NoOne, shown |-> 0]

WriterState ==
    {NoWrite} \cup [at : {"resolved", "read"}, on : Lineage,
                    state : {"active", "withdrawn"}, terms : Terms \cup {NoOne}, shown : Nat]

RevisionsTypeOK ==
    /\ lineage \in [Lineage -> Seq(Revision)]
    /\ unfit \subseteq Perishable
    /\ writer \in [Writer -> WriterState]

RevisionsInit ==
    /\ lineage = [l \in Lineage |-> <<>>]
    /\ unfit = {}
    /\ writer = [h \in Writer |-> NoWrite]

-----------------------------------------------------------------------------
(* One write *)

Latest(l) == lineage[l][Len(lineage[l])]

\* The effective revision is the highest ordinal; it is in force when active.
Active(l) == lineage[l] # <<>> /\ Latest(l).state = "active"

Written == UNION {{l} \X (1 .. Len(lineage[l])) : l \in Lineage}

\* The page shows the head, the human submits a transition on it, and the
\* preflight passes: the human holds the authority, the input is well formed,
\* and the connection an observation would go through is resolved.
Preflight(h, l, s, t) ==
    /\ writer[h] = NoWrite
    /\ Cardinality(Written) < MaxRevisions
    /\ t \in IF s = "active" THEN TermsOf[l] ELSE {NoOne}
    /\ Kind[l] = "standing_observation" => t \notin unfit
    /\ Kind[l] = "mandate" => s = "active"
    /\ writer' = [writer EXCEPT ![h] =
           [at |-> "resolved", on |-> l, state |-> s, terms |-> t, shown |-> Len(lineage[l])]]
    /\ UNCHANGED <<lineage, unfit>>

\* The transaction has read the head and found what the human was shown.
Transition(h, k, s, t, ok) ==
    LET w == writer[h] IN
    /\ w.at = "resolved"
    /\ Kind[w.on] = k
    /\ w.state = s
    /\ w.shown = Len(lineage[w.on])
    /\ s = "withdrawn" => Active(w.on)
    /\ ok
    /\ writer' = [writer EXCEPT ![h].at = "read", ![h].terms = t]
    /\ UNCHANGED <<lineage, unfit>>

Unchanged(h) == Active(writer[h].on) /\ Latest(writer[h].on).terms = writer[h].terms

Standing(h) == Active(writer[h].on)

ArmTenantExternalSend(h) ==
    Transition(h, "external_send", "active", writer[h].terms, ~Standing(h))

DisarmTenantExternalSend(h) == Transition(h, "external_send", "withdrawn", NoOne, TRUE)

AuthorizeTenantMachineExecution(h) ==
    Transition(h, "machine_execution", "active", writer[h].terms, ~Standing(h))

WithdrawTenantMachineExecution(h) ==
    Transition(h, "machine_execution", "withdrawn", NoOne, TRUE)

\* The attestation named is the latest of its processor, active, and within
\* the platform's policy; the terms are not those in force.
AuthorizeTenantExternalAiDataUse(h) ==
    Transition(h, "data_use", "active", writer[h].terms,
               writer[h].terms \notin unfit /\ ~Unchanged(h))

WithdrawTenantExternalAiDataUse(h) == Transition(h, "data_use", "withdrawn", NoOne, TRUE)

AuthorizeStandingObservation(h) ==
    Transition(h, "standing_observation", "active", writer[h].terms, ~Unchanged(h))

\* Connection and interval are carried forward from the revision withdrawn.
WithdrawStandingObservation(h) ==
    Transition(h, "standing_observation", "withdrawn", Latest(writer[h].on).terms, TRUE)

\* The agent is in service, and the domains it is granted are active.
EstablishAgentMandate(h) ==
    Transition(h, "mandate", "active", writer[h].terms, writer[h].terms \notin unfit)

\* Mutant: a writer that lost the ordinal retries at the next one.
RetryAtHigherOrdinal(h) ==
    LET w == writer[h] IN
    /\ w.at = "read"
    /\ lineage' = [lineage EXCEPT ![w.on] =
           Append(@, [state |-> w.state, terms |-> w.terms, shown |-> w.shown])]
    /\ writer' = [writer EXCEPT ![h] = NoWrite]
    /\ UNCHANGED unfit

\* Mutant: the decision's word for a withdrawal is written as the state.
InsertAsRevoked(h) ==
    LET w == writer[h] IN
    /\ w.at = "read"
    /\ w.shown = Len(lineage[w.on])
    /\ lineage' = [lineage EXCEPT ![w.on] =
           Append(@, [state |-> IF w.state = "active" THEN "active" ELSE "revoked",
                      terms |-> w.terms, shown |-> w.shown])]
    /\ writer' = [writer EXCEPT ![h] = NoWrite]
    /\ UNCHANGED unfit

\* The decision and the revision are inserted at ordinal shown + 1 and
\* committed; the unique index refuses an ordinal that is taken.
InsertRevision(h) ==
    LET w == writer[h] IN
    /\ w.at = "read"
    /\ w.shown = Len(lineage[w.on])
    /\ lineage' = [lineage EXCEPT ![w.on] =
           Append(@, [state |-> w.state, terms |-> w.terms, shown |-> w.shown])]
    /\ writer' = [writer EXCEPT ![h] = NoWrite]
    /\ UNCHANGED unfit

\* A rule refuses, the index refuses, the database fails or the process dies:
\* the transaction leaves nothing.
Abort(h) ==
    /\ writer[h] # NoWrite
    /\ writer' = [writer EXCEPT ![h] = NoWrite]
    /\ UNCHANGED <<lineage, unfit>>

\* A connection is lost or healed, an attestation superseded, an agent
\* suspended, a domain retired: other authorities' doing.
WorldTurns(t) ==
    /\ unfit' = IF t \in unfit THEN unfit \ {t} ELSE unfit \cup {t}
    /\ UNCHANGED <<lineage, writer>>

WriterStep(h) ==
    \/ ArmTenantExternalSend(h)
    \/ DisarmTenantExternalSend(h)
    \/ AuthorizeTenantMachineExecution(h)
    \/ WithdrawTenantMachineExecution(h)
    \/ AuthorizeTenantExternalAiDataUse(h)
    \/ WithdrawTenantExternalAiDataUse(h)
    \/ AuthorizeStandingObservation(h)
    \/ WithdrawStandingObservation(h)
    \/ EstablishAgentMandate(h)
    \/ InsertRevision(h)
    \/ Abort(h)

RevisionsNext ==
    \/ \E h \in Writer, l \in Lineage, s \in {"active", "withdrawn"}, t \in Terms \cup {NoOne} :
           Preflight(h, l, s, t)
    \/ \E h \in Writer : WriterStep(h)
    \/ \E t \in Perishable : WorldTurns(t)

-----------------------------------------------------------------------------
(* Properties *)

\* Every lineage keeps RevisionLineage: of two humans who were shown one head
\* and submit, the slower is refused rather than stacked on what it never saw,
\* and no withdrawal withdraws what is not in force or changes its terms.
Promise == INSTANCE RevisionLineage

KeepsLineage == Promise!Spec
=============================================================================
