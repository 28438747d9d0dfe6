# Verification of the governed action chain

This directory holds the TLA+ development for the dashboard's server side
(`apps/dashboard/src`): models of its authority and execution protocols, TLC runs over small
instances, and TLAPS proofs for every instance. Paths below are relative to
`apps/dashboard/src/features` unless they begin with `apps/` or `docs/`.

## 1. What the system is

A multi-tenant control plane in which humans and *durable agents* propose acts on the world (send
an e-mail, publish to Instagram or YouTube, record internal work). No act happens because it was
proposed. A human who holds the tenant's Governance authority approves it, which mints a single-use
permit for exactly that payload; an executor spends the permit, records an attempt and makes one
provider call; what the provider said is written down, including that it said nothing. An agent may
be suspended, reactivated or retired at any time, a human may arm or disarm the tenant's external
sending, the deployment has a control of its own, and for one kind of internal act a human may sign
a standing envelope under which permits are issued without a decision per act. Under a standing
observation a scan may read a provider on the tenant's behalf, at most once per interval. Who holds the
Governance authority, and who belongs to the tenant at all, is itself decided by recorded acts.

The server is a set of stateless request handlers (Next.js server actions and machine-triggered
scans) over PostgreSQL at READ COMMITTED. All coordination is in the database: row locks, guarded
updates (`UPDATE ... WHERE status = ...`), partial unique indexes and append-only revisions. Nothing
in the process survives a crash. What is hard is therefore what handlers read *outside* their
transactions or before a lock, what two transactions do to each other, and what is left behind when a
process dies next to a provider call.

## 2. Inventory

| Component | State it keeps | Operations | Interacts with | Hard behaviour | Correct when |
|---|---|---|---|---|---|
| Action requests and permits (`action-authorization`) | `heby_action_requests`, `action_permits` | propose (human, agent), approve, reject, revoke, spend (human, machine), expiry | agents (lock FOR SHARE), mandate (unlocked), Governance (resolved before the transaction) | races of decisions and spends; expiry while a spend runs | one open proposal per act and plan step; decided once; spent or revoked, once |
| Durable agent lifecycle (`agent-identity`) | `agents.agent_lifecycle_status`, `suspended_at`, `retired_at` | create, suspend, reactivate, retire | permits and envelopes (reactivation gate), every reader of liveness | serialization with approvals, spends and issuances | authority moves only in service; a reactivation restores none |
| External execution (`action-execution`) | `action_execution_attempts` | execute: pre-flight, spend with attempt, looks, call, record | permits, arming, deployment control, artifacts, provider | late provider effects, crashes, duplicate publications | every spend has an attempt; the ledger never overstates; stops hold |
| Tenant and deployment stops (`tenant-external-send-authority`, execution control) | arming revisions, control rows | arm, disarm; the control is written by scripts | executor reads both twice | read, then withdrawn | a stop seen at the last look keeps the bytes in |
| Standing mutation authority (`standing-mutation-authority`) | `standing_mutation_authorizations` (one lineage per agent) | sign, withdraw, issue | permits, agents, mandate, Governance | counts behind a lock; revision chosen before the lock | quota, cadence and evidence per envelope; no issue for an agent out of service |
| Scans (`standing-issuance-trigger`, `machine-delivery-trigger`) | none | offer candidates to the issuer, to the internal executor | issuance, machine spend | two ticks overlap | no more than the envelope gives |
| Governance authority (`governance-decision`, `governance-genesis`) | `decision_records`, one genesis nomination per tenant | nominate, accept, establish, delegate, revoke, decide, resolve | everything that decides | resolved unlocked, then relied upon; one mutex row per tenant | one genesis; the ledger justifies every authority; a revocation ends one |
| Agent mandate (`agent-mandate`) | mandate revisions | establish, revise, withdraw | proposals, spends, issuances | read unlocked; two humans revise one head | each revision replaces the one its human was shown |
| Observation and data-use authorities (`standing-observation-authority`, `external-ai-data-use`, `provider-observation-history`, `observation-trigger`) | revisions of the same shape; recorded observations | authorize, withdraw; list, mint, look, read, record | connections, the operator's switch, provider | withdrawn while an invocation runs; two invocations claim one window | reads are current; the interval is kept |
| Machine-execution authority (`tenant-machine-execution-authority`) | revisions of the same shape | authorize, withdraw | issuance, internal executor | stale head | as for mandates |
| AI dispatch cap (`ai-dispatch-cap`) | charging rows per UTC day | admit | every model call | count at the limit, day fixed before the lock | never above the cap in a day |
| Sessions and identities (`auth-runtime`, `identity-enrollment`) | session contexts, credentials | sign in, rotate, switch tenant, sign out | every handler's caller | concurrent switch and sign-out | one live session per lineage |
| Membership and onboarding (`membership-authority`, `human-onboarding`, `membership-lifecycle`) | `membership_authorizations`, `invitations`, `memberships` | authorize, invite, accept, withdraw, revoke | sessions, Governance (resolved before the transaction) | issue or accept twice, accept while revoked, two owners revoked at once | whoever belongs was let in once; endings are final; an owner remains |
| Integrations and credentials | connections, encrypted credentials | connect, bind, refresh, disconnect | provider calls | concurrent refresh and bind | a binding never changes account |
| Organization, work records, artifacts, media, knowledge | rows and revisions | guarded writes | publications name an artifact revision | lost update | revisions are append-only |
| Agent reasoning, Heby assistant | conversations, candidates | propose through the chain | language models | none durable of its own | proposes only what it was offered |
| Audit trail | audit rows | appended within the step they record | all of the above | - | same transaction |
| In-memory runtimes, dashboard, read models, scripts | none durable | - | - | - | - |

`PROJECT.json` lists the files of each component, its status, and under `hazards` each place where
something can go wrong that a test would hardly reach.

## 3. The modules

| Module | Models | Notes |
|---|---|---|
| `GovernedAct` | what the chain promises about one act | the abstract specification: propose, decline or authorize once, withdraw or spend once, perform at most once and only when spent |
| `ActionAuthorization` | `action-authorization`, `agent-identity` | every handler cut at its reads and row locks |
| `ActionExecution` | `action-execution`, the publication guard | spend, looks, call, late effects, crashes |
| `StandingMutation` | `standing-mutation-authority`, the envelope half of the reactivation gate | signing, withdrawing, issuing |
| `GovernanceAuthority` | `governance-decision`, `governance-genesis`: the genesis ceremony, delegation, revocation, ordinary decisions | who is authorized is a query over the ledger of decisions |
| `AuthorityRegister` | what governance promises about who governs | the third abstract specification: a register of one founder and, for every other holder, the human whose grant they hold |
| `TenantMembership` | `membership-authority`, `human-onboarding`, `membership-lifecycle` | permit, invitation, membership |
| `RevisionLineage` | what a governed authority promises about its history | the second abstract specification: a human replaces exactly the revision they were shown |
| `GovernedRevisions` | the five append-only authorities: external sending, machine execution, data use, standing observation, mandate | one writer protocol, one set of rules per kind |
| `StandingObservation` | `provider-observation-history`, `observation-trigger` | extends `GovernedRevisions` with the invocations that run under its revisions |
| `MC...` | instances for TLC | |
| `..._proofs` | theorems, proved with TLAPS | one module for each of the six components above that have runs, and `RevisionLineage_proofs` for what an abstract lineage implies |

The modules meet in three ways. `ActionAuthorization` and `ActionExecution` implement one abstract
specification, `GovernedAct`. `StandingObservation`, composed with the authority it runs under, and
`StandingMutation` implement another, `RevisionLineage`: six kinds of authority, two ways of writing them, one
promise. And what one module models in detail another may take as an environment that moves freely:
`MoveAuthority` in `ActionAuthorization` allows whatever `GovernanceAuthority` does, which is the theorem
`AuthorityMovesLikeTheEnvironment`; the stops of `ActionExecution` allow whatever an arming lineage does.
`GovernanceAuthority` implements `AuthorityRegister`, which says what its ledger amounts to.

### How code becomes actions

A handler is a record in a variable (`handler`, `executor`) that says where it stands. It is cut only
where another handler can interleave: between its unlocked reads and its transaction, at each row
lock it waits for, and around a provider call. What it does between two cuts is one action, with the
whole of the transaction's writes; a transaction that touches several rows but waits for none of them
after its first effect is one action. Locks are not variables: `PermitLocked`, `AgentShared`,
`RevisionLocked`, `EnvelopeLocked` read them off the handlers that hold them. A refusal and a crash
before the commit leave the rows as they were (`Refuse`, `Abort`, `Crash`).

What is left out everywhere: payloads and digests (a digest is a model value; the digest
re-verification can only fail on corrupted rows), audit rows (written in the same transaction as
the step), texts, refusal words, and other tenants - every query is bound to one tenant.

**ActionAuthorization.** `request`, `permit` and `expired` are the rows of one tenant; `expired` holds
the permits whose `expires_at` has passed on the database clock, and `asof` in a handler those that had
passed when its transaction began, because `now()` in PostgreSQL is the transaction's start.
`authority` is who `resolveGovernanceAuthority` answers for; it moves freely (`MoveAuthority`), since
decisions and spends resolve it before their transactions, and any human may hold it. A handler does not keep
its caller: after that first step the code only writes the caller down. `RecordActionRequest` and
`AdmitAgentProposal`/`RecordAgentOriginatedActionRequest` file; `BeginDecision`, `ApproveActionRequest`,
`RejectActionRequest` decide; `ConsumeActionPermit` and `ConsumeActionPermitAsMachine` open a spend, which
locks its permit (`SpendPermit`), then shares the agent and reads the mandate (`CheckContinuingAuthority`),
then commits (`CommitSpend`). `LockAgent` and the three transitions take the agent's row FOR UPDATE.
`era`, `issuedIn` and `spentIn` are history variables: the era of an agent is the number of its reactivations.

**ActionExecution.** Decisions and permits move in single steps here, their interleavings being the
subject of `ActionAuthorization`; both modules implement `GovernedAct`, which is how they are tied
together. An executor goes from `begun` through `spending` and `guarded` to `committed`, then through the
looks (`RereadTenantArming`, `RereadExecutionControl`, for a publication `RereadPackage` and `RereadMedia`, then
`RereadAgent`) to `Dispatch`, and records what it learned. A target stands on up to three facets, and each is
last looked at elsewhere: recipient and artifact (`"record"`) in the spend's transaction, the Content Package of a
publication after the commit and not in the transaction, its media in both. `WithdrawTarget` takes a facet
away at any time; `RestorePackage` gives readiness back, which is derived on every read, while a retirement is for
good. `CommitSpend` refuses at birth what has lost a facet it reads, and may refuse any publication: its connection
is judged there for the last time, and that answer is left open. Connections are no part of the state. `wire` is the provider's side: it may act on what it received after the executor
stopped waiting. `ledger` (spends in commit order) and `standing` (what was stopped, suspended or
withdrawn before an executor's last look at it and still is) are history variables.

**StandingMutation.** `envelope` is the lineage of revisions. An issuance reads its clock and its request
(`BeginIssuance`), shares the agent's row (`HoldAgent`), chooses the highest revision (`SeekEnvelope`),
obtains that revision's row lock and makes its counts (`LockEnvelope`), and issues (`IssuePermit`). Choosing
and locking are two steps because the query orders, limits and then waits: PostgreSQL re-reads the row it
waited for, it does not choose again. A revision that supersedes another references it, and the
foreign key waits for an issuance that holds it. The mandate, the tenant's machine-execution grant and the
root control are further conditions of an issuance that only refuse; they are part of `Abort`. A withdrawal
repeats the terms of the envelope it ends, and every revision names the one its author was shown.

**GovernanceAuthority.** `decisions` is the ledger, in the order its rows commit, and nothing else records
authority: `Authorized(d, u)` is the resolver's query, the genesis human or the holder of a delegation that
no later row revokes. Genesis goes from a nomination (an unlocked read and a guarded UPDATE) to
`EstablishGovernanceAuthority`, which a unique index and the nomination's guarded UPDATE keep to one. A
delegation or revocation locks the genesis row (`LockTenantGovernance`), resolves its author *behind* that
lock, checks its grantee or its target (`granted`, `ended`) and appends. An ordinary decision resolves its
author before the transaction and takes no lock. `RevokeMembership` is an environment here: losing a
membership makes a human unable to act and leaves the ledger alone. `Founder` and `Grantor` read the register of
`AuthorityRegister` off the ledger; no variable holds it.

**TenantMembership.** A permit is spent on an invitation, an invitation on a membership. Each `Begin...`
action is what a handler reads before its transaction; the transaction then asks again in the
predicate of a guarded UPDATE, and unique slots (one live permit and one pending invitation per human)
refuse what they must. `lapsed` holds the invitations past `expires_at`. A human has one membership row
for good, so a revoked member is not admitted again by a new row. `RevokeMembership` is cut in three -
`LockMembership`, `CountOtherOwners`, the UPDATE - because it locks its own row and counts others that it
does not lock.

**GovernedRevisions.** A writer is shown a head and resolves the Governance authority (`Preflight`), then its
transaction reads the head, compares it with the one shown, applies the rules of its kind (one action per
entry point: `ArmTenantExternalSend`, `WithdrawTenantMachineExecution`, `EstablishAgentMandate` and the
rest), and inserts at the next ordinal (`InsertRevision`), where a unique index refuses the slower of two.
Nothing is locked between the comparison and the insertion. `unfit` holds the terms whose connection,
attestation, agent or domain does not stand now, and `WorldTurns` moves it.

**StandingObservation.** An invocation begins at a revision that a scan listed (`listed`) or a person named
(`named`), then passes the looks in the code's order - the mint (`minted`), the revision (`standing`), the
switch (`switched`), the connection (`connected`), the cadence (`cleared`) - reads the provider outside any
transaction (`ObserveAuthorizedSubject`), and records: it locks the row of *its* revision (`LockAuthorization`),
looks for observations inside the interval in its snapshot (`ClaimWindow`) and inserts
(`CommitObservation`), where (subject, instant) is unique. A human's own read records without a claim.
`missed` is a history variable: what was taken away while the invocation had still to look at it.

## 4. The runs

| Run | Instance | Shows |
|---|---|---|
| `authorization` | one agent, one human, three requests: two of the agent's in one plan step, one that repeats a digest; two handlers | the unique indexes hold, an approval closes its plan step for good, authority moves only in service, no reactivation restores any, the chain keeps its promise |
| `handlers_end` | two humans between whom the authority moves, two requests, two handlers | under fairness no order of locks leaves two handlers waiting for each other |
| `republish` | three publications of one revision to one account, two executors, crashes | one in flight at a time, none in ignorance of the last |
| `stops` | two executions, one a publication; both stops, the publication's artifact and its package, suspension, crashes | every spend is recorded, the ledger never overstates, a stop holds, the chain keeps its promise |
| `attempts_settle` | two publications, the media of one perishable, no crashes | under fairness every attempt gets an outcome |
| `standing` | three proposals over two facts, two scans, three sets of bounds, two revisions, one reactivation | quota, cadence, evidence; nothing restored; grants in service; decided once; the lineage's promise |
| `authority_lifecycle` | three humans, two handlers, four decisions | one genesis, a ledger that justifies itself and implements the register, authority moves as decided, revocations bite, nobody decides who never governed |
| `membership_onboarding` | a founder and two humans, two permits, two invitations, two handlers | provenance of every member, nothing spent twice, endings are final |
| `observation` | one lineage of each kind, two writers, two invocations, intervals 2 and 3, two instants | the interval within a revision, currency of every provider read, the history of all five kinds |
| `evidence_reuse`, `membership_lockout`, `observation_window` | the smallest instances that tell | the three disagreements that open section 7 |

**Bounds and why they suffice.** Two handlers are enough for every race found or excluded here: each
property is about two transactions on common rows, and the environment (expiry, stops, provider,
lifecycle steps in `StandingMutation` and `ActionExecution`) takes further steps on its own. Three
requests give the cases "same digest", "same plan step" and neither; the republication run has three because
the acknowledged attempt, a later one and the one that acknowledges are three acts; so has `standing`, for two acts
under one fact and one under another. `Perishable` is empty in `republish`, whose guard no facet enters. In `stops` the
publication may lose its artifact, last read at the commit and gone for good, and its package, read only after the
commit and coming back: the two ends between which the media, read twice, lie; the theorem `StopsAreHonoured` is for
any assignment, the recipients of sends included. `MaxReactivations = 1` distinguishes before from after. `MaxClock`
bounds the executions begun, or the ticks: a window, a cadence and a later window need one tick or two, and an
interval of two or three instants is violated, or not, within two. `MaxRevision = 2` is a signature and
what supersedes it; `evidence_reuse` needs a third, the second signature. `MaxDecisions = 4` is genesis, a delegation, a
delegation or a revocation by its holder, and a decision that relied on it. Two permits and two invitations
give a human invited a second time after the first ended.

`observation` has a CONSTRAINT, `Apart`, because five lineages times two writers times two invocations is more
than the question needs. It explores all kinds with both writers while nothing is observed - lineages share
no row, so two writers of one lineage or of two is all there is; then, on the observed scope, one writer at a
time with either one invocation at a time, or both while the switch is on and the connection stands. Left out are
two writers on the scope *during* an invocation (each of whose effects is one insertion, which one writer
also makes) and two invocations around a lost connection (each looks for itself). The theorems of section
5 are free of all this.

**Symmetry** is used over handlers, writers and invocations; over humans in `authority_lifecycle`; over ids of
permits and invitations in `membership_onboarding`; over requests where the constants give them
equal roles; never in a run that checks liveness.

**Deadlock.** Checked where the environment never runs dry. `CHECK_DEADLOCK FALSE` is set in the runs of
`StandingMutation` and `TenantMembership` and in `republish`, where an instance really may stop: when every
request is decided or spent, every envelope withdrawn, every id used and the bounds exhausted, there is
nothing left to do.

**Fairness.** `FairSpec` asks strong fairness of a running handler's steps and nothing of anyone else: a
handler that was started is not abandoned by the event loop, PostgreSQL serves the queue of a row lock
in order (so a handler that waits for a lock that is released again and again does get it), and every
provider call has a timeout after which the executor records `unknown`. Nobody is assumed to propose,
decide, execute or withdraw anything. `attempts_settle` sets `Crashes = FALSE`: the code has no
reconciler, and an attempt whose process died stays pending, as
`docs/product-vision/runtime/hebun-r3b-first-executed-action.md` says itself. The database is assumed
reachable in that run for the same reason.

## 5. The proofs

Seven modules hold proofs: one for each component that has runs, and one for the abstract lineage. Everything in them
holds for every set of humans, agents, requests, rows, lineages, handlers and facts, from the assumption on the
constants that the component's module declares (`AuthorizationAssumption`, `ExecutionAssumption`,
`StandingAssumption`, `GovernanceAssumption`, `MembershipAssumption`, `RevisionsAssumption`, `ObservationAssumption`):
that null values are distinct from the rest, that the functions describing requests, lineages and terms are functions,
that bounds are numbers, that the founder is a human. `StandingMutation`'s also asks for finitely many proposals,
because acts are counted with `Cardinality`. The bounds on counters occur only as guards, so they hold for any bound.
Each module shows `TypeOK` inductive (`TypeCorrect`), then one inductive invariant `IInv`, one step per action, and
reads the theorems off it. TLC checked the theorems' properties first, on the instances of section 4. Every invariant,
every action property and every refinement that the passing runs check is a theorem; only the two liveness properties
are not.

**ActionAuthorization.** None of the safety properties is inductive: that an agent back in service holds no usable
permit depends on what the transactions in flight have read. `IInv` adds what their row locks guarantee. A spend that
has locked its permit keeps it active and is the only one that works on it (`SpendsHoldPermit`); a transition that
holds an agent's row excludes every other transition and every spend that shares the row (`TransitionsHoldAgent`); the
agent a spend has checked is therefore still in service when it commits (`CheckedInService`).

| Theorem | Says |
|---|---|
| `ReactivationLeavesNothing` | no usable permit from before a reactivation is left (`NothingRestored`) |
| `AuthorityServesInService` | permits are minted or spent only while their agent is in service (`AuthorityMovesInService`) |
| `ProposalsStayDistinct` | one open proposal per digest and per plan step (`OneOpenProposal`) |
| `ApprovedStepsClosed` | an approved proposal closes its plan step, whatever becomes of the permit (`ApprovedStepsStayClosed`) |
| `ChainKeepsPromise` | every step of the handlers is a step of `GovernedAct` or leaves its variables alone (`KeepsPromise`) |

**ActionExecution.** `IInv` says what an executor owns: before the commit the locked permit (`SpendsHoldPermit`),
after it an open attempt that nothing has left the process for until the call (`SendsOwnAttempt`). The publication
guard needs a second invariant, `LedgerInv`: the execution that holds a revision's lock is alone past the guard for
that revision (`GuardHoldsRevision`), what it found clear is still clear (`GuardStaysClear`), what a request
acknowledges started before any execution of it (`AckIsEarlier`), and of the attempts of one identity - revision and
account - only the last is open and each acknowledges one no earlier than any consequential attempt before it
(`LedgerShape`, `LedgerOrder`). `StandingIsTrue` ties the history variable `standing` to the rows it speaks of.

| Theorem | Says |
|---|---|
| `EverySpendRecorded` | a consumed permit has its attempt, and the reverse (`SpendIsRecorded`) |
| `LedgerIsHonest` | an outcome never denies what may have happened (`HonestOutcome`) |
| `NeverTwoInFlight` | one publication of a revision to an account is in flight at a time (`OneInFlight`) |
| `RepublishesKnowingly` | none goes out in ignorance of the last that may have (`NoBlindRepublish`) |
| `StopsAreHonoured` | a stop, a suspension or a withdrawal that stood at an execution's last look at it, and still does, keeps the bytes from the provider (`StopsHold`); for recipient and artifact that look is in the spend's transaction |
| `ExecutionKeepsPromise` | the executor implements `GovernedAct` (`KeepsPromise`) |

**StandingMutation.** An issuance decides on counts and writes later. `IInv` says that the counts are still true at
the write (`CountsHold`): its revision's lock has one holder (`OneCounts`), so nobody else issues under that revision
(`KeptElsewhere`); no other step changes a revision or an act under it (`KeptOtherwise`), because revisions are only
appended and a request that is still to be decided names none (`UnderKnown`). One more act that met the guard then
keeps quota, spacing and evidence (`IssueWithin`), and a new revision starts empty. `OfThisEra` is `NothingRestored`
without its condition on the service. For the refinement no more is needed than that an append follows a comparison,
in the same transaction, with the revision the human was shown (`LineageMoves`, `WriteExtends`).

| Theorem | Says |
|---|---|
| `BoundsHold` | quota, cadence and evidence hold for every revision (`EnvelopeBounds`) |
| `ReactivationRestoresNothing` | no permit and no open envelope from before a reactivation (`NothingRestored`) |
| `ServesInService` | no permit and no signature for an agent out of service (`GrantsInService`) |
| `DecidesOnce` | a proposal is decided once, by a human or by the envelope (`DecidedOnce`) |
| `LineageKept` | the envelope implements `RevisionLineage` (`KeepsLineage`) |
| `EnvelopesTell` | so its rows alone tell which envelope each withdrawal ended, and on what terms |

**GovernanceAuthority.** Authority is a query over a sequence, so the argument has two halves. The lemmas about a
ledger and one more row say how the query's answer changes with each kind of row. The invariant says why the row that
is appended is one it may be: the tenant's lock has one holder (`OneHolder`), and what the holder has checked is still
so (`ChecksHold`), because without the lock only a genesis or an ordinary decision is appended, of which the first is
impossible once there is one and the second moves nothing. `LedgerInv` is what a ledger built so looks like:
revocations name delegations, nobody holds two active ones, none precedes genesis.

For the refinement, `GrantorIs` and `FounderIs` turn the two `CHOOSE`s of the mapping into facts (a holder has one
active delegation, a tenant one genesis row), `AppendRegister` says what each kind of row does to the register, and
`RegisterStep` reads off that every committed request is one of its acts or none. `DecidersHeldAuthority` needs an
invariant about callers in flight, `DecidersWereAuthorized`: whoever is deciding was authorized by some beginning of
the ledger, and beginnings do not change when rows are appended (`BeginningsKept`). `FounderUngranted`, that no active
delegation is the founder's, is what keeps the founder's authority from being revoked.

| Theorem | Says |
|---|---|
| `GenesisOnce` | at most one genesis decision, the nominee's, who was nominated and accepted (`OneGenesis`) |
| `Justification` | each delegation and revocation is justified by the rows before it (`LedgerJustified`) |
| `AuthorityMoves` | authority moves one human at a time, as a row says (`AuthorityMovesAsDecided`) |
| `RevocationEnds` | after a revocation its target has no authority left (`RevocationsEndAuthority`) |
| `LedgerKeepsRegister` | the ledger implements `AuthorityRegister` (`KeepsRegister`) |
| `DecidersOnceHeldAuthority` | every decision is by a human who held authority at some moment before it (`DecidersHeldAuthority`) |
| `AuthorityMovesLikeTheEnvironment` | once founded, one human at a time gains or loses authority, never the founder |

**TenantMembership.** The three tables agree wherever they name each other (`PermitChain`, `InvitationPaid`,
`MembershipChain`, `InvitationUsed`). A handler relies on a read that may be stale (`RequestShape` keeps only what
cannot change: whose row it is, and its band), and the guarded UPDATE asks again for the rest. That two permits never
pay for one invitation, and two humans never use one, are parts of these conjuncts.

| Theorem | Says |
|---|---|
| `Admission` | whoever belongs was let in by one permit and one invitation that agree (`Provenance`) |
| `Spending` | no permit invites twice, no invitation admits twice (`SpentOnce`) |
| `Endings` | what was revoked stays so, and no member changes band (`EndingsAreFinal`) |

**StandingObservation.** For the lineages: a writer was shown no more than there is, and one about to withdraw the
head it was shown withdraws what is in force (`Shown`); insertion at the ordinal after the one shown then is a step of
`RevisionLineage`. For the cadence: an invocation that has claimed its window holds its revision's row (`OneHolder`),
every observation under the revision is outside the interval (`Claims`), and nobody else can add one; `Named` and
`Recorded` say that invocations and observations name revisions that exist, whose terms never change. `Missing` says
that what an invocation missed is gone and still ahead of it, so that none is left when it reads.

| Theorem | Says |
|---|---|
| `CadenceHolds` | the observations under one revision keep its interval (`CadenceOfRevision`) |
| `ReadsCurrent` | no provider read by an invocation that was still to look at something already gone (`ReadsAreCurrent`) |
| `LineageKept` | all five kinds implement `RevisionLineage` (`KeepsLineage`) |
| `RevisionsTell` | so their rows alone tell which revision each withdrawal ended |

**RevisionLineage.** `HistoryCanBeRead` is proved of the abstract specification alone: in every history that keeps the
promise each revision names the one before it, and each withdrawal stands right behind the revision it ended, with its
terms or none. `EnvelopesTell` and `RevisionsTell` carry it over to the six kinds of authority through their
refinements, with nothing proved twice.

**Where statements that do not hold would hold.** Section 7 lists statements of the repository that the code does not
keep. For each of them a theorem names a condition under which it is kept. The condition is met by every behaviour
without one particular race, it is not a condition on the constants, and the theorem's proof shows that nothing else
in the component can break the statement - which is what a repair has to know.

| Theorem | If | then |
|---|---|---|
| `OneFactOneActUnderOneEnvelope` | one envelope at most has been signed (`SignedOnce`) | one fact funds one act (`OneFactOneAct`) |
| `OwnerRemainsUnderOneRemoval` | one request at a time is between counting the owners and removing one (`OneRemovesAnOwner`) | an owner remains (`OwnerRemains`) |
| `CadenceOfScopeUnderOneLock` | one invocation at a time records in a scope (`OneRecordsInScope`) | the scope's observations keep the interval (`CadenceOfScope`) |
| `ReactivationRestoresNothingReChecked` | a spend asks again, once it has the agent's row, whether its permit has lapsed (`ChecksExpiryAgain`) | no permit from before a reactivation is spent after it (`ReactivationRestoresNoAuthority`) |
| `WithdrawalStopsWhatReReads` | the row an issuance locks is the highest revision when it gets it (`LocksWhatIsEffective`) | withdrawal stops issuance at once (`WithdrawalStopsIssuance`) |
| `DecisionsByAuthorityUncut` | no revocation commits while its target is deciding (`NobodyCutOff`) | every decision is by a human authorized as it commits (`DecisionsByAuthority`) |

Each has its own invariant beside `IInv`: what was counted or claimed is still so (`CountsHold`, `WindowsHold`), an
issuance that counts holds the highest revision (`HoldsTheEffective`), a caller who is deciding is still authorized
(`DecidersAuthorized`), permits are issued under revisions that grant (`UnderActive`), the permit of a spend that
shares the agent's row was issued since the last reactivation (`ChecksThisEra`). The lemmas that say which steps touch
a component's rows (`RequestsMove`, `ErasMove`, `OwnersMove`, `ObservationsMove`, `DecidersMove`, `HandlersMove`) keep
these arguments from going through every action again.

## 6. Only model-checked, and not modelled

Liveness (`HandlersEnd`, `AttemptsSettle`) stays with TLC: it rests on fairness and on ENABLED, neither of which the
provers handle. The three counterexamples of section 7 that have runs, and the three that have none, are TLC's as
well.

Assumptions worth knowing: attempts are dated by one monotone clock, while the code takes `started_at` from the
application host; the exemption that lets an identical digest pass the pending check is not modelled; a mandate
revision that commits between a spend's unlocked read and its commit is not seen by the spend, as the code says of
itself (`action-authorization/consume-action-permit.server.ts:235`), and the model has that window; an issuance judges
its window by a clock read before it waited, so it may issue just after the window closed, in the model as in the
code. A work artifact or a recipient retired after the spend has committed is read by nothing any more
(`execute-authorized-action.server.ts:833` is the last look of a publication): the act goes out, in the model as in the
code, and `StopsHold` does not say otherwise. The comment in `agent-identity/suspend-durable-agent-identity.server.ts:129` says that spends take no lock on
the agent; since `consume-action-permit` shares the row, they do, and the model follows the code.

Further assumptions: in `StandingObservation` one clock dates every observation, as the code reads Hebun's own, and
time is discrete; what an observation says is left out. In `GovernedRevisions` the human's Governance authority is
resolved before the transaction and may have gone since, so it is no condition of the insertion. In `TenantMembership`
a human is recognized by identity; matching an invitation's address to it, tokens and their digests are left out.

Not modelled at all:

- *AI dispatch cap.* Counted and charged under one advisory lock, in one step per dispatch; the day is fixed before
  the lock.
- *Sessions and identities.* Rotation, switching and sign-out on one lineage of session contexts; no modelled part
  reads its state.
- *Provider connections and credentials.* Binding a grant under the connection's lock, a refresh that takes the
  credential and then the connection, a disconnection that lists credentials once, account switching. The publishing
  call itself is the external half of `ActionExecution`.
- *The delivery scan and the internal executor.* They offer approved permits, one after another, to the machine's
  spend door, which is modelled.
- *Genesis of an agent's identity; the role baseline, sign-up and the slug of a tenant.* Single guarded inserts.
- *Organization and work records, artifacts' own revisions, media, knowledge.* Guarded updates of one row each; media
  polls a provider's job and would be worth a module.
- *Audit trail.* A row in the transaction of the step it records; one step of the model stands for both.
- *In-memory runtimes, dashboard, read models, scripts, provider adapters' payloads, assistant text.* These are by far
  the most of the repository's lines: rendering, projections, wording, adapters and single-threaded services on which
  no durable path depends. They hold no protocol state and will stay out, so the models, which cover the protocols,
  cover a small share of the lines.

## 7. Where the code and its documentation differ

Three statements of the repository are refuted by runs:

1. *Evidence* (`evidence_reuse`, `StandingMutation!OneFactOneAct`). "One organizational fact may fund one
   standing-authorized act, never several"
   (`standing-mutation-authority/issue-permit-under-standing-authorization.server.ts:134`). The check looks at the
   permits of the current revision; a withdrawal and a new signature start it over. Within one envelope it is a
   theorem.
2. *The last owner* (`membership_lockout`, `TenantMembership!OwnerRemains`). The other owners are counted "under the
   same lock, so two concurrent revocations cannot each observe the other's owner as still present and both succeed"
   (`membership-lifecycle/revoke-membership.server.ts:186`). The lock is on the revoked member's own row, and the
   count locks nothing: two owners revoked at the same time each find the other, both commit, and no owner is left. A
   lock that both take - the tenant's, say - would do.
3. *The window of a scope* (`observation_window`, `StandingObservation!CadenceOfScope`). "Two machine observations of
   one scope may not lie within the ceiling of each other"
   (`provider-observation-history/write-provider-observation.server.ts:336`). Writers serialize on the row of the
   revision they were minted under, while the window spans the scope. When the scope is authorized again between two
   invocations, they lock different rows, neither snapshot shows the other's row, and both commit. Within one revision
   the window is kept, which is a theorem; so it would be with a lock on the scope.

Three more statements are refuted by the models and stand as definitions in their modules, which a configuration may
name as an INVARIANT or a PROPERTY of the instances above. For each of the six, section 5 names a condition under
which it is a theorem.

4. *Reactivation* (`ActionAuthorization!ReactivationRestoresNoAuthority`). "Reactivation never silently restores
   execution authority granted before it." A spend whose update matched its permit before it expired, and which
   reaches its liveness check after the agent has been suspended, its permit has lapsed and it has been reactivated,
   commits. The gate sees no usable permit: the spend holds it. Asking again for the expiry behind the agent's lock
   would close it.
5. *Withdrawal* (`StandingMutation!WithdrawalStopsIssuance`). "withdrawal stops ISSUANCE immediately" (a test). An
   issuance that has chosen its envelope's row, and waits for it while the withdrawal commits, issues under the
   superseded revision. Reading the highest revision again behind the lock would close it.
6. *Authority at the commit* (`GovernanceAuthority!DecisionsByAuthority`). The resolver's comment says that a revoked
   delegation cannot be raced past (`governance-decision/authority-read.server.ts:116`). An ordinary decision resolves
   its author before its transaction; a delegation revoked between the two does not keep the decision from committing.
   Delegations and revocations themselves resolve behind the lock, and for them it is a theorem; of ordinary decisions
   what remains is `DecidersHeldAuthority`, which permits this race.

## 8. Plan

Done: the six components of section 3, their runs and their proofs, in this order: authorization, execution, standing
mutation; then the ledger of the Governance authority, the five lineages with one abstract specification, membership,
and observation composed with its lineage; then `StandingMutation` as another implementation of `RevisionLineage`, the
ledger as an implementation of `AuthorityRegister`, and the conditions under which the six statements of section 7
would hold. Next, in order:

1. `ProviderCredentials`: binding a grant under the connection's lock, the refresh that takes the credential and then
   the connection, a disconnection that lists credentials once, a switch of account. Worth stating: a binding never
   changes account, a disconnected connection leaves no usable credential; under fairness, that the two lock orders
   end.
2. `Sessions`: rotation, switching and sign-out; one live session per lineage, none after a sign-out.
3. `DispatchCap`: the advisory lock, the count, the day fixed before the lock; never above the cap in a day.
4. `MachineDelivery`: the delivery scan and the internal executor, composed with the machine spend.
5. Application clocks that disagree, in `ActionExecution`: what `started_at` from two hosts does to the latest
   attempt.

Nothing in this list has been checked yet, and its statements are intentions.
