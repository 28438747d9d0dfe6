---------------------- MODULE GovernanceAuthority_proofs ----------------------
(***************************************************************************)
(* Proofs about GovernanceAuthority, for every set of humans and requests. *)
(* Authority is a query over the ledger, so the argument is about what one *)
(* more row does to the query: first as lemmas about a ledger d and a row  *)
(* e, then as an invariant that holds because, behind the tenant's lock,   *)
(* no other row that could change the answer is appended.                  *)
(***************************************************************************)
EXTENDS GovernanceAuthority, SequenceTheorems, TLAPS

(***************************************************************************)
(* One more row                                                            *)
(***************************************************************************)

LEMMA AppendRows ==
  ASSUME NEW d \in Seq(Decision), NEW e \in Decision
  PROVE  /\ Append(d, e) \in Seq(Decision)
         /\ DOMAIN Append(d, e) = 1 .. Len(d) + 1
         /\ DOMAIN d = 1 .. Len(d)
         /\ \A i \in DOMAIN d : Append(d, e)[i] = d[i]
         /\ Append(d, e)[Len(d) + 1] = e
         /\ Len(Append(d, e)) = Len(d) + 1
         /\ \A k : Rows(Append(d, e), k) =
                     IF e.kind = k THEN Rows(d, k) \cup {Len(d) + 1} ELSE Rows(d, k)
         /\ \A k : Rows(d, k) \subseteq 1 .. Len(d)
<1> DEFINE d2 == Append(d, e)
<1>1. /\ d2 \in Seq(Decision)
      /\ Len(d2) = Len(d) + 1
      /\ \A i \in 1 .. Len(d) : d2[i] = d[i]
      /\ d2[Len(d) + 1] = e
  BY AppendProperties
<1>2. Len(d) \in Nat /\ DOMAIN d = 1 .. Len(d) /\ DOMAIN d2 = 1 .. Len(d2)
  BY <1>1
<1> HIDE DEF d2
<1>3. ASSUME NEW k
      PROVE  Rows(d2, k) = IF e.kind = k THEN Rows(d, k) \cup {Len(d) + 1} ELSE Rows(d, k)
  <2>1. ASSUME NEW i
        PROVE  i \in Rows(d2, k) <=>
                 i \in (IF e.kind = k THEN Rows(d, k) \cup {Len(d) + 1} ELSE Rows(d, k))
    <3>1. CASE i \in 1 .. Len(d)
      BY <1>1, <1>2, <3>1 DEF Rows
    <3>2. CASE i = Len(d) + 1
      BY <1>1, <1>2, <3>2 DEF Rows
    <3>3. CASE i \notin 1 .. Len(d) + 1
      BY <1>1, <1>2, <3>3 DEF Rows
    <3>4. QED
      BY <1>2, <3>1, <3>2, <3>3
  <2>2. QED
    BY <2>1
<1>4. \A k : Rows(d, k) \subseteq 1 .. Len(d)
  BY <1>2 DEF Rows
<1>5. DOMAIN d2 = 1 .. Len(d) + 1
  BY <1>1, <1>2
<1>6. QED
  BY <1>1, <1>2, <1>3, <1>4, <1>5 DEF d2

\* Revocations name delegations.
NamesDelegations(d) == \A r \in Rows(d, "revoke") : d[r].of \in Rows(d, "delegate")

LEMMA AppendGenesis ==
  ASSUME NEW d \in Seq(Decision), NEW e \in Decision, NEW u
  PROVE  Genesis(Append(d, e), u) <=> Genesis(d, u) \/ (e.kind = "genesis" /\ e.by = u)
<1>1. \A g \in Rows(d, "genesis") : Append(d, e)[g] = d[g]
  BY AppendRows
<1>2. CASE e.kind = "genesis"
  <2>1. Rows(Append(d, e), "genesis") = Rows(d, "genesis") \cup {Len(d) + 1}
    BY <1>2, AppendRows
  <2>2. Append(d, e)[Len(d) + 1] = e
    BY AppendRows
  <2>3. QED
    BY <1>1, <1>2, <2>1, <2>2 DEF Genesis
<1>3. CASE e.kind # "genesis"
  <2>1. Rows(Append(d, e), "genesis") = Rows(d, "genesis")
    BY <1>3, AppendRows
  <2>2. QED
    BY <1>1, <1>3, <2>1 DEF Genesis
<1>4. QED
  BY <1>2, <1>3

LEMMA AppendActive ==
  ASSUME NEW d \in Seq(Decision), NEW e \in Decision, NamesDelegations(d)
  PROVE  /\ e.kind \notin {"delegate", "revoke"} =>
              ActiveDelegations(Append(d, e)) = ActiveDelegations(d)
         /\ e.kind = "delegate" =>
              ActiveDelegations(Append(d, e)) = ActiveDelegations(d) \cup {Len(d) + 1}
         /\ e.kind = "revoke" =>
              ActiveDelegations(Append(d, e)) = ActiveDelegations(d) \ {e.of}
<1> DEFINE d2 == Append(d, e)  n == Len(d) + 1
<1>1. /\ \A i \in 1 .. Len(d) : d2[i] = d[i]
      /\ d2[n] = e
      /\ Len(d) \in Nat
      /\ \A k : Rows(d2, k) = IF e.kind = k THEN Rows(d, k) \cup {n} ELSE Rows(d, k)
      /\ \A k : Rows(d, k) \subseteq 1 .. Len(d)
  BY AppendRows
<1>2. n \notin 1 .. Len(d)
  BY <1>1
<1>3. \A r \in Rows(d, "revoke") : d2[r] = d[r] /\ d2[r].of # n
  BY <1>1, <1>2 DEF NamesDelegations
<1> HIDE DEF d2, n
<1>4. CASE e.kind \notin {"delegate", "revoke"}
  <2>1. Rows(d2, "delegate") = Rows(d, "delegate") /\ Rows(d2, "revoke") = Rows(d, "revoke")
    BY <1>1, <1>4
  <2>2. QED
    BY <1>3, <1>4, <2>1 DEF ActiveDelegations, d2
<1>5. CASE e.kind = "delegate"
  <2>1. Rows(d2, "delegate") = Rows(d, "delegate") \cup {n} /\ Rows(d2, "revoke") = Rows(d, "revoke")
    BY <1>1, <1>5
  <2>2. QED
    BY <1>3, <1>5, <2>1 DEF ActiveDelegations, d2, n
<1>6. CASE e.kind = "revoke"
  <2>1. Rows(d2, "delegate") = Rows(d, "delegate") /\ Rows(d2, "revoke") = Rows(d, "revoke") \cup {n}
    BY <1>1, <1>6
  <2>2. QED
    BY <1>1, <1>3, <1>6, <2>1 DEF ActiveDelegations, d2, n
<1>7. QED
  BY <1>4, <1>5, <1>6 DEF n, d2

\* A row's past does not change when rows are appended behind it.
LEMMA PastKept ==
  ASSUME NEW d \in Seq(Decision), NEW e \in Decision, NEW i \in DOMAIN Append(d, e)
  PROVE  /\ i \in DOMAIN d => SubSeq(Append(d, e), 1, i - 1) = SubSeq(d, 1, i - 1)
         /\ i = Len(d) + 1 => SubSeq(Append(d, e), 1, i - 1) = d
         /\ i \in DOMAIN d \/ i = Len(d) + 1
<1> DEFINE d2 == Append(d, e)  p2 == SubSeq(d2, 1, i - 1)  p == SubSeq(d, 1, i - 1)
<1>1. /\ d2 \in Seq(Decision) /\ DOMAIN d2 = 1 .. Len(d) + 1 /\ DOMAIN d = 1 .. Len(d)
      /\ \A j \in 1 .. Len(d) : d2[j] = d[j] /\ d[j] \in Decision
      /\ Len(d) \in Nat /\ i \in 1 .. Len(d) + 1
  BY AppendRows
<1>2. i - 1 \in Int /\ 1 \in Int /\ i - 1 <= Len(d)
  BY <1>1
<1> HIDE DEF d2
<1>3. \A j \in 1 .. (i - 1) : d2[j] = d[j] /\ d[j] \in Decision
  BY <1>1
<1>4. /\ p2 \in Seq(Decision)
      /\ Len(p2) = IF 1 <= i - 1 THEN (i - 1) - 1 + 1 ELSE 0
      /\ \A j \in 1 .. (i - 1) - 1 + 1 : p2[j] = d2[1 + j - 1]
  <2>1. \A j \in 1 .. (i - 1) : d2[j] \in Decision
    BY <1>3
  <2>2. QED
    BY <1>2, <2>1, SubSeqProperties
<1>5. /\ p \in Seq(Decision)
      /\ Len(p) = IF 1 <= i - 1 THEN (i - 1) - 1 + 1 ELSE 0
      /\ \A j \in 1 .. (i - 1) - 1 + 1 : p[j] = d[1 + j - 1]
  <2>1. \A j \in 1 .. (i - 1) : d[j] \in Decision
    BY <1>3
  <2>2. QED
    BY <1>2, <2>1, SubSeqProperties
<1>6. /\ Len(p2) = Len(p) /\ Len(p) = i - 1
      /\ \A j \in 1 .. Len(p2) : p2[j] = p[j]
  <2>1. i \in Nat /\ i >= 1
    BY <1>1
  <2>2. Len(p2) = i - 1 /\ Len(p) = i - 1
    BY <1>4, <1>5, <2>1
  <2>3. ASSUME NEW j \in 1 .. Len(p2) PROVE p2[j] = p[j]
    <3>1. j \in 1 .. (i - 1) /\ j \in 1 .. (i - 1) - 1 + 1 /\ 1 + j - 1 = j
      BY <2>1, <2>2
    <3>2. QED
      BY <1>3, <1>4, <1>5, <3>1
  <2>4. QED
    BY <2>2, <2>3
<1> HIDE DEF p, p2
<1>7. p2 = p
  BY <1>4, <1>5, <1>6, SeqEqual
<1>8. i = Len(d) + 1 => p = d
  BY <1>1, SubSeqFull DEF p
<1>9. QED
  BY <1>1, <1>7, <1>8 DEF p, p2, d2

(***************************************************************************)
(* What a well-formed ledger is, and that admissible rows keep it so       *)
(***************************************************************************)

OneGrantEach(d) ==
    \A i \in ActiveDelegations(d) :
        /\ ~Genesis(d, d[i].to)
        /\ \A j \in ActiveDelegations(d) : d[i].to = d[j].to => i = j

FoundedFirst(d) == Rows(d, "genesis") = {} => Rows(d, "delegate") = {}

LedgerInv(d) == NamesDelegations(d) /\ OneGrantEach(d) /\ FoundedFirst(d)

Admissible(d, e) ==
    /\ e \in Decision
    /\ e.kind = "genesis" => Rows(d, "genesis") = {}
    /\ e.kind = "delegate" => Rows(d, "genesis") # {}
    /\ Justified(d, e)

LEMMA NobodyBeforeGenesis ==
  ASSUME NEW d, FoundedFirst(d), Rows(d, "genesis") = {}, NEW u
  PROVE  ~Authorized(d, u) /\ ActiveDelegations(d) = {}
BY DEF FoundedFirst, Authorized, Genesis, HoldsDelegation, ActiveDelegations

\* What a row does to the query.
LEMMA AppendAuthority ==
  ASSUME NEW d \in Seq(Decision), NEW e, LedgerInv(d), Admissible(d, e), NEW u
  PROVE  /\ e.kind = "ordinary" => (Authorized(Append(d, e), u) <=> Authorized(d, u))
         /\ e.kind = "genesis" => (Authorized(Append(d, e), u) <=> u = e.by)
         /\ e.kind = "delegate" =>
              (Authorized(Append(d, e), u) <=> Authorized(d, u) \/ u = e.to)
         /\ e.kind = "revoke" =>
              (Authorized(Append(d, e), u) <=> Authorized(d, u) /\ u # d[e.of].to)
<1> DEFINE d2 == Append(d, e)
<1>1. e \in Decision /\ NamesDelegations(d) /\ OneGrantEach(d) /\ FoundedFirst(d)
  BY DEF Admissible, LedgerInv
<1>2. /\ \A i \in ActiveDelegations(d) : d2[i] = d[i] /\ i # Len(d) + 1
      /\ d2[Len(d) + 1] = e
  BY <1>1, AppendRows DEF ActiveDelegations
<1>3. Genesis(d2, u) <=> Genesis(d, u) \/ (e.kind = "genesis" /\ e.by = u)
  BY <1>1, AppendGenesis
<1> HIDE DEF d2
<1>4. CASE e.kind = "ordinary"
  <2>1. ActiveDelegations(d2) = ActiveDelegations(d)
    BY <1>1, <1>4, AppendActive DEF d2
  <2>2. QED
    BY <1>2, <1>3, <1>4, <2>1 DEF Authorized, HoldsDelegation, d2
<1>5. CASE e.kind = "genesis"
  <2>1. ActiveDelegations(d2) = ActiveDelegations(d)
    BY <1>1, <1>5, AppendActive DEF d2
  <2>2. ~Authorized(d, u) /\ ActiveDelegations(d) = {}
    BY <1>1, <1>5, NobodyBeforeGenesis DEF Admissible
  <2>3. QED
    BY <1>3, <1>5, <2>1, <2>2 DEF Authorized, HoldsDelegation, d2
<1>6. CASE e.kind = "delegate"
  <2>1. ActiveDelegations(d2) = ActiveDelegations(d) \cup {Len(d) + 1}
    BY <1>1, <1>6, AppendActive DEF d2
  <2>2. HoldsDelegation(d2, u) <=> HoldsDelegation(d, u) \/ e.to = u
    BY <1>2, <2>1 DEF HoldsDelegation
  <2>3. QED
    BY <1>3, <1>6, <2>2 DEF Authorized, d2
<1>7. CASE e.kind = "revoke"
  <2>1. ActiveDelegations(d2) = ActiveDelegations(d) \ {e.of}
    BY <1>1, <1>7, AppendActive DEF d2
  <2>2. e.of \in ActiveDelegations(d)
    BY <1>7 DEF Admissible, Justified
  <2>3. Genesis(d2, u) <=> Genesis(d, u)
    BY <1>3, <1>7
  <2>4. ~Genesis(d, d[e.of].to)
    BY <1>1, <2>2 DEF OneGrantEach
  <2>5. HoldsDelegation(d2, u) <=> HoldsDelegation(d, u) /\ u # d[e.of].to
    BY <1>1, <1>2, <2>1, <2>2 DEF HoldsDelegation, OneGrantEach
  <2>6. QED
    BY <1>7, <2>3, <2>4, <2>5 DEF Authorized, d2
<1>8. QED
  BY <1>1, <1>4, <1>5, <1>6, <1>7 DEF Decision, d2

LEMMA LedgerStep ==
  ASSUME NEW d \in Seq(Decision), NEW e, LedgerInv(d), Admissible(d, e)
  PROVE  LedgerInv(Append(d, e))
<1> DEFINE d2 == Append(d, e)  n == Len(d) + 1
<1>1. e \in Decision /\ NamesDelegations(d) /\ OneGrantEach(d) /\ FoundedFirst(d)
  BY DEF Admissible, LedgerInv
<1>2. /\ \A i \in 1 .. Len(d) : d2[i] = d[i]
      /\ d2[n] = e /\ n \notin 1 .. Len(d)
      /\ \A k : Rows(d2, k) = IF e.kind = k THEN Rows(d, k) \cup {n} ELSE Rows(d, k)
      /\ \A k : Rows(d, k) \subseteq 1 .. Len(d)
  <2>1. Len(d) \in Nat
    OBVIOUS
  <2>2. n \notin 1 .. Len(d)
    BY <2>1
  <2>3. QED
    BY <1>1, <2>2, AppendRows
<1>3. ActiveDelegations(d) \subseteq 1 .. Len(d) /\ ActiveDelegations(d) \subseteq Rows(d, "delegate")
  BY <1>2 DEF ActiveDelegations
<1>4. \A u : Genesis(d2, u) <=> Genesis(d, u) \/ (e.kind = "genesis" /\ e.by = u)
  BY <1>1, AppendGenesis
<1>5. /\ e.kind \notin {"delegate", "revoke"} => ActiveDelegations(d2) = ActiveDelegations(d)
      /\ e.kind = "delegate" => ActiveDelegations(d2) = ActiveDelegations(d) \cup {n}
      /\ e.kind = "revoke" => ActiveDelegations(d2) = ActiveDelegations(d) \ {e.of}
  BY <1>1, AppendActive
<1> HIDE DEF d2, n
<1>6. NamesDelegations(d2)
  <2>1. Rows(d, "delegate") \subseteq Rows(d2, "delegate")
    BY <1>2
  <2>2. e.kind = "revoke" => e.of \in Rows(d, "delegate")
    BY <1>3 DEF Admissible, Justified
  <2>3. ASSUME NEW r \in Rows(d2, "revoke") PROVE d2[r].of \in Rows(d2, "delegate")
    <3>1. CASE r \in Rows(d, "revoke")
      <4>1. d2[r] = d[r]
        BY <1>2, <3>1
      <4>2. QED
        BY <1>1, <2>1, <3>1, <4>1 DEF NamesDelegations
    <3>2. CASE r \notin Rows(d, "revoke")
      <4>1. e.kind = "revoke" /\ r = n
        BY <1>2, <3>2
      <4>2. QED
        BY <1>2, <2>1, <2>2, <4>1
    <3>3. QED
      BY <3>1, <3>2
  <2>4. QED
    BY <2>3 DEF NamesDelegations
<1>7. FoundedFirst(d2)
  BY <1>1, <1>2 DEF FoundedFirst, Admissible
<1>8. OneGrantEach(d2)
  <2>1. CASE e.kind = "ordinary"
    BY <1>1, <1>2, <1>3, <1>4, <1>5, <2>1 DEF OneGrantEach
  <2>2. CASE e.kind = "genesis"
    <3>1. ActiveDelegations(d) = {}
      BY <1>1, <2>2, NobodyBeforeGenesis DEF Admissible
    <3>2. QED
      BY <1>5, <2>2, <3>1 DEF OneGrantEach
  <2>3. CASE e.kind = "delegate"
    <3>1. ~Genesis(d, e.to) /\ \A i \in ActiveDelegations(d) : d[i].to # e.to
      BY <2>3 DEF Admissible, Justified, Authorized, HoldsDelegation
    <3>2. QED
      BY <1>1, <1>2, <1>3, <1>4, <1>5, <2>3, <3>1 DEF OneGrantEach
  <2>4. CASE e.kind = "revoke"
    BY <1>1, <1>2, <1>3, <1>4, <1>5, <2>4 DEF OneGrantEach
  <2>5. QED
    BY <1>1, <2>1, <2>2, <2>3, <2>4 DEF Decision
<1>9. QED
  BY <1>6, <1>7, <1>8 DEF LedgerInv, d2

LEMMA JustifiedStep ==
  ASSUME NEW d \in Seq(Decision), NEW e, Admissible(d, e),
         \A i \in DOMAIN d : Justified(SubSeq(d, 1, i - 1), d[i])
  PROVE  \A i \in DOMAIN Append(d, e) :
             Justified(SubSeq(Append(d, e), 1, i - 1), Append(d, e)[i])
<1>1. e \in Decision /\ Justified(d, e)
  BY DEF Admissible
<1>2. SUFFICES ASSUME NEW i \in DOMAIN Append(d, e)
               PROVE  Justified(SubSeq(Append(d, e), 1, i - 1), Append(d, e)[i])
  OBVIOUS
<1>3. CASE i \in DOMAIN d
  <2>1. Append(d, e)[i] = d[i] /\ SubSeq(Append(d, e), 1, i - 1) = SubSeq(d, 1, i - 1)
    BY <1>1, <1>3, AppendRows, PastKept
  <2>2. QED
    BY <1>3, <2>1
<1>4. CASE i = Len(d) + 1
  <2>1. Append(d, e)[i] = e /\ SubSeq(Append(d, e), 1, i - 1) = d
    BY <1>1, <1>4, AppendRows, PastKept
  <2>2. QED
    BY <1>1, <2>1
<1>5. QED
  BY <1>1, <1>3, <1>4, PastKept

(***************************************************************************)
(* The inductive invariant                                                 *)
(***************************************************************************)

\* A request in flight knows its human, and a delegation its grantee.
RequestShape ==
    \A h \in Handler :
        /\ handler[h].at # "idle" => handler[h].by \in Human
        /\ handler[h].at \in {"delegating", "granting", "granted"} => handler[h].to \in Human

\* The tenant's lock has one holder.
OneHolder ==
    \A g, h \in Handler : handler[g].at \in Locked /\ handler[h].at \in Locked => g = h

\* What the holder of the lock has checked is still so.
ChecksHold ==
    \A h \in Handler :
        /\ handler[h].at \in Locked =>
             Rows(decisions, "genesis") # {} /\ Authorized(decisions, handler[h].by)
        /\ handler[h].at = "granted" => ~Authorized(decisions, handler[h].to)
        /\ handler[h].at = "ended" =>
             /\ handler[h].of \in ActiveDelegations(decisions)
             /\ \/ Genesis(decisions, handler[h].by)
                \/ decisions[handler[h].of].by = handler[h].by

\* A nomination is its nominee's, and only an accepted one is ever spent.
NominationShape ==
    /\ nomination.state # "none" => nomination.who \in Human
    /\ \A h \in Handler : handler[h].at = "establishing" =>
         nomination.state = "accepted" /\ nomination.who = handler[h].by

IInv ==
    /\ TypeOK
    /\ RequestShape
    /\ OneHolder
    /\ ChecksHold
    /\ NominationShape
    /\ OneGenesis
    /\ LedgerInv(decisions)
    /\ LedgerJustified

LEMMA InitIInv == Init => IInv
<1> SUFFICES ASSUME Init PROVE IInv
  OBVIOUS
<1>1. TypeOK
  BY DEF Init, TypeOK, Idle, HandlerState, Decision
<1>2. DOMAIN decisions = {} /\ \A k : Rows(decisions, k) = {}
  BY DEF Init, Rows
<1>3. RequestShape /\ OneHolder /\ ChecksHold /\ NominationShape
  BY DEF Init, RequestShape, OneHolder, ChecksHold, NominationShape, Idle, Locked
<1>4. OneGenesis /\ LedgerJustified
  BY <1>2 DEF OneGenesis, LedgerJustified, Init
<1>5. LedgerInv(decisions)
  BY <1>2 DEF LedgerInv, NamesDelegations, OneGrantEach, FoundedFirst, ActiveDelegations
<1>6. QED
  BY <1>1, <1>3, <1>4, <1>5 DEF IInv

(***************************************************************************)
(* What the steps of a request do to the requests                          *)
(***************************************************************************)

LEMMA Sets ==
  ASSUME TypeOK, NEW h \in Handler, NEW new \in HandlerState,
         handler' = [handler EXCEPT ![h] = new]
  PROVE  /\ handler' \in [Handler -> HandlerState]
         /\ handler'[h] = new
         /\ \A g \in Handler : g # h => handler'[g] = handler[g]
BY DEF TypeOK

LEMMA Begins ==
  ASSUME TypeOK, NEW h \in Handler, NEW u \in Human, NEW to \in Human \cup {NoOne},
         NEW of \in Nat,
         NEW at \in {"accepting", "establishing", "deciding", "delegating", "revoking"},
         Begin(h, at, u, to, of)
  PROVE  /\ handler' \in [Handler -> HandlerState]
         /\ handler'[h] = [at |-> at, by |-> u, to |-> to, of |-> of]
         /\ \A g \in Handler : g # h => handler'[g] = handler[g]
         /\ member' = member /\ nomination' = nomination /\ decisions' = decisions
<1> DEFINE new == [at |-> at, by |-> u, to |-> to, of |-> of]
<1>1. new \in HandlerState
  BY DEF HandlerState
<1>2. handler' = [handler EXCEPT ![h] = new]
  BY DEF Begin
<1> HIDE DEF new
<1>3. QED
  BY <1>1, <1>2, Sets DEF Begin, new

LEMMA Advances ==
  ASSUME TypeOK, NEW h \in Handler, NEW at \in Locked, Advance(h, at)
  PROVE  /\ handler' \in [Handler -> HandlerState]
         /\ handler'[h] = [at |-> at, by |-> handler[h].by, to |-> handler[h].to,
                           of |-> handler[h].of]
         /\ \A g \in Handler : g # h => handler'[g] = handler[g]
         /\ member' = member /\ nomination' = nomination /\ decisions' = decisions
<1> DEFINE new == [at |-> at, by |-> handler[h].by, to |-> handler[h].to, of |-> handler[h].of]
<1>0. handler \in [Handler -> HandlerState] /\ handler[h] \in HandlerState
  BY DEF TypeOK
<1>1. new \in HandlerState
  BY <1>0 DEF HandlerState, Locked
<1>2. handler' = [handler EXCEPT ![h] = new]
  BY <1>0 DEF Advance
<1> HIDE DEF new
<1>3. QED
  BY <1>1, <1>2, Sets DEF Advance, new

LEMMA Ends ==
  ASSUME TypeOK, NEW h \in Handler, handler' = [handler EXCEPT ![h] = Idle]
  PROVE  /\ handler' \in [Handler -> HandlerState]
         /\ handler'[h].at = "idle"
         /\ \A g \in Handler : g # h => handler'[g] = handler[g]
<1>1. Idle \in HandlerState /\ Idle.at = "idle"
  BY DEF Idle, HandlerState
<1>2. QED
  BY <1>1, Sets

LEMMA Commits ==
  ASSUME TypeOK, RequestShape, NEW h \in Handler, handler[h].at # "idle",
         NEW kind \in {"genesis", "delegate", "revoke", "ordinary"},
         NEW to \in Human \cup {NoOne}, NEW of \in Nat, Commit(h, kind, to, of)
  PROVE  /\ handler' \in [Handler -> HandlerState]
         /\ handler'[h].at = "idle"
         /\ \A g \in Handler : g # h => handler'[g] = handler[g]
         /\ [kind |-> kind, by |-> handler[h].by, to |-> to, of |-> of] \in Decision
         /\ decisions' = Append(decisions, [kind |-> kind, by |-> handler[h].by,
                                            to |-> to, of |-> of])
<1>1. handler[h].by \in Human
  BY DEF RequestShape
<1>2. QED
  BY <1>1, Ends DEF Commit, Decision

(***************************************************************************)
(* Steps that append nothing                                               *)
(***************************************************************************)

\* A step that leaves the ledger and the nomination alone and moves one
\* request keeps the invariant if that request's own checks hold.
LEMMA QuietStep ==
  ASSUME IInv, NEW h \in Handler,
         decisions' = decisions, nomination' = nomination, member' = member,
         handler' \in [Handler -> HandlerState],
         \A g \in Handler : g # h => handler'[g] = handler[g],
         handler'[h].at # "idle" => handler'[h].by \in Human,
         handler'[h].at \in {"delegating", "granting", "granted"} => handler'[h].to \in Human,
         handler'[h].at \in Locked =>
           /\ \A g \in Handler : g # h => handler[g].at \notin Locked
           /\ Rows(decisions, "genesis") # {}
           /\ Authorized(decisions, handler'[h].by),
         handler'[h].at = "granted" => ~Authorized(decisions, handler'[h].to),
         handler'[h].at = "ended" =>
           /\ handler'[h].of \in ActiveDelegations(decisions)
           /\ \/ Genesis(decisions, handler'[h].by)
              \/ decisions[handler'[h].of].by = handler'[h].by,
         handler'[h].at = "establishing" =>
           nomination.state = "accepted" /\ nomination.who = handler'[h].by
  PROVE  IInv'
<1>1. TypeOK'
  BY DEF IInv, TypeOK
<1>2. RequestShape'
  BY DEF IInv, RequestShape
<1>3. OneHolder'
  BY DEF IInv, OneHolder
<1>4. ChecksHold'
  <2>1. ASSUME NEW g \in Handler
        PROVE  /\ handler'[g].at \in Locked =>
                    Rows(decisions, "genesis") # {} /\ Authorized(decisions, handler'[g].by)
               /\ handler'[g].at = "granted" => ~Authorized(decisions, handler'[g].to)
               /\ handler'[g].at = "ended" =>
                    /\ handler'[g].of \in ActiveDelegations(decisions)
                    /\ \/ Genesis(decisions, handler'[g].by)
                       \/ decisions[handler'[g].of].by = handler'[g].by
    <3>1. CASE g = h
      BY <3>1
    <3>2. CASE g # h
      BY <3>2 DEF IInv, ChecksHold
    <3>3. QED
      BY <3>1, <3>2
  <2>2. QED
    BY <2>1 DEF ChecksHold
<1>5. NominationShape'
  BY DEF IInv, NominationShape
<1>6. OneGenesis' /\ LedgerJustified' /\ LedgerInv(decisions)'
  BY DEF IInv, OneGenesis, LedgerJustified
<1>7. QED
  BY <1>1, <1>2, <1>3, <1>4, <1>5, <1>6 DEF IInv

(***************************************************************************)
(* Steps that append                                                       *)
(***************************************************************************)

LEMMA AppendStep ==
  ASSUME IInv, NEW h \in Handler, NEW e, Admissible(decisions, e),
         decisions' = Append(decisions, e), member' = member,
         handler' \in [Handler -> HandlerState],
         handler'[h].at = "idle",
         \A g \in Handler : g # h => handler'[g] = handler[g],
         e.kind \in {"delegate", "revoke"} => handler[h].at \in Locked,
         nomination' \in [state : {"none", "pending", "accepted"},
                          who : Human \cup {NoOne}, consumedBy : Nat],
         nomination'.state = nomination.state, nomination'.who = nomination.who,
         nomination.consumedBy # 0 => e.kind # "genesis",
         nomination'.consumedBy = IF e.kind = "genesis" THEN Len(decisions) + 1
                                  ELSE nomination.consumedBy,
         e.kind = "genesis" => nomination.state = "accepted" /\ nomination.who = e.by
  PROVE  IInv'
<1>1. /\ decisions \in Seq(Decision) /\ LedgerInv(decisions) /\ e \in Decision
      /\ NamesDelegations(decisions)
  BY DEF IInv, TypeOK, Admissible, LedgerInv
<1>2. /\ decisions' \in Seq(Decision)
      /\ decisions'[Len(decisions) + 1] = e
      /\ \A i \in 1 .. Len(decisions) : decisions'[i] = decisions[i]
      /\ \A k : Rows(decisions, k) \subseteq 1 .. Len(decisions)
      /\ \A k : Rows(decisions', k) =
                  IF e.kind = k THEN Rows(decisions, k) \cup {Len(decisions) + 1}
                  ELSE Rows(decisions, k)
      /\ Len(decisions) \in Nat
  BY <1>1, AppendRows
<1>3. TypeOK'
  BY <1>2 DEF IInv, TypeOK
<1>4. RequestShape' /\ OneHolder'
  BY DEF IInv, RequestShape, OneHolder, Locked
<1>5. NominationShape'
  BY DEF IInv, NominationShape
<1>6. LedgerInv(decisions')
  BY <1>1, LedgerStep
<1>7. LedgerJustified'
  BY <1>1, JustifiedStep DEF IInv, LedgerJustified
<1>8. ChecksHold'
  <2>1. SUFFICES ASSUME NEW g \in Handler, handler'[g].at \in Locked \cup {"granted", "ended"}
        PROVE  /\ handler'[g].at \in Locked =>
                    Rows(decisions', "genesis") # {} /\ Authorized(decisions', handler'[g].by)
               /\ handler'[g].at = "granted" => ~Authorized(decisions', handler'[g].to)
               /\ handler'[g].at = "ended" =>
                    /\ handler'[g].of \in ActiveDelegations(decisions')
                    /\ \/ Genesis(decisions', handler'[g].by)
                       \/ decisions'[handler'[g].of].by = handler'[g].by
    BY DEF ChecksHold, Locked
  <2>2. g # h /\ handler'[g] = handler[g] /\ handler[g].at \in Locked
    BY <2>1 DEF Locked
  <2>3. Rows(decisions, "genesis") # {}
    BY <2>2 DEF IInv, ChecksHold
  <2>4. e.kind = "ordinary"
    <3>1. e.kind # "genesis"
      BY <2>3 DEF Admissible
    <3>2. e.kind \notin {"delegate", "revoke"}
      BY <2>2 DEF IInv, OneHolder
    <3>3. QED
      BY <1>1, <3>1, <3>2 DEF Decision
  <2>5. /\ \A u : Authorized(decisions', u) <=> Authorized(decisions, u)
        /\ \A u : Genesis(decisions', u) <=> Genesis(decisions, u)
        /\ ActiveDelegations(decisions') = ActiveDelegations(decisions)
        /\ Rows(decisions', "genesis") = Rows(decisions, "genesis")
    BY <1>1, <1>2, <2>4, AppendAuthority, AppendGenesis, AppendActive
  <2>6. \A i \in ActiveDelegations(decisions) : decisions'[i] = decisions[i]
    BY <1>2 DEF ActiveDelegations
  <2>7. /\ Authorized(decisions, handler[g].by)
        /\ handler[g].at = "granted" => ~Authorized(decisions, handler[g].to)
        /\ handler[g].at = "ended" =>
             /\ handler[g].of \in ActiveDelegations(decisions)
             /\ \/ Genesis(decisions, handler[g].by)
                \/ decisions[handler[g].of].by = handler[g].by
    BY <2>2 DEF IInv, ChecksHold
  <2>8. handler[g].at = "ended" => decisions'[handler[g].of] = decisions[handler[g].of]
    BY <2>6, <2>7
  <2>9. QED
    BY <2>2, <2>3, <2>5, <2>7, <2>8
<1>9. OneGenesis'
  <2>1. CASE e.kind = "genesis"
    <3>1. Rows(decisions', "genesis") = {Len(decisions) + 1}
      BY <1>2, <2>1 DEF Admissible
    <3>2. /\ nomination'.consumedBy = Len(decisions) + 1
          /\ nomination'.state = "accepted" /\ nomination'.who = e.by
          /\ decisions'[Len(decisions) + 1] = e
      BY <1>2, <2>1
    <3>3. QED
      BY <3>1, <3>2 DEF OneGenesis
  <2>2. CASE e.kind # "genesis"
    <3>1. Rows(decisions', "genesis") = Rows(decisions, "genesis")
      BY <1>2, <2>2
    <3>2. \A g \in Rows(decisions, "genesis") : decisions'[g] = decisions[g]
      BY <1>2
    <3>3. nomination'.consumedBy = nomination.consumedBy
      BY <2>2
    <3>4. \A g \in Rows(decisions, "genesis") :
            g = nomination.consumedBy /\ decisions[g].by = nomination.who
      BY DEF IInv, OneGenesis
    <3>5. nomination.consumedBy # 0 =>
            nomination.consumedBy \in Rows(decisions, "genesis") /\ nomination.state = "accepted"
      BY DEF IInv, OneGenesis
    <3>6. nomination'.who = nomination.who /\ nomination'.state = nomination.state
      OBVIOUS
    <3>7. /\ \A g \in Rows(decisions', "genesis") :
               g = nomination'.consumedBy /\ decisions'[g].by = nomination'.who
          /\ nomination'.consumedBy # 0 =>
               nomination'.consumedBy \in Rows(decisions', "genesis")
                 /\ nomination'.state = "accepted"
      <4>1. ASSUME NEW g \in Rows(decisions', "genesis")
            PROVE  g = nomination'.consumedBy /\ decisions'[g].by = nomination'.who
        <5>1. g \in Rows(decisions, "genesis")
          BY <3>1
        <5>2. g = nomination.consumedBy /\ decisions[g].by = nomination.who
          BY <3>4, <5>1
        <5>3. decisions'[g].by = decisions[g].by
          BY <3>2, <5>1
        <5>4. QED
          BY <3>3, <3>6, <5>2, <5>3
      <4>2. ASSUME nomination'.consumedBy # 0
            PROVE  nomination'.consumedBy \in Rows(decisions', "genesis")
                     /\ nomination'.state = "accepted"
        BY <3>1, <3>3, <3>5, <3>6, <4>2
      <4>3. QED
        BY <4>1, <4>2
    <3>8. QED
      BY <3>7 DEF OneGenesis
  <2>3. QED
    BY <2>1, <2>2
<1>10. QED
  BY <1>3, <1>4, <1>5, <1>6, <1>7, <1>8, <1>9 DEF IInv

(***************************************************************************)
(* The steps                                                               *)
(***************************************************************************)

LEMMA NominateKeeps ==
  ASSUME IInv, NEW u \in Human, NominateGenesisHuman(u)
  PROVE  IInv'
<1>1. /\ nomination' = [state |-> "pending", who |-> u, consumedBy |-> 0]
      /\ nomination.state = "none"
      /\ member' = member /\ decisions' = decisions /\ handler' = handler
  BY DEF NominateGenesisHuman
<1>2. Rows(decisions, "genesis") = {}
  <2>1. nomination.consumedBy = 0
    BY <1>1 DEF IInv, OneGenesis
  <2>2. 0 \notin Rows(decisions, "genesis")
    BY DEF IInv, TypeOK, Rows
  <2>3. QED
    BY <2>1, <2>2 DEF IInv, OneGenesis
<1>3. TypeOK'
  BY <1>1 DEF IInv, TypeOK
<1>4. RequestShape' /\ OneHolder' /\ ChecksHold' /\ LedgerInv(decisions)' /\ LedgerJustified'
  BY <1>1 DEF IInv, RequestShape, OneHolder, ChecksHold, LedgerJustified
<1>5. NominationShape' /\ OneGenesis'
  BY <1>1, <1>2 DEF IInv, NominationShape, OneGenesis
<1>6. QED
  BY <1>3, <1>4, <1>5 DEF IInv

LEMMA MembershipKeeps ==
  ASSUME IInv, NEW u \in Human, RevokeMembership(u)
  PROVE  IInv'
<1>1. nomination' = nomination /\ decisions' = decisions /\ handler' = handler
  BY DEF RevokeMembership
<1>2. TypeOK'
  BY <1>1 DEF IInv, TypeOK, RevokeMembership
<1>3. RequestShape' /\ OneHolder' /\ ChecksHold' /\ LedgerInv(decisions)' /\ LedgerJustified'
      /\ NominationShape' /\ OneGenesis'
  BY <1>1 DEF IInv, RequestShape, OneHolder, ChecksHold, LedgerJustified, NominationShape, OneGenesis
<1>4. QED
  BY <1>2, <1>3 DEF IInv

LEMMA AcceptKeeps ==
  ASSUME IInv, NEW h \in Handler, AcceptGenesisNomination(h)
  PROVE  IInv'
<1>1. /\ nomination.state = "pending"
      /\ nomination' = [nomination EXCEPT !.state = "accepted"]
      /\ member' = member /\ decisions' = decisions
      /\ handler' = [handler EXCEPT ![h] = Idle]
  BY DEF AcceptGenesisNomination
<1>2. /\ handler' \in [Handler -> HandlerState] /\ handler'[h].at = "idle"
      /\ \A g \in Handler : g # h => handler'[g] = handler[g]
  BY <1>1, Ends DEF IInv
<1>3. /\ nomination'.state = "accepted" /\ nomination'.who = nomination.who
      /\ nomination'.consumedBy = nomination.consumedBy
      /\ nomination' \in [state : {"none", "pending", "accepted"},
                          who : Human \cup {NoOne}, consumedBy : Nat]
  BY <1>1 DEF IInv, TypeOK
<1>4. TypeOK'
  BY <1>1, <1>2, <1>3 DEF IInv, TypeOK
<1>5. RequestShape' /\ OneHolder'
  BY <1>2 DEF IInv, RequestShape, OneHolder, Locked
<1>6. ChecksHold'
  <2>1. handler'[h].at \notin Locked \cup {"granted", "ended"}
    BY <1>2 DEF Locked
  <2>2. QED
    BY <1>1, <1>2, <2>1 DEF IInv, ChecksHold
<1>7. NominationShape'
  BY <1>1, <1>2, <1>3 DEF IInv, NominationShape
<1>8. OneGenesis' /\ LedgerJustified' /\ LedgerInv(decisions)'
  BY <1>1, <1>3 DEF IInv, OneGenesis, LedgerJustified
<1>9. QED
  BY <1>4, <1>5, <1>6, <1>7, <1>8 DEF IInv

LEMMA BeginKeeps ==
  ASSUME IInv, NEW h \in Handler, NEW u \in Human, NEW to \in Human \cup {NoOne},
         NEW of \in Nat,
         NEW at \in {"accepting", "establishing", "deciding", "delegating", "revoking"},
         Begin(h, at, u, to, of),
         at = "delegating" => to \in Human,
         at = "establishing" => nomination.state = "accepted" /\ nomination.who = u
  PROVE  IInv'
<1>1. TypeOK
  BY DEF IInv
<1>2. /\ handler' \in [Handler -> HandlerState]
      /\ handler'[h] = [at |-> at, by |-> u, to |-> to, of |-> of]
      /\ \A g \in Handler : g # h => handler'[g] = handler[g]
      /\ member' = member /\ nomination' = nomination /\ decisions' = decisions
  BY <1>1, Begins
<1>3. handler'[h].at = at /\ handler'[h].by = u /\ handler'[h].to = to
  BY <1>2
<1>4. /\ handler'[h].at \notin Locked /\ handler'[h].at # "granted" /\ handler'[h].at # "ended"
      /\ handler'[h].at \in {"delegating", "granting", "granted"} => at = "delegating"
  BY <1>3 DEF Locked
<1>5. QED
  BY <1>2, <1>3, <1>4, QuietStep

LEMMA QuietHandles ==
  ASSUME IInv, NEW h \in Handler,
         \/ \E u \in Human :
              \/ BeginAcceptance(h, u)
              \/ BeginEstablishment(h, u)
              \/ \E to \in Human : BeginDelegation(h, u, to)
              \/ \E of \in DOMAIN decisions : BeginRevocation(h, u, of)
              \/ BeginDecision(h, u)
         \/ LockTenantGovernance(h)
         \/ CheckDelegation(h)
         \/ CheckRevocation(h)
         \/ Abort(h)
  PROVE  IInv'
<1>0. /\ TypeOK /\ RequestShape /\ OneHolder /\ ChecksHold
      /\ handler[h] \in HandlerState /\ NoOne \in Human \cup {NoOne} /\ 0 \in Nat
  BY DEF IInv, TypeOK
<1>1. ASSUME NEW u \in Human, BeginAcceptance(h, u) PROVE IInv'
  BY <1>0, <1>1, BeginKeeps DEF BeginAcceptance
<1>2. ASSUME NEW u \in Human, BeginEstablishment(h, u) PROVE IInv'
  BY <1>0, <1>2, BeginKeeps DEF BeginEstablishment
<1>3. ASSUME NEW u \in Human, NEW to \in Human, BeginDelegation(h, u, to) PROVE IInv'
  BY <1>0, <1>3, BeginKeeps DEF BeginDelegation
<1>4. ASSUME NEW u \in Human, NEW of \in DOMAIN decisions, BeginRevocation(h, u, of) PROVE IInv'
  <2>1. of \in Nat
    BY <1>4 DEF IInv, TypeOK
  <2>2. QED
    BY <1>0, <1>4, <2>1, BeginKeeps DEF BeginRevocation
<1>5. ASSUME NEW u \in Human, BeginDecision(h, u) PROVE IInv'
  BY <1>0, <1>5, BeginKeeps DEF BeginDecision
<1>6. CASE LockTenantGovernance(h)
  <2> DEFINE at == LockedAs(handler[h].at)
  <2>1. /\ at \in {"granting", "ending"} /\ at \in Locked
        /\ at = "granting" => handler[h].at = "delegating"
    BY <1>6 DEF LockTenantGovernance, LockedAs, Locked
  <2>2. Advance(h, at) /\ handler[h].at # "idle" /\ TenantUnlocked
        /\ Rows(decisions, "genesis") # {} /\ Authorized(decisions, handler[h].by)
    BY <1>6 DEF LockTenantGovernance
  <2>3. /\ handler' \in [Handler -> HandlerState]
        /\ handler'[h] = [at |-> at, by |-> handler[h].by, to |-> handler[h].to,
                          of |-> handler[h].of]
        /\ \A g \in Handler : g # h => handler'[g] = handler[g]
        /\ member' = member /\ nomination' = nomination /\ decisions' = decisions
    BY <1>0, <2>1, <2>2, Advances
  <2> HIDE DEF at
  <2>4. handler[h].by \in Human /\ (at = "granting" => handler[h].to \in Human)
    BY <1>0, <2>1, <2>2 DEF RequestShape
  <2>5. QED
    BY <2>1, <2>2, <2>3, <2>4, QuietStep DEF TenantUnlocked
<1>7. CASE CheckDelegation(h)
  <2>1. /\ handler[h].at = "granting" /\ Advance(h, "granted")
        /\ ~Authorized(decisions, handler[h].to)
    BY <1>7 DEF CheckDelegation, At
  <2>2. /\ handler[h].by \in Human /\ handler[h].to \in Human
        /\ handler[h].at \in Locked
        /\ Rows(decisions, "genesis") # {} /\ Authorized(decisions, handler[h].by)
        /\ \A g \in Handler : g # h => handler[g].at \notin Locked
    BY <1>0, <2>1 DEF RequestShape, ChecksHold, OneHolder, Locked
  <2>3. "granted" \in Locked
    BY DEF Locked
  <2>4. /\ handler' \in [Handler -> HandlerState]
        /\ handler'[h] = [at |-> "granted", by |-> handler[h].by, to |-> handler[h].to,
                          of |-> handler[h].of]
        /\ \A g \in Handler : g # h => handler'[g] = handler[g]
        /\ member' = member /\ nomination' = nomination /\ decisions' = decisions
    BY <1>0, <2>1, <2>3, Advances
  <2>5. /\ handler'[h].at = "granted" /\ handler'[h].by = handler[h].by
        /\ handler'[h].to = handler[h].to /\ handler'[h].of = handler[h].of
    BY <2>4
  <2>6. QED
    BY <2>1, <2>2, <2>3, <2>4, <2>5, QuietStep
<1>8. CASE CheckRevocation(h)
  <2>1. /\ handler[h].at = "ending" /\ Advance(h, "ended")
        /\ handler[h].of \in ActiveDelegations(decisions)
        /\ Genesis(decisions, handler[h].by) \/ decisions[handler[h].of].by = handler[h].by
    BY <1>8 DEF CheckRevocation, At
  <2>2. /\ handler[h].by \in Human
        /\ handler[h].at \in Locked
        /\ Rows(decisions, "genesis") # {} /\ Authorized(decisions, handler[h].by)
        /\ \A g \in Handler : g # h => handler[g].at \notin Locked
    BY <1>0, <2>1 DEF RequestShape, ChecksHold, OneHolder, Locked
  <2>3. "ended" \in Locked
    BY DEF Locked
  <2>4. /\ handler' \in [Handler -> HandlerState]
        /\ handler'[h] = [at |-> "ended", by |-> handler[h].by, to |-> handler[h].to,
                          of |-> handler[h].of]
        /\ \A g \in Handler : g # h => handler'[g] = handler[g]
        /\ member' = member /\ nomination' = nomination /\ decisions' = decisions
    BY <1>0, <2>1, <2>3, Advances
  <2>5. /\ handler'[h].at = "ended" /\ handler'[h].by = handler[h].by
        /\ handler'[h].to = handler[h].to /\ handler'[h].of = handler[h].of
    BY <2>4
  <2>6. QED
    BY <2>1, <2>2, <2>3, <2>4, <2>5, QuietStep
<1>9. CASE Abort(h)
  BY <1>0, <1>9, Ends, QuietStep DEF Abort, Locked
<1>10. QED
  BY <1>1, <1>2, <1>3, <1>4, <1>5, <1>6, <1>7, <1>8, <1>9

\* Every row a request appends is admissible to the ledger it is appended to.
LEMMA Writes ==
  ASSUME IInv, NEW h \in Handler,
         \/ EstablishGovernanceAuthority(h)
         \/ DelegateGovernanceAuthority(h)
         \/ RevokeGovernanceAuthority(h)
         \/ RecordGovernanceDecision(h)
  PROVE  IInv' /\ \E e : Admissible(decisions, e) /\ decisions' = Append(decisions, e)
<1>0. /\ TypeOK /\ RequestShape /\ OneHolder /\ ChecksHold /\ NominationShape
      /\ handler[h] \in HandlerState
      /\ nomination \in [state : {"none", "pending", "accepted"},
                         who : Human \cup {NoOne}, consumedBy : Nat]
      /\ NoOne \in Human \cup {NoOne} /\ 0 \in Nat
  BY DEF IInv, TypeOK
<1>1. CASE EstablishGovernanceAuthority(h)
  <2> DEFINE e == [kind |-> "genesis", by |-> handler[h].by, to |-> NoOne, of |-> 0]
  <2>1. /\ handler[h].at = "establishing" /\ Rows(decisions, "genesis") = {}
        /\ nomination.state = "accepted" /\ nomination.consumedBy = 0
        /\ Commit(h, "genesis", NoOne, 0)
        /\ nomination' = [nomination EXCEPT !.consumedBy = Len(decisions) + 1]
        /\ member' = member
    BY <1>1 DEF EstablishGovernanceAuthority, At
  <2>2. /\ handler' \in [Handler -> HandlerState] /\ handler'[h].at = "idle"
        /\ \A g \in Handler : g # h => handler'[g] = handler[g]
        /\ e \in Decision /\ decisions' = Append(decisions, e)
    BY <1>0, <2>1, Commits
  <2>3. e.kind = "genesis" /\ e.by = handler[h].by
    OBVIOUS
  <2> HIDE DEF e
  <2>4. Admissible(decisions, e)
    BY <2>1, <2>2, <2>3 DEF Admissible, Justified
  <2>5. Len(decisions) + 1 \in Nat
    BY DEF IInv, TypeOK
  <2>6. /\ nomination' \in [state : {"none", "pending", "accepted"},
                            who : Human \cup {NoOne}, consumedBy : Nat]
        /\ nomination'.state = nomination.state /\ nomination'.who = nomination.who
        /\ nomination'.consumedBy = Len(decisions) + 1
    BY <1>0, <2>1, <2>5
  <2>7. nomination.who = e.by
    BY <1>0, <2>1, <2>3 DEF NominationShape
  <2>8. IInv'
    BY <2>1, <2>2, <2>3, <2>4, <2>6, <2>7, AppendStep
  <2>9. QED
    BY <2>2, <2>4, <2>8
<1>2. CASE DelegateGovernanceAuthority(h)
  <2> DEFINE e == [kind |-> "delegate", by |-> handler[h].by, to |-> handler[h].to, of |-> 0]
  <2>1. /\ handler[h].at = "granted" /\ Commit(h, "delegate", handler[h].to, 0)
        /\ nomination' = nomination /\ member' = member
    BY <1>2 DEF DelegateGovernanceAuthority, At
  <2>2. handler[h].to \in Human \cup {NoOne}
    BY <1>0 DEF HandlerState
  <2>3. /\ handler' \in [Handler -> HandlerState] /\ handler'[h].at = "idle"
        /\ \A g \in Handler : g # h => handler'[g] = handler[g]
        /\ e \in Decision /\ decisions' = Append(decisions, e)
    BY <1>0, <2>1, <2>2, Commits
  <2>4. e.kind = "delegate" /\ e.by = handler[h].by /\ e.to = handler[h].to
    OBVIOUS
  <2> HIDE DEF e
  <2>5. handler[h].at \in Locked
    BY <2>1 DEF Locked
  <2>6. Admissible(decisions, e)
    BY <1>0, <2>1, <2>3, <2>4, <2>5 DEF Admissible, Justified, ChecksHold
  <2>7. IInv'
    BY <1>0, <2>1, <2>3, <2>4, <2>5, <2>6, AppendStep
  <2>8. QED
    BY <2>3, <2>6, <2>7
<1>3. CASE RevokeGovernanceAuthority(h)
  <2> DEFINE e == [kind |-> "revoke", by |-> handler[h].by, to |-> NoOne, of |-> handler[h].of]
  <2>1. /\ handler[h].at = "ended" /\ Commit(h, "revoke", NoOne, handler[h].of)
        /\ nomination' = nomination /\ member' = member
    BY <1>3 DEF RevokeGovernanceAuthority, At
  <2>2. handler[h].of \in Nat
    BY <1>0 DEF HandlerState
  <2>3. /\ handler' \in [Handler -> HandlerState] /\ handler'[h].at = "idle"
        /\ \A g \in Handler : g # h => handler'[g] = handler[g]
        /\ e \in Decision /\ decisions' = Append(decisions, e)
    BY <1>0, <2>1, <2>2, Commits
  <2>4. e.kind = "revoke" /\ e.by = handler[h].by /\ e.of = handler[h].of
    OBVIOUS
  <2> HIDE DEF e
  <2>5. handler[h].at \in Locked
    BY <2>1 DEF Locked
  <2>6. Admissible(decisions, e)
    BY <1>0, <2>1, <2>3, <2>4, <2>5 DEF Admissible, Justified, ChecksHold
  <2>7. IInv'
    BY <1>0, <2>1, <2>3, <2>4, <2>5, <2>6, AppendStep
  <2>8. QED
    BY <2>3, <2>6, <2>7
<1>4. CASE RecordGovernanceDecision(h)
  <2> DEFINE e == [kind |-> "ordinary", by |-> handler[h].by, to |-> NoOne, of |-> 0]
  <2>1. /\ handler[h].at = "deciding" /\ Commit(h, "ordinary", NoOne, 0)
        /\ nomination' = nomination /\ member' = member
    BY <1>4 DEF RecordGovernanceDecision, At
  <2>2. /\ handler' \in [Handler -> HandlerState] /\ handler'[h].at = "idle"
        /\ \A g \in Handler : g # h => handler'[g] = handler[g]
        /\ e \in Decision /\ decisions' = Append(decisions, e)
    BY <1>0, <2>1, Commits
  <2>3. e.kind = "ordinary"
    OBVIOUS
  <2> HIDE DEF e
  <2>4. Admissible(decisions, e)
    BY <2>2, <2>3 DEF Admissible, Justified
  <2>5. IInv'
    BY <1>0, <2>1, <2>2, <2>3, <2>4, AppendStep
  <2>6. QED
    BY <2>2, <2>4, <2>5
<1>5. QED
  BY <1>1, <1>2, <1>3, <1>4

LEMMA StepKeeps ==
  ASSUME IInv, [Next]_vars
  PROVE  /\ IInv'
         /\ \/ decisions' = decisions
            \/ \E e : Admissible(decisions, e) /\ decisions' = Append(decisions, e)
<1>1. CASE UNCHANGED vars
  <2>1. IInv'
    BY <1>1 DEF vars, IInv, TypeOK, RequestShape, OneHolder, ChecksHold, NominationShape,
       OneGenesis, LedgerJustified
  <2>2. QED
    BY <1>1, <2>1 DEF vars
<1>2. CASE Environment
  BY <1>2, NominateKeeps, MembershipKeeps DEF Environment, NominateGenesisHuman, RevokeMembership
<1>3. ASSUME NEW h \in Handler, Handle(h)
      PROVE  /\ IInv'
             /\ \/ decisions' = decisions
                \/ \E e : Admissible(decisions, e) /\ decisions' = Append(decisions, e)
  <2>1. CASE AcceptGenesisNomination(h)
    BY <2>1, AcceptKeeps DEF AcceptGenesisNomination
  <2>2. CASE \/ EstablishGovernanceAuthority(h)
             \/ DelegateGovernanceAuthority(h)
             \/ RevokeGovernanceAuthority(h)
             \/ RecordGovernanceDecision(h)
    BY <2>2, Writes
  <2>3. CASE \/ \E u \in Human :
                  \/ BeginAcceptance(h, u)
                  \/ BeginEstablishment(h, u)
                  \/ \E to \in Human : BeginDelegation(h, u, to)
                  \/ \E of \in DOMAIN decisions : BeginRevocation(h, u, of)
                  \/ BeginDecision(h, u)
             \/ LockTenantGovernance(h)
             \/ CheckDelegation(h)
             \/ CheckRevocation(h)
             \/ Abort(h)
    <3>1. decisions' = decisions
      BY <2>3 DEF BeginAcceptance, BeginEstablishment, BeginDelegation, BeginRevocation,
         BeginDecision, LockTenantGovernance, CheckDelegation, CheckRevocation, Abort,
         Begin, Advance
    <3>2. QED
      BY <2>3, <3>1, QuietHandles
  <2>4. QED
    BY <1>3, <2>1, <2>2, <2>3 DEF Handle
<1>4. QED
  BY <1>1, <1>2, <1>3 DEF Next

(***************************************************************************)
(* The theorems                                                            *)
(***************************************************************************)

\* The invariant holds in every reachable state.
THEOREM Invariant == Spec => []IInv
<1>1. Init => IInv
  BY InitIInv
<1>2. IInv /\ [Next]_vars => IInv'
  BY StepKeeps
<1>3. QED
  BY <1>1, <1>2, PTL DEF Spec

\* Every state of the ceremony and of the ledger is one the schema admits.
THEOREM TypeCorrect == Spec => []TypeOK
<1>1. IInv => TypeOK
  BY DEF IInv
<1>2. QED
  BY <1>1, Invariant, PTL

\* However many sessions race to found the tenant, one genesis decision
\* exists, its nominee's, and it and the spent entitlement name each other.
THEOREM GenesisOnce == Spec => []OneGenesis
<1>1. IInv => OneGenesis
  BY DEF IInv
<1>2. QED
  BY <1>1, Invariant, PTL

\* Every delegation and revocation in the ledger is justified by the decisions
\* before it.
THEOREM Justification == Spec => []LedgerJustified
<1>1. IInv => LedgerJustified
  BY DEF IInv
<1>2. QED
  BY <1>1, Invariant, PTL

\* A step of the system adds or removes exactly the authority its decision
\* names.
THEOREM AuthorityMoves == Spec => AuthorityMovesAsDecided
<1> DEFINE before == {u \in Human : Authorized(decisions, u)}
           after == {u \in Human : Authorized(decisions', u)}
           d == decisions'[Len(decisions')]
           Moved == after # before =>
                      \/ d.kind = "genesis" /\ before = {} /\ after = {d.by}
                      \/ d.kind = "delegate" /\ d.to \notin before
                           /\ after = before \cup {d.to}
                      \/ d.kind = "revoke" /\ decisions[d.of].to \in before
                           /\ after = before \ {decisions[d.of].to}
<1>1. ASSUME IInv, [Next]_vars PROVE Moved
  <2>1. CASE decisions' = decisions
    BY <2>1
  <2>2. ASSUME NEW e, Admissible(decisions, e), decisions' = Append(decisions, e)
        PROVE  Moved
    <3>1. /\ decisions \in Seq(Decision) /\ LedgerInv(decisions) /\ e \in Decision
          /\ OneGrantEach(decisions) /\ FoundedFirst(decisions)
      BY <1>1, <2>2 DEF IInv, TypeOK, Admissible, LedgerInv
    <3>2. Len(decisions') = Len(decisions) + 1 /\ d = e
      BY <2>2, <3>1, AppendRows
    <3>3. \A u :
            /\ e.kind = "ordinary" => (Authorized(decisions', u) <=> Authorized(decisions, u))
            /\ e.kind = "genesis" => (Authorized(decisions', u) <=> u = e.by)
            /\ e.kind = "delegate" =>
                 (Authorized(decisions', u) <=> Authorized(decisions, u) \/ u = e.to)
            /\ e.kind = "revoke" =>
                 (Authorized(decisions', u) <=> Authorized(decisions, u) /\ u # decisions[e.of].to)
      BY <2>2, <3>1, AppendAuthority
    <3> HIDE DEF d
    <3>4. CASE e.kind = "ordinary"
      BY <3>3, <3>4
    <3>5. CASE e.kind = "genesis"
      <4>1. \A u : ~Authorized(decisions, u)
        BY <2>2, <3>1, <3>5, NobodyBeforeGenesis DEF Admissible
      <4>2. e.by \in Human
        BY <3>1 DEF Decision
      <4>3. QED
        BY <3>2, <3>3, <3>5, <4>1, <4>2
    <3>6. CASE e.kind = "delegate"
      <4>1. after # before => e.to \in Human
        BY <3>3, <3>6
      <4>2. ~Authorized(decisions, e.to)
        BY <2>2, <3>6 DEF Admissible, Justified
      <4>3. QED
        BY <3>2, <3>3, <3>6, <4>1, <4>2
    <3>7. CASE e.kind = "revoke"
      <4>1. after # before => decisions[e.of].to \in before
        BY <3>3, <3>7
      <4>2. after = before \ {decisions[e.of].to}
        BY <3>3, <3>7
      <4>3. QED
        BY <3>2, <3>7, <4>1, <4>2
    <3>8. QED
      BY <3>1, <3>4, <3>5, <3>6, <3>7 DEF Decision
  <2>3. QED
    BY <1>1, <2>1, <2>2, StepKeeps
<1>2. IInv /\ [Next]_vars => [Moved]_vars
  BY <1>1
<1>3. [][IInv /\ [Next]_vars => [Moved]_vars]_vars
  BY <1>2, PTL
<1>4. QED
  BY <1>1, Invariant, PTL DEF Spec, AuthorityMovesAsDecided

\* A revocation that commits leaves the human it names without authority.
THEOREM RevocationEnds == Spec => RevocationsEndAuthority
<1> DEFINE Ended == \A i \in Rows(decisions', "revoke") \ DOMAIN decisions :
                       ~Authorized(decisions', decisions[decisions'[i].of].to)
<1>1. ASSUME IInv, [Next]_vars PROVE Ended
  <2>1. CASE decisions' = decisions
    BY <2>1 DEF Rows
  <2>2. ASSUME NEW e, Admissible(decisions, e), decisions' = Append(decisions, e)
        PROVE  Ended
    <3>1. decisions \in Seq(Decision) /\ LedgerInv(decisions) /\ e \in Decision
      BY <1>1, <2>2 DEF IInv, TypeOK, Admissible
    <3>2. /\ DOMAIN decisions' = 1 .. Len(decisions) + 1
          /\ DOMAIN decisions = 1 .. Len(decisions)
          /\ decisions'[Len(decisions) + 1] = e
          /\ Len(decisions) \in Nat
      BY <2>2, <3>1, AppendRows
    <3>3. SUFFICES ASSUME NEW i \in Rows(decisions', "revoke") \ DOMAIN decisions
                   PROVE  ~Authorized(decisions', decisions[decisions'[i].of].to)
      OBVIOUS
    <3>4. i = Len(decisions) + 1 /\ e.kind = "revoke"
      BY <3>2, <3>3 DEF Rows
    <3>5. QED
      BY <2>2, <3>1, <3>2, <3>4, AppendAuthority
  <2>3. QED
    BY <1>1, <2>1, <2>2, StepKeeps
<1>2. QED
  BY <1>1, Invariant, PTL DEF Spec, RevocationsEndAuthority

(***************************************************************************)
(* The register of authorities                                             *)
(***************************************************************************)

\* Whoever the register says a human holds authority of granted the one
\* delegation of theirs that is active.
LEMMA GrantorIs ==
  ASSUME NEW d \in Seq(Decision), OneGrantEach(d), NEW u \in Human
  PROVE  /\ \A i \in ActiveDelegations(d) : d[i].to = u => Grantor(d)[u] = d[i].by
         /\ ~HoldsDelegation(d, u) => Grantor(d)[u] = NoOne
         /\ Grantor(d)[u] # NoOne <=> HoldsDelegation(d, u)
<1>1. ASSUME NEW i \in ActiveDelegations(d) PROVE d[i].by \in Human
  <2>1. i \in DOMAIN d
    BY DEF ActiveDelegations, Rows
  <2>2. d[i] \in Decision
    BY <2>1
  <2> QED
    BY <2>2 DEF Decision
<1>2. ASSUME NEW i \in ActiveDelegations(d), d[i].to = u
      PROVE  Grantor(d)[u] = d[i].by
  <2>1. (CHOOSE j \in ActiveDelegations(d) : d[j].to = u) = i
    BY <1>2 DEF OneGrantEach
  <2> QED
    BY <1>2, <2>1 DEF Grantor
<1>3. ~HoldsDelegation(d, u) => Grantor(d)[u] = NoOne
  BY DEF Grantor, HoldsDelegation
<1> QED
  BY <1>1, <1>2, <1>3, GovernanceAssumption DEF HoldsDelegation

LEMMA FounderIs ==
  ASSUME NEW d \in Seq(Decision), \A g, h \in Rows(d, "genesis") : g = h, NEW u \in Human
  PROVE  Founder(d) = u <=> Genesis(d, u)
<1>1. CASE Rows(d, "genesis") = {}
  BY <1>1, GovernanceAssumption DEF Founder, Genesis
<1>2. ASSUME NEW g \in Rows(d, "genesis")
      PROVE  Founder(d) = u <=> Genesis(d, u)
  <2>1. (CHOOSE h \in Rows(d, "genesis") : TRUE) = g
    BY <1>2
  <2> QED
    BY <1>2, <2>1 DEF Founder, Genesis
<1> QED
  BY <1>1, <1>2

\* What a row does to the register.
LEMMA AppendRegister ==
  ASSUME NEW d \in Seq(Decision), NEW e, LedgerInv(d), Admissible(d, e)
  PROVE  /\ e.kind = "genesis" => Founder(d) = NoOne /\ Founder(Append(d, e)) = e.by
         /\ e.kind # "genesis" => Founder(Append(d, e)) = Founder(d)
         /\ e.kind \notin {"delegate", "revoke"} => Grantor(Append(d, e)) = Grantor(d)
         /\ e.kind = "delegate" =>
              Grantor(Append(d, e)) = [Grantor(d) EXCEPT ![e.to] = e.by]
         /\ e.kind = "revoke" =>
              Grantor(Append(d, e)) = [Grantor(d) EXCEPT ![d[e.of].to] = NoOne]
<1> DEFINE d2 == Append(d, e)  n == Len(d) + 1
<1>1. /\ e \in Decision /\ d2 \in Seq(Decision)
      /\ NamesDelegations(d) /\ OneGrantEach(d) /\ OneGrantEach(d2)
  BY AppendRows, LedgerStep DEF Admissible, LedgerInv
<1>2. /\ \A i \in 1 .. Len(d) : d2[i] = d[i]
      /\ d2[n] = e
      /\ \A k : Rows(d2, k) = IF e.kind = k THEN Rows(d, k) \cup {n} ELSE Rows(d, k)
      /\ \A k : Rows(d, k) \subseteq 1 .. Len(d)
  BY <1>1, AppendRows
<1>3. \A i \in ActiveDelegations(d) : d2[i] = d[i]
  BY <1>2 DEF ActiveDelegations
<1>4. /\ e.kind \notin {"delegate", "revoke"} => ActiveDelegations(d2) = ActiveDelegations(d)
      /\ e.kind = "delegate" => ActiveDelegations(d2) = ActiveDelegations(d) \cup {n}
      /\ e.kind = "revoke" => ActiveDelegations(d2) = ActiveDelegations(d) \ {e.of}
  BY <1>1, AppendActive
<1>5. DOMAIN Grantor(d) = Human /\ DOMAIN Grantor(d2) = Human
  BY DEF Grantor
<1> HIDE DEF d2, n
<1>6. e.kind = "genesis" => Founder(d) = NoOne /\ Founder(d2) = e.by
  <2> SUFFICES ASSUME e.kind = "genesis" PROVE Founder(d) = NoOne /\ Founder(d2) = e.by
    OBVIOUS
  <2>1. Rows(d, "genesis") = {} /\ Rows(d2, "genesis") = {n}
    BY <1>2 DEF Admissible
  <2> QED
    BY <1>2, <2>1 DEF Founder
<1>7. e.kind # "genesis" => Founder(d2) = Founder(d)
  <2> SUFFICES ASSUME e.kind # "genesis" PROVE Founder(d2) = Founder(d)
    OBVIOUS
  <2>1. Rows(d2, "genesis") = Rows(d, "genesis")
    BY <1>2
  <2>2. CASE Rows(d, "genesis") = {}
    BY <2>1, <2>2 DEF Founder
  <2>3. CASE Rows(d, "genesis") # {}
    <3>1. PICK g : g = CHOOSE h \in Rows(d, "genesis") : TRUE
      OBVIOUS
    <3>2. g \in Rows(d, "genesis")
      BY <2>3, <3>1
    <3>3. d2[g] = d[g]
      BY <1>2, <3>2
    <3>4. Founder(d) = d[g].by
      BY <2>3, <3>1 DEF Founder
    <3>5. Founder(d2) = d2[g].by
      BY <2>1, <2>3, <3>1 DEF Founder
    <3> QED
      BY <3>3, <3>4, <3>5
  <2> QED
    BY <2>2, <2>3
<1>8. ASSUME NEW u \in Human, e.kind \notin {"delegate", "revoke"}
      PROVE  Grantor(d2)[u] = Grantor(d)[u]
  BY <1>1, <1>3, <1>4, <1>8, GrantorIs DEF HoldsDelegation
<1>9. ASSUME NEW u \in Human, e.kind = "delegate"
      PROVE  Grantor(d2)[u] = IF u = e.to THEN e.by ELSE Grantor(d)[u]
  <2>1. n \in ActiveDelegations(d2)
    BY <1>4, <1>9
  <2>2. CASE u = e.to
    BY <1>1, <1>2, <2>1, <2>2, GrantorIs
  <2>3. CASE u # e.to
    BY <1>1, <1>2, <1>3, <1>4, <1>9, <2>3, GrantorIs DEF HoldsDelegation
  <2> QED
    BY <2>2, <2>3
<1>10. ASSUME NEW u \in Human, e.kind = "revoke"
       PROVE  Grantor(d2)[u] = IF u = d[e.of].to THEN NoOne ELSE Grantor(d)[u]
  <2>1. e.of \in ActiveDelegations(d)
    BY <1>10 DEF Admissible, Justified
  <2>2. CASE u = d[e.of].to
    <3>1. ~HoldsDelegation(d2, u)
      BY <1>1, <1>3, <1>4, <1>10, <2>1, <2>2 DEF HoldsDelegation, OneGrantEach
    <3> QED
      BY <1>1, <2>2, <3>1, GrantorIs
  <2>3. CASE u # d[e.of].to
    BY <1>1, <1>3, <1>4, <1>10, <2>1, <2>3, GrantorIs DEF HoldsDelegation
  <2> QED
    BY <2>2, <2>3
<1>11. /\ Grantor(d) = [u \in Human |-> Grantor(d)[u]]
       /\ Grantor(d2) = [u \in Human |-> Grantor(d2)[u]]
  BY DEF Grantor
<1>12. e.kind \notin {"delegate", "revoke"} => Grantor(d2) = Grantor(d)
  BY <1>8, <1>11
<1>13. e.kind = "delegate" => Grantor(d2) = [Grantor(d) EXCEPT ![e.to] = e.by]
  BY <1>5, <1>9, <1>11
<1>14. e.kind = "revoke" => Grantor(d2) = [Grantor(d) EXCEPT ![d[e.of].to] = NoOne]
  BY <1>5, <1>10, <1>11
<1> QED
  BY <1>6, <1>7, <1>12, <1>13, <1>14 DEF d2

LEMMA HoldersAre ==
  ASSUME IInv
  PROVE  Register!Holders = {u \in Human : Authorized(decisions, u)}
<1>1. decisions \in Seq(Decision) /\ OneGrantEach(decisions)
  BY DEF IInv, TypeOK, LedgerInv
<1>2. \A g, h \in Rows(decisions, "genesis") : g = h
  BY DEF IInv, OneGenesis
<1>3. \A u \in Human : /\ Founder(decisions) = u <=> Genesis(decisions, u)
                       /\ Grantor(decisions)[u] # NoOne <=> HoldsDelegation(decisions, u)
  BY <1>1, <1>2, FounderIs, GrantorIs
<1> QED
  BY <1>3 DEF Register!Holders, Authorized

LEMMA RegisterStep ==
  ASSUME IInv, [Next]_vars
  PROVE  [Register!Next]_<<Founder(decisions), Grantor(decisions)>>
<1>1. CASE decisions' = decisions
  BY <1>1
<1>2. ASSUME NEW e, Admissible(decisions, e), decisions' = Append(decisions, e)
      PROVE  Register!Next \/ UNCHANGED <<Founder(decisions), Grantor(decisions)>>
  <2>1. /\ decisions \in Seq(Decision) /\ LedgerInv(decisions) /\ OneGrantEach(decisions)
        /\ e \in Decision /\ Justified(decisions, e)
    BY <1>2 DEF IInv, TypeOK, LedgerInv, Admissible
  <2>2. e.by \in Human
    BY <2>1 DEF Decision
  <2> DEFINE f == Founder(decisions)  g == Grantor(decisions)
             f2 == Founder(decisions')  g2 == Grantor(decisions')
  <2>3. /\ e.kind = "genesis" => f = NoOne /\ f2 = e.by
        /\ e.kind # "genesis" => f2 = f
        /\ e.kind \notin {"delegate", "revoke"} => g2 = g
        /\ e.kind = "delegate" => g2 = [g EXCEPT ![e.to] = e.by]
        /\ e.kind = "revoke" => g2 = [g EXCEPT ![decisions[e.of].to] = NoOne]
    BY <1>2, <2>1, AppendRegister
  <2>4. DOMAIN g = Human /\ DOMAIN g2 = Human /\ g = [u \in Human |-> g[u]]
    BY DEF Grantor
  <2> HIDE DEF f, g, f2, g2
  <2>5. CASE e.kind = "genesis"
    <3>1. Register!Found
      BY <2>2, <2>3, <2>5 DEF Register!Found, f, g, f2, g2
    <3> QED
      BY <3>1 DEF Register!Next
  <2>6. CASE e.kind = "ordinary"
    BY <2>3, <2>6 DEF f, g, f2, g2
  <2>7. CASE e.kind = "delegate"
    <3>1. e.by \in Register!Holders
      BY <2>1, <2>2, <2>7, HoldersAre DEF Justified
    <3>2. CASE e.to \in Human
      <4>1. e.to \in Human \ Register!Holders
        BY <2>1, <2>7, <3>2, HoldersAre DEF Justified
      <4>2. f2 = f /\ g2 = [g EXCEPT ![e.to] = e.by]
        BY <2>3, <2>7
      <4>3. Register!Grant(e.by)
        BY <4>1, <4>2 DEF Register!Grant, f, g, f2, g2
      <4> QED
        BY <3>1, <4>3 DEF Register!Next
    <3>3. CASE e.to \notin Human
      <4>1. g2 = g
        BY <2>3, <2>4, <2>7, <3>3
      <4> QED
        BY <2>3, <2>7, <4>1 DEF f, g, f2, g2
    <3> QED
      BY <3>2, <3>3
  <2>8. CASE e.kind = "revoke"
    <3> DEFINE from == decisions[e.of].to
    <3>1. e.by \in Register!Holders
      BY <2>1, <2>2, <2>8, HoldersAre DEF Justified
    <3>2. /\ e.of \in ActiveDelegations(decisions)
          /\ Genesis(decisions, e.by) \/ decisions[e.of].by = e.by
      BY <2>1, <2>8 DEF Justified
    <3>3. CASE from \in Human
      <4>1. g[from] = decisions[e.of].by
        BY <2>1, <3>2, <3>3, GrantorIs DEF g
      <4>2. g[from] # NoOne
        BY <2>1, <3>2, <3>3, GrantorIs DEF g, HoldsDelegation
      <4>3. Genesis(decisions, e.by) => f = e.by
        BY <2>1, <2>2, FounderIs DEF IInv, OneGenesis, f
      <4>4. f2 = f /\ g2 = [g EXCEPT ![from] = NoOne]
        BY <2>3, <2>8
      <4>5. PICK human \in Human : human = from
        BY <3>3
      <4> HIDE DEF from
      <4>6. Register!End(e.by)
        BY <3>2, <4>1, <4>2, <4>3, <4>4, <4>5 DEF Register!End, f, g, f2, g2
      <4> QED
        BY <3>1, <4>6 DEF Register!Next
    <3>4. CASE from \notin Human
      <4>1. g2 = g
        BY <2>3, <2>4, <2>8, <3>4
      <4> QED
        BY <2>3, <2>8, <4>1 DEF f, g, f2, g2
    <3> QED
      BY <3>3, <3>4
  <2> QED
    BY <2>1, <2>5, <2>6, <2>7, <2>8 DEF Decision
<1> QED
  BY <1>1, <1>2, StepKeeps

\* The ledger of decisions implements the register: every request that commits
\* founds the tenant, grants, ends, or leaves who governs as it was.
THEOREM LedgerKeepsRegister == Spec => KeepsRegister
<1>1. Init => Register!Init
  <2> SUFFICES ASSUME Init PROVE Register!Init
    OBVIOUS
  <2>1. \A k : Rows(decisions, k) = {}
    BY DEF Init, Rows
  <2>2. ActiveDelegations(decisions) = {}
    BY <2>1 DEF ActiveDelegations
  <2> QED
    BY <2>1, <2>2 DEF Register!Init, Founder, Grantor
<1> QED
  BY <1>1, Invariant, RegisterStep, PTL DEF Spec, KeepsRegister, Register!Spec

(***************************************************************************)
(* What the rest of the system may assume of who governs                   *)
(***************************************************************************)

Governors == {u \in Human : Authorized(decisions, u)}

Toggled(who) == IF who \in Governors THEN Governors \ {who} ELSE Governors \cup {who}

\* The founder's authority rests on no delegation that could be revoked.
FounderUngranted ==
    \A i \in ActiveDelegations(decisions) : ~Genesis(decisions, decisions[i].to)

LEMMA FounderStep ==
  ASSUME IInv, FounderUngranted, [Next]_vars
  PROVE  FounderUngranted'
<1>1. CASE decisions' = decisions
  BY <1>1 DEF FounderUngranted, ActiveDelegations, Genesis, Rows
<1>2. ASSUME NEW e, Admissible(decisions, e), decisions' = Append(decisions, e)
      PROVE  FounderUngranted'
  <2> DEFINE n == Len(decisions) + 1
  <2>1. /\ decisions \in Seq(Decision) /\ e \in Decision
        /\ NamesDelegations(decisions) /\ FoundedFirst(decisions)
    BY <1>2 DEF IInv, TypeOK, LedgerInv, Admissible
  <2>2. /\ \A i \in ActiveDelegations(decisions) : decisions'[i] = decisions[i]
        /\ decisions'[n] = e
    BY <1>2, <2>1, AppendRows DEF ActiveDelegations, Rows
  <2>3. \A u : Genesis(decisions', u) <=> Genesis(decisions, u) \/ (e.kind = "genesis" /\ e.by = u)
    BY <1>2, <2>1, AppendGenesis
  <2>4. /\ e.kind \notin {"delegate", "revoke"} =>
             ActiveDelegations(decisions') = ActiveDelegations(decisions)
        /\ e.kind = "delegate" =>
             ActiveDelegations(decisions') = ActiveDelegations(decisions) \cup {n}
        /\ e.kind = "revoke" =>
             ActiveDelegations(decisions') = ActiveDelegations(decisions) \ {e.of}
    BY <1>2, <2>1, AppendActive
  <2> HIDE DEF n
  <2>5. e.kind = "genesis" => ActiveDelegations(decisions) = {}
    BY <1>2, <2>1 DEF Admissible, FoundedFirst, ActiveDelegations
  <2>6. e.kind = "delegate" => ~Genesis(decisions, e.to)
    BY <1>2 DEF Admissible, Justified, Authorized
  <2> QED
    BY <2>2, <2>3, <2>4, <2>5, <2>6 DEF FounderUngranted
<1> QED
  BY <1>1, <1>2, StepKeeps

\* What ActionAuthorization lets the authority do (MoveAuthority) is all that
\* the ledger does to it once the tenant is founded: one human at a time gains
\* or loses it, and never the founder.
THEOREM AuthorityMovesLikeTheEnvironment ==
    Spec => [][Governors # {} /\ Governors' # Governors =>
                 \E who \in Human : ~Genesis(decisions, who) /\ Governors' = Toggled(who)]_vars
<1> DEFINE Moves == Governors # {} /\ Governors' # Governors =>
                      \E who \in Human : ~Genesis(decisions, who) /\ Governors' = Toggled(who)
<1>1. Init => FounderUngranted
  BY DEF Init, FounderUngranted, ActiveDelegations, Rows
<1>2. ASSUME IInv, FounderUngranted, [Next]_vars PROVE Moves
  <2>1. CASE decisions' = decisions
    BY <2>1 DEF Governors
  <2>2. ASSUME NEW e, Admissible(decisions, e), decisions' = Append(decisions, e)
        PROVE  Moves
    <3>1. /\ decisions \in Seq(Decision) /\ LedgerInv(decisions) /\ e \in Decision
          /\ OneGrantEach(decisions) /\ FoundedFirst(decisions)
      BY <1>2, <2>2 DEF IInv, TypeOK, Admissible, LedgerInv
    <3>2. \A u :
            /\ e.kind = "ordinary" => (Authorized(decisions', u) <=> Authorized(decisions, u))
            /\ e.kind = "delegate" =>
                 (Authorized(decisions', u) <=> Authorized(decisions, u) \/ u = e.to)
            /\ e.kind = "revoke" =>
                 (Authorized(decisions', u) <=> Authorized(decisions, u) /\ u # decisions[e.of].to)
      BY <2>2, <3>1, AppendAuthority
    <3>3. CASE e.kind = "ordinary"
      BY <3>2, <3>3 DEF Governors
    <3>4. CASE e.kind = "genesis"
      BY <2>2, <3>1, <3>4, NobodyBeforeGenesis DEF Admissible, Governors
    <3>5. CASE e.kind = "delegate"
      <4>1. ~Authorized(decisions, e.to) /\ ~Genesis(decisions, e.to)
        BY <2>2, <3>5 DEF Admissible, Justified, Authorized
      <4>2. e.to \in Human => Governors' = Toggled(e.to)
        BY <3>2, <3>5, <4>1 DEF Governors, Toggled
      <4>3. e.to \notin Human => Governors' = Governors
        BY <3>2, <3>5 DEF Governors
      <4> QED
        BY <4>1, <4>2, <4>3
    <3>6. CASE e.kind = "revoke"
      <4> DEFINE from == decisions[e.of].to
      <4>1. e.of \in ActiveDelegations(decisions)
        BY <2>2, <3>6 DEF Admissible, Justified
      <4>2. Authorized(decisions, from) /\ ~Genesis(decisions, from)
        BY <1>2, <4>1 DEF FounderUngranted, Authorized, HoldsDelegation
      <4>3. from \in Human => Governors' = Toggled(from)
        BY <3>2, <3>6, <4>2 DEF Governors, Toggled
      <4>4. from \notin Human => Governors' = Governors
        BY <3>2, <3>6 DEF Governors
      <4> QED
        BY <4>2, <4>3, <4>4
    <3> QED
      BY <3>1, <3>3, <3>4, <3>5, <3>6 DEF Decision
  <2> QED
    BY <1>2, <2>1, <2>2, StepKeeps
<1>3. IInv /\ FounderUngranted /\ [Next]_vars => FounderUngranted'
  BY FounderStep
<1>4. IInv /\ FounderUngranted /\ [Next]_vars => [Moves]_vars
  BY <1>2
<1> QED
  BY <1>1, <1>3, <1>4, Invariant, PTL DEF Spec

(***************************************************************************)
(* Ordinary decisions                                                      *)
(***************************************************************************)

\* A request decides from the moment the ledger authorized its caller.
LEMMA DecidersMove ==
  ASSUME IInv, [Next]_vars, NEW h \in Handler, handler'[h].at = "deciding"
  PROVE  \/ handler'[h] = handler[h]
         \/ Authorized(decisions, handler'[h].by) /\ decisions' = decisions
<1> DEFINE Goal == \/ handler'[h] = handler[h]
                   \/ Authorized(decisions, handler'[h].by) /\ decisions' = decisions
<1>1. TypeOK /\ RequestShape
  BY DEF IInv
<1>2. ASSUME NEW g \in Handler, NEW u \in Human, NEW to \in Human \cup {NoOne}, NEW of \in Nat,
             NEW at \in {"accepting", "establishing", "delegating", "revoking"},
             Begin(g, at, u, to, of)
      PROVE  Goal
  <2>1. /\ handler'[g] = [at |-> at, by |-> u, to |-> to, of |-> of]
        /\ \A k \in Handler : k # g => handler'[k] = handler[k]
    BY <1>1, <1>2 DEF Begin, TypeOK
  <2>2. handler'[g].at # "deciding"
    BY <2>1
  <2> QED
    BY <2>1, <2>2
<1>3. ASSUME NEW g \in Handler, NEW u \in Human, BeginDecision(g, u)
      PROVE  Goal
  <2>1. /\ handler'[g] = [at |-> "deciding", by |-> u, to |-> NoOne, of |-> 0]
        /\ \A k \in Handler : k # g => handler'[k] = handler[k]
        /\ decisions' = decisions /\ Authorized(decisions, u)
    BY <1>1, <1>3 DEF BeginDecision, Begin, TypeOK
  <2>2. handler'[g].by = u
    BY <2>1
  <2> QED
    BY <2>1, <2>2
<1>4. ASSUME NEW g \in Handler, NEW at \in Locked, Advance(g, at)
      PROVE  Goal
  <2>1. /\ handler'[g] = [at |-> at, by |-> handler[g].by, to |-> handler[g].to,
                          of |-> handler[g].of]
        /\ \A k \in Handler : k # g => handler'[k] = handler[k]
    BY <1>1, <1>4, Advances
  <2>2. handler'[g].at # "deciding"
    BY <2>1 DEF Locked
  <2> QED
    BY <2>1, <2>2
<1>5. ASSUME NEW g \in Handler, handler' = [handler EXCEPT ![g] = Idle]
      PROVE  Goal
  BY <1>1, <1>5, Ends
<1>6. ASSUME NEW g \in Handler, Handle(g)
      PROVE  Goal
  <2>1. NoOne \in Human \cup {NoOne} /\ 0 \in Nat /\ DOMAIN decisions \subseteq Nat
    BY <1>1 DEF TypeOK
  <2>2. CASE \E u \in Human :
               \/ BeginAcceptance(g, u)
               \/ BeginEstablishment(g, u)
               \/ \E to \in Human : BeginDelegation(g, u, to)
               \/ \E of \in DOMAIN decisions : BeginRevocation(g, u, of)
               \/ BeginDecision(g, u)
    BY <1>2, <1>3, <2>1, <2>2
       DEF BeginAcceptance, BeginEstablishment, BeginDelegation, BeginRevocation
  <2>3. CASE LockTenantGovernance(g) \/ CheckDelegation(g) \/ CheckRevocation(g)
    BY <1>4, <2>3 DEF LockTenantGovernance, CheckDelegation, CheckRevocation, LockedAs, Locked
  <2>4. CASE \/ AcceptGenesisNomination(g) \/ EstablishGovernanceAuthority(g)
             \/ DelegateGovernanceAuthority(g) \/ RevokeGovernanceAuthority(g)
             \/ RecordGovernanceDecision(g) \/ Abort(g)
    BY <1>5, <2>4
       DEF AcceptGenesisNomination, EstablishGovernanceAuthority, DelegateGovernanceAuthority,
           RevokeGovernanceAuthority, RecordGovernanceDecision, Abort, Commit
  <2> QED
    BY <1>6, <2>2, <2>3, <2>4 DEF Handle
<1>7. CASE Environment \/ UNCHANGED vars
  BY <1>7 DEF Environment, NominateGenesisHuman, RevokeMembership, vars
<1> QED
  BY <1>6, <1>7 DEF Next

\* An ordinary decision is appended by the request that was deciding it.
LEMMA OrdinaryRows ==
  ASSUME IInv, [Next]_vars, NEW e \in Decision, e.kind = "ordinary",
         decisions' = Append(decisions, e)
  PROVE  \E h \in Handler : handler[h].at = "deciding" /\ e.by = handler[h].by
<1>1. decisions \in Seq(Decision) /\ Len(decisions) \in Nat
  BY DEF IInv, TypeOK
<1>2. decisions' # decisions
  BY <1>1, AppendRows
<1>3. ASSUME NEW kind \in {"genesis", "delegate", "revoke", "ordinary"},
             NEW to \in Human \cup {NoOne}, NEW of \in Nat,
             NEW h \in Handler, handler[h].at # "idle", Commit(h, kind, to, of)
      PROVE  e.kind = kind /\ e.by = handler[h].by
  <2> DEFINE row == [kind |-> kind, by |-> handler[h].by, to |-> to, of |-> of]
  <2>1. row \in Decision /\ decisions' = Append(decisions, row)
    BY <1>3, Commits DEF IInv
  <2>2. row.kind = kind /\ row.by = handler[h].by
    OBVIOUS
  <2> HIDE DEF row
  <2>3. decisions'[Len(decisions) + 1] = row /\ decisions'[Len(decisions) + 1] = e
    BY <1>1, <2>1, AppendRows
  <2> QED
    BY <2>2, <2>3
<1>4. PICK h \in Handler : Handle(h)
  BY <1>2 DEF Next, Environment, NominateGenesisHuman, RevokeMembership, vars
<1>5. \/ EstablishGovernanceAuthority(h) \/ DelegateGovernanceAuthority(h)
      \/ RevokeGovernanceAuthority(h) \/ RecordGovernanceDecision(h)
  BY <1>2, <1>4
     DEF Handle, BeginAcceptance, BeginEstablishment, BeginDelegation, BeginRevocation,
         BeginDecision, AcceptGenesisNomination, LockTenantGovernance, CheckDelegation,
         CheckRevocation, Abort, Begin, Advance
<1>6. /\ handler[h].to \in Human \cup {NoOne} /\ handler[h].of \in Nat
      /\ NoOne \in Human \cup {NoOne} /\ 0 \in Nat
  BY DEF IInv, TypeOK, HandlerState
<1>7. CASE EstablishGovernanceAuthority(h)
  <2>1. Commit(h, "genesis", NoOne, 0) /\ handler[h].at # "idle"
    BY <1>7 DEF EstablishGovernanceAuthority, At
  <2> QED
    BY <1>3, <1>6, <2>1
<1>8. CASE DelegateGovernanceAuthority(h)
  <2>1. Commit(h, "delegate", handler[h].to, 0) /\ handler[h].at # "idle"
    BY <1>8 DEF DelegateGovernanceAuthority, At
  <2> QED
    BY <1>3, <1>6, <2>1
<1>9. CASE RevokeGovernanceAuthority(h)
  <2>1. Commit(h, "revoke", NoOne, handler[h].of) /\ handler[h].at # "idle"
    BY <1>9 DEF RevokeGovernanceAuthority, At
  <2> QED
    BY <1>3, <1>6, <2>1
<1>10. CASE RecordGovernanceDecision(h)
  <2>1. Commit(h, "ordinary", NoOne, 0) /\ handler[h].at = "deciding"
    BY <1>10 DEF RecordGovernanceDecision, At
  <2> QED
    BY <1>3, <1>6, <2>1
<1> QED
  BY <1>5, <1>7, <1>8, <1>9, <1>10

\* A caller who is deciding was authorized by a ledger that is a beginning of
\* today's.
DecidersWereAuthorized ==
    \A h \in Handler : handler[h].at = "deciding" =>
        \E k \in 0 .. Len(decisions) : Authorized(SubSeq(decisions, 1, k), handler[h].by)

\* The beginnings of a ledger outlast what is appended to it.
LEMMA BeginningsKept ==
  ASSUME NEW d \in Seq(Decision), NEW e \in Decision, NEW k \in 0 .. Len(d)
  PROVE  SubSeq(Append(d, e), 1, k) = SubSeq(d, 1, k)
<1>1. /\ DOMAIN Append(d, e) = 1 .. Len(d) + 1 /\ DOMAIN d = 1 .. Len(d) /\ Len(d) \in Nat
  BY AppendRows
<1>2. k + 1 \in DOMAIN Append(d, e) /\ (k + 1) - 1 = k /\ k + 1 \in 1 .. Len(d) + 1
  BY <1>1
<1>3. CASE k + 1 \in DOMAIN d
  BY <1>2, <1>3, PastKept
<1>4. CASE k + 1 = Len(d) + 1
  <2>1. k = Len(d)
    <3>1. k \in Int /\ Len(d) \in Int
      BY <1>1
    <3> QED
      BY <1>4, <3>1
  <2>2. SubSeq(d, 1, Len(d)) = d
    BY SubSeqFull
  <2> QED
    BY <1>2, <1>4, <2>1, <2>2, PastKept
<1> QED
  BY <1>1, <1>2, <1>3, <1>4

LEMMA HeldStep ==
  ASSUME IInv, DecidersWereAuthorized, DecidersHeldAuthority, [Next]_vars
  PROVE  DecidersWereAuthorized' /\ DecidersHeldAuthority'
<1>1. decisions \in Seq(Decision) /\ Len(decisions) \in Nat
  BY DEF IInv, TypeOK
<1>2. \A k \in 0 .. Len(decisions) : SubSeq(decisions', 1, k) = SubSeq(decisions, 1, k)
  BY <1>1, BeginningsKept, StepKeeps DEF Admissible
<1>3. Len(decisions') \in Nat /\ Len(decisions) <= Len(decisions')
  <2>1. CASE decisions' = decisions
    BY <1>1, <2>1
  <2>2. CASE \E e : Admissible(decisions, e) /\ decisions' = Append(decisions, e)
    BY <1>1, <2>2, AppendRows DEF Admissible
  <2> QED
    BY <2>1, <2>2, StepKeeps
<1>4. DecidersWereAuthorized'
  <2> SUFFICES ASSUME NEW h \in Handler, handler'[h].at = "deciding"
               PROVE  \E k \in 0 .. Len(decisions') :
                          Authorized(SubSeq(decisions', 1, k), handler'[h].by)
    BY DEF DecidersWereAuthorized
  <2>1. CASE handler'[h] = handler[h]
    <3>1. PICK k \in 0 .. Len(decisions) : Authorized(SubSeq(decisions, 1, k), handler[h].by)
      BY <2>1 DEF DecidersWereAuthorized
    <3>2. k \in 0 .. Len(decisions')
      BY <1>1, <1>3
    <3> QED
      BY <1>2, <2>1, <3>1, <3>2
  <2>2. CASE Authorized(decisions, handler'[h].by) /\ decisions' = decisions
    <3>1. SubSeq(decisions, 1, Len(decisions)) = decisions
      BY <1>1, SubSeqFull
    <3>2. Len(decisions) \in 0 .. Len(decisions)
      BY <1>1
    <3> QED
      BY <2>2, <3>1, <3>2
  <2> QED
    BY <2>1, <2>2, DecidersMove
<1>5. ASSUME NEW e, Admissible(decisions, e), decisions' = Append(decisions, e)
      PROVE  DecidersHeldAuthority'
  <2>1. /\ DOMAIN decisions' = 1 .. Len(decisions) + 1
        /\ DOMAIN decisions = 1 .. Len(decisions)
        /\ \A i \in DOMAIN decisions : decisions'[i] = decisions[i]
        /\ decisions'[Len(decisions) + 1] = e
    BY <1>1, <1>5, AppendRows DEF Admissible
  <2> SUFFICES ASSUME NEW i \in Rows(decisions', "ordinary")
               PROVE  \E k \in 0 .. i - 1 :
                          Authorized(SubSeq(decisions', 1, k), decisions'[i].by)
    BY DEF DecidersHeldAuthority
  <2>2. i \in 1 .. Len(decisions) + 1 /\ decisions'[i].kind = "ordinary"
    BY <2>1 DEF Rows
  <2>3. CASE i \in DOMAIN decisions
    <3>1. i \in Rows(decisions, "ordinary")
      BY <2>1, <2>2, <2>3 DEF Rows
    <3>2. PICK k \in 0 .. i - 1 : Authorized(SubSeq(decisions, 1, k), decisions[i].by)
      BY <3>1 DEF DecidersHeldAuthority
    <3>3. k \in 0 .. Len(decisions)
      BY <1>1, <2>2
    <3> QED
      BY <1>2, <2>1, <2>3, <3>2, <3>3
  <2>4. CASE i = Len(decisions) + 1
    <3>1. PICK h \in Handler : handler[h].at = "deciding" /\ e.by = handler[h].by
      <4>1. e \in Decision /\ e.kind = "ordinary"
        BY <1>5, <2>1, <2>2, <2>4 DEF Admissible
      <4> QED
        BY <1>5, <4>1, OrdinaryRows
    <3>2. PICK k \in 0 .. Len(decisions) : Authorized(SubSeq(decisions, 1, k), handler[h].by)
      BY <3>1 DEF DecidersWereAuthorized
    <3>3. i - 1 = Len(decisions)
      BY <1>1, <2>4
    <3> QED
      BY <1>2, <2>1, <2>4, <3>1, <3>2, <3>3
  <2> QED
    BY <1>1, <2>1, <2>2, <2>3, <2>4
<1>6. CASE decisions' = decisions
  BY <1>4, <1>6 DEF DecidersHeldAuthority
<1>7. decisions' = decisions
        \/ \E e : Admissible(decisions, e) /\ decisions' = Append(decisions, e)
  BY StepKeeps
<1> QED
  BY <1>4, <1>5, <1>6, <1>7

\* No ordinary decision is by a human the ledger never authorized, though its
\* caller is resolved before the transaction.
THEOREM DecidersOnceHeldAuthority == Spec => []DecidersHeldAuthority
<1>1. Init => DecidersWereAuthorized /\ DecidersHeldAuthority
  BY DEF Init, DecidersWereAuthorized, DecidersHeldAuthority, Rows, Idle
<1>2. IInv /\ DecidersWereAuthorized /\ DecidersHeldAuthority /\ [Next]_vars
        => DecidersWereAuthorized' /\ DecidersHeldAuthority'
  BY HeldStep
<1> QED
  BY <1>1, <1>2, Invariant, PTL DEF Spec

(***************************************************************************)
(* Where every decision would be by an authority                           *)
(*                                                                         *)
(* DecisionsByAuthority is said of the resolver and is not true of         *)
(* ordinary decisions, which take no lock.  A revocation that commits      *)
(* between the resolution and the commit is the only way it fails.         *)
(***************************************************************************)

\* No revocation commits while the human it names is deciding, as the lock
\* that delegations and revocations take would have it.
NobodyCutOff ==
    [][\A r \in Rows(decisions', "revoke") \ DOMAIN decisions, h \in Handler :
           handler[h].at = "deciding" => handler[h].by # decisions[decisions'[r].of].to]_vars

\* A caller who is deciding is still authorized.
DecidersAuthorized ==
    \A h \in Handler : handler[h].at = "deciding" => Authorized(decisions, handler[h].by)

LEMMA CutOffStep ==
  ASSUME IInv, DecidersAuthorized, [Next]_vars,
         \A r \in Rows(decisions', "revoke") \ DOMAIN decisions, h \in Handler :
           handler[h].at = "deciding" => handler[h].by # decisions[decisions'[r].of].to
  PROVE  DecidersAuthorized'
<1>1. decisions \in Seq(Decision) /\ LedgerInv(decisions) /\ FoundedFirst(decisions)
  BY DEF IInv, TypeOK, LedgerInv
<1> SUFFICES ASSUME NEW h \in Handler, handler'[h].at = "deciding"
             PROVE  Authorized(decisions', handler'[h].by)
  BY DEF DecidersAuthorized
<1>2. CASE decisions' = decisions
  BY <1>2, DecidersMove DEF DecidersAuthorized
<1>3. ASSUME NEW e, Admissible(decisions, e), decisions' = Append(decisions, e),
             decisions' # decisions
      PROVE  Authorized(decisions', handler'[h].by)
  <2>1. handler'[h] = handler[h] /\ Authorized(decisions, handler[h].by)
    BY <1>3, DecidersMove DEF DecidersAuthorized
  <2>2. e \in Decision /\ (e.kind # "genesis" \/ Rows(decisions, "genesis") = {})
    BY <1>3 DEF Admissible
  <2>3. e.kind # "genesis"
    BY <1>1, <2>1, <2>2, NobodyBeforeGenesis
  <2>4. e.kind = "revoke" => handler[h].by # decisions[e.of].to
    <3> SUFFICES ASSUME e.kind = "revoke" PROVE handler[h].by # decisions[e.of].to
      OBVIOUS
    <3>1. /\ Len(decisions) + 1 \in Rows(decisions', "revoke") \ DOMAIN decisions
          /\ decisions'[Len(decisions) + 1] = e
      BY <1>1, <1>3, <2>2, AppendRows
    <3> QED
      BY <2>1, <3>1
  <2> QED
    BY <1>1, <1>3, <2>1, <2>2, <2>3, <2>4, AppendAuthority DEF Decision
<1> QED
  BY <1>2, <1>3, StepKeeps

\* Every ordinary decision is by a human authorized when it commits, if no
\* revocation cuts off one who is deciding: the lock that authority acts take
\* and recordGovernanceDecision does not is all that is missing.
THEOREM DecisionsByAuthorityUncut == Spec /\ NobodyCutOff => DecisionsByAuthority
<1> DEFINE Uncut == \A r \in Rows(decisions', "revoke") \ DOMAIN decisions, h \in Handler :
                        handler[h].at = "deciding" =>
                            handler[h].by # decisions[decisions'[r].of].to
           ByAuthority == \A i \in Rows(decisions', "ordinary") \ DOMAIN decisions :
                              Authorized(decisions, decisions'[i].by)
<1>1. Init => DecidersAuthorized
  BY DEF Init, DecidersAuthorized, Idle
<1>2. IInv /\ DecidersAuthorized /\ [Next]_vars /\ [Uncut]_vars => DecidersAuthorized'
  <2> SUFFICES ASSUME IInv, DecidersAuthorized, [Next]_vars, [Uncut]_vars
               PROVE  DecidersAuthorized'
    OBVIOUS
  <2>1. CASE UNCHANGED vars
    BY <2>1 DEF vars, DecidersAuthorized
  <2> QED
    BY <2>1, CutOffStep
<1>3. ASSUME IInv, DecidersAuthorized, [Next]_vars
      PROVE  ByAuthority
  <2>1. CASE decisions' = decisions
    BY <2>1 DEF Rows
  <2>2. ASSUME NEW e, Admissible(decisions, e), decisions' = Append(decisions, e)
        PROVE  ByAuthority
    <3>1. decisions \in Seq(Decision) /\ e \in Decision
      BY <1>3, <2>2 DEF IInv, TypeOK, Admissible
    <3>2. /\ DOMAIN decisions' = 1 .. Len(decisions) + 1
          /\ DOMAIN decisions = 1 .. Len(decisions)
          /\ decisions'[Len(decisions) + 1] = e
          /\ Len(decisions) \in Nat
      BY <2>2, <3>1, AppendRows
    <3> SUFFICES ASSUME NEW i \in Rows(decisions', "ordinary") \ DOMAIN decisions
                 PROVE  Authorized(decisions, decisions'[i].by)
      OBVIOUS
    <3>3. i = Len(decisions) + 1 /\ e.kind = "ordinary"
      BY <3>2 DEF Rows
    <3>4. PICK h \in Handler : handler[h].at = "deciding" /\ e.by = handler[h].by
      BY <1>3, <2>2, <3>1, <3>3, OrdinaryRows
    <3> QED
      BY <1>3, <3>2, <3>3, <3>4 DEF DecidersAuthorized
  <2> QED
    BY <1>3, <2>1, <2>2, StepKeeps
<1>4. IInv /\ DecidersAuthorized /\ [Next]_vars => [ByAuthority]_vars
  BY <1>3
<1> QED
  BY <1>1, <1>2, <1>4, Invariant, PTL DEF Spec, NobodyCutOff, DecisionsByAuthority
=============================================================================
