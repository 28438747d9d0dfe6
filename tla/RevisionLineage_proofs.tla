------------------------ MODULE RevisionLineage_proofs ------------------------
(***************************************************************************)
(* What a history that keeps the promise of RevisionLineage tells whoever  *)
(* reads it later, for every set of lineages and terms.                    *)
(***************************************************************************)
EXTENDS RevisionLineage, SequenceTheorems, TLAPS

Revision == [state : {"active", "withdrawn"}, terms : Terms \cup {NoOne}, shown : Nat]

TypeOK == lineage \in [Lineage -> Seq(Revision)]

\* A revision names the one before it, and a withdrawal stands right behind
\* what it ended, with its terms or none.
Follows(s, i) ==
    /\ s[i].shown = i - 1
    /\ s[i].state = "withdrawn" =>
         /\ i > 1
         /\ s[i - 1].state = "active"
         /\ s[i].terms \in {NoOne, s[i - 1].terms}

HistoryTells == \A l \in Lineage : \A i \in 1 .. Len(lineage[l]) : Follows(lineage[l], i)

LEMMA ExtendKeeps ==
  ASSUME TypeOK, HistoryTells, NEW l \in Lineage, NEW r \in Revision, Extend(l, r),
         r.shown = Len(lineage[l]),
         r.state = "withdrawn" =>
            InForce(l) /\ r.terms \in {NoOne, lineage[l][Len(lineage[l])].terms}
  PROVE  TypeOK' /\ HistoryTells'
<1> DEFINE s == lineage[l]  s2 == Append(s, r)  n == Len(s) + 1
<1>1. s \in Seq(Revision) /\ Len(s) \in Nat
  BY DEF TypeOK
<1>2. /\ s2 \in Seq(Revision) /\ Len(s2) = n /\ s2[n] = r
      /\ \A i \in 1 .. Len(s) : s2[i] = s[i]
  BY <1>1, AppendProperties
<1>3. lineage' = [lineage EXCEPT ![l] = s2]
  BY DEF Extend
<1>4. lineage'[l] = s2 /\ \A k \in Lineage \ {l} : lineage'[k] = lineage[k]
  BY <1>3 DEF TypeOK
<1>5. TypeOK'
  BY <1>2, <1>3 DEF TypeOK
<1>6. ASSUME NEW i \in 1 .. n PROVE Follows(s2, i)
  <2>1. CASE i = n
    <3>1. InForce(l) => Len(s) >= 1 /\ s[Len(s)].state = "active"
      BY <1>1 DEF InForce
    <3>2. Len(s) >= 1 => s2[n - 1] = s[Len(s)]
      BY <1>1, <1>2
    <3> QED
      BY <1>1, <1>2, <2>1, <3>1, <3>2 DEF Follows
  <2>2. CASE i # n
    <3>1. i \in 1 .. Len(s) /\ s2[i] = s[i] /\ (i > 1 => s2[i - 1] = s[i - 1])
      BY <1>1, <1>2, <2>2
    <3>2. Follows(s, i)
      BY <3>1 DEF HistoryTells
    <3> QED
      BY <3>1, <3>2 DEF Follows
  <2> QED
    BY <2>1, <2>2
<1>7. HistoryTells'
  BY <1>2, <1>4, <1>6 DEF HistoryTells
<1> QED
  BY <1>5, <1>7

LEMMA NextKeeps ==
  ASSUME TypeOK, HistoryTells, Next
  PROVE  TypeOK' /\ HistoryTells'
<1>1. PICK l \in Lineage, t \in Terms \cup {NoOne} : Activate(l, t) \/ Withdraw(l, t)
  BY DEF Next
<1> DEFINE r(state) == [state |-> state, terms |-> t, shown |-> Len(lineage[l])]
<1>2. r("active") \in Revision /\ r("withdrawn") \in Revision
  BY DEF Revision, TypeOK
<1>3. CASE Activate(l, t)
  <2>1. Extend(l, r("active"))
    BY <1>3 DEF Activate
  <2> QED
    BY <1>2, <2>1, ExtendKeeps
<1>4. CASE Withdraw(l, t)
  <2>1. /\ Extend(l, r("withdrawn"))
        /\ InForce(l) /\ t \in {NoOne, lineage[l][Len(lineage[l])].terms}
    BY <1>4 DEF Withdraw
  <2> QED
    BY <1>2, <2>1, ExtendKeeps
<1> QED
  BY <1>1, <1>3, <1>4

\* Whoever keeps the promise leaves a history that can be read without its
\* authors: each revision's predecessor is the one its author was shown, and
\* each withdrawal follows the revision it ended.
THEOREM HistoryCanBeRead == Spec => []HistoryTells
<1>1. Init => TypeOK /\ HistoryTells
  BY DEF Init, TypeOK, HistoryTells
<1>2. TypeOK /\ HistoryTells /\ [Next]_lineage => (TypeOK /\ HistoryTells)'
  <2>1. CASE Next
    BY <2>1, NextKeeps
  <2>2. CASE UNCHANGED lineage
    BY <2>2 DEF TypeOK, HistoryTells
  <2> QED
    BY <2>1, <2>2
<1> QED
  BY <1>1, <1>2, PTL DEF Spec
=============================================================================
