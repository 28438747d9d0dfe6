----------------------- MODULE TenantMembership_proofs -----------------------
(***************************************************************************)
(* Proofs about TenantMembership, for every set of humans, rows and        *)
(* requests.  A membership rests on an invitation and an invitation on a   *)
(* permit; the invariant is that the three tables agree wherever they name *)
(* each other, and it holds because every row is spent by an UPDATE that   *)
(* asks again whether it may be.                                           *)
(***************************************************************************)
EXTENDS TenantMembership, TLAPS

(***************************************************************************)
(* The inductive invariant                                                 *)
(***************************************************************************)

\* A request in flight remembers what its reads saw.
RequestShape ==
    \A h \in Handler :
        /\ handler[h].at = "authorizing" =>
             /\ handler[h].row \in Human
             /\ handler[h].role = "owner" => handler[h].via = "bootstrap"
        /\ handler[h].at = "issuing" =>
             handler[h].row \in Permit /\ permit[handler[h].row].status # "none"
        /\ handler[h].at = "accepting" =>
             /\ handler[h].row \in Invitation
             /\ invitation[handler[h].row].status # "none"
             /\ invitation[handler[h].row].who = handler[h].by
             /\ invitation[handler[h].row].role = handler[h].role
        /\ handler[h].at = "withdrawing" => handler[h].row \in Invitation
        /\ handler[h].at \in {"revoking", "counting", "counted"} => handler[h].row \in Human

\* A permit that is spent agrees with the invitation it was spent on, and is
\* the only one spent on it.
PermitChain ==
    /\ \A p \in Permit :
         /\ permit[p].status # "none" =>
              /\ permit[p].who \in Human
              /\ permit[p].role = "owner" => permit[p].via = "bootstrap"
         /\ permit[p].status = "consumed" <=> permit[p].spentOn # NoOne
         /\ permit[p].spentOn # NoOne =>
              /\ invitation[permit[p].spentOn].status # "none"
              /\ invitation[permit[p].spentOn].who = permit[p].who
              /\ invitation[permit[p].spentOn].role = permit[p].role
    /\ \A p, q \in Permit : permit[p].spentOn = permit[q].spentOn
         => p = q \/ permit[p].spentOn = NoOne

\* Every invitation there is has its permit.
InvitationPaid ==
    \A i \in Invitation : invitation[i].status # "none" =>
        /\ invitation[i].who \in Human
        /\ \E p \in Permit : permit[p].spentOn = i

\* A membership agrees with the invitation it accepted.
MembershipChain ==
    \A u \in Human :
        /\ membership[u].accepted # NoOne =>
             /\ invitation[membership[u].accepted].status = "accepted"
             /\ invitation[membership[u].accepted].who = u
             /\ invitation[membership[u].accepted].role = membership[u].role
        /\ membership[u].status = "none" => membership[u].accepted = NoOne
        /\ u # Founder /\ membership[u].status # "none" => membership[u].accepted # NoOne

\* An accepted invitation made a member.
InvitationUsed ==
    \A i \in Invitation : invitation[i].status = "accepted" =>
        \E u \in Human : membership[u].accepted = i

IInv ==
    /\ TypeOK
    /\ RequestShape
    /\ PermitChain
    /\ InvitationPaid
    /\ MembershipChain
    /\ InvitationUsed

LEMMA InitIInv == Init => IInv
<1> SUFFICES ASSUME Init PROVE IInv
  OBVIOUS
<1>1. TypeOK
  BY DEF Init, TypeOK, PermitRow, InvitationRow, MembershipRow, HandlerState, Idle, Band
<1>2. RequestShape /\ PermitChain /\ InvitationPaid
  BY DEF Init, RequestShape, PermitChain, InvitationPaid, Idle
<1>3. MembershipChain /\ InvitationUsed
  BY MembershipAssumption DEF Init, MembershipChain, InvitationUsed
<1>4. QED
  BY <1>1, <1>2, <1>3 DEF IInv

\* The invariant says what the runs check.
LEMMA ChainsSuffice == IInv => Provenance /\ SpentOnce
<1> SUFFICES ASSUME IInv PROVE Provenance /\ SpentOnce
  OBVIOUS
<1>0. /\ permit \in [Permit -> PermitRow] /\ membership \in [Human -> MembershipRow]
      /\ \A u \in Human : membership[u].accepted \in Invitation \cup {NoOne}
      /\ NoOne \notin Invitation
  BY MembershipAssumption DEF IInv, TypeOK, MembershipRow
<1>1. ASSUME NEW i \in Invitation, invitation[i].status # "none"
      PROVE  \E p \in Permit :
               /\ permit[p].spentOn = i /\ permit[p].status = "consumed"
               /\ permit[p].who = invitation[i].who /\ permit[p].role = invitation[i].role
               /\ permit[p].role = "owner" => permit[p].via = "bootstrap"
               /\ \A q \in Permit : permit[q].spentOn = i => q = p
  <2>1. PICK p \in Permit : permit[p].spentOn = i
    BY <1>1 DEF IInv, InvitationPaid
  <2>2. permit[p].spentOn # NoOne
    BY <1>0, <2>1
  <2>3. permit[p].status = "consumed"
    BY <2>2 DEF IInv, PermitChain
  <2>4. /\ permit[p].who = invitation[i].who /\ permit[p].role = invitation[i].role
        /\ permit[p].role = "owner" => permit[p].via = "bootstrap"
    BY <2>1, <2>2, <2>3 DEF IInv, PermitChain
  <2>5. \A q \in Permit : permit[q].spentOn = i => q = p
    BY <2>1, <2>2 DEF IInv, PermitChain
  <2>6. QED
    BY <2>1, <2>3, <2>4, <2>5
<1>2. Provenance
  <2>1. SUFFICES ASSUME NEW u \in Human \ {Founder}, membership[u].status # "none"
        PROVE  LET i == membership[u].accepted IN
               /\ i \in Invitation
               /\ invitation[i].status = "accepted"
               /\ invitation[i].who = u /\ invitation[i].role = membership[u].role
               /\ \E p \in Permit :
                    /\ permit[p].status = "consumed" /\ permit[p].spentOn = i
                    /\ permit[p].who = u /\ permit[p].role = membership[u].role
                    /\ permit[p].role = "owner" => permit[p].via = "bootstrap"
                    /\ \A q \in Permit : permit[q].spentOn = i => q = p
    BY DEF Provenance
  <2> DEFINE i == membership[u].accepted
  <2>2. /\ i \in Invitation
        /\ invitation[i].status = "accepted"
        /\ invitation[i].who = u /\ invitation[i].role = membership[u].role
    BY <1>0, <2>1 DEF IInv, MembershipChain
  <2> HIDE DEF i
  <2>3. QED
    BY <1>1, <2>2 DEF i
<1>3. SpentOnce
  <2>1. \A u, w \in Human : membership[u].accepted = membership[w].accepted
          => u = w \/ membership[u].accepted = NoOne
    BY DEF IInv, MembershipChain
  <2>2. \A i \in Invitation : invitation[i].status # "none" =>
          \E p \in Permit : permit[p].spentOn = i /\ permit[p].status = "consumed"
    BY <1>1
  <2>3. QED
    BY <2>1, <2>2 DEF SpentOnce, IInv, InvitationUsed
<1>4. QED
  BY <1>2, <1>3

(***************************************************************************)
(* Steps that move a request only                                          *)
(***************************************************************************)

LEMMA QuietStep ==
  ASSUME IInv, NEW h \in Handler, NEW new \in HandlerState,
         handler' = [handler EXCEPT ![h] = new],
         permit' = permit, invitation' = invitation, membership' = membership,
         lapsed' \subseteq Invitation,
         new.at = "authorizing" =>
           new.row \in Human /\ (new.role = "owner" => new.via = "bootstrap"),
         new.at = "issuing" => new.row \in Permit /\ permit[new.row].status # "none",
         new.at = "accepting" =>
           /\ new.row \in Invitation /\ invitation[new.row].status # "none"
           /\ invitation[new.row].who = new.by /\ invitation[new.row].role = new.role,
         new.at = "withdrawing" => new.row \in Invitation,
         new.at \in {"revoking", "counting", "counted"} => new.row \in Human
  PROVE  IInv'
<1>1. TypeOK'
  BY DEF IInv, TypeOK
<1>2. handler'[h] = new /\ \A g \in Handler : g # h => handler'[g] = handler[g]
  BY DEF IInv, TypeOK
<1>3. RequestShape'
  BY <1>2 DEF IInv, RequestShape
<1>4. PermitChain' /\ InvitationPaid' /\ MembershipChain' /\ InvitationUsed'
  BY DEF IInv, PermitChain, InvitationPaid, MembershipChain, InvitationUsed
<1>5. QED
  BY <1>1, <1>3, <1>4 DEF IInv

LEMMA IdleState == Idle \in HandlerState /\ Idle.at = "idle"
BY DEF Idle, HandlerState, Band

LEMMA BeginKeeps ==
  ASSUME IInv, NEW h \in Handler, NEW u \in Human,
         NEW at \in {"authorizing", "issuing", "withdrawing", "revoking"},
         NEW row \in Human \cup Permit \cup Invitation,
         NEW via \in {"bootstrap", "delegated"}, NEW role \in Band,
         Begin(h, at, u, row, via, role),
         at = "authorizing" => row \in Human /\ (role = "owner" => via = "bootstrap"),
         at = "issuing" => row \in Permit /\ permit[row].status # "none",
         at = "withdrawing" => row \in Invitation,
         at = "revoking" => row \in Human
  PROVE  IInv'
<1> DEFINE new == [at |-> at, by |-> u, row |-> row, via |-> via, role |-> role]
<1>1. new \in HandlerState
  BY DEF HandlerState
<1>2. /\ handler' = [handler EXCEPT ![h] = new]
      /\ permit' = permit /\ invitation' = invitation /\ membership' = membership
      /\ lapsed' \subseteq Invitation
  BY DEF Begin, IInv, TypeOK
<1>3. /\ new.at = at /\ new.by = u /\ new.row = row /\ new.via = via /\ new.role = role
  OBVIOUS
<1> HIDE DEF new
<1>4. QED
  BY <1>1, <1>2, <1>3, QuietStep

LEMMA BeginAcceptanceKeeps ==
  ASSUME IInv, NEW h \in Handler, NEW i \in Invitation, BeginAcceptance(h, i)
  PROVE  IInv'
<1> DEFINE new == [at |-> "accepting", by |-> invitation[i].who, row |-> i,
                   via |-> "delegated", role |-> invitation[i].role]
<1>1. invitation[i].who \in Human \cup {NoOne} /\ invitation[i].role \in Band
  BY DEF IInv, TypeOK, InvitationRow
<1>2. new \in HandlerState
  BY <1>1 DEF HandlerState
<1>3. /\ handler' = [handler EXCEPT ![h] = new]
      /\ permit' = permit /\ invitation' = invitation /\ membership' = membership
      /\ lapsed' \subseteq Invitation
      /\ invitation[i].status # "none"
  BY DEF BeginAcceptance, IInv, TypeOK
<1>4. /\ new.at = "accepting" /\ new.by = invitation[i].who /\ new.row = i
      /\ new.role = invitation[i].role
  OBVIOUS
<1> HIDE DEF new
<1>5. QED
  BY <1>2, <1>3, <1>4, QuietStep

LEMMA AbortKeeps ==
  ASSUME IInv, NEW h \in Handler, Abort(h)
  PROVE  IInv'
<1>1. /\ handler' = [handler EXCEPT ![h] = Idle]
      /\ permit' = permit /\ invitation' = invitation /\ membership' = membership
      /\ lapsed' \subseteq Invitation
  BY DEF Abort, Finish, IInv, TypeOK
<1>2. QED
  BY <1>1, IdleState, QuietStep

\* Locking the row and counting the other owners write nothing.
LEMMA CountKeeps ==
  ASSUME IInv, NEW h \in Handler, LockMembership(h) \/ CountOtherOwners(h)
  PROVE  IInv'
<1>1. PICK at \in {"counting", "counted"} : handler' = [handler EXCEPT ![h].at = at]
  BY DEF LockMembership, CountOtherOwners
<1> DEFINE new == [handler[h] EXCEPT !.at = at]
<1>2. handler[h] \in HandlerState /\ handler[h].row \in Human
  BY DEF IInv, TypeOK, RequestShape, LockMembership, CountOtherOwners, At
<1>3. new \in HandlerState /\ new.at = at /\ new.row = handler[h].row
  BY <1>2 DEF HandlerState
<1>4. /\ handler' = [handler EXCEPT ![h] = new]
      /\ permit' = permit /\ invitation' = invitation /\ membership' = membership
      /\ lapsed' \subseteq Invitation
  BY <1>1 DEF LockMembership, CountOtherOwners, IInv, TypeOK
<1> HIDE DEF new
<1>5. QED
  BY <1>2, <1>3, <1>4, QuietStep

(***************************************************************************)
(* Steps that write a row                                                  *)
(***************************************************************************)

\* What a finished request leaves of the others.
LEMMA Finished ==
  ASSUME IInv, NEW h \in Handler, Finish(h)
  PROVE  /\ handler' \in [Handler -> HandlerState]
         /\ handler'[h].at = "idle"
         /\ \A g \in Handler : g # h => handler'[g] = handler[g]
BY IdleState DEF IInv, TypeOK, Finish

LEMMA AuthorizeKeeps ==
  ASSUME IInv, NEW h \in Handler, NEW p \in Permit, AuthorizeMembership(h, p)
  PROVE  IInv'
<1> DEFINE row == [status |-> "authorized", who |-> handler[h].row, role |-> handler[h].role,
                   via |-> handler[h].via, spentOn |-> NoOne]
<1>1. /\ handler[h].row \in Human /\ handler[h].role \in Band
      /\ handler[h].via \in {"bootstrap", "delegated"}
      /\ handler[h].role = "owner" => handler[h].via = "bootstrap"
  BY DEF IInv, TypeOK, RequestShape, HandlerState, AuthorizeMembership, At
<1>2. row \in PermitRow
  BY <1>1 DEF PermitRow
<1>3. /\ row.status = "authorized" /\ row.who = handler[h].row /\ row.role = handler[h].role
      /\ row.via = handler[h].via /\ row.spentOn = NoOne
  OBVIOUS
<1>4. /\ permit' = [permit EXCEPT ![p] = row]
      /\ invitation' = invitation /\ membership' = membership /\ lapsed' = lapsed
      /\ permit[p].status = "none"
  BY DEF AuthorizeMembership
<1> HIDE DEF row
<1>5. /\ permit' \in [Permit -> PermitRow]
      /\ permit'[p] = row /\ \A q \in Permit : q # p => permit'[q] = permit[q]
  BY <1>2, <1>4 DEF IInv, TypeOK
<1>6. permit[p].spentOn = NoOne
  BY <1>4 DEF IInv, PermitChain
<1>7. /\ handler' \in [Handler -> HandlerState]
      /\ handler'[h].at = "idle"
      /\ \A g \in Handler : g # h => handler'[g] = handler[g]
  BY Finished DEF AuthorizeMembership
<1>8. TypeOK'
  BY <1>4, <1>5, <1>7 DEF IInv, TypeOK
<1>9. RequestShape'
  BY <1>3, <1>4, <1>5, <1>7 DEF IInv, RequestShape
<1>10. PermitChain'
  BY <1>1, <1>3, <1>4, <1>5 DEF IInv, PermitChain
<1>11. InvitationPaid'
  <2>1. \A q \in Permit : permit'[q].spentOn = permit[q].spentOn
    BY <1>3, <1>5, <1>6
  <2>2. QED
    BY <1>4, <2>1 DEF IInv, InvitationPaid
<1>12. MembershipChain' /\ InvitationUsed'
  BY <1>4 DEF IInv, MembershipChain, InvitationUsed
<1>13. QED
  BY <1>8, <1>9, <1>10, <1>11, <1>12 DEF IInv

LEMMA IssueKeeps ==
  ASSUME IInv, NEW h \in Handler, NEW i \in Invitation, IssueInvitation(h, i)
  PROVE  IInv'
<1> DEFINE p == handler[h].row
           row == [status |-> "pending", who |-> permit[p].who, role |-> permit[p].role]
           spent == [permit[p] EXCEPT !.status = "consumed", !.spentOn = i]
<1>1. p \in Permit /\ permit[p].status = "authorized"
  BY DEF IInv, RequestShape, IssueInvitation, At
<1>2. permit[p] \in PermitRow /\ permit[p].who \in Human /\ permit[p].role \in Band
  BY <1>1 DEF IInv, TypeOK, PermitChain, PermitRow
<1>3. /\ row \in InvitationRow
      /\ row.status = "pending" /\ row.who = permit[p].who /\ row.role = permit[p].role
  BY <1>2 DEF InvitationRow
<1>4. /\ spent \in PermitRow
      /\ spent.status = "consumed" /\ spent.spentOn = i /\ spent.who = permit[p].who
      /\ spent.role = permit[p].role /\ spent.via = permit[p].via
  BY <1>2 DEF PermitRow
<1>5. /\ permit' = [permit EXCEPT ![p] = spent]
      /\ invitation' = [invitation EXCEPT ![i] = row]
      /\ membership' = membership /\ lapsed' = lapsed
      /\ invitation[i].status = "none"
  BY DEF IssueInvitation
<1> HIDE DEF p, row, spent
<1>6. /\ permit' \in [Permit -> PermitRow] /\ invitation' \in [Invitation -> InvitationRow]
      /\ permit'[p] = spent /\ \A q \in Permit : q # p => permit'[q] = permit[q]
      /\ invitation'[i] = row
      /\ \A j \in Invitation : j # i => invitation'[j] = invitation[j]
  BY <1>1, <1>3, <1>4, <1>5 DEF IInv, TypeOK
<1>7. /\ handler' \in [Handler -> HandlerState]
      /\ handler'[h].at = "idle"
      /\ \A g \in Handler : g # h => handler'[g] = handler[g]
  BY Finished DEF IssueInvitation
<1>8. /\ \A q \in Permit : permit[q].spentOn # i
      /\ \A q \in Permit : permit[q].spentOn \in Invitation \cup {NoOne}
      /\ permit[p].spentOn = NoOne /\ i # NoOne
  BY <1>1, <1>5, MembershipAssumption DEF IInv, TypeOK, PermitRow, PermitChain
<1>9. TypeOK'
  BY <1>5, <1>6, <1>7 DEF IInv, TypeOK
<1>10. RequestShape'
  <2>1. /\ \A q \in Permit : permit[q].status # "none" => permit'[q].status # "none"
        /\ \A j \in Invitation : invitation[j].status # "none" => invitation'[j] = invitation[j]
    BY <1>4, <1>5, <1>6
  <2>2. QED
    BY <1>7, <2>1 DEF IInv, RequestShape
<1>11. PermitChain'
  <2>1. \A q \in Permit :
         /\ permit'[q].status # "none" =>
              /\ permit'[q].who \in Human
              /\ permit'[q].role = "owner" => permit'[q].via = "bootstrap"
         /\ permit'[q].status = "consumed" <=> permit'[q].spentOn # NoOne
    BY <1>1, <1>2, <1>4, <1>6, <1>8 DEF IInv, PermitChain
  <2>2. \A q \in Permit : permit'[q].spentOn # NoOne =>
              /\ invitation'[permit'[q].spentOn].status # "none"
              /\ invitation'[permit'[q].spentOn].who = permit'[q].who
              /\ invitation'[permit'[q].spentOn].role = permit'[q].role
    <3> SUFFICES ASSUME NEW q \in Permit, permit'[q].spentOn # NoOne
                 PROVE  /\ invitation'[permit'[q].spentOn].status # "none"
                        /\ invitation'[permit'[q].spentOn].who = permit'[q].who
                        /\ invitation'[permit'[q].spentOn].role = permit'[q].role
      OBVIOUS
    <3>1. CASE q = p
      BY <1>3, <1>4, <1>6, <3>1
    <3>2. CASE q # p
      <4>1. permit'[q] = permit[q] /\ permit[q].spentOn # i
            /\ permit[q].spentOn \in Invitation
        BY <1>6, <1>8, <3>2
      <4>2. invitation'[permit[q].spentOn] = invitation[permit[q].spentOn]
        BY <1>6, <4>1
      <4>3. QED
        BY <4>1, <4>2 DEF IInv, PermitChain
    <3>3. QED
      BY <3>1, <3>2
  <2>3. \A q, r \in Permit : permit'[q].spentOn = permit'[r].spentOn
          => q = r \/ permit'[q].spentOn = NoOne
    BY <1>4, <1>6, <1>8 DEF IInv, PermitChain
  <2>4. QED
    BY <2>1, <2>2, <2>3 DEF PermitChain
<1>12. InvitationPaid'
  <2>1. \A q \in Permit : permit[q].spentOn # NoOne => permit'[q].spentOn = permit[q].spentOn
    BY <1>6, <1>8
  <2>2. \A j \in Invitation : j # i => invitation'[j] = invitation[j]
    BY <1>6
  <2>3. permit'[p].spentOn = i /\ invitation'[i].who \in Human
    BY <1>2, <1>3, <1>4, <1>6
  <2>4. NoOne \notin Invitation
    BY MembershipAssumption
  <2>5. QED
    BY <1>1, <2>1, <2>2, <2>3, <2>4 DEF IInv, InvitationPaid
<1>13. MembershipChain' /\ InvitationUsed'
  <2>1. \A u \in Human : membership[u].accepted \in Invitation \cup {NoOne}
    BY DEF IInv, TypeOK, MembershipRow
  <2>2. \A j \in Invitation : invitation[j].status = "accepted" => invitation'[j] = invitation[j]
    BY <1>5, <1>6
  <2>3. invitation'[i].status # "accepted"
    BY <1>3, <1>6
  <2>4. MembershipChain'
    BY <1>5, <2>1, <2>2 DEF IInv, MembershipChain
  <2>5. InvitationUsed'
    BY <1>5, <1>6, <2>3 DEF IInv, InvitationUsed
  <2>6. QED
    BY <2>4, <2>5
<1>14. QED
  BY <1>9, <1>10, <1>11, <1>12, <1>13 DEF IInv

\* What a request spends of an invitation is its status alone.
LEMMA StatusAlone ==
  ASSUME IInv, NEW i \in Invitation, NEW status \in {"accepted", "revoked"},
         invitation' = [invitation EXCEPT ![i].status = status]
  PROVE  /\ invitation' \in [Invitation -> InvitationRow]
         /\ invitation'[i].status = status
         /\ \A j \in Invitation :
              /\ j # i => invitation'[j] = invitation[j]
              /\ invitation'[j].who = invitation[j].who
              /\ invitation'[j].role = invitation[j].role
              /\ invitation[j].status # "none" => invitation'[j].status # "none"
<1> DEFINE new == [invitation[i] EXCEPT !.status = status]
<1>1. invitation \in [Invitation -> InvitationRow] /\ invitation[i] \in InvitationRow
  BY DEF IInv, TypeOK
<1>2. /\ new \in InvitationRow
      /\ new.status = status /\ new.who = invitation[i].who /\ new.role = invitation[i].role
  BY <1>1 DEF InvitationRow
<1>3. invitation' = [invitation EXCEPT ![i] = new]
  OBVIOUS
<1> HIDE DEF new
<1>4. /\ invitation' \in [Invitation -> InvitationRow]
      /\ invitation'[i] = new
      /\ \A j \in Invitation : j # i => invitation'[j] = invitation[j]
  BY <1>1, <1>2, <1>3
<1>5. QED
  BY <1>2, <1>4

\* The requests and the permits only ask of an invitation what no request
\* changes.
LEMMA OthersKept ==
  ASSUME IInv, NEW h \in Handler, Finish(h), permit' = permit,
         \A j \in Invitation :
              /\ invitation'[j].who = invitation[j].who
              /\ invitation'[j].role = invitation[j].role
              /\ invitation'[j].status # "none" <=> invitation[j].status # "none"
  PROVE  RequestShape' /\ PermitChain' /\ InvitationPaid'
<1>1. /\ handler'[h].at = "idle"
      /\ \A g \in Handler : g # h => handler'[g] = handler[g]
  BY Finished
<1>2. RequestShape'
  BY <1>1 DEF IInv, RequestShape
<1>3. PermitChain'
  <2>1. \A p \in Permit : permit[p].spentOn \in Invitation \cup {NoOne}
    BY DEF IInv, TypeOK, PermitRow
  <2>2. QED
    BY <2>1 DEF IInv, PermitChain
<1>4. InvitationPaid'
  BY DEF IInv, InvitationPaid
<1>5. QED
  BY <1>2, <1>3, <1>4

LEMMA AcceptKeeps ==
  ASSUME IInv, NEW h \in Handler, AcceptInvitation(h)
  PROVE  IInv'
<1> DEFINE i == handler[h].row
           who == handler[h].by
           row == [status |-> "active", role |-> handler[h].role, accepted |-> i]
<1>1. /\ i \in Invitation /\ invitation[i].status = "pending"
      /\ invitation[i].who = who /\ invitation[i].role = handler[h].role
  BY DEF IInv, RequestShape, AcceptInvitation, At
<1>2. who \in Human /\ handler[h].role \in Band
  BY <1>1 DEF IInv, TypeOK, HandlerState, InvitationPaid
<1>3. /\ row \in MembershipRow
      /\ row.status = "active" /\ row.role = handler[h].role /\ row.accepted = i
  BY <1>1, <1>2 DEF MembershipRow
<1>4. /\ invitation' = [invitation EXCEPT ![i].status = "accepted"]
      /\ membership' = [membership EXCEPT ![who] = row]
      /\ permit' = permit /\ lapsed' = lapsed /\ Finish(h)
      /\ membership[who].status = "none"
  BY DEF AcceptInvitation
<1> HIDE DEF i, who, row
<1>5. /\ invitation' \in [Invitation -> InvitationRow]
      /\ invitation'[i].status = "accepted"
      /\ \A j \in Invitation :
           /\ j # i => invitation'[j] = invitation[j]
           /\ invitation'[j].who = invitation[j].who
           /\ invitation'[j].role = invitation[j].role
           /\ invitation[j].status # "none" => invitation'[j].status # "none"
  BY <1>1, <1>4, StatusAlone
<1>6. /\ membership' \in [Human -> MembershipRow]
      /\ membership'[who] = row
      /\ \A u \in Human : u # who => membership'[u] = membership[u]
  BY <1>2, <1>3, <1>4 DEF IInv, TypeOK
<1>7. TypeOK'
  BY <1>4, <1>5, <1>6, Finished DEF IInv, TypeOK
<1>8. RequestShape' /\ PermitChain' /\ InvitationPaid'
  BY <1>1, <1>4, <1>5, OthersKept
<1>9. \A u \in Human : membership[u].accepted # i
  BY <1>1, MembershipAssumption DEF IInv, MembershipChain
<1>10. MembershipChain'
  <2> SUFFICES ASSUME NEW u \in Human
               PROVE  /\ membership'[u].accepted # NoOne =>
                           /\ invitation'[membership'[u].accepted].status = "accepted"
                           /\ invitation'[membership'[u].accepted].who = u
                           /\ invitation'[membership'[u].accepted].role = membership'[u].role
                      /\ membership'[u].status = "none" => membership'[u].accepted = NoOne
                      /\ u # Founder /\ membership'[u].status # "none"
                           => membership'[u].accepted # NoOne
    BY DEF MembershipChain
  <2>1. CASE u = who
    BY <1>1, <1>3, <1>5, <1>6, <2>1, MembershipAssumption
  <2>2. CASE u # who
    <3>1. membership'[u] = membership[u]
      BY <1>6, <2>2
    <3>2. membership[u].accepted \in Invitation \cup {NoOne}
      BY DEF IInv, TypeOK, MembershipRow
    <3>3. membership[u].accepted # NoOne
            => invitation'[membership[u].accepted] = invitation[membership[u].accepted]
      BY <1>5, <1>9, <3>2
    <3>4. QED
      BY <3>1, <3>3 DEF IInv, MembershipChain
  <2>3. QED
    BY <2>1, <2>2
<1>11. InvitationUsed'
  <2>1. membership[who].accepted = NoOne
    BY <1>2, <1>4 DEF IInv, MembershipChain
  <2>2. NoOne \notin Invitation
    BY MembershipAssumption
  <2>3. QED
    BY <1>2, <1>3, <1>5, <1>6, <2>1, <2>2 DEF IInv, InvitationUsed
<1>12. QED
  BY <1>7, <1>8, <1>10, <1>11 DEF IInv

LEMMA WithdrawKeeps ==
  ASSUME IInv, NEW h \in Handler, RevokeInvitation(h)
  PROVE  IInv'
<1> DEFINE i == handler[h].row
<1>1. i \in Invitation /\ invitation[i].status = "pending"
  BY DEF IInv, RequestShape, RevokeInvitation, At
<1>2. /\ invitation' = [invitation EXCEPT ![i].status = "revoked"]
      /\ membership' = membership /\ permit' = permit /\ lapsed' = lapsed /\ Finish(h)
  BY DEF RevokeInvitation
<1> HIDE DEF i
<1>3. /\ invitation' \in [Invitation -> InvitationRow]
      /\ invitation'[i].status = "revoked"
      /\ \A j \in Invitation :
           /\ j # i => invitation'[j] = invitation[j]
           /\ invitation'[j].who = invitation[j].who
           /\ invitation'[j].role = invitation[j].role
           /\ invitation[j].status # "none" => invitation'[j].status # "none"
  BY <1>1, <1>2, StatusAlone
<1>4. TypeOK'
  BY <1>2, <1>3, Finished DEF IInv, TypeOK
<1>5. RequestShape' /\ PermitChain' /\ InvitationPaid'
  BY <1>1, <1>2, <1>3, OthersKept
<1>6. MembershipChain'
  <2>1. \A u \in Human : membership[u].accepted \in Invitation \cup {NoOne}
    BY DEF IInv, TypeOK, MembershipRow
  <2>2. \A j \in Invitation : invitation[j].status = "accepted" => invitation'[j] = invitation[j]
    BY <1>1, <1>3
  <2>3. \A u \in Human : membership[u].accepted # NoOne
          => invitation'[membership[u].accepted] = invitation[membership[u].accepted]
    BY <2>1, <2>2 DEF IInv, MembershipChain
  <2>4. membership' = membership /\ MembershipChain
    BY <1>2 DEF IInv
  <2>5. QED
    BY <2>3, <2>4 DEF MembershipChain
<1>7. InvitationUsed'
  BY <1>2, <1>3 DEF IInv, InvitationUsed
<1>8. QED
  BY <1>4, <1>5, <1>6, <1>7 DEF IInv

LEMMA RevokeKeeps ==
  ASSUME IInv, NEW h \in Handler, RevokeMembership(h)
  PROVE  /\ IInv'
         /\ \A u \in Human :
              /\ membership[u].status = "revoked" => membership'[u] = membership[u]
              /\ membership'[u].role = membership[u].role
<1> DEFINE who == handler[h].row
           row == [membership[who] EXCEPT !.status = "revoked"]
<1>1. who \in Human /\ membership[who] \in MembershipRow /\ membership[who].status = "active"
  BY DEF IInv, TypeOK, RequestShape, RevokeMembership, At, Active
<1>2. /\ row \in MembershipRow
      /\ row.status = "revoked" /\ row.role = membership[who].role
      /\ row.accepted = membership[who].accepted
  BY <1>1 DEF MembershipRow
<1>3. /\ membership' = [membership EXCEPT ![who] = row]
      /\ invitation' = invitation /\ permit' = permit /\ lapsed' = lapsed /\ Finish(h)
  BY DEF RevokeMembership
<1> HIDE DEF who, row
<1>4. /\ membership' \in [Human -> MembershipRow]
      /\ membership'[who] = row
      /\ \A u \in Human : u # who => membership'[u] = membership[u]
  BY <1>1, <1>2, <1>3 DEF IInv, TypeOK
<1>5. TypeOK'
  BY <1>3, <1>4, Finished DEF IInv, TypeOK
<1>6. RequestShape' /\ PermitChain' /\ InvitationPaid'
  BY <1>3, OthersKept
<1>7. \A u \in Human : /\ membership'[u].accepted = membership[u].accepted
                       /\ membership'[u].role = membership[u].role
                       /\ membership'[u].status = "none" <=> membership[u].status = "none"
  BY <1>1, <1>2, <1>4
<1>8. MembershipChain' /\ InvitationUsed'
  BY <1>3, <1>7 DEF IInv, MembershipChain, InvitationUsed
<1>9. IInv'
  BY <1>5, <1>6, <1>8 DEF IInv
<1>10. QED
  BY <1>1, <1>4, <1>7, <1>9

(***************************************************************************)
(* Every step                                                              *)
(***************************************************************************)

\* What EndingsAreFinal asks of one step.
Final ==
    /\ \A i \in Invitation : invitation[i].status \in {"accepted", "revoked"} =>
         invitation'[i] = invitation[i]
    /\ \A u \in Human :
         /\ membership[u].status = "revoked" => membership'[u] = membership[u]
         /\ membership[u].status # "none" => membership'[u].role = membership[u].role

LEMMA HandleKeeps ==
  ASSUME IInv, NEW h \in Handler, Handle(h)
  PROVE  IInv' /\ Final
<1>1. ASSUME NEW u \in Human, NEW via \in {"bootstrap", "delegated"},
             NEW who \in Human, NEW role \in Band, BeginAuthorization(h, u, who, via, role)
      PROVE  IInv' /\ Final
  BY <1>1, BeginKeeps DEF BeginAuthorization, Begin, Final
<1>2. ASSUME NEW u \in Human, NEW via \in {"bootstrap", "delegated"},
             NEW p \in Permit, BeginIssuance(h, u, p, via)
      PROVE  IInv' /\ Final
  <2>1. permit[p].role \in Band
    BY DEF IInv, TypeOK, PermitRow
  <2>2. /\ permit[p].status = "authorized"
        /\ Begin(h, "issuing", u, p, via, permit[p].role)
    BY <1>2 DEF BeginIssuance
  <2>3. IInv'
    BY <2>1, <2>2, BeginKeeps
  <2>4. QED
    BY <2>2, <2>3 DEF Begin, Final
<1>3. ASSUME NEW u \in Human, NEW via \in {"bootstrap", "delegated"},
             NEW i \in Invitation, BeginWithdrawal(h, u, i, via)
      PROVE  IInv' /\ Final
  <2>1. invitation[i].role \in Band
    BY DEF IInv, TypeOK, InvitationRow
  <2>2. Begin(h, "withdrawing", u, i, via, invitation[i].role)
    BY <1>3 DEF BeginWithdrawal
  <2>3. IInv'
    BY <2>1, <2>2, BeginKeeps
  <2>4. QED
    BY <2>2, <2>3 DEF Begin, Final
<1>4. ASSUME NEW u \in Human, NEW via \in {"bootstrap", "delegated"},
             NEW who \in Human, BeginRevocation(h, u, who, via)
      PROVE  IInv' /\ Final
  <2>1. membership[who].role \in Band
    BY DEF IInv, TypeOK, MembershipRow
  <2>2. Begin(h, "revoking", u, who, via, membership[who].role)
    BY <1>4 DEF BeginRevocation
  <2>3. IInv'
    BY <2>1, <2>2, BeginKeeps
  <2>4. QED
    BY <2>2, <2>3 DEF Begin, Final
<1>5. ASSUME NEW p \in Permit, AuthorizeMembership(h, p)
      PROVE  IInv' /\ Final
  BY <1>5, AuthorizeKeeps DEF AuthorizeMembership, Final
<1>6. ASSUME NEW i \in Invitation, BeginAcceptance(h, i)
      PROVE  IInv' /\ Final
  BY <1>6, BeginAcceptanceKeeps DEF BeginAcceptance, Final
<1>7. ASSUME NEW i \in Invitation, IssueInvitation(h, i)
      PROVE  IInv' /\ Final
  <2>1. IInv'
    BY <1>7, IssueKeeps
  <2>2. /\ \A j \in Invitation : invitation[j].status # "none" => invitation'[j] = invitation[j]
        /\ membership' = membership
    BY <1>7 DEF IssueInvitation, IInv, TypeOK
  <2>3. QED
    BY <2>1, <2>2 DEF Final
<1>8. CASE AcceptInvitation(h)
  <2>1. IInv'
    BY <1>8, AcceptKeeps
  <2>2. /\ handler[h].row \in Invitation /\ handler[h].by \in Human
        /\ invitation[handler[h].row].status = "pending"
        /\ membership[handler[h].by].status = "none"
    BY <1>8 DEF AcceptInvitation, At, IInv, RequestShape, InvitationPaid
  <2>3. /\ \A j \in Invitation : j # handler[h].row => invitation'[j] = invitation[j]
        /\ \A u \in Human : u # handler[h].by => membership'[u] = membership[u]
    BY <1>8 DEF AcceptInvitation, IInv, TypeOK
  <2>4. QED
    BY <2>1, <2>2, <2>3 DEF Final
<1>9. CASE RevokeInvitation(h)
  <2>1. IInv'
    BY <1>9, WithdrawKeeps
  <2>2. /\ invitation[handler[h].row].status = "pending" /\ membership' = membership
        /\ \A j \in Invitation : j # handler[h].row => invitation'[j] = invitation[j]
    BY <1>9 DEF RevokeInvitation, IInv, TypeOK
  <2>3. QED
    BY <2>1, <2>2 DEF Final
<1>10. CASE LockMembership(h) \/ CountOtherOwners(h)
  <2>1. IInv'
    BY <1>10, CountKeeps
  <2>2. QED
    BY <1>10, <2>1 DEF LockMembership, CountOtherOwners, Final
<1>11. CASE RevokeMembership(h)
  <2>1. invitation' = invitation
    BY <1>11 DEF RevokeMembership
  <2>2. QED
    BY <1>11, <2>1, RevokeKeeps DEF Final
<1>12. CASE Abort(h)
  <2>1. IInv'
    BY <1>12, AbortKeeps
  <2>2. QED
    BY <1>12, <2>1 DEF Abort, Final
<1>13. QED
  BY <1>1, <1>2, <1>3, <1>4, <1>5, <1>6, <1>7, <1>8, <1>9, <1>10, <1>11, <1>12 DEF Handle

LEMMA LapseKeeps ==
  ASSUME IInv, NEW i \in Invitation, Lapse(i)
  PROVE  IInv' /\ Final
<1>1. /\ lapsed' \subseteq Invitation
      /\ permit' = permit /\ invitation' = invitation /\ membership' = membership
      /\ handler' = handler
  BY DEF Lapse, IInv, TypeOK
<1>2. TypeOK' /\ RequestShape'
  BY <1>1 DEF IInv, TypeOK, RequestShape
<1>3. PermitChain' /\ InvitationPaid' /\ MembershipChain' /\ InvitationUsed'
  BY <1>1 DEF IInv, PermitChain, InvitationPaid, MembershipChain, InvitationUsed
<1>4. QED
  BY <1>1, <1>2, <1>3 DEF IInv, Final

LEMMA StepKeeps == IInv /\ [Next]_vars => IInv' /\ (Final \/ UNCHANGED vars)
<1> SUFFICES ASSUME IInv, [Next]_vars PROVE IInv' /\ (Final \/ UNCHANGED vars)
  OBVIOUS
<1>1. CASE UNCHANGED vars
  BY <1>1 DEF vars, IInv, TypeOK, RequestShape, PermitChain, InvitationPaid,
              MembershipChain, InvitationUsed
<1>2. CASE Next
  BY <1>2, HandleKeeps, LapseKeeps DEF Next
<1>3. QED
  BY <1>1, <1>2

(***************************************************************************)
(* The theorems                                                            *)
(***************************************************************************)

\* The three tables agree in every reachable state.
THEOREM Invariant == Spec => []IInv
<1>1. Init => IInv
  BY InitIInv
<1>2. IInv /\ [Next]_vars => IInv'
  BY StepKeeps
<1>3. QED
  BY <1>1, <1>2, PTL DEF Spec

\* Every variable keeps its type (the rows of the three tables).
THEOREM TypeCorrect == Spec => []TypeOK
<1>1. IInv => TypeOK
  BY DEF IInv
<1>2. QED
  BY <1>1, Invariant, PTL

\* Whoever belongs was let in by one chain of rows that agree (accept-invitation
\* and issue-invitation re-ask in their UPDATEs).
THEOREM Admission == Spec => []Provenance
<1>1. IInv => Provenance
  BY ChainsSuffice
<1>2. QED
  BY <1>1, Invariant, PTL

\* No permit invites twice and no invitation admits twice.
THEOREM Spending == Spec => []SpentOnce
<1>1. IInv => SpentOnce
  BY ChainsSuffice
<1>2. QED
  BY <1>1, Invariant, PTL

\* A revoked invitation admits nobody and a revoked membership stays revoked.
THEOREM Endings == Spec => EndingsAreFinal
<1>1. IInv /\ [Next]_vars => [Final]_vars
  BY StepKeeps
<1>2. QED
  BY <1>1, Invariant, PTL DEF Spec, EndingsAreFinal, Final

(***************************************************************************)
(* Where an owner would always remain                                      *)
(*                                                                         *)
(* OwnerRemains is said of the count and is not true of it: two requests   *)
(* lock the rows of two owners and each counts the other.  That is the     *)
(* only way the last owner goes.                                           *)
(***************************************************************************)

Counting(h) == handler[h].at \in {"counting", "counted"}

\* One request at a time counts the owners in order to remove one, as a lock
\* on the tenant rather than on the membership would have it.
OneRemovesAnOwner ==
    \A g, h \in Handler :
        /\ Counting(g) /\ Owner(handler[g].row)
        /\ Counting(h) /\ Owner(handler[h].row)
        => g = h

\* What was counted is still there.
CountsHold ==
    /\ \A h \in Handler : Counting(h) => membership[handler[h].row].status # "none"
    /\ \A h \in Handler : handler[h].at = "counted" /\ Owner(handler[h].row) =>
         \E u \in Human \ {handler[h].row} : Owner(u)

\* What a step other than the removal does to the owners and to a count.
LEMMA OwnersMove ==
  ASSUME IInv, Next, ~\E h \in Handler : RevokeMembership(h)
  PROVE  /\ \A u \in Human : Active(u) => membership'[u] = membership[u]
         /\ \A u \in Human : Owner(u)' => Owner(u) \/ membership[u].status = "none"
         /\ \A h \in Handler : Counting(h)' =>
              \/ handler'[h] = handler[h]
              \/ /\ LockMembership(h) \/ CountOtherOwners(h)
                 /\ handler'[h].row = handler[h].row
                 /\ membership' = membership
<1>1. membership \in [Human -> MembershipRow] /\ handler \in [Handler -> HandlerState]
  BY DEF IInv, TypeOK
<1>2. ASSUME NEW h \in Handler, Handle(h)
      PROVE  /\ \A u \in Human : membership[u].status # "none" => membership'[u] = membership[u]
             /\ \A g \in Handler \ {h} : handler'[g] = handler[g]
             /\ Counting(h)' =>
                  /\ LockMembership(h) \/ CountOtherOwners(h)
                  /\ handler'[h].row = handler[h].row
                  /\ membership' = membership
  <2>1. CASE AcceptInvitation(h)
    <3>1. membership[handler[h].by].status = "none" /\ Finish(h)
      BY <2>1 DEF AcceptInvitation
    <3>2. \A u \in Human : u # handler[h].by => membership'[u] = membership[u]
      BY <1>1, <2>1 DEF AcceptInvitation
    <3> QED
      BY <3>1, <3>2, Finished DEF Counting
  <2>2. CASE LockMembership(h) \/ CountOtherOwners(h)
    BY <1>1, <2>2 DEF LockMembership, CountOtherOwners, HandlerState
  <2>3. CASE \/ \E p \in Permit : AuthorizeMembership(h, p)
             \/ \E i \in Invitation : IssueInvitation(h, i)
             \/ RevokeInvitation(h) \/ Abort(h)
    <3>1. membership' = membership /\ Finish(h)
      BY <2>3 DEF AuthorizeMembership, IssueInvitation, RevokeInvitation, Abort
    <3> QED
      BY <3>1, Finished DEF Counting
  <2>4. ASSUME NEW at \in {"authorizing", "issuing", "withdrawing", "revoking"},
               NEW u, NEW row, NEW via, NEW role, Begin(h, at, u, row, via, role)
        PROVE  /\ membership' = membership /\ handler'[h].at = at
               /\ \A g \in Handler \ {h} : handler'[g] = handler[g]
    BY <1>1, <2>4 DEF Begin
  <2>5. CASE \E u \in Human, via \in {"bootstrap", "delegated"} :
               \/ \E who \in Human, role \in Band : BeginAuthorization(h, u, who, via, role)
               \/ \E p \in Permit : BeginIssuance(h, u, p, via)
               \/ \E i \in Invitation : BeginWithdrawal(h, u, i, via)
               \/ \E who \in Human : BeginRevocation(h, u, who, via)
    <3>1. /\ membership' = membership
          /\ handler'[h].at \in {"authorizing", "issuing", "withdrawing", "revoking"}
          /\ \A g \in Handler \ {h} : handler'[g] = handler[g]
      BY <2>4, <2>5
         DEF BeginAuthorization, BeginIssuance, BeginWithdrawal, BeginRevocation
    <3> QED
      BY <3>1 DEF Counting
  <2>6. CASE \E i \in Invitation : BeginAcceptance(h, i)
    BY <1>1, <2>6 DEF BeginAcceptance, Counting
  <2> QED
    BY <1>2, <2>1, <2>2, <2>3, <2>5, <2>6 DEF Handle
<1>3. ASSUME NEW i \in Invitation, Lapse(i)
      PROVE  membership' = membership /\ handler' = handler
  BY <1>3 DEF Lapse
<1>4. \A u \in Human : membership[u].status # "none" => membership'[u] = membership[u]
  BY <1>2, <1>3 DEF Next
<1>5. ASSUME NEW h \in Handler, Counting(h)'
      PROVE  \/ handler'[h] = handler[h]
             \/ /\ LockMembership(h) \/ CountOtherOwners(h)
                /\ handler'[h].row = handler[h].row
                /\ membership' = membership
  BY <1>2, <1>3, <1>5 DEF Next
<1> QED
  BY <1>4, <1>5 DEF Active, Owner

LEMMA OwnerStep ==
  IInv /\ CountsHold /\ OwnerRemains /\ OneRemovesAnOwner /\ [Next]_vars
    => CountsHold' /\ OwnerRemains'
<1> SUFFICES ASSUME IInv, CountsHold, OwnerRemains, OneRemovesAnOwner, [Next]_vars
             PROVE  CountsHold' /\ OwnerRemains'
  OBVIOUS
<1>1. ASSUME NEW h \in Handler, RevokeMembership(h)
      PROVE  CountsHold' /\ OwnerRemains'
  <2> DEFINE who == handler[h].row
  <2>1. /\ who \in Human /\ handler[h].at = "counted" /\ Counting(h)
        /\ handler'[h].at = "idle"
        /\ \A g \in Handler : g # h => handler'[g] = handler[g]
    BY <1>1, Finished DEF RevokeMembership, At, IInv, RequestShape, Counting
  <2>2. /\ \A u \in Human : u # who => membership'[u] = membership[u]
        /\ membership'[who].status = "revoked"
    BY <1>1, <2>1 DEF RevokeMembership, IInv, TypeOK, MembershipRow
  <2>3. \A u \in Human : u # who => (Owner(u)' <=> Owner(u))
    BY <2>2 DEF Owner, Active
  <2>4. ~Owner(who) => \A u \in Human : Owner(u) => u # who
    OBVIOUS
  <2>5. OwnerRemains'
    <3>1. PICK u \in Human : Owner(u) /\ u # who
      BY <2>1, <2>4 DEF CountsHold, OwnerRemains
    <3> QED
      BY <2>3, <3>1 DEF OwnerRemains
  <2>6. ASSUME NEW g \in Handler, Counting(g)'
        PROVE  membership[handler[g].row].status # "none" /\ handler'[g] = handler[g] /\ g # h
               /\ handler[g].row \in Human /\ Counting(g)
    BY <2>1, <2>6 DEF Counting, CountsHold, IInv, RequestShape
  <2>7. ASSUME NEW g \in Handler, Counting(g)'
        PROVE  membership'[handler'[g].row].status # "none"
    BY <2>2, <2>6, <2>7
  <2>8. ASSUME NEW g \in Handler, handler'[g].at = "counted", Owner(handler[g].row)'
        PROVE  \E u \in Human \ {handler'[g].row} : Owner(u)'
    <3>1. Counting(g)'
      BY <2>8 DEF Counting
    <3>2. g # h /\ handler'[g] = handler[g] /\ handler[g].row \in Human /\ Counting(g)
      BY <2>6, <3>1
    <3>3. handler[g].row # who
      BY <2>2, <2>8, <3>2 DEF Owner, Active
    <3>4. Owner(handler[g].row)
      BY <2>2, <2>8, <3>2, <3>3 DEF Owner, Active
    <3>5. ~Owner(who)
      BY <2>1, <3>2, <3>4 DEF OneRemovesAnOwner
    <3>6. PICK u \in Human \ {handler[g].row} : Owner(u)
      BY <2>8, <3>2, <3>4 DEF CountsHold
    <3> QED
      BY <2>3, <3>2, <3>5, <3>6
  <2> QED
    BY <2>5, <2>7, <2>8 DEF CountsHold
<1>2. CASE Next /\ ~\E h \in Handler : RevokeMembership(h)
  <2>1. /\ \A u \in Human : Active(u) => membership'[u] = membership[u]
        /\ \A u \in Human : Owner(u)' => Owner(u) \/ membership[u].status = "none"
        /\ \A h \in Handler : Counting(h)' =>
              \/ handler'[h] = handler[h]
              \/ /\ LockMembership(h) \/ CountOtherOwners(h)
                 /\ handler'[h].row = handler[h].row
                 /\ membership' = membership
    BY <1>2, OwnersMove
  <2>2. \A u \in Human : Owner(u) => Owner(u)'
    BY <2>1 DEF Owner, Active
  <2>3. OwnerRemains'
    BY <2>2 DEF OwnerRemains
  <2>4. \A u \in Human : membership[u].status # "none" => membership'[u].status # "none"
    <3>1. Final \/ UNCHANGED vars
      BY StepKeeps
    <3>2. \A u \in Human : membership[u].status \in {"none", "active", "revoked"}
      BY DEF IInv, TypeOK, MembershipRow
    <3> QED
      BY <2>1, <3>1, <3>2 DEF Final, vars, Active
  <2>5. ASSUME NEW h \in Handler, Counting(h)'
        PROVE  /\ handler'[h].row = handler[h].row /\ handler[h].row \in Human
               /\ membership[handler[h].row].status # "none"
               /\ handler'[h].at = "counted" =>
                    handler[h].at = "counted" \/ (CountOtherOwners(h) /\ membership' = membership)
    <3>1. CASE handler'[h] = handler[h]
      BY <2>5, <3>1 DEF Counting, CountsHold, IInv, RequestShape
    <3>2. CASE LockMembership(h) /\ handler'[h].row = handler[h].row
      <4>1. handler'[h].at = "counting"
        BY <3>2 DEF LockMembership, IInv, TypeOK, HandlerState
      <4> QED
        BY <3>2, <4>1 DEF LockMembership, At, Active, IInv, RequestShape
    <3>3. CASE CountOtherOwners(h) /\ handler'[h].row = handler[h].row /\ membership' = membership
      BY <3>3 DEF CountOtherOwners, At, Counting, CountsHold, IInv, RequestShape
    <3> QED
      BY <2>1, <2>5, <3>1, <3>2, <3>3
  <2>6. ASSUME NEW h \in Handler, Counting(h)'
        PROVE  membership'[handler'[h].row].status # "none"
    BY <2>4, <2>5, <2>6
  <2>7. ASSUME NEW h \in Handler, handler'[h].at = "counted", Owner(handler[h].row)'
        PROVE  \E u \in Human \ {handler'[h].row} : Owner(u)'
    <3>1. Counting(h)'
      BY <2>7 DEF Counting
    <3>2. PICK who \in Human : who = handler[h].row /\ who = handler'[h].row
      BY <2>5, <3>1
    <3>3. Owner(who)' /\ membership[who].status # "none"
      BY <2>5, <2>7, <3>1, <3>2 DEF Owner, Active
    <3>4. Owner(who)
      BY <2>1, <3>3
    <3>5. \E u \in Human \ {who} : Owner(u)
      <4>1. CASE handler[h].at = "counted"
        BY <3>2, <3>4, <4>1 DEF CountsHold
      <4>2. CASE CountOtherOwners(h)
        BY <3>2, <3>4, <4>2 DEF CountOtherOwners
      <4> QED
        BY <2>5, <2>7, <3>1, <4>1, <4>2
    <3> QED
      BY <2>2, <3>2, <3>5
  <2> QED
    BY <2>3, <2>6, <2>7 DEF CountsHold
<1>3. CASE UNCHANGED vars
  BY <1>3 DEF vars, CountsHold, OwnerRemains, Counting, Owner, Active
<1> QED
  BY <1>1, <1>2, <1>3

\* An active owner always remains, if one request at a time removes an owner:
\* the lock on the membership's own row, which two owners do not share, is all
\* that is missing (revoke-membership counts the others under no lock).
THEOREM OwnerRemainsUnderOneRemoval == Spec /\ []OneRemovesAnOwner => []OwnerRemains
<1>1. Init => CountsHold /\ OwnerRemains
  BY MembershipAssumption
     DEF Init, CountsHold, OwnerRemains, Counting, Owner, Active, Idle
<1> QED
  BY <1>1, OwnerStep, Invariant, PTL DEF Spec
=============================================================================
