--------------------------- MODULE RevisionLineage ---------------------------
(***************************************************************************)
(* What a governed authority promises about its history, whatever it       *)
(* governs: revisions are only ever added at the end, each by a human who  *)
(* had been shown exactly the revision it replaces; nothing is withdrawn   *)
(* that is not in force, and a withdrawal brings no terms of its own.      *)
(***************************************************************************)
EXTENDS Naturals, Sequences

CONSTANTS Lineage, Terms, NoOne
VARIABLE lineage

InForce(l) == lineage[l] # <<>> /\ lineage[l][Len(lineage[l])].state = "active"

Init == lineage = [l \in Lineage |-> <<>>]

Extend(l, r) == lineage' = [lineage EXCEPT ![l] = Append(@, r)]

Activate(l, t) ==
    Extend(l, [state |-> "active", terms |-> t, shown |-> Len(lineage[l])])

Withdraw(l, t) ==
    /\ InForce(l)
    /\ t \in {NoOne, lineage[l][Len(lineage[l])].terms}
    /\ Extend(l, [state |-> "withdrawn", terms |-> t, shown |-> Len(lineage[l])])

Next == \E l \in Lineage, t \in Terms \cup {NoOne} : Activate(l, t) \/ Withdraw(l, t)

Spec == Init /\ [][Next]_lineage
=============================================================================
