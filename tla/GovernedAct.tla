----------------------------- MODULE GovernedAct -----------------------------
(***************************************************************************)
(* What the governed action chain promises about one act, with every       *)
(* handler, lock and retry left out: an act is proposed before it is       *)
(* decided, authorized at most once, ended at most once - spent or         *)
(* withdrawn, never both - and performed at most once, only when spent.    *)
(***************************************************************************)
CONSTANT Act

VARIABLE phase

Phase == {"none", "proposed", "declined", "authorized", "withdrawn", "spent",
          "performed"}

TypeOK == phase \in [Act -> Phase]

Init == phase = [a \in Act |-> "none"]

Move(a, from, to) == phase[a] = from /\ phase' = [phase EXCEPT ![a] = to]

Propose(a) == Move(a, "none", "proposed")
Decline(a) == Move(a, "proposed", "declined")
Authorize(a) == Move(a, "proposed", "authorized")
Withdraw(a) == Move(a, "authorized", "withdrawn")
Spend(a) == Move(a, "authorized", "spent")
Perform(a) == Move(a, "spent", "performed")

Next ==
    \E a \in Act :
        Propose(a) \/ Decline(a) \/ Authorize(a) \/ Withdraw(a) \/ Spend(a) \/ Perform(a)

Spec == Init /\ [][Next]_phase
=============================================================================
