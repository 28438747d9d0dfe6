------------------------ MODULE MCStandingObservation ------------------------
(* Small instances of StandingObservation for TLC. *)
EXTENDS StandingObservation, TLC

CONSTANTS se, me, du, so, ma, t1, t2, w1, w2, i1, i2

\* One lineage of each kind; the observed scope may be authorized on two terms.
OneOfEach ==
    se :> "external_send" @@ me :> "machine_execution" @@ du :> "data_use"
    @@ so :> "standing_observation" @@ ma :> "mandate"

TwoForObservation == [l \in Lineage |-> IF l = so THEN {t1, t2} ELSE {t1}]

\* t1 every two instants, t2 every three.
TwoOrThree == t1 :> 2 @@ t2 :> 3

\* The instance is explored in parts: all kinds and both sessions while
\* nothing is observed; or one session at a time on the observed scope, and
\* then either one invocation at a time or a switch and a connection that stay.
Apart ==
    \/ observation = {} /\ clock = 0 /\ \A i \in Invoker : invoker[i] = Idle
    \/ /\ \A l \in Lineage \ {so} : lineage[l] = <<>>
       /\ \A h \in Writer : writer[h].on \in {so, NoOne}
       /\ Cardinality({h \in Writer : writer[h] # NoWrite}) <= 1
       /\ (enabled /\ unfit = {}) \/ \E i \in Invoker : invoker[i] = Idle

Itself == [l \in Scope |-> l]

OneScope == so :> "standing_observation"

Sessions == Permutations(Writer) \cup Permutations(Invoker)
Invocations == Permutations(Invoker)
=============================================================================
