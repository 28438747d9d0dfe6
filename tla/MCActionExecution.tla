------------------------- MODULE MCActionExecution -------------------------
(* Small instances of ActionExecution for TLC. *)
EXTENDS ActionExecution, TLC

CONSTANTS a1, r1, r2, r3, v1, d1, h1, h2

Alike == Permutations(Request) \cup Permutations(Executor)
Executors == Permutations(Executor)

\* Publications of one revision to one account, proposed by humans.
Human == [r \in Request |-> NoOne]
OneRevision == [r \in Request |-> v1]
OneDestination == [r \in Request |-> d1]

\* r1 is a publication an agent proposed, the others are e-mail sends.
AgentProposes == [r \in Request |-> IF r = r1 THEN a1 ELSE NoOne]
FirstPublishes == [r \in Request |-> IF r = r1 THEN v1 ELSE NoOne]

\* Nothing a target stands on goes; the publication r1 may lose its artifact
\* and its package; it may lose its media.
Lasting == [r \in Request |-> {}]
TargetMayGo == [r \in Request |-> IF r = r1 THEN {"record", "package"} ELSE {}]
MediaMayGo == [r \in Request |-> IF r = r1 THEN {"media"} ELSE {}]
=============================================================================
