------------------------ MODULE MCWorkspaceRuntime ------------------------
(* Small workspaces for WorkspaceRuntime. *)
EXTENDS WorkspaceRuntime

CONSTANTS u1, u2, s1, c0, c1, c2

NoDeps    == [u \in Units |-> {}]
SecondAfterFirst == [u \in Units |-> IF u = u2 THEN {u1} ELSE {}]

OneAttempt  == [u \in Units |-> 1]
\* one attempt for the unit that others wait for, two for its dependant
MoreForLast == [u \in Units |-> IF u = u2 THEN 2 ELSE 1]

OneSegment == [u \in Units |-> s1]
NoSegments == [u \in Units |-> NoSegment]

Checkpoints == [u \in Units |-> {"checkpoint"}]
NoKinds == [u \in Units |-> {}]

\* c0 <- c1
Line == {<<c0, c1>>}

=============================================================================
