------------------------ MODULE MCWorkspaceJournal ------------------------
(* A journal with room for a handful of small records. *)
EXTENDS WorkspaceJournal

CONSTANTS p1, p2

\* a completion record names the attempts it supersedes: it is the largest
SmallRecords == [k \in Kinds |-> IF k = "integrated" THEN 2 ELSE 1]

=============================================================================
