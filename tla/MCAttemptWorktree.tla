------------------------- MODULE MCAttemptWorktree -------------------------
(* Two attempts on a tree with a directory, a blob in it and a gitlink.    *)
EXTENDS AttemptWorktree

MCParent == [d |-> Top, f |-> "d", s |-> Top, x |-> "s"]
=============================================================================
