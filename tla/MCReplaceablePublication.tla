--------------------- MODULE MCReplaceablePublication ---------------------
(* A file with two possible contents, shared by a few processes. *)
EXTENDS ReplaceablePublication

CONSTANTS p1, p2, p3, v1, v2

=============================================================================
