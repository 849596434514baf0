---------------------- MODULE MCMaterializationStore ----------------------
(* An artifact at the root and one in a directory, in three desired sets:    *)
(* every pair of them creates, updates, deletes, makes or removes something. *)
EXTENDS MaterializationStore

MCFolder  == [x \in {"b"} |-> "d"]
MCDesires == {[x \in {"a"} |-> 1], [x \in {"a", "b"} |-> IF x = "a" THEN 2 ELSE 1]}
=============================================================================
