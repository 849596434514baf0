-------------------------- MODULE MCWorkspaceInit --------------------------
(* Two operators with definitions of two workspaces, for one directory.    *)
EXTENDS WorkspaceInit

MCWorkspaceOf == [d \in Definitions |-> IF d = "i" THEN "v" ELSE "w"]
=============================================================================
