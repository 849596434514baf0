--------------------------- MODULE MCIntegration ---------------------------
(* Two attempts to integrate one after the other, in either order. *)
EXTENDS Integration

CONSTANTS a1, a2

=============================================================================
