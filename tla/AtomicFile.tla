---------------------------- MODULE AtomicFile ----------------------------
(***************************************************************************)
(* What the replacement of a file promises to those who read it: the file  *)
(* has one value at a time, or none, a replacement takes effect at once or *)
(* not at all, and a read finds the value of that moment.                  *)
(***************************************************************************)
CONSTANTS
    Readers,
    Values,
    None         \* the file does not exist

VARIABLES
    value,       \* the value of the file, or None
    found        \* per reader: what its last read found, or None

vars == <<value, found>>

Init == value = None /\ found = [r \in Readers |-> None]

Replace(v) == value' = v /\ UNCHANGED found

Remove == value # None /\ value' = None /\ UNCHANGED found

Read(r) == found' = [found EXCEPT ![r] = value] /\ UNCHANGED value

Next ==
    \/ \E v \in Values : Replace(v)
    \/ Remove
    \/ \E r \in Readers : Read(r)

Spec == Init /\ [][Next]_vars

=============================================================================
