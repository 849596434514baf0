------------------------- MODULE IntegrationChain -------------------------
(***************************************************************************)
(* What an integration promises, whatever it takes to keep the promise: at *)
(* most one attempt is promised to the feature branch at a time, a promise *)
(* is never withdrawn or replaced, and the chain of integrated attempts    *)
(* only grows, by the promised attempt.                                    *)
(*                                                                         *)
(* WorkspaceRuntime implements this with its durable intents and           *)
(* completion records, Integration with every Git step in between.         *)
(***************************************************************************)
EXTENDS Integers, Sequences

CONSTANT Candidates     \* attempts that may be integrated

VARIABLES promised,     \* the attempts with a pending durable intent
          chain         \* the integrated attempts, oldest first

vars == <<promised, chain>>

InChain(a) == \E k \in 1..Len(chain) : chain[k] = a

Init == promised = {} /\ chain = <<>>

Promise(a) ==
    /\ promised = {}
    /\ ~InChain(a)
    /\ promised' = {a}
    /\ UNCHANGED chain

Record(a) ==
    /\ promised = {a}
    /\ promised' = {}
    /\ chain' = Append(chain, a)

Next == \E a \in Candidates : Promise(a) \/ Record(a)

Spec == Init /\ [][Next]_vars

=============================================================================
