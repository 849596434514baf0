---------------------------- MODULE RootedFiles ----------------------------
(***************************************************************************)
(* The file operations a store below one verified root is built from.      *)
(* None of them replaces a name, follows a link or removes a file it has   *)
(* not identified: a file is created exclusively, linked or renamed to a   *)
(* vacant name, and removed only if it is the file that a second name, or  *)
(* its expected content, proves it to be.                                  *)
(*                                                                         *)
(* A name is <<parent, base>>; the base of a directory is the parent of    *)
(* what it contains.  Two names with one id are links to one file.  Each   *)
(* operation is the set of directory trees it may lead to, {} where it is  *)
(* refused; it is durable when it returns.                                 *)
(***************************************************************************)
EXTENDS Naturals, FiniteSets

VARIABLE fs     \* what each name refers to

Root   == <<"root", "">>
Absent == [id |-> 0, data |-> <<"none">>]

Exists(n)     == fs[n] # Absent
Holds(n, d)   == fs[n].data = d
SameFile(m, n) == Exists(m) /\ fs[m].id = fs[n].id
Contents(n)   == {m \in DOMAIN fs : m[1] = n[2] /\ Exists(m)}
HasParent(n)  == n[1] = Root \/ \E m \in DOMAIN fs : m[2] = n[1] /\ Exists(m)

\* Mutant: an existing file is replaced.
Replaceable(n) == HasParent(n)

Vacant(n) == ~Exists(n) /\ HasParent(n)

\* An identity that no name refers to.
Fresh == CHOOSE i \in 1 .. Cardinality(DOMAIN fs) + 1 : \A n \in DOMAIN fs : fs[n].id # i

Only(next, permitted) == IF permitted THEN {next} ELSE {}

\* A new file, or a new directory.
Created(n, data) ==
    Only([fs EXCEPT ![n] = [id |-> Fresh, data |-> data]], Vacant(n))

\* One more name for the file at from, which proof identifies.
Linked(from, proof, to) ==
    Only([fs EXCEPT ![to] = fs[from]], SameFile(from, proof) /\ Vacant(to))

\* The file at from gets another name.
Renamed(from, to) ==
    Only([fs EXCEPT ![to] = fs[from], ![from] = Absent], Exists(from) /\ Vacant(to))

\* A directory moves with everything in it.
DirectoryRenamed(from, to) ==
    Only([n \in DOMAIN fs |->
             CASE n = to                          -> fs[from]
               [] n[1] = to[2]                    -> fs[<<from[2], n[2]>>]
               [] n = from \/ n[1] = from[2]      -> Absent
               [] OTHER                           -> fs[n]],
         Exists(from) /\ Vacant(to))

\* A file that proof identifies loses this name; nothing to do when it has none.
Removed(n, proof) ==
    Only([fs EXCEPT ![n] = Absent], Exists(n) => SameFile(n, proof))

\* A file with the expected content loses this name.
Discarded(n, data) ==
    Only([fs EXCEPT ![n] = Absent], Exists(n) => Holds(n, data))

\* An empty directory is removed.
DirectoryRemoved(n) ==
    Only([fs EXCEPT ![n] = Absent], Exists(n) /\ Contents(n) = {})
=============================================================================
