------------------- MODULE MaterializationSuccessProofs --------------------
(***************************************************************************)
(* A synchronisation that reports success while no user interfered leaves  *)
(* what was asked for, whatever earlier ones were cut off where: for every *)
(* set of artifacts and directories, every family of desired sets and any  *)
(* number of user changes and crashes.                                     *)
(*                                                                         *)
(* The invariant has three parts.  The ledger: bytes that no user wrote    *)
(* are below an artifact's name only where the active inventory, or the    *)
(* transaction that a record describes, says so.  The path: what is left   *)
(* of a synchronisation passes the phases of the protocol in their order,  *)
(* and no step names a file that its phase has no business with.  The      *)
(* facts: what each phase may rely on, when it is reached.                 *)
(***************************************************************************)
EXTENDS MaterializationStoreProofs

-----------------------------------------------------------------------------
(* The phases of a synchronisation *)

Kind(n) == n[2][1]

\* The kinds of names that the file of an artifact may have.
ArtifactKinds ==
    {"artifact", "stage", "stage-proof", "activation", "source-proof", "quarantine"}

Temporary   == Reserved("pending-temporary", "")
RecordOf(p) == <<"pending", p>>

\* A name that says nothing about what is owned, or what is known to be under way.
Plain(n) == n # Inventory /\ Kind(n) \notin {"artifact", "pending", "cleanup", "pending-temporary"}

\* A file with a new name, and one that is renamed, belong to the phase of that name.
NewPhase(n) ==
    CASE Kind(n) \in {"ownership", "ownership-proof", "root-claim", "control"} -> "bootstrap"
      [] Kind(n) = "pending-temporary" -> "write record"
      [] Kind(n) = "pending-proof"     -> "prove record"
      [] Kind(n) = "cleanup"           -> "record cleanup"
      [] \/ Kind(n) \in {"preparation", "activation", "artifact"}
         \/ Kind(n) = "claim" /\ n[1] # Staging -> "place"
      [] OTHER -> "prepare"

RenamePhase(n) ==
    CASE Kind(n) = "pending-temporary"           -> "publish"
      [] Kind(n) \in {"control", "temporary"}    -> "switch"
      [] Kind(n) = "claim" /\ n[1][1] = "directory-quarantine" -> "sweep"
      [] OTHER -> "place"

PrepareItems == {"stage", "anchor", "source", "captured", "prepared", "staged"}
ApplyItems   == {"quarantine", "quarantined", "remove directory", "directory removed",
                 "make directory", "directory prepared", "directory made",
                 "activate", "activated", "install", "installed"}
SweepItems   == {"sweep quarantine", "sweep directory", "sweep activation", "sweep claim",
                 "sweep control", "sweep stage", "sweep staging"}

Phase(s) ==
    CASE s[1] \in PrepareItems -> "prepare"
      [] s[1] \in ApplyItems   -> "place"
      [] s[1] \in SweepItems \cup {"unlink", "rmdir"} -> "sweep"
      [] s[1] = "create"  -> NewPhase(s[2])
      [] s[1] = "link"    -> NewPhase(s[4])
      [] s[1] = "rename"  -> RenamePhase(s[2])
      [] s[1] = "discard" -> IF Kind(s[2]) = "cleanup" THEN "forget" ELSE "sweep"
      [] OTHER -> s[1]

\* The phases that a phase may go on with.
Followers(c) ==
    CASE c \in {"settle", "confirm", "resume"} -> {"compare"}
      [] c = "bootstrap"              -> {"bootstrap", "settle"}
      [] c = "prepare"                -> {"prepare", "write record"}
      [] c = "write record"           -> {"prove record"}
      [] c = "prove record"           -> {"publish"}
      [] c = "publish"                -> {"apply"}
      [] c = "apply"                  -> {"mark"}
      [] c \in {"place", "move"}      -> {"place", "verify"}
      [] c = "verify"                 -> {"switch"}
      [] c = "switch"                 -> {"switch", "mark", "resume"}
      [] c = "record cleanup"         -> {"mark"}
      [] c \in {"mark", "sweep"}      -> {"sweep", "swept"}
      [] c = "swept"                  -> {"forget"}
      [] c = "forget"                 -> {"settle", "confirm", "finish"}
      [] OTHER -> {}

\* A synchronisation may fail in every phase, and what comes after is never reached.
\* A transaction that is resumed is followed by the comparison, which comes last.
Follows(c, d) ==
    \/ d = "fail" /\ c \notin {"resume", "compare", "finish"}
    \/ c = "fail" /\ d # "move"
    \/ d \in Followers(c)

Wanted(p)  == DOMAIN p.next.owned
Covered(p) == Wanted(p) \cup Deletes(p)

\* What a file operation of a transaction may name.
CreateFits(s, p) == Plain(s[2]) \/ (s[2] = Temporary /\ s[3] = RecordOf(p))

LinkFits(s, p) ==
    /\ Kind(s[2]) \in ArtifactKinds <=> Kind(s[4]) \in ArtifactKinds
    /\ \/ Plain(s[4])
       \/ s[2] = Pending /\ s[4] = Cleanup
       \/ \E a \in Wanted(p) : s[4] = Target(a)

RenameFits(s, p) ==
    /\ Kind(s[2]) \in ArtifactKinds <=> Kind(s[3]) \in ArtifactKinds
    /\ \/ Plain(s[2]) /\ Plain(s[3])
       \/ s[2] = Temporary /\ s[3] = Pending
       \/ /\ Kind(s[2]) \in {"control", "temporary"}
          /\ Kind(s[3]) \in {"control", "control-quarantine"}
       \/ \E a \in Covered(p) : \/ s[2] = Target(a) /\ s[3] = Owned("quarantine", a)
                                \/ s[2] = Owned("quarantine", a) /\ s[3] = Target(a)

MoveFits(s) ==
    \E d \in Directories : \/ s[2] = Directory(d) /\ s[3] = Quarantined(d)
                           \/ s[2] \in {Preparation(d), Quarantined(d)} /\ s[3] = Directory(d)

UnlinkFits(s) == Plain(s[2]) \/ (s[2] = Pending /\ s[3] = Cleanup)

DiscardFits(s, p) == Plain(s[2]) \/ (s[2] = Cleanup /\ s[3] = RecordOf(p))

Fits(s, p) ==
    /\ s[1] = "create"  => CreateFits(s, p)
    /\ s[1] = "link"    => LinkFits(s, p)
    /\ s[1] = "rename"  => RenameFits(s, p)
    /\ s[1] = "move"    => MoveFits(s)
    /\ s[1] = "unlink"  => UnlinkFits(s)
    /\ s[1] = "discard" => DiscardFits(s, p)
    /\ s[1] = "rmdir"   => Plain(s[2])

Fitting(p) == {s \in Steps(p) : Fits(s, p)}

Ends == {"compare", "finish", "fail"}

\* Sequences of steps whose phases follow one another up to an end.
Ways(p) ==
    {t \in Seq(Fitting(p)) : /\ t # <<>> /\ t[Len(t)][1] \in Ends
                             /\ \A i \in 1 .. Len(t) - 1 : Follows(Phase(t[i]), Phase(t[i + 1]))}

-----------------------------------------------------------------------------
(* The inductive invariant *)

\* Artifacts with bytes that no user wrote.
Ours == {a \in Artifacts : Exists(Target(a)) /\ ~Holds(Target(a), UserBytes)}

NoRecord    == ~Exists(Pending) /\ ~Exists(Cleanup)
Record      == IF Exists(Cleanup) THEN Cleanup ELSE Pending
Clear       == \A n \in Transient \cup {Pending} : ~Exists(n)
Switched(p) == Holds(Inventory, InventoryOf(p.next))
Arrived     == \A a \in Wanted(pending) : Holds(Target(a), NewContent(pending, a))
Finishing   == Running /\ todo[Len(todo)][1] = "finish"

\* Generated bytes are where the inventory, or else the transaction, has them.
Backed(p) == Ours \subseteq Covered(p) /\ (Switched(p) => Ours \subseteq Wanted(p))

LedgerInv ==
    /\ NoRecord => Ours \subseteq DOMAIN Active.owned
    /\ ~NoRecord => Decodes(Record) /\ Backed(Recorded(Record))

\* The files of artifacts and those of the store are different ones.
ApartInv ==
    \A m, n \in Names : SameFile(m, n) => (Kind(m) \in ArtifactKinds <=> Kind(n) \in ArtifactKinds)

\* The file of an artifact that is not where the artifact belongs is a user's: a directory
\* that has not got its name, or has lost it, has nothing generated in it.
HiddenInv ==
    \A n \in Names :
        Kind(n) = "artifact" /\ Exists(n) /\ (\A a \in Artifacts : n # Target(a))
            => Holds(n, UserBytes)

PathInv == todo = <<>> \/ todo = Loading \/ todo \in Ways(pending)

AimInv == Finishing => pending.next.owned = desired

\* What a phase relies on.
Fact(c) ==
    /\ c \in {"bootstrap", "settle", "confirm", "compare", "prepare", "write record",
              "prove record", "publish", "finish"} => NoRecord
    /\ c \in {"apply", "place", "move", "verify", "switch", "resume", "mark", "record cleanup",
              "sweep", "swept", "forget"} => Exists(Record) /\ Holds(Record, RecordOf(pending))
    /\ c \in {"confirm", "compare", "forget", "finish"} => Clear
    /\ c \in {"prepare", "write record", "prove record", "publish"} =>
          Finishing /\ Ours \subseteq Covered(pending)
    /\ c \in {"prove record", "publish"} => Holds(Temporary, RecordOf(pending))
    /\ c \in {"prepare", "write record", "prove record", "publish", "place", "move", "verify"}
          => ~Switched(pending)
    /\ c = "apply" => (Finishing => ~Switched(pending))
    /\ c = "switch" => Ours \subseteq Wanted(pending)
    /\ c \in {"switch", "mark", "record cleanup", "sweep", "swept", "forget", "finish"} =>
          (Finishing /\ calm => Arrived)
    /\ c \in {"sweep", "swept", "forget", "finish"} => Switched(pending)

FactInv == Running => Fact(Phase(Head(todo)))

\* Nothing generated is in a directory that is about to be quarantined.
MoveInv ==
    Running /\ Head(todo)[1] = "move" =>
        \A a \in Ours : Target(a)[1] # Head(todo)[2][2]

OutcomeInv == SuccessIsDesired

SuccessInv ==
    /\ LedgerInv /\ ApartInv /\ HiddenInv
    /\ PathInv /\ AimInv /\ FactInv /\ MoveInv /\ OutcomeInv

-----------------------------------------------------------------------------
(* Sequences of steps *)

\* The phases of which there are several steps, and the steps of such a phase.
Loops == {"bootstrap", "prepare", "place", "switch", "sweep"}

InPhase(c, p) == {s \in Fitting(p) : Phase(s) \in {c, "fail"}}

\* Steps that begin in one of the phases C, before steps that begin in one of D.
Leads(y, C, D, p) ==
    /\ y \in Seq(Fitting(p))
    /\ \A t \in Ways(p) : Phase(Head(t)) \in D \cup {"fail"} =>
          /\ y \o t \in Ways(p) /\ Phase(Head(y \o t)) \in C \cup {"fail"}
          /\ (y \o t)[Len(y \o t)] = t[Len(t)]

\* What is known of a sequence of steps.
LEMMA WayParts ==
    ASSUME NEW p, NEW t \in Ways(p)
    PROVE  /\ t \in Seq(Fitting(p)) /\ t # <<>> /\ Len(t) \in Nat \ {0} /\ Head(t) = t[1]
           /\ Head(t) \in Fitting(p)
           /\ t[Len(t)][1] \in Ends
           /\ \A i \in 1 .. Len(t) : t[i] \in Fitting(p)
           /\ \A i \in 1 .. Len(t) - 1 : Follows(Phase(t[i]), Phase(t[i + 1]))
PROOF
<1> DEFINE S == Fitting(p)
<1>1. t \in Seq(S) /\ t # <<>>
  BY DEF Ways
<1>2. /\ t[Len(t)][1] \in Ends
      /\ \A i \in 1 .. Len(t) - 1 : Follows(Phase(t[i]), Phase(t[i + 1]))
  BY DEF Ways
<1> HIDE DEF S
<1>3. Len(t) \in Nat \ {0} /\ Head(t) = t[1] /\ \A i \in 1 .. Len(t) : t[i] \in S
  BY <1>1
<1>4. QED
  BY <1>1, <1>2, <1>3 DEF S

\* Conversely.
LEMMA IsWay ==
    ASSUME NEW p, NEW t \in Seq(Fitting(p)), Len(t) > 0, t[Len(t)][1] \in Ends,
           \A i \in 1 .. Len(t) - 1 : Follows(Phase(t[i]), Phase(t[i + 1]))
    PROVE  t \in Ways(p) /\ Head(t) = t[1]
PROOF
<1> DEFINE S == Fitting(p)
<1>1. t \in Seq(S)
  OBVIOUS
<1> HIDE DEF S
<1>2. t # <<>> /\ Head(t) = t[1]
  BY <1>1
<1>3. QED
  BY <1>2 DEF Ways

\* One more step.
LEMMA OneMore ==
    ASSUME NEW p, NEW s \in Fitting(p), NEW t \in Ways(p), Follows(Phase(s), Phase(Head(t)))
    PROVE  /\ <<s>> \o t \in Ways(p) /\ Head(<<s>> \o t) = s
           /\ (<<s>> \o t)[Len(<<s>> \o t)] = t[Len(t)]
PROOF
<1> DEFINE S == Fitting(p)
           x == <<s>>
<1>1. x \in Seq(S) /\ Len(x) = 1 /\ x[1] = s
  OBVIOUS
<1>2. /\ t \in Seq(S) /\ Len(t) \in Nat \ {0} /\ Head(t) = t[1] /\ t[Len(t)][1] \in Ends
      /\ \A i \in 1 .. Len(t) - 1 : Follows(Phase(t[i]), Phase(t[i + 1]))
  BY WayParts
<1>3. PICK u : u = x \o t
  OBVIOUS
<1> HIDE DEF S, x
<1>4. /\ u \in Seq(S) /\ Len(u) = Len(t) + 1
      /\ u[1] = s /\ \A i \in 1 .. Len(t) : u[i + 1] = t[i]
  <2>1. /\ u \in Seq(S) /\ Len(u) = Len(x) + Len(t)
        /\ \A i \in 1 .. Len(x) + Len(t) : u[i] = IF i <= Len(x) THEN x[i] ELSE t[i - Len(x)]
    BY <1>1, <1>2, <1>3, ConcatProperties
  <2>2. QED
    BY <1>1, <1>2, <2>1
<1>5. u[Len(u)] = t[Len(t)]
  BY <1>2, <1>4
<1>6. ASSUME NEW i \in 1 .. Len(u) - 1
      PROVE  Follows(Phase(u[i]), Phase(u[i + 1]))
  <2>1. CASE i = 1
    <3>1. u[i] = s /\ u[i + 1] = Head(t)
      BY <1>2, <1>4, <2>1
    <3>2. QED
      BY <3>1
  <2>2. CASE i # 1
    <3>1. i - 1 \in 1 .. Len(t) - 1 /\ u[i] = t[i - 1] /\ u[i + 1] = t[(i - 1) + 1]
      BY <1>2, <1>4, <2>2
    <3>2. QED
      BY <1>2, <3>1
  <2>3. QED
    BY <2>1, <2>2
<1>7. u \in Ways(p) /\ Head(u) = s
  <2>1. u \in Seq(Fitting(p)) /\ Len(u) > 0 /\ u[Len(u)][1] \in Ends
    BY <1>2, <1>4, <1>5 DEF S
  <2>2. QED
    BY <1>4, <1>6, <2>1, IsWay
<1>8. QED
  BY <1>3, <1>5, <1>7 DEF x

\* One step before others.
LEMMA LeadsOne ==
    ASSUME NEW p, NEW s \in Fitting(p), NEW D,
           \A d \in D \cup {"fail"} : Follows(Phase(s), d)
    PROVE  Leads(<<s>>, {Phase(s)}, D, p)
PROOF
<1>1. <<s>> \in Seq(Fitting(p))
  OBVIOUS
<1>2. ASSUME NEW t \in Ways(p), Phase(Head(t)) \in D \cup {"fail"}
      PROVE  /\ <<s>> \o t \in Ways(p) /\ Phase(Head(<<s>> \o t)) \in {Phase(s)} \cup {"fail"}
             /\ (<<s>> \o t)[Len(<<s>> \o t)] = t[Len(t)]
  <2>1. Follows(Phase(s), Phase(Head(t)))
    BY <1>2
  <2>2. QED
    BY <2>1, OneMore
<1>3. QED
  BY <1>1, <1>2 DEF Leads

\* One sequence before another.
LEMMA LeadsJoin ==
    ASSUME NEW p, NEW x, NEW y, NEW C, NEW D, NEW E, Leads(x, C, D, p), Leads(y, D, E, p)
    PROVE  Leads(x \o y, C, E, p)
PROOF
<1> DEFINE S == Fitting(p)
<1>1. x \in Seq(S) /\ y \in Seq(S)
  BY DEF Leads
<1>2. x \o y \in Seq(S)
  <2> HIDE DEF S
  <2>1. QED
    BY <1>1, Joined
<1>3. ASSUME NEW t \in Ways(p), Phase(Head(t)) \in E \cup {"fail"}
      PROVE  /\ (x \o y) \o t \in Ways(p) /\ Phase(Head((x \o y) \o t)) \in C \cup {"fail"}
             /\ ((x \o y) \o t)[Len((x \o y) \o t)] = t[Len(t)]
  <2>1. t \in Seq(S)
    BY WayParts
  <2>2. (x \o y) \o t = x \o (y \o t)
    <3> HIDE DEF S
    <3>1. QED
      BY <1>1, <2>1, ConcatAssociative
  <2>3. PICK u : u = y \o t
    OBVIOUS
  <2>4. u \in Ways(p) /\ Phase(Head(u)) \in D \cup {"fail"} /\ u[Len(u)] = t[Len(t)]
    BY <1>3, <2>3 DEF Leads
  <2>5. /\ x \o u \in Ways(p) /\ Phase(Head(x \o u)) \in C \cup {"fail"}
        /\ (x \o u)[Len(x \o u)] = u[Len(u)]
    BY <2>4 DEF Leads
  <2>6. QED
    BY <2>2, <2>3, <2>4, <2>5
<1>4. QED
  BY <1>2, <1>3 DEF Leads

\* More phases to begin in, or fewer to go on with.
LEMMA LeadsWeaker ==
    ASSUME NEW p, NEW y, NEW C, NEW D, NEW B, NEW E, Leads(y, C, D, p), C \subseteq B, E \subseteq D
    PROVE  Leads(y, B, E, p)
PROOF
<1>1. y \in Seq(Fitting(p))
  BY DEF Leads
<1>2. ASSUME NEW t \in Ways(p), Phase(Head(t)) \in E \cup {"fail"}
      PROVE  /\ y \o t \in Ways(p) /\ Phase(Head(y \o t)) \in B \cup {"fail"}
             /\ (y \o t)[Len(y \o t)] = t[Len(t)]
  <2>1. Phase(Head(t)) \in D \cup {"fail"}
    BY <1>2
  <2>2. /\ y \o t \in Ways(p) /\ Phase(Head(y \o t)) \in C \cup {"fail"}
        /\ (y \o t)[Len(y \o t)] = t[Len(t)]
    BY <2>1 DEF Leads
  <2>3. QED
    BY <2>2
<1>3. QED
  BY <1>1, <1>2 DEF Leads

\* What the phases of which there are several steps go on with.
Onward(c) == {c} \cup Followers(c)

\* A phase goes on with itself, or with what follows, or fails.
LEMMA Loop ==
    ASSUME NEW c \in Loops
    PROVE  /\ Followers(c) \subseteq Onward(c) /\ c \in Followers(c) /\ c # "fail"
           /\ "move" \notin Onward(c) /\ Onward(c) = Followers(c)
           /\ \A b \in {c, "fail"} : \A d \in Onward(c) \cup {"fail"} : Follows(b, d)
           /\ \A d : Follows(c, d) => d \in Onward(c) \cup {"fail"}
PROOF
<1>1. CASE c = "bootstrap"
  BY <1>1 DEF Onward, Followers, Follows
<1>2. CASE c = "prepare"
  BY <1>2 DEF Onward, Followers, Follows
<1>3. CASE c = "place"
  BY <1>3 DEF Onward, Followers, Follows
<1>4. CASE c = "switch"
  BY <1>4 DEF Onward, Followers, Follows
<1>5. CASE c = "sweep"
  BY <1>5 DEF Onward, Followers, Follows
<1>6. QED
  BY <1>1, <1>2, <1>3, <1>4, <1>5 DEF Loops

\* Any number of steps of a phase that goes on with itself.
LEMMA LeadsBlock ==
    ASSUME NEW p, NEW c \in Loops, NEW y \in Seq(InPhase(c, p))
    PROVE  Leads(y, Onward(c), Onward(c), p)
PROOF
<1> DEFINE S == Fitting(p)
           D == Onward(c)
<1>1. y \in Seq(S) /\ Len(y) \in Nat
  <2>1. InPhase(c, p) \subseteq S
    BY DEF InPhase
  <2> HIDE DEF S
  <2>2. QED
    BY <2>1, SeqMonotonic
<1>2. \A i \in 1 .. Len(y) : Phase(y[i]) \in {c, "fail"}
  <2> DEFINE P == InPhase(c, p)
  <2>1. \A s \in P : Phase(s) \in {c, "fail"}
    BY DEF InPhase
  <2> HIDE DEF P
  <2>2. \A i \in 1 .. Len(y) : y[i] \in P
    BY DEF P
  <2>3. QED
    BY <2>1, <2>2
<1>3. /\ \A b \in {c, "fail"} : \A d \in D \cup {"fail"} : Follows(b, d)
      /\ {c, "fail"} \subseteq D \cup {"fail"}
  BY Loop
<1>4. ASSUME NEW t \in Ways(p), Phase(Head(t)) \in D \cup {"fail"}
      PROVE  /\ y \o t \in Ways(p) /\ Phase(Head(y \o t)) \in D \cup {"fail"}
             /\ (y \o t)[Len(y \o t)] = t[Len(t)]
  <2>1. /\ t \in Seq(S) /\ Len(t) \in Nat \ {0} /\ Head(t) = t[1] /\ t[Len(t)][1] \in Ends
        /\ \A i \in 1 .. Len(t) - 1 : Follows(Phase(t[i]), Phase(t[i + 1]))
    BY WayParts
  <2>2. PICK u : u = y \o t
    OBVIOUS
  <2> HIDE DEF S, D
  <2>3. /\ u \in Seq(S) /\ Len(u) = Len(y) + Len(t)
        /\ \A i \in 1 .. Len(y) : u[i] = y[i]
        /\ \A i \in 1 .. Len(t) : u[i + Len(y)] = t[i]
    <3>1. /\ u \in Seq(S) /\ Len(u) = Len(y) + Len(t)
          /\ \A i \in 1 .. Len(y) + Len(t) : u[i] = IF i <= Len(y) THEN y[i] ELSE t[i - Len(y)]
      BY <1>1, <2>1, <2>2, ConcatProperties
    <3>2. ASSUME NEW i \in 1 .. Len(y)
          PROVE  u[i] = y[i]
      BY <1>1, <2>1, <3>1
    <3>3. ASSUME NEW i \in 1 .. Len(t)
          PROVE  u[i + Len(y)] = t[i]
      <4>1. /\ i + Len(y) \in 1 .. Len(y) + Len(t) /\ ~(i + Len(y) <= Len(y))
            /\ (i + Len(y)) - Len(y) = i
        BY <1>1, <2>1
      <4>2. QED
        BY <3>1, <4>1
    <3>4. QED
      BY <3>1, <3>2, <3>3
  <2>4. u[Len(u)] = t[Len(t)]
    <3>1. Len(t) \in 1 .. Len(t) /\ Len(u) = Len(t) + Len(y)
      BY <1>1, <2>1, <2>3
    <3>2. QED
      BY <2>3, <3>1
  <2>5. Phase(u[1]) \in D \cup {"fail"}
    <3>1. CASE Len(y) = 0
      BY <1>4, <2>1, <2>3, <3>1
    <3>2. CASE Len(y) > 0
      BY <1>1, <1>2, <1>3, <2>3, <3>2
    <3>3. QED
      BY <1>1, <3>1, <3>2
  <2>6. ASSUME NEW i \in 1 .. Len(u) - 1
        PROVE  Follows(Phase(u[i]), Phase(u[i + 1]))
    <3>1. CASE i < Len(y)
      <4>1. i \in 1 .. Len(y) /\ i + 1 \in 1 .. Len(y)
        BY <1>1, <2>1, <2>3, <3>1
      <4>2. Phase(u[i]) \in {c, "fail"} /\ Phase(u[i + 1]) \in {c, "fail"}
        BY <1>2, <2>3, <4>1
      <4>3. QED
        BY <1>3, <4>2
    <3>2. CASE i = Len(y)
      <4>1. i \in 1 .. Len(y) /\ 1 \in 1 .. Len(t) /\ i + 1 = 1 + Len(y)
        BY <1>1, <2>1, <2>3, <3>2
      <4>2. u[i] = y[i] /\ u[i + 1] = Head(t)
        BY <2>1, <2>3, <4>1
      <4>3. QED
        BY <1>2, <1>3, <1>4, <4>1, <4>2
    <3>3. CASE i > Len(y)
      <4> DEFINE j == i - Len(y)
      <4>1. /\ j \in 1 .. Len(t) - 1 /\ j \in 1 .. Len(t) /\ j + 1 \in 1 .. Len(t)
            /\ i = j + Len(y) /\ i + 1 = (j + 1) + Len(y)
        BY <1>1, <2>1, <2>3, <3>3
      <4> HIDE DEF j
      <4>2. u[i] = t[j] /\ u[i + 1] = t[j + 1]
        BY <1>1, <2>1, <2>3, <4>1
      <4>3. QED
        BY <2>1, <4>1, <4>2
    <3>4. QED
      BY <1>1, <2>1, <2>3, <3>1, <3>2, <3>3
  <2>7. u \in Ways(p) /\ Head(u) = u[1]
    <3>1. u \in Seq(Fitting(p)) /\ Len(u) > 0 /\ u[Len(u)][1] \in Ends
      BY <1>1, <2>1, <2>3, <2>4 DEF S
    <3>2. QED
      BY <2>6, <3>1, IsWay
  <2>8. QED
    BY <2>2, <2>4, <2>5, <2>7
<1>5. QED
  BY <1>1, <1>4 DEF Leads

\* What is left after a step that is not the last one.
LEMMA WayTail ==
    ASSUME NEW p, NEW t \in Ways(p), Head(t)[1] \notin Ends
    PROVE  /\ Tail(t) \in Ways(p) /\ Follows(Phase(Head(t)), Phase(Head(Tail(t))))
           /\ Tail(t)[Len(Tail(t))] = t[Len(t)]
PROOF
<1> DEFINE S == Fitting(p)
<1>1. /\ t \in Seq(S) /\ t # <<>> /\ Len(t) \in Nat \ {0} /\ Head(t) = t[1]
      /\ t[Len(t)][1] \in Ends
      /\ \A i \in 1 .. Len(t) - 1 : Follows(Phase(t[i]), Phase(t[i + 1]))
  BY WayParts
<1>2. Len(t) # 1
  BY <1>1
<1>3. PICK u : u = Tail(t)
  OBVIOUS
<1> HIDE DEF S
<1>4. u \in Seq(S) /\ Len(u) = Len(t) - 1 /\ \A i \in 1 .. Len(u) : u[i] = t[i + 1]
  BY <1>1, <1>3, HeadTailProperties
<1>5. Len(u) > 0 /\ u[Len(u)] = t[Len(t)] /\ u[1] = t[2]
  BY <1>1, <1>2, <1>4
<1>6. \A i \in 1 .. Len(u) - 1 : Follows(Phase(u[i]), Phase(u[i + 1]))
  BY <1>1, <1>4
<1>7. u \in Ways(p) /\ Head(u) = u[1]
  <2>1. u \in Seq(Fitting(p)) /\ u[Len(u)][1] \in Ends
    BY <1>1, <1>4, <1>5 DEF S
  <2>2. QED
    BY <1>5, <1>6, <2>1, IsWay
<1>8. Follows(Phase(t[1]), Phase(t[2]))
  BY <1>1, <1>2
<1>9. QED
  BY <1>1, <1>3, <1>5, <1>7, <1>8

\* A last step alone.
LEMMA LastStep ==
    ASSUME NEW p, NEW s \in Fitting(p), s[1] \in Ends
    PROVE  <<s>> \in Ways(p) /\ Head(<<s>>) = s /\ <<s>>[Len(<<s>>)] = s
PROOF
<1> DEFINE S == Fitting(p)
           x == <<s>>
<1>1. x \in Seq(S) /\ Len(x) = 1 /\ x[1] = s
  OBVIOUS
<1>2. x \in Seq(Fitting(p))
  BY <1>1 DEF S
<1> HIDE DEF S, x
<1>3. Len(x) > 0 /\ x[Len(x)][1] \in Ends /\ 1 .. Len(x) - 1 = {}
  BY <1>1
<1>4. x \in Ways(p) /\ Head(x) = s
  BY <1>1, <1>2, <1>3, IsWay
<1>5. QED
  BY <1>1, <1>4 DEF x

-----------------------------------------------------------------------------
(* The phases of single steps *)

\* The kinds of names.
LEMMA NameKind ==
    ASSUME NEW k, NEW i
    PROVE  /\ Kind(Reserved(k, i)) = k /\ Kind(Owned(k, i)) = k /\ Kind(Staged(k, i)) = k
           /\ Kind(Target(i)) = "artifact" /\ Kind(Claim(i)) = "claim"
           /\ Kind(Pending) = "pending" /\ Kind(Cleanup) = "cleanup"
           /\ Kind(PendingProof) = "pending-proof" /\ Kind(Temporary) = "pending-temporary"
           /\ Kind(Inventory) = "control" /\ Kind(State) = "control"
           /\ Kind(OwnershipRoot) = "ownership" /\ Kind(StagingRoot) = "staging"
           /\ Kind(Directory(i)) = "directory" /\ Kind(Preparation(i)) = "preparation"
           /\ Kind(Quarantined(i)) = "directory-quarantine"
PROOF
<1>1. ASSUME NEW l, NEW j
      PROVE  Kind(Reserved(l, j)) = l /\ Kind(Owned(l, j)) = l /\ Kind(Staged(l, j)) = l
  BY DEF Kind, Reserved, Owned, Staged
<1>2. Kind(Target(i)) = "artifact" /\ Kind(Claim(i)) = "claim"
  BY DEF Kind, Target, Claim
<1>3. /\ Kind(Pending) = "pending" /\ Kind(Cleanup) = "cleanup"
      /\ Kind(PendingProof) = "pending-proof" /\ Kind(Temporary) = "pending-temporary"
      /\ Kind(Inventory) = "control" /\ Kind(State) = "control"
      /\ Kind(OwnershipRoot) = "ownership" /\ Kind(StagingRoot) = "staging"
  BY <1>1 DEF Pending, Cleanup, PendingProof, Temporary, Inventory, State, OwnershipRoot,
              StagingRoot
<1>4. /\ Kind(Directory(i)) = "directory" /\ Kind(Preparation(i)) = "preparation"
      /\ Kind(Quarantined(i)) = "directory-quarantine"
  BY <1>1 DEF Directory, Preparation, Quarantined
<1>5. QED
  BY <1>1, <1>2, <1>3, <1>4

\* Names that say nothing about what is owned.
LEMMA PlainNames ==
    /\ \A n : Kind(n) \notin {"artifact", "pending", "cleanup", "pending-temporary", "control"}
                => Plain(n)
    /\ Plain(State)
PROOF
<1>1. State # Inventory
  BY DEF State, Inventory, Reserved
<1>2. QED
  BY <1>1, NameKind DEF Plain

\* The one element of a sequence.
LEMMA OneElement ==
    ASSUME NEW S, NEW s
    PROVE  <<s>> \in Seq(S) <=> s \in S
PROOF
<1>1. ASSUME <<s>> \in Seq(S)
      PROVE  s \in S
  <2>1. Len(<<s>>) = 1 /\ <<s>>[1] = s
    OBVIOUS
  <2> DEFINE x == <<s>>
  <2>2. x \in Seq(S) /\ Len(x) = 1 /\ x[1] = s
    BY <1>1, <2>1
  <2> HIDE DEF x
  <2>3. x[1] \in S
    BY <2>2
  <2>4. QED
    BY <2>2, <2>3
<1>2. ASSUME s \in S
      PROVE  <<s>> \in Seq(S)
  BY <1>2
<1>3. QED
  BY <1>1, <1>2

OperationNamed == {"create", "link", "rename", "move", "unlink", "discard", "rmdir"}

\* A step with one of the phases of an inspection.
LEMMA ItemPhases ==
    ASSUME NEW k, NEW x
    PROVE  /\ k \in PrepareItems => Phase(<<k, x>>) = "prepare"
           /\ k \in ApplyItems => Phase(<<k, x>>) = "place"
           /\ k \in SweepItems => Phase(<<k, x>>) = "sweep"
           /\ k \in {"load", "settle", "confirm", "resume", "compare", "finish", "apply", "verify",
                     "switch", "mark", "swept"} => Phase(<<k, x>>) = k
PROOF
<1>1. <<k, x>>[1] = k
  OBVIOUS
<1>2. QED
  BY <1>1 DEF Phase, PrepareItems, ApplyItems, SweepItems

\* An inspection names no file.
LEMMA ItemFits ==
    ASSUME NEW p, NEW k, k \notin OperationNamed, NEW x, Then(k, x) \in Seq(Steps(p))
    PROVE  /\ <<k, x>> \in Fitting(p)
           /\ \A c : Phase(<<k, x>>) = c => Then(k, x) \in Seq(InPhase(c, p))
PROOF
<1> DEFINE s == <<k, x>>
<1>1. s[1] = k
  OBVIOUS
<1>2. s \in Steps(p)
  BY OneElement DEF Then
<1> HIDE DEF s
<1>3. s \in Fitting(p)
  BY <1>1, <1>2 DEF Fitting, Fits, OperationNamed
<1>4. ASSUME NEW c, Phase(s) = c
      PROVE  <<s>> \in Seq(InPhase(c, p))
  <2>1. s \in InPhase(c, p)
    BY <1>3, <1>4 DEF InPhase
  <2>2. QED
    BY <2>1, OneElement
<1>5. QED
  BY <1>3, <1>4 DEF s, Then

\* The failing of a synchronisation belongs to every phase.
LEMMA FailFits ==
    ASSUME NEW p
    PROVE  /\ <<"fail">> \in Fitting(p) /\ Phase(<<"fail">>) = "fail"
           /\ \A c : Fail \in Seq(InPhase(c, p)) /\ <<>> \in Seq(InPhase(c, p))
PROOF
<1> DEFINE s == <<"fail">>
<1>1. s[1] = "fail"
  OBVIOUS
<1>2. Fail \in Seq(Steps(p))
  BY OperationSteps
<1>3. s \in Steps(p)
  BY <1>2, OneElement DEF Fail
<1> HIDE DEF s
<1>4. Phase(s) = "fail"
  BY <1>1 DEF Phase, PrepareItems, ApplyItems, SweepItems
<1>5. s \in Fitting(p)
  BY <1>1, <1>3 DEF Fitting, Fits
<1>6. ASSUME NEW c
      PROVE  <<s>> \in Seq(InPhase(c, p))
  <2>1. s \in InPhase(c, p)
    BY <1>4, <1>5 DEF InPhase
  <2>2. QED
    BY <2>1, OneElement
<1>7. QED
  BY <1>4, <1>5, <1>6 DEF s, Fail

\* A file or a directory gets a name.
LEMMA CreateIn ==
    ASSUME NEW p, NEW x, NEW y, Create(x, y) \in Seq(Steps(p)),
           Plain(x) \/ (x = Temporary /\ y = RecordOf(p))
    PROVE  Create(x, y) \in Seq(InPhase(NewPhase(x), p))
PROOF
<1> DEFINE s == <<"create", x, y>>
<1>1. s[1] = "create" /\ s[2] = x /\ s[3] = y
  OBVIOUS
<1>2. s \in Steps(p)
  BY OneElement DEF Create
<1> HIDE DEF s
<1>3. s \in Fitting(p)
  BY <1>1, <1>2 DEF Fitting, Fits, CreateFits
<1>4. Phase(s) = NewPhase(x)
  BY <1>1 DEF Phase, PrepareItems, ApplyItems, SweepItems
<1>5. s \in InPhase(NewPhase(x), p)
  BY <1>3, <1>4 DEF InPhase
<1>6. QED
  BY <1>5, OneElement DEF s, Create

\* A file gets one more name.
LEMMA LinkIn ==
    ASSUME NEW p, NEW x, NEW w, NEW y, LinkVerified(x, w, y) \in Seq(Steps(p)),
           Kind(x) \in ArtifactKinds <=> Kind(y) \in ArtifactKinds,
           Plain(y) \/ (x = Pending /\ y = Cleanup) \/ (\E a \in Wanted(p) : y = Target(a))
    PROVE  LinkVerified(x, w, y) \in Seq(InPhase(NewPhase(y), p))
PROOF
<1> DEFINE s == <<"link", x, w, y>>
<1>1. s[1] = "link" /\ s[2] = x /\ s[4] = y
  OBVIOUS
<1>2. s \in Steps(p)
  BY OneElement DEF LinkVerified
<1> HIDE DEF s
<1>3. s \in Fitting(p)
  BY <1>1, <1>2 DEF Fitting, Fits, LinkFits
<1>4. Phase(s) = NewPhase(y)
  BY <1>1 DEF Phase, PrepareItems, ApplyItems, SweepItems
<1>5. s \in InPhase(NewPhase(y), p)
  BY <1>3, <1>4 DEF InPhase
<1>6. QED
  BY <1>5, OneElement DEF s, LinkVerified

\* A file is renamed.
LEMMA RenameIn ==
    ASSUME NEW p, NEW x, NEW y, Rename(x, y) \in Seq(Steps(p)),
           Kind(x) \in ArtifactKinds <=> Kind(y) \in ArtifactKinds,
           \/ Plain(x) /\ Plain(y)
           \/ x = Temporary /\ y = Pending
           \/ Kind(x) \in {"control", "temporary"} /\ Kind(y) \in {"control", "control-quarantine"}
           \/ \E a \in Covered(p) : \/ x = Target(a) /\ y = Owned("quarantine", a)
                                    \/ x = Owned("quarantine", a) /\ y = Target(a)
    PROVE  Rename(x, y) \in Seq(InPhase(RenamePhase(x), p))
PROOF
<1> DEFINE s == <<"rename", x, y>>
<1>1. s[1] = "rename" /\ s[2] = x /\ s[3] = y
  OBVIOUS
<1>2. s \in Steps(p)
  BY OneElement DEF Rename
<1> HIDE DEF s
<1>3. s \in Fitting(p)
  BY <1>1, <1>2 DEF Fitting, Fits, RenameFits
<1>4. Phase(s) = RenamePhase(x)
  BY <1>1 DEF Phase, PrepareItems, ApplyItems, SweepItems
<1>5. s \in InPhase(RenamePhase(x), p)
  BY <1>3, <1>4 DEF InPhase
<1>6. QED
  BY <1>5, OneElement DEF s, Rename

\* A directory is moved.
LEMMA MoveIn ==
    ASSUME NEW p, NEW x, NEW y, Move(x, y) \in Seq(Steps(p)), NEW d \in Directories,
           \/ x = Directory(d) /\ y = Quarantined(d)
           \/ x \in {Preparation(d), Quarantined(d)} /\ y = Directory(d)
    PROVE  <<"move", x, y>> \in Fitting(p) /\ Phase(<<"move", x, y>>) = "move"
PROOF
<1> DEFINE s == <<"move", x, y>>
<1>1. s[1] = "move" /\ s[2] = x /\ s[3] = y
  OBVIOUS
<1>2. s \in Steps(p)
  BY OneElement DEF Move
<1> HIDE DEF s
<1>3. s \in Fitting(p)
  BY <1>1, <1>2 DEF Fitting, Fits, MoveFits
<1>4. Phase(s) = "move"
  BY <1>1 DEF Phase, PrepareItems, ApplyItems, SweepItems
<1>5. QED
  BY <1>3, <1>4 DEF s

\* A file or an empty directory is removed.
LEMMA RemoveIn ==
    ASSUME NEW p, NEW x, NEW y
    PROVE  /\ Unlink(x, y) \in Seq(Steps(p)) /\ (Plain(x) \/ (x = Pending /\ y = Cleanup)) =>
                Unlink(x, y) \in Seq(InPhase("sweep", p))
           /\ Discard(x, y) \in Seq(Steps(p)) /\ Plain(x) =>
                Discard(x, y) \in Seq(InPhase("sweep", p))
           /\ RemoveEmpty(x) \in Seq(Steps(p)) /\ Plain(x) =>
                RemoveEmpty(x) \in Seq(InPhase("sweep", p))
           /\ Discard(Cleanup, RecordOf(p)) \in Seq(Steps(p)) =>
                Discard(Cleanup, RecordOf(p)) \in Seq(InPhase("forget", p))
PROOF
<1>1. ASSUME Unlink(x, y) \in Seq(Steps(p)), Plain(x) \/ (x = Pending /\ y = Cleanup)
      PROVE  Unlink(x, y) \in Seq(InPhase("sweep", p))
  <2> DEFINE s == <<"unlink", x, y>>
  <2>1. s[1] = "unlink" /\ s[2] = x /\ s[3] = y
    OBVIOUS
  <2>2. s \in Steps(p)
    BY <1>1, OneElement DEF Unlink
  <2> HIDE DEF s
  <2>3. s \in Fitting(p)
    BY <1>1, <2>1, <2>2 DEF Fitting, Fits, UnlinkFits
  <2>4. Phase(s) = "sweep"
    BY <2>1 DEF Phase, PrepareItems, ApplyItems, SweepItems
  <2>5. s \in InPhase("sweep", p)
    BY <2>3, <2>4 DEF InPhase
  <2>6. QED
    BY <2>5, OneElement DEF s, Unlink
<1>2. ASSUME Discard(x, y) \in Seq(Steps(p)), Plain(x)
      PROVE  Discard(x, y) \in Seq(InPhase("sweep", p))
  <2> DEFINE s == <<"discard", x, y>>
  <2>1. s[1] = "discard" /\ s[2] = x /\ s[3] = y
    OBVIOUS
  <2>2. s \in Steps(p)
    BY <1>2, OneElement DEF Discard
  <2> HIDE DEF s
  <2>3. s \in Fitting(p)
    BY <1>2, <2>1, <2>2 DEF Fitting, Fits, DiscardFits
  <2>4. Phase(s) = "sweep"
    BY <1>2, <2>1 DEF Phase, PrepareItems, ApplyItems, SweepItems, Plain
  <2>5. s \in InPhase("sweep", p)
    BY <2>3, <2>4 DEF InPhase
  <2>6. QED
    BY <2>5, OneElement DEF s, Discard
<1>3. ASSUME RemoveEmpty(x) \in Seq(Steps(p)), Plain(x)
      PROVE  RemoveEmpty(x) \in Seq(InPhase("sweep", p))
  <2> DEFINE s == <<"rmdir", x>>
  <2>1. s[1] = "rmdir" /\ s[2] = x
    OBVIOUS
  <2>2. s \in Steps(p)
    BY <1>3, OneElement DEF RemoveEmpty
  <2> HIDE DEF s
  <2>3. s \in Fitting(p)
    BY <1>3, <2>1, <2>2 DEF Fitting, Fits
  <2>4. Phase(s) = "sweep"
    BY <2>1 DEF Phase, PrepareItems, ApplyItems, SweepItems
  <2>5. s \in InPhase("sweep", p)
    BY <2>3, <2>4 DEF InPhase
  <2>6. QED
    BY <2>5, OneElement DEF s, RemoveEmpty
<1>4. ASSUME Discard(Cleanup, RecordOf(p)) \in Seq(Steps(p))
      PROVE  Discard(Cleanup, RecordOf(p)) \in Seq(InPhase("forget", p))
  <2>1. PICK n, r : n = Cleanup /\ r = RecordOf(p)
    OBVIOUS
  <2> DEFINE s == <<"discard", n, r>>
  <2>2. s[1] = "discard" /\ s[2] = n /\ s[3] = r
    OBVIOUS
  <2>3. s \in Steps(p)
    BY <1>4, <2>1, OneElement DEF Discard
  <2> HIDE DEF s
  <2>4. s \in Fitting(p)
    BY <2>1, <2>2, <2>3 DEF Fitting, Fits, DiscardFits
  <2>5. Phase(s) = "forget"
    BY <2>1, <2>2, NameKind DEF Phase, PrepareItems, ApplyItems, SweepItems
  <2>6. s \in InPhase("forget", p)
    BY <2>4, <2>5 DEF InPhase
  <2>7. QED
    BY <2>1, <2>6, OneElement DEF s, Discard
<1>5. QED
  BY <1>1, <1>2, <1>3, <1>4

-----------------------------------------------------------------------------
(* The inspections *)

\* What the invariant says of a running synchronisation that is past its start.
LEMMA OnTheWay ==
    ASSUME SuccessInv, Running, Head(todo)[1] # "load"
    PROVE  /\ todo \in Ways(pending) /\ Head(todo) \in Steps(pending) /\ Fits(Head(todo), pending)
           /\ Fact(Phase(Head(todo)))
PROOF
<1>1. todo \in Ways(pending)
  BY LoadingParts DEF SuccessInv, PathInv, Running
<1>2. Head(todo) \in Fitting(pending)
  BY <1>1, WayParts
<1>3. QED
  BY <1>1, <1>2 DEF Fitting, SuccessInv, FactInv

\* What does not depend on what is left to do.
LEMMA SameState ==
    ASSUME SuccessInv, UNCHANGED <<fs, desired, result, calm>>
    PROVE  LedgerInv' /\ ApartInv' /\ HiddenInv' /\ OutcomeInv'
PROOF
<1>1. LedgerInv'
  BY DEF SuccessInv, LedgerInv, NoRecord, Ours, Active, Record, Backed, Switched, Covered, Wanted,
         Decodes, Recorded, Exists, Holds
<1>2. ApartInv' /\ HiddenInv'
  BY DEF SuccessInv, ApartInv, HiddenInv, SameFile, Exists, Holds
<1>3. OutcomeInv'
  BY DEF SuccessInv, OutcomeInv, SuccessIsDesired, Active, Exists, Holds
<1>4. QED
  BY <1>1, <1>2, <1>3

\* What a phase relies on, when the same end is ahead.
LEMMA SameFacts ==
    ASSUME NEW c, Fact(c), UNCHANGED <<fs, run, calm>>, Finishing' <=> Finishing
    PROVE  Fact(c)'
PROOF
<1>1. UNCHANGED <<fs, desired, pending, calm>>
  BY DEF run
<1>2. /\ NoRecord' <=> NoRecord
      /\ (Exists(Record) /\ Holds(Record, RecordOf(pending)))'
            <=> (Exists(Record) /\ Holds(Record, RecordOf(pending)))
      /\ Clear' <=> Clear
      /\ Holds(Temporary, RecordOf(pending))' <=> Holds(Temporary, RecordOf(pending))
  BY <1>1 DEF NoRecord, Record, Clear, Exists, Holds
<1>3. /\ Ours' = Ours /\ Covered(pending)' = Covered(pending)
      /\ Wanted(pending)' = Wanted(pending)
      /\ Switched(pending)' <=> Switched(pending)
      /\ Arrived' <=> Arrived
  BY <1>1 DEF Ours, Covered, Wanted, Switched, Arrived, Exists, Holds
<1>4. (Finishing /\ calm => Arrived)' <=> (Finishing /\ calm => Arrived)
  BY <1>1, <1>3
<1>5. (Finishing => ~Switched(pending))' <=> (Finishing => ~Switched(pending))
  BY <1>3
<1>6. (Finishing /\ Ours \subseteq Covered(pending))'
         <=> (Finishing /\ Ours \subseteq Covered(pending))
  BY <1>3
<1>7. QED
  BY <1>2, <1>3, <1>4, <1>5, <1>6 DEF Fact

\* A phase that goes on with itself hands on what it relies on.
LEMMA FactOnward ==
    ASSUME NEW c \in Loops, Fact(c), NEW d \in Onward(c) \cup {"fail"}
    PROVE  Fact(d)
PROOF
<1>1. Fact("fail")
  BY DEF Fact
<1>2. CASE c = "bootstrap"
  BY <1>1, <1>2 DEF Onward, Followers, Fact
<1>3. CASE c = "prepare"
  BY <1>1, <1>3 DEF Onward, Followers, Fact
<1>4. CASE c = "place"
  BY <1>1, <1>4 DEF Onward, Followers, Fact
<1>5. CASE c = "switch"
  BY <1>1, <1>5 DEF Onward, Followers, Fact
<1>6. CASE c = "sweep"
  BY <1>1, <1>6 DEF Onward, Followers, Fact
<1>7. QED
  BY <1>2, <1>3, <1>4, <1>5, <1>6 DEF Loops

\* An inspection keeps the invariant if the phase after it finds what it relies on.
LEMMA GoesOn ==
    ASSUME SuccessInv, Running, Head(todo)[1] # "load", NEW steps, Continue(steps),
           todo' \in Ways(pending), todo'[Len(todo')] = todo[Len(todo)],
           NEW d, Phase(Head(todo')) = d, Fact(d), MoveInv'
    PROVE  SuccessInv'
PROOF
<1>1. UNCHANGED <<fs, run, result, calm>> /\ UNCHANGED <<fs, desired, result, calm>>
  BY DEF Continue, run
<1>2. LedgerInv' /\ ApartInv' /\ HiddenInv' /\ OutcomeInv'
  BY <1>1, SameState
<1>3. Running' /\ PathInv'
  BY <1>1 DEF PathInv, Ways, Running, run
<1>4. Finishing' <=> Finishing
  BY <1>3 DEF Finishing
<1>5. AimInv'
  BY <1>1, <1>4 DEF SuccessInv, AimInv, run
<1>6. Fact(d)'
  BY <1>1, <1>4, SameFacts
<1>7. FactInv'
  BY <1>6 DEF FactInv
<1>8. QED
  BY <1>2, <1>3, <1>5, <1>7 DEF SuccessInv

\* Only the move of a directory has the phase of a move.
LEMMA NoMove ==
    ASSUME Phase(Head(todo')) # "move"
    PROVE  MoveInv'
PROOF
<1>1. ASSUME NEW s, s[1] = "move"
      PROVE  Phase(s) = "move"
  BY <1>1 DEF Phase, PrepareItems, ApplyItems, SweepItems
<1>2. QED
  BY <1>1 DEF MoveInv

\* An inspection that stays in its phase keeps the invariant.
LEMMA StaysInPhase ==
    ASSUME SuccessInv, Running, NEW c \in Loops, Phase(Head(todo)) = c,
           Head(todo)[1] \notin Ends, Head(todo)[1] # "load",
           NEW steps \in Seq(InPhase(c, pending)), Continue(steps)
    PROVE  SuccessInv'
PROOF
<1>1. todo \in Ways(pending) /\ Fact(c)
  BY OnTheWay
<1>2. /\ Tail(todo) \in Ways(pending) /\ Follows(c, Phase(Head(Tail(todo))))
      /\ Tail(todo)[Len(Tail(todo))] = todo[Len(todo)]
  BY <1>1, WayTail
<1>3. Phase(Head(Tail(todo))) \in Onward(c) \cup {"fail"} /\ "move" \notin Onward(c)
  BY <1>2, Loop
<1>4. Leads(steps, Onward(c), Onward(c), pending)
  BY LeadsBlock
<1>5. todo' = steps \o Tail(todo)
  BY DEF Continue
<1>6. /\ todo' \in Ways(pending) /\ Phase(Head(todo')) \in Onward(c) \cup {"fail"}
      /\ todo'[Len(todo')] = todo[Len(todo)]
  BY <1>2, <1>3, <1>4, <1>5 DEF Leads
<1>7. PICK d \in Onward(c) \cup {"fail"} : Phase(Head(todo')) = d
  BY <1>6
<1>8. Fact(d)
  BY <1>1, FactOnward
<1>9. MoveInv'
  BY <1>3, <1>7, NoMove
<1>10. QED
  BY <1>6, <1>7, <1>8, <1>9, GoesOn

\* A check that only decides whether to go on keeps the invariant, if what comes
\* next finds what it relies on when the check succeeds.
LEMMA ChecksOn ==
    ASSUME SuccessInv, Running, Head(todo)[1] \notin Ends, Head(todo)[1] # "load",
           NEW condition, Continue(When(condition, Fail)),
           NEW D, "move" \notin D,
           \A d : Follows(Phase(Head(todo)), d) => d \in D \cup {"fail"},
           ~condition => \A d \in D : Fact(d)
    PROVE  SuccessInv'
PROOF
<1>1. todo \in Ways(pending)
  BY OnTheWay
<1>2. PICK t : t = Tail(todo)
  OBVIOUS
<1>3. /\ t \in Ways(pending) /\ Follows(Phase(Head(todo)), Phase(Head(t)))
      /\ t[Len(t)] = todo[Len(todo)]
  BY <1>1, <1>2, WayTail
<1>4. Phase(Head(t)) \in D \cup {"fail"}
  BY <1>3
<1>5. todo' = When(condition, Fail) \o t
  BY <1>2 DEF Continue
<1>6. Fact("fail")
  BY DEF Fact
<1>7. CASE condition
  <2>1. Leads(Fail, {"fail"}, {Phase(Head(t))}, pending)
    <3>1. \A d \in {Phase(Head(t))} \cup {"fail"} : Follows("fail", d)
      BY <1>4 DEF Follows
    <3>2. QED
      BY <3>1, FailFits, LeadsOne DEF Fail
  <2>2. todo' = Fail \o t
    BY <1>5, <1>7 DEF When
  <2>3. /\ todo' \in Ways(pending) /\ Phase(Head(todo')) = "fail"
        /\ todo'[Len(todo')] = todo[Len(todo)]
    BY <1>3, <2>1, <2>2 DEF Leads
  <2>4. MoveInv'
    BY <2>3, NoMove
  <2>5. QED
    BY <1>6, <2>3, <2>4, GoesOn
<1>8. CASE ~condition
  <2>1. t \in Seq(Fitting(pending))
    BY <1>3, WayParts
  <2>2. todo' = t
    BY <1>5, <1>8, <2>1, ConcatEmptySeq DEF When
  <2>3. PICK d : Phase(Head(t)) = d
    OBVIOUS
  <2>4. Fact(d) /\ d # "move"
    BY <1>4, <1>6, <1>8, <2>3
  <2>5. MoveInv'
    BY <2>2, <2>3, <2>4, NoMove
  <2>6. QED
    BY <1>3, <2>2, <2>3, <2>4, <2>5, GoesOn
<1>9. QED
  BY <1>7, <1>8

-----------------------------------------------------------------------------
(* The inspections that stay in their phase *)

\* The phase of a new name follows from its kind, and that of a renamed file.
LEMMA KindPhases ==
    ASSUME NEW n
    PROVE  /\ Kind(n) \in {"ownership", "ownership-proof", "root-claim", "control"}
                => NewPhase(n) = "bootstrap"
           /\ Kind(n) = "pending-temporary" => NewPhase(n) = "write record"
           /\ Kind(n) = "pending-proof" => NewPhase(n) = "prove record"
           /\ Kind(n) = "cleanup" => NewPhase(n) = "record cleanup"
           /\ Kind(n) \in {"preparation", "activation", "artifact"} => NewPhase(n) = "place"
           /\ Kind(n) \in {"staging", "staging-proof", "stage", "stage-proof", "anchor",
                           "claim-proof", "source-proof"} => NewPhase(n) = "prepare"
           /\ Kind(n) \in {"temporary", "temporary-proof", "previous-proof"}
                => NewPhase(n) = "prepare"
           /\ Kind(n) \in {"control", "temporary"} => RenamePhase(n) = "switch"
           /\ Kind(n) \in {"artifact", "quarantine"} => RenamePhase(n) = "place"
           /\ Kind(n) = "pending-temporary" => RenamePhase(n) = "publish"
PROOF
<1>1. CASE Kind(n) \in {"ownership", "ownership-proof", "root-claim", "control"}
  BY <1>1 DEF NewPhase, RenamePhase
<1>2. CASE Kind(n) \in {"pending-temporary", "pending-proof", "cleanup"}
  BY <1>2 DEF NewPhase, RenamePhase
<1>3. CASE Kind(n) \in {"preparation", "activation", "artifact", "quarantine"}
  BY <1>3 DEF NewPhase, RenamePhase
<1>4. CASE Kind(n) \in {"staging", "staging-proof", "stage", "stage-proof", "anchor",
                        "claim-proof", "source-proof"}
  BY <1>4 DEF NewPhase, RenamePhase
<1>5. CASE Kind(n) \in {"temporary", "temporary-proof", "previous-proof"}
  BY <1>5 DEF NewPhase, RenamePhase
<1>6. QED
  BY <1>1, <1>2, <1>3, <1>4, <1>5

\* The claim of the staging directory is made when it is prepared, that of a
\* directory of artifacts when it is made; it is taken away before that is
\* removed, or when it is swept.
LEMMA ClaimPhases ==
    /\ NewPhase(Staged("claim", "")) = "prepare"
    /\ \A d \in Directories : /\ \A x \in Places(d) : NewPhase(Claim(x)) = "place"
                              /\ RenamePhase(Claim(Directory(d))) = "place"
                              /\ RenamePhase(Claim(Quarantined(d))) = "sweep"
PROOF
<1>1. NewPhase(Staged("claim", "")) = "prepare"
  <2>1. Kind(Staged("claim", "")) = "claim" /\ Staged("claim", "")[1] = Staging
    BY NameKind DEF Staged
  <2>2. QED
    BY <2>1 DEF NewPhase
<1>2. ASSUME NEW d \in Directories, NEW x \in Places(d)
      PROVE  NewPhase(Claim(x)) = "place"
  <2>1. Claim(x)[1] = x[2] /\ Kind(Claim(x)) = "claim"
    BY NameKind DEF Claim
  <2>2. x[2] # Staging
    BY PlaceCases, ParentsDiffer
  <2>3. QED
    BY <2>1, <2>2 DEF NewPhase
<1>3. ASSUME NEW d \in Directories
      PROVE  /\ RenamePhase(Claim(Directory(d))) = "place"
             /\ RenamePhase(Claim(Quarantined(d))) = "sweep"
  <2>1. /\ Claim(Directory(d))[1][1] = "directory"
        /\ Claim(Quarantined(d))[1][1] = "directory-quarantine"
    BY DEF Claim, Directory, Quarantined, Reserved, Owned
  <2>2. /\ Kind(Claim(Directory(d))) = "claim" /\ Kind(Claim(Quarantined(d))) = "claim"
    BY NameKind
  <2>3. QED
    BY <2>1, <2>2 DEF RenamePhase
<1>4. QED
  BY <1>1, <1>2, <1>3

\* The file operations on plain names, each in its phase.
LEMMA PhaseSteps ==
    ASSUME NEW p
    PROVE  /\ \A n \in FileNames, d \in FileData : Plain(n) =>
                 /\ Create(n, d) \in Seq(InPhase(NewPhase(n), p))
                 /\ Discard(n, d) \in Seq(InPhase("sweep", p))
           /\ \A n \in DirectoryNames : Plain(n) =>
                 /\ Create(n, <<"dir">>) \in Seq(InPhase(NewPhase(n), p))
                 /\ RemoveEmpty(n) \in Seq(InPhase("sweep", p))
           /\ \A m, n \in FileNames :
                 /\ Plain(m) /\ m # n => Unlink(m, n) \in Seq(InPhase("sweep", p))
                 /\ Plain(n) /\ (Kind(m) \in ArtifactKinds <=> Kind(n) \in ArtifactKinds) =>
                       /\ Link(m, n) \in Seq(InPhase(NewPhase(n), p))
                       /\ \A w \in FileNames :
                             LinkVerified(m, w, n) \in Seq(InPhase(NewPhase(n), p))
                       /\ Plain(m) => Rename(m, n) \in Seq(InPhase(RenamePhase(m), p))
PROOF
<1>1. ASSUME NEW n \in FileNames, NEW d \in FileData, Plain(n)
      PROVE  /\ Create(n, d) \in Seq(InPhase(NewPhase(n), p))
             /\ Discard(n, d) \in Seq(InPhase("sweep", p))
  <2>1. Create(n, d) \in Seq(Steps(p)) /\ Discard(n, d) \in Seq(Steps(p))
    BY OperationSteps
  <2>2. QED
    BY <1>1, <2>1, CreateIn, RemoveIn
<1>2. ASSUME NEW n \in DirectoryNames, Plain(n)
      PROVE  /\ Create(n, <<"dir">>) \in Seq(InPhase(NewPhase(n), p))
             /\ RemoveEmpty(n) \in Seq(InPhase("sweep", p))
  <2>1. Create(n, <<"dir">>) \in Seq(Steps(p)) /\ RemoveEmpty(n) \in Seq(Steps(p))
    BY OperationSteps
  <2>2. QED
    BY <1>2, <2>1, CreateIn, RemoveIn
<1>3. ASSUME NEW m \in FileNames, NEW n \in FileNames, Plain(m), m # n
      PROVE  Unlink(m, n) \in Seq(InPhase("sweep", p))
  <2>1. Unlink(m, n) \in Seq(Steps(p))
    BY <1>3, OperationSteps
  <2>2. QED
    BY <1>3, <2>1, RemoveIn
<1>4. ASSUME NEW m \in FileNames, NEW n \in FileNames, Plain(n),
             Kind(m) \in ArtifactKinds <=> Kind(n) \in ArtifactKinds,
             NEW w \in FileNames
      PROVE  LinkVerified(m, w, n) \in Seq(InPhase(NewPhase(n), p))
  <2>1. LinkVerified(m, w, n) \in Seq(Steps(p))
    BY OperationSteps
  <2>2. QED
    BY <1>4, <2>1, LinkIn
<1>5. \A m, n : Link(m, n) = LinkVerified(m, m, n)
  BY DEF Link, LinkVerified
<1>6. ASSUME NEW m \in FileNames, NEW n \in FileNames, Plain(m), Plain(n),
             Kind(m) \in ArtifactKinds <=> Kind(n) \in ArtifactKinds
      PROVE  Rename(m, n) \in Seq(InPhase(RenamePhase(m), p))
  <2>1. Rename(m, n) \in Seq(Steps(p))
    BY OperationSteps
  <2>2. QED
    BY <1>6, <2>1, RenameIn
<1>7. QED
  BY <1>1, <1>2, <1>3, <1>4, <1>5, <1>6

\* The phase of an inspection that runs.
LEMMA HerePhase ==
    ASSUME NEW k, Here(k)
    PROVE  /\ Running /\ Head(todo)[1] = k
           /\ k \in PrepareItems => Phase(Head(todo)) = "prepare"
           /\ k \in ApplyItems => Phase(Head(todo)) = "place"
           /\ k \in SweepItems => Phase(Head(todo)) = "sweep"
           /\ k \in {"load", "settle", "confirm", "resume", "compare", "finish", "apply", "verify",
                     "switch", "mark", "swept", "move", "fail"} => Phase(Head(todo)) = k
BY DEF Here, Phase, PrepareItems, ApplyItems, SweepItems

\* The checks of a phase.
LEMMA PhaseChecksOn ==
    ASSUME SuccessInv,
           CheckSource \/ CheckPrepared \/ CheckStage \/ CheckDirectory \/ CheckArtifact
    PROVE  SuccessInv'
PROOF
<1>1. ASSUME NEW c \in Loops, NEW condition, Continue(When(condition, Fail)), Running,
             Head(todo)[1] \notin Ends, Head(todo)[1] # "load", Phase(Head(todo)) = c
      PROVE  SuccessInv'
  <2>1. When(condition, Fail) \in Seq(InPhase(c, pending))
    BY FailFits DEF When
  <2>2. QED
    BY <1>1, <2>1, StaysInPhase
<1>2. "prepare" \in Loops /\ "place" \in Loops
  BY DEF Loops
<1>3. CASE CheckSource
  <2>1. Here("captured")
    BY <1>3 DEF CheckSource
  <2>2. QED
    BY <1>1, <1>2, <1>3, <2>1, HerePhase DEF CheckSource, Ends, PrepareItems
<1>4. CASE CheckPrepared
  <2>1. Here("prepared")
    BY <1>4 DEF CheckPrepared
  <2>2. QED
    BY <1>1, <1>2, <1>4, <2>1, HerePhase DEF CheckPrepared, Ends, PrepareItems
<1>5. CASE CheckStage
  <2>1. Here("staged")
    BY <1>5 DEF CheckStage
  <2>2. QED
    BY <1>1, <1>2, <1>5, <2>1, HerePhase DEF CheckStage, Ends, PrepareItems
<1>6. CASE CheckDirectory
  <2>1. Here("directory made")
    BY <1>6 DEF CheckDirectory
  <2>2. QED
    BY <1>1, <1>2, <1>6, <2>1, HerePhase DEF CheckDirectory, Ends, ApplyItems
<1>7. CASE CheckArtifact
  <2>1. Here("installed")
    BY <1>7 DEF CheckArtifact
  <2>2. QED
    BY <1>1, <1>2, <1>7, <2>1, HerePhase DEF CheckArtifact, Ends, ApplyItems
<1>8. QED
  BY <1>3, <1>4, <1>5, <1>6, <1>7

\* An inspection belongs to the phase that its name says.
LEMMA PhaseItems ==
    ASSUME NEW p \in Pendings, NEW k, NEW x,
           \/ k \in WriteItems /\ x \in Writes(p)
           \/ k \in SourceItems /\ x \in Updates(p) \cup Deletes(p)
           \/ k \in PlaceItems /\ x \in Directories
           \/ k \in ControlItems /\ x \in Controls
           \/ k \in WholeItems /\ x = ""
    PROVE  /\ <<k, x>> \in Fitting(p)
           /\ k \in PrepareItems => Then(k, x) \in Seq(InPhase("prepare", p))
           /\ k \in ApplyItems => Then(k, x) \in Seq(InPhase("place", p))
           /\ k \in SweepItems => Then(k, x) \in Seq(InPhase("sweep", p))
           /\ k = "switch" => Then(k, x) \in Seq(InPhase("switch", p))
PROOF
<1>1. Then(k, x) \in Seq(Steps(p))
  BY ItemSteps
<1>2. k \notin OperationNamed
  BY DEF OperationNamed, WriteItems, SourceItems, PlaceItems, ControlItems, WholeItems
<1>3. <<k, x>> \in Fitting(p) /\ \A c : Phase(<<k, x>>) = c => Then(k, x) \in Seq(InPhase(c, p))
  BY <1>1, <1>2, ItemFits
<1>4. /\ k \in PrepareItems => Phase(<<k, x>>) = "prepare"
      /\ k \in ApplyItems => Phase(<<k, x>>) = "place"
      /\ k \in SweepItems => Phase(<<k, x>>) = "sweep"
      /\ k = "switch" => Phase(<<k, x>>) = "switch"
  BY ItemPhases
<1>5. QED
  BY <1>3, <1>4

\* The names of one artifact or one directory, what they are and where they belong.
LEMMA NamePhases ==
    ASSUME NEW x
    PROVE  /\ \A n \in {Staged("stage", x), Staged("stage-proof", x), Owned("source-proof", x)} :
                 Plain(n) /\ NewPhase(n) = "prepare" /\ Kind(n) \in ArtifactKinds
           /\ \A n \in {Owned("anchor", x), Owned("claim-proof", x)} :
                 Plain(n) /\ NewPhase(n) = "prepare" /\ Kind(n) \notin ArtifactKinds
           /\ Plain(Owned("activation", x)) /\ NewPhase(Owned("activation", x)) = "place"
           /\ Kind(Owned("activation", x)) \in ArtifactKinds
           /\ NewPhase(Target(x)) = "place" /\ RenamePhase(Target(x)) = "place"
           /\ Kind(Target(x)) \in ArtifactKinds
           /\ Plain(Owned("quarantine", x)) /\ RenamePhase(Owned("quarantine", x)) = "place"
           /\ Kind(Owned("quarantine", x)) \in ArtifactKinds
           /\ Plain(Owned("claim-quarantine", x))
           /\ Kind(Owned("claim-quarantine", x)) \notin ArtifactKinds
           /\ Plain(Claim(x)) /\ Kind(Claim(x)) \notin ArtifactKinds
           /\ Plain(Preparation(x)) /\ NewPhase(Preparation(x)) = "place"
           /\ Plain(Quarantined(x))
PROOF
<1>1. \A n : Kind(n) \in {"stage", "stage-proof", "source-proof"} =>
         Plain(n) /\ NewPhase(n) = "prepare" /\ Kind(n) \in ArtifactKinds
  BY PlainNames, KindPhases DEF ArtifactKinds
<1>2. \A n : Kind(n) \in {"anchor", "claim-proof"} =>
         Plain(n) /\ NewPhase(n) = "prepare" /\ Kind(n) \notin ArtifactKinds
  BY PlainNames, KindPhases DEF ArtifactKinds
<1>3. \A n : Kind(n) = "activation" =>
         Plain(n) /\ NewPhase(n) = "place" /\ Kind(n) \in ArtifactKinds
  BY PlainNames, KindPhases DEF ArtifactKinds
<1>4. \A n : Kind(n) = "artifact" =>
         NewPhase(n) = "place" /\ RenamePhase(n) = "place" /\ Kind(n) \in ArtifactKinds
  BY KindPhases DEF ArtifactKinds
<1>5. \A n : Kind(n) = "quarantine" =>
         Plain(n) /\ RenamePhase(n) = "place" /\ Kind(n) \in ArtifactKinds
  BY PlainNames, KindPhases DEF ArtifactKinds
<1>6. \A n : Kind(n) \in {"claim-quarantine", "claim", "preparation", "directory-quarantine"} =>
         Plain(n) /\ Kind(n) \notin ArtifactKinds
  BY PlainNames DEF ArtifactKinds
<1>7. \A n : Kind(n) = "preparation" => NewPhase(n) = "place"
  BY KindPhases
<1>8. /\ Kind(Staged("stage", x)) = "stage" /\ Kind(Staged("stage-proof", x)) = "stage-proof"
      /\ Kind(Owned("source-proof", x)) = "source-proof" /\ Kind(Owned("anchor", x)) = "anchor"
      /\ Kind(Owned("claim-proof", x)) = "claim-proof"
      /\ Kind(Owned("activation", x)) = "activation" /\ Kind(Target(x)) = "artifact"
      /\ Kind(Owned("quarantine", x)) = "quarantine"
      /\ Kind(Owned("claim-quarantine", x)) = "claim-quarantine" /\ Kind(Claim(x)) = "claim"
      /\ Kind(Preparation(x)) = "preparation" /\ Kind(Quarantined(x)) = "directory-quarantine"
  BY NameKind
<1>9. QED
  BY <1>1, <1>2, <1>3, <1>4, <1>5, <1>6, <1>7, <1>8

\* A new artifact is staged, a directory anchored, an old file given a second name.
LEMMA PreparationOn ==
    ASSUME Inv, SuccessInv, StageArtifact \/ AnchorDirectory \/ CaptureSource
    PROVE  SuccessInv'
PROOF
<1> DEFINE S == InPhase("prepare", pending)
           x == Item
<1>1. "prepare" \in Loops
  BY DEF Loops
<1>2. ASSUME NEW k \in {"stage", "anchor", "source"}, Here(k), NEW steps \in Seq(S), Continue(steps)
      PROVE  SuccessInv'
  <2>1. /\ Running /\ Head(todo)[1] = k /\ Phase(Head(todo)) = "prepare"
        /\ k \notin Ends /\ k # "load"
    BY <1>2, HerePhase DEF PrepareItems, Ends
  <2>2. QED
    BY <1>1, <1>2, <2>1, StaysInPhase
<1>3. CASE StageArtifact
  <2>1. Here("stage") /\ Running /\ Head(todo)[1] = "stage"
    BY <1>3 DEF StageArtifact, Here
  <2>2. pending \in Pendings /\ x \in Writes(pending) /\ x \in Artifacts
    BY <2>1, ItemTyped, PendingParts DEF Inv, WriteItems
  <2>3. /\ Staged("stage", x) \in FileNames /\ Staged("stage-proof", x) \in FileNames
        /\ NewContent(pending, x) \in FileData
    BY <2>2, ArtifactNames, PendingData
  <2>4. /\ Plain(Staged("stage", x)) /\ NewPhase(Staged("stage", x)) = "prepare"
        /\ Plain(Staged("stage-proof", x)) /\ NewPhase(Staged("stage-proof", x)) = "prepare"
        /\ Kind(Staged("stage", x)) \in ArtifactKinds
        /\ Kind(Staged("stage-proof", x)) \in ArtifactKinds
    BY NamePhases
  <2>5. /\ Create(Staged("stage", x), NewContent(pending, x)) \in Seq(S)
        /\ Link(Staged("stage", x), Staged("stage-proof", x)) \in Seq(S)
    BY <2>3, <2>4, PhaseSteps
  <2>6. Create(Staged("stage", x), NewContent(pending, x))
           \o Link(Staged("stage", x), Staged("stage-proof", x)) \in Seq(S)
    <3> HIDE DEF S
    <3>1. QED
      BY <2>5, Joined
  <2>7. QED
    BY <1>2, <1>3, <2>1, <2>6 DEF StageArtifact
<1>4. CASE AnchorDirectory
  <2>1. Here("anchor") /\ Running /\ Head(todo)[1] = "anchor"
    BY <1>4 DEF AnchorDirectory, Here
  <2>2. x \in Directories
    BY <2>1, ItemTyped DEF Inv, PlaceItems
  <2>3. /\ Owned("anchor", x) \in FileNames /\ Owned("claim-proof", x) \in FileNames
        /\ ClaimOf(x) \in FileData
    BY <2>2, PlaceNames DEF ClaimOf, FileData
  <2>4. /\ Plain(Owned("anchor", x)) /\ NewPhase(Owned("anchor", x)) = "prepare"
        /\ Plain(Owned("claim-proof", x)) /\ NewPhase(Owned("claim-proof", x)) = "prepare"
        /\ Kind(Owned("anchor", x)) \notin ArtifactKinds
        /\ Kind(Owned("claim-proof", x)) \notin ArtifactKinds
    BY NamePhases
  <2>5. /\ Create(Owned("anchor", x), ClaimOf(x)) \in Seq(S)
        /\ Link(Owned("anchor", x), Owned("claim-proof", x)) \in Seq(S)
    BY <2>3, <2>4, PhaseSteps
  <2>6. Create(Owned("anchor", x), ClaimOf(x)) \o Link(Owned("anchor", x), Owned("claim-proof", x))
           \in Seq(S)
    <3> HIDE DEF S
    <3>1. QED
      BY <2>5, Joined
  <2>7. QED
    BY <1>2, <1>4, <2>1, <2>6 DEF AnchorDirectory
<1>5. CASE CaptureSource
  <2>1. Here("source") /\ Running /\ Head(todo)[1] = "source"
    BY <1>5 DEF CaptureSource, Here
  <2>2. pending \in Pendings /\ x \in Updates(pending) \cup Deletes(pending) /\ x \in Artifacts
    BY <2>1, ItemTyped, PendingParts DEF Inv, SourceItems
  <2>3. Target(x) \in FileNames /\ Owned("source-proof", x) \in FileNames
    BY <2>2, ArtifactNames
  <2>4. /\ Plain(Owned("source-proof", x)) /\ NewPhase(Owned("source-proof", x)) = "prepare"
        /\ Kind(Target(x)) \in ArtifactKinds /\ Kind(Owned("source-proof", x)) \in ArtifactKinds
    BY NamePhases
  <2>5. Link(Target(x), Owned("source-proof", x)) \in Seq(S)
    BY <2>3, <2>4, PhaseSteps
  <2>6. Then("captured", x) \in Seq(S)
    BY <2>2, PhaseItems DEF SourceItems, PrepareItems
  <2>7. Link(Target(x), Owned("source-proof", x)) \o Then("captured", x) \in Seq(S)
    <3> HIDE DEF S
    <3>1. QED
      BY <2>5, <2>6, Joined
  <2>8. QED
    BY <1>2, <1>5, <2>1, <2>7 DEF CaptureSource
<1>6. QED
  BY <1>3, <1>4, <1>5

\* The quarantine of an old file, and what goes back from it.
LEMMA QuarantineOn ==
    ASSUME Inv, SuccessInv, EnsureQuarantine \/ CheckQuarantine
    PROVE  SuccessInv'
PROOF
<1> DEFINE S == InPhase("place", pending)
           a == Item
           q == Owned("quarantine", a)
<1>1. "place" \in Loops
  BY DEF Loops
<1>2. /\ Running /\ Head(todo)[1] \in {"quarantine", "quarantined"}
      /\ Phase(Head(todo)) = "place"
  BY HerePhase DEF EnsureQuarantine, CheckQuarantine, ApplyItems
<1>3. pending \in Pendings /\ a \in Updates(pending) \cup Deletes(pending) /\ a \in Artifacts
  BY <1>2, ItemTyped, PendingParts DEF Inv, SourceItems
<1>4. Target(a) \in FileNames /\ q \in FileNames
  BY <1>3, ArtifactNames
<1>5. Rename(q, Target(a)) \in Seq(Steps(pending)) /\ Rename(Target(a), q) \in Seq(Steps(pending))
  BY <1>4, OperationSteps
<1>6. /\ Kind(Target(a)) \in ArtifactKinds /\ Kind(q) \in ArtifactKinds
      /\ RenamePhase(Target(a)) = "place" /\ RenamePhase(q) = "place"
  BY NamePhases
<1>7. a \in Covered(pending)
  BY <1>3, PendingParts DEF Covered, Wanted, Writes
<1>8. Rename(q, Target(a)) \in Seq(S) /\ Rename(Target(a), q) \in Seq(S)
  BY <1>5, <1>6, <1>7, RenameIn
<1>9. Then("quarantined", a) \in Seq(S) /\ Fail \in Seq(S) /\ <<>> \in Seq(S)
  BY <1>3, PhaseItems, FailFits DEF SourceItems, ApplyItems
<1>10. /\ Rename(q, Target(a)) \o Fail \in Seq(S)
       /\ Rename(Target(a), q) \o Then("quarantined", a) \in Seq(S)
  <2> HIDE DEF S
  <2>1. QED
    BY <1>8, <1>9, Joined
<1>11. \E steps \in Seq(S) : Continue(steps)
  <2>1. CASE EnsureQuarantine
    BY <1>9, <1>10, <2>1 DEF EnsureQuarantine, If, When
  <2>2. CASE CheckQuarantine
    BY <1>9, <1>10, <2>2 DEF CheckQuarantine, When
  <2>3. QED
    BY <2>1, <2>2
<1>12. Head(todo)[1] \notin Ends /\ Head(todo)[1] # "load"
  BY <1>2 DEF Ends
<1>13. QED
  BY <1>1, <1>2, <1>11, <1>12, StaysInPhase

\* A new artifact is linked into its place.
LEMMA ActivationOn ==
    ASSUME Inv, SuccessInv, EnsureActivation \/ CheckActivation \/ InstallArtifact
    PROVE  SuccessInv'
PROOF
<1> DEFINE S == InPhase("place", pending)
           a == Item
           stage == Staged("stage", a)
           proof == Staged("stage-proof", a)
           activation == Owned("activation", a)
<1>1. "place" \in Loops
  BY DEF Loops
<1>2. /\ Running /\ Head(todo)[1] \in {"activate", "activated", "install"}
      /\ Phase(Head(todo)) = "place"
  BY HerePhase DEF EnsureActivation, CheckActivation, InstallArtifact, ApplyItems
<1>3. pending \in Pendings /\ a \in Writes(pending) /\ a \in Artifacts
  BY <1>2, ItemTyped, PendingParts DEF Inv, WriteItems
<1>4. /\ Target(a) \in FileNames /\ stage \in FileNames /\ proof \in FileNames
      /\ activation \in FileNames
  BY <1>3, ArtifactNames
<1>5. /\ Kind(Target(a)) \in ArtifactKinds /\ Kind(proof) \in ArtifactKinds
      /\ Kind(activation) \in ArtifactKinds /\ Plain(activation)
      /\ NewPhase(Target(a)) = "place" /\ NewPhase(activation) = "place"
  BY NamePhases
<1>6. a \in Wanted(pending)
  BY <1>3, PendingParts DEF Wanted
<1>7. LinkVerified(proof, stage, activation) \in Seq(S)
  BY <1>4, <1>5, PhaseSteps
<1>8. LinkVerified(proof, stage, Target(a)) \in Seq(S)
  <2>1. LinkVerified(proof, stage, Target(a)) \in Seq(Steps(pending))
    BY <1>4, OperationSteps
  <2>2. QED
    BY <1>5, <1>6, <2>1, LinkIn
<1>9. /\ Then("activated", a) \in Seq(S) /\ Then("install", a) \in Seq(S)
      /\ Then("installed", a) \in Seq(S) /\ Fail \in Seq(S) /\ <<>> \in Seq(S)
  BY <1>3, PhaseItems, FailFits DEF WriteItems, ApplyItems
<1>10. /\ LinkVerified(proof, stage, activation) \o Then("activated", a) \in Seq(S)
       /\ LinkVerified(proof, stage, Target(a)) \o Then("installed", a) \in Seq(S)
       /\ Fail \o Then("installed", a) \in Seq(S)
       /\ <<>> \o Then("installed", a) \in Seq(S) /\ <<>> \o Then("activated", a) \in Seq(S)
  <2> HIDE DEF S, a, stage, proof, activation
  <2>1. QED
    BY <1>7, <1>8, <1>9, Joined
<1>11. \E steps \in Seq(S) : Continue(steps)
  <2>1. CASE EnsureActivation
    BY <1>9, <1>10, <2>1 DEF EnsureActivation, If, When
  <2>2. CASE CheckActivation
    BY <1>9, <2>2 DEF CheckActivation, If
  <2>3. CASE InstallArtifact
    BY <1>9, <1>10, <2>3 DEF InstallArtifact, When
  <2>4. QED
    BY <2>1, <2>2, <2>3
<1>12. Head(todo)[1] \notin Ends /\ Head(todo)[1] # "load"
  BY <1>2 DEF Ends
<1>13. QED
  BY <1>1, <1>2, <1>11, <1>12, StaysInPhase

-----------------------------------------------------------------------------
(* Names of controls *)

\* The names of one control, what they are and where they belong.
LEMMA ControlPhases ==
    ASSUME NEW c
    PROVE  /\ \A k \in {"temporary", "temporary-proof", "previous-proof", "control-quarantine"} :
                 Plain(Reserved(k, c)) /\ Kind(Reserved(k, c)) \notin ArtifactKinds
           /\ \A k \in {"temporary", "temporary-proof", "previous-proof"} :
                 NewPhase(Reserved(k, c)) = "prepare"
           /\ \A k \in {"control", "temporary"} :
                 RenamePhase(Reserved(k, c)) = "switch" /\ Kind(Reserved(k, c)) \notin ArtifactKinds
PROOF
<1>1. \A n : Kind(n) \in {"temporary", "temporary-proof", "previous-proof", "control-quarantine"}
                => Plain(n) /\ Kind(n) \notin ArtifactKinds
  BY PlainNames DEF ArtifactKinds
<1>2. \A n : Kind(n) \in {"temporary", "temporary-proof", "previous-proof"}
                => NewPhase(n) = "prepare"
  BY KindPhases
<1>3. \A n : Kind(n) \in {"control", "temporary"}
                => RenamePhase(n) = "switch" /\ Kind(n) \notin ArtifactKinds
  BY KindPhases DEF ArtifactKinds
<1>4. \A k : Kind(Reserved(k, c)) = k
  BY NameKind
<1>5. QED
  BY <1>1, <1>2, <1>3, <1>4

\* A plain name of the phase c that is not of an artifact.
Belongs(n, c) == Plain(n) /\ NewPhase(n) = c /\ Kind(n) \notin ArtifactKinds

\* The names that stand alone.
LEMMA SinglePhases ==
    /\ Belongs(OwnershipRoot, "bootstrap") /\ Belongs(Reserved("ownership-proof", ""), "bootstrap")
    /\ Belongs(Owned("root-claim", ""), "bootstrap") /\ Belongs(State, "bootstrap")
    /\ Belongs(StagingRoot, "prepare") /\ Belongs(Reserved("staging-proof", ""), "prepare")
    /\ Belongs(Staged("claim", ""), "prepare")
    /\ NewPhase(Temporary) = "write record" /\ RenamePhase(Temporary) = "publish"
    /\ Belongs(PendingProof, "prove record")
    /\ NewPhase(Cleanup) = "record cleanup"
    /\ Kind(Temporary) \notin ArtifactKinds /\ Kind(Pending) \notin ArtifactKinds
    /\ Kind(Cleanup) \notin ArtifactKinds
PROOF
<1>1. \A n : (Kind(n) = "ownership" \/ Kind(n) = "ownership-proof" \/ Kind(n) = "root-claim")
                => Belongs(n, "bootstrap")
  BY PlainNames, KindPhases DEF ArtifactKinds, Belongs
<1>2. Belongs(State, "bootstrap")
  BY PlainNames, KindPhases, NameKind DEF ArtifactKinds, Belongs
<1>3. \A n : (Kind(n) = "staging" \/ Kind(n) = "staging-proof") => Belongs(n, "prepare")
  BY PlainNames, KindPhases DEF ArtifactKinds, Belongs
<1>4. \A k, i : Kind(Reserved(k, i)) = k /\ Kind(Owned(k, i)) = k /\ Kind(Staged(k, i)) = k
  BY NameKind
<1>5. Belongs(Staged("claim", ""), "prepare")
  <2>1. Kind(Staged("claim", "")) = "claim"
    BY <1>4
  <2>2. Plain(Staged("claim", "")) /\ Kind(Staged("claim", "")) \notin ArtifactKinds
    BY <2>1, PlainNames DEF ArtifactKinds
  <2>3. QED
    BY <2>2, ClaimPhases DEF Belongs
<1>6. /\ Kind(OwnershipRoot) = "ownership"
      /\ Kind(Reserved("ownership-proof", "")) = "ownership-proof"
      /\ Kind(Owned("root-claim", "")) = "root-claim" /\ Kind(StagingRoot) = "staging"
      /\ Kind(Reserved("staging-proof", "")) = "staging-proof"
      /\ Kind(Temporary) = "pending-temporary" /\ Kind(PendingProof) = "pending-proof"
      /\ Kind(Cleanup) = "cleanup" /\ Kind(Pending) = "pending"
  BY <1>4 DEF OwnershipRoot, StagingRoot, Temporary, PendingProof, Cleanup, Pending
<1>7. /\ Belongs(OwnershipRoot, "bootstrap")
      /\ Belongs(Reserved("ownership-proof", ""), "bootstrap")
      /\ Belongs(Owned("root-claim", ""), "bootstrap")
      /\ Belongs(StagingRoot, "prepare") /\ Belongs(Reserved("staging-proof", ""), "prepare")
  BY <1>1, <1>3, <1>6, Zenon
<1>8. /\ NewPhase(Temporary) = "write record" /\ RenamePhase(Temporary) = "publish"
      /\ NewPhase(Cleanup) = "record cleanup"
      /\ Kind(Temporary) \notin ArtifactKinds /\ Kind(Pending) \notin ArtifactKinds
      /\ Kind(Cleanup) \notin ArtifactKinds
  BY <1>6, KindPhases DEF ArtifactKinds
<1>9. Belongs(PendingProof, "prove record")
  BY <1>6, KindPhases, PlainNames DEF ArtifactKinds, Belongs
<1>10. QED
  BY <1>2, <1>5, <1>7, <1>8, <1>9

\* A step of the store stays in its phase.
LEMMA StaysHere ==
    ASSUME SuccessInv, NEW k, Here(k), NEW c \in Loops,
           \/ c = "place" /\ k \in ApplyItems
           \/ c = "sweep" /\ k \in SweepItems
           \/ c = "switch" /\ k = "switch",
           \E steps \in Seq(InPhase(c, pending)) : Continue(steps)
    PROVE  SuccessInv'
PROOF
<1>1. Running /\ Head(todo)[1] = k /\ Phase(Head(todo)) = c
  BY HerePhase
<1>2. k \notin Ends /\ k # "load"
  BY DEF ApplyItems, SweepItems, Ends
<1>3. QED
  BY <1>1, <1>2, StaysInPhase

\* A directory is prepared with its claim.
LEMMA MakeDirectoryOn ==
    ASSUME Inv, SuccessInv, MakeDirectory
    PROVE  SuccessInv'
PROOF
<1> DEFINE S == InPhase("place", pending)
           d == Item
           place == Preparation(d)
           anchor == Owned("anchor", d)
           Claimed == LinkVerified(anchor, Owned("claim-proof", d), Claim(place))
<1>1. Here("make directory") /\ Running /\ Head(todo)[1] = "make directory"
  BY DEF MakeDirectory, Here
<1>2. pending \in Pendings /\ d \in Directories
  BY <1>1, ItemTyped DEF Inv, PlaceItems
<1>3. place \in Places(d)
  BY DEF Places
<1>4. /\ Claim(place) \in FileNames /\ anchor \in FileNames
      /\ Owned("claim-proof", d) \in FileNames /\ place \in DirectoryNames
  BY <1>2, <1>3, PlaceNames
<1>5. /\ Plain(place) /\ NewPhase(place) = "place" /\ Plain(Claim(place))
      /\ Kind(Claim(place)) \notin ArtifactKinds /\ Kind(anchor) \notin ArtifactKinds
  BY NamePhases
<1>6. NewPhase(Claim(place)) = "place"
  BY <1>2, <1>3, ClaimPhases
<1>7. Create(place, <<"dir">>) \in Seq(S)
  BY <1>4, <1>5, PhaseSteps
<1>8. Claimed \in Seq(S)
  BY <1>4, <1>5, <1>6, PhaseSteps
<1>9. Then("directory prepared", d) \in Seq(S) /\ Fail \in Seq(S) /\ <<>> \in Seq(S)
  BY <1>2, PhaseItems, FailFits DEF PlaceItems, ApplyItems
<1>10. Create(place, <<"dir">>) \o Claimed \o Then("directory prepared", d) \in Seq(S)
  <2> HIDE DEF S, d, place, anchor, Claimed
  <2>1. QED
    BY <1>7, <1>8, <1>9, Joined
<1>11. \E steps \in Seq(S) : Continue(steps)
  BY <1>9, <1>10 DEF MakeDirectory, If
<1>12. QED
  BY <1>1, <1>11, StaysHere DEF ApplyItems, Loops

\* A control changes hands in two renames.
LEMMA ActivateControlOn ==
    ASSUME Inv, SuccessInv, ActivateControl
    PROVE  SuccessInv'
PROOF
<1> DEFINE S == InPhase("switch", pending)
           c == Item
           control == Reserved("control", c)
           temporary == Reserved("temporary", c)
           old == Reserved("control-quarantine", c)
<1>1. Here("switch") /\ Running /\ Head(todo)[1] = "switch"
  BY DEF ActivateControl, Here
<1>2. c \in Controls
  BY <1>1, ItemTyped DEF Inv, ControlItems
<1>3. control \in FileNames /\ temporary \in FileNames /\ old \in FileNames
  BY <1>2, ControlNames
<1>4. /\ Rename(temporary, control) \in Seq(Steps(pending))
      /\ Rename(control, old) \in Seq(Steps(pending))
  BY <1>3, OperationSteps
<1>5. /\ Kind(control) = "control" /\ Kind(temporary) = "temporary"
      /\ Kind(old) = "control-quarantine"
  BY NameKind
<1>6. /\ RenamePhase(control) = "switch" /\ RenamePhase(temporary) = "switch"
      /\ Kind(control) \notin ArtifactKinds /\ Kind(temporary) \notin ArtifactKinds
      /\ Kind(old) \notin ArtifactKinds
  BY ControlPhases
<1>7. Rename(temporary, control) \in Seq(S)
  BY <1>4, <1>5, <1>6, RenameIn
<1>8. Rename(control, old) \in Seq(S)
  BY <1>4, <1>5, <1>6, RenameIn
<1>9. Fail \in Seq(S) /\ <<>> \in Seq(S)
  BY FailFits
<1>10. Rename(control, old) \o Rename(temporary, control) \in Seq(S)
  <2> HIDE DEF S
  <2>1. QED
    BY <1>7, <1>8, Joined
<1>11. \E steps \in Seq(S) : Continue(steps)
  BY <1>7, <1>9, <1>10 DEF ActivateControl, If, When
<1>12. QED
  BY <1>1, <1>11, StaysHere DEF Loops

\* What an old file left is removed, the quarantine under the proof.
LEMMA SweepQuarantineOn ==
    ASSUME Inv, SuccessInv, SweepQuarantine
    PROVE  SuccessInv'
PROOF
<1> DEFINE S == InPhase("sweep", pending)
           a == Item
           quarantine == Owned("quarantine", a)
           proof == Owned("source-proof", a)
<1>1. Here("sweep quarantine") /\ Running /\ Head(todo)[1] = "sweep quarantine"
  BY DEF SweepQuarantine, Here
<1>2. pending \in Pendings /\ a \in Updates(pending) \cup Deletes(pending) /\ a \in Artifacts
  BY <1>1, ItemTyped, PendingParts DEF Inv, SourceItems
<1>3. quarantine \in FileNames /\ proof \in FileNames /\ quarantine # proof
  BY <1>2, ArtifactNames, ProofsDiffer
<1>4. Expected(pending, a) \in FileData
  BY <1>2, PendingData
<1>5. Plain(quarantine) /\ Plain(proof)
  BY NamePhases
<1>6. /\ Unlink(quarantine, proof) \in Seq(S) /\ Discard(proof, Expected(pending, a)) \in Seq(S)
      /\ Fail \in Seq(S)
  BY <1>3, <1>4, <1>5, PhaseSteps, FailFits
<1>7. SweepSource(a) \in Seq(S)
  <2>1. Unlink(quarantine, proof) \o Discard(proof, Expected(pending, a)) \in Seq(S)
    <3> HIDE DEF S
    <3>1. QED
      BY <1>6, Joined
  <2>2. QED
    BY <2>1 DEF SweepSource
<1>8. \E steps \in Seq(S) : Continue(steps)
  BY <1>6, <1>7 DEF SweepQuarantine, If
<1>9. QED
  BY <1>1, <1>8, StaysHere DEF SweepItems, Loops

\* What a removed directory left is removed: the claim, the directory, the anchor.
LEMMA SweepDirectoryOn ==
    ASSUME Inv, SuccessInv, SweepDirectory
    PROVE  SuccessInv'
PROOF
<1> DEFINE S == InPhase("sweep", pending)
           d == Item
           place == Quarantined(d)
           anchor == Owned("anchor", d)
           claim == Owned("claim-quarantine", d)
           Rest == Unlink(claim, anchor) \o Discard(anchor, ClaimOf(d))
<1>1. Here("sweep directory") /\ Running /\ Head(todo)[1] = "sweep directory"
  BY DEF SweepDirectory, Here
<1>2. d \in Directories
  BY <1>1, ItemTyped DEF Inv, PlaceItems
<1>3. place \in Places(d)
  BY DEF Places
<1>4. /\ anchor \in FileNames /\ claim \in FileNames /\ claim # anchor
      /\ Claim(place) \in FileNames /\ place \in DirectoryNames
  BY <1>2, <1>3, PlaceNames, ProofsDiffer
<1>5. ClaimOf(d) \in FileData
  BY <1>2 DEF ClaimOf, FileData
<1>6. /\ Plain(place) /\ Plain(anchor) /\ Plain(claim) /\ Plain(Claim(place))
      /\ Kind(Claim(place)) \notin ArtifactKinds /\ Kind(claim) \notin ArtifactKinds
  BY NamePhases
<1>7. RenamePhase(Claim(place)) = "sweep"
  BY <1>2, ClaimPhases
<1>8. /\ Unlink(claim, anchor) \in Seq(S) /\ Discard(anchor, ClaimOf(d)) \in Seq(S)
      /\ RemoveEmpty(place) \in Seq(S) /\ Fail \in Seq(S)
  BY <1>4, <1>5, <1>6, PhaseSteps, FailFits
<1>9. Rename(Claim(place), claim) \in Seq(S)
  BY <1>4, <1>6, <1>7, PhaseSteps
<1>10. Rest \in Seq(S)
  <2> HIDE DEF S
  <2>1. QED
    BY <1>8, Joined
<1>11. /\ Rename(Claim(place), claim) \o RemoveEmpty(place) \o Rest \in Seq(S)
       /\ RemoveEmpty(place) \o Rest \in Seq(S)
  <2> HIDE DEF S, d, place, anchor, claim, Rest
  <2>1. QED
    BY <1>8, <1>9, <1>10, Joined
<1>12. \E steps \in Seq(S) : Continue(steps)
  BY <1>8, <1>10, <1>11 DEF SweepDirectory, If
<1>13. QED
  BY <1>1, <1>12, StaysHere DEF SweepItems, Loops

\* The second names of what was installed are removed.
LEMMA SweepNamesOn ==
    ASSUME Inv, SuccessInv, SweepActivation \/ SweepClaim \/ SweepStage
    PROVE  SuccessInv'
PROOF
<1> DEFINE S == InPhase("sweep", pending)
           x == Item
<1>1. Fail \in Seq(S) /\ <<>> \in Seq(S)
  BY FailFits
<1>2. CASE SweepActivation
  <2>1. Here("sweep activation") /\ Running /\ Head(todo)[1] = "sweep activation"
    BY <1>2 DEF SweepActivation, Here
  <2>2. x \in Artifacts
    BY <2>1, ItemTyped, PendingParts DEF Inv, WriteItems
  <2>3. /\ Owned("activation", x) \in FileNames /\ Staged("stage-proof", x) \in FileNames
        /\ Owned("activation", x) # Staged("stage-proof", x)
    BY <2>2, ArtifactNames, ProofsDiffer
  <2>4. Plain(Owned("activation", x))
    BY NamePhases
  <2>5. Unlink(Owned("activation", x), Staged("stage-proof", x)) \in Seq(S)
    BY <2>3, <2>4, PhaseSteps
  <2>6. \E steps \in Seq(S) : Continue(steps)
    BY <1>1, <1>2, <2>5 DEF SweepActivation, If, When
  <2>7. QED
    BY <2>1, <2>6, StaysHere DEF SweepItems, Loops
<1>3. CASE SweepClaim
  <2>1. Here("sweep claim") /\ Running /\ Head(todo)[1] = "sweep claim"
    BY <1>3 DEF SweepClaim, Here
  <2>2. x \in Directories
    BY <2>1, ItemTyped DEF Inv, PlaceItems
  <2>3. /\ Owned("claim-proof", x) \in FileNames /\ Owned("anchor", x) \in FileNames
        /\ Owned("claim-proof", x) # Owned("anchor", x)
    BY <2>2, PlaceNames, ProofsDiffer
  <2>4. Plain(Owned("claim-proof", x))
    BY NamePhases
  <2>5. Unlink(Owned("claim-proof", x), Owned("anchor", x)) \in Seq(S)
    BY <2>3, <2>4, PhaseSteps
  <2>6. \E steps \in Seq(S) : Continue(steps)
    BY <1>1, <1>3, <2>5 DEF SweepClaim, If
  <2>7. QED
    BY <2>1, <2>6, StaysHere DEF SweepItems, Loops
<1>4. CASE SweepStage
  <2>1. Here("sweep stage") /\ Running /\ Head(todo)[1] = "sweep stage"
    BY <1>4 DEF SweepStage, Here
  <2>2. x \in Artifacts
    BY <2>1, ItemTyped, PendingParts DEF Inv, WriteItems
  <2>3. /\ Staged("stage", x) \in FileNames /\ Staged("stage-proof", x) \in FileNames
        /\ Target(x) \in FileNames
        /\ Staged("stage", x) # Staged("stage-proof", x) /\ Staged("stage-proof", x) # Target(x)
    BY <2>2, ArtifactNames, ProofsDiffer
  <2>4. Plain(Staged("stage", x)) /\ Plain(Staged("stage-proof", x))
    BY NamePhases
  <2>5. /\ Unlink(Staged("stage", x), Staged("stage-proof", x)) \in Seq(S)
        /\ Unlink(Staged("stage-proof", x), Target(x)) \in Seq(S)
    BY <2>3, <2>4, PhaseSteps
  <2>6. Unlink(Staged("stage", x), Staged("stage-proof", x))
           \o Unlink(Staged("stage-proof", x), Target(x)) \in Seq(S)
    <3> HIDE DEF S
    <3>1. QED
      BY <2>5, Joined
  <2>7. \E steps \in Seq(S) : Continue(steps)
    BY <1>1, <1>4, <2>6 DEF SweepStage, If
  <2>8. QED
    BY <2>1, <2>7, StaysHere DEF SweepItems, Loops
<1>5. QED
  BY <1>2, <1>3, <1>4

\* What an exchanged control left is removed.
LEMMA SweepControlOn ==
    ASSUME Inv, SuccessInv, SweepControl
    PROVE  SuccessInv'
PROOF
<1> DEFINE S == InPhase("sweep", pending)
           c == Item
           old == Reserved("control-quarantine", c)
           was == Reserved("previous-proof", c)
           proof == Reserved("temporary-proof", c)
           control == Reserved("control", c)
           Previous == Unlink(old, was) \o Discard(was, Before(pending, c))
<1>1. Here("sweep control") /\ Running /\ Head(todo)[1] = "sweep control"
  BY DEF SweepControl, Here
<1>2. pending \in Pendings /\ c \in Controls
  BY <1>1, ItemTyped DEF Inv, ControlItems
<1>3. /\ old \in FileNames /\ was \in FileNames /\ proof \in FileNames /\ control \in FileNames
      /\ old # was /\ proof # control
  BY <1>2, ControlNames, ProofsDiffer
<1>4. Before(pending, c) \in FileData
  BY <1>2, PendingData
<1>5. Plain(old) /\ Plain(was) /\ Plain(proof)
  BY ControlPhases
<1>6. /\ Unlink(old, was) \in Seq(S) /\ Discard(was, Before(pending, c)) \in Seq(S)
      /\ Unlink(proof, control) \in Seq(S) /\ Fail \in Seq(S) /\ <<>> \in Seq(S)
  BY <1>3, <1>4, <1>5, PhaseSteps, FailFits
<1>7. Previous \in Seq(S)
  <2> HIDE DEF S
  <2>1. QED
    BY <1>6, Joined
<1>8. When(Replaces(pending, c), Previous) \o Unlink(proof, control) \in Seq(S)
  <2>1. When(Replaces(pending, c), Previous) \in Seq(S)
    BY <1>6, <1>7 DEF When
  <2> HIDE DEF S, old, was, proof, control, Previous
  <2>2. QED
    BY <1>6, <2>1, Joined
<1>9. \E steps \in Seq(S) : Continue(steps)
  BY <1>6, <1>8 DEF SweepControl, If
<1>10. QED
  BY <1>1, <1>9, StaysHere DEF SweepItems, Loops

\* The staging directory is removed.
LEMMA SweepStagingOn ==
    ASSUME Inv, SuccessInv, SweepStaging
    PROVE  SuccessInv'
PROOF
<1> DEFINE S == InPhase("sweep", pending)
           claim == Staged("claim", "")
           proof == Reserved("staging-proof", "")
           root == When(Exists(StagingRoot), RemoveEmpty(StagingRoot))
<1>1. Here("sweep staging")
  BY DEF SweepStaging
<1>2. claim # proof
  <2>1. claim[2][1] = "claim" /\ proof[2][1] = "staging-proof"
    BY NameKinds
  <2>2. QED
    BY <2>1
<1>3. <<"staging">> \in FileData
  BY DEF FileData
<1>4. Plain(claim) /\ Plain(proof) /\ Plain(StagingRoot)
  BY SinglePhases DEF Belongs
<1>5. /\ Unlink(claim, proof) \in Seq(S) /\ Discard(proof, <<"staging">>) \in Seq(S)
      /\ RemoveEmpty(StagingRoot) \in Seq(S) /\ Fail \in Seq(S) /\ <<>> \in Seq(S)
  BY <1>2, <1>3, <1>4, SingleNames, PhaseSteps, FailFits
<1>6. root \in Seq(S)
  BY <1>5 DEF When
<1>7. Unlink(claim, proof) \o root \o Discard(proof, <<"staging">>) \in Seq(S)
  <2> HIDE DEF S, claim, proof, root
  <2>1. QED
    BY <1>5, <1>6, Joined
<1>8. \E steps \in Seq(S) : Continue(steps)
  BY <1>5, <1>7 DEF SweepStaging, If, When
<1>9. QED
  BY <1>1, <1>8, StaysHere DEF SweepItems, Loops

-----------------------------------------------------------------------------
(* The moves of directories *)

\* What is put before the steps that are left begins with its own first step.
LEMMA FirstStep ==
    ASSUME NEW S, NEW m \in S, NEW rest \in Seq(S), NEW t \in Seq(S)
    PROVE  /\ (<<m>> \o rest) \o t # <<>> /\ Head((<<m>> \o rest) \o t) = m
           /\ <<m>> \o t # <<>> /\ Head(<<m>> \o t) = m
PROOF
<1> DEFINE x == <<m>>
<1>1. x \in Seq(S) /\ Len(x) = 1 /\ x[1] = m
  OBVIOUS
<1>2. ASSUME NEW u \in Seq(S)
      PROVE  x \o u \in Seq(S) /\ x \o u # <<>> /\ Head(x \o u) = m
  <2>1. PICK v : v = x \o u
    OBVIOUS
  <2> HIDE DEF x
  <2>2. /\ v \in Seq(S) /\ Len(v) = Len(x) + Len(u)
        /\ \A i \in 1 .. Len(x) + Len(u) : v[i] = IF i <= Len(x) THEN x[i] ELSE u[i - Len(x)]
    BY <1>1, <2>1, ConcatProperties
  <2>3. Len(v) > 0 /\ v[1] = m
    BY <1>1, <2>2
  <2>4. QED
    BY <2>1, <2>2, <2>3
<1>3. (x \o rest) \o t = x \o (rest \o t) /\ rest \o t \in Seq(S)
  <2> HIDE DEF x
  <2>1. QED
    BY <1>1, ConcatAssociative, Joined
<1>4. QED
  BY <1>2, <1>3

\* A directory moves only if nothing that was generated is in it.
LEMMA MovesOn ==
    ASSUME SuccessInv, Running, Phase(Head(todo)) = "place", Head(todo)[1] \notin Ends,
           Head(todo)[1] # "load",
           NEW m \in Fitting(pending), Phase(m) = "move", \A a \in Ours : Target(a)[1] # m[2][2],
           NEW rest \in Seq(InPhase("place", pending)), Continue(<<m>> \o rest)
    PROVE  SuccessInv'
PROOF
<1> DEFINE D == Onward("place")
<1>1. todo \in Ways(pending) /\ Fact("place")
  BY OnTheWay
<1>2. PICK t : t = Tail(todo)
  OBVIOUS
<1>3. /\ t \in Ways(pending) /\ Follows("place", Phase(Head(t)))
      /\ t[Len(t)] = todo[Len(todo)]
  BY <1>1, <1>2, WayTail
<1>4. "place" \in Loops
  BY DEF Loops
<1>5. Phase(Head(t)) \in D \cup {"fail"} /\ Leads(rest, D, D, pending)
  BY <1>3, <1>4, Loop, LeadsBlock
<1>6. Leads(<<m>>, {"move"}, D, pending)
  <2>1. \A d \in D \cup {"fail"} : Follows(Phase(m), d)
    BY DEF Onward, Followers, Follows
  <2>2. QED
    BY <2>1, LeadsOne
<1>7. Leads(<<m>> \o rest, {"move"}, D, pending)
  BY <1>5, <1>6, LeadsJoin
<1>8. todo' = (<<m>> \o rest) \o t
  BY <1>2 DEF Continue
<1>9. todo' \in Ways(pending) /\ todo'[Len(todo')] = todo[Len(todo)]
  BY <1>3, <1>5, <1>7, <1>8 DEF Leads
<1>10. Head(todo') = m
  <2>1. rest \in Seq(Fitting(pending)) /\ t \in Seq(Fitting(pending))
    BY <1>3, <1>5, WayParts DEF Leads
  <2>2. QED
    BY <1>8, <2>1, FirstStep
<1>11. Fact("move")
  BY <1>1 DEF Fact
<1>12. MoveInv'
  <2>1. Ours' = Ours
    BY DEF Continue, Ours, Exists, Holds
  <2>2. QED
    BY <1>10, <2>1 DEF MoveInv
<1>13. QED
  BY <1>9, <1>10, <1>11, <1>12, GoesOn

\* An artifact with its name is at the root or in a directory with its name.
LEMMA TargetParents ==
    ASSUME NEW a, NEW d
    PROVE  /\ Target(a)[1] # Preparation(d)[2] /\ Target(a)[1] # Quarantined(d)[2]
           /\ Target(a) # Claim(Directory(d))
PROOF
<1>1. Target(a)[1][1] \in {"root", "directory"}
  BY DEF Target, Root
<1>2. Preparation(d)[2][1] = "preparation" /\ Quarantined(d)[2][1] = "directory-quarantine"
  BY NameKind DEF Kind
<1>3. Kind(Target(a)) = "artifact" /\ Kind(Claim(Directory(d))) = "claim"
  BY NameKind
<1>4. QED
  BY <1>1, <1>2, <1>3

\* A directory is taken away.
LEMMA EnsureDirectoryRemovalOn ==
    ASSUME Inv, SuccessInv, EnsureDirectoryRemoval
    PROVE  SuccessInv'
PROOF
<1> DEFINE S == InPhase("place", pending)
           d == Item
           claim == Owned("claim-quarantine", d)
           m == <<"move", Directory(d), Quarantined(d)>>
<1>1. Here("remove directory") /\ Running /\ Head(todo)[1] = "remove directory"
  BY DEF EnsureDirectoryRemoval, Here
<1>2. pending \in Pendings /\ d \in Directories
  BY <1>1, ItemTyped DEF Inv, PlaceItems
<1>3. Directory(d) \in Places(d) /\ Quarantined(d) \in Places(d)
  BY DEF Places
<1>4. Claim(Directory(d)) \in FileNames /\ claim \in FileNames
  BY <1>2, <1>3, PlaceNames
<1>5. /\ Plain(Claim(Directory(d))) /\ Plain(claim)
      /\ Kind(Claim(Directory(d))) \notin ArtifactKinds /\ Kind(claim) \notin ArtifactKinds
  BY NamePhases
<1>6. RenamePhase(Claim(Directory(d))) = "place"
  BY <1>2, ClaimPhases
<1>7. Rename(Claim(Directory(d)), claim) \in Seq(S)
  BY <1>4, <1>5, <1>6, PhaseSteps
<1>8. Then("directory removed", d) \in Seq(S) /\ Fail \in Seq(S) /\ <<>> \in Seq(S)
  BY <1>2, PhaseItems, FailFits DEF PlaceItems, ApplyItems
<1>9. Move(Directory(d), Quarantined(d)) \in Seq(Steps(pending))
  BY <1>2, <1>3, OperationSteps
<1>10. m \in Fitting(pending) /\ Phase(m) = "move"
  BY <1>2, <1>9, MoveIn
<1>11. \/ \E steps \in Seq(S) : Continue(steps)
       \/ OnlyClaim(Directory(d)) /\ Continue(<<m>> \o Then("directory removed", d))
  BY <1>7, <1>8 DEF EnsureDirectoryRemoval, If, Move
<1>12. CASE \E steps \in Seq(S) : Continue(steps)
  BY <1>1, <1>12, StaysHere DEF ApplyItems, Loops
<1>13. CASE OnlyClaim(Directory(d)) /\ Continue(<<m>> \o Then("directory removed", d))
  <2>1. ASSUME NEW a \in Ours
        PROVE  Target(a)[1] # Directory(d)[2]
    <3>1. Exists(Target(a)) /\ Target(a) \in DOMAIN fs
      BY ArtifactNames DEF Ours, Inv, TreeInv, SoundTree, Tree, FileNames
    <3>2. Target(a) \notin Contents(Directory(d))
      BY <1>13, TargetParents DEF OnlyClaim
    <3>3. QED
      BY <3>1, <3>2 DEF Contents
  <2>2. m[2] = Directory(d)
    OBVIOUS
  <2>3. Phase(Head(todo)) = "place" /\ Head(todo)[1] \notin Ends /\ Head(todo)[1] # "load"
    BY <1>1, HerePhase DEF ApplyItems, Ends
  <2> HIDE DEF m
  <2>4. QED
    BY <1>1, <1>8, <1>10, <1>13, <2>1, <2>2, <2>3, MovesOn
<1>14. QED
  BY <1>11, <1>12, <1>13

\* What was taken away is checked, and goes back if it holds more than the claim.
LEMMA CheckDirectoryRemovalOn ==
    ASSUME Inv, SuccessInv, CheckDirectoryRemoval
    PROVE  SuccessInv'
PROOF
<1> DEFINE S == InPhase("place", pending)
           d == Item
           m == <<"move", Quarantined(d), Directory(d)>>
<1>1. Here("directory removed") /\ Running /\ Head(todo)[1] = "directory removed"
  BY DEF CheckDirectoryRemoval, Here
<1>2. pending \in Pendings /\ d \in Directories
  BY <1>1, ItemTyped DEF Inv, PlaceItems
<1>3. Directory(d) \in Places(d) /\ Quarantined(d) \in Places(d)
  BY DEF Places
<1>4. Fail \in Seq(S) /\ <<>> \in Seq(S)
  BY FailFits
<1>5. Move(Quarantined(d), Directory(d)) \in Seq(Steps(pending))
  BY <1>2, <1>3, OperationSteps
<1>6. m \in Fitting(pending) /\ Phase(m) = "move"
  BY <1>2, <1>5, MoveIn
<1>7. Continue(<<>>) \/ Continue(<<m>> \o Fail)
  BY DEF CheckDirectoryRemoval, When, Move
<1>8. CASE Continue(<<>>)
  BY <1>1, <1>4, <1>8, StaysHere DEF ApplyItems, Loops
<1>9. CASE Continue(<<m>> \o Fail)
  <2>1. m[2] = Quarantined(d)
    OBVIOUS
  <2>2. Phase(Head(todo)) = "place" /\ Head(todo)[1] \notin Ends /\ Head(todo)[1] # "load"
    BY <1>1, HerePhase DEF ApplyItems, Ends
  <2> HIDE DEF m
  <2>3. \A a \in Ours : Target(a)[1] # m[2][2]
    BY <2>1, TargetParents
  <2>4. QED
    BY <1>1, <1>4, <1>6, <1>9, <2>2, <2>3, MovesOn
<1>10. QED
  BY <1>7, <1>8, <1>9

\* A prepared directory gets its name.
LEMMA PlaceDirectoryOn ==
    ASSUME Inv, SuccessInv, PlaceDirectory
    PROVE  SuccessInv'
PROOF
<1> DEFINE S == InPhase("place", pending)
           d == Item
           m == <<"move", Preparation(d), Directory(d)>>
<1>1. Here("directory prepared") /\ Running /\ Head(todo)[1] = "directory prepared"
  BY DEF PlaceDirectory, Here
<1>2. pending \in Pendings /\ d \in Directories
  BY <1>1, ItemTyped DEF Inv, PlaceItems
<1>3. Directory(d) \in Places(d) /\ Preparation(d) \in Places(d)
  BY DEF Places
<1>4. Then("directory made", d) \in Seq(S) /\ Fail \in Seq(S)
  BY <1>2, PhaseItems, FailFits DEF PlaceItems, ApplyItems
<1>5. Move(Preparation(d), Directory(d)) \in Seq(Steps(pending))
  BY <1>2, <1>3, OperationSteps
<1>6. m \in Fitting(pending) /\ Phase(m) = "move"
  BY <1>2, <1>5, MoveIn
<1>7. Continue(Fail) \/ Continue(<<m>> \o Then("directory made", d))
  BY DEF PlaceDirectory, If, Move
<1>8. CASE Continue(Fail)
  BY <1>1, <1>4, <1>8, StaysHere DEF ApplyItems, Loops
<1>9. CASE Continue(<<m>> \o Then("directory made", d))
  <2>1. m[2] = Preparation(d)
    OBVIOUS
  <2>2. Phase(Head(todo)) = "place" /\ Head(todo)[1] \notin Ends /\ Head(todo)[1] # "load"
    BY <1>1, HerePhase DEF ApplyItems, Ends
  <2> HIDE DEF m
  <2>3. \A a \in Ours : Target(a)[1] # m[2][2]
    BY <2>1, TargetParents
  <2>4. QED
    BY <1>1, <1>4, <1>6, <1>9, <2>2, <2>3, MovesOn
<1>10. QED
  BY <1>7, <1>8, <1>9

-----------------------------------------------------------------------------
(* The checks between two phases *)

\* A transaction that is on record backs what was generated.
LEMMA OnRecord ==
    ASSUME LedgerInv, Exists(Record), Holds(Record, RecordOf(pending))
    PROVE  Recorded(Record) = pending /\ Backed(pending)
PROOF
<1>1. fs[Record].data = <<"pending", pending>>
  BY DEF Holds, RecordOf
<1>2. Recorded(Record) = pending
  BY <1>1 DEF Recorded, Decodes
<1>3. ~NoRecord
  BY DEF NoRecord, Record
<1>4. QED
  BY <1>2, <1>3 DEF LedgerInv

\* A check that is a phase of its own, with one phase to go on with.
LEMMA ChecksOnly ==
    ASSUME SuccessInv, NEW k \in {"settle", "confirm", "verify", "swept"}, Here(k),
           NEW condition, Continue(When(condition, Fail)),
           NEW e, Followers(k) = {e}, ~condition => Fact(e)
    PROVE  SuccessInv'
PROOF
<1>1. /\ Running /\ Head(todo)[1] = k /\ Phase(Head(todo)) = k
      /\ k \notin Ends /\ k # "load" /\ k # "fail"
  BY HerePhase DEF Ends
<1>2. PICK D : D = {e}
  OBVIOUS
<1>3. "move" \notin D
  BY <1>2 DEF Followers
<1>4. \A d : Follows(k, d) => d \in D \cup {"fail"}
  BY <1>1, <1>2 DEF Follows
<1>5. ~condition => \A d \in D : Fact(d)
  BY <1>2
<1>6. QED
  BY <1>1, <1>3, <1>4, <1>5, ChecksOn

\* What follows the phases in which there is one check.
LEMMA CheckFollows ==
    /\ Followers("settle") = {"compare"} /\ Followers("confirm") = {"compare"}
    /\ Followers("verify") = {"switch"} /\ Followers("swept") = {"forget"}
BY DEF Followers

\* The store is found settled, or still readable after a transaction.
LEMMA SettleOn ==
    ASSUME SuccessInv, Settle \/ Confirm
    PROVE  SuccessInv'
PROOF
<1>1. CASE Settle
  <2>1. Here("settle") /\ Running /\ Head(todo)[1] = "settle" /\ Phase(Head(todo)) = "settle"
    BY <1>1, HerePhase DEF Settle
  <2> DEFINE refused == ~(OwnershipIntact /\ ControlReadable /\ NoOrphans /\ BootstrapUntouched)
  <2>2. Continue(When(refused, Fail))
    BY <1>1 DEF Settle
  <2>3. Fact("settle")
    BY <2>1, OnTheWay
  <2>4. ~refused => Fact("compare")
    BY <2>3 DEF Fact, NoOrphans, Clear, NoRecord
  <2> HIDE DEF refused
  <2>5. QED
    BY <2>1, <2>2, <2>4, CheckFollows, ChecksOnly
<1>2. CASE Confirm
  <2>1. Here("confirm") /\ Running /\ Head(todo)[1] = "confirm" /\ Phase(Head(todo)) = "confirm"
    BY <1>2, HerePhase DEF Confirm
  <2>2. Continue(When(~ControlReadable, Fail))
    BY <1>2 DEF Confirm
  <2>3. Fact("confirm")
    BY <2>1, OnTheWay
  <2>4. Fact("compare")
    BY <2>3 DEF Fact
  <2>5. QED
    BY <2>1, <2>2, <2>4, CheckFollows, ChecksOnly
<1>3. QED
  BY <1>1, <1>2

\* A verified transaction has everything in place that is wanted, and nothing else.
LEMMA VerifiedFacts ==
    ASSUME Verified(pending), Backed(pending)
    PROVE  Arrived /\ Ours \subseteq Wanted(pending)
BY DEF Verified, Arrived, Wanted, Backed, Covered, Ours

\* A transaction is verified before the controls change hands.
LEMMA VerifyOn ==
    ASSUME SuccessInv, Verify
    PROVE  SuccessInv'
PROOF
<1>1. Here("verify") /\ Running /\ Head(todo)[1] = "verify" /\ Phase(Head(todo)) = "verify"
  BY HerePhase DEF Verify
<1>2. Continue(When(~Verified(pending), Fail))
  BY DEF Verify
<1>3. Fact("verify")
  BY <1>1, OnTheWay
<1>4. ASSUME Verified(pending)
      PROVE  Fact("switch")
  <2>1. Exists(Record) /\ Holds(Record, RecordOf(pending))
    BY <1>3 DEF Fact
  <2>2. Backed(pending)
    BY <2>1, OnRecord DEF SuccessInv
  <2>3. QED
    BY <1>4, <2>1, <2>2, VerifiedFacts DEF Fact
<1>5. QED
  BY <1>1, <1>2, <1>4, CheckFollows, ChecksOnly

\* A swept transaction has left nothing but its cleanup record.
LEMMA CheckSweptOn ==
    ASSUME SuccessInv, CheckSwept
    PROVE  SuccessInv'
PROOF
<1>1. Here("swept") /\ Running /\ Head(todo)[1] = "swept" /\ Phase(Head(todo)) = "swept"
  BY HerePhase DEF CheckSwept
<1> DEFINE left == \/ \E n \in Transient \cup {Pending} : Exists(n)
                   \/ \E d \in pending.removes : Exists(Owned("anchor", d))
<1>2. Continue(When(left, Fail))
  BY DEF CheckSwept
<1>3. Fact("swept")
  BY <1>1, OnTheWay
<1>4. ~left => Clear
  BY DEF Clear
<1>5. ~left => Fact("forget")
  BY <1>3, <1>4 DEF Fact
<1> HIDE DEF left
<1>6. QED
  BY <1>1, <1>2, <1>5, CheckFollows, ChecksOnly

-----------------------------------------------------------------------------
(* The phases of a whole transaction *)

\* One step of a phase, before steps of the phases that may follow it.
LEMMA LeadsSingle ==
    ASSUME NEW p, NEW c, c \notin {"resume", "compare", "finish"},
           NEW s, <<s>> \in Seq(InPhase(c, p)), NEW D, "move" \notin D,
           \A d \in D : Follows(c, d)
    PROVE  Leads(<<s>>, {c}, D, p)
PROOF
<1>1. s \in Fitting(p) /\ Phase(s) \in {c, "fail"}
  BY OneElement DEF InPhase
<1>2. \A d \in D \cup {"fail"} : Follows(c, d) /\ Follows("fail", d)
  BY DEF Follows
<1>3. Leads(<<s>>, {Phase(s)}, D, p)
  BY <1>1, <1>2, LeadsOne
<1>4. \A d \in {Phase(s)} \cup {"fail"} : d \in {c} \cup {"fail"}
  BY <1>1
<1>5. QED
  BY <1>3, <1>4 DEF Leads

\* A first phase is one of several.
LEMMA LeadsAmong ==
    ASSUME NEW p, NEW y, NEW c, NEW B, c \in B, NEW D, Leads(y, {c}, D, p)
    PROVE  Leads(y, B, D, p)
PROOF
<1>1. {c} \subseteq B /\ D \subseteq D
  OBVIOUS
<1>2. QED
  BY <1>1, LeadsWeaker

\* More steps of a phase that goes on with itself.
LEMMA LeadsThrough ==
    ASSUME NEW p, NEW C, NEW c \in Loops, NEW x, Leads(x, C, Onward(c), p),
           NEW y \in Seq(InPhase(c, p))
    PROVE  Leads(x \o y, C, Onward(c), p)
PROOF
<1>1. Leads(y, Onward(c), Onward(c), p)
  BY LeadsBlock
<1>2. QED
  BY <1>1, LeadsJoin

\* The same inspection for each member of a set of the transaction.
LEMMA EachOnward ==
    ASSUME NEW p \in Pendings
    PROVE  /\ Each(Writes(p), "stage") \in Seq(InPhase("prepare", p))
           /\ Each(p.makes, "anchor") \in Seq(InPhase("prepare", p))
           /\ Each(Updates(p), "source") \in Seq(InPhase("prepare", p))
           /\ Each(Deletes(p), "source") \in Seq(InPhase("prepare", p))
           /\ Each(Updates(p), "quarantine") \in Seq(InPhase("place", p))
           /\ Each(Deletes(p), "quarantine") \in Seq(InPhase("place", p))
           /\ Each(p.removes, "remove directory") \in Seq(InPhase("place", p))
           /\ Each(p.makes, "make directory") \in Seq(InPhase("place", p))
           /\ Each(Writes(p), "activate") \in Seq(InPhase("place", p))
           /\ Each(Updates(p), "sweep quarantine") \in Seq(InPhase("sweep", p))
           /\ Each(Deletes(p), "sweep quarantine") \in Seq(InPhase("sweep", p))
           /\ Each(p.removes, "sweep directory") \in Seq(InPhase("sweep", p))
           /\ Each(Writes(p), "sweep activation") \in Seq(InPhase("sweep", p))
           /\ Each(p.makes, "sweep claim") \in Seq(InPhase("sweep", p))
           /\ Each(Writes(p), "sweep stage") \in Seq(InPhase("sweep", p))
PROOF
<1>1. ASSUME NEW c, NEW k, NEW S, IsFiniteSet(S), \A x \in S : Then(k, x) \in Seq(InPhase(c, p))
      PROVE  Each(S, k) \in Seq(InPhase(c, p))
  <2>1. \A x \in S : <<k, x>> \in InPhase(c, p)
    BY <1>1, OneElement DEF Then
  <2>2. QED
    BY <1>1, <2>1, EachSteps
<1>2. ASSUME NEW c, NEW k \in WriteItems,
             \/ c = "prepare" /\ k \in PrepareItems
             \/ c = "place" /\ k \in ApplyItems
             \/ c = "sweep" /\ k \in SweepItems
      PROVE  Each(Writes(p), k) \in Seq(InPhase(c, p))
  <2>1. \A x \in Writes(p) : Then(k, x) \in Seq(InPhase(c, p))
    BY <1>2, PhaseItems
  <2>2. QED
    BY <1>1, <2>1, PendingFinite
<1>3. ASSUME NEW c, NEW k \in SourceItems,
             \/ c = "prepare" /\ k \in PrepareItems
             \/ c = "place" /\ k \in ApplyItems
             \/ c = "sweep" /\ k \in SweepItems
      PROVE  /\ Each(Updates(p), k) \in Seq(InPhase(c, p))
             /\ Each(Deletes(p), k) \in Seq(InPhase(c, p))
  <2>1. \A x \in Updates(p) \cup Deletes(p) : Then(k, x) \in Seq(InPhase(c, p))
    BY <1>3, PhaseItems
  <2>2. QED
    BY <1>1, <2>1, PendingFinite
<1>4. ASSUME NEW c, NEW k \in PlaceItems,
             \/ c = "prepare" /\ k \in PrepareItems
             \/ c = "place" /\ k \in ApplyItems
             \/ c = "sweep" /\ k \in SweepItems
      PROVE  /\ Each(p.makes, k) \in Seq(InPhase(c, p))
             /\ Each(p.removes, k) \in Seq(InPhase(c, p))
  <2>1. \A x \in Directories : Then(k, x) \in Seq(InPhase(c, p))
    BY <1>4, PhaseItems
  <2>2. \A x \in p.makes \cup p.removes : x \in Directories
    BY PendingParts
  <2>3. QED
    BY <1>1, <2>1, <2>2, PendingFinite
<1>5. /\ Each(Writes(p), "stage") \in Seq(InPhase("prepare", p))
      /\ Each(Writes(p), "activate") \in Seq(InPhase("place", p))
      /\ Each(Writes(p), "sweep activation") \in Seq(InPhase("sweep", p))
      /\ Each(Writes(p), "sweep stage") \in Seq(InPhase("sweep", p))
  BY <1>2 DEF WriteItems, PrepareItems, ApplyItems, SweepItems
<1>6. /\ Each(Updates(p), "source") \in Seq(InPhase("prepare", p))
      /\ Each(Deletes(p), "source") \in Seq(InPhase("prepare", p))
      /\ Each(Updates(p), "quarantine") \in Seq(InPhase("place", p))
      /\ Each(Deletes(p), "quarantine") \in Seq(InPhase("place", p))
      /\ Each(Updates(p), "sweep quarantine") \in Seq(InPhase("sweep", p))
      /\ Each(Deletes(p), "sweep quarantine") \in Seq(InPhase("sweep", p))
  BY <1>3 DEF SourceItems, PrepareItems, ApplyItems, SweepItems
<1>7. /\ Each(p.makes, "anchor") \in Seq(InPhase("prepare", p))
      /\ Each(p.removes, "remove directory") \in Seq(InPhase("place", p))
      /\ Each(p.makes, "make directory") \in Seq(InPhase("place", p))
      /\ Each(p.removes, "sweep directory") \in Seq(InPhase("sweep", p))
      /\ Each(p.makes, "sweep claim") \in Seq(InPhase("sweep", p))
  BY <1>4 DEF PlaceItems, PrepareItems, ApplyItems, SweepItems
<1>8. QED
  BY <1>5, <1>6, <1>7

\* The phases that go on with themselves, and what else they go on with.
LEMMA Onwards ==
    /\ Onward("bootstrap") = {"bootstrap", "settle"}
    /\ Onward("prepare") = {"prepare", "write record"}
    /\ Onward("place") = {"place", "verify"}
    /\ Onward("switch") = {"switch", "mark", "resume"}
    /\ Onward("sweep") = {"sweep", "swept"}
    /\ {"bootstrap", "prepare", "place", "switch", "sweep"} \subseteq Loops
BY DEF Onward, Followers, Loops

\* The bootstrap of a workspace.
LEMMA BootstrapWay ==
    ASSUME NEW p
    PROVE  Leads(BootstrapSteps, Onward("bootstrap"), Onward("bootstrap"), p)
PROOF
<1> DEFINE S == InPhase("bootstrap", p)
<1>1. <<"ownership-root">> \in FileData /\ Bootstrap \in FileData
  BY DEF FileData
<1>2. Create(OwnershipRoot, <<"dir">>) \in Seq(S)
  BY SingleNames, SinglePhases, PhaseSteps DEF Belongs
<1>3. Create(Reserved("ownership-proof", ""), <<"ownership-root">>) \in Seq(S)
  BY <1>1, SingleNames, SinglePhases, PhaseSteps DEF Belongs
<1>4. Link(Reserved("ownership-proof", ""), Owned("root-claim", "")) \in Seq(S)
  BY SingleNames, SinglePhases, PhaseSteps DEF Belongs
<1>5. Create(State, Bootstrap) \in Seq(S)
  BY <1>1, SingleNames, SinglePhases, PhaseSteps DEF Belongs
<1>6. BootstrapSteps \in Seq(S)
  <2> HIDE DEF S
  <2>1. QED
    BY <1>2, <1>3, <1>4, <1>5, Joined DEF BootstrapSteps
<1>7. QED
  BY <1>6, LeadsBlock DEF Loops

\* The application of a transaction.
LEMMA ApplyWay ==
    ASSUME NEW p \in Pendings
    PROVE  Leads(ApplySteps(p), Onward("place"), Onward("switch"), p)
PROOF
<1> DEFINE S == InPhase("place", p)
           y1 == Each(Updates(p), "quarantine") \o Each(Deletes(p), "quarantine")
                 \o Each(p.removes, "remove directory") \o Each(p.makes, "make directory")
                 \o Each(Writes(p), "activate")
<1>1. y1 \in Seq(S)
  <2> DEFINE e1 == Each(Updates(p), "quarantine")
             e2 == Each(Deletes(p), "quarantine")
             e3 == Each(p.removes, "remove directory")
             e4 == Each(p.makes, "make directory")
             e5 == Each(Writes(p), "activate")
  <2>1. e1 \in Seq(S) /\ e2 \in Seq(S) /\ e3 \in Seq(S) /\ e4 \in Seq(S) /\ e5 \in Seq(S)
    BY EachOnward
  <2> HIDE DEF S, e1, e2, e3, e4, e5
  <2>2. e1 \o e2 \o e3 \o e4 \o e5 \in Seq(S)
    BY <2>1, Joined
  <2>3. QED
    BY <2>2 DEF e1, e2, e3, e4, e5
<1>2. Leads(y1, Onward("place"), Onward("place"), p)
  BY <1>1, LeadsBlock DEF Loops
<1>3. /\ Then("verify", "") \in Seq(InPhase("verify", p))
      /\ Then("switch", "inventory") \in Seq(InPhase("switch", p))
      /\ Then("switch", "state") \in Seq(InPhase("switch", p))
  <2>1. /\ Then("verify", "") \in Seq(Steps(p)) /\ Then("switch", "inventory") \in Seq(Steps(p))
        /\ Then("switch", "state") \in Seq(Steps(p))
    BY ItemSteps DEF WholeItems, ControlItems, Controls
  <2>2. "verify" \notin OperationNamed /\ "switch" \notin OperationNamed
    BY DEF OperationNamed
  <2>3. \A x : Phase(<<"verify", x>>) = "verify" /\ Phase(<<"switch", x>>) = "switch"
    BY ItemPhases
  <2>4. QED
    BY <2>1, <2>2, <2>3, ItemFits
<1>4. Leads(Then("verify", ""), {"verify"}, {"switch"}, p)
  <2>1. Follows("verify", "switch")
    BY DEF Follows, Followers
  <2>2. QED
    BY <1>3, <2>1, LeadsSingle DEF Then
<1>5. /\ Leads(Then("switch", "inventory"), {"switch"}, Onward("switch"), p)
      /\ Leads(Then("switch", "state"), {"switch"}, Onward("switch"), p)
  <2>1. "move" \notin Onward("switch") /\ \A d \in Onward("switch") : Follows("switch", d)
    BY DEF Follows, Followers, Onward
  <2>2. QED
    BY <1>3, <2>1, LeadsSingle DEF Then
<1>6. Leads(y1 \o Then("verify", ""), Onward("place"), {"switch"}, p)
  <2>1. Leads(Then("verify", ""), Onward("place"), {"switch"}, p)
    <3>1. "verify" \in Onward("place")
      BY DEF Onward, Followers
    <3>2. QED
      BY <1>4, <3>1, LeadsAmong
  <2>2. QED
    BY <1>2, <2>1, LeadsJoin
<1>7. Leads(y1 \o Then("verify", "") \o Then("switch", "inventory"),
            Onward("place"), Onward("switch"), p)
  BY <1>5, <1>6, LeadsJoin
<1>8. Leads(y1 \o Then("verify", "") \o Then("switch", "inventory") \o Then("switch", "state"),
            Onward("place"), Onward("switch"), p)
  <2>1. Then("switch", "state") \in Seq(InPhase("switch", p)) /\ "switch" \in Loops
    BY <1>3 DEF Loops
  <2>2. QED
    BY <1>7, <2>1, LeadsThrough
<1>9. QED
  BY <1>8 DEF ApplySteps

\* The preparation of a transaction, up to its record.
LEMMA PrepareWay ==
    ASSUME NEW p \in Pendings
    PROVE  Leads(PrepareSteps(p), Onward("prepare"), {"apply"}, p)
PROOF
<1> DEFINE S == InPhase("prepare", p)
           Control(c) == Create(Reserved("temporary", c), After(p, c))
                         \o Link(Reserved("temporary", c), Reserved("temporary-proof", c))
                         \o When(Replaces(p, c),
                                 Link(Reserved("control", c), Reserved("previous-proof", c)))
           Stages == When(Writes(p) # {},
                          Create(StagingRoot, <<"dir">>)
                          \o Create(Reserved("staging-proof", ""), <<"staging">>)
                          \o Link(Reserved("staging-proof", ""), Staged("claim", "")))
           y == Stages \o Each(Writes(p), "stage") \o Each(p.makes, "anchor")
                \o Each(Updates(p), "source") \o Each(Deletes(p), "source")
                \o Then("prepared", "") \o Control("inventory") \o Control("state")
                \o Then("staged", "")
           write == Create(Temporary, <<"pending", p>>)
           prove == Link(Temporary, PendingProof)
           publish == Rename(Temporary, Pending)
<1>1. Stages \in Seq(S)
  <2>1. <<"staging">> \in FileData
    BY DEF FileData
  <2>2. /\ Create(StagingRoot, <<"dir">>) \in Seq(S)
        /\ Create(Reserved("staging-proof", ""), <<"staging">>) \in Seq(S)
        /\ Link(Reserved("staging-proof", ""), Staged("claim", "")) \in Seq(S)
    BY <2>1, SingleNames, SinglePhases, PhaseSteps DEF Belongs
  <2>3. Create(StagingRoot, <<"dir">>)
           \o Create(Reserved("staging-proof", ""), <<"staging">>)
           \o Link(Reserved("staging-proof", ""), Staged("claim", "")) \in Seq(S)
    <3> HIDE DEF S
    <3>1. QED
      BY <2>2, Joined
  <2>4. <<>> \in Seq(S)
    BY FailFits
  <2>5. QED
    BY <2>3, <2>4 DEF When
<1>2. ASSUME NEW c \in Controls
      PROVE  Control(c) \in Seq(S)
  <2> DEFINE control == Reserved("control", c)
             temporary == Reserved("temporary", c)
             proof == Reserved("temporary-proof", c)
             was == Reserved("previous-proof", c)
  <2>1. /\ control \in FileNames /\ temporary \in FileNames /\ proof \in FileNames
        /\ was \in FileNames
    BY ControlNames
  <2>2. After(p, c) \in FileData
    BY PendingData
  <2>3. /\ Plain(temporary) /\ NewPhase(temporary) = "prepare"
        /\ Plain(proof) /\ NewPhase(proof) = "prepare" /\ Plain(was) /\ NewPhase(was) = "prepare"
        /\ Kind(temporary) \notin ArtifactKinds /\ Kind(proof) \notin ArtifactKinds
        /\ Kind(was) \notin ArtifactKinds /\ Kind(control) \notin ArtifactKinds
    BY ControlPhases
  <2>4. /\ Create(temporary, After(p, c)) \in Seq(S) /\ Link(temporary, proof) \in Seq(S)
        /\ Link(control, was) \in Seq(S)
    BY <2>1, <2>2, <2>3, PhaseSteps
  <2>5. When(Replaces(p, c), Link(control, was)) \in Seq(S)
    BY <2>4, FailFits DEF When
  <2> DEFINE z == When(Replaces(p, c), Link(control, was))
  <2>6. Create(temporary, After(p, c)) \o Link(temporary, proof) \o z \in Seq(S)
    <3>1. z \in Seq(S)
      BY <2>5
    <3> HIDE DEF S, control, temporary, proof, was, z
    <3>2. QED
      BY <2>4, <3>1, Joined
  <2>7. QED
    BY <2>6
<1>3. Then("prepared", "") \in Seq(S) /\ Then("staged", "") \in Seq(S)
  BY PhaseItems DEF WholeItems, PrepareItems
<1>4. y \in Seq(S)
  <2> DEFINE e1 == Each(Writes(p), "stage")
             e2 == Each(p.makes, "anchor")
             e3 == Each(Updates(p), "source")
             e4 == Each(Deletes(p), "source")
             c1 == Control("inventory")
             c2 == Control("state")
  <2>1. e1 \in Seq(S) /\ e2 \in Seq(S) /\ e3 \in Seq(S) /\ e4 \in Seq(S)
    BY EachOnward
  <2>2. c1 \in Seq(S) /\ c2 \in Seq(S)
    <3>1. "inventory" \in Controls /\ "state" \in Controls
      BY DEF Controls
    <3> HIDE DEF S, Control
    <3>2. QED
      BY <1>2, <3>1
  <2>3. Stages \o e1 \o e2 \o e3 \o e4 \o Then("prepared", "") \o c1 \o c2 \o Then("staged", "")
           \in Seq(S)
    <3> DEFINE t1 == Then("prepared", "")
               t2 == Then("staged", "")
    <3>1. t1 \in Seq(S) /\ t2 \in Seq(S)
      BY <1>3
    <3> HIDE DEF S, e1, e2, e3, e4, c1, c2, Stages, t1, t2
    <3>2. Stages \o e1 \o e2 \o e3 \o e4 \in Seq(S)
      BY <1>1, <2>1, Joined
    <3>3. (Stages \o e1 \o e2 \o e3 \o e4) \o t1 \o c1 \o c2 \o t2 \in Seq(S)
      <4> DEFINE z == Stages \o e1 \o e2 \o e3 \o e4
      <4>1. z \in Seq(S)
        BY <3>2
      <4> HIDE DEF z
      <4>2. z \o t1 \o c1 \o c2 \o t2 \in Seq(S)
        BY <2>2, <3>1, <4>1, Joined
      <4>3. QED
        BY <4>2 DEF z
    <3>4. QED
      BY <3>3 DEF t1, t2
  <2>4. QED
    BY <2>3
<1>5. Leads(y, Onward("prepare"), Onward("prepare"), p)
  BY <1>4, LeadsBlock DEF Loops
<1>6. /\ write \in Seq(InPhase("write record", p))
      /\ prove \in Seq(InPhase("prove record", p))
      /\ publish \in Seq(InPhase("publish", p))
  <2>1. Temporary \in FileNames /\ Pending \in FileNames /\ PendingProof \in FileNames
    BY SingleNames DEF Temporary
  <2>2. write \in Seq(Steps(p)) /\ prove \in Seq(Steps(p)) /\ publish \in Seq(Steps(p))
    BY <2>1, PendingData, OperationSteps
  <2>3. write \in Seq(InPhase("write record", p))
    BY <2>2, SinglePhases, CreateIn DEF RecordOf
  <2>4. prove \in Seq(InPhase("prove record", p))
    BY <2>1, SinglePhases, PhaseSteps DEF Belongs
  <2>5. publish \in Seq(InPhase("publish", p))
    BY <2>2, SinglePhases, RenameIn
  <2>6. QED
    BY <2>3, <2>4, <2>5
<1>7. /\ Leads(write, {"write record"}, {"prove record"}, p)
      /\ Leads(prove, {"prove record"}, {"publish"}, p)
      /\ Leads(publish, {"publish"}, {"apply"}, p)
  <2>1. /\ Follows("write record", "prove record") /\ Follows("prove record", "publish")
        /\ Follows("publish", "apply")
    BY DEF Follows, Followers
  <2>2. Leads(write, {"write record"}, {"prove record"}, p)
    BY <1>6, <2>1, LeadsSingle DEF Create
  <2>3. Leads(prove, {"prove record"}, {"publish"}, p)
    BY <1>6, <2>1, LeadsSingle DEF Link
  <2>4. Leads(publish, {"publish"}, {"apply"}, p)
    BY <1>6, <2>1, LeadsSingle DEF Rename
  <2>5. QED
    BY <2>2, <2>3, <2>4
<1>8. Leads(write, Onward("prepare"), {"prove record"}, p)
  <2>1. "write record" \in Onward("prepare")
    BY DEF Onward, Followers
  <2>2. QED
    BY <1>7, <2>1, LeadsAmong
<1> HIDE DEF y, write, prove, publish
<1>9. Leads(y \o write, Onward("prepare"), {"prove record"}, p)
  BY <1>5, <1>8, LeadsJoin
<1>10. Leads(y \o write \o prove, Onward("prepare"), {"publish"}, p)
  BY <1>7, <1>9, LeadsJoin
<1>11. Leads(y \o write \o prove \o publish, Onward("prepare"), {"apply"}, p)
  BY <1>7, <1>10, LeadsJoin
<1>12. PrepareSteps(p) = y \o write \o prove \o publish
  BY DEF PrepareSteps, y, write, prove, publish, Temporary
<1>13. QED
  BY <1>11, <1>12

\* The cleaning up of a transaction.
LEMMA CleanupWay ==
    ASSUME NEW p \in Pendings
    PROVE  Leads(CleanupSteps(p), {"mark"}, {"settle", "confirm", "finish"}, p)
PROOF
<1> DEFINE S == InPhase("sweep", p)
           e1 == Each(Updates(p), "sweep quarantine")
           e2 == Each(Deletes(p), "sweep quarantine")
           e3 == Each(p.removes, "sweep directory")
           e4 == Each(Writes(p), "sweep activation")
           e5 == Each(p.makes, "sweep claim")
           c1 == Then("sweep control", "inventory")
           c2 == Then("sweep control", "state")
           e6 == Each(Writes(p), "sweep stage")
           c3 == Then("sweep staging", "")
           u1 == Unlink(Pending, Cleanup)
           u2 == Unlink(PendingProof, Cleanup)
           mark == Then("mark", "")
           swept == Then("swept", "")
           forget == Discard(Cleanup, <<"pending", p>>)
<1>1. /\ e1 \in Seq(S) /\ e2 \in Seq(S) /\ e3 \in Seq(S) /\ e4 \in Seq(S) /\ e5 \in Seq(S)
      /\ e6 \in Seq(S)
  BY EachOnward
<1>2. c1 \in Seq(S) /\ c2 \in Seq(S) /\ c3 \in Seq(S)
  BY PhaseItems DEF ControlItems, WholeItems, SweepItems, Controls
<1>3. u1 \in Seq(S) /\ u2 \in Seq(S)
  <2>1. Pending \in FileNames /\ PendingProof \in FileNames /\ Cleanup \in FileNames
    BY SingleNames
  <2>2. /\ Kind(Pending) = "pending" /\ Kind(PendingProof) = "pending-proof"
        /\ Kind(Cleanup) = "cleanup"
    BY NameKind
  <2>3. Pending # Cleanup /\ PendingProof # Cleanup
    BY <2>2
  <2>4. Unlink(Pending, Cleanup) \in Seq(Steps(p))
    BY <2>1, <2>3, OperationSteps
  <2>5. Plain(PendingProof)
    BY SinglePhases DEF Belongs
  <2>6. QED
    BY <2>1, <2>3, <2>4, <2>5, RemoveIn, PhaseSteps
<1>4. /\ mark \in Seq(InPhase("mark", p)) /\ swept \in Seq(InPhase("swept", p))
      /\ forget \in Seq(InPhase("forget", p))
  <2>1. mark \in Seq(Steps(p)) /\ swept \in Seq(Steps(p))
    BY ItemSteps DEF WholeItems
  <2>2. "mark" \notin OperationNamed /\ "swept" \notin OperationNamed
    BY DEF OperationNamed
  <2>3. \A x : Phase(<<"mark", x>>) = "mark" /\ Phase(<<"swept", x>>) = "swept"
    BY ItemPhases
  <2>4. mark \in Seq(InPhase("mark", p)) /\ swept \in Seq(InPhase("swept", p))
    BY <2>1, <2>2, <2>3, ItemFits
  <2>5. Discard(Cleanup, RecordOf(p)) \in Seq(Steps(p))
    BY SingleNames, PendingData, OperationSteps DEF RecordOf
  <2>6. Discard(Cleanup, RecordOf(p)) \in Seq(InPhase("forget", p))
    BY <2>5, RemoveIn
  <2>7. QED
    BY <2>4, <2>6 DEF RecordOf
<1>5. /\ Leads(mark, {"mark"}, Onward("sweep"), p)
      /\ Leads(swept, {"swept"}, {"forget"}, p)
      /\ Leads(forget, {"forget"}, {"settle", "confirm", "finish"}, p)
  <2>1. /\ \A d \in Onward("sweep") : Follows("mark", d)
        /\ Follows("swept", "forget")
        /\ \A d \in {"settle", "confirm", "finish"} : Follows("forget", d)
        /\ "move" \notin Onward("sweep")
    BY DEF Follows, Followers, Onward
  <2>2. Leads(mark, {"mark"}, Onward("sweep"), p)
    BY <1>4, <2>1, LeadsSingle DEF Then
  <2>3. Leads(swept, {"swept"}, {"forget"}, p)
    BY <1>4, <2>1, LeadsSingle DEF Then
  <2>4. Leads(forget, {"forget"}, {"settle", "confirm", "finish"}, p)
    <3>1. "move" \notin {"settle", "confirm", "finish"}
      OBVIOUS
    <3>2. QED
      BY <1>4, <2>1, <3>1, LeadsSingle DEF Discard
  <2>5. QED
    BY <2>2, <2>3, <2>4
<1>6. Leads(swept, Onward("sweep"), {"forget"}, p)
  <2>1. "swept" \in Onward("sweep")
    BY DEF Onward, Followers
  <2>2. QED
    BY <1>5, <2>1, LeadsAmong
<1>7. "sweep" \in Loops
  BY DEF Loops
<1> HIDE DEF S, e1, e2, e3, e4, e5, e6, c1, c2, c3, u1, u2, mark, swept, forget
<1>8. ASSUME NEW x, Leads(x, {"mark"}, Onward("sweep"), p), NEW z \in Seq(S)
      PROVE  Leads(x \o z, {"mark"}, Onward("sweep"), p)
  BY <1>7, <1>8, LeadsThrough DEF S
<1>9. Leads(mark \o e1 \o e2 \o e3 \o e4 \o e5, {"mark"}, Onward("sweep"), p)
  BY <1>1, <1>5, <1>8
<1>10. Leads(mark \o e1 \o e2 \o e3 \o e4 \o e5 \o c1 \o c2 \o e6, {"mark"}, Onward("sweep"), p)
  BY <1>1, <1>2, <1>8, <1>9
<1>11. Leads(mark \o e1 \o e2 \o e3 \o e4 \o e5 \o c1 \o c2 \o e6 \o c3 \o u1 \o u2,
             {"mark"}, Onward("sweep"), p)
  BY <1>2, <1>3, <1>8, <1>10
<1>12. Leads(mark \o e1 \o e2 \o e3 \o e4 \o e5 \o c1 \o c2 \o e6 \o c3 \o u1 \o u2 \o swept,
             {"mark"}, {"forget"}, p)
  BY <1>6, <1>11, LeadsJoin
<1>13. Leads(mark \o e1 \o e2 \o e3 \o e4 \o e5 \o c1 \o c2 \o e6 \o c3 \o u1 \o u2 \o swept
                \o forget, {"mark"}, {"settle", "confirm", "finish"}, p)
  BY <1>5, <1>12, LeadsJoin
<1>14. QED
  BY <1>13 DEF CleanupSteps, e1, e2, e3, e4, e5, e6, c1, c2, c3, u1, u2, mark, swept, forget

-----------------------------------------------------------------------------
(* The inspections that decide what comes next *)

\* A synchronisation may fail before anything but the move of a directory.
LEMMA FailLeads ==
    ASSUME NEW p, NEW D, "move" \notin D
    PROVE  Leads(Fail, {"fail"}, D, p)
PROOF
<1>1. \A d \in D \cup {"fail"} : Follows("fail", d)
  BY DEF Follows
<1>2. QED
  BY <1>1, FailFits, LeadsOne DEF Fail

\* An inspection that puts steps of known phases in its place keeps the invariant, if
\* the first of them finds what it relies on.
LEMMA LeadsOn ==
    ASSUME SuccessInv, Running, Head(todo)[1] \notin Ends, Head(todo)[1] # "load",
           NEW steps, NEW C, NEW D, Leads(steps, C, D, pending), Continue(steps),
           \A d : Follows(Phase(Head(todo)), d) => d \in D \cup {"fail"},
           "move" \notin C, \A c \in C : Fact(c)
    PROVE  SuccessInv'
PROOF
<1>1. todo \in Ways(pending)
  BY OnTheWay
<1>2. PICK t : t = Tail(todo)
  OBVIOUS
<1>3. /\ t \in Ways(pending) /\ Follows(Phase(Head(todo)), Phase(Head(t)))
      /\ t[Len(t)] = todo[Len(todo)]
  BY <1>1, <1>2, WayTail
<1>4. Phase(Head(t)) \in D \cup {"fail"}
  BY <1>3
<1>5. todo' = steps \o t
  BY <1>2 DEF Continue
<1>6. /\ todo' \in Ways(pending) /\ Phase(Head(todo')) \in C \cup {"fail"}
      /\ todo'[Len(todo')] = todo[Len(todo)]
  BY <1>3, <1>4, <1>5 DEF Leads
<1>7. PICK d : Phase(Head(todo')) = d
  OBVIOUS
<1>8. Fact("fail")
  BY DEF Fact
<1>9. Fact(d) /\ d # "move"
  BY <1>6, <1>7, <1>8
<1>10. MoveInv'
  BY <1>7, <1>9, NoMove
<1>11. QED
  BY <1>6, <1>7, <1>9, <1>10, GoesOn

\* The cleanup record is there, or it is written.
LEMMA MarkCleanupOn ==
    ASSUME Inv, SuccessInv, MarkCleanup
    PROVE  SuccessInv'
PROOF
<1>1. Here("mark") /\ Running /\ Head(todo)[1] = "mark"
  BY DEF MarkCleanup, Here
<1>2. Phase(Head(todo)) = "mark" /\ "mark" \notin Ends /\ "mark" # "load"
  BY <1>1 DEF Phase, PrepareItems, ApplyItems, SweepItems, Ends
<1>3. pending \in Pendings
  BY <1>1, ItemTyped DEF Inv, WholeItems
<1>4. Fact("mark")
  BY <1>1, <1>2, OnTheWay
<1>5. \A d : Follows("mark", d) => d \in Onward("sweep") \cup {"fail"}
  BY DEF Follows, Followers, Onward
<1>6. "move" \notin Onward("sweep")
  BY DEF Onward, Followers
<1>7. CASE Exists(Cleanup)
  <2>1. Continue(When(~CleanupAuthority(pending), Fail))
    BY <1>7 DEF MarkCleanup
  <2>2. CleanupAuthority(pending) => Switched(pending)
    BY DEF CleanupAuthority, Switched, After
  <2>3. CleanupAuthority(pending) => Fact("sweep") /\ Fact("swept")
    BY <1>4, <2>2 DEF Fact
  <2>4. CleanupAuthority(pending) => \A d \in Onward("sweep") : Fact(d)
    BY <2>3, Onwards
  <2>5. QED
    BY <1>1, <1>2, <1>5, <1>6, <2>1, <2>4, ChecksOn
<1>8. CASE ~Exists(Cleanup)
  <2> DEFINE link == LinkVerified(Pending, PendingProof, Cleanup)
             mark == Then("mark", "")
  <2>1. Continue(link \o mark)
    BY <1>8 DEF MarkCleanup
  <2>2. link \in Seq(InPhase("record cleanup", pending))
    <3>1. link \in Seq(Steps(pending))
      BY SingleNames, OperationSteps
    <3>2. NewPhase(Cleanup) = "record cleanup"
      BY NameKind DEF NewPhase
    <3>3. Kind(Pending) \notin ArtifactKinds /\ Kind(Cleanup) \notin ArtifactKinds
      BY NameKind DEF ArtifactKinds
    <3>4. QED
      BY <3>1, <3>2, <3>3, LinkIn
  <2>3. mark \in Seq(InPhase("mark", pending))
    <3>1. mark \in Seq(Steps(pending)) /\ "mark" \notin OperationNamed
      BY <1>3, ItemSteps DEF WholeItems, OperationNamed
    <3>2. Phase(<<"mark", "">>) = "mark"
      BY ItemPhases
    <3>3. QED
      BY <3>1, <3>2, ItemFits
  <2>4. Leads(link, {"record cleanup"}, {"mark"}, pending)
    <3>1. Follows("record cleanup", "mark")
      BY DEF Follows, Followers
    <3>2. QED
      BY <2>2, <3>1, LeadsSingle DEF LinkVerified
  <2>5. Leads(mark, {"mark"}, Onward("sweep"), pending)
    <3>1. \A d \in Onward("sweep") : Follows("mark", d)
      BY DEF Follows, Followers, Onward
    <3>2. QED
      BY <1>6, <2>3, <3>1, LeadsSingle DEF Then
  <2>6. Leads(link \o mark, {"record cleanup"}, Onward("sweep"), pending)
    BY <2>4, <2>5, LeadsJoin
  <2>7. Fact("record cleanup")
    BY <1>4 DEF Fact
  <2>8. PICK C : C = {"record cleanup"}
    OBVIOUS
  <2>9. "move" \notin C /\ \A c \in C : Fact(c)
    BY <2>7, <2>8
  <2> HIDE DEF link, mark
  <2>10. QED
    BY <1>1, <1>2, <1>5, <2>1, <2>6, <2>8, <2>9, LeadsOn
<1>9. QED
  BY <1>7, <1>8

\* What the resumption of a transaction is followed by comes last.
LEMMA ResumedEnd ==
    ASSUME NEW p, NEW t \in Ways(p), Phase(Head(t)) \in {"compare", "finish"}
    PROVE  Len(t) = 1 /\ Head(t)[1] = Phase(Head(t)) /\ t[Len(t)] = Head(t)
PROOF
<1>1. /\ Len(t) \in Nat \ {0} /\ Head(t) = t[1]
      /\ \A i \in 1 .. Len(t) - 1 : Follows(Phase(t[i]), Phase(t[i + 1]))
  BY WayParts
<1>2. \A d : ~Follows("compare", d) /\ ~Follows("finish", d)
  BY DEF Follows, Followers
<1>3. Len(t) = 1
  <2>1. ASSUME Len(t) # 1
        PROVE  FALSE
    <3>1. 1 \in 1 .. Len(t) - 1
      <4>1. PICK k \in Nat \ {0} : k = Len(t)
        BY WayParts
      <4>2. k # 1
        BY <2>1, <4>1
      <4>3. 1 \in 1 .. k - 1
        BY <4>2
      <4>4. QED
        BY <4>1, <4>3
    <3>2. QED
      BY <1>1, <1>2, <3>1
  <2>2. QED
    BY <2>1
<1>4. ASSUME NEW s, Phase(s) \in {"compare", "finish"}
      PROVE  s[1] = Phase(s)
  BY <1>4 DEF Phase, NewPhase, RenamePhase, PrepareItems, ApplyItems, SweepItems
<1>5. QED
  BY <1>1, <1>3, <1>4

\* A recorded transaction is resumed: it is applied, cleaned up and confirmed.
LEMMA ResumeOn ==
    ASSUME Inv, SuccessInv, Resume
    PROVE  SuccessInv'
PROOF
<1>1. Here("resume") /\ Running /\ Head(todo)[1] = "resume"
  BY DEF Resume, Here
<1>2. Phase(Head(todo)) = "resume" /\ "resume" \notin Ends /\ "resume" # "load"
  BY <1>1, HerePhase DEF Ends
<1>3. pending \in Pendings
  BY <1>1, ItemTyped DEF Inv, WholeItems
<1>4. todo \in Ways(pending) /\ Fact("resume")
  BY <1>1, <1>2, OnTheWay
<1>5. \A d : Follows("resume", d) => d = "compare"
  BY DEF Follows, Followers
<1>6. ~Finishing
  <2>1. PICK t : t = Tail(todo)
    OBVIOUS
  <2>2. /\ t \in Ways(pending) /\ Phase(Head(t)) = "compare"
        /\ t[Len(t)] = todo[Len(todo)]
    BY <1>1, <1>2, <1>4, <1>5, <2>1, WayTail
  <2>3. t[Len(t)][1] = "compare"
    BY <2>2, ResumedEnd
  <2>4. QED
    BY <2>2, <2>3 DEF Finishing
<1>7. Fact("apply") /\ Fact("fail")
  BY <1>4, <1>6 DEF Fact
<1> DEFINE apply == Then("apply", "")
           clean == CleanupSteps(pending)
           confirm == Then("confirm", "")
<1>8. Continue(Fail) \/ Continue(apply \o clean \o confirm)
  BY DEF Resume, If
<1>9. apply \in Seq(InPhase("apply", pending)) /\ confirm \in Seq(InPhase("confirm", pending))
  <2>1. /\ apply \in Seq(Steps(pending)) /\ "apply" \notin OperationNamed
        /\ confirm \in Seq(Steps(pending)) /\ "confirm" \notin OperationNamed
    BY <1>3, ItemSteps DEF WholeItems, OperationNamed
  <2>2. \A x : Phase(<<"apply", x>>) = "apply" /\ Phase(<<"confirm", x>>) = "confirm"
    BY ItemPhases
  <2>3. QED
    BY <2>1, <2>2, ItemFits
<1>10. PICK D : D = {"compare"}
  OBVIOUS
<1>11. PICK E : E = {"settle", "confirm", "finish"}
  OBVIOUS
<1>12. Leads(apply, {"apply"}, {"mark"}, pending) /\ Leads(confirm, {"confirm"}, D, pending)
  <2>1. Follows("apply", "mark") /\ \A d \in D : Follows("confirm", d)
    BY <1>10 DEF Follows, Followers
  <2>2. Leads(apply, {"apply"}, {"mark"}, pending)
    BY <1>9, <2>1, LeadsSingle DEF Then
  <2>3. "move" \notin D
    BY <1>10
  <2>4. Leads(confirm, {"confirm"}, D, pending)
    BY <1>9, <2>1, <2>3, LeadsSingle DEF Then
  <2>5. QED
    BY <2>2, <2>4
<1>13. Leads(clean, {"mark"}, E, pending)
  BY <1>3, <1>11, CleanupWay
<1>14. Leads(confirm, E, D, pending)
  <2>1. "confirm" \in E
    BY <1>11
  <2>2. QED
    BY <1>12, <2>1, LeadsAmong
<1>15. Leads(apply \o clean \o confirm, {"apply"}, D, pending)
  <2>1. Leads(apply \o clean, {"apply"}, E, pending)
    BY <1>12, <1>13, LeadsJoin
  <2>2. QED
    BY <1>14, <2>1, LeadsJoin
<1>16. \A d : Follows("resume", d) => d \in D \cup {"fail"}
  BY <1>5, <1>10
<1> HIDE DEF apply, clean, confirm
<1>17. CASE Continue(apply \o clean \o confirm)
  <2>1. PICK C : C = {"apply"}
    OBVIOUS
  <2>2. "move" \notin C /\ (\A c \in C : Fact(c)) /\ Leads(apply \o clean \o confirm, C, D, pending)
    BY <1>7, <1>15, <2>1
  <2>3. QED
    BY <1>1, <1>2, <1>16, <1>17, <2>2, LeadsOn
<1>18. CASE Continue(Fail)
  <2>1. PICK C : C = {"fail"}
    OBVIOUS
  <2>2. "move" \notin D
    BY <1>10
  <2>3. "move" \notin C /\ (\A c \in C : Fact(c)) /\ Leads(Fail, C, D, pending)
    BY <1>7, <2>1, <2>2, FailLeads
  <2>4. QED
    BY <1>1, <1>2, <1>16, <1>18, <2>3, LeadsOn
<1>19. QED
  BY <1>8, <1>17, <1>18

\* A transaction is applied, or what is left of its application is taken up.
LEMMA ApplyOn ==
    ASSUME Inv, SuccessInv, Apply
    PROVE  SuccessInv'
PROOF
<1>1. Here("apply") /\ Running /\ Head(todo)[1] = "apply"
  BY DEF Apply, Here
<1>2. Phase(Head(todo)) = "apply" /\ "apply" \notin Ends /\ "apply" # "load"
  BY <1>1, HerePhase DEF Ends
<1>3. pending \in Pendings
  BY <1>1, ItemTyped DEF Inv, WholeItems
<1>4. Fact("apply")
  BY <1>1, <1>2, OnTheWay
<1>5. PICK D : D = {"mark"}
  OBVIOUS
<1>6. /\ \A d : Follows("apply", d) => d \in D \cup {"fail"}
      /\ \A d : Follows("apply", d) => d \in Onward("switch") \cup {"fail"}
  BY <1>5 DEF Follows, Followers, Onward
<1>7. Exists(Record) /\ Holds(Record, RecordOf(pending)) /\ Backed(pending)
  <2>1. Exists(Record) /\ Holds(Record, RecordOf(pending))
    BY <1>4 DEF Fact
  <2>2. QED
    BY <2>1, OnRecord DEF SuccessInv
<1>8. Switched(pending) <=> Holds(Inventory, After(pending, "inventory"))
  BY DEF Switched, After
<1>9. \/ Continue(Fail)
      \/ Switched(pending) /\ Continue(Then("switch", "state"))
      \/ ~Switched(pending) /\ Continue(ApplySteps(pending))
  BY <1>8 DEF Apply, If
<1>10. CASE Continue(Fail)
  <2>1. PICK C : C = {"fail"}
    OBVIOUS
  <2>2. "move" \notin D /\ Fact("fail")
    BY <1>5 DEF Fact
  <2>3. "move" \notin C /\ (\A c \in C : Fact(c)) /\ Leads(Fail, C, D, pending)
    BY <2>1, <2>2, FailLeads
  <2>4. QED
    BY <1>1, <1>2, <1>6, <1>10, <2>3, LeadsOn
<1>11. CASE Switched(pending) /\ Continue(Then("switch", "state"))
  <2>1. Fact("switch")
    BY <1>4, <1>7, <1>11 DEF Fact, Backed
  <2>2. Then("switch", "state") \in Seq(InPhase("switch", pending))
    <3>1. Then("switch", "state") \in Seq(Steps(pending)) /\ "switch" \notin OperationNamed
      BY <1>3, ItemSteps DEF ControlItems, Controls, OperationNamed
    <3>2. Phase(<<"switch", "state">>) = "switch"
      BY ItemPhases
    <3>3. QED
      BY <3>1, <3>2, ItemFits
  <2>3. PICK C : C = {"switch"}
    OBVIOUS
  <2>4. Leads(Then("switch", "state"), C, D, pending)
    <3>1. "move" \notin D /\ \A d \in D : Follows("switch", d)
      BY <1>5 DEF Follows, Followers
    <3>2. QED
      BY <2>2, <2>3, <3>1, LeadsSingle DEF Then
  <2>5. "move" \notin C /\ \A c \in C : Fact(c)
    BY <2>1, <2>3
  <2>6. QED
    BY <1>1, <1>2, <1>6, <1>11, <2>4, <2>5, LeadsOn
<1>12. CASE ~Switched(pending) /\ Continue(ApplySteps(pending))
  <2>1. Fact("place") /\ Fact("verify")
    BY <1>4, <1>12 DEF Fact
  <2>2. "move" \notin Onward("place") /\ \A c \in Onward("place") : Fact(c)
    BY <2>1, Onwards
  <2>3. Leads(ApplySteps(pending), Onward("place"), Onward("switch"), pending)
    BY <1>3, ApplyWay
  <2>4. QED
    BY <1>1, <1>2, <1>6, <1>12, <2>2, <2>3, LeadsOn
<1>13. QED
  BY <1>9, <1>10, <1>11, <1>12

-----------------------------------------------------------------------------
(* The beginning and the end of a synchronisation *)

\* What depends on the tree alone.
LEMMA SameTree ==
    ASSUME SuccessInv, UNCHANGED fs
    PROVE  LedgerInv' /\ ApartInv' /\ HiddenInv'
PROOF
<1>1. LedgerInv'
  BY DEF SuccessInv, LedgerInv, NoRecord, Ours, Active, Record, Backed, Switched, Covered, Wanted,
         Decodes, Recorded, Exists, Holds
<1>2. ApartInv' /\ HiddenInv'
  BY DEF SuccessInv, ApartInv, HiddenInv, SameFile, Exists, Holds
<1>3. QED
  BY <1>1, <1>2

\* What a phase relies on, in a tree that is left alone, of another transaction.
LEMMA PlannedState ==
    ASSUME UNCHANGED fs, NEW p, pending' = p
    PROVE  /\ NoRecord' <=> NoRecord
           /\ (Exists(Record) /\ Holds(Record, RecordOf(pending)))'
                 <=> (Exists(Record) /\ Holds(Record, RecordOf(p)))
           /\ Clear' <=> Clear
           /\ Ours' = Ours /\ Covered(pending)' = Covered(p) /\ Wanted(pending)' = Wanted(p)
           /\ Switched(pending)' <=> Switched(p)
           /\ Arrived' <=> \A a \in Wanted(p) : Holds(Target(a), NewContent(p, a))
PROOF
<1>1. /\ NoRecord' <=> NoRecord
      /\ (Exists(Record) /\ Holds(Record, RecordOf(pending)))'
            <=> (Exists(Record) /\ Holds(Record, RecordOf(p)))
      /\ Clear' <=> Clear
  BY DEF NoRecord, Record, Clear, Exists, Holds
<1>2. /\ Ours' = Ours /\ Covered(pending)' = Covered(p) /\ Wanted(pending)' = Wanted(p)
      /\ Switched(pending)' <=> Switched(p)
  BY DEF Ours, Covered, Wanted, Switched, Exists, Holds
<1>3. Arrived' <=> \A a \in Wanted(p) : Holds(Target(a), NewContent(p, a))
  BY DEF Arrived, Wanted, Holds
<1>4. QED
  BY <1>1, <1>2, <1>3

\* A plan keeps the invariant, if its first phase finds what it relies on.
LEMMA PlansOn ==
    ASSUME SuccessInv, UNCHANGED <<fs, desired, result, calm>>,
           NEW p, pending' = p, todo' \in Ways(p),
           todo'[Len(todo')][1] = "finish" => p.next.owned = desired,
           NEW C, Phase(Head(todo')) \in C \cup {"fail"}, "move" \notin C,
           \A c \in C : Fact(c)'
    PROVE  SuccessInv'
PROOF
<1>1. LedgerInv' /\ ApartInv' /\ HiddenInv' /\ OutcomeInv'
  BY SameState
<1>2. PathInv' /\ AimInv'
  BY DEF PathInv, AimInv, Finishing
<1>3. PICK d : Phase(Head(todo')) = d
  OBVIOUS
<1>4. Fact("fail")'
  BY DEF Fact
<1>5. Fact(d)' /\ d # "move"
  BY <1>3, <1>4
<1>6. FactInv'
  BY <1>3, <1>5 DEF FactInv
<1>7. MoveInv'
  BY <1>3, <1>5, NoMove
<1>8. QED
  BY <1>1, <1>2, <1>6, <1>7 DEF SuccessInv

\* A record that decodes holds the transaction it describes.
LEMMA RecordBytes ==
    ASSUME SoundTree(fs), NEW n \in Names, Decodes(n)
    PROVE  Holds(n, RecordOf(Recorded(n))) /\ Recorded(n) \in Pendings
PROOF
<1>1. fs[n].data \in Data
  BY DEF SoundTree, Tree
<1>2. ASSUME NEW x \in Data, x[1] = "pending"
      PROVE  x = <<"pending", x[2]>>
  BY <1>2 DEF Data, FileData, GeneratedData, Bootstrap, UserBytes
<1>3. QED
  BY <1>1, <1>2, RecordsTyped DEF Decodes, Recorded, Holds, RecordOf

\* The comparison comes last.
LEMMA CompareLast ==
    ASSUME NEW p
    PROVE  /\ Then("compare", "") \in Ways(p) /\ Phase(Head(Then("compare", ""))) = "compare"
           /\ Then("compare", "")[Len(Then("compare", ""))][1] = "compare"
PROOF
<1> DEFINE s == <<"compare", "">>
<1>1. Then("compare", "") \in Seq(Steps(p)) /\ "compare" \notin OperationNamed
  BY ItemSteps DEF OperationNamed
<1>2. s \in Fitting(p)
  BY <1>1, ItemFits
<1>3. Phase(s) = "compare" /\ s[1] = "compare"
  BY ItemPhases
<1>4. "compare" \in Ends
  BY DEF Ends
<1> HIDE DEF s
<1>5. <<s>> \in Ways(p) /\ Head(<<s>>) = s /\ <<s>>[Len(<<s>>)] = s
  BY <1>2, <1>3, <1>4, LastStep
<1>6. QED
  BY <1>3, <1>5 DEF s, Then

\* The success comes last.
LEMMA FinishLast ==
    ASSUME NEW p
    PROVE  /\ Then("finish", "") \in Ways(p) /\ Phase(Head(Then("finish", ""))) = "finish"
           /\ Then("finish", "")[Len(Then("finish", ""))][1] = "finish"
PROOF
<1> DEFINE s == <<"finish", "">>
<1>1. Then("finish", "") \in Seq(Steps(p)) /\ "finish" \notin OperationNamed
  BY ItemSteps DEF OperationNamed
<1>2. s \in Fitting(p)
  BY <1>1, ItemFits
<1>3. Phase(s) = "finish" /\ s[1] = "finish"
  BY ItemPhases
<1>4. "finish" \in Ends
  BY DEF Ends
<1> HIDE DEF s
<1>5. <<s>> \in Ways(p) /\ Head(<<s>>) = s /\ <<s>>[Len(<<s>>)] = s
  BY <1>2, <1>3, <1>4, LastStep
<1>6. QED
  BY <1>3, <1>5 DEF s, Then

\* What is loaded keeps the invariant, if its first phase finds what it relies on.
LEMMA LoadsOn ==
    ASSUME SuccessInv, UNCHANGED <<fs, desired, result, calm>>,
           NEW p, pending' = p, NEW t \in Ways(p), t[Len(t)][1] = "compare",
           NEW steps, NEW C, NEW D, Leads(steps, C, D, p), Phase(Head(t)) \in D,
           todo' = steps \o t, "move" \notin C, ~Finishing' => \A c \in C : Fact(c)'
    PROVE  SuccessInv'
PROOF
<1>1. /\ todo' \in Ways(p) /\ Phase(Head(todo')) \in C \cup {"fail"}
      /\ todo'[Len(todo')] = t[Len(t)]
  BY DEF Leads
<1>2. ~Finishing'
  BY <1>1 DEF Finishing
<1>3. todo'[Len(todo')][1] # "finish"
  BY <1>1
<1>4. QED
  BY <1>1, <1>2, <1>3, PlansOn

\* A synchronisation begins.
LEMMA SynchronizeOn ==
    ASSUME SuccessInv, Synchronize
    PROVE  SuccessInv'
PROOF
<1> DEFINE x == <<"load", "">>
           y == <<"compare", "">>
<1>1. /\ Then("load", "") = <<x>> /\ Then("compare", "") = <<y>> /\ Loading = <<x, y>>
      /\ x[1] = "load" /\ y[1] = "compare"
  BY DEF Then, Loading
<1> HIDE DEF x, y
<1>2. todo' = Loading /\ Len(Loading) = 2 /\ Loading[2] = y /\ Head(Loading) = x
  <2>1. <<x>> \o <<y>> = <<x, y>>
    BY TwoJoined
  <2>2. todo' = Loading
    BY <1>1, <2>1 DEF Synchronize
  <2>3. Len(Loading) = 2 /\ Loading[2] = y /\ Head(Loading) = x
    <3>1. Len(<<x, y>>) = 2 /\ <<x, y>>[2] = y /\ Head(<<x, y>>) = x
      OBVIOUS
    <3>2. QED
      BY <1>1, <3>1
  <2>4. QED
    BY <2>2, <2>3
<1>3. UNCHANGED fs /\ result' = "none"
  BY DEF Synchronize
<1>4. LedgerInv' /\ ApartInv' /\ HiddenInv'
  BY <1>3, SameTree
<1>5. PathInv' /\ AimInv'
  BY <1>1, <1>2 DEF PathInv, AimInv, Finishing
<1>6. Phase(x) = "load"
  BY <1>1 DEF Phase, PrepareItems, ApplyItems, SweepItems
<1>7. FactInv'
  BY <1>2, <1>6 DEF FactInv, Fact
<1>8. MoveInv'
  BY <1>2, <1>6, NoMove
<1>9. OutcomeInv'
  BY <1>3 DEF OutcomeInv, SuccessIsDesired
<1>10. QED
  BY <1>4, <1>5, <1>7, <1>8, <1>9 DEF SuccessInv

\* A cleanup record is followed up.
LEMMA LoadCleanupOn ==
    ASSUME Inv, SuccessInv, LoadCleanup
    PROVE  SuccessInv'
PROOF
<1>1. PICK p : p = Recorded(Cleanup)
  OBVIOUS
<1>2. /\ pending' = p /\ UNCHANGED <<fs, desired, result, calm>>
      /\ Exists(Cleanup) /\ Here("load")
  BY <1>1 DEF LoadCleanup
<1>3. Record = Cleanup /\ Decodes(Cleanup)
  BY <1>2 DEF SuccessInv, LedgerInv, NoRecord, Record
<1>4. Holds(Cleanup, RecordOf(p)) /\ p \in Pendings
  BY <1>1, <1>3, SingleNames, RecordBytes DEF Inv, TreeInv, FileNames
<1>5. PICK t : t = Then("compare", "")
  OBVIOUS
<1>6. t \in Ways(p) /\ Phase(Head(t)) = "compare" /\ t[Len(t)][1] = "compare" /\ Tail(todo) = t
  BY <1>2, <1>5, AtLoad, CompareLast
<1> DEFINE clean == CleanupSteps(p)
           settle == Then("settle", "")
<1>7. todo' = Fail \o t \/ todo' = (clean \o settle) \o t
  BY <1>2, <1>6 DEF LoadCleanup, If
<1>8. PICK C, D : C = {"mark"} /\ D = {"compare"}
  OBVIOUS
<1>9. "move" \notin C /\ "move" \notin D
  BY <1>8
<1>10. Leads(clean \o settle, C, D, p)
  <2>1. settle \in Seq(InPhase("settle", p))
    <3>1. settle \in Seq(Steps(p)) /\ "settle" \notin OperationNamed
      BY ItemSteps DEF OperationNamed
    <3>2. \A x : Phase(<<"settle", x>>) = "settle"
      BY ItemPhases
    <3>3. QED
      BY <3>1, <3>2, ItemFits
  <2>2. Leads(settle, {"settle"}, D, p)
    <3>1. \A d \in D : Follows("settle", d)
      BY <1>8 DEF Follows, Followers
    <3>2. QED
      BY <1>9, <2>1, <3>1, LeadsSingle DEF Then
  <2>3. PICK E : E = {"settle", "confirm", "finish"}
    OBVIOUS
  <2>4. Leads(settle, E, D, p)
    <3>1. "settle" \in E
      BY <2>3
    <3>2. QED
      BY <2>2, <3>1, LeadsAmong
  <2>5. Leads(clean, C, E, p)
    BY <1>4, <1>8, <2>3, CleanupWay
  <2>6. QED
    BY <2>4, <2>5, LeadsJoin
<1>11. ~Finishing' => \A c \in C : Fact(c)'
  <2>1. (Exists(Record) /\ Holds(Record, RecordOf(pending)))'
    BY <1>2, <1>3, <1>4, PlannedState
  <2>2. ~Finishing' => Fact("mark")'
    BY <2>1 DEF Fact
  <2>3. QED
    BY <1>8, <2>2
<1> HIDE DEF clean, settle
<1>12. CASE todo' = (clean \o settle) \o t
  BY <1>2, <1>6, <1>8, <1>9, <1>10, <1>11, <1>12, LoadsOn
<1>13. CASE todo' = Fail \o t
  <2>1. Leads(Fail, {"fail"}, D, p)
    BY <1>9, FailLeads
  <2>2. PICK F : F = {"fail"}
    OBVIOUS
  <2>3. "move" \notin F /\ \A c \in F : Fact(c)'
    BY <2>2 DEF Fact
  <2>4. QED
    BY <1>2, <1>6, <1>8, <1>13, <2>1, <2>2, <2>3, LoadsOn
<1>14. QED
  BY <1>7, <1>12, <1>13

\* A verified transaction has nothing generated in place that is not wanted.
LEMMA VerifiedWanted ==
    ASSUME NEW p, Verified(p), Backed(p)
    PROVE  Ours \subseteq Wanted(p)
BY DEF Verified, Wanted, Backed, Covered, Ours

\* A pending record is followed up.
LEMMA LoadPendingOn ==
    ASSUME Inv, SuccessInv, LoadPending
    PROVE  SuccessInv'
PROOF
<1>1. PICK p : p = Recorded(Pending)
  OBVIOUS
<1>2. /\ pending' = p /\ UNCHANGED <<fs, desired, result, calm>>
      /\ ~Exists(Cleanup) /\ Exists(Pending) /\ Here("load")
  BY <1>1 DEF LoadPending
<1>3. Record = Pending /\ Decodes(Pending) /\ Backed(p)
  BY <1>1, <1>2 DEF SuccessInv, LedgerInv, NoRecord, Record
<1>4. Holds(Pending, RecordOf(p)) /\ p \in Pendings
  BY <1>1, <1>3, SingleNames, RecordBytes DEF Inv, TreeInv, FileNames
<1>5. PICK t : t = Then("compare", "")
  OBVIOUS
<1>6. t \in Ways(p) /\ Phase(Head(t)) = "compare" /\ t[Len(t)][1] = "compare" /\ Tail(todo) = t
  BY <1>2, <1>5, AtLoad, CompareLast
<1> DEFINE resume == Then("resume", "")
           switch(c) == Then("switch", c)
<1>7. \/ todo' = Fail \o t
      \/ todo' = (Fail \o resume) \o t
      \/ todo' = (<<>> \o resume) \o t
      \/ Verified(p) /\ todo' = (switch("state") \o resume) \o t
      \/ Verified(p) /\ todo' = (switch("inventory") \o resume) \o t
  BY <1>2, <1>6 DEF LoadPending, If
<1>8. (Exists(Record) /\ Holds(Record, RecordOf(pending)))'
  BY <1>2, <1>3, <1>4, PlannedState
<1>9. Fact("resume")' /\ Fact("fail")'
  BY <1>8 DEF Fact
<1>10. ASSUME Verified(p), ~Finishing'
       PROVE  Fact("switch")'
  <2>1. Ours \subseteq Wanted(p)
    BY <1>3, <1>10, VerifiedWanted
  <2>2. (Ours \subseteq Wanted(pending))'
    BY <1>2, <2>1, PlannedState
  <2>3. QED
    BY <1>8, <1>10, <2>2 DEF Fact
<1>11. PICK u : u = resume \o t
  OBVIOUS
<1>12. u \in Ways(p) /\ Phase(Head(u)) = "resume" /\ u[Len(u)] = t[Len(t)]
  <2> DEFINE s == <<"resume", "">>
  <2>1. Then("resume", "") \in Seq(Steps(p)) /\ "resume" \notin OperationNamed
    BY <1>4, ItemSteps DEF WholeItems, OperationNamed
  <2>2. s \in Fitting(p)
    BY <2>1, ItemFits
  <2>3. Phase(s) = "resume"
    <3>1. \A x : Phase(<<"resume", x>>) = "resume"
      BY ItemPhases
    <3>2. QED
      BY <3>1
  <2>4. Follows("resume", "compare")
    BY DEF Follows, Followers
  <2>5. resume = <<s>>
    BY DEF Then
  <2> HIDE DEF s, resume
  <2>6. <<s>> \o t \in Ways(p) /\ Head(<<s>> \o t) = s /\ (<<s>> \o t)[Len(<<s>> \o t)] = t[Len(t)]
    BY <1>6, <2>2, <2>3, <2>4, OneMore
  <2>7. QED
    BY <1>11, <2>3, <2>5, <2>6
<1>13. u[Len(u)][1] = "compare"
  BY <1>6, <1>12
<1>14. ASSUME NEW x \in Seq(Fitting(p))
       PROVE  (x \o resume) \o t = x \o u
  <2> DEFINE S == Fitting(p)
  <2>1. x \in Seq(S) /\ t \in Seq(S)
    BY <1>6, <1>14, WayParts
  <2>2. resume \in Seq(S)
    <3>1. Then("resume", "") \in Seq(Steps(p)) /\ "resume" \notin OperationNamed
      BY <1>4, ItemSteps DEF WholeItems, OperationNamed
    <3>2. <<"resume", "">> \in Fitting(p)
      BY <3>1, ItemFits
    <3>3. QED
      BY <3>2, OneElement DEF Then
  <2> HIDE DEF S, resume
  <2>3. QED
    BY <1>11, <2>1, <2>2, ConcatAssociative
<1>15. PICK D, E : D = {"compare"} /\ E = {"resume"}
  OBVIOUS
<1>16. "move" \notin D /\ "move" \notin E
  BY <1>15
<1>17. PICK F, G : F = {"fail"} /\ G = {"switch"}
  OBVIOUS
<1>18. "move" \notin F /\ (\A c \in F : Fact(c)') /\ "move" \notin G
  BY <1>9, <1>17
<1>19. Fail \in Seq(Fitting(p)) /\ <<>> \in Seq(Fitting(p))
  <2>1. <<"fail">> \in Fitting(p)
    BY FailFits
  <2>2. QED
    BY <2>1, OneElement DEF Fail
<1>20. Leads(Fail, F, D, p) /\ Leads(Fail, F, E, p)
  BY <1>16, <1>17, FailLeads
<1>21. ASSUME NEW c \in Controls
       PROVE  Leads(switch(c), G, E, p) /\ switch(c) \in Seq(Fitting(p))
  <2>1. Then("switch", c) \in Seq(Steps(p)) /\ "switch" \notin OperationNamed
    BY <1>4, ItemSteps DEF ControlItems, OperationNamed
  <2>2. \A x : Phase(<<"switch", x>>) = "switch"
    BY ItemPhases
  <2>3. <<"switch", c>> \in Fitting(p) /\ Then("switch", c) \in Seq(InPhase("switch", p))
    BY <2>1, <2>2, ItemFits
  <2>4. \A d \in E : Follows("switch", d)
    BY <1>15 DEF Follows, Followers
  <2>5. Leads(switch(c), {"switch"}, E, p)
    BY <1>16, <2>3, <2>4, LeadsSingle DEF Then
  <2>6. QED
    BY <1>17, <2>3, <2>5, OneElement DEF Then
<1>22. ASSUME NEW c \in Controls, Verified(p), todo' = (switch(c) \o resume) \o t
       PROVE  SuccessInv'
  <2>1. todo' = switch(c) \o u
    BY <1>14, <1>21, <1>22
  <2>2. ~Finishing' => \A d \in G : Fact(d)'
    BY <1>10, <1>17, <1>22
  <2>3. Leads(switch(c), G, E, p) /\ Phase(Head(u)) \in E
    BY <1>12, <1>15, <1>21
  <2> HIDE DEF switch
  <2>4. QED
    BY <1>2, <1>12, <1>13, <1>18, <2>1, <2>2, <2>3, LoadsOn
<1>23. CASE todo' = Fail \o t
  <2>1. Phase(Head(t)) \in D
    BY <1>6, <1>15
  <2>2. QED
    BY <1>2, <1>6, <1>18, <1>20, <1>23, <2>1, LoadsOn
<1>24. CASE todo' = (Fail \o resume) \o t
  <2>1. todo' = Fail \o u
    BY <1>14, <1>19, <1>24
  <2>2. Phase(Head(u)) \in E
    BY <1>12, <1>15
  <2>3. QED
    BY <1>2, <1>12, <1>13, <1>18, <1>20, <2>1, <2>2, LoadsOn
<1>25. CASE todo' = (<<>> \o resume) \o t
  <2>1. todo' = u
    <3>1. u \in Seq(Fitting(p))
      BY <1>12, WayParts
    <3>2. todo' = <<>> \o u
      BY <1>14, <1>19, <1>25
    <3>3. QED
      BY <3>1, <3>2, ConcatEmptySeq
  <2>2. Phase(Head(todo')) \in E \cup {"fail"} /\ \A c \in E : Fact(c)'
    BY <1>9, <1>12, <1>15, <2>1
  <2>3. todo' \in Ways(p) /\ todo'[Len(todo')][1] # "finish"
    BY <1>12, <1>13, <2>1
  <2>4. QED
    BY <1>2, <1>16, <2>2, <2>3, PlansOn
<1>26. "state" \in Controls /\ "inventory" \in Controls
  BY DEF Controls
<1> HIDE DEF resume, switch
<1>27. QED
  BY <1>7, <1>22, <1>23, <1>24, <1>25, <1>26

\* Without a record the controls are loaded, or the workspace is bootstrapped.
LEMMA LoadActiveOn ==
    ASSUME Inv, SuccessInv, LoadActive
    PROVE  SuccessInv'
PROOF
<1>1. PICK p : p = pending
  OBVIOUS
<1>2. /\ pending' = p /\ UNCHANGED <<fs, desired, result, calm>> /\ NoRecord /\ Here("load")
  BY <1>1 DEF LoadActive, Continue, run, NoRecord
<1>3. PICK t : t = Then("compare", "")
  OBVIOUS
<1>4. t \in Ways(p) /\ Phase(Head(t)) = "compare" /\ t[Len(t)][1] = "compare" /\ Tail(todo) = t
  BY <1>2, <1>3, AtLoad, CompareLast
<1> DEFINE settle == Then("settle", "")
<1>5. \/ todo' = Fail \o t
      \/ todo' = settle \o t
      \/ todo' = (BootstrapSteps \o settle) \o t
  BY <1>4 DEF LoadActive, If, Continue
<1>6. Fact("bootstrap")' /\ Fact("settle")' /\ Fact("fail")'
  <2>1. NoRecord'
    BY <1>2, PlannedState
  <2>2. QED
    BY <2>1 DEF Fact
<1>7. PICK D, F, G : D = {"compare"} /\ F = {"fail"} /\ G = {"settle"}
  OBVIOUS
<1>8. /\ "move" \notin D /\ "move" \notin F /\ "move" \notin G /\ Phase(Head(t)) \in D
      /\ (\A c \in F : Fact(c)') /\ (\A c \in G : Fact(c)')
  BY <1>4, <1>6, <1>7
<1>9. Leads(settle, {"settle"}, D, p)
  <2>1. settle \in Seq(Steps(p)) /\ "settle" \notin OperationNamed
    BY ItemSteps DEF OperationNamed
  <2>2. \A x : Phase(<<"settle", x>>) = "settle"
    BY ItemPhases
  <2>3. settle \in Seq(InPhase("settle", p))
    BY <2>1, <2>2, ItemFits
  <2>4. \A d \in D : Follows("settle", d)
    BY <1>7 DEF Follows, Followers
  <2>5. QED
    BY <1>8, <2>3, <2>4, LeadsSingle DEF Then
<1>10. Leads(BootstrapSteps \o settle, Onward("bootstrap"), D, p)
  <2>1. "settle" \in Onward("bootstrap")
    BY Onwards
  <2>2. Leads(settle, Onward("bootstrap"), D, p)
    BY <1>9, <2>1, LeadsAmong
  <2>3. QED
    BY <2>2, BootstrapWay, LeadsJoin
<1>11. "move" \notin Onward("bootstrap") /\ \A c \in Onward("bootstrap") : Fact(c)'
  BY <1>6, Onwards
<1> HIDE DEF settle
<1>12. CASE todo' = Fail \o t
  <2>1. Leads(Fail, F, D, p)
    BY <1>7, <1>8, FailLeads
  <2>2. QED
    BY <1>2, <1>4, <1>8, <1>12, <2>1, LoadsOn
<1>13. CASE todo' = settle \o t
  <2>1. Leads(settle, G, D, p)
    BY <1>7, <1>9
  <2>2. QED
    BY <1>2, <1>4, <1>8, <1>13, <2>1, LoadsOn
<1>14. CASE todo' = (BootstrapSteps \o settle) \o t
  BY <1>2, <1>4, <1>8, <1>10, <1>11, <1>14, LoadsOn
<1>15. QED
  BY <1>5, <1>12, <1>13, <1>14

\* What the inventory holds, when it decodes.
LEMMA InventoryBytes ==
    ASSUME SoundTree(fs)
    PROVE  /\ InventoryDecodes /\ Exists(Inventory) => Holds(Inventory, InventoryOf(Active))
           /\ \A i : Holds(Inventory, InventoryOf(i)) => Exists(Inventory) /\ Active = i
PROOF
<1>1. fs[Inventory].data \in Data
  BY SingleNames DEF SoundTree, Tree, FileNames
<1>2. ASSUME NEW x \in Data, x[1] = "inventory"
      PROVE  x = <<"inventory", x[2]>>
  BY <1>2 DEF Data, FileData, GeneratedData, Bootstrap, UserBytes
<1>3. InventoryDecodes /\ Exists(Inventory) => Holds(Inventory, InventoryOf(Active))
  BY <1>1, <1>2 DEF InventoryDecodes, Active, Holds, InventoryOf
<1>4. ASSUME NEW i, Holds(Inventory, InventoryOf(i))
      PROVE  Exists(Inventory) /\ Active = i
  <2>1. fs[Inventory].data = <<"inventory", i>>
    BY <1>4 DEF Holds, InventoryOf
  <2>2. Exists(Inventory)
    BY <2>1 DEF Exists, Absent
  <2>3. QED
    BY <2>1, <2>2 DEF Active
<1>5. QED
  BY <1>3, <1>4

\* The parts of the transaction that is compared.
LEMMA ComparisonParts ==
    ASSUME NEW D
    PROVE  LET p == Comparison(D) IN
           /\ p.bootstrap = ~Exists(Inventory) /\ p.previous = Active /\ p.next.owned = D
           /\ p.creates = {a \in DOMAIN D : ~Exists(Target(a))}
           /\ Updates(p) = {a \in DOMAIN D :
                              Exists(Target(a)) /\ ~Holds(Target(a), Generated(D[a]))}
           /\ Deletes(p) = {a \in DOMAIN Active.owned \ DOMAIN D : Exists(Target(a))}
           /\ p.makes = {d \in DesiredDirectories(D) : ~Exists(Directory(d))}
           /\ p.next.directories = p.makes \cup (DesiredDirectories(D) \cap Active.directories)
           /\ p.removes = Active.directories \ DesiredDirectories(D)
BY DEF Comparison, Updates, Deletes, StaleArtifacts

\* A transaction without a conflict, whose inventory is the active one already,
\* has nothing to change.
LEMMA SwitchedUnchanged ==
    ASSUME SoundTree(fs), NEW D, Conflicts(D) = {}, Switched(Comparison(D))
    PROVE  Unchanged(Comparison(D))
PROOF
<1>1. PICK p : p = Comparison(D)
  OBVIOUS
<1>2. Exists(Inventory) /\ Active = p.next
  BY <1>1, InventoryBytes DEF Switched
<1>3. /\ p.bootstrap = ~Exists(Inventory) /\ p.previous = Active /\ p.next.owned = D
      /\ p.creates = {a \in DOMAIN D : ~Exists(Target(a))}
      /\ Updates(p) = {a \in DOMAIN D : Exists(Target(a)) /\ ~Holds(Target(a), Generated(D[a]))}
      /\ Deletes(p) = {a \in DOMAIN Active.owned \ DOMAIN D : Exists(Target(a))}
      /\ p.makes = {d \in DesiredDirectories(D) : ~Exists(Directory(d))}
      /\ p.next.directories = p.makes \cup (DesiredDirectories(D) \cap Active.directories)
      /\ p.removes = Active.directories \ DesiredDirectories(D)
  BY <1>1, ComparisonParts
<1>4. Active.owned = D /\ p.next = p.previous /\ ~p.bootstrap
  BY <1>2, <1>3
<1>5. /\ \A a \in DOMAIN D : /\ Exists(Target(a))
                             /\ fs[Target(a)].data \in {Generated(D[a]), Generated(Active.owned[a])}
      /\ \A d \in DesiredDirectories(D) \cap Active.directories : OwnsDirectory(d)
  BY <1>4 DEF Conflicts
<1>6. p.creates = {} /\ Updates(p) = {} /\ Deletes(p) = {}
  BY <1>3, <1>4, <1>5 DEF Holds
<1>7. p.makes = {}
  <2>1. \A d : OwnsDirectory(d) => Exists(Directory(d))
    BY DEF OwnsDirectory, OwnsPlace
  <2>2. p.makes \subseteq DesiredDirectories(D) \cap Active.directories
    BY <1>2, <1>3
  <2>3. QED
    BY <1>3, <1>5, <2>1, <2>2
<1>8. p.removes = {}
  BY <1>2, <1>3, <1>7
<1>9. QED
  BY <1>1, <1>4, <1>6, <1>7, <1>8 DEF Unchanged, Writes

\* What is there is compared with what is asked for.
LEMMA CompareOn ==
    ASSUME Inv, SuccessInv, Compare
    PROVE  SuccessInv'
PROOF
<1>1. PICK p : p = Comparison(desired)
  OBVIOUS
<1>2. /\ pending' = p /\ UNCHANGED <<fs, desired, result, calm>> /\ Running
      /\ Head(todo)[1] = "compare" /\ Phase(Head(todo)) = "compare"
  <2>1. pending' = p /\ UNCHANGED <<fs, desired, result, calm>> /\ Here("compare")
    BY <1>1 DEF Compare
  <2>2. Running /\ Head(todo)[1] = "compare" /\ Phase(Head(todo)) = "compare"
    BY <2>1, HerePhase
  <2>3. QED
    BY <2>1, <2>2
<1>3. NoRecord /\ Clear /\ SoundTree(fs) /\ desired \in Desires
  BY <1>2, OnTheWay DEF Fact, Inv, TreeInv, ControlInv
<1>4. /\ NoRecord' /\ Clear' /\ Ours' = Ours /\ Covered(pending)' = Covered(p)
      /\ Wanted(pending)' = Wanted(p) /\ (Switched(pending)' <=> Switched(p))
      /\ Arrived' <=> \A a \in Wanted(p) : Holds(Target(a), NewContent(p, a))
  BY <1>2, <1>3, PlannedState
<1>5. /\ p.bootstrap = ~Exists(Inventory) /\ p.previous = Active /\ p.next.owned = desired
      /\ p.creates = {a \in DOMAIN desired : ~Exists(Target(a))}
      /\ Updates(p) = {a \in DOMAIN desired :
                          Exists(Target(a)) /\ ~Holds(Target(a), Generated(desired[a]))}
      /\ Deletes(p) = {a \in DOMAIN Active.owned \ DOMAIN desired : Exists(Target(a))}
  BY <1>1, ComparisonParts
<1>6. Fact("fail")'
  BY DEF Fact
<1>7. PICK F, G : F = {"fail"} /\ G = {"finish"}
  OBVIOUS
<1>8. "move" \notin F /\ "move" \notin G /\ \A c \in F : Fact(c)'
  BY <1>6, <1>7
<1>9. PICK t : t = Then("finish", "")
  OBVIOUS
<1>10. t \in Ways(p) /\ Phase(Head(t)) = "finish" /\ t[Len(t)][1] = "finish"
  BY <1>9, FinishLast
<1> DEFINE whole == PrepareSteps(p) \o Then("apply", "") \o CleanupSteps(p)
<1>11. \/ todo' = Fail
       \/ todo' = Fail \o t
       \/ /\ InventoryDecodes /\ Conflicts(desired) = {}
          /\ \/ Unchanged(p) /\ todo' = <<>> \o t
             \/ ~Unchanged(p) /\ todo' = whole \o t
  BY <1>1, <1>9 DEF Compare, When, If
<1>12. CASE todo' = Fail
  <2>1. <<"fail">> \in Fitting(p) /\ Phase(<<"fail">>) = "fail"
    BY FailFits
  <2> DEFINE s == <<"fail">>
  <2>2. s[1] = "fail" /\ Fail = <<s>>
    BY DEF Fail
  <2>3. s \in Fitting(p) /\ Phase(s) = "fail"
    BY <2>1
  <2> HIDE DEF s
  <2>4. Fail \in Ways(p) /\ Head(Fail) = s /\ Fail[Len(Fail)] = s
    BY <2>2, <2>3, LastStep DEF Ends
  <2>5. todo' \in Ways(p) /\ Phase(Head(todo')) \in F \cup {"fail"}
    BY <1>7, <1>12, <2>3, <2>4
  <2>6. QED
    BY <1>2, <1>5, <1>8, <2>5, PlansOn
<1>13. CASE todo' = Fail \o t
  <2>1. PICK D : D = {"finish"}
    OBVIOUS
  <2>2. Leads(Fail, F, D, p)
    BY <1>7, <2>1, FailLeads
  <2>3. todo' \in Ways(p) /\ Phase(Head(todo')) \in F \cup {"fail"}
    BY <1>10, <1>13, <2>1, <2>2 DEF Leads
  <2>4. QED
    BY <1>2, <1>5, <1>8, <2>3, PlansOn
<1>14. CASE InventoryDecodes /\ Unchanged(p) /\ todo' = <<>> \o t
  <2>1. todo' = t
    <3>1. t \in Seq(Fitting(p))
      BY <1>10, WayParts
    <3>2. QED
      BY <1>14, <3>1, ConcatEmptySeq
  <2>2. Exists(Inventory) /\ Active = p.next /\ p.creates = {} /\ Updates(p) = {}
    BY <1>5, <1>14 DEF Unchanged, Writes
  <2>3. Switched(p)
    BY <1>3, <1>14, <2>2, InventoryBytes DEF Switched
  <2>4. \A a \in Wanted(p) : Holds(Target(a), NewContent(p, a))
    BY <1>5, <2>2 DEF Wanted, NewContent
  <2>5. Fact("finish")'
    BY <1>4, <2>3, <2>4 DEF Fact
  <2>6. todo' \in Ways(p) /\ Phase(Head(todo')) \in G \cup {"fail"} /\ \A c \in G : Fact(c)'
    BY <1>7, <1>10, <2>1, <2>5
  <2>7. QED
    BY <1>2, <1>5, <1>8, <2>6, PlansOn
<1>15. CASE /\ InventoryDecodes /\ Conflicts(desired) = {}
            /\ ~Unchanged(p) /\ todo' = whole \o t
  <2>1. p \in Pendings
    BY <1>1, <1>3, <1>15, RecordsTyped, ComparisonTyped
  <2>2. ~Switched(p)
    BY <1>1, <1>3, <1>15, SwitchedUnchanged
  <2>3. Ours \subseteq Covered(p)
    <3>1. Ours \subseteq DOMAIN Active.owned
      BY <1>3 DEF SuccessInv, LedgerInv
    <3>2. ASSUME NEW a \in Ours
          PROVE  a \in Covered(p)
      <4>1. a \in DOMAIN Active.owned /\ Exists(Target(a))
        BY <3>1 DEF Ours
      <4>2. QED
        BY <1>5, <4>1 DEF Covered, Wanted
    <3>3. QED
      BY <3>2
  <2>4. Leads(whole, Onward("prepare"), {"settle", "confirm", "finish"}, p)
    <3> DEFINE first == PrepareSteps(p)
               apply == Then("apply", "")
               clean == CleanupSteps(p)
    <3>1. apply \in Seq(InPhase("apply", p))
      <4>1. apply \in Seq(Steps(p)) /\ "apply" \notin OperationNamed
        BY <2>1, ItemSteps DEF WholeItems, OperationNamed
      <4>2. \A x : Phase(<<"apply", x>>) = "apply"
        BY ItemPhases
      <4>3. QED
        BY <4>1, <4>2, ItemFits
    <3>2. Leads(apply, {"apply"}, {"mark"}, p)
      <4>1. Follows("apply", "mark")
        BY DEF Follows, Followers
      <4>2. QED
        BY <3>1, <4>1, LeadsSingle DEF Then
    <3>3. /\ Leads(first, Onward("prepare"), {"apply"}, p)
          /\ Leads(clean, {"mark"}, {"settle", "confirm", "finish"}, p)
      BY <2>1, PrepareWay, CleanupWay
    <3> HIDE DEF first, apply, clean
    <3>4. Leads(first \o apply, Onward("prepare"), {"mark"}, p)
      BY <3>2, <3>3, LeadsJoin
    <3>5. Leads(first \o apply \o clean, Onward("prepare"), {"settle", "confirm", "finish"}, p)
      BY <3>3, <3>4, LeadsJoin
    <3>6. QED
      BY <3>5 DEF first, apply, clean
  <2> HIDE DEF whole
  <2>5. /\ todo' \in Ways(p) /\ Phase(Head(todo')) \in Onward("prepare") \cup {"fail"}
        /\ todo'[Len(todo')] = t[Len(t)]
    BY <1>10, <1>15, <2>4 DEF Leads
  <2>6. Finishing'
    <3>1. todo' # <<>>
      BY <2>5 DEF Ways
    <3>2. QED
      BY <1>10, <2>5, <3>1 DEF Finishing, Running
  <2>7. Fact("prepare")' /\ Fact("write record")'
    BY <1>4, <2>2, <2>3, <2>6 DEF Fact
  <2>8. "move" \notin Onward("prepare") /\ \A c \in Onward("prepare") : Fact(c)'
    BY <2>7, Onwards
  <2>9. QED
    BY <1>2, <1>5, <2>5, <2>8, PlansOn
<1> HIDE DEF whole
<1>16. QED
  BY <1>11, <1>12, <1>13, <1>14, <1>15

\* A synchronisation succeeds: everything is as it was asked for.
LEMMA FinishOn ==
    ASSUME Inv, SuccessInv, Finish
    PROVE  SuccessInv'
PROOF
<1>1. /\ Running /\ Head(todo)[1] = "finish" /\ Phase(Head(todo)) = "finish"
      /\ todo' = <<>> /\ result' = "done" /\ UNCHANGED <<fs, run, calm>>
  <2>1. Here("finish") /\ todo' = <<>> /\ result' = "done" /\ UNCHANGED <<fs, run, calm>>
    BY DEF Finish
  <2>2. Running /\ Head(todo)[1] = "finish" /\ Phase(Head(todo)) = "finish"
    BY <2>1, HerePhase
  <2>3. QED
    BY <2>1, <2>2
<1>2. todo \in Ways(pending) /\ Fact("finish")
  BY <1>1, OnTheWay
<1>3. Finishing
  <2>1. todo[Len(todo)] = Head(todo)
    BY <1>1, <1>2, ResumedEnd
  <2>2. QED
    BY <1>1, <2>1 DEF Finishing
<1>4. pending.next.owned = desired
  BY <1>3 DEF SuccessInv, AimInv
<1>5. NoRecord /\ Clear /\ Switched(pending) /\ (calm => Arrived)
  BY <1>2, <1>3 DEF Fact
<1>6. Active = pending.next
  BY <1>5, InventoryBytes DEF Switched, Inv, TreeInv
<1>7. Ours \subseteq DOMAIN desired
  BY <1>4, <1>5, <1>6 DEF SuccessInv, LedgerInv
<1>8. calm => \A a \in DOMAIN desired : Holds(Target(a), Generated(desired[a]))
  BY <1>4, <1>5 DEF Arrived, Wanted, NewContent
<1>9. \A a \in Artifacts \ DOMAIN desired : Exists(Target(a)) => Holds(Target(a), UserBytes)
  BY <1>7 DEF Ours
<1>10. \A n \in Transient \cup {Pending, Cleanup} : ~Exists(n)
  BY <1>5 DEF Clear, NoRecord
<1>11. OutcomeInv'
  <2>1. UNCHANGED <<fs, desired, calm>>
    BY <1>1 DEF run
  <2>2. calm => /\ \A a \in DOMAIN desired : Holds(Target(a), Generated(desired[a]))
                /\ \A a \in Artifacts \ DOMAIN desired :
                      Exists(Target(a)) => Holds(Target(a), UserBytes)
                /\ Active.owned = desired
                /\ \A n \in Transient \cup {Pending, Cleanup} : ~Exists(n)
    BY <1>4, <1>6, <1>8, <1>9, <1>10
  <2>3. QED
    BY <2>1, <2>2 DEF OutcomeInv, SuccessIsDesired, Active, Holds, Exists
<1>12. LedgerInv' /\ ApartInv' /\ HiddenInv'
  BY <1>1, SameTree
<1>13. PathInv' /\ AimInv' /\ FactInv' /\ MoveInv'
  BY <1>1 DEF PathInv, AimInv, Finishing, FactInv, MoveInv, Running
<1>14. QED
  BY <1>11, <1>12, <1>13 DEF SuccessInv

-----------------------------------------------------------------------------
(* The file operations *)

\* Only names that say nothing about what is owned are touched.
Quiet == \A n \in Names : ~Plain(n) => fs'[n] = fs[n]

\* The names that say something.
LEMMA LoudNames ==
    /\ {Pending, Cleanup, Inventory, Temporary} \subseteq Names
    /\ ~Plain(Pending) /\ ~Plain(Cleanup) /\ ~Plain(Inventory) /\ ~Plain(Temporary)
    /\ \A a \in Artifacts : Target(a) \in Names /\ ~Plain(Target(a))
    /\ \A n : Kind(n) = "artifact" => ~Plain(n)
PROOF
<1>1. {Pending, Cleanup, Inventory, Temporary} \subseteq Names
  BY SingleNames DEF FileNames, Temporary
<1>2. ~Plain(Pending) /\ ~Plain(Cleanup) /\ ~Plain(Inventory) /\ ~Plain(Temporary)
  BY NameKind DEF Plain
<1>3. \A n : Kind(n) = "artifact" => ~Plain(n)
  BY DEF Plain
<1>4. ASSUME NEW a \in Artifacts
      PROVE  Target(a) \in Names /\ ~Plain(Target(a))
  <2>1. Target(a) \in Names
    BY ArtifactNames DEF FileNames
  <2>2. Kind(Target(a)) = "artifact"
    BY NameKind
  <2>3. QED
    BY <1>3, <2>1, <2>2
<1>5. QED
  BY <1>1, <1>2, <1>3, <1>4

\* A recorded transaction is a transaction, and wants artifacts.
LEMMA OnTransaction ==
    ASSUME Inv, SuccessInv, Exists(Record), Holds(Record, RecordOf(pending))
    PROVE  pending \in Pendings /\ Wanted(pending) \subseteq Artifacts
PROOF
<1>1. Recorded(Record) = pending /\ Decodes(Record)
  <2>1. Recorded(Record) = pending
    BY OnRecord DEF SuccessInv
  <2>2. fs[Record].data = <<"pending", pending>>
    BY DEF Holds, RecordOf
  <2>3. QED
    BY <2>1, <2>2 DEF Decodes
<1>2. Record \in Names
  BY LoudNames DEF Record
<1>3. pending \in Pendings
  BY <1>1, <1>2, RecordsTyped DEF Inv, TreeInv
<1>4. pending.next.owned \in Desires \cup {<<>>}
  BY <1>3, PendingParts DEF Inventories
<1>5. DOMAIN pending.next.owned \subseteq Artifacts
  BY <1>4, DesiresAssumption
<1>6. QED
  BY <1>3, <1>5 DEF Wanted

\* The records keep their files.
LEMMA RecordsKept ==
    ASSUME fs'[Pending] = fs[Pending], fs'[Cleanup] = fs[Cleanup]
    PROVE  /\ NoRecord' <=> NoRecord
           /\ Record' = Record /\ (Exists(Record)' <=> Exists(Record))
           /\ \A r : Holds(Record, r)' <=> Holds(Record, r)
           /\ (Decodes(Record)' <=> Decodes(Record)) /\ Recorded(Record)' = Recorded(Record)
PROOF
<1>1. Record' = Record /\ fs'[Record] = fs[Record]
  BY DEF Record, Exists
<1>2. NoRecord' <=> NoRecord
  BY DEF NoRecord, Exists
<1>3. QED
  BY <1>1, <1>2 DEF Exists, Holds, Decodes, Recorded

\* The inventory keeps its file.
LEMMA InventoryKept ==
    ASSUME fs'[Inventory] = fs[Inventory]
    PROVE  Active' = Active /\ \A p : Switched(p)' <=> Switched(p)
BY DEF Active, Switched, Exists, Holds

\* The artifacts keep their files.
LEMMA ArtifactsKept ==
    ASSUME \A n \in Names : Kind(n) = "artifact" => fs'[n] = fs[n]
    PROVE  /\ Ours' = Ours /\ (HiddenInv => HiddenInv')
           /\ pending' = pending /\ Wanted(pending) \subseteq Artifacts => (Arrived' <=> Arrived)
PROOF
<1>1. \A a \in Artifacts : fs'[Target(a)] = fs[Target(a)]
  BY LoudNames, NameKind
<1>2. Ours' = Ours
  BY <1>1 DEF Ours, Exists, Holds
<1>3. HiddenInv => HiddenInv'
  BY DEF HiddenInv, Exists, Holds
<1>4. pending' = pending /\ Wanted(pending) \subseteq Artifacts => (Arrived' <=> Arrived)
  BY <1>1 DEF Arrived, Wanted, Holds
<1>5. QED
  BY <1>2, <1>3, <1>4

\* The ledger stays right when files of artifacts go and nothing else is recorded.
LEMMA LedgerKept ==
    ASSUME SuccessInv, fs'[Pending] = fs[Pending], fs'[Cleanup] = fs[Cleanup],
           fs'[Inventory] = fs[Inventory], Ours' \subseteq Ours
    PROVE  LedgerInv'
PROOF
<1>1. PICK p : p = Recorded(Record)
  OBVIOUS
<1>2. /\ NoRecord' <=> NoRecord
      /\ Decodes(Record)' <=> Decodes(Record)
      /\ Recorded(Record)' = p
  BY <1>1, RecordsKept
<1>3. Active' = Active /\ (Switched(p)' <=> Switched(p))
  BY InventoryKept
<1>4. Backed(p) => Backed(p)'
  BY <1>3 DEF Backed
<1>5. Backed(Recorded(Record))' <=> Backed(p)'
  BY <1>2 DEF Backed, Covered, Wanted, Switched
<1>6. ~NoRecord => Decodes(Record) /\ Backed(p)
  BY <1>1 DEF SuccessInv, LedgerInv
<1>7. NoRecord => Ours \subseteq DOMAIN Active.owned
  BY DEF SuccessInv, LedgerInv
<1>8. ~NoRecord' => Decodes(Record)' /\ Backed(Recorded(Record))'
  BY <1>2, <1>4, <1>5, <1>6
<1>9. NoRecord' => Ours' \subseteq DOMAIN Active'.owned
  BY <1>2, <1>3, <1>7
<1>10. QED
  BY <1>8, <1>9 DEF LedgerInv

\* The ledger is right when the transaction is recorded and covers what is there.
LEMMA LedgerOn ==
    ASSUME (Exists(Record) /\ Holds(Record, RecordOf(pending)))', Backed(pending)'
    PROVE  LedgerInv'
PROOF
<1>1. PICK p, r : p = pending' /\ r = Record'
  OBVIOUS
<1>2. fs'[r] # Absent /\ fs'[r].data = <<"pending", p>>
  BY <1>1 DEF Exists, Holds, RecordOf
<1>3. ~NoRecord'
  BY <1>1, <1>2 DEF NoRecord, Record, Exists
<1>4. Decodes(Record)' /\ Recorded(Record)' = p
  BY <1>1, <1>2 DEF Decodes, Recorded
<1>5. Backed(Recorded(Record))'
  BY <1>1, <1>4 DEF Backed, Covered, Wanted, Switched
<1>6. QED
  BY <1>3, <1>4, <1>5 DEF LedgerInv

\* What does not change when the names that say something keep their files.
LEMMA QuietState ==
    ASSUME SuccessInv, Quiet, pending' = pending
    PROVE  /\ NoRecord' <=> NoRecord
           /\ Record' = Record /\ (Exists(Record)' <=> Exists(Record))
           /\ Holds(Record, RecordOf(pending))' <=> Holds(Record, RecordOf(pending))
           /\ Holds(Temporary, RecordOf(pending))' <=> Holds(Temporary, RecordOf(pending))
           /\ Ours' = Ours /\ (Switched(pending)' <=> Switched(pending))
           /\ Wanted(pending) \subseteq Artifacts => (Arrived' <=> Arrived)
           /\ LedgerInv' /\ HiddenInv'
PROOF
<1>1. /\ fs'[Pending] = fs[Pending] /\ fs'[Cleanup] = fs[Cleanup]
      /\ fs'[Inventory] = fs[Inventory] /\ fs'[Temporary] = fs[Temporary]
      /\ \A n \in Names : Kind(n) = "artifact" => fs'[n] = fs[n]
  BY LoudNames DEF Quiet
<1>2. PICK p : p = pending
  OBVIOUS
<1>3. /\ NoRecord' <=> NoRecord
      /\ Record' = Record /\ (Exists(Record)' <=> Exists(Record))
      /\ Holds(Record, RecordOf(p))' <=> Holds(Record, RecordOf(p))
  BY <1>1, RecordsKept
<1>4. Holds(Temporary, RecordOf(pending))' <=> Holds(Temporary, RecordOf(pending))
  BY <1>1 DEF Holds
<1>5. Holds(Record, RecordOf(pending))' <=> Holds(Record, RecordOf(pending))
  BY <1>2, <1>3 DEF Holds
<1>6. Ours' = Ours /\ HiddenInv' /\ (Wanted(pending) \subseteq Artifacts => (Arrived' <=> Arrived))
  BY <1>1, ArtifactsKept DEF SuccessInv
<1>7. Switched(pending)' <=> Switched(pending)
  BY <1>1 DEF Switched, Holds
<1>8. LedgerInv'
  BY <1>1, <1>6, LedgerKept
<1>9. QED
  BY <1>3, <1>4, <1>5, <1>6, <1>7, <1>8

\* What a phase relies on, when the names that say something keep their files.
LEMMA QuietFacts ==
    ASSUME Inv, SuccessInv, Quiet, UNCHANGED <<run, calm>>, Finishing' <=> Finishing,
           NEW c, c \notin {"confirm", "compare", "forget", "finish"}, Fact(c)
    PROVE  Fact(c)'
PROOF
<1>1. pending' = pending /\ calm' = calm
  BY DEF run
<1>2. /\ NoRecord' <=> NoRecord
      /\ Exists(Record)' <=> Exists(Record)
      /\ Holds(Record, RecordOf(pending))' <=> Holds(Record, RecordOf(pending))
      /\ Holds(Temporary, RecordOf(pending))' <=> Holds(Temporary, RecordOf(pending))
      /\ Ours' = Ours /\ (Switched(pending)' <=> Switched(pending))
      /\ Wanted(pending) \subseteq Artifacts => (Arrived' <=> Arrived)
  BY <1>1, QuietState
<1>3. Covered(pending)' = Covered(pending) /\ Wanted(pending)' = Wanted(pending)
  BY <1>1 DEF Covered, Wanted
<1>4. (Finishing /\ Ours \subseteq Covered(pending))'
         <=> (Finishing /\ Ours \subseteq Covered(pending))
  BY <1>2, <1>3
<1>5. (Exists(Record) /\ Holds(Record, RecordOf(pending)))'
         <=> (Exists(Record) /\ Holds(Record, RecordOf(pending)))
  BY <1>2
<1>6. (Ours \subseteq Wanted(pending))' <=> (Ours \subseteq Wanted(pending))
  BY <1>2, <1>3
<1>7. c \in {"switch", "mark", "record cleanup", "sweep", "swept"} =>
         ((Finishing /\ calm => Arrived)' <=> (Finishing /\ calm => Arrived))
  <2>1. ASSUME c \in {"switch", "mark", "record cleanup", "sweep", "swept"}
        PROVE  Wanted(pending) \subseteq Artifacts
    <3>1. Exists(Record) /\ Holds(Record, RecordOf(pending))
      BY <2>1 DEF Fact
    <3>2. QED
      BY <3>1, OnTransaction
  <2>2. ASSUME c \in {"switch", "mark", "record cleanup", "sweep", "swept"}
        PROVE  (Finishing /\ calm => Arrived)' <=> (Finishing /\ calm => Arrived)
    <3>1. Arrived' <=> Arrived
      BY <1>2, <2>1, <2>2
    <3>2. QED
      BY <1>1, <3>1
  <2>3. QED
    BY <2>2
<1>8. (Finishing => ~Switched(pending))' <=> (Finishing => ~Switched(pending))
  BY <1>2
<1>9. QED
  BY <1>2, <1>4, <1>5, <1>6, <1>7, <1>8 DEF Fact

\* A file operation keeps the invariant, if the tree keeps its part of it and the phase
\* after it finds what it relies on.
LEMMA OperationOn ==
    ASSUME Inv, SuccessInv, Running, Head(todo)[1] \notin Ends, Head(todo)[1] # "load",
           todo' = Tail(todo), UNCHANGED <<run, calm, result>>,
           LedgerInv', ApartInv', HiddenInv',
           NEW D, "move" \notin D,
           \A d : Follows(Phase(Head(todo)), d) => d \in D \cup {"fail"},
           (Finishing' <=> Finishing) => \A d \in D : Fact(d)'
    PROVE  SuccessInv'
PROOF
<1>1. todo \in Ways(pending)
  BY OnTheWay
<1>2. PICK t : t = Tail(todo)
  OBVIOUS
<1>3. /\ t \in Ways(pending) /\ Follows(Phase(Head(todo)), Phase(Head(t)))
      /\ t[Len(t)] = todo[Len(todo)] /\ t # <<>>
  BY <1>1, <1>2, WayTail DEF Ways
<1>4. todo' = t /\ pending' = pending /\ desired' = desired
  BY <1>2 DEF run
<1>5. Finishing' <=> Finishing
  BY <1>3, <1>4 DEF Finishing, Running
<1>6. PathInv' /\ AimInv'
  BY <1>3, <1>4, <1>5 DEF SuccessInv, PathInv, AimInv
<1>7. PICK d : Phase(Head(t)) = d
  OBVIOUS
<1>8. Fact("fail")'
  BY DEF Fact
<1>9. Fact(d)' /\ d # "move"
  BY <1>3, <1>5, <1>7, <1>8
<1>10. FactInv'
  BY <1>4, <1>7, <1>9 DEF FactInv
<1>11. MoveInv'
  BY <1>4, <1>7, <1>9, NoMove
<1>12. OutcomeInv'
  <2>1. result' = "none"
    BY DEF Inv, ControlInv
  <2>2. QED
    BY <2>1 DEF OutcomeInv, SuccessIsDesired
<1>13. QED
  BY <1>6, <1>10, <1>11, <1>12 DEF SuccessInv

\* A file operation that stays in its phase, on names that say nothing.
LEMMA QuietOn ==
    ASSUME Inv, SuccessInv, Running, Head(todo)[1] \notin Ends, Head(todo)[1] # "load",
           todo' = Tail(todo), UNCHANGED <<run, calm, result>>, Quiet, ApartInv',
           Phase(Head(todo)) \in Loops \cup {"prove record"}
    PROVE  SuccessInv'
PROOF
<1>1. LedgerInv' /\ HiddenInv'
  BY QuietState DEF run
<1>2. PICK c : c = Phase(Head(todo))
  OBVIOUS
<1>3. Fact(c)
  BY <1>2, OnTheWay
<1>4. CASE c \in Loops
  <2>1. \A d : Follows(c, d) => d \in Onward(c) \cup {"fail"}
    BY <1>4, Loop
  <2>2. "move" \notin Onward(c)
    BY <1>4, Loop
  <2>3. ASSUME NEW d \in Onward(c), Finishing' <=> Finishing
        PROVE  Fact(d)'
    <3>1. Fact(d)
      BY <1>3, <1>4, FactOnward
    <3>2. d \notin {"confirm", "compare", "forget", "finish"}
      BY <1>4, Onwards DEF Loops
    <3>3. QED
      BY <2>3, <3>1, <3>2, QuietFacts
  <2>4. QED
    BY <1>1, <1>2, <2>1, <2>2, <2>3, OperationOn
<1>5. CASE c = "prove record"
  <2>1. PICK D : D = {"publish"}
    OBVIOUS
  <2>2. "move" \notin D /\ \A d : Follows(c, d) => d \in D \cup {"fail"}
    BY <1>5, <2>1 DEF Follows, Followers
  <2>3. Fact("publish")
    BY <1>3, <1>5 DEF Fact
  <2>4. (Finishing' <=> Finishing) => \A d \in D : Fact(d)'
    BY <2>1, <2>3, QuietFacts
  <2>5. QED
    BY <1>1, <1>2, <2>2, <2>4, OperationOn
<1>6. QED
  BY <1>2, <1>4, <1>5

\* Files that only change their names stay apart, if their kinds do.
LEMMA ApartKept ==
    ASSUME SoundTree(fs), ApartInv,
           \A n \in Names :
              \/ fs'[n] = Absent
              \/ \E m \in Names : /\ fs'[n] = fs[m]
                                  /\ Kind(n) \in ArtifactKinds <=> Kind(m) \in ArtifactKinds
    PROVE  ApartInv'
PROOF
<1>1. ASSUME NEW m \in Names, NEW n \in Names, fs'[m] # Absent, fs'[m].id = fs'[n].id
      PROVE  Kind(m) \in ArtifactKinds <=> Kind(n) \in ArtifactKinds
  <2>1. PICK k \in Names : /\ fs'[m] = fs[k]
                           /\ Kind(m) \in ArtifactKinds <=> Kind(k) \in ArtifactKinds
    BY <1>1
  <2>2. fs[k] # Absent /\ fs[k].id # 0
    BY <1>1, <2>1 DEF SoundTree
  <2>3. fs'[n] # Absent
    BY <1>1, <2>1, <2>2 DEF Absent
  <2>4. PICK l \in Names : /\ fs'[n] = fs[l]
                           /\ Kind(n) \in ArtifactKinds <=> Kind(l) \in ArtifactKinds
    BY <2>3
  <2>5. SameFile(k, l)
    BY <1>1, <2>1, <2>2, <2>4 DEF SameFile, Exists
  <2>6. Kind(k) \in ArtifactKinds <=> Kind(l) \in ArtifactKinds
    BY <2>5 DEF ApartInv
  <2>7. QED
    BY <2>1, <2>4, <2>6
<1>2. QED
  BY <1>1 DEF ApartInv, SameFile, Exists

\* A new file is apart from all others.
LEMMA ApartNew ==
    ASSUME SoundTree(fs), ApartInv, NEW x \in Names, NEW d,
           fs' = [fs EXCEPT ![x] = [id |-> Fresh, data |-> d]]
    PROVE  ApartInv'
PROOF
<1>1. fs \in [Names -> [id : 0 .. Cardinality(Names) + 1, data : Data]]
  BY DEF SoundTree, Tree
<1>2. PICK i : i = Fresh
  OBVIOUS
<1>3. \A n \in Names : fs[n].id # i
  BY <1>2, FreshIsNew DEF SoundTree
<1>4. \A n \in Names : fs'[n] = IF n = x THEN [id |-> i, data |-> d] ELSE fs[n]
  BY <1>1, <1>2
<1>5. \A n \in Names : fs'[n].id = i <=> n = x
  BY <1>3, <1>4
<1>6. ASSUME NEW m \in Names, NEW n \in Names, fs'[m] # Absent, fs'[m].id = fs'[n].id
      PROVE  Kind(m) \in ArtifactKinds <=> Kind(n) \in ArtifactKinds
  <2>1. CASE m = x \/ n = x
    BY <1>5, <1>6, <2>1
  <2>2. CASE m # x /\ n # x
    <3>1. SameFile(m, n)
      BY <1>4, <1>6, <2>2 DEF SameFile, Exists
    <3>2. QED
      BY <3>1 DEF ApartInv
  <2>3. QED
    BY <2>1, <2>2
<1>7. QED
  BY <1>6 DEF ApartInv, SameFile, Exists

\* The phases of the file operations.
LEMMA OperationPhases ==
    ASSUME NEW s, s[1] \in OperationNamed
    PROVE  /\ s[1] = "create" => Phase(s) = NewPhase(s[2])
           /\ s[1] = "link" => Phase(s) = NewPhase(s[4])
           /\ s[1] = "rename" => Phase(s) = RenamePhase(s[2])
           /\ s[1] = "move" => Phase(s) = "move"
           /\ s[1] \in {"unlink", "rmdir"} => Phase(s) = "sweep"
           /\ s[1] = "discard" => Phase(s) = IF Kind(s[2]) = "cleanup" THEN "forget" ELSE "sweep"
           /\ s[1] \notin Ends /\ s[1] # "load"
BY DEF OperationNamed, Phase, PrepareItems, ApplyItems, SweepItems, Ends

\* A new name that says nothing belongs to a phase with several steps, and so does a
\* rename of such a name.
LEMMA PlainPhases ==
    ASSUME NEW n, Plain(n)
    PROVE  NewPhase(n) \in Loops \cup {"prove record"} /\ RenamePhase(n) \in Loops
PROOF
<1>1. Kind(n) \notin {"cleanup", "pending-temporary"}
  BY DEF Plain
<1>2. NewPhase(n) \in Loops \cup {"prove record"}
  BY <1>1 DEF NewPhase, Loops
<1>3. RenamePhase(n) \in Loops
  BY <1>1 DEF RenamePhase, Loops
<1>4. QED
  BY <1>2, <1>3

\* Something is created.
LEMMA CreateOn ==
    ASSUME Inv, SuccessInv, Here("create"), NEW x, NEW d, x = Head(todo)[2], d = Head(todo)[3],
           fs' \in Created(x, d), todo' = Tail(todo), UNCHANGED <<run, calm, result>>
    PROVE  SuccessInv'
PROOF
<1>1. Running /\ Head(todo)[1] = "create" /\ Head(todo)[1] \in OperationNamed
  BY DEF Here, OperationNamed
<1>2. /\ Head(todo)[1] \notin Ends /\ Head(todo)[1] # "load"
      /\ Phase(Head(todo)) = NewPhase(x)
  BY <1>1, OperationPhases
<1>3. /\ Head(todo) \in Steps(pending) /\ Fits(Head(todo), pending) /\ Fact(NewPhase(x))
  BY <1>1, <1>2, OnTheWay
<1>4. Plain(x) \/ (x = Temporary /\ d = RecordOf(pending))
  BY <1>1, <1>3 DEF Fits, CreateFits
<1>5. x \in Names
  BY <1>1, <1>3, OperationCases DEF FileNames, DirectoryNames
<1>6. SoundTree(fs) /\ DOMAIN fs = Names
  BY DEF Inv, TreeInv, SoundTree, Tree
<1>7. fs' = [fs EXCEPT ![x] = [id |-> Fresh, data |-> d]]
  BY DEF Created, Only
<1>8. ApartInv'
  BY <1>5, <1>6, <1>7, ApartNew DEF SuccessInv
<1>9. \A n \in Names : n # x => fs'[n] = fs[n]
  BY <1>6, <1>7
<1>10. fs'[x].data = d
  BY <1>5, <1>6, <1>7
<1>11. CASE Plain(x)
  <2>1. Quiet
    BY <1>9, <1>11 DEF Quiet
  <2>2. Phase(Head(todo)) \in Loops \cup {"prove record"}
    BY <1>2, <1>11, PlainPhases
  <2>3. QED
    BY <1>1, <1>2, <1>8, <2>1, <2>2, QuietOn
<1>12. CASE x = Temporary /\ d = RecordOf(pending)
  <2>1. NewPhase(x) = "write record"
    BY <1>12, NameKind DEF NewPhase
  <2>2. x # Pending /\ x # Cleanup /\ x # Inventory /\ Kind(x) # "artifact"
    BY <1>12, NameKind
  <2>3. /\ fs'[Pending] = fs[Pending] /\ fs'[Cleanup] = fs[Cleanup]
        /\ fs'[Inventory] = fs[Inventory]
        /\ \A n \in Names : Kind(n) = "artifact" => fs'[n] = fs[n]
    BY <1>9, <2>2, LoudNames
  <2>4. NoRecord' <=> NoRecord
    BY <2>3, RecordsKept
  <2>5. Ours' = Ours /\ HiddenInv'
    BY <2>3, ArtifactsKept DEF SuccessInv
  <2>6. LedgerInv'
    BY <2>3, <2>5, LedgerKept
  <2>7. pending' = pending
    BY DEF run
  <2>8. Switched(pending)' <=> Switched(pending)
    BY <2>3, <2>7 DEF Switched, Holds
  <2>9. Holds(Temporary, RecordOf(pending))'
    BY <1>10, <1>12, <2>7 DEF Holds
  <2>10. PICK D : D = {"prove record"}
    OBVIOUS
  <2>11. "move" \notin D /\ \A e : Follows(Phase(Head(todo)), e) => e \in D \cup {"fail"}
    BY <1>2, <2>1, <2>10 DEF Follows, Followers
  <2>12. NoRecord /\ Finishing /\ Ours \subseteq Covered(pending) /\ ~Switched(pending)
    BY <1>3, <2>1 DEF Fact
  <2>13. ASSUME Finishing' <=> Finishing
         PROVE  Fact("prove record")'
    <3>1. (Ours \subseteq Covered(pending))'
      BY <2>5, <2>7, <2>12 DEF Covered, Wanted
    <3>2. NoRecord' /\ Finishing' /\ ~Switched(pending)'
      BY <2>4, <2>8, <2>12, <2>13
    <3>3. QED
      BY <2>9, <3>1, <3>2 DEF Fact
  <2>14. (Finishing' <=> Finishing) => \A e \in D : Fact(e)'
    BY <2>10, <2>13
  <2>15. QED
    BY <1>1, <1>2, <1>8, <2>5, <2>6, <2>11, <2>14, OperationOn
<1>13. QED
  BY <1>4, <1>11, <1>12

\* A name goes.
LEMMA GoneState ==
    ASSUME Inv, SuccessInv, NEW x \in Names, fs' = [fs EXCEPT ![x] = Absent]
    PROVE  ApartInv' /\ fs'[x] = Absent /\ \A n \in Names : n # x => fs'[n] = fs[n]
PROOF
<1>1. SoundTree(fs) /\ DOMAIN fs = Names
  BY DEF Inv, TreeInv, SoundTree, Tree
<1>2. fs'[x] = Absent /\ \A n \in Names : n # x => fs'[n] = fs[n]
  BY <1>1
<1>3. ApartInv'
  BY <1>1, <1>2, ApartKept DEF SuccessInv
<1>4. QED
  BY <1>2, <1>3

\* An empty directory goes.
LEMMA RmdirOn ==
    ASSUME Inv, SuccessInv, Here("rmdir"), NEW x, x = Head(todo)[2],
           fs' \in DirectoryRemoved(x), todo' = Tail(todo), UNCHANGED <<run, calm, result>>
    PROVE  SuccessInv'
PROOF
<1>1. Running /\ Head(todo)[1] = "rmdir" /\ Head(todo)[1] \in OperationNamed
  BY DEF Here, OperationNamed
<1>2. /\ Head(todo)[1] \notin Ends /\ Head(todo)[1] # "load"
      /\ Phase(Head(todo)) = "sweep"
  BY <1>1, OperationPhases
<1>3. Head(todo) \in Steps(pending) /\ Fits(Head(todo), pending)
  BY <1>1, <1>2, OnTheWay
<1>4. Plain(x) /\ x \in Names
  BY <1>1, <1>3, OperationCases DEF Fits, DirectoryNames
<1>5. fs' = [fs EXCEPT ![x] = Absent]
  BY DEF DirectoryRemoved, Only
<1>6. ApartInv' /\ \A n \in Names : n # x => fs'[n] = fs[n]
  BY <1>4, <1>5, GoneState
<1>7. Quiet
  BY <1>4, <1>6 DEF Quiet
<1>8. Phase(Head(todo)) \in Loops \cup {"prove record"}
  BY <1>2, Onwards
<1>9. QED
  BY <1>1, <1>2, <1>6, <1>7, <1>8, QuietOn

\* The pending record goes, for the cleanup record is the same.
LEMMA PendingGone ==
    ASSUME Inv, SuccessInv, Here("unlink"), Head(todo)[2] = Pending, Head(todo)[3] = Cleanup,
           fs' \in Removed(Pending, Cleanup), todo' = Tail(todo), UNCHANGED <<run, calm, result>>
    PROVE  SuccessInv'
PROOF
<1>1. Running /\ Head(todo)[1] = "unlink" /\ Head(todo)[1] \in OperationNamed
  BY DEF Here, OperationNamed
<1>2. /\ Head(todo)[1] \notin Ends /\ Head(todo)[1] # "load"
      /\ Phase(Head(todo)) = "sweep"
  BY <1>1, OperationPhases
<1>3. Fact("sweep")
  BY <1>1, <1>2, OnTheWay
<1>4. /\ Exists(Record) /\ Holds(Record, RecordOf(pending)) /\ Switched(pending)
      /\ Finishing /\ calm => Arrived
  BY <1>3 DEF Fact
<1>5. /\ fs' = [fs EXCEPT ![Pending] = Absent]
      /\ Exists(Pending) => SameFile(Pending, Cleanup)
  BY DEF Removed, Only
<1>6. Exists(Cleanup)
  <2>1. ASSUME ~Exists(Cleanup)
        PROVE  FALSE
    <3>1. Exists(Pending)
      BY <1>4, <2>1 DEF Record
    <3>2. fs[Pending].id = fs[Cleanup].id
      BY <1>5, <3>1 DEF SameFile
    <3>3. fs[Pending].id = 0
      BY <2>1, <3>2 DEF Exists, Absent
    <3>4. QED
      BY <3>1, <3>3, LoudNames DEF Inv, TreeInv, SoundTree, Exists
  <2>2. QED
    BY <2>1
<1>7. ApartInv' /\ \A n \in Names : n # Pending => fs'[n] = fs[n]
  BY <1>5, LoudNames, GoneState
<1>8. Cleanup # Pending /\ Inventory # Pending /\ \A n : Kind(n) = "artifact" => n # Pending
  BY NameKind
<1>9. /\ fs'[Cleanup] = fs[Cleanup] /\ fs'[Inventory] = fs[Inventory]
      /\ \A n \in Names : Kind(n) = "artifact" => fs'[n] = fs[n]
  BY <1>7, <1>8, LoudNames
<1>10. pending' = pending /\ calm' = calm
  BY DEF run
<1>11. (Exists(Record) /\ Holds(Record, RecordOf(pending)))'
  BY <1>4, <1>6, <1>9, <1>10 DEF Record, Exists, Holds
<1>12. /\ Ours' = Ours /\ HiddenInv'
       /\ Wanted(pending) \subseteq Artifacts => (Arrived' <=> Arrived)
  BY <1>9, <1>10, ArtifactsKept DEF SuccessInv
<1>13. Arrived' <=> Arrived
  BY <1>4, <1>12, OnTransaction
<1>14. Switched(pending)'
  BY <1>4, <1>9, <1>10 DEF Switched, Holds
<1>15. Backed(pending)'
  <2>1. Ours \subseteq Covered(pending) /\ Ours \subseteq Wanted(pending)
    BY <1>4, OnRecord DEF SuccessInv, Backed
  <2>2. QED
    BY <1>10, <1>12, <2>1 DEF Backed, Covered, Wanted
<1>16. LedgerInv'
  BY <1>11, <1>15, LedgerOn
<1>17. PICK D : D = {"sweep", "swept"}
  OBVIOUS
<1>18. "move" \notin D /\ \A d : Follows(Phase(Head(todo)), d) => d \in D \cup {"fail"}
  BY <1>2, <1>17 DEF Follows, Followers
<1>19. ASSUME Finishing' <=> Finishing, NEW d \in D
       PROVE  Fact(d)'
  <2>1. Finishing' /\ calm' => Arrived'
    BY <1>4, <1>10, <1>13, <1>19
  <2>2. QED
    BY <1>11, <1>14, <1>17, <2>1 DEF Fact
<1>20. QED
  BY <1>1, <1>2, <1>7, <1>12, <1>16, <1>18, <1>19, OperationOn

\* A second name goes.
LEMMA UnlinkOn ==
    ASSUME Inv, SuccessInv, Here("unlink"), NEW x, NEW y, x = Head(todo)[2], y = Head(todo)[3],
           fs' \in Removed(x, y), todo' = Tail(todo), UNCHANGED <<run, calm, result>>
    PROVE  SuccessInv'
PROOF
<1>1. Running /\ Head(todo)[1] = "unlink" /\ Head(todo)[1] \in OperationNamed
  BY DEF Here, OperationNamed
<1>2. /\ Head(todo)[1] \notin Ends /\ Head(todo)[1] # "load"
      /\ Phase(Head(todo)) = "sweep"
  BY <1>1, OperationPhases
<1>3. Head(todo) \in Steps(pending) /\ Fits(Head(todo), pending)
  BY <1>1, <1>2, OnTheWay
<1>4. (Plain(x) \/ (x = Pending /\ y = Cleanup)) /\ x \in Names
  BY <1>1, <1>3, OperationCases DEF Fits, UnlinkFits, FileNames
<1>5. CASE Plain(x)
  <2>1. fs' = [fs EXCEPT ![x] = Absent]
    BY DEF Removed, Only
  <2>2. ApartInv' /\ \A n \in Names : n # x => fs'[n] = fs[n]
    BY <1>4, <2>1, GoneState
  <2>3. Quiet
    BY <1>5, <2>2 DEF Quiet
  <2>4. Phase(Head(todo)) \in Loops \cup {"prove record"}
    BY <1>2, Onwards
  <2>5. QED
    BY <1>1, <1>2, <2>2, <2>3, <2>4, QuietOn
<1>6. CASE x = Pending /\ y = Cleanup
  BY <1>6, PendingGone
<1>7. QED
  BY <1>4, <1>5, <1>6

\* The cleanup record goes last: the inventory says the same from now on.
LEMMA CleanupGone ==
    ASSUME Inv, SuccessInv, Here("discard"), Head(todo)[2] = Cleanup,
           Head(todo)[3] = RecordOf(pending),
           fs' \in Discarded(Cleanup, RecordOf(pending)), todo' = Tail(todo),
           UNCHANGED <<run, calm, result>>
    PROVE  SuccessInv'
PROOF
<1>1. Running /\ Head(todo)[1] = "discard" /\ Head(todo)[1] \in OperationNamed
  BY DEF Here, OperationNamed
<1>2. /\ Head(todo)[1] \notin Ends /\ Head(todo)[1] # "load"
      /\ Phase(Head(todo)) = "forget"
  BY <1>1, OperationPhases, NameKind
<1>3. Fact("forget")
  BY <1>1, <1>2, OnTheWay
<1>4. /\ Exists(Record) /\ Holds(Record, RecordOf(pending)) /\ Switched(pending)
      /\ Finishing /\ calm => Arrived
      /\ Clear
  BY <1>3 DEF Fact
<1>5. fs' = [fs EXCEPT ![Cleanup] = Absent]
  BY DEF Discarded, Only
<1>6. ApartInv' /\ fs'[Cleanup] = Absent /\ \A n \in Names : n # Cleanup => fs'[n] = fs[n]
  BY <1>5, LoudNames, GoneState
<1>7. Cleanup # Pending /\ Inventory # Cleanup /\ \A n : Kind(n) = "artifact" => n # Cleanup
  BY NameKind
<1>8. /\ fs'[Pending] = fs[Pending] /\ fs'[Inventory] = fs[Inventory]
      /\ \A n \in Names : Kind(n) = "artifact" => fs'[n] = fs[n]
  BY <1>6, <1>7, LoudNames
<1>9. pending' = pending /\ calm' = calm
  BY DEF run
<1>10. NoRecord'
  BY <1>4, <1>6, <1>8 DEF NoRecord, Clear, Exists
<1>11. Clear'
  <2>1. Transient \cup {Pending} \subseteq Names
    BY LoudNames DEF Transient
  <2>2. \A n \in Names : fs[n] = Absent => fs'[n] = Absent
    BY <1>6
  <2>3. \A n \in Transient \cup {Pending} : fs'[n] = Absent
    BY <1>4, <2>1, <2>2 DEF Clear, Exists
  <2>4. QED
    BY <2>3 DEF Clear, Exists
<1>12. /\ Ours' = Ours /\ HiddenInv'
       /\ Wanted(pending) \subseteq Artifacts => (Arrived' <=> Arrived)
  BY <1>8, <1>9, ArtifactsKept DEF SuccessInv
<1>13. Arrived' <=> Arrived
  BY <1>4, <1>12, OnTransaction
<1>14. Switched(pending)' /\ Active' = Active
  BY <1>4, <1>8, <1>9, InventoryKept DEF Switched, Holds
<1>15. LedgerInv'
  <2>1. Ours \subseteq Wanted(pending)
    BY <1>4, OnRecord DEF SuccessInv, Backed
  <2>2. Active = pending.next
    BY <1>4, InventoryBytes DEF Switched, Inv, TreeInv
  <2>3. Ours' \subseteq DOMAIN Active'.owned
    BY <1>12, <1>14, <2>1, <2>2 DEF Wanted
  <2>4. QED
    BY <1>10, <2>3 DEF LedgerInv
<1>16. PICK D : D = {"settle", "confirm", "finish"}
  OBVIOUS
<1>17. "move" \notin D /\ \A d : Follows(Phase(Head(todo)), d) => d \in D \cup {"fail"}
  BY <1>2, <1>16 DEF Follows, Followers
<1>18. ASSUME Finishing' <=> Finishing, NEW d \in D
       PROVE  Fact(d)'
  <2>1. Finishing' /\ calm' => Arrived'
    BY <1>4, <1>9, <1>13, <1>18
  <2>2. QED
    BY <1>10, <1>11, <1>14, <1>16, <2>1 DEF Fact
<1>19. QED
  BY <1>1, <1>2, <1>6, <1>12, <1>15, <1>17, <1>18, OperationOn

\* A file with known content goes.
LEMMA DiscardOn ==
    ASSUME Inv, SuccessInv, Here("discard"), NEW x, NEW d, x = Head(todo)[2], d = Head(todo)[3],
           fs' \in Discarded(x, d), todo' = Tail(todo), UNCHANGED <<run, calm, result>>
    PROVE  SuccessInv'
PROOF
<1>1. Running /\ Head(todo)[1] = "discard" /\ Head(todo)[1] \in OperationNamed
  BY DEF Here, OperationNamed
<1>2. /\ Head(todo)[1] \notin Ends /\ Head(todo)[1] # "load"
      /\ Phase(Head(todo)) = IF Kind(x) = "cleanup" THEN "forget" ELSE "sweep"
  BY <1>1, OperationPhases
<1>3. Head(todo) \in Steps(pending) /\ Fits(Head(todo), pending)
  BY <1>1, <1>2, OnTheWay
<1>4. (Plain(x) \/ (x = Cleanup /\ d = RecordOf(pending))) /\ x \in Names
  BY <1>1, <1>3, OperationCases DEF Fits, DiscardFits, FileNames
<1>5. CASE Plain(x)
  <2>1. fs' = [fs EXCEPT ![x] = Absent]
    BY DEF Discarded, Only
  <2>2. ApartInv' /\ \A n \in Names : n # x => fs'[n] = fs[n]
    BY <1>4, <2>1, GoneState
  <2>3. Quiet
    BY <1>5, <2>2 DEF Quiet
  <2>4. Phase(Head(todo)) \in Loops \cup {"prove record"}
    BY <1>2, <1>5, Onwards DEF Plain
  <2>5. QED
    BY <1>1, <1>2, <2>2, <2>3, <2>4, QuietOn
<1>6. CASE x = Cleanup /\ d = RecordOf(pending)
  BY <1>6, CleanupGone
<1>7. QED
  BY <1>4, <1>5, <1>6

\* One artifact of the transaction is put in its place, or taken from it.
LEMMA PlacedOn ==
    ASSUME Inv, SuccessInv, Running, Head(todo)[1] \notin Ends, Head(todo)[1] # "load",
           todo' = Tail(todo), UNCHANGED <<run, calm, result>>, ApartInv',
           Phase(Head(todo)) = "place", NEW a \in Covered(pending),
           \A n \in Names : n # Target(a) /\ n # Owned("quarantine", a) => fs'[n] = fs[n]
    PROVE  SuccessInv'
PROOF
<1>1. Fact("place")
  BY OnTheWay
<1>2. Exists(Record) /\ Holds(Record, RecordOf(pending)) /\ ~Switched(pending)
  BY <1>1 DEF Fact
<1>3. /\ \A n \in {Pending, Cleanup, Inventory} : n # Target(a) /\ n # Owned("quarantine", a)
      /\ \A n : Kind(n) = "artifact" => n # Owned("quarantine", a)
      /\ \A b : Target(b) = Target(a) => b = a
  <2>1. /\ Kind(Target(a)) = "artifact" /\ Kind(Owned("quarantine", a)) = "quarantine"
        /\ Kind(Pending) = "pending" /\ Kind(Cleanup) = "cleanup" /\ Kind(Inventory) = "control"
    BY NameKind
  <2>2. \A b : Target(b)[2] = <<"artifact", b>>
    BY DEF Target
  <2>3. QED
    BY <2>1, <2>2
<1>4. /\ fs'[Pending] = fs[Pending] /\ fs'[Cleanup] = fs[Cleanup] /\ fs'[Inventory] = fs[Inventory]
  BY <1>3, LoudNames
<1>5. PICK p : p = pending
  OBVIOUS
<1>6. pending' = p
  BY <1>5 DEF run
<1>7. (Exists(Record) /\ Holds(Record, RecordOf(pending)))'
  <2>1. Exists(Record)' /\ Holds(Record, RecordOf(p))'
    BY <1>2, <1>4, <1>5, RecordsKept
  <2>2. QED
    BY <1>6, <2>1 DEF Holds
<1>8. ~Switched(pending)'
  BY <1>2, <1>4, <1>5, <1>6 DEF Switched, Holds
<1>9. HiddenInv'
  <2>1. a \in Artifacts
    BY <1>2, OnTransaction, PendingParts DEF Covered, Deletes, Changed
  <2>2. ASSUME NEW n \in Names, Kind(n) = "artifact", \A b \in Artifacts : n # Target(b)
        PROVE  fs'[n] = fs[n]
    BY <1>3, <2>1, <2>2
  <2>3. QED
    BY <2>2 DEF SuccessInv, HiddenInv, Exists, Holds
<1>10. Ours' \subseteq Ours \cup {a}
  <2>1. ASSUME NEW b \in Artifacts, b # a
        PROVE  fs'[Target(b)] = fs[Target(b)]
    BY <1>3, <2>1, LoudNames, NameKind
  <2>2. QED
    BY <2>1 DEF Ours, Exists, Holds
<1>11. Backed(pending)'
  <2>1. Ours \subseteq Covered(p)
    BY <1>2, <1>5, OnRecord DEF SuccessInv, Backed
  <2>2. Ours' \subseteq Covered(p)
    BY <1>5, <1>10, <2>1
  <2>3. (Ours \subseteq Covered(pending))'
    BY <1>6, <2>2 DEF Covered, Wanted
  <2>4. QED
    BY <1>8, <2>3 DEF Backed
<1>12. LedgerInv'
  BY <1>7, <1>11, LedgerOn
<1>13. PICK D : D = {"place", "verify"}
  OBVIOUS
<1>14. "move" \notin D /\ \A d : Follows(Phase(Head(todo)), d) => d \in D \cup {"fail"}
  BY <1>13 DEF Follows, Followers
<1>15. ASSUME NEW d \in D
       PROVE  Fact(d)'
  BY <1>7, <1>8, <1>13 DEF Fact
<1>16. QED
  BY <1>9, <1>12, <1>14, <1>15, OperationOn

\* The cleanup record is one more name of the pending record.
LEMMA CleanupLinked ==
    ASSUME Inv, SuccessInv, Here("link"), Head(todo)[2] = Pending, Head(todo)[4] = Cleanup,
           NEW y, fs' \in Linked(Pending, y, Cleanup), todo' = Tail(todo),
           UNCHANGED <<run, calm, result>>, ApartInv',
           fs'[Cleanup] = fs[Pending], \A n \in Names : n # Cleanup => fs'[n] = fs[n]
    PROVE  SuccessInv'
PROOF
<1>1. Running /\ Head(todo)[1] = "link" /\ Head(todo)[1] \in OperationNamed
  BY DEF Here, OperationNamed
<1>2. /\ Head(todo)[1] \notin Ends /\ Head(todo)[1] # "load"
      /\ Phase(Head(todo)) = "record cleanup"
  <2>1. /\ Head(todo)[1] \notin Ends /\ Head(todo)[1] # "load"
        /\ Phase(Head(todo)) = NewPhase(Cleanup)
    BY <1>1, OperationPhases
  <2>2. NewPhase(Cleanup) = "record cleanup"
    BY NameKind DEF NewPhase
  <2>3. QED
    BY <2>1, <2>2
<1>3. Fact("record cleanup")
  BY <1>1, <1>2, OnTheWay
<1>4. /\ Exists(Record) /\ Holds(Record, RecordOf(pending))
      /\ Finishing /\ calm => Arrived
  BY <1>3 DEF Fact
<1>5. SameFile(Pending, y) /\ Vacant(Cleanup)
  BY DEF Linked, Only
<1>6. Record = Pending /\ Exists(Pending)
  BY <1>5 DEF Record, Vacant, SameFile
<1>7. Pending # Cleanup /\ Inventory # Cleanup /\ \A n : Kind(n) = "artifact" => n # Cleanup
  BY NameKind
<1>8. /\ fs'[Inventory] = fs[Inventory]
      /\ \A n \in Names : Kind(n) = "artifact" => fs'[n] = fs[n]
  BY <1>7, LoudNames
<1>9. pending' = pending /\ calm' = calm
  BY DEF run
<1>10. (Exists(Record) /\ Holds(Record, RecordOf(pending)))'
  BY <1>4, <1>6, <1>9 DEF Record, Exists, Holds
<1>11. /\ Ours' = Ours /\ HiddenInv'
       /\ Wanted(pending) \subseteq Artifacts => (Arrived' <=> Arrived)
  BY <1>8, <1>9, ArtifactsKept DEF SuccessInv
<1>12. Arrived' <=> Arrived
  BY <1>4, <1>11, OnTransaction
<1>13. Backed(pending)'
  <2>1. Backed(pending)
    BY <1>4, OnRecord DEF SuccessInv
  <2>2. Switched(pending)' <=> Switched(pending)
    BY <1>8, <1>9 DEF Switched, Holds
  <2>3. QED
    BY <1>9, <1>11, <2>1, <2>2 DEF Backed, Covered, Wanted
<1>14. LedgerInv'
  BY <1>10, <1>13, LedgerOn
<1>15. PICK D : D = {"mark"}
  OBVIOUS
<1>16. "move" \notin D /\ \A d : Follows(Phase(Head(todo)), d) => d \in D \cup {"fail"}
  BY <1>2, <1>15 DEF Follows, Followers
<1>17. ASSUME Finishing' <=> Finishing, NEW d \in D
       PROVE  Fact(d)'
  <2>1. Finishing' /\ calm' => Arrived'
    BY <1>4, <1>9, <1>12, <1>17
  <2>2. QED
    BY <1>10, <1>15, <2>1 DEF Fact
<1>18. QED
  BY <1>1, <1>2, <1>11, <1>14, <1>16, <1>17, OperationOn

\* A file gets one more name.
LEMMA LinkOn ==
    ASSUME Inv, SuccessInv, Here("link"), NEW x, NEW y, NEW z,
           x = Head(todo)[2], y = Head(todo)[3], z = Head(todo)[4],
           fs' \in Linked(x, y, z), todo' = Tail(todo), UNCHANGED <<run, calm, result>>
    PROVE  SuccessInv'
PROOF
<1>1. Running /\ Head(todo)[1] = "link" /\ Head(todo)[1] \in OperationNamed
  BY DEF Here, OperationNamed
<1>2. /\ Head(todo)[1] \notin Ends /\ Head(todo)[1] # "load"
      /\ Phase(Head(todo)) = NewPhase(z)
  BY <1>1, OperationPhases
<1>3. Head(todo) \in Steps(pending) /\ Fits(Head(todo), pending)
  BY <1>1, <1>2, OnTheWay
<1>4. x \in Names /\ z \in Names
  BY <1>1, <1>3, OperationCases DEF FileNames
<1>5. /\ Kind(x) \in ArtifactKinds <=> Kind(z) \in ArtifactKinds
      /\ \/ Plain(z)
         \/ x = Pending /\ z = Cleanup
         \/ \E a \in Wanted(pending) : z = Target(a)
  BY <1>1, <1>3 DEF Fits, LinkFits
<1>6. SoundTree(fs) /\ DOMAIN fs = Names
  BY DEF Inv, TreeInv, SoundTree, Tree
<1>7. fs' = [fs EXCEPT ![z] = fs[x]]
  BY DEF Linked, Only
<1>8. fs'[z] = fs[x] /\ \A n \in Names : n # z => fs'[n] = fs[n]
  BY <1>4, <1>6, <1>7
<1>9. ApartInv'
  BY <1>4, <1>5, <1>6, <1>8, ApartKept DEF SuccessInv
<1>10. CASE Plain(z)
  <2>1. Quiet
    BY <1>8, <1>10 DEF Quiet
  <2>2. Phase(Head(todo)) \in Loops \cup {"prove record"}
    BY <1>2, <1>10, PlainPhases
  <2>3. QED
    BY <1>1, <1>2, <1>9, <2>1, <2>2, QuietOn
<1>11. CASE x = Pending /\ z = Cleanup
  BY <1>8, <1>9, <1>11, CleanupLinked
<1>12. CASE \E a \in Wanted(pending) : z = Target(a)
  <2>1. PICK a \in Wanted(pending) : z = Target(a)
    BY <1>12
  <2>2. a \in Covered(pending)
    BY DEF Covered
  <2>3. Phase(Head(todo)) = "place"
    BY <1>2, <2>1, NamePhases
  <2>4. \A n \in Names : n # Target(a) /\ n # Owned("quarantine", a) => fs'[n] = fs[n]
    BY <1>8, <2>1
  <2>5. QED
    BY <1>1, <1>2, <1>9, <2>2, <2>3, <2>4, PlacedOn
<1>13. QED
  BY <1>5, <1>10, <1>11, <1>12

\* The pending record gets its name.
LEMMA RecordPublished ==
    ASSUME Inv, SuccessInv, Here("rename"), Head(todo)[2] = Temporary, Head(todo)[3] = Pending,
           todo' = Tail(todo), UNCHANGED <<run, calm, result>>, ApartInv',
           fs'[Pending] = fs[Temporary], Exists(Temporary),
           \A n \in Names : n # Temporary /\ n # Pending => fs'[n] = fs[n]
    PROVE  SuccessInv'
PROOF
<1>1. Running /\ Head(todo)[1] = "rename" /\ Head(todo)[1] \in OperationNamed
  BY DEF Here, OperationNamed
<1>2. /\ Head(todo)[1] \notin Ends /\ Head(todo)[1] # "load"
      /\ Phase(Head(todo)) = "publish"
  <2>1. /\ Head(todo)[1] \notin Ends /\ Head(todo)[1] # "load"
        /\ Phase(Head(todo)) = RenamePhase(Temporary)
    BY <1>1, OperationPhases
  <2>2. RenamePhase(Temporary) = "publish"
    BY NameKind DEF RenamePhase
  <2>3. QED
    BY <2>1, <2>2
<1>3. Fact("publish")
  BY <1>1, <1>2, OnTheWay
<1>4. /\ NoRecord /\ Finishing /\ Ours \subseteq Covered(pending)
      /\ Holds(Temporary, RecordOf(pending)) /\ ~Switched(pending)
  BY <1>3 DEF Fact
<1>5. /\ \A n \in {Cleanup, Inventory} : n # Temporary /\ n # Pending
      /\ \A n : Kind(n) = "artifact" => n # Temporary /\ n # Pending
  BY NameKind
<1>6. /\ fs'[Cleanup] = fs[Cleanup] /\ fs'[Inventory] = fs[Inventory]
      /\ \A n \in Names : Kind(n) = "artifact" => fs'[n] = fs[n]
  BY <1>5, LoudNames
<1>7. pending' = pending
  BY DEF run
<1>8. (Exists(Record) /\ Holds(Record, RecordOf(pending)))'
  BY <1>4, <1>6, <1>7 DEF NoRecord, Record, Exists, Holds
<1>9. Ours' = Ours /\ HiddenInv'
  BY <1>6, ArtifactsKept DEF SuccessInv
<1>10. ~Switched(pending)'
  BY <1>4, <1>6, <1>7 DEF Switched, Holds
<1>11. Backed(pending)'
  BY <1>4, <1>7, <1>9, <1>10 DEF Backed, Covered, Wanted
<1>12. LedgerInv'
  BY <1>8, <1>11, LedgerOn
<1>13. PICK D : D = {"apply"}
  OBVIOUS
<1>14. "move" \notin D /\ \A d : Follows(Phase(Head(todo)), d) => d \in D \cup {"fail"}
  BY <1>2, <1>13 DEF Follows, Followers
<1>15. ASSUME NEW d \in D
       PROVE  Fact(d)'
  BY <1>8, <1>10, <1>13 DEF Fact
<1>16. QED
  BY <1>1, <1>2, <1>9, <1>12, <1>14, <1>15, OperationOn

\* A control gets its name, or loses it.
LEMMA ControlRenamed ==
    ASSUME Inv, SuccessInv, Here("rename"), NEW x, NEW y, x = Head(todo)[2], y = Head(todo)[3],
           Kind(x) \in {"control", "temporary"}, Kind(y) \in {"control", "control-quarantine"},
           todo' = Tail(todo), UNCHANGED <<run, calm, result>>, ApartInv',
           \A n \in Names : n # x /\ n # y => fs'[n] = fs[n]
    PROVE  SuccessInv'
PROOF
<1>1. Running /\ Head(todo)[1] = "rename" /\ Head(todo)[1] \in OperationNamed
  BY DEF Here, OperationNamed
<1>2. /\ Head(todo)[1] \notin Ends /\ Head(todo)[1] # "load"
      /\ Phase(Head(todo)) = "switch"
  <2>1. /\ Head(todo)[1] \notin Ends /\ Head(todo)[1] # "load"
        /\ Phase(Head(todo)) = RenamePhase(x)
    BY <1>1, OperationPhases
  <2>2. RenamePhase(x) = "switch"
    BY DEF RenamePhase
  <2>3. QED
    BY <2>1, <2>2
<1>3. Fact("switch")
  BY <1>1, <1>2, OnTheWay
<1>4. /\ Exists(Record) /\ Holds(Record, RecordOf(pending)) /\ Ours \subseteq Wanted(pending)
      /\ Finishing /\ calm => Arrived
  BY <1>3 DEF Fact
<1>5. /\ \A n \in {Pending, Cleanup} : n # x /\ n # y
      /\ \A n : Kind(n) = "artifact" => n # x /\ n # y
  BY NameKind
<1>6. /\ fs'[Pending] = fs[Pending] /\ fs'[Cleanup] = fs[Cleanup]
      /\ \A n \in Names : Kind(n) = "artifact" => fs'[n] = fs[n]
  BY <1>5, LoudNames
<1>7. PICK p : p = pending
  OBVIOUS
<1>8. pending' = p /\ calm' = calm
  BY <1>7 DEF run
<1>9. (Exists(Record) /\ Holds(Record, RecordOf(pending)))'
  <2>1. Exists(Record)' /\ Holds(Record, RecordOf(p))'
    BY <1>4, <1>6, <1>7, RecordsKept
  <2>2. QED
    BY <1>8, <2>1 DEF Holds
<1>10. /\ Ours' = Ours /\ HiddenInv'
       /\ Wanted(pending) \subseteq Artifacts => (Arrived' <=> Arrived)
  BY <1>6, <1>7, <1>8, ArtifactsKept DEF SuccessInv
<1>11. Arrived' <=> Arrived
  BY <1>4, <1>10, OnTransaction
<1>12. (Ours \subseteq Wanted(pending))'
  BY <1>4, <1>7, <1>8, <1>10 DEF Wanted
<1>13. Backed(pending)'
  BY <1>12 DEF Backed, Covered
<1>14. LedgerInv'
  BY <1>9, <1>13, LedgerOn
<1>15. PICK D : D = {"switch", "mark", "resume"}
  OBVIOUS
<1>16. "move" \notin D /\ \A d : Follows(Phase(Head(todo)), d) => d \in D \cup {"fail"}
  BY <1>2, <1>15 DEF Follows, Followers
<1>17. ASSUME Finishing' <=> Finishing, NEW d \in D
       PROVE  Fact(d)'
  <2>1. Finishing' /\ calm' => Arrived'
    BY <1>4, <1>8, <1>11, <1>17
  <2>2. QED
    BY <1>9, <1>12, <1>15, <2>1 DEF Fact
<1>18. QED
  BY <1>1, <1>2, <1>10, <1>14, <1>16, <1>17, OperationOn

\* A file gets another name.
LEMMA RenameOn ==
    ASSUME Inv, SuccessInv, Here("rename"), NEW x, NEW y,
           x = Head(todo)[2], y = Head(todo)[3],
           fs' \in Renamed(x, y), todo' = Tail(todo), UNCHANGED <<run, calm, result>>
    PROVE  SuccessInv'
PROOF
<1>1. Running /\ Head(todo)[1] = "rename" /\ Head(todo)[1] \in OperationNamed
  BY DEF Here, OperationNamed
<1>2. /\ Head(todo)[1] \notin Ends /\ Head(todo)[1] # "load"
      /\ Phase(Head(todo)) = RenamePhase(x)
  BY <1>1, OperationPhases
<1>3. Head(todo) \in Steps(pending) /\ Fits(Head(todo), pending)
  BY <1>1, <1>2, OnTheWay
<1>4. x \in Names /\ y \in Names
  BY <1>1, <1>3, OperationCases DEF FileNames
<1>5. /\ Kind(x) \in ArtifactKinds <=> Kind(y) \in ArtifactKinds
      /\ \/ Plain(x) /\ Plain(y)
         \/ x = Temporary /\ y = Pending
         \/ /\ Kind(x) \in {"control", "temporary"}
            /\ Kind(y) \in {"control", "control-quarantine"}
         \/ \E a \in Covered(pending) : \/ x = Target(a) /\ y = Owned("quarantine", a)
                                        \/ x = Owned("quarantine", a) /\ y = Target(a)
  BY <1>1, <1>3 DEF Fits, RenameFits
<1>6. SoundTree(fs) /\ DOMAIN fs = Names
  BY DEF Inv, TreeInv, SoundTree, Tree
<1>7. fs' = [fs EXCEPT ![y] = fs[x], ![x] = Absent] /\ Exists(x) /\ ~Exists(y)
  BY DEF Renamed, Only, Vacant
<1>8. x # y
  BY <1>7
<1>9. /\ fs'[y] = fs[x] /\ fs'[x] = Absent
      /\ \A n \in Names : n # x /\ n # y => fs'[n] = fs[n]
  BY <1>4, <1>6, <1>7, <1>8
<1>10. ApartInv'
  BY <1>4, <1>5, <1>6, <1>9, ApartKept DEF SuccessInv
<1>11. CASE Plain(x) /\ Plain(y)
  <2>1. Quiet
    BY <1>9, <1>11 DEF Quiet
  <2>2. Phase(Head(todo)) \in Loops \cup {"prove record"}
    BY <1>2, <1>11, PlainPhases
  <2>3. QED
    BY <1>1, <1>2, <1>10, <2>1, <2>2, QuietOn
<1>12. CASE x = Temporary /\ y = Pending
  BY <1>7, <1>9, <1>10, <1>12, RecordPublished
<1>13. CASE /\ Kind(x) \in {"control", "temporary"}
            /\ Kind(y) \in {"control", "control-quarantine"}
  BY <1>9, <1>10, <1>13, ControlRenamed
<1>14. CASE \E a \in Covered(pending) : \/ x = Target(a) /\ y = Owned("quarantine", a)
                                        \/ x = Owned("quarantine", a) /\ y = Target(a)
  <2>1. PICK a \in Covered(pending) : \/ x = Target(a) /\ y = Owned("quarantine", a)
                                      \/ x = Owned("quarantine", a) /\ y = Target(a)
    BY <1>14
  <2>2. Phase(Head(todo)) = "place"
    BY <1>2, <2>1, NamePhases
  <2>3. \A n \in Names : n # Target(a) /\ n # Owned("quarantine", a) => fs'[n] = fs[n]
    BY <1>9, <2>1
  <2>4. QED
    BY <1>1, <1>2, <1>10, <2>2, <2>3, PlacedOn
<1>15. QED
  BY <1>5, <1>11, <1>12, <1>13, <1>14

\* What a directory that moves takes with it.
LEMMA MoveEffects ==
    ASSUME SoundTree(fs), NEW d \in Directories, NEW from \in Places(d), NEW to \in Places(d),
           from # to, fs' \in DirectoryRenamed(from, to)
    PROVE  /\ from \in Names /\ to \in Names /\ fs'[to] = fs[from] /\ fs'[from] = Absent
           /\ \A n \in Names : n[1] = to[2] =>
                 <<from[2], n[2]>> \in Names /\ fs'[n] = fs[<<from[2], n[2]>>]
           /\ \A n \in Names : n[1] = from[2] => fs'[n] = Absent
           /\ \A n \in Names : n \notin {from, to} /\ n[1] \notin {from[2], to[2]}
                 => fs'[n] = fs[n]
PROOF
<1>1. DOMAIN fs = Names
  BY DEF SoundTree, Tree
<1>2. fs' = [n \in Names |->
                CASE n = to                     -> fs[from]
                  [] n[1] = to[2]               -> fs[<<from[2], n[2]>>]
                  [] n = from \/ n[1] = from[2] -> Absent
                  [] OTHER                      -> fs[n]]
  BY <1>1 DEF DirectoryRenamed, Only
<1>3. to \in Names /\ from \in Names
  BY PlaceNames DEF DirectoryNames
<1>4. to[2] # from[2] /\ to[2] \notin {Root, Ownership} /\ from[2] \notin {Root, Ownership}
  BY <1>3, PlaceContents
<1>5. to[1] \in {Root, Ownership} /\ from[1] \in {Root, Ownership}
  BY PlaceCases
<1>6. fs'[to] = fs[from] /\ fs'[from] = Absent
  BY <1>2, <1>3, <1>4, <1>5
<1>7. ASSUME NEW n \in Names, n[1] = to[2]
      PROVE  <<from[2], n[2]>> \in Names /\ fs'[n] = fs[<<from[2], n[2]>>]
  <2>1. n # to /\ n # from /\ n[1] # from[2]
    BY <1>4, <1>5, <1>7
  <2>2. <<from[2], n[2]>> \in Names
    BY <1>7, PlaceContents
  <2>3. QED
    BY <1>2, <1>7, <2>1, <2>2
<1>8. ASSUME NEW n \in Names, n[1] = from[2]
      PROVE  fs'[n] = Absent
  BY <1>2, <1>4, <1>5, <1>8
<1>9. ASSUME NEW n \in Names, n \notin {from, to}, n[1] \notin {from[2], to[2]}
      PROVE  fs'[n] = fs[n]
  BY <1>2, <1>9
<1>10. QED
  BY <1>3, <1>6, <1>7, <1>8, <1>9

\* A directory moves.
LEMMA MoveOn ==
    ASSUME Inv, SuccessInv, Here("move"), NEW x, NEW y, x = Head(todo)[2], y = Head(todo)[3],
           fs' \in DirectoryRenamed(x, y), todo' = Tail(todo), UNCHANGED <<run, calm, result>>
    PROVE  SuccessInv'
PROOF
<1>1. Running /\ Head(todo)[1] = "move" /\ Head(todo)[1] \in OperationNamed
  BY DEF Here, OperationNamed
<1>2. /\ Head(todo)[1] \notin Ends /\ Head(todo)[1] # "load"
      /\ Phase(Head(todo)) = "move"
  BY <1>1, OperationPhases
<1>3. Fits(Head(todo), pending) /\ Fact("move")
  BY <1>1, <1>2, OnTheWay
<1>4. PICK d \in Directories : \/ x = Directory(d) /\ y = Quarantined(d)
                               \/ x \in {Preparation(d), Quarantined(d)} /\ y = Directory(d)
  BY <1>1, <1>3 DEF Fits, MoveFits
<1>5. SoundTree(fs)
  BY DEF Inv, TreeInv
<1>6. /\ Kind(Directory(d)) = "directory" /\ Kind(Preparation(d)) = "preparation"
      /\ Kind(Quarantined(d)) = "directory-quarantine"
  BY NameKind
<1>7. x \in Places(d) /\ y \in Places(d) /\ x # y
  BY <1>4, <1>6 DEF Places
<1>8. Kind(x) \in {"directory", "preparation", "directory-quarantine"}
      /\ Kind(y) \in {"directory", "preparation", "directory-quarantine"}
  BY <1>4, <1>6
<1>9. /\ x \in Names /\ y \in Names /\ fs'[y] = fs[x] /\ fs'[x] = Absent
      /\ \A n \in Names : n[1] = y[2] =>
            <<x[2], n[2]>> \in Names /\ fs'[n] = fs[<<x[2], n[2]>>]
      /\ \A n \in Names : n[1] = x[2] => fs'[n] = Absent
      /\ \A n \in Names : n \notin {x, y} /\ n[1] \notin {x[2], y[2]} => fs'[n] = fs[n]
  BY <1>4, <1>5, <1>7, MoveEffects
<1>10. ApartInv'
  <2>1. ASSUME NEW n \in Names
        PROVE  \/ fs'[n] = Absent
               \/ \E m \in Names : /\ fs'[n] = fs[m]
                                   /\ Kind(n) \in ArtifactKinds <=> Kind(m) \in ArtifactKinds
    <3>1. CASE n[1] = y[2]
      <4>1. PICK m : m = <<x[2], n[2]>>
        OBVIOUS
      <4>2. m \in Names /\ fs'[n] = fs[m] /\ Kind(m) = Kind(n)
        BY <1>9, <3>1, <4>1 DEF Kind
      <4>3. QED
        BY <4>2
    <3>2. CASE n = y
      <4>1. Kind(x) \notin ArtifactKinds /\ Kind(y) \notin ArtifactKinds
        BY <1>8 DEF ArtifactKinds
      <4>2. QED
        BY <1>9, <3>2, <4>1
    <3>3. CASE n = x \/ n[1] = x[2]
      BY <1>9, <3>3
    <3>4. CASE n \notin {x, y} /\ n[1] \notin {x[2], y[2]}
      BY <1>9, <3>4
    <3>5. QED
      BY <3>1, <3>2, <3>3, <3>4
  <2>2. QED
    BY <1>5, <2>1, ApartKept DEF SuccessInv
<1>11. fs'[Pending] = fs[Pending] /\ fs'[Cleanup] = fs[Cleanup] /\ fs'[Inventory] = fs[Inventory]
  <2>1. \A n \in {Pending, Cleanup, Inventory} : n[1] = Root /\ n \notin {x, y}
    <3>1. Kind(Pending) = "pending" /\ Kind(Cleanup) = "cleanup" /\ Kind(Inventory) = "control"
      BY NameKind
    <3>2. Pending[1] = Root /\ Cleanup[1] = Root /\ Inventory[1] = Root
      BY DEF Pending, Cleanup, Inventory, Reserved
    <3>3. QED
      BY <1>8, <3>1, <3>2
  <2>2. x[2] # Root /\ y[2] # Root
    BY <1>7, <1>9, PlaceContents
  <2>3. QED
    BY <1>9, <2>1, <2>2, LoudNames
<1>12. \A n \in Names : Kind(n) = "artifact" => n \notin {x, y}
  BY <1>8
<1>13. \A a \in Artifacts : Target(a)[1] # Preparation(d)[2] /\ Target(a)[1] # Quarantined(d)[2]
  BY TargetParents
\* Whatever moves below an artifact's name is a user's.
<1>14. ASSUME NEW n \in Names, Kind(n) = "artifact", n[1] = y[2], fs'[n] # Absent
       PROVE  fs'[n].data = UserBytes
  <2>1. PICK m : m = <<x[2], n[2]>>
    OBVIOUS
  <2>2. m \in Names /\ fs'[n] = fs[m] /\ Kind(m) = "artifact" /\ m[1] = x[2]
    BY <1>9, <1>14, <2>1 DEF Kind
  <2>3. CASE \A a \in Artifacts : m # Target(a)
    BY <1>14, <2>2, <2>3 DEF SuccessInv, HiddenInv, Exists, Holds
  <2>4. CASE \E a \in Artifacts : m = Target(a)
    <3>1. PICK a \in Artifacts : m = Target(a)
      BY <2>4
    <3>2. a \notin Ours
      BY <1>1, <2>2, <3>1 DEF SuccessInv, MoveInv
    <3>3. QED
      BY <1>14, <2>2, <3>1, <3>2 DEF Ours, Exists, Holds
  <2>5. QED
    BY <2>3, <2>4
<1>15. Ours' \subseteq Ours
  <2> SUFFICES ASSUME NEW a \in Artifacts, fs'[Target(a)] # Absent,
                      fs'[Target(a)].data # UserBytes
               PROVE  a \in Ours
    BY DEF Ours, Exists, Holds
  <2>1. Target(a) \in Names /\ Kind(Target(a)) = "artifact"
    BY LoudNames, NameKind
  <2>2. Target(a)[1] # y[2] /\ Target(a)[1] # x[2]
    BY <1>9, <1>14, <2>1
  <2>3. fs'[Target(a)] = fs[Target(a)]
    BY <1>9, <1>12, <2>1, <2>2
  <2>4. QED
    BY <2>3 DEF Ours, Exists, Holds
<1>16. HiddenInv'
  <2> SUFFICES ASSUME NEW n \in Names, Kind(n) = "artifact", fs'[n] # Absent,
                      \A a \in Artifacts : n # Target(a)
               PROVE  fs'[n].data = UserBytes
    BY DEF HiddenInv, Exists, Holds
  <2>1. CASE n[1] = y[2]
    BY <1>14, <2>1
  <2>2. CASE n[1] # y[2]
    <3>1. fs'[n] = fs[n]
      BY <1>9, <1>12, <2>2
    <3>2. QED
      BY <3>1 DEF SuccessInv, HiddenInv, Exists, Holds
  <2>3. QED
    BY <2>1, <2>2
<1>17. LedgerInv'
  BY <1>11, <1>15, LedgerKept
<1>18. Exists(Record) /\ Holds(Record, RecordOf(pending)) /\ ~Switched(pending)
  BY <1>3 DEF Fact
<1>19. PICK p : p = pending
  OBVIOUS
<1>20. pending' = p
  BY <1>19 DEF run
<1>21. (Exists(Record) /\ Holds(Record, RecordOf(pending)))'
  <2>1. Exists(Record)' /\ Holds(Record, RecordOf(p))'
    BY <1>11, <1>18, <1>19, RecordsKept
  <2>2. QED
    BY <1>20, <2>1 DEF Holds
<1>22. ~Switched(pending)'
  BY <1>11, <1>18, <1>19, <1>20 DEF Switched, Holds
<1>23. PICK D : D = {"place", "verify"}
  OBVIOUS
<1>24. "move" \notin D /\ \A e : Follows(Phase(Head(todo)), e) => e \in D \cup {"fail"}
  BY <1>2, <1>23 DEF Follows, Followers
<1>25. ASSUME NEW e \in D
       PROVE  Fact(e)'
  BY <1>21, <1>22, <1>23 DEF Fact
<1>26. QED
  BY <1>1, <1>2, <1>10, <1>16, <1>17, <1>24, <1>25, OperationOn

\* Where a synchronisation ends without success the tree is all that counts.
LEMMA StoppedOn ==
    ASSUME todo' = <<>>, result' # "done", LedgerInv', ApartInv', HiddenInv'
    PROVE  SuccessInv'
PROOF
<1>1. ~Running'
  BY DEF Running
<1>2. PathInv' /\ AimInv' /\ FactInv' /\ MoveInv'
  BY <1>1 DEF PathInv, AimInv, Finishing, FactInv, MoveInv
<1>3. OutcomeInv'
  BY DEF OutcomeInv, SuccessIsDesired
<1>4. QED
  BY <1>2, <1>3 DEF SuccessInv

\* A file operation is carried out or refused.
LEMMA PerformOn ==
    ASSUME SuccessInv, NEW trees, Perform(trees),
           fs' \in trees /\ todo' = Tail(todo) /\ UNCHANGED <<run, calm, result>> => SuccessInv'
    PROVE  SuccessInv'
PROOF
<1>1. CASE trees = {}
  <2>1. todo' = <<>> /\ result' # "done" /\ UNCHANGED fs
    BY <1>1 DEF Perform
  <2>2. LedgerInv' /\ ApartInv' /\ HiddenInv'
    BY <2>1, SameTree
  <2>3. QED
    BY <2>1, <2>2, StoppedOn
<1>2. CASE trees # {}
  BY <1>2 DEF Perform
<1>3. QED
  BY <1>1, <1>2

\* Every file operation keeps the invariant.
LEMMA FileOperationOn ==
    ASSUME Inv, SuccessInv, FileOperation
    PROVE  SuccessInv'
PROOF
<1>1. PICK op : op = Head(todo)
  OBVIOUS
<1>2. CASE Here("create") /\ Perform(Created(op[2], op[3]))
  BY <1>1, <1>2, PerformOn, CreateOn
<1>3. CASE Here("link") /\ Perform(Linked(op[2], op[3], op[4]))
  BY <1>1, <1>3, PerformOn, LinkOn
<1>4. CASE Here("rename") /\ Perform(Renamed(op[2], op[3]))
  BY <1>1, <1>4, PerformOn, RenameOn
<1>5. CASE Here("move") /\ Perform(DirectoryRenamed(op[2], op[3]))
  BY <1>1, <1>5, PerformOn, MoveOn
<1>6. CASE Here("unlink") /\ Perform(Removed(op[2], op[3]))
  BY <1>1, <1>6, PerformOn, UnlinkOn
<1>7. CASE Here("discard") /\ Perform(Discarded(op[2], op[3]))
  BY <1>1, <1>7, PerformOn, DiscardOn
<1>8. CASE Here("rmdir") /\ Perform(DirectoryRemoved(op[2]))
  BY <1>1, <1>8, PerformOn, RmdirOn
<1>9. CASE Here("fail") /\ Perform({})
  BY <1>9, PerformOn
<1>10. QED
  BY <1>1, <1>2, <1>3, <1>4, <1>5, <1>6, <1>7, <1>8, <1>9 DEF FileOperation

-----------------------------------------------------------------------------
(* Crashes and users *)

\* A file that was being written is left incomplete.
LEMMA CrashOn ==
    ASSUME Inv, SuccessInv, Crash
    PROVE  SuccessInv'
PROOF
<1>1. todo' = <<>> /\ result' # "done"
  BY DEF Crash
<1>2. CASE UNCHANGED fs
  <2>1. LedgerInv' /\ ApartInv' /\ HiddenInv'
    BY <1>2, SameTree
  <2>2. QED
    BY <1>1, <2>1, StoppedOn
<1>3. CASE Here("create") /\ fs' \in Created(Head(todo)[2], <<"partial">>)
  <2>1. PICK x : x = Head(todo)[2]
    OBVIOUS
  <2>2. Running /\ Head(todo)[1] = "create" /\ Head(todo)[1] \in OperationNamed
    BY <1>3 DEF Here, OperationNamed
  <2>3. Head(todo)[1] # "load"
    BY <2>2
  <2>4. Head(todo) \in Steps(pending) /\ Fits(Head(todo), pending)
    BY <2>2, <2>3, OnTheWay
  <2>5. Plain(x) \/ x = Temporary
    BY <2>1, <2>2, <2>4 DEF Fits, CreateFits
  <2>6. x \in Names
    BY <2>1, <2>2, <2>4, OperationCases DEF FileNames, DirectoryNames
  <2>7. SoundTree(fs) /\ DOMAIN fs = Names
    BY DEF Inv, TreeInv, SoundTree, Tree
  <2>8. fs' = [fs EXCEPT ![x] = [id |-> Fresh, data |-> <<"partial">>]]
    BY <1>3, <2>1 DEF Created, Only
  <2>9. ApartInv'
    BY <2>6, <2>7, <2>8, ApartNew DEF SuccessInv
  <2>10. \A n \in Names : n # x => fs'[n] = fs[n]
    BY <2>7, <2>8
  <2>11. x # Pending /\ x # Cleanup /\ x # Inventory /\ \A n : Kind(n) = "artifact" => n # x
    <3>1. CASE Plain(x)
      BY <3>1, LoudNames
    <3>2. CASE x = Temporary
      BY <3>2, NameKind
    <3>3. QED
      BY <2>5, <3>1, <3>2
  <2>12. /\ fs'[Pending] = fs[Pending] /\ fs'[Cleanup] = fs[Cleanup]
         /\ fs'[Inventory] = fs[Inventory]
         /\ \A n \in Names : Kind(n) = "artifact" => fs'[n] = fs[n]
    BY <2>10, <2>11, LoudNames
  <2>13. Ours' = Ours /\ HiddenInv'
    BY <2>12, ArtifactsKept DEF SuccessInv
  <2>14. LedgerInv'
    BY <2>12, <2>13, LedgerKept
  <2>15. QED
    BY <1>1, <2>9, <2>13, <2>14, StoppedOn
<1>4. QED
  BY <1>2, <1>3 DEF Crash

\* What users change: nothing new is generated, and what the store records and uses for
\* its transactions stays.
LEMMA UsersOn ==
    ASSUME Inv, SuccessInv, UNCHANGED <<run, todo, result>>, calm' = FALSE, ApartInv', HiddenInv',
           Ours' \subseteq Ours,
           \A n \in {Pending, Cleanup, Inventory, Temporary} : fs'[n] = fs[n],
           \A n \in Transient : fs[n] = Absent => fs'[n] = Absent
    PROVE  SuccessInv'
PROOF
<1>1. /\ fs'[Pending] = fs[Pending] /\ fs'[Cleanup] = fs[Cleanup]
      /\ fs'[Inventory] = fs[Inventory] /\ fs'[Temporary] = fs[Temporary]
  OBVIOUS
<1>2. LedgerInv'
  BY <1>1, LedgerKept
<1>3. PICK p : p = pending
  OBVIOUS
<1>4. pending' = p /\ todo' = todo /\ desired' = desired
  BY <1>3 DEF run
<1>5. Finishing' <=> Finishing
  BY <1>4 DEF Finishing, Running
<1>6. PathInv' /\ AimInv'
  BY <1>3, <1>4, <1>5 DEF SuccessInv, PathInv, AimInv
<1>7. MoveInv'
  BY <1>4 DEF SuccessInv, MoveInv, Running
<1>8. OutcomeInv'
  BY DEF OutcomeInv, SuccessIsDesired
<1>9. ASSUME NEW c, Fact(c)
      PROVE  Fact(c)'
  <2>1. NoRecord' <=> NoRecord
    BY <1>1, RecordsKept
  <2>2. Exists(Record) /\ Holds(Record, RecordOf(pending))
           => (Exists(Record) /\ Holds(Record, RecordOf(pending)))'
    <3>1. /\ Exists(Record)' <=> Exists(Record)
          /\ Holds(Record, RecordOf(p))' <=> Holds(Record, RecordOf(p))
      BY <1>1, RecordsKept
    <3>2. QED
      BY <1>3, <1>4, <3>1 DEF Holds
  <2>3. Clear => Clear'
    BY <1>1 DEF Clear, Exists
  <2>4. Holds(Temporary, RecordOf(pending))' <=> Holds(Temporary, RecordOf(pending))
    BY <1>1, <1>3, <1>4 DEF Holds
  <2>5. Switched(pending)' <=> Switched(pending)
    BY <1>1, <1>3, <1>4 DEF Switched, Holds
  <2>6. Finishing /\ Ours \subseteq Covered(pending)
           => (Finishing /\ Ours \subseteq Covered(pending))'
    BY <1>3, <1>4, <1>5 DEF Covered, Wanted
  <2>7. Ours \subseteq Wanted(pending) => (Ours \subseteq Wanted(pending))'
    BY <1>3, <1>4 DEF Wanted
  <2>8. (Finishing => ~Switched(pending))' <=> (Finishing => ~Switched(pending))
    BY <1>5, <2>5
  <2>9. (Finishing /\ calm => Arrived)'
    OBVIOUS
  <2>10. QED
    BY <1>9, <2>1, <2>2, <2>3, <2>4, <2>5, <2>6, <2>7, <2>8, <2>9 DEF Fact
<1>10. FactInv'
  <2>1. PICK c : c = Phase(Head(todo))
    OBVIOUS
  <2>2. Running' => Running /\ Phase(Head(todo'))  = c
    BY <1>4, <2>1 DEF Running
  <2>3. Running => Fact(c)
    BY <2>1 DEF SuccessInv, FactInv
  <2>4. Running' => Fact(c)'
    BY <1>9, <2>2, <2>3
  <2>5. QED
    BY <2>2, <2>4 DEF FactInv
<1>11. QED
  BY <1>2, <1>6, <1>7, <1>8, <1>10 DEF SuccessInv

\* The names that users do not touch.
LEMMA UntouchedNames ==
    /\ \A n \in {Pending, Cleanup, Inventory, Temporary} :
          n \in Names /\ n[1] = Root /\ Kind(n) \notin ArtifactKinds /\ Kind(n) # "directory"
    /\ \A n \in Transient :
          n \in Names /\ n[1] \in {Root, Ownership} /\ Kind(n) \notin {"artifact", "directory"}
PROOF
<1>1. /\ Kind(Pending) = "pending" /\ Kind(Cleanup) = "cleanup" /\ Kind(Inventory) = "control"
      /\ Kind(Temporary) = "pending-temporary"
  BY NameKind
<1>2. /\ Pending[1] = Root /\ Cleanup[1] = Root /\ Inventory[1] = Root /\ Temporary[1] = Root
  BY DEF Pending, Cleanup, Inventory, Temporary, Reserved
<1>3. \A n \in Transient :
          n \in Names /\ n[1] \in {Root, Ownership} /\ Kind(n) \notin {"artifact", "directory"}
  BY DEF Transient, Kind
<1>4. QED
  BY <1>1, <1>2, <1>3, LoudNames DEF ArtifactKinds

\* A user edits a file in place.
LEMMA EditOn ==
    ASSUME Inv, SuccessInv, NEW a \in Artifacts, EditArtifact(a)
    PROVE  SuccessInv'
PROOF
<1>1. UNCHANGED <<run, todo, result>> /\ calm' = FALSE
  BY DEF EditArtifact, Changes
<1>2. /\ Exists(Target(a))
      /\ fs' = [n \in Names |-> IF SameFile(n, Target(a)) THEN [fs[n] EXCEPT !.data = UserBytes]
                                ELSE fs[n]]
  BY DEF EditArtifact, Changes
<1>3. fs \in [Names -> [id : 0 .. Cardinality(Names) + 1, data : Data]]
  BY DEF Inv, TreeInv, SoundTree, Tree
<1>4. ASSUME NEW n \in Names
      PROVE  /\ fs'[n].id = fs[n].id /\ (fs'[n] = Absent <=> fs[n] = Absent)
             /\ fs'[n] = fs[n] \/ (fs'[n].data = UserBytes /\ SameFile(n, Target(a)))
  <2>1. CASE SameFile(n, Target(a))
    <3>1. fs'[n] = [fs[n] EXCEPT !.data = UserBytes] /\ fs[n] # Absent
      BY <1>2, <2>1 DEF SameFile, Exists
    <3>2. fs[n] \in [id : 0 .. Cardinality(Names) + 1, data : Data]
      BY <1>3
    <3>3. fs'[n].id = fs[n].id /\ fs'[n].data = UserBytes
      BY <3>1, <3>2
    <3>4. fs'[n] # Absent
      BY <3>3 DEF Absent, UserBytes
    <3>5. QED
      BY <2>1, <3>1, <3>3, <3>4
  <2>2. CASE ~SameFile(n, Target(a))
    BY <1>2, <2>2
  <2>3. QED
    BY <2>1, <2>2
<1>5. ApartInv'
  BY <1>4 DEF SuccessInv, ApartInv, SameFile, Exists
<1>6. \A n \in Names : Kind(n) \notin ArtifactKinds => fs'[n] = fs[n]
  <2>1. Target(a) \in Names /\ Kind(Target(a)) \in ArtifactKinds
    BY LoudNames, NameKind DEF ArtifactKinds
  <2>2. QED
    BY <1>4, <2>1 DEF SuccessInv, ApartInv
<1>7. HiddenInv'
  BY <1>4 DEF SuccessInv, HiddenInv, Exists, Holds
<1>8. Ours' \subseteq Ours
  BY <1>4, LoudNames DEF Ours, Exists, Holds
<1>9. \A n \in {Pending, Cleanup, Inventory, Temporary} : fs'[n] = fs[n]
  BY <1>6, UntouchedNames
<1>10. \A n \in Transient : fs[n] = Absent => fs'[n] = Absent
  BY <1>4, UntouchedNames
<1>11. QED
  BY <1>1, <1>5, <1>7, <1>8, <1>9, <1>10, UsersOn

\* A user saves or deletes a file.
LEMMA SaveOn ==
    ASSUME Inv, SuccessInv, NEW a \in Artifacts, SaveArtifact(a) \/ DeleteArtifact(a)
    PROVE  SuccessInv'
PROOF
<1>1. UNCHANGED <<run, todo, result>> /\ calm' = FALSE
  BY DEF SaveArtifact, DeleteArtifact, Changes
<1>2. SoundTree(fs) /\ DOMAIN fs = Names
  BY DEF Inv, TreeInv, SoundTree, Tree
<1>3. PICK x : x = Target(a)
  OBVIOUS
<1>4. x \in Names /\ Kind(x) = "artifact"
  BY <1>3, LoudNames, NameKind
<1>5. \/ fs' = [fs EXCEPT ![x] = [id |-> Fresh, data |-> UserBytes]]
      \/ fs' = [fs EXCEPT ![x] = Absent]
  BY <1>3 DEF SaveArtifact, DeleteArtifact, Changes
<1>6. ApartInv'
  BY <1>2, <1>4, <1>5, ApartNew, GoneState DEF SuccessInv
<1>7. /\ \A n \in Names : n # x => fs'[n] = fs[n]
      /\ fs'[x] = Absent \/ fs'[x].data = UserBytes
  BY <1>2, <1>4, <1>5
<1>8. HiddenInv'
  BY <1>7 DEF SuccessInv, HiddenInv, Exists, Holds
<1>9. Ours' \subseteq Ours
  BY <1>7, LoudNames DEF Ours, Exists, Holds
<1>10. \A n \in {Pending, Cleanup, Inventory, Temporary} : fs'[n] = fs[n]
  BY <1>4, <1>7, UntouchedNames DEF ArtifactKinds
<1>11. \A n \in Transient : fs[n] = Absent => fs'[n] = Absent
  BY <1>4, <1>7, UntouchedNames
<1>12. QED
  BY <1>1, <1>6, <1>8, <1>9, <1>10, <1>11, UsersOn

\* A user makes or removes a directory.
LEMMA ToggleOn ==
    ASSUME Inv, SuccessInv, NEW d \in Directories, ToggleDirectory(d)
    PROVE  SuccessInv'
PROOF
<1>1. UNCHANGED <<run, todo, result>> /\ calm' = FALSE
  BY DEF ToggleDirectory, Changes
<1>2. SoundTree(fs) /\ DOMAIN fs = Names
  BY DEF Inv, TreeInv, SoundTree, Tree
<1>3. PICK x : x = Directory(d)
  OBVIOUS
<1>4. x \in Names /\ Kind(x) = "directory" /\ x[2] \notin {Root, Ownership}
  <2>1. x \in Places(d) /\ x \in Names
    BY <1>3, PlaceNames DEF Places, DirectoryNames
  <2>2. QED
    BY <1>3, <2>1, PlaceContents, NameKind
<1>5. CASE Exists(x)
  <2>1. fs' = [n \in Names |-> IF n = x \/ n[1] = x[2] THEN Absent ELSE fs[n]]
    BY <1>3, <1>5 DEF ToggleDirectory, Changes
  <2>2. \A n \in Names : fs'[n] = Absent \/ fs'[n] = fs[n]
    BY <2>1
  <2>3. ApartInv'
    BY <1>2, <2>2, ApartKept DEF SuccessInv
  <2>4. HiddenInv'
    BY <2>2 DEF SuccessInv, HiddenInv, Exists, Holds
  <2>5. Ours' \subseteq Ours
    BY <2>2, LoudNames DEF Ours, Exists, Holds
  <2>6. \A n \in {Pending, Cleanup, Inventory, Temporary} : fs'[n] = fs[n]
    BY <1>4, <2>1, UntouchedNames
  <2>7. \A n \in Transient : fs[n] = Absent => fs'[n] = Absent
    BY <2>2, UntouchedNames
  <2>8. QED
    BY <1>1, <2>3, <2>4, <2>5, <2>6, <2>7, UsersOn
<1>6. CASE ~Exists(x)
  <2>1. fs' = [fs EXCEPT ![x] = [id |-> Fresh, data |-> <<"dir">>]]
    BY <1>3, <1>6 DEF ToggleDirectory, Changes, Created, Only
  <2>2. ApartInv'
    BY <1>2, <1>4, <2>1, ApartNew DEF SuccessInv
  <2>3. \A n \in Names : n # x => fs'[n] = fs[n]
    BY <1>2, <2>1
  <2>4. \A n \in Names : Kind(n) = "artifact" => fs'[n] = fs[n]
    BY <1>4, <2>3
  <2>5. Ours' = Ours /\ HiddenInv'
    BY <2>4, ArtifactsKept DEF SuccessInv
  <2>6. \A n \in {Pending, Cleanup, Inventory, Temporary} : fs'[n] = fs[n]
    BY <1>4, <2>3, UntouchedNames
  <2>7. \A n \in Transient : fs[n] = Absent => fs'[n] = Absent
    BY <1>4, <2>3, UntouchedNames
  <2>8. QED
    BY <1>1, <2>2, <2>5, <2>6, <2>7, UsersOn
<1>7. QED
  BY <1>5, <1>6

\* Users keep the invariant.
LEMMA UserStepOn ==
    ASSUME Inv, SuccessInv, UserStep
    PROVE  SuccessInv'
BY EditOn, SaveOn, ToggleOn DEF UserStep

-----------------------------------------------------------------------------
(* The theorem *)

\* Before anything is materialised there is nothing to account for.
LEMMA InitSuccess ==
    ASSUME Init
    PROVE  SuccessInv
PROOF
<1>1. \A n \in Names : fs[n] = Absent
  BY DEF Init
<1>2. Ours = {} /\ NoRecord
  BY <1>1, LoudNames DEF Ours, NoRecord, Exists
<1>3. LedgerInv
  BY <1>2 DEF LedgerInv
<1>4. ApartInv /\ HiddenInv
  BY <1>1 DEF ApartInv, HiddenInv, SameFile, Exists
<1>5. PathInv /\ AimInv /\ FactInv /\ MoveInv
  BY DEF Init, PathInv, AimInv, Finishing, FactInv, MoveInv, Running
<1>6. OutcomeInv
  BY DEF Init, OutcomeInv, SuccessIsDesired
<1>7. QED
  BY <1>3, <1>4, <1>5, <1>6 DEF SuccessInv

\* Nothing happens.
LEMMA StutterOn ==
    ASSUME SuccessInv, UNCHANGED vars
    PROVE  SuccessInv'
PROOF
<1>1. UNCHANGED <<fs, desired, todo, pending, result, calm>>
  BY DEF vars
<1>2. LedgerInv' /\ ApartInv' /\ HiddenInv' /\ OutcomeInv'
  BY <1>1, SameState
<1>3. Finishing' <=> Finishing
  BY <1>1 DEF Finishing, Running
<1>4. PathInv' /\ AimInv'
  BY <1>1, <1>3 DEF SuccessInv, PathInv, AimInv
<1>5. Ours' = Ours
  BY <1>1 DEF Ours, Exists, Holds
<1>6. MoveInv'
  BY <1>1, <1>5 DEF SuccessInv, MoveInv, Running
<1>7. FactInv'
  <2>1. PICK c : c = Phase(Head(todo))
    OBVIOUS
  <2>2. Running' => Running /\ Phase(Head(todo')) = c
    BY <1>1, <2>1 DEF Running
  <2>3. Running => Fact(c)
    BY <2>1 DEF SuccessInv, FactInv
  <2>4. Running' => Fact(c)'
    BY <1>1, <1>3, <2>2, <2>3, SameFacts DEF run
  <2>5. QED
    BY <2>2, <2>4 DEF FactInv
<1>8. QED
  BY <1>2, <1>4, <1>6, <1>7 DEF SuccessInv

\* Every step keeps the invariant.
LEMMA NextSuccess ==
    ASSUME Inv, SuccessInv, [Next]_vars
    PROVE  SuccessInv'
PROOF
<1>1. CASE Synchronize
  BY <1>1, SynchronizeOn
<1>2. CASE Load
  BY <1>2, LoadCleanupOn, LoadPendingOn, LoadActiveOn, SettleOn, ResumeOn DEF Load
<1>3. CASE Prepare
  BY <1>3, CompareOn, PreparationOn, PhaseChecksOn, FinishOn DEF Prepare
<1>4. CASE ApplyStep
  BY <1>4, ApplyOn, QuarantineOn, EnsureDirectoryRemovalOn, CheckDirectoryRemovalOn,
     MakeDirectoryOn, PlaceDirectoryOn, PhaseChecksOn, ActivationOn, VerifyOn, ActivateControlOn
     DEF ApplyStep
<1>5. CASE CleanupStep
  BY <1>5, MarkCleanupOn, SweepQuarantineOn, SweepDirectoryOn, SweepNamesOn, SweepControlOn,
     SweepStagingOn, CheckSweptOn DEF CleanupStep
<1>6. CASE FileOperation
  BY <1>6, FileOperationOn
<1>7. CASE Crash
  BY <1>7, CrashOn
<1>8. CASE UserStep
  BY <1>8, UserStepOn
<1>9. CASE UNCHANGED vars
  BY <1>9, StutterOn
<1>10. QED
  BY <1>1, <1>2, <1>3, <1>4, <1>5, <1>6, <1>7, <1>8, <1>9 DEF Next

\* A synchronisation that reports success while no user interfered leaves the desired
\* artifacts, none of the generated ones that are not desired, an inventory of exactly
\* these, and nothing of its own transaction (SynchronizeMaterialization).
THEOREM SuccessSafe == Spec => []SuccessIsDesired
PROOF
<1>1. Init => Inv /\ SuccessInv
  BY InitInv, InitSuccess
<1>2. Inv /\ SuccessInv /\ [Next]_vars => (Inv /\ SuccessInv)'
  BY NextKeeps, NextSuccess
<1>3. SuccessInv => SuccessIsDesired
  BY DEF SuccessInv, OutcomeInv
<1>4. QED
  BY <1>1, <1>2, <1>3, PTL DEF Spec
=============================================================================
