-------------------- MODULE MaterializationStoreProofs --------------------
(***************************************************************************)
(* What users wrote is never destroyed by the store, for every set of      *)
(* artifacts and directories, every family of desired sets and any number  *)
(* of user changes and crashes.                                            *)
(*                                                                         *)
(* The invariant has two halves.  The tree: two names with one identity    *)
(* show one file, directories and files have different names, and what     *)
(* exists has a parent.  What is left to do: every step names files, or    *)
(* directories, as its operation needs; a removal is proved by another     *)
(* name, or by bytes the store generated; a directory only moves between   *)
(* the three places it may have.  A step of the store then either moves a  *)
(* file, or removes a name of it that is not the last one, or removes      *)
(* bytes that no user wrote.                                               *)
(***************************************************************************)
EXTENDS MaterializationStore, FiniteSetTheorems, SequenceTheorems, TLAPS

-----------------------------------------------------------------------------
(* The data *)

ContentValues == UNION {{D[a] : a \in DOMAIN D} : D \in Desires}

\* What an inventory, and what a transaction, may say.
Inventories ==
    [owned : Desires \cup {<<>>}, directories : SUBSET Directories]

GeneratedData == {"content"} \X ContentValues

Changed == UNION {[S -> GeneratedData] : S \in SUBSET Artifacts}

Pendings ==
    {p \in [bootstrap : BOOLEAN, previous : Inventories, next : Inventories,
            creates : SUBSET Artifacts, updates : Changed, deletes : Changed,
            makes : SUBSET Directories, removes : SUBSET Directories] :
        Writes(p) \subseteq DOMAIN p.next.owned}

\* What the store writes into a file.
FileData ==
    {<<"ownership-root">>, <<"staging">>, Bootstrap}
    \cup GeneratedData \cup ({"claim"} \X Directories)
    \cup ({"inventory"} \X Inventories) \cup ({"state"} \X Inventories)
    \cup ({"pending"} \X Pendings)

Data == FileData \cup {<<"dir">>, UserBytes, <<"partial">>, <<"none">>}

-----------------------------------------------------------------------------
(* The tree *)

DirectoryNames ==
    {n \in Names : n[2][1] \in {"directory", "preparation", "directory-quarantine",
                                "ownership", "staging"}}

FileNames == Names \ DirectoryNames

Places(d) == {Directory(d), Preparation(d), Quarantined(d)}

Tree == [Names -> [id : 0 .. Cardinality(Names) + 1, data : Data]]

\* Two names with one identity show one file.
OneFile(f) == \A m, n \in Names : f[m].id = f[n].id => f[m] = f[n]

KindFits(f) ==
    \A n \in Names : f[n] # Absent => (n \in DirectoryNames <=> f[n].data = <<"dir">>)

HasPlace(f, n) == n[1] = Root \/ \E m \in Names : m[2] = n[1] /\ f[m] # Absent

Rooted(f) == \A n \in Names : f[n] # Absent => HasPlace(f, n)

SoundTree(f) ==
    /\ f \in Tree
    /\ \A n \in Names : f[n].id = 0 => f[n] = Absent
    /\ OneFile(f) /\ KindFits(f) /\ Rooted(f)

\* Every file with bytes of a user in f has a name in g.
Kept(f, g) == \A n \in Names : f[n].data = UserBytes => \E m \in Names : g[m] = f[n]

-----------------------------------------------------------------------------
(* What is left to do *)

FileOperations ==
    ({"create"} \X FileNames \X FileData)
    \cup ({"create"} \X DirectoryNames \X {<<"dir">>})
    \cup ({"link"} \X FileNames \X FileNames \X FileNames)
    \cup ({"rename"} \X FileNames \X FileNames)
    \cup {<<"move", x[1], x[2]>> :
             x \in UNION {Places(d) \X Places(d) : d \in Directories}}
    \cup {<<"unlink", x[1], x[2]>> : x \in {y \in FileNames \X FileNames : y[1] # y[2]}}
    \cup ({"discard"} \X FileNames \X FileData)
    \cup ({"rmdir"} \X DirectoryNames)
    \cup {<<"fail">>}

\* The inspections that no transaction is needed for.
PlainSteps == {"compare", "settle", "finish"} \X {""}

\* The inspections of a transaction, each with what it is about.
TransactionSteps(p) ==
    ({"stage", "activate", "activated", "install", "installed",
      "sweep activation", "sweep stage"} \X Writes(p))
    \cup ({"source", "captured", "quarantine", "quarantined", "sweep quarantine"}
             \X (Updates(p) \cup Deletes(p)))
    \cup ({"anchor", "make directory", "directory prepared", "directory made", "sweep claim",
           "remove directory", "directory removed", "sweep directory"} \X Directories)
    \cup ({"switch", "sweep control"} \X Controls)
    \cup ({"prepared", "staged", "apply", "verify", "mark", "sweep staging", "swept",
           "resume", "confirm"} \X {""})

Steps(p) ==
    FileOperations \cup PlainSteps \cup (IF p \in Pendings THEN TransactionSteps(p) ELSE {})

Loading == <<<<"load", "">>, <<"compare", "">>>>

-----------------------------------------------------------------------------
(* The inductive invariant *)

TreeInv == SoundTree(fs)

TodoInv == todo \in Seq(Steps(pending)) \/ todo = Loading

ControlInv ==
    /\ desired \in Desires \cup {<<>>} /\ (Running => desired \in Desires)
    /\ result \in {"none", "done", "failed"} /\ (Running => result = "none")
    /\ calm \in BOOLEAN
    /\ touches \in 0 .. MaxTouches /\ crashes \in 0 .. MaxCrashes

Inv == TreeInv /\ TodoInv /\ ControlInv

-----------------------------------------------------------------------------
(* Names *)

\* A kind and an item name what they are in the place that has such a base.
LEMMA BaseNames ==
    ASSUME NEW k, NEW i
    PROVE  /\ <<k, i>> \in AtRoot => Reserved(k, i) \in Names
           /\ <<k, i>> \in InOwnership => Owned(k, i) \in Names
           /\ <<k, i>> \in InStaging => Staged(k, i) \in Names
           /\ Reserved(k, i)[2] = <<k, i>> /\ Owned(k, i)[2] = <<k, i>>
           /\ Staged(k, i)[2] = <<k, i>>
PROOF
<1>1. ASSUME <<k, i>> \in AtRoot
      PROVE  <<Root, <<k, i>>>> \in {Root} \X AtRoot
  BY <1>1
<1>2. ASSUME <<k, i>> \in InOwnership
      PROVE  <<Ownership, <<k, i>>>> \in {Ownership} \X InOwnership
  BY <1>2
<1>3. ASSUME <<k, i>> \in InStaging
      PROVE  <<Staging, <<k, i>>>> \in {Staging} \X InStaging
  BY <1>3
<1>4. /\ Reserved(k, i)[2] = <<k, i>> /\ Owned(k, i)[2] = <<k, i>>
      /\ Staged(k, i)[2] = <<k, i>>
  BY DEF Reserved, Owned, Staged
<1>5. QED
  BY <1>1, <1>2, <1>3, <1>4 DEF Names, Reserved, Owned, Staged

\* The names of one artifact are names of files.
LEMMA ArtifactNames ==
    ASSUME NEW a \in Artifacts
    PROVE  /\ Target(a) \in FileNames
           /\ \A k \in {"stage", "stage-proof"} : Staged(k, a) \in FileNames
           /\ \A k \in {"activation", "source-proof", "quarantine"} : Owned(k, a) \in FileNames
PROOF
<1>1. Target(a) \in Names /\ Target(a)[2] = <<"artifact", a>>
  <2>1. CASE a \in DOMAIN Folder
    <3>1. <<"directory", Folder[a]>> \in PlaceBases /\ <<"artifact", a>> \in InDirectory
      BY <2>1 DEF Directories, PlaceBases, InDirectory
    <3>2. Target(a) = <<<<"directory", Folder[a]>>, <<"artifact", a>>>>
      BY <2>1 DEF Target
    <3>3. QED
      BY <3>1, <3>2 DEF Names
  <2>2. CASE a \notin DOMAIN Folder
    <3>1. <<"artifact", a>> \in AtRoot
      BY <2>2 DEF AtRoot
    <3>2. Target(a) = Reserved("artifact", a)
      BY <2>2 DEF Target, Reserved
    <3>3. QED
      BY <3>1, <3>2, BaseNames
  <2>3. QED
    BY <2>1, <2>2
<1>2. ASSUME NEW k \in {"stage", "stage-proof"}
      PROVE  Staged(k, a) \in Names /\ Staged(k, a)[2] = <<k, a>>
  <2>1. <<k, a>> \in InStaging
    BY DEF InStaging
  <2>2. QED
    BY <2>1, BaseNames
<1>3. ASSUME NEW k \in {"activation", "source-proof", "quarantine"}
      PROVE  Owned(k, a) \in Names /\ Owned(k, a)[2] = <<k, a>>
  <2>1. <<k, a>> \in InOwnership
    BY DEF InOwnership
  <2>2. QED
    BY <2>1, BaseNames
<1>4. QED
  BY <1>1, <1>2, <1>3 DEF FileNames, DirectoryNames

\* The names of one directory: three places, a claim in each, and three files.
LEMMA PlaceNames ==
    ASSUME NEW d \in Directories
    PROVE  /\ Places(d) \subseteq DirectoryNames
           /\ \A x \in Places(d) : Claim(x) \in FileNames
           /\ \A k \in {"anchor", "claim-proof", "claim-quarantine"} : Owned(k, d) \in FileNames
PROOF
<1>1. /\ <<"directory", d>> \in AtRoot /\ <<"preparation", d>> \in AtRoot
      /\ <<"directory-quarantine", d>> \in InOwnership
  BY DEF AtRoot, InOwnership
<1>2. ASSUME NEW x \in Places(d)
      PROVE  /\ x \in Names
             /\ x[2] \in PlaceBases
             /\ x[2][1] \in {"directory", "preparation", "directory-quarantine"}
  <2>1. CASE x = Directory(d)
    BY <1>1, <2>1, BaseNames DEF Directory, PlaceBases
  <2>2. CASE x = Preparation(d)
    BY <1>1, <2>2, BaseNames DEF Preparation, PlaceBases
  <2>3. CASE x = Quarantined(d)
    BY <1>1, <2>3, BaseNames DEF Quarantined, PlaceBases
  <2>4. QED
    BY <2>1, <2>2, <2>3 DEF Places
<1>3. ASSUME NEW x \in Places(d)
      PROVE  Claim(x) \in Names /\ Claim(x)[2] = <<"claim", "">>
  <2>1. <<"claim", "">> \in InDirectory
    BY DEF InDirectory
  <2>2. QED
    BY <1>2, <2>1 DEF Names, Claim
<1>4. ASSUME NEW k \in {"anchor", "claim-proof", "claim-quarantine"}
      PROVE  Owned(k, d) \in Names /\ Owned(k, d)[2] = <<k, d>>
  <2>1. <<k, d>> \in InOwnership
    BY DEF InOwnership
  <2>2. QED
    BY <2>1, BaseNames
<1>5. Places(d) \subseteq DirectoryNames
  BY <1>2 DEF DirectoryNames
<1>6. ASSUME NEW x \in Places(d)
      PROVE  Claim(x) \in FileNames
  <2>1. Claim(x) \in Names /\ Claim(x)[2][1] = "claim"
    BY <1>3 DEF Claim
  <2>2. QED
    BY <2>1 DEF FileNames, DirectoryNames
<1>7. ASSUME NEW k \in {"anchor", "claim-proof", "claim-quarantine"}
      PROVE  Owned(k, d) \in FileNames
  <2>1. Owned(k, d) \in Names /\ Owned(k, d)[2][1] = k
    BY <1>4
  <2>2. QED
    BY <2>1 DEF FileNames, DirectoryNames
<1>8. QED
  BY <1>5, <1>6, <1>7

\* The names of one control are names of files.
LEMMA ControlNames ==
    ASSUME NEW c \in Controls,
           NEW k \in {"control", "temporary", "temporary-proof", "previous-proof",
                      "control-quarantine"}
    PROVE  Reserved(k, c) \in FileNames
PROOF
<1>1. <<k, c>> \in AtRoot
  BY DEF AtRoot
<1>2. Reserved(k, c) \in Names /\ Reserved(k, c)[2] = <<k, c>>
  BY <1>1, BaseNames
<1>3. QED
  BY <1>2 DEF FileNames, DirectoryNames

\* The names that do not depend on an artifact or a directory.
LEMMA SingleNames ==
    /\ OwnershipRoot \in DirectoryNames /\ StagingRoot \in DirectoryNames
    /\ {Inventory, State, Pending, Cleanup, PendingProof} \subseteq FileNames
    /\ {Reserved("ownership-proof", ""), Reserved("staging-proof", ""),
        Reserved("pending-temporary", ""), Owned("root-claim", ""),
        Staged("claim", "")} \subseteq FileNames
PROOF
<1>1. ASSUME NEW k \in {"ownership", "ownership-proof", "staging", "staging-proof",
                        "pending", "pending-temporary", "pending-proof", "cleanup"}
      PROVE  Reserved(k, "") \in Names /\ Reserved(k, "")[2] = <<k, "">>
  <2>1. <<k, "">> \in AtRoot
    BY DEF AtRoot
  <2>2. QED
    BY <2>1, BaseNames
<1>2. /\ Owned("root-claim", "") \in Names /\ Owned("root-claim", "")[2] = <<"root-claim", "">>
      /\ Staged("claim", "") \in Names /\ Staged("claim", "")[2] = <<"claim", "">>
  <2>1. <<"root-claim", "">> \in InOwnership /\ <<"claim", "">> \in InStaging
    BY DEF InOwnership, InStaging
  <2>2. QED
    BY <2>1, BaseNames
<1>3. ASSUME NEW k \in {"ownership-proof", "staging-proof", "pending", "pending-temporary",
                        "pending-proof", "cleanup"}
      PROVE  Reserved(k, "") \in FileNames
  <2>1. Reserved(k, "") \in Names /\ Reserved(k, "")[2][1] = k
    BY <1>1 DEF Reserved
  <2>2. QED
    BY <2>1 DEF DirectoryNames, FileNames
<1>4. ASSUME NEW k \in {"ownership", "staging"}
      PROVE  Reserved(k, "") \in DirectoryNames
  <2>1. Reserved(k, "") \in Names /\ Reserved(k, "")[2][1] = k
    BY <1>1 DEF Reserved
  <2>2. QED
    BY <2>1 DEF DirectoryNames
<1>5. Owned("root-claim", "") \in FileNames /\ Staged("claim", "") \in FileNames
  <2>1. Owned("root-claim", "")[2][1] = "root-claim" /\ Staged("claim", "")[2][1] = "claim"
    BY DEF Owned, Staged
  <2>2. QED
    BY <1>2, <2>1 DEF DirectoryNames, FileNames
<1>6. Inventory \in FileNames /\ State \in FileNames
  BY ControlNames DEF Inventory, State, Controls
<1>7. OwnershipRoot \in DirectoryNames /\ StagingRoot \in DirectoryNames
  BY <1>4 DEF OwnershipRoot, StagingRoot
<1>8. Pending \in FileNames /\ Cleanup \in FileNames /\ PendingProof \in FileNames
  BY <1>3 DEF Pending, Cleanup, PendingProof
<1>9. QED
  BY <1>3, <1>5, <1>6, <1>7, <1>8

\* A name is a base below a parent, and a base is a kind and an item.
LEMMA NameCases ==
    ASSUME NEW n \in Names
    PROVE  /\ n = <<n[1], n[2]>>
           /\ \/ n[1] = Root /\ n[2] \in AtRoot
              \/ n[1] = Ownership /\ n[2] \in InOwnership
              \/ n[1] = Staging /\ n[2] \in InStaging
              \/ n[1] \in PlaceBases /\ n[2] \in InDirectory
PROOF
<1>1. CASE n \in {Root} \X AtRoot
  BY <1>1
<1>2. CASE n \in {Ownership} \X InOwnership
  BY <1>2
<1>3. CASE n \in {Staging} \X InStaging
  BY <1>3
<1>4. CASE n \in PlaceBases \X InDirectory
  BY <1>4
<1>5. QED
  BY <1>1, <1>2, <1>3, <1>4 DEF Names

\* The places of a directory are at the root, or owned when it is quarantined.
LEMMA PlaceCases ==
    ASSUME NEW d \in Directories, NEW y \in Places(d)
    PROVE  /\ y = <<y[1], y[2]>> /\ y[2] = <<y[2][1], d>> /\ y[2] \in PlaceBases
           /\ \/ y[1] = Root /\ y[2][1] \in {"directory", "preparation"}
              \/ y[1] = Ownership /\ y[2][1] = "directory-quarantine"
PROOF
<1>1. CASE y = Directory(d)
  BY <1>1 DEF Directory, Reserved, PlaceBases
<1>2. CASE y = Preparation(d)
  BY <1>2 DEF Preparation, Reserved, PlaceBases
<1>3. CASE y = Quarantined(d)
  BY <1>3 DEF Quarantined, Owned, PlaceBases
<1>4. QED
  BY <1>1, <1>2, <1>3 DEF Places

\* The parents that a name may have are different.
LEMMA ParentsDiffer ==
    /\ Root # Ownership /\ Root # Staging /\ Ownership # Staging
    /\ \A b \in PlaceBases : /\ b \notin {Root, Ownership, Staging}
                             /\ b[1] \in {"directory", "preparation", "directory-quarantine"}
    /\ Ownership[1] = "ownership" /\ Staging[1] = "staging"
PROOF
<1>1. Root[1] = "root" /\ Ownership[1] = "ownership" /\ Staging[1] = "staging"
  BY DEF Root, Ownership, Staging
<1>2. ASSUME NEW b \in PlaceBases
      PROVE  b[1] \in {"directory", "preparation", "directory-quarantine"}
  BY DEF PlaceBases
<1>3. QED
  BY <1>1, <1>2

\* What contains something is the root or a directory.
LEMMA ParentNames ==
    ASSUME NEW m \in Names, NEW n \in Names, m[2] = n[1], n[1] # Root
    PROVE  m \in DirectoryNames
PROOF
<1>1. n[1][1] \in {"directory", "preparation", "directory-quarantine", "ownership", "staging"}
  BY NameCases, ParentsDiffer
<1>2. QED
  BY <1>1 DEF DirectoryNames

\* A directory is at the root or in the directory that the store owns.
LEMMA DirectoryParents ==
    ASSUME NEW m \in DirectoryNames
    PROVE  m[1] \in {Root, Ownership}
PROOF
<1>1. m \in Names /\ m[2][1] \in {"directory", "preparation", "directory-quarantine",
                                  "ownership", "staging"}
  BY DEF DirectoryNames
<1>2. ASSUME NEW b \in InStaging \cup InDirectory
      PROVE  b[1] \in {"stage", "stage-proof", "claim", "artifact"}
  BY DEF InStaging, InDirectory
<1>3. QED
  BY <1>1, <1>2, NameCases

\* One directory has the base that what it contains has for a parent, and what
\* one place may contain another may.
LEMMA PlaceContents ==
    ASSUME NEW d \in Directories, NEW x \in Places(d), NEW y \in Places(d), NEW n \in Names
    PROVE  /\ n[2] = y[2] => n = y
           /\ n[1] = y[2] => <<x[2], n[2]>> \in Names
           /\ y[2] \notin {Root, Ownership, Staging}
           /\ x # y => x[2] # y[2]
PROOF
<1>1. y[2] \notin {Root, Ownership, Staging}
  BY PlaceCases, ParentsDiffer
<1>2. x # y => x[2] # y[2]
  BY PlaceCases
<1>3. ASSUME n[1] = y[2]
      PROVE  <<x[2], n[2]>> \in Names
  <2>1. n[2] \in InDirectory
    BY <1>1, <1>3, NameCases
  <2>2. x[2] \in PlaceBases
    BY PlaceCases
  <2>3. QED
    BY <2>1, <2>2 DEF Names
<1>4. ASSUME n[2] = y[2]
      PROVE  n = y
  <2>1. ASSUME NEW b \in InStaging \cup InDirectory
        PROVE  b[1] \in {"stage", "stage-proof", "claim", "artifact"}
    BY DEF InStaging, InDirectory
  <2>2. ASSUME NEW b \in AtRoot
        PROVE  b[1] # "directory-quarantine"
    BY DEF AtRoot
  <2>3. ASSUME NEW b \in InOwnership
        PROVE  b[1] \notin {"directory", "preparation"}
    BY DEF InOwnership
  <2>4. y[2][1] \in {"directory", "preparation", "directory-quarantine"}
    BY PlaceCases
  <2>5. n[1] = y[1]
    BY <1>4, <2>1, <2>2, <2>3, <2>4, NameCases, PlaceCases
  <2>6. QED
    BY <1>4, <2>5, NameCases, PlaceCases
<1>5. QED
  BY <1>1, <1>2, <1>3, <1>4

-----------------------------------------------------------------------------
(* There always is another identity *)

\* A set of five elements is finite.
LEMMA FiveFinite ==
    ASSUME NEW u, NEW v, NEW x, NEW y, NEW z
    PROVE  IsFiniteSet({u, v, x, y, z})
PROOF
<1>1. /\ IsFiniteSet({u}) /\ IsFiniteSet({v}) /\ IsFiniteSet({x})
      /\ IsFiniteSet({y}) /\ IsFiniteSet({z})
  BY FS_Singleton
<1>2. IsFiniteSet({u} \cup {v}) /\ IsFiniteSet({x} \cup {y})
  BY <1>1, FS_Union
<1>3. IsFiniteSet(({u} \cup {v}) \cup ({x} \cup {y}))
  BY <1>2, FS_Union
<1>4. IsFiniteSet((({u} \cup {v}) \cup ({x} \cup {y})) \cup {z})
  BY <1>1, <1>3, FS_Union
<1>5. {u, v, x, y, z} = (({u} \cup {v}) \cup ({x} \cup {y})) \cup {z}
  OBVIOUS
<1>6. QED
  BY <1>4, <1>5

\* There are finitely many directories, for each is that of an artifact.
LEMMA DirectoriesFinite == IsFiniteSet(Directories)
PROOF
<1> DEFINE f == [a \in DOMAIN Folder |-> Folder[a]]
<1>1. IsFiniteSet(DOMAIN Folder)
  BY ArtifactsAssumption, FolderAssumption, FS_Subset
<1>2. f \in Surjection(DOMAIN Folder, Directories)
  BY DEF Directories, Surjection
<1>3. QED
  BY <1>1, <1>2, FS_Surjection

\* The kinds of names.
Kinds ==
    {"artifact", "directory", "preparation", "control", "temporary"}
    \cup {"temporary-proof", "previous-proof", "control-quarantine", "ownership", "ownership-proof"}
    \cup {"staging", "staging-proof", "pending", "pending-temporary", "pending-proof"}
    \cup {"cleanup", "activation", "source-proof", "quarantine", "anchor"}
    \cup {"claim-proof", "claim-quarantine", "directory-quarantine", "root-claim", "stage"}
    \cup {"stage-proof", "claim", "root"}

Items == Artifacts \cup Directories \cup Controls \cup {""}

\* There are finitely many names.
LEMMA NamesFinite == IsFiniteSet(Names)
PROOF
<1> DEFINE K1 == {"artifact", "directory", "preparation", "control", "temporary"}
           K2 == {"temporary-proof", "previous-proof", "control-quarantine", "ownership",
                  "ownership-proof"}
           K3 == {"staging", "staging-proof", "pending", "pending-temporary", "pending-proof"}
           K4 == {"cleanup", "activation", "source-proof", "quarantine", "anchor"}
           K5 == {"claim-proof", "claim-quarantine", "directory-quarantine", "root-claim",
                  "stage"}
           K6 == {"stage-proof", "claim", "root"}
<1>1. IsFiniteSet(Kinds)
  <2>1. /\ IsFiniteSet(K1) /\ IsFiniteSet(K2) /\ IsFiniteSet(K3)
        /\ IsFiniteSet(K4) /\ IsFiniteSet(K5) /\ IsFiniteSet(K6)
    <3>1. K6 = {"stage-proof", "claim", "root", "root", "root"}
      OBVIOUS
    <3>2. QED
      BY <3>1, FiveFinite
  <2> HIDE DEF K1, K2, K3, K4, K5, K6
  <2>2. IsFiniteSet(K1 \cup K2) /\ IsFiniteSet(K3 \cup K4) /\ IsFiniteSet(K5 \cup K6)
    BY <2>1, FS_Union
  <2>3. IsFiniteSet((K1 \cup K2) \cup (K3 \cup K4))
    BY <2>2, FS_Union
  <2>4. IsFiniteSet(((K1 \cup K2) \cup (K3 \cup K4)) \cup (K5 \cup K6))
    BY <2>2, <2>3, FS_Union
  <2>5. Kinds = ((K1 \cup K2) \cup (K3 \cup K4)) \cup (K5 \cup K6)
    BY DEF Kinds, K1, K2, K3, K4, K5, K6
  <2>6. QED
    BY <2>4, <2>5
<1>2. IsFiniteSet(Items)
  <2>1. IsFiniteSet({"inventory"}) /\ IsFiniteSet({"state"}) /\ IsFiniteSet({""})
    BY FS_Singleton
  <2>2. IsFiniteSet({"inventory"} \cup {"state"}) /\ IsFiniteSet(Artifacts \cup Directories)
    BY <2>1, FS_Union, ArtifactsAssumption, DirectoriesFinite
  <2>3. Controls = {"inventory"} \cup {"state"}
    BY DEF Controls
  <2>4. IsFiniteSet((Artifacts \cup Directories) \cup Controls)
    BY <2>2, <2>3, FS_Union
  <2>5. IsFiniteSet(((Artifacts \cup Directories) \cup Controls) \cup {""})
    BY <2>1, <2>4, FS_Union
  <2>6. QED
    BY <2>5 DEF Items
<1>3. IsFiniteSet(Kinds \X Items)
  BY <1>1, <1>2, FS_Product
<1>4. IsFiniteSet((Kinds \X Items) \X (Kinds \X Items))
  BY <1>3, FS_Product
<1>5. AtRoot \cup InOwnership \cup InStaging \cup InDirectory \subseteq Kinds \X Items
  <2>1. AtRoot \subseteq Kinds \X Items
    BY DEF AtRoot, Kinds, Items
  <2>2. InOwnership \subseteq Kinds \X Items
    BY DEF InOwnership, Kinds, Items
  <2>3. InStaging \subseteq Kinds \X Items
    BY DEF InStaging, Kinds, Items
  <2>4. InDirectory \subseteq Kinds \X Items
    BY FolderAssumption DEF InDirectory, Kinds, Items
  <2>5. QED
    BY <2>1, <2>2, <2>3, <2>4
<1>6. {Root, Ownership, Staging} \cup PlaceBases \subseteq Kinds \X Items
  <2>1. Root \in Kinds \X Items
    BY DEF Root, Kinds, Items
  <2>2. Ownership \in Kinds \X Items
    BY DEF Ownership, Kinds, Items
  <2>3. Staging \in Kinds \X Items
    BY DEF Staging, Kinds, Items
  <2>4. PlaceBases \subseteq Kinds \X Items
    BY DEF PlaceBases, Kinds, Items
  <2>5. QED
    BY <2>1, <2>2, <2>3, <2>4
<1>7. Names \subseteq (Kinds \X Items) \X (Kinds \X Items)
  <2> SUFFICES ASSUME NEW n \in Names
               PROVE  n \in (Kinds \X Items) \X (Kinds \X Items)
    OBVIOUS
  <2>1. n = <<n[1], n[2]>> /\ n[1] \in Kinds \X Items /\ n[2] \in Kinds \X Items
    BY <1>5, <1>6, NameCases
  <2>2. QED
    BY <2>1
<1>8. QED
  BY <1>4, <1>7, FS_Subset

\* A new file gets an identity that no other has.
LEMMA FreshIsNew ==
    ASSUME fs \in Tree
    PROVE  Fresh \in 1 .. Cardinality(Names) + 1 /\ \A n \in Names : fs[n].id # Fresh
PROOF
<1> DEFINE C == Cardinality(Names)
           used == {fs[n].id : n \in Names}
           f == [n \in Names |-> fs[n].id]
<1>1. C \in Nat
  BY NamesFinite, FS_CardinalityType
<1>2. f \in Surjection(Names, used)
  BY DEF Surjection
<1>3. IsFiniteSet(used) /\ Cardinality(used) <= C
  BY <1>2, NamesFinite, FS_Surjection
<1>4. Cardinality(used) \in Nat
  BY <1>3, FS_CardinalityType
<1>5. IsFiniteSet(1 .. C + 1) /\ Cardinality(1 .. C + 1) = C + 1
  BY <1>1, FS_Interval
<1>6. ~(1 .. C + 1 \subseteq used)
  BY <1>1, <1>3, <1>4, <1>5, FS_Subset
<1>7. DOMAIN fs = Names
  BY DEF Tree
<1>8. \E i \in 1 .. Cardinality(DOMAIN fs) + 1 : \A n \in DOMAIN fs : fs[n].id # i
  BY <1>6, <1>7
<1>9. QED
  BY <1>7, <1>8 DEF Fresh

-----------------------------------------------------------------------------
(* The operations keep the tree sound, and every file of a user *)

\* A tree whose every entry is an entry of a sound tree, or nothing, has entries
\* of the same types, and still one file for each identity.
LEMMA Rearranged ==
    ASSUME SoundTree(fs), NEW t, t = [n \in Names |-> t[n]],
           \A n \in Names : t[n] = Absent \/ \E m \in Names : t[n] = fs[m]
    PROVE  t \in Tree /\ (\A n \in Names : t[n].id = 0 => t[n] = Absent) /\ OneFile(t)
PROOF
<1>1. Absent \in [id : 0 .. Cardinality(Names) + 1, data : Data] /\ Absent.id = 0
  <2>1. Cardinality(Names) \in Nat
    BY NamesFinite, FS_CardinalityType
  <2>2. 0 \in 0 .. Cardinality(Names) + 1 /\ <<"none">> \in Data
    BY <2>1 DEF Data
  <2>3. QED
    BY <2>2 DEF Absent
<1>2. \A m \in Names : fs[m] \in [id : 0 .. Cardinality(Names) + 1, data : Data]
  BY DEF SoundTree, Tree
<1>3. \A n \in Names : t[n] \in [id : 0 .. Cardinality(Names) + 1, data : Data]
  BY <1>1, <1>2
<1>4. t \in Tree
  BY <1>3 DEF Tree
<1>5. \A n \in Names : t[n].id = 0 => t[n] = Absent
  BY DEF SoundTree
<1>6. ASSUME NEW m \in Names, NEW n \in Names, t[m].id = t[n].id
      PROVE  t[m] = t[n]
  BY <1>1, <1>5, <1>6 DEF SoundTree, OneFile
<1>7. QED
  BY <1>4, <1>5, <1>6 DEF OneFile

\* What names a user's file is the name of a file, and of one that exists.
LEMMA UserFiles ==
    ASSUME SoundTree(fs), NEW n \in Names, fs[n].data = UserBytes
    PROVE  fs[n] # Absent /\ n \in FileNames
PROOF
<1>1. Absent.data # UserBytes
  BY DEF Absent, UserBytes
<1>2. UserBytes # <<"dir">>
  BY DEF UserBytes
<1>3. fs[n] # Absent
  BY <1>1
<1>4. QED
  BY <1>2, <1>3 DEF SoundTree, KindFits, FileNames

\* The name of a file contains nothing.
LEMMA FilesAreEmpty ==
    ASSUME NEW m \in FileNames, NEW n \in Names
    PROVE  n[1] # Root => m[2] # n[1]
BY ParentNames DEF FileNames

\* A vacant name gets a new file or a new directory.
LEMMA CreatedSound ==
    ASSUME SoundTree(fs), NEW n \in Names, NEW d \in Data \ {<<"none">>},
           n \in DirectoryNames <=> d = <<"dir">>,
           HasParent(n),
           fs[n] = Absent \/ n \in FileNames,
           NEW t, t = [fs EXCEPT ![n] = [id |-> Fresh, data |-> d]]
    PROVE  SoundTree(t)
PROOF
<1> DEFINE new == [id |-> Fresh, data |-> d]
<1>1. fs \in Tree /\ DOMAIN fs = Names
  BY DEF SoundTree, Tree
<1>2. Cardinality(Names) \in Nat
  BY NamesFinite, FS_CardinalityType
<1>3. Fresh \in 1 .. Cardinality(Names) + 1 /\ \A m \in Names : fs[m].id # Fresh
  BY <1>1, FreshIsNew
<1>4. new \in [id : 0 .. Cardinality(Names) + 1, data : Data]
  BY <1>2, <1>3
<1>5. /\ t \in [Names -> [id : 0 .. Cardinality(Names) + 1, data : Data]]
      /\ t[n] = new /\ \A m \in Names \ {n} : t[m] = fs[m]
  BY <1>1, <1>4 DEF Tree
<1>6. new # Absent /\ new.id # 0
  BY <1>2, <1>3 DEF Absent
<1> HIDE DEF new
<1>7. \A m \in Names : t[m].id = 0 => t[m] = Absent
  BY <1>5, <1>6 DEF SoundTree
<1>8. OneFile(t)
  <2>1. new.id = Fresh
    BY DEF new
  <2>2. QED
    BY <1>3, <1>5, <2>1 DEF SoundTree, OneFile
<1>9. KindFits(t)
  <2>1. new.data = d
    BY DEF new
  <2>2. QED
    BY <1>5, <2>1 DEF SoundTree, KindFits
<1>10. ASSUME NEW m \in Names, t[m] # Absent
       PROVE  HasPlace(t, m)
  <2>1. HasPlace(fs, m)
    BY <1>1, <1>5, <1>10 DEF SoundTree, Rooted, HasPlace, HasParent, Exists
  <2>2. QED
    BY <1>5, <1>6, <2>1 DEF HasPlace
<1>11. QED
  BY <1>5, <1>7, <1>8, <1>9, <1>10 DEF SoundTree, Tree, Rooted

\* A tree that has the same directories, and below a name of a file nothing or a
\* file of a sound tree, is sound.
LEMMA FilesRearranged ==
    ASSUME SoundTree(fs), NEW t, t = [n \in Names |-> t[n]],
           \A n \in DirectoryNames : t[n] = fs[n],
           \A n \in FileNames : \/ t[n] = Absent
                                \/ HasPlace(fs, n) /\ \E m \in FileNames : t[n] = fs[m]
    PROVE  SoundTree(t)
PROOF
<1>1. Names = DirectoryNames \cup FileNames /\ DirectoryNames \cap FileNames = {}
  BY DEF FileNames, DirectoryNames
<1>2. \A n \in Names : t[n] = Absent \/ \E m \in Names : t[n] = fs[m]
  BY <1>1
<1>3. t \in Tree /\ (\A n \in Names : t[n].id = 0 => t[n] = Absent) /\ OneFile(t)
  BY <1>2, Rearranged
<1>4. KindFits(t)
  <2> SUFFICES ASSUME NEW n \in Names, t[n] # Absent
               PROVE  n \in DirectoryNames <=> t[n].data = <<"dir">>
    BY DEF KindFits
  <2>1. CASE n \in DirectoryNames
    BY <2>1 DEF SoundTree, KindFits
  <2>2. CASE n \in FileNames
    <3>1. PICK m \in FileNames : t[n] = fs[m]
      BY <2>2
    <3>2. QED
      BY <1>1, <2>2, <3>1 DEF SoundTree, KindFits
  <2>3. QED
    BY <1>1, <2>1, <2>2
<1>5. ASSUME NEW n \in Names, t[n] # Absent
      PROVE  HasPlace(t, n)
  <2>1. HasPlace(fs, n)
    <3>1. CASE n \in DirectoryNames
      BY <1>5, <3>1 DEF SoundTree, Rooted
    <3>2. CASE n \in FileNames
      BY <1>5, <3>2
    <3>3. QED
      BY <1>1, <3>1, <3>2
  <2>2. CASE n[1] # Root
    <3>1. PICK m \in Names : m[2] = n[1] /\ fs[m] # Absent
      BY <2>1, <2>2 DEF HasPlace
    <3>2. t[m] = fs[m]
      BY <2>2, <3>1, ParentNames
    <3>3. QED
      BY <3>1, <3>2 DEF HasPlace
  <2>3. QED
    BY <2>2 DEF HasPlace
<1>6. QED
  BY <1>3, <1>4, <1>5 DEF SoundTree, Rooted

\* A vacant name has a place.
LEMMA VacantPlace ==
    ASSUME SoundTree(fs), NEW n \in Names, Vacant(n)
    PROVE  fs[n] = Absent /\ HasPlace(fs, n) /\ HasParent(n)
PROOF
<1>1. DOMAIN fs = Names
  BY DEF SoundTree, Tree
<1>2. QED
  BY <1>1 DEF Vacant, HasParent, HasPlace, Exists

\* Creation replaces nothing.
LEMMA CreateSound ==
    ASSUME SoundTree(fs), NEW n \in Names, NEW d \in Data \ {<<"none">>},
           n \in DirectoryNames <=> d = <<"dir">>, NEW t \in Created(n, d)
    PROVE  SoundTree(t) /\ Kept(fs, t)
PROOF
<1>1. Vacant(n) /\ t = [fs EXCEPT ![n] = [id |-> Fresh, data |-> d]]
  BY DEF Created, Only
<1>2. fs[n] = Absent /\ HasParent(n)
  BY <1>1, VacantPlace
<1>3. SoundTree(t)
  BY <1>1, <1>2, CreatedSound
<1>4. \A m \in Names \ {n} : t[m] = fs[m]
  BY <1>1 DEF SoundTree, Tree
<1>5. Kept(fs, t)
  BY <1>2, <1>4, UserFiles DEF Kept
<1>6. QED
  BY <1>3, <1>5

\* A link replaces nothing.
LEMMA LinkSound ==
    ASSUME SoundTree(fs), NEW from \in FileNames, NEW proof \in FileNames, NEW to \in FileNames,
           NEW t \in Linked(from, proof, to)
    PROVE  SoundTree(t) /\ Kept(fs, t)
PROOF
<1>1. Vacant(to) /\ t = [fs EXCEPT ![to] = fs[from]]
  BY DEF Linked, Only
<1>2. to \in Names /\ from \in Names
  BY DEF FileNames
<1>3. fs[to] = Absent /\ HasPlace(fs, to)
  BY <1>1, <1>2, VacantPlace
<1>4. /\ t = [n \in Names |-> t[n]]
      /\ t[to] = fs[from] /\ \A m \in Names \ {to} : t[m] = fs[m]
  BY <1>1, <1>2 DEF SoundTree, Tree
<1>5. \A n \in DirectoryNames : n \in Names /\ n # to
  BY DEF DirectoryNames, FileNames
<1>6. ASSUME NEW n \in FileNames
      PROVE  \/ t[n] = Absent
             \/ HasPlace(fs, n) /\ \E m \in FileNames : t[n] = fs[m]
  BY <1>3, <1>4, <1>6 DEF SoundTree, Rooted, FileNames
<1>7. SoundTree(t)
  BY <1>4, <1>5, <1>6, FilesRearranged
<1>8. Kept(fs, t)
  BY <1>3, <1>4, UserFiles DEF Kept
<1>9. QED
  BY <1>7, <1>8

\* A rename takes a file to a vacant name.
LEMMA RenameSound ==
    ASSUME SoundTree(fs), NEW from \in FileNames, NEW to \in FileNames,
           NEW t \in Renamed(from, to)
    PROVE  SoundTree(t) /\ Kept(fs, t)
PROOF
<1>1. Vacant(to) /\ Exists(from) /\ t = [fs EXCEPT ![to] = fs[from], ![from] = Absent]
  BY DEF Renamed, Only
<1>2. to \in Names /\ from \in Names
  BY DEF FileNames
<1>3. fs[to] = Absent /\ HasPlace(fs, to) /\ from # to
  BY <1>1, <1>2, VacantPlace DEF Exists
<1>4. /\ t = [n \in Names |-> t[n]]
      /\ t[to] = fs[from] /\ t[from] = Absent /\ \A m \in Names \ {from, to} : t[m] = fs[m]
  BY <1>1, <1>2, <1>3 DEF SoundTree, Tree
<1>5. \A n \in DirectoryNames : n \in Names /\ n # to /\ n # from
  BY DEF DirectoryNames, FileNames
<1>6. ASSUME NEW n \in FileNames
      PROVE  \/ t[n] = Absent
             \/ HasPlace(fs, n) /\ \E m \in FileNames : t[n] = fs[m]
  BY <1>3, <1>4, <1>6 DEF SoundTree, Rooted, FileNames
<1>7. SoundTree(t)
  BY <1>4, <1>5, <1>6, FilesRearranged
<1>8. Kept(fs, t)
  BY <1>2, <1>3, <1>4, UserFiles DEF Kept
<1>9. QED
  BY <1>7, <1>8

\* A file loses a name; another one has it, or no user wrote it.
LEMMA RemoveSound ==
    ASSUME SoundTree(fs), NEW n \in FileNames, NEW t, t = [fs EXCEPT ![n] = Absent],
           fs[n].data = UserBytes => \E m \in Names \ {n} : fs[m] = fs[n]
    PROVE  SoundTree(t) /\ Kept(fs, t)
PROOF
<1>1. n \in Names
  BY DEF FileNames
<1>2. /\ t = [k \in Names |-> t[k]]
      /\ t[n] = Absent /\ \A m \in Names \ {n} : t[m] = fs[m]
  BY <1>1 DEF SoundTree, Tree
<1>3. \A k \in DirectoryNames : k \in Names /\ k # n
  BY DEF DirectoryNames, FileNames
<1>4. ASSUME NEW k \in FileNames
      PROVE  \/ t[k] = Absent
             \/ HasPlace(fs, k) /\ \E m \in FileNames : t[k] = fs[m]
  BY <1>2, <1>4 DEF SoundTree, Rooted, FileNames
<1>5. SoundTree(t)
  BY <1>2, <1>3, <1>4, FilesRearranged
<1>6. Kept(fs, t)
  BY <1>1, <1>2 DEF Kept
<1>7. QED
  BY <1>5, <1>6

\* A removal that another name proves leaves that name.
LEMMA UnlinkSound ==
    ASSUME SoundTree(fs), NEW n \in FileNames, NEW proof \in FileNames, n # proof,
           NEW t \in Removed(n, proof)
    PROVE  SoundTree(t) /\ Kept(fs, t)
PROOF
<1>1. t = [fs EXCEPT ![n] = Absent] /\ (Exists(n) => SameFile(n, proof))
  BY DEF Removed, Only
<1>2. n \in Names /\ proof \in Names
  BY DEF FileNames
<1>3. fs[n].data = UserBytes => fs[proof] = fs[n]
  BY <1>1, <1>2, UserFiles DEF SoundTree, OneFile, SameFile, Exists
<1>4. QED
  BY <1>1, <1>2, <1>3, RemoveSound

\* A removal that the bytes prove removes what the store wrote.
LEMMA DiscardSound ==
    ASSUME SoundTree(fs), NEW n \in FileNames, NEW d \in FileData, NEW t \in Discarded(n, d)
    PROVE  SoundTree(t) /\ Kept(fs, t)
PROOF
<1>1. t = [fs EXCEPT ![n] = Absent] /\ (Exists(n) => Holds(n, d))
  BY DEF Discarded, Only
<1>2. n \in Names
  BY DEF FileNames
<1>3. d # UserBytes
  <2>1. UserBytes[1] = "user"
    BY DEF UserBytes
  <2>2. d[1] # "user"
    BY DEF FileData, GeneratedData, Bootstrap
  <2>3. QED
    BY <2>1, <2>2
<1>4. fs[n].data # UserBytes
  BY <1>1, <1>2, <1>3, UserFiles DEF Exists, Holds
<1>5. QED
  BY <1>1, <1>4, RemoveSound

\* An empty directory is removed.
LEMMA RemoveDirectorySound ==
    ASSUME SoundTree(fs), NEW n \in DirectoryNames, NEW t \in DirectoryRemoved(n)
    PROVE  SoundTree(t) /\ Kept(fs, t)
PROOF
<1>1. t = [fs EXCEPT ![n] = Absent] /\ Contents(n) = {}
  BY DEF DirectoryRemoved, Only
<1>2. n \in Names /\ n \notin FileNames /\ DOMAIN fs = Names
  BY DEF DirectoryNames, FileNames, SoundTree, Tree
<1>3. /\ t = [k \in Names |-> t[k]]
      /\ t[n] = Absent /\ \A m \in Names \ {n} : t[m] = fs[m]
  BY <1>1, <1>2 DEF SoundTree, Tree
<1>4. t \in Tree /\ (\A k \in Names : t[k].id = 0 => t[k] = Absent) /\ OneFile(t)
  BY <1>3, Rearranged
<1>5. KindFits(t)
  BY <1>3 DEF SoundTree, KindFits
<1>6. \A m \in Names : m[1] = n[2] => fs[m] = Absent
  BY <1>1, <1>2 DEF Contents, Exists
<1>7. ASSUME NEW k \in Names, t[k] # Absent
      PROVE  HasPlace(t, k)
  <2>1. HasPlace(fs, k) /\ k[1] # n[2]
    BY <1>3, <1>6, <1>7 DEF SoundTree, Rooted
  <2>2. QED
    BY <1>3, <2>1 DEF HasPlace
<1>8. Kept(fs, t)
  BY <1>2, <1>3, UserFiles DEF Kept
<1>9. QED
  BY <1>4, <1>5, <1>7, <1>8 DEF SoundTree, Rooted

\* A directory moves, with what it contains, between the places it may have.
LEMMA MoveSound ==
    ASSUME SoundTree(fs), NEW d \in Directories, NEW from \in Places(d), NEW to \in Places(d),
           NEW t \in DirectoryRenamed(from, to)
    PROVE  SoundTree(t) /\ Kept(fs, t)
PROOF
<1>1. DOMAIN fs = Names
  BY DEF SoundTree, Tree
<1>2. /\ Exists(from) /\ Vacant(to)
      /\ t = [n \in Names |->
                 CASE n = to                     -> fs[from]
                   [] n[1] = to[2]               -> fs[<<from[2], n[2]>>]
                   [] n = from \/ n[1] = from[2] -> Absent
                   [] OTHER                      -> fs[n]]
  BY <1>1 DEF DirectoryRenamed, Only
<1>3. to \in DirectoryNames /\ from \in DirectoryNames /\ to \in Names /\ from \in Names
  BY PlaceNames DEF DirectoryNames
<1>4. fs[to] = Absent /\ HasPlace(fs, to) /\ from # to /\ fs[from] # Absent
  BY <1>2, <1>3, VacantPlace DEF Exists
<1>5. to[2] # from[2] /\ to[2] \notin {Root, Ownership} /\ from[2] \notin {Root, Ownership}
  BY <1>3, <1>4, PlaceContents
<1>6. to[1] \in {Root, Ownership} /\ from[1] \in {Root, Ownership}
  BY PlaceCases
<1>7. \A n \in Names : n[1] = to[2] => fs[n] = Absent
  <2> SUFFICES ASSUME NEW n \in Names, n[1] = to[2], fs[n] # Absent
               PROVE  FALSE
    OBVIOUS
  <2>1. PICK m \in Names : m[2] = n[1] /\ fs[m] # Absent
    BY <1>5 DEF SoundTree, Rooted, HasPlace
  <2>2. m = to
    BY <2>1, PlaceContents
  <2>3. QED
    BY <1>4, <2>1, <2>2
<1>8. t[to] = fs[from] /\ t[from] = Absent
  BY <1>2, <1>3, <1>4, <1>5, <1>6
<1>9. ASSUME NEW n \in Names, n[1] = to[2]
      PROVE  /\ n \notin {from, to} /\ n[1] # from[2] /\ <<from[2], n[2]>> \in Names
             /\ t[n] = fs[<<from[2], n[2]>>]
  <2>1. n # to /\ n # from
    BY <1>5, <1>6, <1>9
  <2>2. <<from[2], n[2]>> \in Names
    BY <1>9, PlaceContents
  <2>3. QED
    BY <1>2, <1>5, <1>9, <2>1, <2>2
<1>10. ASSUME NEW n \in Names, n[1] = from[2]
       PROVE  t[n] = Absent
  BY <1>2, <1>5, <1>6, <1>10
<1>11. ASSUME NEW n \in Names, n \notin {from, to}, n[1] \notin {from[2], to[2]}
       PROVE  t[n] = fs[n]
  BY <1>2, <1>11
<1>12. \A n \in Names : t[n] = Absent \/ \E m \in Names : t[n] = fs[m]
  BY <1>3, <1>8, <1>9, <1>10, <1>11
<1>13. t \in Tree /\ (\A n \in Names : t[n].id = 0 => t[n] = Absent) /\ OneFile(t)
  <2>1. t = [n \in Names |-> t[n]]
    BY <1>2
  <2>2. QED
    BY <1>12, <2>1, Rearranged
<1>14. KindFits(t)
  <2> SUFFICES ASSUME NEW n \in Names, t[n] # Absent
               PROVE  n \in DirectoryNames <=> t[n].data = <<"dir">>
    BY DEF KindFits
  <2>1. CASE n = to
    BY <1>3, <1>4, <1>8, <2>1 DEF SoundTree, KindFits
  <2>2. CASE n # to /\ n[1] = to[2]
    <3> DEFINE m == <<from[2], n[2]>>
    <3>1. m \in Names /\ t[n] = fs[m] /\ m[2] = n[2]
      BY <1>9, <2>2
    <3>2. m \in DirectoryNames <=> n \in DirectoryNames
      BY <3>1 DEF DirectoryNames
    <3> HIDE DEF m
    <3>3. QED
      BY <3>1, <3>2 DEF SoundTree, KindFits
  <2>3. CASE n # to /\ n[1] # to[2]
    <3>1. t[n] = fs[n]
      BY <1>8, <1>10, <1>11, <2>3
    <3>2. QED
      BY <3>1 DEF SoundTree, KindFits
  <2>4. QED
    BY <2>1, <2>2, <2>3
<1>15. ASSUME NEW m \in DirectoryNames, m # from, fs[m] # Absent
       PROVE  t[m] = fs[m]
  <2>1. m[1] \notin {from[2], to[2]}
    BY <1>5, DirectoryParents
  <2>2. QED
    BY <1>4, <1>11, <1>15, <2>1 DEF DirectoryNames
<1>16. ASSUME NEW n \in Names, t[n] # Absent
       PROVE  HasPlace(t, n)
  <2>1. CASE n[1] = to[2]
    BY <1>3, <1>4, <1>8, <2>1 DEF HasPlace
  <2>2. CASE n[1] # to[2] /\ n[1] # Root
    <3>1. HasPlace(fs, n) /\ n[1] # from[2]
      <4>1. CASE n = to
        BY <1>4, <1>5, <1>6, <4>1
      <4>2. CASE n # to
        <5>1. n[1] # from[2] /\ n # from
          BY <1>8, <1>10, <1>16
        <5>2. t[n] = fs[n]
          BY <1>11, <2>2, <4>2, <5>1
        <5>3. QED
          BY <1>16, <5>1, <5>2 DEF SoundTree, Rooted
      <4>3. QED
        BY <4>1, <4>2
    <3>2. PICK m \in Names : m[2] = n[1] /\ fs[m] # Absent
      BY <2>2, <3>1 DEF HasPlace
    <3>3. m \in DirectoryNames /\ m # from
      BY <2>2, <3>1, <3>2, ParentNames
    <3>4. t[m] = fs[m]
      BY <1>15, <3>2, <3>3
    <3>5. QED
      BY <3>2, <3>4 DEF HasPlace
  <2>3. QED
    BY <2>1, <2>2 DEF HasPlace
<1>17. Kept(fs, t)
  <2> SUFFICES ASSUME NEW n \in Names, fs[n].data = UserBytes
               PROVE  \E m \in Names : t[m] = fs[n]
    BY DEF Kept
  <2>1. n \in FileNames /\ fs[n] # Absent
    BY UserFiles
  <2>2. n \notin {from, to} /\ n[1] # to[2]
    BY <1>3, <1>7, <2>1 DEF FileNames
  <2>3. CASE n[1] = from[2]
    <3> DEFINE m == <<to[2], n[2]>>
    <3>1. m \in Names /\ m[1] = to[2] /\ m[2] = n[2]
      BY <2>3, PlaceContents
    <3>2. <<from[2], m[2]>> = n
      BY <2>3, <3>1, NameCases
    <3> HIDE DEF m
    <3>3. t[m] = fs[n]
      BY <1>9, <3>1, <3>2
    <3>4. QED
      BY <3>1, <3>3
  <2>4. CASE n[1] # from[2]
    BY <1>11, <2>2, <2>4
  <2>5. QED
    BY <2>3, <2>4
<1>18. QED
  BY <1>13, <1>14, <1>16, <1>17 DEF SoundTree, Rooted

\* A user deletes a file.
LEMMA DeleteSound ==
    ASSUME SoundTree(fs), NEW n \in FileNames, NEW t, t = [fs EXCEPT ![n] = Absent]
    PROVE  SoundTree(t)
PROOF
<1>1. n \in Names
  BY DEF FileNames
<1>2. /\ t = [k \in Names |-> t[k]]
      /\ t[n] = Absent /\ \A m \in Names \ {n} : t[m] = fs[m]
  BY <1>1 DEF SoundTree, Tree
<1>3. \A k \in DirectoryNames : k \in Names /\ k # n
  BY DEF DirectoryNames, FileNames
<1>4. ASSUME NEW k \in FileNames
      PROVE  \/ t[k] = Absent
             \/ HasPlace(fs, k) /\ \E m \in FileNames : t[k] = fs[m]
  BY <1>2, <1>4 DEF SoundTree, Rooted, FileNames
<1>5. QED
  BY <1>2, <1>3, <1>4, FilesRearranged

\* A user edits a file: every name of it shows the new bytes.
LEMMA EditSound ==
    ASSUME SoundTree(fs), NEW x \in FileNames, Exists(x),
           NEW t, t = [n \in Names |-> IF SameFile(n, x)
                                       THEN [fs[n] EXCEPT !.data = UserBytes] ELSE fs[n]]
    PROVE  SoundTree(t)
PROOF
<1>1. x \in Names /\ x \notin DirectoryNames /\ fs[x] # Absent
  BY DEF FileNames, Exists
<1>2. \A n \in Names : SameFile(n, x) => fs[n] = fs[x] /\ n \notin DirectoryNames
  BY <1>1 DEF SameFile, Exists, SoundTree, OneFile, KindFits
<1>3. ASSUME NEW n \in Names
      PROVE  /\ t[n] = IF SameFile(n, x) THEN [fs[n] EXCEPT !.data = UserBytes] ELSE fs[n]
             /\ fs[n] \in [id : 0 .. Cardinality(Names) + 1, data : Data]
  BY DEF SoundTree, Tree
<1>4. UserBytes \in Data /\ UserBytes # <<"dir">> /\ UserBytes # <<"none">>
  BY DEF Data, UserBytes
<1>5. ASSUME NEW n \in Names
      PROVE  /\ t[n] \in [id : 0 .. Cardinality(Names) + 1, data : Data]
             /\ t[n].id = fs[n].id
             /\ SameFile(n, x) => t[n].data = UserBytes
             /\ ~SameFile(n, x) => t[n] = fs[n]
  BY <1>3, <1>4
<1>6. t \in Tree
  <2>1. t = [n \in Names |-> t[n]]
    OBVIOUS
  <2>2. QED
    BY <1>5, <2>1 DEF Tree
<1>7. ASSUME NEW n \in Names
      PROVE  t[n] = Absent <=> fs[n] = Absent
  BY <1>4, <1>5 DEF Absent, SameFile, Exists
<1>8. \A n \in Names : t[n].id = 0 => t[n] = Absent
  BY <1>5, <1>7 DEF SoundTree
<1>9. ASSUME NEW m \in Names, NEW n \in Names, t[m].id = t[n].id
      PROVE  t[m] = t[n]
  <2>1. fs[m] = fs[n]
    BY <1>5, <1>9 DEF SoundTree, OneFile
  <2>2. SameFile(m, x) <=> SameFile(n, x)
    BY <2>1 DEF SameFile, Exists
  <2>3. QED
    BY <1>3, <2>1, <2>2
<1>10. KindFits(t)
  BY <1>2, <1>4, <1>5, <1>7 DEF SoundTree, KindFits
<1>11. \A n \in Names : HasPlace(fs, n) => HasPlace(t, n)
  BY <1>7 DEF HasPlace
<1>12. QED
  BY <1>6, <1>7, <1>8, <1>9, <1>10, <1>11 DEF SoundTree, OneFile, Rooted

\* A user removes a directory with everything in it.
LEMMA RemoveTreeSound ==
    ASSUME SoundTree(fs), NEW d \in Directories,
           NEW t, t = [n \in Names |-> IF n = Directory(d) \/ n[1] = Directory(d)[2]
                                       THEN Absent ELSE fs[n]]
    PROVE  SoundTree(t)
PROOF
<1> DEFINE x == Directory(d)
<1>1. x \in Places(d) /\ x \in Names
  BY PlaceNames DEF Places, DirectoryNames
<1>2. x[2] \notin {Root, Ownership}
  BY <1>1, PlaceContents
<1> HIDE DEF x
<1>3. ASSUME NEW n \in Names
      PROVE  t[n] = IF n = x \/ n[1] = x[2] THEN Absent ELSE fs[n]
  BY DEF x
<1>4. t \in Tree /\ (\A n \in Names : t[n].id = 0 => t[n] = Absent) /\ OneFile(t)
  <2>1. t = [n \in Names |-> t[n]]
    OBVIOUS
  <2>2. \A n \in Names : t[n] = Absent \/ \E m \in Names : t[n] = fs[m]
    BY <1>3
  <2>3. QED
    BY <2>1, <2>2, Rearranged
<1>5. KindFits(t)
  BY <1>3 DEF SoundTree, KindFits
<1>6. ASSUME NEW n \in Names, t[n] # Absent
      PROVE  HasPlace(t, n)
  <2>1. HasPlace(fs, n) /\ n[1] # x[2]
    BY <1>3, <1>6 DEF SoundTree, Rooted
  <2>2. CASE n[1] # Root
    <3>1. PICK m \in Names : m[2] = n[1] /\ fs[m] # Absent
      BY <2>1, <2>2 DEF HasPlace
    <3>2. m[1] \in {Root, Ownership}
      BY <2>2, <3>1, ParentNames, DirectoryParents
    <3>3. t[m] = fs[m]
      BY <1>2, <1>3, <2>1, <3>1, <3>2
    <3>4. QED
      BY <3>1, <3>3 DEF HasPlace
  <2>3. QED
    BY <2>2 DEF HasPlace
<1>7. QED
  BY <1>4, <1>5, <1>6 DEF SoundTree, Rooted

-----------------------------------------------------------------------------
(* What is left to do *)

\* What a step names, by the operation it is.
LEMMA OperationCases ==
    ASSUME NEW p, NEW s \in Steps(p)
    PROVE  /\ s[1] = "create" => \/ s[2] \in FileNames /\ s[3] \in FileData
                                 \/ s[2] \in DirectoryNames /\ s[3] = <<"dir">>
           /\ s[1] = "link" => s[2] \in FileNames /\ s[3] \in FileNames /\ s[4] \in FileNames
           /\ s[1] = "rename" => s[2] \in FileNames /\ s[3] \in FileNames
           /\ s[1] = "move" => \E d \in Directories : s[2] \in Places(d) /\ s[3] \in Places(d)
           /\ s[1] = "unlink" => s[2] \in FileNames /\ s[3] \in FileNames /\ s[2] # s[3]
           /\ s[1] = "discard" => s[2] \in FileNames /\ s[3] \in FileData
           /\ s[1] = "rmdir" => s[2] \in DirectoryNames
PROOF
<1>1. CASE s \in {"create"} \X FileNames \X FileData
  BY <1>1
<1>2. CASE s \in {"create"} \X DirectoryNames \X {<<"dir">>}
  BY <1>2
<1>3. CASE s \in {"link"} \X FileNames \X FileNames \X FileNames
  BY <1>3
<1>4. CASE s \in {"rename"} \X FileNames \X FileNames
  BY <1>4
<1>5. CASE s \in {<<"move", x[1], x[2]>> :
                     x \in UNION {Places(d) \X Places(d) : d \in Directories}}
  <2>1. PICK x \in UNION {Places(d) \X Places(d) : d \in Directories} :
               s = <<"move", x[1], x[2]>>
    BY <1>5
  <2>2. PICK d \in Directories : x \in Places(d) \X Places(d)
    OBVIOUS
  <2>3. s[1] = "move" /\ s[2] \in Places(d) /\ s[3] \in Places(d)
    BY <2>1, <2>2
  <2>4. QED
    BY <2>3
<1>6. CASE s \in {<<"unlink", x[1], x[2]>> : x \in {y \in FileNames \X FileNames : y[1] # y[2]}}
  <2>1. PICK x \in {y \in FileNames \X FileNames : y[1] # y[2]} : s = <<"unlink", x[1], x[2]>>
    BY <1>6
  <2>2. QED
    BY <2>1
<1>7. CASE s \in {"discard"} \X FileNames \X FileData
  BY <1>7
<1>8. CASE s \in {"rmdir"} \X DirectoryNames
  BY <1>8
<1>9. CASE s = <<"fail">>
  BY <1>9
<1>10. CASE s \in PlainSteps
  BY <1>10 DEF PlainSteps
<1>11. CASE s \in TransactionSteps(p)
  BY <1>11 DEF TransactionSteps
<1>12. QED
  BY <1>1, <1>2, <1>3, <1>4, <1>5, <1>6, <1>7, <1>8, <1>9, <1>10, <1>11
     DEF Steps, FileOperations

\* A pair has two parts.
LEMMA PairLength ==
    ASSUME NEW U, NEW V, NEW s \in U \X V
    PROVE  Len(s) = 2
OBVIOUS

\* Every step has a name and at most three more parts.
LEMMA StepLengths ==
    ASSUME NEW p, NEW s \in Steps(p)
    PROVE  Len(s) \in 1 .. 4
PROOF
<1>1. CASE s \in {"create"} \X FileNames \X FileData
  BY <1>1
<1>2. CASE s \in {"create"} \X DirectoryNames \X {<<"dir">>}
  BY <1>2
<1>3. CASE s \in {"link"} \X FileNames \X FileNames \X FileNames
  BY <1>3
<1>4. CASE s \in {"rename"} \X FileNames \X FileNames
  BY <1>4
<1>5. CASE s \in {<<"move", x[1], x[2]>> :
                     x \in UNION {Places(d) \X Places(d) : d \in Directories}}
  <2>1. PICK x : s = <<"move", x[1], x[2]>>
    BY <1>5
  <2>2. QED
    BY <2>1
<1>6. CASE s \in {<<"unlink", x[1], x[2]>> : x \in {y \in FileNames \X FileNames : y[1] # y[2]}}
  <2>1. PICK x : s = <<"unlink", x[1], x[2]>>
    BY <1>6
  <2>2. QED
    BY <2>1
<1>7. CASE s \in {"discard"} \X FileNames \X FileData
  BY <1>7
<1>8. CASE s \in {"rmdir"} \X DirectoryNames
  BY <1>8
<1>9. CASE s = <<"fail">>
  BY <1>9
<1>10. CASE s \in PlainSteps
  <2>1. \E U, V : s \in U \X V
    BY <1>10 DEF PlainSteps
  <2>2. QED
    BY <2>1, PairLength
<1>11. CASE s \in TransactionSteps(p)
  <2>1. \E U, V : s \in U \X V
    BY <1>11 DEF TransactionSteps
  <2>2. QED
    BY <2>1, PairLength
<1>12. QED
  BY <1>1, <1>2, <1>3, <1>4, <1>5, <1>6, <1>7, <1>8, <1>9, <1>10, <1>11
     DEF Steps, FileOperations

\* No file operation has the name of an inspection.
LEMMA OperationNames ==
    ASSUME NEW s \in FileOperations
    PROVE  s[1] \in {"create", "link", "rename", "move", "unlink", "discard", "rmdir", "fail"}
PROOF
<1>1. CASE s \in {<<"move", x[1], x[2]>> :
                     x \in UNION {Places(d) \X Places(d) : d \in Directories}}
  <2>1. PICK x : s = <<"move", x[1], x[2]>>
    BY <1>1
  <2>2. QED
    BY <2>1
<1>2. CASE s \in {<<"unlink", x[1], x[2]>> : x \in {y \in FileNames \X FileNames : y[1] # y[2]}}
  <2>1. PICK x : s = <<"unlink", x[1], x[2]>>
    BY <1>2
  <2>2. QED
    BY <2>1
<1>3. CASE s \notin {<<"move", x[1], x[2]>> :
                        x \in UNION {Places(d) \X Places(d) : d \in Directories}}
           /\ s \notin {<<"unlink", x[1], x[2]>> :
                           x \in {y \in FileNames \X FileNames : y[1] # y[2]}}
  BY <1>3 DEF FileOperations
<1>4. QED
  BY <1>1, <1>2, <1>3

\* The names of the inspections that are about an artifact that is written, about
\* one that is replaced or deleted, about a directory, and about the transaction.
WriteItems  == {"stage", "activate", "activated", "install", "installed",
                "sweep activation", "sweep stage"}
SourceItems == {"source", "captured", "quarantine", "quarantined", "sweep quarantine"}
PlaceItems  == {"anchor", "make directory", "directory prepared", "directory made", "sweep claim",
                "remove directory", "directory removed", "sweep directory"}
ControlItems == {"switch", "sweep control"}
WholeItems  == {"prepared", "staged", "apply", "verify", "mark", "sweep staging", "swept",
                "resume", "confirm"}

\* What an inspection of a transaction is about.
LEMMA ItemCases ==
    ASSUME NEW p, NEW s \in Steps(p)
    PROVE  /\ s[1] \in WriteItems => p \in Pendings /\ s[2] \in Writes(p)
           /\ s[1] \in SourceItems => p \in Pendings /\ s[2] \in Updates(p) \cup Deletes(p)
           /\ s[1] \in PlaceItems => p \in Pendings /\ s[2] \in Directories
           /\ s[1] \in ControlItems => p \in Pendings /\ s[2] \in Controls
           /\ s[1] \in WholeItems => p \in Pendings
           /\ s[1] # "load"
PROOF
<1>1. CASE s \in FileOperations
  BY <1>1, OperationNames DEF WriteItems, SourceItems, PlaceItems, ControlItems, WholeItems
<1>2. CASE s \in PlainSteps
  BY <1>2 DEF PlainSteps, WriteItems, SourceItems, PlaceItems, ControlItems, WholeItems
<1>3. CASE p \in Pendings /\ s \in TransactionSteps(p)
  <2>1. CASE s \in WriteItems \X Writes(p)
    BY <1>3, <2>1 DEF WriteItems, SourceItems, PlaceItems, ControlItems, WholeItems
  <2>2. CASE s \in SourceItems \X (Updates(p) \cup Deletes(p))
    BY <1>3, <2>2 DEF WriteItems, SourceItems, PlaceItems, ControlItems, WholeItems
  <2>3. CASE s \in PlaceItems \X Directories
    BY <1>3, <2>3 DEF WriteItems, SourceItems, PlaceItems, ControlItems, WholeItems
  <2>4. CASE s \in ControlItems \X Controls
    BY <1>3, <2>4 DEF WriteItems, SourceItems, PlaceItems, ControlItems, WholeItems
  <2>5. CASE s \in WholeItems \X {""}
    BY <1>3, <2>5 DEF WriteItems, SourceItems, PlaceItems, ControlItems, WholeItems
  <2>6. QED
    BY <1>3, <2>1, <2>2, <2>3, <2>4, <2>5
       DEF TransactionSteps, WriteItems, SourceItems, PlaceItems, ControlItems, WholeItems
<1>4. QED
  BY <1>1, <1>2, <1>3 DEF Steps

\* A step alone is a sequence of steps.
LEMMA SingleStep ==
    ASSUME NEW S, NEW s \in S
    PROVE  <<s>> \in Seq(S)
OBVIOUS

\* The file operations that the inspections put in their place.
LEMMA OperationSteps ==
    ASSUME NEW p
    PROVE  /\ \A n \in FileNames, d \in FileData : /\ Create(n, d) \in Seq(Steps(p))
                                                   /\ Discard(n, d) \in Seq(Steps(p))
           /\ \A n \in DirectoryNames : /\ Create(n, <<"dir">>) \in Seq(Steps(p))
                                        /\ RemoveEmpty(n) \in Seq(Steps(p))
           /\ \A m, n \in FileNames : /\ Link(m, n) \in Seq(Steps(p))
                                      /\ Rename(m, n) \in Seq(Steps(p))
                                      /\ m # n => Unlink(m, n) \in Seq(Steps(p))
           /\ \A l, m, n \in FileNames : LinkVerified(l, m, n) \in Seq(Steps(p))
           /\ \A d \in Directories : \A x, y \in Places(d) : Move(x, y) \in Seq(Steps(p))
           /\ Fail \in Seq(Steps(p))
           /\ <<>> \in Seq(Steps(p))
PROOF
<1>1. ASSUME NEW n \in FileNames, NEW d \in FileData
      PROVE  <<"create", n, d>> \in FileOperations /\ <<"discard", n, d>> \in FileOperations
  BY DEF FileOperations
<1>2. ASSUME NEW n \in DirectoryNames
      PROVE  <<"create", n, <<"dir">>>> \in FileOperations /\ <<"rmdir", n>> \in FileOperations
  BY DEF FileOperations
<1>3. ASSUME NEW m \in FileNames, NEW n \in FileNames
      PROVE  <<"rename", m, n>> \in FileOperations
  BY DEF FileOperations
<1>4. ASSUME NEW m \in FileNames, NEW n \in FileNames, m # n
      PROVE  <<"unlink", m, n>> \in FileOperations
  <2>1. <<m, n>> \in {y \in FileNames \X FileNames : y[1] # y[2]}
    BY <1>4
  <2>2. <<"unlink", m, n>> \in {<<"unlink", x[1], x[2]>> :
                                   x \in {y \in FileNames \X FileNames : y[1] # y[2]}}
    BY <2>1
  <2>3. QED
    BY <2>2 DEF FileOperations
<1>5. ASSUME NEW l \in FileNames, NEW m \in FileNames, NEW n \in FileNames
      PROVE  <<"link", l, m, n>> \in FileOperations
  BY DEF FileOperations
<1>6. ASSUME NEW d \in Directories, NEW x \in Places(d), NEW y \in Places(d)
      PROVE  <<"move", x, y>> \in FileOperations
  <2>1. <<x, y>> \in UNION {Places(c) \X Places(c) : c \in Directories}
    OBVIOUS
  <2>2. <<"move", x, y>> \in {<<"move", z[1], z[2]>> :
                                 z \in UNION {Places(c) \X Places(c) : c \in Directories}}
    BY <2>1
  <2>3. QED
    BY <2>2 DEF FileOperations
<1>7. <<"fail">> \in FileOperations
  BY DEF FileOperations
<1>8. \A s \in FileOperations : s \in Steps(p) /\ <<s>> \in Seq(Steps(p))
  BY SingleStep DEF Steps
<1>9. /\ \A n \in FileNames, d \in FileData : /\ Create(n, d) \in Seq(Steps(p))
                                              /\ Discard(n, d) \in Seq(Steps(p))
      /\ \A n \in DirectoryNames : /\ Create(n, <<"dir">>) \in Seq(Steps(p))
                                   /\ RemoveEmpty(n) \in Seq(Steps(p))
  BY <1>1, <1>2, <1>8 DEF Create, Discard, RemoveEmpty
<1>10. \A m, n \in FileNames : /\ Link(m, n) \in Seq(Steps(p))
                               /\ Rename(m, n) \in Seq(Steps(p))
                               /\ m # n => Unlink(m, n) \in Seq(Steps(p))
  BY <1>3, <1>4, <1>5, <1>8 DEF Link, Rename, Unlink
<1>11. \A l, m, n \in FileNames : LinkVerified(l, m, n) \in Seq(Steps(p))
  BY <1>5, <1>8 DEF LinkVerified
<1>12. \A d \in Directories : \A x, y \in Places(d) : Move(x, y) \in Seq(Steps(p))
  BY <1>6, <1>8 DEF Move
<1>13. Fail \in Seq(Steps(p)) /\ <<>> \in Seq(Steps(p))
  BY <1>7, <1>8 DEF Fail
<1>14. QED
  BY <1>9, <1>10, <1>11, <1>12, <1>13

\* The inspections of a transaction, and those that need none.
LEMMA ItemSteps ==
    ASSUME NEW p
    PROVE  /\ \A k \in {"compare", "settle", "finish"} : Then(k, "") \in Seq(Steps(p))
           /\ p \in Pendings =>
                /\ \A k \in WriteItems : \A a \in Writes(p) : Then(k, a) \in Seq(Steps(p))
                /\ \A k \in SourceItems : \A a \in Updates(p) \cup Deletes(p) :
                      Then(k, a) \in Seq(Steps(p))
                /\ \A k \in PlaceItems : \A d \in Directories : Then(k, d) \in Seq(Steps(p))
                /\ \A k \in ControlItems : \A c \in Controls : Then(k, c) \in Seq(Steps(p))
                /\ \A k \in WholeItems : Then(k, "") \in Seq(Steps(p))
PROOF
<1>1. ASSUME NEW k \in {"compare", "settle", "finish"}
      PROVE  Then(k, "") \in Seq(Steps(p))
  <2>1. <<k, "">> \in Steps(p)
    BY DEF Steps, PlainSteps
  <2>2. QED
    BY <2>1, SingleStep DEF Then
<1>2. ASSUME p \in Pendings, NEW s \in TransactionSteps(p)
      PROVE  <<s>> \in Seq(Steps(p))
  <2>1. s \in Steps(p)
    BY <1>2 DEF Steps
  <2>2. QED
    BY <2>1, SingleStep
<1>3. /\ WriteItems \X Writes(p) \subseteq TransactionSteps(p)
      /\ SourceItems \X (Updates(p) \cup Deletes(p)) \subseteq TransactionSteps(p)
      /\ PlaceItems \X Directories \subseteq TransactionSteps(p)
      /\ ControlItems \X Controls \subseteq TransactionSteps(p)
      /\ WholeItems \X {""} \subseteq TransactionSteps(p)
  BY DEF TransactionSteps, WriteItems, SourceItems, PlaceItems, ControlItems, WholeItems
<1> HIDE DEF WriteItems, SourceItems, PlaceItems, ControlItems, WholeItems
<1>4. /\ \A k \in WriteItems : \A a \in Writes(p) : <<k, a>> \in TransactionSteps(p)
      /\ \A k \in SourceItems : \A a \in Updates(p) \cup Deletes(p) :
            <<k, a>> \in TransactionSteps(p)
      /\ \A k \in PlaceItems : \A d \in Directories : <<k, d>> \in TransactionSteps(p)
      /\ \A k \in ControlItems : \A c \in Controls : <<k, c>> \in TransactionSteps(p)
      /\ \A k \in WholeItems : <<k, "">> \in TransactionSteps(p)
  BY <1>3
<1>5. QED
  BY <1>1, <1>2, <1>4 DEF Then

\* One step for each member of a finite set is a sequence of such steps.
LEMMA EachSteps ==
    ASSUME NEW S, IsFiniteSet(S), NEW name, NEW T, \A x \in S : <<name, x>> \in T
    PROVE  Each(S, name) \in Seq(T)
PROOF
<1> DEFINE order == SetToSeq(S)
<1>1. Cardinality(S) \in Nat
  BY FS_CardinalityType
<1>2. \E f \in [1 .. Cardinality(S) -> S] : IsInjective(f)
  <2>1. PICK f : f \in Bijection(1 .. Cardinality(S), S)
    BY FS_CardinalityType DEF ExistsBijection
  <2>2. f \in [1 .. Cardinality(S) -> S] /\ IsInjective(f)
    BY <2>1 DEF Bijection, Injection, IsInjective
  <2>3. QED
    BY <2>2
<1>3. order \in [1 .. Cardinality(S) -> S]
  BY <1>2 DEF SetToSeq
<1> HIDE DEF order
<1>4. [i \in DOMAIN order |-> <<name, order[i]>>] \in [1 .. Cardinality(S) -> T]
  BY <1>3
<1>5. [i \in DOMAIN order |-> <<name, order[i]>>] \in Seq(T)
  BY <1>1, <1>4
<1>6. QED
  BY <1>5 DEF Each, order

-----------------------------------------------------------------------------
(* A transaction *)

\* The parts of a transaction, and the bytes it is about.
LEMMA PendingParts ==
    ASSUME NEW p \in Pendings
    PROVE  /\ p.bootstrap \in BOOLEAN
           /\ p.previous \in Inventories /\ p.next \in Inventories
           /\ p.creates \subseteq Artifacts /\ p.makes \subseteq Directories
           /\ p.removes \subseteq Directories
           /\ Updates(p) \subseteq Artifacts /\ Deletes(p) \subseteq Artifacts
           /\ Writes(p) \subseteq DOMAIN p.next.owned /\ Writes(p) \subseteq Artifacts
           /\ \A a \in Updates(p) : p.updates[a] \in GeneratedData
           /\ \A a \in Deletes(p) : p.deletes[a] \in GeneratedData
PROOF
<1>1. p \in [bootstrap : BOOLEAN, previous : Inventories, next : Inventories,
             creates : SUBSET Artifacts, updates : Changed, deletes : Changed,
             makes : SUBSET Directories, removes : SUBSET Directories]
      /\ Writes(p) \subseteq DOMAIN p.next.owned
  BY DEF Pendings
<1>2. /\ p.bootstrap \in BOOLEAN
      /\ p.previous \in Inventories /\ p.next \in Inventories
      /\ p.creates \subseteq Artifacts /\ p.makes \subseteq Directories
      /\ p.removes \subseteq Directories
      /\ p.updates \in Changed /\ p.deletes \in Changed
  BY <1>1
<1>3. ASSUME NEW c \in Changed
      PROVE  DOMAIN c \subseteq Artifacts /\ \A a \in DOMAIN c : c[a] \in GeneratedData
  <2>1. PICK S \in SUBSET Artifacts : c \in [S -> GeneratedData]
    BY DEF Changed
  <2>2. QED
    BY <2>1
<1>4. QED
  BY <1>1, <1>2, <1>3 DEF Writes, Updates, Deletes

\* What a desired set has for a path is a content.
LEMMA DesiredContent ==
    ASSUME NEW D \in Desires \cup {<<>>}, NEW a \in DOMAIN D
    PROVE  Generated(D[a]) \in GeneratedData /\ a \in Artifacts
PROOF
<1>1. D \in Desires
  <2>1. DOMAIN <<>> = {}
    OBVIOUS
  <2>2. QED
    BY <2>1
<1>2. D[a] \in ContentValues
  BY <1>1 DEF ContentValues
<1>3. QED
  BY <1>1, <1>2, DesiresAssumption DEF Generated, GeneratedData

\* What a transaction writes, expects and records, are bytes of the store.
LEMMA PendingData ==
    ASSUME NEW p \in Pendings
    PROVE  /\ \A a \in Writes(p) : NewContent(p, a) \in FileData
           /\ \A a \in Updates(p) \cup Deletes(p) : Expected(p, a) \in FileData
           /\ \A c \in Controls : Before(p, c) \in FileData /\ After(p, c) \in FileData
           /\ <<"pending", p>> \in FileData
PROOF
<1>1. GeneratedData \subseteq FileData /\ Bootstrap \in FileData
  BY DEF FileData
<1>2. ASSUME NEW i \in Inventories
      PROVE  InventoryOf(i) \in FileData /\ StateOf(i) \in FileData
             /\ i.owned \in Desires \cup {<<>>}
  BY DEF FileData, InventoryOf, StateOf, Inventories
<1>3. ASSUME NEW a \in Writes(p)
      PROVE  NewContent(p, a) \in FileData
  BY <1>1, <1>2, PendingParts, DesiredContent DEF NewContent
<1>4. ASSUME NEW a \in Updates(p) \cup Deletes(p)
      PROVE  Expected(p, a) \in FileData
  BY <1>1, PendingParts DEF Expected
<1>5. ASSUME NEW c \in Controls
      PROVE  Before(p, c) \in FileData /\ After(p, c) \in FileData
  BY <1>1, <1>2, PendingParts DEF Before, After, Controls
<1>6. <<"pending", p>> \in FileData
  BY DEF FileData
<1>7. QED
  BY <1>3, <1>4, <1>5, <1>6

\* The sets of a transaction are finite.
LEMMA PendingFinite ==
    ASSUME NEW p \in Pendings
    PROVE  /\ IsFiniteSet(Writes(p)) /\ IsFiniteSet(Updates(p)) /\ IsFiniteSet(Deletes(p))
           /\ IsFiniteSet(p.makes) /\ IsFiniteSet(p.removes)
BY PendingParts, ArtifactsAssumption, DirectoriesFinite, FS_Subset

\* The steps about the members of each set of a transaction.
LEMMA EachOfPending ==
    ASSUME NEW p \in Pendings
    PROVE  /\ \A k \in WriteItems : Each(Writes(p), k) \in Seq(Steps(p))
           /\ \A k \in SourceItems : /\ Each(Updates(p), k) \in Seq(Steps(p))
                                     /\ Each(Deletes(p), k) \in Seq(Steps(p))
           /\ \A k \in PlaceItems : /\ Each(p.makes, k) \in Seq(Steps(p))
                                    /\ Each(p.removes, k) \in Seq(Steps(p))
PROOF
<1>1. TransactionSteps(p) \subseteq Steps(p)
  BY DEF Steps
<1>2. /\ \A k \in WriteItems : \A a \in Writes(p) : <<k, a>> \in TransactionSteps(p)
      /\ \A k \in SourceItems : \A a \in Updates(p) \cup Deletes(p) :
            <<k, a>> \in TransactionSteps(p)
      /\ \A k \in PlaceItems : \A d \in Directories : <<k, d>> \in TransactionSteps(p)
  BY DEF TransactionSteps, WriteItems, SourceItems, PlaceItems
<1>3. ASSUME NEW k \in WriteItems
      PROVE  Each(Writes(p), k) \in Seq(Steps(p))
  <2>1. \A a \in Writes(p) : <<k, a>> \in Steps(p)
    BY <1>1, <1>2
  <2>2. QED
    BY <2>1, PendingFinite, EachSteps
<1>4. ASSUME NEW k \in SourceItems
      PROVE  Each(Updates(p), k) \in Seq(Steps(p)) /\ Each(Deletes(p), k) \in Seq(Steps(p))
  <2>1. /\ \A a \in Updates(p) : <<k, a>> \in Steps(p)
        /\ \A a \in Deletes(p) : <<k, a>> \in Steps(p)
    BY <1>1, <1>2
  <2>2. QED
    BY <2>1, PendingFinite, EachSteps
<1>5. ASSUME NEW k \in PlaceItems
      PROVE  Each(p.makes, k) \in Seq(Steps(p)) /\ Each(p.removes, k) \in Seq(Steps(p))
  <2>1. /\ \A d \in p.makes : <<k, d>> \in Steps(p)
        /\ \A d \in p.removes : <<k, d>> \in Steps(p)
    BY <1>1, <1>2, PendingParts
  <2>2. QED
    BY <2>1, PendingFinite, EachSteps
<1>6. QED
  BY <1>3, <1>4, <1>5

\* One sequence of steps after another, and one that is taken under a condition.
LEMMA Joined ==
    ASSUME NEW S, NEW s \in Seq(S), NEW t \in Seq(S)
    PROVE  s \o t \in Seq(S)
OBVIOUS

\* The bootstrap of a workspace.
LEMMA BootstrapTyped ==
    ASSUME NEW p
    PROVE  BootstrapSteps \in Seq(Steps(p))
PROOF
<1> DEFINE S == Steps(p)
<1>1. <<"ownership-root">> \in FileData /\ Bootstrap \in FileData
  BY DEF FileData
<1>2. Create(OwnershipRoot, <<"dir">>) \in Seq(S)
  BY SingleNames, OperationSteps
<1>3. Create(Reserved("ownership-proof", ""), <<"ownership-root">>) \in Seq(S)
  BY <1>1, SingleNames, OperationSteps
<1>4. Link(Reserved("ownership-proof", ""), Owned("root-claim", "")) \in Seq(S)
  BY SingleNames, OperationSteps
<1>5. Create(State, Bootstrap) \in Seq(S)
  BY <1>1, SingleNames, OperationSteps
<1> HIDE DEF S
<1>6. QED
  BY <1>2, <1>3, <1>4, <1>5, Joined DEF BootstrapSteps, S

\* The application of a transaction.
LEMMA ApplyTyped ==
    ASSUME NEW p \in Pendings
    PROVE  ApplySteps(p) \in Seq(Steps(p))
PROOF
<1> DEFINE S == Steps(p)
<1>1. /\ Each(Updates(p), "quarantine") \in Seq(S) /\ Each(Deletes(p), "quarantine") \in Seq(S)
      /\ Each(p.removes, "remove directory") \in Seq(S)
      /\ Each(p.makes, "make directory") \in Seq(S) /\ Each(Writes(p), "activate") \in Seq(S)
  BY EachOfPending DEF WriteItems, SourceItems, PlaceItems
<1>2. /\ Then("verify", "") \in Seq(S) /\ Then("switch", "inventory") \in Seq(S)
      /\ Then("switch", "state") \in Seq(S)
  BY ItemSteps DEF WholeItems, ControlItems, Controls
<1> HIDE DEF S
<1>3. QED
  BY <1>1, <1>2, Joined DEF ApplySteps, S

\* What has two names is removed under the proof of the other one.
LEMMA RecordsDiffer ==
    Pending # Cleanup /\ PendingProof # Cleanup
BY DEF Pending, Cleanup, PendingProof, Reserved

\* The cleanup of a transaction.
LEMMA CleanupTyped ==
    ASSUME NEW p \in Pendings
    PROVE  CleanupSteps(p) \in Seq(Steps(p))
PROOF
<1> DEFINE S == Steps(p)
<1>1. /\ Each(Updates(p), "sweep quarantine") \in Seq(S)
      /\ Each(Deletes(p), "sweep quarantine") \in Seq(S)
      /\ Each(p.removes, "sweep directory") \in Seq(S)
      /\ Each(Writes(p), "sweep activation") \in Seq(S)
      /\ Each(p.makes, "sweep claim") \in Seq(S) /\ Each(Writes(p), "sweep stage") \in Seq(S)
  BY EachOfPending DEF WriteItems, SourceItems, PlaceItems
<1>2. /\ Then("mark", "") \in Seq(S) /\ Then("sweep staging", "") \in Seq(S)
      /\ Then("swept", "") \in Seq(S)
      /\ Then("sweep control", "inventory") \in Seq(S) /\ Then("sweep control", "state") \in Seq(S)
  BY ItemSteps DEF WholeItems, ControlItems, Controls
<1>3. Unlink(Pending, Cleanup) \in Seq(S) /\ Unlink(PendingProof, Cleanup) \in Seq(S)
  BY SingleNames, OperationSteps, RecordsDiffer
<1>4. Discard(Cleanup, <<"pending", p>>) \in Seq(S)
  BY SingleNames, OperationSteps, PendingData
<1> HIDE DEF S
<1>5. QED
  BY <1>1, <1>2, <1>3, <1>4, Joined DEF CleanupSteps, S

\* The preparation of a transaction.
LEMMA PrepareTyped ==
    ASSUME NEW p \in Pendings
    PROVE  PrepareSteps(p) \in Seq(Steps(p))
PROOF
<1> DEFINE S == Steps(p)
           Control(c) == Create(Reserved("temporary", c), After(p, c))
                         \o Link(Reserved("temporary", c), Reserved("temporary-proof", c))
                         \o When(Replaces(p, c),
                                 Link(Reserved("control", c), Reserved("previous-proof", c)))
           Stage == Create(StagingRoot, <<"dir">>)
                    \o Create(Reserved("staging-proof", ""), <<"staging">>)
                    \o Link(Reserved("staging-proof", ""), Staged("claim", ""))
           record == Reserved("pending-temporary", "")
<1>1. <<>> \in Seq(S)
  BY OperationSteps
<1>2. Stage \in Seq(S)
  <2>1. <<"staging">> \in FileData
    BY DEF FileData
  <2>2. Create(StagingRoot, <<"dir">>) \in Seq(S)
    BY SingleNames, OperationSteps
  <2>3. Create(Reserved("staging-proof", ""), <<"staging">>) \in Seq(S)
    BY <2>1, SingleNames, OperationSteps
  <2>4. Link(Reserved("staging-proof", ""), Staged("claim", "")) \in Seq(S)
    BY SingleNames, OperationSteps
  <2> HIDE DEF S
  <2>5. QED
    BY <2>2, <2>3, <2>4, Joined
<1>3. When(Writes(p) # {}, Stage) \in Seq(S)
  BY <1>1, <1>2 DEF When
<1>4. ASSUME NEW c \in Controls
      PROVE  Control(c) \in Seq(S)
  <2>1. Create(Reserved("temporary", c), After(p, c)) \in Seq(S)
    BY ControlNames, OperationSteps, PendingData
  <2>2. Link(Reserved("temporary", c), Reserved("temporary-proof", c)) \in Seq(S)
    BY ControlNames, OperationSteps
  <2>3. Link(Reserved("control", c), Reserved("previous-proof", c)) \in Seq(S)
    BY ControlNames, OperationSteps
  <2>4. When(Replaces(p, c), Link(Reserved("control", c), Reserved("previous-proof", c)))
          \in Seq(S)
    BY <1>1, <2>3 DEF When
  <2> HIDE DEF S
  <2>5. QED
    BY <2>1, <2>2, <2>4, Joined
<1>5. Control("inventory") \in Seq(S) /\ Control("state") \in Seq(S)
  BY <1>4 DEF Controls
<1>6. /\ Each(Writes(p), "stage") \in Seq(S) /\ Each(p.makes, "anchor") \in Seq(S)
      /\ Each(Updates(p), "source") \in Seq(S) /\ Each(Deletes(p), "source") \in Seq(S)
  BY EachOfPending DEF WriteItems, SourceItems, PlaceItems
<1>7. Then("prepared", "") \in Seq(S) /\ Then("staged", "") \in Seq(S)
  BY ItemSteps DEF WholeItems
<1>8. Create(record, <<"pending", p>>) \in Seq(S)
  BY SingleNames, OperationSteps, PendingData
<1>9. Link(record, PendingProof) \in Seq(S) /\ Rename(record, Pending) \in Seq(S)
  BY SingleNames, OperationSteps
<1>10. PrepareSteps(p) =
          When(Writes(p) # {}, Stage)
          \o Each(Writes(p), "stage") \o Each(p.makes, "anchor")
          \o Each(Updates(p), "source") \o Each(Deletes(p), "source")
          \o Then("prepared", "") \o Control("inventory") \o Control("state")
          \o Then("staged", "")
          \o Create(record, <<"pending", p>>) \o Link(record, PendingProof)
          \o Rename(record, Pending)
  BY DEF PrepareSteps
<1> DEFINE first  == When(Writes(p) # {}, Stage)
                     \o Each(Writes(p), "stage") \o Each(p.makes, "anchor")
                     \o Each(Updates(p), "source") \o Each(Deletes(p), "source")
           second == first \o Then("prepared", "") \o Control("inventory") \o Control("state")
                     \o Then("staged", "")
           third  == second \o Create(record, <<"pending", p>>) \o Link(record, PendingProof)
                     \o Rename(record, Pending)
<1>11. PrepareSteps(p) = third
  BY <1>10
<1> HIDE DEF S, Stage, Control, record
<1>12. first \in Seq(S)
  BY <1>3, <1>6, Joined
<1> HIDE DEF first
<1>13. second \in Seq(S)
  BY <1>5, <1>7, <1>12, Joined
<1> HIDE DEF second
<1>14. third \in Seq(S)
  BY <1>8, <1>9, <1>13, Joined
<1> HIDE DEF third
<1>15. QED
  BY <1>11, <1>14 DEF S

\* A comparison without conflicts is a transaction.
LEMMA ComparisonTyped ==
    ASSUME SoundTree(fs), Active \in Inventories, NEW D \in Desires, Conflicts(D) = {}
    PROVE  Comparison(D) \in Pendings
PROOF
<1> DEFINE own   == Active.owned
           makes == {d \in DesiredDirectories(D) : ~Exists(Directory(d))}
           stale == {a \in DOMAIN D : Exists(Target(a)) /\ ~Holds(Target(a), Generated(D[a]))}
           creates == {a \in DOMAIN D : ~Exists(Target(a))}
           updates == [a \in stale |-> fs[Target(a)].data]
           next == [owned |-> D,
                    directories |-> makes \cup (DesiredDirectories(D) \cap Active.directories)]
           removes == Active.directories \ DesiredDirectories(D)
<1>1. /\ own \in Desires \cup {<<>>} /\ Active.directories \subseteq Directories
      /\ DOMAIN D \subseteq Artifacts
  BY DesiresAssumption DEF Inventories
<1>2. DesiredDirectories(D) \subseteq Directories
  BY DEF DesiredDirectories, Directories
<1>3. next \in Inventories /\ next.owned = D
  BY <1>1, <1>2 DEF Inventories
<1>4. \A a \in stale : fs[Target(a)].data \in GeneratedData
  <2> SUFFICES ASSUME NEW a \in stale
               PROVE  fs[Target(a)].data \in GeneratedData
    OBVIOUS
  <2>1. a \in DOMAIN D /\ Exists(Target(a))
    OBVIOUS
  <2>2. a \in DOMAIN own /\ fs[Target(a)].data \in {Generated(D[a]), Generated(own[a])}
    BY <2>1 DEF Conflicts
  <2>3. Generated(D[a]) \in GeneratedData /\ Generated(own[a]) \in GeneratedData
    BY <1>1, <2>1, <2>2, DesiredContent
  <2>4. QED
    BY <2>2, <2>3
<1>5. updates \in Changed /\ DOMAIN updates = stale
  <2>1. updates \in [stale -> GeneratedData] /\ stale \in SUBSET Artifacts
    BY <1>1, <1>4
  <2>2. QED
    BY <2>1 DEF Changed
<1>6. StaleArtifacts(D) \in Changed
  <2> DEFINE gone == {b \in DOMAIN own \ DOMAIN D : Exists(Target(b))}
  <2>1. \A a \in gone : Generated(own[a]) \in GeneratedData /\ a \in Artifacts
    BY <1>1, DesiredContent
  <2>2. StaleArtifacts(D) \in [gone -> GeneratedData] /\ gone \in SUBSET Artifacts
    BY <2>1 DEF StaleArtifacts
  <2> HIDE DEF gone
  <2>3. QED
    BY <2>2 DEF Changed
<1>7. creates \subseteq Artifacts /\ creates \cup stale \subseteq DOMAIN D
  BY <1>1
<1>8. makes \subseteq Directories /\ removes \subseteq Directories
  BY <1>1, <1>2
<1>9. (~Exists(Inventory)) \in BOOLEAN
  BY DEF Exists
<1>10. Comparison(D) =
          [bootstrap |-> ~Exists(Inventory), previous |-> Active, next |-> next,
           creates |-> creates, updates |-> updates, deletes |-> StaleArtifacts(D),
           makes |-> makes, removes |-> removes]
  BY DEF Comparison
<1> HIDE DEF own, makes, stale, creates, updates, next, removes
<1>11. Comparison(D) \in [bootstrap : BOOLEAN, previous : Inventories, next : Inventories,
             creates : SUBSET Artifacts, updates : Changed, deletes : Changed,
             makes : SUBSET Directories, removes : SUBSET Directories]
  BY <1>3, <1>5, <1>6, <1>7, <1>8, <1>9, <1>10
<1>12. Writes(Comparison(D)) \subseteq DOMAIN Comparison(D).next.owned
  BY <1>3, <1>5, <1>7, <1>10 DEF Writes, Updates
<1>13. QED
  BY <1>11, <1>12 DEF Pendings

-----------------------------------------------------------------------------
(* The inspections put known steps in their place *)

\* A sequence of two.
LEMMA TwoParts ==
    ASSUME NEW x, NEW y
    PROVE  Head(<<x, y>>) = x /\ Tail(<<x, y>>) = <<y>> /\ <<x, y>> # <<>>
OBVIOUS

\* Two sequences of one step, joined, are the sequence of the two.
LEMMA JoinedPair ==
    ASSUME NEW S, NEW s \in Seq(S), NEW t \in Seq(S), Len(s) = 1, Len(t) = 1,
           NEW u \in Seq(S), Len(u) = 2, u[1] = s[1], u[2] = t[1]
    PROVE  s \o t = u
PROOF
<1>1. PICK w : w = s \o t
  OBVIOUS
<1>2. /\ w \in Seq(S) /\ Len(w) = Len(s) + Len(t)
      /\ \A i \in 1 .. Len(s) + Len(t) : w[i] = IF i <= Len(s) THEN s[i] ELSE t[i - Len(s)]
  BY <1>1, ConcatProperties
<1>3. w[1] = s[1] /\ w[2] = t[1] /\ Len(w) = 2
  BY <1>2
<1>4. w = u
  BY <1>2, <1>3
<1>5. QED
  BY <1>1, <1>4

\* Two steps, joined.
LEMMA TwoJoined ==
    ASSUME NEW x, NEW y
    PROVE  <<x>> \o <<y>> = <<x, y>>
PROOF
<1> DEFINE s == <<x>>
           t == <<y>>
           u == <<x, y>>
           S == {x, y}
<1>1. s \in Seq(S) /\ t \in Seq(S) /\ u \in Seq(S)
  OBVIOUS
<1>2. Len(s) = 1 /\ Len(t) = 1 /\ Len(u) = 2
  OBVIOUS
<1>3. s[1] = x /\ t[1] = y /\ u[1] = x /\ u[2] = y
  OBVIOUS
<1> HIDE DEF s, t, u, S
<1>4. s \o t = u
  BY <1>1, <1>2, <1>3, JoinedPair
<1>5. QED
  BY <1>4 DEF s, t, u

\* A synchronisation begins with the inspection of the records.
LEMMA LoadingParts ==
    Head(Loading)[1] = "load" /\ Tail(Loading) = Then("compare", "") /\ Loading # <<>>
PROOF
<1> DEFINE x == <<"load", "">>
           y == <<"compare", "">>
<1>1. Loading = <<x, y>> /\ x[1] = "load" /\ Then("compare", "") = <<y>>
  BY DEF Loading, Then
<1> HIDE DEF x, y
<1>2. QED
  BY <1>1, TwoParts

\* A synchronisation that is past its start has known steps left.
LEMMA StepsLeft ==
    ASSUME TodoInv, Running, Head(todo)[1] # "load"
    PROVE  /\ todo \in Seq(Steps(pending)) /\ Head(todo) \in Steps(pending)
           /\ Tail(todo) \in Seq(Steps(pending))
PROOF
<1>1. Head(Loading)[1] = "load"
  BY LoadingParts
<1>2. todo \in Seq(Steps(pending))
  BY <1>1 DEF TodoInv
<1>3. QED
  BY <1>2 DEF Running

\* What an inspection of a transaction is about.
LEMMA ItemTyped ==
    ASSUME TodoInv, Running
    PROVE  /\ Head(todo)[1] \in WriteItems => pending \in Pendings /\ Item \in Writes(pending)
           /\ Head(todo)[1] \in SourceItems =>
                 pending \in Pendings /\ Item \in Updates(pending) \cup Deletes(pending)
           /\ Head(todo)[1] \in PlaceItems => pending \in Pendings /\ Item \in Directories
           /\ Head(todo)[1] \in ControlItems => pending \in Pendings /\ Item \in Controls
           /\ Head(todo)[1] \in WholeItems => pending \in Pendings
PROOF
<1>1. CASE Head(todo)[1] # "load"
  BY <1>1, StepsLeft, ItemCases DEF Item
<1>2. CASE Head(todo)[1] = "load"
  BY <1>2 DEF WriteItems, SourceItems, PlaceItems, ControlItems, WholeItems
<1>3. QED
  BY <1>1, <1>2

\* An inspection that puts known steps in its place keeps the invariant.
LEMMA Continued ==
    ASSUME Inv, Running, Head(todo)[1] # "load", NEW steps \in Seq(Steps(pending)),
           Continue(steps)
    PROVE  Inv'
PROOF
<1>1. todo' = steps \o Tail(todo) /\ UNCHANGED <<fs, run, result, calm, touches, crashes>>
  BY DEF Continue
<1>2. Tail(todo) \in Seq(Steps(pending))
  BY StepsLeft DEF Inv
<1>3. todo' \in Seq(Steps(pending)) /\ pending' = pending
  BY <1>1, <1>2, Joined DEF run
<1>4. TodoInv'
  BY <1>3 DEF TodoInv
<1>5. TreeInv'
  BY <1>1 DEF Inv, TreeInv
<1>6. ControlInv'
  BY <1>1 DEF Inv, ControlInv, run, Running
<1>7. QED
  BY <1>4, <1>5, <1>6 DEF Inv

\* The inspections that only decide whether to go on.
LEMMA ChecksKeep ==
    ASSUME Inv,
           \/ Settle \/ Confirm \/ CheckSource \/ CheckPrepared \/ CheckStage
           \/ CheckDirectory \/ CheckArtifact \/ Verify \/ CheckSwept
    PROVE  Inv'
PROOF
<1>1. ASSUME NEW c, Continue(When(c, Fail)), Running, Head(todo)[1] # "load"
      PROVE  Inv'
  <2>1. When(c, Fail) \in Seq(Steps(pending))
    BY OperationSteps DEF When
  <2>2. QED
    BY <1>1, <2>1, Continued
<1>2. CASE Settle
  BY <1>1, <1>2 DEF Settle, Here
<1>3. CASE Confirm
  BY <1>1, <1>3 DEF Confirm, Here
<1>4. CASE CheckSource
  BY <1>1, <1>4 DEF CheckSource, Here
<1>5. CASE CheckPrepared
  BY <1>1, <1>5 DEF CheckPrepared, Here
<1>6. CASE CheckStage
  BY <1>1, <1>6 DEF CheckStage, Here
<1>7. CASE CheckDirectory
  BY <1>1, <1>7 DEF CheckDirectory, Here
<1>8. CASE CheckArtifact
  BY <1>1, <1>8 DEF CheckArtifact, Here
<1>9. CASE Verify
  BY <1>1, <1>9 DEF Verify, Here
<1>10. CASE CheckSwept
  BY <1>1, <1>10 DEF CheckSwept, Here
<1>11. QED
  BY <1>2, <1>3, <1>4, <1>5, <1>6, <1>7, <1>8, <1>9, <1>10

\* The quarantine of an old file.
LEMMA EnsureQuarantineKeeps ==
    ASSUME Inv, EnsureQuarantine
    PROVE  Inv'
PROOF
<1> DEFINE S == Steps(pending)
           a == Item
           q == Owned("quarantine", a)
<1>1. Running /\ Head(todo)[1] = "quarantine"
  BY DEF EnsureQuarantine, Here
<1>2. pending \in Pendings /\ a \in Updates(pending) \cup Deletes(pending) /\ a \in Artifacts
  BY <1>1, ItemTyped, PendingParts DEF Inv, SourceItems
<1>3. Target(a) \in FileNames /\ q \in FileNames
  BY <1>2, ArtifactNames
<1>4. /\ Rename(q, Target(a)) \in Seq(S) /\ Rename(Target(a), q) \in Seq(S)
      /\ Fail \in Seq(S) /\ <<>> \in Seq(S)
  BY <1>3, OperationSteps
<1>5. Then("quarantined", a) \in Seq(S)
  BY <1>2, ItemSteps DEF SourceItems
<1>6. /\ Rename(q, Target(a)) \o Fail \in Seq(S)
      /\ Rename(Target(a), q) \o Then("quarantined", a) \in Seq(S)
  BY <1>4, <1>5, Joined
<1>7. \E steps \in Seq(S) : Continue(steps)
  BY <1>4, <1>6 DEF EnsureQuarantine, If, When
<1>8. QED
  BY <1>1, <1>7, Continued

\* A quarantined file that is not what was inspected goes back.
LEMMA CheckQuarantineKeeps ==
    ASSUME Inv, CheckQuarantine
    PROVE  Inv'
PROOF
<1> DEFINE S == Steps(pending)
           a == Item
<1>1. Running /\ Head(todo)[1] = "quarantined"
  BY DEF CheckQuarantine, Here
<1>2. a \in Artifacts
  BY <1>1, ItemTyped, PendingParts DEF Inv, SourceItems
<1>3. Target(a) \in FileNames /\ Owned("quarantine", a) \in FileNames
  BY <1>2, ArtifactNames
<1>4. Rename(Owned("quarantine", a), Target(a)) \in Seq(S) /\ Fail \in Seq(S) /\ <<>> \in Seq(S)
  BY <1>3, OperationSteps
<1>5. Rename(Owned("quarantine", a), Target(a)) \o Fail \in Seq(S)
  BY <1>4, Joined
<1>6. \E steps \in Seq(S) : Continue(steps)
  BY <1>4, <1>5 DEF CheckQuarantine, When
<1>7. QED
  BY <1>1, <1>6, Continued

\* A directory is taken away, or what was taken away is checked.
LEMMA DirectoryRemovalKeeps ==
    ASSUME Inv, EnsureDirectoryRemoval \/ CheckDirectoryRemoval
    PROVE  Inv'
PROOF
<1> DEFINE S == Steps(pending)
           d == Item
           claim == Owned("claim-quarantine", d)
<1>1. Running /\ Head(todo)[1] \in {"remove directory", "directory removed"}
  BY DEF EnsureDirectoryRemoval, CheckDirectoryRemoval, Here
<1>2. pending \in Pendings /\ d \in Directories
  BY <1>1, ItemTyped DEF Inv, PlaceItems
<1>3. Directory(d) \in Places(d) /\ Quarantined(d) \in Places(d)
  BY DEF Places
<1>4. Claim(Directory(d)) \in FileNames /\ claim \in FileNames
  BY <1>2, <1>3, PlaceNames
<1>5. /\ Move(Directory(d), Quarantined(d)) \in Seq(S)
      /\ Move(Quarantined(d), Directory(d)) \in Seq(S)
      /\ Rename(Claim(Directory(d)), claim) \in Seq(S)
      /\ Fail \in Seq(S) /\ <<>> \in Seq(S)
  BY <1>2, <1>3, <1>4, OperationSteps
<1>6. Then("directory removed", d) \in Seq(S)
  BY <1>2, ItemSteps DEF PlaceItems
<1>7. /\ Move(Directory(d), Quarantined(d)) \o Then("directory removed", d) \in Seq(S)
      /\ Move(Quarantined(d), Directory(d)) \o Fail \in Seq(S)
  BY <1>5, <1>6, Joined
<1>8. CASE EnsureDirectoryRemoval
  <2>1. \E steps \in Seq(S) : Continue(steps)
    BY <1>5, <1>7, <1>8 DEF EnsureDirectoryRemoval, If
  <2>2. QED
    BY <1>1, <2>1, Continued
<1>9. CASE CheckDirectoryRemoval
  <2>1. \E steps \in Seq(S) : Continue(steps)
    BY <1>5, <1>7, <1>9 DEF CheckDirectoryRemoval, When
  <2>2. QED
    BY <1>1, <2>1, Continued
<1>10. QED
  BY <1>8, <1>9

\* A directory is prepared with its claim and gets its name.
LEMMA MakeDirectoryKeeps ==
    ASSUME Inv, MakeDirectory \/ PlaceDirectory
    PROVE  Inv'
PROOF
<1> DEFINE S == Steps(pending)
           d == Item
           place == Preparation(d)
           anchor == Owned("anchor", d)
           Claimed == LinkVerified(anchor, Owned("claim-proof", d), Claim(place))
<1>1. Running /\ Head(todo)[1] \in {"make directory", "directory prepared"}
  BY DEF MakeDirectory, PlaceDirectory, Here
<1>2. pending \in Pendings /\ d \in Directories
  BY <1>1, ItemTyped DEF Inv, PlaceItems
<1>3. Directory(d) \in Places(d) /\ place \in Places(d)
  BY DEF Places
<1>4. /\ Claim(place) \in FileNames /\ anchor \in FileNames
      /\ Owned("claim-proof", d) \in FileNames /\ place \in DirectoryNames
  BY <1>2, <1>3, PlaceNames
<1>5. /\ Create(place, <<"dir">>) \in Seq(S) /\ Move(place, Directory(d)) \in Seq(S)
      /\ Claimed \in Seq(S) /\ Fail \in Seq(S) /\ <<>> \in Seq(S)
  BY <1>2, <1>3, <1>4, OperationSteps
<1>6. Then("directory prepared", d) \in Seq(S) /\ Then("directory made", d) \in Seq(S)
  BY <1>2, ItemSteps DEF PlaceItems
<1>7. /\ Create(place, <<"dir">>) \o Claimed \o Then("directory prepared", d) \in Seq(S)
      /\ Move(place, Directory(d)) \o Then("directory made", d) \in Seq(S)
  <2> HIDE DEF S, d, place, anchor, Claimed
  <2>1. QED
    BY <1>5, <1>6, Joined
<1>8. CASE MakeDirectory
  <2>1. \E steps \in Seq(S) : Continue(steps)
    BY <1>5, <1>6, <1>7, <1>8 DEF MakeDirectory, If
  <2>2. QED
    BY <1>1, <2>1, Continued
<1>9. CASE PlaceDirectory
  <2>1. \E steps \in Seq(S) : Continue(steps)
    BY <1>5, <1>7, <1>9 DEF PlaceDirectory, If
  <2>2. QED
    BY <1>1, <2>1, Continued
<1>10. QED
  BY <1>8, <1>9

\* A new artifact is staged and linked into its place.
LEMMA ArtifactKeeps ==
    ASSUME Inv, StageArtifact \/ EnsureActivation \/ CheckActivation \/ InstallArtifact
    PROVE  Inv'
PROOF
<1> DEFINE S == Steps(pending)
           a == Item
           stage == Staged("stage", a)
           proof == Staged("stage-proof", a)
           activation == Owned("activation", a)
<1>1. Running /\ Head(todo)[1] \in {"stage", "activate", "activated", "install"}
  BY DEF StageArtifact, EnsureActivation, CheckActivation, InstallArtifact, Here
<1>2. pending \in Pendings /\ a \in Writes(pending) /\ a \in Artifacts
  BY <1>1, ItemTyped, PendingParts DEF Inv, WriteItems
<1>3. /\ Target(a) \in FileNames /\ stage \in FileNames /\ proof \in FileNames
      /\ activation \in FileNames
  BY <1>2, ArtifactNames
<1>4. NewContent(pending, a) \in FileData
  BY <1>2, PendingData
<1>5. /\ Create(stage, NewContent(pending, a)) \in Seq(S) /\ Link(stage, proof) \in Seq(S)
      /\ LinkVerified(proof, stage, activation) \in Seq(S)
      /\ LinkVerified(proof, stage, Target(a)) \in Seq(S)
      /\ Fail \in Seq(S) /\ <<>> \in Seq(S)
  BY <1>3, <1>4, OperationSteps
<1>6. /\ Then("activated", a) \in Seq(S) /\ Then("install", a) \in Seq(S)
      /\ Then("installed", a) \in Seq(S)
  BY <1>2, ItemSteps DEF WriteItems
<1>7. /\ Create(stage, NewContent(pending, a)) \o Link(stage, proof) \in Seq(S)
      /\ LinkVerified(proof, stage, activation) \o Then("activated", a) \in Seq(S)
      /\ LinkVerified(proof, stage, Target(a)) \o Then("installed", a) \in Seq(S)
      /\ Fail \o Then("installed", a) \in Seq(S)
      /\ <<>> \o Then("installed", a) \in Seq(S) /\ <<>> \o Then("activated", a) \in Seq(S)
  <2> HIDE DEF S, a, stage, proof, activation
  <2>1. QED
    BY <1>5, <1>6, Joined
<1>8. CASE StageArtifact
  <2>1. \E steps \in Seq(S) : Continue(steps)
    BY <1>7, <1>8 DEF StageArtifact
  <2>2. QED
    BY <1>1, <2>1, Continued
<1>9. CASE EnsureActivation
  <2>1. \E steps \in Seq(S) : Continue(steps)
    BY <1>5, <1>7, <1>9 DEF EnsureActivation, If, When
  <2>2. QED
    BY <1>1, <2>1, Continued
<1>10. CASE CheckActivation
  <2>1. \E steps \in Seq(S) : Continue(steps)
    BY <1>5, <1>6, <1>10 DEF CheckActivation, If
  <2>2. QED
    BY <1>1, <2>1, Continued
<1>11. CASE InstallArtifact
  <2>1. \E steps \in Seq(S) : Continue(steps)
    BY <1>5, <1>7, <1>11 DEF InstallArtifact, When
  <2>2. QED
    BY <1>1, <2>1, Continued
<1>12. QED
  BY <1>8, <1>9, <1>10, <1>11

\* The anchor of a directory, and the second name of an old file.
LEMMA CaptureKeeps ==
    ASSUME Inv, AnchorDirectory \/ CaptureSource
    PROVE  Inv'
PROOF
<1> DEFINE S == Steps(pending)
           x == Item
<1>1. CASE AnchorDirectory
  <2>1. Running /\ Head(todo)[1] = "anchor"
    BY <1>1 DEF AnchorDirectory, Here
  <2>2. x \in Directories
    BY <2>1, ItemTyped DEF Inv, PlaceItems
  <2>3. Owned("anchor", x) \in FileNames /\ Owned("claim-proof", x) \in FileNames
    BY <2>2, PlaceNames
  <2>4. ClaimOf(x) \in FileData
    BY <2>2 DEF ClaimOf, FileData
  <2>5. /\ Create(Owned("anchor", x), ClaimOf(x)) \in Seq(S)
        /\ Link(Owned("anchor", x), Owned("claim-proof", x)) \in Seq(S)
    BY <2>3, <2>4, OperationSteps
  <2>6. Create(Owned("anchor", x), ClaimOf(x)) \o Link(Owned("anchor", x), Owned("claim-proof", x))
           \in Seq(S)
    BY <2>5, Joined
  <2>7. \E steps \in Seq(S) : Continue(steps)
    BY <1>1, <2>6 DEF AnchorDirectory
  <2>8. QED
    BY <2>1, <2>7, Continued
<1>2. CASE CaptureSource
  <2>1. Running /\ Head(todo)[1] = "source"
    BY <1>2 DEF CaptureSource, Here
  <2>2. pending \in Pendings /\ x \in Updates(pending) \cup Deletes(pending) /\ x \in Artifacts
    BY <2>1, ItemTyped, PendingParts DEF Inv, SourceItems
  <2>3. Target(x) \in FileNames /\ Owned("source-proof", x) \in FileNames
    BY <2>2, ArtifactNames
  <2>4. Link(Target(x), Owned("source-proof", x)) \in Seq(S)
    BY <2>3, OperationSteps
  <2>5. Then("captured", x) \in Seq(S)
    BY <2>2, ItemSteps DEF SourceItems
  <2>6. Link(Target(x), Owned("source-proof", x)) \o Then("captured", x) \in Seq(S)
    BY <2>4, <2>5, Joined
  <2>7. \E steps \in Seq(S) : Continue(steps)
    BY <1>2, <2>6 DEF CaptureSource
  <2>8. QED
    BY <2>1, <2>7, Continued
<1>3. QED
  BY <1>1, <1>2

\* A transaction is resumed and applied.
LEMMA TransactionKeeps ==
    ASSUME Inv, Resume \/ Apply
    PROVE  Inv'
PROOF
<1> DEFINE S == Steps(pending)
<1>1. Running /\ Head(todo)[1] \in {"resume", "apply"}
  BY DEF Resume, Apply, Here
<1>2. pending \in Pendings
  BY <1>1, ItemTyped DEF Inv, WholeItems
<1>3. Fail \in Seq(S) /\ <<>> \in Seq(S)
  BY OperationSteps
<1>4. /\ Then("apply", "") \in Seq(S) /\ Then("confirm", "") \in Seq(S)
      /\ Then("switch", "state") \in Seq(S)
  BY <1>2, ItemSteps DEF WholeItems, ControlItems, Controls
<1>5. CleanupSteps(pending) \in Seq(S) /\ ApplySteps(pending) \in Seq(S)
  BY <1>2, CleanupTyped, ApplyTyped
<1>6. Then("apply", "") \o CleanupSteps(pending) \o Then("confirm", "") \in Seq(S)
  <2> HIDE DEF S
  <2>1. QED
    BY <1>4, <1>5, Joined
<1>7. CASE Resume
  <2>1. \E steps \in Seq(S) : Continue(steps)
    BY <1>3, <1>6, <1>7 DEF Resume, If
  <2>2. QED
    BY <1>1, <2>1, Continued
<1>8. CASE Apply
  <2>1. \E steps \in Seq(S) : Continue(steps)
    BY <1>3, <1>4, <1>5, <1>8 DEF Apply, If
  <2>2. QED
    BY <1>1, <2>1, Continued
<1>9. QED
  BY <1>7, <1>8

\* A control changes hands in two renames.
LEMMA ActivateControlKeeps ==
    ASSUME Inv, ActivateControl
    PROVE  Inv'
PROOF
<1> DEFINE S == Steps(pending)
           c == Item
           control == Reserved("control", c)
           temporary == Reserved("temporary", c)
           old == Reserved("control-quarantine", c)
<1>1. Running /\ Head(todo)[1] = "switch"
  BY DEF ActivateControl, Here
<1>2. c \in Controls
  BY <1>1, ItemTyped DEF Inv, ControlItems
<1>3. control \in FileNames /\ temporary \in FileNames /\ old \in FileNames
  BY <1>2, ControlNames
<1>4. /\ Rename(temporary, control) \in Seq(S) /\ Rename(control, old) \in Seq(S)
      /\ Fail \in Seq(S) /\ <<>> \in Seq(S)
  BY <1>3, OperationSteps
<1>5. Rename(control, old) \o Rename(temporary, control) \in Seq(S)
  BY <1>4, Joined
<1>6. \E steps \in Seq(S) : Continue(steps)
  BY <1>4, <1>5 DEF ActivateControl, If, When
<1>7. QED
  BY <1>1, <1>6, Continued

\* The cleanup record is one more name of the pending record.
LEMMA MarkCleanupKeeps ==
    ASSUME Inv, MarkCleanup
    PROVE  Inv'
PROOF
<1> DEFINE S == Steps(pending)
<1>1. Running /\ Head(todo)[1] = "mark"
  BY DEF MarkCleanup, Here
<1>2. pending \in Pendings
  BY <1>1, ItemTyped DEF Inv, WholeItems
<1>3. /\ LinkVerified(Pending, PendingProof, Cleanup) \in Seq(S)
      /\ Fail \in Seq(S) /\ <<>> \in Seq(S)
  BY SingleNames, OperationSteps
<1>4. Then("mark", "") \in Seq(S)
  BY <1>2, ItemSteps DEF WholeItems
<1>5. LinkVerified(Pending, PendingProof, Cleanup) \o Then("mark", "") \in Seq(S)
  BY <1>3, <1>4, Joined
<1>6. \E steps \in Seq(S) : Continue(steps)
  BY <1>3, <1>5 DEF MarkCleanup, When
<1>7. QED
  BY <1>1, <1>6, Continued

\* The kind of a name.
LEMMA NameKinds ==
    ASSUME NEW k, NEW i
    PROVE  Reserved(k, i)[2][1] = k /\ Owned(k, i)[2][1] = k /\ Staged(k, i)[2][1] = k
BY DEF Reserved, Owned, Staged

\* The names of one artifact are different, and those of one directory.
LEMMA ProofsDiffer ==
    ASSUME NEW x
    PROVE  /\ Owned("quarantine", x) # Owned("source-proof", x)
           /\ Owned("activation", x) # Staged("stage-proof", x)
           /\ Staged("stage", x) # Staged("stage-proof", x)
           /\ Staged("stage-proof", x) # Target(x)
           /\ Owned("claim-quarantine", x) # Owned("anchor", x)
           /\ Owned("claim-proof", x) # Owned("anchor", x)
           /\ Reserved("control-quarantine", x) # Reserved("previous-proof", x)
           /\ Reserved("temporary-proof", x) # Reserved("control", x)
PROOF
<1>1. Target(x)[2][1] = "artifact"
  BY DEF Target
<1>2. QED
  BY <1>1, NameKinds

\* What an old file left is removed, the quarantine under the proof.
LEMMA SweepQuarantineKeeps ==
    ASSUME Inv, SweepQuarantine
    PROVE  Inv'
PROOF
<1> DEFINE S == Steps(pending)
           a == Item
           quarantine == Owned("quarantine", a)
           proof == Owned("source-proof", a)
<1>1. Running /\ Head(todo)[1] = "sweep quarantine"
  BY DEF SweepQuarantine, Here
<1>2. pending \in Pendings /\ a \in Updates(pending) \cup Deletes(pending) /\ a \in Artifacts
  BY <1>1, ItemTyped, PendingParts DEF Inv, SourceItems
<1>3. quarantine \in FileNames /\ proof \in FileNames /\ quarantine # proof
  BY <1>2, ArtifactNames, ProofsDiffer
<1>4. Expected(pending, a) \in FileData
  BY <1>2, PendingData
<1>5. /\ Unlink(quarantine, proof) \in Seq(S) /\ Discard(proof, Expected(pending, a)) \in Seq(S)
      /\ Fail \in Seq(S)
  BY <1>3, <1>4, OperationSteps
<1>6. SweepSource(a) \in Seq(S)
  <2>1. Unlink(quarantine, proof) \o Discard(proof, Expected(pending, a)) \in Seq(S)
    BY <1>5, Joined
  <2>2. QED
    BY <2>1 DEF SweepSource
<1>7. \E steps \in Seq(S) : Continue(steps)
  BY <1>5, <1>6 DEF SweepQuarantine, If
<1>8. QED
  BY <1>1, <1>7, Continued

\* What a removed directory left is removed: the claim, the directory, the anchor.
LEMMA SweepDirectoryKeeps ==
    ASSUME Inv, SweepDirectory
    PROVE  Inv'
PROOF
<1> DEFINE S == Steps(pending)
           d == Item
           place == Quarantined(d)
           anchor == Owned("anchor", d)
           claim == Owned("claim-quarantine", d)
           Rest == Unlink(claim, anchor) \o Discard(anchor, ClaimOf(d))
<1>1. Running /\ Head(todo)[1] = "sweep directory"
  BY DEF SweepDirectory, Here
<1>2. d \in Directories
  BY <1>1, ItemTyped DEF Inv, PlaceItems
<1>3. place \in Places(d)
  BY DEF Places
<1>4. /\ anchor \in FileNames /\ claim \in FileNames /\ claim # anchor
      /\ Claim(place) \in FileNames /\ place \in DirectoryNames
  BY <1>2, <1>3, PlaceNames, ProofsDiffer
<1>5. ClaimOf(d) \in FileData
  BY <1>2 DEF ClaimOf, FileData
<1>6. /\ Unlink(claim, anchor) \in Seq(S) /\ Discard(anchor, ClaimOf(d)) \in Seq(S)
      /\ Rename(Claim(place), claim) \in Seq(S) /\ RemoveEmpty(place) \in Seq(S)
      /\ Fail \in Seq(S)
  BY <1>4, <1>5, OperationSteps
<1>7. Rest \in Seq(S)
  BY <1>6, Joined
<1>8. /\ Rename(Claim(place), claim) \o RemoveEmpty(place) \o Rest \in Seq(S)
      /\ RemoveEmpty(place) \o Rest \in Seq(S)
  <2> HIDE DEF S, d, place, anchor, claim, Rest
  <2>1. QED
    BY <1>6, <1>7, Joined
<1>9. \E steps \in Seq(S) : Continue(steps)
  BY <1>6, <1>7, <1>8 DEF SweepDirectory, If
<1>10. QED
  BY <1>1, <1>9, Continued

\* The second names of what was installed are removed.
LEMMA SweepNamesKeeps ==
    ASSUME Inv, SweepActivation \/ SweepClaim \/ SweepStage
    PROVE  Inv'
PROOF
<1> DEFINE S == Steps(pending)
           x == Item
<1>1. Fail \in Seq(S) /\ <<>> \in Seq(S)
  BY OperationSteps
<1>2. CASE SweepActivation
  <2>1. Running /\ Head(todo)[1] = "sweep activation"
    BY <1>2 DEF SweepActivation, Here
  <2>2. x \in Artifacts
    BY <2>1, ItemTyped, PendingParts DEF Inv, WriteItems
  <2>3. /\ Owned("activation", x) \in FileNames /\ Staged("stage-proof", x) \in FileNames
        /\ Owned("activation", x) # Staged("stage-proof", x)
    BY <2>2, ArtifactNames, ProofsDiffer
  <2>4. Unlink(Owned("activation", x), Staged("stage-proof", x)) \in Seq(S)
    BY <2>3, OperationSteps
  <2>5. \E steps \in Seq(S) : Continue(steps)
    BY <1>1, <1>2, <2>4 DEF SweepActivation, If, When
  <2>6. QED
    BY <2>1, <2>5, Continued
<1>3. CASE SweepClaim
  <2>1. Running /\ Head(todo)[1] = "sweep claim"
    BY <1>3 DEF SweepClaim, Here
  <2>2. x \in Directories
    BY <2>1, ItemTyped DEF Inv, PlaceItems
  <2>3. /\ Owned("claim-proof", x) \in FileNames /\ Owned("anchor", x) \in FileNames
        /\ Owned("claim-proof", x) # Owned("anchor", x)
    BY <2>2, PlaceNames, ProofsDiffer
  <2>4. Unlink(Owned("claim-proof", x), Owned("anchor", x)) \in Seq(S)
    BY <2>3, OperationSteps
  <2>5. \E steps \in Seq(S) : Continue(steps)
    BY <1>1, <1>3, <2>4 DEF SweepClaim, If
  <2>6. QED
    BY <2>1, <2>5, Continued
<1>4. CASE SweepStage
  <2>1. Running /\ Head(todo)[1] = "sweep stage"
    BY <1>4 DEF SweepStage, Here
  <2>2. x \in Artifacts
    BY <2>1, ItemTyped, PendingParts DEF Inv, WriteItems
  <2>3. /\ Staged("stage", x) \in FileNames /\ Staged("stage-proof", x) \in FileNames
        /\ Target(x) \in FileNames
        /\ Staged("stage", x) # Staged("stage-proof", x) /\ Staged("stage-proof", x) # Target(x)
    BY <2>2, ArtifactNames, ProofsDiffer
  <2>4. /\ Unlink(Staged("stage", x), Staged("stage-proof", x)) \in Seq(S)
        /\ Unlink(Staged("stage-proof", x), Target(x)) \in Seq(S)
    BY <2>3, OperationSteps
  <2>5. Unlink(Staged("stage", x), Staged("stage-proof", x))
           \o Unlink(Staged("stage-proof", x), Target(x)) \in Seq(S)
    BY <2>4, Joined
  <2>6. \E steps \in Seq(S) : Continue(steps)
    BY <1>1, <1>4, <2>5 DEF SweepStage, If
  <2>7. QED
    BY <2>1, <2>6, Continued
<1>5. QED
  BY <1>2, <1>3, <1>4

\* What an exchanged control left is removed.
LEMMA SweepControlKeeps ==
    ASSUME Inv, SweepControl
    PROVE  Inv'
PROOF
<1> DEFINE S == Steps(pending)
           c == Item
           old == Reserved("control-quarantine", c)
           was == Reserved("previous-proof", c)
           proof == Reserved("temporary-proof", c)
           control == Reserved("control", c)
           Previous == Unlink(old, was) \o Discard(was, Before(pending, c))
<1>1. Running /\ Head(todo)[1] = "sweep control"
  BY DEF SweepControl, Here
<1>2. pending \in Pendings /\ c \in Controls
  BY <1>1, ItemTyped DEF Inv, ControlItems
<1>3. /\ old \in FileNames /\ was \in FileNames /\ proof \in FileNames /\ control \in FileNames
      /\ old # was /\ proof # control
  BY <1>2, ControlNames, ProofsDiffer
<1>4. Before(pending, c) \in FileData
  BY <1>2, PendingData
<1>5. /\ Unlink(old, was) \in Seq(S) /\ Discard(was, Before(pending, c)) \in Seq(S)
      /\ Unlink(proof, control) \in Seq(S) /\ Fail \in Seq(S) /\ <<>> \in Seq(S)
  BY <1>3, <1>4, OperationSteps
<1>6. Previous \in Seq(S)
  BY <1>5, Joined
<1>7. When(Replaces(pending, c), Previous) \o Unlink(proof, control) \in Seq(S)
  <2>1. When(Replaces(pending, c), Previous) \in Seq(S)
    BY <1>5, <1>6 DEF When
  <2> HIDE DEF S, old, was, proof, control, Previous
  <2>2. QED
    BY <1>5, <2>1, Joined
<1>8. \E steps \in Seq(S) : Continue(steps)
  BY <1>5, <1>7 DEF SweepControl, If
<1>9. QED
  BY <1>1, <1>8, Continued

\* The staging directory is removed.
LEMMA SweepStagingKeeps ==
    ASSUME Inv, SweepStaging
    PROVE  Inv'
PROOF
<1> DEFINE S == Steps(pending)
           claim == Staged("claim", "")
           proof == Reserved("staging-proof", "")
           root == When(Exists(StagingRoot), RemoveEmpty(StagingRoot))
<1>1. Running /\ Head(todo)[1] = "sweep staging"
  BY DEF SweepStaging, Here
<1>2. claim # proof
  <2>1. claim[2][1] = "claim" /\ proof[2][1] = "staging-proof"
    BY NameKinds
  <2>2. QED
    BY <2>1
<1>3. <<"staging">> \in FileData
  BY DEF FileData
<1>4. /\ Unlink(claim, proof) \in Seq(S) /\ Discard(proof, <<"staging">>) \in Seq(S)
      /\ RemoveEmpty(StagingRoot) \in Seq(S) /\ Fail \in Seq(S) /\ <<>> \in Seq(S)
  BY <1>2, <1>3, SingleNames, OperationSteps
<1>5. root \in Seq(S)
  BY <1>4 DEF When
<1>6. Unlink(claim, proof) \o root \o Discard(proof, <<"staging">>) \in Seq(S)
  <2> HIDE DEF S, claim, proof, root
  <2>1. QED
    BY <1>4, <1>5, Joined
<1>7. \E steps \in Seq(S) : Continue(steps)
  BY <1>4, <1>6 DEF SweepStaging, If, When
<1>8. QED
  BY <1>1, <1>7, Continued

-----------------------------------------------------------------------------
(* How a synchronisation begins and ends *)

\* A record that decodes is a transaction, and an inventory that does, an inventory.
LEMMA RecordsTyped ==
    ASSUME SoundTree(fs)
    PROVE  /\ \A n \in Names : Decodes(n) => Recorded(n) \in Pendings
           /\ InventoryDecodes => Active \in Inventories
PROOF
<1>1. \A n \in Names : fs[n].data \in Data
  BY DEF SoundTree, Tree
<1>2. ASSUME NEW x \in Data, x[1] = "pending"
      PROVE  x[2] \in Pendings
  BY <1>2 DEF Data, FileData, GeneratedData, Bootstrap, UserBytes
<1>3. ASSUME NEW x \in Data, x[1] = "inventory"
      PROVE  x[2] \in Inventories
  BY <1>3 DEF Data, FileData, GeneratedData, Bootstrap, UserBytes
<1>4. NoInventory \in Inventories
  BY DEF NoInventory, Inventories
<1>5. \A n \in Names : Decodes(n) => Recorded(n) \in Pendings
  BY <1>1, <1>2 DEF Decodes, Recorded
<1>6. Inventory \in Names
  BY SingleNames DEF FileNames
<1>7. InventoryDecodes => Active \in Inventories
  BY <1>1, <1>3, <1>4, <1>6 DEF InventoryDecodes, Active
<1>8. QED
  BY <1>5, <1>7

\* What the start of a synchronisation is followed by.
LEMMA AtLoad ==
    ASSUME Inv, Here("load")
    PROVE  todo = Loading /\ Tail(todo) = Then("compare", "")
PROOF
<1>1. ASSUME todo \in Seq(Steps(pending))
      PROVE  FALSE
  <2> DEFINE S == Steps(pending)
  <2>1. todo \in Seq(S) /\ todo # <<>> /\ Head(todo)[1] = "load"
    BY <1>1 DEF Here, Running
  <2>2. \A s \in S : s[1] # "load"
    BY ItemCases
  <2> HIDE DEF S
  <2>3. Head(todo) \in S
    BY <2>1
  <2>4. QED
    BY <2>1, <2>2, <2>3
<1>2. todo = Loading
  BY <1>1 DEF Inv, TodoInv
<1>3. QED
  BY <1>2, LoadingParts

\* A step that leaves the tree and the outcome alone, and has known steps left,
\* keeps the invariant.
LEMMA Planned ==
    ASSUME Inv, Running, NEW p, pending' = p, todo' \in Seq(Steps(p)),
           UNCHANGED <<fs, desired, result, calm, touches, crashes>>
    PROVE  Inv'
PROOF
<1>1. TodoInv'
  BY DEF TodoInv
<1>2. TreeInv'
  BY DEF Inv, TreeInv
<1>3. ControlInv'
  BY DEF Inv, ControlInv, Running
<1>4. QED
  BY <1>1, <1>2, <1>3 DEF Inv

\* A synchronisation begins.
LEMMA SynchronizeKeeps ==
    ASSUME Inv, Synchronize
    PROVE  Inv'
PROOF
<1>1. todo' = Loading
  <2> DEFINE x == <<"load", "">>
             y == <<"compare", "">>
  <2>1. Then("load", "") = <<x>> /\ Then("compare", "") = <<y>> /\ Loading = <<x, y>>
    BY DEF Then, Loading
  <2> HIDE DEF x, y
  <2>2. <<x>> \o <<y>> = <<x, y>>
    BY TwoJoined
  <2>3. QED
    BY <2>1, <2>2 DEF Synchronize
<1>2. TodoInv'
  BY <1>1 DEF TodoInv
<1>3. TreeInv'
  BY DEF Synchronize, Inv, TreeInv
<1>4. ControlInv'
  BY DEF Synchronize, Inv, ControlInv
<1>5. QED
  BY <1>2, <1>3, <1>4 DEF Inv

\* A cleanup record is followed up.
LEMMA LoadCleanupKeeps ==
    ASSUME Inv, LoadCleanup
    PROVE  Inv'
PROOF
<1>1. PICK p : p = Recorded(Cleanup)
  OBVIOUS
<1> DEFINE S == Steps(p)
<1>2. pending' = p /\ Running
  BY <1>1 DEF LoadCleanup, Here
<1>3. Tail(todo) \in Seq(S) /\ Then("settle", "") \in Seq(S) /\ Fail \in Seq(S)
  BY AtLoad, ItemSteps, OperationSteps DEF LoadCleanup
<1>4. CASE Decodes(Cleanup)
  <2>1. p \in Pendings
    <3>1. Cleanup \in Names
      BY SingleNames DEF FileNames
    <3>2. QED
      BY <1>1, <1>4, <3>1, RecordsTyped DEF Inv, TreeInv
  <2>2. CleanupSteps(p) \in Seq(S)
    BY <2>1, CleanupTyped
  <2>3. CleanupSteps(p) \o Then("settle", "") \o Tail(todo) \in Seq(S)
    <3> HIDE DEF S
    <3>1. QED
      BY <1>3, <2>2, Joined
  <2>4. Fail \o Tail(todo) \in Seq(S)
    BY <1>3, Joined
  <2>5. todo' \in {CleanupSteps(p) \o Then("settle", "") \o Tail(todo), Fail \o Tail(todo)}
    BY <1>2 DEF LoadCleanup, If
  <2>6. QED
    BY <1>2, <2>3, <2>4, <2>5, Planned DEF LoadCleanup
<1>5. CASE ~Decodes(Cleanup)
  <2>1. todo' = Fail \o Tail(todo)
    BY <1>5 DEF LoadCleanup, If
  <2>2. QED
    BY <1>2, <1>3, <2>1, Joined, Planned DEF LoadCleanup
<1>6. QED
  BY <1>4, <1>5

\* A pending record is followed up.
LEMMA LoadPendingKeeps ==
    ASSUME Inv, LoadPending
    PROVE  Inv'
PROOF
<1>1. PICK p : p = Recorded(Pending)
  OBVIOUS
<1> DEFINE S == Steps(p)
           control == IF Exists(State) THEN "inventory" ELSE "state"
<1>2. pending' = p /\ Running
  BY <1>1 DEF LoadPending, Here
<1>3. Tail(todo) \in Seq(S) /\ Fail \in Seq(S) /\ <<>> \in Seq(S)
  BY AtLoad, ItemSteps, OperationSteps DEF LoadPending
<1>4. CASE Decodes(Pending)
  <2>1. p \in Pendings
    <3>1. Pending \in Names
      BY SingleNames DEF FileNames
    <3>2. QED
      BY <1>1, <1>4, <3>1, RecordsTyped DEF Inv, TreeInv
  <2>2. /\ Then("resume", "") \in Seq(S) /\ Then("switch", "inventory") \in Seq(S)
        /\ Then("switch", "state") \in Seq(S)
    BY <2>1, ItemSteps DEF WholeItems, ControlItems, Controls
  <2>3. \E steps \in Seq(S) :
           \/ todo' = Fail \o Tail(todo)
           \/ todo' = (steps \o Then("resume", "")) \o Tail(todo)
    BY <1>2, <1>3, <2>2 DEF LoadPending, If
  <2>4. todo' \in Seq(S)
    <3>1. PICK steps \in Seq(S) :
             \/ todo' = Fail \o Tail(todo)
             \/ todo' = (steps \o Then("resume", "")) \o Tail(todo)
      BY <2>3
    <3>2. steps \o Then("resume", "") \in Seq(S)
      BY <2>2, Joined
    <3>3. Fail \o Tail(todo) \in Seq(S) /\ (steps \o Then("resume", "")) \o Tail(todo) \in Seq(S)
      BY <1>3, <3>2, Joined
    <3>4. QED
      BY <3>1, <3>3
  <2>5. QED
    BY <1>2, <2>4, Planned DEF LoadPending
<1>5. CASE ~Decodes(Pending)
  <2>1. todo' = Fail \o Tail(todo)
    BY <1>5 DEF LoadPending, If
  <2>2. QED
    BY <1>2, <1>3, <2>1, Joined, Planned DEF LoadPending
<1>6. QED
  BY <1>4, <1>5

\* Without a record the controls are loaded, or the workspace is bootstrapped.
LEMMA LoadActiveKeeps ==
    ASSUME Inv, LoadActive
    PROVE  Inv'
PROOF
<1> DEFINE S == Steps(pending)
<1>1. Running
  BY DEF LoadActive, Here
<1>2. /\ Tail(todo) \in Seq(S) /\ Then("settle", "") \in Seq(S) /\ Fail \in Seq(S)
      /\ BootstrapSteps \in Seq(S)
  BY AtLoad, ItemSteps, OperationSteps, BootstrapTyped DEF LoadActive
<1>3. BootstrapSteps \o Then("settle", "") \in Seq(S)
  BY <1>2, Joined
<1>4. \E steps \in Seq(S) : Continue(steps)
  BY <1>2, <1>3 DEF LoadActive, If
<1>5. PICK steps \in Seq(S) : Continue(steps)
  BY <1>4
<1>6. todo' = steps \o Tail(todo) /\ UNCHANGED <<fs, run, result, calm, touches, crashes>>
  BY <1>5 DEF Continue
<1>7. todo' \in Seq(S)
  BY <1>2, <1>6, Joined
<1>8. QED
  BY <1>1, <1>6, <1>7, Planned DEF run

\* The transaction that is compared is well formed when there is no conflict.
LEMMA CompareKeeps ==
    ASSUME Inv, Compare
    PROVE  Inv'
PROOF
<1>1. PICK p : p = Comparison(desired)
  OBVIOUS
<1> DEFINE S == Steps(p)
           whole == PrepareSteps(p) \o Then("apply", "") \o CleanupSteps(p)
<1>2. pending' = p /\ Running /\ UNCHANGED <<fs, desired, result, calm, touches, crashes>>
  BY <1>1 DEF Compare, Here
<1>3. Fail \in Seq(S) /\ <<>> \in Seq(S) /\ Then("finish", "") \in Seq(S)
  BY OperationSteps, ItemSteps
<1>4. CASE ~InventoryDecodes \/ Conflicts(desired) # {}
  <2>1. todo' = Fail
    BY <1>4 DEF Compare
  <2>2. QED
    BY <1>2, <1>3, <2>1, Planned
<1>5. CASE InventoryDecodes /\ Conflicts(desired) = {}
  <2>1. desired \in Desires
    BY <1>2 DEF Inv, ControlInv
  <2>2. p \in Pendings
    BY <1>1, <1>5, <2>1, RecordsTyped, ComparisonTyped DEF Inv, TreeInv
  <2>3. /\ PrepareSteps(p) \in Seq(S) /\ CleanupSteps(p) \in Seq(S)
        /\ Then("apply", "") \in Seq(S)
    BY <2>2, PrepareTyped, CleanupTyped, ItemSteps DEF WholeItems
  <2>4. whole \in Seq(S)
    <3> HIDE DEF S
    <3>1. QED
      BY <2>3, Joined
  <2>5. \E steps \in Seq(S) : todo' = steps \o Then("finish", "")
    <3> HIDE DEF S
    <3>1. \E c : todo' = When(~Unchanged(p), If(c, whole)) \o Then("finish", "")
      BY <1>1, <1>5 DEF Compare
    <3>2. \A c : When(~Unchanged(p), If(c, whole)) \in Seq(S)
      BY <1>3, <2>4 DEF When, If
    <3>3. QED
      BY <3>1, <3>2
  <2>6. todo' \in Seq(S)
    BY <1>3, <2>5, Joined
  <2>7. QED
    BY <1>2, <2>6, Planned
<1>6. QED
  BY <1>4, <1>5

\* A step after which nothing runs keeps the invariant, if the tree stays sound.
LEMMA Ended ==
    ASSUME Inv, todo' = <<>>, TreeInv', result' \in {"none", "done", "failed"},
           UNCHANGED <<desired, calm, touches>>, crashes' \in 0 .. MaxCrashes
    PROVE  Inv'
PROOF
<1>1. TodoInv'
  BY DEF TodoInv
<1>2. ControlInv'
  BY DEF Inv, ControlInv, Running
<1>3. QED
  BY <1>1, <1>2 DEF Inv

\* A synchronisation succeeds.
LEMMA FinishKeeps ==
    ASSUME Inv, Finish
    PROVE  Inv'
PROOF
<1>1. TreeInv'
  BY DEF Finish, Inv, TreeInv
<1>2. QED
  BY <1>1, Ended DEF Finish, run, Inv, ControlInv

-----------------------------------------------------------------------------
(* The file operations, the end of a process, and users *)

\* A file operation leads from a sound tree to a sound tree with all users' files.
LEMMA OperationSound ==
    ASSUME Inv, FileOperation
    PROVE  \/ fs' = fs /\ todo' = <<>> /\ result' = "failed"
           \/ /\ SoundTree(fs') /\ Kept(fs, fs')
              /\ todo' = Tail(todo) /\ result' = result
PROOF
<1> DEFINE op == Head(todo)
<1>1. Running /\ op[1] # "load"
  BY DEF FileOperation, Here
<1>2. op \in Steps(pending)
  BY <1>1, StepsLeft DEF Inv
<1>3. SoundTree(fs)
  BY DEF Inv, TreeInv
<1>4. ASSUME NEW trees, Perform(trees), \A t \in trees : SoundTree(t) /\ Kept(fs, t)
      PROVE  \/ fs' = fs /\ todo' = <<>> /\ result' = "failed"
             \/ /\ SoundTree(fs') /\ Kept(fs, fs')
                /\ todo' = Tail(todo) /\ result' = result
  BY <1>4 DEF Perform
<1>5. CASE Here("create") /\ Perform(Created(op[2], op[3]))
  <2>1. \/ op[2] \in FileNames /\ op[3] \in FileData
        \/ op[2] \in DirectoryNames /\ op[3] = <<"dir">>
    BY <1>2, <1>5, OperationCases DEF Here
  <2>2. op[2] \in Names /\ op[3] \in Data \ {<<"none">>}
    <3>1. \A x \in FileData : x[1] # "none"
      BY DEF FileData, GeneratedData, Bootstrap
    <3>2. <<"none">>[1] = "none" /\ <<"dir">>[1] = "dir"
      OBVIOUS
    <3>3. QED
      BY <2>1, <3>1, <3>2 DEF Data, FileNames, DirectoryNames
  <2>3. op[2] \in DirectoryNames <=> op[3] = <<"dir">>
    <3>1. \A x \in FileData : x[1] # "dir"
      BY DEF FileData, GeneratedData, Bootstrap
    <3>2. QED
      BY <2>1, <3>1 DEF FileNames
  <2>4. \A t \in Created(op[2], op[3]) : SoundTree(t) /\ Kept(fs, t)
    BY <1>3, <2>2, <2>3, CreateSound
  <2>5. QED
    BY <1>4, <1>5, <2>4
<1>6. CASE Here("link") /\ Perform(Linked(op[2], op[3], op[4]))
  <2>1. op[2] \in FileNames /\ op[3] \in FileNames /\ op[4] \in FileNames
    BY <1>2, <1>6, OperationCases DEF Here
  <2>2. \A t \in Linked(op[2], op[3], op[4]) : SoundTree(t) /\ Kept(fs, t)
    BY <1>3, <2>1, LinkSound
  <2>3. QED
    BY <1>4, <1>6, <2>2
<1>7. CASE Here("rename") /\ Perform(Renamed(op[2], op[3]))
  <2>1. op[2] \in FileNames /\ op[3] \in FileNames
    BY <1>2, <1>7, OperationCases DEF Here
  <2>2. \A t \in Renamed(op[2], op[3]) : SoundTree(t) /\ Kept(fs, t)
    BY <1>3, <2>1, RenameSound
  <2>3. QED
    BY <1>4, <1>7, <2>2
<1>8. CASE Here("move") /\ Perform(DirectoryRenamed(op[2], op[3]))
  <2>1. PICK d \in Directories : op[2] \in Places(d) /\ op[3] \in Places(d)
    BY <1>2, <1>8, OperationCases DEF Here
  <2>2. \A t \in DirectoryRenamed(op[2], op[3]) : SoundTree(t) /\ Kept(fs, t)
    BY <1>3, <2>1, MoveSound
  <2>3. QED
    BY <1>4, <1>8, <2>2
<1>9. CASE Here("unlink") /\ Perform(Removed(op[2], op[3]))
  <2>1. op[2] \in FileNames /\ op[3] \in FileNames /\ op[2] # op[3]
    BY <1>2, <1>9, OperationCases DEF Here
  <2>2. \A t \in Removed(op[2], op[3]) : SoundTree(t) /\ Kept(fs, t)
    BY <1>3, <2>1, UnlinkSound
  <2>3. QED
    BY <1>4, <1>9, <2>2
<1>10. CASE Here("discard") /\ Perform(Discarded(op[2], op[3]))
  <2>1. op[2] \in FileNames /\ op[3] \in FileData
    BY <1>2, <1>10, OperationCases DEF Here
  <2>2. \A t \in Discarded(op[2], op[3]) : SoundTree(t) /\ Kept(fs, t)
    BY <1>3, <2>1, DiscardSound
  <2>3. QED
    BY <1>4, <1>10, <2>2
<1>11. CASE Here("rmdir") /\ Perform(DirectoryRemoved(op[2]))
  <2>1. op[2] \in DirectoryNames
    BY <1>2, <1>11, OperationCases DEF Here
  <2>2. \A t \in DirectoryRemoved(op[2]) : SoundTree(t) /\ Kept(fs, t)
    BY <1>3, <2>1, RemoveDirectorySound
  <2>3. QED
    BY <1>4, <1>11, <2>2
<1>12. CASE Here("fail") /\ Perform({})
  BY <1>4, <1>12
<1>13. QED
  BY <1>5, <1>6, <1>7, <1>8, <1>9, <1>10, <1>11, <1>12 DEF FileOperation

\* A file operation keeps the invariant.
LEMMA FileOperationKeeps ==
    ASSUME Inv, FileOperation
    PROVE  Inv'
PROOF
<1>1. Running /\ Head(todo)[1] # "load"
  BY DEF FileOperation, Here
<1>2. Tail(todo) \in Seq(Steps(pending))
  BY <1>1, StepsLeft DEF Inv
<1>3. UNCHANGED <<run, calm, touches, crashes>>
  BY DEF FileOperation, Perform
<1>4. CASE fs' = fs /\ todo' = <<>> /\ result' = "failed"
  <2>1. TreeInv'
    BY <1>4 DEF Inv, TreeInv
  <2>2. QED
    BY <1>3, <1>4, <2>1, Ended DEF run, Inv, ControlInv
<1>5. CASE SoundTree(fs') /\ todo' = Tail(todo) /\ result' = result
  <2>1. TreeInv'
    BY <1>5 DEF TreeInv
  <2>2. TodoInv'
    BY <1>2, <1>3, <1>5 DEF TodoInv, run
  <2>3. ControlInv'
    BY <1>1, <1>3, <1>5 DEF Inv, ControlInv, Running, run
  <2>4. QED
    BY <2>1, <2>2, <2>3 DEF Inv
<1>6. QED
  BY <1>4, <1>5, OperationSound

\* The end of a process leaves a sound tree with all users' files.
LEMMA CrashSound ==
    ASSUME Inv, Crash
    PROVE  SoundTree(fs') /\ Kept(fs, fs')
PROOF
<1>1. SoundTree(fs)
  BY DEF Inv, TreeInv
<1>2. CASE UNCHANGED fs
  BY <1>1, <1>2 DEF Kept
<1>3. CASE /\ Here("create") /\ Head(todo)[3] # <<"dir">>
           /\ fs' \in Created(Head(todo)[2], <<"partial">>)
  <2>1. Head(todo) \in Steps(pending)
    BY <1>3, StepsLeft DEF Inv, Here
  <2>2. Head(todo)[2] \in FileNames
    BY <1>3, <2>1, OperationCases DEF Here
  <2>3. <<"partial">> \in Data \ {<<"none">>} /\ <<"partial">> # <<"dir">>
    BY DEF Data
  <2>4. QED
    BY <1>1, <1>3, <2>2, <2>3, CreateSound DEF FileNames
<1>4. QED
  BY <1>2, <1>3 DEF Crash

\* The end of a process keeps the invariant.
LEMMA CrashKeeps ==
    ASSUME Inv, Crash
    PROVE  Inv'
PROOF
<1>1. TreeInv'
  BY CrashSound DEF TreeInv
<1>2. crashes' \in 0 .. MaxCrashes
  BY BoundAssumption DEF Crash, Inv, ControlInv
<1>3. QED
  BY <1>1, <1>2, Ended DEF Crash, run

\* A change of the tree by a user keeps the invariant, if the tree stays sound.
LEMMA ChangedKeeps ==
    ASSUME Inv, NEW trees, Changes(trees), \A t \in trees : SoundTree(t)
    PROVE  Inv'
PROOF
<1>1. TreeInv'
  BY DEF Changes, TreeInv
<1>2. TodoInv'
  BY DEF Changes, Inv, TodoInv, run
<1>3. touches' \in 0 .. MaxTouches
  BY BoundAssumption DEF Changes, Inv, ControlInv
<1>4. ControlInv'
  BY <1>3 DEF Changes, Inv, ControlInv, Running, run
<1>5. QED
  BY <1>1, <1>2, <1>4 DEF Inv

\* Users keep the invariant.
LEMMA UserStepKeeps ==
    ASSUME Inv, UserStep
    PROVE  Inv'
PROOF
<1>1. SoundTree(fs) /\ DOMAIN fs = Names
  BY DEF Inv, TreeInv, SoundTree, Tree
<1>2. UserBytes \in Data \ {<<"none">>} /\ UserBytes # <<"dir">>
  BY DEF Data, UserBytes
<1>3. ASSUME NEW a \in Artifacts, EditArtifact(a)
      PROVE  Inv'
  <2>1. Target(a) \in FileNames
    BY ArtifactNames
  <2> DEFINE T == {[n \in Names |-> IF SameFile(n, Target(a))
                                    THEN [fs[n] EXCEPT !.data = UserBytes] ELSE fs[n]]}
  <2>2. Exists(Target(a)) /\ Changes(T)
    BY <1>3 DEF EditArtifact
  <2>3. \A t \in T : SoundTree(t)
    BY <1>1, <2>1, <2>2, EditSound
  <2>4. QED
    BY <2>2, <2>3, ChangedKeeps
<1>4. ASSUME NEW a \in Artifacts, SaveArtifact(a)
      PROVE  Inv'
  <2>1. Target(a) \in FileNames
    BY ArtifactNames
  <2>2. Target(a) \in Names /\ Target(a) \notin DirectoryNames
    BY <2>1 DEF FileNames
  <2> DEFINE T == {[fs EXCEPT ![Target(a)] = [id |-> Fresh, data |-> UserBytes]]}
  <2>3. HasParent(Target(a)) /\ Changes(T)
    BY <1>4 DEF SaveArtifact
  <2>4. \A t \in T : SoundTree(t)
    BY <1>1, <1>2, <2>1, <2>2, <2>3, CreatedSound
  <2>5. QED
    BY <2>3, <2>4, ChangedKeeps
<1>5. ASSUME NEW a \in Artifacts, DeleteArtifact(a)
      PROVE  Inv'
  <2>1. Target(a) \in FileNames
    BY ArtifactNames
  <2> DEFINE T == {[fs EXCEPT ![Target(a)] = Absent]}
  <2>2. Changes(T)
    BY <1>5 DEF DeleteArtifact
  <2>3. \A t \in T : SoundTree(t)
    BY <1>1, <2>1, DeleteSound
  <2>4. QED
    BY <2>2, <2>3, ChangedKeeps
<1>6. ASSUME NEW d \in Directories, ToggleDirectory(d)
      PROVE  Inv'
  <2>1. CASE Exists(Directory(d))
    <3> DEFINE T == {[n \in Names |-> IF n = Directory(d) \/ n[1] = Directory(d)[2]
                                      THEN Absent ELSE fs[n]]}
    <3>1. Changes(T)
      BY <1>6, <2>1 DEF ToggleDirectory
    <3>2. \A t \in T : SoundTree(t)
      BY <1>1, RemoveTreeSound
    <3>3. QED
      BY <3>1, <3>2, ChangedKeeps
  <2>2. CASE ~Exists(Directory(d))
    <3>1. Changes(Created(Directory(d), <<"dir">>))
      BY <1>6, <2>2 DEF ToggleDirectory
    <3>2. Directory(d) \in DirectoryNames /\ Directory(d) \in Names
      BY PlaceNames DEF Places, DirectoryNames
    <3>3. <<"dir">> \in Data \ {<<"none">>}
      BY DEF Data
    <3>4. \A t \in Created(Directory(d), <<"dir">>) : SoundTree(t)
      BY <1>1, <3>2, <3>3, CreateSound
    <3>5. QED
      BY <3>1, <3>4, ChangedKeeps
  <2>3. QED
    BY <2>1, <2>2
<1>7. QED
  BY <1>3, <1>4, <1>5, <1>6 DEF UserStep

-----------------------------------------------------------------------------
(* The theorems *)

\* Before anything is materialised the tree is empty.
LEMMA InitInv ==
    ASSUME Init
    PROVE  Inv
PROOF
<1>1. Cardinality(Names) \in Nat
  BY NamesFinite, FS_CardinalityType
<1>2. 0 \in 0 .. Cardinality(Names) + 1 /\ <<"none">> \in Data
  BY <1>1 DEF Data
<1>3. fs \in Tree /\ \A n \in Names : fs[n] = Absent
  BY <1>2 DEF Init, Tree, Absent
<1>4. TreeInv
  BY <1>3 DEF TreeInv, SoundTree, OneFile, KindFits, Rooted
<1>5. TodoInv
  BY DEF Init, TodoInv
<1>6. ControlInv
  BY BoundAssumption DEF Init, ControlInv, Running
<1>7. QED
  BY <1>4, <1>5, <1>6 DEF Inv

\* Every step keeps the invariant.
LEMMA NextKeeps ==
    ASSUME Inv, [Next]_vars
    PROVE  Inv'
PROOF
<1>1. CASE Synchronize
  BY <1>1, SynchronizeKeeps
<1>2. CASE Load
  BY <1>2, LoadCleanupKeeps, LoadPendingKeeps, LoadActiveKeeps, ChecksKeep, TransactionKeeps
     DEF Load
<1>3. CASE Prepare
  BY <1>3, CompareKeeps, ArtifactKeeps, CaptureKeeps, ChecksKeep, FinishKeeps DEF Prepare
<1>4. CASE ApplyStep
  BY <1>4, TransactionKeeps, EnsureQuarantineKeeps, CheckQuarantineKeeps, DirectoryRemovalKeeps,
     MakeDirectoryKeeps, ArtifactKeeps, ChecksKeep, ActivateControlKeeps DEF ApplyStep
<1>5. CASE CleanupStep
  BY <1>5, MarkCleanupKeeps, SweepQuarantineKeeps, SweepDirectoryKeeps, SweepNamesKeeps,
     SweepControlKeeps, SweepStagingKeeps, ChecksKeep DEF CleanupStep
<1>6. CASE FileOperation
  BY <1>6, FileOperationKeeps
<1>7. CASE Crash
  BY <1>7, CrashKeeps
<1>8. CASE UserStep
  BY <1>8, UserStepKeeps
<1>9. CASE UNCHANGED vars
  <2>1. TreeInv' /\ ControlInv'
    BY <1>9 DEF Inv, TreeInv, ControlInv, Running, vars
  <2>2. TodoInv'
    BY <1>9 DEF Inv, TodoInv, vars
  <2>3. QED
    BY <2>1, <2>2 DEF Inv
<1>10. QED
  BY <1>1, <1>2, <1>3, <1>4, <1>5, <1>6, <1>7, <1>8, <1>9 DEF Next

\* The tree is sound and what is left to do is a sequence of known steps, always.
THEOREM Invariance == Spec => []Inv
PROOF
<1>1. Init => Inv
  BY InitInv
<1>2. Inv /\ [Next]_vars => Inv'
  BY NextKeeps
<1>3. QED
  BY <1>1, <1>2, PTL DEF Spec

\* The first two steps are pairs.
LEMMA LoadingLengths ==
    ASSUME NEW i \in DOMAIN Loading
    PROVE  Len(Loading[i]) \in 1 .. 4
PROOF
<1> DEFINE x == <<"load", "">>
           y == <<"compare", "">>
<1>1. Loading = <<x, y>> /\ Len(x) = 2 /\ Len(y) = 2
  BY DEF Loading
<1> HIDE DEF x, y
<1>2. QED
  BY <1>1

\* Every file has an identity that no other file has, and what runs consists of
\* known steps (SynchronizeMaterialization).
THEOREM TypeCorrect == Spec => []TypeOK
PROOF
<1>1. ASSUME Inv
      PROVE  TypeOK
  <2>1. DOMAIN fs = Names
    BY <1>1 DEF Inv, TreeInv, SoundTree, Tree
  <2>2. \A n \in Names : /\ fs[n].id \in 0 .. Cardinality(Names) + 1
                         /\ fs[n].id = 0 => fs[n] = Absent
    BY <1>1 DEF Inv, TreeInv, SoundTree, Tree
  <2>3. \A i \in DOMAIN todo : Len(todo[i]) \in 1 .. 4
    <3>1. CASE todo \in Seq(Steps(pending))
      <4>1. \A i \in DOMAIN todo : todo[i] \in Steps(pending)
        BY <3>1
      <4>2. QED
        BY <4>1, StepLengths
    <3>2. CASE todo = Loading
      BY <3>2, LoadingLengths
    <3>3. QED
      BY <1>1, <3>1, <3>2 DEF Inv, TodoInv
  <2>4. QED
    BY <1>1, <2>1, <2>2, <2>3 DEF Inv, ControlInv, TypeOK
<1>2. QED
  BY <1>1, Invariance, PTL

\* Bytes a user wrote are never destroyed by a step of the store: a file with
\* such bytes may be renamed away, but some name of it remains, whatever the
\* step inspected before and whenever the user wrote
\* (applyPendingWrite, ensurePendingSourceQuarantine, cleanupPendingMaterialization).
THEOREM UserBytesSafe == Spec => UserBytesKept
PROOF
<1>1. ASSUME Inv, [Next]_vars, touches' = touches
      PROVE  Kept(fs, fs')
  <2>1. CASE UserStep
    <3>1. touches' = touches + 1 /\ touches \in Nat
      BY <1>1, <2>1, BoundAssumption
         DEF UserStep, EditArtifact, SaveArtifact, DeleteArtifact, ToggleDirectory, Changes,
             Inv, ControlInv
    <3>2. QED
      BY <1>1, <3>1
  <2>2. CASE Crash
    BY <1>1, <2>2, CrashSound
  <2>3. CASE FileOperation
    BY <1>1, <2>3, OperationSound DEF Kept
  <2>4. CASE fs' = fs
    BY <2>4 DEF Kept
  <2>5. CASE Synchronize \/ Load
    <3>1. fs' = fs
      BY <2>5 DEF Synchronize, Load, LoadCleanup, LoadPending, LoadActive, Settle, Resume, Confirm,
                  Continue
    <3>2. QED
      BY <2>4, <3>1
  <2>6. CASE Prepare
    <3>1. fs' = fs
      BY <2>6 DEF Prepare, Compare, StageArtifact, AnchorDirectory, CaptureSource,
                  CheckSource, CheckPrepared, CheckStage, Finish, Continue
    <3>2. QED
      BY <2>4, <3>1
  <2>7. CASE ApplyStep
    <3>1. fs' = fs
      BY <2>7 DEF ApplyStep, Apply, EnsureQuarantine, CheckQuarantine, EnsureDirectoryRemoval,
                  CheckDirectoryRemoval, MakeDirectory, PlaceDirectory, CheckDirectory,
                  EnsureActivation, CheckActivation, InstallArtifact, CheckArtifact, Verify,
                  ActivateControl, Continue
    <3>2. QED
      BY <2>4, <3>1
  <2>8. CASE CleanupStep
    <3>1. fs' = fs
      BY <2>8 DEF CleanupStep, MarkCleanup, SweepQuarantine, SweepDirectory, SweepActivation,
                  SweepClaim, SweepControl, SweepStage, SweepStaging, CheckSwept, Continue
    <3>2. QED
      BY <2>4, <3>1
  <2>9. QED
    BY <1>1, <2>1, <2>2, <2>3, <2>4, <2>5, <2>6, <2>7, <2>8 DEF Next, vars
<1>2. ASSUME Inv, [Next]_vars
      PROVE  [touches' = touches =>
                \A n \in Names : Holds(n, UserBytes) => \E m \in Names : fs'[m] = fs[n]]_vars
  BY <1>1, <1>2 DEF Kept, Holds
<1>3. QED
  BY <1>2, Invariance, PTL DEF Spec, UserBytesKept
=============================================================================
