----------------------- MODULE MaterializationStore -----------------------
(***************************************************************************)
(* SynchronizeMaterialization: generated artifacts are brought to a        *)
(* desired set below a root that users edit too.  An inventory says which  *)
(* files and directories the store owns; what it does not own, or what no  *)
(* longer has the bytes it generated, it must neither claim nor destroy.   *)
(*                                                                         *)
(* A synchronisation stages everything, publishes a pending record, then   *)
(* quarantines the old files, links the new ones into place, swaps the     *)
(* inventory and the state, publishes a cleanup record and removes what    *)
(* the transaction left.  Whoever finds a pending or a cleanup record      *)
(* first finishes that transaction.                                        *)
(*                                                                         *)
(* The code is a sequence of inspections and file operations; `todo` is    *)
(* what is left of it.  An inspection (an action of its own) puts the file *)
(* operations it decides on in its place; users act between any two.       *)
(* Users edit, replace, create and delete artifacts and directories by     *)
(* name; they do not touch the reserved names.  Inspections of controls    *)
(* that follow their own rename are not repeated.  Directories have one    *)
(* level, artifacts one generator version; a hash is the content.  The     *)
(* comparison with what is there, and each verification, is one inspection.*)
(***************************************************************************)
EXTENDS RootedFiles, SequencesExt

CONSTANTS
    Artifacts,     \* paths of artifacts
    Folder,        \* the directory of each artifact that is not at the root
    Desires,       \* the sets that are asked for: functions from paths to content
    MaxTouches,    \* bound: changes made by users
    MaxCrashes     \* bound: synchronisations that end early

Directories == {Folder[a] : a \in DOMAIN Folder}

ASSUME ArtifactsAssumption == IsFiniteSet(Artifacts)
ASSUME FolderAssumption  == DOMAIN Folder \subseteq Artifacts
ASSUME DesiresAssumption == \A D \in Desires : DOMAIN D \subseteq Artifacts /\ D # <<>>
ASSUME BoundAssumption   == MaxTouches \in Nat /\ MaxCrashes \in Nat

VARIABLES
    desired,       \* what the running, or else the last, synchronisation was asked for
    todo,          \* what is left of the running synchronisation
    pending,       \* the transaction it is in
    result,        \* how the last one ended
    calm,          \* no user changed anything since it began
    touches, crashes

run  == <<desired, pending>>
vars == <<fs, desired, todo, pending, result, calm, touches, crashes>>

-----------------------------------------------------------------------------
(* Names *)

Ownership == <<"ownership", "">>
Staging   == <<"staging", "">>

Reserved(kind, item) == <<Root, <<kind, item>>>>
Owned(kind, item)    == <<Ownership, <<kind, item>>>>
Staged(kind, item)   == <<Staging, <<kind, item>>>>

Target(a)    == <<IF a \in DOMAIN Folder THEN <<"directory", Folder[a]>> ELSE Root,
                  <<"artifact", a>>>>
Directory(d)   == Reserved("directory", d)
Preparation(d) == Reserved("preparation", d)
Quarantined(d) == Owned("directory-quarantine", d)
Claim(place)   == <<place[2], <<"claim", "">>>>

OwnershipRoot == Reserved("ownership", "")
StagingRoot   == Reserved("staging", "")
Inventory     == Reserved("control", "inventory")
State         == Reserved("control", "state")
Pending       == Reserved("pending", "")
Cleanup       == Reserved("cleanup", "")
PendingProof  == Reserved("pending-proof", "")

Controls == {"inventory", "state"}

\* What there may be at the root, in the two directories of the store, and in a
\* directory of artifacts, whichever of its three names it has.
AtRoot ==
    ({"artifact"} \X (Artifacts \ DOMAIN Folder))
    \cup ({"directory", "preparation"} \X Directories)
    \cup ({"control", "temporary", "temporary-proof", "previous-proof",
           "control-quarantine"} \X Controls)
    \cup ({"ownership", "ownership-proof", "staging", "staging-proof", "pending",
           "pending-temporary", "pending-proof", "cleanup"} \X {""})

InOwnership ==
    ({"activation", "source-proof", "quarantine"} \X Artifacts)
    \cup ({"anchor", "claim-proof", "claim-quarantine", "directory-quarantine"} \X Directories)
    \cup ({"root-claim"} \X {""})

InStaging   == ({"stage", "stage-proof"} \X Artifacts) \cup ({"claim"} \X {""})
InDirectory == ({"artifact"} \X DOMAIN Folder) \cup ({"claim"} \X {""})
PlaceBases  == {"directory", "preparation", "directory-quarantine"} \X Directories

Names ==
    ({Root} \X AtRoot) \cup ({Ownership} \X InOwnership)
    \cup ({Staging} \X InStaging) \cup (PlaceBases \X InDirectory)

\* Names that only a transaction uses.
Transient ==
    {n \in Names : \/ n[1] = Root /\ n[2][1] \in
                        {"preparation", "temporary", "temporary-proof", "previous-proof",
                         "control-quarantine", "staging", "staging-proof",
                         "pending-temporary", "pending-proof"}
                   \/ n[1] = Ownership /\ n[2][1] \in
                        {"activation", "source-proof", "quarantine", "claim-proof",
                         "claim-quarantine", "directory-quarantine"}}

-----------------------------------------------------------------------------
(* Contents *)

Generated(c)      == <<"content", c>>
UserBytes         == <<"user">>
ClaimOf(d)        == <<"claim", d>>
NoInventory       == [owned |-> <<>>, directories |-> {}]
Bootstrap         == <<"bootstrap">>
InventoryOf(i)    == <<"inventory", i>>
StateOf(i)        == <<"state", i>>
NoPending         == [next |-> NoInventory]

OwnedBefore(p)    == p.previous.owned
Updates(p)        == DOMAIN p.updates
Deletes(p)        == DOMAIN p.deletes
Writes(p)         == p.creates \cup Updates(p)
NewContent(p, a)  == Generated(p.next.owned[a])
Expected(p, a)    == IF a \in Updates(p) THEN p.updates[a] ELSE p.deletes[a]

\* What a control holds before and after the transaction.
Before(p, c) == IF c = "inventory" THEN InventoryOf(p.previous)
                ELSE IF p.bootstrap THEN Bootstrap ELSE StateOf(p.previous)
After(p, c)  == IF c = "inventory" THEN InventoryOf(p.next) ELSE StateOf(p.next)
\* The bootstrap transaction expects no inventory, every other one the previous.
Replaces(p, c) == c = "state" \/ ~p.bootstrap

-----------------------------------------------------------------------------
(* Checks *)

OwnershipIntact ==
    /\ Exists(OwnershipRoot)
    /\ Holds(Reserved("ownership-proof", ""), <<"ownership-root">>)
    /\ SameFile(Reserved("ownership-proof", ""), Owned("root-claim", ""))

\* The directory is the very one whose claim was anchored.
OwnsPlace(d, place) ==
    /\ Exists(place)
    /\ SameFile(Claim(place), Owned("anchor", d))
    /\ Holds(Owned("anchor", d), ClaimOf(d))

OwnsDirectory(d) == OwnsPlace(d, Directory(d))

\* Nothing but the claim is in it.
OnlyClaim(place) == Contents(place) = {Claim(place)}

Active       == IF Exists(Inventory) THEN fs[Inventory].data[2] ELSE NoInventory

ControlReadable ==
    LET s == fs[State].data IN
    \/ s = Bootstrap /\ (Exists(Inventory) => Exists(Pending))
    \/ s[1] = "state" /\ Exists(Inventory)
          /\ (Holds(Inventory, InventoryOf(s[2])) \/ Exists(Pending))

NoOrphans ==
    /\ \A n \in Transient : ~Exists(n)
    /\ \A d \in Directories : Exists(Owned("anchor", d)) => d \in Active.directories
    /\ \A d \in Active.directories : OwnsDirectory(d)

\* A workspace that was only bootstrapped holds nothing yet.
BootstrapUntouched ==
    Holds(State, Bootstrap) =>
        \A n \in Names : n[1] = Root /\ Exists(n)
                            => n \in {State, OwnershipRoot, Reserved("ownership-proof", "")}

StageIntact(p) ==
    Writes(p) # {} =>
        /\ Exists(StagingRoot)
        /\ SameFile(Staged("claim", ""), Reserved("staging-proof", ""))
        /\ \A a \in Writes(p) : /\ SameFile(Staged("stage", a), Staged("stage-proof", a))
                                /\ Holds(Staged("stage-proof", a), NewContent(p, a))
        /\ Contents(StagingRoot) =
              {Staged("claim", "")} \cup {Staged(k, a) : k \in {"stage", "stage-proof"},
                                                         a \in Writes(p)}

\* The file taken away is the one that was to be, with the bytes it was to have.
QuarantineIntact(p, a) ==
    /\ SameFile(Owned("quarantine", a), Owned("source-proof", a))
    /\ Holds(Owned("quarantine", a), Expected(p, a))

DirectoryQuarantineIntact(d) == OwnsPlace(d, Quarantined(d)) /\ OnlyClaim(Quarantined(d))

Activated(p, c) ==
    /\ SameFile(Reserved("control", c), Reserved("temporary-proof", c))
    /\ Holds(Reserved("control", c), After(p, c))

\* The whole transaction is in place: nothing but the controls is left to do.
Verified(p) ==
    /\ \A a \in Updates(p) : QuarantineIntact(p, a)
    /\ \A d \in p.makes : /\ OwnsDirectory(d)
                          /\ SameFile(Owned("anchor", d), Owned("claim-proof", d))
    /\ \A a \in DOMAIN p.next.owned :
          /\ Holds(Target(a), NewContent(p, a))
          /\ a \in Writes(p) => SameFile(Target(a), Staged("stage-proof", a))
    /\ \A a \in Deletes(p) : QuarantineIntact(p, a) /\ ~Exists(Target(a))
    /\ \A d \in p.removes :
          IF Exists(Quarantined(d))
          THEN DirectoryQuarantineIntact(d) /\ ~Exists(Directory(d))
          ELSE SameFile(Owned("claim-quarantine", d), Owned("anchor", d))

\* Every operation is backed by the active inventory or the next one.
Authorized(p) ==
    LET next == DOMAIN p.next.owned  before == OwnedBefore(p) IN
    /\ \A a \in p.creates  : a \in next /\ a \notin DOMAIN before
    /\ \A a \in Updates(p) : a \in next /\ a \in DOMAIN before
                                /\ p.updates[a] = Generated(before[a])
    /\ \A a \in Deletes(p) : a \notin next /\ a \in DOMAIN before
                                /\ p.deletes[a] = Generated(before[a])
    /\ p.makes \subseteq p.next.directories
    /\ p.removes \subseteq p.previous.directories \ p.next.directories

CleanupAuthority(p) ==
    Holds(State, After(p, "state")) /\ Holds(Inventory, After(p, "inventory"))

-----------------------------------------------------------------------------
(* What is asked for, against what is there *)

\* Mutant: nothing that is no longer desired is deleted.
KeepStale(D) == [a \in {} |-> UserBytes]

\* Owned files that are not desired any more, with the bytes they must have.
StaleArtifacts(D) ==
    [a \in {b \in DOMAIN Active.owned \ DOMAIN D : Exists(Target(b))} |->
        Generated(Active.owned[a])]

DesiredDirectories(D) == {Folder[a] : a \in DOMAIN D \cap DOMAIN Folder}

\* What the store would have to claim or destroy without being entitled to.
Conflicts(D) ==
    LET own == Active.owned  folders == Active.directories IN
    {d \in DesiredDirectories(D) \cap folders : ~OwnsDirectory(d)}
    \cup {d \in folders \ DesiredDirectories(D) : ~OwnsDirectory(d)}
    \cup {a \in DOMAIN D :
             IF Exists(Target(a))
             THEN \/ a \notin DOMAIN own
                  \/ fs[Target(a)].data \notin {Generated(D[a]), Generated(own[a])}
             ELSE a \in DOMAIN own}
    \cup {a \in DOMAIN StaleArtifacts(D) : ~Holds(Target(a), StaleArtifacts(D)[a])}

\* The transaction that makes it so.
Comparison(D) ==
    LET own   == Active.owned
        makes == {d \in DesiredDirectories(D) : ~Exists(Directory(d))}
        stale == {a \in DOMAIN D : Exists(Target(a)) /\ ~Holds(Target(a), Generated(D[a]))}
    IN  [bootstrap |-> ~Exists(Inventory),
         previous  |-> Active,
         next      |-> [owned |-> D,
                        directories |-> makes \cup (DesiredDirectories(D) \cap Active.directories)],
         creates   |-> {a \in DOMAIN D : ~Exists(Target(a))},
         updates   |-> [a \in stale |-> fs[Target(a)].data],
         deletes   |-> StaleArtifacts(D),
         makes     |-> makes,
         removes   |-> Active.directories \ DesiredDirectories(D)]

Unchanged(p) ==
    /\ ~p.bootstrap /\ p.next = p.previous
    /\ Writes(p) \cup Deletes(p) = {} /\ p.makes \cup p.removes = {}

-----------------------------------------------------------------------------
(* Sequences of steps *)

\* One step for each member of a set, one member after the other.
Each(S, name) == LET order == SetToSeq(S) IN [i \in DOMAIN order |-> <<name, order[i]>>]

Fail == <<<<"fail">>>>
If(condition, steps) == IF condition THEN steps ELSE Fail
When(condition, steps) == IF condition THEN steps ELSE <<>>

Create(n, data)      == <<<<"create", n, data>>>>
Link(from, to)       == <<<<"link", from, from, to>>>>
LinkVerified(from, proof, to) == <<<<"link", from, proof, to>>>>
Rename(from, to)     == <<<<"rename", from, to>>>>
Move(from, to)       == <<<<"move", from, to>>>>
Unlink(n, proof)     == <<<<"unlink", n, proof>>>>
Discard(n, data)     == <<<<"discard", n, data>>>>
RemoveEmpty(n)       == <<<<"rmdir", n>>>>
Then(name, item)     == <<<<name, item>>>>

BootstrapSteps ==
    Create(OwnershipRoot, <<"dir">>)
    \o Create(Reserved("ownership-proof", ""), <<"ownership-root">>)
    \o Link(Reserved("ownership-proof", ""), Owned("root-claim", ""))
    \o Create(State, Bootstrap)

\* Everything is staged and every old file is given a second name, before the
\* pending record makes the transaction known.
PrepareSteps(p) ==
    LET Control(c) == Create(Reserved("temporary", c), After(p, c))
                      \o Link(Reserved("temporary", c), Reserved("temporary-proof", c))
                      \o When(Replaces(p, c),
                              Link(Reserved("control", c), Reserved("previous-proof", c)))
    IN  When(Writes(p) # {},
             Create(StagingRoot, <<"dir">>)
             \o Create(Reserved("staging-proof", ""), <<"staging">>)
             \o Link(Reserved("staging-proof", ""), Staged("claim", "")))
        \o Each(Writes(p), "stage") \o Each(p.makes, "anchor")
        \o Each(Updates(p), "source") \o Each(Deletes(p), "source")
        \o Then("prepared", "") \o Control("inventory") \o Control("state")
        \o Then("staged", "")
        \o Create(Reserved("pending-temporary", ""), <<"pending", p>>)
        \o Link(Reserved("pending-temporary", ""), PendingProof)
        \o Rename(Reserved("pending-temporary", ""), Pending)

ApplySteps(p) ==
    Each(Updates(p), "quarantine") \o Each(Deletes(p), "quarantine")
    \o Each(p.removes, "remove directory") \o Each(p.makes, "make directory")
    \o Each(Writes(p), "activate")
    \o Then("verify", "") \o Then("switch", "inventory") \o Then("switch", "state")

CleanupSteps(p) ==
    Then("mark", "")
    \o Each(Updates(p), "sweep quarantine") \o Each(Deletes(p), "sweep quarantine")
    \o Each(p.removes, "sweep directory") \o Each(Writes(p), "sweep activation")
    \o Each(p.makes, "sweep claim")
    \o Then("sweep control", "inventory") \o Then("sweep control", "state")
    \o Each(Writes(p), "sweep stage") \o Then("sweep staging", "")
    \o Unlink(Pending, Cleanup) \o Unlink(PendingProof, Cleanup)
    \o Then("swept", "") \o Discard(Cleanup, <<"pending", p>>)

-----------------------------------------------------------------------------
(* The steps *)

Running   == todo # <<>>
Here(op)  == Running /\ Head(todo)[1] = op
Item      == Head(todo)[2]

\* What the inspection decided replaces it.
Continue(steps) ==
    /\ todo' = steps \o Tail(todo)
    /\ UNCHANGED <<fs, run, result, calm, touches, crashes>>

\* A file operation, or the end of the synchronisation where it is refused.
Perform(trees) ==
    /\ IF trees = {}
       THEN todo' = <<>> /\ result' = "failed" /\ UNCHANGED fs
       ELSE fs' \in trees /\ todo' = Tail(todo) /\ UNCHANGED result
    /\ UNCHANGED <<run, calm, touches, crashes>>

FileOperation ==
    LET op == Head(todo) IN
    \/ Here("create")  /\ Perform(Created(op[2], op[3]))
    \/ Here("link")    /\ Perform(Linked(op[2], op[3], op[4]))
    \/ Here("rename")  /\ Perform(Renamed(op[2], op[3]))
    \/ Here("move")    /\ Perform(DirectoryRenamed(op[2], op[3]))
    \/ Here("unlink")  /\ Perform(Removed(op[2], op[3]))
    \/ Here("discard") /\ Perform(Discarded(op[2], op[3]))
    \/ Here("rmdir")   /\ Perform(DirectoryRemoved(op[2]))
    \/ Here("fail")    /\ Perform({})

\* A synchronisation begins; whoever holds the process mutex is alone.
Synchronize ==
    /\ ~Running
    /\ desired' \in Desires
    /\ todo' = Then("load", "") \o Then("compare", "") /\ result' = "none"
    /\ calm' = TRUE /\ pending' = NoPending
    /\ UNCHANGED <<fs, touches, crashes>>

\* The transaction a record describes; one that does not decode describes none.
Decodes(n)  == fs[n].data[1] = "pending"
Recorded(n) == IF Decodes(n) THEN fs[n].data[2] ELSE NoPending

\* Which records are there decides what must be finished first.
LoadCleanup ==
    /\ Here("load") /\ Exists(Cleanup)
    /\ pending' = Recorded(Cleanup)
    /\ todo' = If(/\ Decodes(Cleanup) /\ Exists(State) /\ OwnershipIntact
                  /\ \A n \in {Pending, PendingProof} : Exists(n) => SameFile(Cleanup, n)
                  /\ CleanupAuthority(pending'),
                  CleanupSteps(pending') \o Then("settle", "")) \o Tail(todo)
    /\ UNCHANGED <<fs, desired, result, calm, touches, crashes>>

LoadPending ==
    /\ Here("load") /\ ~Exists(Cleanup) /\ Exists(Pending)
    /\ pending' = Recorded(Pending)
    /\ LET p == pending' IN
       todo' = If(Decodes(Pending) /\ OwnershipIntact /\ SameFile(Pending, PendingProof),
                  (CASE ~Exists(State) ->
                          If(Activated(p, "inventory") /\ Verified(p), Then("switch", "state"))
                     [] Exists(State) /\ ~Exists(Inventory) /\ Replaces(p, "inventory") ->
                          If(Holds(State, Before(p, "state")) /\ Verified(p),
                             Then("switch", "inventory"))
                     [] OTHER -> <<>>)
                  \o Then("resume", "")) \o Tail(todo)
    /\ UNCHANGED <<fs, desired, result, calm, touches, crashes>>

LoadActive ==
    /\ Here("load") /\ ~Exists(Cleanup) /\ ~Exists(Pending)
    /\ Continue(IF Exists(State) THEN Then("settle", "")
                ELSE If(\A n \in Names : ~Exists(n), BootstrapSteps \o Then("settle", "")))

Settle ==
    /\ Here("settle")
    /\ Continue(When(~(/\ OwnershipIntact /\ ControlReadable
                       /\ NoOrphans /\ BootstrapUntouched), Fail))

\* The loaded transaction is applied and cleaned up.
Resume ==
    /\ Here("resume")
    /\ Continue(If(ControlReadable /\ StageIntact(pending),
                   Then("apply", "") \o CleanupSteps(pending) \o Then("confirm", "")))

Confirm == Here("confirm") /\ Continue(When(~ControlReadable, Fail))

\* An inventory that does not decode is refused.
InventoryDecodes == Exists(Inventory) => fs[Inventory].data[1] = "inventory"

Compare ==
    /\ Here("compare")
    /\ LET p == Comparison(desired) IN
       /\ pending' = p
       /\ todo' = IF ~InventoryDecodes \/ Conflicts(desired) # {} THEN Fail
                  ELSE When(~Unchanged(p),
                            If(\A n \in Transient \cup {Claim(Directory(d)) : d \in p.makes} :
                                   ~Exists(n),
                               PrepareSteps(p) \o Then("apply", "") \o CleanupSteps(p)))
                       \o Then("finish", "")
    /\ UNCHANGED <<fs, desired, result, calm, touches, crashes>>

\* Mutant: success is reported before all is done.
FinishEarly ==
    /\ Here("finish")
    /\ todo' = todo /\ result' = "done"
    /\ UNCHANGED <<fs, run, calm, touches, crashes>>

Finish ==
    /\ Here("finish")
    /\ todo' = <<>> /\ result' = "done"
    /\ UNCHANGED <<fs, run, calm, touches, crashes>>

StageArtifact ==
    /\ Here("stage")
    /\ Continue(Create(Staged("stage", Item), NewContent(pending, Item))
                \o Link(Staged("stage", Item), Staged("stage-proof", Item)))

AnchorDirectory ==
    /\ Here("anchor")
    /\ Continue(Create(Owned("anchor", Item), ClaimOf(Item))
                \o Link(Owned("anchor", Item), Owned("claim-proof", Item)))

CaptureSource ==
    /\ Here("source")
    /\ Continue(Link(Target(Item), Owned("source-proof", Item)) \o Then("captured", Item))

\* The second name of an old file has the bytes the transaction expects.
CheckSource ==
    /\ Here("captured")
    /\ Continue(When(~Holds(Owned("source-proof", Item), Expected(pending, Item)), Fail))

CheckPrepared ==
    /\ Here("prepared")
    /\ Continue(When(\E d \in pending.removes : ~OwnsDirectory(d), Fail))

CheckStage == Here("staged") /\ Continue(When(~StageIntact(pending), Fail))

Apply ==
    /\ Here("apply")
    /\ LET p == pending IN
       Continue(IF ~\E s \in {Before(p, "state"), After(p, "state")} : Holds(State, s) THEN Fail
                ELSE IF Holds(Inventory, After(p, "inventory"))
                THEN If(Activated(p, "inventory"), Then("switch", "state"))
                ELSE If(/\ IF p.bootstrap THEN ~Exists(Inventory) /\ Holds(State, Bootstrap)
                           ELSE Holds(Inventory, Before(p, "inventory"))
                        /\ Authorized(p) /\ StageIntact(p),
                        ApplySteps(p)))

-----------------------------------------------------------------------------
(* Applying *)

EnsureQuarantine ==
    /\ Here("quarantine")
    /\ LET a == Item  q == Owned("quarantine", a)  proof == Owned("source-proof", a)
           Back == Rename(q, Target(a)) \o Fail
           ours == a \in Updates(pending) /\ SameFile(Target(a), Staged("stage-proof", a))
       IN Continue(
            IF Exists(q)
            THEN CASE ~SameFile(q, proof) \/ (Exists(Target(a)) /\ ~ours) -> Fail
                   [] SameFile(q, proof) /\ ~Exists(Target(a)) ->
                        When(~Holds(q, Expected(pending, a)), Back)
                   [] OTHER -> When(~Holds(q, Expected(pending, a)), Fail)
            ELSE If(Holds(proof, Expected(pending, a)) /\ SameFile(Target(a), proof),
                    Rename(Target(a), q) \o Then("quarantined", a)))

\* What was renamed away may not be what was inspected: then it goes back.
CheckQuarantine ==
    /\ Here("quarantined")
    /\ Continue(When(~QuarantineIntact(pending, Item),
                     Rename(Owned("quarantine", Item), Target(Item)) \o Fail))

EnsureDirectoryRemoval ==
    /\ Here("remove directory")
    /\ LET d == Item  claim == Owned("claim-quarantine", d) IN
       Continue(CASE Exists(Quarantined(d)) ->
                       If(~Exists(Directory(d)) /\ DirectoryQuarantineIntact(d), <<>>)
                  [] ~Exists(Quarantined(d)) /\ Exists(claim) ->
                       If(SameFile(claim, Owned("anchor", d)), <<>>)
                  [] OTHER ->
                       If(OwnsDirectory(d),
                          IF OnlyClaim(Directory(d))
                          THEN Move(Directory(d), Quarantined(d)) \o Then("directory removed", d)
                          ELSE Rename(Claim(Directory(d)), claim)))

CheckDirectoryRemoval ==
    /\ Here("directory removed")
    /\ Continue(When(~DirectoryQuarantineIntact(Item),
                     Move(Quarantined(Item), Directory(Item)) \o Fail))

MakeDirectory ==
    /\ Here("make directory")
    /\ LET d == Item  place == Preparation(d)  anchor == Owned("anchor", d) IN
       Continue(
         If(SameFile(anchor, Owned("claim-proof", d)) /\ Holds(anchor, ClaimOf(d)),
            CASE Exists(Directory(d)) -> If(OwnsDirectory(d) /\ ~Exists(place), <<>>)
              [] ~Exists(Directory(d)) /\ ~Exists(place) ->
                   Create(place, <<"dir">>)
                   \o LinkVerified(anchor, Owned("claim-proof", d), Claim(place))
                   \o Then("directory prepared", d)
              [] OTHER -> If(OnlyClaim(place), Then("directory prepared", d))))

PlaceDirectory ==
    /\ Here("directory prepared")
    /\ LET d == Item  place == Preparation(d) IN
       Continue(If(SameFile(Claim(place), Owned("anchor", d)),
                   Move(place, Directory(d)) \o Then("directory made", d)))

CheckDirectory == Here("directory made") /\ Continue(When(~OwnsDirectory(Item), Fail))

EnsureActivation ==
    /\ Here("activate")
    /\ LET a == Item  proof == Staged("stage-proof", a)  activation == Owned("activation", a) IN
       Continue(If(/\ SameFile(Staged("stage", a), proof)
                   /\ Holds(proof, NewContent(pending, a))
                   /\ Exists(activation) => SameFile(activation, proof),
                   When(~Exists(activation),
                        LinkVerified(proof, Staged("stage", a), activation))
                   \o Then("activated", a)))

CheckActivation ==
    /\ Here("activated")
    /\ Continue(If(Holds(Owned("activation", Item), NewContent(pending, Item)),
                   Then("install", Item)))

InstallArtifact ==
    /\ Here("install")
    /\ LET a == Item  proof == Staged("stage-proof", a) IN
       Continue(IF Exists(Target(a))
                THEN When(~SameFile(Target(a), proof), Fail) \o Then("installed", a)
                ELSE LinkVerified(proof, Staged("stage", a), Target(a)) \o Then("installed", a))

CheckArtifact ==
    /\ Here("installed")
    /\ Continue(When(~Holds(Target(Item), NewContent(pending, Item)), Fail))

Verify == Here("verify") /\ Continue(When(~Verified(pending), Fail))

\* The old control is quarantined, then the new one gets its name.
ActivateControl ==
    /\ Here("switch")
    /\ LET c == Item  p == pending  control == Reserved("control", c)
           temporary == Reserved("temporary", c)  proof == Reserved("temporary-proof", c)
           old == Reserved("control-quarantine", c)  was == Reserved("previous-proof", c)
       IN Continue(When(~Activated(p, c),
            If(SameFile(temporary, proof) /\ Holds(temporary, After(p, c)),
               CASE SameFile(old, was) -> If(~Exists(control), Rename(temporary, control))
                 [] ~SameFile(old, was) /\ Replaces(p, c) ->
                      If(SameFile(control, was) /\ Holds(control, Before(p, c)),
                         Rename(control, old) \o Rename(temporary, control))
                 [] OTHER -> If(~Exists(control), Rename(temporary, control)))))

-----------------------------------------------------------------------------
(* Cleaning up *)

MarkCleanup ==
    /\ Here("mark")
    /\ Continue(IF Exists(Cleanup) THEN When(~CleanupAuthority(pending), Fail)
                ELSE LinkVerified(Pending, PendingProof, Cleanup) \o Then("mark", ""))

\* Mutant: the proof goes before the quarantine it identifies.
SweepProofFirst(a) ==
    Discard(Owned("source-proof", a), Expected(pending, a))
    \o Unlink(Owned("quarantine", a), Owned("source-proof", a))

\* The quarantine goes first: without its proof nobody may remove it.
SweepSource(a) ==
    Unlink(Owned("quarantine", a), Owned("source-proof", a))
    \o Discard(Owned("source-proof", a), Expected(pending, a))

SweepQuarantine ==
    /\ Here("sweep quarantine")
    /\ LET a == Item IN
       Continue(If(Exists(Owned("quarantine", a)) =>
                      /\ Exists(Owned("source-proof", a))
                      /\ Holds(Owned("quarantine", a), Expected(pending, a))
                      /\ IF a \in Updates(pending)
                         THEN SameFile(Target(a), Staged("stage-proof", a))
                         ELSE ~Exists(Target(a)),
                   SweepSource(a)))

SweepDirectory ==
    /\ Here("sweep directory")
    /\ LET d == Item  place == Quarantined(d)  anchor == Owned("anchor", d)
           claim == Owned("claim-quarantine", d)
           Rest == Unlink(claim, anchor) \o Discard(anchor, ClaimOf(d))
       IN Continue(
            CASE Exists(place) /\ Exists(Claim(place)) ->
                   If(~Exists(claim) /\ Exists(anchor) /\ DirectoryQuarantineIntact(d),
                      Rename(Claim(place), claim) \o RemoveEmpty(place) \o Rest)
              [] Exists(place) /\ ~Exists(Claim(place)) ->
                   If(Exists(claim) /\ Exists(anchor), RemoveEmpty(place) \o Rest)
              [] OTHER -> If(Exists(claim) => Exists(anchor), Rest))

SweepActivation ==
    /\ Here("sweep activation")
    /\ LET a == Item  activation == Owned("activation", a)  proof == Staged("stage-proof", a) IN
       Continue(When(Exists(activation),
                     If(SameFile(Target(a), activation) /\ SameFile(activation, proof),
                        Unlink(activation, proof))))

SweepClaim ==
    /\ Here("sweep claim")
    /\ Continue(If(OwnsDirectory(Item), Unlink(Owned("claim-proof", Item), Owned("anchor", Item))))

SweepControl ==
    /\ Here("sweep control")
    /\ LET c == Item  p == pending  old == Reserved("control-quarantine", c)
           was == Reserved("previous-proof", c)  proof == Reserved("temporary-proof", c)
       IN Continue(If(/\ ~Exists(Reserved("temporary", c))
                      /\ Exists(old) => Replaces(p, c) /\ Exists(was)
                      /\ Exists(proof) => Activated(p, c),
                      When(Replaces(p, c), Unlink(old, was) \o Discard(was, Before(p, c)))
                      \o Unlink(proof, Reserved("control", c))))

SweepStage ==
    /\ Here("sweep stage")
    /\ LET a == Item  proof == Staged("stage-proof", a) IN
       Continue(If(Exists(Staged("stage", a)) => Exists(proof),
                   Unlink(Staged("stage", a), proof) \o Unlink(proof, Target(a))))

SweepStaging ==
    /\ Here("sweep staging")
    /\ LET claim == Staged("claim", "")  proof == Reserved("staging-proof", "") IN
       Continue(IF Writes(pending) = {} THEN When(Exists(StagingRoot), Fail)
                ELSE If(Exists(claim) => Exists(proof),
                        Unlink(claim, proof)
                        \o When(Exists(StagingRoot), RemoveEmpty(StagingRoot))
                        \o Discard(proof, <<"staging">>)))

CheckSwept ==
    /\ Here("swept")
    /\ Continue(When(\/ \E n \in Transient \cup {Pending} : Exists(n)
                     \/ \E d \in pending.removes : Exists(Owned("anchor", d)), Fail))

-----------------------------------------------------------------------------
(* What else happens *)

\* The process ends; a file that was being written may be left incomplete.
Crash ==
    /\ Running /\ crashes < MaxCrashes
    /\ crashes' = crashes + 1
    /\ todo' = <<>> /\ result' = "none"
    /\ \/ UNCHANGED fs
       \/ Here("create") /\ Head(todo)[3] # <<"dir">>
             /\ fs' \in Created(Head(todo)[2], <<"partial">>)
    /\ UNCHANGED <<run, calm, touches>>

Changes(trees) ==
    /\ touches < MaxTouches
    /\ touches' = touches + 1 /\ calm' = FALSE
    /\ fs' \in trees
    /\ UNCHANGED <<run, todo, result, crashes>>

\* A user edits a file in place: every name of it shows the new bytes.
EditArtifact(a) ==
    /\ Exists(Target(a)) /\ ~Holds(Target(a), UserBytes)
    /\ Changes({[n \in Names |-> IF SameFile(n, Target(a)) THEN [fs[n] EXCEPT !.data = UserBytes]
                                 ELSE fs[n]]})

\* A user saves a file of the same name, or a new one.
SaveArtifact(a) ==
    /\ HasParent(Target(a))
    /\ Changes({[fs EXCEPT ![Target(a)] = [id |-> Fresh, data |-> UserBytes]]})

DeleteArtifact(a) ==
    /\ Exists(Target(a))
    /\ Changes({[fs EXCEPT ![Target(a)] = Absent]})

\* A user makes a directory, or removes one with everything in it.
ToggleDirectory(d) ==
    IF Exists(Directory(d))
    THEN Changes({[n \in Names |-> IF n = Directory(d) \/ n[1] = Directory(d)[2] THEN Absent
                                   ELSE fs[n]]})
    ELSE Changes(Created(Directory(d), <<"dir">>))

UserStep ==
    \/ \E a \in Artifacts : EditArtifact(a) \/ SaveArtifact(a) \/ DeleteArtifact(a)
    \/ \E d \in Directories : ToggleDirectory(d)

Load == LoadCleanup \/ LoadPending \/ LoadActive \/ Settle \/ Resume \/ Confirm

Prepare ==
    \/ Compare \/ StageArtifact \/ AnchorDirectory \/ CaptureSource
    \/ CheckSource \/ CheckPrepared \/ CheckStage \/ Finish

ApplyStep ==
    \/ Apply \/ EnsureQuarantine \/ CheckQuarantine
    \/ EnsureDirectoryRemoval \/ CheckDirectoryRemoval
    \/ MakeDirectory \/ PlaceDirectory \/ CheckDirectory
    \/ EnsureActivation \/ CheckActivation \/ InstallArtifact \/ CheckArtifact
    \/ Verify \/ ActivateControl

CleanupStep ==
    \/ MarkCleanup \/ SweepQuarantine \/ SweepDirectory \/ SweepActivation \/ SweepClaim
    \/ SweepControl \/ SweepStage \/ SweepStaging \/ CheckSwept

Init ==
    /\ fs = [n \in Names |-> Absent]
    /\ desired = <<>> /\ todo = <<>> /\ pending = NoPending
    /\ result = "none" /\ calm = TRUE
    /\ touches = 0 /\ crashes = 0

Next ==
    \/ Synchronize \/ Load \/ Prepare \/ ApplyStep \/ CleanupStep
    \/ FileOperation \/ Crash \/ UserStep

Spec == Init /\ [][Next]_vars

-----------------------------------------------------------------------------
(* Properties *)

\* Every file has an identity; what runs is a sequence of known steps.
TypeOK ==
    /\ DOMAIN fs = Names
    /\ \A n \in Names : fs[n].id \in 0 .. Cardinality(Names) + 1 /\ (fs[n].id = 0 => fs[n] = Absent)
    /\ desired \in Desires \cup {<<>>}
    /\ \A i \in DOMAIN todo : Len(todo[i]) \in 1 .. 4
    /\ result \in {"none", "done", "failed"} /\ (Running => result = "none")
    /\ calm \in BOOLEAN
    /\ touches \in 0 .. MaxTouches /\ crashes \in 0 .. MaxCrashes

\* Bytes a user wrote are never destroyed by a step of the store, whatever it
\* inspected before and whenever they were written: the file may be renamed
\* away, but some name of it remains (applyPendingWrite, ensurePendingSourceQuarantine).
UserBytesKept ==
    [][touches' = touches =>
          \A n \in Names : Holds(n, UserBytes) => \E m \in Names : fs'[m] = fs[n]]_vars

\* A synchronisation that reports success while no user interfered leaves the
\* desired artifacts, none of the generated ones that are not desired any
\* more, an inventory of exactly these, and nothing of its own transaction,
\* whatever earlier transactions were cut off where.
SuccessIsDesired ==
    result = "done" /\ calm =>
        /\ \A a \in DOMAIN desired : Holds(Target(a), Generated(desired[a]))
        /\ \A a \in Artifacts \ DOMAIN desired :
              Exists(Target(a)) => Holds(Target(a), UserBytes)
        /\ Active.owned = desired
        /\ \A n \in Transient \cup {Pending, Cleanup} : ~Exists(n)

\* Work that ended before a record made it known: such a workspace is refused.
Unpublished ==
    /\ ~Exists(Pending) /\ ~Exists(Cleanup)
    /\ \/ \E n \in Transient : Exists(n)
       \/ \E d \in Directories : Exists(Owned("anchor", d)) /\ d \notin Active.directories
       \/ Exists(OwnershipRoot) /\ (~Exists(State) \/ Holds(State, <<"partial">>))

\* A directory that is being made and has not been given its claim.
Unclaimed == \E d \in Directories : Exists(Preparation(d)) /\ ~Exists(Claim(Preparation(d)))

\* A synchronisation only fails if a user changed something, if an earlier one
\* ended before its pending record, or if it ended between making a directory
\* and claiming it: from every other point at which one can end, the next one
\* finishes what it began (applyPendingMaterialization, cleanupPendingMaterialization).
FailureHasCause == result = "failed" => touches > 0 \/ Unpublished \/ Unclaimed

\* "applies it through a recoverable pending transaction": a transaction whose
\* record was published is never what makes the next synchronisation fail
\* (materialization_store.go:113).
PendingIsRecoverable ==
    result = "failed" => touches > 0 \/ (~Exists(Pending) /\ ~Exists(Cleanup))
=============================================================================
