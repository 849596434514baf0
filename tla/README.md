# A formal model of the feature workspace runtime

This directory specifies the local workspace of `feature-implement` in TLA+: what its commands
do to the durable state, what a crash leaves, and what may never happen. TLC checks the modules
on small instances; TLAPS proves the main invariants of each of them for every instance. Paths below
are relative to the repository; `workspace/` stands for `internal/workspace/`.

## 1. The system

A *workspace* executes a plan of *merge units* in one Git repository. `feature workspace <action>`
runs one command and exits. All durable state is in files:

| component | state | operations |
| --- | --- | --- |
| Journal file (`journal_store.go`, `journal_recovery.go`, `integration_journal_capacity.go`) | append-only records, an incomplete last line after a crash, a pending recovery intent, a flock | open for reading or writing, read snapshot, append with compare-and-swap of the head, recover the tail |
| Replaceable files (`verified_publication.go`) | a file, its pending and backup copies, an intent, a lock | publish, read, recover, remove |
| Runtime projection (`runtime_projection.go`, `attempt_projection.go`, `integration_projection.go`, `completion_projection.go`) | what replay of the journal says of attempts, integrations and completion | one reducer case per event |
| Attempts (`attempt_lifecycle.go`) | phase, base, verified head, lease epoch, serial segment, boundaries | start, reconcile, adopt head, pause, resume, abandon |
| Review gate (`review_lifecycle.go`, `review_projection.go`, `review_adapter.go`, `review_run.go`) | dispatches and terminal records per attempt | dispatch, record, run, ready |
| Integration (`integration_lifecycle.go`, `integration_git.go`, `local_target_git_session.go`) | durable intent, merge commit object, feature ref, completion record | integrate merge-unit |
| Completion (`completion.go`, `completion_lifecycle.go`) | the final record | complete verify |
| Local recovery (`local_recovery.go`) | none of its own | recover: tail, worktrees, pending integrations, completion |
| Attempt worktrees (`attempt_tree_materialization.go`, `attempt_git.go`) | scratch clones on disk | materialise, inspect, roll back |
| Views (`runtime_views.go`) | none | schedule, gates, status |
| Initialisation, runtime format and generations (`workspace_init.go`, `runtime_storage.go`, `generation_store.go`, `plan_checkpoint.go`) | format marker, stored definition, first record, projection file | init, recover |
| Rooted filesystem (`rooted_filesystem.go`, `verified_root.go`) | directories bound by identity | exclusive write, no-replace rename, identity-checked removal |
| Materialisation store (`materialization_store.go`, `materialization.go`) | generated artifacts under a transaction control | synchronise |
| Bundle, definition, policy, codecs | immutable inputs and wire formats | load, narrow, encode, decode |
| Standalone plans, installer, command line | none that outlives a run | |

**How they interact.** Every mutating command holds the journal's lock exclusively, from before it
reads until it exits (`workspacecmd/command.go:563`); readers share it; neither waits for it. A
command replays the journal, checks its guards against the projection and the worktree, and appends
with a compare-and-swap of the head it read, which runs the same reducer again. So two commands
never interleave. What does interleave: the agent in an attempt's worktree, anybody who pushes the
feature ref, Git's pruning, and the end of the process or the power between any two durable effects.

**What is hard.** A long sequence of legal commands over several attempts (retry, supersession,
pause and resume around each other's integrations); an integration that spans two records and three
Git effects; recovery that may itself be interrupted; publication without replacing renames; a
journal at its size limit. `PROJECT.json` lists the hazards at their lines with the properties that
cover them.

## 2. Modules

| module | models | abstract specification |
| --- | --- | --- |
| `WorkspaceRuntime` | attempts, gates, integration records, completion | `IntegrationChain` |
| `Integration` | `IntegrateMergeUnit` step by step, with Git | `IntegrationChain` |
| `WorkspaceJournal` | the journal file, its locks, capacity and tail recovery | |
| `ReplaceablePublication` | `PublishReplaceable` and its recovery | `AtomicFile` |
| `AttemptWorktree` | `MaterializeAttemptTree`, its rollback, inspection and recovery | |
| `WorkspaceInit` | `init`, the runtime format, the generation store, bootstrap recovery | |
| `MaterializationStore` | `SynchronizeMaterialization` | |
| `RootedFiles` | the file operations it uses | |
| `WorkspaceRuntimeProofs`, `IntegrationProofs`, `WorkspaceJournalProofs`, `ReplaceablePublicationProofs`, `AttemptWorktreeProofs`, `WorkspaceInitProofs`, `MaterializationStoreProofs` | theorems about the module they are named after | |
| `MaterializationSuccessProofs` | what success of `MaterializationStore` means, on top of `MaterializationStoreProofs` | |
| `MC*` | small instances | |

### WorkspaceRuntime

State: `attempts[a]` is `RuntimeAttemptProjection`, `reviews[a]` is `ReviewGateState`,
`adoption[a]` the last head adoption, `chain` the integrated attempts (its length is the durable
feature head, one merge per attempt), `completion` the final record, and `worktree[a]` what an
inspection would find on disk. An attempt is `<<unit, number>>`; a digest is the set of facts it
binds, so `AcceptanceEvidence` is what the readiness digest distinguishes. One action is one
command, because the exclusive lock makes a command atomic to every other one; where a command
appends twice (`review dispatch`: adoption, then dispatch) the process may end in between and the
action has both outcomes. `integrate` is two actions, at its two records.

`Reserved`, `Paused`, `Resumed`, `Promised`, `Integrated`, `Superseded` and their like are the
reducer's cases; the actions hold the commands' guards. The agent (`AgentWorks`) may commit, reset,
leave files uncommitted or delete a worktree at any time.

### Integration

The command of `integration_lifecycle.go` with a program counter: confirm, inspect, append the
intent, create the commit, swap the ref in a prepared reference transaction, verify, append the
completion record. It crashes anywhere and is run again; the ref is moved, the merge commit pruned
and the accepted worktree touched by others.

### WorkspaceJournal

`file` is complete records and a tail, `synced` what a power loss keeps. Each append writes two
halves and synchronises, as the code does; a process end keeps what was written, a power loss may
keep any part of what was not synchronised (`Survives`). Recovery is the code's five durable steps.
`Appendable` has the reservation for the completion record of a pending integration. The recovery
intent is replaced atomically: that is what `ReplaceablePublication` shows.

### ReplaceablePublication

Four files and two locks. Each step is one durable file operation; `ResumeAt` is the case table of
`recoverReplaceable`, and anything outside it leads to `failed`. Readers inspect the three controls
one by one and read without the publication lock when they see none.

### MaterializationStore

What a plan generates (`internal/plan/materialize.go`) lies in a directory that its users edit. `fs`
maps every name to a file with an identity, so that links, renames and replaced files are told apart;
`RootedFiles` has the operations, each the set of trees it may lead to and `{}` where it is refused.
The code is a long alternation of inspections and such operations. `todo` is what is left of it:
`PrepareSteps`, `ApplySteps` and `CleanupSteps` are the loops of the three phases; an action is one
inspection, or the preparation of one item, and puts the operations it decides on in its place;
`FileOperation` takes the next one. A record that does not decode is refused where it is read.
Users act and the process ends between any two steps. Artifacts and directories are one level deep;
names of controls do not carry the transaction's digest, because a transaction starts only when no
name of another one is left. Users are taken not to touch the reserved names, nor to write through a
file they opened before it was renamed.

### AttemptWorktree

`tree[a]` says of each path of an attempt's directory whether it is absent, as this materialisation
made it, half-written, edited or somebody else's; `.git` goes through the states of
`initializeDetachedAttemptRepository`. `job` is the command that holds the journal: its attempt, its
stage and the identities it has recorded (`made`), which is all that the rollback goes by. Every file
operation and Git command is an action. One of them may fail (`OperationFails`, `RemovalFails`: the
command goes on to its rollback, or past what it could not remove), the process may end (`Crash`: the
record of identities is gone), and users edit, replace, create and delete what they find (`Touch`).
`Recover` surveys the active attempts in any order, makes the missing worktrees and only then resumes
the pending integration, as `RecoverWorkspaceLocalEffects` does; one unreadable worktree ends it.

Taken for granted: a recorded identity (device and inode) is not reused meanwhile; the directory is not
moved away while it is filled; an entry can be inspected right after its creation; users learn the
path from the record of the attempt. `ForeignKept` leaves `.git` out: `git init` would adopt a `.git`
that somebody puts there right after the check that there is none. The removal of `.git` goes through
its directory in no particular order, so that `.git` may stay readable without its index; the entries
go after it. A process end is modelled, a power loss is not.

### WorkspaceInit

`root` and `state` are the entries of the runtime directory and of its state directory, `stored` the
generation files, `journal` the first records. Any number of `init` and `recover` commands run side by
side, each with the definition and the checkpoint it began with, while the plan repository goes on.
The format is initialised under its own lock, which is waited for; the rest happens under the journal's,
which is not. `Incompatible` has the three places where a directory is refused. An end between the
halves of the first record leaves a torn tail: `recover` binds its record to the only stored
generation, after which `init` may only bind the same one. Between `Store` and the record a directory
holds a generation without being initialised. The five steps of a tail recovery are two here. The
projection file is written with the report. The target repository is taken to admit the workspace.

## 3. Runs

| run | question | result |
| --- | --- | --- |
| contention | can two units that share a segment and the feature head get in each other's way? | no: 0.96 million states |
| ordered | does the chain respect dependencies, and does nothing contradict the completion? | it does: 1.2 million states |
| integration | can a crash, a moved ref or a pruned object break an integration? | no; a pending one is finished when run again |
| journal | does a crash lose an acknowledged record or wedge the recovery? | no, except that a full journal has no room for the recovery record |
| publication | is the replacement atomic for readers at every interruption? | yes |
| materialization | does a synchronisation destroy what users wrote, report success wrongly, or wedge the next one? | no, but for what section *Findings* says: 0.41 million states |
| worktree | can a failure, an end or a user leave a worktree that looks started but is not, or wedge recovery? | no: 0.48 million states |
| init | do interrupted and rival initialisations agree on one generation, and does one finish? | they do: 0.2 million states |
| prior | is what init refuses as incompatible a prior runtime? | **violated** |
| preparation | is every published transaction recoverable? | **violated** |
| evidence | is the evidence of an intent immutable? | **violated** |
| adoption | does adopt-head's success mean the head is adopted? | **violated** |

**Bounds.** *contention*: two units, one with two attempts, so that a retry and a rival meet; two
commits, because a guard only compares heads for equality and descent; one boundary and one dispatch
per attempt, since each event of either kind only looks at the last. *ordered*: a dependency chain
of two, a gate with two dispatches so that one is open at completion. *evidence* and *adoption*: one
unit. *integration*: two attempts (the second sees a non-empty chain), two of each disturbance.
*journal*: two processes, four bytes of capacity (an intent, its completion of two bytes and one
more record), three stops: one to tear, one to interrupt the recovery, one to interrupt that again.
*publication*: three processes so that two readers meet while a third is refused, two contents, two
stops. *materialization*: two desired sets, which differ in an updated artifact and in one that comes and
goes with its directory; two ends, so that a recovery is cut off as well, and one change by a user at
any point. (Three sets, or two changes, were checked once beyond the configuration, without a new
result.) *worktree*: two attempts, so that one can hold up the other's recovery; a directory, a file and
a gitlink of the base and one stray path, the kinds of entries that are created or kept in different
ways; one fault, one end, one change by a user. *init*: two commands at a time; two definitions, of
two workspaces, so that a recovery for the wrong one is refused too; two ends, one to tear the first
record and one to interrupt its recovery; one commit of the plan. (A third definition, of the first's
workspace, was checked once for the invariants: 0.62 million states.) *prior* needs one command and one
end. `CHECK_DEADLOCK` is off for WorkspaceRuntime only: a completed workspace stops.

**Fairness.** `Integration`: a running command keeps running (`WF(Step)`), and a pending integration
is run again (`WF(Resume)`), as `recover` at the start of each work cycle does (README, "Run
`recover`, then read `status`"). `WorkspaceJournal`: a running command ends, and recovery is tried
until it gets the lock (`SF(OpenWriter)`); because the lock is never waited for, `TornTailRepaired`
also assumes that the lock is free again and again. `ReplaceablePublication`: a running command ends
and readers come back. `AttemptWorktree`: a running command ends
(`WF(Step)`), recover is run again (`SF(Recover)`), and an attempt that recover reports as incomplete is
abandoned some time, because nothing else clears it (`local_recovery.go:116`; the message's advice to
rerun attempt start does not help, since that refuses an existing incomplete directory,
`attempt_tree_materialization.go:123`). `WorkspaceInit`: commands end, somebody runs `init` and `recover`
again and again; `InitializationResumes` also assumes that in the end only one operator is left
(`OneIsLeft`), because two could find the journal locked by each other for ever. Nothing is assumed of
agents, crashes or other people.

**Findings.**
1. *Evidence after intent* (`runtime_projection.go:316`). The freeze recognises events by an
   `AttemptID` method that the two review-gate events lack. A gate dispatched and satisfied once more
   after the intent changes the readiness digest, so the pending integration is refused from then on,
   while the attempt can be neither abandoned nor superseded.
2. *Stale adoption* (`attempt_lifecycle.go:268`). Adopt `h`; reset to the base and pause there;
   resume; fast-forward to `h`; adopt: the command reports success from the first adoption while the
   verified head is the base. Integration then refuses the attempt.
3. *Unclaimed directory* (`materialization_store.go:2086`). A synchronisation makes a directory under
   a preparation name and then links its claim into it. If the process ends between the two, recovery
   finds an empty preparation and refuses it, now and for ever, although the transaction was published.
   `FailureHasCause` shows that this is the only such point after the pending record. Before that record
   (bootstrap and staging) an end also leaves a directory that is refused; the code says so: orphan
   controls "will be preserved".
4. *Unfinished format* (`runtime_storage.go:284`). `init` refuses every nonempty directory without a
   marker as a prior runtime, and so what an interrupted `init` has left in an empty one, although
   `runtimeRootInitializable` tolerates exactly that. Only `recover` completes the format. The same holds
   for an end after the marker and before the journal's lock file exists. `InitializationResumes` shows that
   the two commands together always finish.

**Mutants.** Each property of a passing run is violated by a named mutant of a definition, defined
beside it: a dropped guard, a missing synchronisation, a reset forgotten.

## 4. Proofs

TLAPS checks the following for all processes, attempts, contents and bounds that satisfy the named
assumptions of the modules. Each module of proofs has an inductive invariant `Inv`, `Invariance`
(`Spec => []Inv`), and the theorems that follow from it; `TypeCorrect` is the module's `TypeOK`. None of
the properties is inductive as the runs state it; what had to be added says why the code is right.

**WorkspaceRuntime.** `Inv` is the conjunction of `TypeOK`, `LiveAttemptIsLatest`, `InFlightOnFrontier`,
`SerialSegmentExclusive`, `OnePendingIntegration`, `ChainInDependencyOrder`, the evidence support,
`CompletionIsFinal` and `LeasesFenced`. That what is in flight is the latest attempt of its unit carries
the argument: a start needs the latest attempt of its unit to have ended, so no second one is in flight;
an integration supersedes everything else in flight, so whatever is in flight has the current base, and
the chain stays contiguous and in dependency order. `LeasesFenced` counts: an active attempt holds the
epoch after its last boundary, and an attempt not yet started has no boundary. From it `OneInFlightPerUnit`,
`SegmentsExclusive`, `FrontierKept`, `OnePending`, `ChainOrdered`, `EvidenceBacked`, `LatestDecides`,
`LeasesStayFenced`, `CompletionFinal`, the action properties `Frozen_AfterIntent` and `TerminalFixed`, and
`Implements`: every step is a step of `IntegrationChain` or a stutter. Each step lemma has one case per
kind of step (`StepKinds`), so that commands that touch only one attempt are treated together.

**Integration.** `RecordedReachedRef` says nothing of a command that is about to record. `CommandInPlace`
adds what the command has established at each program counter: before the promise its attempt is neither
promised nor integrated, after it the promise is its own, and once it has found the ref at its merge the
merge has been in the ref, whatever others do to it since. From it `RecordedSafe`, `FrontierSafe`, the
action property `RefSafe` (of the command's steps the swap alone writes the ref, and from the frontier to
the promise) and `Implements`, the refinement of `IntegrationChain`.

**ReplaceablePublication.** Three parts: who holds which lock (`Sessions`, `Exclusion`, `SidecarHeld`);
the five arrangements of target, pending file and backup that an intent explains (`Before`, `Prepared`,
`Vacated`, `Replaced`, `Cleaned`: the rows of `recoverReplaceable`'s case table); and which of them the
holder of the publication lock looks at at each step (`Place`). A process that holds no lock relies on
nothing (`OthersInPlace`). From it `NeverRefusedSafe`, `ControlsSafe` and `Implements`, the refinement of
`AtomicFile`: the abstract content is the new one from the moment its pending file is complete, and
neither the quarantine nor the publication nor the removal of the controls changes it any more.

**WorkspaceJournal.** `DiskInv` says how far the file may be ahead of what is synchronised: by one record,
never by an acknowledged one. `IntentInv` lists the states in which a pending recovery finds the file:
begun (the tail is the fragment of the intent, or gone), truncated, or recorded. `Place` says what a writer relies on at each of its steps. `Budget`
keeps the bound on builds above what is still to be written. The proof forced two strengthenings that no
run had shown to be needed: what is synchronised of a journal under recovery has either no tail or the
fragment of the intent, and the fragment that a recovery record names was begun before that record. The
second is the reason for `DiscardSafe`: a discarded fragment lies strictly between the record before it
and the record of its recovery, so no two recoveries name the same one. Also `AckedSafe` and
`RecoverySafe`. `CapacitySafe` needs more than that the completion record fits now: a power loss may cut
the file anywhere, so it has to fit after every first part of the records, and after the record that is
half written (`CapacityInv`). `Bytes` counts the places of the bytes; that a record adds its size is then
a fact about cardinalities and needs no induction over the records.

**AttemptWorktree.** The invariant looks at one worktree at a time, as a relation between its paths, the
command and the marks: while the command is at work and nobody touched it, its paths are exactly what the
command recorded as made (`Work`, stage by stage); otherwise it is `Settled`. `Work` has to carry that the
repository goes before the files (`WorkHead`: a head only over the whole tree), and that an entry is still
recorded while anything may be below it. Whether a blob being written is recorded is part of it too. From
it `HeadImpliesTreeSafe`, `NoDebrisSafe`, and the action property `ForeignKeptSafe`. The assumptions on the
tree are those of Git: paths have directories as parents, and strays are paths that are not in the tree.

**WorkspaceInit.** `JobsInv` has what each holder of the journal's lock has found under it (`Claim`):
before `Store` a readable journal that binds nothing or the same generation, before the first record the
generation alone in the store. `JournalInv` says that the journal speaks of the stored generation only and
binds it once, a pending tail recovery included. From it `OneGenerationSafe`.

**MaterializationStore.** The invariant is what a single file operation relies on. Of the tree
(`SoundTree`): two names with one identity show one file, directories and files have different names, and
what exists has a parent. Of what is left to do (`Steps`): each operation names files or directories as it
needs; what proves the file to be removed is another name of it, or bytes that the store generated; a
directory moves between its three places only. It holds however stale an inspection is, because the
safety of users' bytes never rests on one: an operation moves a file to a vacant name, removes a name that
is not the last, or removes bytes no user wrote. So the proof has two halves: each operation of
`RootedFiles` leads from a sound tree to a sound tree with all users' bytes (`OperationSound`), and each
inspection, whatever it sees, puts in its place only such operations (`Continued`). The items of a loop
are those of the transaction, and a record found on disk decodes to a transaction (`RecordsTyped`), which
is why an end at any point, and any user change in between, leaves the invariant alone. From it
`TypeCorrect` and the action property `UserBytesSafe`.

`SuccessSafe`, in `MaterializationSuccessProofs`, needs the order of the steps too. Its invariant
(`SuccessInv`, which TLC also checked with two artifacts, one change and two crashes) has three parts.
The *ledger*: generated bytes are below an artifact's name only where the active inventory, or else the
transaction that a record describes, accounts for them; once the inventory is switched, only where the
transaction wants them. This is what a crash leaves to the next synchronisation, and it does not depend
on where the crash was. The *path*: what is left of a synchronisation passes the phases of the protocol in
their order (`Follows`), and each file operation names only files its phase has business with (`Fits`); a
record, say, is written in one phase only. The *facts*: what a phase may rely on when it is reached
(`Fact`): that the record is there until it is forgotten, that the inventory is not switched before
everything was verified, that from then on what is wanted has arrived, unless a user touched something.
Two facts about directories are needed besides: an artifact's file in a directory that is being prepared
or is quarantined is a user's (`HiddenInv`), and a directory that is about to be quarantined holds nothing
generated (`MoveInv`). The proof goes by inspection (the sequence it puts in its place leads from its
phase to the next one: `Leads`) and by file operation (most touch only names that say nothing about what
is owned: `Quiet`).

*Only model-checked.* Liveness under fairness (`PromiseResolved`, `TornTailRepaired`,
`PublicationResolved`, `IntegrationResumed`, `InitializationResumes`) is out of the prover's reach.
`FailureHasCause` of `MaterializationStore` says that the next synchronisation finds what it needs, so its
invariant has to describe the whole tree at every step and at every point at which an earlier
synchronisation ended; the run enumerates these, the theorem is not written.

## 5. Not modelled

Formats and codecs, definitions, policies, the installer, the command line, the check runner and
the standalone plan materialiser: pure or sequential code without state that outlives a run. Final
history checks are a predicate over a commit range that no other guard reads. The review run's child
process and document, the bundle lock and the derivation of the directories' paths are not modelled
yet. The rooted filesystem is taken at its word by every module above it: each creation, rename
and removal is atomic, except that a file may be left incomplete by the end of its writer.

## 6. Plan

1. *(done)* WorkspaceRuntime, Integration, WorkspaceJournal, ReplaceablePublication and the proofs
   of the runtime's invariants.
2. *(done)* MaterializationStore: preparation, pending record, apply, activation, cleanup and recovery.
3. *(done)* AttemptWorktree: creation order, rollback, inspection and recovery of scratch worktrees.
4. *(done)* WorkspaceInit with the runtime format, the generation store and bootstrap recovery.
5. *(done)* Proofs of the invariants, action properties and refinements of WorkspaceRuntime, Integration,
   WorkspaceJournal, ReplaceablePublication, AttemptWorktree, WorkspaceInit and MaterializationStore.
   Left: the invariant behind `FailureHasCause`.
6. ReviewRun: request, child, document artifact, gate record and rollback. WorkspaceLock.
7. RootedFile: the steps within one exclusive creation or identity-checked removal, which justify the
   atomicity that the other modules assume.
8. Pure modules: policy narrowing, the dependency graph, plan validation.
