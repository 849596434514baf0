-------------------------- MODULE AttemptWorktree --------------------------
(***************************************************************************)
(* The scratch worktrees of attempts: attempt start records the attempt    *)
(* and materialises its base commit into a directory of its own, first the *)
(* tree, then a detached repository; recover does the same for every       *)
(* started attempt that has no directory and then resumes the pending      *)
(* integration.  Whatever goes wrong on the way takes back, identity by    *)
(* identity, what this materialisation created, and nothing else.          *)
(*                                                                         *)
(* One command holds the journal at a time.  It may fail or end at any     *)
(* step, and whoever has the directory open changes it between any two.    *)
(* Directories have one level; a symbolic link is created and removed like *)
(* a blob.  The content of a path that a user wrote differs from the tree. *)
(* No identity is reused while it is recorded, and nobody moves the        *)
(* directory away while it is filled.                                      *)
(***************************************************************************)
EXTENDS Naturals, FiniteSets

CONSTANTS
    Attempts,
    Directories,   \* paths of the base tree
    Blobs,
    Gitlinks,
    Strays,        \* paths that are not in the tree
    Parent,        \* the directory of each path of the tree and each stray
    MaxTouches,    \* bound: changes made by users
    MaxCrashes,    \* bound: commands that end early
    MaxFaults,     \* bound: operations that fail
    MaxIntents     \* bound: integrations left pending

Top     == "."
Git     == ".git"
Tracked == Directories \cup Blobs \cup Gitlinks
Paths   == {Top, Git} \cup Tracked \cup Strays

ASSUME ParentAssumption ==
    /\ Parent \in [Tracked \cup Strays -> {Top} \cup Directories \cup Gitlinks]
    /\ \A d \in Directories \cup Gitlinks : Parent[d] = Top
    /\ {Top, Git} \cap (Tracked \cup Strays) = {} /\ Tracked \cap Strays = {}
ASSUME BoundAssumption == {MaxTouches, MaxCrashes, MaxFaults, MaxIntents} \subseteq Nat

VARIABLES
    phase,     \* of each attempt, as the journal records it
    intent,    \* an integration of another attempt is pending
    tree,      \* what is at each path of each attempt's worktree
    job,       \* the command that holds the journal
    marks,     \* what has disturbed a worktree since it was made
    budget     \* what may still happen

vars == <<phase, intent, tree, job, marks, budget>>

\* "made" has the identity and the content of what was created, "edited" only
\* the identity; "partial" is a blob that is being written.
Entry    == {"absent", "made", "partial", "edited", "foreign"}
\* "half" is a repository that git does not open, "advanced" one whose head or
\* index is not that of the base.
GitOwn   == {"half", "init", "alternates", "indexed", "detached", "advanced"}
Idle     == [command |-> "none", attempt |-> "none", stage |-> "idle", made |-> {},
             writing |-> "none", bound |-> FALSE, survey |-> {}, queue |-> {}]
Undoing  == {"undo git", "undo entries", "undo top"}
Stages   == {"survey", "next", "admit", "make", "empty", "fill", "blob", "git", "init",
             "initialising", "alternates", "index", "detach", "inspect", "confirm"}

TypeOK ==
    /\ phase \in [Attempts -> {"unstarted", "active", "abandoned"}]
    /\ intent \in BOOLEAN
    /\ tree \in [Attempts -> [Paths -> Entry \cup GitOwn]]
    /\ \A a \in Attempts : \A p \in Paths \ {Git} : tree[a][p] \in Entry
    /\ job = Idle \/
       job \in [command : {"start", "recover"}, attempt : Attempts \cup {"none"},
                stage : Stages \cup Undoing, made : SUBSET Paths, writing : Blobs \cup {"none"},
                bound : BOOLEAN, survey : SUBSET Attempts, queue : SUBSET Attempts]
    /\ marks \in [Attempts -> SUBSET {"touched", "crashed", "unremoved"}]
    /\ budget \in [touches : 0 .. MaxTouches, crashes : 0 .. MaxCrashes,
                   faults : 0 .. MaxFaults, intents : 0 .. MaxIntents]

Init ==
    /\ phase = [a \in Attempts |-> "unstarted"]
    /\ intent = FALSE
    /\ tree = [a \in Attempts |-> [p \in Paths |-> "absent"]]
    /\ job = Idle
    /\ marks = [a \in Attempts |-> {}]
    /\ budget = [touches |-> MaxTouches, crashes |-> MaxCrashes,
                 faults |-> MaxFaults, intents |-> MaxIntents]

-----------------------------------------------------------------------------
(* Worktrees *)

Exists(a, p) == tree[a][p] # "absent"
ParentOf(p)  == IF p = Git THEN Top ELSE Parent[p]
Below(p)     == IF p = Top THEN Paths \ {Top} ELSE {q \in Paths \ {Top} : ParentOf(q) = p}
Empty(a, p)  == \A q \in Below(p) : ~Exists(a, q)

\* The working tree is the base tree and nothing else.
SameBytes(a, b) == tree[a][b] = "made"
ExactTree(a) ==
    /\ \A b \in Blobs : SameBytes(a, b)
    /\ \A d \in Directories \cup Gitlinks : Exists(a, d)
    /\ \A s \in Strays : ~Exists(a, s)

Missing(a)       == ~Exists(a, Top)
HasRepository(a) == tree[a][Git] \in GitOwn \ {"half"}
ResolvesHead(a)  == tree[a][Git] \in {"detached", "advanced"}
IndexExact(a)    == tree[a][Git] \in {"indexed", "detached"}
Readable(a)      == HasRepository(a) /\ ResolvesHead(a)
AtBase(a)        == Readable(a) /\ IndexExact(a) /\ ExactTree(a)

\* The directory at the path is the one that this command made and holds open.
Holding(a)      == tree[a][Top] = "made"
CanCreate(a, p) == Holding(a) /\ Exists(a, ParentOf(p)) /\ ~Exists(a, p)
IsOurs(a, p)    == Holding(a) /\ tree[a][p] \in {"made", "partial", "edited"}

Set(a, p, v)    == tree' = [tree EXCEPT ![a][p] = v]

-----------------------------------------------------------------------------
(* Commands *)

At(stage)  == job.stage = stage
Go(stage)  == job' = [job EXCEPT !.stage = stage]
Finish     == job' = Idle
Fail       == Go("undo git")

\* attempt start: a new attempt is recorded, a started one reconciled.
Start(a) ==
    /\ job = Idle
    /\ \/ phase[a] = "unstarted" /\ ~intent /\ phase' = [phase EXCEPT ![a] = "active"]
       \/ phase[a] = "active" /\ UNCHANGED phase
    /\ job' = [Idle EXCEPT !.command = "start", !.attempt = a, !.stage = "admit"]
    /\ UNCHANGED <<intent, tree, marks, budget>>

\* Mutant: worktrees of attempts that are over are inspected as well.
StartedEver == {a \in Attempts : phase[a] # "unstarted"}

Surveyed == {a \in Attempts : phase[a] = "active"}

Recover ==
    /\ job = Idle
    /\ job' = [Idle EXCEPT !.command = "recover", !.stage = "survey", !.survey = Surveyed]
    /\ UNCHANGED <<phase, intent, tree, marks, budget>>

\* A worktree without a readable head ends the recovery.
Survey(a) ==
    /\ At("survey") /\ a \in job.survey
    /\ \/ Missing(a) /\ job' = [job EXCEPT !.survey = @ \ {a}, !.queue = @ \cup {a}]
       \/ Readable(a) /\ job' = [job EXCEPT !.survey = @ \ {a}]
       \/ ~Missing(a) /\ ~Readable(a) /\ Finish
    /\ UNCHANGED tree

Reconcile ==
    /\ \/ At("survey") /\ job.survey = {} /\ Go("next")
       \/ At("next") /\ \E a \in job.queue :
             job' = [Idle EXCEPT !.command = "recover", !.stage = "admit", !.attempt = a,
                                 !.queue = job.queue \ {a}]
    /\ UNCHANGED tree

\* Once every worktree is there, the pending integration is resumed.
ResumeIntegration ==
    /\ At("next") /\ job.queue = {}
    /\ Finish
    /\ intent' = FALSE
    /\ UNCHANGED <<phase, tree, marks, budget>>

-----------------------------------------------------------------------------
(* MaterializeAttemptTree, for the attempt of the command *)

Acceptable(a) == AtBase(a)

\* An existing worktree is accepted as it is or refused, never repaired.
Admit(a) ==
    /\ At("admit")
    /\ \/ Missing(a) /\ Go("make")
       \/ ~Missing(a) /\ Acceptable(a) /\ Go("confirm")
       \/ ~Missing(a) /\ ~Acceptable(a) /\ Finish
    /\ UNCHANGED <<tree, marks>>

MakeTop(a) ==
    /\ At("make")
    /\ \/ /\ Missing(a)
          /\ Set(a, Top, "made")
          /\ marks' = [marks EXCEPT ![a] = {}]
          /\ job' = [job EXCEPT !.stage = "empty", !.made = {Top}]
       \/ ~Missing(a) /\ Finish /\ UNCHANGED <<tree, marks>>

CheckEmpty(a) ==
    /\ At("empty")
    /\ IF Empty(a, Top) THEN Go("fill") ELSE Fail
    /\ UNCHANGED <<tree, marks>>

\* Directories first; then the entries, of which a gitlink is a directory too.
Turn(p) == p \notin job.made /\ (p \notin Directories => Directories \subseteq job.made)

MakeDirectory(a, p) ==
    /\ At("fill") /\ p \in Directories \cup Gitlinks /\ Turn(p)
    /\ \/ CanCreate(a, p) /\ Set(a, p, "made") /\ job' = [job EXCEPT !.made = @ \cup {p}]
       \/ ~CanCreate(a, p) /\ Fail /\ UNCHANGED tree
    /\ UNCHANGED marks

BeginBlob(a, p) ==
    /\ At("fill") /\ p \in Blobs /\ Turn(p)
    /\ \/ /\ CanCreate(a, p)
          /\ Set(a, p, "partial")
          /\ job' = [job EXCEPT !.stage = "blob", !.writing = p]
       \/ ~CanCreate(a, p) /\ Fail /\ UNCHANGED tree
    /\ UNCHANGED marks

\* The file must still be the one at its path; it is recorded either way.
EndBlob(a) ==
    /\ At("blob")
    /\ LET p == job.writing
           kept == IsOurs(a, p)
       IN  /\ IF tree[a][p] = "partial" THEN Set(a, p, "made") ELSE UNCHANGED tree
           /\ job' = [job EXCEPT !.made = @ \cup {p}, !.writing = "none",
                                 !.stage = IF kept THEN "fill" ELSE "undo git"]
    /\ UNCHANGED marks

\* Mutant: a blob that could not be written stays, and is not recorded.
KeepBlob(a) ==
    /\ At("blob")
    /\ UNCHANGED <<tree, marks>>
    /\ job' = [job EXCEPT !.writing = "none", !.stage = "undo git"]

\* A blob that cannot be written takes its own file back.
DropBlob(a) ==
    /\ At("blob")
    /\ LET p == job.writing
       IN  /\ IF IsOurs(a, p) THEN Set(a, p, "absent") ELSE UNCHANGED tree
           /\ job' = [job EXCEPT !.made = @ \cup {p}, !.writing = "none", !.stage = "undo git"]
    /\ UNCHANGED marks

Settle(a) ==
    /\ At("fill") /\ Tracked \subseteq job.made
    /\ IF Holding(a) THEN Go("git") ELSE Fail
    /\ UNCHANGED <<tree, marks>>

-----------------------------------------------------------------------------
(* The detached repository *)

CheckGit(a) ==
    /\ At("git")
    /\ IF Exists(a, Git) THEN Fail ELSE Go("init")
    /\ UNCHANGED <<tree, marks>>

\* git init works at the path, wherever the open directory has gone.
BeginInit(a) ==
    /\ At("init")
    /\ \/ Exists(a, Top) /\ Set(a, Git, "half") /\ Go("initialising")
       \/ Missing(a) /\ Fail /\ UNCHANGED tree
    /\ UNCHANGED marks

\* What git init leaves is bound for rollback, whether or not it succeeded.
EndInit(a, succeeds) ==
    /\ At("initialising")
    /\ LET bound == Holding(a) /\ Exists(a, Git)
           ready == succeeds /\ bound
       IN  /\ IF succeeds /\ Exists(a, Git) THEN Set(a, Git, "init") ELSE UNCHANGED tree
           /\ job' = [job EXCEPT !.bound = bound,
                                 !.stage = IF ready THEN "alternates" ELSE "undo git"]
    /\ UNCHANGED marks

\* Alternates, index and head: git finds the repository as it left it or fails.
Advance(a, stage, from, to, next) ==
    /\ At(stage)
    /\ IF tree[a][Git] = from THEN Set(a, Git, to) /\ Go(next) ELSE Fail /\ UNCHANGED tree
    /\ UNCHANGED marks

WriteAlternates(a) == Advance(a, "alternates", "init", "alternates", "index")
ReadTree(a)        == Advance(a, "index", "alternates", "indexed", "detach")
DetachHead(a)      == Advance(a, "detach", "indexed", "detached", "inspect")

\* The tree is verified and the whole worktree inspected before it counts.
Inspect(a) ==
    /\ At("inspect")
    /\ IF AtBase(a) THEN Go("confirm") ELSE Fail
    /\ UNCHANGED <<tree, marks>>

\* Mutant: the journal stays held when the command is through.
KeepsJournal(a) ==
    /\ At("confirm")
    /\ Go("idle")
    /\ UNCHANGED <<tree, marks>>

\* reconcileStartedAttempt inspects once more, and takes nothing back.
Confirm(a) ==
    /\ At("confirm")
    /\ IF AtBase(a) /\ job.command = "recover"
       THEN job' = [Idle EXCEPT !.command = "recover", !.stage = "next", !.queue = job.queue]
       ELSE Finish
    /\ UNCHANGED <<tree, marks>>

-----------------------------------------------------------------------------
(* Rollback *)

\* Mutant: the rollback begins with the files.
EntriesFirst(a) ==
    /\ At("undo git")
    /\ Go("undo entries")
    /\ UNCHANGED <<tree, marks>>

\* The repository goes first, its files in any order: git may still find a head
\* when the index is gone, or no repository.
BoundGit(a)   == job.bound /\ Holding(a) /\ tree[a][Git] \in GitOwn
EmptyGit(a)   ==
    /\ HasRepository(a)
    /\ Set(a, Git, "half") \/ (tree[a][Git] = "detached" /\ Set(a, Git, "advanced"))
    /\ UNCHANGED job
DiscardGit(a) == tree[a][Git] = "half" /\ Set(a, Git, "absent") /\ Go("undo entries")

UndoGit(a) ==
    /\ At("undo git")
    /\ \/ BoundGit(a) /\ (EmptyGit(a) \/ DiscardGit(a))
       \/ ~BoundGit(a) /\ Go("undo entries") /\ UNCHANGED tree
    /\ UNCHANGED marks

\* Mutant: whatever is at the recorded path is removed.
RemovableByPath(a, p) == Holding(a) /\ Exists(a, p)

Removable(a, p) == IsOurs(a, p) /\ Empty(a, p)

TakeBack(a, p) == IF Removable(a, p) THEN Set(a, p, "absent") ELSE UNCHANGED tree

\* Recorded entries go one by one, what is below a directory before it.
UndoEntry(a, p) ==
    /\ At("undo entries") /\ p \in job.made \ {Top}
    /\ Below(p) \cap job.made = {}
    /\ TakeBack(a, p)
    /\ job' = [job EXCEPT !.made = @ \ {p}]
    /\ UNCHANGED marks

\* The directory itself goes only if it is the one made here, and empty.
UndoTop(a) ==
    /\ \/ /\ At("undo entries") /\ job.made \subseteq {Top}
          /\ Go("undo top") /\ UNCHANGED tree
       \/ /\ At("undo top") /\ Finish
          /\ IF Top \in job.made THEN TakeBack(a, Top) ELSE UNCHANGED tree
    /\ UNCHANGED marks

\* A removal that fails is reported and the next one tried.
RemovalFails(a) ==
    /\ \/ At("undo git") /\ Go("undo entries")
       \/ /\ At("undo entries")
          /\ \E p \in job.made \ {Top} : /\ Below(p) \cap job.made = {}
                                         /\ job' = [job EXCEPT !.made = @ \ {p}]
       \/ At("undo top") /\ Finish
    /\ marks' = [marks EXCEPT ![a] = @ \cup {"unremoved"}]
    /\ UNCHANGED tree

-----------------------------------------------------------------------------
(* Faults, users and the operator *)

Spend(what) == budget[what] > 0 /\ budget' = [budget EXCEPT ![what] = @ - 1]

\* An operation of the command fails: git, the disk, a path outside.
OperationFails(a) ==
    \/ /\ job.stage \in {"empty", "fill", "git", "init", "alternates", "index", "detach", "inspect"}
       /\ Fail /\ UNCHANGED <<tree, marks>>
    \/ /\ job.stage \in {"admit", "make", "confirm"}
       /\ Finish /\ UNCHANGED <<tree, marks>>
    \/ DropBlob(a)
    \/ EndInit(a, FALSE)
    \/ RemovalFails(a)

Fault ==
    /\ Spend("faults")
    /\ \/ \E a \in Attempts \cap {job.attempt} : OperationFails(a)
       \/ job.stage \in {"survey", "next"} /\ Finish /\ UNCHANGED <<tree, marks>>
    /\ UNCHANGED <<phase, intent>>

Crash ==
    /\ job # Idle /\ Spend("crashes")
    /\ Finish
    /\ marks' = [a \in Attempts |-> IF a = job.attempt THEN marks[a] \cup {"crashed"} ELSE marks[a]]
    /\ UNCHANGED <<phase, intent, tree>>

\* Users and the agent, once the attempt has told them the path.
Touch(a) ==
    /\ phase[a] # "unstarted" /\ Spend("touches")
    /\ \/ \E p \in Paths : /\ ~Exists(a, p)
                           /\ p # Top => Exists(a, ParentOf(p))
                           /\ Set(a, p, "foreign")
       \/ \E p \in Paths : /\ Exists(a, p)
                           /\ tree' = [tree EXCEPT ![a] = [q \in Paths |->
                                 IF q \in {p} \cup Below(p) THEN "absent" ELSE @[q]]]
       \/ \E b \in Blobs, v \in {"edited", "foreign"} :
             tree[a][b] \in {"made", "partial"} /\ Set(a, b, v)
       \/ tree[a][Git] = "detached" /\ Set(a, Git, "advanced")
    /\ marks' = [marks EXCEPT ![a] = @ \cup {"touched"}]
    /\ UNCHANGED <<phase, intent, job>>

Abandon(a) ==
    /\ job = Idle /\ phase[a] = "active"
    /\ phase' = [phase EXCEPT ![a] = "abandoned"]
    /\ UNCHANGED <<intent, tree, job, marks, budget>>

\* An integration of another attempt records its intent and ends there.
Intend ==
    /\ job = Idle /\ ~intent /\ Spend("intents")
    /\ intent' = TRUE
    /\ UNCHANGED <<phase, tree, job, marks>>

-----------------------------------------------------------------------------

Materialize(a) ==
    \/ Admit(a) \/ MakeTop(a) \/ CheckEmpty(a) \/ EndBlob(a) \/ Settle(a)
    \/ \E p \in Tracked : MakeDirectory(a, p) \/ BeginBlob(a, p) \/ UndoEntry(a, p)
    \/ CheckGit(a) \/ BeginInit(a) \/ EndInit(a, TRUE)
    \/ WriteAlternates(a) \/ ReadTree(a) \/ DetachHead(a) \/ Inspect(a) \/ Confirm(a)
    \/ UndoGit(a) \/ UndoTop(a)

\* What the command that holds the journal does next, if nothing goes wrong.
Step ==
    \/ /\ \/ \E a \in Attempts \cap {job.attempt} : Materialize(a)
          \/ /\ Reconcile \/ \E a \in Attempts : Survey(a)
             /\ UNCHANGED marks
       /\ UNCHANGED <<phase, intent, budget>>
    \/ ResumeIntegration

Next ==
    \/ Step \/ Recover \/ Fault \/ Crash \/ Intend
    \/ \E a \in Attempts : Start(a) \/ Touch(a) \/ Abandon(a)

\* Commands end; recover is run again and again, and an attempt that it
\* reports as incomplete is abandoned some time.
Reported(a) == ~Missing(a) /\ ~Readable(a)

Fairness ==
    /\ WF_vars(Step)
    /\ SF_vars(Recover)
    /\ \A a \in Attempts : SF_vars(Reported(a) /\ Abandon(a))

Spec == Init /\ [][Next]_vars /\ Fairness

-----------------------------------------------------------------------------
(* Properties *)

\* A worktree that nobody touched and that has a readable head, which is all
\* recover asks for, holds the complete base tree: neither a crash nor the
\* order of the rollback leaves a head over missing files.
HeadImpliesTree ==
    \A a \in Attempts : Readable(a) /\ marks[a] \cap {"touched", "unremoved"} = {} => ExactTree(a)

\* A materialisation that failed, but was not cut off, leaves nothing: between
\* commands an undisturbed worktree is absent as a whole or complete.
NoDebris ==
    job = Idle => \A a \in Attempts :
        marks[a] = {} => AtBase(a) \/ \A p \in Paths : ~Exists(a, p)

\* No command removes or changes an entry that it did not create, outside the
\* .git directory; only users do.
ForeignKept ==
    [][\A a \in Attempts : \A p \in Paths \ {Git} :
          (tree[a][p] = "foreign" /\ tree'[a][p] # "foreign") => Touch(a)]_vars

\* A pending integration is resumed although attempts with an incomplete
\* worktree end every recovery, once these have been abandoned.
IntegrationResumed == intent ~> ~intent
=============================================================================
