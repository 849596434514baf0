--------------------------- MODULE WorkspaceInit ---------------------------
(***************************************************************************)
(* Initialisation of a workspace and its repair: the runtime format, the   *)
(* stored generation and the initialisation event are written by init, one *)
(* after the other; recover, like every command that opens the journal for *)
(* writing, completes the format and repairs a torn first event, but never *)
(* binds a generation itself.                                              *)
(*                                                                         *)
(* Any number of commands run side by side, with definitions of their own, *)
(* and end at any step.  A missing runtime directory counts as an empty    *)
(* one.  The target repository admits the workspace.  A shared lock of the *)
(* journal is taken and released in one step, as are the steps of a tail   *)
(* recovery between its intent and its record: WorkspaceJournal has them.  *)
(***************************************************************************)
EXTENDS Integers, Sequences, FiniteSets

CONSTANTS
    Processes,
    Definitions,   \* effective definitions, by their generation
    WorkspaceOf,   \* the workspace that each definition is of
    MaxCrashes,    \* bound: commands that end early
    MaxCommits     \* bound: commits to the plan repository

ASSUME WorkspaceOfAssumption == DOMAIN WorkspaceOf = Definitions
ASSUME NoneAssumption == "none" \notin Definitions
ASSUME BoundAssumption == {MaxCrashes, MaxCommits} \subseteq Nat

VARIABLES
    root,      \* entries of the runtime directory
    state,     \* entries of its state directory, but for journal and generations
    stored,    \* stored generations
    journal,   \* complete records, whether a torn one follows, pending recovery
    head,      \* commit of the plan repository
    jobs,      \* what each process is doing
    reports,   \* what successful initialisations have reported
    crashes

disk == <<root, state, stored, journal>>
vars == <<disk, head, jobs, reports, crashes>>

None    == "none"
Commits == 0 .. MaxCommits
Records == [kind : {"initialized"}, generation : Definitions, checkpoint : Commits]
           \cup [kind : {"recovered"}, generation : Definitions]
Idle    == [command |-> None, definition |-> None, checkpoint |-> 0, stage |-> "idle",
            seen |-> -1, holds |-> {}]
Stages  == {"admit", "preflight", "format", "flock", "claim", "state", "stage", "marker",
            "generations", "open", "compare", "store", "append", "appending", "project",
            "tail", "repair"}

TypeOK ==
    /\ root \subseteq {"foreign", "lock", "stage", "state", "marker"}
    /\ state \subseteq {"generations", "lock"}
    /\ stored \subseteq Definitions
    /\ journal.records \in Seq(Records)
    /\ DOMAIN journal = {"records", "torn", "intent"}
    /\ journal.torn \in BOOLEAN /\ journal.intent \in Definitions \cup {None}
    /\ head \in Commits
    /\ \A p \in Processes :
          jobs[p] = Idle \/
          jobs[p] \in [command : {"init", "recover"}, definition : Definitions,
                       checkpoint : Commits, stage : Stages,
                       seen : -1 .. Len(journal.records), holds : SUBSET {"format", "journal"}]
    /\ \A p, q \in Processes : p # q => jobs[p].holds \cap jobs[q].holds = {}
    /\ reports \subseteq [generation : Definitions, checkpoint : Commits]
    /\ crashes \in 0 .. MaxCrashes

Init ==
    /\ root \in {{}, {"foreign"}}
    /\ state = {}
    /\ stored = {}
    /\ journal = [records |-> <<>>, torn |-> FALSE, intent |-> None]
    /\ head = 0
    /\ jobs = [p \in Processes |-> Idle]
    /\ reports = {}
    /\ crashes = 0

-----------------------------------------------------------------------------
(* What the files say *)

Marked == "marker" \in root

\* Mutant: the leftover of an interrupted publication is taken for foreign.
InitializableUnstaged == root \subseteq {"lock", "state"} /\ state = {}

\* Nothing but what an interrupted initialisation of the format leaves.
Initializable == root \subseteq {"lock", "stage", "state"} /\ state = {}

Readable == ~journal.torn /\ journal.intent = None

Recoveries == {k \in DOMAIN journal.records : journal.records[k].kind = "recovered"}
Bindings   == {journal.records[k] : k \in DOMAIN journal.records \ Recoveries}
Generations == {journal.records[k].generation : k \in DOMAIN journal.records}

Bound        == Bindings # {}
BoundTo(d)   == \E r \in Bindings : r.generation = d
BoundAt(d, c) == \E r \in Bindings : r.generation = d /\ r.checkpoint = c

\* Recoveries before the initialisation bind it to the stored generation.
BindableTo(d) == ~Bound /\ Generations \subseteq {d}

\* Mutant: a generation is stored beside another one.
StorableBeside(d) == TRUE

Storable(d) == stored \subseteq {d}

-----------------------------------------------------------------------------
(* Commands *)

At(p, stage)   == jobs[p].stage = stage
Go(p, stage)   == jobs' = [jobs EXCEPT ![p].stage = stage]
Take(p, lock, stage) ==
    jobs' = [jobs EXCEPT ![p].holds = @ \cup {lock}, ![p].stage = stage]
Drop(p, lock, stage) ==
    jobs' = [jobs EXCEPT ![p].holds = @ \ {lock}, ![p].stage = stage]
Finish(p)      == jobs' = [jobs EXCEPT ![p] = Idle]
Definition(p)  == jobs[p].definition

Held(lock)     == \E q \in Processes : lock \in jobs[q].holds

\* The committed plan and its lock give init a definition and a checkpoint.
BeginInit(p, d) ==
    /\ jobs[p] = Idle
    /\ jobs' = [jobs EXCEPT ![p] = [Idle EXCEPT !.command = "init", !.definition = d,
                                                !.checkpoint = head, !.stage = "admit"]]
    /\ UNCHANGED <<disk, head, reports, crashes>>

BeginRecover(p, d) ==
    /\ jobs[p] = Idle
    /\ jobs' = [jobs EXCEPT ![p] = [Idle EXCEPT !.command = "recover", !.definition = d,
                                                !.stage = "format"]]
    /\ UNCHANGED <<disk, head, reports, crashes>>

\* Admission creates nothing: the directory is empty, of the current format or
\* refused.
Incompatible(p) ==
    /\ \/ At(p, "admit") /\ root # {} /\ ~Marked
       \/ (At(p, "format") \/ At(p, "claim")) /\ ~Marked /\ ~Initializable
    /\ Finish(p)
    /\ UNCHANGED disk

Admit(p) ==
    /\ At(p, "admit")
    /\ \/ root = {} /\ Go(p, "format")
       \/ Marked /\ Go(p, "preflight")
    /\ UNCHANGED disk

\* The journal is read without the right to repair anything.
Admissible(p) ==
    /\ "lock" \in state /\ ~Held("journal") /\ Readable
    /\ \A g \in Generations : WorkspaceOf[g] = WorkspaceOf[Definition(p)]

Preflight(p) ==
    /\ At(p, "preflight")
    /\ \/ Admissible(p)
          /\ jobs' = [jobs EXCEPT ![p].seen = Len(journal.records), ![p].stage = "format"]
       \/ ~Admissible(p) /\ Finish(p)
    /\ UNCHANGED disk

-----------------------------------------------------------------------------
(* The runtime format *)

\* Init goes on to the generation store, recover to the journal.
AfterFormat(p) == IF jobs[p].command = "init" THEN "generations" ELSE "open"

OpenFormat(p) ==
    /\ At(p, "format")
    /\ \/ Marked /\ Go(p, AfterFormat(p)) /\ UNCHANGED root
       \/ ~Marked /\ Initializable /\ Go(p, "flock") /\ root' = root \cup {"lock"}
    /\ UNCHANGED <<state, stored, journal>>

LockFormat(p) ==
    /\ At(p, "flock") /\ ~Held("format")
    /\ Take(p, "format", "claim")
    /\ UNCHANGED disk

\* What was seen before the lock was taken is looked at again.
ClaimFormat(p) ==
    /\ At(p, "claim")
    /\ \/ Marked /\ Drop(p, "format", AfterFormat(p))
       \/ ~Marked /\ Initializable /\ Go(p, "state")
    /\ UNCHANGED disk

MakeState(p) ==
    /\ At(p, "state")
    /\ root' = root \cup {"state"}
    /\ Go(p, "stage")
    /\ UNCHANGED <<state, stored, journal>>

StageMarker(p) ==
    /\ At(p, "stage")
    /\ root' = root \cup {"stage"}
    /\ Go(p, "marker")
    /\ UNCHANGED <<state, stored, journal>>

PublishMarker(p) ==
    /\ At(p, "marker")
    /\ root' = (root \ {"stage"}) \cup {"marker"}
    /\ Drop(p, "format", AfterFormat(p))
    /\ UNCHANGED <<state, stored, journal>>

MakeGenerations(p) ==
    /\ At(p, "generations")
    /\ state' = state \cup {"generations"}
    /\ Go(p, "open")
    /\ UNCHANGED <<root, stored, journal>>

-----------------------------------------------------------------------------
(* Initialisation, with the journal opened for writing *)

\* Mutant: the journal is opened whoever holds it.
FreeAnyway(lock) == TRUE

Free(lock) == ~Held(lock)

\* The lock file is created first; the lock is tried and not waited for.
OpenJournal(p) ==
    /\ At(p, "open")
    /\ state' = state \cup {"lock"}
    /\ \/ /\ Free("journal")
          /\ Take(p, "journal", IF jobs[p].command = "init" THEN "compare" ELSE "tail")
       \/ ~Free("journal") /\ Finish(p)
    /\ UNCHANGED <<root, stored, journal>>

\* Whether the journal allows this initialisation, or was initialised like it.
Agrees(p) ==
    /\ Readable
    /\ jobs[p].seen \in {-1, Len(journal.records)}
    /\ BindableTo(Definition(p)) \/ BoundAt(Definition(p), jobs[p].checkpoint)

Compare(p) ==
    /\ At(p, "compare")
    /\ IF Agrees(p) THEN Go(p, "store") ELSE Finish(p)
    /\ UNCHANGED disk

Store(p) ==
    /\ At(p, "store")
    /\ \/ /\ Storable(Definition(p))
          /\ stored' = stored \cup {Definition(p)}
          /\ Go(p, IF Bound THEN "project" ELSE "append")
       \/ ~Storable(Definition(p)) /\ Finish(p) /\ UNCHANGED stored
    /\ UNCHANGED <<root, state, journal>>

BeginAppend(p) ==
    /\ At(p, "append")
    /\ journal' = [journal EXCEPT !.torn = TRUE]
    /\ Go(p, "appending")
    /\ UNCHANGED <<root, state, stored>>

FinishAppend(p) ==
    /\ At(p, "appending")
    /\ journal' = [journal EXCEPT !.torn = FALSE, !.records =
          Append(@, [kind |-> "initialized", generation |-> Definition(p),
                     checkpoint |-> jobs[p].checkpoint])]
    /\ Go(p, "project")
    /\ UNCHANGED <<root, state, stored>>

-----------------------------------------------------------------------------
(* Recovery of a torn first event *)

\* The tail is bound to the active generation, or to the only stored one.
TailGeneration(d, g) ==
    /\ WorkspaceOf[g] = WorkspaceOf[d]
    /\ IF Bound THEN BoundTo(g) ELSE stored = {g}

PrepareTail(p) ==
    /\ At(p, "tail")
    /\ \/ Readable /\ Finish(p) /\ UNCHANGED journal
       \/ /\ journal.intent # None
          /\ IF WorkspaceOf[journal.intent] = WorkspaceOf[Definition(p)]
             THEN Go(p, "repair") ELSE Finish(p)
          /\ UNCHANGED journal
       \/ /\ journal.torn /\ journal.intent = None
          /\ \/ \E g \in Definitions : /\ TailGeneration(Definition(p), g)
                                       /\ journal' = [journal EXCEPT !.intent = g]
                                       /\ Go(p, "repair")
             \/ /\ \A g \in Definitions : ~TailGeneration(Definition(p), g)
                /\ Finish(p) /\ UNCHANGED journal
    /\ UNCHANGED <<root, state, stored>>

\* Truncation, and the record that binds what was discarded.
RepairTail(p) ==
    /\ At(p, "repair")
    /\ journal' = [torn |-> FALSE, intent |-> None, records |->
          Append(journal.records, [kind |-> "recovered", generation |-> journal.intent])]
    /\ Finish(p)
    /\ UNCHANGED <<root, state, stored>>

-----------------------------------------------------------------------------

\* The projection is written and the outcome compared with what was asked for.
Report(p) ==
    /\ At(p, "project")
    /\ BoundAt(Definition(p), jobs[p].checkpoint)
    /\ reports' = reports \cup {[generation |-> Definition(p), checkpoint |-> jobs[p].checkpoint]}
    /\ Finish(p)
    /\ UNCHANGED <<disk, head, crashes>>

Step(p) ==
    \/ /\ \/ Incompatible(p) \/ Admit(p) \/ Preflight(p)
          \/ OpenFormat(p) \/ LockFormat(p) \/ ClaimFormat(p)
          \/ MakeState(p) \/ StageMarker(p) \/ PublishMarker(p)
          \/ MakeGenerations(p) \/ OpenJournal(p) \/ Compare(p) \/ Store(p)
          \/ BeginAppend(p) \/ FinishAppend(p) \/ PrepareTail(p) \/ RepairTail(p)
       /\ UNCHANGED <<head, reports, crashes>>
    \/ Report(p)

\* A command is killed, or one of its operations fails; its locks go with it.
Crash(p) ==
    /\ jobs[p] # Idle /\ crashes < MaxCrashes
    /\ crashes' = crashes + 1
    /\ Finish(p)
    /\ UNCHANGED <<disk, head, reports>>

\* The plan repository goes on.
CommitPlan ==
    /\ head < MaxCommits
    /\ head' = head + 1
    /\ UNCHANGED <<disk, jobs, reports, crashes>>

Next ==
    \/ CommitPlan
    \/ \E p \in Processes :
          \/ Step(p) \/ Crash(p)
          \/ \E d \in Definitions : BeginInit(p, d) \/ BeginRecover(p, d)

\* Commands end; somebody runs init and recover again and again.
Fairness ==
    /\ \A p \in Processes : WF_vars(Step(p))
    /\ \A d \in Definitions :
          /\ SF_vars(\E p \in Processes : BeginInit(p, d))
          /\ SF_vars(\E p \in Processes : BeginRecover(p, d))

Spec == Init /\ [][Next]_vars /\ Fairness

-----------------------------------------------------------------------------
(* Properties *)

\* However initialisations with different definitions, recoveries and their
\* ends interleave, the stored generation, every record of the journal and
\* every success that was reported are of one generation and one checkpoint.
OneGeneration ==
    /\ Cardinality(stored) <= 1
    /\ Generations \subseteq stored
    /\ Cardinality(Bindings) <= 1
    /\ \A r \in reports : BoundAt(r.generation, r.checkpoint)

\* Nobody else runs a command any more: the journal's lock is tried and not
\* waited for, so that two could refuse each other for ever.
OneIsLeft ==
    \E p \in Processes : <>[](\A q \in Processes \ {p} : jobs[q] = Idle)

\* A directory that held nothing before is initialised in the end: whatever
\* inits and recoveries leave when they are cut off, one operator who repeats
\* the two finishes.
InitializationResumes == OneIsLeft => ("foreign" \notin root ~> Bound)

\* inspectRuntimeFormatForAdmission says that what is refused as incompatible
\* is a prior runtime.
RefusedOnlyIfPrior ==
    [][\A p \in Processes : Incompatible(p) => "foreign" \in root]_vars
=============================================================================
