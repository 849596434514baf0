------------------------ MODULE WorkspaceInitProofs ------------------------
(***************************************************************************)
(* Proofs about WorkspaceInit for any processes, definitions and bounds.   *)
(*                                                                         *)
(* OneGeneration needs to know what each holder of the journal's lock has  *)
(* found under it, and that a pending tail recovery is for the generation  *)
(* that is stored.                                                         *)
(***************************************************************************)
EXTENDS WorkspaceInit, FiniteSetTheorems, TLAPS

\* A running command, when the journal has so many records.
Active(length) ==
    [command : {"init", "recover"}, definition : Definitions, checkpoint : Commits,
     stage : Stages, seen : -1 .. length, holds : SUBSET {"format", "journal"}]

JournalState == [records : Seq(Records), torn : BOOLEAN, intent : Definitions \cup {None}]

\* The stages of a command that has opened the journal for writing.
Opened == {"compare", "store", "append", "appending", "project", "tail", "repair"}

\* What a command relies on at its stage.
Claim(job) ==
    /\ job.stage \in Opened => "journal" \in job.holds
    /\ job.stage = "store" =>
          /\ Readable
          /\ BindableTo(job.definition) \/ BoundAt(job.definition, job.checkpoint)
    /\ job.stage \in {"append", "appending"} =>
          ~Bound /\ stored = {job.definition} /\ journal.intent = None
    /\ job.stage = "repair" => journal.intent # None

JobsInv ==
    /\ jobs \in [Processes -> {Idle} \cup Active(Len(journal.records))]
    /\ \A p, q \in Processes : p # q => jobs[p].holds \cap jobs[q].holds = {}
    /\ \A p \in Processes : Claim(jobs[p])

\* The journal speaks of the stored generation only, and binds it once.
JournalInv ==
    /\ journal \in JournalState
    /\ stored = {} \/ \E d \in Definitions : stored = {d}
    /\ Generations \subseteq stored
    /\ Bindings = {} \/ \E r \in Records : Bindings = {r}
    /\ journal.intent # None => journal.intent \in stored

ReportsInv ==
    /\ reports \subseteq [generation : Definitions, checkpoint : Commits]
    /\ \A r \in reports : BoundAt(r.generation, r.checkpoint)

RestType ==
    /\ root \subseteq {"foreign", "lock", "stage", "state", "marker"}
    /\ state \subseteq {"generations", "lock"}
    /\ head \in Commits
    /\ crashes \in 0 .. MaxCrashes

Inv == JobsInv /\ JournalInv /\ ReportsInv /\ RestType

-----------------------------------------------------------------------------
(* The journal *)

\* A new record adds its generation, and is a binding if it is an initialisation.
LEMMA AppendedRecord ==
    ASSUME journal.records \in Seq(Records), NEW r \in Records,
           journal'.records = Append(journal.records, r)
    PROVE  /\ journal'.records \in Seq(Records)
           /\ Len(journal'.records) = Len(journal.records) + 1
           /\ Generations' = Generations \cup {r.generation}
           /\ Bindings' = IF r.kind = "recovered" THEN Bindings ELSE Bindings \cup {r}
<1> DEFINE new == journal'.records
           old == journal.records
           n == Len(old)
<1>1. /\ n \in Nat /\ DOMAIN old = 1..n /\ DOMAIN new = 1..(n + 1)
      /\ new \in Seq(Records) /\ Len(new) = n + 1
      /\ \A k \in 1..n : new[k] = old[k]
      /\ new[n + 1] = r
    OBVIOUS
<1>2. DOMAIN new = DOMAIN old \cup {n + 1} /\ n + 1 \notin DOMAIN old
    BY <1>1
<1>3. Generations' = Generations \cup {r.generation}
    BY <1>1, <1>2 DEF Generations
<1>4. Recoveries' = IF r.kind = "recovered" THEN Recoveries \cup {n + 1} ELSE Recoveries
    BY <1>1, <1>2 DEF Recoveries
<1>5. Bindings' = IF r.kind = "recovered" THEN Bindings ELSE Bindings \cup {r}
    BY <1>1, <1>2, <1>4 DEF Bindings, Recoveries
<1> QED
    BY <1>1, <1>3, <1>5

\* The bindings are records of initialisations, of a generation the journal names.
LEMMA BindingsType ==
    ASSUME journal.records \in Seq(Records)
    PROVE  \A r \in Bindings : r \in Records /\ r.generation \in Generations
BY DEF Bindings, Generations

\* As long as the records stay, so does what they say.
LEMMA RecordsKept ==
    ASSUME journal'.records = journal.records
    PROVE  Generations' = Generations /\ Bindings' = Bindings
BY DEF Generations, Bindings, Recoveries

\* And if the store stays too, so does what is said of both.
LEMMA SameRecords ==
    ASSUME UNCHANGED <<stored, journal>>
    PROVE  /\ \A job : Claim(job)' <=> Claim(job)
           /\ Generations' = Generations /\ Bindings' = Bindings
           /\ JournalInv => JournalInv'
<1>1. Generations' = Generations /\ Bindings' = Bindings
    BY RecordsKept
<1>2. \A job : Claim(job)' <=> Claim(job)
    BY <1>1 DEF Claim, Readable, BindableTo, BoundAt, Bound
<1>3. JournalInv => JournalInv'
    BY <1>1 DEF JournalInv
<1> QED
    BY <1>1, <1>2, <1>3

-----------------------------------------------------------------------------
(* The inductive invariant *)

\* A directory without a runtime names no generation and runs no command.
LEMMA InvInit == Init => Inv
<1> SUFFICES ASSUME Init PROVE Inv
    OBVIOUS
<1>1. journal.records = <<>> /\ journal.intent = None /\ journal \in JournalState
    BY DEF Init, JournalState
<1>2. Generations = {} /\ Bindings = {}
    BY <1>1 DEF Generations, Bindings, Recoveries
<1>3. JournalInv
    BY <1>1, <1>2 DEF JournalInv, Init
<1>4. JobsInv
    BY DEF JobsInv, Init, Idle, Claim, Opened
<1>5. ReportsInv /\ RestType
    BY BoundAssumption DEF ReportsInv, RestType, Init, Commits
<1> QED
    BY <1>3, <1>4, <1>5 DEF Inv


-----------------------------------------------------------------------------
(* Steps of one command *)

\* The command at p goes on as job, or ends.
Turns(p, job) == jobs' = [jobs EXCEPT ![p] = job]

\* A command that goes on or ends disturbs no other: the store and the records
\* change only in the hands of the holder of the journal's lock.
LEMMA Stepping ==
    ASSUME JobsInv, NEW p \in Processes, NEW job, Turns(p, job),
           Len(journal.records) \in Nat, Len(journal'.records) \in Nat,
           Len(journal'.records) >= Len(journal.records),
           job = Idle \/ job \in Active(Len(journal'.records)),
           \/ job.holds \subseteq jobs[p].holds
           \/ \E lock : job.holds = jobs[p].holds \cup {lock} /\ ~Held(lock),
           UNCHANGED <<stored, journal>> \/ "journal" \in jobs[p].holds,
           Claim(job)'
    PROVE  JobsInv'
<1> DEFINE Job(length) == {Idle} \cup Active(length)
           n == Len(journal.records)
           m == Len(journal'.records)
<1>1. jobs \in [Processes -> Job(n)]
    BY DEF JobsInv
<1>2. \A j \in Job(n) : j \in Job(m)
    BY DEF Active
<1>3. jobs' \in [Processes -> Job(m)] /\ jobs'[p] = job
    BY <1>1, <1>2 DEF Turns
<1>4. ASSUME NEW q \in Processes, q # p PROVE jobs'[q] = jobs[q]
    BY <1>1, <1>4 DEF Turns
<1>5. ASSUME NEW q \in Processes, NEW r \in Processes, q # r
      PROVE  jobs'[q].holds \cap jobs'[r].holds = {}
    <2>1. ASSUME NEW s \in Processes, s # p PROVE jobs'[s].holds \cap job.holds = {}
        <3>1. jobs'[s].holds = jobs[s].holds /\ jobs[s].holds \cap jobs[p].holds = {}
            BY <1>4, <2>1 DEF JobsInv
        <3> QED
            BY <3>1 DEF Held
    <2>2. CASE q # p /\ r # p
        BY <1>4, <1>5, <2>2 DEF JobsInv
    <2> QED
        BY <1>3, <1>5, <2>1, <2>2
<1>6. ASSUME NEW q \in Processes PROVE Claim(jobs[q])'
    <2>1. CASE q = p
        BY <1>3, <2>1
    <2>2. CASE q # p /\ UNCHANGED <<stored, journal>>
        BY <1>4, <2>2, SameRecords DEF JobsInv
    <2>3. CASE q # p /\ "journal" \in jobs[p].holds
        <3>1. "journal" \notin jobs[q].holds /\ Claim(jobs[q])
            BY <2>3 DEF JobsInv
        <3>2. jobs[q].stage \notin Opened
            BY <3>1 DEF Claim
        <3> QED
            BY <1>4, <2>3, <3>2 DEF Claim, Opened
    <2> QED
        BY <2>1, <2>2, <2>3
<1> QED
    BY <1>3, <1>5, <1>6 DEF JobsInv

\* The command at p goes on as job.
Becomes(p, job) == job \in Active(Len(journal.records)) /\ Turns(p, job)

\* A command that runs is well formed.
LEMMA Running ==
    ASSUME JobsInv, NEW p \in Processes
    PROVE  jobs[p] # Idle => jobs[p] \in Active(Len(journal.records))
BY DEF JobsInv

\* Going on changes the stage only.
LEMMA Going ==
    ASSUME JobsInv, NEW p \in Processes, jobs[p] # Idle, NEW stage \in Stages, Go(p, stage)
    PROVE  \E job : /\ Becomes(p, job) /\ job.stage = stage /\ job.holds = jobs[p].holds
                    /\ job.definition = jobs[p].definition
                    /\ job.checkpoint = jobs[p].checkpoint
<1> DEFINE job == [jobs[p] EXCEPT !.stage = stage]
<1>1. jobs[p] \in Active(Len(journal.records))
    BY Running
<1>2. /\ job \in Active(Len(journal.records)) /\ job.stage = stage
      /\ job.holds = jobs[p].holds /\ job.definition = jobs[p].definition
      /\ job.checkpoint = jobs[p].checkpoint
    BY <1>1 DEF Active
<1>3. Turns(p, job)
    BY DEF Go, Turns
<1> QED
    BY <1>2, <1>3 DEF Becomes

\* Taking a lock, or dropping one, changes the stage and the locks.
Relocks(p, held, stage) == jobs' = [jobs EXCEPT ![p].holds = held, ![p].stage = stage]

\* The command it leads to is well formed.
LEMMA Relocking ==
    ASSUME JobsInv, NEW p \in Processes, jobs[p] # Idle, NEW stage \in Stages,
           NEW held \in SUBSET {"format", "journal"}, Relocks(p, held, stage)
    PROVE  \E job : Becomes(p, job) /\ job.stage = stage /\ job.holds = held
<1> DEFINE job == [jobs[p] EXCEPT !.holds = held, !.stage = stage]
<1>1. jobs[p] \in Active(Len(journal.records))
    BY Running
<1>2. job \in Active(Len(journal.records)) /\ job.stage = stage /\ job.holds = held
    BY <1>1 DEF Active
<1>3. Turns(p, job)
    BY DEF Turns, Relocks
<1> QED
    BY <1>2, <1>3 DEF Becomes

\* A lock is added to those it holds.
LEMMA Taking ==
    ASSUME JobsInv, NEW p \in Processes, jobs[p] # Idle, NEW stage \in Stages,
           NEW lock \in {"format", "journal"}, Take(p, lock, stage)
    PROVE  \E job : /\ Becomes(p, job) /\ job.stage = stage
                    /\ job.holds = jobs[p].holds \cup {lock}
<1>1. jobs[p].holds \cup {lock} \in SUBSET {"format", "journal"}
    BY Running DEF Active
<1>2. Relocks(p, jobs[p].holds \cup {lock}, stage)
    BY DEF Take, Relocks
<1> QED
    BY <1>1, <1>2, Relocking

\* A lock is removed from those it holds.
LEMMA Dropping ==
    ASSUME JobsInv, NEW p \in Processes, jobs[p] # Idle, NEW stage \in Stages,
           NEW lock \in {"format", "journal"}, Drop(p, lock, stage)
    PROVE  \E job : /\ Becomes(p, job) /\ job.stage = stage
                    /\ job.holds = jobs[p].holds \ {lock}
<1>1. jobs[p].holds \ {lock} \in SUBSET {"format", "journal"}
    BY Running DEF Active
<1>2. Relocks(p, jobs[p].holds \ {lock}, stage)
    BY DEF Drop, Relocks
<1> QED
    BY <1>1, <1>2, Relocking

\* Ending, and going on to a stage before the journal is opened, need nothing of
\* the journal.
LEMMA Unopened ==
    ASSUME Inv, NEW p \in Processes, jobs[p] # Idle, UNCHANGED <<stored, journal>>,
           \/ Finish(p)
           \/ \E stage \in Stages \ Opened :
                 \/ Go(p, stage)
                 \/ Drop(p, "format", stage)
                 \/ Take(p, "format", stage) /\ ~Held("format")
    PROVE  JobsInv' /\ JournalInv'
<1>1. Len(journal.records) \in Nat /\ journal' = journal /\ JournalInv'
    BY SameRecords DEF Inv, JournalInv, JournalState
<1>2. CASE Finish(p)
    <2>1. Claim(Idle)' /\ Idle.holds \subseteq jobs[p].holds
        BY DEF Idle, Claim, Opened
    <2>2. Turns(p, Idle)
        BY <1>2 DEF Finish, Turns
    <2> QED
        BY <1>1, <2>1, <2>2, Stepping DEF Inv
<1>3. ASSUME NEW stage \in Stages \ Opened,
             \/ Go(p, stage)
             \/ Drop(p, "format", stage)
             \/ Take(p, "format", stage) /\ ~Held("format")
      PROVE  JobsInv'
    <2>1. PICK job : /\ Becomes(p, job) /\ job.stage = stage
                     /\ \/ job.holds \subseteq jobs[p].holds
                        \/ job.holds = jobs[p].holds \cup {"format"} /\ ~Held("format")
        <3>1. CASE Go(p, stage)
            BY <3>1, Going DEF Inv
        <3>2. CASE Drop(p, "format", stage)
            BY <3>2, Dropping DEF Inv
        <3>3. CASE Take(p, "format", stage) /\ ~Held("format")
            BY <3>3, Taking DEF Inv
        <3> QED
            BY <1>3, <3>1, <3>2, <3>3
    <2>2. Claim(job)'
        BY <2>1 DEF Claim, Opened
    <2> QED
        BY <1>1, <2>1, <2>2, Stepping DEF Inv, Becomes
<1> QED
    BY <1>1, <1>2, <1>3

\* What the other parts of the invariant need of a step.
LEMMA SameReports ==
    ASSUME ReportsInv, reports' = reports, Bindings \subseteq Bindings'
    PROVE  ReportsInv'
BY DEF ReportsInv, BoundAt

\* The steps before the journal is opened.
LEMMA FormatInv ==
    ASSUME Inv, NEW p \in Processes, UNCHANGED <<head, reports, crashes>>,
           \/ Incompatible(p) \/ Admit(p) \/ OpenFormat(p) \/ LockFormat(p) \/ ClaimFormat(p)
           \/ MakeState(p) \/ StageMarker(p) \/ PublishMarker(p) \/ MakeGenerations(p)
    PROVE  Inv'
<1> USE DEF At, Idle
<1>1. jobs[p] # Idle /\ UNCHANGED <<stored, journal>>
    BY DEF Incompatible, Admit, OpenFormat, LockFormat, ClaimFormat, MakeState, StageMarker,
           PublishMarker, MakeGenerations, disk
<1>2. AfterFormat(p) \in Stages \ Opened
    BY DEF AfterFormat, Stages, Opened
<1>3. {"format", "preflight", "flock", "claim", "state", "stage", "marker", "open"}
            \subseteq Stages \ Opened
    BY DEF Stages, Opened
<1>4. \/ Finish(p)
      \/ \E stage \in Stages \ Opened :
            \/ Go(p, stage)
            \/ Drop(p, "format", stage)
            \/ Take(p, "format", stage) /\ ~Held("format")
    BY <1>2, <1>3
    DEF Incompatible, Admit, OpenFormat, LockFormat, ClaimFormat, MakeState, StageMarker,
        PublishMarker, MakeGenerations
<1>5. JobsInv' /\ JournalInv'
    BY <1>1, <1>4, Unopened
<1>6. ReportsInv'
    BY <1>1, SameRecords, SameReports DEF Inv
<1>7. RestType'
    BY DEF Inv, RestType, Incompatible, Admit, OpenFormat, LockFormat, ClaimFormat, MakeState,
           StageMarker, PublishMarker, MakeGenerations, disk
<1> QED
    BY <1>5, <1>6, <1>7 DEF Inv

\* The preflight notes how many records it has seen.
LEMMA PreflightInv ==
    ASSUME Inv, NEW p \in Processes, UNCHANGED <<head, reports, crashes>>, Preflight(p)
    PROVE  Inv'
<1>1. jobs[p] # Idle /\ UNCHANGED <<root, state, stored, journal>>
    BY DEF Preflight, At, Idle, disk
<1>2. /\ Len(journal.records) \in Nat /\ jobs[p] \in Active(Len(journal.records))
      /\ journal' = journal /\ UNCHANGED <<stored, journal>>
      /\ Len(journal'.records) = Len(journal.records)
    BY <1>1, Running DEF Inv, JournalInv, JournalState
<1>3. ASSUME Finish(p) PROVE JobsInv'
    BY <1>1, <1>3, Unopened DEF Inv
<1>4. ASSUME jobs' = [jobs EXCEPT ![p].seen = Len(journal.records), ![p].stage = "format"]
      PROVE  JobsInv'
    <2>1. PICK job : job = [jobs[p] EXCEPT !.seen = Len(journal.records), !.stage = "format"]
        OBVIOUS
    <2>2. Len(journal.records) \in -1 .. Len(journal.records) /\ "format" \in Stages
        BY <1>2 DEF Stages
    <2>3. /\ job \in Active(Len(journal.records)) /\ job.stage = "format"
          /\ job.holds = jobs[p].holds
        BY <1>2, <2>1, <2>2 DEF Active
    <2>4. Claim(job)' /\ Turns(p, job)
        BY <1>4, <2>1, <2>3 DEF Claim, Opened, Turns
    <2> QED
        BY <1>2, <2>3, <2>4, Stepping DEF Inv
<1>5. JobsInv' /\ JournalInv'
    BY <1>1, <1>3, <1>4, SameRecords DEF Preflight, Inv
<1>6. ReportsInv' /\ RestType'
    BY <1>1, SameRecords, SameReports DEF Inv, RestType
<1> QED
    BY <1>5, <1>6 DEF Inv

-----------------------------------------------------------------------------
(* Steps with the journal opened *)

\* Opening the journal takes its lock, or ends.
LEMMA OpenJournalInv ==
    ASSUME Inv, NEW p \in Processes, UNCHANGED <<head, reports, crashes>>, OpenJournal(p)
    PROVE  Inv'
<1>1. /\ jobs[p] # Idle /\ UNCHANGED <<root, stored, journal>>
      /\ state' = state \cup {"lock"}
    BY DEF OpenJournal, At, Idle
<1>2. Len(journal.records) \in Nat /\ journal' = journal
    BY <1>1 DEF Inv, JournalInv, JournalState
<1>3. ASSUME Finish(p) PROVE JobsInv'
    BY <1>1, <1>3, Unopened
<1>4. ASSUME NEW stage \in {"compare", "tail"}, Take(p, "journal", stage), Free("journal")
      PROVE  JobsInv'
    <2>1. stage \in Stages
        BY DEF Stages
    <2>2. PICK job : /\ Becomes(p, job) /\ job.stage = stage
                     /\ job.holds = jobs[p].holds \cup {"journal"}
        BY <1>1, <1>4, <2>1, Taking DEF Inv
    <2>3. Claim(job)'
        BY <1>4, <2>2 DEF Claim, Opened
    <2> QED
        BY <1>1, <1>2, <1>4, <2>2, <2>3, Stepping DEF Inv, Becomes, Free
<1>5. JobsInv'
    BY <1>3, <1>4 DEF OpenJournal
<1> QED
    BY <1>1, <1>5, SameRecords, SameReports DEF Inv, RestType

\* A command goes on under the journal's lock.
LEMMA OnUnderLock ==
    ASSUME Inv, NEW p \in Processes, jobs[p].stage \in Opened, jobs[p] # Idle,
           NEW stage \in Stages, Go(p, stage),
           Len(journal'.records) \in Nat, Len(journal'.records) >= Len(journal.records)
    PROVE  \E job : /\ job.stage = stage /\ "journal" \in job.holds
                    /\ job.definition = jobs[p].definition
                    /\ job.checkpoint = jobs[p].checkpoint
                    /\ Claim(job)' => JobsInv'
<1>1. Len(journal.records) \in Nat
    BY DEF Inv, JournalInv, JournalState
<1>2. "journal" \in jobs[p].holds
    BY DEF Inv, JobsInv, Claim
<1>3. PICK job : /\ Becomes(p, job) /\ job.stage = stage /\ job.holds = jobs[p].holds
                 /\ job.definition = jobs[p].definition
                 /\ job.checkpoint = jobs[p].checkpoint
    BY Going DEF Inv
<1>4. job \in Active(Len(journal'.records)) /\ job.holds \subseteq jobs[p].holds
    BY <1>1, <1>3 DEF Becomes, Active
<1>5. ASSUME Claim(job)' PROVE JobsInv'
    BY <1>1, <1>2, <1>3, <1>4, <1>5, Stepping DEF Inv, Becomes
<1> QED
    BY <1>2, <1>3, <1>5

\* Ending releases the journal's lock.
LEMMA EndUnderLock ==
    ASSUME Inv, NEW p \in Processes, jobs[p].stage \in Opened, Finish(p),
           Len(journal'.records) \in Nat, Len(journal'.records) >= Len(journal.records)
    PROVE  JobsInv'
<1>1. Len(journal.records) \in Nat
    BY DEF Inv, JournalInv, JournalState
<1>2. "journal" \in jobs[p].holds
    BY DEF Inv, JobsInv, Claim
<1>3. Claim(Idle)' /\ Idle.holds \subseteq jobs[p].holds /\ Turns(p, Idle)
    BY DEF Idle, Claim, Opened, Finish, Turns
<1> QED
    BY <1>1, <1>2, <1>3, Stepping DEF Inv

\* Init goes on where the journal allows it.
LEMMA CompareInv ==
    ASSUME Inv, NEW p \in Processes, UNCHANGED <<head, reports, crashes>>, Compare(p)
    PROVE  Inv'
<1>1. /\ UNCHANGED <<root, state, stored, journal>> /\ jobs[p].stage = "compare"
      /\ jobs[p] # Idle /\ jobs[p].stage \in Opened /\ "store" \in Stages
    BY DEF Compare, disk, At, Idle, Opened, Stages
<1>2. ASSUME Finish(p) PROVE JobsInv'
    BY <1>1, <1>2, Unopened
<1>3. ASSUME Agrees(p), Go(p, "store") PROVE JobsInv'
    <2>1. /\ Len(journal.records) \in Nat /\ journal' = journal
          /\ Len(journal'.records) = Len(journal.records)
        BY <1>1 DEF Inv, JournalInv, JournalState
    <2>2. PICK job : /\ job.stage = "store" /\ "journal" \in job.holds
                     /\ job.definition = jobs[p].definition
                     /\ job.checkpoint = jobs[p].checkpoint
                     /\ Claim(job)' => JobsInv'
        BY <1>1, <1>3, <2>1, OnUnderLock
    <2>3. Claim(job)
        BY <1>3, <2>2 DEF Agrees, Claim, Definition
    <2> QED
        BY <1>1, <2>2, <2>3, SameRecords
<1>4. JobsInv'
    BY <1>2, <1>3 DEF Compare
<1> QED
    BY <1>1, <1>4, SameRecords, SameReports DEF Inv, RestType

\* A generation is stored beside no other one, and is the one the records name.
LEMMA StoreInv ==
    ASSUME Inv, NEW p \in Processes, UNCHANGED <<head, reports, crashes>>, Store(p)
    PROVE  Inv'
<1> DEFINE d == jobs[p].definition
<1>1. /\ UNCHANGED <<root, state, journal>> /\ jobs[p].stage = "store"
      /\ jobs[p] # Idle /\ jobs[p].stage \in Opened /\ {"append", "project"} \subseteq Stages
    BY DEF Store, At, Idle, Opened, Stages
<1>2. /\ Len(journal.records) \in Nat /\ journal' = journal
      /\ Len(journal'.records) = Len(journal.records)
      /\ Generations' = Generations /\ Bindings' = Bindings
    BY <1>1, RecordsKept DEF Inv, JournalInv, JournalState
<1>3. /\ d \in Definitions /\ Readable
      /\ BindableTo(d) \/ BoundAt(d, jobs[p].checkpoint)
    BY <1>1, Running DEF Inv, JobsInv, Claim, Active
<1>4. CASE Finish(p) /\ UNCHANGED stored
    BY <1>1, <1>4, Unopened, SameRecords, SameReports DEF Inv, RestType
<1>5. CASE stored \subseteq {d} /\ stored' = stored \cup {d}
    <2>1. stored' = {d}
        BY <1>5
    <2>2. JournalInv'
        BY <1>2, <1>3, <1>5, <2>1 DEF Inv, JournalInv, Readable
    <2>3. JobsInv'
        <3>1. CASE Bound /\ Go(p, "project")
            <4>1. PICK job : job.stage = "project" /\ "journal" \in job.holds
                             /\ (Claim(job)' => JobsInv')
                BY <1>1, <1>2, <3>1, OnUnderLock
            <4> QED
                BY <4>1 DEF Claim, Opened
        <3>2. CASE ~Bound /\ Go(p, "append")
            <4>1. PICK job : /\ job.stage = "append" /\ "journal" \in job.holds
                             /\ job.definition = d
                             /\ Claim(job)' => JobsInv'
                BY <1>1, <1>2, <3>2, OnUnderLock
            <4>2. Claim(job)'
                BY <1>2, <1>3, <2>1, <3>2, <4>1 DEF Claim, Opened, Bound, Readable
            <4> QED
                BY <4>1, <4>2
        <3> QED
            BY <1>4, <1>5, <3>1, <3>2 DEF Store, Definition, Storable
    <2> QED
        BY <1>1, <1>2, <2>2, <2>3, SameReports DEF Inv, RestType
<1> QED
    BY <1>4, <1>5 DEF Store, Definition, Storable

\* The first event is begun where nothing is bound yet.
LEMMA BeginAppendInv ==
    ASSUME Inv, NEW p \in Processes, UNCHANGED <<head, reports, crashes>>, BeginAppend(p)
    PROVE  Inv'
<1> DEFINE d == jobs[p].definition
<1>1. /\ UNCHANGED <<root, state, stored>> /\ jobs[p].stage = "append"
      /\ jobs[p] # Idle /\ jobs[p].stage \in Opened /\ "appending" \in Stages
      /\ journal' = [journal EXCEPT !.torn = TRUE] /\ Go(p, "appending")
    BY DEF BeginAppend, At, Idle, Opened, Stages
<1>2. /\ Len(journal.records) \in Nat /\ journal' \in JournalState
      /\ journal'.records = journal.records /\ journal'.intent = journal.intent
      /\ Len(journal'.records) = Len(journal.records)
    <2>1. journal \in JournalState
        BY DEF Inv, JournalInv
    <2>2. journal' \in JournalState /\ journal'.records = journal.records
        BY <1>1, <2>1 DEF JournalState
    <2>3. journal'.intent = journal.intent
        BY <1>1, <2>1 DEF JournalState
    <2> QED
        BY <2>1, <2>2, <2>3 DEF JournalState
<1>3. Generations' = Generations /\ Bindings' = Bindings
    BY <1>2, RecordsKept
<1>4. ~Bound /\ stored = {d} /\ journal.intent = None
    BY <1>1 DEF Inv, JobsInv, Claim
<1>5. PICK job : /\ job.stage = "appending" /\ "journal" \in job.holds
                 /\ job.definition = d
                 /\ Claim(job)' => JobsInv'
    BY <1>1, <1>2, OnUnderLock
<1>6. Claim(job)'
    BY <1>1, <1>2, <1>3, <1>4, <1>5 DEF Claim, Opened, Bound
<1>7. JournalInv'
    BY <1>1, <1>2, <1>3 DEF Inv, JournalInv
<1> QED
    BY <1>1, <1>3, <1>5, <1>6, <1>7, SameReports DEF Inv, RestType

\* The first event binds the stored generation, and is the only one that binds.
LEMMA FinishAppendInv ==
    ASSUME Inv, NEW p \in Processes, UNCHANGED <<head, reports, crashes>>, FinishAppend(p)
    PROVE  Inv'
<1> DEFINE d == jobs[p].definition
           r == [kind |-> "initialized", generation |-> d, checkpoint |-> jobs[p].checkpoint]
<1>1. /\ UNCHANGED <<root, state, stored>> /\ jobs[p].stage = "appending"
      /\ jobs[p] # Idle /\ jobs[p].stage \in Opened /\ "project" \in Stages
      /\ journal' = [journal EXCEPT !.torn = FALSE, !.records = Append(journal.records, r)]
      /\ Go(p, "project")
    BY DEF FinishAppend, At, Idle, Opened, Stages, Definition
<1>2. /\ d \in Definitions /\ jobs[p].checkpoint \in Commits
    BY <1>1, Running DEF Inv, Active
<1>3. r \in Records /\ r.kind # "recovered" /\ r.generation = d
    BY <1>2 DEF Records
<1>4. /\ journal.records \in Seq(Records) /\ Len(journal.records) \in Nat
      /\ journal'.records = Append(journal.records, r) /\ journal'.intent = journal.intent
    BY <1>1 DEF Inv, JournalInv, JournalState
<1>5. /\ journal'.records \in Seq(Records)
      /\ Len(journal'.records) = Len(journal.records) + 1
      /\ Generations' = Generations \cup {d}
      /\ Bindings' = Bindings \cup {r}
    BY <1>3, <1>4, AppendedRecord
<1>6. Bindings = {} /\ stored = {d} /\ journal.intent = None
    BY <1>1 DEF Inv, JobsInv, Claim, Bound
<1>7. journal' \in JournalState
    BY <1>1, <1>5 DEF Inv, JournalInv, JournalState
<1>8. JournalInv'
    BY <1>1, <1>3, <1>4, <1>5, <1>6, <1>7 DEF Inv, JournalInv
<1>9. PICK job : /\ job.stage = "project" /\ "journal" \in job.holds
                 /\ Claim(job)' => JobsInv'
    BY <1>1, <1>4, <1>5, OnUnderLock
<1>10. Claim(job)'
    BY <1>9 DEF Claim, Opened
<1> QED
    BY <1>1, <1>5, <1>8, <1>9, <1>10, SameReports DEF Inv, RestType

\* A recovery is prepared for the generation that is stored.
LEMMA PrepareTailInv ==
    ASSUME Inv, NEW p \in Processes, UNCHANGED <<head, reports, crashes>>, PrepareTail(p)
    PROVE  Inv'
<1>1. /\ UNCHANGED <<root, state, stored>> /\ jobs[p].stage = "tail"
      /\ jobs[p] # Idle /\ jobs[p].stage \in Opened /\ "repair" \in Stages
    BY DEF PrepareTail, At, Idle, Opened, Stages
<1>2. journal \in JournalState /\ Len(journal.records) \in Nat
    BY DEF Inv, JournalInv, JournalState
<1>3. ASSUME Finish(p), UNCHANGED journal PROVE Inv'
    BY <1>1, <1>3, Unopened, SameRecords, SameReports DEF Inv, RestType
<1>4. ASSUME Go(p, "repair"), journal'.records = journal.records,
             journal'.intent # None, journal'.intent \in stored, journal' \in JournalState
      PROVE  Inv'
    <2>1. Generations' = Generations /\ Bindings' = Bindings
        BY <1>4, RecordsKept
    <2>2. Len(journal'.records) = Len(journal.records)
        BY <1>4
    <2>3. PICK job : job.stage = "repair" /\ "journal" \in job.holds
                     /\ (Claim(job)' => JobsInv')
        BY <1>1, <1>2, <1>4, <2>2, OnUnderLock
    <2>4. Claim(job)'
        BY <1>4, <2>3 DEF Claim, Opened
    <2>5. JournalInv'
        BY <1>1, <1>4, <2>1 DEF Inv, JournalInv
    <2> QED
        BY <1>1, <2>1, <2>3, <2>4, <2>5, SameReports DEF Inv, RestType
<1>5. CASE UNCHANGED journal /\ journal.intent # None /\ Go(p, "repair")
    BY <1>2, <1>4, <1>5 DEF Inv, JournalInv
<1>6. ASSUME NEW g \in Definitions, TailGeneration(Definition(p), g),
             journal' = [journal EXCEPT !.intent = g], Go(p, "repair")
      PROVE  Inv'
    <2>1. /\ journal'.records = journal.records /\ journal' \in JournalState
          /\ journal'.intent = g
        BY <1>2, <1>6 DEF JournalState
    <2>2. g \in stored
        <3>1. CASE stored = {g}
            BY <3>1
        <3>2. CASE BoundTo(g)
            BY <1>2, <3>2, BindingsType DEF BoundTo, Inv, JournalInv, JournalState
        <3> QED
            BY <1>6, <3>1, <3>2 DEF TailGeneration
    <2>3. g # None
        BY NoneAssumption DEF None
    <2> QED
        BY <1>4, <1>6, <2>1, <2>2, <2>3
<1> QED
    BY <1>3, <1>5, <1>6 DEF PrepareTail

\* What is recorded of a recovery names the stored generation and binds nothing.
LEMMA RepairTailInv ==
    ASSUME Inv, NEW p \in Processes, UNCHANGED <<head, reports, crashes>>, RepairTail(p)
    PROVE  Inv'
<1> DEFINE r == [kind |-> "recovered", generation |-> journal.intent]
<1>1. /\ UNCHANGED <<root, state, stored>> /\ jobs[p].stage = "repair"
      /\ jobs[p].stage \in Opened /\ Finish(p)
      /\ journal' = [torn |-> FALSE, intent |-> None, records |-> Append(journal.records, r)]
    BY DEF RepairTail, At, Opened
<1>2. journal.intent # None /\ journal.intent \in stored /\ journal.intent \in Definitions
    BY <1>1 DEF Inv, JobsInv, Claim, JournalInv, JournalState
<1>3. r \in Records /\ r.kind = "recovered" /\ r.generation = journal.intent
    BY <1>2 DEF Records
<1>4. /\ journal.records \in Seq(Records) /\ Len(journal.records) \in Nat
      /\ journal'.records = Append(journal.records, r) /\ journal'.intent = None
    BY <1>1 DEF Inv, JournalInv, JournalState
<1>5. /\ journal'.records \in Seq(Records)
      /\ Len(journal'.records) = Len(journal.records) + 1
      /\ Generations' = Generations \cup {journal.intent}
      /\ Bindings' = Bindings
    BY <1>3, <1>4, AppendedRecord
<1>6. journal' \in JournalState
    BY <1>1, <1>4, <1>5 DEF JournalState
<1>7. JournalInv'
    BY <1>1, <1>2, <1>4, <1>5, <1>6 DEF Inv, JournalInv
<1>8. JobsInv'
    BY <1>1, <1>4, <1>5, EndUnderLock
<1> QED
    BY <1>1, <1>5, <1>7, <1>8, SameReports DEF Inv, RestType

-----------------------------------------------------------------------------
(* Steps of the commands and of the plan repository *)

\* A command begins with no lock.
LEMMA BeginInv ==
    ASSUME Inv, NEW p \in Processes, NEW d \in Definitions, BeginInit(p, d) \/ BeginRecover(p, d)
    PROVE  Inv'
<1>1. /\ jobs[p] = Idle /\ UNCHANGED <<root, state, stored, journal, head, reports, crashes>>
    BY DEF BeginInit, BeginRecover, disk
<1>2. /\ Len(journal.records) \in Nat /\ journal' = journal
      /\ UNCHANGED <<stored, journal>> /\ Len(journal'.records) = Len(journal.records)
    BY <1>1 DEF Inv, JournalInv, JournalState
<1>3. PICK job : /\ jobs' = [jobs EXCEPT ![p] = job]
                 /\ \/ job = [Idle EXCEPT !.command = "init", !.definition = d,
                                          !.checkpoint = head, !.stage = "admit"]
                    \/ job = [Idle EXCEPT !.command = "recover", !.definition = d,
                                          !.stage = "format"]
    BY DEF BeginInit, BeginRecover
<1>4. {0, head} \subseteq Commits /\ {"admit", "format"} \subseteq Stages \ Opened
    BY BoundAssumption DEF Inv, RestType, Commits, Stages, Opened
<1>5. -1 \in -1 .. Len(journal.records)
    BY <1>2
<1>6. /\ job \in Active(Len(journal.records)) /\ job.holds = {} /\ job.stage \notin Opened
      /\ job.stage \in {"admit", "format"}
    BY <1>3, <1>4, <1>5 DEF Idle, Active
<1>7. job.holds \subseteq jobs[p].holds
    BY <1>6
<1>8. Claim(job)' /\ Turns(p, job)
    BY <1>3, <1>6 DEF Claim, Opened, Turns
<1>9. JobsInv'
    BY <1>2, <1>6, <1>7, <1>8, Stepping DEF Inv
<1> QED
    BY <1>1, <1>2, <1>9, SameRecords, SameReports DEF Inv, RestType

\* A success is reported only of what the journal binds.
LEMMA ReportInv == ASSUME Inv, NEW p \in Processes, Report(p) PROVE Inv'
<1>1. /\ jobs[p] # Idle /\ UNCHANGED <<root, state, stored, journal, head, crashes>>
      /\ Finish(p) /\ BoundAt(jobs[p].definition, jobs[p].checkpoint)
      /\ reports' = reports \cup {[generation |-> jobs[p].definition,
                                   checkpoint |-> jobs[p].checkpoint]}
    BY DEF Report, disk, Definition, At, Idle
<1>2. jobs[p].definition \in Definitions /\ jobs[p].checkpoint \in Commits
    BY <1>1, Running DEF Inv, Active
<1>3. JobsInv' /\ JournalInv' /\ Bindings' = Bindings
    BY <1>1, Unopened, SameRecords
<1>4. ReportsInv'
    BY <1>1, <1>2, <1>3 DEF Inv, ReportsInv, BoundAt
<1> QED
    BY <1>1, <1>3, <1>4 DEF Inv, RestType

\* A crash drops a command with its locks.
LEMMA CrashInv == ASSUME Inv, NEW p \in Processes, Crash(p) PROVE Inv'
<1>1. /\ jobs[p] # Idle /\ UNCHANGED <<root, state, stored, journal, head, reports>>
      /\ Finish(p) /\ crashes < MaxCrashes /\ crashes' = crashes + 1
    BY DEF Crash, disk
<1>2. JobsInv' /\ JournalInv' /\ ReportsInv'
    BY <1>1, Unopened, SameRecords, SameReports DEF Inv
<1>3. RestType'
    BY <1>1, BoundAssumption DEF Inv, RestType
<1> QED
    BY <1>2, <1>3 DEF Inv

\* Nothing of the plan repository enters but by a command that begins.
LEMMA CommitPlanInv == ASSUME Inv, CommitPlan PROVE Inv'
<1>1. /\ UNCHANGED <<root, state, stored, journal, jobs, reports, crashes>>
      /\ head < MaxCommits /\ head' = head + 1
    BY DEF CommitPlan, disk
<1>2. RestType'
    BY <1>1, BoundAssumption DEF Inv, RestType, Commits
<1> QED
    BY <1>1, <1>2, SameRecords, SameReports DEF Inv, JobsInv

\* Every step keeps the invariant.
LEMMA InvNext == Inv /\ [Next]_vars => Inv'
<1> SUFFICES ASSUME Inv, [Next]_vars PROVE Inv'
    OBVIOUS
<1>1. CASE UNCHANGED vars
    BY <1>1, SameRecords, SameReports DEF vars, disk, Inv, JobsInv, RestType
<1>2. ASSUME NEW p \in Processes, Step(p)
      PROVE  Inv'
    BY <1>2, FormatInv, PreflightInv, OpenJournalInv, CompareInv, StoreInv, BeginAppendInv,
       FinishAppendInv, PrepareTailInv, RepairTailInv, ReportInv DEF Step
<1> QED
    BY <1>1, <1>2, CommitPlanInv, CrashInv, BeginInv DEF Next

\* However initialisations and recoveries interleave and end, the invariant holds.
THEOREM Invariance == Spec => []Inv
BY InvInit, InvNext, PTL DEF Spec

\* The directory, the journal and the commands are well formed.
THEOREM TypeCorrect == Spec => []TypeOK
<1>1. Inv => TypeOK
    <2> SUFFICES ASSUME Inv PROVE TypeOK
        OBVIOUS
    <2>1. /\ journal.records \in Seq(Records) /\ DOMAIN journal = {"records", "torn", "intent"}
          /\ journal.torn \in BOOLEAN /\ journal.intent \in Definitions \cup {None}
        BY DEF Inv, JournalInv, JournalState
    <2>2. stored \subseteq Definitions
        BY DEF Inv, JournalInv
    <2> QED
        BY <2>1, <2>2 DEF Inv, JobsInv, ReportsInv, RestType, TypeOK, Active
<1> QED
    BY <1>1, Invariance, PTL

\* The stored generation, every record of the journal and every success that was
\* reported are of one generation and one checkpoint.
THEOREM OneGenerationSafe == Spec => []OneGeneration
<1>1. Inv => OneGeneration
    <2> SUFFICES ASSUME Inv PROVE OneGeneration
        OBVIOUS
    <2>1. ASSUME NEW S, S = {} \/ \E x : S = {x} PROVE Cardinality(S) <= 1
        <3>1. CASE S = {}
            BY <3>1, FS_EmptySet
        <3>2. ASSUME NEW x, S = {x} PROVE Cardinality(S) <= 1
            <4>1. Cardinality({x}) = 1
                BY FS_Singleton
            <4> QED
                BY <3>2, <4>1
        <3> QED
            BY <2>1, <3>1, <3>2
    <2>2. Cardinality(stored) <= 1 /\ Cardinality(Bindings) <= 1
        BY <2>1 DEF Inv, JournalInv
    <2> QED
        BY <2>2 DEF Inv, JournalInv, ReportsInv, OneGeneration
<1> QED
    BY <1>1, Invariance, PTL
=============================================================================
