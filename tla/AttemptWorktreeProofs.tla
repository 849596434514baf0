------------------------ MODULE AttemptWorktreeProofs ------------------------
(***************************************************************************)
(* Proofs about AttemptWorktree for any attempts, trees and bounds.        *)
(*                                                                         *)
(* The argument looks at one worktree at a time.  While the command that   *)
(* materialises it is at work, and nobody touched it, what is at its paths *)
(* is exactly what the command has recorded as made; otherwise it is       *)
(* settled.  Both are stated of the entries t of a worktree, the job j and *)
(* the marks m, so that a step is reasoned about on these values alone.    *)
(***************************************************************************)
EXTENDS AttemptWorktree, TLAPS

Tree  == {t \in [Paths -> Entry \cup GitOwn] : \A p \in Paths \ {Git} : t[p] \in Entry}
Marks == SUBSET {"touched", "crashed", "unremoved"}

Job == [command : {"start", "recover"}, attempt : Attempts \cup {"none"},
        stage : Stages \cup Undoing, made : SUBSET Paths, writing : Blobs \cup {"none"},
        bound : BOOLEAN, survey : SUBSET Attempts, queue : SUBSET Attempts]

\* The stages in which a worktree is made, and those in which its repository is.
Repository == {"git", "init", "initialising", "alternates", "index", "detach", "inspect"}
Making     == {"empty", "fill", "blob"} \cup Repository
Busy(j, a) == j.attempt = a /\ j.stage \in Making \cup Undoing

-----------------------------------------------------------------------------
(* The invariant *)

Exact(t) ==
    /\ \A b \in Blobs : t[b] = "made"
    /\ \A d \in Directories \cup Gitlinks : t[d] # "absent"
    /\ \A s \in Strays : t[s] = "absent"

HasHead(t) == t[Git] \in {"detached", "advanced"}
Gone(t)    == \A p \in Paths : t[p] = "absent"
Rooted(t)  == t[Top] = "absent" => Gone(t)

\* What is at the paths of an untouched worktree at each stage of its job.
Work(t, j) ==
    /\ t[Top] = "made" /\ Top \in j.made /\ j.made \subseteq {Top} \cup Tracked
    /\ j.stage \in Making =>
          \A p \in Paths \ {Git} :
             t[p] = IF p \in j.made THEN "made"
                    ELSE IF j.stage = "blob" /\ p = j.writing THEN "partial" ELSE "absent"
    /\ j.stage = "empty" => j.made = {Top}
    /\ j.stage = "blob" => j.writing \notin j.made
    /\ j.stage \in Repository => Tracked \subseteq j.made
    /\ j.stage \in {"empty", "fill", "blob", "git", "init", "undo entries", "undo top"}
          => t[Git] = "absent"
    /\ j.stage = "initialising" => t[Git] = "half"
    /\ j.stage = "alternates" => j.bound /\ t[Git] = "init"
    /\ j.stage = "index" => j.bound /\ t[Git] = "alternates"
    /\ j.stage = "detach" => j.bound /\ t[Git] = "indexed"
    /\ j.stage = "inspect" => j.bound /\ t[Git] = "detached"
    /\ j.stage \in Undoing =>
          \A p \in Paths \ {Git} : t[p] = "absent" \/ (p \in j.made /\ t[p] = "made")
    /\ j.stage = "undo git" =>
          /\ t[Git] = "absent" \/ (j.bound /\ t[Git] \in GitOwn)
          /\ HasHead(t) => Exact(t)
    /\ j.stage = "undo top" => j.made = {Top}

\* What is at the paths of an untouched worktree nobody is working on.
Settled(t, m) ==
    /\ HasHead(t) => Exact(t)
    /\ m = {} => (t[Git] = "detached" /\ Exact(t)) \/ Gone(t)

Calm(m) == m \cap {"touched", "unremoved"} = {}

Place(a, t, j, m) ==
    Calm(m) => IF Busy(j, a) THEN Work(t, j) ELSE Settled(t, m)

JobOK(j) == j = Idle \/ (j \in Job /\ (j.stage = "blob" => j.writing \in Blobs))

RestOK ==
    /\ phase \in [Attempts -> {"unstarted", "active", "abandoned"}]
    /\ intent \in BOOLEAN
    /\ budget \in [touches : 0 .. MaxTouches, crashes : 0 .. MaxCrashes,
                   faults : 0 .. MaxFaults, intents : 0 .. MaxIntents]

Inv ==
    /\ RestOK
    /\ tree \in [Attempts -> Tree] /\ marks \in [Attempts -> Marks]
    /\ JobOK(job)
    /\ \A a \in Attempts : Rooted(tree[a]) /\ Place(a, tree[a], job, marks[a])

-----------------------------------------------------------------------------
(* Frames *)

\* A step of the job on the worktree it is making, to entries t, job j and marks m.
Moves(a, t, j, m) ==
    /\ tree' = [tree EXCEPT ![a] = t]
    /\ marks' = [marks EXCEPT ![a] = m]
    /\ job' = j

Good(a, t, j, m) ==
    /\ t \in Tree /\ Rooted(t) /\ m \in Marks /\ JobOK(j)
    /\ j.stage \in Making \cup Undoing => j.attempt = a
    /\ Place(a, t, j, m)

\* Such a step leaves the other worktrees alone.
LEMMA MovesStep ==
    ASSUME Inv, RestOK', NEW a \in Attempts, job.attempt = a,
           NEW t, NEW j, NEW m, Moves(a, t, j, m), Good(a, t, j, m)
    PROVE  Inv'
<1>1. /\ tree' \in [Attempts -> Tree] /\ marks' \in [Attempts -> Marks] /\ JobOK(job')
      /\ tree'[a] = t /\ marks'[a] = m /\ job' = j
    BY DEF Inv, Moves, Good
<1>2. ASSUME NEW b \in Attempts, b # a
      PROVE  tree'[b] = tree[b] /\ marks'[b] = marks[b]
             /\ ~Busy(job, b) /\ ~Busy(j, b)
    BY <1>2 DEF Inv, Moves, Good, Busy
<1>3. ASSUME NEW b \in Attempts
      PROVE  Rooted(tree'[b]) /\ Place(b, tree'[b], j, marks'[b])
    <2>1. CASE b = a
        BY <1>1, <2>1 DEF Good
    <2>2. CASE b # a
        <3>1. Rooted(tree[b]) /\ Place(b, tree[b], job, marks[b])
            BY DEF Inv
        <3> QED
            BY <1>2, <2>2, <3>1 DEF Place
    <2> QED
        BY <2>1, <2>2
<1> QED
    BY <1>1, <1>3 DEF Inv

\* A job that makes no worktree, before and after the step, leaves all of them
\* settled.
LEMMA SettledStep ==
    ASSUME Inv, RestOK', UNCHANGED <<tree, marks>>, NEW j, job' = j, JobOK(j),
           job.stage \notin Making \cup Undoing, j.stage \notin Making \cup Undoing
    PROVE  Inv'
<1>1. ASSUME NEW a \in Attempts
      PROVE  Rooted(tree[a]) /\ Place(a, tree[a], j, marks[a])
    BY DEF Inv, Place, Busy
<1> QED
    BY <1>1 DEF Inv

\* The worktree of a job at work is well formed.
LEMMA Here ==
    ASSUME Inv, NEW a \in Attempts, job.stage # "idle"
    PROVE  /\ job \in Job /\ (job.stage = "blob" => job.writing \in Blobs)
           /\ tree[a] \in Tree /\ Rooted(tree[a]) /\ marks[a] \in Marks
           /\ Place(a, tree[a], job, marks[a])
BY DEF Inv, JobOK, Idle

\* A step of the job at work that keeps Work, whatever it does to the worktree.
LEMMA WorkStep ==
    ASSUME Inv, RestOK', NEW a \in Attempts, job.attempt = a,
           job.stage \in Making \cup Undoing,
           NEW t \in Tree, Rooted(t), NEW j, JobOK(j), j.attempt = a,
           j.stage \in Making \cup Undoing,
           tree' = [tree EXCEPT ![a] = t], job' = j, UNCHANGED marks,
           Work(tree[a], job) => Work(t, j)
    PROVE  Inv'
<1>1. PICK m : m = marks[a]
    OBVIOUS
<1>2. job.stage # "idle" /\ Busy(job, a) /\ Busy(j, a)
    BY DEF Making, Undoing, Repository, Busy
<1>3. m \in Marks /\ Place(a, tree[a], job, m)
    BY <1>1, <1>2, Here
<1>4. Good(a, t, j, m)
    BY <1>2, <1>3 DEF Good, Place
<1>5. Moves(a, t, j, m)
    BY <1>1 DEF Moves, Inv
<1> QED
    BY <1>4, <1>5, MovesStep

\* A step of the job at work that leaves the worktree alone.
LEMMA StayStep ==
    ASSUME Inv, RestOK', NEW a \in Attempts, job.attempt = a,
           job.stage \in Making \cup Undoing,
           NEW j, JobOK(j), j.attempt = a, j.stage \in Making \cup Undoing,
           job' = j, UNCHANGED <<tree, marks>>,
           Work(tree[a], job) => Work(tree[a], j)
    PROVE  Inv'
<1>1. PICK t : t = tree[a]
    OBVIOUS
<1>2. t \in Tree /\ Rooted(t) /\ tree' = [tree EXCEPT ![a] = t]
    BY <1>1 DEF Inv
<1> QED
    BY <1>1, <1>2, WorkStep

\* The entries t are the entries s with v at the path p.
Changed(s, t, p, v) == t[p] = v /\ \A q \in Paths : q # p => t[q] = s[q]

\* A step of the job at work that sets one path.
LEMMA SetStep ==
    ASSUME Inv, RestOK', NEW a \in Attempts, job.attempt = a,
           job.stage \in Making \cup Undoing,
           NEW p \in Paths, NEW v \in Entry \cup GitOwn, p = Git \/ v \in Entry,
           p # Top, v = "absent" \/ Exists(a, Top) \/ Exists(a, p),
           NEW j, JobOK(j), j.attempt = a, j.stage \in Making \cup Undoing,
           Set(a, p, v), job' = j, UNCHANGED marks,
           \A t \in Tree : Changed(tree[a], t, p, v) /\ Work(tree[a], job) => Work(t, j)
    PROVE  Inv'
<1>1. PICK t : t = [tree[a] EXCEPT ![p] = v]
    OBVIOUS
<1>2. tree[a] \in Tree /\ Rooted(tree[a])
    BY DEF Inv
<1>3. t \in Tree /\ Changed(tree[a], t, p, v)
    BY <1>1, <1>2 DEF Tree, Changed
<1>4. Rooted(t)
    BY <1>2, <1>3 DEF Rooted, Gone, Changed, Exists, Paths
<1>5. tree' = [tree EXCEPT ![a] = t]
    BY <1>1 DEF Set, Inv
<1> QED
    BY <1>3, <1>4, <1>5, WorkStep

\* The job moves on to another stage with what it has recorded.
LEMMA GoJob ==
    ASSUME Inv, NEW stage \in Stages \cup Undoing, stage # "blob",
           job.stage # "idle", NEW j, j = [job EXCEPT !.stage = stage]
    PROVE  /\ JobOK(j) /\ j \in Job /\ j.stage = stage /\ j.attempt = job.attempt
           /\ j.made = job.made /\ j.writing = job.writing /\ j.bound = job.bound
<1>1. job \in Job
    BY DEF Inv, JobOK, Idle
<1> QED
    BY <1>1 DEF Job, JobOK

\* Under the job at work a head is only over a complete tree.
LEMMA WorkHead ==
    ASSUME NEW t, NEW j, Work(t, j), j.stage \in Making \cup Undoing, HasHead(t)
    PROVE  Exact(t)
<1>1. j.stage \in {"inspect", "undo git"}
    BY DEF Work, HasHead, Making, Repository, Undoing
<1>2. CASE j.stage = "inspect"
    <2>1. /\ Tracked \subseteq j.made /\ j.made \subseteq {Top} \cup Tracked
          /\ \A p \in Paths \ {Git} : t[p] = IF p \in j.made THEN "made" ELSE "absent"
        BY <1>2 DEF Work, Making, Repository
    <2> QED
        BY <2>1, ParentAssumption DEF Exact, Paths, Tracked
<1>3. CASE j.stage = "undo git"
    BY <1>3 DEF Work
<1> QED
    BY <1>1, <1>2, <1>3

\* From a failure on, only what was recorded is in the worktree.
LEMMA FailStep ==
    ASSUME Inv, RestOK', NEW a \in Attempts, job.attempt = a,
           job.stage \in {"empty", "fill", "git", "init", "alternates", "index",
                          "detach", "inspect"},
           Fail, UNCHANGED <<tree, marks>>
    PROVE  Inv'
<1>1. PICK j : j = [job EXCEPT !.stage = "undo git"]
    OBVIOUS
<1>2. job.stage \in Making \cup Undoing /\ job.stage # "idle"
    BY DEF Making, Repository
<1>3. /\ JobOK(j) /\ j.stage = "undo git" /\ j.attempt = a
      /\ j.made = job.made /\ j.bound = job.bound
    BY <1>1, <1>2, GoJob DEF Undoing
<1>4. PICK t : t = tree[a]
    OBVIOUS
<1>5. ASSUME Work(t, job) PROVE Work(t, j)
    <2>1. \A p \in Paths \ {Git} : t[p] = "absent" \/ (p \in j.made /\ t[p] = "made")
        BY <1>3, <1>5 DEF Work, Making, Repository
    <2>2. t[Git] = "absent" \/ (j.bound /\ t[Git] \in GitOwn)
        BY <1>3, <1>5 DEF Work, GitOwn
    <2>3. HasHead(t) => Exact(t)
        BY <1>2, <1>5, WorkHead
    <2> QED
        BY <1>3, <1>5, <2>1, <2>2, <2>3 DEF Work, Making, Repository, Undoing
<1>6. j.stage \in Making \cup Undoing
    BY <1>3 DEF Undoing
<1> QED
    BY <1>1, <1>2, <1>3, <1>4, <1>5, <1>6, StayStep DEF Fail, Go

\* A command that ends while its worktree is settled.
LEMMA FinishStep ==
    ASSUME Inv, RestOK', job.stage \notin Making \cup Undoing,
           Finish, UNCHANGED <<tree, marks>>
    PROVE  Inv'
<1>1. PICK j : j = Idle
    OBVIOUS
<1>2. JobOK(j) /\ j.stage \notin Making \cup Undoing
    BY <1>1 DEF JobOK, Idle, Making, Repository, Undoing
<1> QED
    BY <1>1, <1>2, SettledStep DEF Finish

-----------------------------------------------------------------------------
(* The worktree and its entries *)

\* The paths are what they are called.
LEMMA PathsApart ==
    /\ Top \in Paths /\ Git \in Paths /\ Top # Git
    /\ Tracked \subseteq Paths /\ Top \notin Tracked /\ Git \notin Tracked
    /\ Blobs \subseteq Tracked /\ Directories \cup Gitlinks \subseteq Tracked
BY ParentAssumption DEF Paths, Top, Git, Tracked

\* An existing worktree is accepted or refused; a missing one is to be made.
LEMMA AdmitStep ==
    ASSUME Inv, RestOK', NEW a \in Attempts, job.attempt = a, Admit(a)
    PROVE  Inv'
<1>1. job.stage \notin Making \cup Undoing /\ job.stage # "idle"
    BY DEF Admit, At, Making, Repository, Undoing
<1>2. ASSUME NEW stage \in {"make", "confirm"}, Go(stage) PROVE Inv'
    <2>1. PICK j : j = [job EXCEPT !.stage = stage]
        OBVIOUS
    <2>2. JobOK(j) /\ j.stage = stage
        BY <1>1, <2>1, GoJob DEF Stages
    <2>3. j.stage \notin Making \cup Undoing
        BY <2>2 DEF Making, Repository, Undoing
    <2> QED
        BY <1>1, <1>2, <2>1, <2>2, <2>3, SettledStep DEF Go, Admit
<1>3. CASE Finish
    BY <1>1, <1>3, FinishStep DEF Admit
<1> QED
    BY <1>2, <1>3 DEF Admit

\* A missing worktree is empty, so the directory made for it is too.
LEMMA MakeTopStep ==
    ASSUME Inv, RestOK', NEW a \in Attempts, job.attempt = a, MakeTop(a)
    PROVE  Inv'
<1>1. job.stage = "make" /\ job.stage \notin Making \cup Undoing /\ job.stage # "idle"
    BY DEF MakeTop, At, Making, Repository, Undoing
<1>2. CASE Finish /\ UNCHANGED <<tree, marks>>
    BY <1>1, <1>2, FinishStep
<1>3. CASE /\ Missing(a) /\ Set(a, Top, "made")
           /\ marks' = [marks EXCEPT ![a] = {}]
           /\ job' = [job EXCEPT !.stage = "empty", !.made = {Top}]
    <2>1. PICK t, j : /\ t = [tree[a] EXCEPT ![Top] = "made"]
                      /\ j = [job EXCEPT !.stage = "empty", !.made = {Top}]
        OBVIOUS
    <2>2. job \in Job /\ tree[a] \in Tree /\ Gone(tree[a])
        BY <1>1, <1>3, Here DEF Rooted, Missing, Exists
    <2>3. /\ t \in Tree /\ t[Top] = "made"
          /\ \A p \in Paths : p # Top => t[p] = "absent"
        BY <2>1, <2>2, PathsApart DEF Tree, Gone, Entry
    <2>4. /\ j \in Job /\ JobOK(j)
          /\ j.stage = "empty" /\ j.made = {Top} /\ j.attempt = a
        BY <2>1, <2>2, PathsApart DEF Job, JobOK, Stages
    <2>5. Work(t, j)
        BY <2>3, <2>4, PathsApart DEF Work, Making, Repository, Undoing
    <2>6. Rooted(t) /\ {} \in Marks
        BY <2>3 DEF Rooted, Marks
    <2>7. j.stage \in Making /\ Busy(j, a)
        BY <2>4 DEF Making, Busy
    <2>8. Good(a, t, j, {})
        BY <2>3, <2>4, <2>5, <2>6, <2>7 DEF Good, Place
    <2>9. Moves(a, t, j, {})
        BY <1>3, <2>1 DEF Moves, Set, Inv
    <2> QED
        BY <2>8, <2>9, MovesStep
<1> QED
    BY <1>2, <1>3 DEF MakeTop

\* The job at work moves on to another stage and keeps Work.
LEMMA GoStep ==
    ASSUME Inv, RestOK', NEW a \in Attempts, job.attempt = a,
           job.stage \in Making \cup Undoing,
           NEW stage \in Making \cup Undoing, stage # "blob",
           Go(stage), UNCHANGED <<tree, marks>>,
           \A j \in Job : /\ Work(tree[a], job)
                          /\ j.stage = stage /\ j.made = job.made /\ j.bound = job.bound
                          => Work(tree[a], j)
    PROVE  Inv'
<1>1. PICK j : j = [job EXCEPT !.stage = stage]
    OBVIOUS
<1>2. stage \in Stages \cup Undoing /\ job.stage # "idle"
    BY DEF Making, Repository, Stages, Undoing
<1>3. /\ JobOK(j) /\ j \in Job /\ j.stage = stage /\ j.attempt = a
      /\ j.made = job.made /\ j.bound = job.bound
    BY <1>1, <1>2, GoJob
<1> QED
    BY <1>1, <1>3, StayStep DEF Go

\* The new directory is filled only if it is empty.
LEMMA CheckEmptyStep ==
    ASSUME Inv, RestOK', NEW a \in Attempts, job.attempt = a, CheckEmpty(a)
    PROVE  Inv'
<1>1. job.stage = "empty" /\ UNCHANGED <<tree, marks>>
    BY DEF CheckEmpty, At
<1>2. CASE Fail
    BY <1>1, <1>2, FailStep
<1>3. CASE Go("fill")
    <2>1. ASSUME NEW j \in Job, Work(tree[a], job),
                 j.stage = "fill", j.made = job.made, j.bound = job.bound
          PROVE  Work(tree[a], j)
        BY <1>1, <2>1 DEF Work, Making, Repository, Undoing
    <2> QED
        BY <1>1, <1>3, <2>1, GoStep DEF Making
<1> QED
    BY <1>2, <1>3 DEF CheckEmpty

-----------------------------------------------------------------------------
(* Filling the directory *)

\* A directory is made where nothing is, or the materialisation fails.
LEMMA MakeDirectoryStep ==
    ASSUME Inv, RestOK', NEW a \in Attempts, job.attempt = a,
           NEW p \in Tracked, MakeDirectory(a, p)
    PROVE  Inv'
<1>1. job.stage = "fill" /\ p \in Directories \cup Gitlinks /\ p \notin job.made
      /\ UNCHANGED marks
    BY DEF MakeDirectory, At, Turn
<1>2. CASE Fail /\ UNCHANGED tree
    BY <1>1, <1>2, FailStep
<1>3. CASE CanCreate(a, p) /\ Set(a, p, "made") /\ job' = [job EXCEPT !.made = @ \cup {p}]
    <2>1. PICK j : j = [job EXCEPT !.made = @ \cup {p}]
        OBVIOUS
    <2>2. job \in Job
        BY <1>1, Here
    <2>3. /\ JobOK(j) /\ j.stage = "fill" /\ j.attempt = a
          /\ j.made = job.made \cup {p}
        BY <1>1, <2>1, <2>2, PathsApart DEF Job, JobOK
    <2>4. ASSUME NEW t \in Tree, Changed(tree[a], t, p, "made"), Work(tree[a], job)
          PROVE  Work(t, j)
        <3>1. p \in Paths /\ p # Git /\ p # Top
            BY PathsApart
        <3> QED
            BY <1>1, <2>3, <2>4, <3>1, PathsApart
            DEF Work, Changed, Making, Repository, Undoing
    <2>5. p \in Paths /\ p # Top /\ Exists(a, Top) /\ job.stage \in Making /\ j.stage \in Making
        BY <1>1, <1>3, <2>3, PathsApart DEF CanCreate, Holding, Exists, Making
    <2> QED
        BY <1>1, <1>3, <2>1, <2>3, <2>4, <2>5, SetStep DEF Entry
<1> QED
    BY <1>2, <1>3 DEF MakeDirectory

\* A blob is begun where nothing is, or the materialisation fails.
LEMMA BeginBlobStep ==
    ASSUME Inv, RestOK', NEW a \in Attempts, job.attempt = a,
           NEW p \in Tracked, BeginBlob(a, p)
    PROVE  Inv'
<1>1. job.stage = "fill" /\ p \in Blobs /\ p \notin job.made /\ UNCHANGED marks
    BY DEF BeginBlob, At, Turn
<1>2. CASE Fail /\ UNCHANGED tree
    BY <1>1, <1>2, FailStep
<1>3. CASE /\ CanCreate(a, p) /\ Set(a, p, "partial")
           /\ job' = [job EXCEPT !.stage = "blob", !.writing = p]
    <2>1. PICK j : j = [job EXCEPT !.stage = "blob", !.writing = p]
        OBVIOUS
    <2>2. job \in Job
        BY <1>1, Here
    <2>3. /\ JobOK(j) /\ j.stage = "blob" /\ j.attempt = a
          /\ j.made = job.made /\ j.writing = p
        BY <1>1, <2>1, <2>2 DEF Job, JobOK, Stages
    <2>4. ASSUME NEW t \in Tree, Changed(tree[a], t, p, "partial"), Work(tree[a], job)
          PROVE  Work(t, j)
        <3>1. p \in Paths /\ p # Git /\ p # Top
            BY PathsApart
        <3> QED
            BY <1>1, <2>3, <2>4, <3>1, PathsApart
            DEF Work, Changed, Making, Repository, Undoing
    <2>5. p \in Paths /\ p # Top /\ Exists(a, Top) /\ job.stage \in Making /\ j.stage \in Making
        BY <1>1, <1>3, <2>3, PathsApart DEF CanCreate, Holding, Exists, Making
    <2> QED
        BY <1>1, <1>3, <2>1, <2>3, <2>4, <2>5, SetStep DEF Entry
<1> QED
    BY <1>2, <1>3 DEF BeginBlob

\* The blob being written is finished and recorded.
LEMMA EndBlobStep ==
    ASSUME Inv, RestOK', NEW a \in Attempts, job.attempt = a, EndBlob(a)
    PROVE  Inv'
<1>1. PICK p, stage :
         /\ p = job.writing
         /\ stage = IF IsOurs(a, p) THEN "fill" ELSE "undo git"
    OBVIOUS
<1>2. PICK j : j = [job EXCEPT !.made = @ \cup {p}, !.writing = "none", !.stage = stage]
    OBVIOUS
<1>3. /\ job.stage = "blob" /\ UNCHANGED marks /\ job' = j
      /\ IF tree[a][p] = "partial" THEN Set(a, p, "made") ELSE UNCHANGED tree
    BY <1>1, <1>2 DEF EndBlob, At
<1>4. p \in Blobs /\ p \in Paths /\ p # Top /\ p # Git
    BY <1>1, <1>3, Here, PathsApart
<1>5. /\ JobOK(j) /\ j.stage = stage /\ j.attempt = a /\ j.made = job.made \cup {p}
    <2>1. stage \in Stages \cup Undoing /\ stage # "blob" /\ job \in Job
        BY <1>1, <1>3, Here DEF Stages, Undoing
    <2> QED
        BY <1>2, <1>4, <2>1 DEF Job, JobOK
<1>6. j.stage \in Making \cup Undoing /\ job.stage \in Making
    BY <1>1, <1>3, <1>5 DEF Making, Undoing
<1>7. ASSUME Work(tree[a], job) PROVE tree[a][p] = "partial" /\ stage = "fill"
    BY <1>1, <1>3, <1>4, <1>6, <1>7 DEF Work, IsOurs, Holding
<1>8. CASE tree[a][p] = "partial"
    <2>1. ASSUME NEW t \in Tree, Changed(tree[a], t, p, "made"), Work(tree[a], job)
          PROVE  Work(t, j)
        BY <1>1, <1>3, <1>4, <1>5, <1>7, <2>1, PathsApart
        DEF Work, Changed, Making, Repository, Undoing
    <2> QED
        BY <1>3, <1>4, <1>5, <1>6, <1>8, <2>1, SetStep DEF Entry, Exists
<1>9. CASE tree[a][p] # "partial"
    BY <1>3, <1>5, <1>6, <1>7, <1>9, StayStep
<1> QED
    BY <1>8, <1>9

\* A blob that cannot be written takes its own file back.
LEMMA DropBlobStep ==
    ASSUME Inv, RestOK', NEW a \in Attempts, job.attempt = a, DropBlob(a)
    PROVE  Inv'
<1>1. PICK p : p = job.writing
    OBVIOUS
<1>2. PICK j : j = [job EXCEPT !.made = @ \cup {p}, !.writing = "none", !.stage = "undo git"]
    OBVIOUS
<1>3. /\ job.stage = "blob" /\ UNCHANGED marks /\ job' = j
      /\ IF IsOurs(a, p) THEN Set(a, p, "absent") ELSE UNCHANGED tree
    BY <1>1, <1>2 DEF DropBlob, At
<1>4. p \in Paths /\ p # Top /\ p # Git /\ p \in Tracked
    BY <1>1, <1>3, Here, PathsApart
<1>5. /\ JobOK(j) /\ j.stage = "undo git" /\ j.attempt = a /\ j.made = job.made \cup {p}
    <2>1. job \in Job
        BY <1>3, Here
    <2> QED
        BY <1>2, <1>4, <2>1 DEF Job, JobOK, Undoing
<1>6. j.stage \in Making \cup Undoing /\ job.stage \in Making
    BY <1>3, <1>5 DEF Making, Undoing
<1>7. ASSUME Work(tree[a], job) PROVE IsOurs(a, p)
    BY <1>1, <1>3, <1>4, <1>6, <1>7 DEF Work, IsOurs, Holding
<1>8. CASE IsOurs(a, p)
    <2>1. ASSUME NEW t \in Tree, Changed(tree[a], t, p, "absent"), Work(tree[a], job)
          PROVE  Work(t, j)
        <3>1. t[Git] = "absent" /\ t[Top] = "made"
            BY <1>3, <1>4, <2>1, PathsApart DEF Work, Changed
        <3>2. \A q \in Paths \ {Git} : t[q] = "absent" \/ (q \in j.made /\ t[q] = "made")
            BY <1>1, <1>3, <1>4, <1>5, <1>6, <2>1 DEF Work, Changed
        <3> QED
            BY <1>4, <1>5, <2>1, <3>1, <3>2 DEF Work, HasHead, Making, Repository, Undoing
    <2> QED
        BY <1>3, <1>4, <1>5, <1>6, <1>8, <2>1, SetStep DEF Entry
<1>9. CASE ~IsOurs(a, p)
    BY <1>3, <1>5, <1>6, <1>7, <1>9, StayStep
<1> QED
    BY <1>8, <1>9

\* Once everything is there, the repository follows.
LEMMA SettleStep ==
    ASSUME Inv, RestOK', NEW a \in Attempts, job.attempt = a, Settle(a)
    PROVE  Inv'
<1>1. job.stage = "fill" /\ UNCHANGED <<tree, marks>> /\ Tracked \subseteq job.made
    BY DEF Settle, At
<1>2. CASE Fail
    BY <1>1, <1>2, FailStep
<1>3. CASE Go("git")
    <2>1. ASSUME NEW j \in Job, Work(tree[a], job),
                 j.stage = "git", j.made = job.made, j.bound = job.bound
          PROVE  Work(tree[a], j)
        BY <1>1, <2>1 DEF Work, Making, Repository, Undoing
    <2> QED
        BY <1>1, <1>3, <2>1, GoStep DEF Making, Repository
<1> QED
    BY <1>2, <1>3 DEF Settle

-----------------------------------------------------------------------------
(* The repository *)

\* A repository that is there already ends the materialisation.
LEMMA CheckGitStep ==
    ASSUME Inv, RestOK', NEW a \in Attempts, job.attempt = a, CheckGit(a)
    PROVE  Inv'
<1>1. job.stage = "git" /\ UNCHANGED <<tree, marks>>
    BY DEF CheckGit, At
<1>2. CASE Fail
    BY <1>1, <1>2, FailStep
<1>3. CASE Go("init")
    <2>1. ASSUME NEW j \in Job, Work(tree[a], job),
                 j.stage = "init", j.made = job.made, j.bound = job.bound
          PROVE  Work(tree[a], j)
        BY <1>1, <2>1 DEF Work, Making, Repository, Undoing
    <2> QED
        BY <1>1, <1>3, <2>1, GoStep DEF Making, Repository
<1> QED
    BY <1>2, <1>3 DEF CheckGit

\* git init begins with a repository that nobody can open.
LEMMA BeginInitStep ==
    ASSUME Inv, RestOK', NEW a \in Attempts, job.attempt = a, BeginInit(a)
    PROVE  Inv'
<1>1. job.stage = "init" /\ UNCHANGED marks
    BY DEF BeginInit, At
<1>2. CASE Fail /\ UNCHANGED tree
    BY <1>1, <1>2, FailStep
<1>3. CASE Exists(a, Top) /\ Set(a, Git, "half") /\ Go("initialising")
    <2>1. PICK j : j = [job EXCEPT !.stage = "initialising"]
        OBVIOUS
    <2>2. /\ JobOK(j) /\ j.stage = "initialising" /\ j.attempt = a
          /\ j.made = job.made /\ j.bound = job.bound
        BY <1>1, <2>1, GoJob DEF Stages
    <2>3. ASSUME NEW t \in Tree, Changed(tree[a], t, Git, "half"), Work(tree[a], job)
          PROVE  Work(t, j)
        BY <1>1, <2>2, <2>3, PathsApart DEF Work, Changed, Making, Repository, Undoing
    <2>4. job.stage \in Making /\ j.stage \in Making /\ "half" \in GitOwn
        BY <1>1, <2>2 DEF Making, Repository, GitOwn
    <2> QED
        BY <1>1, <1>3, <2>1, <2>2, <2>3, <2>4, PathsApart, SetStep DEF Go
<1> QED
    BY <1>2, <1>3 DEF BeginInit

\* What git init leaves is bound, and usable only if it succeeded.
LEMMA EndInitStep ==
    ASSUME Inv, RestOK', NEW a \in Attempts, job.attempt = a,
           NEW succeeds \in BOOLEAN, EndInit(a, succeeds)
    PROVE  Inv'
<1>1. PICK bound, stage :
         /\ bound = (Holding(a) /\ Exists(a, Git)) /\ bound \in BOOLEAN
         /\ stage = IF succeeds /\ bound THEN "alternates" ELSE "undo git"
    OBVIOUS
<1>2. /\ job.stage = "initialising" /\ UNCHANGED marks
      /\ job' = [job EXCEPT !.bound = bound, !.stage = stage]
      /\ IF succeeds /\ Exists(a, Git) THEN Set(a, Git, "init") ELSE UNCHANGED tree
    BY <1>1 DEF EndInit, At
<1>3. /\ job.stage \in Making /\ stage \in Making \cup Undoing /\ stage # "blob"
      /\ job.stage # "idle" /\ stage \in Stages \cup Undoing
    BY <1>1, <1>2 DEF Making, Repository, Undoing, Stages
<1>4. ASSUME Work(tree[a], job) PROVE bound /\ Exists(a, Git)
    BY <1>1, <1>2, <1>4, PathsApart DEF Work, Holding, Exists
<1>5. PICK j : j = [job EXCEPT !.bound = bound, !.stage = stage]
    OBVIOUS
<1>6. job \in Job
    BY <1>3, Here
<1>7. /\ JobOK(j) /\ j \in Job /\ j.stage = stage /\ j.attempt = a
      /\ j.made = job.made /\ j.bound = bound
    BY <1>1, <1>3, <1>5, <1>6 DEF Job, JobOK
<1>8. CASE succeeds /\ Exists(a, Git)
    <2>1. ASSUME NEW t \in Tree, Changed(tree[a], t, Git, "init"), Work(tree[a], job)
          PROVE  Work(t, j)
        <3>1. stage = "alternates" /\ bound
            BY <1>1, <1>4, <1>8, <2>1
        <3> QED
            BY <1>2, <1>7, <2>1, <3>1, PathsApart
            DEF Work, Changed, Making, Repository, Undoing
    <2>2. "init" \in GitOwn
        BY DEF GitOwn
    <2> QED
        BY <1>2, <1>3, <1>5, <1>7, <1>8, <2>1, <2>2, PathsApart, SetStep
<1>9. CASE ~(succeeds /\ Exists(a, Git))
    <2>1. ASSUME Work(tree[a], job) PROVE Work(tree[a], j)
        <3>1. stage = "undo git" /\ bound
            BY <1>1, <1>4, <1>9, <2>1
        <3>2. tree[a][Git] = "half"
            BY <1>2, <2>1 DEF Work
        <3> QED
            BY <1>2, <1>7, <2>1, <3>1, <3>2, PathsApart
            DEF Work, HasHead, GitOwn, Making, Repository, Undoing
    <2> QED
        BY <1>2, <1>3, <1>5, <1>7, <1>9, <2>1, StayStep
<1> QED
    BY <1>8, <1>9

\* Each step of git takes the repository from the state it expects to the next.
LEMMA AdvanceStep ==
    ASSUME Inv, RestOK', NEW a \in Attempts, job.attempt = a,
           WriteAlternates(a) \/ ReadTree(a) \/ DetachHead(a)
    PROVE  Inv'
<1>1. ASSUME NEW stage \in {"alternates", "index", "detach"},
             NEW from \in GitOwn, NEW to \in GitOwn,
             NEW next \in {"index", "detach", "inspect"},
             Advance(a, stage, from, to, next),
             \/ stage = "alternates" /\ to = "alternates" /\ next = "index"
             \/ stage = "index" /\ to = "indexed" /\ next = "detach"
             \/ stage = "detach" /\ to = "detached" /\ next = "inspect"
      PROVE  Inv'
    <2>1. job.stage = stage /\ UNCHANGED marks
        BY <1>1 DEF Advance, At
    <2>2. CASE Fail /\ UNCHANGED tree
        BY <2>1, <2>2, FailStep
    <2>3. CASE tree[a][Git] = from /\ Set(a, Git, to) /\ Go(next)
        <3>1. PICK j : j = [job EXCEPT !.stage = next]
            OBVIOUS
        <3>2. /\ job.stage \in Making /\ next \in Making /\ next # "blob"
              /\ job.stage # "idle" /\ Exists(a, Git) /\ next \in Stages
            BY <1>1, <2>1, <2>3 DEF Making, Repository, Exists, GitOwn, Stages
        <3>3. /\ JobOK(j) /\ j.stage = next /\ j.attempt = a
              /\ j.made = job.made /\ j.bound = job.bound
            BY <3>1, <3>2, GoJob
        <3>4. ASSUME NEW t \in Tree, Changed(tree[a], t, Git, to), Work(tree[a], job)
              PROVE  Work(t, j)
            <4>1. CASE stage = "alternates" /\ to = "alternates" /\ next = "index"
                BY <2>1, <3>3, <3>4, <4>1, PathsApart
                DEF Work, Changed, Making, Repository, Undoing
            <4>2. CASE stage = "index" /\ to = "indexed" /\ next = "detach"
                BY <2>1, <3>3, <3>4, <4>2, PathsApart
                DEF Work, Changed, Making, Repository, Undoing
            <4>3. CASE stage = "detach" /\ to = "detached" /\ next = "inspect"
                BY <2>1, <3>3, <3>4, <4>3, PathsApart
                DEF Work, Changed, Making, Repository, Undoing
            <4> QED
                BY <1>1, <4>1, <4>2, <4>3
        <3>5. /\ job' = j /\ Set(a, Git, to) /\ to \in Entry \cup GitOwn
              /\ job.stage \in Making \cup Undoing /\ j.stage \in Making \cup Undoing
            BY <1>1, <2>3, <3>1, <3>2, <3>3 DEF Go
        <3> QED
            BY <2>1, <3>2, <3>3, <3>4, <3>5, PathsApart, SetStep
    <2> QED
        BY <1>1, <2>2, <2>3 DEF Advance
<1> QED
    BY <1>1 DEF WriteAlternates, ReadTree, DetachHead, GitOwn

\* A worktree that is found complete counts as settled.
LEMMA InspectStep ==
    ASSUME Inv, RestOK', NEW a \in Attempts, job.attempt = a, Inspect(a)
    PROVE  Inv'
<1>1. job.stage = "inspect" /\ UNCHANGED <<tree, marks>>
    BY DEF Inspect, At
<1>2. CASE Fail
    BY <1>1, <1>2, FailStep
<1>3. CASE AtBase(a) /\ Go("confirm")
    <2>1. PICK t, m, j : t = tree[a] /\ m = marks[a] /\ j = [job EXCEPT !.stage = "confirm"]
        OBVIOUS
    <2>2. JobOK(j) /\ j.stage = "confirm"
        BY <1>1, <2>1, GoJob DEF Stages
    <2>3. job.stage # "idle" /\ Busy(job, a) /\ ~Busy(j, a)
          /\ j.stage \notin Making \cup Undoing
        BY <1>1, <2>2 DEF Making, Repository, Undoing, Busy
    <2>4. t \in Tree /\ Rooted(t) /\ m \in Marks /\ Place(a, t, job, m)
        BY <2>1, <2>3, Here
    <2>5. ASSUME Calm(m) PROVE Settled(t, m)
        <3>1. t[Git] = "detached"
            BY <1>1, <2>3, <2>4, <2>5 DEF Place, Work
        <3>2. Exact(t)
            BY <1>3, <2>1 DEF AtBase, ExactTree, Exact, Exists, SameBytes
        <3> QED
            BY <3>1, <3>2 DEF Settled
    <2>6. Good(a, t, j, m)
        BY <2>2, <2>3, <2>4, <2>5 DEF Good, Place
    <2>7. Moves(a, t, j, m)
        BY <1>1, <1>3, <2>1 DEF Moves, Go, Inv
    <2> QED
        BY <2>6, <2>7, MovesStep
<1> QED
    BY <1>2, <1>3 DEF Inspect

\* A materialised worktree is inspected once more, and nothing taken back.
LEMMA ConfirmStep ==
    ASSUME Inv, RestOK', NEW a \in Attempts, job.attempt = a, Confirm(a)
    PROVE  Inv'
<1>1. job.stage = "confirm" /\ UNCHANGED <<tree, marks>>
    BY DEF Confirm, At
<1>2. job.stage \notin Making \cup Undoing /\ job \in Job
    BY <1>1, Here DEF Making, Repository, Undoing
<1>3. CASE Finish
    BY <1>1, <1>2, <1>3, FinishStep
<1>4. CASE job' = [Idle EXCEPT !.command = "recover", !.stage = "next", !.queue = job.queue]
    <2>1. PICK j : j = [Idle EXCEPT !.command = "recover", !.stage = "next", !.queue = job.queue]
        OBVIOUS
    <2>2. JobOK(j) /\ j.stage = "next"
        BY <1>2, <2>1 DEF Job, JobOK, Idle, Stages
    <2>3. j.stage \notin Making \cup Undoing
        BY <2>2 DEF Making, Repository, Undoing
    <2> QED
        BY <1>1, <1>2, <1>4, <2>1, <2>2, <2>3, SettledStep
<1> QED
    BY <1>3, <1>4 DEF Confirm

-----------------------------------------------------------------------------
(* Rollback *)

\* The bound repository is emptied in any order and goes before the files.
LEMMA UndoGitStep ==
    ASSUME Inv, RestOK', NEW a \in Attempts, job.attempt = a, UndoGit(a)
    PROVE  Inv'
<1>1. job.stage = "undo git" /\ job.stage \in Undoing /\ UNCHANGED marks
      /\ job.stage # "idle"
    BY DEF UndoGit, At, Undoing
<1>2. JobOK(job)
    BY DEF Inv
<1>3. PICK j : j = [job EXCEPT !.stage = "undo entries"]
    OBVIOUS
<1>4. /\ JobOK(j) /\ j.stage = "undo entries" /\ j.attempt = a /\ j.stage \in Undoing
      /\ j.made = job.made /\ j.bound = job.bound
    BY <1>1, <1>3, GoJob DEF Undoing
<1>5. ASSUME BoundGit(a), NEW v \in {"half", "advanced"}, Set(a, Git, v), job' = job,
             v = "advanced" => tree[a][Git] = "detached"
      PROVE  Inv'
    <2>1. PICK i : i = job
        OBVIOUS
    <2>2. ASSUME NEW t \in Tree, Changed(tree[a], t, Git, v), Work(tree[a], job)
          PROVE  Work(t, i)
        <3>1. job.bound /\ t[Git] \in GitOwn
            BY <1>5, <2>2 DEF BoundGit, Changed, GitOwn
        <3>2. ASSUME HasHead(t) PROVE Exact(t)
            <4>1. HasHead(tree[a])
                BY <1>5, <2>2, <3>2 DEF Changed, HasHead
            <4>2. Exact(tree[a])
                BY <1>1, <2>2, <4>1, WorkHead
            <4>3. \A q \in Tracked \cup Strays : t[q] = tree[a][q]
                BY <2>2, ParentAssumption DEF Changed, Paths
            <4> QED
                BY <4>2, <4>3 DEF Exact, Tracked
        <3>3. \A q \in Paths \ {Git} : t[q] = tree[a][q]
            BY <2>2 DEF Changed
        <3> QED
            BY <1>1, <2>1, <2>2, <3>1, <3>2, <3>3, PathsApart
            DEF Work, Making, Repository, Undoing
    <2>3. Exists(a, Git) /\ v \in Entry \cup GitOwn
        BY <1>5 DEF BoundGit, Exists, GitOwn
    <2> QED
        BY <1>1, <1>2, <1>5, <2>1, <2>2, <2>3, PathsApart, SetStep
<1>6. CASE DiscardGit(a)
    <2>1. ASSUME NEW t \in Tree, Changed(tree[a], t, Git, "absent"), Work(tree[a], job)
          PROVE  Work(t, j)
        BY <1>1, <1>4, <2>1, PathsApart DEF Work, Changed, Making, Repository, Undoing
    <2> QED
        BY <1>1, <1>3, <1>4, <1>6, <2>1, PathsApart, SetStep DEF DiscardGit, Go, Entry
<1>7. CASE ~BoundGit(a) /\ Go("undo entries") /\ UNCHANGED tree
    <2>1. ASSUME Work(tree[a], job) PROVE Work(tree[a], j)
        <3>1. tree[a][Git] = "absent"
            BY <1>1, <1>7, <2>1 DEF Work, BoundGit, Holding
        <3> QED
            BY <1>1, <1>4, <2>1, <3>1 DEF Work, Making, Repository, Undoing
    <2> QED
        BY <1>1, <1>3, <1>4, <1>7, <2>1, StayStep DEF Go
<1>8. CASE BoundGit(a) /\ EmptyGit(a)
    BY <1>5, <1>8 DEF EmptyGit
<1> QED
    BY <1>6, <1>7, <1>8 DEF UndoGit

\* A recorded entry is taken back, or was not there.
LEMMA UndoEntryStep ==
    ASSUME Inv, RestOK', NEW a \in Attempts, job.attempt = a,
           NEW p \in Tracked, UndoEntry(a, p)
    PROVE  Inv'
<1>1. /\ job.stage = "undo entries" /\ job.stage \in Undoing /\ UNCHANGED marks
      /\ Below(p) \cap job.made = {} /\ TakeBack(a, p)
    BY DEF UndoEntry, At, Undoing
<1>2. PICK j : j = [job EXCEPT !.made = @ \ {p}]
    OBVIOUS
<1>3. job \in Job
    BY <1>1, Here
<1>4. /\ JobOK(j) /\ j.stage = "undo entries" /\ j.attempt = a /\ job' = j
      /\ j.made = job.made \ {p} /\ j.bound = job.bound
    BY <1>1, <1>2, <1>3 DEF Job, JobOK, UndoEntry
<1>5. p \in Paths /\ p # Top /\ p # Git
    BY PathsApart
<1>6. ASSUME Work(tree[a], job), tree[a][p] # "absent" PROVE Removable(a, p)
    <2>1. \A q \in Paths \ {Git} : tree[a][q] = "absent" \/ q \in job.made
        BY <1>1, <1>6 DEF Work
    <2>2. tree[a][p] = "made" /\ Holding(a)
        BY <1>1, <1>5, <1>6 DEF Work, Holding
    <2>3. \A q \in Below(p) : q \in Paths \ {Git}
        BY <1>5 DEF Below, ParentOf
    <2> QED
        BY <1>1, <2>1, <2>2, <2>3 DEF Removable, IsOurs, Empty, Exists
<1>7. CASE Removable(a, p)
    <2>1. ASSUME NEW t \in Tree, Changed(tree[a], t, p, "absent"), Work(tree[a], job)
          PROVE  Work(t, j)
        BY <1>1, <1>4, <1>5, <2>1, PathsApart DEF Work, Changed, Making, Repository, Undoing
    <2>2. Set(a, p, "absent")
        BY <1>1, <1>7 DEF TakeBack
    <2> QED
        BY <1>1, <1>4, <1>5, <2>1, <2>2, SetStep DEF Entry
<1>8. CASE ~Removable(a, p)
    <2>1. ASSUME Work(tree[a], job) PROVE Work(tree[a], j)
        <3>1. tree[a][p] = "absent"
            BY <1>6, <1>8, <2>1
        <3> QED
            BY <1>1, <1>4, <1>5, <2>1, <3>1, PathsApart
            DEF Work, Making, Repository, Undoing
    <2>2. UNCHANGED tree
        BY <1>1, <1>8 DEF TakeBack
    <2> QED
        BY <1>1, <1>4, <2>1, <2>2, StayStep
<1> QED
    BY <1>7, <1>8

\* The directory goes last, when nothing is left in it.
LEMMA UndoTopStep ==
    ASSUME Inv, RestOK', NEW a \in Attempts, job.attempt = a, UndoTop(a)
    PROVE  Inv'
<1>1. job.stage \in {"undo entries", "undo top"} /\ job.stage \in Undoing /\ UNCHANGED marks
    BY DEF UndoTop, At, Undoing
<1>2. CASE /\ At("undo entries") /\ job.made \subseteq {Top}
           /\ Go("undo top") /\ UNCHANGED tree
    <2>1. ASSUME NEW j \in Job, Work(tree[a], job),
                 j.stage = "undo top", j.made = job.made, j.bound = job.bound
          PROVE  Work(tree[a], j)
        BY <1>2, <2>1 DEF At, Work, Making, Repository, Undoing
    <2> QED
        BY <1>1, <1>2, <2>1, GoStep DEF Undoing
<1>3. CASE /\ At("undo top") /\ Finish
           /\ IF Top \in job.made THEN TakeBack(a, Top) ELSE UNCHANGED tree
    <2>1. PICK t, m, j :
             /\ t = IF Top \in job.made /\ Removable(a, Top)
                    THEN [tree[a] EXCEPT ![Top] = "absent"] ELSE tree[a]
             /\ m = marks[a] /\ j = Idle
        OBVIOUS
    <2>2. job.stage # "idle" /\ Busy(job, a) /\ ~Busy(j, a)
          /\ j.stage \notin Making \cup Undoing /\ JobOK(j)
        BY <1>1, <2>1 DEF Making, Repository, Undoing, Busy, Idle, JobOK
    <2>3. /\ tree[a] \in Tree /\ Rooted(tree[a]) /\ m \in Marks
          /\ Place(a, tree[a], job, m)
        BY <2>1, <2>2, Here
    <2>4. t \in Tree
        BY <2>1, <2>3 DEF Tree, Entry
    <2>5. ASSUME Removable(a, Top), Top \in job.made PROVE Gone(t)
        BY <2>1, <2>3, <2>5 DEF Gone, Removable, Empty, Below, Exists, Tree
    <2>6. Rooted(t)
        BY <2>1, <2>3, <2>5 DEF Rooted
    <2>7. ASSUME Calm(m) PROVE Gone(t)
        <3>1. Work(tree[a], job)
            BY <2>2, <2>3, <2>7 DEF Place
        <3>2. job.made = {Top} /\ tree[a][Git] = "absent"
              /\ \A p \in Paths \ {Git} : tree[a][p] = "absent" \/ p \in job.made
            BY <1>1, <1>3, <3>1 DEF At, Work, Undoing
        <3>3. IsOurs(a, Top) /\ Empty(a, Top)
            BY <3>1, <3>2 DEF Work, IsOurs, Holding, Empty, Below, Exists
        <3> QED
            BY <2>5, <3>2, <3>3 DEF Removable
    <2>8. Place(a, t, j, m)
        BY <2>2, <2>7, PathsApart DEF Place, Settled, Gone, HasHead
    <2>9. Good(a, t, j, m)
        BY <2>2, <2>3, <2>4, <2>6, <2>8 DEF Good
    <2>10. Moves(a, t, j, m)
        BY <1>1, <1>3, <2>1 DEF Moves, Finish, TakeBack, Set, Inv
    <2> QED
        BY <1>1, <2>9, <2>10, MovesStep
<1> QED
    BY <1>2, <1>3 DEF UndoTop

\* A removal that fails is noted in the marks.
LEMMA RemovalFailsStep ==
    ASSUME Inv, RestOK', NEW a \in Attempts, job.attempt = a, RemovalFails(a)
    PROVE  Inv'
<1>1. job.stage \in Undoing /\ job.stage # "idle"
    BY DEF RemovalFails, At, Undoing
<1>2. PICK t, m, j : t = tree[a] /\ m = marks[a] \cup {"unremoved"} /\ j = job'
    OBVIOUS
<1>3. job \in Job /\ t \in Tree /\ Rooted(t) /\ marks[a] \in Marks
    BY <1>1, <1>2, Here
<1>4. JobOK(j) /\ (j.stage \in Making \cup Undoing => j.attempt = a)
    <2>1. CASE Go("undo entries")
        BY <1>1, <1>2, <2>1, GoJob DEF Go, Undoing
    <2>2. CASE Finish
        BY <1>2, <2>2 DEF Finish, JobOK, Idle, Making, Repository, Undoing
    <2>3. ASSUME NEW p, job.stage = "undo entries", job' = [job EXCEPT !.made = @ \ {p}]
          PROVE  JobOK(j) /\ j.attempt = a
        BY <1>2, <1>3, <2>3 DEF Job, JobOK
    <2> QED
        BY <2>1, <2>2, <2>3 DEF RemovalFails, At
<1>5. m \in Marks /\ ~Calm(m)
    BY <1>2, <1>3 DEF Marks, Calm
<1>6. Good(a, t, j, m)
    BY <1>3, <1>4, <1>5 DEF Good, Place
<1>7. Moves(a, t, j, m)
    BY <1>2 DEF Moves, RemovalFails, Inv
<1> QED
    BY <1>6, <1>7, MovesStep

-----------------------------------------------------------------------------
(* Commands, faults and users *)

\* An operation of the materialisation fails.
LEMMA OperationFailsStep ==
    ASSUME Inv, RestOK', NEW a \in Attempts, job.attempt = a, OperationFails(a)
    PROVE  Inv'
<1>1. CASE /\ job.stage \in {"empty", "fill", "git", "init", "alternates", "index",
                             "detach", "inspect"}
           /\ Fail /\ UNCHANGED <<tree, marks>>
    BY <1>1, FailStep
<1>2. CASE job.stage \in {"admit", "make", "confirm"} /\ Finish /\ UNCHANGED <<tree, marks>>
    BY <1>2, FinishStep DEF Making, Repository, Undoing
<1>3. CASE DropBlob(a)
    BY <1>3, DropBlobStep
<1>4. CASE EndInit(a, FALSE)
    BY <1>4, EndInitStep
<1>5. CASE RemovalFails(a)
    BY <1>5, RemovalFailsStep
<1> QED
    BY <1>1, <1>2, <1>3, <1>4, <1>5 DEF OperationFails

\* What recover does between two worktrees leaves them settled.
LEMMA RecoverySteps ==
    ASSUME Inv, RestOK', UNCHANGED <<tree, marks>>,
           \/ Reconcile \/ \E a \in Attempts : Survey(a)
           \/ ResumeIntegration \/ Recover \/ \E a \in Attempts : Start(a)
    PROVE  Inv'
<1>1. job.stage \in {"survey", "next", "idle"}
    <2>1. ASSUME job = Idle PROVE job.stage = "idle"
        BY <2>1 DEF Idle
    <2>2. ASSUME Reconcile PROVE job.stage \in {"survey", "next"}
        BY <2>2 DEF Reconcile, At
    <2>3. ASSUME NEW a \in Attempts, Survey(a) PROVE job.stage = "survey"
        BY <2>3 DEF Survey, At
    <2>4. ASSUME ResumeIntegration PROVE job.stage = "next"
        BY <2>4 DEF ResumeIntegration, At
    <2> QED
        BY <2>1, <2>2, <2>3, <2>4 DEF Recover, Start
<1>2. Surveyed \subseteq Attempts /\ (job.stage # "idle" => job \in Job)
    BY DEF Inv, Surveyed, JobOK, Idle
<1>3. JobOK(job') /\ job'.stage \in {"survey", "next", "idle", "admit"}
    <2>1. ASSUME Finish PROVE JobOK(job') /\ job'.stage = "idle"
        BY <2>1 DEF Finish, JobOK, Idle
    <2>2. ASSUME NEW a \in Attempts, Survey(a), ~Finish
          PROVE  JobOK(job') /\ job'.stage = "survey"
        <3>1. job.stage = "survey"
            BY <2>2 DEF Survey, At
        <3>2. job \in Job
            BY <1>2, <3>1
        <3>3. \/ job' = [job EXCEPT !.survey = @ \ {a}, !.queue = @ \cup {a}]
              \/ job' = [job EXCEPT !.survey = @ \ {a}]
            BY <2>2 DEF Survey
        <3>4. job.survey \ {a} \subseteq Attempts /\ job.queue \cup {a} \subseteq Attempts
            BY <2>2, <3>2 DEF Job
        <3>5. CASE job' = [job EXCEPT !.survey = @ \ {a}, !.queue = @ \cup {a}]
            <4>1. job' \in Job /\ job'.stage = job.stage
                BY <3>2, <3>4, <3>5 DEF Job
            <4> QED
                BY <3>1, <4>1 DEF JobOK
        <3>6. CASE job' = [job EXCEPT !.survey = @ \ {a}]
            <4>1. job' \in Job /\ job'.stage = job.stage
                BY <3>2, <3>4, <3>6 DEF Job
            <4> QED
                BY <3>1, <4>1 DEF JobOK
        <3> QED
            BY <3>3, <3>5, <3>6
    <2>3. ASSUME Reconcile PROVE JobOK(job') /\ job'.stage \in {"next", "admit"}
        <3>1. job.stage \in {"survey", "next"}
            BY <2>3 DEF Reconcile, At
        <3>2. job \in Job
            BY <1>2, <3>1
        <3>3. CASE Go("next")
            BY <3>1, <3>2, <3>3 DEF Go, Job, JobOK, Stages
        <3>4. ASSUME NEW a \in job.queue,
                     job' = [Idle EXCEPT !.command = "recover", !.stage = "admit",
                                         !.attempt = a, !.queue = job.queue \ {a}]
              PROVE  JobOK(job') /\ job'.stage = "admit"
            <4>1. job.queue \subseteq Attempts
                BY <3>2 DEF Job
            <4>2. job' = [command |-> "recover", attempt |-> a, stage |-> "admit", made |-> {},
                          writing |-> "none", bound |-> FALSE, survey |-> {},
                          queue |-> job.queue \ {a}]
                BY <3>4 DEF Idle
            <4> QED
                BY <4>1, <4>2 DEF Job, JobOK, Stages
        <3> QED
            BY <2>3, <3>3, <3>4 DEF Reconcile
    <2>4. CASE Recover
        BY <1>2, <2>4 DEF Recover, Idle, Job, JobOK, Stages
    <2>5. CASE \E a \in Attempts : Start(a)
        BY <2>5 DEF Start, Idle, Job, JobOK, Stages
    <2> QED
        BY <2>1, <2>2, <2>3, <2>4, <2>5 DEF ResumeIntegration
<1>4. PICK j : j = job'
    OBVIOUS
<1>5. job.stage \notin Making \cup Undoing /\ j.stage \notin Making \cup Undoing
    BY <1>1, <1>3, <1>4 DEF Making, Repository, Undoing
<1> QED
    BY <1>3, <1>4, <1>5, SettledStep

\* A command that ends at any step leaves no head over an incomplete tree, and
\* its worktree marked as crashed.
LEMMA CrashStep ==
    ASSUME Inv, RestOK', Crash
    PROVE  Inv'
<1>1. /\ job' = Idle /\ UNCHANGED tree
      /\ marks' = [a \in Attempts |-> IF a = job.attempt THEN marks[a] \cup {"crashed"}
                                                         ELSE marks[a]]
    BY DEF Crash, Finish
<1>2. marks' \in [Attempts -> Marks] /\ JobOK(job')
    BY <1>1 DEF Inv, Marks, JobOK
<1>3. ASSUME NEW a \in Attempts PROVE Rooted(tree[a]) /\ Place(a, tree[a], job', marks'[a])
    <2>1. Rooted(tree[a]) /\ Place(a, tree[a], job, marks[a]) /\ marks[a] \in Marks
        BY DEF Inv
    <2>2. ~Busy(job', a)
        BY <1>1 DEF Busy, Idle, Making, Repository, Undoing
    <2>3. CASE a = job.attempt
        <3>1. marks'[a] # {} /\ (Calm(marks'[a]) => Calm(marks[a]))
            BY <1>1, <2>3 DEF Calm
        <3>2. ASSUME Calm(marks[a]), HasHead(tree[a]) PROVE Exact(tree[a])
            <4>1. CASE Busy(job, a)
                BY <2>1, <3>2, <4>1, WorkHead DEF Place, Busy
            <4>2. CASE ~Busy(job, a)
                BY <2>1, <3>2, <4>2 DEF Place, Settled
            <4> QED
                BY <4>1, <4>2
        <3> QED
            BY <2>1, <2>2, <3>1, <3>2 DEF Place, Settled
    <2>4. CASE a # job.attempt
        <3>1. marks'[a] = marks[a] /\ ~Busy(job, a)
            BY <1>1, <2>4 DEF Busy
        <3> QED
            BY <2>1, <2>2, <3>1 DEF Place
    <2> QED
        BY <2>3, <2>4
<1> QED
    BY <1>1, <1>2, <1>3 DEF Inv

\* Users change one worktree, which is marked as touched.
LEMMA TouchStep ==
    ASSUME Inv, RestOK', NEW a \in Attempts, Touch(a)
    PROVE  Inv'
<1>1. tree[a] \in Tree /\ Rooted(tree[a]) /\ JobOK(job)
    BY DEF Inv
<1>2. PICK t \in Tree : Rooted(t) /\ tree' = [tree EXCEPT ![a] = t]
    <2>1. ASSUME NEW p \in Paths, NEW v \in Entry \cup GitOwn, p = Git \/ v \in Entry,
                 p # Top => Exists(a, Top) \/ Exists(a, p), v # "absent", Set(a, p, v)
          PROVE  \E t \in Tree : Rooted(t) /\ tree' = [tree EXCEPT ![a] = t]
        <3>1. PICK t : t = [tree[a] EXCEPT ![p] = v]
            OBVIOUS
        <3>2. t \in Tree
            BY <1>1, <2>1, <3>1 DEF Tree
        <3>3. Rooted(t)
            BY <1>1, <2>1, <3>1, PathsApart DEF Tree, Rooted, Gone, Exists
        <3>4. tree' = [tree EXCEPT ![a] = t]
            BY <2>1, <3>1 DEF Set, Inv
        <3> QED
            BY <3>2, <3>3, <3>4
    <2>2. CASE \E p \in Paths : /\ ~Exists(a, p)
                                /\ p # Top => Exists(a, ParentOf(p))
                                /\ Set(a, p, "foreign")
        <3>1. PICK p \in Paths : /\ p # Top => Exists(a, ParentOf(p))
                                 /\ Set(a, p, "foreign")
            BY <2>2
        <3>2. p # Top => ParentOf(p) \in Paths
            BY ParentAssumption, PathsApart DEF ParentOf, Paths, Tracked
        <3>3. p # Top => Exists(a, Top)
            BY <1>1, <3>1, <3>2 DEF Rooted, Gone, Exists
        <3> QED
            BY <2>1, <3>1, <3>3 DEF Entry
    <2>3. CASE \E p \in Paths : /\ Exists(a, p)
                                /\ tree' = [tree EXCEPT ![a] = [q \in Paths |->
                                      IF q \in {p} \cup Below(p) THEN "absent" ELSE @[q]]]
        <3>1. PICK p \in Paths : tree' = [tree EXCEPT ![a] = [q \in Paths |->
                                      IF q \in {p} \cup Below(p) THEN "absent" ELSE @[q]]]
            BY <2>3
        <3>2. PICK t : t = [q \in Paths |->
                               IF q \in {p} \cup Below(p) THEN "absent" ELSE tree[a][q]]
            OBVIOUS
        <3>3. t \in Tree
            BY <1>1, <3>2 DEF Tree, Entry
        <3>4. Rooted(t)
            <4>1. p = Top \/ Top \notin {p} \cup Below(p)
                BY DEF Below
            <4> QED
                BY <1>1, <3>2, <4>1, PathsApart DEF Rooted, Gone, Below
        <3>5. tree' = [tree EXCEPT ![a] = t]
            BY <3>1, <3>2 DEF Inv
        <3> QED
            BY <3>3, <3>4, <3>5
    <2>4. CASE \E b \in Blobs, v \in {"edited", "foreign"} :
                  tree[a][b] \in {"made", "partial"} /\ Set(a, b, v)
        BY <2>1, <2>4, PathsApart DEF Exists, Entry
    <2>5. CASE tree[a][Git] = "detached" /\ Set(a, Git, "advanced")
        BY <2>1, <2>5, PathsApart DEF Exists, GitOwn
    <2> QED
        BY <2>2, <2>3, <2>4, <2>5 DEF Touch
<1>3. marks' = [marks EXCEPT ![a] = @ \cup {"touched"}] /\ job' = job
    BY DEF Touch
<1>4. marks' \in [Attempts -> Marks] /\ tree' \in [Attempts -> Tree]
    BY <1>2, <1>3 DEF Inv, Marks
<1>5. ASSUME NEW b \in Attempts PROVE Rooted(tree'[b]) /\ Place(b, tree'[b], job', marks'[b])
    <2>1. Rooted(tree[b]) /\ Place(b, tree[b], job, marks[b])
        BY DEF Inv
    <2>2. CASE b = a
        <3>1. Rooted(tree'[b]) /\ ~Calm(marks'[b])
            BY <1>2, <1>3, <2>2 DEF Calm, Inv
        <3> QED
            BY <3>1 DEF Place
    <2>3. CASE b # a
        BY <1>2, <1>3, <2>1, <2>3 DEF Inv
    <2> QED
        BY <2>2, <2>3
<1> QED
    BY <1>1, <1>3, <1>4, <1>5 DEF Inv

\* The phases, the pending integration and the bounds have their types.
LEMMA RestStep ==
    ASSUME Inv, [Next]_vars
    PROVE  RestOK'
<1> USE BoundAssumption
<1>1. RestOK
    BY DEF Inv
<1>2. ASSUME NEW what \in {"touches", "crashes", "faults", "intents"}, Spend(what)
      PROVE  budget' \in [touches : 0 .. MaxTouches, crashes : 0 .. MaxCrashes,
                          faults : 0 .. MaxFaults, intents : 0 .. MaxIntents]
    <2>1. CASE what = "touches"
        BY <1>1, <1>2, <2>1 DEF RestOK, Spend
    <2>2. CASE what = "crashes"
        BY <1>1, <1>2, <2>2 DEF RestOK, Spend
    <2>3. CASE what = "faults"
        BY <1>1, <1>2, <2>3 DEF RestOK, Spend
    <2>4. CASE what = "intents"
        BY <1>1, <1>2, <2>4 DEF RestOK, Spend
    <2> QED
        BY <1>2, <2>1, <2>2, <2>3, <2>4
<1>3. CASE Step
    <2>1. budget' = budget /\ phase' = phase /\ intent' \in {intent, FALSE}
        BY <1>3 DEF Step, ResumeIntegration
    <2> QED
        BY <1>1, <2>1 DEF RestOK
<1>4. CASE Recover
    BY <1>1, <1>4 DEF RestOK, Recover
<1>5. CASE Fault
    BY <1>1, <1>2, <1>5 DEF RestOK, Fault
<1>6. CASE Crash
    BY <1>1, <1>2, <1>6 DEF RestOK, Crash
<1>7. CASE Intend
    BY <1>1, <1>2, <1>7 DEF RestOK, Intend
<1>8. ASSUME NEW a \in Attempts, Start(a) PROVE RestOK'
    BY <1>1, <1>8 DEF RestOK, Start
<1>9. ASSUME NEW a \in Attempts, Touch(a) PROVE RestOK'
    BY <1>1, <1>2, <1>9 DEF RestOK, Touch
<1>10. ASSUME NEW a \in Attempts, Abandon(a) PROVE RestOK'
    BY <1>1, <1>10 DEF RestOK, Abandon
<1>11. CASE UNCHANGED vars
    BY <1>1, <1>11 DEF RestOK, vars
<1> QED
    BY <1>3, <1>4, <1>5, <1>6, <1>7, <1>8, <1>9, <1>10, <1>11 DEF Next

\* A step that leaves the worktrees, their marks and the job alone.
LEMMA IdleStep ==
    ASSUME Inv, RestOK', UNCHANGED <<tree, job, marks>>
    PROVE  Inv'
BY DEF Inv

\* A step of the command on the worktree it materialises.
LEMMA MaterializeStep ==
    ASSUME Inv, RestOK', NEW a \in Attempts, job.attempt = a, Materialize(a)
    PROVE  Inv'
<1>1. ASSUME NEW p \in Tracked, MakeDirectory(a, p) \/ BeginBlob(a, p) \/ UndoEntry(a, p)
      PROVE  Inv'
    BY <1>1, MakeDirectoryStep, BeginBlobStep, UndoEntryStep
<1>2. CASE Admit(a) \/ MakeTop(a) \/ CheckEmpty(a) \/ EndBlob(a) \/ Settle(a)
    BY <1>2, AdmitStep, MakeTopStep, CheckEmptyStep, EndBlobStep, SettleStep
<1>3. CASE CheckGit(a) \/ BeginInit(a) \/ EndInit(a, TRUE)
    BY <1>3, CheckGitStep, BeginInitStep, EndInitStep
<1>4. CASE WriteAlternates(a) \/ ReadTree(a) \/ DetachHead(a)
    BY <1>4, AdvanceStep
<1>5. CASE Inspect(a) \/ Confirm(a) \/ UndoGit(a) \/ UndoTop(a)
    BY <1>5, InspectStep, ConfirmStep, UndoGitStep, UndoTopStep
<1> QED
    BY <1>1, <1>2, <1>3, <1>4, <1>5 DEF Materialize

-----------------------------------------------------------------------------
(* Theorems *)

\* Nothing has been started: every worktree is absent as a whole.
LEMMA InitInv == Init => Inv
<1> USE BoundAssumption
<1>1. SUFFICES ASSUME Init PROVE Inv
    OBVIOUS
<1>2. RestOK
    <2>1. /\ MaxTouches \in 0 .. MaxTouches /\ MaxCrashes \in 0 .. MaxCrashes
          /\ MaxFaults \in 0 .. MaxFaults /\ MaxIntents \in 0 .. MaxIntents
        BY SMT
    <2>2. /\ phase \in [Attempts -> {"unstarted", "active", "abandoned"}]
          /\ intent \in BOOLEAN
          /\ budget = [touches |-> MaxTouches, crashes |-> MaxCrashes,
                       faults |-> MaxFaults, intents |-> MaxIntents]
        BY <1>1 DEF Init
    <2> QED
        BY <2>1, <2>2 DEF RestOK
<1>3. /\ \A a \in Attempts : tree[a] = [p \in Paths |-> "absent"] /\ marks[a] = {}
      /\ job = Idle
      /\ tree = [a \in Attempts |-> [p \in Paths |-> "absent"]]
      /\ marks = [a \in Attempts |-> {}]
    BY <1>1 DEF Init
<1>4. [p \in Paths |-> "absent"] \in Tree /\ {} \in Marks
    BY DEF Tree, Entry, Marks
<1>5. tree \in [Attempts -> Tree] /\ marks \in [Attempts -> Marks] /\ JobOK(job)
    BY <1>3, <1>4 DEF JobOK
<1>6. ASSUME NEW a \in Attempts PROVE Rooted(tree[a]) /\ Place(a, tree[a], job, marks[a])
    <2>1. Gone(tree[a]) /\ ~HasHead(tree[a]) /\ ~Busy(job, a)
        BY <1>3, PathsApart DEF Gone, HasHead, Busy, Idle, Making, Repository, Undoing
    <2> QED
        BY <2>1 DEF Rooted, Place, Settled
<1> QED
    BY <1>2, <1>5, <1>6 DEF Inv

\* Every step keeps the invariant.
LEMMA NextInv == Inv /\ [Next]_vars => Inv'
<1>1. SUFFICES ASSUME Inv, [Next]_vars PROVE Inv'
    OBVIOUS
<1>2. RestOK'
    BY <1>1, RestStep
<1>3. CASE Step
    <2>1. CASE \E a \in Attempts \cap {job.attempt} : Materialize(a)
        BY <1>1, <1>2, <2>1, MaterializeStep
    <2>2. CASE (Reconcile \/ \E a \in Attempts : Survey(a)) /\ UNCHANGED marks
        <3>1. UNCHANGED tree
            BY <2>2 DEF Reconcile, Survey
        <3> QED
            BY <1>1, <1>2, <2>2, <3>1, RecoverySteps
    <2>3. CASE ResumeIntegration
        BY <1>1, <1>2, <2>3, RecoverySteps DEF ResumeIntegration
    <2> QED
        BY <1>3, <2>1, <2>2, <2>3 DEF Step
<1>4. CASE Recover \/ \E a \in Attempts : Start(a)
    BY <1>1, <1>2, <1>4, RecoverySteps DEF Recover, Start
<1>5. CASE Fault
    <2>1. CASE \E a \in Attempts \cap {job.attempt} : OperationFails(a)
        BY <1>1, <1>2, <2>1, OperationFailsStep
    <2>2. CASE job.stage \in {"survey", "next"} /\ Finish /\ UNCHANGED <<tree, marks>>
        BY <1>1, <1>2, <2>2, FinishStep DEF Making, Repository, Undoing
    <2> QED
        BY <1>5, <2>1, <2>2 DEF Fault
<1>6. CASE Crash
    BY <1>1, <1>2, <1>6, CrashStep
<1>7. CASE \E a \in Attempts : Touch(a)
    BY <1>1, <1>2, <1>7, TouchStep
<1>8. CASE Intend \/ (\E a \in Attempts : Abandon(a)) \/ UNCHANGED vars
    BY <1>1, <1>2, <1>8, IdleStep DEF Intend, Abandon, vars
<1> QED
    BY <1>1, <1>3, <1>4, <1>5, <1>6, <1>7, <1>8 DEF Next

\* Every reachable state satisfies the invariant.
THEOREM Invariance == Spec => []Inv
BY InitInv, NextInv, PTL DEF Spec

\* The variables keep their types.
THEOREM TypeCorrect == Spec => []TypeOK
<1>1. Inv => TypeOK
    BY DEF Inv, RestOK, JobOK, Job, Tree, Marks, TypeOK
<1> QED
    BY <1>1, Invariance, PTL

\* An untouched worktree in which recover finds a head has the complete tree.
THEOREM HeadImpliesTreeSafe == Spec => []HeadImpliesTree
<1>1. Inv => HeadImpliesTree
    <2>1. SUFFICES ASSUME Inv, NEW a \in Attempts, Readable(a), Calm(marks[a])
                   PROVE  ExactTree(a)
        BY DEF HeadImpliesTree, Calm
    <2>2. Place(a, tree[a], job, marks[a]) /\ HasHead(tree[a])
        BY <2>1 DEF Inv, Readable, ResolvesHead, HasHead
    <2>3. Exact(tree[a])
        <3>1. CASE Busy(job, a)
            BY <2>1, <2>2, <3>1, WorkHead DEF Place, Busy
        <3>2. CASE ~Busy(job, a)
            BY <2>1, <2>2, <3>2 DEF Place, Settled
        <3> QED
            BY <3>1, <3>2
    <2> QED
        BY <2>3 DEF Exact, ExactTree, SameBytes, Exists
<1> QED
    BY <1>1, Invariance, PTL

\* Between commands an undisturbed worktree is complete or absent as a whole.
THEOREM NoDebrisSafe == Spec => []NoDebris
<1>1. Inv => NoDebris
    <2>1. SUFFICES ASSUME Inv, job = Idle, NEW a \in Attempts, marks[a] = {}
                   PROVE  AtBase(a) \/ \A p \in Paths : ~Exists(a, p)
        BY DEF NoDebris
    <2>2. ~Busy(job, a) /\ Calm(marks[a])
        BY <2>1 DEF Busy, Idle, Making, Repository, Undoing, Calm
    <2>3. Settled(tree[a], marks[a])
        BY <2>1, <2>2 DEF Inv, Place
    <2> QED
        BY <2>1, <2>3
        DEF Settled, Gone, Exact, Exists, AtBase, Readable, HasRepository, ResolvesHead,
            IndexExact, ExactTree, SameBytes, GitOwn
<1> QED
    BY <1>1, Invariance, PTL

\* What a user put outside .git stays, whatever a command does.
Keeping == \A a \in Attempts : \A p \in Paths \ {Git} :
              tree[a][p] = "foreign" => tree'[a][p] = "foreign"

\* Setting a path that held no entry of a user keeps them all.
LEMMA SetKeeps ==
    ASSUME Inv, NEW a \in Attempts, NEW p, NEW v, Set(a, p, v),
           p = Git \/ tree[a][p] # "foreign"
    PROVE  Keeping
BY DEF Inv, Tree, Set, Keeping

\* A command keeps what users put in any worktree.
LEMMA CommandKeeps ==
    ASSUME Inv, NEW a \in Attempts, Materialize(a) \/ OperationFails(a)
    PROVE  Keeping
<1>1. UNCHANGED tree => Keeping
    BY DEF Keeping
<1>2. ASSUME NEW v, Set(a, Git, v) PROVE Keeping
    BY <1>2, SetKeeps
<1>3. ASSUME NEW p, TakeBack(a, p) PROVE Keeping
    BY <1>1, <1>3, SetKeeps DEF TakeBack, Removable, IsOurs
<1>4. CASE Admit(a) \/ CheckEmpty(a) \/ Settle(a) \/ CheckGit(a) \/ Inspect(a) \/ Confirm(a)
    BY <1>1, <1>4 DEF Admit, CheckEmpty, Settle, CheckGit, Inspect, Confirm
<1>5. CASE MakeTop(a)
    BY <1>1, <1>5, SetKeeps DEF MakeTop, Missing, Exists
<1>6. CASE EndBlob(a) \/ DropBlob(a)
    BY <1>1, <1>6, SetKeeps DEF EndBlob, DropBlob, IsOurs
<1>7. ASSUME NEW p \in Tracked, MakeDirectory(a, p) \/ BeginBlob(a, p) \/ UndoEntry(a, p)
      PROVE  Keeping
    BY <1>1, <1>3, <1>7, SetKeeps DEF MakeDirectory, BeginBlob, UndoEntry, CanCreate, Exists
<1>8. CASE BeginInit(a) \/ EndInit(a, TRUE) \/ EndInit(a, FALSE)
    BY <1>1, <1>2, <1>8 DEF BeginInit, EndInit
<1>9. CASE WriteAlternates(a) \/ ReadTree(a) \/ DetachHead(a)
    BY <1>1, <1>2, <1>9 DEF WriteAlternates, ReadTree, DetachHead, Advance
<1>10. CASE UndoGit(a)
    BY <1>1, <1>2, <1>10 DEF UndoGit, EmptyGit, DiscardGit
<1>11. CASE UndoTop(a)
    BY <1>1, <1>3, <1>11 DEF UndoTop
<1>12. CASE RemovalFails(a)
    BY <1>1, <1>12 DEF RemovalFails
<1> QED
    BY <1>1, <1>4, <1>5, <1>6, <1>7, <1>8, <1>9, <1>10, <1>11, <1>12
    DEF Materialize, OperationFails

\* No command removes or changes what a user put outside .git.
THEOREM ForeignKeptSafe == Spec => ForeignKept
<1> DEFINE Kept == \A a \in Attempts : \A p \in Paths \ {Git} :
                      (tree[a][p] = "foreign" /\ tree'[a][p] # "foreign") => Touch(a)
<1>1. Inv /\ [Next]_vars => [Kept]_vars
    <2>1. SUFFICES ASSUME Inv, Next PROVE Kept
        OBVIOUS
    <2>2. Keeping => Kept
        BY DEF Keeping
    <2>3. ASSUME NEW b \in Attempts, Touch(b) PROVE Kept
        <3>1. \A a \in Attempts : a # b => tree'[a] = tree[a]
            BY <2>1, <2>3 DEF Touch, Set, Inv
        <3> QED
            BY <2>3, <3>1
    <2>4. CASE \E a \in Attempts : Materialize(a) \/ OperationFails(a)
        BY <2>1, <2>2, <2>4, CommandKeeps
    <2>5. CASE UNCHANGED tree
        BY <2>2, <2>5 DEF Keeping
    <2>6. (\E a \in Attempts : Materialize(a) \/ OperationFails(a) \/ Touch(a)) \/ UNCHANGED tree
        BY <2>1 DEF Next, Step, Reconcile, Survey, ResumeIntegration, Recover, Fault, Crash,
                    Intend, Start, Abandon
    <2> QED
        BY <2>3, <2>4, <2>5, <2>6
<1> QED
    BY <1>1, Invariance, PTL DEF Spec, ForeignKept
=============================================================================
