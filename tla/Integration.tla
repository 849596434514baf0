---------------------------- MODULE Integration ----------------------------
(***************************************************************************)
(* IntegrateMergeUnit step by step: the durable intent, the deterministic  *)
(* merge commit, the compare-and-swap of the feature ref and the           *)
(* completion record, with the process stopping between any two of them    *)
(* and `integrate` (or `workspace recover`) run again.                     *)
(*                                                                         *)
(* The command holds the journal lock, so nothing else appends meanwhile.  *)
(* Three actors do not ask for that lock: the agent, who may disturb the   *)
(* attempt's worktree; anybody with the repository, who may move the       *)
(* feature ref; and Git, which may prune an object no ref reaches.         *)
(*                                                                         *)
(* An attempt stands for the merge commit its intent determines: the       *)
(* intent fixes parents, tree, message and timestamps, so a retry computes *)
(* the same object.  Steps that only re-read the journal are left out: the *)
(* lock makes them read what was read before.                              *)
(***************************************************************************)
EXTENDS Integers, Sequences, FiniteSets

CONSTANTS
    Attempts,      \* attempts accepted for integration, one after another
    MaxCrashes,    \* bound: times the command's process stops
    MaxRefMoves,   \* bound: times somebody else moves the feature ref
    MaxPrunes,     \* bound: times Git prunes an unreachable merge commit
    AgentDisturbs  \* whether the agent touches accepted worktrees

ASSUME NamesAssumption  == {"absent", "foreign"} \cap Attempts = {}
ASSUME BoundsAssumption == /\ {MaxCrashes, MaxRefMoves, MaxPrunes} \subseteq Nat
                           /\ AgentDisturbs \in BOOLEAN

VARIABLES
    promised,   \* journal: attempts with an intent and no completion record
    chain,      \* journal: integrated attempts, oldest first
    ref,        \* the feature ref: "absent", a merge, or a foreign commit
    objects,    \* merge commits present in the object database
    exact,      \* attempts whose worktree is clean at the accepted head
    cmd,        \* the integrate command: [pc, attempt]
    reached,    \* history: every value the feature ref has had
    crashes, moves, prunes

git   == <<ref, objects, reached>>
bounds == <<crashes, moves, prunes>>
vars  == <<promised, chain, git, exact, cmd, bounds>>

Steps == {"accept", "inspectFresh", "promise", "reaccept", "inspect", "create",
          "reconfirm", "inspectPublish", "swap", "inspectSwapped", "verify",
          "reconfirmPublished", "inspectFinal", "record"}

Idle == [pc |-> "idle", attempt |-> "absent"]

\* The ref state an intent made now expects to find: no ref before the first
\* integration, the last merge afterwards.
ExpectedRef == IF chain = <<>> THEN "absent" ELSE chain[Len(chain)]

\* Mutant: an existing merge commit is taken for a published one.
RefStateOfObject(a) ==
    CASE ref = ExpectedRef -> "expected"
      [] a \in objects     -> "merge"
      [] OTHER             -> "drift"

RefState(a) ==
    CASE ref = ExpectedRef           -> "expected"
      [] ref = a /\ a \in objects    -> "merge"
      [] OTHER                       -> "drift"

Init ==
    /\ promised = {} /\ chain = <<>>
    /\ ref = "absent" /\ objects = {} /\ reached = {"absent"}
    /\ exact = Attempts
    /\ cmd = Idle
    /\ crashes = 0 /\ moves = 0 /\ prunes = 0

-----------------------------------------------------------------------------
(* The command *)

At(pc)   == cmd.pc = pc
Goto(pc) == cmd' = [cmd EXCEPT !.pc = pc]

\* A check that ends the command with an error unless cond holds.
Require(cond, next) == IF cond THEN Goto(next) ELSE cmd' = Idle

InChain(a) == \E k \in 1..Len(chain) : chain[k] = a

\* Mutant: an attempt is integrated while another one is promised.
BeginBesidePromise(a) ==
    /\ At("idle")
    /\ \/ promised # {a} /\ ~InChain(a) /\ cmd' = [pc |-> "accept", attempt |-> a]
       \/ promised = {a} /\ cmd' = [pc |-> "reaccept", attempt |-> a]
    /\ UNCHANGED <<promised, chain, git, exact, bounds>>

\* Mutant: a pending promise is not taken up again.
BeginFresh(a) ==
    /\ At("idle")
    /\ promised = {} /\ ~InChain(a) /\ cmd' = [pc |-> "accept", attempt |-> a]
    /\ UNCHANGED <<promised, chain, git, exact, bounds>>

Begin(a) ==
    /\ At("idle")
    /\ \/ promised = {} /\ ~InChain(a) /\ cmd' = [pc |-> "accept", attempt |-> a]
       \/ promised = {a} /\ cmd' = [pc |-> "reaccept", attempt |-> a]
    /\ UNCHANGED <<promised, chain, git, exact, bounds>>

\* confirmIntegrationAcceptance and InspectAttempt: the worktree is at the
\* accepted head, clean.
ConfirmAcceptance ==
    /\ \/ At("accept")             /\ Require(cmd.attempt \in exact, "inspectFresh")
       \/ At("reaccept")           /\ Require(cmd.attempt \in exact, "inspect")
       \/ At("reconfirm")          /\ Require(cmd.attempt \in exact, "inspectPublish")
       \/ At("reconfirmPublished") /\ Require(cmd.attempt \in exact, "inspectFinal")
    /\ UNCHANGED <<promised, chain, git, exact, bounds>>

\* InspectIntegration looks at the worktree, the feature ref and the commit.
Inspect ==
    LET a == cmd.attempt
        state == IF a \in exact THEN RefState(a) ELSE "refused"
    IN
    /\ \/ At("inspectFresh") /\ Require(state = "expected", "promise")
       \/ /\ At("inspect")
          /\ CASE state = "expected" /\ a \notin objects -> Goto("create")
               [] state = "expected" /\ a \in objects    -> Goto("reconfirm")
               [] state = "merge"                        -> Goto("verify")
               [] OTHER                                  -> cmd' = Idle
       \/ /\ At("inspectPublish")
          /\ CASE state = "merge"                        -> Goto("verify")
               [] state = "expected" /\ a \in objects    -> Goto("swap")
               [] OTHER                                  -> cmd' = Idle
       \/ At("inspectSwapped") /\ Require(state = "merge", "verify")
       \/ At("verify")         /\ Require(state = "merge", "reconfirmPublished")
       \/ At("inspectFinal")   /\ Require(state = "merge", "record")
    /\ UNCHANGED <<promised, chain, git, exact, bounds>>

AppendIntent ==
    /\ At("promise")
    /\ promised' = {cmd.attempt}
    /\ Goto("reaccept")
    /\ UNCHANGED <<chain, git, exact, bounds>>

\* CreateIntegrationCommit inspects again before it writes the object.
CreateCommit ==
    LET state == RefState(cmd.attempt) IN
    /\ At("create")
    /\ IF cmd.attempt \in exact /\ state # "drift"
       THEN /\ objects' = objects \cup {cmd.attempt}
            /\ Goto("reconfirm")
       ELSE objects' = objects /\ cmd' = Idle
    /\ UNCHANGED <<promised, chain, ref, reached, exact, bounds>>

\* Mutant: the ref is set whatever it is.
SetRef ==
    /\ At("swap")
    /\ ref' = cmd.attempt
    /\ reached' = reached \cup {cmd.attempt}
    /\ Goto("inspectSwapped")
    /\ UNCHANGED <<promised, chain, objects, exact, bounds>>

\* Mutant: the ref is updated to a merge commit that was pruned meanwhile.
SwapToMissing ==
    /\ At("swap")
    /\ IF ref = ExpectedRef
       THEN /\ ref' = cmd.attempt
            /\ reached' = reached \cup {cmd.attempt}
            /\ Goto("inspectSwapped")
       ELSE UNCHANGED <<ref, reached>> /\ cmd' = Idle
    /\ UNCHANGED <<promised, chain, objects, exact, bounds>>

\* The prepared reference transaction: under Git's ref lock, create the ref or
\* update it from the expected head; otherwise abort.
SwapRef ==
    /\ At("swap")
    /\ IF ref = ExpectedRef /\ cmd.attempt \in objects
       THEN /\ ref' = cmd.attempt
            /\ reached' = reached \cup {cmd.attempt}
            /\ Goto("inspectSwapped")
       ELSE UNCHANGED <<ref, reached>> /\ cmd' = Idle
    /\ UNCHANGED <<promised, chain, objects, exact, bounds>>

AppendIntegrated ==
    /\ At("record")
    /\ promised' = {}
    /\ chain' = Append(chain, cmd.attempt)
    /\ cmd' = Idle
    /\ UNCHANGED <<git, exact, bounds>>

Step == ConfirmAcceptance \/ Inspect \/ AppendIntent \/ CreateCommit
            \/ SwapRef \/ AppendIntegrated

\* Mutant: the command forgets its position but not its attempt.
CrashKeepsAttempt ==
    /\ ~At("idle") /\ crashes < MaxCrashes
    /\ crashes' = crashes + 1
    /\ Goto("idle")
    /\ UNCHANGED <<promised, chain, git, exact, moves, prunes>>

\* The process stops, or an injected fault or I/O error ends the command.
Crash ==
    /\ ~At("idle") /\ crashes < MaxCrashes
    /\ crashes' = crashes + 1
    /\ cmd' = Idle
    /\ UNCHANGED <<promised, chain, git, exact, moves, prunes>>

-----------------------------------------------------------------------------
(* Everybody else *)

\* The ref is deleted, moved to a foreign commit, or to a merge that exists.
OthersMoveRef ==
    /\ moves < MaxRefMoves
    /\ \E new \in {"absent", "foreign"} \cup objects :
          /\ new # ref
          /\ ref' = new
          /\ reached' = reached \cup {new}
    /\ moves' = moves + 1
    /\ UNCHANGED <<promised, chain, objects, exact, cmd, crashes, prunes>>

AgentTouches ==
    /\ AgentDisturbs
    /\ \E a \in Attempts : exact' = IF a \in exact THEN exact \ {a} ELSE exact \cup {a}
    /\ UNCHANGED <<promised, chain, git, cmd, bounds>>

\* A merge is an ancestor of every merge made after it was recorded.
Reachable(a) ==
    \/ ref = a
    \/ \E k \in 1..Len(chain) :
          /\ chain[k] = a
          /\ ref \in Attempts
          /\ InChain(ref) => \E j \in (k + 1)..Len(chain) : chain[j] = ref

GitPrunes ==
    /\ prunes < MaxPrunes
    /\ \E a \in objects : ~Reachable(a) /\ objects' = objects \ {a}
    /\ prunes' = prunes + 1
    /\ UNCHANGED <<promised, chain, ref, reached, exact, cmd, crashes, moves>>

Next ==
    \/ \E a \in Attempts : Begin(a)
    \/ Step
    \/ Crash
    \/ OthersMoveRef
    \/ AgentTouches
    \/ GitPrunes

Spec == Init /\ [][Next]_vars

\* A running command keeps running, and a pending integration is run again: the
\* recovery that `workspace status` asks for.
Resume == \E a \in promised : Begin(a)

FairSpec == Spec /\ WF_vars(Step) /\ WF_vars(Resume)

-----------------------------------------------------------------------------
(* Correctness *)

\* The journal, the repository and the command's position are well formed.
TypeOK ==
    /\ promised \subseteq Attempts /\ Cardinality(promised) <= 1
    /\ chain \in Seq(Attempts)
    /\ ref \in Attempts \cup {"absent", "foreign"}
    /\ objects \subseteq Attempts
    /\ reached \subseteq Attempts \cup {"absent", "foreign"}
    /\ exact \subseteq Attempts
    /\ cmd \in [pc : Steps, attempt : Attempts] \cup {Idle}
    /\ crashes \in 0..MaxCrashes /\ moves \in 0..MaxRefMoves /\ prunes \in 0..MaxPrunes

\* The command moves the feature ref only by the promise in the journal: from the
\* recorded frontier to the existing merge commit of the one pending intent.
RefMovesByPromise ==
    [][cmd' # cmd /\ ref' # ref =>
          /\ promised = {ref'}
          /\ ref = ExpectedRef
          /\ ref' \in objects]_vars

\* An attempt is recorded as integrated only if the feature ref did reach its
\* merge, however often the command was interrupted or the ref was moved.
RecordedReachedRef == \A k \in 1..Len(chain) : chain[k] \in reached

\* While nobody else moves it, the feature ref is at the recorded frontier or at
\* the merge of the pending intent, and never past it.
RefAtFrontier ==
    moves = 0 =>
        /\ ref = ExpectedRef \/ ref \in promised
        /\ ref \in objects \cup {"absent"}

\* The intents and completion records keep the promise of IntegrationChain.
Abstract == INSTANCE IntegrationChain WITH Candidates <- Attempts
KeepsPromise == Abstract!Spec

\* A durable intent is eventually recorded as integrated if the command is run
\* again after each interruption, unless somebody moved the feature ref or
\* touched an accepted worktree; lost merge commits are created again.
Undisturbed == moves = 0 /\ exact = Attempts
PromiseResolved ==
    \A a \in Attempts : a \in promised ~> InChain(a) \/ ~Undisturbed

=============================================================================
