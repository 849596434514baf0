------------------------- MODULE WorkspaceRuntime -------------------------
(***************************************************************************)
(* The durable runtime of one workspace: what the journal reducers and the *)
(* commands that append to the journal do to attempts, their review gates, *)
(* the integration chain and the final completion.                         *)
(*                                                                         *)
(* Every mutating command holds the journal's exclusive lock for as long   *)
(* as it runs, so commands never overlap.  What does overlap with them is  *)
(* the agent working in an attempt's worktree, and the end of the process  *)
(* between two appends of one command.  An action here is a whole command, *)
(* except that `integrate`, which makes two appends with Git effects in    *)
(* between, is split at its durable intent: Integration.tla refines that   *)
(* step.                                                                   *)
(*                                                                         *)
(* Identities, digests and Git objects are abstracted to what the guards   *)
(* compare: an attempt is <<unit, number>>, a commit of an attempt is a    *)
(* member of Commits, the durable feature head is the length of the chain  *)
(* of integrated attempts, a lease is its epoch, and acceptance evidence   *)
(* is the set of journal facts that its digest binds.                      *)
(***************************************************************************)
EXTENDS Integers, Sequences, FiniteSets

CONSTANTS
    Units,          \* merge units of the workspace definition
    Deps,           \* Deps[u]: the units that u depends on
    MaxAttempts,    \* MaxAttempts[u]: the unit's max_attempts policy
    Segment,        \* Segment[u]: the unit's serial segment, or NoSegment
    NoSegment,
    Gated,          \* units with a configured review gate
    BoundaryKinds,  \* BoundaryKinds[u]: boundary kinds the unit's policy admits
    Commits,        \* commits an attempt's worktree can be at
    BaseCommit,     \* the commit an attempt starts from
    Descends,       \* <<c, d>>: d is a strict first-parent descendant of c
    AgentLeaves,    \* bound: what the agent may leave of a worktree
    MaxBoundaries,  \* bound: boundaries per attempt
    MaxDispatches   \* bound: review gate dispatches per attempt

ASSUME DepsAssumption       == Deps \in [Units -> SUBSET Units]
ASSUME AttemptsAssumption   == MaxAttempts \in [Units -> Nat]
ASSUME SegmentAssumption    == DOMAIN Segment = Units
ASSUME GatedAssumption      == Gated \subseteq Units
ASSUME KindsAssumption      ==
    BoundaryKinds \in [Units -> SUBSET {"checkpoint", "escalation"}]
ASSUME CommitsAssumption    ==
    /\ BaseCommit \in Commits
    /\ Descends \subseteq Commits \X Commits
    /\ {"absent", "incomplete", "dirty"} \cap Commits = {}
    /\ AgentLeaves \subseteq Commits \cup {"absent", "dirty"}
ASSUME BoundsAssumption     == MaxBoundaries \in Nat /\ MaxDispatches \in Nat

VARIABLES
    attempts,    \* the runtime projection of every attempt
    adoption,    \* adoption[a]: last <<prior head, head>> adoption of a, or <<>>
    reviews,     \* the review projection: dispatches and their terminal records
    chain,       \* integrated attempts, in the order of their records
    completion,  \* TRUE once workspace_completed is recorded
    worktree     \* worktree[a]: what an inspection of a's worktree would find

vars == <<attempts, adoption, reviews, chain, completion, worktree>>

-----------------------------------------------------------------------------
(* Data *)

AttemptIds == UNION {{u} \X (1..MaxAttempts[u]) : u \in Units}
Unit(a)    == a[1]
Number(a)  == a[2]

Verdicts  == {"satisfied", "not_satisfied", "failed_to_run"}
Phases    == {"none", "active", "paused", "superseded", "completed", "abandoned"}
Inspected == Commits \cup {"absent", "incomplete", "dirty"}

Boundary == [kind : {"checkpoint", "escalation"}, head : Commits, resumed : BOOLEAN]

AttemptState ==
    [phase       : Phases,
     base        : Nat,
     verified    : Commits,
     lease       : Nat,          \* lease epoch; 0 when no lease is held
     held        : BOOLEAN,      \* serial segment held
     boundaries  : Seq(Boundary),
     integration : {"none", "intended", "integrated"},
     accepted    : Commits,      \* the intent's accepted head
     evidence    : SUBSET (Commits \cup Nat)]

NotStarted ==
    [phase |-> "none", base |-> 0, verified |-> BaseCommit, lease |-> 0,
     held |-> FALSE, boundaries |-> <<>>, integration |-> "none",
     accepted |-> BaseCommit, evidence |-> {}]

ReviewState == [dispatches : Seq(Commits), records : Seq(Verdicts)]

Started(a)     == attempts[a].phase # "none"
Nonterminal(a) == attempts[a].phase \in {"active", "paused"}
Intended(a)    == attempts[a].integration = "intended"

\* The durable feature head: one merge per integrated attempt.
CreatedHead == Len(chain)

LastBoundary(a) == attempts[a].boundaries[Len(attempts[a].boundaries)]

\* A paused attempt waits at its last boundary until that one is resumed.
CurrentBoundary(a) ==
    /\ attempts[a].phase = "paused"
    /\ attempts[a].boundaries # <<>>
    /\ ~LastBoundary(a).resumed

-----------------------------------------------------------------------------
(* What the reducer makes of the attempt that an event names *)

Reserved(a) ==
    [attempts[a] EXCEPT !.phase = "active", !.base = CreatedHead, !.lease = 1,
                        !.held = (Segment[Unit(a)] # NoSegment)]

AtHead(a, head) == [attempts[a] EXCEPT !.verified = head]

Paused(a, head, kind) ==
    LET boundary == [kind |-> kind, head |-> head, resumed |-> FALSE] IN
    [attempts[a] EXCEPT !.phase = "paused", !.lease = 0, !.held = FALSE,
                        !.verified = head,
                        !.boundaries = Append(attempts[a].boundaries, boundary)]

\* Mutant: the lease of the epoch that the pause fenced is given out again.
ResumedWithFencedLease(a) ==
    LET last == Len(attempts[a].boundaries) IN
    [attempts[a] EXCEPT !.phase = "active", !.lease = last,
                        !.held = (Segment[Unit(a)] # NoSegment),
                        !.verified = LastBoundary(a).head,
                        !.boundaries[last].resumed = TRUE]

\* The lease of a resumed attempt is derived from the boundary it resumes: it
\* gets the next epoch.
Resumed(a) ==
    LET last == Len(attempts[a].boundaries) IN
    [attempts[a] EXCEPT !.phase = "active", !.lease = last + 1,
                        !.held = (Segment[Unit(a)] # NoSegment),
                        !.verified = LastBoundary(a).head,
                        !.boundaries[last].resumed = TRUE]

Abandoned(a) ==
    [attempts[a] EXCEPT !.phase = "abandoned", !.lease = 0, !.held = FALSE]

Promised(a, evidence) ==
    [attempts[a] EXCEPT !.integration = "intended", !.accepted = attempts[a].verified,
                        !.evidence = evidence]

\* Mutant: the integration of a completed attempt stays pending.
IntegratedStillPromised(a) ==
    [attempts[a] EXCEPT !.phase = "completed", !.lease = 0, !.held = FALSE]

Integrated(a) ==
    [attempts[a] EXCEPT !.phase = "completed", !.lease = 0, !.held = FALSE,
                        !.integration = "integrated"]

\* Mutant: paused attempts are overlooked by the supersession.
SupersededIfActive(a) ==
    IF attempts[a].phase = "active"
    THEN [attempts[a] EXCEPT !.phase = "superseded", !.lease = 0, !.held = FALSE]
    ELSE attempts[a]

Superseded(a) ==
    [attempts[a] EXCEPT !.phase = "superseded", !.lease = 0, !.held = FALSE]

-----------------------------------------------------------------------------
(* The scheduler and gate views *)

LatestAttempt(a) ==
    /\ Started(a)
    /\ \A b \in AttemptIds : Unit(b) = Unit(a) /\ Started(b) => Number(b) <= Number(a)

UnitCompleted(u) ==
    \E a \in AttemptIds :
        Unit(a) = u /\ LatestAttempt(a) /\ attempts[a].phase = "completed"

\* Mutant: a dependency is met as soon as it was started.
DependenciesStarted(u) == \A d \in Deps[u] : \E a \in AttemptIds : Unit(a) = d /\ Started(a)

DependenciesCompleted(u) == \A d \in Deps[u] : UnitCompleted(d)

\* Mutant: a paused attempt does not keep its unit from being retried.
ReadyBesidePaused(u) ==
    /\ DependenciesCompleted(u)
    /\ \A a \in AttemptIds :
          Unit(a) = u /\ LatestAttempt(a)
              => attempts[a].phase \in {"paused", "superseded", "abandoned"}

\* A unit whose latest attempt ended without integration may be retried.
SchedulerReady(u) ==
    /\ DependenciesCompleted(u)
    /\ \A a \in AttemptIds :
          Unit(a) = u /\ LatestAttempt(a)
              => attempts[a].phase \in {"superseded", "abandoned"}

\* Mutant: any number that is free may be reserved.
UnusedAttempt(a) == ~Started(a)

NextAttempt(a) ==
    /\ ~Started(a)
    /\ \A b \in AttemptIds : Unit(b) = Unit(a) => (Started(b) <=> Number(b) < Number(a))

SegmentFree(a) ==
    \A b \in AttemptIds \ {a} :
        ~( /\ attempts[b].held
           /\ Segment[Unit(a)] # NoSegment
           /\ Segment[Unit(b)] = Segment[Unit(a)])

Frozen(a) == attempts[a].integration # "none"

PendingDispatch(a) == Len(reviews[a].dispatches) > Len(reviews[a].records)

\* Mutant: a satisfied record counts for whatever head the attempt moved on to.
SatisfiedForAnyHead(a, head) ==
    {k \in 1..Len(reviews[a].records) : reviews[a].records[k] = "satisfied"}

\* The satisfied terminal records for the exact head an attempt stands at.
SatisfiedRecords(a, head) ==
    {k \in 1..Len(reviews[a].records) :
        reviews[a].records[k] = "satisfied" /\ reviews[a].dispatches[k] = head}

\* What the digest of the acceptance evidence binds: the latest satisfied gate
\* record for a gated unit, the last head adoption for any other.
AcceptanceEvidence(a) ==
    IF Unit(a) \in Gated
    THEN {k \in SatisfiedRecords(a, attempts[a].verified) :
            \A j \in SatisfiedRecords(a, attempts[a].verified) : j <= k}
    ELSE {prior \in Commits : adoption[a] = <<prior, attempts[a].verified>>}

\* Acceptance confirmed by the integration: the latest attempt of its unit,
\* active, dependencies completed, clean worktree at the verified head.
AcceptanceConfirmed(a) ==
    /\ attempts[a].phase = "active"
    /\ LatestAttempt(a)
    /\ DependenciesCompleted(Unit(a))
    /\ worktree[a] = attempts[a].verified
    /\ AcceptanceEvidence(a) # {}

\* A clean head that is the durable head or a first-parent descendant of it.
CleanHead(a, head) ==
    /\ worktree[a] = head
    /\ head = attempts[a].verified \/ <<attempts[a].verified, head>> \in Descends

-----------------------------------------------------------------------------
(* Attempt commands *)

Init ==
    /\ attempts = [a \in AttemptIds |-> NotStarted]
    /\ adoption = [a \in AttemptIds |-> <<>>]
    /\ reviews = [a \in AttemptIds |-> [dispatches |-> <<>>, records |-> <<>>]]
    /\ chain = <<>>
    /\ completion = FALSE
    /\ worktree = [a \in AttemptIds |-> "absent"]

\* `attempt start`: reserve the attempt, then materialise its worktree.  The
\* process may stop after the reservation or half-way through the worktree.
StartAttempt(a) ==
    /\ ~completion
    /\ NextAttempt(a)
    /\ \A b \in AttemptIds : ~Intended(b)
    /\ SchedulerReady(Unit(a))
    /\ SegmentFree(a)
    /\ attempts' = [attempts EXCEPT ![a] = Reserved(a)]
    /\ \E found \in {BaseCommit, "absent", "incomplete"} :
           worktree' = [worktree EXCEPT ![a] = found]
    /\ UNCHANGED <<adoption, reviews, chain, completion>>

\* `attempt start` again for a reserved attempt: an absent worktree is
\* materialised at the base, anything else that is not the clean base is refused.
ReconcileStartedAttempt(a) ==
    /\ attempts[a].phase = "active"
    /\ attempts[a].base = CreatedHead
    /\ worktree[a] = "absent"
    /\ \E found \in {BaseCommit, "incomplete"} :
           worktree' = [worktree EXCEPT ![a] = found]
    /\ UNCHANGED <<attempts, adoption, reviews, chain, completion>>

\* The attempt part of `workspace recover`: refused while any active attempt
\* has an incomplete worktree, else the absent worktrees are materialised; the
\* process may stop before the last one.
RecoverAttempts ==
    /\ ~completion
    /\ \A a \in AttemptIds : attempts[a].phase = "active" => worktree[a] # "incomplete"
    /\ \E missing \in SUBSET {a \in AttemptIds :
                                 attempts[a].phase = "active" /\ worktree[a] = "absent"} :
          /\ missing # {}
          /\ worktree' = [a \in AttemptIds |->
                             IF a \in missing THEN BaseCommit ELSE worktree[a]]
    /\ UNCHANGED <<attempts, adoption, reviews, chain, completion>>

\* The agent commits, resets, leaves files uncommitted, or deletes the worktree.
AgentWorks(a) ==
    /\ Nonterminal(a)
    /\ \E found \in AgentLeaves :
          /\ worktree[a] \in Commits \cup {"dirty"} \/ found = "absent"
          /\ worktree' = [worktree EXCEPT ![a] = found]
    /\ UNCHANGED <<attempts, adoption, reviews, chain, completion>>

\* `attempt adopt-head` answers from the last adoption when that one is of the
\* head the worktree is at, whatever the attempt's verified head is.
AlreadyAdopted(a, head) == adoption[a] # <<>> /\ adoption[a][2] = head

AdoptAttemptHead(a) ==
    /\ ~completion
    /\ attempts[a].phase = "active" /\ ~Frozen(a)
    /\ Unit(a) \notin Gated
    /\ \E head \in Commits :
          /\ CleanHead(a, head)
          /\ ~AlreadyAdopted(a, head)
          /\ adoption' = [adoption EXCEPT ![a] = <<attempts[a].verified, head>>]
          /\ attempts' = [attempts EXCEPT ![a] = AtHead(a, head)]
    /\ UNCHANGED <<reviews, chain, completion, worktree>>

\* `attempt pause`: record a boundary at the clean head, fence the lease and
\* release the serial segment.
PauseAttempt(a) ==
    /\ ~completion
    /\ attempts[a].phase = "active" /\ ~Frozen(a)
    /\ Len(attempts[a].boundaries) < MaxBoundaries
    /\ \E head \in Commits, kind \in BoundaryKinds[Unit(a)] :
          /\ worktree[a] = head
          /\ attempts' = [attempts EXCEPT ![a] = Paused(a, head, kind)]
    /\ UNCHANGED <<adoption, reviews, chain, completion, worktree>>

\* Mutant: resuming takes the serial segment back from whoever holds it.
ResumeHeldSegment(a) ==
    /\ ~completion
    /\ CurrentBoundary(a) /\ ~Frozen(a)
    /\ worktree[a] = LastBoundary(a).head
    /\ attempts' = [attempts EXCEPT ![a] = Resumed(a)]
    /\ UNCHANGED <<adoption, reviews, chain, completion, worktree>>

\* `attempt resume`: the worktree must still be at the boundary's head and the
\* serial segment must be free; the lease gets the next epoch.
ResumeAttempt(a) ==
    /\ ~completion
    /\ CurrentBoundary(a) /\ ~Frozen(a)
    /\ worktree[a] = LastBoundary(a).head
    /\ SegmentFree(a)
    /\ attempts' = [attempts EXCEPT ![a] = Resumed(a)]
    /\ UNCHANGED <<adoption, reviews, chain, completion, worktree>>

\* Mutant: an attempt with a durable intent may be abandoned.
AbandonFrozen(a) ==
    /\ ~completion
    /\ Nonterminal(a)
    /\ attempts' = [attempts EXCEPT ![a] = Abandoned(a)]
    /\ UNCHANGED <<adoption, reviews, chain, completion, worktree>>

\* `attempt abandon`: the scratch worktree is left as it is.
AbandonAttempt(a) ==
    /\ ~completion
    /\ Nonterminal(a) /\ ~Frozen(a)
    /\ attempts' = [attempts EXCEPT ![a] = Abandoned(a)]
    /\ UNCHANGED <<adoption, reviews, chain, completion, worktree>>

-----------------------------------------------------------------------------
(* Review gate commands *)

\* `review dispatch`: adopt the clean head if it moved, then record a dispatch
\* for it.  The process may stop after the adoption, and an unresolved dispatch
\* refuses a new one only after the adoption was appended.
DispatchAttemptReviewGate(a) ==
    /\ ~completion
    /\ attempts[a].phase = "active"
    /\ Unit(a) \in Gated
    /\ \E head \in Commits, dispatched \in BOOLEAN :
          /\ CleanHead(a, head)
          /\ head # attempts[a].verified => ~Frozen(a)
          /\ dispatched => /\ ~PendingDispatch(a)
                           /\ Len(reviews[a].dispatches) < MaxDispatches
          /\ adoption' = IF head = attempts[a].verified THEN adoption
                         ELSE [adoption EXCEPT ![a] = <<attempts[a].verified, head>>]
          /\ attempts' = [attempts EXCEPT ![a] = AtHead(a, head)]
          /\ reviews' = IF dispatched
                        THEN [reviews EXCEPT ![a].dispatches = Append(@, head)]
                        ELSE reviews
    /\ UNCHANGED <<chain, completion, worktree>>

\* Mutant: a terminal record needs no unresolved dispatch.
RecordUnasked(a, verdict) ==
    /\ ~completion
    /\ reviews' = [reviews EXCEPT ![a].records = Append(@, verdict)]
    /\ UNCHANGED <<attempts, adoption, chain, completion, worktree>>

\* Mutant: an unresolved dispatch is still recorded after the completion.
RecordAfterCompletion(a, verdict) ==
    /\ PendingDispatch(a)
    /\ reviews' = [reviews EXCEPT ![a].records = Append(@, verdict)]
    /\ UNCHANGED <<attempts, adoption, chain, completion, worktree>>

\* `review record` and the end of `review run`: a terminal record for the
\* unresolved dispatch.  `review record` asks nothing of the attempt's phase.
RecordAttemptReviewGate(a, verdict) ==
    /\ ~completion
    /\ PendingDispatch(a)
    /\ reviews' = [reviews EXCEPT ![a].records = Append(@, verdict)]
    /\ UNCHANGED <<attempts, adoption, chain, completion, worktree>>

-----------------------------------------------------------------------------
(* Integration and completion *)

\* `integrate`, up to its durable intent: bind the accepted head and evidence to
\* the current feature head.
IntendIntegration(a) ==
    /\ ~completion
    /\ ~Frozen(a)
    /\ AcceptanceConfirmed(a)
    /\ attempts[a].base = CreatedHead
    /\ \A b \in AttemptIds : ~Intended(b)
    /\ attempts' = [attempts EXCEPT ![a] = Promised(a, AcceptanceEvidence(a))]
    /\ UNCHANGED <<adoption, reviews, chain, completion, worktree>>

\* `integrate`, from its durable intent to its completion record: the evidence
\* must still be the one bound by the intent; every other nonterminal attempt
\* is superseded, because the feature head it started from has moved.
CompleteIntegration(a) ==
    /\ ~completion
    /\ Intended(a)
    /\ AcceptanceConfirmed(a)
    /\ attempts[a].accepted = attempts[a].verified
    /\ attempts[a].evidence = AcceptanceEvidence(a)
    /\ attempts[a].base = CreatedHead
    /\ \A b \in AttemptIds \ {a} : Nonterminal(b) => ~Frozen(b)
    /\ attempts' = [b \in AttemptIds |->
           CASE b = a                      -> Integrated(b)
             [] b # a /\ Nonterminal(b)    -> Superseded(b)
             [] OTHER                      -> attempts[b]]
    /\ chain' = Append(chain, a)
    /\ UNCHANGED <<adoption, reviews, completion, worktree>>

Integrates(u) == {k \in 1..Len(chain) : Unit(chain[k]) = u}

\* No completion blocker: nothing is in flight, each unit was integrated exactly
\* once by an attempt whose evidence still is what its intent bound, and the
\* chain is contiguous and in dependency order.
NoCompletionBlockers ==
    /\ \A a \in AttemptIds :
          /\ ~Nonterminal(a) /\ ~attempts[a].held /\ attempts[a].lease = 0
          /\ ~Intended(a)
          /\ attempts[a].phase = "completed" <=> attempts[a].integration = "integrated"
          /\ attempts[a].phase = "completed" =>
                /\ attempts[a].accepted = attempts[a].verified
                /\ attempts[a].evidence = AcceptanceEvidence(a)
                /\ \A k \in 1..Len(attempts[a].boundaries) : attempts[a].boundaries[k].resumed
    /\ \A u \in Units : Cardinality(Integrates(u)) = 1
    /\ \A u \in Units : \A d \in Deps[u] :
          \A j \in Integrates(d), k \in Integrates(u) : j < k
    /\ chain # <<>>
    /\ \A k \in 1..Len(chain) : attempts[chain[k]].base = k - 1

\* `workspace complete`
CompleteWorkspace ==
    /\ ~completion
    /\ NoCompletionBlockers
    /\ completion' = TRUE
    /\ UNCHANGED <<attempts, adoption, reviews, chain, worktree>>

-----------------------------------------------------------------------------

AttemptCommand(a) ==
    \/ StartAttempt(a)
    \/ ReconcileStartedAttempt(a)
    \/ AdoptAttemptHead(a)
    \/ PauseAttempt(a)
    \/ ResumeAttempt(a)
    \/ AbandonAttempt(a)
    \/ DispatchAttemptReviewGate(a)
    \/ \E verdict \in Verdicts : RecordAttemptReviewGate(a, verdict)
    \/ IntendIntegration(a)
    \/ CompleteIntegration(a)

Next ==
    \/ \E a \in AttemptIds : AttemptCommand(a) \/ AgentWorks(a)
    \/ RecoverAttempts
    \/ CompleteWorkspace

Spec == Init /\ [][Next]_vars

-----------------------------------------------------------------------------
(* Correctness *)

\* The projection is well typed, and the gate state of an attempt has at most
\* one dispatch without a terminal record.
TypeOK ==
    /\ attempts \in [AttemptIds -> AttemptState]
    /\ adoption \in [AttemptIds -> {<<>>} \cup (Commits \X Commits)]
    /\ reviews \in [AttemptIds -> ReviewState]
    /\ \A a \in AttemptIds :
          Len(reviews[a].dispatches) \in {Len(reviews[a].records), Len(reviews[a].records) + 1}
    /\ chain \in Seq(AttemptIds)
    /\ completion \in BOOLEAN
    /\ worktree \in [AttemptIds -> Inspected]

\* Two attempts of one merge unit are never in flight together: a retry starts
\* only after the attempt before it ended (attempt start, resume, supersession).
OneAttemptPerUnit ==
    \A a, b \in AttemptIds :
        Unit(a) = Unit(b) /\ Nonterminal(a) /\ Nonterminal(b) => a = b

\* A serial segment is held by one attempt at a time, and only by an active one:
\* pausing gives it up, and resuming has to win it back from whoever took it.
SerialSegmentExclusive ==
    /\ \A a \in AttemptIds :
          attempts[a].held <=> (attempts[a].phase = "active" /\ Segment[Unit(a)] # NoSegment)
    /\ \A a, b \in AttemptIds :
          attempts[a].held /\ attempts[b].held /\ Segment[Unit(a)] = Segment[Unit(b)] => a = b

\* Whatever is still in flight started from the current feature head, so that an
\* integration never has to merge onto a head its attempt has not seen.
InFlightOnFrontier ==
    \A a \in AttemptIds : Nonterminal(a) => attempts[a].base = CreatedHead

\* At most one integration is pending, its attempt is still active, and the head
\* the intent accepted is the head the attempt stands at.
OnePendingIntegration ==
    /\ \A a, b \in AttemptIds : Intended(a) /\ Intended(b) => a = b
    /\ \A a \in AttemptIds :
          /\ Intended(a) => attempts[a].phase = "active"
          /\ Frozen(a) => attempts[a].accepted = attempts[a].verified

\* The chain of integrated attempts holds each unit at most once, each link built
\* on the one before it and after everything its unit depends on.
ChainInDependencyOrder ==
    \A k \in 1..Len(chain) :
        /\ attempts[chain[k]].phase = "completed"
        /\ attempts[chain[k]].base = k - 1
        /\ \A j \in 1..Len(chain) : Unit(chain[j]) = Unit(chain[k]) => j = k
        /\ \A d \in Deps[Unit(chain[k])] : \E j \in 1..(k - 1) : Unit(chain[j]) = d

\* Nothing is integrated, or about to be, whose exact head was not accepted: by a
\* satisfied gate record for a gated unit, by a head adoption for any other.
AcceptedHeadHasEvidence ==
    \A a \in AttemptIds : Frozen(a) =>
        IF Unit(a) \in Gated
        THEN \E k \in attempts[a].evidence \cap (1..Len(reviews[a].records)) :
                /\ reviews[a].records[k] = "satisfied"
                /\ reviews[a].dispatches[k] = attempts[a].accepted
        ELSE \E prior \in attempts[a].evidence :
                adoption[a] = <<prior, attempts[a].accepted>>

\* The lease of an active attempt is the epoch after its boundaries, so a lease
\* fenced by a pause never returns; a paused attempt waits at the head of its
\* last boundary, the only one not resumed.
LeaseEpochFenced ==
    \A a \in AttemptIds :
        LET last == Len(attempts[a].boundaries) IN
        /\ attempts[a].lease = (IF attempts[a].phase = "active" THEN last + 1 ELSE 0)
        /\ \A k \in 1..last :
              attempts[a].boundaries[k].resumed
                 \/ (k = last /\ attempts[a].phase \notin {"none", "active", "completed"})
        /\ attempts[a].phase = "paused" =>
              /\ last > 0
              /\ ~attempts[a].boundaries[last].resumed
              /\ attempts[a].verified = attempts[a].boundaries[last].head

\* An attempt that is in flight or integrated is the latest of its unit, and the
\* chain is exactly the completed attempts: what the scheduler concludes from
\* the latest attempt of a unit holds of the unit.
LiveAttemptIsLatest ==
    /\ \A a \in AttemptIds :
          attempts[a].phase \in {"active", "paused", "completed"} => LatestAttempt(a)
    /\ \A a \in AttemptIds :
          /\ attempts[a].phase = "completed" <=> \E k \in 1..Len(chain) : chain[k] = a
          /\ attempts[a].phase = "completed" <=> attempts[a].integration = "integrated"

\* A recorded completion is never contradicted by what is recorded after it.
CompletionIsFinal == completion => NoCompletionBlockers

\* A finished attempt is never touched again.
TerminalAttemptsFixed ==
    [][\A a \in AttemptIds :
          Started(a) /\ ~Nonterminal(a) => attempts'[a] = attempts[a]]_vars

\* "attempt is frozen after durable integration intent": until its completion is
\* recorded, no command changes the attempt or its adopted head.
FrozenAfterIntent ==
    [][\A a \in AttemptIds : Intended(a) =>
          /\ attempts'[a] = attempts[a] \/ attempts'[a].phase = "completed"
          /\ attempts'[a].verified = attempts[a].verified
          /\ adoption'[a] = adoption[a]]_vars

\* Intents and completion records keep the promise of IntegrationChain: no intent
\* is replaced, withdrawn or recorded twice, by whatever command runs between.
Abstract == INSTANCE IntegrationChain
                WITH Candidates <- AttemptIds, promised <- {a \in AttemptIds : Intended(a)}
KeepsPromise == Abstract!Spec

\* The acceptance evidence that a durable intent binds stays the attempt's
\* acceptance evidence: "later confirmations compare only the immutable accepted
\* Git and review evidence to that intent".
EvidenceFixedByIntent ==
    \A a \in AttemptIds :
        Frozen(a) => attempts[a].evidence = AcceptanceEvidence(a)

\* When adopt-head reports success for the clean head of an attempt, that head is
\* the attempt's verified head.
AdoptionRecordsHead ==
    \A a \in AttemptIds, head \in Commits :
        /\ attempts[a].phase = "active" /\ ~Frozen(a) /\ Unit(a) \notin Gated
        /\ CleanHead(a, head)
        /\ AlreadyAdopted(a, head)
        => attempts[a].verified = head

=============================================================================
