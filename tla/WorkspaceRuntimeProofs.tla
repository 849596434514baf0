----------------------- MODULE WorkspaceRuntimeProofs -----------------------
(***************************************************************************)
(* Proofs about WorkspaceRuntime for every value of its constants.         *)
(***************************************************************************)
EXTENDS WorkspaceRuntime, TLAPS

\* An attempt identity is its unit and its number.
LEMMA AttemptIdentity ==
    /\ \A a \in AttemptIds : Unit(a) \in Units /\ Number(a) \in Nat /\ a = <<Unit(a), Number(a)>>
    /\ \A a, b \in AttemptIds : Unit(a) = Unit(b) /\ Number(a) = Number(b) => a = b
BY AttemptsAssumption DEF AttemptIds, Unit, Number

\* A reserved identity that no event has touched is a well-typed attempt.
LEMMA NotStartedType == NotStarted \in AttemptState
BY CommitsAssumption DEF NotStarted, AttemptState, Phases

-----------------------------------------------------------------------------
(* Type correctness *)

\* The empty journal replays to a well-typed projection.
LEMMA TypeInit == Init => TypeOK
<1> SUFFICES ASSUME Init PROVE TypeOK
    OBVIOUS
<1> DEFINE NoReviews == [dispatches |-> <<>>, records |-> <<>>]
<1>1. attempts \in [AttemptIds -> AttemptState]
    BY NotStartedType DEF Init
<1>2. NoReviews \in ReviewState
    <2>1. <<>> \in Seq(Commits) /\ <<>> \in Seq(Verdicts)
        OBVIOUS
    <2> QED BY <2>1 DEF ReviewState
<1>3. reviews = [a \in AttemptIds |-> NoReviews]
    BY DEF Init
<1>4. reviews \in [AttemptIds -> ReviewState]
    BY <1>2, <1>3
<1>5. ASSUME NEW a \in AttemptIds
      PROVE  Len(reviews[a].dispatches) = Len(reviews[a].records)
    BY <1>3
<1>6. adoption \in [AttemptIds -> {<<>>} \cup (Commits \X Commits)]
    BY DEF Init
<1>7. chain \in Seq(AttemptIds)
    BY DEF Init
<1>8. worktree \in [AttemptIds -> Inspected]
    BY DEF Init, Inspected
<1>9. completion \in BOOLEAN
    BY DEF Init
<1> QED
    BY <1>1, <1>4, <1>5, <1>6, <1>7, <1>8, <1>9 DEF TypeOK

\* Setting fields to values of their types keeps a record in its type.
LEMMA FieldTypes ==
    /\ \A s \in AttemptState, phase \in Phases, held \in BOOLEAN, lease \in Nat,
          head \in Commits, bs \in Seq(Boundary) :
          [s EXCEPT !.phase = phase, !.lease = lease, !.held = held, !.verified = head,
                    !.boundaries = bs] \in AttemptState
    /\ \A r \in ReviewState, ds \in Seq(Commits) : [r EXCEPT !.dispatches = ds] \in ReviewState
    /\ \A r \in ReviewState, rs \in Seq(Verdicts) : [r EXCEPT !.records = rs] \in ReviewState
<1>1. ASSUME NEW s \in AttemptState, NEW phase \in Phases, NEW held \in BOOLEAN,
             NEW lease \in Nat, NEW head \in Commits, NEW bs \in Seq(Boundary)
      PROVE  [s EXCEPT !.phase = phase, !.lease = lease, !.held = held, !.verified = head,
                       !.boundaries = bs] \in AttemptState
    BY DEF AttemptState
<1>2. ASSUME NEW r \in ReviewState, NEW ds \in Seq(Commits)
      PROVE  [r EXCEPT !.dispatches = ds] \in ReviewState
    BY DEF ReviewState
<1>3. ASSUME NEW r \in ReviewState, NEW rs \in Seq(Verdicts)
      PROVE  [r EXCEPT !.records = rs] \in ReviewState
    BY DEF ReviewState
<1> QED
    BY <1>1, <1>2, <1>3

\* An attempt that resumes has a last boundary, and waits at its head.
LEMMA ResumedType ==
    ASSUME TypeOK, NEW a \in AttemptIds, CurrentBoundary(a)
    PROVE  Resumed(a) \in AttemptState
<1> DEFINE bs   == attempts[a].boundaries
           last == Len(bs)
           new  == [bs EXCEPT ![last].resumed = TRUE]
<1>1. attempts[a] \in AttemptState /\ bs \in Seq(Boundary) /\ last \in Nat
    BY DEF TypeOK, AttemptState
<1>2. last \in 1..Len(bs)
    BY <1>1 DEF CurrentBoundary
<1>3. bs[last] \in Boundary
    BY <1>1, <1>2
<1>4. [bs[last] EXCEPT !.resumed = TRUE] \in Boundary
    BY <1>3 DEF Boundary
<1>5. new \in Seq(Boundary)
    BY <1>1, <1>2, <1>4
<1>6. bs[last].head \in Commits
    BY <1>3 DEF Boundary
<1>7. Resumed(a) = [attempts[a] EXCEPT !.phase = "active", !.lease = last + 1,
                        !.held = (Segment[Unit(a)] # NoSegment),
                        !.verified = bs[last].head, !.boundaries = new]
    BY DEF Resumed, LastBoundary
<1>8. "active" \in Phases /\ last + 1 \in Nat /\ (Segment[Unit(a)] # NoSegment) \in BOOLEAN
    BY <1>1 DEF Phases
<1> HIDE DEF new, last
<1>9. [attempts[a] EXCEPT !.phase = "active", !.lease = last + 1,
                        !.held = (Segment[Unit(a)] # NoSegment),
                        !.verified = bs[last].head, !.boundaries = new] \in AttemptState
    BY <1>1, <1>5, <1>6, <1>8, FieldTypes, Zenon
<1> QED
    BY <1>7, <1>9, Zenon

\* A pause appends one boundary to the attempt's boundaries.
LEMMA PausedType ==
    ASSUME TypeOK, NEW a \in AttemptIds, NEW head \in Commits,
           NEW kind \in BoundaryKinds[Unit(a)]
    PROVE  Paused(a, head, kind) \in AttemptState
<1> DEFINE b   == [kind |-> kind, head |-> head, resumed |-> FALSE]
           new == Append(attempts[a].boundaries, b)
<1>1. attempts[a] \in AttemptState /\ attempts[a].boundaries \in Seq(Boundary)
    BY DEF TypeOK, AttemptState
<1>2. kind \in {"checkpoint", "escalation"}
    BY KindsAssumption, AttemptIdentity
<1>3. b \in Boundary
    BY <1>2 DEF Boundary
<1>4. new \in Seq(Boundary)
    BY <1>1, <1>3
<1>5. Paused(a, head, kind) =
          [attempts[a] EXCEPT !.phase = "paused", !.lease = 0, !.held = FALSE,
                              !.verified = head, !.boundaries = new]
    BY DEF Paused
<1>6. "paused" \in Phases /\ 0 \in Nat /\ FALSE \in BOOLEAN
    BY DEF Phases
<1> HIDE DEF new
<1>7. [attempts[a] EXCEPT !.phase = "paused", !.lease = 0, !.held = FALSE,
                          !.verified = head, !.boundaries = new] \in AttemptState
    BY <1>1, <1>4, <1>6, FieldTypes, Zenon
<1> QED
    BY <1>5, <1>7, Zenon

\* The other transitions set fields of the attempt and leave the rest.
LEMMA TransitionType ==
    ASSUME TypeOK, NEW a \in AttemptIds
    PROVE  /\ Reserved(a) \in AttemptState
           /\ \A head \in Commits : AtHead(a, head) \in AttemptState
           /\ Abandoned(a) \in AttemptState
           /\ \A evidence \in SUBSET (Commits \cup Nat) : Promised(a, evidence) \in AttemptState
           /\ Integrated(a) \in AttemptState
           /\ Superseded(a) \in AttemptState
<1>1. CreatedHead \in Nat
    BY DEF TypeOK, CreatedHead
<1>2. attempts[a] \in AttemptState
    BY DEF TypeOK
<1>3. Reserved(a) \in AttemptState
    BY <1>1, <1>2 DEF Reserved, AttemptState, Phases
<1>4. \A head \in Commits : AtHead(a, head) \in AttemptState
    BY <1>2 DEF AtHead, AttemptState
<1>5. \A evidence \in SUBSET (Commits \cup Nat) : Promised(a, evidence) \in AttemptState
    BY <1>2 DEF Promised, AttemptState
<1>6. Abandoned(a) \in AttemptState /\ Integrated(a) \in AttemptState
          /\ Superseded(a) \in AttemptState
    BY <1>2 DEF Abandoned, Integrated, Superseded, AttemptState, Phases
<1> QED
    BY <1>3, <1>4, <1>5, <1>6

\* What the acceptance evidence binds is a set of commits or of record numbers.
LEMMA EvidenceType ==
    ASSUME TypeOK, NEW a \in AttemptIds
    PROVE  AcceptanceEvidence(a) \in SUBSET (Commits \cup Nat)
<1>1. Len(reviews[a].records) \in Nat
    BY DEF TypeOK, ReviewState
<1> QED
    BY <1>1 DEF AcceptanceEvidence, SatisfiedRecords

\* A gate event appends to the dispatches or to the records of one attempt, and
\* a record needs an unresolved dispatch.
LEMMA ReviewsType ==
    ASSUME TypeOK, NEW a \in AttemptIds, NEW head \in Commits, NEW verdict \in Verdicts
    PROVE  /\ ~PendingDispatch(a) =>
                 [reviews[a] EXCEPT !.dispatches = Append(reviews[a].dispatches, head)]
                    \in {r \in ReviewState : Len(r.dispatches) = Len(r.records) + 1}
           /\ PendingDispatch(a) =>
                 [reviews[a] EXCEPT !.records = Append(reviews[a].records, verdict)]
                    \in {r \in ReviewState : Len(r.dispatches) = Len(r.records)}
<1> DEFINE ds == reviews[a].dispatches
           rs == reviews[a].records
<1>1. /\ reviews[a] \in ReviewState /\ ds \in Seq(Commits) /\ rs \in Seq(Verdicts)
      /\ Len(ds) \in {Len(rs), Len(rs) + 1}
    BY DEF TypeOK, ReviewState
<1>2. /\ Append(ds, head) \in Seq(Commits) /\ Len(Append(ds, head)) = Len(ds) + 1
      /\ Append(rs, verdict) \in Seq(Verdicts) /\ Len(Append(rs, verdict)) = Len(rs) + 1
    BY <1>1
<1>3. PendingDispatch(a) <=> Len(ds) > Len(rs)
    BY DEF PendingDispatch
<1>4. Len(ds) \in Nat /\ Len(rs) \in Nat
    BY <1>1
<1>5. /\ [reviews[a] EXCEPT !.dispatches = Append(ds, head)] \in ReviewState
      /\ [reviews[a] EXCEPT !.dispatches = Append(ds, head)].dispatches = Append(ds, head)
      /\ [reviews[a] EXCEPT !.dispatches = Append(ds, head)].records = rs
    BY <1>1, <1>2, FieldTypes DEF ReviewState
<1>6. /\ [reviews[a] EXCEPT !.records = Append(rs, verdict)] \in ReviewState
      /\ [reviews[a] EXCEPT !.records = Append(rs, verdict)].dispatches = ds
      /\ [reviews[a] EXCEPT !.records = Append(rs, verdict)].records = Append(rs, verdict)
    BY <1>1, <1>2, FieldTypes DEF ReviewState
<1>7. ~PendingDispatch(a) => Len(Append(ds, head)) = Len(rs) + 1
    BY <1>1, <1>2, <1>3, <1>4
<1>8. PendingDispatch(a) => Len(Append(rs, verdict)) = Len(ds)
    BY <1>1, <1>2, <1>3, <1>4
<1> QED
    BY <1>5, <1>6, <1>7, <1>8, Zenon

-----------------------------------------------------------------------------
\* Every command, and whatever the agent does, keeps the projection well typed.
LEMMA TypeNext == TypeOK /\ [Next]_vars => TypeOK'
<1> SUFFICES ASSUME TypeOK, [Next]_vars PROVE TypeOK'
    OBVIOUS
<1> USE DEF TypeOK
<1>1. ASSUME NEW a \in AttemptIds, NEW s \in AttemptState,
             attempts' = [attempts EXCEPT ![a] = s]
      PROVE  attempts' \in [AttemptIds -> AttemptState]
    BY <1>1
<1>2. ASSUME NEW a \in AttemptIds, NEW found \in Inspected,
             worktree' = [worktree EXCEPT ![a] = found]
      PROVE  worktree' \in [AttemptIds -> Inspected]
    BY <1>2
<1>3. {BaseCommit, "absent", "incomplete"} \subseteq Inspected /\ AgentLeaves \subseteq Inspected
    BY CommitsAssumption DEF Inspected
<1>4. ASSUME NEW a \in AttemptIds, StartAttempt(a) PROVE TypeOK'
    BY <1>1, <1>2, <1>3, <1>4, TransitionType DEF StartAttempt
<1>5. ASSUME NEW a \in AttemptIds, ReconcileStartedAttempt(a) PROVE TypeOK'
    BY <1>2, <1>3, <1>5 DEF ReconcileStartedAttempt
<1>6. ASSUME NEW a \in AttemptIds, AdoptAttemptHead(a) PROVE TypeOK'
    <2>1. PICK head \in Commits :
              /\ adoption' = [adoption EXCEPT ![a] = <<attempts[a].verified, head>>]
              /\ attempts' = [attempts EXCEPT ![a] = AtHead(a, head)]
        BY <1>6 DEF AdoptAttemptHead
    <2>2. attempts[a].verified \in Commits
        BY DEF AttemptState
    <2>3. adoption' \in [AttemptIds -> {<<>>} \cup (Commits \X Commits)]
        BY <2>1, <2>2
    <2> QED
        BY <1>1, <1>6, <2>1, <2>3, TransitionType DEF AdoptAttemptHead
<1>7. ASSUME NEW a \in AttemptIds, PauseAttempt(a) PROVE TypeOK'
    BY <1>1, <1>7, PausedType DEF PauseAttempt
<1>8. ASSUME NEW a \in AttemptIds, ResumeAttempt(a) PROVE TypeOK'
    BY <1>1, <1>8, ResumedType DEF ResumeAttempt
<1>9. ASSUME NEW a \in AttemptIds, AbandonAttempt(a) PROVE TypeOK'
    BY <1>1, <1>9, TransitionType DEF AbandonAttempt
<1>10. ASSUME NEW a \in AttemptIds, DispatchAttemptReviewGate(a) PROVE TypeOK'
    <2>1. PICK head \in Commits, dispatched \in BOOLEAN :
              /\ dispatched => ~PendingDispatch(a)
              /\ adoption' = IF head = attempts[a].verified THEN adoption
                             ELSE [adoption EXCEPT ![a] = <<attempts[a].verified, head>>]
              /\ attempts' = [attempts EXCEPT ![a] = AtHead(a, head)]
              /\ reviews' = IF dispatched
                            THEN [reviews EXCEPT ![a].dispatches = Append(@, head)]
                            ELSE reviews
        BY <1>10 DEF DispatchAttemptReviewGate
    <2>2. attempts[a].verified \in Commits
        BY DEF AttemptState
    <2>3. adoption' \in [AttemptIds -> {<<>>} \cup (Commits \X Commits)]
        BY <2>1, <2>2
    <2>4. attempts' \in [AttemptIds -> AttemptState]
        BY <1>1, <2>1, TransitionType
    <2> DEFINE r == [reviews[a] EXCEPT !.dispatches = Append(reviews[a].dispatches, head)]
    <2>5. CASE dispatched
        <3>1. reviews' = [reviews EXCEPT ![a] = r]
            BY <2>1, <2>5
        <3>2. r \in ReviewState /\ Len(r.dispatches) = Len(r.records) + 1
            BY <2>1, <2>5, ReviewsType DEF Verdicts
        <3> HIDE DEF r
        <3> QED
            BY <1>10, <2>3, <2>4, <3>1, <3>2 DEF DispatchAttemptReviewGate
    <2>6. CASE ~dispatched
        BY <1>10, <2>1, <2>3, <2>4, <2>6 DEF DispatchAttemptReviewGate
    <2> QED
        BY <2>5, <2>6
<1>11. ASSUME NEW a \in AttemptIds, NEW verdict \in Verdicts,
              RecordAttemptReviewGate(a, verdict)
       PROVE  TypeOK'
    <2> DEFINE r == [reviews[a] EXCEPT !.records = Append(reviews[a].records, verdict)]
    <2>1. reviews' = [reviews EXCEPT ![a] = r]
        BY <1>11 DEF RecordAttemptReviewGate
    <2>2. r \in ReviewState /\ Len(r.dispatches) = Len(r.records)
        BY <1>11, CommitsAssumption, ReviewsType DEF RecordAttemptReviewGate
    <2> HIDE DEF r
    <2> QED
        BY <1>11, <2>1, <2>2 DEF RecordAttemptReviewGate
<1>12. ASSUME NEW a \in AttemptIds, IntendIntegration(a) PROVE TypeOK'
    BY <1>1, <1>12, TransitionType, EvidenceType DEF IntendIntegration
<1>13. ASSUME NEW a \in AttemptIds, CompleteIntegration(a) PROVE TypeOK'
    <2>1. attempts' \in [AttemptIds -> AttemptState]
        BY <1>13, TransitionType DEF CompleteIntegration
    <2>2. chain' \in Seq(AttemptIds)
        BY <1>13 DEF CompleteIntegration
    <2> QED
        BY <1>13, <2>1, <2>2 DEF CompleteIntegration
<1>14. ASSUME NEW a \in AttemptIds, AgentWorks(a) PROVE TypeOK'
    BY <1>2, <1>3, <1>14 DEF AgentWorks
<1>15. CASE RecoverAttempts
    <2>1. worktree' \in [AttemptIds -> Inspected]
        BY <1>3, <1>15 DEF RecoverAttempts
    <2> QED
        BY <1>15, <2>1 DEF RecoverAttempts
<1>16. CASE CompleteWorkspace
    BY <1>16 DEF CompleteWorkspace
<1>17. CASE UNCHANGED vars
    BY <1>17 DEF vars
<1> QED
    BY <1>4, <1>5, <1>6, <1>7, <1>8, <1>9, <1>10, <1>11, <1>12, <1>13, <1>14, <1>15,
       <1>16, <1>17 DEF Next, AttemptCommand

\* The projection that replay rebuilds is well typed in every reachable state.
THEOREM TypeCorrect == Spec => []TypeOK
<1> QED
    BY TypeInit, TypeNext, PTL DEF Spec

-----------------------------------------------------------------------------
(* Who may be in flight *)

\* The fields that each transition of an attempt sets, and those it keeps.
LEMMA Effects ==
    ASSUME TypeOK, NEW a \in AttemptIds
    PROVE  LET s == attempts[a] IN
           /\ LET t == Reserved(a) IN
              /\ t.phase = "active" /\ t.base = CreatedHead
              /\ t.held <=> Segment[Unit(a)] # NoSegment
              /\ t.integration = s.integration /\ t.accepted = s.accepted
              /\ t.verified = s.verified /\ t.evidence = s.evidence
           /\ \A head \in Commits : LET t == AtHead(a, head) IN
              /\ t.verified = head /\ t.phase = s.phase /\ t.base = s.base
              /\ t.held = s.held /\ t.integration = s.integration
              /\ t.accepted = s.accepted /\ t.evidence = s.evidence
           /\ LET t == Resumed(a) IN
              /\ t.phase = "active" /\ t.base = s.base
              /\ t.held <=> Segment[Unit(a)] # NoSegment
              /\ t.integration = s.integration /\ t.accepted = s.accepted
              /\ t.evidence = s.evidence
           /\ LET t == Abandoned(a) IN
              /\ t.phase = "abandoned" /\ ~t.held /\ t.base = s.base
              /\ t.integration = s.integration /\ t.accepted = s.accepted
              /\ t.verified = s.verified /\ t.evidence = s.evidence
           /\ \A evidence : LET t == Promised(a, evidence) IN
              /\ t.integration = "intended" /\ t.accepted = s.verified
              /\ t.evidence = evidence /\ t.phase = s.phase /\ t.base = s.base
              /\ t.held = s.held /\ t.verified = s.verified
           /\ LET t == Integrated(a) IN
              /\ t.phase = "completed" /\ ~t.held /\ t.integration = "integrated"
              /\ t.base = s.base /\ t.accepted = s.accepted
              /\ t.verified = s.verified /\ t.evidence = s.evidence
           /\ LET t == Superseded(a) IN
              /\ t.phase = "superseded" /\ ~t.held /\ t.integration = s.integration
              /\ t.base = s.base /\ t.accepted = s.accepted
              /\ t.verified = s.verified /\ t.evidence = s.evidence
<1>1. attempts[a] \in AttemptState
    BY DEF TypeOK
<1> QED
    BY <1>1 DEF AttemptState, Reserved, AtHead, Resumed, Abandoned, Promised, Integrated,
                Superseded

\* A pause records the reported head, gives up the segment and keeps the rest.
LEMMA PausedEffects ==
    ASSUME TypeOK, NEW a \in AttemptIds, NEW head \in Commits, NEW kind
    PROVE  LET s == attempts[a]
               t == Paused(a, head, kind) IN
           /\ t.phase = "paused" /\ ~t.held /\ t.verified = head /\ t.base = s.base
           /\ t.integration = s.integration /\ t.accepted = s.accepted
           /\ t.evidence = s.evidence
<1>1. attempts[a] \in AttemptState
    BY DEF TypeOK
<1> QED
    BY <1>1 DEF AttemptState, Paused

\* An in-flight attempt is updated in place: it stays in flight or is abandoned,
\* nothing is integrated and every other attempt is left alone.
InFlightUpdate(a) ==
    /\ Nonterminal(a)
    /\ attempts'[a].phase \in {"active", "paused", "abandoned"}
    /\ attempts'[a].base = attempts[a].base
    /\ attempts'[a].integration # attempts[a].integration
          => attempts[a].integration = "none" /\ attempts'[a].integration = "intended"
    /\ \A b \in AttemptIds \ {a} : attempts'[b] = attempts[b]
    /\ UNCHANGED chain

\* A step reserves an attempt, updates one in place, integrates one, or changes
\* neither the attempts nor the chain.
LEMMA StepKinds ==
    ASSUME TypeOK, Next
    PROVE  \/ \E a \in AttemptIds : StartAttempt(a)
           \/ \E a \in AttemptIds : InFlightUpdate(a)
           \/ \E a \in AttemptIds : CompleteIntegration(a)
           \/ UNCHANGED <<attempts, chain>>
<1> USE DEF InFlightUpdate, Nonterminal, Frozen
<1>1. ASSUME NEW a \in AttemptIds, AttemptCommand(a)
      PROVE  \/ StartAttempt(a) \/ InFlightUpdate(a) \/ CompleteIntegration(a)
             \/ UNCHANGED <<attempts, chain>>
    <2>1. CASE AdoptAttemptHead(a)
        BY <2>1, Effects DEF AdoptAttemptHead, TypeOK
    <2>2. CASE PauseAttempt(a)
        BY <2>2, PausedEffects DEF PauseAttempt, TypeOK
    <2>3. CASE ResumeAttempt(a)
        BY <2>3, Effects DEF ResumeAttempt, CurrentBoundary, TypeOK
    <2>4. CASE AbandonAttempt(a)
        BY <2>4, Effects DEF AbandonAttempt, TypeOK
    <2>5. CASE DispatchAttemptReviewGate(a)
        BY <2>5, Effects DEF DispatchAttemptReviewGate, TypeOK
    <2>6. CASE IntendIntegration(a)
        BY <2>6, Effects DEF IntendIntegration, AcceptanceConfirmed, TypeOK, AttemptState
    <2>7. CASE ReconcileStartedAttempt(a)
        BY <2>7 DEF ReconcileStartedAttempt
    <2>8. CASE \E verdict \in Verdicts : RecordAttemptReviewGate(a, verdict)
        BY <2>8 DEF RecordAttemptReviewGate
    <2> QED
        BY <1>1, <2>1, <2>2, <2>3, <2>4, <2>5, <2>6, <2>7, <2>8 DEF AttemptCommand
<1>2. ASSUME NEW a \in AttemptIds, AgentWorks(a) PROVE UNCHANGED <<attempts, chain>>
    BY <1>2 DEF AgentWorks
<1>3. RecoverAttempts \/ CompleteWorkspace => UNCHANGED <<attempts, chain>>
    BY DEF RecoverAttempts, CompleteWorkspace
<1> QED
    BY <1>1, <1>2, <1>3 DEF Next

\* What an integration makes of the attempts: the integrated one completes, and
\* every other one in flight is superseded.
LEMMA IntegrationEffects ==
    ASSUME TypeOK, NEW a \in AttemptIds, CompleteIntegration(a)
    PROVE  /\ attempts[a].phase = "active"
           /\ attempts'[a] = Integrated(a)
           /\ \A b \in AttemptIds \ {a} :
                 /\ Nonterminal(b) => attempts'[b] = Superseded(b)
                 /\ ~Nonterminal(b) => attempts'[b] = attempts[b]
           /\ \A b \in AttemptIds : ~Nonterminal(b)'
           /\ \A b \in AttemptIds : Started(b)' <=> Started(b)
<1>1. attempts[a].phase = "active"
    BY DEF CompleteIntegration, AcceptanceConfirmed
<1>2. \A b \in AttemptIds :
          attempts'[b] = CASE b = a                   -> Integrated(b)
                           [] b # a /\ Nonterminal(b) -> Superseded(b)
                           [] OTHER                   -> attempts[b]
    BY DEF CompleteIntegration
<1>3. ASSUME NEW b \in AttemptIds
      PROVE  /\ Integrated(b).phase = "completed"
             /\ Superseded(b).phase = "superseded"
    BY Effects
<1> QED
    BY <1>1, <1>2, <1>3 DEF Nonterminal, Started

\* At most one attempt of a unit is its latest.
LEMMA LatestUnique ==
    ASSUME NEW a \in AttemptIds, NEW b \in AttemptIds,
           LatestAttempt(a), LatestAttempt(b), Unit(a) = Unit(b)
    PROVE  a = b
BY AttemptIdentity DEF LatestAttempt

\* With an empty journal nothing is in flight and nothing was integrated.
LEMMA LatestInit == Init => LiveAttemptIsLatest
BY DEF Init, LiveAttemptIsLatest, NotStarted

\* An attempt starts only when it is the next of its unit and no other is in
\* flight, and only the completion record puts an attempt into the chain.
LEMMA LatestNext ==
    ASSUME TypeOK, LiveAttemptIsLatest, [Next]_vars
    PROVE  LiveAttemptIsLatest'
<1> USE DEF TypeOK
<1>1. ASSUME NEW a \in AttemptIds, StartAttempt(a) PROVE LiveAttemptIsLatest'
    <2>1. /\ attempts'[a] = Reserved(a)
          /\ \A b \in AttemptIds \ {a} : attempts'[b] = attempts[b]
          /\ chain' = chain
        BY <1>1 DEF StartAttempt
    <2>2. /\ attempts[a].phase = "none" /\ attempts'[a].phase = "active"
          /\ attempts'[a].integration = attempts[a].integration
        BY <1>1, <2>1, Effects DEF StartAttempt, NextAttempt, Started
    <2>3. \A b \in AttemptIds : Started(b)' <=> Started(b) \/ b = a
        BY <2>1, <2>2 DEF Started
    <2>4. LatestAttempt(a)'
        BY <1>1, <2>3, AttemptIdentity DEF StartAttempt, NextAttempt, LatestAttempt
    <2>5. ASSUME NEW b \in AttemptIds \ {a},
                 attempts[b].phase \in {"active", "paused", "completed"}
          PROVE  LatestAttempt(b)'
        <3>1. LatestAttempt(b)
            BY <2>5 DEF LiveAttemptIsLatest
        <3>2. Unit(b) # Unit(a)
            BY <1>1, <2>5, <3>1 DEF StartAttempt, SchedulerReady
        <3> QED
            BY <2>3, <3>1, <3>2 DEF LatestAttempt
    <2> QED
        BY <2>1, <2>2, <2>4, <2>5 DEF LiveAttemptIsLatest
<1>2. ASSUME NEW a \in AttemptIds, InFlightUpdate(a) PROVE LiveAttemptIsLatest'
    <2>1. \A b \in AttemptIds : Started(b)' <=> Started(b)
        BY <1>2 DEF InFlightUpdate, Nonterminal, Started
    <2>2. \A b \in AttemptIds : LatestAttempt(b)' <=> LatestAttempt(b)
        BY <2>1 DEF LatestAttempt
    <2>3. LatestAttempt(a) /\ attempts[a].phase # "completed"
        BY <1>2 DEF InFlightUpdate, Nonterminal, LiveAttemptIsLatest
    <2> QED
        BY <1>2, <2>2, <2>3 DEF InFlightUpdate, LiveAttemptIsLatest
<1>3. ASSUME NEW a \in AttemptIds, CompleteIntegration(a) PROVE LiveAttemptIsLatest'
    <2>1. \A b \in AttemptIds : LatestAttempt(b)' <=> LatestAttempt(b)
        BY <1>3, IntegrationEffects DEF LatestAttempt
    <2>2. chain' = Append(chain, a) /\ chain \in Seq(AttemptIds)
        BY <1>3 DEF CompleteIntegration
    <2>3. \A b \in AttemptIds : (\E k \in 1..Len(chain') : chain'[k] = b)
                                    <=> b = a \/ \E k \in 1..Len(chain) : chain[k] = b
        BY <2>2
    <2>4. /\ attempts'[a].phase = "completed" /\ attempts'[a].integration = "integrated"
          /\ LatestAttempt(a)
        BY <1>3, IntegrationEffects, Effects DEF CompleteIntegration, AcceptanceConfirmed
    <2>5. ASSUME NEW b \in AttemptIds \ {a}
          PROVE  /\ attempts'[b].phase = "completed" <=> attempts[b].phase = "completed"
                 /\ attempts'[b].integration = attempts[b].integration
                 /\ attempts'[b].phase \in {"active", "paused", "completed"}
                       => attempts[b].phase = "completed"
        <3>1. \/ Nonterminal(b) /\ attempts'[b] = Superseded(b)
              \/ ~Nonterminal(b) /\ attempts'[b] = attempts[b]
            BY <1>3, IntegrationEffects
        <3>2. /\ Superseded(b).phase = "superseded"
              /\ Superseded(b).integration = attempts[b].integration
            BY Effects
        <3> QED
            BY <3>1, <3>2 DEF Nonterminal
    <2> QED
        BY <2>1, <2>3, <2>4, <2>5 DEF LiveAttemptIsLatest
<1>4. CASE UNCHANGED <<attempts, chain>>
    BY <1>4 DEF LiveAttemptIsLatest, LatestAttempt, Started
<1>5. CASE UNCHANGED vars
    BY <1>4, <1>5 DEF vars
<1> QED
    BY <1>1, <1>2, <1>3, <1>4, <1>5, StepKinds

\* Only an integration moves the feature head, and it supersedes whatever started
\* from the head before.
LEMMA FrontierNext ==
    ASSUME TypeOK, InFlightOnFrontier, [Next]_vars
    PROVE  InFlightOnFrontier'
<1> USE DEF TypeOK, InFlightOnFrontier, Nonterminal
<1>1. ASSUME NEW a \in AttemptIds, StartAttempt(a) PROVE InFlightOnFrontier'
    BY <1>1, Effects DEF StartAttempt, CreatedHead
<1>2. ASSUME NEW a \in AttemptIds, InFlightUpdate(a) PROVE InFlightOnFrontier'
    BY <1>2 DEF InFlightUpdate, CreatedHead
<1>3. ASSUME NEW a \in AttemptIds, CompleteIntegration(a) PROVE InFlightOnFrontier'
    BY <1>3, IntegrationEffects
<1>4. CASE UNCHANGED <<attempts, chain>>
    BY <1>4 DEF CreatedHead
<1>5. CASE UNCHANGED vars
    BY <1>4, <1>5 DEF vars
<1> QED
    BY <1>1, <1>2, <1>3, <1>4, <1>5, StepKinds

\* A step that keeps who holds its segment, or takes a free one, keeps the
\* segments exclusive.
LEMMA SegmentNext ==
    ASSUME TypeOK, SerialSegmentExclusive, [Next]_vars
    PROVE  SerialSegmentExclusive'
<1> USE DEF TypeOK, SerialSegmentExclusive, SegmentFree
<1>1. ASSUME NEW a \in AttemptIds, StartAttempt(a) PROVE SerialSegmentExclusive'
    BY <1>1, Effects DEF StartAttempt
<1>2. ASSUME NEW a \in AttemptIds, AdoptAttemptHead(a) PROVE SerialSegmentExclusive'
    BY <1>2, Effects DEF AdoptAttemptHead
<1>3. ASSUME NEW a \in AttemptIds, PauseAttempt(a) PROVE SerialSegmentExclusive'
    BY <1>3, PausedEffects DEF PauseAttempt
<1>4. ASSUME NEW a \in AttemptIds, ResumeAttempt(a) PROVE SerialSegmentExclusive'
    BY <1>4, Effects DEF ResumeAttempt
<1>5. ASSUME NEW a \in AttemptIds, AbandonAttempt(a) PROVE SerialSegmentExclusive'
    BY <1>5, Effects DEF AbandonAttempt
<1>6. ASSUME NEW a \in AttemptIds, DispatchAttemptReviewGate(a) PROVE SerialSegmentExclusive'
    BY <1>6, Effects DEF DispatchAttemptReviewGate
<1>7. ASSUME NEW a \in AttemptIds, IntendIntegration(a) PROVE SerialSegmentExclusive'
    BY <1>7, Effects DEF IntendIntegration
<1>8. ASSUME NEW a \in AttemptIds, CompleteIntegration(a) PROVE SerialSegmentExclusive'
    <2>1. ASSUME NEW b \in AttemptIds PROVE attempts'[b].phase # "active" /\ ~attempts'[b].held
        <3>1. \/ attempts'[b] = Integrated(b)
              \/ attempts'[b] = Superseded(b)
              \/ ~Nonterminal(b) /\ attempts'[b] = attempts[b]
            BY <1>8, IntegrationEffects
        <3>2. /\ Integrated(b).phase = "completed" /\ ~Integrated(b).held
              /\ Superseded(b).phase = "superseded" /\ ~Superseded(b).held
            BY Effects
        <3> QED
            BY <3>1, <3>2 DEF Nonterminal
    <2> QED
        BY <2>1
<1>9. ASSUME NEW a \in AttemptIds,
             \/ ReconcileStartedAttempt(a) \/ AgentWorks(a)
             \/ \E verdict \in Verdicts : RecordAttemptReviewGate(a, verdict)
      PROVE  SerialSegmentExclusive'
    BY <1>9 DEF ReconcileStartedAttempt, AgentWorks, RecordAttemptReviewGate
<1>10. CASE RecoverAttempts \/ CompleteWorkspace \/ UNCHANGED vars
    BY <1>10 DEF RecoverAttempts, CompleteWorkspace, vars
<1> QED
    BY <1>1, <1>2, <1>3, <1>4, <1>5, <1>6, <1>7, <1>8, <1>9, <1>10
       DEF Next, AttemptCommand

\* An intent needs that no other is pending; every other command leaves a frozen
\* attempt as it is.
LEMMA PendingNext ==
    ASSUME TypeOK, LiveAttemptIsLatest, OnePendingIntegration, [Next]_vars
    PROVE  OnePendingIntegration'
<1> USE DEF TypeOK, OnePendingIntegration, Intended, Frozen
<1>1. ASSUME NEW a \in AttemptIds, StartAttempt(a) PROVE OnePendingIntegration'
    BY <1>1, Effects DEF StartAttempt, NextAttempt, Started
<1>2. ASSUME NEW a \in AttemptIds, AdoptAttemptHead(a) PROVE OnePendingIntegration'
    BY <1>2, Effects DEF AdoptAttemptHead
<1>3. ASSUME NEW a \in AttemptIds, PauseAttempt(a) PROVE OnePendingIntegration'
    BY <1>3, PausedEffects DEF PauseAttempt
<1>4. ASSUME NEW a \in AttemptIds, ResumeAttempt(a) PROVE OnePendingIntegration'
    BY <1>4, Effects DEF ResumeAttempt
<1>5. ASSUME NEW a \in AttemptIds, AbandonAttempt(a) PROVE OnePendingIntegration'
    BY <1>5, Effects DEF AbandonAttempt
<1>6. ASSUME NEW a \in AttemptIds, DispatchAttemptReviewGate(a) PROVE OnePendingIntegration'
    BY <1>6, Effects DEF DispatchAttemptReviewGate
<1>7. ASSUME NEW a \in AttemptIds, IntendIntegration(a) PROVE OnePendingIntegration'
    BY <1>7, Effects DEF IntendIntegration, AcceptanceConfirmed
<1>8. ASSUME NEW a \in AttemptIds, CompleteIntegration(a) PROVE OnePendingIntegration'
    <2>1. ASSUME NEW b \in AttemptIds
          PROVE  /\ ~Intended(b)'
                 /\ Frozen(b)' => attempts'[b].accepted = attempts'[b].verified
        BY <1>8, IntegrationEffects, Effects DEF CompleteIntegration
    <2> QED
        BY <2>1
<1>9. ASSUME NEW a \in AttemptIds,
             \/ ReconcileStartedAttempt(a) \/ AgentWorks(a)
             \/ \E verdict \in Verdicts : RecordAttemptReviewGate(a, verdict)
      PROVE  OnePendingIntegration'
    BY <1>9 DEF ReconcileStartedAttempt, AgentWorks, RecordAttemptReviewGate
<1>10. CASE RecoverAttempts \/ CompleteWorkspace \/ UNCHANGED vars
    BY <1>10 DEF RecoverAttempts, CompleteWorkspace, vars
<1> QED
    BY <1>1, <1>2, <1>3, <1>4, <1>5, <1>6, <1>7, <1>8, <1>9, <1>10
       DEF Next, AttemptCommand

\* A completion record extends the chain by an attempt that started from its end,
\* of a unit that is not in it and whose dependencies are.
LEMMA ChainNext ==
    ASSUME TypeOK, LiveAttemptIsLatest, ChainInDependencyOrder, [Next]_vars
    PROVE  ChainInDependencyOrder'
<1> USE DEF TypeOK
<1>1. \A k \in 1..Len(chain) : chain[k] \in AttemptIds
    OBVIOUS
<1>2. ASSUME NEW a \in AttemptIds, StartAttempt(a) PROVE ChainInDependencyOrder'
    <2>1. attempts[a].phase = "none"
        BY <1>2 DEF StartAttempt, NextAttempt, Started
    <2>2. \A k \in 1..Len(chain) : attempts'[chain[k]] = attempts[chain[k]]
        BY <1>1, <1>2, <2>1 DEF ChainInDependencyOrder, StartAttempt
    <2>3. chain' = chain
        BY <1>2 DEF StartAttempt
    <2>4. \A k \in 1..Len(chain) :
              attempts'[chain[k]].phase = "completed" /\ attempts'[chain[k]].base = k - 1
        BY <2>2 DEF ChainInDependencyOrder
    <2>5. ASSUME NEW k \in 1..Len(chain)
          PROVE  /\ \A j \in 1..Len(chain) : Unit(chain[j]) = Unit(chain[k]) => j = k
                 /\ \A d \in Deps[Unit(chain[k])] : \E j \in 1..(k - 1) : Unit(chain[j]) = d
        BY DEF ChainInDependencyOrder
    <2>6. ASSUME NEW k \in 1..Len(chain')
          PROVE  /\ attempts'[chain'[k]].phase = "completed"
                 /\ attempts'[chain'[k]].base = k - 1
                 /\ \A j \in 1..Len(chain') : Unit(chain'[j]) = Unit(chain'[k]) => j = k
                 /\ \A d \in Deps[Unit(chain'[k])] :
                       \E j \in 1..(k - 1) : Unit(chain'[j]) = d
        BY <2>3, <2>4, <2>5
    <2> QED
        BY <2>6 DEF ChainInDependencyOrder
<1>3. ASSUME NEW a \in AttemptIds, InFlightUpdate(a) PROVE ChainInDependencyOrder'
    BY <1>1, <1>3 DEF ChainInDependencyOrder, InFlightUpdate, Nonterminal
<1>4. ASSUME NEW a \in AttemptIds, CompleteIntegration(a) PROVE ChainInDependencyOrder'
    <2> DEFINE n == Len(chain)
    <2>1. /\ chain' = Append(chain, a) /\ Len(chain') = n + 1 /\ n \in Nat
          /\ chain'[n + 1] = a
          /\ \A k \in 1..n : chain'[k] = chain[k]
        BY <1>4 DEF CompleteIntegration
    <2>2. /\ attempts'[a].phase = "completed" /\ attempts'[a].base = n
          /\ LatestAttempt(a) /\ attempts[a].phase = "active"
        BY <1>4, IntegrationEffects, Effects
           DEF CompleteIntegration, AcceptanceConfirmed, CreatedHead
    <2>3. ASSUME NEW k \in 1..n
          PROVE  /\ chain[k] # a
                 /\ attempts'[chain[k]] = attempts[chain[k]]
                 /\ Unit(chain[k]) # Unit(a)
        <3>1. attempts[chain[k]].phase = "completed" /\ chain[k] # a
            BY <2>2 DEF ChainInDependencyOrder
        <3>2. LatestAttempt(chain[k])
            BY <1>1, <3>1 DEF LiveAttemptIsLatest
        <3>3. attempts'[chain[k]] = attempts[chain[k]]
            BY <1>1, <1>4, <3>1, IntegrationEffects DEF Nonterminal
        <3> QED
            BY <1>1, <2>2, <3>1, <3>2, <3>3, LatestUnique
    <2>4. ASSUME NEW d \in Deps[Unit(a)]
          PROVE  \E j \in 1..n : Unit(chain[j]) = d
        <3>1. UnitCompleted(d)
            BY <1>4 DEF CompleteIntegration, AcceptanceConfirmed, DependenciesCompleted
        <3> QED
            BY <3>1 DEF UnitCompleted, LiveAttemptIsLatest
    <2>5. 1..Len(chain') = 1..n \cup {n + 1}
        BY <2>1
    <2>6. ASSUME NEW k \in 1..Len(chain'), k = n + 1
          PROVE  /\ attempts'[chain'[k]].phase = "completed"
                 /\ attempts'[chain'[k]].base = k - 1
                 /\ \A j \in 1..Len(chain') : Unit(chain'[j]) = Unit(chain'[k]) => j = k
                 /\ \A d \in Deps[Unit(chain'[k])] :
                       \E j \in 1..(k - 1) : Unit(chain'[j]) = d
        BY <2>1, <2>2, <2>3, <2>4, <2>6
    <2>7. ASSUME NEW k \in 1..n
          PROVE  /\ attempts'[chain'[k]].phase = "completed"
                 /\ attempts'[chain'[k]].base = k - 1
                 /\ \A j \in 1..Len(chain') : Unit(chain'[j]) = Unit(chain'[k]) => j = k
                 /\ \A d \in Deps[Unit(chain'[k])] :
                       \E j \in 1..(k - 1) : Unit(chain'[j]) = d
        <3>1. k \in 1..Len(chain) /\ chain'[k] = chain[k] /\ 1..(k - 1) \subseteq 1..n
            BY <2>1
        <3>2. ASSUME NEW j \in 1..Len(chain'), Unit(chain'[j]) = Unit(chain[k])
              PROVE  j = k
            <4>1. j # n + 1
                BY <2>1, <2>3, <3>2
            <4>2. j \in 1..n /\ chain'[j] = chain[j]
                BY <2>1, <2>5, <4>1
            <4> QED
                BY <3>2, <4>2 DEF ChainInDependencyOrder
        <3>3. ASSUME NEW d \in Deps[Unit(chain[k])]
              PROVE  \E j \in 1..(k - 1) : Unit(chain'[j]) = d
            <4>1. PICK j \in 1..(k - 1) : Unit(chain[j]) = d
                BY <3>1 DEF ChainInDependencyOrder
            <4> QED
                BY <2>1, <3>1, <4>1
        <3>4. attempts[chain[k]].phase = "completed" /\ attempts[chain[k]].base = k - 1
            BY <3>1 DEF ChainInDependencyOrder
        <3> QED
            BY <2>3, <3>1, <3>2, <3>3, <3>4
    <2> QED
        BY <2>6, <2>7, <2>5 DEF ChainInDependencyOrder
<1>5. CASE UNCHANGED <<attempts, chain>>
    BY <1>5 DEF ChainInDependencyOrder
<1>6. CASE UNCHANGED vars
    BY <1>5, <1>6 DEF vars
<1> QED
    BY <1>2, <1>3, <1>4, <1>5, <1>6, StepKinds

-----------------------------------------------------------------------------
(* Accepted evidence *)

\* Gate records and dispatches are appended, never rewritten.
LEMMA ReviewsGrow ==
    ASSUME TypeOK, [Next]_vars, NEW a \in AttemptIds,
           NEW k \in 1..Len(reviews[a].records)
    PROVE  /\ k \in 1..Len(reviews'[a].records)
           /\ reviews'[a].records[k] = reviews[a].records[k]
           /\ reviews'[a].dispatches[k] = reviews[a].dispatches[k]
<1> DEFINE ds == reviews[a].dispatches
           rs == reviews[a].records
<1>1. /\ ds \in Seq(Commits) /\ rs \in Seq(Verdicts)
      /\ k \in 1..Len(rs) /\ k \in 1..Len(ds)
    BY DEF TypeOK, ReviewState
<1>2. ASSUME NEW head, head \in Commits
      PROVE  Append(ds, head)[k] = ds[k]
    BY <1>1, <1>2
<1>3. ASSUME NEW verdict \in Verdicts
      PROVE  Append(rs, verdict)[k] = rs[k] /\ k \in 1..Len(Append(rs, verdict))
    BY <1>1
<1> HIDE DEF ds, rs
<1>4. ASSUME NEW b \in AttemptIds, DispatchAttemptReviewGate(b)
      PROVE  reviews'[a].records = rs
             /\ (reviews'[a].dispatches = ds
                    \/ \E head \in Commits : reviews'[a].dispatches = Append(ds, head))
    <2>1. PICK head \in Commits, dispatched \in BOOLEAN :
              reviews' = IF dispatched
                         THEN [reviews EXCEPT ![b].dispatches = Append(@, head)]
                         ELSE reviews
        BY <1>4 DEF DispatchAttemptReviewGate
    <2>2. reviews \in [AttemptIds -> ReviewState]
        BY DEF TypeOK
    <2>3. CASE dispatched
        BY <2>1, <2>2, <2>3 DEF ReviewState, ds, rs
    <2>4. CASE ~dispatched
        BY <2>1, <2>4 DEF ds, rs
    <2> QED
        BY <2>3, <2>4
<1>5. ASSUME NEW b \in AttemptIds, NEW verdict \in Verdicts, RecordAttemptReviewGate(b, verdict)
      PROVE  reviews'[a].dispatches = ds
             /\ (reviews'[a].records = rs \/ reviews'[a].records = Append(rs, verdict))
    BY <1>5 DEF RecordAttemptReviewGate, TypeOK, ReviewState, ds, rs
<1>6. \/ \E b \in AttemptIds : DispatchAttemptReviewGate(b)
      \/ \E b \in AttemptIds, verdict \in Verdicts : RecordAttemptReviewGate(b, verdict)
      \/ UNCHANGED reviews
    BY DEF Next, AttemptCommand, StartAttempt, ReconcileStartedAttempt, AdoptAttemptHead,
           PauseAttempt, ResumeAttempt, AbandonAttempt, IntendIntegration,
           CompleteIntegration, AgentWorks, RecoverAttempts, CompleteWorkspace, vars
<1>7. CASE \E b \in AttemptIds : DispatchAttemptReviewGate(b)
    BY <1>1, <1>2, <1>4, <1>7 DEF ds, rs
<1>8. CASE \E b \in AttemptIds, verdict \in Verdicts : RecordAttemptReviewGate(b, verdict)
    BY <1>1, <1>3, <1>5, <1>8 DEF ds, rs
<1>9. CASE UNCHANGED reviews
    BY <1>1, <1>9 DEF ds, rs
<1> QED
    BY <1>6, <1>7, <1>8, <1>9

\* What AcceptedHeadHasEvidence says of one attempt.
Supported(a) ==
    IF Unit(a) \in Gated
    THEN \E k \in attempts[a].evidence \cap (1..Len(reviews[a].records)) :
            /\ reviews[a].records[k] = "satisfied"
            /\ reviews[a].dispatches[k] = attempts[a].accepted
    ELSE \E prior \in attempts[a].evidence : adoption[a] = <<prior, attempts[a].accepted>>

\* Confirmed acceptance evidence supports the head it was confirmed for.
LEMMA ConfirmedSupported ==
    ASSUME TypeOK, NEW a \in AttemptIds, IntendIntegration(a)
    PROVE  Supported(a)'
<1>1. /\ attempts'[a].accepted = attempts[a].verified
      /\ attempts'[a].evidence = AcceptanceEvidence(a)
      /\ AcceptanceEvidence(a) # {}
      /\ reviews' = reviews /\ adoption' = adoption
    BY Effects DEF IntendIntegration, AcceptanceConfirmed, TypeOK
<1>2. CASE Unit(a) \in Gated
    <2>1. PICK k \in AcceptanceEvidence(a) : k \in SatisfiedRecords(a, attempts[a].verified)
        BY <1>1, <1>2 DEF AcceptanceEvidence
    <2> QED
        BY <1>1, <1>2, <2>1 DEF Supported, SatisfiedRecords
<1>3. CASE Unit(a) \notin Gated
    BY <1>1, <1>3 DEF Supported, AcceptanceEvidence
<1> QED
    BY <1>2, <1>3

\* A step that leaves the promise of an attempt alone leaves its support.
LEMMA SupportKept ==
    ASSUME TypeOK, [Next]_vars, NEW a \in AttemptIds, Supported(a),
           attempts'[a].accepted = attempts[a].accepted,
           attempts'[a].evidence = attempts[a].evidence,
           Unit(a) \notin Gated => adoption'[a] = adoption[a]
    PROVE  Supported(a)'
BY ReviewsGrow DEF Supported

\* The evidence of an intent supports its accepted head, and no later step takes
\* that support away.
LEMMA EvidenceNext ==
    ASSUME TypeOK, LiveAttemptIsLatest, OnePendingIntegration, AcceptedHeadHasEvidence,
           [Next]_vars
    PROVE  AcceptedHeadHasEvidence'
<1> SUFFICES ASSUME NEW a \in AttemptIds, Frozen(a)' PROVE Supported(a)'
    BY DEF AcceptedHeadHasEvidence, Supported
<1>1. Frozen(a) => Supported(a)
    BY DEF AcceptedHeadHasEvidence, Supported
<1> DEFINE Kept == /\ Frozen(a)
                   /\ attempts'[a].accepted = attempts[a].accepted
                   /\ attempts'[a].evidence = attempts[a].evidence
                   /\ Unit(a) \notin Gated => adoption'[a] = adoption[a]
<1>2. Kept => Supported(a)'
    BY <1>1, SupportKept
<1> USE DEF TypeOK, Frozen
<1>3. ASSUME NEW b \in AttemptIds, StartAttempt(b) PROVE Kept
    BY <1>3, Effects DEF StartAttempt
<1>4. ASSUME NEW b \in AttemptIds, AdoptAttemptHead(b) PROVE Kept
    BY <1>4, Effects DEF AdoptAttemptHead
<1>5. ASSUME NEW b \in AttemptIds, PauseAttempt(b) PROVE Kept
    BY <1>5, PausedEffects DEF PauseAttempt
<1>6. ASSUME NEW b \in AttemptIds, ResumeAttempt(b) PROVE Kept
    BY <1>6, Effects DEF ResumeAttempt
<1>7. ASSUME NEW b \in AttemptIds, AbandonAttempt(b) PROVE Kept
    BY <1>7, Effects DEF AbandonAttempt
<1>8. ASSUME NEW b \in AttemptIds, DispatchAttemptReviewGate(b) PROVE Kept
    BY <1>8, Effects DEF DispatchAttemptReviewGate
<1>9. ASSUME NEW b \in AttemptIds, IntendIntegration(b) PROVE Supported(a)'
    <2>1. CASE b = a
        BY <1>9, <2>1, ConfirmedSupported
    <2>2. CASE b # a
        BY <1>2, <1>9, <2>2 DEF IntendIntegration
    <2> QED
        BY <2>1, <2>2
<1>10. ASSUME NEW b \in AttemptIds, CompleteIntegration(b) PROVE Kept
    BY <1>10, IntegrationEffects, Effects DEF CompleteIntegration, Intended
<1>11. ASSUME NEW b \in AttemptIds,
              \/ ReconcileStartedAttempt(b) \/ AgentWorks(b)
              \/ \E verdict \in Verdicts : RecordAttemptReviewGate(b, verdict)
       PROVE  Kept
    BY <1>11 DEF ReconcileStartedAttempt, AgentWorks, RecordAttemptReviewGate
<1>12. CASE RecoverAttempts \/ CompleteWorkspace \/ UNCHANGED vars
    <2> Kept
        BY <1>12 DEF RecoverAttempts, CompleteWorkspace, vars
    <2> QED
        BY <1>2
<1> HIDE DEF Kept
<1> QED
    BY <1>2, <1>3, <1>4, <1>5, <1>6, <1>7, <1>8, <1>9, <1>10, <1>11, <1>12
       DEF Next, AttemptCommand

-----------------------------------------------------------------------------
(* Leases and boundaries *)

\* What LeaseEpochFenced says of the projection of one attempt, and that no event
\* has touched one that is only reserved.
Fenced(s) ==
    LET last == Len(s.boundaries) IN
    /\ s.lease = (IF s.phase = "active" THEN last + 1 ELSE 0)
    /\ \A k \in 1..last :
          s.boundaries[k].resumed
             \/ (k = last /\ s.phase \notin {"none", "active", "completed"})
    /\ s.phase = "paused" =>
          /\ last > 0
          /\ ~s.boundaries[last].resumed
          /\ s.verified = s.boundaries[last].head
    /\ s.phase = "none" => s.boundaries = <<>>

LeasesFenced == \A a \in AttemptIds : Fenced(attempts[a])

\* What each transition makes of the lease and of the boundaries.
LEMMA LeaseEffects ==
    ASSUME TypeOK, NEW a \in AttemptIds
    PROVE  LET s == attempts[a] IN
           /\ LET t == Reserved(a) IN
              t.phase = "active" /\ t.lease = 1 /\ t.boundaries = s.boundaries
           /\ \A head \in Commits : LET t == AtHead(a, head) IN
              t.phase = s.phase /\ t.lease = s.lease /\ t.boundaries = s.boundaries
           /\ LET t == Resumed(a) IN
              /\ t.phase = "active" /\ t.lease = Len(s.boundaries) + 1
              /\ t.boundaries = [s.boundaries EXCEPT ![Len(s.boundaries)].resumed = TRUE]
           /\ LET t == Abandoned(a) IN
              t.phase = "abandoned" /\ t.lease = 0 /\ t.boundaries = s.boundaries
           /\ \A evidence : LET t == Promised(a, evidence) IN
              /\ t.phase = s.phase /\ t.lease = s.lease /\ t.boundaries = s.boundaries
              /\ t.verified = s.verified
           /\ LET t == Integrated(a) IN
              t.phase = "completed" /\ t.lease = 0 /\ t.boundaries = s.boundaries
           /\ LET t == Superseded(a) IN
              t.phase = "superseded" /\ t.lease = 0 /\ t.boundaries = s.boundaries
<1>1. attempts[a] \in AttemptState
    BY DEF TypeOK
<1> QED
    BY <1>1 DEF AttemptState, Reserved, AtHead, Resumed, Abandoned, Promised,
                Integrated, Superseded

\* An attempt that keeps its boundaries stays fenced if it keeps its phase and
\* lease, or ends without a lease.
LEMMA FencedKept ==
    ASSUME NEW s, NEW t, Fenced(s), t.boundaries = s.boundaries,
           \/ /\ t.phase = s.phase /\ t.lease = s.lease
              /\ t.verified = s.verified \/ s.phase = "active"
           \/ t.lease = 0 /\ t.phase \in {"abandoned", "superseded"}
                 /\ s.phase \in {"active", "paused"}
           \/ t.lease = 0 /\ t.phase = "completed" /\ s.phase = "active"
    PROVE  Fenced(t)
BY DEF Fenced

\* A pause adds the only boundary that is not resumed.
LEMMA PausedFenced ==
    ASSUME TypeOK, NEW a \in AttemptIds, Fenced(attempts[a]), attempts[a].phase = "active",
           NEW head \in Commits, NEW kind \in BoundaryKinds[Unit(a)]
    PROVE  Fenced(Paused(a, head, kind))
<1> DEFINE bs   == attempts[a].boundaries
           b    == [kind |-> kind, head |-> head, resumed |-> FALSE]
           n    == Len(bs)
           t    == Paused(a, head, kind)
<1>1. bs \in Seq(Boundary) /\ n \in Nat
    BY DEF TypeOK, AttemptState
<1>2. /\ Len(Append(bs, b)) = n + 1 /\ Append(bs, b)[n + 1] = b
      /\ \A k \in 1..n : Append(bs, b)[k] = bs[k]
    BY <1>1
<1>3. \A k \in 1..n : bs[k].resumed
    BY DEF Fenced
<1>4. /\ t.phase = "paused" /\ t.lease = 0 /\ t.verified = head
      /\ t.boundaries = Append(bs, b)
    <2>1. attempts[a] \in AttemptState
        BY DEF TypeOK
    <2> QED
        BY <2>1 DEF Paused, AttemptState
<1>5. b.head = head /\ ~b.resumed
    OBVIOUS
<1> HIDE DEF bs, b, n, t
<1>6. \A k \in 1..(n + 1) : k \in 1..n \/ k = n + 1
    BY <1>1
<1>7. \A k \in 1..(n + 1) : Append(bs, b)[k].resumed \/ k = n + 1
    BY <1>2, <1>3, <1>6
<1>8. Fenced(t)
    BY <1>1, <1>2, <1>4, <1>5, <1>7 DEF Fenced
<1> QED
    BY <1>8 DEF t

\* Resuming the last boundary leaves none that is not resumed, and gives out the
\* epoch after it.
LEMMA ResumedFenced ==
    ASSUME TypeOK, NEW a \in AttemptIds, Fenced(attempts[a]), CurrentBoundary(a)
    PROVE  Fenced(Resumed(a))
<1> DEFINE bs  == attempts[a].boundaries
           n   == Len(bs)
           new == [bs EXCEPT ![n].resumed = TRUE]
           t   == Resumed(a)
<1>1. bs \in Seq(Boundary) /\ n \in Nat /\ n \in 1..Len(bs)
    BY DEF TypeOK, AttemptState, CurrentBoundary
<1>2. \A k \in 1..n : bs[k] \in Boundary
    BY <1>1
<1>3. [bs[n] EXCEPT !.resumed = TRUE].resumed
    BY <1>1, <1>2 DEF Boundary
<1>4. Len(new) = n /\ \A k \in 1..n : new[k].resumed \/ (k # n /\ new[k] = bs[k])
    BY <1>1, <1>3
<1>5. \A k \in 1..n : k # n => bs[k].resumed
    BY DEF Fenced
<1>6. t.phase = "active" /\ t.lease = n + 1 /\ t.boundaries = new
    BY LeaseEffects
<1> HIDE DEF bs, n, new, t
<1>7. \A k \in 1..n : new[k].resumed
    BY <1>4, <1>5
<1>8. Fenced(t)
    BY <1>4, <1>6, <1>7 DEF Fenced
<1> QED
    BY <1>8 DEF t

\* Every command keeps the leases fenced.
LEMMA LeaseNext ==
    ASSUME TypeOK, LeasesFenced, [Next]_vars
    PROVE  LeasesFenced'
<1>1. ASSUME NEW a \in AttemptIds, NEW s, attempts' = [attempts EXCEPT ![a] = s], Fenced(s)
      PROVE  LeasesFenced'
    BY <1>1 DEF LeasesFenced, TypeOK
<1>2. \A a \in AttemptIds : /\ Fenced(attempts[a]) /\ attempts[a].boundaries \in Seq(Boundary)
                            /\ Len(attempts[a].boundaries) \in Nat
    BY DEF LeasesFenced, TypeOK, AttemptState
<1>3. ASSUME NEW a \in AttemptIds, StartAttempt(a) PROVE LeasesFenced'
    <2>1. attempts[a].phase = "none" /\ attempts' = [attempts EXCEPT ![a] = Reserved(a)]
        BY <1>3 DEF StartAttempt, NextAttempt, Started
    <2>2. attempts[a].boundaries = <<>>
        BY <1>2, <2>1 DEF Fenced
    <2>3. /\ Reserved(a).phase = "active" /\ Reserved(a).lease = 1
          /\ Reserved(a).boundaries = <<>>
        BY <2>2, LeaseEffects
    <2>4. Fenced(Reserved(a))
        BY <2>3 DEF Fenced
    <2> QED
        BY <1>1, <2>1, <2>4
<1>4. ASSUME NEW a \in AttemptIds, NEW head \in Commits, attempts[a].phase = "active"
      PROVE  Fenced(AtHead(a, head))
    <2>1. /\ AtHead(a, head).phase = attempts[a].phase
          /\ AtHead(a, head).lease = attempts[a].lease
          /\ AtHead(a, head).boundaries = attempts[a].boundaries
        BY LeaseEffects
    <2> QED
        BY <1>2, <1>4, <2>1, FencedKept
<1>5. ASSUME NEW a \in AttemptIds, AdoptAttemptHead(a) \/ DispatchAttemptReviewGate(a)
      PROVE  LeasesFenced'
    <2>1. PICK head \in Commits : attempts' = [attempts EXCEPT ![a] = AtHead(a, head)]
        BY <1>5 DEF AdoptAttemptHead, DispatchAttemptReviewGate
    <2>2. attempts[a].phase = "active"
        BY <1>5 DEF AdoptAttemptHead, DispatchAttemptReviewGate
    <2> QED
        BY <1>1, <1>4, <2>1, <2>2
<1>6. ASSUME NEW a \in AttemptIds, PauseAttempt(a) PROVE LeasesFenced'
    BY <1>1, <1>2, <1>6, PausedFenced DEF PauseAttempt
<1>7. ASSUME NEW a \in AttemptIds, ResumeAttempt(a) PROVE LeasesFenced'
    BY <1>1, <1>2, <1>7, ResumedFenced DEF ResumeAttempt
<1>8. ASSUME NEW a \in AttemptIds, Nonterminal(a)
      PROVE  /\ Fenced(Abandoned(a)) /\ Fenced(Superseded(a))
             /\ attempts[a].phase = "active" => Fenced(Integrated(a))
    <2>1. /\ Abandoned(a).phase = "abandoned" /\ Abandoned(a).lease = 0
          /\ Abandoned(a).boundaries = attempts[a].boundaries
          /\ Superseded(a).phase = "superseded" /\ Superseded(a).lease = 0
          /\ Superseded(a).boundaries = attempts[a].boundaries
          /\ Integrated(a).phase = "completed" /\ Integrated(a).lease = 0
          /\ Integrated(a).boundaries = attempts[a].boundaries
        BY LeaseEffects
    <2>2. Fenced(attempts[a]) /\ attempts[a].phase \in {"active", "paused"}
        BY <1>2, <1>8 DEF Nonterminal
    <2> QED
        BY <2>1, <2>2, FencedKept
<1>9. ASSUME NEW a \in AttemptIds, AbandonAttempt(a) PROVE LeasesFenced'
    BY <1>1, <1>8, <1>9 DEF AbandonAttempt
<1>10. ASSUME NEW a \in AttemptIds, IntendIntegration(a) PROVE LeasesFenced'
    <2>1. PICK evidence : evidence = AcceptanceEvidence(a)
        OBVIOUS
    <2>2. /\ Promised(a, evidence).phase = attempts[a].phase
          /\ Promised(a, evidence).lease = attempts[a].lease
          /\ Promised(a, evidence).boundaries = attempts[a].boundaries
          /\ Promised(a, evidence).verified = attempts[a].verified
        BY LeaseEffects
    <2>3. Fenced(Promised(a, evidence))
        BY <1>2, <2>2, FencedKept
    <2> QED
        BY <1>1, <1>10, <2>1, <2>3 DEF IntendIntegration
<1>11. ASSUME NEW a \in AttemptIds, CompleteIntegration(a) PROVE LeasesFenced'
    <2>1. ASSUME NEW b \in AttemptIds PROVE Fenced(attempts'[b])
        <3>1. \/ b = a /\ attempts[a].phase = "active" /\ attempts'[b] = Integrated(b)
              \/ Nonterminal(b) /\ attempts'[b] = Superseded(b)
              \/ attempts'[b] = attempts[b]
            BY <1>11, IntegrationEffects
        <3> QED
            BY <1>2, <1>8, <3>1 DEF Nonterminal
    <2> QED
        BY <2>1 DEF LeasesFenced
<1>12. ASSUME NEW a \in AttemptIds,
              \/ ReconcileStartedAttempt(a) \/ AgentWorks(a)
              \/ \E verdict \in Verdicts : RecordAttemptReviewGate(a, verdict)
       PROVE  LeasesFenced'
    BY <1>12 DEF ReconcileStartedAttempt, AgentWorks, RecordAttemptReviewGate, LeasesFenced
<1>13. CASE RecoverAttempts \/ CompleteWorkspace \/ UNCHANGED vars
    BY <1>13 DEF RecoverAttempts, CompleteWorkspace, vars, LeasesFenced
<1> QED
    BY <1>3, <1>5, <1>6, <1>7, <1>9, <1>10, <1>11, <1>12, <1>13 DEF Next, AttemptCommand

-----------------------------------------------------------------------------
(* The completion *)

\* After the completion record nothing is recorded any more, and no agent is at
\* work.
LEMMA NothingAfterCompletion ==
    ASSUME NoCompletionBlockers, completion, [Next]_vars
    PROVE  UNCHANGED <<attempts, adoption, reviews, chain>>
<1>1. \A a \in AttemptIds : ~Nonterminal(a) /\ attempts[a].phase # "active"
    BY DEF NoCompletionBlockers, Nonterminal
<1>2. ASSUME NEW a \in AttemptIds
      PROVE  ~AttemptCommand(a) /\ ~AgentWorks(a)
    BY <1>1 DEF AttemptCommand, StartAttempt, ReconcileStartedAttempt, AdoptAttemptHead,
                PauseAttempt, ResumeAttempt, AbandonAttempt, DispatchAttemptReviewGate,
                RecordAttemptReviewGate, IntendIntegration, CompleteIntegration, AgentWorks
<1> QED
    BY <1>2 DEF Next, RecoverAttempts, CompleteWorkspace, vars

\* What blocks the completion depends only on what is recorded.
LEMMA BlockersKept ==
    ASSUME NoCompletionBlockers, UNCHANGED <<attempts, adoption, reviews, chain>>
    PROVE  NoCompletionBlockers'
<1>1. /\ attempts' = attempts /\ adoption' = adoption
      /\ reviews' = reviews /\ chain' = chain
    OBVIOUS
<1>2. ASSUME NEW a \in AttemptIds PROVE AcceptanceEvidence(a)' = AcceptanceEvidence(a)
    BY <1>1 DEF AcceptanceEvidence, SatisfiedRecords
<1>3. ASSUME NEW u PROVE Integrates(u)' = Integrates(u)
    BY <1>1 DEF Integrates
<1> QED
    BY <1>1, <1>2, <1>3 DEF NoCompletionBlockers, Nonterminal, Intended

\* A completion is recorded only where nothing blocks it, and nothing follows it.
LEMMA CompletionNext ==
    ASSUME CompletionIsFinal, [Next]_vars
    PROVE  CompletionIsFinal'
<1>1. CASE completion
    BY <1>1, NothingAfterCompletion, BlockersKept DEF CompletionIsFinal
<1>2. CASE CompleteWorkspace
    BY <1>2, BlockersKept DEF CompletionIsFinal, CompleteWorkspace
<1>3. CASE ~completion /\ ~CompleteWorkspace
    <2>1. completion' = completion
        BY <1>3 DEF Next, AttemptCommand, StartAttempt, ReconcileStartedAttempt,
                    AdoptAttemptHead, PauseAttempt, ResumeAttempt, AbandonAttempt,
                    DispatchAttemptReviewGate, RecordAttemptReviewGate, IntendIntegration,
                    CompleteIntegration, AgentWorks, RecoverAttempts, vars
    <2> QED
        BY <1>3, <2>1 DEF CompletionIsFinal
<1> QED
    BY <1>1, <1>2, <1>3

-----------------------------------------------------------------------------
(* The invariant and what follows from it *)

\* Inductive: what the scheduler concludes from the latest attempt of a unit
\* (LiveAttemptIsLatest) is what makes the other conjuncts inductive.
Inv ==
    /\ TypeOK
    /\ LiveAttemptIsLatest
    /\ SerialSegmentExclusive
    /\ InFlightOnFrontier
    /\ OnePendingIntegration
    /\ ChainInDependencyOrder
    /\ AcceptedHeadHasEvidence
    /\ LeasesFenced
    /\ CompletionIsFinal

\* The empty journal satisfies the invariant.
LEMMA InvInit == Init => Inv
<1> SUFFICES ASSUME Init PROVE Inv
    OBVIOUS
<1>1. \A a \in AttemptIds : attempts[a] = NotStarted
    BY DEF Init
<1>2. chain = <<>> /\ Len(chain) = 0
    BY DEF Init
<1>3. SerialSegmentExclusive /\ InFlightOnFrontier /\ OnePendingIntegration
          /\ AcceptedHeadHasEvidence
    BY <1>1 DEF NotStarted, SerialSegmentExclusive, InFlightOnFrontier, Nonterminal,
                OnePendingIntegration, Intended, Frozen, AcceptedHeadHasEvidence
<1>4. ChainInDependencyOrder
    BY <1>2 DEF ChainInDependencyOrder
<1>5. LiveAttemptIsLatest
    BY <1>1, <1>2 DEF NotStarted, LiveAttemptIsLatest
<1>6. LeasesFenced /\ CompletionIsFinal
    BY <1>1 DEF NotStarted, LeasesFenced, Fenced, CompletionIsFinal, Init
<1> QED
    BY <1>3, <1>4, <1>5, <1>6, TypeInit DEF Inv

\* Every step of the specification keeps the invariant.
LEMMA InvNext == Inv /\ [Next]_vars => Inv'
BY TypeNext, LatestNext, SegmentNext, FrontierNext, PendingNext, ChainNext, EvidenceNext,
   LeaseNext, CompletionNext
   DEF Inv

\* The conjunction of the invariants is inductive, and therefore invariant.
THEOREM Invariance == Spec => []Inv
BY InvInit, InvNext, PTL DEF Spec

\* Two attempts of one merge unit are never in flight together.
THEOREM OneInFlightPerUnit == Spec => []OneAttemptPerUnit
<1>1. Inv => OneAttemptPerUnit
    BY LatestUnique DEF Inv, LiveAttemptIsLatest, OneAttemptPerUnit, Nonterminal
<1> QED
    BY <1>1, Invariance, PTL

\* A serial segment is never held twice, whatever is paused and resumed.
THEOREM SegmentsExclusive == Spec => []SerialSegmentExclusive
<1>1. Inv => SerialSegmentExclusive
    BY DEF Inv
<1> QED
    BY <1>1, Invariance, PTL

\* Whatever is in flight started from the current feature head.
THEOREM FrontierKept == Spec => []InFlightOnFrontier
<1>1. Inv => InFlightOnFrontier
    BY DEF Inv
<1> QED
    BY <1>1, Invariance, PTL

\* At most one durable intent is pending, and its accepted head is not moved.
THEOREM OnePending == Spec => []OnePendingIntegration
<1>1. Inv => OnePendingIntegration
    BY DEF Inv
<1> QED
    BY <1>1, Invariance, PTL

\* The chain holds each unit once, contiguous and after its dependencies.
THEOREM ChainOrdered == Spec => []ChainInDependencyOrder
<1>1. Inv => ChainInDependencyOrder
    BY DEF Inv
<1> QED
    BY <1>1, Invariance, PTL

\* Nothing is integrated whose exact head was not reviewed or adopted.
THEOREM EvidenceBacked == Spec => []AcceptedHeadHasEvidence
<1>1. Inv => AcceptedHeadHasEvidence
    BY DEF Inv
<1> QED
    BY <1>1, Invariance, PTL

\* An attempt in flight or integrated is the latest of its unit, and the chain is
\* exactly the completed attempts: the scheduler may conclude from the latest one.
THEOREM LatestDecides == Spec => []LiveAttemptIsLatest
<1>1. Inv => LiveAttemptIsLatest
    BY DEF Inv
<1> QED
    BY <1>1, Invariance, PTL

\* A lease that a pause fenced is never given out again.
THEOREM LeasesStayFenced == Spec => []LeaseEpochFenced
<1>1. Inv => LeaseEpochFenced
    BY DEF Inv, LeasesFenced, Fenced, LeaseEpochFenced
<1> QED
    BY <1>1, Invariance, PTL

\* What a completion was recorded for stays true.
THEOREM CompletionFinal == Spec => []CompletionIsFinal
<1>1. Inv => CompletionIsFinal
    BY DEF Inv
<1> QED
    BY <1>1, Invariance, PTL

-----------------------------------------------------------------------------
(* What no step may do *)

\* Until its completion is recorded, an attempt with a durable intent is frozen.
THEOREM Frozen_AfterIntent == Spec => FrozenAfterIntent
<1> DEFINE Kept(a) ==
        /\ attempts'[a] = attempts[a] \/ attempts'[a].phase = "completed"
        /\ attempts'[a].verified = attempts[a].verified
        /\ adoption'[a] = adoption[a]
<1>1. ASSUME Inv, [Next]_vars, NEW a \in AttemptIds, Intended(a)
      PROVE  Kept(a)
    <2>1. TypeOK /\ Frozen(a) /\ attempts[a].phase = "active"
        BY <1>1 DEF Inv, OnePendingIntegration, Intended, Frozen
    <2> USE DEF TypeOK, Frozen
    <2>2. ASSUME NEW b \in AttemptIds,
                 StartAttempt(b) \/ AdoptAttemptHead(b) \/ PauseAttempt(b)
                    \/ ResumeAttempt(b) \/ AbandonAttempt(b)
          PROVE  Kept(a)
        BY <2>1, <2>2 DEF StartAttempt, NextAttempt, Started, AdoptAttemptHead,
                          PauseAttempt, ResumeAttempt, AbandonAttempt
    <2>3. ASSUME NEW b \in AttemptIds, DispatchAttemptReviewGate(b) PROVE Kept(a)
        <3>1. PICK head \in Commits :
                  /\ head # attempts[b].verified => ~Frozen(b)
                  /\ adoption' = IF head = attempts[b].verified THEN adoption
                                 ELSE [adoption EXCEPT ![b] = <<attempts[b].verified, head>>]
                  /\ attempts' = [attempts EXCEPT ![b] = AtHead(b, head)]
            BY <2>3 DEF DispatchAttemptReviewGate
        <3>2. CASE b # a
            BY <2>1, <3>1, <3>2
        <3>3. CASE b = a
            <4>1. head = attempts[a].verified /\ attempts[a] \in AttemptState
                BY <2>1, <3>1, <3>3
            <4>2. AtHead(a, attempts[a].verified) = attempts[a]
                BY <4>1 DEF AtHead, AttemptState
            <4> QED
                BY <2>1, <3>1, <3>3, <4>1, <4>2
        <3> QED
            BY <3>2, <3>3
    <2>4. ASSUME NEW b \in AttemptIds, IntendIntegration(b) PROVE Kept(a)
        BY <1>1, <2>4 DEF IntendIntegration
    <2>5. ASSUME NEW b \in AttemptIds, CompleteIntegration(b) PROVE Kept(a)
        <3>1. b = a
            BY <2>1, <2>5 DEF CompleteIntegration, Nonterminal
        <3> QED
            BY <2>1, <2>5, <3>1, IntegrationEffects, Effects DEF CompleteIntegration
    <2>6. ASSUME NEW b \in AttemptIds,
                 \/ ReconcileStartedAttempt(b) \/ AgentWorks(b)
                 \/ \E verdict \in Verdicts : RecordAttemptReviewGate(b, verdict)
          PROVE  Kept(a)
        BY <2>6 DEF ReconcileStartedAttempt, AgentWorks, RecordAttemptReviewGate
    <2>7. CASE RecoverAttempts \/ CompleteWorkspace \/ UNCHANGED vars
        BY <2>7 DEF RecoverAttempts, CompleteWorkspace, vars
    <2> HIDE DEF Kept
    <2> QED
        BY <1>1, <2>2, <2>3, <2>4, <2>5, <2>6, <2>7 DEF Next, AttemptCommand
<1>2. Inv /\ [Next]_vars => [\A a \in AttemptIds : Intended(a) => Kept(a)]_vars
    BY <1>1
<1> QED
    BY <1>2, Invariance, PTL DEF Spec, FrozenAfterIntent

\* Nothing is recorded about an attempt that has ended.
THEOREM TerminalFixed == Spec => TerminalAttemptsFixed
<1>1. ASSUME Inv, [Next]_vars, NEW a \in AttemptIds, Started(a), ~Nonterminal(a)
      PROVE  attempts'[a] = attempts[a]
    <2>1. TypeOK
        BY <1>1 DEF Inv
    <2>2. ASSUME NEW b \in AttemptIds, StartAttempt(b) PROVE attempts'[a] = attempts[a]
        BY <1>1, <2>1, <2>2 DEF StartAttempt, NextAttempt, TypeOK
    <2>3. ASSUME NEW b \in AttemptIds, InFlightUpdate(b) PROVE attempts'[a] = attempts[a]
        BY <1>1, <2>3 DEF InFlightUpdate
    <2>4. ASSUME NEW b \in AttemptIds, CompleteIntegration(b)
          PROVE  attempts'[a] = attempts[a]
        BY <1>1, <2>1, <2>4, IntegrationEffects DEF Nonterminal
    <2>5. CASE UNCHANGED vars
        BY <2>5 DEF vars
    <2> QED
        BY <1>1, <2>1, <2>2, <2>3, <2>4, <2>5, StepKinds
<1>2. Inv /\ [Next]_vars =>
          [\A a \in AttemptIds : Started(a) /\ ~Nonterminal(a)
                                    => attempts'[a] = attempts[a]]_vars
    BY <1>1
<1> QED
    BY <1>2, Invariance, PTL DEF Spec, TerminalAttemptsFixed

-----------------------------------------------------------------------------
(* The runtime implements IntegrationChain *)

\* Reserving and updating attempts, reviewing and recovering are stutters; a
\* durable intent is a promise and a completion record keeps it.
THEOREM Implements == Spec => KeepsPromise
<1> DEFINE Pending == {a \in AttemptIds : Intended(a)}
<1>1. Init => Abstract!Init
    BY DEF Init, NotStarted, Intended, Abstract!Init
<1>2. ASSUME Inv, [Next]_vars
      PROVE  [Abstract!Next]_(Abstract!vars)
    <2> USE DEF TypeOK
    <2>1. TypeOK
        BY <1>2 DEF Inv
    <2>2. ASSUME NEW a \in AttemptIds, IntendIntegration(a)
          PROVE  Abstract!Promise(a)
        <3>1. Pending = {} /\ chain' = chain
            BY <2>2 DEF IntendIntegration
        <3>2. Pending' = {a}
            BY <2>1, <2>2, <3>1, Effects DEF IntendIntegration, Intended
        <3>3. attempts[a].phase # "completed"
            BY <2>2 DEF IntendIntegration, AcceptanceConfirmed
        <3>4. ~Abstract!InChain(a)
            BY <1>2, <3>3 DEF Inv, LiveAttemptIsLatest, Abstract!InChain
        <3> QED
            BY <3>1, <3>2, <3>4 DEF Abstract!Promise
    <2>3. ASSUME NEW a \in AttemptIds, CompleteIntegration(a)
          PROVE  Abstract!Record(a)
        <3>1. Intended(a) /\ chain' = Append(chain, a)
            BY <2>3 DEF CompleteIntegration
        <3>2. \A b \in AttemptIds : Intended(b) => b = a
            BY <1>2, <3>1 DEF Inv, OnePendingIntegration
        <3>3. ASSUME NEW b \in AttemptIds PROVE ~Intended(b)'
            <4>1. CASE b = a
                BY <2>1, <2>3, <4>1, IntegrationEffects, Effects DEF Intended
            <4>2. CASE b # a
                <5>1. attempts'[b] = Superseded(b) \/ attempts'[b] = attempts[b]
                    BY <2>1, <2>3, <4>2, IntegrationEffects
                <5>2. attempts'[b].integration = attempts[b].integration
                    BY <2>1, <5>1, Effects
                <5> QED
                    BY <3>2, <4>2, <5>2 DEF Intended
            <4> QED
                BY <4>1, <4>2
        <3> QED
            BY <3>1, <3>2, <3>3 DEF Abstract!Record
    <2>4. ASSUME NEW a \in AttemptIds, AttemptCommand(a) \/ AgentWorks(a),
                 ~IntendIntegration(a), ~CompleteIntegration(a)
          PROVE  UNCHANGED <<Pending, chain>>
        <3>1. chain' = chain
            BY <2>4 DEF AttemptCommand, StartAttempt, ReconcileStartedAttempt,
                        AdoptAttemptHead, PauseAttempt, ResumeAttempt, AbandonAttempt,
                        DispatchAttemptReviewGate, RecordAttemptReviewGate, AgentWorks
        <3>2. ASSUME NEW b \in AttemptIds
              PROVE  attempts'[b].integration = attempts[b].integration
            <4> USE <2>1
            <4>1. CASE PauseAttempt(a)
                BY <4>1, PausedEffects DEF PauseAttempt
            <4>2. CASE StartAttempt(a)
                BY <4>2, Effects DEF StartAttempt
            <4>3. CASE ResumeAttempt(a)
                BY <4>3, Effects DEF ResumeAttempt
            <4>4. CASE AbandonAttempt(a)
                BY <4>4, Effects DEF AbandonAttempt
            <4>5. CASE AdoptAttemptHead(a)
                BY <4>5, Effects DEF AdoptAttemptHead
            <4>6. CASE DispatchAttemptReviewGate(a)
                BY <4>6, Effects DEF DispatchAttemptReviewGate
            <4>7. CASE \/ ReconcileStartedAttempt(a) \/ AgentWorks(a)
                       \/ \E verdict \in Verdicts : RecordAttemptReviewGate(a, verdict)
                BY <4>7 DEF ReconcileStartedAttempt, AgentWorks, RecordAttemptReviewGate
            <4> QED
                BY <2>4, <4>1, <4>2, <4>3, <4>4, <4>5, <4>6, <4>7 DEF AttemptCommand
        <3> QED
            BY <3>1, <3>2 DEF Intended
    <2>5. CASE RecoverAttempts \/ CompleteWorkspace \/ UNCHANGED vars
        <3>1. UNCHANGED <<attempts, chain>>
            BY <2>5 DEF RecoverAttempts, CompleteWorkspace, vars
        <3> QED
            BY <3>1 DEF Intended, Abstract!vars
    <2> QED
        BY <1>2, <2>2, <2>3, <2>4, <2>5 DEF Next, AttemptCommand, Abstract!Next, Abstract!vars
<1> QED
    BY <1>1, <1>2, Invariance, PTL DEF Spec, KeepsPromise, Abstract!Spec

=============================================================================
