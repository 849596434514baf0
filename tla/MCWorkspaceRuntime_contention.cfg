\* Two independent units that share one serial segment: an ungated one, and a
\* gated one with a second attempt.
CONSTANTS
    u1 = u1  u2 = u2  s1 = s1  c0 = c0  c1 = c1  c2 = c2
    NoSegment = NoSegment
    Units = {u1, u2}
    Deps <- NoDeps
    MaxAttempts <- MoreForLast
    Segment <- OneSegment
    Gated = {u2}
    BoundaryKinds <- Checkpoints
    Commits = {c0, c1}
    BaseCommit = c0
    Descends <- Line
    AgentLeaves = {c1}
    MaxBoundaries = 1
    MaxDispatches = 1
SPECIFICATION Spec
INVARIANTS
    TypeOK
    OneAttemptPerUnit
    SerialSegmentExclusive
    InFlightOnFrontier
    AcceptedHeadHasEvidence
    LeaseEpochFenced
PROPERTIES
    FrozenAfterIntent
    KeepsPromise
CHECK_DEADLOCK FALSE
