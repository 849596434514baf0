\* One gated unit: review records that follow the durable intent.
CONSTANTS
    u1 = u1  u2 = u2  s1 = s1  c0 = c0  c1 = c1  c2 = c2
    NoSegment = NoSegment
    Units = {u1}
    Deps <- NoDeps
    MaxAttempts <- OneAttempt
    Segment <- NoSegments
    Gated = {u1}
    BoundaryKinds <- NoKinds
    Commits = {c0, c1}
    BaseCommit = c0
    Descends <- Line
    AgentLeaves = {c0, c1}
    MaxBoundaries = 0
    MaxDispatches = 2
SPECIFICATION Spec
INVARIANT EvidenceFixedByIntent
CHECK_DEADLOCK FALSE
