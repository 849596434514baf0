\* One ungated unit: adopt-head after a pause at an earlier head.
CONSTANTS
    u1 = u1  u2 = u2  s1 = s1  c0 = c0  c1 = c1  c2 = c2
    NoSegment = NoSegment
    Units = {u1}
    Deps <- NoDeps
    MaxAttempts <- OneAttempt
    Segment <- NoSegments
    Gated = {}
    BoundaryKinds <- Checkpoints
    Commits = {c0, c1}
    BaseCommit = c0
    Descends <- Line
    AgentLeaves = {c0, c1}
    MaxBoundaries = 1
    MaxDispatches = 0
SPECIFICATION Spec
INVARIANT AdoptionRecordsHead
CHECK_DEADLOCK FALSE
