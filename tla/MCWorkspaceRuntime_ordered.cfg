\* u2 depends on u1; worktrees are lost, left dirty or half materialised, and the
\* dependant may be attempted twice.
CONSTANTS
    u1 = u1  u2 = u2  s1 = s1  c0 = c0  c1 = c1  c2 = c2
    NoSegment = NoSegment
    Units = {u1, u2}
    Deps <- SecondAfterFirst
    MaxAttempts <- MoreForLast
    Segment <- NoSegments
    Gated = {u1}
    BoundaryKinds <- Checkpoints
    Commits = {c0, c1}
    BaseCommit = c0
    Descends <- Line
    AgentLeaves = {c1, "dirty", "absent"}
    MaxBoundaries = 1
    MaxDispatches = 2
SPECIFICATION Spec
INVARIANTS
    ChainInDependencyOrder
    LiveAttemptIsLatest
    CompletionIsFinal
CHECK_DEADLOCK FALSE
