\* Interrupted twice, the feature ref moved once by somebody else, a merge commit
\* pruned once, the accepted worktrees disturbed at any time.
CONSTANTS
    a1 = a1  a2 = a2
    Attempts = {a1, a2}
    MaxCrashes = 2
    MaxRefMoves = 2
    MaxPrunes = 2
    AgentDisturbs = TRUE
SPECIFICATION FairSpec
INVARIANTS
    TypeOK
    RecordedReachedRef
    RefAtFrontier
PROPERTIES
    RefMovesByPromise
    KeepsPromise
    PromiseResolved
CHECK_DEADLOCK TRUE
