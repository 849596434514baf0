SPECIFICATION Spec
CONSTANTS
    Artifacts = {"a", "b"}
    Folder <- MCFolder
    Desires <- MCDesires
    MaxTouches = 0
    MaxCrashes = 1
INVARIANT PendingIsRecoverable
