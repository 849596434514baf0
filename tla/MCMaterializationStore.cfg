SPECIFICATION Spec
CONSTANTS
    Artifacts = {"a", "b"}
    Folder <- MCFolder
    Desires <- MCDesires
    MaxTouches = 1
    MaxCrashes = 2
INVARIANTS TypeOK SuccessIsDesired FailureHasCause
PROPERTY UserBytesKept
