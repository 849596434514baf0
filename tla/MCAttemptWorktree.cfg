SPECIFICATION Spec
CONSTANTS
    Attempts = {"a", "b"}
    Directories = {"d"}
    Blobs = {"f"}
    Gitlinks = {"s"}
    Strays = {"x"}
    Parent <- MCParent
    MaxTouches = 1
    MaxCrashes = 1
    MaxFaults = 1
    MaxIntents = 1
INVARIANTS TypeOK HeadImpliesTree NoDebris
PROPERTIES ForeignKept IntegrationResumed
