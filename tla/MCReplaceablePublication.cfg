\* Three processes and two contents; two operations end early.
CONSTANTS
    p1 = p1  p2 = p2  p3 = p3
    v1 = v1  v2 = v2
    None = None
    Procs = {p1, p2, p3}
    Values = {v1, v2}
    MaxStops = 2
SPECIFICATION FairSpec
INVARIANTS
    TypeOK
    NeverRefused
    ControlsCovered
PROPERTIES
    ReplacesAtomically
    PublicationResolved
CHECK_DEADLOCK TRUE
