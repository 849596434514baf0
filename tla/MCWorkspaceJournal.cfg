\* Two processes, a journal of four bytes: an integration and one more record.
CONSTANTS
    p1 = p1  p2 = p2
    Procs = {p1, p2}
    Size <- SmallRecords
    MaxBytes = 4
    MaxBuilt = 4
    MaxStops = 3
SPECIFICATION FairSpec
INVARIANTS
    TypeOK
    AckedDurable
    RecoveryNeverRefused
    DiscardRecordedOnce
    CompletionFits
PROPERTIES
    TornTailRepaired
CHECK_DEADLOCK TRUE
