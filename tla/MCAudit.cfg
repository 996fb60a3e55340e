SPECIFICATION AuditSpec
CONSTANTS
    t1 = t1
    t2 = t2
    Traces <- BothTraces
    IdOf <- MCIdOf
    TicksPerDay = 1
    RetentionDays = 1
    Fsync = TRUE
    Faults <- AllFaults
    MaxFailures = 1
    MaxEvents <- ThreeAndOne
    MaxClock = 2
    MaxRestarts = 1
    ReaderRuns = TRUE
CHECK_DEADLOCK FALSE
INVARIANTS
    AuditTypeOK
    LogVerifies
    TamperingShows
    LossShows
    ReaderVerifies
