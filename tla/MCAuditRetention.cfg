SPECIFICATION AuditSpec
CONSTANTS
    t1 = t1
    t2 = t2
    Traces <- OneTrace
    IdOf <- MCIdOf
    TicksPerDay = 3
    RetentionDays = 1
    Fsync = TRUE
    Faults <- NoFaults
    MaxFailures = 1
    MaxEvents <- TwoEach
    MaxClock = 5
    MaxRestarts = 0
    ReaderRuns = FALSE
CHECK_DEADLOCK FALSE
INVARIANT EventsAreRetained
