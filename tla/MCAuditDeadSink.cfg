SPECIFICATION AuditSpec
CONSTANTS
    t1 = t1
    t2 = t2
    Traces <- BothTraces
    IdOf <- MCIdOf
    TicksPerDay = 1
    RetentionDays = 2
    Fsync = TRUE
    Faults <- OpenFault
    MaxFailures = 1
    MaxEvents <- TwoEach
    MaxClock = 2
    MaxRestarts = 0
    ReaderRuns = FALSE
CHECK_DEADLOCK FALSE
INVARIANT SinkAcceptsEvents
