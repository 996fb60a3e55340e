SPECIFICATION AuditSpec
CONSTANTS
    t1 = t1
    t2 = t2
    Traces <- BothTraces
    IdOf <- SharedId
    TicksPerDay = 1
    RetentionDays = 1
    Fsync = TRUE
    Faults <- NoFaults
    MaxFailures = 1
    MaxEvents <- TwoEach
    MaxClock = 0
    MaxRestarts = 0
    ReaderRuns = FALSE
CHECK_DEADLOCK FALSE
INVARIANT LogVerifies
