SPECIFICATION CallersSpec
CONSTANTS
    MaxEntries = 2
    MaxTTL = 4
    MaxInt = 7
    Second = 2
    Callers = {c1, c2}
    Scopes = {s1, s2}
    Workdirs = {w1}
    Commands = {q1}
    TTLs <- MCTTLs
    MaxClock = 3
    MaxGeneration = 1
INVARIANTS
    CallersTypeOK
    CacheBounded
    HitAgeWithinTTL
    NoStaleEntry
PROPERTIES
    EvictsOnlyTheOldest
    ImplementsMemo
CHECK_DEADLOCK FALSE
