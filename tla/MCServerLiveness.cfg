SPECIFICATION FairSpec
CONSTANTS
    MaxEntries = 2
    MaxTTL = 1
    MaxInt = 3
    Second = 1
    SessionKeys = {"s1", "s2"}
    NoKey = ""
    Dirs = {"home", "sub"}
    Fallback = "home"
    NoDir = ""
    Nobody = Nobody
    Torn = Torn
    Requests = {r1, r2}
    Inputs <- MixedInputs
    AllowedGPTs <- OneGPT
    Volatile = {"sub"}
    Outcomes = {"ok"}
    MaxWorld = 1
    MaxClock = 1
    MaxCrashes = 0
    PersistMayFail = TRUE
CHECK_DEADLOCK FALSE
PROPERTIES
    EveryRequestEnds
