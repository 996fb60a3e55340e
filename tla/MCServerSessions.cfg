SPECIFICATION Spec
CONSTANTS
    MaxEntries = 2
    MaxTTL = 1
    MaxInt = 3
    Second = 1
    SessionKeys = {"s1", "s2"}
    NoKey = ""
    Dirs = {"home", "sub"}
    Fallback = "home"
    NoDir = ""
    Nobody = Nobody
    Torn = Torn
    Requests = {r1, r2, r3}
    Inputs <- SessionInputs
    AllowedGPTs <- AnyGPT
    Volatile = {"sub"}
    Outcomes = {"ok"}
    MaxWorld = 1
    MaxClock = 0
    MaxCrashes = 1
    PersistMayFail = TRUE
CHECK_DEADLOCK FALSE
SYMMETRY RequestSymmetry
INVARIANTS
    OneCommandPerSession
    StartIsCurrent
    DiskNeverTorn
    DiskCurrent
