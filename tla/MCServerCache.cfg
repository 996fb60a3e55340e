SPECIFICATION Spec
CONSTANTS
    MaxEntries = 2
    MaxTTL = 1
    MaxInt = 3
    Second = 1
    SessionKeys = {"s1", "s2"}
    NoKey = ""
    Dirs = {"home", "sub"}
    Fallback = "home"
    NoDir = ""
    Nobody = Nobody
    Torn = Torn
    Requests = {r1, r2, r3}
    Inputs <- CacheInputs
    AllowedGPTs <- AnyGPT
    Volatile = {}
    Outcomes = {"ok", "failed"}
    MaxWorld = 1
    MaxClock = 0
    MaxCrashes = 0
    PersistMayFail = FALSE
CHECK_DEADLOCK FALSE
SYMMETRY RequestSymmetry
INVARIANTS
    TypeOK
    HitSeesAnsweredWrites
    HitAnswersTheSameRequest
    CacheIsFresh
