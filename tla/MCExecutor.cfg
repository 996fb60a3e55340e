SPECIFICATION FairSpec
CONSTANTS
    r1 = r1
    r2 = r2
    Requests <- BothRequests
    Batches <- BothRequests
    Inputs <- MCInputs
    Plans <- MCPlans
    NoInput = NoInput
    Nobody = Nobody
    Ids = {"id"}
    MaxFiles = 3
    DirectoryMayFail = TRUE
    MaxInt = 19
    Second = 2
    TicksPerSecond = 2
    ArtifactTTL = 1
    MaxBytes = 2
    InlineLimit = 1
    Configured = 2
    DefaultTimeout = 6
    MaxRestarts = 1
CHECK_DEADLOCK FALSE
INVARIANTS
    ExecutorTypeOK
    StorableIsWhole
    TimedOutLeavesNoGroup
    NotCutEarly
    FinalDirIsOwn
    InputsStayWhole
    FinishedLeavesNothing
    LinkServesUntilExpiry
PROPERTIES
    ExecutionEnds
    AttachmentsAreRemoved
