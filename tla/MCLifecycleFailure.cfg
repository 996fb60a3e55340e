SPECIFICATION LifecycleSpec
CONSTANTS
    Processes = {old, new}
    Nobody = Nobody
    Settings <- EitherSetting
    MaxOpen = 1
CHECK_DEADLOCK FALSE
INVARIANTS
    RefusedOnlyByTheLiving
    ServingIsReachable
PROPERTIES
    ListenerFailureEndsProcess
    SignalFreesAddress
