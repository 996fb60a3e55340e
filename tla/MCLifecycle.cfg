SPECIFICATION LifecycleSpec
CONSTANTS
    Processes = {old, new}
    Nobody = Nobody
    Settings <- EitherSetting
    MaxOpen = 1
CHECK_DEADLOCK FALSE
PROPERTY SignalEndsProcess
