SPECIFICATION Spec
CONSTANTS
    N = 2
    RegistrySizes = {10}
    Timeout <- AnalogIndicator_Timeout
    Priority <- AnalogIndicator_Priority
    MonitorPriority = 17
    LoopMax <- AnalogIndicator_LoopMax
    WDT_TIMEOUT = 10
    MayStall = {1}
    MaySpin = {0}
    MayDelete = {1}
    HaltsUncreated = {1}
    NeedsMutex = {1}
    MayCheckInDirectly = {1}
    Cap = 30
INVARIANTS
    VerdictExactInRange
PROPERTIES
    AlarmHasCause
    NoSpuriousReset
