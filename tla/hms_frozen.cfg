SPECIFICATION FairSpec
CONSTANTS
    N = 2
    RegistrySizes = {10}
    Timeout <- AnalogIndicator_Timeout
    Priority <- AnalogIndicator_Priority
    MonitorPriority = 17
    LoopMax <- Prompt_LoopMax
    WDT_TIMEOUT = 10
    MayStall = {}
    MaySpin = {0}
    MayDelete = {}
    HaltsUncreated = {0, 1}
    NeedsMutex = {}
    MayCheckInDirectly = {}
    Cap = 30
PROPERTIES
    FrozenTaskIsReset
