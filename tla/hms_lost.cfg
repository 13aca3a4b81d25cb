SPECIFICATION FairSpec
CONSTANTS
    N = 1
    RegistrySizes = {0, 10}
    Timeout <- Indicator_Timeout
    Priority <- Indicator_Priority
    MonitorPriority = 17
    LoopMax <- One_LoopMax
    WDT_TIMEOUT = 10
    MayStall = {0}
    MaySpin = {}
    MayDelete = {}
    HaltsUncreated = {0}
    NeedsMutex = {0}
    MayCheckInDirectly = {}
    Cap = 30
INVARIANTS
    TypeOK
PROPERTIES
    StallIsNoticed
    LostMonitorIsReset
