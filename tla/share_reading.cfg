SPECIFICATION Spec
CONSTANTS
    Period = 4
    AnalogPhase = 0
    AnalogTime = 3
    Samples = 2
    BootTimes = {598, 3598}
    MaxSeconds = 3
    MaxDue = 1
    Lending = {TRUE, FALSE}
INVARIANTS
    TypeOK
    NoMutexTimeout
    ServedIsOneUpdate
PROPERTIES
    PublishesOneReading
