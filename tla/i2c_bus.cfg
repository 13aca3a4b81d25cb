SPECIFICATION FairSpec
CONSTANTS
    FifoSize = 2
    BurstBytes = 2
    ReadBytes = 2
INVARIANTS
    TypeOK
    NoForeignByte
    ReadsAreOwn
    SuccessIsStored
PROPERTIES
    AnalogReturns
    BurstReturns
