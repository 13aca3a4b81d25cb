SPECIFICATION FairSpec
CONSTANTS
    EEPROM_PAGE_SIZE = 3
    EEPROM_TOTAL_BYTES = 9
    LOG_RECORD_SIZE = 2
    HIGH_RES_MAX_RECORDS = 3
    LONG_TERM_MAX_RECORDS = 1
    HighEvery = 2
    LongEvery = 3
    MaxRecords = 6
    MaxResets = 1
INVARIANTS
    TypeOK
    StoredIsIntact
PROPERTIES
    WritesStayInSlot
    WriteEnds
    ImplementsLogWindow
