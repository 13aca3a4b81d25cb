SPECIFICATION Spec
CONSTANTS
    EEPROM_PAGE_SIZE = 3
    EEPROM_TOTAL_BYTES = 12
    LOG_RECORD_SIZE = 2
    HIGH_RES_MAX_RECORDS = 3
    LONG_TERM_MAX_RECORDS = 2
    HighEvery = 2
    LongEvery = 20
    MaxRecords = 6
    MaxResets = 1
PROPERTIES
    OverwritesOldest
