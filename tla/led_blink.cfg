SPECIFICATION FairSpec
CONSTANTS
    LED_DRIVER_NUM_LEDS = 3
    BLINK_MS <- Default_BLINK_MS
    AppEvery = 10
    MaxLate = 3
    ClockCycle = 400
INVARIANTS
    TypeOK
    BlinksInStep
    SolidStaysSolid
PROPERTIES
    LedFollowsFlag
