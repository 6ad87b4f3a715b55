SPECIFICATION LongPressSpec
CONSTANTS
    long_press_ms = 3
    LATENCY = 1
INVARIANTS
    LongHoldAnswered
PROPERTIES
    EarlyOnlyWhenRepressed
    UnloadEnds
