SPECIFICATION MCSpec
CONSTANTS
    Task = {t1, t2}
    WORD = 12
    Boot = {4, 9}
    COUNTS = 2
    debounce = 2
    STALL = 2
    LONG_PRESS = 1
    LATENCY = 4
INVARIANTS
    ReportsOnlyWhenLate
PROPERTIES
    AcceptedApart
    IgnoredWhenClose
    DeafAtBoot
