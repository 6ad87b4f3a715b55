SPECIFICATION FairSpec
CONSTANTS
    Task = {t1, t2, t3}
    MAX_PRESSES = 2
INVARIANTS
    NoLostWakeup
    NoPressLost
    CountsPresses
PROPERTIES
    SleepersWake
