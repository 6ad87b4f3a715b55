\* A driver that failed to load, or was left with an open file, stays out: the
\* run ends there.
CHECK_DEADLOCK FALSE
SPECIFICATION Spec
CONSTANTS
    Driver <- Drivers
    Leak <- KnownLeaks
    Twice <- KnownDoubles
    Unchecked <- KnownUnchecked
    Gap <- KnownGaps
    Late <- KnownLate
INVARIANTS
    LeavesNothing
    ReleasesWhatItHas
    HandlersFindWhatTheyUse
    RulesKept
PROPERTIES
    EndIsFinal
