SPECIFICATION Spec
CONSTANTS
    Task = {t1, t2}
    NULL = NULL
    ERR = ERR
    Saturated = Saturated
INVARIANTS
    TypeOK
    NothingLeft
    NoReleasedLine
    LitOnlyIfHeld
    RefsCounted
