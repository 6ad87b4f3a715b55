SPECIFICATION Spec
CONSTANTS
    t1 = t1
    t2 = t2
    t3 = t3
    Task = {t1, t2, t3}
    Device <- MCDevices
    Text <- Texts
    Length <- MCLength
    Command <- MCCommand
    BUF_LEN = 3
    MAX_COUNT = 2
    Greeting = Greeting
    NUL = NUL
    Beyond = Beyond
    None = None
SYMMETRY Symmetry
CONSTRAINT Crowd
INVARIANTS OneText FreshText  NoSleeperForgotten LedAgrees
PROPERTY NothingDropped
