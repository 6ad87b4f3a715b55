SPECIFICATION FairSpec
CONSTANTS
    t1 = t1
    t2 = t2
    m1 = m1
    m2 = m2
    Task = {t1, t2}
    Msg = {m1, m2}
    Length <- MCLength
    MAX_MSGS = 2
    MSG_LEN = 3
    ReadLen = {1}
    CountSlack = 1
    None = None
    Junk = Junk
INVARIANTS
    TypeOK
    OneInside
    RingConsistent
PROPERTIES
    QueueSpec
    CallsReturn
