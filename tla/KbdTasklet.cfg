SPECIFICATION FairSpec
CONSTANTS
    c1 = c1
    c2 = c2
    c3 = c3
    r1 = r1
    k1 = k1
    k2 = k2
    Cpu = {c1, c2, c3}
    IrqCpu = {c1, c2}
    Reader = {r1}
    CpuOf <- Apart
    Key = {k1, k2}
    DOUBLE_MS = 1
    MaxTime = 2
    None = None
INVARIANTS
    NoTornMessage
PROPERTIES
    MailboxSpec
    ForgetsOnlyPublished
    BatchIsClosed
