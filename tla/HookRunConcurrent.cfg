\* Two hooks of one session at once, crashes and every fault of the disk.
SPECIFICATION Spec
CONSTANTS
    p1 = p1
    p2 = p2
    g1 = g1
    g2 = g2
    bad = bad
    Proc = {p1, p2}
    Session = {s1}
    NoSession = NoSession
    Absent = Absent
    ValidCode = {g1, g2}
    BadCode = {bad}
    EmptyCode = EmptyCode
    MaxSessionAge = 1
    Command <- FewCommands
    Report <- OneReport
    Inode = {i1, i2, i3}
    NoRequest = NoRequest
    None = None
    Empty = Empty
    Corrupt = Corrupt
    Exclusive = FALSE
    Faults = {"read", "write", "crash"}
    MaxTime = 2
    MaxRuns = 3
SYMMETRY Symmetric
INVARIANTS TypeOK PoisonIsEarned
PROPERTY RefusalIsEarned
CHECK_DEADLOCK FALSE
