\* Two hooks of two sessions at once: a poison told to the host is lost.
SPECIFICATION Spec
CONSTANTS
    p1 = p1
    p2 = p2
    g1 = g1
    g2 = g2
    bad = bad
    Proc = {p1, p2}
    Session = {s1, s2}
    NoSession = NoSession
    Absent = Absent
    ValidCode = {g1, g2}
    BadCode = {bad}
    EmptyCode = EmptyCode
    MaxSessionAge = 1
    Command <- FewCommands
    Report <- OneReport
    Inode = {i1, i2, i3}
    NoRequest = NoRequest
    None = None
    Empty = Empty
    Corrupt = Corrupt
    Exclusive = FALSE
    Faults = {}
    MaxTime = 0
    MaxRuns = 3
SYMMETRY Symmetric
PROPERTY NoCommandPastPoison
CHECK_DEADLOCK FALSE
