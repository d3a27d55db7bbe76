\* One hook at a time, which may crash, of two sessions.
SPECIFICATION Spec
CONSTANTS
    p1 = p1
    p2 = p2
    g1 = g1
    g2 = g2
    bad = bad
    Proc = {p1, p2}
    Session = {s1, s2}
    NoSession = NoSession
    Absent = Absent
    ValidCode = {g1, g2}
    BadCode = {bad}
    EmptyCode = EmptyCode
    MaxSessionAge = 1
    Command <- AllCommands
    Report <- CodedReports
    Inode = {i1, i2, i3}
    NoRequest = NoRequest
    None = None
    Empty = Empty
    Corrupt = Corrupt
    Exclusive = TRUE
    Faults = {"crash"}
    MaxTime = 2
    MaxRuns = 3
SYMMETRY Symmetric
INVARIANTS PublishedIsWhole AdvertisedTokenUnlocks
PROPERTIES NoCommandPastPoison KeyNeeded KeepsGate
CHECK_DEADLOCK FALSE
