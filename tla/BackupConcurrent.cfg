\* Two commands at once that add snapshots or restore; all may be killed.
SPECIFICATION Spec
CONSTANTS
    a = a
    b = b
    c = c
    p1 = p1
    p2 = p2
    Proc = {p1, p2}
    Content <- TwoContents
    Empty = Empty
    Corrupt = Corrupt
    None = None
    NoJob = NoJob
    SizeOf <- Length
    MaxBackups = 2
    MaxAge = 2
    MaxSize = 3
    Op = {"create", "async", "restore"}
    Failing = {"create", "async", "restore"}
    Exclusive = FALSE
    Global = FALSE
    MaxClock = 2
    MaxRuns = 3
SYMMETRY Symmetric
INVARIANTS TypeOK ListedIsRestorable
CHECK_DEADLOCK FALSE
