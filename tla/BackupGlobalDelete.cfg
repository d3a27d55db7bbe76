\* The global configuration is initialised, a snapshot deleted and one restored.
SPECIFICATION Spec
CONSTANTS
    a = a
    b = b
    c = c
    Proc = {p1}
    Content <- TwoContents
    Empty = Empty
    Corrupt = Corrupt
    None = None
    NoJob = NoJob
    SizeOf <- Length
    MaxBackups = 2
    MaxAge = 2
    MaxSize = 3
    Op = {"init", "delete", "restore"}
    Failing = {}
    Exclusive = TRUE
    Global = TRUE
    MaxClock = 2
    MaxRuns = 4
PROPERTY OverwriteIsBackedUp
CHECK_DEADLOCK FALSE
