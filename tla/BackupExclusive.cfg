\* One command at a time, any of them; all but delete and prune may be killed.
SPECIFICATION Spec
CONSTANTS
    a = a
    b = b
    c = c
    Proc = {p1}
    Content <- ThreeContents
    Empty = Empty
    Corrupt = Corrupt
    None = None
    NoJob = NoJob
    SizeOf <- Length
    MaxBackups = 2
    MaxAge = 2
    MaxSize = 3
    Op = {"create", "sync", "async", "init", "restore", "forced", "delete", "prune"}
    Failing = {"create", "sync", "async", "init", "restore", "forced"}
    Exclusive = TRUE
    Global = FALSE
    MaxClock = 4
    MaxRuns = 5
INVARIANT ChainsAlone
PROPERTIES OverwriteIsBackedUp PruneIsExact PreviewIsPrune
CHECK_DEADLOCK FALSE
