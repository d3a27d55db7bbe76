SPECIFICATION Spec
CONSTANTS
    Proc = {p1, p2}
    c1 = c1
    c2 = c2
    Code <- MCCode
    NoCode = NoCode
    Policy <- MCPolicy
    Enabled = TRUE
    RateEnabled = TRUE
    MaxPerHour = 2
    MaxPerDay = 3
    HoursPerDay = 2
    Missing = Missing
    Torn = Torn
    MaxSize = 1
    MaxBackups = 1
    MaxAge = 2
    Commands <- MCCommands
    Errors <- MCErrors
    MaxTime = 2
    Calls <- MCCalls
    Faults <- MCFaults
SYMMETRY Symmetric
INVARIANTS
    TypeOK
    LimitsKept
    HourWithinDay
    GrantsAudited
PROPERTIES
    RefusesOnlyWhenSpent
CHECK_DEADLOCK FALSE
