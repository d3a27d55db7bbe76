\* One plugin of two does not load.
SPECIFICATION Spec
CONSTANTS
    u1 = u1
    u2 = u2
    User = {u1, u2}
    Conn = {k1, k2, k3}
    NoConn = NoConn
    Plugin <- Configs
    Address <- Addresses
    LocalAddress <- Here
    Plans <- FewPlans
    Calls <- Events
    Replies <- Answer
    Compiles <- Valid
    HitsFile <- Same
    HitsCommand <- Same
INVARIANT OthersStandGuard
CHECK_DEADLOCK FALSE
