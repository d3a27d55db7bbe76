\* Goroutines that share a loader, closed at any time, and plugins of every kind.
SPECIFICATION FairSpec
CONSTANTS
    u1 = u1
    u2 = u2
    User = {u1, u2}
    Conn = {k1, k2, k3}
    NoConn = NoConn
    Plugin <- Configs
    Address <- Addresses
    LocalAddress <- Here
    Plans <- ManyPlans
    Calls <- Events
    Replies <- Answer
    Compiles <- Valid
    HitsFile <- Same
    HitsCommand <- Same
INVARIANTS TypeOK OneConnection NothingLeftOpen SilenceIsNoConsent
PROPERTY EveryCallEnds
CHECK_DEADLOCK FALSE
