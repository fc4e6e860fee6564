SPECIFICATION FairSpec
CONSTANTS
    p1 = p1  p2 = p2  p3 = p3
    Peer = {p1, p2, p3}
    Founders = {p1, p2}
    Delay = 2
    MaxSkip = 2
    MaxItxs = 2
    Faults = TRUE
CHECK_DEADLOCK FALSE
INVARIANTS TypeOK EvictionScheduled
PROPERTIES JoinersAuthorised OnlyUnauthorisedEvicted EvictedLeave
