SPECIFICATION FairSpec
CONSTANTS
    m1 = m1
    m2 = m2
    m3 = m3
    g1 = g1
    g2 = g2
    NoId = NoId
    Msg = {m1, m2, m3}
    Subscriber = {m1, m2}
    Id = {g1, g2}
    Worlds <- MCWorlds
    MaxPending = 2
INVARIANTS
    TypeOK
    NoSlotLost
    OneOwnerAtATime
    FenceHasOwner
    NoStaleReports
PROPERTIES
    EveryCallIsAnswered
CHECK_DEADLOCK FALSE
