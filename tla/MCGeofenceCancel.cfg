SPECIFICATION Spec
CONSTANTS
    m1 = m1
    m2 = m2
    m3 = m3
    g1 = g1
    g2 = g2
    NoId = NoId
    Msg = {m1, m2, m3}
    Subscriber = {m1, m2, m3}
    Id = {g1}
    Worlds <- MCOnlyCancels
    MaxPending = 3
INVARIANTS
    OneOwner
CHECK_DEADLOCK FALSE
