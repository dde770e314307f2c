SPECIFICATION FairSpec
CONSTANTS
    sub = sub
    timedSub = timedSub
    timedOnce = timedOnce
    Call = {sub, timedSub, timedOnce}
    Subscribers = {sub, timedSub}
    Timed = {timedSub, timedOnce}
    Keys = {"gps", "nw", "hybrid", "passive", "nmea"}
    HalAnswers <- MCHalAnswers
    MaxIdle = 1
    Worlds <- MCWorlds
INVARIANTS
    TypeOK
    TableMatchesLists
    
    ClientsAreServed
    OffHandlersAreStill
PROPERTIES
    TimedCallsEnd
    CallsSpec
