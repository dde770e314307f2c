SPECIFICATION FairSpec
CONSTANTS
    w1 = w1
    w2 = w2
    Wifi = Wifi
    Mobile = Mobile
    Offline = Offline
    Never = Never
    Hal = Hal
    Main = Main
    Worker = {w1, w2}
    Network = {Wifi, Mobile, Offline}
    MaxReports = 2
    Worlds <- MCWorlds
INVARIANTS
    TypeOK
    HalConnectionFollows
    AvailabilityFollows
    HalKnowsNetwork
    DownloadsAreNotLatched
PROPERTIES
    ShutdownEnds
CHECK_DEADLOCK FALSE
