SPECIFICATION Spec
CONSTANTS
    w1 = w1
    w2 = w2
    Wifi = Wifi
    Mobile = Mobile
    Offline = Offline
    Never = Never
    Hal = Hal
    Main = Main
    Worker = {w1, w2}
    Network = {Wifi, Mobile, Offline}
    MaxReports = 2
    Worlds = {{"ntp"}}
INVARIANTS
    RequestsAreNotLatched
CHECK_DEADLOCK FALSE
