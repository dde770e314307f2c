SPECIFICATION Spec
CONSTANTS
    sub = sub
    timedSub = timedSub
    timedOnce = timedOnce
    Call = {sub, timedOnce}
    Subscribers = {sub}
    Timed = {timedOnce}
    Keys = {"gps", "hybrid", "nmea"}
    HalAnswers <- MCHalAnswers
    MaxIdle = 1
    Worlds <- MCSleep
PROPERTIES
    ResumeRestartsSession
