SPECIFICATION Spec
CONSTANTS
    MaxTime = 3
    HalAnswers <- MCHalAnswers
    MockNames = {"gps"}
INVARIANTS
    TypeOK
    TimerIffPosition
    HalParamsAreMarked
    RadioHasOwner
PROPERTIES
    DemandSpec
    FirstFixIsFinal
