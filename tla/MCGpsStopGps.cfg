SPECIFICATION Spec
CONSTANTS
    MaxTime = 3
    HalAnswers <- MCHalAnswers
    MockNames = {}
PROPERTIES
    SessionEndResetsFirstFix
