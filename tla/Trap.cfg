SPECIFICATION Spec
CONSTANTS
  Keys = {"lshift", "rctl"}  MaxInputs = 4
INVARIANTS TypeOK ControllerReady ModifiersFollow
PROPERTIES RegistersSurvive KeysTaken
CHECK_DEADLOCK FALSE
