SPECIFICATION Spec
CONSTANTS
  Frames = 6
  Workers = 3
INVARIANTS InFlightBound OkMeansAll
PROPERTIES ImplementsSerialLoop EverythingEnds
CHECK_DEADLOCK FALSE
