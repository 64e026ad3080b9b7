SPECIFICATION Spec
CONSTANTS
  Sweeper = {s}
  MaxStamp = 2
  Order <- const_Order
  MaxCrashes = 1
INVARIANTS CompositedIsWhole SucceededHasImage
PROPERTIES KeptByPause SweepSpares
CHECK_DEADLOCK FALSE
