SPECIFICATION Spec
CONSTANTS
  Lane = {"L", "R"}
  FilterOf <- MCFilterOf
  Current <- MCCurrent
  Prior <- MCPrior
  RawFlat <- MCRawFlat
  Optics <- MCOptics
  MaxFaults = 2
  MaxPasses = 1
INVARIANTS OneAnchor FlatIsOwn FlipIsTold CancelCostsNothing
CHECK_DEADLOCK FALSE
