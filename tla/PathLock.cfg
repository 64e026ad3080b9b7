SPECIFICATION FairSpec
CONSTANTS
  Client = {c1, c2, c3}
  m101 = m101
  lights = lights
  m31 = m31
  Root = {m101, lights, m31}
  Parent <- MCParent
INVARIANTS Exclusive NoLostWakeup
PROPERTIES ImplementsRootMutex FreeSleeperRuns
