SPECIFICATION Spec
CONSTANTS
  w1 = w1
  w2 = w2
  s1 = s1
  target = target
  lights = lights
  NoWorker = NoWorker
  Worker = {w1, w2}
  Client = {c1}
  Root = {target, lights}
  Parent <- MCParent
  LaneOf <- MCLaneOf
  Request <- DeepskyRequests
  Ops = {"cancel", "pause", "continue", "replay"}
  MaxJobs = 1
  LaneCap = 2
  MaxRestartRequeues = 1
  MaxBoots = 1
  CanStop = TRUE
  DBMayFail = TRUE
INVARIANTS RegisteredIsReachable
PROPERTIES CancelSticks ImplementsTickets
