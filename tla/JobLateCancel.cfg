SPECIFICATION Spec
CONSTANTS
  w1 = w1
  w2 = w2
  s1 = s1
  target = target
  lights = lights
  NoWorker = NoWorker
  Worker = {w1}
  Client = {c1}
  Root = {target, lights}
  Parent <- MCParent
  LaneOf <- MCLaneOf
  Request <- PlainRequests
  Ops = {"cancel"}
  MaxJobs = 1
  LaneCap = 2
  MaxRestartRequeues = 1
  MaxBoots = 0
  CanStop = FALSE
  DBMayFail = FALSE
PROPERTIES CancelledNeverRuns
