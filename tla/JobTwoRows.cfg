SPECIFICATION FairSpec
CONSTANTS
  w1 = w1
  w2 = w2
  s1 = s1
  target = target
  lights = lights
  NoWorker = NoWorker
  Worker = {w1, w2}
  Client = {c1}
  Root = {target, lights}
  Parent <- MCParent
  LaneOf <- MCLaneOf
  Request <- VideoRequests
  Ops = {"cancel", "replay"}
  MaxJobs = 2
  LaneCap = 2
  MaxRestartRequeues = 1
  MaxBoots = 0
  CanStop = FALSE
  DBMayFail = FALSE
INVARIANTS ExclusiveRoots
PROPERTIES QueuedIsServed RunningEnds TurnEnds
