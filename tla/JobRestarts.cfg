SPECIFICATION Spec
CONSTANTS
  w1 = w1
  w2 = w2
  s1 = s1
  target = target
  lights = lights
  NoWorker = NoWorker
  Worker = {s1}
  Client = {c1}
  Root = {target, lights}
  Parent <- MCParent
  LaneOf <- MCLaneOf
  Request <- TalkRequests
  Ops = {"cancel", "pause", "continue"}
  MaxJobs = 2
  LaneCap = 1
  MaxRestartRequeues = 1
  MaxBoots = 2
  CanStop = FALSE
  DBMayFail = FALSE
INVARIANTS QueuedIsScheduled RestartBudget
PROPERTIES SeqInOrder TurnStaysTended
