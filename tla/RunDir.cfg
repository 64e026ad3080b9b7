SPECIFICATION Spec
CONSTANTS
  None = None
  Filters = {"B", "OIII"}
  MaxJobs = 2
  MaxPasses = 2
  MaxFaults = 1
INVARIANTS CheckpointTells RerunShows
CHECK_DEADLOCK FALSE
