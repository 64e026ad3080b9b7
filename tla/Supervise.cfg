SPECIFICATION FairSpec
CONSTANTS
  saturation = saturation
  background = background
  trail_mask = trail_mask
  seam_noise = seam_noise
  r1 = r1
  KnobA = {saturation}
  KnobB = {background}
  KnobC = {trail_mask, seam_noise}
  Slip = {seam_noise}
  MaxPatch = 2
  Iters = 3
  BudgetB = 1
  BudgetC = 1
  Score = {0, 2}
  Run <- MCRun
  Reader = {r1}
  ChanCap = 2
INVARIANTS DeliveredOnce ImageMatchesPreset NudgeHeard StopHeeded AnswerCounts BudgetKept
PROPERTIES LoopEnds
CHECK_DEADLOCK FALSE
