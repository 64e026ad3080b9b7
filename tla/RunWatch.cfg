SPECIFICATION FairSpec
CONSTANTS
  j1 = j1
  j2 = j2
  r1 = r1
  p1 = p1
  p2 = p2
  NoJob = NoJob
  NoPreview = NoPreview
  Job = {j1, j2}
  Reader = {r1}
  Opened = {j1}
  Preview = {p1, p2}
  ChanCap = 2
  MaxRuns = 2
INVARIANTS OneSampler SamplerServesRuns PreviewUpToDate
PROPERTIES StreamEnds
