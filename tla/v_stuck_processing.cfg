\* An upload races the workers.
SPECIFICATION Spec
CONSTANTS
  v1 = v1
  v2 = v2
  p1 = p1
  p2 = p2
  Presets = {p1, p2}
  Height = {360, 720, 1080}
  None = None
  Videos = {v1}
  DefaultPresets = {p1, p2}
  Workers = {w1, w2}
  Clients = {c1}
  MaxAttempts = 2
  MaxJobs = 2
  MaxFaults = 0
  MayStop = FALSE
  MayCrash = FALSE
  MaxRestarts = 0
  DeletableVideos = {}
  DeletablePresets = {}
  Resolutions <- TwoPresets
  RetranscodeChoices <- NoRetranscode
INVARIANTS
  SettledVideoIsReady
