\* One upload with two presets; a call may fail, the process be stopped or killed, and started once more.
SPECIFICATION Spec
CONSTANTS
  v1 = v1
  v2 = v2
  p1 = p1
  p2 = p2
  Presets = {p1, p2}
  Height = {360, 720, 1080}
  None = None
  Videos = {v1}
  DefaultPresets = {p1, p2}
  Workers = {w1, w2}
  Clients = {c1}
  MaxAttempts = 2
  MaxJobs = 2
  MaxFaults = 1
  MayStop = TRUE
  MayCrash = TRUE
  MaxRestarts = 1
  DeletableVideos = {}
  DeletablePresets = {}
  Resolutions <- TwoPresets
  RetranscodeChoices <- NoRetranscode
INVARIANTS
  TypeOK
  OneWorkerPerJob
  HeldRowIsClaimed
  RetriesExhausted
  SomeoneFinishes
  PlaylistPathHasFile
PROPERTIES
  TerminalJobsStay
  ImplementsQueue
SYMMETRY WorkerSymmetry
\* The process may stop for good.
CHECK_DEADLOCK FALSE
