SPECIFICATION Spec
CONSTANTS
  JobIds = {j1}
  Percents = {0, 100}
  Renditions = 2
  MaxAttempts = 2
INVARIANTS
  EmbedStreams
CHECK_DEADLOCK FALSE
