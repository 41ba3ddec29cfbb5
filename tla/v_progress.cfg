SPECIFICATION Spec
CONSTANTS
  JobIds = {j1}
  Percents = {0, 100}
  Renditions = 2
  MaxAttempts = 2
INVARIANTS
  ProgressIsOfTheWhole
CHECK_DEADLOCK FALSE
