SPECIFICATION Spec
CONSTANTS
  Ids = {i1, i2}
  OneId = {i3}
  None = None
  Gone = Gone
  Slots = {c1, c2}
  OneSlot = {c3}
  Blank = Blank
  Roles = {r0}
  Labels = {r1}
  Odd = {r2}
  Events = {e1}
  Texts = {t1, t2}
  OneText = {t3}
  MaxChanges = 2
  Videos = {a, b}
  MaxRuns = 3
  OptionKeys = {k1, k2}
  Choices = {d1, d2}
  Default = d1
  Lines = {l1}
  MaxWidgets = 3
  Searches = {s1, s2}
  PageSizes = {1, 2}
  MoreLimit = 2
  MaxRows = 2
  Ages = {7, 30}
  Periods = {7, 30}
  Paths <- SomePaths
  Width = 2
  stepDuration = 2
  JobIds = {j1}
  Percents = {0, 100}
  Renditions = 1
  MaxAttempts = 2
SYMMETRY Alike
INVARIANTS
  TypeOK
  SavedIsStored
  ActsOnItsItem
  ShownBelongsTogether
  ChoicesKept
  TimersHold
  VideoAsItIs
PROPERTIES
  NothingLostNorTwice
\* Pages stay where their bounds are reached.
CHECK_DEADLOCK FALSE
