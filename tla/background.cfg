\* The limiter: one client, a window of two ticks; the setting changes once, the database
\* fails once.  Webhooks: one; one event and three secrets, or two events that may
\* overlap and one secret; one PUT; one error, lost answer or crash.  ffmpeg: outputs of
\* up to five bytes, a pipe of two, a buffer of three.
SPECIFICATION BackgroundSpec
CONSTANTS
  Ips = {a}
  Window = 2
  DefaultRPM = 2
  Settings = {0, 1, 3}
  MaxTime = 7
  MaxRequests = 4
  MaxChanges = 1
  MaxFaults = 1
  Hooks = {h1}
  Events = {e1, e2}
  Editors = {c1}
  MaxSecrets = 3
  MaxAsked = 5
  MaxOutput = 5
  PipeSize = 2
  MaxToken = 3
  TailSize = 1
INVARIANTS
  TypesOK
  WindowWithinLimit
  QuietClientAdmitted
  ShownSecretIsStored
  DeliveriesAreTold
  LinesRead
PROPERTIES
  WorkIsDone
\* It stops when every budget is spent.
CHECK_DEADLOCK FALSE
