\* Three instances that start, three migrations, two presets, two errors or crashes;
\* two users, emails and requests; an avatar of two types, two subtitles.
SPECIFICATION RequestsSpec
CONSTANTS
  Instances = {i1, i2, i3}
  Versions = {1, 2, 3}
  NumPresets = 2
  MaxTrouble = 2
  Ids = {u1, u2}
  Mails = {m1, m2}
  Slots = {s1, s2}
  None = None
  Exts = {jpg, png}
  Tracks = {t1, t2}
INVARIANTS
  TypesOK
  SchemaIsMigrated
  Seeded
  RowsHaveFiles
PROPERTIES
  AccountsHold
SYMMETRY RequestSymmetry
\* It stops when every budget is spent.
CHECK_DEADLOCK FALSE
