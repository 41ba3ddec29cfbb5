SPECIFICATION WebSpec
CONSTANTS
  Users = {u1, u2}
  None = None
  Slots = {c1, c2}
  OneSlot = {c3}
  MaxVersion = 2
  Videos = {a, b}
INVARIANTS
  TypeOK
  SharedRefresh
  AccountsAgree
  ReadYourWrites
PROPERTIES
  SessionGoesOn
  ChangesAreShown
CHECK_DEADLOCK FALSE
