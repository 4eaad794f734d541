SPECIFICATION Spec
CONSTANTS
  c1 = c1
  c2 = c2
  a = a
  b = b
  Clients = {c1, c2}
  Devices = {a, b}
  Null = Null
  Loaded <- MCLoaded
  SystemCount <- MCSystemCount
  MaxAsked = 1
  MaxChanges = 3
INVARIANTS
  TypeOK
  DevicesOnPage
  HistoryOnItsChart
  CommandsReachTheirDevice
  LatestClientAnswered
CHECK_DEADLOCK FALSE
SYMMETRY Symmetry
