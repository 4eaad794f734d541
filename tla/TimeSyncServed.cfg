\* The statement of Architecture.md, which a session that closes while its
\* synchronizer is served refutes.
CHECK_DEADLOCK FALSE
CONSTANTS
  s1 = s1
  s2 = s2
  a1 = a1
  a2 = a2
  NoSync = NoSync
  Syncs = {s1, s2}
  Addresses = {a1, a2}
  AddressOf <- TwoDevices
  PointsToFull = 2
  SoTimeout = 1
  SyncTimeout = 2
  Resolution = 1
  MaxDelay = 0
  MaxInFlight = 1
SPECIFICATION Spec
PROPERTIES
  EveryConnectionIsServed
