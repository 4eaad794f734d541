\* Delays that differ, a clock that ticks every second unit, sets of three points.
\* The thread may end (PollWithoutAddress); then nothing more need happen.
CHECK_DEADLOCK FALSE
CONSTANTS
  s1 = s1
  s2 = s2
  a1 = a1
  a2 = a2
  NoSync = NoSync
  Syncs = {s1, s2}
  Addresses = {a1, a2}
  AddressOf <- TwoDevices
  PointsToFull = 3
  SoTimeout = 1
  SyncTimeout = 2
  Resolution = 2
  MaxDelay = 1
  MaxInFlight = 2
SYMMETRY Swap
SPECIFICATION Spec
INVARIANTS
  TypeOK
  PointsFromCurrentDevice
  OpenSessionQueuedOnce
  EstimateSound
