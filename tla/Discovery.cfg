\* Two connections, three servers, two faults.
SPECIFICATION FairSpec
CONSTANTS
  Device = {d1}
  Connection = {c1, c2}
  MaxThreads = 3
  MaxFaults = 2
INVARIANTS
  TypeOK
  OneConnection
PROPERTIES
  RestartReturns
  EventuallyRegistered
