\* Three commands, a clock that wraps after eight delays, two values. Bounded parts
\* come to an end.
CHECK_DEADLOCK FALSE
CONSTANTS
  header_length = 2
  Lengths = {0, 1, 3}
  MaxSent = 3
  Garbage = Garbage
  RepeaterWrap = 40
  timedelay = 5
  Horizon = 60
  MaxExecutions = 14
  WiFiWrap = 16
  Patience = 5
  MaxPass = 3
  Saveable = {0, 1}
  Name = {n}
  Data = {a, b, c}
  Initial = a
  MaxFaults = 2
SPECIFICATION MCSpec
INVARIANTS
  TypesOK
  InOrder
  OnScheduleBeforeWrap
  AccessPointInTime
PROPERTIES
  ImplementsFifo
  CommandsReceived
  LoopEnds
  OthersSurvive
