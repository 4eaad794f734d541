SPECIFICATION Spec
CONSTANTS
  max_uint32 = 4
  Garbage = Garbage
  Null = Null
  Plans <- MCPlans
  RowSets <- MCRowSets
  Zooms <- MCZooms
INVARIANTS
  TypeOK
  LabelsMatchData
  RowsShown
  EpochsApart
  AxesAgree
  TreeAndDashboardsAgree
  RangeArrives
