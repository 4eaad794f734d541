\* Two connections of one device, SQL errors in every statement, history
\* requests, liveness.
\* When every connection is made and ended, nothing need happen.
CHECK_DEADLOCK FALSE
CONSTANTS
  s1 = s1
  s2 = s2
  s3 = s3
  d1 = d1
  d2 = d2
  n1 = n1
  n2 = n2
  None = None
  Sessions = {s1, s2}
  Descs = {d1, d2}
  DescOf <- MCDescOf
  Names = {n1, n2}
  NameOf <- MCNameOf
  Histories = TRUE
  Faulty = {"sql", "race"}
  MaxRows <- MCMaxRows
SPECIFICATION Spec
INVARIANTS
  ListIsStored
PROPERTIES
  DescriptionHandled
