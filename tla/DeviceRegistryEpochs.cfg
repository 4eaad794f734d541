\* The statement of uDAQC_IO.js about epochs.
\* When every connection is made and ended, nothing need happen.
CHECK_DEADLOCK FALSE
CONSTANTS
  s1 = s1
  s2 = s2
  s3 = s3
  d1 = d1
  d2 = d2
  n1 = n1
  n2 = n2
  None = None
  Sessions = {s1, s2}
  Descs = {d1, d2}
  DescOf <- MCDescOf
  Names = {n1, n2}
  NameOf <- MCNameOf
  Histories = FALSE
  Faulty = {}
  MaxRows <- MCMaxRows
SPECIFICATION Spec
INVARIANTS
  EpochsSeparated
