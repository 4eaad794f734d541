\* The comment of Database_uDAQC about allocation errors.
CONSTANTS
  Readers = {r1, r2}
  MaxTime = 2
  Coarsest = 3
  Width <- MCWidth
  MaxPoints = 1
SPECIFICATION Spec
INVARIANTS
  NoAllocationError
