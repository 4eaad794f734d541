\* Two web clients, up to two rows, with and without views.
CONSTANTS
  Readers = {r1, r2}
  MaxTime = 2
  Coarsest = 3
  Width <- MCWidth
  MaxPoints = 1
SPECIFICATION Spec
INVARIANTS
  TypeOK
  ConnectionRestored
PROPERTIES
  AcceptedRowsAreDecided
