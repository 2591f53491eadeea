\* Each of the five transports, opened twice, with two queries of two parts, a read
\* behind no query, and a clear by either thread.  Numbers wrap after six, before which
\* a leftover is gone.
CONSTANTS
  Parts = 2
  MaxId = 6
  MaxOpens = 2
  MaxQueries = 2
  MaxClears = 1
  MaxDrains = 1
SPECIFICATION Spec
INVARIANTS
  ResponseIsWhole
  ResponseIsOfItsQuery
PROPERTIES
  OperationEnds
CHECK_DEADLOCK FALSE
