\* Two ranges and two points; more answers outstanding than a drain reads.
CONSTANTS
  r1 = r1
  r2 = r2
  p1 = p1
  p2 = p2
  Ranges = {r1, r2}
  Points = {p1, p2}
  MaxDrains = 1
  MaxBacklog = 3
  MaxWire = 1
  MaxOpens = 1
SYMMETRY Symmetry
SPECIFICATION Spec
INVARIANTS
  ScanIsOfItsRange
  ReadingIsOfItsPoint
CHECK_DEADLOCK FALSE
