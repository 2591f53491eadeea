\* Two targets, two connections, two queries given up on each.
CONSTANTS
  Targets = {1, 2}
  MaxOpens = 2
  MaxLost = 2
  MaxWire = 3
SPECIFICATION Spec
INVARIANTS
  TraceIsOfItsSweep
  LineIsQuiet
CHECK_DEADLOCK FALSE
