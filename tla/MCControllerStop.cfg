\* One connection and one run, given up or left at any moment.
CONSTANTS
  Limits = {l1}
  Rbws = {}
  Freqs = {f1}
  MaxLevel = 1
  MaxPasses = 1
  l1 = l1
  f1 = f1
  MaxConnections = 1
  MaxStarts = 1
SPECIFICATION Spec
INVARIANTS
  StopCommandsSent
