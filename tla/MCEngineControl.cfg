\* Two runs of one pass and a retry, with every interleaving of
\* pause, resume and abort: control flags of one run meeting the next run.
CONSTANTS
  f1 = f1
  Freqs = {f1}
  Levels = {1}
  Passes = 1
  Segments = 1
  MaxRetries = 1
  StartCommands = 1
  StopCommands = 1
  MaxRuns = 2
SPECIFICATION Spec
PROPERTIES
  ImplementsLifecycle
  AbortEndsRun
  RunEnds
