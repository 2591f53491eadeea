\* One peak, two segments and a retry under a signal at any moment of the job.
CONSTANTS
  f1 = f1
  Freqs = {f1}
  Levels = {1}
  Passes = 1
  Segments = 2
  MaxRetries = 1
  StartCommands = 1
  StopCommands = 1
  MaxRuns = 1
SPECIFICATION JobSpec
INVARIANTS
  CancelledNeverPasses
  EngineOutlivesCall
  VerdictIsEarned
PROPERTIES
  JobEnds
