\* Two passes over two segments and two peaks with two levels: the merge, the checkpoints and
\* every way a run can end.  Retries are left to MCEngineControl.
CONSTANTS
  f1 = f1
  f2 = f2
  Freqs = {f1, f2}
  Levels = {1, 2}
  Passes = 2
  Segments = 2
  MaxRetries = 0
  StartCommands = 0
  StopCommands = 1
  MaxRuns = 1
SYMMETRY Symmetry
SPECIFICATION Spec
INVARIANTS
  WorstCaseKept
  CrashSafe
  FinishedIsComplete
PROPERTIES
  SavedPointsStay
