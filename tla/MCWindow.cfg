\* Two passes and three connections, starts and edits in any combination, at any moment
\* of which the operator may save, open, export, disconnect or leave.
CONSTANTS
  l1 = l1
  f1 = f1
  s1 = s1
  None = None
  Limits = {l1}
  Freqs = {f1}
  Rbws = {1}
  Files = {s1}
  MaxLevel = 2
  MaxPasses = 2
  MaxConnections = 2
  MaxStarts = 2
  MaxEdits = 2
  MaxCalls = 3
SPECIFICATION WindowSpec
INVARIANTS
  EngineFollowsController
  OneConnection
  CommandsStayOnBus
  SettledTableIsSession
  CleanLosesNothing
  RunMeasuresWhatDockShows
PROPERTIES
  GivenUpIsClosed
  EditingReturns
