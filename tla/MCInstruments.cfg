\* One endpoint, two sweeps, two changes on the bus.
CONSTANTS
  Endpoints = {"e1"}
  Speaking = {"e1"}
  Concurrency = 1
  Devices <- MCDevices
  AtStart <- MCAtStart
  Others <- MCOthers
  MaxScans = 2
  MaxChanges = 2
SPECIFICATION Spec
INVARIANTS
  SelectedIsConnected
  FoundBeforeFinished
  RowsFollowBus
PROPERTIES
  ButtonComesBack
CHECK_DEADLOCK FALSE
