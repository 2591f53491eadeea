\* Whole passes over every pair of emissions, ten configurations, two instruments.
CONSTANTS
  Bands <- MCBands
  Log <- MCLog
  Infinite = 100000
  Noise = 0
  EmissionLevels = {60, 72}
  Configurations <- ScanConfigurations
  Instruments <- ScanInstruments
SPECIFICATION Spec
INVARIANTS
  SegmentsTile
  CriticalEmissionsFlagged
  ExceedanceMeasured
CHECK_DEADLOCK FALSE
