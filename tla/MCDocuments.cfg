SPECIFICATION Spec
CONSTANTS
  Null = Null
  Alien = Alien
  NaN = NaN
  Bytes = Bytes
  Unreadable = Unreadable
  Undamaged = Undamaged
  Sessions <- MCSessions
  Handled <- MCHandled
  Templates <- MCTemplates
  LimitLines <- MCLimitLines
  Tables <- MCTables
  Analyzers <- MCAnalyzers
  Now = 2500
  MaxEdits = 1
  MaxCalls = 4
  PageTop = 177
  PageBottom = 1000
  PlotHeight = 500
  ParagraphHeights <- MCParagraphs
INVARIANTS
  SavedSessionReturns
  DamageStaysLocal
  ReportIsWhole
CHECK_DEADLOCK FALSE
