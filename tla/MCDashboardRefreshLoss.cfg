\* The same with sessions that the server may end.
CONSTANTS
  Refreshers = {w1, w2}
  TargetRuns = {1, 2, 3}
  HistoryLimit = 2
SPECIFICATION LossySpec
INVARIANTS
  ReportedStaysVisible
