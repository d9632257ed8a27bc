SPECIFICATION Spec
CONSTANTS
  Sources <- MCSources
  Moving <- MCMoving
  Pages <- MCPages
  Syncs = 1
  Changes = 2
INVARIANTS TypeOK ReportConsistent
PROPERTIES ReportTrue OldReportKept Converges
