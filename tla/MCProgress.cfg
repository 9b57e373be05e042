SPECIFICATION ReporterSpec
CONSTANTS
  a1 = a1
  a2 = a2
  Call <- MCCall
  Root <- MCRoot
  Children <- MCChildren
INVARIANTS
  ReportIsCurrent
PROPERTY
  DeltasNeverNegative
