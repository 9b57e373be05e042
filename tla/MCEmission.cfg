SPECIFICATION Spec
CONSTANTS
  a1 = a1
  a2 = a2
  a3 = a3
  b1 = b1
  Call <- MCCall
  Root <- MCRoot
  Children <- MCChildren
INVARIANTS
  ParentSpanOpen
  WaitGroupExact
  PanicStaysLocal
  StatsSettle
PROPERTIES
  TracesFinish
  ImplementsForest
