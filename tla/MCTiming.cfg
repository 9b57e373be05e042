SPECIFICATION Spec
CONSTANTS
  a1 = a1
  a2 = a2
  a3 = a3
  b1 = b1
  c1 = c1
  d1 = d1
  d2 = d2
  d3 = d3
  Call <- MCCall
  Runs <- MCRuns
  Children <- MCChildren
  Latency = {1, 3}
  Interval = 2
  MaxTime = 9
INVARIANTS
  NestedSpansNest
  SpanLength
  BacklogIsBounded
