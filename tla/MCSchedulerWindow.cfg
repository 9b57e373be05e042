SPECIFICATION Spec
CONSTANTS
  quick = quick
  slow = slow
  Root = {quick, slow}
  TracesPerHour <- MCRates
  Hour = 14
  Minute = 2
  Second = 1
  Surges <- MCSurges
  MinInterval = 1
  MaxTime = 14
  MaxInflight = 2
INVARIANT
  WindowTakesEffect
