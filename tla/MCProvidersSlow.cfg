SPECIFICATION Spec
CONSTANTS
  N = 2
  Healths <- MCHealths
INVARIANT
  SlowNeverDropsFast
