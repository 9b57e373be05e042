SPECIFICATION ProgramSpec
CONSTANTS
  quick = quick
  slow = slow
  Root = {quick, slow}
  TracesPerHour <- MCRates
  Hour = 14
  Minute = 2
  Second = 1
  Surges <- MCSurges
  MinInterval = 1
  MaxTime = 7
  MaxInflight = 2
INVARIANTS
  TickerAboveFloor
  NeverTooMany
  NoticedWithinOneTick
  QuietBeforeFlush
  NothingLostAtExit
PROPERTIES
  CancelExits
  ImplementsSession
