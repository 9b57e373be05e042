SPECIFICATION ValidationSpec
CONSTANTS
  ra = ra
  rb = rb
  Service = {1, 2}
  Route = {ra, rb}
  NoRoute = NoRoute
  RootLists <- MCRootLists
  MaxInt = 7
  SecondsPerMinute = 2
  Documents <- MCDocuments
INVARIANTS
  AcceptedHasNoCycle
  ReportedCycleIsReal
  WarnsExactlyUnreachable
  AcceptedIsRunnable
PROPERTY
  Returns
