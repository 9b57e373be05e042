SPECIFICATION Spec
CONSTANTS
  MaxInt = 7
  MaxInt64 = 7
  Inputs <- MCInputs
INVARIANTS
  DrawnIsSelectable
  SharesAreWeights
  OutcomeMatchesSpan
  ConversionKeeps
  RouteIsNamed
  LatencyShape
