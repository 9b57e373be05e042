SPECIFICATION Spec
CONSTANTS
  v1 = v1
  v2 = v2
  Visit <- MCVisit
  Declared <- MCDeclared
  Malformed = {"9bad"}
INVARIANT
  BackendAddsUp
PROPERTIES
  OneInstrument
  VisitsFinish
