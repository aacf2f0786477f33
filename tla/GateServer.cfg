SPECIFICATION ServerSpec
CONSTANTS
  None = None
  Calls = {c1, c2}
  Tools <- MCTools
INVARIANTS
  CallsAreSerial
  OnlyLateCallsAreCut
PROPERTIES
  StopEnds
  CallsEnd
CHECK_DEADLOCK FALSE
