\* Two calls, and up to three signals, kills or failures.
SPECIFICATION Spec
CONSTANTS
  Calls = {c1, c2}
  MaxDisruptions = 3
INVARIANTS
  TypeOK
  NoCallDropped
PROPERTIES
  StopsOnSignal
  ServesAgain
CHECK_DEADLOCK FALSE
