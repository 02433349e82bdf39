\* Other threads observe and release during a tick; callbacks may raise.
CONSTANTS
  Agents = {a1, a2}
  Mode = "auto"
  WindowSize = 3
  MinHistory = 2
  RateNum = 7
  RateDen = 10
  RepeatedThreshold = 2
  Concurrent = TRUE
  HookMayFail = TRUE
SPECIFICATION Spec
INVARIANTS
  TypeOK
  CleanNeverIsolated
PROPERTIES
  IsolationGrounded
  Isolates
