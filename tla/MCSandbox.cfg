\* A command and a container at the same time; the record may raise.
\* Each call is made once: when all have come back, nothing is left to do.
CONSTANTS
  Calls = {c1, c2}
  Docker = {c2}
  AuditMayFail = TRUE
SPECIFICATION Spec
INVARIANTS
  OnlyTimeoutsLeave
PROPERTIES
  Returns
CHECK_DEADLOCK FALSE
