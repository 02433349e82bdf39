\* start() after a stop() whose join timed out.
CONSTANTS
  Threads = {t1, t2}
  Callers = {c1}
  Renewers = {}
  AuthMethod = "oidc"
  AuditMayFail = FALSE
  None = None
SPECIFICATION Safe
INVARIANT
  StartedMeansRunning
