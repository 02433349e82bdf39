\* One application thread starts, stops and renews by hand; the audit log may
\* raise at any record.
CONSTANTS
  Threads = {t1, t2}
  Callers = {c1}
  Renewers = {c1}
  AuthMethod = "oidc"
  AuditMayFail = TRUE
  None = None
SPECIFICATION Safe
INVARIANTS
  OneLoop
  LockHeld
  HonestSuccess
PROPERTIES
  StartLeavesLoop
  LoopEndsOnlyIfStopped
  NoAttemptOnceStopped
  ImplementsServiceSafely
