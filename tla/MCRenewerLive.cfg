\* No renewal by hand: nobody else contends for the lock.
CONSTANTS
  Threads = {t1, t2}
  Callers = {c1}
  Renewers = {}
  AuthMethod = "oidc"
  AuditMayFail = FALSE
  None = None
SPECIFICATION FairSpec
PROPERTIES
  KeepsTrying
  Recovers
  ImplementsService
