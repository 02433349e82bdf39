\* The policy file is always there, but need not load.
CONSTANTS
  Scanners = {s1, s2}
  Concurrent = TRUE
  key = key
  mail = mail
  note = note
  Contents <- MCContents
  PolicyFiles <- MCPresent
  Missing = Missing
  Broken = Broken
  AuditMayFail = TRUE
  None = None
SPECIFICATION Spec
INVARIANTS
  GatewayIsWhole
  AlwaysBlocked
PROPERTY
  ImplementsHotReload
