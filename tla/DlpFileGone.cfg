\* The policy file may be missing when reload() looks.
CONSTANTS
  Scanners = {s1}
  Concurrent = FALSE
  key = key
  mail = mail
  note = note
  Contents <- MCContents
  PolicyFiles <- MCAny
  Missing = Missing
  Broken = Broken
  AuditMayFail = FALSE
  None = None
SPECIFICATION Spec
INVARIANT AlwaysBlocked
