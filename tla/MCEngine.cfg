\* Evaluations overlap reloads, and the files change at any time.
CONSTANTS
  Reloaders = {r1}
  Evaluators = {e1}
  Concurrent = TRUE
  ls = ls
  rm = rm
  hub = hub
  api = api
  Commands <- MCCommands
  Domains <- MCDomains
  Below <- MCBelow
  Dirs = {d1}
  CommandFiles <- MCCommandFiles
  DomainFiles <- MCDomainFiles
  Missing = Missing
  Broken = Broken
  AuditMayFail = FALSE
  None = None
SPECIFICATION Spec
INVARIANTS
  SteadyDecision
  ExplicitHolds
  PolicyIsWhole
  FailedReloadKeepsOld
PROPERTY
  ImplementsHotReload
