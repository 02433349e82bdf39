\* One thread registers credentials, another uses them, a third checks them.
CONSTANTS
  github = github
  payments = payments
  hub = hub
  api = api
  Loaders = {l1}
  Users = {u1}
  Names = {github, payments}
  Secrets = {s1, s2}
  Domains = {hub, api}
  Below <- MCBelow
  Lists <- MCLists
  None = None
  Broad = 1
  HasVault = TRUE
SPECIFICATION MSpec
SYMMETRY SecretSymmetry
INVARIANTS
  Justified
  WholePair
  KeepsPair
  LoadedAll
  ReportHolds
