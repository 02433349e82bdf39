\* Two processes, three ids, and a file that names a destination twice.
CONSTANTS
  p1 = p1
  p2 = p2
  host1 = host1
  addr1 = addr1
  given2 = given2
  eth1 = eth1
  loopback = loopback
  vault = vault
  Processes = {p1, p2}
  Managers = {p1}
  Ids = {host1, addr1, given2}
  Addresses = {eth1, loopback}
  RegisterId <- MCRegisterId
  ApplyIds <- MCApplyIds
  Answers <- MCAnswers
  Upstreams <- MCUpstreams
  DestinationNames = {vault}
  Files <- MCFiles
  None = None
SPECIFICATION MeshSpec
INVARIANTS
  AgentAgrees
  EndpointsServed
PROPERTIES
  Discoverable
  Forgotten
