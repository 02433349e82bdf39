\* Two processes and two upstreams, one of them with "404" in its name.
CONSTANTS
  Admins = {p1, p2}
  Sources = {gateway, agent}
  Star = Star
  vault = vault
  api404 = api404
  Destinations = {vault, api404}
  Service = gateway
  UpstreamNames <- MCUpstreams
  AllowLists = {{agent}}
  Misread = {api404}
SPECIFICATION Spec
SYMMETRY Symmetric
INVARIANTS
  DefaultDeny
  LastWordHolds
  Ensured
