\* Leases from 3 to 8 seconds with a margin of 2/3, a call of a third of a second
\* and up to two failed attempts in a row.  2/3 of 3 seconds and two calls is one
\* unit short of the lease.
CONSTANTS
  MarginNum = 2
  MarginDen = 3
  MinInterval = 1
  MaxInterval = 3
  Lease0 = 3
  LoginLease = 6
  Leases = {3, 4, 6, 8}
  Oidc = TRUE
  MaxCall = 1
  MaxFails = 2
SPECIFICATION ScheduleSpec
INVARIANTS
  NoLapse
  AgeBounded
