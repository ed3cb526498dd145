\* A cap of two and four requests, so that the route fills, overflows and fills
\* again after an expiry, with two faults.
SPECIFICATION FairSpec
CONSTANTS
  Requests = {r1, r2, r3, r4}
  MaxConcurrent = 2
  MaxFaults = 2
INVARIANTS
  TypeOK
  CapExplained
  LeakGuard
PROPERTY RouteReopens
