CONSTANTS
  c1 = c1
  c2 = c2
  c3 = c3
  c4 = c4
  d1 = d1
  d2 = d2
  e1 = e1
  e2 = e2
  peer = peer
  Calls = {c1, c2, c3, c4}
  Callers = {d1, d2, peer}
  Caller <- OneDevice
  Devices = {d1}
  ValidIds = {d1}
  Endpoints = {e1, e2}
  TTL = 2
  None = None
  MaxFaults = 1

SPECIFICATION Spec
SYMMETRY CallSymmetry
INVARIANT TypeOK
INVARIANT LeaseHolds
INVARIANT RegistrationHolds
PROPERTY LookupTrue
PROPERTY ServesAsDirectory
