CONSTANTS
  c1 = c1
  c2 = c2
  c3 = c3
  c4 = c4
  d1 = d1
  d2 = d2
  e1 = e1
  e2 = e2
  peer = peer
  Calls = {c1, c2, c3}
  Callers = {d1, d2, peer}
  Caller <- TwoDevices
  Devices = {d1, d2}
  ValidIds = {d1}
  Endpoints = {e1}
  TTL = 1
  None = None
  MaxFaults = 1

SPECIFICATION FairSpec
PROPERTY CallsEnd
PROPERTY StalePurged
