SPECIFICATION Spec
CONSTANTS
  u1 = u1
  u2 = u2
  p1 = p1
  p2 = p2
  r1 = r1
  Process = {p1}
  Url = {u1}
  UrlOf <- SharedUrl
  Replica = {r1}
  NoAgent = NoAgent
  NoJob = NoJob
  FaultKinds = {"crash"}
  MaxFaults = 1
  MaxStarts = 2
INVARIANTS ListComplete
