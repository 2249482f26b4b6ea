SPECIFICATION FairSpec
CONSTANTS
  u1 = u1
  u2 = u2
  p1 = p1
  p2 = p2
  r1 = r1
  Process = {p1, p2}
  Url = {u1}
  UrlOf <- SharedUrl
  Replica = {r1}
  NoAgent = NoAgent
  NoJob = NoJob
  FaultKinds = {}
  MaxFaults = 0
  MaxStarts = 2
INVARIANTS SearchMatches
PROPERTIES LiveAgentsStayRegistered
