SPECIFICATION FairSpec
CONSTANTS
  u1 = u1
  u2 = u2
  p1 = p1
  p2 = p2
  r1 = r1
  Process = {p1}
  Url = {u1}
  UrlOf <- SharedUrl
  Replica = {r1}
  NoAgent = NoAgent
  NoJob = NoJob
  FaultKinds = {"crash", "redis", "read", "stall", "vector", "disconnect", "restart", "wipe", "switch"}
  MaxFaults = 1
  MaxStarts = 2
INVARIANTS RedisConsistent NoGhosts
PROPERTIES LiveAgentsStayRegistered DeadAgentsGo
