SPECIFICATION LiveSpec
CONSTANTS
  s1 = s1  s2 = s2  h1 = h1  h2 = h2  p1 = p1  p2 = p2
  g1 = g1  g2 = g2  r1 = r1  r2 = r2
  None = None
  Servers <- OneServer
  Hosts <- OneHost
  Lambdas <- OneLambda
  Games <- OneGame
  Releases <- OneRelease
  Workload <- MCWorkload
  Capacity <- MCCapacity
  Need <- MCNeed
  Dims <- OneDim
  Memory = "memory"
  MaxHosts = 1
  MaxServers = 1
  MaxRequests = 2
  MaxFaults = 0
  CrashCost = 0
  Intents = {"running", "stopped", "deleted"}
  MaxAged = 1
  Workers <- OneHost
  Purgeable = {}
  HasDeadline = FALSE
  MayDestroy = FALSE
PROPERTIES
  StartIsServed
  
