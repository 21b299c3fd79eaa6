SPECIFICATION Spec
CONSTANTS
  s1 = s1  s2 = s2  h1 = h1  h2 = h2  p1 = p1  p2 = p2
  g1 = g1  g2 = g2  r1 = r1  r2 = r2
  None = None
  Servers <- TwoServers
  Hosts <- OneHost
  Lambdas <- TwoLambdas
  Games <- TwoGames
  Releases <- OneRelease
  Workload <- MCWorkload
  Capacity <- MCCapacity
  Need <- MCNeed
  Dims <- OneDim
  Memory = "memory"
  MaxHosts = 1
  MaxServers = 2
  MaxRequests = 3
  MaxFaults = 0
  CrashCost = 0
  Intents = {"deleted"}
  MaxAged = 0
  Workers = {}
  Purgeable = {}
  HasDeadline = FALSE
  MayDestroy = FALSE
SYMMETRY Symmetry
INVARIANTS
  TypeOK
  NoDataLoss
  Placement
PROPERTIES
  IntentIsDurable
