SPECIFICATION Spec
CONSTANTS
  t1 = t1  x1 = x1  l1 = l1  l2 = l2
  None = None
  Presets <- OnePreset
  Extras <- OneExtra
  Lambdas <- OneLambda
  Asked <- OneExtra
  Actions = {"start", "remove"}
  AdminIntents = {"deleted"}
  MaxRequests = 2
  Expiring = {}
  MaxFaults = 1
INVARIANTS
  TypeOK
PROPERTIES
  RetriesKeepIntent
  CompletionIsReal
