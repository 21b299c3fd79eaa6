SPECIFICATION LiveSpec
CONSTANTS
  t1 = t1  x1 = x1  l1 = l1  l2 = l2
  None = None
  Presets <- OnePreset
  Extras <- NoExtra
  Lambdas <- TwoLambdas
  Asked <- OnePreset
  Actions = {"start", "stop"}
  AdminIntents = {}
  MaxRequests = 2
  Expiring = {1}
  MaxFaults = 0
PROPERTIES
  RequestIsTaken
INVARIANTS
  OutcomeIsOwn
