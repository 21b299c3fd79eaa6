SPECIFICATION LiveSpec
CONSTANTS
  g1 = g1  p1 = p1  p2 = p2
  None = None
  Games <- OneGame
  NetQuake <- OneGame
  Players <- TwoPlayers
  Starts = {1, 2, 3, 4}
  MaxSessions = 2
  HasHost = TRUE
CHECK_DEADLOCK FALSE
INVARIANTS
  TypeOK
  SharedStart
PROPERTIES
  ReadyIsFresh
  WaitingEnds
