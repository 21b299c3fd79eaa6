SPECIFICATION Spec
CONSTANTS
  Capacity = 2
  Buffer = 1
  Readers = {1}
  MaxText = 5
  MaxPiece = 2
  c1 = c1  c2 = c2
  Clients <- MCClients
  Ip <- MCIp
  Ids = {0, 1}
  MaxSessions = 2
  MaxPending = 1
  MaxMessages = 2
  MaxDatagrams = 1
  MaxAdrift = 1
  i1 = i1  i2 = i2  i3 = i3
  Instances <- MCInstances
  Game <- MCGame
  MaxStarts = 3
  MaxTime = 2
  None = None
INVARIANTS
  TypeOK
  LogTells
  MessagesKeepMeaning
  LinksAreOwn
  NoLeakedBackend
  PrepareIsTrue
CHECK_DEADLOCK FALSE
