SPECIFICATION LiveSpec
CONSTANTS
  MaxNotices = 3
  MaxGame = 2
  MaxClient = 2
  MaxRefused = 1
  Agents = {1, 2}
  Handlers = {1, 2}
  MaxBoots = 2
  MaxFaults = 3
  Absent = Absent
CHECK_DEADLOCK FALSE
INVARIANTS
  HeldTypes
  OneGame
  StartIsOnRecord
PROPERTIES
  DownLink
  UpLink
  NobodyWaits
  FilesAreSafe
  EndsHappen
