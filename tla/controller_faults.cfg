SPECIFICATION LiveSpec
CONSTANTS
  i1 = i1
  None = None
  Instances <- One
  Slots = 4
  MaxIntents = 3
  MaxFaults = 2
  UserIntents = {"running", "stopped", "deleted"}
  FleetIntents = {"running", "stopped", "deleted"}
  HasMaxMinutes = TRUE
INVARIANTS
  QuietShutdown
  TypeOK
  RestIsReal
  NoRestartLoop
  RetriesAreIdle
PROPERTIES
  IntentsAreMet
