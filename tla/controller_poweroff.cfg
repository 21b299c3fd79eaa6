SPECIFICATION LiveSpec
CONSTANTS
  i1 = i1
  None = None
  Instances <- One
  Slots = 4
  MaxIntents = 2
  MaxFaults = 0
  UserIntents = {"running", "stopped"}
  FleetIntents = {}
  HasMaxMinutes = FALSE
PROPERTIES
  StoppedHostPowersOff
