CONSTANTS
  CheckInterval = 2
  HangThreshold = 4
  Window = 24
  MaxRestarts = 3
  CommandTime = 4
SPECIFICATION FairSpec
PROPERTIES
  RestartsSpaced
  FirstRebootIsEarned
  Escalates
