CONSTANTS
  MonitorDuration = 3
  RebootWindow = 9
  MemoryCooldown = 1
  DiskCooldown = 2
  HotDuration = 2
  CommandTime = 2
  MemLevels = {"normal", "high", "unknown"}
  DiskLevels = {"normal", "warning", "critical"}
  Temps = {"cool", "hot"}
  Pages = {TRUE}
  ActionDeadline = 9
SPECIFICATION FairSpec
INVARIANTS
  ActedOnInTime
PROPERTIES
  RebootSpaced
  DiskRebootEarned
  MemoryEscalates
  DiskEscalates
