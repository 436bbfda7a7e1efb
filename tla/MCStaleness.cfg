SPECIFICATION MCSpec
CONSTANTS
  None = None
  MinInterval = 2
  MaxInterval = 4
  DefaultInterval = 3
  Environments <- MCEnvironments
  RestartSec = 1
  Stale <- MCStale
  DefaultStale = 4
  MinStale = 3
  FirstCheck = 2
  CheckPeriod = 1
  MaxTime = 8
INVARIANTS
  TypeOK
  OneBeatPerSlot
  SilenceReported
  RefusalReported
PROPERTIES
  HealthyNotReported
CHECK_DEADLOCK FALSE
