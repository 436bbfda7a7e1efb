SPECIFICATION MCSpec
CONSTANTS
  Chains = {"reg"}
  Steps = {"s1"}
  Events <- MCEvents
  None = None
  Window <- MCWindow
  Threshold <- MCThreshold
  Cooldown <- MCCooldown
  MaxTime = 4
  MaxArrivals = 6
INVARIANTS
  HTypeOK
  DequeIsWindow
  NoSilentBurst
PROPERTIES
  ImplementsMonitor
