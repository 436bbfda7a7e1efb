SPECIFICATION MCSpec
CONSTANTS
  None = None
  Keys = {k1, k2, k3, k4}
  DailyCap = 2
  Day = 4
  DedupCooldown = 2
  MaxTime = 4
  MaxDecisions = 4
SYMMETRY KeySymmetry
INVARIANTS
  TypeOK
  CacheSpansOneCooldown
  CapRefusalsJustified
  MailsBounded
PROPERTIES
  OkMeansMailed
  ImplementsDedup
  ImplementsMonitor
  ImplementsBucket
