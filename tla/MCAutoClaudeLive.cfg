SPECIFICATION MCLiveSpec
CONSTANTS
  None = None
  Alerts <- MCMixed
  AllowedRules <- MCAllowedRules
  LowerCase <- MCLowerCase
  Projects <- MCProjects
  SafeKey <- MCSafeKey
  MaxConcurrent = 1
  MaxSecond = 0
  MaxIncidents = 2
INVARIANTS
  CapHolds
PROPERTIES
  MCPermitComesBack
