SPECIFICATION MCSpec
CONSTANTS
  None = None
  Alerts <- MCColliding
  AllowedRules <- MCAllowedRules
  LowerCase <- MCLowerCase
  Projects <- MCProjects
  SafeKey <- MCSafeKey
  MaxConcurrent = 2
  MaxSecond = 1
  MaxIncidents = 3
INVARIANTS
  TypeOK
  PermitsConserved
  OneIncidentPerTranscript
  OwnWorktree
