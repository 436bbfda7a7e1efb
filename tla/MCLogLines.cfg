SPECIFICATION MCSpec
CONSTANTS
  Chains = {"reg", "other"}
  Steps <- MCSteps
  Events <- MCEvents
  None = None
  Unstructured = Unstructured
  Fragments = {"5/8", "3/4"}
  Rejecting = {"REJECT", "REJECTED"}
  Records <- MCRecords
  Window <- MCWindow
  Threshold <- MCThreshold
  Cooldown <- MCCooldown
  MaxTime = 3
  MaxLines = 3
INVARIANTS
  AlarmsSpaced
PROPERTIES
  CountedAsNamed
