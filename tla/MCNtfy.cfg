SPECIFICATION MCSpec
CONSTANTS
  Capacity = 2
  Interval = 5
  Messages = {short, long}
  Uncuttable = {long}
  Timeout = 1
  MaxTime = 12
  MaxTakes = 7
INVARIANTS
  NtfyTypeOK
  RateBound
  RefusalJustified
PROPERTIES
  OkMeansPushed
CHECK_DEADLOCK FALSE
