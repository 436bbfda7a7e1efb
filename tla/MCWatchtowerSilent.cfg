SPECIFICATION MCSpec
CONSTANTS
  None = None
  MinInterval = 1
  MaxInterval = 1
  DefaultInterval = 1
  Unstructured = Unstructured
  Chains = {"reg"}
  Steps = {}
  Events <- MCEvents
  Window <- MCWindow
  Threshold <- MCOnce
  Cooldown <- MCWindow
  Entries <- MCEntries
  ChannelCap = 1
  PipeCap = 1
  ParseLine <- MCParseLine
  Env <- MCEnv
  MayFail <- MCMayFail
  MayPanic <- MCMayPanic
  RuleOrder <- MCRuleOrder
  Backlog = 1
  MaxTime = 1
  MaxEntries = 3
INVARIANTS
  NeverSilentlyDropped
CHECK_DEADLOCK FALSE
