CONSTANTS
  a1 = a1
  None = None
  Ids = {a1}
  Kinds <- MCKinds
  Available <- MCAvailable
  Periods <- MCPeriods
  StepLen = 2
  SoundLen = 3
  MaxPlays = 1
  ServoLimit = 3
SPECIFICATION FairSpec
INVARIANTS
  OneFinalPush
  NeverSilent
PROPERTIES
  ObservedLifecycle
  TimedActionsEnd
