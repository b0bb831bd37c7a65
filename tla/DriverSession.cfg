CONSTANTS
  g1 = g1
  g2 = g2
  None = None
  Goals = {g1, g2}
  Kinds = {"arm", "chassis", "gimbal", "servo", "gripper"}
  MaxNodes = 2
  Reconnect = TRUE
  Loads <- MCLoads
SPECIFICATION FairSpec
INVARIANTS
  SuccessIsTheRobots
PROPERTIES
  ClosedAfterAborted
  NoNodeAfterInterrupt
  InterruptEnds
  LossIsNoticed
  GoalsAreAnswered
CHECK_DEADLOCK FALSE
