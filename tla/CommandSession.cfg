CONSTANTS
  k1 = k1
  u1 = u1
  u2 = u2
  x = x
  r1 = r1
  r2 = r2
  None = None
  Resolutions = {r1, r2}
  MaxAccepts = 2
  Keys = {k1}
  Subjects = {u1, u2}
  UidLists <- MCUidLists
  Periods <- MCPeriods
  StepLen = 4
  MaxDelay = 6
  EnabledEvents = {"armor"}
  Masks <- MCMasks
SPECIFICATION FairSpec
INVARIANTS
  WatchdogBites
  RateIsKept
  StreamerIsSound
PROPERTIES
  FramesFitEncoder
  VanishedClientIsDropped
CHECK_DEADLOCK FALSE
