CONSTANTS
  g1 = g1
  g2 = g2
  None = None
  Goals <- TwoGoals
  Places <- MCPlaces
  Views = {"near"}
  GripperTimeout = 1
  CubeLiveTimeout = 0
  MaxLunge = 1
  BackupDist = 1
CHECK_DEADLOCK FALSE
SPECIFICATION FairSpec
PROPERTIES
  PickupNeverStalls
  DropCompletes
  LungeEnds
