CONSTANTS
  g1 = g1
  g2 = g2
  None = None
  Goals <- TwoGoals
  Places <- MCPlaces
  Views = {"off", "far", "near"}
  GripperTimeout = 1
  CubeLiveTimeout = 0
  MaxLunge = 1
  BackupDist = 1
SYMMETRY TwoSymmetry
CHECK_DEADLOCK FALSE
SPECIFICATION Spec
INVARIANTS
  ServoingIsAlone
  StandsWhileJawsMove
  HiddenWhileCarried
  CarriesInClosedJaws
PROPERTIES
  UsesNavClientProperly
  KeepsOrder
