CONSTANTS
  b1 = b1
  b2 = b2
  c1 = c1
  yaw = yaw
  m1 = m1
  None = None
  Ids = {}
  Kinds <- MCKinds
  Available <- MCKinds
  Periods = {1}
  StepLen = 1
  SoundLen = 1
  MaxPlays = 0
  ServoLimit = 2
  Bulbs = {b1, b2}
  Colors = {c1}
  Phases <- MCPhases
  Uses <- MCUses
  Velocities = {0, 1}
  Yaw = yaw
  Motors = {m1}
  MaxAngle = 1
  Rates = {1}
  Headings = {0, 1}
  Powers = {1, 2}
  FirstPower = 1
SPECIFICATION BodySpec
INVARIANTS
  TargetKeepsItsFrame
  GripperIsToldAll
PROPERTIES
  StandbyOrdersAreDropped
  GimbalMoveReaches
  OtherBulbsKeepTheirLight
