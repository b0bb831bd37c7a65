\* The simulator may crash, hang or quit.
CONSTANTS
  s1 = s1
  s2 = s2
  g1 = g1
  None = None
  Scripts = {s1, s2}
  Goals = {g1}
  MaxHandles = 3
  MayBe <- MCMayBe
SPECIFICATION FairRosSpec
INVARIANTS
  ToldGoalsAreFound
  StackKeepsItsProxies
PROPERTIES
  TablesAreSound
  OwnAnswersCome
CHECK_DEADLOCK FALSE
