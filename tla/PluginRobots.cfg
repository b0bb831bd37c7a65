CONSTANTS
  ep = ep
  s1 = s1
  bare = bare
  None = None
  Models = {ep, s1, bare}
  Has <- MCHas
  MaxRobots = 2
SPECIFICATION FairRobotsSpec
INVARIANTS
  OrdersReachTheirModel
  ServedRobotsExist
PROPERTIES
  TeardownEnds
