\* Three identifiers: one goal in flight, one that runs and one whose cancel
\* is still on its way exist at once.  The caller need not do anything, so
\* there is no symmetry: the run also checks a liveness property.
CONSTANTS
  g1 = g1
  g2 = g2
  g3 = g3
  pose = pose
  None = None
  Goals <- MCGoals
  Places <- MCPlaces
SPECIFICATION FairNavSpec
INVARIANTS
  NoLostAnswer
  GoalsInPlayAreHeard
  SuccessIsTruthful
PROPERTY EventuallyAnswered
