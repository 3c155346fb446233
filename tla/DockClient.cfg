SPECIFICATION DockSpec
CONSTANTS
  Goals = {g1, g2}
  DockGoals = {g1}
  NoGoal = NoGoal
INVARIANTS
  DockTypeOK
  NoStaleHandle
  ActiveMeansOutstanding
  EstopCancelsHeld
  SucceededHonest
PROPERTIES
  GoalsOnlyWhenClear
  ActionSettles
