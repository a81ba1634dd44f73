SPECIFICATION MCSpec
CONSTANTS
  Ops <- MCOps
  Limits <- MCLimits
  RouterModels = {1, 2}
  Always <- MCAlways
  BudgetBytes = 3
  FloorBytes = 1
  HeadroomBytes = 1
  Memory = 5
  Demands = {0, 3, 5}
  FileSizes = {1, 2}
  Placements = {"w1", "w2"}
  MaxProfileFence = 6
  ProfileLimits <- MCProfileLimits
  Commands = {"c1", "c2"}
  LaunchLimits <- MCLaunchLimits
CHECK_DEADLOCK FALSE
INVARIANTS
    ActiveWhileRunning
    ReclaimedAfterReap
PROPERTIES
    StartReplacesStopped
    KeeperSettles
    
    
    RetentionEnds
