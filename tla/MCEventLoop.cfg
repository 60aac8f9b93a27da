SPECIFICATION Spec
CONSTANTS
  Thread = {t1, t2}
  Main = main
  NoTask = noTask
  MaxPosts = 2
  MaxRuns = 2
  PostBeforeStart = FALSE
  MayStop = TRUE
CHECK_DEADLOCK FALSE
INVARIANTS
  LoopExclusive
  WakeupNotLost
  NoneLost
  SendsOnLiveHandle
PROPERTIES
  ImplementsExecutor
SYMMETRY ThreadSymmetry
