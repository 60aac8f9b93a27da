SPECIFICATION WriteSpec
CONSTANTS
  Thread = {t1}
  Main = main
  NoTask = noTask
  MaxPosts = 2
  MaxRuns = 1
  PostBeforeStart = TRUE
  MayStop = TRUE
CHECK_DEADLOCK FALSE
INVARIANTS
  AnsweredOnce
  SentInOrder
PROPERTIES
  WriteAnswered
  StopTerminates
