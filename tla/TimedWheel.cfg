SPECIFICATION TimedSpec
CONSTANTS
  Value = {v1, v2}
  MaxTimeout = 4
  MayReconfigure = FALSE
  Object = {wheelTimer, userTimer}
  WheelTimer = wheelTimer
  MaxCloses = 2
INVARIANTS
  InBounds
  UseIsSafe
PROPERTIES
  ImplementsIdleTimeout
  NoTickAfterClose
  CloseAnswered
  IdleIsLetGo
