SPECIFICATION Spec
CONSTANTS
  Conn = {c1, c2}
  Name = {n1, n2}
  None = none
  Timeout = 2
  CloseTwice = FALSE
  DirectClose = TRUE
  PortReuse = FALSE
SYMMETRY ConnSymmetry
INVARIANTS
  HandleOutlivesLibuv
  AttachedIsOpen
  ReportedOnce
PROPERTY IdleClosedOnTime
