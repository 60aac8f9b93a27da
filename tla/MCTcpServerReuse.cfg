SPECIFICATION Spec
CONSTANTS
  Conn = {c1, c2}
  Name = {n1}
  None = none
  Timeout = 2
  CloseTwice = FALSE
  DirectClose = FALSE
  PortReuse = TRUE
INVARIANT HandleOutlivesLibuv
