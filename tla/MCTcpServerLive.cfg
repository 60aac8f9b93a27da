SPECIFICATION FairSpec
CONSTANTS
  Conn = {c1, c2}
  Name = {n1}
  None = none
  Timeout = 1
  CloseTwice = FALSE
  DirectClose = FALSE
  PortReuse = FALSE
PROPERTIES
  GoneIsRemoved
  ServerCloseDrains
