SPECIFICATION Spec
CONSTANTS
  Sock = {s1, s2}
  CloseCall = {k1}
  None = none
  OnClose = onClose
  OnFail = onFail
  CloseEarly = TRUE
  ActsAtOnce = TRUE
SYMMETRY SockSymmetry
INVARIANT HandleOutlivesLibuv
