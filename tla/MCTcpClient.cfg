SPECIFICATION FairSpec
CONSTANTS
  Sock = {s1, s2}
  CloseCall = {k1, k2}
  None = none
  OnClose = onClose
  OnFail = onFail
  CloseEarly = TRUE
  ActsAtOnce = FALSE
INVARIANTS
  AnsweredOnce
  HandleOutlivesLibuv
  AttachedIsCurrent
PROPERTIES
  ImplementsLink
  ConnectAnswered
  LossTold
  CloseAnswered
