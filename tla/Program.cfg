SPECIFICATION ProgramSpec
CONSTANTS
  Conn = {c1, c2}
  Name = {n1}
  Agent = {a1, a2}
  None = none
  Timeout = 0
  CloseTwice = FALSE
  DirectClose = TRUE
  PortReuse = FALSE
  ClientHost = {h}
  ClientPort = {1, 2}
  ServerIp = {h}
  BadIp = bad
  Local = l
  PortText = {3}
  PortRange = 3
  FrontIp = l
  FrontPort = 0
  NoText = noText
  MaxSockets = 2
  MaxInFlight = 2
INVARIANTS
  CallbackOnLiveClient
  StaleEntryByAgent
  Routed
PROPERTIES
  BindAnswered
  EndsWithAgent
  Answered
