SPECIFICATION FairSpec
CONSTANTS
  ByteBase = 4
  HeadByte = 1
  EndByte = 2
  BigEndian = TRUE
  Payload <- Longest
  Noise = {0, 2}
  MayCorrupt = FALSE
  MaxPackets = 3
INVARIANTS
  InOrder
  WellFormed
PROPERTY AllReceived
