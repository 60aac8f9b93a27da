SPECIFICATION Spec
CONSTANTS
  ByteBase = 4
  HeadByte = 1
  EndByte = 2
  BigEndian = FALSE
  Payload <- Ambiguous
  Noise = {}
  MayCorrupt = TRUE
  MaxPackets = 2
INVARIANT WellFormed
