CONSTANTS
  PacketLengthMax = 2
  MinLength = 0
  MaxLength = 3
  MaxMsgs = 3
  MaxWire = 4
  Faults = FALSE
SPECIFICATION Spec
PROPERTY FrameProgress
CHECK_DEADLOCK FALSE
