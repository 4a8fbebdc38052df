CONSTANTS
  PacketLengthMax = 2
  MinLength = 1
  MaxLength = 3
  MaxMsgs = 3
  MaxWire = 4
  Faults = FALSE
SPECIFICATION Spec
PROPERTY MessageDelivered
CHECK_DEADLOCK FALSE
