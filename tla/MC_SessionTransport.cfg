CONSTANTS
  PacketLengthMax = 2
  MinLength = 0
  MaxLength = 3
  MaxMsgs = 2
  MaxWire = 4
  Faults = TRUE
SPECIFICATION Spec
INVARIANT TypeOK
INVARIANT EncryptChunksMessage
PROPERTY ChunkStreamRefined
CHECK_DEADLOCK FALSE
