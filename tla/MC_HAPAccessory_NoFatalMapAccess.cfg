CONSTANTS
  a1 = a1
  a2 = a2
  c1 = c1
  c2 = c2
  k1 = k1
  k2 = k2
  ch1 = ch1
  ch2 = ch2
  NoPairing = NoPairing
  NoCtrl = NoCtrl
  NoChar = NoChar
  NoValue = NoValue
  Addr <- MCAddr
  Ctrl <- MCCtrl
  Keys <- MCKeys
  ControllerKey <- MCControllerKey
  PinHolders <- MCPinHolders
  PairedCtrl <- MCPairedCtrl
  Chars <- MCChars
  Observable <- MCObservable
  Writable <- MCWritable
  Values <- MCValues
  InitValue <- MCInitValue
  PutElements <- MCPutElements
SYMMETRY MCSymmetry
SPECIFICATION Spec
INVARIANT NoFatalMapAccess
