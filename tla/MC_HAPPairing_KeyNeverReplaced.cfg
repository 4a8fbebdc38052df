CONSTANTS
  a1 = a1
  a2 = a2
  c1 = c1
  c2 = c2
  k1 = k1
  k2 = k2
  NoPairing = NoPairing
  NoCtrl = NoCtrl
  Addr <- MCAddr
  Ctrl <- MCCtrl
  Keys <- MCKeys
  ControllerKey <- MCControllerKey
  PinHolders <- MCPinHolders
SYMMETRY MCSymmetry
SPECIFICATION Spec
PROPERTY KeyNeverReplaced
