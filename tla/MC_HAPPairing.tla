--------------------------- MODULE MC_HAPPairing ---------------------------
(* Two addresses, a PIN holder c1 and a controller c2 without the PIN,    *)
(* each holding its own key.                                              *)
EXTENDS HAPPairing, TLC

CONSTANTS a1, a2, c1, c2, k1, k2

MCAddr == {a1, a2}
MCCtrl == {c1, c2}
MCKeys == {k1, k2}
MCControllerKey == [c \in MCCtrl |-> IF c = c1 THEN k1 ELSE k2]
MCPinHolders == {c1}

MCSymmetry == Permutations(MCAddr)
=============================================================================
