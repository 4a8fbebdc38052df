------------------------- MODULE MC_SessionTransport -------------------------
(* Frames of at most two bytes stand for the 1024-byte chunks: messages of *)
(* 0 to 3 bytes give a short single chunk, an exactly full chunk, and a   *)
(* full chunk followed by a short one.                                    *)
EXTENDS SessionTransport, TLC
=============================================================================
