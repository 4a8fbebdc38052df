----------------------------- MODULE ChunkStream -----------------------------
(***************************************************************************)
(* What the encrypted session transport promises (spec section 4.3 and 8): *)
(* one direction of a Session is a stream of plaintext chunks of at most   *)
(* PacketLengthMax bytes.  The reader accepts exactly the chunks the       *)
(* writer produced, in the order produced, none twice and none skipped;    *)
(* anything else (a chunk lost, duplicated, reordered or altered on the    *)
(* wire) ends the stream instead.  A chunk is abstracted to its length.    *)
(***************************************************************************)
EXTENDS Naturals, Sequences

CONSTANT PacketLengthMax

VARIABLES
  sentC,    \* the chunks the writer has produced, in order
  recvC,    \* the chunks the reader has accepted, in order
  aborted   \* the reader has given the stream up

absVars == <<sentC, recvC, aborted>>

Init ==
  /\ sentC = <<>>
  /\ recvC = <<>>
  /\ aborted = FALSE

\* The writer produces one more chunk.
Write(x) ==
  /\ sentC' = Append(sentC, x)
  /\ UNCHANGED <<recvC, aborted>>

\* The reader accepts the next chunk the writer produced.
Accept ==
  /\ ~aborted
  /\ Len(recvC) < Len(sentC)
  /\ recvC' = Append(recvC, sentC[Len(recvC) + 1])
  /\ UNCHANGED <<sentC, aborted>>

\* The reader rejects what arrived and gives the stream up.
Abort ==
  /\ ~aborted
  /\ aborted' = TRUE
  /\ UNCHANGED <<sentC, recvC>>

Next == (\E x \in 0..PacketLengthMax : Write(x)) \/ Accept \/ Abort

Spec == Init /\ [][Next]_absVars

\* The chunks are sequences of lengths.
TypeOK == sentC \in Seq(Nat) /\ recvC \in Seq(Nat) /\ aborted \in BOOLEAN

\* The integrity of the stream: what the reader has accepted is always a
\* prefix of what the writer produced, never a chunk out of order, twice,
\* or one the writer never produced.
Delivered ==
  /\ Len(recvC) <= Len(sentC)
  /\ \A i \in 1..Len(recvC) : recvC[i] = sentC[i]

=============================================================================
