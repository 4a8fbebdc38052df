--------------------------- MODULE SessionTransport ---------------------------
(***************************************************************************)
(* One direction of an established Session (session.go): the writer's      *)
(* Session.Encrypt with its encryptCount, the wire, and the reader's       *)
(* Session.Decrypt with its decryptCount.                                  *)
(*   - Encrypt reads the message through packetsFromBytes in chunks of at  *)
(*     most PacketLengthMax bytes (a bytes.Buffer returns min(rest, max)), *)
(*     seals each chunk with nonce encryptCount and increments it; the     *)
(*     caller then writes the whole buffer to the connection (one writer   *)
(*     at a time, spec section 5).                                         *)
(*   - Decrypt reads frames one by one, opens each with nonce              *)
(*     decryptCount (incremented before the tag is checked), and returns   *)
(*     after a chunk shorter than PacketLengthMax, or at EOF.              *)
(* A frame is abstracted to its plaintext length, the nonce it was sealed  *)
(* with and whether it is intact: AEAD opens a frame exactly when it is    *)
(* intact and the nonce is the reader's, and an intact frame sealed under  *)
(* nonce k is the k-th chunk the writer sealed.  With Faults, the network  *)
(* (an attacker) may alter, drop, duplicate or swap frames on the wire.    *)
(***************************************************************************)
EXTENDS Naturals, Sequences

CONSTANTS
  PacketLengthMax,  \* the 0x400 of session.go, scaled down
  MinLength,        \* the shortest message written
  MaxLength,        \* the longest message written
  MaxMsgs,          \* the number of messages written in a behaviour
  MaxWire,          \* the most frames the wire holds (bounds duplication)
  Faults            \* whether the network may tamper with frames

ASSUME TransportAssumption ==
  /\ PacketLengthMax \in Nat \ {0}
  /\ MinLength \in Nat
  /\ MaxLength \in Nat
  /\ MaxMsgs \in Nat
  /\ MaxWire \in Nat
  /\ Faults \in BOOLEAN

\* A frame [ length | ciphertext | tag ] as the reader sees it.
Frame == [len : 0..PacketLengthMax, nonce : Nat, ok : BOOLEAN]

VARIABLES
  wpc,           \* the writer: "idle", "loop" (in Encrypt), "flush"
  wrem,          \* bytes of the message Encrypt has not read yet
  wlen,          \* the length of the message being encrypted
  out,           \* the buffer Encrypt has filled so far
  encryptCount,  \* Session.encryptCount
  wire,          \* frames written and not yet read
  closed,        \* the writer has closed the connection
  rpc,           \* the reader: "reading", "failed" (error), "eof"
  decryptCount,  \* Session.decryptCount
  recv,          \* the plaintext chunks Decrypt has written to its buffers
  ends,          \* Len(recv) each time a Decrypt call returned
  sent,          \* history: the lengths of the messages written
  sentChunks     \* history: the chunks sealed, in nonce order

tvars == <<wpc, wrem, wlen, out, encryptCount, wire, closed,
           rpc, decryptCount, recv, ends, sent, sentChunks>>

\* NewSession: both counters start at zero.
Init ==
  /\ wpc = "idle"
  /\ wrem = 0
  /\ wlen = 0
  /\ out = <<>>
  /\ encryptCount = 0
  /\ wire = <<>>
  /\ closed = FALSE
  /\ rpc = "reading"
  /\ decryptCount = 0
  /\ recv = <<>>
  /\ ends = <<>>
  /\ sent = <<>>
  /\ sentChunks = <<>>

-----------------------------------------------------------------------------
(* The writer.                                                             *)

\* Mutant: the packet takes the length of the read buffer, not n.
PacketLengthFull(rem) == PacketLengthMax

\* r.Read(value) with len(value) = PacketLengthMax on a bytes.Buffer
\* holding rem bytes returns n = min(rem, PacketLengthMax).
PacketLength(rem) ==
  IF rem < PacketLengthMax THEN rem ELSE PacketLengthMax

\* The loop of packetsWithSizeFromBytes ends after a short read (n < length;
\* a bytes.Buffer never returns io.EOF together with bytes).
LastPacket(n) == n < PacketLengthMax

\* The caller hands a message of n bytes to Encrypt.
Send(n) ==
  /\ wpc = "idle"
  /\ ~closed
  /\ Len(sent) < MaxMsgs
  /\ wpc' = "loop"
  /\ wrem' = n
  /\ wlen' = n
  /\ sent' = Append(sent, n)
  /\ UNCHANGED <<out, encryptCount, wire, closed, rpc, decryptCount, recv,
                 ends, sentChunks>>

\* Mutant: the loop of packetsWithSizeFromBytes stops after one packet.
EncryptPacketOneShot ==
  /\ wpc = "loop"
  /\ wrem > 0
  /\ LET n == PacketLength(wrem) IN
       /\ out' = Append(out, [len |-> n, nonce |-> encryptCount, ok |-> TRUE])
       /\ encryptCount' = encryptCount + 1
       /\ sentChunks' = Append(sentChunks, n)
       /\ wrem' = wrem - n
       /\ wpc' = "flush"
  /\ UNCHANGED <<wlen, wire, closed, rpc, decryptCount, recv, ends, sent>>

\* Mutant: encryptCount is incremented before it is put into the nonce.
EncryptPacketLateNonce ==
  /\ wpc = "loop"
  /\ wrem > 0
  /\ LET n == PacketLength(wrem) IN
       /\ out' = Append(out, [len |-> n, nonce |-> encryptCount + 1, ok |-> TRUE])
       /\ encryptCount' = encryptCount + 1
       /\ sentChunks' = Append(sentChunks, n)
       /\ wrem' = wrem - n
       /\ wpc' = IF n < PacketLengthMax THEN "flush" ELSE "loop"
  /\ UNCHANGED <<wlen, wire, closed, rpc, decryptCount, recv, ends, sent>>

\* One turn of the loops of packetsWithSizeFromBytes and Encrypt: read n
\* bytes, seal them under nonce encryptCount, increment it; the loop ends
\* after a short read (n < length).
EncryptPacket ==
  /\ wpc = "loop"
  /\ wrem > 0
  /\ LET n == PacketLength(wrem) IN
       /\ out' = Append(out, [len |-> n, nonce |-> encryptCount, ok |-> TRUE])
       /\ encryptCount' = encryptCount + 1
       /\ sentChunks' = Append(sentChunks, n)
       /\ wrem' = wrem - n
       /\ wpc' = IF LastPacket(n) THEN "flush" ELSE "loop"
  /\ UNCHANGED <<wlen, wire, closed, rpc, decryptCount, recv, ends, sent>>

\* The read that returns n == 0 ends the loop with no packet.
EncryptEnd ==
  /\ wpc = "loop"
  /\ wrem = 0
  /\ wpc' = "flush"
  /\ UNCHANGED <<wrem, wlen, out, encryptCount, wire, closed, rpc,
                 decryptCount, recv, ends, sent, sentChunks>>

\* The caller writes the encrypted buffer to the connection.
Flush ==
  /\ wpc = "flush"
  /\ wire' = wire \o out
  /\ out' = <<>>
  /\ wpc' = "idle"
  /\ UNCHANGED <<wrem, wlen, encryptCount, closed, rpc, decryptCount, recv,
                 ends, sent, sentChunks>>

\* The writer closes the connection between two messages.
Close ==
  /\ wpc = "idle"
  /\ ~closed
  /\ closed' = TRUE
  /\ UNCHANGED <<wpc, wrem, wlen, out, encryptCount, wire, rpc, decryptCount,
                 recv, ends, sent, sentChunks>>

-----------------------------------------------------------------------------
(* The reader.                                                             *)

\* Mutant: decryptCount is not advanced, every frame is opened with nonce 0.
DecryptFrameNoCount ==
  /\ rpc = "reading"
  /\ wire # <<>>
  /\ LET f == Head(wire) IN
       /\ wire' = Tail(wire)
       /\ IF f.ok /\ f.nonce = decryptCount
            THEN /\ recv' = Append(recv, f.len)
                 /\ ends' = IF f.len < PacketLengthMax
                              THEN Append(ends, Len(recv) + 1) ELSE ends
                 /\ UNCHANGED rpc
            ELSE /\ rpc' = "failed"
                 /\ UNCHANGED <<recv, ends>>
  /\ UNCHANGED <<wpc, wrem, wlen, out, encryptCount, closed, sent, sentChunks,
                 decryptCount>>

\* One turn of the loop of Decrypt: read length, ciphertext and tag, take
\* nonce decryptCount and increment it, open the frame.  A frame that
\* does not open ends the Session with an error; otherwise the plaintext
\* goes to the buffer, and a chunk shorter than PacketLengthMax ends the
\* call.
DecryptFrame ==
  /\ rpc = "reading"
  /\ wire # <<>>
  /\ LET f == Head(wire) IN
       /\ wire' = Tail(wire)
       /\ decryptCount' = decryptCount + 1
       /\ IF f.ok /\ f.nonce = decryptCount
            THEN /\ recv' = Append(recv, f.len)
                 /\ ends' = IF f.len < PacketLengthMax
                              THEN Append(ends, Len(recv) + 1) ELSE ends
                 /\ UNCHANGED rpc
            ELSE /\ rpc' = "failed"
                 /\ UNCHANGED <<recv, ends>>
  /\ UNCHANGED <<wpc, wrem, wlen, out, encryptCount, closed, sent, sentChunks>>

\* binary.Read of the length meets io.EOF: Decrypt breaks out of its loop
\* and returns what its buffer holds, without an error.
DecryptEOF ==
  /\ rpc = "reading"
  /\ wire = <<>>
  /\ closed
  /\ rpc' = "eof"
  /\ ends' = Append(ends, Len(recv))
  /\ UNCHANGED <<wpc, wrem, wlen, out, encryptCount, wire, closed,
                 decryptCount, recv, sent, sentChunks>>

-----------------------------------------------------------------------------
(* The network between them.                                               *)

WireOnly(w) ==
  /\ Faults
  /\ wire' = w
  /\ UNCHANGED <<wpc, wrem, wlen, out, encryptCount, closed, rpc,
                 decryptCount, recv, ends, sent, sentChunks>>

\* A frame is altered in flight (a flipped bit in length, data or tag).
Tamper(i) == WireOnly([wire EXCEPT ![i].ok = FALSE])

\* A frame is lost.
Drop(i) == WireOnly(SubSeq(wire, 1, i - 1) \o SubSeq(wire, i + 1, Len(wire)))

\* A frame is replayed right after itself.
Duplicate(i) ==
  /\ Len(wire) < MaxWire
  /\ WireOnly(SubSeq(wire, 1, i) \o SubSeq(wire, i, Len(wire)))

\* Two neighbouring frames arrive in the other order.
Swap(i) ==
  /\ i < Len(wire)
  /\ WireOnly([wire EXCEPT ![i] = wire[i + 1], ![i + 1] = wire[i]])

NetworkNext ==
  \E i \in 1..Len(wire) : Tamper(i) \/ Drop(i) \/ Duplicate(i) \/ Swap(i)

Next ==
  \/ \E n \in MinLength..MaxLength : Send(n)
  \/ EncryptPacket \/ EncryptEnd \/ Flush \/ Close
  \/ DecryptFrame \/ DecryptEOF
  \/ NetworkNext

\* The writer's goroutine and the reader's goroutine run whenever they
\* can; the network and the controller's choice to send or close do not.
Fairness ==
  /\ WF_tvars(EncryptPacket) /\ WF_tvars(EncryptEnd) /\ WF_tvars(Flush)
  /\ WF_tvars(DecryptFrame)

Spec == Init /\ [][Next]_tvars /\ Fairness

-----------------------------------------------------------------------------
(* Properties.                                                             *)

TypeOK ==
  /\ wpc \in {"idle", "loop", "flush"}
  /\ wrem \in 0..MaxLength
  /\ wlen \in 0..MaxLength
  /\ out \in Seq(Frame)
  /\ encryptCount \in Nat
  /\ wire \in Seq(Frame)
  /\ closed \in BOOLEAN
  /\ rpc \in {"reading", "failed", "eof"}
  /\ decryptCount \in Nat
  /\ recv \in Seq(0..PacketLengthMax)
  /\ ends \in Seq(Nat)
  /\ sent \in Seq(0..MaxLength)
  /\ sentChunks \in Seq(0..PacketLengthMax)

\* The HAP chunking of an n-byte message: ceiling(n / max) chunks, all
\* full but the last.
NumChunks(n) == (n + PacketLengthMax - 1) \div PacketLengthMax
HAPChunks(n) ==
  [i \in 1..NumChunks(n) |->
     IF i < NumChunks(n) THEN PacketLengthMax
     ELSE n - (NumChunks(n) - 1) * PacketLengthMax]

\* The chunk lengths of a frame buffer.
Lengths(fs) == [i \in 1..Len(fs) |-> fs[i].len]

\* packetsFromBytes and the Encrypt loop cut every message into the HAP
\* chunks of its length, for every length up to MaxLength: the buffer
\* handed to the connection holds exactly those chunks, in order.
EncryptChunksMessage ==
  wpc = "flush" => Lengths(out) = HAPChunks(wlen)

\* Session.Encrypt and Session.Decrypt implement the authenticated chunk
\* stream: whatever the network does to the frames (alter, drop, replay,
\* reorder), Decrypt accepts exactly the chunks Encrypt sealed, in order,
\* or gives up.  The mapping reads the reader's buffers and its error.
Abs == INSTANCE ChunkStream
         WITH sentC <- sentChunks, recvC <- recv, aborted <- (rpc = "failed")
ChunkStreamRefined == Abs!Spec

\* The integrity of the session's stream: the chunks Decrypt has accepted
\* are always a prefix of the chunks Encrypt sealed, whatever the network
\* did to the frames (ChunkStream's Delivered, under the mapping).
ChunksDelivered == Abs!Delivered

\* Bound on the chunks of a behaviour.
MaxChunks == MaxMsgs * (MaxLength \div PacketLengthMax + 1)

\* On a faithful network, with the writer's and the reader's goroutines
\* running, every chunk Encrypt seals is eventually opened by Decrypt:
\* the nonce sequences of the two counters stay in step.
FrameProgress ==
  \A k \in 1..MaxChunks : (Len(sentChunks) >= k) ~> (Len(recv) >= k)

\* Spec 4.3: a message written is eventually returned by one Decrypt call
\* (its terminal chunk is shorter than PacketLengthMax).
MessageDelivered ==
  \A k \in 1..MaxMsgs : (Len(sent) >= k) ~> (Len(ends) >= k)

=============================================================================
