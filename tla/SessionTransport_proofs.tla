----------------------- MODULE SessionTransport_proofs -----------------------
(***************************************************************************)
(* Proofs about the session transport SessionTransport, for every chunk    *)
(* size, message bound and wire bound, with and without network faults:   *)
(* the type invariant, and that Encrypt/Decrypt refine the authenticated  *)
(* chunk stream ChunkStream.                                               *)
(***************************************************************************)
EXTENDS SessionTransport, SequenceTheorems, TLAPS

\* The frames the reader would open as the chunk with their nonce: a frame
\* that is intact was sealed by Encrypt with nonce k over the (k+1)-th
\* chunk of sc.  A frame the network altered opens as nothing.
GoodFramesOf(sc) ==
  {f \in Frame : f.ok => f.nonce < Len(sc) /\ f.len = sc[f.nonce + 1]}

\* The inductive invariant behind the refinement: the writer's counter
\* counts the chunks sealed, the reader's counter (while it reads) counts
\* the chunks opened, and every frame in the writer's buffer or on the wire
\* is a good frame.  The network only moves, copies, drops or spoils frames,
\* so it keeps them good.
IInv ==
  /\ TypeOK
  /\ encryptCount = Len(sentChunks)
  /\ rpc = "reading" => decryptCount = Len(recv)
  /\ wire \in Seq(GoodFramesOf(sentChunks))
  /\ out \in Seq(GoodFramesOf(sentChunks))

-----------------------------------------------------------------------------
(* What the network's rearrangements of a sequence keep.                   *)

\* Dropping one element keeps a sequence over S.
LEMMA DropInSeq ==
  ASSUME NEW S, NEW s \in Seq(S), NEW i \in 1..Len(s)
  PROVE  SubSeq(s, 1, i - 1) \o SubSeq(s, i + 1, Len(s)) \in Seq(S)
  <1>1. SubSeq(s, 1, i - 1) \in Seq(S)
    BY SubSeqProperties, ElementOfSeq
  <1>2. SubSeq(s, i + 1, Len(s)) \in Seq(S)
    BY SubSeqProperties, ElementOfSeq
  <1> QED BY <1>1, <1>2, ConcatProperties

\* Repeating one element keeps a sequence over S.
LEMMA DuplicateInSeq ==
  ASSUME NEW S, NEW s \in Seq(S), NEW i \in 1..Len(s)
  PROVE  SubSeq(s, 1, i) \o SubSeq(s, i, Len(s)) \in Seq(S)
  <1>1. SubSeq(s, 1, i) \in Seq(S)
    BY SubSeqProperties, ElementOfSeq
  <1>2. SubSeq(s, i, Len(s)) \in Seq(S)
    BY SubSeqProperties, ElementOfSeq
  <1> QED BY <1>1, <1>2, ConcatProperties

\* Exchanging two neighbours keeps a sequence over S.
LEMMA SwapInSeq ==
  ASSUME NEW S, NEW s \in Seq(S), NEW i \in 1..Len(s), i < Len(s)
  PROVE  [s EXCEPT ![i] = s[i + 1], ![i + 1] = s[i]] \in Seq(S)
  <1>1. [s EXCEPT ![i] = s[i + 1]] \in Seq(S)
        /\ Len([s EXCEPT ![i] = s[i + 1]]) = Len(s)
    BY ExceptSeq, ElementOfSeq
  <1> QED BY <1>1, ExceptSeq, ElementOfSeq

\* A good frame stays good when the writer seals one more chunk, and the
\* frame it seals for that chunk is good.
LEMMA GoodFramesGrow ==
  ASSUME NEW sc \in Seq(0..PacketLengthMax), NEW x \in 0..PacketLengthMax
  PROVE  /\ GoodFramesOf(sc) \subseteq GoodFramesOf(Append(sc, x))
         /\ [len |-> x, nonce |-> Len(sc), ok |-> TRUE]
              \in GoodFramesOf(Append(sc, x))
  BY AppendProperties DEF GoodFramesOf, Frame

\* Good frames are frames.
LEMMA GoodFramesAreFrames ==
  ASSUME NEW sc
  PROVE  GoodFramesOf(sc) \subseteq Frame
  BY DEF GoodFramesOf

\* A frame with its tag spoiled is a frame that does not open.
LEMMA SpoiledFrame ==
  ASSUME NEW r \in Frame
  PROVE  /\ [r EXCEPT !.ok = FALSE] \in Frame
         /\ ~[r EXCEPT !.ok = FALSE].ok
  BY Zenon DEF Frame

-----------------------------------------------------------------------------
(* The inductive invariant.                                                *)

LEMMA InitIInv == Init => IInv
  <1> SUFFICES ASSUME Init PROVE IInv
    OBVIOUS
  <1>1. /\ <<>> \in Seq(Frame) /\ <<>> \in Seq(GoodFramesOf(<<>>))
        /\ <<>> \in Seq(0..PacketLengthMax) /\ <<>> \in Seq(0..MaxLength)
        /\ <<>> \in Seq(Nat) /\ Len(<<>>) = 0
    BY EmptySeq
  <1>2. TypeOK
    <2>1. wrem \in 0..MaxLength /\ wlen \in 0..MaxLength
      BY TransportAssumption DEF Init
    <2>2. /\ out \in Seq(Frame) /\ wire \in Seq(Frame)
          /\ recv \in Seq(0..PacketLengthMax) /\ ends \in Seq(Nat)
          /\ sent \in Seq(0..MaxLength) /\ sentChunks \in Seq(0..PacketLengthMax)
      BY <1>1 DEF Init
    <2> QED BY <2>1, <2>2 DEF Init, TypeOK
  <1>3. wire \in Seq(GoodFramesOf(sentChunks)) /\ out \in Seq(GoodFramesOf(sentChunks))
    BY <1>1 DEF Init
  <1> QED BY <1>1, <1>2, <1>3 DEF Init, IInv

\* The parts of IInv that speak of the reader and the wire hold after any
\* step that leaves the wire, the writer's counter and the chunks alone.
LEMMA NextIInv == IInv /\ [Next]_tvars => IInv'
  <1> SUFFICES ASSUME IInv, [Next]_tvars PROVE IInv'
    OBVIOUS
  <1> USE TransportAssumption
  <1>1. CASE \E n \in MinLength..MaxLength : Send(n)
    <2>1. PICK n \in MinLength..MaxLength : Send(n)
      BY <1>1
    <2>2. n \in 0..MaxLength
      OBVIOUS
    <2>3. sent' \in Seq(0..MaxLength)
      BY <2>1, <2>2, AppendProperties DEF Send, IInv, TypeOK
    <2> QED BY <2>1, <2>2, <2>3 DEF Send, IInv, TypeOK
  <1>2. CASE EncryptPacket
    <2> DEFINE n == PacketLength(wrem)
               f == [len |-> n, nonce |-> encryptCount, ok |-> TRUE]
    <2>1. n \in 0..PacketLengthMax /\ wrem - n \in 0..MaxLength
      BY <1>2 DEF EncryptPacket, PacketLength, IInv, TypeOK
    <2>2. /\ out' = Append(out, f)
          /\ encryptCount' = encryptCount + 1
          /\ sentChunks' = Append(sentChunks, n)
          /\ wrem' = wrem - n
          /\ wpc' \in {"flush", "loop"}
          /\ UNCHANGED <<wlen, wire, closed, rpc, decryptCount, recv, ends, sent>>
      BY <1>2 DEF EncryptPacket
    <2>3. /\ GoodFramesOf(sentChunks) \subseteq GoodFramesOf(sentChunks')
          /\ f \in GoodFramesOf(sentChunks')
      BY <2>1, <2>2, GoodFramesGrow DEF IInv, TypeOK
    <2>4. wire' \in Seq(GoodFramesOf(sentChunks'))
      BY <2>2, <2>3, SeqMonotonic DEF IInv
    <2>5. out' \in Seq(GoodFramesOf(sentChunks'))
      BY <2>2, <2>3, SeqMonotonic, AppendProperties DEF IInv
    <2>6. sentChunks' \in Seq(0..PacketLengthMax)
          /\ Len(sentChunks') = Len(sentChunks) + 1
      BY <2>1, <2>2, AppendProperties DEF IInv, TypeOK
    <2>7. out' \in Seq(Frame)
      BY <2>5, GoodFramesAreFrames, SeqMonotonic
    <2> QED BY <2>1, <2>2, <2>4, <2>5, <2>6, <2>7 DEF IInv, TypeOK
  <1>3. CASE EncryptEnd
    BY <1>3 DEF EncryptEnd, IInv, TypeOK
  <1>4. CASE Flush
    <2>1. wire' \in Seq(GoodFramesOf(sentChunks))
      BY <1>4, ConcatProperties DEF Flush, IInv
    <2>2. wire' \in Seq(Frame)
      BY <2>1, GoodFramesAreFrames, SeqMonotonic
    <2> QED BY <1>4, <2>1, <2>2, EmptySeq DEF Flush, IInv, TypeOK
  <1>5. CASE Close
    BY <1>5 DEF Close, IInv, TypeOK
  <1>6. CASE DecryptFrame
    <2> DEFINE f == Head(wire)
    <2>1. wire # <<>> /\ rpc = "reading"
      BY <1>6 DEF DecryptFrame
    <2>2. /\ f \in GoodFramesOf(sentChunks)
          /\ Tail(wire) \in Seq(GoodFramesOf(sentChunks))
      BY <2>1, HeadTailProperties DEF IInv
    <2>3. f \in Frame
      BY <2>2, GoodFramesAreFrames
    <2>4. wire' \in Seq(Frame)
      BY <1>6, <2>2, GoodFramesAreFrames, SeqMonotonic DEF DecryptFrame
    <2>5. CASE f.ok /\ f.nonce = decryptCount
      <3>1. recv' = Append(recv, f.len) /\ rpc' = rpc
            /\ decryptCount' = decryptCount + 1
        BY <1>6, <2>5 DEF DecryptFrame
      <3>2. ends' \in Seq(Nat)
        <4>1. Len(recv) + 1 \in Nat
          BY LenProperties DEF IInv, TypeOK
        <4>2. Append(ends, Len(recv) + 1) \in Seq(Nat)
          BY <4>1, AppendProperties DEF IInv, TypeOK
        <4>3. ends' \in {ends, Append(ends, Len(recv) + 1)}
          BY <1>6, <2>5 DEF DecryptFrame
        <4> QED BY <4>2, <4>3 DEF IInv, TypeOK
      <3>3. recv' \in Seq(0..PacketLengthMax) /\ Len(recv') = Len(recv) + 1
        BY <2>3, <3>1, AppendProperties DEF IInv, TypeOK, Frame
      <3> QED BY <1>6, <2>1, <2>2, <2>4, <3>1, <3>2, <3>3 DEF DecryptFrame, IInv, TypeOK
    <2>6. CASE ~(f.ok /\ f.nonce = decryptCount)
      BY <1>6, <2>2, <2>4, <2>6 DEF DecryptFrame, IInv, TypeOK
    <2> QED BY <2>5, <2>6
  <1>7. CASE DecryptEOF
    <2>1. ends' \in Seq(Nat)
      BY <1>7, AppendProperties, LenProperties DEF DecryptEOF, IInv, TypeOK
    <2> QED BY <1>7, <2>1 DEF DecryptEOF, IInv, TypeOK
  <1>8. CASE NetworkNext
    <2> DEFINE G == GoodFramesOf(sentChunks)
    <2>1. PICK i \in 1..Len(wire) : Tamper(i) \/ Drop(i) \/ Duplicate(i) \/ Swap(i)
      BY <1>8 DEF NetworkNext
    <2>2. wire' \in Seq(G)
      <3>1. wire \in Seq(G)
        BY DEF IInv
      <3>2. CASE Tamper(i)
        <4>1. [wire[i] EXCEPT !.ok = FALSE] \in G
          BY <3>1, ElementOfSeq, SpoiledFrame, GoodFramesAreFrames
            DEF GoodFramesOf
        <4> QED BY <3>1, <3>2, <4>1, ExceptSeq DEF Tamper, WireOnly
      <3>3. CASE Drop(i)
        BY <3>1, <3>3, DropInSeq DEF Drop, WireOnly
      <3>4. CASE Duplicate(i)
        BY <3>1, <3>4, DuplicateInSeq DEF Duplicate, WireOnly
      <3>5. CASE Swap(i)
        BY <3>1, <3>5, SwapInSeq DEF Swap, WireOnly
      <3> QED BY <2>1, <3>2, <3>3, <3>4, <3>5
    <2>3. UNCHANGED <<wpc, wrem, wlen, out, encryptCount, closed, rpc,
                      decryptCount, recv, ends, sent, sentChunks>>
      BY <2>1 DEF Tamper, Drop, Duplicate, Swap, WireOnly
    <2>4. wire' \in Seq(Frame)
      BY <2>2, GoodFramesAreFrames, SeqMonotonic
    <2> QED BY <2>2, <2>3, <2>4 DEF IInv, TypeOK
  <1>9. CASE UNCHANGED tvars
    BY <1>9 DEF tvars, IInv, TypeOK, GoodFramesOf
  <1> QED BY <1>1, <1>2, <1>3, <1>4, <1>5, <1>6, <1>7, <1>8, <1>9 DEF Next

\* Session.Encrypt and Session.Decrypt keep every variable of the transport
\* in its type, whatever the network does to the frames.
THEOREM TypeCorrect == Spec => []TypeOK
  <1>1. IInv => TypeOK
    BY DEF IInv
  <1> QED BY InitIInv, NextIInv, <1>1, PTL DEF Spec

-----------------------------------------------------------------------------
(* Refinement of the authenticated chunk stream.                           *)

LEMMA InitRefines == Init => Abs!Init
  BY DEF Init, Abs!Init

\* Every step of the transport is a step of ChunkStream under the mapping:
\* sealing a chunk is Write, opening the frame whose nonce is the reader's
\* counter is Accept (the good-frame invariant says it carries the next
\* chunk), a frame that does not open is Abort, and all else stutters.
LEMMA NextRefines == IInv /\ [Next]_tvars => [Abs!Next]_Abs!absVars
  <1> SUFFICES ASSUME IInv, [Next]_tvars PROVE [Abs!Next]_Abs!absVars
    OBVIOUS
  <1> USE TransportAssumption
  <1>0. ASSUME UNCHANGED <<sentChunks, recv, rpc>>
        PROVE  [Abs!Next]_Abs!absVars
    BY <1>0 DEF Abs!absVars
  <1>1. CASE \E n \in MinLength..MaxLength : Send(n)
    BY <1>0, <1>1 DEF Send
  <1>2. CASE EncryptPacket
    <2> DEFINE n == PacketLength(wrem)
    <2>1. n \in 0..PacketLengthMax
      BY <1>2 DEF EncryptPacket, PacketLength, IInv, TypeOK
    <2>2. Abs!Write(n)
      BY <1>2 DEF EncryptPacket, Abs!Write
    <2> QED BY <2>1, <2>2 DEF Abs!Next
  <1>3. CASE EncryptEnd
    BY <1>0, <1>3 DEF EncryptEnd
  <1>4. CASE Flush
    BY <1>0, <1>4 DEF Flush
  <1>5. CASE Close
    BY <1>0, <1>5 DEF Close
  <1>6. CASE DecryptFrame
    <2> DEFINE f == Head(wire)
    <2>1. wire # <<>> /\ rpc = "reading"
      BY <1>6 DEF DecryptFrame
    <2>2. f \in GoodFramesOf(sentChunks)
      BY <2>1, HeadTailProperties DEF IInv
    <2>3. CASE f.ok /\ f.nonce = decryptCount
      <3>1. decryptCount = Len(recv)
        BY <2>1 DEF IInv
      <3>2. Len(recv) < Len(sentChunks) /\ f.len = sentChunks[Len(recv) + 1]
        BY <2>2, <2>3, <3>1 DEF GoodFramesOf
      <3>3. recv' = Append(recv, sentChunks[Len(recv) + 1])
            /\ UNCHANGED <<sentChunks, rpc>>
        BY <1>6, <2>3, <3>2 DEF DecryptFrame
      <3>4. Abs!Accept
        BY <2>1, <3>2, <3>3 DEF Abs!Accept
      <3> QED BY <3>4 DEF Abs!Next
    <2>4. CASE ~(f.ok /\ f.nonce = decryptCount)
      <3>1. rpc' = "failed" /\ UNCHANGED <<sentChunks, recv>>
        BY <1>6, <2>4 DEF DecryptFrame
      <3>2. Abs!Abort
        BY <2>1, <3>1 DEF Abs!Abort
      <3> QED BY <3>2 DEF Abs!Next
    <2> QED BY <2>3, <2>4
  <1>7. CASE DecryptEOF
    <2>1. rpc = "reading" /\ rpc' = "eof" /\ UNCHANGED <<sentChunks, recv>>
      BY <1>7 DEF DecryptEOF
    <2> QED BY <2>1 DEF Abs!absVars
  <1>8. CASE NetworkNext
    <2>1. PICK i \in 1..Len(wire) : Tamper(i) \/ Drop(i) \/ Duplicate(i) \/ Swap(i)
      BY <1>8 DEF NetworkNext
    <2> QED BY <1>0, <2>1 DEF Tamper, Drop, Duplicate, Swap, WireOnly
  <1>9. CASE UNCHANGED tvars
    BY <1>0, <1>9 DEF tvars
  <1> QED BY <1>1, <1>2, <1>3, <1>4, <1>5, <1>6, <1>7, <1>8, <1>9 DEF Next

\* Session.Encrypt and Session.Decrypt implement the authenticated chunk
\* stream for every chunk size and bound, whatever the network does:
\* Decrypt accepts exactly the chunks Encrypt sealed, in order, or fails.
THEOREM Refinement == Spec => ChunkStreamRefined
  <1>1. Init => IInv /\ Abs!Init
    BY InitIInv, InitRefines
  <1>2. IInv /\ [Next]_tvars => IInv' /\ [Abs!Next]_Abs!absVars
    BY NextIInv, NextRefines
  <1> QED BY <1>1, <1>2, PTL DEF Spec, ChunkStreamRefined, Abs!Spec

-----------------------------------------------------------------------------
(* The chunking of packetsWithSizeFromBytes and the Encrypt loop.         *)

\* k full chunks.
FullChunks(k) == [i \in 1..k |-> PacketLengthMax]

\* While Encrypt is in its loop, the buffer holds only full chunks, and the
\* message is those chunks followed by the bytes not read yet; between
\* messages the buffer is empty.
ChunkInv ==
  /\ wpc = "idle" => out = <<>>
  /\ wpc = "loop" =>
       /\ Lengths(out) = FullChunks(Len(out))
       /\ wlen = wrem + Len(out) * PacketLengthMax
  /\ wpc = "flush" => Lengths(out) = HAPChunks(wlen)

\* The chunk lengths of a buffer grow with the buffer.
LEMMA LengthsAppend ==
  ASSUME NEW fs \in Seq(Frame), NEW f \in Frame
  PROVE  Lengths(Append(fs, f)) = Append(Lengths(fs), f.len)
BY DEF Lengths

LEMMA LengthsEmpty == Lengths(<<>>) = <<>>
BY DEF Lengths

\* One more full chunk.
LEMMA FullChunksAppend ==
  ASSUME NEW k \in Nat
  PROVE  Append(FullChunks(k), PacketLengthMax) = FullChunks(k + 1)
BY DEF FullChunks

\* Integer division by the chunk size undoes q full chunks and a remainder.
LEMMA DivChunks ==
  ASSUME NEW q \in Nat, NEW r \in 0..(PacketLengthMax - 1)
  PROVE  (q * PacketLengthMax + r) \div PacketLengthMax = q
BY TransportAssumption

\* A message of k full chunks is cut into k full chunks ...
LEMMA HAPChunksFull ==
  ASSUME NEW k \in Nat
  PROVE  HAPChunks(k * PacketLengthMax) = FullChunks(k)
<1>1. NumChunks(k * PacketLengthMax) = k
  <2>1. k * PacketLengthMax + PacketLengthMax - 1
          = k * PacketLengthMax + (PacketLengthMax - 1)
    BY TransportAssumption
  <2> QED
    BY <2>1, DivChunks, TransportAssumption DEF NumChunks
<1> QED
  BY <1>1, TransportAssumption DEF HAPChunks, FullChunks

\* ... and one of k full chunks and r more bytes into those and a short one.
LEMMA HAPChunksShort ==
  ASSUME NEW k \in Nat, NEW r \in 1..(PacketLengthMax - 1)
  PROVE  HAPChunks(k * PacketLengthMax + r) = Append(FullChunks(k), r)
<1>1. NumChunks(k * PacketLengthMax + r) = k + 1
  <2>1. k * PacketLengthMax + r + PacketLengthMax - 1
          = (k + 1) * PacketLengthMax + (r - 1)
    BY TransportAssumption
  <2> QED
    BY <2>1, DivChunks, TransportAssumption DEF NumChunks
<1>2. k * PacketLengthMax + r - (k + 1 - 1) * PacketLengthMax = r
  BY TransportAssumption
<1>3. HAPChunks(k * PacketLengthMax + r)
        = [i \in 1..(k + 1) |-> IF i < k + 1 THEN PacketLengthMax ELSE r]
  BY <1>1, <1>2, TransportAssumption DEF HAPChunks
<1>4. Append(FullChunks(k), r)
        = [i \in 1..(k + 1) |-> IF i < k + 1 THEN PacketLengthMax ELSE r]
  <2>1. FullChunks(k) \in Seq(Nat) /\ Len(FullChunks(k)) = k
    BY TransportAssumption DEF FullChunks
  <2>2. /\ Append(FullChunks(k), r) \in Seq(Nat)
        /\ Len(Append(FullChunks(k), r)) = k + 1
        /\ \A i \in 1..k : Append(FullChunks(k), r)[i] = FullChunks(k)[i]
        /\ Append(FullChunks(k), r)[k + 1] = r
    BY <2>1, AppendProperties
  <2>3. DOMAIN Append(FullChunks(k), r) = 1..(k + 1)
    BY <2>2
  <2>4. \A i \in 1..(k + 1) :
          Append(FullChunks(k), r)[i] = IF i < k + 1 THEN PacketLengthMax ELSE r
    BY <2>2 DEF FullChunks
  <2>5. Append(FullChunks(k), r) \in [1..(k + 1) -> Nat]
    BY <2>2, LenProperties
  <2> QED
    BY <2>3, <2>4, <2>5
<1> QED
  BY <1>3, <1>4

LEMMA FullChunksZero == FullChunks(0) = <<>>
BY DEF FullChunks

LEMMA InitChunkInv == Init => ChunkInv
BY DEF Init, ChunkInv

\* The writer's steps keep ChunkInv; no other step touches the writer.
LEMMA NextChunkInv == TypeOK /\ ChunkInv /\ [Next]_tvars => ChunkInv'
<1> SUFFICES ASSUME TypeOK, ChunkInv, [Next]_tvars PROVE ChunkInv'
  OBVIOUS
<1> USE TransportAssumption
<1>1. ASSUME NEW n \in MinLength..MaxLength, Send(n) PROVE ChunkInv'
  BY <1>1, LengthsEmpty, FullChunksZero DEF Send, ChunkInv
<1>2. CASE EncryptPacket
  <2> DEFINE k == Len(out)
             f == [len |-> PacketLength(wrem), nonce |-> encryptCount, ok |-> TRUE]
  <2>1. /\ wpc = "loop" /\ wrem > 0
        /\ out' = Append(out, f)
        /\ wrem' = wrem - PacketLength(wrem) /\ wlen' = wlen
        /\ wpc' = IF LastPacket(PacketLength(wrem)) THEN "flush" ELSE "loop"
    BY <1>2 DEF EncryptPacket
  <2>2. /\ Lengths(out) = FullChunks(k)
        /\ wlen = wrem + k * PacketLengthMax
        /\ k \in Nat /\ wrem \in Nat
    BY <2>1 DEF ChunkInv, TypeOK
  <2>3. f \in Frame
    BY <2>1 DEF PacketLength, Frame, TypeOK
  <2>4. Lengths(out') = Append(FullChunks(k), PacketLength(wrem))
    BY <2>1, <2>2, <2>3, LengthsAppend DEF TypeOK
  <2>5. CASE wrem >= PacketLengthMax
    <3>1. PacketLength(wrem) = PacketLengthMax /\ wpc' = "loop"
      BY <2>1, <2>2, <2>5 DEF PacketLength, LastPacket
    <3>0. Len(out') = k + 1
      BY <2>1, <2>3 DEF TypeOK
    <3>2. Lengths(out') = FullChunks(Len(out'))
      BY <2>2, <2>4, <3>0, <3>1, FullChunksAppend
    <3>3. wlen' = wrem' + Len(out') * PacketLengthMax
      BY <2>1, <2>2, <3>1
    <3> QED
      BY <3>1, <3>2, <3>3 DEF ChunkInv
  <2>6. CASE wrem < PacketLengthMax
    <3>1. PacketLength(wrem) = wrem /\ wpc' = "flush"
      BY <2>1, <2>6 DEF PacketLength, LastPacket
    <3>0. wrem \in 1..(PacketLengthMax - 1)
      BY <2>1, <2>2, <2>6
    <3>2. HAPChunks(k * PacketLengthMax + wrem) = Append(FullChunks(k), wrem)
      BY <2>2, <3>0, HAPChunksShort
    <3>3. wlen' = k * PacketLengthMax + wrem
      BY <2>1, <2>2
    <3> QED
      BY <2>4, <3>1, <3>2, <3>3 DEF ChunkInv
  <2> QED
    BY <2>2, <2>5, <2>6
<1>3. CASE EncryptEnd
  <2>1. wpc = "loop" /\ wrem = 0 /\ wpc' = "flush" /\ out' = out /\ wlen' = wlen
    BY <1>3 DEF EncryptEnd
  <2>2. Lengths(out) = FullChunks(Len(out)) /\ wlen = Len(out) * PacketLengthMax
    BY <2>1 DEF ChunkInv, TypeOK
  <2>3. HAPChunks(Len(out) * PacketLengthMax) = FullChunks(Len(out))
    BY HAPChunksFull DEF TypeOK
  <2> QED
    BY <2>1, <2>2, <2>3 DEF ChunkInv
<1>4. CASE Flush
  BY <1>4 DEF Flush, ChunkInv
<1>5. CASE Close
  BY <1>5 DEF Close, ChunkInv
<1>6. CASE DecryptFrame \/ DecryptEOF
  BY <1>6 DEF DecryptFrame, DecryptEOF, ChunkInv
<1>7. CASE NetworkNext
  BY <1>7 DEF NetworkNext, Tamper, Drop, Duplicate, Swap, WireOnly, ChunkInv
<1>8. CASE UNCHANGED tvars
  BY <1>8 DEF tvars, ChunkInv
<1> QED
  BY <1>1, <1>2, <1>3, <1>4, <1>5, <1>6, <1>7, <1>8 DEF Next

\* Theorem: for every chunk size and message bound, whenever Encrypt hands
\* its buffer to the connection (packetsWithSizeFromBytes and the Encrypt
\* loop of session.go), the buffer holds the HAP chunking of the message:
\* full chunks, then a shorter last one unless the length is a multiple.
THEOREM EncryptChunks == Spec => []EncryptChunksMessage
<1>1. Init => IInv /\ ChunkInv
  BY InitIInv, InitChunkInv
<1>2. IInv /\ ChunkInv /\ [Next]_tvars => IInv' /\ ChunkInv'
  BY NextIInv, NextChunkInv DEF IInv
<1>3. ChunkInv => EncryptChunksMessage
  BY DEF ChunkInv, EncryptChunksMessage
<1> QED
  BY <1>1, <1>2, <1>3, PTL DEF Spec

-----------------------------------------------------------------------------
(* What the refinement gives: the integrity of the stream.                 *)

\* In the abstract chunk stream, typing and Delivered are inductive.
LEMMA AbsInitDelivered == Abs!Init => Abs!TypeOK /\ Abs!Delivered
BY DEF Abs!Init, Abs!TypeOK, Abs!Delivered

LEMMA AbsNextDelivered ==
  Abs!TypeOK /\ Abs!Delivered /\ [Abs!Next]_Abs!absVars
    => Abs!TypeOK' /\ Abs!Delivered'
<1> SUFFICES ASSUME Abs!TypeOK, Abs!Delivered, [Abs!Next]_Abs!absVars
             PROVE  Abs!TypeOK' /\ Abs!Delivered'
  OBVIOUS
<1>1. ASSUME NEW x \in 0..PacketLengthMax, Abs!Write(x)
      PROVE  Abs!TypeOK' /\ Abs!Delivered'
  BY <1>1 DEF Abs!Write, Abs!TypeOK, Abs!Delivered
<1>2. CASE Abs!Accept
  BY <1>2 DEF Abs!Accept, Abs!TypeOK, Abs!Delivered
<1>3. CASE Abs!Abort
  BY <1>3 DEF Abs!Abort, Abs!TypeOK, Abs!Delivered
<1>4. CASE UNCHANGED Abs!absVars
  BY <1>4 DEF Abs!absVars, Abs!TypeOK, Abs!Delivered
<1> QED
  BY <1>1, <1>2, <1>3, <1>4 DEF Abs!Next

\* Theorem: whatever the network does to the frames (alter, drop, replay,
\* reorder), the chunks Session.Decrypt has accepted are always a prefix
\* of the chunks Session.Encrypt sealed.  It holds of ChunkStream, and
\* the transport inherits it through Refinement.
THEOREM DecryptPrefix == Spec => []ChunksDelivered
<1>1. Abs!Spec => [](Abs!TypeOK /\ Abs!Delivered)
  BY AbsInitDelivered, AbsNextDelivered, PTL DEF Abs!Spec
<1> QED
  BY <1>1, Refinement, PTL DEF ChunkStreamRefined, ChunksDelivered

=============================================================================
