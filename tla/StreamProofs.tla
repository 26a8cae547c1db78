---------------------------- MODULE StreamProofs ----------------------------
(***************************************************************************)
(* Theorems about the streams that keep bytes back: the write buffer of a     *)
(* stream (StreamBuf), for any number of writers, packets of any length and   *)
(* bursts of any size, the compressed stream (StreamGzip), for any pieces *)
(* the application and the child take and any bytes zlib keeps; and the line  *)
(* stream (StreamLine), for any input, flags, sizes and pieces.               *)
(***************************************************************************)
EXTENDS StreamBuf, StreamGzip, StreamLine, SequenceTheorems, WellFoundedInduction, FiniteSetTheorems, TLAPS

-----------------------------------------------------------------------------
(* The buffered stream. *)

Packet == [first : Nat, length : Nat]

\* The packets follow one another without a gap, from the byte the child gets
\* next to the last one that was accepted.
Chained ==
    /\ \A i \in 1 .. Len(buffers) : buffers[i].first + buffers[i].length <= total + 1
    /\ \A i \in 1 .. Len(buffers) - 1 : buffers[i + 1].first = buffers[i].first + buffers[i].length
    /\ buffers = <<>> => Len(wire) = total /\ pending_pos = 0
    /\ buffers # <<>> =>
         /\ buffers[1].first + pending_pos = Len(wire) + 1
         /\ pending_pos <= buffers[1].length
         /\ buffers[Len(buffers)].first + buffers[Len(buffers)].length = total + 1

BufTypeOK ==
    /\ buffers \in Seq(Packet)
    /\ pending_pos \in Nat
    /\ total \in Nat
    /\ wire \in Seq(Nat)

BufInv ==
    /\ BufTypeOK
    /\ Chained
    /\ \A k \in 1 .. Len(wire) : wire[k] = k

LEMMA OneOrMore == \A x \in Nat : x >= 1 => x = 1 \/ x > 1
  OBVIOUS

\* The bytes up to the end of a packet that has been taken to its end.
LEMMA TakenToEnd ==
    ASSUME NEW first \in Nat, NEW length \in Nat, NEW pos \in Nat, NEW n \in Nat, NEW before \in Nat,
           first + pos = before + 1, pos + n = length
    PROVE  first + length = (before + n) + 1
  OBVIOUS

LEMMA PacketFields == \A p \in Packet : p.first \in Nat /\ p.length \in Nat
  BY DEF Packet

\* What is appended to the bytes the child has got.
LEMMA Appended ==
    ASSUME NEW s \in Seq(Nat), NEW t \in Seq(Nat)
    PROVE  /\ s \o t \in Seq(Nat)
           /\ Len(s \o t) = Len(s) + Len(t)
           /\ \A k \in 1 .. Len(s) : (s \o t)[k] = s[k]
           /\ \A k \in 1 .. Len(t) : (s \o t)[Len(s) + k] = t[k]
  OBVIOUS

LEMMA BufInitInv == Init => BufInv
  BY DEF Init, BufInv, BufTypeOK, Chained

\* A write appends a packet that begins after the last byte accepted.
LEMMA WritePacketInv ==
    ASSUME BufInv, NEW n \in Lengths, WritePacket(n)
    PROVE  BufInv'
<1>1. n \in Nat /\ total \in Nat /\ buffers \in Seq(Packet) /\ Len(buffers) \in Nat
  BY BufAssumption DEF BufInv, BufTypeOK
<1>2. CASE Refused
  BY <1>2 DEF WritePacket, BufInv, BufTypeOK, Chained
<1>3. CASE ~Refused
  <2> DEFINE p == [first |-> total + 1, length |-> n]
  <2>1. /\ buffers' = Append(buffers, p) /\ total' = total + n
        /\ UNCHANGED <<pending_pos, wire>>
    BY <1>3 DEF WritePacket
  <2>2. p \in Packet /\ p.first = total + 1 /\ p.length = n
    BY <1>1 DEF Packet
  <2> HIDE DEF p
  <2>3. /\ buffers' \in Seq(Packet) /\ Len(buffers') = Len(buffers) + 1
        /\ buffers'[Len(buffers) + 1] = p
        /\ \A i \in 1 .. Len(buffers) : buffers'[i] = buffers[i]
    BY <1>1, <2>1, <2>2
  <2>4. BufTypeOK'
    BY <1>1, <2>1, <2>3 DEF BufInv, BufTypeOK
  <2>5. \A i \in 1 .. Len(buffers) : buffers[i].first \in Nat /\ buffers[i].length \in Nat
    <3>1. \A i \in 1 .. Len(buffers) : buffers[i] \in Packet
      BY <1>1
    <3> QED
      BY <3>1, PacketFields
  <2>6. \A i \in 1 .. Len(buffers') : buffers'[i].first + buffers'[i].length <= total' + 1
    <3> SUFFICES ASSUME NEW i \in 1 .. Len(buffers')
                 PROVE  buffers'[i].first + buffers'[i].length <= total' + 1
      OBVIOUS
    <3>1. CASE i = Len(buffers) + 1
      BY <1>1, <2>1, <2>2, <2>3, <3>1
    <3>2. CASE i \in 1 .. Len(buffers)
      BY <1>1, <2>1, <2>3, <2>5, <3>2 DEF BufInv, Chained
    <3> QED
      BY <1>1, <2>3, <3>1, <3>2
  <2>7. \A i \in 1 .. Len(buffers') - 1 : buffers'[i + 1].first = buffers'[i].first + buffers'[i].length
    <3> SUFFICES ASSUME NEW i \in 1 .. Len(buffers)
                 PROVE  buffers'[i + 1].first = buffers'[i].first + buffers'[i].length
      BY <1>1, <2>3
    <3>1. CASE i = Len(buffers)
      <4>1. buffers # <<>>
        BY <1>1, <3>1
      <4> QED
        BY <2>2, <2>3, <3>1, <4>1 DEF BufInv, Chained
    <3>2. CASE i # Len(buffers)
      <4>1. i \in 1 .. Len(buffers) - 1 /\ i + 1 \in 1 .. Len(buffers)
        BY <1>1, <3>2
      <4> QED
        BY <2>3, <4>1 DEF BufInv, Chained
    <3> QED
      BY <3>1, <3>2
  <2>8. buffers'[1].first + pending_pos' = Len(wire') + 1 /\ pending_pos' <= buffers'[1].length
    <3>1. CASE buffers = <<>>
      BY <1>1, <2>1, <2>2, <2>3, <3>1 DEF BufInv, Chained
    <3>2. CASE buffers # <<>>
      <4>1. 1 \in 1 .. Len(buffers)
        BY <1>1, <3>2
      <4> QED
        BY <2>1, <2>3, <3>2, <4>1 DEF BufInv, Chained
    <3> QED
      BY <3>1, <3>2
  <2>9. buffers' # <<>> /\ buffers'[Len(buffers')].first + buffers'[Len(buffers')].length = total' + 1
    BY <1>1, <2>1, <2>2, <2>3
  <2>10. Chained'
    BY <2>6, <2>7, <2>8, <2>9 DEF Chained
  <2> QED
    BY <2>1, <2>4, <2>10 DEF BufInv
<1> QED
  BY <1>2, <1>3

\* What the child takes are the bytes that come next.
LEMMA ChildTakesInv ==
    ASSUME BufInv, NEW a \in Actors, NEW n \in Nat, ChildTakes(a, n)
    PROVE  BufInv'
<1> DEFINE packet == Head(buffers)
           bytes == Bytes(packet.first + pending_pos, n)
<1>1. /\ total \in Nat /\ buffers \in Seq(Packet) /\ buffers # <<>> /\ n \in Nat
      /\ pending_pos \in Nat /\ wire \in Seq(Nat) /\ Len(wire) \in Nat /\ Len(buffers) \in Nat \ {0}
  BY BufAssumption DEF BufInv, BufTypeOK, ChildTakes, MayWriteChild
<1>2. /\ n \in Nat /\ pending_pos \in Nat /\ total \in Nat
      /\ Len(wire) \in Nat /\ Len(buffers) \in Nat /\ Len(buffers) >= 1
  BY <1>1
<1>3. /\ packet = buffers[1] /\ packet \in Packet /\ packet.first \in Nat /\ packet.length \in Nat
      /\ packet.first + pending_pos = Len(wire) + 1
  <2>1. packet = buffers[1] /\ packet \in Packet
    BY <1>1
  <2> QED
    BY <1>1, <2>1, PacketFields DEF BufInv, Chained
<1>4. /\ packet.first \in Nat /\ packet.length \in Nat
      /\ packet.first + pending_pos = Len(wire) + 1
  BY <1>3
<1>5. /\ n <= packet.length - pending_pos
      /\ wire' = wire \o bytes /\ total' = total
      /\ pending_pos' = NextPos(n)
      /\ buffers' = IF pending_pos + n >= packet.length THEN Tail(buffers) ELSE buffers
  BY <1>1, <1>3 DEF ChildTakes
<1>6. n <= packet.length - pending_pos
  BY <1>5
<1>7. /\ bytes \in Seq(Nat) /\ Len(bytes) = n
      /\ \A k \in 1 .. n : bytes[k] = Len(wire) + k
  BY <1>1, <1>3 DEF Bytes
<1> HIDE DEF packet, bytes
<1>8. /\ wire' \in Seq(Nat) /\ Len(wire') = Len(wire) + n
      /\ \A k \in 1 .. Len(wire') : wire'[k] = k
  <2>1. /\ wire' \in Seq(Nat) /\ Len(wire') = Len(wire) + n
        /\ \A k \in 1 .. Len(wire) : wire'[k] = wire[k]
        /\ \A k \in 1 .. n : wire'[Len(wire) + k] = bytes[k]
    BY <1>1, <1>5, <1>7, Appended
  <2>2. ASSUME NEW k \in 1 .. Len(wire')
        PROVE  wire'[k] = k
    <3>1. CASE k <= Len(wire)
      <4>1. k \in 1 .. Len(wire)
        BY <1>2, <2>1, <3>1
      <4> QED
        BY <2>1, <4>1 DEF BufInv
    <3>2. CASE k > Len(wire)
      <4>1. k - Len(wire) \in 1 .. n /\ Len(wire) + (k - Len(wire)) = k
        BY <1>2, <2>1, <3>2
      <4>2. wire'[Len(wire) + (k - Len(wire))] = bytes[k - Len(wire)]
        BY <2>1, <4>1
      <4> QED
        BY <1>7, <4>1, <4>2
    <3> QED
      BY <1>2, <2>1, <3>1, <3>2
  <2> QED
    BY <2>1, <2>2
<1>9. CASE pending_pos + n < packet.length
  <2>1. ~(pending_pos + n >= packet.length)
    BY <1>1, <1>3, <1>9
  <2>2. buffers' = buffers /\ pending_pos' = pending_pos + n
    BY <1>5, <2>1 DEF NextPos, packet
  <2>3. buffers'[1].first + pending_pos' = Len(wire') + 1 /\ pending_pos' <= buffers'[1].length
    <3>1. packet.first + (pending_pos + n) = (Len(wire) + n) + 1 /\ pending_pos + n <= packet.length
      BY <1>2, <1>4, <1>9
    <3> QED
      BY <1>3, <1>8, <2>2, <3>1
  <2>4. Chained'
    BY <1>1, <1>5, <2>2, <2>3 DEF BufInv, Chained
  <2>5. BufTypeOK'
    BY <1>1, <1>5, <1>8, <2>2 DEF BufTypeOK
  <2> QED
    BY <1>8, <2>4, <2>5 DEF BufInv
<1>10. CASE pending_pos + n >= packet.length
  <2>1. buffers' = Tail(buffers) /\ pending_pos' = 0 /\ pending_pos + n = packet.length
    <3>1. pending_pos + n = packet.length
      BY <1>2, <1>4, <1>6, <1>10
    <3> QED
      BY <1>5, <1>10, <3>1 DEF NextPos, packet
  <2>2. /\ buffers' \in Seq(Packet) /\ Len(buffers') = Len(buffers) - 1
        /\ \A i \in 1 .. Len(buffers) - 1 : buffers'[i] = buffers[i + 1]
    BY <1>1, <2>1
  <2>3. BufTypeOK'
    BY <1>1, <1>5, <1>8, <2>1, <2>2 DEF BufTypeOK
  <2>4. \A i \in 1 .. Len(buffers') : buffers'[i].first + buffers'[i].length <= total' + 1
    BY <1>1, <1>5, <2>2 DEF BufInv, Chained
  <2>5. \A i \in 1 .. Len(buffers') - 1 : buffers'[i + 1].first = buffers'[i].first + buffers'[i].length
    <3> SUFFICES ASSUME NEW i \in 1 .. Len(buffers) - 2
                 PROVE  buffers'[i + 1].first = buffers'[i].first + buffers'[i].length
      BY <1>1, <2>2
    <3>1. i \in 1 .. Len(buffers) - 1 /\ i + 1 \in 1 .. Len(buffers) - 1
      BY <1>1
    <3>2. buffers'[i] = buffers[i + 1] /\ buffers'[i + 1] = buffers[(i + 1) + 1]
      BY <2>2, <3>1
    <3> QED
      BY <3>1, <3>2 DEF BufInv, Chained
  <2>6. CASE Len(buffers) = 1
    <3>1. Len(wire') = total' /\ buffers' = <<>>
      <4>1. buffers[1].first + buffers[1].length = total + 1
        BY <1>1, <2>6 DEF BufInv, Chained
      <4>2. buffers' = <<>>
        BY <1>1, <2>2, <2>6
      <4> QED
        <5>1. packet.first + packet.length = total + 1
          BY <1>3, <4>1
        <5>2. Len(wire) + n = total
          <6>1. (Len(wire) + n) + 1 = total + 1
            BY <1>2, <1>4, <2>1, <5>1, TakenToEnd
          <6> QED
            BY <1>2, <6>1
        <5> QED
          BY <1>5, <1>8, <4>2, <5>2
    <3> QED
      BY <1>8, <2>1, <2>3, <2>4, <2>5, <3>1 DEF BufInv, Chained
  <2>7. CASE Len(buffers) > 1
    <3>1. /\ buffers' # <<>> /\ buffers'[1] = buffers[2] /\ buffers'[1] \in Packet
          /\ buffers'[Len(buffers')] = buffers[Len(buffers)]
      BY <1>1, <2>2, <2>7
    <3>2. buffers'[1].first = packet.first + packet.length
      BY <1>1, <1>3, <2>7, <3>1 DEF BufInv, Chained
    <3>3. buffers'[1].first + pending_pos' = Len(wire') + 1 /\ pending_pos' <= buffers'[1].length
      <4>1. buffers'[1].length \in Nat
        BY <3>1, PacketFields
      <4> QED
        <5>1. packet.first + packet.length = (Len(wire) + n) + 1
          <6> DEFINE before == Len(wire)
          <6>1. before \in Nat /\ packet.first + pending_pos = before + 1
            BY <1>2, <1>4
          <6> HIDE DEF before
          <6>2. /\ packet.first \in Nat /\ packet.length \in Nat /\ pending_pos \in Nat /\ n \in Nat
                /\ pending_pos + n = packet.length
            BY <1>2, <1>4, <2>1
          <6>3. packet.first + packet.length = (before + n) + 1
            BY <6>1, <6>2
          <6> QED
            BY <6>3 DEF before
        <5>2. 0 <= buffers'[1].length
          BY <4>1
        <5>3. (packet.first + packet.length) + 0 = packet.first + packet.length
          BY <1>4
        <5> QED
          BY <1>8, <2>1, <3>2, <5>1, <5>2, <5>3
    <3>4. buffers'[Len(buffers')].first + buffers'[Len(buffers')].length = total' + 1
      BY <1>1, <1>5, <3>1 DEF BufInv, Chained
    <3>5. Chained'
      BY <2>4, <2>5, <3>1, <3>3, <3>4 DEF Chained
    <3> QED
      BY <1>8, <2>3, <3>5 DEF BufInv
  <2>8. Len(buffers) = 1 \/ Len(buffers) > 1
    BY <1>2, OneOrMore, Zenon
  <2> QED
    BY <2>6, <2>7, <2>8
<1> QED
  BY <1>2, <1>4, <1>9, <1>10

LEMMA BufStutter ==
    ASSUME BufInv, UNCHANGED <<buffers, pending_pos, total, wire>>
    PROVE  BufInv'
  BY DEF BufInv, BufTypeOK, Chained

LEMMA BufNextInv ==
    ASSUME BufInv, [Next]_vars
    PROVE  BufInv'
<1>1. CASE UNCHANGED vars
  BY <1>1, BufStutter DEF vars
<1>2. ASSUME NEW n \in Lengths, WritePacket(n)
      PROVE  BufInv'
  BY <1>2, WritePacketInv
<1>3. ASSUME NEW a \in Actors, Flushing(a)
      PROVE  BufInv'
  <2>1. CASE \E n \in 0 .. MaxBytes : ChildTakes(a, n)
    <3>1. 0 .. MaxBytes \subseteq Nat
      BY BufAssumption
    <3> QED
      BY <2>1, <3>1, ChildTakesInv
  <2>2. CASE FlushLock(a) \/ ChildAgain(a) \/ ChildFails(a) \/ FlushDone(a)
    BY <2>2, BufStutter DEF FlushLock, ChildAgain, ChildFails, FlushDone
  <2> QED
    BY <1>3, <2>1, <2>2 DEF Flushing
<1>4. ASSUME NEW a \in Actors, z_stream_buf_shutdown_method(a) \/ ChildShutdown(a)
      PROVE  BufInv'
  BY <1>4, BufStutter DEF z_stream_buf_shutdown_method, ChildShutdown
<1>5. ASSUME NEW writer \in Writers, z_stream_buf_flush(writer)
      PROVE  BufInv'
  BY <1>5, BufStutter DEF z_stream_buf_flush
<1>6. CASE LoopPrepare \/ ChildWritable \/ OtherEvent \/ CallbackStops
  BY <1>6, BufStutter DEF LoopPrepare, ChildWritable, OtherEvent, CallbackStops
<1> QED
  BY <1>1, <1>2, <1>3, <1>4, <1>5, <1>6 DEF Next, WriterWrites, CallbackWrites

\* The child of a buffered stream gets the accepted bytes in order, none lost and
\* none twice, however writers, bursts and partial writes of the child
\* interleave, and whatever fails.
THEOREM BytesInOrder == Spec => []InOrder
<1>1. BufInv => InOrder
  <2> SUFFICES ASSUME BufInv PROVE InOrder
    OBVIOUS
  <2>1. CASE buffers = <<>>
    BY <2>1 DEF BufInv, BufTypeOK, Chained, InOrder
  <2>2. CASE buffers # <<>>
    <3>1. buffers[1] \in Packet /\ 1 \in 1 .. Len(buffers)
      BY <2>2 DEF BufInv, BufTypeOK
    <3>2. buffers[1].first \in Nat /\ buffers[1].length \in Nat
      BY <3>1, PacketFields
    <3>3. /\ buffers[1].first + buffers[1].length <= total + 1
          /\ buffers[1].first + pending_pos = Len(wire) + 1
          /\ pending_pos <= buffers[1].length
      BY <2>2, <3>1 DEF BufInv, Chained
    <3>4. Len(wire) \in Nat /\ total \in Nat /\ pending_pos \in Nat
      BY DEF BufInv, BufTypeOK
    <3>5. Len(wire) <= total
      BY <3>2, <3>3, <3>4
    <3> QED
      BY <3>5 DEF BufInv, InOrder
  <2> QED
    BY <2>1, <2>2
<1> QED
  BY BufInitInv, BufNextInv, <1>1, PTL DEF Spec

-----------------------------------------------------------------------------
(* Errors. *)

\* The error of a failed child write stays stored.
ErrorStored == failed => flush_error

\* After a write to the child has failed, no writer gets another byte accepted: the
\* error is stored until the end.  It is stored only if there was one: the end of
\* the child's stream comes without, and is excluded.
THEOREM ErrorsPropagated ==
    ASSUME "eof" \notin ChildResults
    PROVE  Spec => ErrorPropagated
<1>1. Init => ErrorStored
  BY DEF Init, ErrorStored
<1>2. ErrorStored /\ [Next]_vars => ErrorStored'
  <2> SUFFICES ASSUME ErrorStored, [Next]_vars PROVE ErrorStored'
    OBVIOUS
  <2>1. ASSUME NEW a \in Actors, ChildFails(a)
        PROVE  ErrorStored'
    BY <2>1 DEF ChildFails, ChildFailures, ErrorStored
  <2>2. CASE UNCHANGED <<failed, flush_error>>
    BY <2>2 DEF ErrorStored
  <2>3. (\E a \in Actors : ChildFails(a)) \/ UNCHANGED <<failed, flush_error>>
    BY DEF Next, vars, z_stream_buf_flush, WriterWrites, WritePacket, LoopPrepare, ChildWritable, OtherEvent,
       CallbackWrites, CallbackStops, Flushing, FlushLock, ChildTakes, ChildAgain, FlushDone,
       z_stream_buf_shutdown_method, ChildShutdown
  <2> QED
    BY <2>1, <2>2, <2>3
<1>3. ErrorStored /\ [Next]_vars => [failed => total' = total]_vars
  <2> SUFFICES ASSUME ErrorStored, Next, failed PROVE total' = total
    BY DEF vars
  <2>1. \A n \in Lengths : WritePacket(n) => total' = total
    BY DEF WritePacket, Refused, ErrorStored
  <2> QED
    BY <2>1 DEF Next, z_stream_buf_flush, WriterWrites, LoopPrepare, ChildWritable, OtherEvent,
       CallbackWrites, CallbackStops, Flushing, FlushLock, ChildTakes, ChildAgain, ChildFails, FlushDone,
       z_stream_buf_shutdown_method, ChildShutdown
<1> QED
  BY <1>1, <1>2, <1>3, PTL DEF Spec, ErrorPropagated

-----------------------------------------------------------------------------
(* The compressed stream.  What zlib keeps on either side, the buffers of the   *)
(* two streams and the link between them are consecutive parts of one flow.     *)

\* Part s of the flow begins after byte p: a byte that was accepted is its number,
\* and the end of the compressed data follows the last one.
InPlace(s, p, t) ==
    \A i \in 1 .. Len(s) : /\ p + i <= t => s[i] = p + i
                           /\ p + i = t + 1 => s[i] = END

\* A reader that still reads.
Live == rloop # "done" /\ "COMPRESS_FINISHED" \notin r.state

HeaderUnread == flags.header /\ "HEADER_READ" \notin r.state
HeaderUnwritten == flags.header /\ "HEADER_WRITTEN" \notin w.state

\* What is on its way behind the header.
Body == IF HeaderUnread THEN Tail(link) ELSE link

Pending == From(w.out, w.out_p)

HeldAt == Len(got)
InputAt == HeldAt + Len(r.held)
BodyAt == InputAt + Len(r.avail_in)
PendingAt == BodyAt + Len(Body)
KeptAt == PendingAt + Len(Pending)
EndAt == KeptAt + Len(w.held)

\* Between the byte the reader gets next and the last one that was accepted
\* there is no gap: what zlib keeps on either side, the buffers and the link are
\* consecutive parts of it.
Flows ==
    /\ InPlace(r.held, HeldAt, taken) /\ InputAt <= taken
    /\ InPlace(r.avail_in, InputAt, taken)
    /\ InPlace(Body, BodyAt, taken)
    /\ w.status # "closed" => EndAt = taken /\ InPlace(Pending, PendingAt, taken)
                              /\ InPlace(w.held, KeptAt, taken)

WriterOK ==
    /\ w.out_p \in {0, Len(w.out)}
    /\ wcall.op = "write" => w.out = <<>> /\ w.status = "open" /\ ~HeaderUnwritten
    /\ HeaderUnwritten => /\ taken = 0 /\ w.out = <<>> /\ w.held = <<>>
                          /\ \/ link = <<>>
                             \/ w.status = "closed" /\ Head(link) # HDR

\* A reader that waits for the header has been given nothing, and the header comes
\* first: without one the reader gives up.
HeaderFirst ==
    Live /\ flags.header =>
       IF HeaderUnread
       THEN /\ got = <<>> /\ r.held = <<>> /\ r.avail_in = <<>>
            /\ ~HeaderUnwritten => link # <<>> /\ Head(link) = HDR
       ELSE ~HeaderUnwritten

GivenOK ==
    /\ \A i \in 1 .. Len(got) : got[i] = i
    /\ Len(got) <= taken
    /\ "COMPRESS_FINISHED" \in r.state => Len(got) = taken /\ w.status = "closed"

WriterStates ==
    [held : Seq(Int), out : Seq(Int), out_p : Nat,
     state : SUBSET {"HEADER_WRITTEN", "WRITE_ERROR"}, shutdown : BOOLEAN,
     child_out : BOOLEAN, status : {"open", "closed", "failed"}]

GzipTypeOK ==
    /\ flags \in [header : BOOLEAN, empty : BOOLEAN, sync : BOOLEAN, nonblock : BOOLEAN]
    /\ w \in WriterStates
    /\ wcall \in [op : {"none", "write"}, left : Nat, n : Nat]
    /\ taken \in Nat
    /\ link \in Seq(Int)
    /\ hung \in BOOLEAN
    /\ r \in [avail_in : Seq(Int), held : Seq(Int),
              state : SUBSET {"HEADER_READ", "READ_ERROR", "EOF_RECEIVED", "COMPRESS_FINISHED"},
              child_in : BOOLEAN]
    /\ got \in Seq(Int)
    /\ rloop \in {"app", "poll", "done"}

GzipInv ==
    /\ GzipTypeOK /\ WriterOK /\ HeaderFirst /\ GivenOK
    /\ Live /\ ~(HeaderUnread /\ HeaderUnwritten) => Flows

-----------------------------------------------------------------------------
(* Sequences. *)

\* What joining two sequences gives.
LEMMA Joined ==
    ASSUME NEW s \in Seq(Int), NEW t \in Seq(Int)
    PROVE  /\ s \o t \in Seq(Int)
           /\ Len(s \o t) = Len(s) + Len(t)
           /\ \A k \in 1 .. Len(s) : (s \o t)[k] = s[k]
           /\ \A k \in 1 .. Len(t) : (s \o t)[Len(s) + k] = t[k]
  OBVIOUS

\* The first n of a sequence.
LEMMA CutFirst ==
    ASSUME NEW s \in Seq(Int), NEW n \in 0 .. Len(s)
    PROVE  /\ Upto(s, n) \in Seq(Int) /\ Len(Upto(s, n)) = n
           /\ \A k \in 1 .. n : Upto(s, n)[k] = s[k]
  BY DEF Upto

\* A sequence without its first n.
LEMMA CutLast ==
    ASSUME NEW s \in Seq(Int), NEW n \in 0 .. Len(s)
    PROVE  /\ From(s, n) \in Seq(Int) /\ Len(From(s, n)) = Len(s) - n
           /\ \A k \in 1 .. Len(s) - n : From(s, n)[k] = s[n + k]
  BY DEF From

\* Nothing and all of a sequence.
LEMMA CutAll ==
    ASSUME NEW s \in Seq(Int)
    PROVE  Upto(s, Len(s)) = s /\ From(s, 0) = s /\ From(s, Len(s)) = <<>>
  BY DEF Upto, From

\* The head and the tail of a sequence with another one behind it.
LEMMA Behind ==
    ASSUME NEW s \in Seq(Int), s # <<>>, NEW t \in Seq(Int)
    PROVE  /\ s \o t # <<>> /\ Head(s \o t) = Head(s)
           /\ Tail(s \o t) = Tail(s) \o t /\ Tail(s) \in Seq(Int)
  OBVIOUS

-----------------------------------------------------------------------------
(* Parts of the flow. *)

\* An empty part is in place anywhere.
LEMMA PlaceNothing ==
    ASSUME NEW p, NEW t
    PROVE  InPlace(<<>>, p, t)
  BY DEF InPlace

\* Two parts, the second one where the first ends, are one part in place.
LEMMA PlaceJoined ==
    ASSUME NEW s \in Seq(Int), NEW u \in Seq(Int), NEW p \in Nat, NEW t \in Nat,
           InPlace(s, p, t), InPlace(u, p + Len(s), t)
    PROVE  InPlace(s \o u, p, t)
<1> SUFFICES ASSUME NEW i \in 1 .. Len(s \o u)
             PROVE  /\ p + i <= t => (s \o u)[i] = p + i
                    /\ p + i = t + 1 => (s \o u)[i] = END
  BY DEF InPlace
<1>1. CASE i \in 1 .. Len(s)
  BY <1>1, Joined DEF InPlace
<1>2. CASE i \notin 1 .. Len(s)
  <2>1. PICK k \in 1 .. Len(u) : i = Len(s) + k
    <3>1. i \in Int /\ Len(s) \in Nat /\ i - Len(s) \in 1 .. Len(u)
      BY <1>2, Joined
    <3>2. i = Len(s) + (i - Len(s))
      BY <3>1
    <3> QED
      BY <3>1, <3>2
  <2>2. (s \o u)[i] = u[k]
    BY <2>1, Joined
  <2>3. /\ (p + Len(s)) + k <= t => u[k] = (p + Len(s)) + k
        /\ (p + Len(s)) + k = t + 1 => u[k] = END
    BY DEF InPlace
  <2>4. p + i = (p + Len(s)) + k
    BY <2>1
  <2> QED
    BY <2>2, <2>3, <2>4
<1> QED
  BY <1>1, <1>2

\* Both halves of a part in place are in place.
LEMMA PlaceCut ==
    ASSUME NEW s \in Seq(Int), NEW n \in 0 .. Len(s), NEW p \in Nat, NEW t \in Nat,
           InPlace(s, p, t)
    PROVE  InPlace(Upto(s, n), p, t) /\ InPlace(From(s, n), p + n, t)
<1>1. InPlace(Upto(s, n), p, t)
  <2>1. Len(Upto(s, n)) = n /\ \A k \in 1 .. n : Upto(s, n)[k] = s[k]
    BY CutFirst
  <2>2. 1 .. n \subseteq 1 .. Len(s)
    OBVIOUS
  <2> QED
    BY <2>1, <2>2 DEF InPlace
<1>2. InPlace(From(s, n), p + n, t)
  <2> SUFFICES ASSUME NEW i \in 1 .. Len(From(s, n))
               PROVE  /\ (p + n) + i <= t => From(s, n)[i] = (p + n) + i
                      /\ (p + n) + i = t + 1 => From(s, n)[i] = END
    BY DEF InPlace
  <2>1. i \in 1 .. Len(s) - n /\ From(s, n)[i] = s[n + i] /\ n + i \in 1 .. Len(s)
    <3>1. /\ Len(From(s, n)) = Len(s) - n
          /\ \A k \in 1 .. Len(s) - n : From(s, n)[k] = s[n + k]
      BY CutLast
    <3>2. i \in 1 .. Len(s) - n
      BY <3>1
    <3>3. Len(s) \in Nat /\ n \in Nat
      OBVIOUS
    <3> QED
      BY <3>1, <3>2, <3>3
  <2>2. (p + n) + i = p + (n + i)
    BY <2>1
  <2> QED
    BY <2>1, <2>2 DEF InPlace
<1> QED
  BY <1>1, <1>2

\* A part that ends before the last byte stays in place when more are accepted.
LEMMA PlaceGrows ==
    ASSUME NEW s \in Seq(Int), NEW p \in Nat, NEW t \in Nat, NEW u \in Nat,
           InPlace(s, p, t), p + Len(s) <= t, p + Len(s) <= u
    PROVE  InPlace(s, p, u)
  BY DEF InPlace

\* Newly accepted bytes are in place behind what was accepted before.
LEMMA PlaceNumbers ==
    ASSUME NEW t \in Nat, NEW n \in Nat
    PROVE  /\ Numbers(t + 1, t + n) \in Seq(Int) /\ Len(Numbers(t + 1, t + n)) = n
           /\ InPlace(Numbers(t + 1, t + n), t, t + n)
<1> DEFINE s == Numbers(t + 1, t + n)
<1>1. s = [i \in 1 .. n |-> t + i]
  BY DEF Numbers
<1>2. s \in [1 .. n -> Int]
  BY <1>1
<1>3. s \in Seq(Int) /\ Len(s) = n
  BY <1>2
<1> QED
  BY <1>1, <1>3 DEF InPlace

\* Joining is associative.
LEMMA Grouped ==
    ASSUME NEW s \in Seq(Int), NEW t \in Seq(Int), NEW u \in Seq(Int)
    PROVE  (s \o t) \o u = s \o (t \o u)
  OBVIOUS

-----------------------------------------------------------------------------
(* The parts of the flow, as the steps of the writer see them. *)

\* The parts of the flow are sequences, and the types of what counts them.
LEMMA GzipParts ==
    ASSUME GzipInv
    PROVE  /\ w.held \in Seq(Int) /\ w.out \in Seq(Int) /\ w.out_p \in 0 .. Len(w.out)
           /\ Pending \in Seq(Int) /\ link \in Seq(Int) /\ got \in Seq(Int)
           /\ r.held \in Seq(Int) /\ r.avail_in \in Seq(Int) /\ taken \in Nat
           /\ wcall.left \in Nat /\ wcall.n \in Nat
<1>1. /\ w.held \in Seq(Int) /\ w.out \in Seq(Int) /\ link \in Seq(Int)
      /\ got \in Seq(Int) /\ r.held \in Seq(Int) /\ r.avail_in \in Seq(Int)
      /\ taken \in Nat /\ wcall.left \in Nat /\ wcall.n \in Nat
  BY DEF GzipInv, GzipTypeOK, WriterStates
<1>2. w.out_p \in 0 .. Len(w.out)
  BY <1>1 DEF GzipInv, WriterOK
<1>3. Pending \in Seq(Int)
  BY <1>1, <1>2, CutLast DEF Pending
<1> QED
  BY <1>1, <1>2, <1>3

\* Where the parts are.
LEMMA Positions ==
    /\ HeldAt = Len(got) /\ InputAt = HeldAt + Len(r.held)
    /\ BodyAt = InputAt + Len(r.avail_in) /\ PendingAt = BodyAt + Len(Body)
    /\ KeptAt = PendingAt + Len(Pending) /\ EndAt = KeptAt + Len(w.held)
BY DEF HeldAt, InputAt, BodyAt, PendingAt, KeptAt, EndAt

\* Where the parts are after a step.
LEMMA PositionsNext ==
    (/\ HeldAt = Len(got) /\ InputAt = HeldAt + Len(r.held)
     /\ BodyAt = InputAt + Len(r.avail_in) /\ PendingAt = BodyAt + Len(Body)
     /\ KeptAt = PendingAt + Len(Pending) /\ EndAt = KeptAt + Len(w.held))'
BY Positions, PTL

\* The parts follow one another.
LEMMA PositionTypes ==
    ASSUME GzipInv, Body \in Seq(Int)
    PROVE  /\ HeldAt \in Nat /\ InputAt \in Nat /\ BodyAt \in Nat /\ PendingAt \in Nat
           /\ KeptAt \in Nat /\ EndAt \in Nat
           /\ HeldAt <= InputAt /\ InputAt <= BodyAt /\ BodyAt <= PendingAt
           /\ PendingAt <= KeptAt /\ KeptAt <= EndAt
<1>1. /\ Len(got) \in Nat /\ Len(r.held) \in Nat /\ Len(r.avail_in) \in Nat
      /\ Len(Body) \in Nat /\ Len(Pending) \in Nat /\ Len(w.held) \in Nat
  BY GzipParts
<1>2. HeldAt \in Nat
  BY <1>1, Positions
<1>3. InputAt \in Nat /\ HeldAt <= InputAt
  <2>1. InputAt = HeldAt + Len(r.held)
    BY Positions
  <2> QED
    BY <1>1, <1>2, <2>1
<1>4. BodyAt \in Nat /\ InputAt <= BodyAt
  <2>1. BodyAt = InputAt + Len(r.avail_in)
    BY Positions
  <2> QED
    BY <1>1, <1>3, <2>1
<1>5. PendingAt \in Nat /\ BodyAt <= PendingAt
  <2>1. PendingAt = BodyAt + Len(Body)
    BY Positions
  <2> QED
    BY <1>1, <1>4, <2>1
<1>6. KeptAt \in Nat /\ PendingAt <= KeptAt
  <2>1. KeptAt = PendingAt + Len(Pending)
    BY Positions
  <2> QED
    BY <1>1, <1>5, <2>1
<1>7. EndAt \in Nat /\ KeptAt <= EndAt
  <2>1. EndAt = KeptAt + Len(w.held)
    BY Positions
  <2> QED
    BY <1>1, <1>6, <2>1
<1> QED
  BY <1>2, <1>3, <1>4, <1>5, <1>6, <1>7

\* A step of the writer puts x on the way.
LEMMA WriterSends ==
    ASSUME GzipInv, GzipTypeOK', WriterOK', w.status # "closed",
           ~(HeaderUnread /\ HeaderUnwritten),
           UNCHANGED <<flags, r, got, rloop>>, taken <= taken', w.state \subseteq w'.state,
           NEW x \in Seq(Int), link' = link \o x,
           Live => /\ InPlace(x, PendingAt, taken')
                   /\ w'.status # "closed" =>
                        /\ InPlace(Pending', PendingAt + Len(x), taken')
                        /\ InPlace(w'.held, PendingAt + Len(x) + Len(Pending'), taken')
                        /\ PendingAt + Len(x) + Len(Pending') + Len(w'.held) = taken'
    PROVE  GzipInv'
<1>1. /\ Live' <=> Live
      /\ HeaderUnread' <=> HeaderUnread
      /\ HeaderUnwritten' => HeaderUnwritten
  BY DEF Live, HeaderUnread, HeaderUnwritten
<1>2. /\ taken \in Nat /\ taken' \in Nat /\ got \in Seq(Int) /\ r.held \in Seq(Int)
      /\ r.avail_in \in Seq(Int) /\ link \in Seq(Int) /\ w.held \in Seq(Int)
      /\ Pending \in Seq(Int)
  BY GzipParts DEF GzipTypeOK
<1>3. GivenOK'
  BY <1>2 DEF GzipInv, GivenOK
<1>4. Live /\ HeaderUnread => link # <<>> /\ Head(link) = HDR
  BY DEF GzipInv, HeaderFirst, HeaderUnread
<1>5. HeaderFirst'
  <2>1. Live /\ HeaderUnread => link' # <<>> /\ Head(link') = HDR
    BY <1>2, <1>4, Behind
  <2> QED
    BY <1>1, <2>1 DEF GzipInv, HeaderFirst
<1>6. ASSUME Live PROVE Flows'
  <2>1. Body \in Seq(Int) /\ Body' = Body \o x
    <3>1. CASE HeaderUnread
      BY <1>1, <1>2, <1>4, <1>6, <3>1, Behind DEF Body
    <3>2. CASE ~HeaderUnread
      BY <1>1, <1>2, <3>2 DEF Body
    <3> QED
      BY <3>1, <3>2
  <2>2. Flows
    BY <1>6 DEF GzipInv
  <2>3. /\ Len(got) \in Nat /\ Len(r.held) \in Nat /\ Len(r.avail_in) \in Nat
        /\ Len(Body) \in Nat /\ Len(Pending) \in Nat /\ Len(w.held) \in Nat
        /\ Len(x) \in Nat
    BY <1>2, <2>1
  <2>4. /\ HeldAt' = HeldAt /\ InputAt' = InputAt /\ BodyAt' = BodyAt
        /\ PendingAt' = PendingAt + Len(x) /\ KeptAt' = PendingAt' + Len(Pending')
        /\ EndAt' = KeptAt' + Len(w'.held)
        /\ HeldAt \in Nat /\ InputAt \in Nat /\ BodyAt \in Nat /\ PendingAt \in Nat
    <3>1. Len(Body') = Len(Body) + Len(x)
      BY <2>1, Joined
    <3>2. /\ HeldAt \in Nat /\ InputAt \in Nat /\ BodyAt \in Nat /\ PendingAt \in Nat
      BY <2>1, PositionTypes
    <3>3. HeldAt' = HeldAt /\ InputAt' = InputAt /\ BodyAt' = BodyAt
      BY Positions, PositionsNext
    <3>4. PendingAt' = BodyAt + (Len(Body) + Len(x))
      BY <3>1, <3>3, PositionsNext
    <3>5. PendingAt = BodyAt + Len(Body)
      BY Positions
    <3>6. PendingAt' = PendingAt + Len(x)
      BY <2>3, <3>2, <3>4, <3>5
    <3> QED
      BY <3>2, <3>3, <3>6, PositionsNext
  <2>5. /\ HeldAt + Len(r.held) <= taken /\ InputAt + Len(r.avail_in) <= taken
        /\ BodyAt + Len(Body) <= taken
    <3>1. EndAt = taken
      BY <2>2 DEF Flows
    <3>2. InputAt <= EndAt /\ BodyAt <= EndAt /\ PendingAt <= EndAt
      BY <2>1, PositionTypes
    <3> QED
      BY <3>1, <3>2, Positions
  <2>6. /\ InPlace(r.held, HeldAt, taken') /\ InPlace(r.avail_in, InputAt, taken')
        /\ InPlace(Body, BodyAt, taken')
    <3>1. HeldAt + Len(r.held) <= taken' /\ InputAt + Len(r.avail_in) <= taken'
          /\ BodyAt + Len(Body) <= taken'
      <4>1. \A e \in Nat : e <= taken => e <= taken'
        BY <1>2
      <4>2. /\ HeldAt + Len(r.held) \in Nat /\ InputAt + Len(r.avail_in) \in Nat
            /\ BodyAt + Len(Body) \in Nat
        BY <2>3, <2>4
      <4> QED
        BY <2>5, <4>1, <4>2
    <3> QED
      BY <1>2, <2>1, <2>2, <2>4, <2>5, <3>1, PlaceGrows DEF Flows
  <2>7. InPlace(Body', BodyAt, taken')
    <3>1. InPlace(x, BodyAt + Len(Body), taken')
      BY <1>6, Positions
    <3> QED
      BY <1>2, <2>1, <2>4, <2>6, <3>1, PlaceJoined
  <2>8. InputAt' <= taken'
    BY <1>2, <2>2, <2>4 DEF Flows
  <2>9. w'.status # "closed" => /\ EndAt' = taken' /\ InPlace(Pending', PendingAt', taken')
                                /\ InPlace(w'.held, KeptAt', taken')
    BY <1>6, <2>4
  <2> QED
    BY <2>4, <2>6, <2>7, <2>8, <2>9 DEF Flows
<1> QED
  BY <1>1, <1>3, <1>5, <1>6 DEF GzipInv

\* The child takes all it is given or nothing.
LEMMA WholeWrites ==
    ASSUME ~ShortWrites, NEW n \in Nat, NEW b, NEW k \in ChildWrites(n, b)
    PROVE  k = n \/ k = -1
BY DEF ChildWrites

\* What the writer still has, in place.
LEMMA FlowNow ==
    ASSUME GzipInv, Live, w.status # "closed", ~(HeaderUnread /\ HeaderUnwritten)
    PROVE  /\ PendingAt \in Nat
           /\ InPlace(Pending, PendingAt, taken)
           /\ InPlace(w.held, PendingAt + Len(Pending), taken)
           /\ PendingAt + Len(Pending) + Len(w.held) = taken
           /\ ~HeaderUnwritten
<1>1. Flows
  BY DEF GzipInv
<1>2. ~HeaderUnwritten
  BY DEF GzipInv, HeaderFirst, HeaderUnwritten
<1>3. HeaderUnread => link # <<>>
  BY <1>2 DEF GzipInv, HeaderFirst, HeaderUnread
<1>4. Body \in Seq(Int)
  BY <1>3, GzipParts, Behind DEF Body
<1>5. KeptAt = PendingAt + Len(Pending) /\ EndAt = KeptAt + Len(w.held)
  BY Positions
<1>6. EndAt = taken /\ InPlace(Pending, PendingAt, taken) /\ InPlace(w.held, KeptAt, taken)
  BY <1>1 DEF Flows
<1>7. PendingAt \in Nat
  BY <1>4, PositionTypes
<1> QED
  BY <1>2, <1>5, <1>6, <1>7

\* The header is the first thing the writer sends.
LEMMA HeaderSent ==
    ASSUME GzipInv, NEW n \in Nat, WriteBegins(n), HeaderUnwritten
    PROVE  GzipInv'
<1>1. /\ flags.header /\ "HEADER_WRITTEN" \notin w.state
      /\ taken = 0 /\ w.out = <<>> /\ w.held = <<>> /\ link = <<>> /\ w.out_p = 0
      /\ w.status = "open"
  BY GzipParts DEF WriteBegins, GzipInv, WriterOK, HeaderUnwritten
<1>2. w \in WriterStates
  BY DEF GzipInv, GzipTypeOK
<1>3. /\ w' = [w EXCEPT !.state = w.state \cup {"HEADER_WRITTEN"}, !.child_out = FALSE]
      /\ link' = <<>> \o <<HDR>>
      /\ wcall' = [op |-> "write", left |-> n, n |-> n]
      /\ UNCHANGED <<flags, taken, hung, r, got, rloop>>
  BY <1>1 DEF WriteBegins, z_stream_gzip_write_gzip_header, readervars
<1>4. link' = <<HDR>> /\ HDR \in Int
  BY <1>3 DEF HDR
<1>5. /\ w'.out = <<>> /\ w'.held = <<>> /\ w'.out_p = 0 /\ w'.status = "open"
      /\ "HEADER_WRITTEN" \in w'.state
  BY <1>1, <1>2, <1>3 DEF WriterStates
<1>6. GzipTypeOK'
  <2>1. w' \in WriterStates
    BY <1>2, <1>3 DEF WriterStates
  <2>2. link' \in Seq(Int) /\ wcall' \in [op : {"none", "write"}, left : Nat, n : Nat]
    BY <1>3, <1>4
  <2> QED
    BY <1>3, <2>1, <2>2 DEF GzipInv, GzipTypeOK
<1>7. WriterOK'
  BY <1>5 DEF WriterOK, HeaderUnwritten
<1>8. GivenOK'
  BY <1>1, <1>3, <1>5 DEF GzipInv, GivenOK
<1>9. HeaderFirst'
  BY <1>1, <1>3, <1>4, <1>5 DEF GzipInv, HeaderFirst, Live, HeaderUnread, HeaderUnwritten
<1>10. ASSUME Live' PROVE Flows'
  <2>1. HeaderUnread /\ got = <<>> /\ r.held = <<>> /\ r.avail_in = <<>>
    BY <1>1, <1>3, <1>10 DEF GzipInv, HeaderFirst, Live, HeaderUnwritten
  <2>2. Body' = <<>> /\ Pending' = <<>>
    <3>1. HeaderUnread'
      BY <1>3, <2>1 DEF HeaderUnread
    <3>2. Tail(link') = <<>>
      BY <1>4
    <3>3. Pending' = <<>>
      BY <1>5 DEF Pending, From
    <3> QED
      BY <3>1, <3>2, <3>3 DEF Body
  <2>3. /\ HeldAt' = 0 /\ InputAt' = 0 /\ BodyAt' = 0 /\ PendingAt' = 0
        /\ KeptAt' = 0 /\ EndAt' = 0
    <3>1. /\ Len(got') = 0 /\ Len(r'.held) = 0 /\ Len(r'.avail_in) = 0 /\ Len(Body') = 0
          /\ Len(Pending') = 0 /\ Len(w'.held) = 0
      BY <1>3, <1>5, <2>1, <2>2
    <3>2. HeldAt' = 0
      BY <3>1, PositionsNext
    <3>3. InputAt' = 0
      BY <3>1, <3>2, PositionsNext
    <3>4. BodyAt' = 0
      BY <3>1, <3>3, PositionsNext
    <3>5. PendingAt' = 0
      BY <3>1, <3>4, PositionsNext
    <3>6. KeptAt' = 0
      BY <3>1, <3>5, PositionsNext
    <3>7. EndAt' = 0
      BY <3>1, <3>6, PositionsNext
    <3> QED
      BY <3>2, <3>3, <3>4, <3>5, <3>6, <3>7
  <2> QED
    BY <1>1, <1>3, <1>5, <2>1, <2>2, <2>3, PlaceNothing DEF Flows
<1> QED
  BY <1>6, <1>7, <1>8, <1>9, <1>10 DEF GzipInv

\* z_stream_gzip_write_method begins: the header, if it is due, and what deflate left the last time.
LEMMA WriteBeginsInv ==
    ASSUME GzipInv, ~ShortWrites, NEW n \in Nat, WriteBegins(n)
    PROVE  GzipInv'
<1>1. CASE HeaderUnwritten
  BY <1>1, HeaderSent
<1>2. CASE ~HeaderUnwritten
  <2>1. /\ w.status = "open" /\ wcall.op = "none"
        /\ UNCHANGED <<flags, taken, hung, r, got, rloop>>
    BY DEF WriteBegins, readervars
  <2>2. /\ w \in WriterStates
        /\ link \in Seq(Int) /\ Pending \in Seq(Int) /\ w.out \in Seq(Int)
        /\ w.out_p \in {0, Len(w.out)} /\ taken \in Nat /\ w.held \in Seq(Int)
    BY GzipParts DEF GzipInv, GzipTypeOK, WriterOK
  <2> DEFINE h == z_stream_gzip_write_gzip_header(w.state)
  <2>3. h.sent = <<>> /\ h.state = w.state
    BY <1>2 DEF z_stream_gzip_write_gzip_header, HeaderUnwritten
  <2>4. \/ /\ w.out = <<>> /\ link' = link \o <<>>
           /\ w' = [w EXCEPT !.state = w.state, !.child_out = FALSE]
           /\ wcall' = [op |-> "write", left |-> n, n |-> n]
        \/ /\ link' = (link \o <<>>) \o Upto(Pending, Len(Pending))
           /\ w' = [w EXCEPT !.state = w.state, !.child_out = FALSE, !.out = <<>>, !.out_p = 0]
           /\ wcall' = [op |-> "write", left |-> n, n |-> n]
        \/ /\ link' = (link \o <<>>) \o <<>>
           /\ w' = [w EXCEPT !.state = w.state, !.child_out = FALSE, !.out_p = @]
           /\ UNCHANGED wcall
    <3>1. \/ /\ Len(w.out) = 0 /\ link' = link \o h.sent
             /\ w' = [w EXCEPT !.state = h.state, !.child_out = FALSE]
             /\ wcall' = [op |-> "write", left |-> n, n |-> n]
          \/ \E k \in ChildWrites(Len(Pending), flags.nonblock) :
              /\ link' = (link \o h.sent) \o (IF k = -1 THEN <<>> ELSE Upto(Pending, k))
              /\ IF k = Len(Pending)
                 THEN /\ w' = [w EXCEPT !.state = h.state, !.child_out = FALSE,
                                        !.out = <<>>, !.out_p = 0]
                      /\ wcall' = [op |-> "write", left |-> n, n |-> n]
                 ELSE /\ w' = [w EXCEPT !.state = h.state, !.child_out = FALSE,
                                        !.out_p = IF k = -1 THEN @ ELSE @ + k]
                      /\ UNCHANGED wcall
      BY DEF WriteBegins, Pending
    <3> HIDE DEF h
    <3>2. CASE /\ Len(w.out) = 0 /\ link' = link \o h.sent
               /\ w' = [w EXCEPT !.state = h.state, !.child_out = FALSE]
               /\ wcall' = [op |-> "write", left |-> n, n |-> n]
      <4>1. w.out = <<>>
        BY <2>2, <3>2
      <4> QED
        BY <2>3, <3>2, <4>1
    <3>3. ASSUME NEW k \in ChildWrites(Len(Pending), flags.nonblock),
                 link' = (link \o h.sent) \o (IF k = -1 THEN <<>> ELSE Upto(Pending, k)),
                 IF k = Len(Pending)
                 THEN /\ w' = [w EXCEPT !.state = h.state, !.child_out = FALSE,
                                        !.out = <<>>, !.out_p = 0]
                      /\ wcall' = [op |-> "write", left |-> n, n |-> n]
                 ELSE /\ w' = [w EXCEPT !.state = h.state, !.child_out = FALSE,
                                        !.out_p = IF k = -1 THEN @ ELSE @ + k]
                      /\ UNCHANGED wcall
          PROVE \/ /\ link' = (link \o <<>>) \o Upto(Pending, Len(Pending))
                   /\ w' = [w EXCEPT !.state = w.state, !.child_out = FALSE, !.out = <<>>, !.out_p = 0]
                   /\ wcall' = [op |-> "write", left |-> n, n |-> n]
                \/ /\ link' = (link \o <<>>) \o <<>>
                   /\ w' = [w EXCEPT !.state = w.state, !.child_out = FALSE, !.out_p = @]
                   /\ UNCHANGED wcall
      <4>1. Len(Pending) \in Nat
        BY <2>2
      <4>2. k = Len(Pending) \/ k = -1
        BY <4>1, WholeWrites
      <4>3. CASE k = Len(Pending)
        <5>1. k # -1
          BY <4>1, <4>3
        <5> QED
          BY <2>3, <3>3, <4>3, <5>1
      <4>4. CASE k = -1
        <5>1. k # Len(Pending)
          BY <4>1, <4>4
        <5> QED
          BY <2>3, <3>3, <4>4, <5>1
      <4> QED
        BY <4>2, <4>3, <4>4
    <3> QED
      BY <3>1, <3>2, <3>3
  <2> HIDE DEF h
  <2>5. \E x \in Seq(Int) :
          /\ link' = link \o x
          /\ w'.held = w.held /\ w'.status = "open" /\ w'.state = w.state
          /\ (x = <<>> /\ Pending' = Pending) \/ (x = Pending /\ Pending' = <<>>)
    <3>1. \A y \in Seq(Int) : y \o <<>> = y
      OBVIOUS
    <3>2. CASE /\ link' = link
               /\ \/ w' = [w EXCEPT !.state = w.state, !.child_out = FALSE]
                  \/ w' = [w EXCEPT !.state = w.state, !.child_out = FALSE, !.out_p = @]
      <4>1. /\ w'.held = w.held /\ w'.status = "open" /\ w'.state = w.state
            /\ w'.out = w.out /\ w'.out_p = w.out_p
        BY <2>1, <2>2, <3>2 DEF WriterStates
      <4>2. Pending' = Pending
        BY <4>1 DEF Pending
      <4>3. <<>> \in Seq(Int) /\ link' = link \o <<>>
        BY <2>2, <3>1, <3>2
      <4> WITNESS <<>> \in Seq(Int)
      <4> QED
        BY <4>1, <4>2, <4>3
    <3>3. CASE /\ w' = [w EXCEPT !.state = w.state, !.child_out = FALSE, !.out = <<>>, !.out_p = 0]
               /\ link' = link \o Pending
      <4>1. /\ w'.held = w.held /\ w'.status = "open" /\ w'.state = w.state
            /\ w'.out = <<>> /\ w'.out_p = 0
        BY <2>1, <2>2, <3>3 DEF WriterStates
      <4>2. Pending' = <<>>
        BY <4>1 DEF Pending, From
      <4> QED
        BY <2>2, <3>3, <4>1, <4>2
    <3> QED
      BY <2>2, <2>4, <3>1, <3>2, <3>3, CutAll
  <2>6. PICK x \in Seq(Int) :
          /\ link' = link \o x
          /\ w'.held = w.held /\ w'.status = "open" /\ w'.state = w.state
          /\ (x = <<>> /\ Pending' = Pending) \/ (x = Pending /\ Pending' = <<>>)
    BY <2>5
  <2>7. GzipTypeOK'
    <3>1. /\ w' \in WriterStates
          /\ wcall' \in [op : {"none", "write"}, left : Nat, n : Nat]
      <4>1. wcall \in [op : {"none", "write"}, left : Nat, n : Nat]
        BY DEF GzipInv, GzipTypeOK
      <4>2. w' \in WriterStates
        <5>1. [w EXCEPT !.state = w.state, !.child_out = FALSE] \in WriterStates
          BY <2>2 DEF WriterStates
        <5>2. [w EXCEPT !.state = w.state, !.child_out = FALSE, !.out = <<>>, !.out_p = 0]
                \in WriterStates
          <6>1. <<>> \in Seq(Int) /\ 0 \in Nat
            OBVIOUS
          <6>2. \A o \in Seq(Int), p \in Nat :
                  [w EXCEPT !.state = w.state, !.child_out = FALSE, !.out = o, !.out_p = p]
                    \in WriterStates
            BY <2>2 DEF WriterStates
          <6> QED
            BY <6>1, <6>2
        <5>3. [w EXCEPT !.state = w.state, !.child_out = FALSE, !.out_p = @] \in WriterStates
          BY <2>2 DEF WriterStates
        <5> QED
          BY <2>4, <5>1, <5>2, <5>3
      <4> QED
        BY <2>4, <4>1, <4>2
    <3>2. link' \in Seq(Int)
      BY <2>2, <2>6, Joined
    <3> QED
      BY <2>1, <3>1, <3>2 DEF GzipInv, GzipTypeOK
  <2>8. WriterOK'
    <3>1. ~HeaderUnwritten'
      BY <1>2, <2>1, <2>6 DEF HeaderUnwritten
    <3>2. w'.out_p \in {0, Len(w'.out)} /\ (wcall'.op = "write" => w'.out = <<>>)
      BY <2>1, <2>2, <2>4 DEF WriterStates
    <3> QED
      BY <2>6, <3>1, <3>2 DEF WriterOK
  <2>9. ASSUME Live
        PROVE  /\ InPlace(x, PendingAt, taken)
               /\ InPlace(Pending', PendingAt + Len(x), taken)
               /\ InPlace(w'.held, PendingAt + Len(x) + Len(Pending'), taken)
               /\ PendingAt + Len(x) + Len(Pending') + Len(w'.held) = taken
    <3>1. /\ PendingAt \in Nat /\ InPlace(Pending, PendingAt, taken)
          /\ InPlace(w.held, PendingAt + Len(Pending), taken)
          /\ PendingAt + Len(Pending) + Len(w.held) = taken
      BY <1>2, <2>1, <2>9, FlowNow
    <3>2. Len(Pending) \in Nat /\ Len(w.held) \in Nat
      BY <2>2
    <3>3. PendingAt + 0 = PendingAt /\ PendingAt + Len(Pending) + 0 = PendingAt + Len(Pending)
      BY <3>1, <3>2
    <3> QED
      BY <2>6, <3>1, <3>2, <3>3, PlaceNothing
  <2>10. taken <= taken' /\ taken' = taken
    BY <2>1, <2>2
  <2> QED
    BY <1>2, <2>1, <2>6, <2>7, <2>8, <2>9, <2>10, WriterSends
<1> QED
  BY <1>1, <1>2

\* deflate takes the input and puts out what it keeps, in order.
LEMMA Deflated ==
    ASSUME NEW h \in Seq(Int), NEW in \in Seq(Int), NEW room \in Nat, NEW sync,
           NEW d \in Deflations(h, in, room, sync)
    PROVE  /\ d.used \in 0 .. Len(in)
           /\ \E m \in 0 .. Len(h) + d.used :
                 /\ d.out = Upto(h \o Upto(in, d.used), m)
                 /\ d.held = From(h \o Upto(in, d.used), m)
<1>1. PICK x \in (0 .. Len(in)) \X (0 .. room) :
        /\ x[2] <= Len(h) + x[1]
        /\ d = [held |-> From(h \o Upto(in, x[1]), x[2]), out |-> Upto(h \o Upto(in, x[1]), x[2]),
                used |-> x[1]]
  BY DEF Deflations
<1>2. d.used = x[1] /\ x[1] \in 0 .. Len(in) /\ x[2] \in 0 .. Len(h) + x[1]
  BY <1>1
<1> QED
  BY <1>1, <1>2

\* What deflate puts out and keeps are sequences.
LEMMA DeflatedTypes ==
    ASSUME NEW h \in Seq(Int), NEW in \in Seq(Int), NEW room \in Nat, NEW sync,
           NEW d \in Deflations(h, in, room, sync)
    PROVE  d.used \in 0 .. Len(in) /\ d.out \in Seq(Int) /\ d.held \in Seq(Int)
<1>1. PICK c \in 0 .. Len(in) : c = d.used
  BY Deflated
<1>2. PICK m \in 0 .. Len(h) + c :
         d.out = Upto(h \o Upto(in, c), m) /\ d.held = From(h \o Upto(in, c), m)
  BY <1>1, Deflated
<1>3. Upto(in, c) \in Seq(Int) /\ Len(Upto(in, c)) = c
  BY CutFirst
<1>4. h \o Upto(in, c) \in Seq(Int) /\ Len(h \o Upto(in, c)) = Len(h) + c
  BY <1>3, Joined
<1>5. m \in 0 .. Len(h \o Upto(in, c))
  BY <1>4
<1> QED
  BY <1>1, <1>2, <1>4, <1>5, CutFirst, CutLast

\* One deflate of the next n bytes, with what zlib keeps in place.
Deflates(h, p, t, n, room, sync, d) ==
    /\ InPlace(h, p, t) /\ p + Len(h) = t
    /\ d \in Deflations(h, Numbers(t + 1, t + n), room, sync)

\* What it gives is in place.
InParts(d, p, t, n) ==
    \E c \in 0 .. n, piece \in Seq(Int), kept \in Seq(Int) :
       /\ d.used = c /\ d.out = piece /\ d.held = kept
       /\ InPlace(piece, p, t + c) /\ InPlace(kept, p + Len(piece), t + c)
       /\ p + Len(piece) + Len(kept) = t + c

\* What deflate puts out and keeps follows what it was given, without a gap.
LEMMA DeflatedInPlace ==
    ASSUME NEW h \in Seq(Int), NEW p \in Nat, NEW t \in Nat, NEW n \in Nat, NEW room \in Nat,
           NEW sync, NEW d, Deflates(h, p, t, n, room, sync, d)
    PROVE  InParts(d, p, t, n)
<1> DEFINE in == Numbers(t + 1, t + n)
<1>1. in \in Seq(Int) /\ Len(in) = n /\ InPlace(in, t, t + n)
  BY PlaceNumbers
<1> HIDE DEF in
<1>2. d \in Deflations(h, in, room, sync) /\ InPlace(h, p, t) /\ p + Len(h) = t
  BY DEF Deflates, in
<1>3. /\ d.used \in 0 .. Len(in)
      /\ \E m \in 0 .. Len(h) + d.used :
            /\ d.out = Upto(h \o Upto(in, d.used), m)
            /\ d.held = From(h \o Upto(in, d.used), m)
  BY <1>1, <1>2, Deflated
<1>4. PICK c \in 0 .. n : c = d.used
  BY <1>1, <1>3
<1>5. PICK m \in 0 .. Len(h) + c :
            /\ d.out = Upto(h \o Upto(in, c), m)
            /\ d.held = From(h \o Upto(in, c), m)
  BY <1>3, <1>4
<1>6. /\ Upto(in, c) \in Seq(Int) /\ Len(Upto(in, c)) = c /\ InPlace(Upto(in, c), t, t + c)
  <2>1. /\ Upto(in, c) \in Seq(Int) /\ Len(Upto(in, c)) = c /\ InPlace(Upto(in, c), t, t + n)
    BY <1>1, CutFirst, PlaceCut
  <2>2. t + c \in Nat /\ t + n \in Nat /\ t + c <= t + n
    OBVIOUS
  <2>3. t + Len(Upto(in, c)) <= t + n /\ t + Len(Upto(in, c)) <= t + c
    BY <2>1
  <2> QED
    BY <2>1, <2>2, <2>3, PlaceGrows
<1>7. InPlace(h, p, t + c)
  <2>1. t + c \in Nat /\ t <= t + c
    OBVIOUS
  <2>2. p + Len(h) <= t /\ p + Len(h) <= t + c
    BY <1>2, <2>1
  <2> QED
    BY <1>2, <2>1, <2>2, PlaceGrows
<1> DEFINE all == h \o Upto(in, c)
<1>8. all \in Seq(Int) /\ Len(all) = Len(h) + c /\ InPlace(all, p, t + c)
  <2>1. InPlace(Upto(in, c), p + Len(h), t + c)
    BY <1>6, <1>2
  <2>2. t + c \in Nat
    OBVIOUS
  <2>3. InPlace(all, p, t + c)
    BY <1>6, <1>7, <2>1, <2>2, PlaceJoined
  <2> QED
    BY <1>6, <2>3, Joined
<1>9. d.out = Upto(all, m) /\ d.held = From(all, m) /\ m \in 0 .. Len(all)
  BY <1>5, <1>8
<1> HIDE DEF all
<1>10. /\ d.out \in Seq(Int) /\ Len(d.out) = m /\ d.held \in Seq(Int) /\ Len(d.held) = Len(all) - m
  BY <1>8, <1>9, CutFirst, CutLast
<1>11. InPlace(d.out, p, t + c) /\ InPlace(d.held, p + m, t + c)
  <2>1. t + c \in Nat
    OBVIOUS
  <2> QED
    BY <1>8, <1>9, <2>1, PlaceCut
<1>12. p + Len(d.out) + Len(d.held) = t + c
  <2>1. Len(h) \in Nat /\ Len(d.held) = (Len(h) + c) - m /\ Len(d.out) = m
    BY <1>8, <1>10
  <2> QED
    BY <1>2, <2>1
<1> QED
  BY <1>4, <1>10, <1>11, <1>12 DEF InParts

\* A round of the loop of z_stream_gzip_write_method.
LEMMA WriteLoopInv ==
    ASSUME GzipInv, ~ShortWrites, WriteLoop
    PROVE  GzipInv'
<1>1. /\ w.status = "open" /\ w.out = <<>> /\ w.out_p = 0 /\ ~HeaderUnwritten
      /\ wcall.op = "write" /\ wcall.left \in Nat
      /\ UNCHANGED <<flags, hung, r, got, rloop>>
  BY GzipParts DEF WriteLoop, GzipInv, WriterOK, readervars
<1>2. /\ w \in WriterStates /\ link \in Seq(Int) /\ taken \in Nat /\ w.held \in Seq(Int)
      /\ wcall \in [op : {"none", "write"}, left : Nat, n : Nat]
  BY GzipParts DEF GzipInv, GzipTypeOK
<1>3. Pending = <<>>
  BY <1>1 DEF Pending, From
<1> DEFINE room == buffer_length - Len(w.out)
<1>4. PICK d \in Deflations(w.held, Numbers(taken + 1, taken + wcall.left), room, flags.sync) :
         /\ taken' = taken + d.used
         /\ \E k \in ChildWrites(Len(w.out \o d.out), flags.nonblock) :
               /\ link' = link \o (IF k = -1 THEN <<>> ELSE Upto(w.out \o d.out, k))
               /\ LET rest == IF k = -1 THEN [out |-> w.out \o d.out, out_p |-> w.out_p]
                              ELSE Rest(w.out \o d.out, w.out_p, k) IN
                  w' = [w EXCEPT !.held = d.held, !.out = rest.out, !.out_p = rest.out_p]
               /\ wcall' = IF wcall.left - d.used = 0 \/ k = -1 THEN NoWrite
                           ELSE [wcall EXCEPT !.left = wcall.left - d.used]
  BY DEF WriteLoop
<1>5. /\ d \in Deflations(w.held, Numbers(taken + 1, taken + wcall.left), room, flags.sync)
       /\ taken' = taken + d.used
  BY <1>4
<1>6. room \in Nat
  BY <1>1, GzipAssumption
<1> HIDE DEF room
<1>7. /\ d.used \in 0 .. wcall.left
      /\ d.out \in Seq(Int) /\ d.held \in Seq(Int)
  <2>1. Numbers(taken + 1, taken + wcall.left) \in Seq(Int)
        /\ Len(Numbers(taken + 1, taken + wcall.left)) = wcall.left
    BY <1>1, <1>2, PlaceNumbers
  <2> QED
    BY <1>2, <1>6, <2>1, DeflatedTypes
<1>8. w.out \o d.out = d.out
  BY <1>1, <1>7
<1>9. PICK o \in Seq(Int), x \in Seq(Int) :
        /\ link' = link \o x
        /\ w' = [w EXCEPT !.held = d.held, !.out = o, !.out_p = 0]
        /\ \/ x = d.out /\ o = <<>>
              /\ (wcall' = NoWrite \/ wcall' = [wcall EXCEPT !.left = wcall.left - d.used])
           \/ x = <<>> /\ o = d.out /\ wcall' = NoWrite
  <2>1. PICK k \in ChildWrites(Len(d.out), flags.nonblock) :
           /\ link' = link \o (IF k = -1 THEN <<>> ELSE Upto(d.out, k))
           /\ LET rest == IF k = -1 THEN [out |-> d.out, out_p |-> w.out_p]
                          ELSE Rest(d.out, w.out_p, k) IN
              w' = [w EXCEPT !.held = d.held, !.out = rest.out, !.out_p = rest.out_p]
           /\ wcall' = IF wcall.left - d.used = 0 \/ k = -1 THEN NoWrite
                       ELSE [wcall EXCEPT !.left = wcall.left - d.used]
    BY <1>4, <1>8
  <2>2. Len(d.out) \in Nat
    BY <1>7
  <2>3. k = Len(d.out) \/ k = -1
    BY <2>2, WholeWrites
  <2>4. <<>> \in Seq(Int)
    OBVIOUS
  <2>5. CASE k = -1
    <3>1. /\ link' = link \o <<>>
          /\ w' = [w EXCEPT !.held = d.held, !.out = d.out, !.out_p = 0]
          /\ wcall' = NoWrite
      BY <1>1, <2>1, <2>5
    <3> QED
      BY <1>7, <2>4, <3>1
  <2>6. CASE k = Len(d.out)
    <3>1. k # -1
      BY <2>2, <2>6
    <3>2. Rest(d.out, w.out_p, k) = [out |-> <<>>, out_p |-> 0]
      BY <1>1, <2>2, <2>6 DEF Rest
    <3>3. Upto(d.out, k) = d.out
      BY <1>7, <2>6, CutAll
    <3>4. /\ link' = link \o d.out
          /\ w' = [w EXCEPT !.held = d.held, !.out = <<>>, !.out_p = 0]
          /\ wcall' = NoWrite \/ wcall' = [wcall EXCEPT !.left = wcall.left - d.used]
      BY <2>1, <3>1, <3>2, <3>3
    <3> QED
      BY <1>7, <2>4, <3>4
  <2> QED
    BY <2>3, <2>5, <2>6
<1>10. /\ w'.held = d.held /\ w'.out = o /\ w'.out_p = 0 /\ w'.status = "open"
       /\ w'.state = w.state
  BY <1>1, <1>2, <1>9 DEF WriterStates
<1>11. Pending' = o
  <2>1. Pending' = From(o, 0)
    BY <1>10 DEF Pending
  <2> QED
    BY <1>9, <2>1, CutAll
<1>12. taken' \in Nat /\ taken <= taken' /\ taken' = taken + d.used
  BY <1>2, <1>7, <1>5
<1>13. GzipTypeOK'
  <2>1. w' \in WriterStates
    BY <1>2, <1>7, <1>9 DEF WriterStates
  <2>2. wcall' \in [op : {"none", "write"}, left : Nat, n : Nat]
    <3>1. NoWrite \in [op : {"none", "write"}, left : Nat, n : Nat]
      BY DEF NoWrite
    <3>2. wcall.left - d.used \in Nat
      BY <1>1, <1>7
    <3>3. [wcall EXCEPT !.left = wcall.left - d.used]
             \in [op : {"none", "write"}, left : Nat, n : Nat]
      BY <1>2, <3>2
    <3> QED
      BY <1>9, <3>1, <3>3
  <2>3. link' \in Seq(Int)
    BY <1>2, <1>9, Joined
  <2> QED
    BY <1>1, <1>12, <2>1, <2>2, <2>3 DEF GzipInv, GzipTypeOK
<1>14. WriterOK'
  <2>1. ~HeaderUnwritten'
    BY <1>1, <1>10 DEF HeaderUnwritten
  <2>2. wcall'.op = "write" => o = <<>>
    BY <1>9 DEF NoWrite
  <2> QED
    BY <1>10, <2>1, <2>2 DEF WriterOK
<1>15. ASSUME Live
       PROVE  /\ InPlace(x, PendingAt, taken')
              /\ InPlace(Pending', PendingAt + Len(x), taken')
              /\ InPlace(w'.held, PendingAt + Len(x) + Len(Pending'), taken')
              /\ PendingAt + Len(x) + Len(Pending') + Len(w'.held) = taken'
  <2>1. /\ PendingAt \in Nat /\ InPlace(w.held, PendingAt, taken)
        /\ PendingAt + Len(w.held) = taken
    <3>1. /\ PendingAt \in Nat
          /\ InPlace(w.held, PendingAt + Len(Pending), taken)
          /\ PendingAt + Len(Pending) + Len(w.held) = taken
      BY <1>1, <1>15, FlowNow
    <3>2. PendingAt + Len(Pending) = PendingAt
      BY <1>3, <3>1
    <3> QED
      BY <3>1, <3>2
  <2>2. /\ InPlace(d.out, PendingAt, taken')
        /\ InPlace(d.held, PendingAt + Len(d.out), taken')
        /\ PendingAt + Len(d.out) + Len(d.held) = taken'
    <3>1. /\ InPlace(d.out, PendingAt, taken + d.used)
          /\ InPlace(d.held, PendingAt + Len(d.out), taken + d.used)
          /\ PendingAt + Len(d.out) + Len(d.held) = taken + d.used
      <4>1. /\ w.held \in Seq(Int) /\ PendingAt \in Nat /\ taken \in Nat /\ wcall.left \in Nat
            /\ room \in Nat
        BY <1>1, <1>2, <1>6, <2>1
      <4>2. Deflates(w.held, PendingAt, taken, wcall.left, room, flags.sync, d)
        BY <1>5, <2>1 DEF Deflates
      <4> QED
        <5>1. InParts(d, PendingAt, taken, wcall.left)
          BY <4>1, <4>2, DeflatedInPlace
        <5> QED
          BY <5>1 DEF InParts
    <3> QED
      BY <1>12, <3>1
  <2>3. /\ Len(<<>>) = 0 /\ PendingAt + 0 = PendingAt
        /\ PendingAt + Len(d.out) + 0 = PendingAt + Len(d.out)
    BY <1>7, <2>1
  <2> QED
    BY <1>9, <1>10, <1>11, <2>2, <2>3, PlaceNothing
<1> QED
  BY <1>1, <1>9, <1>10, <1>12, <1>13, <1>14, <1>15, WriterSends

\* z_stream_gzip_write_callback sends what is pending, or calls the application.
LEMMA WriteCallbackInv ==
    ASSUME GzipInv, ~ShortWrites, z_stream_gzip_write_callback
    PROVE  GzipInv'
<1>1. /\ w.status = "open" /\ w.out # <<>> /\ wcall.op = "none"
      /\ UNCHANGED <<flags, wcall, taken, hung, r, got, rloop>>
  BY DEF z_stream_gzip_write_callback, readervars
<1>2. /\ w \in WriterStates /\ link \in Seq(Int) /\ Pending \in Seq(Int) /\ w.out \in Seq(Int)
      /\ taken \in Nat /\ w.held \in Seq(Int) /\ w.out_p \in 0 .. Len(w.out)
  BY GzipParts DEF GzipInv, GzipTypeOK
<1>3. ~HeaderUnwritten
  BY <1>1 DEF GzipInv, WriterOK
<1>4. Len(Pending) = Len(w.out) - w.out_p
  BY <1>2, CutLast DEF Pending
<1>5. /\ link' = link \o Pending
      /\ w' = [w EXCEPT !.out_p = w.out_p + Len(Pending), !.child_out = TRUE]
  <2>1. PICK k \in ChildWrites(Len(Pending), flags.nonblock) \ {-1} :
          /\ link' = link \o Upto(Pending, k)
          /\ w' = [w EXCEPT !.out_p = @ + k, !.child_out = (k = Len(Pending))]
    BY DEF z_stream_gzip_write_callback, Pending
  <2>2. Len(Pending) \in Nat
    BY <1>2
  <2>3. k = Len(Pending)
    BY <2>1, <2>2, WholeWrites
  <2>4. Upto(Pending, k) = Pending
    BY <1>2, <2>3, CutAll
  <2> QED
    BY <2>1, <2>3, <2>4
<1>6. w.out_p + Len(Pending) = Len(w.out) /\ Len(w.out) \in Nat
  BY <1>2, <1>4
<1>7. w' = [w EXCEPT !.out_p = Len(w.out), !.child_out = TRUE]
  BY <1>5, <1>6
<1>8. /\ w'.held = w.held /\ w'.out = w.out /\ w'.out_p = Len(w.out) /\ w'.status = "open"
      /\ w'.state = w.state
  BY <1>1, <1>2, <1>7 DEF WriterStates
<1>9. Pending' = <<>>
  <2>1. Pending' = From(w.out, Len(w.out))
    BY <1>8 DEF Pending
  <2> QED
    BY <1>2, <2>1, CutAll
<1>10. GzipTypeOK'
  <2>1. w' \in WriterStates
    BY <1>2, <1>6, <1>7 DEF WriterStates
  <2>2. link' \in Seq(Int)
    BY <1>2, <1>5, Joined
  <2> QED
    BY <1>1, <2>1, <2>2 DEF GzipInv, GzipTypeOK
<1>11. WriterOK'
  <2>1. ~HeaderUnwritten'
    BY <1>1, <1>3, <1>8 DEF HeaderUnwritten
  <2> QED
    BY <1>1, <1>8, <2>1 DEF WriterOK
<1>12. ASSUME Live
       PROVE  /\ InPlace(Pending, PendingAt, taken)
              /\ InPlace(Pending', PendingAt + Len(Pending), taken)
              /\ InPlace(w'.held, PendingAt + Len(Pending) + Len(Pending'), taken)
              /\ PendingAt + Len(Pending) + Len(Pending') + Len(w'.held) = taken
  <2>1. /\ PendingAt \in Nat /\ InPlace(Pending, PendingAt, taken)
        /\ InPlace(w.held, PendingAt + Len(Pending), taken)
        /\ PendingAt + Len(Pending) + Len(w.held) = taken
    BY <1>1, <1>3, <1>12, FlowNow
  <2>2. Len(Pending) \in Nat /\ Len(w.held) \in Nat
    BY <1>2
  <2>3. Len(Pending') = 0 /\ PendingAt + Len(Pending) + 0 = PendingAt + Len(Pending)
    BY <1>9, <2>1, <2>2
  <2> QED
    BY <1>8, <1>9, <2>1, <2>3, PlaceNothing
<1>13. taken <= taken' /\ taken' = taken
  BY <1>1, <1>2
<1> QED
  BY <1>1, <1>2, <1>3, <1>5, <1>8, <1>10, <1>11, <1>12, <1>13, WriterSends

\* A writer that never sent its header has accepted nothing.
LEMMA NothingSent ==
    ASSUME GzipInv, GzipTypeOK', WriterOK', w.status = "open",
           UNCHANGED <<flags, taken, r, got, rloop>>,
           HeaderUnwritten, HeaderUnwritten'
    PROVE  GzipInv'
<1>1. (Live' <=> Live) /\ (HeaderUnread' <=> HeaderUnread)
  BY DEF Live, HeaderUnread
<1>2. flags.header
  BY DEF HeaderUnwritten
<1>3. HeaderFirst'
  BY <1>1 DEF GzipInv, HeaderFirst
<1>4. GivenOK'
  BY DEF GzipInv, GivenOK
<1>5. Live' => HeaderUnread'
  BY <1>1, <1>2 DEF GzipInv, HeaderFirst
<1> QED
  BY <1>3, <1>4, <1>5 DEF GzipInv

\* The child fails: the writer gives up.
LEMMA WriteErrorInv ==
    ASSUME GzipInv, WriteError
    PROVE  GzipInv'
<1>1. /\ w.status = "open" /\ wcall' = NoWrite /\ hung' = TRUE /\ link' = link
      /\ w' = [w EXCEPT !.state = w.state \cup {"WRITE_ERROR"}, !.status = "failed",
                        !.shutdown = TRUE]
      /\ UNCHANGED <<flags, taken, r, got, rloop>>
  BY DEF WriteError, readervars
<1>2. /\ w \in WriterStates /\ link \in Seq(Int) /\ Pending \in Seq(Int) /\ taken \in Nat
      /\ w.held \in Seq(Int)
  BY GzipParts DEF GzipInv, GzipTypeOK
<1>3. /\ w'.held = w.held /\ w'.out = w.out /\ w'.out_p = w.out_p /\ w'.status = "failed"
      /\ w'.state = w.state \cup {"WRITE_ERROR"}
  BY <1>1, <1>2 DEF WriterStates
<1>4. HeaderUnwritten' <=> HeaderUnwritten
  BY <1>1, <1>3 DEF HeaderUnwritten
<1>5. GzipTypeOK'
  <2>1. w.state \cup {"WRITE_ERROR"} \in SUBSET {"HEADER_WRITTEN", "WRITE_ERROR"}
    BY <1>2 DEF WriterStates
  <2>2. w' \in WriterStates
    BY <1>1, <1>2, <2>1 DEF WriterStates
  <2>3. wcall' \in [op : {"none", "write"}, left : Nat, n : Nat]
    BY <1>1 DEF NoWrite
  <2> QED
    BY <1>1, <2>2, <2>3 DEF GzipInv, GzipTypeOK
<1>6. WriterOK'
  <2>1. wcall'.op # "write"
    BY <1>1 DEF NoWrite
  <2> QED
    BY <1>1, <1>3, <1>4, <2>1 DEF GzipInv, WriterOK
<1>7. CASE HeaderUnwritten
  BY <1>1, <1>4, <1>5, <1>6, <1>7, NothingSent
<1>8. CASE ~HeaderUnwritten
  <2>1. Pending' = Pending
    BY <1>3 DEF Pending
  <2>2. <<>> \in Seq(Int) /\ link' = link \o <<>>
    BY <1>1, <1>2
  <2>3. ASSUME Live
        PROVE  /\ InPlace(<<>>, PendingAt, taken)
               /\ InPlace(Pending', PendingAt + Len(<<>>), taken)
               /\ InPlace(w'.held, PendingAt + Len(<<>>) + Len(Pending'), taken)
               /\ PendingAt + Len(<<>>) + Len(Pending') + Len(w'.held) = taken
    <3>1. /\ PendingAt \in Nat /\ InPlace(Pending, PendingAt, taken)
          /\ InPlace(w.held, PendingAt + Len(Pending), taken)
          /\ PendingAt + Len(Pending) + Len(w.held) = taken
      BY <1>1, <1>8, <2>3, FlowNow
    <3>2. Len(<<>>) = 0 /\ PendingAt + 0 = PendingAt
      BY <3>1
    <3> QED
      BY <1>3, <2>1, <3>1, <3>2, PlaceNothing
  <2>4. taken <= taken' /\ taken' = taken /\ w.state \subseteq w'.state
    BY <1>1, <1>2, <1>3
  <2> QED
    BY <1>1, <1>5, <1>6, <1>8, <2>2, <2>3, <2>4, WriterSends
<1> QED
  BY <1>7, <1>8

\* What a shutdown sends after what was kept: the end follows the last byte.
LEMMA EndInPlace ==
    ASSUME NEW h \in Seq(Int), NEW p \in Nat, NEW t \in Nat, InPlace(h, p, t), p + Len(h) = t,
           NEW n \in 0 .. Len(h) + 1, NEW z \in Seq(Int), z = <<>> \/ n = Len(h) + 1
    PROVE  /\ Append(h, END) \in Seq(Int) /\ Len(Append(h, END)) = Len(h) + 1
           /\ Upto(Append(h, END), n) \in Seq(Int)
           /\ InPlace(Upto(Append(h, END), n) \o z, p, t)
<1>1. END \in Int /\ Len(h) \in Nat
  BY DEF END
<1>2. Append(h, END) \in Seq(Int) /\ Len(Append(h, END)) = Len(h) + 1
      /\ \A i \in 1 .. Len(h) : Append(h, END)[i] = h[i]
      /\ Append(h, END)[Len(h) + 1] = END
  BY <1>1
<1>3. InPlace(Append(h, END), p, t)
  <2> SUFFICES ASSUME NEW i \in 1 .. Len(h) + 1
               PROVE  /\ p + i <= t => Append(h, END)[i] = p + i
                      /\ p + i = t + 1 => Append(h, END)[i] = END
    BY <1>2 DEF InPlace
  <2>1. CASE i = Len(h) + 1
    BY <1>1, <1>2, <2>1
  <2>2. CASE i # Len(h) + 1
    <3>1. i \in 1 .. Len(h)
      BY <1>1, <2>2
    <3> QED
      BY <1>2, <3>1 DEF InPlace
  <2> QED
    BY <2>1, <2>2
<1>4. /\ Upto(Append(h, END), n) \in Seq(Int) /\ Len(Upto(Append(h, END), n)) = n
      /\ InPlace(Upto(Append(h, END), n), p, t)
  <2>1. n \in 0 .. Len(Append(h, END))
    BY <1>2
  <2> QED
    BY <1>2, <1>3, <2>1, CutFirst, PlaceCut
<1>5. InPlace(z, p + n, t)
  <2>1. CASE z = <<>>
    BY <2>1, PlaceNothing
  <2>2. CASE n = Len(h) + 1
    <3>1. \A i \in 1 .. Len(z) : ~(p + n + i <= t) /\ p + n + i # t + 1
      BY <1>1, <2>2
    <3> QED
      BY <3>1 DEF InPlace
  <2> QED
    BY <2>1, <2>2
<1>6. InPlace(Upto(Append(h, END), n) \o z, p, t)
  <2>1. InPlace(z, p + Len(Upto(Append(h, END), n)), t)
    BY <1>4, <1>5
  <2> QED
    BY <1>4, <2>1, PlaceJoined
<1> QED
  BY <1>2, <1>4, <1>6

\* z_stream_gzip_shutdown_method: the trailer follows the last byte.
LEMMA ShutdownInv ==
    ASSUME GzipInv, NEW how, z_stream_gzip_shutdown_method(how)
    PROVE  GzipInv'
<1> DEFINE last == Append(w.held, END)
           n == AtMost(Len(last), buffer_length)
           header == IF flags.empty THEN z_stream_gzip_write_gzip_header(w.state)
                     ELSE [sent |-> <<>>, state |-> w.state]
           trailer == IF how = "RDWR" THEN z_stream_gzip_write_gzip_trailer(header.state) ELSE <<>>
<1>1. /\ w.status = "open" /\ wcall.op = "none" /\ hung' = TRUE
      /\ w' = [w EXCEPT !.held = <<>>, !.out = <<>>, !.out_p = 0, !.shutdown = TRUE,
                        !.status = "closed"]
      /\ link' = ((link \o Pending) \o Upto(last, n))
                   \o (IF Len(last) <= buffer_length THEN header.sent \o trailer ELSE <<>>)
      /\ UNCHANGED <<flags, wcall, taken, r, got, rloop>>
  BY DEF z_stream_gzip_shutdown_method, readervars, Pending
<1>2. /\ w \in WriterStates /\ link \in Seq(Int) /\ Pending \in Seq(Int) /\ taken \in Nat
      /\ w.held \in Seq(Int)
  BY GzipParts DEF GzipInv, GzipTypeOK
<1>3. /\ w'.held = <<>> /\ w'.out = <<>> /\ w'.out_p = 0 /\ w'.status = "closed"
      /\ w'.state = w.state
  BY <1>1, <1>2 DEF WriterStates
<1>4. /\ last \in Seq(Int) /\ Len(last) = Len(w.held) + 1
      /\ n \in 0 .. Len(w.held) + 1 /\ n # 0
      /\ Len(last) <= buffer_length => n = Len(w.held) + 1
  <2>1. END \in Int
    BY DEF END
  <2>2. last \in Seq(Int) /\ Len(last) = Len(w.held) + 1 /\ Len(w.held) \in Nat
    BY <1>2, <2>1
  <2> HIDE DEF last
  <2> QED
    BY <2>2, GzipAssumption DEF AtMost
<1>5. header.sent \in {<<>>, <<HDR>>} /\ trailer \in {<<>>, <<TRL>>}
  BY DEF z_stream_gzip_write_gzip_header, z_stream_gzip_write_gzip_trailer
<1>6. PICK z \in Seq(Int) : /\ z = <<>> \/ n = Len(w.held) + 1
                            /\ link' = ((link \o Pending) \o Upto(last, n)) \o z
  <2>1. <<>> \in Seq(Int) /\ <<HDR>> \in Seq(Int) /\ <<TRL>> \in Seq(Int)
    BY DEF HDR, TRL
  <2>2. header.sent \o trailer \in Seq(Int)
    <3>1. header.sent \in Seq(Int) /\ trailer \in Seq(Int)
      BY <1>5, <2>1
    <3> HIDE DEF header, trailer
    <3> QED
      BY <3>1, Joined
  <2> HIDE DEF header, trailer, last, n
  <2> QED
    BY <1>1, <1>4, <2>1, <2>2
<1> HIDE DEF header, trailer, n
<1>7. Upto(last, n) \in Seq(Int)
  <2>1. n \in 0 .. Len(last)
    BY <1>4
  <2> QED
    BY <1>4, <2>1, CutFirst
<1> DEFINE x == Pending \o (Upto(last, n) \o z)
<1>8. x \in Seq(Int) /\ link' = link \o x /\ Upto(last, n) \o z \in Seq(Int)
  <2>1. Upto(last, n) \o z \in Seq(Int)
    BY <1>6, <1>7, Joined
  <2>2. x \in Seq(Int)
    BY <1>2, <2>1, Joined
  <2>3. link \o Pending \in Seq(Int)
    BY <1>2, Joined
  <2>4. link' = (link \o Pending) \o (Upto(last, n) \o z)
    BY <1>6, <1>7, <2>3, Grouped
  <2>5. link' = link \o x
    BY <1>2, <2>1, <2>4, Grouped
  <2> QED
    BY <2>1, <2>2, <2>5
<1>9. GzipTypeOK'
  <2>1. w' \in WriterStates
    <3>1. <<>> \in Seq(Int) /\ 0 \in Nat
      OBVIOUS
    <3>2. \A a \in Seq(Int), b \in Seq(Int), c \in Nat :
            [w EXCEPT !.held = a, !.out = b, !.out_p = c, !.shutdown = TRUE,
                      !.status = "closed"] \in WriterStates
      BY <1>2 DEF WriterStates
    <3> QED
      BY <1>1, <3>1, <3>2
  <2>2. link' \in Seq(Int)
    BY <1>2, <1>8, Joined
  <2> QED
    BY <1>1, <2>1, <2>2 DEF GzipInv, GzipTypeOK
<1>10. HeaderUnwritten' <=> HeaderUnwritten
  BY <1>1, <1>3 DEF HeaderUnwritten
<1>11. HeaderUnwritten => Head(link') # HDR
  <2> SUFFICES ASSUME HeaderUnwritten PROVE Head(link') # HDR
    OBVIOUS
  <2>1. w.out = <<>> /\ w.held = <<>> /\ link = <<>>
    BY <1>1 DEF GzipInv, WriterOK
  <2>2. Pending = <<>>
    BY <2>1 DEF Pending, From
  <2>3. last = <<END>> /\ n = 1
    <3>1. Len(w.held) = 0
      BY <2>1
    <3>2. n = 1
      BY <1>4, <3>1
    <3> QED
      BY <2>1, <3>2
  <2>4. Upto(last, n) = <<END>>
    <3>1. <<END>> \in Seq(Int) /\ Len(<<END>>) = 1
      BY DEF END
    <3> QED
      <4>1. Upto(<<END>>, Len(<<END>>)) = <<END>>
        BY <3>1, CutAll
      <4>2. Upto(<<END>>, 1) = <<END>>
        BY <3>1, <4>1
      <4>3. last = <<END>>
        BY <2>3
      <4>4. n = 1
        BY <2>3
      <4> HIDE DEF last
      <4> QED
        BY <4>2, <4>3, <4>4
  <2>5. link' = <<END>> \o z
    <3>1. (<<>> \o <<>>) \o <<END>> = <<END>>
      BY DEF END
    <3>2. link' = ((<<>> \o <<>>) \o <<END>>) \o z
      BY Zenon, <1>6, <2>1, <2>2, <2>4
    <3> QED
      BY <3>1, <3>2
  <2>6. Head(link') = END
    BY <1>6, <2>5 DEF END
  <2> QED
    BY <2>6 DEF END, HDR
<1>12. WriterOK'
  <2>1. HeaderUnwritten => taken = 0
    BY DEF GzipInv, WriterOK
  <2> QED
    BY <1>1, <1>3, <1>10, <1>11, <2>1 DEF WriterOK
<1>13. CASE HeaderUnwritten
  BY <1>1, <1>9, <1>10, <1>12, <1>13, NothingSent
<1>14. CASE ~HeaderUnwritten
  <2>1. ASSUME Live PROVE InPlace(x, PendingAt, taken)
    <3>1. /\ PendingAt \in Nat /\ InPlace(Pending, PendingAt, taken)
          /\ InPlace(w.held, PendingAt + Len(Pending), taken)
          /\ PendingAt + Len(Pending) + Len(w.held) = taken
      BY <1>1, <1>14, <2>1, FlowNow
    <3>2. PICK p \in Nat : p = PendingAt + Len(Pending)
      BY <1>2, <3>1
    <3>3. InPlace(w.held, p, taken) /\ p + Len(w.held) = taken
      BY <3>1, <3>2
    <3>4. InPlace(Upto(last, n) \o z, p, taken)
      BY <1>2, <1>4, <1>6, <3>3, EndInPlace
    <3> QED
      BY <1>2, <1>8, <3>1, <3>2, <3>4, PlaceJoined
  <2>2. taken <= taken' /\ taken' = taken /\ w.state \subseteq w'.state
    BY <1>1, <1>2, <1>3
  <2> HIDE DEF x
  <2> QED
    BY <1>1, <1>3, <1>8, <1>9, <1>12, <1>14, <2>1, <2>2, WriterSends
<1> QED
  BY <1>13, <1>14

\* One inflate, with what zlib keeps and its input in place.
Inflates(h, in, p, t, count, d) ==
    /\ InPlace(h, p, t) /\ p + Len(h) <= t
    /\ InPlace(in, p + Len(h), t)
    /\ d \in Inflations(h, in, count)

\* What it gives and what it leaves are in place, and it stops at the end.
Inflating(h, in, p, t, d) ==
    \E c \in 0 .. Len(in), piece \in Seq(Int), kept \in Seq(Int), rest \in Seq(Int) :
       /\ d.out = piece /\ d.held = kept /\ d.in = rest
       /\ Len(rest) = Len(in) - c
       /\ InPlace(piece, p, t) /\ InPlace(kept, p + Len(piece), t)
       /\ InPlace(rest, p + Len(h) + c, t)
       /\ Len(piece) + Len(kept) = Len(h) + c
       /\ p + Len(h) + c <= t

\* What inflate puts out and keeps is what it was given, without a gap.
LEMMA InflatedInPlace ==
    ASSUME NEW h \in Seq(Int), NEW in \in Seq(Int), NEW p \in Nat, NEW t \in Nat,
           NEW count \in Nat, NEW d, Inflates(h, in, p, t, count, d)
    PROVE  Inflating(h, in, p, t, d)
<1>1. /\ InPlace(h, p, t) /\ p + Len(h) <= t /\ InPlace(in, p + Len(h), t)
      /\ d \in Inflations(h, in, count)
  BY DEF Inflates
<1>2. PICK c \in 0 .. Len(in) :
        /\ END \notin ToSet(Upto(in, c))
        /\ d = [held |-> From(h \o Upto(in, c), AtMost(count, Len(h \o Upto(in, c)))),
                out |-> Upto(h \o Upto(in, c), AtMost(count, Len(h \o Upto(in, c)))),
                in |-> From(in, c)]
  BY <1>1 DEF Inflations
<1> DEFINE all == h \o Upto(in, c)
           n == AtMost(count, Len(all))
<1>3. d.held = From(all, n) /\ d.out = Upto(all, n) /\ d.in = From(in, c)
  BY <1>2
<1>4. /\ Upto(in, c) \in Seq(Int) /\ Len(Upto(in, c)) = c
      /\ \A k \in 1 .. c : Upto(in, c)[k] = in[k]
  BY CutFirst
<1>5. PICK q \in Nat : q = p + Len(h)
  OBVIOUS
<1>6. q + c <= t
  <2> SUFFICES ASSUME ~(q + c <= t) PROVE FALSE
    OBVIOUS
  <2>1. PICK i \in 1 .. c : q + i = t + 1
    <3>1. q <= t
      BY <1>1, <1>5
    <3>2. (t + 1) - q \in 1 .. c /\ q + ((t + 1) - q) = t + 1
      BY <3>1
    <3> QED
      BY <3>2
  <2>2. in[i] = END
    <3>1. InPlace(in, q, t)
      BY <1>1, <1>5
    <3>2. i \in 1 .. Len(in)
      BY <2>1
    <3> QED
      BY <2>1, <3>1, <3>2 DEF InPlace
  <2>3. END \in ToSet(Upto(in, c))
    <3>1. i \in DOMAIN Upto(in, c) /\ Upto(in, c)[i] = END
      BY <1>4, <2>2
    <3> QED
      BY <3>1 DEF ToSet
  <2> QED
    BY <1>2, <2>3
<1>7. InPlace(Upto(in, c), q, t) /\ InPlace(From(in, c), q + c, t)
  <2>1. InPlace(in, q, t)
    BY <1>1, <1>5
  <2> QED
    BY <2>1, PlaceCut
<1>8. all \in Seq(Int) /\ Len(all) = Len(h) + c /\ InPlace(all, p, t)
  <2>1. InPlace(Upto(in, c), p + Len(h), t)
    BY <1>5, <1>7
  <2>2. InPlace(all, p, t)
    BY <1>1, <1>4, <2>1, PlaceJoined
  <2> QED
    BY <1>4, <2>2, Joined
<1> HIDE DEF all
<1>9. n \in 0 .. Len(all)
  BY <1>8 DEF AtMost
<1> HIDE DEF n
<1>10. /\ Upto(all, n) \in Seq(Int) /\ Len(Upto(all, n)) = n
       /\ From(all, n) \in Seq(Int) /\ Len(From(all, n)) = Len(all) - n
       /\ InPlace(Upto(all, n), p, t) /\ InPlace(From(all, n), p + n, t)
  BY <1>8, <1>9, CutFirst, CutLast, PlaceCut
<1>11. From(in, c) \in Seq(Int) /\ Len(From(in, c)) = Len(in) - c
  BY CutLast
<1> DEFINE piece == Upto(all, n)
           kept == From(all, n)
           rest == From(in, c)
<1>12. /\ d.out = piece /\ d.held = kept /\ d.in = rest
       /\ Len(rest) = Len(in) - c
       /\ InPlace(piece, p, t) /\ InPlace(kept, p + Len(piece), t)
       /\ InPlace(rest, p + Len(h) + c, t)
  BY <1>3, <1>5, <1>7, <1>10, <1>11
<1>13. Len(piece) + Len(kept) = Len(h) + c /\ p + Len(h) + c <= t
  BY <1>5, <1>6, <1>8, <1>9, <1>10
<1>14. piece \in Seq(Int) /\ kept \in Seq(Int) /\ rest \in Seq(Int)
  BY <1>10, <1>11
<1> HIDE DEF piece, kept, rest
<1> QED
  BY <1>12, <1>13, <1>14 DEF Inflating

\* The reader is given the next bytes.
LEMMA GivenMore ==
    ASSUME NEW g \in Seq(Int), NEW piece \in Seq(Int), NEW t \in Nat,
           \A i \in 1 .. Len(g) : g[i] = i,
           InPlace(piece, Len(g), t), Len(g) + Len(piece) <= t
    PROVE  /\ g \o piece \in Seq(Int) /\ Len(g \o piece) = Len(g) + Len(piece)
           /\ \A i \in 1 .. Len(g \o piece) : (g \o piece)[i] = i
<1>1. g \o piece \in Seq(Int) /\ Len(g \o piece) = Len(g) + Len(piece)
  BY Joined
<1>2. ASSUME NEW i \in 1 .. Len(g) + Len(piece) PROVE (g \o piece)[i] = i
  <2>1. CASE i \in 1 .. Len(g)
    BY <2>1, Joined
  <2>2. CASE i \notin 1 .. Len(g)
    <3>1. PICK k \in 1 .. Len(piece) : i = Len(g) + k
      <4>1. i - Len(g) \in 1 .. Len(piece) /\ i = Len(g) + (i - Len(g))
        BY <2>2
      <4> QED
        BY <4>1
    <3>2. (g \o piece)[i] = piece[k]
      BY <3>1, Joined
    <3>3. Len(g) + k <= t
      BY <3>1
    <3>4. piece[k] = Len(g) + k
      BY <3>3 DEF InPlace
    <3> QED
      BY <3>1, <3>2, <3>4
  <2> QED
    BY <2>1, <2>2
<1> QED
  BY <1>1, <1>2

\* A step of the reader: it takes `in` from its buffer or from the link.
LEMMA InflatedInv ==
    ASSUME GzipInv, Live, ~HeaderUnread,
           NEW in \in Seq(Int), link' \in Seq(Int),
           InPlace(in, InputAt, taken), InPlace(link', InputAt + Len(in), taken),
           InputAt + Len(in) + Len(link') = PendingAt,
           NEW st \in SUBSET {"HEADER_READ", "READ_ERROR", "EOF_RECEIVED"}, r.state \subseteq st,
           NEW count \in Nat, NEW d \in Inflations(r.held, in, count), Inflated(d, st),
           UNCHANGED <<flags, w, wcall, taken, hung>>
    PROVE  GzipInv'
<1>1. /\ link \in Seq(Int) /\ got \in Seq(Int) /\ r.held \in Seq(Int) /\ taken \in Nat
      /\ Pending \in Seq(Int) /\ w.held \in Seq(Int)
  BY GzipParts
<1>2. Body = link /\ Body \in Seq(Int) /\ ~HeaderUnwritten
  BY <1>1 DEF Body, GzipInv, HeaderFirst, HeaderUnread, HeaderUnwritten
<1>3. Flows
  BY <1>2 DEF GzipInv
<1>4. HeldAt \in Nat /\ InputAt = HeldAt + Len(r.held) /\ HeldAt = Len(got)
  BY <1>1, Positions
<1>5. Inflating(r.held, in, HeldAt, taken, d)
  <2>1. Inflates(r.held, in, HeldAt, taken, count, d)
    BY <1>3, <1>4 DEF Inflates, Flows
  <2> QED
    BY <1>1, <1>4, <2>1, InflatedInPlace
<1>6. PICK c \in 0 .. Len(in), piece \in Seq(Int), kept \in Seq(Int), rest \in Seq(Int) :
        /\ d.out = piece /\ d.held = kept /\ d.in = rest
        /\ Len(rest) = Len(in) - c
        /\ InPlace(piece, HeldAt, taken) /\ InPlace(kept, HeldAt + Len(piece), taken)
        /\ InPlace(rest, HeldAt + Len(r.held) + c, taken)
        /\ Len(piece) + Len(kept) = Len(r.held) + c
        /\ HeldAt + Len(r.held) + c <= taken
  BY <1>5 DEF Inflating
<1>7. PICK b \in Nat, p \in Nat, q \in Nat :
        b = Len(got) /\ p = InputAt /\ q = p + c
  <2>1. Len(got) \in Nat /\ Len(r.held) \in Nat
    BY <1>1
  <2>2. InputAt \in Nat
    BY <1>4, <2>1
  <2>3. InputAt + c \in Nat
    BY <2>2
  <2> QED
    BY <2>1, <2>2, <2>3
<1>8. /\ HeldAt = b /\ p = b + Len(r.held) /\ q <= taken /\ q = b + Len(piece) + Len(kept)
      /\ q + Len(rest) = p + Len(in)
      /\ InPlace(rest, q, taken)
  <2>1. HeldAt = b /\ Len(r.held) \in Nat
    <3>1. Len(r.held) \in Nat
      BY <1>1
    <3>2. HeldAt = b
      BY <1>4, <1>7
    <3> QED
      BY <3>1, <3>2
  <2>2. p = b + Len(r.held)
    BY <1>4, <1>7, <2>1
  <2>3. q = HeldAt + Len(r.held) + c
    BY <1>7, <2>1, <2>2
  <2>4. q <= taken /\ InPlace(rest, q, taken)
    BY <1>6, <2>3
  <2>5. Len(piece) \in Nat /\ Len(kept) \in Nat /\ Len(rest) \in Nat /\ Len(in) \in Nat
    BY <1>6
  <2>6. q = b + Len(piece) + Len(kept)
    <3>1. Len(piece) + Len(kept) = Len(r.held) + c
      BY <1>6
    <3>2. PICK i \in Nat, j \in Nat, k \in Nat :
            i = Len(piece) /\ j = Len(kept) /\ k = Len(r.held)
      BY <2>1, <2>5
    <3>3. i + j = k + c
      BY <3>1, <3>2
    <3>4. q = b + k + c
      BY <2>1, <2>3, <3>2
    <3>5. q = b + i + j
      BY <3>3, <3>4
    <3> QED
      BY <3>2, <3>5
  <2>7. q + Len(rest) = p + Len(in)
    <3>1. Len(rest) = Len(in) - c
      BY <1>6
    <3>2. q = p + c
      BY <1>7
    <3> QED
      BY <2>5, <3>1, <3>2
  <2> QED
    BY <2>1, <2>2, <2>4, <2>6, <2>7
<1> DEFINE ended == kept = <<>> /\ rest # <<>> /\ Head(rest) = END
           stuck == piece = <<>> /\ rest = r.avail_in /\ ~ended /\ "EOF_RECEIVED" \in st
           left == IF ended THEN Tail(rest) ELSE rest
           state == st \cup (IF ended THEN {"COMPRESS_FINISHED"} ELSE {})
                       \cup (IF stuck THEN {"READ_ERROR"} ELSE {})
<1>9. /\ r' = [avail_in |-> left, held |-> kept, state |-> state, child_in |-> FALSE]
      /\ got' = got \o piece
      /\ rloop' = IF stuck THEN "done" ELSE "app"
  BY <1>6 DEF Inflated
<1>10. left \in Seq(Int)
  BY <1>6
<1>11. /\ state \in SUBSET {"HEADER_READ", "READ_ERROR", "EOF_RECEIVED", "COMPRESS_FINISHED"}
       /\ r.state \subseteq state
       /\ "COMPRESS_FINISHED" \in state <=> ended
  OBVIOUS
<1> HIDE DEF stuck, left, state
<1>12. r'.avail_in = left /\ r'.held = kept /\ r'.state = state
  BY <1>9
<1>13. GivenOK'
  <2>1. \A i \in 1 .. Len(got) : got[i] = i
    BY DEF GzipInv, GivenOK
  <2>2. InPlace(piece, Len(got), taken) /\ Len(got) + Len(piece) <= taken
    <3>1. Len(piece) \in Nat /\ Len(kept) \in Nat
      BY <1>6
    <3>2. b + Len(piece) <= taken
      BY <1>1, <1>8, <3>1
    <3> QED
      BY <1>6, <1>7, <1>8, <3>2
  <2>3. /\ got' \in Seq(Int) /\ Len(got') = Len(got) + Len(piece)
        /\ \A i \in 1 .. Len(got') : got'[i] = i
    BY <1>1, <1>6, <1>9, <2>1, <2>2, GivenMore
  <2>4. ASSUME ended PROVE Len(got') = taken /\ w.status = "closed"
    <3>1. Len(kept) = 0 /\ Len(got') = q
      BY <1>7, <1>8, <2>3, <2>4
    <3>2. Len(rest) >= 1 /\ rest[1] = END
      BY <2>4
    <3>3. ~(q + 1 <= taken)
      <4>1. q + 1 <= taken => rest[1] = q + 1
        BY <1>8, <3>2 DEF InPlace
      <4> QED
        BY <1>7, <3>2, <4>1 DEF END
    <3>4. q = taken
      BY <1>1, <1>8, <3>3
    <3>5. w.status = "closed"
      <4>1. PendingAt \in Nat /\ PendingAt <= EndAt
        BY <1>2, PositionTypes
      <4>2. p + Len(in) <= PendingAt
        <5>1. Len(in) \in Nat /\ Len(link') \in Nat
          OBVIOUS
        <5>2. p + Len(in) + Len(link') = PendingAt
          BY <1>7
        <5> QED
          BY <5>1, <5>2
      <4>3. q + Len(rest) <= EndAt
        <5>1. q + Len(rest) = p + Len(in)
          BY <1>8
        <5>2. Len(in) \in Nat
          OBVIOUS
        <5>3. EndAt \in Nat
          BY <1>2, PositionTypes
        <5> QED
          BY <1>7, <4>1, <4>2, <5>1, <5>2, <5>3
      <4>4. EndAt # taken
        BY <1>1, <1>2, <3>2, <3>4, <4>3, PositionTypes
      <4> QED
        BY <1>3, <4>4 DEF Flows
    <3> QED
      BY <3>1, <3>4, <3>5
  <2> HIDE DEF ended
  <2> QED
    BY <1>11, <1>12, <2>2, <2>3, <2>4 DEF GivenOK
<1>14. GzipTypeOK'
  <2>1. r' \in [avail_in : Seq(Int), held : Seq(Int),
              state : SUBSET {"HEADER_READ", "READ_ERROR", "EOF_RECEIVED", "COMPRESS_FINISHED"},
              child_in : BOOLEAN]
    BY <1>6, <1>9, <1>10, <1>11
  <2>2. got' \in Seq(Int) /\ rloop' \in {"app", "poll", "done"}
    BY <1>1, <1>6, <1>9, Joined
  <2> QED
    BY <2>1, <2>2 DEF GzipInv, GzipTypeOK
<1>15. ~HeaderUnread' /\ ~HeaderUnwritten'
  BY <1>2, <1>11, <1>12 DEF HeaderUnread, HeaderUnwritten
<1>16. WriterOK'
  <2>1. ~HeaderUnwritten'
    BY <1>15
  <2> QED
    BY <1>2, <2>1 DEF GzipInv, WriterOK
<1>17. HeaderFirst'
  BY <1>15 DEF HeaderFirst
<1>18. ASSUME Live' PROVE Flows'
  <2>1. ~ended
    BY <1>11, <1>12, <1>18 DEF Live
  <2>2. left = rest
    BY <2>1 DEF left
  <2> HIDE DEF ended
  <2>3. Body' = link'
    BY <1>15 DEF Body
  <2>4. Pending' = Pending
    BY DEF Pending
  <2>5. HeldAt' = b + Len(piece)
    <3>1. Len(got') = Len(got) + Len(piece)
      BY <1>1, <1>6, <1>9, Joined
    <3> QED
      BY <1>7, <3>1, PositionsNext
  <2>6. InputAt' = q
    <3>1. InputAt' = HeldAt' + Len(kept)
      BY <1>12, PositionsNext
    <3> QED
      BY <1>8, <2>5, <3>1
  <2>7. BodyAt' = p + Len(in)
    <3>1. BodyAt' = InputAt' + Len(rest)
      BY <1>12, <2>2, PositionsNext
    <3> QED
      BY <1>8, <2>6, <3>1
  <2>8. PendingAt' = PendingAt
    <3>1. PendingAt' = BodyAt' + Len(link')
      BY <2>3, PositionsNext
    <3> QED
      BY <1>7, <2>7, <3>1
  <2>9. KeptAt' = KeptAt
    <3>1. KeptAt' = PendingAt' + Len(Pending')
      BY PositionsNext
    <3> QED
      BY <2>4, <2>8, <3>1, Positions
  <2>10. EndAt' = EndAt
    <3>1. EndAt' = KeptAt' + Len(w'.held)
      BY PositionsNext
    <3> QED
      BY <2>9, <3>1, Positions
  <2>11. InPlace(kept, b + Len(piece), taken) /\ InPlace(rest, q, taken) /\ q <= taken
    BY <1>6, <1>8
  <2>12. InPlace(link', p + Len(in), taken)
    BY <1>7
  <2>13. /\ InPlace(r'.held, HeldAt', taken') /\ InputAt' <= taken'
         /\ InPlace(r'.avail_in, InputAt', taken')
    BY <1>12, <2>2, <2>5, <2>6, <2>11
  <2>14. InPlace(Body', BodyAt', taken')
    BY <2>3, <2>7, <2>12
  <2>15. w'.status # "closed" => EndAt' = taken' /\ InPlace(Pending', PendingAt', taken')
                              /\ InPlace(w'.held, KeptAt', taken')
    BY <1>3, <2>4, <2>8, <2>9, <2>10 DEF Flows
  <2> QED
    BY <2>13, <2>14, <2>15 DEF Flows
<1> QED
  BY <1>13, <1>14, <1>16, <1>17, <1>18 DEF GzipInv

\* The reader takes the header, or gives up for want of one.
LEMMA HeaderReadInv ==
    ASSUME GzipInv, z_stream_gzip_read_gzip_header
    PROVE  GzipInv'
<1>1. /\ rloop = "app" /\ HeaderUnread /\ link \in Seq(Int)
      /\ UNCHANGED <<flags, w, wcall, taken, hung, got>>
      /\ \/ /\ link # <<>> /\ Head(link) = HDR
            /\ r' = [r EXCEPT !.state = r.state \cup {"HEADER_READ"}]
            /\ link' = Tail(link) /\ rloop' = rloop
         \/ /\ r' = [r EXCEPT !.state = r.state \cup {"HEADER_READ", "READ_ERROR"}]
            /\ link' = link /\ rloop' = "done"
  BY GzipParts DEF z_stream_gzip_read_gzip_header, writervars, HeaderUnread
<1> DEFINE Readers == [avail_in : Seq(Int), held : Seq(Int),
              state : SUBSET {"HEADER_READ", "READ_ERROR", "EOF_RECEIVED", "COMPRESS_FINISHED"},
              child_in : BOOLEAN]
<1>2. r \in Readers
  BY DEF GzipInv, GzipTypeOK
<1>3. PICK st \in SUBSET {"HEADER_READ", "READ_ERROR"} :
        "HEADER_READ" \in st /\ r' = [r EXCEPT !.state = r.state \cup st]
  BY <1>1
<1>4. /\ r' \in Readers /\ r'.held = r.held /\ r'.avail_in = r.avail_in
      /\ r'.state = r.state \cup st
  <2>1. r.state \cup st \in SUBSET {"HEADER_READ", "READ_ERROR", "EOF_RECEIVED", "COMPRESS_FINISHED"}
    BY <1>2, <1>3
  <2> QED
    BY <1>2, <1>3, <2>1
<1>5. /\ "COMPRESS_FINISHED" \in r'.state <=> "COMPRESS_FINISHED" \in r.state
      /\ ~HeaderUnread'
  BY <1>3, <1>4 DEF HeaderUnread
<1>6. HeaderUnwritten' <=> HeaderUnwritten
  BY <1>1 DEF HeaderUnwritten
<1>7. GzipTypeOK'
  <2>1. link' \in Seq(Int)
    BY <1>1, Behind
  <2>2. rloop' \in {"app", "poll", "done"}
    BY <1>1
  <2> QED
    BY <1>1, <1>4, <2>1, <2>2 DEF GzipInv, GzipTypeOK
<1>8. GivenOK'
  BY <1>1, <1>5 DEF GzipInv, GivenOK
<1>9. CASE rloop' = "done"
  <2>1. ~Live' /\ link' = link
    BY <1>1, <1>9 DEF Live
  <2>2. WriterOK'
    BY <1>1, <1>6, <2>1 DEF GzipInv, WriterOK
  <2> QED
    BY <1>7, <1>8, <2>1, <2>2 DEF GzipInv, HeaderFirst
<1>10. CASE link # <<>> /\ Head(link) = HDR /\ link' = Tail(link) /\ rloop' = rloop
  <2>1. ~HeaderUnwritten
    BY <1>10 DEF GzipInv, WriterOK
  <2>2. WriterOK'
    BY <1>1, <1>6, <2>1 DEF GzipInv, WriterOK
  <2>3. HeaderFirst'
    BY <1>5, <1>6, <2>1 DEF HeaderFirst
  <2>4. ASSUME Live' PROVE Flows'
    <3>1. Live
      BY <1>1, <1>5, <2>4 DEF Live
    <3>2. Flows
      BY <2>1, <3>1 DEF GzipInv
    <3>3. Body' = Body /\ Pending' = Pending
      BY <1>1, <1>5, <1>10 DEF Body, Pending
    <3>4. HeldAt' = HeldAt
      BY <1>1 DEF HeldAt
    <3>5. InputAt' = InputAt
      BY <1>4, <3>4, Positions, PositionsNext
    <3>6. BodyAt' = BodyAt
      BY <1>4, <3>5, Positions, PositionsNext
    <3>7. PendingAt' = PendingAt
      BY <3>3, <3>6, Positions, PositionsNext
    <3>8. KeptAt' = KeptAt
      BY <3>3, <3>7, Positions, PositionsNext
    <3>9. EndAt' = EndAt
      BY <1>1, <3>8, Positions, PositionsNext
    <3> QED
      BY <1>1, <1>4, <3>2, <3>3, <3>4, <3>5, <3>6, <3>7, <3>8, <3>9 DEF Flows
  <2> QED
    BY <1>7, <1>8, <2>2, <2>3, <2>4 DEF GzipInv
<1> QED
  BY <1>1, <1>9, <1>10

\* z_stream_gzip_read_method: a round of its loop.
LEMMA ReadMethodInv ==
    ASSUME GzipInv, NEW count \in 1 .. MaxCount, z_stream_gzip_read_method(count)
    PROVE  GzipInv'
<1>1. /\ Live /\ ~HeaderUnread
      /\ UNCHANGED <<flags, w, wcall, taken, hung>>
  BY DEF z_stream_gzip_read_method, Live, HeaderUnread, writervars
<1>2. /\ link \in Seq(Int) /\ r.avail_in \in Seq(Int) /\ taken \in Nat /\ count \in Nat
      /\ r.state \in SUBSET {"HEADER_READ", "READ_ERROR", "EOF_RECEIVED", "COMPRESS_FINISHED"}
  BY GzipParts, GzipAssumption DEF GzipInv, GzipTypeOK
<1>3. r.state \in SUBSET {"HEADER_READ", "READ_ERROR", "EOF_RECEIVED"}
  BY <1>1, <1>2 DEF Live
<1>4. Body = link /\ Body \in Seq(Int) /\ ~HeaderUnwritten
  BY <1>1, <1>2 DEF Body, GzipInv, HeaderFirst, HeaderUnread, HeaderUnwritten
<1>5. Flows
  BY <1>1, <1>4 DEF GzipInv
<1>6. /\ InPlace(r.avail_in, InputAt, taken) /\ InPlace(link, BodyAt, taken)
      /\ InputAt \in Nat /\ BodyAt = InputAt + Len(r.avail_in)
      /\ PendingAt = BodyAt + Len(link)
  <2>1. InPlace(r.avail_in, InputAt, taken) /\ InPlace(link, BodyAt, taken)
    BY <1>4, <1>5 DEF Flows
  <2>2. InputAt \in Nat
    BY <1>4, PositionTypes
  <2>3. BodyAt = InputAt + Len(r.avail_in) /\ PendingAt = BodyAt + Len(link)
    BY <1>4, Positions
  <2> QED
    BY <2>1, <2>2, <2>3
<1>7. CASE /\ r.avail_in # <<>> \/ "EOF_RECEIVED" \in r.state
           /\ \E d \in Inflations(r.held, r.avail_in, count) : Inflated(d, r.state)
           /\ link' = link
  <2>1. PICK d \in Inflations(r.held, r.avail_in, count) : Inflated(d, r.state)
    BY <1>7
  <2>2. /\ link' \in Seq(Int) /\ InPlace(link', InputAt + Len(r.avail_in), taken)
        /\ InputAt + Len(r.avail_in) + Len(link') = PendingAt
    BY <1>2, <1>6, <1>7
  <2> QED
    BY <1>1, <1>2, <1>3, <1>6, <2>1, <2>2, InflatedInv
<1>8. ASSUME r.avail_in = <<>>, NEW k \in 1 .. Len(link), link' = From(link, Len(Upto(link, k))),
             NEW d \in Inflations(r.held, Upto(link, k), count), Inflated(d, r.state)
      PROVE  GzipInv'
  <2>1. /\ Upto(link, k) \in Seq(Int) /\ Len(Upto(link, k)) = k
        /\ From(link, k) \in Seq(Int) /\ Len(From(link, k)) = Len(link) - k
    <3>1. link \in Seq(Int) /\ k \in 0 .. Len(link)
      BY <1>2
    <3> QED
      BY <3>1, CutFirst, CutLast
  <2>2. BodyAt = InputAt
    BY <1>6, <1>8
  <2>3. InPlace(Upto(link, k), InputAt, taken) /\ InPlace(From(link, k), InputAt + k, taken)
    <3>1. link \in Seq(Int) /\ k \in 0 .. Len(link)
      BY <1>2
    <3>2. InPlace(link, InputAt, taken) /\ InputAt \in Nat /\ taken \in Nat
      BY <1>2, <1>6, <2>2
    <3> QED
      BY <3>1, <3>2, PlaceCut
  <2>4. /\ link' \in Seq(Int) /\ InPlace(link', InputAt + Len(Upto(link, k)), taken)
        /\ InputAt + Len(Upto(link, k)) + Len(link') = PendingAt
    <3>1. link' = From(link, k)
      BY <1>8, <2>1
    <3>2. InputAt + k + (Len(link) - k) = PendingAt
      <4>1. Len(link) \in Nat
        BY <1>2
      <4>2. PendingAt = InputAt + Len(link)
        BY <1>6, <2>2
      <4> QED
        BY <1>6, <4>1, <4>2
    <3> QED
      BY <2>1, <2>3, <3>1, <3>2
  <2> QED
    BY <1>1, <1>2, <1>3, <1>8, <2>1, <2>3, <2>4, InflatedInv
<1>9. ASSUME r.avail_in = <<>>, link = <<>>, link' = link,
             NEW d \in Inflations(r.held, <<>>, count),
             Inflated(d, r.state \cup {"EOF_RECEIVED"})
      PROVE  GzipInv'
  <2>1. /\ <<>> \in Seq(Int) /\ Len(<<>>) = 0 /\ InPlace(<<>>, InputAt, taken)
    BY PlaceNothing
  <2>2. /\ link' \in Seq(Int) /\ InPlace(link', InputAt + Len(<<>>), taken)
        /\ InputAt + Len(<<>>) + Len(link') = PendingAt
    <3>1. BodyAt = InputAt /\ PendingAt = InputAt
      BY <1>6, <1>9
    <3> QED
      BY <1>6, <1>9, <2>1, <3>1, PlaceNothing
  <2>3. /\ r.state \cup {"EOF_RECEIVED"} \in SUBSET {"HEADER_READ", "READ_ERROR", "EOF_RECEIVED"}
        /\ r.state \subseteq r.state \cup {"EOF_RECEIVED"}
    BY <1>3
  <2> QED
    BY <1>1, <1>2, <1>9, <2>1, <2>2, <2>3, InflatedInv
<1>10. \/ /\ r.avail_in # <<>> \/ "EOF_RECEIVED" \in r.state
          /\ \E d \in Inflations(r.held, r.avail_in, count) : Inflated(d, r.state)
          /\ link' = link
       \/ /\ r.avail_in = <<>>
          /\ \/ \E k \in 1 .. Len(link) :
                   /\ link' = From(link, Len(Upto(link, k)))
                   /\ \E d \in Inflations(r.held, Upto(link, k), count) : Inflated(d, r.state)
             \/ /\ link = <<>> /\ link' = link
                /\ \E d \in Inflations(r.held, <<>>, count) :
                      Inflated(d, r.state \cup {"EOF_RECEIVED"})
  <2>1. 1 .. AtMost(buffer_length, Len(link)) \subseteq 1 .. Len(link)
    BY <1>2, GzipAssumption DEF AtMost
  <2>2. \A s \in ChildReads(buffer_length) : \E k \in 1 .. Len(link) : s = Upto(link, k)
    BY <2>1 DEF ChildReads
  <2> QED
    BY <2>2 DEF z_stream_gzip_read_method
<1> QED
  BY <1>7, <1>8, <1>9, <1>10

\* The reader waits, wakes or gives up: nothing moves.
LEMMA ReaderWaitsInv ==
    ASSUME GzipInv, UNCHANGED <<flags, w, wcall, taken, link, got>>, hung' \in BOOLEAN,
           r'.avail_in = r.avail_in, r'.held = r.held, r'.state = r.state,
           r' \in [avail_in : Seq(Int), held : Seq(Int),
              state : SUBSET {"HEADER_READ", "READ_ERROR", "EOF_RECEIVED", "COMPRESS_FINISHED"},
              child_in : BOOLEAN],
           rloop' \in {"app", "poll", "done"}, rloop = "done" => rloop' = "done"
    PROVE  GzipInv'
<1>1. Live' => Live
  BY DEF Live
<1>2. (HeaderUnread' <=> HeaderUnread) /\ (HeaderUnwritten' <=> HeaderUnwritten)
  BY DEF HeaderUnread, HeaderUnwritten
<1>3. Body' = Body /\ Pending' = Pending
  BY <1>2 DEF Body, Pending
<1>4. HeldAt' = HeldAt
  BY DEF HeldAt
<1>5. InputAt' = InputAt
  BY <1>4, Positions, PositionsNext
<1>6. BodyAt' = BodyAt
  BY <1>5, Positions, PositionsNext
<1>7. PendingAt' = PendingAt
  BY <1>3, <1>6, Positions, PositionsNext
<1>8. KeptAt' = KeptAt
  BY <1>3, <1>7, Positions, PositionsNext
<1>9. EndAt' = EndAt
  BY <1>8, Positions, PositionsNext
<1>10. Flows => Flows'
  BY <1>3, <1>4, <1>5, <1>6, <1>7, <1>8, <1>9 DEF Flows
<1>11. GzipTypeOK' /\ GivenOK' /\ WriterOK' /\ HeaderFirst'
  <2>1. GzipTypeOK'
    BY DEF GzipInv, GzipTypeOK
  <2>2. GivenOK'
    BY DEF GzipInv, GivenOK
  <2>3. WriterOK'
    BY <1>2 DEF GzipInv, WriterOK
  <2>4. HeaderFirst'
    BY <1>1, <1>2 DEF GzipInv, HeaderFirst
  <2> QED
    BY <2>1, <2>2, <2>3, <2>4
<1> QED
  BY <1>1, <1>2, <1>10, <1>11 DEF GzipInv

\* Nothing is on its way at first.
LEMMA GzipInitInv == GzipInit => GzipInv
<1> SUFFICES ASSUME GzipInit PROVE GzipInv
  OBVIOUS
<1>1. /\ flags \in [header : BOOLEAN, empty : BOOLEAN, sync : BOOLEAN, nonblock : BOOLEAN]
      /\ w = [held |-> <<>>, out |-> <<>>, out_p |-> 0, state |-> {}, shutdown |-> FALSE,
            child_out |-> FALSE, status |-> "open"]
      /\ wcall = NoWrite /\ taken = 0 /\ link = <<>> /\ hung = FALSE
      /\ r = [avail_in |-> <<>>, held |-> <<>>, state |-> {}, child_in |-> FALSE]
      /\ got = <<>> /\ rloop = "app"
  BY DEF GzipInit
<1>2. GzipTypeOK
  <2>1. <<>> \in Seq(Int) /\ 0 \in Nat
    OBVIOUS
  <2>2. w \in WriterStates
    BY <1>1, <2>1 DEF WriterStates
  <2>3. wcall \in [op : {"none", "write"}, left : Nat, n : Nat]
    BY <1>1 DEF NoWrite
  <2> QED
    BY <1>1, <2>1, <2>2, <2>3 DEF GzipTypeOK
<1>3. WriterOK /\ HeaderFirst /\ GivenOK
  BY <1>1 DEF WriterOK, HeaderFirst, GivenOK, NoWrite, HeaderUnwritten, HeaderUnread
<1>4. ASSUME ~(HeaderUnread /\ HeaderUnwritten) PROVE Flows
  <2>1. ~HeaderUnread
    BY <1>1, <1>4 DEF HeaderUnread, HeaderUnwritten
  <2>2. Body = <<>> /\ Pending = <<>>
    BY <1>1, <2>1 DEF Body, Pending, From
  <2>3. HeldAt = 0 /\ InputAt = 0 /\ BodyAt = 0 /\ PendingAt = 0 /\ KeptAt = 0 /\ EndAt = 0
    BY <1>1, <2>2 DEF HeldAt, InputAt, BodyAt, PendingAt, KeptAt, EndAt
  <2> QED
    BY <1>1, <2>2, <2>3, PlaceNothing DEF Flows
<1> QED
  BY <1>2, <1>3, <1>4 DEF GzipInv

\* Every step keeps the parts of the flow consecutive.
LEMMA GzipNextInv ==
    ASSUME ~ShortWrites, GzipInv, [GzipNext]_gzipvars
    PROVE  GzipInv'
<1> DEFINE Readers == [avail_in : Seq(Int), held : Seq(Int),
              state : SUBSET {"HEADER_READ", "READ_ERROR", "EOF_RECEIVED", "COMPRESS_FINISHED"},
              child_in : BOOLEAN]
<1>1. r \in Readers /\ hung \in BOOLEAN /\ rloop \in {"app", "poll", "done"}
  BY DEF GzipInv, GzipTypeOK
<1>2. CASE \E n \in 1 .. MaxCount : WriteBegins(n)
  <2>1. 1 .. MaxCount \subseteq Nat
    BY GzipAssumption
  <2> QED
    BY <1>2, <2>1, WriteBeginsInv
<1>3. CASE WriteLoop
  BY <1>3, WriteLoopInv
<1>4. CASE z_stream_gzip_write_callback
  BY <1>4, WriteCallbackInv
<1>5. CASE WriteError
  BY <1>5, WriteErrorInv
<1>6. CASE z_stream_gzip_shutdown_method("WR") \/ z_stream_gzip_close_method
  BY <1>6, ShutdownInv DEF z_stream_gzip_close_method
<1>7. CASE z_stream_gzip_read_gzip_header
  BY <1>7, HeaderReadInv
<1>8. CASE \E n \in 1 .. MaxCount : z_stream_gzip_read_method(n)
  BY <1>8, ReadMethodInv
<1>9. CASE ReadsEof
  <2>1. /\ UNCHANGED <<flags, w, wcall, taken, link, got, hung, r>> /\ rloop' = "done"
    BY <1>9 DEF ReadsEof, writervars
  <2> QED
    BY <1>1, <2>1, ReaderWaitsInv
<1>10. CASE z_stream_gzip_watch_prepare
  <2>1. /\ UNCHANGED <<flags, w, wcall, taken, link, got, hung, r>> /\ rloop' = "poll"
        /\ rloop # "done"
    BY <1>10 DEF z_stream_gzip_watch_prepare, writervars
  <2> QED
    BY <1>1, <2>1, ReaderWaitsInv
<1>11. CASE z_stream_gzip_read_callback
  <2>1. /\ UNCHANGED <<flags, w, wcall, taken, link, got, hung>> /\ rloop' = "app"
        /\ rloop # "done" /\ r' = [r EXCEPT !.child_in = TRUE]
    BY <1>11 DEF z_stream_gzip_read_callback, writervars
  <2>2. r' \in Readers /\ r'.avail_in = r.avail_in /\ r'.held = r.held /\ r'.state = r.state
    BY <1>1, <2>1
  <2> QED
    BY <1>1, <2>1, <2>2, ReaderWaitsInv
<1>12. CASE UNCHANGED gzipvars
  <2>1. /\ UNCHANGED <<flags, w, wcall, taken, link, got, hung, r, rloop>>
    BY <1>12 DEF gzipvars
  <2> QED
    BY <1>1, <2>1, ReaderWaitsInv
<1> QED
  BY <1>2, <1>3, <1>4, <1>5, <1>6, <1>7, <1>8, <1>9, <1>10, <1>11, <1>12
  DEF GzipNext, Reads

\* What a compressed stream gives its reader are the bytes its writer accepted, in order and
\* none twice, whatever zlib keeps back on either side and however large the pieces are; and
\* the end of the compressed data comes after the last of them.  The child takes what it is
\* given or nothing.
THEOREM BytesTransparent ==
    ASSUME ~ShortWrites
    PROVE  GzipSpec => []Transparent
<1>1. GzipInit => GzipInv
  BY GzipInitInv
<1>2. GzipInv /\ [GzipNext]_gzipvars => GzipInv'
  BY GzipNextInv
<1>3. GzipInv => Transparent
  <2> SUFFICES ASSUME GzipInv PROVE Transparent
    OBVIOUS
  <2>1. DOMAIN got = 1 .. Len(got)
    BY GzipParts
  <2> QED
    BY <2>1 DEF GzipInv, GivenOK, Transparent, Numbered
<1> QED
  BY <1>1, <1>2, <1>3, PTL DEF GzipSpec

-----------------------------------------------------------------------------
(* The line stream.  SleepInv: what is cached about the buffer is right.       *)
(* ByteInv: no byte is lost between the child and the application.  LineInv:   *)
(* the place in the input and the number of lines given agree.                *)

LineFlags == NewFlags \cup {"IGNORE", "EOF", "ERROR"}

Lines ==
    [buf : Seq(STRING), pos : Nat, oldpos : Nat, bufsize : Nat, flags : SUBSET LineFlags,
     avail : {"unset", "yes", "no"}, child_cond : SUBSET {"IN"},
     want_read : BOOLEAN, want_write : BOOLEAN]

LineOK(m) == m \in Lines /\ m.pos <= Len(m.buf) /\ Len(m.buf) <= m.bufsize

\* The part of m's buffer that was not handed out yet.
Left(m) == SubSeq(m.buf, m.pos + 1, Len(m.buf))

Fds ==
    [ungot : Seq(Seq(STRING)), nonblock : BOOLEAN, timeout : Int,
     want_read : BOOLEAN, want_write : BOOLEAN]

\* A call for a line that waits for input has looked through the buffer.
Getting ==
    /\ l.pos = 0 /\ l.avail = "unset" /\ Eols(l) = {}
    /\ "EOF" \notin l.flags /\ loop = "app"

Calls == [op : {"chunk", "write"}, size : Int]

LineTypeOK ==
    /\ input \in Seq(STRING) /\ sock \in Seq(STRING)
    /\ LineOK(l)
    /\ fd \in Fds /\ Len(fd.ungot) <= 1
    /\ out \in [n : Int, before : Seq(STRING), last : Seq(STRING)]
    /\ call.op \in {"get", "chunk"} => call.size \in Nat
    /\ call.op = "get" => Getting
    /\ call.op \in {"chunk", "write"} => call \in Calls
    /\ call.op = "chunk" => "raw" \in history
    /\ loop = "sleeping" => call = NoCall

-----------------------------------------------------------------------------
(* Sequences of bytes. *)

\* What joining two sequences of bytes gives.
LEMMA BytesJoined ==
    ASSUME NEW s \in Seq(STRING), NEW t \in Seq(STRING)
    PROVE  /\ s \o t \in Seq(STRING) /\ Len(s \o t) = Len(s) + Len(t)
           /\ \A k \in 1 .. Len(s) : (s \o t)[k] = s[k]
           /\ \A k \in 1 .. Len(t) : (s \o t)[Len(s) + k] = t[k]
  OBVIOUS

\* A queue of at most one packet.
LEMMA OnlyPacket ==
    ASSUME NEW T, NEW q \in Seq(T), q # <<>>, Len(q) <= 1
    PROVE  Len(q) = 1 /\ Head(q) = q[1] /\ Head(q) \in T /\ Tail(q) = <<>>
<1>1. Len(q) \in Nat /\ Head(q) = q[1]
  OBVIOUS
<1>2. Len(q) \in Nat \ {0}
  BY EmptySeq
<1>3. Len(q) = 1
  <2>1. \A n \in Nat \ {0} : n <= 1 => n = 1
    OBVIOUS
  <2> QED
    BY <1>2, <2>1
<1>4. q[1] \in T
  BY <1>3
<1>5. Tail(q) \in Seq(T) /\ Len(Tail(q)) = 1 - 1
  BY <1>3, HeadTailProperties
<1>6. Tail(q) = <<>>
  <2>1. Len(Tail(q)) \notin Nat \ {0}
    BY <1>5
  <2> QED
    BY <1>5, <2>1, EmptySeq
<1> QED
  BY <1>1, <1>3, <1>4, <1>6

\* The bytes between two places.
LEMMA BytesCut ==
    ASSUME NEW s \in Seq(STRING), NEW a \in Nat, NEW b \in Nat, a <= b, b <= Len(s)
    PROVE  /\ SubSeq(s, a + 1, b) \in Seq(STRING) /\ Len(SubSeq(s, a + 1, b)) = b - a
           /\ \A k \in 1 .. b - a : SubSeq(s, a + 1, b)[k] = s[a + k]
  OBVIOUS

\* What follows a place, cut in two.
LEMMA BytesSplit ==
    ASSUME NEW s \in Seq(STRING), NEW a \in Nat, NEW b \in Nat, a <= b, b <= Len(s)
    PROVE  SubSeq(s, a + 1, Len(s)) = SubSeq(s, a + 1, b) \o SubSeq(s, b + 1, Len(s))
<1>1. /\ Len(s) \in Nat
      /\ SubSeq(s, a + 1, Len(s)) \in Seq(STRING) /\ Len(SubSeq(s, a + 1, Len(s))) = Len(s) - a
      /\ \A k \in 1 .. Len(s) - a : SubSeq(s, a + 1, Len(s))[k] = s[a + k]
  BY BytesCut
<1>2. /\ SubSeq(s, a + 1, b) \in Seq(STRING) /\ Len(SubSeq(s, a + 1, b)) = b - a
      /\ \A k \in 1 .. b - a : SubSeq(s, a + 1, b)[k] = s[a + k]
  BY BytesCut
<1>3. /\ SubSeq(s, b + 1, Len(s)) \in Seq(STRING) /\ Len(SubSeq(s, b + 1, Len(s))) = Len(s) - b
      /\ \A k \in 1 .. Len(s) - b : SubSeq(s, b + 1, Len(s))[k] = s[b + k]
  BY BytesCut
<1> DEFINE u == SubSeq(s, a + 1, Len(s))
           v == SubSeq(s, a + 1, b)
           x == SubSeq(s, b + 1, Len(s))
<1> HIDE DEF u, v, x
<1>4. /\ u \in Seq(STRING) /\ v \o x \in Seq(STRING) /\ Len(v \o x) = Len(v) + Len(x)
      /\ \A k \in 1 .. Len(v) : (v \o x)[k] = v[k]
      /\ \A k \in 1 .. Len(x) : (v \o x)[Len(v) + k] = x[k]
  BY <1>1, <1>2, <1>3, BytesJoined DEF u, v, x
<1>5. Len(u) = Len(s) - a /\ Len(v) = b - a /\ Len(x) = Len(s) - b
  BY <1>1, <1>2, <1>3 DEF u, v, x
<1>6. Len(u) = Len(v \o x)
  BY <1>1, <1>4, <1>5
<1>7. ASSUME NEW k \in 1 .. Len(u) PROVE u[k] = (v \o x)[k]
  <2>1. u[k] = s[a + k]
    BY <1>1, <1>5 DEF u
  <2>2. CASE k <= b - a
    <3>1. k \in 1 .. b - a
      BY <1>5, <2>2
    <3> QED
      BY <1>2, <1>4, <1>5, <2>1, <3>1 DEF v
  <2>3. CASE k > b - a
    <3>1. PICK i \in 1 .. Len(s) - b : k = (b - a) + i
      <4>1. k - (b - a) \in 1 .. Len(s) - b /\ k = (b - a) + (k - (b - a))
        BY <1>1, <1>5, <2>3
      <4> QED
        BY <4>1
    <3>2. (v \o x)[k] = x[i]
      BY <1>4, <1>5, <3>1
    <3>3. x[i] = s[b + i]
      BY <1>3, <3>1 DEF x
    <3>4. b + i = a + k
      BY <3>1
    <3> QED
      BY <2>1, <3>2, <3>3, <3>4
  <2> QED
    BY <1>1, <1>5, <2>2, <2>3
<1>8. u = v \o x
  BY <1>4, <1>6, <1>7, SeqEqual
<1> QED
  BY <1>8 DEF u, v, x

\* A sequence cut in two.
LEMMA BytesFirst ==
    ASSUME NEW s \in Seq(STRING), NEW k \in Nat, k <= Len(s)
    PROVE  /\ SubSeq(s, 1, k) \in Seq(STRING) /\ Len(SubSeq(s, 1, k)) = k
           /\ \A i \in 1 .. k : SubSeq(s, 1, k)[i] = s[i]
           /\ SubSeq(s, k + 1, Len(s)) \in Seq(STRING)
           /\ Len(SubSeq(s, k + 1, Len(s))) = Len(s) - k
           /\ \A i \in 1 .. Len(s) - k : SubSeq(s, k + 1, Len(s))[i] = s[k + i]
           /\ s = SubSeq(s, 1, k) \o SubSeq(s, k + 1, Len(s))
<1> DEFINE x == SubSeq(s, 1, k)
           y == SubSeq(s, k + 1, Len(s))
<1>1. Len(s) \in Nat /\ Len(s) <= Len(s)
  OBVIOUS
<1>2. x \in Seq(STRING) /\ Len(x) = k /\ \A i \in 1 .. k : x[i] = s[i]
  OBVIOUS
<1>3. y \in Seq(STRING) /\ Len(y) = Len(s) - k /\ \A i \in 1 .. Len(s) - k : y[i] = s[k + i]
  BY <1>1, BytesCut
<1> HIDE DEF x, y
<1>4. /\ x \o y \in Seq(STRING) /\ Len(x \o y) = Len(x) + Len(y)
      /\ \A i \in 1 .. Len(x) : (x \o y)[i] = x[i]
      /\ \A i \in 1 .. Len(y) : (x \o y)[Len(x) + i] = y[i]
  BY <1>2, <1>3, BytesJoined
<1>5. Len(x \o y) = Len(s)
  BY <1>1, <1>2, <1>3, <1>4
<1>6. ASSUME NEW i \in 1 .. Len(s) PROVE s[i] = (x \o y)[i]
  <2>1. CASE i <= k
    BY <1>2, <1>4, <2>1
  <2>2. CASE i > k
    <3>1. PICK j \in 1 .. Len(s) - k : i = k + j
      <4>1. i - k \in 1 .. Len(s) - k /\ i = k + (i - k)
        BY <1>1, <2>2
      <4> QED
        BY <4>1
    <3>2. (x \o y)[k + j] = y[j] /\ y[j] = s[k + j]
      BY <1>2, <1>3, <1>4, <3>1
    <3> QED
      BY <3>1, <3>2
  <2>3. i <= k \/ i > k
    OBVIOUS
  <2> QED
    BY <2>1, <2>2, <2>3
<1>7. s = x \o y
  BY <1>4, <1>5, <1>6, SeqEqual
<1> QED
  BY <1>2, <1>3, <1>7 DEF x, y

\* What a put-back packet and the socket hold.
LEMMA UnreadIs ==
    ASSUME fd \in Fds, sock \in Seq(STRING), Len(fd.ungot) <= 1
    PROVE  /\ fd.ungot = <<>> => Unread = sock
           /\ fd.ungot # <<>> => Len(fd.ungot) = 1 /\ Head(fd.ungot) \in Seq(STRING)
                                 /\ Unread = Head(fd.ungot) \o sock
<1>1. fd.ungot \in Seq(Seq(STRING)) /\ Len(fd.ungot) \in Nat
  BY DEF Fds
<1>2. CASE fd.ungot = <<>>
  <2>1. FlattenSeq(fd.ungot) = <<>>
    BY <1>2 DEF FlattenSeq
  <2> QED
    BY <1>2, <2>1 DEF Unread
<1>3. CASE fd.ungot # <<>>
  <2>1. Len(fd.ungot) = 1 /\ Head(fd.ungot) = fd.ungot[1] /\ Head(fd.ungot) \in Seq(STRING)
    BY <1>1, <1>3, OnlyPacket
  <2> DEFINE u == fd.ungot
             F(f) == f = [i \in 1 .. Len(u) |-> IF i = 1 THEN u[i] ELSE f[i - 1] \o u[i]]
             flat == CHOOSE f : F(f)
  <2>2. FlattenSeq(u) = flat[Len(u)]
    BY <2>1 DEF FlattenSeq
  <2>3. F([i \in 1 .. 1 |-> u[1]])
    BY <2>1
  <2>4. F(flat)
    <3> HIDE DEF F
    <3> QED
      BY <2>3
  <2> HIDE DEF flat
  <2>5. flat[1] = u[1]
    BY <2>1, <2>4
  <2> QED
    BY <2>1, <2>2, <2>5, <1>3 DEF Unread
<1> QED
  BY <1>2, <1>3

\* What was not read from the child is a sequence of bytes.
LEMMA UnreadBytes ==
    ASSUME fd \in Fds, sock \in Seq(STRING), Len(fd.ungot) <= 1
    PROVE  Unread \in Seq(STRING)
  BY UnreadIs, BytesJoined

-----------------------------------------------------------------------------
(* The parts of a line stream. *)

\* The fields of a stream in order, and the part of its buffer that is left.
LEMMA LineFields ==
    ASSUME NEW m, LineOK(m)
    PROVE  /\ m \in Lines /\ m.buf \in Seq(STRING) /\ Len(m.buf) \in Nat
           /\ m.pos \in Nat /\ m.oldpos \in Nat /\ m.bufsize \in Nat
           /\ m.flags \in SUBSET LineFlags
           /\ m.pos <= Len(m.buf) /\ Len(m.buf) <= m.bufsize
           /\ Left(m) \in Seq(STRING) /\ Len(Left(m)) = Len(m.buf) - m.pos
           /\ \A k \in 1 .. Len(m.buf) - m.pos : Left(m)[k] = m.buf[m.pos + k]
<1>1. /\ m \in Lines /\ m.buf \in Seq(STRING) /\ Len(m.buf) \in Nat
      /\ m.pos \in Nat /\ m.oldpos \in Nat /\ m.bufsize \in Nat
      /\ m.flags \in SUBSET LineFlags
      /\ m.pos <= Len(m.buf) /\ Len(m.buf) <= m.bufsize
  BY DEF LineOK, Lines
<1>2. /\ SubSeq(m.buf, m.pos + 1, Len(m.buf)) \in Seq(STRING)
      /\ Len(SubSeq(m.buf, m.pos + 1, Len(m.buf))) = Len(m.buf) - m.pos
      /\ \A k \in 1 .. Len(m.buf) - m.pos :
            SubSeq(m.buf, m.pos + 1, Len(m.buf))[k] = m.buf[m.pos + k]
  <2>1. Len(m.buf) <= Len(m.buf)
    BY <1>1
  <2> QED
    BY <1>1, <2>1, BytesCut
<1> QED
  BY <1>1, <1>2 DEF Left

\* A stream whose buffer and positions are replaced.
Refill(m, n, b, p, q) ==
    /\ n = [m EXCEPT !.buf = b, !.pos = p, !.oldpos = q]
    /\ b \in Seq(STRING) /\ p \in Nat /\ q \in Nat /\ p <= Len(b) /\ Len(b) <= m.bufsize

Alike(m, n) ==
    /\ LineOK(n) /\ n.bufsize = m.bufsize /\ n.flags = m.flags /\ n.avail = m.avail
    /\ n.want_read = m.want_read

\* A stream with another buffer in which the positions lie.
LEMMA Refilled ==
    ASSUME NEW m, LineOK(m), NEW b, NEW p, NEW q, NEW n, Refill(m, n, b, p, q)
    PROVE  Alike(m, n) /\ n.buf = b /\ n.pos = p /\ n.oldpos = q
<1>1. n \in Lines
  BY DEF Refill, LineOK, Lines
<1>2. /\ n.buf = b /\ n.pos = p /\ n.oldpos = q
      /\ n.bufsize = m.bufsize /\ n.flags = m.flags /\ n.avail = m.avail
      /\ n.want_read = m.want_read
  BY DEF Refill, LineOK, Lines
<1> QED
  BY <1>1, <1>2 DEF Refill, LineOK, Alike

\* A stream whose flags are replaced.
Reflag(m, n, f) == n = [m EXCEPT !.flags = f] /\ f \in SUBSET LineFlags

\* A stream with other flags.
LEMMA Reflagged ==
    ASSUME NEW m, LineOK(m), NEW n, NEW f, Reflag(m, n, f)
    PROVE  /\ LineOK(n) /\ n.buf = m.buf /\ n.pos = m.pos /\ n.oldpos = m.oldpos
           /\ n.bufsize = m.bufsize /\ n.flags = f /\ n.avail = m.avail
           /\ n.want_read = m.want_read
<1>1. n \in Lines
  BY DEF Reflag, LineOK, Lines
<1>2. /\ n.buf = m.buf /\ n.pos = m.pos /\ n.oldpos = m.oldpos
      /\ n.bufsize = m.bufsize /\ n.flags = f /\ n.avail = m.avail
      /\ n.want_read = m.want_read
  BY DEF Reflag, LineOK, Lines
<1> QED
  BY <1>1, <1>2 DEF LineOK

\* An emptied buffer.
LEMMA EmptiedLine ==
    ASSUME NEW m, LineOK(m)
    PROVE  /\ Alike(m, Emptied(m)) /\ Emptied(m).buf = <<>> /\ Emptied(m).pos = 0
           /\ Left(Emptied(m)) = <<>> /\ Eols(Emptied(m)) = {}
<1>1. <<>> \in Seq(STRING) /\ Len(<<>>) = 0 /\ 0 <= m.bufsize
  BY LineFields
<1>2. Refill(m, Emptied(m), <<>>, 0, 0)
  BY <1>1 DEF Refill, Emptied
<1>3. Alike(m, Emptied(m)) /\ Emptied(m).buf = <<>> /\ Emptied(m).pos = 0
  BY <1>2, Refilled
<1>4. Left(Emptied(m)) = <<>>
  BY <1>3 DEF Left
<1>5. Eols(Emptied(m)) = {}
  BY <1>3 DEF Eols
<1> QED
  BY <1>3, <1>4, <1>5

\* A set of numbers has a first one.
LEMMA FirstOf ==
    ASSUME NEW S \in SUBSET Nat, S # {}
    PROVE  \E x \in S : \A y \in S : x <= y
<1> DEFINE R == {p \in Nat \X Nat : p[1] < p[2]}
<1>1. IsWellFoundedOn(R, Nat)
  BY NatLessThanWellFounded, Zenon DEF OpToRel
<1>2. \A y, x \in Nat : y < x => <<y, x>> \in R
  OBVIOUS
<1> HIDE DEF R
<1>3. PICK x \in S : \A y \in S : ~ (<<y, x>> \in R)
  BY <1>1, WFMin
<1>4. \A y \in S : ~ (y < x)
  BY <1>2, <1>3, Zenon
<1>5. \A y \in S : x <= y
  BY <1>4
<1> QED
  BY <1>5

\* The first end-of-line.
LEMMA FirstEol ==
    ASSUME NEW m, LineOK(m), Eols(m) # {}
    PROVE  Min(Eols(m)) \in Eols(m) /\ \A i \in Eols(m) : Min(Eols(m)) <= i
<1>1. Eols(m) \in SUBSET Nat
  BY LineFields DEF Eols
<1>2. PICK e \in Eols(m) : \A i \in Eols(m) : e <= i
  BY <1>1, FirstOf
<1> QED
  BY <1>2 DEF Min

\* What z_stream_line_get_from_buf leaves in the stream.
Taken(m, q, e) ==
    Alike(m, q) /\ q.buf = m.buf /\ q.pos = e /\ q.oldpos = m.pos

Compacted(m, q) ==
    Alike(m, q) /\ q.buf = Left(m) /\ q.pos = 0 /\ Left(q) = Left(m) /\ Eols(q) = {}

\* Where the next line of m ends.
EndsAt(m, e) ==
    /\ e \in m.pos .. Len(m.buf)
    /\ IF "EOF" \in m.flags THEN e = Len(m.buf)
       ELSE e \in Eols(m) /\ \A i \in Eols(m) : e <= i

\* Moving pos to the end of a line.
LEMMA TakesPart ==
    ASSUME NEW m, LineOK(m), NEW e \in m.pos .. Len(m.buf)
    PROVE  Taken(m, [m EXCEPT !.oldpos = m.pos, !.pos = e], e)
<1> DEFINE q == [m EXCEPT !.oldpos = m.pos, !.pos = e]
<1>1. /\ m \in Lines /\ m.pos \in Nat /\ Len(m.buf) \in Nat /\ e \in Nat /\ e <= Len(m.buf)
      /\ Len(m.buf) <= m.bufsize
  BY LineFields
<1>2. q \in Lines
  BY <1>1 DEF Lines
<1>3. /\ q.buf = m.buf /\ q.pos = e /\ q.oldpos = m.pos
      /\ q.bufsize = m.bufsize /\ q.flags = m.flags /\ q.avail = m.avail
      /\ q.want_read = m.want_read
  BY <1>1 DEF Lines
<1>4. LineOK(q)
  BY <1>1, <1>2, <1>3 DEF LineOK
<1> QED
  BY <1>3, <1>4 DEF Taken, Alike

\* Moving what is left to the beginning of the buffer.
LEMMA Compacts ==
    ASSUME NEW m, LineOK(m), Eols(m) = {}
    PROVE  Compacted(m, [m EXCEPT !.buf = SubSeq(@, m.pos + 1, Len(@)), !.pos = 0, !.oldpos = 0])
<1> DEFINE q == [m EXCEPT !.buf = SubSeq(@, m.pos + 1, Len(@)), !.pos = 0, !.oldpos = 0]
<1>1. /\ m \in Lines /\ Left(m) \in Seq(STRING) /\ Len(Left(m)) = Len(m.buf) - m.pos
      /\ m.pos \in Nat /\ Len(m.buf) \in Nat /\ Len(m.buf) <= m.bufsize /\ m.bufsize \in Nat
      /\ m.pos <= Len(m.buf)
      /\ \A k \in 1 .. Len(m.buf) - m.pos : Left(m)[k] = m.buf[m.pos + k]
  BY LineFields
<1>2. q = [m EXCEPT !.buf = Left(m), !.pos = 0, !.oldpos = 0]
  BY <1>1 DEF Left, Lines
<1>3. 0 <= Len(Left(m)) /\ Len(Left(m)) <= m.bufsize
  BY <1>1
<1> HIDE DEF q
<1>4. Alike(m, q) /\ q.buf = Left(m) /\ q.pos = 0
  <2>1. Refill(m, q, Left(m), 0, 0)
    BY <1>1, <1>2, <1>3 DEF Refill
  <2> QED
    BY <2>1, Refilled
<1>5. Left(q) = Left(m)
  <2>1. \A s \in Seq(STRING) : SubSeq(s, 0 + 1, Len(s)) = s
    OBVIOUS
  <2>2. Left(q) = SubSeq(Left(m), 0 + 1, Len(Left(m)))
    BY <1>4 DEF Left
  <2> QED
    BY <1>1, <2>1, <2>2
<1>6. Eols(q) = {}
  <2> SUFFICES ASSUME NEW k \in 1 .. Len(Left(m)), Left(m)[k] = EolByte
               PROVE  FALSE
    BY <1>1, <1>4 DEF Eols
  <2>1. m.pos + k \in m.pos + 1 .. Len(m.buf) /\ m.buf[m.pos + k] = EolByte
    BY <1>1
  <2> QED
    BY <2>1 DEF Eols
<1> QED
  BY <1>4, <1>5, <1>6 DEF Compacted, q

\* z_stream_line_get_from_buf finds the next line, or compacts the buffer.
LEMMA FromBuf ==
    ASSUME NEW m, LineOK(m)
    PROVE  \/ /\ Eols(m) = {} /\ "EOF" \notin m.flags
              /\ z_stream_line_get_from_buf(m)[1] = AGAIN
              /\ Compacted(m, z_stream_line_get_from_buf(m)[2])
           \/ \E e : /\ EndsAt(m, e)
                     /\ z_stream_line_get_from_buf(m)[1] = LineTo(m, e)
                     /\ Taken(m, z_stream_line_get_from_buf(m)[2], e)
<1>1. CASE "EOF" \in m.flags \/ Eols(m) # {}
  <2> DEFINE e == IF "EOF" \in m.flags THEN Len(m.buf) ELSE Min(Eols(m))
  <2>1. /\ z_stream_line_get_from_buf(m)[1] = LineTo(m, e)
        /\ z_stream_line_get_from_buf(m)[2] = [m EXCEPT !.oldpos = m.pos, !.pos = e]
    BY <1>1 DEF z_stream_line_get_from_buf
  <2>2. EndsAt(m, e)
    <3>1. CASE "EOF" \in m.flags
      BY <3>1, LineFields DEF EndsAt
    <3>2. CASE "EOF" \notin m.flags
      <4>1. e \in Eols(m) /\ \A i \in Eols(m) : e <= i
        BY <1>1, <3>2, FirstEol
      <4>2. e \in m.pos .. Len(m.buf)
        BY <4>1, LineFields DEF Eols
      <4> QED
        BY <3>2, <4>1, <4>2 DEF EndsAt
    <3> QED
      BY <3>1, <3>2
  <2> HIDE DEF e
  <2>3. e \in m.pos .. Len(m.buf)
    BY <2>2 DEF EndsAt
  <2>4. Taken(m, [m EXCEPT !.oldpos = m.pos, !.pos = e], e)
    BY <2>3, TakesPart
  <2> QED
    BY <2>1, <2>2, <2>4
<1>2. CASE "EOF" \notin m.flags /\ Eols(m) = {}
  BY <1>2, Compacts DEF z_stream_line_get_from_buf
<1> QED
  BY <1>1, <1>2

\* A line that is handed out: its data are all or the first bytes of the part.
LEMMA LineData ==
    ASSUME NEW m, LineOK(m), NEW e \in m.pos .. Len(m.buf)
    PROVE  /\ LineTo(m, e).status \in {"NORMAL", "ERROR", "OVERRUN"}
           /\ LineTo(m, e).data \in Seq(STRING)
           /\ Len(LineTo(m, e).data) <= e - m.pos
           /\ LineTo(m, e).status = "NORMAL" /\ "RETURN_EOL" \in m.flags
                => LineTo(m, e).data = SubSeq(m.buf, m.pos + 1, e)
           /\ LineTo(m, e).status = "NORMAL" /\ "RETURN_EOL" \notin m.flags
                => /\ EolLen(m, e) \in 0 .. 2 /\ EolLen(m, e) <= e - m.pos
                   /\ LineTo(m, e).data = SubSeq(m.buf, m.pos + 1, e - EolLen(m, e))
<1> DEFINE raw == SubSeq(m.buf, m.pos + 1, e)
           eol == EolLen(m, e)
           len == IF "RETURN_EOL" \in m.flags THEN Len(raw) ELSE Len(raw) - eol
           nul == "EOL_NUL" \notin m.flags /\ "NUL_NONFATAL" \notin m.flags
                  /\ \E i \in DOMAIN raw : raw[i] = "NUL"
<1>1. LineTo(m, e) = IF nul \/ eol = -1 THEN ERROR
                     ELSE IF len < 0 THEN Outcome("OVERRUN", <<>>)
                     ELSE NORMAL(SubSeq(raw, 1, len))
  BY DEF LineTo
<1>2. /\ m.buf \in Seq(STRING) /\ m.pos \in Nat /\ Len(m.buf) \in Nat /\ e \in Nat
      /\ m.pos <= e /\ e <= Len(m.buf)
  BY LineFields
<1>3. raw \in Seq(STRING) /\ Len(raw) = e - m.pos
  BY <1>2, BytesCut
<1>4. eol \in {-1, 0, 1, 2}
  BY DEF EolLen
<1>5. <<>> \in Seq(STRING) /\ Len(<<>>) = 0
  OBVIOUS
<1> HIDE DEF eol, nul, raw
<1>6. CASE nul \/ eol = -1
  <2>1. LineTo(m, e) = [status |-> "ERROR", data |-> <<>>]
    BY <1>1, <1>6 DEF ERROR, Outcome
  <2> QED
    BY <1>2, <1>5, <2>1
<1>7. CASE ~(nul \/ eol = -1) /\ len < 0
  <2>1. LineTo(m, e) = [status |-> "OVERRUN", data |-> <<>>]
    BY <1>1, <1>7 DEF Outcome
  <2> QED
    BY <1>2, <1>5, <2>1
<1>8. CASE ~(nul \/ eol = -1) /\ ~(len < 0)
  <2>1. LineTo(m, e).status = "NORMAL" /\ LineTo(m, e).data = SubSeq(raw, 1, len)
    <3>1. LineTo(m, e) = NORMAL(SubSeq(raw, 1, len))
      <4> HIDE DEF len
      <4> QED
        BY <1>1, <1>8
    <3>2. NORMAL(SubSeq(raw, 1, len)) = [status |-> "NORMAL", data |-> SubSeq(raw, 1, len)]
      BY DEF NORMAL, Outcome
    <3> HIDE DEF len
    <3> QED
      BY <3>1, <3>2
  <2>2. eol \in 0 .. 2 /\ len \in Nat /\ len <= Len(raw)
    BY <1>2, <1>3, <1>4, <1>8
  <2> HIDE DEF len
  <2>3. SubSeq(raw, 0 + 1, len) \in Seq(STRING) /\ Len(SubSeq(raw, 0 + 1, len)) = len - 0
    BY <1>3, <2>2, BytesCut
  <2>4. ASSUME NEW k \in Nat, k <= Len(raw)
        PROVE  SubSeq(raw, 1, k) = SubSeq(m.buf, m.pos + 1, m.pos + k)
    <3>1. /\ Len(SubSeq(raw, 0 + 1, k)) = k - 0 /\ SubSeq(raw, 0 + 1, k) \in Seq(STRING)
          /\ \A i \in 1 .. k - 0 : SubSeq(raw, 0 + 1, k)[i] = raw[0 + i]
      BY <1>3, <2>4, BytesCut
    <3>2. /\ SubSeq(m.buf, m.pos + 1, m.pos + k) \in Seq(STRING)
          /\ Len(SubSeq(m.buf, m.pos + 1, m.pos + k)) = (m.pos + k) - m.pos
          /\ \A i \in 1 .. (m.pos + k) - m.pos :
                SubSeq(m.buf, m.pos + 1, m.pos + k)[i] = m.buf[m.pos + i]
      <4>1. m.pos + k \in Nat /\ m.pos <= m.pos + k /\ m.pos + k <= Len(m.buf)
        BY <1>2, <1>3, <2>4
      <4> HIDE <2>4
      <4> QED
        BY <1>2, <4>1, BytesCut
    <3>3. \A i \in 1 .. e - m.pos : raw[i] = m.buf[m.pos + i]
      BY <1>2, BytesCut DEF raw
    <3> DEFINE x == SubSeq(raw, 1, k)
               y == SubSeq(m.buf, m.pos + 1, m.pos + k)
    <3>4. x \in Seq(STRING) /\ y \in Seq(STRING) /\ Len(x) = k /\ Len(y) = k
      <4>1. k - 0 = k /\ 0 + 1 = 1 /\ (m.pos + k) - m.pos = k
        BY <1>2
      <4> QED
        BY <3>1, <3>2, <4>1
    <3>5. \A i \in 1 .. Len(x) : x[i] = y[i]
      <4> SUFFICES ASSUME NEW i \in 1 .. k PROVE x[i] = y[i]
        BY <3>4
      <4>1. i \in 1 .. e - m.pos /\ i \in 1 .. k - 0 /\ i \in 1 .. (m.pos + k) - m.pos /\ 0 + i = i
        BY <1>2, <1>3, <2>4
      <4> QED
        BY <3>1, <3>2, <3>3, <4>1
    <3> HIDE DEF x, y
    <3>6. x = y
      BY <3>4, <3>5, SeqEqual
    <3> QED
      BY <3>6 DEF x, y
  <2>5. CASE "RETURN_EOL" \in m.flags
    <3>1. len = Len(raw) /\ m.pos + Len(raw) = e /\ Len(raw) \in Nat
      BY <1>2, <1>3, <2>5 DEF len
    <3>2. SubSeq(raw, 1, len) = SubSeq(m.buf, m.pos + 1, e)
      <4>1. Len(raw) <= Len(raw)
        BY <3>1
      <4> QED
        BY <2>4, <3>1, <4>1
    <3>3. Len(SubSeq(raw, 1, len)) <= e - m.pos /\ SubSeq(raw, 1, len) \in Seq(STRING)
      BY <1>2, <1>3, <2>2, <2>3
    <3> QED
      BY <2>1, <2>5, <3>2, <3>3
  <2>6. CASE "RETURN_EOL" \notin m.flags
    <3>1. len = Len(raw) - eol /\ m.pos + len = e - eol /\ eol <= e - m.pos
      BY <1>2, <1>3, <2>2, <2>6 DEF len
    <3>2. SubSeq(raw, 1, len) = SubSeq(m.buf, m.pos + 1, e - eol)
      BY <2>2, <2>4, <3>1
    <3>3. Len(SubSeq(raw, 1, len)) <= e - m.pos /\ SubSeq(raw, 1, len) \in Seq(STRING)
      BY <1>2, <1>3, <2>2, <2>3
    <3> QED
      BY <2>1, <2>2, <2>6, <3>1, <3>2, <3>3 DEF eol
  <2> QED
    BY <2>5, <2>6
<1> QED
  BY <1>6, <1>7, <1>8

-----------------------------------------------------------------------------
(* One read of the child. *)

\* The bytes move from what is unread to the line stream.
Moved(o, n) ==
    /\ o.status \in {"NORMAL", "AGAIN", "EOF", "ERROR"}
    /\ o.data \in Seq(STRING) /\ Len(o.data) <= n
    /\ o.status # "NORMAL" => o.data = <<>>
    /\ o.status = "EOF" => Unread = <<>>
    /\ sock' \in Seq(STRING) /\ fd' \in Fds /\ Len(fd'.ungot) <= 1
    /\ Unread \in Seq(STRING) /\ Unread' \in Seq(STRING)
    /\ Unread = o.data \o Unread'

UnreadParts ==
    (fd \in Fds /\ sock \in Seq(STRING) /\ Len(fd.ungot) <= 1)
      => /\ fd.ungot = <<>> => Unread = sock
         /\ fd.ungot # <<>> => Len(fd.ungot) = 1 /\ Head(fd.ungot) \in Seq(STRING)
                               /\ Unread = Head(fd.ungot) \o sock
         /\ Unread \in Seq(STRING)

\* What was not read, as a packet that was put back and the socket.
LEMMA UnreadNow == UnreadParts
  BY UnreadIs, UnreadBytes DEF UnreadParts

\* The same after a step.
LEMMA UnreadNext == UnreadParts'
  BY UnreadNow, PTL

\* A read from the child moves the first bytes that were not read.
LEMMA ReadMoves ==
    ASSUME fd \in Fds, sock \in Seq(STRING), Len(fd.ungot) <= 1,
           NEW n \in Nat, NEW o \in ReadOutcomes(n), z_stream_read(o)
    PROVE  Moved(o, n)
<1>1. UnreadParts
  BY UnreadNow
<1>2. fd.ungot \in Seq(Seq(STRING))
  BY DEF Fds
<1>3. CASE fd.ungot # <<>>
  <2> DEFINE h == Head(fd.ungot)
             k == Smaller(n, Len(h))
  <2>1. /\ Len(fd.ungot) = 1 /\ h \in Seq(STRING) /\ Unread = h \o sock
        /\ Unread \in Seq(STRING)
    BY <1>1, <1>3 DEF UnreadParts
  <2>2. o = [status |-> "NORMAL", data |-> SubSeq(h, 1, k)]
    BY <1>3 DEF ReadOutcomes, NORMAL, Outcome
  <2>3. k \in Nat /\ k <= Len(h) /\ k <= n /\ Len(h) \in Nat
    BY <2>1 DEF Smaller
  <2>4. /\ SubSeq(h, 1, k) \in Seq(STRING) /\ Len(SubSeq(h, 1, k)) = k
        /\ SubSeq(h, k + 1, Len(h)) \in Seq(STRING)
        /\ h = SubSeq(h, 1, k) \o SubSeq(h, k + 1, Len(h))
    <3> HIDE DEF h, k
    <3> QED
      BY <2>1, <2>3, BytesFirst
  <2>5. /\ sock' = sock
        /\ fd' = [fd EXCEPT !.ungot = IF k = Len(h) THEN Tail(fd.ungot)
                                     ELSE <<SubSeq(h, k + 1, Len(h))>> \o Tail(fd.ungot)]
    BY <1>3, <2>2, <2>4 DEF z_stream_read, Fds
  <2>7. Tail(fd.ungot) = <<>>
    BY <1>2, <1>3, OnlyPacket
  <2> DEFINE left == SubSeq(h, k + 1, Len(h))
  <2>8. \/ k = Len(h) /\ fd' = [fd EXCEPT !.ungot = <<>>]
        \/ k # Len(h) /\ fd' = [fd EXCEPT !.ungot = <<left>>]
    <3>1. <<left>> \o <<>> = <<left>>
      OBVIOUS
    <3> QED
      BY <2>5, <2>7, <3>1
  <2>9. <<>> \in Seq(Seq(STRING)) /\ <<left>> \in Seq(Seq(STRING)) /\ Len(<<left>>) = 1
        /\ Len(<<>>) = 0 /\ <<left>> # <<>> /\ Head(<<left>>) = left
    <3>1. left \in Seq(STRING)
      BY <2>4
    <3> HIDE DEF left
    <3>2. <<left>> \in Seq(Seq(STRING))
      BY <3>1
    <3>3. <<>> \in Seq(Seq(STRING)) /\ Len(<<>>) = 0
      BY EmptySeq
    <3>4. Len(<<left>>) = 1 /\ <<left>> # <<>> /\ Head(<<left>>) = left
      OBVIOUS
    <3> QED
      BY <3>2, <3>3, <3>4
  <2> HIDE DEF left
  <2>10. /\ fd' \in Fds
         /\ \/ k = Len(h) /\ fd'.ungot = <<>>
            \/ k # Len(h) /\ fd'.ungot = <<left>>
    <3>1. \A u \in Seq(Seq(STRING)) : [fd EXCEPT !.ungot = u] \in Fds
                                       /\ [fd EXCEPT !.ungot = u].ungot = u
      BY DEF Fds
    <3> QED
      BY <2>8, <2>9, <3>1
  <2>11. Len(fd'.ungot) <= 1 /\ sock' \in Seq(STRING)
    BY <2>5, <2>9, <2>10
  <2>12. /\ Unread' \in Seq(STRING)
         /\ Unread' = IF k = Len(h) THEN sock ELSE left \o sock
    BY UnreadNext, <2>5, <2>9, <2>10, <2>11 DEF UnreadParts
  <2>13. Unread = o.data \o Unread'
    <3> DEFINE first == SubSeq(h, 1, k)
    <3>1. first \in Seq(STRING) /\ left \in Seq(STRING) /\ h = first \o left /\ Len(first) = k
      BY <2>4 DEF left
    <3>2. o.data = first
      BY <2>2
    <3> HIDE DEF first, h, k
    <3>3. CASE k = Len(h)
      <4>1. Len(h) = Len(first) + Len(left)
        BY <3>1, BytesJoined
      <4>2. Len(left) = 0
        BY <2>3, <3>1, <3>3, <4>1
      <4>3. left = <<>>
        BY <3>1, <4>2
      <4>4. h = first
        BY <3>1, <4>3
      <4> QED
        BY <2>1, <2>12, <3>2, <3>3, <4>4
    <3>4. CASE k # Len(h)
      <4>1. (first \o left) \o sock = first \o (left \o sock)
        BY <3>1, ConcatAssociative
      <4> QED
        BY <2>1, <2>12, <3>1, <3>2, <3>4, <4>1
    <3> QED
      BY <3>3, <3>4
  <2>14. o.status = "NORMAL" /\ o.data \in Seq(STRING) /\ Len(o.data) <= n
    <3> HIDE DEF h, k
    <3> QED
      BY <2>2, <2>3, <2>4
  <2> QED
    BY <2>1, <2>10, <2>11, <2>12, <2>13, <2>14 DEF Moved
<1>4. CASE fd.ungot = <<>>
  <2>1. Unread = sock /\ fd' = fd /\ sock' = SubSeq(sock, Len(o.data) + 1, Len(sock))
    BY <1>1, <1>4 DEF UnreadParts, z_stream_read
  <2>2. \/ \E k \in 1 .. Smaller(Smaller(n, MaxChunk), Len(sock)) :
              o = [status |-> "NORMAL", data |-> SubSeq(sock, 1, k)]
        \/ sock = <<>> /\ o = [status |-> "EOF", data |-> <<>>]
        \/ o = [status |-> "AGAIN", data |-> <<>>]
        \/ o = [status |-> "ERROR", data |-> <<>>]
    <3>1. o \in ReadChars(n) \/ o = ERROR
      BY <1>4 DEF ReadOutcomes, z_stream_fd_read_method
    <3> QED
      BY <3>1 DEF ReadChars, NORMAL, EOF, AGAIN, ERROR, Outcome
  <2>3. /\ o.status \in {"NORMAL", "AGAIN", "EOF", "ERROR"}
        /\ \E k \in Nat : /\ k <= Len(sock) /\ k <= n /\ o.data = SubSeq(sock, 1, k)
                          /\ o.status # "NORMAL" => k = 0
        /\ o.status = "EOF" => sock = <<>>
    <3>1. CASE o.status = "NORMAL"
      <4>1. PICK k \in 1 .. Smaller(Smaller(n, MaxChunk), Len(sock)) :
              o = [status |-> "NORMAL", data |-> SubSeq(sock, 1, k)]
        BY <2>2, <3>1
      <4>2. k \in Nat /\ k <= Len(sock) /\ k <= n
        BY ChunkAssumption DEF Smaller
      <4> QED
        BY <3>1, <4>1, <4>2
    <3>2. CASE o.status # "NORMAL"
      <4>1. o.data = <<>> /\ o.status \in {"AGAIN", "EOF", "ERROR"} /\ (o.status = "EOF" => sock = <<>>)
        BY <2>2, <3>2
      <4>2. SubSeq(sock, 1, 0) = <<>> /\ 0 <= Len(sock) /\ 0 <= n
        OBVIOUS
      <4> QED
        BY <3>2, <4>1, <4>2
    <3> QED
      BY <3>1, <3>2
  <2>4. PICK k \in Nat : /\ k <= Len(sock) /\ k <= n /\ o.data = SubSeq(sock, 1, k)
                         /\ o.status # "NORMAL" => k = 0
    BY <2>3
  <2>5. /\ o.data \in Seq(STRING) /\ Len(o.data) = k
        /\ SubSeq(sock, k + 1, Len(sock)) \in Seq(STRING)
        /\ sock = o.data \o SubSeq(sock, k + 1, Len(sock))
        /\ k = 0 => o.data = <<>>
    <3>1. k = 0 => SubSeq(sock, 1, k) = <<>>
      OBVIOUS
    <3> QED
      BY <2>4, <3>1, BytesFirst
  <2>6. sock' \in Seq(STRING) /\ sock = o.data \o sock'
    BY <2>1, <2>5
  <2>7. Unread' = sock'
    BY UnreadNext, <1>4, <2>1, <2>6 DEF UnreadParts
  <2>8. Len(o.data) <= n
    BY <2>4, <2>5
  <2> QED
    BY <1>4, <2>1, <2>3, <2>4, <2>5, <2>6, <2>7, <2>8 DEF Moved
<1> QED
  BY <1>3, <1>4

-----------------------------------------------------------------------------
(* What a call for a line does with the stream n it looks through. *)

Outs == [n : Int, before : Seq(STRING), last : Seq(STRING)]

\* No line is there.
TakeAgain(n, copy) ==
    /\ Eols(n) = {} /\ "EOF" \notin n.flags
    /\ Compacted(n, l')
    /\ UNCHANGED <<out, history>>
    /\ call' = NoCall \/ (call'.op = "get" /\ call'.size = copy)

\* The line cannot be handed out.
TakeBad(n) ==
    /\ LineOK(l') /\ l'.bufsize = n.bufsize /\ l'.avail = n.avail /\ l'.want_read = n.want_read
    /\ n.flags \subseteq l'.flags /\ l'.flags \subseteq n.flags \cup {"ERROR"}
    /\ out' = out /\ call' = NoCall
    /\ history \subseteq history' /\ history' \cap {"failed", "overrun"} # {}

\* The line that ends at e is handed out.
TakeLine(n, copy) ==
    \E e, q : /\ EndsAt(n, e) /\ Taken(n, q, e)
              /\ LineTo(n, e).status = "NORMAL"
              /\ Answer(LineTo(n, e).data, q, copy)

Taking(n, copy) == TakeAgain(n, copy) \/ TakeBad(n) \/ TakeLine(n, copy)

\* The rest of a truncated line is passed over.
SkipsTo(m, n, e) ==
    /\ "IGNORE" \in m.flags
    /\ EndsAt(m, e) /\ LineTo(m, e).status = "NORMAL"
    /\ LineOK(n) /\ n.buf = m.buf /\ n.pos = e
    /\ n.bufsize = m.bufsize /\ n.avail = m.avail /\ n.want_read = m.want_read
    /\ n.flags = m.flags \ {"IGNORE"}

Took(m, copy) ==
    \/ Taking(m, copy) /\ ("IGNORE" \in m.flags => TakeAgain(m, copy) \/ TakeBad(m))
    \/ \E n, e : SkipsTo(m, n, e) /\ Taking(n, copy)

\* A failed call hands nothing out.
LEMMA GivesUp ==
    ASSUME NEW n, LineOK(n), NEW q, Alike(n, q), NEW what,
           what \cap {"failed", "overrun"} # {},
           NoAnswer(q, what) \/ NoAnswer([q EXCEPT !.flags = @ \cup {"ERROR"}], what)
    PROVE  TakeBad(n)
<1>1. history \subseteq history' /\ history' \cap {"failed", "overrun"} # {}
      /\ call' = NoCall /\ out' = out
  BY DEF NoAnswer
<1>2. CASE l' = q
  BY <1>1, <1>2 DEF TakeBad, Alike
<1>3. CASE l' = [q EXCEPT !.flags = @ \cup {"ERROR"}]
  <2>1. l' = [q EXCEPT !.flags = q.flags \cup {"ERROR"}] /\ LineOK(q)
    BY <1>3 DEF Alike, LineOK, Lines
  <2>2. q.flags \cup {"ERROR"} \in SUBSET LineFlags
    BY <2>1, LineFields DEF LineFlags
  <2>3. /\ LineOK(l') /\ l'.bufsize = q.bufsize /\ l'.flags = q.flags \cup {"ERROR"}
        /\ l'.avail = q.avail /\ l'.want_read = q.want_read
    <3>1. Reflag(q, l', q.flags \cup {"ERROR"})
      BY <2>1, <2>2 DEF Reflag
    <3> QED
      BY <2>1, <3>1, Reflagged
  <2> QED
    BY <1>1, <2>3 DEF TakeBad, Alike
<1> QED
  BY <1>2, <1>3 DEF NoAnswer

\* What z_stream_line_get_internal does with what is in the buffer.
LEMMA FoundTakes ==
    ASSUME NEW m, LineOK(m), NEW copy,
           TakeFound(z_stream_line_get_from_buf(m)[1], z_stream_line_get_from_buf(m)[2], copy)
    PROVE  Taking(m, copy)
<1> DEFINE o == z_stream_line_get_from_buf(m)[1]
           q == z_stream_line_get_from_buf(m)[2]
<1>1. TakeFound(o, q, copy)
  OBVIOUS
<1>2. CASE /\ Eols(m) = {} /\ "EOF" \notin m.flags /\ o = AGAIN /\ Compacted(m, q)
  <2>1. o.status = "AGAIN"
    BY <1>2 DEF AGAIN, Outcome
  <2> HIDE DEF o, q
  <2>2. call' = [op |-> "get", size |-> copy] /\ l' = q /\ UNCHANGED <<out, history>>
    BY <1>1, <2>1 DEF TakeFound
  <2> QED
    BY <1>2, <2>2 DEF Taking, TakeAgain
<1>3. ASSUME NEW e, EndsAt(m, e), o = LineTo(m, e), Taken(m, q, e)
      PROVE  Taking(m, copy)
  <2>1. e \in m.pos .. Len(m.buf)
    BY <1>3 DEF EndsAt
  <2>2. o.status \in {"NORMAL", "ERROR", "OVERRUN"}
    BY <1>3, <2>1, LineData
  <2>3. Alike(m, q)
    BY <1>3 DEF Taken
  <2> HIDE DEF o, q
  <2>4. CASE o.status = "NORMAL"
    <3>1. Answer(o.data, q, copy)
      BY <1>1, <2>4 DEF TakeFound
    <3> QED
      BY <1>3, <2>4, <3>1 DEF Taking, TakeLine
  <2>5. CASE o.status = "OVERRUN"
    <3>1. NoAnswer(q, {"overrun"})
      BY <1>1, <2>5 DEF TakeFound
    <3> QED
      BY <2>3, <3>1, GivesUp DEF Taking
  <2>6. CASE o.status = "ERROR"
    <3>1. NoAnswer([q EXCEPT !.flags = @ \cup {"ERROR"}], {"failed"})
      BY <1>1, <2>6 DEF TakeFound
    <3> QED
      BY <2>3, <3>1, GivesUp DEF Taking
  <2> QED
    BY <2>2, <2>4, <2>5, <2>6
<1> QED
  BY <1>2, <1>3, FromBuf

\* The same after a read.
LEMMA ReadTakes ==
    ASSUME NEW m, LineOK(m), NEW copy, call.op = "get", call.size = copy, NEW found,
           found = z_stream_line_get_from_buf(m), TakeRead(found, copy)
    PROVE  Taking(m, copy) /\ (found[1].status # "NORMAL" => TakeAgain(m, copy) \/ TakeBad(m))
<1>1. CASE /\ Eols(m) = {} /\ "EOF" \notin m.flags /\ found[1] = AGAIN /\ Compacted(m, found[2])
  <2>1. found[1].status = "AGAIN"
    BY <1>1 DEF AGAIN, Outcome
  <2>2. NoAnswer(found[2], {}) \/ (l' = found[2] /\ UNCHANGED <<call, out, history>>)
    BY <2>1 DEF TakeRead
  <2>3. l' = found[2] /\ (call' = NoCall \/ call' = call) /\ UNCHANGED <<out, history>>
    BY <2>2 DEF NoAnswer
  <2> QED
    BY <1>1, <2>3 DEF Taking, TakeAgain
<1>2. ASSUME NEW e, EndsAt(m, e), found[1] = LineTo(m, e), Taken(m, found[2], e)
      PROVE  Taking(m, copy) /\ (found[1].status # "NORMAL" => TakeAgain(m, copy) \/ TakeBad(m))
  <2>1. e \in m.pos .. Len(m.buf)
    BY <1>2 DEF EndsAt
  <2>2. found[1].status \in {"NORMAL", "ERROR", "OVERRUN"}
    BY <1>2, <2>1, LineData
  <2>3. Alike(m, found[2])
    BY <1>2 DEF Taken
  <2>4. CASE found[1].status = "NORMAL"
    <3>1. Answer(found[1].data, found[2], copy)
      BY <2>4 DEF TakeRead
    <3> QED
      BY <1>2, <2>4, <3>1 DEF Taking, TakeLine
  <2>5. CASE found[1].status = "OVERRUN"
    <3>1. NoAnswer(found[2], {"overrun"})
      BY <2>5 DEF TakeRead
    <3> QED
      BY <2>3, <3>1, GivesUp DEF Taking
  <2>6. CASE found[1].status = "ERROR"
    <3>1. NoAnswer(found[2], {"failed"})
      BY <2>6 DEF TakeRead
    <3> QED
      BY <2>3, <3>1, GivesUp DEF Taking
  <2> QED
    BY <2>2, <2>4, <2>5, <2>6
<1> QED
  BY <1>1, <1>2, FromBuf

\* The same when the rest of a truncated line is passed over first.
LEMMA SkippedTakes ==
    ASSUME NEW m, LineOK(m), NEW copy, call.op = "get", call.size = copy,
           TakeRead(Skipped(z_stream_line_get_from_buf(m)), copy)
    PROVE  Took(m, copy)
<1> DEFINE found == z_stream_line_get_from_buf(m)
<1>1. CASE ~(found[1].status = "NORMAL" /\ "IGNORE" \in found[2].flags)
  <2>1. TakeRead(found, copy)
    BY <1>1 DEF Skipped
  <2>2. found[2].flags = m.flags
    BY FromBuf DEF Taken, Compacted, Alike
  <2> HIDE DEF found
  <2>3. Taking(m, copy) /\ (found[1].status # "NORMAL" => TakeAgain(m, copy) \/ TakeBad(m))
    <3>1. found = z_stream_line_get_from_buf(m)
      BY DEF found
    <3> QED
      BY <2>1, <3>1, ReadTakes
  <2> QED
    BY <1>1, <2>2, <2>3 DEF Took
<1>2. CASE found[1].status = "NORMAL" /\ "IGNORE" \in found[2].flags
  <2> DEFINE n == [found[2] EXCEPT !.flags = @ \ {"IGNORE"}]
  <2>1. TakeRead(z_stream_line_get_from_buf(n), copy)
    BY <1>2 DEF Skipped
  <2>2. found[1].status # "AGAIN"
    BY <1>2
  <2>3. PICK e : EndsAt(m, e) /\ found[1] = LineTo(m, e) /\ Taken(m, found[2], e)
    BY <2>2, FromBuf DEF AGAIN, Outcome
  <2>4. LineOK(found[2]) /\ found[2].flags = m.flags
    BY <2>3 DEF Taken, Alike
  <2>5. n = [found[2] EXCEPT !.flags = found[2].flags \ {"IGNORE"}]
    BY <2>4 DEF LineOK, Lines
  <2>6. found[2].flags \ {"IGNORE"} \in SUBSET LineFlags
    BY <2>4, LineFields
  <2> HIDE DEF found, n
  <2>7. SkipsTo(m, n, e)
    <3>1. Reflag(found[2], n, found[2].flags \ {"IGNORE"})
      BY <2>5, <2>6 DEF Reflag
    <3> QED
      BY <1>2, <2>3, <2>4, <3>1, Reflagged DEF SkipsTo, Taken, Alike
  <2>8. LineOK(n)
    BY <2>7 DEF SkipsTo
  <2>9. Taking(n, copy)
    BY <2>1, <2>8, ReadTakes
  <2> QED
    BY <2>7, <2>9 DEF Took
<1> QED
  BY <1>1, <1>2

\* What an answer does: all of the data, the first of them, or a failure.
Answers(d, m, copy) ==
    /\ call' = NoCall /\ Alike(m, l') /\ out' \in Outs
    /\ \/ Given(d) /\ l' = m /\ history' = history
       \/ /\ "SPLIT" \in m.flags /\ copy \in 1 .. Len(d) /\ history' = history
          /\ Given(SubSeq(d, 1, copy))
          /\ \/ m.buf = <<>> /\ l'.buf = d /\ l'.pos = copy
             \/ m.buf # <<>> /\ l'.buf = m.buf /\ l'.pos = m.oldpos + copy
       \/ l' = m /\ out' = out /\ history' = history \cup {"failed"}

\* Types of what has been given.
LEMMA GivenTypes ==
    ASSUME out \in Outs, NEW d \in Seq(STRING), Given(d)
    PROVE  out' \in Outs
<1>1. out.before \in Seq(STRING) /\ out.last \in Seq(STRING) /\ out.n \in Int
  BY DEF Outs
<1>2. out.before \o out.last \in Seq(STRING) /\ out.n + 1 \in Int
  BY <1>1, BytesJoined
<1> QED
  BY <1>2 DEF Given, Outs

\* The three ways a line is answered.
LEMMA AnswerIs ==
    ASSUME NEW m, LineOK(m), NEW d \in Seq(STRING), NEW copy \in Nat, out \in Outs,
           Len(d) <= m.bufsize, m.buf # <<>> => m.oldpos + Len(d) <= Len(m.buf),
           Answer(d, m, copy)
    PROVE  Answers(d, m, copy)
<1>1. call' = NoCall /\ Alike(m, m)
  BY DEF Answer, Alike
<1>2. /\ m \in Lines /\ m.buf \in Seq(STRING) /\ m.pos \in Nat /\ m.oldpos \in Nat
      /\ m.bufsize \in Nat /\ Len(m.buf) \in Nat /\ Len(m.buf) <= m.bufsize
  BY LineFields
<1>3. CASE copy = 0 \/ Len(d) <= copy
  <2>1. Given(d) /\ l' = m /\ history' = history
    BY <1>3 DEF Answer
  <2> QED
    BY <1>1, <2>1, GivenTypes DEF Answers
<1>4. CASE ~(copy = 0 \/ Len(d) <= copy) /\ "SPLIT" \in m.flags
  <2>1. /\ Given(SubSeq(d, 1, copy)) /\ history' = history
        /\ l' = IF m.buf = <<>> THEN [m EXCEPT !.buf = d, !.pos = copy]
                ELSE [m EXCEPT !.pos = m.oldpos + copy]
    BY <1>4 DEF Answer
  <2>2. copy \in 1 .. Len(d) /\ Len(d) \in Nat
    BY <1>4
  <2>3. out' \in Outs
    <3>1. SubSeq(d, 1, copy) \in Seq(STRING)
      BY <2>2, BytesFirst
    <3> QED
      BY <2>1, <3>1, GivenTypes
  <2>4. CASE m.buf = <<>>
    <3>1. l' = [m EXCEPT !.buf = d, !.pos = copy]
      BY <2>1, <2>4
    <3>2. l' = [m EXCEPT !.buf = d, !.pos = copy, !.oldpos = m.oldpos]
      BY <1>2, <3>1 DEF Lines
    <3>3. Refill(m, l', d, copy, m.oldpos)
      BY <1>2, <2>2, <3>2 DEF Refill
    <3>4. Alike(m, l') /\ l'.buf = d /\ l'.pos = copy
      BY <3>3, Refilled
    <3> QED
      BY <1>1, <1>4, <2>1, <2>2, <2>3, <2>4, <3>4 DEF Answers
  <2>5. CASE m.buf # <<>>
    <3>1. l' = [m EXCEPT !.pos = m.oldpos + copy]
      BY <2>1, <2>5
    <3>2. l' = [m EXCEPT !.buf = m.buf, !.pos = m.oldpos + copy, !.oldpos = m.oldpos]
      BY <1>2, <3>1 DEF Lines
    <3>3. m.oldpos + copy \in Nat /\ m.oldpos + copy <= Len(m.buf)
      BY <1>2, <2>2, <2>5
    <3>4. Refill(m, l', m.buf, m.oldpos + copy, m.oldpos)
      BY <1>2, <3>2, <3>3 DEF Refill
    <3>5. Alike(m, l') /\ l'.buf = m.buf /\ l'.pos = m.oldpos + copy
      BY <3>4, Refilled
    <3> QED
      BY <1>1, <1>4, <2>1, <2>2, <2>3, <2>5, <3>5 DEF Answers
  <2> QED
    BY <2>4, <2>5
<1>5. CASE ~(copy = 0 \/ Len(d) <= copy) /\ "SPLIT" \notin m.flags
  <2>1. history' = history \cup {"failed"} /\ l' = m /\ out' = out
    BY <1>5 DEF Answer
  <2> QED
    BY <1>1, <2>1 DEF Answers
<1> QED
  BY <1>3, <1>4, <1>5

\* The line that is handed out.
LEMMA LineAnswered ==
    ASSUME NEW n, LineOK(n), NEW copy \in Nat, out \in Outs, NEW e, NEW q,
           EndsAt(n, e), Taken(n, q, e), LineTo(n, e).status = "NORMAL",
           Answer(LineTo(n, e).data, q, copy)
    PROVE  Answers(LineTo(n, e).data, q, copy)
<1> DEFINE d == LineTo(n, e).data
<1>1. e \in n.pos .. Len(n.buf)
  BY DEF EndsAt
<1>2. d \in Seq(STRING) /\ Len(d) <= e - n.pos
  BY <1>1, LineData
<1>3. /\ n.pos \in Nat /\ Len(n.buf) \in Nat /\ Len(n.buf) <= n.bufsize /\ n.bufsize \in Nat
      /\ e \in Nat /\ e <= Len(n.buf)
  BY <1>1, LineFields
<1>4. LineOK(q) /\ q.bufsize = n.bufsize /\ q.buf = n.buf /\ q.oldpos = n.pos
  BY DEF Taken, Alike
<1>5. Answer(d, q, copy)
  OBVIOUS
<1> HIDE DEF d
<1>6. Len(d) <= q.bufsize /\ q.oldpos + Len(d) <= Len(q.buf)
  BY <1>2, <1>3, <1>4
<1>7. Answers(d, q, copy)
  BY <1>2, <1>4, <1>5, <1>6, AnswerIs
<1> QED
  BY <1>7 DEF d

-----------------------------------------------------------------------------
(* Types, and what is known when the poll loop sleeps. *)

\* The cached answer that there is no line is right, unless something was put back.
AnswerCached == l.avail = "no" /\ "ungot" \notin history => Eols(l) = {}

SleepInv == LineTypeOK /\ AnswerCached /\ NoSleepOnLine

\* The end-of-line byte is a matter of one flag.
LEMMA EolByteNext ==
    ASSUME "EOL_NUL" \in l'.flags <=> "EOL_NUL" \in l.flags
    PROVE  EolByte' = EolByte
  BY DEF EolByte

\* The ends of lines after a step.
LEMMA EolsNext ==
    ASSUME EolByte' = EolByte
    PROVE  Eols(l)' = Eols(l')
  BY DEF Eols

\* The application is awake, and what the last poll found is used up.
LEMMA AwakeInv ==
    ASSUME SleepInv, loop' # "sleeping", input' = input, sock' \in Seq(STRING),
           fd' \in Fds, Len(fd'.ungot) <= 1,
           LineOK(l'), out' \in Outs,
           call'.op \in {"get", "chunk"} => call'.size \in Nat,
           call'.op = "get" => Getting',
           call'.op \in {"chunk", "write"} => call' \in Calls,
           call'.op = "chunk" => "raw" \in history',
           l'.avail # "no" \/ "ungot" \in history' \/ Eols(l)' = {}
    PROVE  SleepInv'
<1>1. LineTypeOK'
  BY DEF SleepInv, LineTypeOK, Outs
<1>2. AnswerCached' /\ NoSleepOnLine'
  BY DEF AnswerCached, NoSleepOnLine
<1> QED
  BY <1>1, <1>2 DEF SleepInv

\* Types after a call that looks through the buffer.
LEMMA TakingTypes ==
    ASSUME NEW n, LineOK(n), n.avail = "unset",
           "EOL_NUL" \in n.flags <=> "EOL_NUL" \in l.flags,
           NEW copy \in Nat, out \in Outs, loop' = "app", Taking(n, copy)
    PROVE  /\ LineOK(l') /\ l'.avail = "unset" /\ out' \in Outs
           /\ call'.op \in {"get", "chunk"} => call'.size \in Nat
           /\ call'.op = "get" => Getting'
           /\ call'.op \notin {"chunk", "write"}
<1>1. NoCall.op \notin {"get", "chunk", "write"}
  BY DEF NoCall
<1>2. CASE TakeAgain(n, copy)
  <2>1. /\ LineOK(l') /\ l'.avail = "unset" /\ out' = out /\ l'.pos = 0 /\ Eols(l') = {}
        /\ l'.flags = n.flags /\ "EOF" \notin l'.flags
        /\ call' = NoCall \/ (call'.op = "get" /\ call'.size = copy)
    BY <1>2 DEF TakeAgain, Compacted, Alike
  <2>2. Eols(l)' = {}
    BY <2>1, EolByteNext, EolsNext
  <2> QED
    BY <1>1, <2>1, <2>2 DEF Getting
<1>3. CASE TakeBad(n)
  BY <1>1, <1>3 DEF TakeBad
<1>4. CASE TakeLine(n, copy)
  <2>1. PICK e, q : /\ EndsAt(n, e) /\ Taken(n, q, e)
                    /\ LineTo(n, e).status = "NORMAL"
                    /\ Answer(LineTo(n, e).data, q, copy)
    BY <1>4 DEF TakeLine
  <2>2. Answers(LineTo(n, e).data, q, copy)
    BY <2>1, LineAnswered
  <2>3. LineOK(l') /\ l'.avail = q.avail /\ q.avail = n.avail /\ out' \in Outs /\ call' = NoCall
    BY <2>1, <2>2 DEF Answers, Taken, Alike
  <2> QED
    BY <1>1, <2>3
<1> QED
  BY <1>2, <1>3, <1>4 DEF Taking

\* What the last poll found is used up: nothing else of the stream changes.
LEMMA PolledLine ==
    ASSUME NEW m, LineOK(m)
    PROVE  /\ LineOK(Polled(m)) /\ Polled(m).buf = m.buf /\ Polled(m).pos = m.pos
           /\ Polled(m).bufsize = m.bufsize /\ Polled(m).flags = m.flags
           /\ Polled(m).avail = "unset" /\ Left(Polled(m)) = Left(m)
<1>1. Polled(m) \in Lines
  BY DEF LineOK, Lines, Polled
<1>2. /\ Polled(m).buf = m.buf /\ Polled(m).pos = m.pos
      /\ Polled(m).bufsize = m.bufsize /\ Polled(m).flags = m.flags
      /\ Polled(m).avail = "unset"
  BY DEF LineOK, Lines, Polled
<1> QED
  BY <1>1, <1>2 DEF LineOK, Left

\* z_stream_line_get: what it does with the buffer.
LEMMA GetIs ==
    ASSUME LineTypeOK, NEW copy \in {0} \cup CopySizes, z_stream_line_get(copy)
    PROVE  /\ copy \in Nat /\ UNCHANGED <<sock, fd, input, sent, loop>>
           /\ loop = "app" /\ call = NoCall /\ history \cap {"failed", "overrun"} = {}
           /\ \/ l' = l /\ out' = out /\ call' = NoCall /\ history \subseteq history'
              \/ "EOF" \notin l.flags /\ Taking(Polled(l), copy)
              \/ /\ "EOF" \notin l.flags
                 /\ Len(l.buf) = l.pos /\ l' = Emptied(Polled(l))
                 /\ call' = [op |-> "get", size |-> copy] /\ UNCHANGED <<out, history>>
<1>1. copy \in Nat
  BY LineAssumption
<1>2. LineOK(l)
  BY DEF LineTypeOK
<1>3. /\ UNCHANGED <<sock, fd, input, sent, loop>>
      /\ loop = "app" /\ call = NoCall /\ history \cap {"failed", "overrun"} = {}
  BY DEF z_stream_line_get, Ready
<1>4. LineOK(Polled(l)) /\ Polled(l).buf = l.buf /\ Polled(l).pos = l.pos
  BY <1>2, PolledLine
<1>5. CASE "ERROR" \in l.flags \/ "EOF" \in l.flags
  BY <1>1, <1>3, <1>5 DEF z_stream_line_get, NoAnswer
<1>6. CASE ~("ERROR" \in l.flags \/ "EOF" \in l.flags) /\ Len(l.buf) # l.pos
  <2> DEFINE m == Polled(l)
  <2>1. TakeFound(z_stream_line_get_from_buf(m)[1], z_stream_line_get_from_buf(m)[2], copy)
    BY <1>4, <1>6 DEF z_stream_line_get
  <2> HIDE DEF m
  <2>2. LineOK(m)
    BY <1>4 DEF m
  <2>3. Taking(m, copy)
    BY <2>1, <2>2, FoundTakes
  <2> QED
    BY <1>1, <1>3, <1>6, <2>3 DEF m
<1>7. CASE ~("ERROR" \in l.flags \/ "EOF" \in l.flags) /\ Len(l.buf) = l.pos
  BY <1>1, <1>3, <1>4, <1>7 DEF z_stream_line_get
<1> QED
  BY <1>5, <1>6, <1>7

\* z_stream_line_get.
LEMMA GetInv ==
    ASSUME SleepInv, NEW copy \in {0} \cup CopySizes, z_stream_line_get(copy)
    PROVE  SleepInv'
<1>1. LineTypeOK
  BY DEF SleepInv
<1>2. /\ sock' \in Seq(STRING) /\ fd' \in Fds /\ Len(fd'.ungot) <= 1
      /\ input' = input /\ loop' = "app" /\ copy \in Nat /\ out \in Outs /\ LineOK(l)
  BY <1>1, GetIs DEF LineTypeOK, Outs
<1>3. NoCall.op \notin {"get", "chunk", "write"}
  BY DEF NoCall
<1>4. CASE l' = l /\ out' = out /\ call' = NoCall /\ history \subseteq history'
  <2>1. Eols(l)' = Eols(l)
    BY <1>4 DEF Eols, EolByte
  <2> QED
    BY <1>2, <1>3, <1>4, <2>1, AwakeInv DEF SleepInv, AnswerCached
<1>5. CASE Taking(Polled(l), copy)
  <2>1. /\ LineOK(Polled(l)) /\ Polled(l).avail = "unset" /\ Polled(l).flags = l.flags
    BY <1>2, PolledLine
  <2>2. /\ LineOK(l') /\ l'.avail = "unset" /\ out' \in Outs
        /\ call'.op \in {"get", "chunk"} => call'.size \in Nat
        /\ call'.op = "get" => Getting'
        /\ call'.op \notin {"chunk", "write"}
    BY <1>2, <1>5, <2>1, TakingTypes
  <2> QED
    BY <1>2, <2>2, AwakeInv
<1>6. CASE /\ "EOF" \notin l.flags
           /\ Len(l.buf) = l.pos /\ l' = Emptied(Polled(l))
           /\ call' = [op |-> "get", size |-> copy] /\ UNCHANGED <<out, history>>
  <2>1. /\ LineOK(l') /\ l'.avail = "unset" /\ l'.flags = l.flags /\ l'.pos = 0 /\ Eols(l') = {}
    BY <1>2, <1>6, PolledLine, EmptiedLine DEF Alike
  <2>2. Eols(l)' = {}
    BY <2>1, EolByteNext, EolsNext
  <2>3. Getting' /\ call'.size \in Nat
    BY <1>2, <1>6, <2>1, <2>2 DEF Getting
  <2> QED
    BY <1>2, <1>6, <2>1, <2>3, AwakeInv
<1> QED
  BY <1>1, <1>4, <1>5, <1>6, GetIs

\* BufferFull: a piece of the line is handed out, or the line is too long.
LEMMA FullIs ==
    ASSUME LineTypeOK, BufferFull
    PROVE  /\ call.op = "get" /\ Getting /\ UNCHANGED <<sock, fd, input, sent, loop>>
           /\ "IGNORE" \notin l.flags /\ Len(l.buf) = l.bufsize
           /\ \/ /\ TakeBad(l) /\ "TRUNCATE" \notin l.flags /\ "SPLIT" \notin l.flags
              \/ \E m : /\ LineOK(m) /\ m.buf = <<>> /\ m.pos = 0 /\ m.avail = "unset"
                        /\ m.bufsize = l.bufsize
                        /\ \/ "TRUNCATE" \in l.flags /\ m.flags = l.flags \cup {"IGNORE"}
                           \/ "TRUNCATE" \notin l.flags /\ "SPLIT" \in l.flags /\ m.flags = l.flags
                        /\ Answers(l.buf, m, call.size)
<1>1. /\ call.op = "get" /\ Getting /\ UNCHANGED <<sock, fd, input, sent, loop>>
      /\ "IGNORE" \notin l.flags /\ Len(l.buf) = l.bufsize
  BY DEF BufferFull, LineTypeOK, Full
<1>2. /\ LineOK(l) /\ l.buf \in Seq(STRING) /\ Len(l.buf) <= l.bufsize /\ l.avail = "unset"
      /\ call.size \in Nat /\ out \in Outs /\ l.bufsize \in Nat
  BY <1>1, LineFields DEF LineTypeOK, Outs, Getting
<1>3. /\ LineOK(Emptied(l)) /\ Emptied(l).buf = <<>> /\ Emptied(l).pos = 0
      /\ Emptied(l).bufsize = l.bufsize /\ Emptied(l).flags = l.flags
      /\ Emptied(l).avail = "unset"
  BY <1>2, EmptiedLine DEF Alike
<1>4. CASE "TRUNCATE" \in l.flags
  <2> DEFINE m == [Emptied(l) EXCEPT !.flags = @ \cup {"IGNORE"}]
  <2>1. Answer(l.buf, m, call.size)
    BY <1>4 DEF BufferFull
  <2>2. m = [Emptied(l) EXCEPT !.flags = l.flags \cup {"IGNORE"}]
    BY <1>3 DEF LineOK, Lines
  <2>3. Reflag(Emptied(l), m, l.flags \cup {"IGNORE"})
    <3>1. l.flags \cup {"IGNORE"} \in SUBSET LineFlags
      BY <1>2, LineFields DEF LineFlags
    <3> QED
      BY <2>2, <3>1 DEF Reflag
  <2> HIDE DEF m
  <2>4. /\ LineOK(m) /\ m.buf = <<>> /\ m.pos = 0 /\ m.avail = "unset"
        /\ m.bufsize = l.bufsize /\ m.flags = l.flags \cup {"IGNORE"}
    BY <1>3, <2>3, Reflagged
  <2>5. Answers(l.buf, m, call.size)
    BY <1>2, <2>1, <2>4, AnswerIs
  <2> QED
    BY <1>1, <1>4, <2>4, <2>5
<1>5. CASE "TRUNCATE" \notin l.flags /\ "SPLIT" \in l.flags
  <2>1. Answer(l.buf, Emptied(l), call.size)
    BY <1>5 DEF BufferFull
  <2>2. Answers(l.buf, Emptied(l), call.size)
    BY <1>2, <1>3, <2>1, AnswerIs
  <2> QED
    BY <1>1, <1>3, <1>5, <2>2
<1>6. CASE "TRUNCATE" \notin l.flags /\ "SPLIT" \notin l.flags
  <2>1. NoAnswer([l EXCEPT !.flags = @ \cup {"ERROR"}], {"failed"})
    BY <1>6 DEF BufferFull
  <2>2. Alike(l, l)
    BY <1>2 DEF Alike
  <2>3. TakeBad(l)
    BY <1>2, <2>1, <2>2, GivesUp
  <2> QED
    BY <1>1, <1>6, <2>3
<1> QED
  BY <1>4, <1>5, <1>6

\* BufferFull: the buffer is full and holds no end-of-line.
LEMMA FullInv ==
    ASSUME SleepInv, BufferFull
    PROVE  SleepInv'
<1>1. LineTypeOK
  BY DEF SleepInv
<1>2. /\ sock' \in Seq(STRING) /\ fd' \in Fds /\ Len(fd'.ungot) <= 1
      /\ input' = input /\ loop' = "app" /\ out \in Outs /\ l.avail = "unset"
  BY <1>1, FullIs DEF LineTypeOK, Outs, Getting
<1>3. LineOK(l') /\ out' \in Outs /\ call' = NoCall /\ l'.avail = "unset"
  BY <1>1, <1>2, FullIs DEF TakeBad, Answers, Alike
<1> QED
  BY <1>2, <1>3, AwakeInv DEF NoCall

\* The stream a read is made for.
Roomy == IF Full(l) THEN Emptied(l) ELSE l

\* The stream as z_stream_line_get_internal reads into it: a full buffer was emptied.
LEMMA RoomyLine ==
    ASSUME LineTypeOK, call.op = "get"
    PROVE  /\ Alike(l, Roomy) /\ Roomy.pos = 0 /\ Eols(Roomy) = {}
           /\ Len(Roomy.buf) \in Nat /\ Roomy.bufsize \in Nat /\ Roomy.buf \in Seq(STRING)
           /\ Roomy.bufsize - Len(Roomy.buf) \in Nat
           /\ \/ ~Full(l) /\ Roomy = l
              \/ Full(l) /\ Roomy.buf = <<>> /\ Left(Roomy) = <<>>
<1>1. /\ LineOK(l) /\ l.pos = 0 /\ Eols(l) = {} /\ Alike(l, l)
  BY DEF LineTypeOK, Getting, Alike
<1>2. CASE Full(l)
  <2>1. Roomy = Emptied(l)
    BY <1>2 DEF Roomy
  <2>2. /\ Alike(l, Roomy) /\ Roomy.buf = <<>> /\ Roomy.pos = 0
        /\ Left(Roomy) = <<>> /\ Eols(Roomy) = {}
    BY <1>1, <2>1, EmptiedLine
  <2>3. /\ Len(Roomy.buf) \in Nat /\ Roomy.bufsize \in Nat /\ Roomy.buf \in Seq(STRING)
        /\ Len(Roomy.buf) <= Roomy.bufsize
    BY <2>2, LineFields DEF Alike
  <2>4. Roomy.bufsize - Len(Roomy.buf) \in Nat
    BY <2>3
  <2> QED
    BY <1>2, <2>2, <2>3, <2>4
<1>3. CASE ~Full(l)
  <2>1. Roomy = l
    BY <1>3 DEF Roomy
  <2>2. /\ Len(l.buf) \in Nat /\ l.bufsize \in Nat /\ l.buf \in Seq(STRING)
        /\ Len(l.buf) <= l.bufsize
    BY <1>1, LineFields
  <2>3. l.bufsize - Len(l.buf) \in Nat
    BY <2>2
  <2> QED
    BY <1>1, <1>3, <2>1, <2>2, <2>3
<1> QED
  BY <1>2, <1>3

\* The stream with what was read behind the rest.
Filled(n, data) ==
    /\ LineOK(n) /\ n.pos = 0 /\ n.buf = Roomy.buf \o data
    /\ n.flags = l.flags /\ n.bufsize = l.bufsize /\ n.avail = "unset"

\* The stream whose child has ended.
Ended(n) ==
    /\ LineOK(n) /\ n.pos = 0 /\ n.buf = Roomy.buf /\ n.buf # <<>>
    /\ n.flags = l.flags \cup {"EOF"} /\ n.bufsize = l.bufsize /\ n.avail = "unset"

\* What is read fits behind what is there.
LEMMA FitsBehind ==
    \A x \in Nat : \A y \in Nat : \A z \in Nat : y <= z - x => x + y <= z /\ 0 <= x + y
  OBVIOUS

\* Lengths are numbers.
LEMMA LengthOfBytes ==
    \A s \in Seq(STRING) : Len(s) \in Nat
  OBVIOUS

\* The cases of a read: it fails, gives nothing, fills the buffer, or the child has ended.
LEMMA ReadIs ==
    ASSUME LineTypeOK, ReadMore
    PROVE  /\ call.op = "get" /\ Getting /\ UNCHANGED <<input, sent, loop>>
           /\ call.size \in Nat /\ (Full(l) => "IGNORE" \in l.flags)
           /\ \E o : /\ Moved(o, Roomy.bufsize - Len(Roomy.buf))
                     /\ \/ o.data = <<>> /\ TakeBad(Roomy)
                        \/ /\ o.data = <<>> /\ l' = Roomy /\ out' = out /\ call' = NoCall
                           /\ history \subseteq history'
                        \/ \E n : Filled(n, o.data) /\ Took(n, call.size)
                        \/ /\ o.data = <<>> /\ Unread = <<>> /\ Unread' = <<>>
                           /\ \E n : Ended(n) /\ Took(n, call.size)
<1> DEFINE m == IF Full(l) THEN Emptied(l) ELSE l
           room == m.bufsize - Len(m.buf)
<1>1. /\ call.op = "get" /\ Getting /\ UNCHANGED <<input, sent, loop>>
      /\ call.size \in Nat /\ (Full(l) => "IGNORE" \in l.flags)
  BY DEF ReadMore, LineTypeOK
<1>2. PICK o :
          /\ o \in ReadOutcomes(room)
          /\ z_stream_read(o)
          /\ CASE o.status = "AGAIN" -> NoAnswer(m, {})
               [] o.status = "ERROR" ->
                     NoAnswer([m EXCEPT !.flags = @ \cup {"ERROR"}], {"failed"})
               [] o.status = "EOF" /\ Len(m.buf) = m.pos -> NoAnswer(m, {"eof"})
               [] o.status = "EOF" /\ Len(m.buf) # m.pos ->
                     TakeRead(Skipped(z_stream_line_get_from_buf(
                                  [m EXCEPT !.flags = @ \cup {"EOF"}])), call.size)
               [] o.status = "NORMAL" ->
                     TakeRead(Skipped(z_stream_line_get_from_buf(
                                  [m EXCEPT !.buf = @ \o o.data])), call.size)
  BY DEF ReadMore
<1>3. m = Roomy
  BY DEF Roomy
<1> HIDE DEF m
<1>4. /\ Alike(l, m) /\ m.pos = 0 /\ LineOK(m) /\ m.flags = l.flags /\ m.bufsize = l.bufsize
      /\ m.avail = "unset" /\ room \in Nat
      /\ Len(m.buf) \in Nat /\ m.bufsize \in Nat /\ m.buf \in Seq(STRING) /\ m \in Lines
  BY <1>1, <1>3, RoomyLine DEF Alike, Getting, LineOK
<1>5. Moved(o, room)
  BY <1>2, <1>4, ReadMoves DEF LineTypeOK
<1>6. o.status \in {"NORMAL", "AGAIN", "EOF", "ERROR"} /\ (o.status # "NORMAL" => o.data = <<>>)
      /\ o.data \in Seq(STRING) /\ Len(o.data) <= room
      /\ (o.status = "EOF" => Unread = <<>>) /\ Unread' \in Seq(STRING) /\ Unread = o.data \o Unread'
  BY <1>5 DEF Moved
<1>7. CASE o.status = "AGAIN" \/ (o.status = "EOF" /\ Len(m.buf) = m.pos)
  <2>1. NoAnswer(m, {}) \/ NoAnswer(m, {"eof"})
    BY <1>2, <1>7
  <2>2. l' = m /\ out' = out /\ call' = NoCall /\ history \subseteq history'
    BY <2>1 DEF NoAnswer
  <2> QED
    BY <1>1, <1>3, <1>5, <1>6, <1>7, <2>2
<1>8. CASE o.status = "ERROR"
  <2>1. NoAnswer([m EXCEPT !.flags = @ \cup {"ERROR"}], {"failed"})
    BY <1>2, <1>8
  <2>2. TakeBad(m)
    <3>1. Alike(m, m)
      BY <1>4 DEF Alike
    <3> QED
      BY <1>4, <2>1, <3>1, GivesUp
  <2> QED
    BY <1>1, <1>3, <1>5, <1>6, <1>8, <2>2
<1>9. CASE o.status = "EOF" /\ Len(m.buf) # m.pos
  <2> DEFINE n == [m EXCEPT !.flags = @ \cup {"EOF"}]
  <2>1. TakeRead(Skipped(z_stream_line_get_from_buf(n)), call.size)
    BY <1>2, <1>9
  <2>2. n = [m EXCEPT !.flags = l.flags \cup {"EOF"}]
    BY <1>4 DEF Lines
  <2>3. Reflag(m, n, l.flags \cup {"EOF"})
    <3>1. l.flags \cup {"EOF"} \in SUBSET LineFlags
      BY <1>4, LineFields DEF LineFlags
    <3> QED
      BY <2>2, <3>1 DEF Reflag
  <2> HIDE DEF n
  <2>4. /\ LineOK(n) /\ n.pos = 0 /\ n.buf = m.buf /\ n.flags = l.flags \cup {"EOF"}
        /\ n.bufsize = l.bufsize /\ n.avail = "unset"
    BY <1>4, <2>3, Reflagged
  <2>5. m.buf # <<>>
    BY <1>4, <1>9
  <2>6. Ended(n)
    BY <1>3, <2>4, <2>5 DEF Ended
  <2>7. Took(n, call.size)
    BY <1>1, <2>1, <2>4, SkippedTakes
  <2>8. Unread = <<>> /\ Unread' = <<>>
    BY <1>6, <1>9
  <2> QED
    BY <1>1, <1>3, <1>5, <1>6, <1>9, <2>6, <2>7, <2>8
<1>10. CASE o.status = "NORMAL"
  <2> DEFINE n == [m EXCEPT !.buf = @ \o o.data]
  <2>1. TakeRead(Skipped(z_stream_line_get_from_buf(n)), call.size)
    BY <1>2, <1>10
  <2>2. PICK b : b = m.buf \o o.data
    OBVIOUS
  <2>3. b \in Seq(STRING) /\ Len(b) = Len(m.buf) + Len(o.data)
    BY <1>4, <1>6, <2>2, BytesJoined
  <2>4. Len(b) <= m.bufsize /\ 0 <= Len(b)
    <3>1. room = m.bufsize - Len(m.buf)
      OBVIOUS
    <3>2. Len(o.data) \in Nat
      BY <1>6
    <3>3. /\ room \in Nat /\ Len(m.buf) \in Nat /\ m.bufsize \in Nat
          /\ Len(o.data) <= room /\ Len(b) = Len(m.buf) + Len(o.data)
      BY <1>4, <1>6, <2>3
    <3> HIDE DEF room, n
    <3>5. Len(b) \in Nat
      <4>1. b \in Seq(STRING)
        BY <2>3
      <4> QED
        BY <4>1, LengthOfBytes
    <3> QED
      BY <3>1, <3>2, <3>3, <3>5, FitsBehind
  <2>5. m.oldpos \in Nat
    BY <1>4 DEF Lines
  <2>6. n = [m EXCEPT !.buf = b, !.pos = 0, !.oldpos = m.oldpos]
    BY <1>4, <2>2 DEF Lines
  <2>10. Refill(m, n, b, 0, m.oldpos)
    BY <2>3, <2>4, <2>5, <2>6 DEF Refill
  <2> HIDE DEF n
  <2>11. Alike(m, n) /\ n.buf = b /\ n.pos = 0
    BY <1>4, <2>10, Refilled
  <2>7. Alike(m, n) /\ n.buf = m.buf \o o.data /\ n.pos = 0
    BY <2>2, <2>11
  <2>8. Filled(n, o.data) /\ LineOK(n)
    BY <1>3, <1>4, <2>7 DEF Filled, Alike
  <2>9. Took(n, call.size)
    BY <1>1, <2>1, <2>8, SkippedTakes
  <2> QED
    BY <1>1, <1>3, <1>5, <2>8, <2>9
<1> QED
  BY <1>6, <1>7, <1>8, <1>9, <1>10

\* Types after a call that looks through what was read.
LEMMA TookTypes ==
    ASSUME NEW m, LineOK(m), m.avail = "unset",
           "EOL_NUL" \in m.flags <=> "EOL_NUL" \in l.flags,
           NEW copy \in Nat, out \in Outs, loop' = "app", Took(m, copy)
    PROVE  /\ LineOK(l') /\ l'.avail = "unset" /\ out' \in Outs
           /\ call'.op \in {"get", "chunk"} => call'.size \in Nat
           /\ call'.op = "get" => Getting'
           /\ call'.op \notin {"chunk", "write"}
<1>1. CASE Taking(m, copy)
  BY <1>1, TakingTypes
<1>2. ASSUME NEW n, NEW e, SkipsTo(m, n, e), Taking(n, copy)
      PROVE  /\ LineOK(l') /\ l'.avail = "unset" /\ out' \in Outs
             /\ call'.op \in {"get", "chunk"} => call'.size \in Nat
             /\ call'.op = "get" => Getting'
             /\ call'.op \notin {"chunk", "write"}
  <2>1. LineOK(n) /\ n.avail = "unset" /\ ("EOL_NUL" \in n.flags <=> "EOL_NUL" \in l.flags)
    BY <1>2 DEF SkipsTo
  <2> QED
    BY <1>2, <2>1, TakingTypes
<1> QED
  BY <1>1, <1>2 DEF Took

\* ReadMore: z_stream_line_get_internal reads from the child.
LEMMA ReadInv ==
    ASSUME SleepInv, ReadMore
    PROVE  SleepInv'
<1>1. LineTypeOK
  BY DEF SleepInv
<1>2. /\ call.op = "get" /\ Getting /\ UNCHANGED <<input, sent, loop>>
      /\ call.size \in Nat
  BY <1>1, ReadIs
<1>3. PICK o : /\ Moved(o, Roomy.bufsize - Len(Roomy.buf))
               /\ \/ o.data = <<>> /\ TakeBad(Roomy)
                  \/ /\ o.data = <<>> /\ l' = Roomy /\ out' = out /\ call' = NoCall
                     /\ history \subseteq history'
                  \/ \E n : Filled(n, o.data) /\ Took(n, call.size)
                  \/ /\ o.data = <<>> /\ Unread = <<>> /\ Unread' = <<>>
                     /\ \E n : Ended(n) /\ Took(n, call.size)
  BY <1>1, ReadIs
<1>4. /\ sock' \in Seq(STRING) /\ fd' \in Fds /\ Len(fd'.ungot) <= 1
      /\ input' = input /\ loop' = "app" /\ out \in Outs /\ l.avail = "unset"
  BY <1>1, <1>2, <1>3 DEF LineTypeOK, Outs, Moved, Getting
<1>5. Alike(l, Roomy) /\ Roomy.avail = "unset"
  BY <1>1, <1>2, <1>4, RoomyLine DEF Alike
<1>6. NoCall.op \notin {"get", "chunk", "write"}
  BY DEF NoCall
<1>7. CASE TakeBad(Roomy) \/ (l' = Roomy /\ out' = out /\ call' = NoCall)
  <2>1. LineOK(l') /\ out' \in Outs /\ call' = NoCall /\ l'.avail = "unset"
    BY <1>4, <1>5, <1>7 DEF TakeBad, Alike
  <2> QED
    BY <1>4, <1>6, <2>1, AwakeInv
<1>8. ASSUME NEW n, Filled(n, o.data) \/ Ended(n), Took(n, call.size)
      PROVE  SleepInv'
  <2>1. LineOK(n) /\ n.avail = "unset" /\ ("EOL_NUL" \in n.flags <=> "EOL_NUL" \in l.flags)
    BY <1>8 DEF Filled, Ended
  <2>2. /\ LineOK(l') /\ l'.avail = "unset" /\ out' \in Outs
        /\ call'.op \in {"get", "chunk"} => call'.size \in Nat
        /\ call'.op = "get" => Getting'
        /\ call'.op \notin {"chunk", "write"}
    BY <1>2, <1>4, <1>8, <2>1, TookTypes
  <2> QED
    BY <1>4, <2>2, AwakeInv
<1> QED
  BY <1>3, <1>7, <1>8

\* Steps that leave the buffer and its cached answer alone.
SameLine ==
    /\ l'.buf = l.buf /\ l'.pos = l.pos /\ l'.avail = l.avail
    /\ "EOL_NUL" \in l'.flags <=> "EOL_NUL" \in l.flags

\* Where the lines end does not change with the conditions.
LEMMA SameEols ==
    ASSUME SameLine
    PROVE  Eols(l)' = Eols(l)
<1>1. EolByte' = EolByte
  BY EolByteNext DEF SameLine
<1>2. Eols(l)' = Eols(l')
  BY <1>1, EolsNext
<1>3. Eols(l') = Eols(l)
  BY DEF Eols, SameLine
<1> QED
  BY <1>2, <1>3

\* Steps that leave the buffer alone.
LEMMA SameLineInv ==
    ASSUME SleepInv, SameLine, loop' # "sleeping", UNCHANGED <<input, sock, out>>,
           history \subseteq history', fd' \in Fds, Len(fd'.ungot) <= 1, LineOK(l'),
           call'.op \in {"get", "chunk"} => call'.size \in Nat,
           call'.op # "get",
           call'.op \in {"chunk", "write"} => call' \in Calls,
           call'.op = "chunk" => "raw" \in history'
    PROVE  SleepInv'
<1>1. Eols(l)' = Eols(l)
  BY SameEols
<1>2. l'.avail # "no" \/ "ungot" \in history' \/ Eols(l)' = {}
  BY <1>1 DEF SleepInv, AnswerCached, SameLine
<1>3. sock' \in Seq(STRING) /\ out' \in Outs
  BY DEF SleepInv, LineTypeOK, Outs
<1> QED
  BY <1>2, <1>3, AwakeInv

\* The application is between two calls.
LEMMA NoCallIs ==
    ASSUME SleepInv, Ready
    PROVE  /\ call.op = "none" /\ loop = "app" /\ loop # "sleeping"
           /\ LineTypeOK /\ LineOK(l) /\ fd \in Fds /\ Len(fd.ungot) <= 1
           /\ LineOK(l) => l \in Lines
  BY DEF SleepInv, LineTypeOK, Ready, NoCall, LineOK

\* Writes, chunks of writes and the mode of the descriptor leave the line alone.
LEMMA WriteInv ==
    ASSUME SleepInv, NEW n \in 1 .. MaxSent, z_stream_line_write(n)
    PROVE  SleepInv'
<1>1. Ready /\ UNCHANGED <<sock, fd, input, l, call, out, loop, history>>
  BY DEF z_stream_line_write
<1> QED
  BY <1>1, NoCallIs, SameLineInv DEF SameLine

\* z_stream_write_chunk is called.
LEMMA WriteChunkBeginsInv ==
    ASSUME SleepInv, NEW n \in 1 .. MaxSent, WriteChunkBegins(n)
    PROVE  SleepInv'
<1>1. /\ Ready /\ UNCHANGED <<sock, fd, input, l, out, loop, history>>
      /\ call' = [op |-> "write", size |-> n]
  BY DEF WriteChunkBegins
<1>2. n \in Int
  BY LineAssumption
<1>3. call' \in Calls /\ call'.op = "write"
  BY <1>1, <1>2 DEF Calls
<1> QED
  BY <1>1, <1>3, NoCallIs, SameLineInv DEF SameLine

\* A round of z_stream_write_chunk.
LEMMA WriteChunkInv ==
    ASSUME SleepInv, z_stream_write_chunk
    PROVE  SleepInv'
<1>1. call.op = "write" /\ UNCHANGED <<sock, fd, input, l, out, loop, history>>
  BY DEF z_stream_write_chunk
<1>2. loop # "sleeping" /\ call \in Calls /\ LineOK(l) /\ fd \in Fds /\ Len(fd.ungot) <= 1
  BY <1>1 DEF SleepInv, LineTypeOK, NoCall
<1>3. call' = NoCall \/ (call' \in Calls /\ call'.op = "write")
  <2>1. PICK o \in z_stream_write(call.size) :
           call' = IF o.status = "ERROR" \/ o.data = call.size THEN NoCall
                   ELSE [call EXCEPT !.size = @ - o.data]
    BY DEF z_stream_write_chunk
  <2>2. o.data \in Int
    <3>1. \/ \E n \in 1 .. Smaller(call.size, MaxChunk) : o = Outcome("NORMAL", n)
          \/ o = Outcome("AGAIN", 0) \/ o = Outcome("ERROR", 0)
      BY DEF z_stream_write, z_stream_fd_write_method, z_stream_fd_write_pri_method,
             WriteChars, TimedOut
    <3> QED
      BY <3>1 DEF Outcome
  <2> QED
    BY <1>1, <1>2, <2>1, <2>2 DEF Calls
<1>4. /\ call'.op \in {"get", "chunk"} => call'.size \in Nat
      /\ call'.op # "get"
      /\ call'.op \in {"chunk", "write"} => call' \in Calls
      /\ call'.op # "chunk"
  BY <1>3 DEF NoCall
<1> QED
  BY <1>1, <1>2, <1>4, SameLineInv DEF SameLine

\* The descriptor is switched to another mode.
LEMMA SetModeInv ==
    ASSUME SleepInv, NEW nonblock \in BOOLEAN, SetMode(nonblock)
    PROVE  SleepInv'
<1>1. Ready /\ UNCHANGED <<sock, input, l, call, out, loop, history>>
  BY DEF SetMode
<1>2. PICK timeout \in {-2, 1} :
          fd' = SetTimeout(z_stream_fd_ctrl_method(nonblock),
                           IF nonblock THEN fd.timeout ELSE timeout)
  BY DEF SetMode
<1>3. fd \in Fds /\ Len(fd.ungot) <= 1
  BY <1>1, NoCallIs
<1>4. PICK t \in Int : t = IF nonblock THEN fd.timeout ELSE timeout
  BY <1>3 DEF Fds
<1>5. fd' = [fd EXCEPT !.nonblock = nonblock, !.timeout = t]
  BY <1>2, <1>4 DEF SetTimeout, z_stream_fd_ctrl_method
<1>6. fd' \in Fds /\ fd'.ungot = fd.ungot
  BY <1>3, <1>5 DEF Fds
<1> QED
  BY <1>1, <1>3, <1>6, NoCallIs, SameLineInv DEF SameLine

\* z_stream_read_chunk is called.
LEMMA ChunkBeginsInv ==
    ASSUME SleepInv, NEW n \in CopySizes, ChunkBegins(n)
    PROVE  SleepInv'
<1>1. /\ Ready /\ UNCHANGED <<sock, fd, input, l, out, loop>> /\ history \subseteq history'
      /\ call' = [op |-> "chunk", size |-> n] /\ "raw" \in history'
  BY DEF ChunkBegins
<1>2. n \in Nat
  BY LineAssumption
<1>3. call' \in Calls /\ call'.op = "chunk" /\ call'.size \in Nat
  BY <1>1, <1>2 DEF Calls
<1> QED
  BY <1>1, <1>3, NoCallIs, SameLineInv DEF SameLine

\* Conditions of the line and of its child.
LEMMA CondsIs ==
    ASSUME NEW rd \in BOOLEAN, NEW wr \in BOOLEAN
    PROVE  /\ \A m \in Lines : SetConds(m, rd, wr)
                 = [m EXCEPT !.want_read = rd, !.want_write = wr]
           /\ \A f \in Fds : SetConds(f, rd, wr)
                 = [f EXCEPT !.want_read = rd, !.want_write = wr]
<1>1. \A s : z_stream_ctrl_method(s, "SET_COND_READ", rd) = [s EXCEPT !.want_read = rd]
  BY DEF z_stream_ctrl_method
<1>2. \A s : z_stream_ctrl_method(s, "SET_COND_WRITE", wr) = [s EXCEPT !.want_write = wr]
  BY DEF z_stream_ctrl_method
<1>3. \A s : SetConds(s, rd, wr) = [[s EXCEPT !.want_read = rd] EXCEPT !.want_write = wr]
  BY <1>1, <1>2 DEF SetConds
<1> QED
  BY <1>3 DEF Lines, Fds

\* z_stream_set_cond.
LEMMA SetCondInv ==
    ASSUME SleepInv, NEW rd \in BOOLEAN, NEW wr \in BOOLEAN, z_stream_set_cond(rd, wr)
    PROVE  SleepInv'
<1>1. Ready /\ UNCHANGED <<sock, input, call, out, loop, history>>
      /\ l' = SetConds(l, rd, wr) /\ fd' = SetConds(fd, rd, wr)
  BY DEF z_stream_set_cond
<1>2. fd \in Fds /\ Len(fd.ungot) <= 1 /\ LineOK(l) /\ l \in Lines
  BY <1>1, NoCallIs
<1>3. /\ l' = [l EXCEPT !.want_read = rd, !.want_write = wr]
      /\ fd' = [fd EXCEPT !.want_read = rd, !.want_write = wr]
  BY <1>1, <1>2, CondsIs
<1>4. fd' \in Fds /\ fd'.ungot = fd.ungot
  BY <1>2, <1>3 DEF Fds
<1>5. /\ l' \in Lines /\ l'.buf = l.buf /\ l'.pos = l.pos /\ l'.avail = l.avail
      /\ l'.flags = l.flags /\ l'.bufsize = l.bufsize
  BY <1>2, <1>3 DEF Lines
<1>6. LineOK(l')
  BY <1>2, <1>5 DEF LineOK
<1> QED
  BY <1>1, <1>2, <1>4, <1>5, <1>6, NoCallIs, SameLineInv DEF SameLine

\* z_stream_line_ctrl switches a flag.
LEMMA CtrlInv ==
    ASSUME SleepInv, NEW f \in Settable, z_stream_line_ctrl(f)
    PROVE  SleepInv'
<1>1. /\ Ready /\ UNCHANGED <<sock, fd, input, call, out, loop, history>>
      /\ l' = [l EXCEPT !.flags = IF f \in @ THEN @ \ {f} ELSE @ \cup {f}]
  BY DEF z_stream_line_ctrl
<1>2. fd \in Fds /\ Len(fd.ungot) <= 1 /\ LineOK(l) /\ l \in Lines
  BY <1>1, NoCallIs
<1>3. f \in LineFlags /\ f # "EOL_NUL"
  BY LineAssumption DEF Switchable, LineFlags, NewFlags
<1>4. PICK g : g = IF f \in l.flags THEN l.flags \ {f} ELSE l.flags \cup {f}
  OBVIOUS
<1>5. l' = [l EXCEPT !.flags = g]
  BY <1>1, <1>2, <1>4 DEF Lines
<1>6. g \in SUBSET LineFlags /\ ("EOL_NUL" \in g <=> "EOL_NUL" \in l.flags)
  BY <1>2, <1>3, <1>4 DEF Lines
<1>7. /\ LineOK(l') /\ l'.buf = l.buf /\ l'.pos = l.pos /\ l'.avail = l.avail
      /\ l'.flags = g
  <2>1. Reflag(l, l', g)
    BY <1>5, <1>6 DEF Reflag
  <2> QED
    BY <1>2, <2>1, Reflagged
<1> QED
  BY <1>1, <1>2, <1>6, <1>7, NoCallIs, SameLineInv DEF SameLine

-----------------------------------------------------------------------------
(* Raw reads. *)

\* The application is given d.
GivenNow(d) ==
    out' = [n |-> out.n + 1, before |-> out.before \o out.last, last |-> d]

\* Bytes are taken from the buffer.
FromBuffer(d, n) ==
    /\ d \in Seq(STRING) /\ Len(d) <= n /\ GivenNow(d)
    /\ LineOK(l') /\ l'.flags = l.flags /\ l'.bufsize = l.bufsize /\ l'.avail = "unset"
    /\ Left(l) = d \o Left(l')
    /\ UNCHANGED <<fd, sock>>

\* Bytes are taken from the child.
FromChild(o, n) ==
    /\ Moved(o, n)
    /\ LineOK(l') /\ l'.flags = l.flags /\ l'.bufsize = l.bufsize
    /\ l'.buf = l.buf /\ l'.pos = l.pos /\ l'.avail = l.avail
    /\ Left(l) = <<>> /\ Left(l') = <<>>
    /\ \/ GivenNow(o.data)
       \/ out' = out /\ o.data = <<>>

\* k bytes are handed out.
HandsOut(m, n, k) ==
    /\ m.pos + k <= Len(m.buf)
    /\ n = IF m.pos + k = Len(m.buf)
           THEN [m EXCEPT !.buf = <<>>, !.pos = 0, !.oldpos = m.pos, !.avail = "unset"]
           ELSE [m EXCEPT !.pos = m.pos + k, !.oldpos = m.pos, !.avail = "unset"]

HandedOut(m, n, d, k) ==
    /\ LineOK(n) /\ n.flags = m.flags /\ n.bufsize = m.bufsize /\ n.avail = "unset"
    /\ d \in Seq(STRING) /\ Len(d) = k /\ Left(m) = d \o Left(n)

\* Handing out the first bytes of what is left.
LEMMA CutLine ==
    ASSUME NEW m, LineOK(m), NEW k \in Nat, NEW n, HandsOut(m, n, k)
    PROVE  HandedOut(m, n, SubSeq(m.buf, m.pos + 1, m.pos + k), k)
<1>1. /\ m \in Lines /\ m.buf \in Seq(STRING) /\ Len(m.buf) \in Nat
      /\ m.pos \in Nat /\ m.bufsize \in Nat /\ Len(m.buf) <= m.bufsize
  BY LineFields
<1>2. /\ m.pos + k <= Len(m.buf)
      /\ n = IF m.pos + k = Len(m.buf)
             THEN [m EXCEPT !.buf = <<>>, !.pos = 0, !.oldpos = m.pos, !.avail = "unset"]
             ELSE [m EXCEPT !.pos = m.pos + k, !.oldpos = m.pos, !.avail = "unset"]
  BY DEF HandsOut
<1>3. PICK e \in Nat : e = m.pos + k
  BY <1>1
<1>4. m.pos <= e /\ e <= Len(m.buf) /\ e - m.pos = k
  BY <1>1, <1>3, <1>2
<1>5. /\ SubSeq(m.buf, m.pos + 1, e) \in Seq(STRING)
      /\ Len(SubSeq(m.buf, m.pos + 1, e)) = k
  <2>1. Len(SubSeq(m.buf, m.pos + 1, e)) = e - m.pos
        /\ SubSeq(m.buf, m.pos + 1, e) \in Seq(STRING)
    BY <1>1, <1>4, BytesCut
  <2> QED
    BY <1>4, <2>1
<1>6. Left(m) = SubSeq(m.buf, m.pos + 1, e) \o SubSeq(m.buf, e + 1, Len(m.buf))
  BY <1>1, <1>4, BytesSplit DEF Left
<1>7. CASE e = Len(m.buf)
  <2>1. n = [m EXCEPT !.buf = <<>>, !.pos = 0, !.oldpos = m.pos, !.avail = "unset"]
    BY <1>3, <1>7, <1>2
  <2>2. <<>> \in Seq(STRING) /\ Len(<<>>) = 0
    OBVIOUS
  <2>7. PICK b \in Seq(STRING) : b = <<>>
    BY <2>2
  <2>3. /\ n \in Lines /\ n.buf = <<>> /\ n.pos = 0 /\ n.flags = m.flags
        /\ n.bufsize = m.bufsize /\ n.avail = "unset"
    <3>1. n = [m EXCEPT !.buf = b, !.pos = 0, !.oldpos = m.pos, !.avail = "unset"]
      BY <2>1, <2>7
    <3> HIDE <2>7
    <3>2. /\ n \in Lines /\ n.buf = b /\ n.pos = 0 /\ n.flags = m.flags
          /\ n.bufsize = m.bufsize /\ n.avail = "unset"
      BY <1>1, <3>1 DEF Lines
    <3> QED
      BY <2>7, <3>2
  <2>4. LineOK(n)
    BY <1>1, <2>2, <2>3 DEF LineOK
  <2>5. Left(n) = <<>>
    BY <2>3 DEF Left
  <2>6. SubSeq(m.buf, e + 1, Len(m.buf)) = <<>>
    BY <1>1, <1>7
  <2> QED
    BY <1>3, <1>5, <1>6, <2>3, <2>4, <2>5, <2>6 DEF HandedOut
<1>8. CASE e # Len(m.buf)
  <2>1. n = [m EXCEPT !.pos = e, !.oldpos = m.pos, !.avail = "unset"]
    BY <1>3, <1>8, <1>2
  <2>2. /\ n \in Lines /\ n.buf = m.buf /\ n.pos = e /\ n.flags = m.flags
        /\ n.bufsize = m.bufsize /\ n.avail = "unset"
    BY <1>1, <2>1 DEF Lines
  <2>3. LineOK(n) /\ Left(n) = SubSeq(m.buf, e + 1, Len(m.buf))
    BY <1>1, <1>4, <2>2 DEF LineOK, Left
  <2> QED
    BY <1>3, <1>5, <1>6, <2>2, <2>3 DEF HandedOut
<1> QED
  BY <1>7, <1>8

\* z_stream_line_read_method takes from the buffer, or from the child once it is empty.
LEMMA MethodIs ==
    ASSUME LineTypeOK, NEW n \in Nat, z_stream_line_read_method(n)
    PROVE  \/ \E d : FromBuffer(d, n)
           \/ \E o : FromChild(o, n)
<1>1. /\ LineOK(l) /\ l \in Lines /\ l.buf \in Seq(STRING) /\ Len(l.buf) \in Nat /\ l.pos \in Nat
      /\ l.pos <= Len(l.buf)
  BY LineFields DEF LineTypeOK
<1>2. CASE Len(l.buf) > l.pos
  <2> DEFINE k == Smaller(n, Len(l.buf) - l.pos)
             d == SubSeq(l.buf, l.pos + 1, l.pos + k)
  <2>1. k \in Nat /\ k <= n /\ l.pos + k <= Len(l.buf)
    BY <1>1, <1>2 DEF Smaller
  <2>2. /\ Given(d) /\ UNCHANGED <<fd, sock>>
        /\ l' = IF l.pos + k = Len(l.buf)
                THEN [l EXCEPT !.buf = <<>>, !.pos = 0, !.oldpos = l.pos, !.avail = "unset"]
                ELSE [l EXCEPT !.pos = @ + k, !.oldpos = l.pos, !.avail = "unset"]
    BY <1>2 DEF z_stream_line_read_method
  <2> HIDE DEF k
  <2>3. [l EXCEPT !.pos = @ + k, !.oldpos = l.pos, !.avail = "unset"]
        = [l EXCEPT !.pos = l.pos + k, !.oldpos = l.pos, !.avail = "unset"]
    BY <1>1 DEF Lines
  <2>6. HandsOut(l, l', k)
    BY <2>1, <2>2, <2>3 DEF HandsOut
  <2>4. HandedOut(l, l', d, k)
    BY <1>1, <2>1, <2>6, CutLine
  <2>5. FromBuffer(d, n)
    <3> HIDE DEF d
    <3> QED
      BY <2>1, <2>2, <2>4 DEF FromBuffer, Given, GivenNow, HandedOut
  <2> QED
    BY <2>5
<1>3. CASE ~(Len(l.buf) > l.pos)
  <2>1. PICK o : /\ o \in ReadOutcomes(n)
                 /\ z_stream_read(o)
                 /\ l' = [l EXCEPT !.child_cond = {}]
                 /\ IF o.status = "NORMAL" THEN Given(o.data) ELSE UNCHANGED out
    BY <1>3 DEF z_stream_line_read_method
  <2>2. Moved(o, n)
    BY <2>1, ReadMoves DEF LineTypeOK
  <2>3. /\ l' \in Lines /\ l'.buf = l.buf /\ l'.pos = l.pos /\ l'.avail = l.avail
        /\ l'.flags = l.flags /\ l'.bufsize = l.bufsize
    BY <1>1, <2>1 DEF Lines
  <2>4. LineOK(l')
    BY <1>1, <2>3 DEF LineOK
  <2>5. l.pos = Len(l.buf)
    BY <1>1, <1>3
  <2>6. SubSeq(l.buf, l.pos + 1, Len(l.buf)) = <<>>
    BY <1>1, <2>5
  <2>7. Left(l) = <<>> /\ Left(l') = <<>>
    BY <2>3, <2>6 DEF Left
  <2>8. GivenNow(o.data) \/ (out' = out /\ o.data = <<>>)
    BY <2>1, <2>2 DEF Given, GivenNow, Moved
  <2> QED
    BY <2>2, <2>3, <2>4, <2>7, <2>8 DEF FromChild
<1> QED
  BY <1>2, <1>3

\* What the application was given last.
LEMMA GivenIs ==
    ASSUME out \in Outs, NEW d \in Seq(STRING), GivenNow(d)
    PROVE  out' \in Outs /\ out'.last = d /\ out' # out
<1>1. out.n + 1 \in Int /\ out.n + 1 # out.n /\ out.before \o out.last \in Seq(STRING)
  BY BytesJoined DEF Outs
<1>2. out'.n = out.n + 1 /\ out'.last = d /\ out'.before = out.before \o out.last
  BY DEF GivenNow
<1>3. out' \in Outs
  BY <1>1 DEF GivenNow, Outs
<1> QED
  BY <1>1, <1>2, <1>3

\* z_stream_line_read_method leaves the invariant to its callers.
LEMMA MethodInv ==
    ASSUME SleepInv, NEW n \in Nat, z_stream_line_read_method(n), loop # "sleeping",
           UNCHANGED <<input, loop>>, history \subseteq history',
           call'.op \in {"get", "chunk"} => call'.size \in Nat,
           call'.op # "get",
           call'.op \in {"chunk", "write"} => call' \in Calls,
           call'.op = "chunk" => "raw" \in history'
    PROVE  SleepInv'
<1>1. LineTypeOK /\ out \in Outs
  BY DEF SleepInv, LineTypeOK, Outs
<1>2. CASE \E d : FromBuffer(d, n)
  <2>1. /\ out' \in Outs /\ LineOK(l') /\ l'.avail = "unset" /\ UNCHANGED <<fd, sock>>
    BY <1>1, <1>2, GivenIs DEF FromBuffer
  <2>2. sock' \in Seq(STRING) /\ fd' \in Fds /\ Len(fd'.ungot) <= 1
    BY <1>1, <2>1 DEF LineTypeOK
  <2> QED
    BY <2>1, <2>2, AwakeInv
<1>3. CASE \E o : FromChild(o, n)
  <2>1. PICK o : FromChild(o, n)
    BY <1>3
  <2>2. sock' \in Seq(STRING) /\ fd' \in Fds /\ Len(fd'.ungot) <= 1 /\ LineOK(l')
    BY <2>1 DEF FromChild, Moved
  <2>3. out' \in Outs
    BY <1>1, <2>1, GivenIs DEF FromChild, Moved
  <2>4. SameLine
    BY <2>1 DEF FromChild, SameLine
  <2>5. Eols(l)' = Eols(l)
    BY <2>4, SameEols
  <2>6. l'.avail # "no" \/ "ungot" \in history' \/ Eols(l)' = {}
    BY <2>4, <2>5 DEF SleepInv, AnswerCached, SameLine
  <2> QED
    BY <2>2, <2>3, <2>6, AwakeInv
<1> QED
  BY <1>1, <1>2, <1>3, MethodIs

\* z_stream_line_read.
LEMMA RawReadInv ==
    ASSUME SleepInv, NEW n \in CopySizes, z_stream_line_read(n)
    PROVE  SleepInv'
<1>1. /\ Ready /\ z_stream_line_read_method(n) /\ history \subseteq history'
      /\ UNCHANGED <<input, call, loop>>
  BY DEF z_stream_line_read
<1>2. n \in Nat
  BY LineAssumption
<1>3. call.op = "none" /\ loop # "sleeping"
  BY <1>1, NoCallIs
<1> QED
  BY <1>1, <1>2, <1>3, MethodInv

\* A round of z_stream_read_chunk.
LEMMA ChunkInv ==
    ASSUME SleepInv, z_stream_read_chunk
    PROVE  SleepInv'
<1>1. /\ call.op = "chunk" /\ z_stream_line_read_method(call.size)
      /\ UNCHANGED <<input, loop, history>>
  BY DEF z_stream_read_chunk
<1>2. PICK g : /\ g = IF out' = out THEN 0 ELSE Len(out'.last)
               /\ call' = IF g \in {0, call.size} THEN NoCall
                          ELSE [call EXCEPT !.size = @ - g]
  BY DEF z_stream_read_chunk
<1>3. /\ loop # "sleeping" /\ call \in Calls /\ call.size \in Nat /\ out \in Outs
      /\ LineTypeOK /\ "raw" \in history
  BY <1>1 DEF SleepInv, LineTypeOK, NoCall, Outs
<1>4. g \in Nat /\ g <= call.size
  <2>1. CASE \E d : FromBuffer(d, call.size)
    BY <1>2, <1>3, <2>1, GivenIs DEF FromBuffer
  <2>2. CASE \E o : FromChild(o, call.size)
    <3>1. PICK o : FromChild(o, call.size)
      BY <2>2
    <3>2. o.data \in Seq(STRING) /\ Len(o.data) <= call.size
      BY <3>1 DEF FromChild, Moved
    <3>3. CASE GivenNow(o.data)
      BY <1>2, <1>3, <3>2, <3>3, GivenIs
    <3>4. CASE out' = out
      BY <1>2, <1>3, <3>4
    <3> QED
      BY <3>1, <3>3, <3>4 DEF FromChild
  <2> QED
    BY <1>1, <1>3, <2>1, <2>2, MethodIs
<1>5. \/ call' = NoCall
      \/ call' \in Calls /\ call'.op = "chunk" /\ call'.size \in Nat
  <2>1. CASE g \in {0, call.size}
    BY <1>2, <2>1
  <2>2. CASE g \notin {0, call.size}
    <3>1. PICK s \in Nat : s = call.size - g
      BY <1>3, <1>4
    <3>2. call' = [call EXCEPT !.size = s]
      BY <1>2, <1>3, <2>2, <3>1 DEF Calls
    <3> QED
      BY <1>1, <1>3, <3>1, <3>2 DEF Calls
  <2> QED
    BY <2>1, <2>2
<1>6. /\ call'.op \in {"get", "chunk"} => call'.size \in Nat
      /\ call'.op # "get"
      /\ call'.op \in {"chunk", "write"} => call' \in Calls
  BY <1>5 DEF NoCall
<1> QED
  BY <1>1, <1>3, <1>6, MethodInv

-----------------------------------------------------------------------------
(* Putting back. *)

\* What was put back is in front of what is left.
PutBack(m, n, d) ==
    Alike(m, n) /\ Left(n) = d \o Left(m)

\* Joining three sequences.
LEMMA BytesAssociative ==
    ASSUME NEW s \in Seq(STRING), NEW t \in Seq(STRING), NEW u \in Seq(STRING)
    PROVE  (s \o t) \o u = s \o (t \o u)
  BY ConcatAssociative

\* Put-back data fit before pos, or in a buffer that is shifted for them.
LEMMA UngetIs ==
    ASSUME LineOK(l), NEW d \in Seq(STRING), l.pos + (l.bufsize - Len(l.buf)) > Len(d)
    PROVE  PutBack(l, Unget(d), d)
<1>1. /\ l \in Lines /\ l.buf \in Seq(STRING) /\ Len(l.buf) \in Nat /\ l.pos \in Nat
      /\ l.bufsize \in Nat /\ l.pos <= Len(l.buf) /\ Len(l.buf) <= l.bufsize
      /\ Left(l) \in Seq(STRING) /\ Len(Left(l)) = Len(l.buf) - l.pos
      /\ l.oldpos \in Nat /\ Len(d) \in Nat
  BY LineFields
<1>2. PICK j \in Seq(STRING) : /\ j = d \o Left(l)
                               /\ Len(j) = Len(d) + (Len(l.buf) - l.pos)
  <2>1. d \o Left(l) \in Seq(STRING) /\ Len(d \o Left(l)) = Len(d) + Len(Left(l))
    BY <1>1, BytesJoined
  <2> QED
    BY <1>1, <2>1
<1>3. CASE l.pos > Len(d)
  <2>1. PICK p \in Nat : p = l.pos - Len(d)
    BY <1>1, <1>3
  <2>2. p <= Len(l.buf) /\ p + Len(j) = Len(l.buf)
    <3>1. /\ Len(j) = Len(d) + (Len(l.buf) - l.pos) /\ Len(d) \in Nat /\ Len(l.buf) \in Nat
          /\ l.pos \in Nat /\ l.pos <= Len(l.buf)
      BY <1>1, <1>2
    <3> QED
      BY <1>3, <2>1, <3>1
  <2>3. PICK f \in Seq(STRING) : f = SubSeq(l.buf, 1, p) /\ Len(f) = p
    BY <1>1, <2>2, BytesFirst
  <2>4. PICK b \in Seq(STRING) : /\ b = f \o j /\ Len(b) = p + Len(j)
                                 /\ \A k \in 1 .. Len(j) : b[p + k] = j[k]
    <3>1. /\ f \o j \in Seq(STRING) /\ Len(f \o j) = Len(f) + Len(j)
          /\ \A k \in 1 .. Len(j) : (f \o j)[Len(f) + k] = j[k]
      BY <2>3, BytesJoined
    <3> QED
      BY <2>3, <3>1
  <2>5. b = f \o d \o Left(l)
    <3>1. PICK x \in Seq(STRING) : x = Left(l)
      BY <1>1
    <3>2. (f \o d) \o x = f \o (d \o x)
      BY <2>3, BytesAssociative
    <3> QED
      BY <1>2, <2>4, <3>1, <3>2
  <2>6. Unget(d) = [l EXCEPT !.buf = b, !.pos = p, !.oldpos = l.oldpos]
    <3>1. Unget(d) = [l EXCEPT !.buf = SubSeq(l.buf, 1, p) \o d
                                       \o SubSeq(l.buf, l.pos + 1, Len(l.buf)),
                               !.pos = p]
      BY <1>1, <1>3, <2>1 DEF Unget, Lines
    <3>2. Unget(d) = [l EXCEPT !.buf = b, !.pos = p]
      BY <2>3, <2>5, <3>1 DEF Left
    <3> QED
      BY <1>1, <3>2 DEF Lines
  <2>7. Refill(l, Unget(d), b, p, l.oldpos)
    BY <1>1, <2>2, <2>4, <2>6 DEF Refill
  <2>8. Alike(l, Unget(d)) /\ Unget(d).buf = b /\ Unget(d).pos = p
    BY <2>7, Refilled
  <2>9. SubSeq(b, p + 1, Len(b)) = j
    <3>1. p <= Len(b) /\ Len(b) \in Nat /\ Len(b) <= Len(b) /\ Len(b) - p = Len(j)
      BY <2>4
    <3>2. PICK s : s = SubSeq(b, p + 1, Len(b))
      OBVIOUS
    <3>3. s \in Seq(STRING) /\ Len(s) = Len(b) - p /\ \A k \in 1 .. Len(b) - p : s[k] = b[p + k]
      BY <3>1, <3>2, BytesCut
    <3>4. \A k \in 1 .. Len(s) : s[k] = j[k]
      BY <2>4, <3>1, <3>3
    <3>5. s = j
      BY <3>1, <3>3, <3>4, SeqEqual
    <3> QED
      BY <3>2, <3>5
  <2> QED
    BY <1>2, <2>8, <2>9 DEF PutBack, Left
<1>4. CASE ~(l.pos > Len(d))
  <2>1. Len(j) <= l.bufsize /\ Len(j) \in Nat
    BY <1>1, <1>2
  <2>2. Unget(d) = [l EXCEPT !.buf = j, !.pos = 0, !.oldpos = l.oldpos]
    <3>1. Unget(d) = [l EXCEPT !.buf = d \o SubSeq(l.buf, l.pos + 1, Len(l.buf)), !.pos = 0]
      BY <1>1, <1>4 DEF Unget, Lines
    <3>2. Unget(d) = [l EXCEPT !.buf = j, !.pos = 0]
      BY <1>2, <3>1 DEF Left
    <3> QED
      BY <1>1, <3>2 DEF Lines
  <2>3. Refill(l, Unget(d), j, 0, l.oldpos)
    BY <1>1, <2>1, <2>2 DEF Refill
  <2>4. Alike(l, Unget(d)) /\ Unget(d).buf = j /\ Unget(d).pos = 0
    BY <2>3, Refilled
  <2>5. SubSeq(j, 0 + 1, Len(j)) = j
    OBVIOUS
  <2> QED
    BY <1>2, <2>4, <2>5 DEF PutBack, Left
<1> QED
  BY <1>3, <1>4

\* z_stream_line_unget.
LEMMA UngetInv ==
    ASSUME SleepInv, z_stream_line_unget
    PROVE  SleepInv'
<1>1. /\ Ready /\ l.pos + (l.bufsize - Len(l.buf)) > Len(out.last)
      /\ l' = Unget(out.last)
      /\ out' = [out EXCEPT !.n = @ - 1, !.last = <<>>]
      /\ "ungot" \in history'
      /\ UNCHANGED <<sock, fd, input, call, loop>>
  BY DEF z_stream_line_unget
<1>2. call.op = "none" /\ loop # "sleeping" /\ LineTypeOK
  BY <1>1, NoCallIs
<1>3. LineOK(l')
  <2>1. LineOK(l) /\ out.last \in Seq(STRING)
    BY <1>2 DEF LineTypeOK
  <2>2. PutBack(l, l', out.last)
    BY <1>1, <2>1, UngetIs
  <2> QED
    BY <2>2 DEF PutBack, Alike
<1>4. out' \in Outs
  <2>1. out \in Outs /\ <<>> \in Seq(STRING)
    BY <1>2 DEF LineTypeOK, Outs
  <2>2. PICK e \in Seq(STRING) : e = <<>>
    BY <2>1
  <2>3. PICK i \in Int : i = out.n - 1
    BY <2>1 DEF Outs
  <2>4. out' = [out EXCEPT !.n = i, !.last = e]
    BY <1>1, <2>1, <2>2, <2>3 DEF Outs
  <2> QED
    BY <2>1, <2>4 DEF Outs
<1>5. sock' \in Seq(STRING) /\ fd' \in Fds /\ Len(fd'.ungot) <= 1
  BY <1>1, <1>2 DEF LineTypeOK
<1> QED
  BY <1>1, <1>2, <1>3, <1>4, <1>5, AwakeInv

-----------------------------------------------------------------------------
(* The poll loop. *)

\* The cached answer is the one the buffer gives.
LEMMA LookedLine ==
    ASSUME NEW m, LineOK(m)
    PROVE  /\ LineOK(Looked(m)) /\ Looked(m).buf = m.buf /\ Looked(m).pos = m.pos
           /\ Looked(m).flags = m.flags /\ Looked(m).want_read = m.want_read
           /\ Looked(m).bufsize = m.bufsize
           /\ Looked(m).avail = IF HaveLine(m) THEN "yes" ELSE "no"
<1>1. PICK a \in {"yes", "no"} : a = IF HaveLine(m) THEN "yes" ELSE "no"
  OBVIOUS
<1>2. Looked(m) = [m EXCEPT !.avail = a]
  BY <1>1 DEF Looked
<1> QED
  BY <1>1, <1>2 DEF LineOK, Lines

\* z_stream_line_watch_prepare, the place where NoSleepOnLine could fail: a cached "no" is
\* trusted only while nothing was put back, and is set only after the buffer was searched.
LEMMA PrepareInv ==
    ASSUME SleepInv, z_stream_line_watch_prepare
    PROVE  SleepInv'
<1> DEFINE looks == l.want_read /\ "POLL_PARTIAL" \notin l.flags
           ready == l.want_read /\ Readable(l)
<1>1. /\ Ready
      /\ l' = IF looks THEN Looked(l) ELSE l
      /\ fd' = SetConds(fd, l.want_read /\ ~ready, l.want_write)
      /\ loop' = IF ready THEN "app" ELSE "sleeping"
      /\ UNCHANGED <<sock, input, call, out, history>>
  BY DEF z_stream_line_watch_prepare
<1>2. /\ call = NoCall /\ LineTypeOK /\ LineOK(l) /\ l \in Lines
      /\ fd \in Fds /\ Len(fd.ungot) <= 1
  BY <1>1, NoCallIs DEF Ready
<1>3. fd' \in Fds /\ fd'.ungot = fd.ungot
  <2>1. PICK wr \in BOOLEAN : wr = l.want_write
    BY <1>2 DEF Lines
  <2>2. PICK rd \in BOOLEAN : rd = (l.want_read /\ ~ready)
    OBVIOUS
  <2>3. fd' = [fd EXCEPT !.want_read = rd, !.want_write = wr]
    BY <1>1, <1>2, <2>1, <2>2, CondsIs
  <2> QED
    BY <1>2, <2>3 DEF Fds
<1>4. /\ LineOK(l') /\ l'.buf = l.buf /\ l'.pos = l.pos /\ l'.flags = l.flags
      /\ l'.want_read = l.want_read
      /\ l'.avail = IF looks THEN (IF HaveLine(l) THEN "yes" ELSE "no") ELSE l.avail
  BY <1>1, <1>2, LookedLine
<1>5. Eols(l)' = Eols(l)
  BY <1>4 DEF Eols, EolByte
<1>6. LineTypeOK'
  BY <1>1, <1>2, <1>3, <1>4 DEF LineTypeOK, NoCall
<1>7. ASSUME l.avail = "no", "ungot" \notin history PROVE Eols(l) = {}
  BY <1>7 DEF SleepInv, AnswerCached
<1>8. ASSUME ~HaveLine(l), "ungot" \notin history PROVE Eols(l) = {}
  BY <1>2, <1>7, <1>8 DEF HaveLine, Lines
<1>9. AnswerCached'
  <2> SUFFICES ASSUME l'.avail = "no", "ungot" \notin history PROVE Eols(l) = {}
    BY <1>1, <1>5 DEF AnswerCached
  <2>1. CASE looks
    BY <1>4, <1>8, <2>1
  <2>2. CASE ~looks
    BY <1>4, <1>7, <2>2
  <2> QED
    BY <2>1, <2>2
<1>10. NoSleepOnLine'
  <2> SUFFICES ASSUME loop' = "sleeping", l.want_read, "ungot" \notin history
               PROVE  Eols(l) = {} /\ ("POLL_PARTIAL" \in l.flags => l.pos = Len(l.buf))
    BY <1>1, <1>4, <1>5 DEF NoSleepOnLine
  <2>1. ~Readable(l)
    BY <1>1
  <2>2. CASE "POLL_PARTIAL" \in l.flags
    <3>1. l.pos = Len(l.buf)
      BY <2>1, <2>2 DEF Readable
    <3>2. l.pos \in Nat
      BY <1>2 DEF Lines
    <3>3. Eols(l) = {}
      BY <3>1, <3>2 DEF Eols
    <3> QED
      BY <3>1, <3>3
  <2>3. CASE "POLL_PARTIAL" \notin l.flags
    <3>1. ~HaveLine(l)
      BY <2>1, <2>3 DEF Readable
    <3> QED
      BY <1>8, <2>3, <3>1
  <2> QED
    BY <2>2, <2>3
<1> QED
  BY <1>6, <1>9, <1>10 DEF SleepInv

\* The descriptor is ready: the poll loop wakes up.
LEMMA DispatchInv ==
    ASSUME SleepInv, FdDispatch
    PROVE  SleepInv'
<1>1. /\ loop = "sleeping" /\ loop' = "app" /\ UNCHANGED <<sock, fd, input, call, out, history>>
  BY DEF FdDispatch
<1>2. PICK c : /\ l' = [l EXCEPT !.child_cond = c]
               /\ c = l.child_cond \/ c = l.child_cond \cup {"IN"}
  <2>1. PICK revents : l' = [l EXCEPT !.child_cond = IF "read" \in FdCalls(revents)
                                                     THEN @ \cup {"IN"} ELSE @]
    BY DEF FdDispatch
  <2>2. PICK c : c = IF "read" \in FdCalls(revents)
                     THEN l.child_cond \cup {"IN"} ELSE l.child_cond
    OBVIOUS
  <2>3. LineOK(l)
    BY DEF SleepInv, LineTypeOK
  <2>4. l' = [l EXCEPT !.child_cond = c]
    BY <2>1, <2>2, <2>3 DEF LineOK, Lines
  <2> QED
    BY <2>2, <2>4
<1>3. LineOK(l) /\ l \in Lines /\ fd \in Fds /\ Len(fd.ungot) <= 1 /\ call = NoCall
  BY <1>1 DEF SleepInv, LineTypeOK, LineOK
<1>4. c \in SUBSET {"IN"}
  BY <1>2, <1>3 DEF Lines
<1>5. /\ l' \in Lines /\ l'.buf = l.buf /\ l'.pos = l.pos /\ l'.avail = l.avail
      /\ l'.flags = l.flags /\ l'.bufsize = l.bufsize
  BY <1>2, <1>3, <1>4 DEF Lines
<1>6. LineOK(l')
  BY <1>3, <1>5 DEF LineOK
<1>7. call'.op \notin {"get", "chunk", "write"}
  BY <1>1, <1>3 DEF NoCall
<1> QED
  BY <1>1, <1>3, <1>5, <1>6, <1>7, SameLineInv DEF SameLine

-----------------------------------------------------------------------------

\* The stream before the first call.
LEMMA LineInits ==
    ASSUME LineInit
    PROVE  LineTypeOK /\ SleepInv
<1>1. PICK c \in Cases, b \in BufSizes : input = c.input /\ l = NewLine(b, c.flags)
  BY DEF LineInit
<1>2. PICK k \in PeekSizes, nonblock \in BOOLEAN :
          /\ k <= Len(input)
          /\ sock = SubSeq(input, k + 1, Len(input))
          /\ fd = IF k = 0 THEN NewFd(nonblock, -2)
                  ELSE z_stream_unget(NewFd(nonblock, 1), SubSeq(input, 1, k))
  BY DEF LineInit
<1>3. /\ call = NoCall /\ out = [n |-> 0, before |-> <<>>, last |-> <<>>]
      /\ loop = "app"
  BY DEF LineInit
<1>4. /\ input \in Seq(STRING) /\ c.flags \in SUBSET LineFlags /\ b \in Nat /\ k \in Nat
  BY <1>1, LineAssumption DEF LineFlags
<1>5. /\ SubSeq(input, 1, k) \in Seq(STRING) /\ sock \in Seq(STRING)
  BY <1>2, <1>4, BytesFirst
<1>6. <<>> \in Seq(STRING) /\ Len(<<>>) = 0
  OBVIOUS
<1>7. PICK e \in Seq(STRING) : e = <<>> /\ Len(e) = 0
  BY <1>6
<1>8. /\ l \in Lines /\ l.buf = <<>> /\ l.pos = 0 /\ l.avail = "unset" /\ l.bufsize = b
  <2>1. l = [buf |-> e, pos |-> 0, oldpos |-> 0, bufsize |-> b, flags |-> c.flags,
             avail |-> "unset", child_cond |-> {}, want_read |-> FALSE, want_write |-> FALSE]
    BY <1>1, <1>7 DEF NewLine
  <2> QED
    BY <1>4, <1>7, <2>1 DEF Lines
<1>9. LineOK(l)
  <2>1. Len(l.buf) = 0 /\ 0 <= b
    BY <1>4, <1>8, <1>7
  <2> QED
    BY <1>8, <2>1 DEF LineOK
<1>10. fd \in Fds /\ Len(fd.ungot) <= 1
  <2>6. <<>> \in Seq(Seq(STRING)) /\ Len(<<>>) = 0
    BY EmptySeq
  <2>1. PICK q \in Seq(Seq(STRING)) : q = <<>> /\ Len(q) = 0
    BY <2>6
  <2>2. PICK s \in Seq(STRING) : s = SubSeq(input, 1, k)
    BY <1>5
  <2>3. PICK packets \in Seq(Seq(STRING)) : packets = <<s>> \o <<>> /\ Len(packets) = 1
    <3>1. <<s>> \o <<>> = <<s>> /\ <<s>> \in Seq(Seq(STRING)) /\ Len(<<s>>) = 1
      OBVIOUS
    <3> QED
      BY <3>1
  <2>4. CASE k = 0
    <3>1. fd = [ungot |-> q, nonblock |-> nonblock, timeout |-> -2,
                want_read |-> FALSE, want_write |-> FALSE]
      BY <1>2, <2>1, <2>4 DEF NewFd
    <3> QED
      BY <2>1, <3>1 DEF Fds
  <2>5. CASE k # 0
    <3>1. fd = [ungot |-> packets, nonblock |-> nonblock, timeout |-> 1,
                want_read |-> FALSE, want_write |-> FALSE]
      BY <1>2, <2>2, <2>3, <2>5 DEF NewFd, z_stream_unget
    <3> QED
      BY <2>3, <3>1 DEF Fds
  <2> QED
    BY <2>4, <2>5
<1>11. out \in [n : Int, before : Seq(STRING), last : Seq(STRING)]
  <2>1. out = [n |-> 0, before |-> e, last |-> e]
    BY <1>3, <1>7
  <2> QED
    BY <1>7, <2>1
<1>12. call.op \notin {"get", "chunk", "write"}
  BY <1>3 DEF NoCall
<1>13. LineTypeOK
  BY <1>3, <1>4, <1>5, <1>9, <1>10, <1>11, <1>12 DEF LineTypeOK
<1>14. AnswerCached /\ NoSleepOnLine
  BY <1>3, <1>8 DEF AnswerCached, NoSleepOnLine
<1> QED
  BY <1>13, <1>14 DEF SleepInv

\* Nothing happens.
LEMMA LineStutters ==
    ASSUME SleepInv, UNCHANGED linevars
    PROVE  SleepInv'
<1>1. LineTypeOK'
  BY DEF SleepInv, linevars, LineTypeOK, Getting, Eols, EolByte
<1>2. AnswerCached' /\ NoSleepOnLine'
  BY DEF SleepInv, linevars, AnswerCached, NoSleepOnLine, Eols, EolByte
<1> QED
  BY <1>1, <1>2 DEF SleepInv

\* Every step.
LEMMA LineStep ==
    ASSUME SleepInv, LineNext
    PROVE  SleepInv'
<1>1. ASSUME NEW copy \in {0} \cup CopySizes, z_stream_line_get(copy) PROVE SleepInv'
  BY <1>1, GetInv
<1>2. CASE BufferFull \/ ReadMore
  BY <1>2, FullInv, ReadInv
<1>3. ASSUME NEW n \in CopySizes, z_stream_line_read(n) \/ ChunkBegins(n) PROVE SleepInv'
  BY <1>3, RawReadInv, ChunkBeginsInv
<1>4. CASE z_stream_read_chunk \/ z_stream_line_unget \/ z_stream_write_chunk
  BY <1>4, ChunkInv, UngetInv, WriteChunkInv
<1>5. ASSUME NEW n \in 1 .. MaxSent, z_stream_line_write(n) \/ WriteChunkBegins(n) PROVE SleepInv'
  BY <1>5, WriteInv, WriteChunkBeginsInv
<1>6. ASSUME NEW f \in Settable, z_stream_line_ctrl(f) PROVE SleepInv'
  BY <1>6, CtrlInv
<1>7. ASSUME NEW rd \in BOOLEAN, NEW wr \in BOOLEAN, z_stream_set_cond(rd, wr) PROVE SleepInv'
  BY <1>7, SetCondInv
<1>8. ASSUME NEW nonblock \in BOOLEAN, SetMode(nonblock) PROVE SleepInv'
  BY <1>8, SetModeInv
<1>9. CASE z_stream_line_watch_prepare \/ FdDispatch
  BY <1>9, PrepareInv, DispatchInv
<1> QED
  BY <1>1, <1>2, <1>3, <1>4, <1>5, <1>6, <1>7, <1>8, <1>9 DEF LineNext

\* The poll loop does not sleep while a line that the application waits for is in the buffer,
\* unless something was put back: the answer z_stream_line_have_line has cached is right.
THEOREM AwakeOnLine == LineSpec => [](LineTypeOK /\ NoSleepOnLine)
<1>1. LineInit => SleepInv
  BY LineInits
<1>2. SleepInv /\ [LineNext]_linevars => SleepInv'
  BY LineStep, LineStutters
<1>3. SleepInv => LineTypeOK /\ NoSleepOnLine
  BY DEF SleepInv
<1> QED
  BY <1>1, <1>2, <1>3, PTL DEF LineSpec

-----------------------------------------------------------------------------
(* Every byte of the input is in one place. *)

\* What is still to come: the rest of the buffer, and what was not read.
ToCome == Left(l) \o Unread

\* Before the first answer nothing is lost, and no line is being skipped.
NothingYet ==
    /\ "ungot" \notin history => out.n \in Nat
    /\ history = {} /\ out.n = 0 =>
          /\ out.before = <<>> /\ out.last = <<>>
          /\ ToCome = input /\ "IGNORE" \notin l.flags

\* Only a line that was truncated is skipped.
SkipsTruncated == "IGNORE" \in l.flags => "TRUNCATE" \in l.flags

ByteInv == NothingYet /\ SkipsTruncated /\ EveryByteOnce

Framing == {"RETURN_EOL", "TRUNCATE"}

\* How a step that does not switch flags moves the bytes.
ByteStep ==
    /\ l'.flags \cap Framing = l.flags \cap Framing
    /\ input' = input /\ history \subseteq history'
    /\ "IGNORE" \in l'.flags =>
          \/ "IGNORE" \in l.flags
          \/ "TRUNCATE" \in l.flags /\ (out'.n = out.n + 1 \/ history' # {})
    /\ \/ out' = out /\ history' \cap {"failed", "overrun"} # {}
       \/ out' = out /\ (ToCome' = ToCome \/ "IGNORE" \in l.flags)
       \/ \E d \in Seq(STRING) :
             /\ GivenNow(d)
             /\ \/ ToCome = d \o ToCome'
                \/ "TRUNCATE" \in l.flags
                \/ "RETURN_EOL" \notin l.flags
       \/ /\ "ungot" \in history'
          /\ out'.before = out.before /\ out'.last = <<>>
          /\ ToCome' = out.last \o ToCome

\* What has been given and what is to come.
LEMMA BytesToCome ==
    ASSUME LineTypeOK
    PROVE  /\ out \in Outs /\ out.before \in Seq(STRING) /\ out.last \in Seq(STRING)
           /\ Left(l) \in Seq(STRING) /\ Unread \in Seq(STRING) /\ ToCome \in Seq(STRING)
           /\ EveryByteOnce <=>
                 (("RETURN_EOL" \in l.flags /\ "TRUNCATE" \notin l.flags
                   /\ history \cap {"failed", "overrun"} = {})
                  => (out.before \o out.last) \o ToCome = input)
<1>1. /\ out \in Outs /\ out.before \in Seq(STRING) /\ out.last \in Seq(STRING)
      /\ Left(l) \in Seq(STRING) /\ Unread \in Seq(STRING)
  BY LineFields, UnreadBytes DEF LineTypeOK, Outs
<1>2. PICK x \in Seq(STRING) : x = out.before \o out.last
  BY <1>1, BytesJoined
<1>3. PICK y \in Seq(STRING) : y = Left(l)
  BY <1>1
<1>4. PICK u \in Seq(STRING) : u = Unread
  BY <1>1
<1>5. (x \o y) \o u = x \o (y \o u) /\ y \o u \in Seq(STRING)
  BY BytesAssociative, BytesJoined
<1>6. ToCome \in Seq(STRING)
  BY <1>3, <1>4, <1>5 DEF ToCome
<1>7. out.before \o out.last \o SubSeq(l.buf, l.pos + 1, Len(l.buf)) \o Unread
      = (out.before \o out.last) \o ToCome
  BY <1>2, <1>3, <1>4, <1>5 DEF ToCome, Left
<1> QED
  BY <1>1, <1>6, <1>7 DEF EveryByteOnce

ToComeNow ==
    LineTypeOK =>
        /\ out \in Outs /\ out.before \in Seq(STRING) /\ out.last \in Seq(STRING)
        /\ Left(l) \in Seq(STRING) /\ Unread \in Seq(STRING) /\ ToCome \in Seq(STRING)
        /\ EveryByteOnce <=>
              (("RETURN_EOL" \in l.flags /\ "TRUNCATE" \notin l.flags
                /\ history \cap {"failed", "overrun"} = {})
               => (out.before \o out.last) \o ToCome = input)

\* What is to come, after a step.
LEMMA BytesToComeNext == ToComeNow'
<1>1. ToComeNow
  BY BytesToCome DEF ToComeNow
<1> QED
  BY <1>1, PTL

\* A step that moves bytes from what is to come to what was given loses none.
LEMMA ByteStepKeeps ==
    ASSUME LineTypeOK, LineTypeOK', ByteInv, ByteStep
    PROVE  ByteInv'
<1>1. /\ out.before \in Seq(STRING) /\ out.last \in Seq(STRING)
      /\ ToCome \in Seq(STRING) /\ ToCome' \in Seq(STRING) /\ out \in Outs /\ out' \in Outs
  BY BytesToCome, BytesToComeNext DEF ToComeNow
<1>2. /\ "RETURN_EOL" \in l'.flags <=> "RETURN_EOL" \in l.flags
      /\ "TRUNCATE" \in l'.flags <=> "TRUNCATE" \in l.flags
      /\ input' = input /\ history \subseteq history'
  BY DEF ByteStep, Framing
<1>3. SkipsTruncated'
  BY <1>2 DEF ByteStep, ByteInv, SkipsTruncated
<1>4. out.n \in Int /\ ("ungot" \notin history => out.n \in Nat)
  BY <1>1 DEF ByteInv, NothingYet, Outs
<1>5. CASE out' = out /\ history' \cap {"failed", "overrun"} # {}
  <2>1. NothingYet'
    BY <1>2, <1>4, <1>5 DEF NothingYet
  <2>2. EveryByteOnce'
    BY <1>5 DEF EveryByteOnce
  <2> QED
    BY <1>3, <2>1, <2>2 DEF ByteInv
<1>6. CASE out' = out /\ (ToCome' = ToCome \/ "IGNORE" \in l.flags)
  <2>1. CASE "IGNORE" \in l.flags
    <3>1. "TRUNCATE" \in l.flags /\ ~(history = {} /\ out.n = 0)
      BY <2>1 DEF ByteInv, NothingYet, SkipsTruncated
    <3>2. NothingYet'
      BY <1>2, <1>4, <1>6, <3>1 DEF NothingYet
    <3>3. EveryByteOnce'
      BY <1>2, <3>1 DEF EveryByteOnce
    <3> QED
      BY <1>3, <3>2, <3>3 DEF ByteInv
  <2>2. CASE "IGNORE" \notin l.flags /\ ToCome' = ToCome
    <3>1. NothingYet'
      <4>1. ASSUME history' = {}, out'.n = 0
            PROVE  /\ out'.before = <<>> /\ out'.last = <<>>
                   /\ ToCome' = input' /\ "IGNORE" \notin l'.flags
        <5>1. history = {} /\ out.n = 0 /\ out.n + 1 # 0
          BY <1>2, <1>6, <4>1
        <5>2. "IGNORE" \notin l'.flags
          BY <1>6, <2>2, <4>1, <5>1 DEF ByteStep
        <5> QED
          BY <1>2, <1>6, <2>2, <5>1, <5>2 DEF ByteInv, NothingYet
      <4> QED
        BY <1>2, <1>4, <1>6, <4>1 DEF NothingYet
    <3>2. EveryByteOnce'
      BY <1>2, <1>6, <2>2, BytesToCome, BytesToComeNext DEF ToComeNow, ByteInv
    <3> QED
      BY <1>3, <3>1, <3>2 DEF ByteInv
  <2> QED
    BY <1>6, <2>1, <2>2
<1>7. ASSUME NEW d \in Seq(STRING), GivenNow(d),
             \/ ToCome = d \o ToCome'
             \/ "TRUNCATE" \in l.flags
             \/ "RETURN_EOL" \notin l.flags
      PROVE  ByteInv'
  <2>1. out'.n = out.n + 1 /\ out'.before = out.before \o out.last /\ out'.last = d
    BY <1>7 DEF GivenNow
  <2>2. NothingYet'
    <3>1. "ungot" \notin history' => out'.n \in Nat /\ out'.n # 0
      BY <1>2, <1>4, <2>1
    <3> QED
      BY <3>1 DEF NothingYet
  <2>3. EveryByteOnce'
    <3> SUFFICES ASSUME "RETURN_EOL" \in l'.flags, "TRUNCATE" \notin l'.flags,
                        history' \cap {"failed", "overrun"} = {}
                 PROVE  (out'.before \o out'.last) \o ToCome' = input
      BY <1>2, BytesToComeNext DEF ToComeNow
    <3>1. (out.before \o out.last) \o ToCome = input
      BY <1>2, BytesToCome DEF ByteInv
    <3>2. ToCome = d \o ToCome'
      BY <1>2, <1>7
    <3>3. PICK x \in Seq(STRING) : x = out.before \o out.last
      BY <1>1, BytesJoined
    <3>4. PICK z \in Seq(STRING) : z = ToCome'
      BY <1>1
    <3>5. (x \o d) \o z = x \o (d \o z)
      BY BytesAssociative
    <3> QED
      BY <2>1, <3>1, <3>2, <3>3, <3>4, <3>5
  <2> QED
    BY <1>3, <2>2, <2>3 DEF ByteInv
<1>8. CASE /\ "ungot" \in history'
           /\ out'.before = out.before /\ out'.last = <<>>
           /\ ToCome' = out.last \o ToCome
  <2>1. NothingYet'
    BY <1>8 DEF NothingYet
  <2>2. EveryByteOnce'
    <3> SUFFICES ASSUME "RETURN_EOL" \in l'.flags, "TRUNCATE" \notin l'.flags,
                        history' \cap {"failed", "overrun"} = {}
                 PROVE  (out'.before \o out'.last) \o ToCome' = input
      BY <1>2, BytesToComeNext DEF ToComeNow
    <3>1. (out.before \o out.last) \o ToCome = input
      BY <1>2, BytesToCome DEF ByteInv
    <3>2. PICK x \in Seq(STRING) : x = out.before
      BY <1>1
    <3>3. PICK y \in Seq(STRING) : y = out.last
      BY <1>1
    <3>4. PICK z \in Seq(STRING) : z = ToCome
      BY <1>1
    <3>5. (x \o y) \o z = x \o (y \o z) /\ x \o <<>> = x
      BY BytesAssociative
    <3> QED
      BY <1>8, <3>1, <3>2, <3>3, <3>4, <3>5
  <2> QED
    BY <1>3, <2>1, <2>2 DEF ByteInv
<1> QED
  BY <1>5, <1>6, <1>7, <1>8 DEF ByteStep

\* The first bytes of a part.
LEMMA PartOfPart ==
    ASSUME NEW s \in Seq(STRING), NEW p \in Nat, NEW e \in Nat, p <= e, e <= Len(s),
           NEW k \in Nat, p + k <= e
    PROVE  SubSeq(SubSeq(s, p + 1, e), 1, k) = SubSeq(s, p + 1, p + k)
<1>1. PICK j \in Nat : j = p + k
  OBVIOUS
<1>2. Len(s) \in Nat /\ p <= j /\ j <= Len(s) /\ j <= e /\ j - p = k
  BY <1>1
<1>3. PICK raw : raw = SubSeq(s, p + 1, e)
  OBVIOUS
<1>4. /\ raw \in Seq(STRING) /\ Len(raw) = e - p
      /\ \A i \in 1 .. e - p : raw[i] = s[p + i]
  BY <1>3, BytesCut
<1>5. PICK x : x = SubSeq(raw, 1, k)
  OBVIOUS
<1>6. x \in Seq(STRING) /\ Len(x) = k /\ \A i \in 1 .. k : x[i] = raw[i]
  <2>1. k <= Len(raw)
    BY <1>2, <1>4
  <2> QED
    BY <1>4, <1>5, <2>1, BytesFirst
<1>7. PICK y : y = SubSeq(s, p + 1, j)
  OBVIOUS
<1>8. y \in Seq(STRING) /\ Len(y) = k /\ \A i \in 1 .. k : y[i] = s[p + i]
  <2>1. /\ SubSeq(s, p + 1, j) \in Seq(STRING) /\ Len(SubSeq(s, p + 1, j)) = j - p
        /\ \A i \in 1 .. j - p : SubSeq(s, p + 1, j)[i] = s[p + i]
    BY <1>2, BytesCut
  <2> QED
    BY <1>2, <1>7, <2>1
<1>9. \A i \in 1 .. k : i \in 1 .. e - p
  BY <1>1, <1>2
<1>10. \A i \in 1 .. Len(x) : x[i] = y[i]
  BY <1>4, <1>6, <1>8, <1>9
<1>11. x = y
  BY <1>6, <1>8, <1>10, SeqEqual
<1> QED
  BY <1>1, <1>3, <1>5, <1>7, <1>11

\* The bytes of the parts that are handed out.
LEMMA FirstPart ==
    ASSUME NEW m, LineOK(m), NEW e \in m.pos .. Len(m.buf), NEW k \in Nat, m.pos + k <= e
    PROVE  /\ SubSeq(SubSeq(m.buf, m.pos + 1, e), 1, k) \in Seq(STRING)
           /\ Left(m) = SubSeq(SubSeq(m.buf, m.pos + 1, e), 1, k)
                        \o SubSeq(m.buf, m.pos + k + 1, Len(m.buf))
<1>1. /\ m.buf \in Seq(STRING) /\ Len(m.buf) \in Nat /\ m.pos \in Nat
      /\ m.pos <= e /\ e <= Len(m.buf) /\ e \in Nat
  BY LineFields
<1>2. PICK j \in Nat : j = m.pos + k
  BY <1>1
<1>3. m.pos <= j /\ j <= Len(m.buf)
  BY <1>1, <1>2
<1>4. SubSeq(SubSeq(m.buf, m.pos + 1, e), 1, k) = SubSeq(m.buf, m.pos + 1, j)
  <2>1. PICK s \in Seq(STRING), p \in Nat : s = m.buf /\ p = m.pos
    BY <1>1
  <2>2. e \in Nat /\ p <= e /\ e <= Len(s) /\ p + k <= e /\ j = p + k
    BY <1>1, <1>2, <2>1
  <2>3. SubSeq(SubSeq(s, p + 1, e), 1, k) = SubSeq(s, p + 1, p + k)
    BY <2>2, PartOfPart
  <2> QED
    BY <2>1, <2>2, <2>3
<1>5. SubSeq(m.buf, m.pos + 1, j) \in Seq(STRING)
  BY <1>1, <1>3, BytesCut
<1>6. Left(m) = SubSeq(m.buf, m.pos + 1, j) \o SubSeq(m.buf, j + 1, Len(m.buf))
  BY <1>1, <1>3, BytesSplit DEF Left
<1> QED
  BY <1>2, <1>4, <1>5, <1>6

\* What a call for a line does with the bytes of n.
TakesBytes(n) ==
    /\ l'.flags \cap {"RETURN_EOL", "TRUNCATE", "IGNORE"}
         = n.flags \cap {"RETURN_EOL", "TRUNCATE", "IGNORE"}
    /\ history \subseteq history'
    /\ \/ out' = out /\ history' \cap {"failed", "overrun"} # {}
       \/ out' = out /\ Left(l') = Left(n)
       \/ \E d \in Seq(STRING) :
             GivenNow(d) /\ ("RETURN_EOL" \in n.flags => Left(n) = d \o Left(l'))

\* A call that looks through the buffer moves the bytes it hands out.
LEMMA TakingBytes ==
    ASSUME NEW n, LineOK(n), NEW copy \in Nat, out \in Outs, Taking(n, copy)
    PROVE  TakesBytes(n)
<1>1. CASE TakeAgain(n, copy)
  BY <1>1 DEF TakeAgain, Compacted, Alike, TakesBytes
<1>2. CASE TakeBad(n)
  BY <1>2 DEF TakeBad, TakesBytes
<1>3. CASE TakeLine(n, copy)
  <2>1. PICK e, q : /\ EndsAt(n, e) /\ Taken(n, q, e)
                    /\ LineTo(n, e).status = "NORMAL"
                    /\ Answer(LineTo(n, e).data, q, copy)
    BY <1>3 DEF TakeLine
  <2>2. PICK d : d = LineTo(n, e).data
    OBVIOUS
  <2>3. Answers(d, q, copy)
    BY <2>1, <2>2, LineAnswered
  <2>4. /\ e \in n.pos .. Len(n.buf) /\ LineOK(q) /\ q.flags = n.flags
        /\ q.buf = n.buf /\ q.pos = e /\ q.oldpos = n.pos
    BY <2>1 DEF EndsAt, Taken, Alike
  <2>5. /\ d \in Seq(STRING) /\ Len(d) <= e - n.pos
        /\ "RETURN_EOL" \in n.flags => d = SubSeq(n.buf, n.pos + 1, e)
    BY <2>1, <2>2, <2>4, LineData
  <2>6. /\ n.buf \in Seq(STRING) /\ Len(n.buf) \in Nat /\ n.pos \in Nat /\ e \in Nat
        /\ n.pos <= e /\ e <= Len(n.buf) /\ Len(d) \in Nat
    BY <2>4, <2>5, LineFields
  <2>7. l'.flags = n.flags /\ history \subseteq history'
    BY <2>3, <2>4 DEF Answers, Alike
  <2>8. CASE Given(d) /\ l' = q
    <3>1. Left(l') = SubSeq(n.buf, e + 1, Len(n.buf))
      BY <2>4, <2>8 DEF Left
    <3>2. "RETURN_EOL" \in n.flags => Left(n) = d \o Left(l')
      <4>1. SubSeq(n.buf, n.pos + 1, Len(n.buf))
            = SubSeq(n.buf, n.pos + 1, e) \o SubSeq(n.buf, e + 1, Len(n.buf))
        BY <2>6, BytesSplit
      <4>2. Left(n) = SubSeq(n.buf, n.pos + 1, e) \o Left(l')
        BY <3>1, <4>1 DEF Left
      <4> QED
        BY <2>5, <4>2
    <3> QED
      BY <2>5, <2>7, <2>8, <3>2 DEF TakesBytes, Given, GivenNow
  <2>9. CASE /\ copy \in 1 .. Len(d)
             /\ Given(SubSeq(d, 1, copy))
             /\ \/ q.buf = <<>> /\ l'.buf = d /\ l'.pos = copy
                \/ q.buf # <<>> /\ l'.buf = q.buf /\ l'.pos = q.oldpos + copy
    <3>1. q.buf # <<>>
      <4>1. Len(n.buf) >= 1
        BY <2>5, <2>6, <2>9
      <4> QED
        BY <2>4, <4>1
    <3>2. l'.buf = n.buf /\ l'.pos = n.pos + copy
      BY <2>4, <2>9, <3>1
    <3>3. Left(l') = SubSeq(n.buf, n.pos + copy + 1, Len(n.buf))
      BY <3>2 DEF Left
    <3>4. n.pos + copy <= e /\ copy <= Len(d)
      BY <2>5, <2>6, <2>9
    <3>5. SubSeq(d, 1, copy) \in Seq(STRING)
      BY <2>5, <3>4, BytesFirst
    <3>6. "RETURN_EOL" \in n.flags => Left(n) = SubSeq(d, 1, copy) \o Left(l')
      BY <2>4, <2>5, <3>3, <3>4, FirstPart
    <3> QED
      BY <2>7, <2>9, <3>5, <3>6 DEF TakesBytes, Given, GivenNow
  <2>10. CASE l' = q /\ out' = out /\ history' = history \cup {"failed"}
    BY <2>7, <2>10 DEF TakesBytes
  <2> QED
    BY <2>3, <2>8, <2>9, <2>10 DEF Answers
<1> QED
  BY <1>1, <1>2, <1>3 DEF Taking

-----------------------------------------------------------------------------
(* Calls that leave the child alone. *)

\* What was not read is a matter of the child.
LEMMA SameUnread ==
    ASSUME fd'.ungot = fd.ungot, sock' = sock
    PROVE  Unread' = Unread
  BY DEF Unread

\* z_stream_line_get loses no byte.
LEMMA GetBytes ==
    ASSUME LineTypeOK, LineTypeOK', NEW copy \in {0} \cup CopySizes, z_stream_line_get(copy)
    PROVE  ByteStep
<1>1. /\ copy \in Nat /\ UNCHANGED <<sock, fd, input>>
      /\ \/ l' = l /\ out' = out /\ history \subseteq history'
         \/ Taking(Polled(l), copy)
         \/ Len(l.buf) = l.pos /\ l' = Emptied(Polled(l)) /\ UNCHANGED <<out, history>>
  BY GetIs
<1>2. /\ LineOK(l) /\ LineOK(Polled(l)) /\ Polled(l).flags = l.flags
      /\ Left(Polled(l)) = Left(l) /\ out \in Outs
  BY PolledLine DEF LineTypeOK, Outs
<1>3. /\ Unread' = Unread /\ Unread \in Seq(STRING) /\ Left(l) \in Seq(STRING)
      /\ ToCome = Left(l) \o Unread /\ ToCome' = Left(l') \o Unread'
      /\ LineOK(l') /\ Left(l') \in Seq(STRING)
  <2>1. ToCome' = Left(l)' \o Unread' /\ Left(l)' = Left(l')
    BY DEF ToCome, Left
  <2>2. LineOK(l') /\ Left(l') \in Seq(STRING)
    BY LineFields DEF LineTypeOK
  <2> QED
    BY <1>1, <2>1, <2>2, SameUnread, BytesToCome DEF ToCome
<1>4. CASE l' = l /\ out' = out /\ history \subseteq history'
  BY <1>1, <1>3, <1>4 DEF ByteStep
<1>5. CASE Taking(Polled(l), copy)
  <2>1. TakesBytes(Polled(l))
    BY <1>1, <1>2, <1>5, TakingBytes
  <2>2. /\ l'.flags \cap Framing = l.flags \cap Framing
        /\ "IGNORE" \in l'.flags => "IGNORE" \in l.flags
        /\ history \subseteq history'
    BY <1>2, <2>1 DEF TakesBytes, Framing
  <2>3. CASE out' = out /\ (history' \cap {"failed", "overrun"} # {} \/ Left(l') = Left(l))
    BY <1>1, <1>3, <2>2, <2>3 DEF ByteStep
  <2>4. ASSUME NEW d \in Seq(STRING), GivenNow(d),
               "RETURN_EOL" \in l.flags => Left(l) = d \o Left(l')
        PROVE  ByteStep
    <3>1. PICK y \in Seq(STRING) : y = Left(l')
      BY <1>3
    <3>2. PICK u \in Seq(STRING) : u = Unread
      BY <1>3
    <3>3. (d \o y) \o u = d \o (y \o u)
      BY BytesAssociative
    <3>4. "RETURN_EOL" \in l.flags => ToCome = d \o ToCome'
      BY <1>3, <2>4, <3>1, <3>2, <3>3
    <3> QED
      BY <1>1, <2>2, <2>4, <3>4 DEF ByteStep
  <2> QED
    BY <1>2, <2>1, <2>3, <2>4 DEF TakesBytes
<1>6. CASE Len(l.buf) = l.pos /\ l' = Emptied(Polled(l)) /\ UNCHANGED <<out, history>>
  <2>1. Left(l') = <<>> /\ l'.flags = l.flags
    BY <1>2, <1>6, EmptiedLine DEF Alike
  <2>2. Left(l) = <<>>
    <3>1. Len(Left(l)) = 0
      BY <1>2, <1>6, LineFields
    <3> QED
      BY <1>3, <3>1
  <2> QED
    BY <1>1, <1>3, <1>6, <2>1, <2>2 DEF ByteStep
<1> QED
  BY <1>1, <1>4, <1>5, <1>6

\* Types of what is to come, before and after a step.
LEMMA ToComeParts ==
    ASSUME LineTypeOK, LineTypeOK'
    PROVE  /\ Unread \in Seq(STRING) /\ Left(l) \in Seq(STRING)
           /\ Unread' \in Seq(STRING) /\ Left(l') \in Seq(STRING)
           /\ ToCome = Left(l) \o Unread /\ ToCome' = Left(l') \o Unread'
           /\ ToCome \in Seq(STRING) /\ ToCome' \in Seq(STRING)
           /\ LineOK(l) /\ LineOK(l') /\ out \in Outs
<1>1. ToCome' = Left(l)' \o Unread' /\ Left(l)' = Left(l')
  BY DEF ToCome, Left
<1>2. /\ ToCome' \in Seq(STRING) /\ Unread' \in Seq(STRING)
  BY BytesToComeNext DEF ToComeNow
<1>3. LineOK(l) /\ LineOK(l')
  BY DEF LineTypeOK
<1>4. Left(l') \in Seq(STRING)
  BY <1>3, LineFields
<1> QED
  BY <1>1, <1>2, <1>3, <1>4, BytesToCome DEF ToCome

\* A step that leaves the bytes where they are.
LEMMA QuietBytes ==
    ASSUME LineTypeOK, LineTypeOK', l'.flags = l.flags, l'.buf = l.buf, l'.pos = l.pos,
           fd'.ungot = fd.ungot, UNCHANGED <<sock, out, input>>, history \subseteq history'
    PROVE  ByteStep
<1>1. Unread' = Unread /\ Left(l') = Left(l)
  BY SameUnread DEF Left
<1>2. ToCome' = ToCome
  BY <1>1, ToComeParts
<1> QED
  BY <1>2 DEF ByteStep

\* An answer without room in the buffer.
LEMMA FullBytes ==
    ASSUME LineTypeOK, LineTypeOK', BufferFull
    PROVE  ByteStep
<1>1. Getting /\ UNCHANGED <<sock, fd, input, sent, loop>>
  BY FullIs
<1>2. Unread' = Unread
  BY <1>1, SameUnread
<1>3. CASE TakeBad(l) /\ "TRUNCATE" \notin l.flags /\ "SPLIT" \notin l.flags
  BY <1>1, <1>3 DEF TakeBad, ByteStep, Framing
<1>4. ASSUME NEW m,
             LineOK(m), m.buf = <<>>, m.pos = 0, m.avail = "unset",
             m.bufsize = l.bufsize,
             \/ "TRUNCATE" \in l.flags /\ m.flags = l.flags \cup {"IGNORE"}
             \/ "TRUNCATE" \notin l.flags /\ "SPLIT" \in l.flags /\ m.flags = l.flags,
             Answers(l.buf, m, call.size)
      PROVE  ByteStep
  <2>1. /\ l.buf \in Seq(STRING) /\ Len(l.buf) \in Nat /\ l.pos = 0 /\ l'.flags = m.flags
        /\ history \subseteq history'
    BY <1>1, <1>4, LineFields DEF LineTypeOK, Getting, Answers, Alike
  <2>2. /\ l'.flags \cap Framing = l.flags \cap Framing
        /\ "IGNORE" \in l'.flags => "IGNORE" \in l.flags \/ "TRUNCATE" \in l.flags
    BY <1>4, <2>1 DEF Framing
  <2>3. Left(l) = l.buf
    <3>1. SubSeq(l.buf, 0 + 1, Len(l.buf)) = l.buf
      BY <2>1
    <3> QED
      BY <2>1, <3>1 DEF Left
  <2>4. ASSUME NEW d \in Seq(STRING), Given(d), Left(l) = d \o Left(l')
        PROVE  ByteStep
    <3>1. PICK y \in Seq(STRING) : y = Left(l')
      BY ToComeParts
    <3>2. PICK u \in Seq(STRING) : u = Unread
      BY ToComeParts
    <3>3. (d \o y) \o u = d \o (y \o u)
      BY BytesAssociative
    <3>4. ToCome = d \o ToCome'
      BY <1>2, <2>4, <3>1, <3>2, <3>3, ToComeParts
    <3>5. GivenNow(d) /\ out'.n = out.n + 1
      BY <2>4 DEF Given, GivenNow
    <3> QED
      BY <1>1, <2>1, <2>2, <3>4, <3>5 DEF ByteStep
  <2>5. CASE Given(l.buf) /\ l' = m
    <3>1. Left(l') = <<>>
      BY <1>4, <2>5 DEF Left
    <3>2. l.buf \o <<>> = l.buf
      BY <2>1
    <3> QED
      BY <2>1, <2>3, <2>4, <2>5, <3>1, <3>2
  <2>6. CASE /\ call.size \in 1 .. Len(l.buf)
             /\ Given(SubSeq(l.buf, 1, call.size))
             /\ l'.buf = l.buf /\ l'.pos = call.size
    <3>1. PICK k \in Nat : k = call.size /\ k <= Len(l.buf)
      BY <2>1, <2>6
    <3>2. /\ SubSeq(l.buf, 1, k) \in Seq(STRING)
          /\ l.buf = SubSeq(l.buf, 1, k) \o SubSeq(l.buf, k + 1, Len(l.buf))
      BY <2>1, <3>1, BytesFirst
    <3>3. Left(l') = SubSeq(l.buf, k + 1, Len(l.buf))
      BY <2>6, <3>1 DEF Left
    <3> QED
      BY <2>3, <2>4, <2>6, <3>1, <3>2, <3>3
  <2>7. CASE out' = out /\ history' = history \cup {"failed"}
    BY <1>1, <2>1, <2>2, <2>7 DEF ByteStep
  <2> QED
    BY <1>4, <2>5, <2>6, <2>7 DEF Answers
<1> QED
  BY <1>3, <1>4, FullIs

\* A call for a line that looks through n.
LEMMA LookedBytes ==
    ASSUME LineTypeOK, LineTypeOK', SkipsTruncated, UNCHANGED input, NEW n, TakesBytes(n),
           n.flags \cap Framing = l.flags \cap Framing,
           "IGNORE" \in n.flags => "IGNORE" \in l.flags,
           \/ "IGNORE" \in l.flags
           \/ Left(n) \in Seq(STRING) /\ Left(n) \o Unread' = ToCome
    PROVE  ByteStep
<1>1. /\ l'.flags \cap Framing = l.flags \cap Framing
      /\ "IGNORE" \in l'.flags => "IGNORE" \in l.flags
      /\ history \subseteq history'
      /\ "RETURN_EOL" \in n.flags <=> "RETURN_EOL" \in l.flags
      /\ "IGNORE" \in l.flags => "TRUNCATE" \in l.flags
  BY DEF TakesBytes, Framing, SkipsTruncated
<1>2. CASE out' = out /\ history' \cap {"failed", "overrun"} # {}
  BY <1>1, <1>2 DEF ByteStep
<1>3. CASE out' = out /\ Left(l') = Left(n)
  <2>1. "IGNORE" \in l.flags \/ ToCome' = ToCome
    BY <1>3, ToComeParts
  <2> QED
    BY <1>1, <1>3, <2>1 DEF ByteStep
<1>4. ASSUME NEW d \in Seq(STRING), GivenNow(d),
             "RETURN_EOL" \in n.flags => Left(n) = d \o Left(l')
      PROVE  ByteStep
  <2>1. CASE "IGNORE" \in l.flags
    BY <1>1, <1>4, <2>1 DEF ByteStep
  <2>2. CASE "IGNORE" \notin l.flags
    <3>1. PICK y \in Seq(STRING) : y = Left(l')
      BY ToComeParts
    <3>2. PICK u \in Seq(STRING) : u = Unread'
      BY ToComeParts
    <3>3. (d \o y) \o u = d \o (y \o u)
      BY BytesAssociative
    <3>4. "RETURN_EOL" \in l.flags => ToCome = d \o ToCome'
      BY <1>1, <1>4, <2>2, <3>1, <3>2, <3>3, ToComeParts
    <3> QED
      BY <1>1, <1>4, <3>4 DEF ByteStep
  <2> QED
    BY <2>1, <2>2
<1> QED
  BY <1>2, <1>3, <1>4 DEF TakesBytes

\* Looking through m, with the rest of a truncated line passed over.
LEMMA TookBytes ==
    ASSUME LineTypeOK, LineTypeOK', SkipsTruncated, UNCHANGED input,
           NEW m, LineOK(m), NEW copy \in Nat, Took(m, copy),
           m.flags \cap Framing = l.flags \cap Framing,
           "IGNORE" \in m.flags <=> "IGNORE" \in l.flags,
           "IGNORE" \in l.flags \/ Left(m) \o Unread' = ToCome
    PROVE  ByteStep
<1>1. out \in Outs /\ Left(m) \in Seq(STRING)
  BY ToComeParts, LineFields
<1>2. CASE Taking(m, copy)
  <2>1. TakesBytes(m)
    BY <1>1, <1>2, TakingBytes
  <2> QED
    BY <1>1, <2>1, LookedBytes
<1>3. ASSUME NEW n, NEW e, SkipsTo(m, n, e), Taking(n, copy)
      PROVE  ByteStep
  <2>1. LineOK(n) /\ n.flags = m.flags \ {"IGNORE"} /\ "IGNORE" \in m.flags
    BY <1>3 DEF SkipsTo
  <2>2. TakesBytes(n)
    BY <1>1, <1>3, <2>1, TakingBytes
  <2>3. n.flags \cap Framing = l.flags \cap Framing /\ "IGNORE" \notin n.flags
    BY <2>1 DEF Framing
  <2> QED
    BY <2>1, <2>2, <2>3, LookedBytes
<1> QED
  BY <1>2, <1>3 DEF Took

\* ReadMore loses no byte but those of the rest of a truncated line.
LEMMA ReadBytes ==
    ASSUME LineTypeOK, LineTypeOK', SkipsTruncated, ReadMore
    PROVE  ByteStep
<1>1. /\ call.op = "get" /\ Getting /\ UNCHANGED <<input, sent, loop>>
      /\ call.size \in Nat /\ (Full(l) => "IGNORE" \in l.flags)
  BY ReadIs
<1>2. PICK o : /\ Moved(o, Roomy.bufsize - Len(Roomy.buf))
               /\ \/ o.data = <<>> /\ TakeBad(Roomy)
                  \/ /\ o.data = <<>> /\ l' = Roomy /\ out' = out /\ call' = NoCall
                     /\ history \subseteq history'
                  \/ \E n : Filled(n, o.data) /\ Took(n, call.size)
                  \/ /\ o.data = <<>> /\ Unread = <<>> /\ Unread' = <<>>
                     /\ \E n : Ended(n) /\ Took(n, call.size)
  BY ReadIs
<1>3. /\ o.data \in Seq(STRING) /\ Unread = o.data \o Unread'
      /\ Unread \in Seq(STRING) /\ Unread' \in Seq(STRING) /\ Left(l) \in Seq(STRING)
      /\ l.buf \in Seq(STRING)
  BY <1>2, ToComeParts, LineFields DEF Moved
<1>4. /\ Roomy.flags = l.flags
      /\ "IGNORE" \in l.flags \/ Roomy = l
  BY <1>1, RoomyLine DEF Alike
<1>5. Left(l) = l.buf
  <2>1. l.pos = 0
    BY <1>1 DEF Getting
  <2>2. SubSeq(l.buf, 0 + 1, Len(l.buf)) = l.buf
    BY <1>3
  <2> QED
    BY <2>1, <2>2 DEF Left
<1>6. ASSUME NEW n, LineOK(n), n.pos = 0 PROVE Left(n) = n.buf
  <2>1. n.buf \in Seq(STRING)
    BY <1>6, LineFields
  <2>2. SubSeq(n.buf, 0 + 1, Len(n.buf)) = n.buf
    BY <2>1
  <2> QED
    BY <1>6, <2>2 DEF Left
<1>7. CASE o.data = <<>> /\ TakeBad(Roomy)
  <2>1. out' = out /\ history \subseteq history' /\ history' \cap {"failed", "overrun"} # {}
        /\ l.flags \subseteq l'.flags /\ l'.flags \subseteq l.flags \cup {"ERROR"}
    BY <1>4, <1>7 DEF TakeBad
  <2> QED
    BY <1>1, <2>1 DEF ByteStep, Framing
<1>8. CASE o.data = <<>> /\ l' = Roomy /\ out' = out /\ call' = NoCall /\ history \subseteq history'
  <2>1. Unread = Unread'
    BY <1>3, <1>8
  <2>2. "IGNORE" \in l.flags \/ ToCome' = ToCome
    BY <1>4, <1>8, <2>1, ToComeParts
  <2> QED
    BY <1>1, <1>4, <1>8, <2>2 DEF ByteStep
<1>9. ASSUME NEW n, Filled(n, o.data), Took(n, call.size)
      PROVE  ByteStep
  <2>1. LineOK(n) /\ n.flags = l.flags /\ n.pos = 0 /\ n.buf = Roomy.buf \o o.data
    BY <1>9 DEF Filled
  <2>2. "IGNORE" \in l.flags \/ Left(n) \o Unread' = ToCome
    <3>1. PICK y \in Seq(STRING) : y = l.buf
      BY <1>3
    <3>2. PICK d \in Seq(STRING) : d = o.data
      BY <1>3
    <3>3. PICK u \in Seq(STRING) : u = Unread'
      BY <1>3
    <3>4. (y \o d) \o u = y \o (d \o u)
      BY BytesAssociative
    <3> QED
      BY <1>3, <1>4, <1>5, <1>6, <2>1, <3>1, <3>2, <3>3, <3>4, ToComeParts
  <2> QED
    BY <1>1, <1>9, <2>1, <2>2, TookBytes
<1>10. ASSUME NEW n, Ended(n), Took(n, call.size), Unread = <<>>, Unread' = <<>>
       PROVE  ByteStep
  <2>1. LineOK(n) /\ n.flags = l.flags \cup {"EOF"} /\ n.pos = 0 /\ n.buf = Roomy.buf
    BY <1>10 DEF Ended
  <2>2. "IGNORE" \in l.flags \/ Left(n) \o Unread' = ToCome
    BY <1>4, <1>5, <1>6, <1>10, <2>1, ToComeParts
  <2>3. /\ n.flags \cap Framing = l.flags \cap Framing
        /\ "IGNORE" \in n.flags <=> "IGNORE" \in l.flags
    BY <2>1 DEF Framing
  <2> QED
    BY <1>1, <1>10, <2>1, <2>2, <2>3, TookBytes
<1> QED
  BY <1>2, <1>7, <1>8, <1>9, <1>10

\* z_stream_line_read_method loses no byte.
LEMMA MethodBytes ==
    ASSUME LineTypeOK, LineTypeOK', NEW n \in Nat, z_stream_line_read_method(n),
           UNCHANGED input, history \subseteq history'
    PROVE  ByteStep
<1>1. ASSUME NEW d, FromBuffer(d, n) PROVE ByteStep
  <2>1. /\ d \in Seq(STRING) /\ GivenNow(d) /\ l'.flags = l.flags
        /\ Left(l) = d \o Left(l') /\ Unread' = Unread
    BY <1>1, SameUnread DEF FromBuffer
  <2>2. PICK y \in Seq(STRING) : y = Left(l')
    BY ToComeParts
  <2>3. PICK u \in Seq(STRING) : u = Unread
    BY ToComeParts
  <2>4. (d \o y) \o u = d \o (y \o u)
    BY <2>1, BytesAssociative
  <2>5. ToCome = d \o ToCome'
    BY <2>1, <2>2, <2>3, <2>4, ToComeParts
  <2> QED
    BY <2>1, <2>5 DEF ByteStep
<1>2. ASSUME NEW o, FromChild(o, n) PROVE ByteStep
  <2>1. /\ o.data \in Seq(STRING) /\ Unread = o.data \o Unread' /\ l'.flags = l.flags
        /\ Left(l) = <<>> /\ Left(l') = <<>>
        /\ GivenNow(o.data) \/ (out' = out /\ o.data = <<>>)
    BY <1>2 DEF FromChild, Moved
  <2>2. ToCome = Unread /\ ToCome' = Unread'
    BY <2>1, ToComeParts
  <2>3. CASE GivenNow(o.data)
    BY <2>1, <2>2, <2>3 DEF ByteStep
  <2>4. CASE out' = out /\ o.data = <<>>
    <3>1. ToCome = ToCome'
      BY <2>1, <2>2, <2>4, ToComeParts
    <3> QED
      BY <2>1, <2>4, <3>1 DEF ByteStep
  <2> QED
    BY <2>1, <2>3, <2>4
<1> QED
  BY <1>1, <1>2, MethodIs

\* z_stream_line_unget brings bytes back.
LEMMA UngetBytes ==
    ASSUME LineTypeOK, LineTypeOK', z_stream_line_unget
    PROVE  ByteStep
<1>1. /\ l.pos + (l.bufsize - Len(l.buf)) > Len(out.last)
      /\ l' = Unget(out.last)
      /\ out' = [out EXCEPT !.n = @ - 1, !.last = <<>>]
      /\ "ungot" \in history' /\ history \subseteq history'
      /\ UNCHANGED <<sock, fd, input>>
  BY DEF z_stream_line_unget
<1>2. LineOK(l) /\ out \in Outs /\ out.last \in Seq(STRING)
  BY ToComeParts DEF Outs
<1>3. l'.flags = l.flags /\ Left(l') = out.last \o Left(l)
  BY <1>1, <1>2, UngetIs DEF PutBack, Alike
<1>4. Unread' = Unread
  BY <1>1, SameUnread
<1>5. out'.before = out.before /\ out'.last = <<>>
  BY <1>1, <1>2 DEF Outs
<1>6. ToCome' = out.last \o ToCome
  <2>1. PICK x \in Seq(STRING) : x = out.last
    BY <1>2
  <2>2. PICK y \in Seq(STRING) : y = Left(l)
    BY ToComeParts
  <2>3. PICK u \in Seq(STRING) : u = Unread
    BY ToComeParts
  <2>4. (x \o y) \o u = x \o (y \o u)
    BY BytesAssociative
  <2> QED
    BY <1>3, <1>4, <2>1, <2>2, <2>3, <2>4, ToComeParts
<1> QED
  BY <1>1, <1>3, <1>5, <1>6 DEF ByteStep

\* Flags are switched before anything has happened.
LEMMA CtrlBytes ==
    ASSUME LineTypeOK, LineTypeOK', ByteInv, NEW f \in Settable, z_stream_line_ctrl(f)
    PROVE  ByteInv'
<1>1. /\ out.n = 0 /\ history = {} /\ UNCHANGED <<sock, fd, input, out, history>>
      /\ l' = [l EXCEPT !.flags = IF f \in @ THEN @ \ {f} ELSE @ \cup {f}]
  BY DEF z_stream_line_ctrl
<1>2. f # "IGNORE"
  BY LineAssumption DEF Switchable
<1>3. l'.buf = l.buf /\ l'.pos = l.pos /\ ("IGNORE" \in l'.flags => "IGNORE" \in l.flags)
  BY <1>1, <1>2 DEF LineTypeOK, LineOK, Lines
<1>4. /\ out.before = <<>> /\ out.last = <<>> /\ ToCome = input /\ "IGNORE" \notin l.flags
  BY <1>1 DEF ByteInv, NothingYet
<1>5. ToCome' = input
  BY <1>1, <1>3, <1>4, SameUnread, ToComeParts DEF Left
<1>6. out'.n \in Nat
  BY <1>1
<1>7. NothingYet' /\ SkipsTruncated'
  BY <1>1, <1>3, <1>4, <1>5, <1>6 DEF NothingYet, SkipsTruncated
<1>8. EveryByteOnce'
  <2>1. (out'.before \o out'.last) \o ToCome' = input'
    <3>1. PICK u \in Seq(STRING) : u = ToCome'
      BY ToComeParts
    <3>2. (<<>> \o <<>>) \o u = u
      OBVIOUS
    <3> QED
      BY <1>1, <1>4, <1>5, <3>1, <3>2
  <2> QED
    BY <2>1, BytesToComeNext DEF ToComeNow
<1> QED
  BY <1>7, <1>8 DEF ByteInv

\* Conditions, modes, writes and the poll loop leave the bytes where they are.
StillBytes ==
    /\ l'.flags = l.flags /\ l'.buf = l.buf /\ l'.pos = l.pos /\ l'.bufsize = l.bufsize
    /\ fd'.ungot = fd.ungot /\ UNCHANGED <<sock, out, input>> /\ history \subseteq history'

\* Calls that begin, and writes.
LEMMA StillCalls ==
    ASSUME LineTypeOK,
           \/ \E n \in CopySizes : ChunkBegins(n)
           \/ \E n \in 1 .. MaxSent : z_stream_line_write(n) \/ WriteChunkBegins(n)
           \/ z_stream_write_chunk
    PROVE  StillBytes
  BY DEF ChunkBegins, z_stream_line_write, WriteChunkBegins, z_stream_write_chunk, StillBytes

\* Conditions.
LEMMA StillConds ==
    ASSUME LineTypeOK, NEW rd \in BOOLEAN, NEW wr \in BOOLEAN, z_stream_set_cond(rd, wr)
    PROVE  StillBytes
<1>1. UNCHANGED <<sock, input, out, history>> /\ l' = SetConds(l, rd, wr) /\ fd' = SetConds(fd, rd, wr)
  BY DEF z_stream_set_cond
<1>2. fd \in Fds /\ l \in Lines
  BY DEF LineTypeOK, LineOK
<1>3. /\ l' = [l EXCEPT !.want_read = rd, !.want_write = wr]
      /\ fd' = [fd EXCEPT !.want_read = rd, !.want_write = wr]
  BY <1>1, <1>2, CondsIs
<1>4. /\ l'.buf = l.buf /\ l'.pos = l.pos /\ l'.flags = l.flags /\ l'.bufsize = l.bufsize
      /\ fd'.ungot = fd.ungot
  BY <1>2, <1>3 DEF Lines, Fds
<1> QED
  BY <1>1, <1>4 DEF StillBytes

\* The mode of the descriptor.
LEMMA StillMode ==
    ASSUME LineTypeOK, NEW nonblock \in BOOLEAN, SetMode(nonblock)
    PROVE  StillBytes
<1>1. UNCHANGED <<sock, input, l, call, out, loop, history>>
  BY DEF SetMode
<1>2. fd \in Fds
  BY DEF LineTypeOK
<1>3. \E t : fd' = [fd EXCEPT !.nonblock = nonblock, !.timeout = t]
  BY <1>2 DEF SetMode, SetTimeout, z_stream_fd_ctrl_method, Fds
<1>4. fd'.ungot = fd.ungot
  BY <1>2, <1>3 DEF Fds
<1> QED
  BY <1>1, <1>4 DEF StillBytes

\* z_stream_line_watch_prepare.
LEMMA StillPrepared ==
    ASSUME LineTypeOK, z_stream_line_watch_prepare
    PROVE  StillBytes
<1>1. /\ l' = l \/ l' = Looked(l)
      /\ \E rd \in BOOLEAN : fd' = SetConds(fd, rd, l.want_write)
      /\ UNCHANGED <<sock, input, out, history>>
  BY DEF z_stream_line_watch_prepare
<1>2. LineOK(l) /\ fd \in Fds /\ l.want_write \in BOOLEAN
  BY DEF LineTypeOK, LineOK, Lines
<1>3. l'.flags = l.flags /\ l'.buf = l.buf /\ l'.pos = l.pos /\ l'.bufsize = l.bufsize
  BY <1>1, <1>2, LookedLine
<1>4. PICK wr \in BOOLEAN : wr = l.want_write
  BY <1>2
<1>5. PICK rd \in BOOLEAN : fd' = [fd EXCEPT !.want_read = rd, !.want_write = wr]
  BY <1>1, <1>2, <1>4, CondsIs
<1>6. fd'.ungot = fd.ungot
  BY <1>2, <1>5 DEF Fds
<1> QED
  BY <1>1, <1>3, <1>6 DEF StillBytes

\* The poll loop.
LEMMA StillDispatched ==
    ASSUME LineTypeOK, FdDispatch
    PROVE  StillBytes
<1>1. /\ \E c : l' = [l EXCEPT !.child_cond = c]
      /\ UNCHANGED <<sock, fd, input, out, history>>
  <2>1. PICK revents : l' = [l EXCEPT !.child_cond = IF "read" \in FdCalls(revents)
                                                     THEN @ \cup {"IN"} ELSE @]
    BY DEF FdDispatch
  <2> QED
    BY <2>1 DEF FdDispatch
<1>2. l \in Lines
  BY DEF LineTypeOK, LineOK
<1>3. l'.flags = l.flags /\ l'.buf = l.buf /\ l'.pos = l.pos /\ l'.bufsize = l.bufsize
  BY <1>1, <1>2 DEF Lines
<1> QED
  BY <1>1, <1>3 DEF StillBytes

\* Where the bytes stay nothing is given or lost.
LEMMA StillSteps ==
    ASSUME LineTypeOK, LineTypeOK', StillBytes
    PROVE  ByteStep
  BY QuietBytes DEF StillBytes

\* At the beginning everything is to come.
LEMMA AllToCome ==
    ASSUME LineInit
    PROVE  /\ l.buf = <<>> /\ l.pos = 0 /\ "IGNORE" \notin l.flags /\ Left(l) = <<>>
           /\ out.n = 0 /\ out.before = <<>> /\ out.last = <<>> /\ history = {}
           /\ Unread = input /\ ToCome = input
<1>1. LineTypeOK
  BY LineInits
<1>2. PICK c \in Cases, b \in BufSizes : input = c.input /\ l = NewLine(b, c.flags)
  BY DEF LineInit
<1>3. PICK k \in PeekSizes, nonblock \in BOOLEAN :
          /\ k <= Len(input)
          /\ sock = SubSeq(input, k + 1, Len(input))
          /\ fd = IF k = 0 THEN NewFd(nonblock, -2)
                  ELSE z_stream_unget(NewFd(nonblock, 1), SubSeq(input, 1, k))
  BY DEF LineInit
<1>4. /\ input \in Seq(STRING) /\ c.flags \in SUBSET NewFlags /\ k \in Nat
  BY <1>2, LineAssumption
<1>5. l.buf = <<>> /\ l.pos = 0 /\ l.flags = c.flags
  BY <1>2 DEF NewLine
<1>6. "IGNORE" \notin l.flags
  BY <1>4, <1>5 DEF NewFlags
<1>7. Left(l) = <<>>
  BY <1>5 DEF Left
<1>8. out.n = 0 /\ out.before = <<>> /\ out.last = <<>> /\ history = {}
  BY DEF LineInit
<1>9. Unread = input
  <2>1. /\ fd.ungot = <<>> => Unread = sock
        /\ fd.ungot # <<>> => Unread = Head(fd.ungot) \o sock
    BY <1>1, UnreadIs DEF LineTypeOK
  <2>2. CASE k = 0
    <3>1. fd.ungot = <<>>
      BY <1>3, <2>2 DEF NewFd
    <3>2. sock = SubSeq(input, 1, Len(input))
      BY <1>3, <2>2
    <3>3. sock = input
      BY <1>4, <3>2
    <3> QED
      BY <2>1, <3>1, <3>3
  <2>3. CASE k # 0
    <3>1. fd.ungot = <<SubSeq(input, 1, k)>> \o <<>>
      BY <1>3, <2>3 DEF NewFd, z_stream_unget
    <3>2. PICK s \in Seq(STRING) : s = SubSeq(input, 1, k)
      BY <1>3, <1>4, BytesFirst
    <3>3. fd.ungot # <<>> /\ Head(fd.ungot) = s
      <4>1. <<s>> \o <<>> = <<s>> /\ <<s>> # <<>> /\ Head(<<s>>) = s
        OBVIOUS
      <4> QED
        BY <3>1, <3>2, <4>1
    <3>4. input = SubSeq(input, 1, k) \o SubSeq(input, k + 1, Len(input))
      BY <1>3, <1>4, BytesFirst
    <3> QED
      BY <1>3, <2>1, <3>2, <3>3, <3>4
  <2> QED
    BY <2>2, <2>3
<1>10. ToCome = input
  <2>1. <<>> \o input = input
    BY <1>4
  <2> QED
    BY <1>7, <1>9, <2>1 DEF ToCome
<1> QED
  BY <1>5, <1>6, <1>7, <1>8, <1>9, <1>10

\* At the beginning nothing was given.
LEMMA ByteInits ==
    ASSUME LineInit
    PROVE  ByteInv
<1>1. LineTypeOK
  BY LineInits
<1>2. /\ "IGNORE" \notin l.flags /\ ToCome = input
      /\ out.n = 0 /\ out.before = <<>> /\ out.last = <<>> /\ history = {}
  BY AllToCome
<1>3. NothingYet /\ SkipsTruncated
  BY <1>2 DEF NothingYet, SkipsTruncated
<1>4. (out.before \o out.last) \o ToCome = input
  <2>1. PICK u \in Seq(STRING) : u = ToCome
    BY <1>1, BytesToCome
  <2>2. (<<>> \o <<>>) \o u = u
    OBVIOUS
  <2> QED
    BY <1>2, <2>1, <2>2
<1>5. EveryByteOnce
  BY <1>1, <1>4, BytesToCome
<1> QED
  BY <1>3, <1>5 DEF ByteInv

\* Every step.
LEMMA ByteSteps ==
    ASSUME LineTypeOK, LineTypeOK', ByteInv, LineNext
    PROVE  ByteInv'
<1>1. ASSUME NEW copy \in {0} \cup CopySizes, z_stream_line_get(copy) PROVE ByteInv'
  BY <1>1, GetBytes, ByteStepKeeps
<1>2. CASE BufferFull
  BY <1>2, FullBytes, ByteStepKeeps
<1>3. CASE ReadMore
  BY <1>3, ReadBytes, ByteStepKeeps DEF ByteInv
<1>4. ASSUME NEW n \in CopySizes, z_stream_line_read(n) PROVE ByteInv'
  <2>1. n \in Nat
    BY LineAssumption
  <2>2. z_stream_line_read_method(n) /\ UNCHANGED input /\ history \subseteq history'
    BY <1>4 DEF z_stream_line_read
  <2> QED
    BY <2>1, <2>2, MethodBytes, ByteStepKeeps
<1>5. CASE z_stream_read_chunk
  <2>1. /\ z_stream_line_read_method(call.size) /\ UNCHANGED <<input, history>>
        /\ call.size \in Nat
    BY <1>5 DEF z_stream_read_chunk, LineTypeOK
  <2> QED
    BY <2>1, MethodBytes, ByteStepKeeps
<1>6. CASE z_stream_line_unget
  BY <1>6, UngetBytes, ByteStepKeeps
<1>7. ASSUME NEW f \in Settable, z_stream_line_ctrl(f) PROVE ByteInv'
  BY <1>7, CtrlBytes
<1>8. ASSUME \/ \E n \in CopySizes : ChunkBegins(n)
             \/ \E n \in 1 .. MaxSent : z_stream_line_write(n) \/ WriteChunkBegins(n)
             \/ z_stream_write_chunk
      PROVE  ByteInv'
  BY <1>8, StillCalls, StillSteps, ByteStepKeeps
<1>9. ASSUME NEW rd \in BOOLEAN, NEW wr \in BOOLEAN, z_stream_set_cond(rd, wr) PROVE ByteInv'
  BY <1>9, StillConds, StillSteps, ByteStepKeeps
<1>10. ASSUME NEW nonblock \in BOOLEAN, SetMode(nonblock) PROVE ByteInv'
  BY <1>10, StillMode, StillSteps, ByteStepKeeps
<1>11. CASE z_stream_line_watch_prepare \/ FdDispatch
  BY <1>11, StillPrepared, StillDispatched, StillSteps, ByteStepKeeps
<1> QED
  BY <1>1, <1>2, <1>3, <1>4, <1>5, <1>6, <1>7, <1>8, <1>9, <1>10, <1>11 DEF LineNext

\* Nothing happens.
LEMMA ByteStutters ==
    ASSUME LineTypeOK, LineTypeOK', ByteInv, UNCHANGED linevars
    PROVE  ByteInv'
<1>1. StillBytes
  BY DEF linevars, StillBytes
<1> QED
  BY <1>1, StillSteps, ByteStepKeeps

-----------------------------------------------------------------------------
(* Counting the ends of lines. *)

\* Those up to p.
EndsBy(S, p) == {i \in S : i <= p}

\* e is the first one behind p.
EndAfter(S, p, e) == e \in S /\ p < e /\ \A i \in S : i <= p \/ e <= i

\* Ends of lines can be counted.
LEMMA EndsFinite ==
    ASSUME NEW k \in Nat, NEW S \in SUBSET (1 .. k), NEW p \in Int
    PROVE  /\ IsFiniteSet(S) /\ IsFiniteSet(EndsBy(S, p))
           /\ Cardinality(S) \in Nat /\ Cardinality(EndsBy(S, p)) \in Nat
           /\ Cardinality(EndsBy(S, p)) <= Cardinality(S)
<1>1. IsFiniteSet(1 .. k)
  BY FS_Interval
<1>2. IsFiniteSet(S)
  BY <1>1, FS_Subset
<1>3. EndsBy(S, p) \in SUBSET S
  BY DEF EndsBy
<1>4. IsFiniteSet(EndsBy(S, p)) /\ Cardinality(EndsBy(S, p)) <= Cardinality(S)
  BY <1>2, <1>3, FS_Subset
<1> QED
  BY <1>2, <1>4, FS_CardinalityType

\* Passing one end adds one to the count.
LEMMA EndCounted ==
    ASSUME NEW k \in Nat, NEW S \in SUBSET (1 .. k), NEW p \in Nat, NEW e, EndAfter(S, p, e)
    PROVE  /\ EndsBy(S, e) = EndsBy(S, p) \cup {e}
           /\ Cardinality(EndsBy(S, e)) = Cardinality(EndsBy(S, p)) + 1
<1>1. e \in 1 .. k /\ p < e /\ \A i \in S : i \in Nat /\ (i <= p \/ e <= i)
  BY DEF EndAfter
<1>2. EndsBy(S, e) = EndsBy(S, p) \cup {e}
  <2>1. ASSUME NEW i \in S PROVE i <= e <=> i <= p \/ i = e
    BY <1>1, <2>1
  <2>2. e \in S
    BY DEF EndAfter
  <2> QED
    BY <2>1, <2>2 DEF EndsBy
<1>3. e \notin EndsBy(S, p)
  BY <1>1 DEF EndsBy
<1>4. IsFiniteSet(EndsBy(S, p))
  <2>1. p \in Int
    OBVIOUS
  <2> QED
    BY <2>1, EndsFinite
<1>5. Cardinality(EndsBy(S, p) \cup {e}) = Cardinality(EndsBy(S, p)) + 1
  BY <1>3, <1>4, FS_AddElement
<1> QED
  BY <1>2, <1>5

\* No end lies between two places: as many come before the one as the other.
LEMMA NoneCounted ==
    ASSUME NEW k \in Nat, NEW S \in SUBSET (1 .. k), NEW p \in Nat, NEW q \in Nat, p <= q,
           \A i \in S : i <= p \/ q < i
    PROVE  EndsBy(S, q) = EndsBy(S, p)
<1>1. ASSUME NEW i \in S PROVE i <= q <=> i <= p
  BY <1>1
<1> QED
  BY <1>1 DEF EndsBy

\* A number belongs to one end.
LEMMA EndUnique ==
    ASSUME NEW k \in Nat, NEW S \in SUBSET (1 .. k), NEW d \in S, NEW e \in S,
           Cardinality(EndsBy(S, d)) = Cardinality(EndsBy(S, e))
    PROVE  d = e
<1>1. d \in Nat /\ e \in Nat
  OBVIOUS
<1>2. ASSUME NEW x \in S, NEW y \in S, x \in Nat, y \in Nat, x <= y,
             Cardinality(EndsBy(S, x)) = Cardinality(EndsBy(S, y))
      PROVE  x = y
  <2>1. EndsBy(S, x) \in SUBSET EndsBy(S, y)
    <3>1. ASSUME NEW i \in S, i <= x PROVE i <= y
      <4>1. i \in Nat
        OBVIOUS
      <4> QED
        BY <1>2, <3>1, <4>1
    <3> QED
      BY <3>1 DEF EndsBy
  <2>2. IsFiniteSet(EndsBy(S, y))
    <3>1. y \in Int
      BY <1>2
    <3> QED
      BY <3>1, EndsFinite
  <2>3. EndsBy(S, y) = EndsBy(S, x)
    BY <1>2, <2>1, <2>2, FS_Subset
  <2>4. y \in EndsBy(S, x)
    BY <1>2, <2>3 DEF EndsBy
  <2> QED
    BY <1>2, <2>4 DEF EndsBy
<1>3. d <= e \/ e <= d
  BY <1>1
<1> QED
  BY <1>1, <1>2, <1>3

\* Behind a place before the last end there is a next one.
LEMMA EndThere ==
    ASSUME NEW k \in Nat, NEW S \in SUBSET (1 .. k), NEW p \in Nat, NEW x \in S, p < x
    PROVE  \E e : EndAfter(S, p, e)
<1> DEFINE T == {i \in S : p < i}
<1>1. T \in SUBSET Nat /\ T # {}
  <2>1. x \in T
    OBVIOUS
  <2>2. \A i \in S : i \in Nat
    OBVIOUS
  <2> QED
    BY <2>1, <2>2
<1> HIDE DEF T
<1>2. PICK e \in T : \A i \in T : e <= i
  BY <1>1, FirstOf
<1>3. e \in S /\ p < e
  BY <1>2 DEF T
<1>4. ASSUME NEW i \in S PROVE i <= p \/ e <= i
  <2>1. i \in Nat
    OBVIOUS
  <2>2. CASE p < i
    BY <1>2, <2>2 DEF T
  <2>3. p < i \/ i <= p
    BY <2>1
  <2> QED
    BY <2>2, <2>3
<1> QED
  BY <1>3, <1>4 DEF EndAfter

-----------------------------------------------------------------------------
(* The lines of what the peer sends. *)

EolOf(f) == IF "EOL_NUL" \in f THEN "NUL" ELSE "LF"

\* LineEnds, Stripped and InputLine for any input, flags f and buffer size.
EndsOf(in, f) ==
    {i \in DOMAIN in : in[i] = EolOf(f)} \cup (IF in = <<>> THEN {} ELSE {Len(in)})

Trimmed(s, f) ==
    IF "RETURN_EOL" \in f \/ Last(s) # EolOf(f) THEN s
    ELSE IF f \cap {"EOL_NL", "EOL_NUL", "EOL_CRLF"} = {} THEN s
    ELSE IF f \cap {"EOL_NL", "EOL_NUL"} = {} /\ Len(s) > 1 /\ s[Len(s) - 1] = "CR"
    THEN SubSeq(s, 1, Len(s) - 2) ELSE Front(s)

LineOf(s, f, size) == IF Len(s) > size THEN SubSeq(s, 1, size) ELSE Trimmed(s, f)

\* x is what comes behind the first p bytes.
SuffixAt(in, p, x) == p \in 0 .. Len(in) /\ x = SubSeq(in, p + 1, Len(in))

\* The last thing given is the line its number says.
LastIsLine(in, f, size, o) ==
    o.n > 0 =>
        \E a, e : /\ a \in EndsOf(in, f) \cup {0} /\ EndAfter(EndsOf(in, f), a, e)
                  /\ o.n = Cardinality(EndsBy(EndsOf(in, f), e))
                  /\ o.last = LineOf(SubSeq(in, a + 1, e), f, size)

\* The next line begins with x.
AtLine(in, f, size, o, x) ==
    /\ LastIsLine(in, f, size, o)
    /\ \E p : /\ SuffixAt(in, p, x) /\ p \in EndsOf(in, f) \cup {0}
              /\ o.n = Cardinality(EndsBy(EndsOf(in, f), p))

\* x begins in the middle of a line whose beginning was given.
InLine(in, f, size, o, x) ==
    /\ LastIsLine(in, f, size, o)
    /\ in # <<>> => in[Len(in)] = EolOf(f)
    /\ \E p : SuffixAt(in, p, x) /\ o.n = Cardinality(EndsBy(EndsOf(in, f), p)) + 1

\* The ends of lines of an input lie in it, and its last byte is one.
LEMMA EndsBounded ==
    ASSUME NEW in \in Seq(STRING), NEW f
    PROVE  /\ EndsOf(in, f) \in SUBSET (1 .. Len(in)) /\ Len(in) \in Nat
           /\ \A i \in 1 .. Len(in) : in[i] = EolOf(f) => i \in EndsOf(in, f)
           /\ \A i \in EndsOf(in, f) : i = Len(in) \/ in[i] = EolOf(f)
           /\ in # <<>> => Len(in) \in EndsOf(in, f)
<1>1. DOMAIN in = 1 .. Len(in) /\ Len(in) \in Nat
  OBVIOUS
<1>2. in # <<>> => Len(in) \in 1 .. Len(in)
  <2>1. CASE Len(in) = 0
    <3>1. in = <<>>
      BY <2>1
    <3> QED
      BY <3>1
  <2>2. CASE Len(in) # 0
    BY <1>1, <2>2
  <2> QED
    BY <2>1, <2>2
<1> QED
  BY <1>1, <1>2 DEF EndsOf

\* Bytes taken from what is to come.
LEMMA SuffixTaken ==
    ASSUME NEW in \in Seq(STRING), NEW p, NEW d \in Seq(STRING), NEW y \in Seq(STRING),
           SuffixAt(in, p, d \o y)
    PROVE  /\ p \in Nat /\ p + Len(d) \in Nat /\ p <= p + Len(d) /\ p + Len(d) <= Len(in)
           /\ SuffixAt(in, p + Len(d), y)
           /\ d = SubSeq(in, p + 1, p + Len(d))
           /\ \A k \in 1 .. Len(d) : in[p + k] = d[k]
           /\ y = <<>> => p + Len(d) = Len(in)
<1>1. p \in Nat /\ p <= Len(in) /\ Len(in) \in Nat /\ d \o y = SubSeq(in, p + 1, Len(in))
  BY DEF SuffixAt
<1>2. /\ Len(d) \in Nat /\ Len(y) \in Nat /\ Len(d \o y) = Len(d) + Len(y)
      /\ \A k \in 1 .. Len(d) : (d \o y)[k] = d[k]
      /\ \A k \in 1 .. Len(y) : (d \o y)[Len(d) + k] = y[k]
  BY BytesJoined
<1>3. PICK s : s = SubSeq(in, p + 1, Len(in))
  OBVIOUS
<1>4. /\ s \in Seq(STRING) /\ Len(s) = Len(in) - p
      /\ \A k \in 1 .. Len(in) - p : s[k] = in[p + k]
  <2>1. Len(in) <= Len(in)
    BY <1>1
  <2> QED
    BY <1>1, <1>3, <2>1, BytesCut
<1>5. PICK q \in Nat : q = p + Len(d)
  BY <1>1, <1>2
<1>6. Len(in) - p = Len(d) + Len(y) /\ q <= Len(in) /\ q + Len(y) = Len(in) /\ p <= q
      /\ q - p = Len(d) /\ Len(in) - q = Len(y)
  <2>1. Len(d) + Len(y) = Len(in) - p
    BY <1>1, <1>2, <1>3, <1>4
  <2>2. Len(d) \in Nat /\ Len(y) \in Nat
    BY <1>2
  <2> QED
    BY <1>1, <1>5, <2>1, <2>2
<1>7. \A k \in 1 .. Len(d) : in[p + k] = d[k]
  <2> SUFFICES ASSUME NEW k \in 1 .. Len(d) PROVE in[p + k] = d[k]
    OBVIOUS
  <2>1. k \in 1 .. Len(in) - p
    BY <1>1, <1>2, <1>6
  <2> QED
    BY <1>1, <1>2, <1>3, <1>4, <2>1
<1>8. d = SubSeq(in, p + 1, q)
  <2>1. PICK z : z = SubSeq(in, p + 1, q)
    OBVIOUS
  <2>2. z \in Seq(STRING) /\ Len(z) = q - p /\ \A k \in 1 .. q - p : z[k] = in[p + k]
    BY <1>1, <1>6, <2>1, BytesCut
  <2>3. \A k \in 1 .. Len(d) : d[k] = z[k]
    BY <1>6, <1>7, <2>2
  <2>4. d = z
    BY <1>6, <2>2, <2>3, SeqEqual
  <2> QED
    BY <2>1, <2>4
<1>9. y = SubSeq(in, q + 1, Len(in))
  <2>1. PICK z : z = SubSeq(in, q + 1, Len(in))
    OBVIOUS
  <2>2. z \in Seq(STRING) /\ Len(z) = Len(in) - q
        /\ \A k \in 1 .. Len(in) - q : z[k] = in[q + k]
    <3>1. Len(in) <= Len(in)
      BY <1>1
    <3> QED
      BY <1>1, <1>6, <2>1, <3>1, BytesCut
  <2>3. ASSUME NEW k \in 1 .. Len(y) PROVE y[k] = z[k]
    <3>1. /\ Len(d) + k \in 1 .. Len(in) - p /\ k \in 1 .. Len(in) - q
          /\ p + (Len(d) + k) = q + k
      BY <1>1, <1>2, <1>5, <1>6
    <3>2. (d \o y)[Len(d) + k] = y[k]
      BY <1>2
    <3>3. s[Len(d) + k] = in[p + (Len(d) + k)]
      BY <1>4, <3>1
    <3>4. z[k] = in[q + k]
      BY <2>2, <3>1
    <3> QED
      BY <1>1, <1>3, <3>1, <3>2, <3>3, <3>4
  <2>4. y = z
    BY <1>6, <2>2, <2>3, SeqEqual
  <2> QED
    BY <2>1, <2>4
<1>10. SuffixAt(in, q, y)
  BY <1>1, <1>6, <1>9 DEF SuffixAt
<1>11. y = <<>> => q = Len(in)
  <2>1. y = <<>> => Len(y) = 0
    OBVIOUS
  <2> QED
    BY <1>1, <1>6, <2>1
<1> QED
  BY <1>1, <1>5, <1>6, <1>7, <1>8, <1>10, <1>11

\* raw is a line with its end, or the last bytes.
WholeLine(raw, y, f) ==
    /\ raw \in Seq(STRING) /\ raw # <<>>
    /\ \A k \in 1 .. Len(raw) : k < Len(raw) => raw[k] # EolOf(f)
    /\ raw[Len(raw)] = EolOf(f) \/ y = <<>>

NoEol(d, f) == d \in Seq(STRING) /\ \A k \in 1 .. Len(d) : d[k] # EolOf(f)

\* A sequence that is not empty.
LEMMA SomeBytes ==
    ASSUME NEW d \in Seq(STRING), d # <<>>
    PROVE  Len(d) \in Nat /\ 1 <= Len(d) /\ Len(d) \in 1 .. Len(d)
<1>1. Len(d) \in Nat \ {0}
  BY EmptySeq
<1>2. \A k \in Nat \ {0} : k \in Nat /\ 1 <= k /\ k \in 1 .. k
  OBVIOUS
<1> QED
  BY <1>1, <1>2

\* The bytes between two places.
LEMMA BytesBetween ==
    ASSUME NEW d \in Seq(STRING), NEW p \in Nat, NEW i \in Nat, p < i, i <= p + Len(d)
    PROVE  \E k \in 1 .. Len(d) : i = p + k
<1>1. Len(d) \in Nat
  OBVIOUS
<1>2. i - p \in 1 .. Len(d) /\ i = p + (i - p)
  BY <1>1
<1> QED
  BY <1>2

\* A line ends where the next end behind its beginning is.
LEMMA LineEndsThere ==
    ASSUME NEW in \in Seq(STRING), NEW f, NEW p, NEW raw, NEW y \in Seq(STRING),
           WholeLine(raw, y, f), SuffixAt(in, p, raw \o y)
    PROVE  EndAfter(EndsOf(in, f), p, p + Len(raw))
<1> DEFINE e == p + Len(raw)
<1>1. raw \in Seq(STRING) /\ Len(raw) \in Nat /\ 1 <= Len(raw) /\ Len(raw) \in 1 .. Len(raw)
  BY SomeBytes DEF WholeLine
<1>2. /\ p \in Nat /\ e \in Nat /\ e <= Len(in)
      /\ \A k \in 1 .. Len(raw) : in[p + k] = raw[k]
      /\ y = <<>> => e = Len(in)
  BY <1>1, SuffixTaken
<1>3. p < e
  BY <1>1, <1>2
<1> HIDE DEF e
<1>4. Len(in) \in Nat
  OBVIOUS
<1>5. e \in EndsOf(in, f)
  <2>1. CASE raw[Len(raw)] = EolOf(f)
    <3>1. in[e] = EolOf(f)
      BY <1>1, <1>2, <2>1 DEF e
    <3>2. e \in 1 .. Len(in)
      BY <1>2, <1>3, <1>4
    <3> QED
      BY <3>1, <3>2, EndsBounded
  <2>2. CASE y = <<>>
    <3>1. in # <<>>
      <4>1. Len(in) # 0
        BY <1>2, <1>3, <1>4
      <4> QED
        BY <4>1
    <3> QED
      BY <1>2, <2>2, <3>1, EndsBounded
  <2> QED
    BY <2>1, <2>2 DEF WholeLine
<1>6. ASSUME NEW i \in EndsOf(in, f) PROVE i <= p \/ e <= i
  <2>1. i \in 1 .. Len(in) /\ (i = Len(in) \/ in[i] = EolOf(f))
    BY EndsBounded
  <2>2. i \in Nat
    BY <2>1
  <2> SUFFICES ASSUME p < i, i < e PROVE FALSE
    BY <1>2, <2>2
  <2>3. in[i] = EolOf(f)
    BY <1>2, <1>4, <2>1, <2>2
  <2>4. i <= p + Len(raw)
    BY <1>2, <2>2 DEF e
  <2>5. PICK k \in 1 .. Len(raw) : i = p + k
    BY <1>1, <1>2, <2>2, <2>4, BytesBetween
  <2>6. k < Len(raw)
    BY <1>1, <1>2, <2>5 DEF e
  <2>7. raw[k] # EolOf(f)
    BY <2>6 DEF WholeLine
  <2> QED
    BY <1>2, <2>3, <2>5, <2>7
<1> QED
  BY <1>3, <1>5, <1>6 DEF EndAfter, e

\* No end of a line is among bytes without an end-of-line, unless they are the last ones.
LEMMA NoEndThere ==
    ASSUME NEW in \in Seq(STRING), NEW f, NEW p, NEW d, NEW y \in Seq(STRING),
           NoEol(d, f), SuffixAt(in, p, d \o y), in # <<>> => in[Len(in)] = EolOf(f)
    PROVE  /\ EndsBy(EndsOf(in, f), p + Len(d)) = EndsBy(EndsOf(in, f), p)
           /\ SuffixAt(in, p + Len(d), y)
<1> DEFINE q == p + Len(d)
<1>1. d \in Seq(STRING) /\ Len(d) \in Nat
  BY DEF NoEol
<1>2. /\ p \in Nat /\ q \in Nat /\ p <= q /\ q <= Len(in)
      /\ \A k \in 1 .. Len(d) : in[p + k] = d[k]
      /\ SuffixAt(in, q, y)
  BY <1>1, SuffixTaken
<1> HIDE DEF q
<1>3. /\ EndsOf(in, f) \in SUBSET (1 .. Len(in)) /\ Len(in) \in Nat
      /\ \A i \in EndsOf(in, f) : i = Len(in) \/ in[i] = EolOf(f)
  BY EndsBounded
<1>4. ASSUME NEW i \in EndsOf(in, f) PROVE i <= p \/ q < i
  <2>1. i \in Nat /\ i \in 1 .. Len(in)
    BY <1>3
  <2>2. in[i] = EolOf(f)
    <3>1. in # <<>>
      <4>1. Len(in) # 0
        BY <1>3, <2>1
      <4> QED
        BY <4>1
    <3> QED
      BY <1>3, <3>1
  <2> SUFFICES ASSUME p < i, i <= q PROVE FALSE
    BY <1>2, <2>1
  <2>3. i <= p + Len(d)
    BY DEF q
  <2>4. PICK k \in 1 .. Len(d) : i = p + k
    BY <1>1, <1>2, <2>1, <2>3, BytesBetween
  <2>5. d[k] # EolOf(f)
    BY DEF NoEol
  <2> QED
    BY <1>2, <2>2, <2>4, <2>5
<1>5. EndsBy(EndsOf(in, f), q) = EndsBy(EndsOf(in, f), p)
  BY <1>2, <1>3, <1>4, NoneCounted
<1> QED
  BY <1>2, <1>5 DEF q

\* The next line goes out.
NextGiven(o, t, d) == t.n = o.n + 1 /\ t.last = d

\* After a whole line is handed out the next line is at its beginning.
LEMMA LineGoesOut ==
    ASSUME NEW in \in Seq(STRING), NEW f, NEW size \in Nat, NEW o, NEW t,
           NEW raw, NEW y \in Seq(STRING),
           AtLine(in, f, size, o, raw \o y), WholeLine(raw, y, f), Len(raw) <= size,
           NextGiven(o, t, Trimmed(raw, f))
    PROVE  AtLine(in, f, size, t, y)
<1>1. PICK p : /\ SuffixAt(in, p, raw \o y) /\ p \in EndsOf(in, f) \cup {0}
               /\ o.n = Cardinality(EndsBy(EndsOf(in, f), p))
  BY DEF AtLine
<1>2. PICK e : e = p + Len(raw)
  OBVIOUS
<1>3. EndAfter(EndsOf(in, f), p, e)
  BY <1>1, <1>2, LineEndsThere
<1>4. raw \in Seq(STRING) /\ Len(raw) \in Nat
  BY DEF WholeLine
<1>5. p \in Nat /\ SuffixAt(in, e, y) /\ raw = SubSeq(in, p + 1, e)
  BY <1>1, <1>2, <1>4, SuffixTaken
<1>6. EndsOf(in, f) \in SUBSET (1 .. Len(in)) /\ Len(in) \in Nat
  BY EndsBounded
<1>7. Cardinality(EndsBy(EndsOf(in, f), e)) = Cardinality(EndsBy(EndsOf(in, f), p)) + 1
  BY <1>3, <1>5, <1>6, EndCounted
<1>8. t.n = Cardinality(EndsBy(EndsOf(in, f), e))
  BY <1>1, <1>7 DEF NextGiven
<1>9. LineOf(SubSeq(in, p + 1, e), f, size) = Trimmed(raw, f)
  <2>1. ~(Len(raw) > size)
    BY <1>4
  <2> QED
    BY <1>5, <2>1 DEF LineOf
<1>10. LastIsLine(in, f, size, t)
  BY <1>1, <1>3, <1>8, <1>9 DEF LastIsLine, NextGiven
<1>11. e \in EndsOf(in, f)
  BY <1>3 DEF EndAfter
<1> QED
  BY <1>5, <1>8, <1>10, <1>11 DEF AtLine

\* d are the bytes behind the first p.
Part(in, p, d) ==
    /\ p + Len(d) <= Len(in) /\ d = SubSeq(in, p + 1, p + Len(d))
    /\ \A k \in 1 .. Len(d) : in[p + k] = d[k]

\* The first bytes of what is to come are the part of the input behind what came before.
LEMMA PartTaken ==
    ASSUME NEW in \in Seq(STRING), NEW p, NEW d \in Seq(STRING), NEW y \in Seq(STRING),
           SuffixAt(in, p, d \o y)
    PROVE  p \in Nat /\ Part(in, p, d) /\ SuffixAt(in, p + Len(d), y)
  BY SuffixTaken DEF Part

\* The beginning of a line goes out.
LEMMA LineCutOff ==
    ASSUME NEW in \in Seq(STRING), NEW f, NEW size \in Nat, NEW o, NEW t,
           NEW raw, NEW y \in Seq(STRING),
           AtLine(in, f, size, o, raw \o y), NoEol(raw, f), raw # <<>>, Len(raw) = size,
           in # <<>> => in[Len(in)] = EolOf(f),
           NextGiven(o, t, raw)
    PROVE  InLine(in, f, size, t, y)
<1>1. PICK p : /\ SuffixAt(in, p, raw \o y) /\ p \in EndsOf(in, f) \cup {0}
               /\ o.n = Cardinality(EndsBy(EndsOf(in, f), p))
  BY DEF AtLine
<1>2. raw \in Seq(STRING) /\ Len(raw) \in Nat /\ 1 <= Len(raw) /\ Len(raw) \in 1 .. Len(raw)
  BY SomeBytes DEF NoEol
<1>3. PICK q : q = p + Len(raw)
  OBVIOUS
<1>4. /\ p \in Nat /\ q \in Nat /\ q <= Len(in) /\ SuffixAt(in, q, y)
      /\ raw = SubSeq(in, p + 1, q)
      /\ \A k \in 1 .. Len(raw) : in[p + k] = raw[k]
  <2>1. p \in Nat /\ Part(in, p, raw) /\ SuffixAt(in, p + Len(raw), y)
    BY <1>1, <1>2, PartTaken
  <2>2. p + Len(raw) \in Nat
    BY <1>2, <2>1
  <2> QED
    BY <1>3, <2>1, <2>2 DEF Part
<1>5. EndsBy(EndsOf(in, f), q) = EndsBy(EndsOf(in, f), p)
  BY <1>1, <1>3, NoEndThere
<1>6. /\ EndsOf(in, f) \in SUBSET (1 .. Len(in)) /\ Len(in) \in Nat
      /\ in # <<>> => Len(in) \in EndsOf(in, f)
  BY EndsBounded
<1>7. p < q /\ q - p = Len(raw)
  BY <1>2, <1>3, <1>4
<1>8. in # <<>>
  <2>1. Len(in) # 0
    BY <1>4, <1>6, <1>7
  <2> QED
    BY <2>1
<1>9. q < Len(in)
  <2> SUFFICES ASSUME q = Len(in) PROVE FALSE
    BY <1>4, <1>6
  <2>1. in[q] = raw[Len(raw)]
    BY <1>2, <1>3, <1>4
  <2>2. raw[Len(raw)] # EolOf(f)
    BY <1>2 DEF NoEol
  <2> QED
    BY <1>8, <2>1, <2>2
<1>10. p < Len(in)
  BY <1>4, <1>6, <1>7, <1>9
<1>11. PICK e : EndAfter(EndsOf(in, f), p, e)
  BY <1>4, <1>6, <1>8, <1>10, EndThere
<1>12. Cardinality(EndsBy(EndsOf(in, f), e)) = Cardinality(EndsBy(EndsOf(in, f), p)) + 1
  BY <1>4, <1>6, <1>11, EndCounted
<1>13. t.n = Cardinality(EndsBy(EndsOf(in, f), e))
  BY <1>1, <1>12 DEF NextGiven
<1>14. e \in Nat /\ e <= Len(in) /\ e \in EndsOf(in, f)
  BY <1>6, <1>11 DEF EndAfter
<1>15. q < e
  <2> SUFFICES ASSUME e <= q PROVE FALSE
    BY <1>4, <1>14
  <2>1. e \in EndsBy(EndsOf(in, f), q)
    BY <1>14 DEF EndsBy
  <2>2. e <= p
    BY <1>5, <2>1 DEF EndsBy
  <2> QED
    BY <1>4, <1>11, <1>14, <2>2 DEF EndAfter
<1>16. LineOf(SubSeq(in, p + 1, e), f, size) = raw
  <2>1. PICK s : s = SubSeq(in, p + 1, e)
    OBVIOUS
  <2>2. p <= e /\ p + Len(raw) <= e
    BY <1>3, <1>4, <1>7, <1>14, <1>15
  <2>3. /\ s \in Seq(STRING) /\ Len(s) = e - p
        /\ \A k \in 1 .. e - p : s[k] = in[p + k]
    <3>1. in \in Seq(STRING) /\ p \in Nat /\ e \in Nat /\ p <= e /\ e <= Len(in)
      BY <1>4, <1>14, <2>2
    <3>2. /\ SubSeq(in, p + 1, e) \in Seq(STRING) /\ Len(SubSeq(in, p + 1, e)) = e - p
          /\ \A k \in 1 .. e - p : SubSeq(in, p + 1, e)[k] = in[p + k]
      BY <3>1, BytesCut
    <3> QED
      BY <2>1, <3>2
  <2>4. Len(s) > size /\ Len(raw) <= Len(s)
    BY <1>3, <1>4, <1>14, <1>15, <2>3
  <2>5. PICK z : z = SubSeq(s, 1, Len(raw))
    OBVIOUS
  <2>6. z \in Seq(STRING) /\ Len(z) = Len(raw) /\ \A k \in 1 .. Len(raw) : z[k] = s[k]
    BY <1>2, <2>3, <2>4, <2>5, BytesFirst
  <2>7. ASSUME NEW k \in 1 .. Len(raw) PROVE z[k] = raw[k]
    <3>1. k \in 1 .. e - p
      BY <1>2, <1>4, <1>14, <2>3, <2>4
    <3> QED
      BY <1>4, <2>3, <2>6, <3>1
  <2>8. z = raw
    BY <1>2, <2>6, <2>7, SeqEqual
  <2> QED
    BY <2>1, <2>4, <2>5, <2>8 DEF LineOf
<1>17. LastIsLine(in, f, size, t)
  BY <1>1, <1>11, <1>13, <1>16 DEF LastIsLine, NextGiven
<1>18. t.n = Cardinality(EndsBy(EndsOf(in, f), q)) + 1
  BY <1>1, <1>5 DEF NextGiven
<1> QED
  BY <1>4, <1>17, <1>18 DEF InLine

\* More of the rest of a line is passed over.
LEMMA RestPassed ==
    ASSUME NEW in \in Seq(STRING), NEW f, NEW size \in Nat, NEW o,
           NEW d, NEW y \in Seq(STRING),
           InLine(in, f, size, o, d \o y), NoEol(d, f)
    PROVE  InLine(in, f, size, o, y)
<1>1. PICK p : SuffixAt(in, p, d \o y) /\ o.n = Cardinality(EndsBy(EndsOf(in, f), p)) + 1
  BY DEF InLine
<1>2. in # <<>> => in[Len(in)] = EolOf(f)
  BY DEF InLine
<1>3. /\ EndsBy(EndsOf(in, f), p + Len(d)) = EndsBy(EndsOf(in, f), p)
      /\ SuffixAt(in, p + Len(d), y)
  BY <1>1, <1>2, NoEndThere
<1> QED
  BY <1>1, <1>3 DEF InLine

\* The end of the line is passed over.
LEMMA EndPassed ==
    ASSUME NEW in \in Seq(STRING), NEW f, NEW size \in Nat, NEW o,
           NEW d, NEW y \in Seq(STRING),
           InLine(in, f, size, o, d \o y), WholeLine(d, y, f)
    PROVE  AtLine(in, f, size, o, y)
<1>1. PICK p : SuffixAt(in, p, d \o y) /\ o.n = Cardinality(EndsBy(EndsOf(in, f), p)) + 1
  BY DEF InLine
<1>2. PICK e : e = p + Len(d)
  OBVIOUS
<1>3. EndAfter(EndsOf(in, f), p, e)
  BY <1>1, <1>2, LineEndsThere
<1>4. p \in Nat /\ SuffixAt(in, e, y)
  BY <1>1, <1>2, SuffixTaken DEF WholeLine
<1>5. EndsOf(in, f) \in SUBSET (1 .. Len(in)) /\ Len(in) \in Nat
  BY EndsBounded
<1>6. Cardinality(EndsBy(EndsOf(in, f), e)) = Cardinality(EndsBy(EndsOf(in, f), p)) + 1
  BY <1>3, <1>4, <1>5, EndCounted
<1>7. e \in EndsOf(in, f)
  BY <1>3 DEF EndAfter
<1> QED
  BY <1>1, <1>4, <1>6, <1>7 DEF AtLine, InLine

\* The flags that were given to z_stream_line_new or switched: the others say what happened.
Framed(m) == m.flags \cap NewFlags

\* The flags about lines are among those that can be given to z_stream_line_new.
LEMMA FramedIs ==
    ASSUME NEW m
    PROVE  /\ "RETURN_EOL" \in Framed(m) <=> "RETURN_EOL" \in m.flags
           /\ "EOL_NUL" \in Framed(m) <=> "EOL_NUL" \in m.flags
           /\ "EOL_CRLF" \in Framed(m) <=> "EOL_CRLF" \in m.flags
           /\ "EOL_NL" \in Framed(m) <=> "EOL_NL" \in m.flags
           /\ "SPLIT" \in Framed(m) <=> "SPLIT" \in m.flags
           /\ "TRUNCATE" \in Framed(m) <=> "TRUNCATE" \in m.flags
           /\ EolOf(Framed(m)) = EolOf(m.flags)
  BY DEF Framed, NewFlags, EolOf

\* The end-of-line byte of the stream.
LEMMA EolByteIs == EolByte = EolOf(Framed(l)) /\ EolByte = EolOf(l.flags)
  BY FramedIs DEF EolByte, EolOf

\* The line that ends at e, as it stands in the buffer.
Raw(n, e) == SubSeq(n.buf, n.pos + 1, e)

\* The buffer of a stream whose child has ended has no end-of-line.
LastBytes(n, u) == "EOF" \in n.flags => u = <<>> /\ Left(n) # <<>> /\ Eols(n) = {}

\* The bytes of a line as they stand in the buffer.
LEMMA RawIs ==
    ASSUME NEW n, LineOK(n), NEW e, EndsAt(n, e), NEW q, Taken(n, q, e)
    PROVE  /\ Raw(n, e) \in Seq(STRING) /\ Len(Raw(n, e)) = e - n.pos
           /\ Len(Raw(n, e)) <= n.bufsize
           /\ \A k \in 1 .. e - n.pos : Raw(n, e)[k] = n.buf[n.pos + k]
           /\ Left(n) = Raw(n, e) \o Left(q)
           /\ n.pos \in Nat /\ e \in Nat /\ n.pos <= e /\ e <= Len(n.buf)
           /\ e = Len(n.buf) => Left(q) = <<>> /\ Left(n) = Raw(n, e)
<1>1. /\ n.buf \in Seq(STRING) /\ Len(n.buf) \in Nat /\ n.pos \in Nat /\ n.bufsize \in Nat
      /\ Len(n.buf) <= n.bufsize /\ Left(n) \in Seq(STRING)
  BY LineFields
<1>2. e \in Nat /\ n.pos <= e /\ e <= Len(n.buf)
  <2>1. e \in n.pos .. Len(n.buf)
    BY DEF EndsAt
  <2> QED
    BY <1>1, <2>1
<1>3. /\ Raw(n, e) \in Seq(STRING) /\ Len(Raw(n, e)) = e - n.pos
      /\ \A k \in 1 .. e - n.pos : Raw(n, e)[k] = n.buf[n.pos + k]
  BY <1>1, <1>2, BytesCut DEF Raw
<1>4. Left(n) = Raw(n, e) \o SubSeq(n.buf, e + 1, Len(n.buf))
  BY <1>1, <1>2, BytesSplit DEF Left, Raw
<1>5. Left(q) = SubSeq(n.buf, e + 1, Len(n.buf))
  BY DEF Taken, Left
<1>6. Len(Raw(n, e)) <= n.bufsize
  BY <1>1, <1>2, <1>3
<1>7. ASSUME e = Len(n.buf) PROVE Left(q) = <<>> /\ Left(n) = Raw(n, e)
  <2>1. SubSeq(n.buf, e + 1, Len(n.buf)) = <<>>
    BY <1>1, <1>7
  <2> QED
    BY <1>5, <1>7, <2>1 DEF Left, Raw
<1> QED
  BY <1>1, <1>2, <1>3, <1>4, <1>5, <1>6, <1>7

\* They are all of the next line of what is to come.
LEMMA RawWhole ==
    ASSUME NEW n, LineOK(n), NEW e, EndsAt(n, e), NEW q, Taken(n, q, e), NEW u,
           EolByte = EolOf(Framed(n)), LastBytes(n, u)
    PROVE  WholeLine(Raw(n, e), Left(q) \o u, Framed(n))
<1>1. /\ Raw(n, e) \in Seq(STRING) /\ Len(Raw(n, e)) = e - n.pos
      /\ \A k \in 1 .. e - n.pos : Raw(n, e)[k] = n.buf[n.pos + k]
      /\ n.pos \in Nat /\ e \in Nat /\ n.pos <= e /\ e <= Len(n.buf)
      /\ e = Len(n.buf) => Left(q) = <<>> /\ Left(n) = Raw(n, e)
  BY RawIs
<1>2. Len(n.buf) \in Nat
  BY LineFields
<1>3. CASE "EOF" \in n.flags
  <2>1. e = Len(n.buf) /\ u = <<>> /\ Left(n) # <<>> /\ Eols(n) = {}
    BY <1>3 DEF EndsAt, LastBytes
  <2>2. Raw(n, e) # <<>> /\ Left(q) \o u = <<>>
    BY <1>1, <2>1
  <2>3. ASSUME NEW k \in 1 .. Len(Raw(n, e)) PROVE Raw(n, e)[k] # EolByte
    <3>1. k \in 1 .. e - n.pos /\ n.pos + k \in n.pos + 1 .. Len(n.buf)
      BY <1>1, <1>2
    <3> QED
      BY <1>1, <2>1, <3>1 DEF Eols
  <2> QED
    BY <1>1, <2>2, <2>3 DEF WholeLine
<1>4. CASE "EOF" \notin n.flags
  <2>1. e \in Eols(n) /\ \A i \in Eols(n) : e <= i
    BY <1>4 DEF EndsAt
  <2>2. n.pos < e /\ n.buf[e] = EolByte
    BY <1>1, <1>2, <2>1 DEF Eols
  <2>3. Raw(n, e) # <<>> /\ Len(Raw(n, e)) \in 1 .. e - n.pos
    BY <1>1, <2>2
  <2>4. Raw(n, e)[Len(Raw(n, e))] = EolByte
    <3>1. n.pos + Len(Raw(n, e)) = e
      BY <1>1
    <3> QED
      BY <1>1, <2>2, <2>3, <3>1
  <2>5. ASSUME NEW k \in 1 .. Len(Raw(n, e)), k < Len(Raw(n, e)) PROVE Raw(n, e)[k] # EolByte
    <3>1. k \in 1 .. e - n.pos /\ n.pos + k \in n.pos + 1 .. Len(n.buf) /\ ~(e <= n.pos + k)
      BY <1>1, <1>2, <2>5
    <3> QED
      BY <1>1, <2>1, <3>1 DEF Eols
  <2> QED
    BY <1>1, <2>3, <2>4, <2>5 DEF WholeLine
<1> QED
  BY <1>3, <1>4

\* The last byte of a line, and the one before it.
LEMMA LastBytesOf ==
    ASSUME NEW s \in Seq(STRING), s # <<>>
    PROVE  /\ Len(s) \in Nat /\ 1 <= Len(s) /\ Len(s) \in 1 .. Len(s)
           /\ Last(s) = s[Len(s)] /\ Front(s) = SubSeq(s, 1, Len(s) - 1)
  BY SomeBytes DEF Last, Front

\* Where a part ends whose end-of-line is cut off.
LEMMA CutBehind ==
    \A p \in Nat : \A width \in Nat : \A c \in Nat :
        c <= width =>
          /\ width - c \in Nat /\ p + (width - c) = (p + width) - c
          /\ p + (width - c) <= p + width
          /\ 1 <= width - c => width - c \in 1 .. width
  OBVIOUS

\* The first bytes of a line in the buffer.
LEMMA RawPart ==
    ASSUME NEW n, LineOK(n), NEW e, EndsAt(n, e), NEW k \in Nat, n.pos + k <= e
    PROVE  SubSeq(Raw(n, e), 1, k) = SubSeq(n.buf, n.pos + 1, n.pos + k)
<1>1. PICK s \in Seq(STRING) : s = n.buf
  BY LineFields
<1>2. PICK p \in Nat : p = n.pos
  BY LineFields
<1>3. e \in Nat /\ p <= e /\ e <= Len(s)
  <2>1. e \in n.pos .. Len(n.buf)
    BY DEF EndsAt
  <2> QED
    BY <1>1, <1>2, <2>1
<1>4. p + k <= e
  BY <1>2
<1>5. SubSeq(SubSeq(s, p + 1, e), 1, k) = SubSeq(s, p + 1, p + k)
  BY <1>3, <1>4, PartOfPart
<1> QED
  BY <1>1, <1>2, <1>5 DEF Raw

\* The data of a line are its bytes without the end-of-line.
LEMMA RawTrimmed ==
    ASSUME NEW n, LineOK(n), NEW e, EndsAt(n, e), NEW q, Taken(n, q, e), NEW u,
           EolByte = EolOf(Framed(n)), LastBytes(n, u), LineTo(n, e).status = "NORMAL"
    PROVE  LineTo(n, e).data = Trimmed(Raw(n, e), Framed(n))
<1>1. /\ Raw(n, e) \in Seq(STRING) /\ Len(Raw(n, e)) = e - n.pos
      /\ \A k \in 1 .. e - n.pos : Raw(n, e)[k] = n.buf[n.pos + k]
      /\ n.pos \in Nat /\ e \in Nat /\ n.pos <= e /\ e <= Len(n.buf)
      /\ n.buf \in Seq(STRING) /\ Len(n.buf) \in Nat
  BY RawIs, LineFields
<1>2. PICK raw \in Seq(STRING) : raw = Raw(n, e)
  BY <1>1
<1>3. WholeLine(raw, Left(q) \o u, Framed(n))
  BY <1>2, RawWhole
<1>4. /\ Len(raw) \in Nat /\ 1 <= Len(raw) /\ Len(raw) = e - n.pos
      /\ Last(raw) = raw[Len(raw)] /\ Front(raw) = SubSeq(raw, 1, Len(raw) - 1)
  <2>1. raw # <<>>
    BY <1>3 DEF WholeLine
  <2> QED
    BY <1>1, <1>2, <2>1, LastBytesOf
<1>5. PICK width \in Nat : width = Len(raw) /\ 1 <= width /\ e = n.pos + width
  <2>1. e = n.pos + Len(raw)
    <3>1. Len(raw) = e - n.pos /\ e \in Nat /\ n.pos \in Nat
      BY <1>1, <1>4
    <3> QED
      BY <3>1
  <2> QED
    BY <1>4, <2>1
<1>6. n.pos \in Nat /\ e \in Nat /\ Len(n.buf) \in Nat /\ e <= Len(n.buf)
  BY <1>1
<1>7. \A k \in 1 .. width : raw[k] = n.buf[n.pos + k]
  <2>1. width = e - n.pos
    BY <1>5, <1>6
  <2> QED
    BY <1>1, <1>2, <2>1
<1>8. /\ LineTo(n, e).status = "NORMAL" /\ "RETURN_EOL" \in n.flags
           => LineTo(n, e).data = raw
      /\ LineTo(n, e).status = "NORMAL" /\ "RETURN_EOL" \notin n.flags
           => /\ EolLen(n, e) \in 0 .. 2 /\ EolLen(n, e) <= e - n.pos
              /\ LineTo(n, e).data = SubSeq(n.buf, n.pos + 1, e - EolLen(n, e))
  <2>1. e \in n.pos .. Len(n.buf)
    BY <1>1
  <2> QED
    BY <1>2, <2>1, LineData DEF Raw
<1>9. CASE "RETURN_EOL" \in n.flags
  BY <1>2, <1>8, <1>9, FramedIs DEF Trimmed
<1>10. CASE "RETURN_EOL" \notin n.flags
  <2>1. PICK c \in 0 .. 2 : c = EolLen(n, e) /\ c <= e - n.pos
    BY <1>8, <1>10
  <2>2. LineTo(n, e).data = SubSeq(raw, 1, Len(raw) - c)
    <3>4. c <= width
      BY <1>5, <1>6, <2>1
    <3>5. width \in Nat /\ n.pos \in Nat /\ c \in Nat
      BY <1>6
    <3>6. width - c \in Nat /\ n.pos + (width - c) = (n.pos + width) - c /\ n.pos + (width - c) <= n.pos + width
      BY <3>4, <3>5, CutBehind
    <3>1. PICK k \in Nat : k = width - c
      BY <3>6
    <3>2. n.pos + k <= e /\ n.pos + k = e - c
      BY <1>5, <3>1, <3>6
    <3>3. SubSeq(raw, 1, k) = SubSeq(n.buf, n.pos + 1, n.pos + k)
      BY <1>2, <3>2, RawPart
    <3> QED
      BY <1>8, <1>10, <1>5, <2>1, <3>1, <3>2, <3>3
  <2>3. SubSeq(raw, 1, Len(raw)) = raw
    BY <1>2
  <2>4. /\ "RETURN_EOL" \notin Framed(n)
        /\ Framed(n) \cap {"EOL_NL", "EOL_NUL"} = {} <=> n.flags \cap {"EOL_NL", "EOL_NUL"} = {}
        /\ Framed(n) \cap {"EOL_NL", "EOL_NUL", "EOL_CRLF"} = {}
             <=> n.flags \cap {"EOL_NL", "EOL_NUL"} = {} /\ "EOL_CRLF" \notin n.flags
    BY <1>10, FramedIs
  <2>5. CASE "EOF" \in n.flags
    <3>1. c = 0
      BY <2>1, <2>5 DEF EolLen
    <3>2. Last(raw) # EolOf(Framed(n))
      <4>1. Eols(n) = {} /\ e = Len(n.buf)
        BY <2>5 DEF LastBytes, EndsAt
      <4>2. width \in 1 .. width /\ e \in n.pos + 1 .. Len(n.buf)
        BY <1>5, <1>6
      <4>3. raw[width] = n.buf[e]
        BY <1>5, <1>7, <4>2
      <4> QED
        BY <1>4, <1>5, <4>1, <4>2, <4>3 DEF Eols
    <3> QED
      BY <1>2, <1>4, <2>2, <2>3, <3>1, <3>2 DEF Trimmed
  <2>6. CASE "EOF" \notin n.flags
    <3>1. e \in Eols(n)
      BY <2>6 DEF EndsAt
    <3>2. n.buf[e] = EolByte
      BY <3>1 DEF Eols
    <3>3. Last(raw) = EolOf(Framed(n))
      <4>1. width \in 1 .. width
        BY <1>5
      <4>2. raw[width] = n.buf[e]
        BY <1>5, <1>7, <4>1
      <4> QED
        BY <1>4, <1>5, <3>2, <4>2
    <3>4. CASE n.flags \cap {"EOL_NL", "EOL_NUL"} # {}
      <4>1. c = 1
        BY <2>1, <2>6, <3>4 DEF EolLen
      <4>2. Trimmed(raw, Framed(n)) = Front(raw)
        BY <2>4, <3>3, <3>4 DEF Trimmed
      <4> QED
        BY <1>2, <1>4, <2>2, <4>1, <4>2
    <3>5. CASE n.flags \cap {"EOL_NL", "EOL_NUL"} = {} /\ "EOL_CRLF" \notin n.flags
      <4>1. c = 0
        BY <2>1, <2>6, <3>5 DEF EolLen
      <4>2. Trimmed(raw, Framed(n)) = raw
        BY <2>4, <3>3, <3>5 DEF Trimmed
      <4> QED
        BY <1>2, <1>4, <2>2, <2>3, <4>1, <4>2
    <3>6. CASE n.flags \cap {"EOL_NL", "EOL_NUL"} = {} /\ "EOL_CRLF" \in n.flags
      <4>1. c = IF e >= 2 /\ n.buf[e - 1] = "CR" THEN 2 ELSE 1
        BY <2>1, <2>6, <3>6 DEF EolLen
      <4>2. Trimmed(raw, Framed(n)) = IF Len(raw) > 1 /\ raw[Len(raw) - 1] = "CR"
                                      THEN SubSeq(raw, 1, Len(raw) - 2) ELSE Front(raw)
        BY <2>4, <3>3, <3>6 DEF Trimmed
      <4>3. Len(raw) > 1 => raw[Len(raw) - 1] = n.buf[e - 1]
        <5> SUFFICES ASSUME Len(raw) > 1 PROVE raw[Len(raw) - 1] = n.buf[e - 1]
          OBVIOUS
        <5>1. width - 1 \in 1 .. width /\ n.pos + (width - 1) = e - 1
          <6>1. 1 <= width /\ width \in Nat /\ n.pos \in Nat /\ 1 \in Nat /\ 1 <= width - 1
            BY <1>5, <1>6
          <6> QED
            BY <1>5, <6>1, CutBehind
        <5>2. raw[width - 1] = n.buf[n.pos + (width - 1)]
          BY <1>7, <5>1
        <5> QED
          BY <1>5, <5>1, <5>2
      <4>4. CASE c = 2
        <5>1. Len(raw) > 1 /\ n.buf[e - 1] = "CR"
          BY <1>4, <2>1, <4>1, <4>4
        <5> QED
          BY <1>2, <2>2, <4>2, <4>3, <4>4, <5>1
      <4>5. CASE c # 2
        <5>1. c = 1 /\ ~(e >= 2 /\ n.buf[e - 1] = "CR")
          BY <4>1, <4>5
        <5>2. Len(raw) > 1 => e >= 2
          BY <1>5, <1>6
        <5>3. Trimmed(raw, Framed(n)) = Front(raw)
          BY <4>2, <4>3, <5>1, <5>2
        <5> QED
          BY <1>2, <1>4, <2>2, <5>1, <5>3
      <4> QED
        BY <4>4, <4>5
    <3> QED
      BY <3>4, <3>5, <3>6
  <2> QED
    BY <2>5, <2>6
<1> QED
  BY <1>9, <1>10

\* A call for a line that looks through n and does not fail leaves flags and size alone.
LEMMA TakingKeeps ==
    ASSUME NEW n, LineOK(n), NEW copy \in Nat, out \in Outs, Taking(n, copy)
    PROVE  /\ l'.bufsize = n.bufsize /\ history \subseteq history'
           /\ history' \cap {"failed", "overrun"} = {} => l'.flags = n.flags
<1>1. CASE TakeAgain(n, copy)
  BY <1>1 DEF TakeAgain, Compacted, Alike
<1>2. CASE TakeBad(n)
  BY <1>2 DEF TakeBad
<1>3. CASE TakeLine(n, copy)
  <2>1. PICK e, q : /\ EndsAt(n, e) /\ Taken(n, q, e)
                    /\ LineTo(n, e).status = "NORMAL"
                    /\ Answer(LineTo(n, e).data, q, copy)
    BY <1>3 DEF TakeLine
  <2>2. Answers(LineTo(n, e).data, q, copy)
    BY <2>1, LineAnswered
  <2> QED
    BY <2>1, <2>2 DEF Answers, Taken, Alike
<1> QED
  BY <1>1, <1>2, <1>3 DEF Taking

\* What is asked of a call for a line that looks through n before the bytes u.
Looking(n, u) ==
    /\ LineOK(n) /\ "SPLIT" \notin n.flags /\ EolByte = EolOf(Framed(n)) /\ LastBytes(n, u)
    /\ history' \cap {"failed", "overrun"} = {}

\* A call that looks through the buffer gives the next line of the input, or its beginning.
LEMMA TakingLines ==
    ASSUME NEW n, NEW u \in Seq(STRING), Looking(n, u), NEW copy \in Nat, out \in Outs,
           Taking(n, copy), NEW in \in Seq(STRING),
           AtLine(in, Framed(n), n.bufsize, out, Left(n) \o u)
    PROVE  AtLine(in, Framed(n), n.bufsize, out', Left(l') \o u)
<1>1. LineOK(n) /\ n.bufsize \in Nat
  BY LineFields DEF Looking
<1>2. CASE TakeAgain(n, copy)
  BY <1>2 DEF TakeAgain, Compacted
<1>3. CASE TakeBad(n)
  BY <1>3 DEF TakeBad, Looking
<1>4. CASE TakeLine(n, copy)
  <2>1. PICK e, q : /\ EndsAt(n, e) /\ Taken(n, q, e)
                    /\ LineTo(n, e).status = "NORMAL"
                    /\ Answer(LineTo(n, e).data, q, copy)
    BY <1>4 DEF TakeLine
  <2>2. PICK d : d = LineTo(n, e).data
    OBVIOUS
  <2>3. Answers(d, q, copy)
    BY <1>1, <2>1, <2>2, LineAnswered
  <2>4. q.flags = n.flags
    BY <2>1 DEF Taken, Alike
  <2>5. Given(d) /\ l' = q
    BY <2>3, <2>4 DEF Answers, Looking
  <2>6. PICK raw : raw = Raw(n, e)
    OBVIOUS
  <2>7. d = Trimmed(raw, Framed(n))
    <3>1. EolByte = EolOf(Framed(n)) /\ LastBytes(n, u)
      BY DEF Looking
    <3> QED
      <4>1. LineOK(n) /\ EndsAt(n, e) /\ Taken(n, q, e) /\ LineTo(n, e).status = "NORMAL"
        BY <1>1, <2>1
      <4>2. LineTo(n, e).data = Trimmed(Raw(n, e), Framed(n))
        BY <3>1, <4>1, RawTrimmed
      <4> QED
        BY <2>2, <2>6, <4>2
  <2>8. raw \in Seq(STRING) /\ Len(raw) <= n.bufsize /\ Left(n) = raw \o Left(q)
    <3>1. LineOK(n) /\ EndsAt(n, e) /\ Taken(n, q, e)
      BY <1>1, <2>1
    <3>2. /\ Raw(n, e) \in Seq(STRING) /\ Len(Raw(n, e)) <= n.bufsize
          /\ Left(n) = Raw(n, e) \o Left(q)
      BY <3>1, RawIs
    <3> QED
      BY <2>6, <3>2
  <2>9. WholeLine(raw, Left(q) \o u, Framed(n))
    BY <1>1, <2>1, <2>6, RawWhole DEF Looking
  <2>10. PICK v \in Seq(STRING) : v = Left(q)
    BY <2>1, LineFields DEF Taken, Alike
  <2>11. PICK y \in Seq(STRING) : y = v \o u
    BY BytesJoined
  <2>12. Left(n) \o u = raw \o y
    <3>1. (raw \o v) \o u = raw \o (v \o u)
      BY <2>8, BytesAssociative
    <3> QED
      BY <2>8, <2>10, <2>11, <3>1
  <2>13. NextGiven(out, out', Trimmed(raw, Framed(n)))
    BY <2>5, <2>7 DEF Given, NextGiven
  <2>14. AtLine(in, Framed(n), n.bufsize, out, raw \o y)
    BY <2>12
  <2>15. WholeLine(raw, y, Framed(n))
    BY <2>9, <2>10, <2>11
  <2>16. AtLine(in, Framed(n), n.bufsize, out', y)
    BY <1>1, <2>8, <2>13, <2>14, <2>15, LineGoesOut
  <2> QED
    BY <2>5, <2>10, <2>11, <2>16
<1> QED
  BY <1>2, <1>3, <1>4 DEF Taking

-----------------------------------------------------------------------------
(* Where the next line is. *)

\* The application only asks for lines, and a truncated line has its end.
Asked ==
    /\ history \cap {"raw", "ungot", "failed", "overrun"} = {}
    /\ "SPLIT" \notin l.flags
    /\ "TRUNCATE" \in l.flags => (input = <<>> \/ Last(input) = EolByte)

\* x is to come behind what o says was given.
Placed(in, f, size, o, x, m) ==
    IF "IGNORE" \in m.flags
    THEN InLine(in, f, size, o, x) /\ m.pos = 0 /\ NoEol(m.buf, f)
    ELSE AtLine(in, f, size, o, x)

LineInv ==
    /\ l.bufsize # 0
    /\ Asked => Placed(input, Framed(l), l.bufsize, out, ToCome, l)

\* A step that asks for nothing but lines follows steps that did.
Continues ==
    /\ input' = input /\ history \subseteq history'
    /\ Framed(l') = Framed(l) /\ l'.bufsize = l.bufsize

\* Asking for lines only now means it was so before.
LEMMA AskedBefore ==
    ASSUME Asked', Continues
    PROVE  /\ Asked
           /\ history' \cap {"raw", "ungot", "failed", "overrun"} = {}
           /\ "SPLIT" \notin l'.flags
<1>1. history' \cap {"raw", "ungot", "failed", "overrun"} = {} /\ "SPLIT" \notin l'.flags
  BY DEF Asked
<1>2. /\ "SPLIT" \in l'.flags <=> "SPLIT" \in l.flags
      /\ "TRUNCATE" \in l'.flags <=> "TRUNCATE" \in l.flags
      /\ "EOL_NUL" \in l'.flags <=> "EOL_NUL" \in l.flags
  BY FramedIs DEF Continues
<1>3. EolByte' = EolByte
  BY <1>2, EolByteNext
<1> QED
  BY <1>1, <1>2, <1>3 DEF Asked, Continues

\* What is left to show for a step.
LEMMA LineInvNext ==
    ASSUME LineInv, Continues,
           Asked /\ Asked' => Placed(input, Framed(l), l.bufsize, out', ToCome', l')
    PROVE  LineInv'
<1>1. Asked' => Asked
  BY AskedBefore
<1>2. /\ Framed(l)' = Framed(l) /\ l'.bufsize = l.bufsize /\ input' = input
  <2>1. Framed(l)' = Framed(l')
    BY DEF Framed
  <2> QED
    BY <2>1 DEF Continues
<1>3. Asked' => Placed(input, Framed(l), l.bufsize, out, ToCome, l)'
  <2>1. Placed(input, Framed(l), l.bufsize, out, ToCome, l)'
        <=> Placed(input', Framed(l)', l'.bufsize, out', ToCome', l')
    BY DEF Placed, InLine, AtLine, LastIsLine
  <2> QED
    BY <1>1, <1>2, <2>1
<1> QED
  BY <1>2, <1>3 DEF LineInv

\* Among no bytes there is no end-of-line.
LEMMA NoBytes ==
    ASSUME NEW f
    PROVE  NoEol(<<>>, f)
<1>1. <<>> \in Seq(STRING) /\ Len(<<>>) = 0
  OBVIOUS
<1> QED
  BY <1>1 DEF NoEol

\* A step that gives nothing and takes nothing.
LEMMA QuietLines ==
    ASSUME LineInv, Continues, out' = out, ToCome' = ToCome,
           "IGNORE" \in l'.flags <=> "IGNORE" \in l.flags,
           "IGNORE" \in l.flags => \/ l'.pos = l.pos /\ l'.buf = l.buf
                                   \/ l'.pos = 0 /\ l'.buf = <<>>
    PROVE  LineInv'
<1>1. ASSUME Asked PROVE Placed(input, Framed(l), l.bufsize, out', ToCome', l')
  <2>1. Placed(input, Framed(l), l.bufsize, out, ToCome, l)
    BY <1>1 DEF LineInv
  <2>2. CASE "IGNORE" \in l.flags
    BY <2>1, <2>2, NoBytes DEF Placed
  <2>3. CASE "IGNORE" \notin l.flags
    BY <2>1, <2>3 DEF Placed
  <2> QED
    BY <2>2, <2>3
<1> QED
  BY <1>1, LineInvNext

\* Where the bytes stay the line does too.
LEMMA StillLines ==
    ASSUME LineTypeOK, LineTypeOK', LineInv, StillBytes
    PROVE  LineInv'
<1>1. Unread' = Unread /\ Left(l') = Left(l)
  BY SameUnread DEF StillBytes, Left
<1>2. ToCome' = ToCome
  BY <1>1, ToComeParts
<1>3. Continues
  BY DEF StillBytes, Continues, Framed
<1> QED
  BY <1>2, <1>3, QuietLines DEF StillBytes

\* What puts a line stream out of the question.
LEMMA NotAsked ==
    ASSUME LineInv, l'.bufsize = l.bufsize, history' \cap {"raw", "ungot"} # {}
    PROVE  LineInv'
  BY DEF LineInv, Asked

-----------------------------------------------------------------------------
(* A call for a line. *)

\* The stream n is looked through for the call.
Through(n) ==
    /\ LineOK(n) /\ Framed(n) = Framed(l) /\ n.bufsize = l.bufsize

\* A call that does not fail asks for nothing but a line.
LEMMA TakingContinues ==
    ASSUME NEW n, Through(n), NEW copy \in Nat, out \in Outs, Taking(n, copy),
           history' \cap {"failed", "overrun"} = {}, UNCHANGED input
    PROVE  /\ Continues /\ l'.flags = n.flags
           /\ "IGNORE" \in n.flags /\ "EOF" \notin n.flags /\ Eols(n) = {}
                => out' = out /\ Left(l') = Left(n) /\ l'.pos = 0 /\ l'.buf = Left(n)
<1>1. l'.bufsize = n.bufsize /\ history \subseteq history' /\ l'.flags = n.flags
  BY TakingKeeps DEF Through
<1>2. Continues
  BY <1>1 DEF Continues, Through, Framed
<1>3. ASSUME "EOF" \notin n.flags, Eols(n) = {}
      PROVE  out' = out /\ Left(l') = Left(n) /\ l'.pos = 0 /\ l'.buf = Left(n)
  <2>1. ~TakeBad(n)
    BY DEF TakeBad
  <2>2. ~TakeLine(n, copy)
    BY <1>3 DEF TakeLine, EndsAt
  <2>3. TakeAgain(n, copy)
    BY <2>1, <2>2 DEF Taking
  <2> QED
    BY <2>3 DEF TakeAgain, Compacted
<1> QED
  BY <1>1, <1>2, <1>3

\* A stream without an end-of-line has none among its bytes.
LEMMA NoEolLeft ==
    ASSUME NEW n, LineOK(n), Eols(n) = {}, EolByte = EolOf(Framed(n))
    PROVE  NoEol(Left(n), Framed(n))
<1>1. /\ Left(n) \in Seq(STRING) /\ Len(Left(n)) = Len(n.buf) - n.pos
      /\ \A k \in 1 .. Len(n.buf) - n.pos : Left(n)[k] = n.buf[n.pos + k]
      /\ n.pos \in Nat /\ Len(n.buf) \in Nat
  BY LineFields
<1>2. ASSUME NEW k \in 1 .. Len(Left(n)) PROVE Left(n)[k] # EolByte
  <2>1. k \in 1 .. Len(n.buf) - n.pos /\ n.pos + k \in n.pos + 1 .. Len(n.buf)
    BY <1>1
  <2> QED
    BY <1>1, <2>1 DEF Eols
<1> QED
  BY <1>1, <1>2 DEF NoEol

\* Before anything is taken all of the buffer is left.
LEMMA LeftOfStart ==
    ASSUME NEW n, LineOK(n), n.pos = 0
    PROVE  Left(n) = n.buf
<1>1. n.buf \in Seq(STRING)
  BY LineFields
<1>2. SubSeq(n.buf, 0 + 1, Len(n.buf)) = n.buf
  BY <1>1
<1> QED
  BY <1>2 DEF Left

\* No end-of-line among the bytes, none in the buffer.
LEMMA NoEolIs ==
    ASSUME NEW n, LineOK(n), n.pos = 0, NoEol(n.buf, Framed(n)), EolByte = EolOf(Framed(n))
    PROVE  Eols(n) = {}
<1>1. n.buf \in Seq(STRING) /\ Len(n.buf) \in Nat
  BY LineFields
<1>2. ASSUME NEW i \in 1 .. Len(n.buf) PROVE n.buf[i] # EolByte
  BY <1>2 DEF NoEol
<1>3. n.pos + 1 = 1
  OBVIOUS
<1> QED
  BY <1>2, <1>3 DEF Eols

\* A call that looks through n, which holds what is to come.
LEMMA ThroughLines ==
    ASSUME LineTypeOK, LineTypeOK', LineInv, UNCHANGED input, NEW n, Through(n),
           NEW copy \in Nat, Taking(n, copy),
           "IGNORE" \notin n.flags, LastBytes(n, Unread'),
           Asked => AtLine(input, Framed(l), l.bufsize, out, Left(n) \o Unread')
    PROVE  history' \cap {"failed", "overrun"} = {} => LineInv'
<1> SUFFICES ASSUME history' \cap {"failed", "overrun"} = {} PROVE LineInv'
  OBVIOUS
<1>1. out \in Outs /\ Unread' \in Seq(STRING) /\ ToCome' = Left(l') \o Unread'
  BY ToComeParts
<1>2. Continues /\ l'.flags = n.flags
  BY <1>1, TakingContinues
<1>3. ASSUME Asked, Asked' PROVE AtLine(input, Framed(l), l.bufsize, out', ToCome')
  <2>1. "SPLIT" \notin n.flags
    BY <1>2, <1>3, AskedBefore
  <2>2. EolByte = EolOf(Framed(n))
    BY EolByteIs DEF Through
  <2>3. Looking(n, Unread')
    BY <2>1, <2>2 DEF Looking, Through
  <2>4. input \in Seq(STRING)
    BY DEF LineTypeOK
  <2>5. AtLine(input, Framed(n), n.bufsize, out, Left(n) \o Unread')
    BY <1>3 DEF Through
  <2>6. AtLine(input, Framed(n), n.bufsize, out', Left(l') \o Unread')
    BY <1>1, <2>3, <2>4, <2>5, TakingLines
  <2> QED
    BY <1>1, <2>6 DEF Through
<1> QED
  BY <1>2, <1>3, LineInvNext DEF Placed

\* After a failure nothing is claimed.
LEMMA FailedLines ==
    ASSUME LineInv, l'.bufsize = l.bufsize, history' \cap {"failed", "overrun"} # {}
    PROVE  LineInv'
  BY DEF LineInv, Asked

\* z_stream_line_get.
LEMMA GetLines ==
    ASSUME LineTypeOK, LineTypeOK', LineInv, NEW copy \in {0} \cup CopySizes,
           z_stream_line_get(copy)
    PROVE  LineInv'
<1>1. /\ copy \in Nat /\ UNCHANGED <<sock, fd, input>>
      /\ \/ l' = l /\ out' = out /\ history \subseteq history'
         \/ "EOF" \notin l.flags /\ Taking(Polled(l), copy)
         \/ Len(l.buf) = l.pos /\ l' = Emptied(Polled(l)) /\ UNCHANGED <<out, history>>
  BY GetIs
<1>2. PICK n : n = Polled(l)
  OBVIOUS
<1>3. /\ LineOK(l) /\ LineOK(n) /\ n.flags = l.flags /\ n.buf = l.buf /\ n.pos = l.pos
      /\ n.bufsize = l.bufsize /\ Left(n) = Left(l) /\ out \in Outs
  BY <1>2, PolledLine DEF LineTypeOK, Outs
<1>4. /\ Unread' = Unread /\ ToCome = Left(l) \o Unread /\ ToCome' = Left(l') \o Unread'
  BY <1>1, SameUnread, ToComeParts
<1>5. CASE l' = l /\ out' = out /\ history \subseteq history'
  <2>1. Continues
    BY <1>1, <1>5 DEF Continues
  <2> QED
    BY <1>4, <1>5, <2>1, QuietLines
<1>6. CASE "EOF" \notin l.flags /\ Taking(n, copy)
  <2>1. Through(n)
    BY <1>3 DEF Through, Framed
  <2>2. CASE history' \cap {"failed", "overrun"} # {}
    BY <1>1, <1>3, <1>6, <2>2, TakingKeeps, FailedLines
  <2>3. CASE history' \cap {"failed", "overrun"} = {} /\ "IGNORE" \notin l.flags
    <3>1. Asked => AtLine(input, Framed(l), l.bufsize, out, Left(n) \o Unread')
      BY <1>3, <1>4, <2>3 DEF LineInv, Placed
    <3>2. LastBytes(n, Unread')
      BY <1>3, <1>6 DEF LastBytes
    <3> QED
      BY <1>1, <1>3, <1>6, <2>1, <2>3, <3>1, <3>2, ThroughLines
  <2>4. CASE history' \cap {"failed", "overrun"} = {} /\ "IGNORE" \in l.flags
    <3>1. /\ Continues /\ l'.flags = n.flags
          /\ Eols(n) = {} => out' = out /\ Left(l') = Left(n) /\ l'.pos = 0 /\ l'.buf = Left(n)
      BY <1>1, <1>3, <1>6, <2>1, <2>4, TakingContinues
    <3>2. ASSUME Asked PROVE Placed(input, Framed(l), l.bufsize, out', ToCome', l')
      <4>1. InLine(input, Framed(l), l.bufsize, out, ToCome) /\ l.pos = 0 /\ NoEol(l.buf, Framed(l))
        BY <2>4, <3>2 DEF LineInv, Placed
      <4>2. Eols(n) = {} /\ Left(n) = n.buf
        BY <1>3, <2>1, <4>1, EolByteIs, NoEolIs, LeftOfStart DEF Through
      <4>3. out' = out /\ Left(l') = Left(l) /\ l'.pos = 0 /\ l'.buf = l.buf
        BY <1>3, <3>1, <4>2
      <4>4. ToCome' = ToCome
        BY <1>4, <4>3
      <4>5. "IGNORE" \in l'.flags
        BY <1>3, <2>4, <3>1
      <4> QED
        BY <4>1, <4>3, <4>4, <4>5 DEF Placed
    <3> QED
      BY <3>1, <3>2, LineInvNext
  <2> QED
    BY <2>2, <2>3, <2>4
<1>7. CASE Len(l.buf) = l.pos /\ l' = Emptied(n) /\ UNCHANGED <<out, history>>
  <2>1. /\ Left(l') = <<>> /\ l'.flags = l.flags /\ l'.bufsize = l.bufsize
        /\ l'.buf = <<>> /\ l'.pos = 0
    BY <1>3, <1>7, EmptiedLine DEF Alike
  <2>2. Left(l) = <<>>
    <3>1. Len(Left(l)) = 0 /\ Left(l) \in Seq(STRING)
      BY <1>3, <1>7, LineFields
    <3> QED
      BY <3>1
  <2>3. Continues
    BY <1>1, <1>7, <2>1 DEF Continues, Framed
  <2>4. ToCome' = ToCome
    BY <1>4, <2>1, <2>2
  <2> QED
    BY <1>7, <2>1, <2>3, <2>4, QuietLines
<1> QED
  BY <1>1, <1>2, <1>5, <1>6, <1>7

\* An answer without room in the buffer.
LEMMA FullLines ==
    ASSUME LineTypeOK, LineTypeOK', LineInv, BufferFull
    PROVE  LineInv'
<1>1. Getting /\ UNCHANGED <<sock, fd, input>> /\ "IGNORE" \notin l.flags /\ Len(l.buf) = l.bufsize
  BY FullIs
<1>2. /\ LineOK(l) /\ l.buf \in Seq(STRING) /\ Len(l.buf) \in Nat /\ l.pos = 0 /\ out \in Outs
      /\ Left(l) = l.buf /\ Eols(l) = {} /\ l.bufsize \in Nat
  BY <1>1, ToComeParts, LineFields, LeftOfStart DEF Getting
<1>3. /\ Unread' = Unread /\ Unread \in Seq(STRING)
      /\ ToCome = Left(l) \o Unread /\ ToCome' = Left(l') \o Unread'
  BY <1>1, SameUnread, ToComeParts
<1>4. CASE TakeBad(l)
  BY <1>4, FailedLines DEF TakeBad
<1>5. ASSUME NEW m,
             LineOK(m), m.buf = <<>>, m.pos = 0, m.bufsize = l.bufsize,
             \/ "TRUNCATE" \in l.flags /\ m.flags = l.flags \cup {"IGNORE"}
             \/ "TRUNCATE" \notin l.flags /\ "SPLIT" \in l.flags /\ m.flags = l.flags,
             Answers(l.buf, m, call.size)
      PROVE  LineInv'
  <2>1. /\ l'.flags = m.flags /\ l'.bufsize = m.bufsize /\ history \subseteq history'
    BY <1>5 DEF Answers, Alike
  <2>2. Continues
    BY <1>1, <1>5, <2>1 DEF Continues, Framed, NewFlags
  <2>3. CASE history' \cap {"failed", "overrun"} # {}
    BY <1>5, <2>1, <2>3, FailedLines
  <2>4. ASSUME history' \cap {"failed", "overrun"} = {}, Asked
        PROVE  Placed(input, Framed(l), l.bufsize, out', ToCome', l')
    <3>1. "SPLIT" \notin l.flags /\ "TRUNCATE" \in l.flags /\ m.flags = l.flags \cup {"IGNORE"}
      BY <1>5, <2>4 DEF Asked
    <3>2. Given(l.buf) /\ l' = m
      BY <1>5, <2>4, <3>1 DEF Answers
    <3>3. AtLine(input, Framed(l), l.bufsize, out, l.buf \o Unread)
      BY <1>1, <1>2, <1>3, <2>4 DEF LineInv, Placed
    <3>4. NoEol(l.buf, Framed(l))
      BY <1>2, EolByteIs, NoEolLeft
    <3>5. l.buf # <<>>
      <4>1. Len(l.buf) # 0
        BY <1>1 DEF LineInv
      <4> QED
        BY <4>1
    <3>6. input # <<>> => input[Len(input)] = EolOf(Framed(l))
      BY <2>4, <3>1, EolByteIs DEF Asked, Last
    <3>7. NextGiven(out, out', l.buf)
      BY <3>2 DEF Given, NextGiven
    <3>8. input \in Seq(STRING)
      BY DEF LineTypeOK
    <3>9. PICK b \in Seq(STRING) : b = l.buf
      BY <1>2
    <3>10. PICK u \in Seq(STRING) : u = Unread
      BY <1>3
    <3>11. InLine(input, Framed(l), l.bufsize, out', u)
      BY <1>1, <1>2, <3>3, <3>4, <3>5, <3>6, <3>7, <3>8, <3>9, <3>10, LineCutOff
    <3>12. ToCome' = u
      <4>1. Left(l') = <<>>
        BY <1>5, <3>2 DEF Left
      <4>2. <<>> \o u = u
        OBVIOUS
      <4> QED
        BY <1>3, <3>10, <4>1, <4>2
    <3>13. "IGNORE" \in l'.flags /\ l'.pos = 0 /\ NoEol(l'.buf, Framed(l))
      BY <1>5, <3>1, <3>2, NoBytes
    <3> QED
      BY <3>11, <3>12, <3>13 DEF Placed
  <2> QED
    BY <2>2, <2>3, <2>4, LineInvNext
<1> QED
  BY <1>4, <1>5, FullIs

-----------------------------------------------------------------------------
(* A read of the child. *)

\* The buffer that a read is made for holds what is to come before it.
LEMMA RoomyLines ==
    ASSUME LineTypeOK, LineTypeOK', LineInv, Asked, call.op = "get", Getting,
           Full(l) => "IGNORE" \in l.flags
    PROVE  /\ Placed(input, Framed(l), l.bufsize, out, Left(Roomy) \o Unread, Roomy)
           /\ LineOK(Roomy) /\ Roomy.flags = l.flags /\ Left(Roomy) = Roomy.buf
           /\ "IGNORE" \in l.flags /\ Roomy.buf # <<>> => Roomy = l
<1>1. /\ Alike(l, Roomy) /\ Roomy.pos = 0 /\ Eols(Roomy) = {} /\ LineOK(Roomy)
      /\ \/ ~Full(l) /\ Roomy = l
         \/ Full(l) /\ Roomy.buf = <<>> /\ Left(Roomy) = <<>>
  BY RoomyLine DEF Alike
<1>2. /\ Roomy.flags = l.flags /\ Left(Roomy) = Roomy.buf
  BY <1>1, LeftOfStart DEF Alike
<1>3. Placed(input, Framed(l), l.bufsize, out, ToCome, l) /\ ToCome = Left(l) \o Unread
      /\ LineOK(l) /\ Unread \in Seq(STRING) /\ Left(l) \in Seq(STRING)
  BY ToComeParts DEF LineInv
<1>4. CASE Roomy = l
  BY <1>1, <1>2, <1>3, <1>4
<1>5. CASE Full(l) /\ Roomy.buf = <<>> /\ Left(Roomy) = <<>>
  <2>1. /\ "IGNORE" \in l.flags
        /\ InLine(input, Framed(l), l.bufsize, out, Left(l) \o Unread)
    BY <1>3, <1>5 DEF Placed
  <2>2. NoEol(Left(l), Framed(l))
    BY <1>3, EolByteIs, NoEolLeft DEF Getting
  <2>3. PICK u \in Seq(STRING) : u = Unread
    BY <1>3
  <2>4. PICK d \in Seq(STRING) : d = Left(l)
    BY <1>3
  <2>5. input \in Seq(STRING) /\ l.bufsize \in Nat
    BY <1>3, LineFields DEF LineTypeOK
  <2>6. InLine(input, Framed(l), l.bufsize, out, u)
    BY <2>1, <2>2, <2>3, <2>4, <2>5, RestPassed
  <2>7. <<>> \o u = u
    OBVIOUS
  <2>8. InLine(input, Framed(l), l.bufsize, out, Left(Roomy) \o Unread)
    BY <1>5, <2>3, <2>6, <2>7
  <2>9. "IGNORE" \in Roomy.flags /\ NoEol(Roomy.buf, Framed(l))
    BY <1>2, <1>5, <2>1, NoBytes
  <2> QED
    BY <1>1, <1>2, <1>5, <2>8, <2>9 DEF Placed
<1> QED
  BY <1>1, <1>4, <1>5

\* The call looks through n, which holds what is to come, after a read.
Looks(n) ==
    Asked => IF "IGNORE" \in n.flags
             THEN /\ InLine(input, Framed(l), l.bufsize, out, Left(n) \o Unread')
                  /\ "EOF" \notin n.flags
             ELSE /\ AtLine(input, Framed(l), l.bufsize, out, Left(n) \o Unread')
                  /\ LastBytes(n, Unread')

\* The buffer keeps its size.
LEMMA TakingSame ==
    ASSUME NEW n, Through(n), NEW copy \in Nat, out \in Outs, Taking(n, copy)
    PROVE  l'.bufsize = l.bufsize
  BY TakingKeeps DEF Through

\* A call that looks through what was read.
LEMMA TookLines ==
    ASSUME LineTypeOK, LineTypeOK', LineInv, UNCHANGED input, NEW n, Through(n),
           NEW copy \in Nat, Took(n, copy), Looks(n)
    PROVE  LineInv'
<1>1. /\ out \in Outs /\ Unread' \in Seq(STRING) /\ ToCome' = Left(l') \o Unread'
      /\ LineOK(n) /\ EolByte = EolOf(Framed(n)) /\ input \in Seq(STRING) /\ l.bufsize \in Nat
  BY ToComeParts, EolByteIs, LineFields DEF Through, LineTypeOK
<1>2. CASE Taking(n, copy) /\ "IGNORE" \notin n.flags
  <2>1. l'.bufsize = l.bufsize
    BY <1>1, <1>2, TakingSame
  <2>2. CASE history' \cap {"failed", "overrun"} # {}
    BY <2>1, <2>2, FailedLines
  <2>3. CASE ~Asked /\ history' \cap {"failed", "overrun"} = {}
    <3>1. Continues
      BY <1>1, <1>2, <2>3, TakingContinues
    <3> QED
      BY <2>3, <3>1, LineInvNext
  <2>4. CASE Asked /\ history' \cap {"failed", "overrun"} = {}
    BY <1>2, <2>4, ThroughLines DEF Looks
  <2> QED
    BY <2>2, <2>3, <2>4
<1>3. CASE "IGNORE" \in n.flags /\ Taking(n, copy) /\ (TakeAgain(n, copy) \/ TakeBad(n))
  <2>1. CASE TakeBad(n)
    BY <2>1, FailedLines DEF TakeBad, Through
  <2>2. CASE TakeAgain(n, copy)
    <3>1. /\ out' = out /\ l'.flags = n.flags /\ l'.bufsize = n.bufsize /\ history' = history
          /\ l'.pos = 0 /\ l'.buf = Left(n) /\ Left(l') = Left(n) /\ Eols(n) = {}
      BY <2>2 DEF TakeAgain, Compacted, Alike
    <3>2. Continues
      BY <3>1 DEF Continues, Through, Framed
    <3>3. NoEol(Left(n), Framed(l))
      BY <1>1, <3>1, NoEolLeft DEF Through
    <3>4. ASSUME Asked PROVE Placed(input, Framed(l), l.bufsize, out', ToCome', l')
      <4>1. InLine(input, Framed(l), l.bufsize, out, Left(n) \o Unread')
        BY <1>3, <3>4 DEF Looks
      <4>2. InLine(input, Framed(l), l.bufsize, out', ToCome')
        BY <1>1, <3>1, <4>1
      <4> QED
        BY <1>3, <3>1, <3>3, <4>2 DEF Placed
    <3> QED
      BY <3>2, <3>4, LineInvNext
  <2> QED
    BY <1>3, <2>1, <2>2
<1>4. ASSUME NEW q, NEW e, SkipsTo(n, q, e), Taking(q, copy)
      PROVE  LineInv'
  <2>1. /\ "IGNORE" \in n.flags /\ EndsAt(n, e) /\ LineOK(q) /\ q.buf = n.buf /\ q.pos = e
        /\ q.bufsize = n.bufsize /\ q.flags = n.flags \ {"IGNORE"}
    BY <1>4 DEF SkipsTo
  <2>2. Through(q)
    BY <2>1 DEF Through, Framed, NewFlags
  <2>3. l'.bufsize = l.bufsize
    BY <1>1, <1>4, <2>2, TakingSame
  <2>4. CASE history' \cap {"failed", "overrun"} # {}
    BY <2>3, <2>4, FailedLines
  <2>5. CASE ~Asked /\ history' \cap {"failed", "overrun"} = {}
    <3>1. Continues
      BY <1>1, <1>4, <2>2, <2>5, TakingContinues
    <3> QED
      BY <2>5, <3>1, LineInvNext
  <2>6. CASE Asked /\ history' \cap {"failed", "overrun"} = {}
    <3>1. /\ InLine(input, Framed(l), l.bufsize, out, Left(n) \o Unread')
          /\ "EOF" \notin n.flags
      BY <2>1, <2>6 DEF Looks
    <3>2. PICK t : Taken(n, t, e)
      <4>1. e \in n.pos .. Len(n.buf)
        BY <2>1 DEF EndsAt
      <4> QED
        BY <1>1, <4>1, TakesPart
    <3>3. Left(t) = Left(q)
      BY <2>1, <3>2 DEF Taken, Left
    <3>4. PICK raw : raw = Raw(n, e)
      OBVIOUS
    <3>5. raw \in Seq(STRING) /\ Left(n) = raw \o Left(q)
      <4>1. Raw(n, e) \in Seq(STRING) /\ Left(n) = Raw(n, e) \o Left(t)
        BY <1>1, <2>1, <3>2, RawIs
      <4> QED
        BY <3>3, <3>4, <4>1
    <3>6. LastBytes(n, Unread')
      BY <3>1 DEF LastBytes
    <3>7. WholeLine(raw, Left(q) \o Unread', Framed(l))
      <4>1. WholeLine(Raw(n, e), Left(t) \o Unread', Framed(n))
        BY <1>1, <2>1, <3>2, <3>6, RawWhole
      <4> QED
        BY <3>3, <3>4, <4>1 DEF Through
    <3>8. PICK v \in Seq(STRING) : v = Left(q)
      BY <2>1, LineFields
    <3>9. PICK u \in Seq(STRING) : u = Unread'
      BY <1>1
    <3>10. PICK y \in Seq(STRING) : y = v \o u
      BY BytesJoined
    <3>11. (raw \o v) \o u = raw \o (v \o u)
      BY <3>5, BytesAssociative
    <3>12. InLine(input, Framed(l), l.bufsize, out, raw \o y)
      BY <3>1, <3>5, <3>8, <3>9, <3>10, <3>11
    <3>13. WholeLine(raw, y, Framed(l))
      BY <3>7, <3>8, <3>9, <3>10
    <3>14. AtLine(input, Framed(l), l.bufsize, out, y)
      BY <1>1, <3>5, <3>12, <3>13, EndPassed
    <3>15. Asked => AtLine(input, Framed(l), l.bufsize, out, Left(q) \o Unread')
      BY <3>8, <3>9, <3>10, <3>14
    <3>16. "IGNORE" \notin q.flags /\ LastBytes(q, Unread')
      BY <2>1, <3>1 DEF LastBytes
    <3> QED
      BY <1>4, <2>2, <2>6, <3>15, <3>16, ThroughLines
  <2> QED
    BY <2>4, <2>5, <2>6
<1> QED
  BY <1>2, <1>3, <1>4 DEF Took

\* The last byte of the input is not among bytes without an end-of-line.
LEMMA EndNotPassed ==
    ASSUME NEW in \in Seq(STRING), NEW f, NEW size, NEW o, NEW d, d # <<>>, NoEol(d, f)
    PROVE  ~InLine(in, f, size, o, d \o <<>>)
<1> SUFFICES ASSUME InLine(in, f, size, o, d \o <<>>) PROVE FALSE
  OBVIOUS
<1>1. d \in Seq(STRING)
  BY DEF NoEol
<1>2. PICK k \in Nat : k = Len(d) /\ k \in 1 .. Len(d)
  BY <1>1, SomeBytes
<1>3. PICK p : SuffixAt(in, p, d \o <<>>)
  BY DEF InLine
<1>4. <<>> \in Seq(STRING)
  OBVIOUS
<1>5. PICK y \in Seq(STRING) : y = <<>>
  BY <1>4
<1>6. SuffixAt(in, p, d \o y)
  BY <1>3, <1>5
<1>7. /\ p \in Nat /\ p + Len(d) = Len(in)
      /\ \A i \in 1 .. Len(d) : in[p + i] = d[i]
  <2>1. p \in Nat /\ Part(in, p, d)
    BY <1>1, <1>6, PartTaken
  <2>2. y = <<>> => p + Len(d) = Len(in)
    BY <1>1, <1>6, SuffixTaken
  <2> QED
    BY <1>5, <2>1, <2>2 DEF Part
<1>8. in[Len(in)] = d[k]
  BY <1>2, <1>7
<1>9. in # <<>>
  <2>1. Len(in) # 0
    BY <1>2, <1>7
  <2> QED
    BY <2>1
<1>10. in[Len(in)] = EolOf(f)
  BY <1>9 DEF InLine
<1>11. d[k] # EolOf(f)
  BY <1>2 DEF NoEol
<1> QED
  BY <1>8, <1>10, <1>11

\* ReadMore.
LEMMA ReadLines ==
    ASSUME LineTypeOK, LineTypeOK', LineInv, ReadMore
    PROVE  LineInv'
<1>1. /\ call.op = "get" /\ Getting /\ UNCHANGED input
      /\ call.size \in Nat /\ (Full(l) => "IGNORE" \in l.flags) /\ "EOF" \notin l.flags
  BY ReadIs DEF Getting
<1>2. PICK o : /\ Moved(o, Roomy.bufsize - Len(Roomy.buf))
               /\ \/ o.data = <<>> /\ TakeBad(Roomy)
                  \/ /\ o.data = <<>> /\ l' = Roomy /\ out' = out /\ call' = NoCall
                     /\ history \subseteq history'
                  \/ \E n : Filled(n, o.data) /\ Took(n, call.size)
                  \/ /\ o.data = <<>> /\ Unread = <<>> /\ Unread' = <<>>
                     /\ \E n : Ended(n) /\ Took(n, call.size)
  BY ReadIs
<1>3. /\ o.data \in Seq(STRING) /\ Unread = o.data \o Unread'
      /\ Unread \in Seq(STRING) /\ Unread' \in Seq(STRING)
      /\ ToCome' = Left(l') \o Unread'
  BY <1>2, ToComeParts DEF Moved
<1>4. /\ Roomy.flags = l.flags /\ Roomy.bufsize = l.bufsize /\ LineOK(Roomy)
      /\ Roomy.buf \in Seq(STRING) /\ Roomy.pos = 0 /\ Eols(Roomy) = {}
      /\ Framed(Roomy) = Framed(l)
  BY <1>1, RoomyLine DEF Alike, Framed
<1>5. ASSUME Asked
      PROVE  /\ Placed(input, Framed(l), l.bufsize, out, Left(Roomy) \o Unread, Roomy)
             /\ Left(Roomy) = Roomy.buf
  BY <1>1, <1>5, RoomyLines
<1>6. CASE TakeBad(Roomy)
  BY <1>4, <1>6, FailedLines DEF TakeBad
<1>7. CASE o.data = <<>> /\ l' = Roomy /\ out' = out /\ history \subseteq history'
  <2>1. Unread' = Unread
    BY <1>3, <1>7
  <2>2. Continues
    BY <1>1, <1>4, <1>7 DEF Continues
  <2>3. Asked => Placed(input, Framed(l), l.bufsize, out', ToCome', l')
    BY <1>3, <1>5, <1>7, <2>1
  <2> QED
    BY <2>2, <2>3, LineInvNext
<1>8. ASSUME NEW n, Filled(n, o.data), Took(n, call.size) PROVE LineInv'
  <2>1. /\ LineOK(n) /\ n.flags = l.flags /\ n.pos = 0 /\ n.buf = Roomy.buf \o o.data
        /\ n.bufsize = l.bufsize
    BY <1>8 DEF Filled
  <2>2. Through(n)
    BY <2>1 DEF Through, Framed
  <2>3. ASSUME Asked PROVE Left(n) \o Unread' = Left(Roomy) \o Unread
    <3>1. PICK y \in Seq(STRING) : y = Roomy.buf
      BY <1>4
    <3>2. PICK d \in Seq(STRING) : d = o.data
      BY <1>3
    <3>3. PICK u \in Seq(STRING) : u = Unread'
      BY <1>3
    <3>4. (y \o d) \o u = y \o (d \o u)
      BY BytesAssociative
    <3>5. Left(n) = y \o d
      BY <2>1, <3>1, <3>2, LeftOfStart
    <3> QED
      BY <1>3, <1>5, <2>3, <3>1, <3>2, <3>3, <3>4, <3>5
  <2>4. Looks(n)
    BY <1>1, <1>4, <1>5, <2>1, <2>3 DEF Looks, Placed, LastBytes
  <2> QED
    BY <1>1, <1>8, <2>2, <2>4, TookLines
<1>9. ASSUME NEW n, Ended(n), Took(n, call.size), Unread = <<>>, Unread' = <<>>
      PROVE  LineInv'
  <2>1. /\ LineOK(n) /\ n.flags = l.flags \cup {"EOF"} /\ n.pos = 0 /\ n.buf = Roomy.buf
        /\ n.buf # <<>> /\ n.bufsize = l.bufsize
    BY <1>9 DEF Ended
  <2>2. Through(n)
    BY <2>1 DEF Through, Framed, NewFlags
  <2>3. Left(n) = Roomy.buf
    BY <2>1, LeftOfStart
  <2>4. Eols(n) = {}
    BY <1>4, <2>1 DEF Eols
  <2>5. LastBytes(n, Unread')
    BY <1>9, <2>1, <2>3, <2>4 DEF LastBytes
  <2>6. Looks(n)
    <3> SUFFICES ASSUME Asked
                 PROVE  /\ "IGNORE" \notin n.flags
                        /\ AtLine(input, Framed(l), l.bufsize, out, Left(n) \o Unread')
      BY <2>5 DEF Looks
    <3>1. Placed(input, Framed(l), l.bufsize, out, Left(n) \o Unread', Roomy)
      BY <1>5, <1>9, <2>3
    <3>2. "IGNORE" \notin l.flags
      <4> SUFFICES ASSUME "IGNORE" \in l.flags PROVE FALSE
        OBVIOUS
      <4>1. InLine(input, Framed(l), l.bufsize, out, Roomy.buf \o <<>>)
            /\ NoEol(Roomy.buf, Framed(l))
        BY <1>4, <1>9, <2>3, <3>1 DEF Placed
      <4>2. input \in Seq(STRING) /\ Roomy.buf # <<>>
        BY <2>1 DEF LineTypeOK
      <4>3. PICK d : d = Roomy.buf
        OBVIOUS
      <4> QED
        BY <4>1, <4>2, <4>3, EndNotPassed
    <3> QED
      BY <1>4, <2>1, <3>1, <3>2 DEF Placed
  <2> QED
    BY <1>1, <1>9, <2>2, <2>6, TookLines
<1> QED
  BY <1>2, <1>6, <1>7, <1>8, <1>9

\* Raw reads, chunks and putting back.
LEMMA MethodLines ==
    ASSUME LineTypeOK, LineInv, NEW n \in Nat, z_stream_line_read_method(n), "raw" \in history'
    PROVE  LineInv'
<1>1. l'.bufsize = l.bufsize
  BY MethodIs DEF FromBuffer, FromChild
<1> QED
  BY <1>1, NotAsked

\* z_stream_line_unget.
LEMMA UngetLines ==
    ASSUME LineTypeOK, LineInv, z_stream_line_unget
    PROVE  LineInv'
<1>1. /\ l.pos + (l.bufsize - Len(l.buf)) > Len(out.last)
      /\ l' = Unget(out.last) /\ "ungot" \in history'
  BY DEF z_stream_line_unget
<1>2. LineOK(l) /\ out.last \in Seq(STRING)
  BY DEF LineTypeOK
<1>3. l'.bufsize = l.bufsize
  BY <1>1, <1>2, UngetIs DEF PutBack, Alike
<1> QED
  BY <1>1, <1>3, NotAsked

\* Before anything was given the next line is the first.
LEMMA FirstLine ==
    ASSUME NEW in \in Seq(STRING), NEW f, NEW size, NEW o, o.n = 0
    PROVE  AtLine(in, f, size, o, in)
<1>1. EndsOf(in, f) \in SUBSET (1 .. Len(in)) /\ Len(in) \in Nat
  BY EndsBounded
<1>2. EndsBy(EndsOf(in, f), 0) = {}
  <2>1. ASSUME NEW i \in EndsOf(in, f) PROVE ~(i <= 0)
    <3>1. i \in 1 .. Len(in)
      BY <1>1
    <3> QED
      BY <1>1, <3>1
  <2> QED
    BY <2>1 DEF EndsBy
<1>3. o.n = Cardinality(EndsBy(EndsOf(in, f), 0))
  BY <1>2, FS_EmptySet
<1>4. SuffixAt(in, 0, in)
  <2>1. SubSeq(in, 0 + 1, Len(in)) = in
    OBVIOUS
  <2> QED
    BY <1>1, <2>1 DEF SuffixAt
<1>5. LastIsLine(in, f, size, o)
  BY DEF LastIsLine
<1> QED
  BY <1>3, <1>4, <1>5 DEF AtLine

\* A flag can be switched before the first line is given, when the claim is about the new flags.
LEMMA CtrlLines ==
    ASSUME LineTypeOK, LineTypeOK', ByteInv, ByteInv', LineInv,
           NEW f \in Settable, z_stream_line_ctrl(f)
    PROVE  LineInv'
<1>1. /\ out.n = 0 /\ history = {} /\ UNCHANGED <<input, out, history>>
      /\ l' = [l EXCEPT !.flags = IF f \in @ THEN @ \ {f} ELSE @ \cup {f}]
  BY DEF z_stream_line_ctrl
<1>2. l'.bufsize = l.bufsize
  BY <1>1 DEF LineTypeOK, LineOK, Lines
<1>3. ToCome' = input' /\ "IGNORE" \notin l'.flags /\ out'.n = 0
  BY <1>1 DEF ByteInv, NothingYet
<1>4. input' \in Seq(STRING)
  BY DEF LineTypeOK
<1>5. AtLine(input', Framed(l'), l'.bufsize, out', ToCome')
  BY <1>3, <1>4, FirstLine
<1>6. Placed(input, Framed(l), l.bufsize, out, ToCome, l)'
  BY <1>3, <1>5 DEF Placed, AtLine, LastIsLine, Framed
<1> QED
  BY <1>2, <1>6 DEF LineInv

\* Before the first call.
LEMMA LineInvInits ==
    ASSUME LineInit
    PROVE  LineInv
<1>1. PICK c \in Cases, b \in BufSizes : l = NewLine(b, c.flags)
  BY DEF LineInit
<1>2. l.bufsize # 0
  BY <1>1, LineAssumption DEF NewLine
<1>3. "IGNORE" \notin l.flags /\ ToCome = input /\ out.n = 0 /\ input \in Seq(STRING)
  BY AllToCome, LineInits DEF LineTypeOK
<1>4. AtLine(input, Framed(l), l.bufsize, out, ToCome)
  BY <1>3, FirstLine
<1> QED
  BY <1>2, <1>3, <1>4 DEF LineInv, Placed

\* Every step.
LEMMA LineInvSteps ==
    ASSUME LineTypeOK, LineTypeOK', ByteInv, ByteInv', LineInv, LineNext
    PROVE  LineInv'
<1>1. ASSUME NEW copy \in {0} \cup CopySizes, z_stream_line_get(copy) PROVE LineInv'
  BY <1>1, GetLines
<1>2. CASE BufferFull \/ ReadMore
  BY <1>2, FullLines, ReadLines
<1>3. ASSUME NEW n \in CopySizes, z_stream_line_read(n) PROVE LineInv'
  <2>1. n \in Nat
    BY LineAssumption
  <2>2. z_stream_line_read_method(n) /\ "raw" \in history'
    BY <1>3 DEF z_stream_line_read
  <2> QED
    BY <2>1, <2>2, MethodLines
<1>4. CASE z_stream_read_chunk
  <2>1. z_stream_line_read_method(call.size) /\ call.size \in Nat /\ "raw" \in history'
    BY <1>4 DEF z_stream_read_chunk, LineTypeOK
  <2> QED
    BY <2>1, MethodLines
<1>5. CASE z_stream_line_unget
  BY <1>5, UngetLines
<1>6. ASSUME NEW f \in Settable, z_stream_line_ctrl(f) PROVE LineInv'
  BY <1>6, CtrlLines
<1>7. ASSUME \/ \E n \in CopySizes : ChunkBegins(n)
             \/ \E n \in 1 .. MaxSent : z_stream_line_write(n) \/ WriteChunkBegins(n)
             \/ z_stream_write_chunk
      PROVE  LineInv'
  BY <1>7, StillCalls, StillLines
<1>8. ASSUME NEW rd \in BOOLEAN, NEW wr \in BOOLEAN, z_stream_set_cond(rd, wr) PROVE LineInv'
  BY <1>8, StillConds, StillLines
<1>9. ASSUME NEW nonblock \in BOOLEAN, SetMode(nonblock) PROVE LineInv'
  BY <1>9, StillMode, StillLines
<1>10. CASE z_stream_line_watch_prepare \/ FdDispatch
  BY <1>10, StillPrepared, StillDispatched, StillLines
<1> QED
  BY <1>1, <1>2, <1>3, <1>4, <1>5, <1>6, <1>7, <1>8, <1>9, <1>10 DEF LineNext

\* Nothing happens.
LEMMA LineInvStutters ==
    ASSUME LineTypeOK, LineTypeOK', LineInv, UNCHANGED linevars
    PROVE  LineInv'
<1>1. StillBytes
  BY DEF linevars, StillBytes
<1> QED
  BY <1>1, StillLines

-----------------------------------------------------------------------------
(* What was given are the lines of the input. *)

\* The model's Stripped and the one for any flags.
LEMMA TrimmedIs ==
    ASSUME NEW s
    PROVE  Stripped(s) = Trimmed(s, Framed(l))
<1>1. /\ "RETURN_EOL" \in Framed(l) <=> "RETURN_EOL" \in l.flags
      /\ l.flags \cap {"EOL_NL", "EOL_NUL", "EOL_CRLF"} = {}
           <=> Framed(l) \cap {"EOL_NL", "EOL_NUL", "EOL_CRLF"} = {}
      /\ l.flags \cap {"EOL_NL", "EOL_NUL"} = {} <=> Framed(l) \cap {"EOL_NL", "EOL_NUL"} = {}
  BY FramedIs
<1>2. EolByte = EolOf(Framed(l))
  BY EolByteIs
<1> QED
  BY <1>1, <1>2 DEF Stripped, Trimmed

\* What LineInv says of what was given is what InputDelivered asks.
LEMMA GivenLines ==
    ASSUME LineTypeOK, LineInv
    PROVE  LinesOfInput
<1> DEFINE S == EndsOf(input, Framed(l))
           OnLine == LastIsLine(input, Framed(l), l.bufsize, out)
<1>1. LineEnds = S
  BY EolByteIs DEF LineEnds, EndsOf
<1>2. S \in SUBSET (1 .. Len(input)) /\ Len(input) \in Nat /\ out.n \in Int
  BY EndsBounded DEF LineTypeOK
<1>3. Asked => OnLine
  BY DEF LineInv, Placed, AtLine, InLine
<1> HIDE DEF S, OnLine
<1>4. ASSUME OnLine, out.n > 0
      PROVE  out.n <= LineCount /\ out.last = InputLine(out.n)
  <2>1. PICK a, e : /\ a \in S \cup {0} /\ EndAfter(S, a, e)
                    /\ out.n = Cardinality(EndsBy(S, e))
                    /\ out.last = LineOf(SubSeq(input, a + 1, e), Framed(l), l.bufsize)
    BY <1>4 DEF OnLine, LastIsLine, S
  <2>2. e \in S /\ a < e /\ e \in Nat /\ a \in Nat
    BY <1>2, <2>1 DEF EndAfter
  <2>3. out.n <= LineCount
    <3>1. e \in Int
      BY <2>2
    <3> QED
      BY <1>1, <1>2, <2>1, <3>1, EndsFinite DEF LineCount
  <2>4. ASSUME NEW x \in S PROVE EndOf(Cardinality(EndsBy(S, x))) = x
    <3>1. PICK k : k = Cardinality(EndsBy(S, x))
      OBVIOUS
    <3>2. \A z \in S : Cardinality(EndsBy(S, z)) = k => z = x
      BY <1>2, <3>1, EndUnique
    <3>3. EndOf(k) = CHOOSE z \in S : Cardinality(EndsBy(S, z)) = k
      BY <1>1 DEF EndOf, EndsBy
    <3> QED
      BY <3>1, <3>2, <3>3
  <2>5. EndOf(out.n) = e
    BY <2>1, <2>2, <2>4
  <2>6. Cardinality(EndsBy(S, e)) = Cardinality(EndsBy(S, a)) + 1
        /\ Cardinality(EndsBy(S, a)) \in Nat
    <3>1. a \in Int
      BY <2>2
    <3> QED
      BY <1>2, <2>1, <2>2, <3>1, EndCounted, EndsFinite
  <2>7. (IF out.n = 1 THEN 1 ELSE EndOf(out.n - 1) + 1) = a + 1
    <3>1. CASE a \in S
      <4>1. Cardinality(EndsBy(S, a)) # 0
        <5>1. a \in EndsBy(S, a)
          BY <2>2, <3>1 DEF EndsBy
        <5>2. IsFiniteSet(EndsBy(S, a))
          <6>1. a \in Int
            BY <2>2
          <6> QED
            BY <1>2, <6>1, EndsFinite
        <5> QED
          BY <5>1, <5>2, FS_EmptySet
      <4>2. out.n # 1 /\ out.n - 1 = Cardinality(EndsBy(S, a))
        BY <2>1, <2>6, <4>1
      <4> QED
        BY <2>4, <3>1, <4>2
    <3>2. CASE a \notin S
      <4>1. a = 0
        BY <2>1, <3>2
      <4>2. EndsBy(S, a) = {}
        <5>1. \A i \in S : ~(i <= a)
          BY <1>2, <4>1
        <5> QED
          BY <5>1 DEF EndsBy
      <4>3. out.n = 1
        BY <2>1, <2>6, <4>2, FS_EmptySet
      <4> QED
        BY <4>1, <4>3
    <3> QED
      BY <3>1, <3>2
  <2>8. Segment(out.n) = SubSeq(input, a + 1, e)
    BY <2>5, <2>7 DEF Segment
  <2> QED
    <3>1. PICK s : s = Segment(out.n)
      OBVIOUS
    <3>2. Stripped(s) = Trimmed(s, Framed(l))
      BY TrimmedIs
    <3>3. InputLine(out.n) = LineOf(s, Framed(l), l.bufsize)
      BY <3>1, <3>2 DEF InputLine, LineOf
    <3> QED
      BY <2>1, <2>3, <2>8, <3>1, <3>3
<1> QED
  BY <1>3, <1>4 DEF LinesOfInput, Asked

\* What the application is given is the input.  While it asks for lines only, its last answer
\* is the line of the input whose number it is; and with ZRL_RETURN_EOL no byte is lost or
\* given twice through any mix of lines, parts, raw reads, chunks and data put back; however
\* the input arrives, whatever the flags and the sizes of the buffer and of the copies.
THEOREM InputGiven == LineSpec => []InputDelivered
<1> DEFINE Inv == SleepInv /\ ByteInv /\ LineInv
<1>1. LineInit => Inv
  BY LineInits, ByteInits, LineInvInits
<1>2. Inv /\ [LineNext]_linevars => Inv'
  <2> SUFFICES ASSUME SleepInv, ByteInv, LineInv, [LineNext]_linevars
               PROVE  SleepInv' /\ ByteInv' /\ LineInv'
    BY DEF Inv
  <2>1. SleepInv'
    BY LineStep, LineStutters
  <2>2. LineTypeOK /\ LineTypeOK'
    BY <2>1 DEF SleepInv
  <2>3. ByteInv'
    BY <2>2, ByteSteps, ByteStutters
  <2>4. LineInv'
    BY <2>2, <2>3, LineInvSteps, LineInvStutters
  <2> QED
    BY <2>1, <2>3, <2>4
<1>3. Inv => InputDelivered
  BY GivenLines DEF SleepInv, ByteInv, InputDelivered
<1> HIDE DEF Inv
<1> QED
  BY <1>1, <1>2, <1>3, PTL DEF LineSpec
=============================================================================
