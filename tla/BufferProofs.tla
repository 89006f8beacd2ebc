---------------------------- MODULE BufferProofs ----------------------------
(***************************************************************************)
(* What the buffers of Collector hold, for any workers, nexthops, packets  *)
(* and sizes that are as usual (Fits).                                     *)
(***************************************************************************)
EXTENDS CollectorProofs

\* Zenon proves what cites no prover; a leaf about numbers, functions or records cites SMT.
USE ZenonT(30)

\* A buffer that is being filled.
Holding(m) ==
    /\ m \in Messages
    /\ m.size = BlockSize /\ m.capacity = BlockSize /\ m.curr = 0
    /\ m.frames \in Seq(Packets)
    /\ m.tail = Bytes(m.frames) /\ m.tail <= Threshold
    /\ m.tail = 0 <=> m.frames = <<>>

GoodBats(b) ==
    /\ b \in BatsBuffers
    /\ IF b.buf = NullPtr THEN b.last = 0 ELSE b.last > 0 /\ Holding(b.buf)

\* A buffer that was sent off.
GoodSent(e) ==
    /\ e \in Sends
    /\ e.msg.frames \in Seq(Packets) /\ e.msg.frames # <<>>
    /\ e.msg.size = e.msg.curr + Bytes(e.msg.frames)
    /\ e.msg.curr = IF e.coded THEN 0 ELSE Overhead
    /\ IF e.coded THEN e.msg.size < BlockSize ELSE Len(e.msg.frames) = 1

Held(b) == IF b.buf = NullPtr THEN <<>> ELSE b.buf.frames

\* How many of its buffers are complete.
Complete(b) == IF b.last = 0 THEN 0 ELSE b.last - 1

\* What a critical section does to a nexthop's buffers: packet p comes last.
Gathered(h, bats, p, r) ==
    /\ GoodBats(r.bats) /\ r.bats.buf # NullPtr
    /\ r.out \in Seq(Sends)
    /\ r.bats.last = Complete(bats) + 1 + Len(r.out)
    /\ \A i \in DOMAIN r.out :
          GoodSent(r.out[i]) /\ r.out[i].hop = h /\ r.out[i].id = Complete(bats) + i
    /\ \/ r.out = <<>> /\ Held(r.bats) = Append(Held(bats), p)
       \/ /\ Len(r.out) = 1 /\ Held(r.bats) = <<>>
          /\ r.out[1].msg.frames = Append(Held(bats), p)
       \/ /\ Len(r.out) = 2 /\ Held(r.bats) = <<>>
          /\ r.out[1].msg.frames = Held(bats) /\ r.out[2].msg.frames = <<p>>

LEMMA PacketSizes ==
  ASSUME Fits, NEW p \in Packets
  PROVE  /\ p \in Frames /\ p.size \in Nat /\ p.size > 0
         /\ Threshold + p.size < BlockSize /\ Overhead + p.size <= BlockSize
BY SMTT(30) DEF Fits, Packets, Datagrams, Frames, IsIPv4, MinIPHeader

LEMMA ResetGood ==
  ASSUME NEW b \in BatsBuffers
  PROVE  /\ GoodBats(ResetBuf(b)) /\ ResetBuf(b).buf # NullPtr
         /\ ResetBuf(b).last = b.last + 1 /\ Held(ResetBuf(b)) = <<>>
         /\ ResetBuf(b).buf = NewMsg(BlockSize) /\ Holding(NewMsg(BlockSize))
<1>1. Holding(NewMsg(BlockSize))
  <2>1. <<>> \in Seq(Packets)
    BY SMTT(30)
  <2> QED
    BY <2>1, MessageTypes, BytesEmpty, Facts, SMTT(30) DEF Holding, NewMsg
<1>2. ResetBuf(b).buf = NewMsg(BlockSize) /\ ResetBuf(b).last = b.last + 1
  BY DEF ResetBuf
<1>3. NewMsg(BlockSize) # NullPtr /\ NewMsg(BlockSize).frames = <<>>
  BY MessageTypes, Facts DEF NewMsg
<1>4. b.last + 1 > 0
  BY SMTT(30) DEF BatsBuffers
<1> QED
  BY <1>1, <1>2, <1>3, <1>4, BatsTypes DEF GoodBats, Held

LEMMA WithBufGood ==
  ASSUME NEW b, GoodBats(b)
  PROVE  /\ WithBuf(b) \in BatsBuffers /\ WithBuf(b).buf # NullPtr /\ Holding(WithBuf(b).buf)
         /\ WithBuf(b).last = Complete(b) + 1 /\ WithBuf(b).last \in Nat \ {0}
         /\ WithBuf(b).buf.frames = Held(b) /\ Complete(b) \in Nat
<1>1. b \in BatsBuffers /\ b.last \in Nat
  BY DEF GoodBats, BatsBuffers
<1>2. CASE b.buf = NullPtr
  <2>1. b.last = 0 /\ WithBuf(b) = ResetBuf(b)
    BY <1>2 DEF GoodBats, WithBuf
  <2>2. NewMsg(BlockSize).frames = <<>>
    BY DEF NewMsg
  <2> QED
    BY <1>1, <1>2, <2>1, <2>2, ResetGood, BatsTypes, SMTT(30) DEF Complete, Held
<1>3. CASE b.buf # NullPtr
  BY <1>1, <1>3, SMTT(30) DEF GoodBats, WithBuf, Complete, Held
<1> QED
  BY <1>2, <1>3

\* A buffer of packets is sent off at the length it is filled to.
LEMMA SentGood ==
  ASSUME NEW h \in Nexthops, NEW b \in BatsBuffers, NEW m \in Messages, NEW coded \in BOOLEAN,
         m.frames \in Seq(Packets), m.frames # <<>>, m.tail = m.curr + Bytes(m.frames),
         m.curr = (IF coded THEN 0 ELSE Overhead),
         IF coded THEN m.tail < BlockSize ELSE Len(m.frames) = 1
  PROVE  /\ GoodSent(Sent(h, b, m, coded))
         /\ Sent(h, b, m, coded).hop = h /\ Sent(h, b, m, coded).id = b.last
         /\ Sent(h, b, m, coded).msg.frames = m.frames
<1> DEFINE e == Sent(h, b, m, coded)
<1>1. e \in Sends
  BY BatsTypes
<1>2. e.hop = h /\ e.id = b.last /\ e.coded = coded /\ e.msg = Resize(m, m.tail)
  BY DEF Sent
<1>3. Resize(m, m.tail).frames = m.frames /\ Resize(m, m.tail).curr = m.curr
      /\ Resize(m, m.tail).size = m.tail
  BY DEF Resize, Messages
<1> HIDE DEF e
<1>4. GoodSent(e)
  BY <1>1, <1>2, <1>3 DEF GoodSent
<1> QED
  BY <1>2, <1>3, <1>4 DEF e

\* fill, where there is room.
LEMMA FillGood ==
  ASSUME NEW m \in Messages, NEW p \in Packets, m.tail + p.size <= m.capacity,
         m.frames \in Seq(Packets), m.tail = m.curr + Bytes(m.frames)
  PROVE  /\ Fill(m, p) = [m EXCEPT !.frames = Append(m.frames, p), !.tail = m.tail + p.size]
         /\ Fill(m, p) \in Messages
         /\ Fill(m, p).frames = Append(m.frames, p) /\ Append(m.frames, p) \in Seq(Packets)
         /\ Append(m.frames, p) # <<>> /\ Len(Append(m.frames, p)) = Len(m.frames) + 1
         /\ Fill(m, p).tail = m.tail + p.size /\ Fill(m, p).curr = m.curr
         /\ Fill(m, p).size = m.size /\ Fill(m, p).capacity = m.capacity
         /\ Fill(m, p).tail = Fill(m, p).curr + Bytes(Append(m.frames, p))
<1>1. p \in Frames /\ m.frames \in Seq(Frames)
  BY Facts, SMTT(30)
<1>2. Bytes(m.frames) \in Nat /\ Bytes(Append(m.frames, p)) = Bytes(m.frames) + p.size
  BY <1>1, BytesPush
<1>3. p.size \in Nat /\ m.tail \in Nat /\ m.curr \in Nat
  BY <1>1 DEF Frames, Messages
<1>4. Fill(m, p) = [m EXCEPT !.frames = Append(m.frames, p), !.tail = m.tail + p.size]
  BY DEF Fill
<1>5. Fill(m, p) \in Messages
  BY <1>1, MessageTypes
<1>6. Fill(m, p).frames = Append(m.frames, p) /\ Fill(m, p).tail = m.tail + p.size
      /\ Fill(m, p).curr = m.curr /\ Fill(m, p).size = m.size /\ Fill(m, p).capacity = m.capacity
  BY <1>4 DEF Messages
<1>7. Append(m.frames, p) \in Seq(Packets) /\ Append(m.frames, p) # <<>>
      /\ Len(Append(m.frames, p)) = Len(m.frames) + 1
  <2>1. \A s \in Seq(Packets) : /\ Append(s, p) \in Seq(Packets) /\ Append(s, p) # <<>>
                                /\ Len(Append(s, p)) = Len(s) + 1
    BY SMTT(30)
  <2> QED
    BY <2>1
<1> QED
  BY <1>2, <1>3, <1>4, <1>5, <1>6, <1>7, SMTT(30)

LEMMA BufferingGathers ==
  ASSUME Fits, NEW h \in Nexthops, NEW bats, GoodBats(bats), NEW p \in Packets
  PROVE  Gathered(h, bats, p, BufferingData(h, bats, p))
<1> DEFINE b == WithBuf(bats)
           buf == Fill(b.buf, p)
           sent == Sent(h, b, buf, TRUE)
           next == [b EXCEPT !.buf = buf]
           enough == buf.tail > Threshold
<1>1. /\ b \in BatsBuffers /\ b.buf # NullPtr /\ Holding(b.buf)
      /\ b.last = Complete(bats) + 1 /\ b.last \in Nat \ {0}
      /\ b.buf.frames = Held(bats) /\ Complete(bats) \in Nat
  BY WithBufGood
<1>2. p.size \in Nat /\ p.size > 0 /\ Threshold + p.size < BlockSize
  BY PacketSizes
<1>3. b.buf \in Messages /\ b.buf.tail \in Nat /\ b.buf.tail <= Threshold
      /\ b.buf.size = BlockSize /\ b.buf.capacity = BlockSize /\ b.buf.curr = 0
      /\ b.buf.frames \in Seq(Packets) /\ b.buf.tail = Bytes(b.buf.frames)
  BY <1>1 DEF Holding, Messages
<1>4. ~(b.buf.tail + p.size > b.buf.size) /\ b.buf.tail + p.size <= b.buf.capacity
      /\ b.buf.tail + p.size < BlockSize /\ b.buf.tail = b.buf.curr + Bytes(b.buf.frames)
  BY <1>2, <1>3, Facts, SMTT(30)
<1>5. BufferingData(h, bats, p) =
        [bats |-> IF enough THEN ResetBuf(next) ELSE next,
         out  |-> <<>> \o (IF enough THEN <<sent>> ELSE <<>>)]
  BY <1>4 DEF BufferingData
<1> HIDE DEF b
<1>6. /\ buf \in Messages /\ buf.frames = Append(Held(bats), p) /\ buf.frames \in Seq(Packets)
      /\ buf.frames # <<>> /\ buf.tail = b.buf.tail + p.size /\ buf.curr = 0
      /\ buf.size = BlockSize /\ buf.capacity = BlockSize
      /\ buf.tail = buf.curr + Bytes(buf.frames)
  <2>1. /\ buf \in Messages /\ buf.frames = Append(b.buf.frames, p)
        /\ Append(b.buf.frames, p) \in Seq(Packets) /\ Append(b.buf.frames, p) # <<>>
        /\ buf.tail = b.buf.tail + p.size /\ buf.curr = b.buf.curr
        /\ buf.size = b.buf.size /\ buf.capacity = b.buf.capacity
        /\ buf.tail = buf.curr + Bytes(Append(b.buf.frames, p))
    BY <1>3, <1>4, FillGood
  <2> HIDE DEF buf
  <2> QED
    BY <1>1, <1>3, <2>1
<1> HIDE DEF buf
<1>7. /\ GoodSent(sent) /\ sent.hop = h /\ sent.id = b.last
      /\ sent.msg.frames = Append(Held(bats), p)
  <2>1. buf.tail < BlockSize
    BY <1>4, <1>6
  <2> QED
    BY <1>1, <1>6, <2>1, SentGood
<1>8. sent \in Sends
  BY <1>7 DEF GoodSent
<1>9. next \in BatsBuffers /\ next.buf = buf /\ next.last = b.last
  BY <1>1, <1>6 DEF BatsBuffers
<1> HIDE DEF sent, next
<1>10. CASE enough
  <2> DEFINE r == [bats |-> ResetBuf(next), out |-> <<sent>>]
  <2>1. BufferingData(h, bats, p) = r
    BY <1>5, <1>10, SMTT(30)
  <2>2. /\ GoodBats(ResetBuf(next)) /\ ResetBuf(next).buf # NullPtr
        /\ ResetBuf(next).last = b.last + 1 /\ Held(ResetBuf(next)) = <<>>
    BY <1>9, ResetGood
  <2>3. r.bats = ResetBuf(next) /\ r.out = <<sent>> /\ Len(<<sent>>) = 1 /\ <<sent>>[1] = sent
        /\ <<sent>> \in Seq(Sends) /\ DOMAIN <<sent>> = {1}
    BY <1>8, SMTT(30)
  <2> HIDE DEF r
  <2> QED
    BY <1>1, <1>7, <2>1, <2>2, <2>3 DEF Gathered
<1>11. CASE ~enough
  <2> DEFINE r == [bats |-> next, out |-> <<>>]
  <2>1. BufferingData(h, bats, p) = r
    BY <1>5, <1>11, SMTT(30)
  <2>2. buf # NullPtr
    BY <1>6, Facts
  <2>3. buf.tail <= Threshold /\ buf.tail # 0 /\ buf.tail = Bytes(buf.frames)
    <3>1. buf.tail \in Nat
      BY <1>6 DEF Messages
    <3>2. Bytes(buf.frames) \in Nat
      <4>1. buf.frames \in Seq(Frames)
        BY <1>6 DEF Messages
      <4> QED
        BY <4>1, BytesPush, PacketSizes
    <3>3. buf.tail = Bytes(buf.frames)
      BY <1>6, <3>2, SMTT(30)
    <3>4. buf.tail <= Threshold
      BY <1>11, <3>1, Facts, SMTT(30)
    <3>5. buf.tail # 0
      BY <1>2, <1>3, <1>6, SMTT(30)
    <3> QED
      BY <3>3, <3>4, <3>5
  <2>4. Holding(buf)
    BY <1>6, <2>3 DEF Holding
  <2>5. GoodBats(next) /\ next.buf # NullPtr /\ Held(next) = Append(Held(bats), p)
    BY <1>1, <1>6, <1>9, <2>2, <2>4, SMTT(30) DEF GoodBats, Held
  <2>6. r.bats = next /\ r.out = <<>> /\ <<>> \in Seq(Sends) /\ Len(<<>>) = 0 /\ DOMAIN <<>> = {}
    BY SMTT(30)
  <2> HIDE DEF r
  <2> QED
    BY <1>1, <1>9, <2>1, <2>5, <2>6, SMTT(30) DEF Gathered
<1> QED
  BY <1>10, <1>11

LEMMA ForceGathers ==
  ASSUME Fits, NEW h \in Nexthops, NEW bats, GoodBats(bats), NEW p \in Packets
  PROVE  Gathered(h, bats, p, ForceRelayData(h, bats, p))
<1> DEFINE b == WithBuf(bats)
           flush == b.buf.tail > 0
           fresh == IF flush THEN ResetBuf(b) ELSE b
           room == ReserveHeader(fresh.buf, Overhead)
           buf == Fill(room, p)
           first == Sent(h, b, b.buf, TRUE)
           sent == Sent(h, fresh, buf, FALSE)
<1>1. /\ b \in BatsBuffers /\ b.buf # NullPtr /\ Holding(b.buf)
      /\ b.last = Complete(bats) + 1 /\ b.last \in Nat \ {0}
      /\ b.buf.frames = Held(bats) /\ Complete(bats) \in Nat
  BY WithBufGood
<1>2. p.size \in Nat /\ p.size > 0 /\ Overhead + p.size <= BlockSize /\ Threshold + p.size < BlockSize
  BY PacketSizes
<1>3. b.buf \in Messages /\ b.buf.tail \in Nat /\ b.buf.tail <= Threshold
      /\ b.buf.size = BlockSize /\ b.buf.capacity = BlockSize /\ b.buf.curr = 0
      /\ b.buf.frames \in Seq(Packets) /\ b.buf.tail = Bytes(b.buf.frames)
      /\ (b.buf.tail = 0 <=> b.buf.frames = <<>>)
  BY <1>1 DEF Holding, Messages
<1>4. ForceRelayData(h, bats, p) =
        [bats |-> ResetBuf(fresh), out |-> (IF flush THEN <<first>> ELSE <<>>) \o <<sent>>]
  BY DEF ForceRelayData
<1> HIDE DEF b
<1>5. /\ fresh \in BatsBuffers /\ Holding(fresh.buf) /\ fresh.buf.frames = <<>>
      /\ fresh.buf.tail = 0
      /\ fresh.last = IF flush THEN b.last + 1 ELSE b.last
  <2>1. CASE flush
    <3>1. NewMsg(BlockSize).frames = <<>> /\ NewMsg(BlockSize).tail = 0
      BY DEF NewMsg
    <3> QED
      BY <1>1, <2>1, <3>1, ResetGood, BatsTypes
  <2>2. CASE ~flush
    <3>1. b.buf.tail = 0
      BY <1>3, <2>2, SMTT(30)
    <3> QED
      BY <1>1, <1>3, <2>2, <3>1
  <2> QED
    BY <2>1, <2>2
<1> HIDE DEF flush, fresh
<1>6. /\ room \in Messages /\ room.capacity = BlockSize /\ room.curr = Overhead
      /\ room.tail = Overhead /\ room.frames = <<>>
  <2>1. fresh.buf \in Messages /\ fresh.buf.capacity = BlockSize /\ fresh.buf.curr = 0
    BY <1>5 DEF Holding
  <2>2. ~(Overhead > fresh.buf.capacity)
    BY <1>2, <2>1, Facts, SMTT(30)
  <2>3. room = [fresh.buf EXCEPT !.curr = @ + Overhead, !.tail = @ + Overhead]
    BY <2>2 DEF ReserveHeader
  <2>4. 0 + Overhead = Overhead
    BY Facts, SMTT(30)
  <2>5. room \in Messages
    BY <2>1, MessageTypes, Facts
  <2>6. /\ room.capacity = fresh.buf.capacity /\ room.curr = fresh.buf.curr + Overhead
        /\ room.tail = fresh.buf.tail + Overhead /\ room.frames = fresh.buf.frames
    BY <2>1, <2>3 DEF Messages
  <2> HIDE DEF room
  <2> QED
    BY <1>5, <2>1, <2>4, <2>5, <2>6
<1> HIDE DEF room
<1>7. /\ buf \in Messages /\ buf.frames = Append(<<>>, p) /\ buf.frames \in Seq(Packets)
      /\ buf.frames # <<>> /\ Len(buf.frames) = Len(<<>>) + 1 /\ buf.curr = Overhead
      /\ buf.tail = buf.curr + Bytes(buf.frames)
  <2>1. room.tail + p.size <= room.capacity /\ <<>> \in Seq(Packets)
        /\ room.tail = room.curr + Bytes(room.frames)
    BY <1>2, <1>6, BytesEmpty, Facts, SMTT(30)
  <2> QED
    BY <1>6, <2>1, FillGood
<1> HIDE DEF buf
<1>8. Append(<<>>, p) = <<p>> /\ Len(<<>>) + 1 = 1
  BY SMTT(30)
<1>9. GoodSent(sent) /\ sent.hop = h /\ sent.id = fresh.last /\ sent.msg.frames = <<p>>
  <2>1. Len(buf.frames) = 1 /\ buf.frames = <<p>>
    BY <1>7, <1>8
  <2>2. GoodSent(sent) /\ sent.hop = h /\ sent.id = fresh.last /\ sent.msg.frames = buf.frames
    BY <1>5, <1>7, <2>1, SentGood
  <2> HIDE DEF sent
  <2> QED
    BY <2>1, <2>2
<1>10. ASSUME flush
       PROVE  /\ GoodSent(first) /\ first.hop = h /\ first.id = b.last
              /\ first.msg.frames = Held(bats)
  <2>1. b.buf.frames # <<>> /\ b.buf.tail < BlockSize
        /\ b.buf.tail = b.buf.curr + Bytes(b.buf.frames)
    BY <1>2, <1>3, <1>10, Facts, SMTT(30) DEF flush
  <2> QED
    BY <1>1, <1>3, <2>1, SentGood
<1> HIDE DEF first, sent
<1>11. /\ GoodBats(ResetBuf(fresh)) /\ ResetBuf(fresh).buf # NullPtr
       /\ ResetBuf(fresh).last = fresh.last + 1 /\ Held(ResetBuf(fresh)) = <<>>
  BY <1>5, ResetGood
<1>12. CASE flush
  <2> DEFINE r == [bats |-> ResetBuf(fresh), out |-> <<first, sent>>]
  <2>0. <<first>> \o <<sent>> = <<first, sent>>
    <3>1. first \in Sends /\ sent \in Sends
      BY <1>9, <1>10, <1>12 DEF GoodSent
    <3>2. IsPair(first, sent)
      BY <3>1, Pair
    <3> QED
      BY <3>2 DEF IsPair
  <2>1. ForceRelayData(h, bats, p) = r
    BY <1>4, <1>12, <2>0
  <2>2. first \in Sends /\ sent \in Sends
    BY <1>9, <1>10, <1>12 DEF GoodSent
  <2>3. r.bats = ResetBuf(fresh) /\ r.out = <<first, sent>> /\ Len(<<first, sent>>) = 2
        /\ <<first, sent>>[1] = first /\ <<first, sent>>[2] = sent
        /\ <<first, sent>> \in Seq(Sends) /\ DOMAIN <<first, sent>> = {1, 2}
    BY <2>2, SMTT(30)
  <2> HIDE DEF r
  <2>4. fresh.last = b.last + 1
    BY <1>5, <1>12
  <2> QED
    BY <1>1, <1>9, <1>10, <1>11, <1>12, <2>1, <2>3, <2>4, SMTT(30) DEF Gathered
<1>13. CASE ~flush
  <2> DEFINE r == [bats |-> ResetBuf(fresh), out |-> <<sent>>]
  <2>1. ForceRelayData(h, bats, p) = r
    BY <1>4, <1>13, SMTT(30)
  <2>2. sent \in Sends
    BY <1>9 DEF GoodSent
  <2>3. r.bats = ResetBuf(fresh) /\ r.out = <<sent>> /\ Len(<<sent>>) = 1 /\ <<sent>>[1] = sent
        /\ <<sent>> \in Seq(Sends) /\ DOMAIN <<sent>> = {1}
    BY <2>2, SMTT(30)
  <2> HIDE DEF r
  <2>4. fresh.last = b.last /\ Held(bats) = <<>>
    BY <1>1, <1>3, <1>5, <1>13, SMTT(30) DEF flush
  <2> QED
    BY <1>1, <1>8, <1>9, <1>11, <2>1, <2>3, <2>4 DEF Gathered
<1> QED
  BY <1>12, <1>13

-----------------------------------------------------------------------------
(***************************************************************************)
(* The inductive invariant behind Serialised.  A nexthop's complete        *)
(* buffers are numbered from 1; each is in exactly one place: in the hands *)
(* of a thread that has yet to dispatch it, or relayed.  The book g of a   *)
(* nexthop says what each of them holds.                                   *)
(***************************************************************************)
Same(a, b) == a.hop = b.hop /\ a.id = b.id

GoodInv ==
    /\ \A h \in Known : GoodBats(hops[h])
    /\ \A x \in Threads : \A k \in DOMAIN out[x] : GoodSent(out[x][k])
    /\ \A e \in relayed : GoodSent(e)

Unique ==
    /\ \A x, y \in Threads : \A k \in DOMAIN out[x] : \A l \in DOMAIN out[y] :
          Same(out[x][k], out[y][l]) => x = y /\ k = l
    /\ \A x \in Threads : \A k \in DOMAIN out[x] : \A e \in relayed : ~Same(out[x][k], e)
    /\ \A e, f \in relayed : Same(e, f) => e = f

Closed(h) == IF hops[h] = NullPtr THEN 0 ELSE Complete(hops[h])
Open(h) == IF hops[h] = NullPtr THEN <<>> ELSE Held(hops[h])

InBook(e, h, g) == e.hop = h => e.id \in 1 .. Len(g) /\ e.msg.frames = g[e.id]

IsOut(h, i) == \E x \in Threads : \E k \in DOMAIN out[x] : out[x][k].hop = h /\ out[x][k].id = i
IsRelayed(h, i) == \E e \in relayed : e.hop = h /\ e.id = i

Book(h, g) ==
    /\ g \in Seq(Seq(Packets)) /\ Len(g) = Closed(h)
    /\ taken[h] = Joined(g) \o Open(h)
    /\ \A x \in Threads : \A k \in DOMAIN out[x] : InBook(out[x][k], h, g)
    /\ \A e \in relayed : InBook(e, h, g)
    /\ \A i \in 1 .. Len(g) : IsOut(h, i) \/ IsRelayed(h, i)

BookInv == \A h \in Nexthops : \E g : Book(h, g)

FramesOf(q) == [i \in 1 .. Len(q) |-> q[i].msg.frames]

\* Thread x, which has nothing to dispatch, completes the next buffers of nexthop h.
Push(x, h, q, b, tk) ==
    /\ h \in Known /\ out[x] = <<>>
    /\ out' = [out EXCEPT ![x] = q]
    /\ hops' = [hops EXCEPT ![h] = b]
    /\ taken' = [taken EXCEPT ![h] = tk]
    /\ relayed' = relayed
    /\ GoodBats(b) /\ b.buf # NullPtr
    /\ q \in Seq(Sends)
    /\ b.last = Closed(h) + 1 + Len(q)
    /\ \A i \in DOMAIN q : GoodSent(q[i]) /\ q[i].hop = h /\ q[i].id = Closed(h) + i
    /\ \A g \in Seq(Seq(Packets)) :
          taken[h] = Joined(g) \o Open(h) => tk = Joined(g \o FramesOf(q)) \o Held(b)

LEMMA PushFacts ==
  ASSUME TypeInv, NEW x \in Threads, NEW h, NEW q, NEW b, NEW tk, Push(x, h, q, b, tk)
  PROVE  /\ h \in Nexthops /\ hops[h] # NullPtr /\ b # NullPtr
         /\ Known' = Known
         /\ hops'[h] = b /\ \A k \in Nexthops : k # h => hops'[k] = hops[k]
         /\ out'[x] = q /\ \A y \in Threads : y # x => out'[y] = out[y]
         /\ taken'[h] = tk /\ \A k \in Nexthops : k # h => taken'[k] = taken[k]
<1>1. h \in Nexthops /\ hops[h] # NullPtr /\ b \in BatsBuffers
  BY DEF Push, Known, GoodBats
<1>2. b # NullPtr
  BY <1>1, Facts
<1>3. hops'[h] = b /\ \A k \in Nexthops : k # h => hops'[k] = hops[k]
  BY <1>1 DEF Push, TypeInv, HopsType
<1>4. Known' = Known
  BY <1>1, <1>2, <1>3 DEF Known
<1>5. out'[x] = q /\ \A y \in Threads : y # x => out'[y] = out[y]
  BY DEF Push, TypeInv, OutType
<1>6. taken'[h] = tk /\ \A k \in Nexthops : k # h => taken'[k] = taken[k]
  BY <1>1 DEF Push, TypeInv, TakenType
<1> QED
  BY <1>1, <1>2, <1>3, <1>4, <1>5, <1>6

LEMMA PushKeepsGood ==
  ASSUME TypeInv, GoodInv, NEW x \in Threads, NEW h, NEW q, NEW b, NEW tk, Push(x, h, q, b, tk)
  PROVE  GoodInv'
<1>1. \A k \in Known' : GoodBats(hops'[k])
  <2>1. Known' = Known /\ Known \subseteq Nexthops
    BY PushFacts DEF Known
  <2>2. ASSUME NEW k \in Known
        PROVE  GoodBats(hops'[k])
    <3>1. CASE k = h
      <4>1. hops'[h] = b
        BY PushFacts, SMTT(30)
      <4>2. GoodBats(b)
        BY DEF Push
      <4> QED
        BY <3>1, <4>1, <4>2
    <3>2. CASE k # h
      BY <2>1, <3>2, PushFacts, SMTT(30) DEF GoodInv
    <3> QED
      BY <3>1, <3>2
  <2> QED
    BY <2>1, <2>2
<1>2. ASSUME NEW y \in Threads, NEW k \in DOMAIN out'[y]
      PROVE  GoodSent(out'[y][k])
  <2>1. CASE y = x
    BY <2>1, PushFacts, SMTT(30) DEF Push
  <2>2. CASE y # x
    <3>1. out'[y] = out[y]
      BY <2>2, PushFacts
    <3> QED
      BY <3>1 DEF GoodInv
  <2> QED
    BY <2>1, <2>2
<1>3. \A e \in relayed' : GoodSent(e)
  BY DEF Push, GoodInv
<1> QED
  BY <1>1, <1>2, <1>3 DEF GoodInv, GoodBats, GoodSent, Holding

\* The new ids are above all old ones of the nexthop.
LEMMA PushIsAbove ==
  ASSUME TypeInv, BookInv, NEW x \in Threads, NEW h, NEW q, NEW b, NEW tk, Push(x, h, q, b, tk)
  PROVE  /\ \A i \in DOMAIN q : \A y \in Threads : \A k \in DOMAIN out[y] : ~Same(q[i], out[y][k])
         /\ \A i \in DOMAIN q : \A e \in relayed : ~Same(q[i], e)
         /\ \A i, j \in DOMAIN q : Same(q[i], q[j]) => i = j
         /\ Closed(h) \in Nat
<1>1. h \in Nexthops /\ q \in Seq(Sends)
      /\ \A i \in DOMAIN q : q[i].hop = h /\ q[i].id = Closed(h) + i
  <2>1. h \in Nexthops
    BY PushFacts
  <2> QED
    BY <2>1 DEF Push
<1>2. PICK g : Book(h, g)
  BY <1>1 DEF BookInv
<1>3. Closed(h) \in Nat /\ Len(g) = Closed(h)
  BY <1>2, SMTT(30) DEF Book
<1>4. \A i \in DOMAIN q : i \in Nat \ {0}
  BY <1>1, SMTT(30)
<1>5. \A i \in DOMAIN q : Closed(h) + i \notin 1 .. Closed(h)
  BY <1>3, <1>4, SMTT(30)
<1>6. ASSUME NEW i \in DOMAIN q, NEW y \in Threads, NEW k \in DOMAIN out[y], Same(q[i], out[y][k])
      PROVE  FALSE
  <2>1. out[y][k].hop = h /\ out[y][k].id = Closed(h) + i
    BY <1>1, <1>6 DEF Same
  <2>2. out[y][k].id \in 1 .. Len(g)
    BY <1>2, <2>1 DEF Book, InBook
  <2> QED
    BY <1>3, <1>5, <2>1, <2>2
<1>7. ASSUME NEW i \in DOMAIN q, NEW e \in relayed, Same(q[i], e)
      PROVE  FALSE
  <2>1. e.hop = h /\ e.id = Closed(h) + i
    BY <1>1, <1>7 DEF Same
  <2>2. e.id \in 1 .. Len(g)
    BY <1>2, <2>1 DEF Book, InBook
  <2> QED
    BY <1>3, <1>5, <2>1, <2>2
<1>8. ASSUME NEW i \in DOMAIN q, NEW j \in DOMAIN q, Same(q[i], q[j])
      PROVE  i = j
  BY <1>1, <1>3, <1>4, <1>8, SMTT(30) DEF Same
<1> QED
  BY <1>3, <1>6, <1>7, <1>8

LEMMA PushKeepsUnique ==
  ASSUME TypeInv, BookInv, Unique, NEW x \in Threads, NEW h, NEW q, NEW b, NEW tk,
         Push(x, h, q, b, tk)
  PROVE  Unique'
<1>1. out'[x] = q /\ \A y \in Threads : y # x => out'[y] = out[y]
  BY PushFacts, SMTT(30)
<1>2. relayed' = relayed
  BY DEF Push
<1>s. \A a, c : Same(a, c) => Same(c, a)
  BY DEF Same
<1>3. ASSUME NEW y \in Threads, NEW z \in Threads, NEW k \in DOMAIN out'[y], NEW l \in DOMAIN out'[z],
             Same(out'[y][k], out'[z][l])
      PROVE  y = z /\ k = l
  <2>1. CASE y = x /\ z = x
    BY <1>1, <1>3, <2>1, PushIsAbove
  <2>2. CASE y = x /\ z # x
    BY <1>1, <1>3, <2>2, PushIsAbove
  <2>3. CASE y # x /\ z = x
    BY <1>1, <1>3, <1>s, <2>3, PushIsAbove
  <2>4. CASE y # x /\ z # x
    <3>1. out'[y] = out[y] /\ out'[z] = out[z]
      BY <1>1, <2>4
    <3>2. k \in DOMAIN out[y] /\ l \in DOMAIN out[z] /\ Same(out[y][k], out[z][l])
      BY <1>3, <3>1
    <3> QED
      BY <3>2 DEF Unique
  <2> QED
    BY <2>1, <2>2, <2>3, <2>4
<1>4. ASSUME NEW y \in Threads, NEW k \in DOMAIN out'[y], NEW e \in relayed, Same(out'[y][k], e)
      PROVE  FALSE
  <2>1. CASE y = x
    BY <1>1, <1>4, <2>1, PushIsAbove
  <2>2. CASE y # x
    <3>1. out'[y] = out[y]
      BY <1>1, <2>2
    <3>2. k \in DOMAIN out[y] /\ Same(out[y][k], e)
      BY <1>4, <3>1
    <3> QED
      BY <3>2 DEF Unique
  <2> QED
    BY <2>1, <2>2
<1>5. \A e, f \in relayed : Same(e, f) => e = f
  BY DEF Unique
<1> QED
  BY <1>2, <1>3, <1>4, <1>5, SMTT(30) DEF Unique, Same

LEMMA PushKeepsBook ==
  ASSUME TypeInv, BookInv, NEW x \in Threads, NEW h, NEW q, NEW b, NEW tk, Push(x, h, q, b, tk)
  PROVE  BookInv'
<1>0. /\ h \in Nexthops /\ b # NullPtr /\ hops'[h] = b /\ taken'[h] = tk /\ hops[h] # NullPtr
      /\ out'[x] = q /\ \A y \in Threads : y # x => out'[y] = out[y]
      /\ \A k \in Nexthops : k # h => hops'[k] = hops[k] /\ taken'[k] = taken[k]
  BY PushFacts, SMTT(30)
<1>1. /\ out[x] = <<>> /\ relayed' = relayed /\ q \in Seq(Sends)
      /\ b.last = Closed(h) + 1 + Len(q)
      /\ \A i \in DOMAIN q : q[i].hop = h /\ q[i].id = Closed(h) + i
  BY DEF Push
<1>e. DOMAIN out[x] = {}
  BY <1>1, SMTT(30)
<1>2. ASSUME NEW k \in Nexthops, k # h
      PROVE  \E g : Book(k, g)'
  <2>1. PICK g : Book(k, g)
    BY DEF BookInv
  <2>2. Closed(k)' = Closed(k) /\ Open(k)' = Open(k) /\ taken'[k] = taken[k]
    BY <1>0, <1>2 DEF Closed, Open
  <2>3. ASSUME NEW y \in Threads, NEW i \in DOMAIN out'[y]
        PROVE  InBook(out'[y][i], k, g)
    <3>1. CASE y = x
      BY <1>0, <1>1, <1>2, <2>3, <3>1 DEF InBook
    <3>2. CASE y # x
      BY <1>0, <2>1, <2>3, <3>2 DEF Book
    <3> QED
      BY <3>1, <3>2
  <2>4. ASSUME NEW i, IsOut(k, i)
        PROVE  IsOut(k, i)'
    <3>1. PICK y \in Threads : \E l \in DOMAIN out[y] : out[y][l].hop = k /\ out[y][l].id = i
      BY <2>4 DEF IsOut
    <3>2. y # x
      BY <1>e, <3>1
    <3> QED
      BY <1>0, <3>1, <3>2 DEF IsOut
  <2>5. \A i : IsRelayed(k, i) => IsRelayed(k, i)'
    BY <1>1 DEF IsRelayed
  <2>6. Book(k, g)'
    BY <1>1, <2>1, <2>2, <2>3, <2>4, <2>5 DEF Book, InBook
  <2> QED
    BY <2>6
<1>3. \E g : Book(h, g)'
  <2>1. PICK g : Book(h, g)
    BY <1>0 DEF BookInv
  <2> DEFINE u == FramesOf(q)
             f == g \o u
             n == Closed(h)
  <2>2. g \in Seq(Seq(Packets)) /\ Len(g) = n /\ n \in Nat /\ Len(q) \in Nat /\ DOMAIN q = 1 .. Len(q)
    BY <1>1, <2>1, SMTT(30) DEF Book
  <2>3. u \in Seq(Seq(Packets)) /\ Len(u) = Len(q) /\ \A i \in 1 .. Len(q) : u[i] = q[i].msg.frames
    <3>1. \A i \in 1 .. Len(q) : q[i].msg.frames \in Seq(Packets)
      BY <2>2 DEF Push, GoodSent
    <3>2. u \in [1 .. Len(q) -> Seq(Packets)]
      BY <3>1 DEF FramesOf
    <3>3. \A m \in Nat : \A v \in [1 .. m -> Seq(Packets)] : v \in Seq(Seq(Packets)) /\ Len(v) = m
      BY SMTT(30)
    <3> QED
      BY <2>2, <3>2, <3>3 DEF FramesOf
  <2> HIDE DEF u, n
  <2>4. /\ f \in Seq(Seq(Packets)) /\ Len(f) = n + Len(q)
        /\ \A i \in 1 .. n : f[i] = g[i]
        /\ \A i \in 1 .. Len(q) : f[n + i] = q[i].msg.frames
    <3>0. \A s, t \in Seq(Seq(Packets)) :
             /\ s \o t \in Seq(Seq(Packets)) /\ Len(s \o t) = Len(s) + Len(t)
             /\ \A i \in 1 .. Len(s) + Len(t) :
                   (s \o t)[i] = IF i <= Len(s) THEN s[i] ELSE t[i - Len(s)]
      BY SMTT(30)
    <3>1. /\ f \in Seq(Seq(Packets)) /\ Len(f) = Len(g) + Len(u)
          /\ \A i \in 1 .. Len(g) + Len(u) : f[i] = IF i <= Len(g) THEN g[i] ELSE u[i - Len(g)]
      BY <2>2, <2>3, <3>0
    <3> HIDE DEF f
    <3>2. ASSUME NEW i \in 1 .. n
          PROVE  f[i] = g[i]
      BY <2>2, <2>3, <3>1, SMTT(30)
    <3>3. ASSUME NEW i \in 1 .. Len(q)
          PROVE  f[n + i] = q[i].msg.frames
      <4>1. n + i \in 1 .. Len(g) + Len(u) /\ ~(n + i <= Len(g)) /\ (n + i) - Len(g) = i
        BY <2>2, <2>3, SMTT(30)
      <4> QED
        BY <2>3, <3>1, <4>1
    <3> QED
      BY <2>2, <2>3, <3>1, <3>2, <3>3
  <2>5. Closed(h)' = n + Len(q)
    <3>1. b.last = n + 1 + Len(q)
      BY <1>1 DEF n
    <3> QED
      BY <1>0, <2>2, <3>1, SMTT(30) DEF Closed, Complete
  <2>6. taken'[h] = Joined(f) \o Open(h)'
    <3>1. Open(h)' = Held(b)
      BY <1>0 DEF Open, Held
    <3>2. tk = Joined(f) \o Held(b)
      BY <2>1, <2>2 DEF Push, Book, u
    <3> QED
      BY <1>0, <3>1, <3>2
  <2> HIDE DEF f
  <2>7. ASSUME NEW e, InBook(e, h, g)
        PROVE  InBook(e, h, f)
    BY <2>2, <2>4, <2>7, SMTT(30) DEF InBook
  <2>8. ASSUME NEW y \in Threads, NEW i \in DOMAIN out'[y]
        PROVE  InBook(out'[y][i], h, f)
    <3>1. CASE y = x
      <4>1. i \in 1 .. Len(q) /\ out'[y][i] = q[i] /\ q[i].id = n + i
        BY <1>0, <1>1, <2>2, <2>8, <3>1 DEF n
      <4>2. n + i \in 1 .. Len(f) /\ f[n + i] = q[i].msg.frames
        BY <2>2, <2>4, <4>1, SMTT(30)
      <4> QED
        BY <4>1, <4>2 DEF InBook
    <3>2. CASE y # x
      BY <1>0, <2>1, <2>7, <2>8, <3>2 DEF Book
    <3> QED
      BY <3>1, <3>2
  <2>9. \A e \in relayed' : InBook(e, h, f)
    BY <1>1, <2>1, <2>7 DEF Book
  <2>10. ASSUME NEW i \in 1 .. Len(f)
         PROVE  IsOut(h, i)' \/ IsRelayed(h, i)'
    <3>1. CASE i \in 1 .. n
      <4>1. IsOut(h, i) \/ IsRelayed(h, i)
        BY <2>1, <2>2, <3>1 DEF Book
      <4>2. CASE IsRelayed(h, i)
        BY <1>1, <4>2 DEF IsRelayed
      <4>3. CASE IsOut(h, i)
        <5>1. PICK y \in Threads : \E l \in DOMAIN out[y] : out[y][l].hop = h /\ out[y][l].id = i
          BY <4>3 DEF IsOut
        <5>2. y # x
          BY <1>e, <5>1
        <5>3. out'[y] = out[y]
          BY <1>0, <5>2
        <5> QED
          BY <5>1, <5>3 DEF IsOut
      <4> QED
        BY <4>1, <4>2, <4>3
    <3>2. CASE i \notin 1 .. n
      <4>1. i - n \in 1 .. Len(q) /\ n + (i - n) = i
        BY <2>2, <2>4, <3>2, SMTT(30)
      <4>2. i - n \in DOMAIN q /\ q[i - n].hop = h /\ q[i - n].id = i
        BY <1>1, <2>2, <4>1 DEF n
      <4> QED
        BY <1>0, <4>2 DEF IsOut
    <3> QED
      BY <3>1, <3>2
  <2>11. Book(h, f)'
    BY <2>4, <2>5, <2>6, <2>8, <2>9, <2>10 DEF Book, InBook
  <2> QED
    BY <2>11
<1> QED
  BY <1>2, <1>3 DEF BookInv

\* A critical section is such a step ...
LEMMA GatherPushes ==
  ASSUME Fits, TypeInv, GoodInv, NEW w \in Workers, GatherStep(w)
  PROVE  \E h, q, b, tk : Push(w, h, q, b, tk)
<1>1. PICK h : h = job[w].hop
  OBVIOUS
<1>2. PICK p : p = job[w].pkt
  OBVIOUS
<1>3. PICK bats : bats = hops[h]
  OBVIOUS
<1>4. PICK r : r = Result(job[w], bats)
  OBVIOUS
<1>5. PICK tk : tk = Append(taken[h], p)
  OBVIOUS
<1>6. /\ h \in Known /\ h \in Nexthops /\ p \in Packets /\ pc[w] # "dispatch"
      /\ hops' = [hops EXCEPT ![h] = r.bats] /\ out' = [out EXCEPT ![w] = r.out]
      /\ taken' = [taken EXCEPT ![h] = tk] /\ relayed' = relayed
  BY <1>1, <1>2, <1>3, <1>4, <1>5 DEF GatherStep, Bound, dispatching
<1>7. out[w] = <<>> /\ GoodBats(bats) /\ bats # NullPtr
  BY <1>3, <1>6 DEF TypeInv, OutType, GoodInv, Known
<1>8. Gathered(h, bats, p, r)
  BY <1>1, <1>2, <1>4, <1>6, <1>7, BufferingGathers, ForceGathers DEF Result
<1>9. Closed(h) = Complete(bats) /\ Open(h) = Held(bats)
  BY <1>3, <1>7 DEF Closed, Open
<1>10. Held(bats) \in Seq(Packets)
  BY <1>7, WithBufGood DEF Holding
<1> DEFINE q == r.out
           b == r.bats
           fs == Held(bats)
<1>11. ASSUME NEW g \in Seq(Seq(Packets)), taken[h] = Joined(g) \o fs
       PROVE  tk = Joined(g \o FramesOf(q)) \o Held(b)
  <2> DEFINE a == Joined(g)
  <2>1. a \in Seq(Packets) /\ Append(fs, p) \in Seq(Packets) /\ <<p>> \in Seq(Packets)
    <3>1. <<>> \in Seq(Packets)
      BY SMTT(30)
    <3>2. a \in Seq(Packets)
      BY <3>1, JoinedPush
    <3> QED
      BY <1>6, <1>10, <3>2, SMTT(30)
  <2>l. Laws(a, fs, p)
    BY <1>6, <1>10, <2>1, SeqLaws
  <2>2. tk = a \o Append(fs, p)
    <3>1. Append(a \o fs, p) = a \o Append(fs, p)
      BY <2>l DEF Laws
    <3> QED
      BY <1>5, <1>11, <3>1
  <2>3. CASE q = <<>> /\ Held(b) = Append(fs, p)
    <3>1. FramesOf(q) = <<>> /\ g \o <<>> = g
      BY <2>3, SMTT(30) DEF FramesOf
    <3> QED
      BY <2>2, <2>3, <3>1
  <2>4. CASE Len(q) = 1 /\ Held(b) = <<>> /\ q[1].msg.frames = Append(fs, p)
    <3> DEFINE v == Append(fs, p)
    <3>2. v \in Seq(Packets) /\ q[1].msg.frames = v
      BY <2>1, <2>4
    <3> HIDE DEF v
    <3>1. FramesOf(q) = <<v>>
      BY <2>4, <3>2, SMTT(30) DEF FramesOf
    <3>3. g \o <<v>> = Append(g, v)
      BY <3>2, SMTT(30)
    <3>4. Joined(Append(g, v)) = a \o v
      BY <3>2, JoinedPush
    <3>5. (a \o v) \o <<>> = a \o v
      BY <2>1, <3>2, SMTT(30)
    <3> QED
      BY <2>2, <2>4, <3>1, <3>3, <3>4, <3>5 DEF v
  <2>5. CASE Len(q) = 2 /\ Held(b) = <<>> /\ q[1].msg.frames = fs /\ q[2].msg.frames = <<p>>
    <3>1. FramesOf(q) = <<fs, <<p>>>>
      BY <2>5, SMTT(30) DEF FramesOf
    <3>2. g \o <<fs, <<p>>>> = Append(Append(g, fs), <<p>>) /\ Append(g, fs) \in Seq(Seq(Packets))
      BY <1>10, <2>1, SMTT(30)
    <3>3. Joined(Append(g, fs)) = a \o fs
      BY <1>10, JoinedPush
    <3>4. Joined(Append(Append(g, fs), <<p>>)) = (a \o fs) \o <<p>>
      BY <2>1, <3>2, <3>3, JoinedPush
    <3>5. ((a \o fs) \o <<p>>) \o <<>> = a \o Append(fs, p)
      BY <2>l DEF Laws
    <3> QED
      BY <2>2, <2>5, <3>1, <3>2, <3>4, <3>5
  <2> QED
    BY <1>8, <2>3, <2>4, <2>5 DEF Gathered
<1>12. Push(w, h, q, b, tk)
  BY <1>6, <1>7, <1>8, <1>9, <1>11 DEF Push, Gathered
<1> QED
  BY <1>12

\* ... and so is HandleTimeoutBuffer.
LEMMA TimeoutPushes ==
  ASSUME Fits, TypeInv, GoodInv, HandleTimeoutBuffer
  PROVE  \E h, q, b, tk : Push(Pool, h, q, b, tk)
<1>1. PICK h : h = wtimer
  OBVIOUS
<1>2. PICK bats : bats = hops[h]
  OBVIOUS
<1>3. PICK e : e = Sent(h, bats, bats.buf, TRUE)
  OBVIOUS
<1>4. PICK tk : tk = taken[h]
  OBVIOUS
<1>5. h \in Known /\ h \in Nexthops
  BY <1>1 DEF HandleTimeoutBuffer, Waiting, TypeInv, KnownInv, TimerKnows, Known
<1>6. /\ bats.buf # NullPtr /\ bats.buf.tail > 0 /\ out[Pool] = <<>>
      /\ out' = [out EXCEPT ![Pool] = <<e>>] /\ hops' = [hops EXCEPT ![h] = ResetBuf(bats)]
      /\ taken' = taken /\ relayed' = relayed
  BY <1>1, <1>2, <1>3 DEF HandleTimeoutBuffer, Waiting, dispatching
<1>7. taken' = [taken EXCEPT ![h] = tk]
  BY <1>4, <1>5, <1>6 DEF TypeInv, TakenType
<1>8. GoodBats(bats) /\ bats # NullPtr
  BY <1>2, <1>5 DEF GoodInv, Known
<1>9. /\ Closed(h) = Complete(bats) /\ Open(h) = Held(bats) /\ Held(bats) = bats.buf.frames
      /\ bats \in BatsBuffers /\ bats.last > 0 /\ bats.last \in Nat /\ Holding(bats.buf)
  BY <1>2, <1>6, <1>8 DEF Closed, Open, Held, GoodBats, BatsBuffers
<1>10. Complete(bats) = bats.last - 1
  BY <1>9, SMTT(30) DEF Complete
<1> DEFINE m == bats.buf
           fs == m.frames
<1>11. /\ m \in Messages /\ m.frames \in Seq(Packets) /\ m.frames # <<>>
       /\ m.tail = m.curr + Bytes(m.frames) /\ m.curr = 0 /\ m.tail < BlockSize
  <2>1. /\ m \in Messages /\ m.frames \in Seq(Packets) /\ m.tail = Bytes(m.frames)
        /\ m.curr = 0 /\ m.tail <= Threshold /\ m.frames # <<>> /\ m.tail \in Nat
    BY <1>6, <1>9, SMTT(30) DEF Holding, Messages
  <2>2. Threshold < BlockSize
    <3>1. PICK p \in Packets : p = m.frames[1]
      BY <2>1, SMTT(30)
    <3>2. p.size \in Nat /\ Threshold + p.size < BlockSize
      BY PacketSizes
    <3> QED
      BY <3>2, Facts, SMTT(30)
  <2> QED
    BY <2>1, <2>2, Facts, SMTT(30)
<1>12. GoodSent(e) /\ e.hop = h /\ e.id = bats.last /\ e.msg.frames = fs
  BY <1>3, <1>5, <1>9, <1>11, SentGood
<1>13. <<e>> \in Seq(Sends) /\ Len(<<e>>) = 1 /\ DOMAIN <<e>> = {1} /\ <<e>>[1] = e
  BY <1>12, SMTT(30) DEF GoodSent
<1>14. /\ GoodBats(ResetBuf(bats)) /\ ResetBuf(bats).buf # NullPtr
       /\ ResetBuf(bats).last = bats.last + 1 /\ Held(ResetBuf(bats)) = <<>>
  BY <1>9, ResetGood
<1>15. ASSUME NEW g \in Seq(Seq(Packets)), taken[h] = Joined(g) \o Open(h)
       PROVE  tk = Joined(g \o FramesOf(<<e>>)) \o <<>>
  <2>1. FramesOf(<<e>>) = <<fs>>
    BY <1>12, <1>13, SMTT(30) DEF FramesOf
  <2>2. g \o <<fs>> = Append(g, fs)
    BY <1>11, SMTT(30)
  <2>3. Joined(Append(g, fs)) = Joined(g) \o fs /\ Joined(g) \in Seq(Packets)
    BY <1>11, JoinedPush
  <2>4. (Joined(g) \o fs) \o <<>> = Joined(g) \o fs
    BY <1>11, <2>3, SMTT(30)
  <2> QED
    BY <1>4, <1>9, <1>15, <2>1, <2>2, <2>3, <2>4
<1>16. Push(Pool, h, <<e>>, ResetBuf(bats), tk)
  <2>1. ResetBuf(bats).last = Closed(h) + 1 + 1 /\ e.id = Closed(h) + 1
    BY <1>9, <1>10, <1>12, <1>14, SMTT(30)
  <2> QED
    BY <1>5, <1>6, <1>7, <1>12, <1>13, <1>14, <1>15, <2>1 DEF Push
<1> QED
  BY <1>16

(***************************************************************************)
(* Dispatch moves a buffer from a thread's hands to the relayed ones.      *)
(***************************************************************************)
LEMMA WriteMoves ==
  ASSUME TypeInv, GoodInv, Unique, BookInv, NEW x \in Threads, DispatchWrite(x)
  PROVE  GoodInv' /\ Unique' /\ BookInv'
<1>1. /\ out[x] # <<>> /\ Head(out[x]) \in Sends /\ out' = [out EXCEPT ![x] = Tail(out[x])]
      /\ UNCHANGED <<hops, taken>>
  BY WriteEffect
<1>2. PICK v \in Vias : relayed' = relayed \cup {[Head(out[x]) EXCEPT !.via = v]}
  BY WriteEffect
<1>3. PICK d : d = [Head(out[x]) EXCEPT !.via = v]
  OBVIOUS
<1>4. /\ d \in Sends /\ d.hop = out[x][1].hop /\ d.id = out[x][1].id /\ d.msg = out[x][1].msg
      /\ d.coded = out[x][1].coded
  <2>1. out[x] \in Seq(Sends) /\ Head(out[x]) = out[x][1]
    BY <1>1, SMTT(30) DEF TypeInv, OutType
  <2>2. PICK e \in Sends : e = out[x][1]
    BY <1>1, <2>1
  <2>3. d = [e EXCEPT !.via = v]
    BY <1>3, <2>1, <2>2
  <2>4. d \in Sends /\ d.hop = e.hop /\ d.id = e.id /\ d.msg = e.msg /\ d.coded = e.coded
    BY <2>3 DEF Sends
  <2> QED
    BY <2>2, <2>4
<1>5. relayed' = relayed \cup {d}
  BY <1>2, <1>3
<1>6. /\ 1 \in DOMAIN out[x]
      /\ \A k \in DOMAIN out'[x] : k + 1 \in DOMAIN out[x] /\ out'[x][k] = out[x][k + 1] /\ k + 1 # 1
      /\ \A k \in DOMAIN out[x] : k # 1 => k - 1 \in DOMAIN out'[x] /\ out'[x][k - 1] = out[x][k]
      /\ \A k, l \in DOMAIN out'[x] : k + 1 = l + 1 => k = l
  <2>1. out[x] \in Seq(Sends) /\ out'[x] = Tail(out[x])
    BY <1>1 DEF TypeInv, OutType
  <2>2. PICK s \in Seq(Sends) : s = out[x]
    BY <2>1
  <2>3. PICK t \in Seq(Sends) : t = Tail(s)
    <3>1. \A q \in Seq(Sends) : q # <<>> => Tail(q) \in Seq(Sends)
      BY SMTT(30)
    <3>2. s # <<>>
      BY <1>1, <2>2
    <3> QED
      BY <3>1, <3>2
  <2>4. Len(s) \in Nat \ {0} /\ Len(t) = Len(s) - 1 /\ \A k \in 1 .. Len(t) : t[k] = s[k + 1]
    BY <1>1, <2>2, <2>3, SMTT(30)
  <2>5. DOMAIN s = 1 .. Len(s) /\ DOMAIN t = 1 .. Len(t)
    BY SMTT(30)
  <2>6. 1 \in DOMAIN s
    BY <2>4, <2>5, SMTT(30)
  <2>7. \A k \in DOMAIN t : k + 1 \in DOMAIN s /\ t[k] = s[k + 1] /\ k + 1 # 1
    BY <2>4, <2>5, SMTT(30)
  <2>8. ASSUME NEW k \in DOMAIN s, k # 1
        PROVE  k - 1 \in DOMAIN t /\ t[k - 1] = s[k]
    <3>1. k - 1 \in DOMAIN t /\ (k - 1) + 1 = k
      BY <2>4, <2>5, <2>8, SMTT(30)
    <3> QED
      BY <2>7, <3>1
  <2>9. \A k, l \in DOMAIN t : k + 1 = l + 1 => k = l
    BY <2>4, <2>5, SMTT(30)
  <2>10. out[x] = s /\ out'[x] = t
    BY <2>1, <2>2, <2>3
  <2> QED
    BY <2>6, <2>7, <2>8, <2>9, <2>10
<1>7. \A y \in Threads : y # x => out'[y] = out[y]
  BY <1>1 DEF TypeInv, OutType
<1>g. GoodInv'
  <2>1. GoodSent(d)
    <3>1. GoodSent(out[x][1])
      BY <1>6 DEF GoodInv
    <3> QED
      BY <1>4, <3>1 DEF GoodSent
  <2>2. ASSUME NEW y \in Threads, NEW k \in DOMAIN out'[y]
        PROVE  GoodSent(out'[y][k])
    <3>1. CASE y = x
      BY <1>6, <2>2, <3>1 DEF GoodInv
    <3>2. CASE y # x
      BY <1>7, <2>2, <3>2 DEF GoodInv
    <3> QED
      BY <3>1, <3>2
  <2>3. \A e \in relayed' : GoodSent(e)
    BY <1>5, <2>1 DEF GoodInv
  <2>4. \A h \in Known' : GoodBats(hops'[h])
    BY <1>1 DEF GoodInv, Known
  <2> QED
    BY <2>2, <2>3, <2>4 DEF GoodInv, GoodBats, GoodSent, Holding
\* The place in out of what is there afterwards.
<1> DEFINE At(y, k) == IF y = x THEN k + 1 ELSE k
<1>8. ASSUME NEW y \in Threads, NEW k \in DOMAIN out'[y]
      PROVE  /\ At(y, k) \in DOMAIN out[y] /\ out'[y][k] = out[y][At(y, k)]
             /\ ~(y = x /\ At(y, k) = 1)
  BY <1>6, <1>7, <1>8
<1>9. ASSUME NEW y \in Threads, NEW k \in DOMAIN out'[y], NEW l \in DOMAIN out'[y], At(y, k) = At(y, l)
      PROVE  k = l
  BY <1>6, <1>9
<1> HIDE DEF At
<1>s. \A a : Same(d, a) => Same(out[x][1], a)
  BY <1>4 DEF Same
<1>r. \A a : Same(a, d) => Same(a, out[x][1]) /\ Same(out[x][1], a)
  BY <1>4 DEF Same
<1>u. Unique'
  <2>1. ASSUME NEW y \in Threads, NEW z \in Threads, NEW k \in DOMAIN out'[y], NEW l \in DOMAIN out'[z],
               Same(out'[y][k], out'[z][l])
        PROVE  y = z /\ k = l
    <3>1. y = z /\ At(y, k) = At(z, l)
      BY <1>8, <2>1, SMTT(30) DEF Unique
    <3> QED
      BY <1>9, <2>1, <3>1
  <2>2. ASSUME NEW y \in Threads, NEW k \in DOMAIN out'[y], NEW e \in relayed', Same(out'[y][k], e)
        PROVE  FALSE
    <3>1. CASE e \in relayed
      BY <1>8, <2>2, <3>1, SMTT(30) DEF Unique
    <3>2. CASE e = d
      <4>1. Same(out[y][At(y, k)], out[x][1])
        BY <1>8, <1>r, <2>2, <3>2
      <4> QED
        BY <1>6, <1>8, <2>2, <4>1, SMTT(30) DEF Unique
    <3> QED
      BY <1>5, <3>1, <3>2
  <2>3. ASSUME NEW e \in relayed', NEW f \in relayed', Same(e, f)
        PROVE  e = f
    BY <1>5, <1>6, <1>r, <1>s, <2>3, SMTT(30) DEF Unique
  <2> QED
    BY <2>1, <2>2, <2>3, SMTT(30) DEF Unique, Same
<1>b. BookInv'
  <2> SUFFICES ASSUME NEW h \in Nexthops
               PROVE  \E g : Book(h, g)'
    BY DEF BookInv
  <2>1. PICK g : Book(h, g)
    BY DEF BookInv
  <2>2. Closed(h)' = Closed(h) /\ Open(h)' = Open(h) /\ taken'[h] = taken[h]
    BY <1>1 DEF Closed, Open
  <2>3. ASSUME NEW y \in Threads, NEW k \in DOMAIN out'[y]
        PROVE  InBook(out'[y][k], h, g)
    BY <1>8, <2>1, <2>3 DEF Book
  <2>4. ASSUME NEW e \in relayed'
        PROVE  InBook(e, h, g)
    <3>1. InBook(out[x][1], h, g)
      BY <1>6, <2>1 DEF Book
    <3>2. InBook(d, h, g)
      BY <1>4, <3>1 DEF InBook
    <3> QED
      BY <1>5, <2>1, <3>2 DEF Book
  <2>5. ASSUME NEW i \in 1 .. Len(g)
        PROVE  IsOut(h, i)' \/ IsRelayed(h, i)'
    <3>1. CASE IsRelayed(h, i)
      BY <1>5, <3>1 DEF IsRelayed
    <3>2. CASE IsOut(h, i)
      <4>0. PICK y \in Threads : \E k \in DOMAIN out[y] : out[y][k].hop = h /\ out[y][k].id = i
        BY <3>2 DEF IsOut
      <4>1. PICK k \in DOMAIN out[y] : out[y][k].hop = h /\ out[y][k].id = i
        BY <4>0
      <4>2. CASE y # x
        BY <1>7, <4>1, <4>2 DEF IsOut
      <4>3. CASE y = x /\ k # 1
        BY <1>6, <4>1, <4>3 DEF IsOut
      <4>4. CASE y = x /\ k = 1
        BY <1>4, <1>5, <4>1, <4>4 DEF IsRelayed
      <4> QED
        BY <4>2, <4>3, <4>4
    <3> QED
      BY <2>1, <3>1, <3>2 DEF Book
  <2>6. Book(h, g)'
    BY <2>1, <2>2, <2>3, <2>4, <2>5 DEF Book, InBook
  <2> QED
    BY <2>6
<1> QED
  BY <1>g, <1>u, <1>b

\* A new BatsBuffer holds nothing and has no complete buffers.
LEMMA NewKeeps ==
  ASSUME TypeInv, GoodInv, Unique, BookInv, NEW w \in Workers, GetBatsBuffer(w)
  PROVE  GoodInv' /\ Unique' /\ BookInv'
<1>1. PICK h : h = job[w].hop
  OBVIOUS
<1>2. h \in Nexthops
  BY <1>1 DEF GetBatsBuffer, TypeInv, JobType, Bound
<1>3. /\ hops[h] = NullPtr /\ hops' = [hops EXCEPT ![h] = NewBatsBuffer]
      /\ UNCHANGED <<taken, out, relayed>>
  BY <1>1 DEF GetBatsBuffer, dispatching
<1>4. /\ hops'[h] = NewBatsBuffer /\ \A k \in Nexthops : k # h => hops'[k] = hops[k]
  BY <1>2, <1>3 DEF TypeInv, HopsType
<1>5. /\ NewBatsBuffer # NullPtr /\ GoodBats(NewBatsBuffer)
      /\ Held(NewBatsBuffer) = <<>> /\ Complete(NewBatsBuffer) = 0
  BY BatsTypes, Facts DEF NewBatsBuffer, GoodBats, Held, Complete
<1>6. GoodInv'
  <2>1. \A k \in Known' : GoodBats(hops'[k])
    BY <1>4, <1>5 DEF GoodInv, Known
  <2> QED
    BY <1>3, <2>1 DEF GoodInv, GoodBats, GoodSent, Holding
<1>7. Unique'
  BY <1>3 DEF Unique
<1>8. ASSUME NEW k \in Nexthops, NEW g, Book(k, g)
      PROVE  Book(k, g)'
  <2>1. Closed(k)' = Closed(k) /\ Open(k)' = Open(k)
    <3>1. CASE k = h
      BY <1>3, <1>4, <1>5, <3>1 DEF Closed, Open, Held, Complete
    <3>2. CASE k # h
      BY <1>4, <3>2 DEF Closed, Open
    <3> QED
      BY <3>1, <3>2
  <2>2. \A i : IsOut(k, i)' = IsOut(k, i) /\ IsRelayed(k, i)' = IsRelayed(k, i)
    BY <1>3 DEF IsOut, IsRelayed
  <2> QED
    BY <1>3, <1>8, <2>1, <2>2 DEF Book, InBook
<1> QED
  BY <1>6, <1>7, <1>8 DEF BookInv

DataInv == TypeInv /\ GoodInv /\ Unique /\ BookInv

LEMMA DataInitial ==
  ASSUME Init
  PROVE  DataInv
<1>1. TypeInv
  BY TypeInitial
<1>2. /\ \A h \in Nexthops : hops[h] = NullPtr /\ taken[h] = <<>>
      /\ \A x \in Threads : out[x] = <<>>
      /\ relayed = {}
  BY DEF Init
<1>3. DOMAIN <<>> = {}
  BY SMTT(30)
<1>4. GoodInv /\ Unique
  BY <1>2, <1>3 DEF GoodInv, Unique, Known
<1>5. ASSUME NEW h \in Nexthops
      PROVE  Book(h, <<>>)
  <2>1. <<>> \in Seq(Seq(Packets)) /\ Len(<<>>) = 0 /\ <<>> \o <<>> = <<>> /\ 1 .. 0 = {}
    BY SMTT(30)
  <2>2. Closed(h) = 0 /\ Open(h) = <<>>
    BY <1>2 DEF Closed, Open
  <2>3. taken[h] = Joined(<<>>) \o Open(h)
    BY <1>2, <2>1, <2>2, JoinedEmpty
  <2>4. \A i \in 1 .. Len(<<>>) : IsOut(h, i) \/ IsRelayed(h, i)
    BY <2>1
  <2>5. \A x \in Threads : \A k \in DOMAIN out[x] : InBook(out[x][k], h, <<>>)
    BY <1>2, <1>3
  <2> QED
    BY <1>2, <2>1, <2>2, <2>3, <2>4, <2>5 DEF Book
<1> QED
  BY <1>1, <1>4, <1>5 DEF DataInv, BookInv

LEMMA DataInductive ==
  ASSUME Fits, DataInv, [Next]_vars
  PROVE  DataInv'
<1>0. TypeInv /\ GoodInv /\ Unique /\ BookInv
  BY DEF DataInv
<1>1. TypeInv' /\ Kinds
  BY <1>0, TypeInductive
<1>2. ASSUME NEW x \in Threads, \E h, q, b, tk : Push(x, h, q, b, tk)
      PROVE  GoodInv' /\ Unique' /\ BookInv'
  BY <1>0, <1>2, PushKeepsGood, PushKeepsUnique, PushKeepsBook
<1>3. ASSUME NEW w \in Workers, GatherStep(w)
      PROVE  GoodInv' /\ Unique' /\ BookInv'
  <2>1. w \in Threads
    BY DEF Threads
  <2> QED
    BY <1>0, <1>2, <1>3, <2>1, GatherPushes
<1>4. ASSUME HandleTimeoutBuffer
      PROVE  GoodInv' /\ Unique' /\ BookInv'
  <2>1. Pool \in Threads
    BY DEF Threads
  <2>2. \E h, q, b, tk : Push(Pool, h, q, b, tk)
    BY <1>0, <1>4, TimeoutPushes
  <2> QED
    BY <1>2, <2>1, <2>2
<1>5. ASSUME NEW x \in Threads, DispatchWrite(x)
      PROVE  GoodInv' /\ Unique' /\ BookInv'
  BY <1>0, <1>5, WriteMoves
<1>6. ASSUME NEW w \in Workers, GetBatsBuffer(w)
      PROVE  GoodInv' /\ Unique' /\ BookInv'
  BY <1>0, <1>6, NewKeeps
<1>7. ASSUME UNCHANGED <<hops, taken, out, relayed>>
      PROVE  GoodInv' /\ Unique' /\ BookInv'
  <2>1. GoodInv' /\ Unique'
    BY <1>0, <1>7 DEF GoodInv, Unique, Known
  <2>2. \A h : \A i : IsOut(h, i)' = IsOut(h, i) /\ IsRelayed(h, i)' = IsRelayed(h, i)
    BY <1>7 DEF IsOut, IsRelayed
  <2>3. \A h : Closed(h)' = Closed(h) /\ Open(h)' = Open(h)
    BY <1>7 DEF Closed, Open
  <2>4. \A h \in Nexthops : \A g : Book(h, g) => Book(h, g)'
    BY <1>7, <2>2, <2>3 DEF Book, InBook
  <2> QED
    BY <1>0, <2>1, <2>4 DEF BookInv
<1>8. ASSUME NEW w \in Workers, HandleMsg(w) \/ Leave(w)
      PROVE  UNCHANGED <<hops, taken, out, relayed>>
  BY <1>8 DEF HandleMsg, Leave, dispatching
<1>9. ASSUME NEW x \in Threads, DispatchEnter(x) \/ SortChannel(x)
      PROVE  UNCHANGED <<hops, taken, out, relayed>>
  BY <1>9 DEF DispatchEnter, SortChannel, buffers
<1>10. ASSUME UNCHANGED <<buffers, out, dispatching>>
       PROVE  UNCHANGED <<hops, taken, out, relayed>>
  BY <1>10 DEF buffers, dispatching
<1>11. GoodInv' /\ Unique' /\ BookInv'
  <2>1. ASSUME NEW w \in Workers, HandleMsg(w) \/ GetBatsBuffer(w) \/ GatherStep(w) \/ Leave(w)
        PROVE  GoodInv' /\ Unique' /\ BookInv'
    BY <1>3, <1>6, <1>7, <1>8, <2>1
  <2>2. ASSUME NEW x \in Threads, DispatchEnter(x) \/ SortChannel(x) \/ DispatchWrite(x)
        PROVE  GoodInv' /\ Unique' /\ BookInv'
    BY <1>5, <1>7, <1>9, <2>2
  <2>3. ASSUME UNCHANGED <<buffers, out, dispatching>>
        PROVE  GoodInv' /\ Unique' /\ BookInv'
    BY <1>7, <1>10, <2>3
  <2> QED
    BY <1>1, <1>4, <2>1, <2>2, <2>3 DEF Kinds
<1> QED
  BY <1>1, <1>11 DEF DataInv

\* From the book to the packets, read in the order of the buffers' ids.
LEMMA BookSerialises ==
  ASSUME DataInv
  PROVE  Serialised
<1> SUFFICES ASSUME NEW h \in Nexthops, hops[h] # NullPtr, NEW bs, bs = BuffersOf(h)
             PROVE  /\ {b.id : b \in bs} = 1 .. hops[h].last
                    /\ \A b, c \in bs : b.id = c.id => b = c
                    /\ taken[h] = Joined([i \in 1 .. hops[h].last |->
                                     (CHOOSE b \in bs : b.id = i).msg.frames])
  BY DEF Serialised
<1> DEFINE n == hops[h].last
           S == {b \in relayed \cup UNION {Range(out[x]) : x \in Threads} : b.hop = h}
<1>0. GoodBats(hops[h]) /\ Unique
  BY DEF DataInv, GoodInv, Known
<1>1. PICK g : Book(h, g)
  BY DEF DataInv, BookInv
<1>2. \A e \in S : e.hop = h /\ (e \in relayed \/ \E x \in Threads : \E k \in DOMAIN out[x] : e = out[x][k])
  BY DEF Range
<1>10. \A e \in relayed : e.hop = h => e \in S
  OBVIOUS
<1>11. \A x \in Threads : \A k \in DOMAIN out[x] : out[x][k].hop = h => out[x][k] \in S
  BY SMTT(30) DEF Range
<1> HIDE DEF S
<1>3. ASSUME NEW e \in S
      PROVE  e.id \in 1 .. Len(g) /\ e.msg.frames = g[e.id]
  <2>1. InBook(e, h, g)
    BY <1>1, <1>2 DEF Book
  <2> QED
    BY <1>2, <2>1 DEF InBook
<1>4. ASSUME NEW e \in S, NEW f \in S, e.id = f.id
      PROVE  e = f
  <2>1. Same(e, f) /\ Same(f, e)
    BY <1>2, <1>4 DEF Same
  <2>2. CASE e \in relayed /\ f \in relayed
    BY <1>0, <2>1, <2>2 DEF Unique
  <2>3. CASE e \notin relayed
    <3>1. PICK x \in Threads : \E k \in DOMAIN out[x] : e = out[x][k]
      BY <1>2, <2>3
    <3>2. PICK k \in DOMAIN out[x] : e = out[x][k]
      BY <3>1
    <3>3. CASE f \in relayed
      BY <1>0, <2>1, <3>2, <3>3 DEF Unique
    <3>4. CASE f \notin relayed
      <4>1. PICK y \in Threads : \E l \in DOMAIN out[y] : f = out[y][l]
        BY <1>2, <3>4
      <4>2. PICK l \in DOMAIN out[y] : f = out[y][l]
        BY <4>1
      <4> QED
        BY <1>0, <2>1, <3>2, <4>2 DEF Unique
    <3> QED
      BY <3>3, <3>4
  <2>4. CASE f \notin relayed /\ e \in relayed
    <3>1. PICK x \in Threads : \E k \in DOMAIN out[x] : f = out[x][k]
      BY <1>2, <2>4
    <3>2. PICK k \in DOMAIN out[x] : f = out[x][k]
      BY <3>1
    <3> QED
      BY <1>0, <2>1, <2>4, <3>2 DEF Unique
  <2> QED
    BY <2>2, <2>3, <2>4
<1>5. ASSUME NEW i \in 1 .. Len(g)
      PROVE  \E e \in S : e.id = i
  <2>1. CASE IsRelayed(h, i)
    BY <1>10, <2>1 DEF IsRelayed
  <2>2. CASE IsOut(h, i)
    BY <1>11, <2>2 DEF IsOut
  <2> QED
    BY <1>1, <2>1, <2>2 DEF Book
<1>6. g \in Seq(Seq(Packets)) /\ Len(g) = Complete(hops[h]) /\ taken[h] = Joined(g) \o Held(hops[h])
  BY <1>1 DEF Book, Closed, Open
<1>7. CASE hops[h].buf = NullPtr
  <2>1. n = 0 /\ Len(g) = 0 /\ g = <<>>
    BY <1>0, <1>6, <1>7, SMTT(30) DEF GoodBats, Complete
  <2>2. S = {}
    BY <1>3, <2>1, SMTT(30)
  <2>3. bs = {}
    BY <1>7, <2>2 DEF BuffersOf, S
  <2>4. [i \in 1 .. n |-> (CHOOSE b \in bs : b.id = i).msg.frames] = <<>>
    BY <2>1, SMTT(30)
  <2>5. taken[h] = <<>>
    BY <1>6, <1>7, <2>1, JoinedEmpty, SMTT(30) DEF Held
  <2> QED
    BY <2>1, <2>3, <2>4, <2>5, JoinedEmpty, SMTT(30)
<1>8. CASE hops[h].buf # NullPtr
  <2> DEFINE m == hops[h].buf
             c == [Sent(h, hops[h], m, TRUE) EXCEPT !.msg = m]
  <2>1. n \in Nat \ {0} /\ Len(g) = n - 1 /\ m.frames \in Seq(Packets) /\ Held(hops[h]) = m.frames
    <3>1. n \in Nat /\ n > 0 /\ Holding(m)
      BY <1>0, <1>8 DEF GoodBats, BatsBuffers
    <3>2. m.frames \in Seq(Packets) /\ Held(hops[h]) = m.frames
      BY <1>8, <3>1 DEF Holding, Held
    <3> QED
      BY <1>6, <3>1, <3>2, SMTT(30) DEF Complete
  <2>2. bs = S \cup {c}
    BY <1>8 DEF BuffersOf, S
  <2>3. c.id = n /\ c.msg = m
    BY DEF Sent
  <2> HIDE DEF c, n
  <2>4. ASSUME NEW b \in bs
        PROVE  b.id \in 1 .. n /\ b.msg.frames = IF b.id = n THEN m.frames ELSE g[b.id]
    <3>1. CASE b = c
      BY <2>1, <2>3, <3>1, SMTT(30)
    <3>2. CASE b \in S
      <4>1. b.id \in 1 .. n - 1 /\ b.msg.frames = g[b.id]
        BY <1>3, <2>1, <3>2
      <4> QED
        BY <2>1, <4>1, SMTT(30)
    <3> QED
      BY <2>2, <3>1, <3>2
  <2>5. ASSUME NEW i \in 1 .. n
        PROVE  \E b \in bs : b.id = i
    <3>1. CASE i = n
      BY <2>2, <2>3, <3>1
    <3>2. CASE i # n
      <4>1. i \in 1 .. Len(g)
        BY <2>1, <3>2, SMTT(30)
      <4> QED
        BY <1>5, <2>2, <4>1
    <3> QED
      BY <3>1, <3>2
  <2>6. ASSUME NEW a \in bs, NEW b \in bs, a.id = b.id
        PROVE  a = b
    <3>1. \A e \in S : e.id # n
      BY <1>3, <2>1, SMTT(30)
    <3> QED
      BY <1>4, <2>2, <2>3, <2>6, <3>1
  <2> HIDE DEF m
  <2> DEFINE f == [i \in 1 .. n |-> CHOOSE b \in bs : b.id = i]
  <2>7. \A i \in 1 .. n : f[i] \in bs /\ f[i].id = i /\ f[i] = CHOOSE b \in bs : b.id = i
    <3>1. \A i \in 1 .. n : f[i] = CHOOSE b \in bs : b.id = i
      OBVIOUS
    <3> QED
      BY <2>5, <3>1
  <2> HIDE DEF f
  <2>11. {b.id : b \in bs} = 1 .. n
    BY <2>4, <2>5, SMTT(30)
  <2> DEFINE q == [i \in 1 .. n |-> (CHOOSE b \in bs : b.id = i).msg.frames]
             a == Append(g, m.frames)
  <2>12. q = a
    <3>1. \A i \in 1 .. n : q[i] = f[i].msg.frames
      BY <2>7
    <3>2. \A i \in 1 .. n : f[i].msg.frames = IF i = n THEN m.frames ELSE g[i]
      BY <2>4, <2>7, SMTT(30)
    <3>3. a \in Seq(Seq(Packets)) /\ Len(a) = n /\ DOMAIN a = 1 .. n
          /\ \A i \in 1 .. n : a[i] = IF i = n THEN m.frames ELSE g[i]
      BY <1>6, <2>1, SMTT(30)
    <3>4. DOMAIN q = 1 .. n /\ a = [i \in 1 .. n |-> a[i]] /\ q = [i \in 1 .. n |-> q[i]]
      BY <3>3, SMTT(30)
    <3> HIDE DEF q, a
    <3>5. \A i \in 1 .. n : q[i] = a[i]
      BY <3>1, <3>2, <3>3
    <3> QED
      BY <3>4, <3>5
  <2>13. taken[h] = Joined(a)
    BY <1>6, <2>1, JoinedPush
  <2>14. taken[h] = Joined(q)
    BY <2>12, <2>13
  <2> QED
    BY <2>6, <2>11, <2>14 DEF n
<1> QED
  BY <1>7, <1>8

(***************************************************************************)
(* Serialised, for any workers, nexthops and packets that fit: the buffers *)
(* that BufferingData, ForceRelayData and HandleTimeoutBuffer send off for *)
(* a nexthop are numbered without gap or repetition, and hold what was     *)
(* taken in for it, once and in order.                                     *)
(***************************************************************************)
THEOREM BuffersSerialised ==
  ASSUME Fits
  PROVE  SafeSpec => []Serialised
<1>1. Init => DataInv
  BY DataInitial
<1>2. DataInv /\ [Next]_vars => DataInv'
  BY DataInductive
<1>3. DataInv => Serialised
  BY BookSerialises
<1> QED
  BY <1>1, <1>2, <1>3, PTL DEF SafeSpec

(***************************************************************************)
(* Trimmed, for packets that fit: what is relayed was resized to what it   *)
(* holds, is never empty, and is below the limit the encoder asserts; a    *)
(* raw packet is alone behind the header's room.                           *)
(***************************************************************************)
THEOREM BuffersTrimmed ==
  ASSUME Fits
  PROVE  SafeSpec => []Trimmed
<1>1. Init => DataInv
  BY DataInitial
<1>2. DataInv /\ [Next]_vars => DataInv'
  BY DataInductive
<1>3. DataInv => Trimmed
  BY DEF DataInv, GoodInv, GoodSent, Trimmed
<1> QED
  BY <1>1, <1>2, <1>3, PTL DEF SafeSpec

(***************************************************************************)
(* FramesRestored, for packets that fit: the loop of Tun::FDWrite on the   *)
(* far side takes every relayed buffer apart into the packets that were    *)
(* gathered in it, padded or not, but for a bare header at the very end.   *)
(***************************************************************************)
THEOREM FramesComeBack ==
  ASSUME Fits
  PROVE  SafeSpec => []FramesRestored
<1>1. Init => DataInv
  BY DataInitial
<1>2. DataInv /\ [Next]_vars => DataInv'
  BY DataInductive
<1>3. DataInv => FramesRestored
  <2> SUFFICES ASSUME DataInv, NEW b \in relayed, b.coded,
                      NEW pad \in {0, 1, MinIPHeader, 3 * MinIPHeader}
               PROVE  FDWrite(b.msg.frames, b.msg.size + pad) = Recoverable(b.msg.frames, pad)
    BY DEF FramesRestored
  <2>1. /\ b.msg.frames \in Seq(Packets) /\ b.msg.frames # <<>>
        /\ b.msg.size = 0 + Bytes(b.msg.frames)
    BY DEF DataInv, GoodInv, GoodSent
  <2>2. b.msg.frames \in Seq(Datagrams) /\ b.msg.frames \in Seq(Frames) /\ pad \in Nat
    BY <2>1, Facts, SMTT(30) DEF MinIPHeader
  <2>3. Bytes(b.msg.frames) \in Nat
    <3>1. b.msg.frames[1] \in Frames
      BY <2>1, <2>2, SMTT(30)
    <3> QED
      BY <2>2, <3>1, BytesPush
  <2>4. b.msg.size = Bytes(b.msg.frames)
    BY <2>1, <2>3, SMTT(30)
  <2> QED
    BY <2>1, <2>2, <2>4, DatagramsRestored
<1> QED
  BY <1>1, <1>2, <1>3, PTL DEF SafeSpec
=============================================================================
