------------------------------ MODULE Collector ------------------------------
(***************************************************************************)
(* The collector node of src/src/util/node_collector.h and .cc: workers    *)
(* gather packets into one buffer per nexthop and relay a buffer that is   *)
(* full enough; a timer per nexthop has the pool thread of the node's      *)
(* TimerManager relay what has waited too long.                            *)
(*                                                                         *)
(* The timer service is TimerManager itself: its timers are the nexthops,  *)
(* its clients the workers, and the handler of its pool thread is          *)
(* HandleTimeoutBuffer.  mutex_ of the collector is held across a step     *)
(* only by a worker inside AddTimer; the other critical sections are       *)
(* single steps.  Dispatch runs outside the lock, in any thread.           *)
(*                                                                         *)
(* RouteTable, FlowRecoder and BatsBuffer are not in the repository.  What *)
(* the flow recorder decides is left open; a BatsBuffer has no buffer at   *)
(* first, and ResetBuf gives it a new one with the next id.                *)
(***************************************************************************)
EXTENDS BaseMsg

CONSTANTS
    Workers,     \* the threads of the node
    Pool,        \* the pool thread of its TimerManager
    Arrivals,    \* what the Tun node reads, in order: [size, version, dst], all different
    Addresses,   \* the addresses a packet may be bound for
    Route,       \* [Addresses -> Nexthops or NullPtr]: RouteMatch
    NullPtr,     \* nullptr, the empty string
    Channels,    \* down_channels_, a sequence of names
    UdpChannels, \* those with ":UDP" in their names
    BlockSize, Threshold, Overhead,  \* max_block_size_, coding_threshold_, PROTOCOL_OVERHEAD
    Expire,      \* the timeout of a buffer (15 in the code)
    QueueSize, Wrap, MaxListed  \* as in TimerManager

Nexthops == {Route[a] : a \in Addresses} \ {NullPtr}
Threads == Workers \cup {Pool}

Frames == [size : Nat, version : Nat, dst : Addresses]
Messages == [size : Nat, capacity : Nat, curr : Nat, tail : Nat, frames : Seq(Frames)]
BatsBuffers == [buf : Messages \cup {NullPtr}, last : Nat]

ASSUME CollectorAssumption ==
    /\ Pool \notin Workers
    /\ Arrivals \in Seq(Frames)
    /\ BlockSize \in Nat /\ Threshold \in Nat /\ Overhead \in Nat
    /\ Channels \in Seq(Range(Channels))
    /\ NullPtr \notin Nat \cup Messages \cup BatsBuffers

\* The sizes the collector is made for, as the defaults of the settings and packets of
\* a usual length are: a packet more than the threshold does not fill a buffer.
Fits ==
    \A i \in DOMAIN Arrivals : /\ Threshold + Arrivals[i].size < BlockSize
                               /\ Overhead + Arrivals[i].size <= BlockSize

\* The order of connections that Dispatch needs, and that nothing enforces: an encoder
\* is connected before the UDP node is.
EncoderFirst ==
    /\ Channels # <<>> /\ Channels[1] \notin UdpChannels
    /\ \E i \in DOMAIN Channels : Channels[i] \in UdpChannels

VARIABLES
    tick, listed, start, oneshot, cancelled, refcnt, queue, broken, stop,
    tpc, unvisited, cur, wpc, wtimer, arg, spc, fired,
    hops,      \* bats_buffer_map_: [Nexthops]: NullPtr or a BatsBuffer
    pc,        \* [Workers]: "idle", "lock", "adding", "dispatch", "left"
    job,       \* [Workers]: the packet in hand, its nexthop and NeedCoded
    out,       \* [Threads]: the buffers a thread has yet to dispatch
    pos,       \* [Threads]: how many channels its initialising loop has seen, or NullPtr
    encode,    \* encode_channles_
    udp,       \* udp_channel_
    ready,     \* dispath_chn_init_
    isStop,    \* is_stop_, and that all channels are broken
    seen,      \* how many of the packets have come in
    taken,     \* history: [Nexthops]: the packets put into its buffers, in order
    relayed    \* history: the buffers relayed, and the channels they went to

timer == <<tick, listed, start, oneshot, cancelled, refcnt, queue, broken, stop,
           tpc, unvisited, cur, wpc, wtimer, arg, spc, fired>>
buffers == <<hops, pc, job, seen, taken>>
dispatching == <<pos, encode, udp, ready, relayed>>
vars == <<timer, buffers, out, dispatching, isStop>>

TM == INSTANCE TimerManager WITH
    Timers <- Nexthops, Expires <- [h \in Nexthops |-> Expire], Oneshots <- {},
    Callback <- [h \in Nexthops |-> "none"], Clients <- Workers, MaxCancels <- 0

NoJob == [pkt |-> NullPtr, hop |-> NullPtr, coded |-> FALSE]

Init ==
    /\ TM!Init
    /\ hops = [h \in Nexthops |-> NullPtr]
    /\ pc = [w \in Workers |-> "idle"]
    /\ job = [w \in Workers |-> NoJob]
    /\ out = [x \in Threads |-> <<>>]
    /\ pos = [x \in Threads |-> NullPtr]
    /\ encode = <<>>
    /\ udp = NullPtr
    /\ ready = FALSE
    /\ isStop = FALSE
    /\ seen = 0
    /\ taken = [h \in Nexthops |-> <<>>]
    /\ relayed = {}

-----------------------------------------------------------------------------
(***************************************************************************)
(* What each critical section does to a BatsBuffer: the BatsBuffer that    *)
(* stays, and the buffers to dispatch.                                     *)
(***************************************************************************)
NewBatsBuffer == [buf |-> NullPtr, last |-> 0]

ResetBuf(b) == [buf |-> NewMsg(BlockSize), last |-> b.last + 1]

\* buf as it is sent off: which of the nexthop's buffers it is, coded or not; via is
\* the channel it is written to, later.
Sent(h, b, buf, coded) ==
    [hop |-> h, msg |-> Resize(buf, buf.tail), id |-> b.last, coded |-> coded, via |-> NullPtr]

WithBuf(b) == IF b.buf = NullPtr THEN ResetBuf(b) ELSE b

\* ForceRelayData: what was gathered first, then the packet by itself.
ForceRelayData(h, bats, p) ==
    LET b     == WithBuf(bats)
        flush == b.buf.tail > 0
        fresh == IF flush THEN ResetBuf(b) ELSE b
        buf   == Fill(ReserveHeader(fresh.buf, Overhead), p)
    IN  [bats |-> ResetBuf(fresh),
         out  |-> (IF flush THEN <<Sent(h, b, b.buf, TRUE)>> ELSE <<>>)
                    \o <<Sent(h, fresh, buf, FALSE)>>]

\* Mutant: a buffer that was sent off is used again.
BufferingDataKeeping(h, bats, p) ==
    LET b      == WithBuf(bats)
        buf    == Fill(b.buf, p)
        enough == buf.tail > Threshold
    IN  [bats |-> [b EXCEPT !.buf = buf], out  |-> IF enough THEN <<Sent(h, b, buf, TRUE)>> ELSE <<>>]

(***************************************************************************)
(* BufferingData.  In the "buffer is full" case the old buffer, which is   *)
(* sent off anyway, is the one that is filled.                             *)
(***************************************************************************)
BufferingData(h, bats, p) ==
    LET b      == WithBuf(bats)
        full   == b.buf.tail + p.size > b.buf.size
        buf    == Fill(IF full THEN Resize(b.buf, b.buf.tail) ELSE b.buf, p)
        enough == buf.tail > Threshold
        next   == IF full THEN ResetBuf(b) ELSE [b EXCEPT !.buf = buf]
    IN  [bats |-> IF enough THEN ResetBuf(next) ELSE next,
         out  |-> (IF full THEN <<Sent(h, b, buf, TRUE)>> ELSE <<>>)
                    \o (IF enough THEN <<Sent(h, b, buf, TRUE)>> ELSE <<>>)]

-----------------------------------------------------------------------------
\* Tun::FDRecv passes on IPv4 packets only: the next one after the i-th arrival.
NextPacket(i) ==
    {j \in i + 1 .. Len(Arrivals) :
        IsIPv4(Arrivals[j]) /\ \A k \in i + 1 .. j - 1 : ~IsIPv4(Arrivals[k])}

MutexHeld == \E w \in Workers : pc[w] = "adding"

\* A worker's HandleMsg: route the packet, and let the flow recorder decide.
HandleMsg(w) ==
    /\ pc[w] = "idle" /\ ~isStop
    /\ seen' \in NextPacket(seen)
    /\ LET p == Arrivals[seen']
       IN  \E dst \in DstAddr(p, Addresses) :
              \/ Route[dst] = NullPtr /\ UNCHANGED <<pc, job>>
              \/ /\ Route[dst] # NullPtr
                 /\ \E coded \in BOOLEAN :
                       job' = [job EXCEPT ![w] = [pkt |-> p, hop |-> Route[dst], coded |-> coded]]
                 /\ pc' = [pc EXCEPT ![w] = "lock"]
    /\ UNCHANGED <<timer, hops, taken, out, dispatching, isStop>>

\* The critical section of BufferingData and ForceRelayData, on a BatsBuffer.
Gather(w, bats) ==
    LET h == job[w].hop
        p == job[w].pkt
        r == IF job[w].coded THEN BufferingData(h, bats, p) ELSE ForceRelayData(h, bats, p)
    IN  /\ hops' = [hops EXCEPT ![h] = r.bats]
        /\ out' = [out EXCEPT ![w] = r.out]
        /\ taken' = [taken EXCEPT ![h] = Append(@, p)]
        /\ pc' = [pc EXCEPT ![w] = IF r.out = <<>> THEN "idle" ELSE "dispatch"]
        /\ job' = [job EXCEPT ![w] = NoJob]

\* The nexthop has a BatsBuffer.
GatherKnown(w) ==
    /\ pc[w] = "lock"
    /\ ~MutexHeld
    /\ hops[job[w].hop] # NullPtr
    /\ Gather(w, hops[job[w].hop])
    /\ UNCHANGED <<timer, seen, dispatching, isStop>>

\* Mutant: no timer is registered for a new buffer.
GetBatsBufferUntimed(w) ==
    /\ pc[w] = "lock"
    /\ ~MutexHeld
    /\ hops[job[w].hop] = NullPtr
    /\ hops' = [hops EXCEPT ![job[w].hop] = NewBatsBuffer]
    /\ UNCHANGED <<timer, pc, job, seen, taken, out, dispatching, isStop>>

\* GetBatsBuffer makes one and calls AddTimer, with mutex_ held ...
GetBatsBuffer(w) ==
    /\ pc[w] = "lock"
    /\ ~MutexHeld
    /\ hops[job[w].hop] = NullPtr
    /\ hops' = [hops EXCEPT ![job[w].hop] = NewBatsBuffer]
    /\ TM!CallAdd(w, job[w].hop)
    /\ pc' = [pc EXCEPT ![w] = "adding"]
    /\ UNCHANGED <<job, seen, taken, out, dispatching, isStop>>

\* ... which waits for the timer manager's own mutex_.
GatherNew(w) ==
    /\ pc[w] = "adding"
    /\ TM!Add(w)
    /\ Gather(w, hops[job[w].hop])
    /\ UNCHANGED <<seen, dispatching, isStop>>

-----------------------------------------------------------------------------
\* The pool thread calls HandleTimeoutBuffer and needs mutex_.
Waiting == wpc = "handler" /\ out[Pool] = <<>>

\* Mutant: the buffer is sent at its full length.
HandleTimeoutBufferWhole ==
    LET b == hops[wtimer]
    IN  /\ Waiting /\ ~MutexHeld
        /\ b.buf # NullPtr /\ b.buf.tail > 0
        /\ out' = [out EXCEPT ![Pool] = <<[Sent(wtimer, b, b.buf, TRUE) EXCEPT !.msg = b.buf]>>]
        /\ hops' = [hops EXCEPT ![wtimer] = ResetBuf(b)]
        /\ UNCHANGED <<timer, pc, job, seen, taken, dispatching, isStop>>

\* A buffer with something in it is sent off at the length it is filled to.
HandleTimeoutBuffer ==
    LET b == hops[wtimer]
    IN  /\ Waiting /\ ~MutexHeld
        /\ b.buf # NullPtr /\ b.buf.tail > 0
        /\ out' = [out EXCEPT ![Pool] = <<Sent(wtimer, b, b.buf, TRUE)>>]
        /\ hops' = [hops EXCEPT ![wtimer] = ResetBuf(b)]
        /\ UNCHANGED <<timer, pc, job, seen, taken, dispatching, isStop>>

\* The handler returns: nothing to relay.
HandlerIdle ==
    LET b == hops[wtimer]
    IN  /\ Waiting /\ ~MutexHeld
        /\ ~(b.buf # NullPtr /\ b.buf.tail > 0)
        /\ TM!Handler
        /\ UNCHANGED <<buffers, out, dispatching, isStop>>

-----------------------------------------------------------------------------
(***************************************************************************)
(* Dispatch, by a worker or by the pool thread.  The first calls sort the  *)
(* channels; the vector and the flag have no lock, and of two push_backs   *)
(* at the same time one may be lost.                                       *)
(***************************************************************************)
\* Mutant: the flag is set when the sorting begins.
DispatchEnterFlagging(x) ==
    /\ out[x] # <<>> /\ pos[x] = NullPtr
    /\ ~ready /\ Channels # <<>>
    /\ pos' = [pos EXCEPT ![x] = 0]
    /\ ready' = TRUE
    /\ UNCHANGED <<timer, buffers, out, encode, udp, relayed, isStop>>

DispatchEnter(x) ==
    /\ out[x] # <<>> /\ pos[x] = NullPtr
    /\ ~ready /\ Channels # <<>>
    /\ pos' = [pos EXCEPT ![x] = 0]
    /\ UNCHANGED <<timer, buffers, out, encode, udp, ready, relayed, isStop>>

SortChannel(x) ==
    /\ pos[x] # NullPtr
    /\ pos[x] < Len(Channels)
    /\ LET c == Channels[pos[x] + 1]
       IN  IF c \in UdpChannels
           THEN udp' = c /\ ready' = TRUE /\ UNCHANGED encode
           ELSE /\ \/ encode' = Append(encode, c)
                   \/ /\ \E y \in Threads \ {x} : pos[y] # NullPtr
                      /\ encode # <<>>
                      /\ encode' = [encode EXCEPT ![Len(encode)] = c]
                /\ UNCHANGED <<udp, ready>>
    /\ pos' = [pos EXCEPT ![x] = @ + 1]
    /\ UNCHANGED <<timer, buffers, out, relayed, isStop>>

\* The channel a buffer goes to.  There is none, and the process dies of it, while
\* the UDP node (a null pointer) or the encoders (id % 0) are not sorted.
Target(b) ==
    IF ~b.coded THEN udp
    ELSE IF encode # <<>> THEN encode[1 + (b.id % Len(encode))] ELSE NullPtr

\* What becomes of it: broken channels, or none at all, drop it.
Via(b) == IF Channels = <<>> \/ (isStop /\ Target(b) # NullPtr) THEN "dropped" ELSE Target(b)

\* The call returns to its loop over the buffers, or out of the handler.
Dispatched(x) ==
    /\ out' = [out EXCEPT ![x] = Tail(@)]
    /\ pos' = [pos EXCEPT ![x] = NullPtr]
    /\ IF x = Pool
       THEN TM!Handler /\ UNCHANGED pc
       ELSE /\ pc' = [pc EXCEPT ![x] = IF Len(out[x]) = 1 THEN "idle" ELSE @]
            /\ UNCHANGED timer
    /\ UNCHANGED <<hops, job, seen, taken, encode, udp, ready, isStop>>

\* The threads that have their channels sorted, or find none.
Sorted ==
    {x \in Threads : IF pos[x] = NullPtr THEN ready \/ Channels = <<>> ELSE pos[x] = Len(Channels)}

(***************************************************************************)
(* WriteMessage.  It waits as long as the channel is full, which is as     *)
(* long as the service downstream likes: the step may come late.           *)
(***************************************************************************)
DispatchWrite(x) ==
    /\ out[x] # <<>>
    /\ x \in Sorted
    /\ LET b == Head(out[x]) IN relayed' = relayed \cup {[b EXCEPT !.via = Via(b)]}
    /\ Dispatched(x)

-----------------------------------------------------------------------------
\* Node::Stop: the flag, and the channels are broken.
Stop ==
    /\ ~isStop
    /\ isStop' = TRUE
    /\ UNCHANGED <<timer, buffers, out, pos, encode, udp, ready, relayed>>

Leave(w) ==
    /\ pc[w] = "idle" /\ isStop
    /\ pc' = [pc EXCEPT ![w] = "left"]
    /\ UNCHANGED <<timer, hops, job, seen, taken, out, dispatching, isStop>>

DispatchStep(x) == DispatchEnter(x) \/ SortChannel(x) \/ DispatchWrite(x)

WorkerStep(w) ==
    GatherKnown(w) \/ GetBatsBuffer(w) \/ GatherNew(w) \/ DispatchStep(w) \/ Leave(w)

\* The threads of the timer service, with the collector's handler ...
TickStep == TM!TickStep /\ UNCHANGED <<buffers, out, dispatching, isStop>>

PoolStep ==
    \/ /\ TM!WorkTest \/ TM!WorkDequeue
       /\ UNCHANGED <<buffers, out, dispatching, isStop>>
    \/ HandleTimeoutBuffer \/ HandlerIdle \/ DispatchStep(Pool)

\* ... and ~Collector, which stops the service once the workers are gone.
StopStep ==
    /\ \A w \in Workers : pc[w] = "left"
    /\ TM!StopFlag \/ TM!StopBreak \/ TM!StopJoin
    /\ UNCHANGED <<buffers, out, dispatching, isStop>>

Next ==
    \/ \E w \in Workers : HandleMsg(w) \/ WorkerStep(w)
    \/ TickStep \/ PoolStep
    \/ Stop \/ StopStep

SafeSpec == Init /\ [][Next]_vars

(***************************************************************************)
(* Every thread runs whenever it can, and the services downstream go on    *)
(* reading, so that a write ends.  A worker in AddTimer gets the timer     *)
(* manager's mutex_ if it is free again and again: the tick thread sleeps  *)
(* 5ms without it each round.                                              *)
(***************************************************************************)
Fairness ==
    /\ \A w \in Workers : WF_vars(WorkerStep(w)) /\ SF_vars(GatherNew(w))
    /\ WF_vars(PoolStep) /\ WF_vars(TickStep) /\ WF_vars(StopStep)

Spec == SafeSpec /\ Fairness

-----------------------------------------------------------------------------
\* All buffers of nexthop h that hold something, wherever they are.
BuffersOf(h) ==
    {b \in relayed \cup UNION {Range(out[x]) : x \in Threads} : b.hop = h}
      \cup (IF hops[h] = NullPtr \/ hops[h].buf = NullPtr THEN {}
            ELSE {[Sent(h, hops[h], hops[h].buf, TRUE) EXCEPT !.msg = hops[h].buf]})

(***************************************************************************)
(* "Make the buffer, which will be sent to encoder, serialized with proper *)
(* SEQ": whoever sends them, and in whatever order they leave, the buffers *)
(* of a nexthop have ids of their own, and read in the order of their ids  *)
(* they hold every packet taken in for it, once and in order.              *)
(***************************************************************************)
Serialised ==
    \A h \in Nexthops : hops[h] # NullPtr =>
        LET bs == BuffersOf(h)
        IN  /\ {b.id : b \in bs} = 1 .. hops[h].last
            /\ \A b, c \in bs : b.id = c.id => b = c
            /\ taken[h] = Joined([i \in 1 .. hops[h].last |->
                                    (CHOOSE b \in bs : b.id = i).msg.frames])

(***************************************************************************)
(* Buffers leave cut to what they hold, never empty and below the limit of *)
(* the encoder's assertion (node_encoder.h:48); a raw packet is alone,     *)
(* behind exactly the room the header needs.                               *)
(***************************************************************************)
Trimmed ==
    \A b \in relayed :
        /\ b.msg.frames # <<>>
        /\ b.msg.size = b.msg.curr + Bytes(b.msg.frames)
        /\ b.msg.curr = IF b.coded THEN 0 ELSE Overhead
        /\ IF b.coded THEN b.msg.size < BlockSize ELSE Len(b.msg.frames) = 1

(***************************************************************************)
(* "dispatch msg according to its type": although Dispatch sorts the       *)
(* channels without a lock, a buffer to be coded finds an encoder and a    *)
(* raw one finds the UDP node.  It depends on the order of connections:    *)
(* a thread that meets the UDP node first sets the flag, and another one   *)
(* that sees it divides by the number of encoders, which is still zero.    *)
(***************************************************************************)
RightChannel ==
    \A b \in relayed : b.via # "dropped" =>
        b.via \in Range(Channels) /\ (b.coded <=> b.via \notin UdpChannels)

(***************************************************************************)
(* Packets travel to the nexthop of the address in their header: what the  *)
(* decoder could not read is not let in (HandleMsg would route it by an    *)
(* address that was never set).                                            *)
(***************************************************************************)
RoutedHome ==
    \A h \in Nexthops : \A i \in DOMAIN taken[h] : Route[taken[h][i].dst] = h

\* The frames, but for a bare header that ends several and has no padding behind it.
Recoverable(frames, pad) ==
    IF pad = 0 /\ Len(frames) > 1 /\ frames[Len(frames)].size = MinIPHeader
    THEN SubSeq(frames, 1, Len(frames) - 1) ELSE frames

(***************************************************************************)
(* Tun::FDWrite on the far side finds the frames of a coded buffer again,  *)
(* with or without the decoder's padding: all of them, but for a packet of *)
(* a bare header at the very end of a buffer of several.                   *)
(***************************************************************************)
FramesRestored ==
    \A b \in relayed : b.coded =>
        \A pad \in {0, 1, MinIPHeader, 3 * MinIPHeader} :
           FDWrite(b.msg.frames, b.msg.size + pad) = Recoverable(b.msg.frames, pad)

(***************************************************************************)
(* A worker inside AddTimer holds mutex_ and waits for the timer manager's *)
(* mutex_; the tick thread holds that one and waits for room in the queue; *)
(* the pool thread, which would make room, waits for the worker's.         *)
(***************************************************************************)
Gridlock ==
    /\ MutexHeld
    /\ tpc = "enqueue" /\ Len(queue) = QueueSize /\ ~broken
    /\ Waiting

\* The packets taken in and not relayed yet.
Backlog ==
    UNION {Range(taken[h]) : h \in Nexthops} \ UNION {Range(b.msg.frames) : b \in relayed}

(***************************************************************************)
(* "Accumulate enough bytes or counting the timeout for the buffer before  *)
(* encoding": every packet that is taken in is relayed, unless the node is *)
(* stopped; with finitely many, there are times when none is left behind.  *)
(***************************************************************************)
EventuallyRelayed == []<>(Backlog = {} \/ isStop)

(***************************************************************************)
(* The gridlock is the only thing that can keep a packet in its buffer, and*)
(* the only thing that can keep the node and its timer service from ending *)
(* after Stop.                                                             *)
(***************************************************************************)
HeldUpOnlyByGridlock == []<>(Backlog = {} \/ isStop \/ Gridlock)

ReleasedUnlessGridlock == []<>(~isStop \/ spc = "returned" \/ Gridlock)
=============================================================================
