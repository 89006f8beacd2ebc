------------------------------ MODULE Services ------------------------------
(***************************************************************************)
(* A running topology: the nodes of src/src/util/node.h and node_duplex.h, *)
(* the channels between them (channel.h) and NodeManager's Shutdown        *)
(* (node_manager.h).  The channels behave as BoundedFifo, which Queue is   *)
(* shown to implement: a call made before the channel is broken may still  *)
(* succeed afterwards, a call made later fails at once.                    *)
(*                                                                         *)
(* The threads are                                                         *)
(*   - the workers that NodeManager::RunAsThreads started, which run       *)
(*     Node::DoWork;                                                       *)
(*   - the feeders, which bring messages in: the poller thread that calls  *)
(*     FDRecv on the duplex nodes, an application thread that calls        *)
(*     Dispatch on a source node;                                          *)
(*   - the closers, which call NodeManager::Shutdown.                      *)
(* RunAsThreads and Connect themselves are the subject of Topology.        *)
(***************************************************************************)
EXTENDS Naturals, Sequences, FiniteSets

CONSTANTS
    Nodes,       \* the nodes
    Kind,        \* [Nodes -> {"relay", "duplex", "sink", "source"}]
    In, Out,     \* [Nodes -> sequence of channels]: CHN_IN and CHN_OUT
    NumThreads,  \* [Nodes -> Nat]: RunAsThreads' num, 0 if never run
    Feeders,     \* threads that bring messages in
    Feeds,       \* [Feeders -> SUBSET Nodes]: the nodes they do it for
    Closers,     \* threads that call Shutdown
    Msgs,        \* the messages
    Origin,      \* [Msgs -> Nodes]: the node a message enters by
    Id,          \* [Msgs -> Nat]: msg->id()
    Signals,     \* SUBSET Msgs: the stop signals
    NoMsg,       \* nullptr
    Capacity     \* the capacity of every channel (100 in channel.h)

SeqRange(s) == {s[i] : i \in DOMAIN s}

Chns == UNION {SeqRange(In[n]) \cup SeqRange(Out[n]) : n \in Nodes}

Workers == {w \in Nodes \X (1 .. 9) : w[2] <= NumThreads[w[1]]}

Threads == Workers \cup Feeders

\* node_list_: the nodes that RunAsThreads accepted.
Running == {n \in Nodes : NumThreads[n] > 0}

ASSUME ServicesAssumption ==
    /\ Capacity \in Nat \ {0}
    /\ NoMsg \notin Msgs
    /\ Signals \subseteq Msgs
    /\ \A m \in Msgs : Id[m] \in Nat
    /\ Kind \in [Nodes -> {"relay", "duplex", "sink", "source"}]
    \* Connect refuses a source as the downstream node and a sink as the upstream.
    /\ \A n \in Nodes : /\ Kind[n] = "source" => In[n] = <<>>
                        /\ Kind[n] = "sink" => Out[n] = <<>>
    /\ \A n \in Nodes : NumThreads[n] \in 0 .. 9
    /\ \A n \in Nodes : In[n] \in Seq(Chns) /\ Out[n] \in Seq(Chns)
    /\ \A n \in Running : In[n] # <<>>
    /\ Workers \cap Feeders = {}

VARIABLES
    isStop,     \* is_stop_ of each node
    workerCnt,  \* worker_cnt_ of each node
    chn,        \* the queue of each channel
    broken,     \* break_all_wait_ of each channel
    pc,         \* where each worker and feeder is
    chnOf,      \* the channel each worker reads (DoWork's `channel`)
    node,       \* the node each thread works for
    msg,        \* the message each thread holds
    target,     \* the channel each thread writes to
    stopFlag,   \* NodeManager::stop_
    cpc,        \* where each closer is
    toStop,     \* nodes Shutdown has still to stop
    toBreak,    \* channels Stop has still to break
    fed,        \* history: the messages brought in, in order
    delivered,  \* history: what each node wrote to its fd or consumed
    dropped     \* history: messages WriteMessage failed for, silently

threadVars == <<pc, chnOf, node, msg, target>>
closerVars == <<stopFlag, cpc, toStop, toBreak>>
vars == <<isStop, workerCnt, chn, broken, threadVars, closerVars,
          fed, delivered, dropped>>

AnyChn == CHOOSE c \in Chns : TRUE
AnyNode == CHOOSE n \in Nodes : TRUE

(***************************************************************************)
(* RunAsThreads has made the workers. is_stop_ is false: every node class  *)
(* clears it when it is made; the base class starts with true.             *)
(***************************************************************************)
Init ==
    /\ isStop = [n \in Nodes |-> FALSE]
    /\ workerCnt = [n \in Nodes |-> 0]
    /\ chn = [c \in Chns |-> <<>>]
    /\ broken = [c \in Chns |-> FALSE]
    /\ pc = [t \in Threads |-> IF t \in Workers THEN "start" ELSE "out"]
    /\ chnOf = [w \in Workers |-> AnyChn]
    /\ node = [t \in Threads |-> IF t \in Workers THEN t[1] ELSE AnyNode]
    /\ msg = [t \in Threads |-> NoMsg]
    /\ target = [t \in Threads |-> AnyChn]
    /\ stopFlag = FALSE
    /\ cpc = [k \in Closers |-> "out"]
    /\ toStop = {}
    /\ toBreak = <<>>
    /\ fed = <<>>
    /\ delivered = [n \in Nodes |-> <<>>]
    /\ dropped = {}

-----------------------------------------------------------------------------
(***************************************************************************)
(* DoWork: IncThreads hands the IN channels out in turn.                   *)
(***************************************************************************)
\* Mutant: the worker count is not used.
ChannelIndexFirst(n) == 1

ChannelIndex(n) == (workerCnt[n] % Len(In[n])) + 1

Start(w) ==
    /\ pc[w] = "start"
    /\ chnOf' = [chnOf EXCEPT ![w] = In[node[w]][ChannelIndex(node[w])]]
    /\ workerCnt' = [workerCnt EXCEPT ![node[w]] = @ + 1]
    /\ pc' = [pc EXCEPT ![w] = "loop"]
    /\ UNCHANGED <<isStop, chn, broken, node, msg, target, closerVars,
                   fed, delivered, dropped>>

(***************************************************************************)
(* while (!is_stop_) handler(channel): leave, or call ReadMessage, which   *)
(* returns no message at once if the channel is broken.                    *)
(***************************************************************************)
LeavesLoop(w) == isStop[node[w]]

Loop(w) ==
    /\ pc[w] = "loop"
    /\ pc' = [pc EXCEPT ![w] = IF LeavesLoop(w) THEN "done"
                               ELSE IF broken[chnOf[w]] THEN "loop"
                               ELSE "reading"]
    /\ UNCHANGED <<isStop, workerCnt, chn, broken, chnOf, node, msg, target,
                   closerVars, fed, delivered, dropped>>

Read(w) ==
    /\ pc[w] = "reading"
    /\ \/ /\ chn[chnOf[w]] # <<>>
          /\ msg' = [msg EXCEPT ![w] = Head(chn[chnOf[w]])]
          /\ chn' = [chn EXCEPT ![chnOf[w]] = Tail(@)]
          /\ pc' = [pc EXCEPT ![w] = "handle"]
       \/ /\ broken[chnOf[w]]
          /\ pc' = [pc EXCEPT ![w] = "loop"]
          /\ UNCHANGED <<chn, msg>>
    /\ UNCHANGED <<isStop, workerCnt, broken, chnOf, node, target,
                   closerVars, fed, delivered, dropped>>

\* Where a thread goes when it has dealt with its message.
Home(t) == IF t \in Workers THEN "loop" ELSE "out"

(***************************************************************************)
(* Dispatch: WriteMessage to the OUT channel chosen by the message's id,   *)
(* to none if there is none.  On a broken channel WaitEnqueue returns      *)
(* false at once and WriteMessage ignores it.                              *)
(***************************************************************************)
DispatchChannel(n, m) == Out[n][(Id[m] % Len(Out[n])) + 1]

Dispatch(t, n, m) ==
    \/ /\ Out[n] # <<>> => broken[DispatchChannel(n, m)]
       /\ dropped' = dropped \cup {m}
       /\ pc' = [pc EXCEPT ![t] = Home(t)]
       /\ msg' = [msg EXCEPT ![t] = NoMsg]
       /\ UNCHANGED target
    \/ /\ Out[n] # <<>> /\ ~broken[DispatchChannel(n, m)]
       /\ target' = [target EXCEPT ![t] = DispatchChannel(n, m)]
       /\ pc' = [pc EXCEPT ![t] = "writing"]
       /\ msg' = [msg EXCEPT ![t] = m]
       /\ UNCHANGED dropped

\* Mutant: WaitEnqueue gives up on a full queue.
WriteFailsFull(t) == broken[target[t]] \/ Len(chn[target[t]]) >= Capacity

WriteFails(t) == broken[target[t]]

HasRoom(c) == Len(chn[c]) < Capacity

\* WaitEnqueue, called before the channel was broken.
Write(t) ==
    /\ pc[t] = "writing"
    /\ \/ /\ HasRoom(target[t])
          /\ chn' = [chn EXCEPT ![target[t]] = Append(@, msg[t])]
          /\ UNCHANGED dropped
       \/ /\ WriteFails(t)
          /\ dropped' = dropped \cup {msg[t]}
          /\ UNCHANGED chn
    /\ pc' = [pc EXCEPT ![t] = Home(t)]
    /\ msg' = [msg EXCEPT ![t] = NoMsg]
    /\ UNCHANGED <<isStop, workerCnt, broken, chnOf, node, target,
                   closerVars, fed, delivered>>

\* FDWrite: the message goes to the fd; DoWork does not look at the result.
FDWrite(n, m) == [delivered EXCEPT ![n] = Append(@, m)]

\* HandleWritting: a duplex node writes to its fd whatever it reads.
HandleWritting(w) ==
    /\ pc[w] = "handle"
    /\ Kind[node[w]] = "duplex"
    /\ delivered' = FDWrite(node[w], msg[w])
    /\ msg' = [msg EXCEPT ![w] = NoMsg]
    /\ pc' = [pc EXCEPT ![w] = "loop"]
    /\ UNCHANGED <<isStop, workerCnt, chn, broken, chnOf, node, target,
                   closerVars, fed, dropped>>

(***************************************************************************)
(* HandlerRelaying: a stop signal stops the node and is passed on; other   *)
(* messages go to HandleMsg, which a relay node implements by Dispatch (as *)
(* Encoder does for what it encodes) and a sink by consuming them.         *)
(***************************************************************************)
\* Mutant: the signal stops the node but is not passed on.
HandleSignalKeepingIt(w) ==
    /\ pc[w] = "handle"
    /\ Kind[node[w]] # "duplex"
    /\ msg[w] \in Signals
    /\ isStop' = [isStop EXCEPT ![node[w]] = TRUE]
    /\ dropped' = dropped \cup {msg[w]}
    /\ msg' = [msg EXCEPT ![w] = NoMsg]
    /\ pc' = [pc EXCEPT ![w] = "loop"]
    /\ UNCHANGED <<workerCnt, chn, broken, chnOf, node, target, closerVars, fed, delivered>>

\* Mutant: the node calls Stop on itself instead of setting is_stop_.
HandleSignalStopping(w) ==
    /\ pc[w] = "handle"
    /\ Kind[node[w]] # "duplex"
    /\ msg[w] \in Signals
    /\ isStop' = [isStop EXCEPT ![node[w]] = TRUE]
    /\ broken' = [c \in Chns |-> broken[c] \/ c \in SeqRange(In[node[w]] \o Out[node[w]])]
    /\ dropped' = dropped \cup {msg[w]}
    /\ msg' = [msg EXCEPT ![w] = NoMsg]
    /\ pc' = [pc EXCEPT ![w] = "loop"]
    /\ UNCHANGED <<workerCnt, chn, chnOf, node, target, closerVars, fed, delivered>>

HandleSignal(w) ==
    /\ pc[w] = "handle"
    /\ Kind[node[w]] # "duplex"
    /\ msg[w] \in Signals
    /\ isStop' = [isStop EXCEPT ![node[w]] = TRUE]
    /\ Dispatch(w, node[w], msg[w])
    /\ UNCHANGED <<workerCnt, chn, broken, chnOf, node, closerVars, fed, delivered>>

HandleMsg(w) ==
    /\ pc[w] = "handle"
    /\ msg[w] \notin Signals
    /\ Kind[node[w]] # "duplex"
    /\ IF Kind[node[w]] = "sink"
       THEN /\ delivered' = [delivered EXCEPT ![node[w]] = Append(@, msg[w])]
            /\ msg' = [msg EXCEPT ![w] = NoMsg]
            /\ pc' = [pc EXCEPT ![w] = "loop"]
            /\ UNCHANGED <<target, dropped>>
       ELSE /\ Dispatch(w, node[w], msg[w])
            /\ UNCHANGED delivered
    /\ UNCHANGED <<isStop, workerCnt, chn, broken, chnOf, node, closerVars, fed>>

(***************************************************************************)
(* FDRecv on a duplex node (Tun, Udp), called by the poller, or the        *)
(* application's Dispatch on a source node.  What Tun drops because it is  *)
(* no IPv4 packet counts as never received.                                *)
(***************************************************************************)
FDRecv(f, n, m) ==
    /\ pc[f] = "out"
    /\ n \in Feeds[f]
    /\ Origin[m] = n
    /\ m \notin SeqRange(fed)
    /\ fed' = Append(fed, m)
    /\ node' = [node EXCEPT ![f] = n]
    /\ Dispatch(f, n, m)
    /\ UNCHANGED <<isStop, workerCnt, chn, broken, chnOf, closerVars, delivered>>

-----------------------------------------------------------------------------
(***************************************************************************)
(* NodeManager::Shutdown.  Only the caller that finds stop_ unset goes on; *)
(* any other returns at once.                                              *)
(***************************************************************************)
\* Mutant: stop_ is set but not tested.
ShutdownUnguarded(k) ==
    /\ cpc[k] = "out"
    /\ stopFlag' = TRUE
    /\ cpc' = [cpc EXCEPT ![k] = "stopping"]
    /\ toStop' = Running
    /\ UNCHANGED <<isStop, workerCnt, chn, broken, threadVars, toBreak,
                   fed, delivered, dropped>>

Shutdown(k) ==
    /\ cpc[k] = "out"
    /\ stopFlag' = TRUE
    /\ \/ /\ stopFlag
          /\ cpc' = [cpc EXCEPT ![k] = "returned"]
          /\ UNCHANGED toStop
       \/ /\ ~stopFlag
          /\ cpc' = [cpc EXCEPT ![k] = "stopping"]
          /\ toStop' = Running
    /\ UNCHANGED <<isStop, workerCnt, chn, broken, threadVars, toBreak,
                   fed, delivered, dropped>>

\* The switch over the node's type: only these get a Stop.
Stoppable == {"relay", "duplex"}

\* up_channels_, then down_channels_; a duplex node's OUT channels are up.
ChannelsOf(n) == IF Kind[n] = "duplex" THEN Out[n] \o In[n] ELSE In[n] \o Out[n]

\* Mutant: Stop sets the flag and leaves the channels alone.
StopNodeFlagOnly(k, n) ==
    /\ cpc[k] = "stopping"
    /\ n \in toStop
    /\ toBreak = <<>>
    /\ toStop' = toStop \ {n}
    /\ isStop' = [isStop EXCEPT ![n] = TRUE]
    /\ UNCHANGED <<workerCnt, chn, broken, threadVars, stopFlag, cpc, toBreak,
                   fed, delivered, dropped>>

\* Stop: is_stop_ first, then the channels, one after the other.
StopNode(k, n) ==
    /\ cpc[k] = "stopping"
    /\ n \in toStop
    /\ toBreak = <<>>
    /\ toStop' = toStop \ {n}
    /\ isStop' = [isStop EXCEPT ![n] = @ \/ Kind[n] \in Stoppable]
    /\ toBreak' = IF Kind[n] \in Stoppable THEN ChannelsOf(n) ELSE <<>>
    /\ UNCHANGED <<workerCnt, chn, broken, threadVars, stopFlag, cpc,
                   fed, delivered, dropped>>

BreakAllWait(k) ==
    /\ cpc[k] = "stopping"
    /\ toBreak # <<>>
    /\ broken' = [broken EXCEPT ![Head(toBreak)] = TRUE]
    /\ toBreak' = Tail(toBreak)
    /\ UNCHANGED <<isStop, workerCnt, chn, threadVars, stopFlag, cpc, toStop,
                   fed, delivered, dropped>>

\* The join of every worker, then the lists are released.
Join(k) ==
    /\ cpc[k] = "stopping"
    /\ toStop = {} /\ toBreak = <<>>
    /\ \A w \in Workers : pc[w] = "done"
    /\ cpc' = [cpc EXCEPT ![k] = "released"]
    /\ UNCHANGED <<isStop, workerCnt, chn, broken, threadVars, stopFlag, toStop,
                   toBreak, fed, delivered, dropped>>

-----------------------------------------------------------------------------
WorkerStep(w) ==
    Start(w) \/ Loop(w) \/ Read(w) \/ HandleWritting(w)
             \/ HandleSignal(w) \/ HandleMsg(w) \/ Write(w)

CloserStep(k) ==
    (\E n \in Nodes : StopNode(k, n)) \/ BreakAllWait(k) \/ Join(k)

Next ==
    \/ \E w \in Workers : WorkerStep(w)
    \/ \E f \in Feeders : Write(f) \/ \E n \in Nodes, m \in Msgs : FDRecv(f, n, m)
    \/ \E k \in Closers : CloserStep(k) \/ Shutdown(k)

(***************************************************************************)
(* Every thread that can take a step does: the operating system schedules  *)
(* it, and a channel call that can return does (BoundedFifo's fairness).   *)
(* No message has to come and nobody has to call Shutdown.                 *)
(***************************************************************************)
Fairness ==
    /\ \A w \in Workers : WF_vars(WorkerStep(w))
    /\ \A f \in Feeders : WF_vars(Write(f))
    /\ \A k \in Closers : WF_vars(CloserStep(k))

Spec == Init /\ [][Next]_vars /\ Fairness

-----------------------------------------------------------------------------
\* The nodes whose threads call Dispatch, a sink only to pass a signal on.
Dispatching ==
    {n \in Running : Kind[n] = "relay" \/ (Kind[n] = "sink" /\ Signals # {})}
      \cup UNION {Feeds[f] : f \in Feeders}

\* Where m is in a family of sequences.
Positions(seqs, m) ==
    UNION {{k} \X {i \in DOMAIN seqs[k] : seqs[k][i] = m} : k \in DOMAIN seqs}

\* The places where message m is: threads, channels, deliveries, drops.
Places(m) ==
    ({"held"} \X {t \in Threads : msg[t] = m})
      \cup ({"queued"} \X Positions(chn, m))
      \cup ({"delivered"} \X Positions(delivered, m))
      \cup ({"dropped"} \X (dropped \cap {m}))

(***************************************************************************)
(* No message is duplicated on its way through the nodes, none disappears, *)
(* and as long as nobody has called Shutdown none is dropped, although     *)
(* WriteMessage ignores the result of WaitEnqueue (unless a node that      *)
(* dispatches has no OUT channel at all).                                  *)
(***************************************************************************)
Accounted ==
    /\ \A m \in Msgs : Cardinality(Places(m)) = IF m \in SeqRange(fed) THEN 1 ELSE 0
    /\ dropped # {} => stopFlag \/ \E n \in Dispatching : Out[n] = <<>>

Before(s, x, y) == \E i, j \in DOMAIN s : i < j /\ s[i] = x /\ s[j] = y

(***************************************************************************)
(* The topologies that keep a flow in order:                               *)
(*   - no two threads read the same channel,                               *)
(*   - no two feeders bring messages in for the same node,                 *)
(*   - no message comes back to a channel it has been in: of any channels, *)
(*     one is relayed to none of them.                                     *)
(***************************************************************************)
SoleReaders ==
    /\ \A n \in Running : /\ NumThreads[n] <= Len(In[n])
                          /\ \A i, j \in DOMAIN In[n] : In[n][i] = In[n][j] => i = j
    /\ \A n, l \in Running : SeqRange(In[n]) \cap SeqRange(In[l]) # {} => n = l

SoleFeeders == \A f, g \in Feeders : Feeds[f] \cap Feeds[g] # {} => f = g

NoCycle ==
    \A S \in SUBSET Chns : S # {} =>
        \E c \in S : \A n \in Running :
            Kind[n] = "relay" /\ c \in SeqRange(In[n]) => SeqRange(Out[n]) \cap S = {}

(***************************************************************************)
(* Messages of one flow (same entry node, same id, so the same route) are  *)
(* delivered in the order they came in, when no two threads read the same  *)
(* channel (Dispatch by msg->id(), IncThreads).  A stop signal is then     *)
(* never delivered before the messages it follows.                         *)
(***************************************************************************)
FlowOrder ==
    \A n \in Nodes, x, y \in Msgs :
        /\ Before(delivered[n], x, y)
        /\ Origin[x] = Origin[y] /\ Id[x] = Id[y]
        => Before(fed, x, y)

(***************************************************************************)
(* Shutdown releases a topology that has come to rest: every worker has    *)
(* left DoWork, every node that was run is stopped, every channel one of   *)
(* them uses is broken, and no other caller is still at it.                *)
(***************************************************************************)
QuietWhenReleased ==
    (\E k \in Closers : cpc[k] = "released") =>
        /\ \A k \in Closers : cpc[k] # "stopping"
        /\ \A w \in Workers : pc[w] = "done"
        /\ \A n \in Running : /\ isStop[n]
                              /\ \A c \in SeqRange(ChannelsOf(n)) : broken[c]

(***************************************************************************)
(* Shutdown, "release all nodes", comes to its end: every worker, blocked  *)
(* on an empty or on a full channel, is woken and leaves, so that the join *)
(* returns.                                                                *)
(***************************************************************************)
ShutdownTerminates ==
    \A k \in Closers : cpc[k] = "stopping" ~> cpc[k] = "released"

(***************************************************************************)
(* The poller thread is not left hanging in WriteMessage by a Shutdown     *)
(* that stops the readers of its channel.                                  *)
(***************************************************************************)
FeedersReleased ==
    \A f \in Feeders : stopFlag /\ pc[f] = "writing" ~> pc[f] # "writing"

(***************************************************************************)
(* As long as nobody shuts down, what comes in goes out: every IN channel  *)
(* has a worker, and no cycle of full channels holds the nodes up.  That   *)
(* goes for what came in before a stop signal, too: HandlerRelaying sets   *)
(* is_stop_ but breaks no channel, so the nodes behind still read what is  *)
(* queued in front of the signal.                                          *)
(***************************************************************************)
EventuallyDelivered ==
    \A m \in Msgs : m \in SeqRange(fed) ~>
        \/ stopFlag
        \/ \E n \in Nodes : m \in SeqRange(delivered[n])
        \/ \E s \in Signals : Before(fed, s, m)

(***************************************************************************)
(* A stop signal stops every relay node of a chain of single-threaded      *)
(* nodes (StopSignal, and HandlerRelaying's Dispatch of the signal).       *)
(***************************************************************************)
SignalStopsChain ==
    \A s \in Signals : s \in SeqRange(fed) ~>
        \A w \in Workers : Kind[node[w]] = "relay" => pc[w] = "done"
=============================================================================
