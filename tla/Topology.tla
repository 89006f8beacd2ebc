------------------------------ MODULE Topology ------------------------------
(***************************************************************************)
(* How an application builds, runs and shuts down a topology:              *)
(* NodeManager's Connect, RunAsThreads and Shutdown                        *)
(* (src/src/util/node_manager.h), the channel lists of the nodes (node.h,  *)
(* node_duplex.h), and IncThreads, by which the workers find their channel.*)
(*                                                                         *)
(* One application thread makes the calls, as every user of the class does *)
(* (nothing here is locked); the workers run beside it.  What a running    *)
(* worker does with its channel is the subject of Services.                *)
(*                                                                         *)
(* The calls come in any order but one: a node whose workers were started  *)
(* is not connected again.  The code does not refuse that call; DoWork     *)
(* keeps a reference into the vector that AddChannel would extend, and     *)
(* what a worker does after that is left out.                              *)
(***************************************************************************)
EXTENDS Naturals, Sequences, FiniteSets

CONSTANTS
    Nodes,        \* the node objects
    Kind,         \* [Nodes -> {"relay", "duplex", "sink", "source"}]
    Name,         \* [Nodes -> STRING]: GetName()
    Reuses,       \* SUBSET BOOLEAN: the values passed for reuse_chn
    MaxConnects,  \* bound on the calls of Connect
    MaxThreads    \* bound on RunAsThreads' num

ASSUME TopologyAssumption ==
    /\ Kind \in [Nodes -> {"relay", "duplex", "sink", "source"}]
    /\ Reuses \subseteq BOOLEAN
    /\ MaxConnects \in Nat /\ MaxThreads \in Nat

VARIABLES
    channels,   \* [Nodes -> [{"up", "down"} -> Seq(channel)]]
    created,    \* number of channels made; they are 1 .. created
    nodeList,   \* the nodes in node_list_, which is keyed by name
    spawned,    \* [Nodes -> Nat]: threads that have not reached IncThreads
    picked,     \* [Nodes -> Seq(index)]: the IN channel of each worker
    workerCnt,  \* worker_cnt_ of each node
    isStop,     \* is_stop_ of each node
    stopFlag,   \* NodeManager::stop_
    caller,     \* the application: "out", "joining" in Shutdown, "shut" after
    aborted,    \* IncThreads' assertion failed
    conns       \* history: the connections made, <<up, down>>

nodeVars == <<nodeList, spawned, picked, workerCnt>>
vars == <<channels, created, nodeVars, isStop, stopFlag, caller, aborted, conns>>

Init ==
    /\ channels = [n \in Nodes |-> [s \in {"up", "down"} |-> <<>>]]
    /\ created = 0
    /\ nodeList = {}
    /\ spawned = [n \in Nodes |-> 0]
    /\ picked = [n \in Nodes |-> <<>>]
    /\ workerCnt = [n \in Nodes |-> 0]
    /\ isStop = [n \in Nodes |-> FALSE]
    /\ stopFlag = FALSE
    /\ caller = "out"
    /\ aborted = FALSE
    /\ conns = <<>>

-----------------------------------------------------------------------------
(***************************************************************************)
(* Which list holds the channels of a direction.  A duplex node keeps the  *)
(* channels that bring data for its fd in down_channels_, and the ones it  *)
(* sends what it received to in up_channels_: the reverse of other nodes.  *)
(***************************************************************************)
Side(n, ct) ==
    IF Kind[n] = "duplex" THEN IF ct = "in" THEN "down" ELSE "up"
                          ELSE IF ct = "out" THEN "down" ELSE "up"

GetChannels(n, ct) == channels[n][Side(n, ct)]

GetChannel(n, ct) == GetChannels(n, ct)[1]

GetChannelNum(n, ct) == Len(GetChannels(n, ct))

AddChannel(chns, n, c, ct) == [chns EXCEPT ![n][Side(n, ct)] = Append(@, c)]

\* The application is between two calls of the process's life.
Calling == caller # "joining" /\ ~aborted

(***************************************************************************)
(* Connect.  With reuse_chn an OUT channel of `up` is shared, or else an   *)
(* IN channel of `down`; a new channel is made without reuse_chn, or when  *)
(* neither has one.  A sink upstream or a source downstream is refused     *)
(* with an exception, and nothing changes.                                 *)
(***************************************************************************)
\* Mutant: the channel `up` has already is not given to `down`.
ReuseNothing(up, down) ==
    /\ GetChannelNum(up, "out") + GetChannelNum(down, "in") > 0
    /\ UNCHANGED <<channels, created>>

Reuse(up, down) ==
    /\ \/ /\ GetChannelNum(up, "out") # 0
          /\ channels' = AddChannel(channels, down, GetChannel(up, "out"), "in")
       \/ /\ GetChannelNum(up, "out") = 0
          /\ GetChannelNum(down, "in") # 0
          /\ channels' = AddChannel(channels, up, GetChannel(down, "in"), "out")
    /\ UNCHANGED created

\* Mutant: every connection gets the channel made first.
NewChannelShared(up, down) ==
    /\ created' = 1
    /\ channels' = AddChannel(AddChannel(channels, up, 1, "out"), down, 1, "in")

NewChannel(up, down) ==
    /\ created' = created + 1
    /\ channels' = AddChannel(AddChannel(channels, up, created', "out"),
                              down, created', "in")

Connect(up, down, reuse) ==
    /\ Calling
    /\ Len(conns) < MaxConnects
    /\ spawned[up] + workerCnt[up] = 0 /\ spawned[down] + workerCnt[down] = 0
    /\ Kind[up] # "sink" /\ Kind[down] # "source"
    /\ \/ /\ reuse
          /\ Reuse(up, down)
       \/ /\ ~reuse \/ GetChannelNum(up, "out") + GetChannelNum(down, "in") = 0
          /\ NewChannel(up, down)
    /\ conns' = Append(conns, <<up, down>>)
    /\ caller' = "out"
    /\ UNCHANGED <<nodeVars, isStop, stopFlag, aborted>>

(***************************************************************************)
(* RunAsThreads.  Its exceptions leave the node listed or not: a duplex    *)
(* node asked to run several threads is refused before the list is         *)
(* touched, a node whose name is listed leaves it alone, and a node        *)
(* without channels has been listed when it is refused.                    *)
(***************************************************************************)
\* Mutant: the list is searched for the object instead of the name.
RefusedObject(n, num) ==
    \/ Kind[n] = "duplex" /\ num > 1
    \/ n \in nodeList

Refused(n, num) ==
    \/ Kind[n] = "duplex" /\ num > 1
    \/ \E m \in nodeList : Name[m] = Name[n]

RunAsThreads(n, num) ==
    /\ Calling
    /\ ~Refused(n, num)
    /\ nodeList' = nodeList \cup {n}
    /\ spawned' = IF GetChannelNum(n, "in") + GetChannelNum(n, "out") <= 0
                  THEN spawned
                  ELSE [spawned EXCEPT ![n] = @ + num]
    /\ caller' = "out"
    /\ UNCHANGED <<channels, created, picked, workerCnt, isStop, stopFlag, aborted, conns>>

\* Mutant: the worker that finds the counter at zero does not count itself.
IncThreadsFirstTwice(n) ==
    /\ spawned[n] > 0 /\ ~aborted
    /\ spawned' = [spawned EXCEPT ![n] = @ - 1]
    /\ IF GetChannelNum(n, "in") = 0
       THEN aborted' = TRUE /\ UNCHANGED <<picked, workerCnt>>
       ELSE /\ picked' = [picked EXCEPT ![n] =
                             Append(@, (workerCnt[n] % GetChannelNum(n, "in")) + 1)]
            /\ workerCnt' = [workerCnt EXCEPT ![n] =
                                IF @ = 0 /\ picked[n] = <<>> THEN 0 ELSE @ + 1]
            /\ UNCHANGED aborted
    /\ UNCHANGED <<channels, created, nodeList, isStop, stopFlag, caller, conns>>

\* A new worker takes its turn of the IN channels, or fails the assertion.
IncThreads(n) ==
    /\ spawned[n] > 0 /\ ~aborted
    /\ spawned' = [spawned EXCEPT ![n] = @ - 1]
    /\ \/ /\ GetChannelNum(n, "in") = 0
          /\ aborted' = TRUE
          /\ UNCHANGED <<picked, workerCnt>>
       \/ /\ GetChannelNum(n, "in") # 0
          /\ picked' = [picked EXCEPT ![n] =
                           Append(@, (workerCnt[n] % GetChannelNum(n, "in")) + 1)]
          /\ workerCnt' = [workerCnt EXCEPT ![n] = @ + 1]
          /\ UNCHANGED aborted
    /\ UNCHANGED <<channels, created, nodeList, isStop, stopFlag, caller, conns>>

(***************************************************************************)
(* Shutdown: the first call stops the listed relay and duplex nodes and    *)
(* joins the workers; stop_ stays set and node_list_ stays filled, and     *)
(* every later call returns at once.                                       *)
(***************************************************************************)
Shutdown ==
    /\ Calling
    /\ stopFlag' = TRUE
    /\ \/ /\ stopFlag
          /\ caller' = "shut"
          /\ UNCHANGED isStop
       \/ /\ ~stopFlag
          /\ isStop' = [n \in Nodes |->
                isStop[n] \/ (n \in nodeList /\ Kind[n] \in {"relay", "duplex"})]
          /\ caller' = "joining"
    /\ UNCHANGED <<channels, created, nodeVars, aborted, conns>>

\* DoWork returns once is_stop_ is set (Services: ShutdownTerminates).
Leave(n) ==
    /\ ~aborted
    /\ isStop[n] /\ picked[n] # <<>>
    /\ picked' = [picked EXCEPT ![n] = Tail(@)]
    /\ UNCHANGED <<channels, created, nodeList, spawned, workerCnt, isStop,
                   stopFlag, caller, aborted, conns>>

Alive(n) == spawned[n] + Len(picked[n]) > 0

\* The workers joined are the ones that exist: no call runs beside Shutdown.
Join ==
    /\ ~aborted
    /\ caller = "joining"
    /\ \A n \in Nodes : ~Alive(n)
    /\ caller' = "shut"
    /\ UNCHANGED <<channels, created, nodeVars, isStop, stopFlag, aborted, conns>>

Next ==
    \/ \E up, down \in Nodes, reuse \in Reuses : Connect(up, down, reuse)
    \/ \E n \in Nodes : \/ \E num \in 1 .. MaxThreads : RunAsThreads(n, num)
                        \/ IncThreads(n)
                        \/ Leave(n)
    \/ Shutdown
    \/ Join

Spec == Init /\ [][Next]_vars

-----------------------------------------------------------------------------
Ends(n, ct) == {GetChannels(n, ct)[i] : i \in DOMAIN GetChannels(n, ct)}

\* What `up` dispatches can be read by `down`.
Feeds(up, down) == Ends(up, "out") \cap Ends(down, "in") # {}

(***************************************************************************)
(* Whatever was connected before, and with or without reuse, a connection  *)
(* lets messages pass from `up` to `down`, and no channel is left without  *)
(* a node that reads it or a node that writes it.                          *)
(***************************************************************************)
Wired ==
    /\ \A i \in DOMAIN conns : Feeds(conns[i][1], conns[i][2])
    /\ \A c \in 1 .. created : /\ \E n \in Nodes : c \in Ends(n, "out")
                               /\ \E n \in Nodes : c \in Ends(n, "in")

(***************************************************************************)
(* Sharing channels never leaks messages between parts that no connection  *)
(* joins: if the OUT ends S and the IN ends T are only ever connected with *)
(* each other, nothing from outside S is read in T and nothing from S is   *)
(* read outside T.                                                         *)
(***************************************************************************)
NoLeak ==
    \A S \in SUBSET {conns[i][1] : i \in DOMAIN conns},
       T \in SUBSET {conns[i][2] : i \in DOMAIN conns} :
        (\A i \in DOMAIN conns : conns[i][1] \in S <=> conns[i][2] \in T) =>
            \A up, down \in Nodes : Feeds(up, down) => (up \in S <=> down \in T)

\* The places of c in the IN list, in which reuse may put a channel twice, and
\* the workers that read c.
Listings(n, c) == Cardinality({i \in DOMAIN GetChannels(n, "in") : GetChannels(n, "in")[i] = c})
Readers(n, c) ==
    Cardinality({w \in DOMAIN picked[n] : GetChannels(n, "in")[picked[n][w]] = c})

(***************************************************************************)
(* IncThreads leaves no IN channel behind, as long as no worker has left:  *)
(* with workers for q rounds of the list every channel is read by at least *)
(* q workers for each place it has there, and with workers for q rounds at *)
(* most, by no more.  A node with as many workers as its list has places   *)
(* reads all its channels; one with fewer may not, and then the writers of *)
(* a channel nobody reads wait once it is full.                            *)
(***************************************************************************)
Balanced ==
    \A n \in Nodes : ~isStop[n] =>
        \A c \in Ends(n, "in"), q \in 0 .. Len(picked[n]) :
            /\ Len(picked[n]) >= q * GetChannelNum(n, "in") => Readers(n, c) >= q * Listings(n, c)
            /\ Len(picked[n]) <= q * GetChannelNum(n, "in") => Readers(n, c) <= q * Listings(n, c)

(***************************************************************************)
(* The list keeps a name from being run twice: of the nodes that share a   *)
(* name one has workers, all from one call of RunAsThreads, and a duplex   *)
(* node never has two.                                                     *)
(***************************************************************************)
RunsOnce ==
    \A n, m \in Nodes :
        /\ Name[n] = Name[m] /\ spawned[n] + workerCnt[n] > 0
                             /\ spawned[m] + workerCnt[m] > 0 => n = m
        /\ spawned[n] + workerCnt[n] <= IF Kind[n] = "duplex" THEN 1 ELSE MaxThreads
=============================================================================
