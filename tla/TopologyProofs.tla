---------------------------- MODULE TopologyProofs ----------------------------
(***************************************************************************)
(* Proofs about Topology: for any nodes, of any kinds and names, and any   *)
(* number of calls, channels and threads.                                  *)
(***************************************************************************)
EXTENDS Topology, FiniteSetTheorems, FunctionTheorems, SequenceTheorems, TLAPS

Directions == {"in", "out"}
Sides == {"up", "down"}

\* The channel lists of all nodes, holding channels of the set C.
Lists(C) == [Nodes -> [Sides -> Seq(C)]]

TopologyType ==
    /\ created \in Nat
    /\ channels \in Lists(1 .. created)
    /\ nodeList \subseteq Nodes
    /\ spawned \in [Nodes -> Nat]
    /\ picked \in [Nodes -> Seq(Nat)]
    /\ workerCnt \in [Nodes -> Nat]
    /\ isStop \in [Nodes -> BOOLEAN]
    /\ conns \in Seq(Nodes \X Nodes)

\* What a sequence holds; Ends and Feeds for given lists.
Content(s) == {s[i] : i \in DOMAIN s}
EndsOf(lists, n, ct) == Content(lists[n][Side(n, ct)])
Linked(lists, up, down) == EndsOf(lists, up, "out") \cap EndsOf(lists, down, "in") # {}

\* The two directions of a node are two lists, whatever its kind.
LEMMA SideFacts ==
  /\ \A n, ct : Side(n, ct) \in Sides
  /\ \A n : \A a, b \in Directions : Side(n, a) = Side(n, b) => a = b
BY DEF Side, Sides, Directions

\* Appending adds one element to what a sequence holds.
LEMMA AppendHolds ==
  ASSUME NEW C, NEW s \in Seq(C), NEW c \in C
  PROVE  /\ Append(s, c) \in Seq(C)
         /\ Content(Append(s, c)) = Content(s) \cup {c}
<1> DEFINE r == Append(s, c)
<1>1. /\ r \in Seq(C) /\ Len(s) \in Nat /\ Len(r) = Len(s) + 1
      /\ DOMAIN s = 1 .. Len(s) /\ DOMAIN r = 1 .. Len(r)
      /\ \A i \in 1 .. Len(s) : r[i] = s[i]
      /\ r[Len(s) + 1] = c
  BY AppendProperties, LenProperties
<1>2. DOMAIN r = DOMAIN s \cup {Len(s) + 1}
  BY <1>1
<1> HIDE DEF r
<1>3. Content(r) = Content(s) \cup {c}
  BY <1>1, <1>2 DEF Content
<1> QED
  BY <1>1, <1>3 DEF r

\* AddChannel adds one end to one node.
LEMMA AddEnds ==
  ASSUME NEW C, NEW lists \in Lists(C), NEW n \in Nodes, NEW ct \in Directions, NEW c \in C
  PROVE  LET new == AddChannel(lists, n, c, ct)
         IN  /\ new \in Lists(C)
             /\ \A m \in Nodes, d \in Directions :
                    EndsOf(new, m, d) = EndsOf(lists, m, d) \cup
                                          (IF m = n /\ d = ct THEN {c} ELSE {})
             /\ \A m \in Nodes, d \in Directions : 
                    m # n => new[m][Side(m, d)] = lists[m][Side(m, d)]
<1> DEFINE new == AddChannel(lists, n, c, ct)
           s   == lists[n][Side(n, ct)]
<1>1. s \in Seq(C) /\ Side(n, ct) \in Sides
  BY SideFacts DEF Lists
<1>2. /\ Append(s, c) \in Seq(C)
      /\ Content(Append(s, c)) = Content(s) \cup {c}
  BY <1>1, AppendHolds
<1>3. new = [lists EXCEPT ![n][Side(n, ct)] = Append(s, c)]
  BY DEF AddChannel
<1>4. new \in Lists(C)
  BY <1>1, <1>2, <1>3 DEF Lists
<1>5. new[n][Side(n, ct)] = Append(s, c)
  BY <1>1, <1>3 DEF Lists
<1>6. \A m \in Nodes, d \in Directions :
         ~(m = n /\ d = ct) => new[m][Side(m, d)] = lists[m][Side(m, d)]
  BY <1>1, <1>3, SideFacts DEF Lists
<1> HIDE DEF new
<1>7. ASSUME NEW m \in Nodes, NEW d \in Directions
      PROVE  EndsOf(new, m, d) = EndsOf(lists, m, d) \cup (IF m = n /\ d = ct THEN {c} ELSE {})
  <2>1. CASE m = n /\ d = ct
    BY <1>2, <1>5, <2>1, Zenon DEF EndsOf
  <2>2. CASE ~(m = n /\ d = ct)
    BY <1>6, <2>2 DEF EndsOf
  <2> QED
    BY <2>1, <2>2
<1> QED
  BY <1>4, <1>6, <1>7 DEF new

-----------------------------------------------------------------------------
\* A node's ends are channels that were made.
LEMMA EndsType ==
  ASSUME TopologyType, NEW n \in Nodes, NEW ct \in Directions
  PROVE  /\ GetChannels(n, ct) \in Seq(1 .. created)
         /\ Ends(n, ct) = EndsOf(channels, n, ct)
         /\ Ends(n, ct) \subseteq 1 .. created
         /\ GetChannelNum(n, ct) \in Nat
         /\ GetChannelNum(n, ct) # 0 => GetChannel(n, ct) \in Ends(n, ct)
<1>1. GetChannels(n, ct) \in Seq(1 .. created)
  BY SideFacts DEF TopologyType, Lists, GetChannels
<1>2. Ends(n, ct) = Content(GetChannels(n, ct)) /\ Ends(n, ct) = EndsOf(channels, n, ct)
  BY DEF Ends, EndsOf, Content, GetChannels
<1>3. /\ Len(GetChannels(n, ct)) \in Nat
      /\ DOMAIN GetChannels(n, ct) = 1 .. Len(GetChannels(n, ct))
      /\ \A i \in 1 .. Len(GetChannels(n, ct)) : GetChannels(n, ct)[i] \in 1 .. created
  BY <1>1, LenProperties, Zenon
<1>4. Ends(n, ct) \subseteq 1 .. created
  BY <1>2, <1>3 DEF Content
<1>5. GetChannelNum(n, ct) # 0 => GetChannel(n, ct) \in Ends(n, ct)
  <2> SUFFICES ASSUME Len(GetChannels(n, ct)) # 0
               PROVE  GetChannels(n, ct)[1] \in Content(GetChannels(n, ct))
    BY <1>2 DEF GetChannelNum, GetChannel
  <2>1. 1 \in DOMAIN GetChannels(n, ct)
    BY <1>3
  <2> QED
    BY <2>1 DEF Content
<1> QED
  BY <1>1, <1>2, <1>3, <1>4, <1>5 DEF GetChannelNum

\* More channels do not invalidate the lists.
LEMMA MoreChannels ==
  ASSUME NEW C, NEW D, C \subseteq D, NEW lists \in Lists(C)
  PROVE  lists \in Lists(D)
<1>1. Seq(C) \subseteq Seq(D)
  BY SeqDef
<1> QED
  BY <1>1 DEF Lists

(***************************************************************************)
(* What a call of Connect comes to, reusing a channel or not: afterwards   *)
(* one channel is an OUT end of `up` and an IN end of `down`, nothing else *)
(* has changed, and the channel is new or was an end of one of them.       *)
(***************************************************************************)
Connected(up, down, c) ==
    /\ \A m \in Nodes, d \in Directions :
          Ends(m, d)' = Ends(m, d) \cup
              (IF (m = up /\ d = "out") \/ (m = down /\ d = "in") THEN {c} ELSE {})
    /\ \/ created' = created /\ c \in Ends(up, "out") \cup Ends(down, "in")
       \/ created' = created + 1 /\ c = created + 1

LEMMA ConnectFacts ==
  ASSUME TopologyType, NEW up \in Nodes, NEW down \in Nodes, NEW reuse \in Reuses,
         Connect(up, down, reuse)
  PROVE  /\ TopologyType'
         /\ \E c \in 1 .. created' : Connected(up, down, c)
         /\ \A m \in Nodes, d \in Directions :
                m # up /\ m # down => GetChannels(m, d)' = GetChannels(m, d)
<1> USE SideFacts DEF Directions
<1>0. "in" \in Directions /\ "out" \in Directions /\ created \in Nat
  BY DEF TopologyType
<1>1. /\ UNCHANGED <<nodeList, spawned, picked, workerCnt, isStop>>
      /\ conns' \in Seq(Nodes \X Nodes)
  BY AppendProperties DEF Connect, nodeVars, TopologyType
<1>e. \A m \in Nodes, d \in Directions : Ends(m, d)' = EndsOf(channels', m, d)
  BY DEF Ends, EndsOf, Content, GetChannels
<1>2. CASE Reuse(up, down) /\ GetChannelNum(up, "out") # 0
  <2>1. PICK c \in 1 .. created : c = GetChannel(up, "out") /\ c \in Ends(up, "out")
    BY <1>0, <1>2, EndsType
  <2>2. channels' = AddChannel(channels, down, c, "in") /\ created' = created
    BY <1>2, <2>1 DEF Reuse
  <2>3. /\ channels' \in Lists(1 .. created)
        /\ \A m \in Nodes, d \in Directions :
              EndsOf(channels', m, d) = EndsOf(channels, m, d) \cup
                                          (IF m = down /\ d = "in" THEN {c} ELSE {})
        /\ \A m \in Nodes, d \in Directions :
              m # down => channels'[m][Side(m, d)] = channels[m][Side(m, d)]
    BY <1>0, <2>2, AddEnds, SMTT(30) DEF TopologyType
  <2>4. Connected(up, down, c)
    BY <1>e, <2>1, <2>2, <2>3, EndsType, SMTT(30) DEF Connected
  <2> QED
    BY <1>1, <2>2, <2>3, <2>4, SMTT(30) DEF TopologyType, GetChannels
<1>3. CASE Reuse(up, down) /\ GetChannelNum(up, "out") = 0
  <2>0. GetChannelNum(down, "in") # 0
    BY <1>3 DEF Reuse
  <2>1. PICK c \in 1 .. created : c = GetChannel(down, "in") /\ c \in Ends(down, "in")
    BY <1>0, <2>0, EndsType
  <2>2. channels' = AddChannel(channels, up, c, "out") /\ created' = created
    BY <1>3, <2>1 DEF Reuse
  <2>3. /\ channels' \in Lists(1 .. created)
        /\ \A m \in Nodes, d \in Directions :
              EndsOf(channels', m, d) = EndsOf(channels, m, d) \cup
                                          (IF m = up /\ d = "out" THEN {c} ELSE {})
        /\ \A m \in Nodes, d \in Directions :
              m # up => channels'[m][Side(m, d)] = channels[m][Side(m, d)]
    BY <1>0, <2>2, AddEnds, SMTT(30) DEF TopologyType
  <2>4. Connected(up, down, c)
    BY <1>e, <2>1, <2>2, <2>3, EndsType, SMTT(30) DEF Connected
  <2> QED
    BY <1>1, <2>2, <2>3, <2>4, SMTT(30) DEF TopologyType, GetChannels
<1>4. CASE NewChannel(up, down)
  <2> DEFINE c == created + 1
             mid == AddChannel(channels, up, c, "out")
  <2>1. created' = c /\ channels' = AddChannel(mid, down, c, "in") /\ c \in 1 .. c
    BY <1>0, <1>4 DEF NewChannel
  <2>2. channels \in Lists(1 .. c)
    <3>1. 1 .. created \subseteq 1 .. c
      BY <1>0
    <3> QED
      BY <3>1, MoreChannels, Zenon DEF TopologyType
  <2>3. /\ mid \in Lists(1 .. c)
        /\ \A m \in Nodes, d \in Directions :
              EndsOf(mid, m, d) = EndsOf(channels, m, d) \cup
                                          (IF m = up /\ d = "out" THEN {c} ELSE {})
        /\ \A m \in Nodes, d \in Directions :
              m # up => mid[m][Side(m, d)] = channels[m][Side(m, d)]
    BY <1>0, <2>1, <2>2, AddEnds
  <2> HIDE DEF mid
  <2>4. /\ channels' \in Lists(1 .. c)
        /\ \A m \in Nodes, d \in Directions :
              EndsOf(channels', m, d) = EndsOf(mid, m, d) \cup
                                          (IF m = down /\ d = "in" THEN {c} ELSE {})
        /\ \A m \in Nodes, d \in Directions :
              m # down => channels'[m][Side(m, d)] = mid[m][Side(m, d)]
    BY <1>0, <2>1, <2>3, AddEnds
  <2>5. Connected(up, down, c)
    BY <1>0, <1>e, <2>1, <2>3, <2>4, EndsType, SMTT(30) DEF Connected
  <2>6. c \in 1 .. created' /\ created' \in Nat
    BY <1>0, <2>1
  <2>7. TopologyType'
    BY <1>1, <2>1, <2>4, <2>6 DEF TopologyType
  <2> QED
    BY <2>3, <2>4, <2>5, <2>6, <2>7 DEF GetChannels
<1>5. Reuse(up, down) \/ NewChannel(up, down)
  BY DEF Connect
<1> QED
  BY <1>2, <1>3, <1>4, <1>5

\* No other action touches a list, a channel or the connections.
LEMMA OthersKeepLists ==
  ASSUME [Next]_vars, ~ \E up, down \in Nodes, reuse \in Reuses : Connect(up, down, reuse)
  PROVE  UNCHANGED <<channels, created, conns>>
BY DEF Next, vars, nodeVars, RunAsThreads, IncThreads, Leave, Shutdown, Join

LEMMA TypeStep ==
  ASSUME TopologyType, [Next]_vars
  PROVE  TopologyType'
<1>1. CASE \E up, down \in Nodes, reuse \in Reuses : Connect(up, down, reuse)
  BY <1>1, ConnectFacts
<1>2. ASSUME NEW n \in Nodes, NEW num \in 1 .. MaxThreads, RunAsThreads(n, num)
      PROVE  TopologyType'
  BY <1>2, TopologyAssumption DEF TopologyType, RunAsThreads
<1>3. ASSUME NEW n \in Nodes, IncThreads(n)
      PROVE  TopologyType'
  <2>1. spawned' \in [Nodes -> Nat]
    BY <1>3 DEF TopologyType, IncThreads
  <2>2. workerCnt' \in [Nodes -> Nat]
    BY <1>3 DEF TopologyType, IncThreads
  <2>3. picked' \in [Nodes -> Seq(Nat)]
    <3>1. CASE GetChannelNum(n, "in") = 0
      BY <1>3, <3>1 DEF TopologyType, IncThreads
    <3>2. CASE GetChannelNum(n, "in") # 0
      <4>1. GetChannelNum(n, "in") \in Nat /\ GetChannelNum(n, "in") > 0
        BY <3>2, EndsType DEF Directions
      <4>2. (workerCnt[n] % GetChannelNum(n, "in")) + 1 \in Nat
        BY <4>1 DEF TopologyType
      <4>3. Append(picked[n], (workerCnt[n] % GetChannelNum(n, "in")) + 1) \in Seq(Nat)
        BY <4>2, AppendProperties DEF TopologyType
      <4> QED
        BY <1>3, <3>2, <4>3, Zenon DEF TopologyType, IncThreads
    <3> QED
      BY <3>1, <3>2
  <2> QED
    BY <1>3, <2>1, <2>2, <2>3 DEF TopologyType, IncThreads
<1>4. ASSUME NEW n \in Nodes, Leave(n)
      PROVE  TopologyType'
  <2>1. Tail(picked[n]) \in Seq(Nat)
    BY <1>4, HeadTailProperties DEF TopologyType, Leave
  <2> QED
    BY <1>4, <2>1 DEF TopologyType, Leave
<1>5. CASE Shutdown
  <2>1. isStop' \in [Nodes -> BOOLEAN]
    BY <1>5, Zenon DEF TopologyType, Shutdown
  <2> QED
    BY <1>5, <2>1 DEF TopologyType, Shutdown, nodeVars
<1>6. CASE Join
  BY <1>6 DEF TopologyType, Join, nodeVars
<1>7. CASE UNCHANGED vars
  BY <1>7 DEF TopologyType, vars, nodeVars
<1> QED
  BY <1>1, <1>2, <1>3, <1>4, <1>5, <1>6, <1>7 DEF Next

LEMMA TypeInit ==
  ASSUME Init
  PROVE  TopologyType
<1>1. channels \in Lists(1 .. 0)
  BY EmptySeq DEF Init, Lists, Sides
<1> QED
  BY <1>1, EmptySeq DEF Init, TopologyType

LEMMA TopologyTyped == Spec => []TopologyType
BY TypeInit, TypeStep, PTL DEF Spec

-----------------------------------------------------------------------------
(***************************************************************************)
(* The list and the threads: a node with threads is listed, and the list   *)
(* holds one node of a name.                                               *)
(***************************************************************************)
MayRun(n) == IF Kind[n] = "duplex" THEN 1 ELSE MaxThreads

RunInv ==
    /\ \A n \in Nodes : /\ spawned[n] + workerCnt[n] > 0 => n \in nodeList
                        /\ spawned[n] + workerCnt[n] <= MayRun(n)
    /\ \A n, m \in nodeList : Name[n] = Name[m] => n = m

LEMMA RunStep ==
  ASSUME TopologyType, RunInv, [Next]_vars
  PROVE  RunInv'
<1> USE TopologyAssumption
<1>1. ASSUME NEW n \in Nodes, NEW num \in 1 .. MaxThreads, RunAsThreads(n, num)
      PROVE  RunInv'
  <2>1. \A m \in nodeList : Name[m] # Name[n]
    BY <1>1 DEF RunAsThreads, Refused
  <2>t. \A m \in Nodes : spawned[m] \in Nat /\ workerCnt[m] \in Nat /\ MayRun(m) \in Nat
    BY DEF TopologyType, MayRun
  <2>2. spawned[n] + workerCnt[n] = 0
    <3>1. n \notin nodeList
      BY <2>1
    <3> QED
      BY <2>t, <3>1 DEF RunInv
  <2>3. num <= MayRun(n)
    BY <1>1 DEF RunAsThreads, Refused, MayRun
  <2>4. \A m \in Nodes : spawned'[m] = spawned[m] \/ (m = n /\ spawned'[m] = spawned[m] + num)
    BY <1>1 DEF RunAsThreads, TopologyType
  <2>5. nodeList' = nodeList \cup {n} /\ workerCnt' = workerCnt
    BY <1>1 DEF RunAsThreads
  <2>6. \A m \in Nodes : /\ spawned'[m] + workerCnt'[m] > 0 => m \in nodeList'
                         /\ spawned'[m] + workerCnt'[m] <= MayRun(m)
    BY <2>t, <2>2, <2>3, <2>4, <2>5 DEF RunInv
  <2>7. \A k, m \in nodeList' : Name[k] = Name[m] => k = m
    BY <2>1, <2>5 DEF RunInv
  <2> QED
    BY <2>6, <2>7 DEF RunInv, MayRun
<1>2. ASSUME NEW n \in Nodes, IncThreads(n)
      PROVE  RunInv'
  <2>1. \A m \in Nodes : /\ spawned[m] \in Nat /\ workerCnt[m] \in Nat
                         /\ spawned'[m] \in Nat /\ workerCnt'[m] \in Nat
                         /\ spawned'[m] + workerCnt'[m] <= spawned[m] + workerCnt[m]
    BY <1>2, SMTT(30) DEF IncThreads, TopologyType
  <2>2. \A m \in Nodes : MayRun(m) \in Nat
    BY DEF MayRun
  <2>3. nodeList' = nodeList
    BY <1>2 DEF IncThreads
  <2> QED
    BY <2>1, <2>2, <2>3 DEF RunInv, MayRun
<1>3. CASE UNCHANGED <<nodeList, spawned, workerCnt>>
  BY <1>3 DEF RunInv, MayRun
<1> QED
  BY <1>1, <1>2, <1>3 DEF Next, vars, nodeVars, Connect, Leave, Shutdown, Join

(***************************************************************************)
(* RunsOnce.  Whatever the application calls, and however often, the list  *)
(* of NodeManager keeps a name from being run twice and bounds the threads *)
(* of a node by those of one call.                                         *)
(***************************************************************************)
THEOREM NameRunsOnce == Spec => []RunsOnce
<1>1. Init => RunInv
  BY TopologyAssumption DEF Init, RunInv, MayRun
<1>2. TopologyType /\ RunInv => RunsOnce
  BY DEF RunInv, RunsOnce, MayRun
<1> QED
  BY <1>1, <1>2, RunStep, TopologyTyped, PTL DEF Spec

-----------------------------------------------------------------------------
\* A connection is recorded after the others.
LEMMA ConnsGrow ==
  ASSUME TopologyType, NEW up \in Nodes, NEW down \in Nodes, NEW reuse \in Reuses,
         Connect(up, down, reuse)
  PROVE  /\ DOMAIN conns' = DOMAIN conns \cup {Len(conns) + 1}
         /\ \A i \in DOMAIN conns : conns'[i] = conns[i]
         /\ conns'[Len(conns) + 1] = <<up, down>>
<1>1. conns' = Append(conns, <<up, down>>) /\ conns \in Seq(Nodes \X Nodes)
  BY DEF Connect, TopologyType
<1>2. /\ Len(conns) \in Nat /\ Len(conns') = Len(conns) + 1
      /\ DOMAIN conns = 1 .. Len(conns) /\ DOMAIN conns' = 1 .. Len(conns')
      /\ \A i \in 1 .. Len(conns) : conns'[i] = conns[i]
      /\ conns'[Len(conns) + 1] = <<up, down>>
  BY <1>1, AppendProperties, LenProperties
<1> QED
  BY <1>2

LEMMA ConnsType ==
  ASSUME TopologyType, NEW i \in DOMAIN conns
  PROVE  conns[i][1] \in Nodes /\ conns[i][2] \in Nodes
<1>1. conns[i] \in Nodes \X Nodes
  BY LenProperties DEF TopologyType
<1> QED
  BY <1>1

LEMMA WiredStep ==
  ASSUME TopologyType, Wired, [Next]_vars
  PROVE  Wired'
<1>1. CASE UNCHANGED <<channels, created, conns>>
  <2>1. \A n, d : Ends(n, d)' = Ends(n, d)
    BY <1>1 DEF Ends, GetChannels
  <2> QED
    BY <1>1, <2>1 DEF Wired, Feeds
<1>2. ASSUME NEW up \in Nodes, NEW down \in Nodes, NEW reuse \in Reuses,
             Connect(up, down, reuse)
      PROVE  Wired'
  <2>1. PICK c \in 1 .. created' : Connected(up, down, c)
    BY <1>2, ConnectFacts
  <2>2. /\ \A m \in Nodes, d \in Directions : Ends(m, d) \subseteq Ends(m, d)'
        /\ c \in Ends(up, "out")' /\ c \in Ends(down, "in")'
    BY <2>1 DEF Connected, Directions
  <2>e. \A m \in Nodes, d \in Directions : Ends(m, d)' = EndsOf(channels', m, d)
    BY DEF Ends, EndsOf, Content, GetChannels
  <2>3. ASSUME NEW i \in DOMAIN conns'
        PROVE  Linked(channels', conns'[i][1], conns'[i][2])
    <3>1. CASE i \in DOMAIN conns
      <4>1. /\ conns[i][1] \in Nodes /\ conns[i][2] \in Nodes
            /\ Feeds(conns[i][1], conns[i][2])
            /\ conns'[i] = conns[i]
        BY <1>2, <3>1, ConnsType, ConnsGrow DEF Wired
      <4> QED
        BY <2>2, <2>e, <4>1 DEF Feeds, Linked, Directions
    <3>2. CASE i = Len(conns) + 1
      <4>1. conns'[i][1] = up /\ conns'[i][2] = down
        BY <1>2, <3>2, ConnsGrow
      <4> QED
        BY <2>2, <2>e, <4>1 DEF Linked, Directions
    <3> QED
      BY <1>2, <3>1, <3>2, ConnsGrow
  <2>4. \A x \in 1 .. created' : x \in 1 .. created \/ x = c
    BY <2>1 DEF Connected, TopologyType
  <2>5. \A x \in 1 .. created' : /\ \E n \in Nodes : x \in Ends(n, "out")'
                                 /\ \E n \in Nodes : x \in Ends(n, "in")'
    BY <2>2, <2>4 DEF Wired, Directions
  <2>6. (\A i \in DOMAIN conns : Feeds(conns[i][1], conns[i][2]))'
    BY <2>3, SMTT(30) DEF Linked, Feeds, Ends, EndsOf, Content, GetChannels
  <2> QED
    BY <2>5, <2>6 DEF Wired
<1> QED
  BY <1>1, <1>2, OthersKeepLists

(***************************************************************************)
(* Wired.  Every connection ever made lets messages pass, whether Connect  *)
(* shared a channel for it or made one, and no channel lacks a reader or a *)
(* writer.                                                                 *)
(***************************************************************************)
THEOREM ConnectedIsWired == Spec => []Wired
<1>1. Init => Wired
  BY DEF Init, Wired
<1> QED
  BY <1>1, WiredStep, TopologyTyped, PTL DEF Spec

-----------------------------------------------------------------------------
(***************************************************************************)
(* The same for any parts of the topology, also ones that hold nodes no    *)
(* connection names: the form of NoLeak that a call of Connect preserves.  *)
(***************************************************************************)
Apart(S, T) == \A i \in DOMAIN conns : conns[i][1] \in S <=> conns[i][2] \in T

Separate(S, T) == \A u, d \in Nodes : Feeds(u, d) => (u \in S <=> d \in T)

LeakInv == \A S, T \in SUBSET Nodes : Apart(S, T) => Separate(S, T)

LEMMA LeakStep ==
  ASSUME TopologyType, Wired, LeakInv, [Next]_vars
  PROVE  LeakInv'
<1>1. CASE UNCHANGED <<channels, created, conns>>
  <2>1. \A n, d : Ends(n, d)' = Ends(n, d)
    BY <1>1 DEF Ends, GetChannels
  <2> QED
    BY <1>1, <2>1 DEF LeakInv, Apart, Separate, Feeds
<1>2. ASSUME NEW up \in Nodes, NEW down \in Nodes, NEW reuse \in Reuses,
             Connect(up, down, reuse)
      PROVE  LeakInv'
  <2>1. PICK c \in 1 .. created' : Connected(up, down, c)
    BY <1>2, ConnectFacts
  <2> SUFFICES ASSUME NEW S \in SUBSET Nodes, NEW T \in SUBSET Nodes, Apart(S, T)',
                      NEW u \in Nodes, NEW d \in Nodes, Feeds(u, d)'
               PROVE  u \in S <=> d \in T
    BY DEF LeakInv, Separate
  <2>2. Apart(S, T) /\ (up \in S <=> down \in T)
    BY <1>2, ConnsGrow DEF Apart
  <2>3. \A x : \A k, m \in Nodes : x \in Ends(k, "out") /\ x \in Ends(m, "in") =>
                                     (k \in S <=> m \in T)
    BY <2>2 DEF LeakInv, Separate, Feeds
  <2>4. PICK x : x \in Ends(u, "out")' /\ x \in Ends(d, "in")'
    BY DEF Feeds
  <2>5. /\ x \in Ends(u, "out") \/ (u = up /\ x = c)
        /\ x \in Ends(d, "in") \/ (d = down /\ x = c)
    BY <2>1, <2>4 DEF Connected, Directions
  <2>6. CASE created' = created + 1 /\ c = created + 1
    <3>1. x = c => u = up /\ d = down
      <4>1. c \notin 1 .. created
        BY <2>6 DEF TopologyType
      <4>2. c \notin Ends(u, "out") /\ c \notin Ends(d, "in")
        BY <4>1, EndsType DEF Directions
      <4> QED
        BY <2>5, <4>2
    <3> QED
      BY <2>2, <2>3, <2>5, <3>1
  <2>7. CASE created' = created /\ c \in Ends(up, "out") \cup Ends(down, "in")
    <3>1. PICK w \in Nodes, r \in Nodes : c \in Ends(w, "out") /\ c \in Ends(r, "in")
      BY <2>1, <2>7 DEF Wired
    <3>2. /\ c \in Ends(u, "out") => (u \in S <=> r \in T)
          /\ c \in Ends(d, "in") => (w \in S <=> d \in T)
          /\ w \in S <=> r \in T
          /\ c \in Ends(up, "out") => (up \in S <=> r \in T)
          /\ c \in Ends(down, "in") => (w \in S <=> down \in T)
      BY <2>3, <3>1
    <3> QED
      BY <2>2, <2>3, <2>5, <2>7, <3>2, SMTT(30)
  <2> QED
    BY <2>1, <2>6, <2>7 DEF Connected
<1> QED
  BY <1>1, <1>2, OthersKeepLists

(***************************************************************************)
(* NoLeak.  Reusing channels never lets a message cross between parts of   *)
(* the topology that no connection joins.                                  *)
(***************************************************************************)
THEOREM ReuseLeaksNothing == Spec => []NoLeak
<1>1. Init => LeakInv
  <2> SUFFICES ASSUME Init, NEW u \in Nodes, NEW d \in Nodes
               PROVE  ~Feeds(u, d)
    BY DEF LeakInv, Separate
  <2> QED
    BY SideFacts, EmptySeq DEF Init, Feeds, Ends, GetChannels, Sides
<1>2. TopologyType /\ LeakInv => NoLeak
  <2> SUFFICES ASSUME TopologyType, LeakInv,
                      NEW S \in SUBSET {conns[i][1] : i \in DOMAIN conns},
                      NEW T \in SUBSET {conns[i][2] : i \in DOMAIN conns},
                      Apart(S, T)
               PROVE  Separate(S, T)
    BY SMTT(30) DEF NoLeak, Apart, Separate
  <2>1. S \subseteq Nodes /\ T \subseteq Nodes
    BY ConnsType
  <2> QED
    BY <2>1 DEF LeakInv
<1> QED
  BY <1>1, <1>2, LeakStep, ConnectedIsWired, TopologyTyped, PTL DEF Spec

-----------------------------------------------------------------------------
\* Division with remainder by the number of channels.
LEMMA Product ==
  ASSUME NEW a \in Int, NEW b \in Nat, a >= 1
  PROVE  a * b >= b
<1>1. (a - 1) * b >= 0
  OBVIOUS
<1> QED
  BY <1>1

LEMMA Remainder ==
  ASSUME NEW a \in Nat, NEW N \in Nat \ {0}
  PROVE  /\ a % N \in 0 .. N - 1
         /\ \E q \in Nat : a = q * N + (a % N)
         /\ \A q \in Nat, r \in 0 .. N - 1 : a = q * N + r => a % N = r
<1>1. a % N \in 0 .. N - 1
  OBVIOUS
<1>2. PICK p \in Int : a = p * N + (a % N)
  <2>1. a = (a \div N) * N + (a % N) /\ a \div N \in Int
    OBVIOUS
  <2> QED
    BY <2>1, Zenon
<1>3. ASSUME p < 0
      PROVE  FALSE
  <2>1. (-p) * N >= N
    BY <1>3, Product
  <2> QED
    BY <1>1, <1>2, <2>1
<1>4. ASSUME NEW q \in Nat, NEW r \in 0 .. N - 1, a = q * N + r
      PROVE  a % N = r
  <2>1. CASE q > p
    <3>1. (q - p) * N >= N
      BY <2>1, Product
    <3> QED
      BY <1>1, <1>2, <1>4, <3>1
  <2>2. CASE q < p
    <3>1. (p - q) * N >= N
      BY <2>2, Product
    <3> QED
      BY <1>1, <1>2, <1>4, <3>1
  <2>3. CASE q = p
    BY <1>1, <1>2, <1>4, <2>3
  <2> QED
    BY <2>1, <2>2, <2>3
<1>5. p \in Nat
  BY <1>3
<1> QED
  BY <1>1, <1>2, <1>4, <1>5, Zenon

(***************************************************************************)
(* If L workers take the N places of a list in turn, the workers with a    *)
(* place of the set I.  Workers for q rounds are at least q for each place *)
(* of I: the q rounds times I embed in them.  If L is at most q rounds,    *)
(* they embed in the q rounds times I and are no more than that.           *)
(***************************************************************************)
InTurn(L, N, I) == {w \in 1 .. L : ((w - 1) % N) + 1 \in I}

LEMMA TurnsFinite ==
  ASSUME NEW L \in Nat, NEW N \in Nat, NEW I \in SUBSET (1 .. N), NEW q \in Nat
  PROVE  /\ IsFiniteSet(InTurn(L, N, I)) /\ Cardinality(InTurn(L, N, I)) \in Nat
         /\ IsFiniteSet(I) /\ Cardinality(I) \in Nat
         /\ IsFiniteSet((0 .. q - 1) \X I)
         /\ Cardinality((0 .. q - 1) \X I) = q * Cardinality(I)
<1>1. IsFiniteSet(1 .. L) /\ IsFiniteSet(1 .. N)
  BY FS_Interval
<1>2. InTurn(L, N, I) \in SUBSET (1 .. L)
  BY DEF InTurn
<1>3. IsFiniteSet(InTurn(L, N, I)) /\ IsFiniteSet(I)
  BY <1>1, <1>2, FS_Subset, Zenon
<1>4. IsFiniteSet(0 .. q - 1) /\ Cardinality(0 .. q - 1) = q
  BY FS_Interval
<1> QED
  BY <1>3, <1>4, FS_CardinalityType, FS_Product, Zenon

\* A number determines its quotient and remainder.
LEMMA OneQuotient ==
  ASSUME NEW N \in Nat \ {0}, NEW p \in Nat, NEW q \in Nat,
         NEW r \in 0 .. N - 1, NEW t \in 0 .. N - 1, p * N + r = q * N + t
  PROVE  p = q /\ r = t
<1>1. CASE p > q
  <2>1. (p - q) * N >= N
    BY <1>1, Product
  <2> QED
    BY <2>1
<1>2. CASE p < q
  <2>1. (q - p) * N >= N
    BY <1>2, Product
  <2> QED
    BY <2>1
<1>3. CASE p = q
  BY <1>3
<1> QED
  BY <1>1, <1>2, <1>3

LEMMA AtLeast ==
  ASSUME NEW L \in Nat, NEW N \in Nat \ {0}, NEW I \in SUBSET (1 .. N), NEW q \in Nat,
         L >= q * N
  PROVE  Cardinality(InTurn(L, N, I)) >= q * Cardinality(I)
<1> DEFINE P == (0 .. q - 1) \X I
           W == InTurn(L, N, I)
           f == [p \in P |-> p[1] * N + p[2]]
<1>1. ASSUME NEW t \in 0 .. q - 1, NEW i \in I
      PROVE  t * N + i \in W
  <2>1. t \in Nat /\ i \in 1 .. N /\ i - 1 \in 0 .. N - 1
    OBVIOUS
  <2>2. t * N \in Nat /\ t * N + N <= q * N
    <3>1. (q - t) * N >= N
      BY <2>1, Product
    <3> QED
      BY <2>1, <3>1
  <2> DEFINE w == t * N + i
  <2>3. w \in 1 .. L /\ w - 1 \in Nat /\ w - 1 = t * N + (i - 1)
    BY <2>1, <2>2
  <2>4. (w - 1) % N = i - 1
    <3> HIDE DEF w
    <3>1. \A p \in Nat, r \in 0 .. N - 1 : w - 1 = p * N + r => (w - 1) % N = r
      BY <2>3, Remainder, Zenon
    <3> QED
      BY <2>1, <2>3, <3>1
  <2>5. ((w - 1) % N) + 1 = i
    <3> HIDE DEF w
    <3> QED
      BY <2>1, <2>4
  <2> QED
    BY <2>3, <2>5 DEF InTurn
<1>2. f \in Injection(P, W)
  <2>1. f \in [P -> W]
    BY <1>1, Zenon
  <2>2. ASSUME NEW a \in P, NEW b \in P, f[a] = f[b]
        PROVE  a = b
    <3>1. /\ a = <<a[1], a[2]>> /\ b = <<b[1], b[2]>>
          /\ a[1] \in 0 .. q - 1 /\ b[1] \in 0 .. q - 1 /\ a[2] \in I /\ b[2] \in I
      OBVIOUS
    <3>2. a[1] * N + a[2] = b[1] * N + b[2]
      BY <2>2, Zenon
    <3>3. /\ a[1] \in Nat /\ b[1] \in Nat /\ a[2] \in Nat /\ b[2] \in Nat
          /\ a[2] - 1 \in 0 .. N - 1 /\ b[2] - 1 \in 0 .. N - 1
      <4>1. /\ \A t \in 0 .. q - 1 : t \in Nat
            /\ \A i \in I : i \in Nat /\ i - 1 \in 0 .. N - 1
        OBVIOUS
      <4> QED
        BY <3>1, <4>1, Zenon
    <3>4. a[1] * N + (a[2] - 1) = b[1] * N + (b[2] - 1)
      <4>1. a[1] * N \in Nat /\ b[1] * N \in Nat
        BY <3>3
      <4> QED
        BY <3>2, <3>3, <4>1
    <3>5. a[1] = b[1] /\ a[2] - 1 = b[2] - 1
      <4>1. \A t, u \in Nat, i, j \in 0 .. N - 1 : t * N + i = u * N + j => t = u /\ i = j
        BY OneQuotient, Zenon
      <4> QED
        BY <3>3, <3>4, <4>1, SMTT(30)
    <3> QED
      BY <3>1, <3>3, <3>5
  <2> QED
    BY <2>1, <2>2, Fun_IsInj
<1> HIDE DEF P, W, f
<1>3. /\ IsFiniteSet(W) /\ Cardinality(W) \in Nat
      /\ Cardinality(P) = q * Cardinality(I) /\ Cardinality(I) \in Nat
  BY TurnsFinite, Zenon DEF P, W
<1>4. Cardinality(P) <= Cardinality(W)
  BY <1>2, <1>3, FS_Injection, Zenon
<1> QED
  BY <1>3, <1>4, SMTT(30) DEF W

LEMMA AtMost ==
  ASSUME NEW L \in Nat, NEW N \in Nat \ {0}, NEW I \in SUBSET (1 .. N), NEW q \in Nat,
         L <= q * N
  PROVE  Cardinality(InTurn(L, N, I)) <= q * Cardinality(I)
<1> DEFINE P == (0 .. q - 1) \X I
           W == InTurn(L, N, I)
           R(w) == CHOOSE t \in Nat : w - 1 = t * N + ((w - 1) % N)
           f == [w \in W |-> <<R(w), ((w - 1) % N) + 1>>]
<1>1. ASSUME NEW w \in W
      PROVE  /\ w \in 1 .. L /\ (w - 1) % N \in 0 .. N - 1 /\ ((w - 1) % N) + 1 \in I
             /\ R(w) \in 0 .. q - 1 /\ w - 1 = R(w) * N + ((w - 1) % N)
  <2>1. w \in 1 .. L /\ ((w - 1) % N) + 1 \in I
    BY DEF InTurn
  <2>2. w - 1 \in Nat
    BY <2>1
  <2>3. /\ (w - 1) % N \in 0 .. N - 1
        /\ \E t \in Nat : w - 1 = t * N + ((w - 1) % N)
    BY <2>2, Remainder, Zenon
  <2>4. R(w) \in Nat /\ w - 1 = R(w) * N + ((w - 1) % N)
    BY <2>3, Zenon
  <2> HIDE DEF R
  <2>5. ASSUME R(w) >= q
        PROVE  FALSE
    <3>1. R(w) * N >= q * N
      <4>1. (R(w) - q) * N >= 0
        BY <2>4, <2>5
      <4> QED
        BY <2>4, <4>1
    <3> QED
      BY <2>1, <2>3, <2>4, <3>1
  <2> QED
    BY <2>1, <2>3, <2>4, <2>5
<1>2. f \in Injection(W, P)
  <2> HIDE DEF R, W
  <2>1. f \in [W -> P]
    BY <1>1
  <2>2. ASSUME NEW a \in W, NEW b \in W, f[a] = f[b]
        PROVE  a = b
    <3>1. R(a) = R(b) /\ ((a - 1) % N) + 1 = ((b - 1) % N) + 1
      BY <2>2
    <3>2. (a - 1) % N = (b - 1) % N
      BY <1>1, <3>1
    <3>3. a - 1 = b - 1
      BY <1>1, <3>1, <3>2, Zenon
    <3> QED
      BY <1>1, <3>3
  <2> QED
    BY <2>1, <2>2, Fun_IsInj
<1> HIDE DEF P, W, R, f
<1>3. /\ IsFiniteSet(P) /\ Cardinality(W) \in Nat
      /\ Cardinality(P) = q * Cardinality(I) /\ Cardinality(I) \in Nat
  BY TurnsFinite, Zenon DEF P, W
<1>4. Cardinality(W) <= Cardinality(P)
  BY <1>2, <1>3, FS_Injection, Zenon
<1> QED
  BY <1>3, <1>4 DEF W

(***************************************************************************)
(* While a node is not stopped, its workers are all there and worker k has *)
(* the channel whose turn it was, of as many channels as the node has now. *)
(***************************************************************************)
Turns(p, cnt, N) ==
    /\ Len(p) = cnt
    /\ \A k \in 1 .. cnt : p[k] = ((k - 1) % N) + 1

TurnInv ==
    \A n \in Nodes :
        ~isStop[n] => Turns(picked[n], workerCnt[n], GetChannelNum(n, "in"))

\* A stopped node stays stopped.
LEMMA StopStays ==
  ASSUME [Next]_vars, NEW n \in Nodes, ~isStop'[n]
  PROVE  ~isStop[n]
<1>1. CASE Shutdown
  BY <1>1, Zenon DEF Shutdown
<1>2. CASE UNCHANGED isStop
  BY <1>2, SMTT(30)
<1> QED
  BY <1>1, <1>2 DEF Next, vars, nodeVars, Connect, RunAsThreads, IncThreads, Leave, Join

LEMMA TurnStep ==
  ASSUME TopologyType, TurnInv, [Next]_vars
  PROVE  TurnInv'
<1> SUFFICES ASSUME NEW n \in Nodes, ~isStop'[n]
             PROVE  Turns(picked'[n], workerCnt'[n], GetChannelNum(n, "in")')
  BY DEF TurnInv
<1>0. ~isStop[n]
  BY StopStays
<1>1. /\ Turns(picked[n], workerCnt[n], GetChannelNum(n, "in"))
      /\ workerCnt[n] \in Nat /\ picked[n] \in Seq(Nat) /\ spawned[n] \in Nat
  BY <1>0 DEF TurnInv, TopologyType
<1>2. CASE /\ picked'[n] = picked[n] /\ workerCnt'[n] = workerCnt[n]
           /\ GetChannelNum(n, "in")' = GetChannelNum(n, "in")
  BY <1>1, <1>2
<1>3. ASSUME NEW up \in Nodes, NEW down \in Nodes, NEW reuse \in Reuses,
             Connect(up, down, reuse)
      PROVE  Turns(picked'[n], workerCnt'[n], GetChannelNum(n, "in")')
  <2>1. picked' = picked /\ workerCnt' = workerCnt
    BY <1>3 DEF Connect, nodeVars
  <2>2. CASE n = up \/ n = down
    <3>1. workerCnt[n] = 0
      BY <1>1, <1>3, <2>2, SMTT(30) DEF Connect, TopologyType
    <3> QED
      BY <1>1, <2>1, <3>1 DEF Turns
  <2>3. CASE n # up /\ n # down
    <3>1. GetChannelNum(n, "in")' = GetChannelNum(n, "in")
      BY <1>3, <2>3, ConnectFacts DEF GetChannelNum, Directions
    <3> QED
      BY <1>1, <2>1, <3>1
  <2> QED
    BY <2>2, <2>3
<1>4. ASSUME NEW m \in Nodes, IncThreads(m)
      PROVE  Turns(picked'[n], workerCnt'[n], GetChannelNum(n, "in")')
  <2>1. GetChannelNum(n, "in")' = GetChannelNum(n, "in")
    BY <1>4 DEF IncThreads, GetChannelNum, GetChannels
  <2>2. CASE m # n \/ GetChannelNum(n, "in") = 0
    <3>1. picked'[n] = picked[n] /\ workerCnt'[n] = workerCnt[n]
      BY <1>4, <2>2, SMTT(30) DEF IncThreads, TopologyType
    <3> QED
      BY <1>2, <2>1, <3>1
  <2>3. CASE m = n /\ GetChannelNum(n, "in") # 0
    <3> DEFINE N == GetChannelNum(n, "in")
               c == (workerCnt[n] % N) + 1
    <3>1. picked'[n] = Append(picked[n], c) /\ workerCnt'[n] = workerCnt[n] + 1
      BY <1>4, <2>3 DEF IncThreads, TopologyType
    <3>2. N \in Nat /\ N > 0
      BY <2>3, EndsType DEF Directions
    <3>3. c \in Nat
      BY <1>1, <3>2, SMTT(30)
    <3> HIDE DEF N, c
    <3>4. /\ Len(picked'[n]) = Len(picked[n]) + 1
          /\ \A k \in 1 .. Len(picked[n]) : picked'[n][k] = picked[n][k]
          /\ picked'[n][Len(picked[n]) + 1] = c
      BY <1>1, <3>1, <3>3, AppendProperties, SMTT(30)
    <3>5. Turns(picked[n], workerCnt[n], N)
      BY <1>1 DEF N
    <3>6. c = (((workerCnt[n] + 1) - 1) % N) + 1
      <4>1. (workerCnt[n] + 1) - 1 = workerCnt[n]
        BY <1>1
      <4> QED
        BY <4>1 DEF c
    <3>7. Turns(picked'[n], workerCnt[n] + 1, N)
      <4>1. Len(picked[n]) = workerCnt[n] /\ Len(picked'[n]) = workerCnt[n] + 1
        BY <3>4, <3>5 DEF Turns
      <4>2. ASSUME NEW k \in 1 .. workerCnt[n] + 1
            PROVE  picked'[n][k] = ((k - 1) % N) + 1
        <5>1. CASE k \in 1 .. workerCnt[n]
          BY <3>4, <3>5, <4>1, <5>1, SMTT(30) DEF Turns
        <5>2. CASE k = workerCnt[n] + 1
          BY <3>4, <3>6, <4>1, <5>2
        <5> QED
          BY <1>1, <5>1, <5>2
      <4> QED
        BY <4>1, <4>2 DEF Turns
    <3> QED
      BY <2>1, <3>1, <3>7, SMTT(30) DEF N
  <2> QED
    BY <2>2, <2>3
<1>5. ASSUME NEW m \in Nodes, Leave(m)
      PROVE  Turns(picked'[n], workerCnt'[n], GetChannelNum(n, "in")')
  <2>1. m # n
    BY <1>0, <1>5 DEF Leave
  <2> QED
    BY <1>2, <1>5, <2>1 DEF Leave, TopologyType, GetChannelNum, GetChannels
<1>6. CASE UNCHANGED <<picked, workerCnt, channels>>
  BY <1>2, <1>6, SMTT(30) DEF GetChannelNum, GetChannels
<1> QED
  BY <1>3, <1>4, <1>5, <1>6, SMTT(30) DEF Next, vars, nodeVars, RunAsThreads, Shutdown, Join

(***************************************************************************)
(* Balanced.  However many workers a node runs, however many places its IN *)
(* list has and however often reuse put a channel there, IncThreads serves *)
(* every channel in proportion; with a worker for each place, all are read.*)
(***************************************************************************)
THEOREM WorkersBalanced == Spec => []Balanced
<1>1. Init => TurnInv
  BY EmptySeq DEF Init, TurnInv, Turns
<1>2. TopologyType /\ TurnInv => Balanced
  <2> SUFFICES ASSUME TopologyType, TurnInv, NEW n \in Nodes, ~isStop[n],
                      NEW c \in Ends(n, "in"), NEW q \in 0 .. Len(picked[n])
               PROVE  /\ Len(picked[n]) >= q * GetChannelNum(n, "in") =>
                            Readers(n, c) >= q * Listings(n, c)
                      /\ Len(picked[n]) <= q * GetChannelNum(n, "in") =>
                            Readers(n, c) <= q * Listings(n, c)
    BY DEF Balanced
  <2> DEFINE s == GetChannels(n, "in")
             N == GetChannelNum(n, "in")
             L == workerCnt[n]
             I == {i \in DOMAIN s : s[i] = c}
  <2>1. N \in Nat /\ L \in Nat /\ picked[n] \in Seq(Nat) /\ Turns(picked[n], L, N)
    <3>1. N \in Nat
      BY EndsType DEF Directions
    <3> QED
      BY <3>1 DEF TopologyType, TurnInv
  <2>2. DOMAIN s = 1 .. N
    BY EndsType, LenProperties DEF Directions, GetChannelNum
  <2>3. I \in SUBSET (1 .. N) /\ N \in Nat \ {0}
    BY <2>1, <2>2 DEF Ends
  <2>4. /\ DOMAIN picked[n] = 1 .. L /\ Len(picked[n]) = L
        /\ \A w \in 1 .. L : picked[n][w] = ((w - 1) % N) + 1
    BY <2>1, LenProperties DEF Turns
  <2>5. {w \in DOMAIN picked[n] : s[picked[n][w]] = c} = InTurn(L, N, I)
    <3>1. ASSUME NEW w \in 1 .. L
          PROVE  s[picked[n][w]] = c <=> ((w - 1) % N) + 1 \in I
      <4>1. w - 1 \in Nat
        BY <2>1
      <4>2. (w - 1) % N \in 0 .. N - 1
        BY <2>3, <4>1, Remainder, Zenon
      <4>3. ((w - 1) % N) + 1 \in 1 .. N
        <5> HIDE DEF N
        <5> QED
          BY <2>1, <4>2
      <4> QED
        BY <2>2, <2>4, <4>3, Zenon
    <3> QED
      BY <2>4, <3>1, Zenon DEF InTurn
  <2>6. Readers(n, c) = Cardinality(InTurn(L, N, I)) /\ Listings(n, c) = Cardinality(I)
    BY <2>5, Zenon DEF Readers, Listings
  <2>7. q \in Nat
    BY <2>1, <2>4
  <2> HIDE DEF s, N, L, I
  <2>8. L >= q * N => Readers(n, c) >= q * Listings(n, c)
    BY <2>1, <2>3, <2>6, <2>7, AtLeast, Zenon
  <2>9. L <= q * N => Readers(n, c) <= q * Listings(n, c)
    BY <2>1, <2>3, <2>6, <2>7, AtMost, Zenon
  <2> QED
    BY <2>4, <2>8, <2>9, Zenon DEF N
<1> QED
  BY <1>1, <1>2, TurnStep, TopologyTyped, PTL DEF Spec

===============================================================================
