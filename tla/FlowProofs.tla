------------------------------ MODULE FlowProofs ------------------------------
(***************************************************************************)
(* Proofs about Services, for any topology, any number of workers, feeders *)
(* and callers of Shutdown, any messages and any capacity: a message is at *)
(* one place at a time, what Shutdown releases is at rest, and the routes  *)
(* that the messages of a flow take.                                       *)
(***************************************************************************)
EXTENDS Services, TLAPS

\* Zenon proves what cites no prover; a leaf about numbers, functions or records cites SMT.
USE ZenonT(30)

(***************************************************************************)
(* Families of sequences: chn is one, delivered is one.                    *)
(***************************************************************************)
Family(F, K, M) == F \in [K -> Seq(M)]
Longer(F, G, k, m) == G = [F EXCEPT ![k] = Append(@, m)]
Shorter(F, G, k) == G = [F EXCEPT ![k] = Tail(@)]

\* An element stands in one of the sequences.
Holds(F, m) == \E k \in DOMAIN F : m \in SeqRange(F[k])

\* No element stands at two places.
NoRepeat(F) ==
    \A k, l \in DOMAIN F : \A i \in DOMAIN F[k], j \in DOMAIN F[l] :
        F[k][i] = F[l][j] => k = l /\ i = j

\* The positions of a sequence that Append extends.
LEMMA AppendFacts ==
  ASSUME NEW M, NEW s \in Seq(M), NEW m \in M
  PROVE  /\ Append(s, m) \in Seq(M)
         /\ Len(s) \in Nat
         /\ DOMAIN s = 1 .. Len(s)
         /\ DOMAIN Append(s, m) = DOMAIN s \cup {Len(s) + 1}
         /\ \A i \in DOMAIN s : Append(s, m)[i] = s[i]
         /\ Append(s, m)[Len(s) + 1] = m
         /\ SeqRange(Append(s, m)) = SeqRange(s) \cup {m}
<1> DEFINE r == Append(s, m)
<1>1. /\ r \in Seq(M) /\ Len(s) \in Nat /\ Len(r) = Len(s) + 1
      /\ DOMAIN s = 1 .. Len(s) /\ DOMAIN r = 1 .. Len(r)
      /\ \A i \in 1 .. Len(s) : r[i] = s[i]
      /\ r[Len(s) + 1] = m
  BY SMTT(30)
<1>2. DOMAIN r = DOMAIN s \cup {Len(s) + 1}
  BY <1>1, SMTT(30)
<1> HIDE DEF r
<1>3. SeqRange(r) = SeqRange(s) \cup {m}
  BY <1>1, <1>2, SMTT(30) DEF SeqRange
<1> QED
  BY <1>1, <1>2, <1>3 DEF r

\* The positions of a sequence whose head is taken.
LEMMA TailFacts ==
  ASSUME NEW M, NEW s \in Seq(M), s # <<>>
  PROVE  /\ Head(s) \in M /\ Head(s) = s[1] /\ 1 \in DOMAIN s
         /\ Tail(s) \in Seq(M)
         /\ DOMAIN s \subseteq Nat \ {0} /\ DOMAIN Tail(s) \subseteq Nat \ {0}
         /\ \A i \in DOMAIN Tail(s) : i + 1 \in DOMAIN s /\ Tail(s)[i] = s[i + 1]
         /\ \A i \in DOMAIN s : i # 1 => i - 1 \in DOMAIN Tail(s) /\ Tail(s)[i - 1] = s[i]
<1>1. /\ Len(s) \in Nat /\ Len(s) > 0 /\ DOMAIN s = 1 .. Len(s) /\ Head(s) = s[1]
      /\ Head(s) \in M /\ Tail(s) \in Seq(M) /\ Len(Tail(s)) = Len(s) - 1
      /\ \A i \in 1 .. Len(Tail(s)) : Tail(s)[i] = s[i + 1]
  BY SMTT(30)
<1>2. DOMAIN Tail(s) = 1 .. Len(s) - 1
  BY <1>1, SMTT(30)
<1>3. ASSUME NEW i \in DOMAIN s, i # 1
      PROVE  i - 1 \in DOMAIN Tail(s) /\ Tail(s)[i - 1] = s[i]
  <2>1. i - 1 \in 1 .. Len(s) - 1 /\ (i - 1) + 1 = i
    BY <1>1, <1>3, SMTT(30)
  <2> QED
    BY <1>1, <1>2, <2>1
<1>4. \A i \in DOMAIN Tail(s) : i + 1 \in DOMAIN s /\ Tail(s)[i] = s[i + 1]
  BY <1>1, <1>2, SMTT(30)
<1> QED
  BY <1>1, <1>2, <1>3, <1>4, SMTT(30)

\* Appending a new element to one member of a family.
LEMMA FamilyAppend ==
  ASSUME NEW K, NEW M, NEW F, NEW G, Family(F, K, M), NEW k \in K, NEW m \in M,
         NoRepeat(F), ~Holds(F, m), Longer(F, G, k, m)
  PROVE  /\ Family(G, K, M)
         /\ NoRepeat(G)
         /\ \A x : Holds(G, x) <=> Holds(F, x) \/ x = m
<1> DEFINE s == F[k]
<1>1. s \in Seq(M) /\ DOMAIN F = K
  BY DEF Family
<1>2. /\ Append(s, m) \in Seq(M)
      /\ Len(s) \in Nat
      /\ DOMAIN s = 1 .. Len(s)
      /\ DOMAIN Append(s, m) = DOMAIN s \cup {Len(s) + 1}
      /\ \A i \in DOMAIN s : Append(s, m)[i] = s[i]
      /\ Append(s, m)[Len(s) + 1] = m
      /\ SeqRange(Append(s, m)) = SeqRange(s) \cup {m}
  BY <1>1, AppendFacts, SMTT(30)
<1>3. /\ G \in [K -> Seq(M)] /\ DOMAIN G = K /\ G[k] = Append(s, m)
      /\ \A l \in K : l # k => G[l] = F[l]
  BY <1>2 DEF Family, Longer, Shorter
<1>4. \A x : Holds(G, x) <=> Holds(F, x) \/ x = m
  <2>1. \A l \in K : SeqRange(G[l]) = SeqRange(F[l]) \cup (IF l = k THEN {m} ELSE {})
    BY <1>2, <1>3
  <2> QED
    BY <1>1, <1>3, <2>1 DEF Holds
<1>5. \A l \in K : \A i \in DOMAIN F[l] : F[l][i] # m
  BY <1>1 DEF Holds, SeqRange
<1>6. \A l \in K : \A i \in DOMAIN G[l] :
         \/ i \in DOMAIN F[l] /\ G[l][i] = F[l][i]
         \/ l = k /\ i = Len(s) + 1 /\ G[l][i] = m
  BY <1>2, <1>3
<1>7. NoRepeat(G)
  <2> SUFFICES ASSUME NEW l \in K, NEW j \in K, NEW a \in DOMAIN G[l], NEW b \in DOMAIN G[j],
                      G[l][a] = G[j][b]
               PROVE  l = j /\ a = b
    BY <1>3 DEF NoRepeat
  <2>1. /\ (a \in DOMAIN F[l] /\ G[l][a] = F[l][a]) \/ (l = k /\ a = Len(s) + 1 /\ G[l][a] = m)
        /\ (b \in DOMAIN F[j] /\ G[j][b] = F[j][b]) \/ (j = k /\ b = Len(s) + 1 /\ G[j][b] = m)
    BY <1>6
  <2> QED
    BY <1>1, <1>5, <2>1, SMTT(30) DEF NoRepeat
<1> QED
  BY <1>3, <1>4, <1>7 DEF Family

\* Taking the head off one member of a family.
LEMMA FamilyTail ==
  ASSUME NEW K, NEW M, NEW F, NEW G, Family(F, K, M), NEW k \in K, F[k] # <<>>,
         NoRepeat(F), Shorter(F, G, k)
  PROVE  /\ Family(G, K, M)
         /\ NoRepeat(G)
         /\ \A x : Holds(G, x) <=> Holds(F, x) /\ x # Head(F[k])
         /\ Head(F[k]) \in M /\ Holds(F, Head(F[k]))
<1> DEFINE s == F[k]
<1>1. s \in Seq(M) /\ DOMAIN F = K /\ s # <<>>
  BY DEF Family
<1>2. /\ Head(s) \in M /\ Head(s) = s[1] /\ 1 \in DOMAIN s
      /\ Tail(s) \in Seq(M)
      /\ DOMAIN s \subseteq Nat \ {0} /\ DOMAIN Tail(s) \subseteq Nat \ {0}
      /\ \A i \in DOMAIN Tail(s) : i + 1 \in DOMAIN s /\ Tail(s)[i] = s[i + 1]
      /\ \A i \in DOMAIN s : i # 1 => i - 1 \in DOMAIN Tail(s) /\ Tail(s)[i - 1] = s[i]
  BY <1>1, TailFacts
<1>3. /\ G \in [K -> Seq(M)] /\ DOMAIN G = K /\ G[k] = Tail(s)
      /\ \A l \in K : l # k => G[l] = F[l]
  BY <1>2 DEF Family, Longer, Shorter
<1>4. Holds(F, Head(s))
  BY <1>1, <1>2, SMTT(30) DEF Holds, SeqRange
<1>5. ASSUME NEW x, Holds(G, x)
      PROVE  Holds(F, x) /\ x # Head(s)
  <2>1. PICK l \in K : \E i \in DOMAIN G[l] : G[l][i] = x
    BY <1>3, <1>5 DEF Holds, SeqRange
  <2>i. PICK i \in DOMAIN G[l] : G[l][i] = x
    BY <2>1
  <2>2. CASE l = k
    <3>0. i \in DOMAIN Tail(s) /\ Tail(s)[i] = x
      BY <1>3, <2>i, <2>2
    <3>1. i + 1 \in DOMAIN s /\ s[i + 1] = x /\ i + 1 # 1
      BY <1>2, <3>0, SMTT(30)
    <3> QED
      BY <1>1, <1>2, <3>1, SMTT(30) DEF Holds, SeqRange, NoRepeat
  <2>3. CASE l # k
    <3>1. i \in DOMAIN F[l] /\ F[l][i] = x
      BY <1>3, <2>i, <2>3
    <3> QED
      BY <1>1, <1>2, <2>3, <3>1, SMTT(30) DEF Holds, SeqRange, NoRepeat
  <2> QED
    BY <2>2, <2>3
<1>6. ASSUME NEW x, Holds(F, x), x # Head(s)
      PROVE  Holds(G, x)
  <2>1. PICK l \in K : \E i \in DOMAIN F[l] : F[l][i] = x
    BY <1>1, <1>6 DEF Holds, SeqRange
  <2>i. PICK i \in DOMAIN F[l] : F[l][i] = x
    BY <2>1
  <2>2. CASE l = k
    <3>1. i - 1 \in DOMAIN G[l] /\ G[l][i - 1] = x
      BY <1>2, <1>3, <1>6, <2>i, <2>2
    <3> QED
      BY <1>3, <3>1 DEF Holds, SeqRange
  <2>3. CASE l # k
    BY <1>3, <2>i, <2>3 DEF Holds, SeqRange
  <2> QED
    BY <2>2, <2>3
<1>7. NoRepeat(G)
  <2> SUFFICES ASSUME NEW l \in K, NEW j \in K, NEW a \in DOMAIN G[l], NEW b \in DOMAIN G[j],
                      G[l][a] = G[j][b]
               PROVE  l = j /\ a = b
    BY <1>3 DEF NoRepeat
  <2>1. \E c \in DOMAIN F[l] : F[l][c] = G[l][a] /\ c = IF l = k THEN a + 1 ELSE a
    BY <1>2, <1>3
  <2>2. \E d \in DOMAIN F[j] : F[j][d] = G[j][b] /\ d = IF j = k THEN b + 1 ELSE b
    BY <1>2, <1>3
  <2>3. l = j /\ (IF l = k THEN a + 1 ELSE a) = (IF j = k THEN b + 1 ELSE b)
    BY <1>1, <2>1, <2>2, SMTT(30) DEF NoRepeat
  <2>4. l = k => a \in Nat /\ b \in Nat
    BY <1>2, <1>3, <2>3
  <2> QED
    BY <2>3, <2>4, SMTT(30)
<1> QED
  BY <1>2, <1>3, <1>4, <1>5, <1>6, <1>7 DEF Family

-----------------------------------------------------------------------------
(***************************************************************************)
(* What a thread has in hand at each point of its loop.                    *)
(***************************************************************************)
Sending(t) ==
    /\ node[t] \in Nodes /\ Out[node[t]] # <<>>
    /\ target[t] = DispatchChannel(node[t], msg[t])
    /\ t \in Workers => Kind[node[t]] = "relay"
    /\ t \in Feeders => node[t] = Origin[msg[t]] /\ node[t] \in Feeds[t]

ThreadOK(t) ==
    /\ msg[t] \in IF pc[t] \in {"handle", "writing"} THEN Msgs ELSE {NoMsg}
    /\ pc[t] = "writing" => Sending(t)
    /\ t \in Feeders => pc[t] # "handle"
    /\ t \in Workers => /\ node[t] = t[1]
                        /\ pc[t] # "start" => chnOf[t] \in SeqRange(In[t[1]])

Domains ==
    /\ DOMAIN pc = Threads /\ DOMAIN node = Threads
    /\ DOMAIN target = Threads /\ DOMAIN chnOf = Workers
    /\ msg \in [Threads -> Msgs \cup {NoMsg}]

FlowType ==
    /\ workerCnt \in [Nodes -> Nat]
    /\ chn \in [Chns -> Seq(Msgs)]
    /\ delivered \in [Nodes -> Seq(Msgs)]
    /\ fed \in Seq(Msgs)
    /\ dropped \subseteq Msgs
    /\ Domains
    /\ \A t \in Threads : ThreadOK(t)

\* A worker works for a node that was run: it has channels to read.
LEMMA WorkerFacts ==
  ASSUME NEW w \in Workers
  PROVE  /\ w \in Threads /\ w \notin Feeders
         /\ w[1] \in Running /\ w[1] \in Nodes
         /\ In[w[1]] \in Seq(Chns) /\ In[w[1]] # <<>>
         /\ Out[w[1]] # <<>> => Kind[w[1]] \in {"relay", "duplex"}
<1>1. w \in Nodes \X (1 .. 9) /\ w[2] <= NumThreads[w[1]]
  BY DEF Workers
<1>2. w[1] \in Nodes /\ w[2] \in 1 .. 9 /\ NumThreads[w[1]] \in 0 .. 9
  BY <1>1, ServicesAssumption
<1>3. w[1] \in Running
  BY <1>1, <1>2, SMTT(30) DEF Running
<1> QED
  BY <1>2, <1>3, ServicesAssumption DEF Threads

\* The channels of a node are channels.
LEMMA ChannelFacts ==
  /\ \A n \in Nodes : SeqRange(In[n]) \subseteq Chns
  /\ \A n \in Nodes, m \in Msgs : Out[n] # <<>> => DispatchChannel(n, m) \in SeqRange(Out[n])
  /\ \A n \in Nodes, m \in Msgs : Out[n] # <<>> => DispatchChannel(n, m) \in Chns
  /\ \A n \in Nodes, k \in Nat : In[n] # <<>> => In[n][(k % Len(In[n])) + 1] \in SeqRange(In[n])
<1>1. \A n \in Nodes : SeqRange(In[n]) \subseteq Chns /\ SeqRange(Out[n]) \subseteq Chns
  BY DEF Chns
<1>2. ASSUME NEW s \in Seq(Chns), s # <<>>, NEW k \in Nat
      PROVE  s[(k % Len(s)) + 1] \in SeqRange(s)
  <2>1. Len(s) \in Nat /\ Len(s) > 0 /\ DOMAIN s = 1 .. Len(s)
    BY <1>2, SMTT(30)
  <2>2. (k % Len(s)) + 1 \in 1 .. Len(s)
    BY <2>1, SMTT(30)
  <2> QED
    BY <2>1, <2>2 DEF SeqRange
<1>3. \A n \in Nodes, m \in Msgs : Out[n] # <<>> => DispatchChannel(n, m) \in SeqRange(Out[n])
  BY <1>2, ServicesAssumption DEF DispatchChannel
<1>4. \A n \in Nodes, k \in Nat : In[n] # <<>> => In[n][(k % Len(In[n])) + 1] \in SeqRange(In[n])
  BY <1>2, ServicesAssumption
<1> QED
  BY <1>1, <1>3, <1>4

-----------------------------------------------------------------------------
(***************************************************************************)
(* What a step does to the messages: one moves, or none.                   *)
(***************************************************************************)
Rests ==
    /\ UNCHANGED <<chn, msg, fed, delivered, dropped>>
    /\ \A w \in Workers : msg[w] \in Msgs => chnOf'[w] = chnOf[w]

Takes(w) ==
    /\ pc[w] = "reading" /\ msg[w] = NoMsg /\ chn[chnOf[w]] # <<>>
    /\ msg' = [msg EXCEPT ![w] = Head(chn[chnOf[w]])]
    /\ chn' = [chn EXCEPT ![chnOf[w]] = Tail(@)]
    /\ UNCHANGED <<chnOf, fed, delivered, dropped>>

Puts(t) ==
    /\ pc[t] = "writing" /\ msg[t] \in Msgs
    /\ msg' = [msg EXCEPT ![t] = NoMsg]
    /\ chn' = [chn EXCEPT ![target[t]] = Append(@, msg[t])]
    /\ UNCHANGED <<chnOf, fed, delivered, dropped>>

Gives(w) ==
    /\ pc[w] = "handle" /\ msg[w] \in Msgs /\ Kind[w[1]] # "relay"
    /\ msg' = [msg EXCEPT ![w] = NoMsg]
    /\ delivered' = [delivered EXCEPT ![w[1]] = Append(@, msg[w])]
    /\ UNCHANGED <<chn, chnOf, fed, dropped>>

\* Why WriteMessage may fail: the channel is broken, or there is none.
Failing(n, m) == Out[n] = <<>> \/ broken[DispatchChannel(n, m)]

Loses(t) ==
    /\ msg[t] \in Msgs
    /\ msg' = [msg EXCEPT ![t] = NoMsg]
    /\ dropped' = dropped \cup {msg[t]}
    /\ \E n \in Dispatching : n \in Nodes /\ Failing(n, msg[t])
    /\ UNCHANGED <<chn, chnOf, fed, delivered>>

Enters(f, m) ==
    /\ pc[f] = "out" /\ msg[f] = NoMsg /\ m \notin SeqRange(fed) /\ Origin[m] \in Feeds[f]
    /\ fed' = Append(fed, m)
    /\ UNCHANGED <<chn, chnOf, delivered>>
    /\ \/ msg' = [msg EXCEPT ![f] = m] /\ UNCHANGED dropped
       \/ /\ UNCHANGED msg /\ dropped' = dropped \cup {m}
          /\ \E n \in Dispatching : n \in Nodes /\ Failing(n, m)

Moves ==
    \/ Rests
    \/ \E w \in Workers : Takes(w) \/ Gives(w)
    \/ \E t \in Threads : Puts(t) \/ Loses(t)
    \/ \E f \in Feeders, m \in Msgs : Enters(f, m)

\* Only the thread that takes the step has to be looked at.
LEMMA OneMoves ==
  ASSUME FlowType, NEW t \in Threads, ThreadOK(t)',
         \A u \in Threads \ {t} :
            /\ pc'[u] = pc[u] /\ msg'[u] = msg[u] /\ node'[u] = node[u]
            /\ target'[u] = target[u] /\ (u \in Workers => chnOf'[u] = chnOf[u])
  PROVE  \A u \in Threads : ThreadOK(u)'
<1> SUFFICES ASSUME NEW u \in Threads, u # t PROVE ThreadOK(u)'
  OBVIOUS
<1>1. ThreadOK(u)
  BY DEF FlowType
<1>2. Sending(u) => Sending(u)'
  BY DEF Sending, DispatchChannel
<1> QED
  BY <1>1, <1>2 DEF ThreadOK

\* Dispatch, as a worker calls it for its message or a feeder for a new one.
LEMMA DispatchFacts ==
  ASSUME FlowType, NEW t \in Threads, NEW n \in Nodes, NEW m \in Msgs, Dispatch(t, n, m),
         UNCHANGED chnOf, DOMAIN node' = Threads, node'[t] = n,
         \A u \in Threads \ {t} : node'[u] = node[u],
         t \in Workers => n = t[1] /\ Kind[n] # "duplex" /\ pc[t] = "handle",
         t \in Feeders => n = Origin[m] /\ n \in Feeds[t]
  PROVE  /\ Domains' /\ \A u \in Threads : ThreadOK(u)'
         /\ \/ msg' = [msg EXCEPT ![t] = NoMsg] /\ dropped' = dropped \cup {m} /\ Failing(n, m)
            \/ msg' = [msg EXCEPT ![t] = m] /\ dropped' = dropped
<1> USE DEF Domains
<1>0. Domains /\ ThreadOK(t)
  BY DEF FlowType
<1>1. CASE /\ Out[n] # <<>> => broken[DispatchChannel(n, m)]
           /\ dropped' = dropped \cup {m}
           /\ pc' = [pc EXCEPT ![t] = Home(t)]
           /\ msg' = [msg EXCEPT ![t] = NoMsg]
           /\ UNCHANGED target
  <2>1. pc'[t] = Home(t) /\ msg'[t] = NoMsg /\ Domains'
    BY <1>0, <1>1
  <2>2. ThreadOK(t)'
    BY <1>0, <2>1 DEF ThreadOK, Home
  <2>3. \A u \in Threads : ThreadOK(u)'
    BY <1>0, <1>1, <2>2, OneMoves
  <2> QED
    BY <1>1, <2>1, <2>3 DEF Failing
<1>2. CASE /\ Out[n] # <<>> /\ ~broken[DispatchChannel(n, m)]
           /\ target' = [target EXCEPT ![t] = DispatchChannel(n, m)]
           /\ pc' = [pc EXCEPT ![t] = "writing"]
           /\ msg' = [msg EXCEPT ![t] = m]
           /\ UNCHANGED dropped
  <2>1. pc'[t] = "writing" /\ msg'[t] = m /\ target'[t] = DispatchChannel(n, m) /\ Domains'
    BY <1>0, <1>2
  <2>2. t \in Workers => Kind[n] = "relay"
    BY <1>2, WorkerFacts
  <2>3. Sending(t)'
    BY <1>2, <2>1, <2>2 DEF Sending, DispatchChannel
  <2>4. ThreadOK(t)'
    <3>1. t \in Workers => t \notin Feeders
      BY WorkerFacts
    <3> QED
      BY <1>0, <2>1, <2>3, <3>1 DEF ThreadOK
  <2>5. \A u \in Threads : ThreadOK(u)'
    BY <1>0, <1>2, <2>4, OneMoves
  <2> QED
    BY <1>2, <2>1, <2>5
<1> QED
  BY <1>1, <1>2 DEF Dispatch

(***************************************************************************)
(* Every step keeps the types and is one of the moves.                     *)
(***************************************************************************)
LEMMA StepMoves ==
  ASSUME FlowType, [Next]_vars
  PROVE  FlowType' /\ Moves
<1>0. Domains /\ \A t \in Threads : ThreadOK(t)
  BY DEF FlowType
<1>1. ASSUME NEW w \in Workers, Start(w)
      PROVE  FlowType' /\ Moves
  <2>1. /\ pc[w] = "start" /\ node[w] = w[1] /\ msg[w] = NoMsg /\ w \in Threads
        /\ workerCnt[w[1]] \in Nat /\ w[1] \in Nodes /\ In[w[1]] # <<>> /\ w \notin Feeders
    BY <1>0, <1>1, WorkerFacts DEF Start, ThreadOK, FlowType
  <2>2. /\ chnOf' = [chnOf EXCEPT ![w] = In[w[1]][(workerCnt[w[1]] % Len(In[w[1]])) + 1]]
        /\ workerCnt' = [workerCnt EXCEPT ![w[1]] = @ + 1]
        /\ pc' = [pc EXCEPT ![w] = "loop"]
        /\ UNCHANGED <<chn, node, msg, target, fed, delivered, dropped>>
    BY <1>1, <2>1 DEF Start, ChannelIndex
  <2>3. /\ chnOf'[w] \in SeqRange(In[w[1]]) /\ pc'[w] = "loop" /\ Domains'
        /\ \A v \in Workers : v # w => chnOf'[v] = chnOf[v]
    BY <1>0, <2>1, <2>2, ChannelFacts DEF Domains
  <2>4. ThreadOK(w)'
    BY <2>1, <2>2, <2>3 DEF ThreadOK
  <2>5. \A u \in Threads : ThreadOK(u)'
    BY <1>0, <2>1, <2>2, <2>3, <2>4, OneMoves DEF Domains
  <2>6. workerCnt' \in [Nodes -> Nat]
    BY <2>1, <2>2, SMTT(30) DEF FlowType
  <2>7. Rests
    BY <2>1, <2>2, <2>3, ServicesAssumption DEF Rests
  <2> QED
    BY <2>2, <2>3, <2>5, <2>6, <2>7 DEF FlowType, Moves
<1>2. ASSUME NEW w \in Workers, Loop(w)
      PROVE  FlowType' /\ Moves
  <2>1. /\ pc[w] = "loop" /\ w \in Threads /\ w \notin Feeders
        /\ UNCHANGED <<workerCnt, chn, chnOf, node, msg, target, fed, delivered, dropped>>
        /\ \E x \in {"done", "loop", "reading"} : pc' = [pc EXCEPT ![w] = x]
    BY <1>2, WorkerFacts DEF Loop
  <2>2. Domains' /\ pc'[w] \in {"done", "loop", "reading"}
    BY <1>0, <2>1 DEF Domains
  <2>3. ThreadOK(w)'
    BY <1>0, <2>1, <2>2 DEF ThreadOK
  <2>4. \A u \in Threads : ThreadOK(u)'
    BY <1>0, <2>1, <2>3, OneMoves DEF Domains
  <2> QED
    BY <2>1, <2>2, <2>4 DEF FlowType, Moves, Rests
<1>3. ASSUME NEW w \in Workers, Read(w)
      PROVE  FlowType' /\ Moves
  <2>1. /\ pc[w] = "reading" /\ w \in Threads /\ w \notin Feeders /\ msg[w] = NoMsg
        /\ chnOf[w] \in Chns /\ chnOf[w] \in SeqRange(In[w[1]]) /\ node[w] = w[1]
        /\ UNCHANGED <<workerCnt, chnOf, node, target, fed, delivered, dropped>>
    BY <1>0, <1>3, WorkerFacts, ChannelFacts DEF Read, ThreadOK
  <2>2. CASE /\ chn[chnOf[w]] # <<>>
             /\ msg' = [msg EXCEPT ![w] = Head(chn[chnOf[w]])]
             /\ chn' = [chn EXCEPT ![chnOf[w]] = Tail(@)]
             /\ pc' = [pc EXCEPT ![w] = "handle"]
    <3>1. chn[chnOf[w]] \in Seq(Msgs)
      BY <2>1 DEF FlowType
    <3>2. Head(chn[chnOf[w]]) \in Msgs /\ Tail(chn[chnOf[w]]) \in Seq(Msgs)
      BY <2>2, <3>1, TailFacts
    <3>3. Domains' /\ pc'[w] = "handle" /\ msg'[w] \in Msgs /\ chn' \in [Chns -> Seq(Msgs)]
      BY <1>0, <2>1, <2>2, <3>2 DEF Domains, FlowType
    <3>4. ThreadOK(w)'
      BY <2>1, <3>3 DEF ThreadOK
    <3>5. \A u \in Threads : ThreadOK(u)'
      BY <1>0, <2>1, <2>2, <3>4, OneMoves DEF Domains
    <3>6. Takes(w)
      BY <2>1, <2>2 DEF Takes
    <3> QED
      BY <2>1, <3>3, <3>5, <3>6 DEF FlowType, Moves
  <2>3. CASE pc' = [pc EXCEPT ![w] = "loop"] /\ UNCHANGED <<chn, msg>>
    <3>1. Domains' /\ pc'[w] = "loop"
      BY <1>0, <2>1, <2>3 DEF Domains
    <3>2. ThreadOK(w)'
      BY <2>1, <2>3, <3>1 DEF ThreadOK
    <3>3. \A u \in Threads : ThreadOK(u)'
      BY <1>0, <2>1, <2>3, <3>2, OneMoves DEF Domains
    <3> QED
      BY <2>1, <2>3, <3>1, <3>3 DEF FlowType, Moves, Rests
  <2> QED
    BY <1>3, <2>2, <2>3 DEF Read
<1>4. ASSUME NEW w \in Workers, pc[w] = "handle", Kind[w[1]] # "relay",
             delivered' = [delivered EXCEPT ![w[1]] = Append(@, msg[w])],
             msg' = [msg EXCEPT ![w] = NoMsg], pc' = [pc EXCEPT ![w] = "loop"],
             UNCHANGED <<workerCnt, chn, chnOf, node, target, fed, dropped>>
      PROVE  FlowType' /\ Moves
  <2>1. w \in Threads /\ w \notin Feeders /\ w[1] \in Nodes /\ msg[w] \in Msgs
    BY <1>0, <1>4, WorkerFacts DEF ThreadOK
  <2>2. delivered' \in [Nodes -> Seq(Msgs)]
    <3>1. delivered[w[1]] \in Seq(Msgs)
      BY <2>1 DEF FlowType
    <3>2. Append(delivered[w[1]], msg[w]) \in Seq(Msgs)
      BY <2>1, <3>1, AppendFacts
    <3> QED
      BY <1>4, <2>1, <3>2 DEF FlowType
  <2>3. Domains' /\ pc'[w] = "loop" /\ msg'[w] = NoMsg
    BY <1>0, <1>4, <2>1 DEF Domains
  <2>4. ThreadOK(w)'
    BY <1>0, <1>4, <2>1, <2>3, SMTT(30) DEF ThreadOK
  <2>5. \A u \in Threads : ThreadOK(u)'
    BY <1>0, <1>4, <2>1, <2>4, OneMoves DEF Domains
  <2>6. Gives(w)
    BY <1>4, <2>1 DEF Gives
  <2> QED
    BY <1>4, <2>2, <2>3, <2>5, <2>6 DEF FlowType, Moves
<1>5. ASSUME NEW w \in Workers, pc[w] = "handle", Kind[w[1]] # "duplex",
             Kind[w[1]] = "sink" => msg[w] \in Signals, Dispatch(w, node[w], msg[w]),
             UNCHANGED <<workerCnt, chn, chnOf, node, fed, delivered>>
      PROVE  FlowType' /\ Moves
  <2>1. /\ w \in Threads /\ w \notin Feeders /\ w[1] \in Nodes /\ node[w] = w[1]
        /\ msg[w] \in Msgs /\ w[1] \in Running
    BY <1>0, <1>5, WorkerFacts DEF ThreadOK
  <2>2. DOMAIN node' = Threads
    BY <1>0, <1>5 DEF Domains
  <2>3. /\ Domains' /\ \A u \in Threads : ThreadOK(u)'
        /\ \/ /\ msg' = [msg EXCEPT ![w] = NoMsg] /\ dropped' = dropped \cup {msg[w]}
              /\ Failing(w[1], msg[w])
           \/ msg' = [msg EXCEPT ![w] = msg[w]] /\ dropped' = dropped
    BY <1>5, <2>1, <2>2, DispatchFacts
  <2>4. dropped' \subseteq Msgs
    BY <2>1, <2>3 DEF FlowType
  <2>5. CASE /\ msg' = [msg EXCEPT ![w] = NoMsg] /\ dropped' = dropped \cup {msg[w]}
             /\ Failing(w[1], msg[w])
    <3>1. Kind[w[1]] # "source"
      BY <2>1, ServicesAssumption
    <3>2. w[1] \in Dispatching
      BY <1>5, <2>1, <3>1, ServicesAssumption DEF Dispatching
    <3>3. Loses(w)
      BY <1>5, <2>1, <2>5, <3>2 DEF Loses
    <3> QED
      BY <1>5, <2>1, <2>3, <2>4, <3>3 DEF FlowType, Moves
  <2>6. CASE msg' = [msg EXCEPT ![w] = msg[w]] /\ dropped' = dropped
    <3>1. msg' = msg
      BY <1>0, <2>1, <2>6 DEF Domains
    <3> QED
      BY <1>5, <2>3, <2>6, <3>1 DEF FlowType, Moves, Rests
  <2> QED
    BY <2>3, <2>5, <2>6
<1>6. ASSUME NEW t \in Threads, Write(t)
      PROVE  FlowType' /\ Moves
  <2>1. /\ pc[t] = "writing" /\ msg[t] \in Msgs /\ Sending(t)
        /\ pc' = [pc EXCEPT ![t] = Home(t)] /\ msg' = [msg EXCEPT ![t] = NoMsg]
        /\ UNCHANGED <<workerCnt, chnOf, node, target, fed, delivered>>
    BY <1>0, <1>6 DEF Write, ThreadOK
  <2>2. target[t] = DispatchChannel(node[t], msg[t]) /\ node[t] \in Nodes /\ target[t] \in Chns
    BY <2>1, ChannelFacts DEF Sending
  <2>3. Domains' /\ pc'[t] = Home(t) /\ msg'[t] = NoMsg
    BY <1>0, <2>1 DEF Domains
  <2>4. ThreadOK(t)'
    BY <1>0, <2>1, <2>3, SMTT(30) DEF ThreadOK, Home
  <2>5. \A u \in Threads : ThreadOK(u)'
    BY <1>0, <2>1, <2>4, OneMoves DEF Domains
  <2>6. CASE chn' = [chn EXCEPT ![target[t]] = Append(@, msg[t])] /\ UNCHANGED dropped
    <3>1. chn[target[t]] \in Seq(Msgs)
      BY <2>2 DEF FlowType
    <3>2. Append(chn[target[t]], msg[t]) \in Seq(Msgs)
      BY <2>1, <3>1, AppendFacts
    <3>3. chn' \in [Chns -> Seq(Msgs)]
      BY <2>2, <2>6, <3>2 DEF FlowType
    <3>4. Puts(t)
      BY <2>1, <2>6 DEF Puts
    <3> QED
      BY <2>1, <2>3, <2>5, <2>6, <3>3, <3>4 DEF FlowType, Moves
  <2>7. CASE broken[target[t]] /\ dropped' = dropped \cup {msg[t]} /\ UNCHANGED chn
    <3>1. node[t] \in Dispatching
      <4>1. CASE t \in Workers
        <5>1. node[t] \in Running /\ Kind[node[t]] = "relay"
          BY <1>0, <2>1, <4>1, WorkerFacts DEF ThreadOK, Sending
        <5> QED
          BY <5>1 DEF Dispatching
      <4>2. CASE t \in Feeders
        BY <2>1, <4>2 DEF Sending, Dispatching
      <4> QED
        BY <4>1, <4>2 DEF Threads
    <3>2. Failing(node[t], msg[t])
      BY <2>2, <2>7 DEF Failing
    <3>3. Loses(t)
      BY <2>1, <2>2, <2>7, <3>1, <3>2 DEF Loses
    <3>4. dropped' \subseteq Msgs
      BY <2>1, <2>7 DEF FlowType
    <3> QED
      BY <2>1, <2>3, <2>5, <2>7, <3>3, <3>4 DEF FlowType, Moves
  <2> QED
    BY <1>6, <2>6, <2>7 DEF Write, WriteFails
<1>7. ASSUME NEW f \in Feeders, NEW n \in Nodes, NEW m \in Msgs, FDRecv(f, n, m)
      PROVE  FlowType' /\ Moves
  <2>1. /\ f \in Threads /\ f \notin Workers /\ pc[f] = "out" /\ msg[f] = NoMsg
        /\ n \in Feeds[f] /\ Origin[m] = n /\ m \notin SeqRange(fed)
        /\ fed' = Append(fed, m) /\ node' = [node EXCEPT ![f] = n] /\ Dispatch(f, n, m)
        /\ UNCHANGED <<workerCnt, chn, chnOf, delivered>>
    BY <1>0, <1>7, ServicesAssumption DEF FDRecv, ThreadOK, Threads
  <2>2. /\ DOMAIN node' = Threads /\ node'[f] = n
        /\ \A u \in Threads \ {f} : node'[u] = node[u]
    BY <1>0, <2>1 DEF Domains
  <2>3. /\ Domains' /\ \A u \in Threads : ThreadOK(u)'
        /\ \/ msg' = [msg EXCEPT ![f] = NoMsg] /\ dropped' = dropped \cup {m} /\ Failing(n, m)
           \/ msg' = [msg EXCEPT ![f] = m] /\ dropped' = dropped
    BY <2>1, <2>2, DispatchFacts
  <2>4. fed' \in Seq(Msgs) /\ dropped' \subseteq Msgs
    BY <2>1, <2>3, AppendFacts DEF FlowType
  <2>5. n \in Dispatching
    BY <2>1 DEF Dispatching
  <2>6. msg' = [msg EXCEPT ![f] = NoMsg] => msg' = msg
    BY <1>0, <2>1 DEF Domains
  <2>7. Enters(f, m)
    BY <2>1, <2>3, <2>5, <2>6 DEF Enters
  <2> QED
    BY <2>1, <2>3, <2>4, <2>7 DEF FlowType, Moves
<1>8. CASE UNCHANGED <<workerCnt, chn, threadVars, fed, delivered, dropped>>
  <2>1. \A t \in Threads : Sending(t)' <=> Sending(t)
    BY <1>8 DEF threadVars, Sending, DispatchChannel
  <2>2. \A t \in Threads : ThreadOK(t)'
    BY <1>0, <1>8, <2>1 DEF threadVars, ThreadOK
  <2> QED
    BY <1>0, <1>8, <2>2 DEF threadVars, FlowType, Domains, Moves, Rests
<1>9. ASSUME NEW w \in Workers, HandleWritting(w) \/ HandleSignal(w) \/ HandleMsg(w)
      PROVE  FlowType' /\ Moves
  <2>1. w \in Threads /\ node[w] = w[1]
    BY <1>0, WorkerFacts DEF ThreadOK
  <2>2. CASE HandleWritting(w)
    BY <1>4, <2>1, <2>2 DEF HandleWritting, FDWrite
  <2>3. CASE HandleSignal(w)
    BY <1>5, <2>1, <2>3 DEF HandleSignal
  <2>4. CASE HandleMsg(w)
    BY <1>4, <1>5, <2>1, <2>4 DEF HandleMsg
  <2> QED
    BY <1>9, <2>2, <2>3, <2>4
<1>10. ASSUME NEW k \in Closers, CloserStep(k) \/ Shutdown(k)
       PROVE  FlowType' /\ Moves
  BY <1>8, <1>10 DEF CloserStep, StopNode, BreakAllWait, Join, Shutdown
<1> QED
  BY <1>1, <1>2, <1>3, <1>6, <1>7, <1>8, <1>9, <1>10 DEF Next, WorkerStep, Threads, vars

LEMMA TypeInit ==
  ASSUME Init
  PROVE  FlowType
<1>1. chn \in [Chns -> Seq(Msgs)] /\ delivered \in [Nodes -> Seq(Msgs)] /\ fed \in Seq(Msgs)
  BY SMTT(30) DEF Init
<1>2. workerCnt \in [Nodes -> Nat] /\ dropped \subseteq Msgs
  BY DEF Init
<1>3. Domains
  BY DEF Init, Domains
<1>4. ASSUME NEW t \in Threads
      PROVE  ThreadOK(t)
  <2>1. /\ msg[t] = NoMsg /\ pc[t] = (IF t \in Workers THEN "start" ELSE "out")
        /\ t \in Workers => node[t] = t[1]
    BY DEF Init
  <2> QED
    BY <2>1 DEF ThreadOK
<1> QED
  BY <1>1, <1>2, <1>3, <1>4 DEF FlowType

LEMMA FlowTyped == Spec => []FlowType
<1>1. FlowType /\ [Next]_vars => FlowType'
  BY StepMoves
<1> QED
  BY <1>1, TypeInit, PTL DEF Spec

-----------------------------------------------------------------------------
(***************************************************************************)
(* Where a message is: held by a thread, queued in a channel, delivered or *)
(* dropped, nowhere twice and nowhere before it has come in.               *)
(***************************************************************************)
IsHeld(m) == \E t \in Threads : msg[t] = m

HeldOnce == \A t, u \in Threads : msg[t] = msg[u] /\ msg[t] \in Msgs => t = u

OnePlace(m) ==
    /\ IsHeld(m) => ~Holds(chn, m) /\ ~Holds(delivered, m) /\ m \notin dropped
    /\ Holds(chn, m) => ~Holds(delivered, m) /\ m \notin dropped
    /\ Holds(delivered, m) => m \notin dropped
    /\ m \in SeqRange(fed) <=> \/ IsHeld(m) \/ Holds(chn, m)
                               \/ Holds(delivered, m) \/ m \in dropped

PlaceInv ==
    /\ HeldOnce /\ NoRepeat(chn) /\ NoRepeat(delivered)
    /\ \A m \in Msgs : OnePlace(m)

\* A thread lets go of its message, or takes one.
LEMMA LetGo ==
  ASSUME FlowType, HeldOnce, NEW t \in Threads, msg[t] \in Msgs, msg' = [msg EXCEPT ![t] = NoMsg]
  PROVE  /\ HeldOnce'
         /\ \A m \in Msgs : IsHeld(m)' <=> IsHeld(m) /\ m # msg[t]
         /\ IsHeld(msg[t])
<1>1. msg'[t] = NoMsg /\ NoMsg \notin Msgs /\ \A u \in Threads : u # t => msg'[u] = msg[u]
  BY ServicesAssumption DEF FlowType, Domains
<1>2. HeldOnce'
  BY <1>1 DEF HeldOnce
<1>3. \A m \in Msgs : IsHeld(m)' <=> IsHeld(m) /\ m # msg[t]
  BY <1>1 DEF IsHeld, HeldOnce
<1> QED
  BY <1>2, <1>3 DEF IsHeld

LEMMA TakeUp ==
  ASSUME FlowType, HeldOnce, NEW t \in Threads, msg[t] = NoMsg,
         NEW x \in Msgs, ~IsHeld(x), msg' = [msg EXCEPT ![t] = x]
  PROVE  /\ HeldOnce'
         /\ \A m \in Msgs : IsHeld(m)' <=> IsHeld(m) \/ m = x
<1>1. msg'[t] = x /\ NoMsg \notin Msgs /\ \A u \in Threads : u # t => msg'[u] = msg[u]
  BY ServicesAssumption DEF FlowType, Domains
<1>2. HeldOnce'
  BY <1>1 DEF HeldOnce, IsHeld
<1>3. \A m \in Msgs : IsHeld(m)' <=> IsHeld(m) \/ m = x
  BY <1>1 DEF IsHeld
<1> QED
  BY <1>2, <1>3

LEMMA PlaceStep ==
  ASSUME FlowType, PlaceInv, Moves
  PROVE  PlaceInv'
<1>0. /\ chn \in [Chns -> Seq(Msgs)] /\ delivered \in [Nodes -> Seq(Msgs)] /\ fed \in Seq(Msgs)
      /\ HeldOnce /\ NoRepeat(chn) /\ NoRepeat(delivered)
      /\ \A m \in Msgs : OnePlace(m)
      /\ \A t \in Threads : ThreadOK(t)
  BY DEF FlowType, PlaceInv
<1>1. CASE Rests
  BY <1>1 DEF Rests, PlaceInv, HeldOnce, OnePlace, IsHeld
<1>2. ASSUME NEW w \in Workers, Takes(w)
      PROVE  PlaceInv'
  <2>1. w \in Threads /\ chnOf[w] \in Chns
    BY <1>0, <1>2, WorkerFacts, ChannelFacts DEF Takes, ThreadOK
  <2>2. PICK x \in Msgs :
          /\ x = Head(chn[chnOf[w]]) /\ Holds(chn, x) /\ NoRepeat(chn')
          /\ \A m : Holds(chn', m) <=> Holds(chn, m) /\ m # x
    <3>1. chn[chnOf[w]] # <<>> /\ Shorter(chn, chn', chnOf[w])
      BY <1>2 DEF Takes, Shorter
    <3>2. Family(chn, Chns, Msgs) /\ NoRepeat(chn)
      BY <1>0 DEF Family
    <3>3. /\ NoRepeat(chn')
          /\ \A m : Holds(chn', m) <=> Holds(chn, m) /\ m # Head(chn[chnOf[w]])
          /\ Head(chn[chnOf[w]]) \in Msgs /\ Holds(chn, Head(chn[chnOf[w]]))
      BY <2>1, <3>1, <3>2, FamilyTail
    <3> QED
      BY <3>3
  <2>3. ~IsHeld(x)
    BY <1>0, <2>2 DEF OnePlace
  <2>4. HeldOnce' /\ \A m \in Msgs : IsHeld(m)' <=> IsHeld(m) \/ m = x
    BY <1>0, <1>2, <2>1, <2>2, <2>3, TakeUp DEF Takes
  <2>5. delivered' = delivered /\ dropped' = dropped /\ fed' = fed
    BY <1>2 DEF Takes
  <2>6. \A m \in Msgs : OnePlace(m)'
    BY <1>0, <2>2, <2>4, <2>5 DEF OnePlace
  <2> QED
    BY <1>0, <2>2, <2>4, <2>5, <2>6 DEF PlaceInv
<1>3. ASSUME NEW t \in Threads, Puts(t)
      PROVE  PlaceInv'
  <2>1. HeldOnce' /\ IsHeld(msg[t]) /\ \A m \in Msgs : IsHeld(m)' <=> IsHeld(m) /\ m # msg[t]
    BY <1>0, <1>3, LetGo DEF Puts
  <2>2. target[t] \in Chns /\ msg[t] \in Msgs
    BY <1>0, <1>3, ChannelFacts, SMTT(30) DEF Puts, ThreadOK, Sending
  <2>3. ~Holds(chn, msg[t])
    BY <1>0, <2>1, <2>2 DEF OnePlace
  <2>4. NoRepeat(chn') /\ \A m : Holds(chn', m) <=> Holds(chn, m) \/ m = msg[t]
    <3>1. PICK c \in Chns, x \in Msgs : x = msg[t] /\ Longer(chn, chn', c, x)
      BY <1>3, <2>2 DEF Puts, Longer
    <3>2. Family(chn, Chns, Msgs) /\ NoRepeat(chn) /\ ~Holds(chn, x)
      BY <1>0, <2>3, <3>1 DEF Family
    <3>3. /\ Family(chn', Chns, Msgs) /\ NoRepeat(chn')
          /\ \A m : Holds(chn', m) <=> Holds(chn, m) \/ m = x
      BY <3>1, <3>2, FamilyAppend, SMTT(30)
    <3> QED
      BY <3>1, <3>3
  <2>5. delivered' = delivered /\ dropped' = dropped /\ fed' = fed
    BY <1>3 DEF Puts
  <2>6. \A m \in Msgs : OnePlace(m)'
    BY <1>0, <2>1, <2>2, <2>4, <2>5 DEF OnePlace
  <2> QED
    BY <1>0, <2>1, <2>4, <2>5, <2>6 DEF PlaceInv
<1>4. ASSUME NEW w \in Workers, Gives(w)
      PROVE  PlaceInv'
  <2>1. HeldOnce' /\ IsHeld(msg[w]) /\ \A m \in Msgs : IsHeld(m)' <=> IsHeld(m) /\ m # msg[w]
    BY <1>0, <1>4, WorkerFacts, LetGo DEF Gives
  <2>2. w[1] \in Nodes /\ msg[w] \in Msgs
    BY <1>4, WorkerFacts DEF Gives
  <2>3. ~Holds(delivered, msg[w])
    BY <1>0, <2>1, <2>2 DEF OnePlace
  <2>4. NoRepeat(delivered') /\ \A m : Holds(delivered', m) <=> Holds(delivered, m) \/ m = msg[w]
    <3>1. PICK n \in Nodes, x \in Msgs : x = msg[w] /\ Longer(delivered, delivered', n, x)
      BY <1>4, <2>2 DEF Gives, Longer
    <3>2. Family(delivered, Nodes, Msgs) /\ NoRepeat(delivered) /\ ~Holds(delivered, x)
      BY <1>0, <2>3, <3>1 DEF Family
    <3>3. /\ Family(delivered', Nodes, Msgs) /\ NoRepeat(delivered')
          /\ \A m : Holds(delivered', m) <=> Holds(delivered, m) \/ m = x
      BY <3>1, <3>2, FamilyAppend, SMTT(30)
    <3> QED
      BY <3>1, <3>3
  <2>5. chn' = chn /\ dropped' = dropped /\ fed' = fed
    BY <1>4 DEF Gives
  <2>6. \A m \in Msgs : OnePlace(m)'
    BY <1>0, <2>1, <2>2, <2>4, <2>5 DEF OnePlace
  <2> QED
    BY <1>0, <2>1, <2>4, <2>5, <2>6 DEF PlaceInv
<1>5. ASSUME NEW t \in Threads, Loses(t)
      PROVE  PlaceInv'
  <2>1. HeldOnce' /\ IsHeld(msg[t]) /\ \A m \in Msgs : IsHeld(m)' <=> IsHeld(m) /\ m # msg[t]
    BY <1>0, <1>5, LetGo DEF Loses
  <2>2. /\ chn' = chn /\ delivered' = delivered /\ fed' = fed
        /\ dropped' = dropped \cup {msg[t]} /\ msg[t] \in Msgs
    BY <1>5 DEF Loses
  <2>3. \A m \in Msgs : OnePlace(m)'
    BY <1>0, <2>1, <2>2 DEF OnePlace
  <2> QED
    BY <1>0, <2>1, <2>2, <2>3 DEF PlaceInv
<1>6. ASSUME NEW f \in Feeders, NEW x \in Msgs, Enters(f, x)
      PROVE  PlaceInv'
  <2>1. /\ ~IsHeld(x) /\ ~Holds(chn, x) /\ ~Holds(delivered, x) /\ x \notin dropped
        /\ chn' = chn /\ delivered' = delivered /\ f \in Threads
    BY <1>0, <1>6 DEF Enters, OnePlace, Threads
  <2>2. SeqRange(fed') = SeqRange(fed) \cup {x}
    BY <1>0, <1>6, AppendFacts, SMTT(30) DEF Enters
  <2>3. CASE msg' = [msg EXCEPT ![f] = x] /\ dropped' = dropped
    <3>1. HeldOnce' /\ \A m \in Msgs : IsHeld(m)' <=> IsHeld(m) \/ m = x
      BY <1>0, <1>6, <2>1, <2>3, TakeUp DEF Enters
    <3>2. \A m \in Msgs : OnePlace(m)'
      BY <1>0, <2>1, <2>2, <2>3, <3>1 DEF OnePlace
    <3> QED
      BY <1>0, <2>1, <3>1, <3>2 DEF PlaceInv
  <2>4. CASE msg' = msg /\ dropped' = dropped \cup {x}
    <3>1. HeldOnce' /\ \A m \in Msgs : IsHeld(m)' <=> IsHeld(m)
      BY <1>0, <2>4 DEF HeldOnce, IsHeld
    <3>2. \A m \in Msgs : OnePlace(m)'
      BY <1>0, <2>1, <2>2, <2>4, <3>1 DEF OnePlace
    <3> QED
      BY <1>0, <2>1, <3>1, <3>2 DEF PlaceInv
  <2> QED
    BY <1>6, <2>3, <2>4 DEF Enters
<1> QED
  BY <1>1, <1>2, <1>3, <1>4, <1>5, <1>6 DEF Moves

-----------------------------------------------------------------------------
(***************************************************************************)
(* Nothing is broken before Shutdown has been called, so nothing is lost   *)
(* where there is a channel to write to.                                   *)
(***************************************************************************)
Unplugged == \E n \in Dispatching : Out[n] = <<>>

DropInv ==
    ~stopFlag => /\ \A k \in Closers : cpc[k] # "stopping"
                 /\ \A c \in Chns : ~broken[c]
                 /\ dropped # {} => Unplugged

LEMMA DropStep ==
  ASSUME FlowType, DropInv, [Next]_vars
  PROVE  DropInv'
<1> SUFFICES ASSUME ~stopFlag'
             PROVE  /\ \A k \in Closers : cpc'[k] # "stopping"
                    /\ \A c \in Chns : ~broken'[c]
                    /\ dropped' # {} => Unplugged
  BY DEF DropInv, Unplugged, Dispatching, Running
<1>1. \A k \in Closers : ~Shutdown(k)
  BY DEF Shutdown
<1>2. ~stopFlag
  BY <1>1 DEF Next, WorkerStep, Start, Loop, Read, HandleWritting, HandleSignal, HandleMsg,
         Write, FDRecv, CloserStep, StopNode, BreakAllWait, Join, closerVars, vars
<1>3. \A k \in Closers : ~CloserStep(k)
  BY <1>2 DEF DropInv, CloserStep, StopNode, BreakAllWait, Join
<1>4. cpc' = cpc /\ broken' = broken
  BY <1>1, <1>3 DEF Next, WorkerStep, Start, Loop, Read, HandleWritting, HandleSignal,
         HandleMsg, Write, FDRecv, closerVars, vars
<1>5. \A n \in Nodes, m \in Msgs : Failing(n, m) => Out[n] = <<>>
  BY <1>2, ChannelFacts DEF DropInv, Failing
<1>6. dropped' = dropped \/ Unplugged
  <2>1. \A t \in Threads : Loses(t) => Unplugged
    BY <1>5 DEF Loses, Unplugged
  <2>2. \A f \in Feeders, m \in Msgs : Enters(f, m) => dropped' = dropped \/ Unplugged
    BY <1>5 DEF Enters, Unplugged
  <2>3. Moves
    BY StepMoves
  <2> QED
    BY <2>1, <2>2, <2>3 DEF Moves, Rests, Takes, Gives, Puts
<1> QED
  BY <1>2, <1>4, <1>6 DEF DropInv

LEMMA PlaceInit ==
  ASSUME Init
  PROVE  PlaceInv /\ DropInv
<1>1. /\ \A c \in DOMAIN chn : chn[c] = <<>>
      /\ \A n \in DOMAIN delivered : delivered[n] = <<>>
      /\ fed = <<>> /\ dropped = {}
      /\ \A t \in Threads : msg[t] \notin Msgs
      /\ \A c \in Chns : ~broken[c]
      /\ \A k \in Closers : cpc[k] # "stopping"
  BY ServicesAssumption DEF Init
<1>2. DOMAIN <<>> = {} /\ SeqRange(<<>>) = {}
  BY SMTT(30) DEF SeqRange
<1>3. NoRepeat(chn) /\ NoRepeat(delivered)
  BY <1>1, <1>2 DEF NoRepeat
<1>4. \A m \in Msgs : ~IsHeld(m) /\ ~Holds(chn, m) /\ ~Holds(delivered, m)
  BY <1>1, <1>2 DEF IsHeld, Holds
<1> QED
  BY <1>1, <1>2, <1>3, <1>4 DEF PlaceInv, HeldOnce, OnePlace, DropInv

-----------------------------------------------------------------------------
(***************************************************************************)
(* Shutdown.                                                               *)
(***************************************************************************)

(***************************************************************************)
(* Taking the head off the channels still to be broken leaves the others.  *)
(***************************************************************************)
LEMMA RangeTail ==
  ASSUME NEW s \in Seq(Chns), s # <<>>
  PROVE  /\ Head(s) \in Chns /\ Tail(s) \in Seq(Chns)
         /\ \A c \in SeqRange(s) : c = Head(s) \/ c \in SeqRange(Tail(s))
<1>1. /\ Len(s) \in Nat /\ Len(s) > 0 /\ DOMAIN s = 1 .. Len(s) /\ Head(s) = s[1]
      /\ Head(s) \in Chns /\ Tail(s) \in Seq(Chns) /\ Len(Tail(s)) = Len(s) - 1
      /\ \A i \in 1 .. Len(Tail(s)) : Tail(s)[i] = s[i + 1]
  BY SMTT(30)
<1>2. DOMAIN Tail(s) = 1 .. Len(s) - 1
  BY <1>1, SMTT(30)
<1>3. ASSUME NEW i \in 1 .. Len(s), i # 1 PROVE s[i] \in SeqRange(Tail(s))
  <2>1. i - 1 \in 1 .. Len(s) - 1 /\ (i - 1) + 1 = i
    BY <1>1, <1>3, SMTT(30)
  <2>2. Tail(s)[i - 1] = s[i]
    BY <1>1, <2>1
  <2> QED
    BY <1>2, <2>1, <2>2 DEF SeqRange
<1> QED
  BY <1>1, <1>3 DEF SeqRange

\* What Stop breaks is a list of channels.
LEMMA ChannelsType == \A n \in Nodes : ChannelsOf(n) \in Seq(Chns)
BY ServicesAssumption, SMTT(30) DEF ChannelsOf

(***************************************************************************)
(* The part of the type invariant that the argument below rests on.        *)
(***************************************************************************)
ReleaseType ==
    /\ isStop \in [Nodes -> BOOLEAN]
    /\ broken \in [Chns -> BOOLEAN]
    /\ DOMAIN pc = Threads
    /\ cpc \in [Closers -> {"out", "stopping", "released", "returned"}]
    /\ toBreak \in Seq(Chns)

(***************************************************************************)
(* QuietWhenReleased is not inductive alone: it says nothing of a Shutdown *)
(* that is still at work.  At most one caller is, since stop_ is tested    *)
(* and set in one step; and what it has stopped is broken or about to be.  *)
(***************************************************************************)
Busy(k) == cpc[k] \in {"stopping", "released"}

StoppedSoFar ==
    \A n \in Running \ toStop :
        /\ isStop[n]
        /\ \A c \in SeqRange(ChannelsOf(n)) : broken[c] \/ c \in SeqRange(toBreak)

AtRest == toStop = {} /\ toBreak = <<>> /\ \A w \in Workers : pc[w] = "done"

ReleaseInv ==
    /\ ~stopFlag => \A k \in Closers : ~Busy(k)
    /\ \A k, l \in Closers : Busy(k) /\ Busy(l) => k = l
    /\ (\E k \in Closers : Busy(k)) => StoppedSoFar
    /\ (\E k \in Closers : cpc[k] = "released") => AtRest

\* Steps of workers and feeders: they stop nodes, and break and shut down nothing.
LEMMA WorkKeeps ==
  ASSUME ReleaseType, ReleaseInv,
         UNCHANGED <<stopFlag, cpc, toStop, toBreak, broken>>,
         isStop' \in [Nodes -> BOOLEAN], \A n \in Nodes : isStop[n] => isStop'[n],
         DOMAIN pc' = Threads,
         \A w \in Workers : pc[w] = "done" => pc'[w] = "done"
  PROVE  ReleaseType' /\ ReleaseInv'
<1>1. ReleaseType'
  BY DEF ReleaseType
<1>2. StoppedSoFar => StoppedSoFar'
  BY DEF StoppedSoFar, Running
<1>3. AtRest => AtRest'
  BY DEF AtRest
<1>4. \A k \in Closers : (Busy(k)' <=> Busy(k)) /\ cpc'[k] = cpc[k]
  BY DEF Busy
<1>5. ~stopFlag' => \A k \in Closers : ~Busy(k)'
  BY <1>4 DEF ReleaseInv
<1>6. /\ \A k, l \in Closers : Busy(k)' /\ Busy(l)' => k = l
      /\ (\E k \in Closers : Busy(k)') => StoppedSoFar'
      /\ (\E k \in Closers : cpc'[k] = "released") => AtRest'
  BY <1>2, <1>3, <1>4 DEF ReleaseInv
<1> QED
  BY <1>1, <1>5, <1>6 DEF ReleaseInv

\* The place a thread goes to by Dispatch, in HandleSignal, HandleMsg and FDRecv.
LEMMA DispatchMoves ==
  ASSUME NEW t, NEW n, NEW m, Dispatch(t, n, m)
  PROVE  \E x : pc' = [pc EXCEPT ![t] = x]
BY DEF Dispatch

(***************************************************************************)
(* Every step preserves the invariant, if every node that is run is of a   *)
(* type that Shutdown stops.                                               *)
(***************************************************************************)
LEMMA ReleaseInductive ==
  ASSUME \A n \in Running : Kind[n] \in Stoppable, ReleaseType, ReleaseInv, [Next]_vars
  PROVE  ReleaseType' /\ ReleaseInv'
<1>0. isStop \in [Nodes -> BOOLEAN] /\ DOMAIN pc = Threads /\ Workers \subseteq Threads
  BY DEF ReleaseType, Threads
<1>m. ASSUME NEW t \in Threads, pc[t] # "done", NEW x, pc' = [pc EXCEPT ![t] = x]
      PROVE  DOMAIN pc' = Threads /\ \A w \in Workers : pc[w] = "done" => pc'[w] = "done"
  BY <1>0, <1>m
<1>1. ASSUME NEW w \in Workers, Start(w) \/ Loop(w) \/ Read(w) \/ HandleWritting(w) \/ HandleMsg(w)
      PROVE  ReleaseType' /\ ReleaseInv'
  <2>1. UNCHANGED <<stopFlag, cpc, toStop, toBreak, broken, isStop>> /\ pc[w] # "done"
    BY <1>1 DEF Start, Loop, Read, HandleWritting, HandleMsg, closerVars
  <2>2. \E x : pc' = [pc EXCEPT ![w] = x]
    BY <1>1, DispatchMoves DEF Start, Loop, Read, HandleWritting, HandleMsg
  <2>3. DOMAIN pc' = Threads /\ \A v \in Workers : pc[v] = "done" => pc'[v] = "done"
    BY <1>0, <1>m, <2>1, <2>2
  <2> QED
    BY <1>0, <2>1, <2>3, WorkKeeps
<1>2. ASSUME NEW w \in Workers, HandleSignal(w) PROVE ReleaseType' /\ ReleaseInv'
  <2>1. UNCHANGED <<stopFlag, cpc, toStop, toBreak, broken>> /\ pc[w] # "done"
    BY <1>2 DEF HandleSignal, closerVars
  <2>2. isStop' = [isStop EXCEPT ![node[w]] = TRUE]
    BY <1>2 DEF HandleSignal
  <2>3. isStop' \in [Nodes -> BOOLEAN] /\ \A n \in Nodes : isStop[n] => isStop'[n]
    BY <1>0, <2>2
  <2>4. \E x : pc' = [pc EXCEPT ![w] = x]
    BY <1>2, DispatchMoves DEF HandleSignal
  <2>5. DOMAIN pc' = Threads /\ \A v \in Workers : pc[v] = "done" => pc'[v] = "done"
    BY <1>0, <1>m, <2>1, <2>4
  <2> QED
    BY <2>1, <2>3, <2>5, WorkKeeps
<1>3. ASSUME NEW t \in Threads, Write(t) PROVE ReleaseType' /\ ReleaseInv'
  <2>1. UNCHANGED <<stopFlag, cpc, toStop, toBreak, broken, isStop>> /\ pc[t] # "done"
    BY <1>3 DEF Write, closerVars
  <2>2. DOMAIN pc' = Threads /\ \A v \in Workers : pc[v] = "done" => pc'[v] = "done"
    BY <1>m, <1>3, <2>1 DEF Write
  <2> QED
    BY <1>0, <2>1, <2>2, WorkKeeps
<1>4. ASSUME NEW f \in Feeders, NEW n \in Nodes, NEW m \in Msgs, FDRecv(f, n, m)
      PROVE  ReleaseType' /\ ReleaseInv'
  <2>1. UNCHANGED <<stopFlag, cpc, toStop, toBreak, broken, isStop>> /\ pc[f] # "done"
    BY <1>4 DEF FDRecv, closerVars
  <2>2. \E x : pc' = [pc EXCEPT ![f] = x]
    BY <1>4, DispatchMoves DEF FDRecv
  <2>3. DOMAIN pc' = Threads /\ \A v \in Workers : pc[v] = "done" => pc'[v] = "done"
    BY <1>m, <2>1, <2>2 DEF Threads
  <2> QED
    BY <1>0, <2>1, <2>3, WorkKeeps
<1>5. ASSUME NEW k \in Closers, Shutdown(k) PROVE ReleaseType' /\ ReleaseInv'
  <2>1. /\ cpc[k] = "out" /\ stopFlag' = TRUE
        /\ UNCHANGED <<isStop, broken, pc, toBreak>>
        /\ cpc' \in [Closers -> {"out", "stopping", "released", "returned"}]
        /\ \A l \in Closers : l # k => cpc'[l] = cpc[l]
    BY <1>5 DEF Shutdown, threadVars, ReleaseType
  <2>2. CASE stopFlag
    <3>1. cpc'[k] = "returned" /\ UNCHANGED toStop
      BY <1>5, <2>2 DEF Shutdown, ReleaseType
    <3>2. \A l \in Closers : Busy(l)' <=> Busy(l)
      BY <2>1, <3>1 DEF Busy
    <3>3. \A l \in Closers : cpc'[l] = "released" <=> cpc[l] = "released"
      BY <2>1, <3>1
    <3>4. (StoppedSoFar => StoppedSoFar') /\ (AtRest => AtRest')
      BY <2>1, <3>1 DEF StoppedSoFar, AtRest
    <3> QED
      BY <2>1, <3>2, <3>3, <3>4 DEF ReleaseInv, ReleaseType
  <2>3. CASE ~stopFlag
    <3>1. cpc'[k] = "stopping" /\ toStop' = Running
      BY <1>5, <2>3 DEF Shutdown, ReleaseType
    <3>2. \A l \in Closers : (Busy(l)' => l = k) /\ cpc'[l] # "released"
      BY <2>1, <2>3, <3>1 DEF ReleaseInv, Busy
    <3>3. StoppedSoFar'
      BY <3>1 DEF StoppedSoFar
    <3> QED
      BY <2>1, <3>2, <3>3 DEF ReleaseInv, ReleaseType
  <2> QED
    BY <2>2, <2>3
<1>6. ASSUME NEW k \in Closers, NEW n \in Nodes, StopNode(k, n) PROVE ReleaseType' /\ ReleaseInv'
  <2>1. /\ cpc[k] = "stopping" /\ n \in toStop /\ toBreak = <<>> /\ toStop' = toStop \ {n}
        /\ UNCHANGED <<broken, pc, cpc, stopFlag>>
        /\ isStop' = [isStop EXCEPT ![n] = isStop[n] \/ Kind[n] \in Stoppable]
        /\ toBreak' = IF Kind[n] \in Stoppable THEN ChannelsOf(n) ELSE <<>>
    BY <1>6 DEF StopNode, threadVars
  <2>2. /\ isStop' \in [Nodes -> BOOLEAN] /\ \A x \in Nodes : isStop[x] => isStop'[x]
        /\ Kind[n] \in Stoppable => isStop'[n]
    BY <1>0, <2>1
  <2>3. toBreak' \in Seq(Chns)
    BY <2>1, ChannelsType, SMTT(30)
  <2>4. \A c : c \notin SeqRange(toBreak)
    BY <2>1, SMTT(30) DEF SeqRange
  <2>5. StoppedSoFar
    BY <2>1 DEF ReleaseInv, Busy
  <2>6. ASSUME NEW x \in Running, x \notin toStop'
        PROVE  /\ isStop'[x]
               /\ \A c \in SeqRange(ChannelsOf(x)) : broken'[c] \/ c \in SeqRange(toBreak')
    <3>1. CASE x = n
      BY <2>1, <2>2, <3>1, <2>6
    <3>2. CASE x # n
      <4>1. x \in Running \ toStop /\ x \in Nodes
        BY <2>1, <2>6, <3>2 DEF Running
      <4>2. isStop[x] /\ \A c \in SeqRange(ChannelsOf(x)) : broken[c]
        BY <2>4, <2>5, <4>1 DEF StoppedSoFar
      <4> QED
        BY <2>1, <2>2, <4>1, <4>2
    <3> QED
      BY <3>1, <3>2
  <2>7. StoppedSoFar'
    BY <2>6 DEF StoppedSoFar, Running, ChannelsOf
  <2>8. \A l \in Closers : (Busy(l)' <=> Busy(l)) /\ cpc'[l] # "released"
    BY <2>1 DEF ReleaseInv, Busy
  <2>9. ReleaseType'
    BY <2>1, <2>2, <2>3 DEF ReleaseType
  <2>10. ReleaseInv'
    BY <2>1, <2>7, <2>8 DEF ReleaseInv
  <2> QED
    BY <2>9, <2>10
<1>7. ASSUME NEW k \in Closers, BreakAllWait(k) PROVE ReleaseType' /\ ReleaseInv'
  <2>1. /\ cpc[k] = "stopping" /\ toBreak # <<>> /\ toBreak' = Tail(toBreak)
        /\ broken' = [broken EXCEPT ![Head(toBreak)] = TRUE]
        /\ UNCHANGED <<isStop, pc, cpc, stopFlag, toStop>>
    BY <1>7 DEF BreakAllWait, threadVars
  <2>2. /\ Head(toBreak) \in Chns /\ Tail(toBreak) \in Seq(Chns)
        /\ \A c \in SeqRange(toBreak) : c = Head(toBreak) \/ c \in SeqRange(Tail(toBreak))
    BY <2>1, RangeTail DEF ReleaseType
  <2>3. /\ broken' \in [Chns -> BOOLEAN] /\ broken'[Head(toBreak)]
        /\ \A c \in Chns : broken[c] => broken'[c]
    BY <2>1, <2>2 DEF ReleaseType
  <2>4. \A n \in Nodes : SeqRange(ChannelsOf(n)) \subseteq Chns
    BY ChannelsType, SMTT(30) DEF SeqRange
  <2>5. StoppedSoFar
    BY <2>1 DEF ReleaseInv, Busy
  <2>6. StoppedSoFar'
    <3>1. ASSUME NEW n \in Running \ toStop, NEW c \in SeqRange(ChannelsOf(n))
          PROVE  broken'[c] \/ c \in SeqRange(toBreak')
      BY <2>1, <2>2, <2>3, <2>4, <2>5, <3>1 DEF StoppedSoFar, Running
    <3> QED
      BY <2>1, <2>5, <3>1 DEF StoppedSoFar
  <2>7. \A l \in Closers : (Busy(l)' <=> Busy(l)) /\ cpc'[l] # "released"
    BY <2>1 DEF ReleaseInv, Busy
  <2> QED
    BY <2>1, <2>2, <2>3, <2>6, <2>7 DEF ReleaseInv, ReleaseType
<1>8. ASSUME NEW k \in Closers, Join(k) PROVE ReleaseType' /\ ReleaseInv'
  <2>1. /\ cpc[k] = "stopping" /\ AtRest
        /\ cpc' = [cpc EXCEPT ![k] = "released"]
        /\ UNCHANGED <<isStop, broken, pc, stopFlag, toStop, toBreak>>
    BY <1>8 DEF Join, AtRest, threadVars
  <2>2. \A l \in Closers : Busy(l)' <=> Busy(l)
    BY <2>1 DEF Busy, ReleaseType
  <2>3. AtRest' /\ (StoppedSoFar => StoppedSoFar')
    BY <2>1 DEF AtRest, StoppedSoFar
  <2>4. ReleaseType'
    BY <2>1 DEF ReleaseType
  <2>5. ReleaseInv'
    BY <2>1, <2>2, <2>3 DEF ReleaseInv
  <2> QED
    BY <2>4, <2>5
<1>9. CASE UNCHANGED vars
  BY <1>0, <1>9, WorkKeeps DEF vars, threadVars, closerVars
<1> QED
  BY <1>0, <1>1, <1>2, <1>3, <1>4, <1>5, <1>6, <1>7, <1>8, <1>9
     DEF Next, WorkerStep, CloserStep, Threads

(***************************************************************************)
(* Shutdown releases a topology that has come to rest, whatever its nodes  *)
(* and channels, however many threads call Shutdown, and wherever the      *)
(* workers are: they have all left, and no channel is forgotten.  It needs *)
(* that only relay and duplex nodes are run: sink_stop shows what else.    *)
(***************************************************************************)
THEOREM ReleasedIsQuiet ==
  (\A n \in Running : Kind[n] \in Stoppable) /\ Spec => []QuietWhenReleased
<1> SUFFICES ASSUME \A n \in Running : Kind[n] \in Stoppable PROVE Spec => []QuietWhenReleased
  OBVIOUS
<1>1. Init => ReleaseType /\ ReleaseInv
  <2> SUFFICES ASSUME Init PROVE ReleaseType /\ ReleaseInv
    OBVIOUS
  <2>1. isStop \in [Nodes -> BOOLEAN] /\ broken \in [Chns -> BOOLEAN]
    BY DEF Init
  <2>2. \A k \in Closers : cpc[k] = "out"
    BY DEF Init
  <2> QED
    BY <2>1, <2>2, SMTT(30) DEF Init, ReleaseType, ReleaseInv, Busy
<1>2. ReleaseType /\ ReleaseInv /\ [Next]_vars => ReleaseType' /\ ReleaseInv'
  BY ReleaseInductive
<1>3. ReleaseInv => QuietWhenReleased
  <2> SUFFICES ASSUME ReleaseInv, NEW k \in Closers, cpc[k] = "released"
               PROVE  /\ \A l \in Closers : cpc[l] # "stopping"
                      /\ \A w \in Workers : pc[w] = "done"
                      /\ \A n \in Running : /\ isStop[n]
                                            /\ \A c \in SeqRange(ChannelsOf(n)) : broken[c]
    BY DEF QuietWhenReleased
  <2>1. AtRest /\ StoppedSoFar /\ \A l \in Closers : Busy(l) => l = k
    BY DEF ReleaseInv, Busy
  <2>2. \A c : c \notin SeqRange(toBreak)
    BY <2>1, SMTT(30) DEF AtRest, SeqRange
  <2> QED
    BY <2>1, <2>2 DEF AtRest, StoppedSoFar, Busy
<1> QED
  BY <1>1, <1>2, <1>3, PTL DEF Spec

-----------------------------------------------------------------------------
(***************************************************************************)
(* The order of a flow, in the topologies that SoleReaders, SoleFeeders    *)
(* and NoCycle describe.                                                   *)
(***************************************************************************)

(***************************************************************************)
(* The route of the messages with id i: a relay node passes what it reads  *)
(* from channel c to channel d.  Reach is the transitive closure, by way   *)
(* of the sets of channels that no message leaves.                         *)
(***************************************************************************)
Hop(c, d, i) ==
    \E n \in Running : /\ Kind[n] = "relay" /\ c \in SeqRange(In[n])
                       /\ Out[n] # <<>> /\ d = Out[n][(i % Len(Out[n])) + 1]

Closed(S, i) == \A c \in S, d \in Chns : Hop(c, d, i) => d \in S

Reach(c, e, i) == \A S \in SUBSET Chns : Closed(S, i) /\ c \in S => e \in S

LEMMA HopOnce ==
  ASSUME SoleReaders, NEW c, NEW i, NEW d, NEW e, Hop(c, d, i), Hop(c, e, i)
  PROVE  d = e
BY DEF Hop, SoleReaders

LEMMA ReachBasics ==
  ASSUME NEW i
  PROVE  /\ \A c : Reach(c, c, i)
         /\ \A c, d, e : Reach(c, d, i) /\ Reach(d, e, i) => Reach(c, e, i)
         /\ \A c, d \in Chns : Hop(c, d, i) => Reach(c, d, i)
<1>1. \A c : Reach(c, c, i)
  BY DEF Reach
<1>2. \A c, d, e : Reach(c, d, i) /\ Reach(d, e, i) => Reach(c, e, i)
  BY DEF Reach
<1>3. \A c, d \in Chns : Hop(c, d, i) => Reach(c, d, i)
  BY DEF Reach, Closed
<1> QED
  BY <1>1, <1>2, <1>3

\* A message that has a hop before it goes where the route goes.
LEMMA ReachHop ==
  ASSUME SoleReaders, NEW i, NEW c \in Chns, NEW d \in Chns, NEW e \in Chns,
         Hop(c, d, i), Reach(c, e, i), c # e
  PROVE  Reach(d, e, i)
<1> SUFFICES ASSUME NEW S \in SUBSET Chns, Closed(S, i), d \in S
             PROVE  e \in S
  BY DEF Reach
<1>1. S \cup {c} \in SUBSET Chns
  OBVIOUS
<1>2. Closed(S \cup {c}, i)
  <2> SUFFICES ASSUME NEW a \in S \cup {c}, NEW b \in Chns, Hop(a, b, i)
               PROVE  b \in S
    BY DEF Closed
  <2>1. CASE a \in S
    BY <2>1 DEF Closed
  <2>2. CASE a = c
    BY <2>2, HopOnce
  <2> QED
    BY <2>1, <2>2
<1>3. e \in S \cup {c}
  BY <1>1, <1>2 DEF Reach
<1> QED
  BY <1>3

\* A message without a hop before it goes nowhere.
LEMMA ReachEnd ==
  ASSUME NEW i, NEW c \in Chns, NEW e, Reach(c, e, i), \A d \in Chns : ~Hop(c, d, i)
  PROVE  e = c
<1>1. {c} \in SUBSET Chns /\ Closed({c}, i)
  BY DEF Closed
<1> QED
  BY <1>1 DEF Reach

\* Without cycles, no two channels are on each other's route.
LEMMA ReachOnce ==
  ASSUME SoleReaders, NoCycle, NEW i \in Nat
  PROVE  /\ \A c, e \in Chns : Reach(c, e, i) /\ Reach(e, c, i) => c = e
         /\ \A c, d \in Chns : Hop(c, d, i) => c # d
<1>1. ASSUME NEW S \in SUBSET Chns, S # {}
      PROVE  \E c \in S : \A d \in S : ~Hop(c, d, i)
  <2>1. PICK c \in S : \A n \in Running :
           Kind[n] = "relay" /\ c \in SeqRange(In[n]) => SeqRange(Out[n]) \cap S = {}
    BY <1>1 DEF NoCycle
  <2>2. ASSUME NEW d \in S, Hop(c, d, i)
        PROVE  FALSE
    <3>1. PICK n \in Running : /\ Kind[n] = "relay" /\ c \in SeqRange(In[n])
                               /\ Out[n] # <<>> /\ d = Out[n][(i % Len(Out[n])) + 1]
      BY <2>2 DEF Hop
    <3>2. Out[n] \in Seq(Chns)
      BY ServicesAssumption DEF Running
    <3>3. Len(Out[n]) \in Nat /\ Len(Out[n]) > 0 /\ DOMAIN Out[n] = 1 .. Len(Out[n])
      BY <3>1, <3>2, SMTT(30)
    <3>4. (i % Len(Out[n])) + 1 \in 1 .. Len(Out[n])
      <4>1. \A k \in Nat : k > 0 => (i % k) + 1 \in 1 .. k
        BY SMTT(30)
      <4> QED
        BY <3>3, <4>1
    <3>5. d \in SeqRange(Out[n])
      BY <3>1, <3>3, <3>4 DEF SeqRange
    <3> QED
      BY <2>1, <3>1, <3>5
  <2> QED
    BY <2>2
<1>2. \A c, d \in Chns : Hop(c, d, i) => c # d
  <2> SUFFICES ASSUME NEW c \in Chns, Hop(c, c, i)
               PROVE  FALSE
    OBVIOUS
  <2>1. {c} \in SUBSET Chns /\ {c} # {}
    OBVIOUS
  <2> QED
    BY <1>1, <2>1
\* Otherwise the channels on a cycle all have a hop to another one of it.
<1>3. ASSUME NEW c \in Chns, NEW e \in Chns, Reach(c, e, i), Reach(e, c, i), c # e
      PROVE  FALSE
  <2> DEFINE S == {d \in Chns : Reach(c, d, i) /\ Reach(d, c, i)}
  <2>1. S \in SUBSET Chns /\ c \in S /\ e \in S
    BY <1>3, ReachBasics
  <2>2. \A d \in S : Reach(c, d, i) /\ Reach(d, c, i) /\ d \in Chns
    OBVIOUS
  <2>3. \A d \in Chns : Reach(c, d, i) /\ Reach(d, c, i) => d \in S
    OBVIOUS
  <2> HIDE DEF S
  <2>4. PICK d \in S : \A h \in S : ~Hop(d, h, i)
    BY <1>1, <2>1
  <2>5. PICK b \in S : b # d
    BY <1>3, <2>1
  <2>6. Reach(d, b, i) /\ Reach(b, c, i) /\ Reach(c, d, i) /\ d \in Chns /\ b \in Chns
    BY <2>2, ReachBasics
  <2>7. PICK h \in Chns : Hop(d, h, i)
    BY <2>5, <2>6, ReachEnd
  <2>8. Reach(h, b, i) /\ Reach(d, h, i)
    BY <2>5, <2>6, <2>7, ReachHop, ReachBasics
  <2>9. h \in S
    BY <2>3, <2>6, <2>8, ReachBasics
  <2> QED
    BY <2>4, <2>7, <2>9
<1> QED
  BY <1>2, <1>3

-----------------------------------------------------------------------------
(***************************************************************************)
(* One reader per channel.  IncThreads counts the workers that have come   *)
(* to DoWork, so each of them gets a channel that none before it got, as   *)
(* long as there are no more workers than channels.                        *)
(***************************************************************************)
Started(n) == {w \in Workers : w[1] = n /\ pc[w] # "start"}

ReaderInv ==
    \A n \in Running :
        /\ workerCnt[n] = Cardinality(Started(n))
        /\ \A w \in Started(n) : \E k \in 1 .. workerCnt[n] : chnOf[w] = In[n][k]
        /\ \A v, w \in Started(n) : chnOf[v] = chnOf[w] => v = w

OneReader ==
    \A v, w \in Workers :
        pc[v] # "start" /\ pc[w] # "start" /\ chnOf[v] = chnOf[w] => v = w

\* Only Start moves a worker away from "start".
LEMMA OthersStarted ==
  ASSUME FlowType, [Next]_vars, \A w \in Workers : ~Start(w)
  PROVE  /\ UNCHANGED <<workerCnt, chnOf>>
         /\ \A w \in Workers : pc'[w] = "start" <=> pc[w] = "start"
<1>0. DOMAIN pc = Threads
  BY DEF FlowType, Domains
<1>1. UNCHANGED <<workerCnt, chnOf>>
  BY DEF Next, WorkerStep, Loop, Read, HandleWritting, HandleSignal, HandleMsg, Write, FDRecv,
         CloserStep, StopNode, BreakAllWait, Join, Shutdown, threadVars, vars
<1>2. \/ pc' = pc
      \/ \E t \in Threads, p \in {"loop", "done", "reading", "handle", "writing", "out"} :
             pc[t] # "start" /\ pc' = [pc EXCEPT ![t] = p]
  <2>1. \A t \in Threads : Home(t) \in {"loop", "out"}
    BY DEF Home
  <2>2. ASSUME NEW t \in Threads, NEW n, NEW m, Dispatch(t, n, m)
        PROVE  \E p \in {"loop", "out", "writing"} : pc' = [pc EXCEPT ![t] = p]
    BY <2>1, <2>2 DEF Dispatch
  <2>3. ASSUME NEW w \in Workers, WorkerStep(w)
        PROVE  \E p \in {"loop", "done", "reading", "handle", "writing", "out"} :
                  pc[w] # "start" /\ pc' = [pc EXCEPT ![w] = p]
    <3>1. w \in Threads
      BY DEF Threads
    <3>2. CASE Loop(w) \/ Read(w) \/ HandleWritting(w)
      BY <3>2 DEF Loop, Read, HandleWritting
    <3>3. CASE HandleSignal(w) \/ HandleMsg(w)
      BY <2>2, <3>1, <3>3 DEF HandleSignal, HandleMsg
    <3>4. CASE Write(w)
      BY <2>1, <3>1, <3>4 DEF Write
    <3> QED
      BY <2>3, <3>2, <3>3, <3>4 DEF WorkerStep
  <2>4. ASSUME NEW f \in Feeders, Write(f) \/ \E n \in Nodes, m \in Msgs : FDRecv(f, n, m)
        PROVE  \E p \in {"loop", "done", "reading", "handle", "writing", "out"} :
                  pc[f] # "start" /\ pc' = [pc EXCEPT ![f] = p]
    <3>1. f \in Threads
      BY DEF Threads
    <3> QED
      BY <2>1, <2>2, <2>4, <3>1 DEF Write, FDRecv
  <2>5. ASSUME NEW k \in Closers, CloserStep(k) \/ Shutdown(k)
        PROVE  pc' = pc
    BY <2>5 DEF CloserStep, StopNode, BreakAllWait, Join, Shutdown, threadVars
  <2> QED
    BY <2>3, <2>4, <2>5 DEF Next, Threads, vars, threadVars
<1>3. \A w \in Workers : pc'[w] = "start" <=> pc[w] = "start"
  BY <1>0, <1>2 DEF Threads
<1> QED
  BY <1>1, <1>3

LEMMA ReadersDiffer ==
  ASSUME SoleReaders, FlowType, ReaderInv
  PROVE  OneReader
<1> SUFFICES ASSUME NEW v \in Workers, NEW w \in Workers, pc[v] # "start", pc[w] # "start",
                    chnOf[v] = chnOf[w]
             PROVE  v = w
  BY DEF OneReader
<1>1. /\ v[1] \in Running /\ w[1] \in Running
      /\ chnOf[v] \in SeqRange(In[v[1]]) /\ chnOf[w] \in SeqRange(In[w[1]])
  BY WorkerFacts DEF FlowType, ThreadOK
<1>2. v[1] = w[1]
  BY <1>1 DEF SoleReaders
<1>3. v \in Started(w[1]) /\ w \in Started(w[1])
  BY <1>2 DEF Started
<1> QED
  BY <1>1, <1>3 DEF ReaderInv

-----------------------------------------------------------------------------
(***************************************************************************)
(* Where a message on its way is: in a feeder's hand, or at a channel,     *)
(* that is queued in it or in the hand of the worker that reads it.        *)
(***************************************************************************)
FeederHas(m) == \E f \in Feeders : msg[f] = m

WorkerHas(m, c) == \E w \in Workers : msg[w] = m /\ chnOf[w] = c

Queued(m, c) == m \in SeqRange(chn[c])

Stage(m, c) == WorkerHas(m, c) \/ Queued(m, c)

Flying(m) == FeederHas(m) \/ \E c \in Chns : Stage(m, c)

\* Two messages of one flow.
Mates(x, y) ==
    /\ x \in Msgs /\ y \in Msgs /\ x # y
    /\ Origin[x] = Origin[y] /\ Id[x] = Id[y]

(***************************************************************************)
(* x is further on its way than y.                                         *)
(***************************************************************************)
Ahead(x, y) ==
    \/ \E c, e \in Chns : Stage(x, e) /\ Stage(y, c) /\ c # e /\ Reach(c, e, Id[x])
    \/ \E c \in Chns : WorkerHas(x, c) /\ Queued(y, c)
    \/ \E c \in Chns : Before(chn[c], x, y)
    \/ FeederHas(y) /\ x \in SeqRange(fed)
    \/ Holds(delivered, x) /\ Flying(y)
    \/ \E n \in Nodes : Before(delivered[n], x, y)

(***************************************************************************)
(* The inductive invariant: every message is on the route of its flow, any *)
(* two of a flow are on one line of that route, and what is ahead came in  *)
(* first.                                                                  *)
(***************************************************************************)
OnRoute ==
    \A m \in Msgs, c \in Chns :
        Stage(m, c) => Reach(DispatchChannel(Origin[m], m), c, Id[m])

InLine ==
    \A x, y \in Msgs, c, e \in Chns :
        Mates(x, y) /\ Stage(x, c) /\ Stage(y, e) => Reach(c, e, Id[x]) \/ Reach(e, c, Id[x])

OrderInv ==
    /\ OnRoute /\ InLine
    /\ \A x, y \in Msgs : Mates(x, y) /\ Ahead(x, y) => Before(fed, x, y)

LEMMA MatesSym ==
  ASSUME NEW x, NEW y, Mates(x, y)
  PROVE  Mates(y, x) /\ Id[x] = Id[y] /\ Id[x] \in Nat /\ x \in Msgs /\ y \in Msgs
BY ServicesAssumption DEF Mates

\* What is on its way has come in.
LEMMA StagedIsFed ==
  ASSUME FlowType, PlaceInv, NEW m \in Msgs, NEW c \in Chns, Stage(m, c)
  PROVE  m \in SeqRange(fed)
<1>1. IsHeld(m) \/ Holds(chn, m)
  BY DEF Stage, WorkerHas, Queued, IsHeld, Holds, Threads, FlowType
<1> QED
  BY <1>1 DEF PlaceInv, OnePlace

\* The channel a worker reads, while it has a message in hand.
LEMMA WorkerAt ==
  ASSUME FlowType, NEW w \in Workers, msg[w] \in Msgs
  PROVE  /\ w \in Threads /\ w[1] \in Running /\ w[1] \in Nodes /\ pc[w] # "start"
         /\ chnOf[w] \in Chns /\ chnOf[w] \in SeqRange(In[w[1]])
         /\ WorkerHas(msg[w], chnOf[w]) /\ Stage(msg[w], chnOf[w])
<1>1. w \in Threads /\ w[1] \in Running /\ w[1] \in Nodes /\ ThreadOK(w) /\ NoMsg \notin Msgs
  BY WorkerFacts, ServicesAssumption DEF FlowType
<1>2. pc[w] # "start"
  BY <1>1 DEF ThreadOK
<1>3. chnOf[w] \in SeqRange(In[w[1]]) /\ chnOf[w] \in Chns
  BY <1>1, <1>2, ChannelFacts DEF ThreadOK
<1> QED
  BY <1>1, <1>2, <1>3 DEF WorkerHas, Stage

\* The worker of a channel is alone there: a mate at the channel is queued, behind.
LEMMA AloneAt ==
  ASSUME FlowType, OneReader, OrderInv, NEW w \in Workers, msg[w] \in Msgs,
         NEW y, Mates(msg[w], y), Stage(y, chnOf[w])
  PROVE  Before(fed, msg[w], y)
<1>1. chnOf[w] \in Chns /\ WorkerHas(msg[w], chnOf[w]) /\ pc[w] # "start" /\ y \in Msgs
  BY WorkerAt, MatesSym
<1>2. ~WorkerHas(y, chnOf[w])
  <2> SUFFICES ASSUME NEW v \in Workers, msg[v] = y, chnOf[v] = chnOf[w]
               PROVE  FALSE
    BY DEF WorkerHas
  <2>1. pc[v] # "start"
    BY <1>1, WorkerAt
  <2>2. v = w
    BY <1>1, <2>1 DEF OneReader
  <2> QED
    BY <2>2 DEF Mates
<1>3. Ahead(msg[w], y)
  BY <1>1, <1>2 DEF Stage, Ahead
<1> QED
  BY <1>1, <1>3 DEF OrderInv

===============================================================================
