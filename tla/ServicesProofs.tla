---------------------------- MODULE ServicesProofs ----------------------------
(***************************************************************************)
(* Proofs about Services, for any topology, any number of workers, feeders *)
(* and callers of Shutdown, any messages and any capacity: none is lost or *)
(* duplicated, and the order of a flow is kept.                            *)
(***************************************************************************)
EXTENDS FlowProofs, FiniteSetTheorems

\* Zenon proves what cites no prover; a leaf about numbers, functions or records cites SMT.
USE ZenonT(30)

\* One place at most, and one if the message came in, counts as Accounted does.
LEMMA PlacesCounted ==
  ASSUME FlowType, PlaceInv, NEW m \in Msgs
  PROVE  Cardinality(Places(m)) = IF m \in SeqRange(fed) THEN 1 ELSE 0
<1>1. /\ chn \in [Chns -> Seq(Msgs)] /\ delivered \in [Nodes -> Seq(Msgs)]
      /\ HeldOnce /\ NoRepeat(chn) /\ NoRepeat(delivered) /\ OnePlace(m)
  BY DEF FlowType, PlaceInv
<1> DEFINE H == {t \in Threads : msg[t] = m}
<1>2. ASSUME NEW F, NoRepeat(F)
      PROVE  /\ Positions(F, m) # {} <=> Holds(F, m)
             /\ \A p, q \in Positions(F, m) : p = q
  <2>1. \A p : p \in Positions(F, m) <=>
                 \E k \in DOMAIN F : \E i \in DOMAIN F[k] : F[k][i] = m /\ p = <<k, i>>
    <3> DEFINE S(k) == {i \in DOMAIN F[k] : F[k][i] = m}
    <3>1. \A p : p \in Positions(F, m) <=> \E k \in DOMAIN F : p \in {k} \X S(k)
      BY DEF Positions
    <3>2. \A p, k : p \in {k} \X S(k) <=> \E i \in S(k) : p = <<k, i>>
      <4> HIDE DEF S
      <4> QED
        BY SMTT(30)
    <3> QED
      BY <3>1, <3>2, SMTT(30)
  <2>2. Holds(F, m) <=> \E k \in DOMAIN F : \E i \in DOMAIN F[k] : F[k][i] = m
    BY DEF Holds, SeqRange
  <2>3. Positions(F, m) # {} <=> Holds(F, m)
    BY <2>1, <2>2
  <2>4. ASSUME NEW p \in Positions(F, m), NEW q \in Positions(F, m)
        PROVE  p = q
    <3>1. PICK k \in DOMAIN F : \E i \in DOMAIN F[k] : F[k][i] = m /\ p = <<k, i>>
      BY <2>1
    <3>2. PICK l \in DOMAIN F : \E j \in DOMAIN F[l] : F[l][j] = m /\ q = <<l, j>>
      BY <2>1
    <3> QED
      BY <1>2, <3>1, <3>2, SMTT(30) DEF NoRepeat
  <2> QED
    BY <2>3, <2>4
<1>3. /\ H # {} <=> IsHeld(m)
      /\ \A p, q \in H : p = q
  BY <1>1 DEF HeldOnce, IsHeld
<1>4. /\ dropped \cap {m} # {} <=> m \in dropped
      /\ \A p, q \in dropped \cap {m} : p = q
  OBVIOUS
<1> DEFINE P(tag, S) == {tag} \X S
<1>5. Places(m) = P("held", H) \cup P("queued", Positions(chn, m))
                    \cup P("delivered", Positions(delivered, m)) \cup P("dropped", dropped \cap {m})
  BY DEF Places
<1> HIDE DEF H
<1>6. /\ Positions(chn, m) # {} <=> Holds(chn, m)
      /\ \A p, q \in Positions(chn, m) : p = q
      /\ Positions(delivered, m) # {} <=> Holds(delivered, m)
      /\ \A p, q \in Positions(delivered, m) : p = q
  BY <1>1, <1>2
<1>7. ASSUME NEW tag, NEW S
      PROVE  /\ P(tag, S) # {} <=> S # {}
             /\ (\A p, q \in S : p = q) => \A p, q \in P(tag, S) : p = q
  <2>1. \A p : p \in P(tag, S) <=> \E x \in S : p = <<tag, x>>
    BY SMTT(30)
  <2> HIDE DEF P
  <2>2. P(tag, S) # {} <=> S # {}
    BY <2>1
  <2> QED
    BY <2>1, <2>2, SMTT(30)
<1> HIDE DEF P
<1>n. /\ P("held", H) # {} <=> IsHeld(m)
      /\ P("queued", Positions(chn, m)) # {} <=> Holds(chn, m)
      /\ P("delivered", Positions(delivered, m)) # {} <=> Holds(delivered, m)
      /\ P("dropped", dropped \cap {m}) # {} <=> m \in dropped
  BY <1>3, <1>4, <1>6, <1>7
<1>8. Places(m) # {} <=> m \in SeqRange(fed)
  BY <1>1, <1>5, <1>n DEF OnePlace
<1>9. \A p, q \in Places(m) : p = q
  <2>1. /\ \A p, q \in P("held", H) : p = q
        /\ \A p, q \in P("queued", Positions(chn, m)) : p = q
        /\ \A p, q \in P("delivered", Positions(delivered, m)) : p = q
        /\ \A p, q \in P("dropped", dropped \cap {m}) : p = q
    BY <1>3, <1>4, <1>6, <1>7
  <2> QED
    BY <1>1, <1>5, <1>n, <2>1 DEF OnePlace
<1>10. CASE m \in SeqRange(fed)
  <2>1. PICK p : Places(m) = {p}
    BY <1>8, <1>9, <1>10
  <2> QED
    BY <1>10, <2>1, FS_Singleton
<1>11. CASE m \notin SeqRange(fed)
  <2>1. Places(m) = {}
    BY <1>8, <1>11
  <2> QED
    BY <1>11, <2>1, FS_EmptySet
<1> QED
  BY <1>10, <1>11

(***************************************************************************)
(* Accounted.  In any topology, cyclic ones included, with any number of   *)
(* workers and of calls of Shutdown at any time, every message that came   *)
(* in is at one place: no interleaving loses or duplicates one, although   *)
(* WriteMessage ignores whether it could write.                            *)
(***************************************************************************)
THEOREM MessagesAccounted == Spec => []Accounted
<1>1. Init => PlaceInv /\ DropInv
  BY PlaceInit
<1>2. FlowType /\ PlaceInv /\ DropInv /\ [Next]_vars => PlaceInv' /\ DropInv'
  BY StepMoves, PlaceStep, DropStep
<1>3. FlowType /\ PlaceInv /\ DropInv => Accounted
  BY PlacesCounted DEF Accounted, DropInv, Unplugged
<1> QED
  BY <1>1, <1>2, <1>3, FlowTyped, PTL DEF Spec

-----------------------------------------------------------------------------
(***************************************************************************)
(* The order of a flow: every step keeps it.                               *)
(***************************************************************************)

\* Where a thread is about to write, seen from the mates of its message.
LEMMA WriteOrder ==
  ASSUME SoleReaders, SoleFeeders, NoCycle, FlowType, PlaceInv, OneReader, OrderInv,
         NEW t \in Threads, pc[t] = "writing", NEW x, x = msg[t], NEW d, d = target[t],
         NEW y, Mates(x, y), NEW e \in Chns, Stage(y, e)
  PROVE  /\ Reach(d, e, Id[x]) \/ Reach(e, d, Id[x])
         /\ Reach(d, e, Id[x]) => Before(fed, y, x)
         /\ Reach(e, d, Id[x]) /\ e # d => Before(fed, x, y)
<1>1. /\ Sending(t) /\ x \in Msgs /\ y \in Msgs /\ Mates(y, x) /\ Id[x] = Id[y] /\ Id[x] \in Nat
      /\ d = DispatchChannel(node[t], x) /\ node[t] \in Nodes /\ Out[node[t]] # <<>>
  BY MatesSym DEF FlowType, ThreadOK, Sending
<1>2. d \in Chns
  BY <1>1, ChannelFacts
<1>3. \A a, b \in Chns : Reach(a, b, Id[x]) /\ Reach(b, a, Id[x]) => a = b
  BY <1>1, ReachOnce
<1>4. CASE t \in Feeders
  <2>1. DispatchChannel(Origin[y], y) = d
    BY <1>1, <1>4 DEF Sending, DispatchChannel, Mates
  <2>2. Reach(d, e, Id[x])
    BY <1>1, <2>1 DEF OrderInv, OnRoute
  <2>3. Ahead(y, x)
    <3>1. FeederHas(x) /\ y \in SeqRange(fed)
      BY <1>1, <1>4, StagedIsFed DEF FeederHas
    <3> QED
      BY <3>1 DEF Ahead
  <2>4. Before(fed, y, x)
    BY <1>1, <2>3 DEF OrderInv
  <2> QED
    BY <1>2, <1>3, <2>2, <2>4
<1>5. CASE t \in Workers
  <2> DEFINE c == chnOf[t]
  <2>1. /\ c \in Chns /\ WorkerHas(x, c) /\ Stage(x, c) /\ c \in SeqRange(In[t[1]])
        /\ t[1] \in Running /\ node[t] = t[1] /\ Kind[t[1]] = "relay"
    BY <1>1, <1>5, WorkerAt DEF FlowType, ThreadOK, Sending
  <2>2. Hop(c, d, Id[x])
    BY <1>1, <2>1 DEF Hop, DispatchChannel
  <2>3. c # d /\ Reach(c, d, Id[x])
    BY <1>1, <1>2, <2>1, <2>2, ReachOnce, ReachBasics
  <2>4. c = e => Before(fed, x, y)
    BY <1>1, <1>5, AloneAt
  <2> HIDE DEF c
  <2>5. CASE e = c
    BY <1>2, <1>3, <2>1, <2>3, <2>4, <2>5
  <2>6. CASE e # c /\ Reach(c, e, Id[x])
    <3>1. Reach(d, e, Id[x])
      BY <1>2, <2>1, <2>2, <2>6, ReachHop
    <3>2. Ahead(y, x)
      BY <1>1, <2>1, <2>6 DEF Ahead
    <3>3. Before(fed, y, x)
      BY <1>1, <3>2 DEF OrderInv
    <3> QED
      BY <1>2, <1>3, <3>1, <3>3
  <2>7. CASE e # c /\ Reach(e, c, Id[x])
    <3>1. Reach(e, d, Id[x]) /\ (Reach(d, e, Id[x]) => Reach(d, c, Id[x]))
      BY <2>3, <2>7, ReachBasics
    <3>2. Ahead(x, y)
      BY <1>1, <2>1, <2>7 DEF Ahead
    <3>3. Before(fed, x, y)
      BY <1>1, <3>2 DEF OrderInv
    <3> QED
      BY <1>2, <1>3, <2>1, <2>3, <3>1, <3>3
  <2>8. Reach(c, e, Id[x]) \/ Reach(e, c, Id[x])
    BY <1>1, <2>1 DEF OrderInv, InLine
  <2> QED
    BY <2>5, <2>6, <2>7, <2>8
<1> QED
  BY <1>4, <1>5 DEF Threads

\* What a node that does not relay has in hand is ahead of all its mates.
LEMMA GiveOrder ==
  ASSUME SoleReaders, FlowType, PlaceInv, OneReader, OrderInv,
         NEW w \in Workers, msg[w] \in Msgs, Kind[w[1]] # "relay",
         NEW y, Mates(msg[w], y), Flying(y)
  PROVE  Before(fed, msg[w], y)
<1> DEFINE c == chnOf[w]
           x == msg[w]
<1>1. /\ c \in Chns /\ WorkerHas(x, c) /\ Stage(x, c) /\ c \in SeqRange(In[w[1]])
      /\ w[1] \in Running /\ y \in Msgs /\ Id[x] = Id[y]
  BY WorkerAt, MatesSym
<1>2. \A d \in Chns : ~Hop(c, d, Id[x])
  BY <1>1 DEF Hop, SoleReaders
<1>3. CASE FeederHas(y)
  <2>1. x \in SeqRange(fed)
    BY <1>1, StagedIsFed
  <2>2. Ahead(x, y)
    BY <1>3, <2>1 DEF Ahead
  <2> QED
    BY <1>1, <2>2 DEF OrderInv
<1>4. ASSUME NEW e \in Chns, Stage(y, e)
      PROVE  Before(fed, x, y)
  <2>1. CASE e = c
    BY <1>4, <2>1, AloneAt
  <2>2. CASE e # c
    <3>1. Reach(c, e, Id[x]) \/ Reach(e, c, Id[x])
      BY <1>1, <1>4 DEF OrderInv, InLine
    <3>2. ~Reach(c, e, Id[x])
      BY <1>1, <1>2, <2>2, ReachEnd
    <3>3. Ahead(x, y)
      BY <1>1, <1>4, <2>2, <3>1, <3>2 DEF Ahead
    <3> QED
      BY <1>1, <3>3 DEF OrderInv
  <2> QED
    BY <2>1, <2>2
<1> QED
  BY <1>3, <1>4 DEF Flying

-----------------------------------------------------------------------------
\* The order in a sequence that Append extends, or whose head is taken.
LEMMA BeforeAppend ==
  ASSUME NEW M, NEW s \in Seq(M), NEW m \in M
  PROVE  \A x, y : Before(Append(s, m), x, y) <=> Before(s, x, y) \/ (y = m /\ x \in SeqRange(s))
<1> DEFINE r == Append(s, m)
<1>1. /\ Len(s) \in Nat /\ DOMAIN s = 1 .. Len(s) /\ DOMAIN r = DOMAIN s \cup {Len(s) + 1}
      /\ \A i \in DOMAIN s : r[i] = s[i]
      /\ r[Len(s) + 1] = m
  BY AppendFacts, SMTT(30)
<1> HIDE DEF r
<1>2. \A i \in DOMAIN s : i < Len(s) + 1
  BY <1>1, SMTT(30)
<1>3. ASSUME NEW x, NEW y, Before(r, x, y)
      PROVE  Before(s, x, y) \/ (y = m /\ x \in SeqRange(s))
  <2>1. PICK i, j \in DOMAIN r : i < j /\ r[i] = x /\ r[j] = y
    BY <1>3 DEF Before
  <2>2. i \in DOMAIN s
    BY <1>1, <2>1, SMTT(30)
  <2> QED
    BY <1>1, <2>1, <2>2 DEF Before, SeqRange
<1>4. ASSUME NEW x, NEW y, Before(s, x, y) \/ (y = m /\ x \in SeqRange(s))
      PROVE  Before(r, x, y)
  BY <1>1, <1>2, <1>4 DEF Before, SeqRange
<1> QED
  BY <1>3, <1>4 DEF r

LEMMA BeforeTail ==
  ASSUME NEW M, NEW s \in Seq(M), s # <<>>
  PROVE  /\ \A x, y : Before(Tail(s), x, y) => Before(s, x, y)
         /\ \A y \in SeqRange(Tail(s)) : y \in SeqRange(s) /\ Before(s, Head(s), y)
         /\ \A y \in SeqRange(s) : y = Head(s) \/ y \in SeqRange(Tail(s))
<1> DEFINE r == Tail(s)
<1>1. /\ Head(s) = s[1] /\ 1 \in DOMAIN s
      /\ DOMAIN s \subseteq Nat \ {0} /\ DOMAIN r \subseteq Nat \ {0}
      /\ \A i \in DOMAIN r : i + 1 \in DOMAIN s /\ r[i] = s[i + 1]
      /\ \A i \in DOMAIN s : i # 1 => i - 1 \in DOMAIN r /\ r[i - 1] = s[i]
  BY TailFacts
<1> HIDE DEF r
<1>2. ASSUME NEW x, NEW y, Before(r, x, y)
      PROVE  Before(s, x, y)
  <2>1. PICK i, j \in DOMAIN r : i < j /\ r[i] = x /\ r[j] = y
    BY <1>2 DEF Before
  <2>2. i + 1 < j + 1 /\ i + 1 \in DOMAIN s /\ j + 1 \in DOMAIN s /\ s[i + 1] = x /\ s[j + 1] = y
    BY <1>1, <2>1, SMTT(30)
  <2> QED
    BY <2>2 DEF Before
<1>3. ASSUME NEW y \in SeqRange(r)
      PROVE  y \in SeqRange(s) /\ Before(s, Head(s), y)
  <2>1. PICK i \in DOMAIN r : r[i] = y
    BY DEF SeqRange
  <2>2. 1 < i + 1 /\ i + 1 \in DOMAIN s /\ s[i + 1] = y
    BY <1>1, <2>1, SMTT(30)
  <2> QED
    BY <1>1, <2>2 DEF Before, SeqRange
<1>4. \A y \in SeqRange(s) : y = Head(s) \/ y \in SeqRange(r)
  BY <1>1, SMTT(30) DEF SeqRange
<1> QED
  BY <1>2, <1>3, <1>4 DEF r

\* Whose hands are empty after a step, and whose are not.
LEMMA HandsEmptied ==
  ASSUME FlowType, HeldOnce, NEW t \in Threads, msg[t] \in Msgs, UNCHANGED chnOf,
         msg' = [msg EXCEPT ![t] = NoMsg]
  PROVE  /\ \A m \in Msgs, c \in Chns : WorkerHas(m, c)' <=> WorkerHas(m, c) /\ m # msg[t]
         /\ \A m \in Msgs : FeederHas(m)' <=> FeederHas(m) /\ m # msg[t]
<1>1. msg'[t] = NoMsg /\ NoMsg \notin Msgs /\ \A u \in Threads : u # t => msg'[u] = msg[u]
  BY ServicesAssumption DEF FlowType, Domains
<1> QED
  BY <1>1 DEF WorkerHas, FeederHas, HeldOnce, Threads

LEMMA HandsFilled ==
  ASSUME FlowType, NEW t \in Threads, msg[t] = NoMsg, UNCHANGED chnOf,
         NEW x \in Msgs, msg' = [msg EXCEPT ![t] = x]
  PROVE  /\ \A m \in Msgs, c \in Chns :
               WorkerHas(m, c)' <=> WorkerHas(m, c) \/ (m = x /\ t \in Workers /\ c = chnOf[t])
         /\ \A m \in Msgs : FeederHas(m)' <=> FeederHas(m) \/ (m = x /\ t \in Feeders)
<1>1. msg'[t] = x /\ NoMsg \notin Msgs /\ \A u \in Threads : u # t => msg'[u] = msg[u]
  BY ServicesAssumption DEF FlowType, Domains
<1> QED
  BY <1>1 DEF WorkerHas, FeederHas, Threads

\* A step that leaves the sequences alone and brings no message forward.
LEMMA NothingMoves ==
  ASSUME OrderInv, UNCHANGED <<chn, delivered, fed>>,
         \A m \in Msgs, c \in Chns : WorkerHas(m, c)' => WorkerHas(m, c),
         \A m \in Msgs : FeederHas(m)' => FeederHas(m)
  PROVE  OrderInv'
<1>1. \A m \in Msgs, c \in Chns : Queued(m, c)' <=> Queued(m, c)
  BY DEF Queued
<1>2. \A m \in Msgs, c \in Chns : Stage(m, c)' => Stage(m, c)
  BY <1>1 DEF Stage
<1>3. \A m \in Msgs : Flying(m)' => Flying(m)
  BY <1>2 DEF Flying
<1>4. OnRoute'
  BY <1>2 DEF OrderInv, OnRoute, DispatchChannel
<1>5. InLine'
  BY <1>2 DEF OrderInv, InLine
<1>6. \A x, y \in Msgs : Ahead(x, y)' => Ahead(x, y)
  BY <1>1, <1>2, <1>3 DEF Ahead
<1>7. \A x, y \in Msgs : Mates(x, y) /\ Ahead(x, y)' => Before(fed', x, y)
  BY <1>6 DEF OrderInv
<1> QED
  BY <1>4, <1>5, <1>7 DEF OrderInv, Mates

\* Read: the head of the channel goes to the hand of the channel's worker.
LEMMA TakesOrder ==
  ASSUME FlowType, PlaceInv, OrderInv, NEW w \in Workers, Takes(w)
  PROVE  OrderInv'
<1>1. PICK c \in Chns : w \in Threads /\ c = chnOf[w]
  BY WorkerFacts, ChannelFacts DEF Takes, FlowType, ThreadOK
<1>2. chn[c] \in Seq(Msgs) /\ chn[c] # <<>> /\ chn'[c] = Tail(chn[c])
  BY <1>1 DEF Takes, FlowType
<1>3. PICK x \in Msgs : x = Head(chn[c])
  BY <1>2, TailFacts
<1>4. /\ msg[w] = NoMsg /\ msg' = [msg EXCEPT ![w] = x] /\ UNCHANGED <<chnOf, fed, delivered>>
      /\ \A e \in Chns : e # c => chn'[e] = chn[e]
  BY <1>1, <1>3 DEF Takes, FlowType
<1>5. /\ \A m \in Msgs, e \in Chns : WorkerHas(m, e)' <=> WorkerHas(m, e) \/ (m = x /\ e = c)
      /\ \A m \in Msgs : FeederHas(m)' <=> FeederHas(m)
  <2>1. /\ \A m \in Msgs, e \in Chns :
              WorkerHas(m, e)' <=> WorkerHas(m, e) \/ (m = x /\ w \in Workers /\ e = chnOf[w])
        /\ \A m \in Msgs : FeederHas(m)' <=> FeederHas(m) \/ (m = x /\ w \in Feeders)
    BY <1>1, <1>4, HandsFilled
  <2> QED
    BY <1>1, <2>1, WorkerFacts
<1>6. /\ \A a, b : Before(chn'[c], a, b) => Before(chn[c], a, b)
      /\ \A b \in SeqRange(chn'[c]) : b \in SeqRange(chn[c]) /\ Before(chn[c], x, b)
      /\ \A b \in SeqRange(chn[c]) : b = x \/ b \in SeqRange(chn'[c])
  BY <1>2, <1>3, BeforeTail
<1>7. Queued(x, c)
  BY <1>2, <1>3, TailFacts DEF Queued, SeqRange
<1>8. /\ \A m \in Msgs, e \in Chns : Queued(m, e)' => Queued(m, e)
      /\ \A m \in Msgs : Queued(m, c)' => Before(chn[c], x, m)
  BY <1>4, <1>6 DEF Queued
<1>9. \A m \in Msgs, e \in Chns : Stage(m, e)' => Stage(m, e)
  BY <1>5, <1>7, <1>8 DEF Stage
<1>10. \A m \in Msgs : Flying(m)' => Flying(m)
  BY <1>5, <1>9 DEF Flying
<1>11. OnRoute' /\ InLine'
  <2>1. OnRoute'
    BY <1>9 DEF OrderInv, OnRoute, DispatchChannel
  <2>2. InLine'
    BY <1>9 DEF OrderInv, InLine
  <2> QED
    BY <2>1, <2>2
<1>12. ASSUME NEW a \in Msgs, NEW b \in Msgs, Ahead(a, b)'
       PROVE  Ahead(a, b)
  <2>1. ASSUME NEW e \in Chns, WorkerHas(a, e)', Queued(b, e)'
        PROVE  Ahead(a, b)
    BY <1>5, <1>8, <2>1 DEF Ahead
  <2>2. \A e \in Chns : Before(chn'[e], a, b) => Before(chn[e], a, b)
    BY <1>4, <1>6
  <2> QED
    BY <1>4, <1>5, <1>9, <1>10, <1>12, <2>1, <2>2 DEF Ahead
<1>13. \A a, b \in Msgs : Mates(a, b) /\ Ahead(a, b)' => Before(fed', a, b)
  BY <1>4, <1>12 DEF OrderInv
<1> QED
  BY <1>11, <1>13 DEF OrderInv, Mates

\* Write: a message goes to the end of its next channel.
LEMMA PutsOrder ==
  ASSUME SoleReaders, SoleFeeders, NoCycle, FlowType, PlaceInv, OneReader, OrderInv,
         NEW t \in Threads, Puts(t)
  PROVE  OrderInv'
<1>1. /\ pc[t] = "writing" /\ msg[t] \in Msgs /\ Sending(t)
      /\ UNCHANGED <<chnOf, fed, delivered>>
  BY DEF Puts, FlowType, ThreadOK
<1>2. PICK x \in Msgs, d \in Chns : x = msg[t] /\ d = target[t]
  BY <1>1, ChannelFacts DEF Sending
<1>3. /\ \A m \in Msgs, c \in Chns : WorkerHas(m, c)' <=> WorkerHas(m, c) /\ m # x
      /\ \A m \in Msgs : FeederHas(m)' <=> FeederHas(m) /\ m # x
  BY <1>1, <1>2, HandsEmptied DEF Puts, PlaceInv
<1>4. chn[d] \in Seq(Msgs) /\ chn'[d] = Append(chn[d], x) /\ \A e \in Chns : e # d => chn'[e] = chn[e]
  BY <1>2 DEF Puts, FlowType
<1>5. /\ SeqRange(chn'[d]) = SeqRange(chn[d]) \cup {x}
      /\ \A a, b : Before(chn'[d], a, b) <=> Before(chn[d], a, b) \/ (b = x /\ a \in SeqRange(chn[d]))
  BY <1>4, AppendFacts, BeforeAppend, SMTT(30)
<1>6. \A m \in Msgs, c \in Chns : Queued(m, c)' <=> Queued(m, c) \/ (m = x /\ c = d)
  <2>1. \A m : m \in SeqRange(chn'[d]) <=> m \in SeqRange(chn[d]) \/ m = x
    BY <1>5
  <2> QED
    BY <1>4, <2>1 DEF Queued
<1>7. \A c \in Chns : ~Queued(x, c)
  <2>1. IsHeld(x) /\ OnePlace(x)
    BY <1>2 DEF IsHeld, PlaceInv
  <2> QED
    BY <2>1 DEF OnePlace, Holds, Queued, FlowType
<1>8. \A m \in Msgs, c \in Chns : Stage(m, c)' <=> (m # x /\ Stage(m, c)) \/ (m = x /\ c = d)
  BY <1>3, <1>6, <1>7 DEF Stage
<1>9. ASSUME NEW y, Mates(x, y), NEW e \in Chns, Stage(y, e)
      PROVE  /\ Reach(d, e, Id[x]) \/ Reach(e, d, Id[x])
             /\ Reach(d, e, Id[x]) => Before(fed, y, x)
             /\ Reach(e, d, Id[x]) /\ e # d => Before(fed, x, y)
  BY <1>1, <1>2, <1>9, WriteOrder
<1>10. Reach(d, d, Id[x])
  BY ReachBasics
<1>11. OnRoute'
  <2>1. Reach(DispatchChannel(Origin[x], x), d, Id[x])
    <3>1. CASE t \in Feeders
      BY <1>1, <1>2, <1>10, <3>1 DEF Sending
    <3>2. CASE t \in Workers
      <4>1. /\ chnOf[t] \in Chns /\ Stage(x, chnOf[t]) /\ chnOf[t] \in SeqRange(In[t[1]])
            /\ t[1] \in Running /\ node[t] = t[1] /\ Kind[t[1]] = "relay"
        BY <1>1, <1>2, <3>2, WorkerAt DEF FlowType, ThreadOK, Sending
      <4>2. Hop(chnOf[t], d, Id[x])
        BY <1>1, <1>2, <4>1 DEF Hop, DispatchChannel, Sending
      <4>3. Reach(chnOf[t], d, Id[x])
        BY <1>2, <4>1, <4>2, ReachBasics
      <4>4. Reach(DispatchChannel(Origin[x], x), chnOf[t], Id[x])
        BY <1>2, <4>1 DEF OrderInv, OnRoute
      <4> QED
        BY <4>3, <4>4, ReachBasics
    <3> QED
      BY <3>1, <3>2 DEF Threads
  <2>2. \A m \in Msgs, c \in Chns :
           Stage(m, c)' => Reach(DispatchChannel(Origin[m], m), c, Id[m])
    BY <1>8, <2>1 DEF OrderInv, OnRoute
  <2> QED
    BY <2>2 DEF OnRoute, DispatchChannel
<1>12. InLine'
  <2> SUFFICES ASSUME NEW a \in Msgs, NEW b \in Msgs, NEW c \in Chns, NEW e \in Chns,
                      Mates(a, b), Stage(a, c)', Stage(b, e)'
               PROVE  Reach(c, e, Id[a]) \/ Reach(e, c, Id[a])
    BY DEF InLine, Mates
  <2>1. a # b /\ Id[a] = Id[b] /\ Mates(b, a)
    BY MatesSym DEF Mates
  <2>2. CASE a = x
    BY <1>8, <1>9, <2>1, <2>2
  <2>3. CASE b = x
    BY <1>8, <1>9, <2>1, <2>3
  <2>4. CASE a # x /\ b # x
    BY <1>8, <2>4 DEF OrderInv, InLine
  <2> QED
    BY <2>2, <2>3, <2>4
<1>13. ASSUME NEW a \in Msgs, NEW b \in Msgs, Mates(a, b), Ahead(a, b)'
       PROVE  Before(fed, a, b)
  <2>0. a # b /\ Id[a] = Id[b] /\ Mates(b, a) /\ (Ahead(a, b) => Before(fed, a, b))
    BY <1>13, MatesSym DEF Mates, OrderInv
  <2>1. ASSUME NEW c \in Chns, NEW e \in Chns, Stage(a, e)', Stage(b, c)', c # e, Reach(c, e, Id[a])
        PROVE  Before(fed, a, b)
    <3>1. CASE a = x
      BY <1>8, <1>9, <1>13, <2>0, <2>1, <3>1
    <3>2. CASE b = x
      BY <1>8, <1>9, <2>0, <2>1, <3>2
    <3>3. CASE a # x /\ b # x
      BY <1>8, <2>0, <2>1, <3>3 DEF Ahead
    <3> QED
      BY <3>1, <3>2, <3>3
  <2>2. ASSUME NEW c \in Chns, WorkerHas(a, c)', Queued(b, c)'
        PROVE  Before(fed, a, b)
    <3>1. CASE b = x
      <4>1. c = d /\ Stage(a, d)
        BY <1>3, <1>6, <1>7, <2>2, <3>1 DEF Stage
      <4> QED
        BY <1>9, <1>10, <2>0, <3>1, <4>1
    <3>2. CASE b # x
      BY <1>3, <1>6, <2>0, <2>2, <3>2 DEF Ahead
    <3> QED
      BY <3>1, <3>2
  <2>3. ASSUME NEW c \in Chns, Before(chn'[c], a, b)
        PROVE  Before(fed, a, b)
    <3>1. CASE Before(chn[c], a, b)
      BY <2>0, <3>1 DEF Ahead
    <3>2. CASE c = d /\ b = x /\ a \in SeqRange(chn[d])
      <4>1. Stage(a, d)
        BY <3>2 DEF Stage, Queued
      <4> QED
        BY <1>9, <1>10, <2>0, <3>2, <4>1
    <3> QED
      BY <1>4, <1>5, <2>3, <3>1, <3>2
  <2>4. CASE FeederHas(b)' /\ a \in SeqRange(fed')
    BY <1>1, <1>3, <2>0, <2>4 DEF Ahead
  <2>5. CASE Holds(delivered', a) /\ Flying(b)'
    <3>1. Flying(b)
      <4>1. CASE b = x
        <5>1. FeederHas(x) \/ \E c \in Chns : Stage(x, c)
          BY <1>1, <1>2, WorkerAt DEF FeederHas, Threads
        <5> QED
          BY <4>1, <5>1 DEF Flying
      <4>2. CASE b # x
        BY <1>3, <1>8, <2>5, <4>2 DEF Flying
      <4> QED
        BY <4>1, <4>2
    <3> QED
      BY <1>1, <2>0, <2>5, <3>1 DEF Ahead
  <2>6. CASE \E n \in Nodes : Before(delivered'[n], a, b)
    BY <1>1, <2>0, <2>6 DEF Ahead
  <2> QED
    BY <1>13, <2>1, <2>2, <2>3, <2>4, <2>5, <2>6 DEF Ahead
<1>14. \A a, b \in Msgs : Mates(a, b) /\ Ahead(a, b)' => Before(fed', a, b)
  BY <1>1, <1>13
<1> QED
  BY <1>11, <1>12, <1>14 DEF OrderInv, Mates

\* FDWrite, or a sink's HandleMsg: a message leaves its last channel.
LEMMA GivesOrder ==
  ASSUME SoleReaders, FlowType, PlaceInv, OneReader, OrderInv, NEW w \in Workers, Gives(w)
  PROVE  OrderInv'
<1>1. /\ msg[w] \in Msgs /\ Kind[w[1]] # "relay" /\ w[1] \in Nodes /\ w \in Threads
      /\ UNCHANGED <<chnOf, fed, chn>>
  BY WorkerFacts DEF Gives
<1>2. PICK x \in Msgs, l \in Nodes : x = msg[w] /\ l = w[1]
  BY <1>1
<1>3. /\ \A m \in Msgs, c \in Chns : WorkerHas(m, c)' <=> WorkerHas(m, c) /\ m # x
      /\ \A m \in Msgs : FeederHas(m)' <=> FeederHas(m) /\ m # x
  BY <1>1, <1>2, HandsEmptied DEF Gives, PlaceInv
<1>4. /\ delivered[l] \in Seq(Msgs) /\ delivered'[l] = Append(delivered[l], x)
      /\ DOMAIN delivered = Nodes /\ DOMAIN delivered' = Nodes
      /\ \A n \in Nodes : n # l => delivered'[n] = delivered[n]
  BY <1>2 DEF Gives, FlowType
<1>5. /\ SeqRange(delivered'[l]) = SeqRange(delivered[l]) \cup {x}
      /\ \A a, b : Before(delivered'[l], a, b) <=>
                      Before(delivered[l], a, b) \/ (b = x /\ a \in SeqRange(delivered[l]))
  BY <1>4, AppendFacts, BeforeAppend, SMTT(30)
<1>6. \A m : Holds(delivered', m) => Holds(delivered, m) \/ m = x
  <2>1. \A m : m \in SeqRange(delivered'[l]) <=> m \in SeqRange(delivered[l]) \/ m = x
    BY <1>5
  <2> QED
    BY <1>4, <2>1 DEF Holds
<1>7. \A m \in Msgs, c \in Chns : Queued(m, c)' <=> Queued(m, c)
  BY <1>1 DEF Queued
<1>8. \A m \in Msgs, c \in Chns : Stage(m, c)' => Stage(m, c)
  BY <1>3, <1>7 DEF Stage
<1>9. \A m \in Msgs : Flying(m)' => Flying(m)
  BY <1>3, <1>8 DEF Flying
<1>10. Flying(x)
  BY <1>1, <1>2, WorkerAt DEF Flying
<1>11. OnRoute' /\ InLine'
  <2>1. OnRoute'
    BY <1>8 DEF OrderInv, OnRoute, DispatchChannel
  <2>2. InLine'
    BY <1>8 DEF OrderInv, InLine
  <2> QED
    BY <2>1, <2>2
<1>12. ASSUME NEW a \in Msgs, NEW b \in Msgs, Mates(a, b), Ahead(a, b)'
       PROVE  Before(fed, a, b)
  <2>0. Ahead(a, b) => Before(fed, a, b)
    BY <1>12 DEF OrderInv
  <2>1. CASE Holds(delivered', a) /\ Flying(b)'
    <3>1. CASE a = x
      BY <1>1, <1>2, <1>9, <1>12, <2>1, <3>1, GiveOrder
    <3>2. CASE a # x
      BY <1>6, <1>9, <2>0, <2>1, <3>2 DEF Ahead
    <3> QED
      BY <3>1, <3>2
  <2>2. ASSUME NEW n \in Nodes, Before(delivered'[n], a, b)
        PROVE  Before(fed, a, b)
    <3>1. CASE Before(delivered[n], a, b)
      BY <2>0, <3>1 DEF Ahead
    <3>2. CASE b = x /\ a \in SeqRange(delivered[l])
      <4>1. Holds(delivered, a)
        BY <1>4, <3>2 DEF Holds
      <4> QED
        BY <1>10, <2>0, <3>2, <4>1 DEF Ahead
    <3> QED
      BY <1>4, <1>5, <2>2, <3>1, <3>2
  <2>3. CASE \/ \E c, e \in Chns : Stage(a, e)' /\ Stage(b, c)' /\ c # e /\ Reach(c, e, Id[a])
             \/ \E c \in Chns : WorkerHas(a, c)' /\ Queued(b, c)'
             \/ \E c \in Chns : Before(chn'[c], a, b)
             \/ FeederHas(b)' /\ a \in SeqRange(fed')
    BY <1>1, <1>3, <1>7, <1>8, <2>0, <2>3 DEF Ahead
  <2> QED
    BY <1>12, <2>1, <2>2, <2>3 DEF Ahead
<1>13. \A a, b \in Msgs : Mates(a, b) /\ Ahead(a, b)' => Before(fed', a, b)
  BY <1>1, <1>12
<1> QED
  BY <1>11, <1>13 DEF OrderInv, Mates

\* FDRecv: a new message is behind all its mates.
LEMMA EntersOrder ==
  ASSUME SoleFeeders, FlowType, PlaceInv, OrderInv,
         NEW f \in Feeders, NEW x \in Msgs, Enters(f, x)
  PROVE  OrderInv'
<1>1. /\ f \in Threads /\ f \notin Workers /\ msg[f] = NoMsg /\ x \notin SeqRange(fed)
      /\ Origin[x] \in Feeds[f] /\ UNCHANGED <<chn, chnOf, delivered>> /\ fed \in Seq(Msgs)
      /\ fed' = Append(fed, x) /\ NoMsg \notin Msgs
  BY ServicesAssumption DEF Enters, FlowType, Threads
<1>2. /\ \A m \in Msgs, c \in Chns : WorkerHas(m, c)' => WorkerHas(m, c)
      /\ \A m \in Msgs : FeederHas(m)' => FeederHas(m) \/ m = x
  <2>1. CASE msg' = [msg EXCEPT ![f] = x]
    BY <1>1, <2>1, HandsFilled
  <2>2. CASE msg' = msg
    BY <1>1, <2>2 DEF WorkerHas, FeederHas
  <2> QED
    BY <2>1, <2>2 DEF Enters
<1>3. /\ SeqRange(fed') = SeqRange(fed) \cup {x}
      /\ \A a, b : Before(fed', a, b) <=> Before(fed, a, b) \/ (b = x /\ a \in SeqRange(fed))
  BY <1>1, AppendFacts, BeforeAppend, SMTT(30)
<1>4. \A m \in Msgs, c \in Chns : Queued(m, c)' <=> Queued(m, c)
  BY <1>1 DEF Queued
<1>5. \A m \in Msgs, c \in Chns : Stage(m, c)' => Stage(m, c)
  BY <1>2, <1>4 DEF Stage
<1>6. \A m \in Msgs : Flying(m)' => Flying(m) \/ m = x
  BY <1>2, <1>5 DEF Flying
<1>7. OnRoute' /\ InLine'
  <2>1. OnRoute'
    BY <1>5 DEF OrderInv, OnRoute, DispatchChannel
  <2>2. InLine'
    BY <1>5 DEF OrderInv, InLine
  <2> QED
    BY <2>1, <2>2
\* The feeder of x has no mate of x in hand, and no other feeder has one.
<1>8. \A m \in Msgs : Mates(x, m) => ~FeederHas(m)
  <2> SUFFICES ASSUME NEW m \in Msgs, Mates(x, m), NEW g \in Feeders, msg[g] = m
               PROVE  FALSE
    BY DEF FeederHas
  <2>1. g \in Threads /\ ThreadOK(g)
    BY DEF FlowType, Threads
  <2>2. Sending(g)
    BY <1>1, <2>1 DEF ThreadOK
  <2>3. Origin[m] \in Feeds[g] /\ Origin[m] = Origin[x]
    BY <2>2 DEF Sending, Mates
  <2>4. f = g
    BY <1>1, <2>3 DEF SoleFeeders
  <2> QED
    BY <1>1, <2>4
<1>9. \A m \in Msgs : Holds(delivered, m) => m \in SeqRange(fed)
  BY DEF PlaceInv, OnePlace
<1>10. ASSUME NEW a \in Msgs, NEW b \in Msgs, Mates(a, b), Ahead(a, b)'
       PROVE  Before(fed', a, b)
  <2>0. (Ahead(a, b) => Before(fed', a, b)) /\ a # b
    BY <1>3, <1>10 DEF OrderInv, Mates
  <2>1. CASE FeederHas(b)' /\ a \in SeqRange(fed')
    <3>1. a \in SeqRange(fed) \/ a = x
      BY <1>3, <2>1
    <3>2. CASE b = x
      BY <1>3, <2>0, <3>1, <3>2
    <3>3. CASE b # x
      <4>1. FeederHas(b)
        BY <1>2, <2>1, <3>3
      <4>2. a # x
        BY <1>8, <1>10, <4>1
      <4> QED
        BY <2>0, <3>1, <4>1, <4>2 DEF Ahead
    <3> QED
      BY <3>2, <3>3
  <2>2. CASE Holds(delivered', a) /\ Flying(b)'
    <3>1. Holds(delivered, a) /\ a \in SeqRange(fed)
      BY <1>1, <1>9, <2>2
    <3>2. CASE b = x
      BY <1>3, <3>1, <3>2
    <3>3. CASE b # x
      BY <1>6, <2>0, <2>2, <3>1, <3>3 DEF Ahead
    <3> QED
      BY <3>2, <3>3
  <2>3. CASE \/ \E c, e \in Chns : Stage(a, e)' /\ Stage(b, c)' /\ c # e /\ Reach(c, e, Id[a])
             \/ \E c \in Chns : WorkerHas(a, c)' /\ Queued(b, c)'
             \/ \E c \in Chns : Before(chn'[c], a, b)
             \/ \E n \in Nodes : Before(delivered'[n], a, b)
    BY <1>1, <1>2, <1>4, <1>5, <2>0, <2>3 DEF Ahead
  <2> QED
    BY <1>10, <2>1, <2>2, <2>3 DEF Ahead
<1> QED
  BY <1>7, <1>10 DEF OrderInv, Mates

LEMMA OrderStep ==
  ASSUME SoleReaders, SoleFeeders, NoCycle, FlowType, PlaceInv, OneReader, OrderInv, Moves
  PROVE  OrderInv'
<1>1. CASE Rests
  <2>1. UNCHANGED <<chn, delivered, fed, msg>>
    BY <1>1 DEF Rests
  <2>2. \A m \in Msgs, c \in Chns : WorkerHas(m, c)' => WorkerHas(m, c)
    BY <1>1, <2>1 DEF Rests, WorkerHas
  <2>3. \A m \in Msgs : FeederHas(m)' => FeederHas(m)
    BY <2>1 DEF FeederHas
  <2> QED
    BY <2>1, <2>2, <2>3, NothingMoves
<1>2. ASSUME NEW t \in Threads, Loses(t)
      PROVE  OrderInv'
  <2>1. UNCHANGED <<chn, delivered, fed>>
    BY <1>2 DEF Loses
  <2>2. /\ \A m \in Msgs, c \in Chns : WorkerHas(m, c)' <=> WorkerHas(m, c) /\ m # msg[t]
        /\ \A m \in Msgs : FeederHas(m)' <=> FeederHas(m) /\ m # msg[t]
    BY <1>2, HandsEmptied DEF Loses, PlaceInv
  <2> QED
    BY <2>1, <2>2, NothingMoves
<1> QED
  BY <1>1, <1>2, TakesOrder, PutsOrder, GivesOrder, EntersOrder DEF Moves

-----------------------------------------------------------------------------
\* Workers of a node are at most NumThreads.
LEMMA FewWorkers ==
  ASSUME NEW n \in Running, NEW S \in SUBSET {w \in Workers : w[1] = n}
  PROVE  IsFiniteSet(S) /\ Cardinality(S) \in Nat /\ Cardinality(S) <= NumThreads[n]
<1>0. \A k \in Nat : IsFiniteSet(1 .. k) /\ Cardinality(1 .. k) = k
  <2> SUFFICES ASSUME NEW k \in Nat
               PROVE  IsFiniteSet(1 .. k) /\ Cardinality(1 .. k) = k
    OBVIOUS
  <2>0. 1 \in Int /\ k \in Int
    BY SMTT(30)
  <2>1. IsFiniteSet(1 .. k) /\ Cardinality(1 .. k) = IF 1 > k THEN 0 ELSE k - 1 + 1
    BY <2>0, FS_Interval
  <2> QED
    BY <2>1, SMTT(30)
<1> DEFINE f == [w \in S |-> w[2]]
<1>1. n \in Nodes /\ NumThreads[n] \in Nat
  BY ServicesAssumption, SMTT(30) DEF Running
<1>2. \A w \in S : w[1] = n /\ w[2] \in 1 .. NumThreads[n] /\ w = <<w[1], w[2]>>
  <2> SUFFICES ASSUME NEW w \in S
               PROVE  w[1] = n /\ w[2] \in 1 .. NumThreads[n] /\ w = <<w[1], w[2]>>
    OBVIOUS
  <2>1. w \in Nodes \X (1 .. 9) /\ w[2] <= NumThreads[w[1]] /\ w[1] = n
    BY DEF Workers
  <2>2. w[2] \in 1 .. 9 /\ w = <<w[1], w[2]>>
    BY <2>1, SMTT(30)
  <2> QED
    BY <1>1, <2>1, <2>2, SMTT(30)
<1>3. f \in Injection(S, 1 .. NumThreads[n])
  <2>1. f \in [S -> 1 .. NumThreads[n]]
    BY <1>2
  <2>2. \A v, w \in S : f[v] = f[w] => v = w
    BY <1>2
  <2> HIDE DEF f
  <2> QED
    BY <2>1, <2>2 DEF Injection, IsInjective
<1>4. IsFiniteSet(1 .. NumThreads[n]) /\ Cardinality(1 .. NumThreads[n]) = NumThreads[n]
  BY <1>0, <1>1
<1> HIDE DEF f
<1>5. IsFiniteSet(S) /\ Cardinality(S) <= Cardinality(1 .. NumThreads[n])
  BY <1>3, <1>4, FS_Injection
<1> QED
  BY <1>4, <1>5, FS_CardinalityType

LEMMA ReaderStep ==
  ASSUME SoleReaders, FlowType, ReaderInv, [Next]_vars
  PROVE  ReaderInv'
<1>1. ASSUME NEW w \in Workers, Start(w)
      PROVE  ReaderInv'
  <2> DEFINE l == w[1]
  <2>1. /\ l \in Running /\ l \in Nodes /\ w \in Threads /\ In[l] \in Seq(Chns) /\ In[l] # <<>>
        /\ pc[w] = "start" /\ node[w] = l
    BY <1>1, WorkerFacts DEF Start, FlowType, ThreadOK
  <2>2. /\ chnOf' = [chnOf EXCEPT ![w] = In[l][(workerCnt[l] % Len(In[l])) + 1]]
        /\ workerCnt' = [workerCnt EXCEPT ![l] = @ + 1]
        /\ pc' = [pc EXCEPT ![w] = "loop"]
    BY <1>1, <2>1 DEF Start, ChannelIndex
  <2>3. /\ Started(l)' = Started(l) \cup {w} /\ w \notin Started(l)
        /\ \A n \in Running : n # l => Started(n)' = Started(n)
    BY <2>1, <2>2, SMTT(30) DEF Started, FlowType, Domains
  <2>4. workerCnt[l] = Cardinality(Started(l)) /\ workerCnt[l] \in Nat
    BY <2>1 DEF ReaderInv, FlowType
  <2>5. Cardinality(Started(l) \cup {w}) = workerCnt[l] + 1 /\ workerCnt[l] + 1 <= NumThreads[l]
    <3>1. IsFiniteSet(Started(l))
      BY <2>1, FewWorkers DEF Started
    <3>2. Started(l) \cup {w} \in SUBSET {v \in Workers : v[1] = l}
      BY DEF Started
    <3>3. Cardinality(Started(l) \cup {w}) <= NumThreads[l]
      BY <2>1, <3>2, FewWorkers
    <3>4. Cardinality(Started(l) \cup {w}) = workerCnt[l] + 1
      BY <2>3, <2>4, <3>1, FS_AddElement
    <3> QED
      BY <3>3, <3>4
  <2>6. /\ Len(In[l]) \in Nat /\ DOMAIN In[l] = 1 .. Len(In[l])
        /\ NumThreads[l] <= Len(In[l]) /\ NumThreads[l] \in Nat
        /\ \A i, j \in DOMAIN In[l] : In[l][i] = In[l][j] => i = j
    BY <2>1, ServicesAssumption, SMTT(30) DEF SoleReaders
  <2>7. workerCnt[l] % Len(In[l]) = workerCnt[l] /\ workerCnt[l] + 1 \in DOMAIN In[l]
    <3>1. \A a, b \in Nat : a < b => a % b = a
      BY SMTT(30)
    <3>2. workerCnt[l] < Len(In[l])
      BY <2>4, <2>5, <2>6, SMTT(30)
    <3>3. workerCnt[l] % Len(In[l]) = workerCnt[l]
      BY <2>4, <2>6, <3>1, <3>2
    <3>4. workerCnt[l] + 1 \in 1 .. Len(In[l])
      BY <2>4, <2>6, <3>2, SMTT(30)
    <3> QED
      BY <2>6, <3>3, <3>4
  <2>8. /\ workerCnt'[l] = workerCnt[l] + 1 /\ chnOf'[w] = In[l][workerCnt[l] + 1]
        /\ \A v \in Workers : v # w => chnOf'[v] = chnOf[v]
        /\ \A n \in Running : n # l => workerCnt'[n] = workerCnt[n]
    BY <2>1, <2>2, <2>7 DEF FlowType, Domains, Running
  <2>9. \A v \in Started(l) : \E k \in 1 .. workerCnt[l] : chnOf[v] = In[l][k]
    BY <2>1 DEF ReaderInv
  <2>10. \A v \in Started(l)' : \E k \in 1 .. workerCnt'[l] : chnOf'[v] = In[l][k]
    <3> SUFFICES ASSUME NEW v \in Started(l) \cup {w}
                 PROVE  \E k \in 1 .. workerCnt[l] + 1 : chnOf'[v] = In[l][k]
      BY <2>3, <2>8
    <3>1. workerCnt[l] + 1 \in 1 .. workerCnt[l] + 1 /\ 1 .. workerCnt[l] \subseteq 1 .. workerCnt[l] + 1
      BY <2>4, SMTT(30)
    <3> QED
      BY <2>3, <2>8, <2>9, <3>1, SMTT(30) DEF Started
  <2>11. \A v \in Started(l) : chnOf'[v] # chnOf'[w] /\ chnOf'[v] = chnOf[v]
    <3> SUFFICES ASSUME NEW v \in Started(l)
                 PROVE  chnOf'[v] # chnOf'[w] /\ chnOf'[v] = chnOf[v]
      OBVIOUS
    <3>1. PICK k \in 1 .. workerCnt[l] : chnOf[v] = In[l][k]
      BY <2>9
    <3>2. k \in DOMAIN In[l] /\ k # workerCnt[l] + 1
      BY <2>4, <2>6, <2>7, SMTT(30)
    <3>3. In[l][k] # In[l][workerCnt[l] + 1]
      BY <2>6, <2>7, <3>2
    <3> QED
      BY <2>3, <2>8, <3>1, <3>3 DEF Started
  <2>12. \A u, v \in Started(l)' : chnOf'[u] = chnOf'[v] => u = v
    BY <2>1, <2>3, <2>11, SMTT(30) DEF ReaderInv
  <2>13. ASSUME NEW n \in Running, n # l
         PROVE  /\ workerCnt'[n] = Cardinality(Started(n)')
                /\ \A v \in Started(n)' : \E k \in 1 .. workerCnt'[n] : chnOf'[v] = In[n][k]
                /\ \A u, v \in Started(n)' : chnOf'[u] = chnOf'[v] => u = v
    <3>1. \A v \in Started(n) : chnOf'[v] = chnOf[v]
      BY <2>8, <2>13 DEF Started
    <3> QED
      BY <2>3, <2>8, <2>13, <3>1, SMTT(30) DEF ReaderInv
  <2>14. workerCnt'[l] = Cardinality(Started(l)')
    BY <2>3, <2>5, <2>8
  <2> HIDE DEF l
  <2>15. ASSUME NEW n \in Running
         PROVE  /\ workerCnt'[n] = Cardinality(Started(n)')
                /\ \A v \in Started(n)' : \E k \in 1 .. workerCnt'[n] : chnOf'[v] = In[n][k]
                /\ \A u, v \in Started(n)' : chnOf'[u] = chnOf'[v] => u = v
    BY <2>10, <2>12, <2>13, <2>14, SMTT(30)
  <2> QED
    BY <2>15 DEF ReaderInv, Running
<1>2. CASE \A w \in Workers : ~Start(w)
  <2>1. /\ UNCHANGED <<workerCnt, chnOf>>
        /\ \A w \in Workers : pc'[w] = "start" <=> pc[w] = "start"
    BY <1>2, OthersStarted
  <2>2. \A n : Started(n)' = Started(n)
    BY <2>1 DEF Started
  <2> QED
    BY <2>1, <2>2 DEF ReaderInv, Running
<1> QED
  BY <1>1, <1>2

LEMMA ReaderInit ==
  ASSUME Init
  PROVE  ReaderInv
<1>1. \A w \in Workers : pc[w] = "start"
  BY DEF Init, Threads
<1>2. \A n : Started(n) = {}
  BY <1>1 DEF Started
<1>3. \A n \in Running : workerCnt[n] = 0
  BY DEF Init, Running
<1> QED
  BY <1>2, <1>3, FS_EmptySet DEF ReaderInv

(***************************************************************************)
(* FlowOrder.  Where no two threads read the same channel, no two feeders  *)
(* serve the same node and no message comes back, the messages of a flow   *)
(* are delivered in the order they came in, for any number of nodes,       *)
(* workers and messages, any capacity, and with Shutdown called at any     *)
(* time.  (Dispatch by msg->id(), IncThreads and the queues' order.)       *)
(***************************************************************************)
THEOREM FlowsOrdered ==
  ASSUME SoleReaders, SoleFeeders, NoCycle
  PROVE  Spec => []FlowOrder
<1>1. Init => PlaceInv
  BY PlaceInit
<1>2. Init => OrderInv
  <2> SUFFICES ASSUME Init PROVE OrderInv
    OBVIOUS
  <2>1. /\ \A c \in Chns : chn[c] = <<>>
        /\ \A n \in Nodes : delivered[n] = <<>>
        /\ DOMAIN delivered = Nodes /\ fed = <<>>
        /\ \A t \in Threads : msg[t] \notin Msgs
    BY ServicesAssumption DEF Init
  <2>2. SeqRange(<<>>) = {} /\ \A x, y : ~Before(<<>>, x, y)
    <3>1. DOMAIN <<>> = {}
      BY SMTT(30)
    <3> QED
      BY <3>1 DEF SeqRange, Before
  <2>3. \A m \in Msgs : /\ ~FeederHas(m) /\ ~Holds(delivered, m)
                        /\ \A c \in Chns : ~Stage(m, c) /\ ~WorkerHas(m, c)
    BY <2>1, <2>2 DEF FeederHas, WorkerHas, Queued, Stage, Holds, Threads
  <2> QED
    BY <2>1, <2>2, <2>3 DEF OrderInv, OnRoute, InLine, Ahead
<1>3. FlowType /\ PlaceInv /\ ReaderInv /\ OrderInv /\ [Next]_vars
        => PlaceInv' /\ ReaderInv' /\ OrderInv'
  BY StepMoves, PlaceStep, ReaderStep, ReadersDiffer, OrderStep
<1>4. FlowType /\ PlaceInv /\ OrderInv => FlowOrder
  <2> SUFFICES ASSUME FlowType, PlaceInv, OrderInv, NEW n \in Nodes, NEW x \in Msgs, NEW y \in Msgs,
                      Before(delivered[n], x, y), Origin[x] = Origin[y], Id[x] = Id[y]
               PROVE  Before(fed, x, y)
    BY DEF FlowOrder
  <2>1. PICK i, j \in DOMAIN delivered[n] : i < j /\ delivered[n][i] = x /\ delivered[n][j] = y
    BY DEF Before
  <2>2. i # j
    <3>1. delivered[n] \in Seq(Msgs)
      BY DEF FlowType
    <3>2. DOMAIN delivered[n] \subseteq Nat
      BY <3>1, SMTT(30)
    <3> QED
      BY <2>1, <3>2, SMTT(30)
  <2>3. x # y
    BY <2>1, <2>2, SMTT(30) DEF PlaceInv, NoRepeat, FlowType
  <2> QED
    BY <2>3 DEF OrderInv, Mates, Ahead
<1> QED
  BY <1>1, <1>2, <1>3, <1>4, FlowTyped, ReaderInit, PTL DEF Spec

===============================================================================
