----------------------------- MODULE QueueProofs -----------------------------
(***************************************************************************)
(* Proofs about Queue, for any number of threads, any set of elements and  *)
(* any capacity.                                                           *)
(***************************************************************************)
EXTENDS Queue, SequenceTheorems, TLAPS

(***************************************************************************)
(* What push_back and pop_front do to a sequence of elements.              *)
(***************************************************************************)
LEMMA PushFacts ==
  ASSUME NEW S, NEW s \in Seq(S), NEW e \in S
  PROVE  /\ Append(s, e) \in Seq(S)
         /\ Len(Append(s, e)) = Len(s) + 1
         /\ Len(s) \in Nat
BY AppendProperties, LenProperties

\* pop_front on a sequence that is not empty.
LEMMA PopFacts ==
  ASSUME NEW S, NEW s \in Seq(S), s # <<>>
  PROVE  /\ Head(s) \in S
         /\ Tail(s) \in Seq(S)
         /\ Len(Tail(s)) = Len(s) - 1
         /\ Len(s) \in Nat
BY HeadTailProperties, LenProperties

(***************************************************************************)
(* The type invariant is preserved by every step of every thread.          *)
(***************************************************************************)
LEMMA TypeInductive == TypeOK /\ [Next]_vars => TypeOK'
<1> SUFFICES ASSUME TypeOK, [Next]_vars PROVE TypeOK'
  OBVIOUS
<1> USE QueueAssumption DEF TypeOK, Threads, Callers, PCs
<1>1. ASSUME NEW p \in Producers, NEW e \in Elements, WaitEnqueue(p, e) PROVE TypeOK'
  BY <1>1 DEF WaitEnqueue
<1>2. ASSUME NEW c \in Consumers, WaitDequeue(c) PROVE TypeOK'
  BY <1>2 DEF WaitDequeue
<1>3. ASSUME NEW t \in Callers, TestBreak(t) PROVE TypeOK'
  BY <1>3, Zenon DEF TestBreak
<1>4. ASSUME NEW p \in Producers, Enqueue(p) PROVE TypeOK'
  <2>1. element[p] \in Elements
    BY <1>4 DEF Enqueue
  <2>2. /\ Append(pool, element[p]) \in Seq(Elements)
        /\ Len(Append(pool, element[p])) = Len(pool) + 1
        /\ Len(pool) \in Nat
        /\ Append(enqueued, element[p]) \in Seq(Elements)
    BY <2>1, PushFacts
  <2>3. CASE Full
    BY <1>4, <2>2, <2>3, Zenon DEF Enqueue
  <2>4. CASE ~Full
    <3>3. pool' = Append(pool, element[p]) /\ ~(Len(pool) >= Capacity)
      BY <1>4, <2>4 DEF Enqueue, Full, Pushed
    <3>1. pool' \in Seq(Elements) /\ Len(pool') <= Capacity
      BY ONLY <2>2, <3>3, Capacity \in Nat
    <3>2. /\ pc' \in [Threads -> PCs]
          /\ \A t \in Callers : pc'[t] # "breaking"
          /\ \A b \in Breakers : pc'[b] \in {"idle", "breaking"}
          /\ \A q \in Producers : pc'[q] # "idle" => pc[q] # "idle" /\ q # p
      BY <1>4, <2>4, Zenon DEF Enqueue, ReturnNotifyingOne
    <3> QED
      BY <1>4, <2>2, <2>4, <3>1, <3>2, Zenon DEF Enqueue
  <2> QED
    BY <2>3, <2>4
<1>5. ASSUME NEW c \in Consumers, Dequeue(c) PROVE TypeOK'
  <2>1. CASE pool = <<>>
    BY <1>5, <2>1 DEF Dequeue
  <2>2. CASE pool # <<>>
    <3>1. /\ Head(pool) \in Elements
          /\ Tail(pool) \in Seq(Elements)
          /\ Len(Tail(pool)) = Len(pool) - 1
          /\ Len(pool) \in Nat
      BY <2>2, PopFacts
    <3>2. Append(dequeued, Head(pool)) \in Seq(Elements)
      BY <3>1, PushFacts
    <3>3. /\ pc' \in [Threads -> PCs]
          /\ \A t \in Callers : pc'[t] # "breaking"
          /\ \A b \in Breakers : pc'[b] \in {"idle", "breaking"}
          /\ \A q \in Producers : pc'[q] # "idle" => pc[q] # "idle"
      BY <1>5, <2>2, Zenon DEF Dequeue, ReturnNotifyingOne
    <3>4. pool' = Tail(pool)
      BY <1>5, <2>2 DEF Dequeue
    <3>5. pool' \in Seq(Elements) /\ Len(pool') <= Capacity
      BY ONLY <3>1, <3>4, Len(pool) <= Capacity, Capacity \in Nat
    <3>6. element' \in [Callers -> Elements \cup {NullPtr}]
      BY <1>5, <2>2, <3>1, Zenon DEF Dequeue
    <3> QED
      BY <1>5, <2>2, <3>2, <3>3, <3>5, <3>6, Zenon DEF Dequeue
  <2> QED
    BY <2>1, <2>2
<1>6. ASSUME NEW t \in Callers, Park(t) \/ WaitForTimeout(t) PROVE TypeOK'
  BY <1>6, SMTT(30) DEF Park, WaitForTimeout
<1>7. ASSUME NEW b \in Breakers, SetBreak(b) \/ NotifyAll(b) PROVE TypeOK'
  BY <1>7, Zenon DEF SetBreak, NotifyAll
<1>8. CASE Destroy
  <2>1. pool' \in Seq(Elements) /\ Len(pool') <= Capacity
    BY <1>8, EmptySeq, Capacity \in Nat DEF Destroy
  <2> QED
    BY <1>8, <2>1, Zenon DEF Destroy
<1>9. CASE UNCHANGED vars
  BY <1>9 DEF vars
<1> QED
  BY <1>1, <1>2, <1>3, <1>4, <1>5, <1>6, <1>7, <1>8, <1>9, Zenon
     DEF Next, ProducerStep, ConsumerStep

(***************************************************************************)
(* The queue's type invariant, the bound on the pool included.             *)
(***************************************************************************)
THEOREM TypeCorrect == Spec => []TypeOK
<1>1. Init => TypeOK
  <2>1. <<>> \in Seq(Elements) /\ Len(<<>>) <= Capacity
    BY ONLY EmptySeq, QueueAssumption
  <2> QED
    BY <2>1, QueueAssumption, Zenon DEF Init, TypeOK, Threads, Callers, PCs
<1> QED
  BY <1>1, TypeInductive, PTL DEF Spec

-----------------------------------------------------------------------------
(***************************************************************************)
(* The strengthening.  Conservation alone is not inductive: an Enqueue     *)
(* after the destructor would push behind the dropped elements.  Nor is    *)
(* ExactOutcome: two writers offering the same element would push it       *)
(* twice.                                                                  *)
(***************************************************************************)
Lifecycle ==
    /\ alive => lost = <<>>
    /\ ~alive => pool = <<>> /\ \A t \in Threads : pc[t] = "idle"

DistinctOffers ==
    \A p, q \in Producers : p # q /\ element[p] = element[q] => element[p] = NullPtr

(***************************************************************************)
(* Every step keeps the destructor's place in the queue's life.            *)
(***************************************************************************)
LEMMA LifecycleInductive ==
  TypeOK /\ Lifecycle /\ [Next]_vars => Lifecycle'
<1> SUFFICES ASSUME TypeOK, Lifecycle, [Next]_vars PROVE Lifecycle'
  OBVIOUS
<1> USE QueueAssumption DEF Lifecycle, Threads, Callers
<1>1. ASSUME NEW p \in Producers, NEW e \in Elements, WaitEnqueue(p, e) PROVE Lifecycle'
  BY <1>1 DEF WaitEnqueue
<1>2. ASSUME NEW c \in Consumers, WaitDequeue(c) PROVE Lifecycle'
  BY <1>2 DEF WaitDequeue
<1>3. ASSUME NEW t \in Callers, TestBreak(t) PROVE Lifecycle'
  BY <1>3 DEF TestBreak
<1>4. ASSUME NEW p \in Producers, Enqueue(p) PROVE Lifecycle'
  BY <1>4 DEF Enqueue
<1>5. ASSUME NEW c \in Consumers, Dequeue(c) PROVE Lifecycle'
  BY <1>5 DEF Dequeue
<1>6. ASSUME NEW t \in Callers, Park(t) \/ WaitForTimeout(t) PROVE Lifecycle'
  BY <1>6 DEF Park, WaitForTimeout
<1>7. ASSUME NEW b \in Breakers, SetBreak(b) \/ NotifyAll(b) PROVE Lifecycle'
  BY <1>7 DEF SetBreak, NotifyAll
<1>8. CASE Destroy
  BY <1>8 DEF Destroy
<1>9. CASE UNCHANGED vars
  BY <1>9 DEF vars
<1> QED
  BY <1>1, <1>2, <1>3, <1>4, <1>5, <1>6, <1>7, <1>8, <1>9
     DEF Next, ProducerStep, ConsumerStep

(***************************************************************************)
(* Popping at the front moves the split between what is read and what is   *)
(* in the pool.                                                            *)
(***************************************************************************)
LEMMA PopKeepsOrder ==
  ASSUME NEW S, NEW d \in Seq(S), NEW s \in Seq(S), s # <<>>
  PROVE  d \o s = Append(d, Head(s)) \o Tail(s)
<1>1. Head(s) \in S /\ Tail(s) \in Seq(S) /\ <<Head(s)>> \in Seq(S)
  BY HeadTailProperties
<1>2. s = <<Head(s)>> \o Tail(s)
  <2>1. Len(s) \in Nat \ {0} /\ Len(<<Head(s)>>) = 1 /\ Len(Tail(s)) = Len(s) - 1
    BY EmptySeq, HeadTailProperties
  <2>2. <<Head(s)>> \o Tail(s) \in Seq(S) /\ Len(<<Head(s)>> \o Tail(s)) = Len(s)
    BY <1>1, <2>1, ConcatProperties
  <2>3. \A i \in 1 .. Len(s) : s[i] = (<<Head(s)>> \o Tail(s))[i]
    BY <1>1, <2>1, ConcatProperties, HeadTailProperties
  <2> QED
    BY <2>2, <2>3, SeqEqual
<1>3. d \o (<<Head(s)>> \o Tail(s)) = (d \o <<Head(s)>>) \o Tail(s)
  BY <1>1, ConcatAssociative
<1>4. Append(d, Head(s)) = d \o <<Head(s)>>
  BY <1>1, AppendIsConcat
<1> QED
  BY <1>2, <1>3, <1>4

(***************************************************************************)
(* Pushing at the back of the pool is pushing at the back of the history.  *)
(***************************************************************************)
LEMMA PushKeepsOrder ==
  \A d, s \in Seq(Elements), e \in Elements : Append(d \o s, e) = d \o Append(s, e)
<1> SUFFICES ASSUME NEW d \in Seq(Elements), NEW s \in Seq(Elements), NEW e \in Elements
             PROVE  Append(d \o s, e) = d \o Append(s, e)
  BY Zenon
<1>1. d \o s \in Seq(Elements) /\ <<e>> \in Seq(Elements)
  BY ConcatProperties
<1>2. Append(s, e) = s \o <<e>> /\ Append(d \o s, e) = (d \o s) \o <<e>>
  BY <1>1, AppendIsConcat
<1>3. (d \o s) \o <<e>> = d \o (s \o <<e>>)
  BY <1>1, ConcatAssociative
<1> QED
  BY <1>2, <1>3

(***************************************************************************)
(* Conservation is preserved: only Enqueue, Dequeue and ~Queue touch the   *)
(* pool.                                                                   *)
(***************************************************************************)
LEMMA ConservationInductive ==
  TypeOK /\ Lifecycle /\ Conservation /\ [Next]_vars => Conservation'
<1> SUFFICES ASSUME TypeOK, Lifecycle, Conservation, [Next]_vars
             PROVE  Conservation'
  OBVIOUS
<1> DEFINE Kept == UNCHANGED <<pool, enqueued, dequeued, lost>>
<1>1. Kept => Conservation'
  BY DEF Conservation
<1>2. ASSUME NEW p \in Producers, Enqueue(p) PROVE Conservation'
  <2>1. CASE Full
    BY <1>1, <1>2, <2>1 DEF Enqueue
  <2>2. CASE ~Full
    <3>1. /\ pool' = Append(pool, element[p])
          /\ enqueued' = Append(enqueued, element[p])
          /\ UNCHANGED <<dequeued, lost>>
      BY <1>2, <2>2 DEF Enqueue, Pushed
    <3>2. lost = <<>> /\ element[p] \in Elements
      BY <1>2, QueueAssumption DEF Enqueue, Lifecycle, TypeOK, Threads, Callers
    <3>3. Append(dequeued \o pool, element[p]) = dequeued \o Append(pool, element[p])
      <4>1. dequeued \in Seq(Elements) /\ pool \in Seq(Elements)
        BY DEF TypeOK
      <4> QED
        BY ONLY <3>2, <4>1, PushKeepsOrder, Zenon
    <3>4. /\ dequeued \o pool \in Seq(Elements)
          /\ dequeued \o Append(pool, element[p]) \in Seq(Elements)
      <4>1. dequeued \in Seq(Elements) /\ Append(pool, element[p]) \in Seq(Elements)
        BY <3>2, PushFacts DEF TypeOK
      <4>2. pool \in Seq(Elements)
        BY DEF TypeOK
      <4> QED
        BY ONLY <4>1, <4>2, ConcatProperties
    <3>5. /\ (dequeued \o pool) \o <<>> = dequeued \o pool
          /\ (dequeued \o Append(pool, element[p])) \o <<>> = dequeued \o Append(pool, element[p])
      BY <3>4, ConcatEmptySeq
    <3> QED
      BY <3>1, <3>2, <3>3, <3>5 DEF Conservation
  <2> QED
    BY <2>1, <2>2
<1>3. ASSUME NEW c \in Consumers, Dequeue(c) PROVE Conservation'
  <2>1. CASE pool = <<>>
    BY <1>1, <1>3, <2>1 DEF Dequeue
  <2>2. CASE pool # <<>>
    <3>1. /\ pool' = Tail(pool)
          /\ dequeued' = Append(dequeued, Head(pool))
          /\ UNCHANGED <<enqueued, lost>>
      BY <1>3, <2>2 DEF Dequeue
    <3>2. dequeued \o pool = Append(dequeued, Head(pool)) \o Tail(pool)
      BY <2>2, PopKeepsOrder DEF TypeOK
    <3> QED
      BY <3>1, <3>2 DEF Conservation
  <2> QED
    BY <2>1, <2>2
<1>4. CASE Destroy
  <2>1. pool' = <<>> /\ lost' = pool /\ lost = <<>> /\ UNCHANGED <<enqueued, dequeued>>
    BY <1>4 DEF Destroy, Lifecycle
  <2>2. dequeued \o pool \in Seq(Elements)
    BY ConcatProperties DEF TypeOK
  <2>3. dequeued \o pool \o <<>> = dequeued \o pool /\ dequeued \o <<>> = dequeued
    BY <2>2, ConcatEmptySeq DEF TypeOK
  <2> QED
    BY <2>1, <2>3 DEF Conservation
<1>5. ASSUME NEW t \in Callers, TestBreak(t) \/ Park(t) \/ WaitForTimeout(t)
      PROVE  Conservation'
  BY <1>1, <1>5 DEF TestBreak, Park, WaitForTimeout
<1>6. ASSUME NEW p \in Producers, NEW e \in Elements, WaitEnqueue(p, e) PROVE Conservation'
  BY <1>1, <1>6 DEF WaitEnqueue
<1>7. ASSUME NEW c \in Consumers, WaitDequeue(c) PROVE Conservation'
  BY <1>1, <1>7 DEF WaitDequeue
<1>8. ASSUME NEW b \in Breakers, SetBreak(b) \/ NotifyAll(b) PROVE Conservation'
  BY <1>1, <1>8 DEF SetBreak, NotifyAll
<1>9. CASE UNCHANGED vars
  BY <1>1, <1>9 DEF vars
<1> QED
  BY <1>2, <1>3, <1>4, <1>5, <1>6, <1>7, <1>8, <1>9
     DEF Next, ProducerStep, ConsumerStep, Callers

(***************************************************************************)
(* First in, first out, nothing lost and nothing twice, for any number of  *)
(* writers and readers: what was pushed is what was popped, in the same    *)
(* order, then what is in the pool or was dropped by the destructor.       *)
(***************************************************************************)
THEOREM QueueConservation == Spec => []Conservation
<1>1. Init => Lifecycle /\ Conservation
  <2>1. <<>> \o <<>> \o <<>> = <<>>
    BY EmptySeq, ConcatEmptySeq
  <2> QED
    BY <2>1 DEF Init, Lifecycle, Conservation
<1> QED
  BY <1>1, TypeCorrect, LifecycleInductive, ConservationInductive, PTL DEF Spec

(***************************************************************************)
(* The elements of a sequence after a push.                                *)
(***************************************************************************)
LEMMA PushRange ==
  ASSUME NEW S, NEW s \in Seq(S), NEW e \in S
  PROVE  /\ RangeOf(Append(s, e)) = RangeOf(s) \cup {e}
         /\ (/\ \A i, j \in DOMAIN s : s[i] = s[j] => i = j
             /\ e \notin RangeOf(s))
            => \A i, j \in DOMAIN Append(s, e) : Append(s, e)[i] = Append(s, e)[j] => i = j
<1>1. /\ Len(s) \in Nat
      /\ DOMAIN s = 1 .. Len(s)
      /\ DOMAIN Append(s, e) = 1 .. (Len(s) + 1)
      /\ \A i \in 1 .. Len(s) : Append(s, e)[i] = s[i]
      /\ Append(s, e)[Len(s) + 1] = e
  BY AppendProperties, LenProperties
<1>2. \A i \in 1 .. (Len(s) + 1) : i \in 1 .. Len(s) \/ i = Len(s) + 1
  BY <1>1
<1>3. Len(s) + 1 \in 1 .. (Len(s) + 1) /\ \A i \in 1 .. Len(s) : i \in 1 .. (Len(s) + 1)
  BY <1>1, SMTT(30)
<1> QED
  BY <1>1, <1>2, <1>3 DEF RangeOf

(***************************************************************************)
(* ExactOutcome is preserved together with the fact that no two writers    *)
(* offer the same element.                                                 *)
(***************************************************************************)
LEMMA OutcomeInductive ==
  TypeOK /\ ExactOutcome /\ DistinctOffers /\ [Next]_vars
    => ExactOutcome' /\ DistinctOffers'
<1> SUFFICES ASSUME TypeOK, ExactOutcome, DistinctOffers, [Next]_vars
             PROVE  ExactOutcome' /\ DistinctOffers'
  OBVIOUS
<1> USE QueueAssumption DEF ExactOutcome, DistinctOffers
<1>t. /\ pc \in [Threads -> PCs]
      /\ element \in [Callers -> Elements \cup {NullPtr}]
      /\ enqueued \in Seq(Elements)
      /\ refused \in SUBSET Elements
      /\ Producers \subseteq Callers
      /\ Callers \subseteq Threads
  BY DEF TypeOK, Callers, Threads
<1>0. NullPtr \notin refused \cup RangeOf(enqueued)
  BY <1>t, LenProperties DEF RangeOf
<1>1. ASSUME NEW p \in Producers, NEW e \in Elements, WaitEnqueue(p, e)
      PROVE  ExactOutcome' /\ DistinctOffers'
  BY <1>t, <1>1 DEF WaitEnqueue, Fresh
<1>2. ASSUME NEW c \in Consumers, WaitDequeue(c) PROVE ExactOutcome' /\ DistinctOffers'
  BY <1>t, <1>2 DEF WaitDequeue
<1>3. ASSUME NEW t \in Callers, TestBreak(t) PROVE ExactOutcome' /\ DistinctOffers'
  BY <1>t, <1>0, <1>3 DEF TestBreak
<1>4. ASSUME NEW p \in Producers, Enqueue(p) PROVE ExactOutcome' /\ DistinctOffers'
  <2>1. CASE Full
    BY <1>t, <1>4, <2>1 DEF Enqueue
  <2>2. CASE ~Full
    <3>1. /\ enqueued' = Append(enqueued, element[p])
          /\ element' = [element EXCEPT ![p] = NullPtr]
          /\ refused' = refused
          /\ element[p] \in Elements \ (refused \cup RangeOf(enqueued))
      BY <1>t, <1>4, <2>2 DEF Enqueue
    <3>2. /\ RangeOf(enqueued') = RangeOf(enqueued) \cup {element[p]}
          /\ \A i, j \in DOMAIN enqueued' : enqueued'[i] = enqueued'[j] => i = j
      BY <1>t, <3>1, PushRange
    <3>3. \A q \in Producers : /\ q # p => (pc'[q] # "idle" <=> pc[q] # "idle")
                               /\ pc'[p] = "idle"
      BY <1>t, <1>4, <2>2 DEF Enqueue, ReturnNotifyingOne
    <3>4. \A q \in Producers \ {p} : element[q] # element[p] /\ element'[q] = element[q]
      BY <1>t, <3>1
    <3>5. element'[p] = NullPtr
      BY <1>t, <3>1
    <3> QED
      BY <1>0, <3>1, <3>2, <3>3, <3>4, <3>5
  <2> QED
    BY <2>1, <2>2
<1>5. ASSUME NEW c \in Consumers, Dequeue(c) PROVE ExactOutcome' /\ DistinctOffers'
  <2>1. UNCHANGED <<enqueued, refused>>
    BY <1>5 DEF Dequeue
  <2>2. \A q \in Producers : element'[q] = element[q]
    BY <1>t, <1>5 DEF Dequeue
  <2>3. \A q \in Producers : pc'[q] # "idle" <=> pc[q] # "idle"
    BY <1>t, <1>5 DEF Dequeue, ReturnNotifyingOne
  <2> QED
    BY <2>1, <2>2, <2>3
<1>6. ASSUME NEW t \in Callers, Park(t) \/ WaitForTimeout(t)
      PROVE  ExactOutcome' /\ DistinctOffers'
  BY <1>t, <1>6 DEF Park, WaitForTimeout
<1>7. ASSUME NEW b \in Breakers, SetBreak(b) \/ NotifyAll(b)
      PROVE  ExactOutcome' /\ DistinctOffers'
  BY <1>t, <1>7 DEF SetBreak, NotifyAll
<1>8. CASE Destroy
  BY <1>8 DEF Destroy
<1>9. CASE UNCHANGED vars
  BY <1>9 DEF vars
<1> QED
  BY <1>1, <1>2, <1>3, <1>4, <1>5, <1>6, <1>7, <1>8, <1>9
     DEF Next, ProducerStep, ConsumerStep, Callers

(***************************************************************************)
(* WaitEnqueue's result can be trusted: an element is pushed at most once, *)
(* and never after WaitEnqueue returned false for it.                      *)
(***************************************************************************)
THEOREM QueueExactOutcome == Spec => []ExactOutcome
<1>1. Init => ExactOutcome /\ DistinctOffers
  BY DEF Init, ExactOutcome, DistinctOffers, RangeOf, Callers, Threads
<1> QED
  BY <1>1, TypeCorrect, OutcomeInductive, PTL DEF Spec

(***************************************************************************)
(* Once the flag is set and the threads already past its test are through, *)
(* the pool is frozen: only the destructor empties it.                     *)
(***************************************************************************)
THEOREM QueueFrozenAfterBreak == Spec => FrozenAfterBreak
<1>1. TypeOK /\ [Next]_vars => [Settled => Settled' /\ UNCHANGED <<enqueued, dequeued>>]_vars
  <2> SUFFICES ASSUME TypeOK, Next, Settled
               PROVE  Settled' /\ UNCHANGED <<enqueued, dequeued>>
    OBVIOUS
  <2> USE DEF TypeOK, Settled, Threads, Callers
  <2>1. ASSUME NEW p \in Producers, ProducerStep(p)
        PROVE  Settled' /\ UNCHANGED <<enqueued, dequeued>>
    BY <2>1, Zenon DEF ProducerStep, TestBreak, Enqueue, Park, WaitForTimeout
  <2>2. ASSUME NEW c \in Consumers, ConsumerStep(c)
        PROVE  Settled' /\ UNCHANGED <<enqueued, dequeued>>
    BY <2>2, Zenon DEF ConsumerStep, TestBreak, Dequeue, Park, WaitForTimeout
  <2>3. ASSUME NEW p \in Producers, NEW e \in Elements, WaitEnqueue(p, e)
        PROVE  Settled' /\ UNCHANGED <<enqueued, dequeued>>
    BY <2>3 DEF WaitEnqueue
  <2>4. ASSUME NEW c \in Consumers, WaitDequeue(c)
        PROVE  Settled' /\ UNCHANGED <<enqueued, dequeued>>
    BY <2>4 DEF WaitDequeue
  <2>5. ASSUME NEW b \in Breakers, SetBreak(b) \/ NotifyAll(b)
        PROVE  Settled' /\ UNCHANGED <<enqueued, dequeued>>
    BY <2>5, QueueAssumption, Zenon DEF SetBreak, NotifyAll
  <2>6. CASE Destroy
    BY <2>6 DEF Destroy
  <2> QED
    BY <2>1, <2>2, <2>3, <2>4, <2>5, <2>6 DEF Next
<1> QED
  BY <1>1, TypeCorrect, PTL DEF Spec, FrozenAfterBreak

-----------------------------------------------------------------------------
(***************************************************************************)
(* The refinement.  Calls and Offers are what the abstract queue sees.     *)
(***************************************************************************)
Calls == [t \in Callers |-> CallState(t)]
Offers == [p \in Producers |-> element[p]]

\* The abstract state of a call, by the place of the thread.
LEMMA CallStates ==
  ASSUME NEW t \in Callers
  PROVE  /\ pc[t] = "idle" => CallState(t) = "none"
         /\ pc[t] # "idle" /\ broken /\ pc[t] # "try" => CallState(t) = "void"
         /\ pc[t] = "try" \/ (pc[t] # "idle" /\ ~broken) => CallState(t) = "open"
BY DEF CallState

\* The same in the next state.
LEMMA CallStatesNext ==
  ASSUME NEW t \in Callers
  PROVE  /\ pc'[t] = "idle" => CallState(t)' = "none"
         /\ pc'[t] # "idle" /\ broken' /\ pc'[t] # "try" => CallState(t)' = "void"
         /\ pc'[t] = "try" \/ (pc'[t] # "idle" /\ ~broken') => CallState(t)' = "open"
BY DEF CallState

\* A thread that stays where it is, or is woken, stays in the same call.
LEMMA CallKept ==
  ASSUME NEW t \in Callers, broken' = broken, broken \in BOOLEAN,
         pc'[t] = pc[t] \/ (pc[t] = "waiting" /\ pc'[t] = "loop")
  PROVE  CallState(t)' = CallState(t)
BY CallStates, CallStatesNext

\* A step in which one call alone changes its state.
LEMMA OneCallChanges ==
  ASSUME NEW c \in Callers, NEW v, CallState(c)' = v,
         \A t \in Callers : t # c => CallState(t)' = CallState(t)
  PROVE  Calls' = [Calls EXCEPT ![c] = v]
BY Zenon DEF Calls

\* A step that no client of the abstract queue can see.
LEMMA FifoStutter ==
  ASSUME UNCHANGED <<pool, broken, alive>>,
         \A t \in Callers : CallState(t)' = CallState(t),
         \A p \in Producers : element'[p] = element[p]
  PROVE  UNCHANGED Fifo!fifoVars
BY DEF Fifo!fifoVars

\* A call that returns hands its element over, or drops it.
LEMMA ReturnedMapped ==
  ASSUME TypeOK, TypeOK', NEW c \in Callers, pc'[c] = "idle", broken' = broken,
         \A t \in Callers : t # c => pc'[t] = pc[t] \/ (pc[t] = "waiting" /\ pc'[t] = "loop"),
         \A q \in Producers : q # c => element'[q] = element[q]
  PROVE  Fifo!Returned(c)
<1>1. \A t \in Callers : t # c => CallState(t)' = CallState(t)
  BY CallKept DEF TypeOK
<1>2. Calls' = [Calls EXCEPT ![c] = "none"]
  BY <1>1, CallStatesNext, OneCallChanges
<1>3. CASE c \in Producers
  <2>1. element'[c] \in Elements \cup {NullPtr}
    BY DEF TypeOK
  <2>2. Offers' = [Offers EXCEPT ![c] = element'[c]]
    BY Zenon DEF Offers
  <2> QED
    BY <1>2, <1>3, <2>1, <2>2, Zenon DEF Fifo!Returned, Calls, Offers
<1>4. CASE c \in Consumers
  <2>1. c \notin Producers
    BY <1>4, QueueAssumption
  <2>2. Offers' = Offers
    BY <2>1 DEF Offers
  <2> QED
    BY <1>2, <1>4, <2>2 DEF Fifo!Returned, Calls, Offers
<1> QED
  BY <1>3, <1>4 DEF Callers

\* Every step of the queue is a step of the abstract queue, or none.
LEMMA FifoStep ==
  ASSUME TypeOK, TypeOK', Lifecycle, Next
  PROVE  Fifo!FifoNext \/ UNCHANGED Fifo!fifoVars
<1> USE QueueAssumption
<1>t. /\ pc \in [Threads -> PCs] /\ element \in [Callers -> Elements \cup {NullPtr}]
      /\ broken \in BOOLEAN /\ Callers \subseteq Threads /\ Producers \subseteq Callers
      /\ Consumers \subseteq Callers /\ Breakers \subseteq Threads
      /\ Breakers \cap Callers = {} /\ Producers \cap Consumers = {}
  BY DEF TypeOK, Callers, Threads
<1>c. Fifo!Clients = Callers
  BY DEF Fifo!Clients, Callers
<1>1. ASSUME NEW p \in Producers, NEW e \in Elements, WaitEnqueue(p, e) PROVE Fifo!Invoke(p)
  <2>1. /\ alive /\ pc[p] = "idle" /\ pc' = [pc EXCEPT ![p] = "loop"]
        /\ element' = [element EXCEPT ![p] = e] /\ UNCHANGED <<pool, broken, alive>>
    BY <1>1 DEF WaitEnqueue
  <2>2. \A t \in Callers : t # p => CallState(t)' = CallState(t)
    BY <1>t, <2>1, CallKept
  <2>3. CallState(p)' = (IF broken THEN "void" ELSE "open") /\ CallState(p) = "none"
    BY <1>t, <2>1, CallStates, CallStatesNext
  <2>4. Calls' = [Calls EXCEPT ![p] = IF broken THEN "void" ELSE "open"]
    BY <1>t, <2>2, <2>3, OneCallChanges
  <2>5. Offers' = [Offers EXCEPT ![p] = e]
    BY <1>t, <2>1, Zenon DEF Offers
  <2> QED
    BY <1>t, <2>1, <2>3, <2>4, <2>5, Zenon DEF Fifo!Invoke, Calls, Offers
<1>2. ASSUME NEW c \in Consumers, WaitDequeue(c) PROVE Fifo!Invoke(c)
  <2>1. /\ alive /\ pc[c] = "idle" /\ pc' = [pc EXCEPT ![c] = "loop"]
        /\ element' = [element EXCEPT ![c] = NullPtr] /\ UNCHANGED <<pool, broken, alive>>
    BY <1>2 DEF WaitDequeue
  <2>2. \A t \in Callers : t # c => CallState(t)' = CallState(t)
    BY <1>t, <2>1, CallKept
  <2>3. CallState(c)' = (IF broken THEN "void" ELSE "open") /\ CallState(c) = "none"
    BY <1>t, <2>1, CallStates, CallStatesNext
  <2>4. Calls' = [Calls EXCEPT ![c] = IF broken THEN "void" ELSE "open"]
    BY <1>t, <2>2, <2>3, OneCallChanges
  <2>5. Offers' = Offers
    BY <1>t, <2>1 DEF Offers
  <2> QED
    BY <1>t, <2>1, <2>3, <2>4, <2>5 DEF Fifo!Invoke, Calls, Offers
<1>3. ASSUME NEW t \in Callers, TestBreak(t)
      PROVE  Fifo!Refuse(t) \/ UNCHANGED Fifo!fifoVars
  <2>0. pc[t] = "loop" /\ UNCHANGED <<pool, broken, alive>>
    BY <1>3 DEF TestBreak
  <2>1. CASE ~broken
    <3>1. pc' = [pc EXCEPT ![t] = "try"] /\ element' = element
      BY <1>3, <2>1 DEF TestBreak
    <3>2. CallState(t)' = CallState(t)
      BY <1>t, <2>0, <2>1, <3>1, CallStates, CallStatesNext
    <3>3. \A x \in Callers : x # t => CallState(x)' = CallState(x)
      BY <1>t, <2>0, <3>1, CallKept
    <3> QED
      BY <2>0, <3>1, <3>2, <3>3, FifoStutter
  <2>2. CASE broken
    <3>1. /\ pc' = [pc EXCEPT ![t] = "idle"]
          /\ element' = element \/ element' = [element EXCEPT ![t] = NullPtr]
      BY <1>3, <2>2 DEF TestBreak
    <3>2. Fifo!Returned(t)
      BY <1>t, <2>0, <3>1, ReturnedMapped
    <3>3. CallState(t) = "void"
      BY <2>0, <2>2, CallStates
    <3> QED
      BY <2>0, <3>2, <3>3 DEF Fifo!Refuse
  <2> QED
    BY <2>1, <2>2
<1>w. ASSUME NEW t \in Callers, ReturnNotifyingOne(t), pc[t] = "try"
      PROVE  /\ pc'[t] = "idle"
             /\ \A x \in Callers : x # t => pc'[x] = pc[x] \/ (pc[x] = "waiting" /\ pc'[x] = "loop")
  BY <1>t, <1>w DEF ReturnNotifyingOne
<1>p. ASSUME NEW t \in Callers, pc[t] = "try", pc' = [pc EXCEPT ![t] = "park"],
             UNCHANGED <<pool, broken, alive, element>>
      PROVE  Fifo!Void(t) \/ UNCHANGED Fifo!fifoVars
  <2>1. \A x \in Callers : x # t => CallState(x)' = CallState(x)
    BY <1>t, <1>p, CallKept
  <2>2. CASE ~broken
    <3>1. CallState(t)' = CallState(t)
      BY <1>t, <1>p, <2>2, CallStates, CallStatesNext
    <3> QED
      BY <1>p, <2>1, <3>1, FifoStutter
  <2>3. CASE broken
    <3>1. CallState(t) = "open" /\ CallState(t)' = "void"
      BY <1>t, <1>p, <2>3, CallStates, CallStatesNext
    <3>2. Calls' = [Calls EXCEPT ![t] = "void"]
      BY <2>1, <3>1, OneCallChanges
    <3> QED
      BY <1>p, <2>3, <3>1, <3>2 DEF Fifo!Void, Calls
  <2> QED
    BY <2>2, <2>3
<1>4. ASSUME NEW p \in Producers, Enqueue(p)
      PROVE  Fifo!Put(p) \/ Fifo!Void(p) \/ UNCHANGED Fifo!fifoVars
  <2>1. CASE Full
    BY <1>t, <1>p, <1>4, <2>1 DEF Enqueue
  <2>2. CASE ~Full
    <3>1. /\ pc[p] = "try" /\ pool' = Append(pool, element[p]) /\ ReturnNotifyingOne(p)
          /\ element' = [element EXCEPT ![p] = NullPtr] /\ UNCHANGED <<broken, alive>>
          /\ ~(Len(pool) >= Capacity)
      BY <1>4, <2>2 DEF Enqueue, Full, Pushed
    <3>2. Fifo!Returned(p)
      BY <1>t, <1>w, <3>1, ReturnedMapped
    <3>3. CallState(p) = "open"
      BY <1>t, <3>1, CallStates
    <3>4. Len(pool) < Capacity
      <4>1. Len(pool) \in Nat
        BY LenProperties DEF TypeOK
      <4> QED
        BY ONLY <3>1, <4>1, Capacity \in Nat
    <3> QED
      BY <1>t, <3>1, <3>2, <3>3, <3>4 DEF Fifo!Put
  <2> QED
    BY <2>1, <2>2
<1>5. ASSUME NEW c \in Consumers, Dequeue(c)
      PROVE  Fifo!Get(c) \/ Fifo!Void(c) \/ UNCHANGED Fifo!fifoVars
  <2>1. CASE pool = <<>>
    BY <1>t, <1>p, <1>5, <2>1 DEF Dequeue
  <2>2. CASE pool # <<>>
    <3>1. /\ pc[c] = "try" /\ pool' = Tail(pool) /\ ReturnNotifyingOne(c)
          /\ element' = [element EXCEPT ![c] = Head(pool)] /\ UNCHANGED <<broken, alive>>
      BY <1>5, <2>2 DEF Dequeue
    <3>2. Fifo!Returned(c)
      BY <1>t, <1>w, <3>1, ReturnedMapped
    <3>3. CallState(c) = "open"
      BY <1>t, <3>1, CallStates
    <3> QED
      BY <1>t, <2>2, <3>1, <3>2, <3>3 DEF Fifo!Get
  <2> QED
    BY <2>1, <2>2
<1>6. ASSUME NEW t \in Callers, Park(t) \/ WaitForTimeout(t) PROVE UNCHANGED Fifo!fifoVars
  <2>1. /\ pc[t] \in {"park", "waiting"} /\ pc'[t] \in {"waiting", "loop"}
        /\ \A x \in Callers : x # t => pc'[x] = pc[x]
        /\ UNCHANGED <<pool, broken, alive, element>>
    BY <1>t, <1>6 DEF Park, WaitForTimeout
  <2>2. CallState(t)' = CallState(t)
    BY <1>t, <2>1, CallStates, CallStatesNext
  <2>3. \A x \in Callers : x # t => CallState(x)' = CallState(x)
    BY <1>t, <2>1, CallKept
  <2> QED
    BY <2>1, <2>2, <2>3, FifoStutter
<1>7. ASSUME NEW b \in Breakers, SetBreak(b) PROVE Fifo!Close
  <2>1. /\ broken' = TRUE /\ pc' = [pc EXCEPT ![b] = "breaking"] /\ UNCHANGED <<pool, alive, element>>
    BY <1>7 DEF SetBreak
  <2>2. \A t \in Callers : pc'[t] = pc[t]
    BY <1>t, <2>1
  <2> DEFINE V == {t \in Callers : CallState(t) = "open" /\ pc[t] # "try"}
  <2>3. ASSUME NEW t \in Callers
        PROVE  CallState(t)' = IF t \in V THEN "void" ELSE CallState(t)
    BY <1>t, <2>1, <2>2, CallStates, CallStatesNext
  <2>4. Calls' = [t \in Callers |-> IF t \in V THEN "void" ELSE Calls[t]]
    BY <2>3 DEF Calls
  <2>5. V \in SUBSET {t \in Callers : Calls[t] = "open"}
    BY DEF Calls
  <2> QED
    BY <1>c, <2>1, <2>4, <2>5, Zenon DEF Fifo!Close, Calls
<1>8. ASSUME NEW b \in Breakers, NotifyAll(b) PROVE UNCHANGED Fifo!fifoVars
  <2>1. /\ \A t \in Callers : pc'[t] = pc[t] \/ (pc[t] = "waiting" /\ pc'[t] = "loop")
        /\ UNCHANGED <<pool, broken, alive, element>>
    BY <1>t, <1>8 DEF NotifyAll
  <2> QED
    BY <1>t, <2>1, CallKept, FifoStutter
<1>9. CASE Destroy
  <2>1. /\ alive /\ alive' = FALSE /\ broken' = TRUE /\ pool' = <<>> /\ UNCHANGED <<pc, element>>
        /\ \A t \in Callers : pc[t] = "idle"
    BY <1>t, <1>9 DEF Destroy
  <2>2. \A t \in Callers : CallState(t) = "none" /\ CallState(t)' = "none"
    BY <2>1, CallStates, CallStatesNext
  <2>3. Calls' = Calls /\ \A t \in Callers : Calls[t] = "none"
    BY <2>2 DEF Calls
  <2>4. (~alive') = TRUE
    BY <2>1, Zenon
  <2>5. Fifo!Discard
    BY <1>c, <2>1, <2>3, <2>4 DEF Fifo!Discard, Calls
  <2> QED
    BY <2>5 DEF Fifo!FifoNext
<1> QED
  BY <1>t, <1>c, <1>1, <1>2, <1>3, <1>4, <1>5, <1>6, <1>7, <1>8, <1>9
     DEF Next, ProducerStep, ConsumerStep, Fifo!FifoNext

(***************************************************************************)
(* The queue implements the atomic bounded FIFO, for any number of threads *)
(* and any capacity: whatever the interleaving of the unlocked tests, the  *)
(* locked sections, waits, wakeups and BreakAllWait, every call takes      *)
(* effect in one step.  (That calls return, the fair half of the property  *)
(* ImplementsFifo, is for the model checker.)                              *)
(***************************************************************************)
THEOREM QueueImplementsFifo == Spec => Fifo!FifoSafety
<1>1. Init => Fifo!FifoInit
  <2> SUFFICES ASSUME Init PROVE Fifo!FifoInit
    OBVIOUS
  <2>1. Fifo!Clients = Callers /\ Callers \subseteq Threads
    BY DEF Fifo!Clients, Callers, Threads
  <2>2. \A t \in Callers : CallState(t) = "none"
    BY <2>1, CallStates DEF Init
  <2>3. (~alive) = FALSE
    BY Zenon DEF Init
  <2>4. [p \in Producers |-> element[p]] \in [Producers -> Elements \cup {NullPtr}]
    BY DEF Init, Callers
  <2> QED
    BY <2>1, <2>2, <2>3, <2>4 DEF Init, Fifo!FifoInit
<1>2. Init => Lifecycle
  BY DEF Init, Lifecycle
<1>3. TypeOK /\ TypeOK' /\ Lifecycle /\ [Next]_vars => [Fifo!FifoNext]_(Fifo!fifoVars)
  <2> SUFFICES ASSUME TypeOK, TypeOK', Lifecycle, [Next]_vars
               PROVE  Fifo!FifoNext \/ UNCHANGED Fifo!fifoVars
    OBVIOUS
  <2>1. CASE Next
    BY <2>1, FifoStep
  <2>2. CASE UNCHANGED vars
    <3>1. UNCHANGED <<pool, broken, alive, pc, element>>
      BY <2>2 DEF vars
    <3>2. \A t \in Callers : CallState(t)' = CallState(t)
      BY <3>1 DEF CallState
    <3> QED
      BY <3>1, <3>2, FifoStutter
  <2> QED
    BY <2>1, <2>2
<1> QED
  BY <1>1, <1>2, <1>3, TypeCorrect, LifecycleInductive, PTL DEF Spec, Fifo!FifoSafety

==============================================================================
