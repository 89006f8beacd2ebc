------------------------------- MODULE Queue -------------------------------
(***************************************************************************)
(* The bounded blocking queue of src/src/include/queue.h: class Queue and  *)
(* the BlockWaitStrategy it waits with.                                    *)
(*                                                                         *)
(* What makes it delicate is that the pool is guarded by Queue::mutex_ and *)
(* the condition variable by BlockWaitStrategy::mutex_.  Between the       *)
(* failed Enqueue or Dequeue of a thread and its cv_.wait_for, any other   *)
(* thread may change the pool and notify: that notification is lost and    *)
(* only the 30ms bound of the wait wakes the thread.  Each read of the     *)
(* shared state outside a lock is therefore a step of its own:             *)
(*                                                                         *)
(*   "idle"      outside the queue                                         *)
(*   "loop"      about to test  while (!break_all_wait_)                   *)
(*   "try"       about to take mutex_ in Enqueue or Dequeue                *)
(*   "park"      the attempt failed, about to enter cv_.wait_for           *)
(*   "waiting"   in cv_.wait_for                                           *)
(*   "breaking"  BreakAllWait has set the flag, not yet called notify_all  *)
(***************************************************************************)
EXTENDS Naturals, Sequences

CONSTANTS
    Producers,  \* threads that call WaitEnqueue
    Consumers,  \* threads that call WaitDequeue
    Breakers,   \* threads that call BreakAllWait
    Elements,   \* the smart pointers handed through the queue
    NullPtr,    \* nullptr
    Capacity    \* pool_size_

ASSUME QueueAssumption ==
    /\ Capacity \in Nat \ {0}
    /\ NullPtr \notin Elements
    /\ Producers \cap Consumers = {}
    /\ Producers \cap Breakers = {}
    /\ Consumers \cap Breakers = {}

VARIABLES
    pool,      \* pool_
    broken,    \* break_all_wait_
    alive,     \* FALSE once the destructor has run
    pc,        \* where each thread is
    element,   \* WaitEnqueue's argument, WaitDequeue's out-parameter
    enqueued,  \* history: the elements in the order they were pushed
    dequeued,  \* history: the elements in the order they were popped
    refused,   \* history: the elements WaitEnqueue returned false for
    lost       \* history: the elements the destructor dropped

vars == <<pool, broken, alive, pc, element, enqueued, dequeued, refused, lost>>

Callers == Producers \cup Consumers
Threads == Callers \cup Breakers

RangeOf(s) == {s[i] : i \in DOMAIN s}

-----------------------------------------------------------------------------
Init ==
    /\ pool = <<>>
    /\ broken = FALSE
    /\ alive = TRUE
    /\ pc = [t \in Threads |-> "idle"]
    /\ element = [t \in Callers |-> NullPtr]
    /\ enqueued = <<>>
    /\ dequeued = <<>>
    /\ refused = {}
    /\ lost = <<>>

(***************************************************************************)
(* Every element is offered once: messages are distinct heap objects.      *)
(***************************************************************************)
Fresh(e) ==
    /\ e \notin RangeOf(enqueued) \cup refused
    /\ \A p \in Producers : element[p] # e

WaitEnqueue(p, e) ==
    /\ alive
    /\ pc[p] = "idle"
    /\ Fresh(e)
    /\ pc' = [pc EXCEPT ![p] = "loop"]
    /\ element' = [element EXCEPT ![p] = e]
    /\ UNCHANGED <<pool, broken, alive, enqueued, dequeued, refused, lost>>

\* Mutant: a do-while that tries the pool before it looks at the flag.
WaitDequeueTryingFirst(c) ==
    /\ alive
    /\ pc[c] = "idle"
    /\ pc' = [pc EXCEPT ![c] = "try"]
    /\ element' = [element EXCEPT ![c] = NullPtr]
    /\ UNCHANGED <<pool, broken, alive, enqueued, dequeued, refused, lost>>

(***************************************************************************)
(* The readers (HandlerRelaying, HandleWritting, the timer pool) pass a    *)
(* null pointer and look at it, not at the result, when the call returns.  *)
(***************************************************************************)
WaitDequeue(c) ==
    /\ alive
    /\ pc[c] = "idle"
    /\ pc' = [pc EXCEPT ![c] = "loop"]
    /\ element' = [element EXCEPT ![c] = NullPtr]
    /\ UNCHANGED <<pool, broken, alive, enqueued, dequeued, refused, lost>>

(***************************************************************************)
(* while (!break_all_wait_), read without a lock by both calls.            *)
(***************************************************************************)
TestBreak(t) ==
    /\ pc[t] = "loop"
    /\ \/ /\ ~broken
          /\ pc' = [pc EXCEPT ![t] = "try"]
          /\ UNCHANGED <<element, refused>>
       \/ /\ broken
          /\ pc' = [pc EXCEPT ![t] = "idle"]
          /\ \/ /\ t \in Producers
                /\ refused' = refused \cup {element[t]}
                /\ element' = [element EXCEPT ![t] = NullPtr]
             \/ /\ t \in Consumers
                /\ UNCHANGED <<element, refused>>
    /\ UNCHANGED <<pool, broken, alive, enqueued, dequeued, lost>>

(***************************************************************************)
(* t returns and cv_.notify_one wakes one of the waiting threads, reader   *)
(* or writer, if there is any.                                             *)
(***************************************************************************)
ReturnNotifyingOne(t) ==
    LET waiting == {w \in Callers : pc[w] = "waiting"}
    IN  \/ /\ waiting = {}
           /\ pc' = [pc EXCEPT ![t] = "idle"]
        \/ \E w \in waiting : pc' = [pc EXCEPT ![t] = "idle", ![w] = "loop"]

\* Mutants: the size test off by one, the element put at the front.
FullOffByOne == Len(pool) > Capacity
PushedInFront(e) == <<e>> \o pool

\* pool_.size() >= pool_size_
Full == Len(pool) >= Capacity

\* pool_.push_back
Pushed(e) == Append(pool, e)

Enqueue(p) ==
    /\ pc[p] = "try"
    /\ \/ /\ Full
          /\ pc' = [pc EXCEPT ![p] = "park"]
          /\ UNCHANGED <<pool, element, enqueued>>
       \/ /\ ~Full
          /\ pool' = Pushed(element[p])
          /\ enqueued' = Append(enqueued, element[p])
          /\ element' = [element EXCEPT ![p] = NullPtr]
          /\ ReturnNotifyingOne(p)
    /\ UNCHANGED <<broken, alive, dequeued, refused, lost>>

Dequeue(c) ==
    /\ pc[c] = "try"
    /\ \/ /\ pool = <<>>
          /\ pc' = [pc EXCEPT ![c] = "park"]
          /\ UNCHANGED <<pool, element, dequeued>>
       \/ /\ pool # <<>>
          /\ element' = [element EXCEPT ![c] = Head(pool)]
          /\ pool' = Tail(pool)
          /\ dequeued' = Append(dequeued, Head(pool))
          /\ ReturnNotifyingOne(c)
    /\ UNCHANGED <<broken, alive, enqueued, refused, lost>>

(***************************************************************************)
(* EmptyWait: lock the strategy's own mutex and wait on the condition      *)
(* variable; it always returns true, so the caller goes round again.       *)
(***************************************************************************)
Park(t) ==
    /\ pc[t] = "park"
    /\ pc' = [pc EXCEPT ![t] = "waiting"]
    /\ UNCHANGED <<pool, broken, alive, element, enqueued, dequeued, refused, lost>>

\* Mutants: cv_.wait with no bound; a timeout taken for a success.
WaitUnbounded(t) == pc[t] = "waiting" /\ FALSE /\ UNCHANGED vars

WaitThenReturn(t) ==
    /\ pc[t] = "waiting"
    /\ pc' = [pc EXCEPT ![t] = "idle"]
    /\ UNCHANGED <<pool, broken, alive, element, enqueued, dequeued, refused, lost>>

\* wait_for's 30ms have passed, or the wakeup is spurious.
WaitForTimeout(t) ==
    /\ pc[t] = "waiting"
    /\ pc' = [pc EXCEPT ![t] = "loop"]
    /\ UNCHANGED <<pool, broken, alive, element, enqueued, dequeued, refused, lost>>

\* BreakAllWait: the flag first, then notify_all.
SetBreak(b) ==
    /\ alive
    /\ pc[b] = "idle"
    /\ broken' = TRUE
    /\ pc' = [pc EXCEPT ![b] = "breaking"]
    /\ UNCHANGED <<pool, alive, element, enqueued, dequeued, refused, lost>>

NotifyAll(b) ==
    /\ pc[b] = "breaking"
    /\ pc' = [t \in Threads |-> IF t = b THEN "idle"
                                ELSE IF pc[t] = "waiting" THEN "loop"
                                ELSE pc[t]]
    /\ UNCHANGED <<pool, broken, alive, element, enqueued, dequeued, refused, lost>>

(***************************************************************************)
(* ~Queue: the last shared_ptr to the channel is gone, so no thread is     *)
(* inside.  What is still in the pool is dropped.                          *)
(***************************************************************************)
Destroy ==
    /\ alive
    /\ \A t \in Threads : pc[t] = "idle"
    /\ alive' = FALSE
    /\ broken' = TRUE
    /\ lost' = pool
    /\ pool' = <<>>
    /\ UNCHANGED <<pc, element, enqueued, dequeued, refused>>

-----------------------------------------------------------------------------
ProducerStep(p) == TestBreak(p) \/ Enqueue(p) \/ Park(p) \/ WaitForTimeout(p)

ConsumerStep(c) == TestBreak(c) \/ Dequeue(c) \/ Park(c) \/ WaitForTimeout(c)

Next ==
    \/ \E p \in Producers : ProducerStep(p) \/ \E e \in Elements : WaitEnqueue(p, e)
    \/ \E c \in Consumers : ConsumerStep(c) \/ WaitDequeue(c)
    \/ \E b \in Breakers : SetBreak(b) \/ NotifyAll(b)
    \/ Destroy

Spec == Init /\ [][Next]_vars

(***************************************************************************)
(* A thread inside the queue keeps running (the operating system schedules *)
(* it, and wait_for returns after 30ms), and a reader comes back for the   *)
(* next element, as the loops of DoWork and of the timer pool do.  Nobody  *)
(* has to offer an element, to break the queue or to destroy it.           *)
(***************************************************************************)
Fairness ==
    /\ \A p \in Producers : WF_vars(ProducerStep(p))
    /\ \A c \in Consumers : WF_vars(ConsumerStep(c) \/ WaitDequeue(c))
    /\ \A b \in Breakers : WF_vars(NotifyAll(b))

FairSpec == Spec /\ Fairness

-----------------------------------------------------------------------------
PCs == {"idle", "loop", "try", "park", "waiting", "breaking"}

(***************************************************************************)
(* Types; the pool never holds more than pool_size_ elements, and only     *)
(* the threads that call BreakAllWait are ever between its two halves.     *)
(***************************************************************************)
TypeOK ==
    /\ pool \in Seq(Elements)
    /\ Len(pool) <= Capacity
    /\ broken \in BOOLEAN
    /\ alive \in BOOLEAN
    /\ pc \in [Threads -> PCs]
    /\ \A t \in Callers : pc[t] # "breaking"
    /\ \A b \in Breakers : pc[b] \in {"idle", "breaking"}
    /\ element \in [Callers -> Elements \cup {NullPtr}]
    /\ \A p \in Producers : pc[p] # "idle" => element[p] # NullPtr
    /\ enqueued \in Seq(Elements)
    /\ dequeued \in Seq(Elements)
    /\ refused \in SUBSET Elements
    /\ lost \in Seq(Elements)

(***************************************************************************)
(* First in, first out, nothing lost and nothing twice: what was pushed is *)
(* what was popped, in the same order, followed by what is still in the    *)
(* pool or was dropped by the destructor (Enqueue, Dequeue, ~Queue).       *)
(***************************************************************************)
Conservation == enqueued = dequeued \o pool \o lost

(***************************************************************************)
(* The result of WaitEnqueue is exact: an element is pushed at most once,  *)
(* and one that a writer still offers, or for which WaitEnqueue returned   *)
(* false, was never pushed.  So a caller that retries on false cannot      *)
(* duplicate a message.                                                    *)
(***************************************************************************)
ExactOutcome ==
    /\ \A i, j \in DOMAIN enqueued : enqueued[i] = enqueued[j] => i = j
    /\ refused \cap RangeOf(enqueued) = {}
    /\ \A p \in Producers : /\ element[p] \notin refused \cup RangeOf(enqueued)
                            /\ pc[p] # "idle" <=> element[p] # NullPtr

\* No thread is past the test of the flag: nobody is about to lock the pool.
Settled == broken /\ \A t \in Callers : pc[t] # "try"

(***************************************************************************)
(* BreakAllWait freezes the queue: once the flag is set and the threads    *)
(* that had already passed the test are through, no element is pushed or   *)
(* popped any more, whatever is called (WaitEnqueue, WaitDequeue).         *)
(***************************************************************************)
FrozenAfterBreak ==
    [][Settled => Settled' /\ UNCHANGED <<enqueued, dequeued>>]_vars

(***************************************************************************)
(* An element in the pool is taken by a reader, unless the queue is broken *)
(* first, although the notification of its Enqueue may have been lost or   *)
(* may have gone to a waiting writer.                                      *)
(***************************************************************************)
EventuallyTaken ==
    \A e \in Elements : e \in RangeOf(pool) ~> (e \notin RangeOf(pool) \/ broken)

(***************************************************************************)
(* The abstract view of the queue: a call that holds its place before or   *)
(* in the locked section is open until the flag is set.                    *)
(***************************************************************************)
CallState(t) ==
    CASE pc[t] = "idle" -> "none"
      [] pc[t] # "idle" /\ broken /\ pc[t] # "try" -> "void"
      [] OTHER -> "open"

Fifo == INSTANCE BoundedFifo WITH
    Writers <- Producers,
    Readers <- Consumers,
    Values  <- Elements \cup {NullPtr},
    Bound   <- Capacity,
    items   <- pool,
    closed  <- broken,
    gone    <- ~alive,
    call    <- [t \in Callers |-> CallState(t)],
    val     <- [p \in Producers |-> element[p]]

(***************************************************************************)
(* The queue implements the atomic bounded FIFO: WaitEnqueue, WaitDequeue, *)
(* BreakAllWait and ~Queue behave as if each took effect in one step, and  *)
(* a call that can return does, although wakeups are lost.                 *)
(***************************************************************************)
ImplementsFifo == Fifo!FifoSpec
=============================================================================
