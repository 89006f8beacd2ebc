---------------------------- MODULE TimerManager ----------------------------
(***************************************************************************)
(* The timer service of src/src/util/timer.h and timer.cc: the thread that *)
(* advances tick_ and scans the timers, the one-thread pool that runs the  *)
(* handlers, the clients that add and cancel timers, and Stop.             *)
(*                                                                         *)
(* Locks.  The tick thread holds mutex_ for a whole scan and, while it     *)
(* waits for room in the queue of expired timers, the timer's own mutex    *)
(* too.  The other critical sections are single steps, so the locks are    *)
(* read off the tick thread's state.  The queue behaves as BoundedFifo.    *)
(*                                                                         *)
(* tick_, start and expires are unsigned and wrap: all sums are modulo     *)
(* Wrap (2^64 in the code).  The list of timers is kept as the number of   *)
(* its nodes that hold each timer; the order of the scan is left open.     *)
(***************************************************************************)
EXTENDS Integers, Sequences, FiniteSets

CONSTANTS
    Timers,      \* the Timer objects
    Expires,     \* [Timers -> Nat]
    Oneshots,    \* SUBSET Timers: those passed to AddOneshotTimer
    Callback,    \* [Timers -> {"none", "add", "cancel"}]: what the handler calls
    Clients,     \* threads that call AddTimer, AddOneshotTimer, CancelTimer
    NullPtr,     \* nullptr
    QueueSize,   \* the size of "timerq" (10 in the code)
    Wrap,        \* the modulus of uint64_t arithmetic
    MaxListed,   \* bound: nodes of the list that hold one timer; more are not kept
    MaxCancels   \* bound: refcnt does not sink below -MaxCancels

Resolution == 5

ASSUME TimerAssumption ==
    /\ NullPtr \notin Timers
    /\ QueueSize \in Nat \ {0}
    /\ Wrap \in Nat /\ Wrap > Resolution
    /\ Expires \in [Timers -> 0 .. Wrap - 1]
    /\ Oneshots \subseteq Timers
    /\ Callback \in [Timers -> {"none", "add", "cancel"}]
    /\ MaxListed \in Nat \ {0} /\ MaxCancels \in Nat

VARIABLES
    tick,       \* tick_
    listed,     \* timers_: how many nodes of the list hold each timer
    start,      \* Timer::start of the listed timers, read of no other (then 0)
    oneshot,    \* Timer::oneshot
    cancelled,  \* Timer::cancelled
    refcnt,     \* Timer::refcnt
    queue,      \* timeout_: the queue of expired timers
    broken,     \* timeout_'s break_all_wait_
    stop,       \* stop_
    tpc,        \* the tick thread: "test", "sleep", "ticked", "scan", "enqueue", "done"
    unvisited,  \* the nodes its scan has not reached yet
    cur,        \* the timer it is enqueuing
    wpc,        \* the pool thread: "test", "reading", "handler", "done"
    wtimer,     \* the timer whose handler it runs
    arg,        \* [Clients]: the timer a client is about to add
    spc,        \* the thread that calls Stop: "out", "flagged", "joining", "returned"
    fired       \* history: how often each oneshot timer expired, up to 2

timerVars == <<start, oneshot, cancelled, refcnt>>
tickVars == <<tpc, unvisited, cur>>
workVars == <<wpc, wtimer>>
vars == <<tick, listed, timerVars, queue, broken, stop, tickVars, workVars,
          arg, spc, fired>>

\* Mutant: no wrap.
PlusUnwrapped(a, b) == a + b

\* Unsigned addition and subtraction.
Plus(a, b) == IF a + b < Wrap THEN a + b ELSE a + b - Wrap
Minus(a, b) == IF a >= b THEN a - b ELSE a - b + Wrap

\* Counters that the code leaves unbounded stay at their bound.
UpTo(n, max) == IF n <= max THEN n ELSE max

\* mutex_ and t->mutex, seen from the threads that do not tick.
MutexFree == tpc \notin {"scan", "enqueue"}
TimerFree(t) == ~(tpc = "enqueue" /\ cur = t)

Init ==
    /\ tick = 0
    /\ listed = [t \in Timers |-> 0]
    /\ start = [t \in Timers |-> 0]
    /\ oneshot = [t \in Timers |-> FALSE]
    /\ cancelled = [t \in Timers |-> FALSE]
    /\ refcnt = [t \in Timers |-> 1]
    /\ queue = <<>>
    /\ broken = FALSE
    /\ stop = FALSE
    /\ tpc = "test"
    /\ unvisited = [t \in Timers |-> 0]
    /\ cur = NullPtr
    /\ wpc = "test"
    /\ wtimer = NullPtr
    /\ arg = [c \in Clients |-> NullPtr]
    /\ spc = "out"
    /\ fired = [t \in Oneshots |-> 0]

-----------------------------------------------------------------------------
(***************************************************************************)
(* Clients.  AddTimer throws for an expiry that is not a multiple of the   *)
(* resolution and returns for zero: neither changes anything.              *)
(***************************************************************************)
Accepts(t) == Expires[t] % Resolution = 0 /\ Expires[t] > 0

\* Mutant: the start is not set when the timer is added.
AddTimerKeepingStart(t) ==
    \/ ~Accepts(t) /\ UNCHANGED <<listed, start>>
    \/ /\ Accepts(t)
       /\ MutexFree
       /\ listed' = [listed EXCEPT ![t] = UpTo(@ + 1, MaxListed)]
       /\ UNCHANGED start

AddTimer(t) ==
    \/ ~Accepts(t) /\ UNCHANGED <<listed, start>>
    \/ /\ Accepts(t)
       /\ MutexFree
       /\ start' = [start EXCEPT ![t] = tick]
       /\ listed' = [listed EXCEPT ![t] = UpTo(@ + 1, MaxListed)]

\* A client picks a timer; AddOneshotTimer marks it before it takes mutex_.
CallAdd(c, t) ==
    /\ arg[c] = NullPtr
    /\ arg' = [arg EXCEPT ![c] = t]
    /\ oneshot' = [oneshot EXCEPT ![t] = @ \/ t \in Oneshots]
    /\ UNCHANGED <<tick, listed, start, cancelled, refcnt, queue, broken, stop,
                   tickVars, workVars, spc, fired>>

Add(c) ==
    /\ arg[c] # NullPtr
    /\ AddTimer(arg[c])
    /\ arg' = [arg EXCEPT ![c] = NullPtr]
    /\ UNCHANGED <<tick, oneshot, cancelled, refcnt, queue, broken, stop,
                   tickVars, workVars, spc, fired>>

\* Mutant: the reference of the caller is not given back.
CancelTimerKeepingCount(t) ==
    /\ TimerFree(t)
    /\ cancelled' = [cancelled EXCEPT ![t] = TRUE]
    /\ UNCHANGED refcnt

CancelTimer(t) ==
    /\ TimerFree(t)
    /\ refcnt' = [refcnt EXCEPT ![t] = IF @ > -MaxCancels THEN @ - 1 ELSE @]
    /\ cancelled' = [cancelled EXCEPT ![t] = TRUE]

Cancel(c, t) ==
    /\ arg[c] = NullPtr
    /\ CancelTimer(t)
    /\ UNCHANGED <<tick, listed, start, oneshot, queue, broken, stop,
                   tickVars, workVars, arg, spc, fired>>

-----------------------------------------------------------------------------
(***************************************************************************)
(* The tick thread: while (!stop_) sleep, add the resolution to tick_      *)
(* under mutex_, and scan under mutex_ again.                              *)
(***************************************************************************)
TickTest ==
    /\ tpc = "test"
    /\ tpc' = IF stop THEN "done" ELSE "sleep"
    /\ UNCHANGED <<tick, listed, timerVars, queue, broken, stop, unvisited, cur,
                   workVars, arg, spc, fired>>

Advance ==
    /\ tpc = "sleep"
    /\ tick' = Plus(tick, Resolution)
    /\ tpc' = "ticked"
    /\ UNCHANGED <<listed, timerVars, queue, broken, stop, unvisited, cur,
                   workVars, arg, spc, fired>>

BeginScan ==
    /\ tpc = "ticked"
    /\ tpc' = "scan"
    /\ unvisited' = listed
    /\ UNCHANGED <<tick, listed, timerVars, queue, broken, stop, cur,
                   workVars, arg, spc, fired>>

\* Mutant: cancelled timers expire too.
DueThoughCancelled(t) == Plus(start[t], Expires[t]) = tick

Due(t) == ~cancelled[t] /\ Plus(start[t], Expires[t]) = tick

\* if (t->cancelled && t->refcnt <= 0), on the values after this visit.
Erasable(t) == cancelled'[t] /\ refcnt'[t] <= 0

\* The end of a visit: erase the node or step over it.
FinishVisit(t) ==
    /\ listed' = [listed EXCEPT ![t] = IF Erasable(t) THEN @ - 1 ELSE @]
    /\ start' = [start EXCEPT ![t] = IF listed'[t] = 0 THEN 0 ELSE @]
    /\ unvisited' = [unvisited EXCEPT ![t] = @ - 1]
    /\ tpc' = "scan"

VisitIdle(t) ==
    /\ tpc = "scan"
    /\ unvisited[t] > 0
    /\ ~Due(t)
    /\ UNCHANGED <<tick, oneshot, cancelled, refcnt, queue, broken, stop, cur, workVars,
                   arg, spc, fired>>
    /\ FinishVisit(t)

\* Mutant: an expired oneshot timer is not cancelled.
VisitDueKeepingOneshot(t) ==
    /\ tpc = "scan"
    /\ unvisited[t] > 0
    /\ Due(t)
    /\ start' = [start EXCEPT ![t] = tick]
    /\ fired' = [o \in Oneshots |-> IF o = t THEN UpTo(fired[o] + 1, 2) ELSE fired[o]]
    /\ cur' = t
    /\ tpc' = "enqueue"
    /\ UNCHANGED <<tick, listed, oneshot, cancelled, refcnt, queue, broken, stop, unvisited,
                   workVars, arg, spc>>

VisitDue(t) ==
    /\ tpc = "scan"
    /\ unvisited[t] > 0
    /\ Due(t)
    /\ cancelled' = [cancelled EXCEPT ![t] = oneshot[t]]
    /\ refcnt' = [refcnt EXCEPT ![t] = IF oneshot[t] THEN @ - 1 ELSE @]
    /\ start' = [start EXCEPT ![t] = tick]
    /\ fired' = [o \in Oneshots |-> IF o = t THEN UpTo(fired[o] + 1, 2) ELSE fired[o]]
    /\ cur' = t
    /\ tpc' = "enqueue"
    /\ UNCHANGED <<tick, listed, oneshot, queue, broken, stop, unvisited,
                   workVars, arg, spc>>

\* Mutant: a timer that is cancelled by now is not enqueued.
EnqueueUnlessCancelled ==
    /\ tpc = "enqueue"
    /\ \/ /\ ~cancelled[cur]
          /\ Len(queue) < QueueSize
          /\ queue' = Append(queue, cur)
       \/ /\ cancelled[cur] \/ broken
          /\ UNCHANGED queue
    /\ cur' = NullPtr
    /\ UNCHANGED <<tick, oneshot, cancelled, refcnt, broken, stop, workVars, arg, spc, fired>>
    /\ FinishVisit(cur)

\* timeout_->WaitEnqueue(t), with both locks held; false if broken.
Enqueue ==
    /\ tpc = "enqueue"
    /\ \/ /\ Len(queue) < QueueSize
          /\ queue' = Append(queue, cur)
       \/ /\ broken
          /\ UNCHANGED queue
    /\ cur' = NullPtr
    /\ UNCHANGED <<tick, oneshot, cancelled, refcnt, broken, stop, workVars, arg, spc, fired>>
    /\ FinishVisit(cur)

EndScan ==
    /\ tpc = "scan"
    /\ \A t \in Timers : unvisited[t] = 0
    /\ tpc' = "test"
    /\ UNCHANGED <<tick, listed, timerVars, queue, broken, stop, unvisited, cur,
                   workVars, arg, spc, fired>>

-----------------------------------------------------------------------------
(***************************************************************************)
(* The pool thread: while (!stop_) WaitDequeue, and the handler of what it *)
(* got.  The handler itself may call AddTimer or CancelTimer.              *)
(***************************************************************************)
WorkTest ==
    /\ wpc = "test"
    /\ wpc' = IF stop THEN "done" ELSE IF broken THEN "test" ELSE "reading"
    /\ UNCHANGED <<tick, listed, timerVars, queue, broken, stop, tickVars, wtimer,
                   arg, spc, fired>>

WorkDequeue ==
    /\ wpc = "reading"
    /\ \/ /\ queue # <<>>
          /\ wtimer' = Head(queue)
          /\ queue' = Tail(queue)
          /\ wpc' = "handler"
       \/ /\ broken
          /\ wpc' = "test"
          /\ UNCHANGED <<wtimer, queue>>
    /\ UNCHANGED <<tick, listed, timerVars, broken, stop, tickVars, arg, spc, fired>>

Handler ==
    /\ wpc = "handler"
    /\ \/ /\ Callback[wtimer] = "none"
          /\ UNCHANGED <<listed, start, refcnt, cancelled>>
       \/ /\ Callback[wtimer] = "add"
          /\ AddTimer(wtimer)
          /\ UNCHANGED <<refcnt, cancelled>>
       \/ /\ Callback[wtimer] = "cancel"
          /\ CancelTimer(wtimer)
          /\ UNCHANGED <<listed, start>>
    /\ wpc' = "test"
    /\ wtimer' = NullPtr
    /\ UNCHANGED <<tick, oneshot, queue, broken, stop, tickVars, arg, spc, fired>>

-----------------------------------------------------------------------------
(***************************************************************************)
(* Stop: the flag, BreakAllWait, and the join of both threads.             *)
(***************************************************************************)
StopFlag ==
    /\ spc = "out"
    /\ stop' = TRUE
    /\ spc' = "flagged"
    /\ UNCHANGED <<tick, listed, timerVars, queue, broken, tickVars, workVars, arg, fired>>

\* Mutant: Stop does not break the queue.
StopBreakForgotten ==
    /\ spc = "flagged"
    /\ spc' = "joining"
    /\ UNCHANGED <<tick, listed, timerVars, queue, broken, stop, tickVars, workVars, arg, fired>>

StopBreak ==
    /\ spc = "flagged"
    /\ broken' = TRUE
    /\ spc' = "joining"
    /\ UNCHANGED <<tick, listed, timerVars, queue, stop, tickVars, workVars, arg, fired>>

StopJoin ==
    /\ spc = "joining"
    /\ tpc = "done" /\ wpc = "done"
    /\ spc' = "returned"
    /\ UNCHANGED <<tick, listed, timerVars, queue, broken, stop, tickVars, workVars, arg, fired>>

-----------------------------------------------------------------------------
TickStep ==
    \/ TickTest \/ Advance \/ BeginScan \/ Enqueue \/ EndScan
    \/ \E t \in Timers : VisitIdle(t) \/ VisitDue(t)

WorkStep == WorkTest \/ WorkDequeue \/ Handler

StopStep == StopBreak \/ StopJoin

Next ==
    \/ \E c \in Clients : Add(c) \/ \E t \in Timers : CallAdd(c, t) \/ Cancel(c, t)
    \/ TickStep
    \/ WorkStep
    \/ StopFlag \/ StopStep

SafeSpec == Init /\ [][Next]_vars

(***************************************************************************)
(* Both threads of the service run whenever they can, and so does a Stop   *)
(* that has begun.  A handler that waits for mutex_ gets it if it is free  *)
(* again and again: the tick thread sleeps five milliseconds between two   *)
(* scans.  Clients owe nothing.                                            *)
(***************************************************************************)
Fairness == WF_vars(TickStep) /\ SF_vars(WorkStep) /\ WF_vars(StopStep)

Spec == SafeSpec /\ Fairness

-----------------------------------------------------------------------------
\* The types; the queue keeps its bound, the counter its width, and a scan only
\* visits timers that are still listed.
TypeOK ==
    /\ tick \in 0 .. Wrap - 1
    /\ listed \in [Timers -> 0 .. MaxListed]
    /\ start \in [Timers -> 0 .. Wrap - 1]
    /\ oneshot \in [Timers -> BOOLEAN]
    /\ cancelled \in [Timers -> BOOLEAN]
    /\ refcnt \in [Timers -> Int]
    /\ queue \in Seq(Timers) /\ Len(queue) <= QueueSize
    /\ broken \in BOOLEAN
    /\ stop \in BOOLEAN
    /\ tpc \in {"test", "sleep", "ticked", "scan", "enqueue", "done"}
    /\ unvisited \in [Timers -> 0 .. MaxListed]
    /\ cur \in Timers \cup {NullPtr}
    /\ tpc = "enqueue" => cur \in Timers /\ unvisited[cur] > 0
    /\ \A t \in Timers : unvisited[t] > 0 => tpc \in {"scan", "enqueue"}
                                           /\ unvisited[t] <= listed[t]
    /\ wpc \in {"test", "reading", "handler", "done"}
    /\ wtimer \in Timers \cup {NullPtr}
    /\ wpc = "handler" => wtimer \in Timers
    /\ arg \in [Clients -> Timers \cup {NullPtr}]
    /\ spc \in {"out", "flagged", "joining", "returned"}
    /\ fired \in [Oneshots -> 0 .. 2]

\* How far the tick is from the timer's expiry.
Remaining(t) == Minus(Plus(start[t], Expires[t]), tick)

Multiples == {Resolution * k : k \in 0 .. Wrap}

(***************************************************************************)
(* No timer is ever overdue.  TimersTick compares for equality, so a timer *)
(* that the scan missed once would not fire until the counter has wrapped  *)
(* round.  The distance to the expiry is always a multiple of the          *)
(* resolution and at most the period, and it is zero only between the tick *)
(* and the scan's visit, whatever clients add meanwhile.                   *)
(***************************************************************************)
NeverOverdue ==
    \A t \in Timers : listed[t] > 0 /\ ~cancelled[t] =>
        /\ Remaining(t) \in Multiples
        /\ Remaining(t) <= Expires[t]
        /\ Remaining(t) = 0 => tpc = "ticked" \/ unvisited[t] > 0

(***************************************************************************)
(* A timer added with AddOneshotTimer expires at most once, even if it is  *)
(* added again.                                                            *)
(***************************************************************************)
OneshotOnce == \A t \in Oneshots : fired[t] <= 1

(***************************************************************************)
(* After CancelTimer has returned, the timer never expires again: a        *)
(* handler that runs later was queued before.                              *)
(***************************************************************************)
NoFireAfterCancel ==
    [][\A t \in Timers : cancelled[t] =>
          /\ cancelled'[t]
          /\ TimerFree(t) => TimerFree(t)'
          /\ TimerFree(t) /\ t \in {queue'[i] : i \in DOMAIN queue'}
               => t \in {queue[i] : i \in DOMAIN queue}]_vars

Expiring(t) == tpc = "enqueue" /\ cur = t
Handling(t) == wpc = "handler" /\ wtimer = t

\* CancelTimer came before the timer's expiry (a oneshot's expiry cancels it too).
CancelledFirst(t) == cancelled[t] /\ (t \in Oneshots => fired[t] = 0)

(***************************************************************************)
(* The queue is full, so the tick thread waits for the pool thread with    *)
(* both locks held, and the pool thread's handler waits for one of them.   *)
(***************************************************************************)
HeldUp ==
    /\ tpc = "enqueue" /\ Len(queue) = QueueSize /\ ~broken
    /\ wpc = "handler"
    /\ \/ Callback[wtimer] = "add" /\ Accepts(wtimer)
       \/ Callback[wtimer] = "cancel" /\ cur = wtimer

(***************************************************************************)
(* A cancelled timer leaves the list, whoever cancelled it: CancelTimer or *)
(* its own expiry gave back the reference that keeps it there.  Only Stop, *)
(* or a handler that holds up the tick thread, prevents it.                *)
(***************************************************************************)
CancelledErased ==
    \A t \in {u \in Timers : Accepts(u)} :
        []<>(~cancelled[t] \/ listed[t] = 0 \/ stop \/ HeldUp)

(***************************************************************************)
(* AddTimer's promise, "when timer is timeout, call `hanlder`".  A timer   *)
(* in the list expires, unless CancelTimer is called first or it is added  *)
(* anew, which sets its start again; and a timer that expired gets its     *)
(* handler called, also a oneshot, which is marked cancelled by then.      *)
(* Only Stop, or a handler that holds up the tick thread, prevents it.     *)
(***************************************************************************)
HandlerCalled ==
    \A t \in {u \in Timers : Accepts(u)} :
        /\ listed[t] > 0 /\ ~cancelled[t] ~>
              Expiring(t) \/ CancelledFirst(t) \/ (\E c \in Clients : arg[c] = t) \/ stop \/ HeldUp
        /\ Expiring(t) ~> Handling(t) \/ stop \/ HeldUp

(***************************************************************************)
(* Stop returns: it frees the tick thread from a full queue and the pool   *)
(* thread from an empty one, and both leave their loops, also when a       *)
(* handler that adds or cancels a timer held them up.                      *)
(***************************************************************************)
StopTerminates == []<>(spc \in {"out", "returned"})
=============================================================================
