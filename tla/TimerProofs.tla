----------------------------- MODULE TimerProofs -----------------------------
(***************************************************************************)
(* Proofs about TimerManager, for any timers, clients, queue size and      *)
(* counter width.                                                          *)
(***************************************************************************)
EXTENDS TimerManager, TLAPS

(***************************************************************************)
(* The unsigned arithmetic of the tick counter: a timer started now is its *)
(* whole period away from expiry, and a tick brings one that is not due    *)
(* nearer by the resolution, across the wrap as well.                      *)
(***************************************************************************)
LEMMA PlusType == \A a, b \in 0 .. Wrap - 1 : Plus(a, b) \in 0 .. Wrap - 1
BY TimerAssumption DEF Plus

\* A timer started at a has its whole period b to go.
LEMMA FullPeriod == \A a, b \in 0 .. Wrap - 1 : Minus(Plus(a, b), a) = b
BY TimerAssumption DEF Plus, Minus

\* The equality that TimersTick tests means that nothing is left.
LEMMA DueIsZero == \A a, b \in 0 .. Wrap - 1 : /\ Minus(a, b) \in 0 .. Wrap - 1
                                               /\ a = b <=> Minus(a, b) = 0
BY TimerAssumption DEF Minus

\* A tick brings a timer that is not due nearer by the resolution.
LEMMA TickNearer ==
  \A a, b \in 0 .. Wrap - 1 : Minus(a, b) >= Resolution =>
      Minus(a, Plus(b, Resolution)) = Minus(a, b) - Resolution
BY TimerAssumption DEF Plus, Minus, Resolution

\* A positive multiple of the resolution is still one after a tick.
LEMMA MultiplesStep ==
  /\ \A m \in Multiples : m \in Nat
  /\ \A m \in Multiples : m # 0 => m >= Resolution /\ m - Resolution \in Multiples
<1> SUFFICES ASSUME NEW m \in Multiples
             PROVE  /\ m \in Nat
                    /\ m # 0 => m >= Resolution /\ m - Resolution \in Multiples
  OBVIOUS
<1>1. PICK k \in 0 .. Wrap : m = 5 * k
  BY DEF Multiples, Resolution
<1>2. CASE k = 0
  BY <1>1, <1>2
<1>3. CASE k # 0
  <2>1. k - 1 \in 0 .. Wrap /\ m - 5 = 5 * (k - 1) /\ m \in Nat /\ m >= 5
    BY <1>1, <1>3, TimerAssumption
  <2> QED
    BY <2>1 DEF Multiples, Resolution
<1> QED
  BY <1>2, <1>3

\* AddTimer accepts multiples of the resolution only.
LEMMA AcceptedMultiple ==
  \A t \in Timers : Accepts(t) => Expires[t] \in Multiples
<1> SUFFICES ASSUME NEW t \in Timers, Accepts(t) PROVE Expires[t] \in Multiples
  OBVIOUS
<1>1. Expires[t] \in 0 .. Wrap - 1 /\ Expires[t] % 5 = 0 /\ Wrap \in Nat
  BY TimerAssumption DEF Accepts, Resolution
<1>2. Expires[t] = 5 * (Expires[t] \div 5) /\ Expires[t] \div 5 \in 0 .. Wrap
  BY <1>1
<1> QED
  BY <1>2 DEF Multiples, Resolution

-----------------------------------------------------------------------------
(***************************************************************************)
(* NeverOverdue is not inductive alone: that a timer which expires is a    *)
(* multiple of the resolution away from its next expiry rests on AddTimer  *)
(* having refused every other period, and that it is not due again when    *)
(* the scan leaves it rests on its start having been set under mutex_.     *)
(***************************************************************************)
OnlyAccepted == \A t \in Timers : listed[t] > 0 => Accepts(t)

Restarted == tpc = "enqueue" => start[cur] = tick

OnTime(t) ==
    /\ Remaining(t) \in Multiples
    /\ Remaining(t) <= Expires[t]
    /\ Remaining(t) = 0 => tpc = "ticked" \/ unvisited[t] > 0

TimerInv == OnlyAccepted /\ Restarted /\ NeverOverdue

(***************************************************************************)
(* The end of a visit changes the list, the scan and a dead start only.    *)
(***************************************************************************)
LEMMA FinishVisitFacts ==
  ASSUME TypeOK, NEW t \in Timers, FinishVisit(t), unvisited[t] > 0
  PROVE  /\ listed' \in [Timers -> 0 .. MaxListed]
         /\ unvisited' \in [Timers -> 0 .. MaxListed]
         /\ \A x \in Timers : listed'[x] <= listed[x] /\ unvisited'[x] <= listed'[x]
         /\ \A x \in Timers : unvisited'[x] > 0 => unvisited[x] > 0
         /\ \A x \in Timers : x # t => unvisited'[x] = unvisited[x]
         /\ tpc' = "scan"
<1>1. /\ listed \in [Timers -> 0 .. MaxListed] /\ unvisited \in [Timers -> 0 .. MaxListed]
      /\ \A x \in Timers : unvisited[x] > 0 => unvisited[x] <= listed[x]
      /\ MaxListed \in Nat
  BY TimerAssumption, Zenon DEF TypeOK
<1>2. /\ \/ listed' = [listed EXCEPT ![t] = listed[t] - 1]
         \/ listed' = listed
      /\ unvisited' = [unvisited EXCEPT ![t] = unvisited[t] - 1]
      /\ tpc' = "scan"
  BY <1>1, Zenon DEF FinishVisit
<1> QED
  BY ONLY <1>1, <1>2, unvisited[t] > 0, t \in Timers

\* It keeps the type of the starts.
LEMMA FinishVisitStart ==
  ASSUME TypeOK, NEW t \in Timers, FinishVisit(t)
  PROVE  start' \in [Timers -> 0 .. Wrap - 1]
<1>1. start \in [Timers -> 0 .. Wrap - 1] /\ 0 \in 0 .. Wrap - 1
  BY TimerAssumption DEF TypeOK
<1>2. start' = [start EXCEPT ![t] = 0] \/ start' = [start EXCEPT ![t] = start[t]]
  BY ONLY FinishVisit(t), Zenon DEF FinishVisit
<1> QED
  BY ONLY <1>1, <1>2, t \in Timers

\* The type invariant is preserved by every step of every thread.
LEMMA TimerTypeInductive == TypeOK /\ [Next]_vars => TypeOK'
<1> SUFFICES ASSUME TypeOK, [Next]_vars PROVE TypeOK'
  OBVIOUS
<1> USE TimerAssumption
<1>1. ASSUME NEW c \in Clients, NEW t \in Timers, CallAdd(c, t) PROVE TypeOK'
  <2>1. oneshot' \in [Timers -> BOOLEAN]
    BY <1>1, Zenon DEF CallAdd, TypeOK
  <2>2. arg' \in [Clients -> Timers \cup {NullPtr}]
    BY <1>1 DEF CallAdd, TypeOK
  <2> QED
    <3>1. UNCHANGED <<tick, listed, start, cancelled, refcnt, queue, broken, stop,
                      tpc, unvisited, cur, wpc, wtimer, spc, fired>>
      BY <1>1 DEF CallAdd, tickVars, workVars
    <3> QED
      BY <2>1, <2>2, <3>1, SMTT(30) DEF TypeOK
<1>2. ASSUME NEW t \in Timers, AddTimer(t), tpc' = tpc, unvisited' = unvisited
      PROVE  /\ listed' \in [Timers -> 0 .. MaxListed]
             /\ start' \in [Timers -> 0 .. Wrap - 1]
             /\ \A x \in Timers : unvisited'[x] > 0 => unvisited'[x] <= listed'[x]
  <2>1. /\ listed \in [Timers -> 0 .. MaxListed] /\ unvisited \in [Timers -> 0 .. MaxListed]
        /\ \A x \in Timers : unvisited[x] > 0 => unvisited[x] <= listed[x]
        /\ start \in [Timers -> 0 .. Wrap - 1] /\ tick \in 0 .. Wrap - 1
        /\ MaxListed \in Nat
    BY Zenon DEF TypeOK
  <2>2. CASE UNCHANGED <<listed, start>>
    BY <1>2, <2>1, <2>2
  <2>3. CASE /\ listed' = [listed EXCEPT ![t] = UpTo(listed[t] + 1, MaxListed)]
             /\ start' = [start EXCEPT ![t] = tick]
    BY ONLY <1>2, <2>1, <2>3, t \in Timers DEF UpTo
  <2> QED
    BY <1>2, <2>1, <2>2, <2>3 DEF AddTimer
<1>3. ASSUME NEW c \in Clients, Add(c) PROVE TypeOK'
  <2>1. arg[c] \in Timers
    BY <1>3 DEF Add, TypeOK
  <2> QED
    <3>1. /\ listed' \in [Timers -> 0 .. MaxListed]
          /\ start' \in [Timers -> 0 .. Wrap - 1]
          /\ \A x \in Timers : unvisited'[x] > 0 => unvisited'[x] <= listed'[x]
      BY <1>2, <1>3, <2>1 DEF Add, tickVars
    <3>2. arg' \in [Clients -> Timers \cup {NullPtr}]
      BY <1>3 DEF Add, TypeOK
    <3> QED
      <4>1. UNCHANGED <<tick, oneshot, cancelled, refcnt, queue, broken, stop,
                        tpc, unvisited, cur, wpc, wtimer, spc, fired>>
        BY <1>3 DEF Add, tickVars, workVars
      <4> QED
        BY <3>1, <3>2, <4>1, SMTT(30) DEF TypeOK
<1>cancel. ASSUME NEW t \in Timers, CancelTimer(t)
      PROVE  refcnt' \in [Timers -> Int] /\ cancelled' \in [Timers -> BOOLEAN]
  <2>1. refcnt' \in [Timers -> Int]
    BY <1>cancel DEF CancelTimer, TypeOK
  <2>2. cancelled' \in [Timers -> BOOLEAN]
    BY <1>cancel, Zenon DEF CancelTimer, TypeOK
  <2> QED
    BY <2>1, <2>2
<1>4. ASSUME NEW c \in Clients, NEW t \in Timers, Cancel(c, t) PROVE TypeOK'
  <2>1. refcnt' \in [Timers -> Int] /\ cancelled' \in [Timers -> BOOLEAN]
    BY <1>4, <1>cancel DEF Cancel
  <2> QED
    <3>1. UNCHANGED <<tick, listed, start, oneshot, queue, broken, stop,
                      tpc, unvisited, cur, wpc, wtimer, arg, spc, fired>>
      BY <1>4 DEF Cancel, tickVars, workVars
    <3> QED
      BY <2>1, <3>1, SMTT(60) DEF TypeOK
<1>5a. CASE TickTest
  <2>1. tpc = "test" /\ tpc' \in {"sleep", "done"}
    BY <1>5a, Zenon DEF TickTest
  <2>2. UNCHANGED <<tick, listed, start, oneshot, cancelled, refcnt, queue, broken, stop,
                    unvisited, cur, wpc, wtimer, arg, spc, fired>>
    BY <1>5a DEF TickTest, timerVars, workVars
  <2> QED
    BY <2>1, <2>2, ZenonT(40) DEF TypeOK
<1>5b. CASE BeginScan
  <2>1. tpc = "ticked" /\ tpc' = "scan" /\ unvisited' = listed
    BY <1>5b DEF BeginScan
  <2>2. UNCHANGED <<tick, listed, start, oneshot, cancelled, refcnt, queue, broken, stop,
                    cur, wpc, wtimer, arg, spc, fired>>
    BY <1>5b DEF BeginScan, timerVars, workVars
  <2>3. listed \in [Timers -> 0 .. MaxListed]
    BY DEF TypeOK
  <2>4. \A x \in Timers : unvisited'[x] <= listed'[x]
    BY <2>1, <2>2, <2>3
  <2> QED
    BY <2>1, <2>2, <2>3, <2>4, SMTT(30) DEF TypeOK
<1>5c. CASE EndScan
  BY <1>5c, SMTT(30) DEF EndScan, TypeOK, timerVars, workVars
<1>6. CASE Advance
  <2>1. tick' \in 0 .. Wrap - 1
    BY <1>6, PlusType DEF Advance, TypeOK, Resolution
  <2> QED
    BY <1>6, <2>1, ZenonT(40) DEF Advance, TypeOK, timerVars, workVars
<1>7. ASSUME NEW t \in Timers, VisitIdle(t) PROVE TypeOK'
  <2>1. start' \in [Timers -> 0 .. Wrap - 1]
    BY <1>7, FinishVisitStart DEF VisitIdle
  <2>2. unvisited[t] > 0 /\ FinishVisit(t)
    BY <1>7 DEF VisitIdle
  <2> QED
    BY <1>7, <2>1, <2>2, FinishVisitFacts, ZenonT(40) DEF VisitIdle, TypeOK, workVars
<1>8. ASSUME NEW t \in Timers, VisitDue(t) PROVE TypeOK'
  <2>1. cancelled' \in [Timers -> BOOLEAN]
    BY <1>8, Zenon DEF VisitDue, TypeOK
  <2>2. refcnt' \in [Timers -> Int] /\ start' \in [Timers -> 0 .. Wrap - 1]
    BY <1>8 DEF VisitDue, TypeOK
  <2>3. fired' \in [Oneshots -> 0 .. 2]
    <3>1. fired \in [Oneshots -> 0 .. 2]
      BY DEF TypeOK
    <3>2. fired' = [o \in Oneshots |-> IF o = t THEN UpTo(fired[o] + 1, 2) ELSE fired[o]]
      BY <1>8 DEF VisitDue
    <3> QED
      BY ONLY <3>1, <3>2 DEF UpTo
  <2> QED
    BY <1>8, <2>1, <2>2, <2>3, Zenon DEF VisitDue, TypeOK, workVars
<1>9. CASE Enqueue
  <2>1. cur \in Timers /\ unvisited[cur] > 0 /\ FinishVisit(cur)
    BY <1>9 DEF Enqueue, TypeOK
  <2>2. start' \in [Timers -> 0 .. Wrap - 1]
    BY <2>1, FinishVisitStart
  <2>3. queue' \in Seq(Timers) /\ Len(queue') <= QueueSize
    <3>1. Append(queue, cur) \in Seq(Timers) /\ Len(Append(queue, cur)) = Len(queue) + 1
          /\ Len(queue) \in Nat
      BY <2>1 DEF TypeOK
    <3>2. \/ queue' = Append(queue, cur) /\ Len(queue) < QueueSize
          \/ queue' = queue
      BY <1>9 DEF Enqueue
    <3>3. queue \in Seq(Timers) /\ Len(queue) <= QueueSize
      BY DEF TypeOK
    <3> QED
      BY ONLY <3>1, <3>2, <3>3, QueueSize \in Nat
  <2> QED
    BY <1>9, <2>1, <2>2, <2>3, FinishVisitFacts, ZenonT(40) DEF Enqueue, TypeOK, workVars
<1>10. CASE WorkTest
  BY <1>10, ZenonT(40) DEF WorkTest, TypeOK, timerVars, tickVars
<1>11. CASE WorkDequeue
  <2>1. CASE queue = <<>>
    BY <1>11, <2>1, Zenon DEF WorkDequeue, TypeOK, timerVars, tickVars
  <2>2. CASE queue # <<>>
    <3>0. queue \in Seq(Timers)
      BY DEF TypeOK
    <3>1. /\ Head(queue) \in Timers /\ Tail(queue) \in Seq(Timers)
          /\ Len(Tail(queue)) = Len(queue) - 1 /\ Len(queue) \in Nat
      BY ONLY <2>2, <3>0
    <3>2. Len(queue) <= QueueSize
      BY DEF TypeOK
    <3>3. Len(Tail(queue)) <= QueueSize
      BY ONLY <3>1, <3>2, QueueSize \in Nat
    <3> QED
      BY <1>11, <3>1, <3>3, ZenonT(40) DEF WorkDequeue, TypeOK, timerVars, tickVars
  <2> QED
    BY <2>1, <2>2
<1>12. CASE Handler
  <2>1. wtimer \in Timers
    BY <1>12 DEF Handler, TypeOK
  <2>2. /\ listed' \in [Timers -> 0 .. MaxListed]
        /\ start' \in [Timers -> 0 .. Wrap - 1]
        /\ \A x \in Timers : unvisited'[x] > 0 => unvisited'[x] <= listed'[x]
        /\ refcnt' \in [Timers -> Int] /\ cancelled' \in [Timers -> BOOLEAN]
    <3>1. CASE Callback[wtimer] = "none"
      BY <1>12, <3>1, Zenon DEF Handler, TypeOK, tickVars
    <3>2. CASE Callback[wtimer] = "add"
      BY <1>2, <1>12, <2>1, <3>2, Zenon DEF Handler, TypeOK, tickVars
    <3>3. CASE Callback[wtimer] = "cancel"
      BY <1>cancel, <1>12, <2>1, <3>3, Zenon DEF Handler, TypeOK, tickVars
    <3> QED
      BY <2>1, <3>1, <3>2, <3>3
  <2> QED
    BY <1>12, <2>2, ZenonT(40) DEF Handler, TypeOK, tickVars
<1>13a. CASE StopFlag
  <2>1. UNCHANGED <<tick, listed, start, oneshot, cancelled, refcnt, queue, broken,
                    tpc, unvisited, cur, wpc, wtimer, arg, fired>>
    BY <1>13a DEF StopFlag, timerVars, tickVars, workVars
  <2>2. stop' \in BOOLEAN /\ spc' = "flagged"
    BY <1>13a DEF StopFlag
  <2> QED
    BY <2>1, <2>2, ZenonT(40) DEF TypeOK
<1>13b. CASE StopBreak
  BY <1>13b, ZenonT(40) DEF StopBreak, TypeOK, timerVars, tickVars, workVars
<1>13c. CASE StopJoin
  BY <1>13c, Zenon DEF StopJoin, TypeOK, timerVars, tickVars, workVars
<1>14. CASE UNCHANGED vars
  BY <1>14, SMTT(60) DEF vars, TypeOK, timerVars, tickVars, workVars
<1> QED
  BY <1>1, <1>3, <1>4, <1>5a, <1>5b, <1>5c, <1>6, <1>7, <1>8, <1>9, <1>10, <1>11,
     <1>12, <1>13a, <1>13b, <1>13c, <1>14
     DEF Next, TickStep, WorkStep, StopStep

-----------------------------------------------------------------------------
(***************************************************************************)
(* A timer whose start is the present tick is a whole period from expiry.  *)
(***************************************************************************)
LEMMA FreshOnTime ==
  ASSUME TypeOK, NEW t \in Timers, Accepts(t), start[t] = tick
  PROVE  Remaining(t) = Expires[t] /\ Expires[t] \in Multiples /\ Expires[t] > 0
<1>1. tick \in 0 .. Wrap - 1 /\ Expires[t] \in 0 .. Wrap - 1
  BY TimerAssumption DEF TypeOK
<1> QED
  BY <1>1, FullPeriod, AcceptedMultiple DEF Remaining, Accepts

\* The same in the next state.
LEMMA FreshOnTimeNext ==
  ASSUME TypeOK, TypeOK', NEW t \in Timers, Accepts(t), start'[t] = tick'
  PROVE  Remaining(t)' = Expires[t] /\ Expires[t] \in Multiples /\ Expires[t] > 0
<1>1. tick' \in 0 .. Wrap - 1 /\ Expires[t] \in 0 .. Wrap - 1
  BY TimerAssumption DEF TypeOK
<1> QED
  BY <1>1, FullPeriod, AcceptedMultiple DEF Remaining, Accepts

(***************************************************************************)
(* Steps that leave the tick, the list and the scan alone.                 *)
(***************************************************************************)
LEMMA TimerFrame ==
  ASSUME TypeOK, TimerInv, UNCHANGED <<tick, listed, start, tpc, unvisited, cur>>,
         \A t \in Timers : cancelled[t] => cancelled'[t]
  PROVE  TimerInv'
BY DEF TimerInv, OnlyAccepted, Restarted, NeverOverdue, Remaining, Accepts

\* AddTimer leaves every timer on time: it sets the start under mutex_.
LEMMA AddOnTime ==
  ASSUME TypeOK, TypeOK', TimerInv, NEW t \in Timers, AddTimer(t),
         UNCHANGED <<tick, tpc, unvisited, cur, cancelled>>
  PROVE  TimerInv'
<1>1. CASE ~Accepts(t)
  BY <1>1, TimerFrame DEF AddTimer
<1>2. CASE Accepts(t)
  <2>1. /\ MutexFree
        /\ start' = [start EXCEPT ![t] = tick]
        /\ listed' = [listed EXCEPT ![t] = UpTo(listed[t] + 1, MaxListed)]
    BY <1>2 DEF AddTimer
  <2>2. \A x \in Timers : x # t => start'[x] = start[x] /\ listed'[x] = listed[x]
    BY <2>1 DEF TypeOK
  <2>3. start'[t] = tick'
    BY <2>1 DEF TypeOK
  <2>4. OnlyAccepted'
    BY <1>2, <2>2 DEF TimerInv, OnlyAccepted, Accepts
  <2>5. Restarted'
    BY <2>1 DEF Restarted, MutexFree
  <2>6. Remaining(t)' = Expires[t] /\ Expires[t] \in Multiples /\ Expires[t] > 0
    BY <1>2, <2>3, FreshOnTimeNext
  <2>7. OnTime(t)'
    BY <2>6, MultiplesStep DEF OnTime
  <2>8. \A x \in Timers : x # t => Remaining(x)' = Remaining(x)
    BY <2>2 DEF Remaining
  <2>9. NeverOverdue'
    BY <2>2, <2>7, <2>8 DEF TimerInv, NeverOverdue, OnTime
  <2> QED
    BY <2>4, <2>5, <2>9 DEF TimerInv
<1> QED
  BY <1>1, <1>2

(***************************************************************************)
(* The visit of t ends: t is not due any more, the others are untouched.   *)
(***************************************************************************)
LEMMA FinishOnTime ==
  ASSUME TypeOK, TimerInv, NEW t \in Timers, unvisited[t] > 0, FinishVisit(t),
         UNCHANGED <<tick, cancelled>>, tpc \in {"scan", "enqueue"},
         ~cancelled[t] => Remaining(t) # 0
  PROVE  TimerInv'
<1>1. /\ \A x \in Timers : listed'[x] <= listed[x] /\ listed[x] \in Nat /\ listed'[x] \in Nat
      /\ \A x \in Timers : x # t => unvisited'[x] = unvisited[x]
      /\ tpc' = "scan"
  BY FinishVisitFacts, TimerAssumption, SMTT(30) DEF TypeOK
<1>2. \A x \in Timers : listed'[x] > 0 => start'[x] = start[x] /\ listed[x] > 0
  BY <1>1 DEF FinishVisit, TypeOK
<1>3. OnlyAccepted' /\ Restarted'
  BY <1>1, <1>2 DEF TimerInv, OnlyAccepted, Restarted, Accepts
<1>4. \A x \in Timers : listed'[x] > 0 => Remaining(x)' = Remaining(x)
  BY <1>2 DEF Remaining
<1>5. ASSUME NEW x \in Timers, listed'[x] > 0, ~cancelled'[x] PROVE OnTime(x)'
  <2>1. OnTime(x)
    BY <1>2, <1>5 DEF TimerInv, NeverOverdue, OnTime
  <2>2. CASE x = t
    BY <1>4, <1>5, <2>1, <2>2 DEF OnTime
  <2>3. CASE x # t
    BY <1>1, <1>4, <1>5, <2>1, <2>3 DEF OnTime
  <2> QED
    BY <2>2, <2>3
<1> QED
  BY <1>3, <1>5 DEF TimerInv, NeverOverdue, OnTime

\* Every step of the tick thread, the pool thread, a client and Stop preserves the invariant.
LEMMA TimerInductive == TypeOK /\ TypeOK' /\ TimerInv /\ [Next]_vars => TimerInv'
<1> SUFFICES ASSUME TypeOK, TypeOK', TimerInv, [Next]_vars PROVE TimerInv'
  OBVIOUS
<1> USE TimerAssumption
<1>1. ASSUME NEW c \in Clients, NEW t \in Timers, CallAdd(c, t) PROVE TimerInv'
  BY <1>1, TimerFrame DEF CallAdd, tickVars
<1>2. ASSUME NEW c \in Clients, Add(c) PROVE TimerInv'
  <2>1. arg[c] \in Timers
    BY <1>2 DEF Add, TypeOK
  <2> QED
    BY <1>2, <2>1, AddOnTime DEF Add, tickVars
<1>3. ASSUME NEW t \in Timers, CancelTimer(t) PROVE \A x \in Timers : cancelled[x] => cancelled'[x]
  <2>1. cancelled' = [cancelled EXCEPT ![t] = TRUE] /\ cancelled \in [Timers -> BOOLEAN]
    BY <1>3 DEF CancelTimer, TypeOK
  <2>2. \A x \in Timers : cancelled'[x] = IF x = t THEN TRUE ELSE cancelled[x]
    BY <2>1, Zenon
  <2> QED
    BY <2>2, Zenon
<1>4. ASSUME NEW c \in Clients, NEW t \in Timers, Cancel(c, t) PROVE TimerInv'
  BY <1>3, <1>4, TimerFrame, Zenon DEF Cancel, tickVars
<1>5. CASE TickTest
  <2>1. tpc = "test" /\ tpc' \in {"sleep", "done"} /\ UNCHANGED <<tick, listed, start, unvisited, cancelled>>
    BY <1>5, Zenon DEF TickTest, timerVars
  <2> QED
    BY <2>1 DEF TimerInv, OnlyAccepted, Restarted, NeverOverdue, Remaining, Accepts
<1>6. CASE Advance
  <2>1. /\ tpc = "sleep" /\ tpc' = "ticked" /\ tick' = Plus(tick, Resolution)
        /\ UNCHANGED <<listed, start, cancelled, unvisited>>
    BY <1>6 DEF Advance, timerVars
  <2>2. ASSUME NEW t \in Timers, listed[t] > 0, ~cancelled[t]
        PROVE  /\ Remaining(t)' = Remaining(t) - Resolution
               /\ Remaining(t)' \in Multiples
               /\ Remaining(t)' <= Expires[t]
    <3>1. /\ Remaining(t) \in Multiples /\ Remaining(t) <= Expires[t]
          /\ Remaining(t) # 0
      BY <2>1, <2>2 DEF TimerInv, NeverOverdue, TypeOK
    <3>2. /\ Remaining(t) \in Nat /\ Remaining(t) >= Resolution
          /\ Remaining(t) - Resolution \in Multiples
      BY <3>1, MultiplesStep
    <3>3. /\ start[t] \in 0 .. Wrap - 1 /\ Expires[t] \in 0 .. Wrap - 1
          /\ tick \in 0 .. Wrap - 1
      BY DEF TypeOK
    <3>4. Plus(start[t], Expires[t]) \in 0 .. Wrap - 1
      BY <3>3, PlusType
    <3>5. Remaining(t)' = Remaining(t) - Resolution
      BY <2>1, <3>2, <3>3, <3>4, TickNearer DEF Remaining
    <3> QED
      BY <3>1, <3>2, <3>3, <3>5 DEF Resolution
  <2> QED
    BY <2>1, <2>2 DEF TimerInv, OnlyAccepted, Restarted, NeverOverdue, Accepts
<1>7. CASE BeginScan
  <2>1. /\ tpc' = "scan" /\ unvisited' = listed
        /\ UNCHANGED <<tick, listed, start, cancelled>>
    BY <1>7 DEF BeginScan, timerVars
  <2> QED
    BY <2>1 DEF TimerInv, OnlyAccepted, Restarted, NeverOverdue, Remaining, Accepts
<1>8. ASSUME NEW t \in Timers, VisitIdle(t) PROVE TimerInv'
  <2>1. /\ tpc = "scan" /\ unvisited[t] > 0 /\ FinishVisit(t)
        /\ UNCHANGED <<tick, cancelled>>
        /\ ~cancelled[t] => Plus(start[t], Expires[t]) # tick
    BY <1>8 DEF VisitIdle, Due
  <2>2. /\ start[t] \in 0 .. Wrap - 1 /\ Expires[t] \in 0 .. Wrap - 1
        /\ tick \in 0 .. Wrap - 1
    BY DEF TypeOK
  <2>3. ~cancelled[t] => Remaining(t) # 0
    BY <2>1, <2>2, PlusType, DueIsZero, Zenon DEF Remaining
  <2> QED
    BY <2>1, <2>3, FinishOnTime
<1>9. ASSUME NEW t \in Timers, VisitDue(t) PROVE TimerInv'
  <2>1. /\ tpc = "scan" /\ unvisited[t] > 0 /\ ~cancelled[t] /\ tpc' = "enqueue" /\ cur' = t
        /\ start' = [start EXCEPT ![t] = tick]
        /\ UNCHANGED <<tick, listed, unvisited>>
    BY <1>9 DEF VisitDue, Due
  <2>2. /\ start'[t] = tick' /\ \A x \in Timers : x # t => start'[x] = start[x]
    BY <2>1 DEF TypeOK
  <2>3. \A x \in Timers : x # t => cancelled'[x] = cancelled[x]
    BY <1>9, ZenonT(40) DEF VisitDue, TypeOK
  <2>4. Accepts(t)
    BY <2>1 DEF TypeOK, TimerInv, OnlyAccepted
  <2>5. Remaining(t)' = Expires[t] /\ Expires[t] \in Multiples /\ Expires[t] > 0
    BY <2>2, <2>4, FreshOnTimeNext
  <2>6. OnTime(t)'
    BY <2>5, MultiplesStep DEF OnTime
  <2>7. \A x \in Timers : x # t => Remaining(x)' = Remaining(x)
    BY <2>1, <2>2 DEF Remaining
  <2>8. NeverOverdue'
    BY <2>1, <2>3, <2>6, <2>7 DEF TimerInv, NeverOverdue, OnTime
  <2>9. OnlyAccepted' /\ Restarted'
    BY <2>1, <2>2 DEF TimerInv, OnlyAccepted, Restarted, Accepts
  <2> QED
    BY <2>8, <2>9 DEF TimerInv
<1>10. CASE Enqueue
  <2>1. /\ tpc = "enqueue" /\ cur \in Timers /\ unvisited[cur] > 0 /\ FinishVisit(cur)
        /\ listed[cur] > 0 /\ UNCHANGED <<tick, cancelled>>
    BY <1>10, SMTT(30) DEF Enqueue, TypeOK
  <2>2. Accepts(cur) /\ start[cur] = tick
    BY <2>1 DEF TimerInv, OnlyAccepted, Restarted
  <2>3. Remaining(cur) = Expires[cur] /\ Expires[cur] > 0 /\ Expires[cur] \in Multiples
    BY <2>1, <2>2, FreshOnTime
  <2>4. Remaining(cur) # 0
    BY <2>3, MultiplesStep
  <2> QED
    BY <2>1, <2>4, FinishOnTime
<1>11. CASE EndScan
  <2>1. /\ tpc = "scan" /\ tpc' = "test" /\ \A t \in Timers : unvisited[t] = 0
        /\ UNCHANGED <<tick, listed, start, unvisited, cancelled>>
    BY <1>11 DEF EndScan, timerVars
  <2> QED
    BY <2>1 DEF TimerInv, OnlyAccepted, Restarted, NeverOverdue, Remaining, Accepts
<1>12. CASE WorkTest \/ WorkDequeue
  BY <1>12, TimerFrame DEF WorkTest, WorkDequeue, tickVars, timerVars
<1>13. CASE Handler
  <2>1. wtimer \in Timers /\ UNCHANGED <<tick, tpc, unvisited, cur>>
    BY <1>13 DEF Handler, TypeOK, tickVars
  <2>2. CASE Callback[wtimer] = "none"
    BY <1>13, <2>1, <2>2, TimerFrame DEF Handler
  <2>3. CASE Callback[wtimer] = "add"
    BY <1>13, <2>1, <2>3, AddOnTime DEF Handler
  <2>4. CASE Callback[wtimer] = "cancel"
    BY <1>3, <1>13, <2>1, <2>4, TimerFrame DEF Handler
  <2> QED
    BY <2>1, <2>2, <2>3, <2>4
<1>14. CASE StopFlag \/ StopBreak \/ StopJoin
  BY <1>14, TimerFrame DEF StopFlag, StopBreak, StopJoin, tickVars, timerVars
<1>15. CASE UNCHANGED vars
  BY <1>15, TimerFrame DEF vars, tickVars, timerVars
<1> QED
  BY <1>1, <1>2, <1>4, <1>5, <1>6, <1>7, <1>8, <1>9, <1>10, <1>11, <1>12, <1>13, <1>14, <1>15
     DEF Next, TickStep, WorkStep, StopStep

(***************************************************************************)
(* The type invariant of the timer service.                                *)
(***************************************************************************)
THEOREM TimerTypeCorrect == SafeSpec => []TypeOK
<1>1. Init => TypeOK
  <2> SUFFICES ASSUME Init PROVE TypeOK
    OBVIOUS
  <2>1. queue \in Seq(Timers) /\ Len(queue) <= QueueSize
    BY TimerAssumption DEF Init
  <2>2. oneshot \in [Timers -> BOOLEAN] /\ cancelled \in [Timers -> BOOLEAN]
    BY Zenon DEF Init
  <2>3. arg \in [Clients -> Timers \cup {NullPtr}]
    BY DEF Init
  <2>4. refcnt \in [Timers -> Int] /\ fired \in [Oneshots -> 0 .. 2]
    BY DEF Init
  <2>5. /\ tick \in 0 .. Wrap - 1 /\ start \in [Timers -> 0 .. Wrap - 1]
        /\ listed \in [Timers -> 0 .. MaxListed] /\ unvisited \in [Timers -> 0 .. MaxListed]
    BY TimerAssumption DEF Init, Resolution
  <2>6. /\ tpc = "test" /\ wpc = "test" /\ spc = "out" /\ cur = NullPtr /\ wtimer = NullPtr
        /\ broken = FALSE /\ stop = FALSE /\ \A t \in Timers : ~(unvisited[t] > 0)
    BY DEF Init
  <2> QED
    BY <2>1, <2>2, <2>3, <2>4, <2>5, <2>6, Zenon DEF TypeOK
<1> QED
  BY <1>1, TimerTypeInductive, PTL DEF SafeSpec

(***************************************************************************)
(* No timer is ever overdue, for every set of timers, every period and     *)
(* every counter width: TimersTick's comparison for equality never misses  *)
(* an expiry, also when the counter wraps.                                 *)
(***************************************************************************)
THEOREM TimersNeverOverdue == SafeSpec => []NeverOverdue
<1>1. Init => TimerInv
  BY DEF Init, TimerInv, OnlyAccepted, Restarted, NeverOverdue
<1>2. TimerInv => NeverOverdue
  BY SMTT(30) DEF TimerInv
<1> QED
  BY <1>1, <1>2, TimerTypeCorrect, TimerInductive, PTL DEF SafeSpec

-----------------------------------------------------------------------------
(***************************************************************************)
(* What a step can put into the queue of expired timers, and out of it.    *)
(***************************************************************************)
Content(q) == {q[i] : i \in DOMAIN q}

LEMMA ContentAppend ==
  ASSUME NEW q \in Seq(Timers), NEW t \in Timers
  PROVE  Content(Append(q, t)) \subseteq Content(q) \cup {t}
BY DEF Content

\* Tail drops the head and adds nothing.
LEMMA ContentTail ==
  ASSUME NEW q \in Seq(Timers), q # <<>>
  PROVE  Content(Tail(q)) \subseteq Content(q) /\ Head(q) \in Content(q)
<1>1. /\ Len(q) \in Nat /\ Len(q) > 0 /\ DOMAIN q = 1 .. Len(q) /\ Head(q) = q[1]
      /\ Tail(q) \in Seq(Timers) /\ Len(Tail(q)) = Len(q) - 1
      /\ \A i \in 1 .. Len(Tail(q)) : Tail(q)[i] = q[i + 1]
  OBVIOUS
<1>2. DOMAIN Tail(q) = 1 .. Len(q) - 1
  BY <1>1
<1>3. \A i \in 1 .. Len(q) - 1 : i + 1 \in 1 .. Len(q)
  BY <1>1
<1> QED
  BY <1>1, <1>2, <1>3 DEF Content

\* CancelTimer marks one timer and unmarks none.
LEMMA CancelMarks ==
  ASSUME TypeOK, NEW t \in Timers, CancelTimer(t)
  PROVE  \A x \in Timers : cancelled[x] => cancelled'[x]
<1>1. cancelled' = [cancelled EXCEPT ![t] = TRUE] /\ cancelled \in [Timers -> BOOLEAN]
  BY DEF CancelTimer, TypeOK
<1>2. \A x \in Timers : cancelled'[x] = IF x = t THEN TRUE ELSE cancelled[x]
  BY <1>1, Zenon
<1> QED
  BY <1>2, Zenon

(***************************************************************************)
(* No step takes a cancellation back: VisitDue, which assigns the flag,    *)
(* only does so for a timer that is not cancelled.                         *)
(***************************************************************************)
LEMMA CancelKept ==
  ASSUME TypeOK, [Next]_vars
  PROVE  \A x \in Timers : cancelled[x] => cancelled'[x]
<1>1. ASSUME NEW c \in Clients, NEW t \in Timers, CallAdd(c, t) \/ Cancel(c, t)
      PROVE  \A x \in Timers : cancelled[x] => cancelled'[x]
  BY <1>1, CancelMarks DEF CallAdd, Cancel
<1>2. ASSUME NEW c \in Clients, Add(c) PROVE UNCHANGED cancelled
  BY <1>2, SMTT(30) DEF Add
<1>3. CASE TickTest \/ Advance \/ BeginScan \/ Enqueue \/ EndScan
  BY <1>3 DEF TickTest, Advance, BeginScan, Enqueue, EndScan, timerVars
<1>4. ASSUME NEW t \in Timers, VisitIdle(t) PROVE UNCHANGED cancelled
  BY <1>4 DEF VisitIdle
<1>5. ASSUME NEW t \in Timers, VisitDue(t)
      PROVE  \A x \in Timers : cancelled[x] => cancelled'[x]
  <2>1. ~cancelled[t] /\ \A x \in Timers : x # t => cancelled'[x] = cancelled[x]
    BY <1>5, Zenon DEF VisitDue, Due, TypeOK
  <2> QED
    BY <2>1, Zenon
<1>6. CASE WorkTest \/ WorkDequeue
  BY <1>6 DEF WorkTest, WorkDequeue, timerVars
<1>7. CASE Handler
  <2>1. wtimer \in Timers
    BY <1>7 DEF Handler, TypeOK
  <2> QED
    BY <1>7, <2>1, CancelMarks DEF Handler
<1>8. CASE StopFlag \/ StopBreak \/ StopJoin \/ UNCHANGED vars
  BY <1>8, SMTT(30) DEF StopFlag, StopBreak, StopJoin, vars, timerVars
<1> QED
  BY <1>1, <1>2, <1>3, <1>4, <1>5, <1>6, <1>7, <1>8 DEF Next, TickStep, WorkStep, StopStep

(***************************************************************************)
(* OneshotOnce is not inductive alone.  A oneshot timer is marked before   *)
(* anybody can see it expire: by the client that adds it, and from then on *)
(* wherever the timer is.  An expiry cancels it.                           *)
(***************************************************************************)
InUse(t) ==
    \/ listed[t] > 0 \/ cur = t \/ wtimer = t
    \/ t \in Content(queue)
    \/ \E c \in Clients : arg[c] = t

OnceInv ==
    /\ OneshotOnce
    /\ \A t \in Oneshots : InUse(t) => oneshot[t]
    /\ \A t \in Oneshots : fired[t] # 0 => cancelled[t]

\* A step that lets no timer expire keeps it, if it marks what it brings into use.
LEMMA OnceFrame ==
  ASSUME TypeOK, OnceInv, UNCHANGED fired,
         \A t \in Timers : cancelled[t] => cancelled'[t],
         \A t \in Oneshots : oneshot[t] => oneshot'[t],
         \A t \in Oneshots : InUse(t)' => InUse(t) \/ oneshot'[t]
  PROVE  OnceInv'
<1>1. OneshotOnce'
  BY DEF OnceInv, OneshotOnce
<1>2. \A t \in Oneshots : InUse(t)' => oneshot'[t]
  BY Zenon DEF OnceInv
<1>3. \A t \in Oneshots : fired'[t] # 0 => cancelled'[t]
  BY TimerAssumption DEF OnceInv
<1> QED
  BY <1>1, <1>2, <1>3 DEF OnceInv

\* AddTimer brings nothing into use but the timer it is given.
LEMMA AddUse ==
  ASSUME TypeOK, NEW t \in Timers, AddTimer(t)
  PROVE  \A x \in Timers : listed'[x] > 0 => listed[x] > 0 \/ x = t
BY DEF AddTimer, TypeOK

\* The end of a visit lists nothing.
LEMMA FinishUse ==
  ASSUME TypeOK, NEW t \in Timers, FinishVisit(t), unvisited[t] > 0
  PROVE  \A x \in Timers : listed'[x] > 0 => listed[x] > 0
<1>1. /\ listed' \in [Timers -> 0 .. MaxListed]
      /\ \A x \in Timers : listed'[x] <= listed[x]
  BY FinishVisitFacts
<1>2. listed \in [Timers -> 0 .. MaxListed] /\ MaxListed \in Nat
  BY TimerAssumption DEF TypeOK
<1> QED
  BY ONLY <1>1, <1>2

\* Every step preserves the invariant of the oneshot timers.
LEMMA OnceInductive == TypeOK /\ OnceInv /\ [Next]_vars => OnceInv'
<1> SUFFICES ASSUME TypeOK, OnceInv, [Next]_vars PROVE OnceInv'
  OBVIOUS
<1> USE TimerAssumption
<1>0. \A x \in Timers : cancelled[x] => cancelled'[x]
  BY CancelKept
<1>1. ASSUME NEW c \in Clients, NEW t \in Timers, CallAdd(c, t) PROVE OnceInv'
  <2>1. /\ \A x \in Timers : oneshot[x] => oneshot'[x]
        /\ t \in Oneshots => oneshot'[t]
    BY <1>1, Zenon DEF CallAdd, TypeOK
  <2>2. UNCHANGED <<listed, cur, wtimer, queue, fired>>
    BY <1>1 DEF CallAdd, tickVars, workVars
  <2>3. \A d \in Clients : arg'[d] = arg[d] \/ arg'[d] = t
    BY <1>1 DEF CallAdd, TypeOK
  <2>4. \A x \in Oneshots : InUse(x)' => InUse(x) \/ x = t
    BY <2>2, <2>3 DEF InUse
  <2> QED
    BY <1>0, <2>1, <2>2, <2>4, OnceFrame
<1>2. ASSUME NEW c \in Clients, Add(c) PROVE OnceInv'
  <2>1. arg[c] \in Timers /\ AddTimer(arg[c])
    BY <1>2 DEF Add, TypeOK
  <2>2. UNCHANGED <<oneshot, cur, wtimer, queue, fired>>
    BY <1>2 DEF Add, tickVars, workVars
  <2>3. \A d \in Clients : arg'[d] = arg[d] \/ arg'[d] = NullPtr
    BY <1>2 DEF Add, TypeOK
  <2>4. \A x \in Oneshots : InUse(x)' => InUse(x)
    BY <2>1, <2>2, <2>3, AddUse DEF InUse
  <2> QED
    BY <1>0, <2>2, <2>4, OnceFrame
<1>3. ASSUME NEW c \in Clients, NEW t \in Timers, Cancel(c, t) PROVE OnceInv'
  <2>1. UNCHANGED <<listed, oneshot, cur, wtimer, queue, arg, fired>>
    BY <1>3 DEF Cancel, tickVars, workVars
  <2> QED
    BY <1>0, <2>1, OnceFrame DEF InUse
<1>4. CASE TickTest \/ Advance \/ BeginScan \/ EndScan
  <2>1. UNCHANGED <<listed, oneshot, cur, wtimer, queue, arg, fired>>
    BY <1>4 DEF TickTest, Advance, BeginScan, EndScan, timerVars, workVars
  <2> QED
    BY <1>0, <2>1, OnceFrame DEF InUse
<1>5. ASSUME NEW t \in Timers, VisitIdle(t) PROVE OnceInv'
  <2>1. UNCHANGED <<oneshot, cur, wtimer, queue, arg, fired>>
    BY <1>5, SMTT(30) DEF VisitIdle, workVars
  <2>2. \A x \in Timers : listed'[x] > 0 => listed[x] > 0
    BY <1>5, FinishUse, Zenon DEF VisitIdle
  <2>3. \A x \in Oneshots : InUse(x)' => InUse(x)
    BY <2>1, <2>2 DEF InUse
  <2> QED
    BY <1>0, <2>1, <2>3, OnceFrame, Zenon
<1>6. ASSUME NEW t \in Timers, VisitDue(t) PROVE OnceInv'
  <2>1. /\ unvisited[t] > 0 /\ ~cancelled[t] /\ cur' = t
        /\ UNCHANGED <<listed, oneshot, wtimer, queue, arg>>
        /\ fired' = [o \in Oneshots |-> IF o = t THEN UpTo(fired[o] + 1, 2) ELSE fired[o]]
    BY <1>6 DEF VisitDue, Due, workVars
  <2>2. cancelled'[t] = oneshot[t]
    BY <1>6, Zenon DEF VisitDue, TypeOK
  <2>3. listed[t] > 0
    BY <2>1 DEF TypeOK
  <2>4. \A x \in Oneshots : InUse(x)' => InUse(x)
    BY <2>1, <2>3 DEF InUse
  <2>5. t \in Oneshots => oneshot[t] /\ fired[t] = 0
    BY <2>1, <2>3 DEF OnceInv, InUse
  <2>6. t \in Oneshots => fired'[t] = 1 /\ cancelled'[t]
    BY <2>1, <2>2, <2>5 DEF UpTo
  <2>7. \A x \in Oneshots : x # t => fired'[x] = fired[x]
    BY <2>1
  <2>8. OneshotOnce' /\ \A x \in Oneshots : fired'[x] # 0 => cancelled'[x]
    BY <1>0, <2>6, <2>7 DEF OnceInv, OneshotOnce
  <2>9. \A x \in Oneshots : InUse(x)' => oneshot'[x]
    BY <2>1, <2>4 DEF OnceInv
  <2> QED
    BY <2>8, <2>9 DEF OnceInv
<1>7. CASE Enqueue
  <2>1. /\ cur \in Timers /\ unvisited[cur] > 0 /\ FinishVisit(cur) /\ cur' = NullPtr
        /\ queue' = Append(queue, cur) \/ queue' = queue
        /\ UNCHANGED <<oneshot, wtimer, arg, fired>>
    BY <1>7 DEF Enqueue, TypeOK, workVars
  <2>2. \A x \in Timers : listed'[x] > 0 => listed[x] > 0
    BY <2>1, FinishUse
  <2>3. Content(queue') \subseteq Content(queue) \cup {cur}
    BY <2>1, ContentAppend, Zenon DEF TypeOK
  <2>4. \A x \in Oneshots : InUse(x)' => InUse(x)
    BY <2>1, <2>2, <2>3 DEF InUse
  <2> QED
    BY <1>0, <2>1, <2>4, OnceFrame
<1>8. CASE WorkTest \/ StopFlag \/ StopBreak \/ StopJoin \/ UNCHANGED vars
  <2>1. UNCHANGED <<listed, oneshot, cur, wtimer, queue, arg, fired>>
    BY <1>8 DEF WorkTest, StopFlag, StopBreak, StopJoin, vars, timerVars, tickVars, workVars
  <2> QED
    BY <1>0, <2>1, OnceFrame DEF InUse
<1>9. CASE WorkDequeue
  <2>1. /\ UNCHANGED <<listed, oneshot, cur, arg, fired>>
        /\ \/ queue # <<>> /\ wtimer' = Head(queue) /\ queue' = Tail(queue)
           \/ UNCHANGED <<wtimer, queue>>
    BY <1>9 DEF WorkDequeue, timerVars, tickVars
  <2>2. /\ Content(queue') \subseteq Content(queue)
        /\ wtimer' = wtimer \/ wtimer' \in Content(queue)
    <3>1. queue \in Seq(Timers)
      BY DEF TypeOK
    <3>2. CASE queue # <<>> /\ wtimer' = Head(queue) /\ queue' = Tail(queue)
      BY <3>1, <3>2, ContentTail
    <3>3. CASE UNCHANGED <<wtimer, queue>>
      BY <3>3
    <3> QED
      BY <2>1, <3>2, <3>3
  <2>3. \A x \in Oneshots : InUse(x)' => InUse(x)
    BY <2>1, <2>2 DEF InUse
  <2> QED
    BY <1>0, <2>1, <2>3, OnceFrame, Zenon
<1>10. CASE Handler
  <2>1. wtimer \in Timers /\ wtimer' = NullPtr /\ UNCHANGED <<oneshot, cur, queue, arg, fired>>
    BY <1>10 DEF Handler, TypeOK, tickVars
  <2>2. \A x \in Timers : listed'[x] > 0 => listed[x] > 0 \/ x = wtimer
    BY <1>10, <2>1, AddUse, SMTT(30) DEF Handler
  <2>3. \A x \in Oneshots : InUse(x)' => InUse(x)
    BY <2>1, <2>2 DEF InUse
  <2> QED
    BY <1>0, <2>1, <2>3, OnceFrame
<1> QED
  BY <1>1, <1>2, <1>3, <1>4, <1>5, <1>6, <1>7, <1>8, <1>9, <1>10
     DEF Next, TickStep, WorkStep, StopStep

(***************************************************************************)
(* A timer added with AddOneshotTimer expires at most once, for any number *)
(* of clients that add and cancel it and of handlers that add it again.    *)
(***************************************************************************)
THEOREM OneshotsExpireOnce == SafeSpec => []OneshotOnce
<1>1. Init => OnceInv
  <2> SUFFICES ASSUME Init PROVE OnceInv
    OBVIOUS
  <2>1. \A t \in Oneshots : fired[t] = 0 /\ ~InUse(t)
    BY TimerAssumption DEF Init, InUse, Content
  <2> QED
    BY <2>1 DEF OnceInv, OneshotOnce
<1>2. OnceInv => OneshotOnce
  BY DEF OnceInv
<1> QED
  BY <1>1, <1>2, TimerTypeCorrect, OnceInductive, PTL DEF SafeSpec

\* The tick thread alone takes a timer to queue it, and only one that is not cancelled.
LEMMA OnlyDueTaken ==
  ASSUME TypeOK, [Next]_vars, NEW t \in Timers, cancelled[t], TimerFree(t)
  PROVE  TimerFree(t)'
<1>1. ASSUME NEW c \in Clients, NEW x \in Timers, CallAdd(c, x) \/ Cancel(c, x)
      PROVE  UNCHANGED <<tpc, cur>>
  BY <1>1 DEF CallAdd, Cancel, tickVars
<1>2. ASSUME NEW c \in Clients, Add(c) PROVE UNCHANGED <<tpc, cur>>
  BY <1>2 DEF Add, tickVars
<1>3. CASE TickTest \/ Advance \/ BeginScan \/ EndScan
  BY <1>3 DEF TickTest, Advance, BeginScan, EndScan, TimerFree
<1>4. CASE Enqueue
  BY <1>4 DEF Enqueue, FinishVisit, TimerFree
<1>5. ASSUME NEW x \in Timers, VisitIdle(x) PROVE TimerFree(t)'
  BY <1>5, SMTT(30) DEF VisitIdle, FinishVisit, TimerFree
<1>6. ASSUME NEW x \in Timers, VisitDue(x) PROVE TimerFree(t)'
  BY <1>6, SMTT(30) DEF VisitDue, Due, TimerFree
<1>7. CASE WorkStep \/ StopFlag \/ StopStep \/ UNCHANGED vars
  BY <1>7 DEF WorkStep, WorkTest, WorkDequeue, Handler, StopFlag, StopStep, StopBreak, StopJoin,
              vars, tickVars, TimerFree
<1> QED
  BY <1>1, <1>2, <1>3, <1>4, <1>5, <1>6, <1>7 DEF Next, TickStep, TimerFree

\* Nothing enters the queue but the timer that the tick thread has taken.
LEMMA OnlyTakenQueued ==
  ASSUME TypeOK, [Next]_vars, NEW t \in Timers, TimerFree(t)
  PROVE  t \in Content(queue') => t \in Content(queue)
<1>0. queue \in Seq(Timers)
  BY DEF TypeOK
<1>1. ASSUME NEW c \in Clients, NEW x \in Timers, CallAdd(c, x) \/ Cancel(c, x)
      PROVE  UNCHANGED queue
  BY <1>1 DEF CallAdd, Cancel
<1>2. ASSUME NEW c \in Clients, Add(c) PROVE UNCHANGED queue
  BY <1>2 DEF Add
<1>3. CASE TickTest \/ Advance \/ BeginScan \/ EndScan
  BY <1>3 DEF TickTest, Advance, BeginScan, EndScan
<1>4. CASE Enqueue
  <2>1. cur \in Timers /\ cur # t /\ (queue' = Append(queue, cur) \/ queue' = queue)
    BY <1>4 DEF Enqueue, TimerFree, TypeOK
  <2> QED
    BY <1>0, <2>1, ContentAppend, ZenonT(40)
<1>5. ASSUME NEW x \in Timers, VisitIdle(x) \/ VisitDue(x) PROVE UNCHANGED queue
  BY <1>5 DEF VisitIdle, VisitDue
<1>6. CASE WorkDequeue
  <2>1. (queue # <<>> /\ queue' = Tail(queue)) \/ queue' = queue
    BY <1>6 DEF WorkDequeue
  <2> QED
    BY <1>0, <2>1, ContentTail, Zenon
<1>7. CASE WorkTest \/ Handler \/ StopFlag \/ StopStep \/ UNCHANGED vars
  BY <1>7 DEF WorkTest, Handler, StopFlag, StopStep, StopBreak, StopJoin, vars
<1> QED
  BY <1>1, <1>2, <1>3, <1>4, <1>5, <1>6, <1>7 DEF Next, TickStep, WorkStep

(***************************************************************************)
(* After CancelTimer has returned the timer never expires again, nor does  *)
(* it enter the queue, whoever adds it again.                              *)
(***************************************************************************)
THEOREM CancelledNeverFires == SafeSpec => NoFireAfterCancel
<1> DEFINE Kept(t) == /\ cancelled'[t]
                      /\ TimerFree(t) => TimerFree(t)'
                      /\ TimerFree(t) /\ t \in {queue'[i] : i \in DOMAIN queue'}
                           => t \in {queue[i] : i \in DOMAIN queue}
<1>1. TypeOK /\ [Next]_vars => [\A t \in Timers : cancelled[t] => Kept(t)]_vars
  <2> SUFFICES ASSUME TypeOK, [Next]_vars, NEW t \in Timers, cancelled[t] PROVE Kept(t)
    OBVIOUS
  <2>1. cancelled'[t]
    BY CancelKept
  <2>2. TimerFree(t) => TimerFree(t)'
    BY OnlyDueTaken
  <2>3. TimerFree(t) /\ t \in {queue'[i] : i \in DOMAIN queue'}
           => t \in {queue[i] : i \in DOMAIN queue}
    BY OnlyTakenQueued DEF Content
  <2> QED
    BY <2>1, <2>2, <2>3
<1> QED
  BY <1>1, TimerTypeCorrect, PTL DEF SafeSpec, NoFireAfterCancel

=============================================================================
