------------------------------- MODULE Poller -------------------------------
(***************************************************************************)
(* The poller of src/src/io/poller.cpp: one thread waits with epoll for    *)
(* the registered file descriptors and calls their callbacks; clients      *)
(* register and unregister from other threads, and somebody shuts it down. *)
(*                                                                         *)
(* Every section under poll_mutex_ is one step, a callback included.  The  *)
(* callback is the one NodeDuplex::RegisterToPoller registers, which reads *)
(* its fd until nothing is left and ignores a timeout.  epoll, pipes and   *)
(* the file descriptors are external: they are modelled as the kernel      *)
(* defines them, edge-triggered for the clients' fds (EPOLLET) and level-  *)
(* triggered for the pipe.                                                 *)
(***************************************************************************)
EXTENDS Integers, FiniteSets

CONSTANTS
    Fds,           \* file descriptors the clients register
    PipeFd,        \* pipe_fd_[0]
    Clients,       \* threads that register and unregister
    NoClient,      \* pipe_mutex_ is free
    Timeouts,      \* the values of PollRequest::timeout_ms
    PollTimeout,   \* kPollTimeoutMs (100)
    MaxInterval,   \* bound on the time an epoll_wait takes, in ms
    MaxRegisters,  \* bound on the calls of Register for one fd
    MaxData        \* bound on what is unread in an fd

AllFds == Fds \cup {PipeFd}

Ops == {"add", "mod", "del"}

ASSUME PollerAssumption ==
    /\ PipeFd \notin Fds /\ NoClient \notin Clients
    /\ Timeouts \subseteq Int /\ \A t \in Timeouts : t >= -1
    /\ PollTimeout \in Nat \ {0} /\ MaxInterval \in Nat /\ MaxInterval >= PollTimeout
    /\ MaxRegisters \in Nat /\ MaxData \in Nat

VARIABLES
    requests,    \* SUBSET AllFds: the keys of requests_
    timeout,     \* [AllFds -> Int]: timeout_ms of the request
    ctrl,        \* [AllFds -> Ops or "none"]: ctrl_params_
    local,       \* [AllFds -> Ops or "none"]: local_params of HandleChanges
    kernel,      \* SUBSET AllFds: the interest list of epoll_fd_
    edge,        \* SUBSET Fds: fds on the ready list
    avail,       \* [Fds -> Nat]: what is unread
    pipe,        \* BOOLEAN: there are bytes in the pipe
    pipeLock,    \* who holds pipe_mutex_
    isShutdown,  \* is_shutdown_
    tpc,         \* where the poller thread is
    wait,        \* the timeout given to epoll_wait
    evt,         \* SUBSET AllFds: what epoll_wait returned
    interval,    \* interval_ms
    responses,   \* [AllFds -> {"none", "timeout", "ready"}]
    cpc, cfd,    \* where each client is, and with which fd
    spc,         \* the thread that calls Shutdown
    registers,   \* history: the calls of Register for each fd
    gone         \* history: fds whose last call was a successful Unregister

clientVars == <<pipeLock, cpc, cfd, registers, gone>>
threadVars == <<local, wait, evt, interval, responses>>
vars == <<requests, timeout, ctrl, kernel, edge, avail, pipe, isShutdown, tpc, spc,
          clientVars, threadVars>>

Nothing == [fd \in AllFds |-> "none"]

\* After Init(): the pipe's own registration waits for the thread.
Init ==
    /\ requests = {PipeFd}
    /\ timeout = [fd \in AllFds |-> -1]
    /\ ctrl = [Nothing EXCEPT ![PipeFd] = "add"]
    /\ local = Nothing
    /\ kernel = {}
    /\ edge = {}
    /\ avail = [fd \in Fds |-> 0]
    /\ pipe = FALSE
    /\ pipeLock = NoClient
    /\ isShutdown = FALSE
    /\ tpc = "test"
    /\ wait = 0
    /\ evt = {}
    /\ interval = 1
    /\ responses = Nothing
    /\ cpc = [c \in Clients |-> "out"]
    /\ cfd = [c \in Clients |-> PipeFd]
    /\ spc = "out"
    /\ registers = [fd \in Fds |-> 0]
    /\ gone = {}

-----------------------------------------------------------------------------
(***************************************************************************)
(* Register and Unregister: the test of is_shutdown_, the section under    *)
(* poll_mutex_, and Notify, which writes to the pipe unless another client *)
(* is in it.                                                               *)
(***************************************************************************)
Call(c, fd, op) ==
    /\ cpc[c] = "out"
    /\ ~isShutdown
    /\ op = "register" => registers[fd] < MaxRegisters
    /\ registers' = [registers EXCEPT ![fd] = IF op = "register" THEN @ + 1 ELSE @]
    /\ cpc' = [cpc EXCEPT ![c] = op]
    /\ cfd' = [cfd EXCEPT ![c] = fd]
    /\ UNCHANGED <<requests, timeout, ctrl, kernel, edge, avail, pipe, isShutdown,
                   tpc, spc, pipeLock, gone, threadVars>>

Register(c, ms) ==
    /\ cpc[c] = "register"
    /\ ctrl' = [ctrl EXCEPT ![cfd[c]] = IF cfd[c] \in requests THEN "mod" ELSE "add"]
    /\ requests' = requests \cup {cfd[c]}
    /\ timeout' = [timeout EXCEPT ![cfd[c]] = ms]
    /\ gone' = gone \ {cfd[c]}
    /\ cpc' = [cpc EXCEPT ![c] = "notify"]
    /\ UNCHANGED <<kernel, edge, avail, pipe, isShutdown, tpc, spc, pipeLock, cfd,
                   registers, threadVars>>

\* Mutant: the request is erased, but epoll is not told.
UnregisterKeepingInterest(c) ==
    /\ cpc[c] = "unregister"
    /\ cfd[c] \in requests
    /\ requests' = requests \ {cfd[c]}
    /\ timeout' = [timeout EXCEPT ![cfd[c]] = -1]
    /\ gone' = gone \cup {cfd[c]}
    /\ cpc' = [cpc EXCEPT ![c] = "notify"]
    /\ UNCHANGED <<ctrl, kernel, edge, avail, pipe, isShutdown, tpc, spc, pipeLock, cfd,
                   registers, threadVars>>

Unregister(c) ==
    /\ cpc[c] = "unregister"
    /\ \/ /\ cfd[c] \notin requests
          /\ cpc' = [cpc EXCEPT ![c] = "out"]
          /\ UNCHANGED <<requests, timeout, ctrl, gone>>
       \/ /\ cfd[c] \in requests
          /\ requests' = requests \ {cfd[c]}
          /\ timeout' = [timeout EXCEPT ![cfd[c]] = -1]
          /\ ctrl' = [ctrl EXCEPT ![cfd[c]] = "del"]
          /\ gone' = gone \cup {cfd[c]}
          /\ cpc' = [cpc EXCEPT ![c] = "notify"]
    /\ UNCHANGED <<kernel, edge, avail, pipe, isShutdown, tpc, spc, pipeLock, cfd,
                   registers, threadVars>>

\* try_to_lock, and the write if it succeeds; the lock is still held.
Notify(c) ==
    /\ cpc[c] = "notify"
    /\ \/ /\ pipeLock # NoClient
          /\ cpc' = [cpc EXCEPT ![c] = "out"]
          /\ UNCHANGED <<pipe, pipeLock>>
       \/ /\ pipeLock = NoClient
          /\ pipeLock' = c
          /\ pipe' = (spc # "returned")
          /\ cpc' = [cpc EXCEPT ![c] = "notified"]
    /\ UNCHANGED <<requests, timeout, ctrl, kernel, edge, avail, isShutdown, tpc, spc,
                   cfd, registers, gone, threadVars>>

NotifyReturn(c) ==
    /\ cpc[c] = "notified"
    /\ pipeLock' = NoClient
    /\ cpc' = [cpc EXCEPT ![c] = "out"]
    /\ UNCHANGED <<requests, timeout, ctrl, kernel, edge, avail, pipe, isShutdown, tpc,
                   spc, cfd, registers, gone, threadVars>>

-----------------------------------------------------------------------------
(***************************************************************************)
(* The poller thread: test is_shutdown_, HandleChanges, GetTimeoutMs, Poll.*)
(***************************************************************************)
\* while (!is_shutdown_), and HandleChanges' swap.
TestAndSwap ==
    /\ tpc = "test"
    /\ \/ /\ isShutdown
          /\ tpc' = "done"
          /\ UNCHANGED <<ctrl, local>>
       \/ /\ ~isShutdown
          /\ local' = ctrl
          /\ ctrl' = Nothing
          /\ tpc' = "ctl"
    /\ UNCHANGED <<requests, timeout, kernel, edge, avail, pipe, isShutdown, spc,
                   clientVars, wait, evt, interval, responses>>

\* An fd that becomes watched while it is readable is ready at once.
Readable(fd) == fd \in Fds /\ avail[fd] > 0

\* epoll_ctl: EEXIST and ENOENT are logged, and the change is lost.
EpollCtl(fd) ==
    /\ tpc = "ctl"
    /\ local[fd] # "none"
    /\ local' = [local EXCEPT ![fd] = "none"]
    /\ kernel' = IF local[fd] = "add" THEN kernel \cup {fd}
                 ELSE IF local[fd] = "del" THEN kernel \ {fd}
                 ELSE kernel
    /\ edge' = IF local[fd] = "del" THEN edge \ {fd}
               ELSE IF Readable(fd) /\ (local[fd] = "add" <=> fd \notin kernel)
               THEN edge \cup {fd}
               ELSE edge
    /\ UNCHANGED <<requests, timeout, ctrl, avail, pipe, isShutdown, tpc, spc,
                   clientVars, wait, evt, interval, responses>>

\* The least timeout of the requests, at most kPollTimeoutMs.
GetTimeoutMs ==
    LET due == {PollTimeout} \cup {timeout[fd] : fd \in {r \in requests : timeout[r] >= 0}}
    IN  CHOOSE t \in due : \A u \in due : t <= u

BeginPoll ==
    /\ tpc = "ctl" /\ local = Nothing
    /\ wait' = GetTimeoutMs
    /\ tpc' = "wait"
    /\ UNCHANGED <<requests, timeout, ctrl, kernel, edge, avail, pipe, isShutdown, spc,
                   clientVars, local, evt, interval, responses>>

\* An fd on the ready list that has been read empty is not reported.
Ready == {fd \in edge : Readable(fd)} \cup {fd \in {PipeFd} \cap kernel : pipe}

\* Mutant: epoll_wait without a timeout.
EpollWaitForever(ms) ==
    /\ tpc = "wait"
    /\ Ready # {}
    /\ evt' = Ready
    /\ edge' = {}
    /\ interval' = ms
    /\ tpc' = "collect"
    /\ UNCHANGED <<requests, timeout, ctrl, kernel, avail, pipe, isShutdown, spc,
                   clientVars, local, wait, responses>>

\* epoll_wait returns when something is ready or the timeout has passed.
EpollWait(ms) ==
    /\ tpc = "wait"
    /\ Ready # {} \/ ms >= wait
    /\ evt' = Ready
    /\ edge' = {}
    /\ interval' = ms
    /\ tpc' = "collect"
    /\ UNCHANGED <<requests, timeout, ctrl, kernel, avail, pipe, isShutdown, spc,
                   clientVars, local, wait, responses>>

\* Mutant: a negative rest is not put to zero.
LeftUnclamped(fd) == IF timeout[fd] > 0 THEN timeout[fd] - interval ELSE timeout[fd]

\* The time left of a request after interval_ms, zero when it is up.
Left(fd) ==
    IF timeout[fd] > 0 THEN IF timeout[fd] > interval THEN timeout[fd] - interval ELSE 0
    ELSE timeout[fd]

\* Mutant: a timeout replaces the event of the same fd.
MergedTimeoutFirst(fd, expired) ==
    IF fd \in expired THEN "timeout" ELSE IF fd \in evt THEN "ready" ELSE "none"

\* The events are put over the timeouts.
Merged(fd, expired) ==
    IF fd \in evt THEN "ready" ELSE IF fd \in expired THEN "timeout" ELSE "none"

\* Requests with a change under way are passed over.
Collect ==
    LET counted == {fd \in requests : ctrl[fd] = "none"}
        expired == {fd \in counted : Left(fd) = 0}
    IN  /\ tpc = "collect"
        /\ timeout' = [fd \in AllFds |-> IF fd \in expired THEN -1
                                         ELSE IF fd \in counted THEN Left(fd)
                                         ELSE timeout[fd]]
        /\ responses' = [fd \in AllFds |-> Merged(fd, expired)]
        /\ evt' = {}
        /\ interval' = 1 /\ wait' = 0
        /\ tpc' = "respond"
        /\ UNCHANGED <<requests, ctrl, kernel, edge, avail, pipe, isShutdown, spc,
                       pipeLock, cpc, cfd, registers, gone, local>>

\* Mutant: the callback is called without looking the fd up again.
CalledBackAlways(fd) == TRUE

CalledBack(fd) == fd \in requests

\* The callback of RegisterToPoller: on EPOLLIN, FDRecv until EAGAIN.
Drained(fd) == [f \in Fds |-> IF f = fd THEN 0 ELSE avail[f]]

\* A callback, under poll_mutex_; the pipe's empties the pipe.
Respond(fd) ==
    /\ tpc = "respond"
    /\ responses[fd] # "none"
    /\ responses' = [responses EXCEPT ![fd] = "none"]
    /\ timeout' = IF CalledBack(fd) THEN [timeout EXCEPT ![fd] = -1] ELSE timeout
    /\ pipe' = (pipe /\ fd # PipeFd)
    /\ avail' = IF CalledBack(fd) /\ responses[fd] = "ready" THEN Drained(fd) ELSE avail
    /\ UNCHANGED <<requests, ctrl, kernel, edge, isShutdown, tpc, spc,
                   clientVars, local, wait, evt, interval>>

EndPoll ==
    /\ tpc = "respond" /\ responses = Nothing
    /\ tpc' = "test"
    /\ UNCHANGED <<requests, timeout, ctrl, kernel, edge, avail, pipe, isShutdown, spc,
                   clientVars, threadVars>>

-----------------------------------------------------------------------------
\* Shutdown by the first caller; Clear joins the thread and clears all.
ShutdownFlag ==
    /\ spc = "out"
    /\ isShutdown' = TRUE
    /\ spc' = "joining"
    /\ UNCHANGED <<requests, timeout, ctrl, kernel, edge, avail, pipe, tpc,
                   clientVars, threadVars>>

Clear ==
    /\ spc = "joining"
    /\ tpc = "done"
    /\ spc' = "returned"
    /\ kernel' = {} /\ edge' = {} /\ pipe' = FALSE
    /\ requests' = {} /\ ctrl' = Nothing
    /\ timeout' = [fd \in AllFds |-> -1]
    /\ UNCHANGED <<avail, isShutdown, tpc, clientVars, threadVars>>

\* The environment: something to read arrives at an fd.
Arrive(fd) ==
    /\ avail[fd] < MaxData
    /\ avail' = [avail EXCEPT ![fd] = @ + 1]
    /\ edge' = IF fd \in kernel THEN edge \cup {fd} ELSE edge
    /\ UNCHANGED <<requests, timeout, ctrl, kernel, pipe, isShutdown, tpc, spc,
                   clientVars, threadVars>>

ClientStep(c) ==
    (\E ms \in Timeouts : Register(c, ms)) \/ Unregister(c) \/ Notify(c) \/ NotifyReturn(c)

ThreadStep ==
    \/ TestAndSwap \/ BeginPoll \/ Collect \/ EndPoll
    \/ \E fd \in AllFds : EpollCtl(fd) \/ Respond(fd)
    \/ \E ms \in 1 .. MaxInterval : EpollWait(ms)

Next ==
    \/ \E c \in Clients, fd \in Fds, op \in {"register", "unregister"} : Call(c, fd, op)
    \/ \E c \in Clients : ClientStep(c)
    \/ ThreadStep
    \/ ShutdownFlag \/ Clear
    \/ \E fd \in Fds : Arrive(fd)

(***************************************************************************)
(* The operating system runs every thread that can go on, and epoll_wait   *)
(* returns after its timeout.  Nothing has to arrive, nobody has to call.  *)
(***************************************************************************)
Fairness ==
    /\ \A c \in Clients : WF_vars(ClientStep(c))
    /\ WF_vars(ThreadStep)
    /\ WF_vars(Clear)

SafeSpec == Init /\ [][Next]_vars

Spec == SafeSpec /\ Fairness

-----------------------------------------------------------------------------
\* The types; a pending edge belongs to an fd that epoll watches, and the wait
\* and the interval stay in the range that Left and epoll_wait allow.
TypeOK ==
    /\ requests \subseteq AllFds
    /\ timeout \in [AllFds -> Int] /\ \A fd \in AllFds : timeout[fd] >= -1
    /\ ctrl \in [AllFds -> Ops \cup {"none"}]
    /\ local \in [AllFds -> Ops \cup {"none"}]
    /\ kernel \subseteq AllFds
    /\ edge \subseteq kernel
    /\ avail \in [Fds -> 0 .. MaxData]
    /\ pipe \in BOOLEAN
    /\ pipeLock \in Clients \cup {NoClient}
    /\ isShutdown \in BOOLEAN
    /\ tpc \in {"test", "ctl", "wait", "collect", "respond", "done"}
    /\ wait \in 0 .. PollTimeout
    /\ evt \subseteq AllFds
    /\ interval \in 1 .. MaxInterval
    /\ responses \in [AllFds -> {"none", "timeout", "ready"}]
    /\ cpc \in [Clients -> {"out", "register", "unregister", "notify", "notified"}]
    /\ cfd \in [Clients -> AllFds]
    /\ spc \in {"out", "joining", "returned"}
    /\ registers \in [Fds -> 0 .. MaxRegisters]
    /\ gone \subseteq Fds

(***************************************************************************)
(* When no change for an fd is under way, epoll watches it exactly if it   *)
(* has a request: Register, Unregister and HandleChanges, which exchange   *)
(* changes without a common lock around epoll_ctl, never let the two       *)
(* drift apart, if no fd is registered twice.                              *)
(***************************************************************************)
InSync ==
    \A fd \in AllFds :
        ~isShutdown /\ ctrl[fd] = "none" /\ local[fd] = "none" =>
            (fd \in kernel <=> fd \in requests)

(***************************************************************************)
(* Once Unregister has succeeded the poller does not read the fd any more, *)
(* whatever epoll_wait had returned before: the owner may close it.        *)
(***************************************************************************)
NoReadAfterUnregister ==
    [][\A fd \in gone : avail'[fd] >= avail[fd]]_vars

(***************************************************************************)
(* What arrives at a registered fd is read, in spite of edge-triggered     *)
(* events, data that arrives before epoll_ctl, and timeouts in between.    *)
(***************************************************************************)
DataRead ==
    \A fd \in Fds :
        fd \in requests /\ avail[fd] > 0 ~> avail[fd] = 0 \/ fd \notin requests \/ isShutdown

(***************************************************************************)
(* A change is handed to epoll although Notify gives up when another       *)
(* client is in it, and a request's timeout expires or is overtaken by an  *)
(* event, unless the poller is being shut down.                            *)
(***************************************************************************)
ChangesHandled ==
    \A fd \in Fds : /\ ctrl[fd] # "none" ~> ctrl[fd] = "none" \/ isShutdown
                    /\ timeout[fd] >= 0 ~> timeout[fd] = -1 \/ isShutdown

(***************************************************************************)
(* Shutdown returns although it does not notify the thread it joins.       *)
(***************************************************************************)
ShutdownReturns == spc = "joining" ~> spc = "returned"
=============================================================================
