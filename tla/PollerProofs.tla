----------------------------- MODULE PollerProofs -----------------------------
(***************************************************************************)
(* Proofs about Poller, for any file descriptors, clients and timeouts.    *)
(***************************************************************************)
EXTENDS Poller, WellFoundedInduction, TLAPS

(***************************************************************************)
(* The part of the type invariant that the arguments below rest on.        *)
(***************************************************************************)
SyncType ==
    /\ requests \subseteq AllFds
    /\ kernel \subseteq AllFds
    /\ ctrl \in [AllFds -> Ops \cup {"none"}]
    /\ local \in [AllFds -> Ops \cup {"none"}]
    /\ cpc \in [Clients -> {"out", "register", "unregister", "notify", "notified"}]
    /\ cfd \in [Clients -> AllFds]
    /\ \A c \in Clients : cpc[c] # "out" => cfd[c] \in Fds
    /\ registers \in [Fds -> Nat]
    /\ avail \in [Fds -> Nat]
    /\ gone \subseteq Fds

\* Steps of the poller thread and of the environment that leave all of it alone but local.
LEMMA SyncTypeFrame ==
  ASSUME SyncType, UNCHANGED <<requests, kernel, cpc, cfd, registers, gone>>,
         ctrl' \in [AllFds -> Ops \cup {"none"}], local' \in [AllFds -> Ops \cup {"none"}],
         avail' \in [Fds -> Nat]
  PROVE  SyncType'
BY DEF SyncType

\* Every step keeps these types.
LEMMA SyncTypeInductive == SyncType /\ [Next]_vars => SyncType'
<1> SUFFICES ASSUME SyncType, [Next]_vars PROVE SyncType'
  OBVIOUS
<1> USE PollerAssumption
<1>0. /\ ctrl \in [AllFds -> Ops \cup {"none"}] /\ local \in [AllFds -> Ops \cup {"none"}]
      /\ avail \in [Fds -> Nat] /\ Nothing \in [AllFds -> Ops \cup {"none"}]
  BY DEF SyncType, Nothing
<1>1. ASSUME NEW c \in Clients, NEW fd \in Fds, NEW op \in {"register", "unregister"}, Call(c, fd, op)
      PROVE  SyncType'
  <2>1. /\ registers' \in [Fds -> Nat]
        /\ cpc' \in [Clients -> {"out", "register", "unregister", "notify", "notified"}]
        /\ cfd' \in [Clients -> AllFds]
    BY <1>1 DEF Call, SyncType, AllFds
  <2>2. \A d \in Clients : cpc'[d] # "out" => cfd'[d] \in Fds
    BY <1>1 DEF Call, SyncType
  <2> QED
    BY <1>1, <2>1, <2>2 DEF Call, SyncType, threadVars
<1>2. ASSUME NEW c \in Clients, NEW ms \in Timeouts, Register(c, ms) PROVE SyncType'
  <2>1. ctrl' \in [AllFds -> Ops \cup {"none"}]
    BY <1>0, <1>2, Zenon DEF Register, Ops
  <2>2. /\ cfd' = cfd /\ cpc' = [cpc EXCEPT ![c] = "notify"] /\ cpc[c] = "register"
        /\ requests' = requests \cup {cfd[c]} /\ gone' = gone \ {cfd[c]}
        /\ UNCHANGED <<kernel, local, registers, avail>>
    BY <1>2 DEF Register, threadVars
  <2> QED
    BY <2>1, <2>2 DEF SyncType
<1>3. ASSUME NEW c \in Clients, Unregister(c) PROVE SyncType'
  <2>1. ctrl' \in [AllFds -> Ops \cup {"none"}] /\ requests' \subseteq AllFds
    BY <1>0, <1>3 DEF Unregister, Ops, SyncType
  <2>2. /\ cfd' = cfd /\ \E p \in {"out", "notify"} : cpc' = [cpc EXCEPT ![c] = p]
        /\ cpc[c] = "unregister" /\ gone' \in {gone, gone \cup {cfd[c]}}
        /\ UNCHANGED <<kernel, local, registers, avail>>
    BY <1>3 DEF Unregister, threadVars
  <2> QED
    BY <2>1, <2>2 DEF SyncType
<1>4. ASSUME NEW c \in Clients, Notify(c) \/ NotifyReturn(c) PROVE SyncType'
  <2>1. /\ cfd' = cfd /\ \E p \in {"out", "notified"} : cpc' = [cpc EXCEPT ![c] = p]
        /\ cpc[c] # "out" /\ UNCHANGED <<requests, kernel, ctrl, local, registers, avail, gone>>
    BY <1>4 DEF Notify, NotifyReturn, threadVars
  <2> QED
    BY <2>1 DEF SyncType
<1>5. CASE TestAndSwap
  <2>1. /\ ctrl' \in {ctrl, Nothing} /\ local' \in {local, ctrl}
        /\ UNCHANGED <<requests, kernel, cpc, cfd, registers, avail, gone>>
    BY <1>5 DEF TestAndSwap, clientVars
  <2> QED
    BY <1>0, <2>1, SyncTypeFrame
<1>6. ASSUME NEW fd \in AllFds, EpollCtl(fd) PROVE SyncType'
  <2>1. /\ local' = [local EXCEPT ![fd] = "none"] /\ kernel' \subseteq kernel \cup {fd}
        /\ UNCHANGED <<requests, ctrl, cpc, cfd, registers, avail, gone>>
    BY <1>6 DEF EpollCtl, clientVars
  <2>2. local' \in [AllFds -> Ops \cup {"none"}]
    BY <1>0, <2>1
  <2> QED
    BY <2>1, <2>2 DEF SyncType
<1>7. CASE BeginPoll \/ Collect \/ EndPoll \/ ShutdownFlag \/ UNCHANGED vars
  <2>1. UNCHANGED <<requests, kernel, ctrl, local, cpc, cfd, registers, avail, gone>>
    BY <1>7 DEF BeginPoll, Collect, EndPoll, ShutdownFlag, vars, clientVars, threadVars
  <2> QED
    BY <1>0, <2>1, SyncTypeFrame
<1>8. ASSUME NEW ms \in 1 .. MaxInterval, EpollWait(ms) PROVE SyncType'
  <2>1. UNCHANGED <<requests, kernel, ctrl, local, cpc, cfd, registers, avail, gone>>
    BY <1>8 DEF EpollWait, clientVars
  <2> QED
    BY <1>0, <2>1, SyncTypeFrame
<1>9. ASSUME NEW fd \in AllFds, Respond(fd) PROVE SyncType'
  <2>1. /\ avail' \in {avail, Drained(fd)}
        /\ UNCHANGED <<requests, kernel, ctrl, local, cpc, cfd, registers, gone>>
    BY <1>9 DEF Respond, clientVars
  <2>2. Drained(fd) \in [Fds -> Nat]
    BY <1>0 DEF Drained
  <2> QED
    BY <1>0, <2>1, <2>2, SyncTypeFrame
<1>10. CASE Clear
  BY <1>0, <1>10 DEF Clear, SyncType, clientVars, threadVars
<1>11. ASSUME NEW fd \in Fds, Arrive(fd) PROVE SyncType'
  <2>1. /\ avail' = [avail EXCEPT ![fd] = avail[fd] + 1]
        /\ UNCHANGED <<requests, kernel, ctrl, local, cpc, cfd, registers, gone>>
    BY <1>11 DEF Arrive, clientVars, threadVars
  <2>2. avail' \in [Fds -> Nat]
    BY <1>0, <2>1
  <2> QED
    BY <1>0, <2>1, <2>2, SyncTypeFrame
<1> QED
  BY <1>1, <1>2, <1>3, <1>4, <1>5, <1>6, <1>7, <1>8, <1>9, <1>10, <1>11
     DEF Next, ClientStep, ThreadStep

\* They hold after Init().
LEMMA SyncTypeInit == Init => SyncType
BY PollerAssumption DEF Init, SyncType, Nothing, AllFds, Ops

-----------------------------------------------------------------------------
(***************************************************************************)
(* NoReadAfterUnregister: the callback looks the fd up again under         *)
(* poll_mutex_, and what is unregistered has no request.                   *)
(***************************************************************************)
GoneUnrequested == gone \cap requests = {}

\* Only Register brings a request, and takes the fd out of gone.
LEMMA GoneInductive == GoneUnrequested /\ [Next]_vars => GoneUnrequested'
<1> SUFFICES ASSUME GoneUnrequested, [Next]_vars PROVE GoneUnrequested'
  OBVIOUS
<1> USE DEF GoneUnrequested
<1>1. ASSUME NEW c \in Clients, NEW fd \in Fds, NEW op \in {"register", "unregister"}, Call(c, fd, op)
      PROVE  GoneUnrequested'
  BY <1>1 DEF Call
<1>2. ASSUME NEW c \in Clients, ClientStep(c) PROVE GoneUnrequested'
  BY <1>2, SMTT(30) DEF ClientStep, Register, Unregister, Notify, NotifyReturn
<1>3. CASE ThreadStep
  BY <1>3 DEF ThreadStep, TestAndSwap, BeginPoll, Collect, EndPoll, EpollCtl, Respond, EpollWait,
              clientVars
<1>4. CASE ShutdownFlag \/ Clear \/ UNCHANGED vars
  BY <1>4 DEF ShutdownFlag, Clear, vars, clientVars
<1>5. ASSUME NEW fd \in Fds, Arrive(fd) PROVE GoneUnrequested'
  BY <1>5 DEF Arrive, clientVars
<1> QED
  BY <1>1, <1>2, <1>3, <1>4, <1>5 DEF Next

(***************************************************************************)
(* Once Unregister has succeeded, the poller thread does not read the fd   *)
(* again, for any number of clients and fds, and however often they are    *)
(* registered: what epoll_wait had returned for it is dropped.             *)
(***************************************************************************)
THEOREM UnregisteredNeverRead == SafeSpec => NoReadAfterUnregister
<1>1. Init => SyncType /\ GoneUnrequested
  BY SyncTypeInit DEF Init, GoneUnrequested
<1>2. SyncType /\ GoneUnrequested /\ [Next]_vars => [\A fd \in gone : avail'[fd] >= avail[fd]]_vars
  <2> SUFFICES ASSUME SyncType, GoneUnrequested, Next, NEW fd \in gone
               PROVE  avail'[fd] >= avail[fd]
    OBVIOUS
  <2>0. fd \in Fds /\ avail \in [Fds -> Nat] /\ avail[fd] \in Nat /\ fd \notin requests
    BY DEF SyncType, GoneUnrequested
  <2>1. ASSUME UNCHANGED avail PROVE avail'[fd] >= avail[fd]
    BY <2>0, <2>1
  <2>2. ASSUME NEW c \in Clients, NEW f \in Fds, NEW op \in {"register", "unregister"}, Call(c, f, op)
        PROVE  UNCHANGED avail
    BY <2>2 DEF Call
  <2>3. ASSUME NEW c \in Clients, ClientStep(c) PROVE UNCHANGED avail
    BY <2>3 DEF ClientStep, Register, Unregister, Notify, NotifyReturn
  <2>4. ASSUME NEW f \in AllFds, Respond(f) PROVE avail'[fd] >= avail[fd]
    <3>1. avail'[fd] = avail[fd]
      BY <2>0, <2>4 DEF Respond, CalledBack, Drained
    <3> QED
      BY <2>0, <3>1
  <2>5. CASE TestAndSwap \/ BeginPoll \/ Collect \/ EndPoll \/ ShutdownFlag \/ Clear
    BY <2>1, <2>5 DEF TestAndSwap, BeginPoll, Collect, EndPoll, ShutdownFlag, Clear
  <2>6. ASSUME NEW f \in AllFds, EpollCtl(f) PROVE UNCHANGED avail
    BY <2>6 DEF EpollCtl
  <2>7. ASSUME NEW ms \in 1 .. MaxInterval, EpollWait(ms) PROVE UNCHANGED avail
    BY <2>7 DEF EpollWait
  <2>8. ASSUME NEW f \in Fds, Arrive(f) PROVE avail'[fd] >= avail[fd]
    <3>1. avail' = [avail EXCEPT ![f] = avail[f] + 1] /\ avail[f] \in Nat
      BY <2>0, <2>8 DEF Arrive
    <3> QED
      BY <2>0, <3>1
  <2> QED
    BY <2>1, <2>2, <2>3, <2>4, <2>5, <2>6, <2>7, <2>8 DEF Next, ThreadStep
<1> QED
  BY <1>1, <1>2, SyncTypeInductive, GoneInductive, PTL DEF SafeSpec, NoReadAfterUnregister

-----------------------------------------------------------------------------
(***************************************************************************)
(* InSync, when no fd is registered twice.  It is not inductive alone: it  *)
(* says nothing while a change is under way.  Agreed says, for each fd,    *)
(* which change may be where: in ctrl_params_, in the thread's copy, or    *)
(* done.                                                                   *)
(***************************************************************************)
Untouched(fd) ==
    fd \notin requests /\ ctrl[fd] = "none" /\ local[fd] = "none" /\ fd \notin kernel

Agreed(fd) ==
    IF fd \in requests
    THEN \/ ctrl[fd] = "add" /\ local[fd] = "none" /\ fd \notin kernel
         \/ ctrl[fd] = "none" /\ local[fd] = "add" /\ fd \notin kernel
         \/ ctrl[fd] = "none" /\ local[fd] = "none" /\ fd \in kernel
    ELSE \/ ctrl[fd] = "del" /\ local[fd] \in {"none", "add"}
         \/ ctrl[fd] = "none" /\ local[fd] = "del"
         \/ Untouched(fd)

\* A client that has called Register for fd and not yet entered poll_mutex_.
Pending(c, fd) == cpc[c] = "register" /\ cfd[c] = fd

OneCall(fd) ==
    /\ registers[fd] = 0 => \A c \in Clients : ~Pending(c, fd)
    /\ \A c, d \in Clients : Pending(c, fd) /\ Pending(d, fd) => c = d

FreshUntouched(fd) ==
    registers[fd] = 0 \/ (\E c \in Clients : Pending(c, fd)) => Untouched(fd)

SyncInv ==
    /\ tpc \notin {"ctl", "done"} => local = Nothing
    /\ spc # "out" => isShutdown
    /\ \A fd \in Fds : OneCall(fd)
    /\ ~isShutdown => /\ \A fd \in AllFds : Agreed(fd)
                      /\ \A fd \in Fds : FreshUntouched(fd)

\* Steps that touch no change and no call.
LEMMA SyncFrame ==
  ASSUME SyncInv, UNCHANGED <<requests, ctrl, local, kernel, cfd, registers>>,
         tpc' \notin {"ctl", "done"} => local = Nothing,
         spc' # "out" => isShutdown', isShutdown => isShutdown',
         \A c \in Clients : cpc'[c] = cpc[c] \/ (cpc[c] # "register" /\ cpc'[c] # "register")
  PROVE  SyncInv'
<1>1. \A c \in Clients, fd \in Fds : Pending(c, fd)' <=> Pending(c, fd)
  BY DEF Pending
<1>2. \A fd \in Fds : OneCall(fd)'
  BY <1>1 DEF SyncInv, OneCall
<1>3. \A fd \in AllFds : Agreed(fd) => Agreed(fd)'
  BY DEF Agreed, Untouched
<1>4. \A fd \in Fds : FreshUntouched(fd) => FreshUntouched(fd)'
  BY <1>1 DEF FreshUntouched, Untouched
<1> QED
  BY <1>2, <1>3, <1>4 DEF SyncInv

\* Every step preserves it, if Register is called at most once for each fd.
LEMMA SyncInductive ==
  ASSUME MaxRegisters <= 1, SyncType, SyncInv, [Next]_vars
  PROVE  SyncInv'
<1> USE PollerAssumption
<1>1. ASSUME NEW c \in Clients, NEW f \in Fds, NEW op \in {"register", "unregister"}, Call(c, f, op)
      PROVE  SyncInv'
  <2>1. /\ cpc[c] = "out" /\ ~isShutdown
        /\ op = "register" => registers[f] = 0
        /\ UNCHANGED <<requests, ctrl, local, kernel, tpc, spc, isShutdown>>
        /\ \A d \in Clients : d # c => cpc'[d] = cpc[d] /\ cfd'[d] = cfd[d]
        /\ cpc'[c] = op /\ cfd'[c] = f
        /\ \A fd \in Fds : fd # f => registers'[fd] = registers[fd]
        /\ registers'[f] = IF op = "register" THEN registers[f] + 1 ELSE registers[f]
        /\ registers[f] \in Nat
    BY <1>1 DEF Call, SyncType, threadVars
  <2>2. \A d \in Clients, fd \in Fds :
           Pending(d, fd)' => Pending(d, fd) \/ (d = c /\ fd = f /\ op = "register")
    BY <2>1 DEF Pending
  <2>3. \A fd \in Fds : OneCall(fd)'
    BY <2>1, <2>2 DEF SyncInv, OneCall
  <2>4. \A fd \in Fds : FreshUntouched(fd)'
    BY <2>1, <2>2 DEF SyncInv, FreshUntouched, Untouched
  <2>5. \A fd \in AllFds : Agreed(fd)'
    BY <2>1 DEF SyncInv, Agreed, Untouched
  <2> QED
    BY <2>1, <2>3, <2>4, <2>5 DEF SyncInv
<1>2. ASSUME NEW c \in Clients, NEW ms \in Timeouts, Register(c, ms) PROVE SyncInv'
  <2>0. PICK f \in AllFds : f = cfd[c]
    BY DEF SyncType
  <2>1. /\ Pending(c, f) /\ f \in Fds
        /\ ctrl' = [ctrl EXCEPT ![f] = IF f \in requests THEN "mod" ELSE "add"]
        /\ requests' = requests \cup {f}
        /\ UNCHANGED <<local, kernel, tpc, spc, isShutdown, cfd, registers>>
        /\ cpc' = [cpc EXCEPT ![c] = "notify"]
    BY <1>2, <2>0 DEF Register, SyncType, threadVars, Pending
  <2>2. /\ ~Pending(c, f)'
        /\ \A d \in Clients, fd \in Fds : Pending(d, fd)' => Pending(d, fd) /\ d # c
    BY <2>1 DEF Pending, SyncType
  <2>3. \A fd \in Fds : OneCall(fd)'
    BY <2>1, <2>2 DEF SyncInv, OneCall
  <2>4. registers[f] # 0 /\ \A d \in Clients : ~Pending(d, f)'
    BY <2>1, <2>2 DEF SyncInv, OneCall
  <2>5. ASSUME ~isShutdown PROVE \A fd \in AllFds : Agreed(fd)'
    <3>1. Untouched(f)
      BY <2>1, <2>5 DEF SyncInv, FreshUntouched
    <3>2. Agreed(f)'
      BY <2>1, <3>1 DEF Untouched, Agreed, SyncType, AllFds
    <3>3. \A fd \in AllFds : fd # f => Agreed(fd)'
      BY <2>1, <2>5 DEF SyncInv, Agreed, Untouched, SyncType
    <3> QED
      BY <3>2, <3>3
  <2>6. ASSUME ~isShutdown PROVE \A fd \in Fds : FreshUntouched(fd)'
    <3>1. \A fd \in Fds : fd # f => (Untouched(fd) => Untouched(fd)')
      BY <2>1 DEF Untouched, SyncType, AllFds
    <3> QED
      BY <2>1, <2>2, <2>4, <2>6, <3>1 DEF SyncInv, FreshUntouched
  <2> QED
    BY <2>1, <2>3, <2>5, <2>6 DEF SyncInv
<1>3. ASSUME NEW c \in Clients, Unregister(c) PROVE SyncInv'
  <2> DEFINE f == cfd[c]
  <2>1. /\ cpc[c] = "unregister" /\ f \in Fds
        /\ \A d \in Clients : cpc'[d] = cpc[d] \/ (cpc[d] # "register" /\ cpc'[d] # "register")
        /\ UNCHANGED <<local, kernel, tpc, spc, isShutdown, cfd, registers>>
    BY <1>3 DEF Unregister, SyncType, threadVars
  <2>2. CASE UNCHANGED <<requests, ctrl>>
    BY <2>1, <2>2, SyncFrame DEF SyncInv
  <2>3. CASE /\ f \in requests /\ requests' = requests \ {f}
             /\ ctrl' = [ctrl EXCEPT ![f] = "del"]
    <3>1. \A d \in Clients, fd \in Fds : Pending(d, fd)' <=> Pending(d, fd)
      BY <2>1, SMTT(30) DEF Pending
    <3>2. \A fd \in Fds : OneCall(fd)'
      BY <2>1, <3>1 DEF SyncInv, OneCall
    <3>3. ~Untouched(f)
      BY <2>3 DEF Untouched
    <3>4. \A fd \in AllFds : Untouched(fd) => Untouched(fd)'
      BY <2>1, <2>3 DEF Untouched, SyncType
    <3>5. ASSUME ~isShutdown, NEW fd \in AllFds PROVE Agreed(fd)'
      <4>1. Agreed(fd)
        BY <3>5 DEF SyncInv
      <4>2. CASE fd = f
        BY <2>1, <2>3, <4>1, <4>2 DEF Agreed, SyncType
      <4>3. CASE fd # f
        BY <2>1, <2>3, <4>1, <4>3 DEF Agreed, SyncType, Untouched
      <4> QED
        BY <4>2, <4>3
    <3>6. ASSUME ~isShutdown, NEW fd \in Fds PROVE FreshUntouched(fd)'
      BY <2>1, <3>1, <3>4, <3>6 DEF SyncInv, FreshUntouched, AllFds
    <3> QED
      BY <2>1, <3>2, <3>5, <3>6 DEF SyncInv
  <2> QED
    BY <1>3, <2>2, <2>3 DEF Unregister
<1>4. ASSUME NEW c \in Clients, Notify(c) \/ NotifyReturn(c) PROVE SyncInv'
  <2>1. /\ UNCHANGED <<requests, ctrl, local, kernel, cfd, registers, tpc, spc, isShutdown>>
        /\ \A d \in Clients : cpc'[d] = cpc[d] \/ (cpc[d] # "register" /\ cpc'[d] # "register")
    BY <1>4 DEF Notify, NotifyReturn, SyncType, threadVars
  <2> QED
    BY <2>1, SyncFrame DEF SyncInv
<1>5. CASE TestAndSwap
  <2>1. /\ tpc = "test" /\ local = Nothing
        /\ UNCHANGED <<requests, kernel, cfd, cpc, registers, spc, isShutdown>>
    BY <1>5 DEF TestAndSwap, clientVars, SyncInv
  <2>2. CASE isShutdown /\ tpc' = "done" /\ UNCHANGED <<ctrl, local>>
    BY <2>1, <2>2, SyncFrame DEF SyncInv
  <2>3. CASE ~isShutdown /\ local' = ctrl /\ ctrl' = Nothing /\ tpc' = "ctl"
    <3>1. \A fd \in AllFds : local[fd] = "none" /\ ctrl'[fd] = "none" /\ local'[fd] = ctrl[fd]
      BY <2>1, <2>3 DEF Nothing
    <3>2. \A fd \in AllFds : Agreed(fd)'
      BY <2>1, <2>3, <3>1, SMTT(30) DEF SyncInv, Agreed, Untouched
    <3>3. \A fd \in Fds : OneCall(fd)' /\ FreshUntouched(fd)'
      BY <2>1, <2>3, <3>1 DEF SyncInv, OneCall, FreshUntouched, Pending, Untouched, AllFds
    <3> QED
      BY <2>1, <2>3, <3>2, <3>3 DEF SyncInv
  <2> QED
    BY <1>5, <2>2, <2>3 DEF TestAndSwap
<1>6. ASSUME NEW f \in AllFds, EpollCtl(f) PROVE SyncInv'
  <2>1. /\ tpc = "ctl" /\ local[f] # "none"
        /\ local'[f] = "none" /\ \A fd \in AllFds : fd # f => local'[fd] = local[fd]
        /\ \A fd \in AllFds : fd # f => (fd \in kernel' <=> fd \in kernel)
        /\ local[f] = "add" => f \in kernel'
        /\ local[f] = "del" => f \notin kernel'
        /\ UNCHANGED <<requests, ctrl, cfd, cpc, registers, spc, isShutdown, tpc>>
    BY <1>6 DEF EpollCtl, clientVars, SyncType
  <2>2. \A fd \in AllFds : Agreed(fd) => Agreed(fd)'
    BY <2>1 DEF Agreed, Untouched
  <2>3. \A fd \in Fds : OneCall(fd)' /\ (FreshUntouched(fd) => FreshUntouched(fd)')
    BY <2>1 DEF SyncInv, OneCall, FreshUntouched, Pending, Untouched, AllFds
  <2> QED
    BY <2>1, <2>2, <2>3 DEF SyncInv
<1>7. CASE BeginPoll \/ Collect \/ EndPoll \/ ShutdownFlag \/ UNCHANGED vars
  <2>1. /\ UNCHANGED <<requests, ctrl, local, kernel, cfd, cpc, registers>>
        /\ tpc' \notin {"ctl", "done"} => local = Nothing
        /\ spc' # "out" => isShutdown'
        /\ isShutdown => isShutdown'
    BY <1>7 DEF BeginPoll, Collect, EndPoll, ShutdownFlag, vars, clientVars, threadVars, SyncInv
  <2> QED
    BY <2>1, SyncFrame
<1>8. ASSUME NEW ms \in 1 .. MaxInterval, EpollWait(ms) PROVE SyncInv'
  BY <1>8, SyncFrame DEF EpollWait, clientVars, SyncInv
<1>9. ASSUME NEW f \in AllFds, Respond(f) PROVE SyncInv'
  BY <1>9, SyncFrame, SMTT(30) DEF Respond, clientVars, SyncInv
<1>10. CASE Clear
  <2>1. spc = "joining" /\ isShutdown /\ UNCHANGED <<isShutdown, tpc, local, cpc, cfd, registers>>
    BY <1>10 DEF Clear, SyncInv, clientVars, threadVars
  <2> QED
    BY <2>1 DEF SyncInv, OneCall, Pending
<1>11. ASSUME NEW f \in Fds, Arrive(f) PROVE SyncInv'
  BY <1>11, SyncFrame DEF Arrive, clientVars, threadVars, SyncInv
<1> QED
  BY <1>1, <1>2, <1>3, <1>4, <1>5, <1>6, <1>7, <1>8, <1>9, <1>10, <1>11
     DEF Next, ClientStep, ThreadStep

(***************************************************************************)
(* If no fd is registered twice, epoll watches exactly the fds that have a *)
(* request whenever no change for them is under way, for any number of     *)
(* clients and fds.                                                        *)
(***************************************************************************)
THEOREM RequestsInSync == MaxRegisters <= 1 /\ SafeSpec => []InSync
<1>1. Init => SyncInv
  <2> SUFFICES ASSUME Init PROVE SyncInv
    OBVIOUS
  <2>1. /\ \A fd \in AllFds : ctrl[fd] = IF fd = PipeFd THEN "add" ELSE "none"
        /\ \A fd \in AllFds : local[fd] = "none"
    BY DEF Init, Nothing, AllFds
  <2>2. \A fd \in AllFds : Agreed(fd)
    BY <2>1 DEF Init, Agreed, Untouched
  <2>3. \A fd \in Fds : OneCall(fd) /\ FreshUntouched(fd)
    BY <2>1, PollerAssumption, SMTT(30) DEF Init, OneCall, FreshUntouched, Pending, Untouched, AllFds
  <2> QED
    BY <2>2, <2>3 DEF Init, SyncInv
<1>2. SyncInv => InSync
  BY DEF SyncInv, InSync, Agreed, Untouched
<1>3. MaxRegisters <= 1 /\ SyncType /\ SyncInv /\ [Next]_vars => SyncInv'
  BY SyncInductive
<1>4. SyncType /\ [Next]_vars => SyncType'
  BY SyncTypeInductive
<1> SUFFICES ASSUME MaxRegisters <= 1 PROVE SafeSpec => []InSync
  OBVIOUS
<1>5. SyncType /\ SyncInv /\ [Next]_vars => SyncInv'
  BY <1>3
<1> QED
  BY <1>1, <1>2, <1>4, <1>5, SyncTypeInit, PTL DEF SafeSpec

-----------------------------------------------------------------------------
(***************************************************************************)
(* TypeOK: beyond the types, edge-triggered readiness is only remembered   *)
(* for fds in the interest list, and the timeouts that Register, Collect   *)
(* and the callbacks write never make epoll_wait wait for ever or longer   *)
(* than kPollTimeoutMs.                                                    *)
(***************************************************************************)
\* A set of naturals has a least member.
LEMMA LeastExists ==
  ASSUME NEW S \in SUBSET Nat, S # {}
  PROVE  \E m \in S : \A k \in S : m <= k
<1> DEFINE R == {s \in Nat \X Nat : s[1] < s[2]}
<1>1. IsWellFoundedOn(R, Nat)
  BY NatLessThanWellFounded DEF OpToRel
<1> HIDE DEF R
<1>2. PICK m \in S : \A k \in S : <<k, m>> \notin R
  BY <1>1, WFMin, Zenon
<1>3. \A k \in S : ~(k < m)
  BY <1>2, Zenon DEF R
<1> QED
  BY <1>3

\* What the poller thread computes with.
WaitType ==
    /\ timeout \in [AllFds -> Int] /\ \A fd \in AllFds : timeout[fd] >= -1
    /\ edge \subseteq kernel
    /\ tpc \in {"test", "ctl", "wait", "collect", "respond", "done"}
    /\ wait \in 0 .. PollTimeout
    /\ evt \subseteq AllFds
    /\ interval \in 1 .. MaxInterval
    /\ responses \in [AllFds -> {"none", "timeout", "ready"}]

\* The rest, which others write too.
SharedType ==
    /\ avail \in [Fds -> 0 .. MaxData]
    /\ pipe \in BOOLEAN
    /\ pipeLock \in Clients \cup {NoClient}
    /\ isShutdown \in BOOLEAN
    /\ spc \in {"out", "joining", "returned"}
    /\ registers \in [Fds -> 0 .. MaxRegisters]

\* GetTimeoutMs is a time epoll_wait can wait, at most kPollTimeoutMs.
LEMMA TimeoutRange ==
  ASSUME SyncType, WaitType
  PROVE  GetTimeoutMs \in 0 .. PollTimeout
<1> DEFINE due == {PollTimeout} \cup {timeout[fd] : fd \in {r \in requests : timeout[r] >= 0}}
<1>1. PollTimeout \in Nat /\ PollTimeout \in due
  BY PollerAssumption
<1>2. due \in SUBSET Nat
  BY <1>1 DEF SyncType, WaitType
<1> HIDE DEF due
<1>3. \E t \in due : \A u \in due : t <= u
  BY <1>1, <1>2, LeastExists
<1>4. GetTimeoutMs = CHOOSE t \in due : \A u \in due : t <= u
  BY DEF GetTimeoutMs, due
<1>5. GetTimeoutMs \in due /\ \A u \in due : GetTimeoutMs <= u
  BY <1>3, <1>4, Zenon
<1> QED
  BY <1>1, <1>2, <1>5

\* Steps that leave the thread's part alone.
LEMMA WaitFrame ==
  ASSUME WaitType, UNCHANGED <<timeout, edge, kernel, wait, evt, interval, responses>>,
         tpc' \in {"test", "ctl", "wait", "collect", "respond", "done"}
  PROVE  WaitType'
BY DEF WaitType

\* Every step keeps the thread's part.
LEMMA WaitTypeInductive ==
  ASSUME SyncType, WaitType, [Next]_vars
  PROVE  WaitType'
<1> USE PollerAssumption
<1>0. /\ timeout \in [AllFds -> Int] /\ \A fd \in AllFds : timeout[fd] >= -1
      /\ tpc \in {"test", "ctl", "wait", "collect", "respond", "done"}
      /\ responses \in [AllFds -> {"none", "timeout", "ready"}]
      /\ edge \subseteq kernel /\ kernel \subseteq AllFds /\ interval \in 1 .. MaxInterval
      /\ \A c \in Clients : cfd[c] \in AllFds
  BY DEF WaitType, SyncType
<1>1. ASSUME NEW c \in Clients, NEW fd \in Fds, NEW op \in {"register", "unregister"},
             Call(c, fd, op)
      PROVE  WaitType'
  BY <1>0, <1>1, WaitFrame DEF Call, threadVars
<1>2. ASSUME NEW c \in Clients, NEW ms \in Timeouts, Register(c, ms) PROVE WaitType'
  <2>1. /\ timeout' = [timeout EXCEPT ![cfd[c]] = ms] /\ ms \in Int /\ ms >= -1
        /\ UNCHANGED <<edge, kernel, tpc, wait, evt, interval, responses>>
    BY <1>2 DEF Register, threadVars
  <2>2. timeout' \in [AllFds -> Int] /\ \A fd \in AllFds : timeout'[fd] >= -1
    BY <1>0, <2>1
  <2> QED
    BY <2>1, <2>2 DEF WaitType
<1>3. ASSUME NEW c \in Clients, Unregister(c) PROVE WaitType'
  <2>1. /\ timeout' \in {timeout, [timeout EXCEPT ![cfd[c]] = -1]}
        /\ UNCHANGED <<edge, kernel, tpc, wait, evt, interval, responses>>
    BY <1>3 DEF Unregister, threadVars
  <2>2. timeout' \in [AllFds -> Int] /\ \A fd \in AllFds : timeout'[fd] >= -1
    BY <1>0, <2>1
  <2> QED
    BY <2>1, <2>2 DEF WaitType
<1>4. ASSUME NEW c \in Clients, Notify(c) \/ NotifyReturn(c) PROVE WaitType'
  BY <1>0, <1>4, WaitFrame DEF Notify, NotifyReturn, threadVars
<1>5. CASE TestAndSwap \/ EndPoll
  BY <1>0, <1>5, WaitFrame DEF TestAndSwap, EndPoll, threadVars
<1>6. ASSUME NEW fd \in AllFds, EpollCtl(fd) PROVE WaitType'
  <2>1. UNCHANGED <<timeout, tpc, wait, evt, interval, responses>>
    BY <1>6 DEF EpollCtl
  <2>2. edge' \subseteq kernel'
    BY <1>0, <1>6 DEF EpollCtl, SyncType, Ops
  <2> QED
    BY <2>1, <2>2 DEF WaitType
<1>7. CASE BeginPoll
  <2>1. /\ wait' \in 0 .. PollTimeout /\ tpc' = "wait"
        /\ UNCHANGED <<timeout, edge, kernel, evt, interval, responses>>
    BY <1>7, TimeoutRange DEF BeginPoll
  <2> QED
    BY <2>1 DEF WaitType
<1>8. ASSUME NEW ms \in 1 .. MaxInterval, EpollWait(ms) PROVE WaitType'
  <2>1. /\ edge' = {} /\ interval' = ms /\ tpc' = "collect" /\ evt' = Ready
        /\ UNCHANGED <<timeout, kernel, wait, responses>>
    BY <1>8 DEF EpollWait
  <2>2. Ready \subseteq AllFds
    BY <1>0 DEF Ready
  <2> QED
    BY <2>1, <2>2 DEF WaitType
<1>9. CASE Collect
  <2> DEFINE counted == {fd \in requests : ctrl[fd] = "none"}
             expired == {fd \in counted : Left(fd) = 0}
  <2>1. \A fd \in AllFds : Left(fd) \in Int /\ Left(fd) >= -1
    BY <1>0 DEF Left
  <2>2. timeout' = [fd \in AllFds |-> IF fd \in expired THEN -1
                                      ELSE IF fd \in counted THEN Left(fd) ELSE timeout[fd]]
    BY <1>9 DEF Collect
  <2>3. responses' = [fd \in AllFds |-> Merged(fd, expired)]
    BY <1>9 DEF Collect
  <2>4. /\ evt' = {} /\ interval' = 1 /\ wait' = 0 /\ tpc' = "respond" /\ UNCHANGED <<edge, kernel>>
    BY <1>9 DEF Collect
  <2> HIDE DEF counted, expired
  <2>5. timeout' \in [AllFds -> Int] /\ \A fd \in AllFds : timeout'[fd] >= -1
    BY <1>0, <2>1, <2>2
  <2>6. responses' \in [AllFds -> {"none", "timeout", "ready"}]
    BY <2>3 DEF Merged
  <2> QED
    BY <1>0, <2>4, <2>5, <2>6 DEF WaitType
<1>10. ASSUME NEW fd \in AllFds, Respond(fd) PROVE WaitType'
  <2>1. /\ timeout' \in {timeout, [timeout EXCEPT ![fd] = -1]}
        /\ responses' = [responses EXCEPT ![fd] = "none"]
        /\ UNCHANGED <<edge, kernel, tpc, wait, evt, interval>>
    BY <1>10 DEF Respond
  <2>2. timeout' \in [AllFds -> Int] /\ \A f \in AllFds : timeout'[f] >= -1
    BY <1>0, <2>1
  <2> QED
    BY <1>0, <2>1, <2>2, Zenon DEF WaitType
<1>11. CASE ShutdownFlag \/ UNCHANGED vars
  BY <1>0, <1>11, WaitFrame DEF ShutdownFlag, vars, threadVars
<1>12. CASE Clear
  BY <1>12 DEF Clear, WaitType, threadVars
<1>13. ASSUME NEW fd \in Fds, Arrive(fd) PROVE WaitType'
  <2>1. edge' \subseteq kernel' /\ UNCHANGED <<timeout, tpc, wait, evt, interval, responses>>
    BY <1>0, <1>13 DEF Arrive, threadVars
  <2> QED
    BY <2>1 DEF WaitType
<1> QED
  BY <1>1, <1>2, <1>3, <1>4, <1>5, <1>6, <1>7, <1>8, <1>9, <1>10, <1>11, <1>12, <1>13
     DEF Next, ClientStep, ThreadStep

\* Steps that leave the shared part alone.
LEMMA SharedFrame ==
  ASSUME SharedType, UNCHANGED <<avail, pipe, pipeLock, isShutdown, spc, registers>>
  PROVE  SharedType'
BY Zenon DEF SharedType

\* Every step keeps the shared part.
LEMMA SharedTypeInductive ==
  ASSUME SyncType, SharedType, [Next]_vars
  PROVE  SharedType'
<1> USE PollerAssumption
<1>0. avail \in [Fds -> 0 .. MaxData] /\ registers \in [Fds -> 0 .. MaxRegisters]
  BY DEF SharedType
<1>1. ASSUME NEW c \in Clients, NEW fd \in Fds, NEW op \in {"register", "unregister"},
             Call(c, fd, op)
      PROVE  SharedType'
  <2>1. registers' \in [Fds -> 0 .. MaxRegisters]
    BY <1>0, <1>1 DEF Call
  <2> QED
    BY <1>1, <2>1, Zenon DEF Call, SharedType
<1>2. ASSUME NEW c \in Clients, NEW ms \in Timeouts, Register(c, ms) PROVE SharedType'
  BY <1>2, SharedFrame DEF Register
<1>3. ASSUME NEW c \in Clients, Unregister(c) PROVE SharedType'
  BY <1>3, SharedFrame DEF Unregister
<1>4. ASSUME NEW c \in Clients, Notify(c) PROVE SharedType'
  <2>1. pipe' \in BOOLEAN /\ pipeLock' \in Clients \cup {NoClient}
    BY <1>4, Zenon DEF Notify, SharedType
  <2> QED
    BY <1>4, <2>1, Zenon DEF Notify, SharedType
<1>5. ASSUME NEW c \in Clients, NotifyReturn(c) PROVE SharedType'
  BY <1>5, Zenon DEF NotifyReturn, SharedType
<1>6. CASE TestAndSwap \/ BeginPoll \/ Collect \/ EndPoll \/ UNCHANGED vars
  BY <1>6, SharedFrame, Zenon DEF TestAndSwap, BeginPoll, Collect, EndPoll, vars, clientVars
<1>7. ASSUME NEW fd \in AllFds, EpollCtl(fd) PROVE SharedType'
  BY <1>7, SharedFrame DEF EpollCtl, clientVars
<1>8. ASSUME NEW ms \in 1 .. MaxInterval, EpollWait(ms) PROVE SharedType'
  BY <1>8, SharedFrame DEF EpollWait, clientVars
<1>9. ASSUME NEW fd \in AllFds, Respond(fd) PROVE SharedType'
  <2>1. avail' \in [Fds -> 0 .. MaxData]
    BY <1>0, <1>9 DEF Respond, Drained
  <2>2. pipe' \in BOOLEAN
    BY <1>9, Zenon DEF Respond
  <2> QED
    BY <1>9, <2>1, <2>2, Zenon DEF Respond, SharedType, clientVars
<1>10. CASE ShutdownFlag
  BY <1>10, Zenon DEF ShutdownFlag, SharedType, clientVars
<1>11. CASE Clear
  BY <1>11, Zenon DEF Clear, SharedType, clientVars
<1>12. ASSUME NEW fd \in Fds, Arrive(fd) PROVE SharedType'
  <2>1. avail' \in [Fds -> 0 .. MaxData]
    BY <1>0, <1>12 DEF Arrive
  <2> QED
    BY <1>12, <2>1, Zenon DEF Arrive, SharedType, clientVars
<1> QED
  BY <1>1, <1>2, <1>3, <1>4, <1>5, <1>6, <1>7, <1>8, <1>9, <1>10, <1>11, <1>12
     DEF Next, ClientStep, ThreadStep

(***************************************************************************)
(* The type invariant, for any clients, fds and timeouts: an edge is only  *)
(* pending for an fd that epoll watches, and epoll_wait is given a time    *)
(* from 0 to kPollTimeoutMs, whatever the requests ask for.                *)
(***************************************************************************)
THEOREM PollerTypes == SafeSpec => []TypeOK
<1>1. Init => WaitType /\ SharedType
  <2> SUFFICES ASSUME Init PROVE WaitType /\ SharedType
    OBVIOUS
  <2>1. /\ timeout \in [AllFds -> Int] /\ \A fd \in AllFds : timeout[fd] >= -1
        /\ avail \in [Fds -> 0 .. MaxData] /\ registers \in [Fds -> 0 .. MaxRegisters]
        /\ wait \in 0 .. PollTimeout /\ interval \in 1 .. MaxInterval
        /\ responses \in [AllFds -> {"none", "timeout", "ready"}]
    BY PollerAssumption DEF Init, Nothing
  <2> QED
    BY <2>1, Zenon DEF Init, WaitType, SharedType
<1>2. SyncType /\ WaitType /\ [Next]_vars => WaitType'
  BY WaitTypeInductive
<1>3. SyncType /\ SharedType /\ [Next]_vars => SharedType'
  BY SharedTypeInductive
<1>4. SyncType /\ WaitType /\ SharedType => TypeOK
  BY Zenon DEF SyncType, WaitType, SharedType, TypeOK
<1> QED
  BY <1>1, <1>2, <1>3, <1>4, SyncTypeInit, SyncTypeInductive, PTL DEF SafeSpec

===============================================================================
