# A TLA+ model of the services framework

The framework connects *nodes* by *channels* and runs them in threads. A node
reads messages from its IN channels, handles them and dispatches them to its OUT
channels; duplex nodes (Tun, Udp) also stand at a file descriptor that one
poller thread watches. Line numbers below are those of the files under `src/src`.

## The system's parts and where they are modelled

| part | code | module |
|---|---|---|
| blocking queue | `include/queue.h` | `Queue`, abstractly `BoundedFifo` |
| channels, nodes at work, `Shutdown` | `util/channel.h`, `node.h`, `node_duplex.h`, `node_manager.h` | `Services` |
| building and running a topology | `util/node_manager.h`, `node.h`, `node_duplex.h` | `Topology` |
| timers | `util/timer.h`, `timer.cc` | `TimerManager` |
| poller | `io/poller.cpp`, `poller.h`, `poll_data.h` | `Poller` |
| encoder, tun, udp nodes | `util/node_encoder.h`, `node_tun.cc`, `node_udp.cc` | as relay and duplex nodes of `Services`; Tun's filter and split of frames in `BaseMsg` |
| collector node | `util/node_collector.h`, `node_collector.cc` | `Collector`, composed with `TimerManager` |
| messages | `include/msg.h`, `util/net_msg.cpp` | `BaseMsg` (lengths and frames) |
| settings | `util/settings.h`, `settings.cpp` | `Settings` |
| file, time, string, uuid, macro and logging helpers | `util/file.cc`, `timetool.cc`, ... | no: I/O or stateless |

They build on each other. `Queue` is shown to implement `BoundedFifo`, and
`Services` and `TimerManager` use a queue with exactly the behaviour of
`BoundedFifo`: a call made before the break may still succeed, a call made later
fails at once. `Services` takes the wiring as a constant; `Topology` shows
what wirings `Connect` makes and which channel each worker reads. The poller thread
is a *feeder* of `Services`; `Poller` says when it reads. `Collector` contains an
instance of `TimerManager`, whose timers are its nexthops, whose clients are its workers and
whose handler is its own.

### Queue and BoundedFifo

`pool_` is guarded by `Queue::mutex_`, the condition variable by another mutex.
So each unlocked read is a step: the test of `break_all_wait_` (`TestBreak`), the
locked attempt (`Enqueue`, `Dequeue`), the entry to `wait_for` (`Park`), its end
(`WaitForTimeout`, or a notification). A notification between a failed
attempt and `Park` is lost, as in the code. `~Queue` runs when nobody is inside
(the last `shared_ptr` is gone). History variables record what was pushed, popped,
refused and dropped. `BoundedFifo` has no locks and no waiting.

### Services

Workers run `DoWork`: `Start` is `IncThreads`, `Loop` the test of `is_stop_`, `Read`
and `Write` the channel calls, `HandleMsg`, `HandleSignal`, `HandleWritting` the
handlers. `FDRecv` brings a message in. `Shutdown`, `StopNode`, `BreakAllWait` and
`Join` are the steps of `NodeManager::Shutdown`; the channels of a node are broken
one after the other while everything else runs. `WriteMessage` ignores a
refusal; the history variable `dropped` records it. `is_stop_` is a plain `bool`: the loop calls a
`std::function`, so it is read anew each time and the model reads its value.
Encoding is a library outside the repository: the encoder passes on one message for each it
handles. `delivered` is what was handed to `FDWrite`, whose result the code ignores.

### Topology

The application calls `Connect`, `RunAsThreads` and `Shutdown` in any order but one: a node
whose workers were started is not connected again. The code does not refuse that call, but it
would append to the channel lists while the workers read them. Workers start (`IncThreads`) and
leave beside it. The reversed channel lists of
duplex nodes (`Side`), the order of the tests in `RunAsThreads` and the flags that
survive a `Shutdown` are kept. An exception leaves the state as it
was, except for a node without channels, which stays listed.

### TimerManager

The tick thread (`TickTest` .. `EndScan`) holds `mutex_` through a scan and
waits for room in the queue with the timer's own mutex too; the pool thread
(`WorkTest`, `WorkDequeue`, `Handler`) runs handlers, which may add or cancel
their timer. Sums are modulo `Wrap`. `timers_` is kept as a count per
timer; the order of a scan is left open.

### Poller

Every section under `poll_mutex_` is one step. epoll, the pipe and the fds are
external: edge-triggered for the clients' fds, level-triggered for the pipe, a failed
`epoll_ctl` changes nothing. The callback is that of `RegisterToPoller`. A callback
that calls `Register` is left out: `poll_mutex_` is not recursive.

### BaseMsg and Collector

`BaseMsg` has the messages' lengths: the vector's size and capacity, `curr_`, `tail_` and the
frames filled in; `Resize`, `ReserveHeader`, `Fill`, and the loop in which `Tun::FDWrite`
finds the frames again (`NextFrame`, `FDWrite`). Bytes are left out. Sums, concatenations and
that loop are folds; `Fold` is a recursive function, so that they can be reasoned about.

In `Collector` a worker routes a packet (`HandleMsg`) and puts it into the
buffer of its nexthop (`GatherKnown`); the first packet of a nexthop makes the buffer and
its timer, `AddTimer` being called with the collector's `mutex_` held (`GetBatsBuffer`,
`GatherNew`). `BufferingData` and `ForceRelayData` are operators on a buffer. The pool thread of
the timer service relays a buffer that waited too long (`HandleTimeoutBuffer`).
`Dispatch` runs in either thread without a lock: it sorts the channels on its first
calls (`DispatchEnter`, `SortChannel`; of two racing `push_back`s one may be lost) and
writes (`DispatchWrite`). `Stop` breaks the channels; `StopStep` is the
destructor, which stops the timer service. `RouteTable`, `FlowRecoder` and `BatsBuffer` are not
in the repository: routes are a constant, what the recorder decides is left open, and a
`BatsBuffer` numbers its buffers.

### Settings

The file is a sequence of header and entry lines, a name the sequence of its pieces, dots
included. `setValue` is `ReadFile`, `Truncate` (opening the stream) and `WriteFile`
(`write_ini` and the close); other writers and a crash come between. A text written over
another may leave any remainder of it behind (`Remainders`), a cut entry included. `split`,
`read_ini`, `write_ini` and `getValue` are operators. A value is what the word-wise
conversion leaves of it (`Word`).

## Runs

"pass" runs find no error; each "violation" run checks one sentence of a
comment or a test against the code and finds it wrong.

| run | instance | shows |
|---|---|---|
| `queue` | 2 writers, 2 readers, 3 elements, capacity 2 | first in first out, exact results, frozen after a break, elements are taken in spite of lost wakeups, and `Queue` implements `BoundedFifo` with its fairness, so that a break releases everyone |
| `pipe` | tun, encoder with 2 threads, udp; 3 messages, capacity 1, 2 callers of Shutdown | every message is in one place, none is dropped before Shutdown, flows keep their order, nothing runs when a Shutdown has released the topology |
| `signal_chain` | source, 2 relays, udp; a message and a stop signal; 1 caller of Shutdown | Shutdown returns and releases the thread that feeds the chain; the signal stops every relay, after what was before it is delivered |
| `sink_stop` | source and sink | violation: Shutdown stops no sink and never returns (node_manager.h:45) |
| `topology` | 2 relays of one name and a duplex node, 3 Connects, 3 threads | connections carry messages and do not leak, workers serve the channels in proportion to their places in the list, a name runs once |
| `timer` | a periodic, a oneshot and a refused timer, handlers that cancel and re-add, a wrap every third tick | timers are never overdue, oneshots expire once, cancelled ones never again; every timer expires, every expiry is handled and every cancelled timer is erased, unless a handler holds up the tick thread; Stop returns even then |
| `poller` | 2 clients, 1 fd, registered once | epoll and the requests agree, no read after Unregister, data is read, changes are handled, Shutdown returns |
| `poller_register_twice` | 1 client, 1 fd, twice | violation: the fd is never watched (poller_test.cpp:65) |
| `settings` | 2 writers, 4 names, 3 values, 3 calls | what a call wrote reads back, a call with a proper name that nobody interferes with changes nothing else, no entry strays to another section |
| `collector` | 1 worker, 5 packets of all kinds, 2 nexthops, an encoder and a UDP channel | no packet is lost, doubled or out of order in the numbered buffers, buffers are cut to size and go to the right channel, Tun finds the frames again, and only the circular wait of `collector_deadlock` holds packets or the release up |
| `collector_udp_first` | the same, with the UDP channel before the encoder | violation: a coded buffer finds no encoder (node_collector.cc:188) |
| `collector_deadlock` | 1 worker, 2 packets, 2 nexthops | violation: gathered packets are never relayed (node_collector.h:28, :50) |

The repository has no sink class; `sink_stop` takes one that clears `is_stop_` when it
is made, as Encoder, Collector, Tun and Udp do.

Reading the code for the models also showed the following, which no
violation run is about (where a property states it, it is named):

* `WaitEnqueue` has no timeout: `EmptyWait` returns true after its 30ms too, so
  `// wait timeout` (queue.h:101) is dead and the comment at queue.h:91 does not hold.
* `RunAsThreads` accepts a node that has OUT channels only (node_manager.h:166); its
  worker fails the assertion at node.h:239 (`aborted` in `Topology`).
* `Verify` returns true (node_manager.h:178), against its comment at :75.
* `stop_` is never reset: what is run after a `Shutdown` is not released by the next.
* A timeout collected by `Poll` is answered under a second hold of `poll_mutex_`
  (poller.cpp:204-213); a registration renewed in between hears of the old timeout at once.
* A timer's handler that calls `AddTimer` or `CancelTimer` waits for the `mutex_` that the tick
  thread holds while it waits for room in the queue (timer.cc:88, :100): with a full
  queue both stop for good, until `Stop` breaks the queue. `timer` has such handlers; the state
  is `HeldUp`, and its liveness properties say that nothing else keeps a timer waiting.
* A node with fewer workers than places in its IN list leaves some of them unread (node.h:242);
  `Balanced` says how the workers are spread, and the application has to run enough of them.
* `RunAsThreads` lists a node before it refuses it for having no channels (node_manager.h:161), so a
  second call for it throws "Duplicate node!".
* A stop signal is read by one of several workers and passed to one of several channels
  (node.h:209); the others wait until `Shutdown`. `signal_chain` has one worker and one channel per relay.
* A cycle of relays whose channels are all full blocks; `Connect` accepts one (node_manager.h:78).
* `setValue` of a name without a section erases every setting sorted behind it
  (settings.cpp:126), although the comment at :124 speaks of the invalid entry only; `RoundTrip`
  is about calls with a proper name. Values are cut at white space, a blank one reads as
  the default, and `m..y` is stored as `m.y`. There is no lock: concurrent calls lose each
  other's values, and a crash between truncation and write loses the file. `getValue` of a missing
  name without a default returns an uninitialised value.
* The "buffer is full" branch of `BufferingData` fills the old buffer after making a new one
  (node_collector.cc:168). With the default sizes the branch is never taken.
* A packet that is a bare 20-byte header, at the end of an unpadded buffer of several, is
  dropped by `Tun::FDWrite` (node_tun.cc:115; `FramesRestored` states this exception).

**Bounds.** Capacities of 1 or 2 make queues full and empty all the time. In
`signal_chain` every channel holds one message, so that the feeder and each relay meet a full
channel. `timer` has one timer that expires with every tick and one after two ticks, and a
counter that wraps every third tick; a timer is in the list once at most. Its safety properties are proved for
any counter width (2^64 is no multiple of the resolution), periods and number of nodes in the list. `MaxListed` and `MaxCancels` stop counters that the code lets grow;
`MaxConnects`, `MaxThreads`, `MaxRegisters`, `MaxData` and `MaxCalls` bound what the environment
does. `poller` registers its fd once because `poller_register_twice` shows what happens otherwise.
`pipe` treats the two callers of Shutdown as interchangeable, and checks safety only.
In `settings` three calls suffice for two that overlap and a third that reads what they left.
In `collector` two packets of a nexthop exceed the threshold, and threshold plus packet
never exceeds the block, as with the code's 30000, 2048 and 65540; the five packets include one
without a route and one the filter drops, and `FramesRestored` also looks at padded
buffers. Its queue of expired timers holds one; the code's holds ten, so the circular wait
needs as many expiries in the queue there. With one worker, the races are those of the worker
with the pool thread and the tick thread.

**Type invariants** are checked for the queue, the timers and the poller, where they carry
bounds (capacity, the counter's width, the clamped wait). The other modules' properties fail on
any ill-typed state that matters to them, and have none.

**Deadlock** is not checked: elements, messages and calls run out in every instance,
and a system that has been shut down rests.

**Fairness** is weak fairness per thread: the scheduler runs a thread that can go on,
`wait_for` returns after 30ms, `epoll_wait` after its timeout, and a reader of a
queue comes back, because its loop does. Nobody has to send a message, add a
timer, register an fd or call a Shutdown. The collector's worker in `AddTimer` has
strong fairness, and so has the pool thread of `timer`, whose handlers take the same mutex: the
tick thread sleeps 5ms without it in each round. The violation
`collector_deadlock` does not rest on a worker that misses all these chances: in `PromptSpec`
the tick thread does not end its sleep before the worker has the free mutex, and the
counterexample is the state in which none of the three threads can move.

## Proofs

`QueueProofs`, for any threads, elements and capacity (assuming that the three kinds of
threads are disjoint, null is no element and the capacity is positive):

* `TypeCorrect`: types and the capacity bound.
* `QueueConservation`: what was pushed is what was popped, then what is in the pool, then what
  the destructor dropped. Not inductive alone; it needs `Lifecycle` (nothing is dropped
  while the queue lives, nobody is inside afterwards).
* `QueueExactOutcome`: pushed at most once, and never if refused. It needs
  `DistinctOffers` (no two writers offer the same element).
* `QueueFrozenAfterBreak`: the action property, from the type invariant.
* `QueueImplementsFifo`: the safety half of the refinement. Initial states map to initial
  states of `BoundedFifo`, and each step to one of its steps or a stutter: the lock steps, waits and
  notifications are invisible, the locked attempt is the step of the call. `ImplementsFifo`
  itself, with fairness, is checked by the run `queue`.

`TimerProofs`, for any timers, clients, queue size and counter width above the resolution:

* `TimerTypeCorrect`: types and the bound of the queue.
* `TimersNeverOverdue`: the equality test in `TimersTick` misses no expiry. The
  invariant `TimerInv` adds that only accepted timers are listed, so periods are multiples of the
  resolution, and that the timer being queued was restarted at this tick. The lemmas on
  `Plus` and `Minus` carry the argument across the wrap.
* `OneshotsExpireOnce`: `OnceInv` adds that a oneshot timer is marked as one wherever it is in
  use (listed, queued, being handled, about to be added), and that one that expired is cancelled.
* `CancelledNeverFires`: the action property; only a due timer expires, only what the scan took is
  queued, and `cancelled` is never reset.

`PollerProofs`, for any clients, fds, timeouts and data:

* `PollerTypes`: types; beyond them, that a pending edge belongs to a watched fd, and that
  `GetTimeoutMs` is between 0 and `kPollTimeoutMs` (a least timeout exists, `LeastExists`).
* `UnregisteredNeverRead`: an fd that was unregistered is not in the request table
  (`GoneUnrequested`), and the answer to an event looks it up there. It needs no bound on registrations.
* `RequestsInSync`: with at most one registration of an fd (`MaxRegisters <= 1`; the run
  `poller_register_twice` shows that this is needed). `SyncInv` follows each fd: the change
  still in the table of changes, the copy being applied and what epoll watches together give
  the request (`Agreed`), and an fd that was never registered is untouched everywhere.

`FlowProofs` (`ReleasedIsQuiet`, where messages are, the routes of a flow) and `ServicesProofs`, which
extends it, for any topology, channels, threads, messages and callers of Shutdown:

* `ReleasedIsQuiet`: if all running nodes are relays or duplex nodes (`sink_stop` shows
  that this is needed), a released topology is at rest. `ReleaseInv` says that at most one
  caller is at work, and that of the nodes it has passed every one is stopped and every channel
  is broken or next to be.
* `MessagesAccounted`: `StepMoves` first reduces every step to what it does to the messages (one
  is taken, put, delivered, lost, enters, or none moves: `Moves`). `PlaceInv` then says
  without counting that a message is held by one thread, queued at one position, delivered or
  dropped, never two of these, and one of them exactly if it came in; `DropInv` that nothing is
  broken before Shutdown was called. `PlacesCounted` turns it into the cardinalities of `Accounted`.
* `FlowsOrdered`: under `SoleReaders`, `SoleFeeders` and `NoCycle`, which the topologies of
  `MCServices` satisfy (`Orderly`). `ReaderInv` follows `IncThreads`: each worker got a channel of
  its own. A flow then has one route, since `Dispatch` picks the channel by the id of the message
  (`Hop`, `Reach`); `OrderInv` says that messages in flight are on their route, that two of one flow
  are on one line of it, and that whichever is ahead (further along, nearer to the head of the
  same channel, or delivered) came in first. Each of the moves is shown to keep that.

`TopologyProofs`, for any nodes, any number of connections, channels and threads:

* `NameRunsOnce`: a node with threads is in the list, which has one node of a name (`RunInv`).
* `ConnectedIsWired`: `ConnectFacts` says what a call of `Connect` comes to, whichever of its
  branches it takes: one channel becomes an OUT end of one node and an IN end of the other.
* `ReuseLeaksNothing`: `NoLeak` speaks about reachability. `LeakInv` says instead that any two sets of
  nodes the connections keep apart, upstream and downstream, the channels keep apart too;
  that is inductive.
* `WorkersBalanced`: with workers for q rounds of the IN list, each channel is read by at least q of
  them per place it has there, and by no more while they do not exceed q rounds. `Connect` may
  list a channel twice (reuse), so places and channels are counted apart. The k-th worker has the
  place (k - 1) modulo their number (`TurnInv`); the pairs of a round and a place of the channel are
  mapped one-to-one to its workers (`AtLeast`), and its workers to such pairs (`AtMost`).

`CollectorProofs` and `BufferProofs`, which extends it, for any workers, packets, addresses, routes,
channels and sizes (`CollectorAssumption` only says what kind of thing each constant is):

* `PacketsRoutedHome`: every packet put into a buffer is bound for the nexthop of that buffer.
  `TypeInv` follows the packet from `Tun::FDRecv` to the buffer: what a worker has in hand is a
  packet the decoder can read, with the nexthop of its address. `KnownInv` connects the map of buffers
  with the timer service: a timer is listed, queued, being handled or about to be added only for a
  nexthop whose buffer is in the map, so the handler never finds none.
* `NoBufferMisdirected`: in any order of the channels no coded buffer goes to a UDP node and no raw
  one to an encoder, however many threads sort the channels at the same time (`SortInductive`).
* `BuffersGoRight`: every buffer also finds its channel, if an encoder was connected before the
  first UDP node (`EncoderFirst`; the run `collector_udp_first` shows that this is needed).
  `SortedSoFar` says that once the flag is set there is an encoder and the UDP channel is known, that
  there is an encoder as soon as any thread is past the first channel (of two racing `push_back`s one
  stays), and that the flag is set before any thread is past a UDP channel.
* `BuffersSerialised`, `BuffersTrimmed`: the buffers of a nexthop are numbered without gap or
  repetition and hold what was taken in for it, once and in order; what is relayed is cut to what it
  holds. Both assume `Fits`: a packet more than the threshold does not fill a buffer, which is so for the
  default settings (without it, `BufferingData` can lose a packet where the buffer is full). The
  invariant is a book for each nexthop (`BookInv`): the contents of its complete buffers, in the order
  of their ids. Every page of it is in the hands of one thread or relayed (`Unique`), and its pages,
  with the buffer that is still open, give the packets taken in. `Gathered` says what
  `BufferingData` and `ForceRelayData` do to a buffer; `Push` is the step they and
  `HandleTimeoutBuffer` have in common, and it adds pages at the end.
* `FramesComeBack`: `Tun::FDWrite` takes every coded buffer apart into its packets. The lemma
  `DatagramsRestored` says so for any packets the decoder can read and any length of padding; the theorem
  adds that every buffer relayed is made of such packets and is as long as they are together.

`ASSUME Usual` in `MCCollector` has TLC evaluate `Fits` and `EncoderFirst` for the instances of the runs.

Induction over the naturals is only available through the least member of a set (`LeastExists` in
`PollerProofs`, `SetInduction` in `CollectorProofs`, from the library's theorem that < is
well-founded). The lemmas on folds use it with the set of lengths for which the claim holds: a
function of the partial results exists (`FoldExists`), `Fold` takes its last value (`FoldValues`),
and what joining, adding up and taking apart do follows from its steps (`JoinedPush`,
`BytesPush`, `TotalsGrow`, `FDWriteTurns`).

Only model-checked: all liveness, since fairness and ENABLED are out of the prover's reach, and
everything in `Settings`. `NoStray`, `ReadBack` and `RoundTrip` say what a fold over lines
makes of a text that another fold, over sections and keys in the order of a map, has
written; they are claims about the names and values of the run (a name that ends with a dot would not
come back), and what makes them true of those is the computation itself, which TLC does.

## Not modelled

* Object lifetime: `CleanUp`, a `Timer` erased while its mutex is held (timer.cc:93), a
  reference into a vector that `Connect` extends, a vector that reallocates while two threads
  append to it, or one appends and another reads. A model of values has no dangling references.
* `Stop` before `Start` of the timers, which dereferences a queue not yet made.
* Thread affinity, `View`, `Verify`, `dump`, printing and logging: they change no state.
* The set-up of the tun device and the UDP socket, and errors of reads and writes on them. The
  callback of a duplex node reads until `EAGAIN` (node_duplex.h:99); another error that persists
  would keep it looping.
* A callback of the poller that waits on a full channel with `poll_mutex_` held: `Services` has
  the wait and `Poller` the lock, but they are not composed.
* A loop of relays at work, and registrations renewed between a timeout and its answer
  (poller.cpp:204-213): both are described above, and no run asks about them.
* Encoding, decoding, flow records and routes: libraries outside the repository.
* The conversion of settings to and from numbers; the helpers for files, clocks, strings and
  identifiers, which are I/O or stateless; `pushHeader`, which has no caller.
