# A verification project for skynet-cpp

TLA+ models of the parts of skynet-cpp that carry its logic, the TLC runs that check
them on small instances, and theorems about them that TLAPS checks for every number of
threads, coroutines, connections and messages. `PROJECT.json` is the index: components, runs, mutants, the map from definitions
to source lines, findings, hazards, theorems. Paths below are relative to the root of the
repository.

## The system

skynet-cpp is an actor runtime. A pool of worker threads takes actors that have messages
from a global queue and runs their handlers, one worker per actor at a time; most actors
host a Lua state in which coroutines wait for the replies to their calls.

| component | state | operations | interacts through |
|---|---|---|---|
| Actor queues (`src/skynet.{h,cpp}`) | registry shards; per actor: mailbox, its counter, `schedule_state`, `accepting`, `releasing`, `initialized`, `owner`; `dispatch_depth_`, `destroy_requested_`, `destroyed_` | `spawn`, `send`/`push_message`, `schedule_queue`, `dispatch_queue`, `drain_queue`, `destroy_actor`, `kill` | atomics, the registry lock, callbacks `on_init`, `on_message`, `on_destroy` |
| Worker pool (`src/skynet.cpp`) | global queue and its counter, number of sleepers, epoch, `running_` | `enqueue_global`, `worker_loop`, `run`, `shutdown` | atomics, `std::atomic::wait` and `notify` |
| Monitor | per worker: version, last version seen, busy | `begin`, `end`, `check`, `monitor_loop` | atomics, a period of 5 s |
| Names and logger | name table, cached logger handle | `register_name`, `find_name`, `error` | messages to the logger |
| Timers | asio timers | `timeout` | a response message when it fires |
| Lua service (`lualib/skynet.lua`, `src/lua_actor.cpp`, `src/lua_binding.cpp`) | coroutines by session, sessions by coroutine, fork and wakeup queues, watching of services | `dispatch_message`, `call`, `ret`, `response`, `sleep`, `wait`, `wakeup`, `fork`, `start`, `exit` | messages with sessions |
| Critical section (`lualib/skynet/queue.lua`) | current thread, depth, FIFO of waiters | enter and leave | `wait` and `wakeup` |
| Network (`src/network.*`, `src/lua_socket_binding.cpp`, `src/service_gate.h`, `lualib/socket.lua`, `lualib/gateserver.lua`) | connections, write queues, paused flag; buffers and the waiting coroutine per socket | accept, connect, read, write, pause, resume, close | the I/O thread, messages to the owner |
| socketchannel | connection, queue of requests, sessions of replies | request, response, connect, close | sockets, `wait`/`wakeup` |
| Cluster (`src/lua_cluster.cpp`, `service/cluster*.lua`) | senders by node, sessions, parts of large messages | pack, unpack, call, send, reload, query of names | socketchannel, gate |
| Framing and serialisation (`src/lua_netpack.cpp`, `src/lua_seri.cpp`) | partial frame | filter, pack, unpack | byte strings |
| sharedata, multicast, launcher | versions and monitors; channels and subscribers; services that are starting | new, update, delete, monitor; subscribe, publish; launch, kill | calls |
| Diagnostics, database clients, JSON, platform | | | |

What is hard in it: many threads on one queue with nothing but atomics between them; a
kill at any point of a dispatch; workers that go to sleep while work arrives; shutdown;
coroutines that are woken by a reply, a timer, an error or another coroutine; connections
that fail with requests in flight. `hazards` in `PROJECT.json` lists each at its line.

What makes the components correct: a handler never runs on two threads; no message is
stranded in the mailbox of a live actor; a killed actor is destroyed, once, and not while
it is running; what it had not handled is answered; no entry waits while all workers
sleep; shutdown ends. For the Lua layer: every wait ends once, with its own reply; the
critical section is exclusive and serves in order; every request on a channel gets a reply
or an error; a reassembled message is the one that was sent; a reader of shared data ends
up with the last version.

## Modules

| module | models | state and actions |
|---|---|---|
| `ActorQueue` | one actor's queue in `src/skynet.{h,cpp}` | the atomics and flags keep their names; `pc` says where each thread is. One action per access to a shared variable, grouped as the functions are: `PushMessage`, `Spawn`, `Kill`, `DispatchQueue`, with `Schedule`, `EnqueueGlobal`, `Drain` and `Destroy` used by several |
| `MCActorQueue` | | constants and symmetry of its runs |
| `ActorQueueProofs` | | type correctness, the inductive invariants and the safety theorems, proved |
| `WorkerPool` | `enqueue_global`, `worker_loop`, `shutdown` | entries and sentinels of the global queue, its counter, the sleepers and the epoch. `EpochWait`, `NotifyOne` and `NotifyAll` are the library's |
| `MCWorkerPool` | | constants and symmetry of its runs |
| `WorkerPoolProofs` | | its safety theorems, proved |
| `LuaService` | `lualib/skynet.lua`: one service's coroutines, sessions, fork and wakeup queues, start function | the tables keep their names; `state`, `job`, `awaits` and `stack` are Lua's own state of the coroutines; `phase` says where `dispatch_message` is. An action per kind of message (`TimerFires`, `PeerAnswers`, `RequestArrives`), per step of the loop (`RunFork`, `ListWakeups`, `RunWakeup`, `WakeupsDone`), per operation of the running coroutine, and per way it ends (`Finish`, `Started`, `DispatchPending`, `Raise`) |
| `CriticalSection` | `lualib/skynet/queue.lua` | extends `LuaService`: its coroutines also call the queue (`Enter`, `Admitted`, `AssertFails`, `Leave`) |
| `LuaServiceProofs`, `CriticalSectionProofs` | | their safety theorems, and that the queue implements `FifoLock`, proved |
| `FifoLock` | what the queue promises | who is inside, who is in line |
| `MCCriticalSection` | | constants and symmetry of its runs |
| `Seri` | `src/lua_seri.cpp` | operators: `luaseri_pack`, `luaseri_unpack` and what they are made of, on sequences of bytes |
| `Messaging` | `src/lua_binding.cpp`, `src/lua_actor.cpp`, `src/service_logger.h`, names and `error()` of `src/skynet.cpp`, payloads in `lualib/skynet.lua` | what packing makes of the arguments is a parameter. Several actors, their mailboxes, the heap of packed payloads, the name and the cached handle of the logger. An action per operation of `skynet.core` (`Send`, `Call`, `Redirect`, `Ret`, `Register`, `Kill`...), per stage of an actor's life (`Spawn`, `InitDone`, `InitFails`, `KillResets`, `Destroy`), per kind of message dispatched, and per access of `error()` to the cache |
| `MCMessaging` | | the values that are packed, and what `Seri` makes of them |
| `MessagingProofs` | | the five invariants of `Messaging`, proved |
| `Netpack` | `src/lua_netpack.cpp` | operators: `lpack`, `lunpack`, `lfilter` |
| `Gate` | `src/network.cpp` (listener and connections), `src/lua_socket_binding.cpp`, `lualib/socket.lua`, `lualib/gateserver.lua` | extends `Netpack`. Peers and their bytes, the `TcpConnection`s with the fields of the class, the lambdas posted to the io thread, the service's mailbox and tables. An action per handler of asio, per posted lambda (`RunPosted`), per command of the gate, per socket event |
| `MCGate` | | what the peer and the gate's user send |
| `GateProofs` | | what `lfilter` finds in a stream that is cut anywhere, and the safety theorems of `Gate`, proved |
| `ClusterWire` | `src/lua_cluster.cpp` | operators: packets of requests and responses, `lappend`, `lconcat` |
| `Cluster` | `service/clustersender.lua`, `lualib/skynet/socketchannel.lua`, `service/clusterd.lua` | extends `ClusterWire`. The channel object, the coroutines of requests, the sender's wakeup queue, the connections with their two ends, clusterd's tables. An action per message of clusterd, up to where all its coroutines wait; in the sender an action per message and one (`Resume`) per round of the loop that ends it |
| `MCCluster` | | sizes of payloads |
| `ClusterProofs` | | its safety theorems, proved |
| `SequenceLemmas` | | induction over naturals in terms of sets, and what `FlattenSeq` concatenates, proved; for `GateProofs` and `ClusterProofs` |

`ActorQueue` and `WorkerPool` meet in `enqueue_global` and in the pop of an entry: `ActorQueue` keeps the
number of entries that are its own queue, `WorkerPool` keeps the entries and knows nothing
of what is in them. `Messaging` takes pushing and dispatching as single steps, which is
what `ActorQueue` is about, and does not tell coroutines apart, which is what `LuaService`
is about. `Gate` and `Cluster` take the dispatch of a service's messages from them.

Abstractions. Actors meet only through messages, so one actor with all the threads that
touch it is enough; a sender is named by its message and sends once. The moodycamel queue
gives no order between producers, and a dequeue takes any message. Accesses are
sequentially consistent: the code uses relaxed and acquire/release orders in places, and
nothing here shows that those are strong enough. Two flags that only rise and are tested
one after the other are tested at once. `size_t` wraps at `SizeMax`. The compare-and-swap
loop on the overload threshold is one step, since only its success has an effect. A
handler is two steps, its start and its return; in between it may kill its own actor.
Exceptions of a handler end the message, like a return.

`Messaging` kills live actors only; a kill while `on_init` still runs is left to `ActorQueue`.
`Seri` has no stack: `luaseri_pack` asks for room on Lua's before it goes into a table
(`src/lua_seri.cpp:262`), `luaseri_unpack` does not (390), so that a deeply nested table which
was packed may overrun the stack of who unpacks it. The lists of `MCMessaging` are nested once, far
from either limit, and nothing here says what happens there.

In `LuaService` the program of the service is left open: between two yields the running
coroutine does any sequence of library calls, catches errors or not, and ends or fails.
`dispatch_message` runs in one worker at a time (theorem `OneDispatch`), so one message is
taken when the last is over. A message is what it does to the tables: payloads, packing
and the text of errors are left out, and the final `assert` of `dispatch_message`, which
only decides what is logged, too. A coroutine that the collector takes out of the weak
pool is one that is never seen again, and is not modelled. Sessions do not wrap. Time is
left out: a timer fires at any time after it was set. In `CriticalSection` the waiters of
the queue are woken by the queue alone: the timer of `skynet.wait`, eleven days, does not
fire, and the service's own code does not wake coroutines it finds in the queue.

In `Messaging` a payload is a numbered buffer with the list of arguments that it was packed
from. `Messaging` is told which lists can be packed (`Packs`) and which come back from
unpacking as they were (`Returns`); `MCMessaging` computes both with `Seri`. A byte of a number is a digit of base
2 and a cookie has 3 values where the code has 256 and 32, so that a handful of values
reaches every width and every form of the encoding. A receiver that has no way to free a
payload drops it; the model records where (`dropped`): the logger, message types for which
`LuaActor::on_message` passes no pointer, responses nobody waits for, early requests of a
service that is killed. These leaks are in the code. Every service has a handler for
`PTYPE_LUA` once it has started. The only name is the logger's.

In `Gate` the bytes are digits of base 2, so that a length of 2 already needs the high
byte. asio performs a read at some point between its start and its handler, which is a step
of its own because all reads of a connection share `read_buf_`; writes and accepts are one
step with their handlers. Whatever the operating system may do with a socket whose peer is
gone (take a write or fail it) it does. An exception in the io thread ends the program. The
callbacks that a service gives to gateserver are assumed to return without a yield: a socket
event is handled to its end before the service takes the next message.

In `Cluster` a packet is a record; a packet has 2 bytes where the code has 32768, the largest
session is 3, and a buffer of Lua keeps 1 byte before it needs a box. The bytes of a payload
say where they come from, so that a mixture would be seen. A connection delivers in order
and may be cut at any time. What the remote node counts before the first connection is left
open (`first_id`), since it decides whether that connection shares its number with the
listener.

A handler of the sender does not end where its own coroutine yields: `dispatch_message`
then resumes who was marked by `skynet.wakeup`, in the order of `pairs`, which is any, until
nobody is. `wakeup.list` is who is left of the list it goes through, `wakeup.queue` who was
marked since; the sender takes its next message when the list is empty. A request catches
its errors and raises them at its caller; a push and `changenode` do not, and their error
leaves the loop (`lualib/skynet.lua:309`). Those behind it stay marked, and are resumed
with the next message, whatever it is (`OtherMessage`), if one comes. The pause between two
attempts to connect is part of the attempt, a coroutine of `changenode` that only waits for
another's connection has no effect and is left out, and so is the timer of `skynet.wait`,
eleven days.

## Runs

| run | instance | shows |
|---|---|---|
| `kill` | 2 senders, 2 workers, 1 killer, all callbacks may kill | `TypeOK`, `MutualExclusion`, `ScheduleToken`, `DepthCounts`, `SafeTeardown`, `CountAccounting`, `NoStrandedMessage` |
| `live` | 1 sender, 2 workers (weights -1 and 0), 1 killer, fair | `KilledIsDestroyed`, `AcceptedIsSettled` |
| `wake` | 2 producers, 2 workers, 1 spin, fair | `TypeOK`, `CountsDoNotDrift`, `NoLostWakeup`, `EntryIsDispatched` |
| `stop` | 1 producer, 2 workers, 2 callers of shutdown, no spin, fair | `ShutdownReturns` |
| `service` | 3 coroutines, 2 requests (one of an unknown protocol), 4 sessions, 1 fork, 2 uses of the queue, all operations, errors | `WaiterHasItsSession`, `ReplyOnce`, `DebtIsTheHandlers`; `CSTypeOK`, `Exclusive` |
| `queue` | 3 coroutines, 2 requests, 4 sessions, 4 uses of the queue, sleep and wakeup, no error escapes, fair | `PendingIsDispatched`, `WakeupKeepsItsWait`, `EveryWaitEnds`; `WaiterFindsItFree`, `IsFifo`, `WaiterIsAdmitted` |
| `messaging` | logger, preload service and a third actor of either kind; 3 operations out of packs, kills, registrations, errors and failed starts | `TypeOK`, `BuffersAreOwned`, `ReceivedAsSent`, `CallIsCarried`, `LoggerHandleFresh` |
| `gate` | 1 peer that sends 2 frames, reads of up to 3 bytes, 2 commands, 2 replies that differ, fair | `TypeOK`, `FramesInOrder`, `CallbackOrder`, `WritesInOrder`, `AlwaysReading`, `FramesHandled` |
| `cluster` | 2 requests of 1 or 5 bytes, 2 connections, 2 attempts to connect, 2 commands (`changenode` with or without a host, `register`, `unregister`), fair | `TypeOK`, `AnswerIsItsOwn`, `ArrivesAsSent`, `RequestEnds` |

Bounds. Two workers are the least with which a dispatch can overlap another, and two
messages the least with which one can arrive while the other is dispatched. `SizeMax = 7`
lets the counter wrap and the threshold double to its limit; with `OVERLOAD_THRESHOLD = 2`
the warning fires. What the proofs cover does not depend on any of these. `IdleSpin` is
256 or 64 up to 16 workers and 0 above: one spin stands for many, because a worker that
spins once more is where it was. Senders and producers run once, so the instances come to
rest and deadlock is not an error in them. Of the sessions of a Lua service the first is
the start function's; with three more there can be an owner of the queue that sleeps
inside, a coroutine that is woken, and its next wait. Three coroutines are an owner and
two waiters, and few enough that they are taken from the pool again. In `queue` there are
as many coroutines as the requests can use, so that a bound never stops one. Three
operations in `messaging` are enough for a request, its answer and a kill between them, or
for two errors around a registration (a message of another type than `PTYPE_LUA` counts
twice); the two lists of arguments hold a value of every kind
and width, and one that cannot be packed. One peer is enough for `gate`, because
connections share nothing but the numbers that `gate_kick` is about; two commands are a
pause and a resume, a write and a kick, or two writes, whose order shows because the replies
differ. In `cluster` the first request uses the largest
session, so that the second has wrapped; 5 bytes are three parts; two connections are the
one that is lost and the one after it, or one that clusterd's listener is closed with and one
that is still open; two commands are a name and a change of host, or two changes; a push that
connects and a request that waits for it are what an error leaves asleep. Each
of the three exceptions of `RequestEnds` is needed: without any one of them TLC finds it
violated in this instance.

Fairness. Weak fairness of every thread: the operating system runs every thread, handlers
return, and `std::atomic::wait` returns to a thread whose value changed when it is
notified. Whether anybody calls `shutdown` is left open. In the Lua layer: timers fire,
other services answer calls, and the running coroutine and `dispatch_message` go on; nobody
has to send a request, which is why a wakeup left for the next message is one that may
never come. In `Gate` the io thread runs what is ready and a worker dispatches the service;
peers, users and the operating system may stop at any time. In `Cluster` the sender's
thread goes on (it resumes who is in its list, and takes the events of attempts, which end one
way or the other, of packets and of the ends of streams), so does clusterd's, and services
answer their calls: three weak fairness conditions. Nobody has to make a request, no connection
has to break, and no other message has to come, so that a mark left behind by an error may
stay.

### Where the code and its documents disagree

The first three are runs that TLC must find violated; `findings` quotes the line that is contradicted.

- `destroy_message`: `dispatch_queue` lowers the depth and then reads the flags (633-635).
  In between another worker can start a handler; the flags are set by a kill; the first
  worker then runs `on_destroy` beside `on_message`. The other three paths to
  `destroy_actor` are safe, which is theorem `TeardownIsSafe`.
- `stop_spin`: a worker that takes its sentinel in the spin loop goes to sleep; if it reads
  the epoch after `shutdown` raised it, nobody wakes it.
- `gate_kick`: connections are numbered from 1 in the process and sockets from 1 in each
  service. `socket.close` of a connection whose close event has been handled is passed on as
  the close of the socket with that number: for connection 1, the service's first listener.

Other disagreements that the models show, each by a change that can be made to a
configuration:

- `CriticalSection_queue.cfg` with `Errors = TRUE`: `PendingIsDispatched` is violated.
  `dispatch_pending_messages` empties the list and then dispatches it message by message; an
  error in one handler ends the loop (`lualib/skynet.lua:266`), and the others are gone,
  unanswered, although "Requests received before start_func completes are delayed until the
  service has registered its dispatch handlers" (58-59).
- The same configuration: `WaiterFindsItFree` is violated. An error leaves
  `dispatch_message` at once, with wakeups still queued; a mark in `wakeup_queue` then
  outlives the wait it was set for. Spent on a later wait in an execution queue, it resumes
  a waiter while another coroutine is inside, and `assert(ref == 0)`
  (`lualib/skynet/queue.lua:37`) fails. The queue stays exclusive all the same (`Exclusive`
  in `service`), since the assertion stops the intruder. `WakeupKeepsItsWait` is violated for
  the same reason, and a protected function that fails hands the queue over and raises the
  error again, so that the new owner sleeps until the service gets a message.
- A request pushed in the window of the idle transition (617-622 of `src/skynet.cpp`) is left
  behind, unanswered, when the kill comes before the second look at the mailbox, although a
  worker is to "drain/drop pending messages" and requests to "receive `PTYPE_ERROR`"
  (`doc/performance-optimization/en.md:562-564`). `AcceptedIsSettled` without its last
  disjunct shows it once there are two messages (one alone cannot be late).
- A cluster request of 32 KB or more is always refused with "Invalid large req":
  `service/clusterd.lua:43` appends only packets that have a `msg`, so that the size of the
  header never becomes the first element, which `concat` needs. `doc/design/en.md:971`
  says "Supports automatic large message segmentation (>32KB split into multiple segments)."
  In `Cluster`, every `Deliver` of a last part answers with `Refusal`. A response above 32 KB
  reaches `lconcat` (`src/lua_cluster.cpp:459-470`) with its size, which pops the buffer's box
  with the first part and then resizes it: the requesting process crashes (`crashed`). The
  largest payload that the tests send through a cluster is 1024 bytes.
- `service/clusterd.lua:128`: `read_loop` calls `socket.close` after the close event removed the
  connection, and the collision of `gate_kick` closes clusterd's listener when connection 1
  of the process is the one that ended (`ServerClose`). Nobody can connect any more,
  although "After a disconnection, the next `request` will automatically reconnect"
  (`doc/wiki/en/SocketChannel.md:34`). On connections that are still open the responses are
  lost: `driver.write` looks the listener up first, finds none and returns false
  (`src/lua_socket_binding.cpp:182-195`; `Respond`), and who waits for one is told nothing.
  `RequestEnds` excepts requests that wait for the answer of such a node.
- `changehost` closes the socket without waking the requests that wait for replies on it,
  which sleep until the timer of `skynet.wait`; `RequestEnds` excepts them (`stranded`).
- `block_connect` marks those who wait for a connection and raises when the last attempt has
  failed (`lualib/skynet/socketchannel.lua:203-213`). When the coroutine that connects is a push or
  `changenode`, which do not catch it (`service/clustersender.lua:50-56`, 76-77), the error leaves
  the wakeup loop, and the requests that it marked sleep on, connected to nothing, until the
  service gets any other message. The same happens to those behind a push that was among the
  waiters and finds no connection. `RequestEnds` excepts requests that are marked when the
  loop is over (`r \in wakeup.queue`).
- `FramesInOrder` without its exception is violated: after a pause and a resume while a read
  is over whose handler has not run, a second read goes to the same `read_buf_`.
- `LoggerHandleFresh` without `raced` is violated: a registration between `find_name` and the
  store in `error()` is overwritten by the old handle. Nothing renews it before the old logger
  is killed.

Three more things the models show, for which no run is kept: a kill during `on_init` finds
the depth at zero and runs `on_destroy` beside it; a message taken before its sender
counted it makes `mailbox_count` wrap, so that an overload warning may report a size near
the largest there is (`warned` records what is reported); and `Cluster.cfg` with
`INT32_MAX = 1` and `FirstSessions = {1}` violates `AnswerIsItsOwn` and `TypeOK`: the second
request takes the session that the first still waits under, since `packrequest` goes round to
1 without a look at the table. The code's round is 2^31 - 1 requests long.

## Proofs

`ActorQueueProofs` proves `TypeCorrect`. The invariant is split into `DataOK`, what the
variables hold, and `PlacesOK`, where the threads are: an operation that several functions
call keeps the data whatever places it is called from, and the places follow from a case
split that does not look at the data.

Its second part proves `MutualExclusion`, `ScheduleToken`, `DepthCounts` and `SafeTeardown`
from one inductive invariant `IInv`. None of them is inductive alone:

- `ScheduleToken` is only claimed while the queue is open, since `kill` and the draining
  exits store 0 whatever there is. So mutual exclusion after a kill needs another reason:
  a worker enters the batch only after it saw the flags clear (`ClosedInv` says which
  places are reached only when they are set), and until then the token is unique.
- `TeardownInv` says that nobody is in the batch while a thread is past the test that found
  no dispatch open. It holds because the depth is exact (`DepthCounts`) and because those
  places are reached only on a closed queue, which no worker enters any more.
- `EarlyInv` says that before `initialized` is stored no entry of the queue exists and no
  worker is near it, which makes the failure path of `spawn` safe.

The assumptions are `ThreadsAssumption` (the kinds of threads are disjoint, the workers
finite) and `NumbersAssumption`. The proof goes through five lemmas about moves of a
thread (`OpenMove`, `ClosedMove`, `NoMove`, `LightMove`, `MoveKeeps`) and one lemma per
operation that changes what the state or the depth stand for.

`CountAccounting` and `NoStrandedMessage` rest on a second invariant, `DeliveryInv`: the counter
is the mailbox less what is pushed and not counted plus what is taken and not uncounted, up to
a multiple of its modulus, and whenever the state is 0 and the count is not, a thread is on
its way that will see it (`WatchInv`). A count of 0 means an empty mailbox only while no more
messages exist than the counter can count, which is the hypothesis of `NothingStranded`
(`Cardinality(Messages) <= SizeMax`, 2^64 - 1 in the code).

`WorkerPoolProofs` proves `TypeOK`, `CountsDoNotDrift` and `NoLostWakeup` from
`PoolInv == TypeInv /\ CountInv /\ WakeInv`. `WakeInv` is the argument for the notify that
`enqueue_global` leaves out: an epoch that a worker holds is not from the future
(`EpochIsPast`); no sentinel is queued before `running_` is cleared (`NotStopped`); and when all
workers are asleep over an entry, a producer has still to count its entry, or has read a count
that it will not find too high, or is about to raise the epoch, or is about to notify workers
that all wait on an older epoch (`WakeupOnItsWay`).

`LuaServiceProofs` proves the safety of the service alone, for any program, and
`CriticalSectionProofs` the same for a service that uses the queue. The lemmas are about
`ServiceNext`, which has the queue's steps as well, so that both specifications use them.
`ServiceInv` has types, the stack (`StackInv`), the fork queue, the table of sessions
(`SessionInv`, of which `WaiterHasItsSession` is the part that shows), debts (`DebtInv`) and
early requests. With errors, this and `LockInv` give `Exclusive`. Without them (`~Errors`: the
program catches its errors, which is the only hypothesis) `TurnInv` says that nothing is on
the stack between two messages and that early requests are in one of the lists, `MarkInv` that
what is marked is asleep and that no mark is left between two messages, and `LineInv` that a
waiter is in line, asleep and not marked, or was handed the queue. Then `PendingIsDispatched`,
`WakeupKeepsItsWait` and `WaiterFindsItFree` hold and the queue implements `FifoLock`
(`QueueIsFifo`): each step of `CSNext` is a step of the lock or leaves its state alone. The
hypothesis is needed: the first three are violated with errors, as told above.

`SequenceLemmas` holds what two modules need of sequences. Induction over the length of a
sequence is done with a set of numbers (those for which the claim holds, `NatSet`) instead of
an operator, which the provers can instantiate. The first part of `GateProofs` is about
`Frames`, a recursive function over byte sequences, in this way; its result,
`FilterFindsFrames`, is what the second part needs of the framing.

`GateProofs` proves the five safety invariants of `Gate` from `GateInv`:

- `TypeInv`, and `PhaseInv`: a connection has no events, lambdas, bytes or callbacks before it
  is accepted.
- `CallsInv` and `BoxOrder`: the tables of the socket library and of gateserver have the same
  connections, those that were connected and not disconnected; and an accept in the mailbox
  is the only one of its connection, which has had no callback. `CallbackOrder` alone says
  nothing of what is still to be handled.
- `AllReading`: on an open connection with an open peer no read has failed, and one is
  outstanding unless it is paused. `AllWriting`: what arrived, what is queued and what is posted
  are what was written, also for a connection that is not accepted yet.
- `AcceptPart`, `FramePart`, `WholePart`: data in the mailbox has the accept of its connection
  before it, or that was handled; on a connection without overlap, the callbacks are the first n frames, and the bytes that gateserver keeps, those in the mailbox, those in
  `read_buf_` and those on the wire, followed by what a reset has lost, are the stream of the
  frames after them. No step but `on_data` moves n, and there `FilterFindsFrames` says by how
  much.

`MessagingProofs` proves the five invariants of `Messaging` for any number of actors, any
arguments and any `MaxOps`, from four inductive invariants, each kept by one lemma per action:

- `Shape`: the types, and with `TypeOK` what makes messages meaningful. A request or a debt that
  wants an answer names an actor whose on_init has ended (`Fine`, `FineDebt`, `Young`), since
  nobody else can call; so it never comes from a handle that will be spawned later. Whoever
  waits is a Lua service with a callback, whose messages therefore reach `raw_dispatch_message`.
- `AllOwned`: of each buffer either exactly one message of one actor carries it and it was neither
  freed nor dropped, or none does and it was one of the two, once. `BuffersAreOwned` counts
  carriers over all actors that are not dead; `AllOwned` says which actor it is, which is what a
  step that moves a message from a mailbox to `pending_messages`, to `drain_queue` or to
  `unpacktrash` needs (`OwnMoves`, `OwnStep`). `ReceivedAsSent` follows, for argument lists that
  unpacking gives back: a buffer is read only by who owns it.
- `LoggerInv`: until a registration comes under an error() that is about to store, the cached handle
  is 0 or the name's, and so is the handle in each such error().
- `Carried`: what a caller waits for is in a mailbox, in `pending_messages`, a debt of a handler, or
  an error or a response in its own mailbox, or was given up (`Settled`). Each action either
  leaves what settles a call in place or replaces it: a push that is refused and a
  `drain_queue` by an error answer (`RequestPushed`, `BouncedGrows`), a dispatch by a debt, an answer by its
  delivery (`AnswerPushed`), which cannot be refused because who waits is live and accepts.

What the actions are built from (`push_message`, `Bounced`, `Reported`, `Freed`, `Dropped`,
`unpacktrash`, `Those`, `RemoveAt`) has one lemma each; induction over the length of a
sequence is done with a set of numbers, as in `SequenceLemmas`.

`ClusterProofs` proves `TypeOK`, `AnswerIsItsOwn` and `ArrivesAsSent` of `Cluster` for any size of packets,
payloads and buffers and any number of requests, connections, attempts and handles, from `WireAssumption` and
`ClusterAssumption`. It goes in three steps, because they need different things of the sessions, which are
numbers that come round and that nothing tests for being free.

- `InvHolds`: `Inv` needs nothing of them. It has the types, which connections are open where
  (`LinkInv`), who is in the channel's list and table or is marked (`ChannelInv`, `ThreadInv`), and `UpInv`:
  what is under way to clusterd consists of whole blocks of packets, one block for a request
  that was sent, except that the first may be in its middle, and then `large_request` has one
  entry, whose parts are the beginning of that request's payload up to there. With `OnceInv` (a
  request in one packet is under way at most once and not after its delivery)
  `ArrivesAsSent` follows (`ArrivesAsSentHolds`). `RunAt` says that a stream continues with a
  block from its k-th packet; `UpConcat` and `UpTail` are what writing and taking do to it.
- `OwnWhileFree`: `Spec` and `[]SessionIsFree` (the session that the next request will
  take is that of no request that waits, and of nothing on the channel's connection) imply
  `[]Own`. `WaitInv` says that a request that
  waits is in the table under its session, and that two that wait, or wait to be sent, differ in
  it. `OwnInv` says of the connection that the channel reads that everything with the
  session of a request that waits is about that request: packets (`UpOwn`), the calls of
  services (`CallOwn`), responses (`DownOwn`), and that the request has gathered the parts of
  its response that came, and nothing while the response has not begun (`GatherOf`).
  `AnswerInv`, of which `AnswerIsItsOwn` is the other form, follows step by step. The table is
  not enough: after `changehost` the requests of the old connection stay in it, and a late
  answer with the session of a newer request would be taken for its own; what prevents
  it is that old connections are never read again. `FreshInv` says that whoever will send
  its request when there is a connection has a session that is not on its way: it may be resumed
  long after it took the session.
- `SessionIsFreeHolds`: `Counted` adds that the sessions taken so far lie between the first one and the next
  (`CountInv`, in the order of `Distance`, round the end of the numbers), and that whatever is on its way has
  the session of a request that was made (`UsedInv`). It holds if `MaxRequests <= INT32_MAX`: a sender's first
  2^31 - 1 requests, from any first session. `TypeOKHolds` and `AnswerIsItsOwnHolds` have this hypothesis for
  that reason, and `TypeOKWhileFree` and `AnswerWhileFree` are the statements beyond it. It cannot be dropped,
  as the instance with one session shows: a request may wait for a whole round, when its service does not
  answer or when a change of host has stranded it, and then another takes its session and its place in the
  table.

Only model-checked:

- Liveness (`KilledIsDestroyed`, `AcceptedIsSettled`, `EntryIsDispatched`, `ShutdownReturns`,
  `EveryWaitEnds`, `WaiterIsAdmitted`, `FramesHandled`, `RequestEnds`), which needs fairness and
  `ENABLED`.
- That `luaseri_unpack` undoes `luaseri_pack`: `Seri`'s operators are recursive over the nesting
  of tables, and the prover has no use of a module with `RECURSIVE` in it. The run `messaging`
  computes it for the values of `MCMessaging`; the theorem `ReceivedIsPacked` has it as its
  hypothesis.

## Not modelled

- `run()`'s teardown of the actors that remain after the join: sequential, at the end of the
  process.
- `WorkerMonitor`: three relaxed accesses whose only outcome is a warning.
- `TcpConnection::shutdown_write`, UDP sockets and the C++ `ServiceGate`; the readers of
  `lualib/socket.lua` that wait for a number of bytes or a separator: `Cluster` takes
  whole packets from them, and `Gate` uses the data handler.
- The order mode of `socketchannel` and its `auth`, used by the database clients.
- `cluster.lua`, clusterd's `open_channel` and the reload of its configuration; `clusteragent`,
  which nothing launches.
- sharedata, multicast, launcher: services that answer calls from tables that only they
  change. sharedata's versions, which start again after a deletion, come first if the project
  grows.
- Sessions of a Lua service that wrap after 2^31 calls.
- Database clients, BSON and crypt (byte layouts of other systems), diagnostics (text), JSON,
  the platform layer, the Lua allocator and the paths (I/O), vendored code.
