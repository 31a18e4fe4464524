------------------------------ MODULE ActorQueue ------------------------------
(***************************************************************************)
(* The life of one actor and of its ActorQueue in src/skynet.{h,cpp}:      *)
(* spawn, push_message, schedule_queue, dispatch_queue, drain_queue,       *)
(* destroy_actor and kill, run by any number of threads.  Actors meet only *)
(* through messages, so one queue and all the threads that touch it is the *)
(* unit of the analysis.                                                   *)
(*                                                                         *)
(* A step is one access to a shared variable.  Accesses are sequentially   *)
(* consistent.  Where the code reads two flags in a row and both only ever *)
(* change in one direction, the two reads give what one read of both gives *)
(* at some instant between them, and they are one step here: see Closing,  *)
(* Grab and Schedule.                                                      *)
(***************************************************************************)
EXTENDS Integers, FiniteSets

CONSTANTS
  Workers,            \* worker threads
  Messages,           \* messages sent to this actor, each by a thread of its own
  Requests,           \* those with a session and a source, that need an answer
  Killers,            \* other threads that call kill(handle), once each
  SelfKillers,        \* workers, or the spawner, whose callback may kill its own actor
  Spawner,            \* the thread that runs spawn<T>()
  Weight,             \* calc_weight of each worker
  SizeMax,            \* largest size_t: mailbox_count wraps there
  OVERLOAD_THRESHOLD,
  NoMsg

Threads == Workers \cup Messages \cup Killers \cup {Spawner}

ASSUME ThreadsAssumption ==
  /\ Workers \cap Messages = {} /\ Workers \cap Killers = {} /\ Messages \cap Killers = {}
  /\ Spawner \notin Workers \cup Messages \cup Killers
  /\ Requests \subseteq Messages /\ NoMsg \notin Messages
  /\ SelfKillers \subseteq Workers \cup {Spawner}
  /\ IsFiniteSet(Workers)

ASSUME NumbersAssumption ==
  /\ SizeMax \in Nat \ {0}
  /\ OVERLOAD_THRESHOLD \in 1..SizeMax
  /\ Weight \in [Workers -> {-1, 0, 1, 2}]

VARIABLES
  registered,         \* the shard map holds the queue
  accepting, releasing, initialized,
  owner,              \* queue->owner is not null
  schedule_state,     \* 0 idle, 1 queued in global queue, 2 currently dispatching
  global_queue,       \* how many entries of global_queue_ are this queue
  mailbox,            \* messages of the moodycamel queue: a dequeue takes any
  mailbox_count,
  overload_threshold,
  warned,             \* the sizes that overload warnings reported
  dispatch_depth, destroy_requested, destroyed,
  pc,                 \* where each thread is
  msg,                \* message a worker handles, or a draining thread just took
  num,                \* a sender's qsize; what is left of a worker's batch
  outcome             \* what became of each message

registryVars == <<registered, accepting, releasing, initialized, owner>>
scheduleVars == <<schedule_state, global_queue>>
mailVars     == <<mailbox, mailbox_count, overload_threshold, warned>>
actorVars    == <<dispatch_depth, destroy_requested, destroyed>>
localVars    == <<msg, num>>
vars == <<registryVars, scheduleVars, mailVars, actorVars, pc, localVars, outcome>>

Init ==
  /\ registered = FALSE /\ accepting = TRUE /\ releasing = FALSE
  /\ initialized = FALSE /\ owner = TRUE
  /\ schedule_state = 0 /\ global_queue = 0
  /\ mailbox = {} /\ mailbox_count = 0
  /\ overload_threshold = OVERLOAD_THRESHOLD /\ warned = {}
  /\ dispatch_depth = 0 /\ destroy_requested = FALSE /\ destroyed = FALSE
  /\ pc = [t \in Threads |-> CASE t \in Workers  -> "idle"
                               [] t \in Messages -> "grab"
                               [] t \in Killers  -> "erase"
                               [] OTHER          -> "register"]
  /\ msg = [t \in Threads |-> NoMsg]
  /\ num = [t \in Threads |-> 0]
  /\ outcome = [m \in Messages |-> "pending"]

-------------------------------------------------------------------------------
\* size_t arithmetic.
Inc(c) == IF c = SizeMax THEN 0 ELSE c + 1
\* Mutant: a decrement that stops at zero.
DecSaturating(c) == IF c = 0 THEN 0 ELSE c - 1

Dec(c) == IF c = 0 THEN SizeMax ELSE c - 1

\* Both flags only ever rise, and they are always tested together.
Closing == releasing \/ destroy_requested

Go(t, from, to) == pc[t] = from /\ pc' = [pc EXCEPT ![t] = to]

\* The PTYPE_ERROR that a message which will not be handled is answered with.
Refused(m) == IF m \in Requests THEN "error" ELSE "dropped"

\* Where a thread goes on after schedule_queue, and after kill.
AfterSchedule(t) == IF t \in Workers THEN "leave" ELSE "done"
AfterKill(t) == CASE t \in Workers -> "on_message" [] t = Spawner -> "on_init"
                  [] OTHER -> "done"

-------------------------------------------------------------------------------
\* Mutant: the swap does not mind a queue that is being dispatched.
ScheduleUnlessQueued(t, from, enqueue, after) ==
  /\ IF initialized /\ schedule_state # 1
       THEN schedule_state' = 1 /\ Go(t, from, enqueue)
       ELSE schedule_state' = schedule_state /\ Go(t, from, after)
  /\ UNCHANGED <<registryVars, global_queue, mailVars, actorVars, localVars, outcome>>

\* schedule_queue: from is where the compare-and-swap of the state happens.
Schedule(t, from, enqueue, after) ==
  /\ IF initialized /\ schedule_state = 0
       THEN schedule_state' = 1 /\ Go(t, from, enqueue)
       ELSE schedule_state' = schedule_state /\ Go(t, from, after)
  /\ UNCHANGED <<registryVars, global_queue, mailVars, actorVars, localVars, outcome>>

\* enqueue_global, as far as this queue is concerned (WorkerPool has the rest).
EnqueueGlobal(t, from, after) ==
  /\ Go(t, from, after)
  /\ global_queue' = global_queue + 1
  /\ UNCHANGED <<registryVars, schedule_state, mailVars, actorVars, localVars, outcome>>

\* drain_queue, one dequeue, one fetch_sub or the closing store at a time.
DrainTake(t, drain) ==
  /\ pc[t] = drain /\ msg[t] = NoMsg
  /\ \E m \in mailbox : mailbox' = mailbox \ {m} /\ msg' = [msg EXCEPT ![t] = m]
  /\ UNCHANGED <<registryVars, scheduleVars, mailbox_count, overload_threshold, warned,
                 actorVars, pc, num, outcome>>

DrainRefuse(t, drain) ==
  /\ pc[t] = drain /\ msg[t] # NoMsg
  /\ mailbox_count' = Dec(mailbox_count)
  /\ outcome' = [outcome EXCEPT ![msg[t]] = Refused(msg[t])]
  /\ msg' = [msg EXCEPT ![t] = NoMsg]
  /\ UNCHANGED <<registryVars, scheduleVars, mailbox, overload_threshold, warned,
                 actorVars, pc, num>>

DrainEmpty(t, drain, zero) ==
  /\ Go(t, drain, zero) /\ msg[t] = NoMsg /\ mailbox = {}
  /\ UNCHANGED <<registryVars, scheduleVars, mailVars, actorVars, localVars, outcome>>

DrainZero(t, zero, after) ==
  /\ Go(t, zero, after)
  /\ mailbox_count' = 0
  /\ UNCHANGED <<registryVars, scheduleVars, mailbox, overload_threshold, warned,
                 actorVars, localVars, outcome>>

Drain(t, drain, zero, after) ==
  \/ DrainTake(t, drain) \/ DrainRefuse(t, drain)
  \/ DrainEmpty(t, drain, zero) \/ DrainZero(t, zero, after)

\* destroy_actor: only the thread that wins the exchange runs on_destroy.
DestroyExchange(t, destroy, on_destroy, clear) ==
  /\ Go(t, destroy, IF destroyed THEN clear ELSE on_destroy)
  /\ destroyed' = TRUE
  /\ UNCHANGED <<registryVars, scheduleVars, mailVars, dispatch_depth, destroy_requested,
                 localVars, outcome>>

DestroyReturn(t, on_destroy, clear) ==
  /\ Go(t, on_destroy, clear)
  /\ UNCHANGED <<registryVars, scheduleVars, mailVars, actorVars, localVars, outcome>>

\* clear_queue_owner
ClearOwner(t, clear, after) ==
  /\ Go(t, clear, after)
  /\ owner' = FALSE
  /\ UNCHANGED <<registered, accepting, releasing, initialized, scheduleVars, mailVars,
                 actorVars, localVars, outcome>>

Destroy(t, destroy, on_destroy, clear, after) ==
  \/ DestroyExchange(t, destroy, on_destroy, clear)
  \/ DestroyReturn(t, on_destroy, clear)
  \/ ClearOwner(t, clear, after)

\* schedule_state.store(0) on the ways out of kill and dispatch_queue.
StoreIdle(t, from, after) ==
  /\ Go(t, from, after)
  /\ schedule_state' = 0
  /\ UNCHANGED <<registryVars, global_queue, mailVars, actorVars, localVars, outcome>>

-------------------------------------------------------------------------------
(* push_message, run by the sending thread of message m.                   *)

\* grab_queue and the test of accepting: a queue leaves the registry before it
\* stops accepting, and does neither twice.
Grab(m) ==
  /\ IF registered /\ accepting
       THEN Go(m, "grab", "enqueue") /\ UNCHANGED outcome
       ELSE Go(m, "grab", "done") /\ outcome' = [outcome EXCEPT ![m] = Refused(m)]
  /\ UNCHANGED <<registryVars, scheduleVars, mailVars, actorVars, localVars>>

Enqueue(m) ==
  /\ Go(m, "enqueue", "count")
  /\ mailbox' = mailbox \cup {m}
  /\ UNCHANGED <<registryVars, scheduleVars, mailbox_count, overload_threshold, warned,
                 actorVars, localVars, outcome>>

Count(m) ==
  /\ Go(m, "count", "overload")
  /\ mailbox_count' = Inc(mailbox_count)
  /\ num' = [num EXCEPT ![m] = Inc(mailbox_count)]
  /\ UNCHANGED <<registryVars, scheduleVars, mailbox, overload_threshold, warned,
                 actorVars, msg, outcome>>

\* The compare-and-swap loop on the threshold takes effect at once, and so does
\* the test of initialized that follows it.
Overload(m) ==
  /\ Go(m, "overload", IF initialized THEN "cas" ELSE "done")
  /\ IF num[m] >= overload_threshold
       THEN /\ overload_threshold' = IF overload_threshold > SizeMax \div 2
                                       THEN SizeMax ELSE overload_threshold * 2
            /\ warned' = warned \cup {num[m]}
       ELSE UNCHANGED <<overload_threshold, warned>>
  /\ UNCHANGED <<registryVars, scheduleVars, mailbox, mailbox_count, actorVars,
                 localVars, outcome>>

PushMessage(m) ==
  \/ Grab(m) \/ Enqueue(m) \/ Count(m) \/ Overload(m)
  \/ Schedule(m, "cas", "glob", AfterSchedule(m))
  \/ EnqueueGlobal(m, "glob", AfterSchedule(m))

-------------------------------------------------------------------------------
(* spawn<T>(): the queue is in the registry while on_init runs.            *)

Register(t) ==
  /\ Go(t, "register", "on_init")
  /\ registered' = TRUE
  /\ UNCHANGED <<accepting, releasing, initialized, owner, scheduleVars, mailVars,
                 actorVars, localVars, outcome>>

\* on_init returns, or fails by an exception or mark_init_failed.
InitReturns(t) ==
  /\ Go(t, "on_init", "init_ok") \/ Go(t, "on_init", "fail_erase")
  /\ UNCHANGED <<registryVars, scheduleVars, mailVars, actorVars, localVars, outcome>>

StoreInitialized(t) ==
  /\ Go(t, "init_ok", "init_count")
  /\ initialized' = TRUE
  /\ UNCHANGED <<registered, accepting, releasing, owner, scheduleVars, mailVars,
                 actorVars, localVars, outcome>>

\* Mutant: spawn does not schedule what arrived during on_init.
InitCountIgnored(t) ==
  /\ Go(t, "init_count", "done")
  /\ UNCHANGED <<registryVars, scheduleVars, mailVars, actorVars, localVars, outcome>>

InitCount(t) ==
  /\ Go(t, "init_count", IF mailbox_count > 0 THEN "cas" ELSE "done")
  /\ UNCHANGED <<registryVars, scheduleVars, mailVars, actorVars, localVars, outcome>>

FailErase(t) ==
  /\ Go(t, "fail_erase", "fail_close")
  /\ registered' = FALSE
  /\ UNCHANGED <<accepting, releasing, initialized, owner, scheduleVars, mailVars,
                 actorVars, localVars, outcome>>

\* accepting is false before releasing is true; nobody reads accepting of a
\* queue that has left the registry, see Grab.
Close(t, from, after) ==
  /\ Go(t, from, after)
  /\ accepting' = FALSE /\ releasing' = TRUE
  /\ UNCHANGED <<registered, initialized, owner, scheduleVars, mailVars,
                 actorVars, localVars, outcome>>

Spawn(t) ==
  \/ Register(t) \/ InitReturns(t) \/ StoreInitialized(t) \/ InitCount(t)
  \/ Schedule(t, "cas", "glob", AfterSchedule(t))
  \/ EnqueueGlobal(t, "glob", AfterSchedule(t))
  \/ FailErase(t) \/ Close(t, "fail_close", "fail_drain")
  \/ Drain(t, "fail_drain", "fail_zero", "fail_destroy")
  \/ Destroy(t, "fail_destroy", "fail_on_destroy", "fail_clear", "done")

-------------------------------------------------------------------------------
(* kill(handle), by another thread or from the actor's own callback.       *)

\* Only the caller that finds the queue in the registry goes on.
KillErase(t) ==
  /\ \/ pc[t] = "erase"
     \/ t \in SelfKillers /\ pc[t] \in {"on_message", "on_init"} /\ registered
  /\ pc' = [pc EXCEPT ![t] = IF registered THEN "k_close" ELSE AfterKill(t)]
  /\ registered' = FALSE
  /\ UNCHANGED <<accepting, releasing, initialized, owner, scheduleVars, mailVars,
                 actorVars, localVars, outcome>>

KillOwner(t) ==
  /\ Go(t, "k_owner", IF owner THEN "k_depth" ELSE "k_cas")
  /\ destroy_requested' = (destroy_requested \/ owner)
  /\ UNCHANGED <<registryVars, scheduleVars, mailVars, dispatch_depth, destroyed,
                 localVars, outcome>>

\* Mutant: kill does not look at the depth.
KillDepthIgnored(t) ==
  /\ Go(t, "k_depth", "k_drain")
  /\ UNCHANGED <<registryVars, scheduleVars, mailVars, actorVars, localVars, outcome>>

KillDepth(t) ==
  /\ Go(t, "k_depth", IF dispatch_depth = 0 THEN "k_drain" ELSE "k_cas")
  /\ UNCHANGED <<registryVars, scheduleVars, mailVars, actorVars, localVars, outcome>>

Kill(t) ==
  \/ KillErase(t) \/ Close(t, "k_close", "k_owner") \/ KillOwner(t) \/ KillDepth(t)
  \/ Drain(t, "k_drain", "k_zero", "k_destroy")
  \/ Destroy(t, "k_destroy", "k_on_destroy", "k_clear", "k_idle")
  \/ StoreIdle(t, "k_idle", AfterKill(t))
  \/ Schedule(t, "k_cas", "k_glob", AfterKill(t))
  \/ EnqueueGlobal(t, "k_glob", AfterKill(t))

-------------------------------------------------------------------------------
(* worker_loop and dispatch_queue                                          *)

\* Mutant: a worker goes on when the dequeue failed.
PopBlind(w) ==
  /\ Go(w, "idle", "state")
  /\ global_queue' = global_queue - 1
  /\ UNCHANGED <<registryVars, schedule_state, mailVars, actorVars, localVars, outcome>>

Pop(w) ==
  /\ Go(w, "idle", "state")
  /\ global_queue > 0
  /\ global_queue' = global_queue - 1
  /\ UNCHANGED <<registryVars, schedule_state, mailVars, actorVars, localVars, outcome>>

LoadState(w) ==
  /\ Go(w, "state", CASE schedule_state = 1 -> "claim"
                      [] schedule_state = 2 -> "owner"
                      [] OTHER -> "idle")
  /\ UNCHANGED <<registryVars, scheduleVars, mailVars, actorVars, localVars, outcome>>

\* Mutant: a worker that takes the entry leaves the state at 1.
ClaimKeepsQueued(w) ==
  /\ Go(w, "claim", IF schedule_state = 1 THEN "owner" ELSE "idle")
  /\ UNCHANGED <<registryVars, scheduleVars, mailVars, actorVars, localVars, outcome>>

Claim(w) ==
  /\ IF schedule_state = 1
       THEN schedule_state' = 2 /\ Go(w, "claim", "owner")
       ELSE schedule_state' = schedule_state /\ Go(w, "claim", "idle")
  /\ UNCHANGED <<registryVars, global_queue, mailVars, actorVars, localVars, outcome>>

QueueOwner(w) ==
  /\ Go(w, "owner", IF owner THEN "enter" ELSE "n_drain")
  /\ UNCHANGED <<registryVars, scheduleVars, mailVars, actorVars, localVars, outcome>>

Enter(w) ==
  /\ Go(w, "enter", "check")
  /\ dispatch_depth' = dispatch_depth + 1
  /\ UNCHANGED <<registryVars, scheduleVars, mailVars, destroy_requested, destroyed,
                 localVars, outcome>>

\* Mutant: the last worker out does not test the flags.
TestClosingNotOnExit(w, from, closing, open) ==
  /\ Go(w, from, IF Closing /\ from # "last" THEN closing ELSE open)
  /\ UNCHANGED <<registryVars, scheduleVars, mailVars, actorVars, localVars, outcome>>

\* The tests of the flags: on entry, around each message, after the batch and
\* after the queue went idle.
TestClosing(w, from, closing, open) ==
  /\ Go(w, from, IF Closing THEN closing ELSE open)
  /\ UNCHANGED <<registryVars, scheduleVars, mailVars, actorVars, localVars, outcome>>

BatchSize(weight, qsize) ==
  LET share == CASE weight = -1 -> 1       [] weight = 0 -> qsize
                 [] weight = 1 -> qsize \div 2 [] OTHER -> qsize \div 4
  IN  IF share < 1 THEN 1 ELSE share

LoadBatch(w) ==
  /\ Go(w, "batch", "loop")
  /\ num' = [num EXCEPT ![w] = BatchSize(Weight[w], mailbox_count)]
  /\ UNCHANGED <<registryVars, scheduleVars, mailVars, actorVars, msg, outcome>>

\* count < batch, and the flags of the actor and the queue.
LoopTest(w) ==
  /\ Go(w, "loop", IF num[w] = 0 \/ Closing THEN "after" ELSE "take")
  /\ UNCHANGED <<registryVars, scheduleVars, mailVars, actorVars, localVars, outcome>>

TakeMessage(w) ==
  /\ Go(w, "take", "uncount")
  /\ \E m \in mailbox : mailbox' = mailbox \ {m} /\ msg' = [msg EXCEPT ![w] = m]
  /\ UNCHANGED <<registryVars, scheduleVars, mailbox_count, overload_threshold, warned,
                 actorVars, num, outcome>>

TakeNothing(w) ==
  /\ Go(w, "take", "after")
  /\ mailbox = {}
  /\ UNCHANGED <<registryVars, scheduleVars, mailVars, actorVars, localVars, outcome>>

Uncount(w) ==
  /\ Go(w, "uncount", "on_message")
  /\ mailbox_count' = Dec(mailbox_count)
  /\ UNCHANGED <<registryVars, scheduleVars, mailbox, overload_threshold, warned,
                 actorVars, localVars, outcome>>

\* on_message returns or throws: both end the message.
OnMessageReturns(w) ==
  /\ Go(w, "on_message", "loop")
  /\ outcome' = [outcome EXCEPT ![msg[w]] = "handled"]
  /\ msg' = [msg EXCEPT ![w] = NoMsg]
  /\ num' = [num EXCEPT ![w] = @ - 1]
  /\ UNCHANGED <<registryVars, scheduleVars, mailVars, actorVars>>

\* Mutant: no second look at the mailbox after the queue went idle.
TestCountOnce(w, from, some, none) ==
  /\ Go(w, from, IF mailbox_count > 0 /\ from # "recount" THEN some ELSE none)
  /\ UNCHANGED <<registryVars, scheduleVars, mailVars, actorVars, localVars, outcome>>

TestCount(w, from, some, none) ==
  /\ Go(w, from, IF mailbox_count > 0 THEN some ELSE none)
  /\ UNCHANGED <<registryVars, scheduleVars, mailVars, actorVars, localVars, outcome>>

StoreQueued(w) ==
  /\ Go(w, "requeue", "glob")
  /\ schedule_state' = 1
  /\ UNCHANGED <<registryVars, global_queue, mailVars, actorVars, localVars, outcome>>

ResetOverload(w) ==
  /\ Go(w, "reset", "recheck")
  /\ overload_threshold' = OVERLOAD_THRESHOLD
  /\ UNCHANGED <<registryVars, scheduleVars, mailbox, mailbox_count, warned, actorVars,
                 localVars, outcome>>

\* Mutant: the early exit does not lower the depth.
LeaveOnce(w, from, last, other) ==
  /\ Go(w, from, IF dispatch_depth = 1 THEN last ELSE other)
  /\ dispatch_depth' = IF from = "r_leave" THEN dispatch_depth ELSE dispatch_depth - 1
  /\ UNCHANGED <<registryVars, scheduleVars, mailVars, destroy_requested, destroyed,
                 localVars, outcome>>

\* fetch_sub of the depth; the worker that takes it to zero is the last one out.
Leave(w, from, last, other) ==
  /\ Go(w, from, IF dispatch_depth = 1 THEN last ELSE other)
  /\ dispatch_depth' = dispatch_depth - 1
  /\ UNCHANGED <<registryVars, scheduleVars, mailVars, destroy_requested, destroyed,
                 localVars, outcome>>

DispatchQueue(w) ==
  \/ LoadState(w) \/ Claim(w) \/ QueueOwner(w)
  \* no owner: the queue outlived its actor
  \/ Drain(w, "n_drain", "n_zero", "n_idle") \/ StoreIdle(w, "n_idle", "idle")
  \* the actor was killed before the batch
  \/ Enter(w) \/ TestClosing(w, "check", "r_drain", "batch")
  \/ Drain(w, "r_drain", "r_zero", "r_idle") \/ StoreIdle(w, "r_idle", "r_leave")
  \/ Leave(w, "r_leave", "r_destroy", "idle")
  \/ Destroy(w, "r_destroy", "r_on_destroy", "r_clear", "idle")
  \* the batch
  \/ LoadBatch(w) \/ LoopTest(w) \/ TakeMessage(w) \/ TakeNothing(w) \/ Uncount(w)
  \/ OnMessageReturns(w)
  \* after it: drain, put the queue back, or let it go idle
  \/ TestClosing(w, "after", "e_drain", "more")
  \/ Drain(w, "e_drain", "e_zero", "e_idle") \/ StoreIdle(w, "e_idle", "leave")
  \/ TestCount(w, "more", "requeue", "rest")
  \/ StoreQueued(w) \/ EnqueueGlobal(w, "glob", AfterSchedule(w))
  \/ StoreIdle(w, "rest", "reset") \/ ResetOverload(w)
  \/ TestClosing(w, "recheck", "leave", "recount")
  \/ TestCount(w, "recount", "cas", "leave")
  \/ Schedule(w, "cas", "glob", AfterSchedule(w))
  \/ Leave(w, "leave", "last", "idle")
  \/ TestClosing(w, "last", "x_destroy", "idle")
  \/ Destroy(w, "x_destroy", "x_on_destroy", "x_clear", "idle")

-------------------------------------------------------------------------------
Step(t) ==
  \/ t \in Messages /\ PushMessage(t)
  \/ t = Spawner /\ Spawn(t)
  \/ t \in Workers /\ (Pop(t) \/ DispatchQueue(t))
  \/ t \notin Messages /\ Kill(t)

Next == \E t \in Threads : Step(t)

Spec == Init /\ [][Next]_vars

\* Threads run, callbacks return, and a handler does not run for ever.
FairSpec == Spec /\ \A t \in Threads : WF_vars(Step(t))

-------------------------------------------------------------------------------
(* Where a thread is, as sets of program counters.                         *)

KillPcs == {"k_close", "k_owner", "k_depth", "k_drain", "k_zero", "k_destroy",
            "k_on_destroy", "k_clear", "k_idle", "k_cas", "k_glob"}
TokenPcs == {"state", "claim"}
BatchPcs == KillPcs \cup {"batch", "loop", "take", "uncount", "on_message", "after",
                          "e_drain", "e_zero", "e_idle", "more", "requeue", "rest"}
RefusePcs == {"r_drain", "r_zero", "r_idle", "r_leave"}
LeavePcs == {"glob", "reset", "recheck", "recount", "cas", "leave"}
WorkerPcs == TokenPcs \cup BatchPcs \cup RefusePcs \cup LeavePcs \cup
  {"idle", "owner", "n_drain", "n_zero", "n_idle", "enter", "check", "r_destroy",
   "r_on_destroy", "r_clear", "last", "x_destroy", "x_on_destroy", "x_clear"}
SenderPcs == {"grab", "enqueue", "count", "overload", "cas", "glob", "done"}
KillerPcs == KillPcs \cup {"erase", "done"}
SpawnerPcs == KillPcs \cup
  {"register", "on_init", "init_ok", "init_count", "cas", "glob", "done", "fail_erase",
   "fail_close", "fail_drain", "fail_zero", "fail_destroy", "fail_on_destroy",
   "fail_clear"}
Pcs == WorkerPcs \cup SenderPcs \cup KillerPcs \cup SpawnerPcs

InBatch(w) == w \in Workers /\ pc[w] \in BatchPcs

\* The actor's callback is on the stack of worker w; a kill it calls is part of it.
Running(w) == w \in Workers /\ pc[w] \in KillPcs \cup {"on_message"}

\* A thread that stands for the one queue entry, or for the one dispatch, that
\* schedule_state announces.
HoldsToken(t) == pc[t] \in {"glob", "k_glob"} \/ (t \in Workers /\ pc[t] \in TokenPcs)
Dispatching(t) == InBatch(t) \/ (t \in Workers /\ pc[t] \in {"owner", "enter", "check"})

\* Threads that destroy the actor after they saw the flags with no dispatch open.
Destroying(t) == pc[t] \in {"k_destroy", "k_on_destroy", "r_destroy", "r_on_destroy",
                            "fail_destroy", "fail_on_destroy"}

\* Nobody is inside an operation and no entry of the queue waits for a worker.
Quiet ==
  /\ global_queue = 0
  /\ \A t \in Threads : pc[t] \in {"idle", "done", "grab", "erase", "register"}

-------------------------------------------------------------------------------
(* Every variable has its type, and every thread is where its operations put it. *)
TypeOK ==
  /\ registered \in BOOLEAN /\ accepting \in BOOLEAN /\ releasing \in BOOLEAN
  /\ initialized \in BOOLEAN /\ owner \in BOOLEAN
  /\ destroy_requested \in BOOLEAN /\ destroyed \in BOOLEAN
  /\ schedule_state \in 0..2 /\ global_queue \in Nat
  /\ mailbox \subseteq Messages /\ mailbox_count \in 0..SizeMax
  /\ overload_threshold \in 1..SizeMax /\ warned \subseteq Int
  /\ dispatch_depth \in Int
  /\ pc \in [Threads -> Pcs]
  /\ \A w \in Workers : pc[w] \in WorkerPcs
  /\ \A m \in Messages : pc[m] \in SenderPcs
  /\ \A k \in Killers : pc[k] \in KillerPcs
  /\ pc[Spawner] \in SpawnerPcs
  /\ msg \in [Threads -> Messages \cup {NoMsg}]
  /\ num \in [Threads -> Int]
  /\ outcome \in [Messages -> {"pending", "handled", "error", "dropped"}]

(* dispatch_queue, schedule_queue, kill: however pushes, requeues and kills race,
   at most one worker is inside the batch of the actor, so its callback never
   runs on two threads at once. *)
MutualExclusion ==
  \A v, w \in Workers : InBatch(v) /\ InBatch(w) => v = w

(* schedule_state, "0 idle, 1 queued in global queue, 2 currently dispatching":
   until the actor is killed, the state tells exactly where the queue is.  At 0
   there is no entry of it and no dispatch; at 1 there is one entry, in the global
   queue or in the hands of one thread; at 2 one dispatch and no entry. *)
ScheduleToken ==
  ~Closing =>
    /\ \A s, t \in Threads : (HoldsToken(s) \/ Dispatching(s)) /\
                             (HoldsToken(t) \/ Dispatching(t)) => s = t
    /\ schedule_state = 0 => /\ global_queue = 0
                             /\ \A t \in Threads : ~HoldsToken(t) /\ ~Dispatching(t)
    /\ schedule_state = 1 => \/ /\ global_queue = 1
                                /\ \A t \in Threads : ~HoldsToken(t) /\ ~Dispatching(t)
                             \/ /\ global_queue = 0
                                /\ \E t \in Threads : HoldsToken(t)
    /\ schedule_state = 2 => /\ global_queue = 0
                             /\ \E t \in Threads : Dispatching(t)

(* dispatch_depth counts the workers between its fetch_add and its fetch_sub. *)
DepthCounts ==
  dispatch_depth = Cardinality({w \in Workers :
    pc[w] \in BatchPcs \cup RefusePcs \cup LeavePcs \cup {"check"}})

(* kill's direct teardown, the early exit of dispatch_queue and the failure path of
   spawn never run on_destroy while the actor's on_message is on some stack: the
   flags are set before the depth is read, and a dispatch raises the depth before
   it reads the flags. *)
SafeTeardown ==
  \A t \in Threads, w \in Workers : Destroying(t) => ~Running(w)

(* mailbox_count, an unsigned counter that a dequeue may lower before the enqueue
   has raised it: until the actor is killed it differs from the length of the
   mailbox by the steps in flight only, modulo its width, and it is exact again
   once they are over. *)
CountAccounting ==
  ~Closing =>
    ( mailbox_count - Cardinality(mailbox)
      + Cardinality({m \in Messages : pc[m] = "count"})
      - Cardinality({w \in Workers : pc[w] = "uncount"}) ) % (SizeMax + 1) = 0

(* push_message against the idle transition of dispatch_queue and against spawn:
   a live, initialized actor never comes to rest with a message in its mailbox. *)
NoStrandedMessage ==
  Quiet /\ registered /\ initialized => mailbox = {} /\ mailbox_count = 0

(* A message that reached the mailbox of a registered actor is handled, or refused
   when on_init fails: but for a kill, which may leave it behind, no interleaving of
   push_message, spawn and dispatch_queue does. *)
AcceptedIsSettled ==
  \A m \in Messages :
    (registered /\ m \in mailbox) ~> (outcome[m] # "pending" \/ destroy_requested)

(* Once an actor is killed, or its on_init failed, some thread runs on_destroy and
   lets go of the actor, whichever threads were dispatching it. *)
KilledIsDestroyed == Closing ~> (destroyed /\ ~owner)

-------------------------------------------------------------------------------
(* Claims of the documentation that the code does not keep. *)

(* doc/design/en.md: the lifecycle is on_init, then on_message, then on_destroy:
   on_destroy never runs while on_message does. *)
NoDestroyDuringMessage == \A w \in Workers : Running(w) => ~destroyed

===============================================================================
