------------------------------ MODULE WorkerPool ------------------------------
(***************************************************************************)
(* The global queue of src/skynet.cpp and the workers that sleep on it:    *)
(* enqueue_global, worker_loop up to the call of dispatch_queue, and       *)
(* shutdown.  What dispatch_queue does with an entry is in ActorQueue.     *)
(*                                                                         *)
(* An entry is named after the thread that enqueues it.  A worker that     *)
(* enqueues from within a dispatch is one of the Producers: it only makes  *)
(* one more worker available here than there is in the program.  A local   *)
(* variable that is not read again is reset.                               *)
(***************************************************************************)
EXTENDS Integers, FiniteSets

CONSTANTS
  Workers,
  Producers,          \* threads that run enqueue_global, once each
  Stoppers,           \* threads that call shutdown(), once each
  IdleSpin,           \* worker_loop's idle_spin
  Null                \* nullptr: what shutdown enqueues, and an empty `queue`

ASSUME PoolAssumption ==
  /\ IsFiniteSet(Workers) /\ Workers # {} /\ Workers \cap Producers = {}
  /\ Stoppers \cap (Workers \cup Producers) = {} /\ Null \notin Producers
  /\ IdleSpin \in Nat

Threads == Workers \cup Producers \cup Stoppers

VARIABLES
  running,
  entries,            \* entries of global_queue_: a dequeue takes any of them
  sentinels,          \* how many nullptr there are besides
  global_queue_count, sleeping_workers, global_queue_epoch,
  pc,
  queue,              \* worker_loop's local: the entry in hand, or Null
  epoch,              \* worker_loop's local: the epoch it read before sleeping
  num,                \* spins left of a worker; the producer's `queued`; the
                      \* sentinels the stopper has left to enqueue
  dispatched          \* entries that were given to dispatch_queue

queueVars == <<entries, sentinels>>
wakeVars  == <<global_queue_count, sleeping_workers, global_queue_epoch>>
localVars == <<queue, epoch, num>>
vars == <<running, queueVars, wakeVars, pc, localVars, dispatched>>

Init ==
  /\ running = TRUE
  /\ entries = {} /\ sentinels = 0
  /\ global_queue_count = 0 /\ sleeping_workers = 0 /\ global_queue_epoch = 0
  /\ pc = [t \in Threads |-> IF t \in Workers THEN "top" ELSE "start"]
  /\ queue = [w \in Workers |-> Null]
  /\ epoch = [w \in Workers |-> 0]
  /\ num = [t \in Threads |-> 0]
  /\ dispatched = {}

Go(t, from, to) == pc[t] = from /\ pc' = [pc EXCEPT ![t] = to]

-------------------------------------------------------------------------------
(* std::atomic wait and notify, on the epoch.                              *)

\* Mutant: the waiter does not compare the epoch.
EpochWaitBlind(w) ==
  /\ Go(w, "wait", "blocked")
  /\ UNCHANGED <<running, queueVars, wakeVars, localVars, dispatched>>

\* A waiter blocks only while the epoch is the one it read.
EpochWait(w) ==
  /\ Go(w, "wait", IF global_queue_epoch = epoch[w] THEN "blocked" ELSE "unsleep")
  /\ UNCHANGED <<running, queueVars, wakeVars, localVars, dispatched>>

\* Mutant: the notify of enqueue_global is missing.
NotifyNobody(t, from, after) ==
  /\ Go(t, from, after)
  /\ UNCHANGED <<running, queueVars, wakeVars, localVars, dispatched>>

\* A thread notifies one blocked worker, or nobody, and goes on; the woken worker
\* looks at the epoch again.
NotifyOne(t, from, after) ==
  /\ pc[t] = from
  /\ LET blocked == {w \in Workers : pc[w] = "blocked"}
     IN  \/ blocked = {} /\ pc' = [pc EXCEPT ![t] = after]
         \/ \E w \in blocked : pc' = [pc EXCEPT ![t] = after, ![w] = "wait"]
  /\ UNCHANGED <<running, queueVars, wakeVars, localVars, dispatched>>

NotifyAll(t, from, after) ==
  /\ pc[t] = from
  /\ pc' = [u \in Threads |-> CASE u = t -> after
                                [] u \in Workers /\ pc[u] = "blocked" -> "wait"
                                [] OTHER -> pc[u]]
  /\ UNCHANGED <<running, queueVars, wakeVars, localVars, dispatched>>

BumpEpoch(t, from, after) ==
  /\ Go(t, from, after)
  /\ global_queue_epoch' = global_queue_epoch + 1
  /\ UNCHANGED <<running, queueVars, global_queue_count, sleeping_workers, localVars,
                 dispatched>>

-------------------------------------------------------------------------------
(* enqueue_global                                                          *)

Enqueue(p) ==
  /\ Go(p, "start", "count")
  /\ entries' = entries \cup {p}
  /\ UNCHANGED <<running, sentinels, wakeVars, localVars, dispatched>>

CountUp(p) ==
  /\ Go(p, "count", "load")
  /\ global_queue_count' = global_queue_count + 1
  /\ num' = [num EXCEPT ![p] = global_queue_count + 1]
  /\ UNCHANGED <<running, queueVars, sleeping_workers, global_queue_epoch, queue, epoch,
                 dispatched>>

LoadSleeping(p) ==
  /\ Go(p, "load", IF sleeping_workers > 0 /\ num[p] <= sleeping_workers
                     THEN "bump" ELSE "done")
  /\ num' = [num EXCEPT ![p] = 0]
  /\ UNCHANGED <<running, queueVars, wakeVars, queue, epoch, dispatched>>

EnqueueGlobal(p) ==
  \/ Enqueue(p) \/ CountUp(p) \/ LoadSleeping(p)
  \/ BumpEpoch(p, "bump", "notify") \/ NotifyOne(p, "notify", "done")

-------------------------------------------------------------------------------
(* worker_loop                                                             *)

\* Mutant: dispatch_queue is called with no entry in hand.
TopBlind(w) ==
  /\ Go(w, "top", IF ~running THEN "exit" ELSE "dispatch")
  /\ UNCHANGED <<running, queueVars, wakeVars, localVars, dispatched>>

\* `while (running_)`, with the entry that was taken on the way to sleep.
Top(w) ==
  /\ Go(w, "top", IF ~running THEN "exit" ELSE
                  IF queue[w] # Null THEN "dispatch" ELSE "try")
  /\ UNCHANGED <<running, queueVars, wakeVars, localVars, dispatched>>

\* try_dequeue_global: the dequeue, of an entry or of a sentinel; then the count.
Dequeue(w, from, uncount) ==
  /\ Go(w, from, uncount)
  /\ \/ \E e \in entries : /\ entries' = entries \ {e}
                           /\ queue' = [queue EXCEPT ![w] = e]
                           /\ UNCHANGED sentinels
     \/ /\ sentinels > 0
        /\ sentinels' = sentinels - 1
        /\ UNCHANGED <<entries, queue>>
  /\ num' = [num EXCEPT ![w] = 0]
  /\ UNCHANGED <<running, wakeVars, epoch, dispatched>>

\* Mutant: the count is not lowered for an entry taken while spinning.
UncountNotSpinning(w, from, after) ==
  /\ Go(w, from, after)
  /\ global_queue_count' = global_queue_count - (IF from = "spin_uncount" THEN 0 ELSE 1)
  /\ UNCHANGED <<running, queueVars, sleeping_workers, global_queue_epoch, localVars,
                 dispatched>>

Uncount(w, from, after) ==
  /\ Go(w, from, after)
  /\ global_queue_count' = global_queue_count - 1
  /\ UNCHANGED <<running, queueVars, sleeping_workers, global_queue_epoch, localVars,
                 dispatched>>

\* Nothing to dequeue: start to spin, or go to sleep.
Miss(w, from, after) ==
  /\ Go(w, from, after)
  /\ entries = {} /\ sentinels = 0
  /\ num' = [num EXCEPT ![w] = IF from = "try" THEN IdleSpin ELSE 0]
  /\ UNCHANGED <<running, queueVars, wakeVars, queue, epoch, dispatched>>

\* The test of the spin loop: spin < idle_spin && running_.
SpinTest(w) ==
  /\ Go(w, "spin", IF num[w] > 0 /\ running THEN "spin_try" ELSE "load_epoch")
  /\ UNCHANGED <<running, queueVars, wakeVars, localVars, dispatched>>

SpinMiss(w) ==
  /\ Go(w, "spin_try", "spin")
  /\ entries = {} /\ sentinels = 0
  /\ num' = [num EXCEPT ![w] = @ - 1]
  /\ UNCHANGED <<running, queueVars, wakeVars, queue, epoch, dispatched>>

\* `if (queue)` after the first attempt, and after the spin loop.
Held(w, from, otherwise) ==
  /\ Go(w, from, IF queue[w] # Null THEN "dispatch" ELSE otherwise)
  /\ UNCHANGED <<running, queueVars, wakeVars, localVars, dispatched>>

LoadEpoch(w) ==
  /\ Go(w, "load_epoch", "sleep")
  /\ epoch' = [epoch EXCEPT ![w] = global_queue_epoch]
  /\ UNCHANGED <<running, queueVars, wakeVars, queue, num, dispatched>>

Sleep(w) ==
  /\ Go(w, "sleep", "last_try")
  /\ sleeping_workers' = sleeping_workers + 1
  /\ UNCHANGED <<running, queueVars, global_queue_count, global_queue_epoch, localVars,
                 dispatched>>

Unsleep(w) ==
  /\ Go(w, "unsleep", "top")
  /\ sleeping_workers' = sleeping_workers - 1
  /\ epoch' = [epoch EXCEPT ![w] = 0]
  /\ UNCHANGED <<running, queueVars, global_queue_count, global_queue_epoch, queue, num,
                 dispatched>>

\* The call of dispatch_queue, which returns with queue == nullptr.
Dispatch(w) ==
  /\ Go(w, "dispatch", "top")
  /\ dispatched' = dispatched \cup {queue[w]}
  /\ queue' = [queue EXCEPT ![w] = Null]
  /\ UNCHANGED <<running, queueVars, wakeVars, epoch, num>>

WorkerLoop(w) ==
  \/ Top(w)
  \/ Dequeue(w, "try", "uncount") \/ Uncount(w, "uncount", "held") \/ Held(w, "held", "top")
  \/ Miss(w, "try", "spin")
  \/ SpinTest(w) \/ SpinMiss(w)
  \/ Dequeue(w, "spin_try", "spin_uncount") \/ Uncount(w, "spin_uncount", "spin_held")
  \/ Held(w, "spin_held", "load_epoch")
  \/ LoadEpoch(w) \/ Sleep(w)
  \/ Dequeue(w, "last_try", "last_uncount") \/ Uncount(w, "last_uncount", "unsleep")
  \/ Miss(w, "last_try", "wait") \/ EpochWait(w)
  \/ Unsleep(w) \/ Dispatch(w)

-------------------------------------------------------------------------------
(* shutdown                                                                *)

\* Only the first caller goes on.
Exchange(t) ==
  /\ Go(t, "start", IF running THEN "enqueue" ELSE "done")
  /\ running' = FALSE
  /\ num' = [num EXCEPT ![t] = IF running THEN Cardinality(Workers) ELSE 0]
  /\ UNCHANGED <<queueVars, wakeVars, queue, epoch, dispatched>>

EnqueueNull(t) ==
  /\ Go(t, "enqueue", "count")
  /\ num[t] > 0
  /\ sentinels' = sentinels + 1
  /\ num' = [num EXCEPT ![t] = @ - 1]
  /\ UNCHANGED <<running, entries, wakeVars, queue, epoch, dispatched>>

CountNull(t) ==
  /\ Go(t, "count", IF num[t] > 0 THEN "enqueue" ELSE "bump")
  /\ global_queue_count' = global_queue_count + 1
  /\ UNCHANGED <<running, queueVars, sleeping_workers, global_queue_epoch, localVars,
                 dispatched>>

Shutdown(t) ==
  \/ Exchange(t) \/ EnqueueNull(t) \/ CountNull(t)
  \/ BumpEpoch(t, "bump", "notify") \/ NotifyAll(t, "notify", "done")

-------------------------------------------------------------------------------
Step(t) ==
  \/ t \in Producers /\ EnqueueGlobal(t)
  \/ t \in Workers /\ WorkerLoop(t)
  \/ t \in Stoppers /\ Shutdown(t)

Next == \E t \in Threads : Step(t)

Spec == Init /\ [][Next]_vars

\* Every thread that can run does: a call of dispatch_queue returns.  Whether
\* shutdown is called at all is up to the program: there is no fairness on its start.
FairSpec ==
  /\ Spec
  /\ \A t \in Workers \cup Producers : WF_vars(Step(t))
  /\ \A t \in Stoppers : WF_vars(pc[t] # "start" /\ Shutdown(t))

-------------------------------------------------------------------------------
WorkerPcs == {"top", "try", "uncount", "held", "spin", "spin_try", "spin_uncount",
              "spin_held", "load_epoch", "sleep", "last_try", "last_uncount", "wait",
              "blocked", "unsleep", "dispatch", "exit"}
SleepPcs == {"last_try", "last_uncount", "wait", "blocked", "unsleep"}
OtherPcs == {"start", "count", "load", "enqueue", "bump", "notify", "done"}

(* Every variable has its type. *)
TypeOK ==
  /\ running \in BOOLEAN
  /\ entries \subseteq Producers /\ sentinels \in Nat
  /\ global_queue_count \in Int /\ sleeping_workers \in Int /\ global_queue_epoch \in Nat
  /\ pc \in [Threads -> WorkerPcs \cup OtherPcs]
  /\ \A w \in Workers : pc[w] \in WorkerPcs
  /\ \A t \in Threads \ Workers : pc[t] \in OtherPcs
  /\ queue \in [Workers -> Producers \cup {Null}]
  /\ epoch \in [Workers -> Nat]
  /\ num \in [Threads -> Int]
  /\ dispatched \subseteq Producers

(* sleeping_workers_ and global_queue_count_ are updated apart from what they count;
   each is off by exactly the updates still to come, so the throttle of
   enqueue_global never works on a count that has drifted. *)
CountsDoNotDrift ==
  /\ sleeping_workers = Cardinality({w \in Workers : pc[w] \in SleepPcs})
  /\ global_queue_count = Cardinality(entries) + sentinels
       - Cardinality({t \in Threads \ Workers : pc[t] = "count"})
       + Cardinality({w \in Workers : pc[w] \in {"uncount", "spin_uncount", "last_uncount"}})

(* enqueue_global skips the notify when nobody seems to sleep or when enough entries
   are queued already: still, the workers are never all asleep, with no notify on its
   way, while an entry waits. *)
NoLostWakeup ==
  /\ running
  /\ \A w \in Workers : pc[w] = "blocked"
  /\ \A p \in Producers : pc[p] \in {"start", "done"}
  => entries = {}

(* An entry of the global queue reaches dispatch_queue, unless the system stops. *)
EntryIsDispatched ==
  \A p \in Producers : (p \in entries) ~> (p \in dispatched \/ ~running)

(* shutdown wakes every worker and lets it leave worker_loop, so that run() can join. *)
ShutdownReturns == ~running ~> \A w \in Workers : pc[w] = "exit"

===============================================================================
