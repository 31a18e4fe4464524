--------------------------- MODULE ActorQueueProofs ---------------------------
(***************************************************************************)
(* Proofs about ActorQueue, for any number of workers, senders and killers *)
(* and any width of the counters.                                          *)
(***************************************************************************)
EXTENDS ActorQueue, FiniteSetTheorems, TLAPS

(* TypeOK, split into what the variables other than pc hold, and where the threads
   are. *)
DataOK ==
  /\ registered \in BOOLEAN /\ accepting \in BOOLEAN /\ releasing \in BOOLEAN
  /\ initialized \in BOOLEAN /\ owner \in BOOLEAN
  /\ destroy_requested \in BOOLEAN /\ destroyed \in BOOLEAN
  /\ schedule_state \in 0..2 /\ global_queue \in Nat
  /\ mailbox \subseteq Messages /\ mailbox_count \in 0..SizeMax
  /\ overload_threshold \in 1..SizeMax /\ warned \subseteq Int
  /\ dispatch_depth \in Int
  /\ msg \in [Threads -> Messages \cup {NoMsg}]
  /\ num \in [Threads -> Int]
  /\ outcome \in [Messages -> {"pending", "handled", "error", "dropped"}]

\* p is a place where thread t may be.
Place(t, p) ==
  /\ p \in Pcs
  /\ t \in Workers => p \in WorkerPcs
  /\ t \in Messages => p \in SenderPcs
  /\ t \in Killers => p \in KillerPcs
  /\ t = Spawner => p \in SpawnerPcs

PlacesOK == pc \in [Threads -> Pcs] /\ \A t \in Threads : Place(t, pc[t])

-------------------------------------------------------------------------------
(* The two halves make up the type invariant. *)
LEMMA TypeSplit == TypeOK <=> DataOK /\ PlacesOK
  BY ThreadsAssumption DEF TypeOK, DataOK, PlacesOK, Place, Threads

(* The same for the next state. *)
LEMMA TypeSplitNext == TypeOK' <=> DataOK' /\ PlacesOK'
  BY ThreadsAssumption DEF TypeOK, DataOK, PlacesOK, Place, Threads

(* A move to a place of its own keeps a thread, and the others, in place. *)
LEMMA GoPlaces ==
  ASSUME PlacesOK, NEW t \in Threads, NEW from, NEW to, Place(t, to), Go(t, from, to)
  PROVE  PlacesOK'
  BY DEF PlacesOK, Place, Go

-------------------------------------------------------------------------------
(* What each operation does to the data, whatever the places it is called from. *)
LEMMA ScheduleData ==
  ASSUME DataOK, NEW t \in Threads, NEW from, NEW enqueue, NEW after, Schedule(t, from, enqueue, after)
  PROVE  DataOK'
  BY DEF DataOK, Schedule, registryVars, mailVars, actorVars, localVars

LEMMA EnqueueGlobalData ==
  ASSUME DataOK, NEW t \in Threads, NEW from, NEW after, EnqueueGlobal(t, from, after)
  PROVE  DataOK'
  BY DEF DataOK, EnqueueGlobal, registryVars, mailVars, actorVars, localVars

LEMMA DrainTakeData ==
  ASSUME DataOK, NEW t \in Threads, NEW drain, DrainTake(t, drain)
  PROVE  DataOK'
  BY DEF DataOK, DrainTake, registryVars, scheduleVars, actorVars

LEMMA DrainRefuseData ==
  ASSUME DataOK, NEW t \in Threads, NEW drain, DrainRefuse(t, drain)
  PROVE  DataOK'
<1>1. msg[t] \in Messages /\ Refused(msg[t]) \in {"error", "dropped"}
  BY DEF DataOK, DrainRefuse, Refused
<1>2. outcome' \in [Messages -> {"pending", "handled", "error", "dropped"}]
  BY <1>1 DEF DataOK, DrainRefuse
<1>3. mailbox_count' \in 0..SizeMax
  BY NumbersAssumption DEF DataOK, DrainRefuse, Dec
<1>4. msg' \in [Threads -> Messages \cup {NoMsg}]
  BY DEF DataOK, DrainRefuse
<1>5. QED
  BY <1>2, <1>3, <1>4 DEF DataOK, DrainRefuse, registryVars, scheduleVars, actorVars

LEMMA DrainOtherData ==
  ASSUME DataOK, NEW t \in Threads, NEW drain, NEW zero, NEW after,
         DrainEmpty(t, drain, zero) \/ DrainZero(t, zero, after)
  PROVE  DataOK'
<1> USE DEF registryVars, scheduleVars, mailVars, actorVars, localVars
<1>1. CASE DrainEmpty(t, drain, zero)
  BY <1>1 DEF DataOK, DrainEmpty
<1>2. CASE DrainZero(t, zero, after)
  BY <1>2, NumbersAssumption DEF DataOK, DrainZero
<1>3. QED
  BY <1>1, <1>2

LEMMA DestroyData ==
  ASSUME DataOK, NEW t \in Threads, NEW destroy, NEW on_destroy, NEW clear, NEW after,
         Destroy(t, destroy, on_destroy, clear, after)
  PROVE  DataOK'
<1> USE DEF registryVars, scheduleVars, mailVars, actorVars, localVars
<1>1. CASE DestroyExchange(t, destroy, on_destroy, clear)
  BY <1>1 DEF DataOK, DestroyExchange
<1>2. CASE DestroyReturn(t, on_destroy, clear)
  BY <1>2 DEF DataOK, DestroyReturn
<1>3. CASE ClearOwner(t, clear, after)
  BY <1>3 DEF DataOK, ClearOwner
<1>4. QED
  BY <1>1, <1>2, <1>3 DEF Destroy

LEMMA StoreData ==
  ASSUME DataOK, NEW t \in Threads, NEW from, NEW after,
         StoreIdle(t, from, after) \/ Close(t, from, after)
  PROVE  DataOK'
<1> USE DEF registryVars, scheduleVars, mailVars, actorVars, localVars
<1>1. CASE StoreIdle(t, from, after)
  BY <1>1 DEF DataOK, StoreIdle
<1>2. CASE Close(t, from, after)
  BY <1>2 DEF DataOK, Close
<1>3. QED
  BY <1>1, <1>2

LEMMA PushData ==
  ASSUME DataOK, NEW m \in Messages,
         Grab(m) \/ Enqueue(m) \/ Count(m) \/ Overload(m)
  PROVE  DataOK'
<1> USE DEF registryVars, scheduleVars, mailVars, actorVars, localVars
<1>1. CASE Grab(m)
  BY <1>1 DEF DataOK, Grab, Refused
<1>2. CASE Enqueue(m)
  BY <1>2 DEF DataOK, Enqueue
<1>3. CASE Count(m)
  <2>1. m \in Threads /\ Inc(mailbox_count) \in 0..SizeMax
    BY NumbersAssumption DEF DataOK, Inc, Threads
  <2>2. QED
    BY <1>3, <2>1 DEF DataOK, Count
<1>4. CASE Overload(m)
  <2>1. overload_threshold' \in 1..SizeMax
    BY <1>4, NumbersAssumption DEF DataOK, Overload
  <2>2. m \in Threads /\ num[m] \in Int
    BY DEF DataOK, Threads
  <2>3. warned' \subseteq Int
    BY <1>4, <2>2 DEF DataOK, Overload
  <2>4. QED
    BY <1>4, <2>1, <2>3 DEF DataOK, Overload
<1>5. QED
  BY <1>1, <1>2, <1>3, <1>4

LEMMA SpawnData ==
  ASSUME DataOK, NEW t \in Threads,
         Register(t) \/ InitReturns(t) \/ StoreInitialized(t) \/ InitCount(t) \/ FailErase(t)
  PROVE  DataOK'
  BY ZenonT(60) DEF DataOK, Register, InitReturns, StoreInitialized, InitCount, FailErase,
         registryVars, scheduleVars, mailVars, actorVars, localVars

LEMMA KillData ==
  ASSUME DataOK, NEW t \in Threads, KillErase(t) \/ KillOwner(t) \/ KillDepth(t)
  PROVE  DataOK'
<1> USE DEF registryVars, scheduleVars, mailVars, actorVars, localVars
<1>1. CASE KillErase(t)
  BY <1>1 DEF DataOK, KillErase
<1>2. CASE KillOwner(t)
  BY <1>2 DEF DataOK, KillOwner
<1>3. CASE KillDepth(t)
  BY <1>3 DEF DataOK, KillDepth
<1>4. QED
  BY <1>1, <1>2, <1>3

(* The tests of dispatch_queue, which only move the worker. *)
LEMMA TestData ==
  ASSUME DataOK, NEW w \in Threads, NEW from, NEW yes, NEW no,
         \/ LoadState(w) \/ QueueOwner(w) \/ LoopTest(w) \/ TakeNothing(w)
         \/ TestClosing(w, from, yes, no) \/ TestCount(w, from, yes, no)
  PROVE  DataOK'
  BY DEF DataOK, LoadState, QueueOwner, LoopTest, TakeNothing, TestClosing, TestCount,
         registryVars, scheduleVars, mailVars, actorVars, localVars

LEMMA DispatchData ==
  ASSUME DataOK, NEW w \in Workers, NEW from, NEW last, NEW other,
         \/ Pop(w) \/ Claim(w) \/ Enter(w) \/ LoadBatch(w) \/ TakeMessage(w) \/ Uncount(w)
         \/ OnMessageReturns(w) \/ StoreQueued(w) \/ ResetOverload(w)
         \/ Leave(w, from, last, other)
  PROVE  DataOK'
<1> USE DEF registryVars, scheduleVars, mailVars, actorVars, localVars
<1>0. w \in Threads
  BY DEF Threads
<1>1. CASE Pop(w)
  BY <1>1 DEF DataOK, Pop
<1>2. CASE Claim(w)
  BY <1>2 DEF DataOK, Claim
<1>3. CASE StoreQueued(w)
  BY <1>3 DEF DataOK, StoreQueued
<1>4. CASE Enter(w)
  BY <1>4 DEF DataOK, Enter
<1>5. CASE Leave(w, from, last, other)
  BY <1>5 DEF DataOK, Leave
<1>6. CASE ResetOverload(w)
  BY <1>6, NumbersAssumption DEF DataOK, ResetOverload
<1>7. CASE LoadBatch(w)
  <2>1. BatchSize(Weight[w], mailbox_count) \in Int
    BY DEF DataOK, BatchSize
  <2>2. QED
    BY <1>0, <1>7, <2>1 DEF DataOK, LoadBatch
<1>8. CASE TakeMessage(w)
  BY <1>0, <1>8 DEF DataOK, TakeMessage
<1>9. CASE Uncount(w)
  BY <1>9, NumbersAssumption DEF DataOK, Uncount, Dec
<1>10. CASE OnMessageReturns(w)
  <2>1. outcome' \in [Messages -> {"pending", "handled", "error", "dropped"}]
    BY <1>0, <1>10 DEF DataOK, OnMessageReturns
  <2>2. num' \in [Threads -> Int] /\ msg' \in [Threads -> Messages \cup {NoMsg}]
    BY <1>0, <1>10 DEF DataOK, OnMessageReturns
  <2>3. QED
    BY <1>10, <2>1, <2>2 DEF DataOK, OnMessageReturns
<1>11. QED
  BY <1>1, <1>2, <1>3, <1>4, <1>5, <1>6, <1>7, <1>8, <1>9, <1>10

-------------------------------------------------------------------------------
(* Every step keeps the data in their types. *)
LEMMA DrainData ==
  ASSUME DataOK, NEW t \in Threads, NEW drain, NEW zero, NEW after,
         Drain(t, drain, zero, after)
  PROVE  DataOK'
  BY DrainTakeData, DrainRefuseData, DrainOtherData DEF Drain

LEMMA StepData ==
  ASSUME DataOK, NEW t \in Threads, Step(t)
  PROVE  DataOK'
<1>1. CASE t \in Messages /\ PushMessage(t)
  BY <1>1, PushData, ScheduleData, EnqueueGlobalData DEF PushMessage
<1>2. CASE t = Spawner /\ Spawn(t)
  BY <1>2, SpawnData, ScheduleData, EnqueueGlobalData, StoreData, DrainData, DestroyData
  DEF Spawn
<1>3. CASE t \in Workers /\ (Pop(t) \/ DispatchQueue(t))
  BY <1>3, DispatchData, TestData, ScheduleData, EnqueueGlobalData, StoreData, DrainData,
     DestroyData
  DEF DispatchQueue
<1>4. CASE t \notin Messages /\ Kill(t)
  BY <1>4, KillData, ScheduleData, EnqueueGlobalData, StoreData, DrainData, DestroyData
  DEF Kill
<1>5. QED
  BY <1>1, <1>2, <1>3, <1>4 DEF Step

(* A thread's step leaves it where it is or takes it to one of its places. *)
LEMMA PushTo ==
  ASSUME NEW t \in Messages, PushMessage(t)
  PROVE  \E from, to : Go(t, from, to) /\ to \in SenderPcs
  BY ThreadsAssumption
  DEF PushMessage, Grab, Enqueue, Count, Overload, Schedule, EnqueueGlobal,
      AfterSchedule, SenderPcs

LEMMA DrainTo ==
  ASSUME NEW t, NEW drain, NEW zero, NEW after, Drain(t, drain, zero, after)
  PROVE  pc' = pc \/ \E from, to : Go(t, from, to) /\ to \in {zero, after}
  BY DEF Drain, DrainTake, DrainRefuse, DrainEmpty, DrainZero

LEMMA DestroyTo ==
  ASSUME NEW t, NEW destroy, NEW on_destroy, NEW clear, NEW after,
         Destroy(t, destroy, on_destroy, clear, after)
  PROVE  \E from, to : Go(t, from, to) /\ to \in {on_destroy, clear, after}
  BY DEF Destroy, DestroyExchange, DestroyReturn, ClearOwner

LEMMA SpawnTo ==
  ASSUME NEW t \in {Spawner}, Spawn(t)
  PROVE  pc' = pc \/ \E from, to : Go(t, from, to) /\ to \in SpawnerPcs
<1>1. CASE Drain(t, "fail_drain", "fail_zero", "fail_destroy")
  BY <1>1, DrainTo DEF SpawnerPcs
<1>2. CASE Destroy(t, "fail_destroy", "fail_on_destroy", "fail_clear", "done")
  BY <1>2, DestroyTo DEF SpawnerPcs
<1>3. CASE Schedule(t, "cas", "glob", AfterSchedule(t))
           \/ EnqueueGlobal(t, "glob", AfterSchedule(t))
  BY <1>3, ThreadsAssumption DEF Schedule, EnqueueGlobal, AfterSchedule, SpawnerPcs
<1>4. CASE \/ Register(t) \/ InitReturns(t) \/ StoreInitialized(t) \/ InitCount(t)
           \/ FailErase(t) \/ Close(t, "fail_close", "fail_drain")
  BY <1>4
  DEF Register, InitReturns, StoreInitialized, InitCount, FailErase, Close, SpawnerPcs
<1>5. QED
  BY <1>1, <1>2, <1>3, <1>4 DEF Spawn

LEMMA KillTo ==
  ASSUME NEW t \in Threads, PlacesOK, t \notin Messages, Kill(t)
  PROVE  \/ pc' = pc
         \/ \E to : pc' = [pc EXCEPT ![t] = to] /\ to \in KillPcs \cup {AfterKill(t)}
<1>1. CASE Drain(t, "k_drain", "k_zero", "k_destroy")
  BY <1>1, DrainTo DEF KillPcs, Go
<1>2. CASE Destroy(t, "k_destroy", "k_on_destroy", "k_clear", "k_idle")
  BY <1>2, DestroyTo DEF KillPcs, Go
<1>3. CASE Schedule(t, "k_cas", "k_glob", AfterKill(t))
           \/ EnqueueGlobal(t, "k_glob", AfterKill(t)) \/ StoreIdle(t, "k_idle", AfterKill(t))
  BY <1>3 DEF Schedule, EnqueueGlobal, StoreIdle, KillPcs, Go
<1>4. CASE KillErase(t) \/ Close(t, "k_close", "k_owner") \/ KillOwner(t) \/ KillDepth(t)
  BY <1>4 DEF KillErase, Close, KillOwner, KillDepth, KillPcs, Go
<1>5. QED
  BY <1>1, <1>2, <1>3, <1>4 DEF Kill

LEMMA DispatchTo ==
  ASSUME NEW t \in Workers, Pop(t) \/ DispatchQueue(t)
  PROVE  pc' = pc \/ \E from, to : Go(t, from, to) /\ to \in WorkerPcs
<1> USE DEF WorkerPcs, TokenPcs, BatchPcs, KillPcs, RefusePcs, LeavePcs
<1>1. CASE \/ Drain(t, "n_drain", "n_zero", "n_idle") \/ Drain(t, "r_drain", "r_zero", "r_idle")
           \/ Drain(t, "e_drain", "e_zero", "e_idle")
  BY <1>1, DrainTo
<1>2. CASE \/ Destroy(t, "r_destroy", "r_on_destroy", "r_clear", "idle")
           \/ Destroy(t, "x_destroy", "x_on_destroy", "x_clear", "idle")
  BY <1>2, DestroyTo
<1>3. CASE \/ Schedule(t, "cas", "glob", AfterSchedule(t))
           \/ EnqueueGlobal(t, "glob", AfterSchedule(t))
           \/ StoreIdle(t, "n_idle", "idle") \/ StoreIdle(t, "r_idle", "r_leave")
           \/ StoreIdle(t, "e_idle", "leave") \/ StoreIdle(t, "rest", "reset")
  BY <1>3 DEF Schedule, EnqueueGlobal, AfterSchedule, StoreIdle
<1>4. CASE \/ TestClosing(t, "check", "r_drain", "batch")
           \/ TestClosing(t, "after", "e_drain", "more")
           \/ TestClosing(t, "recheck", "leave", "recount")
           \/ TestClosing(t, "last", "x_destroy", "idle")
           \/ TestCount(t, "more", "requeue", "rest") \/ TestCount(t, "recount", "cas", "leave")
           \/ Leave(t, "r_leave", "r_destroy", "idle") \/ Leave(t, "leave", "last", "idle")
  BY <1>4 DEF TestClosing, TestCount, Leave
<1>5. CASE \/ Pop(t) \/ LoadState(t) \/ Claim(t) \/ QueueOwner(t) \/ Enter(t) \/ LoadBatch(t)
           \/ LoopTest(t) \/ TakeMessage(t) \/ TakeNothing(t) \/ Uncount(t)
           \/ OnMessageReturns(t) \/ StoreQueued(t) \/ ResetOverload(t)
  BY <1>5 DEF Pop, LoadState, Claim, QueueOwner, Enter, LoadBatch, LoopTest, TakeMessage,
         TakeNothing, Uncount, OnMessageReturns, StoreQueued, ResetOverload
<1>6. QED
  BY <1>1, <1>2, <1>3, <1>4, <1>5 DEF DispatchQueue

(* Every step keeps every thread in its place. *)
LEMMA StepPlaces ==
  ASSUME PlacesOK, NEW t \in Threads, Step(t)
  PROVE  PlacesOK'
<1>0. ASSUME pc' = pc PROVE PlacesOK'
  BY <1>0 DEF PlacesOK, Place
<1>1. CASE t \in Messages /\ PushMessage(t)
  <2>1. PICK from, to : Go(t, from, to) /\ to \in SenderPcs
    BY <1>1, PushTo
  <2>2. Place(t, to)
    BY <1>1, <2>1, ThreadsAssumption DEF Place, Pcs
  <2>3. QED
    BY <2>1, <2>2, GoPlaces
<1>2. CASE t = Spawner /\ Spawn(t) /\ pc' # pc
  <2>1. PICK from, to : Go(t, from, to) /\ to \in SpawnerPcs
    BY <1>2, SpawnTo
  <2>2. Place(t, to)
    BY <1>2, <2>1, ThreadsAssumption DEF Place, Pcs
  <2>3. QED
    BY <2>1, <2>2, GoPlaces
<1>3. CASE t \in Workers /\ (Pop(t) \/ DispatchQueue(t)) /\ pc' # pc
  <2>1. PICK from, to : Go(t, from, to) /\ to \in WorkerPcs
    BY <1>3, DispatchTo
  <2>2. Place(t, to)
    BY <1>3, <2>1, ThreadsAssumption DEF Place, Pcs
  <2>3. QED
    BY <2>1, <2>2, GoPlaces
<1>4. CASE t \notin Messages /\ Kill(t) /\ pc' # pc
  <2>1. PICK to : pc' = [pc EXCEPT ![t] = to] /\ to \in KillPcs \cup {AfterKill(t)}
    BY <1>4, KillTo
  <2>2. Place(t, to)
    BY <1>4, <2>1, ThreadsAssumption
    DEF Place, Pcs, AfterKill, WorkerPcs, BatchPcs, KillerPcs, SpawnerPcs, Threads
  <2>3. QED
    BY <2>1, <2>2 DEF PlacesOK, Place
<1>5. QED
  BY <1>0, <1>1, <1>2, <1>3, <1>4 DEF Step

(* The program starts with its types. *)
LEMMA InitTypeOK == Init => TypeOK
<1> SUFFICES ASSUME Init PROVE TypeOK
  OBVIOUS
<1>1. DataOK
  <2>1. /\ msg \in [Threads -> Messages \cup {NoMsg}] /\ num \in [Threads -> Int]
        /\ outcome \in [Messages -> {"pending", "handled", "error", "dropped"}]
    BY DEF Init
  <2>2. mailbox_count \in 0..SizeMax /\ overload_threshold \in 1..SizeMax
    BY NumbersAssumption DEF Init
  <2>3. /\ mailbox \subseteq Messages /\ warned \subseteq Int
        /\ schedule_state \in 0..2 /\ global_queue \in Nat /\ dispatch_depth \in Int
    BY DEF Init
  <2>4. QED
    BY <2>1, <2>2, <2>3 DEF Init, DataOK
<1>2. ASSUME NEW t \in Threads PROVE Place(t, pc[t])
  <2>1. CASE t \in Workers
    BY <2>1, ThreadsAssumption DEF Init, Place, Pcs, WorkerPcs
  <2>2. CASE t \in Messages
    BY <2>2, ThreadsAssumption DEF Init, Place, Pcs, SenderPcs
  <2>3. CASE t \in Killers
    BY <2>3, ThreadsAssumption DEF Init, Place, Pcs, KillerPcs
  <2>4. CASE t = Spawner
    BY <2>4, ThreadsAssumption DEF Init, Place, Pcs, SpawnerPcs
  <2>5. QED
    BY <2>1, <2>2, <2>3, <2>4 DEF Threads
<1>3. PlacesOK
  BY <1>2 DEF Init, PlacesOK, Place
<1>4. QED
  BY <1>1, <1>3, TypeSplit

(* spawn, push_message, dispatch_queue and kill keep the types of the queue's and the
   actor's fields, and every thread on the path of the operation it runs. *)
THEOREM TypeCorrect == Spec => []TypeOK
<1>1. Init => TypeOK
  BY InitTypeOK
<1>2. TypeOK /\ [Next]_vars => TypeOK'
  <2> SUFFICES ASSUME TypeOK, [Next]_vars PROVE TypeOK'
    OBVIOUS
  <2>1. DataOK /\ PlacesOK
    BY TypeSplit
  <2>2. CASE Next
    BY <2>1, <2>2, StepData, StepPlaces, TypeSplitNext DEF Next
  <2>3. CASE UNCHANGED vars
    BY <2>3 DEF TypeOK, vars, registryVars, scheduleVars, mailVars, actorVars, localVars
  <2>4. QED
    BY <2>2, <2>3
<1>3. QED
  BY <1>1, <1>2, PTL DEF Spec

-------------------------------------------------------------------------------
(* The safety invariants: one dispatch at a time, what schedule_state      *)
(* says, the depth, no teardown under a running handler, the count of the  *)
(* mailbox, and no message left behind in the mailbox of a live actor.     *)

\* Places a thread reaches only after it, or another, closed the queue.
ClosedPcs ==
  (KillPcs \ {"k_close"}) \cup RefusePcs \cup
  {"fail_drain", "fail_zero", "fail_destroy", "fail_on_destroy", "fail_clear",
   "n_drain", "n_zero", "n_idle", "r_destroy", "r_on_destroy", "r_clear",
   "e_drain", "e_zero", "e_idle", "x_destroy", "x_on_destroy", "x_clear"}

\* Places past the test that found no dispatch open.
TeardownPcs == {"k_drain", "k_zero", "k_destroy", "k_on_destroy", "r_destroy", "r_on_destroy"}

\* Places of the spawner before it stores initialized.
EarlyPcs == KillPcs \cup
  {"register", "on_init", "init_ok", "fail_erase", "fail_close", "fail_drain",
   "fail_zero", "fail_destroy", "fail_on_destroy"}

DepthPcs == BatchPcs \cup RefusePcs \cup LeavePcs \cup {"check"}

\* The places again, of a thread t at p.
TokenPlace(t, p) == p \in {"glob", "k_glob"} \/ (t \in Workers /\ p \in TokenPcs)
BatchPlace(t, p) == t \in Workers /\ p \in BatchPcs
OpenPlace(t, p)  == t \in Workers /\ p \in {"owner", "enter", "check"}
DepthPlace(t, p) == t \in Workers /\ p \in DepthPcs

-------------------------------------------------------------------------------
(* What the invariants need to be inductive. *)

ClosedInv ==
  /\ ~owner => Closing
  /\ \A t \in Threads : pc[t] \in ClosedPcs => Closing

TeardownInv ==
  \A t \in Threads, w \in Workers : pc[t] \in TeardownPcs => ~InBatch(w)

EarlyInv ==
  /\ pc[Spawner] \in EarlyPcs => ~initialized
  /\ ~initialized => /\ global_queue = 0
                     /\ \A t \in Threads : pc[t] \notin {"glob", "k_glob"}
                     /\ \A w \in Workers : pc[w] = "idle"

IInv ==
  /\ PlacesOK /\ DataOK
  /\ ClosedInv /\ TeardownInv /\ EarlyInv
  /\ MutualExclusion /\ ScheduleToken /\ DepthCounts

\* The parts of IInv that the typing lemmas do not give.
Rest ==
  /\ ClosedInv /\ TeardownInv /\ EarlyInv
  /\ MutualExclusion /\ ScheduleToken /\ DepthCounts

\* Thread t goes to a place; the others stay.
MoveTo(t, to) == pc' = [pc EXCEPT ![t] = to]

\* Places from and to differ for none of the parts above.
SamePlace(t, from, to) ==
  /\ TokenPlace(t, to) <=> TokenPlace(t, from)
  /\ BatchPlace(t, to) <=> BatchPlace(t, from)
  /\ OpenPlace(t, to) <=> OpenPlace(t, from)
  /\ DepthPlace(t, to) <=> DepthPlace(t, from)
  /\ to \in {"glob", "k_glob"} => from \in {"glob", "k_glob"}
  /\ to \in TeardownPcs => from \in TeardownPcs
  /\ t = Spawner /\ to \in EarlyPcs => from \in EarlyPcs
  /\ t \in Workers => from # "idle"

\* The flags only rise, and nobody lets go of the actor of an open queue.
FlagsRise ==
  /\ Closing => Closing'
  /\ ~owner' => ~owner \/ Closing'
  /\ initialized' = initialized

-------------------------------------------------------------------------------
(* The workers that dispatch_depth counts do not change when a thread moves within, or
   outside, their places. *)
LEMMA DepthStays ==
  ASSUME IInv, NEW t \in Threads, NEW to, MoveTo(t, to),
         DepthPlace(t, to) <=> DepthPlace(t, pc[t]), dispatch_depth' = dispatch_depth
  PROVE  DepthCounts'
<1>1. {w \in Workers : pc'[w] \in DepthPcs} = {w \in Workers : pc[w] \in DepthPcs}
  BY DEF IInv, PlacesOK, MoveTo, DepthPlace, Threads
<1>2. QED
  BY <1>1 DEF IInv, DepthCounts, DepthPcs

(* The parts that do not speak of the schedule, for a move that keeps them. *)
LEMMA MoveKeeps ==
  ASSUME IInv, NEW t \in Threads, NEW to, MoveTo(t, to), FlagsRise,
         to \in ClosedPcs => Closing',
         ~initialized => global_queue' = global_queue /\ to \notin {"glob", "k_glob"},
         to \in TeardownPcs => pc[t] \in TeardownPcs \/ \A w \in Workers : ~InBatch(w),
         t = Spawner /\ to \in EarlyPcs => pc[t] \in EarlyPcs,
         t \in Workers => pc[t] # "idle" \/ initialized,
         BatchPlace(t, to) => BatchPlace(t, pc[t])
  PROVE  ClosedInv' /\ TeardownInv' /\ EarlyInv' /\ MutualExclusion'
<1>0. /\ \A u \in Threads : pc'[u] = IF u = t THEN to ELSE pc[u]
      /\ Workers \subseteq Threads /\ Spawner \in Threads
  BY DEF IInv, PlacesOK, MoveTo, Threads
<1>1. ClosedInv'
  BY <1>0 DEF IInv, ClosedInv, FlagsRise
<1>2. \A w \in Workers : InBatch(w)' => InBatch(w)
  BY <1>0 DEF InBatch, BatchPlace
<1>3. TeardownInv'
  BY <1>0, <1>2 DEF IInv, TeardownInv
<1>4. MutualExclusion'
  BY <1>2 DEF IInv, MutualExclusion
<1>5. EarlyInv'
  BY <1>0 DEF IInv, EarlyInv, FlagsRise
<1>6. QED
  BY <1>1, <1>3, <1>4, <1>5

(* A move between places that are the same for every part. *)
LEMMA OpenMove ==
  ASSUME IInv, NEW t \in Threads, NEW to, MoveTo(t, to), FlagsRise,
         UNCHANGED <<schedule_state, global_queue, dispatch_depth>>,
         to \in ClosedPcs => Closing', SamePlace(t, pc[t], to)
  PROVE  Rest'
<1>0. /\ \A u \in Threads : pc'[u] = IF u = t THEN to ELSE pc[u]
      /\ Workers \subseteq Threads /\ Spawner \in Threads
  BY DEF IInv, PlacesOK, MoveTo, Threads
<1>1. \A u \in Threads : (HoldsToken(u)' <=> HoldsToken(u)) /\ (Dispatching(u)' <=> Dispatching(u))
  BY <1>0 DEF HoldsToken, Dispatching, InBatch, SamePlace, TokenPlace, BatchPlace, OpenPlace
<1>2. ScheduleToken'
  BY <1>1 DEF IInv, ScheduleToken, FlagsRise
<1>3. ~initialized => to \notin {"glob", "k_glob"}
  BY DEF IInv, EarlyInv, SamePlace
<1>4. ClosedInv' /\ TeardownInv' /\ EarlyInv' /\ MutualExclusion'
  BY <1>3, MoveKeeps DEF SamePlace
<1>5. DepthCounts'
  BY DepthStays DEF SamePlace
<1>6. QED
  BY <1>2, <1>4, <1>5 DEF Rest

(* A move of a thread once the queue is closed: nothing holds of the schedule then. *)
LEMMA ClosedMove ==
  ASSUME IInv, NEW t \in Threads, NEW to, MoveTo(t, to), FlagsRise, Closing,
         ~initialized => global_queue' = global_queue /\ to \notin {"glob", "k_glob"},
         to \in TeardownPcs => pc[t] \in TeardownPcs \/ \A w \in Workers : ~InBatch(w),
         t = Spawner /\ to \in EarlyPcs => pc[t] \in EarlyPcs,
         t \in Workers => pc[t] # "idle" \/ initialized,
         BatchPlace(t, to) => BatchPlace(t, pc[t]),
         DepthPlace(t, to) <=> DepthPlace(t, pc[t]), dispatch_depth' = dispatch_depth
  PROVE  Rest'
<1>1. Closing'
  BY DEF FlagsRise
<1>2. ClosedInv' /\ TeardownInv' /\ EarlyInv' /\ MutualExclusion'
  BY <1>1, MoveKeeps
<1>3. DepthCounts'
  BY DepthStays
<1>4. ScheduleToken'
  BY <1>1 DEF ScheduleToken
<1>5. QED
  BY <1>2, <1>3, <1>4 DEF Rest

(* A step that moves nobody. *)
LEMMA NoMove ==
  ASSUME IInv, pc' = pc, FlagsRise,
         UNCHANGED <<schedule_state, global_queue, dispatch_depth>>
  PROVE  Rest'
  BY DEF IInv, Rest, ClosedInv, TeardownInv, EarlyInv, MutualExclusion, ScheduleToken,
         DepthCounts, InBatch, HoldsToken, Dispatching, FlagsRise

-------------------------------------------------------------------------------
\* Places that are the same for the parts that outlive the closing of the queue.
ClosedPlace(t, from, to) ==
  /\ from \in ClosedPcs /\ to \notin {"glob", "k_glob"}
  /\ to \in TeardownPcs => from \in TeardownPcs
  /\ t = Spawner /\ to \in EarlyPcs => from \in EarlyPcs
  /\ BatchPlace(t, to) => BatchPlace(t, from)
  /\ DepthPlace(t, to) <=> DepthPlace(t, from)

(* The operations that only run on a closed queue. *)
LEMMA ClosedGo ==
  ASSUME IInv, NEW t \in Threads, NEW from, NEW to, Go(t, from, to), FlagsRise,
         ClosedPlace(t, from, to), UNCHANGED <<global_queue, dispatch_depth>>
  PROVE  Rest'
<1>1. pc[t] = from /\ MoveTo(t, to) /\ Closing
  BY DEF Go, MoveTo, ClosedPlace, IInv, ClosedInv
<1>2. from # "idle"
  BY DEF ClosedPlace, ClosedPcs, KillPcs, RefusePcs
<1>3. QED
  BY <1>1, <1>2, ClosedMove DEF ClosedPlace

LEMMA DrainKeeps ==
  ASSUME IInv, NEW t \in Threads, NEW drain, NEW zero, NEW after,
         ClosedPlace(t, drain, zero), ClosedPlace(t, zero, after),
         Drain(t, drain, zero, after)
  PROVE  Rest'
<1> USE DEF FlagsRise, Closing, registryVars, scheduleVars, mailVars, actorVars
<1>1. CASE DrainTake(t, drain)
  BY <1>1, NoMove DEF DrainTake
<1>2. CASE DrainRefuse(t, drain)
  BY <1>2, NoMove DEF DrainRefuse
<1>3. CASE DrainEmpty(t, drain, zero)
  BY <1>3, ClosedGo DEF DrainEmpty
<1>4. CASE DrainZero(t, zero, after)
  BY <1>4, ClosedGo DEF DrainZero
<1>5. QED
  BY <1>1, <1>2, <1>3, <1>4 DEF Drain

LEMMA DestroyKeeps ==
  ASSUME IInv, NEW t \in Threads, NEW destroy, NEW on_destroy, NEW clear, NEW after,
         ClosedPlace(t, destroy, on_destroy), ClosedPlace(t, destroy, clear),
         ClosedPlace(t, on_destroy, clear), ClosedPlace(t, clear, after),
         Destroy(t, destroy, on_destroy, clear, after)
  PROVE  Rest'
<1> USE DEF Closing, registryVars, scheduleVars, mailVars, actorVars
<1>1. CASE DestroyExchange(t, destroy, on_destroy, clear)
  BY <1>1, ClosedGo DEF DestroyExchange, FlagsRise
<1>2. CASE DestroyReturn(t, on_destroy, clear)
  BY <1>2, ClosedGo DEF DestroyReturn, FlagsRise
<1>3. CASE ClearOwner(t, clear, after)
  <2>1. Closing /\ FlagsRise
    BY <1>3 DEF ClearOwner, FlagsRise, IInv, ClosedInv, ClosedPlace, Go
  <2>2. QED
    BY <1>3, <2>1, ClosedGo DEF ClearOwner
<1>4. QED
  BY <1>1, <1>2, <1>3 DEF Destroy

LEMMA StoreIdleKeeps ==
  ASSUME IInv, NEW t \in Threads, NEW from, NEW after,
         ClosedPlace(t, from, after), StoreIdle(t, from, after)
  PROVE  Rest'
  BY ClosedGo DEF StoreIdle, FlagsRise, Closing, registryVars, actorVars

(* The tests, and the other steps that only move their thread. *)
LEMMA OpenGo ==
  ASSUME IInv, NEW t \in Threads, NEW from, NEW to, Go(t, from, to), FlagsRise,
         UNCHANGED <<schedule_state, global_queue, dispatch_depth>>,
         to \in ClosedPcs => Closing', SamePlace(t, from, to)
  PROVE  Rest'
  BY OpenMove DEF Go, MoveTo

-------------------------------------------------------------------------------
(* Who holds the token: the facts about schedule_state that the operations need. *)

(* With the queue open, its entry in a thread's hands is the only one, and there is no
   dispatch. *)
LEMMA TokenAlone ==
  ASSUME IInv, ~Closing, NEW t \in Threads, HoldsToken(t)
  PROVE  /\ schedule_state = 1 /\ global_queue = 0
         /\ \A u \in Threads : ~Dispatching(u) /\ (HoldsToken(u) => u = t)
<1>1. ~Dispatching(t)
  BY ThreadsAssumption
  DEF IInv, PlacesOK, HoldsToken, Dispatching, InBatch, TokenPcs, BatchPcs, KillPcs, Place,
      WorkerPcs, RefusePcs, LeavePcs, IInv, ClosedInv, ClosedPcs
<1>2. \A u \in Threads : HoldsToken(u) \/ Dispatching(u) => u = t
  BY DEF IInv, ScheduleToken
<1>3. schedule_state # 0 /\ schedule_state # 2
  BY <1>1, <1>2 DEF IInv, ScheduleToken
<1>4. schedule_state = 1
  BY <1>3 DEF IInv, DataOK
<1>5. QED
  BY <1>1, <1>2, <1>4 DEF IInv, ScheduleToken

(* With the queue open, the dispatch is the only one, and the queue has no entry. *)
LEMMA DispatchAlone ==
  ASSUME IInv, ~Closing, NEW t \in Threads, Dispatching(t)
  PROVE  /\ schedule_state = 2 /\ global_queue = 0
         /\ \A u \in Threads : ~HoldsToken(u) /\ (Dispatching(u) => u = t)
<1>1. \A u \in Threads : HoldsToken(u) \/ Dispatching(u) => u = t
  BY DEF IInv, ScheduleToken
<1>2. \A u \in Threads : ~HoldsToken(u)
  BY <1>1, TokenAlone
<1>3. schedule_state # 0 /\ schedule_state # 1
  BY <1>1, <1>2 DEF IInv, ScheduleToken
<1>4. schedule_state = 2
  BY <1>3 DEF IInv, DataOK
<1>5. QED
  BY <1>1, <1>2, <1>4 DEF IInv, ScheduleToken

(* The move of one thread, seen from all of them. *)
LEMMA Moved ==
  ASSUME IInv, NEW t \in Threads, NEW to, MoveTo(t, to)
  PROVE  \A u \in Threads :
           /\ HoldsToken(u)' <=> IF u = t THEN TokenPlace(t, to) ELSE HoldsToken(u)
           /\ Dispatching(u)' <=> IF u = t THEN BatchPlace(t, to) \/ OpenPlace(t, to)
                                          ELSE Dispatching(u)
  BY DEF IInv, PlacesOK, MoveTo, HoldsToken, Dispatching, InBatch, TokenPlace, BatchPlace,
         OpenPlace

-------------------------------------------------------------------------------
(* The operations that change what schedule_state and the depth stand for. *)

\* A move that touches neither the batch, the depth nor the teardown.
LightPlace(t, from, to) ==
  /\ to \notin ClosedPcs \cup TeardownPcs \cup EarlyPcs
  /\ BatchPlace(t, to) => BatchPlace(t, from)
  /\ DepthPlace(t, to) <=> DepthPlace(t, from)

(* What such a move leaves to show. *)
LEMMA LightMove ==
  ASSUME IInv, NEW t \in Threads, NEW to, MoveTo(t, to), LightPlace(t, pc[t], to),
         UNCHANGED <<releasing, destroy_requested, initialized, owner, dispatch_depth>>,
         initialized, ~Closing => ScheduleToken'
  PROVE  Rest'
<1>1. FlagsRise /\ (Closing' <=> Closing)
  BY DEF FlagsRise, Closing
<1>2. ClosedInv' /\ TeardownInv' /\ EarlyInv' /\ MutualExclusion'
  BY <1>1, MoveKeeps DEF LightPlace
<1>3. DepthCounts'
  BY DepthStays DEF LightPlace
<1>4. ScheduleToken'
  BY <1>1 DEF ScheduleToken
<1>5. QED
  BY <1>2, <1>3, <1>4 DEF Rest

(* schedule_queue: the compare-and-swap that finds the state idle makes its thread the
   only one with an entry in hand. *)
LEMMA ScheduleKeeps ==
  ASSUME IInv, NEW t \in Threads,
         Schedule(t, "cas", "glob", AfterSchedule(t))
  PROVE  Rest'
<1> USE DEF registryVars, mailVars, actorVars, localVars
<1>0. FlagsRise /\ (Closing' <=> Closing)
  BY DEF Schedule, FlagsRise, Closing
<1>1. CASE initialized /\ schedule_state = 0
  <2>1. MoveTo(t, "glob") /\ pc[t] = "cas" /\ schedule_state' = 1 /\ global_queue' = global_queue
    BY <1>1 DEF Schedule, Go, MoveTo
  <2>2. LightPlace(t, "cas", "glob") /\ TokenPlace(t, "glob")
        /\ ~BatchPlace(t, "glob") /\ ~OpenPlace(t, "glob")
    BY DEF LightPlace, BatchPlace, DepthPlace, TokenPlace, OpenPlace, ClosedPcs, TeardownPcs,
           EarlyPcs, DepthPcs, BatchPcs, RefusePcs, LeavePcs, KillPcs
  <2>3. ASSUME ~Closing PROVE ScheduleToken'
    <3>1. global_queue = 0 /\ \A u \in Threads : ~HoldsToken(u) /\ ~Dispatching(u)
      BY <1>1, <2>3 DEF IInv, ScheduleToken
    <3>2. \A u \in Threads : (HoldsToken(u)' <=> u = t) /\ ~Dispatching(u)'
      BY <2>1, <2>2, <3>1, Moved
    <3>3. QED
      BY <2>1, <3>1, <3>2 DEF ScheduleToken
  <2>4. QED
    BY <1>1, <2>1, <2>2, <2>3, LightMove DEF Schedule
<1>2. CASE ~(initialized /\ schedule_state = 0)
  <2>1. SamePlace(t, "cas", AfterSchedule(t)) /\ AfterSchedule(t) \notin ClosedPcs
    BY ThreadsAssumption DEF AfterSchedule, SamePlace, BatchPlace, DepthPlace, TokenPlace, OpenPlace, ClosedPcs,
           TeardownPcs, EarlyPcs, DepthPcs, BatchPcs, RefusePcs, LeavePcs, KillPcs, TokenPcs
  <2>2. QED
    BY <1>0, <1>2, <2>1, OpenGo DEF Schedule
<1>3. QED
  BY <1>1, <1>2

(* enqueue_global: the entry leaves the hands of its thread for the global queue. *)
LEMMA EnqueueGlobalKeeps ==
  ASSUME IInv, NEW t \in Threads,
         EnqueueGlobal(t, "glob", AfterSchedule(t))
  PROVE  Rest'
<1> USE DEF registryVars, mailVars, actorVars, localVars
<1>1. MoveTo(t, AfterSchedule(t)) /\ pc[t] = "glob" /\ initialized
  BY DEF EnqueueGlobal, Go, MoveTo, IInv, EarlyInv
<1>2. /\ LightPlace(t, "glob", AfterSchedule(t))
      /\ ~TokenPlace(t, AfterSchedule(t)) /\ ~BatchPlace(t, AfterSchedule(t))
      /\ ~OpenPlace(t, AfterSchedule(t))
  BY DEF AfterSchedule, LightPlace, BatchPlace, DepthPlace, TokenPlace, OpenPlace, ClosedPcs,
         TeardownPcs, EarlyPcs, DepthPcs, BatchPcs, RefusePcs, LeavePcs, KillPcs, TokenPcs
<1>3. ASSUME ~Closing PROVE ScheduleToken'
  <2>1. HoldsToken(t)
    BY <1>1 DEF HoldsToken
  <2>2. schedule_state' = 1 /\ global_queue' = 1
    BY <1>3, <2>1, TokenAlone DEF EnqueueGlobal
  <2>3. \A u \in Threads : ~HoldsToken(u)' /\ ~Dispatching(u)'
    BY <1>1, <1>2, <1>3, <2>1, TokenAlone, Moved
  <2>4. QED
    BY <2>2, <2>3 DEF ScheduleToken
<1>4. QED
  BY <1>1, <1>2, <1>3, LightMove DEF EnqueueGlobal

(* worker_loop: the entry passes from the global queue to a worker. *)
LEMMA PopKeeps ==
  ASSUME IInv, NEW w \in Workers, Pop(w)
  PROVE  Rest'
<1> USE DEF registryVars, mailVars, actorVars, localVars
<1>0. w \in Threads
  BY DEF Threads
<1>1. MoveTo(w, "state") /\ pc[w] = "idle" /\ initialized
  BY DEF Pop, Go, MoveTo, IInv, EarlyInv, DataOK
<1>2. LightPlace(w, "idle", "state") /\ TokenPlace(w, "state")
      /\ ~BatchPlace(w, "state") /\ ~OpenPlace(w, "state")
  BY DEF LightPlace, BatchPlace, DepthPlace, TokenPlace, OpenPlace, ClosedPcs, TeardownPcs,
         EarlyPcs, DepthPcs, BatchPcs, RefusePcs, LeavePcs, KillPcs, TokenPcs
<1>3. ASSUME ~Closing PROVE ScheduleToken'
  <2>1. schedule_state = 1 /\ global_queue = 1
        /\ \A u \in Threads : ~HoldsToken(u) /\ ~Dispatching(u)
    BY <1>3 DEF Pop, IInv, DataOK, ScheduleToken
  <2>2. \A u \in Threads : (HoldsToken(u)' <=> u = w) /\ ~Dispatching(u)'
    BY <1>0, <1>1, <1>2, <2>1, Moved
  <2>3. schedule_state' = 1 /\ global_queue' = 0
    BY <2>1 DEF Pop
  <2>4. QED
    BY <1>0, <2>2, <2>3 DEF ScheduleToken
<1>4. QED
  BY <1>0, <1>1, <1>2, <1>3, LightMove DEF Pop

(* dispatch_queue: of the workers that popped an entry of an open queue, there is only
   one, and it finds the state it expects. *)
LEMMA LoadStateKeeps ==
  ASSUME IInv, NEW w \in Workers, LoadState(w)
  PROVE  Rest'
<1> USE DEF registryVars, scheduleVars, mailVars, actorVars, localVars
<1>0. w \in Threads /\ FlagsRise /\ pc[w] = "state"
  BY DEF Threads, LoadState, FlagsRise, Closing, Go
<1>1. schedule_state # 1 => Closing
  BY <1>0, TokenAlone DEF HoldsToken, TokenPcs
<1>2. CASE schedule_state = 1
  <2>1. SamePlace(w, "state", "claim") /\ "claim" \notin ClosedPcs
    BY ThreadsAssumption
    DEF SamePlace, BatchPlace, DepthPlace, TokenPlace, OpenPlace, ClosedPcs,
        TeardownPcs, EarlyPcs, DepthPcs, BatchPcs, RefusePcs, LeavePcs, KillPcs, TokenPcs
  <2>2. QED
    BY <1>0, <1>2, <2>1, OpenGo DEF LoadState
<1>3. ASSUME NEW to \in {"owner", "idle"}, Closing, Go(w, "state", to) PROVE Rest'
  <2>1. /\ to \notin {"glob", "k_glob"} \cup TeardownPcs \cup EarlyPcs
        /\ ~BatchPlace(w, to) /\ ~DepthPlace(w, to) /\ ~DepthPlace(w, "state")
    BY DEF BatchPlace, DepthPlace, TeardownPcs, EarlyPcs, DepthPcs, BatchPcs, RefusePcs,
           LeavePcs, KillPcs
  <2>2. MoveTo(w, to) /\ global_queue' = global_queue /\ dispatch_depth' = dispatch_depth
    BY <1>3 DEF Go, MoveTo, LoadState
  <2>3. QED
    BY <1>0, <1>3, <2>1, <2>2, ClosedMove
<1>4. CASE schedule_state # 1
  BY <1>1, <1>3, <1>4 DEF LoadState
<1>5. QED
  BY <1>2, <1>4

(* The compare-and-swap from 1 to 2 turns the entry into the dispatch. *)
LEMMA ClaimKeeps ==
  ASSUME IInv, NEW w \in Workers, Claim(w)
  PROVE  Rest'
<1> USE DEF registryVars, scheduleVars, mailVars, actorVars, localVars
<1>0. w \in Threads /\ FlagsRise /\ pc[w] = "claim" /\ HoldsToken(w)
  BY DEF Threads, Claim, FlagsRise, Closing, Go, HoldsToken, TokenPcs
<1>1. schedule_state # 1 => Closing
  BY <1>0, TokenAlone
<1>2. CASE schedule_state = 1
  <2>1. MoveTo(w, "owner") /\ schedule_state' = 2 /\ global_queue' = global_queue
    BY <1>2 DEF Claim, Go, MoveTo
  <2>2. LightPlace(w, "claim", "owner") /\ OpenPlace(w, "owner") /\ ~TokenPlace(w, "owner")
    BY DEF LightPlace, BatchPlace, DepthPlace, TokenPlace, OpenPlace, ClosedPcs, TeardownPcs,
           EarlyPcs, DepthPcs, BatchPcs, RefusePcs, LeavePcs, KillPcs, TokenPcs
  <2>3. ASSUME ~Closing PROVE ScheduleToken'
    <3>1. global_queue = 0 /\ \A u \in Threads : ~Dispatching(u) /\ (HoldsToken(u) => u = w)
      BY <1>0, <2>3, TokenAlone
    <3>2. \A u \in Threads : (Dispatching(u)' <=> u = w) /\ ~HoldsToken(u)'
      BY <1>0, <2>1, <2>2, <3>1, Moved
    <3>3. QED
      BY <1>0, <2>1, <3>1, <3>2 DEF ScheduleToken
  <2>4. initialized
    BY <1>0 DEF IInv, EarlyInv
  <2>5. QED
    BY <1>0, <2>1, <2>2, <2>3, <2>4, LightMove DEF Claim
<1>3. CASE schedule_state # 1
  <2>1. /\ "idle" \notin {"glob", "k_glob"} \cup TeardownPcs \cup EarlyPcs
        /\ ~BatchPlace(w, "idle") /\ ~DepthPlace(w, "idle") /\ ~DepthPlace(w, "claim")
    BY DEF BatchPlace, DepthPlace, TeardownPcs, EarlyPcs, DepthPcs, BatchPcs, RefusePcs,
           LeavePcs, KillPcs
  <2>2. MoveTo(w, "idle") /\ global_queue' = global_queue /\ dispatch_depth' = dispatch_depth
    BY <1>3 DEF Go, MoveTo, Claim
  <2>3. QED
    BY <1>0, <1>1, <1>3, <2>1, <2>2, ClosedMove
<1>4. QED
  BY <1>2, <1>3

(* A worker that finds no actor does not open a dispatch. *)
LEMMA QueueOwnerKeeps ==
  ASSUME IInv, NEW w \in Workers, QueueOwner(w)
  PROVE  Rest'
<1> USE DEF registryVars, scheduleVars, mailVars, actorVars, localVars
<1>0. w \in Threads /\ FlagsRise /\ pc[w] = "owner"
  BY DEF Threads, QueueOwner, FlagsRise, Closing, Go
<1>1. CASE owner
  <2>1. SamePlace(w, "owner", "enter") /\ "enter" \notin ClosedPcs
    BY ThreadsAssumption
    DEF SamePlace, BatchPlace, DepthPlace, TokenPlace, OpenPlace, ClosedPcs,
        TeardownPcs, EarlyPcs, DepthPcs, BatchPcs, RefusePcs, LeavePcs, KillPcs, TokenPcs
  <2>2. QED
    BY <1>0, <1>1, <2>1, OpenGo DEF QueueOwner
<1>2. CASE ~owner
  <2>1. Closing
    BY <1>2 DEF IInv, ClosedInv
  <2>2. /\ "n_drain" \notin {"glob", "k_glob"} \cup TeardownPcs \cup EarlyPcs
        /\ ~BatchPlace(w, "n_drain") /\ ~DepthPlace(w, "n_drain") /\ ~DepthPlace(w, "owner")
    BY DEF BatchPlace, DepthPlace, TeardownPcs, EarlyPcs, DepthPcs, BatchPcs, RefusePcs,
           LeavePcs, KillPcs
  <2>3. MoveTo(w, "n_drain") /\ global_queue' = global_queue /\ dispatch_depth' = dispatch_depth
    BY <1>2 DEF Go, MoveTo, QueueOwner
  <2>4. QED
    BY <1>0, <2>1, <2>2, <2>3, ClosedMove
<1>3. QED
  BY <1>1, <1>2

(* The batch begins only with the queue open: its worker is the only dispatch, and no
   thread is past the test of the depth. *)
LEMMA CheckKeeps ==
  ASSUME IInv, NEW w \in Workers, TestClosing(w, "check", "r_drain", "batch")
  PROVE  Rest'
<1> USE DEF registryVars, scheduleVars, mailVars, actorVars, localVars
<1>0. w \in Threads /\ FlagsRise /\ pc[w] = "check" /\ Workers \subseteq Threads
      /\ (Closing' <=> Closing)
  BY DEF Threads, TestClosing, FlagsRise, Closing, Go
<1>1. CASE Closing
  <2>1. /\ "r_drain" \notin {"glob", "k_glob"} \cup TeardownPcs \cup EarlyPcs
        /\ ~BatchPlace(w, "r_drain") /\ DepthPlace(w, "r_drain") /\ DepthPlace(w, "check")
    BY DEF BatchPlace, DepthPlace, TeardownPcs, EarlyPcs, DepthPcs, BatchPcs, RefusePcs,
           LeavePcs, KillPcs
  <2>2. MoveTo(w, "r_drain") /\ global_queue' = global_queue /\ dispatch_depth' = dispatch_depth
    BY <1>1 DEF Go, MoveTo, TestClosing
  <2>3. QED
    BY <1>0, <1>1, <2>1, <2>2, ClosedMove
<1>2. CASE ~Closing
  <2>0. MoveTo(w, "batch")
    BY <1>2 DEF Go, MoveTo, TestClosing
  <2>1. \A u \in Threads : pc'[u] = IF u = w THEN "batch" ELSE pc[u]
    BY <1>0, <2>0 DEF IInv, PlacesOK, MoveTo
  <2>2. /\ "batch" \notin {"glob", "k_glob"} \cup TeardownPcs \cup EarlyPcs \cup ClosedPcs
        /\ BatchPlace(w, "batch") /\ DepthPlace(w, "batch") /\ DepthPlace(w, "check")
        /\ ~TokenPlace(w, "batch")
    BY DEF BatchPlace, DepthPlace, TeardownPcs, EarlyPcs, DepthPcs, BatchPcs, RefusePcs,
           LeavePcs, KillPcs, TokenPlace, TokenPcs, ClosedPcs
  <2>3. Dispatching(w)
    BY <1>0 DEF Dispatching
  <2>4. \A u \in Threads : (Dispatching(u)' <=> u = w) /\ ~HoldsToken(u)'
    BY <1>0, <1>2, <2>0, <2>2, <2>3, DispatchAlone, Moved
  <2>5. schedule_state' = 2 /\ global_queue' = 0
    BY <1>0, <1>2, <2>3, DispatchAlone DEF TestClosing
  <2>6. ScheduleToken'
    BY <1>0, <2>4, <2>5 DEF ScheduleToken
  <2>7. MutualExclusion'
    BY <1>0, <2>4 DEF MutualExclusion, Dispatching
  <2>8. TeardownInv'
    <3>1. \A t \in Threads : pc'[t] \notin TeardownPcs
      BY <1>2, <2>1, <2>2 DEF IInv, ClosedInv, TeardownPcs, ClosedPcs, KillPcs
    <3>2. QED
      BY <3>1 DEF TeardownInv
  <2>9. ClosedInv'
    BY <1>0, <2>1, <2>2 DEF IInv, ClosedInv, TestClosing
  <2>10. EarlyInv'
    <3>1. initialized /\ initialized' /\ w # Spawner
      BY <1>0, ThreadsAssumption DEF IInv, EarlyInv, TestClosing
    <3>2. QED
      BY <3>1, <2>1 DEF IInv, EarlyInv, Threads
  <2>11. DepthCounts'
    BY <1>0, <2>0, <2>2, DepthStays DEF TestClosing
  <2>12. QED
    BY <2>6, <2>7, <2>8, <2>9, <2>10, <2>11 DEF Rest
<1>3. QED
  BY <1>1, <1>2

-------------------------------------------------------------------------------
(* The depth. *)

Counted == {w \in Workers : pc[w] \in DepthPcs}

(* The depth is the size of a finite set. *)
LEMMA DepthIsSize ==
  ASSUME IInv
  PROVE  IsFiniteSet(Counted) /\ dispatch_depth = Cardinality(Counted)
  BY ThreadsAssumption, FS_Subset DEF IInv, DepthCounts, Counted, DepthPcs

(* A depth of zero: no worker is in the batch. *)
LEMMA NobodyCounted ==
  ASSUME IInv, dispatch_depth = 0
  PROVE  \A w \in Workers : ~InBatch(w)
<1>1. Counted = {}
  BY DepthIsSize, FS_EmptySet
<1>2. QED
  BY <1>1 DEF Counted, InBatch, DepthPcs

(* The fetch_add of the depth adds its worker to the ones it counts. *)
LEMMA EnterKeeps ==
  ASSUME IInv, NEW w \in Workers, Enter(w)
  PROVE  Rest'
<1> USE DEF registryVars, scheduleVars, mailVars, actorVars, localVars
<1>0. w \in Threads /\ FlagsRise /\ pc[w] = "enter" /\ MoveTo(w, "check")
      /\ (Closing' <=> Closing)
  BY DEF Threads, Enter, FlagsRise, Closing, Go, MoveTo
<1>1. /\ "check" \notin {"glob", "k_glob"} \cup TeardownPcs \cup EarlyPcs \cup ClosedPcs
      /\ ~BatchPlace(w, "check") /\ ~DepthPlace(w, "enter") /\ DepthPlace(w, "check")
      /\ OpenPlace(w, "check") /\ ~TokenPlace(w, "check")
  BY DEF BatchPlace, DepthPlace, TeardownPcs, EarlyPcs, DepthPcs, BatchPcs, RefusePcs,
         LeavePcs, KillPcs, TokenPlace, TokenPcs, OpenPlace, ClosedPcs
<1>2. ClosedInv' /\ TeardownInv' /\ EarlyInv' /\ MutualExclusion'
  BY <1>0, <1>1, MoveKeeps DEF Enter
<1>3. DepthCounts'
  <2>1. Counted' = Counted \cup {w} /\ w \notin Counted
    BY <1>0, <1>1 DEF Counted, DepthPlace, MoveTo, IInv, PlacesOK, Threads
  <2>2. Cardinality(Counted') = Cardinality(Counted) + 1
    BY <2>1, DepthIsSize, FS_AddElement
  <2>3. QED
    BY <2>2, DepthIsSize DEF Enter, DepthCounts, Counted, DepthPcs
<1>4. ScheduleToken'
  <2>1. Dispatching(w) /\ ~HoldsToken(w)
    BY <1>0 DEF Dispatching, HoldsToken, TokenPcs
  <2>2. \A u \in Threads : (HoldsToken(u)' <=> HoldsToken(u)) /\ (Dispatching(u)' <=> Dispatching(u))
    BY <1>0, <1>1, <2>1, Moved
  <2>3. QED
    BY <1>0, <2>2 DEF IInv, ScheduleToken, Enter
<1>5. QED
  BY <1>2, <1>3, <1>4 DEF Rest

(* The fetch_sub takes its worker out; the one that reads 1 was alone. *)
LEMMA LeaveKeeps ==
  ASSUME IInv, NEW w \in Workers,
         NEW from \in {"leave", "r_leave"}, NEW last \in {"last", "r_destroy"},
         last = "r_destroy" => from = "r_leave",
         Leave(w, from, last, "idle")
  PROVE  Rest'
<1> USE DEF registryVars, scheduleVars, mailVars, actorVars, localVars
<1> DEFINE to == IF dispatch_depth = 1 THEN last ELSE "idle"
<1>0. w \in Threads /\ FlagsRise /\ pc[w] = from /\ MoveTo(w, to) /\ (Closing' <=> Closing)
  BY DEF Threads, Leave, FlagsRise, Closing, Go, MoveTo
<1> HIDE DEF to
<1>1. to \in {"idle", "last", "r_destroy"}
  BY DEF to
<1>2. /\ to \notin {"glob", "k_glob"} \cup EarlyPcs /\ "idle" \notin EarlyPcs
      /\ (to \in TeardownPcs \/ to \in ClosedPcs => to = "r_destroy")
      /\ ~BatchPlace(w, to) /\ DepthPlace(w, from) /\ ~DepthPlace(w, to)
      /\ ~OpenPlace(w, to) /\ ~TokenPlace(w, to)
  BY <1>1 DEF BatchPlace, DepthPlace, TeardownPcs, EarlyPcs, DepthPcs, BatchPcs, RefusePcs,
         LeavePcs, KillPcs, TokenPlace, TokenPcs, OpenPlace, ClosedPcs
<1>3. Counted' = Counted \ {w} /\ w \in Counted
  BY <1>0, <1>2 DEF Counted, DepthPlace, MoveTo, IInv, PlacesOK, Threads
<1>4. DepthCounts'
  <2>1. Cardinality(Counted') = Cardinality(Counted) - 1
    BY <1>3, DepthIsSize, FS_RemoveElement
  <2>2. QED
    BY <2>1, DepthIsSize DEF Leave, DepthCounts, Counted, DepthPcs
<1>5. ASSUME to = "r_destroy" PROVE Closing /\ \A v \in Workers : ~InBatch(v)
  <2>1. dispatch_depth = 1 /\ from = "r_leave"
    BY <1>5 DEF to
  <2>2. Closing
    BY <1>0, <2>1 DEF IInv, ClosedInv, ClosedPcs, RefusePcs
  <2>3. Counted = {w}
    <3>1. Cardinality(Counted \ {w}) = 0 /\ IsFiniteSet(Counted \ {w})
      BY <1>3, <2>1, DepthIsSize, FS_RemoveElement
    <3>2. Counted \ {w} = {}
      BY <3>1, FS_EmptySet
    <3>3. QED
      BY <1>3, <3>2
  <2>4. ~InBatch(w)
    BY <1>0, <2>1 DEF InBatch, BatchPcs, KillPcs
  <2>5. QED
    BY <2>2, <2>3, <2>4 DEF Counted, InBatch, DepthPcs
<1>6. ClosedInv' /\ TeardownInv' /\ EarlyInv' /\ MutualExclusion'
  BY <1>0, <1>2, <1>5, MoveKeeps DEF Leave
<1>7. ScheduleToken'
  <2>1. ~Dispatching(w) /\ ~HoldsToken(w)
    BY <1>0 DEF Dispatching, HoldsToken, InBatch, TokenPcs, BatchPcs, KillPcs
  <2>2. \A u \in Threads : (HoldsToken(u)' <=> HoldsToken(u)) /\ (Dispatching(u)' <=> Dispatching(u))
    BY <1>0, <1>2, <2>1, Moved
  <2>3. QED
    BY <1>0, <2>2 DEF IInv, ScheduleToken, Leave
<1>8. QED
  BY <1>4, <1>6, <1>7 DEF Rest

-------------------------------------------------------------------------------
(* The end of a batch. *)

(* The store of 1 turns the dispatch back into an entry. *)
LEMMA StoreQueuedKeeps ==
  ASSUME IInv, NEW w \in Workers, StoreQueued(w)
  PROVE  Rest'
<1> USE DEF registryVars, scheduleVars, mailVars, actorVars, localVars
<1>0. w \in Threads /\ pc[w] = "requeue" /\ MoveTo(w, "glob") /\ initialized
  BY DEF Threads, StoreQueued, Go, MoveTo, IInv, EarlyInv
<1>1. LightPlace(w, "requeue", "glob") /\ TokenPlace(w, "glob")
      /\ ~BatchPlace(w, "glob") /\ ~OpenPlace(w, "glob")
  BY DEF LightPlace, BatchPlace, DepthPlace, TokenPlace, OpenPlace, ClosedPcs, TeardownPcs,
         EarlyPcs, DepthPcs, BatchPcs, RefusePcs, LeavePcs, KillPcs
<1>2. ASSUME ~Closing PROVE ScheduleToken'
  <2>1. Dispatching(w)
    BY <1>0 DEF Dispatching, InBatch, BatchPcs
  <2>2. \A u \in Threads : (HoldsToken(u)' <=> u = w) /\ ~Dispatching(u)'
    BY <1>0, <1>1, <1>2, <2>1, DispatchAlone, Moved
  <2>3. schedule_state' = 1 /\ global_queue' = 0
    BY <1>0, <1>2, <2>1, DispatchAlone DEF StoreQueued
  <2>4. QED
    BY <1>0, <2>2, <2>3 DEF ScheduleToken
<1>3. QED
  BY <1>0, <1>1, <1>2, LightMove DEF StoreQueued

(* The store of 0 ends the dispatch. *)
LEMMA RestKeeps ==
  ASSUME IInv, NEW w \in Workers, StoreIdle(w, "rest", "reset")
  PROVE  Rest'
<1> USE DEF registryVars, scheduleVars, mailVars, actorVars, localVars
<1>0. w \in Threads /\ pc[w] = "rest" /\ MoveTo(w, "reset") /\ initialized
  BY DEF Threads, StoreIdle, Go, MoveTo, IInv, EarlyInv
<1>1. LightPlace(w, "rest", "reset") /\ ~TokenPlace(w, "reset")
      /\ ~BatchPlace(w, "reset") /\ ~OpenPlace(w, "reset")
  BY DEF LightPlace, BatchPlace, DepthPlace, TokenPlace, OpenPlace, ClosedPcs, TeardownPcs,
         EarlyPcs, DepthPcs, BatchPcs, RefusePcs, LeavePcs, KillPcs, TokenPcs
<1>2. ASSUME ~Closing PROVE ScheduleToken'
  <2>1. Dispatching(w)
    BY <1>0 DEF Dispatching, InBatch, BatchPcs
  <2>2. \A u \in Threads : ~HoldsToken(u)' /\ ~Dispatching(u)'
    BY <1>0, <1>1, <1>2, <2>1, DispatchAlone, Moved
  <2>3. schedule_state' = 0 /\ global_queue' = 0
    BY <1>0, <1>2, <2>1, DispatchAlone DEF StoreIdle
  <2>4. QED
    BY <2>2, <2>3 DEF ScheduleToken
<1>3. QED
  BY <1>0, <1>1, <1>2, LightMove DEF StoreIdle

-------------------------------------------------------------------------------
(* spawn *)

(* The store of initialized lets the queue be scheduled. *)
LEMMA StoreInitializedKeeps ==
  ASSUME IInv, NEW t \in {Spawner}, StoreInitialized(t)
  PROVE  Rest'
<1> USE DEF registryVars, scheduleVars, mailVars, actorVars, localVars
<1>0. t \in Threads /\ pc[t] = "init_ok" /\ MoveTo(t, "init_count") /\ (Closing' <=> Closing)
  BY DEF Threads, StoreInitialized, Go, MoveTo, Closing
<1>1. \A u \in Threads : pc'[u] = IF u = t THEN "init_count" ELSE pc[u]
  BY <1>0 DEF IInv, PlacesOK, MoveTo
<1>2. /\ "init_count" \notin ClosedPcs \cup TeardownPcs \cup EarlyPcs
      /\ ~BatchPlace(t, "init_count") /\ ~OpenPlace(t, "init_count")
      /\ ~TokenPlace(t, "init_count")
      /\ ~DepthPlace(t, "init_count") /\ ~DepthPlace(t, "init_ok")
  BY ThreadsAssumption DEF BatchPlace, DepthPlace, TokenPlace, OpenPlace, ClosedPcs,
     TeardownPcs, EarlyPcs, KillPcs, RefusePcs
<1>3. DepthCounts'
  BY <1>0, <1>2, DepthStays DEF StoreInitialized
<1>4. ~HoldsToken(t) /\ ~Dispatching(t)
  BY <1>0, ThreadsAssumption DEF HoldsToken, Dispatching, InBatch
<1>5. \A u \in Threads : (HoldsToken(u)' <=> HoldsToken(u)) /\ (Dispatching(u)' <=> Dispatching(u))
  BY <1>0, <1>2, <1>4, Moved
<1>6. ScheduleToken'
  BY <1>0, <1>5 DEF IInv, ScheduleToken, StoreInitialized
<1>7. ClosedInv'
  BY <1>0, <1>1, <1>2 DEF IInv, ClosedInv, StoreInitialized
<1>8. \A w \in Workers : w # t /\ w \in Threads /\ (InBatch(w)' <=> InBatch(w))
  BY <1>1, ThreadsAssumption DEF InBatch, Threads
<1>9. TeardownInv' /\ MutualExclusion'
  BY <1>1, <1>2, <1>8 DEF IInv, TeardownInv, MutualExclusion
<1>10. EarlyInv'
  BY <1>0, <1>1, <1>2 DEF EarlyInv, StoreInitialized
<1>11. QED
  BY <1>3, <1>6, <1>7, <1>9, <1>10 DEF Rest

(* accepting and releasing: from here on the queue is closed. *)
LEMMA CloseKeeps ==
  ASSUME IInv, NEW t \in Threads, NEW from, NEW after, Close(t, from, after),
         \/ from = "fail_close" /\ after = "fail_drain"
         \/ from = "k_close" /\ after = "k_owner"
  PROVE  Rest'
<1> USE DEF registryVars, scheduleVars, mailVars, actorVars, localVars
<1>0. pc[t] = from /\ MoveTo(t, after) /\ Closing' /\ FlagsRise
  BY DEF Close, Go, MoveTo, Closing, FlagsRise
<1>1. /\ after \notin {"glob", "k_glob"} \cup TeardownPcs
      /\ (after \in EarlyPcs => from \in EarlyPcs) /\ from # "idle"
      /\ (BatchPlace(t, after) => BatchPlace(t, from))
      /\ (DepthPlace(t, after) <=> DepthPlace(t, from))
  BY DEF BatchPlace, DepthPlace, TeardownPcs, EarlyPcs, DepthPcs, BatchPcs, RefusePcs,
         LeavePcs, KillPcs
<1>2. ClosedInv' /\ TeardownInv' /\ EarlyInv' /\ MutualExclusion'
  BY <1>0, <1>1, MoveKeeps DEF Close
<1>3. DepthCounts'
  BY <1>0, <1>1, DepthStays DEF Close
<1>4. ScheduleToken'
  BY <1>0 DEF ScheduleToken
<1>5. QED
  BY <1>2, <1>3, <1>4 DEF Rest

-------------------------------------------------------------------------------
(* kill *)

(* The erase that a kill begins with, from outside or in the actor's own callback. *)
LEMMA KillEraseKeeps ==
  ASSUME IInv, NEW t \in Threads, KillErase(t)
  PROVE  Rest'
<1> USE DEF registryVars, scheduleVars, mailVars, actorVars, localVars
<1> DEFINE to == IF registered THEN "k_close" ELSE AfterKill(t)
<1>0. FlagsRise /\ MoveTo(t, to) /\ Place(t, pc[t])
  BY DEF KillErase, FlagsRise, Closing, MoveTo, IInv, PlacesOK
<1>1. \/ t \in Killers /\ pc[t] = "erase" /\ to \in {"k_close", "done"}
      \/ t \in Workers /\ pc[t] = "on_message" /\ to = "k_close"
      \/ t = Spawner /\ pc[t] = "on_init" /\ to = "k_close"
  <2>1. CASE pc[t] = "erase"
    <3>1. t \in Killers
      BY <1>0, <2>1 DEF Place, Threads, WorkerPcs, TokenPcs, BatchPcs, KillPcs, RefusePcs,
                        LeavePcs, SenderPcs, SpawnerPcs
    <3>2. QED
      BY <2>1, <3>1, ThreadsAssumption DEF AfterKill
  <2>2. CASE t \in SelfKillers /\ pc[t] \in {"on_message", "on_init"} /\ registered
    BY <1>0, <2>2, ThreadsAssumption
    DEF Place, WorkerPcs, TokenPcs, BatchPcs, KillPcs, RefusePcs, LeavePcs, SpawnerPcs
  <2>3. QED
    BY <2>1, <2>2 DEF KillErase
<1>2. SamePlace(t, pc[t], to) /\ to \notin ClosedPcs
  <2> HIDE DEF to
  <2>1. QED
    BY <1>1, ThreadsAssumption
    DEF SamePlace, BatchPlace, DepthPlace, TokenPlace, OpenPlace, ClosedPcs,
        TeardownPcs, EarlyPcs, DepthPcs, BatchPcs, RefusePcs, LeavePcs, KillPcs, TokenPcs
<1>3. QED
  BY <1>0, <1>2, OpenMove DEF KillErase

(* Every step of kill. *)
LEMMA KillKeeps ==
  ASSUME IInv, NEW t \in Threads, t \notin Messages, Kill(t)
  PROVE  Rest'
<1> USE DEF registryVars, scheduleVars, mailVars, actorVars, localVars
<1> DEFINE after == AfterKill(t)
<1>0. /\ t \in Workers => after = "on_message"
      /\ t = Spawner => after = "on_init"
      /\ t \notin Workers \cup {Spawner} => after = "done"
  BY ThreadsAssumption DEF AfterKill
<1> HIDE DEF after
<1>1. /\ ClosedPlace(t, "k_owner", "k_depth") /\ ClosedPlace(t, "k_owner", "k_cas")
      /\ ClosedPlace(t, "k_depth", "k_cas") /\ ClosedPlace(t, "k_drain", "k_zero")
      /\ ClosedPlace(t, "k_zero", "k_destroy") /\ ClosedPlace(t, "k_destroy", "k_on_destroy")
      /\ ClosedPlace(t, "k_destroy", "k_clear") /\ ClosedPlace(t, "k_on_destroy", "k_clear")
      /\ ClosedPlace(t, "k_clear", "k_idle")
  BY DEF ClosedPlace, BatchPlace, DepthPlace, ClosedPcs, TeardownPcs, EarlyPcs, DepthPcs,
         BatchPcs, KillPcs
<1>2. /\ ClosedPlace(t, "k_idle", after) /\ ClosedPlace(t, "k_cas", after)
      /\ ClosedPlace(t, "k_glob", after)
  BY <1>0, ThreadsAssumption
  DEF ClosedPlace, BatchPlace, DepthPlace, ClosedPcs, TeardownPcs, EarlyPcs, DepthPcs,
      BatchPcs, KillPcs, RefusePcs, LeavePcs
<1>3. CASE KillErase(t) \/ Close(t, "k_close", "k_owner")
  BY <1>3, KillEraseKeeps, CloseKeeps
<1>4. CASE KillOwner(t)
  BY <1>1, <1>4, ClosedGo DEF KillOwner, FlagsRise, Closing
<1>5. CASE KillDepth(t)
  <2>1. FlagsRise /\ pc[t] = "k_depth" /\ Closing
    BY <1>5 DEF KillDepth, FlagsRise, Closing, Go, IInv, ClosedInv, ClosedPcs, KillPcs
  <2>2. CASE dispatch_depth = 0
    <3>1. \A w \in Workers : ~InBatch(w)
      BY <2>2, NobodyCounted
    <3>2. /\ "k_drain" \notin {"glob", "k_glob"} /\ "k_depth" \in EarlyPcs
          /\ (BatchPlace(t, "k_drain") => BatchPlace(t, "k_depth"))
          /\ (DepthPlace(t, "k_drain") <=> DepthPlace(t, "k_depth"))
      BY DEF BatchPlace, DepthPlace, EarlyPcs, DepthPcs, BatchPcs, KillPcs
    <3>3. MoveTo(t, "k_drain") /\ global_queue' = global_queue
          /\ dispatch_depth' = dispatch_depth
      BY <1>5, <2>2 DEF KillDepth, Go, MoveTo
    <3>4. QED
      BY <2>1, <3>1, <3>2, <3>3, ClosedMove
  <2>3. CASE dispatch_depth # 0
    BY <1>1, <1>5, <2>1, <2>3, ClosedGo DEF KillDepth
  <2>4. QED
    BY <2>2, <2>3
<1>6. CASE Drain(t, "k_drain", "k_zero", "k_destroy")
  BY <1>1, <1>6, DrainKeeps
<1>7. CASE Destroy(t, "k_destroy", "k_on_destroy", "k_clear", "k_idle")
  BY <1>1, <1>7, DestroyKeeps
<1>8. CASE StoreIdle(t, "k_idle", after)
  BY <1>2, <1>8, StoreIdleKeeps
<1>9. CASE Schedule(t, "k_cas", "k_glob", after)
  <2>1. FlagsRise /\ pc[t] = "k_cas" /\ Closing
    BY <1>9 DEF Schedule, FlagsRise, Closing, Go, IInv, ClosedInv, ClosedPcs, KillPcs
  <2>2. CASE initialized /\ schedule_state = 0
    <3>1. /\ "k_glob" \notin TeardownPcs /\ "k_cas" \in EarlyPcs
          /\ (BatchPlace(t, "k_glob") => BatchPlace(t, "k_cas"))
          /\ (DepthPlace(t, "k_glob") <=> DepthPlace(t, "k_cas"))
      BY DEF BatchPlace, DepthPlace, EarlyPcs, DepthPcs, BatchPcs, KillPcs, TeardownPcs
    <3>2. MoveTo(t, "k_glob") /\ global_queue' = global_queue
          /\ dispatch_depth' = dispatch_depth
      BY <1>9, <2>2 DEF Schedule, Go, MoveTo
    <3>3. QED
      BY <2>1, <2>2, <3>1, <3>2, ClosedMove
  <2>3. CASE ~(initialized /\ schedule_state = 0)
    BY <1>2, <1>9, <2>1, <2>3, ClosedGo DEF Schedule
  <2>4. QED
    BY <2>2, <2>3
<1>10. CASE EnqueueGlobal(t, "k_glob", after)
  <2>1. FlagsRise /\ pc[t] = "k_glob" /\ MoveTo(t, after) /\ dispatch_depth' = dispatch_depth
    BY <1>10 DEF EnqueueGlobal, FlagsRise, Closing, Go, MoveTo
  <2>2. Closing /\ initialized
    BY <2>1 DEF IInv, ClosedInv, EarlyInv, ClosedPcs, KillPcs
  <2>3. QED
    BY <1>2, <2>1, <2>2, ClosedMove DEF ClosedPlace
<1>11. QED
  BY <1>3, <1>4, <1>5, <1>6, <1>7, <1>8, <1>9, <1>10 DEF Kill, after

(* Every step of push_message. *)
LEMMA PushKeeps ==
  ASSUME IInv, NEW t \in Messages, PushMessage(t)
  PROVE  Rest'
<1> USE DEF registryVars, scheduleVars, mailVars, actorVars, localVars, FlagsRise, Closing
<1>0. t \in Threads /\ t \notin Workers /\ t # Spawner
  BY ThreadsAssumption DEF Threads
<1>1. ASSUME NEW from \in SenderPcs \ {"glob"},
             NEW to \in {"enqueue", "count", "overload", "cas", "done"}
      PROVE  SamePlace(t, from, to) /\ to \notin ClosedPcs
  BY <1>0, <1>1
  DEF SamePlace, BatchPlace, DepthPlace, TokenPlace, OpenPlace, ClosedPcs, TeardownPcs,
      KillPcs, RefusePcs, SenderPcs
<1>2. CASE Grab(t)
  BY <1>0, <1>1, <1>2, OpenGo DEF Grab, SenderPcs
<1>3. CASE Enqueue(t)
  BY <1>0, <1>1, <1>3, OpenGo DEF Enqueue, SenderPcs
<1>4. CASE Count(t)
  BY <1>0, <1>1, <1>4, OpenGo DEF Count, SenderPcs
<1>5. CASE Overload(t)
  BY <1>0, <1>1, <1>5, OpenGo DEF Overload, SenderPcs
<1>6. QED
  BY <1>0, <1>2, <1>3, <1>4, <1>5, ScheduleKeeps, EnqueueGlobalKeeps DEF PushMessage

(* Every step of spawn. *)
LEMMA SpawnKeeps ==
  ASSUME IInv, NEW t \in {Spawner}, Spawn(t)
  PROVE  Rest'
<1> USE DEF registryVars, scheduleVars, mailVars, actorVars, localVars
<1>0. t \in Threads /\ t \notin Workers
  BY ThreadsAssumption DEF Threads
<1>1. ASSUME NEW from \in (EarlyPcs \ KillPcs) \cup {"init_count"}, NEW to,
             \/ from \in EarlyPcs /\ to \in {"on_init", "init_ok", "fail_erase", "fail_close"}
             \/ to \in {"cas", "done"}
      PROVE  SamePlace(t, from, to) /\ to \notin ClosedPcs
  BY <1>0, <1>1
  DEF SamePlace, BatchPlace, DepthPlace, TokenPlace, OpenPlace, ClosedPcs, TeardownPcs,
      KillPcs, RefusePcs, EarlyPcs
<1>2. CASE Register(t)
  BY <1>0, <1>1, <1>2, OpenGo DEF Register, EarlyPcs, KillPcs, FlagsRise, Closing
<1>3. CASE InitReturns(t)
  BY <1>0, <1>1, <1>3, OpenGo DEF InitReturns, EarlyPcs, KillPcs, FlagsRise, Closing
<1>4. CASE InitCount(t)
  BY <1>0, <1>1, <1>4, OpenGo DEF InitCount, FlagsRise, Closing
<1>5. CASE FailErase(t)
  BY <1>0, <1>1, <1>5, OpenGo DEF FailErase, EarlyPcs, KillPcs, FlagsRise, Closing
<1>6. /\ ClosedPlace(t, "fail_drain", "fail_zero") /\ ClosedPlace(t, "fail_zero", "fail_destroy")
      /\ ClosedPlace(t, "fail_destroy", "fail_on_destroy")
      /\ ClosedPlace(t, "fail_destroy", "fail_clear")
      /\ ClosedPlace(t, "fail_on_destroy", "fail_clear") /\ ClosedPlace(t, "fail_clear", "done")
  BY <1>0
  DEF ClosedPlace, BatchPlace, DepthPlace, ClosedPcs, TeardownPcs, EarlyPcs, KillPcs, RefusePcs
<1>7. CASE Drain(t, "fail_drain", "fail_zero", "fail_destroy")
  BY <1>0, <1>6, <1>7, DrainKeeps
<1>8. CASE Destroy(t, "fail_destroy", "fail_on_destroy", "fail_clear", "done")
  BY <1>0, <1>6, <1>8, DestroyKeeps
<1>9. QED
  BY <1>0, <1>2, <1>3, <1>4, <1>5, <1>7, <1>8, ScheduleKeeps, EnqueueGlobalKeeps,
     StoreInitializedKeeps, CloseKeeps
  DEF Spawn

-------------------------------------------------------------------------------
(* The other steps of dispatch_queue. *)

(* Moves of a worker between places that are the same for every part. *)
LEMMA WorkerMovesSame ==
  ASSUME NEW w \in Workers, NEW from, NEW to,
         \/ from = "batch" /\ to = "loop"
         \/ from = "loop" /\ to \in {"after", "take"}
         \/ from = "take" /\ to \in {"uncount", "after"}
         \/ from = "uncount" /\ to = "on_message"
         \/ from = "on_message" /\ to = "loop"
         \/ from = "after" /\ to \in {"e_drain", "more"}
         \/ from = "more" /\ to \in {"requeue", "rest"}
         \/ from = "reset" /\ to = "recheck"
         \/ from = "recheck" /\ to \in {"leave", "recount"}
         \/ from = "recount" /\ to \in {"cas", "leave"}
         \/ from = "last" /\ to \in {"x_destroy", "idle"}
  PROVE  SamePlace(w, from, to) /\ (to \in ClosedPcs => to \in {"e_drain", "x_destroy"})
  BY ThreadsAssumption
  DEF SamePlace, BatchPlace, DepthPlace, TokenPlace, OpenPlace, ClosedPcs,
      TeardownPcs, EarlyPcs, DepthPcs, BatchPcs, RefusePcs, LeavePcs, KillPcs, TokenPcs

(* The batch and the tests around it. *)
LEMMA BatchKeeps ==
  ASSUME IInv, NEW w \in Workers,
         \/ LoadBatch(w) \/ LoopTest(w) \/ TakeMessage(w) \/ TakeNothing(w) \/ Uncount(w)
         \/ OnMessageReturns(w) \/ ResetOverload(w)
         \/ TestClosing(w, "after", "e_drain", "more")
         \/ TestClosing(w, "recheck", "leave", "recount")
         \/ TestClosing(w, "last", "x_destroy", "idle")
         \/ TestCount(w, "more", "requeue", "rest") \/ TestCount(w, "recount", "cas", "leave")
  PROVE  Rest'
<1> USE DEF registryVars, scheduleVars, mailVars, actorVars, localVars, FlagsRise, Closing
<1>0. w \in Threads
  BY DEF Threads
<1>1. CASE LoadBatch(w)
  BY <1>0, <1>1, WorkerMovesSame, OpenGo DEF LoadBatch
<1>2. CASE LoopTest(w)
  BY <1>0, <1>2, WorkerMovesSame, OpenGo DEF LoopTest
<1>3. CASE TakeMessage(w)
  BY <1>0, <1>3, WorkerMovesSame, OpenGo DEF TakeMessage
<1>4. CASE TakeNothing(w)
  BY <1>0, <1>4, WorkerMovesSame, OpenGo DEF TakeNothing
<1>5. CASE Uncount(w)
  BY <1>0, <1>5, WorkerMovesSame, OpenGo DEF Uncount
<1>6. CASE OnMessageReturns(w)
  BY <1>0, <1>6, WorkerMovesSame, OpenGo DEF OnMessageReturns
<1>7. CASE ResetOverload(w)
  BY <1>0, <1>7, WorkerMovesSame, OpenGo DEF ResetOverload
<1>8. CASE TestClosing(w, "after", "e_drain", "more")
  BY <1>0, <1>8, WorkerMovesSame, OpenGo DEF TestClosing
<1>9. CASE TestClosing(w, "recheck", "leave", "recount")
  BY <1>0, <1>9, WorkerMovesSame, OpenGo DEF TestClosing
<1>10. CASE TestClosing(w, "last", "x_destroy", "idle")
  BY <1>0, <1>10, WorkerMovesSame, OpenGo DEF TestClosing
<1>11. CASE TestCount(w, "more", "requeue", "rest")
  BY <1>0, <1>11, WorkerMovesSame, OpenGo DEF TestCount
<1>12. CASE TestCount(w, "recount", "cas", "leave")
  BY <1>0, <1>12, WorkerMovesSame, OpenGo DEF TestCount
<1>13. QED
  BY <1>1, <1>2, <1>3, <1>4, <1>5, <1>6, <1>7, <1>8, <1>9, <1>10, <1>11, <1>12

(* Every step of worker_loop and dispatch_queue. *)
LEMMA DispatchKeeps ==
  ASSUME IInv, NEW w \in Workers, Pop(w) \/ DispatchQueue(w)
  PROVE  Rest'
<1>0. w \in Threads /\ w # Spawner
  BY ThreadsAssumption DEF Threads
<1>1. /\ ClosedPlace(w, "n_drain", "n_zero") /\ ClosedPlace(w, "n_zero", "n_idle")
      /\ ClosedPlace(w, "n_idle", "idle")
      /\ ClosedPlace(w, "r_drain", "r_zero") /\ ClosedPlace(w, "r_zero", "r_idle")
      /\ ClosedPlace(w, "r_idle", "r_leave")
      /\ ClosedPlace(w, "e_drain", "e_zero") /\ ClosedPlace(w, "e_zero", "e_idle")
      /\ ClosedPlace(w, "e_idle", "leave")
  BY <1>0
  DEF ClosedPlace, BatchPlace, DepthPlace, ClosedPcs, TeardownPcs, DepthPcs, BatchPcs,
      RefusePcs, LeavePcs, KillPcs
<1>2. /\ ClosedPlace(w, "r_destroy", "r_on_destroy") /\ ClosedPlace(w, "r_destroy", "r_clear")
      /\ ClosedPlace(w, "r_on_destroy", "r_clear") /\ ClosedPlace(w, "r_clear", "idle")
      /\ ClosedPlace(w, "x_destroy", "x_on_destroy") /\ ClosedPlace(w, "x_destroy", "x_clear")
      /\ ClosedPlace(w, "x_on_destroy", "x_clear") /\ ClosedPlace(w, "x_clear", "idle")
  BY <1>0
  DEF ClosedPlace, BatchPlace, DepthPlace, ClosedPcs, TeardownPcs, DepthPcs, BatchPcs,
      RefusePcs, LeavePcs, KillPcs
<1>3. CASE \/ Drain(w, "n_drain", "n_zero", "n_idle") \/ Drain(w, "r_drain", "r_zero", "r_idle")
           \/ Drain(w, "e_drain", "e_zero", "e_idle")
  BY <1>0, <1>1, <1>3, DrainKeeps
<1>4. CASE \/ Destroy(w, "r_destroy", "r_on_destroy", "r_clear", "idle")
           \/ Destroy(w, "x_destroy", "x_on_destroy", "x_clear", "idle")
  BY <1>0, <1>2, <1>4, DestroyKeeps
<1>5. CASE \/ StoreIdle(w, "n_idle", "idle") \/ StoreIdle(w, "r_idle", "r_leave")
           \/ StoreIdle(w, "e_idle", "leave")
  BY <1>0, <1>1, <1>5, StoreIdleKeeps
<1>6. CASE Leave(w, "r_leave", "r_destroy", "idle") \/ Leave(w, "leave", "last", "idle")
  BY <1>6, LeaveKeeps
<1>7. CASE \/ LoadBatch(w) \/ LoopTest(w) \/ TakeMessage(w) \/ TakeNothing(w) \/ Uncount(w)
           \/ OnMessageReturns(w) \/ ResetOverload(w)
           \/ TestClosing(w, "after", "e_drain", "more")
           \/ TestClosing(w, "recheck", "leave", "recount")
           \/ TestClosing(w, "last", "x_destroy", "idle")
           \/ TestCount(w, "more", "requeue", "rest") \/ TestCount(w, "recount", "cas", "leave")
  BY <1>7, BatchKeeps
<1>8. CASE \/ Pop(w) \/ LoadState(w) \/ Claim(w) \/ QueueOwner(w) \/ Enter(w)
           \/ TestClosing(w, "check", "r_drain", "batch") \/ StoreQueued(w)
           \/ StoreIdle(w, "rest", "reset")
  BY <1>8, PopKeeps, LoadStateKeeps, ClaimKeeps, QueueOwnerKeeps, EnterKeeps, CheckKeeps,
     StoreQueuedKeeps, RestKeeps
<1>9. CASE \/ Schedule(w, "cas", "glob", AfterSchedule(w))
           \/ EnqueueGlobal(w, "glob", AfterSchedule(w))
  BY <1>0, <1>9, ScheduleKeeps, EnqueueGlobalKeeps
<1>10. QED
  BY <1>3, <1>4, <1>5, <1>6, <1>7, <1>8, <1>9 DEF DispatchQueue

-------------------------------------------------------------------------------
(* The inductive invariant holds at the start. *)
LEMMA InitIInv == Init => IInv
<1> SUFFICES ASSUME Init PROVE IInv
  OBVIOUS
<1>1. PlacesOK /\ DataOK
  BY InitTypeOK, TypeSplit
<1>2. /\ pc[Spawner] = "register" /\ \A w \in Workers : pc[w] = "idle"
      /\ \A t \in Threads : pc[t] \in {"idle", "grab", "erase", "register"}
  BY ThreadsAssumption DEF Init, Threads
<1>3. ClosedInv
  BY <1>2 DEF Init, ClosedInv, ClosedPcs, KillPcs, RefusePcs
<1>4. \A w \in Workers : ~InBatch(w)
  BY <1>2 DEF InBatch, BatchPcs, KillPcs
<1>5. TeardownInv /\ MutualExclusion
  BY <1>4 DEF TeardownInv, MutualExclusion
<1>6. EarlyInv
  BY <1>2 DEF Init, EarlyInv
<1>7. ScheduleToken
  <2>1. \A t \in Threads : ~HoldsToken(t) /\ ~Dispatching(t)
    BY <1>2, <1>4 DEF HoldsToken, Dispatching, InBatch, TokenPcs
  <2>2. QED
    BY <2>1 DEF Init, ScheduleToken
<1>8. DepthCounts
  <2>1. Counted = {}
    BY <1>2 DEF Counted, DepthPcs, BatchPcs, RefusePcs, LeavePcs, KillPcs
  <2>2. QED
    BY <2>1, FS_EmptySet DEF Init, DepthCounts, Counted, DepthPcs
<1>9. QED
  BY <1>1, <1>3, <1>5, <1>6, <1>7, <1>8 DEF IInv

(* Every step keeps it. *)
LEMMA NextIInv == IInv /\ [Next]_vars => IInv'
<1> SUFFICES ASSUME IInv, [Next]_vars PROVE IInv'
  OBVIOUS
<1>1. ASSUME NEW t \in Threads, Step(t) PROVE IInv'
  <2>1. PlacesOK' /\ DataOK'
    BY <1>1, StepPlaces, StepData DEF IInv
  <2>2. Rest'
    BY <1>1, PushKeeps, SpawnKeeps, DispatchKeeps, KillKeeps DEF Step
  <2>3. QED
    BY <2>1, <2>2 DEF IInv, Rest
<1>2. CASE UNCHANGED vars
  BY <1>2
  DEF vars, registryVars, scheduleVars, mailVars, actorVars, localVars, IInv, PlacesOK,
      Place, DataOK, ClosedInv, TeardownInv, EarlyInv, MutualExclusion, ScheduleToken,
      DepthCounts, InBatch, HoldsToken, Dispatching, Closing
<1>3. QED
  BY <1>1, <1>2 DEF Next

(* The inductive invariant. *)
THEOREM Inductive == Spec => []IInv
  BY InitIInv, NextIInv, PTL DEF Spec

(* Whatever number of workers, senders and killers there is, and however push_message,
   dispatch_queue and kill interleave, two workers are never in the batch of one actor. *)
THEOREM OneDispatch == Spec => []MutualExclusion
<1>1. IInv => MutualExclusion
  BY DEF IInv
<1>2. QED
  BY <1>1, Inductive, PTL

(* Until the actor is killed, schedule_state says where the one entry or the one
   dispatch of its queue is. *)
THEOREM OneToken == Spec => []ScheduleToken
<1>1. IInv => ScheduleToken
  BY DEF IInv
<1>2. QED
  BY <1>1, Inductive, PTL

(* dispatch_depth is the number of workers inside dispatch_queue's guard. *)
THEOREM DepthIsExact == Spec => []DepthCounts
<1>1. IInv => DepthCounts
  BY DEF IInv
<1>2. QED
  BY <1>1, Inductive, PTL

(* kill's direct teardown, dispatch_queue's early exit and spawn's failure path destroy no
   actor whose on_message is running. *)
THEOREM TeardownIsSafe == Spec => []SafeTeardown
<1>1. IInv => SafeTeardown
  <2> SUFFICES ASSUME IInv, NEW t \in Threads, NEW w \in Workers, Destroying(t)
               PROVE  ~Running(w)
    BY DEF SafeTeardown
  <2>1. CASE pc[t] \in TeardownPcs
    BY <2>1 DEF IInv, TeardownInv, InBatch, Running, BatchPcs
  <2>2. CASE pc[t] \in {"fail_destroy", "fail_on_destroy"}
    <3>1. t = Spawner
      BY <2>2 DEF IInv, PlacesOK, Place, Threads, WorkerPcs, TokenPcs, BatchPcs, KillPcs,
                  RefusePcs, LeavePcs, SenderPcs, KillerPcs
    <3>2. pc[w] = "idle"
      BY <2>2, <3>1 DEF IInv, EarlyInv, EarlyPcs
    <3>3. QED
      BY <3>2 DEF Running, KillPcs
  <2>3. QED
    BY <2>1, <2>2 DEF Destroying, TeardownPcs
<1>2. QED
  BY <1>1, Inductive, PTL

-------------------------------------------------------------------------------
(* The count of the mailbox, and no message left behind *)

Uncounted == {m \in Messages : pc[m] = "count"}
Taken == {w \in Workers : pc[w] = "uncount"}

\* The count is the length of the mailbox, less the enqueues and plus the dequeues that
\* have not counted yet, up to whole turns of the counter.
CountsOK ==
  \E k \in Int : mailbox_count = Cardinality(mailbox) - Cardinality(Uncounted)
                                 + Cardinality(Taken) + k * (SizeMax + 1)

\* A message is enqueued once, and counted as long as the queue is open.
MailInv ==
  /\ IsFiniteSet(mailbox) /\ IsFiniteSet(Uncounted)
  /\ \A m \in mailbox : pc[m] \notin {"grab", "enqueue"}
  /\ ~Closing => CountsOK

\* Thread t, at p, has still to look whether the queue has to be scheduled.
WatchPlace(t, p) ==
  \/ t \in Messages /\ p \in {"overload", "cas"}
  \/ t = Spawner /\ p \in {"init_count", "cas"}
  \/ t \in Workers /\ p \in {"reset", "recheck", "recount", "cas"}

\* An open queue that is idle while it counts messages is being looked at.
WatchInv ==
  ~Closing /\ initialized /\ schedule_state = 0 /\ mailbox_count > 0
    => \E t \in Threads : WatchPlace(t, pc[t])

\* A queue leaves the registry before it is closed, and does not come back.
RegistryInv ==
  /\ registered => pc[Spawner] # "register"
  /\ registered \/ pc[Spawner] = "register" =>
       /\ ~Closing
       /\ \A t \in Threads : pc[t] \notin {"k_close", "fail_close"}

DeliveryInv == MailInv /\ WatchInv /\ RegistryInv

\* A step that is of no account for the three: it goes from a place to another, and who
\* watches goes on to watch unless it scheduled the queue or saw that there is no need.
Ordinary(t) ==
  /\ UNCHANGED <<mailbox, mailbox_count, registered, releasing, destroy_requested, initialized>>
  /\ schedule_state' = 0 => schedule_state = 0
  /\ \E to :
       /\ MoveTo(t, to)
       /\ pc[t] \notin {"count", "uncount", "register"}
       /\ to \notin {"grab", "count", "uncount", "register", "k_close", "fail_close"}
       /\ to = "enqueue" => pc[t] = "grab"
       /\ WatchPlace(t, pc[t]) =>
            WatchPlace(t, to) \/ ~initialized \/ schedule_state' # 0 \/ mailbox_count = 0 \/ Closing

\* A step of the teardown: it takes messages out of a closed queue, or lets it go idle.
Teardown(t) ==
  /\ Closing
  /\ UNCHANGED <<registered, releasing, destroy_requested>>
  /\ mailbox' \subseteq mailbox
  /\ pc[t] \notin {"count", "uncount", "register"}
  /\ \/ UNCHANGED pc
     \/ \E to : MoveTo(t, to)
                /\ to \notin {"grab", "enqueue", "count", "uncount", "register", "k_close", "fail_close"}

LEMMA DrainIsTeardown ==
  ASSUME IInv, NEW t \in Threads, NEW drain, NEW zero, NEW after,
         {drain, zero} \subseteq ClosedPcs,
         {zero, after} \cap {"grab", "enqueue", "count", "uncount", "register", "k_close", "fail_close"} = {},
         Drain(t, drain, zero, after)
  PROVE  Teardown(t)
<1>1. pc[t] \in {drain, zero} /\ Closing
  BY DEF Drain, DrainTake, DrainRefuse, DrainEmpty, DrainZero, Go, IInv, ClosedInv
<1>2. pc[t] \notin {"count", "uncount", "register"}
  BY <1>1 DEF ClosedPcs, KillPcs, RefusePcs
<1>3. UNCHANGED <<registered, releasing, destroy_requested>> /\ mailbox' \subseteq mailbox
  BY DEF Drain, DrainTake, DrainRefuse, DrainEmpty, DrainZero, registryVars, actorVars, mailVars
<1>4. UNCHANGED pc \/ \E to : MoveTo(t, to) /\ to \in {zero, after}
  BY DEF Drain, DrainTake, DrainRefuse, DrainEmpty, DrainZero, Go, MoveTo
<1>5. QED
  BY <1>1, <1>2, <1>3, <1>4 DEF Teardown

LEMMA IdleIsTeardown ==
  ASSUME IInv, NEW t \in Threads, NEW from, NEW after, from \in ClosedPcs,
         after \in {"idle", "r_leave", "leave", "on_message", "on_init", "done"},
         StoreIdle(t, from, after)
  PROVE  Teardown(t)
<1>1. pc[t] = from /\ Closing /\ MoveTo(t, after)
  BY DEF StoreIdle, Go, IInv, ClosedInv, MoveTo
<1>2. from \notin {"count", "uncount", "register"}
  BY DEF ClosedPcs, KillPcs, RefusePcs
<1>3. QED
  BY <1>1, <1>2 DEF Teardown, StoreIdle, registryVars, actorVars, mailVars

LEMMA DestroyIsOrdinary ==
  ASSUME IInv, NEW t \in Threads, NEW destroy, NEW on_destroy, NEW clear, NEW after,
         Destroy(t, destroy, on_destroy, clear, after),
         {destroy, on_destroy, clear} \subseteq ClosedPcs,
         {on_destroy, clear, after} \cap {"grab", "enqueue", "count", "uncount", "register", "k_close",
                                          "fail_close"} = {}
  PROVE  Ordinary(t)
<1>1. PICK to \in {on_destroy, clear, after} : MoveTo(t, to)
  BY DEF Destroy, DestroyExchange, DestroyReturn, ClearOwner, Go, MoveTo
<1>2. pc[t] \in ClosedPcs
  BY DEF Destroy, DestroyExchange, DestroyReturn, ClearOwner, Go
<1>3. pc[t] \notin {"count", "uncount", "register"} /\ Closing
  BY <1>2 DEF ClosedPcs, KillPcs, RefusePcs, IInv, ClosedInv
<1>4. UNCHANGED <<mailbox, mailbox_count, registered, releasing, destroy_requested, initialized,
                  schedule_state>>
  BY DEF Destroy, DestroyExchange, DestroyReturn, ClearOwner, mailVars, registryVars, scheduleVars,
         actorVars
<1>5. QED
  BY <1>1, <1>3, <1>4 DEF Ordinary

LEMMA ScheduleIsOrdinary ==
  ASSUME NEW t \in Threads, NEW from, NEW enqueue, NEW after,
         \/ Schedule(t, from, enqueue, after)
         \/ EnqueueGlobal(t, from, after) /\ ~WatchPlace(t, from),
         from \notin {"count", "uncount", "register"},
         {enqueue, after} \cap {"grab", "enqueue", "count", "uncount", "register", "k_close",
                                "fail_close"} = {}
  PROVE  Ordinary(t)
<1>1. PICK to \in {enqueue, after} : MoveTo(t, to)
  BY DEF Schedule, EnqueueGlobal, Go, MoveTo
<1>2. pc[t] = from
  BY DEF Schedule, EnqueueGlobal, Go
<1>3. UNCHANGED <<mailbox, mailbox_count, registered, releasing, destroy_requested, initialized>>
  BY DEF Schedule, EnqueueGlobal, mailVars, registryVars, actorVars
<1>4. /\ schedule_state' = 0 => schedule_state = 0
      /\ WatchPlace(t, from) => ~initialized \/ schedule_state' # 0
  BY DEF Schedule, EnqueueGlobal, scheduleVars
<1>5. QED
  BY <1>1, <1>2, <1>3, <1>4 DEF Ordinary

LEMMA PushSteps ==
  ASSUME IInv, NEW m \in Messages, PushMessage(m)
  PROVE  Enqueue(m) \/ Count(m) \/ Ordinary(m)
<1> USE DEF mailVars, registryVars, scheduleVars, actorVars, Go, MoveTo
<1>0. m \in Threads /\ m \notin Workers /\ m # Spawner
  BY ThreadsAssumption DEF Threads
<1>1. CASE Grab(m)
  BY <1>0, <1>1 DEF Grab, Ordinary, WatchPlace
<1>2. CASE Overload(m)
  <2>1. /\ UNCHANGED <<mailbox, mailbox_count, registered, releasing, destroy_requested, initialized,
                        schedule_state>>
        /\ pc[m] = "overload" /\ MoveTo(m, IF initialized THEN "cas" ELSE "done")
    BY <1>2 DEF Overload
  <2>2. initialized => WatchPlace(m, "cas")
    BY DEF WatchPlace
  <2>3. QED
    BY <2>1, <2>2 DEF Ordinary
<1>3. CASE Schedule(m, "cas", "glob", AfterSchedule(m))
  BY <1>0, <1>3, ScheduleIsOrdinary DEF AfterSchedule
<1>4. CASE EnqueueGlobal(m, "glob", AfterSchedule(m))
  BY <1>0, <1>4, ScheduleIsOrdinary DEF AfterSchedule, WatchPlace
<1>5. QED
  BY <1>1, <1>2, <1>3, <1>4 DEF PushMessage

LEMMA SpawnSteps ==
  ASSUME IInv, NEW t \in {Spawner}, Spawn(t)
  PROVE  \/ Register(t) \/ StoreInitialized(t) \/ FailErase(t) \/ Close(t, "fail_close", "fail_drain")
         \/ Ordinary(t) \/ Teardown(t)
<1> USE DEF mailVars, registryVars, scheduleVars, actorVars, Go, MoveTo
<1>0. t \in Threads /\ t \notin Workers /\ t \notin Messages
  BY ThreadsAssumption DEF Threads
<1>1. CASE InitReturns(t)
  BY <1>0, <1>1 DEF InitReturns, Ordinary, WatchPlace
<1>2. CASE InitCount(t)
  <2>1. /\ UNCHANGED <<mailbox, mailbox_count, registered, releasing, destroy_requested, initialized,
                        schedule_state>>
        /\ pc[t] = "init_count" /\ MoveTo(t, IF mailbox_count > 0 THEN "cas" ELSE "done")
    BY <1>2 DEF InitCount
  <2>2. WatchPlace(t, "cas") /\ (~(mailbox_count > 0) => mailbox_count = 0)
    BY NumbersAssumption DEF WatchPlace, IInv, DataOK
  <2>3. QED
    BY <2>1, <2>2 DEF Ordinary
<1>3. CASE Schedule(t, "cas", "glob", AfterSchedule(t))
  BY <1>0, <1>3, ScheduleIsOrdinary DEF AfterSchedule
<1>4. CASE EnqueueGlobal(t, "glob", AfterSchedule(t))
  BY <1>0, <1>4, ScheduleIsOrdinary DEF AfterSchedule, WatchPlace
<1>5. CASE Drain(t, "fail_drain", "fail_zero", "fail_destroy")
  BY <1>0, <1>5, DrainIsTeardown DEF ClosedPcs
<1>6. CASE Destroy(t, "fail_destroy", "fail_on_destroy", "fail_clear", "done")
  BY <1>0, <1>6, DestroyIsOrdinary DEF ClosedPcs
<1>7. QED
  BY <1>1, <1>2, <1>3, <1>4, <1>5, <1>6 DEF Spawn

LEMMA KillSteps ==
  ASSUME IInv, NEW t \in Threads, t \notin Messages, Kill(t)
  PROVE  \/ KillErase(t) \/ Close(t, "k_close", "k_owner") \/ KillOwner(t)
         \/ Ordinary(t) \/ Teardown(t)
<1> USE DEF mailVars, registryVars, scheduleVars, actorVars, Go, MoveTo
<1>0. AfterKill(t) \in {"on_message", "on_init", "done"}
  BY DEF AfterKill
<1>1. CASE KillDepth(t)
  BY <1>1 DEF KillDepth, Ordinary, WatchPlace
<1>2. CASE Drain(t, "k_drain", "k_zero", "k_destroy")
  BY <1>2, DrainIsTeardown DEF ClosedPcs, KillPcs
<1>3. CASE Destroy(t, "k_destroy", "k_on_destroy", "k_clear", "k_idle")
  BY <1>3, DestroyIsOrdinary DEF ClosedPcs, KillPcs
<1>4. CASE StoreIdle(t, "k_idle", AfterKill(t))
  BY <1>0, <1>4, IdleIsTeardown DEF ClosedPcs, KillPcs
<1>5. CASE Schedule(t, "k_cas", "k_glob", AfterKill(t)) \/ EnqueueGlobal(t, "k_glob", AfterKill(t))
  BY <1>0, <1>5, ScheduleIsOrdinary DEF WatchPlace
<1>6. QED
  BY <1>1, <1>2, <1>3, <1>4, <1>5 DEF Kill

LEMMA DispatchSteps ==
  ASSUME IInv, NEW t \in Workers, Pop(t) \/ DispatchQueue(t)
  PROVE  \/ TakeMessage(t) \/ Uncount(t) \/ StoreIdle(t, "rest", "reset")
         \/ Ordinary(t) \/ Teardown(t)
<1> USE DEF mailVars, registryVars, scheduleVars, actorVars, Go, MoveTo
<1>0. t \in Threads /\ t \notin Messages /\ t # Spawner
  BY ThreadsAssumption DEF Threads
<1>1. CASE \/ Drain(t, "n_drain", "n_zero", "n_idle") \/ Drain(t, "r_drain", "r_zero", "r_idle")
           \/ Drain(t, "e_drain", "e_zero", "e_idle")
  BY <1>0, <1>1, DrainIsTeardown DEF ClosedPcs, RefusePcs
<1>2. CASE \/ Destroy(t, "r_destroy", "r_on_destroy", "r_clear", "idle")
           \/ Destroy(t, "x_destroy", "x_on_destroy", "x_clear", "idle")
  BY <1>0, <1>2, DestroyIsOrdinary DEF ClosedPcs
<1>3. CASE \/ StoreIdle(t, "n_idle", "idle") \/ StoreIdle(t, "r_idle", "r_leave")
           \/ StoreIdle(t, "e_idle", "leave")
  BY <1>0, <1>3, IdleIsTeardown DEF ClosedPcs, RefusePcs
<1>4. CASE Schedule(t, "cas", "glob", AfterSchedule(t))
  BY <1>0, <1>4, ScheduleIsOrdinary DEF AfterSchedule
<1>5. CASE EnqueueGlobal(t, "glob", AfterSchedule(t))
  BY <1>0, <1>5, ScheduleIsOrdinary DEF AfterSchedule, WatchPlace
<1>6. ASSUME NEW from, NEW to, pc[t] = from, MoveTo(t, to), UNCHANGED <<mailbox, mailbox_count>>,
             UNCHANGED <<registered, releasing, destroy_requested, initialized>>,
             schedule_state' = 0 => schedule_state = 0,
             from \notin {"count", "uncount", "register"},
             to \notin {"grab", "enqueue", "count", "uncount", "register", "k_close", "fail_close"},
             WatchPlace(t, from) => WatchPlace(t, to) \/ Closing \/ mailbox_count = 0
      PROVE  Ordinary(t)
  BY <1>6 DEF Ordinary
<1>7. WatchPlace(t, "recheck") /\ WatchPlace(t, "recount") /\ WatchPlace(t, "cas")
  BY DEF WatchPlace
<1>8. ASSUME NEW from \in {"check", "after", "last"}, NEW closing \in {"r_drain", "e_drain", "x_destroy"},
             NEW open \in {"batch", "more", "idle"}, TestClosing(t, from, closing, open)
      PROVE  Ordinary(t)
  BY <1>0, <1>6, <1>8 DEF TestClosing, WatchPlace
<1>9. CASE TestClosing(t, "recheck", "leave", "recount")
  BY <1>6, <1>7, <1>9 DEF TestClosing
<1>10. CASE TestCount(t, "recount", "cas", "leave")
  <2>1. ~(mailbox_count > 0) => mailbox_count = 0
    BY NumbersAssumption DEF IInv, DataOK
  <2>2. QED
    BY <1>6, <1>7, <1>10, <2>1 DEF TestCount
<1>11. CASE TestCount(t, "more", "requeue", "rest")
  BY <1>0, <1>6, <1>11 DEF TestCount, WatchPlace
<1>12. CASE ResetOverload(t)
  BY <1>6, <1>7, <1>12 DEF ResetOverload
<1>13. CASE Leave(t, "r_leave", "r_destroy", "idle") \/ Leave(t, "leave", "last", "idle")
  BY <1>0, <1>6, <1>13 DEF Leave, WatchPlace
<1>14. CASE \/ Pop(t) \/ LoadState(t) \/ QueueOwner(t) \/ Enter(t) \/ LoadBatch(t)
            \/ LoopTest(t) \/ TakeNothing(t) \/ OnMessageReturns(t)
  BY <1>0, <1>6, <1>14 DEF Pop, LoadState, QueueOwner, Enter, LoadBatch, LoopTest,
     TakeNothing, OnMessageReturns, WatchPlace
<1>15. CASE Claim(t) \/ StoreQueued(t)
  BY <1>0, <1>6, <1>15 DEF Claim, StoreQueued, WatchPlace
<1>16. QED
  BY <1>1, <1>2, <1>3, <1>4, <1>5, <1>8, <1>9, <1>10, <1>11, <1>12, <1>13, <1>14, <1>15
  DEF DispatchQueue

(* Where the threads are after one of them moved. *)
LEMMA AfterMove ==
  ASSUME IInv, NEW t \in Threads, NEW to, MoveTo(t, to)
  PROVE  /\ pc'[t] = to /\ \A u \in Threads \ {t} : pc'[u] = pc[u]
         /\ Messages \subseteq Threads /\ Workers \subseteq Threads /\ Spawner \in Threads
         /\ Messages \cap Workers = {} /\ Spawner \notin Messages \cup Workers
  BY ThreadsAssumption DEF IInv, PlacesOK, MoveTo, Threads

LEMMA OrdinaryKeeps ==
  ASSUME IInv, DeliveryInv, NEW t \in Threads, Ordinary(t)
  PROVE  DeliveryInv'
<1>0. PICK to :
       /\ MoveTo(t, to)
       /\ pc[t] \notin {"count", "uncount", "register"}
       /\ to \notin {"grab", "count", "uncount", "register", "k_close", "fail_close"}
       /\ to = "enqueue" => pc[t] = "grab"
       /\ WatchPlace(t, pc[t]) =>
            WatchPlace(t, to) \/ ~initialized \/ schedule_state' # 0 \/ mailbox_count = 0 \/ Closing
  BY DEF Ordinary
<1>1. /\ pc'[t] = to /\ \A u \in Threads \ {t} : pc'[u] = pc[u]
      /\ Messages \subseteq Threads /\ Workers \subseteq Threads /\ Spawner \in Threads
  BY <1>0, AfterMove
<1>2. /\ UNCHANGED <<mailbox, mailbox_count, registered, initialized>>
      /\ Closing' <=> Closing
      /\ schedule_state' = 0 => schedule_state = 0
      /\ mailbox \subseteq Messages
  BY DEF Ordinary, Closing, IInv, DataOK
<1>3. Uncounted' = Uncounted /\ Taken' = Taken
  BY <1>0, <1>1 DEF Uncounted, Taken
<1>4. \A m \in mailbox : pc'[m] \notin {"grab", "enqueue"}
  BY <1>0, <1>1, <1>2 DEF DeliveryInv, MailInv
<1>5. MailInv'
  BY <1>2, <1>3, <1>4 DEF DeliveryInv, MailInv, CountsOK
<1>6. WatchInv'
  <2> SUFFICES ASSUME ~Closing', initialized', schedule_state' = 0, mailbox_count' > 0
               PROVE  \E u \in Threads : WatchPlace(u, pc'[u])
    BY DEF WatchInv
  <2>1. PICK u \in Threads : WatchPlace(u, pc[u])
    BY <1>2 DEF DeliveryInv, WatchInv
  <2>2. WatchPlace(u, pc'[u])
    BY <1>0, <1>1, <1>2, <2>1
  <2>3. QED
    BY <2>2
<1>7. RegistryInv'
  BY <1>0, <1>1, <1>2 DEF DeliveryInv, RegistryInv
<1>8. QED
  BY <1>5, <1>6, <1>7 DEF DeliveryInv

LEMMA TeardownKeeps ==
  ASSUME IInv, DeliveryInv, NEW t \in Threads, Teardown(t)
  PROVE  DeliveryInv'
<1>1. /\ Messages \subseteq Threads /\ Workers \subseteq Threads /\ Spawner \in Threads
      /\ \A u \in Threads \ {t} : pc'[u] = pc[u]
      /\ pc'[t] # pc[t] => pc'[t] \notin {"grab", "enqueue", "count", "uncount", "register",
                                          "k_close", "fail_close"}
      /\ pc[t] \notin {"count", "uncount", "register"}
  <2>1. CASE UNCHANGED pc
    BY <2>1 DEF Teardown, Threads
  <2>2. ASSUME NEW to, MoveTo(t, to), to \notin {"grab", "enqueue", "count", "uncount", "register",
                                                 "k_close", "fail_close"}
        PROVE  <1>1
    BY <2>2, AfterMove DEF Teardown
  <2>3. QED
    BY <2>1, <2>2 DEF Teardown
<1>2. Uncounted' = Uncounted /\ Closing' /\ Closing /\ UNCHANGED registered
  BY <1>1 DEF Uncounted, Teardown, Closing
<1>3. IsFiniteSet(mailbox')
  BY FS_Subset DEF Teardown, DeliveryInv, MailInv
<1>4. \A m \in mailbox' : pc'[m] \notin {"grab", "enqueue"}
  BY <1>1 DEF Teardown, DeliveryInv, MailInv, IInv, DataOK
<1>5. MailInv' /\ WatchInv'
  BY <1>2, <1>3, <1>4 DEF DeliveryInv, MailInv, WatchInv
<1>6. RegistryInv'
  BY <1>1, <1>2 DEF DeliveryInv, RegistryInv
<1>7. QED
  BY <1>5, <1>6 DEF DeliveryInv

(* The turns of the counter. *)
LEMMA Turns ==
  ASSUME NEW k \in Int, NEW a \in Int, NEW b \in Int
  PROVE  /\ a = b + k * (SizeMax + 1) => a - SizeMax = b + 1 + (k - 1) * (SizeMax + 1)
         /\ a = b + k * (SizeMax + 1) => a + SizeMax = b - 1 + (k + 1) * (SizeMax + 1)
<1>1. SizeMax \in Nat
  BY NumbersAssumption
<1>2. (k - 1) * (SizeMax + 1) = k * (SizeMax + 1) - (SizeMax + 1)
  BY <1>1
<1>3. (k + 1) * (SizeMax + 1) = k * (SizeMax + 1) + (SizeMax + 1)
  BY <1>1
<1>4. k * (SizeMax + 1) \in Int
  BY <1>1
<1>5. QED
  BY <1>1, <1>2, <1>3, <1>4

(* The queue is not idle while a worker is in the batch. *)
LEMMA BatchIsNotIdle ==
  ASSUME IInv, NEW w \in Workers, InBatch(w), ~Closing
  PROVE  schedule_state # 0
  BY DEF IInv, ScheduleToken, Dispatching, Threads

LEMMA TakenIsFinite ==
  ASSUME NEW S \in SUBSET Workers
  PROVE  IsFiniteSet(S) /\ Cardinality(S) \in Nat
  BY FS_Subset, FS_CardinalityType, ThreadsAssumption

(* An enqueue is in the mailbox before it is counted. *)
LEMMA EnqueueKeeps ==
  ASSUME IInv, DeliveryInv, NEW m \in Messages, Enqueue(m)
  PROVE  DeliveryInv'
<1>0. m \in Threads /\ pc[m] = "enqueue" /\ MoveTo(m, "count")
  BY DEF Enqueue, Go, MoveTo, Threads
<1>1. /\ pc'[m] = "count" /\ \A u \in Threads \ {m} : pc'[u] = pc[u]
      /\ Messages \subseteq Threads /\ Workers \subseteq Threads /\ Spawner \in Threads
      /\ Messages \cap Workers = {} /\ Spawner \notin Messages \cup Workers
  BY <1>0, AfterMove
<1>2. /\ mailbox' = mailbox \cup {m} /\ UNCHANGED <<mailbox_count, registered, initialized, schedule_state>>
      /\ (Closing' <=> Closing) /\ mailbox \subseteq Messages
  BY DEF Enqueue, registryVars, scheduleVars, actorVars, Closing, IInv, DataOK
<1>3. m \notin mailbox /\ m \notin Uncounted
  BY <1>0 DEF DeliveryInv, MailInv, Uncounted
<1>4. Uncounted' = Uncounted \cup {m} /\ Taken' = Taken
  BY <1>0, <1>1 DEF Uncounted, Taken
<1>5. /\ IsFiniteSet(mailbox') /\ Cardinality(mailbox') = Cardinality(mailbox) + 1
      /\ IsFiniteSet(Uncounted') /\ Cardinality(Uncounted') = Cardinality(Uncounted) + 1
      /\ Cardinality(mailbox) \in Nat /\ Cardinality(Uncounted) \in Nat
  BY <1>2, <1>3, <1>4, FS_AddElement, FS_CardinalityType DEF DeliveryInv, MailInv
<1>6. \A n \in mailbox' : pc'[n] \notin {"grab", "enqueue"}
  BY <1>1, <1>2 DEF DeliveryInv, MailInv
<1>7. ~Closing' => CountsOK'
  <2> SUFFICES ASSUME ~Closing PROVE CountsOK'
    BY <1>2
  <2>1. Cardinality(mailbox) - Cardinality(Uncounted) = Cardinality(mailbox)' - Cardinality(Uncounted)'
    BY <1>5
  <2>2. QED
    BY <1>2, <1>4, <2>1 DEF CountsOK, DeliveryInv, MailInv
<1>8. MailInv'
  BY <1>5, <1>6, <1>7 DEF MailInv
<1>9. WatchInv'
  <2>1. \A u \in Threads : WatchPlace(u, pc[u]) => WatchPlace(u, pc'[u])
    BY <1>0, <1>1 DEF WatchPlace
  <2>2. QED
    BY <1>2, <2>1 DEF DeliveryInv, WatchInv
<1>10. RegistryInv'
  BY <1>0, <1>1, <1>2 DEF DeliveryInv, RegistryInv
<1>11. QED
  BY <1>8, <1>9, <1>10 DEF DeliveryInv

(* A sender that has counted its message looks next whether to schedule the queue. *)
LEMMA CountKeeps ==
  ASSUME IInv, DeliveryInv, NEW m \in Messages, Count(m)
  PROVE  DeliveryInv'
<1>0. m \in Threads /\ pc[m] = "count" /\ MoveTo(m, "overload")
  BY DEF Count, Go, MoveTo, Threads
<1>1. /\ pc'[m] = "overload" /\ \A u \in Threads \ {m} : pc'[u] = pc[u]
      /\ Messages \subseteq Threads /\ Workers \subseteq Threads /\ Spawner \in Threads
      /\ Messages \cap Workers = {} /\ Spawner \notin Messages \cup Workers
  BY <1>0, AfterMove
<1>2. /\ mailbox_count' = Inc(mailbox_count) /\ UNCHANGED <<mailbox, registered>>
      /\ (Closing' <=> Closing) /\ mailbox \subseteq Messages /\ mailbox_count \in 0..SizeMax
  BY DEF Count, registryVars, scheduleVars, actorVars, Closing, IInv, DataOK
<1>4. Uncounted' = Uncounted \ {m} /\ m \in Uncounted /\ Taken' = Taken
  BY <1>0, <1>1 DEF Uncounted, Taken
<1>5. /\ IsFiniteSet(Uncounted') /\ Cardinality(Uncounted') = Cardinality(Uncounted) - 1
      /\ Cardinality(mailbox) \in Nat /\ Cardinality(Uncounted) \in Nat /\ Cardinality(Taken) \in Nat
  BY <1>4, FS_RemoveElement, FS_CardinalityType, TakenIsFinite DEF DeliveryInv, MailInv, Taken
<1>7. ~Closing' => CountsOK'
  <2> SUFFICES ASSUME ~Closing PROVE CountsOK'
    BY <1>2
  <2>1. PICK k \in Int : mailbox_count = Cardinality(mailbox) - Cardinality(Uncounted)
                                         + Cardinality(Taken) + k * (SizeMax + 1)
    BY DEF CountsOK, DeliveryInv, MailInv
  <2>2. PICK b \in Int : b = Cardinality(mailbox) - Cardinality(Uncounted) + Cardinality(Taken)
    BY <1>5
  <2>3. b + 1 = Cardinality(mailbox)' - Cardinality(Uncounted)' + Cardinality(Taken)'
    BY <1>2, <1>4, <1>5, <2>2
  <2>4. mailbox_count = b + k * (SizeMax + 1) /\ k * (SizeMax + 1) \in Int /\ mailbox_count \in Int
    BY <1>2, <2>1, <2>2, NumbersAssumption
  <2>5. CASE mailbox_count = SizeMax
    <3>1. mailbox_count' = 0 /\ mailbox_count - SizeMax = 0
      BY <1>2, <2>5, NumbersAssumption DEF Inc
    <3>2. mailbox_count' = (b + 1) + (k - 1) * (SizeMax + 1)
      BY <2>4, <3>1, Turns
    <3>3. QED
      BY <2>3, <3>2 DEF CountsOK
  <2>6. CASE mailbox_count # SizeMax
    <3>1. mailbox_count' = (b + 1) + k * (SizeMax + 1)
      BY <1>2, <2>4, <2>6 DEF Inc
    <3>2. QED
      BY <2>3, <3>1 DEF CountsOK
  <2>7. QED
    BY <2>5, <2>6
<1>8. MailInv'
  BY <1>0, <1>1, <1>2, <1>5, <1>7 DEF DeliveryInv, MailInv
<1>9. WatchInv'
  BY <1>0, <1>1 DEF WatchInv, WatchPlace
<1>10. RegistryInv'
  BY <1>0, <1>1, <1>2 DEF DeliveryInv, RegistryInv
<1>11. QED
  BY <1>8, <1>9, <1>10 DEF DeliveryInv

(* A dequeue is out of the mailbox before it is counted. *)
LEMMA TakeKeeps ==
  ASSUME IInv, DeliveryInv, NEW w \in Workers, TakeMessage(w)
  PROVE  DeliveryInv'
<1>0. w \in Threads /\ pc[w] = "take" /\ MoveTo(w, "uncount")
  BY DEF TakeMessage, Go, MoveTo, Threads
<1>1. /\ pc'[w] = "uncount" /\ \A u \in Threads \ {w} : pc'[u] = pc[u]
      /\ Messages \subseteq Threads /\ Workers \subseteq Threads /\ Spawner \in Threads
      /\ Messages \cap Workers = {} /\ Spawner \notin Messages \cup Workers
  BY <1>0, AfterMove
<1>2. /\ UNCHANGED <<mailbox_count, registered, initialized, schedule_state>>
      /\ (Closing' <=> Closing) /\ mailbox \subseteq Messages
  BY DEF TakeMessage, registryVars, scheduleVars, actorVars, Closing, IInv, DataOK
<1>3. PICK m \in mailbox : mailbox' = mailbox \ {m}
  BY DEF TakeMessage
<1>4. Uncounted' = Uncounted /\ Taken' = Taken \cup {w} /\ w \notin Taken
  BY <1>0, <1>1 DEF Uncounted, Taken
<1>5. /\ IsFiniteSet(mailbox') /\ Cardinality(mailbox') = Cardinality(mailbox) - 1
      /\ Cardinality(mailbox) \in Nat /\ Cardinality(Uncounted) \in Nat
      /\ Cardinality(Taken) \in Nat /\ Cardinality(Taken') = Cardinality(Taken) + 1
  <2>1. IsFiniteSet(Taken) /\ Cardinality(Taken) \in Nat
    BY TakenIsFinite DEF Taken
  <2>2. QED
    BY <1>3, <1>4, <2>1, FS_AddElement, FS_RemoveElement, FS_CardinalityType DEF DeliveryInv, MailInv
<1>6. ~Closing' => CountsOK'
  <2> SUFFICES ASSUME ~Closing PROVE CountsOK'
    BY <1>2
  <2>1. Cardinality(mailbox) - Cardinality(Uncounted) + Cardinality(Taken)
        = Cardinality(mailbox)' - Cardinality(Uncounted)' + Cardinality(Taken)'
    BY <1>4, <1>5
  <2>2. QED
    BY <1>2, <2>1 DEF CountsOK, DeliveryInv, MailInv
<1>7. MailInv'
  BY <1>0, <1>1, <1>2, <1>3, <1>4, <1>5, <1>6 DEF DeliveryInv, MailInv
<1>8. WatchInv'
  <2>1. \A u \in Threads : WatchPlace(u, pc[u]) => WatchPlace(u, pc'[u])
    BY <1>0, <1>1 DEF WatchPlace
  <2>2. QED
    BY <1>2, <2>1 DEF DeliveryInv, WatchInv
<1>9. RegistryInv'
  BY <1>0, <1>1, <1>2 DEF DeliveryInv, RegistryInv
<1>10. QED
  BY <1>7, <1>8, <1>9 DEF DeliveryInv

(* The count may wrap here, if the dequeue overtook the count of its enqueue. *)
LEMMA UncountKeeps ==
  ASSUME IInv, DeliveryInv, NEW w \in Workers, Uncount(w)
  PROVE  DeliveryInv'
<1>0. w \in Threads /\ pc[w] = "uncount" /\ MoveTo(w, "on_message")
  BY DEF Uncount, Go, MoveTo, Threads
<1>1. /\ pc'[w] = "on_message" /\ \A u \in Threads \ {w} : pc'[u] = pc[u]
      /\ Messages \subseteq Threads /\ Workers \subseteq Threads /\ Spawner \in Threads
      /\ Messages \cap Workers = {} /\ Spawner \notin Messages \cup Workers
  BY <1>0, AfterMove
<1>2. /\ mailbox_count' = Dec(mailbox_count) /\ UNCHANGED <<mailbox, registered, schedule_state>>
      /\ (Closing' <=> Closing) /\ mailbox \subseteq Messages /\ mailbox_count \in 0..SizeMax
  BY DEF Uncount, registryVars, scheduleVars, actorVars, Closing, IInv, DataOK
<1>3. Uncounted' = Uncounted /\ Taken' = Taken \ {w} /\ w \in Taken
  BY <1>0, <1>1 DEF Uncounted, Taken
<1>4. /\ Cardinality(mailbox) \in Nat /\ Cardinality(Uncounted) \in Nat
      /\ Cardinality(Taken) \in Nat /\ Cardinality(Taken') = Cardinality(Taken) - 1
  <2>1. IsFiniteSet(Taken) /\ Cardinality(Taken) \in Nat
    BY TakenIsFinite DEF Taken
  <2>2. QED
    BY <1>3, <2>1, FS_RemoveElement, FS_CardinalityType DEF DeliveryInv, MailInv
<1>5. ~Closing' => CountsOK'
  <2> SUFFICES ASSUME ~Closing PROVE CountsOK'
    BY <1>2
  <2>1. PICK k \in Int : mailbox_count = Cardinality(mailbox) - Cardinality(Uncounted)
                                         + Cardinality(Taken) + k * (SizeMax + 1)
    BY DEF CountsOK, DeliveryInv, MailInv
  <2>2. PICK b \in Int : b = Cardinality(mailbox) - Cardinality(Uncounted) + Cardinality(Taken)
    BY <1>4
  <2>3. b - 1 = Cardinality(mailbox)' - Cardinality(Uncounted)' + Cardinality(Taken)'
    BY <1>2, <1>3, <1>4, <2>2
  <2>4. mailbox_count = b + k * (SizeMax + 1) /\ k * (SizeMax + 1) \in Int /\ mailbox_count \in Int
    BY <1>2, <2>1, <2>2, NumbersAssumption
  <2>5. CASE mailbox_count = 0
    <3>1. mailbox_count' = mailbox_count + SizeMax
      BY <1>2, <2>5, NumbersAssumption DEF Dec
    <3>2. mailbox_count' = (b - 1) + (k + 1) * (SizeMax + 1)
      BY <2>4, <3>1, Turns
    <3>3. QED
      BY <2>3, <3>2 DEF CountsOK
  <2>6. CASE mailbox_count # 0
    <3>1. mailbox_count' = (b - 1) + k * (SizeMax + 1)
      BY <1>2, <2>4, <2>6 DEF Dec
    <3>2. QED
      BY <2>3, <3>1 DEF CountsOK
  <2>7. QED
    BY <2>5, <2>6
<1>6. MailInv'
  BY <1>0, <1>1, <1>2, <1>3, <1>5 DEF DeliveryInv, MailInv
<1>7. WatchInv'
  <2>1. ~Closing => schedule_state # 0
    BY <1>0, BatchIsNotIdle DEF InBatch, BatchPcs
  <2>2. QED
    BY <1>2, <2>1 DEF WatchInv
<1>8. RegistryInv'
  BY <1>0, <1>1, <1>2 DEF DeliveryInv, RegistryInv
<1>9. QED
  BY <1>6, <1>7, <1>8 DEF DeliveryInv

(* A step that leaves the mailbox and its count alone. *)
LEMMA MailStays ==
  ASSUME IInv, MailInv, NEW t \in Threads, NEW to, MoveTo(t, to),
         pc[t] \notin {"count", "uncount"}, to \notin {"grab", "enqueue", "count", "uncount"},
         UNCHANGED <<mailbox, mailbox_count>>, Closing => Closing'
  PROVE  MailInv'
<1>1. /\ pc'[t] = to /\ \A u \in Threads \ {t} : pc'[u] = pc[u]
      /\ Messages \subseteq Threads /\ Workers \subseteq Threads /\ mailbox \subseteq Messages
  BY AfterMove DEF IInv, DataOK
<1>2. Uncounted' = Uncounted /\ Taken' = Taken
  BY <1>1 DEF Uncounted, Taken
<1>3. QED
  BY <1>1, <1>2 DEF MailInv, CountsOK

(* A step of a thread that does not watch. *)
LEMMA WatchStays ==
  ASSUME IInv, WatchInv, NEW t \in Threads, NEW to, MoveTo(t, to), ~WatchPlace(t, pc[t]),
         UNCHANGED <<mailbox_count, initialized, schedule_state>>, Closing => Closing'
  PROVE  WatchInv'
<1>1. \A u \in Threads : WatchPlace(u, pc[u]) => WatchPlace(u, pc'[u])
  BY AfterMove
<1>2. QED
  BY <1>1 DEF WatchInv

(* What goes idle with messages in its mailbox, and what becomes initialized with them, is
   looked at by the thread that did it. *)
LEMMA IdleKeeps ==
  ASSUME IInv, DeliveryInv, NEW t \in Threads,
         \/ t \in Workers /\ StoreIdle(t, "rest", "reset")
         \/ t = Spawner /\ StoreInitialized(t)
  PROVE  DeliveryInv'
<1>1. PICK to \in {"reset", "init_count"} :
        /\ MoveTo(t, to) /\ WatchPlace(t, to)
        /\ pc[t] \in {"rest", "init_ok"}
        /\ UNCHANGED <<mailbox, mailbox_count, registered>> /\ (Closing' <=> Closing)
  BY DEF StoreIdle, StoreInitialized, Go, MoveTo, WatchPlace, registryVars, mailVars, actorVars, Closing
<1>2. /\ pc'[t] = to /\ \A u \in Threads \ {t} : pc'[u] = pc[u] /\ Spawner \in Threads
  BY <1>1, AfterMove
<1>3. MailInv'
  BY <1>1, MailStays DEF DeliveryInv
<1>4. WatchInv'
  BY <1>1, <1>2 DEF WatchInv
<1>5. RegistryInv'
  BY <1>1, <1>2, ThreadsAssumption DEF DeliveryInv, RegistryInv, Threads
<1>6. QED
  BY <1>3, <1>4, <1>5 DEF DeliveryInv

(* The queue enters the registry once, and leaves it before it is closed. *)
LEMMA RegistryKeeps ==
  ASSUME IInv, DeliveryInv, NEW t \in Threads,
         \/ t = Spawner /\ (Register(t) \/ FailErase(t))
         \/ t \notin Messages /\ KillErase(t)
  PROVE  DeliveryInv'
<1>1. PICK to \in {"on_init", "on_message", "done", "fail_close", "k_close"} :
        /\ MoveTo(t, to)
        /\ pc[t] \in {"register", "fail_erase", "erase", "on_message", "on_init"}
        /\ UNCHANGED <<mailbox, mailbox_count, initialized, schedule_state>> /\ (Closing' <=> Closing)
        /\ pc[t] = "register" => registered' /\ to = "on_init" /\ t = Spawner
        /\ pc[t] # "register" => ~registered'
        /\ to = "k_close" => registered
  BY DEF Register, FailErase, KillErase, AfterKill, Go, MoveTo, scheduleVars, mailVars, actorVars, Closing
<1>2. /\ pc'[t] = to /\ \A u \in Threads \ {t} : pc'[u] = pc[u]
      /\ Spawner \in Threads
  BY <1>1, AfterMove
<1>3. MailInv'
  BY <1>1, MailStays DEF DeliveryInv
<1>4. WatchInv'
  BY <1>1, WatchStays DEF DeliveryInv, WatchPlace
<1>5. RegistryInv'
  <2>1. CASE pc[t] = "register"
    BY <1>1, <1>2, <2>1 DEF DeliveryInv, RegistryInv
  <2>2. CASE pc[t] # "register"
    <3>1. ~registered' /\ to # "register"
      BY <1>1, <2>2
    <3>2. ASSUME pc'[Spawner] = "register"
          PROVE  ~Closing' /\ \A u \in Threads : pc'[u] \notin {"k_close", "fail_close"}
      <4>1. t # Spawner /\ pc[Spawner] = "register" /\ ~registered
        BY <1>2, <3>1, <3>2 DEF DeliveryInv, RegistryInv
      <4>2. to \notin {"k_close", "fail_close"}
        BY <1>1, <4>1 DEF KillErase, AfterKill, MoveTo, IInv, PlacesOK
      <4>3. QED
        BY <1>1, <1>2, <4>1, <4>2 DEF DeliveryInv, RegistryInv
    <3>3. QED
      BY <3>1, <3>2 DEF RegistryInv
  <2>3. QED
    BY <2>1, <2>2
<1>6. QED
  BY <1>3, <1>4, <1>5 DEF DeliveryInv

(* The queue is closed by who took it out of the registry. *)
LEMMA CloseKeepsDelivery ==
  ASSUME IInv, DeliveryInv, NEW t \in Threads,
         \/ Close(t, "fail_close", "fail_drain") \/ Close(t, "k_close", "k_owner") \/ KillOwner(t)
  PROVE  DeliveryInv'
<1>1. PICK to \in {"fail_drain", "k_owner", "k_depth", "k_cas"} :
        /\ MoveTo(t, to) /\ pc[t] \in {"fail_close", "k_close", "k_owner"}
        /\ UNCHANGED <<mailbox, mailbox_count, initialized, schedule_state, registered>>
        /\ Closing => Closing'
  BY DEF Close, KillOwner, Go, MoveTo, scheduleVars, mailVars, actorVars, registryVars, Closing, IInv, DataOK
<1>2. /\ pc'[t] = to /\ \A u \in Threads \ {t} : pc'[u] = pc[u]
      /\ Spawner \in Threads
  BY <1>1, AfterMove
<1>3. MailInv'
  BY <1>1, MailStays DEF DeliveryInv
<1>4. WatchInv'
  BY <1>1, WatchStays DEF DeliveryInv, WatchPlace
<1>5. ~registered /\ pc[Spawner] # "register"
  <2>1. CASE pc[t] = "k_owner"
    BY <2>1 DEF IInv, ClosedInv, ClosedPcs, KillPcs, DeliveryInv, RegistryInv
  <2>2. CASE pc[t] # "k_owner"
    BY <1>1, <2>2 DEF DeliveryInv, RegistryInv
  <2>3. QED
    BY <2>1, <2>2
<1>6. ~registered' /\ pc'[Spawner] # "register"
  BY <1>1, <1>2, <1>5
<1>7. RegistryInv'
  BY <1>6 DEF RegistryInv
<1>8. QED
  BY <1>3, <1>4, <1>7 DEF DeliveryInv

(* Every step keeps it. *)
LEMMA NextDelivery == IInv /\ DeliveryInv /\ [Next]_vars => DeliveryInv'
<1> SUFFICES ASSUME IInv, DeliveryInv, [Next]_vars PROVE DeliveryInv'
  OBVIOUS
<1>1. ASSUME NEW t \in Threads, Step(t) PROVE DeliveryInv'
  <2>1. CASE t \in Messages /\ PushMessage(t)
    BY <2>1, PushSteps, EnqueueKeeps, CountKeeps, OrdinaryKeeps
  <2>2. CASE t = Spawner /\ Spawn(t)
    BY <2>2, SpawnSteps, RegistryKeeps, IdleKeeps, CloseKeepsDelivery, OrdinaryKeeps, TeardownKeeps
  <2>3. CASE t \in Workers /\ (Pop(t) \/ DispatchQueue(t))
    BY <2>3, DispatchSteps, TakeKeeps, UncountKeeps, IdleKeeps, OrdinaryKeeps, TeardownKeeps
  <2>4. CASE t \notin Messages /\ Kill(t)
    BY <2>4, KillSteps, RegistryKeeps, CloseKeepsDelivery, OrdinaryKeeps, TeardownKeeps
  <2>5. QED
    BY <1>1, <2>1, <2>2, <2>3, <2>4 DEF Step
<1>2. CASE UNCHANGED vars
  BY <1>2
  DEF vars, registryVars, scheduleVars, mailVars, actorVars, DeliveryInv, MailInv, CountsOK, Uncounted,
      Taken, WatchInv, RegistryInv, Closing
<1>3. QED
  BY <1>1, <1>2 DEF Next

LEMMA InitDelivery == Init => DeliveryInv
<1> SUFFICES ASSUME Init PROVE DeliveryInv
  OBVIOUS
<1>1. /\ \A m \in Messages : pc[m] = "grab"
      /\ \A w \in Workers : pc[w] = "idle"
      /\ \A t \in Threads : pc[t] \in {"idle", "grab", "erase", "register"}
  BY ThreadsAssumption DEF Init, Threads
<1>2. Uncounted = {} /\ Taken = {} /\ mailbox = {} /\ mailbox_count = 0
  BY <1>1 DEF Uncounted, Taken, Init
<1>3. IsFiniteSet({}) /\ Cardinality({}) = 0
  BY FS_EmptySet
<1>4. mailbox_count = Cardinality(mailbox) - Cardinality(Uncounted) + Cardinality(Taken) + 0 * (SizeMax + 1)
  BY <1>2, <1>3, NumbersAssumption
<1>5. MailInv
  BY <1>2, <1>3, <1>4 DEF MailInv, CountsOK
<1>6. WatchInv /\ RegistryInv
  BY <1>1, <1>2 DEF WatchInv, RegistryInv, Init, Closing
<1>7. QED
  BY <1>5, <1>6 DEF DeliveryInv

(* The inductive invariant of the delivery of messages. *)
THEOREM Delivery == Spec => [](IInv /\ DeliveryInv)
<1>1. Init => IInv /\ DeliveryInv
  BY InitIInv, InitDelivery
<1>2. (IInv /\ DeliveryInv) /\ [Next]_vars => (IInv /\ DeliveryInv)'
  BY NextIInv, NextDelivery
<1>3. QED
  BY <1>1, <1>2, PTL DEF Spec

(* A multiple of the modulus. *)
LEMMA MultipleMod ==
  ASSUME NEW k \in Int, NEW M \in Nat \ {0}
  PROVE  (k * M) % M = 0
  OBVIOUS

(* mailbox_count differs from the length of the mailbox by the steps in flight only, modulo
   its width, however often a dequeue overtakes the count of its enqueue. *)
THEOREM CountIsExact == Spec => []CountAccounting
<1>1. IInv /\ DeliveryInv => CountAccounting
  <2> SUFFICES ASSUME IInv, DeliveryInv, ~Closing
               PROVE  (mailbox_count - Cardinality(mailbox) + Cardinality(Uncounted)
                       - Cardinality(Taken)) % (SizeMax + 1) = 0
    BY DEF CountAccounting, Uncounted, Taken
  <2>1. PICK k \in Int : mailbox_count = Cardinality(mailbox) - Cardinality(Uncounted)
                                         + Cardinality(Taken) + k * (SizeMax + 1)
    BY DEF DeliveryInv, MailInv, CountsOK
  <2>2. /\ Cardinality(mailbox) \in Nat /\ Cardinality(Uncounted) \in Nat /\ Cardinality(Taken) \in Nat
        /\ SizeMax + 1 \in Nat \ {0} /\ mailbox_count \in Int
    BY FS_CardinalityType, TakenIsFinite, NumbersAssumption
    DEF DeliveryInv, MailInv, Taken, IInv, DataOK
  <2>3. k * (SizeMax + 1) \in Int
    BY <2>2
  <2>4. mailbox_count - Cardinality(mailbox) + Cardinality(Uncounted) - Cardinality(Taken)
        = k * (SizeMax + 1)
    BY <2>1, <2>2, <2>3
  <2>5. QED
    BY <2>2, <2>4, MultipleMod
<1>2. QED
  BY <1>1, Delivery, PTL

(* The only multiple of the modulus in reach is zero. *)
LEMMA SmallMultiple ==
  ASSUME NEW k \in Int, NEW M \in Nat \ {0}, NEW n \in 0..(M - 1), 0 = n + k * M
  PROVE  n = 0
<1>1. k * M \in Int /\ k * M <= 0 /\ k * M > -M
  OBVIOUS
<1>2. CASE k >= 1
  <2>1. k * M >= M
    BY <1>2
  <2>2. QED
    BY <1>1, <2>1
<1>3. CASE k <= -1
  <2>1. k * M <= -M
    BY <1>3
  <2>2. QED
    BY <1>1, <2>1
<1>4. CASE k = 0
  BY <1>4
<1>5. QED
  BY <1>2, <1>3, <1>4

(* push_message against the idle transition of dispatch_queue and against spawn: when no
   more messages are sent than the counter can count, a live, initialized actor never comes
   to rest with a message in its mailbox. *)
THEOREM NothingStranded ==
  ASSUME IsFiniteSet(Messages), Cardinality(Messages) <= SizeMax
  PROVE  Spec => []NoStrandedMessage
<1>1. IInv /\ DeliveryInv => NoStrandedMessage
  <2> SUFFICES ASSUME IInv, DeliveryInv, Quiet, registered, initialized
               PROVE  mailbox = {} /\ mailbox_count = 0
    BY DEF NoStrandedMessage
  <2>1. ~Closing
    BY DEF DeliveryInv, RegistryInv
  <2>2. \A t \in Threads : pc[t] \in {"idle", "done", "grab", "erase", "register"}
    BY DEF Quiet
  <2>3. \A t \in Threads : ~HoldsToken(t) /\ ~Dispatching(t) /\ ~WatchPlace(t, pc[t])
    BY <2>2 DEF HoldsToken, Dispatching, InBatch, TokenPcs, BatchPcs, KillPcs, WatchPlace
  <2>4. schedule_state = 0
    BY <2>1, <2>3 DEF IInv, ScheduleToken, DataOK, Quiet
  <2>5. mailbox_count = 0
    BY <2>1, <2>3, <2>4, NumbersAssumption DEF DeliveryInv, WatchInv, IInv, DataOK
  <2>6. Uncounted = {} /\ Taken = {}
    BY <2>2 DEF Uncounted, Taken, Threads
  <2>7. IsFiniteSet({}) /\ Cardinality({}) = 0
    BY FS_EmptySet
  <2>8. PICK k \in Int : 0 = Cardinality(mailbox) - 0 + 0 + k * (SizeMax + 1)
    BY <2>1, <2>5, <2>6, <2>7 DEF DeliveryInv, MailInv, CountsOK
  <2>9. Cardinality(mailbox) \in Nat /\ Cardinality(mailbox) <= Cardinality(Messages)
        /\ Cardinality(Messages) \in Nat
    BY FS_Subset, FS_CardinalityType DEF IInv, DataOK
  <2>10. Cardinality(mailbox) \in 0..((SizeMax + 1) - 1) /\ SizeMax + 1 \in Nat \ {0}
    BY <2>9, NumbersAssumption
  <2>11. 0 = Cardinality(mailbox) + k * (SizeMax + 1)
    BY <2>8, <2>9, <2>10
  <2>12. Cardinality(mailbox) = 0
    BY <2>10, <2>11, SmallMultiple
  <2>13. QED
    BY <2>5, <2>12, FS_EmptySet DEF DeliveryInv, MailInv
<1>2. QED
  BY <1>1, Delivery, PTL

===============================================================================
