--------------------------- MODULE WorkerPoolProofs ---------------------------
(***************************************************************************)
(* Proofs about WorkerPool, for any number of workers, producers and       *)
(* stoppers and any idle_spin.                                             *)
(***************************************************************************)
EXTENDS WorkerPool, FiniteSetTheorems, TLAPS

UncountPcs == {"uncount", "spin_uncount", "last_uncount"}

\* The threads of S that are somewhere in P.
At(S, P) == {t \in S : pc[t] \in P}

Sleeping   == At(Workers, SleepPcs)
Uncounting == At(Workers, UncountPcs)
Counting   == At(Threads \ Workers, {"count"})

\* A worker that stays, or is about to be, blocked until the next notify.
Asleep(w) ==
  \/ pc[w] = "blocked"
  \/ pc[w] = "wait" /\ epoch[w] = global_queue_epoch

-------------------------------------------------------------------------------
(* The inductive invariant, part by part.                                  *)

\* dispatch_queue is only reached with an entry in hand.
DispatchHolds == \A w \in Workers : pc[w] = "dispatch" => queue[w] # Null

\* A producer enqueues its entry once.
EnqueuedOnce == \A p \in entries : pc[p] # "start"

\* What is counted is finite: cardinalities mean something.
CountedIsFinite == IsFiniteSet(entries) /\ IsFiniteSet(Counting)

\* The epoch only grows after a worker has read it.
EpochIsPast == \A w \in Workers : epoch[w] <= global_queue_epoch

\* Nobody has begun to shut down.
NotStopped == sentinels = 0 /\ \A s \in Stoppers : pc[s] = "start"

\* With every worker asleep and an entry waiting, somebody is about to wake a worker:
\* a producer that has not counted its entry yet, one that has read a count it will
\* not find too high, or one whose notify finds only workers that read an old epoch.
WakeupOnItsWay ==
  running /\ entries # {} /\ (\A w \in Workers : Asleep(w))
  => \/ global_queue_count <= 0
     \/ \E p \in Producers : pc[p] = "load" /\ num[p] <= 1
     \/ \E p \in Producers : pc[p] = "bump"
     \/ /\ \E p \in Producers : pc[p] = "notify"
        /\ \A w \in Workers : pc[w] = "blocked" /\ epoch[w] < global_queue_epoch

-------------------------------------------------------------------------------
(* Types.  TypeInv holds for the places and the data together: an entry is in hand *)
(* wherever dispatch_queue is called.                                              *)
TypeInv == TypeOK /\ DispatchHolds /\ EnqueuedOnce

(* The steps of std::atomic wait and notify keep the types. *)
LEMMA NotifyTypes ==
  ASSUME TypeInv, NEW t \in Threads \ Workers, NEW from, NEW after \in {"notify", "done"},
         NotifyOne(t, from, after) \/ NotifyAll(t, from, after) \/ BumpEpoch(t, from, after)
  PROVE  TypeInv'
<1> USE PoolAssumption DEF TypeInv, TypeOK, DispatchHolds, EnqueuedOnce, queueVars, wakeVars, localVars,
        WorkerPcs, OtherPcs, Threads
<1>1. CASE NotifyOne(t, from, after)
  <2>1. CASE pc' = [pc EXCEPT ![t] = after]
    BY <1>1, <2>1 DEF NotifyOne
  <2>2. CASE \E w \in {v \in Workers : pc[v] = "blocked"} :
                 pc' = [pc EXCEPT ![t] = after, ![w] = "wait"]
    <3>1. PICK w \in Workers : /\ pc[w] = "blocked"
                               /\ pc' = [pc EXCEPT ![t] = after, ![w] = "wait"]
      BY <2>2
    <3>2. w # t
      OBVIOUS
    <3>3. pc' \in [Threads -> WorkerPcs \cup OtherPcs] /\ pc'[w] = "wait" /\ pc'[t] = after
          /\ \A u \in Threads \ {t, w} : pc'[u] = pc[u]
      BY <3>1, <3>2
    <3>4. QED
      BY <1>1, <3>1, <3>3 DEF NotifyOne
  <2>3. QED
    BY <1>1, <2>1, <2>2 DEF NotifyOne
<1>2. CASE NotifyAll(t, from, after)
  <2>1. pc' \in [Threads -> WorkerPcs \cup OtherPcs]
        /\ \A u \in Threads : pc'[u] = IF u = t THEN after
                                       ELSE IF u \in Workers /\ pc[u] = "blocked" THEN "wait"
                                       ELSE pc[u]
    BY <1>2 DEF NotifyAll
  <2>2. QED
    BY <1>2, <2>1 DEF NotifyAll
<1>3. CASE BumpEpoch(t, from, after)
  BY <1>3 DEF BumpEpoch, Go
<1>4. QED
  BY <1>1, <1>2, <1>3

(* enqueue_global keeps the types. *)
LEMMA EnqueueGlobalTypes ==
  ASSUME TypeInv, NEW p \in Producers, EnqueueGlobal(p)
  PROVE  TypeInv'
<1>0. p \in Threads \ Workers
  BY PoolAssumption DEF Threads
<1>1. CASE Enqueue(p) \/ CountUp(p) \/ LoadSleeping(p)
  BY <1>0, <1>1, PoolAssumption
  DEF Enqueue, CountUp, LoadSleeping, Go, TypeInv, TypeOK, DispatchHolds, EnqueuedOnce, queueVars, wakeVars,
      localVars, WorkerPcs, OtherPcs, Threads
<1>2. CASE BumpEpoch(p, "bump", "notify") \/ NotifyOne(p, "notify", "done")
  BY <1>0, <1>2, NotifyTypes
<1>3. QED
  BY <1>1, <1>2 DEF EnqueueGlobal

(* shutdown keeps the types. *)
LEMMA ShutdownTypes ==
  ASSUME TypeInv, NEW t \in Stoppers, Shutdown(t)
  PROVE  TypeInv'
<1>0. t \in Threads \ Workers
  BY PoolAssumption DEF Threads
<1> USE PoolAssumption DEF Go, TypeInv, TypeOK, DispatchHolds, EnqueuedOnce, queueVars, wakeVars, localVars,
        WorkerPcs, OtherPcs, Threads
<1>1. CASE Exchange(t)
  <2> DEFINE n == Cardinality(Workers)
  <2>1. n \in Int
    BY FS_CardinalityType
  <2> HIDE DEF n
  <2>2. num' \in [Threads -> Int]
    BY <1>1, <2>1 DEF Exchange, n
  <2>3. QED
    BY <1>0, <1>1, <2>2 DEF Exchange
<1>2. CASE EnqueueNull(t) \/ CountNull(t)
  BY <1>0, <1>2 DEF EnqueueNull, CountNull
<1>3. CASE BumpEpoch(t, "bump", "notify") \/ NotifyAll(t, "notify", "done")
  BY <1>0, <1>3, NotifyTypes
<1>4. QED
  BY <1>1, <1>2, <1>3 DEF Shutdown

(* worker_loop keeps the types, and calls dispatch_queue with an entry in hand. *)
LEMMA WorkerLoopTypes ==
  ASSUME TypeInv, NEW w \in Workers, WorkerLoop(w)
  PROVE  TypeInv'
<1> USE PoolAssumption DEF Go, TypeInv, TypeOK, DispatchHolds, EnqueuedOnce, queueVars, wakeVars, localVars,
        WorkerPcs, OtherPcs, Threads
<1>1. CASE Top(w) \/ SpinTest(w) \/ EpochWait(w)
  BY <1>1 DEF Top, SpinTest, EpochWait
<1>2. CASE Held(w, "held", "top") \/ Held(w, "spin_held", "load_epoch")
  BY <1>2 DEF Held
<1>3. ASSUME NEW from, NEW uncount \in UncountPcs, Dequeue(w, from, uncount)
      PROVE  TypeInv'
  BY <1>3 DEF Dequeue, UncountPcs
<1>4. ASSUME NEW from, NEW after \in {"held", "spin_held", "unsleep"}, Uncount(w, from, after)
      PROVE  TypeInv'
  BY <1>4 DEF Uncount
<1>5. ASSUME NEW from, NEW after \in {"spin", "wait"}, Miss(w, from, after)
      PROVE  TypeInv'
  BY <1>5 DEF Miss
<1>6. CASE SpinMiss(w) \/ LoadEpoch(w) \/ Sleep(w) \/ Unsleep(w)
  BY <1>6 DEF SpinMiss, LoadEpoch, Sleep, Unsleep
<1>7. CASE Dispatch(w)
  BY <1>7 DEF Dispatch
<1>8. QED
  BY <1>1, <1>2, <1>3, <1>4, <1>5, <1>6, <1>7 DEF WorkerLoop, UncountPcs

(* The types are inductive. *)
LEMMA TypesInductive == TypeInv /\ [Next]_vars => TypeInv'
<1> SUFFICES ASSUME TypeInv, [Next]_vars PROVE TypeInv'
  OBVIOUS
<1>1. CASE UNCHANGED vars
  BY <1>1 DEF vars, queueVars, wakeVars, localVars, TypeInv, TypeOK, DispatchHolds, EnqueuedOnce
<1>2. ASSUME NEW t \in Threads, Step(t)
      PROVE  TypeInv'
  BY <1>2, EnqueueGlobalTypes, WorkerLoopTypes, ShutdownTypes DEF Step
<1>3. QED
  BY <1>1, <1>2 DEF Next

(* The types hold at the start. *)
LEMMA TypesInit == Init => TypeInv
  BY PoolAssumption DEF Init, TypeInv, TypeOK, DispatchHolds, EnqueuedOnce, WorkerPcs, OtherPcs, Threads

-------------------------------------------------------------------------------
(* Counting.                                                               *)

(* One element more, one element less. *)
LEMMA CardinalityAdd ==
  ASSUME NEW S, IsFiniteSet(S), NEW x, x \notin S
  PROVE  /\ IsFiniteSet(S \cup {x})
         /\ Cardinality(S \cup {x}) = Cardinality(S) + 1
         /\ Cardinality(S) \in Nat
  BY FS_AddElement, FS_CardinalityType

LEMMA CardinalityRemove ==
  ASSUME NEW S, IsFiniteSet(S), NEW x \in S
  PROVE  /\ IsFiniteSet(S \ {x})
         /\ Cardinality(S \ {x}) = Cardinality(S) - 1
         /\ Cardinality(S) \in Nat
  BY FS_RemoveElement, FS_CardinalityType

\* How a move changes the number of threads that are somewhere in P.
Delta(P, from, to) == (IF to \in P THEN 1 ELSE 0) - (IF from \in P THEN 1 ELSE 0)

(* A move of one thread of S changes the number of those somewhere in P by Delta. *)
LEMMA MoveCounts ==
  ASSUME NEW S, NEW P, NEW t \in S, NEW from, NEW to, S \subseteq Threads,
         pc \in [Threads -> WorkerPcs \cup OtherPcs], Go(t, from, to),
         IsFiniteSet(At(S, P))
  PROVE  /\ IsFiniteSet(At(S, P))'
         /\ Cardinality(At(S, P))'
              = Cardinality(At(S, P)) + Delta(P, from, to)
         /\ Cardinality(At(S, P)) \in Nat
<1> DEFINE A == At(S, P)
           B == At(S, P)'
<1>1. /\ t \in A <=> from \in P
      /\ t \in B <=> to \in P
      /\ \A u \in S \ {t} : u \in A <=> u \in B
      /\ A \subseteq S /\ B \subseteq S
  BY DEF Go, At
<1>2. /\ Cardinality(A) \in Nat
      /\ IsFiniteSet(A)
  BY FS_CardinalityType
<1> HIDE DEF A, B
<1>3. CASE t \in A /\ t \notin B
  <2>1. B = A \ {t}
    BY <1>1, <1>3
  <2>2. IsFiniteSet(B) /\ Cardinality(B) = Cardinality(A) - 1
    BY <1>2, <1>3, <2>1, CardinalityRemove
  <2>3. QED
    BY <1>1, <1>2, <1>3, <2>2 DEF Delta, A, B
<1>4. CASE t \notin A /\ t \in B
  <2>1. B = A \cup {t}
    BY <1>1, <1>4
  <2>2. IsFiniteSet(B) /\ Cardinality(B) = Cardinality(A) + 1
    BY <1>2, <1>4, <2>1, CardinalityAdd
  <2>3. QED
    BY <1>1, <1>2, <1>4, <2>2 DEF Delta, A, B
<1>5. CASE t \in A <=> t \in B
  <2>1. B = A
    BY <1>1, <1>5
  <2>2. Delta(P, from, to) = 0
    BY <1>1, <1>5 DEF Delta
  <2>3. IsFiniteSet(B) /\ Cardinality(B) = Cardinality(A) + Delta(P, from, to)
    BY <1>2, <2>1, <2>2
  <2>4. QED
    BY <1>2, <2>3 DEF A, B
<1>6. QED
  BY <1>3, <1>4, <1>5

(* The sets that are counted are finite. *)
LEMMA CountedTypes ==
  ASSUME CountedIsFinite
  PROVE  /\ IsFiniteSet(Sleeping) /\ IsFiniteSet(Uncounting)
         /\ Cardinality(Sleeping) \in Nat /\ Cardinality(Uncounting) \in Nat
         /\ Cardinality(Counting) \in Nat /\ Cardinality(entries) \in Nat
<1>1. Sleeping \in SUBSET Workers /\ Uncounting \in SUBSET Workers
  BY DEF Sleeping, Uncounting, At
<1>2. IsFiniteSet(Sleeping) /\ IsFiniteSet(Uncounting)
  BY <1>1, PoolAssumption, FS_Subset
<1>3. QED
  BY <1>2, FS_CardinalityType DEF CountedIsFinite

(* A move of a worker. *)
LEMMA WorkerMoves ==
  ASSUME TypeInv, CountedIsFinite, NEW w \in Workers, NEW from, NEW to, Go(w, from, to)
  PROVE  /\ Cardinality(Sleeping)' = Cardinality(Sleeping) + Delta(SleepPcs, from, to)
         /\ Cardinality(Uncounting)' = Cardinality(Uncounting) + Delta(UncountPcs, from, to)
         /\ Counting' = Counting
<1>1. pc \in [Threads -> WorkerPcs \cup OtherPcs] /\ Workers \subseteq Threads
  BY DEF TypeInv, TypeOK, Threads
<1>2. Counting' = Counting
  BY <1>1 DEF Counting, At, Go
<1>3. QED
  BY <1>1, <1>2, CountedTypes, MoveCounts DEF Sleeping, Uncounting

(* A move of a producer or a stopper. *)
LEMMA OtherMoves ==
  ASSUME TypeInv, CountedIsFinite, NEW t \in Threads \ Workers, NEW from, NEW to,
         Go(t, from, to)
  PROVE  /\ IsFiniteSet(Counting)'
         /\ Cardinality(Counting)' = Cardinality(Counting) + Delta({"count"}, from, to)
         /\ Sleeping' = Sleeping /\ Uncounting' = Uncounting
<1>1. pc \in [Threads -> WorkerPcs \cup OtherPcs] /\ Threads \ Workers \subseteq Threads
  BY DEF TypeInv, TypeOK, Threads
<1>2. Sleeping' = Sleeping /\ Uncounting' = Uncounting
  BY <1>1 DEF Sleeping, Uncounting, At, Go, Threads
<1>3. IsFiniteSet(Counting)'
      /\ Cardinality(Counting)' = Cardinality(Counting) + Delta({"count"}, from, to)
  BY <1>1, MoveCounts DEF Counting, CountedIsFinite
<1>4. QED
  BY <1>2, <1>3

(* A notify moves no thread into or out of what is counted. *)
LEMMA NotifyMoves ==
  ASSUME TypeInv, NEW t \in Threads \ Workers,
         NotifyOne(t, "notify", "done") \/ NotifyAll(t, "notify", "done")
  PROVE  Sleeping' = Sleeping /\ Uncounting' = Uncounting /\ Counting' = Counting
<1> USE DEF Sleeping, Uncounting, Counting, At, SleepPcs, UncountPcs
<1>0. pc \in [Threads -> WorkerPcs \cup OtherPcs] /\ Workers \subseteq Threads
  BY DEF TypeInv, TypeOK, Threads
<1>1. CASE pc' = [pc EXCEPT ![t] = "done"] /\ pc[t] = "notify"
  BY <1>0, <1>1
<1>2. ASSUME pc[t] = "notify", NEW w \in Workers, pc[w] = "blocked",
             pc' = [pc EXCEPT ![t] = "done", ![w] = "wait"]
      PROVE  Sleeping' = Sleeping /\ Uncounting' = Uncounting /\ Counting' = Counting
  BY <1>0, <1>2
<1>3. CASE NotifyAll(t, "notify", "done")
  <2>1. \A u \in Threads : pc'[u] = IF u = t THEN "done"
                                    ELSE IF u \in Workers /\ pc[u] = "blocked" THEN "wait"
                                    ELSE pc[u]
    BY <1>3 DEF NotifyAll
  <2>2. QED
    BY <1>0, <1>3, <2>1 DEF NotifyAll
<1>4. QED
  BY <1>1, <1>2, <1>3 DEF NotifyOne

-------------------------------------------------------------------------------
(* The counts, with the counted sets named. *)
CountInv ==
  /\ CountedIsFinite
  /\ sleeping_workers = Cardinality(Sleeping)
  /\ global_queue_count
       = Cardinality(entries) + sentinels - Cardinality(Counting) + Cardinality(Uncounting)

LEMMA CountSplit == CountInv <=> CountedIsFinite /\ CountsDoNotDrift
  BY DEF CountInv, CountsDoNotDrift, Sleeping, Uncounting, Counting, At, UncountPcs

(* enqueue_global and shutdown keep the counts. *)
LEMMA NotifyCounts ==
  ASSUME TypeInv, CountInv, NEW t \in Threads \ Workers,
         \/ NotifyOne(t, "notify", "done") \/ NotifyAll(t, "notify", "done")
         \/ BumpEpoch(t, "bump", "notify")
  PROVE  CountInv'
<1>1. CASE NotifyOne(t, "notify", "done") \/ NotifyAll(t, "notify", "done")
  BY <1>1, NotifyMoves
  DEF CountInv, CountedIsFinite, NotifyOne, NotifyAll, queueVars, wakeVars
<1>2. CASE BumpEpoch(t, "bump", "notify")
  <2>1. IsFiniteSet(Counting)' /\ Cardinality(Counting)' = Cardinality(Counting) + 0
        /\ Sleeping' = Sleeping /\ Uncounting' = Uncounting
    BY <1>2, OtherMoves DEF BumpEpoch, CountInv, Delta
  <2>2. QED
    BY <1>2, <2>1, CountedTypes DEF BumpEpoch, CountInv, CountedIsFinite, queueVars
<1>3. QED
  BY <1>1, <1>2

LEMMA EnqueueGlobalCounts ==
  ASSUME TypeInv, CountInv, NEW p \in Producers, EnqueueGlobal(p)
  PROVE  CountInv'
<1>0. p \in Threads \ Workers /\ CountedIsFinite
  BY PoolAssumption DEF Threads, CountInv
<1> USE DEF queueVars, wakeVars, Delta
<1>1. CASE Enqueue(p)
  <2>1. IsFiniteSet(Counting)' /\ Cardinality(Counting)' = Cardinality(Counting) + 1
        /\ Sleeping' = Sleeping /\ Uncounting' = Uncounting
    BY <1>0, <1>1, OtherMoves DEF Enqueue
  <2>2. p \notin entries
    BY <1>1 DEF Enqueue, Go, TypeInv, EnqueuedOnce
  <2>3. IsFiniteSet(entries') /\ Cardinality(entries') = Cardinality(entries) + 1
    BY <1>1, <2>2, CardinalityAdd DEF Enqueue, CountInv, CountedIsFinite
  <2>4. QED
    BY <1>0, <1>1, <2>1, <2>3, CountedTypes
    DEF Enqueue, CountInv, CountedIsFinite, TypeInv, TypeOK
<1>2. CASE CountUp(p)
  <2>1. IsFiniteSet(Counting)' /\ Cardinality(Counting)' = Cardinality(Counting) - 1
        /\ Sleeping' = Sleeping /\ Uncounting' = Uncounting
    BY <1>0, <1>2, OtherMoves, CountedTypes DEF CountUp
  <2>2. QED
    BY <1>0, <1>2, <2>1, CountedTypes DEF CountUp, CountInv, CountedIsFinite, TypeInv, TypeOK
<1>3. CASE LoadSleeping(p)
  <2>1. IsFiniteSet(Counting)' /\ Cardinality(Counting)' = Cardinality(Counting)
        /\ Sleeping' = Sleeping /\ Uncounting' = Uncounting
    BY <1>0, <1>3, OtherMoves, CountedTypes DEF LoadSleeping
  <2>2. QED
    BY <1>0, <1>3, <2>1 DEF LoadSleeping, CountInv, CountedIsFinite
<1>4. CASE BumpEpoch(p, "bump", "notify") \/ NotifyOne(p, "notify", "done")
  BY <1>0, <1>4, NotifyCounts
<1>5. QED
  BY <1>1, <1>2, <1>3, <1>4 DEF EnqueueGlobal

LEMMA ShutdownCounts ==
  ASSUME TypeInv, CountInv, NEW t \in Stoppers, Shutdown(t)
  PROVE  CountInv'
<1>0. t \in Threads \ Workers /\ CountedIsFinite
  BY PoolAssumption DEF Threads, CountInv
<1> USE DEF queueVars, wakeVars, Delta
<1>1. CASE Exchange(t)
  <2>1. IsFiniteSet(Counting)' /\ Cardinality(Counting)' = Cardinality(Counting)
        /\ Sleeping' = Sleeping /\ Uncounting' = Uncounting
    BY <1>0, <1>1, OtherMoves, CountedTypes DEF Exchange
  <2>2. QED
    BY <1>0, <1>1, <2>1 DEF Exchange, CountInv, CountedIsFinite
<1>2. CASE EnqueueNull(t)
  <2>1. IsFiniteSet(Counting)' /\ Cardinality(Counting)' = Cardinality(Counting) + 1
        /\ Sleeping' = Sleeping /\ Uncounting' = Uncounting
    BY <1>0, <1>2, OtherMoves DEF EnqueueNull
  <2>2. QED
    BY <1>0, <1>2, <2>1, CountedTypes
    DEF EnqueueNull, CountInv, CountedIsFinite, TypeInv, TypeOK
<1>3. CASE CountNull(t)
  <2>1. IsFiniteSet(Counting)' /\ Cardinality(Counting)' = Cardinality(Counting) - 1
        /\ Sleeping' = Sleeping /\ Uncounting' = Uncounting
    BY <1>0, <1>3, OtherMoves, CountedTypes DEF CountNull
  <2>2. QED
    BY <1>0, <1>3, <2>1, CountedTypes DEF CountNull, CountInv, CountedIsFinite, TypeInv, TypeOK
<1>4. CASE BumpEpoch(t, "bump", "notify") \/ NotifyAll(t, "notify", "done")
  BY <1>0, <1>4, NotifyCounts
<1>5. QED
  BY <1>1, <1>2, <1>3, <1>4 DEF Shutdown

(* worker_loop keeps the counts. *)
LEMMA DequeueCounts ==
  ASSUME TypeInv, CountInv, NEW w \in Workers, NEW from, NEW uncount, Dequeue(w, from, uncount),
         Delta(SleepPcs, from, uncount) = 0, Delta(UncountPcs, from, uncount) = 1
  PROVE  CountInv'
<1>1. /\ Cardinality(Sleeping)' = Cardinality(Sleeping)
      /\ Cardinality(Uncounting)' = Cardinality(Uncounting) + 1
      /\ Counting' = Counting
  BY WorkerMoves, CountedTypes DEF Dequeue, CountInv
<1>2. /\ IsFiniteSet(entries')
      /\ Cardinality(entries') \in Int /\ sentinels' \in Int
      /\ Cardinality(entries') + sentinels' = Cardinality(entries) + sentinels - 1
  <2>1. CASE UNCHANGED entries /\ sentinels' = sentinels - 1
    BY <2>1, CountedTypes DEF CountInv, CountedIsFinite, TypeInv, TypeOK
  <2>2. ASSUME NEW e \in entries, entries' = entries \ {e}, UNCHANGED sentinels
        PROVE  <1>2
    BY <2>2, CardinalityRemove DEF CountInv, CountedIsFinite, TypeInv, TypeOK
  <2>3. QED
    BY <2>1, <2>2 DEF Dequeue
<1>3. /\ Cardinality(entries) \in Int /\ sentinels \in Int
      /\ Cardinality(Counting) \in Int /\ Cardinality(Uncounting) \in Int
  BY CountedTypes DEF CountInv, TypeInv, TypeOK
<1>4. UNCHANGED <<global_queue_count, sleeping_workers>>
  BY DEF Dequeue, wakeVars
<1>5. global_queue_count' = Cardinality(entries') + sentinels' - Cardinality(Counting)'
                              + Cardinality(Uncounting)'
  BY <1>1, <1>2, <1>3, <1>4 DEF CountInv
<1>6. QED
  BY <1>1, <1>2, <1>4, <1>5 DEF CountInv, CountedIsFinite

LEMMA UncountCounts ==
  ASSUME TypeInv, CountInv, NEW w \in Workers, NEW from, NEW after, Uncount(w, from, after),
         Delta(SleepPcs, from, after) = 0, Delta(UncountPcs, from, after) = -1
  PROVE  CountInv'
<1>1. /\ Cardinality(Sleeping)' = Cardinality(Sleeping)
      /\ Cardinality(Uncounting)' = Cardinality(Uncounting) - 1
      /\ Counting' = Counting
  BY WorkerMoves, CountedTypes DEF Uncount, CountInv
<1>2. QED
  BY <1>1, CountedTypes
  DEF Uncount, queueVars, CountInv, CountedIsFinite, TypeInv, TypeOK

(* A step of worker_loop that leaves the queue and the counters alone, and moves the
   worker neither into nor out of what is counted. *)
LEMMA QuietCounts ==
  ASSUME TypeInv, CountInv, NEW w \in Workers, NEW from, NEW to, Go(w, from, to),
         Delta(SleepPcs, from, to) = 0, Delta(UncountPcs, from, to) = 0,
         UNCHANGED <<queueVars, global_queue_count, sleeping_workers>>
  PROVE  CountInv'
<1>1. /\ Cardinality(Sleeping)' = Cardinality(Sleeping)
      /\ Cardinality(Uncounting)' = Cardinality(Uncounting)
      /\ Counting' = Counting
  BY WorkerMoves, CountedTypes DEF CountInv
<1>2. QED
  BY <1>1 DEF CountInv, CountedIsFinite, queueVars

LEMMA SleepCounts ==
  ASSUME TypeInv, CountInv, NEW w \in Workers, Sleep(w) \/ Unsleep(w)
  PROVE  CountInv'
<1> USE DEF Delta, SleepPcs, UncountPcs
<1>1. CASE Sleep(w)
  <2>1. /\ Cardinality(Sleeping)' = Cardinality(Sleeping) + 1
        /\ Cardinality(Uncounting)' = Cardinality(Uncounting)
        /\ Counting' = Counting
    BY <1>1, WorkerMoves, CountedTypes DEF Sleep, CountInv
  <2>2. QED
    BY <1>1, <2>1 DEF Sleep, CountInv, CountedIsFinite, queueVars
<1>2. CASE Unsleep(w)
  <2>1. /\ Cardinality(Sleeping)' = Cardinality(Sleeping) - 1
        /\ Cardinality(Uncounting)' = Cardinality(Uncounting)
        /\ Counting' = Counting
    BY <1>2, WorkerMoves, CountedTypes DEF Unsleep, CountInv
  <2>2. QED
    BY <1>2, <2>1 DEF Unsleep, CountInv, CountedIsFinite, queueVars
<1>3. QED
  BY <1>1, <1>2

LEMMA WorkerLoopCounts ==
  ASSUME TypeInv, CountInv, NEW w \in Workers, WorkerLoop(w)
  PROVE  CountInv'
<1> USE DEF Delta, SleepPcs, UncountPcs
<1>1. CASE \/ Dequeue(w, "try", "uncount") \/ Dequeue(w, "spin_try", "spin_uncount")
           \/ Dequeue(w, "last_try", "last_uncount")
  BY <1>1, DequeueCounts
<1>2. CASE \/ Uncount(w, "uncount", "held") \/ Uncount(w, "spin_uncount", "spin_held")
           \/ Uncount(w, "last_uncount", "unsleep")
  BY <1>2, UncountCounts
<1>3. CASE Sleep(w) \/ Unsleep(w)
  BY <1>3, SleepCounts
<1>4. CASE Top(w) \/ SpinTest(w) \/ EpochWait(w)
  BY <1>4, QuietCounts DEF Top, SpinTest, EpochWait, wakeVars
<1>5. CASE Held(w, "held", "top") \/ Held(w, "spin_held", "load_epoch")
  BY <1>5, QuietCounts DEF Held, wakeVars
<1>6. CASE Miss(w, "try", "spin") \/ SpinMiss(w) \/ Miss(w, "last_try", "wait")
  BY <1>6, QuietCounts DEF Miss, SpinMiss, wakeVars
<1>7. CASE LoadEpoch(w) \/ Dispatch(w)
  BY <1>7, QuietCounts DEF LoadEpoch, Dispatch, wakeVars
<1>8. QED
  BY <1>1, <1>2, <1>3, <1>4, <1>5, <1>6, <1>7 DEF WorkerLoop

(* The counts are inductive. *)
LEMMA CountsInductive == TypeInv /\ CountInv /\ [Next]_vars => CountInv'
<1> SUFFICES ASSUME TypeInv, CountInv, [Next]_vars PROVE CountInv'
  OBVIOUS
<1>1. CASE UNCHANGED vars
  BY <1>1 DEF vars, queueVars, wakeVars, CountInv, CountedIsFinite, Sleeping, Uncounting,
              Counting, At
<1>2. ASSUME NEW t \in Threads, Step(t)
      PROVE  CountInv'
  BY <1>2, EnqueueGlobalCounts, WorkerLoopCounts, ShutdownCounts DEF Step
<1>3. QED
  BY <1>1, <1>2 DEF Next

(* Nothing is counted at the start. *)
LEMMA CountsInit == Init => CountInv
<1> SUFFICES ASSUME Init PROVE CountInv
  OBVIOUS
<1>1. Sleeping = {} /\ Uncounting = {} /\ Counting = {} /\ entries = {}
  BY DEF Init, Sleeping, Uncounting, Counting, At, SleepPcs, UncountPcs, Threads
<1>2. QED
  BY <1>1, FS_EmptySet DEF Init, CountInv, CountedIsFinite

-------------------------------------------------------------------------------
(* Waking up.                                                              *)

\* The part of the invariant that is about the epoch and the notifies.
WakeInv == EpochIsPast /\ (running => NotStopped) /\ WakeupOnItsWay

PoolInv == TypeInv /\ CountInv /\ WakeInv

(* With every worker asleep the counters say so: all of them are counted as sleeping,
   and global_queue_count_ is not more than the entries. *)
LEMMA AllAsleepCounts ==
  ASSUME PoolInv, running, \A w \in Workers : Asleep(w)
  PROVE  sleeping_workers >= 1 /\ global_queue_count <= Cardinality(entries)
<1>1. Sleeping = Workers /\ Uncounting = {} /\ Workers # {}
  BY PoolAssumption DEF Asleep, Sleeping, Uncounting, At, SleepPcs, UncountPcs
<1>2. Cardinality(Workers) \in Nat /\ Cardinality(Workers) # 0
  BY <1>1, PoolAssumption, FS_CardinalityType, FS_EmptySet
<1>3. sentinels = 0
  BY DEF PoolInv, WakeInv, NotStopped
<1>4. /\ Cardinality(Counting) \in Nat /\ Cardinality(entries) \in Nat
      /\ Cardinality(Uncounting) = 0
  BY <1>1, CountedTypes, FS_EmptySet DEF PoolInv, CountInv
<1>5. QED
  BY <1>1, <1>2, <1>3, <1>4 DEF PoolInv, CountInv

(* The epochs, and shutdown's beginning. *)
LEMMA EpochKept ==
  ASSUME PoolInv, NEW t \in Threads, Step(t)
  PROVE  EpochIsPast' /\ (running => NotStopped)'
<1> USE PoolAssumption DEF PoolInv, WakeInv, TypeInv, TypeOK, EpochIsPast, NotStopped, Go,
        queueVars, wakeVars, localVars, Threads
<1>1. CASE t \in Producers /\ EnqueueGlobal(t)
  <2>1. CASE Enqueue(t) \/ CountUp(t) \/ LoadSleeping(t)
    BY <1>1, <2>1 DEF Enqueue, CountUp, LoadSleeping
  <2>2. CASE BumpEpoch(t, "bump", "notify")
    BY <1>1, <2>2 DEF BumpEpoch
  <2>3. CASE NotifyOne(t, "notify", "done")
    BY <1>1, <2>3 DEF NotifyOne
  <2>4. QED
    BY <1>1, <2>1, <2>2, <2>3 DEF EnqueueGlobal
<1>2. CASE t \in Workers /\ WorkerLoop(t)
  <2>1. ASSUME NEW from, NEW to, Dequeue(t, from, to) \/ Uncount(t, from, to)
                                 \/ Miss(t, from, to) \/ Held(t, from, to)
        PROVE  EpochIsPast' /\ (running => NotStopped)'
    BY <1>2, <2>1 DEF Dequeue, Uncount, Miss, Held
  <2>2. CASE Top(t) \/ SpinTest(t) \/ SpinMiss(t) \/ EpochWait(t) \/ Dispatch(t)
    BY <1>2, <2>2 DEF Top, SpinTest, SpinMiss, EpochWait, Dispatch
  <2>3. CASE LoadEpoch(t) \/ Sleep(t) \/ Unsleep(t)
    BY <1>2, <2>3 DEF LoadEpoch, Sleep, Unsleep
  <2>4. QED
    BY <1>2, <2>1, <2>2, <2>3 DEF WorkerLoop
<1>3. CASE t \in Stoppers /\ Shutdown(t)
  <2>1. CASE Exchange(t)
    BY <1>3, <2>1 DEF Exchange
  <2>2. CASE EnqueueNull(t) \/ CountNull(t) \/ BumpEpoch(t, "bump", "notify")
    BY <1>3, <2>2 DEF EnqueueNull, CountNull, BumpEpoch
  <2>3. CASE NotifyAll(t, "notify", "done")
    BY <1>3, <2>3 DEF NotifyAll
  <2>4. QED
    BY <1>3, <2>1, <2>2, <2>3 DEF Shutdown
<1>4. QED
  BY <1>1, <1>2, <1>3 DEF Step

(* A worker only falls asleep after it has found the queue empty. *)
LEMMA WakeWorker ==
  ASSUME PoolInv, NEW w \in Workers, WorkerLoop(w)
  PROVE  WakeupOnItsWay'
<1> SUFFICES ASSUME running', entries' # {}, \A v \in Workers : Asleep(v)'
             PROVE  \/ global_queue_count' <= 0
                    \/ \E p \in Producers : pc'[p] = "load" /\ num'[p] <= 1
                    \/ \E p \in Producers : pc'[p] = "bump"
                    \/ /\ \E p \in Producers : pc'[p] = "notify"
                       /\ \A v \in Workers : pc'[v] = "blocked" /\ epoch'[v] < global_queue_epoch'
  BY DEF WakeupOnItsWay
<1> USE PoolAssumption DEF PoolInv, TypeInv, TypeOK, Go, queueVars, wakeVars, localVars, Threads
<1>1. pc'[w] \in {"wait", "blocked"}
  BY DEF Asleep
<1>2. EpochWait(w) \/ Miss(w, "last_try", "wait")
  BY <1>1 DEF WorkerLoop, Top, Dequeue, Uncount, Held, Miss, SpinTest, SpinMiss, LoadEpoch,
              Sleep, Unsleep, Dispatch, WorkerPcs
<1>3. EpochWait(w)
  BY <1>2 DEF Miss
<1>4. pc[w] = "wait" /\ epoch[w] = global_queue_epoch
  BY <1>1, <1>3 DEF EpochWait
<1>5. \A v \in Workers : Asleep(v)
  BY <1>3, <1>4 DEF EpochWait, Asleep
<1>6. \/ global_queue_count <= 0
      \/ \E p \in Producers : pc[p] = "load" /\ num[p] <= 1
      \/ \E p \in Producers : pc[p] = "bump"
  BY <1>3, <1>4, <1>5 DEF EpochWait, WakeInv, WakeupOnItsWay
<1>7. QED
  BY <1>3, <1>6 DEF EpochWait

(* A step of enqueue_global keeps the wakeup on its way, or delivers it. *)
LEMMA WakeProducer ==
  ASSUME PoolInv, NEW p \in Producers, EnqueueGlobal(p)
  PROVE  WakeupOnItsWay'
<1> DEFINE Counted  == global_queue_count <= 0
           Loading  == \E q \in Producers : pc[q] = "load" /\ num[q] <= 1
           Bumping  == \E q \in Producers : pc[q] = "bump"
           Notified == /\ \E q \in Producers : pc[q] = "notify"
                       /\ \A w \in Workers : pc[w] = "blocked" /\ epoch[w] < global_queue_epoch
<1> SUFFICES ASSUME running', entries' # {}, \A w \in Workers : Asleep(w)'
             PROVE  Counted' \/ Loading' \/ Bumping' \/ Notified'
  BY DEF WakeupOnItsWay
<1> USE PoolAssumption DEF TypeInv, TypeOK, Go, queueVars, wakeVars, localVars, Threads
<1>0. /\ p \notin Workers /\ p \in Threads /\ TypeInv /\ running
      /\ pc \in [Threads -> WorkerPcs \cup OtherPcs]
      /\ (entries # {} /\ \A w \in Workers : Asleep(w))
           => Counted \/ Loading \/ Bumping \/ Notified
  <2>1. UNCHANGED running
    BY DEF EnqueueGlobal, Enqueue, CountUp, LoadSleeping, BumpEpoch, NotifyOne
  <2>2. QED
    BY <2>1 DEF PoolInv, WakeInv, WakeupOnItsWay
<1>1. CASE Enqueue(p)
  <2>1. \A w \in Workers : Asleep(w)
    BY <1>0, <1>1 DEF Enqueue, Asleep
  <2>2. CASE entries = {}
    BY <1>0, <1>1, <2>1, <2>2, AllAsleepCounts, FS_EmptySet DEF Enqueue
  <2>3. CASE entries # {}
    BY <1>0, <1>1, <2>1, <2>3 DEF Enqueue
  <2>4. QED
    BY <2>2, <2>3
<1>2. CASE CountUp(p)
  <2>1. entries # {} /\ \A w \in Workers : Asleep(w)
    BY <1>0, <1>2 DEF CountUp, Asleep
  <2>2. CASE Counted
    <3>1. pc'[p] = "load" /\ num'[p] <= 1
      BY <1>0, <1>2, <2>2 DEF CountUp
    <3>2. QED
      BY <3>1
  <2>3. CASE Loading \/ Bumping \/ Notified
    BY <1>0, <1>2, <2>3 DEF CountUp
  <2>4. QED
    BY <1>0, <2>1, <2>2, <2>3
<1>3. CASE LoadSleeping(p)
  <2>1. entries # {} /\ \A w \in Workers : Asleep(w)
    BY <1>0, <1>3 DEF LoadSleeping, Asleep
  <2>2. sleeping_workers >= 1
    BY <1>0, <2>1, AllAsleepCounts
  <2>3. CASE Loading
    <3>1. PICK q \in Producers : pc[q] = "load" /\ num[q] <= 1
      BY <2>3
    <3>2. CASE q = p
      <4>1. pc'[p] = "bump"
        BY <1>0, <1>3, <2>2, <3>1, <3>2 DEF LoadSleeping
      <4>2. QED
        BY <4>1
    <3>3. CASE q # p
      BY <1>0, <1>3, <3>1, <3>3 DEF LoadSleeping
    <3>4. QED
      BY <3>2, <3>3
  <2>4. CASE Counted \/ Bumping \/ Notified
    BY <1>0, <1>3, <2>4 DEF LoadSleeping
  <2>5. QED
    BY <1>0, <2>1, <2>3, <2>4
<1>4. CASE BumpEpoch(p, "bump", "notify")
  <2>1. /\ \A w \in Workers : pc'[w] = pc[w]
        /\ UNCHANGED epoch /\ global_queue_epoch' = global_queue_epoch + 1
        /\ pc'[p] = "notify"
    BY <1>0, <1>4 DEF BumpEpoch
  <2>2. \A w \in Workers : epoch[w] \in Nat /\ epoch[w] <= global_queue_epoch
    BY DEF PoolInv, WakeInv, EpochIsPast
  <2>3. \A w \in Workers : pc'[w] = "blocked" /\ epoch'[w] < global_queue_epoch'
    BY <1>0, <2>1, <2>2 DEF Asleep
  <2>4. QED
    BY <2>1, <2>3
<1>5. CASE NotifyOne(p, "notify", "done")
  <2>1. /\ pc[p] = "notify" /\ pc'[p] = "done"
        /\ \A q \in Producers : q # p => pc'[q] = pc[q]
        /\ UNCHANGED <<entries, global_queue_count, global_queue_epoch, epoch, num>>
    BY <1>0, <1>5 DEF NotifyOne
  <2>2. (\A w \in Workers : Asleep(w)) /\ ~Notified
    <3>1. CASE {w \in Workers : pc[w] = "blocked"} = {} /\ pc' = [pc EXCEPT ![p] = "done"]
      BY <1>0, <2>1, <3>1 DEF Asleep
    <3>2. ASSUME NEW w \in Workers, pc[w] = "blocked",
                 pc' = [pc EXCEPT ![p] = "done", ![w] = "wait"]
          PROVE  (\A v \in Workers : Asleep(v)) /\ ~Notified
      <4>1. pc'[w] = "wait" /\ \A v \in Workers \ {w} : pc'[v] = pc[v]
        BY <1>0, <3>2
      <4>2. epoch[w] = global_queue_epoch
        BY <2>1, <4>1 DEF Asleep
      <4>3. QED
        BY <1>0, <2>1, <3>2, <4>1, <4>2 DEF Asleep
    <3>3. QED
      BY <1>5, <3>1, <3>2 DEF NotifyOne
  <2>3. Counted \/ Loading \/ Bumping
    BY <1>0, <2>1, <2>2
  <2>4. QED
    BY <2>1, <2>3
<1>6. QED
  BY <1>1, <1>2, <1>3, <1>4, <1>5 DEF EnqueueGlobal

(* shutdown leaves the state the invariant is about for good. *)
LEMMA WakeStopper ==
  ASSUME PoolInv, NEW t \in Stoppers, Shutdown(t)
  PROVE  WakeupOnItsWay'
<1>1. ~running'
  BY DEF Shutdown, Exchange, EnqueueNull, CountNull, BumpEpoch, NotifyAll, Go, PoolInv, WakeInv,
         NotStopped
<1>2. QED
  BY <1>1 DEF WakeupOnItsWay

-------------------------------------------------------------------------------
(* PoolInv is inductive. *)
LEMMA Inductive == PoolInv /\ [Next]_vars => PoolInv'
<1> SUFFICES ASSUME PoolInv, [Next]_vars PROVE PoolInv'
  OBVIOUS
<1>1. TypeInv' /\ CountInv'
  BY TypesInductive, CountsInductive DEF PoolInv
<1>2. CASE UNCHANGED vars
  <2>1. WakeInv'
    BY <1>2 DEF vars, queueVars, wakeVars, localVars, PoolInv, WakeInv, EpochIsPast, NotStopped,
                WakeupOnItsWay, Asleep
  <2>2. QED
    BY <1>1, <2>1 DEF PoolInv
<1>3. ASSUME NEW t \in Threads, Step(t)
      PROVE  WakeInv'
  <2>1. WakeupOnItsWay'
    BY <1>3, WakeProducer, WakeWorker, WakeStopper DEF Step
  <2>2. QED
    BY <1>3, <2>1, EpochKept DEF WakeInv
<1>4. QED
  BY <1>1, <1>2, <1>3 DEF Next, PoolInv

(* PoolInv holds in every state of the specification. *)
LEMMA PoolInvariant == Spec => []PoolInv
<1>1. Init => PoolInv
  <2> SUFFICES ASSUME Init PROVE PoolInv
    OBVIOUS
  <2>1. WakeInv
    BY PoolAssumption DEF Init, WakeInv, EpochIsPast, NotStopped, WakeupOnItsWay, Threads
  <2>2. QED
    BY <2>1, TypesInit, CountsInit DEF PoolInv
<1>2. QED
  BY <1>1, Inductive, PTL DEF Spec

(* Every variable of the global queue and of the sleeping workers has its type: in
   particular dispatch_queue is only called with an entry in hand. *)
THEOREM PoolTypeCorrect == Spec => []TypeOK
<1>1. PoolInv => TypeOK
  BY DEF PoolInv, TypeInv
<1>2. QED
  BY <1>1, PoolInvariant, PTL

(* sleeping_workers_ and global_queue_count_ are off by exactly the updates that are
   still to come, for any number of threads. *)
THEOREM CountsAreExact == Spec => []CountsDoNotDrift
<1>1. PoolInv => CountsDoNotDrift
  BY CountSplit DEF PoolInv
<1>2. QED
  BY <1>1, PoolInvariant, PTL

(* The notify that enqueue_global leaves out is never the one that was needed: the
   workers are not all blocked over an entry with no notify on its way. *)
THEOREM NoWakeupIsLost == Spec => []NoLostWakeup
<1>1. PoolInv => NoLostWakeup
  <2> SUFFICES ASSUME PoolInv, running, entries # {}, \A w \in Workers : pc[w] = "blocked",
                      \A p \in Producers : pc[p] \in {"start", "done"}
               PROVE  FALSE
    BY DEF NoLostWakeup
  <2>1. Uncounting = {} /\ Counting = {}
    BY DEF Uncounting, Counting, At, UncountPcs, Threads, PoolInv, WakeInv, NotStopped
  <2>2. Cardinality(Uncounting) = 0 /\ Cardinality(Counting) = 0
    BY <2>1, FS_EmptySet
  <2>3. Cardinality(entries) \in Nat /\ Cardinality(entries) # 0 /\ sentinels = 0
    BY FS_CardinalityType, FS_EmptySet DEF PoolInv, CountInv, CountedIsFinite, WakeInv, NotStopped
  <2>4. global_queue_count > 0
    BY <2>2, <2>3 DEF PoolInv, CountInv
  <2>5. QED
    BY <2>4 DEF PoolInv, WakeInv, WakeupOnItsWay, Asleep, TypeInv, TypeOK
<1>2. QED
  BY <1>1, PoolInvariant, PTL

===============================================================================
