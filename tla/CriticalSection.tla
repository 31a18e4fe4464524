--------------------------- MODULE CriticalSection ---------------------------
(***************************************************************************)
(* One execution queue of lualib/skynet/queue.lua, used by the coroutines  *)
(* of a Lua service: a re-entrant lock that hands itself over in the order *)
(* of arrival, by skynet.wait and skynet.wakeup.                           *)
(*                                                                         *)
(* The coroutines do all that LuaService lets them do, and call the queue. *)
(* A coroutine inside the protected function neither ends nor lets an      *)
(* error out: xpcall catches it, and what xpcall_ret raises afterwards is  *)
(* raised outside.  The queue's waiters are woken by the queue alone: not  *)
(* by other code of the service, and not by the timer of skynet.wait,      *)
(* which fires after eleven days.                                          *)
(***************************************************************************)
EXTENDS LuaService

CONSTANTS
    MaxEnter,   \* bound on the number of calls of the queue
    MaxDepth    \* bound on their nesting

ASSUME QueueAssumption == MaxEnter \in Nat /\ MaxDepth \in Nat \ {0}

VARIABLES
    current_thread,
    ref,
    thread_queue,
    wanting,    \* coroutines in the wait of the queue
    depth,      \* coroutine -> protected functions it is in
    entries

lock == <<current_thread, ref, thread_queue, wanting, depth, entries>>
csvars == <<vars, lock>>

\* A coroutine that runs the service's code.
Able == stack # <<>> /\ job[Top] # "backlog" /\ Top \notin wanting

\* The protected function starts.
Take ==
    /\ current_thread' = Top
    /\ ref' = ref + 1
    /\ depth' = [depth EXCEPT ![Top] = @ + 1]

\* Mutant: the queue is free whenever nobody is in it.
MayPassUnlessBusy == ref = 0 \/ current_thread = Top

\* Nobody has the queue, or the caller itself.
MayPass == current_thread \in {Nil, Top}

Enter ==
    /\ Able /\ entries < MaxEnter /\ depth[Top] < MaxDepth
    /\ entries' = entries + 1
    /\ \/ /\ ~MayPass
          /\ thread_queue' = Append(thread_queue, Top)
          /\ wanting' = wanting \cup {Top}
          /\ Pause
          /\ UNCHANGED <<queues, startup, answers, phase, wakeup_list, fate>>
          /\ UNCHANGED <<current_thread, ref, depth>>
       \/ MayPass /\ Take /\ UNCHANGED <<vars, thread_queue, wanting>>

\* The waiter was resumed: it looks at ref and not at current_thread.
Admitted ==
    /\ stack # <<>> /\ Top \in wanting
    /\ ref = 0
    /\ wanting' = wanting \ {Top}
    /\ Take
    /\ UNCHANGED <<vars, thread_queue, entries>>

\* assert(ref == 0) raises an error, which the coroutine may catch; it stays in
\* thread_queue.
AssertFails ==
    /\ stack # <<>> /\ Top \in wanting
    /\ ref # 0
    /\ wanting' = wanting \ {Top}
    /\ UNCHANGED <<vars, current_thread, ref, thread_queue, depth, entries>>

\* Mutant: the last in comes first.
HandOverLifo ==
    IF thread_queue = <<>>
      THEN current_thread' = Nil /\ UNCHANGED <<thread_queue, wakeup_queue>>
      ELSE /\ current_thread' = thread_queue[Len(thread_queue)]
           /\ thread_queue' = SubSeq(thread_queue, 1, Len(thread_queue) - 1)
           /\ Mark(thread_queue[Len(thread_queue)])

\* Mutant: nobody is woken.
HandOverSilently ==
    IF thread_queue = <<>>
      THEN current_thread' = Nil /\ UNCHANGED <<thread_queue, wakeup_queue>>
      ELSE /\ current_thread' = Head(thread_queue)
           /\ thread_queue' = Tail(thread_queue)
           /\ UNCHANGED wakeup_queue

\* The queue passes to the first waiter, who is woken.
HandOver ==
    IF thread_queue = <<>>
      THEN current_thread' = Nil /\ UNCHANGED <<thread_queue, wakeup_queue>>
      ELSE /\ current_thread' = Head(thread_queue)
           /\ thread_queue' = Tail(thread_queue)
           /\ Mark(Head(thread_queue))

\* Mutant: the nesting is not looked at.
LeaveEarly ==
    /\ Able /\ depth[Top] > 0
    /\ depth' = [depth EXCEPT ![Top] = @ - 1]
    /\ ref' = ref - 1
    /\ HandOver
    /\ UNCHANGED <<tables, fork_queue, startup, coroutines, world, answers, phase,
                   wakeup_list, fate, wanting, entries>>

\* xpcall_ret, when the protected function returned or failed.
Leave ==
    /\ Able /\ depth[Top] > 0
    /\ depth' = [depth EXCEPT ![Top] = @ - 1]
    /\ ref' = ref - 1
    /\ IF ref = 1 THEN HandOver
                  ELSE UNCHANGED <<current_thread, thread_queue, wakeup_queue>>
    /\ UNCHANGED <<tables, fork_queue, startup, coroutines, world, answers, phase,
                   wakeup_list, fate, wanting, entries>>

-----------------------------------------------------------------------------
CSInit ==
    /\ Init
    /\ current_thread = Nil /\ ref = 0 /\ thread_queue = <<>>
    /\ wanting = {} /\ depth = [c \in Co |-> 0] /\ entries = 0

\* What LuaService does apart from the queue.
Message ==
    /\ UNCHANGED lock
    /\ \E s \in Session :
        /\ session_id_coroutine[s] \notin wanting
        /\ TimerFires(s) \/ PeerAnswers(s)
Arrival == UNCHANGED lock /\ \E r \in Request : RequestArrives(r)
Turn == UNCHANGED lock /\ Loop
Work ==
    /\ UNCHANGED lock
    /\ Able
    /\ \/ Operate /\ (wakeup_queue' \ wakeup_queue) \cap wanting = {}
       \/ depth[Top] = 0 /\ End
Pending == UNCHANGED lock /\ stack # <<>> /\ job[Top] = "backlog" /\ End
UseQueue == Enter \/ Admitted \/ AssertFails \/ Leave

CSNext == Message \/ Arrival \/ Turn \/ Work \/ Pending \/ UseQueue

CSSpec == CSInit /\ [][CSNext]_csvars

\* Timers fire, other services answer, dispatch_message and the coroutines go
\* on, and a protected function ends.  Nobody has to send a request.
CSFairness == WF_csvars(Message) /\ WF_csvars(Turn) /\ WF_csvars(Work \/ Pending \/ UseQueue)
CSLiveSpec == CSSpec /\ CSFairness

-----------------------------------------------------------------------------
\* The shape of the state, the tables of the service (LuaService) included.
CSTypeOK ==
    /\ TypeOK
    /\ current_thread \in Co \cup {Nil}
    /\ ref \in Nat
    /\ thread_queue \in Seq(Co)
    /\ wanting \subseteq Co
    /\ depth \in [Co -> 0..MaxDepth]
    /\ entries \in 0..MaxEnter

\* Nobody but current_thread is in a protected function, and ref is the number
\* of them it is in: the queue is free exactly when the outermost has ended.
Exclusive ==
    \A c \in Co : depth[c] = IF c = current_thread THEN ref ELSE 0

\* The assertion of queue.lua after its wait: a waiter runs again only when the
\* queue was handed to it, and nobody is inside.
WaiterFindsItFree ==
    stack # <<>> /\ Top \in wanting => ref = 0 /\ current_thread = Top

\* The waiters in order, with the one that was handed the queue and has not
\* run yet in front.
Waiters ==
    IF ref = 0 /\ current_thread # Nil THEN <<current_thread>> \o thread_queue
                                       ELSE thread_queue
Fifo == INSTANCE FifoLock WITH
    Thread <- Co, Nobody <- Nil,
    inside <- IF ref > 0 THEN current_thread ELSE Nil,
    line <- Waiters

\* The queue implements FifoLock: no waiter is overtaken, neither by another
\* waiter nor by a newcomer that runs between the hand-over and the wakeup.
IsFifo == Fifo!Spec

\* Every waiter gets its turn.
WaiterIsAdmitted == \A c \in Co : c \in wanting ~> c \notin wanting
=============================================================================
