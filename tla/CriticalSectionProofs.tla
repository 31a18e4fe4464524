------------------------- MODULE CriticalSectionProofs -------------------------
(***************************************************************************)
(* Proofs about CriticalSection, for any number of coroutines, calls of    *)
(* the queue and depth of nesting: the service that uses the queue keeps   *)
(* what LuaServiceProofs shows of it, the queue excludes, and, when the    *)
(* program catches its errors, it is a FIFO lock.                          *)
(***************************************************************************)
EXTENDS CriticalSection, LuaServiceProofs

-------------------------------------------------------------------------------
(* The inductive invariant                                                 *)

\* The queue is with nobody only when nobody is in a protected function.
LockInv ==
    /\ CSTypeOK /\ Exclusive
    /\ current_thread = Nil => ref = 0

InLine(c) == \E i \in 1..Len(thread_queue) : thread_queue[i] = c
Distinct == \A i, j \in 1..Len(thread_queue) : thread_queue[i] = thread_queue[j] => i = j

\* Who is in line has called skynet.wait, sleeps, and has no wakeup on its way.
LineAsleep ==
    \A i \in 1..Len(thread_queue) :
        /\ thread_queue[i] \in wanting /\ thread_queue[i] # current_thread
        /\ sleep_session[thread_queue[i]] # 0 /\ thread_queue[i] \notin wakeup_queue

\* Without errors: a waiter is in line, once, or the queue was handed to it.
LineInv ==
    /\ Distinct /\ LineAsleep
    /\ \A c \in wanting : InLine(c) \/ (c = current_thread /\ ref = 0)
    /\ current_thread # Nil /\ ref = 0 => current_thread \in wanting
    /\ current_thread = Nil => thread_queue = <<>>

-------------------------------------------------------------------------------
(* The service *)

(* What the queue does to the service is what the service may do: a wait is a sleep, and a
   hand-over is a wakeup. *)
LEMMA QueueIsService ==
  ASSUME CSTypeOK, [CSNext]_csvars
  PROVE  [ServiceNext]_vars
<1>1. CASE UNCHANGED csvars
  BY <1>1 DEF csvars
<1>2. CASE Message \/ Arrival \/ Turn \/ Work \/ Pending
  BY <1>2 DEF Message, Arrival, Turn, Work, Pending, ServiceNext, Next, Answer
<1>3. CASE Enter
  BY <1>3 DEF Enter, Able, PauseStep, ServiceNext
<1>4. CASE Admitted \/ AssertFails
  BY <1>4 DEF Admitted, AssertFails
<1>5. CASE Leave
  <2>1. CASE ref = 1 /\ thread_queue # <<>>
    <3>1. Head(thread_queue) \in Co
      BY <2>1, TailFacts DEF CSTypeOK
    <3>2. MarkStep(Head(thread_queue))
      BY <1>5, <2>1 DEF Leave, HandOver, MarkStep, Able
    <3>3. QED
      BY <3>1, <3>2 DEF ServiceNext
  <2>2. CASE ~(ref = 1 /\ thread_queue # <<>>)
    BY <1>5, <2>2 DEF Leave, HandOver, vars, queues
  <2>3. QED
    BY <2>1, <2>2
<1>6. QED
  BY <1>1, <1>2, <1>3, <1>4, <1>5 DEF CSNext, UseQueue

-------------------------------------------------------------------------------
(* Exclusion *)

(* The protected function starts, for the coroutine that has the queue or when nobody is in. *)
LEMMA TakeExcludes ==
  ASSUME LockInv, stack # <<>>, Take, ref = 0 \/ current_thread = Top, depth[Top] < MaxDepth
  PROVE  /\ depth' \in [Co -> 0..MaxDepth] /\ ref' \in Nat /\ current_thread' \in Co
         /\ Exclusive'
<1>1. Top \in Co
  BY TopFacts DEF LockInv, CSTypeOK
<1>2. /\ depth \in [Co -> 0..MaxDepth] /\ MaxDepth \in Nat /\ ref \in Nat
      /\ depth' = [depth EXCEPT ![Top] = @ + 1] /\ ref' = ref + 1 /\ current_thread' = Top
  BY QueueAssumption DEF LockInv, CSTypeOK, Take
<1>3. depth[Top] = ref /\ \A c \in Co \ {Top} : depth[c] = 0
  BY <1>1 DEF LockInv, Exclusive
<1>4. /\ depth' \in [Co -> 0..MaxDepth]
      /\ depth'[Top] = ref + 1 /\ \A c \in Co \ {Top} : depth'[c] = 0
  BY <1>1, <1>2, <1>3
<1>5. QED
  BY <1>1, <1>2, <1>4 DEF Exclusive

LEMMA EnterExcludes ==
  ASSUME LockInv, TypeOK', Enter
  PROVE  LockInv'
<1>1. /\ stack # <<>> /\ Top \in Co /\ entries' \in 0..MaxEnter /\ depth[Top] < MaxDepth
  BY TopFacts, QueueAssumption DEF Enter, Able, LockInv, CSTypeOK
<1>2. CASE MayPass /\ Take /\ UNCHANGED <<vars, thread_queue, wanting>>
  <2>1. ref = 0 \/ current_thread = Top
    BY <1>2 DEF MayPass, LockInv
  <2>2. /\ depth' \in [Co -> 0..MaxDepth] /\ ref' \in Nat /\ current_thread' \in Co /\ Exclusive'
    BY <1>1, <1>2, <2>1, TakeExcludes
  <2>3. current_thread' # Nil
    BY <2>2, ServiceAssumption
  <2>4. QED
    BY <1>1, <1>2, <2>2, <2>3 DEF LockInv, CSTypeOK
<1>3. CASE /\ thread_queue' = Append(thread_queue, Top) /\ wanting' = wanting \cup {Top}
           /\ UNCHANGED <<current_thread, ref, depth>>
  <2>1. thread_queue' \in Seq(Co) /\ wanting' \subseteq Co
    BY <1>1, <1>3, AppendFacts DEF LockInv, CSTypeOK
  <2>2. QED
    BY <1>1, <1>3, <2>1 DEF LockInv, CSTypeOK, Exclusive
<1>4. QED
  BY <1>2, <1>3 DEF Enter

LEMMA LeaveExcludes ==
  ASSUME LockInv, TypeOK', Leave
  PROVE  LockInv'
<1>1. stack # <<>> /\ Top \in Co /\ depth[Top] > 0
  BY TopFacts DEF Leave, Able, LockInv, CSTypeOK
<1>2. /\ depth \in [Co -> 0..MaxDepth] /\ MaxDepth \in Nat /\ ref \in Nat
      /\ depth' = [depth EXCEPT ![Top] = @ - 1] /\ ref' = ref - 1
      /\ UNCHANGED <<wanting, entries>>
  BY QueueAssumption DEF LockInv, CSTypeOK, Leave
<1>3. Top = current_thread /\ depth[Top] = ref /\ \A c \in Co \ {Top} : depth[c] = 0
  BY <1>1 DEF LockInv, Exclusive
<1>4. /\ depth' \in [Co -> 0..MaxDepth] /\ ref' \in Nat
      /\ depth'[Top] = ref - 1 /\ \A c \in Co \ {Top} : depth'[c] = 0
  BY <1>1, <1>2, <1>3
<1>5. CASE ref # 1
  <2>1. UNCHANGED <<current_thread, thread_queue>>
    BY <1>5 DEF Leave
  <2>2. current_thread # Nil
    BY <1>1, <1>3, ServiceAssumption
  <2>3. Exclusive'
    BY <1>2, <1>3, <1>4, <2>1 DEF Exclusive
  <2>4. QED
    BY <1>2, <1>4, <2>1, <2>2, <2>3 DEF LockInv, CSTypeOK
<1>6. CASE ref = 1
  <2>1. ref' = 0 /\ \A c \in Co : depth'[c] = 0
    BY <1>2, <1>4, <1>6
  <2>2. current_thread' \in Co \cup {Nil} /\ thread_queue' \in Seq(Co)
    BY ZenonT(60), <1>6, TailFacts DEF Leave, HandOver, LockInv, CSTypeOK
  <2>3. QED
    BY <1>2, <1>4, <2>1, <2>2 DEF LockInv, CSTypeOK, Exclusive
<1>7. QED
  BY <1>5, <1>6

(* The lock is inductive, with or without errors. *)
LEMMA LockInductive == LockInv /\ [CSNext]_csvars => LockInv'
<1> SUFFICES ASSUME LockInv, [CSNext]_csvars PROVE LockInv'
  OBVIOUS
<1>0. TypeOK'
  BY QueueIsService, ServiceTypes DEF LockInv, CSTypeOK
<1>1. CASE UNCHANGED lock
  BY <1>0, <1>1 DEF lock, LockInv, CSTypeOK, Exclusive
<1>2. CASE Enter
  BY <1>0, <1>2, EnterExcludes
<1>3. CASE Admitted
  <2>1. /\ stack # <<>> /\ Top \in Co /\ ref = 0 /\ Take /\ wanting' \subseteq Co
        /\ UNCHANGED <<thread_queue, entries>>
    BY <1>3, TopFacts DEF Admitted, LockInv, CSTypeOK
  <2>2. depth[Top] < MaxDepth
    BY <2>1, QueueAssumption DEF LockInv, Exclusive, CSTypeOK
  <2>3. /\ depth' \in [Co -> 0..MaxDepth] /\ ref' \in Nat /\ current_thread' \in Co /\ Exclusive'
    BY <2>1, <2>2, TakeExcludes
  <2>4. current_thread' # Nil
    BY <2>3, ServiceAssumption
  <2>5. QED
    BY <1>0, <2>1, <2>3, <2>4 DEF LockInv, CSTypeOK
<1>4. CASE AssertFails
  BY <1>0, <1>4 DEF AssertFails, LockInv, CSTypeOK, Exclusive
<1>5. CASE Leave
  BY <1>0, <1>5, LeaveExcludes
<1>6. QED
  BY <1>1, <1>2, <1>3, <1>4, <1>5
  DEF CSNext, csvars, Message, Arrival, Turn, Work, Pending, UseQueue

LEMMA LockInit == CSInit => LockInv
<1> SUFFICES ASSUME CSInit PROVE LockInv
  OBVIOUS
<1>1. TypeOK
  BY ServiceInit DEF CSInit, ServiceInv
<1>2. QED
  BY <1>1, QueueAssumption, ServiceAssumption DEF CSInit, LockInv, CSTypeOK, Exclusive

(* A service that uses the queue keeps its sessions and its debts, and the queue excludes:
   nobody but current_thread is in a protected function, at every depth and with errors. *)
THEOREM QueueSafe ==
  CSSpec => [](/\ WaiterHasItsSession /\ ReplyOnce /\ DebtIsTheHandlers
               /\ CSTypeOK /\ Exclusive)
<1> DEFINE Inv == ServiceInv /\ LockInv
<1>1. CSInit => Inv
  BY ServiceInit, LockInit DEF CSInit
<1>2. Inv /\ [CSNext]_csvars => Inv'
  <2>1. LockInv => CSTypeOK
    BY DEF LockInv
  <2>2. QED
    BY <2>1, QueueIsService, ServiceInductive, LockInductive
<1>3. Inv => /\ WaiterHasItsSession /\ ReplyOnce /\ DebtIsTheHandlers
             /\ CSTypeOK /\ Exclusive
  BY DebtIsOne DEF ServiceInv, SessionInv, LockInv
<1>4. QED
  BY <1>1, <1>2, <1>3, PTL DEF CSSpec

(* In a service that uses the queue, the suspended coroutines and session_id_coroutine agree:
   every wait is found by its answer, and the table has exactly the sessions whose answer is
   still to come, also when errors leave dispatch_message. *)
THEOREM WaitersHaveSessions == CSSpec => []WaiterHasItsSession
  BY QueueSafe, PTL

(* A request is answered once at most, by ret or by the function of response, and when it has
   been answered nobody is left who could answer it. *)
THEOREM RepliesOnce == CSSpec => []ReplyOnce
  BY QueueSafe, PTL

(* Only the coroutine that a request was dispatched to has it in session_coroutine_id, however
   coroutines are recycled by co_create. *)
THEOREM DebtsAreOwn == CSSpec => []DebtIsTheHandlers
  BY QueueSafe, PTL

(* The types of the queue and of the service that uses it. *)
THEOREM QueueTypeCorrect == CSSpec => []CSTypeOK
  BY QueueSafe, PTL

(* Nobody but current_thread is in a protected function, whatever fails. *)
THEOREM QueueExcludes == CSSpec => []Exclusive
  BY QueueSafe, PTL

-------------------------------------------------------------------------------
(* The line *)

\* All that the line rests on.
QueueInv == ServiceInv /\ TurnInv /\ MarkInv /\ LockInv /\ LineInv

(* Only who sleeps is marked or in line; what runs is neither. *)
LEMMA RunnerIsAwake ==
  ASSUME QueueInv, stack # <<>>
  PROVE  /\ Top \in Co /\ Top # Nil
         /\ sleep_session[Top] = 0 /\ Top \notin wakeup_queue /\ ~InLine(Top)
<1>1. Top \in Co /\ state[Top] = "running"
  BY TopRuns DEF QueueInv, ServiceInv
<1>2. sleep_session[Top] = 0
  BY <1>1 DEF QueueInv, ServiceInv, SessionInv, WaiterHasItsSession
<1>3. QED
  BY <1>1, <1>2, ServiceAssumption DEF QueueInv, MarkInv, LineInv, LineAsleep, InLine

(* The assertion of the queue after its wait: a waiter that runs is not in line any more. *)
LEMMA WaiterWasHandedIt == QueueInv => WaiterFindsItFree
  BY RunnerIsAwake DEF QueueInv, LineInv, WaiterFindsItFree

(* The line is kept by a step that leaves it alone, wakes nobody in it and marks nobody in it. *)
LEMMA KeepLine ==
  ASSUME LineInv, UNCHANGED lock,
         \A c \in wanting : sleep_session[c] # 0 /\ c \notin wakeup_queue /\ InLine(c)
                            => sleep_session'[c] # 0 /\ c \notin wakeup_queue'
  PROVE  LineInv'
<1>1. LineAsleep'
  BY DEF LineInv, LineAsleep, lock, InLine
<1>2. QED
  BY <1>1 DEF LineInv, Distinct, lock, InLine

(* Who sleeps keeps its sleep in every step of the service but its own wakeup and its answer. *)
LEMMA DispatchSleep ==
  ASSUME ServiceInv, NEW r \in Request, Begin(r) \/ Refuse(r) \/ Postpone(r)
  PROVE  \A c \in Co : sleep_session[c] # 0 => sleep_session'[c] # 0
<1>1. CASE Begin(r)
  <2>1. PICK d \in Co : CoCreate(d) /\ Resume(d)
    BY <1>1 DEF Begin
  <2>2. sleep_session[d] = 0
    BY <2>1 DEF CoCreate, ServiceInv, SessionInv, WaiterHasItsSession
  <2>3. QED
    BY <2>1, <2>2, ResumeFacts DEF ServiceInv
<1>2. CASE Refuse(r) \/ Postpone(r)
  BY <1>2 DEF Refuse, Postpone, NoResume
<1>3. QED
  BY <1>1, <1>2

LEMMA MessageLine ==
  ASSUME QueueInv, Message \/ Arrival
  PROVE  LineInv'
<1>0. ServiceInv /\ TypeOK /\ LineInv /\ UNCHANGED lock /\ wanting \subseteq Co
  BY DEF QueueInv, ServiceInv, LockInv, CSTypeOK, Message, Arrival
<1>1. CASE Message
  <2>1. PICK s \in Session : session_id_coroutine[s] \notin wanting /\ (TimerFires(s) \/ PeerAnswers(s))
    BY <1>1 DEF Message
  <2>2. UNCHANGED wakeup_queue
    BY <2>1 DEF TimerFires, PeerAnswers, queues
  <2>3. \/ UNCHANGED sleep_session
        \/ session_id_coroutine[s] \in Co /\ Resume(session_id_coroutine[s])
    BY <2>1 DEF TimerFires, PeerAnswers, Answered, NoResume
  <2>4. \A c \in wanting : sleep_session'[c] = sleep_session[c]
    BY <1>0, <2>1, <2>3, ResumeFacts
  <2>5. QED
    BY <1>0, <2>2, <2>4, KeepLine
<1>2. CASE Arrival
  <2>1. PICK r \in Request : RequestArrives(r)
    BY <1>2 DEF Arrival
  <2>2. UNCHANGED wakeup_queue /\ \A c \in Co : sleep_session[c] # 0 => sleep_session'[c] # 0
    BY <1>0, <2>1, DispatchSleep DEF RequestArrives, queues
  <2>3. QED
    BY <1>0, <2>2, KeepLine
<1>3. QED
  BY <1>1, <1>2

LEMMA TurnLine ==
  ASSUME QueueInv, Turn
  PROVE  LineInv'
<1>0. ServiceInv /\ TypeOK /\ LineInv /\ UNCHANGED lock /\ wanting \subseteq Co /\ MarkInv
  BY DEF QueueInv, ServiceInv, LockInv, CSTypeOK, Turn
<1>1. CASE RunFork
  <2>1. Head(fork_queue) \in Co /\ state[Head(fork_queue)] = "new"
    BY <1>0, <1>1, TailFacts DEF RunFork, ForkInv, ServiceInv, TypeOK
  <2>2. sleep_session[Head(fork_queue)] = 0
    BY <1>0, <2>1 DEF ServiceInv, SessionInv, WaiterHasItsSession
  <2>3. UNCHANGED wakeup_queue /\ \A c \in Co : sleep_session[c] # 0 => sleep_session'[c] # 0
    BY <1>0, <1>1, <2>1, <2>2, ResumeFacts DEF RunFork
  <2>4. QED
    BY <1>0, <2>3, KeepLine
<1>2. CASE ListWakeups \/ WakeupsDone
  <2>1. UNCHANGED <<wakeup_queue, sleep_session>>
    BY <1>2 DEF ListWakeups, WakeupsDone, queues, tables
  <2>2. QED
    BY <1>0, <2>1, KeepLine
<1>3. CASE RunWakeup
  <2>1. PICK d \in wakeup_list : wakeup_queue' = wakeup_queue \ {d} /\ (Resume(d) \/ NoResume)
    BY <1>3 DEF RunWakeup
  <2>2. d \in Co /\ d \in wakeup_queue
    BY <1>0, <2>1 DEF TypeOK, MarkInv
  <2>3. \A c \in Co \ {d} : sleep_session'[c] = sleep_session[c]
    BY <1>0, <2>1, <2>2, ResumeFacts DEF NoResume
  <2>4. QED
    BY <1>0, <2>1, <2>2, <2>3, KeepLine
<1>4. QED
  BY <1>1, <1>2, <1>3 DEF Turn, Loop

LEMMA WorkLine ==
  ASSUME QueueInv, ~Errors, Work \/ Pending
  PROVE  LineInv'
<1> USE DEF queues, tables
<1>0. ServiceInv /\ TypeOK /\ LineInv /\ UNCHANGED lock /\ wanting \subseteq Co /\ stack # <<>>
  BY DEF QueueInv, ServiceInv, LockInv, CSTypeOK, Work, Pending, Able
<1>1. CASE DispatchPending
  <2>1. Head(backlog) \in Request
    BY <1>0, <1>1, TailFacts DEF DispatchPending, TypeOK
  <2>2. UNCHANGED wakeup_queue /\ \A c \in Co : sleep_session[c] # 0 => sleep_session'[c] # 0
    BY <1>0, <1>1, <2>1, DispatchSleep DEF DispatchPending
  <2>3. QED
    BY <1>0, <2>2, KeepLine
<1>2. CASE Finish \/ Started
  <2>1. UNCHANGED <<wakeup_queue, sleep_session>>
    BY <1>2 DEF Finish, Started
  <2>2. QED
    BY <1>0, <2>1, KeepLine
<1>3. CASE Operate /\ (wakeup_queue' \ wakeup_queue) \cap wanting = {}
  <2>1. CASE Sleep
    <3>1. /\ UNCHANGED wakeup_queue
          /\ sleep_session' = [sleep_session EXCEPT ![Top] = NextSession]
      BY <2>1 DEF Sleep, Pause
    <3>2. Top \in Co /\ NextSession # 0
      BY <1>0, TopFacts DEF NextSession, TypeOK, Session
    <3>3. \A c \in Co : sleep_session[c] # 0 => sleep_session'[c] # 0
      BY <1>0, <3>1, <3>2 DEF TypeOK
    <3>4. QED
      BY <1>0, <3>1, <3>3, KeepLine
  <2>2. CASE ~Sleep
    <3>1. UNCHANGED sleep_session
      BY <1>3, <2>2 DEF Operate, Call, Timeout, Fork, Ret, IgnoreRet, Response, Register, Wakeup, Respond
    <3>2. QED
      BY <1>0, <1>3, <3>1, KeepLine
  <2>3. QED
    BY <2>1, <2>2
<1>4. QED
  BY <1>1, <1>2, <1>3 DEF Work, Pending, End, Raise

LEMMA EnterLine ==
  ASSUME QueueInv, Enter
  PROVE  LineInv'
<1>0. /\ TypeOK /\ LineInv /\ LockInv /\ stack # <<>> /\ Top \notin wanting
      /\ thread_queue \in Seq(Co) /\ wanting \subseteq Co /\ ref \in Nat
      /\ Top \in Co /\ Top # Nil /\ Top \notin wakeup_queue /\ ~InLine(Top)
  BY RunnerIsAwake DEF QueueInv, ServiceInv, LockInv, CSTypeOK, Enter, Able
<1>1. CASE MayPass /\ Take /\ UNCHANGED <<vars, thread_queue, wanting>>
  <2>1. ref' = ref + 1 /\ current_thread' = Top /\ UNCHANGED <<sleep_session, wakeup_queue>>
    BY <1>1 DEF Take, vars, tables, queues
  <2>2. \A c \in wanting : InLine(c)
    <3>1. ASSUME NEW c \in wanting, c = current_thread, ref = 0 PROVE FALSE
      BY <1>0, <1>1, <3>1, ServiceAssumption DEF MayPass, LineInv
    <3>2. QED
      BY <1>0, <3>1 DEF LineInv
  <2>3. LineAsleep'
    BY <1>0, <1>1, <2>1 DEF LineInv, LineAsleep, InLine
  <2>4. QED
    BY <1>0, <1>1, <2>1, <2>2, <2>3 DEF LineInv, Distinct, InLine
<1>2. CASE /\ ~MayPass /\ thread_queue' = Append(thread_queue, Top)
           /\ wanting' = wanting \cup {Top} /\ Pause
           /\ UNCHANGED <<queues, startup, answers, phase, wakeup_list, fate>>
           /\ UNCHANGED <<current_thread, ref, depth>>
  <2>1. /\ Len(thread_queue) \in Nat /\ Len(thread_queue') = Len(thread_queue) + 1
        /\ \A i \in 1..Len(thread_queue) : thread_queue'[i] = thread_queue[i]
        /\ thread_queue'[Len(thread_queue) + 1] = Top
    BY <1>0, <1>2, AppendFacts
  <2>2. current_thread # Nil /\ current_thread # Top /\ UNCHANGED wakeup_queue
    BY <1>2 DEF MayPass, queues
  <2>3. sleep_session'[Top] # 0 /\ \A c \in Co \ {Top} : sleep_session'[c] = sleep_session[c]
    BY <1>0, <1>2 DEF Pause, TypeOK, NextSession, Session
  <2>4. Distinct'
    BY <1>0, <2>1 DEF LineInv, Distinct, InLine
  <2>5. LineAsleep'
    <3>1. ASSUME NEW i \in 1..Len(thread_queue')
          PROVE  /\ thread_queue'[i] \in wanting' /\ thread_queue'[i] # current_thread'
                 /\ sleep_session'[thread_queue'[i]] # 0 /\ thread_queue'[i] \notin wakeup_queue'
      <4>1. CASE i \in 1..Len(thread_queue)
        <5>1. thread_queue[i] \in Co \ {Top}
          BY <1>0, <4>1 DEF InLine
        <5>2. QED
          BY <1>0, <1>2, <2>1, <2>2, <2>3, <4>1, <5>1 DEF LineInv, LineAsleep
      <4>2. CASE i = Len(thread_queue) + 1
        BY <1>0, <1>2, <2>1, <2>2, <2>3, <4>2
      <4>3. QED
        BY <2>1, <4>1, <4>2
    <3>2. QED
      BY <3>1 DEF LineAsleep
  <2>6. ASSUME NEW c \in wanting'
        PROVE  InLine(c)' \/ (c = current_thread' /\ ref' = 0)
    <3>1. CASE c = Top
      <4>1. Len(thread_queue) + 1 \in 1..Len(thread_queue')
        BY <2>1
      <4>2. QED
        BY <2>1, <3>1, <4>1 DEF InLine
    <3>2. CASE InLine(c)
      <4>1. PICK i \in 1..Len(thread_queue) : thread_queue[i] = c
        BY <3>2 DEF InLine
      <4>2. i \in 1..Len(thread_queue') /\ thread_queue'[i] = c
        BY <2>1, <4>1
      <4>3. QED
        BY <4>2 DEF InLine
    <3>3. QED
      BY <1>0, <1>2, <3>1, <3>2 DEF LineInv
  <2>7. QED
    BY <1>0, <1>2, <2>2, <2>4, <2>5, <2>6 DEF LineInv
<1>3. QED
  BY <1>1, <1>2 DEF Enter

LEMMA AdmittedLine ==
  ASSUME QueueInv, Admitted \/ AssertFails
  PROVE  Admitted /\ Top = current_thread /\ ref = 0 /\ LineInv'
<1>1. stack # <<>> /\ Top \in wanting /\ Top \in Co /\ Top # Nil /\ ~InLine(Top)
  BY RunnerIsAwake DEF Admitted, AssertFails
<1>2. LineInv /\ Top = current_thread /\ ref = 0 /\ Admitted
  BY <1>1 DEF QueueInv, LineInv, Admitted, AssertFails
<1>3. /\ ref' = 1 /\ current_thread' = Top /\ wanting' = wanting \ {Top}
      /\ UNCHANGED <<thread_queue, sleep_session, wakeup_queue>>
  BY <1>2 DEF Admitted, Take, vars, tables, queues
<1>4. LineAsleep'
  BY <1>1, <1>2, <1>3 DEF LineInv, LineAsleep, InLine
<1>5. QED
  BY <1>1, <1>2, <1>3, <1>4 DEF LineInv, Distinct, InLine

LEMMA LeaveLine ==
  ASSUME QueueInv, Leave
  PROVE  LineInv'
<1>0. /\ LineInv /\ thread_queue \in Seq(Co) /\ ref \in Nat \ {0} /\ current_thread \in Co
      /\ ref' = ref - 1 /\ UNCHANGED <<wanting, sleep_session>>
  <2>1. stack # <<>> /\ depth[Top] > 0 /\ Top \in Co
    BY RunnerIsAwake DEF Leave, Able
  <2>2. Top = current_thread /\ ref = depth[Top]
    BY <2>1 DEF QueueInv, LockInv, Exclusive
  <2>3. QED
    BY <2>1, <2>2 DEF QueueInv, LockInv, CSTypeOK, Leave, tables
<1>1. \A c \in wanting : InLine(c)
  BY <1>0 DEF LineInv
<1>2. CASE ref # 1
  <2>1. UNCHANGED <<current_thread, thread_queue, wakeup_queue>> /\ ref' # 0
    BY <1>0, <1>2 DEF Leave
  <2>2. LineAsleep'
    BY <1>0, <2>1 DEF LineInv, LineAsleep
  <2>3. QED
    BY <1>0, <1>1, <2>1, <2>2 DEF LineInv, Distinct, InLine
<1>3. CASE ref = 1 /\ thread_queue = <<>>
  <2>1. current_thread' = Nil /\ UNCHANGED <<thread_queue, wakeup_queue>> /\ ref' = 0
    BY <1>0, <1>3 DEF Leave, HandOver
  <2>2. \A c \in wanting' : FALSE
    BY <1>0, <1>1, <1>3 DEF InLine
  <2>3. QED
    BY <1>3, <2>1, <2>2 DEF LineInv, Distinct, LineAsleep
<1>4. CASE ref = 1 /\ thread_queue # <<>>
  <2>1. PICK n \in Nat \ {0}, h \in Co :
          /\ n = Len(thread_queue) /\ h = thread_queue[1] /\ Len(thread_queue') = n - 1
          /\ \A i \in 1..(n - 1) : thread_queue'[i] = thread_queue[i + 1]
          /\ current_thread' = h /\ Mark(h) /\ ref' = 0
    BY <1>0, <1>4, TailFacts DEF Leave, HandOver
  <2>2. h \in wanting /\ h # Nil /\ wakeup_queue' \subseteq wakeup_queue \cup {h}
    BY <1>0, <2>1, ServiceAssumption DEF LineInv, LineAsleep, Mark
  <2>3. Distinct'
    BY <1>0, <2>1 DEF LineInv, Distinct
  <2>4. LineAsleep'
    <3>1. ASSUME NEW i \in 1..(n - 1)
          PROVE  /\ thread_queue'[i] \in wanting' /\ thread_queue'[i] # h
                 /\ sleep_session'[thread_queue'[i]] # 0 /\ thread_queue'[i] \notin wakeup_queue'
      <4>1. i + 1 \in 1..n /\ 1 \in 1..n /\ i + 1 # 1 /\ thread_queue'[i] = thread_queue[i + 1]
        BY <2>1
      <4>2. thread_queue[i + 1] # h
        BY <1>0, <2>1, <4>1 DEF LineInv, Distinct
      <4>3. QED
        BY <1>0, <2>1, <2>2, <4>1, <4>2 DEF LineInv, LineAsleep
    <3>2. QED
      BY <2>1, <3>1 DEF LineAsleep
  <2>5. ASSUME NEW c \in wanting'
        PROVE  InLine(c)' \/ c = current_thread'
    <3>1. PICK i \in 1..n : thread_queue[i] = c
      BY <1>0, <1>1, <2>1 DEF InLine
    <3>2. CASE i = 1
      BY <2>1, <3>1, <3>2
    <3>3. CASE i # 1
      <4>1. i - 1 \in 1..Len(thread_queue') /\ thread_queue'[i - 1] = c
        BY <2>1, <3>1, <3>3
      <4>2. QED
        BY <4>1 DEF InLine
    <3>4. QED
      BY <3>2, <3>3
  <2>6. QED
    BY <1>0, <2>1, <2>2, <2>3, <2>4, <2>5 DEF LineInv
<1>5. QED
  BY <1>2, <1>3, <1>4

(* Without errors all of it is inductive. *)
LEMMA QueueInductive == ~Errors /\ QueueInv /\ [CSNext]_csvars => QueueInv'
<1> SUFFICES ASSUME ~Errors, QueueInv, [CSNext]_csvars PROVE QueueInv'
  OBVIOUS
<1>1. ServiceInv' /\ TurnInv' /\ MarkInv' /\ LockInv'
  BY QueueIsService, ServiceInductive, TurnInductive, MarkInductive, LockInductive
  DEF QueueInv, LockInv
<1>2. LineInv'
  <2>1. CASE UNCHANGED csvars
    BY <2>1, KeepLine DEF QueueInv, csvars, vars, tables, queues
  <2>2. CASE CSNext
    BY <2>2, MessageLine, TurnLine, WorkLine, EnterLine, AdmittedLine, LeaveLine
    DEF CSNext, UseQueue
  <2>3. QED
    BY <2>1, <2>2
<1>3. QED
  BY <1>1, <1>2 DEF QueueInv

LEMMA QueueInit == CSInit => QueueInv
<1> SUFFICES ASSUME CSInit PROVE QueueInv
  OBVIOUS
<1>1. LineInv
  BY DEF CSInit, LineInv, Distinct, LineAsleep
<1>2. QED
  BY <1>1, ServiceInit, TurnInit, LockInit DEF CSInit, QueueInv

(* Sequences with one put in front. *)
LEMMA FrontOfLine ==
  ASSUME NEW q \in Seq(Co), NEW c \in Co, NEW x \in Co
  PROVE  /\ <<c>> \o Append(q, x) = Append(<<c>> \o q, x)
         /\ <<c>> \o q # <<>> /\ Head(<<c>> \o q) = c /\ Tail(<<c>> \o q) = q
         /\ q # <<>> => <<Head(q)>> \o Tail(q) = q
  OBVIOUS

-------------------------------------------------------------------------------
(* FifoLock *)

LEMMA StepIsFifo ==
  ASSUME QueueInv, ~Errors, [CSNext]_csvars
  PROVE  [Fifo!Next]_<<IF ref > 0 THEN current_thread ELSE Nil, Waiters>>
<1>0. /\ LineInv /\ LockInv /\ thread_queue \in Seq(Co) /\ ref \in Nat /\ Nil \notin Co
      /\ current_thread \in Co \cup {Nil}
  BY ServiceAssumption DEF QueueInv, LockInv, CSTypeOK
<1>1. CASE UNCHANGED lock
  BY <1>1 DEF lock, Waiters
<1>2. CASE Enter
  <2>0. Top \in Co \ wanting
    BY <1>2, RunnerIsAwake DEF Enter, Able
  <2>1. CASE current_thread = Nil
    <3>1. ref = 0 /\ thread_queue = <<>> /\ Waiters = <<>>
      BY <1>0, <2>1 DEF LineInv, LockInv, Waiters
    <3>2. ref' = 1 /\ current_thread' = Top /\ UNCHANGED thread_queue
      BY <1>2, <2>1, <3>1 DEF Enter, MayPass, Take
    <3>3. Fifo!Pass(Top)
      BY <3>1, <3>2 DEF Fifo!Pass, Waiters
    <3>4. QED
      BY <2>0, <3>3 DEF Fifo!Next
  <2>2. CASE current_thread = Top
    <3>1. ref > 0
      BY <1>0, <2>0, <2>2 DEF LineInv
    <3>2. ref' = ref + 1 /\ current_thread' = Top /\ UNCHANGED thread_queue
      BY <1>2, <2>2 DEF Enter, MayPass, Take
    <3>3. QED
      BY <1>0, <2>2, <3>1, <3>2 DEF Waiters
  <2>3. CASE current_thread \notin {Nil, Top}
    <3>1. thread_queue' = Append(thread_queue, Top) /\ UNCHANGED <<current_thread, ref>>
      BY <1>2, <2>3 DEF Enter, MayPass
    <3>2. Waiters' = Append(Waiters, Top)
      BY <1>0, <2>0, <2>3, <3>1, FrontOfLine DEF Waiters
    <3>3. ref = 0 => Waiters # <<>>
      BY <1>0, <2>0, <2>3, FrontOfLine DEF Waiters
    <3>4. Fifo!Arrive(Top)
      BY <1>0, <2>0, <2>3, <3>1, <3>2, <3>3 DEF Fifo!Arrive
    <3>5. QED
      BY <2>0, <3>4 DEF Fifo!Next
  <2>4. QED
    BY <2>1, <2>2, <2>3
<1>3. CASE Admitted \/ AssertFails
  <2>1. /\ Admitted /\ Top = current_thread /\ ref = 0 /\ Top \in Co
        /\ ref' = 1 /\ current_thread' = Top /\ UNCHANGED thread_queue
    BY <1>3, AdmittedLine, RunnerIsAwake DEF Admitted, Take
  <2>2. Waiters = <<Top>> \o thread_queue /\ Waiters' = thread_queue
    BY <1>0, <2>1 DEF Waiters
  <2>3. Waiters # <<>> /\ Head(Waiters) = Top /\ Tail(Waiters) = thread_queue
    BY <1>0, <2>1, <2>2, FrontOfLine
  <2>4. Fifo!Admit
    BY <2>1, <2>2, <2>3 DEF Fifo!Admit
  <2>5. QED
    BY <2>4 DEF Fifo!Next
<1>4. CASE Leave
  <2>1. ref > 0 /\ current_thread \in Co /\ ref' = ref - 1
    <3>1. Top \in Co /\ depth[Top] > 0
      BY <1>4, RunnerIsAwake DEF Leave, Able
    <3>2. QED
      BY <1>0, <1>4, <3>1 DEF LockInv, Exclusive, Leave
  <2>2. CASE ref # 1
    BY <1>0, <1>4, <2>1, <2>2 DEF Leave, Waiters
  <2>3. CASE ref = 1
    <3>1. Waiters' = Waiters
      <4>1. Waiters = thread_queue /\ ref' = 0
        BY <1>0, <2>1, <2>3 DEF Waiters
      <4>2. CASE thread_queue = <<>>
        BY <1>4, <2>3, <4>1, <4>2 DEF Leave, HandOver, Waiters
      <4>3. CASE thread_queue # <<>>
        <5>1. Head(thread_queue) \in Co /\ <<Head(thread_queue)>> \o Tail(thread_queue) = thread_queue
          BY <1>0, <4>3, TailFacts, FrontOfLine
        <5>2. QED
          BY <1>0, <1>4, <2>3, <4>1, <4>3, <5>1 DEF Leave, HandOver, Waiters
      <4>4. QED
        BY <4>2, <4>3
    <3>2. Fifo!Exit
      BY <1>0, <2>1, <2>3, <3>1 DEF Fifo!Exit
    <3>3. QED
      BY <3>2 DEF Fifo!Next
  <2>4. QED
    BY <2>2, <2>3
<1>5. QED
  BY <1>1, <1>2, <1>3, <1>4
  DEF CSNext, csvars, Message, Arrival, Turn, Work, Pending, UseQueue

(* With a program that catches its errors: requests that came before the start function was
   done are dispatched, wakeups keep to their waits, and no assertion of the queue fails. *)
THEOREM QueueOrderly ==
  ASSUME ~Errors
  PROVE  CSSpec => /\ []PendingIsDispatched /\ WakeupKeepsItsWait
                   /\ []WaiterFindsItFree
<1>1. QueueInv /\ [CSNext]_csvars => QueueInv'
  BY QueueInductive
<1>2. QueueInv => PendingIsDispatched /\ WaiterFindsItFree
  BY NothingPending, WaiterWasHandedIt DEF QueueInv
<1>3. QueueInv /\ [CSNext]_csvars =>
        [\A c \in wakeup_queue \cap wakeup_queue' : awaits'[c] = awaits[c]]_vars
  BY QueueIsService, MarkKeepsWait DEF QueueInv, LockInv
<1>4. QED
  BY <1>1, <1>2, <1>3, QueueInit, PTL DEF CSSpec, WakeupKeepsItsWait

(* The requests that came before the start function was done are dispatched or refused in the
   message that makes the service started, if no handler of them fails. *)
THEOREM EarlyRequestsAreServed ==
  ASSUME ~Errors
  PROVE  CSSpec => []PendingIsDispatched
  BY QueueOrderly, PTL

(* wakeup breaks the wait that it was called for and no later one, if no error leaves
   dispatch_message before the marks are spent. *)
THEOREM WakeupsAreSpent ==
  ASSUME ~Errors
  PROVE  CSSpec => WakeupKeepsItsWait
  BY QueueOrderly, PTL

(* assert(ref == 0) of the queue, after its wait, does not fail under the same condition. *)
THEOREM AssertionHolds ==
  ASSUME ~Errors
  PROVE  CSSpec => []WaiterFindsItFree
  BY QueueOrderly, PTL

(* With a program that catches its errors the queue implements FifoLock: whoever comes while
   the queue is handed over, and whatever else the service does meanwhile, no waiter is
   overtaken. *)
THEOREM QueueIsFifo ==
  ASSUME ~Errors
  PROVE  CSSpec => IsFifo
<1>1. CSInit => Fifo!Init
  BY DEF CSInit, Fifo!Init, Waiters
<1>2. QueueInv /\ [CSNext]_csvars => QueueInv'
  BY QueueInductive
<1>3. QueueInv /\ [CSNext]_csvars =>
        [Fifo!Next]_<<IF ref > 0 THEN current_thread ELSE Nil, Waiters>>
  BY StepIsFifo
<1>4. QED
  BY <1>1, <1>2, <1>3, QueueInit, PTL DEF CSSpec, IsFifo, Fifo!Spec

===============================================================================
