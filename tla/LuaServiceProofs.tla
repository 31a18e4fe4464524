--------------------------- MODULE LuaServiceProofs ---------------------------
(***************************************************************************)
(* Proofs about LuaService, for any number of coroutines, requests,        *)
(* sessions and forks.  The lemmas are about ServiceNext, which is what    *)
(* LuaService does and what the critical section does to it besides: they  *)
(* serve the proofs of CriticalSection as well.                            *)
(***************************************************************************)
EXTENDS LuaService, FiniteSetTheorems, SequenceTheorems, TLAPS

\* A sleep or a wait, whoever asks for it.
PauseStep ==
    /\ stack # <<>> /\ job[Top] # "backlog"
    /\ Pause
    /\ UNCHANGED <<queues, startup, answers, phase, wakeup_list, fate>>

\* A wakeup, whoever asks for it.
MarkStep(c) ==
    /\ stack # <<>>
    /\ Mark(c)
    /\ UNCHANGED <<tables, fork_queue, startup, coroutines, world, answers, phase,
                   wakeup_list, fate>>

ServiceNext == Next \/ PauseStep \/ \E c \in Co : MarkStep(c)

-------------------------------------------------------------------------------
(* The inductive invariant, part by part.                                  *)

\* The coroutines that run are those inside coroutine_resume, each once.
StackInv ==
    /\ \A i, j \in 1..Len(stack) : stack[i] = stack[j] => i = j
    /\ \A c \in Co : state[c] = "running" <=> \E i \in 1..Len(stack) : stack[i] = c

\* A fork that was not resumed yet is in fork_queue once.
ForkInv ==
    /\ \A i, j \in 1..Len(fork_queue) : fork_queue[i] = fork_queue[j] => i = j
    /\ \A i \in 1..Len(fork_queue) :
          state[fork_queue[i]] = "new" /\ job[fork_queue[i]] = "fork"

\* A session is the one of a call or the one of a timer, and was generated; the session
\* of a sleep is the one of a timer.
SessionInv ==
    /\ WaiterHasItsSession
    /\ due \cap asked = {}
    /\ \A s \in due \cup asked : s <= genid
    /\ \A c \in Co : sleep_session[c] # 0 => sleep_session[c] \in due

\* The debt of an answer is with nobody before the request is dispatched, then with one
\* coroutine or with one function, and with nobody once it is paid.
DebtInv ==
    \A r \in Request :
        /\ replies[r] \in {0, 1}
        /\ \/ fate[r] \in {"unsent", "pending"} \/ r \in deferred
           \/ \E c \in Co : session_coroutine_id[c] = r
           => replies[r] = 0
        /\ fate[r] \in {"unsent", "pending"} \/ r \in deferred
           => \A c \in Co : session_coroutine_id[c] # r
        /\ fate[r] \in {"unsent", "pending"} => r \notin deferred
        /\ \A c, d \in Co : session_coroutine_id[c] = r /\ session_coroutine_id[d] = r => c = d

\* What waits for the start function was not dispatched, and waits in one list, once.
Postponed(q) ==
    /\ \A i, j \in 1..Len(q) : q[i] = q[j] => i = j
    /\ \A i \in 1..Len(q) : fate[q[i]] = "pending"
PendingInv ==
    /\ Postponed(pending_messages) /\ Postponed(backlog)
    /\ service_started => pending_messages = <<>>
    /\ ~service_started => backlog = <<>>

ServiceInv ==
    /\ TypeOK /\ StackInv /\ ForkInv /\ SessionInv
    /\ DebtInv /\ DebtIsTheHandlers /\ PendingInv

\* Without errors: a message is dispatched to its end before the next one, and every
\* request that came before the start function was done is in one of the lists, with the
\* coroutine of the start function on the stack while it works on them.
TurnInv ==
    /\ phase = "idle" => stack = <<>>
    /\ backlog # <<>> => \E i \in 1..Len(stack) : job[stack[i]] = "backlog"
    /\ \A r \in Request : fate[r] = "pending" =>
          \/ \E i \in 1..Len(pending_messages) : pending_messages[i] = r
          \/ \E i \in 1..Len(backlog) : backlog[i] = r
    /\ \A c \in Co : job[c] = "start" => c = Main /\ ~service_started

\* Without errors: a coroutine that was marked by wakeup is still asleep, and is woken
\* before the next message.
MarkInv ==
    /\ phase = "idle" => wakeup_queue = {}
    /\ \A c \in wakeup_queue : sleep_session[c] # 0
    /\ wakeup_list \subseteq wakeup_queue

-------------------------------------------------------------------------------
(* Sequences *)

LEMMA AppendFacts ==
  ASSUME NEW S, NEW q \in Seq(S), NEW x \in S
  PROVE  /\ Append(q, x) \in Seq(S)
         /\ Len(q) \in Nat
         /\ Len(Append(q, x)) = Len(q) + 1
         /\ \A i \in 1..Len(q) : Append(q, x)[i] = q[i]
         /\ Append(q, x)[Len(q) + 1] = x
  OBVIOUS

LEMMA FrontFacts ==
  ASSUME NEW S, NEW q \in Seq(S), q # <<>>
  PROVE  /\ SubSeq(q, 1, Len(q) - 1) \in Seq(S)
         /\ Len(q) \in Nat \ {0}
         /\ q[Len(q)] \in S
         /\ Len(SubSeq(q, 1, Len(q) - 1)) = Len(q) - 1
         /\ \A i \in 1..(Len(q) - 1) : SubSeq(q, 1, Len(q) - 1)[i] = q[i]
<1>1. Len(q) \in Nat \ {0} /\ q[Len(q)] \in S
  OBVIOUS
<1> DEFINE n == Len(q) - 1
<1>2. n \in Nat /\ \A i \in 1..n : q[i] \in S
  BY <1>1
<1> HIDE DEF n
<1>3. /\ SubSeq(q, 1, n) \in Seq(S)
      /\ Len(SubSeq(q, 1, n)) = IF 1 <= n THEN n - 1 + 1 ELSE 0
      /\ \A i \in 1..(n - 1 + 1) : SubSeq(q, 1, n)[i] = q[1 + i - 1]
  BY <1>2, SubSeqProperties
<1>4. Len(SubSeq(q, 1, n)) = n /\ \A i \in 1..n : SubSeq(q, 1, n)[i] = q[i]
  BY <1>2, <1>3
<1>5. QED
  BY <1>1, <1>3, <1>4 DEF n

LEMMA TailFacts ==
  ASSUME NEW S, NEW q \in Seq(S), q # <<>>
  PROVE  /\ Head(q) \in S /\ Head(q) = q[1]
         /\ Tail(q) \in Seq(S)
         /\ Len(q) \in Nat \ {0}
         /\ Len(Tail(q)) = Len(q) - 1
         /\ \A i \in 1..(Len(q) - 1) : Tail(q)[i] = q[i + 1]
  OBVIOUS

-------------------------------------------------------------------------------
(* Types *)

(* The innermost coroutine, and the sequences without it. *)
LEMMA TopFacts ==
  ASSUME TypeOK, stack # <<>>
  PROVE  /\ Top \in Co
         /\ SubSeq(stack, 1, Len(stack) - 1) \in Seq(Co)
  BY FrontFacts DEF TypeOK, Top

(* coroutine_resume keeps the types of what it changes. *)
LEMMA ResumeTypes ==
  ASSUME TypeOK, NEW c \in Co, Resume(c)
  PROVE  /\ state' \in [Co -> {"none", "new", "running", "waiting", "pooled", "dead"}]
         /\ awaits' \in [Co -> Session \cup {0}]
         /\ stack' \in Seq(Co)
         /\ sleep_session' \in [Co -> Session \cup {0}]
  BY AppendFacts DEF TypeOK, Resume

(* A message: an answer or a request. *)
LEMMA AnswerTypes ==
  ASSUME TypeOK, NEW s \in Session, TimerFires(s) \/ PeerAnswers(s)
  PROVE  TypeOK'
<1> USE DEF tables, queues, startup, coroutines, world, answers
<1>1. /\ session_id_coroutine' \in [Session -> Co \cup {Nil, Break}]
      /\ phase' \in {"idle", "raw", "forks", "wakes"}
      /\ due' \subseteq Session /\ asked' \subseteq Session
      /\ UNCHANGED job
  BY DEF TypeOK, TimerFires, PeerAnswers, Answered, NoResume
<1>2. /\ state' \in [Co -> {"none", "new", "running", "waiting", "pooled", "dead"}]
      /\ awaits' \in [Co -> Session \cup {0}]
      /\ stack' \in Seq(Co)
      /\ sleep_session' \in [Co -> Session \cup {0}]
  <2>1. CASE NoResume
    BY <2>1 DEF NoResume, TypeOK
  <2>2. CASE session_id_coroutine[s] \in Co /\ Resume(session_id_coroutine[s])
    BY <2>2, ResumeTypes
  <2>3. QED
    BY <2>1, <2>2 DEF TimerFires, PeerAnswers, Answered
<1>3. QED
  BY <1>1, <1>2 DEF TypeOK, TimerFires, PeerAnswers

LEMMA DispatchTypes ==
  ASSUME TypeOK, NEW r \in Request, Begin(r) \/ Refuse(r)
  PROVE  /\ job' \in [Co -> {"none", "start", "backlog", "dispatch", "fork", "timeout"}]
         /\ session_coroutine_id' \in [Co -> Request \cup {Nil}]
         /\ state' \in [Co -> {"none", "new", "running", "waiting", "pooled", "dead"}]
         /\ awaits' \in [Co -> Session \cup {0}]
         /\ stack' \in Seq(Co)
         /\ sleep_session' \in [Co -> Session \cup {0}]
         /\ fate' \in [Request -> {"unsent", "pending", "begun", "refused"}]
         /\ deferred' \subseteq Calls
         /\ replies' \in [Request -> Nat]
<1>1. CASE Begin(r)
  <2>1. PICK c \in Co : /\ job' = [job EXCEPT ![c] = "dispatch"]
                        /\ session_coroutine_id' = [session_coroutine_id EXCEPT ![c] = r]
                        /\ Resume(c)
    BY <1>1 DEF Begin
  <2>2. QED
    BY <1>1, <2>1, ResumeTypes DEF Begin, TypeOK
<1>2. CASE Refuse(r)
  BY <1>2 DEF Refuse, NoResume, coroutines, TypeOK
<1>3. QED
  BY <1>1, <1>2

LEMMA RequestTypes ==
  ASSUME TypeOK, NEW r \in Request, RequestArrives(r)
  PROVE  TypeOK'
<1> USE DEF tables, queues, startup, coroutines, world, answers
<1>1. CASE (Begin(r) \/ Refuse(r)) /\ phase' \in {"raw", "forks"} /\ UNCHANGED pending_messages
  BY <1>1, DispatchTypes DEF RequestArrives, TypeOK
<1>2. CASE Postpone(r) /\ phase' = "forks"
  BY <1>2, AppendFacts DEF RequestArrives, Postpone, NoResume, TypeOK
<1>3. QED
  BY <1>1, <1>2 DEF RequestArrives

(* The loop of dispatch_message. *)
LEMMA LoopTypes ==
  ASSUME TypeOK, Loop
  PROVE  TypeOK'
<1> USE DEF tables, queues, startup, coroutines, world, answers
<1>1. CASE RunFork
  <2>1. Head(fork_queue) \in Co /\ Tail(fork_queue) \in Seq(Co)
    BY <1>1, TailFacts DEF RunFork, TypeOK
  <2>2. QED
    BY <1>1, <2>1, ResumeTypes DEF RunFork, TypeOK
<1>2. CASE ListWakeups \/ WakeupsDone
  BY <1>2 DEF ListWakeups, WakeupsDone, TypeOK
<1>3. CASE RunWakeup
  <2>1. PICK c \in wakeup_list :
          /\ wakeup_list' = wakeup_list \ {c}
          /\ wakeup_queue' = wakeup_queue \ {c}
          /\ \/ /\ sleep_session[c] # 0
                /\ session_id_coroutine' =
                      [session_id_coroutine EXCEPT ![sleep_session[c]] = Break]
                /\ Resume(c) /\ UNCHANGED job
             \/ sleep_session[c] = 0 /\ NoResume /\ UNCHANGED session_id_coroutine
    BY <1>3 DEF RunWakeup
  <2>2. c \in Co
    BY DEF TypeOK
  <2>3. CASE Resume(c) /\ UNCHANGED job
             /\ session_id_coroutine' = [session_id_coroutine EXCEPT ![sleep_session[c]] = Break]
    BY <1>3, <2>1, <2>2, <2>3, ResumeTypes DEF RunWakeup, TypeOK
  <2>4. CASE NoResume /\ UNCHANGED session_id_coroutine
    BY <1>3, <2>1, <2>2, <2>4 DEF RunWakeup, NoResume, TypeOK
  <2>5. QED
    BY <2>1, <2>3, <2>4
<1>4. QED
  BY <1>1, <1>2, <1>3 DEF Loop

(* What the running coroutine does. *)
LEMMA SuspendTypes ==
  ASSUME TypeOK, stack # <<>>, Generate, Suspend(NextSession)
  PROVE  /\ NextSession \in Session /\ Top \in Co
         /\ genid' \in Session
         /\ session_id_coroutine' \in [Session -> Co \cup {Nil, Break}]
         /\ state' \in [Co -> {"none", "new", "running", "waiting", "pooled", "dead"}]
         /\ awaits' \in [Co -> Session \cup {0}]
         /\ stack' \in Seq(Co)
  BY TopFacts, ServiceAssumption DEF TypeOK, Generate, NextSession, Suspend, Session

LEMMA OperateTypes ==
  ASSUME TypeOK, Operate \/ PauseStep \/ \E c \in Co : MarkStep(c)
  PROVE  TypeOK'
<1> USE DEF tables, queues, startup, coroutines, world, answers
<1>1. CASE Call
  BY <1>1, SuspendTypes DEF Call, Can, Suspend, TypeOK
<1>2. CASE Sleep \/ PauseStep
  <2>1. stack # <<>> /\ Pause /\ UNCHANGED <<queues, startup, answers, phase, wakeup_list, fate>>
    BY <1>2 DEF Sleep, PauseStep, Can
  <2>2. Generate /\ Suspend(NextSession) /\ UNCHANGED <<job, forks, asked>>
    BY <2>1 DEF Pause, Suspend
  <2>3. /\ sleep_session' \in [Co -> Session \cup {0}]
        /\ due' \subseteq Session
    BY <2>1, <2>2, SuspendTypes DEF Pause, TypeOK
  <2>4. QED
    BY <2>1, <2>2, <2>3, SuspendTypes DEF TypeOK
<1>3. CASE Timeout
  BY <1>3, ServiceAssumption DEF Timeout, Generate, NextSession, Session, TypeOK
<1>4. CASE Fork
  <2>1. PICK c \in Co : /\ state' = [state EXCEPT ![c] = "new"]
                        /\ job' = [job EXCEPT ![c] = "fork"]
                        /\ fork_queue' = Append(fork_queue, c)
    BY <1>4 DEF Fork
  <2>2. fork_queue' \in Seq(Co) /\ forks' \in 0..MaxFork
    BY <1>4, <2>1, AppendFacts, ServiceAssumption DEF Fork, TypeOK
  <2>3. QED
    BY <1>4, <2>1, <2>2 DEF Fork, TypeOK
<1>5. CASE \E c \in Co : Wakeup(c) \/ MarkStep(c)
  BY <1>5 DEF Wakeup, MarkStep, Mark, TypeOK
<1>6. CASE Ret \/ IgnoreRet \/ Response
  <2>1. Top \in Co
    BY <1>6, TopFacts DEF Ret, IgnoreRet, Response, Can
  <2>2. /\ session_coroutine_id' \in [Co -> Request \cup {Nil}]
        /\ deferred' \subseteq Calls
        /\ replies' \in [Request -> Nat]
    <3>1. session_coroutine_id' = [session_coroutine_id EXCEPT ![Top] = Nil]
      BY <1>6 DEF Ret, IgnoreRet, Response
    <3>2. deferred' \subseteq Calls
      BY <1>6 DEF Ret, IgnoreRet, Response, TypeOK
    <3>3. \/ UNCHANGED replies
          \/ \E r \in Request : replies' = [replies EXCEPT ![r] = @ + 1]
      BY <1>6, ServiceAssumption DEF Ret, IgnoreRet, Response
    <3>4. replies' \in [Request -> Nat]
      <4>1. ASSUME NEW r \in Request, replies' = [replies EXCEPT ![r] = @ + 1]
            PROVE  replies' \in [Request -> Nat]
        BY <4>1 DEF TypeOK
      <4>2. QED
        BY <3>3, <4>1 DEF TypeOK
    <3>5. QED
      BY <2>1, <3>1, <3>2, <3>4 DEF TypeOK
  <2>3. QED
    BY <1>6, <2>2 DEF Ret, IgnoreRet, Response, TypeOK
<1>7. CASE \E r \in Request : Respond(r)
  BY <1>7 DEF Respond, TypeOK
<1>8. CASE Register
  BY <1>8 DEF Register, TypeOK
<1>9. QED
  BY <1>1, <1>2, <1>3, <1>4, <1>5, <1>6, <1>7, <1>8 DEF Operate

(* How a coroutine ends. *)
LEMMA EndTypes ==
  ASSUME TypeOK, End
  PROVE  TypeOK'
<1> USE DEF tables, queues, startup, coroutines, world, answers
<1>1. CASE Finish
  BY <1>1, TopFacts DEF Finish, Recycle, TypeOK
<1>2. CASE Started
  BY <1>2, TopFacts DEF Started, TypeOK
<1>3. CASE DispatchPending
  <2>1. Head(backlog) \in Request /\ Tail(backlog) \in Seq(Request)
    BY <1>3, TailFacts DEF DispatchPending, TypeOK
  <2>2. QED
    BY <1>3, <2>1, DispatchTypes DEF DispatchPending, TypeOK
<1>4. CASE Raise
  BY <1>4 DEF Raise, TypeOK
<1>5. QED
  BY <1>1, <1>2, <1>3, <1>4 DEF End

(* The types are inductive. *)
LEMMA ServiceTypes == TypeOK /\ [ServiceNext]_vars => TypeOK'
<1> SUFFICES ASSUME TypeOK, [ServiceNext]_vars PROVE TypeOK'
  OBVIOUS
<1>1. CASE UNCHANGED vars
  BY <1>1 DEF vars, tables, queues, startup, coroutines, world, answers, TypeOK
<1>2. CASE ServiceNext
  BY <1>2, AnswerTypes, RequestTypes, LoopTypes, OperateTypes, EndTypes
  DEF ServiceNext, Next, Answer
<1>3. QED
  BY <1>1, <1>2

-------------------------------------------------------------------------------
(* Coroutines and the stack *)

(* Only a coroutine that does not run may be resumed; then it is on the stack once. *)
LEMMA ResumeStack ==
  ASSUME TypeOK, StackInv, NEW c \in Co, state[c] # "running", Resume(c)
  PROVE  StackInv'
<1>1. /\ stack' = Append(stack, c) /\ stack \in Seq(Co) /\ Len(stack) \in Nat
      /\ Len(stack') = Len(stack) + 1
      /\ \A i \in 1..Len(stack) : stack'[i] = stack[i]
      /\ stack'[Len(stack) + 1] = c
  BY AppendFacts DEF TypeOK, Resume
<1>2. \A i \in 1..Len(stack) : stack[i] # c
  BY DEF StackInv
<1>3. \A i, j \in 1..Len(stack') : stack'[i] = stack'[j] => i = j
  BY <1>1, <1>2 DEF StackInv
<1>4. ASSUME NEW d \in Co
      PROVE  state'[d] = "running" <=> \E i \in 1..Len(stack') : stack'[i] = d
  <2>1. CASE d = c
    <3>1. state'[d] = "running"
      BY <2>1 DEF TypeOK, Resume
    <3>2. Len(stack) + 1 \in 1..Len(stack')
      BY <1>1
    <3>3. QED
      BY <1>1, <2>1, <3>1, <3>2
  <2>2. CASE d # c
    <3>1. state'[d] = state[d]
      BY <2>2 DEF TypeOK, Resume
    <3>2. (\E i \in 1..Len(stack') : stack'[i] = d) <=> (\E i \in 1..Len(stack) : stack[i] = d)
      BY <1>1, <2>2
    <3>3. QED
      BY <3>1, <3>2 DEF StackInv
  <2>3. QED
    BY <2>1, <2>2
<1>5. QED
  BY <1>3, <1>4 DEF StackInv

(* The innermost coroutine yields or ends. *)
LEMMA PopStack ==
  ASSUME TypeOK, StackInv, stack # <<>>, NEW st, st # "running",
         state' = [state EXCEPT ![Top] = st], stack' = SubSeq(stack, 1, Len(stack) - 1)
  PROVE  StackInv'
<1>1. /\ Len(stack) \in Nat \ {0} /\ Top \in Co /\ stack[Len(stack)] = Top
      /\ Len(stack') = Len(stack) - 1
      /\ \A i \in 1..(Len(stack) - 1) : stack'[i] = stack[i]
  BY FrontFacts DEF TypeOK, Top
<1>2. \A i, j \in 1..Len(stack') : stack'[i] = stack'[j] => i = j
  BY SMTT(30), <1>1 DEF StackInv
<1>3. \A i \in 1..Len(stack') : stack'[i] # Top
  BY <1>1 DEF StackInv
<1>4. ASSUME NEW d \in Co
      PROVE  state'[d] = "running" <=> \E i \in 1..Len(stack') : stack'[i] = d
  <2>1. CASE d = Top
    BY <1>1, <1>3, <2>1 DEF TypeOK
  <2>2. CASE d # Top
    <3>1. state'[d] = state[d]
      BY <2>2 DEF TypeOK
    <3>2. (\E i \in 1..Len(stack') : stack'[i] = d) <=> (\E i \in 1..Len(stack) : stack[i] = d)
      <4>1. \A i \in 1..Len(stack) : stack[i] = d => i \in 1..Len(stack')
        BY <1>1, <2>2
      <4>2. \A i \in 1..Len(stack') : i \in 1..Len(stack) /\ stack'[i] = stack[i]
        BY <1>1
      <4>3. QED
        BY <4>1, <4>2
    <3>3. QED
      BY <3>1, <3>2 DEF StackInv
  <2>3. QED
    BY <2>1, <2>2
<1>5. QED
  BY <1>2, <1>4 DEF StackInv

(* The innermost coroutine runs. *)
LEMMA TopRuns ==
  ASSUME TypeOK, StackInv, stack # <<>>
  PROVE  Top \in Co /\ state[Top] = "running"
<1>1. Top \in Co /\ Len(stack) \in 1..Len(stack)
  BY TopFacts, FrontFacts DEF TypeOK
<1>2. QED
  BY <1>1 DEF StackInv, Top

(* A new coroutine, and a step that leaves the coroutines alone. *)
LEMMA KeepStack ==
  ASSUME TypeOK, StackInv, UNCHANGED stack,
         \A c \in Co : state'[c] = "running" <=> state[c] = "running"
  PROVE  StackInv'
  BY DEF StackInv

(* A step that does not touch fork_queue nor what is in it. *)
LEMMA KeepForks ==
  ASSUME TypeOK, ForkInv, UNCHANGED fork_queue,
         \A c \in Co : state[c] = "new" /\ job[c] = "fork" => state'[c] = "new" /\ job'[c] = "fork"
  PROVE  ForkInv'
<1>1. \A i \in 1..Len(fork_queue) : fork_queue[i] \in Co
  BY DEF TypeOK
<1>2. QED
  BY <1>1 DEF ForkInv

(* A step that changes nothing for the coroutines that wait, and lets none of the others
   wait. *)
LEMMA KeepSessions ==
  ASSUME TypeOK, SessionInv,
         UNCHANGED <<session_id_coroutine, sleep_session, due, asked, genid>>,
         \A c \in Co : Suspended(c)' <=> Suspended(c),
         \A c \in Co : Suspended(c) => awaits'[c] = awaits[c],
         \A c \in Co : state[c] = "waiting" => state'[c] = "waiting"
  PROVE  SessionInv'
<1> USE DEF SessionInv, WaiterHasItsSession
<1>1. ASSUME NEW c \in Co, Suspended(c)'
      PROVE  awaits'[c] \in Session /\ session_id_coroutine'[awaits'[c]] = c
  BY <1>1
<1>2. ASSUME NEW s \in Session, session_id_coroutine'[s] \in Co
      PROVE  /\ Suspended(session_id_coroutine[s])'
             /\ awaits'[session_id_coroutine'[s]] = s
  <2>1. session_id_coroutine'[s] = session_id_coroutine[s]
    OBVIOUS
  <2>2. Suspended(session_id_coroutine[s]) /\ awaits[session_id_coroutine[s]] = s
    BY <1>2, <2>1
  <2>3. QED
    BY <1>2, <2>1, <2>2
<1>3. ASSUME NEW c \in Co, sleep_session'[c] # 0
      PROVE  state'[c] = "waiting" /\ awaits'[c] = sleep_session'[c]
  BY <1>3 DEF Suspended
<1>4. QED
  BY <1>1, <1>2, <1>3

CoreInv == StackInv /\ ForkInv /\ SessionInv

(* What coroutine_resume does to each coroutine. *)
LEMMA ResumeFacts ==
  ASSUME TypeOK, NEW c \in Co, Resume(c)
  PROVE  /\ state'[c] = "running" /\ awaits'[c] = 0 /\ sleep_session'[c] = 0
         /\ \A d \in Co \ {c} : /\ state'[d] = state[d] /\ awaits'[d] = awaits[d]
                                /\ sleep_session'[d] = sleep_session[d]
  BY DEF TypeOK, Resume

(* The sessions after session s has come to its end and the coroutine that waited for it,
   if there still is one, was resumed. *)
LEMMA EndSession ==
  ASSUME TypeOK, CoreInv, NEW s \in Session, s \in due \cup asked,
         session_id_coroutine' = [session_id_coroutine EXCEPT ![s] = Nil],
         due' = due \ {s}, asked' = asked \ {s}, UNCHANGED genid, UNCHANGED job,
         \/ session_id_coroutine[s] \in Co /\ Resume(session_id_coroutine[s])
         \/ session_id_coroutine[s] \notin Co /\ NoResume
  PROVE  SessionInv'
<1> DEFINE c == session_id_coroutine[s]
<1> USE DEF CoreInv, SessionInv, WaiterHasItsSession
<1>0. session_id_coroutine'[s] = Nil
      /\ \A t \in Session \ {s} : session_id_coroutine'[t] = session_id_coroutine[t]
  BY DEF TypeOK
<1>1. \A d \in Co : d # c => /\ state'[d] = state[d] /\ awaits'[d] = awaits[d]
                             /\ sleep_session'[d] = sleep_session[d]
  BY ResumeFacts DEF NoResume, coroutines
<1>2. c \in Co => state'[c] = "running" /\ sleep_session'[c] = 0
  BY ResumeFacts
<1>3. \A d \in Co : Suspended(d)' <=> d # c /\ Suspended(d)
  BY <1>1, <1>2 DEF Suspended
<1>4. \A d \in Co : d # c /\ Suspended(d) => awaits[d] # s
  OBVIOUS
<1>5. ASSUME NEW d \in Co, Suspended(d)'
      PROVE  awaits'[d] \in Session /\ session_id_coroutine'[awaits'[d]] = d
  BY <1>0, <1>1, <1>3, <1>4, <1>5
<1>6. ASSUME NEW t \in Session, session_id_coroutine'[t] \in Co
      PROVE  /\ Suspended(session_id_coroutine[t])'
             /\ awaits'[session_id_coroutine'[t]] = t
  <2>1. t # s /\ session_id_coroutine'[t] = session_id_coroutine[t]
    BY <1>0, <1>6, ServiceAssumption
  <2>2. Suspended(session_id_coroutine[t]) /\ awaits[session_id_coroutine[t]] = t
    BY <1>6, <2>1
  <2>3. session_id_coroutine[t] # c
    BY <1>6, <2>1, <2>2
  <2>4. QED
    BY <1>1, <1>3, <1>6, <2>1, <2>2, <2>3
<1>7. ASSUME NEW d \in Co, sleep_session'[d] # 0
      PROVE  /\ state'[d] = "waiting" /\ awaits'[d] = sleep_session'[d]
             /\ sleep_session'[d] \in due'
  <2>1. d # c /\ sleep_session[d] # 0
    BY <1>1, <1>2, <1>7
  <2>2. Suspended(d) /\ awaits[d] = sleep_session[d]
    BY <2>1 DEF Suspended
  <2>3. QED
    BY <1>1, <1>4, <2>1, <2>2
<1>8. ASSUME NEW t \in Session
      PROVE  /\ (session_id_coroutine'[t] # Nil) <=> t \in due' \cup asked'
             /\ session_id_coroutine'[t] = Break => t \in due'
  BY <1>0, ServiceAssumption
<1>9. QED
  BY <1>5, <1>6, <1>7, <1>8

(* An answer. *)
LEMMA AnswerCore ==
  ASSUME TypeOK, CoreInv, NEW s \in Session, TimerFires(s) \/ PeerAnswers(s)
  PROVE  CoreInv'
<1> DEFINE c == session_id_coroutine[s]
<1>1. /\ s \in due \cup asked /\ Answered(s)
      /\ UNCHANGED <<queues, genid>>
      /\ due' = due \ {s} /\ asked' = asked \ {s}
  BY DEF TimerFires, PeerAnswers, CoreInv, SessionInv
<1>2. /\ session_id_coroutine' = [session_id_coroutine EXCEPT ![s] = Nil]
      /\ UNCHANGED job
      /\ \/ c \in Co /\ Resume(c)
         \/ c \notin Co /\ NoResume
  BY <1>1 DEF Answered, NoResume, coroutines
<1>3. SessionInv'
  BY <1>1, <1>2, EndSession
<1>4. CASE c \in Co /\ Resume(c)
  <2>1. Suspended(c)
    BY <1>4 DEF CoreInv, SessionInv, WaiterHasItsSession
  <2>2. StackInv'
    BY <1>4, <2>1, ResumeStack DEF CoreInv, Suspended
  <2>3. ForkInv'
    BY <1>1, <1>2, <1>4, <2>1, ResumeFacts, KeepForks DEF CoreInv, Suspended, queues
  <2>4. QED
    BY <1>3, <2>2, <2>3 DEF CoreInv
<1>5. CASE NoResume
  BY <1>1, <1>3, <1>5 DEF CoreInv, StackInv, ForkInv, NoResume, coroutines, queues
<1>6. QED
  BY <1>2, <1>4, <1>5

(* A coroutine that waits for nothing is resumed: a fork, or one that was just created to
   dispatch a request. *)
LEMMA ResumeIdleCore ==
  ASSUME TypeOK, CoreInv, NEW c \in Co, Resume(c), state[c] # "running", ~Suspended(c),
         UNCHANGED <<session_id_coroutine, due, asked, genid>>,
         \A d \in Co \ {c} : job'[d] = job[d]
  PROVE  StackInv' /\ SessionInv'
<1>1. StackInv'
  BY ResumeStack DEF CoreInv
<1>2. sleep_session[c] = 0
  BY DEF CoreInv, SessionInv, WaiterHasItsSession, Suspended
<1>3. UNCHANGED sleep_session
  BY <1>2 DEF Resume, TypeOK
<1>4. \A d \in Co : Suspended(d)' <=> Suspended(d)
  BY ResumeFacts DEF Suspended
<1>5. \A d \in Co : Suspended(d) => d # c /\ awaits'[d] = awaits[d] /\ state'[d] = state[d]
  BY ResumeFacts
<1>6. SessionInv'
  BY <1>3, <1>4, <1>5, KeepSessions DEF CoreInv, Suspended
<1>7. QED
  BY <1>1, <1>6

LEMMA BeginCore ==
  ASSUME TypeOK, CoreInv, NEW r \in Request, Begin(r) \/ Refuse(r),
         UNCHANGED <<session_id_coroutine, queues, world>>
  PROVE  CoreInv'
<1>1. CASE Begin(r)
  <2>1. PICK c \in Co : CoCreate(c) /\ Resume(c) /\ job' = [job EXCEPT ![c] = "dispatch"]
    BY <1>1 DEF Begin
  <2>2. state[c] \in {"none", "pooled"}
    BY <2>1 DEF CoCreate
  <2>3. \A d \in Co \ {c} : job'[d] = job[d]
    BY <2>1 DEF TypeOK
  <2>4. ForkInv'
    BY <2>1, <2>2, <2>3, ResumeFacts, KeepForks DEF CoreInv, queues
  <2>5. QED
    BY <2>1, <2>2, <2>3, <2>4, ResumeIdleCore DEF CoreInv, Suspended, world
<1>2. CASE Refuse(r)
  BY <1>2 DEF CoreInv, StackInv, ForkInv, SessionInv, WaiterHasItsSession, Suspended, Refuse,
              NoResume, coroutines, queues, world
<1>3. QED
  BY <1>1, <1>2

LEMMA RequestCore ==
  ASSUME TypeOK, CoreInv, NEW r \in Request, RequestArrives(r)
  PROVE  CoreInv'
<1>1. CASE Begin(r) \/ Refuse(r)
  BY <1>1, BeginCore DEF RequestArrives
<1>2. CASE Postpone(r)
  BY <1>2 DEF CoreInv, StackInv, ForkInv, SessionInv, WaiterHasItsSession, Suspended,
              RequestArrives, Postpone, NoResume, coroutines, queues, world
<1>3. QED
  BY <1>1, <1>2 DEF RequestArrives

(* The oldest fork is resumed, and is not in the queue any more. *)
LEMMA RunForkCore ==
  ASSUME TypeOK, CoreInv, RunFork
  PROVE  CoreInv'
<1> DEFINE c == Head(fork_queue)
<1>1. /\ fork_queue # <<>> /\ fork_queue' = Tail(fork_queue) /\ Resume(c)
      /\ UNCHANGED <<session_id_coroutine, due, asked, genid, job>>
  BY DEF RunFork, world
<1>2. /\ c \in Co /\ c = fork_queue[1] /\ Len(fork_queue) \in Nat \ {0}
      /\ Len(fork_queue') = Len(fork_queue) - 1
      /\ \A i \in 1..(Len(fork_queue) - 1) : fork_queue'[i] = fork_queue[i + 1]
      /\ \A i \in 1..Len(fork_queue) : fork_queue[i] \in Co
  BY <1>1, TailFacts DEF TypeOK
<1> HIDE DEF c
<1>3. state[c] = "new" /\ job[c] = "fork"
  BY <1>2 DEF CoreInv, ForkInv
<1>4. \A i \in 1..Len(fork_queue') :
         /\ i + 1 \in 1..Len(fork_queue) /\ fork_queue'[i] = fork_queue[i + 1]
         /\ fork_queue'[i] # c
  BY <1>2 DEF CoreInv, ForkInv
<1>5. ForkInv'
  <2>1. \A i, j \in 1..Len(fork_queue') : fork_queue'[i] = fork_queue'[j] => i = j
    BY SMTT(30), <1>2, <1>4 DEF CoreInv, ForkInv
  <2>2. ASSUME NEW i \in 1..Len(fork_queue')
        PROVE  state'[fork_queue'[i]] = "new" /\ job'[fork_queue'[i]] = "fork"
    <3>1. PICK k \in 1..Len(fork_queue) : fork_queue'[i] = fork_queue[k] /\ fork_queue[k] # c
      BY <1>4
    <3>2. fork_queue[k] \in Co \ {c} /\ state[fork_queue[k]] = "new" /\ job[fork_queue[k]] = "fork"
      BY <1>2, <3>1 DEF CoreInv, ForkInv
    <3>3. QED
      BY <1>1, <1>2, <3>1, <3>2, ResumeFacts
  <2>3. QED
    BY <2>1, <2>2 DEF ForkInv
<1>6. StackInv' /\ SessionInv'
  BY <1>1, <1>2, <1>3, ResumeIdleCore DEF Suspended
<1>7. QED
  BY <1>5, <1>6 DEF CoreInv

(* A sleep is broken: its coroutine is resumed, its timer finds Break. *)
LEMMA RunWakeupCore ==
  ASSUME TypeOK, CoreInv, RunWakeup
  PROVE  CoreInv'
<1>1. PICK c \in wakeup_list :
        \/ /\ sleep_session[c] # 0
           /\ session_id_coroutine' = [session_id_coroutine EXCEPT ![sleep_session[c]] = Break]
           /\ Resume(c) /\ UNCHANGED job
        \/ sleep_session[c] = 0 /\ NoResume /\ UNCHANGED session_id_coroutine
  BY DEF RunWakeup
<1>2. c \in Co /\ UNCHANGED <<fork_queue, due, asked, genid>>
  BY DEF RunWakeup, world, TypeOK
<1>3. CASE NoResume /\ UNCHANGED session_id_coroutine
  BY <1>2, <1>3 DEF CoreInv, StackInv, ForkInv, SessionInv, WaiterHasItsSession, Suspended,
                    NoResume, coroutines
<1>4. CASE /\ sleep_session[c] # 0
           /\ session_id_coroutine' = [session_id_coroutine EXCEPT ![sleep_session[c]] = Break]
           /\ Resume(c) /\ UNCHANGED job
  <2> DEFINE s == sleep_session[c]
  <2> USE DEF CoreInv, SessionInv, WaiterHasItsSession
  <2>1. /\ s \in Session /\ s \in due /\ state[c] = "waiting" /\ awaits[c] = s
        /\ Suspended(c) /\ session_id_coroutine[s] = c
    BY <1>2, <1>4 DEF Suspended, TypeOK
  <2>2. /\ session_id_coroutine'[s] = Break
        /\ \A t \in Session \ {s} : session_id_coroutine'[t] = session_id_coroutine[t]
    BY <1>4, <2>1 DEF TypeOK
  <2> HIDE DEF s
  <2>3. StackInv'
    BY <1>2, <1>4, <2>1, ResumeStack
  <2>4. ForkInv'
    BY <1>2, <1>4, <2>1, ResumeFacts, KeepForks
  <2>5. \A d \in Co : Suspended(d)' <=> d # c /\ Suspended(d)
    BY <1>2, <1>4, ResumeFacts DEF Suspended
  <2>6. ASSUME NEW d \in Co, Suspended(d)'
        PROVE  awaits'[d] \in Session /\ session_id_coroutine'[awaits'[d]] = d
    BY <1>2, <1>4, <2>1, <2>2, <2>5, <2>6, ResumeFacts
  <2>7. ASSUME NEW t \in Session, session_id_coroutine'[t] \in Co
        PROVE  /\ Suspended(session_id_coroutine[t])'
               /\ awaits'[session_id_coroutine'[t]] = t
    <3>1. t # s /\ session_id_coroutine'[t] = session_id_coroutine[t]
      BY <2>2, <2>7, ServiceAssumption
    <3>2. Suspended(session_id_coroutine[t]) /\ awaits[session_id_coroutine[t]] = t
      BY <2>7, <3>1
    <3>3. session_id_coroutine[t] # c
      BY <2>1, <3>1, <3>2
    <3>4. QED
      BY <1>2, <1>4, <2>5, <2>7, <3>1, <3>2, <3>3, ResumeFacts
  <2>8. ASSUME NEW d \in Co, sleep_session'[d] # 0
        PROVE  /\ state'[d] = "waiting" /\ awaits'[d] = sleep_session'[d]
               /\ sleep_session'[d] \in due'
    BY <1>2, <1>4, <2>8, ResumeFacts
  <2>9. ASSUME NEW t \in Session
        PROVE  /\ (session_id_coroutine'[t] # Nil) <=> t \in due' \cup asked'
               /\ session_id_coroutine'[t] = Break => t \in due'
    BY <1>2, <2>1, <2>2, ServiceAssumption
  <2>10. QED
    BY <1>2, <2>3, <2>4, <2>6, <2>7, <2>8, <2>9
<1>5. QED
  BY <1>1, <1>3, <1>4

(* The running coroutine yields for a new session, of a call or of a timer. *)
LEMMA SuspendCore ==
  ASSUME TypeOK, CoreInv, stack # <<>>, Generate, Suspend(NextSession), UNCHANGED fork_queue,
         \/ asked' = asked \cup {NextSession} /\ UNCHANGED <<due, sleep_session>>
         \/ /\ due' = due \cup {NextSession} /\ UNCHANGED asked
            /\ sleep_session' = [sleep_session EXCEPT ![Top] = NextSession]
  PROVE  CoreInv'
<1> DEFINE s == genid + 1
<1>0. PICK c \in Co : c = Top
  BY TopRuns DEF CoreInv
<1>1. /\ state[c] = "running" /\ s \in Session /\ genid \in Nat /\ genid' = s
      /\ \A t \in due \cup asked : t <= genid /\ t \in Nat
  <2>1. state[c] = "running"
    BY <1>0, TopRuns DEF CoreInv
  <2>2. s \in Session /\ genid \in Nat /\ genid' = s
    BY ServiceAssumption DEF TypeOK, Session, Generate, NextSession
  <2>3. \A t \in due \cup asked : t <= genid /\ t \in Nat
    BY DEF CoreInv, SessionInv, TypeOK, Session
  <2>4. QED
    BY <2>1, <2>2, <2>3
<1>2. /\ state' = [state EXCEPT ![c] = "waiting"] /\ awaits' = [awaits EXCEPT ![c] = s]
      /\ session_id_coroutine' = [session_id_coroutine EXCEPT ![s] = c]
      /\ UNCHANGED job /\ stack' = SubSeq(stack, 1, Len(stack) - 1)
  BY <1>0 DEF Suspend, NextSession
<1>3. /\ s \notin due \cup asked
      /\ due' \cap asked' = {} /\ due' \cup asked' = (due \cup asked) \cup {s}
      /\ \A t \in due : t \in due'
      /\ \A t \in due' \cup asked' : t <= genid'
      /\ \A d \in Co \ {c} : sleep_session'[d] = sleep_session[d]
      /\ sleep_session'[c] # 0 => sleep_session'[c] = s /\ s \in due'
  <2>1. s \notin due \cup asked
    BY <1>1
  <2>2. sleep_session[c] = 0
    BY <1>1 DEF CoreInv, SessionInv, WaiterHasItsSession
  <2>3. /\ \A d \in Co \ {c} : sleep_session'[d] = sleep_session[d]
        /\ sleep_session'[c] # 0 => sleep_session'[c] = s /\ s \in due'
    BY <1>0, <1>1, <2>2 DEF TypeOK, NextSession
  <2>4. QED
    BY <1>1, <2>1, <2>3 DEF CoreInv, SessionInv, NextSession
<1> HIDE DEF s
<1>4. StackInv'
  BY <1>0, <1>2, PopStack DEF CoreInv
<1>5. /\ state'[c] = "waiting" /\ awaits'[c] = s
      /\ \A d \in Co \ {c} : state'[d] = state[d] /\ awaits'[d] = awaits[d]
      /\ session_id_coroutine'[s] = c
      /\ \A t \in Session \ {s} : session_id_coroutine'[t] = session_id_coroutine[t]
  BY <1>1, <1>2 DEF TypeOK
<1>6. ForkInv'
  BY <1>1, <1>2, <1>5, KeepForks DEF CoreInv
<1> USE DEF CoreInv, SessionInv, WaiterHasItsSession
<1>7. session_id_coroutine[s] = Nil /\ ~Suspended(c) /\ Suspended(c)'
      /\ \A d \in Co \ {c} : Suspended(d)' <=> Suspended(d)
  <2>1. session_id_coroutine[s] = Nil
    BY <1>1, <1>3
  <2>2. \A d \in Co : job'[d] = job[d]
    BY <1>2
  <2>3. QED
    BY <1>1, <1>5, <2>1, <2>2 DEF Suspended
<1>8. ASSUME NEW d \in Co, Suspended(d)'
      PROVE  awaits'[d] \in Session /\ session_id_coroutine'[awaits'[d]] = d
  <2>1. CASE d = c
    BY <1>1, <1>5, <2>1
  <2>2. CASE d # c
    <3>1. awaits[d] \in Session /\ session_id_coroutine[awaits[d]] = d
      BY <1>7, <1>8, <2>2
    <3>2. awaits[d] # s
      BY <1>7, <3>1, ServiceAssumption
    <3>3. QED
      BY <1>5, <2>2, <3>1, <3>2
  <2>3. QED
    BY <2>1, <2>2
<1>9. ASSUME NEW t \in Session, session_id_coroutine'[t] \in Co
      PROVE  /\ Suspended(session_id_coroutine[t])'
             /\ awaits'[session_id_coroutine'[t]] = t
  <2>1. CASE t = s
    <3>1. session_id_coroutine'[t] = c
      BY <1>5, <2>1
    <3>2. QED
      BY <1>5, <1>7, <2>1, <3>1
  <2>2. CASE t # s
    <3>1. session_id_coroutine'[t] = session_id_coroutine[t]
      BY <1>5, <2>2
    <3>2. Suspended(session_id_coroutine[t]) /\ awaits[session_id_coroutine[t]] = t
      BY <1>9, <3>1
    <3>3. session_id_coroutine[t] # c
      BY <1>7, <3>2
    <3>4. QED
      BY <1>5, <1>7, <1>9, <3>1, <3>2, <3>3
  <2>3. QED
    BY <2>1, <2>2
<1>10. ASSUME NEW d \in Co, sleep_session'[d] # 0
       PROVE  /\ state'[d] = "waiting" /\ awaits'[d] = sleep_session'[d]
              /\ sleep_session'[d] \in due'
  BY <1>3, <1>5, <1>10
<1>11. ASSUME NEW t \in Session
       PROVE  /\ (session_id_coroutine'[t] # Nil) <=> t \in due' \cup asked'
              /\ session_id_coroutine'[t] = Break => t \in due'
  BY <1>1, <1>3, <1>5, ServiceAssumption
<1>12. QED
  BY <1>3, <1>4, <1>6, <1>8, <1>9, <1>10, <1>11

(* The coroutine of a timeout waits for a new session. *)
LEMMA TimeoutCore ==
  ASSUME TypeOK, CoreInv, Timeout
  PROVE  CoreInv'
<1> DEFINE s == genid + 1
<1>0. PICK c \in Co :
        /\ CoCreate(c)
        /\ state' = [state EXCEPT ![c] = "new"]
        /\ job' = [job EXCEPT ![c] = "timeout"]
        /\ awaits' = [awaits EXCEPT ![c] = s]
        /\ session_id_coroutine' = [session_id_coroutine EXCEPT ![s] = c]
  BY DEF Timeout, NextSession
<1>1. /\ state[c] \in {"none", "pooled"} /\ s \in Session /\ genid \in Nat /\ genid' = s
      /\ \A t \in due \cup asked : t <= genid /\ t \in Nat
      /\ due' = due \cup {s} /\ UNCHANGED <<asked, sleep_session, stack, fork_queue>>
  BY <1>0, ServiceAssumption
  DEF CoCreate, CoreInv, SessionInv, TypeOK, Session, Timeout, Generate, NextSession, queues
<1>2. /\ s \notin due \cup asked
      /\ due' \cap asked' = {} /\ due' \cup asked' = (due \cup asked) \cup {s}
      /\ \A t \in due : t \in due'
      /\ \A t \in due' \cup asked' : t <= genid'
      /\ sleep_session[c] = 0
  <2>1. s \notin due \cup asked
    BY <1>1
  <2>2. sleep_session[c] = 0
    BY <1>1 DEF CoreInv, SessionInv, WaiterHasItsSession
  <2>3. QED
    BY <1>1, <2>1, <2>2 DEF CoreInv, SessionInv
<1> HIDE DEF s
<1>3. /\ state'[c] = "new" /\ job'[c] = "timeout" /\ awaits'[c] = s
      /\ \A d \in Co \ {c} : state'[d] = state[d] /\ awaits'[d] = awaits[d] /\ job'[d] = job[d]
      /\ session_id_coroutine'[s] = c
      /\ \A t \in Session \ {s} : session_id_coroutine'[t] = session_id_coroutine[t]
  BY <1>0, <1>1 DEF TypeOK
<1>4. StackInv'
  BY <1>1, <1>3, KeepStack DEF CoreInv
<1>5. ForkInv'
  BY <1>1, <1>3, KeepForks DEF CoreInv
<1> USE DEF CoreInv, SessionInv, WaiterHasItsSession
<1>6. session_id_coroutine[s] = Nil /\ ~Suspended(c) /\ Suspended(c)'
      /\ \A d \in Co \ {c} : Suspended(d)' <=> Suspended(d)
  BY <1>1, <1>2, <1>3 DEF Suspended
<1>7. ASSUME NEW d \in Co, Suspended(d)'
      PROVE  awaits'[d] \in Session /\ session_id_coroutine'[awaits'[d]] = d
  <2>1. CASE d = c
    BY <1>1, <1>3, <2>1
  <2>2. CASE d # c
    <3>1. awaits[d] \in Session /\ session_id_coroutine[awaits[d]] = d
      BY <1>6, <1>7, <2>2
    <3>2. awaits[d] # s
      BY <1>6, <3>1, ServiceAssumption
    <3>3. QED
      BY <1>3, <2>2, <3>1, <3>2
  <2>3. QED
    BY <2>1, <2>2
<1>8. ASSUME NEW t \in Session, session_id_coroutine'[t] \in Co
      PROVE  /\ Suspended(session_id_coroutine[t])'
             /\ awaits'[session_id_coroutine'[t]] = t
  <2>1. CASE t = s
    BY <1>3, <1>6, <2>1
  <2>2. CASE t # s
    <3>1. session_id_coroutine'[t] = session_id_coroutine[t]
      BY <1>3, <2>2
    <3>2. Suspended(session_id_coroutine[t]) /\ awaits[session_id_coroutine[t]] = t
      BY <1>8, <3>1
    <3>3. session_id_coroutine[t] # c
      BY <1>6, <3>2
    <3>4. QED
      BY <1>3, <1>6, <1>8, <3>1, <3>2, <3>3
  <2>3. QED
    BY <2>1, <2>2
<1>9. ASSUME NEW d \in Co, sleep_session'[d] # 0
      PROVE  /\ state'[d] = "waiting" /\ awaits'[d] = sleep_session'[d]
             /\ sleep_session'[d] \in due'
  BY <1>1, <1>2, <1>3, <1>9
<1>10. ASSUME NEW t \in Session
       PROVE  /\ (session_id_coroutine'[t] # Nil) <=> t \in due' \cup asked'
              /\ session_id_coroutine'[t] = Break => t \in due'
  BY <1>1, <1>2, <1>3, ServiceAssumption
<1>11. QED
  BY <1>2, <1>4, <1>5, <1>7, <1>8, <1>9, <1>10

(* A fork is created, and resumed later. *)
LEMMA ForkCore ==
  ASSUME TypeOK, CoreInv, Fork
  PROVE  CoreInv'
<1>1. PICK c \in Co :
        /\ CoCreate(c)
        /\ state' = [state EXCEPT ![c] = "new"]
        /\ job' = [job EXCEPT ![c] = "fork"]
        /\ fork_queue' = Append(fork_queue, c)
  BY DEF Fork
<1>2. state[c] \in {"none", "pooled"}
  BY <1>1 DEF CoCreate
<1>3. UNCHANGED <<session_id_coroutine, sleep_session, awaits, stack, genid, due, asked>>
  BY DEF Fork, tables
<1>4. /\ state'[c] = "new" /\ job'[c] = "fork"
      /\ \A d \in Co \ {c} : state'[d] = state[d] /\ job'[d] = job[d]
  BY <1>1 DEF TypeOK
<1>5. StackInv'
  BY <1>2, <1>3, <1>4, KeepStack DEF CoreInv
<1>6. SessionInv'
  <2>1. \A d \in Co : /\ Suspended(d)' <=> Suspended(d)
                      /\ state[d] = "waiting" => state'[d] = "waiting"
    BY <1>2, <1>4 DEF Suspended
  <2>2. QED
    BY <1>3, <2>1, KeepSessions DEF CoreInv
<1>7. ForkInv'
  <2>1. /\ Len(fork_queue) \in Nat /\ Len(fork_queue') = Len(fork_queue) + 1
        /\ \A i \in 1..Len(fork_queue) : fork_queue'[i] = fork_queue[i] /\ fork_queue[i] \in Co
        /\ fork_queue'[Len(fork_queue) + 1] = c
    BY <1>1, AppendFacts DEF TypeOK
  <2>2. \A i \in 1..Len(fork_queue) : fork_queue[i] # c
    BY <1>2 DEF CoreInv, ForkInv
  <2>3. \A i, j \in 1..Len(fork_queue') : fork_queue'[i] = fork_queue'[j] => i = j
    BY <2>1, <2>2 DEF CoreInv, ForkInv
  <2>4. \A i \in 1..Len(fork_queue') :
           state'[fork_queue'[i]] = "new" /\ job'[fork_queue'[i]] = "fork"
    BY <1>4, <2>1, <2>2 DEF CoreInv, ForkInv
  <2>5. QED
    BY <2>3, <2>4 DEF ForkInv
<1>8. QED
  BY <1>5, <1>6, <1>7 DEF CoreInv

(* The operations that leave the coroutines and the sessions alone. *)
LEMMA QuietCore ==
  ASSUME TypeOK, CoreInv, UNCHANGED <<tables, fork_queue, coroutines, world>>
  PROVE  CoreInv'
  BY DEF CoreInv, StackInv, ForkInv, SessionInv, WaiterHasItsSession, Suspended, tables,
         coroutines, world

LEMMA OperateCore ==
  ASSUME TypeOK, CoreInv, Operate \/ PauseStep \/ \E c \in Co : MarkStep(c)
  PROVE  CoreInv'
<1>1. CASE Call
  BY <1>1, SuspendCore DEF Call, Can, queues
<1>2. CASE Sleep \/ PauseStep
  BY <1>2, SuspendCore DEF Sleep, PauseStep, Pause, Can, queues
<1>3. CASE Timeout
  BY <1>3, TimeoutCore
<1>4. CASE Fork
  BY <1>4, ForkCore
<1>5. CASE \E c \in Co : Wakeup(c) \/ MarkStep(c)
  BY <1>5, QuietCore DEF Wakeup, MarkStep
<1>6. CASE Ret \/ IgnoreRet \/ Response
  BY <1>6, QuietCore DEF Ret, IgnoreRet, Response, queues
<1>7. CASE \E r \in Request : Respond(r)
  BY <1>7, QuietCore DEF Respond, queues
<1>8. CASE Register
  BY <1>8, QuietCore DEF Register, queues
<1>9. QED
  BY <1>1, <1>2, <1>3, <1>4, <1>5, <1>6, <1>7, <1>8 DEF Operate

(* Coroutines that run end: nothing changes for those that wait. *)
LEMMA EndCore ==
  ASSUME TypeOK, CoreInv, End
  PROVE  CoreInv'
<1>1. CASE Finish
  <2>1. /\ stack # <<>> /\ state' = [state EXCEPT ![Top] = "pooled"]
        /\ stack' = SubSeq(stack, 1, Len(stack) - 1)
        /\ UNCHANGED <<job, awaits, tables, fork_queue, world>>
    BY <1>1 DEF Finish, Recycle, queues
  <2>2. StackInv'
    BY <2>1, PopStack DEF CoreInv
  <2>3. /\ \A d \in Co : Suspended(d)' <=> Suspended(d)
        /\ \A d \in Co : state[d] \in {"waiting", "new"} => state'[d] = state[d]
    BY <2>1, TopRuns DEF CoreInv, Suspended, TypeOK
  <2>4. QED
    BY <2>1, <2>2, <2>3, KeepForks, KeepSessions DEF CoreInv, tables, world
<1>2. CASE Started
  <2>1. /\ stack # <<>> /\ job' = [job EXCEPT ![Top] = "backlog"]
        /\ UNCHANGED <<state, stack, awaits, tables, fork_queue, world>>
    BY <1>2 DEF Started, queues
  <2>2. StackInv'
    BY <2>1, KeepStack DEF CoreInv
  <2>3. \A d \in Co : state[d] # "running" => job'[d] = job[d]
    BY <2>1, TopRuns DEF CoreInv, TypeOK
  <2>4. \A d \in Co : Suspended(d)' <=> Suspended(d)
    BY <2>1, <2>3, TopRuns DEF CoreInv, Suspended
  <2>5. QED
    BY <2>1, <2>2, <2>3, <2>4, KeepForks, KeepSessions DEF CoreInv, tables, world
<1>3. CASE DispatchPending
  BY <1>3, TailFacts, BeginCore DEF DispatchPending, TypeOK
<1>4. CASE Raise
  <2>1. /\ state' = [c \in Co |-> IF c \in Resumed THEN "dead" ELSE state[c]] /\ stack' = <<>>
        /\ UNCHANGED <<job, awaits, tables, fork_queue, world>>
    BY <1>4 DEF Raise, queues
  <2>2. \A d \in Co : d \in Resumed <=> state[d] = "running"
    BY DEF CoreInv, StackInv, Resumed
  <2>3. StackInv'
    BY <2>1, <2>2 DEF StackInv
  <2>4. /\ \A d \in Co : Suspended(d)' <=> Suspended(d)
        /\ \A d \in Co : state[d] \in {"waiting", "new"} => state'[d] = state[d]
    BY <2>1, <2>2 DEF Suspended
  <2>5. QED
    BY <2>1, <2>3, <2>4, KeepForks, KeepSessions DEF CoreInv, tables, world
<1>5. QED
  BY <1>1, <1>2, <1>3, <1>4 DEF End

(* The stack, the forks and the sessions are inductive. *)
LEMMA CoreInductive == TypeOK /\ CoreInv /\ [ServiceNext]_vars => CoreInv'
<1> SUFFICES ASSUME TypeOK, CoreInv, [ServiceNext]_vars PROVE CoreInv'
  OBVIOUS
<1>1. CASE UNCHANGED vars
  BY <1>1, QuietCore DEF vars, queues
<1>2. CASE Loop
  <2>1. CASE ListWakeups \/ WakeupsDone
    BY <2>1, QuietCore DEF ListWakeups, WakeupsDone, queues
  <2>2. QED
    BY <1>2, <2>1, RunForkCore, RunWakeupCore DEF Loop
<1>3. CASE Answer \/ \E r \in Request : RequestArrives(r)
  BY <1>3, AnswerCore, RequestCore DEF Answer
<1>4. QED
  BY <1>1, <1>2, <1>3, OperateCore, EndCore DEF ServiceNext, Next

-------------------------------------------------------------------------------
(* Who owes an answer *)

(* A request is dispatched, or refused, for the first time. *)
LEMMA DispatchDebt ==
  ASSUME TypeOK, DebtInv, NEW r \in Request, fate[r] \in {"unsent", "pending"},
         Begin(r) \/ Refuse(r)
  PROVE  DebtInv'
<1>0. /\ replies[r] = 0 /\ r \notin deferred /\ \A c \in Co : session_coroutine_id[c] # r
      /\ fate' = [fate EXCEPT ![r] = IF Begin(r) THEN "begun" ELSE "refused"]
      /\ UNCHANGED deferred
  BY DEF DebtInv, Begin, Refuse
<1>1. fate'[r] \notin {"unsent", "pending"} /\ \A q \in Request \ {r} : fate'[q] = fate[q]
  BY <1>0 DEF TypeOK
<1>2. CASE Begin(r)
  <2>1. PICK c \in Co : session_coroutine_id' = [session_coroutine_id EXCEPT ![c] = r]
    BY <1>2 DEF Begin
  <2>2. /\ session_coroutine_id'[c] = r
        /\ \A d \in Co \ {c} : session_coroutine_id'[d] = session_coroutine_id[d]
        /\ UNCHANGED replies
    BY <1>2, <2>1 DEF Begin, TypeOK
  <2>3. QED
    BY <1>0, <1>1, <2>2 DEF DebtInv
<1>3. CASE Refuse(r)
  <2>1. /\ UNCHANGED session_coroutine_id /\ replies'[r] \in {0, 1}
        /\ \A q \in Request \ {r} : replies'[q] = replies[q]
    BY <1>0, <1>3 DEF Refuse, TypeOK
  <2>2. QED
    BY <1>0, <1>1, <2>1 DEF DebtInv
<1>4. QED
  BY <1>2, <1>3

(* The debt of a coroutine is forgotten; it may pass to a function or be paid. *)
LEMMA ReleaseDebt ==
  ASSUME TypeOK, DebtInv, NEW c \in Co, NEW r, r = session_coroutine_id[c],
         session_coroutine_id' = [session_coroutine_id EXCEPT ![c] = Nil], UNCHANGED fate,
         \/ UNCHANGED <<deferred, replies>>
         \/ /\ r \in Calls /\ UNCHANGED replies
            /\ deferred' = deferred \cup {r}
         \/ /\ r \in Calls /\ UNCHANGED deferred
            /\ replies' = [replies EXCEPT ![r] = @ + 1]
  PROVE  DebtInv'
<1>1. /\ session_coroutine_id'[c] = Nil /\ Nil \notin Request /\ Calls \subseteq Request
      /\ \A d \in Co \ {c} : session_coroutine_id'[d] = session_coroutine_id[d]
  BY ServiceAssumption DEF TypeOK
<1>2. r \in Request => /\ replies[r] = 0 /\ r \notin deferred /\ fate[r] \notin {"unsent", "pending"}
                       /\ \A d \in Co : session_coroutine_id'[d] # r
  BY <1>1 DEF DebtInv
<1>3. CASE UNCHANGED <<deferred, replies>>
  BY <1>1, <1>3 DEF DebtInv
<1>4. CASE r \in Calls /\ UNCHANGED replies /\ deferred' = deferred \cup {r}
  BY <1>1, <1>2, <1>4 DEF DebtInv
<1>5. CASE r \in Calls /\ UNCHANGED deferred /\ replies' = [replies EXCEPT ![r] = @ + 1]
  <2>1. replies'[r] = 1 /\ \A q \in Request \ {r} : replies'[q] = replies[q]
    BY <1>1, <1>2, <1>5 DEF TypeOK
  <2>2. QED
    BY <1>1, <1>2, <1>5, <2>1 DEF DebtInv
<1>6. QED
  BY <1>3, <1>4, <1>5

LEMMA RespondDebt ==
  ASSUME TypeOK, DebtInv, NEW r \in Request, Respond(r)
  PROVE  DebtInv'
<1>1. /\ replies[r] = 0 /\ fate[r] \notin {"unsent", "pending"} /\ r \in deferred
      /\ \A c \in Co : session_coroutine_id[c] # r
      /\ deferred' = deferred \ {r} /\ UNCHANGED <<fate, session_coroutine_id>>
  BY DEF Respond, DebtInv
<1>2. replies'[r] = 1 /\ \A q \in Request \ {r} : replies'[q] = replies[q]
  BY <1>1 DEF Respond, TypeOK
<1>3. QED
  BY <1>1, <1>2 DEF DebtInv

(* What waits for the start function. *)
LEMMA PostponedKeeps ==
  ASSUME NEW q \in Seq(Request), Postponed(q),
         \A r \in Request : fate[r] = "pending" => fate'[r] = "pending"
  PROVE  /\ \A i, j \in 1..Len(q) : q[i] = q[j] => i = j
         /\ \A i \in 1..Len(q) : fate'[q[i]] = "pending"
<1>1. \A i \in 1..Len(q) : q[i] \in Request
  OBVIOUS
<1>2. QED
  BY <1>1 DEF Postponed

\* What the program can do to the lists, besides the requests and the start function.
LEMMA KeepPending ==
  ASSUME TypeOK, PendingInv, UNCHANGED <<service_started, pending_messages, backlog>>,
         \A r \in Request : fate[r] = "pending" => fate'[r] = "pending"
  PROVE  PendingInv'
  BY SMTT(30), PostponedKeeps DEF PendingInv, Postponed, TypeOK

LEMMA RequestOwes ==
  ASSUME TypeOK, DebtInv, PendingInv, NEW r \in Request, RequestArrives(r)
  PROVE  DebtInv' /\ PendingInv'
<1>0. fate[r] = "unsent" /\ UNCHANGED <<service_started, backlog>>
  BY DEF RequestArrives
<1>1. CASE (Begin(r) \/ Refuse(r)) /\ UNCHANGED pending_messages
  <2>1. \A q \in Request : q # r => fate'[q] = fate[q]
    BY <1>1 DEF Begin, Refuse, TypeOK
  <2>2. QED
    BY <1>0, <1>1, <2>1, DispatchDebt, KeepPending
<1>2. CASE Postpone(r)
  <2>1. /\ ~service_started /\ pending_messages' = Append(pending_messages, r)
        /\ fate' = [fate EXCEPT ![r] = "pending"] /\ UNCHANGED answers
    BY <1>2 DEF Postpone
  <2>2. fate'[r] = "pending" /\ \A q \in Request \ {r} : fate'[q] = fate[q]
    BY <2>1 DEF TypeOK
  <2>3. DebtInv'
    BY <1>0, <2>1, <2>2 DEF DebtInv, answers
  <2>4. /\ Len(pending_messages) \in Nat /\ Len(pending_messages') = Len(pending_messages) + 1
        /\ \A i \in 1..Len(pending_messages) :
              pending_messages'[i] = pending_messages[i] /\ pending_messages[i] \in Request
        /\ pending_messages'[Len(pending_messages) + 1] = r
    BY <2>1, AppendFacts DEF TypeOK
  <2>5. \A i \in 1..Len(pending_messages) :
           pending_messages[i] # r /\ fate[pending_messages[i]] = "pending"
    BY <1>0 DEF PendingInv, Postponed
  <2>6. \A i, j \in 1..Len(pending_messages') :
           pending_messages'[i] = pending_messages'[j] => i = j
    BY <2>4, <2>5 DEF PendingInv, Postponed
  <2>7. \A i \in 1..Len(pending_messages') : fate'[pending_messages'[i]] = "pending"
    BY <2>2, <2>4, <2>5
  <2>8. backlog = <<>>
    BY <2>1 DEF PendingInv
  <2>9. PendingInv'
    BY <1>0, <2>1, <2>6, <2>7, <2>8 DEF PendingInv, Postponed
  <2>10. QED
    BY <2>3, <2>9
<1>3. QED
  BY <1>1, <1>2 DEF RequestArrives

LEMMA StartOwes ==
  ASSUME TypeOK, DebtInv, PendingInv, DispatchPending \/ Started \/ Raise
  PROVE  DebtInv' /\ PendingInv'
<1>1. CASE DispatchPending
  <2> DEFINE r == Head(backlog)
  <2>1. /\ r \in Request /\ r = backlog[1] /\ Len(backlog) \in Nat \ {0} /\ backlog # <<>>
        /\ backlog' = Tail(backlog) /\ Len(backlog') = Len(backlog) - 1
        /\ \A i \in 1..(Len(backlog) - 1) : backlog'[i] = backlog[i + 1]
        /\ \A i \in 1..Len(backlog) : backlog[i] \in Request
        /\ Begin(r) \/ Refuse(r)
        /\ UNCHANGED <<service_started, pending_messages>>
    BY <1>1, TailFacts DEF DispatchPending, TypeOK
  <2> HIDE DEF r
  <2>2. fate[r] = "pending" /\ service_started /\ pending_messages = <<>>
    BY <2>1 DEF PendingInv, Postponed
  <2>3. \A q \in Request \ {r} : fate'[q] = fate[q]
    BY <2>1 DEF Begin, Refuse, TypeOK
  <2>4. \A i \in 1..Len(backlog') :
           \E k \in 1..Len(backlog) : k = i + 1 /\ backlog'[i] = backlog[k] /\ backlog[k] # r
    BY <2>1 DEF PendingInv, Postponed
  <2>5. \A i, j \in 1..Len(backlog') : backlog'[i] = backlog'[j] => i = j
    BY <2>1, <2>4 DEF PendingInv, Postponed
  <2>6. \A i \in 1..Len(backlog') : fate'[backlog'[i]] = "pending"
    BY <2>1, <2>3, <2>4 DEF PendingInv, Postponed
  <2>7. PendingInv'
    BY <2>1, <2>2, <2>5, <2>6 DEF PendingInv, Postponed
  <2>8. QED
    BY <2>1, <2>2, <2>7, DispatchDebt
<1>2. CASE Started
  BY <1>2 DEF Started, DebtInv, PendingInv, Postponed, answers
<1>3. CASE Raise
  BY <1>3 DEF Raise, DebtInv, PendingInv, Postponed, answers
<1>4. QED
  BY <1>1, <1>2, <1>3

LEMMA OperateOwes ==
  ASSUME TypeOK, DebtInv, PendingInv,
         Operate \/ PauseStep \/ Finish \/ \E c \in Co : MarkStep(c)
  PROVE  DebtInv' /\ PendingInv'
<1> USE DEF tables, queues, startup, coroutines, world, answers
<1>0. UNCHANGED <<service_started, pending_messages, backlog, fate>>
  BY DEF Operate, Call, Sleep, PauseStep, MarkStep, Timeout, Fork, Wakeup, Ret, IgnoreRet,
         Response, Respond, Register, Finish
<1>1. PendingInv'
  BY <1>0, KeepPending
<1>2. CASE Call \/ Sleep \/ PauseStep \/ Timeout \/ Fork \/ Register
           \/ \E c \in Co : Wakeup(c) \/ MarkStep(c)
  <2>1. UNCHANGED answers
    BY <1>2 DEF Call, Sleep, PauseStep, MarkStep, Timeout, Fork, Wakeup, Register
  <2>2. QED
    BY <1>0, <1>1, <2>1 DEF DebtInv
<1>3. CASE Ret \/ IgnoreRet \/ Response
  <2>1. Top \in Co
    BY <1>3, TopFacts DEF Ret, IgnoreRet, Response, Can
  <2>2. PICK r : r = session_coroutine_id[Top]
    OBVIOUS
  <2>3. /\ session_coroutine_id' = [session_coroutine_id EXCEPT ![Top] = Nil]
        /\ \/ UNCHANGED <<deferred, replies>>
           \/ /\ r \in Calls /\ UNCHANGED replies
              /\ deferred' = deferred \cup {r}
           \/ /\ r \in Calls /\ UNCHANGED deferred
              /\ replies' = [replies EXCEPT ![r] = @ + 1]
    BY <1>3, <2>2 DEF Ret, IgnoreRet, Response
  <2>4. DebtInv'
    BY <1>0, <2>1, <2>2, <2>3, ReleaseDebt
  <2>5. QED
    BY <1>1, <2>4
<1>4. CASE Finish
  <2>1. /\ Top \in Co /\ session_coroutine_id' = [session_coroutine_id EXCEPT ![Top] = Nil]
        /\ UNCHANGED <<deferred, replies>>
    BY <1>4, TopFacts DEF Finish, Recycle
  <2>2. DebtInv'
    BY <1>0, <2>1, ReleaseDebt
  <2>3. QED
    BY <1>1, <2>2
<1>5. CASE \E r \in Request : Respond(r)
  BY <1>1, <1>5, RespondDebt
<1>6. QED
  BY <1>2, <1>3, <1>4, <1>5 DEF Operate

(* A step that leaves a debt where it is, with a coroutine that does what it did. *)
LEMMA KeepHandlers ==
  ASSUME TypeOK, DebtIsTheHandlers,
         \A c \in Co : \/ session_coroutine_id'[c] = Nil
                       \/ /\ session_coroutine_id'[c] = session_coroutine_id[c]
                          /\ job[c] = "dispatch" => job'[c] = "dispatch"
                          /\ state[c] \in {"running", "waiting", "dead"}
                               => state'[c] \in {"running", "waiting", "dead"}
  PROVE  DebtIsTheHandlers'
  BY DEF DebtIsTheHandlers

LEMMA ResumeHandlers ==
  ASSUME TypeOK, DebtIsTheHandlers, NEW c \in Co, Resume(c), UNCHANGED <<job, answers>>
  PROVE  DebtIsTheHandlers'
  BY ResumeFacts, KeepHandlers DEF answers

LEMMA DispatchHandlers ==
  ASSUME TypeOK, DebtIsTheHandlers, NEW r \in Request, Begin(r) \/ Refuse(r)
  PROVE  DebtIsTheHandlers'
<1>1. CASE Begin(r)
  <2>1. PICK c \in Co : /\ Resume(c) /\ job' = [job EXCEPT ![c] = "dispatch"]
                        /\ session_coroutine_id' = [session_coroutine_id EXCEPT ![c] = r]
    BY <1>1 DEF Begin
  <2>2. /\ job'[c] = "dispatch" /\ state'[c] = "running"
        /\ \A d \in Co \ {c} : /\ job'[d] = job[d] /\ state'[d] = state[d]
                               /\ session_coroutine_id'[d] = session_coroutine_id[d]
    BY <2>1, ResumeFacts DEF TypeOK
  <2>3. QED
    BY <2>2 DEF DebtIsTheHandlers
<1>2. CASE Refuse(r)
  BY <1>2 DEF Refuse, NoResume, coroutines, DebtIsTheHandlers
<1>3. QED
  BY <1>1, <1>2

(* Only the coroutine a request was given to can answer it. *)
LEMMA HandlersInductive ==
  ASSUME TypeOK, CoreInv, DebtIsTheHandlers, ServiceNext
  PROVE  DebtIsTheHandlers'
<1> USE DEF tables, queues, startup, coroutines, world, answers
<1>1. CASE Answer \/ RunFork \/ RunWakeup
  <2>1. UNCHANGED <<job, answers>> /\ (NoResume \/ \E c \in Co : Resume(c))
    <3>1. CASE Answer
      BY <3>1 DEF Answer, TimerFires, PeerAnswers, Answered, NoResume
    <3>2. CASE RunFork
      BY <3>2, TailFacts DEF RunFork, TypeOK
    <3>3. CASE RunWakeup
      BY <3>3 DEF RunWakeup, NoResume, TypeOK
    <3>4. QED
      BY <1>1, <3>1, <3>2, <3>3
  <2>2. QED
    BY <2>1, ResumeHandlers DEF NoResume, DebtIsTheHandlers
<1>2. CASE \E r \in Request : RequestArrives(r)
  <2>1. ASSUME NEW r \in Request, Postpone(r)
        PROVE  DebtIsTheHandlers'
    BY <2>1 DEF Postpone, NoResume, DebtIsTheHandlers
  <2>2. QED
    BY <1>2, <2>1, DispatchHandlers DEF RequestArrives
<1>3. CASE DispatchPending
  BY <1>3, TailFacts, DispatchHandlers DEF DispatchPending, TypeOK
<1>4. CASE ListWakeups \/ WakeupsDone \/ Register \/ (\E c \in Co : Wakeup(c) \/ MarkStep(c))
           \/ \E r \in Request : Respond(r)
  BY <1>4 DEF ListWakeups, WakeupsDone, Register, Wakeup, MarkStep, Respond, DebtIsTheHandlers
<1>5. CASE Ret \/ IgnoreRet \/ Response
  <2>1. session_coroutine_id' = [session_coroutine_id EXCEPT ![Top] = Nil]
        /\ UNCHANGED <<job, state>> /\ Top \in Co
    BY <1>5, TopFacts DEF Ret, IgnoreRet, Response, Can
  <2>2. QED
    BY <2>1 DEF DebtIsTheHandlers, TypeOK
<1>6. CASE Call \/ Sleep \/ PauseStep
  <2>1. /\ stack # <<>> /\ state' = [state EXCEPT ![Top] = "waiting"]
        /\ UNCHANGED <<job, answers>>
    BY <1>6 DEF Call, Sleep, PauseStep, Pause, Suspend, Can
  <2>2. QED
    BY <2>1, TopFacts, KeepHandlers DEF TypeOK
<1>7. CASE Timeout \/ Fork
  <2>1. PICK c \in Co : \E j : /\ CoCreate(c) /\ state' = [state EXCEPT ![c] = "new"]
                               /\ job' = [job EXCEPT ![c] = j]
    BY <1>7 DEF Timeout, Fork
  <2>2. session_coroutine_id[c] = Nil /\ UNCHANGED answers
    BY <1>7, <2>1 DEF CoCreate, DebtIsTheHandlers, Timeout, Fork
  <2>3. \A d \in Co \ {c} : state'[d] = state[d] /\ job'[d] = job[d]
    BY <2>1 DEF TypeOK
  <2>4. QED
    BY <2>2, <2>3, KeepHandlers
<1>8. CASE Finish
  <2>1. /\ Top \in Co /\ session_coroutine_id' = [session_coroutine_id EXCEPT ![Top] = Nil]
        /\ state' = [state EXCEPT ![Top] = "pooled"] /\ UNCHANGED job
    BY <1>8, TopFacts DEF Finish, Recycle
  <2>2. QED
    BY <2>1, KeepHandlers DEF TypeOK
<1>9. CASE Started
  <2>1. /\ Top \in Co /\ job[Top] = "start" /\ job' = [job EXCEPT ![Top] = "backlog"]
        /\ UNCHANGED <<state, answers>>
    BY <1>9, TopFacts DEF Started
  <2>2. QED
    BY <2>1, KeepHandlers DEF TypeOK
<1>10. CASE Raise
  <2>1. \A c \in Co : state'[c] \in {state[c], "dead"}
    BY <1>10 DEF Raise
  <2>2. UNCHANGED <<job, answers>>
    BY <1>10 DEF Raise
  <2>3. QED
    BY <2>1, <2>2, KeepHandlers
<1>11. QED
  BY <1>1, <1>2, <1>3, <1>4, <1>5, <1>6, <1>7, <1>8, <1>9, <1>10
  DEF ServiceNext, Next, Loop, Operate, End

-------------------------------------------------------------------------------
(* The service's invariant is inductive. *)
LEMMA ServiceInductive == ServiceInv /\ [ServiceNext]_vars => ServiceInv'
<1> SUFFICES ASSUME ServiceInv, [ServiceNext]_vars PROVE ServiceInv'
  OBVIOUS
<1>1. TypeOK' /\ CoreInv'
  BY ServiceTypes, CoreInductive DEF ServiceInv, CoreInv
<1>2. CASE UNCHANGED vars
  <2>1. DebtInv' /\ DebtIsTheHandlers' /\ PendingInv'
    BY <1>2 DEF ServiceInv, vars, startup, coroutines, answers, DebtInv, DebtIsTheHandlers,
                PendingInv, Postponed
  <2>2. QED
    BY <1>1, <2>1 DEF ServiceInv, CoreInv
<1>3. CASE ServiceNext
  <2>1. DebtIsTheHandlers'
    BY <1>3, HandlersInductive DEF ServiceInv, CoreInv
  <2>2. CASE Answer \/ Loop
    <3>1. UNCHANGED <<answers, fate, service_started, pending_messages, backlog>>
      BY <2>2 DEF Answer, TimerFires, PeerAnswers, Loop, RunFork, RunWakeup, ListWakeups,
                  WakeupsDone, startup
    <3>2. DebtInv' /\ PendingInv'
      BY <3>1, KeepPending DEF ServiceInv, DebtInv, answers
    <3>3. QED
      BY <1>1, <2>1, <3>2 DEF ServiceInv, CoreInv
  <2>3. CASE ~(Answer \/ Loop)
    <3>1. DebtInv' /\ PendingInv'
      BY <1>3, <2>3, RequestOwes, StartOwes, OperateOwes DEF ServiceInv, ServiceNext, Next, End
    <3>2. QED
      BY <1>1, <2>1, <3>1 DEF ServiceInv, CoreInv
  <2>4. QED
    BY <2>2, <2>3
<1>4. QED
  BY <1>2, <1>3

(* It holds when skynet.start has returned. *)
LEMMA ServiceInit == Init => ServiceInv
<1> SUFFICES ASSUME Init PROVE ServiceInv
  OBVIOUS
<1> USE ServiceAssumption
<1>1. 1 \in Session /\ 0 \notin Session
  BY DEF Session
<1>2. TypeOK
  <2>1. /\ session_id_coroutine \in [Session -> Co \cup {Nil, Break}]
        /\ session_coroutine_id \in [Co -> Request \cup {Nil}]
        /\ sleep_session \in [Co -> Session \cup {0}]
        /\ awaits \in [Co -> Session \cup {0}]
    BY <1>1 DEF Init
  <2>2. /\ state \in [Co -> {"none", "new", "running", "waiting", "pooled", "dead"}]
        /\ job \in [Co -> {"none", "start", "backlog", "dispatch", "fork", "timeout"}]
        /\ fate \in [Request -> {"unsent", "pending", "begun", "refused"}]
        /\ replies \in [Request -> Nat]
    BY DEF Init
  <2>3. /\ fork_queue \in Seq(Co) /\ stack \in Seq(Co)
        /\ pending_messages \in Seq(Request) /\ backlog \in Seq(Request)
    BY DEF Init
  <2>4. genid \in Session /\ forks \in 0..MaxFork /\ due \subseteq Session
    BY <1>1 DEF Init
  <2>5. QED
    BY <2>1, <2>2, <2>3, <2>4 DEF Init, TypeOK
<1>3. StackInv /\ ForkInv
  BY DEF Init, StackInv, ForkInv
<1>4. SessionInv
  BY <1>1 DEF Init, SessionInv, WaiterHasItsSession, Suspended
<1>5. DebtInv /\ DebtIsTheHandlers /\ PendingInv
  BY DEF Init, DebtInv, DebtIsTheHandlers, PendingInv, Postponed
<1>6. QED
  BY <1>2, <1>3, <1>4, <1>5 DEF ServiceInv

(* One debtor at most, and none after the answer: what ReplyOnce counts. *)
LEMMA DebtIsOne == TypeOK /\ DebtInv => ReplyOnce
<1> SUFFICES ASSUME TypeOK, DebtInv, NEW r \in Request
             PROVE  Cardinality(Owing(r) \cup (deferred \cap {r})) + replies[r] <= 1
  BY DEF ReplyOnce
<1> DEFINE S == Owing(r) \cup (deferred \cap {r})
<1>1. CASE S = {}
  BY <1>1, FS_EmptySet DEF DebtInv
<1>2. CASE S # {}
  <2>1. PICK x : S = {x}
    BY <1>2 DEF DebtInv, Owing
  <2>2. replies[r] = 0
    BY <1>2 DEF DebtInv, Owing
  <2>3. Cardinality(S) = 1
    BY <2>1, FS_Singleton
  <2>4. QED
    BY <2>2, <2>3
<1>3. QED
  BY <1>1, <1>2

(* The runtime of a Lua service alone, whatever its program does and whatever errors it
   raises: every wait has its session, and every request one debtor at most. *)
THEOREM ServiceSafe ==
  Spec => [](TypeOK /\ WaiterHasItsSession /\ ReplyOnce /\ DebtIsTheHandlers)
<1>1. ServiceInv => TypeOK /\ WaiterHasItsSession /\ ReplyOnce /\ DebtIsTheHandlers
  BY DebtIsOne DEF ServiceInv, SessionInv
<1>2. ServiceInv /\ [Next]_vars => ServiceInv'
  BY ServiceInductive DEF ServiceNext
<1>3. QED
  BY <1>1, <1>2, ServiceInit, PTL DEF Spec

-------------------------------------------------------------------------------
(* Turns: what holds when no error goes up to dispatch_message *)

(* What happens outside of the stack does not touch what is on it. *)
LEMMA OnStack ==
  ASSUME TypeOK, StackInv, NEW i \in 1..Len(stack)
  PROVE  stack[i] \in Co /\ state[stack[i]] = "running"
<1>1. stack[i] \in Co
  BY DEF TypeOK
<1>2. QED
  BY <1>1 DEF StackInv

(* A step that does nothing to the lists, and leaves the coroutine of the start function
   on the stack. *)
LEMMA KeepTurn ==
  ASSUME TypeOK, TurnInv, UNCHANGED <<service_started, pending_messages, backlog, fate>>,
         phase' = "idle" => stack' = <<>>,
         \A c \in Co : job'[c] = "start" => job[c] = "start",
         backlog # <<>> => \A i \in 1..Len(stack) : job[stack[i]] = "backlog" =>
             \E k \in 1..Len(stack') : job'[stack'[k]] = "backlog"
  PROVE  TurnInv'
  BY DEF TurnInv

(* With nothing on the stack there is no backlog. *)
LEMMA NoBacklog ==
  ASSUME TypeOK, TurnInv, stack = <<>>
  PROVE  backlog = <<>>
<1>1. ~ \E i \in 1..Len(stack) : job[stack[i]] = "backlog"
  OBVIOUS
<1>2. QED
  BY <1>1 DEF TurnInv

LEMMA AnswerTurn ==
  ASSUME TypeOK, TurnInv, Answer \/ Loop
  PROVE  TurnInv'
<1>1. UNCHANGED <<service_started, pending_messages, backlog, fate, job>>
  BY DEF Answer, TimerFires, PeerAnswers, Answered, NoResume, Loop, RunFork, RunWakeup, ListWakeups,
         WakeupsDone, startup, coroutines
<1>2. stack = <<>>
  BY DEF TurnInv, Answer, TimerFires, PeerAnswers, Loop, RunFork, RunWakeup, ListWakeups, WakeupsDone
<1>3. backlog = <<>>
  BY <1>2, NoBacklog
<1>4. phase' = "idle" => UNCHANGED stack
  BY DEF Answer, TimerFires, PeerAnswers, Answered, Loop, RunFork, RunWakeup, ListWakeups, WakeupsDone,
         coroutines, NoResume
<1>5. QED
  BY <1>1, <1>2, <1>3, <1>4, KeepTurn

LEMMA RequestTurn ==
  ASSUME TypeOK, TurnInv, NEW r \in Request, RequestArrives(r)
  PROVE  TurnInv'
<1>1. /\ stack = <<>> /\ fate[r] = "unsent" /\ phase' # "idle"
      /\ UNCHANGED <<service_started, backlog>>
  BY DEF TurnInv, RequestArrives
<1>2. backlog = <<>>
  BY <1>1, NoBacklog
<1>3. \A c \in Co : job'[c] = "start" => job[c] = "start"
  BY DEF RequestArrives, Begin, Refuse, Postpone, NoResume, coroutines, TypeOK
<1>4. CASE (Begin(r) \/ Refuse(r)) /\ UNCHANGED pending_messages
  <2>1. fate'[r] # "pending" /\ \A q \in Request \ {r} : fate'[q] = fate[q]
    BY <1>4 DEF Begin, Refuse, TypeOK
  <2>2. QED
    BY <1>1, <1>2, <1>3, <1>4, <2>1 DEF TurnInv
<1>5. CASE Postpone(r)
  <2>1. /\ pending_messages' = Append(pending_messages, r)
        /\ \A q \in Request \ {r} : fate'[q] = fate[q]
    BY <1>5 DEF Postpone, TypeOK
  <2>2. /\ Len(pending_messages) \in Nat /\ Len(pending_messages') = Len(pending_messages) + 1
        /\ \A i \in 1..Len(pending_messages) : pending_messages'[i] = pending_messages[i]
        /\ pending_messages'[Len(pending_messages) + 1] = r
    BY <2>1, AppendFacts DEF TypeOK
  <2>3. ASSUME NEW q \in Request, fate'[q] = "pending"
        PROVE  \E i \in 1..Len(pending_messages') : pending_messages'[i] = q
    <3>1. CASE q = r
      <4>1. Len(pending_messages) + 1 \in 1..Len(pending_messages')
        BY <2>2
      <4>2. QED
        BY <2>2, <3>1, <4>1
    <3>2. CASE q # r
      <4>1. PICK i \in 1..Len(pending_messages) : pending_messages[i] = q
        BY <1>2, <2>1, <2>3, <3>2 DEF TurnInv
      <4>2. i \in 1..Len(pending_messages') /\ pending_messages'[i] = q
        BY <2>2, <4>1
      <4>3. QED
        BY <4>2
    <3>3. QED
      BY <3>1, <3>2
  <2>4. QED
    BY <1>1, <1>2, <1>3, <2>3 DEF TurnInv
<1>6. QED
  BY <1>4, <1>5 DEF RequestArrives

(* The running coroutine yields or ends, and was not the one of the start function. *)
LEMMA PopTurn ==
  ASSUME TypeOK, StackInv, TurnInv, stack # <<>>, job[Top] # "backlog" \/ backlog = <<>>,
         stack' = SubSeq(stack, 1, Len(stack) - 1),
         UNCHANGED <<job, service_started, pending_messages, backlog, fate, phase>>
  PROVE  TurnInv'
<1>1. /\ Len(stack) \in Nat \ {0} /\ stack[Len(stack)] = Top
      /\ Len(stack') = Len(stack) - 1
      /\ \A i \in 1..(Len(stack) - 1) : stack'[i] = stack[i]
  BY FrontFacts DEF TypeOK, Top
<1>2. ASSUME backlog # <<>>, NEW i \in 1..Len(stack), job[stack[i]] = "backlog"
      PROVE  \E k \in 1..Len(stack') : job'[stack'[k]] = "backlog"
  <2>1. i \in 1..Len(stack') /\ stack'[i] = stack[i]
    BY <1>1, <1>2
  <2>2. QED
    BY <1>2, <2>1
<1>3. phase' # "idle"
  BY DEF TurnInv
<1>4. QED
  BY <1>2, <1>3, KeepTurn

LEMMA OperateTurn ==
  ASSUME TypeOK, StackInv, TurnInv,
         Operate \/ PauseStep \/ Finish \/ \E c \in Co : MarkStep(c)
  PROVE  TurnInv'
<1> USE DEF tables, queues, startup, coroutines, world, answers
<1>0. /\ UNCHANGED <<service_started, pending_messages, backlog, fate, phase>>
      /\ stack # <<>> /\ phase # "idle"
  BY DEF Operate, Call, Sleep, PauseStep, MarkStep, Timeout, Fork, Wakeup, Ret, IgnoreRet,
         Response, Respond, Register, Finish, Can, TurnInv
<1>1. CASE Call \/ Sleep \/ PauseStep \/ Finish
  <2>1. /\ stack' = SubSeq(stack, 1, Len(stack) - 1) /\ UNCHANGED job
        /\ job[Top] # "backlog" \/ backlog = <<>>
    BY <1>1 DEF Call, Sleep, PauseStep, Finish, Recycle, Can, Pause, Suspend
  <2>2. QED
    BY <1>0, <2>1, PopTurn
<1>2. CASE Timeout \/ Fork
  <2>1. PICK c \in Co, j \in {"timeout", "fork"} : CoCreate(c) /\ job' = [job EXCEPT ![c] = j]
    BY <1>2 DEF Timeout, Fork
  <2>2. UNCHANGED stack
    BY <1>2 DEF Timeout, Fork
  <2>3. state[c] # "running" /\ \A d \in Co : job'[d] # job[d] => d = c /\ job'[d] = j
    BY <2>1 DEF CoCreate, TypeOK
  <2>4. \A i \in 1..Len(stack) : job'[stack'[i]] = job[stack[i]]
    BY <2>2, <2>3, OnStack
  <2>5. QED
    BY <1>0, <2>2, <2>3, <2>4, KeepTurn
<1>3. CASE ~(Call \/ Sleep \/ PauseStep \/ Finish \/ Timeout \/ Fork)
  <2>1. UNCHANGED <<stack, job>>
    BY <1>3 DEF Operate, MarkStep, Wakeup, Ret, IgnoreRet, Response, Respond, Register
  <2>2. QED
    BY <1>0, <2>1, KeepTurn
<1>4. QED
  BY <1>1, <1>2, <1>3

LEMMA StartTurn ==
  ASSUME TypeOK, StackInv, PendingInv, TurnInv, Started \/ DispatchPending
  PROVE  TurnInv'
<1>0. /\ stack # <<>> /\ UNCHANGED phase /\ phase # "idle" /\ Top \in Co
      /\ Len(stack) \in Nat \ {0} /\ stack[Len(stack)] = Top
  BY TopFacts, FrontFacts DEF Started, DispatchPending, TurnInv, TypeOK, Top
<1>1. CASE Started
  <2>1. /\ job[Top] = "start" /\ job' = [job EXCEPT ![Top] = "backlog"] /\ service_started'
        /\ backlog' = pending_messages /\ pending_messages' = <<>> /\ UNCHANGED <<stack, fate>>
    BY <1>1 DEF Started
  <2>2. Top = Main /\ backlog = <<>>
    BY <1>0, <2>1 DEF TurnInv, PendingInv
  <2>3. job'[stack[Len(stack)]] = "backlog" /\ \A c \in Co : job'[c] # "start"
    BY <1>0, <2>1, <2>2 DEF TurnInv, TypeOK
  <2>4. Len(stack) \in 1..Len(stack)
    BY <1>0
  <2>5. \E i \in 1..Len(stack') : job'[stack'[i]] = "backlog"
    BY <2>1, <2>3, <2>4
  <2>6. \A r \in Request : fate'[r] = "pending" => \E i \in 1..Len(backlog') : backlog'[i] = r
    BY <2>1, <2>2 DEF TurnInv
  <2>7. QED
    BY <1>0, <2>3, <2>5, <2>6 DEF TurnInv
<1>2. CASE DispatchPending
  <2> DEFINE r == Head(backlog)
  <2>1. /\ r \in Request /\ r = backlog[1] /\ Len(backlog) \in Nat \ {0} /\ backlog # <<>>
        /\ backlog' = Tail(backlog) /\ Len(backlog') = Len(backlog) - 1
        /\ \A i \in 1..(Len(backlog) - 1) : backlog'[i] = backlog[i + 1]
        /\ Begin(r) \/ Refuse(r)
        /\ UNCHANGED <<service_started, pending_messages>>
    BY <1>2, TailFacts DEF DispatchPending, TypeOK
  <2> HIDE DEF r
  <2>2. fate'[r] # "pending" /\ \A q \in Request \ {r} : fate'[q] = fate[q]
    BY <2>1 DEF Begin, Refuse, TypeOK
  <2>3. ASSUME NEW q \in Request, fate'[q] = "pending"
        PROVE  \/ \E i \in 1..Len(pending_messages') : pending_messages'[i] = q
               \/ \E i \in 1..Len(backlog') : backlog'[i] = q
    <3>1. q # r /\ fate[q] = "pending"
      BY <2>2, <2>3
    <3>2. CASE \E i \in 1..Len(pending_messages) : pending_messages[i] = q
      BY <2>1, <3>2
    <3>3. ASSUME NEW i \in 1..Len(backlog), backlog[i] = q
          PROVE  \E k \in 1..Len(backlog') : backlog'[k] = q
      <4>1. i # 1
        BY <2>1, <3>1, <3>3
      <4>2. i - 1 \in 1..(Len(backlog) - 1) /\ backlog'[i - 1] = backlog[i]
        BY <2>1, <4>1
      <4>3. QED
        BY <2>1, <3>3, <4>2
    <3>4. QED
      BY <3>1, <3>2, <3>3 DEF TurnInv
  <2>4. PICK i \in 1..Len(stack) : job[stack[i]] = "backlog"
    BY <2>1 DEF TurnInv
  <2>5. /\ \A c \in Co : job'[c] = "start" => job[c] = "start"
        /\ \E k \in 1..Len(stack') : job'[stack'[k]] = "backlog"
    <3>1. CASE Begin(r)
      <4>1. PICK c \in Co : CoCreate(c) /\ Resume(c) /\ job' = [job EXCEPT ![c] = "dispatch"]
        BY <3>1 DEF Begin
      <4>2. stack[i] \in Co \ {c}
        BY <4>1, OnStack DEF CoCreate
      <4>3. i \in 1..Len(stack') /\ stack'[i] = stack[i]
        BY <1>0, <4>1, AppendFacts DEF Resume, TypeOK
      <4>4. QED
        BY <2>4, <4>1, <4>2, <4>3 DEF TypeOK
    <3>2. CASE Refuse(r)
      BY <2>4, <3>2 DEF Refuse, NoResume, coroutines
    <3>3. QED
      BY <2>1, <3>1, <3>2
  <2>6. QED
    BY <1>0, <2>1, <2>3, <2>5 DEF TurnInv
<1>3. QED
  BY <1>1, <1>2

(* Without errors the turns are inductive. *)
LEMMA TurnInductive == ~Errors /\ ServiceInv /\ TurnInv /\ [ServiceNext]_vars => TurnInv'
<1> SUFFICES ASSUME ~Errors, ServiceInv, TurnInv, [ServiceNext]_vars PROVE TurnInv'
  OBVIOUS
<1>1. CASE UNCHANGED vars
  BY <1>1 DEF vars, startup, coroutines, TurnInv
<1>2. CASE ServiceNext
  BY <1>2, AnswerTurn, RequestTurn, OperateTurn, StartTurn
  DEF ServiceInv, ServiceNext, Next, End, Raise
<1>3. QED
  BY <1>1, <1>2

(* Marks survive a step that leaves the sleep of every marked coroutine alone. *)
LEMMA MarkStepInv ==
  ASSUME TypeOK, StackInv, SessionInv, TurnInv, MarkInv,
         Operate \/ PauseStep \/ Finish \/ Started \/ \E c \in Co : MarkStep(c)
  PROVE  MarkInv'
<1> USE DEF tables, queues, startup, coroutines, world, answers
<1>0. stack # <<>> /\ phase # "idle" /\ UNCHANGED <<phase, wakeup_list>>
  BY DEF Operate, Call, Sleep, PauseStep, MarkStep, Timeout, Fork, Wakeup, Ret, IgnoreRet,
         Response, Respond, Register, Finish, Started, Can, TurnInv
<1>1. CASE Sleep \/ PauseStep
  <2>1. /\ sleep_session' = [sleep_session EXCEPT ![Top] = NextSession]
        /\ UNCHANGED wakeup_queue
    BY <1>1 DEF Sleep, PauseStep, Pause
  <2>2. NextSession # 0 /\ Top \in Co
    BY SMTT(30), <1>0, TopFacts DEF NextSession, TypeOK, Session
  <2>3. QED
    BY <1>0, <2>1, <2>2 DEF MarkInv, TypeOK
<1>2. CASE \E c \in Co : Wakeup(c) \/ MarkStep(c)
  <2>1. UNCHANGED sleep_session
    BY <1>2 DEF Wakeup, MarkStep
  <2>2. QED
    BY <1>0, <1>2, <2>1 DEF Wakeup, MarkStep, Mark, MarkInv
<1>3. CASE ~(Sleep \/ PauseStep \/ \E c \in Co : Wakeup(c) \/ MarkStep(c))
  <2>1. UNCHANGED <<sleep_session, wakeup_queue>>
    BY <1>3 DEF Operate, Call, Timeout, Fork, Ret, IgnoreRet, Response, Respond, Register, Finish,
                Started
  <2>2. QED
    BY <1>0, <2>1 DEF MarkInv
<1>4. QED
  BY <1>1, <1>2, <1>3

(* A coroutine that is resumed otherwise than by its wakeup was not marked. *)
LEMMA MarkMessageInv ==
  ASSUME TypeOK, StackInv, ForkInv, SessionInv, MarkInv,
         \/ Answer \/ Loop \/ DispatchPending
         \/ \E r \in Request : RequestArrives(r)
  PROVE  MarkInv'
<1> USE DEF tables, queues, startup, coroutines, world, answers
<1>1. CASE Answer
  BY <1>1 DEF Answer, TimerFires, PeerAnswers, Answered, MarkInv
<1>2. CASE RunFork
  <2>1. Head(fork_queue) \in Co /\ state[Head(fork_queue)] = "new"
    BY <1>2, TailFacts DEF RunFork, ForkInv, TypeOK
  <2>2. Head(fork_queue) \notin wakeup_queue
    BY <2>1 DEF MarkInv, SessionInv, WaiterHasItsSession
  <2>3. QED
    BY <1>2, <2>1, <2>2, ResumeFacts DEF RunFork, MarkInv, TypeOK
<1>3. CASE ListWakeups \/ WakeupsDone
  BY <1>3 DEF ListWakeups, WakeupsDone, MarkInv
<1>4. CASE RunWakeup
  <2>1. PICK c \in wakeup_list :
          /\ wakeup_list' = wakeup_list \ {c} /\ wakeup_queue' = wakeup_queue \ {c}
          /\ Resume(c) \/ NoResume
    BY <1>4 DEF RunWakeup
  <2>2. c \in Co /\ wakeup_queue \subseteq Co /\ phase' # "idle"
    BY <1>4 DEF TypeOK, RunWakeup
  <2>3. \A d \in Co \ {c} : sleep_session'[d] = sleep_session[d]
    BY <2>1, <2>2, ResumeFacts DEF NoResume
  <2>4. QED
    BY <2>1, <2>2, <2>3 DEF MarkInv
<1>5. ASSUME NEW r \in Request, Begin(r) \/ Refuse(r) \/ Postpone(r)
      PROVE  \A c \in wakeup_queue : sleep_session'[c] = sleep_session[c]
  <2>1. CASE Begin(r)
    <3>1. PICK c \in Co : CoCreate(c) /\ Resume(c)
      BY <2>1 DEF Begin
    <3>2. c \notin wakeup_queue
      BY <3>1 DEF CoCreate, MarkInv, SessionInv, WaiterHasItsSession
    <3>3. QED
      BY <3>1, <3>2, ResumeFacts DEF TypeOK
  <2>2. CASE Refuse(r) \/ Postpone(r)
    BY <2>2 DEF Refuse, Postpone, NoResume
  <2>3. QED
    BY <1>5, <2>1, <2>2
<1>6. CASE \E r \in Request : RequestArrives(r)
  BY <1>5, <1>6 DEF RequestArrives, MarkInv
<1>7. CASE DispatchPending
  BY <1>5, <1>7, TailFacts DEF DispatchPending, MarkInv, TypeOK
<1>8. QED
  BY <1>1, <1>2, <1>3, <1>4, <1>6, <1>7 DEF Loop

LEMMA MarkInductive ==
  ~Errors /\ ServiceInv /\ TurnInv /\ MarkInv /\ [ServiceNext]_vars => MarkInv'
<1> SUFFICES ASSUME ~Errors, ServiceInv, TurnInv, MarkInv, [ServiceNext]_vars PROVE MarkInv'
  OBVIOUS
<1>1. CASE UNCHANGED vars
  BY <1>1 DEF vars, queues, tables, MarkInv
<1>2. CASE ServiceNext
  BY <1>2, MarkStepInv, MarkMessageInv DEF ServiceInv, ServiceNext, Next, End, Raise
<1>3. QED
  BY <1>1, <1>2

-------------------------------------------------------------------------------
(* What follows when the program catches its errors *)

LEMMA TurnInit == Init => TurnInv /\ MarkInv
<1> SUFFICES ASSUME Init PROVE TurnInv /\ MarkInv
  OBVIOUS
<1>1. TurnInv
  BY DEF Init, TurnInv
<1>2. MarkInv
  BY DEF Init, MarkInv
<1>3. QED
  BY <1>1, <1>2

(* Between two messages nothing is on the stack, so no backlog is left, and a service that
   is started has no pending messages: nothing is left that a pending request could be in. *)
LEMMA NothingPending ==
  ASSUME ServiceInv, TurnInv
  PROVE  PendingIsDispatched
<1> SUFFICES ASSUME service_started, phase = "idle", NEW r \in Request
             PROVE  fate[r] # "pending"
  BY DEF PendingIsDispatched
<1>1. backlog = <<>>
  BY NoBacklog DEF ServiceInv, TurnInv
<1>2. pending_messages = <<>>
  BY DEF ServiceInv, PendingInv
<1>3. QED
  BY <1>1, <1>2 DEF TurnInv

(* A coroutine that is marked is asleep: neither what runs nor what is taken from the pool
   nor a new fork is marked, and the one that RunWakeup resumes loses its mark. *)
LEMMA MarkKeepsWait ==
  ASSUME ServiceInv, MarkInv, [ServiceNext]_vars
  PROVE  \A c \in wakeup_queue \cap wakeup_queue' : awaits'[c] = awaits[c]
<1> USE DEF tables, queues, startup, coroutines, world, answers
<1>0. /\ TypeOK /\ StackInv /\ wakeup_queue \subseteq Co
      /\ \A c \in wakeup_queue : state[c] = "waiting"
  BY DEF ServiceInv, TypeOK, MarkInv, SessionInv, WaiterHasItsSession
<1>1. ASSUME NEW d \in Co, d \notin wakeup_queue,
             \A c \in Co \ {d} : awaits'[c] = awaits[c]
      PROVE  \A c \in wakeup_queue : awaits'[c] = awaits[c]
  BY <1>0, <1>1
<1>2. ASSUME NEW d \in Co, Resume(d)
      PROVE  \A c \in Co \ {d} : awaits'[c] = awaits[c]
  BY <1>0, <1>2 DEF Resume, TypeOK
<1>3. ASSUME NEW d \in Co, CoCreate(d)
      PROVE  d \notin wakeup_queue
  BY <1>0, <1>3 DEF CoCreate
<1>4. CASE Answer
  BY <1>4 DEF Answer, TimerFires, PeerAnswers, MarkInv
<1>5. ASSUME NEW r \in Request, Begin(r) \/ Refuse(r) \/ Postpone(r)
      PROVE  \A c \in wakeup_queue : awaits'[c] = awaits[c]
  <2>1. CASE Begin(r)
    BY <1>1, <1>2, <1>3, <2>1 DEF Begin
  <2>2. CASE Refuse(r) \/ Postpone(r)
    BY <2>2 DEF Refuse, Postpone, NoResume
  <2>3. QED
    BY <1>5, <2>1, <2>2
<1>6. CASE (\E r \in Request : RequestArrives(r)) \/ DispatchPending
  BY <1>0, <1>5, <1>6, TailFacts DEF RequestArrives, DispatchPending, TypeOK
<1>7. CASE RunFork
  <2>1. Head(fork_queue) \in Co /\ state[Head(fork_queue)] = "new"
    BY <1>0, <1>7, TailFacts DEF RunFork, ForkInv, ServiceInv, TypeOK
  <2>2. QED
    BY <1>0, <1>1, <1>2, <1>7, <2>1 DEF RunFork
<1>8. CASE RunWakeup
  <2>1. PICK d \in wakeup_list : wakeup_queue' = wakeup_queue \ {d} /\ (Resume(d) \/ NoResume)
    BY <1>8 DEF RunWakeup
  <2>2. d \in Co
    BY <1>0 DEF TypeOK
  <2>3. QED
    BY <1>0, <1>2, <2>1, <2>2 DEF NoResume
<1>9. CASE Call \/ Sleep \/ PauseStep
  <2>1. stack # <<>> /\ Suspend(NextSession)
    BY <1>9 DEF Call, Sleep, PauseStep, Pause, Can
  <2>2. Top \in Co /\ state[Top] = "running"
    BY <1>0, <2>1, TopRuns
  <2>3. QED
    BY <1>0, <1>1, <2>1, <2>2 DEF Suspend, TypeOK
<1>10. CASE Timeout
  <2>1. PICK d \in Co : CoCreate(d) /\ awaits' = [awaits EXCEPT ![d] = NextSession]
    BY <1>10 DEF Timeout
  <2>2. \A c \in Co \ {d} : awaits'[c] = awaits[c]
    BY <1>0, <2>1 DEF TypeOK
  <2>3. QED
    BY <1>1, <1>3, <2>1, <2>2
<1>11. CASE ~(\/ Answer \/ (\E r \in Request : RequestArrives(r)) \/ DispatchPending \/ RunFork
             \/ RunWakeup \/ Call \/ Sleep \/ PauseStep \/ Timeout)
  <2>1. UNCHANGED awaits
    BY <1>11 DEF ServiceNext, Next, vars, Loop, ListWakeups, WakeupsDone, Operate, Fork, Ret,
                 IgnoreRet, Response, Register, Wakeup, Respond, MarkStep, End, Finish, Recycle,
                 Started, Raise
  <2>2. QED
    BY <2>1
<1>12. QED
  BY <1>4, <1>6, <1>7, <1>8, <1>9, <1>10, <1>11

(* A service whose program catches its errors dispatches what came before its start function
   was done, in the message that makes it started, and breaks no wait but the one that was
   marked. *)
THEOREM ServiceTurns ==
  ASSUME ~Errors
  PROVE  Spec => []PendingIsDispatched /\ WakeupKeepsItsWait
<1> DEFINE Inv == ServiceInv /\ TurnInv /\ MarkInv
<1>1. Init => Inv
  BY ServiceInit, TurnInit
<1>2. [Next]_vars => [ServiceNext]_vars
  BY DEF ServiceNext
<1>3. Inv /\ [Next]_vars => Inv'
  BY <1>2, ServiceInductive, TurnInductive, MarkInductive
<1>4. Inv => PendingIsDispatched
  BY NothingPending
<1>5. Inv /\ [Next]_vars => [\A c \in wakeup_queue \cap wakeup_queue' : awaits'[c] = awaits[c]]_vars
  BY <1>2, MarkKeepsWait
<1>6. QED
  BY <1>1, <1>3, <1>4, <1>5, PTL DEF Spec, WakeupKeepsItsWait
===============================================================================
