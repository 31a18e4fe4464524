----------------------------- MODULE LuaService -----------------------------
(***************************************************************************)
(* The runtime of one Lua service, lualib/skynet.lua: its coroutines, the  *)
(* sessions they wait for, the fork and the wakeup queue, and the start    *)
(* function with the requests that came before it was done.                *)
(*                                                                         *)
(* The actor queue calls dispatch_message for one message at a time.  In   *)
(* between, the state is touched by nobody: all interleaving comes from    *)
(* the order in which messages arrive and from coroutines that yield.      *)
(* What a coroutine does between two yields is the service's own program:  *)
(* here it may do anything that the library lets it do.                    *)
(***************************************************************************)
EXTENDS Naturals, Sequences, FiniteSets

CONSTANTS
    Co,         \* coroutines
    Main,       \* the one that runs the start function
    Request,    \* messages of other types than response and error
    Calls,      \* those with a session: the sender waits for an answer
    Unknown,    \* those of a protocol the service never registered
    Ops,        \* the operations its program uses
    Errors,     \* whether its program raises errors that it does not catch
    MaxSession, \* bound on c.genid
    MaxFork,    \* bound on the number of forks
    Nil, Break

OpNames == {"call", "sleep", "timeout", "fork", "wakeup", "ret",
            "ignoreret", "response"}

ASSUME ServiceAssumption ==
    /\ Main \in Co
    /\ Calls \subseteq Request
    /\ Unknown \subseteq Request
    /\ Ops \subseteq OpNames
    /\ Errors \in BOOLEAN
    /\ MaxSession \in Nat \ {0}
    /\ MaxFork \in Nat
    /\ {Nil, Break} \cap (Co \cup Request) = {}
    /\ Nil # Break

Session == 1..MaxSession

VARIABLES
    \* the tables of skynet.lua
    session_id_coroutine,   \* session -> coroutine, Break or Nil
    session_coroutine_id,   \* coroutine -> the request it has to answer
    sleep_session,          \* coroutine -> session of its sleep, or 0
    wakeup_queue,
    fork_queue,
    service_started,
    pending_messages,
    registered,             \* skynet.dispatch was called
    \* coroutines
    state,      \* none, new, running, waiting, pooled or dead
    job,        \* what its function is: start, backlog, dispatch, fork, timeout
    awaits,     \* the session it yielded for, or was created for
    stack,      \* coroutines inside coroutine_resume, the innermost last
    \* dispatch_message
    phase,      \* idle, raw, forks or wakes
    wakeup_list,
    backlog,    \* what dispatch_pending_messages has still to do
    \* the rest of the world
    genid, forks,
    due,        \* sessions whose timer has not fired
    asked,      \* sessions of calls that have no answer yet
    fate,       \* of each request: unsent, pending, begun or refused
    deferred,   \* requests whose response function is held by the program
    replies     \* request -> number of answers sent

tables == <<session_id_coroutine, sleep_session>>
queues == <<wakeup_queue, fork_queue>>
startup == <<service_started, pending_messages, registered, backlog>>
coroutines == <<state, job, awaits, stack>>
world == <<genid, forks, due, asked>>
answers == <<session_coroutine_id, deferred, replies>>
vars == <<tables, queues, startup, coroutines, world, answers, phase,
          wakeup_list, fate>>

Top == stack[Len(stack)]
Resumed == {stack[i] : i \in 1..Len(stack)}

-----------------------------------------------------------------------------
(* Coroutines *)

\* co_create takes a coroutine from the pool, or makes one if there is none.
CoCreate(c) ==
    \/ state[c] = "pooled"
    \/ state[c] = "none" /\ \A d \in Co : state[d] # "pooled"

\* coroutine_resume(co, ...).  A coroutine that returns from sleep or wait
\* clears its entry of sleep_session before anything else.
Resume(c) ==
    /\ state' = [state EXCEPT ![c] = "running"]
    /\ awaits' = [awaits EXCEPT ![c] = 0]
    /\ stack' = Append(stack, c)
    /\ sleep_session' = [sleep_session EXCEPT ![c] = 0]

\* A message that starts no coroutine.
NoResume == UNCHANGED <<coroutines, sleep_session>>

\* The running coroutine yields "SUSPEND" until session s is answered.
Suspend(s) ==
    /\ session_id_coroutine' = [session_id_coroutine EXCEPT ![s] = Top]
    /\ state' = [state EXCEPT ![Top] = "waiting"]
    /\ awaits' = [awaits EXCEPT ![Top] = s]
    /\ stack' = SubSeq(stack, 1, Len(stack) - 1)
    /\ UNCHANGED job

-----------------------------------------------------------------------------
(* raw_dispatch_message *)

\* Mutant: the answer is dropped.
AnsweredDropped(s) ==
    /\ session_id_coroutine' = [session_id_coroutine EXCEPT ![s] = Nil]
    /\ NoResume /\ phase' = "forks"

\* Mutant: Break is taken for a coroutine.
AnsweredBlind(s) ==
    LET c == session_id_coroutine[s] IN
    /\ session_id_coroutine' = [session_id_coroutine EXCEPT ![s] = Nil]
    /\ Resume(c) /\ phase' = "raw" /\ UNCHANGED job

\* A response or an error for session s: the coroutine is taken out of the
\* table and resumed.  The late timer of a sleep that was broken finds Break
\* and only removes it.  Which of the two types came is for the coroutine: a
\* call that failed raises an error, which is one of the things it may do.
Answered(s) ==
    LET c == session_id_coroutine[s] IN
    /\ session_id_coroutine' = [session_id_coroutine EXCEPT ![s] = Nil]
    /\ \/ c \in Co /\ Resume(c) /\ phase' = "raw" /\ UNCHANGED job
       \/ c \notin Co /\ NoResume /\ phase' = "forks"

\* The timer of session s has fired: ActorSystem::timeout sent the response.
TimerFires(s) ==
    /\ phase = "idle" /\ s \in due
    /\ due' = due \ {s}
    /\ Answered(s)
    /\ UNCHANGED <<queues, startup, genid, forks, asked, answers, wakeup_list, fate>>

\* The other service answers the call, or the runtime answers for it.
PeerAnswers(s) ==
    /\ phase = "idle" /\ s \in asked
    /\ asked' = asked \ {s}
    /\ Answered(s)
    /\ UNCHANGED <<queues, startup, genid, forks, due, answers, wakeup_list, fate>>

HasDispatch(r) == r \notin Unknown /\ registered

\* The dispatch function runs in a coroutine of its own, which owes the answer.
Begin(r) ==
    /\ HasDispatch(r)
    /\ \E c \in Co :
        /\ CoCreate(c)
        /\ job' = [job EXCEPT ![c] = "dispatch"]
        /\ session_coroutine_id' = [session_coroutine_id EXCEPT ![c] = r]
        /\ Resume(c)
    /\ fate' = [fate EXCEPT ![r] = "begun"]
    /\ UNCHANGED <<deferred, replies>>

\* No protocol: an error is sent if somebody waits.  No dispatch function: the
\* message is freed and no more.
Refuse(r) ==
    /\ ~HasDispatch(r)
    /\ replies' = IF r \in Unknown \cap Calls
                  THEN [replies EXCEPT ![r] = @ + 1] ELSE replies
    /\ fate' = [fate EXCEPT ![r] = "refused"]
    /\ NoResume
    /\ UNCHANGED <<session_coroutine_id, deferred>>

\* Until the start function is done, what has no dispatch function is kept.
Postpone(r) ==
    /\ ~service_started /\ ~HasDispatch(r)
    /\ pending_messages' = Append(pending_messages, r)
    /\ fate' = [fate EXCEPT ![r] = "pending"]
    /\ NoResume
    /\ UNCHANGED answers

RequestArrives(r) ==
    /\ phase = "idle" /\ fate[r] = "unsent"
    /\ \/ Begin(r) /\ phase' = "raw" /\ UNCHANGED pending_messages
       \/ service_started /\ Refuse(r) /\ phase' = "forks" /\ UNCHANGED pending_messages
       \/ Postpone(r) /\ phase' = "forks"
    /\ UNCHANGED <<session_id_coroutine, queues, service_started, registered,
                   backlog, world, wakeup_list>>

-----------------------------------------------------------------------------
(* The loop of dispatch_message *)

\* The oldest fork is resumed.
RunFork ==
    /\ phase \in {"raw", "forks"} /\ stack = <<>> /\ fork_queue # <<>>
    /\ fork_queue' = Tail(fork_queue)
    /\ Resume(Head(fork_queue))
    /\ phase' = "forks"
    /\ UNCHANGED <<session_id_coroutine, wakeup_queue, startup, job, world, answers,
                   wakeup_list, fate>>

\* No fork is left: the coroutines to wake are listed, or all is done.
ListWakeups ==
    /\ phase \in {"raw", "forks"} /\ stack = <<>> /\ fork_queue = <<>>
    /\ wakeup_list' = wakeup_queue
    /\ phase' = IF wakeup_queue = {} THEN "idle" ELSE "wakes"
    /\ UNCHANGED <<tables, queues, startup, coroutines, world, answers, fate>>

\* Mutant: the session of the sleep is not marked.
RunWakeupUnmarked ==
    /\ phase = "wakes" /\ stack = <<>>
    /\ \E c \in wakeup_list :
        /\ wakeup_list' = wakeup_list \ {c}
        /\ wakeup_queue' = wakeup_queue \ {c}
        /\ \/ sleep_session[c] # 0 /\ Resume(c) /\ UNCHANGED job
           \/ sleep_session[c] = 0 /\ NoResume
    /\ UNCHANGED <<session_id_coroutine, fork_queue, startup, world, answers, phase, fate>>

\* Mutant: the coroutine stays in wakeup_queue until the list is done.
RunWakeupKept ==
    /\ phase = "wakes" /\ stack = <<>>
    /\ \E c \in wakeup_list :
        /\ wakeup_list' = wakeup_list \ {c}
        /\ wakeup_queue' = IF wakeup_list' = {} THEN {} ELSE wakeup_queue
        /\ \/ /\ sleep_session[c] # 0
              /\ session_id_coroutine' =
                    [session_id_coroutine EXCEPT ![sleep_session[c]] = Break]
              /\ Resume(c) /\ UNCHANGED job
           \/ sleep_session[c] = 0 /\ NoResume /\ UNCHANGED session_id_coroutine
    /\ UNCHANGED <<fork_queue, startup, world, answers, phase, fate>>

\* One of the list, in the order of pairs(), is resumed with "BREAK" if it is
\* still asleep; its timer will find Break in the table.
RunWakeup ==
    /\ phase = "wakes" /\ stack = <<>>
    /\ \E c \in wakeup_list :
        /\ wakeup_list' = wakeup_list \ {c}
        /\ wakeup_queue' = wakeup_queue \ {c}
        /\ \/ /\ sleep_session[c] # 0
              /\ session_id_coroutine' =
                    [session_id_coroutine EXCEPT ![sleep_session[c]] = Break]
              /\ Resume(c) /\ UNCHANGED job
           \/ sleep_session[c] = 0 /\ NoResume /\ UNCHANGED session_id_coroutine
    /\ UNCHANGED <<fork_queue, startup, world, answers, phase, fate>>

\* The list is done: back to the forks.
WakeupsDone ==
    /\ phase = "wakes" /\ stack = <<>> /\ wakeup_list = {}
    /\ phase' = "forks"
    /\ UNCHANGED <<tables, queues, startup, coroutines, world, answers, wakeup_list, fate>>

-----------------------------------------------------------------------------
(* What the running coroutine may do.  It is not in the library's own loop   *)
(* over the pending messages.                                               *)

Can(op) == op \in Ops /\ stack # <<>> /\ job[Top] # "backlog"
NextSession == genid + 1
Generate == genid < MaxSession /\ genid' = NextSession

\* call, rawcall: the session is in the table before the message is sent.
Call ==
    /\ Can("call") /\ Generate
    /\ Suspend(NextSession)
    /\ asked' = asked \cup {NextSession}
    /\ UNCHANGED <<sleep_session, queues, startup, forks, due, answers, phase,
                   wakeup_list, fate>>

\* sleep, yield and wait differ in the time, which is not modelled, and in
\* what they return.
Pause ==
    /\ Generate
    /\ Suspend(NextSession)
    /\ sleep_session' = [sleep_session EXCEPT ![Top] = NextSession]
    /\ due' = due \cup {NextSession}
    /\ UNCHANGED <<forks, asked>>

Sleep ==
    /\ Can("sleep")
    /\ Pause
    /\ UNCHANGED <<queues, startup, answers, phase, wakeup_list, fate>>

\* timeout: the new coroutine waits for the timer.
Timeout ==
    /\ Can("timeout") /\ Generate
    /\ \E c \in Co :
        /\ CoCreate(c)
        /\ state' = [state EXCEPT ![c] = "new"]
        /\ job' = [job EXCEPT ![c] = "timeout"]
        /\ awaits' = [awaits EXCEPT ![c] = NextSession]
        /\ session_id_coroutine' = [session_id_coroutine EXCEPT ![NextSession] = c]
    /\ due' = due \cup {NextSession}
    /\ UNCHANGED <<stack, sleep_session, queues, startup, forks, asked, answers,
                   phase, wakeup_list, fate>>

Fork ==
    /\ Can("fork") /\ forks < MaxFork
    /\ forks' = forks + 1
    /\ \E c \in Co :
        /\ CoCreate(c)
        /\ state' = [state EXCEPT ![c] = "new"]
        /\ job' = [job EXCEPT ![c] = "fork"]
        /\ fork_queue' = Append(fork_queue, c)
    /\ UNCHANGED <<tables, wakeup_queue, startup, awaits, stack, genid, due, asked,
                   answers, phase, wakeup_list, fate>>

\* wakeup: only a coroutine that is in sleep or wait is marked.
Mark(c) ==
    wakeup_queue' = IF sleep_session[c] # 0 THEN wakeup_queue \cup {c} ELSE wakeup_queue

Wakeup(c) ==
    /\ Can("wakeup") /\ Mark(c)
    /\ UNCHANGED <<tables, fork_queue, startup, coroutines, world, answers, phase,
                   wakeup_list, fate>>

\* ret: one answer, and none for a message without a session.
Ret ==
    LET r == session_coroutine_id[Top] IN
    /\ Can("ret") /\ r # Nil
    /\ session_coroutine_id' = [session_coroutine_id EXCEPT ![Top] = Nil]
    /\ replies' = IF r \in Calls THEN [replies EXCEPT ![r] = @ + 1] ELSE replies
    /\ UNCHANGED <<tables, queues, startup, coroutines, world, deferred, phase,
                   wakeup_list, fate>>

\* ignoreret: the coroutine owes nothing any more.
IgnoreRet ==
    /\ Can("ignoreret") /\ session_coroutine_id[Top] # Nil
    /\ session_coroutine_id' = [session_coroutine_id EXCEPT ![Top] = Nil]
    /\ UNCHANGED <<tables, queues, startup, coroutines, world, deferred, replies,
                   phase, wakeup_list, fate>>

\* Mutant: the coroutine may still answer.
ResponseShared ==
    LET r == session_coroutine_id[Top] IN
    /\ Can("response") /\ r \in Calls
    /\ deferred' = deferred \cup {r}
    /\ UNCHANGED <<tables, queues, startup, coroutines, world, session_coroutine_id,
                   replies, phase, wakeup_list, fate>>

\* response: the debt passes from the coroutine to a function.
Response ==
    LET r == session_coroutine_id[Top] IN
    /\ Can("response") /\ r \in Calls
    /\ session_coroutine_id' = [session_coroutine_id EXCEPT ![Top] = Nil]
    /\ deferred' = deferred \cup {r}
    /\ UNCHANGED <<tables, queues, startup, coroutines, world, replies, phase,
                   wakeup_list, fate>>

\* The function that response returned is called, by any coroutine; a second
\* call raises an error.
Respond(r) ==
    /\ Can("response") /\ r \in deferred
    /\ deferred' = deferred \ {r}
    /\ replies' = [replies EXCEPT ![r] = @ + 1]
    /\ UNCHANGED <<tables, queues, startup, coroutines, world, session_coroutine_id,
                   phase, wakeup_list, fate>>

\* skynet.dispatch, in the start function.
Register ==
    /\ stack # <<>> /\ job[Top] = "start" /\ ~registered
    /\ registered' = TRUE
    /\ UNCHANGED <<tables, queues, service_started, pending_messages, backlog,
                   coroutines, world, answers, phase, wakeup_list, fate>>

-----------------------------------------------------------------------------
(* How a coroutine ends *)

\* Mutant: what it owes is kept.
RecycleOwing(c) ==
    /\ state' = [state EXCEPT ![c] = "pooled"]
    /\ stack' = SubSeq(stack, 1, Len(stack) - 1)
    /\ UNCHANGED <<job, awaits, answers>>

\* Its function returns: what it still owes is forgotten, and it goes to the
\* pool.
Recycle(c) ==
    /\ state' = [state EXCEPT ![c] = "pooled"]
    /\ stack' = SubSeq(stack, 1, Len(stack) - 1)
    /\ session_coroutine_id' = [session_coroutine_id EXCEPT ![c] = Nil]
    /\ UNCHANGED <<job, awaits, deferred, replies>>

Finish ==
    /\ stack # <<>>
    /\ \/ job[Top] \notin {"start", "backlog"}
       \/ job[Top] = "backlog" /\ backlog = <<>>
    /\ Recycle(Top)
    /\ UNCHANGED <<tables, queues, startup, world, phase, wakeup_list, fate>>

\* Mutant: the list is emptied before it is walked.
StartedForgets ==
    /\ stack # <<>> /\ job[Top] = "start"
    /\ service_started' = TRUE
    /\ pending_messages' = <<>>
    /\ job' = [job EXCEPT ![Top] = "backlog"]
    /\ UNCHANGED <<tables, queues, registered, backlog, state, awaits, stack, world,
                   answers, phase, wakeup_list, fate>>

\* The start function returns: dispatch_pending_messages takes the messages.
Started ==
    /\ stack # <<>> /\ job[Top] = "start"
    /\ service_started' = TRUE
    /\ backlog' = pending_messages
    /\ pending_messages' = <<>>
    /\ job' = [job EXCEPT ![Top] = "backlog"]
    /\ UNCHANGED <<tables, queues, registered, state, awaits, stack, world, answers,
                   phase, wakeup_list, fate>>

\* The next of them, inside the coroutine of the start function.
DispatchPending ==
    /\ stack # <<>> /\ job[Top] = "backlog" /\ backlog # <<>>
    /\ backlog' = Tail(backlog)
    /\ Begin(Head(backlog)) \/ Refuse(Head(backlog))
    /\ UNCHANGED <<session_id_coroutine, queues, service_started, pending_messages,
                   registered, world, phase, wakeup_list>>

\* An error that nobody catches ends the coroutine, and suspend raises it
\* again in the one that resumed it.  If that is dispatch_message, only the
\* loop over the forks catches it: after a message or a wakeup it goes up to
\* LuaActor::on_message, which logs it.  An error of the start function frees
\* the pending messages.
Raise ==
    /\ Errors /\ stack # <<>> /\ job[Top] # "backlog"
    /\ state' = [c \in Co |-> IF c \in Resumed THEN "dead" ELSE state[c]]
    /\ stack' = <<>>
    /\ pending_messages' = IF job[Top] = "start" THEN <<>> ELSE pending_messages
    /\ backlog' = <<>>
    /\ IF phase = "forks" THEN UNCHANGED <<phase, wakeup_list>>
                          ELSE phase' = "idle" /\ wakeup_list' = {}
    /\ UNCHANGED <<tables, queues, service_started, registered, job, awaits, world,
                   answers, fate>>

-----------------------------------------------------------------------------
\* The service after skynet.start: the start function waits for a timer, and
\* the script may have registered its dispatch function already.
Init ==
    /\ session_id_coroutine = [s \in Session |-> IF s = 1 THEN Main ELSE Nil]
    /\ session_coroutine_id = [c \in Co |-> Nil]
    /\ sleep_session = [c \in Co |-> 0]
    /\ wakeup_queue = {} /\ fork_queue = <<>>
    /\ service_started = FALSE /\ pending_messages = <<>> /\ backlog = <<>>
    /\ registered \in BOOLEAN
    /\ state = [c \in Co |-> IF c = Main THEN "new" ELSE "none"]
    /\ job = [c \in Co |-> IF c = Main THEN "start" ELSE "none"]
    /\ awaits = [c \in Co |-> IF c = Main THEN 1 ELSE 0]
    /\ stack = <<>>
    /\ phase = "idle" /\ wakeup_list = {}
    /\ genid = 1 /\ forks = 0 /\ due = {1} /\ asked = {}
    /\ fate = [r \in Request |-> "unsent"]
    /\ deferred = {} /\ replies = [r \in Request |-> 0]

Answer == \E s \in Session : TimerFires(s) \/ PeerAnswers(s)
Loop == RunFork \/ ListWakeups \/ RunWakeup \/ WakeupsDone
Operate ==
    \/ Call \/ Sleep \/ Timeout \/ Fork \/ Ret \/ IgnoreRet \/ Response \/ Register
    \/ \E c \in Co : Wakeup(c)
    \/ \E r \in Request : Respond(r)
End == Finish \/ Started \/ DispatchPending \/ Raise

Next ==
    \/ Answer
    \/ \E r \in Request : RequestArrives(r)
    \/ Loop \/ Operate \/ End

Spec == Init /\ [][Next]_vars

-----------------------------------------------------------------------------
(* Properties *)

TypeOK ==
    /\ session_id_coroutine \in [Session -> Co \cup {Nil, Break}]
    /\ session_coroutine_id \in [Co -> Request \cup {Nil}]
    /\ sleep_session \in [Co -> Session \cup {0}]
    /\ wakeup_queue \subseteq Co /\ wakeup_list \subseteq Co
    /\ fork_queue \in Seq(Co) /\ stack \in Seq(Co)
    /\ pending_messages \in Seq(Request) /\ backlog \in Seq(Request)
    /\ service_started \in BOOLEAN /\ registered \in BOOLEAN
    /\ state \in [Co -> {"none", "new", "running", "waiting", "pooled", "dead"}]
    /\ job \in [Co -> {"none", "start", "backlog", "dispatch", "fork", "timeout"}]
    /\ awaits \in [Co -> Session \cup {0}]
    /\ phase \in {"idle", "raw", "forks", "wakes"}
    /\ genid \in Session /\ forks \in 0..MaxFork
    /\ due \subseteq Session /\ asked \subseteq Session
    /\ fate \in [Request -> {"unsent", "pending", "begun", "refused"}]
    /\ deferred \subseteq Calls
    /\ replies \in [Request -> Nat]

Suspended(c) ==
    \/ state[c] = "waiting"
    \/ state[c] = "new" /\ job[c] \in {"start", "timeout"}

\* A coroutine that waits is in session_id_coroutine under the session it
\* yielded for and under no other, and nobody else is in the table: whatever
\* mix of timers, answers, wakeups and errors came before, an answer resumes
\* the call it belongs to, and wakeup finds only coroutines that are asleep.
\* The table has an entry for exactly the sessions whose answer is still to
\* come: no wait is left without an answer, no entry is left behind, and Break
\* is only there for a timer, never for a call.
WaiterHasItsSession ==
    /\ \A c \in Co : Suspended(c) =>
        awaits[c] \in Session /\ session_id_coroutine[awaits[c]] = c
    /\ \A s \in Session : session_id_coroutine[s] \in Co =>
        LET c == session_id_coroutine[s] IN Suspended(c) /\ awaits[c] = s
    /\ \A c \in Co : sleep_session[c] # 0 =>
        state[c] = "waiting" /\ awaits[c] = sleep_session[c]
    /\ \A s \in Session :
        /\ (session_id_coroutine[s] # Nil) <=> s \in due \cup asked
        /\ session_id_coroutine[s] = Break => s \in due

Owing(r) == {c \in Co : session_coroutine_id[c] = r}

\* A request gets at most one answer, and nobody can give a second: the debt is
\* with one coroutine, or with the function of skynet.response, or paid.
ReplyOnce ==
    \A r \in Request :
        Cardinality(Owing(r) \cup (deferred \cap {r})) + replies[r] <= 1

\* A coroutine that came from the pool does not inherit the debt of the request
\* it served before: only the coroutine a request was given to can answer it.
DebtIsTheHandlers ==
    \A c \in Co : session_coroutine_id[c] # Nil =>
        job[c] = "dispatch" /\ state[c] \in {"running", "waiting", "dead"}

\* A request that came before the start function was done is dispatched, or
\* refused, in the message in which the service becomes started.
PendingIsDispatched ==
    service_started /\ phase = "idle" => \A r \in Request : fate[r] # "pending"

\* A coroutine marked by wakeup stays in the wait it was marked in until the
\* mark is taken: no wakeup breaks a later sleep.
WakeupKeepsItsWait ==
    [][\A c \in wakeup_queue \cap wakeup_queue' : awaits'[c] = awaits[c]]_vars

\* Every call, sleep and wait ends.
EveryWaitEnds == \A c \in Co : Suspended(c) ~> ~Suspended(c)

=============================================================================
