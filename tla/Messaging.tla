------------------------------- MODULE Messaging -------------------------------
(***************************************************************************)
(* Services that send one another packed values: the skynet.core module of *)
(* src/lua_binding.cpp, LuaActor (src/lua_actor.cpp), ServiceLogger        *)
(* (src/service_logger.h), the payload of a message from luaseri_pack to   *)
(* the free that ends it (src/skynet.cpp and lualib/skynet.lua), and the   *)
(* names with the cached logger handle of ActorSystem.                     *)
(*                                                                         *)
(* A payload is a malloc'ed buffer that lsend takes from its caller and    *)
(* the receiver frees.  Buffers are numbered in the order of their packing;*)
(* 0 stands for a payload that is a std::string, which frees itself.       *)
(*                                                                         *)
(* Pushing a message and dispatching one are single steps: how the threads *)
(* interleave inside them is the subject of ActorQueue, and which of a     *)
(* service's coroutines runs that of LuaService.  error() and kill(), which*)
(* share logger_handle_, take a step for each access to it; the push that  *)
(* ends an error() goes with the last of them.                             *)
(***************************************************************************)
EXTENDS Integers, Sequences, FiniteSets, SequencesExt

CONSTANTS
  MaxHandle,     \* bound: how many actors are spawned
  Arguments,     \* the argument lists that services pack
  Packs(_),      \* luaseri_pack raises no error for the arguments
  Returns(_),    \* luaseri_unpack gives the arguments back as they were packed
  MaxOps         \* bound: how many buffers are packed (for a CLIENT message it counts twice),
                 \* actors killed, names registered, errors raised, and starts that fail, all
                 \* together

Handles == 1 .. MaxHandle

ASSUME MessagingAssumption ==
  MaxHandle \in Nat /\ MaxHandle >= 2 /\ MaxOps \in Nat

VARIABLES
  actor,           \* actor[h]: the Actor with its Lua state
  box,             \* box[h]: its mailbox
  heap,            \* heap[b]: buffer b
  logger_name,     \* names_["logger"], 0 when there is none
  logger_handle,   \* logger_handle_
  errcall,         \* errcall[h]: the call of error() in progress for h; 0 is monitor_loop
  ops,             \* how many operations that MaxOps bounds there were, packs not counted
  abandoned,       \* history: <<h, session>> of the requests that nobody will answer
  raced            \* history: "logger" was registered under an error() about to store

vars == <<actor, box, heap, logger_name, logger_handle, errcall, ops, abandoned, raced>>

Message(source, session, type, data) ==
  [source |-> source, session |-> session, type |-> type, data |-> data]

\* An actor in a state of its life: "none", "init" (registered, on_init runs), "failed"
\* (on_init failed, still registered), "live", "erased" (killed, no longer registered),
\* "releasing" (told to end) or "dead".  start says whether skynet.start's function ran,
\* and early that a request met the handler of skynet.dispatch before it had.
NewActor(kind, state) ==
  [kind |-> kind, state |-> state, callback |-> FALSE, start |-> "no", early |-> FALSE,
   pending |-> <<>>, waits |-> {}, sessions |-> 0, debts |-> <<>>]

NoCall == [pc |-> "idle", to |-> 0]

\* After bootstrap() of main.cpp: the logger, its name, and the preload service, whose
\* script has called skynet.start.
Init ==
  /\ actor = [h \in Handles |->
       CASE h = 1 -> NewActor("logger", "live")
         [] h = 2 -> [NewActor("lua", "live") EXCEPT !.callback = TRUE]
         [] OTHER -> NewActor("lua", "none")]
  /\ box = [h \in Handles |-> <<>>]
  /\ heap = <<>>
  /\ logger_name = 1 /\ logger_handle = 1
  /\ errcall = [h \in 0 .. MaxHandle |-> NoCall]
  /\ ops = 0 /\ abandoned = {} /\ raced = FALSE

-------------------------------------------------------------------------------
(* Payloads and mailboxes.  Operators take and return the value of heap    *)
(* (hp) and of box (bx).                                                   *)

\* Which of these messages carry buffer b.
Carrying(msgs, b) == {k \in DOMAIN msgs : msgs[k].data = b}

\* free() of the buffers of these messages.
Freed(hp, msgs) ==
  [b \in DOMAIN hp |-> [hp[b] EXCEPT !.frees = @ + Cardinality(Carrying(msgs, b))]]

\* Nobody keeps the pointer to the buffers of these messages, and nobody freed them.
Dropped(hp, msgs, why) ==
  [b \in DOMAIN hp |-> IF Carrying(msgs, b) # {} THEN [hp[b] EXCEPT !.dropped = why] ELSE hp[b]]

\* The argument lists that can be packed, and those of them that unpacking gives back.
CanPack == {args \in Arguments : Packs(args)}
Intact == {args \in CanPack : Returns(args)}

\* What unpacking the buffer gives: the values that were packed, or something else.
Contents(buffer) ==
  IF buffer.frees = 0 /\ buffer.args \in Intact THEN "packed" ELSE "other"

\* luaseri_unpacktrash of the payload of each of these messages that is of the type.
unpacktrash(hp, msgs, type) ==
  LET read(b) == {k \in Carrying(msgs, b) : msgs[k].type = type}
  IN [b \in DOMAIN hp |->
        IF read(b) = {} THEN hp[b]
        ELSE [hp[b] EXCEPT !.got = Contents(hp[b]), !.frees = @ + Cardinality(read(b))]]

\* Those of these messages that are in S, in their order.
Those(msgs, S) ==
  LET among[n \in 0 .. Len(msgs)] ==
        IF n = 0 THEN <<>>
        ELSE IF msgs[n] \in S THEN Append(among[n - 1], msgs[n]) ELSE among[n - 1]
  IN among[Len(msgs)]

\* A message that is refused is answered with an error.
NeedsAnswer(m) == m.session # 0 /\ m.source # 0 /\ m.type \notin {"RESPONSE", "ERROR"}

\* grab_queue finds the queue of h, and it is accepting.
Accepting(h) == h \in Handles /\ actor[h].state \in {"init", "failed", "live"}

Enqueue(bx, h, m) == IF Accepting(h) THEN [bx EXCEPT ![h] = Append(@, m)] ELSE bx

\* Error answers to those of these messages that need one.
Bounced(bx, msgs) ==
  LET from(h) == Those(msgs, {m \in Range(msgs) : NeedsAnswer(m) /\ m.source = h})
  IN [h \in Handles |->
        IF ~Accepting(h) THEN bx[h]
        ELSE bx[h] \o [k \in 1 .. Len(from(h)) |-> Message(0, from(h)[k].session, "ERROR", 0)]]

\* Mutant: a message to an actor that is gone is freed and forgotten.
push_messageSilent(bx, hp, dest, m) ==
  /\ box' = Enqueue(bx, dest, m)
  /\ heap' = IF Accepting(dest) THEN hp ELSE Freed(hp, <<m>>)

push_message(bx, hp, dest, m) ==
  \/ Accepting(dest) /\ box' = Enqueue(bx, dest, m) /\ heap' = hp
  \/ ~Accepting(dest) /\ box' = Bounced(bx, <<m>>) /\ heap' = Freed(hp, <<m>>)

\* Mutant: one message only.
drain_queueOne(bx, hp, h) ==
  LET one == SubSeq(bx[h], 1, IF bx[h] = <<>> THEN 0 ELSE 1)
  IN /\ box' = Bounced([bx EXCEPT ![h] = SubSeq(@, Len(one) + 1, Len(@))], one)
     /\ heap' = Freed(hp, one)

\* drain_queue of the mailbox of h.
drain_queue(bx, hp, h) ==
  /\ box' = Bounced([bx EXCEPT ![h] = <<>>], bx[h])
  /\ heap' = Freed(hp, bx[h])

\* The requests of these messages stay unanswered.
Requests(msgs) == {<<m.source, m.session>> : m \in {x \in Range(msgs) : NeedsAnswer(x)}}

-------------------------------------------------------------------------------
(* ActorSystem::error, step by step, for those that call it while others   *)
(* change logger_handle_, and in one step for the reports that a handler   *)
(* makes.                                                                  *)

Busy(h) == errcall[h].pc # "idle"

Text(h) == Message(h, 0, "ERROR", 0)

\* The load of logger_handle_, and the push to it if there is one.
ErrorLoad(h) ==
  /\ errcall[h].pc = "load"
  /\ \/ /\ logger_handle = 0
        /\ errcall' = [errcall EXCEPT ![h].pc = "find"]
        /\ UNCHANGED <<box, heap>>
     \/ /\ logger_handle # 0
        /\ push_message(box, heap, logger_handle, Text(h))
        /\ errcall' = [errcall EXCEPT ![h] = NoCall]
  /\ UNCHANGED <<actor, logger_name, logger_handle, ops, abandoned, raced>>

\* find_name.  names_ has always had a logger: nothing goes to stderr.
ErrorFind(h) ==
  /\ errcall[h].pc = "find"
  /\ errcall' = [errcall EXCEPT ![h] = [pc |-> "store", to |-> logger_name]]
  /\ UNCHANGED <<actor, box, heap, logger_name, logger_handle, ops, abandoned, raced>>

\* The store of what was found, and the push to it.
ErrorStore(h) ==
  /\ errcall[h].pc = "store"
  /\ logger_handle' = errcall[h].to
  /\ push_message(box, heap, errcall[h].to, Text(h))
  /\ errcall' = [errcall EXCEPT ![h] = NoCall]
  /\ UNCHANGED <<actor, logger_name, ops, abandoned, raced>>

\* n reports of h: what they add to the mailboxes bx, and the handle they leave.
Target == IF logger_handle # 0 THEN logger_handle ELSE logger_name
Reported(bx, h, n) ==
  IF Accepting(Target) THEN [bx EXCEPT ![Target] = @ \o [k \in 1 .. n |-> Text(h)]] ELSE bx
Report(n) == logger_handle' = IF n > 0 THEN Target ELSE logger_handle

-------------------------------------------------------------------------------
(* Operations of skynet.core that the code of a service calls: from on_init*)
(* or from a coroutine, one after another.                                 *)

CanRun(h) ==
  /\ actor[h].kind = "lua" /\ ~Busy(h)
  /\ actor[h].state = "init" \/ (actor[h].state \in {"live", "erased"} /\ actor[h].callback)

Spend == ops + Len(heap) < MaxOps /\ ops' = ops + 1

\* luaseri_pack: the buffer that packing args would make.
Packed(args) == [args |-> args, frees |-> 0, got |-> "nothing", dropped |-> "no"]
Next_buffer == Len(heap) + 1
MayPack == ops + Len(heap) < MaxOps

\* The bound for what is sent of its own accord.
MaySend(type) ==
  /\ ops' = IF type = "CLIENT" THEN ops + 1 ELSE ops
  /\ ops' + Len(heap) < MaxOps

\* lsend with session 0: type CLIENT stands for one that the receiver has no protocol for.
Send(h) ==
  /\ CanRun(h)
  /\ \E dest \in Handles, type \in {"LUA", "CLIENT"}, args \in CanPack :
       /\ MaySend(type)
       /\ push_message(box, Append(heap, Packed(args)), dest, Message(h, 0, type, Next_buffer))
  /\ UNCHANGED <<actor, logger_name, logger_handle, errcall, abandoned, raced>>

\* skynet.call and rawcall: lgenid, an entry in session_id_coroutine, lsend.
Call(h) ==
  /\ CanRun(h) /\ actor[h].state # "init"
  /\ LET s == actor[h].sessions + 1
     IN /\ actor' = [actor EXCEPT ![h].sessions = s, ![h].waits = @ \cup {s}]
        /\ \E dest \in Handles, type \in {"LUA", "CLIENT"}, args \in CanPack :
             /\ MaySend(type)
             /\ push_message(box, Append(heap, Packed(args)), dest, Message(h, s, type, Next_buffer))
  /\ UNCHANGED <<logger_name, logger_handle, errcall, abandoned, raced>>

\* luaseri_pack raises an error in a coroutine that owes nothing: suspend reports it, and
\* so does on_message.
PackRaises(h) ==
  /\ CanRun(h) /\ actor[h].state # "init" /\ Spend
  /\ CanPack # Arguments
  /\ box' = Reported(box, h, 2) /\ Report(2)
  /\ UNCHANGED <<actor, heap, logger_name, errcall, abandoned, raced>>

\* lredirect in the name of the sender of a request that h has not answered.
Redirect(h) ==
  /\ CanRun(h)
  /\ \E k \in DOMAIN actor[h].debts, dest \in Handles, args \in CanPack, ignore \in BOOLEAN :
       LET d == actor[h].debts[k]
       IN /\ MayPack
          /\ push_message(box, Append(heap, Packed(args)), dest, Message(d[1], d[2], "LUA", Next_buffer))
          /\ actor' = IF ignore THEN [actor EXCEPT ![h].debts = RemoveAt(@, k)] ELSE actor
  /\ UNCHANGED <<logger_name, logger_handle, errcall, ops, abandoned, raced>>

\* skynet.ret of a pack: a request with session 0 gets no answer, and ltrash frees the pack.
Ret(h) ==
  /\ CanRun(h)
  /\ \E k \in DOMAIN actor[h].debts, args \in CanPack :
       LET d == actor[h].debts[k]
           hp == Append(heap, Packed(args))
           m == Message(h, d[2], "RESPONSE", Next_buffer)
       IN /\ MayPack
          /\ \/ d[2] # 0 /\ push_message(box, hp, d[1], m)
             \/ d[2] = 0 /\ heap' = Freed(hp, <<m>>) /\ UNCHANGED box
          /\ actor' = [actor EXCEPT ![h].debts = RemoveAt(@, k)]
  /\ UNCHANGED <<logger_name, logger_handle, errcall, ops, abandoned, raced>>

\* The function that skynet.response returns, called with false.
RespondError(h) ==
  /\ CanRun(h)
  /\ \E k \in DOMAIN actor[h].debts :
       LET d == actor[h].debts[k]
       IN /\ d[2] # 0
          /\ push_message(box, heap, d[1], Message(h, d[2], "ERROR", 0))
          /\ actor' = [actor EXCEPT ![h].debts = RemoveAt(@, k)]
  /\ UNCHANGED <<logger_name, logger_handle, errcall, ops, abandoned, raced>>

\* The handler ends without an answer: "Maybe forgot response".
Forget(h) ==
  /\ CanRun(h)
  /\ \E k \in DOMAIN actor[h].debts :
       LET d == actor[h].debts[k]
       IN /\ actor' = [actor EXCEPT ![h].debts = RemoveAt(@, k)]
          /\ abandoned' = IF d[2] # 0 THEN abandoned \cup {d} ELSE abandoned
          /\ LET n == IF d[2] # 0 THEN 1 ELSE 0 IN box' = Reported(box, h, n) /\ Report(n)
  /\ UNCHANGED <<heap, logger_name, errcall, ops, raced>>

\* lerror, and monitor_loop's report of a worker that may be stuck.
Error(h) ==
  /\ Spend
  /\ (h = 0 /\ ~Busy(0)) \/ (h # 0 /\ CanRun(h))
  /\ errcall' = [errcall EXCEPT ![h].pc = "load"]
  /\ UNCHANGED <<actor, box, heap, logger_name, logger_handle, abandoned, raced>>

\* Mutant: the cached handle is left to the next error().
register_nameUncached(handle) ==
  /\ logger_name' = handle
  /\ UNCHANGED logger_handle

\* register_name("logger", handle): one critical section of names_mutex_.
register_name(handle) ==
  /\ logger_name' = handle
  /\ logger_handle' = handle

\* lreg and lnameservice.
Register(h) ==
  /\ CanRun(h) /\ Spend
  /\ \E handle \in Handles : actor[handle].state # "none" /\ register_name(handle)
  /\ raced' = (raced \/ \E k \in DOMAIN errcall : errcall[k].pc = "store")
  /\ UNCHANGED <<actor, box, heap, errcall, abandoned>>

-------------------------------------------------------------------------------
(* The life of an actor.                                                   *)

\* spawn, by lnewservice or by C++ code, up to the call of on_init.
Spawn(h) ==
  /\ actor[h].state = "none"
  /\ h - 1 \in Handles => actor[h - 1].state # "none"
  /\ \E kind \in {"lua", "logger"} : actor' = [actor EXCEPT ![h] = NewActor(kind, "init")]
  /\ UNCHANGED <<box, heap, logger_name, logger_handle, errcall, ops, abandoned, raced>>

\* on_init ends well; a Lua script has called lcallback, or has not.
InitDone(h) ==
  /\ actor[h].state = "init" /\ ~Busy(h)
  /\ \E callback \in BOOLEAN :
       /\ callback => actor[h].kind = "lua"
       /\ actor' = [actor EXCEPT ![h].state = "live", ![h].callback = callback]
  /\ UNCHANGED <<box, heap, logger_name, logger_handle, errcall, ops, abandoned, raced>>

\* LuaActor::on_init: no Lua state, no loader, or an error in the script.
InitFails(h) ==
  /\ actor[h].state = "init" /\ actor[h].kind = "lua" /\ ~Busy(h) /\ Spend
  /\ actor' = [actor EXCEPT ![h].state = "failed"]
  /\ errcall' = [errcall EXCEPT ![h].pc = "load"]
  /\ UNCHANGED <<box, heap, logger_name, logger_handle, abandoned, raced>>

\* The end of an actor: drain_queue, then on_destroy, which closes the Lua state.
Destroyed(h) ==
  /\ drain_queue(box, Dropped(heap, actor[h].pending, "pending"), h)
  /\ abandoned' = abandoned \cup Requests(actor[h].pending)
                          \cup {d \in Range(actor[h].debts) : d[2] # 0}
  /\ actor' = [actor EXCEPT ![h] = NewActor(@.kind, "dead")]

\* spawn after a failed on_init.
SpawnFails(h) ==
  /\ actor[h].state = "failed" /\ ~Busy(h)
  /\ Destroyed(h)
  /\ UNCHANGED <<logger_name, logger_handle, errcall, ops, raced>>

\* lexit, lkill and the kills of C++ code: the entry of the shard.
Kill(h) ==
  /\ actor[h].state = "live" /\ Spend
  /\ actor' = [actor EXCEPT ![h].state = "erased"]
  /\ UNCHANGED <<box, heap, logger_name, logger_handle, errcall, abandoned, raced>>

\* kill: logger_handle_ is reset if it is this actor's, and the flags are set.
KillResets(h) ==
  /\ actor[h].state = "erased"
  /\ logger_handle' = IF logger_handle = h THEN 0 ELSE logger_handle
  /\ actor' = [actor EXCEPT ![h].state = "releasing"]
  /\ UNCHANGED <<box, heap, logger_name, errcall, ops, abandoned, raced>>

\* kill or the last worker out of dispatch_queue.
Destroy(h) ==
  /\ actor[h].state = "releasing" /\ ~Busy(h)
  /\ Destroyed(h)
  /\ UNCHANGED <<logger_name, logger_handle, errcall, ops, raced>>

-------------------------------------------------------------------------------
(* on_message of LuaActor, ServiceLogger, and skynet.lua's dispatch.       *)

CanDispatch(h) == actor[h].state \in {"live", "erased"} /\ box[h] # <<>> /\ ~Busy(h)
HasCallback(h) == actor[h].kind = "lua" /\ actor[h].callback

Popped(h) == [box EXCEPT ![h] = Tail(@)]

\* ServiceLogger::on_message writes a line, or ignores the message.
DispatchLogger(h) ==
  /\ CanDispatch(h) /\ actor[h].kind = "logger"
  /\ LET m == Head(box[h])
     IN /\ heap' = Dropped(heap, <<m>>, "logger")
        /\ abandoned' = abandoned \cup Requests(<<m>>)
  /\ box' = Popped(h)
  /\ UNCHANGED <<actor, logger_name, logger_handle, errcall, ops, raced>>

\* Mutant: without a callback nothing is done.
on_messageEmpty(h) ==
  /\ CanDispatch(h) /\ actor[h].kind = "lua" /\ ~actor[h].callback
  /\ abandoned' = abandoned \cup Requests(<<Head(box[h])>>)
  /\ box' = Popped(h)
  /\ UNCHANGED <<actor, heap, logger_name, logger_handle, errcall, ops, raced>>

\* LuaActor::on_message without a callback.
DispatchNoCallback(h) ==
  /\ CanDispatch(h) /\ actor[h].kind = "lua" /\ ~actor[h].callback
  /\ heap' = Freed(heap, <<Head(box[h])>>)
  /\ abandoned' = abandoned \cup Requests(<<Head(box[h])>>)
  /\ box' = Popped(h)
  /\ UNCHANGED <<actor, logger_name, logger_handle, errcall, ops, raced>>

\* What LuaActor::on_message gives to Lua: a pointer for the types that may have one.
Visible(m) == IF m.type \in {"LUA", "RESPONSE"} THEN m ELSE [m EXCEPT !.data = 0]

\* raw_dispatch_message of requests: those of a known protocol are unpacked for the
\* handler, which owes an answer; one of an unknown protocol is answered with an error,
\* or reported when it has no session.
Known(msgs) == Those(msgs, {m \in Range(msgs) : m.type = "LUA"})
Unknown(msgs) == Those(msgs, {m \in Range(msgs) : m.type # "LUA"})
Unasked(msgs) == Those(msgs, {m \in Range(msgs) : m.type # "LUA" /\ m.session = 0})

Handle(h, bx, hp, msgs, self) ==
  /\ heap' = unpacktrash(hp, msgs, "LUA")
  /\ LET n == Len(Unasked(msgs))
     IN box' = Reported(Bounced(bx, Unknown(msgs)), h, n) /\ Report(n)
  /\ actor' = [actor EXCEPT ![h] = [self EXCEPT
       !.debts = @ \o [k \in 1 .. Len(Known(msgs)) |-> <<Known(msgs)[k].source, Known(msgs)[k].session>>]]]

\* A request before skynet.start's function has ended, or after it failed, for which
\* skynet.dispatch has registered nothing yet.
DispatchEarly(h) ==
  /\ CanDispatch(h) /\ HasCallback(h) /\ actor[h].start # "ok"
  /\ LET m == Head(box[h])
     IN /\ m.type = "CLIENT" \/ (m.type = "LUA" /\ ~actor[h].early)
        /\ heap' = IF m = Visible(m) THEN heap ELSE Dropped(heap, <<m>>, "type")
        /\ actor' = [actor EXCEPT ![h].pending = Append(@, Visible(m))]
  /\ box' = Popped(h)
  /\ UNCHANGED <<logger_name, logger_handle, errcall, ops, abandoned, raced>>

\* A request after the start, when LUA has its handler, or of LUA when it had it earlier.
DispatchRequest(h) ==
  /\ CanDispatch(h) /\ HasCallback(h)
  /\ LET m == Head(box[h])
         hp == IF m = Visible(m) THEN heap ELSE Dropped(heap, <<m>>, "type")
     IN /\ m.type = "LUA" \/ (m.type = "CLIENT" /\ actor[h].start = "ok")
        /\ Handle(h, Popped(h), hp, <<Visible(m)>>,
                  [actor[h] EXCEPT !.early = actor[h].start # "ok"])
  /\ UNCHANGED <<logger_name, errcall, ops, abandoned, raced>>

\* A response resumes the call that waits for its session; another is reported.
DispatchResponse(h) ==
  /\ CanDispatch(h) /\ HasCallback(h)
  /\ LET m == Head(box[h])
         waiting == m.session \in actor[h].waits
     IN /\ m.type = "RESPONSE"
        /\ heap' = IF waiting THEN unpacktrash(heap, <<m>>, "RESPONSE") ELSE Dropped(heap, <<m>>, "session")
        /\ actor' = [actor EXCEPT ![h].waits = @ \ {m.session}]
        /\ LET n == IF waiting THEN 0 ELSE 1 IN box' = Reported(Popped(h), h, n) /\ Report(n)
  /\ UNCHANGED <<logger_name, errcall, ops, abandoned, raced>>

DispatchError(h) ==
  /\ CanDispatch(h) /\ HasCallback(h)
  /\ Head(box[h]).type = "ERROR"
  /\ actor' = [actor EXCEPT ![h].waits = @ \ {Head(box[h]).session}]
  /\ box' = Popped(h)
  /\ UNCHANGED <<heap, logger_name, logger_handle, errcall, ops, abandoned, raced>>

\* skynet.start's timer: start_func returns, and the early requests are dispatched.
Start(h) ==
  /\ CanRun(h) /\ actor[h].callback /\ actor[h].start = "no"
  /\ Handle(h, box, heap, actor[h].pending,
            [actor[h] EXCEPT !.start = "ok", !.early = FALSE, !.pending = <<>>])
  /\ UNCHANGED <<logger_name, errcall, ops, abandoned, raced>>

\* start_func raises an error: trash_pending_messages, and two reports.
StartFails(h) ==
  /\ CanRun(h) /\ actor[h].callback /\ actor[h].start = "no" /\ Spend
  /\ heap' = Freed(heap, actor[h].pending)
  /\ abandoned' = abandoned \cup Requests(actor[h].pending)
  /\ actor' = [actor EXCEPT ![h].start = "failed", ![h].pending = <<>>]
  /\ box' = Reported(box, h, 2) /\ Report(2)
  /\ UNCHANGED <<logger_name, errcall, raced>>

-------------------------------------------------------------------------------

Next ==
  \/ \E h \in Handles :
       \/ Send(h) \/ Call(h) \/ PackRaises(h) \/ Redirect(h)
       \/ Ret(h) \/ RespondError(h) \/ Forget(h) \/ Register(h)
       \/ Spawn(h) \/ InitDone(h) \/ InitFails(h) \/ SpawnFails(h)
       \/ Kill(h) \/ KillResets(h) \/ Destroy(h)
       \/ DispatchLogger(h) \/ DispatchNoCallback(h) \/ DispatchEarly(h)
       \/ DispatchRequest(h) \/ DispatchResponse(h) \/ DispatchError(h)
       \/ Start(h) \/ StartFails(h)
  \/ \E h \in 0 .. MaxHandle :
       Error(h) \/ ErrorLoad(h) \/ ErrorFind(h) \/ ErrorStore(h)

Spec == Init /\ [][Next]_vars

-------------------------------------------------------------------------------

\* A message of a mailbox or of pending_messages.
Messages == [source : 0 .. MaxHandle, session : 0 .. MaxOps,
             type : {"LUA", "CLIENT", "RESPONSE", "ERROR"}, data : 0 .. MaxOps]

Actors == [kind : {"lua", "logger"},
           state : {"none", "init", "failed", "live", "erased", "releasing", "dead"},
           callback : BOOLEAN, start : {"no", "ok", "failed"}, early : BOOLEAN,
           pending : Seq(Messages), waits : SUBSET (1 .. MaxOps), sessions : 0 .. MaxOps,
           debts : Seq((0 .. MaxHandle) \X (0 .. MaxOps))]

Buffers == [args : CanPack, frees : Nat, got : {"nothing", "packed", "other"},
            dropped : {"no", "pending", "logger", "type", "session"}]

ErrorCalls == [pc : {"idle", "load", "find", "store"}, to : 0 .. MaxHandle]

\* The state has its shape; nothing is in the mailbox of an actor that was not spawned,
\* or was destroyed (drain_queue), and messages name only buffers that were packed.
TypeOK ==
  /\ actor \in [Handles -> Actors] /\ box \in [Handles -> Seq(Messages)]
  /\ heap \in Seq(Buffers)
  /\ errcall \in [0 .. MaxHandle -> ErrorCalls]
  /\ {logger_name, logger_handle} \subseteq 0 .. MaxHandle
  /\ ops \in 0 .. MaxOps /\ raced \in BOOLEAN
  /\ abandoned \subseteq (0 .. MaxHandle) \X (0 .. MaxOps)
  /\ \A h \in Handles :
       /\ actor[h].state \in {"none", "dead"} => box[h] = <<>>
       /\ actor[h].waits \subseteq 1 .. actor[h].sessions
       /\ \A m \in Range(box[h]) \cup Range(actor[h].pending) : m.data \in 0 .. Len(heap)

\* How many messages of live actors, in a mailbox or kept for later, carry buffer b.
Carriers(b) ==
  LET Of(h) == {<<h, "box", k>> : k \in Carrying(box[h], b)}
               \cup {<<h, "pending", k>> : k \in Carrying(actor[h].pending, b)}
  IN Cardinality(UNION {Of(h) : h \in {x \in Handles : actor[x].state # "dead"}})

\* A buffer that luaseri_pack made is owned by exactly one message, or was freed exactly
\* once, or was dropped by a receiver that cannot free it (lsend's "Transfer ownership:
\* receiver frees"): never freed twice, freed under a message or lost on the way, whoever
\* is killed or fails meanwhile.
BuffersAreOwned ==
  \A b \in DOMAIN heap :
    Carriers(b) + heap[b].frees + (IF heap[b].dropped = "no" THEN 0 ELSE 1) = 1

\* The values that a handler or a caller gets are those that were packed: luaseri_pack
\* and luaseri_unpack are inverse to each other, whatever border lua_rawlen gives for a
\* table, and no buffer is read after it was freed.
ReceivedAsSent ==
  \A b \in DOMAIN heap : heap[b].got \in {"nothing", "packed"}

\* Something is on its way that will end the call of h with session s.
IsCarried(h, s) ==
  \/ \E k \in Handles :
       /\ actor[k].state \notin {"none", "dead"}
       /\ \/ \E m \in Range(box[k]) \cup Range(actor[k].pending) :
               NeedsAnswer(m) /\ m.source = h /\ m.session = s
          \/ <<h, s>> \in Range(actor[k].debts)
  \/ \E m \in Range(box[h]) : m.type \in {"RESPONSE", "ERROR"} /\ m.session = s

\* A coroutine that waits for the answer of a call (skynet.call) waits for something: the
\* request, a handler that owes the answer, or the answer is somewhere, unless the request
\* was given up by its receiver.  No kill or failed start in between loses it silently.
CallIsCarried ==
  \A h \in Handles : actor[h].state = "live" =>
    \A s \in actor[h].waits : IsCarried(h, s) \/ <<h, s>> \in abandoned

\* error()'s cached handle is that of the actor named "logger", or nothing: neither a
\* kill nor a new registration leaves an old one behind, except a registration under an
\* error() that has looked the old name up and not yet stored it.
LoggerHandleFresh == raced \/ logger_handle \in {0, logger_name}

=============================================================================
