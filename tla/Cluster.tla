-------------------------------- MODULE Cluster --------------------------------
(***************************************************************************)
(* Requests between two nodes of a cluster: service/clustersender.lua on   *)
(* the channel of lualib/skynet/socketchannel.lua (in its session mode), a *)
(* TCP connection, and clusterd.lua of the other node.                     *)
(*                                                                         *)
(* An action of clusterd is what it does with one message, until all its   *)
(* coroutines wait again.  The sender takes a message when the coroutines  *)
(* that the last one made ready have run, one action each, in any order;   *)
(* but when one of them raises an error that nobody catches, the message   *)
(* ends there, and those behind it stay marked until another one comes     *)
(* (dispatch_message in skynet.lua; see also LuaService).                  *)
(*                                                                         *)
(* A connection hands over packets in order and whole; it may be cut at    *)
(* any time, and either end sees the end of the stream after any prefix of *)
(* what was sent.                                                          *)
(***************************************************************************)
EXTENDS ClusterWire, FiniteSets

CONSTANTS
  FirstSessions, \* sessions the sender has reached when the model starts
  MaxRequests,   \* requests and pushes that reach the sender
  MaxConns,      \* connections that come about
  MAX_RETRY,     \* attempts of a request to connect: 10 in the code
  MaxCommands,   \* changenode, register and unregister commands
  Handles,       \* services of the remote node
  Sizes,         \* lengths of the payloads of requests
  ReplySizes     \* and of their replies

ASSUME ClusterAssumption ==
  /\ FirstSessions \subseteq 1 .. INT32_MAX
  /\ MaxRequests \in Nat /\ MaxConns \in Nat /\ MAX_RETRY \in Nat \ {0}
  /\ MaxCommands \in Nat
  /\ Handles \subseteq Nat \ {0} /\ Sizes \subseteq Nat \ {0} /\ ReplySizes \subseteq Nat \ {0}

Requests == 1 .. MaxRequests
Conns == 1 .. MaxConns
Sessions == 1 .. INT32_MAX

\* Addresses of requests: the query of the one name, the name, or a handle.
QUERY == 0
NAME == 1000
Addresses == {QUERY, NAME} \cup Handles
isname(addr) == addr = NAME

\* A byte says who it comes from (a request, the service that answers it or fails, or
\* clusterd itself), for whom, and its place.
Payload(from, n, size) == [i \in 1 .. size |-> <<from, n, i>>]
Refusal == Payload("clusterd", 0, 1)

\* The result of a request that raised an error, and of one that has none yet.
Error == Payload("error", 0, 1)
NoResult == Payload("none", 0, 1)

VARIABLES
  session,    \* clustersender: the session of the next request
  channel,    \* the channel object, see Init
  wakeup,     \* the sender's wakeup_queue, and what is left of its wakeup_list
  req,        \* the coroutines of command.req and command.push
  link,       \* the connections with their two ends
  clusterd,   \* the remote node: names, name cache, calls in progress, its listener
  delivered,  \* what clusterd sent to services, in order
  stranded,   \* requests that changehost left waiting for a closed connection
  crashed,    \* the process of the sender is gone
  commands    \* how many there were

vars == <<session, channel, wakeup, req, link, clusterd, delivered, stranded, crashed, commands>>

\* A coroutine of the sender has the number of its request or push; 0 is one of
\* command.changenode.
CHANGENODE == 0

NewRequest ==
  [state |-> "none", is_push |-> FALSE, addr |-> QUERY, msg |-> <<>>, session |-> 0,
   result_data |-> <<>>, result |-> NoResult]

\* A connection: the packets on their way, whether each end has not closed it yet,
\* whether it is cut, and clusterd's large_request of it.
NewLink ==
  [up |-> <<>>, down |-> <<>>, client |-> FALSE, server |-> FALSE, cut |-> FALSE,
   large_request |-> <<>>]

\* The channel: conn_id (0 is nil), who is in the loop of block_connect and which
\* connection its attempt came to (0 is none), who waits for that, attempts that failed,
\* and __thread.  The first connection has the id 1, which is also that of clusterd's
\* listener, when nothing in the process accepted one before.
Init ==
  /\ session \in FirstSessions
  /\ channel = [conn_id |-> 0, connecting |-> None, opened |-> 0, waiting |-> {}, retry |-> 0, thread |-> <<>>]
  /\ wakeup = [queue |-> {}, list |-> {}]
  /\ req = [r \in Requests |-> NewRequest]
  /\ link = [c \in Conns |-> NewLink]
  /\ \E first \in {1, 2} :
       clusterd = [register_name |-> 0, register_name_cache |-> 0, calls |-> {},
                   listening |-> TRUE, first_id |-> first]
  /\ delivered = <<>> /\ stranded = {} /\ crashed = FALSE /\ commands = 0

Connected == channel.conn_id # 0
Connecting == channel.connecting # None

-------------------------------------------------------------------------------
(* Messages of the sender, and the loop at the end of each.                *)

\* The sender takes a message, and has resumed everyone that the last one made ready.
TakesMessage == ~crashed /\ wakeup.list = {}

\* The end of a message that marks these: the loop finds them and all that are marked.
Marks(cos) == wakeup' = [queue |-> {}, list |-> wakeup.queue \cup cos]

\* The loop resumed co, which marked these.  An error leaves the loop.
Resumed(co, cos, raises) ==
  LET rest == wakeup.list \ {co}
      queue == wakeup.queue \cup cos
  IN wakeup' = CASE raises -> [queue |-> queue \cup rest, list |-> {}]
                 [] ~raises /\ rest # {} -> [queue |-> queue, list |-> rest]
                 [] ~raises /\ rest = {} -> [queue |-> {}, list |-> queue]

\* A message that does nothing by itself: the late event of a closed connection, a timer.
OtherMessage ==
  /\ TakesMessage /\ wakeup.queue # {}
  /\ Marks({})
  /\ UNCHANGED <<session, channel, req, link, clusterd, delivered, stranded, crashed, commands>>

-------------------------------------------------------------------------------
(* clustersender and its channel.                                          *)

Without(f, s) == [x \in DOMAIN f \ {s} |-> f[x]]
With(f, s, v) == [x \in DOMAIN f \cup {s} |-> IF x = s THEN v ELSE f[x]]

Packets(r) == packrequest(req[r].addr, req[r].session, req[r].msg, req[r].is_push).packets

\* The rest of channel:request once block_connect returned: everything is sent, and a
\* request (not a push) waits for the response with its session.
Sent(r, q) == [q EXCEPT !.state = IF q.is_push THEN "done" ELSE "wait"]
push_response(thread, r, q) == IF q.is_push THEN thread ELSE With(thread, q.session, r)

\* Mutant: a push advances the session never, a request only when it is large.
nextSessionStays(s, packed, is_push) == IF packed.padding THEN packed.new_session ELSE s

\* send_request and command.push: a small push leaves the session as it is.
next_session(s, packed, is_push) ==
  IF is_push /\ ~packed.padding THEN s ELSE packed.new_session

\* command.req and command.push up to where they wait: for the response, for the
\* coroutine that connects, or for the connection they start themselves.
Request(r, addr, size, is_push) ==
  LET q == [NewRequest EXCEPT !.is_push = is_push, !.addr = addr, !.session = session,
                              !.msg = Payload("request", r, size)]
      packed == packrequest(addr, session, q.msg, is_push)
      c == channel.conn_id
  IN /\ TakesMessage /\ req[r].state = "none" /\ \A s \in 1 .. r - 1 : req[s].state # "none"
     /\ addr = QUERY => size = 1 /\ ~is_push
     /\ session' = next_session(session, packed, is_push)
     /\ IF Connected
        THEN /\ req' = [req EXCEPT ![r] = Sent(r, q)]
             /\ link' = [link EXCEPT ![c].up = IF link[c].cut THEN @ ELSE @ \o packed.packets]
             /\ channel' = [channel EXCEPT !.thread = push_response(@, r, q)]
        ELSE /\ req' = [req EXCEPT ![r] = [q EXCEPT !.state = "connect"]]
             /\ channel' = IF Connecting THEN [channel EXCEPT !.waiting = @ \cup {r}]
                           ELSE [channel EXCEPT !.connecting = Some(r), !.retry = 0]
             /\ UNCHANGED link
     /\ Marks({})
     /\ UNCHANGED <<clusterd, delivered, stranded, crashed, commands>>

\* socket.connect waits, for an event that has not come.
Attempting == Connecting /\ channel.connecting[1] \notin wakeup.queue

\* The event "open": the remote node has accepted.
ConnectOk(c) ==
  /\ TakesMessage /\ Attempting /\ clusterd.listening
  /\ ~link[c].cut /\ ~link[c].client /\ \A d \in 1 .. c - 1 : link[d].client \/ link[d].cut
  /\ link' = [link EXCEPT ![c].client = TRUE, ![c].server = TRUE]
  /\ channel' = [channel EXCEPT !.opened = c]
  /\ Marks({channel.connecting[1]})
  /\ UNCHANGED <<session, req, clusterd, delivered, stranded, crashed, commands>>

\* The event "close" of a connection that did not come about.
ConnectFails ==
  /\ TakesMessage /\ Attempting
  /\ Marks({channel.connecting[1]})
  /\ UNCHANGED <<session, channel, req, link, clusterd, delivered, stranded, crashed, commands>>

\* The event "close" of a connection that was opened, when who connects is still marked.
OpenedEnds(c) ==
  /\ TakesMessage /\ link[c].cut /\ channel.opened = c
  /\ channel' = [channel EXCEPT !.opened = 0]
  /\ link' = [link EXCEPT ![c].client = FALSE, ![c].down = <<>>]
  /\ Marks({})
  /\ UNCHANGED <<session, req, clusterd, delivered, stranded, crashed, commands>>

\* What a request or push sends on a connection when block_connect has returned.
Sends(r, c) ==
  /\ req' = [req EXCEPT ![r] = Sent(r, @)]
  /\ link' = [link EXCEPT ![c].up = IF link[c].cut THEN @ ELSE @ \o Packets(r)]

\* An error: command.req catches it, command.push and command.changenode do not.
Fails(co) ==
  req' = [r \in Requests |-> IF r = co THEN [req[r] EXCEPT !.state = "done", !.result = Error] ELSE req[r]]
Catches(co) == co # CHANGENODE /\ ~req[co].is_push

\* try_connect returns true: the end of block_connect and of what is behind it.
Connects(co) ==
  LET connected == [channel EXCEPT !.conn_id = channel.opened, !.connecting = None, !.opened = 0,
                                   !.waiting = {}, !.retry = 0]
  IN /\ channel.connecting = Some(co) /\ channel.opened # 0
     /\ IF co = CHANGENODE
        THEN channel' = connected /\ UNCHANGED <<req, link>>
        ELSE /\ Sends(co, channel.opened)
             /\ channel' = [connected EXCEPT !.thread = push_response(@, co, req[co])]
     /\ Resumed(co, channel.waiting, FALSE)

\* try_connect returns false: a pause and the next attempt, or the end of them.
GivesUp(co) ==
  LET attempts == IF co = CHANGENODE THEN 1 ELSE MAX_RETRY
  IN /\ channel.connecting = Some(co) /\ channel.opened = 0
     /\ IF channel.retry + 1 < attempts
        THEN /\ channel' = [channel EXCEPT !.retry = @ + 1]
             /\ Resumed(co, {}, FALSE)
             /\ UNCHANGED req
        ELSE /\ channel' = [channel EXCEPT !.connecting = None, !.waiting = {}, !.retry = 0]
             /\ Resumed(co, channel.waiting, ~Catches(co))
             /\ Fails(co)
     /\ UNCHANGED link

\* Who waited for the connection sends on it, whatever became of it: on the connection
\* nil, which is an error.
GoesOn(r) ==
  /\ channel.connecting # Some(r) /\ req[r].state = "connect"
  /\ IF Connected
     THEN /\ Sends(r, channel.conn_id)
          /\ channel' = [channel EXCEPT !.thread = push_response(@, r, req[r])]
          /\ Resumed(r, {}, FALSE)
     ELSE /\ Fails(r)
          /\ Resumed(r, {}, ~Catches(r))
          /\ UNCHANGED <<channel, link>>

\* Who waited for a response that will not come.
Raises(r) ==
  /\ req[r].state = "closed"
  /\ Fails(r)
  /\ Resumed(r, {}, FALSE)
  /\ UNCHANGED <<channel, link>>

\* One round of the loop at the end of a message.
Resume(co) ==
  /\ ~crashed /\ co \in wakeup.list
  /\ Connects(co) \/ GivesUp(co) \/ (co \in Requests /\ (GoesOn(co) \/ Raises(co)))
  /\ UNCHANGED <<session, clusterd, delivered, stranded, crashed, commands>>

\* close_channel_socket: socket.close forgets the connection without waking its reader.
close_channel_socket(l) ==
  [c \in Conns |-> IF c = channel.conn_id
                   THEN [l[c] EXCEPT !.client = FALSE, !.cut = TRUE, !.down = <<>>] ELSE l[c]]

\* Those who wait for a response.
Awaiting == {channel.thread[s] : s \in DOMAIN channel.thread}

\* Mutant: the table is emptied and nobody marked.
wakeup_allForgets(q) == req' = q /\ Marks({})

\* wakeup_all: every waiting request is told of the error and marked.
wakeup_all(q) ==
  /\ req' = [r \in Requests |-> IF r \in Awaiting THEN [q[r] EXCEPT !.state = "closed"] ELSE q[r]]
  /\ Marks(Awaiting)

\* command.changenode without a host: channel:close.
CloseChannel ==
  /\ TakesMessage /\ commands < MaxCommands
  /\ commands' = commands + 1
  /\ link' = close_channel_socket(link)
  /\ wakeup_all(req)
  /\ channel' = [channel EXCEPT !.conn_id = 0, !.thread = <<>>]
  /\ UNCHANGED <<session, clusterd, delivered, stranded, crashed>>

\* command.changenode with a host: changehost, then connect(true), which only waits when
\* somebody is connecting already.  The requests in thread stay there.
ChangeHost ==
  /\ TakesMessage /\ commands < MaxCommands
  /\ commands' = commands + 1
  /\ link' = close_channel_socket(link)
  /\ channel' = IF Connecting THEN channel
                ELSE [channel EXCEPT !.conn_id = 0, !.connecting = Some(CHANGENODE), !.retry = 0]
  /\ stranded' = stranded \cup Awaiting
  /\ Marks({})
  /\ UNCHANGED <<session, req, clusterd, delivered, crashed>>

\* The reader sees the end of the stream: read_response raises in dispatch_by_session.
ClientClose(c) ==
  /\ TakesMessage /\ link[c].cut /\ channel.conn_id = c
  /\ link' = close_channel_socket(link)
  /\ wakeup_all(req)
  /\ channel' = [channel EXCEPT !.conn_id = 0, !.thread = <<>>]
  /\ UNCHANGED <<session, clusterd, delivered, stranded, crashed, commands>>

\* The end of command.req: what channel:request returned is the reply, a table of parts
\* after lconcat, of which nothing is the empty reply.  An error is raised.
Outcome(ok, result) ==
  CASE ~ok -> [result |-> Error, crash |-> FALSE]
    [] ok /\ Len(result) = 1 /\ ~IsNumber(result[1]) -> [result |-> result[1].str, crash |-> FALSE]
    [] ok /\ ~(Len(result) = 1 /\ ~IsNumber(result[1])) ->
         LET whole == lconcat(result)
         IN [result |-> IF whole.outcome = "crash" THEN Error ELSE whole.msg,
             crash |-> whole.outcome = "crash"]

\* Mutant: whoever waited first is resumed.
waiterFirst(s) ==
  IF channel.thread = <<>> THEN 0
  ELSE channel.thread[CHOOSE t \in DOMAIN channel.thread : \A u \in DOMAIN channel.thread : t <= u]

\* self.__thread[session]; 0 is nil.
waiter(s) == IF s \in DOMAIN channel.thread THEN channel.thread[s] ELSE 0

\* One round of dispatch_by_session, and the requester that it resumes.  While there is a
\* connection nobody stays marked (TypeOK), so that both run in the message of the data.
Receive(c) ==
  LET p == lunpackresponse(Head(link[c].down))
      r == waiter(p.session)
      result == Append(req[r].result_data, p.data)
      outcome == Outcome(p.ok, result)
  IN /\ TakesMessage /\ channel.conn_id = c /\ link[c].down # <<>>
     /\ CASE r = 0 -> UNCHANGED <<channel, req, crashed>>
          [] r # 0 /\ p.padding ->
               /\ req' = [req EXCEPT ![r].result_data = result]
               /\ UNCHANGED <<channel, crashed>>
          [] r # 0 /\ ~p.padding ->
               /\ req' = [req EXCEPT ![r].state = "done", ![r].result = outcome.result,
                                     ![r].result_data = <<>>]
               /\ channel' = [channel EXCEPT !.thread = Without(@, p.session)]
               /\ crashed' = outcome.crash
     /\ link' = [link EXCEPT ![c].down = Tail(@), ![c].cut = @ \/ crashed']
     /\ Marks({})
     /\ UNCHANGED <<session, clusterd, delivered, stranded, commands>>

-------------------------------------------------------------------------------
(* The network.                                                            *)

Break(c) ==
  /\ link[c].client /\ link[c].server /\ ~link[c].cut
  /\ link' = [link EXCEPT ![c].cut = TRUE]
  /\ UNCHANGED <<session, channel, wakeup, req, clusterd, delivered, stranded, crashed, commands>>

-------------------------------------------------------------------------------
(* clusterd of the remote node.                                            *)

\* socket.send of responses: nothing when the connection is closed or cut, nor when
\* driver.write finds no listener.
Respond(l, c, packets) ==
  IF l[c].server /\ ~l[c].cut /\ clusterd.listening THEN [l EXCEPT ![c].down = @ \o packets] ELSE l

\* register_name_cache: what it answered once for the name stays.
Cached == IF clusterd.register_name_cache # 0 THEN clusterd.register_name_cache ELSE clusterd.register_name

\* The part of dispatch_request behind the assembly, up to the rawcall: a query is
\* answered, a push sent, a request called, an unknown name refused.
Dispatch(l, c, addr, s, msg, is_push) ==
  LET handle == IF isname(addr) THEN Cached ELSE addr
      cached == [clusterd EXCEPT !.register_name_cache = IF addr = QUERY \/ isname(addr) THEN Cached ELSE @]
  IN CASE addr = QUERY ->
            /\ clusterd' = cached
            /\ link' = Respond(l, c, IF Cached # 0 THEN lpackresponse(s, TRUE, Payload("name", Cached, 1))
                                                  ELSE lpackresponse(s, FALSE, Refusal))
            /\ UNCHANGED delivered
       [] addr # QUERY /\ handle = 0 ->
            /\ clusterd' = cached
            /\ link' = Respond(l, c, lpackresponse(s, FALSE, Refusal))
            /\ UNCHANGED delivered
       [] addr # QUERY /\ handle # 0 ->
            /\ clusterd' = [cached EXCEPT !.calls = IF is_push THEN @
                              ELSE @ \cup {[conn |-> c, session |-> s, msg |-> msg]}]
            /\ delivered' = Append(delivered, [handle |-> handle, msg |-> msg, is_push |-> is_push])
            /\ link' = l

\* read_loop takes a packet and dispatch_request runs in a coroutine of its own.  The
\* header of a large request has no msg, so that its size is not appended to the parts.
Deliver(c) ==
  LET p == lunpackrequest(Head(link[c].up))
      large == link[c].large_request
      known == p.session \in DOMAIN large
      part == IF known THEN large[p.session]
              ELSE [addr |-> IF p.addr = None THEN QUERY ELSE p.addr[1], is_push |-> p.is_push, parts |-> <<>>]
      appended == [part EXCEPT !.parts = IF p.msg = None THEN @ ELSE lappend(@, p.msg, p.sz)]
      whole == lconcat(appended.parts)
      taken == [link EXCEPT ![c].up = Tail(@)]
      settled == [taken EXCEPT ![c].large_request = Without(@, p.session)]
  IN /\ link[c].server /\ link[c].up # <<>>
     /\ CASE p.padding ->
               /\ link' = [taken EXCEPT ![c].large_request = With(@, p.session, appended)]
               /\ UNCHANGED <<clusterd, delivered>>
          [] ~p.padding /\ known /\ whole.outcome # "string" ->
               /\ link' = Respond(settled, c, lpackresponse(p.session, FALSE, Refusal))
               /\ UNCHANGED <<clusterd, delivered>>
          [] ~p.padding /\ known /\ whole.outcome = "string" ->
               Dispatch(settled, c, appended.addr, p.session, whole.msg, appended.is_push)
          [] ~p.padding /\ ~known ->
               Dispatch(taken, c, p.addr[1], p.session, p.msg[1], p.is_push)
     /\ UNCHANGED <<session, channel, wakeup, req, stranded, crashed, commands>>

\* The service answers the rawcall, or fails it: the rest of dispatch_request.
Answer(call, ok, size) ==
  /\ call \in clusterd.calls
  /\ clusterd' = [clusterd EXCEPT !.calls = @ \ {call}]
  /\ link' = Respond(link, call.conn,
                     IF ok THEN lpackresponse(call.session, TRUE, Payload("service", call.msg[1][2], size))
                           ELSE lpackresponse(call.session, FALSE, Payload("failure", call.msg[1][2], 1)))
  /\ UNCHANGED <<session, channel, wakeup, req, delivered, stranded, crashed, commands>>

\* The end of read_loop.  The event has removed the connection from socket.lua's table,
\* so that socket.close takes its id for that of a socket of clusterd: the listener.
ServerClose(c) ==
  /\ link[c].cut /\ link[c].server
  /\ link' = [link EXCEPT ![c].server = FALSE, ![c].up = <<>>, ![c].large_request = <<>>]
  /\ clusterd' = [clusterd EXCEPT !.listening = @ /\ clusterd.first_id + c - 1 # 1]
  /\ UNCHANGED <<session, channel, wakeup, req, delivered, stranded, crashed, commands>>

\* command.register and command.unregister of the one name.
Rename(handle) ==
  /\ commands < MaxCommands /\ handle # clusterd.register_name
  /\ commands' = commands + 1
  /\ clusterd' = [clusterd EXCEPT !.register_name = handle]
  /\ UNCHANGED <<session, channel, wakeup, req, link, delivered, stranded, crashed>>

-------------------------------------------------------------------------------
Next ==
  \/ \E r \in Requests, addr \in Addresses, size \in Sizes, is_push \in BOOLEAN :
       Request(r, addr, size, is_push)
  \/ \E c \in Conns : ConnectOk(c) \/ OpenedEnds(c) \/ ClientClose(c) \/ Receive(c)
  \/ ConnectFails \/ CloseChannel \/ ChangeHost \/ OtherMessage
  \/ \E co \in wakeup.list : Resume(co)
  \/ \E c \in Conns : Break(c) \/ Deliver(c) \/ ServerClose(c)
  \/ \E call \in clusterd.calls :
       Answer(call, FALSE, 1) \/ \E size \in ReplySizes : Answer(call, TRUE, size)
  \/ \E handle \in Handles \cup {0} : Rename(handle)

Spec == Init /\ [][Next]_vars

\* The sender resumes who is in its list, attempts to connect end one way or the other,
\* packets and the end of a stream arrive at either side, and services answer their calls.
\* Nothing says that another command or message comes.
Fairness ==
  /\ WF_vars(\/ \E co \in wakeup.list : Resume(co)
             \/ ConnectFails
             \/ \E c \in Conns : ConnectOk(c) \/ OpenedEnds(c) \/ ClientClose(c) \/ Receive(c))
  /\ WF_vars(\E c \in Conns : Deliver(c) \/ ServerClose(c))
  /\ WF_vars(\E call \in clusterd.calls :
               Answer(call, FALSE, 1) \/ \E size \in ReplySizes : Answer(call, TRUE, size))

FairSpec == Spec /\ Fairness

-------------------------------------------------------------------------------
(* Properties.                                                             *)

\* The shape of the state: a request waits exactly while the channel has it in its table
\* under its own session, and for the connection as long as it connects, is in the
\* channel's list or is marked; a connection is open at the sender only as the channel's or
\* as the one that was opened for it; and while there is a connection nobody stays marked
\* over the end of a message.
TypeOK ==
  LET marked == wakeup.queue \cup wakeup.list
      who == ToSet(channel.connecting)
  IN /\ session \in Sessions /\ channel.conn_id \in Conns \cup {0} /\ channel.opened \in Conns \cup {0}
     /\ DOMAIN channel.thread \subseteq Sessions
     /\ channel.waiting \subseteq Requests \ (who \cup marked)
     /\ marked \subseteq Requests \cup (who \cap {CHANGENODE})
     /\ \A r \in Requests :
          /\ req[r].state \in {"none", "connect", "wait", "closed", "done"}
          /\ req[r].state = "wait" <=> req[r].session \in DOMAIN channel.thread
                                         /\ channel.thread[req[r].session] = r
          /\ req[r].state \in {"connect", "closed"} <=> r \in who \cup channel.waiting \cup marked
          /\ req[r].state = "closed" => r \in marked \ who
     /\ \A c \in Conns : link[c].client <=> c \in {channel.conn_id, channel.opened}
     /\ channel.opened # 0 => who # {} /\ who \subseteq marked
     /\ Connected => ~Connecting /\ (wakeup.list = {} => wakeup.queue = {})

\* command.req, dispatch_by_session: a caller gets the reply of the service to its own
\* request, the answer to its own query, or an error; never another request's reply,
\* whatever sessions were used before and connections lost.
AnswerIsItsOwn ==
  \A r \in Requests : req[r].result \notin {NoResult, Error} =>
    IF req[r].addr = QUERY THEN \E h \in Handles : req[r].result = Payload("name", h, 1)
    ELSE \E size \in ReplySizes : req[r].result = Payload("service", r, size)

\* packrequest, unpackrequest, append, dispatch_request: what a service gets is the whole
\* payload of one request, of its kind, at most once; and the parts that wait for the rest
\* of a large request are a beginning of it.
ArrivesAsSent ==
  /\ \A i \in 1 .. Len(delivered) : \E r \in Requests :
       /\ req[r].msg = delivered[i].msg /\ req[r].is_push = delivered[i].is_push
       /\ isname(req[r].addr) \/ req[r].addr = delivered[i].handle
       /\ \A j \in 1 .. i - 1 : delivered[j].msg # delivered[i].msg
  /\ \A c \in Conns : \A s \in DOMAIN link[c].large_request : \E r \in Requests :
       LET part == link[c].large_request[s]
           got == FlattenSeq([i \in 1 .. Len(part.parts) |-> part.parts[i].str])
       IN /\ req[r].session = s /\ req[r].addr = part.addr /\ req[r].is_push = part.is_push
          /\ IsPrefix(got, req[r].msg)

\* Those who may wait until the timer of skynet.wait, 11 days: changehost left them in the
\* table of a channel whose old connection nobody reads; they wait for a node whose
\* responses go nowhere, because it closed its listener; or they are marked, and an error
\* left the loop that should resume them.
Abandoned(r) ==
  \/ r \in stranded
  \/ ~clusterd.listening /\ req[r].state = "wait"
  \/ r \in wakeup.queue

\* channel:request, wakeup_all, dispatch_message: every request returns or raises, through
\* every loss of the connection and every failed attempt to connect; in the end nobody
\* waits but those who are abandoned and stay so.
RequestEnds ==
  <>[](crashed \/ \A r \in Requests : req[r].state \in {"none", "done"} \/ Abandoned(r))

=============================================================================
