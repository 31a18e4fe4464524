--------------------------------- MODULE Gate ---------------------------------
(***************************************************************************)
(* One gate: the TCP listener and its connections of src/network.cpp, the  *)
(* socketdriver module of src/lua_socket_binding.cpp that a Lua service    *)
(* drives them with, and the Lua side of it (lualib/socket.lua and         *)
(* lualib/gateserver.lua).                                                 *)
(*                                                                         *)
(* The io_context has one thread: it runs the lambdas that send, close,    *)
(* pause, resume and stop post, first in first out (`posted`), and the     *)
(* handlers of accepts, reads and writes.  A read is performed by asio at  *)
(* some point between its start and its handler: that is a step of its     *)
(* own, because the bytes go to read_buf_, which the connection's reads    *)
(* share.  A write or an accept and its handler are one step: what happens *)
(* in between cannot be told apart by anything here.                       *)
(*                                                                         *)
(* The connections are numbered in the order in which the peers connect,   *)
(* which is the order in which they are accepted: the number is the        *)
(* connection id, counted from 1 in the whole process.  The gate is the    *)
(* first service that listens and has one listener, whose id is also 1.    *)
(***************************************************************************)
EXTENDS Netpack, SequencesExt

CONSTANTS
  MaxConns,              \* bound: how many peers connect
  Script,                \* Script[i]: the payloads of the frames that peer i sends
  ReadBufSize,           \* the size of read_buf_, 8192 in the code
  SEND_BUFFER_WARNING,
  Replies,               \* what the gate's user writes to a connection
  MaxCommands            \* bound: how many commands the gate gets

\* Connection ids.
Conns == 1 .. MaxConns

ASSUME GateAssumption ==
  /\ MaxConns \in Nat
  /\ Script \in [Conns -> Seq(Seq(Bytes))]
  /\ \A i \in Conns : \A k \in 1 .. Len(Script[i]) : Packable(Script[i][k])
  /\ ReadBufSize \in Nat \ {0} /\ SEND_BUFFER_WARNING \in Nat
  /\ Replies \subseteq Seq(Bytes) /\ MaxCommands \in Nat

VARIABLES
  \* the peers and the network
  phase,         \* phase[i]: "none", "backlog" or "accepted"
  peer,          \* peer[i]: "open", "fin" (closed) or "reset"
  sent,          \* sent[i]: how many frames of Script[i] the peer has sent
  wire,          \* wire[i]: bytes on their way to the gate
  back,          \* back[i]: bytes that reached the peer
  \* network.cpp
  conn,          \* conn[i]: the TcpConnection
  acceptor,      \* "none", "waiting" (an async_accept is outstanding), "ended"
  connections,   \* the listener's connections_
  posted,        \* lambdas posted to the io_context
  terminated,    \* an exception left the io thread
  \* the Lua service
  store,         \* ids of the SocketStore's sockets
  listener_id,   \* gateserver's local, 0 for nil
  mailbox,       \* PTYPE_SOCKET messages of the service
  socket_conns,  \* the ids that socket.lua's socket_connections has
  gate_conns,    \* gateserver's connections: id -> buffer
  commands,      \* how many commands were handled
  \* history
  calls,         \* calls[i]: the handler's callbacks for connection i, in order
  written,       \* written[i]: all that was written to connection i
  overlap        \* connections on which a read was started while another was outstanding

peerVars == <<phase, peer, sent, wire, back>>
ioVars   == <<conn, acceptor, connections, posted, terminated>>
luaVars  == <<store, listener_id, mailbox, socket_conns, gate_conns, commands>>
history  == <<calls, written, overlap>>
vars     == <<peerVars, ioVars, luaVars, history>>

ListenerId == 1

\* A TcpConnection before its start(): reads are 0 (outstanding), -1 (failed) or
\* the number of bytes that were read.
NewConnection ==
  [open |-> FALSE, reads |-> <<>>, read_buf |-> <<>>, is_paused |-> FALSE,
   write_queue |-> <<>>, is_writing |-> FALSE, write_failed |-> FALSE,
   pending_bytes |-> 0, warned |-> FALSE]

Init ==
  /\ phase = [i \in Conns |-> "none"] /\ peer = [i \in Conns |-> "open"]
  /\ sent = [i \in Conns |-> 0]
  /\ wire = [i \in Conns |-> <<>>] /\ back = [i \in Conns |-> <<>>]
  /\ conn = [i \in Conns |-> NewConnection]
  /\ acceptor = "none" /\ connections = {} /\ posted = <<>> /\ terminated = FALSE
  /\ store = {} /\ listener_id = 0 /\ mailbox = <<>>
  /\ socket_conns = {} /\ gate_conns = <<>> /\ commands = 0
  /\ calls = [i \in Conns |-> <<>>] /\ written = [i \in Conns |-> <<>>]
  /\ overlap = {}

-------------------------------------------------------------------------------
(* The peers.                                                              *)

Connect(i) ==
  /\ ~terminated
  /\ phase[i] = "none" /\ \A j \in Conns : j < i => phase[j] # "none"
  /\ acceptor = "waiting"
  /\ phase' = [phase EXCEPT ![i] = "backlog"]
  /\ UNCHANGED <<peer, sent, wire, back, ioVars, luaVars, history>>

PeerSend(i) ==
  /\ ~terminated
  /\ phase[i] # "none" /\ peer[i] = "open" /\ sent[i] < Len(Script[i])
  /\ sent' = [sent EXCEPT ![i] = @ + 1]
  /\ wire' = [wire EXCEPT ![i] = @ \o lpack(Script[i][sent[i] + 1])]
  /\ UNCHANGED <<phase, peer, back, ioVars, luaVars, history>>

\* The peer closes its end; a reset also loses the bytes that were not read.
PeerClose(i, how) ==
  /\ ~terminated
  /\ phase[i] # "none" /\ peer[i] = "open"
  /\ peer' = [peer EXCEPT ![i] = how]
  /\ wire' = [wire EXCEPT ![i] = IF how = "reset" THEN <<>> ELSE @]
  /\ UNCHANGED <<phase, sent, back, ioVars, luaVars, history>>

-------------------------------------------------------------------------------
(* TcpConnection.                                                          *)

SocketEvent(kind, i, data) == [kind |-> kind, id |-> i, data |-> data]

\* Mutant: a resumed or accepted connection is not read.
do_readNot(c) == c

\* do_read: async_read_some on a closed socket fails at once.
do_read(c) ==
  IF c.is_paused THEN c
  ELSE [c EXCEPT !.reads = Append(@, IF c.open THEN 0 ELSE -1)]

Outstanding(i, k) ==
  k \in 1 .. Len(conn[i].reads) /\ conn[i].reads[k] = 0
    /\ \A j \in 1 .. k - 1 : conn[i].reads[j] # 0

\* asio performs the oldest outstanding read of a connection: into read_buf_.
Recv(i) ==
  /\ ~terminated
  /\ \E k \in 1 .. Len(conn[i].reads) :
       /\ Outstanding(i, k)
       /\ \/ \E n \in 1 .. ReadBufSize :
               /\ n <= Len(wire[i])
               /\ wire' = [wire EXCEPT ![i] = SubSeq(@, n + 1, Len(@))]
               /\ conn' = [conn EXCEPT
                    ![i].reads[k] = n,
                    ![i].read_buf = SubSeq(wire[i], 1, n) \o SubSeq(@, n + 1, Len(@))]
          \/ /\ wire[i] = <<>> /\ peer[i] # "open"
             /\ conn' = [conn EXCEPT ![i].reads[k] = -1]
             /\ UNCHANGED wire
  /\ UNCHANGED <<phase, peer, sent, back, acceptor, connections, posted, terminated,
                 luaVars, history>>

\* Bytes of read_buf_ that no handler will copy are forgotten.
Forget(c) ==
  IF \E k \in 1 .. Len(c.reads) : c.reads[k] > 0 THEN c ELSE [c EXCEPT !.read_buf = <<>>]

\* The handler of the oldest read.
ReadHandler(i) ==
  LET c == conn[i]
      n == Head(c.reads)
      rest == [c EXCEPT !.reads = Tail(@)]
  IN /\ ~terminated /\ c.reads # <<>> /\ n # 0
     /\ \/ /\ n = -1
           /\ mailbox' = Append(mailbox, SocketEvent("close", i, <<>>))
           /\ conn' = [conn EXCEPT ![i] = rest]
        \/ /\ n > 0
           /\ mailbox' = Append(mailbox, SocketEvent("data", i, SubSeq(c.read_buf, 1, n)))
           /\ conn' = [conn EXCEPT ![i] = Forget(do_read(rest))]
     /\ UNCHANGED <<peerVars, acceptor, connections, posted, terminated, store,
                    listener_id, socket_conns, gate_conns, commands, history>>

\* do_write; a write is outstanding when is_writing_ is set and it has not failed.
do_write(c) == [c EXCEPT !.is_writing = c.write_queue # <<>>]

\* The handler of async_write when the buffer was written.
Written(c) ==
  do_write([c EXCEPT !.pending_bytes = @ - Len(Head(c.write_queue)),
                     !.warned = FALSE,
                     !.write_queue = Tail(@)])

\* An empty buffer is written at once; on a socket that was closed here, or whose
\* peer is gone, the write fails, or the kernel still takes it.
WriteHandler(i) ==
  LET c == conn[i]
      data == Head(c.write_queue)
  IN /\ ~terminated /\ c.is_writing /\ ~c.write_failed
     /\ \/ /\ data = <<>> \/ c.open
           /\ conn' = [conn EXCEPT ![i] = Written(c)]
           /\ back' = [back EXCEPT ![i] = IF peer[i] = "open" THEN @ \o data ELSE @]
           /\ UNCHANGED mailbox
        \/ /\ data # <<>> /\ (~c.open \/ peer[i] # "open")
           /\ conn' = [conn EXCEPT ![i].write_failed = TRUE]
           /\ mailbox' = Append(mailbox, SocketEvent("close", i, <<>>))
           /\ UNCHANGED back
     /\ UNCHANGED <<phase, peer, sent, wire, acceptor, connections, posted, terminated,
                    store, listener_id, socket_conns, gate_conns, commands, history>>

\* Mutant: a buffer is queued in front of those that wait.
SentInFront(c, data) ==
  LET q == [c EXCEPT !.pending_bytes = @ + Len(data),
                     !.write_queue = <<data>> \o @]
      warns == ~q.warned /\ q.pending_bytes >= SEND_BUFFER_WARNING
      w == [q EXCEPT !.warned = @ \/ warns]
  IN <<IF w.is_writing THEN w ELSE do_write(w), warns>>

\* send()'s lambda with check_send_warning; a Boolean says whether it warns.
Sent(c, data) ==
  LET q == [c EXCEPT !.pending_bytes = @ + Len(data),
                     !.write_queue = Append(@, data)]
      warns == ~q.warned /\ q.pending_bytes >= SEND_BUFFER_WARNING
      w == [q EXCEPT !.warned = @ \/ warns]
  IN <<IF w.is_writing THEN w ELSE do_write(w), warns>>

\* close()'s lambda: the reads that were not performed are aborted.
Closed(c) ==
  [c EXCEPT !.open = FALSE,
            !.reads = [k \in 1 .. Len(@) |-> IF @[k] = 0 THEN -1 ELSE @[k]]]

\* Mutant: resume forgets to start reading again.
ResumedOnly(c) == [c EXCEPT !.is_paused = FALSE]

\* resume()'s lambda.
Resumed(c) == IF c.is_paused THEN do_read([c EXCEPT !.is_paused = FALSE]) ELSE c

Lambda(op, i, data) == [op |-> op, id |-> i, data |-> data]

\* The io thread runs the lambda that was posted first.
RunPosted ==
  LET l == Head(posted)
      c == conn[l.id]
  IN /\ ~terminated /\ posted # <<>>
     /\ posted' = Tail(posted)
     /\ \/ /\ l.op = "send"
           /\ conn' = [conn EXCEPT ![l.id] = Sent(c, l.data)[1]]
           /\ mailbox' = IF Sent(c, l.data)[2]
                         THEN Append(mailbox, SocketEvent("warning", l.id, <<>>))
                         ELSE mailbox
           /\ UNCHANGED <<acceptor, overlap>>
        \/ /\ l.op = "close"
           /\ conn' = [conn EXCEPT ![l.id] = Closed(c)]
           /\ UNCHANGED <<mailbox, acceptor, overlap>>
        \/ /\ l.op = "pause"
           /\ conn' = [conn EXCEPT ![l.id].is_paused = TRUE]
           /\ UNCHANGED <<mailbox, acceptor, overlap>>
        \/ /\ l.op = "resume"
           /\ conn' = [conn EXCEPT ![l.id] = Resumed(c)]
           /\ overlap' = IF c.is_paused /\ c.reads # <<>> THEN overlap \cup {l.id} ELSE overlap
           /\ UNCHANGED <<mailbox, acceptor>>
        \/ /\ l.op = "stop"
           /\ acceptor' = "ended"
           /\ UNCHANGED <<conn, mailbox, overlap>>
     /\ UNCHANGED <<peerVars, connections, terminated, store, listener_id, socket_conns,
                    gate_conns, commands, calls, written>>

-------------------------------------------------------------------------------
(* TcpListener.                                                            *)

Backlog == {i \in Conns : phase[i] = "backlog"}

\* The handler of async_accept.  remote_endpoint() throws when the peer has reset
\* the connection, and nothing above the io thread's run() catches it.
Accept(i) ==
  /\ ~terminated
  /\ acceptor = "waiting" /\ i \in Backlog /\ \A j \in Backlog : i <= j
  /\ phase' = [phase EXCEPT ![i] = "accepted"]
  /\ \/ /\ peer[i] # "reset"
        /\ conn' = [conn EXCEPT ![i] = do_read([@ EXCEPT !.open = TRUE])]
        /\ connections' = connections \cup {i}
        /\ mailbox' = Append(mailbox, SocketEvent("accept", i, <<>>))
        /\ UNCHANGED terminated
     \/ /\ peer[i] = "reset"
        /\ terminated' = TRUE
        /\ UNCHANGED <<conn, connections, mailbox>>
  /\ UNCHANGED <<peer, sent, wire, back, acceptor, posted, store, listener_id,
                 socket_conns, gate_conns, commands, history>>

\* An accept that fails (no descriptor left, say) is not followed by another one.
AcceptFails ==
  /\ ~terminated
  /\ acceptor = "waiting" /\ Backlog # {}
  /\ acceptor' = "ended"
  /\ UNCHANGED <<peerVars, conn, connections, posted, terminated, luaVars, history>>

\* TcpListener::close_connection; q is what the caller has posted so far.
close_connection(i, q) ==
  /\ connections' = connections \ {i}
  /\ posted' = IF i \in connections THEN Append(q, Lambda("close", i, <<>>)) ELSE q

-------------------------------------------------------------------------------
(* socketdriver and socket.lua, called by the service.                     *)

\* socketdriver.listen, socket.listen and gateserver's handle_open.
Open ==
  /\ ~terminated
  /\ listener_id = 0
  /\ listener_id' = ListenerId /\ store' = store \cup {ListenerId}
  /\ acceptor' = "waiting"
  /\ UNCHANGED <<peerVars, conn, connections, posted, terminated, mailbox, socket_conns,
                 gate_conns, commands, history>>

\* socketdriver.close(id): the socket itself, which is the listener or nothing.
lcloseSocket(id, q) ==
  /\ store' = store \ {id}
  /\ posted' = IF id \in store THEN Append(q, Lambda("stop", id, <<>>)) ELSE q
  /\ UNCHANGED connections

\* socketdriver.close(listener_id, conn_id).
lclose(id, q) ==
  /\ IF listener_id \in store THEN close_connection(id, q)
     ELSE posted' = q /\ UNCHANGED connections
  /\ UNCHANGED store

\* socket.close(conn_id).
socket_close(id, q) ==
  /\ IF id \in socket_conns THEN lclose(id, q) ELSE lcloseSocket(id, q)
  /\ socket_conns' = socket_conns \ {id}

\* socketdriver.write, pause and resume: op on a connection of the listener.
ldriver(op, id, data) ==
  IF listener_id \in store /\ id \in connections
  THEN Append(posted, Lambda(op, id, data)) ELSE posted

\* The connections that the gate's user was told of: a command names one of them.
Known == {i \in Conns : calls[i] # <<>>}

\* A callback of the handler; "kicked" marks where the user gave the connection up.
Call(name, data) == [name |-> name, data |-> data]

Command(i) ==
  ~terminated /\ i \in Known /\ commands < MaxCommands /\ commands' = commands + 1

\* gateserver's KICK, and CLOSE, which first writes nothing to the connection.
Kick(i, cmd) ==
  /\ Command(i)
  /\ socket_close(i, IF cmd = "CLOSE" THEN ldriver("send", i, <<>>) ELSE posted)
  /\ gate_conns' = Restrict(gate_conns, DOMAIN gate_conns \ {i})
  /\ calls' = [calls EXCEPT ![i] = IF i \in DOMAIN gate_conns
                                   THEN Append(@, Call("kicked", <<>>)) ELSE @]
  /\ UNCHANGED <<peerVars, conn, acceptor, terminated, listener_id, mailbox, written, overlap>>

\* gateserver's SENDRAW, and SEND when data is a frame.
Write(i, data) ==
  /\ Command(i)
  /\ posted' = ldriver("send", i, data)
  /\ written' = [written EXCEPT ![i] = IF listener_id \in store /\ i \in connections
                                       THEN @ \o data ELSE @]
  /\ UNCHANGED <<peerVars, conn, acceptor, connections, terminated, store, listener_id,
                 mailbox, socket_conns, gate_conns, calls, overlap>>

\* socket.pause and socket.resume.
Flow(i, op) ==
  /\ Command(i)
  /\ posted' = ldriver(op, i, <<>>)
  /\ UNCHANGED <<peerVars, conn, acceptor, connections, terminated, store, listener_id,
                 mailbox, socket_conns, gate_conns, history>>

-------------------------------------------------------------------------------
(* The service handles its next PTYPE_SOCKET message: dispatch_socket_event *)
(* and the handlers that gateserver registered.                             *)

\* Mutant: a close event that finds the connection gone calls disconnect again.
on_closeAlways(i) ==
  /\ calls' = [calls EXCEPT ![i] = Append(@, Call("disconnect", <<>>))]
  /\ gate_conns' = Restrict(gate_conns, DOMAIN gate_conns \ {i})
  /\ socket_conns' = socket_conns \ {i}

on_accept(i) ==
  /\ socket_conns' = socket_conns \cup {i}
  /\ gate_conns' = [j \in DOMAIN gate_conns \cup {i} |->
                     IF j = i THEN <<>> ELSE gate_conns[j]]
  /\ calls' = [calls EXCEPT ![i] = Append(@, Call("connect", <<>>))]

\* gateserver's on_data; the callbacks do not yield.
on_data(i, data) ==
  /\ IF i \in socket_conns /\ i \in DOMAIN gate_conns
     THEN LET f == lfilter(gate_conns[i], data)
          IN /\ gate_conns' = [gate_conns EXCEPT ![i] = f.remaining]
             /\ calls' = [calls EXCEPT ![i] =
                               @ \o [k \in 1 .. Len(f.msgs) |-> Call("message", f.msgs[k])]]
     ELSE UNCHANGED <<gate_conns, calls>>
  /\ UNCHANGED socket_conns

on_close(i) ==
  /\ calls' = [calls EXCEPT ![i] = IF i \in DOMAIN gate_conns
                                   THEN Append(@, Call("disconnect", <<>>)) ELSE @]
  /\ gate_conns' = Restrict(gate_conns, DOMAIN gate_conns \ {i})
  /\ socket_conns' = socket_conns \ {i}

HandleEvent ==
  LET ev == Head(mailbox)
  IN /\ ~terminated /\ mailbox # <<>> /\ mailbox' = Tail(mailbox)
     /\ \/ ev.kind = "accept" /\ on_accept(ev.id)
        \/ ev.kind = "data" /\ on_data(ev.id, ev.data)
        \/ ev.kind = "close" /\ on_close(ev.id)
        \/ ev.kind = "warning" /\ UNCHANGED <<socket_conns, gate_conns, calls>>
     /\ UNCHANGED <<peerVars, ioVars, store, listener_id, commands, written, overlap>>

-------------------------------------------------------------------------------
Next ==
  \/ RunPosted \/ HandleEvent \/ Open \/ AcceptFails
  \/ \E i \in Conns :
       \/ Recv(i) \/ ReadHandler(i) \/ WriteHandler(i) \/ Accept(i)
       \/ Connect(i) \/ PeerSend(i)
       \/ \E how \in {"fin", "reset"} : PeerClose(i, how)
       \/ \E cmd \in {"KICK", "CLOSE"} : Kick(i, cmd)
       \/ \E data \in Replies : Write(i, data)
       \/ \E op \in {"pause", "resume"} : Flow(i, op)

Spec == Init /\ [][Next]_vars

\* The io thread runs what is ready, and a worker dispatches the service; a peer, a
\* user and the operating system may stop at any time.
Fairness ==
  /\ \A i \in Conns : WF_vars(Recv(i)) /\ WF_vars(ReadHandler(i)) /\ WF_vars(WriteHandler(i))
  /\ WF_vars(RunPosted) /\ WF_vars(HandleEvent)

FairSpec == Spec /\ Fairness

-------------------------------------------------------------------------------
(* Properties.                                                             *)

TcpConnections ==
  [open : BOOLEAN, reads : Seq(Int), read_buf : Seq(Bytes), is_paused : BOOLEAN,
   write_queue : Seq(Seq(Bytes)), is_writing : BOOLEAN, write_failed : BOOLEAN,
   pending_bytes : Int, warned : BOOLEAN]
Lambdas ==
  [op : {"send", "close", "pause", "resume", "stop"}, id : Conns, data : Seq(Bytes)]
SocketEvents ==
  [kind : {"accept", "data", "close", "warning"}, id : Conns, data : Seq(Bytes)]
Callbacks ==
  [name : {"connect", "message", "disconnect", "kicked"}, data : Seq(Bytes)]

\* The shape of the state: a length that does not fit its byte, or an event or a lambda
\* for something that is not a connection, would show here.
TypeOK ==
  /\ phase \in [Conns -> {"none", "backlog", "accepted"}]
  /\ peer \in [Conns -> {"open", "fin", "reset"}]
  /\ sent \in [Conns -> Nat] /\ wire \in [Conns -> Seq(Bytes)]
  /\ back \in [Conns -> Seq(Bytes)] /\ written \in [Conns -> Seq(Bytes)]
  /\ conn \in [Conns -> TcpConnections]
  /\ acceptor \in {"none", "waiting", "ended"} /\ connections \subseteq Conns
  /\ posted \in Seq(Lambdas)
  /\ terminated \in BOOLEAN
  /\ store \subseteq {ListenerId} /\ listener_id \in {0, ListenerId}
  /\ mailbox \in Seq(SocketEvents)
  /\ socket_conns \subseteq Conns
  /\ DOMAIN gate_conns \subseteq Conns /\ \A i \in DOMAIN gate_conns : gate_conns[i] \in Seq(Bytes)
  /\ commands \in 0 .. MaxCommands /\ overlap \subseteq Conns
  /\ calls \in [Conns -> Seq(Callbacks)]

\* The payloads that the handler was given for connection i.
Messages(i) ==
  FlattenSeq([k \in 1 .. Len(calls[i]) |->
                IF calls[i][k].name = "message" THEN <<calls[i][k].data>> ELSE <<>>])

\* However TCP cuts the stream into reads, what the gate's handler is given for a
\* connection (lfilter, gateserver's on_data) is the first frames that its peer sent,
\* unchanged and in order, unless resume started a second read into read_buf_ while
\* the one that pause left outstanding was not over.  And it is given each frame as
\* soon as it is whole: the buffer that gateserver keeps never holds one.
FramesInOrder ==
  /\ \A i \in Conns \ overlap : IsPrefix(Messages(i), Script[i])
  /\ \A i \in DOMAIN gate_conns : lunpack(gate_conns[i], 1) = <<>>

\* For each connection the handler gets connect first and once, and nothing after
\* disconnect or after the user closed it, although reads, writes and the lambdas
\* of close report the end of a connection independently.
CallbackOrder ==
  \A i \in Conns : \A k \in 1 .. Len(calls[i]) :
    /\ (calls[i][k].name = "connect") <=> (k = 1)
    /\ calls[i][k].name \in {"disconnect", "kicked"} => k = Len(calls[i])

\* What is posted to be sent on connection i.
PostedTo(i) ==
  FlattenSeq([k \in 1 .. Len(posted) |->
                IF posted[k].op = "send" /\ posted[k].id = i THEN posted[k].data ELSE <<>>])

\* What reaches the peer is what was written to the connection, in order and once; on
\* a connection that neither side has closed the rest is still in the write queue or
\* posted.  pending_bytes_, on which the warnings are based, counts the queue exactly.
WritesInOrder ==
  \A i \in Conns :
    LET queued == FlattenSeq(conn[i].write_queue)
    IN /\ IsPrefix(back[i], written[i])
       /\ conn[i].open /\ peer[i] = "open" => back[i] \o queued \o PostedTo(i) = written[i]
       /\ conn[i].pending_bytes = Len(queued)

\* An open connection that is not paused is being read; and there are two reads at
\* once only after a resume that came before the paused read was over.
AlwaysReading ==
  \A i \in Conns :
    /\ conn[i].open /\ ~conn[i].is_paused /\ peer[i] = "open" => conn[i].reads # <<>>
    /\ i \notin overlap => Len(conn[i].reads) <= 1

\* A socket.close(conn_id) of the gate's user (lualib/socket.lua: "Close a connection.")
\* never closes the gate's listener.
ListenerStays == listener_id # 0 => listener_id \in store

\* Every whole frame that the peer sends on an accepted connection is handed to the
\* handler in the end, also when the peer has closed since: unless the connection
\* was reset, given up by the user or paused, or a write on it failed first.
FramesHandled ==
  \A i \in Conns : \A k \in 1 .. Len(Script[i]) :
    (conn[i].open /\ sent[i] >= k) ~>
      \/ Len(Messages(i)) >= k
      \/ peer[i] = "reset" \/ terminated \/ i \in overlap
      \/ conn[i].is_paused \/ conn[i].write_failed
      \/ Len(calls[i]) > 0 /\ Last(calls[i]).name = "kicked"

=============================================================================
