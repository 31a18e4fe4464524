---------------------------- MODULE ClusterProofs -----------------------------
EXTENDS Cluster, SequenceLemmas
-------------------------------------------------------------------------------
(* Types.                                                                  *)

Byte == {"request", "service", "failure", "name", "clusterd", "error", "none"} \X Nat \X Nat
Bytes == Seq(Byte)
SessionsOr0 == 0 .. INT32_MAX

\* Tables from sessions to members of V.
Tables(V) == UNION {[D -> V] : D \in SUBSET Sessions}

Strings == [str : Bytes]
Parts == [num : Nat] \cup Strings

RequestPackets ==
  [type : {"req"}, addr : Addresses, session : SessionsOr0, data : Bytes]
    \cup [type : {"multi"}, addr : Addresses, session : Sessions, size : Nat, is_push : BOOLEAN]
    \cup [type : {"more", "last"}, session : Sessions, data : Bytes]

ResponsePackets ==
  [type : {"error", "ok", "part", "end"}, session : SessionsOr0, data : Bytes]
    \cup [type : {"begin"}, session : SessionsOr0, total : Nat]

\* What callers got can be anything here: GotInv is about it.
Results == {req[r].result : r \in Requests}

RequestRecords ==
  [state : {"none", "connect", "wait", "closed", "done"}, is_push : BOOLEAN, addr : Addresses, msg : Bytes,
   session : SessionsOr0, result_data : Seq(Parts), result : Results]

Large == [addr : Addresses, is_push : BOOLEAN, parts : Seq(Parts)]

Links ==
  [up : Seq(RequestPackets), down : Seq(ResponsePackets), client : BOOLEAN, server : BOOLEAN,
   cut : BOOLEAN, large_request : Tables(Large)]

\* The coroutines that connect.
Coroutines == Requests \cup {CHANGENODE}

Channels ==
  [conn_id : Conns \cup {0}, connecting : {None} \cup {Some(co) : co \in Coroutines}, opened : Conns \cup {0},
   waiting : SUBSET Requests, retry : Nat, thread : Tables(Requests)]

Wakeups == [queue : SUBSET Coroutines, list : SUBSET Coroutines]

Calls == [conn : Conns, session : SessionsOr0, msg : Bytes]

Daemons ==
  [register_name : Handles \cup {0}, register_name_cache : Handles \cup {0}, calls : SUBSET Calls,
   listening : BOOLEAN, first_id : {1, 2}]

Deliveries == [handle : Handles, msg : Bytes, is_push : BOOLEAN]

TypeInv ==
  /\ session \in Sessions /\ channel \in Channels /\ wakeup \in Wakeups /\ req \in [Requests -> RequestRecords]
  /\ link \in [Conns -> Links] /\ clusterd \in Daemons /\ delivered \in Seq(Deliveries)
  /\ crashed \in BOOLEAN

-------------------------------------------------------------------------------
(* Requests, the channel and the connections.                              *)

\* What a request that was made is.
MadeInv ==
  \A r \in Requests :
    /\ req[r].state = "none" => req[r] = NewRequest /\ \A s \in Requests : s > r => req[s].state = "none"
    /\ req[r].state # "none" =>
         /\ req[r].session \in Sessions /\ \E size \in Sizes : req[r].msg = Payload("request", r, size)
         /\ req[r].addr = QUERY => ~req[r].is_push
    /\ req[r].state = "connect" => req[r].result_data = <<>>
    /\ req[r].state # "done" => req[r].result = NoResult

\* Which connections are open where.
LinkInv ==
  \A c \in Conns :
    /\ link[c].client <=> channel.conn_id = c \/ channel.opened = c
    /\ link[c].client /\ ~link[c].cut => link[c].server
    /\ link[c].server => link[c].client \/ link[c].cut
    /\ ~link[c].server => link[c].up = <<>> /\ DOMAIN link[c].large_request = {}
    /\ ~link[c].client => link[c].down = <<>>
    /\ ~link[c].client /\ ~link[c].cut => \A call \in clusterd.calls : call.conn # c
    /\ channel.opened = c => /\ link[c].up = <<>> /\ link[c].down = <<>>
                             /\ \A call \in clusterd.calls : call.conn # c

\* Requests that have a session to themselves: all but the small pushes.
Numbered(r) == ~req[r].is_push \/ Len(req[r].msg) >= MULTI_PART
Live(r) == req[r].state \in {"connect", "wait"} /\ Numbered(r)

\* Who connects, and who is marked.
Who == IF Connecting THEN {channel.connecting[1]} ELSE {}
Marked == wakeup.queue \cup wakeup.list

\* Who waits for the connection or is marked, and that nobody is while there is one.
ChannelInv ==
  /\ Connected => ~Connecting /\ (wakeup.list = {} => wakeup.queue = {})
  /\ channel.opened # 0 => Connecting /\ channel.connecting[1] \in Marked
  /\ ~Connecting => channel.waiting = {}
  /\ wakeup.queue \cap wakeup.list = {} /\ channel.waiting \cap (Who \cup Marked) = {}
  /\ CHANGENODE \in Marked => CHANGENODE \in Who
  /\ \A r \in Requests :
       /\ req[r].state \in {"connect", "closed"} <=> r \in Who \cup channel.waiting \cup Marked
       /\ req[r].state = "closed" => r \in Marked \ Who

\* What is in thread waits for an answer, under its own session.
ThreadInv ==
  \A s \in DOMAIN channel.thread :
    LET r == channel.thread[s] IN req[r].state = "wait" /\ req[r].session = s /\ ~req[r].is_push

\* What waits for an answer is in thread, and its session is its own.
WaitInv ==
  /\ \A r \in Requests : req[r].state = "wait" =>
       req[r].session \in DOMAIN channel.thread /\ channel.thread[req[r].session] = r
  /\ \A r, q \in Requests : Live(r) /\ Live(q) /\ req[r].session = req[q].session => r = q

\* Sessions that are under way on connection c, and those in use.
UnderWay(c, s) ==
  \/ \E i \in 1 .. Len(link[c].up) : link[c].up[i].session = s
  \/ \E i \in 1 .. Len(link[c].down) : link[c].down[i].session = s
  \/ \E call \in clusterd.calls : call.conn = c /\ call.session = s
InUse(s) ==
  \/ \E r \in Requests : Live(r) /\ req[r].session = s
  \/ \E c \in Conns : link[c].client /\ UnderWay(c, s)

\* packrequest: the session that the next request will take is in use by no request that
\* waits, and by nothing under way on the connection that answers are read from, so that
\* an answer finds its own requester in the table.  The count goes round to 1 behind
\* 2^31 - 1, with nothing that looks whether that session is free.
SessionIsFree == (\E r \in Requests : req[r].state = "none") => ~InUse(session)

-------------------------------------------------------------------------------
(* Streams of blocks.                                                      *)

\* Packets with which a request or a response begins.
Starts(p) == p.type \notin {"more", "last", "part", "end"}

\* The packets of u from the i-th are those of the block b from its k-th, and what
\* follows them starts a block.
RunAt(u, i, b, k) ==
  /\ k \in 1 .. Len(b) /\ i + Len(b) - k <= Len(u)
  /\ \A j \in k .. Len(b) : u[i + j - k] = b[j]
  /\ i + Len(b) - k < Len(u) => Starts(u[i + Len(b) - k + 1])

\* u consists of whole blocks of B, but for the first packets.
Stream(u, B) == \A i \in 1 .. Len(u) : Starts(u[i]) => \E b \in B : RunAt(u, i, b, 1)

\* Requests whose packets were sent.
IsSent(r) == req[r].state \notin {"none", "connect"}
RequestBlocks == {Packets(r) : r \in {q \in Requests : IsSent(q)}}

\* A large request of which k - 1 packets have come.
Assembling(large, r, k) ==
  /\ DOMAIN large = {req[r].session}
  /\ large[req[r].session].addr = req[r].addr /\ large[req[r].session].is_push = req[r].is_push
  /\ large[req[r].session].parts \in Seq(Strings)
  /\ LET parts == large[req[r].session].parts
     IN FlattenSeq([i \in 1 .. Len(parts) |-> parts[i].str]) = SubSeq(req[r].msg, 1, (k - 2) * MULTI_PART)

\* What is under way to clusterd: whole requests, the first of them perhaps in the middle,
\* and then large_request has the parts that came before.
UpOf(c) ==
  /\ Stream(link[c].up, RequestBlocks)
  /\ link[c].up = <<>> \/ Starts(link[c].up[1]) => DOMAIN link[c].large_request = {}
  /\ link[c].up # <<>> /\ ~Starts(link[c].up[1]) =>
       \E r \in Requests : \E k \in 2 .. Len(Packets(r)) :
         /\ IsSent(r) /\ RunAt(link[c].up, 1, Packets(r), k)
         /\ Assembling(link[c].large_request, r, k)

UpInv == \A c \in Conns : UpOf(c)

\* A small request is under way at most once, and not once it was delivered.
OnceInv ==
  /\ \A c, d \in Conns : \A i \in 1 .. Len(link[c].up) : \A j \in 1 .. Len(link[d].up) :
       link[c].up[i].type = "req" /\ link[d].up[j].type = "req" =>
         (link[c].up[i].data = link[d].up[j].data => c = d /\ i = j)
  /\ \A c \in Conns : \A i \in 1 .. Len(link[c].up) : \A k \in 1 .. Len(delivered) :
       link[c].up[i].type = "req" => link[c].up[i].data # delivered[k].msg
  /\ \A k, l \in 1 .. Len(delivered) : delivered[k].msg = delivered[l].msg => k = l
  /\ \A k \in 1 .. Len(delivered) : \E r \in Requests :
       /\ IsSent(r) /\ req[r].msg = delivered[k].msg /\ req[r].is_push = delivered[k].is_push
       /\ isname(req[r].addr) \/ req[r].addr = delivered[k].handle

-------------------------------------------------------------------------------
(* Answers.                                                                *)

\* What request r may be answered with.
IsAnswer(r, m) ==
  IF req[r].addr = QUERY THEN \E h \in Handles : m = Payload("name", h, 1)
  ELSE \E size \in ReplySizes : m = Payload("service", r, size)

\* What clusterd and the services answer.
Replies ==
  {Payload("service", r, size) : r \in Requests, size \in ReplySizes}
    \cup {Payload("name", h, 1) : h \in Handles} \cup {Payload("failure", r, 1) : r \in Requests} \cup {Refusal}

\* r waits for the response with the session s.
Awaits(r, s) == req[r].state = "wait" /\ req[r].session = s

\* A response of m of which k - 1 packets have come.
Gathered(t, m, k) ==
  /\ t # <<>> /\ t[1] = Number(Len(m)) /\ Tail(t) \in Seq(Strings)
  /\ FlattenSeq([i \in 1 .. Len(t) - 1 |-> t[i + 1].str]) = SubSeq(m, 1, (k - 2) * MULTI_PART)

\* The next packet under way to the sender continues a response of session s.
MidBlock(c, s) == link[c].down # <<>> /\ ~Starts(link[c].down[1]) /\ link[c].down[1].session = s

\* What callers got.
AnswerInv == \A r \in Requests : req[r].result \notin {NoResult, Error} => IsAnswer(r, req[r].result)

\* Every call is of the request that a service has.
CallInv == \A call \in clusterd.calls : \E r \in Requests : IsSent(r) /\ call.msg = req[r].msg /\ ~req[r].is_push

-------------------------------------------------------------------------------
(* Payloads and their chunks.                                              *)

\* What a payload consists of: its bytes tell from whom and for what it is, and are
\* numbered.
LEMMA PayloadIs ==
  ASSUME NEW from \in {"request", "service", "failure", "name", "clusterd", "error"},
         NEW n \in Nat, NEW size \in Nat
  PROVE  /\ Payload(from, n, size) \in Bytes /\ Len(Payload(from, n, size)) = size
         /\ \A i \in 1 .. size : Payload(from, n, size)[i] = <<from, n, i>>
<1>1. \A i \in 1 .. size : <<from, n, i>> \in Byte
  BY DEF Byte
<1> QED
  BY <1>1 DEF Payload, Bytes

\* Where the last chunk begins.
LEMMA PartCountIs ==
  ASSUME NEW size \in Nat \ {0}
  PROVE  /\ PartCount(size) \in Nat \ {0}
         /\ (PartCount(size) - 1) * MULTI_PART < size /\ size <= PartCount(size) * MULTI_PART
<1> DEFINE d == (size - 1) \div MULTI_PART
<1>1. MULTI_PART \in Nat \ {0}
  BY WireAssumption
<1>2. d \in Nat /\ d * MULTI_PART <= size - 1 /\ size - 1 < (d + 1) * MULTI_PART
  <2>1. d \in Nat
    BY <1>1
  <2>2. size - 1 = (MULTI_PART * d) + ((size - 1) % MULTI_PART) /\ (size - 1) % MULTI_PART \in 0 .. MULTI_PART - 1
    BY <1>1
  <2> HIDE DEF d
  <2>3. MULTI_PART * d = d * MULTI_PART /\ (d + 1) * MULTI_PART = d * MULTI_PART + MULTI_PART
    BY <1>1, <2>1
  <2>4. d * MULTI_PART \in Nat
    BY <1>1, <2>1
  <2> QED
    BY <1>1, <2>1, <2>2, <2>3, <2>4
<1> HIDE DEF d
<1>3. PartCount(size) = d + 1
  BY DEF PartCount, d
<1>4. d * MULTI_PART \in Nat /\ (d + 1) * MULTI_PART \in Nat
  BY <1>1, <1>2
<1> QED
  BY <1>1, <1>2, <1>3, <1>4

\* Where a chunk ends.
ChunkEnd(msg, i) == IF i = PartCount(Len(msg)) THEN Len(msg) ELSE i * MULTI_PART

\* packreq_multi, packresponse: where a chunk begins and ends, and that it is not empty.
LEMMA ChunkIs ==
  ASSUME NEW msg \in Bytes, msg # <<>>, NEW i \in 1 .. PartCount(Len(msg))
  PROVE  /\ (i - 1) * MULTI_PART \in Nat /\ ChunkEnd(msg, i) \in Nat
         /\ (i - 1) * MULTI_PART < ChunkEnd(msg, i) /\ ChunkEnd(msg, i) <= Len(msg)
         /\ Chunk(msg, i) = SubSeq(msg, (i - 1) * MULTI_PART + 1, ChunkEnd(msg, i))
         /\ Chunk(msg, i) \in Bytes /\ Chunk(msg, i) # <<>>
         /\ Chunk(msg, i)[1] = msg[(i - 1) * MULTI_PART + 1]
<1> DEFINE n == PartCount(Len(msg))
           a == (i - 1) * MULTI_PART
           e == ChunkEnd(msg, i)
<1>1. MULTI_PART \in Nat \ {0} /\ Len(msg) \in Nat \ {0}
  BY WireAssumption DEF Bytes
<1>2. n \in Nat \ {0} /\ (n - 1) * MULTI_PART < Len(msg) /\ Len(msg) <= n * MULTI_PART
  BY <1>1, PartCountIs
<1>3. a \in Nat /\ i * MULTI_PART = a + MULTI_PART
  BY <1>1, <1>2
<1>4. e \in Nat /\ a < e /\ e <= Len(msg)
  <2>1. CASE i = n
    BY <1>1, <1>2, <1>3, <2>1 DEF ChunkEnd
  <2>2. CASE i # n
    <3>1. i <= n - 1 /\ i \in Nat /\ n - 1 \in Nat
      BY <1>2, <2>2
    <3>2. i * MULTI_PART <= (n - 1) * MULTI_PART
      BY <1>1, <3>1
    <3>3. (n - 1) * MULTI_PART \in Nat
      BY <1>1, <3>1
    <3> HIDE DEF n, a
    <3> QED
      BY <1>1, <1>2, <1>3, <2>2, <3>2, <3>3 DEF ChunkEnd, n
  <2> QED
    BY <2>1, <2>2
<1>5. Chunk(msg, i) = SubSeq(msg, a + 1, e)
  BY DEF Chunk, ChunkEnd
<1> HIDE DEF a, e, n
<1>6. SubSeq(msg, a + 1, e) \in Bytes /\ SubSeq(msg, a + 1, e) # <<>> /\ SubSeq(msg, a + 1, e)[1] = msg[a + 1]
  <2>1. Len(SubSeq(msg, a + 1, e)) = e - a /\ SubSeq(msg, a + 1, e) \in Seq(Byte)
    BY <1>1, <1>3, <1>4 DEF Bytes
  <2>2. SubSeq(msg, a + 1, e)[1] = msg[a + 1]
    BY <1>1, <1>3, <1>4 DEF Bytes
  <2> QED
    BY <1>3, <1>4, <2>1, <2>2, EmptySeq DEF Bytes
<1> QED
  BY <1>3, <1>4, <1>5, <1>6 DEF a, e

\* The chunks before one, and it, are the bytes up to its end.
LEMMA ChunkNext ==
  ASSUME NEW msg \in Bytes, msg # <<>>, NEW i \in 1 .. PartCount(Len(msg))
  PROVE  SubSeq(msg, 1, (i - 1) * MULTI_PART) \o Chunk(msg, i) = SubSeq(msg, 1, ChunkEnd(msg, i))
<1> DEFINE a == (i - 1) * MULTI_PART
           e == ChunkEnd(msg, i)
<1>1. a \in Nat /\ e \in Nat /\ a < e /\ e <= Len(msg) /\ Chunk(msg, i) = SubSeq(msg, a + 1, e)
  BY ChunkIs
<1> HIDE DEF a, e
<1>2. SubSeq(msg, 1, a) \o SubSeq(msg, a + 1, e) = SubSeq(msg, 1, e)
  BY <1>1 DEF Bytes
<1> QED
  BY <1>1, <1>2 DEF a, e

-------------------------------------------------------------------------------
(* The packets of a request and of a response.                             *)

RequestBlock(addr, s, msg, is_push) == packrequest(addr, s, msg, is_push).packets

Small(addr, s, msg, is_push) ==
  [type |-> "req", addr |-> addr, session |-> IF is_push THEN 0 ELSE s, data |-> msg]
Multi(addr, s, msg, is_push) ==
  [type |-> "multi", addr |-> addr, session |-> s, size |-> Len(msg), is_push |-> is_push]
RequestPart(s, msg, i) ==
  [type |-> IF i < PartCount(Len(msg)) THEN "more" ELSE "last", session |-> s, data |-> Chunk(msg, i)]

\* One small packet, or a header and the chunks.
LEMMA RequestBlockIs ==
  ASSUME NEW addr \in Addresses, NEW s \in Sessions, NEW msg \in Bytes, msg # <<>>, NEW is_push \in BOOLEAN
  PROVE  /\ RequestBlock(addr, s, msg, is_push) \in Seq(RequestPackets)
         /\ Len(msg) < MULTI_PART =>
              /\ Len(RequestBlock(addr, s, msg, is_push)) = 1
              /\ RequestBlock(addr, s, msg, is_push)[1] = Small(addr, s, msg, is_push)
         /\ Len(msg) >= MULTI_PART =>
              /\ Len(RequestBlock(addr, s, msg, is_push)) = PartCount(Len(msg)) + 1
              /\ RequestBlock(addr, s, msg, is_push)[1] = Multi(addr, s, msg, is_push)
              /\ \A k \in 2 .. PartCount(Len(msg)) + 1 :
                   RequestBlock(addr, s, msg, is_push)[k] = RequestPart(s, msg, k - 1)
<1> DEFINE b == RequestBlock(addr, s, msg, is_push)
           n == PartCount(Len(msg))
<1>0. MULTI_PART \in Nat \ {0} /\ Len(msg) \in Nat \ {0} /\ s \in SessionsOr0 /\ 0 \in SessionsOr0
  BY WireAssumption DEF Bytes, Sessions, SessionsOr0
<1>n. n \in Nat \ {0}
  BY <1>0, PartCountIs
<1>1. CASE Len(msg) < MULTI_PART
  <2>1. b = <<Small(addr, s, msg, is_push)>>
    BY <1>1 DEF RequestBlock, packrequest, packreq, Small
  <2>2. Small(addr, s, msg, is_push) \in RequestPackets
    BY <1>0 DEF Small, RequestPackets
  <2> HIDE DEF b
  <2>3. b \in Seq(RequestPackets) /\ Len(b) = 1 /\ b[1] = Small(addr, s, msg, is_push)
    BY <2>1, <2>2
  <2> QED
    BY <1>0, <1>1, <2>3 DEF b
<1>2. CASE Len(msg) >= MULTI_PART
  <2> DEFINE h == Multi(addr, s, msg, is_push)
             t == [i \in 1 .. n |-> RequestPart(s, msg, i)]
  <2>1. b = <<h>> \o t
    <3>0. ~(Len(msg) < MULTI_PART)
      BY <1>0, <1>2
    <3>1. packreq(addr, s, msg, is_push) = h
      BY <3>0, Zenon DEF packreq, Multi
    <3>2. packreq_multi(s, msg) = t
      BY Zenon DEF packreq_multi, RequestPart
    <3>3. b = <<packreq(addr, s, msg, is_push)>> \o packreq_multi(s, msg)
      BY <3>0 DEF RequestBlock, packrequest
    <3> QED
      BY <3>1, <3>2, <3>3, Zenon
  <2>2. h \in RequestPackets
    BY <1>0 DEF Multi, RequestPackets
  <2>3. ASSUME NEW i \in 1 .. n PROVE RequestPart(s, msg, i) \in RequestPackets
    <3>1. Chunk(msg, i) \in Bytes
      BY ChunkIs
    <3> QED
      BY <3>1 DEF RequestPart, RequestPackets
  <2>4. t \in Seq(RequestPackets) /\ Len(t) = n /\ \A i \in 1 .. n : t[i] = RequestPart(s, msg, i)
    BY <1>n, <2>3
  <2>5. <<h>> \in Seq(RequestPackets) /\ Len(<<h>>) = 1 /\ <<h>>[1] = h
    BY <2>2
  <2> HIDE DEF b, h, t, n
  <2>6. b \in Seq(RequestPackets) /\ Len(b) = 1 + n /\ b[1] = h /\ \A k \in 2 .. n + 1 : b[k] = t[k - 1]
    BY <1>n, <2>1, <2>4, <2>5
  <2>7. \A k \in 2 .. n + 1 : b[k] = RequestPart(s, msg, k - 1)
    <3>1. \A k \in 2 .. n + 1 : k - 1 \in 1 .. n
      BY <1>n
    <3> QED
      BY <2>4, <2>6, <3>1
  <2>8. ~(Len(msg) < MULTI_PART) /\ Len(b) = n + 1 /\ b[1] = Multi(addr, s, msg, is_push)
    BY <1>0, <1>2, <1>n, <2>6 DEF h
  <2> QED
    BY <2>6, <2>7, <2>8, Zenon DEF b, n
<1> QED
  BY <1>0, <1>1, <1>2

\* Its first packet and no other starts a block.
LEMMA RequestBlockStarts ==
  ASSUME NEW addr \in Addresses, NEW s \in Sessions, NEW msg \in Bytes, msg # <<>>, NEW is_push \in BOOLEAN
  PROVE  LET b == RequestBlock(addr, s, msg, is_push)
         IN /\ b \in Seq(RequestPackets) /\ Len(b) >= 1 /\ Starts(b[1])
            /\ \A k \in 2 .. Len(b) : ~Starts(b[k])
            /\ \A k \in 1 .. Len(b) : b[k].type = "req" => k = 1 /\ b[1] = Small(addr, s, msg, is_push)
            /\ \A k \in 1 .. Len(b) : b[k].session = s \/ b[k] = Small(addr, s, msg, is_push)
<1> DEFINE b == RequestBlock(addr, s, msg, is_push)
           n == PartCount(Len(msg))
<1>0. MULTI_PART \in Nat \ {0} /\ Len(msg) \in Nat \ {0}
  BY WireAssumption DEF Bytes
<1>n. n \in Nat \ {0}
  BY <1>0, PartCountIs
<1>b. b \in Seq(RequestPackets)
  BY RequestBlockIs
<1>1. CASE Len(msg) < MULTI_PART
  <2>1. Len(b) = 1 /\ b[1] = Small(addr, s, msg, is_push)
    BY <1>1, RequestBlockIs
  <2> HIDE DEF b
  <2>2. Starts(b[1])
    BY <2>1 DEF Small, Starts
  <2>3. \A k \in 2 .. Len(b) : FALSE
    BY <2>1
  <2>4. \A k \in 1 .. Len(b) : k = 1
    BY <2>1
  <2> QED
    BY <1>b, <2>1, <2>2, <2>3, <2>4 DEF b
<1>2. CASE Len(msg) >= MULTI_PART
  <2>1. Len(b) = n + 1 /\ b[1] = Multi(addr, s, msg, is_push)
        /\ \A k \in 2 .. n + 1 : b[k] = RequestPart(s, msg, k - 1)
    BY <1>2, RequestBlockIs
  <2> HIDE DEF b, n
  <2>2. Starts(b[1]) /\ b[1].type # "req" /\ b[1].session = s
    BY <2>1 DEF Multi, Starts
  <2>3. ASSUME NEW k \in 2 .. n + 1 PROVE ~Starts(b[k]) /\ b[k].type # "req" /\ b[k].session = s
    <3>1. b[k] = RequestPart(s, msg, k - 1)
      BY <2>1
    <3>2. RequestPart(s, msg, k - 1).type \in {"more", "last"} /\ RequestPart(s, msg, k - 1).session = s
      BY DEF RequestPart
    <3> QED
      BY <3>1, <3>2 DEF Starts
  <2>4. \A k \in 1 .. Len(b) : k = 1 \/ k \in 2 .. n + 1
    BY <1>n, <2>1
  <2> QED
    BY <1>b, <1>n, <2>1, <2>2, <2>3, <2>4 DEF b
<1> QED
  BY <1>0, <1>1, <1>2

Begin(s, msg) == [type |-> "begin", session |-> s, total |-> Len(msg)]
ResponsePart(s, msg, i) ==
  Response(IF i < PartCount(Len(msg)) THEN "part" ELSE "end", s, Chunk(msg, i))

\* An error, one packet, or a header and the chunks.
LEMMA ResponseBlockIs ==
  ASSUME NEW s \in SessionsOr0, NEW ok \in BOOLEAN, NEW msg \in Bytes, msg # <<>>
  PROVE  /\ lpackresponse(s, ok, msg) \in Seq(ResponsePackets)
         /\ ~ok => /\ Len(lpackresponse(s, ok, msg)) = 1
                   /\ lpackresponse(s, ok, msg)[1].type = "error"
                   /\ lpackresponse(s, ok, msg)[1].session = s
         /\ ok /\ Len(msg) <= MULTI_PART =>
              /\ Len(lpackresponse(s, ok, msg)) = 1
              /\ lpackresponse(s, ok, msg)[1] = Response("ok", s, msg)
         /\ ok /\ Len(msg) > MULTI_PART =>
              /\ Len(lpackresponse(s, ok, msg)) = PartCount(Len(msg)) + 1
              /\ lpackresponse(s, ok, msg)[1] = Begin(s, msg)
              /\ \A k \in 2 .. PartCount(Len(msg)) + 1 :
                   lpackresponse(s, ok, msg)[k] = ResponsePart(s, msg, k - 1)
<1> DEFINE b == lpackresponse(s, ok, msg)
           n == PartCount(Len(msg))
<1>0. MULTI_PART \in Nat \ {0} /\ Len(msg) \in Nat \ {0}
  BY WireAssumption DEF Bytes
<1>n. n \in Nat \ {0}
  BY <1>0, PartCountIs
<1>1. CASE ~ok
  <2> DEFINE e == SubSeq(msg, 1, IF Len(msg) > MULTI_PART THEN MULTI_PART ELSE Len(msg))
             p == Response("error", s, e)
  <2>1. b = <<p>>
    BY <1>1 DEF lpackresponse
  <2>2. e \in Bytes
    BY <1>0 DEF Bytes
  <2>3. p \in ResponsePackets /\ p.type = "error" /\ p.session = s
    BY <2>2 DEF Response, ResponsePackets
  <2> HIDE DEF b, p
  <2>4. b \in Seq(ResponsePackets) /\ Len(b) = 1 /\ b[1] = p
    BY <2>1, <2>3
  <2> QED
    BY <1>1, <2>3, <2>4 DEF b
<1>2. CASE ok /\ Len(msg) <= MULTI_PART
  <2> DEFINE p == Response("ok", s, msg)
  <2>1. b = <<p>>
    BY <1>0, <1>2 DEF lpackresponse
  <2>2. p \in ResponsePackets
    BY DEF Response, ResponsePackets
  <2> HIDE DEF b, p
  <2>4. b \in Seq(ResponsePackets) /\ Len(b) = 1 /\ b[1] = p
    BY <2>1, <2>2
  <2>5. ok /\ ~(Len(msg) > MULTI_PART)
    BY <1>0, <1>2
  <2> QED
    BY <2>4, <2>5, Zenon DEF b, p
<1>3. CASE ok /\ Len(msg) > MULTI_PART
  <2> DEFINE h == Begin(s, msg)
             t == [i \in 1 .. n |-> ResponsePart(s, msg, i)]
  <2>1. b = <<h>> \o t
    <3>0. ok = TRUE /\ ~(Len(msg) <= MULTI_PART) /\ Len(msg) > MULTI_PART
      BY <1>0, <1>3
    <3>1. b = <<[type |-> "begin", session |-> s, total |-> Len(msg)]>>
              \o [i \in 1 .. n |-> Response(IF i < n THEN "part" ELSE "end", s, Chunk(msg, i))]
      BY <3>0 DEF lpackresponse
    <3> QED
      BY <3>1, Zenon DEF Begin, ResponsePart
  <2>2. h \in ResponsePackets
    BY <1>0 DEF Begin, ResponsePackets
  <2>3. ASSUME NEW i \in 1 .. n PROVE ResponsePart(s, msg, i) \in ResponsePackets
    <3>1. Chunk(msg, i) \in Bytes
      BY ChunkIs
    <3> QED
      BY <3>1 DEF ResponsePart, Response, ResponsePackets
  <2>4. t \in Seq(ResponsePackets) /\ Len(t) = n /\ \A i \in 1 .. n : t[i] = ResponsePart(s, msg, i)
    BY <1>n, <2>3
  <2>5. <<h>> \in Seq(ResponsePackets) /\ Len(<<h>>) = 1 /\ <<h>>[1] = h
    BY <2>2
  <2> HIDE DEF b, h, t, n
  <2>6. b \in Seq(ResponsePackets) /\ Len(b) = 1 + n /\ b[1] = h /\ \A k \in 2 .. n + 1 : b[k] = t[k - 1]
    BY <1>n, <2>1, <2>4, <2>5
  <2>7. \A k \in 2 .. n + 1 : b[k] = ResponsePart(s, msg, k - 1)
    <3>1. \A k \in 2 .. n + 1 : k - 1 \in 1 .. n
      BY <1>n
    <3> QED
      BY <2>4, <2>6, <3>1
  <2>8. ok /\ ~(Len(msg) <= MULTI_PART) /\ Len(b) = n + 1 /\ b[1] = Begin(s, msg)
    BY <1>0, <1>3, <1>n, <2>6 DEF h
  <2> QED
    BY <2>6, <2>7, <2>8, Zenon DEF b, n
<1> QED
  BY <1>0, <1>1, <1>2, <1>3

\* lpackresponse: its first packet starts a block and no other does; all have its
\* session.
LEMMA ResponseBlockStarts ==
  ASSUME NEW s \in SessionsOr0, NEW ok \in BOOLEAN, NEW msg \in Bytes, msg # <<>>
  PROVE  LET b == lpackresponse(s, ok, msg)
         IN /\ b \in Seq(ResponsePackets) /\ Len(b) >= 1 /\ Starts(b[1])
            /\ \A k \in 2 .. Len(b) : ~Starts(b[k])
            /\ \A k \in 1 .. Len(b) : b[k].session = s
<1> DEFINE b == lpackresponse(s, ok, msg)
           n == PartCount(Len(msg))
<1>0. MULTI_PART \in Nat \ {0} /\ Len(msg) \in Nat \ {0}
  BY WireAssumption DEF Bytes
<1>n. n \in Nat \ {0}
  BY <1>0, PartCountIs
<1>b. b \in Seq(ResponsePackets)
  BY ResponseBlockIs
<1>1. CASE ~ok \/ Len(msg) <= MULTI_PART
  <2>1. Len(b) = 1 /\ Starts(b[1]) /\ b[1].session = s
    <3>1. CASE ~ok
      BY <3>1, ResponseBlockIs DEF Starts
    <3>2. CASE ok /\ Len(msg) <= MULTI_PART
      <4>1. Len(b) = 1 /\ b[1] = Response("ok", s, msg)
        BY <3>2, ResponseBlockIs
      <4> HIDE DEF b
      <4> QED
        BY <4>1 DEF Response, Starts
    <3> QED
      BY <1>1, <3>1, <3>2
  <2> HIDE DEF b
  <2>2. \A k \in 2 .. Len(b) : FALSE
    BY <2>1
  <2>3. \A k \in 1 .. Len(b) : k = 1
    BY <2>1
  <2> QED
    BY <1>b, <2>1, <2>2, <2>3 DEF b
<1>2. CASE ok /\ Len(msg) > MULTI_PART
  <2>1. Len(b) = n + 1 /\ b[1] = Begin(s, msg) /\ \A k \in 2 .. n + 1 : b[k] = ResponsePart(s, msg, k - 1)
    BY Zenon, <1>2, ResponseBlockIs
  <2> HIDE DEF b, n
  <2>2. Starts(b[1]) /\ b[1].session = s
    BY <2>1 DEF Begin, Starts
  <2>3. ASSUME NEW k \in 2 .. n + 1 PROVE ~Starts(b[k]) /\ b[k].session = s
    <3>1. b[k] = ResponsePart(s, msg, k - 1)
      BY <2>1
    <3>2. ResponsePart(s, msg, k - 1).type \in {"part", "end"} /\ ResponsePart(s, msg, k - 1).session = s
      BY DEF ResponsePart, Response
    <3> QED
      BY <3>1, <3>2 DEF Starts
  <2>4. \A k \in 1 .. Len(b) : k = 1 \/ k \in 2 .. n + 1
    BY <1>n, <2>1
  <2> QED
    BY <1>b, <1>n, <2>1, <2>2, <2>3, <2>4 DEF b
<1> QED
  BY <1>0, <1>1, <1>2

-------------------------------------------------------------------------------
(* Streams of blocks.                                                      *)

\* A block: its first packet starts one, and only that.
WholeBlock(b) == Len(b) >= 1 /\ Starts(b[1]) /\ \A k \in 2 .. Len(b) : ~Starts(b[k])

\* What follows a stream does not touch its blocks.
LEMMA RunConcat ==
  ASSUME NEW P, NEW u \in Seq(P), NEW v \in Seq(P), NEW b \in Seq(P), NEW i \in 1 .. Len(u), NEW k,
         RunAt(u, i, b, k), v = <<>> \/ Starts(v[1])
  PROVE  RunAt(u \o v, i, b, k)
<1> DEFINE w == u \o v
<1>1. Len(w) = Len(u) + Len(v) /\ (\A j \in 1 .. Len(u) : w[j] = u[j])
      /\ \A j \in Len(u) + 1 .. Len(u) + Len(v) : w[j] = v[j - Len(u)]
  OBVIOUS
<1>2. Len(u) \in Nat /\ Len(v) \in Nat /\ Len(b) \in Nat
  OBVIOUS
<1> HIDE DEF w
<1>3. k \in 1 .. Len(b) /\ i + Len(b) - k <= Len(w)
  BY <1>1, <1>2 DEF RunAt
<1>4. ASSUME NEW j \in k .. Len(b) PROVE w[i + j - k] = b[j]
  <2>1. i + j - k \in 1 .. Len(u) /\ u[i + j - k] = b[j]
    BY Z3, <1>2 DEF RunAt
  <2> QED
    BY <1>1, <2>1
<1>5. ASSUME i + Len(b) - k < Len(w) PROVE Starts(w[i + Len(b) - k + 1])
  <2> DEFINE n == i + Len(b) - k + 1
  <2>1. CASE n <= Len(u)
    <3>1. n \in 1 .. Len(u) /\ Starts(u[n])
      BY SMT, <1>2, <1>3, <2>1 DEF RunAt
    <3> HIDE DEF n
    <3>2. w[n] = u[n]
      BY <1>1, <3>1
    <3> QED
      BY <3>1, <3>2 DEF n
  <2>2. CASE n > Len(u)
    <3>1. n = Len(u) + 1 /\ Len(v) > 0
      <4>1. i + Len(b) - k <= Len(u)
        BY DEF RunAt
      <4>2. i \in Nat /\ k \in Nat
        BY <1>2, <1>3
      <4>3. i + Len(b) - k < Len(u) + Len(v)
        BY <1>1, <1>5
      <4>4. n > Len(u) /\ n \in Int
        BY <1>2, <2>2, <4>2
      <4>5. i + Len(b) - k = Len(u)
        BY <1>2, <4>1, <4>2, <4>4
      <4>6. Len(v) > 0
        BY <1>2, <4>3, <4>5
      <4> QED
        BY <4>5, <4>6
    <3>2. v # <<>>
      BY <3>1
    <3>3. w[Len(u) + 1] = v[1]
      <4> DEFINE m == Len(u) + 1
      <4>1. m \in m .. Len(u) + Len(v) /\ m - Len(u) = 1
        BY <1>2, <3>1
      <4> QED
        BY <1>1, <4>1
    <3> QED
      BY <3>1, <3>2, <3>3
  <2> QED
    BY <1>2, <1>3, <2>1, <2>2
<1> QED
  BY <1>3, <1>4, <1>5 DEF RunAt, w

\* Nor does what precedes it.
LEMMA RunAfter ==
  ASSUME NEW P, NEW u \in Seq(P), NEW v \in Seq(P), NEW b \in Seq(P), NEW i \in 1 .. Len(v), NEW k,
         RunAt(v, i, b, k)
  PROVE  RunAt(u \o v, Len(u) + i, b, k)
<1> DEFINE w == u \o v
<1>1. Len(w) = Len(u) + Len(v) /\ \A j \in 1 .. Len(v) : w[Len(u) + j] = v[j]
  OBVIOUS
<1>2. Len(u) \in Nat /\ Len(v) \in Nat /\ Len(b) \in Nat
  OBVIOUS
<1> HIDE DEF w
<1>3. k \in 1 .. Len(b) /\ Len(u) + i + Len(b) - k <= Len(w)
  BY <1>1, <1>2 DEF RunAt
<1>4. ASSUME NEW j \in k .. Len(b) PROVE w[Len(u) + i + j - k] = b[j]
  <2>1. i + j - k \in 1 .. Len(v) /\ v[i + j - k] = b[j]
    BY <1>2, <1>3 DEF RunAt
  <2>2. w[Len(u) + (i + j - k)] = v[i + j - k]
    BY <1>1, <2>1
  <2>3. Len(u) + (i + j - k) = Len(u) + i + j - k
    BY <1>2, <1>3
  <2> QED
    BY <2>1, <2>2, <2>3
<1>5. ASSUME Len(u) + i + Len(b) - k < Len(w) PROVE Starts(w[Len(u) + i + Len(b) - k + 1])
  <2> DEFINE n == i + Len(b) - k + 1
  <2>1. n \in 1 .. Len(v) /\ Starts(v[n])
    BY SMT, <1>1, <1>2, <1>3, <1>5 DEF RunAt
  <2>2. Len(u) + n = Len(u) + i + Len(b) - k + 1
    BY <1>2, <1>3
  <2> HIDE DEF n
  <2>3. w[Len(u) + n] = v[n]
    BY <1>1, <2>1
  <2> QED
    BY <2>1, <2>2, <2>3
<1> QED
  BY <1>3, <1>4, <1>5 DEF RunAt, w

\* Two streams make a stream.
LEMMA StreamConcat ==
  ASSUME NEW P, NEW B \in SUBSET Seq(P), NEW u \in Seq(P), NEW v \in Seq(P),
         Stream(u, B), Stream(v, B), v = <<>> \/ Starts(v[1])
  PROVE  Stream(u \o v, B)
<1> DEFINE w == u \o v
<1>1. Len(w) = Len(u) + Len(v) /\ (\A j \in 1 .. Len(u) : w[j] = u[j])
      /\ \A j \in 1 .. Len(v) : w[Len(u) + j] = v[j]
  OBVIOUS
<1>2. Len(u) \in Nat /\ Len(v) \in Nat
  OBVIOUS
<1> HIDE DEF w
<1> SUFFICES ASSUME NEW i \in 1 .. Len(w), Starts(w[i]) PROVE \E b \in B : RunAt(w, i, b, 1)
  BY DEF Stream, w
<1>3. CASE i <= Len(u)
  <2>1. i \in 1 .. Len(u) /\ Starts(u[i])
    BY <1>1, <1>2, <1>3
  <2>2. PICK b \in B : RunAt(u, i, b, 1)
    BY <2>1 DEF Stream
  <2>3. RunAt(w, i, b, 1)
    BY <2>1, <2>2, RunConcat DEF w
  <2> QED
    BY <2>3
<1>4. CASE i > Len(u)
  <2> DEFINE j == i - Len(u)
  <2>1. j \in 1 .. Len(v) /\ i = Len(u) + j
    BY <1>1, <1>2, <1>4
  <2> HIDE DEF j
  <2>2. Starts(v[j])
    BY <1>1, <2>1
  <2>3. PICK b \in B : RunAt(v, j, b, 1)
    BY <2>1, <2>2 DEF Stream
  <2>4. RunAt(w, i, b, 1)
    BY <2>1, <2>3, RunAfter DEF w
  <2> QED
    BY <2>4
<1> QED
  BY <1>2, <1>3, <1>4

\* A block is a stream.
LEMMA BlockStream ==
  ASSUME NEW P, NEW B \in SUBSET Seq(P), NEW b \in B, WholeBlock(b)
  PROVE  Stream(b, B) /\ RunAt(b, 1, b, 1)
<1>1. b \in Seq(P) /\ Len(b) \in Nat
  OBVIOUS
<1>2. RunAt(b, 1, b, 1)
  <2>1. \A j \in 1 .. Len(b) : 1 + j - 1 = j
    OBVIOUS
  <2>2. 1 + Len(b) - 1 = Len(b)
    BY <1>1
  <2> QED
    BY <1>1, <2>1, <2>2 DEF RunAt, WholeBlock
<1>3. \A i \in 1 .. Len(b) : Starts(b[i]) => i = 1
  BY <1>1 DEF WholeBlock
<1> QED
  BY <1>2, <1>3 DEF Stream

\* The blocks of a stream whose first packet is taken.
LEMMA StreamTail ==
  ASSUME NEW P, NEW B \in SUBSET Seq(P), NEW u \in Seq(P), u # <<>>, Stream(u, B)
  PROVE  Stream(Tail(u), B)
<1>1. Len(Tail(u)) = Len(u) - 1 /\ \A j \in 1 .. Len(u) - 1 : Tail(u)[j] = u[j + 1]
  OBVIOUS
<1>2. Len(u) \in Nat
  OBVIOUS
<1> SUFFICES ASSUME NEW i \in 1 .. Len(Tail(u)), Starts(Tail(u)[i])
             PROVE  \E b \in B : RunAt(Tail(u), i, b, 1)
  BY DEF Stream
<1>3. i + 1 \in 1 .. Len(u) /\ Starts(u[i + 1])
  BY <1>1, <1>2
<1>4. PICK b \in B : RunAt(u, i + 1, b, 1)
  BY <1>3 DEF Stream
<1> DEFINE t == Tail(u)
<1> HIDE DEF t
<1>5. RunAt(t, i, b, 1)
  <2>0. Len(b) \in Nat /\ Len(t) = Len(u) - 1 /\ \A j \in 1 .. Len(u) - 1 : t[j] = u[j + 1]
    BY <1>1 DEF t
  <2>1. 1 \in 1 .. Len(b) /\ i + Len(b) - 1 <= Len(t)
    BY <1>2, <1>3, <1>4, <2>0 DEF RunAt
  <2>2. ASSUME NEW j \in 1 .. Len(b) PROVE t[i + j - 1] = b[j]
    <3>1. u[i + 1 + j - 1] = b[j] /\ i + j - 1 \in 1 .. Len(u) - 1 /\ i + 1 + j - 1 = (i + j - 1) + 1
      BY <1>2, <1>4, <2>0, <2>1 DEF RunAt
    <3> QED
      BY <2>0, <3>1
  <2>3. ASSUME i + Len(b) - 1 < Len(t) PROVE Starts(t[i + Len(b) - 1 + 1])
    <3> DEFINE n == i + Len(b) - 1 + 1
    <3>1. n \in 1 .. Len(u) - 1 /\ i + 1 + Len(b) - 1 + 1 = n + 1
      BY <1>2, <2>0, <2>1, <2>3
    <3>2. Starts(u[n + 1])
      BY <1>2, <1>4, <2>0, <2>3, <3>1 DEF RunAt
    <3> HIDE DEF n
    <3>3. t[n] = u[n + 1]
      BY <2>0, <3>1
    <3> QED
      BY <3>2, <3>3 DEF n
  <2> QED
    BY <2>1, <2>2, <2>3 DEF RunAt
<1> QED
  BY <1>5 DEF t

\* Inside a block the next packet is the next of the block, and behind it another starts.
LEMMA HeadNext ==
  ASSUME NEW P, NEW u \in Seq(P), u # <<>>, NEW b \in Seq(P), NEW k, RunAt(u, 1, b, k)
  PROVE  /\ k \in 1 .. Len(b) /\ Head(u) = b[k] /\ u[1] = b[k]
         /\ k < Len(b) => Tail(u) # <<>> /\ RunAt(Tail(u), 1, b, k + 1)
         /\ k = Len(b) => Tail(u) = <<>> \/ Starts(Tail(u)[1])
<1>1. Len(Tail(u)) = Len(u) - 1 /\ Tail(u) \in Seq(P) /\ \A j \in 1 .. Len(u) - 1 : Tail(u)[j] = u[j + 1]
  OBVIOUS
<1>2. Len(u) \in Nat /\ Len(b) \in Nat /\ k \in 1 .. Len(b)
  BY DEF RunAt
<1>3. Head(u) = b[k] /\ u[1] = b[k]
  <2>1. 1 + k - k = 1 /\ k \in k .. Len(b)
    BY <1>2
  <2>2. u[1] = b[k]
    BY <2>1 DEF RunAt
  <2> QED
    BY <2>2
<1> DEFINE t == Tail(u)
<1>t. Len(t) = Len(u) - 1 /\ t \in Seq(P) /\ \A j \in 1 .. Len(u) - 1 : t[j] = u[j + 1]
  BY <1>1
<1> HIDE DEF t
<1>4. ASSUME k < Len(b) PROVE t # <<>> /\ RunAt(t, 1, b, k + 1)
  <2>1. k + 1 \in 1 .. Len(b) /\ 1 + Len(b) - (k + 1) <= Len(t) /\ Len(t) > 0
    BY <1>2, <1>4, <1>t DEF RunAt
  <2>2. ASSUME NEW j \in k + 1 .. Len(b) PROVE t[1 + j - (k + 1)] = b[j]
    <3>1. 1 + j - (k + 1) \in 1 .. Len(u) - 1 /\ 1 + j - (k + 1) + 1 = 1 + j - k /\ j \in k .. Len(b)
      BY <1>2, <1>t, <2>1
    <3>2. u[1 + j - k] = b[j]
      BY <3>1 DEF RunAt
    <3> QED
      BY <1>t, <3>1, <3>2
  <2>3. ASSUME 1 + Len(b) - (k + 1) < Len(t) PROVE Starts(t[1 + Len(b) - (k + 1) + 1])
    <3> DEFINE n == 1 + Len(b) - (k + 1) + 1
    <3>1. n \in 1 .. Len(u) - 1 /\ 1 + Len(b) - k + 1 = n + 1
      BY <1>2, <1>t, <2>1, <2>3
    <3>2. Starts(u[n + 1])
      BY <1>2, <1>t, <2>3, <3>1 DEF RunAt
    <3> HIDE DEF n
    <3>3. t[n] = u[n + 1]
      BY <1>t, <3>1
    <3> QED
      BY <3>2, <3>3 DEF n
  <2> QED
    BY <1>t, <2>1, <2>2, <2>3, EmptySeq DEF RunAt
<1>5. ASSUME k = Len(b) PROVE t = <<>> \/ Starts(t[1])
  <2> SUFFICES ASSUME t # <<>> PROVE Starts(t[1])
    OBVIOUS
  <2>1. Len(t) > 0
    BY <1>t, EmptySeq
  <2>2. 1 + Len(b) - k < Len(u) /\ 1 + Len(b) - k + 1 = 2 /\ 1 \in 1 .. Len(u) - 1
    BY <1>2, <1>5, <1>t, <2>1
  <2>3. Starts(u[2])
    BY <2>2 DEF RunAt
  <2> QED
    BY <1>t, <2>2, <2>3
<1> QED
  BY <1>2, <1>3, <1>4, <1>5 DEF t

-------------------------------------------------------------------------------
(* Tables, and what a request that was made is.                            *)

\* A table that is indexed by sessions.
LEMMA TableIs ==
  ASSUME NEW V, NEW t \in Tables(V)
  PROVE  /\ DOMAIN t \in SUBSET Sessions /\ t = [s \in DOMAIN t |-> t[s]]
         /\ \A s \in DOMAIN t : t[s] \in V
BY DEF Tables

\* A function on some sessions is a table.
LEMMA TableOf ==
  ASSUME NEW V, NEW D \in SUBSET Sessions, NEW t \in [D -> V]
  PROVE  t \in Tables(V)
BY DEF Tables

\* Assignment to an entry of a table.
LEMMA WithIs ==
  ASSUME NEW V, NEW t \in Tables(V), NEW s \in Sessions, NEW v \in V
  PROVE  /\ With(t, s, v) \in Tables(V) /\ DOMAIN With(t, s, v) = DOMAIN t \cup {s}
         /\ With(t, s, v)[s] = v /\ \A x \in DOMAIN t : x # s => With(t, s, v)[x] = t[x]
<1>1. DOMAIN t \in SUBSET Sessions /\ \A x \in DOMAIN t : t[x] \in V
  BY TableIs
<1>2. With(t, s, v) \in [DOMAIN t \cup {s} -> V]
  BY <1>1 DEF With
<1>3. With(t, s, v) \in Tables(V)
  BY <1>1, <1>2, TableOf
<1> QED
  BY <1>3 DEF With

\* Assignment of nil to an entry of a table.
LEMMA WithoutIs ==
  ASSUME NEW V, NEW t \in Tables(V), NEW s
  PROVE  /\ Without(t, s) \in Tables(V) /\ DOMAIN Without(t, s) = DOMAIN t \ {s}
         /\ \A x \in DOMAIN t \ {s} : Without(t, s)[x] = t[x]
<1>1. DOMAIN t \in SUBSET Sessions /\ \A x \in DOMAIN t : t[x] \in V
  BY TableIs
<1>2. Without(t, s) \in [DOMAIN t \ {s} -> V]
  BY <1>1 DEF Without
<1>3. Without(t, s) \in Tables(V)
  BY <1>1, <1>2, TableOf
<1> QED
  BY <1>3 DEF Without

\* The table with no entry, which Lua's {} is.
LEMMA EmptyTable ==
  ASSUME NEW V
  PROVE  <<>> \in Tables(V) /\ DOMAIN <<>> = {}
<1>1. <<>> \in [{} -> V] /\ DOMAIN <<>> = {}
  OBVIOUS
<1> QED
  BY <1>1, TableOf

\* r was made, and what it sends.
IsMade(r) == req[r].state # "none"

\* The fields of a request that command.req or command.push has made.
LEMMA MadeIs ==
  ASSUME TypeInv, MadeInv, NEW r \in Requests, IsMade(r)
  PROVE  /\ req[r].addr \in Addresses /\ req[r].session \in Sessions /\ req[r].is_push \in BOOLEAN
         /\ req[r].msg \in Bytes /\ req[r].msg # <<>> /\ Len(req[r].msg) \in Nat \ {0}
         /\ \A i \in 1 .. Len(req[r].msg) : req[r].msg[i] = <<"request", r, i>>
         /\ Packets(r) = RequestBlock(req[r].addr, req[r].session, req[r].msg, req[r].is_push)
<1>1. req[r] \in RequestRecords /\ req[r].session \in Sessions
  BY DEF TypeInv, MadeInv, IsMade
<1>2. PICK size \in Sizes : req[r].msg = Payload("request", r, size)
  BY DEF MadeInv, IsMade
<1>3. size \in Nat \ {0} /\ r \in Nat
  BY ClusterAssumption DEF Requests
<1>4. req[r].msg \in Bytes /\ Len(req[r].msg) = size /\ \A i \in 1 .. size : req[r].msg[i] = <<"request", r, i>>
  BY Z3, <1>2, <1>3, PayloadIs
<1>5. req[r].msg # <<>>
  BY <1>3, <1>4
<1> QED
  BY <1>1, <1>3, <1>4, <1>5 DEF RequestRecords, Packets, RequestBlock

\* The session in the packet of a small request.
WireSession(r) == IF req[r].is_push THEN 0 ELSE req[r].session
SmallOf(r) == [type |-> "req", addr |-> req[r].addr, session |-> WireSession(r), data |-> req[r].msg]
MultiOf(r) == [type |-> "multi", addr |-> req[r].addr, session |-> req[r].session,
               size |-> Len(req[r].msg), is_push |-> req[r].is_push]
PartOf(r, i) == RequestPart(req[r].session, req[r].msg, i)
IsLarge(r) == Len(req[r].msg) >= MULTI_PART

\* packrequest: the packets of a request that was made, one by one.
LEMMA PacketsAre ==
  ASSUME TypeInv, MadeInv, NEW r \in Requests, IsMade(r)
  PROVE  /\ Packets(r) \in Seq(RequestPackets) /\ WholeBlock(Packets(r))
         /\ ~IsLarge(r) => Len(Packets(r)) = 1 /\ Packets(r)[1] = SmallOf(r)
         /\ IsLarge(r) => /\ Len(Packets(r)) = PartCount(Len(req[r].msg)) + 1
                          /\ PartCount(Len(req[r].msg)) \in Nat \ {0}
                          /\ Packets(r)[1] = MultiOf(r)
                          /\ \A k \in 2 .. Len(Packets(r)) : Packets(r)[k] = PartOf(r, k - 1)
         /\ \A k \in 1 .. Len(Packets(r)) : Packets(r)[k].type = "req" => k = 1 /\ ~IsLarge(r)
         /\ \A k \in 1 .. Len(Packets(r)) : Packets(r)[k].session = IF IsLarge(r) THEN req[r].session ELSE WireSession(r)
<1> DEFINE b == RequestBlock(req[r].addr, req[r].session, req[r].msg, req[r].is_push)
           n == PartCount(Len(req[r].msg))
<1>1. /\ req[r].addr \in Addresses /\ req[r].session \in Sessions /\ req[r].is_push \in BOOLEAN
      /\ req[r].msg \in Bytes /\ req[r].msg # <<>> /\ Len(req[r].msg) \in Nat \ {0} /\ Packets(r) = b
  BY MadeIs
<1>2. /\ b \in Seq(RequestPackets)
      /\ Len(req[r].msg) < MULTI_PART => Len(b) = 1 /\ b[1] = Small(req[r].addr, req[r].session, req[r].msg, req[r].is_push)
      /\ Len(req[r].msg) >= MULTI_PART =>
              /\ Len(b) = n + 1 /\ b[1] = Multi(req[r].addr, req[r].session, req[r].msg, req[r].is_push)
              /\ \A k \in 2 .. n + 1 : b[k] = RequestPart(req[r].session, req[r].msg, k - 1)
  BY <1>1, RequestBlockIs, SMTT(30)
<1>3. WholeBlock(b)
  <2>1. Len(b) >= 1 /\ Starts(b[1]) /\ \A k \in 2 .. Len(b) : ~Starts(b[k])
    BY <1>1, RequestBlockStarts
  <2> QED
    BY <2>1, Zenon DEF WholeBlock
<1>4. n \in Nat \ {0} /\ MULTI_PART \in Nat \ {0}
  BY <1>1, PartCountIs, WireAssumption
<1>5. ~IsLarge(r) <=> Len(req[r].msg) < MULTI_PART
  BY <1>1, <1>4 DEF IsLarge
<1> HIDE DEF b, n
<1>6. CASE ~IsLarge(r)
  <2>1. Len(b) = 1 /\ b[1] = SmallOf(r)
    BY <1>2, <1>5, <1>6 DEF Small, SmallOf, WireSession
  <2>2. \A k \in 1 .. Len(b) : k = 1
    BY <2>1
  <2>3. b[1].session = WireSession(r)
    BY <2>1 DEF SmallOf
  <2> QED
    BY <1>1, <1>2, <1>3, <1>6, <2>1, <2>2, <2>3
<1>7. CASE IsLarge(r)
  <2>1. Len(b) = n + 1 /\ b[1] = MultiOf(r) /\ \A k \in 2 .. n + 1 : b[k] = PartOf(r, k - 1)
    BY <1>2, <1>5, <1>7 DEF Multi, MultiOf, PartOf, IsLarge
  <2>2. b[1].type # "req" /\ b[1].session = req[r].session
    BY <2>1 DEF MultiOf
  <2>3. ASSUME NEW k \in 2 .. n + 1 PROVE b[k].type # "req" /\ b[k].session = req[r].session
    <3>1. b[k] = PartOf(r, k - 1)
      BY <2>1
    <3>2. PartOf(r, k - 1).type \in {"more", "last"} /\ PartOf(r, k - 1).session = req[r].session
      BY DEF PartOf, RequestPart
    <3> QED
      BY <3>1, <3>2
  <2>4. \A k \in 1 .. Len(b) : k = 1 \/ k \in 2 .. n + 1
    BY <1>4, <2>1
  <2> QED
    BY <1>1, <1>2, <1>3, <1>4, <1>7, <2>1, <2>2, <2>3, <2>4 DEF n
<1> QED
  BY <1>6, <1>7

\* Whose a small packet or a part is.
LEMMA DataTells ==
  ASSUME TypeInv, MadeInv, NEW r \in Requests, NEW q \in Requests, IsMade(r), IsMade(q),
         req[r].msg = req[q].msg
  PROVE  r = q
<1>1. req[r].msg[1] = <<"request", r, 1>> /\ req[q].msg[1] = <<"request", q, 1>>
  BY MadeIs
<1> QED
  BY <1>1

\* What every step keeps of the requests that were made.
Kept(r) ==
  /\ req[r].state # "none" => /\ req'[r].state # "none"
                              /\ req'[r].addr = req[r].addr /\ req'[r].session = req[r].session
                              /\ req'[r].msg = req[r].msg /\ req'[r].is_push = req[r].is_push
  /\ IsSent(r) => req'[r].state \notin {"none", "connect"}

\* Packets do not change while the request's fields stay.
LEMMA KeptPackets ==
  ASSUME NEW r \in Requests, IsMade(r), Kept(r)
  PROVE  Packets(r)' = Packets(r)
BY DEF IsMade, Kept, Packets

-------------------------------------------------------------------------------
(* What Deliver and Answer do with the packets of requests.                *)

\* socket.send appends to what is under way, on a connection that both ends hold.
LEMMA RespondIs ==
  ASSUME NEW l \in [Conns -> Links], NEW c \in Conns, NEW packets \in Seq(ResponsePackets)
  PROVE  /\ Respond(l, c, packets) \in [Conns -> Links]
         /\ \A d \in Conns : d # c => Respond(l, c, packets)[d] = l[d]
         /\ Respond(l, c, packets)[c].up = l[c].up
         /\ Respond(l, c, packets)[c].client = l[c].client /\ Respond(l, c, packets)[c].server = l[c].server
         /\ Respond(l, c, packets)[c].cut = l[c].cut
         /\ Respond(l, c, packets)[c].large_request = l[c].large_request
         /\ Respond(l, c, packets)[c].down =
              IF l[c].server /\ ~l[c].cut /\ clusterd.listening THEN l[c].down \o packets ELSE l[c].down
<1>1. l[c].down \in Seq(ResponsePackets)
  BY DEF Links
<1>2. l[c].down \o packets \in Seq(ResponsePackets)
  BY <1>1
<1> QED
  BY <1>2 DEF Respond, Links

Taken(c) == [link EXCEPT ![c].up = Tail(@)]

\* read_loop takes the first packet: only what is under way to clusterd changes.
LEMMA TakenIs ==
  ASSUME TypeInv, NEW c \in Conns, link[c].up # <<>>
  PROVE  /\ Taken(c) \in [Conns -> Links]
         /\ \A d \in Conns : d # c => Taken(c)[d] = link[d]
         /\ Taken(c)[c].up = Tail(link[c].up) /\ Taken(c)[c].down = link[c].down
         /\ Taken(c)[c].client = link[c].client /\ Taken(c)[c].server = link[c].server
         /\ Taken(c)[c].cut = link[c].cut /\ Taken(c)[c].large_request = link[c].large_request
<1>1. Tail(link[c].up) \in Seq(RequestPackets)
  BY DEF TypeInv, Links
<1> QED
  BY <1>1 DEF TypeInv, Links, Taken

\* The table of clusterd's parts on connection c changes with a packet.
TakenWith(c, large) == [Taken(c) EXCEPT ![c].large_request = large]

\* read_loop takes the first packet and dispatch_request changes large_request.
LEMMA TakenWithIs ==
  ASSUME TypeInv, NEW c \in Conns, link[c].up # <<>>, NEW large \in Tables(Large)
  PROVE  /\ TakenWith(c, large) \in [Conns -> Links]
         /\ \A d \in Conns : d # c => TakenWith(c, large)[d] = link[d]
         /\ TakenWith(c, large)[c].up = Tail(link[c].up) /\ TakenWith(c, large)[c].down = link[c].down
         /\ TakenWith(c, large)[c].client = link[c].client /\ TakenWith(c, large)[c].server = link[c].server
         /\ TakenWith(c, large)[c].cut = link[c].cut /\ TakenWith(c, large)[c].large_request = large
<1> DEFINE t == Taken(c)
<1>1. t \in [Conns -> Links] /\ (\A d \in Conns : d # c => t[d] = link[d])
      /\ t[c].up = Tail(link[c].up) /\ t[c].down = link[c].down /\ t[c].client = link[c].client
      /\ t[c].server = link[c].server /\ t[c].cut = link[c].cut
  BY TakenIs
<1>2. TakenWith(c, large) = [t EXCEPT ![c].large_request = large]
  BY DEF TakenWith
<1> HIDE DEF t
<1> QED
  BY SMT, <1>1, <1>2 DEF Links

\* The packet at the other end of connection c is the k-th of r.
Heads(c, r, k) == IsSent(r) /\ k \in 1 .. Len(Packets(r)) /\ RunAt(link[c].up, 1, Packets(r), k)

\* A query, or a name that is not known.
AnswersItself(c, r) ==
  /\ ~IsLarge(r) /\ delivered' = delivered
  /\ \E name \in Handles \cup {0} : clusterd' = [clusterd EXCEPT !.register_name_cache = name]
  /\ \E ok \in BOOLEAN, m \in Replies :
       /\ ok => req[r].addr = QUERY /\ IsAnswer(r, m)
       /\ link' = Respond(Taken(c), c, lpackresponse(WireSession(r), ok, m))

CallOf(c, r) == [conn |-> c, session |-> req[r].session, msg |-> req[r].msg]

\* A push or a request for a service.
HandsOver(c, r) ==
  /\ ~IsLarge(r) /\ req[r].addr # QUERY /\ link' = Taken(c)
  /\ \E handle \in Handles :
       /\ isname(req[r].addr) \/ req[r].addr = handle
       /\ delivered' = Append(delivered, [handle |-> handle, msg |-> req[r].msg, is_push |-> req[r].is_push])
  /\ \E name \in Handles \cup {0} :
       clusterd' = [clusterd EXCEPT !.register_name_cache = name,
                                    !.calls = IF req[r].is_push THEN @ ELSE @ \cup {CallOf(c, r)}]

\* The header of a large request.
OpensLarge(c, r) ==
  /\ IsLarge(r) /\ UNCHANGED <<clusterd, delivered>>
  /\ DOMAIN link[c].large_request = {}
  /\ link' = TakenWith(c, With(link[c].large_request, req[r].session,
                               [addr |-> req[r].addr, is_push |-> req[r].is_push, parts |-> <<>>]))

\* A part that is not the last.
AddsPart(c, r, k) ==
  LET large == link[c].large_request
      s == req[r].session
  IN /\ IsLarge(r) /\ UNCHANGED <<clusterd, delivered>>
     /\ Assembling(large, r, k)
     /\ link' = TakenWith(c, With(large, s, [large[s] EXCEPT !.parts = Append(@, String(Chunk(req[r].msg, k - 1)))]))

\* The last part: without its size the request cannot be put together.
RefusesLarge(c, r) ==
  /\ IsLarge(r) /\ UNCHANGED <<clusterd, delivered>>
  /\ DOMAIN link[c].large_request = {req[r].session}
  /\ link' = Respond(TakenWith(c, Without(link[c].large_request, req[r].session)), c,
                     lpackresponse(req[r].session, FALSE, Refusal))

\* The messages that clusterd answers with are not empty.
LEMMA RepliesAre ==
  /\ Refusal \in Replies /\ \A h \in Handles : Payload("name", h, 1) \in Replies
  /\ \A m \in Replies : m \in Bytes /\ m # <<>>
  /\ \A r \in Requests : Payload("failure", r, 1) \in Replies
  /\ \A r \in Requests : \A size \in ReplySizes : Payload("service", r, size) \in Replies
<1>0. Refusal = Payload("clusterd", 0, 1) /\ Handles \subseteq Nat \ {0} /\ Requests \subseteq Nat
      /\ ReplySizes \subseteq Nat \ {0}
  BY ClusterAssumption DEF Refusal, Requests
<1>1. ASSUME NEW m \in Replies PROVE m \in Bytes /\ m # <<>>
  <2>1. PICK f \in {"request", "service", "failure", "name", "clusterd", "error"}, n \in Nat, size \in Nat \ {0} :
          m = Payload(f, n, size)
    <3>1. CASE \E r \in Requests, size \in ReplySizes : m = Payload("service", r, size)
      BY <1>0, <3>1
    <3>2. CASE \E h \in Handles : m = Payload("name", h, 1)
      BY <1>0, <3>2
    <3>3. CASE \E r \in Requests : m = Payload("failure", r, 1)
      BY <1>0, <3>3
    <3>4. CASE m = Refusal
      BY <1>0, <3>4
    <3> QED
      BY <3>1, <3>2, <3>3, <3>4 DEF Replies
  <2>2. m \in Bytes /\ Len(m) = size
    BY <2>1, PayloadIs
  <2> QED
    BY <2>2
<1> QED
  BY <1>1 DEF Replies

\* What clusterd takes from the connection is a packet of a request that was sent.
LEMMA HeadIs ==
  ASSUME TypeInv, MadeInv, UpInv, NEW c \in Conns, link[c].up # <<>>
  PROVE  \E r \in Requests : \E k \in 1 .. Len(Packets(r)) :
           /\ Heads(c, r, k) /\ Head(link[c].up) = Packets(r)[k]
           /\ k = 1 => DOMAIN link[c].large_request = {}
           /\ k > 1 => Assembling(link[c].large_request, r, k)
<1> DEFINE u == link[c].up
<1>1. u \in Seq(RequestPackets) /\ u # <<>> /\ 1 \in 1 .. Len(u)
  BY DEF TypeInv, Links
<1>2. CASE Starts(u[1])
  <2>1. PICK b \in RequestBlocks : RunAt(u, 1, b, 1)
    BY <1>1, <1>2 DEF UpInv, UpOf, Stream
  <2>2. PICK r \in Requests : IsSent(r) /\ b = Packets(r)
    BY <2>1 DEF RequestBlocks
  <2>3. Packets(r) \in Seq(RequestPackets)
    BY <2>2, PacketsAre DEF IsSent, IsMade
  <2>4. 1 \in 1 .. Len(b) /\ Head(u) = b[1]
    BY <1>1, <2>1, <2>2, <2>3, HeadNext
  <2>5. DOMAIN link[c].large_request = {}
    BY <1>2 DEF UpInv, UpOf
  <2> QED
    BY <2>1, <2>2, <2>4, <2>5 DEF Heads
<1>3. CASE ~Starts(u[1])
  <2>1. PICK r \in Requests : \E k \in 2 .. Len(Packets(r)) :
           /\ IsSent(r) /\ RunAt(u, 1, Packets(r), k) /\ Assembling(link[c].large_request, r, k)
    BY <1>1, <1>3 DEF UpInv, UpOf
  <2>2. PICK k \in 2 .. Len(Packets(r)) :
           /\ IsSent(r) /\ RunAt(u, 1, Packets(r), k) /\ Assembling(link[c].large_request, r, k)
    BY <2>1
  <2>3. Packets(r) \in Seq(RequestPackets)
    BY <2>2, PacketsAre DEF IsSent, IsMade
  <2>4. k \in 1 .. Len(Packets(r)) /\ Head(u) = Packets(r)[k]
    BY <1>1, <2>2, <2>3, HeadNext
  <2>5. k > 1 /\ k # 1
    BY <2>2
  <2> QED
    BY <2>2, <2>4, <2>5 DEF Heads
<1> QED
  BY <1>2, <1>3

\* The elements of a sequence with one more at its end.
LEMMA AppendIs ==
  ASSUME NEW T, NEW u \in Seq(T), NEW v \in T
  PROVE  /\ Append(u, v) \in Seq(T) /\ Len(Append(u, v)) = Len(u) + 1 /\ Len(u) \in Nat
         /\ Append(u, v) # <<>> /\ Append(u, v)[1] \in T
         /\ \A i \in 1 .. Len(u) : Append(u, v)[i] = u[i]
         /\ Append(u, v)[Len(u) + 1] = v
<1> DEFINE w == Append(u, v)
<1>1. w \in Seq(T) /\ Len(w) = Len(u) + 1 /\ Len(u) \in Nat
  OBVIOUS
<1>2. \A i \in 1 .. Len(u) : w[i] = u[i]
  OBVIOUS
<1>3. w[Len(u) + 1] = v
  OBVIOUS
<1> HIDE DEF w
<1>4. w # <<>> /\ 1 \in 1 .. Len(w)
  BY <1>1
<1>5. w[1] \in T
  BY <1>1, <1>4
<1> QED
  BY <1>1, <1>2, <1>3, <1>4, <1>5 DEF w

\* unpackreq_number: what is read from a request that came whole.
LEMMA UnpackSmall ==
  ASSUME NEW q, q.type = "req"
  PROVE  /\ lunpackrequest(q).addr = <<q.addr>> /\ lunpackrequest(q).session = q.session
         /\ lunpackrequest(q).msg = <<q.data>> /\ lunpackrequest(q).sz = Len(q.data)
         /\ lunpackrequest(q).padding = FALSE /\ lunpackrequest(q).is_push = (q.session = 0)
<1>1. lunpackrequest(q) = [addr |-> Some(q.addr), session |-> q.session, msg |-> Some(q.data), sz |-> Len(q.data),
          padding |-> FALSE, is_push |-> q.session = 0]
  BY DEF lunpackrequest
<1> QED
  BY <1>1 DEF Some

\* unpackreq_number: what is read from the header of a large request, whose msg is nil.
LEMMA UnpackMulti ==
  ASSUME NEW q, q.type = "multi"
  PROVE  /\ lunpackrequest(q).addr = <<q.addr>> /\ lunpackrequest(q).session = q.session
         /\ lunpackrequest(q).msg = None /\ lunpackrequest(q).sz = q.size
         /\ lunpackrequest(q).padding = TRUE /\ lunpackrequest(q).is_push = q.is_push
<1>1. lunpackrequest(q) = [addr |-> Some(q.addr), session |-> q.session, msg |-> None, sz |-> q.size,
          padding |-> TRUE, is_push |-> q.is_push]
  BY DEF lunpackrequest
<1> QED
  BY <1>1 DEF Some

\* unpackmreq_part: what is read from a part that is not the last.
LEMMA UnpackMore ==
  ASSUME NEW q, q.type = "more"
  PROVE  /\ lunpackrequest(q).session = q.session /\ lunpackrequest(q).msg = <<q.data>>
         /\ lunpackrequest(q).sz = Len(q.data) /\ lunpackrequest(q).padding = TRUE
<1>1. lunpackrequest(q) = [addr |-> None, session |-> q.session, msg |-> Some(q.data), sz |-> Len(q.data),
          padding |-> q.type = "more", is_push |-> FALSE]
  BY DEF lunpackrequest
<1>2. /\ lunpackrequest(q).session = q.session
      /\ lunpackrequest(q).msg = <<q.data>> /\ lunpackrequest(q).sz = Len(q.data)
  BY <1>1 DEF Some
<1>3. lunpackrequest(q).padding = (q.type = "more")
  BY <1>1
<1>4. (q.type = "more") = TRUE
  OBVIOUS
<1> QED
  BY <1>2, <1>3, <1>4, Zenon

\* unpackmreq_part: what is read from the last part.
LEMMA UnpackLast ==
  ASSUME NEW q, q.type = "last"
  PROVE  /\ lunpackrequest(q).session = q.session /\ lunpackrequest(q).msg = <<q.data>>
         /\ lunpackrequest(q).sz = Len(q.data) /\ lunpackrequest(q).padding = FALSE
<1>1. lunpackrequest(q) = [addr |-> None, session |-> q.session, msg |-> Some(q.data), sz |-> Len(q.data),
          padding |-> q.type = "more", is_push |-> FALSE]
  BY DEF lunpackrequest
<1>2. /\ lunpackrequest(q).session = q.session
      /\ lunpackrequest(q).msg = <<q.data>> /\ lunpackrequest(q).sz = Len(q.data)
  BY <1>1 DEF Some
<1>3. lunpackrequest(q).padding = (q.type = "more")
  BY <1>1
<1>4. (q.type = "more") = FALSE
  OBVIOUS
<1> QED
  BY <1>2, <1>3, <1>4, Zenon

\* dispatch_request of a small request.
LEMMA SmallDispatch ==
  ASSUME TypeInv, MadeInv, NEW c \in Conns, NEW r \in Requests, IsSent(r), ~IsLarge(r),
         Dispatch(Taken(c), c, req[r].addr, WireSession(r), req[r].msg, WireSession(r) = 0)
  PROVE  AnswersItself(c, r) \/ HandsOver(c, r)
<1> DEFINE handle == IF isname(req[r].addr) THEN Cached ELSE req[r].addr
           addr == req[r].addr
           name == IF addr = QUERY \/ isname(addr) THEN Cached ELSE clusterd.register_name_cache
<1>0. /\ addr \in Addresses /\ req[r].session \in Sessions /\ req[r].is_push \in BOOLEAN
      /\ clusterd \in Daemons
  BY MadeIs DEF IsSent, IsMade, TypeInv
<1>1. Cached \in Handles \cup {0} /\ name \in Handles \cup {0}
  BY <1>0 DEF Cached, Daemons
<1>2. (WireSession(r) = 0) = req[r].is_push
  BY <1>0 DEF WireSession, Sessions
<1>3. CASE addr = QUERY
  <2>1. /\ clusterd' = [clusterd EXCEPT !.register_name_cache = name] /\ delivered' = delivered
        /\ link' = Respond(Taken(c), c, IF Cached # 0 THEN lpackresponse(WireSession(r), TRUE, Payload("name", Cached, 1))
                                                     ELSE lpackresponse(WireSession(r), FALSE, Refusal))
    BY <1>3, Zenon DEF Dispatch
  <2>2. CASE Cached # 0
    <3>1. Cached \in Handles
      BY <1>1, <2>2
    <3>2. IsAnswer(r, Payload("name", Cached, 1)) /\ Payload("name", Cached, 1) \in Replies
      BY <1>3, <3>1, RepliesAre DEF IsAnswer
    <3>3. link' = Respond(Taken(c), c, lpackresponse(WireSession(r), TRUE, Payload("name", Cached, 1)))
      BY <2>1, <2>2
    <3> QED
      BY <1>1, <1>3, <2>1, <3>2, <3>3, Zenon DEF AnswersItself
  <2>3. CASE Cached = 0
    <3>1. link' = Respond(Taken(c), c, lpackresponse(WireSession(r), FALSE, Refusal))
      BY <2>1, <2>3
    <3> QED
      BY <1>1, <2>1, <3>1, RepliesAre, Zenon DEF AnswersItself
  <2> QED
    BY <2>2, <2>3
<1>4. CASE addr # QUERY /\ handle = 0
  <2>1. /\ clusterd' = [clusterd EXCEPT !.register_name_cache = name] /\ delivered' = delivered
        /\ link' = Respond(Taken(c), c, lpackresponse(WireSession(r), FALSE, Refusal))
    BY <1>4, Zenon DEF Dispatch
  <2> QED
    BY <1>1, <2>1, RepliesAre, Zenon DEF AnswersItself
<1>5. CASE addr # QUERY /\ handle # 0
  <2>1. /\ clusterd' = [[clusterd EXCEPT !.register_name_cache = name] EXCEPT !.calls =
                          IF WireSession(r) = 0 THEN @
                          ELSE @ \cup {[conn |-> c, session |-> WireSession(r), msg |-> req[r].msg]}]
        /\ delivered' = Append(delivered, [handle |-> handle, msg |-> req[r].msg, is_push |-> WireSession(r) = 0])
        /\ link' = Taken(c)
    BY <1>5, Zenon DEF Dispatch
  <2>2. clusterd' = [clusterd EXCEPT !.register_name_cache = name,
                                     !.calls = IF req[r].is_push THEN @ ELSE @ \cup {CallOf(c, r)}]
    <3>1. ~req[r].is_push => CallOf(c, r) = [conn |-> c, session |-> WireSession(r), msg |-> req[r].msg]
      BY DEF CallOf, WireSession
    <3> HIDE DEF name
    <3> QED
      BY <1>0, <1>2, <2>1, <3>1 DEF Daemons
  <2>3. delivered' = Append(delivered, [handle |-> handle, msg |-> req[r].msg, is_push |-> req[r].is_push])
    BY <1>2, <2>1, Zenon
  <2>4. handle \in Handles /\ (isname(addr) \/ addr = handle)
    <3>1. CASE isname(addr)
      BY <1>1, <1>5, <3>1
    <3>2. CASE ~isname(addr)
      BY <1>0, <1>5, <3>2 DEF Addresses, isname
    <3> QED
      BY <3>1, <3>2
  <2> QED
    BY <1>1, <1>5, <2>1, <2>2, <2>3, <2>4, Zenon DEF HandsOver
<1> QED
  BY <1>3, <1>4, <1>5

\* dispatch_request on the next packet, which is the k-th of a request r: a request that
\* came whole is answered at once or handed over; a header opens large_request, a part is
\* appended, and the last part of a large request is refused.
LEMMA DeliverCases ==
  ASSUME TypeInv, MadeInv, UpInv, NEW c \in Conns, Deliver(c)
  PROVE  /\ link[c].server /\ link[c].up # <<>>
         /\ UNCHANGED <<session, channel, wakeup, req, stranded, crashed, commands>>
         /\ \E r \in Requests : \E k \in 1 .. Len(Packets(r)) :
              /\ Heads(c, r, k)
              /\ \/ k = 1 /\ AnswersItself(c, r)
                 \/ k = 1 /\ HandsOver(c, r)
                 \/ k = 1 /\ OpensLarge(c, r)
                 \/ k > 1 /\ k < Len(Packets(r)) /\ AddsPart(c, r, k)
                 \/ k > 1 /\ k = Len(Packets(r)) /\ RefusesLarge(c, r)
<1>1. /\ link[c].server /\ link[c].up # <<>>
      /\ UNCHANGED <<session, channel, wakeup, req, stranded, crashed, commands>>
  BY Zenon DEF Deliver
<1>2. PICK r \in Requests : \E k \in 1 .. Len(Packets(r)) :
           /\ Heads(c, r, k) /\ Head(link[c].up) = Packets(r)[k]
           /\ k = 1 => DOMAIN link[c].large_request = {}
           /\ k > 1 => Assembling(link[c].large_request, r, k)
  BY <1>1, HeadIs
<1>3. PICK k \in 1 .. Len(Packets(r)) :
           /\ Heads(c, r, k) /\ Head(link[c].up) = Packets(r)[k]
           /\ k = 1 => DOMAIN link[c].large_request = {}
           /\ k > 1 => Assembling(link[c].large_request, r, k)
  BY Zenon, <1>2
<1> DEFINE head == Head(link[c].up)
           p == lunpackrequest(Head(link[c].up))
           large == link[c].large_request
           known == p.session \in DOMAIN large
           part == IF known THEN large[p.session]
                   ELSE [addr |-> IF p.addr = None THEN QUERY ELSE p.addr[1], is_push |-> p.is_push, parts |-> <<>>]
           appended == [part EXCEPT !.parts = IF p.msg = None THEN @ ELSE lappend(@, p.msg, p.sz)]
           whole == lconcat(appended.parts)
           taken == [link EXCEPT ![c].up = Tail(@)]
           settled == [taken EXCEPT ![c].large_request = Without(@, p.session)]
<1>4. (CASE p.padding ->
               /\ link' = [taken EXCEPT ![c].large_request = With(@, p.session, appended)]
               /\ UNCHANGED <<clusterd, delivered>>
        [] ~p.padding /\ known /\ whole.outcome # "string" ->
               /\ link' = Respond(settled, c, lpackresponse(p.session, FALSE, Refusal))
               /\ UNCHANGED <<clusterd, delivered>>
        [] ~p.padding /\ known /\ whole.outcome = "string" ->
               Dispatch(settled, c, appended.addr, p.session, whole.msg, appended.is_push)
        [] ~p.padding /\ ~known ->
               Dispatch(taken, c, p.addr[1], p.session, p.msg[1], p.is_push))
  BY Zenon DEF Deliver
<1>m. IsMade(r) /\ IsSent(r)
  BY <1>3 DEF Heads, IsSent, IsMade
<1>l. link[c] \in Links /\ large \in Tables(Large)
  BY DEF TypeInv, Links
<1>t. taken = Taken(c) /\ taken[c].large_request = large
  <2>1. taken = Taken(c)
    BY DEF Taken
  <2> HIDE DEF taken
  <2> QED
    BY <1>1, <2>1, TakenIs
<1>5. CASE k = 1 /\ ~IsLarge(r)
  <2>1. head = SmallOf(r)
    BY <1>3, <1>5, <1>m, PacketsAre
  <2>2. /\ p.padding = FALSE /\ p.addr = <<req[r].addr>> /\ p.session = WireSession(r)
        /\ p.msg = <<req[r].msg>> /\ p.is_push = (WireSession(r) = 0)
    <3>1. /\ head.type = "req" /\ head.addr = req[r].addr /\ head.session = WireSession(r)
          /\ head.data = req[r].msg
      BY <2>1 DEF SmallOf
    <3> QED
      BY <3>1, UnpackSmall
  <2>3. ~known
    BY <1>3, <1>5
  <2> HIDE DEF p, known, appended, whole, settled, taken
  <2>4. Dispatch(taken, c, p.addr[1], p.session, p.msg[1], p.is_push)
    BY <1>4, <2>2, <2>3
  <2>5. p.addr[1] = req[r].addr /\ p.msg[1] = req[r].msg
    BY <2>2
  <2>6. Dispatch(Taken(c), c, req[r].addr, WireSession(r), req[r].msg, WireSession(r) = 0)
    BY <1>t, <2>2, <2>4, <2>5
  <2>7. AnswersItself(c, r) \/ HandsOver(c, r)
    BY <1>5, <1>m, <2>6, SmallDispatch
  <2> QED
    BY <1>1, <1>3, <1>5, <2>7
<1>6. CASE k = 1 /\ IsLarge(r)
  <2>1. head = MultiOf(r)
    BY <1>3, <1>6, <1>m, PacketsAre
  <2>2. /\ p.padding = TRUE /\ p.addr = <<req[r].addr>> /\ p.session = req[r].session
        /\ p.msg = None /\ p.is_push = req[r].is_push
    <3>1. /\ head.type = "multi" /\ head.addr = req[r].addr /\ head.session = req[r].session
          /\ head.is_push = req[r].is_push
      BY <2>1 DEF MultiOf
    <3> QED
      BY <3>1, UnpackMulti
  <2>3. ~known
    BY <1>3, <1>6
  <2> DEFINE new == [addr |-> req[r].addr, is_push |-> req[r].is_push, parts |-> <<>>]
  <2>4. appended = new
    <3>1. part = [addr |-> IF p.addr = None THEN QUERY ELSE p.addr[1], is_push |-> p.is_push, parts |-> <<>>]
      BY <2>3
    <3>2. p.addr # None /\ p.addr[1] = req[r].addr
      BY <2>2 DEF None
    <3> HIDE DEF part, p
    <3>3. part = new
      BY <2>2, <3>1, <3>2
    <3> QED
      BY <2>2, <3>3
  <2> HIDE DEF p, known, appended, whole, settled, taken, new
  <2>5. link' = [taken EXCEPT ![c].large_request = With(@, p.session, appended)] /\ UNCHANGED <<clusterd, delivered>>
    BY <1>4, <2>2
  <2>6. link' = [taken EXCEPT ![c].large_request = With(taken[c].large_request, p.session, appended)]
    BY <1>t, <1>1, TakenIs, <2>5
  <2>7. link' = TakenWith(c, With(large, req[r].session, new))
    BY <1>t, <2>2, <2>4, <2>6 DEF TakenWith
  <2>8. OpensLarge(c, r)
    BY <1>3, <1>6, <2>5, <2>7 DEF OpensLarge, new
  <2> QED
    BY <1>1, <1>3, <1>6, <2>8
<1>7. CASE k # 1
  <2>0. k > 1 /\ k \in 2 .. Len(Packets(r)) /\ Assembling(large, r, k)
    BY <1>3, <1>7
  <2>1. IsLarge(r)
    BY <1>m, <2>0, PacketsAre
  <2> DEFINE n == PartCount(Len(req[r].msg))
             s == req[r].session
             chunk == Chunk(req[r].msg, k - 1)
  <2>2. n \in Nat \ {0} /\ Len(Packets(r)) = n + 1 /\ head = PartOf(r, k - 1) /\ k - 1 \in 1 .. n
    BY <1>3, <1>m, <2>0, <2>1, PacketsAre
  <2>3. /\ (k - 1 < n => p.padding = TRUE) /\ (~(k - 1 < n) => p.padding = FALSE) /\ p.session = s /\ p.msg = <<chunk>> /\ p.sz = Len(chunk)
    <3> HIDE DEF n
    <3>1. head = [type |-> IF k - 1 < n THEN "more" ELSE "last", session |-> s, data |-> chunk]
      BY <2>2 DEF PartOf, RequestPart, n
    <3> HIDE DEF chunk, s
    <3>2. CASE k - 1 < n
      <4>1. head.type = "more" /\ head.session = s /\ head.data = chunk
        BY <3>1, <3>2
      <4> QED
        BY <3>2, <4>1, UnpackMore
    <3>3. CASE ~(k - 1 < n)
      <4>1. head.type = "last" /\ head.session = s /\ head.data = chunk
        BY <3>1, <3>3
      <4> QED
        BY <3>3, <4>1, UnpackLast
    <3> QED
      BY <3>2, <3>3
  <2>4. known /\ DOMAIN large = {s} /\ large[s] \in Large /\ large[s].parts \in Seq(Strings)
    <3>1. DOMAIN large = {s} /\ large[s].parts \in Seq(Strings)
      BY Zenon, <2>0 DEF Assembling
    <3>2. large[s] \in Large
      BY <1>l, <3>1, TableIs
    <3> HIDE DEF p
    <3> QED
      BY Zenon, <2>3, <3>1, <3>2
  <2>5. appended = [large[s] EXCEPT !.parts = Append(@, String(chunk))]
    <3>1. part = large[s]
      <4> HIDE DEF p, s, large
      <4> QED
        BY <2>3, <2>4
    <3>2. p.msg # None /\ lappend(large[s].parts, p.msg, p.sz) = Append(large[s].parts, String(chunk))
      <4> HIDE DEF p
      <4>1. p.msg # None /\ p.msg[1] = chunk
        BY <2>3 DEF None
      <4> QED
        BY <4>1 DEF lappend
    <3> HIDE DEF part, p, s, large, chunk
    <3> QED
      BY <2>4, <3>1, <3>2 DEF Large
  <2>6. CASE k < Len(Packets(r))
    <3>1. p.padding
      <4> HIDE DEF p, n
      <4>1. k - 1 < n
        BY <2>2, <2>6
      <4> QED
        BY <2>3, <4>1
    <3> HIDE DEF p, known, appended, whole, settled, taken
    <3>2. link' = [taken EXCEPT ![c].large_request = With(@, p.session, appended)] /\ UNCHANGED <<clusterd, delivered>>
      BY Zenon, <1>4, <3>1
    <3>3. link' = [taken EXCEPT ![c].large_request = With(taken[c].large_request, p.session, appended)]
      BY <1>t, <1>1, TakenIs, <3>2
    <3>4. link' = TakenWith(c, With(large, s, [large[s] EXCEPT !.parts = Append(@, String(chunk))]))
      BY Zenon, <1>t, <2>3, <2>5, <3>3 DEF TakenWith
    <3>5. AddsPart(c, r, k)
      BY Zenon, <2>0, <2>1, <3>2, <3>4 DEF AddsPart
    <3> QED
      BY <1>1, <1>3, <2>0, <2>6, <3>5
  <2>7. CASE k = Len(Packets(r))
    <3>1. ~p.padding
      <4> HIDE DEF p, n
      <4>1. ~(k - 1 < n)
        BY <2>2, <2>7
      <4> QED
        BY <2>3, <4>1
    <3>2. whole.outcome # "string"
      <4> DEFINE t == Append(large[s].parts, String(chunk))
      <4>0. large[s].parts \in Seq(Strings)
        BY Zenon, <2>4
      <4>1. appended.parts = t
        BY Zenon, <2>4, <2>5 DEF Large
      <4>2. t # <<>> /\ t[1] \in Strings
        <5>1. String(chunk) \in Strings
          <6>1. chunk \in Bytes
            BY <1>m, <2>2, MadeIs, ChunkIs
          <6> QED
            BY <6>1 DEF String, Strings
        <5> HIDE DEF large, s, chunk
        <5> QED
          BY <4>0, <5>1, AppendIs
      <4> HIDE DEF t
      <4>3. ~IsNumber(t[1])
        BY <4>2 DEF Strings, IsNumber
      <4>4. lconcat(t).outcome = "nothing"
        BY <4>3 DEF lconcat
      <4> HIDE DEF appended
      <4> QED
        BY <4>1, <4>4
    <3>3. known
      BY <2>4
    <3> HIDE DEF p, known, appended, whole, settled, taken
    <3>4. link' = Respond(settled, c, lpackresponse(p.session, FALSE, Refusal)) /\ UNCHANGED <<clusterd, delivered>>
      BY <1>4, <3>1, <3>2, <3>3
    <3>5. settled = [taken EXCEPT ![c].large_request = Without(taken[c].large_request, p.session)]
      BY <1>t, <1>1, TakenIs DEF settled
    <3>6. settled = TakenWith(c, Without(large, s))
      BY <1>t, <2>3, <3>5 DEF TakenWith
    <3>7. RefusesLarge(c, r)
      BY <2>1, <2>3, <2>4, <3>4, <3>6 DEF RefusesLarge
    <3> QED
      BY <1>1, <1>3, <2>0, <2>7, <3>7
  <2> QED
    BY <2>0, <2>6, <2>7
<1> QED
  BY Zenon, <1>5, <1>6, <1>7

\* What a step does to a request that was made.
Moves(r) ==
  \/ req'[r] = req[r]
  \/ /\ req[r].state # "none"
     /\ \E st \in {"wait", "closed", "done"}, t \in Seq(Parts) : \E x :
          /\ req'[r] = [req[r] EXCEPT !.state = st, !.result_data = t, !.result = x]
          /\ st # "done" => (req[r].state = "connect" /\ t = <<>> /\ x = NoResult) \/ (req[r].state = "wait" /\ x = req[r].result)

\* What a request is after a step that changes it and has not made it.
LEMMA MoveIs ==
  ASSUME TypeInv, NEW r \in Requests, Moves(r), req'[r] # req[r]
  PROVE  /\ req[r].state # "none" /\ req'[r].state \in {"wait", "closed", "done"}
         /\ req'[r].addr = req[r].addr /\ req'[r].session = req[r].session
         /\ req'[r].msg = req[r].msg /\ req'[r].is_push = req[r].is_push
         /\ req'[r].result_data \in Seq(Parts)
         /\ req'[r].state # "done" => /\ req[r].state \in {"connect", "wait"}
                                      /\ req[r].state = "connect" => req'[r].result = NoResult
                                      /\ req[r].state = "wait" => req'[r].result = req[r].result
         /\ req'[r] = [state |-> req'[r].state, is_push |-> req[r].is_push, addr |-> req[r].addr, msg |-> req[r].msg,
                       session |-> req[r].session, result_data |-> req'[r].result_data, result |-> req'[r].result]
<1>1. req[r] \in RequestRecords
  BY Zenon DEF TypeInv
<1>2. PICK st \in {"wait", "closed", "done"}, t \in Seq(Parts) : \E x :
          /\ req'[r] = [req[r] EXCEPT !.state = st, !.result_data = t, !.result = x]
          /\ st # "done" => (req[r].state = "connect" /\ t = <<>> /\ x = NoResult) \/ (req[r].state = "wait" /\ x = req[r].result)
  BY DEF Moves
<1>3. PICK x :
          /\ req'[r] = [req[r] EXCEPT !.state = st, !.result_data = t, !.result = x]
          /\ st # "done" => (req[r].state = "connect" /\ t = <<>> /\ x = NoResult) \/ (req[r].state = "wait" /\ x = req[r].result)
  BY <1>2
<1>4. req'[r] = [state |-> st, is_push |-> req[r].is_push, addr |-> req[r].addr, msg |-> req[r].msg,
                       session |-> req[r].session, result_data |-> t, result |-> x]
  BY <1>1, <1>3 DEF RequestRecords
<1>5. req[r].state # "none"
  BY DEF Moves
<1>6. /\ req'[r].state = st /\ req'[r].is_push = req[r].is_push /\ req'[r].addr = req[r].addr /\ req'[r].msg = req[r].msg
      /\ req'[r].session = req[r].session /\ req'[r].result_data = t /\ req'[r].result = x
  BY <1>4
<1> QED
  BY <1>2, <1>3, <1>4, <1>5, <1>6

\* The requests after a step that makes none.
LEMMA MovesReq ==
  ASSUME TypeInv, MadeInv, DOMAIN req' = Requests, req' = [r \in Requests |-> req'[r]],
         \A r \in Requests : Moves(r)
  PROVE  req' \in [Requests -> RequestRecords'] /\ MadeInv' /\ \A r \in Requests : Kept(r)
<1>1. ASSUME NEW r \in Requests PROVE req'[r] \in RequestRecords'
  <2>1. req[r] \in RequestRecords
    BY DEF TypeInv
  <2>2. req'[r].result \in Results'
    BY DEF Results
  <2>3. CASE req'[r] = req[r]
    BY <2>1, <2>2, <2>3 DEF RequestRecords
  <2>4. CASE req'[r] # req[r]
    <3>1. req'[r] = [state |-> req'[r].state, is_push |-> req[r].is_push, addr |-> req[r].addr, msg |-> req[r].msg,
                       session |-> req[r].session, result_data |-> req'[r].result_data, result |-> req'[r].result]
      BY <2>4, MoveIs
    <3>2. req'[r].state \in {"none", "connect", "wait", "closed", "done"} /\ req'[r].result_data \in Seq(Parts)
      BY <2>4, MoveIs
    <3>3. /\ req[r].is_push \in BOOLEAN /\ req[r].addr \in Addresses /\ req[r].msg \in Bytes
          /\ req[r].session \in SessionsOr0
      BY <2>1 DEF RequestRecords
    <3> QED
      BY <2>2, <3>1, <3>2, <3>3 DEF RequestRecords
  <2> QED
    BY <2>3, <2>4
<1>2. ASSUME NEW r \in Requests PROVE req'[r].state = "none" <=> req[r].state = "none"
  BY MoveIs
<1>3. MadeInv'
  <2> SUFFICES ASSUME NEW r \in Requests
               PROVE  /\ req'[r].state = "none" => req'[r] = NewRequest /\ \A s \in Requests : s > r => req'[s].state = "none"
                      /\ req'[r].state # "none" =>
                           /\ req'[r].session \in Sessions /\ \E size \in Sizes : req'[r].msg = Payload("request", r, size)
                           /\ req'[r].addr = QUERY => ~req'[r].is_push
                      /\ req'[r].state = "connect" => req'[r].result_data = <<>>
                      /\ req'[r].state # "done" => req'[r].result = NoResult
    BY DEF MadeInv
  <2>1. /\ req[r].state = "none" => req[r] = NewRequest /\ \A s \in Requests : s > r => req[s].state = "none"
        /\ req[r].state # "none" =>
             /\ req[r].session \in Sessions /\ \E size \in Sizes : req[r].msg = Payload("request", r, size)
             /\ req[r].addr = QUERY => ~req[r].is_push
        /\ req[r].state = "connect" => req[r].result_data = <<>>
        /\ req[r].state # "done" => req[r].result = NoResult
    BY DEF MadeInv
  <2>2. CASE req'[r] = req[r]
    BY <1>2, <2>1, <2>2
  <2>3. CASE req'[r] # req[r]
    <3>1. /\ req[r].state # "none" /\ req'[r].state \in {"wait", "closed", "done"}
          /\ req'[r].addr = req[r].addr /\ req'[r].session = req[r].session
          /\ req'[r].msg = req[r].msg /\ req'[r].is_push = req[r].is_push
          /\ req'[r].state # "done" => /\ req[r].state \in {"connect", "wait"}
                                       /\ req[r].state = "connect" => req'[r].result = NoResult
                                       /\ req[r].state = "wait" => req'[r].result = req[r].result
      BY <2>3, MoveIs
    <3> QED
      BY <2>1, <3>1
  <2> QED
    BY <2>2, <2>3
<1>4. ASSUME NEW r \in Requests PROVE Kept(r)
  <2>1. CASE req'[r] = req[r]
    BY <2>1 DEF Kept, IsSent
  <2>2. CASE req'[r] # req[r]
    <3>1. /\ req[r].state # "none" /\ req'[r].state \in {"wait", "closed", "done"}
          /\ req'[r].addr = req[r].addr /\ req'[r].session = req[r].session
          /\ req'[r].msg = req[r].msg /\ req'[r].is_push = req[r].is_push
      BY <2>2, MoveIs
    <3> QED
      BY <3>1 DEF Kept
  <2> QED
    BY <2>1, <2>2
<1>5. req' \in [Requests -> RequestRecords']
  BY <1>1
<1> QED
  BY <1>3, <1>4, <1>5

-------------------------------------------------------------------------------
(* What a step that keeps the requests keeps.                              *)

\* A request whose packets were sent remains so.
LEMMA SentStays ==
  ASSUME NEW r \in Requests, Kept(r), IsSent(r)
  PROVE  IsSent(r)' /\ IsMade(r) /\ Packets(r)' = Packets(r)
<1>1. IsMade(r) /\ IsSent(r)'
  BY DEF IsSent, IsMade, Kept
<1> QED
  BY <1>1, KeptPackets

\* No step takes a request out of those that were sent.
LEMMA BlocksGrow ==
  ASSUME \A r \in Requests : Kept(r)
  PROVE  RequestBlocks \subseteq RequestBlocks'
<1> SUFFICES ASSUME NEW b \in RequestBlocks PROVE b \in RequestBlocks'
  OBVIOUS
<1>1. PICK r \in Requests : IsSent(r) /\ b = Packets(r)
  BY DEF RequestBlocks
<1>2. IsSent(r)' /\ b = Packets(r)'
  BY <1>1, SentStays
<1> QED
  BY <1>2 DEF RequestBlocks

\* A stream of blocks stays one when there are more blocks.
LEMMA StreamGrows ==
  ASSUME NEW u, NEW B, NEW C, Stream(u, B), B \subseteq C
  PROVE  Stream(u, C)
BY Zenon DEF Stream

\* UpOf survives a step that leaves the connection's packets and large_request alone.
LEMMA UpKept ==
  ASSUME NEW c \in Conns, UpOf(c), \A r \in Requests : Kept(r),
         link'[c].up = link[c].up, link'[c].large_request = link[c].large_request
  PROVE  UpOf(c)'
<1>1. Stream(link'[c].up, RequestBlocks')
  <2>1. Stream(link[c].up, RequestBlocks)
    BY DEF UpOf
  <2> QED
    BY <2>1, BlocksGrow, StreamGrows
<1>2. link'[c].up = <<>> \/ Starts(link'[c].up[1]) => DOMAIN link'[c].large_request = {}
  BY DEF UpOf
<1>3. ASSUME link'[c].up # <<>>, ~Starts(link'[c].up[1])
      PROVE  \E r \in Requests : \E k \in 2 .. Len(Packets(r)') :
               /\ IsSent(r)' /\ RunAt(link'[c].up, 1, Packets(r)', k)
               /\ Assembling(link[c].large_request, r, k)'
  <2>1. PICK r \in Requests : \E k \in 2 .. Len(Packets(r)) :
          /\ IsSent(r) /\ RunAt(link[c].up, 1, Packets(r), k)
          /\ Assembling(link[c].large_request, r, k)
    BY <1>3 DEF UpOf
  <2>2. PICK k \in 2 .. Len(Packets(r)) :
          /\ IsSent(r) /\ RunAt(link[c].up, 1, Packets(r), k)
          /\ Assembling(link[c].large_request, r, k)
    BY <2>1
  <2>3. IsSent(r)' /\ Packets(r)' = Packets(r)
    BY Zenon, <2>2, SentStays
  <2>4. Assembling(link[c].large_request, r, k)'
    <3>1. req'[r].addr = req[r].addr /\ req'[r].session = req[r].session
          /\ req'[r].msg = req[r].msg /\ req'[r].is_push = req[r].is_push
      BY <2>2 DEF Kept, IsSent
    <3> QED
      BY Zenon, <2>2, <3>1 DEF Assembling
  <2> QED
    BY <2>2, <2>3, <2>4
<1> QED
  BY <1>1, <1>2, <1>3 DEF UpOf

\* UpOf holds where nothing is under way and no large request is assembled.
LEMMA UpEmpty ==
  ASSUME NEW c \in Conns, link'[c].up = <<>>, DOMAIN link'[c].large_request = {}
  PROVE  UpOf(c)'
<1>1. Stream(<<>>, RequestBlocks')
  BY DEF Stream
<1> QED
  BY <1>1 DEF UpOf

\* OnceInv survives a step that sends and delivers nothing.
LEMMA OnceKept ==
  ASSUME TypeInv, OnceInv, \A r \in Requests : Kept(r), delivered' = delivered,
         \A c \in Conns : link'[c].up = link[c].up \/ link'[c].up = <<>>
  PROVE  OnceInv'
<1>0. \A c \in Conns : \A i \in 1 .. Len(link'[c].up) : link'[c].up = link[c].up
  OBVIOUS
<1>1. ASSUME NEW c \in Conns, NEW d \in Conns, NEW i \in 1 .. Len(link'[c].up), NEW j \in 1 .. Len(link'[d].up),
             link'[c].up[i].type = "req", link'[d].up[j].type = "req", link'[c].up[i].data = link'[d].up[j].data
      PROVE  c = d /\ i = j
  <2>1. link'[c].up = link[c].up /\ link'[d].up = link[d].up
    BY <1>0
  <2> QED
    BY <1>1, <2>1 DEF OnceInv
<1>4. ASSUME NEW c \in Conns, NEW i \in 1 .. Len(link'[c].up), NEW k \in 1 .. Len(delivered),
             link'[c].up[i].type = "req"
      PROVE  link'[c].up[i].data # delivered[k].msg
  <2>1. link'[c].up = link[c].up
    BY <1>0
  <2> QED
    BY <1>4, <2>1 DEF OnceInv
<1>2. \A k, l \in 1 .. Len(delivered) : delivered[k].msg = delivered[l].msg => k = l
  BY DEF OnceInv
<1>3. ASSUME NEW k \in 1 .. Len(delivered)
      PROVE  \E r \in Requests :
               /\ IsSent(r)' /\ req'[r].msg = delivered[k].msg /\ req'[r].is_push = delivered[k].is_push
               /\ isname(req'[r].addr) \/ req'[r].addr = delivered[k].handle
  <2>1. PICK r \in Requests :
               /\ IsSent(r) /\ req[r].msg = delivered[k].msg /\ req[r].is_push = delivered[k].is_push
               /\ isname(req[r].addr) \/ req[r].addr = delivered[k].handle
    BY DEF OnceInv
  <2>2. IsSent(r)' /\ req'[r].addr = req[r].addr /\ req'[r].msg = req[r].msg /\ req'[r].is_push = req[r].is_push
    BY <2>1 DEF Kept, IsSent
  <2> QED
    BY <2>1, <2>2
<1> QED
  BY Z3, <1>1, <1>2, <1>3, <1>4 DEF OnceInv

\* CallInv survives a step that hands nothing over to a service.
LEMMA CallKept ==
  ASSUME CallInv, \A r \in Requests : Kept(r), clusterd'.calls \subseteq clusterd.calls
  PROVE  CallInv'
<1> SUFFICES ASSUME NEW call \in clusterd'.calls
             PROVE  \E r \in Requests : IsSent(r)' /\ call.msg = req'[r].msg /\ ~req'[r].is_push
  BY DEF CallInv
<1>1. PICK r \in Requests : IsSent(r) /\ call.msg = req[r].msg /\ ~req[r].is_push
  BY DEF CallInv
<1>2. IsSent(r)' /\ req'[r].msg = req[r].msg /\ req'[r].is_push = req[r].is_push
  BY <1>1 DEF Kept, IsSent
<1> QED
  BY <1>1, <1>2

\* What holds whether or not sessions come round while they are in use.
Inv ==
  /\ TypeInv /\ MadeInv /\ LinkInv /\ ChannelInv /\ ThreadInv /\ UpInv /\ OnceInv /\ CallInv

\* What the invariant says of one connection.
LinkOf(c) ==
  /\ link[c].client <=> channel.conn_id = c \/ channel.opened = c
  /\ link[c].client /\ ~link[c].cut => link[c].server
  /\ link[c].server => link[c].client \/ link[c].cut
  /\ ~link[c].server => link[c].up = <<>> /\ DOMAIN link[c].large_request = {}
  /\ ~link[c].client => link[c].down = <<>>
  /\ ~link[c].client /\ ~link[c].cut => \A call \in clusterd.calls : call.conn # c
  /\ channel.opened = c => /\ link[c].up = <<>> /\ link[c].down = <<>>
                           /\ \A call \in clusterd.calls : call.conn # c

\* LinkInv, one connection at a time.
LEMMA LinkInvIs == LinkInv <=> \A c \in Conns : LinkOf(c)
BY DEF LinkInv, LinkOf

\* The marks after a message, and after a round of the loop.
LEMMA MarksIs ==
  ASSUME TypeInv, wakeup.list = {}, NEW cos \in SUBSET Coroutines, Marks(cos)
  PROVE  /\ wakeup' \in Wakeups /\ wakeup'.queue = {} /\ wakeup'.list = wakeup.queue \cup cos
         /\ Marked' = Marked \cup cos
<1>1. wakeup' = [queue |-> {}, list |-> wakeup.queue \cup cos] /\ wakeup.queue \in SUBSET Coroutines
  BY DEF Marks, TypeInv, Wakeups
<1> QED
  BY <1>1 DEF Wakeups, Marked

LEMMA ResumedIs ==
  ASSUME TypeInv, wakeup.queue \cap wakeup.list = {}, NEW co \in wakeup.list,
         NEW cos \in SUBSET Coroutines, cos \cap Marked = {}, NEW raises \in BOOLEAN, Resumed(co, cos, raises)
  PROVE  /\ wakeup' \in Wakeups /\ wakeup'.queue \cap wakeup'.list = {}
         /\ Marked' = (Marked \ {co}) \cup cos
         /\ ~raises /\ wakeup'.list = {} => wakeup'.queue = {}
<1> DEFINE rest == wakeup.list \ {co}
           queue == wakeup.queue \cup cos
<1>1. queue \in SUBSET Coroutines /\ rest \in SUBSET Coroutines /\ co \notin queue
      /\ queue \cap rest = {} /\ queue \cup rest = (Marked \ {co}) \cup cos
  BY DEF TypeInv, Wakeups, Marked
<1>2. wakeup' = CASE raises -> [queue |-> queue \cup rest, list |-> {}]
                 [] ~raises /\ rest # {} -> [queue |-> queue, list |-> rest]
                 [] ~raises /\ rest = {} -> [queue |-> {}, list |-> queue]
  BY Zenon DEF Resumed
<1> HIDE DEF rest, queue
<1>3. CASE raises
  <2>1. wakeup' = [queue |-> queue \cup rest, list |-> {}]
    BY <1>2, <1>3
  <2> QED
    BY <1>1, <1>3, <2>1 DEF Wakeups, Marked
<1>4. CASE ~raises /\ rest # {}
  <2>1. wakeup' = [queue |-> queue, list |-> rest]
    BY <1>2, <1>4
  <2> QED
    BY <1>1, <1>4, <2>1 DEF Wakeups, Marked
<1>5. CASE ~raises /\ rest = {}
  <2>1. wakeup' = [queue |-> {}, list |-> queue]
    BY <1>2, <1>5
  <2> QED
    BY <1>1, <1>5, <2>1 DEF Wakeups, Marked
<1> QED
  BY <1>3, <1>4, <1>5

\* Who is in the channel's table waits.
LEMMA ThreadWaits ==
  ASSUME TypeInv, ThreadInv, NEW s \in DOMAIN channel.thread
  PROVE  /\ channel.thread[s] \in Requests /\ s \in Sessions
         /\ req[channel.thread[s]].state = "wait" /\ req[channel.thread[s]].session = s
         /\ ~req[channel.thread[s]].is_push
<1>1. channel.thread \in Tables(Requests)
  BY DEF TypeInv, Channels
<1>2. channel.thread[s] \in Requests /\ s \in Sessions
  BY <1>1, TableIs
<1> QED
  BY <1>2 DEF ThreadInv

-------------------------------------------------------------------------------
(* Steps that make no request, send none and deliver none.                 *)

\* A step that makes no request, and neither sends nor delivers one, keeps Inv when it
\* keeps the parts about the channel.
LEMMA StepKeeps ==
  ASSUME Inv, DOMAIN req' = Requests, req' = [r \in Requests |-> req'[r]], \A r \in Requests : Moves(r),
         session' = session, channel' \in Channels, wakeup' \in Wakeups, link' \in [Conns -> Links], clusterd' \in Daemons,
         clusterd'.calls \subseteq clusterd.calls, delivered' = delivered, crashed' \in BOOLEAN,
         LinkInv', ChannelInv', ThreadInv',
         \A c \in Conns : \/ link'[c].up = link[c].up /\ link'[c].large_request = link[c].large_request
                          \/ link'[c].up = <<>> /\ DOMAIN link'[c].large_request = {}
  PROVE  Inv' /\ \A r \in Requests : Kept(r)
<1>1. TypeInv /\ MadeInv /\ UpInv /\ OnceInv /\ CallInv
  BY DEF Inv
<1>2. req' \in [Requests -> RequestRecords'] /\ MadeInv' /\ \A r \in Requests : Kept(r)
  BY <1>1, MovesReq
<1>3. TypeInv'
  BY <1>1, <1>2 DEF TypeInv
<1>4. UpInv'
  <2> SUFFICES ASSUME NEW c \in Conns PROVE UpOf(c)'
    BY DEF UpInv
  <2>1. UpOf(c)
    BY <1>1 DEF UpInv
  <2>2. CASE link'[c].up = link[c].up /\ link'[c].large_request = link[c].large_request
    BY <1>2, <2>1, <2>2, UpKept
  <2>3. CASE link'[c].up = <<>> /\ DOMAIN link'[c].large_request = {}
    BY <2>3, UpEmpty
  <2> QED
    BY <2>2, <2>3
<1>5. OnceInv'
  BY <1>1, <1>2, OnceKept
<1>6. CallInv'
  BY <1>1, <1>2, CallKept
<1> QED
  BY <1>2, <1>3, <1>4, <1>5, <1>6 DEF Inv

\* A step that leaves the requests alone moves them by nothing.
LEMMA StillMoves ==
  ASSUME TypeInv, req' = req
  PROVE  DOMAIN req' = Requests /\ req' = [r \in Requests |-> req'[r]] /\ \A r \in Requests : Moves(r)
BY DEF TypeInv, Moves

-------------------------------------------------------------------------------
(* The end of a connection at the sender.                                  *)

\* close_channel_socket: the connection is cut on the sender's side, what clusterd has of
\* it stays.
LEMMA CloseIs ==
  ASSUME TypeInv
  PROVE  /\ close_channel_socket(link) \in [Conns -> Links]
         /\ \A c \in Conns :
              /\ c # channel.conn_id => close_channel_socket(link)[c] = link[c]
              /\ c = channel.conn_id =>
                   /\ close_channel_socket(link)[c].client = FALSE /\ close_channel_socket(link)[c].cut = TRUE
                   /\ close_channel_socket(link)[c].down = <<>>
              /\ close_channel_socket(link)[c].up = link[c].up
              /\ close_channel_socket(link)[c].server = link[c].server
              /\ close_channel_socket(link)[c].large_request = link[c].large_request
<1> SUFFICES ASSUME NEW c \in Conns
             PROVE  /\ close_channel_socket(link)[c] \in Links
                    /\ c # channel.conn_id => close_channel_socket(link)[c] = link[c]
                    /\ c = channel.conn_id =>
                         /\ close_channel_socket(link)[c].client = FALSE /\ close_channel_socket(link)[c].cut = TRUE
                         /\ close_channel_socket(link)[c].down = <<>>
                    /\ close_channel_socket(link)[c].up = link[c].up
                    /\ close_channel_socket(link)[c].server = link[c].server
                    /\ close_channel_socket(link)[c].large_request = link[c].large_request
  BY DEF close_channel_socket
<1>1. link[c] \in Links
  BY DEF TypeInv
<1>2. c # channel.conn_id => close_channel_socket(link)[c] = link[c]
  BY DEF close_channel_socket
<1>3. c = channel.conn_id => close_channel_socket(link)[c] = [link[c] EXCEPT !.client = FALSE, !.cut = TRUE, !.down = <<>>]
  BY DEF close_channel_socket
<1>4. CASE c # channel.conn_id
  BY <1>1, <1>2, <1>4
<1>5. CASE c = channel.conn_id
  <2> DEFINE l == link[c]
             m == close_channel_socket(link)[c]
  <2>1. m = [l EXCEPT !.client = FALSE, !.cut = TRUE, !.down = <<>>] /\ l \in Links
    BY <1>1, <1>3, <1>5
  <2> HIDE DEF l, m
  <2>2. <<>> \in Seq(ResponsePackets)
    OBVIOUS
  <2>3. /\ m \in Links /\ m.client = FALSE /\ m.cut = TRUE /\ m.down = <<>>
        /\ m.up = l.up /\ m.server = l.server /\ m.large_request = l.large_request
    BY <2>1, <2>2 DEF Links
  <2> QED
    BY <1>5, <2>3 DEF l, m
<1> QED
  BY <1>4, <1>5

\* A place that may be empty.
LEMMA SomeIs == \A x : Some(x) # None /\ Some(x)[1] = x
BY DEF Some, None

\* An end of a message that marks nobody but who connects keeps ChannelInv.
LEMMA MarksKeep ==
  ASSUME TypeInv, ChannelInv, wakeup.list = {}, NEW cos \in SUBSET Who, Marks(cos),
         channel'.conn_id = channel.conn_id, channel'.connecting = channel.connecting,
         channel'.waiting = channel.waiting,
         channel'.opened # 0 => channel'.opened = channel.opened \/ (Connecting /\ cos = Who),
         \A r \in Requests : \/ req'[r].state = req[r].state
                             \/ {req'[r].state, req[r].state} \cap {"connect", "closed"} = {}
  PROVE  ChannelInv' /\ wakeup' \in Wakeups
<1>1. cos \in SUBSET Coroutines
  BY SomeIs DEF Who, Connecting, TypeInv, Channels
<1>2. /\ wakeup' \in Wakeups /\ wakeup'.queue = {} /\ Marked' = Marked \cup cos
  BY <1>1, MarksIs
<1>3. Who' = Who /\ (Connecting' <=> Connecting) /\ (Connected' <=> Connected)
  BY DEF Who, Connecting, Connected
<1>4. channel'.opened # 0 => Connecting /\ channel.connecting[1] \in Marked'
  BY <1>2 DEF ChannelInv, Who
<1>5. \A r \in Requests :
        /\ req'[r].state \in {"connect", "closed"} <=> req[r].state \in {"connect", "closed"}
        /\ req'[r].state = "closed" <=> req[r].state = "closed"
  OBVIOUS
<1> QED
  BY <1>2, <1>3, <1>4, <1>5 DEF ChannelInv

\* close_channel_socket keeps LinkInv.
LEMMA CloseLinks ==
  ASSUME TypeInv, LinkInv, ChannelInv, link' = close_channel_socket(link), channel'.conn_id = 0,
         channel'.opened = channel.opened, clusterd' = clusterd
  PROVE  LinkInv'
<1>1. Connected => channel.opened = 0
  BY DEF ChannelInv
<1>2. ASSUME NEW c \in Conns PROVE LinkOf(c)'
  <2>0. c # 0
    BY DEF Conns
  <2>1. LinkOf(c)
    BY LinkInvIs
  <2>2. CASE c # channel.conn_id
    <3>1. link'[c] = link[c]
      BY <2>2, CloseIs
    <3> QED
      BY <2>0, <2>1, <2>2, <3>1 DEF LinkOf
  <2>3. CASE c = channel.conn_id
    <3>1. /\ link'[c].client = FALSE /\ link'[c].cut = TRUE /\ link'[c].down = <<>>
          /\ link'[c].up = link[c].up /\ link'[c].server = link[c].server
          /\ link'[c].large_request = link[c].large_request
      BY <2>3, CloseIs
    <3>2. channel'.opened # c
      BY <1>1, <2>0, <2>3 DEF Connected
    <3> QED
      BY <2>0, <2>1, <3>1, <3>2 DEF LinkOf
  <2> QED
    BY <2>2, <2>3
<1> QED
  BY <1>2 DEF LinkInv, LinkOf

\* wakeup_all: exactly the requests in thread are told of the error and marked.
LEMMA WakeupMoves ==
  ASSUME TypeInv, ThreadInv, wakeup_all(req)
  PROVE  /\ DOMAIN req' = Requests /\ req' = [r \in Requests |-> req'[r]]
         /\ Awaiting \in SUBSET Requests /\ Marks(Awaiting)
         /\ \A r \in Requests :
              /\ Moves(r) /\ req'[r].result = req[r].result
              /\ r \in Awaiting => req[r].state = "wait" /\ req'[r].state = "closed"
              /\ r \notin Awaiting => req'[r] = req[r]
<1>1. /\ req' = [r \in Requests |-> IF r \in Awaiting THEN [req[r] EXCEPT !.state = "closed"] ELSE req[r]]
      /\ Marks(Awaiting)
  BY Zenon DEF wakeup_all
<1>2. ASSUME NEW r \in Requests, r \in Awaiting
      PROVE  /\ Moves(r) /\ req'[r].result = req[r].result /\ req[r].state = "wait" /\ req'[r].state = "closed"
  <2>1. req'[r] = [req[r] EXCEPT !.state = "closed"]
    BY <1>1, <1>2
  <2>2. req[r] \in RequestRecords
    BY DEF TypeInv
  <2>3. req[r].state = "wait"
    BY <1>2, ThreadWaits DEF Awaiting
  <2>4. req[r].result_data \in Seq(Parts)
    BY <2>2 DEF RequestRecords
  <2>5. req'[r] = [req[r] EXCEPT !.state = "closed", !.result_data = req[r].result_data, !.result = req[r].result]
    BY <2>1, <2>2 DEF RequestRecords
  <2>6. Moves(r)
    BY <2>3, <2>4, <2>5 DEF Moves
  <2>7. req'[r].state = "closed" /\ req'[r].result = req[r].result
    BY <2>1, <2>2 DEF RequestRecords
  <2> QED
    BY <2>3, <2>6, <2>7
<1>3. ASSUME NEW r \in Requests, r \notin Awaiting PROVE req'[r] = req[r]
  BY <1>1, <1>3
<1>4. Awaiting \in SUBSET Requests
  BY ThreadWaits DEF Awaiting
<1> QED
  BY <1>1, <1>2, <1>3, <1>4 DEF Moves

\* CloseChannel and ClientClose.
Disconnects ==
  /\ wakeup.list = {} /\ link' = close_channel_socket(link) /\ wakeup_all(req)
  /\ channel' = [channel EXCEPT !.conn_id = 0, !.thread = <<>>]
  /\ UNCHANGED <<session, clusterd, delivered, crashed>>

\* channel:close and a read_response that raises keep Inv: the table is emptied, its
\* requests are marked, and the connection is closed.
LEMMA DisconnectsKeeps ==
  ASSUME Inv, Disconnects
  PROVE  Inv' /\ \A r \in Requests : Kept(r)
<1>1. TypeInv /\ MadeInv /\ LinkInv /\ ChannelInv /\ ThreadInv /\ UpInv /\ OnceInv /\ CallInv
  BY DEF Inv
<1>2. /\ wakeup.list = {} /\ link' = close_channel_socket(link) /\ wakeup_all(req)
      /\ channel' = [channel EXCEPT !.conn_id = 0, !.thread = <<>>]
      /\ session' = session /\ clusterd' = clusterd /\ delivered' = delivered /\ crashed' = crashed
  BY DEF Disconnects
<1>4. channel' \in Channels /\ channel'.conn_id = 0 /\ channel'.thread = <<>> /\ channel'.waiting = channel.waiting
      /\ channel'.connecting = channel.connecting /\ channel'.opened = channel.opened
  BY <1>1, <1>2, EmptyTable DEF TypeInv, Channels
<1>5. /\ Awaiting \in SUBSET Requests /\ Marks(Awaiting)
      /\ \A r \in Requests :
              /\ r \in Awaiting => req[r].state = "wait" /\ req'[r].state = "closed"
              /\ r \notin Awaiting => req'[r] = req[r]
  BY <1>1, <1>2, WakeupMoves
<1>6. LinkInv'
  BY <1>1, <1>2, <1>4, CloseLinks
<1>3. wakeup' \in Wakeups /\ wakeup'.queue = {} /\ Marked' = Marked \cup Awaiting
  BY <1>1, <1>2, <1>5, MarksIs DEF Coroutines
<1>7. ChannelInv'
  <2>1. Who' = Who /\ (Connecting' <=> Connecting) /\ ~Connected'
    BY <1>4 DEF Who, Connecting, Connected
  <2>2. \A r \in Requests : r \in Awaiting => r \notin Who \cup channel.waiting \cup Marked
    BY <1>1, <1>5 DEF ChannelInv
  <2>3. channel.waiting \cap (Who \cup Marked') = {}
    BY <1>1, <1>3, <1>5, <2>2 DEF ChannelInv
  <2>4. CHANGENODE \notin Awaiting
    BY <1>5 DEF CHANGENODE, Requests
  <2>5. ASSUME NEW r \in Requests
        PROVE  /\ req'[r].state \in {"connect", "closed"} <=> r \in Who \cup channel.waiting \cup Marked'
               /\ req'[r].state = "closed" => r \in Marked' \ Who
    BY <1>1, <1>3, <1>5, <2>2 DEF ChannelInv
  <2> QED
    BY <1>1, <1>3, <1>4, <2>1, <2>3, <2>4, <2>5 DEF ChannelInv
<1>8. ThreadInv'
  BY <1>4, EmptyTable DEF ThreadInv
<1>9. link' \in [Conns -> Links]
      /\ \A c \in Conns : link'[c].up = link[c].up /\ link'[c].large_request = link[c].large_request
  BY <1>1, <1>2, CloseIs
<1>10. clusterd' \in Daemons /\ clusterd'.calls \subseteq clusterd.calls /\ crashed' \in BOOLEAN
  BY <1>1, <1>2 DEF TypeInv
<1>11. DOMAIN req' = Requests /\ req' = [r \in Requests |-> req'[r]] /\ \A r \in Requests : Moves(r)
  BY <1>1, <1>2, WakeupMoves
<1> QED
  BY <1>2, <1>3, <1>4, <1>6, <1>7, <1>8, <1>9, <1>10, <1>11, StepKeeps

\* changehost keeps Inv: the connection is closed, the requests in thread stay.
LEMMA ChangeHostKeeps ==
  ASSUME Inv, ChangeHost
  PROVE  Inv' /\ \A r \in Requests : Kept(r)
<1>1. TypeInv /\ MadeInv /\ LinkInv /\ ChannelInv /\ ThreadInv /\ UpInv /\ OnceInv /\ CallInv
  BY DEF Inv
<1>2. /\ wakeup.list = {} /\ Marks({}) /\ link' = close_channel_socket(link) /\ req' = req
      /\ channel' = IF Connecting THEN channel
                    ELSE [channel EXCEPT !.conn_id = 0, !.connecting = Some(CHANGENODE), !.retry = 0]
      /\ session' = session /\ clusterd' = clusterd /\ delivered' = delivered /\ crashed' = crashed
  BY DEF ChangeHost, TakesMessage
<1>3. wakeup' \in Wakeups /\ wakeup'.queue = {} /\ Marked' = Marked
  BY <1>1, <1>2, MarksIs
<1>4. channel' \in Channels /\ channel'.conn_id = 0 /\ channel'.thread = channel.thread
      /\ channel'.waiting = channel.waiting /\ channel'.opened = channel.opened
      /\ (Connecting => channel' = channel)
      /\ (~Connecting => channel'.connecting = Some(CHANGENODE))
  <2>1. channel \in Channels /\ CHANGENODE \in Coroutines
    BY <1>1 DEF TypeInv, Coroutines
  <2>2. CASE Connecting
    BY <1>1, <1>2, <2>1, <2>2 DEF ChannelInv, Connected
  <2>3. CASE ~Connecting
    BY <1>2, <2>1, <2>3 DEF Channels
  <2> QED
    BY <2>2, <2>3
<1>6. LinkInv'
  BY <1>1, <1>2, <1>4, CloseLinks
<1>7. ChannelInv'
  <2>0. ~Connected'
    BY <1>4 DEF Connected
  <2>1. CASE Connecting
    <3>1. Who' = Who /\ Connecting'
      BY <1>4, <2>1 DEF Who, Connecting
    <3> QED
      BY <1>1, <1>2, <1>3, <1>4, <2>0, <2>1, <3>1 DEF ChannelInv
  <2>2. CASE ~Connecting
    <3>1. Who' = {CHANGENODE} /\ Connecting' /\ Who = {}
      BY <1>4, <2>2, SomeIs DEF Who, Connecting
    <3>2. \A r \in Requests : r # CHANGENODE
      BY DEF CHANGENODE, Requests
    <3>3. CHANGENODE \notin Marked /\ channel.waiting = {} /\ channel.opened = 0
      BY <1>1, <2>2, <3>1 DEF ChannelInv
    <3> QED
      BY <1>1, <1>2, <1>3, <1>4, <2>0, <3>1, <3>2, <3>3 DEF ChannelInv
  <2> QED
    BY <2>1, <2>2
<1>8. ThreadInv'
  BY <1>1, <1>2, <1>4 DEF ThreadInv
<1>9. link' \in [Conns -> Links]
      /\ \A c \in Conns : link'[c].up = link[c].up /\ link'[c].large_request = link[c].large_request
  BY <1>1, <1>2, CloseIs
<1>10. clusterd' \in Daemons /\ clusterd'.calls \subseteq clusterd.calls /\ crashed' \in BOOLEAN
  BY <1>1, <1>2 DEF TypeInv
<1> QED
  BY <1>1, <1>2, <1>3, <1>4, <1>6, <1>7, <1>8, <1>9, <1>10, StillMoves, StepKeeps

\* Steps that leave the requests and the channel alone, and mark nobody but who connects.
LEMMA QuietKeeps ==
  ASSUME Inv, session' = session, channel' = channel, req' = req, delivered' = delivered, crashed' = crashed,
         wakeup' = wakeup \/ \E cos \in SUBSET Who : wakeup.list = {} /\ Marks(cos),
         link' \in [Conns -> Links], clusterd' \in Daemons, clusterd'.calls \subseteq clusterd.calls,
         \A c \in Conns : LinkOf(c)',
         \A c \in Conns : \/ link'[c].up = link[c].up /\ link'[c].large_request = link[c].large_request
                          \/ link'[c].up = <<>> /\ DOMAIN link'[c].large_request = {}
  PROVE  Inv' /\ \A r \in Requests : Kept(r)
<1>1. TypeInv /\ LinkInv /\ ChannelInv /\ ThreadInv
  BY DEF Inv
<1>2. LinkInv'
  BY DEF LinkInv, LinkOf
<1>3. ThreadInv'
  BY <1>1 DEF ThreadInv
<1>4. channel' \in Channels /\ crashed' \in BOOLEAN
  BY <1>1 DEF TypeInv
<1>5. ChannelInv' /\ wakeup' \in Wakeups
  <2>1. CASE wakeup' = wakeup
    BY <1>1, <2>1 DEF ChannelInv, TypeInv, Connected, Connecting, Who, Marked
  <2>2. CASE \E cos \in SUBSET Who : wakeup.list = {} /\ Marks(cos)
    <3>1. PICK cos \in SUBSET Who : wakeup.list = {} /\ Marks(cos)
      BY <2>2
    <3> QED
      BY <1>1, <3>1, MarksKeep
  <2> QED
    BY <2>1, <2>2
<1> QED
  BY <1>1, <1>2, <1>3, <1>4, <1>5, StillMoves, StepKeeps

\* A connection that the network cuts keeps Inv.
LEMMA BreakKeeps ==
  ASSUME Inv, NEW c \in Conns, Break(c)
  PROVE  Inv' /\ \A r \in Requests : Kept(r)
<1>1. TypeInv /\ LinkInv
  BY DEF Inv
<1>2. /\ link[c].client /\ link[c].server /\ ~link[c].cut /\ link' = [link EXCEPT ![c].cut = TRUE]
      /\ session' = session /\ channel' = channel /\ wakeup' = wakeup /\ req' = req /\ clusterd' = clusterd
      /\ delivered' = delivered /\ crashed' = crashed
  BY DEF Break
<1>3. link \in [Conns -> Links] /\ link[c] \in Links /\ clusterd' \in Daemons
  BY <1>1, <1>2 DEF TypeInv
<1>4. /\ link'[c].cut = TRUE /\ link'[c].up = link[c].up /\ link'[c].down = link[c].down
      /\ link'[c].client = link[c].client /\ link'[c].server = link[c].server
      /\ link'[c].large_request = link[c].large_request
      /\ link'[c] \in Links
  BY <1>2, <1>3 DEF Links
<1>5. /\ link' \in [Conns -> Links] /\ \A d \in Conns : d # c => link'[d] = link[d]
  BY <1>2, <1>3, <1>4
<1>6. ASSUME NEW d \in Conns PROVE LinkOf(d)'
  <2>1. LinkOf(d)
    BY <1>1, LinkInvIs
  <2>2. CASE d = c
    BY <1>2, <1>4, <2>1, <2>2 DEF LinkOf
  <2>3. CASE d # c
    BY <1>2, <1>5, <2>1, <2>3 DEF LinkOf
  <2> QED
    BY <2>2, <2>3
<1>7. \A d \in Conns : link'[d].up = link[d].up /\ link'[d].large_request = link[d].large_request
  BY <1>4, <1>5
<1> QED
  BY <1>2, <1>3, <1>5, <1>6, <1>7, QuietKeeps

\* command.register and command.unregister keep Inv.
LEMMA RenameKeeps ==
  ASSUME Inv, NEW handle \in Handles \cup {0}, Rename(handle)
  PROVE  Inv' /\ \A r \in Requests : Kept(r)
<1>1. TypeInv /\ LinkInv
  BY DEF Inv
<1>2. /\ clusterd' = [clusterd EXCEPT !.register_name = handle]
      /\ session' = session /\ channel' = channel /\ wakeup' = wakeup /\ req' = req /\ link' = link
      /\ delivered' = delivered /\ crashed' = crashed
  BY DEF Rename
<1>3. clusterd' \in Daemons /\ clusterd'.calls = clusterd.calls /\ link' \in [Conns -> Links]
  BY <1>1, <1>2 DEF TypeInv, Daemons
<1>4. ASSUME NEW d \in Conns PROVE LinkOf(d)'
  <2>1. LinkOf(d)
    BY <1>1, LinkInvIs
  <2> QED
    BY <1>2, <1>3, <2>1 DEF LinkOf
<1> QED
  BY <1>2, <1>3, <1>4, QuietKeeps

\* The end of read_loop keeps Inv: what was under way on the connection is dropped.
LEMMA ServerCloseKeeps ==
  ASSUME Inv, NEW c \in Conns, ServerClose(c)
  PROVE  Inv' /\ \A r \in Requests : Kept(r)
<1>1. TypeInv /\ LinkInv
  BY DEF Inv
<1>2. /\ link[c].cut /\ link[c].server
      /\ link' = [link EXCEPT ![c].server = FALSE, ![c].up = <<>>, ![c].large_request = <<>>]
      /\ clusterd' = [clusterd EXCEPT !.listening = @ /\ clusterd.first_id + c - 1 # 1]
      /\ session' = session /\ channel' = channel /\ wakeup' = wakeup /\ req' = req
      /\ delivered' = delivered /\ crashed' = crashed
  BY DEF ServerClose
<1>3. link \in [Conns -> Links] /\ link[c] \in Links
  BY <1>1, <1>2 DEF TypeInv
<1>c. clusterd' \in Daemons /\ clusterd'.calls = clusterd.calls
  <2> DEFINE b == clusterd.listening /\ clusterd.first_id + c - 1 # 1
  <2>1. b \in BOOLEAN /\ clusterd' = [clusterd EXCEPT !.listening = b] /\ clusterd \in Daemons
    BY <1>1, <1>2 DEF TypeInv
  <2> HIDE DEF b
  <2> QED
    BY <2>1 DEF Daemons
<1>4. /\ link'[c].cut = link[c].cut /\ link'[c].up = <<>> /\ link'[c].down = link[c].down
      /\ link'[c].client = link[c].client /\ link'[c].server = FALSE
      /\ link'[c].large_request = <<>>
      /\ link'[c] \in Links
  <2>1. <<>> \in Tables(Large) /\ <<>> \in Seq(RequestPackets)
    BY EmptyTable
  <2> QED
    BY <1>2, <1>3, <2>1 DEF Links
<1>5. /\ link' \in [Conns -> Links] /\ \A d \in Conns : d # c => link'[d] = link[d]
  BY <1>2, <1>3, <1>4
<1>6. ASSUME NEW d \in Conns PROVE LinkOf(d)'
  <2>1. LinkOf(d)
    BY <1>1, LinkInvIs
  <2>2. CASE d = c
    BY <1>2, <1>c, <1>4, <2>1, <2>2, EmptyTable DEF LinkOf
  <2>3. CASE d # c
    BY <1>2, <1>c, <1>5, <2>1, <2>3 DEF LinkOf
  <2> QED
    BY <2>2, <2>3
<1>7. \A d \in Conns : \/ link'[d].up = link[d].up /\ link'[d].large_request = link[d].large_request
                       \/ link'[d].up = <<>> /\ DOMAIN link'[d].large_request = {}
  BY <1>4, <1>5, EmptyTable
<1> QED
  BY <1>2, <1>c, <1>5, <1>6, <1>7, QuietKeeps

-------------------------------------------------------------------------------
(* The answer of a service.                                                *)

\* What is sent in answer to the call.
Answers(call, r, ok, m) ==
  /\ IsSent(r) /\ call.msg = req[r].msg /\ ~req[r].is_push /\ m \in Replies
  /\ ok => \E size \in ReplySizes : m = Payload("service", r, size)
  /\ clusterd' = [clusterd EXCEPT !.calls = @ \ {call}]
  /\ link' = Respond(link, call.conn, lpackresponse(call.session, ok, m))

\* The rest of dispatch_request answers a request that was sent, with the service's
\* message or with the failure's.
LEMMA AnswerIs ==
  ASSUME TypeInv, MadeInv, CallInv, NEW call \in clusterd.calls, NEW ok \in BOOLEAN, NEW size,
         ok => size \in ReplySizes, Answer(call, ok, size)
  PROVE  /\ \E r \in Requests, m \in Replies : Answers(call, r, ok, m)
         /\ UNCHANGED <<session, channel, wakeup, req, delivered, stranded, crashed, commands>>
<1>1. PICK r \in Requests : IsSent(r) /\ call.msg = req[r].msg /\ ~req[r].is_push
  BY DEF CallInv
<1>2. call.msg[1][2] = r
  <2>1. req[r].msg[1] = <<"request", r, 1>>
    BY <1>1, MadeIs DEF IsSent, IsMade
  <2> QED
    BY <1>1, <2>1
<1> DEFINE m == IF ok THEN Payload("service", r, size) ELSE Payload("failure", r, 1)
<1>3. m \in Replies
  BY RepliesAre
<1>4. link' = Respond(link, call.conn, lpackresponse(call.session, ok, m))
  <2>1. CASE ok
    BY <1>2, <2>1 DEF Answer
  <2>2. CASE ~ok
    BY <1>2, <2>2 DEF Answer
  <2> QED
    BY <2>1, <2>2
<1>5. ok => \E z \in ReplySizes : m = Payload("service", r, z)
  OBVIOUS
<1>6. /\ clusterd' = [clusterd EXCEPT !.calls = @ \ {call}]
      /\ UNCHANGED <<session, channel, wakeup, req, delivered, stranded, crashed, commands>>
  BY DEF Answer
<1> HIDE DEF m
<1>7. Answers(call, r, ok, m)
  BY <1>1, <1>3, <1>4, <1>5, <1>6 DEF Answers
<1> QED
  BY <1>3, <1>6, <1>7

\* A service's answer keeps Inv.
LEMMA AnswerKeeps ==
  ASSUME Inv, NEW call \in clusterd.calls, NEW ok \in BOOLEAN, NEW r \in Requests, NEW m \in Replies,
         Answers(call, r, ok, m), UNCHANGED <<session, channel, wakeup, req, delivered, crashed>>
  PROVE  Inv' /\ \A q \in Requests : Kept(q)
<1>1. TypeInv /\ LinkInv
  BY DEF Inv
<1>2. /\ clusterd' = [clusterd EXCEPT !.calls = @ \ {call}]
      /\ link' = Respond(link, call.conn, lpackresponse(call.session, ok, m))
  BY DEF Answers
<1>3. clusterd \in Daemons /\ call.conn \in Conns /\ call.session \in SessionsOr0 /\ link \in [Conns -> Links]
  BY <1>1 DEF TypeInv, Daemons, Calls
<1>4. clusterd' \in Daemons /\ clusterd'.calls = clusterd.calls \ {call}
  BY <1>2, <1>3 DEF Daemons
<1> DEFINE c == call.conn
           packets == lpackresponse(call.session, ok, m)
<1>5. packets \in Seq(ResponsePackets)
  <2>1. m \in Bytes /\ m # <<>>
    BY RepliesAre
  <2> QED
    BY <1>3, <2>1, ResponseBlockIs
<1> HIDE DEF c, packets
<1>6. /\ link' \in [Conns -> Links]
      /\ \A d \in Conns : d # c => link'[d] = link[d]
      /\ link'[c].up = link[c].up
      /\ link'[c].client = link[c].client /\ link'[c].server = link[c].server
      /\ link'[c].cut = link[c].cut
      /\ link'[c].large_request = link[c].large_request
      /\ link'[c].down = IF link[c].server /\ ~link[c].cut /\ clusterd.listening THEN link[c].down \o packets ELSE link[c].down
  <2>1. c \in Conns /\ link' = Respond(link, c, packets)
    BY <1>2, <1>3 DEF c, packets
  <2> QED
    BY <1>3, <1>5, <2>1, RespondIs
<1>7. ASSUME NEW d \in Conns PROVE LinkOf(d)'
  <2>1. LinkOf(d)
    BY <1>1, LinkInvIs
  <2>2. CASE d = c
    <3>1. ~link[c].client => link'[c].down = link[c].down
      BY <1>6, <2>1, <2>2 DEF LinkOf
    <3>2. channel.opened # c
      BY <2>1, <2>2 DEF LinkOf, c
    <3> QED
      BY <1>4, <1>6, <2>1, <2>2, <3>1, <3>2 DEF LinkOf
  <2>3. CASE d # c
    BY <1>4, <1>6, <2>1, <2>3 DEF LinkOf
  <2> QED
    BY <2>2, <2>3
<1>8. \A d \in Conns : link'[d].up = link[d].up /\ link'[d].large_request = link[d].large_request
  BY <1>6
<1> QED
  BY <1>4, <1>6, <1>7, <1>8, QuietKeeps

-------------------------------------------------------------------------------
(* The events of the connection that the channel attempts.                 *)

\* A connection that does not come about, or another message, keeps Inv: only marks change.
LEMMA EventKeeps ==
  ASSUME Inv, ConnectFails \/ OtherMessage
  PROVE  Inv' /\ \A r \in Requests : Kept(r)
<1>1. TypeInv /\ LinkInv
  BY DEF Inv
<1>2. /\ session' = session /\ channel' = channel /\ req' = req /\ link' = link /\ clusterd' = clusterd
      /\ delivered' = delivered /\ crashed' = crashed
      /\ \E cos \in SUBSET Who : wakeup.list = {} /\ Marks(cos)
  <2>1. CASE ConnectFails
    BY <2>1 DEF ConnectFails, TakesMessage, Attempting, Who
  <2>2. CASE OtherMessage
    BY <2>2 DEF OtherMessage, TakesMessage
  <2> QED
    BY <2>1, <2>2
<1>3. link' \in [Conns -> Links] /\ clusterd' \in Daemons /\ clusterd'.calls = clusterd.calls
  BY <1>1, <1>2 DEF TypeInv
<1>4. ASSUME NEW c \in Conns PROVE LinkOf(c)'
  <2>1. LinkOf(c)
    BY <1>1, LinkInvIs
  <2> QED
    BY <1>2, <2>1 DEF LinkOf
<1> QED
  BY <1>2, <1>3, <1>4, QuietKeeps

\* What is changed when the connection c is opened, and when it ends before it is used.
Opens(c) ==
  /\ channel.opened = 0 /\ ~link[c].client /\ ~link[c].cut /\ Connecting
  /\ link' = [link EXCEPT ![c].client = TRUE, ![c].server = TRUE]
  /\ channel' = [channel EXCEPT !.opened = c]
  /\ Marks(Who)

OpenedCloses(c) ==
  /\ channel.opened = c /\ link[c].cut
  /\ link' = [link EXCEPT ![c].client = FALSE, ![c].down = <<>>]
  /\ channel' = [channel EXCEPT !.opened = 0]
  /\ Marks({})

\* Who attempts to connect has no connection yet.
LEMMA OpensIs ==
  ASSUME TypeInv, ChannelInv, NEW c \in Conns, ConnectOk(c) \/ OpenedEnds(c)
  PROVE  /\ wakeup.list = {} /\ (Opens(c) \/ OpenedCloses(c))
         /\ UNCHANGED <<session, req, clusterd, delivered, stranded, crashed, commands>>
<1>1. CASE ConnectOk(c)
  <2>1. /\ wakeup.list = {} /\ Connecting /\ channel.connecting[1] \notin wakeup.queue
        /\ ~link[c].client /\ ~link[c].cut
        /\ link' = [link EXCEPT ![c].client = TRUE, ![c].server = TRUE]
        /\ channel' = [channel EXCEPT !.opened = c]
        /\ Marks({channel.connecting[1]})
        /\ UNCHANGED <<session, req, clusterd, delivered, stranded, crashed, commands>>
    BY <1>1 DEF ConnectOk, TakesMessage, Attempting
  <2>2. channel.opened = 0 /\ Who = {channel.connecting[1]}
    BY <2>1 DEF ChannelInv, Marked, Who
  <2> QED
    BY <2>1, <2>2 DEF Opens
<1>2. CASE OpenedEnds(c)
  BY <1>2 DEF OpenedEnds, TakesMessage, OpenedCloses
<1> QED
  BY <1>1, <1>2

\* The events "open" and "close" of it keep Inv.
LEMMA OpensKeeps ==
  ASSUME Inv, NEW c \in Conns, ConnectOk(c) \/ OpenedEnds(c)
  PROVE  Inv' /\ \A r \in Requests : Kept(r)
<1>1. TypeInv /\ LinkInv /\ ChannelInv /\ ThreadInv
  BY DEF Inv
<1>2. /\ wakeup.list = {} /\ (Opens(c) \/ OpenedCloses(c))
      /\ session' = session /\ req' = req /\ clusterd' = clusterd /\ delivered' = delivered /\ crashed' = crashed
  BY <1>1, OpensIs
<1>3. link \in [Conns -> Links] /\ link[c] \in Links /\ channel \in Channels /\ clusterd' \in Daemons
      /\ crashed' \in BOOLEAN /\ clusterd'.calls = clusterd.calls
  BY <1>1, <1>2 DEF TypeInv
<1>4. channel.opened = 0 \/ channel.conn_id = 0
  BY <1>1 DEF ChannelInv, Connected
<1>5. /\ link' \in [Conns -> Links] /\ \A d \in Conns : d # c => link'[d] = link[d]
      /\ link'[c].up = link[c].up /\ link'[c].large_request = link[c].large_request /\ link'[c].cut = link[c].cut
      /\ Opens(c) => link'[c].client = TRUE /\ link'[c].server = TRUE /\ link'[c].down = link[c].down
      /\ OpenedCloses(c) => link'[c].client = FALSE /\ link'[c].server = link[c].server /\ link'[c].down = <<>>
  <2> DEFINE l == link[c]
  <2>1. CASE Opens(c)
    <3>1. link' = [link EXCEPT ![c].client = TRUE, ![c].server = TRUE] /\ ~OpenedCloses(c)
      BY <2>1 DEF Opens, OpenedCloses
    <3>2. link'[c] = [l EXCEPT !.client = TRUE, !.server = TRUE] /\ \A d \in Conns : d # c => link'[d] = link[d]
      BY <1>3, <3>1
    <3>3. /\ link'[c] \in Links /\ link'[c].up = l.up /\ link'[c].large_request = l.large_request /\ link'[c].cut = l.cut
          /\ link'[c].client = TRUE /\ link'[c].server = TRUE /\ link'[c].down = l.down
      BY <1>3, <3>2 DEF Links
    <3> QED
      BY <1>3, <3>1, <3>2, <3>3
  <2>2. CASE OpenedCloses(c)
    <3>1. link' = [link EXCEPT ![c].client = FALSE, ![c].down = <<>>] /\ ~Opens(c) /\ <<>> \in Seq(ResponsePackets)
      BY <2>2 DEF Opens, OpenedCloses
    <3>2. link'[c] = [l EXCEPT !.client = FALSE, !.down = <<>>] /\ \A d \in Conns : d # c => link'[d] = link[d]
      BY <1>3, <3>1
    <3>3. /\ link'[c] \in Links /\ link'[c].up = l.up /\ link'[c].large_request = l.large_request /\ link'[c].cut = l.cut
          /\ link'[c].client = FALSE /\ link'[c].server = l.server /\ link'[c].down = <<>>
      BY <1>3, <3>1, <3>2 DEF Links
    <3> QED
      BY <1>3, <3>1, <3>2, <3>3
  <2> QED
    BY <1>2, <2>1, <2>2
<1>6. /\ channel' \in Channels /\ channel'.conn_id = channel.conn_id /\ channel'.connecting = channel.connecting
      /\ channel'.waiting = channel.waiting /\ channel'.thread = channel.thread
      /\ Opens(c) => channel'.opened = c
      /\ OpenedCloses(c) => channel'.opened = 0
  <2>1. CASE Opens(c)
    BY <1>3, <2>1 DEF Opens, OpenedCloses, Channels
  <2>2. CASE OpenedCloses(c)
    BY <1>3, <2>2 DEF Opens, OpenedCloses, Channels
  <2> QED
    BY <1>2, <2>1, <2>2
<1>s. \A r \in Requests : \/ req'[r].state = req[r].state
                          \/ {req'[r].state, req[r].state} \cap {"connect", "closed"} = {}
  BY <1>2
<1>7. ChannelInv' /\ wakeup' \in Wakeups
  <2>1. CASE Opens(c)
    <3>1. Marks(Who) /\ Connecting /\ Who \in SUBSET Who
      BY <2>1 DEF Opens
    <3> QED
      BY <1>1, <1>2, <1>6, <1>s, <3>1, MarksKeep
  <2>2. CASE OpenedCloses(c)
    <3>1. Marks({}) /\ channel'.opened = 0 /\ {} \in SUBSET Who
      BY <1>6, <2>2 DEF OpenedCloses
    <3> QED
      BY <1>1, <1>2, <1>6, <1>s, <3>1, MarksKeep
  <2> QED
    BY <1>2, <2>1, <2>2
<1>8. ASSUME NEW d \in Conns PROVE LinkOf(d)'
  <2>0. d # 0 /\ c # 0
    BY DEF Conns
  <2>1. LinkOf(d)
    BY <1>1, LinkInvIs
  <2>2. CASE Opens(c)
    <3>1. channel.opened = 0 /\ ~link[c].client /\ ~link[c].cut /\ channel'.opened = c
      BY <1>6, <2>2 DEF Opens
    <3>2. CASE d = c
      BY <1>2, <1>3, <1>5, <1>6, <2>0, <2>1, <2>2, <3>1, <3>2 DEF LinkOf
    <3>3. CASE d # c
      BY <1>2, <1>3, <1>5, <1>6, <2>0, <2>1, <3>1, <3>3 DEF LinkOf
    <3> QED
      BY <3>2, <3>3
  <2>3. CASE OpenedCloses(c)
    <3>1. channel.opened = c /\ link[c].cut /\ channel'.opened = 0 /\ channel'.conn_id = 0
      BY <1>4, <1>6, <2>0, <2>3 DEF OpenedCloses
    <3>2. CASE d = c
      BY <1>2, <1>3, <1>5, <1>6, <2>0, <2>1, <2>3, <3>1, <3>2 DEF LinkOf
    <3>3. CASE d # c
      BY <1>2, <1>3, <1>5, <1>6, <2>0, <2>1, <3>1, <3>3 DEF LinkOf
    <3> QED
      BY <3>2, <3>3
  <2> QED
    BY <1>2, <2>2, <2>3
<1>9. LinkInv' /\ ThreadInv'
  BY <1>1, <1>2, <1>6, <1>8 DEF LinkInv, LinkOf, ThreadInv
<1>10. \A d \in Conns : link'[d].up = link[d].up /\ link'[d].large_request = link[d].large_request
  BY <1>5
<1> QED
  BY <1>1, <1>2, <1>3, <1>5, <1>6, <1>7, <1>9, <1>10, StillMoves, StepKeeps

-------------------------------------------------------------------------------
(* Responses.                                                              *)

\* What a packet has for the caller, and whether more follows.
Data(q) == IF q.type = "begin" THEN Number(q.total) ELSE String(q.data)
IsPadding(q) == q.type \in {"begin", "part"}

\* unpackresponse: session, data and padding of a response packet.
LEMMA UnpackResponse ==
  ASSUME NEW q
  PROVE  /\ lunpackresponse(q).session = q.session /\ lunpackresponse(q).data = Data(q)
         /\ IsPadding(q) => lunpackresponse(q).padding = TRUE
         /\ ~IsPadding(q) => lunpackresponse(q).padding = FALSE
         /\ q.type = "error" => lunpackresponse(q).ok = FALSE
         /\ q.type # "error" => lunpackresponse(q).ok = TRUE
<1>1. lunpackresponse(q) =
        [session |-> q.session, ok |-> q.type # "error",
         data |-> IF q.type = "begin" THEN Number(q.total) ELSE String(q.data),
         padding |-> q.type \in {"begin", "part"}]
  BY DEF lunpackresponse
<1>2. lunpackresponse(q).session = q.session /\ lunpackresponse(q).data = Data(q)
  BY <1>1 DEF Data
<1>3. lunpackresponse(q).padding = (q.type \in {"begin", "part"}) /\ lunpackresponse(q).ok = (q.type # "error")
  BY <1>1
<1>4. ASSUME IsPadding(q) PROVE lunpackresponse(q).padding = TRUE
  <2>1. (q.type \in {"begin", "part"}) = TRUE
    BY <1>4 DEF IsPadding
  <2> QED
    BY <1>3, <2>1, Zenon
<1>5. ASSUME ~IsPadding(q) PROVE lunpackresponse(q).padding = FALSE
  <2>1. (q.type \in {"begin", "part"}) = FALSE
    BY <1>5 DEF IsPadding
  <2> QED
    BY <1>3, <2>1, Zenon
<1>6. ASSUME q.type = "error" PROVE lunpackresponse(q).ok = FALSE
  <2>1. (q.type # "error") = FALSE
    BY <1>6
  <2> QED
    BY <1>3, <2>1, Zenon
<1>7. ASSUME q.type # "error" PROVE lunpackresponse(q).ok = TRUE
  <2>1. (q.type # "error") = TRUE
    BY <1>7
  <2> QED
    BY <1>3, <2>1, Zenon
<1> QED
  BY <1>2, <1>4, <1>5, <1>6, <1>7

\* The data of a response packet is a string, or a number for its first part.
LEMMA DataType ==
  ASSUME NEW q \in ResponsePackets
  PROVE  /\ q.session \in SessionsOr0 /\ Data(q) \in Parts
         /\ q.type # "begin" => q.data \in Bytes /\ Data(q) = String(q.data) /\ Data(q) \in Strings
<1>1. CASE q \in [type : {"error", "ok", "part", "end"}, session : SessionsOr0, data : Bytes]
  BY <1>1 DEF Data, String, Strings, Parts
<1>2. CASE q \in [type : {"begin"}, session : SessionsOr0, total : Nat]
  BY <1>2 DEF Data, Number, Parts
<1> QED
  BY <1>1, <1>2 DEF ResponsePackets

\* The head of what c brings.
Got(c) == Head(link[c].down)

\* The packet that dispatch_by_session reads is the first under way.
LEMMA GotIs ==
  ASSUME TypeInv, NEW c \in Conns, link[c].down # <<>>
  PROVE  /\ link[c].down \in Seq(ResponsePackets) /\ Got(c) \in ResponsePackets /\ Got(c) = link[c].down[1]
         /\ 1 \in 1 .. Len(link[c].down) /\ Tail(link[c].down) \in Seq(ResponsePackets)
         /\ Len(Tail(link[c].down)) = Len(link[c].down) - 1 /\ Len(link[c].down) \in Nat
         /\ \A i \in 1 .. Len(Tail(link[c].down)) : Tail(link[c].down)[i] = link[c].down[i + 1]
<1> DEFINE d == link[c].down
<1>1. d \in Seq(ResponsePackets) /\ d # <<>>
  BY DEF TypeInv, Links
<1> HIDE DEF d
<1>2. /\ Head(d) \in ResponsePackets /\ Head(d) = d[1] /\ 1 \in 1 .. Len(d) /\ Tail(d) \in Seq(ResponsePackets)
      /\ Len(Tail(d)) = Len(d) - 1 /\ Len(d) \in Nat
      /\ \A i \in 1 .. Len(Tail(d)) : Tail(d)[i] = d[i + 1]
  BY <1>1
<1> QED
  BY <1>1, <1>2 DEF d, Got

\* Nobody waits for the packet; more follows; the response is complete.
Ignored(c) == Got(c).session \notin DOMAIN channel.thread /\ UNCHANGED <<channel, req, crashed>>

\* r gets a part and goes on waiting.
Gathers(c, r) ==
  /\ Got(c).session \in DOMAIN channel.thread /\ r = channel.thread[Got(c).session]
  /\ IsPadding(Got(c)) /\ UNCHANGED <<channel, crashed>>
  /\ req' = [req EXCEPT ![r].result_data = Append(req[r].result_data, Data(Got(c)))]

\* The packet ends the wait of r.
Ends(c, r, ok, outcome) ==
  /\ Got(c).session \in DOMAIN channel.thread /\ r = channel.thread[Got(c).session]
  /\ ~IsPadding(Got(c)) /\ ok = (Got(c).type # "error")
  /\ outcome = Outcome(ok, Append(req[r].result_data, Data(Got(c))))
  /\ req' = [req EXCEPT ![r].state = "done", ![r].result = outcome.result, ![r].result_data = <<>>]
  /\ channel' = [channel EXCEPT !.thread = Without(@, Got(c).session)]
  /\ crashed' = outcome.crash

\* One round of dispatch_by_session: the packet is ignored, gathered by its requester, or
\* ends its requester's wait.
LEMMA ReceiveIs ==
  ASSUME TypeInv, ThreadInv, NEW c \in Conns, Receive(c)
  PROVE  /\ channel.conn_id = c /\ link[c].down # <<>> /\ ~crashed /\ wakeup.list = {} /\ Marks({})
         /\ UNCHANGED <<session, clusterd, delivered, stranded, commands>>
         /\ link' = [link EXCEPT ![c].down = Tail(@), ![c].cut = @ \/ crashed']
         /\ \/ Ignored(c)
            \/ \E r \in Requests : Gathers(c, r)
            \/ \E r \in Requests, ok \in BOOLEAN : \E outcome : Ends(c, r, ok, outcome)
<1> DEFINE p == lunpackresponse(Head(link[c].down))
           r == waiter(p.session)
           result == Append(req[r].result_data, p.data)
           outcome == Outcome(p.ok, result)
<1>1. /\ channel.conn_id = c /\ link[c].down # <<>> /\ ~crashed /\ wakeup.list = {} /\ Marks({})
      /\ UNCHANGED <<session, clusterd, delivered, stranded, commands>>
      /\ link' = [link EXCEPT ![c].down = Tail(@), ![c].cut = @ \/ crashed']
  BY Zenon DEF Receive, TakesMessage
<1>2. (CASE r = 0 -> UNCHANGED <<channel, req, crashed>>
         [] r # 0 /\ p.padding ->
              /\ req' = [req EXCEPT ![r].result_data = result]
              /\ UNCHANGED <<channel, crashed>>
         [] r # 0 /\ ~p.padding ->
              /\ req' = [req EXCEPT ![r].state = "done", ![r].result = outcome.result,
                                    ![r].result_data = <<>>]
              /\ channel' = [channel EXCEPT !.thread = Without(@, p.session)]
              /\ crashed' = outcome.crash)
  BY Zenon DEF Receive
<1> DEFINE q == Got(c)
<1>3. /\ p.session = q.session /\ p.data = Data(q)
      /\ IsPadding(q) => p.padding = TRUE
      /\ ~IsPadding(q) => p.padding = FALSE
      /\ q.type = "error" => p.ok = FALSE
      /\ q.type # "error" => p.ok = TRUE
  BY UnpackResponse DEF Got
<1> HIDE DEF p, q
<1>4. CASE q.session \notin DOMAIN channel.thread
  <2>1. r = 0
    BY <1>3, <1>4 DEF waiter
  <2>2. Ignored(c)
    BY <1>2, <1>4, <2>1 DEF Ignored, q
  <2> QED
    BY <1>1, <2>2
<1>5. CASE q.session \in DOMAIN channel.thread
  <2>1. r = channel.thread[q.session] /\ r \in Requests /\ r # 0
    <3>1. r = channel.thread[q.session]
      BY <1>3, <1>5 DEF waiter
    <3>2. channel.thread[q.session] \in Requests
      BY <1>5, ThreadWaits
    <3> QED
      BY <3>1, <3>2 DEF Requests
  <2>2. result = Append(req[r].result_data, Data(q))
    BY <1>3
  <2> HIDE DEF r, result, outcome
  <2>3. CASE IsPadding(q)
    <3>1. req' = [req EXCEPT ![r].result_data = result] /\ UNCHANGED <<channel, crashed>>
      BY <1>2, <1>3, <2>1, <2>3
    <3>2. Gathers(c, r)
      BY <1>5, <2>1, <2>2, <2>3, <3>1 DEF Gathers, q
    <3> QED
      BY Zenon, <1>1, <2>1, <3>2
  <2>4. CASE ~IsPadding(q)
    <3>1. /\ req' = [req EXCEPT ![r].state = "done", ![r].result = outcome.result,
                                    ![r].result_data = <<>>]
          /\ channel' = [channel EXCEPT !.thread = Without(@, p.session)]
          /\ crashed' = outcome.crash
      BY <1>2, <1>3, <2>1, <2>4
    <3>2. p.ok = (q.type # "error") /\ p.ok \in BOOLEAN
      <4>1. CASE q.type = "error"
        BY <1>3, <4>1
      <4>2. CASE q.type # "error"
        BY <1>3, <4>2
      <4> QED
        BY <4>1, <4>2
    <3>3. Ends(c, r, p.ok, outcome)
      BY Zenon, <1>3, <1>5, <2>1, <2>2, <2>4, <3>1, <3>2 DEF Ends, q, outcome
    <3> QED
      BY <1>1, <2>1, <3>2, <3>3
  <2> QED
    BY <2>3, <2>4
<1> QED
  BY <1>4, <1>5

\* command.req crashes or does not.
LEMMA OutcomeIs ==
  ASSUME NEW ok \in BOOLEAN, NEW result
  PROVE  Outcome(ok, result).crash \in BOOLEAN
<1>1. CASE ~ok
  BY <1>1 DEF Outcome
<1>2. CASE ok /\ Len(result) = 1 /\ ~IsNumber(result[1])
  BY <1>2 DEF Outcome
<1>3. CASE ok /\ ~(Len(result) = 1 /\ ~IsNumber(result[1]))
  BY <1>3 DEF Outcome
<1> QED
  BY <1>1, <1>2, <1>3

\* One round of dispatch_by_session keeps Inv.
LEMMA ReceiveKeeps ==
  ASSUME Inv, NEW c \in Conns, Receive(c)
  PROVE  Inv' /\ \A q \in Requests : Kept(q)
<1>1. TypeInv /\ LinkInv /\ ChannelInv /\ ThreadInv
  BY DEF Inv
<1>2. /\ channel.conn_id = c /\ link[c].down # <<>> /\ ~crashed /\ wakeup.list = {} /\ Marks({})
      /\ session' = session /\ clusterd' = clusterd /\ delivered' = delivered
      /\ link' = [link EXCEPT ![c].down = Tail(@), ![c].cut = @ \/ crashed']
      /\ \/ Ignored(c)
         \/ \E r \in Requests : Gathers(c, r)
         \/ \E r \in Requests, ok \in BOOLEAN : \E outcome : Ends(c, r, ok, outcome)
  BY <1>1, ReceiveIs
<1>3. channel \in Channels /\ channel.thread \in Tables(Requests) /\ link \in [Conns -> Links] /\ clusterd \in Daemons
      /\ req \in [Requests -> RequestRecords]
  BY <1>1 DEF TypeInv, Channels
<1>4. Data(Got(c)) \in Parts
  BY <1>1, <1>2, GotIs, DataType
\* The channel and the requests afterwards.
<1> DEFINE After ==
             /\ channel' \in Channels /\ channel'.conn_id = channel.conn_id /\ channel'.waiting = channel.waiting
             /\ channel'.connecting = channel.connecting /\ channel'.opened = channel.opened
             /\ crashed' \in BOOLEAN /\ DOMAIN req' = Requests /\ req' = [r \in Requests |-> req'[r]]
             /\ \A r \in Requests : Moves(r) /\ (req'[r] # req[r] => req[r].state = "wait" /\ req'[r].state \notin {"connect", "closed"})
             /\ ThreadInv'
<1>5. ASSUME Ignored(c) PROVE After
  <2>1. channel' = channel /\ req' = req /\ crashed' = crashed
    BY <1>5 DEF Ignored
  <2>2. ThreadInv'
    BY <1>1, <2>1 DEF ThreadInv
  <2>3. After
    BY Zenon, <1>1, <1>3, <2>1, <2>2, StillMoves DEF TypeInv
  <2> QED
    BY <2>3
<1>6. ASSUME NEW r \in Requests, Gathers(c, r) PROVE After
  <2>1. /\ Got(c).session \in DOMAIN channel.thread /\ r = channel.thread[Got(c).session]
        /\ channel' = channel /\ crashed' = crashed
        /\ req' = [req EXCEPT ![r].result_data = Append(req[r].result_data, Data(Got(c)))]
    BY <1>6 DEF Gathers
  <2>2. req[r].state = "wait"
    BY <1>1, <2>1, ThreadWaits
  <2> DEFINE t == Append(req[r].result_data, Data(Got(c)))
  <2>3. t \in Seq(Parts) /\ req[r] \in RequestRecords
    BY <1>3, <1>4 DEF RequestRecords
  <2>4. req' = [req EXCEPT ![r].result_data = t]
    BY <2>1
  <2> HIDE DEF t
  <2>5. /\ DOMAIN req' = Requests /\ req' = [q \in Requests |-> req'[q]]
        /\ \A q \in Requests : q # r => req'[q] = req[q]
        /\ req'[r] = [req[r] EXCEPT !.result_data = t]
    BY <1>3, <2>4
  <2>6. /\ req'[r] = [req[r] EXCEPT !.state = "wait", !.result_data = t, !.result = req[r].result]
        /\ req'[r].state = "wait" /\ req'[r].session = req[r].session /\ req'[r].is_push = req[r].is_push
    <3> DEFINE old == req[r]
    <3>1. old \in RequestRecords /\ old.state = "wait" /\ req'[r] = [old EXCEPT !.result_data = t]
      BY <2>2, <2>3, <2>5
    <3> HIDE DEF old
    <3>2. /\ req'[r] = [old EXCEPT !.state = "wait", !.result_data = t, !.result = old.result]
          /\ req'[r].state = "wait" /\ req'[r].session = old.session /\ req'[r].is_push = old.is_push
      <4>1. /\ req'[r].state = old.state /\ req'[r].session = old.session /\ req'[r].is_push = old.is_push
        BY <3>1 DEF RequestRecords
      <4>2. [old EXCEPT !.result_data = t] = [old EXCEPT !.state = "wait", !.result_data = t, !.result = old.result]
        BY <3>1 DEF RequestRecords
      <4> QED
        BY <3>1, <4>1, <4>2
    <3> QED
      BY <3>2 DEF old
  <2>7. Moves(r)
    BY <2>2, <2>3, <2>6 DEF Moves
  <2>8. ASSUME NEW q \in Requests PROVE Moves(q)
    <3>1. CASE q = r
      BY <2>7, <3>1
    <3>2. CASE q # r
      BY <2>5, <3>2 DEF Moves
    <3> QED
      BY <3>1, <3>2
  <2>9. ThreadInv'
    <3> SUFFICES ASSUME NEW s \in DOMAIN channel.thread
                 PROVE  LET q == channel.thread[s]
                        IN req'[q].state = "wait" /\ req'[q].session = s /\ ~req'[q].is_push
      BY <2>1 DEF ThreadInv
    <3> DEFINE q == channel.thread[s]
    <3>1. q \in Requests /\ req[q].state = "wait" /\ req[q].session = s /\ ~req[q].is_push
      BY <1>1, ThreadWaits
    <3> QED
      BY <2>5, <2>6, <3>1
  <2>10. \A q \in Requests : req'[q] # req[q] => req[q].state = "wait" /\ req'[q].state \notin {"connect", "closed"}
    BY <2>2, <2>5, <2>6
  <2>11. crashed' \in BOOLEAN
    BY <1>1, <2>1 DEF TypeInv
  <2> QED
    BY Zenon, <1>3, <2>1, <2>5, <2>8, <2>9, <2>10, <2>11
<1>7. ASSUME NEW r \in Requests, NEW ok \in BOOLEAN, \E outcome : Ends(c, r, ok, outcome) PROVE After
  <2>1. PICK outcome : Ends(c, r, ok, outcome)
    BY Zenon, <1>7
  <2>2. /\ Got(c).session \in DOMAIN channel.thread /\ r = channel.thread[Got(c).session]
        /\ crashed' = outcome.crash /\ outcome = Outcome(ok, Append(req[r].result_data, Data(Got(c))))
        /\ req' = [req EXCEPT ![r].state = "done", ![r].result = outcome.result, ![r].result_data = <<>>]
        /\ channel' = [channel EXCEPT !.thread = Without(@, Got(c).session)]
    BY Zenon, <2>1 DEF Ends
  <2> DEFINE s == Got(c).session
             t == Without(channel.thread, s)
  <2>3. t \in Tables(Requests) /\ DOMAIN t = DOMAIN channel.thread \ {s} /\ \A x \in DOMAIN t : t[x] = channel.thread[x]
    <3> DEFINE th == channel.thread
    <3>1. th \in Tables(Requests)
      BY <1>3
    <3> HIDE DEF th, s
    <3>2. /\ Without(th, s) \in Tables(Requests) /\ DOMAIN Without(th, s) = DOMAIN th \ {s}
          /\ \A x \in DOMAIN th \ {s} : Without(th, s)[x] = th[x]
      BY <3>1, WithoutIs
    <3> QED
      BY <3>2 DEF th
  <2>4. channel' = [channel EXCEPT !.thread = t]
    BY Zenon, <2>2
  <2> HIDE DEF t
  <2>5. channel' \in Channels /\ channel'.conn_id = channel.conn_id /\ channel'.waiting = channel.waiting
        /\ channel'.connecting = channel.connecting /\ channel'.opened = channel.opened /\ channel'.thread = t
    BY Zenon, <1>3, <2>3, <2>4 DEF Channels
  <2>6. req[r].state = "wait" /\ req[r].session = s /\ req[r] \in RequestRecords
    BY Zenon, <1>1, <1>3, <2>2, ThreadWaits
  <2>7. /\ DOMAIN req' = Requests /\ req' = [q \in Requests |-> req'[q]]
        /\ \A q \in Requests : q # r => req'[q] = req[q]
        /\ req'[r] = [req[r] EXCEPT !.state = "done", !.result = outcome.result, !.result_data = <<>>]
    BY Zenon, <1>3, <2>2
  <2>8. req'[r] = [req[r] EXCEPT !.state = "done", !.result_data = <<>>, !.result = outcome.result]
        /\ req'[r].state = "done"
    BY <2>6, <2>7 DEF RequestRecords
  <2>9. Moves(r)
    <3>1. <<>> \in Seq(Parts)
      OBVIOUS
    <3> QED
      BY <2>6, <2>8, <3>1 DEF Moves
  <2>10. ASSUME NEW q \in Requests PROVE Moves(q)
    <3>1. CASE q = r
      BY Zenon, <2>9, <3>1
    <3>2. CASE q # r
      BY <2>7, <3>2 DEF Moves
    <3> QED
      BY <3>1, <3>2
  <2>11. ThreadInv'
    <3> SUFFICES ASSUME NEW x \in DOMAIN t
                 PROVE  LET q == t[x]
                        IN req'[q].state = "wait" /\ req'[q].session = x /\ ~req'[q].is_push
      BY <2>5 DEF ThreadInv
    <3> DEFINE q == t[x]
    <3>0. x \in DOMAIN channel.thread /\ x # s /\ q = channel.thread[x]
      BY <2>3
    <3>1. q \in Requests /\ req[q].state = "wait" /\ req[q].session = x /\ ~req[q].is_push
      BY <1>1, <3>0, ThreadWaits
    <3>2. q # r
      BY <2>6, <3>0, <3>1
    <3> QED
      BY <2>7, <3>1, <3>2
  <2>12. \A q \in Requests : req'[q] # req[q] => req[q].state = "wait" /\ req'[q].state \notin {"connect", "closed"}
    BY <2>6, <2>7, <2>8
  <2>13. crashed' \in BOOLEAN
    BY Zenon, <2>2, OutcomeIs
  <2> QED
    BY <2>5, <2>7, <2>10, <2>11, <2>12, <2>13
<1>8. After
  BY <1>2, <1>5, <1>6, <1>7
<1> HIDE DEF After
<1>a. /\ channel' \in Channels /\ channel'.conn_id = channel.conn_id /\ channel'.waiting = channel.waiting
      /\ channel'.connecting = channel.connecting /\ channel'.opened = channel.opened
      /\ crashed' \in BOOLEAN /\ DOMAIN req' = Requests /\ req' = [r \in Requests |-> req'[r]]
      /\ \A r \in Requests : Moves(r)
      /\ \A r \in Requests : req'[r] # req[r] => req[r].state = "wait" /\ req'[r].state \notin {"connect", "closed"}
      /\ ThreadInv'
  BY <1>8 DEF After
<1>9. /\ link' \in [Conns -> Links] /\ \A d \in Conns : d # c => link'[d] = link[d]
      /\ link'[c].up = link[c].up /\ link'[c].large_request = link[c].large_request
      /\ link'[c].client = link[c].client /\ link'[c].server = link[c].server
      /\ (link[c].cut => link'[c].cut)
  <2> DEFINE b == link[c].cut \/ crashed'
             l == link[c]
             t == Tail(link[c].down)
  <2>1. b \in BOOLEAN /\ t \in Seq(ResponsePackets) /\ l \in Links /\ (link[c].cut => b)
    BY <1>1, <1>2, <1>3, GotIs
  <2>2. link' = [link EXCEPT ![c].down = t, ![c].cut = b]
    BY <1>2
  <2> HIDE DEF b, t
  <2>3. link'[c] = [l EXCEPT !.down = t, !.cut = b] /\ \A d \in Conns : d # c => link'[d] = link[d]
    BY <1>3, <2>2
  <2>4. /\ link'[c] \in Links /\ link'[c].up = link[c].up /\ link'[c].large_request = link[c].large_request
        /\ link'[c].client = link[c].client /\ link'[c].server = link[c].server
        /\ link'[c].cut = b
    BY <2>1, <2>3 DEF Links
  <2>5. link' \in [Conns -> Links]
    BY <1>3, <2>2, <2>4
  <2> QED
    BY <2>1, <2>3, <2>4, <2>5
<1>10. LinkInv'
  <2>0. channel.opened # c
    BY <1>1, <1>2 DEF ChannelInv, Connected, Conns
  <2>1. ASSUME NEW d \in Conns PROVE LinkOf(d)'
    <3>1. LinkOf(d)
      BY <1>1, LinkInvIs
    <3>2. CASE d = c
      BY <1>2, <1>9, <1>a, <2>0, <3>1, <3>2 DEF LinkOf
    <3>3. CASE d # c
      BY <1>2, <1>9, <1>a, <3>1, <3>3 DEF LinkOf
    <3> QED
      BY <3>2, <3>3
  <2> QED
    BY <2>1 DEF LinkInv, LinkOf
<1>11. ChannelInv' /\ wakeup' \in Wakeups
  <2>1. \A r \in Requests : \/ req'[r].state = req[r].state
                            \/ {req'[r].state, req[r].state} \cap {"connect", "closed"} = {}
    BY <1>a
  <2>2. {} \in SUBSET Who
    OBVIOUS
  <2> QED
    BY <1>1, <1>2, <1>a, <2>1, <2>2, MarksKeep
<1>12. \A d \in Conns : link'[d].up = link[d].up /\ link'[d].large_request = link[d].large_request
  BY <1>9
<1>13. clusterd' \in Daemons /\ clusterd'.calls \subseteq clusterd.calls
  BY <1>2, <1>3
<1> QED
  BY <1>2, <1>9, <1>10, <1>11, <1>12, <1>13, <1>a, StepKeeps

\* The bytes of parts that are strings.
Strs(parts) == [i \in 1 .. Len(parts) |-> parts[i].str]

\* append: the parts with one more, put together, are the former ones followed by it.
LEMMA StrsAppend ==
  ASSUME NEW parts \in Seq(Strings), NEW v \in Bytes
  PROVE  /\ Append(parts, String(v)) \in Seq(Strings)
         /\ Strs(parts) \in Seq(Bytes)
         /\ FlattenSeq(Strs(Append(parts, String(v)))) = FlattenSeq(Strs(parts)) \o v
<1> DEFINE t == Append(parts, String(v))
           f == Strs(parts)
           g == Strs(t)
<1>1. String(v) \in Strings /\ String(v).str = v
  BY DEF String, Strings
<1>2. /\ t \in Seq(Strings) /\ Len(t) = Len(parts) + 1 /\ Len(parts) \in Nat
      /\ \A i \in 1 .. Len(parts) : t[i] = parts[i]
      /\ t[Len(parts) + 1] = String(v)
  BY <1>1, AppendIs
<1> HIDE DEF t
<1>3. \A i \in 1 .. Len(parts) : parts[i].str \in Bytes
  <2>1. \A i \in 1 .. Len(parts) : parts[i] \in Strings
    OBVIOUS
  <2> QED
    BY <2>1 DEF Strings
<1>4. f \in Seq(Bytes) /\ Len(f) = Len(parts) /\ \A i \in 1 .. Len(parts) : f[i] = parts[i].str
  BY <1>2, <1>3 DEF Strs
<1>5. Append(f, v) \in Seq(Bytes) /\ Len(Append(f, v)) = Len(f) + 1
      /\ (\A i \in 1 .. Len(f) : Append(f, v)[i] = f[i]) /\ Append(f, v)[Len(f) + 1] = v
  BY <1>4, AppendIs
<1>6. g = Append(f, v)
  <2>1. g = [i \in 1 .. Len(parts) + 1 |-> t[i].str]
    BY <1>2 DEF Strs
  <2> DEFINE h == Append(f, v)
  <2>2. h \in Seq(Bytes) /\ Len(h) = Len(parts) + 1
    BY <1>4, <1>5
  <2>3. \A i \in 1 .. Len(parts) + 1 : h[i] = t[i].str
    <3> SUFFICES ASSUME NEW i \in 1 .. Len(parts) + 1 PROVE h[i] = t[i].str
      OBVIOUS
    <3>1. CASE i = Len(parts) + 1
      BY <1>1, <1>2, <1>4, <1>5, <3>1
    <3>2. CASE i # Len(parts) + 1
      <4>1. i \in 1 .. Len(parts)
        BY <1>2, <3>2
      <4> QED
        BY <1>2, <1>4, <1>5, <4>1
    <3> QED
      BY <3>1, <3>2
  <2> HIDE DEF h
  <2>4. h = [i \in 1 .. Len(parts) + 1 |-> h[i]]
    BY <2>2
  <2>5. h = [i \in 1 .. Len(parts) + 1 |-> t[i].str]
    BY <2>3, <2>4
  <2> QED
    BY <2>1, <2>5 DEF h
<1> HIDE DEF f, g
<1>7. FlattenSeq(Append(f, v)) = FlattenSeq(f) \o v
  BY <1>4, FlattenAppend DEF Bytes
<1> QED
  BY <1>2, <1>4, <1>6, <1>7 DEF t, f, g

\* No parts put together are the empty string.
LEMMA StrsEmpty == FlattenSeq(Strs(<<>>)) = <<>> /\ <<>> \in Seq(Strings)
<1>1. Strs(<<>>) = <<>>
  BY DEF Strs
<1> QED
  BY <1>1, FlattenEmpty

\* The parts of a large request when its header was taken, and with one more chunk.
LEMMA AssemblingFirst ==
  ASSUME TypeInv, MadeInv, NEW r \in Requests, IsMade(r), NEW large \in Tables(Large),
         DOMAIN large = {req[r].session},
         large[req[r].session] = [addr |-> req[r].addr, is_push |-> req[r].is_push, parts |-> <<>>]
  PROVE  Assembling(large, r, 2)
<1> DEFINE parts == large[req[r].session].parts
<1>1. parts = <<>>
  OBVIOUS
<1>2. [i \in 1 .. Len(parts) |-> parts[i].str] = Strs(<<>>)
  BY <1>1 DEF Strs
<1>3. SubSeq(req[r].msg, 1, (2 - 2) * MULTI_PART) = <<>>
  <2>1. req[r].msg \in Bytes /\ (2 - 2) * MULTI_PART = 0
    BY MadeIs, WireAssumption
  <2> QED
    BY <2>1 DEF Bytes
<1>4. large[req[r].session].addr = req[r].addr /\ large[req[r].session].is_push = req[r].is_push
  OBVIOUS
<1>5. parts \in Seq(Strings)
      /\ FlattenSeq([i \in 1 .. Len(parts) |-> parts[i].str]) = SubSeq(req[r].msg, 1, (2 - 2) * MULTI_PART)
  BY <1>1, <1>2, <1>3, StrsEmpty
<1> QED
  BY <1>4, <1>5, Zenon DEF Assembling

\* append: the parts of a large request with the next one are a longer beginning of its
\* payload.
LEMMA AssemblingNext ==
  ASSUME TypeInv, MadeInv, NEW r \in Requests, IsMade(r), IsLarge(r), NEW k \in 2 .. PartCount(Len(req[r].msg)),
         NEW large \in Tables(Large), Assembling(large, r, k), NEW after,
         DOMAIN after = {req[r].session},
         after[req[r].session] =
           [large[req[r].session] EXCEPT !.parts = Append(@, String(Chunk(req[r].msg, k - 1)))]
  PROVE  Assembling(after, r, k + 1)
<1> DEFINE s == req[r].session
           msg == req[r].msg
           n == PartCount(Len(msg))
           parts == large[s].parts
           chunk == Chunk(msg, k - 1)
<1>1. msg \in Bytes /\ msg # <<>> /\ n \in Nat \ {0} /\ k - 1 \in 1 .. n /\ k - 1 # n /\ k \in Nat
  BY MadeIs, PartCountIs
<1>2. chunk \in Bytes /\ ChunkEnd(msg, k - 1) = (k - 1) * MULTI_PART
  BY <1>1, ChunkIs DEF ChunkEnd
<1>3. SubSeq(msg, 1, ((k - 1) - 1) * MULTI_PART) \o chunk = SubSeq(msg, 1, ChunkEnd(msg, k - 1))
  BY <1>1, ChunkNext
<1>4. (k - 1) - 1 = k - 2 /\ (k + 1) - 2 = k - 1
  BY <1>1
<1>5. /\ DOMAIN large = {s} /\ large[s].addr = req[r].addr /\ large[s].is_push = req[r].is_push
      /\ parts \in Seq(Strings)
      /\ FlattenSeq(Strs(parts)) = SubSeq(msg, 1, (k - 2) * MULTI_PART)
  BY Zenon DEF Assembling, Strs
<1>6. large[s] \in Large
  BY Zenon, <1>5, TableIs
<1>7. /\ after[s].addr = req[r].addr /\ after[s].is_push = req[r].is_push
      /\ after[s].parts = Append(parts, String(chunk))
  BY Zenon, <1>5, <1>6 DEF Large
<1>8. /\ after[s].parts \in Seq(Strings)
      /\ FlattenSeq(Strs(after[s].parts)) = FlattenSeq(Strs(parts)) \o chunk
  <2> HIDE DEF parts, chunk
  <2> QED
    BY <1>2, <1>5, <1>7, StrsAppend
<1>9. FlattenSeq(Strs(after[s].parts)) = SubSeq(msg, 1, ((k + 1) - 2) * MULTI_PART)
  BY Zenon, <1>2, <1>3, <1>4, <1>5, <1>8
<1> QED
  BY Zenon, <1>7, <1>8, <1>9 DEF Assembling, Strs

-------------------------------------------------------------------------------
(* A packet taken from the stream.                                         *)

\* UpOf survives that the first packet is taken, when large_request is that of the part
\* taken.
LEMMA UpTail ==
  ASSUME TypeInv, MadeInv, UpInv, NEW c \in Conns, NEW r \in Requests, NEW k, Heads(c, r, k), req' = req,
         link[c].up # <<>>, link'[c].up = Tail(link[c].up),
         k = Len(Packets(r)) => DOMAIN link'[c].large_request = {},
         k < Len(Packets(r)) => Assembling(link'[c].large_request, r, k + 1)
  PROVE  UpOf(c)'
<1> DEFINE u == link[c].up
           b == Packets(r)
<1>1. u \in Seq(RequestPackets) /\ b \in Seq(RequestPackets) /\ WholeBlock(b) /\ Len(b) \in Nat
      /\ IsSent(r) /\ k \in 1 .. Len(b) /\ RunAt(u, 1, b, k)
  <2>1. IsMade(r) /\ IsSent(r) /\ k \in 1 .. Len(b) /\ RunAt(u, 1, b, k)
    BY DEF Heads, IsSent, IsMade
  <2>2. u \in Seq(RequestPackets)
    BY DEF TypeInv, Links
  <2> QED
    BY <2>1, <2>2, PacketsAre
<1>2. RequestBlocks \in SUBSET Seq(RequestPackets) /\ Stream(u, RequestBlocks)
  <2>1. \A q \in Requests : IsSent(q) => Packets(q) \in Seq(RequestPackets)
    BY PacketsAre DEF IsSent, IsMade
  <2> QED
    BY <2>1 DEF RequestBlocks, UpInv, UpOf
<1>3. RequestBlocks' = RequestBlocks /\ (\A q \in Requests : IsSent(q)' <=> IsSent(q)) /\ Packets(r)' = b
  BY DEF RequestBlocks, IsSent, Packets
<1> HIDE DEF b
<1>4. Stream(Tail(u), RequestBlocks)
  BY <1>1, <1>2, StreamTail
<1>5. /\ k < Len(b) => Tail(u) # <<>> /\ RunAt(Tail(u), 1, b, k + 1)
      /\ k = Len(b) => Tail(u) = <<>> \/ Starts(Tail(u)[1])
  BY <1>1, HeadNext
<1>6. CASE k = Len(b)
  <2>1. DOMAIN link'[c].large_request = {}
    BY <1>6 DEF b
  <2> QED
    BY <1>3, <1>4, <1>5, <1>6, <2>1 DEF UpOf
<1>7. CASE k # Len(b)
  <2>1. k < Len(b) /\ k + 1 \in 2 .. Len(b)
    BY <1>1, <1>7
  <2>2. Tail(u) # <<>> /\ RunAt(Tail(u), 1, b, k + 1)
    BY <1>5, <2>1
  <2>3. Assembling(link'[c].large_request, r, k + 1)
    BY Zenon, <2>1 DEF b
  <2>4. Assembling(link[c].large_request, r, k + 1)'
    BY Zenon, <2>3 DEF Assembling
  <2>5. Tail(u)[1] = b[k + 1] /\ ~Starts(b[k + 1])
    <3>1. Tail(u) \in Seq(RequestPackets)
      BY <1>1
    <3>2. Tail(u)[1] = b[k + 1]
      <4> DEFINE v == Tail(u)
      <4>1. v \in Seq(RequestPackets) /\ v # <<>> /\ RunAt(v, 1, b, k + 1)
        BY <2>2, <3>1
      <4> HIDE DEF v
      <4>2. v[1] = b[k + 1]
        BY <1>1, <4>1, HeadNext
      <4> QED
        BY <4>2 DEF v
    <3> QED
      BY <1>1, <2>1, <3>2 DEF WholeBlock
  <2>6. \E q \in Requests : \E j \in 2 .. Len(Packets(q)') :
           /\ IsSent(q)' /\ RunAt(link'[c].up, 1, Packets(q)', j)
           /\ Assembling(link[c].large_request, q, j)'
    BY <1>1, <1>3, <2>1, <2>2, <2>4
  <2> QED
    BY <1>3, <1>4, <2>2, <2>5, <2>6 DEF UpOf
<1> QED
  BY <1>6, <1>7

\* A small packet on its way is that of a request that was sent.
LEMMA SmallIs ==
  ASSUME TypeInv, MadeInv, UpInv, NEW c \in Conns, NEW i \in 1 .. Len(link[c].up), link[c].up[i].type = "req"
  PROVE  \E q \in Requests : IsSent(q) /\ ~IsLarge(q) /\ link[c].up[i] = SmallOf(q)
<1> DEFINE u == link[c].up
<1>1. u \in Seq(RequestPackets) /\ Stream(u, RequestBlocks)
  BY DEF TypeInv, Links, UpInv, UpOf
<1>2. Starts(u[i])
  BY DEF Starts
<1>3. PICK b \in RequestBlocks : RunAt(u, i, b, 1)
  BY <1>1, <1>2 DEF Stream
<1>4. PICK q \in Requests : IsSent(q) /\ b = Packets(q)
  BY <1>3 DEF RequestBlocks
<1>5. b \in Seq(RequestPackets) /\ Len(b) \in Nat /\ 1 \in 1 .. Len(b)
  BY <1>3, <1>4, PacketsAre DEF IsSent, IsMade, RunAt
<1>6. u[i] = b[1]
  <2>1. \A j \in 1 .. Len(b) : u[i + j - 1] = b[j]
    BY <1>3 DEF RunAt
  <2>2. u[i + 1 - 1] = b[1] /\ i + 1 - 1 = i
    BY <1>5, <2>1
  <2> QED
    BY <2>2
<1>7. ~IsLarge(q) /\ b[1] = SmallOf(q)
  BY <1>4, <1>5, <1>6, PacketsAre DEF IsSent, IsMade
<1> QED
  BY <1>4, <1>6, <1>7

\* What clusterd does with the packet it took.
Steps(c, r) ==
  /\ UNCHANGED <<session, channel, wakeup, req, crashed>>
  /\ link' \in [Conns -> Links] /\ \A d \in Conns : d # c => link'[d] = link[d]
  /\ link'[c].up = Tail(link[c].up) /\ link'[c].client = link[c].client
  /\ link'[c].server = link[c].server /\ link'[c].cut = link[c].cut
  /\ (link'[c].down = link[c].down \/ (link[c].server /\ ~link[c].cut))
  /\ clusterd' \in Daemons
  /\ (clusterd'.calls = clusterd.calls \/ (~req[r].is_push /\ clusterd'.calls = clusterd.calls \cup {CallOf(c, r)}))
  /\ \/ delivered' = delivered
     \/ /\ ~IsLarge(r)
        /\ \E handle \in Handles :
             /\ isname(req[r].addr) \/ req[r].addr = handle
             /\ delivered' = Append(delivered, [handle |-> handle, msg |-> req[r].msg, is_push |-> req[r].is_push])

\* OnceInv survives that the first packet is taken and the message in it delivered at
\* most once.
LEMMA OnceTail ==
  ASSUME TypeInv, MadeInv, UpInv, OnceInv, NEW c \in Conns, NEW r \in Requests,
         IsSent(r), link[c].up # <<>>, ~IsLarge(r) => Head(link[c].up) = SmallOf(r), Steps(c, r)
  PROVE  OnceInv' /\ delivered' \in Seq(Deliveries)
<1>1. /\ req' = req /\ \A d \in Conns : d # c => link'[d] = link[d]
      /\ link'[c].up = Tail(link[c].up)
  BY DEF Steps
<1>2. link[c].up \in Seq(RequestPackets) /\ delivered \in Seq(Deliveries)
  BY DEF TypeInv, Links
\* Where a packet was.
<1> DEFINE At(d, i) == IF d = c THEN i + 1 ELSE i
<1>3. ASSUME NEW d \in Conns, NEW i \in 1 .. Len(link'[d].up)
      PROVE  /\ At(d, i) \in 1 .. Len(link[d].up) /\ link'[d].up[i] = link[d].up[At(d, i)] /\ i \in Nat
             /\ d = c => At(d, i) # 1
  <2>1. CASE d = c
    <3> DEFINE u == link[c].up
    <3>1. u \in Seq(RequestPackets) /\ u # <<>> /\ i \in 1 .. Len(Tail(u)) /\ link'[d].up = Tail(u)
      BY <1>1, <1>2, <2>1
    <3> HIDE DEF u
    <3>2. i + 1 \in 1 .. Len(u) /\ Tail(u)[i] = u[i + 1] /\ i \in Nat
      BY <3>1
    <3> QED
      BY <2>1, <3>1, <3>2 DEF u
  <2>2. CASE d # c
    BY <1>1, <2>2
  <2> QED
    BY <2>1, <2>2
<1> HIDE DEF At
<1>a. \A d \in Conns : \A i, j : At(d, i) = At(d, j) /\ i \in Nat /\ j \in Nat => i = j
  BY DEF At
<1>4. ASSUME NEW d \in Conns, NEW e \in Conns, NEW i \in 1 .. Len(link'[d].up), NEW j \in 1 .. Len(link'[e].up),
             link'[d].up[i].type = "req", link'[e].up[j].type = "req", link'[d].up[i].data = link'[e].up[j].data
      PROVE  d = e /\ i = j
  <2>0. /\ At(d, i) \in 1 .. Len(link[d].up) /\ link'[d].up[i] = link[d].up[At(d, i)]
        /\ At(e, j) \in 1 .. Len(link[e].up) /\ link'[e].up[j] = link[e].up[At(e, j)]
    BY <1>3
  <2> DEFINE x == At(d, i)
             y == At(e, j)
  <2>2. /\ x \in 1 .. Len(link[d].up) /\ y \in 1 .. Len(link[e].up)
        /\ link[d].up[x].type = "req" /\ link[e].up[y].type = "req" /\ link[d].up[x].data = link[e].up[y].data
    BY <1>4, <2>0
  <2> HIDE DEF x, y
  <2>3. d = e /\ x = y
    BY <2>2 DEF OnceInv
  <2>1. d = e /\ At(d, i) = At(e, j)
    BY <2>3 DEF x, y
  <2> QED
    BY <1>3, <1>a, <2>1
<1>5. ASSUME NEW d \in Conns, NEW i \in 1 .. Len(link'[d].up), NEW k \in 1 .. Len(delivered), link'[d].up[i].type = "req"
      PROVE  link'[d].up[i].data # delivered[k].msg
  <2> DEFINE x == At(d, i)
  <2>1. x \in 1 .. Len(link[d].up) /\ link'[d].up[i] = link[d].up[x] /\ link[d].up[x].type = "req"
    BY <1>3, <1>5
  <2> HIDE DEF x
  <2> QED
    BY <2>1 DEF OnceInv
<1>6. \A k, l \in 1 .. Len(delivered) : delivered[k].msg = delivered[l].msg => k = l
  BY DEF OnceInv
<1>7. \A k \in 1 .. Len(delivered) : \E q \in Requests :
           /\ IsSent(q)' /\ req'[q].msg = delivered[k].msg /\ req'[q].is_push = delivered[k].is_push
           /\ isname(req'[q].addr) \/ req'[q].addr = delivered[k].handle
  BY <1>1 DEF OnceInv, IsSent
<1>8. CASE delivered' = delivered
  BY <1>2, <1>4, <1>5, <1>6, <1>7, <1>8 DEF OnceInv
<1>9. CASE delivered' # delivered
  <2>1. PICK handle \in Handles :
             /\ isname(req[r].addr) \/ req[r].addr = handle
             /\ delivered' = Append(delivered, [handle |-> handle, msg |-> req[r].msg, is_push |-> req[r].is_push])
    BY <1>9 DEF Steps
  <2>2. ~IsLarge(r) /\ Head(link[c].up) = SmallOf(r)
    BY <1>9 DEF Steps
  <2> DEFINE new == [handle |-> handle, msg |-> req[r].msg, is_push |-> req[r].is_push]
             n == Len(delivered)
  <2>3. new \in Deliveries
    BY MadeIs DEF IsSent, IsMade, Deliveries
  <2>4. /\ delivered' \in Seq(Deliveries) /\ Len(delivered') = n + 1 /\ n \in Nat
        /\ \A k \in 1 .. n : delivered'[k] = delivered[k]
        /\ delivered'[n + 1] = new
    BY <1>2, <2>1, <2>3, AppendIs
  <2>5. new.msg = req[r].msg /\ new.is_push = req[r].is_push /\ new.handle = handle
    OBVIOUS
  <2> HIDE DEF new, n
  <2>6. link[c].up[1] = SmallOf(r) /\ 1 \in 1 .. Len(link[c].up) /\ SmallOf(r).type = "req" /\ SmallOf(r).data = req[r].msg
    BY <1>2, <2>2 DEF SmallOf
  <2>7. \A k \in 1 .. n : req[r].msg # delivered[k].msg
    BY <2>6 DEF OnceInv, n
  <2>8. ASSUME NEW d \in Conns, NEW i \in 1 .. Len(link'[d].up), link'[d].up[i].type = "req"
        PROVE  link'[d].up[i].data # req[r].msg
    <3>1. link[d].up[At(d, i)].data = req[r].msg => d = c /\ At(d, i) = 1
      BY <1>3, <2>6, <2>8 DEF OnceInv
    <3> QED
      BY <1>3, <3>1
  <2>9. ASSUME NEW k \in 1 .. Len(delivered'), NEW l \in 1 .. Len(delivered'), delivered'[k].msg = delivered'[l].msg
        PROVE  k = l
    <3>1. CASE k = n + 1 /\ l = n + 1
      BY <3>1
    <3>2. CASE k = n + 1 /\ l # n + 1
      <4>1. l \in 1 .. n
        BY <2>4, <3>2
      <4> QED
        BY <2>4, <2>5, <2>7, <2>9, <3>2, <4>1
    <3>3. CASE k # n + 1 /\ l = n + 1
      <4>1. k \in 1 .. n
        BY <2>4, <3>3
      <4> QED
        BY <2>4, <2>5, <2>7, <2>9, <3>3, <4>1
    <3>4. CASE k # n + 1 /\ l # n + 1
      <4>1. k \in 1 .. n /\ l \in 1 .. n
        BY <2>4, <3>4
      <4> QED
        BY <1>6, <2>4, <2>9, <4>1 DEF n
    <3> QED
      BY <3>1, <3>2, <3>3, <3>4
  <2>10. ASSUME NEW d \in Conns, NEW i \in 1 .. Len(link'[d].up), NEW k \in 1 .. Len(delivered'), link'[d].up[i].type = "req"
         PROVE  link'[d].up[i].data # delivered'[k].msg
    <3>1. CASE k = n + 1
      BY <2>4, <2>5, <2>8, <2>10, <3>1
    <3>2. CASE k # n + 1
      <4>1. k \in 1 .. n
        BY <2>4, <3>2
      <4> QED
        BY <1>5, <2>4, <2>10, <4>1 DEF n
    <3> QED
      BY <3>1, <3>2
  <2>11. ASSUME NEW k \in 1 .. Len(delivered')
         PROVE  \E q \in Requests :
                  /\ IsSent(q)' /\ req'[q].msg = delivered'[k].msg /\ req'[q].is_push = delivered'[k].is_push
                  /\ isname(req'[q].addr) \/ req'[q].addr = delivered'[k].handle
    <3>1. CASE k = n + 1
      <4>1. IsSent(r)' /\ req'[r].msg = new.msg /\ req'[r].is_push = new.is_push
            /\ (isname(req'[r].addr) \/ req'[r].addr = new.handle)
        BY <1>1, <2>1, <2>5 DEF IsSent
      <4> QED
        BY <2>4, <3>1, <4>1
    <3>2. CASE k # n + 1
      <4>1. k \in 1 .. n
        BY <2>4, <3>2
      <4> QED
        BY <1>7, <2>4, <4>1 DEF n
    <3> QED
      BY <3>1, <3>2
  <2> QED
    BY Z3, <1>4, <2>4, <2>9, <2>10, <2>11 DEF OnceInv
<1> QED
  BY <1>8, <1>9

\* A packet taken by read_loop keeps Inv, when what dispatch_request does with it is one
\* of Steps.
LEMMA StepsKeeps ==
  ASSUME Inv, NEW c \in Conns, NEW r \in Requests, NEW k, Heads(c, r, k), link[c].server, link[c].up # <<>>,
         Steps(c, r),
         k = Len(Packets(r)) => DOMAIN link'[c].large_request = {},
         k < Len(Packets(r)) => Assembling(link'[c].large_request, r, k + 1)
  PROVE  Inv' /\ \A q \in Requests : Kept(q)
<1>1. TypeInv /\ MadeInv /\ LinkInv /\ ChannelInv /\ ThreadInv /\ UpInv /\ OnceInv /\ CallInv
  BY DEF Inv
<1>2. /\ session' = session /\ channel' = channel /\ wakeup' = wakeup /\ req' = req /\ crashed' = crashed
      /\ link' \in [Conns -> Links] /\ \A d \in Conns : d # c => link'[d] = link[d]
      /\ link'[c].up = Tail(link[c].up) /\ link'[c].client = link[c].client
      /\ link'[c].server = link[c].server /\ link'[c].cut = link[c].cut
      /\ (link'[c].down = link[c].down \/ (link[c].server /\ ~link[c].cut))
      /\ clusterd' \in Daemons
      /\ (clusterd'.calls = clusterd.calls \/ (~req[r].is_push /\ clusterd'.calls = clusterd.calls \cup {CallOf(c, r)}))
  BY DEF Steps
<1>3. IsSent(r) /\ IsMade(r) /\ k \in 1 .. Len(Packets(r)) /\ RunAt(link[c].up, 1, Packets(r), k)
  BY DEF Heads, IsSent, IsMade
<1>4. ~IsLarge(r) => Head(link[c].up) = SmallOf(r)
  <2> SUFFICES ASSUME ~IsLarge(r) PROVE Head(link[c].up) = SmallOf(r)
    OBVIOUS
  <2>1. Len(Packets(r)) = 1 /\ Packets(r)[1] = SmallOf(r) /\ Packets(r) \in Seq(RequestPackets)
    BY <1>1, <1>3, PacketsAre
  <2>2. link[c].up \in Seq(RequestPackets)
    BY <1>1 DEF TypeInv, Links
  <2>3. Head(link[c].up) = Packets(r)[k] /\ k = 1
    BY <1>3, <2>1, <2>2, HeadNext
  <2> QED
    BY <2>1, <2>3
<1>5. OnceInv' /\ delivered' \in Seq(Deliveries)
  BY <1>1, <1>3, <1>4, OnceTail
<1>6. req' \in [Requests -> RequestRecords'] /\ MadeInv' /\ \A q \in Requests : Kept(q)
  BY <1>1, <1>2, StillMoves, MovesReq
<1>7. TypeInv'
  BY <1>1, <1>2, <1>5, <1>6 DEF TypeInv
<1>8. UpInv'
  <2> SUFFICES ASSUME NEW d \in Conns PROVE UpOf(d)'
    BY DEF UpInv
  <2>1. CASE d = c
    BY <1>1, <1>2, <1>3, <2>1, UpTail
  <2>2. CASE d # c
    BY <1>1, <1>2, <1>6, <2>2, UpKept DEF UpInv
  <2> QED
    BY <2>1, <2>2
<1>9. CallInv'
  <2> SUFFICES ASSUME NEW call \in clusterd'.calls
               PROVE  \E q \in Requests : IsSent(q)' /\ call.msg = req'[q].msg /\ ~req'[q].is_push
    BY DEF CallInv
  <2>1. CASE call \in clusterd.calls
    BY <1>1, <1>2, <2>1 DEF CallInv, IsSent
  <2>2. CASE call \notin clusterd.calls
    <3>1. call = CallOf(c, r) /\ ~req[r].is_push
      BY <1>2, <2>2
    <3>2. call.msg = req[r].msg
      BY <3>1 DEF CallOf
    <3> QED
      BY <1>2, <1>3, <3>1, <3>2 DEF IsSent
  <2> QED
    BY <2>1, <2>2
<1>10. LinkInv'
  <2>2. ASSUME NEW d \in Conns PROVE LinkOf(d)'
    <3>1. LinkOf(d)
      BY <1>1, LinkInvIs
    <3>2. CASE d = c
      <4>1. (~link[c].client => link'[c].down = link[c].down) /\ (link[c].client \/ link[c].cut) /\ channel.opened # c
        BY <1>2, <3>1, <3>2 DEF LinkOf
      <4> QED
        BY <1>2, <3>1, <3>2, <4>1 DEF LinkOf
    <3>3. CASE d # c
      <4>1. \A call \in clusterd'.calls : call.conn = d => call \in clusterd.calls
        BY <1>2, <3>3 DEF CallOf
      <4> QED
        BY <1>2, <3>1, <3>3, <4>1 DEF LinkOf
    <3> QED
      BY <3>2, <3>3
  <2> QED
    BY <2>2 DEF LinkInv, LinkOf
<1>11. ChannelInv' /\ ThreadInv'
  BY <1>1, <1>2 DEF ChannelInv, ThreadInv, Who, Marked, Connected, Connecting
<1> QED
  BY <1>5, <1>6, <1>7, <1>8, <1>9, <1>10, <1>11 DEF Inv

\* What clusterd writes, or does not, in answer to a packet it took.
LEMMA TakenRespond ==
  ASSUME TypeInv, NEW c \in Conns, link[c].up # <<>>, NEW large \in Tables(Large),
         NEW packets \in Seq(ResponsePackets), link' = Respond(TakenWith(c, large), c, packets)
  PROVE  /\ link' \in [Conns -> Links] /\ \A d \in Conns : d # c => link'[d] = link[d]
         /\ link'[c].up = Tail(link[c].up) /\ link'[c].client = link[c].client
         /\ link'[c].server = link[c].server /\ link'[c].cut = link[c].cut
         /\ link'[c].large_request = large
         /\ link'[c].down = IF link[c].server /\ ~link[c].cut /\ clusterd.listening THEN link[c].down \o packets ELSE link[c].down
<1> DEFINE l == TakenWith(c, large)
<1>1. /\ l \in [Conns -> Links]
      /\ \A d \in Conns : d # c => l[d] = link[d]
      /\ l[c].up = Tail(link[c].up) /\ l[c].down = link[c].down
      /\ l[c].client = link[c].client /\ l[c].server = link[c].server
      /\ l[c].cut = link[c].cut /\ l[c].large_request = large
  BY TakenWithIs
<1> HIDE DEF l
<1>2. /\ Respond(l, c, packets) \in [Conns -> Links]
      /\ \A d \in Conns : d # c => Respond(l, c, packets)[d] = l[d]
      /\ Respond(l, c, packets)[c].up = l[c].up
      /\ Respond(l, c, packets)[c].client = l[c].client /\ Respond(l, c, packets)[c].server = l[c].server
      /\ Respond(l, c, packets)[c].cut = l[c].cut
      /\ Respond(l, c, packets)[c].large_request = l[c].large_request
      /\ Respond(l, c, packets)[c].down =
              IF l[c].server /\ ~l[c].cut /\ clusterd.listening THEN l[c].down \o packets ELSE l[c].down
  BY <1>1, RespondIs
<1>3. link' = Respond(l, c, packets)
  BY DEF l
<1> QED
  BY <1>1, <1>2, <1>3

\* A packet taken with large_request as it is.
LEMMA TakenSame ==
  ASSUME TypeInv, NEW c \in Conns, link[c].up # <<>>
  PROVE  Taken(c) = TakenWith(c, link[c].large_request)
<1> DEFINE l == Taken(c)
<1>1. l \in [Conns -> Links] /\ l[c].large_request = link[c].large_request
  BY TakenIs
<1> HIDE DEF l
<1>2. l[c] \in Links
  BY <1>1
<1>3. [l[c] EXCEPT !.large_request = link[c].large_request] = l[c]
  BY <1>1, <1>2 DEF Links
<1>4. [l EXCEPT ![c].large_request = link[c].large_request] = l
  BY <1>1, <1>3
<1> QED
  BY <1>4 DEF TakenWith, l

\* A request or a header at the head of the stream comes when nothing is put together.
LEMMA HeadFirst ==
  ASSUME TypeInv, MadeInv, UpInv, NEW c \in Conns, link[c].up # <<>>, NEW r \in Requests, Heads(c, r, 1)
  PROVE  DOMAIN link[c].large_request = {}
<1>1. IsMade(r) /\ RunAt(link[c].up, 1, Packets(r), 1) /\ link[c].up \in Seq(RequestPackets)
  BY DEF Heads, IsSent, IsMade, TypeInv, Links
<1>2. Packets(r) \in Seq(RequestPackets) /\ WholeBlock(Packets(r))
  BY <1>1, PacketsAre
<1>3. link[c].up[1] = Packets(r)[1]
  BY <1>1, <1>2, HeadNext
<1> QED
  BY <1>2, <1>3 DEF WholeBlock, UpInv, UpOf

\* large_request[session] = a large request.
LEMMA LargeWith ==
  ASSUME NEW t \in Tables(Large), NEW s \in Sessions, NEW v \in Large
  PROVE  /\ With(t, s, v) \in Tables(Large) /\ DOMAIN With(t, s, v) = DOMAIN t \cup {s}
         /\ With(t, s, v)[s] = v
BY WithIs

\* large_request[session] = nil.
LEMMA LargeWithout ==
  ASSUME NEW t \in Tables(Large), NEW s
  PROVE  /\ Without(t, s) \in Tables(Large) /\ DOMAIN Without(t, s) = DOMAIN t \ {s}
BY WithoutIs

\* register_name_cache does not change the calls.
LEMMA CacheIs ==
  ASSUME TypeInv, NEW name \in Handles \cup {0}, clusterd' = [clusterd EXCEPT !.register_name_cache = name]
  PROVE  clusterd' \in Daemons /\ clusterd'.calls = clusterd.calls
BY DEF TypeInv, Daemons

\* The packets that clusterd writes are response packets.
LEMMA RespondBlock ==
  ASSUME NEW s \in SessionsOr0, NEW ok \in BOOLEAN, NEW m \in Replies
  PROVE  lpackresponse(s, ok, m) \in Seq(ResponsePackets)
BY RepliesAre, ResponseBlockIs

\* A query or an unknown name is answered from clusterd itself: one of Steps.
LEMMA AnswersItselfSteps ==
  ASSUME TypeInv, MadeInv, NEW c \in Conns, NEW r \in Requests, IsMade(r), link[c].up # <<>>,
         AnswersItself(c, r), UNCHANGED <<session, channel, wakeup, req, crashed>>
  PROVE  Steps(c, r) /\ link'[c].large_request = link[c].large_request
<1>1. PICK ok \in BOOLEAN, m \in Replies :
        link' = Respond(Taken(c), c, lpackresponse(WireSession(r), ok, m))
  BY DEF AnswersItself
<1>2. WireSession(r) \in SessionsOr0 /\ link[c].large_request \in Tables(Large)
  <2>1. req[r].session \in Sessions
    BY MadeIs
  <2>2. 0 \in SessionsOr0 /\ Sessions \subseteq SessionsOr0
    BY WireAssumption DEF SessionsOr0, Sessions
  <2> QED
    BY <2>1, <2>2 DEF WireSession, TypeInv, Links
<1> DEFINE packets == lpackresponse(WireSession(r), ok, m)
           large == link[c].large_request
<1>3. packets \in Seq(ResponsePackets)
  BY <1>2, RespondBlock
<1>4. link' = Respond(TakenWith(c, large), c, packets)
  BY <1>1, TakenSame
<1> HIDE DEF packets, large
<1>5. /\ link' \in [Conns -> Links] /\ \A d \in Conns : d # c => link'[d] = link[d]
      /\ link'[c].up = Tail(link[c].up) /\ link'[c].client = link[c].client
      /\ link'[c].server = link[c].server /\ link'[c].cut = link[c].cut
      /\ link'[c].large_request = large
      /\ link'[c].down = IF link[c].server /\ ~link[c].cut /\ clusterd.listening THEN link[c].down \o packets ELSE link[c].down
  BY <1>2, <1>3, <1>4, TakenRespond DEF large
<1>6. clusterd' \in Daemons /\ clusterd'.calls = clusterd.calls
  BY CacheIs DEF AnswersItself
<1>7. delivered' = delivered
  BY DEF AnswersItself
<1> QED
  BY <1>5, <1>6, <1>7, Zenon DEF Steps, large

\* A request that came whole is called, a push sent: one of Steps.
LEMMA HandsOverSteps ==
  ASSUME TypeInv, MadeInv, NEW c \in Conns, NEW r \in Requests, IsMade(r), link[c].up # <<>>,
         HandsOver(c, r), UNCHANGED <<session, channel, wakeup, req, crashed>>
  PROVE  Steps(c, r) /\ link'[c].large_request = link[c].large_request
<1>1. /\ link' \in [Conns -> Links] /\ \A d \in Conns : d # c => link'[d] = link[d]
      /\ link'[c].up = Tail(link[c].up) /\ link'[c].client = link[c].client
      /\ link'[c].server = link[c].server /\ link'[c].cut = link[c].cut
      /\ link'[c].large_request = link[c].large_request
      /\ link'[c].down = link[c].down
  BY TakenIs DEF HandsOver
<1>2. PICK name \in Handles \cup {0} :
        clusterd' = [clusterd EXCEPT !.register_name_cache = name,
                                     !.calls = IF req[r].is_push THEN @ ELSE @ \cup {CallOf(c, r)}]
  BY DEF HandsOver
<1>3. CallOf(c, r) \in Calls
  <2>1. req[r].session \in SessionsOr0 /\ req[r].msg \in Bytes
    BY MadeIs DEF SessionsOr0, Sessions
  <2> QED
    BY <2>1 DEF CallOf, Calls
<1>4. /\ clusterd' \in Daemons
      /\ (clusterd'.calls = clusterd.calls \/ (~req[r].is_push /\ clusterd'.calls = clusterd.calls \cup {CallOf(c, r)}))
  <2> DEFINE new == IF req[r].is_push THEN clusterd.calls ELSE clusterd.calls \cup {CallOf(c, r)}
  <2>1. clusterd \in Daemons /\ clusterd' = [clusterd EXCEPT !.register_name_cache = name, !.calls = new]
    BY <1>2 DEF TypeInv
  <2>2. new \in SUBSET Calls
    BY <1>3, <2>1 DEF Daemons
  <2>3. new = clusterd.calls \/ (~req[r].is_push /\ new = clusterd.calls \cup {CallOf(c, r)})
    <3>1. CASE req[r].is_push
      BY <3>1
    <3>2. CASE ~req[r].is_push
      BY <3>2
    <3> QED
      BY <3>1, <3>2
  <2> HIDE DEF new
  <2>4. clusterd' \in Daemons /\ clusterd'.calls = new
    BY <2>1, <2>2 DEF Daemons
  <2> QED
    BY <2>3, <2>4
<1>5. /\ ~IsLarge(r)
      /\ \E handle \in Handles :
           /\ isname(req[r].addr) \/ req[r].addr = handle
           /\ delivered' = Append(delivered, [handle |-> handle, msg |-> req[r].msg, is_push |-> req[r].is_push])
  BY DEF HandsOver
<1> QED
  BY <1>1, <1>4, <1>5, Zenon DEF Steps

\* dispatch_request keeps Inv, whichever packet comes.
LEMMA DeliverKeeps ==
  ASSUME Inv, NEW c \in Conns, Deliver(c)
  PROVE  Inv' /\ \A q \in Requests : Kept(q)
<1>1. TypeInv /\ MadeInv /\ UpInv
  BY DEF Inv
<1>2. /\ link[c].server /\ link[c].up # <<>>
      /\ session' = session /\ channel' = channel /\ wakeup' = wakeup /\ req' = req /\ crashed' = crashed
  BY <1>1, DeliverCases
<1>3. PICK r \in Requests : \E k \in 1 .. Len(Packets(r)) :
              /\ Heads(c, r, k)
              /\ \/ k = 1 /\ AnswersItself(c, r)
                 \/ k = 1 /\ HandsOver(c, r)
                 \/ k = 1 /\ OpensLarge(c, r)
                 \/ k > 1 /\ k < Len(Packets(r)) /\ AddsPart(c, r, k)
                 \/ k > 1 /\ k = Len(Packets(r)) /\ RefusesLarge(c, r)
  BY <1>1, DeliverCases
<1>4. PICK k \in 1 .. Len(Packets(r)) :
              /\ Heads(c, r, k)
              /\ \/ k = 1 /\ AnswersItself(c, r)
                 \/ k = 1 /\ HandsOver(c, r)
                 \/ k = 1 /\ OpensLarge(c, r)
                 \/ k > 1 /\ k < Len(Packets(r)) /\ AddsPart(c, r, k)
                 \/ k > 1 /\ k = Len(Packets(r)) /\ RefusesLarge(c, r)
  BY <1>3
<1>5. /\ IsMade(r) /\ Len(Packets(r)) \in Nat /\ req[r].session \in Sessions
      /\ ~IsLarge(r) => Len(Packets(r)) = 1
      /\ IsLarge(r) => Len(Packets(r)) = PartCount(Len(req[r].msg)) + 1 /\ PartCount(Len(req[r].msg)) \in Nat \ {0}
  <2>1. IsMade(r)
    BY <1>4 DEF Heads, IsSent, IsMade
  <2> QED
    BY <1>1, <2>1, PacketsAre, MadeIs
<1>l. link[c] \in Links /\ link[c].large_request \in Tables(Large)
  BY <1>1 DEF TypeInv, Links
<1> DEFINE s == req[r].session
           large == link[c].large_request
           Goal == /\ Steps(c, r)
                   /\ k = Len(Packets(r)) => DOMAIN link'[c].large_request = {}
                   /\ k < Len(Packets(r)) => Assembling(link'[c].large_request, r, k + 1)
<1>6. ASSUME k = 1, AnswersItself(c, r) \/ HandsOver(c, r) PROVE Goal
  <2>1. Len(Packets(r)) = 1
    BY <1>5, <1>6 DEF AnswersItself, HandsOver
  <2>2. Steps(c, r) /\ link'[c].large_request = large
    BY <1>1, <1>2, <1>5, <1>6, AnswersItselfSteps, HandsOverSteps
  <2>3. DOMAIN large = {}
    BY <1>1, <1>2, <1>4, <1>6, HeadFirst
  <2> QED
    BY <1>6, <2>1, <2>2, <2>3
<1>7. ASSUME k = 1, OpensLarge(c, r) PROVE Goal
  <2> DEFINE new == [addr |-> req[r].addr, is_push |-> req[r].is_push, parts |-> <<>>]
             after == With(large, s, new)
  <2>1. new \in Large
    <3>1. req[r].addr \in Addresses /\ req[r].is_push \in BOOLEAN /\ <<>> \in Seq(Parts)
      BY <1>1, <1>5, MadeIs
    <3> QED
      BY <3>1 DEF Large
  <2>2. IsLarge(r) /\ clusterd' = clusterd /\ delivered' = delivered /\ DOMAIN large = {} /\ link' = TakenWith(c, after)
    BY <1>7 DEF OpensLarge
  <2> HIDE DEF new
  <2>3. after \in Tables(Large) /\ DOMAIN after = {s} /\ after[s] = new
    <3>1. /\ With(large, s, new) \in Tables(Large) /\ DOMAIN With(large, s, new) = DOMAIN large \cup {s}
          /\ With(large, s, new)[s] = new
      <4> HIDE DEF s, large
      <4>1. s \in Sessions /\ large \in Tables(Large)
        BY <1>5, <1>l DEF s, large
      <4> QED
        BY <4>1, <2>1, LargeWith
    <3> QED
      BY <2>2, <3>1
  <2> HIDE DEF after
  <2>4. /\ link' \in [Conns -> Links]
        /\ \A d \in Conns : d # c => link'[d] = link[d]
        /\ link'[c].up = Tail(link[c].up) /\ link'[c].down = link[c].down
        /\ link'[c].client = link[c].client /\ link'[c].server = link[c].server
        /\ link'[c].cut = link[c].cut /\ link'[c].large_request = after
    <3>1. after \in Tables(Large) /\ link' = TakenWith(c, after) /\ link[c].up # <<>>
      BY <1>2, <2>2, <2>3
    <3> QED
      BY <1>1, <3>1, TakenWithIs
  <2>5. Steps(c, r)
    <3>1. clusterd' \in Daemons /\ clusterd'.calls = clusterd.calls /\ UNCHANGED <<session, channel, wakeup, req, crashed>>
      BY <1>1, <1>2, <2>2 DEF TypeInv
    <3> QED
      BY <2>2, <2>4, <3>1, Zenon DEF Steps
  <2>6. Assembling(after, r, 2)
    BY <1>1, <1>5, <2>3, AssemblingFirst DEF new
  <2>7. Len(Packets(r)) > 1 /\ k + 1 = 2
    BY <1>5, <1>7, <2>2
  <2> QED
    <3>1. k # Len(Packets(r)) /\ link'[c].large_request = after
      <4>1. k # Len(Packets(r))
        <5>1. k = 1 /\ Len(Packets(r)) > 1 /\ Len(Packets(r)) \in Nat
          BY <1>5, <1>7, <2>7
        <5> DEFINE n == Len(Packets(r))
        <5>2. k = 1 /\ n > 1 /\ n \in Nat
          BY <5>1
        <5> HIDE DEF n
        <5>3. k # n
          BY <5>2
        <5> QED
          BY <5>3 DEF n
      <4>2. link'[c].large_request = after
        BY <2>4
      <4> QED
        BY <4>1, <4>2
    <3>2. Assembling(link'[c].large_request, r, k + 1)
      BY <2>6, <2>7, <3>1
    <3> QED
      BY <2>5, <3>1, <3>2
<1>8. ASSUME k > 1, k < Len(Packets(r)), AddsPart(c, r, k) PROVE Goal
  <2> DEFINE new == [large[s] EXCEPT !.parts = Append(@, String(Chunk(req[r].msg, k - 1)))]
             after == With(large, s, new)
  <2>1. /\ IsLarge(r) /\ clusterd' = clusterd /\ delivered' = delivered /\ Assembling(large, r, k)
        /\ link' = TakenWith(c, after)
    BY Zenon, <1>8 DEF AddsPart
  <2>0. k \in 2 .. PartCount(Len(req[r].msg)) /\ k - 1 \in 1 .. PartCount(Len(req[r].msg))
    BY <1>5, <1>8, <2>1
  <2>2. new \in Large
    <3>1. DOMAIN large = {s} /\ large[s].parts \in Seq(Strings)
      BY Zenon, <2>1 DEF Assembling
    <3>2. large[s] \in Large
      BY <1>l, <3>1, TableIs
    <3>3. Chunk(req[r].msg, k - 1) \in Bytes
      BY <1>1, <1>5, <2>0, MadeIs, ChunkIs
    <3> DEFINE chunk == Chunk(req[r].msg, k - 1)
               t == Append(large[s].parts, String(chunk))
    <3> HIDE DEF chunk
    <3>4. String(chunk) \in Parts
      BY <3>3 DEF chunk, String, Strings, Parts
    <3>5. t \in Seq(Parts)
      BY <3>2, <3>4 DEF Large
    <3>6. new = [large[s] EXCEPT !.parts = t]
      BY DEF chunk
    <3> HIDE DEF t, new
    <3> QED
      BY Zenon, <3>2, <3>5, <3>6 DEF Large
  <2> HIDE DEF new
  <2>3. after \in Tables(Large) /\ DOMAIN after = {s} /\ after[s] = new
    <3>1. /\ With(large, s, new) \in Tables(Large) /\ DOMAIN With(large, s, new) = DOMAIN large \cup {s}
          /\ With(large, s, new)[s] = new
      <4> HIDE DEF s, large
      <4>1. s \in Sessions /\ large \in Tables(Large)
        BY <1>5, <1>l DEF s, large
      <4> QED
        BY <4>1, <2>2, LargeWith
    <3>2. DOMAIN large = {s}
      BY Zenon, <2>1 DEF Assembling
    <3> QED
      BY Zenon, <3>1, <3>2
  <2> HIDE DEF after
  <2>4. /\ link' \in [Conns -> Links]
        /\ \A d \in Conns : d # c => link'[d] = link[d]
        /\ link'[c].up = Tail(link[c].up) /\ link'[c].down = link[c].down
        /\ link'[c].client = link[c].client /\ link'[c].server = link[c].server
        /\ link'[c].cut = link[c].cut /\ link'[c].large_request = after
    <3>1. after \in Tables(Large) /\ link' = TakenWith(c, after)
      BY <2>1, <2>3
    <3> QED
      BY Zenon, <1>1, <1>2, <3>1, TakenWithIs
  <2>5. Steps(c, r)
    <3>1. clusterd' \in Daemons /\ clusterd'.calls = clusterd.calls /\ UNCHANGED <<session, channel, wakeup, req, crashed>>
      BY <1>1, <1>2, <2>1 DEF TypeInv
    <3>2. (link'[c].down = link[c].down \/ (link[c].server /\ ~link[c].cut))
      BY <2>4
    <3> QED
      BY <2>1, <2>4, <3>1, <3>2, Zenon DEF Steps
  <2>6. Assembling(after, r, k + 1)
    BY Zenon, <1>1, <1>5, <1>l, <2>0, <2>1, <2>3, AssemblingNext DEF new
  <2> QED
    BY Z3, <1>8, <2>4, <2>5, <2>6
<1>9. ASSUME k > 1, k = Len(Packets(r)), RefusesLarge(c, r) PROVE Goal
  <2> DEFINE after == Without(large, s)
             packets == lpackresponse(s, FALSE, Refusal)
  <2>1. /\ IsLarge(r) /\ clusterd' = clusterd /\ delivered' = delivered /\ DOMAIN large = {s}
        /\ link' = Respond(TakenWith(c, after), c, packets)
    BY <1>9 DEF RefusesLarge
  <2>2. after \in Tables(Large) /\ DOMAIN after = {}
    <3>1. Without(large, s) \in Tables(Large) /\ DOMAIN Without(large, s) = DOMAIN large \ {s}
      <4> HIDE DEF s, large
      <4>1. large \in Tables(Large)
        BY <1>l DEF large
      <4> QED
        BY <4>1, LargeWithout
    <3> QED
      BY <2>1, <3>1
  <2>3. packets \in Seq(ResponsePackets)
    <3>1. s \in SessionsOr0
      BY <1>5 DEF Sessions, SessionsOr0
    <3> QED
      BY <3>1, RespondBlock, RepliesAre
  <2> HIDE DEF after, packets
  <2>4. /\ link' \in [Conns -> Links] /\ \A d \in Conns : d # c => link'[d] = link[d]
        /\ link'[c].up = Tail(link[c].up) /\ link'[c].client = link[c].client
        /\ link'[c].server = link[c].server /\ link'[c].cut = link[c].cut
        /\ link'[c].large_request = after
        /\ link'[c].down = IF link[c].server /\ ~link[c].cut /\ clusterd.listening THEN link[c].down \o packets ELSE link[c].down
    BY <1>1, <1>2, <2>1, <2>2, <2>3, TakenRespond
  <2>5. Steps(c, r)
    <3>1. clusterd' \in Daemons /\ clusterd'.calls = clusterd.calls /\ UNCHANGED <<session, channel, wakeup, req, crashed>>
      BY <1>1, <1>2, <2>1 DEF TypeInv
    <3>2. (link'[c].down = link[c].down \/ (link[c].server /\ ~link[c].cut))
      BY <2>4
    <3> QED
      BY <2>1, <2>4, <3>1, <3>2, Zenon DEF Steps
  <2> QED
    BY <1>9, <2>2, <2>4, <2>5
<1>10. Goal
  BY <1>4, <1>6, <1>7, <1>8, <1>9
<1>11. /\ Steps(c, r)
       /\ k = Len(Packets(r)) => DOMAIN link'[c].large_request = {}
       /\ k < Len(Packets(r)) => Assembling(link'[c].large_request, r, k + 1)
  BY <1>10
<1> QED
  BY <1>2, <1>4, <1>11, StepsKeeps

\* Packets of requests that were not sent before are written to a connection.
LEMMA UpConcat ==
  ASSUME TypeInv, MadeInv, NEW c \in Conns, UpOf(c), \A r \in Requests : Kept(r), NEW v \in Seq(RequestPackets),
         link'[c].up = link[c].up \o v, link'[c].large_request = link[c].large_request,
         RequestBlocks' \in SUBSET Seq(RequestPackets), Stream(v, RequestBlocks'), v = <<>> \/ Starts(v[1])
  PROVE  UpOf(c)'
<1> DEFINE u == link[c].up
           w == link'[c].up
<1>1. u \in Seq(RequestPackets) /\ w = u \o v /\ Len(u) \in Nat
  BY DEF TypeInv, Links
<1>2. Stream(u, RequestBlocks')
  BY BlocksGrow, StreamGrows DEF UpOf
<1> HIDE DEF w, u
<1>3. Stream(w, RequestBlocks')
  <2> DEFINE B == RequestBlocks'
  <2>1. B \in SUBSET Seq(RequestPackets) /\ Stream(u, B) /\ Stream(v, B)
    BY <1>2
  <2> HIDE DEF B
  <2>2. Stream(u \o v, B)
    BY <1>1, <2>1, StreamConcat
  <2> QED
    BY <1>1, <2>2 DEF B
<1>4. CASE u = <<>>
  <2>1. w = v
    BY <1>1, <1>4
  <2>2. DOMAIN link'[c].large_request = {}
    BY <1>4 DEF UpOf, u
  <2> QED
    BY <1>3, <2>1, <2>2 DEF UpOf, w
<1>5. CASE u # <<>>
  <2>1. 1 \in 1 .. Len(u) /\ w[1] = u[1] /\ w # <<>>
    BY <1>1, <1>5
  <2>2. CASE Starts(u[1])
    <3>1. DOMAIN link'[c].large_request = {}
      BY <2>2 DEF UpOf, u
    <3> QED
      BY <1>3, <2>1, <2>2, <3>1 DEF UpOf, w
  <2>3. CASE ~Starts(u[1])
    <3>1. PICK r \in Requests : \E k \in 2 .. Len(Packets(r)) :
            /\ IsSent(r) /\ RunAt(u, 1, Packets(r), k)
            /\ Assembling(link[c].large_request, r, k)
      BY <1>5, <2>3 DEF UpOf, u
    <3>2. PICK k \in 2 .. Len(Packets(r)) :
            /\ IsSent(r) /\ RunAt(u, 1, Packets(r), k)
            /\ Assembling(link[c].large_request, r, k)
      BY <3>1
    <3>3. IsSent(r)' /\ Packets(r)' = Packets(r) /\ Packets(r) \in Seq(RequestPackets)
      BY <3>2, SentStays, PacketsAre
    <3>4. RunAt(w, 1, Packets(r), k)
      BY Zenon, <1>1, <2>1, <3>2, <3>3, RunConcat
    <3>5. Assembling(link[c].large_request, r, k)'
      <4>1. req'[r].addr = req[r].addr /\ req'[r].session = req[r].session
            /\ req'[r].msg = req[r].msg /\ req'[r].is_push = req[r].is_push
        BY <3>2 DEF Kept, IsSent
      <4> QED
        BY Zenon, <3>2, <4>1 DEF Assembling
    <3>6. \E q \in Requests : \E j \in 2 .. Len(Packets(q)') :
            /\ IsSent(q)' /\ RunAt(link'[c].up, 1, Packets(q)', j)
            /\ Assembling(link[c].large_request, q, j)'
      BY <3>2, <3>3, <3>4, <3>5 DEF w
    <3> QED
      BY <1>3, <2>1, <2>3, <3>6 DEF UpOf, w
  <2> QED
    BY <2>2, <2>3
<1> QED
  BY <1>4, <1>5

\* OnceInv survives that packets of requests which were not sent before are written.
LEMMA OnceConcat ==
  ASSUME TypeInv, MadeInv, UpInv, OnceInv, NEW c \in Conns, \A r \in Requests : Kept(r),
         NEW v \in Seq(RequestPackets), delivered' = delivered,
         link'[c].up = link[c].up \o v, \A d \in Conns : d # c => link'[d] = link[d],
         \A i \in 1 .. Len(v) : v[i].type = "req" =>
           \E q \in Requests : ~IsSent(q) /\ v[i].data[1] = <<"request", q, 1>>,
         \A i, j \in 1 .. Len(v) : v[i].type = "req" /\ v[j].type = "req" /\ v[i].data = v[j].data => i = j
  PROVE  OnceInv'
<1> DEFINE u == link[c].up
           w == link'[c].up
           n == Len(u)
<1>1. /\ u \in Seq(RequestPackets) /\ n \in Nat /\ Len(v) \in Nat /\ w \in Seq(RequestPackets) /\ Len(w) = n + Len(v)
      /\ \A i \in 1 .. n : w[i] = u[i]
      /\ \A i \in n + 1 .. n + Len(v) : w[i] = v[i - n]
  <2>1. u \in Seq(RequestPackets) /\ w = u \o v
    BY DEF TypeInv, Links
  <2> HIDE DEF u, w
  <2> QED
    BY <2>1 DEF n
<1> DEFINE Old(d, i) == d # c \/ i <= n
<1>2. ASSUME NEW d \in Conns, NEW i \in 1 .. Len(link'[d].up)
      PROVE  /\ Old(d, i) => i \in 1 .. Len(link[d].up) /\ link'[d].up[i] = link[d].up[i]
             /\ ~Old(d, i) => d = c /\ i - n \in 1 .. Len(v) /\ link'[d].up[i] = v[i - n]
  <2>1. CASE d = c
    <3>1. i \in 1 .. Len(w) /\ link'[d].up = w /\ link[d].up = u
      BY <2>1
    <3> HIDE DEF w, u, n
    <3>2. i <= n => i \in 1 .. n /\ w[i] = u[i]
      BY <1>1, <3>1
    <3>3. ~(i <= n) => i - n \in 1 .. Len(v) /\ w[i] = v[i - n]
      BY <1>1, <3>1
    <3> QED
      BY <2>1, <3>1, <3>2, <3>3 DEF n
  <2>2. CASE d # c
    BY <2>2
  <2> QED
    BY <2>1, <2>2
\* An old packet is of a request that was sent, a new one of one that was not.
<1>3. ASSUME NEW d \in Conns, NEW i \in 1 .. Len(link'[d].up), link'[d].up[i].type = "req", Old(d, i)
      PROVE  \E q \in Requests : IsSent(q) /\ link'[d].up[i].data[1] = <<"request", q, 1>>
  <2>1. i \in 1 .. Len(link[d].up) /\ link'[d].up[i] = link[d].up[i]
    BY <1>2, <1>3
  <2>2. PICK q \in Requests : IsSent(q) /\ ~IsLarge(q) /\ link[d].up[i] = SmallOf(q)
    BY <1>3, <2>1, SmallIs
  <2>3. SmallOf(q).data = req[q].msg /\ req[q].msg[1] = <<"request", q, 1>>
    <3>1. IsMade(q)
      BY <2>2 DEF IsSent, IsMade
    <3>2. Len(req[q].msg) \in Nat \ {0} /\ \A k \in 1 .. Len(req[q].msg) : req[q].msg[k] = <<"request", q, k>>
      BY <3>1, MadeIs
    <3> QED
      BY <3>2 DEF SmallOf
  <2> QED
    BY <2>1, <2>2, <2>3
<1>4. ASSUME NEW d \in Conns, NEW i \in 1 .. Len(link'[d].up), link'[d].up[i].type = "req", ~Old(d, i)
      PROVE  \E q \in Requests : ~IsSent(q) /\ link'[d].up[i].data[1] = <<"request", q, 1>>
  <2>1. i - n \in 1 .. Len(v) /\ link'[d].up[i] = v[i - n]
    BY <1>2, <1>4
  <2> QED
    BY <1>4, <2>1
<1> HIDE DEF Old, u, w
<1>5. ASSUME NEW d \in Conns, NEW e \in Conns, NEW i \in 1 .. Len(link'[d].up), NEW j \in 1 .. Len(link'[e].up),
             link'[d].up[i].type = "req", link'[e].up[j].type = "req", link'[d].up[i].data = link'[e].up[j].data
      PROVE  d = e /\ i = j
  <2>1. CASE Old(d, i) /\ Old(e, j)
    <3>1. /\ i \in 1 .. Len(link[d].up) /\ link'[d].up[i] = link[d].up[i]
          /\ j \in 1 .. Len(link[e].up) /\ link'[e].up[j] = link[e].up[j]
      BY <1>2, <2>1
    <3> QED
      BY <1>5, <3>1 DEF OnceInv
  <2>2. CASE ~Old(d, i) /\ ~Old(e, j)
    <3>1. /\ d = c /\ e = c /\ i - n \in 1 .. Len(v) /\ j - n \in 1 .. Len(v)
          /\ link'[d].up[i] = v[i - n] /\ link'[e].up[j] = v[j - n]
      BY <1>2, <2>2
    <3>2. i - n = j - n
      BY <1>5, <3>1
    <3>3. i \in Int /\ j \in Int /\ n \in Nat
      BY <1>1
    <3> HIDE DEF n
    <3> QED
      BY <3>1, <3>2, <3>3
  <2>3. CASE Old(d, i) /\ ~Old(e, j)
    <3>1. PICK q \in Requests : IsSent(q) /\ link'[d].up[i].data[1] = <<"request", q, 1>>
      BY <1>3, <1>5, <2>3
    <3>2. PICK p \in Requests : ~IsSent(p) /\ link'[e].up[j].data[1] = <<"request", p, 1>>
      BY Zenon, <1>4, <1>5, <2>3
    <3>3. <<"request", q, 1>> = <<"request", p, 1>>
      BY <1>5, <3>1, <3>2
    <3> QED
      BY <3>1, <3>2, <3>3
  <2>4. CASE ~Old(d, i) /\ Old(e, j)
    <3>1. PICK q \in Requests : IsSent(q) /\ link'[e].up[j].data[1] = <<"request", q, 1>>
      BY <1>3, <1>5, <2>4
    <3>2. PICK p \in Requests : ~IsSent(p) /\ link'[d].up[i].data[1] = <<"request", p, 1>>
      BY <1>4, <1>5, <2>4
    <3>3. <<"request", q, 1>> = <<"request", p, 1>>
      BY <1>5, <3>1, <3>2
    <3> QED
      BY <3>1, <3>2, <3>3
  <2> QED
    BY <2>1, <2>2, <2>3, <2>4
<1>6. ASSUME NEW d \in Conns, NEW i \in 1 .. Len(link'[d].up), NEW k \in 1 .. Len(delivered), link'[d].up[i].type = "req"
      PROVE  link'[d].up[i].data # delivered[k].msg
  <2>1. CASE Old(d, i)
    <3>1. i \in 1 .. Len(link[d].up) /\ link'[d].up[i] = link[d].up[i]
      BY <1>2, <2>1
    <3> QED
      BY <1>6, <3>1 DEF OnceInv
  <2>2. CASE ~Old(d, i)
    <3>1. PICK q \in Requests : IsSent(q) /\ req[q].msg = delivered[k].msg
      BY DEF OnceInv
    <3>2. req[q].msg[1] = <<"request", q, 1>>
      <4>1. IsMade(q)
        BY <3>1 DEF IsSent, IsMade
      <4>2. Len(req[q].msg) \in Nat \ {0} /\ \A j \in 1 .. Len(req[q].msg) : req[q].msg[j] = <<"request", q, j>>
        BY <4>1, MadeIs
      <4> QED
        BY <4>2
    <3> QED
      BY <1>4, <1>6, <2>2, <3>1, <3>2
  <2> QED
    BY <2>1, <2>2
<1>7. \A k, l \in 1 .. Len(delivered) : delivered[k].msg = delivered[l].msg => k = l
  BY DEF OnceInv
<1>8. ASSUME NEW k \in 1 .. Len(delivered)
      PROVE  \E r \in Requests :
               /\ IsSent(r)' /\ req'[r].msg = delivered[k].msg /\ req'[r].is_push = delivered[k].is_push
               /\ isname(req'[r].addr) \/ req'[r].addr = delivered[k].handle
  <2>1. PICK r \in Requests :
               /\ IsSent(r) /\ req[r].msg = delivered[k].msg /\ req[r].is_push = delivered[k].is_push
               /\ isname(req[r].addr) \/ req[r].addr = delivered[k].handle
    BY DEF OnceInv
  <2>2. IsSent(r)' /\ req'[r].addr = req[r].addr /\ req'[r].msg = req[r].msg /\ req'[r].is_push = req[r].is_push
    BY <2>1 DEF Kept, IsSent
  <2> QED
    BY <2>1, <2>2
<1> QED
  BY SMT, <1>5, <1>6, <1>7, <1>8 DEF OnceInv

-------------------------------------------------------------------------------
(* A request is sent.                                                      *)

\* The blocks after a step.
LEMMA BlocksAfter ==
  ASSUME TypeInv, MadeInv, \A r \in Requests : Kept(r),
         \A r \in Requests : req'[r].state \notin {"none", "connect"} => IsMade(r) \/ Packets(r)' \in Seq(RequestPackets)
  PROVE  RequestBlocks' \in SUBSET Seq(RequestPackets)
<1> SUFFICES ASSUME NEW b \in RequestBlocks' PROVE b \in Seq(RequestPackets)
  OBVIOUS
<1>1. PICK r \in Requests : IsSent(r)' /\ b = Packets(r)'
  BY DEF RequestBlocks
<1>2. CASE IsMade(r)
  BY <1>1, <1>2, KeptPackets, PacketsAre
<1>3. CASE ~IsMade(r)
  BY <1>1, <1>3 DEF IsSent
<1> QED
  BY <1>2, <1>3

\* The table with one more request.
LEMMA ThreadWith ==
  ASSUME NEW t \in Tables(Requests), NEW s \in Sessions, NEW r \in Requests
  PROVE  /\ DOMAIN With(t, s, r) = DOMAIN t \cup {s} /\ With(t, s, r)[s] = r
         /\ \A x \in DOMAIN t : x # s => With(t, s, r)[x] = t[x]
BY DEF With

\* What a step does that sends request r on connection c: a push is over, a request waits
\* for the response.
SendsOn(c, r) ==
  LET s == req'[r].session
      p == req'[r].is_push
      b == Packets(r)'
  IN /\ ~IsSent(r) /\ req'[r].state = (IF p = TRUE THEN "done" ELSE "wait") /\ p \in BOOLEAN /\ s \in Sessions
     /\ req'[r].result_data = <<>> /\ req'[r].result = NoResult
     /\ req' \in [Requests -> RequestRecords'] /\ MadeInv' /\ \A q \in Requests : Kept(q)
     /\ \A q \in Requests : q # r => req'[q] = req[q]
     /\ b \in Seq(RequestPackets) /\ WholeBlock(b) /\ b # <<>> /\ Starts(b[1])
     /\ \A k \in 1 .. Len(b) : b[k].type = "req" => k = 1 /\ b[1].data[1] = <<"request", r, 1>>
     /\ \A k \in 1 .. Len(b) : b[k].session = 0 \/ (b[k].session = s /\ Numbered(r)')
     /\ link' = [link EXCEPT ![c].up = IF link[c].cut THEN @ ELSE @ \o b]
     /\ channel'.thread = IF p = TRUE THEN channel.thread ELSE With(channel.thread, s, r)
     /\ clusterd' = clusterd /\ delivered' = delivered /\ crashed' = crashed

\* The connections and the channel's table after it.
LEMMA SendsIs ==
  ASSUME TypeInv, NEW c \in Conns, NEW r \in Requests, SendsOn(c, r)
  PROVE  /\ link' \in [Conns -> Links] /\ \A d \in Conns : d # c => link'[d] = link[d]
         /\ link'[c].up = (IF link[c].cut THEN link[c].up ELSE link[c].up \o Packets(r)')
         /\ link'[c].down = link[c].down /\ link'[c].client = link[c].client /\ link'[c].server = link[c].server
         /\ link'[c].cut = link[c].cut /\ link'[c].large_request = link[c].large_request
         /\ channel'.thread \in Tables(Requests)
<1> DEFINE b == Packets(r)'
           s == req'[r].session
           up == IF link[c].cut THEN link[c].up ELSE link[c].up \o b
<1>1. b \in Seq(RequestPackets) /\ s \in Sessions /\ link' = [link EXCEPT ![c].up = up]
      /\ (channel'.thread = channel.thread \/ channel'.thread = With(channel.thread, s, r))
  BY DEF SendsOn
<1> HIDE DEF b, s
<1>2. link \in [Conns -> Links] /\ link[c] \in Links /\ channel.thread \in Tables(Requests)
  BY DEF TypeInv, Channels
<1>3. up \in Seq(RequestPackets)
  BY <1>1, <1>2 DEF Links
<1>4. With(channel.thread, s, r) \in Tables(Requests)
  BY <1>1, <1>2, WithIs
<1> HIDE DEF up
<1>5. /\ link' \in [Conns -> Links] /\ \A d \in Conns : d # c => link'[d] = link[d]
      /\ link'[c].up = up
      /\ link'[c].down = link[c].down /\ link'[c].client = link[c].client /\ link'[c].server = link[c].server
      /\ link'[c].cut = link[c].cut /\ link'[c].large_request = link[c].large_request
  BY <1>1, <1>2, <1>3 DEF Links
<1> QED
  BY <1>1, <1>2, <1>4, <1>5 DEF up, b

\* It keeps Inv, when it keeps what is about the channel and that is open at the sender.
LEMMA SendsKeeps ==
  ASSUME Inv, NEW c \in Conns, NEW r \in Requests, SendsOn(c, r), link[c].client,
         session' \in Sessions, channel' \in Channels, wakeup' \in Wakeups, ChannelInv', channel'.opened = 0,
         \A d \in Conns : channel'.conn_id = d <=> channel.conn_id = d \/ channel.opened = d
  PROVE  Inv' /\ \A q \in Requests : Kept(q)
<1>1. TypeInv /\ MadeInv /\ LinkInv /\ ChannelInv /\ ThreadInv /\ UpInv /\ OnceInv /\ CallInv
  BY DEF Inv
<1> DEFINE b == Packets(r)'
           s == req'[r].session
           p == req'[r].is_push
<1>2. /\ ~IsSent(r) /\ req'[r].state = (IF p = TRUE THEN "done" ELSE "wait") /\ p \in BOOLEAN /\ s \in Sessions
      /\ req' \in [Requests -> RequestRecords'] /\ MadeInv' /\ \A q \in Requests : Kept(q)
      /\ \A q \in Requests : q # r => req'[q] = req[q]
      /\ b \in Seq(RequestPackets) /\ WholeBlock(b) /\ b # <<>> /\ Starts(b[1])
      /\ \A k \in 1 .. Len(b) : b[k].type = "req" => k = 1 /\ b[1].data[1] = <<"request", r, 1>>
      /\ channel'.thread = IF p = TRUE THEN channel.thread ELSE With(channel.thread, s, r)
      /\ clusterd' = clusterd /\ delivered' = delivered /\ crashed' = crashed
  BY DEF SendsOn
<1>3. /\ link' \in [Conns -> Links] /\ \A d \in Conns : d # c => link'[d] = link[d]
      /\ link'[c].up = (IF link[c].cut THEN link[c].up ELSE link[c].up \o b)
      /\ link'[c].down = link[c].down /\ link'[c].client = link[c].client /\ link'[c].server = link[c].server
      /\ link'[c].cut = link[c].cut /\ link'[c].large_request = link[c].large_request
  BY <1>1, SendsIs
<1> HIDE DEF b
<1>4. TypeInv'
  BY <1>1, <1>2, <1>3 DEF TypeInv
<1>5. LinkInv'
  <2> SUFFICES ASSUME NEW d \in Conns PROVE LinkOf(d)'
    BY DEF LinkInv, LinkOf
  <2>0. d # 0
    BY DEF Conns
  <2>1. LinkOf(d)
    BY <1>1, LinkInvIs
  <2>2. CASE d = c
    <3>2. ASSUME ~link[c].server PROVE link'[c].up = <<>>
      <4>1. CASE link[c].cut
        BY <1>3, <2>1, <2>2, <3>2, <4>1 DEF LinkOf
      <4>2. CASE ~link[c].cut
        BY <1>3, <2>1, <2>2, <3>2, <4>2 DEF LinkOf
      <4> QED
        BY <4>1, <4>2
    <3> QED
      BY <1>2, <1>3, <2>0, <2>1, <2>2, <3>2 DEF LinkOf
  <2>3. CASE d # c
    BY <1>2, <1>3, <2>0, <2>1, <2>3 DEF LinkOf
  <2> QED
    BY <2>2, <2>3
<1>6. ThreadInv'
  <2> DEFINE T == channel.thread
             N == channel'.thread
  <2>0. T \in Tables(Requests)
    BY <1>1 DEF TypeInv, Channels
  <2> SUFFICES ASSUME NEW x \in DOMAIN N
               PROVE  req'[N[x]].state = "wait" /\ req'[N[x]].session = x /\ ~req'[N[x]].is_push
    BY DEF ThreadInv
  <2>1. CASE x \in DOMAIN T /\ N[x] = T[x]
    <3>1. T[x] \in Requests /\ req[T[x]].state = "wait" /\ req[T[x]].session = x /\ ~req[T[x]].is_push
      BY <1>1, <2>1, ThreadWaits
    <3>2. T[x] # r
      BY <1>2, <3>1 DEF IsSent
    <3>3. req'[T[x]] = req[T[x]]
      BY <1>2, <3>1, <3>2
    <3> HIDE DEF T, N
    <3> QED
      BY <2>1, <3>1, <3>3
  <2>2. CASE ~(x \in DOMAIN T /\ N[x] = T[x])
    <3>1. p = FALSE
      BY <1>2, <2>2
    <3>2. N = With(T, s, r)
      BY <1>2, <3>1
    <3>3. DOMAIN N = DOMAIN T \cup {s} /\ N[s] = r /\ \A y \in DOMAIN T : y # s => N[y] = T[y]
      <4>1. s \in Sessions
        BY <1>2
      <4> HIDE DEF T, s, N
      <4>2. PICK x0 \in Sessions : x0 = s
        BY <4>1
      <4>3. /\ DOMAIN With(T, x0, r) = DOMAIN T \cup {x0} /\ With(T, x0, r)[x0] = r
            /\ \A y \in DOMAIN T : y # x0 => With(T, x0, r)[y] = T[y]
        BY <2>0, ThreadWith
      <4> QED
        BY <3>2, <4>2, <4>3
    <3>4. x = s /\ N[x] = r
      BY <2>2, <3>3
    <3> HIDE DEF N, T
    <3> QED
      BY <1>2, <3>1, <3>4
  <2> QED
    BY <2>1, <2>2
<1>7. CallInv'
  BY <1>1, <1>2, CallKept
<1>8. CASE link[c].cut
  <2>1. \A d \in Conns : link'[d].up = link[d].up /\ link'[d].large_request = link[d].large_request
    BY <1>3, <1>8
  <2>2. UpInv'
    BY <1>1, <1>2, <2>1, UpKept DEF UpInv
  <2>3. OnceInv'
    BY <1>1, <1>2, <2>1, OnceKept
  <2> QED
    BY <1>2, <1>4, <1>5, <1>6, <1>7, <2>2, <2>3 DEF Inv
<1>9. CASE ~link[c].cut
  <2>1. link'[c].up = link[c].up \o b
    BY <1>3, <1>9
  <2>2. RequestBlocks' \in SUBSET Seq(RequestPackets)
    <3>1. ASSUME NEW q \in Requests, req'[q].state \notin {"none", "connect"}
          PROVE  IsMade(q) \/ Packets(q)' \in Seq(RequestPackets)
      BY <1>2, <3>1 DEF IsMade, b
    <3>2. \A q \in Requests : req'[q].state \notin {"none", "connect"} => IsMade(q) \/ Packets(q)' \in Seq(RequestPackets)
      BY <3>1
    <3>3. \A q \in Requests : Kept(q)
      BY <1>2
    <3> QED
      BY <1>1, <3>2, <3>3, BlocksAfter
  <2>3. b \in RequestBlocks'
    BY <1>2 DEF RequestBlocks, IsSent, b
  <2>4. Stream(b, RequestBlocks')
    <3> DEFINE B == RequestBlocks'
    <3>1. B \in SUBSET Seq(RequestPackets) /\ b \in B
      BY <2>2, <2>3
    <3> HIDE DEF B
    <3>2. Stream(b, B)
      BY <1>2, <3>1, BlockStream
    <3> QED
      BY <3>2 DEF B
  <2>5. UpInv'
    <3>1. UpOf(c)'
      <4>1. UpOf(c)
        BY <1>1 DEF UpInv
      <4>2. link'[c].large_request = link[c].large_request /\ \A q \in Requests : Kept(q)
        BY <1>2, <1>3
      <4> QED
        BY <1>1, <1>2, <2>1, <2>2, <2>4, <4>1, <4>2, UpConcat
    <3>2. ASSUME NEW d \in Conns, d # c PROVE UpOf(d)'
      <4>1. UpOf(d)
        BY <1>1 DEF UpInv
      <4>2. link'[d].up = link[d].up /\ link'[d].large_request = link[d].large_request
        BY <1>3, <3>2
      <4>3. \A q \in Requests : Kept(q)
        BY Zenon, <1>2
      <4> QED
        BY <4>1, <4>2, <4>3, UpKept
    <3> QED
      BY <3>1, <3>2 DEF UpInv
  <2>6. OnceInv'
    <3>1. ASSUME NEW i \in 1 .. Len(b), b[i].type = "req"
          PROVE  i = 1 /\ b[i].data[1] = <<"request", r, 1>>
      BY <1>2, <3>1
    <3>2. \A i \in 1 .. Len(b) : b[i].type = "req" =>
            \E q \in Requests : ~IsSent(q) /\ b[i].data[1] = <<"request", q, 1>>
      BY <1>2, <3>1
    <3>3. \A i, j \in 1 .. Len(b) : b[i].type = "req" /\ b[j].type = "req" /\ b[i].data = b[j].data => i = j
      BY <3>1
    <3> QED
      BY <1>1, <1>2, <1>3, <2>1, <3>2, <3>3, OnceConcat
  <2> QED
    BY <1>2, <1>4, <1>5, <1>6, <1>7, <2>5, <2>6 DEF Inv
<1> QED
  BY <1>8, <1>9

-------------------------------------------------------------------------------
(* A request is made.                                                      *)

Record(r, addr, size, is_push, s, st) ==
  [state |-> st, is_push |-> is_push, addr |-> addr, msg |-> Payload("request", r, size), session |-> s,
   result_data |-> <<>>, result |-> NoResult]

\* The requests after it.
LEMMA MakesReq ==
  ASSUME TypeInv, MadeInv, NEW r \in Requests, NEW addr \in Addresses, NEW size \in Sizes, NEW is_push,
         NEW st \in {"connect", "wait", "done"}, is_push = TRUE \/ is_push = FALSE, addr = QUERY => is_push = FALSE,
         req[r].state = "none", \A s \in 1 .. r - 1 : req[s].state # "none",
         req' = [req EXCEPT ![r] = Record(r, addr, size, is_push, session, st)]
  PROVE  /\ req' \in [Requests -> RequestRecords'] /\ MadeInv' /\ \A q \in Requests : Kept(q)
         /\ \A q \in Requests : q # r => req'[q] = req[q]
         /\ req'[r] = Record(r, addr, size, is_push, session, st)
<1> DEFINE new == Record(r, addr, size, is_push, session, st)
           msg == Payload("request", r, size)
<1>1. req'[r] = new /\ DOMAIN req' = Requests /\ req' = [q \in Requests |-> req'[q]]
      /\ \A q \in Requests : q # r => req'[q] = req[q]
  BY DEF TypeInv
<1>2. session \in Sessions /\ session \in SessionsOr0
  BY WireAssumption DEF TypeInv, Sessions, SessionsOr0
<1>3. msg \in Bytes
  <2>1. size \in Nat /\ r \in Nat
    BY ClusterAssumption DEF Requests
  <2> QED
    BY <2>1, PayloadIs
<1>4. ASSUME NEW q \in Requests PROVE req'[q] \in RequestRecords'
  <2>1. req'[q].result \in Results'
    BY DEF Results
  <2>2. CASE q = r
    <3>1. new.result = NoResult
      BY DEF Record
    <3>2. NoResult \in Results'
      BY <1>1, <2>1, <2>2, <3>1
    <3>3. <<>> \in Seq(Parts)
      OBVIOUS
    <3>4. new \in RequestRecords'
      BY <1>2, <1>3, <3>2, <3>3 DEF RequestRecords, Record
    <3> QED
      BY <1>1, <2>2, <3>4
  <2>3. CASE q # r
    <3>1. req'[q] = req[q] /\ req[q] \in RequestRecords
      BY <1>1, <2>3 DEF TypeInv
    <3>2. req[q].result \in Results'
      BY <2>1, <3>1
    <3>3. req[q] \in RequestRecords'
      BY <3>1, <3>2 DEF RequestRecords
    <3> QED
      BY <3>1, <3>3
  <2> QED
    BY <2>2, <2>3
<1>5. /\ new.state = st /\ new.session = session /\ new.msg = msg /\ new.addr = addr /\ new.is_push = is_push
      /\ new.result_data = <<>> /\ new.result = NoResult
  BY DEF Record
<1>6. MadeInv'
  <2> SUFFICES ASSUME NEW q \in Requests
               PROVE  /\ req'[q].state = "none" => req'[q] = NewRequest /\ \A s \in Requests : s > q => req'[s].state = "none"
                      /\ req'[q].state # "none" =>
                           /\ req'[q].session \in Sessions /\ \E n \in Sizes : req'[q].msg = Payload("request", q, n)
                           /\ req'[q].addr = QUERY => ~req'[q].is_push
                      /\ req'[q].state = "connect" => req'[q].result_data = <<>>
                      /\ req'[q].state # "done" => req'[q].result = NoResult
    BY DEF MadeInv
  <2>1. CASE q = r
    <3> HIDE DEF new, msg
    <3>1. req'[q] = new /\ new.msg = Payload("request", q, size)
      BY <1>1, <1>5, <2>1 DEF msg
    <3> QED
      BY <1>2, <1>5, <3>1
  <2>2. CASE q # r
    <3>1. req'[q] = req[q]
      BY <1>1, <2>2
    <3>2. req[q].state = "none" => \A s \in Requests : s > q => s # r
      <4>1. q \in Nat /\ r \in Nat
        BY ClusterAssumption DEF Requests
      <4>2. req[q].state = "none" => ~(q \in 1 .. r - 1)
        OBVIOUS
      <4> QED
        BY <2>2, <4>1, <4>2 DEF Requests
    <3>3. /\ req[q].state = "none" => req[q] = NewRequest /\ \A s \in Requests : s > q => req[s].state = "none"
          /\ req[q].state # "none" =>
               /\ req[q].session \in Sessions /\ \E n \in Sizes : req[q].msg = Payload("request", q, n)
               /\ req[q].addr = QUERY => ~req[q].is_push
          /\ req[q].state = "connect" => req[q].result_data = <<>>
          /\ req[q].state # "done" => req[q].result = NoResult
      BY DEF MadeInv
    <3>4. req[q].state = "none" => \A s \in Requests : s > q => req'[s].state = "none"
      BY <1>1, <3>2, <3>3
    <3> QED
      BY <3>1, <3>3, <3>4
  <2> QED
    BY <2>1, <2>2
<1>7. ASSUME NEW q \in Requests PROVE Kept(q)
  <2>1. CASE q = r
    BY <2>1 DEF Kept, IsSent
  <2>2. CASE q # r
    BY <1>1, <2>2 DEF Kept, IsSent
  <2> QED
    BY <2>1, <2>2
<1>9. req' \in [Requests -> RequestRecords']
  BY <1>1, <1>4
<1> QED
  BY <1>1, <1>6, <1>7, <1>9

\* The request that Request makes, field by field.
LEMMA NewRecord ==
  ASSUME NEW r, NEW addr, NEW size, NEW is_push
  PROVE  [NewRequest EXCEPT !.is_push = is_push, !.addr = addr, !.session = session,
                                   !.msg = Payload("request", r, size)]
        = Record(r, addr, size, is_push, session, "none")
<1> DEFINE m == Payload("request", r, size)
           R(a, b, c, d) == [state |-> "none", is_push |-> a, addr |-> b, msg |-> d, session |-> c, result_data |-> <<>>, result |-> NoResult]
<1>1. \A a : [NewRequest EXCEPT !.is_push = a] = R(a, QUERY, 0, <<>>)
  BY DEF NewRequest
<1>2. \A a, x : [R(a, QUERY, 0, <<>>) EXCEPT !.addr = x] = R(a, x, 0, <<>>)
  OBVIOUS
<1>3. \A a, x, y : [R(a, x, 0, <<>>) EXCEPT !.session = y] = R(a, x, y, <<>>)
  OBVIOUS
<1>4. \A a, x, y, z : [R(a, x, y, <<>>) EXCEPT !.msg = z] = R(a, x, y, z)
  OBVIOUS
<1> HIDE DEF m, R
<1>5. [NewRequest EXCEPT !.is_push = is_push, !.addr = addr, !.session = session, !.msg = m] = 
     [[[[NewRequest EXCEPT !.is_push = is_push] EXCEPT !.addr = addr] EXCEPT !.session = session] EXCEPT !.msg = m]
  OBVIOUS
<1>6. [NewRequest EXCEPT !.is_push = is_push] = R(is_push, QUERY, 0, <<>>)
  BY <1>1, Zenon
<1>7. [R(is_push, QUERY, 0, <<>>) EXCEPT !.addr = addr] = R(is_push, addr, 0, <<>>)
  BY <1>2, Zenon
<1>8. [R(is_push, addr, 0, <<>>) EXCEPT !.session = session] = R(is_push, addr, session, <<>>)
  BY <1>3
<1>9. [R(is_push, addr, session, <<>>) EXCEPT !.msg = m] = R(is_push, addr, session, m)
  BY <1>4
<1>10. [NewRequest EXCEPT !.is_push = is_push, !.addr = addr, !.session = session, !.msg = m] = R(is_push, addr, session, m)
  BY <1>5, <1>6, <1>7, <1>8, <1>9, Zenon
<1> QED
  BY <1>10, Zenon DEF Record, m, R

\* What a request becomes, and what it sends.
StateOf(is_push) == IF Connected THEN IF is_push = TRUE THEN "done" ELSE "wait" ELSE "connect"
NewBlock(r, addr, size, is_push) == RequestBlock(addr, session, Payload("request", r, size), is_push)

NextSession == IF session + 1 > INT32_MAX THEN 1 ELSE session + 1
SmallPush(msg, is_push) == is_push = TRUE /\ Len(msg) < MULTI_PART

\* What Request does: r is made with the next session, and sent when the channel is
\* connected.
Makes(r, addr, size, is_push, st) ==
  LET b == NewBlock(r, addr, size, is_push)
      msg == Payload("request", r, size)
      c == channel.conn_id
  IN /\ st \in {"connect", "wait", "done"}
     /\ st = "connect" <=> ~Connected
     /\ st = "wait" <=> Connected /\ is_push = FALSE
     /\ req[r].state = "none" /\ \A s \in 1 .. r - 1 : req[s].state # "none"
     /\ wakeup.list = {} /\ Marks({})
     /\ ~Connected => /\ link' = link
                      /\ channel' = IF Connecting THEN [channel EXCEPT !.waiting = @ \cup {r}]
                                    ELSE [channel EXCEPT !.connecting = Some(r), !.retry = 0]
     /\ Connected => /\ link' = [link EXCEPT ![c].up = IF link[c].cut THEN @ ELSE @ \o b]
                     /\ channel' = [channel EXCEPT !.thread = IF is_push = TRUE THEN @ ELSE With(@, session, r)]
     /\ clusterd' = clusterd /\ delivered' = delivered /\ crashed' = crashed
     /\ req' \in [Requests -> RequestRecords'] /\ MadeInv' /\ \A q \in Requests : Kept(q)
     /\ \A q \in Requests : q # r => req'[q] = req[q]
     /\ req'[r] = Record(r, addr, size, is_push, session, st)
     /\ Packets(r)' = b
     /\ msg \in Bytes /\ msg # <<>> /\ msg[1] = <<"request", r, 1>>
     /\ b \in Seq(RequestPackets) /\ WholeBlock(b) /\ b # <<>> /\ Starts(b[1])
     /\ \A k \in 1 .. Len(b) : b[k].type = "req" => k = 1 /\ b[1] = Small(addr, session, msg, is_push)
     /\ \A k \in 1 .. Len(b) : b[k].session = IF SmallPush(msg, is_push) THEN 0 ELSE session
     /\ session' = IF SmallPush(msg, is_push) THEN session ELSE NextSession
     /\ session' \in Sessions

\* command.req and command.push make one request, which is sent, waits for the
\* connection, starts it, or fails.
LEMMA RequestIs ==
  ASSUME TypeInv, MadeInv, NEW r \in Requests, NEW addr \in Addresses, NEW size \in Sizes, NEW is_push \in BOOLEAN,
         Request(r, addr, size, is_push)
  PROVE  \E st \in {"connect", "wait", "done"} : Makes(r, addr, size, is_push, st)
<1>0. PICK st \in {"connect", "wait", "done"} : st = StateOf(is_push)
  BY DEF StateOf
<1> DEFINE b == NewBlock(r, addr, size, is_push)
           msg == Payload("request", r, size)
           c == channel.conn_id
<1>1. TypeInv /\ MadeInv
  OBVIOUS
<1>2. /\ req[r].state = "none" /\ \A s \in 1 .. r - 1 : req[s].state # "none"
      /\ addr = QUERY => is_push = FALSE
      /\ req' = [req EXCEPT ![r] = Record(r, addr, size, is_push, session, st)]
      /\ session' = IF SmallPush(msg, is_push) THEN session ELSE NextSession
      /\ wakeup.list = {} /\ Marks({})
      /\ ~Connected => /\ link' = link
                       /\ channel' = IF Connecting THEN [channel EXCEPT !.waiting = @ \cup {r}]
                                     ELSE [channel EXCEPT !.connecting = Some(r), !.retry = 0]
      /\ Connected => /\ link' = [link EXCEPT ![c].up = IF link[c].cut THEN @ ELSE @ \o b]
                      /\ channel' = [channel EXCEPT !.thread = IF is_push = TRUE THEN @ ELSE With(@, session, r)]
      /\ clusterd' = clusterd /\ delivered' = delivered /\ crashed' = crashed
  <2> DEFINE q == [NewRequest EXCEPT !.is_push = is_push, !.addr = addr, !.session = session,
                                     !.msg = Payload("request", r, size)]
             packed == packrequest(addr, session, q.msg, is_push)
  <2>1. /\ req[r].state = "none" /\ \A s \in 1 .. r - 1 : req[s].state # "none"
        /\ addr = QUERY => size = 1 /\ ~is_push
        /\ session' = next_session(session, packed, is_push)
        /\ IF Connected
           THEN /\ req' = [req EXCEPT ![r] = Sent(r, q)]
                /\ link' = [link EXCEPT ![c].up = IF link[c].cut THEN @ ELSE @ \o packed.packets]
                /\ channel' = [channel EXCEPT !.thread = push_response(@, r, q)]
           ELSE /\ req' = [req EXCEPT ![r] = [q EXCEPT !.state = "connect"]]
                /\ channel' = IF Connecting THEN [channel EXCEPT !.waiting = @ \cup {r}]
                              ELSE [channel EXCEPT !.connecting = Some(r), !.retry = 0]
                /\ UNCHANGED link
        /\ wakeup.list = {} /\ Marks({})
        /\ UNCHANGED <<clusterd, delivered, crashed>>
    BY DEF Request, TakesMessage
  <2>2. q = Record(r, addr, size, is_push, session, "none")
    BY NewRecord, Zenon
  <2>3. q.msg = Payload("request", r, size) /\ q.is_push = is_push /\ q.session = session
    BY DEF NewRequest
  <2>4. packed.packets = NewBlock(r, addr, size, is_push)
    BY <2>3 DEF RequestBlock, NewBlock
  <2>5. session' = IF SmallPush(msg, is_push) THEN session ELSE NextSession
    <3>1. packed.new_session = NextSession /\ packed.padding = (Len(msg) >= MULTI_PART)
      BY <2>3 DEF packrequest, NextSession
    <3>2. MULTI_PART \in Nat /\ Len(msg) \in Nat
      <4>1. size \in Nat /\ r \in Nat
        BY ClusterAssumption DEF Requests
      <4>2. Len(msg) = size
        BY <4>1, PayloadIs
      <4> QED
        BY <4>1, <4>2, WireAssumption
    <3>3. session' = IF is_push /\ ~packed.padding THEN session ELSE packed.new_session
      <4>1. session' = next_session(session, packed, is_push)
        BY <2>1
      <4> HIDE DEF packed
      <4> QED
        BY <4>1, Zenon DEF next_session
    <3>4. (is_push /\ ~packed.padding) <=> SmallPush(msg, is_push)
      <4> DEFINE large == Len(msg) >= MULTI_PART
      <4>1. large <=> ~(Len(msg) < MULTI_PART)
        BY <3>2
      <4>2. packed.padding = large
        BY <3>1
      <4>3. is_push <=> (is_push = TRUE)
        OBVIOUS
      <4> HIDE DEF large, packed, msg
      <4> QED
        BY <4>1, <4>2, <4>3, Zenon DEF SmallPush
    <3> HIDE DEF packed, msg
    <3>5. CASE SmallPush(msg, is_push)
      BY <3>3, <3>4, <3>5
    <3>6. CASE ~SmallPush(msg, is_push)
      BY <3>1, <3>3, <3>4, <3>6
    <3> QED
      BY <3>5, <3>6
  <2>8. \A t : push_response(t, r, q) = IF is_push THEN t ELSE With(t, session, r)
    BY <2>3 DEF push_response
  <2> HIDE DEF q, packed
  <2>12. \A x : [q EXCEPT !.state = x] = Record(r, addr, size, is_push, session, x)
    BY <2>2 DEF Record
  <2>6. [q EXCEPT !.state = "connect"] = Record(r, addr, size, is_push, session, "connect")
    BY <2>12
  <2>7. Sent(r, q) = Record(r, addr, size, is_push, session, IF is_push THEN "done" ELSE "wait")
    BY <2>3, <2>12 DEF Sent
  <2>9. CASE Connected
    <3>1. /\ req' = [req EXCEPT ![r] = Record(r, addr, size, is_push, session, IF is_push THEN "done" ELSE "wait")]
          /\ link' = [link EXCEPT ![c].up = IF link[c].cut THEN @ ELSE
                                              @ \o NewBlock(r, addr, size, is_push)]
          /\ channel' = [channel EXCEPT !.thread = IF is_push THEN @ ELSE With(@, session, r)]
      BY <2>1, <2>4, <2>7, <2>8, <2>9
    <3> QED
      BY <1>0, <2>1, <2>5, <2>9, <3>1 DEF StateOf
  <2>10. CASE ~Connected
    BY <1>0, <2>1, <2>5, <2>6, <2>10 DEF StateOf
  <2> QED
    BY <1>0, <2>1, <2>5, <2>9, <2>10
<1>4. /\ (st = "connect") <=> ~Connected
      /\ (st = "wait") <=> Connected /\ is_push = FALSE
  BY <1>0 DEF StateOf
<1>5. /\ req' \in [Requests -> RequestRecords'] /\ MadeInv' /\ \A q \in Requests : Kept(q)
      /\ \A q \in Requests : q # r => req'[q] = req[q]
      /\ req'[r] = Record(r, addr, size, is_push, session, st)
      /\ Packets(r)' = b
      /\ msg \in Bytes /\ msg # <<>> /\ msg[1] = <<"request", r, 1>>
  <2>0. is_push = TRUE \/ is_push = FALSE
    OBVIOUS
  <2>1. /\ req' \in [Requests -> RequestRecords'] /\ MadeInv' /\ \A q \in Requests : Kept(q)
        /\ \A q \in Requests : q # r => req'[q] = req[q]
        /\ req'[r] = Record(r, addr, size, is_push, session, st)
    <3>1. TypeInv /\ MadeInv
      BY <1>1
    <3>2. /\ addr = QUERY => is_push = FALSE
          /\ req[r].state = "none" /\ \A s \in 1 .. r - 1 : req[s].state # "none"
          /\ req' = [req EXCEPT ![r] = Record(r, addr, size, is_push, session, st)]
      BY <1>2
    <3> QED
      BY <2>0, <3>1, <3>2, MakesReq
  <2>2. size \in Nat \ {0} /\ r \in Nat
    BY ClusterAssumption DEF Requests
  <2>3. msg \in Bytes /\ Len(msg) = size /\ \A i \in 1 .. size : msg[i] = <<"request", r, i>>
    BY <2>2, PayloadIs
  <2>4. 1 \in 1 .. size
    BY <2>2
  <2>5. Packets(r)' = b
    <3>1. /\ req'[r].addr = addr /\ req'[r].session = session /\ req'[r].msg = msg /\ req'[r].is_push = is_push
      BY <2>1 DEF Record
    <3> QED
      BY <3>1 DEF Packets, NewBlock, RequestBlock
  <2> HIDE DEF msg, b
  <2> QED
    BY <2>1, <2>2, <2>3, <2>4, <2>5
<1>6. req'[r].state = st /\ req'[r].session = session /\ req'[r].is_push = is_push
  BY <1>5 DEF Record
<1>7. /\ b \in Seq(RequestPackets) /\ WholeBlock(b) /\ b # <<>> /\ Starts(b[1])
      /\ \A k \in 1 .. Len(b) : b[k].type = "req" => k = 1 /\ b[1] = Small(addr, session, msg, is_push)
  <2>1. session \in Sessions
    BY <1>1 DEF TypeInv
  <2>2. /\ b \in Seq(RequestPackets) /\ Len(b) >= 1 /\ Starts(b[1])
        /\ \A k \in 2 .. Len(b) : ~Starts(b[k])
        /\ \A k \in 1 .. Len(b) : b[k].type = "req" => k = 1 /\ b[1] = Small(addr, session, msg, is_push)
    BY <1>5, <2>1, RequestBlockStarts DEF NewBlock
  <2>3. b # <<>>
    BY <2>2
  <2> QED
    BY <2>2, <2>3, Zenon DEF WholeBlock
<1>9. \A k \in 1 .. Len(b) : b[k].session = IF SmallPush(msg, is_push) THEN 0 ELSE session
  <2>1. session \in Sessions /\ msg \in Bytes /\ msg # <<>>
    BY <1>1, <1>5 DEF TypeInv
  <2>2. CASE Len(msg) < MULTI_PART
    <3>1. Len(b) = 1 /\ b[1] = Small(addr, session, msg, is_push)
      BY <2>1, <2>2, RequestBlockIs DEF NewBlock
    <3>2. Small(addr, session, msg, is_push).session = IF SmallPush(msg, is_push) THEN 0 ELSE session
      BY <2>2 DEF Small, SmallPush
    <3> HIDE DEF b, msg
    <3> QED
      BY <3>1, <3>2
  <2>3. CASE Len(msg) >= MULTI_PART
    <3>1. b[1] = Multi(addr, session, msg, is_push)
      BY <2>1, <2>3, RequestBlockIs DEF NewBlock
    <3>2. /\ \A k \in 1 .. Len(b) : b[k].type = "req" => k = 1
          /\ \A k \in 1 .. Len(b) : b[k].session = session \/ b[k] = Small(addr, session, msg, is_push)
      BY <2>1, RequestBlockStarts DEF NewBlock
    <3>3. Small(addr, session, msg, is_push).type = "req" /\ Multi(addr, session, msg, is_push).type = "multi"
      BY DEF Small, Multi
    <3>4. ~SmallPush(msg, is_push)
      <4>1. MULTI_PART \in Nat /\ Len(msg) \in Nat
        BY <2>1, WireAssumption DEF Bytes
      <4> QED
        BY <2>3, <4>1 DEF SmallPush
    <3> HIDE DEF b, msg
    <3> QED
      BY <3>1, <3>2, <3>3, <3>4
  <2>4. Len(msg) < MULTI_PART \/ Len(msg) >= MULTI_PART
    <3>1. MULTI_PART \in Nat /\ Len(msg) \in Nat
      BY <2>1, WireAssumption DEF Bytes
    <3> QED
      BY <3>1
  <2> QED
    BY <2>2, <2>3, <2>4
<1> HIDE DEF b, msg
<1>8. session' \in Sessions
  BY <1>1, <1>2, WireAssumption DEF TypeInv, Sessions, NextSession
<1> QED
  BY <1>2, <1>4, <1>5, <1>7, <1>8, <1>9, Zenon DEF Makes, b, msg

\* What a request with a connection is: one that is sent.
LEMMA MakesSends ==
  ASSUME TypeInv, NEW r \in Requests, NEW addr \in Addresses, NEW size \in Sizes, NEW is_push \in BOOLEAN,
         NEW st, Makes(r, addr, size, is_push, st), Connected
  PROVE  SendsOn(channel.conn_id, r)
<1> DEFINE b == NewBlock(r, addr, size, is_push)
           msg == Payload("request", r, size)
           c == channel.conn_id
<1>1. /\ st \in {"connect", "wait", "done"} /\ (st = "connect" <=> ~Connected)
      /\ st = "wait" <=> Connected /\ is_push = FALSE
      /\ req[r].state = "none"
      /\ Connected => /\ link' = [link EXCEPT ![c].up = IF link[c].cut THEN @ ELSE @ \o b]
                      /\ channel' = [channel EXCEPT !.thread = IF is_push = TRUE THEN @ ELSE With(@, session, r)]
      /\ clusterd' = clusterd /\ delivered' = delivered /\ crashed' = crashed
      /\ req' \in [Requests -> RequestRecords'] /\ MadeInv' /\ \A q \in Requests : Kept(q)
      /\ \A q \in Requests : q # r => req'[q] = req[q]
      /\ req'[r] = Record(r, addr, size, is_push, session, st)
      /\ Packets(r)' = b
      /\ msg \in Bytes /\ msg # <<>> /\ msg[1] = <<"request", r, 1>>
      /\ b \in Seq(RequestPackets) /\ WholeBlock(b) /\ b # <<>> /\ Starts(b[1])
      /\ \A k \in 1 .. Len(b) : b[k].type = "req" => k = 1 /\ b[1] = Small(addr, session, msg, is_push)
      /\ \A k \in 1 .. Len(b) : b[k].session = IF SmallPush(msg, is_push) THEN 0 ELSE session
  BY Zenon DEF Makes
<1>2. /\ req'[r].state = st /\ req'[r].session = session /\ req'[r].is_push = is_push /\ req'[r].msg = msg
      /\ req'[r].result_data = <<>> /\ req'[r].result = NoResult
  BY <1>1 DEF Record
<1>3. Small(addr, session, msg, is_push).data = msg
  BY DEF Small
<1>4. ~SmallPush(msg, is_push) => Numbered(r)'
  <2>1. MULTI_PART \in Nat /\ Len(msg) \in Nat
    BY <1>1, WireAssumption DEF Bytes
  <2> HIDE DEF msg
  <2> QED
    BY <1>2, <2>1 DEF SmallPush, Numbered
<1> HIDE DEF b, msg
<1>5. \A k \in 1 .. Len(b) : b[k].session = 0 \/ (b[k].session = session /\ Numbered(r)')
  BY <1>1, <1>4
<1>6. \A k \in 1 .. Len(b) : b[k].type = "req" => k = 1 /\ b[1].data[1] = <<"request", r, 1>>
  BY <1>1, <1>3
<1>7. channel'.thread = IF is_push = TRUE THEN channel.thread ELSE With(channel.thread, session, r)
  BY <1>1 DEF TypeInv, Channels
<1>8. session \in Sessions /\ ~IsSent(r) /\ st = (IF is_push = TRUE THEN "done" ELSE "wait")
  BY <1>1 DEF TypeInv, IsSent
<1> QED
  BY <1>1, <1>2, <1>5, <1>6, <1>7, <1>8, Zenon DEF SendsOn

\* command.req and command.push keep Inv.
LEMMA RequestKeeps ==
  ASSUME Inv, NEW r \in Requests, NEW addr \in Addresses, NEW size \in Sizes, NEW is_push \in BOOLEAN,
         Request(r, addr, size, is_push)
  PROVE  Inv' /\ \A q \in Requests : Kept(q)
<1>1. TypeInv /\ MadeInv /\ LinkInv /\ ChannelInv /\ ThreadInv /\ UpInv /\ OnceInv /\ CallInv
  BY DEF Inv
<1>0. PICK st \in {"connect", "wait", "done"} : Makes(r, addr, size, is_push, st)
  BY <1>1, RequestIs
<1>2. /\ req[r].state = "none" /\ wakeup.list = {} /\ Marks({})
      /\ ~Connected => /\ link' = link
                       /\ channel' = IF Connecting THEN [channel EXCEPT !.waiting = @ \cup {r}]
                                     ELSE [channel EXCEPT !.connecting = Some(r), !.retry = 0]
      /\ Connected => channel' = [channel EXCEPT !.thread = IF is_push = TRUE THEN @ ELSE With(@, session, r)]
      /\ clusterd' = clusterd /\ delivered' = delivered /\ crashed' = crashed
      /\ (st = "connect") <=> ~Connected
  BY <1>0, Zenon DEF Makes
<1>5. /\ req' \in [Requests -> RequestRecords'] /\ MadeInv' /\ \A q \in Requests : Kept(q)
      /\ \A q \in Requests : q # r => req'[q] = req[q]
      /\ req'[r] = Record(r, addr, size, is_push, session, st) /\ session' \in Sessions
  BY <1>0, Zenon DEF Makes
<1>6. req'[r].state = st
  BY <1>5 DEF Record
<1>3. wakeup' \in Wakeups /\ wakeup'.queue = {} /\ Marked' = Marked
  <2>1. TypeInv /\ wakeup.list = {} /\ Marks({})
    BY <1>1, <1>2
  <2> QED
    BY <2>1, MarksIs
<1>9. CASE ~Connected
  <2>1. channel' \in Channels /\ channel'.conn_id = 0 /\ channel'.thread = channel.thread /\ channel'.opened = channel.opened
        /\ (Connecting => channel'.waiting = channel.waiting \cup {r} /\ channel'.connecting = channel.connecting)
        /\ (~Connecting => channel'.waiting = channel.waiting /\ channel'.connecting = Some(r))
    <3>1. channel \in Channels /\ r \in Coroutines /\ channel.conn_id = 0
      BY <1>1, <1>9 DEF TypeInv, Coroutines, Connected
    <3>2. CASE Connecting
      BY <1>2, <1>9, <3>1, <3>2 DEF Channels
    <3>3. CASE ~Connecting
      <4>1. Some(r) \in {None} \cup {Some(co) : co \in Coroutines}
        BY <3>1
      <4>2. channel' = [channel EXCEPT !.connecting = Some(r), !.retry = 0]
        BY <1>2, <1>9, <3>3
      <4> QED
        BY <3>1, <3>3, <4>1, <4>2 DEF Channels
    <3> QED
      BY <3>2, <3>3
  <2>5. TypeInv'
    BY <1>1, <1>2, <1>3, <1>5, <1>9, <2>1 DEF TypeInv
  <2>6. LinkInv'
    <3>1. channel.conn_id = 0
      BY <1>9 DEF Connected
    <3> QED
      BY <1>1, <1>2, <1>9, <2>1, <3>1 DEF LinkInv
  <2>7. ChannelInv'
    <3>0. ~Connected' /\ r # CHANGENODE /\ req'[r].state = "connect"
      BY <1>2, <1>6, <1>9, <2>1 DEF Connected, CHANGENODE, Requests
    <3>1. r \notin Who \cup channel.waiting \cup Marked
      BY <1>1, <1>2 DEF ChannelInv
    <3>2. CASE Connecting
      <4>1. Who' = Who /\ Connecting'
        BY <2>1, <3>2 DEF Who, Connecting
      <4> QED
        BY <1>1, <1>2, <1>3, <1>5, <2>1, <3>0, <3>1, <3>2, <4>1 DEF ChannelInv
    <3>3. CASE ~Connecting
      <4>1. Who' = {r} /\ Connecting' /\ Who = {}
        BY <2>1, <3>3, SomeIs DEF Who, Connecting
      <4>2. CHANGENODE \notin Marked /\ channel.waiting = {} /\ channel.opened = 0
        BY <1>1, <3>3, <4>1 DEF ChannelInv
      <4> QED
        BY <1>1, <1>2, <1>3, <1>5, <2>1, <3>0, <3>1, <3>3, <4>1, <4>2 DEF ChannelInv
    <3> QED
      BY <3>2, <3>3
  <2>8. ThreadInv'
    <3>1. ASSUME NEW s \in DOMAIN channel.thread
          PROVE  LET q == channel.thread[s] IN req'[q] = req[q]
      BY <1>1, <1>2, <1>5, ThreadWaits
    <3> QED
      BY <1>1, <2>1, <3>1 DEF ThreadInv
  <2>9. UpInv'
    BY <1>1, <1>2, <1>5, <1>9, UpKept DEF UpInv
  <2>10. OnceInv'
    BY <1>1, <1>2, <1>5, <1>9, OnceKept
  <2>11. CallInv'
    BY <1>1, <1>2, <1>5, CallKept
  <2> QED
    BY <1>5, <2>5, <2>6, <2>7, <2>8, <2>9, <2>10, <2>11 DEF Inv
<1>10. CASE Connected
  <2>1. PICK c \in Conns : c = channel.conn_id
    BY <1>1, <1>10 DEF Connected, TypeInv, Channels
  <2>2. SendsOn(c, r)
    BY <1>0, <1>1, <1>10, <2>1, MakesSends
  <2>3. channel'.thread \in Tables(Requests)
    BY <1>1, <2>2, SendsIs
  <2>4. /\ channel' \in Channels /\ channel'.conn_id = c /\ channel'.waiting = channel.waiting
        /\ channel'.connecting = channel.connecting /\ channel'.opened = channel.opened
    <3> DEFINE N == IF is_push = TRUE THEN channel.thread ELSE With(channel.thread, session, r)
    <3>1. channel \in Channels /\ channel' = [channel EXCEPT !.thread = N]
      BY <1>1, <1>2, <1>10 DEF TypeInv
    <3> HIDE DEF N
    <3>2. channel'.thread = N
      BY <3>1 DEF Channels
    <3> QED
      BY <2>1, <2>3, <3>1, <3>2 DEF Channels
  <2>5. ChannelInv'
    <3>1. \A q \in Requests : \/ req'[q].state = req[q].state
                              \/ {req'[q].state, req[q].state} \cap {"connect", "closed"} = {}
      BY <1>2, <1>5, <1>6, <1>10
    <3>2. {} \in SUBSET Who
      OBVIOUS
    <3> QED
      BY <1>1, <1>2, <2>1, <2>4, <3>1, <3>2, MarksKeep
  <2>6. channel.opened = 0 /\ link[c].client
    BY <1>1, <1>10, <2>1, LinkInvIs DEF ChannelInv, LinkOf
  <2>7. \A d \in Conns : channel'.conn_id = d <=> channel.conn_id = d \/ channel.opened = d
    BY <2>1, <2>4, <2>6 DEF Conns
  <2> QED
    BY <1>3, <1>5, <2>2, <2>4, <2>5, <2>6, <2>7, SendsKeeps
<1> QED
  BY <1>9, <1>10

-------------------------------------------------------------------------------
(* The coroutines of the sender go on.                                     *)

\* Who connects.
LEMMA WhoIs ==
  ASSUME TypeInv
  PROVE  /\ Who \in SUBSET Coroutines /\ Who = ToSet(channel.connecting)
         /\ \A co : channel.connecting = Some(co) <=> co \in Who
         /\ \A co : channel.connecting = Some(co) => Who = {co} /\ Connecting
<1>1. CASE channel.connecting = None
  <2>1. \A co : Some(co) # None
    BY SomeIs
  <2>2. Who = {} /\ ToSet(None) = {} /\ ~Connecting
    BY <1>1 DEF Who, Connecting, ToSet, None
  <2> QED
    BY <1>1, <2>1, <2>2
<1>2. ASSUME NEW x \in Coroutines, channel.connecting = Some(x)
      PROVE  /\ Who \in SUBSET Coroutines /\ Who = ToSet(channel.connecting)
             /\ \A co : channel.connecting = Some(co) <=> co \in Who
             /\ \A co : channel.connecting = Some(co) => Who = {co} /\ Connecting
  <2>1. \A co : Some(co) = Some(x) <=> co = x
    BY SomeIs
  <2>2. Connecting /\ Who = {x}
    BY <1>2, SomeIs DEF Who, Connecting
  <2>3. ToSet(Some(x)) = {x}
    BY DEF ToSet, Some
  <2> QED
    BY <1>2, <2>1, <2>2, <2>3
<1> QED
  BY <1>1, <1>2 DEF TypeInv, Channels

\* Who raises an error is done.
LEMMA FailsMoves ==
  ASSUME TypeInv, NEW co \in Coroutines, co = CHANGENODE \/ req[co].state # "none", Fails(co)
  PROVE  /\ DOMAIN req' = Requests /\ req' = [r \in Requests |-> req'[r]]
         /\ \A r \in Requests : Moves(r) /\ (r # co => req'[r] = req[r])
                                  /\ (r = co => req'[r].state = "done" /\ req'[r].result = Error)
<1>1. req' = [r \in Requests |-> IF r = co THEN [req[r] EXCEPT !.state = "done", !.result = Error] ELSE req[r]]
  BY Zenon DEF Fails
<1>2. ASSUME NEW r \in Requests, r = co
      PROVE  Moves(r) /\ req'[r].state = "done" /\ req'[r].result = Error
  <2>1. req'[r] = [req[r] EXCEPT !.state = "done", !.result = Error] /\ req[r] \in RequestRecords
    BY <1>1, <1>2 DEF TypeInv
  <2>2. req[r].state # "none"
    BY <1>2 DEF CHANGENODE, Requests
  <2>3. req[r].result_data \in Seq(Parts)
    BY <2>1 DEF RequestRecords
  <2>4. req'[r] = [req[r] EXCEPT !.state = "done", !.result_data = req[r].result_data, !.result = Error]
    BY <2>1 DEF RequestRecords
  <2>5. Moves(r)
    BY <2>2, <2>3, <2>4 DEF Moves
  <2>6. req'[r].state = "done" /\ req'[r].result = Error
    BY <2>1 DEF RequestRecords
  <2> QED
    BY <2>5, <2>6
<1>3. ASSUME NEW r \in Requests, r # co PROVE req'[r] = req[r]
  BY <1>1, <1>3
<1> QED
  BY <1>1, <1>2, <1>3 DEF Moves

\* Who waited for the connection sends on it.
LEMMA ResumeSends ==
  ASSUME TypeInv, MadeInv, NEW c \in Conns, NEW r \in Requests, req[r].state = "connect", Sends(r, c),
         channel'.thread = push_response(channel.thread, r, req[r]),
         clusterd' = clusterd, delivered' = delivered, crashed' = crashed
  PROVE  SendsOn(c, r)
<1> DEFINE p == req[r].is_push
           s == req[r].session
           st == IF p = TRUE THEN "done" ELSE "wait"
           b == Packets(r)
<1>1. req[r] \in RequestRecords /\ p \in BOOLEAN /\ s \in Sessions /\ IsMade(r) /\ ~IsSent(r)
      /\ req[r].result_data = <<>> /\ req[r].result = NoResult
  BY DEF TypeInv, RequestRecords, MadeInv, IsMade, IsSent
<1>2. Sent(r, req[r]) = [req[r] EXCEPT !.state = st]
  BY <1>1 DEF Sent
<1>3. req' = [req EXCEPT ![r] = [req[r] EXCEPT !.state = st]]
      /\ link' = [link EXCEPT ![c].up = IF link[c].cut THEN @ ELSE @ \o b]
  BY <1>2, Zenon DEF Sends
<1>4. DOMAIN req' = Requests /\ req' = [q \in Requests |-> req'[q]] /\ req'[r] = [req[r] EXCEPT !.state = st]
      /\ \A q \in Requests : q # r => req'[q] = req[q]
  BY <1>3 DEF TypeInv
<1>5. /\ req'[r].state = st /\ req'[r].session = s /\ req'[r].is_push = p /\ req'[r].msg = req[r].msg
      /\ req'[r].result_data = <<>> /\ req'[r].result = NoResult /\ req'[r].addr = req[r].addr
  BY <1>1, <1>4 DEF RequestRecords
<1>6. ASSUME NEW q \in Requests PROVE Moves(q)
  <2>1. CASE q = r
    <3>1. req'[r] = [req[r] EXCEPT !.state = st, !.result_data = <<>>, !.result = NoResult]
      BY <1>1, <1>4 DEF RequestRecords
    <3>2. st \in {"wait", "closed", "done"} /\ <<>> \in Seq(Parts)
      OBVIOUS
    <3> HIDE DEF st
    <3> QED
      BY <2>1, <3>1, <3>2 DEF Moves
  <2>2. CASE q # r
    BY <1>4, <2>2 DEF Moves
  <2> QED
    BY <2>1, <2>2
<1>7. req' \in [Requests -> RequestRecords'] /\ MadeInv' /\ \A q \in Requests : Kept(q)
  BY <1>4, <1>6, MovesReq
<1>8. Packets(r)' = b
  BY <1>1, <1>7, KeptPackets
<1>9. /\ b \in Seq(RequestPackets) /\ WholeBlock(b) /\ b # <<>> /\ Starts(b[1])
      /\ \A k \in 1 .. Len(b) : b[k].type = "req" => k = 1 /\ b[1].data[1] = <<"request", r, 1>>
      /\ \A k \in 1 .. Len(b) : b[k].session = 0 \/ (b[k].session = s /\ Numbered(r))
  <2>1. /\ b \in Seq(RequestPackets) /\ WholeBlock(b)
        /\ ~IsLarge(r) => Len(b) = 1 /\ b[1] = SmallOf(r)
        /\ \A k \in 1 .. Len(b) : b[k].type = "req" => k = 1 /\ ~IsLarge(r)
        /\ \A k \in 1 .. Len(b) : b[k].session = IF IsLarge(r) THEN s ELSE WireSession(r)
    BY <1>1, PacketsAre
  <2>2. req[r].msg[1] = <<"request", r, 1>> /\ Len(req[r].msg) \in Nat \ {0}
    BY <1>1, MadeIs
  <2>3. SmallOf(r).data = req[r].msg
    BY DEF SmallOf
  <2>4. IsLarge(r) => Numbered(r)
    BY DEF IsLarge, Numbered
  <2>5. WireSession(r) = 0 \/ (WireSession(r) = s /\ Numbered(r))
    BY DEF WireSession, Numbered
  <2> HIDE DEF b, s
  <2>6. b # <<>> /\ Starts(b[1])
    BY <2>1 DEF WholeBlock
  <2> QED
    BY <2>1, <2>2, <2>3, <2>4, <2>5, <2>6
<1>10. Numbered(r)' <=> Numbered(r)
  BY <1>5 DEF Numbered
<1>11. channel'.thread = IF p = TRUE THEN channel.thread ELSE With(channel.thread, s, r)
  BY <1>1 DEF push_response
<1> HIDE DEF b, s, p
<1> QED
  BY <1>1, <1>3, <1>4, <1>5, <1>7, <1>8, <1>9, <1>10, <1>11, Zenon DEF SendsOn

\* Whoever the loop resumes was marked; who connected is not any more, and those who
\* waited for that are marked.
LEMMA ConnectingEnds ==
  ASSUME TypeInv, ChannelInv, NEW co \in wakeup.list, channel.connecting = Some(co), NEW raises \in BOOLEAN,
         Resumed(co, channel.waiting, raises), channel'.connecting = None, channel'.waiting = {},
         channel'.opened = 0, Connected' => ~raises, \A r \in Requests : r # co => req'[r] = req[r],
         co \in Requests => req'[co].state \notin {"connect", "closed"}
  PROVE  ChannelInv' /\ wakeup' \in Wakeups
<1>1. Who = {co} /\ Connecting /\ channel.waiting \in SUBSET Requests
  BY WhoIs DEF TypeInv, Channels
<1>2. channel.waiting \in SUBSET Coroutines /\ channel.waiting \cap Marked = {} /\ wakeup.queue \cap wakeup.list = {}
  BY <1>1 DEF ChannelInv, Coroutines
<1>3. /\ wakeup' \in Wakeups /\ wakeup'.queue \cap wakeup'.list = {}
      /\ Marked' = (Marked \ {co}) \cup channel.waiting
      /\ (~raises /\ wakeup'.list = {} => wakeup'.queue = {})
  <2>1. CASE raises = TRUE
    <3>1. Resumed(co, channel.waiting, TRUE)
      BY <2>1
    <3> QED
      BY <1>2, <2>1, <3>1, ResumedIs
  <2>2. CASE raises = FALSE
    <3>1. Resumed(co, channel.waiting, FALSE)
      BY <2>2
    <3> QED
      BY <1>2, <2>2, <3>1, ResumedIs
  <2> QED
    BY <2>1, <2>2
<1>4. Who' = {} /\ ~Connecting'
  BY DEF Who, Connecting
<1>5. CHANGENODE \notin Marked'
  BY <1>1, <1>3 DEF ChannelInv, CHANGENODE, Requests
<1>6. ASSUME NEW r \in Requests
      PROVE  /\ req'[r].state \in {"connect", "closed"} <=> r \in Marked'
             /\ req'[r].state = "closed" => r \in Marked'
  <2>1. CASE r = co
    BY <1>1, <1>3, <2>1 DEF ChannelInv
  <2>2. CASE r # co
    <3>1. req'[r].state = req[r].state
      BY <2>2
    <3> QED
      BY <1>1, <1>3, <2>2, <3>1 DEF ChannelInv
  <2> QED
    BY <2>1, <2>2
<1> QED
  BY <1>3, <1>4, <1>5, <1>6 DEF ChannelInv

\* Who connects tries again.
LEMMA TriesAgain ==
  ASSUME TypeInv, ChannelInv, NEW co \in wakeup.list, channel.connecting = Some(co), Resumed(co, {}, FALSE),
         channel'.conn_id = channel.conn_id, channel'.connecting = channel.connecting,
         channel'.waiting = channel.waiting, channel'.opened = 0, req' = req
  PROVE  ChannelInv' /\ wakeup' \in Wakeups
<1>1. Who = {co} /\ Connecting
  BY WhoIs
<1>2. wakeup.queue \cap wakeup.list = {}
  BY DEF ChannelInv
<1>3. wakeup' \in Wakeups /\ wakeup'.queue \cap wakeup'.list = {} /\ Marked' = Marked \ {co}
      /\ (wakeup'.list = {} => wakeup'.queue = {})
  <2>1. {} \in SUBSET Coroutines /\ {} \cap Marked = {} /\ FALSE \in BOOLEAN
    OBVIOUS
  <2> QED
    BY <1>2, <2>1, ResumedIs
<1>4. Who' = Who /\ Connecting' /\ ~Connected'
  BY <1>1 DEF Who, Connecting, Connected, ChannelInv
<1> QED
  BY <1>1, <1>3, <1>4 DEF ChannelInv

\* Who does not connect leaves block_connect, or the response it waited for.
LEMMA LeavesAlone ==
  ASSUME TypeInv, ChannelInv, NEW co \in wakeup.list, co \in Requests, channel.connecting # Some(co),
         NEW raises \in BOOLEAN, Resumed(co, {}, raises), Connected => ~raises,
         channel'.conn_id = channel.conn_id, channel'.connecting = channel.connecting,
         channel'.waiting = channel.waiting, channel'.opened = channel.opened,
         \A r \in Requests : r # co => req'[r] = req[r], req'[co].state \notin {"connect", "closed"}
  PROVE  ChannelInv' /\ wakeup' \in Wakeups
<1>1. co \notin Who /\ co # CHANGENODE /\ co \in Marked
  BY WhoIs DEF CHANGENODE, Requests, Marked
<1>2. wakeup.queue \cap wakeup.list = {}
  BY DEF ChannelInv
<1>3. wakeup' \in Wakeups /\ wakeup'.queue \cap wakeup'.list = {} /\ Marked' = Marked \ {co}
      /\ (~raises /\ wakeup'.list = {} => wakeup'.queue = {})
  <2>1. {} \in SUBSET Coroutines /\ {} \cap Marked = {}
    OBVIOUS
  <2>2. CASE raises = TRUE
    <3>1. Resumed(co, {}, TRUE)
      BY <2>2
    <3> QED
      BY <1>2, <2>1, <2>2, <3>1, ResumedIs
  <2>3. CASE raises = FALSE
    <3>1. Resumed(co, {}, FALSE)
      BY <2>3
    <3> QED
      BY <1>2, <2>1, <2>3, <3>1, ResumedIs
  <2> QED
    BY <2>2, <2>3
<1>4. Who' = Who /\ (Connecting' <=> Connecting) /\ (Connected' <=> Connected)
  BY DEF Who, Connecting, Connected
<1>5. channel'.opened # 0 => Connecting /\ channel.connecting[1] \in Marked'
  <2>1. Connecting => channel.connecting[1] \in Who
    BY DEF Who
  <2> QED
    BY <1>1, <1>3, <2>1 DEF ChannelInv
<1>6. ASSUME NEW r \in Requests
      PROVE  /\ req'[r].state \in {"connect", "closed"} <=> r \in Who \cup channel.waiting \cup Marked'
             /\ req'[r].state = "closed" => r \in Marked' \ Who
  <2>1. CASE r = co
    BY <1>1, <1>3, <2>1 DEF ChannelInv
  <2>2. CASE r # co
    <3>1. req'[r].state = req[r].state
      BY <2>2
    <3> QED
      BY <1>1, <1>3, <2>2, <3>1 DEF ChannelInv
  <2> QED
    BY <2>1, <2>2
<1> QED
  BY <1>3, <1>4, <1>5, <1>6 DEF ChannelInv

\* What a round of the loop leaves alone.
Goes == session' = session /\ clusterd' = clusterd /\ delivered' = delivered /\ crashed' = crashed

\* The channel when the attempt has succeeded, but for its table.
LEMMA ConnectsChannel ==
  ASSUME TypeInv, NEW co \in wakeup.list, Connects(co)
  PROVE  /\ channel.connecting = Some(co) /\ channel.opened # 0 /\ Resumed(co, channel.waiting, FALSE)
         /\ channel'.conn_id = channel.opened /\ channel'.connecting = None /\ channel'.opened = 0
         /\ channel'.waiting = {} /\ (channel'.thread \in Tables(Requests) => channel' \in Channels)
         /\ co = CHANGENODE => channel'.thread = channel.thread /\ req' = req /\ link' = link
         /\ co # CHANGENODE => /\ Sends(co, channel.opened)
                               /\ channel'.thread = push_response(channel.thread, co, req[co])
<1> DEFINE N == IF co = CHANGENODE THEN channel.thread ELSE push_response(channel.thread, co, req[co])
           M == [channel EXCEPT !.conn_id = channel.opened, !.connecting = None, !.opened = 0,
                                !.waiting = {}, !.retry = 0]
<1>1. /\ channel.connecting = Some(co) /\ channel.opened # 0 /\ Resumed(co, channel.waiting, FALSE)
      /\ co = CHANGENODE => channel' = M /\ req' = req /\ link' = link
      /\ co # CHANGENODE => /\ Sends(co, channel.opened)
                            /\ channel' = [M EXCEPT !.thread = push_response(@, co, req[co])]
  BY DEF Connects
<1>2. channel \in Channels /\ channel.opened \in Conns \cup {0}
  BY DEF TypeInv, Channels
<1>3. /\ M.conn_id = channel.opened /\ M.connecting = None /\ M.opened = 0 /\ M.waiting = {} /\ M.retry = 0
      /\ M.thread = channel.thread /\ M \in Channels
  BY <1>2 DEF Channels
<1> HIDE DEF M
<1>4. channel' = [M EXCEPT !.thread = N]
  <2>1. CASE co = CHANGENODE
    <3>1. M = [M EXCEPT !.thread = M.thread]
      BY <1>3 DEF Channels
    <3> QED
      BY <1>1, <1>3, <2>1, <3>1
  <2>2. CASE co # CHANGENODE
    BY <1>1, <1>3, <2>2
  <2> QED
    BY <2>1, <2>2
<1> HIDE DEF N
<1>5. /\ channel'.conn_id = channel.opened /\ channel'.connecting = None /\ channel'.opened = 0
      /\ channel'.waiting = {} /\ channel'.thread = N /\ (N \in Tables(Requests) => channel' \in Channels)
  BY <1>3, <1>4 DEF Channels
<1> QED
  BY <1>1, <1>5 DEF N

\* A channel that got its connection keeps Inv.
LEMMA ConnectsKeeps ==
  ASSUME Inv, NEW co \in wakeup.list, Connects(co), Goes
  PROVE  Inv' /\ \A r \in Requests : Kept(r)
<1>1. TypeInv /\ MadeInv /\ LinkInv /\ ChannelInv /\ ThreadInv
  BY DEF Inv
<1>2. /\ channel.connecting = Some(co) /\ channel.opened # 0 /\ Resumed(co, channel.waiting, FALSE)
      /\ channel'.conn_id = channel.opened /\ channel'.connecting = None /\ channel'.opened = 0
      /\ channel'.waiting = {} /\ (channel'.thread \in Tables(Requests) => channel' \in Channels)
      /\ co = CHANGENODE => channel'.thread = channel.thread /\ req' = req /\ link' = link
      /\ co # CHANGENODE => /\ Sends(co, channel.opened)
                            /\ channel'.thread = push_response(channel.thread, co, req[co])
  BY <1>1, ConnectsChannel
<1>3. PICK c \in Conns : c = channel.opened
  BY <1>1, <1>2 DEF TypeInv, Channels
<1>4. Who = {co} /\ co \in Coroutines /\ channel.conn_id = 0 /\ link[c].client
  <2>1. Who = {co} /\ co \in Coroutines /\ Connecting
    BY <1>1, <1>2, WhoIs
  <2> QED
    BY <1>1, <1>3, <2>1, LinkInvIs DEF ChannelInv, Connected, LinkOf
<1>5. session' \in Sessions /\ clusterd' = clusterd /\ delivered' = delivered /\ crashed' = crashed /\ session' = session
      /\ clusterd' \in Daemons /\ crashed' \in BOOLEAN
  BY <1>1 DEF Goes, TypeInv
<1>6. FALSE \in BOOLEAN /\ (Connected' => ~FALSE)
  OBVIOUS
<1>7. \A d \in Conns : channel'.conn_id = d <=> channel.conn_id = d \/ channel.opened = d
  BY <1>2, <1>4 DEF Conns
<1>8. CASE co = CHANGENODE
  <2>1. channel' \in Channels /\ link' \in [Conns -> Links] /\ req' = req /\ link' = link /\ channel'.thread = channel.thread
    BY <1>1, <1>2, <1>8 DEF TypeInv, Channels
  <2>2. co \notin Requests
    BY <1>8 DEF CHANGENODE, Requests
  <2>3. ChannelInv' /\ wakeup' \in Wakeups
    BY <1>1, <1>2, <1>6, <2>1, <2>2, ConnectingEnds
  <2>4. LinkInv'
    <3>1. \A d \in Conns : channel'.opened # d
      BY <1>2 DEF Conns
    <3> QED
      BY <1>1, <1>5, <1>7, <2>1, <3>1 DEF LinkInv
  <2>5. ThreadInv'
    BY <1>1, <2>1 DEF ThreadInv
  <2> QED
    BY <1>1, <1>5, <2>1, <2>3, <2>4, <2>5, StillMoves, StepKeeps
<1>9. CASE co # CHANGENODE
  <2>1. co \in Requests /\ req[co].state = "connect"
    BY <1>1, <1>4, <1>9 DEF Coroutines, ChannelInv
  <2>2. SendsOn(c, co)
    BY <1>1, <1>2, <1>3, <1>5, <1>9, <2>1, ResumeSends
  <2>3. channel'.thread \in Tables(Requests)
    BY <1>1, <2>1, <2>2, SendsIs
  <2>4. /\ \A q \in Requests : q # co => req'[q] = req[q]
        /\ req'[co].state \notin {"connect", "closed"}
    BY <2>2 DEF SendsOn
  <2>5. ChannelInv' /\ wakeup' \in Wakeups
    BY <1>1, <1>2, <1>6, <2>1, <2>4, ConnectingEnds
  <2> QED
    BY <1>2, <1>4, <1>5, <1>7, <2>1, <2>2, <2>3, <2>5, SendsKeeps
<1> QED
  BY <1>8, <1>9

\* An error leaves who is in the channel's table as it is, when it is of none of them.
LEMMA FailsKeeps ==
  ASSUME Inv, NEW co \in Coroutines, co = CHANGENODE \/ req[co].state \in {"connect", "closed"}, Fails(co), Goes,
         channel' \in Channels, wakeup' \in Wakeups, ChannelInv', link' = link, channel'.conn_id = channel.conn_id,
         channel'.opened = channel.opened, channel'.thread = channel.thread
  PROVE  Inv' /\ \A r \in Requests : Kept(r)
<1>1. TypeInv /\ LinkInv /\ ThreadInv
  BY DEF Inv
<1>2. /\ DOMAIN req' = Requests /\ req' = [r \in Requests |-> req'[r]]
      /\ \A r \in Requests : Moves(r) /\ (r # co => req'[r] = req[r])
  BY <1>1, FailsMoves
<1>3. session' = session /\ clusterd' \in Daemons /\ clusterd' = clusterd /\ delivered' = delivered /\ crashed' \in BOOLEAN
      /\ link' \in [Conns -> Links]
  BY <1>1 DEF Goes, TypeInv
<1>4. LinkInv'
  BY <1>1, <1>3 DEF LinkInv
<1>5. ThreadInv'
  <2>1. ASSUME NEW s \in DOMAIN channel.thread
        PROVE  LET r == channel.thread[s] IN req'[r] = req[r]
    <3>1. channel.thread[s] \in Requests /\ req[channel.thread[s]].state = "wait"
      BY <1>1, ThreadWaits
    <3>2. channel.thread[s] # co
      BY <3>1 DEF CHANGENODE, Requests
    <3> QED
      BY <1>2, <3>1, <3>2
  <2> QED
    BY <1>1, <2>1 DEF ThreadInv
<1> QED
  BY <1>2, <1>3, <1>4, <1>5, StepKeeps

\* An attempt that failed keeps Inv, the last one or not.
LEMMA GivesUpKeeps ==
  ASSUME Inv, NEW co \in wakeup.list, GivesUp(co), Goes
  PROVE  Inv' /\ \A r \in Requests : Kept(r)
<1>1. TypeInv /\ MadeInv /\ LinkInv /\ ChannelInv /\ ThreadInv
  BY DEF Inv
<1>2. /\ channel.connecting = Some(co) /\ channel.opened = 0 /\ link' = link
      /\ \/ channel' = [channel EXCEPT !.retry = @ + 1] /\ Resumed(co, {}, FALSE) /\ req' = req
         \/ /\ channel' = [channel EXCEPT !.connecting = None, !.waiting = {}, !.retry = 0]
            /\ Resumed(co, channel.waiting, ~Catches(co)) /\ Fails(co)
  BY Zenon DEF GivesUp
<1>3. channel \in Channels
  BY <1>1 DEF TypeInv
<1>4. Who = {co} /\ co \in Coroutines /\ channel.conn_id = 0
      /\ (co = CHANGENODE \/ (co \in Requests /\ req[co].state = "connect"))
  <2>1. Who = {co} /\ co \in Coroutines /\ Connecting
    BY <1>1, <1>2, WhoIs
  <2> QED
    BY <1>1, <2>1 DEF ChannelInv, Connected, Coroutines
<1>5. CASE channel' = [channel EXCEPT !.retry = @ + 1] /\ Resumed(co, {}, FALSE) /\ req' = req
  <2>1. /\ channel' \in Channels /\ channel'.conn_id = channel.conn_id /\ channel'.connecting = channel.connecting
        /\ channel'.opened = 0 /\ channel'.waiting = channel.waiting /\ channel'.thread = channel.thread
    BY <1>2, <1>3, <1>5 DEF Channels
  <2>2. ChannelInv' /\ wakeup' \in Wakeups
    BY <1>1, <1>2, <1>5, <2>1, TriesAgain
  <2>3. session' = session /\ clusterd' \in Daemons /\ clusterd' = clusterd /\ delivered' = delivered /\ crashed' \in BOOLEAN
        /\ link' \in [Conns -> Links]
    BY <1>1, <1>2 DEF Goes, TypeInv
  <2>4. LinkInv' /\ ThreadInv'
    BY <1>1, <1>2, <1>5, <2>1, <2>3 DEF LinkInv, ThreadInv
  <2> QED
    BY <1>1, <1>2, <1>5, <2>1, <2>2, <2>3, <2>4, StillMoves, StepKeeps
<1>6. CASE /\ channel' = [channel EXCEPT !.connecting = None, !.waiting = {}, !.retry = 0]
           /\ Resumed(co, channel.waiting, ~Catches(co)) /\ Fails(co)
  <2>1. /\ channel' \in Channels /\ channel'.conn_id = 0 /\ channel'.connecting = None
        /\ channel'.opened = 0 /\ channel'.waiting = {} /\ channel'.thread = channel.thread
    BY <1>2, <1>3, <1>4, <1>6 DEF Channels
  <2>2. /\ \A r \in Requests : r # co => req'[r] = req[r]
        /\ co \in Requests => req'[co].state = "done"
    BY <1>1, <1>4, <1>6, FailsMoves
  <2>3. PICK raises \in BOOLEAN : raises = ~Catches(co)
    BY DEF Catches
  <2>4. Resumed(co, channel.waiting, raises)
    BY <1>6, <2>3
  <2>5. ~Connected'
    BY <2>1 DEF Connected
  <2>6. ChannelInv' /\ wakeup' \in Wakeups
    BY <1>1, <1>2, <2>1, <2>2, <2>4, <2>5, ConnectingEnds
  <2> QED
    BY <1>2, <1>4, <1>6, <2>1, <2>6, FailsKeeps
<1> QED
  BY <1>2, <1>5, <1>6

\* Who waited for the connection, or for a response that will not come, goes on.
LEMMA LeavesKeeps ==
  ASSUME Inv, NEW co \in wakeup.list, co \in Requests, GoesOn(co) \/ Raises(co), Goes
  PROVE  Inv' /\ \A r \in Requests : Kept(r)
<1>1. TypeInv /\ MadeInv /\ LinkInv /\ ChannelInv /\ ThreadInv
  BY DEF Inv
<1>2. co \in Marked /\ co \in Coroutines /\ session' \in Sessions /\ channel \in Channels
  BY <1>1 DEF Goes, TypeInv, Marked, Coroutines
<1>3. CASE GoesOn(co) /\ Connected
  <2>1. /\ channel.connecting # Some(co) /\ req[co].state = "connect" /\ Sends(co, channel.conn_id)
        /\ channel' = [channel EXCEPT !.thread = push_response(@, co, req[co])]
        /\ Resumed(co, {}, FALSE)
    BY <1>3 DEF GoesOn
  <2>2. PICK c \in Conns : c = channel.conn_id
    BY <1>2, <1>3 DEF Connected, Channels
  <2>3. clusterd' = clusterd /\ delivered' = delivered /\ crashed' = crashed
        /\ channel'.thread = push_response(channel.thread, co, req[co])
    BY <1>2, <2>1 DEF Goes, Channels
  <2>4. SendsOn(c, co)
    BY <1>1, <2>1, <2>2, <2>3, ResumeSends
  <2>5. channel'.thread \in Tables(Requests)
    BY <1>1, <2>4, SendsIs
  <2>6. /\ channel' \in Channels /\ channel'.conn_id = channel.conn_id /\ channel'.connecting = channel.connecting
        /\ channel'.opened = channel.opened /\ channel'.waiting = channel.waiting
    <3> DEFINE N == push_response(channel.thread, co, req[co])
    <3>1. channel' = [channel EXCEPT !.thread = N]
      BY <2>1
    <3>2. N \in Tables(Requests)
      BY <2>3, <2>5
    <3> HIDE DEF N
    <3> QED
      BY <1>2, <3>1, <3>2 DEF Channels
  <2>7. /\ \A q \in Requests : q # co => req'[q] = req[q]
        /\ req'[co].state \notin {"connect", "closed"}
    BY <2>4 DEF SendsOn
  <2>8. FALSE \in BOOLEAN /\ (Connected => ~FALSE)
    OBVIOUS
  <2>9. ChannelInv' /\ wakeup' \in Wakeups
    BY <1>1, <2>1, <2>6, <2>7, <2>8, LeavesAlone
  <2>10. channel.opened = 0 /\ link[c].client
    BY <1>1, <1>3, <2>2, LinkInvIs DEF ChannelInv, LinkOf
  <2>11. \A d \in Conns : channel'.conn_id = d <=> channel.conn_id = d \/ channel.opened = d
    BY <2>6, <2>10 DEF Conns
  <2> QED
    BY <1>2, <2>4, <2>6, <2>9, <2>10, <2>11, SendsKeeps
<1>4. CASE (GoesOn(co) /\ ~Connected) \/ Raises(co)
  <2>1. /\ req[co].state \in {"connect", "closed"} /\ channel.connecting # Some(co) /\ Fails(co) /\ channel' = channel /\ link' = link
        /\ \E raises \in BOOLEAN : Resumed(co, {}, raises) /\ (Connected => ~raises)
    <3>1. CASE GoesOn(co) /\ ~Connected
      <4>1. PICK raises \in BOOLEAN : raises = ~Catches(co)
        BY DEF Catches
      <4>2. channel.connecting # Some(co) /\ req[co].state = "connect" /\ Fails(co) /\ channel' = channel /\ link' = link
            /\ Resumed(co, {}, ~Catches(co))
        BY <3>1 DEF GoesOn
      <4>3. Resumed(co, {}, raises)
        BY <4>1, <4>2
      <4> QED
        BY <3>1, <4>2, <4>3
    <3>2. CASE Raises(co)
      <4>1. req[co].state = "closed" /\ Fails(co) /\ channel' = channel /\ link' = link /\ Resumed(co, {}, FALSE)
        BY <3>2 DEF Raises
      <4>2. co \notin Who
        BY <1>1, <4>1 DEF ChannelInv
      <4> QED
        BY <1>1, <4>1, <4>2, WhoIs
    <3> QED
      BY <1>4, <3>1, <3>2
  <2>2. PICK raises \in BOOLEAN : Resumed(co, {}, raises) /\ (Connected => ~raises)
    BY <2>1
  <2>3. /\ \A r \in Requests : r # co => req'[r] = req[r]
        /\ req'[co].state = "done"
    BY <1>1, <1>2, <2>1, FailsMoves
  <2>4. ChannelInv' /\ wakeup' \in Wakeups
    BY <1>1, <2>1, <2>2, <2>3, LeavesAlone
  <2> QED
    BY <1>2, <2>1, <2>4, FailsKeeps
<1> QED
  BY <1>3, <1>4

\* A round of the loop keeps Inv.
LEMMA ResumeKeeps ==
  ASSUME Inv, NEW co \in wakeup.list, Resume(co)
  PROVE  Inv' /\ \A r \in Requests : Kept(r)
<1>1. Goes /\ (Connects(co) \/ GivesUp(co) \/ (co \in Requests /\ (GoesOn(co) \/ Raises(co))))
  BY DEF Resume, Goes
<1> QED
  BY <1>1, ConnectsKeeps, GivesUpKeeps, LeavesKeeps

-------------------------------------------------------------------------------
(* The invariant.                                                          *)

\* Inv holds when cluster starts.
LEMMA InitInv ==
  ASSUME Init
  PROVE  Inv
<1>1. /\ session \in FirstSessions /\ channel = [conn_id |-> 0, connecting |-> None, opened |-> 0, waiting |-> {},
                                                      retry |-> 0, thread |-> <<>>]
      /\ wakeup = [queue |-> {}, list |-> {}] /\ req = [r \in Requests |-> NewRequest] /\ link = [c \in Conns |-> NewLink]
      /\ delivered = <<>> /\ crashed = FALSE
  BY DEF Init
<1>2. PICK first \in {1, 2} : clusterd = [register_name |-> 0, register_name_cache |-> 0, calls |-> {},
                                          listening |-> TRUE, first_id |-> first]
  BY DEF Init
<1>3. \A V : <<>> \in Tables(V)
  BY EmptyTable
<1>4. DOMAIN <<>> = {}
  BY EmptyTable
<1>5. channel \in Channels
  <2>1. <<>> \in Tables(Requests)
    BY <1>3
  <2> QED
    BY <1>1, <2>1 DEF Channels
<1>6. NewLink \in Links
  <2>1. <<>> \in Seq(RequestPackets) /\ <<>> \in Seq(ResponsePackets) /\ <<>> \in Tables(Large)
    BY <1>3
  <2> QED
    BY <2>1 DEF Links, NewLink
<1>7. req \in [Requests -> RequestRecords]
  <2>1. <<>> \in Seq(Parts) /\ <<>> \in Bytes /\ QUERY \in Addresses /\ 0 \in SessionsOr0
    BY WireAssumption DEF Bytes, Addresses, SessionsOr0
  <2>2. \A r \in Requests : NoResult \in Results
    BY <1>1 DEF Results, NewRequest
  <2>3. \A r \in Requests : NewRequest \in RequestRecords
    BY <2>1, <2>2 DEF RequestRecords, NewRequest
  <2> QED
    BY <1>1, <2>3
<1>8. clusterd \in Daemons
  BY <1>2 DEF Daemons
<1>9. TypeInv
  <2>1. session \in Sessions
    BY <1>1, ClusterAssumption DEF Sessions
  <2>2. <<>> \in Seq(Deliveries)
    OBVIOUS
  <2> QED
    BY <1>1, <1>5, <1>6, <1>7, <1>8, <2>1, <2>2 DEF TypeInv, Wakeups
<1>10. \A r \in Requests : req[r] = NewRequest /\ req[r].state = "none" /\ req[r].result = NoResult
  BY <1>1 DEF NewRequest
<1>11. \A c \in Conns : /\ link[c].up = <<>> /\ link[c].down = <<>> /\ link[c].client = FALSE /\ link[c].server = FALSE
                        /\ link[c].cut = FALSE /\ link[c].large_request = <<>>
  BY <1>1 DEF NewLink
<1>12. /\ channel.conn_id = 0 /\ channel.connecting = None /\ channel.opened = 0 /\ channel.waiting = {}
       /\ channel.thread = <<>> /\ clusterd.calls = {}
  BY <1>1, <1>2
<1>13. MadeInv
  <2>1. \A r \in Requests : req[r].state # "connect"
    BY <1>10
  <2> QED
    BY <1>10, <2>1, Zenon DEF MadeInv
<1>14. LinkInv
  BY <1>4, <1>11, <1>12 DEF LinkInv, Conns
<1>15. ChannelInv
  <2>1. Who = {} /\ Marked = {} /\ ~Connected /\ ~Connecting /\ wakeup.queue \cap wakeup.list = {}
    BY <1>1, <1>12 DEF Who, Marked, Connected, Connecting
  <2> QED
    BY <1>10, <1>12, <2>1 DEF ChannelInv
<1>16. ThreadInv
  BY <1>4, <1>12 DEF ThreadInv
<1>17. UpInv
  BY <1>4, <1>11 DEF UpInv, UpOf, Stream
<1>18. OnceInv
  <2>1. Len(delivered) = 0 /\ \A c \in Conns : Len(link[c].up) = 0
    BY <1>1, <1>11
  <2> QED
    BY <2>1 DEF OnceInv
<1>19. CallInv
  BY <1>12 DEF CallInv
<1> QED
  BY <1>9, <1>13, <1>14, <1>15, <1>16, <1>17, <1>18, <1>19 DEF Inv

\* A step that changes nothing keeps Inv.
LEMMA StutterInv ==
  ASSUME Inv, UNCHANGED vars
  PROVE  Inv' /\ \A q \in Requests : Kept(q)
<1>1. TypeInv /\ LinkInv
  BY DEF Inv
<1>2. /\ session' = session /\ channel' = channel /\ req' = req /\ delivered' = delivered /\ crashed' = crashed
      /\ link' = link /\ clusterd' = clusterd /\ wakeup' = wakeup
  BY DEF vars
<1>3. \A c \in Conns : LinkOf(c)'
  BY <1>1, <1>2, LinkInvIs DEF LinkOf
<1>4. link' \in [Conns -> Links] /\ clusterd' \in Daemons /\ clusterd'.calls \subseteq clusterd.calls
  BY <1>1, <1>2 DEF TypeInv
<1> QED
  BY <1>2, <1>3, <1>4, QuietKeeps

\* Every step keeps Inv.
LEMMA NextInv ==
  ASSUME Inv, [Next]_vars
  PROVE  Inv' /\ \A q \in Requests : Kept(q)
<1>1. CASE \E r \in Requests, addr \in Addresses, size \in Sizes, is_push \in BOOLEAN : Request(r, addr, size, is_push)
  BY <1>1, RequestKeeps
<1>2. CASE \E c \in Conns : ConnectOk(c) \/ OpenedEnds(c)
  BY <1>2, OpensKeeps
<1>3. CASE \E c \in Conns : ClientClose(c)
  <2>1. Disconnects
    BY <1>3 DEF ClientClose, Disconnects, TakesMessage
  <2> QED
    BY <2>1, DisconnectsKeeps
<1>4. CASE \E c \in Conns : Receive(c)
  BY <1>4, ReceiveKeeps
<1>5. CASE ConnectFails \/ OtherMessage
  BY <1>5, EventKeeps
<1>14. CASE \E co \in wakeup.list : Resume(co)
  BY <1>14, ResumeKeeps
<1>6. CASE CloseChannel
  <2>1. Disconnects
    BY <1>6 DEF CloseChannel, Disconnects, TakesMessage
  <2> QED
    BY <2>1, DisconnectsKeeps
<1>7. CASE ChangeHost
  BY <1>7, ChangeHostKeeps
<1>8. CASE \E c \in Conns : Break(c)
  BY <1>8, BreakKeeps
<1>9. CASE \E c \in Conns : Deliver(c)
  BY <1>9, DeliverKeeps
<1>10. CASE \E c \in Conns : ServerClose(c)
  BY <1>10, ServerCloseKeeps
<1>11. CASE \E call \in clusterd.calls : Answer(call, FALSE, 1) \/ \E size \in ReplySizes : Answer(call, TRUE, size)
  <2>1. TypeInv /\ MadeInv /\ CallInv
    BY DEF Inv
  <2>0. PICK call \in clusterd.calls, ok \in BOOLEAN : \E size : (ok => size \in ReplySizes) /\ Answer(call, ok, size)
    BY <1>11
  <2>2. PICK size : (ok => size \in ReplySizes) /\ Answer(call, ok, size)
    BY <2>0
  <2>3. PICK r \in Requests, m \in Replies : Answers(call, r, ok, m)
    BY <2>1, <2>2, AnswerIs
  <2>4. UNCHANGED <<session, channel, wakeup, req, delivered, crashed>>
    BY <2>1, <2>2, AnswerIs
  <2> QED
    BY <2>3, <2>4, AnswerKeeps
<1>12. CASE \E handle \in Handles \cup {0} : Rename(handle)
  BY <1>12, RenameKeeps
<1>13. CASE UNCHANGED vars
  BY <1>13, StutterInv
<1> QED
  BY <1>1, <1>2, <1>3, <1>4, <1>5, <1>6, <1>7, <1>8, <1>9, <1>10, <1>11, <1>12, <1>13, <1>14 DEF Next

\* packrequest, read_loop, dispatch_request, channel:request, dispatch_by_session: what is on
\* its way to a node consists of the packets of whole requests, each once and in their
\* order, whatever connections are lost; the parts that clusterd keeps of a large request
\* are a beginning of it; and a request is in the channel's table or list, or is marked,
\* while it waits.
THEOREM InvHolds == Spec => []Inv
<1>1. Init => Inv
  BY InitInv
<1>2. Inv /\ [Next]_vars => Inv'
  BY NextInv
<1> QED
  BY <1>1, <1>2, PTL DEF Spec

-------------------------------------------------------------------------------
(* What services get.                                                      *)

\* Inv says what services get.
LEMMA InvArrives ==
  ASSUME Inv
  PROVE  ArrivesAsSent
<1>1. TypeInv /\ MadeInv /\ UpInv /\ OnceInv
  BY DEF Inv
<1>2. ASSUME NEW i \in 1 .. Len(delivered)
      PROVE  \E r \in Requests :
               /\ req[r].msg = delivered[i].msg /\ req[r].is_push = delivered[i].is_push
               /\ isname(req[r].addr) \/ req[r].addr = delivered[i].handle
               /\ \A j \in 1 .. i - 1 : delivered[j].msg # delivered[i].msg
  <2>1. PICK r \in Requests :
               /\ IsSent(r) /\ req[r].msg = delivered[i].msg /\ req[r].is_push = delivered[i].is_push
               /\ isname(req[r].addr) \/ req[r].addr = delivered[i].handle
    BY <1>1 DEF OnceInv
  <2>2. ASSUME NEW j \in 1 .. i - 1 PROVE delivered[j].msg # delivered[i].msg
    <3>1. j \in 1 .. Len(delivered) /\ j # i
      <4>1. Len(delivered) \in Nat
        BY Z3, <1>1 DEF TypeInv
      <4> QED
        BY <4>1
    <3> QED
      BY <1>1, <3>1 DEF OnceInv
  <2> QED
    BY <2>1, <2>2
<1>3. ASSUME NEW c \in Conns, NEW s \in DOMAIN link[c].large_request
      PROVE  \E r \in Requests :
               LET part == link[c].large_request[s]
                   got == FlattenSeq([i \in 1 .. Len(part.parts) |-> part.parts[i].str])
               IN /\ req[r].session = s /\ req[r].addr = part.addr /\ req[r].is_push = part.is_push
                  /\ IsPrefix(got, req[r].msg)
  <2>1. UpOf(c)
    BY <1>1 DEF UpInv
  <2>2. link[c].up # <<>> /\ ~Starts(link[c].up[1])
    BY <1>3, <2>1 DEF UpOf
  <2>3. PICK r \in Requests : \E k \in 2 .. Len(Packets(r)) :
          IsSent(r) /\ RunAt(link[c].up, 1, Packets(r), k) /\ Assembling(link[c].large_request, r, k)
    BY <2>1, <2>2 DEF UpOf
  <2>4. PICK k \in 2 .. Len(Packets(r)) : IsSent(r) /\ Assembling(link[c].large_request, r, k)
    BY Zenon, <2>3
  <2> DEFINE part == link[c].large_request[s]
             got == FlattenSeq([i \in 1 .. Len(part.parts) |-> part.parts[i].str])
             n == (k - 2) * MULTI_PART
  <2>5. s = req[r].session /\ part.addr = req[r].addr /\ part.is_push = req[r].is_push /\ got = SubSeq(req[r].msg, 1, n)
    BY Zenon, <2>4 DEF Assembling
  <2>6. IsPrefix(got, req[r].msg)
    <3>1. /\ IsMade(r) /\ req[r].msg \in Bytes /\ req[r].msg # <<>> /\ Len(req[r].msg) \in Nat
      BY <1>1, <2>4, MadeIs DEF IsSent, IsMade
    <3>2. Len(Packets(r)) = PartCount(Len(req[r].msg)) + 1 /\ PartCount(Len(req[r].msg)) \in Nat
      <4>1. IsLarge(r)
        <5>1. ~IsLarge(r) => Len(Packets(r)) = 1
          BY <1>1, <3>1, PacketsAre
        <5> QED
          BY <5>1
      <4> QED
        BY <1>1, <3>1, <4>1, PacketsAre
    <3>3. k - 1 \in 1 .. PartCount(Len(req[r].msg))
      <4> DEFINE p == Len(Packets(r))
      <4>1. k \in 2 .. p /\ p = PartCount(Len(req[r].msg)) + 1
        BY <3>2
      <4> HIDE DEF p
      <4> QED
        BY <3>2, <4>1
    <3>4. ((k - 1) - 1) * MULTI_PART \in Nat /\ ((k - 1) - 1) * MULTI_PART < ChunkEnd(req[r].msg, k - 1)
          /\ ChunkEnd(req[r].msg, k - 1) <= Len(req[r].msg) /\ ChunkEnd(req[r].msg, k - 1) \in Nat
      BY <3>1, <3>3, ChunkIs
    <3>5. (k - 1) - 1 = k - 2
      BY <3>3
    <3> HIDE DEF n, got
    <3>6. n \in Nat /\ n <= Len(req[r].msg)
      <4>1. n = ((k - 1) - 1) * MULTI_PART
        BY <3>5 DEF n
      <4> DEFINE e == ChunkEnd(req[r].msg, k - 1)
                 l == Len(req[r].msg)
      <4>2. n \in Nat /\ n < e /\ e <= l /\ e \in Nat /\ l \in Nat
        BY <3>1, <3>4, <4>1
      <4> HIDE DEF e, l
      <4>3. n <= l
        BY <4>2
      <4> QED
        BY <4>2, <4>3 DEF l
    <3> DEFINE m == req[r].msg
    <3>7. m \in Seq(Byte) /\ got = SubSeq(m, 1, n) /\ n <= Len(m)
      BY <2>5, <3>1, <3>6 DEF Bytes
    <3> HIDE DEF m
    <3>8. Len(got) = n /\ SubSeq(m, 1, Len(got)) = got
      BY <3>6, <3>7
    <3>9. IsPrefix(got, m)
      BY <3>6, <3>7, <3>8 DEF IsPrefix
    <3> QED
      BY <3>9 DEF m
  <2> QED
    BY Zenon, <2>5, <2>6
<1> QED
  BY <1>2, <1>3 DEF ArrivesAsSent

\* packrequest, unpackrequest, append, dispatch_request: what a service gets is the whole
\* payload of one request, of its kind, at most once.  This needs no assumption: sessions
\* may come round while they are in use.
THEOREM ArrivesAsSentHolds == Spec => []ArrivesAsSent
<1>1. Inv => ArrivesAsSent
  BY InvArrives
<1> QED
  BY <1>1, InvHolds, PTL

-------------------------------------------------------------------------------
(* Answers: what is on its way to the sender.                              *)

\* Responses that packets of a connection are parts of, and those with which whoever waits
\* for their session gets its own.
AnyBlocks ==
  {b \in Seq(ResponsePackets) : \E s \in SessionsOr0, m \in Replies :
     b = lpackresponse(s, FALSE, m) \/ b = lpackresponse(s, TRUE, m)}

\* The blocks of the responses that answer whoever waits under their session.
OwnBlocks ==
  {b \in Seq(ResponsePackets) : \E s \in SessionsOr0, m \in Replies :
     \/ b = lpackresponse(s, FALSE, m)
     \/ b = lpackresponse(s, TRUE, m) /\ \A r \in Requests : Awaits(r, s) => IsAnswer(r, m)}

\* What is under way to clusterd with the session of a request that waits is that request's.
UpOwn(c) ==
  \A i \in 1 .. Len(link[c].up) : \A r \in Requests :
    Awaits(r, link[c].up[i].session) => \E k \in 1 .. Len(Packets(r)) : link[c].up[i] = Packets(r)[k]

\* A call with the session of a request that waits is that request's.
CallOwn(c) ==
  \A call \in clusterd.calls : \A r \in Requests :
    call.conn = c /\ Awaits(r, call.session) => call.msg = req[r].msg /\ req[r].addr # QUERY

\* What is under way to the sender answers whoever waits.
DownOwn(c) ==
  /\ Stream(link[c].down, OwnBlocks)
  /\ link[c].down # <<>> /\ ~Starts(link[c].down[1]) =>
       \E b \in AnyBlocks : \E k \in 2 .. Len(b) : RunAt(link[c].down, 1, b, k)

\* r has the parts of its response that came, and their size.
InMiddle(c, r) ==
  \E m \in Replies : \E k \in 2 .. Len(lpackresponse(req[r].session, TRUE, m)) :
    /\ IsAnswer(r, m) /\ RunAt(link[c].down, 1, lpackresponse(req[r].session, TRUE, m), k)
    /\ Gathered(req[r].result_data, m, k)

\* Who waits has gathered the beginning of its answer: nothing before the response began.
GatherOf(c) ==
  \A r \in Requests : req[r].state = "wait" =>
    /\ MidBlock(c, req[r].session) => InMiddle(c, r)
    /\ UnderWay(c, req[r].session) /\ ~MidBlock(c, req[r].session) => req[r].result_data = <<>>

\* Everything on connection c with the session of a request that waits is about that request.
OwnOf(c) == UpOwn(c) /\ CallOwn(c) /\ DownOwn(c) /\ GatherOf(c)

\* Every block of responses is a whole one, of one session.
LEMMA AnyBlockIs ==
  ASSUME NEW b \in AnyBlocks
  PROVE  /\ b \in Seq(ResponsePackets) /\ WholeBlock(b) /\ b # <<>>
         /\ \A j, k \in 1 .. Len(b) : b[j].session = b[k].session
<1>1. PICK s \in SessionsOr0, m \in Replies : b = lpackresponse(s, FALSE, m) \/ b = lpackresponse(s, TRUE, m)
  BY DEF AnyBlocks
<1>2. m \in Bytes /\ m # <<>>
  BY RepliesAre
<1>3. PICK ok \in BOOLEAN : b = lpackresponse(s, ok, m)
  BY <1>1
<1>4. /\ b \in Seq(ResponsePackets) /\ Len(b) >= 1 /\ Starts(b[1])
      /\ \A k \in 2 .. Len(b) : ~Starts(b[k])
      /\ \A k \in 1 .. Len(b) : b[k].session = s
  BY <1>2, <1>3, ResponseBlockStarts
<1>5. WholeBlock(b)
  BY <1>4, Zenon DEF WholeBlock
<1>6. b # <<>>
  BY <1>4
<1> QED
  BY <1>4, <1>5, <1>6

\* Responses that answer whoever waits are responses.
LEMMA OwnBlocksAre == OwnBlocks \subseteq AnyBlocks /\ OwnBlocks \in SUBSET Seq(ResponsePackets)
BY DEF OwnBlocks, AnyBlocks

\* Responses made of a session and a reply.
LEMMA BlockMade ==
  ASSUME NEW s \in SessionsOr0, NEW ok \in BOOLEAN, NEW m \in Replies
  PROVE  /\ lpackresponse(s, ok, m) \in AnyBlocks /\ lpackresponse(s, ok, m) \in Seq(ResponsePackets)
         /\ \A k \in 1 .. Len(lpackresponse(s, ok, m)) : lpackresponse(s, ok, m)[k].session = s
         /\ (ok = TRUE => \A r \in Requests : Awaits(r, s) => IsAnswer(r, m)) => lpackresponse(s, ok, m) \in OwnBlocks
<1>1. m \in Bytes /\ m # <<>>
  BY RepliesAre
<1>2. lpackresponse(s, ok, m) \in Seq(ResponsePackets)
      /\ \A k \in 1 .. Len(lpackresponse(s, ok, m)) : lpackresponse(s, ok, m)[k].session = s
  BY <1>1, ResponseBlockStarts
<1>3. CASE ok = TRUE
  BY <1>2, <1>3 DEF AnyBlocks, OwnBlocks
<1>4. CASE ok = FALSE
  BY <1>2, <1>4 DEF AnyBlocks, OwnBlocks
<1> QED
  BY <1>3, <1>4

-------------------------------------------------------------------------------
(* Steps after which nobody waits who did not before.                      *)

\* Nobody waits who did not before.
Stays ==
  \A r \in Requests : req'[r].state = "wait" =>
    /\ req[r].state = "wait" /\ req'[r].session = req[r].session /\ req'[r].addr = req[r].addr
    /\ req'[r].msg = req[r].msg /\ req'[r].is_push = req[r].is_push

\* Responses that answer whoever waits still do after a step after which nobody new
\* waits.
LEMMA OwnBlocksStay ==
  ASSUME Stays
  PROVE  OwnBlocks \subseteq OwnBlocks'
<1> SUFFICES ASSUME NEW b \in OwnBlocks PROVE b \in OwnBlocks'
  OBVIOUS
<1>1. PICK s \in SessionsOr0, m \in Replies :
     \/ b = lpackresponse(s, FALSE, m)
     \/ b = lpackresponse(s, TRUE, m) /\ \A r \in Requests : Awaits(r, s) => IsAnswer(r, m)
  BY DEF OwnBlocks
<1>2. ASSUME NEW r \in Requests, req'[r].state = "wait", req'[r].session = s, Awaits(r, s) => IsAnswer(r, m)
      PROVE  IF req'[r].addr = QUERY THEN \E h \in Handles : m = Payload("name", h, 1)
             ELSE \E size \in ReplySizes : m = Payload("service", r, size)
  <2>1. req[r].state = "wait" /\ req'[r].session = req[r].session /\ req'[r].addr = req[r].addr
    BY <1>2 DEF Stays
  <2> QED
    BY <1>2, <2>1 DEF Awaits, IsAnswer
<1>3. b \in Seq(ResponsePackets)
  BY DEF OwnBlocks
<1>4. \/ b = lpackresponse(s, FALSE, m)
      \/ b = lpackresponse(s, TRUE, m) /\ \A r \in Requests : Awaits(r, s)' => IsAnswer(r, m)'
  BY <1>1, <1>2 DEF Awaits, IsAnswer
<1> QED
  BY <1>3, <1>4 DEF OwnBlocks

\* UpOwn survives that packets are taken.
LEMMA UpOwnStays ==
  ASSUME Stays, NEW c, UpOwn(c),
         \A i \in 1 .. Len(link'[c].up) : \E j \in 1 .. Len(link[c].up) : link'[c].up[i] = link[c].up[j]
  PROVE  UpOwn(c)'
<1> SUFFICES ASSUME NEW i \in 1 .. Len(link'[c].up), NEW r \in Requests, Awaits(r, link[c].up[i].session)'
             PROVE  \E k \in 1 .. Len(Packets(r)') : link'[c].up[i] = Packets(r)'[k]
  BY DEF UpOwn
<1>1. PICK j \in 1 .. Len(link[c].up) : link'[c].up[i] = link[c].up[j]
  OBVIOUS
<1>2. /\ req[r].state = "wait" /\ req'[r].session = req[r].session /\ req'[r].addr = req[r].addr
      /\ req'[r].msg = req[r].msg /\ req'[r].is_push = req[r].is_push
  BY DEF Stays, Awaits
<1>3. Awaits(r, link[c].up[j].session)
  BY <1>1, <1>2 DEF Awaits
<1>4. Packets(r)' = Packets(r)
  BY <1>2 DEF Packets
<1>5. \E k \in 1 .. Len(Packets(r)) : link[c].up[j] = Packets(r)[k]
  BY Zenon, <1>3 DEF UpOwn
<1> QED
  BY Zenon, <1>1, <1>4, <1>5

\* CallOwn survives that calls end, or one begins that is of whoever waits.
LEMMA CallOwnStays ==
  ASSUME Stays, NEW c, CallOwn(c),
         \A call \in clusterd'.calls : call.conn = c =>
           \/ call \in clusterd.calls
           \/ \A r \in Requests : Awaits(r, call.session) => call.msg = req[r].msg /\ req[r].addr # QUERY
  PROVE  CallOwn(c)'
<1> SUFFICES ASSUME NEW call \in clusterd'.calls, NEW r \in Requests, call.conn = c, Awaits(r, call.session)'
             PROVE  call.msg = req'[r].msg /\ req'[r].addr # QUERY
  BY DEF CallOwn
<1>1. /\ req[r].state = "wait" /\ req'[r].session = req[r].session /\ req'[r].addr = req[r].addr
      /\ req'[r].msg = req[r].msg
  BY DEF Stays, Awaits
<1>2. Awaits(r, call.session)
  BY <1>1 DEF Awaits
<1> QED
  BY <1>1, <1>2 DEF CallOwn

\* Whole responses are written to the connection.
LEMMA DownOwnStays ==
  ASSUME TypeInv, NEW c \in Conns, DownOwn(c), OwnBlocks \subseteq OwnBlocks',
         NEW v \in Seq(ResponsePackets), link'[c].down = link[c].down \o v, v = <<>> \/ v \in OwnBlocks'
  PROVE  DownOwn(c)'
<1> DEFINE d == link[c].down
           w == link'[c].down
           B == OwnBlocks'
<1>1. d \in Seq(ResponsePackets) /\ w = d \o v
  BY DEF TypeInv, Links
<1>2. B \subseteq AnyBlocks /\ B \in SUBSET Seq(ResponsePackets)
  BY DEF OwnBlocks, AnyBlocks
<1>3. Stream(d, B)
  BY StreamGrows DEF DownOwn
<1>4. Stream(v, B) /\ (v = <<>> \/ Starts(v[1]))
  <2>1. CASE v = <<>>
    BY <2>1 DEF Stream
  <2>2. CASE v # <<>>
    <3>1. v \in B /\ WholeBlock(v)
      BY <1>2, <2>2, AnyBlockIs
    <3> HIDE DEF B
    <3>2. Stream(v, B)
      BY <1>2, <3>1, BlockStream
    <3> QED
      BY <3>1, <3>2 DEF WholeBlock
  <2> QED
    BY <2>1, <2>2
<1>5. d # <<>> /\ ~Starts(d[1]) => \E b \in AnyBlocks : \E k \in 2 .. Len(b) : RunAt(d, 1, b, k)
  BY DEF DownOwn
<1>6. v = <<>> \/ v \in B
  OBVIOUS
<1> HIDE DEF d, w, B
<1>7. Stream(w, B)
  BY <1>1, <1>2, <1>3, <1>4, StreamConcat
<1>8. ASSUME w # <<>>, ~Starts(w[1])
      PROVE  \E b \in AnyBlocks : \E k \in 2 .. Len(b) : RunAt(w, 1, b, k)
  <2>1. d # <<>>
    <3>1. SUFFICES ASSUME d = <<>> PROVE FALSE
      OBVIOUS
    <3>2. w = v
      BY <1>1, <3>1
    <3> QED
      BY <1>4, <1>8, <3>2
  <2>2. 1 \in 1 .. Len(d) /\ w[1] = d[1]
    BY <1>1, <2>1
  <2>3. PICK b \in AnyBlocks : \E k \in 2 .. Len(b) : RunAt(d, 1, b, k)
    BY <1>5, <1>8, <2>1, <2>2
  <2>4. PICK k \in 2 .. Len(b) : RunAt(d, 1, b, k)
    BY <2>3
  <2>5. RunAt(w, 1, b, k)
    BY <1>1, <1>4, <2>2, <2>4, AnyBlockIs, RunConcat
  <2> QED
    BY <2>4, <2>5
<1> QED
  BY <1>7, <1>8 DEF DownOwn, w, B

\* GatherOf survives that whole responses are written.
LEMMA GatherStays ==
  ASSUME TypeInv, Stays, NEW c \in Conns, GatherOf(c),
         \A r \in Requests : req'[r].state = "wait" => req'[r].result_data = req[r].result_data,
         NEW v \in Seq(ResponsePackets), link'[c].down = link[c].down \o v, v = <<>> \/ v \in AnyBlocks,
         \A s : UnderWay(c, s)' => UnderWay(c, s)
  PROVE  GatherOf(c)'
<1> DEFINE d == link[c].down
           w == link'[c].down
<1>1. d \in Seq(ResponsePackets) /\ w = d \o v
  BY DEF TypeInv, Links
<1>2. v = <<>> \/ Starts(v[1])
  BY AnyBlockIs DEF WholeBlock
<1> HIDE DEF d, w
<1>3. ASSUME d # <<>>
      PROVE  w # <<>> /\ w[1] = d[1] /\ 1 \in 1 .. Len(d)
  BY <1>1, <1>3
<1>4. ASSUME d = <<>>, w # <<>>
      PROVE  Starts(w[1])
  <2>1. w = v
    BY <1>1, <1>4
  <2> QED
    BY <1>2, <1>4, <2>1
<1> SUFFICES ASSUME NEW r \in Requests, req'[r].state = "wait"
             PROVE  /\ MidBlock(c, req[r].session)' => InMiddle(c, r)'
                    /\ UnderWay(c, req[r].session)' /\ ~MidBlock(c, req[r].session)' => req'[r].result_data = <<>>
  BY DEF GatherOf
<1>5. /\ req[r].state = "wait" /\ req'[r].session = req[r].session /\ req'[r].addr = req[r].addr
      /\ req'[r].result_data = req[r].result_data
  BY DEF Stays
<1>6. /\ MidBlock(c, req[r].session) => InMiddle(c, r)
      /\ UnderWay(c, req[r].session) /\ ~MidBlock(c, req[r].session) => req[r].result_data = <<>>
  BY <1>5 DEF GatherOf
<1>7. MidBlock(c, req[r].session)' <=> MidBlock(c, req[r].session)
  <2>1. MidBlock(c, req[r].session)' <=> w # <<>> /\ ~Starts(w[1]) /\ w[1].session = req[r].session
    BY <1>5 DEF MidBlock, w
  <2>2. MidBlock(c, req[r].session) <=> d # <<>> /\ ~Starts(d[1]) /\ d[1].session = req[r].session
    BY DEF MidBlock, d
  <2> QED
    BY <1>3, <1>4, <2>1, <2>2
<1>8. UnderWay(c, req[r].session)' => UnderWay(c, req[r].session)
  BY <1>5 DEF UnderWay
<1>9. ASSUME MidBlock(c, req[r].session), InMiddle(c, r)
      PROVE  InMiddle(c, r)'
  <2> DEFINE s == req[r].session
  <2>1. PICK m \in Replies : \E k \in 2 .. Len(lpackresponse(s, TRUE, m)) :
          /\ IsAnswer(r, m) /\ RunAt(d, 1, lpackresponse(s, TRUE, m), k)
          /\ Gathered(req[r].result_data, m, k)
    BY <1>9 DEF InMiddle, d
  <2>2. PICK k \in 2 .. Len(lpackresponse(s, TRUE, m)) :
          /\ IsAnswer(r, m) /\ RunAt(d, 1, lpackresponse(s, TRUE, m), k)
          /\ Gathered(req[r].result_data, m, k)
    BY <2>1
  <2>3. d # <<>>
    BY <1>9 DEF MidBlock, d
  <2>4. 1 \in 1 .. Len(d)
    BY <1>3, <2>3
  <2>5. lpackresponse(s, TRUE, m) \in Seq(ResponsePackets)
    <3>1. s \in SessionsOr0
      BY DEF TypeInv, RequestRecords
    <3> QED
      BY <3>1, BlockMade
  <2> DEFINE b == lpackresponse(s, TRUE, m)
  <2> HIDE DEF b
  <2>6. RunAt(w, 1, b, k)
    <3>1. RunAt(d, 1, b, k) /\ b \in Seq(ResponsePackets)
      BY <2>2, <2>5 DEF b
    <3> QED
      BY <1>1, <1>2, <2>4, <3>1, RunConcat
  <2>7. IsAnswer(r, m)'
    BY <1>5, <2>2 DEF IsAnswer
  <2>8. RunAt(w, 1, lpackresponse(s, TRUE, m), k) /\ Gathered(req[r].result_data, m, k)
    BY <2>2, <2>6 DEF b
  <2>9. /\ s' = s /\ req'[r].result_data = req[r].result_data
    BY <1>5
  <2>10. \E n \in Replies : \E j \in 2 .. Len(lpackresponse(s', TRUE, n)) :
          /\ IsAnswer(r, n)' /\ RunAt(w, 1, lpackresponse(s', TRUE, n), j)
          /\ Gathered(req'[r].result_data, n, j)
    BY <2>2, <2>7, <2>8, <2>9
  <2> QED
    BY <2>10 DEF InMiddle, w
<1> QED
  BY <1>5, <1>6, <1>7, <1>8, <1>9

-------------------------------------------------------------------------------
(* Steps of the remote node and of the network.                            *)

\* Where the sessions under way after a step come from.
LEMMA UnderWayFrom ==
  ASSUME NEW c, NEW s,
         \A i \in 1 .. Len(link'[c].up) : UnderWay(c, link'[c].up[i].session),
         \A i \in 1 .. Len(link'[c].down) : UnderWay(c, link'[c].down[i].session),
         \A call \in clusterd'.calls : call.conn = c => UnderWay(c, call.session),
         UnderWay(c, s)'
  PROVE  UnderWay(c, s)
<1>1. CASE \E i \in 1 .. Len(link'[c].up) : link'[c].up[i].session = s
  BY <1>1
<1>2. CASE \E i \in 1 .. Len(link'[c].down) : link'[c].down[i].session = s
  BY <1>2
<1>3. CASE \E call \in clusterd'.calls : call.conn = c /\ call.session = s
  BY <1>3
<1> QED
  BY <1>1, <1>2, <1>3 DEF UnderWay

\* An element of two sequences in a row is one of the first or of the second.
LEMMA ConcatMember ==
  ASSUME NEW T, NEW u \in Seq(T), NEW v \in Seq(T), NEW i \in 1 .. Len(u \o v)
  PROVE  (i \in 1 .. Len(u) /\ (u \o v)[i] = u[i]) \/ (\E k \in 1 .. Len(v) : (u \o v)[i] = v[k])
<1> DEFINE w == u \o v
<1>1. /\ Len(w) = Len(u) + Len(v) /\ Len(u) \in Nat /\ Len(v) \in Nat
      /\ \A j \in 1 .. Len(u) : w[j] = u[j]
      /\ \A j \in 1 .. Len(u) + Len(v) : j > Len(u) => w[j] = v[j - Len(u)]
  OBVIOUS
<1>2. i \in 1 .. Len(w)
  OBVIOUS
<1> HIDE DEF w
<1>3. CASE i <= Len(u)
  BY <1>1, <1>2, <1>3 DEF w
<1>4. CASE i > Len(u)
  <2>1. i - Len(u) \in 1 .. Len(v) /\ w[i] = v[i - Len(u)]
    BY <1>1, <1>2, <1>4
  <2> QED
    BY <2>1 DEF w
<1> QED
  BY <1>1, <1>2, <1>3, <1>4

\* clusterd writes, or does not, the response m to something with the session s.
Writes(c, s, ok, m) ==
  link'[c].down = link[c].down \/ link'[c].down = link[c].down \o lpackresponse(s, ok, m)

\* What Deliver does with the k-th packet of r.
Serves(c, r, s) ==
  \/ /\ clusterd'.calls = clusterd.calls
     /\ \E ok \in BOOLEAN, m \in Replies : /\ ok = TRUE => IsAnswer(r, m) /\ Head(link[c].up) = SmallOf(r)
                                           /\ Writes(c, s, ok, m)
  \/ /\ link'[c].down = link[c].down
     /\ clusterd'.calls \subseteq clusterd.calls \cup {CallOf(c, r)}
     /\ clusterd'.calls \subseteq clusterd.calls \/ s = req[r].session
     /\ Head(link[c].up) = SmallOf(r) /\ req[r].addr # QUERY

\* dispatch_request touches one connection, with an answer, a call, or a message.
LEMMA DeliverIs ==
  ASSUME TypeInv, MadeInv, UpInv, NEW c \in Conns, Deliver(c)
  PROVE  /\ UNCHANGED <<session, channel, req, crashed>>
         /\ link[c].up # <<>> /\ link'[c].up = Tail(link[c].up) /\ link'[c].client = link[c].client
         /\ \A d \in Conns : d # c => link'[d] = link[d]
         /\ \E r \in Requests : IsMade(r) /\ Serves(c, r, Head(link[c].up).session)
<1>2. /\ link[c].server /\ link[c].up # <<>>
      /\ session' = session /\ channel' = channel /\ req' = req /\ crashed' = crashed
  BY DeliverCases
<1>3. PICK r \in Requests : \E k \in 1 .. Len(Packets(r)) :
              /\ Heads(c, r, k)
              /\ \/ k = 1 /\ AnswersItself(c, r)
                 \/ k = 1 /\ HandsOver(c, r)
                 \/ k = 1 /\ OpensLarge(c, r)
                 \/ k > 1 /\ k < Len(Packets(r)) /\ AddsPart(c, r, k)
                 \/ k > 1 /\ k = Len(Packets(r)) /\ RefusesLarge(c, r)
  BY DeliverCases
<1>4. PICK k \in 1 .. Len(Packets(r)) :
              /\ Heads(c, r, k)
              /\ \/ k = 1 /\ AnswersItself(c, r)
                 \/ k = 1 /\ HandsOver(c, r)
                 \/ k = 1 /\ OpensLarge(c, r)
                 \/ k > 1 /\ k < Len(Packets(r)) /\ AddsPart(c, r, k)
                 \/ k > 1 /\ k = Len(Packets(r)) /\ RefusesLarge(c, r)
  BY <1>3
<1>5. IsMade(r) /\ IsSent(r) /\ RunAt(link[c].up, 1, Packets(r), k)
  BY <1>4 DEF Heads, IsSent, IsMade
<1>6. /\ Packets(r) \in Seq(RequestPackets) /\ link[c].up \in Seq(RequestPackets)
      /\ link[c].large_request \in Tables(Large) /\ req[r].session \in Sessions /\ req[r].is_push \in BOOLEAN
      /\ req[r].addr \in Addresses
  BY <1>5, PacketsAre, MadeIs DEF TypeInv, Links
<1>7. Head(link[c].up) = Packets(r)[k]
  BY <1>2, <1>5, <1>6, HeadNext
<1> DEFINE s == req[r].session
           large == link[c].large_request
           head == Head(link[c].up)
           Rest == /\ link'[c].up = Tail(link[c].up) /\ link'[c].client = link[c].client
                   /\ \A d \in Conns : d # c => link'[d] = link[d]
<1>8. ASSUME ~IsLarge(r), k = 1 PROVE head = SmallOf(r) /\ head.session = WireSession(r)
  <2>1. head = SmallOf(r)
    BY <1>5, <1>7, <1>8, PacketsAre
  <2> QED
    BY <2>1 DEF SmallOf
<1>9. ASSUME k = 1, AnswersItself(c, r) PROVE Rest /\ Serves(c, r, head.session)
  <2>1. PICK ok \in BOOLEAN, m \in Replies :
          /\ ok => req[r].addr = QUERY /\ IsAnswer(r, m)
          /\ link' = Respond(Taken(c), c, lpackresponse(WireSession(r), ok, m))
    BY <1>9 DEF AnswersItself
  <2>2. WireSession(r) \in SessionsOr0
    BY <1>6, WireAssumption DEF WireSession, Sessions, SessionsOr0
  <2> DEFINE packets == lpackresponse(WireSession(r), ok, m)
  <2>3. packets \in Seq(ResponsePackets) /\ link' = Respond(TakenWith(c, large), c, packets)
    BY <1>2, <2>1, <2>2, RespondBlock, TakenSame
  <2> HIDE DEF packets
  <2>4. Rest /\ (link'[c].down = link[c].down \/ link'[c].down = link[c].down \o packets)
    <3>1. /\ \A d \in Conns : d # c => link'[d] = link[d]
          /\ link'[c].up = Tail(link[c].up) /\ link'[c].client = link[c].client
          /\ link'[c].down = IF link[c].server /\ ~link[c].cut /\ clusterd.listening THEN link[c].down \o packets ELSE link[c].down
      BY <1>2, <1>6, <2>3, TakenRespond
    <3> QED
      BY <3>1
  <2>5. clusterd'.calls = clusterd.calls /\ head = SmallOf(r) /\ head.session = WireSession(r)
    BY <1>8, <1>9, CacheIs DEF AnswersItself
  <2>6. Writes(c, head.session, ok, m)
    BY <2>4, <2>5 DEF Writes, packets
  <2> HIDE DEF head
  <2>7. Serves(c, r, head.session)
    BY <2>1, <2>5, <2>6 DEF Serves, head
  <2> QED
    BY <2>4, <2>7
<1>10. ASSUME k = 1, HandsOver(c, r) PROVE Rest /\ Serves(c, r, head.session)
  <2>1. Rest /\ link'[c].down = link[c].down
    BY <1>2, <1>10, TakenIs DEF HandsOver
  <2>2. ~IsLarge(r) /\ req[r].addr # QUERY
    BY <1>10 DEF HandsOver
  <2>3. clusterd'.calls = IF req[r].is_push THEN clusterd.calls ELSE clusterd.calls \cup {CallOf(c, r)}
    <3> DEFINE new == IF req[r].is_push THEN clusterd.calls ELSE clusterd.calls \cup {CallOf(c, r)}
    <3>1. PICK name : clusterd' = [clusterd EXCEPT !.register_name_cache = name, !.calls = new]
      BY <1>10 DEF HandsOver
    <3> HIDE DEF new
    <3>2. clusterd'.calls = new
      BY <3>1 DEF TypeInv, Daemons
    <3> QED
      BY <3>2 DEF new
  <2>4. head = SmallOf(r) /\ head.session = WireSession(r)
    BY <1>8, <1>10, <2>2
  <2>5. clusterd'.calls \subseteq clusterd.calls \/ head.session = s
    BY <2>3, <2>4 DEF WireSession
  <2>6. Serves(c, r, head.session)
    BY <2>1, <2>2, <2>3, <2>4, <2>5 DEF Serves
  <2> QED
    BY <2>1, <2>6
<1>11. ASSUME k = 1, OpensLarge(c, r) PROVE Rest /\ Serves(c, r, head.session)
  <2> DEFINE new == [addr |-> req[r].addr, is_push |-> req[r].is_push, parts |-> <<>>]
             after == With(large, s, new)
  <2>1. clusterd' = clusterd /\ link' = TakenWith(c, after)
    BY <1>11 DEF OpensLarge
  <2>2. new \in Large
    <3>1. <<>> \in Seq(Parts)
      OBVIOUS
    <3> QED
      BY <1>6, <3>1 DEF Large
  <2> HIDE DEF new
  <2>3. after \in Tables(Large)
    BY <1>6, <2>2, LargeWith
  <2> HIDE DEF after
  <2>4. Rest /\ link'[c].down = link[c].down
    BY <1>2, <2>1, <2>3, TakenWithIs
  <2>5. Serves(c, r, head.session)
    BY <2>1, <2>4, RepliesAre DEF Serves, Writes
  <2> QED
    BY <2>4, <2>5
<1>12. ASSUME k > 1, AddsPart(c, r, k), k < Len(Packets(r)) PROVE Rest /\ Serves(c, r, head.session)
  <2> DEFINE chunk == Chunk(req[r].msg, k - 1)
             t == Append(large[s].parts, String(chunk))
             new == [large[s] EXCEPT !.parts = Append(@, String(chunk))]
             after == With(large, s, new)
  <2>1. /\ IsLarge(r) /\ clusterd' = clusterd /\ Assembling(large, r, k) /\ link' = TakenWith(c, after)
    BY <1>12 DEF AddsPart
  <2>2. chunk \in Bytes
    <3>1. /\ Len(Packets(r)) = PartCount(Len(req[r].msg)) + 1 /\ PartCount(Len(req[r].msg)) \in Nat
      BY <1>5, <2>1, PacketsAre
    <3>2. k - 1 \in 1 .. PartCount(Len(req[r].msg))
      BY <1>12, <3>1
    <3> QED
      BY Zenon, <1>5, <3>2, MadeIs, ChunkIs
  <2> HIDE DEF chunk
  <2>3. large[s] \in Large
    <3>1. DOMAIN large = {s}
      BY Zenon, <2>1 DEF Assembling
    <3> QED
      BY Zenon, <1>6, <3>1, TableIs
  <2>4. String(chunk) \in Parts
    BY <2>2 DEF String, Strings, Parts
  <2>5. t \in Seq(Parts)
    BY <2>3, <2>4 DEF Large
  <2>6. new = [large[s] EXCEPT !.parts = t]
    OBVIOUS
  <2> HIDE DEF t, new
  <2>7. new \in Large
    BY <2>3, <2>5, <2>6 DEF Large
  <2>8. after \in Tables(Large)
    BY <1>6, <2>7, LargeWith
  <2> HIDE DEF after
  <2>9. Rest /\ link'[c].down = link[c].down
    BY <1>2, <2>1, <2>8, TakenWithIs
  <2>10. Serves(c, r, head.session)
    BY <2>1, <2>9, RepliesAre DEF Serves, Writes
  <2> QED
    BY <2>9, <2>10
<1>13. ASSUME k > 1, RefusesLarge(c, r) PROVE Rest /\ Serves(c, r, head.session)
  <2> DEFINE after == Without(large, s)
             packets == lpackresponse(s, FALSE, Refusal)
  <2>1. /\ IsLarge(r) /\ clusterd' = clusterd /\ link' = Respond(TakenWith(c, after), c, packets)
    BY <1>13 DEF RefusesLarge
  <2>2. after \in Tables(Large)
    BY <1>6, LargeWithout
  <2>3. packets \in Seq(ResponsePackets)
    <3>1. s \in SessionsOr0
      BY <1>6 DEF Sessions, SessionsOr0
    <3> QED
      BY <3>1, RespondBlock, RepliesAre
  <2>4. head.session = s
    BY <1>4, <1>5, <1>7, <2>1, PacketsAre
  <2> HIDE DEF after, packets
  <2>5. Rest /\ (link'[c].down = link[c].down \/ link'[c].down = link[c].down \o packets)
    <3>1. /\ \A d \in Conns : d # c => link'[d] = link[d]
          /\ link'[c].up = Tail(link[c].up) /\ link'[c].client = link[c].client
          /\ link'[c].down = IF link[c].server /\ ~link[c].cut /\ clusterd.listening THEN link[c].down \o packets ELSE link[c].down
      BY <1>2, <2>1, <2>2, <2>3, TakenRespond
    <3> QED
      BY <3>1
  <2> HIDE DEF head
  <2>6. Writes(c, head.session, FALSE, Refusal)
    BY <2>4, <2>5 DEF Writes, packets
  <2>7. Serves(c, r, head.session)
    BY <2>1, <2>6, RepliesAre DEF Serves
  <2> QED
    BY <2>5, <2>7
<1> HIDE DEF head, Rest
<1>14. Rest /\ Serves(c, r, head.session)
  BY <1>4, <1>9, <1>10, <1>11, <1>12, <1>13
<1> QED
  BY <1>2, <1>5, <1>14 DEF Rest, head

\* What is on its way stays what it was when packets are taken and responses written.
LEMMA OwnStays ==
  ASSUME TypeInv, Stays, \A r \in Requests : req'[r].state = "wait" => req'[r].result_data = req[r].result_data,
         NEW c \in Conns, OwnOf(c),
         \A i \in 1 .. Len(link'[c].up) : \E j \in 1 .. Len(link[c].up) : link'[c].up[i] = link[c].up[j],
         NEW v \in Seq(ResponsePackets), link'[c].down = link[c].down \o v, v = <<>> \/ v \in OwnBlocks',
         \A call \in clusterd'.calls : call.conn = c =>
           \/ call \in clusterd.calls
           \/ \A r \in Requests : Awaits(r, call.session) => call.msg = req[r].msg /\ req[r].addr # QUERY,
         \A s : UnderWay(c, s)' => UnderWay(c, s)
  PROVE  OwnOf(c)'
<1>1. UpOwn(c) /\ CallOwn(c) /\ DownOwn(c) /\ GatherOf(c)
  BY DEF OwnOf
<1>2. UpOwn(c)'
  BY <1>1, UpOwnStays
<1>3. CallOwn(c)'
  BY <1>1, CallOwnStays
<1>4. DownOwn(c)'
  BY <1>1, OwnBlocksStay, DownOwnStays
<1>5. v = <<>> \/ v \in AnyBlocks
  BY DEF OwnBlocks, AnyBlocks
<1>6. GatherOf(c)'
  BY <1>1, <1>5, GatherStays
<1> QED
  BY <1>2, <1>3, <1>4, <1>6 DEF OwnOf

\* The same when nothing is written.
LEMMA OwnQuiet ==
  ASSUME TypeInv, Stays, \A r \in Requests : req'[r].state = "wait" => req'[r].result_data = req[r].result_data,
         NEW c \in Conns, OwnOf(c), link'[c].up = link[c].up \/ link'[c].up = <<>>,
         link'[c].down = link[c].down,
         \A call \in clusterd'.calls : call.conn = c => call \in clusterd.calls
  PROVE  OwnOf(c)' /\ \A s : UnderWay(c, s)' => UnderWay(c, s)
<1>1. \A i \in 1 .. Len(link'[c].up) : \E j \in 1 .. Len(link[c].up) : link'[c].up[i] = link[c].up[j]
  <2>1. Len(<<>>) = 0
    OBVIOUS
  <2> QED
    BY <2>1
<1>2. \A s : UnderWay(c, s)' => UnderWay(c, s)
  BY <1>1 DEF UnderWay
<1>3. link[c].down \o <<>> = link[c].down /\ <<>> \in Seq(ResponsePackets)
  <2>1. link[c].down \in Seq(ResponsePackets)
    BY DEF TypeInv, Links
  <2> QED
    BY <2>1
<1>4. OwnOf(c)'
  <2> DEFINE v == <<>>
  <2>1. v \in Seq(ResponsePackets) /\ link'[c].down = link[c].down \o v /\ v = <<>>
    BY <1>3
  <2> HIDE DEF v
  <2> QED
    BY <1>1, <1>2, <2>1, OwnStays
<1> QED
  BY <1>2, <1>4

\* A small packet whose session somebody waits with is that of who waits.
LEMMA SameRequest ==
  ASSUME TypeInv, MadeInv, NEW c \in Conns, UpOwn(c), link[c].up # <<>>, NEW r \in Requests, IsMade(r),
         Head(link[c].up) = SmallOf(r), NEW q \in Requests, Awaits(q, Head(link[c].up).session)
  PROVE  q = r
<1>1. link[c].up \in Seq(RequestPackets)
  BY DEF TypeInv, Links
<1>2. 1 \in 1 .. Len(link[c].up) /\ Head(link[c].up) = link[c].up[1]
  BY <1>1
<1>3. PICK k \in 1 .. Len(Packets(q)) : link[c].up[1] = Packets(q)[k]
  BY <1>2 DEF UpOwn
<1>4. IsMade(q)
  BY DEF Awaits, IsMade
<1>5. Packets(q)[k].type = "req" /\ Packets(q)[k].data = req[r].msg
  BY <1>2, <1>3 DEF SmallOf
<1>6. k = 1 /\ ~IsLarge(q)
  BY <1>4, <1>5, PacketsAre
<1>7. Packets(q)[1] = SmallOf(q)
  BY <1>4, <1>6, PacketsAre
<1>8. req[q].msg = req[r].msg
  BY <1>5, <1>6, <1>7 DEF SmallOf
<1> QED
  BY <1>4, <1>8, DataTells

\* dispatch_request brings no new session under way, and what it writes answers whoever
\* waits.
LEMMA DeliverOwn ==
  ASSUME TypeInv, MadeInv, UpInv, NEW c \in Conns, Deliver(c), NEW d \in Conns
  PROVE  /\ \A s : UnderWay(d, s)' => UnderWay(d, s)
         /\ OwnOf(d) => OwnOf(d)'
<1>1. /\ session' = session /\ channel' = channel /\ req' = req /\ crashed' = crashed
      /\ link[c].up # <<>> /\ link'[c].up = Tail(link[c].up) /\ link'[c].client = link[c].client
      /\ \A e \in Conns : e # c => link'[e] = link[e]
  BY DeliverIs
<1>2. PICK r \in Requests : IsMade(r) /\ Serves(c, r, Head(link[c].up).session)
  BY DeliverIs
<1>3. /\ Stays /\ \A q \in Requests : req'[q].state = "wait" => req'[q].result_data = req[q].result_data
  BY <1>1 DEF Stays
<1> DEFINE s0 == Head(link[c].up).session
<1>4. clusterd'.calls \subseteq clusterd.calls \/ (clusterd'.calls \subseteq clusterd.calls \cup {CallOf(c, r)} /\ s0 = req[r].session)
  BY <1>2 DEF Serves
<1>5. CASE d # c
  <2>1. link'[d].up = link[d].up /\ link'[d].down = link[d].down
    BY <1>1, <1>5
  <2>2. \A call \in clusterd'.calls : call.conn = d => call \in clusterd.calls
    BY <1>4, <1>5 DEF CallOf
  <2>3. \A s : UnderWay(d, s)' => UnderWay(d, s)
    BY <2>1, <2>2 DEF UnderWay
  <2>4. OwnOf(d) => OwnOf(d)'
    BY <1>3, <2>1, <2>2, OwnQuiet
  <2> QED
    BY <2>3, <2>4
<1>6. CASE d = c
  <2> DEFINE u == link[c].up
  <2>1. u \in Seq(RequestPackets) /\ u # <<>> /\ link[c].down \in Seq(ResponsePackets)
    BY <1>1 DEF TypeInv, Links
  <2>2. /\ 1 \in 1 .. Len(u) /\ Head(u) = u[1] /\ Head(u) \in RequestPackets
        /\ \A i \in 1 .. Len(Tail(u)) : i + 1 \in 1 .. Len(u) /\ Tail(u)[i] = u[i + 1]
    <3> HIDE DEF u
    <3> QED
      BY <2>1
  <2>3. UnderWay(c, s0) /\ s0 \in SessionsOr0
    <3>1. UnderWay(c, s0)
      BY <2>2 DEF UnderWay
    <3>2. Head(u).session \in SessionsOr0
      <4>1. Sessions \subseteq SessionsOr0
        BY WireAssumption DEF Sessions, SessionsOr0
      <4> HIDE DEF u
      <4> QED
        BY <2>2, <4>1 DEF RequestPackets
    <3> QED
      BY <3>1, <3>2
  <2>4. \A i \in 1 .. Len(link'[c].up) : \E j \in 1 .. Len(link[c].up) : link'[c].up[i] = link[c].up[j]
    BY <1>1, <2>2
  <2>5. PICK ok \in BOOLEAN, m \in Replies :
          /\ Writes(c, s0, ok, m) \/ link'[c].down = link[c].down
          /\ ok = TRUE => IsAnswer(r, m) /\ Head(link[c].up) = SmallOf(r)
    <3>1. CASE \E ok \in BOOLEAN, m \in Replies : /\ ok = TRUE => IsAnswer(r, m) /\ Head(link[c].up) = SmallOf(r)
                                                  /\ Writes(c, s0, ok, m)
      BY <3>1
    <3>2. CASE link'[c].down = link[c].down
      BY <3>2, RepliesAre
    <3> QED
      BY <1>2, <3>1, <3>2 DEF Serves
  <2> DEFINE b == lpackresponse(s0, ok, m)
  <2>6. b \in Seq(ResponsePackets) /\ \A k \in 1 .. Len(b) : b[k].session = s0
    <3> HIDE DEF s0
    <3> QED
      BY <2>3, BlockMade
  <2> HIDE DEF s0
  <2>7. PICK v \in Seq(ResponsePackets) : link'[c].down = link[c].down \o v /\ (v = <<>> \/ v = b)
    <3>1. link[c].down \o <<>> = link[c].down /\ <<>> \in Seq(ResponsePackets)
      BY <2>1
    <3> QED
      BY <2>5, <2>6, <3>1 DEF Writes
  <2>8. \A s : UnderWay(c, s)' => UnderWay(c, s)
    <3>1. \A i \in 1 .. Len(link'[c].up) : UnderWay(c, link'[c].up[i].session)
      BY <2>4 DEF UnderWay
    <3>2. ASSUME NEW i \in 1 .. Len(link'[c].down) PROVE UnderWay(c, link'[c].down[i].session)
      <4> DEFINE w == link'[c].down
                 e == link[c].down
      <4>1. w = e \o v /\ e \in Seq(ResponsePackets)
        BY <2>1, <2>7
      <4>2. \A k \in 1 .. Len(v) : v[k].session = s0
        <5>1. Len(<<>>) = 0
          OBVIOUS
        <5> HIDE DEF b
        <5> QED
          BY <2>6, <2>7, <5>1
      <4> HIDE DEF w, e
      <4>3. (i \in 1 .. Len(e) /\ w[i] = e[i]) \/ (\E k \in 1 .. Len(v) : w[i] = v[k])
        <5>0. i \in 1 .. Len(w)
          BY DEF w
        <5> QED
          BY <4>1, <5>0, ConcatMember
      <4>4. CASE i \in 1 .. Len(e) /\ w[i] = e[i]
        BY <4>4 DEF UnderWay, e, w
      <4>5. CASE \E k \in 1 .. Len(v) : w[i] = v[k]
        <5>1. w[i].session = s0
          BY <4>2, <4>5
        <5> QED
          BY <2>3, <5>1 DEF w
      <4> QED
        BY <4>3, <4>4, <4>5
    <3>3. \A call \in clusterd'.calls : call.conn = c => UnderWay(c, call.session)
      <4> SUFFICES ASSUME NEW call \in clusterd'.calls, call.conn = c PROVE UnderWay(c, call.session)
        OBVIOUS
      <4>1. call \in clusterd.calls \/ call.session = s0
        BY <1>4 DEF CallOf, s0
      <4> QED
        BY <2>3, <4>1 DEF UnderWay
    <3> QED
      BY <3>1, <3>2, <3>3, UnderWayFrom
  <2>9. ASSUME OwnOf(c) PROVE OwnOf(c)'
    <3>1. UpOwn(c)
      BY <2>9 DEF OwnOf
    <3>2. v = <<>> \/ v \in OwnBlocks'
      <4> SUFFICES ASSUME v = b PROVE v \in OwnBlocks'
        BY <2>7
      <4>1. ASSUME ok = TRUE, NEW q \in Requests, Awaits(q, s0) PROVE IsAnswer(q, m)
        <5>1. q = r
          BY <1>1, <1>2, <2>5, <3>1, <4>1, SameRequest DEF s0
        <5> QED
          BY <2>5, <4>1, <5>1
      <4>2. b \in OwnBlocks
        BY <2>3, <4>1, BlockMade
      <4> QED
        BY <1>3, <4>2, OwnBlocksStay
    <3>3. \A call \in clusterd'.calls : call.conn = c =>
           \/ call \in clusterd.calls
           \/ \A q \in Requests : Awaits(q, call.session) => call.msg = req[q].msg /\ req[q].addr # QUERY
      <4> SUFFICES ASSUME NEW call \in clusterd'.calls, call \notin clusterd.calls, NEW q \in Requests, Awaits(q, call.session)
                   PROVE  call.msg = req[q].msg /\ req[q].addr # QUERY
        OBVIOUS
      <4>1. call = CallOf(c, r) /\ s0 = req[r].session
        BY <1>4 DEF s0
      <4>2. call.msg = req[r].msg /\ call.session = s0
        BY <4>1 DEF CallOf
      <4>3. Head(link[c].up) = SmallOf(r) /\ req[r].addr # QUERY
        BY <1>2 DEF Serves
      <4>4. q = r
        BY <1>1, <1>2, <3>1, <4>2, <4>3, SameRequest DEF s0
      <4> QED
        BY <4>2, <4>3, <4>4
    <3> QED
      BY <1>3, <2>4, <2>7, <2>8, <2>9, <3>2, <3>3, OwnStays
  <2> QED
    BY <1>6, <2>8, <2>9
<1> QED
  BY <1>5, <1>6

\* A service's answer brings no new session under way, and answers whoever waits.
LEMMA AnswerOwn ==
  ASSUME TypeInv, MadeInv, NEW call \in clusterd.calls, NEW ok \in BOOLEAN, NEW r \in Requests, NEW m \in Replies,
         Answers(call, r, ok, m), req' = req, NEW d \in Conns
  PROVE  /\ \A s : UnderWay(d, s)' => UnderWay(d, s)
         /\ OwnOf(d) => OwnOf(d)'
<1>1. /\ clusterd' = [clusterd EXCEPT !.calls = @ \ {call}]
      /\ link' = Respond(link, call.conn, lpackresponse(call.session, ok, m))
      /\ IsSent(r) /\ call.msg = req[r].msg
      /\ ok => \E size \in ReplySizes : m = Payload("service", r, size)
  BY DEF Answers
<1>2. clusterd \in Daemons /\ call.conn \in Conns /\ call.session \in SessionsOr0 /\ link \in [Conns -> Links]
  BY DEF TypeInv, Daemons, Calls
<1>3. clusterd'.calls = clusterd.calls \ {call}
  BY <1>1, <1>2 DEF Daemons
<1> DEFINE c == call.conn
           b == lpackresponse(call.session, ok, m)
<1>4. b \in Seq(ResponsePackets) /\ \A k \in 1 .. Len(b) : b[k].session = call.session
  BY <1>2, BlockMade
<1> HIDE DEF c, b
<1>5. /\ \A e \in Conns : e # c => link'[e] = link[e]
      /\ link'[c].up = link[c].up
      /\ link'[c].down = IF link[c].server /\ ~link[c].cut /\ clusterd.listening THEN link[c].down \o b ELSE link[c].down
  <2>1. c \in Conns /\ link' = Respond(link, c, b)
    BY <1>1, <1>2 DEF c, b
  <2> QED
    BY <1>2, <1>4, <2>1, RespondIs
<1>6. Stays /\ \A q \in Requests : req'[q].state = "wait" => req'[q].result_data = req[q].result_data
  BY DEF Stays
<1>7. CASE d # c
  <2>1. link'[d].up = link[d].up /\ link'[d].down = link[d].down
    BY <1>5, <1>7
  <2>2. \A x \in clusterd'.calls : x \in clusterd.calls
    BY <1>3
  <2>3. \A s : UnderWay(d, s)' => UnderWay(d, s)
    BY <2>1, <2>2 DEF UnderWay
  <2>4. OwnOf(d) => OwnOf(d)'
    BY <1>6, <2>1, <2>2, OwnQuiet
  <2> QED
    BY <2>3, <2>4
<1>8. CASE d = c
  <2>1. link[d].down \in Seq(ResponsePackets)
    BY <1>2 DEF Links
  <2>2. PICK v \in Seq(ResponsePackets) : link'[d].down = link[d].down \o v /\ (v = <<>> \/ v = b)
    <3>1. link[d].down \o <<>> = link[d].down /\ <<>> \in Seq(ResponsePackets)
      BY <2>1
    <3> QED
      BY <1>4, <1>5, <1>8, <3>1
  <2>3. UnderWay(d, call.session)
    BY <1>8 DEF UnderWay, c
  <2>4. link'[d].up = link[d].up /\ \A x \in clusterd'.calls : x \in clusterd.calls
    BY <1>3, <1>5, <1>8
  <2>5. \A s : UnderWay(d, s)' => UnderWay(d, s)
    <3>1. ASSUME NEW i \in 1 .. Len(link'[d].down) PROVE UnderWay(d, link'[d].down[i].session)
      <4> DEFINE w == link'[d].down
                 e == link[d].down
      <4>1. w = e \o v /\ e \in Seq(ResponsePackets)
        BY <2>1, <2>2
      <4>2. \A k \in 1 .. Len(v) : v[k].session = call.session
        <5>1. Len(<<>>) = 0
          OBVIOUS
        <5> QED
          BY <1>4, <2>2, <5>1
      <4> HIDE DEF w, e
      <4>3. (i \in 1 .. Len(e) /\ w[i] = e[i]) \/ (\E k \in 1 .. Len(v) : w[i] = v[k])
        <5>0. i \in 1 .. Len(w)
          BY DEF w
        <5> QED
          BY <4>1, <5>0, ConcatMember
      <4>4. CASE i \in 1 .. Len(e) /\ w[i] = e[i]
        BY <4>4 DEF UnderWay, e, w
      <4>5. CASE \E k \in 1 .. Len(v) : w[i] = v[k]
        <5>1. w[i].session = call.session
          BY <4>2, <4>5
        <5> QED
          BY <2>3, <5>1 DEF w
      <4> QED
        BY <4>3, <4>4, <4>5
    <3>2. \A i \in 1 .. Len(link'[d].up) : UnderWay(d, link'[d].up[i].session)
      BY <2>4 DEF UnderWay
    <3>3. \A x \in clusterd'.calls : x.conn = d => UnderWay(d, x.session)
      BY <2>4 DEF UnderWay
    <3> QED
      BY <3>1, <3>2, <3>3, UnderWayFrom
  <2>6. ASSUME OwnOf(d) PROVE OwnOf(d)'
    <3>1. CallOwn(d)
      BY <2>6 DEF OwnOf
    <3>2. v = <<>> \/ v \in OwnBlocks'
      <4> SUFFICES ASSUME v = b PROVE v \in OwnBlocks'
        BY <2>2
      <4>1. ASSUME ok = TRUE, NEW q \in Requests, Awaits(q, call.session) PROVE IsAnswer(q, m)
        <5>1. call.msg = req[q].msg /\ req[q].addr # QUERY
          BY <1>8, <3>1, <4>1 DEF CallOwn, c
        <5>2. IsMade(q) /\ IsMade(r)
          BY <1>1, <4>1 DEF Awaits, IsMade, IsSent
        <5>3. q = r
          BY <1>1, <5>1, <5>2, DataTells
        <5> QED
          BY <1>1, <4>1, <5>1, <5>3 DEF IsAnswer
      <4>2. b \in OwnBlocks
        BY <1>2, <4>1, BlockMade DEF b
      <4> QED
        BY <1>6, <4>2, OwnBlocksStay
    <3>3. \A i \in 1 .. Len(link'[d].up) : \E j \in 1 .. Len(link[d].up) : link'[d].up[i] = link[d].up[j]
      BY <2>4
    <3> QED
      BY <1>6, <2>2, <2>4, <2>5, <2>6, <3>2, <3>3, OwnStays
  <2> QED
    BY <2>5, <2>6
<1> QED
  BY <1>7, <1>8

-------------------------------------------------------------------------------
(* Who waits is in the table.                                              *)

\* WaitInv survives a step after which nobody new waits and the table is the same.
LEMMA WaitStays ==
  ASSUME WaitInv, Stays, channel'.thread = channel.thread,
         \A r \in Requests : req'[r].state = "connect" => req'[r] = req[r]
  PROVE  WaitInv'
<1>1. ASSUME NEW r \in Requests, Live(r)' PROVE Live(r) /\ req'[r].session = req[r].session
  <2>1. CASE req'[r].state = "wait"
    <3>1. /\ req[r].state = "wait" /\ req'[r].session = req[r].session
          /\ req'[r].msg = req[r].msg /\ req'[r].is_push = req[r].is_push
      BY <2>1 DEF Stays
    <3> QED
      BY <1>1, <3>1 DEF Live, Numbered
  <2>2. CASE req'[r].state = "connect"
    BY <1>1, <2>2 DEF Live, Numbered
  <2> QED
    BY <1>1, <2>1, <2>2 DEF Live
<1>2. ASSUME NEW r \in Requests, req'[r].state = "wait"
      PROVE  req'[r].session \in DOMAIN channel'.thread /\ channel'.thread[req'[r].session] = r
  <2>1. req[r].state = "wait" /\ req'[r].session = req[r].session
    BY <1>2 DEF Stays
  <2> QED
    BY <2>1 DEF WaitInv
<1> QED
  BY <1>1, <1>2 DEF WaitInv

\* After the channel is closed nobody waits for a response.
LEMMA DisconnectsWait ==
  ASSUME TypeInv, ThreadInv, WaitInv, Disconnects
  PROVE  WaitInv' /\ \A r \in Requests : /\ req'[r].state # "wait" /\ req'[r].result = req[r].result
                                         /\ req'[r].state = "connect" => req'[r] = req[r]
<1>1. wakeup_all(req)
  BY DEF Disconnects
<1>2. \A r \in Requests :
        /\ r \in Awaiting => req'[r].state = "closed" /\ req'[r].result = req[r].result
        /\ r \notin Awaiting => req'[r] = req[r]
  BY <1>1, WakeupMoves
<1>3. ASSUME NEW r \in Requests
      PROVE  /\ req'[r].state # "wait" /\ req'[r].result = req[r].result
             /\ req'[r].state = "connect" => req'[r] = req[r]
  <2>1. CASE r \in Awaiting
    BY <1>2, <2>1
  <2>2. CASE r \notin Awaiting
    <3>1. req[r].state # "wait"
      BY <2>2 DEF WaitInv, Awaiting
    <3> QED
      BY <1>2, <2>2, <3>1
  <2> QED
    BY <2>1, <2>2
<1>4. ASSUME NEW r \in Requests, Live(r)' PROVE Live(r) /\ req'[r].session = req[r].session
  <2>1. req'[r] = req[r]
    BY <1>3, <1>4 DEF Live
  <2> QED
    BY <1>4, <2>1 DEF Live, Numbered
<1> QED
  BY <1>3, <1>4 DEF WaitInv

-------------------------------------------------------------------------------
(* The parts of a response.                                                *)

\* The strings behind the size.
LEMMA TailStrs ==
  ASSUME NEW t \in Seq(Parts), t # <<>>
  PROVE  [i \in 1 .. Len(t) - 1 |-> t[i + 1].str] = Strs(Tail(t))
<1>1. Len(Tail(t)) = Len(t) - 1 /\ \A i \in 1 .. Len(t) - 1 : Tail(t)[i] = t[i + 1]
  OBVIOUS
<1> QED
  BY <1>1 DEF Strs

\* The first part of a large response is its size.
LEMMA SizeGathered ==
  ASSUME NEW m \in Bytes, m # <<>>
  PROVE  Gathered(Append(<<>>, Number(Len(m))), m, 2)
<1> DEFINE x == Number(Len(m))
           t == Append(<<>>, x)
<1>0. Len(m) \in Nat
  BY DEF Bytes
<1>1. x \in Parts
  BY <1>0 DEF Number, Parts
<1> HIDE DEF x
<1>2. t \in Seq(Parts) /\ Len(t) = 1 /\ t[1] = x /\ Tail(t) = <<>> /\ t # <<>>
  BY <1>1
<1> HIDE DEF t
<1>3. FlattenSeq([i \in 1 .. Len(t) - 1 |-> t[i + 1].str]) = <<>>
  BY <1>2, TailStrs, StrsEmpty
<1>4. SubSeq(m, 1, (2 - 2) * MULTI_PART) = <<>>
  <2>1. (2 - 2) * MULTI_PART = 0
    BY WireAssumption
  <2> QED
    BY <2>1 DEF Bytes
<1>5. Tail(t) \in Seq(Strings)
  BY <1>2, StrsEmpty
<1>6. Gathered(t, m, 2)
  BY <1>2, <1>3, <1>4, <1>5 DEF Gathered, x
<1> QED
  BY <1>6 DEF t, x

\* t has the size of m and its first e bytes.
Came(t, m, e) ==
  /\ t # <<>> /\ t[1] = Number(Len(m)) /\ Tail(t) \in Seq(Strings)
  /\ FlattenSeq([i \in 1 .. Len(t) - 1 |-> t[i + 1].str]) = SubSeq(m, 1, e)

\* One more part of m.
LEMMA PartGathered ==
  ASSUME NEW m \in Bytes, m # <<>>, NEW k \in Nat, k - 1 \in 1 .. PartCount(Len(m)),
         NEW t \in Seq(Parts), Gathered(t, m, k), NEW after, after = Append(t, String(Chunk(m, k - 1)))
  PROVE  after \in Seq(Parts) /\ Len(after) >= 2 /\ Came(after, m, ChunkEnd(m, k - 1))
<1> DEFINE chunk == Chunk(m, k - 1)
           v == Tail(t)
<1>1. chunk \in Bytes
  BY ChunkIs
<1> HIDE DEF chunk
<1>2. String(chunk) \in Parts /\ String(chunk) \in Strings
  BY <1>1 DEF String, Strings, Parts
<1>3. t # <<>> /\ t[1] = Number(Len(m)) /\ v \in Seq(Strings)
  BY DEF Gathered
<1> DEFINE x == String(chunk)
<1>4. after = Append(t, x)
  BY DEF chunk
<1> HIDE DEF x
<1>5. after \in Seq(Parts) /\ Len(after) = Len(t) + 1 /\ Len(t) >= 1 /\ Len(t) \in Nat /\ after[1] = t[1] /\ after # <<>>
  <2>1. x \in Parts
    BY <1>2 DEF x
  <2>2. after \in Seq(Parts) /\ Len(after) = Len(t) + 1 /\ Len(t) \in Nat
    BY <1>4, <2>1, AppendIs
  <2>3. Len(t) >= 1
    BY <1>3, <2>2
  <2>4. 1 \in 1 .. Len(t)
    BY <2>2, <2>3
  <2>5. after[1] = t[1]
    BY <1>4, <2>1, <2>4, AppendIs
  <2>6. after # <<>>
    BY <1>4, <2>1, AppendIs
  <2> QED
    BY <2>2, <2>3, <2>5, <2>6
<1>6. Tail(after) = Append(v, x)
  <2>1. Len(v) = Len(t) - 1 /\ \A i \in 1 .. Len(t) - 1 : v[i] = t[i + 1]
    BY <1>3
  <2>2. Append(v, x) \in Seq(Strings) /\ Len(Append(v, x)) = Len(v) + 1
        /\ (\A i \in 1 .. Len(v) : Append(v, x)[i] = v[i]) /\ Append(v, x)[Len(v) + 1] = x
    BY <1>2, <1>3, AppendIs DEF x
  <2>3. (\A i \in 1 .. Len(t) : after[i] = t[i]) /\ after[Len(t) + 1] = x
    <3>1. x \in Parts
      BY <1>2 DEF x
    <3> QED
      BY <1>4, <3>1, AppendIs
  <2>4. Tail(after) \in Seq(Parts) /\ Len(Tail(after)) = Len(after) - 1 /\ \A i \in 1 .. Len(after) - 1 : Tail(after)[i] = after[i + 1]
    BY <1>5
  <2> DEFINE p == Append(v, x)
             q == Tail(after)
  <2>5. p \in Seq(Strings) /\ q \in Seq(Parts) /\ Len(p) = Len(t) /\ Len(q) = Len(t)
    BY <1>5, <2>1, <2>2, <2>4
  <2>6. \A i \in 1 .. Len(t) : p[i] = q[i]
    <3> SUFFICES ASSUME NEW i \in 1 .. Len(t) PROVE p[i] = q[i]
      OBVIOUS
    <3> HIDE DEF v
    <3>1. CASE i = Len(t)
      <4>1. q[i] = after[Len(t) + 1] /\ p[i] = Append(v, x)[Len(v) + 1]
        BY <1>5, <2>1, <2>4, <3>1
      <4> QED
        BY <2>2, <2>3, <4>1
    <3>2. CASE i # Len(t)
      <4>1. i \in 1 .. Len(t) - 1 /\ i + 1 \in 1 .. Len(t) /\ i \in 1 .. Len(v)
        BY <1>5, <2>1, <3>2
      <4> QED
        BY <1>5, <2>1, <2>2, <2>3, <2>4, <4>1
    <3> QED
      BY <3>1, <3>2
  <2> HIDE DEF p, q
  <2>7. p = [i \in 1 .. Len(t) |-> p[i]] /\ q = [i \in 1 .. Len(t) |-> q[i]]
    BY <2>5
  <2>8. p = q
    BY <2>6, <2>7
  <2> QED
    BY <2>8 DEF p, q
<1> HIDE DEF v
<1>7. /\ Append(v, x) \in Seq(Strings)
      /\ FlattenSeq(Strs(Append(v, x))) = FlattenSeq(Strs(v)) \o chunk
  BY <1>1, <1>3, StrsAppend DEF x
<1>8. FlattenSeq([i \in 1 .. Len(after) - 1 |-> after[i + 1].str]) = FlattenSeq(Strs(Append(v, x)))
  BY <1>5, <1>6, TailStrs
<1>9. FlattenSeq(Strs(v)) = SubSeq(m, 1, (k - 1 - 1) * MULTI_PART)
  <2>1. FlattenSeq([i \in 1 .. Len(t) - 1 |-> t[i + 1].str]) = SubSeq(m, 1, (k - 2) * MULTI_PART)
    BY DEF Gathered
  <2>2. k - 2 = k - 1 - 1
    OBVIOUS
  <2> QED
    BY <1>3, <2>1, <2>2, TailStrs DEF v
<1>10. SubSeq(m, 1, (k - 1 - 1) * MULTI_PART) \o chunk = SubSeq(m, 1, ChunkEnd(m, k - 1))
  BY ChunkNext DEF chunk
<1> HIDE DEF chunk
<1>11. FlattenSeq([i \in 1 .. Len(after) - 1 |-> after[i + 1].str]) = SubSeq(m, 1, ChunkEnd(m, k - 1))
  BY <1>7, <1>8, <1>9, <1>10, Zenon
<1>12. Tail(after) \in Seq(Strings)
  BY <1>6, <1>7, Zenon
<1>13. Len(after) >= 2
  BY <1>5
<1> QED
  BY <1>3, <1>5, <1>11, <1>12, <1>13, Zenon DEF Came

\* What command.req makes of the parts of m when all of them came.
LEMMA OutcomeWhole ==
  ASSUME NEW m \in Bytes, NEW t \in Seq(Parts), Len(t) >= 2, t[1] = Number(Len(m)),
         FlattenSeq([i \in 1 .. Len(t) - 1 |-> t[i + 1].str]) = m
  PROVE  Outcome(TRUE, t).result \in {m, Error}
<1> DEFINE f == FlattenSeq([i \in 1 .. Len(t) - 1 |-> t[i + 1].str])
           size == t[1].num
           none == t = <<>> \/ ~IsNumber(t[1])
           no == [outcome |-> "nothing", msg |-> <<>>]
           crash == [outcome |-> "crash", msg |-> <<>>]
           whole == [outcome |-> "string", msg |-> f]
<1>1. Len(t) # 1
  OBVIOUS
<1>2. Outcome(TRUE, t).result = IF lconcat(t).outcome = "crash" THEN Error ELSE lconcat(t).msg
  BY <1>1 DEF Outcome
<1>3. ~none /\ size = Len(m) /\ Len(m) \in Nat /\ f = m
  <2>1. t # <<>>
    BY <1>1
  <2>2. t[1] = [num |-> Len(m)]
    BY DEF Number
  <2> QED
    BY <2>1, <2>2 DEF IsNumber, Bytes
<1> DEFINE got == CASE Len(f) > LUAL_BUFFERSIZE -> crash
                    [] Len(f) <= LUAL_BUFFERSIZE /\ Len(f) # size -> no
                    [] Len(f) <= LUAL_BUFFERSIZE /\ Len(f) = size -> whole
<1>4. lconcat(t) = IF none THEN no ELSE got
  BY Zenon DEF lconcat
<1>5. crash.outcome = "crash" /\ whole.msg = m
  BY <1>3
<1> HIDE DEF f, size, none, no, crash, whole
<1>6. got \in {crash, whole}
  BY <1>3, WireAssumption
<1> HIDE DEF got
<1>7. lconcat(t) = crash \/ lconcat(t) = whole
  BY <1>3, <1>4, <1>6
<1> QED
  BY <1>2, <1>5, <1>7

\* Of a response in one packet the caller gets what is in it.
LEMMA OutcomeSingle ==
  ASSUME NEW m \in Bytes
  PROVE  Outcome(TRUE, Append(<<>>, String(m))).result = m
<1> DEFINE x == String(m)
           t == Append(<<>>, x)
<1>1. ~IsNumber(x) /\ x.str = m /\ x \in Parts
  BY DEF String, IsNumber, Parts, Strings
<1> HIDE DEF x
<1>2. Len(t) = 1 /\ t[1] = x
  BY <1>1
<1> HIDE DEF t
<1>3. Len(t) = 1 /\ ~IsNumber(t[1])
  BY <1>1, <1>2
<1>4. Outcome(TRUE, t).result = t[1].str
  BY <1>3 DEF Outcome
<1>5. Outcome(TRUE, t).result = m
  BY <1>1, <1>2, <1>4
<1> QED
  BY <1>5 DEF t, x

\* A response that is an error raises.
LEMMA OutcomeError ==
  ASSUME NEW t
  PROVE  Outcome(FALSE, t).result = Error
BY DEF Outcome

-------------------------------------------------------------------------------
(* dispatch_by_session takes a packet.                                     *)

\* The packet that comes next is one of a response.
LEMMA GotBlock ==
  ASSUME TypeInv, NEW c \in Conns, DownOwn(c), link[c].down # <<>>
  PROVE  \E b \in AnyBlocks : \E k \in 1 .. Len(b) :
           /\ RunAt(link[c].down, 1, b, k)
           /\ Starts(Got(c)) => k = 1 /\ b \in OwnBlocks
<1> DEFINE d == link[c].down
<1>1. d \in Seq(ResponsePackets) /\ 1 \in 1 .. Len(d) /\ Got(c) = d[1]
  BY GotIs
<1>2. Stream(d, OwnBlocks) /\ (~Starts(d[1]) => \E b \in AnyBlocks : \E k \in 2 .. Len(b) : RunAt(d, 1, b, k))
  BY DEF DownOwn
<1> HIDE DEF d
<1>3. CASE Starts(d[1])
  <2>1. PICK b \in OwnBlocks : RunAt(d, 1, b, 1)
    BY <1>1, <1>2, <1>3 DEF Stream
  <2>2. b \in AnyBlocks /\ 1 \in 1 .. Len(b)
    BY <2>1, OwnBlocksAre DEF RunAt
  <2> QED
    BY <1>1, <2>1, <2>2 DEF d
<1>4. CASE ~Starts(d[1])
  <2>1. PICK b \in AnyBlocks : \E k \in 2 .. Len(b) : RunAt(d, 1, b, k)
    BY <1>2, <1>4
  <2>2. PICK k \in 2 .. Len(b) : RunAt(d, 1, b, k)
    BY <2>1
  <2>3. k \in 1 .. Len(b)
    BY <2>2 DEF RunAt
  <2> QED
    BY <1>1, <1>4, <2>2, <2>3 DEF d
<1> QED
  BY <1>3, <1>4

\* What follows it in the same response has its session.
LEMMA DownTail ==
  ASSUME TypeInv, NEW c \in Conns, DownOwn(c), link[c].down # <<>>, OwnBlocks \subseteq OwnBlocks',
         link'[c].down = Tail(link[c].down)
  PROVE  /\ DownOwn(c)'
         /\ Tail(link[c].down) # <<>> /\ ~Starts(Tail(link[c].down)[1]) =>
              Tail(link[c].down)[1].session = Got(c).session
<1> DEFINE d == link[c].down
           w == Tail(d)
<1>1. d \in Seq(ResponsePackets) /\ d # <<>> /\ Got(c) = d[1] /\ w \in Seq(ResponsePackets)
  BY GotIs
<1>2. PICK b \in AnyBlocks : \E k \in 1 .. Len(b) : RunAt(d, 1, b, k)
  BY GotBlock
<1>3. PICK k \in 1 .. Len(b) : RunAt(d, 1, b, k)
  BY <1>2
<1>4. b \in Seq(ResponsePackets) /\ \A i, j \in 1 .. Len(b) : b[i].session = b[j].session
  BY AnyBlockIs
<1>5. Stream(w, OwnBlocks')
  <2>1. Stream(d, OwnBlocks)
    BY DEF DownOwn
  <2>2. Stream(w, OwnBlocks)
    BY <1>1, <2>1, OwnBlocksAre, StreamTail
  <2> QED
    BY <2>2, StreamGrows
<1> HIDE DEF d
<1>6. /\ d[1] = b[k]
      /\ k < Len(b) => w # <<>> /\ RunAt(w, 1, b, k + 1)
      /\ k = Len(b) => w = <<>> \/ Starts(w[1])
  BY <1>1, <1>3, <1>4, HeadNext
<1> HIDE DEF w
<1>7. ASSUME w # <<>>, ~Starts(w[1])
      PROVE  /\ w[1].session = Got(c).session
             /\ \E e \in AnyBlocks : \E i \in 2 .. Len(e) : RunAt(w, 1, e, i)
  <2>1. k < Len(b) /\ k + 1 \in 2 .. Len(b) /\ k + 1 \in 1 .. Len(b) /\ Len(b) \in Nat
    BY <1>3, <1>4, <1>6, <1>7
  <2>2. RunAt(w, 1, b, k + 1)
    BY <1>6, <2>1
  <2>3. w[1] = b[k + 1]
    <3>1. w[1 + (k + 1) - (k + 1)] = b[k + 1]
      BY <2>1, <2>2 DEF RunAt
    <3>2. 1 + (k + 1) - (k + 1) = 1
      BY <2>1
    <3> QED
      BY <3>1, <3>2
  <2>4. w[1].session = Got(c).session
    BY <1>1, <1>3, <1>4, <1>6, <2>1, <2>3
  <2> QED
    BY <2>1, <2>2, <2>4
<1>8. DownOwn(c)'
  BY <1>5, <1>7 DEF DownOwn, w, d
<1> QED
  BY <1>7, <1>8 DEF w, d

\* A response begins: it is the answer to whoever waits for it.
LEMMA GotFirst ==
  ASSUME TypeInv, NEW c \in Conns, DownOwn(c), link[c].down # <<>>, Got(c).type \in {"begin", "ok"}
  PROVE  \E m \in Replies :
           /\ \A r \in Requests : Awaits(r, Got(c).session) => IsAnswer(r, m)
           /\ RunAt(link[c].down, 1, lpackresponse(Got(c).session, TRUE, m), 1)
           /\ Got(c).type = "begin" => Len(m) > MULTI_PART /\ Got(c) = Begin(Got(c).session, m)
           /\ Got(c).type = "ok" => Got(c) = Response("ok", Got(c).session, m)
<1> DEFINE g == Got(c)
<1>1. PICK b \in AnyBlocks : b \in OwnBlocks /\ RunAt(link[c].down, 1, b, 1)
  BY GotBlock DEF Starts
<1>2. PICK s \in SessionsOr0, m \in Replies :
     \/ b = lpackresponse(s, FALSE, m)
     \/ b = lpackresponse(s, TRUE, m) /\ \A r \in Requests : Awaits(r, s) => IsAnswer(r, m)
  BY <1>1 DEF OwnBlocks
<1>3. g = b[1] /\ 1 \in 1 .. Len(b)
  <2>1. link[c].down \in Seq(ResponsePackets) /\ b \in Seq(ResponsePackets) /\ g = link[c].down[1]
    BY AnyBlockIs, GotIs
  <2> QED
    BY <1>1, <2>1, HeadNext
<1>4. m \in Bytes /\ m # <<>>
  BY RepliesAre
<1>5. b # lpackresponse(s, FALSE, m)
  <2>1. lpackresponse(s, FALSE, m)[1].type = "error"
    BY <1>4, ResponseBlockIs
  <2> QED
    BY <1>3, <2>1
<1>6. b = lpackresponse(s, TRUE, m) /\ \A r \in Requests : Awaits(r, s) => IsAnswer(r, m)
  BY <1>2, <1>5
<1>7. g.session = s
  <2>1. \A k \in 1 .. Len(b) : b[k].session = s
    BY <1>6, BlockMade
  <2> QED
    BY <1>3, <2>1
<1>8. CASE Len(m) <= MULTI_PART
  <2>1. b[1] = Response("ok", s, m)
    BY <1>4, <1>6, <1>8, ResponseBlockIs
  <2>2. g = Response("ok", s, m) /\ g.type = "ok"
    BY <1>3, <2>1 DEF Response
  <2> HIDE DEF g
  <2> QED
    BY <1>1, <1>6, <1>7, <2>2 DEF g
<1>9. CASE Len(m) > MULTI_PART
  <2>1. b[1] = Begin(s, m)
    BY <1>4, <1>6, <1>9, ResponseBlockIs
  <2>2. g = Begin(s, m) /\ g.type = "begin"
    BY <1>3, <2>1 DEF Begin
  <2> HIDE DEF g
  <2> QED
    BY <1>1, <1>6, <1>7, <1>9, <2>2 DEF g
<1>10. Len(m) <= MULTI_PART \/ Len(m) > MULTI_PART
  <2>1. MULTI_PART \in Nat /\ Len(m) \in Nat
    BY <1>4, WireAssumption DEF Bytes
  <2> QED
    BY <2>1
<1> QED
  BY <1>8, <1>9, <1>10, Zenon

\* A response goes on: who waits for it has what came.
LEMMA GotNext ==
  ASSUME TypeInv, NEW c \in Conns, GatherOf(c), link[c].down # <<>>, ~Starts(Got(c)),
         NEW r \in Requests, Awaits(r, Got(c).session)
  PROVE  \E m \in Replies : \E k \in Nat :
           /\ k - 1 \in 1 .. PartCount(Len(m)) /\ PartCount(Len(m)) \in Nat
           /\ IsAnswer(r, m) /\ Gathered(req[r].result_data, m, k)
           /\ RunAt(link[c].down, 1, lpackresponse(req[r].session, TRUE, m), k)
           /\ Len(lpackresponse(req[r].session, TRUE, m)) = PartCount(Len(m)) + 1
           /\ Got(c) = ResponsePart(req[r].session, m, k - 1)
<1>s. PICK s \in SessionsOr0 : s = req[r].session
  BY DEF TypeInv, RequestRecords
<1>1. link[c].down \in Seq(ResponsePackets) /\ Got(c) = link[c].down[1]
  BY GotIs
<1>2. MidBlock(c, s)
  BY <1>1, <1>s DEF MidBlock, Awaits
<1>3. InMiddle(c, r)
  BY <1>2, <1>s DEF GatherOf, Awaits
<1>4. PICK m \in Replies : \E k \in 2 .. Len(lpackresponse(s, TRUE, m)) :
        /\ IsAnswer(r, m) /\ RunAt(link[c].down, 1, lpackresponse(s, TRUE, m), k)
        /\ Gathered(req[r].result_data, m, k)
  BY <1>3, <1>s DEF InMiddle
<1>5. PICK k \in 2 .. Len(lpackresponse(s, TRUE, m)) :
        /\ IsAnswer(r, m) /\ RunAt(link[c].down, 1, lpackresponse(s, TRUE, m), k)
        /\ Gathered(req[r].result_data, m, k)
  BY <1>4
<1>b. PICK b : b = lpackresponse(s, TRUE, m)
  OBVIOUS
<1> DEFINE n == PartCount(Len(m))
<1>6. m \in Bytes /\ m # <<>> /\ Len(m) \in Nat \ {0} /\ MULTI_PART \in Nat
  BY RepliesAre, WireAssumption DEF Bytes
<1>7. b \in Seq(ResponsePackets) /\ k \in 2 .. Len(b)
  BY <1>b, BlockMade
<1>8. Len(m) > MULTI_PART
  <2> SUFFICES ASSUME Len(m) <= MULTI_PART PROVE FALSE
    BY <1>6
  <2>1. Len(b) = 1
    BY <1>b, <1>6, ResponseBlockIs
  <2> QED
    BY <1>7, <2>1
<1>9. /\ Len(b) = n + 1 /\ \A i \in 2 .. n + 1 : b[i] = ResponsePart(s, m, i - 1)
  BY Zenon, <1>b, <1>6, <1>8, ResponseBlockIs
<1>10. n \in Nat \ {0}
  BY <1>6, PartCountIs
<1>11. Got(c) = b[k]
  <2>1. RunAt(link[c].down, 1, b, k) /\ link[c].down # <<>>
    BY <1>5, <1>b
  <2> QED
    BY <1>1, <1>7, <2>1, HeadNext
<1> HIDE DEF n
<1>12. k \in 2 .. n + 1 /\ k \in Nat /\ k - 1 \in 1 .. n
  BY <1>7, <1>9, <1>10
<1>13. Got(c) = ResponsePart(s, m, k - 1)
  BY <1>9, <1>11, <1>12
<1> QED
  BY <1>5, <1>9, <1>10, <1>12, <1>13, <1>b, <1>s DEF n

\* Whoever waits for the response appends the part, and has what came so far.
LEMMA GatherOne ==
  ASSUME TypeInv, NEW c \in Conns, DownOwn(c), GatherOf(c), link[c].down # <<>>,
         NEW r \in Requests, Awaits(r, Got(c).session), IsPadding(Got(c)),
         link'[c].down = Tail(link[c].down),
         req'[r] = [req[r] EXCEPT !.result_data = Append(req[r].result_data, Data(Got(c)))]
  PROVE  MidBlock(c, req[r].session)' /\ InMiddle(c, r)'
<1> DEFINE d == link[c].down
<1>1. /\ d \in Seq(ResponsePackets) /\ d # <<>> /\ Got(c) = d[1] /\ 1 \in 1 .. Len(d)
  BY GotIs
<1>s. PICK s \in SessionsOr0 : s = req[r].session
  BY DEF TypeInv, RequestRecords
<1>2. req[r] \in RequestRecords /\ req[r].result_data \in Seq(Parts)
  BY DEF TypeInv, RequestRecords
<1>3. /\ req'[r].session = s /\ req'[r].addr = req[r].addr
      /\ req'[r].result_data = Append(req[r].result_data, Data(Got(c)))
  BY <1>2, <1>s DEF RequestRecords
<1>4. \E m \in Replies : \E k \in Nat :
        /\ k \in 1 .. Len(lpackresponse(s, TRUE, m)) /\ k < Len(lpackresponse(s, TRUE, m))
        /\ IsAnswer(r, m) /\ RunAt(d, 1, lpackresponse(s, TRUE, m), k)
        /\ Gathered(req'[r].result_data, m, k + 1)
  <2>1. CASE Got(c).type = "begin"
    <3>1. PICK m \in Replies :
            /\ \A q \in Requests : Awaits(q, Got(c).session) => IsAnswer(q, m)
            /\ RunAt(d, 1, lpackresponse(Got(c).session, TRUE, m), 1)
            /\ Len(m) > MULTI_PART /\ Got(c) = Begin(Got(c).session, m)
      BY <2>1, GotFirst DEF d
    <3>2. Got(c).session = s
      BY <1>s DEF Awaits
    <3>3. m \in Bytes /\ m # <<>> /\ Len(m) \in Nat \ {0}
      BY RepliesAre DEF Bytes
    <3>4. Len(lpackresponse(s, TRUE, m)) = PartCount(Len(m)) + 1
      BY <3>1, <3>3, ResponseBlockIs
    <3>5. PartCount(Len(m)) \in Nat \ {0}
      BY <3>3, PartCountIs
    <3>6. req[r].result_data = <<>>
      <4>1. UnderWay(c, s)
        BY <1>1, <3>2 DEF UnderWay, d
      <4>2. ~MidBlock(c, s)
        BY <1>1, <2>1 DEF MidBlock, Starts, d
      <4> QED
        BY <1>s, <4>1, <4>2 DEF GatherOf, Awaits
    <3>7. Data(Got(c)) = Number(Len(m))
      <4>1. Got(c).total = Len(m)
        BY <3>1 DEF Begin
      <4> QED
        BY <2>1, <4>1 DEF Data
    <3>8. Gathered(req'[r].result_data, m, 2)
      BY <1>3, <3>3, <3>6, <3>7, SizeGathered
    <3> DEFINE n == Len(lpackresponse(s, TRUE, m))
               p == PartCount(Len(m))
    <3>9. 1 \in 1 .. n /\ 1 < n /\ 1 + 1 = 2
      <4>1. n = p + 1 /\ p \in Nat \ {0}
        BY <3>4, <3>5
      <4> HIDE DEF n, p
      <4> QED
        BY <4>1
    <3> HIDE DEF d
    <3> QED
      BY <3>1, <3>2, <3>8, <3>9
  <2>2. CASE Got(c).type = "part"
    <3>1. ~Starts(Got(c))
      BY <2>2 DEF Starts
    <3>2. PICK m \in Replies : \E k \in Nat :
           /\ k - 1 \in 1 .. PartCount(Len(m)) /\ PartCount(Len(m)) \in Nat
           /\ IsAnswer(r, m) /\ Gathered(req[r].result_data, m, k)
           /\ RunAt(d, 1, lpackresponse(s, TRUE, m), k)
           /\ Len(lpackresponse(s, TRUE, m)) = PartCount(Len(m)) + 1
           /\ Got(c) = ResponsePart(s, m, k - 1)
      <4>1. \E m \in Replies : \E k \in Nat :
             /\ k - 1 \in 1 .. PartCount(Len(m)) /\ PartCount(Len(m)) \in Nat
             /\ IsAnswer(r, m) /\ Gathered(req[r].result_data, m, k)
             /\ RunAt(link[c].down, 1, lpackresponse(req[r].session, TRUE, m), k)
             /\ Len(lpackresponse(req[r].session, TRUE, m)) = PartCount(Len(m)) + 1
             /\ Got(c) = ResponsePart(req[r].session, m, k - 1)
        BY Zenon, <3>1, GotNext
      <4> QED
        BY Zenon, <1>s, <4>1 DEF d
    <3>3. PICK k \in Nat :
           /\ k - 1 \in 1 .. PartCount(Len(m)) /\ PartCount(Len(m)) \in Nat
           /\ IsAnswer(r, m) /\ Gathered(req[r].result_data, m, k)
           /\ RunAt(d, 1, lpackresponse(s, TRUE, m), k)
           /\ Len(lpackresponse(s, TRUE, m)) = PartCount(Len(m)) + 1
           /\ Got(c) = ResponsePart(s, m, k - 1)
      BY <3>2
    <3> DEFINE n == PartCount(Len(m))
    <3>4. m \in Bytes /\ m # <<>>
      BY RepliesAre
    <3>5. k - 1 < n /\ Data(Got(c)) = String(Chunk(m, k - 1))
      <4>1. Got(c).type = (IF k - 1 < n THEN "part" ELSE "end") /\ Got(c).data = Chunk(m, k - 1)
        BY <3>3 DEF ResponsePart, Response
      <4> QED
        BY <2>2, <4>1 DEF Data
    <3> HIDE DEF n
    <3>6. k \in 1 .. n + 1 /\ k < n + 1 /\ k - 1 # n
      BY <3>3, <3>5 DEF n
    <3>7. ChunkEnd(m, k - 1) = (k - 1) * MULTI_PART /\ k + 1 - 2 = k - 1
      BY <3>6 DEF ChunkEnd, n
    <3>8. Gathered(req'[r].result_data, m, k + 1)
      <4> DEFINE after == req'[r].result_data
      <4>1. /\ after # <<>> /\ after[1] = Number(Len(m)) /\ Tail(after) \in Seq(Strings)
            /\ FlattenSeq([i \in 1 .. Len(after) - 1 |-> after[i + 1].str]) = SubSeq(m, 1, ChunkEnd(m, k - 1))
        <5>1. after = Append(req[r].result_data, String(Chunk(m, k - 1)))
          BY <1>3, <3>5
        <5>2. PICK got \in Seq(Parts) : got = req[r].result_data
          BY <1>2
        <5>3. PICK next : next = after
          OBVIOUS
        <5>4. Gathered(got, m, k) /\ next = Append(got, String(Chunk(m, k - 1)))
          BY <3>3, <5>1, <5>2, <5>3
        <5>5. Came(next, m, ChunkEnd(m, k - 1))
          BY <3>3, <3>4, <5>4, PartGathered
        <5> HIDE DEF after
        <5> QED
          BY <5>3, <5>5 DEF Came
      <4> HIDE DEF after
      <4>2. Gathered(after, m, k + 1)
        BY <3>7, <4>1 DEF Gathered
      <4> QED
        BY <4>2 DEF after
    <3> HIDE DEF d
    <3> QED
      BY <3>3, <3>6, <3>8 DEF n
  <2> QED
    BY <2>1, <2>2 DEF IsPadding
<1>5. PICK m \in Replies : \E k \in Nat :
        /\ k \in 1 .. Len(lpackresponse(s, TRUE, m)) /\ k < Len(lpackresponse(s, TRUE, m))
        /\ IsAnswer(r, m) /\ RunAt(d, 1, lpackresponse(s, TRUE, m), k)
        /\ Gathered(req'[r].result_data, m, k + 1)
  BY <1>4
<1>6. PICK k \in Nat :
        /\ k \in 1 .. Len(lpackresponse(s, TRUE, m)) /\ k < Len(lpackresponse(s, TRUE, m))
        /\ IsAnswer(r, m) /\ RunAt(d, 1, lpackresponse(s, TRUE, m), k)
        /\ Gathered(req'[r].result_data, m, k + 1)
  BY <1>5
<1>b. PICK b : b = lpackresponse(s, TRUE, m)
  OBVIOUS
<1>7. b \in Seq(ResponsePackets) /\ WholeBlock(b) /\ \A i \in 1 .. Len(b) : b[i].session = s
  <2>1. b \in AnyBlocks
    BY <1>b, BlockMade
  <2> QED
    <3>1. b \in Seq(ResponsePackets) /\ WholeBlock(b)
      BY Zenon, <2>1, AnyBlockIs
    <3>2. \A i \in 1 .. Len(b) : b[i].session = s
      BY Zenon, <1>b, BlockMade
    <3> QED
      BY <3>1, <3>2
<1> DEFINE w == Tail(d)
<1> HIDE DEF d
<1>8. w # <<>> /\ RunAt(w, 1, b, k + 1)
  <2>1. RunAt(d, 1, b, k) /\ k < Len(b)
    BY <1>6, <1>b
  <2> QED
    BY <1>1, <1>7, <2>1, HeadNext
<1> HIDE DEF w
<1>9. k + 1 \in 2 .. Len(b) /\ k + 1 \in 1 .. Len(b)
  <2>1. k \in 1 .. Len(b) /\ k < Len(b)
    BY <1>6, <1>b
  <2>2. Len(b) \in Nat
    BY <1>7
  <2> QED
    BY <2>1, <2>2
<1>10. w[1] = b[k + 1]
  <2>1. w[1 + (k + 1) - (k + 1)] = b[k + 1]
    BY <1>8, <1>9 DEF RunAt
  <2>2. 1 + (k + 1) - (k + 1) = 1
    BY <1>6
  <2> QED
    BY <2>1, <2>2
<1>11. ~Starts(w[1]) /\ w[1].session = s
  BY <1>7, <1>9, <1>10 DEF WholeBlock
<1>12. link'[c].down = w
  BY DEF w, d
<1>13. MidBlock(c, req[r].session)'
  BY <1>3, <1>8, <1>11, <1>12 DEF MidBlock
<1>14. IsAnswer(r, m)'
  BY <1>3, <1>6 DEF IsAnswer
<1>15. RunAt(link'[c].down, 1, lpackresponse(req'[r].session, TRUE, m), k + 1)
  BY <1>3, <1>8, <1>12, <1>b
<1>16. k + 1 \in 2 .. Len(lpackresponse(req'[r].session, TRUE, m))
  BY <1>3, <1>9, <1>b
<1>17. InMiddle(c, r)'
  BY <1>6, <1>14, <1>15, <1>16 DEF InMiddle
<1> QED
  BY <1>13, <1>17

\* The end of a response gives its caller the answer or an error.
LEMMA EndGives ==
  ASSUME TypeInv, NEW c \in Conns, DownOwn(c), GatherOf(c), link[c].down # <<>>,
         NEW r \in Requests, Awaits(r, Got(c).session), NEW ok \in BOOLEAN, NEW outcome, Ends(c, r, ok, outcome)
  PROVE  outcome.result = Error \/ IsAnswer(r, outcome.result)
<1> DEFINE g == Got(c)
           t == Append(req[r].result_data, Data(g))
<1>1. ~IsPadding(g) /\ ok = (g.type # "error") /\ outcome = Outcome(ok, t)
  BY Zenon DEF Ends
<1>2. g \in ResponsePackets /\ g = link[c].down[1] /\ 1 \in 1 .. Len(link[c].down)
  BY GotIs
<1>3. g.type \in {"error", "ok", "end"}
  BY <1>1, <1>2 DEF IsPadding, ResponsePackets
<1>4. CASE g.type = "error"
  <2>1. ok = FALSE
    BY <1>1, <1>4
  <2> HIDE DEF t
  <2> QED
    BY <1>1, <2>1, OutcomeError
<1>5. CASE g.type = "ok"
  <2>1. PICK m \in Replies :
           /\ \A q \in Requests : Awaits(q, g.session) => IsAnswer(q, m)
           /\ g = Response("ok", g.session, m)
    BY <1>5, GotFirst
  <2>2. m \in Bytes
    BY RepliesAre
  <2>3. Data(g) = String(m) /\ g.session = req[r].session
    <3>1. g.data = m
      BY <2>1 DEF Response
    <3> QED
      BY <1>5, <3>1 DEF Data, Awaits
  <2>4. req[r].result_data = <<>>
    <3>1. UnderWay(c, g.session)
      BY <1>2 DEF UnderWay
    <3>2. ~MidBlock(c, g.session)
      BY <1>2, <1>5 DEF MidBlock, Starts
    <3> QED
      BY <2>3, <3>1, <3>2 DEF GatherOf, Awaits
  <2>5. ok = TRUE
    BY <1>1, <1>5
  <2>6. outcome = Outcome(TRUE, Append(<<>>, String(m)))
    BY <1>1, <2>3, <2>4, <2>5
  <2>7. outcome.result = m
    BY <2>2, <2>6, OutcomeSingle
  <2> QED
    BY <2>1, <2>7
<1>6. CASE g.type = "end"
  <2>1. ~Starts(g)
    BY <1>6 DEF Starts
  <2>2. PICK m \in Replies : \E k \in Nat :
           /\ k - 1 \in 1 .. PartCount(Len(m)) /\ PartCount(Len(m)) \in Nat
           /\ IsAnswer(r, m) /\ Gathered(req[r].result_data, m, k)
           /\ g = ResponsePart(req[r].session, m, k - 1)
    BY <2>1, GotNext
  <2>3. PICK k \in Nat :
           /\ k - 1 \in 1 .. PartCount(Len(m)) /\ PartCount(Len(m)) \in Nat
           /\ IsAnswer(r, m) /\ Gathered(req[r].result_data, m, k)
           /\ g = ResponsePart(req[r].session, m, k - 1)
    BY <2>2
  <2> DEFINE n == PartCount(Len(m))
  <2>4. m \in Bytes /\ m # <<>>
    BY RepliesAre
  <2>5. ~(k - 1 < n) /\ Data(g) = String(Chunk(m, k - 1))
    <3>1. g.type = (IF k - 1 < n THEN "part" ELSE "end") /\ g.data = Chunk(m, k - 1)
      BY <2>3 DEF ResponsePart, Response
    <3> QED
      BY <1>6, <3>1 DEF Data
  <2> HIDE DEF n
  <2>6. k - 1 = n
    BY <2>3, <2>5 DEF n
  <2>7. ChunkEnd(m, k - 1) = Len(m)
    BY <2>6 DEF ChunkEnd, n
  <2>8. SubSeq(m, 1, Len(m)) = m
    BY <2>4 DEF Bytes
  <2>9. req[r].result_data \in Seq(Parts) /\ t = Append(req[r].result_data, String(Chunk(m, k - 1)))
    BY <2>5 DEF TypeInv, RequestRecords
  <2> HIDE DEF t
  <2>10. /\ t \in Seq(Parts) /\ Len(t) >= 2 /\ t[1] = Number(Len(m))
         /\ FlattenSeq([i \in 1 .. Len(t) - 1 |-> t[i + 1].str]) = SubSeq(m, 1, ChunkEnd(m, k - 1))
    <3>1. PICK got \in Seq(Parts) : got = req[r].result_data
      BY <2>9
    <3>2. PICK next : next = t
      OBVIOUS
    <3>3. Gathered(got, m, k) /\ next = Append(got, String(Chunk(m, k - 1)))
      BY <2>3, <2>9, <3>1, <3>2
    <3>4. next \in Seq(Parts) /\ Len(next) >= 2 /\ Came(next, m, ChunkEnd(m, k - 1))
      BY <2>3, <2>4, <3>3, PartGathered
    <3> QED
      BY <3>2, <3>4 DEF Came
  <2>11. FlattenSeq([i \in 1 .. Len(t) - 1 |-> t[i + 1].str]) = m
    BY <2>7, <2>8, <2>10
  <2>12. ok = TRUE
    BY <1>1, <1>6
  <2>13. Outcome(TRUE, t).result \in {m, Error}
    BY <2>4, <2>10, <2>11, OutcomeWhole
  <2> QED
    BY <1>1, <2>3, <2>12, <2>13
<1> QED
  BY <1>3, <1>4, <1>5, <1>6

\* The request that a packet goes to, and the others.
LEMMA GathersIs ==
  ASSUME TypeInv, ThreadInv, NEW c \in Conns, link[c].down # <<>>, NEW r \in Requests, Gathers(c, r)
  PROVE  /\ Awaits(r, Got(c).session) /\ IsPadding(Got(c)) /\ channel' = channel
         /\ \A q \in Requests : q # r => req'[q] = req[q]
         /\ req'[r] = [req[r] EXCEPT !.result_data = Append(req[r].result_data, Data(Got(c)))]
         /\ req'[r].state = "wait" /\ req'[r].session = req[r].session /\ req'[r].addr = req[r].addr
         /\ req'[r].msg = req[r].msg /\ req'[r].is_push = req[r].is_push /\ req'[r].result = req[r].result
<1>1. /\ Got(c).session \in DOMAIN channel.thread /\ r = channel.thread[Got(c).session]
      /\ channel' = channel /\ IsPadding(Got(c))
      /\ req' = [req EXCEPT ![r].result_data = Append(req[r].result_data, Data(Got(c)))]
  BY DEF Gathers
<1>2. req[r].state = "wait" /\ req[r].session = Got(c).session
  BY <1>1, ThreadWaits
<1>3. req \in [Requests -> RequestRecords]
  BY Zenon DEF TypeInv
<1> DEFINE t == Append(req[r].result_data, Data(Got(c)))
           old == req[r]
<1>4. req' = [req EXCEPT ![r].result_data = t] /\ old \in RequestRecords
  BY <1>1, <1>3
<1> HIDE DEF t
<1>5. (\A q \in Requests : q # r => req'[q] = req[q]) /\ req'[r] = [old EXCEPT !.result_data = t]
  BY <1>3, <1>4
<1> HIDE DEF old
<1>6. /\ req'[r].state = old.state /\ req'[r].session = old.session /\ req'[r].addr = old.addr
      /\ req'[r].msg = old.msg /\ req'[r].is_push = old.is_push /\ req'[r].result = old.result
  BY Z3, <1>4, <1>5 DEF RequestRecords
<1> QED
  BY <1>1, <1>2, <1>5, <1>6 DEF Awaits, t, old

\* dispatch_by_session with the last packet of a response: one requester ends, and leaves
\* the table.
LEMMA EndsIs ==
  ASSUME TypeInv, ThreadInv, NEW c \in Conns, link[c].down # <<>>, NEW r \in Requests, NEW ok, NEW outcome,
         Ends(c, r, ok, outcome)
  PROVE  /\ Awaits(r, Got(c).session)
         /\ \A q \in Requests : q # r => req'[q] = req[q]
         /\ req'[r].state = "done" /\ req'[r].result = outcome.result /\ req'[r].addr = req[r].addr
         /\ DOMAIN channel'.thread = DOMAIN channel.thread \ {Got(c).session}
         /\ \A s \in DOMAIN channel'.thread : channel'.thread[s] = channel.thread[s]
<1>1. /\ Got(c).session \in DOMAIN channel.thread /\ r = channel.thread[Got(c).session]
      /\ req' = [req EXCEPT ![r].state = "done", ![r].result = outcome.result, ![r].result_data = <<>>]
      /\ channel' = [channel EXCEPT !.thread = Without(@, Got(c).session)]
  BY Zenon DEF Ends
<1>2. req[r].state = "wait" /\ req[r].session = Got(c).session
  BY Zenon, <1>1, ThreadWaits
<1>3. req \in [Requests -> RequestRecords] /\ channel \in Channels /\ channel.thread \in Tables(Requests)
  BY Zenon DEF TypeInv, Channels
<1> DEFINE old == req[r]
           x == outcome.result
<1>4. (\A q \in Requests : q # r => req'[q] = req[q]) /\ old \in RequestRecords
      /\ req'[r] = [old EXCEPT !.state = "done", !.result = x, !.result_data = <<>>]
  BY Zenon, <1>1, <1>3
<1> HIDE DEF old, x
<1>5. req'[r].state = "done" /\ req'[r].result = x /\ req'[r].addr = old.addr
  BY <1>4 DEF RequestRecords
<1> DEFINE th == channel.thread
           s == Got(c).session
           t == Without(th, s)
<1>6. th \in Tables(Requests)
  BY <1>3
<1> HIDE DEF th, s
<1>7. DOMAIN t = DOMAIN th \ {s} /\ \A y \in DOMAIN th \ {s} : t[y] = th[y]
  BY <1>6, WithoutIs
<1>8. channel'.thread = t
  BY <1>1, <1>3 DEF th, s, Channels
<1> HIDE DEF t
<1>9. /\ DOMAIN channel'.thread = DOMAIN channel.thread \ {Got(c).session}
      /\ \A y \in DOMAIN channel'.thread : channel'.thread[y] = channel.thread[y]
  BY <1>7, <1>8 DEF th, s
<1> QED
  BY Zenon, <1>1, <1>2, <1>4, <1>5, <1>9 DEF Awaits, old, x

\* What a request got in a step is an error or its answer.
Settles ==
  \A r \in Requests :
    \/ req'[r].result = req[r].result \/ req'[r].result \in {NoResult, Error}
    \/ req'[r].addr = req[r].addr /\ IsAnswer(r, req'[r].result)

\* No session comes under way.
Quietens == \A d \in Conns : \A s : UnderWay(d, s)' => UnderWay(d, s)

\* One round of dispatch_by_session: only whoever waits under the packet's session gets
\* its data, and what remains under way answers whoever waits.
LEMMA ReceiveOwn ==
  ASSUME TypeInv, ThreadInv, WaitInv, NEW c \in Conns, OwnOf(c), Receive(c)
  PROVE  /\ OwnOf(c)' /\ WaitInv' /\ Settles /\ Quietens /\ Stays
         /\ session' = session /\ channel'.conn_id = channel.conn_id
         /\ \A d \in Conns : link'[d].client = link[d].client
<1>1. /\ link[c].down # <<>> /\ ~crashed
      /\ session' = session /\ clusterd' = clusterd
      /\ link' = [link EXCEPT ![c].down = Tail(@), ![c].cut = @ \/ crashed']
      /\ \/ Ignored(c)
         \/ \E r \in Requests : Gathers(c, r)
         \/ \E r \in Requests, ok \in BOOLEAN : \E outcome : Ends(c, r, ok, outcome)
  BY ReceiveIs
<1> DEFINE d == link[c].down
           s0 == Got(c).session
<1>2. /\ \A e \in Conns : e # c => link'[e] = link[e]
      /\ link'[c].up = link[c].up /\ link'[c].down = Tail(d) /\ link'[c].client = link[c].client
  <2>1. link \in [Conns -> Links]
    BY DEF TypeInv
  <2> DEFINE b == link[c].cut \/ crashed'
             l == link[c]
             t == Tail(link[c].down)
  <2>5. l \in Links /\ b \in BOOLEAN /\ t \in Seq(ResponsePackets)
    <3>1. l \in Links /\ b \in BOOLEAN
      BY <2>1
    <3>2. t \in Seq(ResponsePackets)
      BY <1>1, GotIs
    <3> QED
      BY <3>1, <3>2
  <2>2. link' = [link EXCEPT ![c].down = t, ![c].cut = b]
    BY <1>1
  <2> HIDE DEF b, t
  <2>3. link'[c] = [l EXCEPT !.down = t, !.cut = b] /\ \A e \in Conns : e # c => link'[e] = link[e]
    BY <2>1, <2>2
  <2>4. /\ link'[c] \in Links /\ link'[c].up = link[c].up
        /\ link'[c].client = link[c].client /\ link'[c].down = t
    BY <2>5, <2>3 DEF Links
  <2> QED
    BY <2>3, <2>4 DEF t
<1>3. UpOwn(c) /\ CallOwn(c) /\ DownOwn(c) /\ GatherOf(c)
  BY DEF OwnOf
<1>4. /\ d \in Seq(ResponsePackets) /\ Got(c) = d[1] /\ 1 \in 1 .. Len(d)
      /\ \A i \in 1 .. Len(Tail(d)) : Tail(d)[i] = d[i + 1] /\ i + 1 \in 1 .. Len(d)
  <2>1. /\ d \in Seq(ResponsePackets) /\ Got(c) = d[1] /\ 1 \in 1 .. Len(d)
        /\ Len(Tail(d)) = Len(d) - 1 /\ Len(d) \in Nat
        /\ \A i \in 1 .. Len(Tail(d)) : Tail(d)[i] = d[i + 1]
    BY <1>1, GotIs
  <2> HIDE DEF d
  <2> QED
    BY <2>1
\* What happens to the requests.
<1> DEFINE Goal ==
      /\ \A q \in Requests : req'[q].state = "wait" /\ req'[q] # req[q] => Gathers(c, q)
      /\ \A q \in Requests : req'[q] # req[q] => Awaits(q, s0)
      /\ Stays /\ Settles
      /\ \A q \in Requests : Awaits(q, s0) /\ req'[q].state = "wait" => Gathers(c, q)
      /\ channel'.conn_id = channel.conn_id
      /\ WaitInv'
<1>a. Goal
  <2>0. \A q \in Requests : Awaits(q, s0) => s0 \in DOMAIN channel.thread /\ channel.thread[s0] = q
    BY DEF Awaits, WaitInv
  <2>1. CASE Ignored(c)
    <3>1. s0 \notin DOMAIN channel.thread /\ channel' = channel /\ req' = req
      BY <2>1 DEF Ignored
    <3>2. Stays /\ Settles
      BY <3>1 DEF Stays, Settles
    <3>3. WaitInv'
      BY <3>1, <3>2, WaitStays
    <3> HIDE DEF s0
    <3> QED
      BY <2>0, <3>1, <3>2, <3>3
  <2>2. ASSUME NEW r \in Requests, Gathers(c, r)
        PROVE  Goal
    <3>1. /\ Awaits(r, s0) /\ channel' = channel
          /\ \A q \in Requests : q # r => req'[q] = req[q]
          /\ req'[r].state = "wait" /\ req'[r].session = req[r].session /\ req'[r].addr = req[r].addr
          /\ req'[r].msg = req[r].msg /\ req'[r].is_push = req[r].is_push /\ req'[r].result = req[r].result
      BY <1>1, <2>2, GathersIs
    <3>2. Stays /\ Settles
      BY <3>1 DEF Stays, Settles, Awaits
    <3>3. WaitInv'
      BY <3>1, <3>2, WaitStays
    <3>4. \A q \in Requests : Awaits(q, s0) => q = r
      BY <2>0, <3>1
    <3> HIDE DEF s0
    <3> QED
      BY <2>2, <3>1, <3>2, <3>3, <3>4
  <2>3. ASSUME NEW r \in Requests, NEW ok \in BOOLEAN, NEW outcome, Ends(c, r, ok, outcome)
        PROVE  Goal
    <3>1. /\ Awaits(r, s0)
          /\ \A q \in Requests : q # r => req'[q] = req[q]
          /\ req'[r].state = "done" /\ req'[r].result = outcome.result /\ req'[r].addr = req[r].addr
          /\ DOMAIN channel'.thread = DOMAIN channel.thread \ {s0}
          /\ \A s \in DOMAIN channel'.thread : channel'.thread[s] = channel.thread[s]
      BY <1>1, <2>3, EndsIs
    <3>2. outcome.result = Error \/ IsAnswer(r, outcome.result)
      BY <1>1, <1>3, <2>3, <3>1, EndGives
    <3>3. Stays
      BY <3>1 DEF Stays
    <3>4. Settles
      <4> SUFFICES ASSUME NEW q \in Requests
                   PROVE  \/ req'[q].result = req[q].result \/ req'[q].result \in {NoResult, Error}
                          \/ req'[q].addr = req[q].addr /\ IsAnswer(q, req'[q].result)
        BY DEF Settles
      <4> QED
        BY <3>1, <3>2
    <3>5. \A q \in Requests : Awaits(q, s0) => q = r
      BY Zenon, <2>0, <3>1
    <3>6. channel'.conn_id = channel.conn_id
      BY <2>3 DEF Ends, TypeInv, Channels
    <3>7. WaitInv'
      <4>1. ASSUME NEW q \in Requests, req'[q].state = "wait"
            PROVE  req'[q].session \in DOMAIN channel'.thread /\ channel'.thread[req'[q].session] = q
        <5>1. q # r /\ req'[q] = req[q]
          BY <3>1, <4>1
        <5>2. req[q].session \in DOMAIN channel.thread /\ channel.thread[req[q].session] = q
          BY <4>1, <5>1 DEF WaitInv
        <5>3. req[q].session # s0
          BY <2>0, <3>1, <5>1, <5>2
        <5> HIDE DEF s0
        <5> QED
          BY <3>1, <5>1, <5>2, <5>3
      <4>2. ASSUME NEW q \in Requests, Live(q)' PROVE Live(q) /\ req'[q].session = req[q].session
        <5>1. req'[q] = req[q]
          BY <3>1, <4>2 DEF Live
        <5> QED
          BY <4>2, <5>1 DEF Live, Numbered
      <4> QED
        BY <4>1, <4>2 DEF WaitInv
    <3> HIDE DEF s0
    <3> QED
      BY <3>1, <3>3, <3>4, <3>5, <3>6, <3>7
  <2> QED
    BY <1>1, <2>1, <2>2, <2>3
\* Which sessions are under way.
<1>5. /\ \A q \in Requests : req'[q].state = "wait" /\ req'[q] # req[q] => Gathers(c, q)
      /\ \A q \in Requests : req'[q] # req[q] => Awaits(q, s0)
      /\ Stays /\ Settles
      /\ \A q \in Requests : Awaits(q, s0) /\ req'[q].state = "wait" => Gathers(c, q)
      /\ channel'.conn_id = channel.conn_id
      /\ WaitInv'
  BY <1>a
<1> HIDE DEF Goal
<1>6. Quietens
  <2> SUFFICES ASSUME NEW e \in Conns, NEW s, UnderWay(e, s)' PROVE UnderWay(e, s)
    BY Zenon DEF Quietens
  <2>1. CASE e # c
    <3>1. link'[e] = link[e]
      BY <1>2, <2>1
    <3> QED
      BY Zenon, <1>1, <3>1 DEF UnderWay
  <2>2. CASE e = c
    <3>1. \A i \in 1 .. Len(link'[c].up) : UnderWay(c, link'[c].up[i].session)
      BY <1>2 DEF UnderWay
    <3>2. \A i \in 1 .. Len(link'[c].down) : UnderWay(c, link'[c].down[i].session)
      BY Z3, <1>2, <1>4 DEF UnderWay
    <3>3. \A x \in clusterd'.calls : x.conn = c => UnderWay(c, x.session)
      BY <1>1 DEF UnderWay
    <3>4. UnderWay(c, s)'
      BY <2>2
    <3> QED
      BY <2>2, <3>1, <3>2, <3>3, <3>4, UnderWayFrom
  <2> QED
    BY <2>1, <2>2
<1>7. UpOwn(c)'
  BY <1>2, <1>3, <1>5, UpOwnStays
<1>8. CallOwn(c)'
  BY <1>1, <1>3, <1>5, CallOwnStays
<1>9. /\ DownOwn(c)'
      /\ Tail(d) # <<>> /\ ~Starts(Tail(d)[1]) => Tail(d)[1].session = s0
  <2>1. OwnBlocks \subseteq OwnBlocks'
    BY <1>5, OwnBlocksStay
  <2> QED
    BY <1>1, <1>2, <1>3, <2>1, DownTail
<1>10. GatherOf(c)'
  <2> SUFFICES ASSUME NEW q \in Requests, req'[q].state = "wait"
               PROVE  /\ MidBlock(c, req[q].session)' => InMiddle(c, q)'
                      /\ UnderWay(c, req[q].session)' /\ ~MidBlock(c, req[q].session)' => req'[q].result_data = <<>>
    BY DEF GatherOf
  <2>1. req[q].state = "wait" /\ req'[q].session = req[q].session
    BY <1>5 DEF Stays
  <2>2. CASE req[q].session = s0
    <3>1. Awaits(q, s0)
      BY <2>1, <2>2 DEF Awaits
    <3>2. Gathers(c, q)
      BY <1>5, <3>1
    <3>3. IsPadding(Got(c)) /\ req'[q] = [req[q] EXCEPT !.result_data = Append(req[q].result_data, Data(Got(c)))]
      BY <1>1, <3>2, GathersIs
    <3>4. MidBlock(c, req[q].session)' /\ InMiddle(c, q)'
      BY <1>1, <1>2, <1>3, <3>1, <3>3, GatherOne
    <3> QED
      BY <3>4
  <2>3. CASE req[q].session # s0
    <3>1. req'[q] = req[q]
      BY <1>5, <2>3 DEF Awaits
    <3>2. ~MidBlock(c, req[q].session)
      BY <1>4, <2>3 DEF MidBlock
    <3>3. ~MidBlock(c, req[q].session)'
      BY <1>2, <1>9, <2>1, <2>3 DEF MidBlock
    <3>4. UnderWay(c, req[q].session)' => UnderWay(c, req[q].session)
      <4> DEFINE s == req[q].session
      <4>1. UnderWay(c, s)' => UnderWay(c, s')
        BY <1>6, <2>1 DEF UnderWay, Quietens
      <4> QED
        BY <2>1, <4>1 DEF UnderWay
    <3>5. UnderWay(c, req[q].session) => req[q].result_data = <<>>
      BY <1>3, <2>1, <3>2 DEF GatherOf
    <3> QED
      BY <3>1, <3>3, <3>4, <3>5
  <2> QED
    BY <2>2, <2>3
<1>11. OwnOf(c)'
  BY <1>7, <1>8, <1>9, <1>10 DEF OwnOf
<1>12. \A e \in Conns : link'[e].client = link[e].client
  BY <1>2
<1> QED
  BY <1>1, <1>5, <1>6, <1>11, <1>12

-------------------------------------------------------------------------------
(* command.req and command.push.                                           *)

\* It is so on the connections that the sender has; the others are never read again.
OwnInv == \A c \in Conns : link[c].client => OwnOf(c)

\* Sessions of a connection that the sender has, and those of requests.
OnTheWay(s) == \E c \in Conns : link[c].client /\ UnderWay(c, s)
\* A request had the session.
IsUsed(s) == \E q \in Requests : IsMade(q) /\ Numbered(q) /\ req[q].session = s

\* A session comes on the way with a request that has it to itself.
Traces == \A s : OnTheWay(s)' => OnTheWay(s) \/ s = 0 \/ IsUsed(s)'

\* No session comes on the way.
Calm == \A s : OnTheWay(s)' => OnTheWay(s)

\* Who will send its request when there is a connection has a session that is not on the way.
FreshInv == \A r \in Requests : req[r].state = "connect" /\ Numbered(r) => ~OnTheWay(req[r].session)

\* Whoever waits has a session to itself.
LEMMA WaitsLive ==
  ASSUME ThreadInv, WaitInv, TypeInv, NEW q \in Requests, req[q].state = "wait"
  PROVE  Live(q) /\ ~req[q].is_push
<1>1. req[q].session \in DOMAIN channel.thread /\ channel.thread[req[q].session] = q
  BY DEF WaitInv
<1>2. ~req[q].is_push
  BY <1>1, ThreadWaits
<1> QED
  BY <1>2 DEF Live, Numbered

\* Who waits is in the table after a step that makes or sends request r.
LEMMA OneWaits ==
  ASSUME TypeInv, ThreadInv, WaitInv, NEW r \in Requests, req[r].state # "wait",
         \A q \in Requests : q # r => req'[q] = req[q], req'[r].session \in Sessions,
         req'[r].state = "wait" => Live(r)' /\ channel'.thread = With(channel.thread, req'[r].session, r),
         req'[r].state # "wait" => channel'.thread = channel.thread,
         Live(r)' => \A q \in Requests : q # r /\ Live(q) => req[q].session # req'[r].session
  PROVE  WaitInv'
<1> DEFINE th == channel.thread
           new == req'[r].session
<1>1. th \in Tables(Requests) /\ new \in Sessions
  BY DEF TypeInv, Channels
<1>2. ASSUME NEW q \in Requests, req'[q].state = "wait", q # r
      PROVE  Live(q) /\ req'[q] = req[q] /\ req[q].session \in DOMAIN th /\ th[req[q].session] = q
  <2>1. req'[q] = req[q] /\ req[q].state = "wait"
    BY <1>2
  <2>2. Live(q)
    BY <2>1, WaitsLive
  <2> QED
    BY <2>1, <2>2 DEF WaitInv
<1> HIDE DEF th, new
<1>p. PICK s \in Sessions, t \in Tables(Requests) : s = new /\ t = th
  BY <1>1
<1>3. /\ DOMAIN With(t, s, r) = DOMAIN t \cup {s} /\ With(t, s, r)[s] = r
      /\ \A x \in DOMAIN t : x # s => With(t, s, r)[x] = t[x]
  BY <1>p, ThreadWith
<1>4. \A q \in Requests : req'[q].state = "wait" =>
        req'[q].session \in DOMAIN channel'.thread /\ channel'.thread[req'[q].session] = q
  <2>1. CASE req'[r].state # "wait"
    <3>1. channel'.thread = th
      BY <2>1 DEF th
    <3> QED
      BY <1>2, <2>1, <3>1
  <2>2. CASE req'[r].state = "wait"
    <3>1. channel'.thread = With(t, s, r) /\ \A q \in Requests : q # r /\ Live(q) => req[q].session # s
      BY <2>2, <1>p DEF th, new
    <3> SUFFICES ASSUME NEW q \in Requests, req'[q].state = "wait"
                 PROVE  req'[q].session \in DOMAIN channel'.thread /\ channel'.thread[req'[q].session] = q
      OBVIOUS
    <3>2. CASE q = r
      BY <1>3, <1>p, <3>1, <3>2 DEF new
    <3>3. CASE q # r
      <4>1. Live(q) /\ req'[q] = req[q] /\ req[q].session \in DOMAIN t /\ t[req[q].session] = q
        BY <1>2, <1>p, <3>3
      <4> QED
        BY <1>3, <3>1, <3>3, <4>1
    <3> QED
      BY <3>2, <3>3
  <2> QED
    BY <2>1, <2>2
<1>5. ASSUME NEW p \in Requests, NEW q \in Requests, Live(p)', Live(q)', req'[p].session = req'[q].session
      PROVE  p = q
  <2>1. ASSUME NEW x \in Requests, x # r, Live(x)' PROVE Live(x) /\ req'[x].session = req[x].session
    <3>1. req'[x] = req[x]
      BY <2>1
    <3> QED
      BY <2>1, <3>1 DEF Live, Numbered
  <2>2. CASE p # r /\ q # r
    <3>1. Live(p) /\ Live(q) /\ req[p].session = req[q].session
      BY <1>5, <2>1, <2>2
    <3> QED
      BY <3>1 DEF WaitInv
  <2>3. CASE p = r /\ q # r
    BY <1>5, <2>1, <2>3
  <2>4. CASE p # r /\ q = r
    BY <1>5, <2>1, <2>4
  <2> QED
    BY <2>2, <2>3, <2>4
<1> QED
  BY <1>4, <1>5 DEF WaitInv

\* Packets that a session is not in stay those of who gets its own.
LEMMA StreamKept ==
  ASSUME NEW u \in Seq(ResponsePackets), NEW B \in SUBSET AnyBlocks, NEW C, Stream(u, B), NEW x,
         \A i \in 1 .. Len(u) : u[i].session # x,
         \A b \in B : b[1].session # x => b \in C
  PROVE  Stream(u, C)
<1> SUFFICES ASSUME NEW i \in 1 .. Len(u), Starts(u[i]) PROVE \E b \in C : RunAt(u, i, b, 1)
  BY DEF Stream
<1>1. PICK b \in B : RunAt(u, i, b, 1)
  BY DEF Stream
<1>2. b \in Seq(ResponsePackets) /\ 1 \in 1 .. Len(b)
  BY <1>1, AnyBlockIs DEF RunAt
<1>3. u[i + 1 - 1] = b[1]
  BY <1>1, <1>2 DEF RunAt
<1>4. i + 1 - 1 = i
  OBVIOUS
<1>5. b \in C
  BY <1>3, <1>4
<1> QED
  BY <1>1, <1>5

\* A session that is not in use is not one of those of a connection.
LEMMA NotUnderWay ==
  ASSUME NEW c \in Conns, NEW s, ~UnderWay(c, s)
  PROVE  /\ \A i \in 1 .. Len(link[c].up) : link[c].up[i].session # s
         /\ \A i \in 1 .. Len(link[c].down) : link[c].down[i].session # s
         /\ \A call \in clusterd.calls : call.conn = c => call.session # s
BY DEF UnderWay

\* The packets of the request come after what is under way.
LEMMA SendUp ==
  ASSUME TypeInv, NEW c \in Conns, NEW r \in Requests, SendsOn(c, r), NEW i \in 1 .. Len(link'[c].up)
  PROVE  \/ i \in 1 .. Len(link[c].up) /\ link'[c].up[i] = link[c].up[i]
         \/ \E k \in 1 .. Len(Packets(r)') : link'[c].up[i] = Packets(r)'[k]
<1> DEFINE u == link[c].up
           b == Packets(r)'
<1>1. u \in Seq(RequestPackets) /\ b \in Seq(RequestPackets)
  BY DEF TypeInv, Links, SendsOn
<1>2. link'[c].up = u \/ link'[c].up = u \o b
  BY SendsIs
<1> SUFFICES (i \in 1 .. Len(u) /\ link'[c].up[i] = u[i]) \/ \E k \in 1 .. Len(b) : link'[c].up[i] = b[k]
  OBVIOUS
<1> HIDE DEF u, b
<1>p. PICK p \in Seq(RequestPackets), q \in Seq(RequestPackets) : p = u /\ q = b
  BY <1>1
<1>3. ASSUME NEW j \in 1 .. Len(p \o q)
      PROVE  (j \in 1 .. Len(p) /\ (p \o q)[j] = p[j]) \/ (\E k \in 1 .. Len(q) : (p \o q)[j] = q[k])
  BY ConcatMember, SMTT(30)
<1>4. CASE link'[c].up = u
  BY <1>4
<1>5. CASE link'[c].up = u \o b
  BY Z3, <1>3, <1>5, <1>p
<1> QED
  BY <1>2, <1>4, <1>5

\* What is on its way on the connection stays what it was, and the packets of the request
\* come after.
LEMMA SendOwn ==
  ASSUME TypeInv, MadeInv, NEW c \in Conns, NEW r \in Requests, SendsOn(c, r), OwnOf(c),
         Numbered(r)' => \A q \in Requests : req[q].state = "wait" => req[q].session # req'[r].session,
         req'[r].state = "wait" => ~UnderWay(c, req'[r].session)
  PROVE  OwnOf(c)'
<1> DEFINE b == Packets(r)'
           d == link[c].down
           u == link[c].up
           new == req'[r].session
<1>1. /\ ~IsSent(r) /\ clusterd' = clusterd /\ req'[r].result_data = <<>>
      /\ \A q \in Requests : q # r => req'[q] = req[q]
      /\ \A k \in 1 .. Len(b) : b[k].session = 0 \/ (b[k].session = new /\ Numbered(r)')
  BY DEF SendsOn
<1>2. \A i \in 1 .. Len(link'[c].up) :
        \/ i \in 1 .. Len(u) /\ link'[c].up[i] = u[i]
        \/ \E k \in 1 .. Len(b) : link'[c].up[i] = b[k]
  BY SendUp
<1>3. link'[c].down = d /\ d \in Seq(ResponsePackets)
  BY SendsIs DEF TypeInv, Links
<1>4. ASSUME req'[r].state = "wait"
      PROVE  /\ \A i \in 1 .. Len(u) : u[i].session # new
             /\ \A i \in 1 .. Len(d) : d[i].session # new
             /\ \A call \in clusterd.calls : call.conn = c => call.session # new
  <2>1. ~UnderWay(c, new)
    BY <1>4
  <2> QED
    BY <2>1, NotUnderWay
<1>5. UpOwn(c) /\ CallOwn(c) /\ DownOwn(c) /\ GatherOf(c)
  BY DEF OwnOf
<1> HIDE DEF b
<1>6. ASSUME NEW q \in Requests, q # r, req'[q].state = "wait"
      PROVE  /\ req[q].state = "wait" /\ req'[q] = req[q] /\ Packets(q)' = Packets(q)
             /\ \A k \in 1 .. Len(b) : b[k].session # req[q].session
  <2>1. req'[q] = req[q]
    BY <1>1, <1>6
  <2>2. req[q].session # 0 /\ (Numbered(r)' => req[q].session # new)
    BY <1>6, <2>1 DEF MadeInv, Sessions
  <2>3. Packets(q)' = Packets(q)
    BY <2>1 DEF Packets
  <2> HIDE DEF new
  <2> QED
    BY <1>1, <1>6, <2>1, <2>2, <2>3
<1>7. UpOwn(c)'
  <2> SUFFICES ASSUME NEW i \in 1 .. Len(link'[c].up), NEW q \in Requests, req'[q].state = "wait",
                      req'[q].session = link'[c].up[i].session
               PROVE  \E k \in 1 .. Len(Packets(q)') : link'[c].up[i] = Packets(q)'[k]
    BY DEF UpOwn, Awaits
  <2>1. CASE q = r
    <3>1. \E k \in 1 .. Len(b) : link'[c].up[i] = b[k]
      BY <1>2, <1>4, <2>1
    <3> QED
      BY <2>1, <3>1 DEF b
  <2>2. CASE q # r
    <3>1. i \in 1 .. Len(u) /\ link'[c].up[i] = u[i]
      BY <1>2, <1>6, <2>2
    <3>2. Awaits(q, u[i].session)
      BY <1>6, <2>2, <3>1 DEF Awaits
    <3> QED
      BY <1>5, <1>6, <2>2, <3>1, <3>2 DEF UpOwn
  <2> QED
    BY <2>1, <2>2
<1>8. CallOwn(c)'
  <2> SUFFICES ASSUME NEW call \in clusterd.calls, NEW q \in Requests, call.conn = c, req'[q].state = "wait",
                      req'[q].session = call.session
               PROVE  call.msg = req'[q].msg /\ req'[q].addr # QUERY
    BY <1>1 DEF CallOwn, Awaits
  <2>1. q # r
    BY <1>4
  <2>2. Awaits(q, call.session) /\ req'[q] = req[q]
    BY Zenon, <1>6, <2>1 DEF Awaits
  <2> QED
    BY <1>5, <2>2 DEF CallOwn
<1>9. Stream(d, OwnBlocks')
  <2> DEFINE B == OwnBlocks
             C == OwnBlocks'
  <2>1. B \in SUBSET AnyBlocks /\ Stream(d, B)
    BY <1>5, OwnBlocksAre DEF DownOwn
  <2>2. CASE req'[r].state # "wait"
    <3>1. Stays
      BY <1>6, <2>2 DEF Stays
    <3>2. B \subseteq C
      BY <3>1, OwnBlocksStay
    <3> QED
      BY <2>1, <3>2, StreamGrows
  <2>3. CASE req'[r].state = "wait"
    <3>1. ASSUME NEW x \in OwnBlocks, x[1].session # new PROVE x \in OwnBlocks'
      <4>1. x \in Seq(ResponsePackets) /\ x \in AnyBlocks /\ x # <<>>
        BY OwnBlocksAre, AnyBlockIs
      <4>2. PICK s \in SessionsOr0, m \in Replies :
              \/ x = lpackresponse(s, FALSE, m)
              \/ x = lpackresponse(s, TRUE, m) /\ \A q \in Requests : Awaits(q, s) => IsAnswer(q, m)
        BY DEF OwnBlocks
      <4>3. CASE x = lpackresponse(s, FALSE, m)
        BY <4>1, <4>3 DEF OwnBlocks
      <4>4. CASE x = lpackresponse(s, TRUE, m) /\ \A q \in Requests : Awaits(q, s) => IsAnswer(q, m)
        <5>1. s # new
          <6>1. \A k \in 1 .. Len(x) : x[k].session = s
            BY <4>4, BlockMade
          <6>2. 1 \in 1 .. Len(x)
            BY <4>1
          <6> QED
            BY <3>1, <6>1, <6>2
        <5>2. ASSUME NEW q \in Requests, Awaits(q, s)' PROVE IsAnswer(q, m)'
          <6>1. q # r
            BY <5>1, <5>2 DEF Awaits
          <6>2. req'[q] = req[q] /\ Awaits(q, s)
            BY <1>6, <5>2, <6>1 DEF Awaits
          <6> QED
            BY <4>4, <6>2 DEF IsAnswer
        <5> QED
          BY <4>1, <4>4, <5>2 DEF OwnBlocks
      <4> QED
        BY <4>2, <4>3, <4>4
    <3>e. PICK E : E = C
      OBVIOUS
    <3>x. PICK x : x = new
      OBVIOUS
    <3>w. PICK w \in Seq(ResponsePackets), D \in SUBSET AnyBlocks : w = d /\ D = B
      BY <1>3, <2>1
    <3>p. w = d /\ D = B /\ E = C /\ x = new
      BY <3>e, <3>w, <3>x
    <3>2. /\ Stream(w, D) /\ \A i \in 1 .. Len(w) : w[i].session # x
          /\ \A e \in D : e[1].session # x => e \in E
      BY <1>4, <2>1, <2>3, <3>1, <3>p
    <3>3. w \in Seq(ResponsePackets) /\ D \in SUBSET AnyBlocks
      BY <3>p
    <3>4. Stream(w, E)
      BY <3>2, <3>3, StreamKept, Zenon
    <3> QED
      BY <3>4, <3>p
  <2> QED
    BY <2>2, <2>3
<1>10. DownOwn(c)'
  BY <1>3, <1>5, <1>9 DEF DownOwn
<1>11. GatherOf(c)'
  <2> SUFFICES ASSUME NEW q \in Requests, req'[q].state = "wait"
               PROVE  /\ MidBlock(c, req[q].session)' => InMiddle(c, q)'
                      /\ UnderWay(c, req[q].session)' /\ ~MidBlock(c, req[q].session)' => req'[q].result_data = <<>>
    BY DEF GatherOf
  <2>1. CASE q = r
    <3>1. ~MidBlock(c, req[q].session)'
      <4>1. MidBlock(c, req[q].session)' => d # <<>> /\ d[1].session = new
        BY <1>3, <2>1 DEF MidBlock
      <4>2. d # <<>> => 1 \in 1 .. Len(d)
        BY <1>3
      <4> QED
        BY Zenon, <1>4, <2>1, <4>1, <4>2
    <3> QED
      BY <1>1, <2>1, <3>1
  <2>2. CASE q # r
    <3> DEFINE s == req[q].session
    <3>1. /\ req[q].state = "wait" /\ req'[q] = req[q]
          /\ \A k \in 1 .. Len(b) : b[k].session # s
      BY Zenon, <1>6, <2>2
    <3>2. MidBlock(c, s)' <=> MidBlock(c, s)
      BY Zenon, <1>3, <3>1 DEF MidBlock
    <3>3. UnderWay(c, s)' => UnderWay(c, s)
      <4>1. (\E i \in 1 .. Len(link'[c].up) : link'[c].up[i].session = s) => UnderWay(c, s)
        <5>1. ASSUME NEW i \in 1 .. Len(link'[c].up), link'[c].up[i].session = s
              PROVE  \E j \in 1 .. Len(link[c].up) : link[c].up[j].session = s
          BY <1>2, <3>1, <5>1
        <5> QED
          BY Zenon, <5>1 DEF UnderWay
      <4> QED
        BY Zenon, <1>1, <1>3, <3>1, <4>1 DEF UnderWay
    <3>4. InMiddle(c, q) => InMiddle(c, q)'
      BY <1>3, <3>1 DEF InMiddle, IsAnswer
    <3> QED
      BY <1>5, <3>1, <3>2, <3>3, <3>4 DEF GatherOf
  <2> QED
    BY <2>1, <2>2
<1> QED
  BY <1>7, <1>8, <1>10, <1>11 DEF OwnOf

\* Where sessions are under way after it.
LEMMA SendTraces ==
  ASSUME TypeInv, NEW c \in Conns, NEW r \in Requests, SendsOn(c, r), NEW s, UnderWay(c, s)'
  PROVE  UnderWay(c, s) \/ s = 0 \/ (s = req'[r].session /\ Numbered(r)')
<1> DEFINE b == Packets(r)'
<1>1. /\ clusterd' = clusterd /\ link'[c].down = link[c].down
      /\ \A k \in 1 .. Len(b) : b[k].session = 0 \/ (b[k].session = req'[r].session /\ Numbered(r)')
  BY SendsIs DEF SendsOn
<1>2. \A i \in 1 .. Len(link'[c].up) :
        \/ i \in 1 .. Len(link[c].up) /\ link'[c].up[i] = link[c].up[i]
        \/ \E k \in 1 .. Len(b) : link'[c].up[i] = b[k]
  BY SendUp
<1> HIDE DEF b
<1>3. CASE \E i \in 1 .. Len(link'[c].up) : link'[c].up[i].session = s
  BY <1>1, <1>2, <1>3 DEF UnderWay
<1>4. CASE \/ \E i \in 1 .. Len(link[c].down) : link[c].down[i].session = s
           \/ \E call \in clusterd.calls : call.conn = c /\ call.session = s
  BY <1>4 DEF UnderWay
<1> QED
  BY Zenon, <1>1, <1>3, <1>4 DEF UnderWay

\* A session that comes on the way when request r is sent.
LEMMA SendsOwn ==
  ASSUME TypeInv, MadeInv, ThreadInv, WaitInv, OwnInv, NEW c \in Conns, NEW r \in Requests, SendsOn(c, r),
         link[c].client, \A d \in Conns : d # c => ~link[d].client,
         Numbered(r)' => /\ \A q \in Requests : q # r /\ Live(q) => req[q].session # req'[r].session
                         /\ ~OnTheWay(req'[r].session)
  PROVE  /\ WaitInv' /\ OwnInv' /\ Settles
         /\ \A s : OnTheWay(s)' => OnTheWay(s) \/ s = 0 \/ (s = req'[r].session /\ Numbered(r)')
<1> DEFINE new == req'[r].session
           p == req'[r].is_push
<1>1. /\ ~IsSent(r) /\ req'[r].state = (IF p = TRUE THEN "done" ELSE "wait") /\ p \in BOOLEAN /\ new \in Sessions
      /\ req'[r].result = NoResult
      /\ \A q \in Requests : q # r => req'[q] = req[q]
      /\ channel'.thread = IF p = TRUE THEN channel.thread ELSE With(channel.thread, new, r)
  BY DEF SendsOn
<1>2. /\ req[r].state # "wait" /\ (req'[r].state = "wait" => Numbered(r)' /\ p = FALSE)
      /\ (req'[r].state # "wait" => p = TRUE)
  BY <1>1 DEF IsSent, Numbered
<1> HIDE DEF p, new
<1>3. WaitInv'
  <2>1. req'[r].state = "wait" => Live(r)' /\ channel'.thread = With(channel.thread, new, r)
    BY <1>1, <1>2 DEF Live
  <2>2. req'[r].state # "wait" => channel'.thread = channel.thread
    BY <1>1, <1>2
  <2>3. Live(r)' => \A q \in Requests : q # r /\ Live(q) => req[q].session # new
    BY DEF Live, new
  <2> QED
    BY <1>1, <1>2, <2>1, <2>2, <2>3, OneWaits DEF new
<1>4. Settles
  BY <1>1 DEF Settles
<1>5. Numbered(r)' => ~UnderWay(c, new)
  BY DEF OnTheWay, new
<1>6. Numbered(r)' => \A q \in Requests : req[q].state = "wait" => req[q].session # new
  <2>1. ASSUME NEW q \in Requests, req[q].state = "wait" PROVE q # r /\ Live(q)
    BY <1>2, <2>1, WaitsLive
  <2> QED
    BY <2>1 DEF new
<1>7. OwnOf(c)'
  <2>1. OwnOf(c) /\ (req'[r].state = "wait" => ~UnderWay(c, new))
    BY <1>2, <1>5 DEF OwnInv
  <2> QED
    BY <1>6, <2>1, SendOwn DEF new
<1>8. \A d \in Conns : link'[d].client => d = c
  <2>1. \A d \in Conns : d # c => link'[d] = link[d]
    BY SendsIs
  <2> QED
    BY <2>1
<1>9. OwnInv'
  BY <1>7, <1>8 DEF OwnInv
<1>10. ASSUME NEW s, OnTheWay(s)' PROVE OnTheWay(s) \/ s = 0 \/ (s = new /\ Numbered(r)')
  <2>1. UnderWay(c, s)'
    BY <1>8, <1>10 DEF OnTheWay
  <2>2. UnderWay(c, s) \/ s = 0 \/ (s = new /\ Numbered(r)')
    BY <2>1, SendTraces DEF new
  <2> QED
    BY <2>2 DEF OnTheWay
<1> QED
  BY <1>3, <1>4, <1>9, <1>10 DEF new

\* command.req and command.push keep the invariants of answers, when their session is
\* free.
LEMMA RequestOwn ==
  ASSUME TypeInv, MadeInv, LinkInv, ChannelInv, ThreadInv, WaitInv, OwnInv, FreshInv, SessionIsFree,
         NEW r \in Requests, NEW addr \in Addresses, NEW size \in Sizes, NEW is_push \in BOOLEAN,
         Request(r, addr, size, is_push)
  PROVE  WaitInv' /\ OwnInv' /\ FreshInv' /\ Settles /\ Traces
<1>0. PICK st \in {"connect", "wait", "done"} : Makes(r, addr, size, is_push, st)
  BY RequestIs
<1>1. /\ st = "connect" <=> ~Connected
      /\ req[r].state = "none" /\ wakeup.list = {}
      /\ \A q \in Requests : q # r => req'[q] = req[q]
      /\ req'[r] = Record(r, addr, size, is_push, session, st)
      /\ ~Connected => /\ link' = link
                       /\ channel' = IF Connecting THEN [channel EXCEPT !.waiting = @ \cup {r}]
                                     ELSE [channel EXCEPT !.connecting = Some(r), !.retry = 0]
      /\ clusterd' = clusterd
  BY <1>0, Zenon DEF Makes
<1>2. /\ req'[r].state = st /\ req'[r].session = session /\ req'[r].result = NoResult
      /\ session \in Sessions
  BY <1>1 DEF Record, TypeInv
<1>3. ~InUse(session)
  BY <1>1 DEF SessionIsFree
<1>4. (\A q \in Requests : Live(q) => req[q].session # session) /\ ~OnTheWay(session)
  BY <1>3 DEF InUse, OnTheWay
<1>5. CASE ~Connected
  <2>1. channel'.thread = channel.thread
    BY <1>1, <1>5 DEF TypeInv, Channels
  <2>2. WaitInv'
    BY <1>1, <1>2, <1>4, <1>5, <2>1, OneWaits
  <2>3. Stays /\ Settles /\ \A q \in Requests : req'[q].state = "wait" => req'[q].result_data = req[q].result_data
    BY <1>1, <1>2, <1>5 DEF Stays, Settles
  <2>4. ASSUME NEW c \in Conns, link[c].client PROVE OwnOf(c)' /\ \A s : UnderWay(c, s)' => UnderWay(c, s)
    <3>1. OwnOf(c) /\ link'[c].up = link[c].up /\ link'[c].down = link[c].down
          /\ \A call \in clusterd'.calls : call.conn = c => call \in clusterd.calls
      BY <1>1, <1>5, <2>4 DEF OwnInv
    <3> QED
      BY <2>3, <3>1, OwnQuiet
  <2>5. link' = link
    BY <1>1, <1>5
  <2>6. OwnInv' /\ Calm
    BY <2>4, <2>5 DEF OwnInv, Calm, OnTheWay
  <2>7. FreshInv'
    <3> SUFFICES ASSUME NEW q \in Requests, req'[q].state = "connect", Numbered(q)', OnTheWay(req[q].session)' PROVE FALSE
      BY DEF FreshInv
    <3>1. OnTheWay(req'[q].session)
      <4>1. PICK s : s = req'[q].session
        OBVIOUS
      <4>2. OnTheWay(s)'
        BY <4>1 DEF OnTheWay, UnderWay
      <4> QED
        BY <2>6, <4>1, <4>2 DEF Calm
    <3>2. q # r
      BY <1>2, <1>4, <3>1
    <3>3. req'[q] = req[q]
      BY <1>1, <3>2
    <3> QED
      BY <3>1, <3>3 DEF FreshInv, Numbered
  <2> QED
    BY <2>2, <2>3, <2>6, <2>7 DEF Calm, Traces
<1>6. CASE Connected
  <2>1. PICK c \in Conns : c = channel.conn_id
    BY <1>6 DEF Connected, TypeInv, Channels
  <2>2. SendsOn(c, r)
    BY <1>0, <1>6, <2>1, MakesSends
  <2>3. link[c].client /\ \A d \in Conns : d # c => ~link[d].client
    <3>1. channel.opened = 0
      BY <1>6 DEF ChannelInv
    <3> QED
      BY <2>1, <3>1 DEF LinkInv, Conns
  <2>4. /\ WaitInv' /\ OwnInv' /\ Settles
        /\ \A s : OnTheWay(s)' => OnTheWay(s) \/ s = 0 \/ (s = req'[r].session /\ Numbered(r)')
    BY <1>2, <1>4, <2>2, <2>3, SendsOwn
  <2>5. FreshInv'
    <3>1. Who \cup channel.waiting \cup Marked = {}
      BY <1>1, <1>6 DEF ChannelInv, Who, Marked
    <3>2. \A q \in Requests : req[q].state # "connect"
      BY <3>1 DEF ChannelInv
    <3>3. \A q \in Requests : req'[q].state # "connect"
      BY <1>1, <1>2, <1>6, <3>2
    <3> QED
      BY <3>3 DEF FreshInv
  <2>6. Traces
    <3>1. IsMade(r)'
      BY <1>1, <1>2 DEF IsMade
    <3> QED
      BY <2>4, <3>1 DEF Traces, IsUsed
  <2> QED
    BY <2>4, <2>5, <2>6
<1> QED
  BY <1>5, <1>6

-------------------------------------------------------------------------------
(* The other steps.                                                        *)

\* Every step that is not a request makes none.
Idle ==
  session' = session /\ \A r \in Requests : /\ req[r].state = "none" => req'[r].state = "none"
                                            /\ req'[r].state = "connect" => req'[r] = req[r]

\* Sessions stay fresh when none comes on the way.
LEMMA CalmFresh ==
  ASSUME FreshInv, Calm, Idle
  PROVE  FreshInv' /\ Traces
<1>1. FreshInv'
  <2> SUFFICES ASSUME NEW q \in Requests, req'[q].state = "connect", Numbered(q)', OnTheWay(req[q].session)' PROVE FALSE
    BY DEF FreshInv
  <2>1. req'[q] = req[q]
    BY DEF Idle
  <2>2. OnTheWay(req'[q].session)
    <3>1. PICK s : s = req'[q].session
      OBVIOUS
    <3>2. OnTheWay(s)'
      BY <3>1 DEF OnTheWay, UnderWay
    <3> QED
      BY <3>1, <3>2 DEF Calm
  <2> QED
    BY <2>1, <2>2 DEF FreshInv, Numbered
<1> QED
  BY <1>1 DEF Calm, Traces

\* A step after which the channel has no connection: on one that was opened for it nothing
\* is under way.
LEMMA NoClientOwn ==
  ASSUME LinkInv', channel'.conn_id = 0
  PROVE  OwnInv' /\ Calm
<1>1. ASSUME NEW c \in Conns, link'[c].client
      PROVE  /\ Len(link'[c].up) = 0 /\ Len(link'[c].down) = 0 /\ link'[c].down = <<>>
             /\ \A call \in clusterd'.calls : call.conn # c
  <2>1. Len(<<>>) = 0
    OBVIOUS
  <2> QED
    BY <1>1, <2>1 DEF LinkInv, Conns
<1>2. ASSUME NEW c \in Conns, link'[c].client PROVE OwnOf(c)' /\ \A s : ~UnderWay(c, s)'
  <2>1. \A s : ~UnderWay(c, s)'
    BY <1>1, <1>2 DEF UnderWay
  <2>2. UpOwn(c)' /\ CallOwn(c)' /\ DownOwn(c)'
    BY <1>1, <1>2 DEF UpOwn, CallOwn, DownOwn, Stream
  <2>3. GatherOf(c)'
    <3>1. \A r \in Requests : ~MidBlock(c, req[r].session)'
      BY <1>1, <1>2 DEF MidBlock
    <3>2. \A r \in Requests : ~UnderWay(c, req[r].session)'
      BY <1>1, <1>2 DEF UnderWay
    <3> QED
      BY <3>1, <3>2 DEF GatherOf
  <2> QED
    BY <2>1, <2>2, <2>3 DEF OwnOf
<1> QED
  BY <1>2 DEF OwnInv, Calm, OnTheWay

\* A step that leaves the connection as good as it was.
LEMMA SameClientOwn ==
  ASSUME OwnInv, \A c \in Conns : link'[c].client <=> link[c].client, Quietens,
         \A c \in Conns : link[c].client /\ OwnOf(c) => OwnOf(c)'
  PROVE  OwnInv' /\ Calm
BY DEF OwnInv, Calm, OnTheWay, Quietens

\* A step of the network or of clusterd.
LEMMA RemoteOwn ==
  ASSUME LinkInv, LinkInv', WaitInv, OwnInv, req' = req, channel' = channel, Quietens,
         \A c \in Conns : link[c].client /\ OwnOf(c) => OwnOf(c)'
  PROVE  WaitInv' /\ OwnInv' /\ Settles /\ Calm
<1>1. Stays
  BY DEF Stays
<1>2. WaitInv'
  BY <1>1, WaitStays
<1>3. Settles
  BY DEF Settles
<1>4. \A c \in Conns : link'[c].client <=> link[c].client
  BY DEF LinkInv
<1> QED
  BY <1>2, <1>3, <1>4, SameClientOwn

\* The same when nothing is written, and requests may fail.
LEMMA QuietOwn ==
  ASSUME TypeInv, WaitInv, OwnInv, channel'.thread = channel.thread, clusterd'.calls \subseteq clusterd.calls,
         \A r \in Requests : req'[r] = req[r] \/ (req'[r].state = "done" /\ req'[r].result = Error),
         \A c \in Conns : /\ link'[c].client <=> link[c].client
                          /\ link'[c].up = link[c].up \/ link'[c].up = <<>>
                          /\ link'[c].down = link[c].down
  PROVE  WaitInv' /\ OwnInv' /\ Settles /\ Calm
<1>1. /\ Stays /\ Settles /\ \A r \in Requests : req'[r].state = "connect" => req'[r] = req[r]
      /\ \A r \in Requests : req'[r].state = "wait" => req'[r].result_data = req[r].result_data
  BY DEF Stays, Settles
<1>2. Quietens
  <2> SUFFICES ASSUME NEW c \in Conns, NEW s, UnderWay(c, s)' PROVE UnderWay(c, s)
    BY DEF Quietens
  <2>1. Len(<<>>) = 0
    OBVIOUS
  <2> QED
    BY <2>1 DEF UnderWay
<1>3. ASSUME NEW c \in Conns, OwnOf(c) PROVE OwnOf(c)'
  BY <1>1, <1>3, OwnQuiet
<1>4. WaitInv'
  BY <1>1, WaitStays
<1> QED
  BY <1>1, <1>2, <1>3, <1>4, SameClientOwn

\* channel:close and a read_response that raises keep the invariants of answers: no
\* connection is left to answer on.
LEMMA DisconnectsOwn ==
  ASSUME TypeInv, ThreadInv, WaitInv, LinkInv', Disconnects
  PROVE  WaitInv' /\ OwnInv' /\ Settles /\ Calm /\ Idle
<1>1. /\ WaitInv'
      /\ \A r \in Requests : req'[r].result = req[r].result
      /\ \A r \in Requests : req'[r].state = "connect" => req'[r] = req[r]
  BY DisconnectsWait
<1>2. channel'.conn_id = 0 /\ session' = session /\ wakeup_all(req)
  BY DEF Disconnects, TypeInv, Channels
<1>3. Settles
  BY <1>1 DEF Settles
<1>4. \A r \in Requests : req'[r] # req[r] => req[r].state = "wait"
  <2> SUFFICES ASSUME NEW r \in Requests, req'[r] # req[r] PROVE req[r].state = "wait"
    OBVIOUS
  <2> QED
    BY <1>2, WakeupMoves
<1>5. Idle
  <2>1. \A r \in Requests : req'[r].state = "connect" => req'[r] = req[r]
    BY <1>1
  <2>2. \A r \in Requests : req[r].state = "none" => req'[r].state = "none"
    BY <1>4
  <2> QED
    BY <1>2, <2>1, <2>2 DEF Idle
<1> QED
  BY <1>1, <1>2, <1>3, <1>5, NoClientOwn

\* Events before the channel has a connection, and changehost, keep the invariants of
\* answers, though who is in thread still waits.
LEMMA UnconnectedOwn ==
  ASSUME TypeInv, WaitInv, LinkInv', channel'.conn_id = 0, channel'.thread = channel.thread, session' = session,
         \A r \in Requests : req'[r] = req[r] \/ (req[r].state # "none" /\ req'[r].state = "done" /\ req'[r].result = Error)
  PROVE  WaitInv' /\ OwnInv' /\ Settles /\ Calm /\ Idle
<1>1. Stays /\ Settles /\ Idle
  BY DEF Stays, Settles, Idle
<1>2. WaitInv'
  BY <1>1, WaitStays DEF Idle
<1> QED
  BY <1>1, <1>2, NoClientOwn

\* One round of dispatch_by_session keeps the invariants of answers.
LEMMA ReceivesOwn ==
  ASSUME TypeInv, LinkInv, ChannelInv, ThreadInv, WaitInv, OwnInv, NEW c \in Conns, Receive(c)
  PROVE  WaitInv' /\ OwnInv' /\ Settles /\ Calm
<1>1. channel.conn_id = c
  BY Zenon DEF Receive
<1>2. link[c].client /\ \A d \in Conns : link[d].client => d = c
  <2>1. channel.opened = 0
    BY <1>1 DEF ChannelInv, Connected, Conns
  <2> QED
    BY <1>1, <2>1 DEF LinkInv, Conns
<1>3. OwnOf(c)
  BY <1>2 DEF OwnInv
<1>4. OwnOf(c)' /\ WaitInv' /\ Settles /\ Quietens /\ \A d \in Conns : link'[d].client = link[d].client
  BY <1>3, ReceiveOwn
<1>5. \A d \in Conns : link[d].client /\ OwnOf(d) => OwnOf(d)'
  BY <1>2, <1>4
<1> QED
  BY Zenon, <1>4, <1>5, SameClientOwn

\* A connection that is cut keeps the invariants of answers: what it drops is asked for
\* by nobody else.
LEMMA BreakOwn ==
  ASSUME TypeInv, WaitInv, OwnInv, NEW c \in Conns, Break(c)
  PROVE  WaitInv' /\ OwnInv' /\ Settles /\ Calm
<1>1. /\ link' = [link EXCEPT ![c].cut = TRUE] /\ channel' = channel /\ req' = req /\ clusterd' = clusterd
  BY DEF Break
<1>2. \A d \in Conns : link'[d].up = link[d].up /\ link'[d].down = link[d].down /\ link'[d].client = link[d].client
  BY <1>1 DEF TypeInv, Links
<1> QED
  BY <1>1, <1>2, QuietOwn

\* The end of read_loop keeps the invariants of answers.
LEMMA ServerCloseOwn ==
  ASSUME TypeInv, WaitInv, OwnInv, NEW c \in Conns, ServerClose(c)
  PROVE  WaitInv' /\ OwnInv' /\ Settles /\ Calm
<1>1. /\ link' = [link EXCEPT ![c].server = FALSE, ![c].up = <<>>, ![c].large_request = <<>>]
      /\ clusterd' = [clusterd EXCEPT !.listening = @ /\ clusterd.first_id + c - 1 # 1]
      /\ channel' = channel /\ req' = req
  BY DEF ServerClose
<1>2. clusterd'.calls = clusterd.calls
  <2> DEFINE b == clusterd.listening /\ clusterd.first_id + c - 1 # 1
  <2>1. clusterd' = [clusterd EXCEPT !.listening = b] /\ clusterd \in Daemons
    BY <1>1 DEF TypeInv
  <2> HIDE DEF b
  <2> QED
    BY <2>1 DEF Daemons
<1>3. \A d \in Conns : d # c => link'[d] = link[d]
  BY <1>1 DEF TypeInv
<1>4. link'[c].up = <<>> /\ link'[c].down = link[c].down /\ link'[c].client = link[c].client
  BY <1>1 DEF TypeInv, Links
<1>5. \A d \in Conns : /\ link'[d].up = link[d].up \/ link'[d].up = <<>>
                       /\ link'[d].down = link[d].down /\ link'[d].client = link[d].client
  BY <1>3, <1>4
<1> QED
  BY <1>1, <1>2, <1>5, QuietOwn

\* command.register and command.unregister keep the invariants of answers.
LEMMA RenameOwn ==
  ASSUME TypeInv, WaitInv, OwnInv, NEW handle, Rename(handle)
  PROVE  WaitInv' /\ OwnInv' /\ Settles /\ Calm
<1>1. /\ clusterd' = [clusterd EXCEPT !.register_name = handle] /\ link' = link /\ channel' = channel /\ req' = req
  BY DEF Rename
<1>2. clusterd'.calls = clusterd.calls
  BY <1>1 DEF TypeInv, Daemons
<1> QED
  BY <1>1, <1>2, QuietOwn

\* dispatch_request keeps the invariants of answers.
LEMMA DeliversOwn ==
  ASSUME TypeInv, MadeInv, UpInv, LinkInv, LinkInv', WaitInv, OwnInv, NEW c \in Conns, Deliver(c)
  PROVE  WaitInv' /\ OwnInv' /\ Settles /\ Calm
<1>1. req' = req /\ channel' = channel
  BY DeliverIs
<1>2. \A d \in Conns : (\A s : UnderWay(d, s)' => UnderWay(d, s)) /\ (OwnOf(d) => OwnOf(d)')
  BY DeliverOwn
<1>3. Quietens
  BY <1>2 DEF Quietens
<1> QED
  BY <1>1, <1>2, <1>3, RemoteOwn

\* A service's answer keeps the invariants of answers.
LEMMA AnswersOwn ==
  ASSUME TypeInv, MadeInv, CallInv, LinkInv, LinkInv', WaitInv, OwnInv,
         NEW call \in clusterd.calls, NEW ok \in BOOLEAN, NEW size, ok => size \in ReplySizes, Answer(call, ok, size)
  PROVE  WaitInv' /\ OwnInv' /\ Settles /\ Calm
<1>1. PICK r \in Requests, m \in Replies : Answers(call, r, ok, m)
  BY AnswerIs
<1>2. req' = req /\ channel' = channel
  BY AnswerIs
<1>3. \A d \in Conns : (\A s : UnderWay(d, s)' => UnderWay(d, s)) /\ (OwnOf(d) => OwnOf(d)')
  BY <1>1, <1>2, AnswerOwn
<1>4. Quietens
  BY <1>3 DEF Quietens
<1> QED
  BY <1>2, <1>3, <1>4, RemoteOwn

\* dispatch_by_session makes no request, and sends none.
LEMMA ReceiveIdle ==
  ASSUME TypeInv, ThreadInv, NEW c \in Conns, Receive(c)
  PROVE  Idle
<1>1. /\ link[c].down # <<>> /\ session' = session
      /\ \/ Ignored(c)
         \/ \E r \in Requests : Gathers(c, r)
         \/ \E r \in Requests, ok \in BOOLEAN : \E outcome : Ends(c, r, ok, outcome)
  BY ReceiveIs
<1>2. ASSUME NEW q \in Requests, req'[q] # req[q] PROVE req[q].state = "wait" /\ req'[q].state # "connect"
  <2>1. CASE Ignored(c)
    BY <1>2, <2>1 DEF Ignored
  <2>2. CASE \E r \in Requests : Gathers(c, r)
    <3>1. PICK r \in Requests : Gathers(c, r)
      BY <2>2
    <3>2. /\ Awaits(r, Got(c).session) /\ req'[r].state = "wait"
          /\ \A p \in Requests : p # r => req'[p] = req[p]
      BY <1>1, <3>1, GathersIs
    <3> QED
      BY <1>2, <3>2 DEF Awaits
  <2>3. CASE \E r \in Requests, ok \in BOOLEAN : \E outcome : Ends(c, r, ok, outcome)
    <3>1. PICK r \in Requests, ok \in BOOLEAN : \E outcome : Ends(c, r, ok, outcome)
      BY <2>3
    <3>2. PICK outcome : Ends(c, r, ok, outcome)
      BY <3>1
    <3>3. /\ Awaits(r, Got(c).session) /\ req'[r].state = "done"
          /\ \A p \in Requests : p # r => req'[p] = req[p]
      BY <1>1, <3>2, EndsIs
    <3> QED
      BY <1>2, <3>3 DEF Awaits
  <2> QED
    BY <1>1, <2>1, <2>2, <2>3
<1> QED
  BY <1>1, <1>2 DEF Idle

\* An event of the attempt to connect keeps the invariants of answers.
LEMMA OpensOwn ==
  ASSUME TypeInv, ChannelInv, LinkInv', WaitInv, NEW c \in Conns, ConnectOk(c) \/ OpenedEnds(c)
  PROVE  WaitInv' /\ OwnInv' /\ Settles /\ Calm /\ Idle
<1>1. (Opens(c) \/ OpenedCloses(c)) /\ session' = session /\ req' = req
  BY OpensIs
<1>2. channel.conn_id = 0
  <2>1. CASE Opens(c)
    BY <2>1 DEF Opens, ChannelInv, Connected
  <2>2. CASE OpenedCloses(c)
    <3>1. channel.opened # 0
      BY <2>2 DEF OpenedCloses, Conns
    <3> QED
      BY <3>1 DEF ChannelInv, Connected
  <2> QED
    BY <1>1, <2>1, <2>2
<1>3. channel'.conn_id = 0 /\ channel'.thread = channel.thread
  BY <1>1, <1>2 DEF Opens, OpenedCloses, TypeInv, Channels
<1> QED
  BY <1>1, <1>3, UnconnectedOwn

\* command.changenode keeps the invariants of answers.
LEMMA ChangeHostOwn ==
  ASSUME TypeInv, ChannelInv, LinkInv', WaitInv, ChangeHost
  PROVE  WaitInv' /\ OwnInv' /\ Settles /\ Calm /\ Idle
<1>1. /\ session' = session /\ req' = req
      /\ channel' = IF Connecting THEN channel
                    ELSE [channel EXCEPT !.conn_id = 0, !.connecting = Some(CHANGENODE), !.retry = 0]
  BY DEF ChangeHost
<1>2. channel'.conn_id = 0 /\ channel'.thread = channel.thread
  <2>1. CASE Connecting
    BY <1>1, <2>1 DEF ChannelInv, Connected
  <2>2. CASE ~Connecting
    BY <1>1, <2>2 DEF TypeInv, Channels
  <2> QED
    BY <2>1, <2>2
<1> QED
  BY <1>1, <1>2, UnconnectedOwn

\* A step that leaves requests, connections and clusterd alone keeps the invariants of
\* answers.
LEMMA SameOwn ==
  ASSUME TypeInv, WaitInv, OwnInv, session' = session, req' = req, link' = link, clusterd' = clusterd,
         channel'.thread = channel.thread
  PROVE  WaitInv' /\ OwnInv' /\ Settles /\ Calm /\ Idle
<1>1. Idle
  BY DEF Idle
<1> QED
  BY <1>1, QuietOwn

\* Who waited for the connection sends on it, under a session that is still fresh.
LEMMA FreshSends ==
  ASSUME TypeInv, MadeInv, ThreadInv, WaitInv, OwnInv, FreshInv, NEW c \in Conns, NEW r \in Requests,
         req[r].state = "connect", SendsOn(c, r), session' = session,
         link[c].client, \A d \in Conns : d # c => ~link[d].client
  PROVE  WaitInv' /\ OwnInv' /\ FreshInv' /\ Settles /\ Traces /\ Idle
<1>1. /\ Kept(r) /\ \A q \in Requests : q # r => req'[q] = req[q]
      /\ req'[r].state # "connect" /\ req'[r].state # "none"
  BY DEF SendsOn
<1>2. req'[r].session = req[r].session /\ (Numbered(r)' <=> Numbered(r))
  BY <1>1 DEF Kept, Numbered
<1>3. ASSUME Numbered(r)'
      PROVE  /\ Live(r) /\ ~OnTheWay(req[r].session)
             /\ \A q \in Requests : q # r /\ Live(q) => req[q].session # req[r].session
  <2>1. Live(r)
    BY <1>2, <1>3 DEF Live
  <2>2. ~OnTheWay(req[r].session)
    BY <1>2, <1>3 DEF FreshInv
  <2> QED
    BY <2>1, <2>2 DEF WaitInv
<1>4. /\ WaitInv' /\ OwnInv' /\ Settles
      /\ \A s : OnTheWay(s)' => OnTheWay(s) \/ s = 0 \/ (s = req'[r].session /\ Numbered(r)')
  <2>1. PICK s : s = req'[r].session
    OBVIOUS
  <2>2. Numbered(r)' => (\A q \in Requests : q # r /\ Live(q) => req[q].session # s) /\ ~OnTheWay(s)
    <3>1. ASSUME Numbered(r)' PROVE ~OnTheWay(s)
      BY <1>2, <1>3, <2>1, <3>1
    <3> QED
      BY <1>2, <1>3, <2>1, <3>1
  <2> QED
    BY <2>1, <2>2, SendsOwn
<1>5. Idle
  BY <1>1 DEF Idle
<1>6. FreshInv'
  <2> SUFFICES ASSUME NEW q \in Requests, req'[q].state = "connect", Numbered(q)', OnTheWay(req[q].session)' PROVE FALSE
    BY DEF FreshInv
  <2>1. q # r /\ req'[q] = req[q]
    BY <1>1
  <2>2. Live(q) /\ req[q].session # 0 /\ ~OnTheWay(req[q].session)
    <3>1. req[q].state = "connect" /\ Numbered(q)
      BY <2>1 DEF Numbered
    <3>2. req[q].session \in Sessions
      BY <3>1 DEF MadeInv
    <3> QED
      BY <3>1, <3>2 DEF Live, FreshInv, Sessions
  <2>3. PICK s : s = req'[q].session
    OBVIOUS
  <2>4. OnTheWay(s)'
    BY <2>3 DEF OnTheWay, UnderWay
  <2>5. OnTheWay(s) \/ s = 0 \/ (s = req'[r].session /\ Numbered(r)')
    BY <1>4, <2>4
  <2>6. s = req[q].session
    BY <2>1, <2>3
  <2>7. s = req[r].session /\ Numbered(r)'
    BY <1>2, <2>2, <2>5, <2>6
  <2> QED
    BY <1>3, <2>1, <2>2, <2>6, <2>7
<1>7. Traces
  <2> SUFFICES ASSUME NEW s, OnTheWay(s)' PROVE OnTheWay(s) \/ s = 0 \/ IsUsed(s)'
    BY DEF Traces
  <2>1. CASE s = req'[r].session /\ Numbered(r)'
    BY <1>1, <2>1 DEF IsUsed, IsMade
  <2> QED
    BY <1>4, <2>1
<1> QED
  BY <1>4, <1>5, <1>6, <1>7

\* The end of block_connect, and what is behind it, keeps the invariants of answers.
LEMMA ConnectsOwn ==
  ASSUME Inv, WaitInv, OwnInv, FreshInv, NEW co \in wakeup.list, Connects(co), Goes
  PROVE  WaitInv' /\ OwnInv' /\ FreshInv' /\ Settles /\ Traces /\ Idle
<1>1. TypeInv /\ MadeInv /\ LinkInv /\ ChannelInv /\ ThreadInv
  BY DEF Inv
<1>2. /\ channel.connecting = Some(co) /\ channel.opened # 0
      /\ co = CHANGENODE => channel'.thread = channel.thread /\ req' = req /\ link' = link
      /\ co # CHANGENODE => /\ Sends(co, channel.opened)
                            /\ channel'.thread = push_response(channel.thread, co, req[co])
  BY <1>1, ConnectsChannel
<1>3. PICK c \in Conns : c = channel.opened
  BY <1>1, <1>2 DEF TypeInv, Channels
<1>4. Who = {co} /\ co \in Coroutines /\ channel.conn_id = 0
  <2>1. Who = {co} /\ co \in Coroutines /\ Connecting
    BY <1>1, <1>2, WhoIs
  <2> QED
    BY <1>1, <2>1 DEF ChannelInv, Connected
<1>5. CASE co = CHANGENODE
  <2>1. WaitInv' /\ OwnInv' /\ Settles /\ Calm /\ Idle
    BY <1>1, <1>2, <1>5, SameOwn DEF Goes
  <2> QED
    BY <2>1, CalmFresh
<1>6. CASE co # CHANGENODE
  <2>1. co \in Requests /\ req[co].state = "connect"
    BY <1>1, <1>4, <1>6 DEF Coroutines, ChannelInv
  <2>2. SendsOn(c, co)
    BY <1>1, <1>2, <1>3, <1>6, <2>1, ResumeSends DEF Goes
  <2>3. link[c].client /\ \A d \in Conns : d # c => ~link[d].client
    BY <1>1, <1>3, <1>4 DEF LinkInv, Conns
  <2> QED
    BY <1>1, <2>1, <2>2, <2>3, FreshSends DEF Goes
<1> QED
  BY <1>5, <1>6

\* An attempt that failed keeps the invariants of answers, the last one or not.
LEMMA GivesUpOwn ==
  ASSUME Inv, LinkInv', WaitInv, OwnInv, NEW co \in wakeup.list, GivesUp(co), Goes
  PROVE  WaitInv' /\ OwnInv' /\ Settles /\ Calm /\ Idle
<1>1. TypeInv /\ ChannelInv
  BY DEF Inv
<1>2. /\ channel.connecting = Some(co) /\ link' = link
      /\ \/ channel' = [channel EXCEPT !.retry = @ + 1] /\ req' = req
         \/ channel' = [channel EXCEPT !.connecting = None, !.waiting = {}, !.retry = 0] /\ Fails(co)
  BY Zenon DEF GivesUp
<1>3. channel \in Channels
  BY <1>1 DEF TypeInv
<1>4. co \in Coroutines /\ channel.conn_id = 0 /\ (co = CHANGENODE \/ req[co].state # "none")
  <2>1. Who = {co} /\ co \in Coroutines /\ Connecting
    BY <1>1, <1>2, WhoIs
  <2> QED
    BY <1>1, <2>1 DEF ChannelInv, Connected, Coroutines
<1>5. channel'.conn_id = 0 /\ channel'.thread = channel.thread
  <2>1. CASE channel' = [channel EXCEPT !.retry = @ + 1]
    BY <1>3, <1>4, <2>1 DEF Channels
  <2>2. CASE channel' = [channel EXCEPT !.connecting = None, !.waiting = {}, !.retry = 0]
    BY <1>3, <1>4, <2>2 DEF Channels
  <2> QED
    BY <1>2, <2>1, <2>2
<1>6. \A r \in Requests : req'[r] = req[r] \/ (req[r].state # "none" /\ req'[r].state = "done" /\ req'[r].result = Error)
  <2>1. CASE Fails(co)
    <3>1. \A r \in Requests : /\ r # co => req'[r] = req[r]
                              /\ r = co => req'[r].state = "done" /\ req'[r].result = Error
      BY <1>1, <1>4, <2>1, FailsMoves
    <3>2. co \in Requests => req[co].state # "none"
      BY <1>4 DEF CHANGENODE, Requests
    <3> QED
      BY <3>1, <3>2
  <2> QED
    BY <1>2, <2>1
<1> QED
  BY <1>1, <1>5, <1>6, UnconnectedOwn DEF Goes

\* Who goes on behind the connection, or behind a response that will not come, keeps the
\* invariants of answers.
LEMMA LeavesOwn ==
  ASSUME Inv, WaitInv, OwnInv, FreshInv, NEW co \in wakeup.list, co \in Requests, GoesOn(co) \/ Raises(co), Goes
  PROVE  WaitInv' /\ OwnInv' /\ FreshInv' /\ Settles /\ Traces /\ Idle
<1>1. TypeInv /\ MadeInv /\ LinkInv /\ ChannelInv /\ ThreadInv
  BY DEF Inv
<1>2. channel \in Channels /\ co \in Coroutines
  BY <1>1 DEF TypeInv, Coroutines
<1>3. CASE GoesOn(co) /\ Connected
  <2>1. /\ req[co].state = "connect" /\ Sends(co, channel.conn_id)
        /\ channel' = [channel EXCEPT !.thread = push_response(@, co, req[co])]
    BY <1>3 DEF GoesOn
  <2>2. PICK c \in Conns : c = channel.conn_id
    BY <1>2, <1>3 DEF Connected, Channels
  <2>3. clusterd' = clusterd /\ delivered' = delivered /\ crashed' = crashed
        /\ channel'.thread = push_response(channel.thread, co, req[co])
    BY <1>2, <2>1 DEF Goes, Channels
  <2>4. SendsOn(c, co)
    BY <1>1, <2>1, <2>2, <2>3, ResumeSends
  <2>5. link[c].client /\ \A d \in Conns : d # c => ~link[d].client
    <3>1. channel.opened = 0
      BY <1>1, <1>3 DEF ChannelInv
    <3> QED
      BY <1>1, <2>2, <3>1 DEF LinkInv, Conns
  <2> QED
    BY <1>1, <2>1, <2>4, <2>5, FreshSends DEF Goes
<1>4. CASE (GoesOn(co) /\ ~Connected) \/ Raises(co)
  <2>1. req[co].state \in {"connect", "closed"} /\ Fails(co) /\ channel' = channel /\ link' = link
    BY <1>4 DEF GoesOn, Raises
  <2>2. \A r \in Requests : /\ r # co => req'[r] = req[r]
                            /\ r = co => req'[r].state = "done" /\ req'[r].result = Error
    BY <1>1, <1>2, <2>1, FailsMoves
  <2>3. WaitInv' /\ OwnInv' /\ Settles /\ Calm
    <3>1. clusterd'.calls \subseteq clusterd.calls /\ channel'.thread = channel.thread
      BY <2>1 DEF Goes
    <3> QED
      BY <1>1, <2>1, <2>2, <3>1, QuietOwn
  <2>4. Idle
    BY <2>1, <2>2 DEF Idle, Goes
  <2> QED
    BY <2>3, <2>4, CalmFresh
<1> QED
  BY <1>3, <1>4

\* A round of the loop keeps the invariants of answers.
LEMMA ResumeOwn ==
  ASSUME Inv, LinkInv', WaitInv, OwnInv, FreshInv, NEW co \in wakeup.list, Resume(co)
  PROVE  WaitInv' /\ OwnInv' /\ FreshInv' /\ Settles /\ Traces /\ Idle
<1>1. Goes /\ (Connects(co) \/ GivesUp(co) \/ (co \in Requests /\ (GoesOn(co) \/ Raises(co))))
  BY DEF Resume, Goes
<1>2. CASE GivesUp(co)
  BY <1>1, <1>2, GivesUpOwn, CalmFresh
<1> QED
  BY <1>1, <1>2, ConnectsOwn, LeavesOwn

\* The step makes a request.
Requested == \E r \in Requests, addr \in Addresses, size \in Sizes, is_push \in BOOLEAN : Request(r, addr, size, is_push)

\* Steps that bring no session on the way keep the invariants of answers.
LEMMA CalmOwn ==
  ASSUME Inv, Inv', WaitInv, OwnInv,
         \/ \E c \in Conns : ConnectOk(c) \/ OpenedEnds(c) \/ ClientClose(c) \/ Receive(c)
         \/ ConnectFails \/ CloseChannel \/ ChangeHost \/ OtherMessage
         \/ \E c \in Conns : Break(c) \/ Deliver(c) \/ ServerClose(c)
         \/ \E call \in clusterd.calls : Answer(call, FALSE, 1) \/ \E size \in ReplySizes : Answer(call, TRUE, size)
         \/ \E handle \in Handles \cup {0} : Rename(handle)
         \/ UNCHANGED vars
  PROVE  WaitInv' /\ OwnInv' /\ Settles /\ Calm /\ Idle
<1>0. TypeInv /\ MadeInv /\ LinkInv /\ ChannelInv /\ ThreadInv /\ UpInv /\ CallInv /\ LinkInv'
  BY DEF Inv
<1>2. CASE \E c \in Conns : ConnectOk(c) \/ OpenedEnds(c)
  BY <1>0, <1>2, OpensOwn
<1>3. CASE (\E c \in Conns : ClientClose(c)) \/ CloseChannel
  <2>1. Disconnects
    BY <1>3 DEF ClientClose, CloseChannel, Disconnects, TakesMessage
  <2> QED
    BY <1>0, <2>1, DisconnectsOwn
<1>4. CASE \E c \in Conns : Receive(c)
  BY <1>0, <1>4, ReceivesOwn, ReceiveIdle
<1>5. CASE ConnectFails \/ OtherMessage \/ UNCHANGED vars
  <2>1. session' = session /\ req' = req /\ link' = link /\ clusterd' = clusterd /\ channel'.thread = channel.thread
    BY <1>5 DEF ConnectFails, OtherMessage, vars
  <2> QED
    BY <1>0, <2>1, SameOwn
<1>6. CASE ChangeHost
  BY <1>0, <1>6, ChangeHostOwn
<1>7. CASE \E c \in Conns : Break(c)
  <2>1. Idle
    BY <1>7 DEF Break, Idle
  <2> QED
    BY <1>0, <1>7, <2>1, BreakOwn
<1>8. CASE \E c \in Conns : Deliver(c)
  <2>1. Idle
    BY <1>0, <1>8, DeliverIs DEF Idle
  <2> QED
    BY <1>0, <1>8, <2>1, DeliversOwn
<1>9. CASE \E c \in Conns : ServerClose(c)
  <2>1. Idle
    BY <1>9 DEF ServerClose, Idle
  <2> QED
    BY <1>0, <1>9, <2>1, ServerCloseOwn
<1>10. CASE \E call \in clusterd.calls : Answer(call, FALSE, 1) \/ \E size \in ReplySizes : Answer(call, TRUE, size)
  <2>0. PICK call \in clusterd.calls, ok \in BOOLEAN : \E size : (ok => size \in ReplySizes) /\ Answer(call, ok, size)
    BY <1>10
  <2>1. PICK size : (ok => size \in ReplySizes) /\ Answer(call, ok, size)
    BY <2>0
  <2>2. Idle
    BY <2>1 DEF Answer, Idle
  <2> QED
    BY <1>0, <2>1, <2>2, AnswersOwn
<1>11. CASE \E handle \in Handles \cup {0} : Rename(handle)
  <2>1. Idle
    BY <1>11 DEF Rename, Idle
  <2> QED
    BY <1>0, <1>11, <2>1, RenameOwn
<1> QED
  BY <1>2, <1>3, <1>4, <1>5, <1>6, <1>7, <1>8, <1>9, <1>10, <1>11

\* Every step keeps the invariants of answers, when the next session is free.
LEMMA NextOwn ==
  ASSUME Inv, Inv', WaitInv, OwnInv, FreshInv, SessionIsFree, [Next]_vars
  PROVE  WaitInv' /\ OwnInv' /\ FreshInv' /\ Settles /\ Traces /\ (Idle \/ Requested)
<1>1. TypeInv /\ MadeInv /\ LinkInv /\ ChannelInv /\ ThreadInv /\ LinkInv'
  BY DEF Inv
<1>2. CASE Requested
  BY <1>1, <1>2, RequestOwn DEF Requested
<1>3. CASE \E co \in wakeup.list : Resume(co)
  BY <1>1, <1>3, ResumeOwn
<1>4. CASE ~Requested /\ ~\E co \in wakeup.list : Resume(co)
  <2>1. WaitInv' /\ OwnInv' /\ Settles /\ Calm /\ Idle
    BY <1>4, CalmOwn DEF Next, Requested
  <2> QED
    BY <2>1, CalmFresh
<1> QED
  BY <1>2, <1>3, <1>4

\* AnswerInv survives every step that ends requests with answers of their own.
LEMMA AnswerNext ==
  ASSUME MadeInv, AnswerInv, Settles, \A q \in Requests : Kept(q)
  PROVE  AnswerInv'
<1> SUFFICES ASSUME NEW r \in Requests, req'[r].result \notin {NoResult, Error} PROVE IsAnswer(r, req[r].result)'
  BY DEF AnswerInv
<1>1. CASE req'[r].result = req[r].result
  <2>1. req[r].state # "none"
    BY <1>1 DEF MadeInv
  <2>2. req'[r].addr = req[r].addr
    BY <2>1 DEF Kept
  <2>3. IsAnswer(r, req[r].result)
    <3>1. req[r].result \notin {NoResult, Error}
      BY <1>1
    <3> QED
      BY <3>1 DEF AnswerInv
  <2> QED
    BY <1>1, <2>2, <2>3 DEF IsAnswer
<1>2. CASE req'[r].addr = req[r].addr /\ IsAnswer(r, req'[r].result)
  BY <1>2 DEF IsAnswer
<1> QED
  BY <1>1, <1>2 DEF Settles

\* The invariants of answers hold when cluster starts.
LEMMA InitOwn ==
  ASSUME Init
  PROVE  WaitInv /\ OwnInv /\ FreshInv /\ AnswerInv
<1>1. \A r \in Requests : req[r].state = "none" /\ req[r].result = NoResult
  BY DEF Init, NewRequest
<1>2. \A c \in Conns : ~link[c].client
  BY DEF Init, NewLink
<1> QED
  BY <1>1, <1>2 DEF WaitInv, OwnInv, FreshInv, AnswerInv, Live

\* The shape of the state follows from the invariants.
LEMMA InvTypeOK ==
  ASSUME Inv, WaitInv
  PROVE  TypeOK
<1>1. TypeInv /\ LinkInv /\ ChannelInv /\ ThreadInv
  BY DEF Inv
<1>2. /\ session \in Sessions /\ channel.conn_id \in Conns \cup {0} /\ channel.opened \in Conns \cup {0}
      /\ channel.waiting \subseteq Requests /\ channel.thread \in Tables(Requests) /\ Marked \subseteq Coroutines
  BY <1>1 DEF TypeInv, Channels, Wakeups, Marked
<1>3. ToSet(channel.connecting) = Who /\ DOMAIN channel.thread \subseteq Sessions
  BY <1>1, <1>2, WhoIs, TableIs
<1>4. channel.waiting \subseteq Requests \ (Who \cup Marked)
  BY <1>1, <1>2 DEF ChannelInv
<1>5. Marked \subseteq Requests \cup (Who \cap {CHANGENODE})
  BY <1>1, <1>2 DEF ChannelInv, Coroutines
<1>6. ASSUME NEW r \in Requests
      PROVE  /\ req[r].state \in {"none", "connect", "wait", "closed", "done"}
             /\ req[r].state = "wait" <=> req[r].session \in DOMAIN channel.thread
                                            /\ channel.thread[req[r].session] = r
             /\ req[r].state \in {"connect", "closed"} <=> r \in Who \cup channel.waiting \cup Marked
             /\ req[r].state = "closed" => r \in Marked \ Who
  <2>1. req[r].state \in {"none", "connect", "wait", "closed", "done"}
    BY <1>1 DEF TypeInv, RequestRecords
  <2>2. /\ req[r].state \in {"connect", "closed"} <=> r \in Who \cup channel.waiting \cup Marked
        /\ req[r].state = "closed" => r \in Marked \ Who
    BY <1>1 DEF ChannelInv
  <2>3. req[r].state = "wait" => req[r].session \in DOMAIN channel.thread /\ channel.thread[req[r].session] = r
    BY DEF WaitInv
  <2>4. req[r].session \in DOMAIN channel.thread /\ channel.thread[req[r].session] = r => req[r].state = "wait"
    BY <1>1, ThreadWaits
  <2> QED
    BY <2>1, <2>2, <2>3, <2>4
<1>7. \A c \in Conns : link[c].client <=> c \in {channel.conn_id, channel.opened}
  BY <1>1 DEF LinkInv
<1>8. channel.opened # 0 => Who # {} /\ Who \subseteq Marked
  BY <1>1 DEF ChannelInv, Who
<1>9. Connected => ~Connecting /\ (wakeup.list = {} => wakeup.queue = {})
  BY <1>1 DEF ChannelInv
<1> QED
  BY Zenon, <1>2, <1>3, <1>4, <1>5, <1>6, <1>7, <1>8, <1>9 DEF TypeOK, Marked

\* What holds as long as sessions are free when they are taken.
Own == Inv /\ WaitInv /\ OwnInv /\ FreshInv /\ AnswerInv

\* packrequest, dispatch_by_session: as long as every request takes a session that is not in
\* use, what is on its way to the sender answers whoever waits under its session, and what
\* was gathered of a large response is a beginning of the answer to that request.
THEOREM OwnWhileFree == Spec /\ []SessionIsFree => []Own
<1>1. Init => Own
  BY InitInv, InitOwn DEF Own
<1>2. Own /\ SessionIsFree /\ [Next]_vars => Own'
  <2> SUFFICES ASSUME Own, SessionIsFree, [Next]_vars PROVE Own'
    OBVIOUS
  <2>1. Inv /\ WaitInv /\ OwnInv /\ FreshInv /\ AnswerInv
    BY DEF Own
  <2>2. Inv' /\ \A q \in Requests : Kept(q)
    BY <2>1, NextInv
  <2>3. WaitInv' /\ OwnInv' /\ FreshInv' /\ Settles
    BY <2>1, <2>2, NextOwn
  <2>4. AnswerInv'
    BY <2>1, <2>2, <2>3, AnswerNext DEF Inv
  <2> QED
    BY <2>2, <2>3, <2>4 DEF Own
<1> QED
  BY <1>1, <1>2, PTL DEF Spec

\* channel:request: as long as every request takes a session that is not in use, a request
\* waits exactly while the channel has it in its table under its own session.
THEOREM TypeOKWhileFree == Spec /\ []SessionIsFree => []TypeOK
<1>1. Own => TypeOK
  BY InvTypeOK DEF Own
<1> QED
  BY <1>1, OwnWhileFree, PTL

\* command.req, dispatch_by_session: as long as every request takes a session that is not in
\* use, a caller gets the answer to its own request or an error, and never another's.
THEOREM AnswerWhileFree == Spec /\ []SessionIsFree => []AnswerIsItsOwn
<1>1. Own => AnswerIsItsOwn
  BY DEF Own, AnswerInv, IsAnswer, AnswerIsItsOwn
<1> QED
  BY <1>1, OwnWhileFree, PTL

-------------------------------------------------------------------------------
(* Sessions are not used twice within one round of the numbers.            *)

\* How many sessions lie between the first one and s.
Distance(f, s) == IF s >= f THEN s - f ELSE s - f + INT32_MAX

\* The next session is at most as far from f as there are requests, and behind all that
\* were taken.
CountsFrom(f) ==
  \A r \in Requests : req[r].state = "none" =>
    /\ Distance(f, session) <= r - 1
    /\ \A q \in Requests : IsMade(q) /\ Numbered(q) => Distance(f, req[q].session) < Distance(f, session)

\* The sessions so far were counted from some first one.
CountInv == \E f \in Sessions : CountsFrom(f)

\* Whatever is on its way has the session of a request that was made.
UsedInv == \A s : OnTheWay(s) => s = 0 \/ IsUsed(s)

\* The numbers go round.
LEMMA DistanceNext ==
  ASSUME NEW f \in Sessions, NEW s \in Sessions, NEW t, t = IF s + 1 > INT32_MAX THEN 1 ELSE s + 1,
         Distance(f, s) + 1 < INT32_MAX
  PROVE  Distance(f, t) = Distance(f, s) + 1
BY WireAssumption DEF Distance, Sessions

\* How far a session is from the first one.
LEMMA DistanceIs ==
  ASSUME NEW f \in Sessions, NEW s \in Sessions
  PROVE  Distance(f, s) \in 0 .. INT32_MAX - 1
BY WireAssumption DEF Distance, Sessions

\* Sessions that are counted and were not used before are free.
LEMMA FreeIs ==
  ASSUME CountInv, UsedInv, TypeInv, MadeInv
  PROVE  SessionIsFree
<1> SUFFICES ASSUME NEW r \in Requests, req[r].state = "none", InUse(session) PROVE FALSE
  BY DEF SessionIsFree
<1>1. PICK f \in Sessions : CountsFrom(f)
  BY DEF CountInv
<1>2. session \in Sessions /\ session # 0
  BY DEF TypeInv, Sessions
<1>3. \A q \in Requests : IsMade(q) /\ Numbered(q) => Distance(f, req[q].session) < Distance(f, session)
  BY <1>1 DEF CountsFrom
<1>4. Distance(f, session) \in 0 .. INT32_MAX - 1
  BY <1>2, DistanceIs
<1>5. ~IsUsed(session)
  <2> SUFFICES ASSUME NEW q \in Requests, IsMade(q), Numbered(q), req[q].session = session PROVE FALSE
    BY DEF IsUsed
  <2> DEFINE d == Distance(f, session)
  <2>1. d < d /\ d \in 0 .. INT32_MAX - 1
    BY <1>3, <1>4
  <2> HIDE DEF d
  <2> QED
    BY <2>1, WireAssumption
<1>6. CASE \E q \in Requests : Live(q) /\ req[q].session = session
  BY <1>5, <1>6 DEF IsUsed, Live, IsMade
<1>7. CASE \E c \in Conns : link[c].client /\ UnderWay(c, session)
  BY <1>2, <1>5, <1>7 DEF UsedInv, OnTheWay
<1> QED
  BY <1>6, <1>7 DEF InUse

\* A session that was used stays one.
LEMMA UsedKept ==
  ASSUME \A q \in Requests : Kept(q), NEW s, IsUsed(s)
  PROVE  IsUsed(s)'
<1>1. PICK q \in Requests : IsMade(q) /\ Numbered(q) /\ req[q].session = s
  BY DEF IsUsed
<1>2. req'[q].state # "none" /\ req'[q].session = req[q].session /\ req'[q].msg = req[q].msg /\ req'[q].is_push = req[q].is_push
  BY <1>1 DEF Kept, IsMade
<1>3. IsMade(q)' /\ Numbered(q)'
  BY <1>1, <1>2 DEF IsMade, Numbered
<1> QED
  BY <1>1, <1>2, <1>3 DEF IsUsed

\* Every step brings only sessions under way that requests have.
LEMMA UsedNext ==
  ASSUME UsedInv, Traces, \A q \in Requests : Kept(q)
  PROVE  UsedInv'
<1> SUFFICES ASSUME NEW s, OnTheWay(s)' PROVE s = 0 \/ IsUsed(s)'
  BY DEF UsedInv
<1>1. OnTheWay(s) \/ s = 0 \/ IsUsed(s)'
  BY DEF Traces
<1>2. CASE OnTheWay(s)
  BY <1>2, UsedKept DEF UsedInv
<1> QED
  BY <1>1, <1>2

\* The count of sessions stays right when no request is made.
LEMMA CountIdle ==
  ASSUME CountInv, Idle, \A q \in Requests : Kept(q)
  PROVE  CountInv'
<1>1. PICK f \in Sessions : CountsFrom(f)
  BY DEF CountInv
<1>2. ASSUME NEW r \in Requests, req'[r].state = "none"
      PROVE  /\ Distance(f, session') <= r - 1
             /\ \A q \in Requests : IsMade(q)' /\ Numbered(q)' => Distance(f, req'[q].session) < Distance(f, session')
  <2>1. req[r].state = "none" /\ session' = session
    BY <1>2 DEF Idle, Kept
  <2>2. ASSUME NEW q \in Requests, IsMade(q)', Numbered(q)' PROVE Distance(f, req'[q].session) < Distance(f, session')
    <3>1. req[q].state # "none"
      BY <2>2 DEF Idle, IsMade
    <3>2. req'[q].session = req[q].session /\ req'[q].msg = req[q].msg /\ req'[q].is_push = req[q].is_push
      BY <3>1 DEF Kept
    <3>3. IsMade(q) /\ Numbered(q)
      BY <2>2, <3>1, <3>2 DEF IsMade, Numbered
    <3>4. Distance(f, req[q].session) < Distance(f, session)
      BY <1>1, <2>1, <3>3 DEF CountsFrom
    <3> QED
      BY <2>1, <3>2, <3>4
  <2>3. Distance(f, session) <= r - 1
    BY <1>1, <2>1 DEF CountsFrom
  <2> QED
    BY <2>1, <2>2, <2>3
<1>3. CountsFrom(f)'
  BY <1>2 DEF CountsFrom, Distance
<1> QED
  BY <1>3 DEF CountInv, Sessions

\* next_session: the count is right after one request more, as long as the numbers have
\* not come round.
LEMMA CountRequest ==
  ASSUME MaxRequests <= INT32_MAX, CountInv, TypeInv, MadeInv, \A q \in Requests : Kept(q), Requested
  PROVE  CountInv'
<1>1. PICK f \in Sessions : CountsFrom(f)
  BY DEF CountInv
<1>2. PICK r \in Requests, addr \in Addresses, size \in Sizes, is_push \in BOOLEAN : Request(r, addr, size, is_push)
  BY DEF Requested
<1>3. PICK st \in {"connect", "wait", "done"} : Makes(r, addr, size, is_push, st)
  BY <1>2, RequestIs
<1> DEFINE msg == Payload("request", r, size)
           small == SmallPush(msg, is_push)
<1>4. /\ req[r].state = "none" /\ \A s \in 1 .. r - 1 : req[s].state # "none"
      /\ \A q \in Requests : q # r => req'[q] = req[q]
      /\ req'[r] = Record(r, addr, size, is_push, session, st)
      /\ session' = IF small THEN session ELSE NextSession
      /\ msg \in Bytes
  BY <1>3, Zenon DEF Makes
<1>5. req'[r].state = st /\ req'[r].session = session /\ req'[r].is_push = is_push /\ req'[r].msg = msg
  BY <1>4 DEF Record
<1>6. Numbered(r)' => ~small
  <2>1. MULTI_PART \in Nat /\ Len(msg) \in Nat
    BY <1>4, WireAssumption DEF Bytes
  <2> HIDE DEF msg
  <2> QED
    BY <1>5, <2>1 DEF Numbered, SmallPush
<1> HIDE DEF msg, small
<1>7. session \in Sessions
  BY DEF TypeInv
<1>d. PICK x \in Sessions, d \in 0 .. INT32_MAX - 1 : x = session /\ d = Distance(f, x)
  BY <1>7, DistanceIs
<1>8. ASSUME NEW p \in Requests, req'[p].state = "none"
      PROVE  /\ Distance(f, session') <= p - 1
             /\ \A q \in Requests : IsMade(q)' /\ Numbered(q)' => Distance(f, req'[q].session) < Distance(f, session')
  <2>1. p # r /\ req[p].state = "none"
    BY <1>4, <1>5, <1>8
  <2>2. r < p /\ p <= INT32_MAX /\ r \in Nat \ {0} /\ p \in Nat \ {0}
    <3>1. r \in Nat \ {0} /\ p \in Nat \ {0} /\ p <= MaxRequests
      BY ClusterAssumption DEF Requests
    <3>2. ~(p < r)
      <4>1. p < r => p \in 1 .. r - 1
        BY <3>1
      <4> QED
        BY <1>4, <2>1, <4>1
    <3> QED
      BY <2>1, <3>1, <3>2, ClusterAssumption, WireAssumption
  <2>3. d <= r - 1 /\ \A q \in Requests : IsMade(q) /\ Numbered(q) => Distance(f, req[q].session) < d
    BY <1>1, <1>4, <1>d DEF CountsFrom
  <2>4. d + 1 < INT32_MAX /\ d \in Nat
    BY <2>2, <2>3, WireAssumption
  <2>5. \/ small /\ Distance(f, session') = d
        \/ ~small /\ Distance(f, session') = d + 1
    <3>1. CASE small
      BY <1>4, <1>d, <3>1
    <3>2. CASE ~small
      <4>1. session' = IF x + 1 > INT32_MAX THEN 1 ELSE x + 1
        BY <1>4, <1>d, <3>2 DEF NextSession
      <4>2. PICK t : t = session'
        OBVIOUS
      <4>3. Distance(f, t) = d + 1
        BY <1>d, <2>4, <4>1, <4>2, DistanceNext
      <4> QED
        BY <3>2, <4>2, <4>3
    <3> QED
      BY <3>1, <3>2
  <2>6. Distance(f, session') <= p - 1
    BY <2>2, <2>3, <2>4, <2>5
  <2>7. ASSUME NEW q \in Requests, IsMade(q)', Numbered(q)' PROVE Distance(f, req'[q].session) < Distance(f, session')
    <3>1. CASE q = r
      <4>1. Distance(f, req'[q].session) = d
        BY <1>5, <1>d, <3>1
      <4>2. Distance(f, session') = d + 1
        BY <1>6, <2>5, <2>7, <3>1
      <4> QED
        BY <2>4, <4>1, <4>2
    <3>2. CASE q # r
      <4>1. req'[q] = req[q] /\ IsMade(q) /\ Numbered(q)
        BY <1>4, <2>7, <3>2 DEF IsMade, Numbered
      <4>2. req[q].session \in Sessions
        BY <4>1, MadeIs
      <4>3. PICK e \in 0 .. INT32_MAX - 1 : e = Distance(f, req[q].session)
        BY <4>2, DistanceIs
      <4>4. e < d
        BY <2>3, <4>1, <4>3
      <4> QED
        BY <2>4, <2>5, <4>1, <4>3, <4>4, WireAssumption
    <3> QED
      BY <3>1, <3>2
  <2> QED
    BY <2>6, <2>7
<1>9. CountsFrom(f)'
  BY <1>8 DEF CountsFrom, Distance
<1> QED
  BY <1>9 DEF CountInv, Sessions

\* No session was used when cluster starts.
LEMMA InitCount ==
  ASSUME Init
  PROVE  CountInv /\ UsedInv
<1>1. \A r \in Requests : req[r].state = "none"
  BY DEF Init, NewRequest
<1>2. \A c \in Conns : ~link[c].client
  BY DEF Init, NewLink
<1>3. session \in Sessions
  BY ClusterAssumption DEF Init, Sessions
<1>4. \A r \in Requests : Distance(session, session) <= r - 1
  BY <1>3, WireAssumption, ClusterAssumption DEF Distance, Sessions, Requests
<1>5. CountsFrom(session)
  BY <1>1, <1>4 DEF CountsFrom, IsMade
<1> QED
  BY <1>2, <1>3, <1>5 DEF CountInv, UsedInv, OnTheWay

\* The inductive invariant of the first INT32_MAX requests.
Counted == Own /\ CountInv /\ UsedInv

\* packrequest: a sender's first INT32_MAX requests take sessions that differ, and everything
\* that is on its way or waits has the session of a request that was made.
THEOREM CountedHolds == MaxRequests <= INT32_MAX => (Spec => []Counted)
<1> SUFFICES ASSUME MaxRequests <= INT32_MAX PROVE Spec => []Counted
  OBVIOUS
<1>1. Init => Counted
  BY InitInv, InitOwn, InitCount DEF Own, Counted
<1>2. Counted /\ [Next]_vars => Counted'
  <2> SUFFICES ASSUME Counted, [Next]_vars PROVE Counted'
    OBVIOUS
  <2>1. Inv /\ WaitInv /\ OwnInv /\ FreshInv /\ AnswerInv /\ CountInv /\ UsedInv /\ TypeInv /\ MadeInv
    BY DEF Own, Counted, Inv
  <2>2. SessionIsFree
    BY <2>1, FreeIs
  <2>3. Inv' /\ \A q \in Requests : Kept(q)
    BY <2>1, NextInv
  <2>4. WaitInv' /\ OwnInv' /\ FreshInv' /\ Settles /\ Traces /\ (Idle \/ Requested)
    BY <2>1, <2>2, <2>3, NextOwn
  <2>5. AnswerInv'
    BY <2>1, <2>3, <2>4, AnswerNext
  <2>6. UsedInv'
    BY <2>1, <2>3, <2>4, UsedNext
  <2>7. CountInv'
    BY <2>1, <2>3, <2>4, CountIdle, CountRequest
  <2> QED
    BY <2>3, <2>4, <2>5, <2>6, <2>7 DEF Own, Counted
<1> QED
  BY <1>1, <1>2, PTL DEF Spec

\* packrequest: among a sender's first INT32_MAX requests none takes a session that is still
\* in use, by a request or by anything under way.
THEOREM SessionIsFreeHolds == MaxRequests <= INT32_MAX => (Spec => []SessionIsFree)
<1> SUFFICES ASSUME MaxRequests <= INT32_MAX PROVE Spec => []SessionIsFree
  OBVIOUS
<1>1. Counted => SessionIsFree
  BY FreeIs DEF Counted, Own, Inv
<1>2. Spec => []Counted
  BY CountedHolds
<1> QED
  BY <1>1, <1>2, PTL

\* channel:request, dispatch_by_session: among a sender's first INT32_MAX requests, a request
\* waits exactly while the channel has it in its table under its own session.
THEOREM TypeOKHolds == MaxRequests <= INT32_MAX => (Spec => []TypeOK)
<1> SUFFICES ASSUME MaxRequests <= INT32_MAX PROVE Spec => []TypeOK
  OBVIOUS
<1>1. Spec => []SessionIsFree
  BY SessionIsFreeHolds
<1> QED
  BY <1>1, TypeOKWhileFree, PTL

\* command.req, dispatch_by_session: a caller gets the reply of the service to its own request,
\* the answer to its own query, or an error, among a sender's first INT32_MAX requests and
\* through every loss of the connection.
THEOREM AnswerIsItsOwnHolds == MaxRequests <= INT32_MAX => (Spec => []AnswerIsItsOwn)
<1> SUFFICES ASSUME MaxRequests <= INT32_MAX PROVE Spec => []AnswerIsItsOwn
  OBVIOUS
<1>1. Spec => []SessionIsFree
  BY SessionIsFreeHolds
<1> QED
  BY <1>1, AnswerWhileFree, PTL
=============================================================================
