--------------------- MODULE ThreadpoolHttpServerProofs ----------------------
(***************************************************************************)
(* NoUseAfterFree and AcceptExact of ThreadpoolHttpServer, for any number  *)
(* of connections and any limits, whatever clients, handlers and the       *)
(* poller do.                                                              *)
(*                                                                         *)
(* ServerInv says of every connection in which of eleven phases its        *)
(* request is (Life), from accept() to its destruction. A phase names the  *)
(* closures of the request that are queued, the callbacks that are         *)
(* registered for its socket, and the flags that go with them; so it says  *)
(* what every closure will find when it runs, and that none is queued once *)
(* the request is gone. The types of the descriptors are Maps, the order   *)
(* of the queues Queues, and num_http_server_request_ against the phases   *)
(* Counted.                                                                *)
(*                                                                         *)
(* A step changes one connection. Lemmas say what a step of one connection *)
(* leaves of the others; every action is then a step from one phase to a   *)
(* next.                                                                   *)
(***************************************************************************)
EXTENDS ThreadpoolHttpServer, FiniteSetTheorems, FunctionTheorems, SequenceTheorems, TLAPS

\* The closures of a request that may be queued.
Runs == {"Start", "ReadFinished", "NotifyWhenClosedInternal", "DoCheckClosed", "DoClosed",
         "WriteFinished", "Finish", "ExecDone", "readable", "writable", "timedout"}
Entry == [conn : Conns, run : Runs]
RunsOf(q, c) == {f \in Runs : \E n \in 1 .. Len(q) : q[n] = Closure(c, f)}
Once(q) == \A m, n \in 1 .. Len(q) : q[m] = q[n] => m = n
ReadFirst(q) ==
  \A c \in Conns : \A m, n \in 1 .. Len(q) :
    q[m] = Closure(c, "readable") /\ q[n] = Closure(c, "writable") => m < n

\* A descriptor by its callbacks to read and to write: the closure, whether it is
\* active, and the one in the queue; and a request by its flags.
Callbacks == {"none", "DoRead", "DoTimeout", "DoCheckClosed", "DoWrite", "DoReadEOF"}
SdType ==
  [readable : Callbacks, writable : Callbacks, timeout : BOOLEAN, timeout_closure : Callbacks,
   read_in_queue : Callbacks, write_in_queue : Callbacks, timeout_in_queue : BOOLEAN,
   active_read : BOOLEAN, active_write : BOOLEAN]
RqType ==
  [read_finished : BOOLEAN, timed_out : BOOLEAN, inflight : BOOLEAN, closed : BOOLEAN,
   closed_callback : BOOLEAN, replied : {"no", "open", "closed"}]

Sd(d, read, active_r, queued_r, write, active_w, queued_w) ==
  /\ d \in SdType /\ d.timeout = FALSE /\ d.timeout_closure = "none" /\ d.timeout_in_queue = FALSE
  /\ d.readable = read /\ d.active_read = active_r /\ d.read_in_queue = queued_r
  /\ d.writable = write /\ d.active_write = active_w /\ d.write_in_queue = queued_w
SdTimed(d, read, active_r, queued_r, closure, queued_t) ==
  /\ d \in SdType /\ d.timeout = TRUE /\ d.timeout_closure = closure /\ d.timeout_in_queue = queued_t
  /\ d.readable = read /\ d.active_read = active_r /\ d.read_in_queue = queued_r
  /\ d.writable = "none" /\ d.active_write = FALSE /\ d.write_in_queue = "none"
Rq(r, finished, timed_out, inflight, closed, callback, replied) ==
  /\ r \in RqType /\ r.read_finished = finished /\ r.timed_out = timed_out /\ r.inflight = inflight
  /\ r.closed = closed /\ r.closed_callback = callback /\ r.replied = replied

(***************************************************************************)
(* The life of a request: o is the object, d its descriptor, r its flags,  *)
(* h its handler, t what that was told, i and q what is queued of it.      *)
(***************************************************************************)
Beginning(o, d, r, h, t, i, q) ==
  /\ Sd(d, "none", FALSE, "none", "none", FALSE, "none")
  /\ Rq(r, FALSE, FALSE, FALSE, FALSE, FALSE, "no")
  /\ h = "none" /\ t = "no" /\ i = {}
  /\ \/ o \in {"none", "waiting"} /\ q = {}
     \/ o = "posted" /\ q = {"Start"}

Reading(o, d, r, h, t, i, q) ==
  /\ o = "live" /\ Rq(r, FALSE, FALSE, FALSE, FALSE, FALSE, "no")
  /\ h = "none" /\ t = "no" /\ i = {}
  /\ \/ SdTimed(d, "DoRead", TRUE, "none", "DoTimeout", FALSE) /\ q = {}
     \/ SdTimed(d, "DoRead", TRUE, "DoRead", "DoTimeout", FALSE) /\ q = {"readable"}
     \/ SdTimed(d, "DoRead", TRUE, "none", "DoTimeout", TRUE) /\ q = {"timedout"}

\* The request came too late, or it came, or only a part of it.
Read(o, d, r, h, t, i, q) ==
  /\ o = "live" /\ h = "none" /\ t = "no"
  /\ \/ /\ SdTimed(d, "DoRead", FALSE, "none", "none", FALSE)
        /\ Rq(r, FALSE, TRUE, FALSE, FALSE, FALSE, "no")
        /\ i = {} /\ q = {"Finish"}
     \/ /\ SdTimed(d, "DoRead", FALSE, "none", "DoTimeout", FALSE)
        /\ Rq(r, TRUE, FALSE, FALSE, FALSE, FALSE, "no")
        /\ i = {} /\ q \in {{"ReadFinished"}, {"DoCheckClosed"}, {"DoClosed"}}
     \/ /\ SdTimed(d, "none", FALSE, "none", "DoTimeout", FALSE)
        /\ Rq(r, TRUE, FALSE, FALSE, TRUE, FALSE, "no")
        /\ i = {"Finish"} /\ q = {}

\* A handler has it, and has yet to ask to be told of the close, or does not know yet.
Handling(o, d, r, h, t, i, q) ==
  /\ o = "live" /\ t = "no"
  /\ Rq(r, TRUE, FALSE, TRUE, FALSE, FALSE, "no")
  /\ Sd(d, "none", FALSE, "none", "none", FALSE, "none")
  /\ \/ h = "started" /\ i = {} /\ q = {}
     \/ h = "running" /\ i = {} /\ q = {"NotifyWhenClosedInternal"}
     \/ h = "done" /\ i = {"ExecDone"} /\ q = {"NotifyWhenClosedInternal"}

\* The socket is watched meanwhile.
Watching(o, d, r, h, t, i, q) ==
  /\ o = "live" /\ t = "no"
  /\ Rq(r, TRUE, FALSE, TRUE, FALSE, TRUE, "no")
  /\ \/ h = "running" /\ i = {}
     \/ h = "done" /\ i = {"ExecDone"}
  /\ \/ Sd(d, "DoCheckClosed", TRUE, "none", "none", FALSE, "none") /\ q = {}
     \/ Sd(d, "DoCheckClosed", TRUE, "DoCheckClosed", "none", FALSE, "none") /\ q = {"readable"}
     \/ Sd(d, "DoCheckClosed", FALSE, "none", "none", FALSE, "none") /\ q = {"DoClosed"}

\* The client went away before the handler was through.
Told(o, d, r, h, t, i, q) ==
  /\ o = "live" /\ t \in {"posted", "yes", "late"}
  /\ Sd(d, "none", FALSE, "none", "none", FALSE, "none") /\ q = {}
  /\ \/ Rq(r, TRUE, FALSE, TRUE, TRUE, FALSE, "no") /\ h = "running" /\ i = {}
     \/ Rq(r, TRUE, FALSE, TRUE, TRUE, FALSE, "no") /\ h = "done" /\ i = {"ExecDone"}
     \/ Rq(r, TRUE, FALSE, TRUE, TRUE, FALSE, "closed") /\ h = "done" /\ i = {"Finish"}

\* The response is being written: to a socket that is not watched,
Replying(o, d, r, h, t, i, q) ==
  /\ o = "live" /\ t = "no" /\ i = {}
  /\ Rq(r, TRUE, FALSE, TRUE, FALSE, FALSE, "open")
  /\ \/ /\ h = "done" /\ q = {"NotifyWhenClosedInternal"}
        /\ Sd(d, "none", FALSE, "none", "DoWrite", TRUE, "none")
     \/ /\ h = "none"
        /\ \/ Sd(d, "none", FALSE, "none", "DoWrite", TRUE, "none") /\ q = {}
           \/ Sd(d, "none", FALSE, "none", "DoWrite", TRUE, "DoWrite") /\ q = {"writable"}
           \/ /\ Sd(d, "none", FALSE, "none", "DoWrite", FALSE, "none")
              /\ q \in {{"Finish"}, {"WriteFinished"}}

\* or to one that is, which may have been closed;
ReplyingWatched(o, d, r, h, t, i, q) ==
  /\ o = "live" /\ t = "no" /\ i = {} /\ h = "done"
  /\ Rq(r, TRUE, FALSE, TRUE, FALSE, TRUE, "open")
  /\ \/ Sd(d, "DoCheckClosed", TRUE, "none", "DoWrite", TRUE, "none") /\ q = {}
     \/ Sd(d, "DoCheckClosed", TRUE, "none", "DoWrite", TRUE, "DoWrite") /\ q = {"writable"}
     \/ Sd(d, "DoCheckClosed", TRUE, "DoCheckClosed", "DoWrite", TRUE, "none") /\ q = {"readable"}
     \/ /\ Sd(d, "DoCheckClosed", TRUE, "DoCheckClosed", "DoWrite", TRUE, "DoWrite")
        /\ q = {"readable", "writable"}
     \/ /\ Sd(d, "DoCheckClosed", FALSE, "none", "DoWrite", FALSE, "DoWrite")
        /\ q = {"writable", "DoClosed"}
     \/ /\ \/ Sd(d, "DoCheckClosed", FALSE, "none", "DoWrite", FALSE, "none")
           \/ Sd(d, "DoCheckClosed", FALSE, "none", "DoWrite", TRUE, "none")
        /\ q = {"DoClosed"}
     \/ /\ Sd(d, "DoCheckClosed", TRUE, "none", "DoWrite", FALSE, "none")
        /\ q \in {{"Finish"}, {"WriteFinished"}}

\* it is written, and the client is to close the socket;
Written(o, d, r, h, t, i, q) ==
  /\ o = "live" /\ t = "no" /\ i = {}
  /\ \/ h = "none" /\ Rq(r, TRUE, FALSE, TRUE, FALSE, FALSE, "open")
     \/ h = "done" /\ Rq(r, TRUE, FALSE, TRUE, FALSE, TRUE, "open")
  /\ \/ Sd(d, "DoReadEOF", TRUE, "none", "none", FALSE, "none") /\ q = {}
     \/ Sd(d, "DoReadEOF", TRUE, "DoReadEOF", "none", FALSE, "none") /\ q = {"readable"}
     \/ Sd(d, "DoReadEOF", FALSE, "none", "none", FALSE, "none") /\ q = {"Finish"}

\* or it was closed before that and nobody writes any more.
Lost(o, d, r, h, t, i, q) ==
  /\ o = "live" /\ t \in {"posted", "late"} /\ h = "done" /\ i = {}
  /\ \/ Sd(d, "none", FALSE, "none", "none", FALSE, "none") /\ q = {}
     \/ Sd(d, "none", FALSE, "none", "none", FALSE, "DoWrite") /\ q = {"writable"}
  /\ Rq(r, TRUE, FALSE, TRUE, TRUE, FALSE, "open")

Ended(o, d, r, h, t, i, q) ==
  /\ o = "freed" /\ h \in {"none", "done"} /\ i = {} /\ q = {}
  /\ t = "no" \/ (r.closed /\ r.replied = "closed")
  /\ d.read_in_queue = "none" /\ d.write_in_queue = "none"

Alive(o, d, r, h, t, i, q) ==
  \/ Beginning(o, d, r, h, t, i, q) \/ Reading(o, d, r, h, t, i, q) \/ Read(o, d, r, h, t, i, q)
  \/ Handling(o, d, r, h, t, i, q) \/ Watching(o, d, r, h, t, i, q) \/ Told(o, d, r, h, t, i, q)
  \/ Replying(o, d, r, h, t, i, q) \/ ReplyingWatched(o, d, r, h, t, i, q)
  \/ Written(o, d, r, h, t, i, q) \/ Lost(o, d, r, h, t, i, q) \/ Ended(o, d, r, h, t, i, q)

Life(c) ==
  Alive(object[c], sd[c], request[c], handler[c], told[c], RunsOf(immediate, c), RunsOf(high, c))

Queues ==
  /\ immediate \in Seq(Entry) /\ high \in Seq(Entry)
  /\ Once(immediate) /\ Once(high) /\ ReadFirst(high)

Maps ==
  /\ DOMAIN object = Conns /\ DOMAIN sd = Conns /\ DOMAIN request = Conns
  /\ DOMAIN handler = Conns /\ DOMAIN told = Conns

Serving == {c \in Conns : object[c] \in {"posted", "live"}}
Waiting == {c \in Conns : object[c] = "waiting"}
Counted ==
  /\ num_sockets = Cardinality(Serving) + Cardinality(Waiting)
  /\ Cardinality(Serving) <= max_sockets /\ Cardinality(Serving) < MaxNumSockets
  /\ max_sockets \in Nat

ServerInv == Maps /\ Queues /\ Counted /\ \A c \in Conns : Life(c)

-----------------------------------------------------------------------------
(***************************************************************************)
(* The methods of a descriptor.                                            *)
(***************************************************************************)
LEMMA DescriptorOf ==
  ASSUME NEW d, NEW a, NEW b, NEW c, NEW x, NEW y, NEW z, Sd(d, a, b, c, x, y, z), NEW f \in Callbacks
  PROVE  /\ Sd(NotifyWhenReadable(d, f), f, TRUE, c, x, y, z)
         /\ Sd(NotifyWhenWritable(d, f), a, b, c, f, TRUE, z)
         /\ Sd(ClearReadable(d), "none", FALSE, c, x, y, z)
         /\ Sd(ClearWritable(d), a, b, c, "none", FALSE, z)
         /\ Sd(StopRead(d), a, FALSE, c, x, y, z)
         /\ Sd(StopWrite(d), a, b, c, x, FALSE, z)
         /\ Sd(TookReadable(d), a, b, "none", x, y, z)
         /\ Sd(TookWritable(d), a, b, c, x, y, "none")
         /\ Sd(QueueReadable(d), a, b, a, x, y, z)
         /\ Sd(QueueWritable(d), a, b, c, x, y, x)
         /\ HasReadableClosure(d) <=> b /\ a # "none" /\ c = "none"
         /\ HasWritableClosure(d) <=> y /\ x # "none" /\ z = "none"
         /\ ~HasTimeoutClosure(d)
         /\ NothingQueued(d) <=> c = "none" /\ z = "none"
<1> USE DEF Sd, SdType, Callbacks
<1>1. Sd(NotifyWhenReadable(d, f), f, TRUE, c, x, y, z)
  BY DEF NotifyWhenReadable
<1>2. Sd(NotifyWhenWritable(d, f), a, b, c, f, TRUE, z)
  BY DEF NotifyWhenWritable
<1>3. Sd(ClearReadable(d), "none", FALSE, c, x, y, z) /\ Sd(ClearWritable(d), a, b, c, "none", FALSE, z)
  BY DEF ClearReadable, ClearWritable
<1>4. Sd(StopRead(d), a, FALSE, c, x, y, z) /\ Sd(StopWrite(d), a, b, c, x, FALSE, z)
  BY DEF StopRead, StopWrite
<1>5. Sd(TookReadable(d), a, b, "none", x, y, z) /\ Sd(TookWritable(d), a, b, c, x, y, "none")
  BY DEF TookReadable, TookWritable
<1>6. Sd(QueueReadable(d), a, b, a, x, y, z) /\ Sd(QueueWritable(d), a, b, c, x, y, x)
  BY DEF QueueReadable, QueueWritable
<1>7. /\ HasReadableClosure(d) <=> b /\ a # "none" /\ c = "none"
      /\ HasWritableClosure(d) <=> y /\ x # "none" /\ z = "none"
      /\ ~HasTimeoutClosure(d)
      /\ NothingQueued(d) <=> c = "none" /\ z = "none"
  BY DEF HasReadableClosure, HasWritableClosure, HasTimeoutClosure, NothingQueued
<1> HIDE DEF Sd, SdType, Callbacks
<1> QED BY <1>1, <1>2, <1>3, <1>4, <1>5, <1>6, <1>7

\* The methods of a descriptor that may time out.
LEMMA DescriptorTimed ==
  ASSUME NEW d, NEW a, NEW b, NEW c, NEW x, NEW y, SdTimed(d, a, b, c, x, y)
  PROVE  /\ SdTimed(ClearReadable(d), "none", FALSE, c, x, y)
         /\ SdTimed(ClearWritable(d), a, b, c, x, y) /\ SdTimed(StopWrite(d), a, b, c, x, y)
         /\ SdTimed(StopRead(d), a, FALSE, c, x, y)
         /\ SdTimed(TookReadable(d), a, b, "none", x, y)
         /\ SdTimed(TookTimeout(d, TRUE), a, b, c, "none", FALSE)
         /\ SdTimed(QueueReadable(d), a, b, a, x, y)
         /\ SdTimed(QueueTimeout(d), a, b, c, x, TRUE)
         /\ y = FALSE => Sd(ClearTimeout(d), a, b, c, "none", FALSE, "none")
         /\ HasReadableClosure(d) <=> b /\ a # "none" /\ c = "none"
         /\ ~HasWritableClosure(d)
         /\ HasTimeoutClosure(d) <=> c = "none" /\ ~y /\ b
         /\ TimeoutWanted(d) <=> b /\ c = "none" /\ x # "none"
         /\ NothingQueued(d) <=> c = "none" /\ y = FALSE
<1> USE DEF SdTimed, SdType, Callbacks
<1>1. SdTimed(ClearReadable(d), "none", FALSE, c, x, y) /\ SdTimed(ClearWritable(d), a, b, c, x, y)
  BY DEF ClearReadable, ClearWritable
<1>2. SdTimed(StopWrite(d), a, b, c, x, y) /\ SdTimed(StopRead(d), a, FALSE, c, x, y)
  BY DEF StopRead, StopWrite
<1>3. SdTimed(TookReadable(d), a, b, "none", x, y) /\ SdTimed(TookTimeout(d, TRUE), a, b, c, "none", FALSE)
  BY DEF TookReadable, TookTimeout
<1>4. SdTimed(QueueReadable(d), a, b, a, x, y) /\ SdTimed(QueueTimeout(d), a, b, c, x, TRUE)
  BY DEF QueueReadable, QueueTimeout
<1>5. y = FALSE => Sd(ClearTimeout(d), a, b, c, "none", FALSE, "none")
  BY DEF ClearTimeout, Sd
<1>6. /\ HasReadableClosure(d) <=> b /\ a # "none" /\ c = "none"
      /\ ~HasWritableClosure(d)
      /\ HasTimeoutClosure(d) <=> c = "none" /\ ~y /\ b
      /\ TimeoutWanted(d) <=> b /\ c = "none" /\ x # "none"
      /\ NothingQueued(d) <=> c = "none" /\ y = FALSE
  BY DEF HasReadableClosure, HasWritableClosure, HasTimeoutClosure, TimeoutWanted, NothingQueued
<1> HIDE DEF SdTimed, SdType, Callbacks
<1> QED BY <1>1, <1>2, <1>3, <1>4, <1>5, <1>6

\* What Start() registers.
LEMMA FirstDescriptor ==
  ASSUME NEW d, Sd(d, "none", FALSE, "none", "none", FALSE, "none")
  PROVE  SdTimed(NotifyWhenTimedout(NotifyWhenReadable(d, "DoRead"), "DoTimeout"),
                 "DoRead", TRUE, "none", "DoTimeout", FALSE)
<1>1. Sd(NotifyWhenReadable(d, "DoRead"), "DoRead", TRUE, "none", "none", FALSE, "none")
  BY DEF Sd, SdType, Callbacks, NotifyWhenReadable
<1> DEFINE e == NotifyWhenReadable(d, "DoRead")
<1>2. Sd(e, "DoRead", TRUE, "none", "none", FALSE, "none")
  BY <1>1
<1> HIDE DEF e
<1>3. SdTimed(NotifyWhenTimedout(e, "DoTimeout"), "DoRead", TRUE, "none", "DoTimeout", FALSE)
  BY <1>2 DEF Sd, SdTimed, SdType, Callbacks, NotifyWhenTimedout
<1> QED BY <1>3 DEF e

\* The flags of a request, one set at a time.
LEMMA FlagsOf ==
  ASSUME NEW r, NEW a, NEW b, NEW c, NEW x, NEW y, NEW z, Rq(r, a, b, c, x, y, z)
  PROVE  /\ Rq([r EXCEPT !.read_finished = TRUE], TRUE, b, c, x, y, z)
         /\ Rq([r EXCEPT !.timed_out = TRUE], a, TRUE, c, x, y, z)
         /\ Rq([r EXCEPT !.inflight = TRUE], a, b, TRUE, x, y, z)
         /\ Rq([r EXCEPT !.closed_callback = TRUE], a, b, c, x, TRUE, z)
         /\ Rq([r EXCEPT !.closed = TRUE, !.closed_callback = FALSE], a, b, c, TRUE, FALSE, z)
         /\ x = TRUE => Rq(Reply(r), a, b, c, x, y, "closed")
         /\ x = FALSE => Rq(Reply(r), a, b, c, x, y, "open")
BY DEF Rq, RqType, Reply

-----------------------------------------------------------------------------
(***************************************************************************)
(* What is queued tells where a request is.                                *)
(***************************************************************************)
LEMMA AtStart ==
  ASSUME NEW o, NEW d, NEW r, NEW h, NEW t, NEW i, NEW q,
         Alive(o, d, r, h, t, i, q), "Start" \in i \cup q
  PROVE  Beginning(o, d, r, h, t, i, q) /\ o = "posted" /\ q = {"Start"}
BY DEF Alive, Beginning, Reading, Read, Handling, Watching, Told, Replying, ReplyingWatched,
       Written, Lost, Ended

\* The phases with a readable callback in the queue.
LEMMA AtReadable ==
  ASSUME NEW o, NEW d, NEW r, NEW h, NEW t, NEW i, NEW q,
         Alive(o, d, r, h, t, i, q), "readable" \in i \cup q
  PROVE  /\ "readable" \in q /\ "readable" \notin i
         /\ \/ Reading(o, d, r, h, t, i, q) \/ Watching(o, d, r, h, t, i, q)
            \/ ReplyingWatched(o, d, r, h, t, i, q) \/ Written(o, d, r, h, t, i, q)
BY DEF Alive, Beginning, Reading, Read, Handling, Watching, Told, Replying, ReplyingWatched,
       Written, Lost, Ended

\* The phases with a writable callback in the queue.
LEMMA AtWritable ==
  ASSUME NEW o, NEW d, NEW r, NEW h, NEW t, NEW i, NEW q,
         Alive(o, d, r, h, t, i, q), "writable" \in i \cup q
  PROVE  /\ "writable" \in q /\ "writable" \notin i
         /\ \/ Replying(o, d, r, h, t, i, q) \/ ReplyingWatched(o, d, r, h, t, i, q)
            \/ Lost(o, d, r, h, t, i, q)
BY DEF Alive, Beginning, Reading, Read, Handling, Watching, Told, Replying, ReplyingWatched,
       Written, Lost, Ended

\* The phases with a timedout callback in the queue.
LEMMA AtTimedout ==
  ASSUME NEW o, NEW d, NEW r, NEW h, NEW t, NEW i, NEW q,
         Alive(o, d, r, h, t, i, q), "timedout" \in i \cup q
  PROVE  "timedout" \in q /\ "timedout" \notin i /\ Reading(o, d, r, h, t, i, q)
BY DEF Alive, Beginning, Reading, Read, Handling, Watching, Told, Replying, ReplyingWatched,
       Written, Lost, Ended

\* The phase with ReadFinished() or DoCheckClosed() in a queue.
LEMMA AtReadFinished ==
  ASSUME NEW o, NEW d, NEW r, NEW h, NEW t, NEW i, NEW q, NEW f \in {"ReadFinished", "DoCheckClosed"},
         Alive(o, d, r, h, t, i, q), f \in i \cup q
  PROVE  q = {f} /\ f \notin i /\ Read(o, d, r, h, t, i, q)
BY DEF Alive, Beginning, Reading, Read, Handling, Watching, Told, Replying, ReplyingWatched,
       Written, Lost, Ended

\* The phases with NotifyWhenClosedInternal() in a queue.
LEMMA AtNotifyWhenClosedInternal ==
  ASSUME NEW o, NEW d, NEW r, NEW h, NEW t, NEW i, NEW q,
         Alive(o, d, r, h, t, i, q), "NotifyWhenClosedInternal" \in i \cup q
  PROVE  /\ q = {"NotifyWhenClosedInternal"} /\ "NotifyWhenClosedInternal" \notin i
         /\ Handling(o, d, r, h, t, i, q) \/ Replying(o, d, r, h, t, i, q)
BY DEF Alive, Beginning, Reading, Read, Handling, Watching, Told, Replying, ReplyingWatched,
       Written, Lost, Ended

\* The phases with DoClosed() in a queue.
LEMMA AtDoClosed ==
  ASSUME NEW o, NEW d, NEW r, NEW h, NEW t, NEW i, NEW q,
         Alive(o, d, r, h, t, i, q), "DoClosed" \in i \cup q
  PROVE  /\ "DoClosed" \in q /\ "DoClosed" \notin i
         /\ \/ Read(o, d, r, h, t, i, q) \/ Watching(o, d, r, h, t, i, q)
            \/ ReplyingWatched(o, d, r, h, t, i, q)
BY DEF Alive, Beginning, Reading, Read, Handling, Watching, Told, Replying, ReplyingWatched,
       Written, Lost, Ended

\* The phases with WriteFinished() in a queue.
LEMMA AtWriteFinished ==
  ASSUME NEW o, NEW d, NEW r, NEW h, NEW t, NEW i, NEW q,
         Alive(o, d, r, h, t, i, q), "WriteFinished" \in i \cup q
  PROVE  /\ q = {"WriteFinished"} /\ "WriteFinished" \notin i
         /\ Replying(o, d, r, h, t, i, q) \/ ReplyingWatched(o, d, r, h, t, i, q)
BY DEF Alive, Beginning, Reading, Read, Handling, Watching, Told, Replying, ReplyingWatched,
       Written, Lost, Ended

\* The phases with ExecDone() in a queue.
LEMMA AtExecDone ==
  ASSUME NEW o, NEW d, NEW r, NEW h, NEW t, NEW i, NEW q,
         Alive(o, d, r, h, t, i, q), "ExecDone" \in i \cup q
  PROVE  /\ i = {"ExecDone"} /\ "ExecDone" \notin q /\ h = "done"
         /\ \/ Handling(o, d, r, h, t, i, q) \/ Watching(o, d, r, h, t, i, q)
            \/ Told(o, d, r, h, t, i, q)
BY DEF Alive, Beginning, Reading, Read, Handling, Watching, Told, Replying, ReplyingWatched,
       Written, Lost, Ended

\* The phases with Finish() in a queue.
LEMMA AtFinish ==
  ASSUME NEW o, NEW d, NEW r, NEW h, NEW t, NEW i, NEW q,
         Alive(o, d, r, h, t, i, q), "Finish" \in i \cup q
  PROVE  /\ o = "live" /\ h \in {"none", "done"}
         /\ t = "no" \/ (r.closed /\ r.replied = "closed")
         /\ \/ i = {"Finish"} /\ q = {}
            \/ i = {} /\ q = {"Finish"}
         /\ d.read_in_queue = "none" /\ d.write_in_queue = "none" /\ ~d.timeout_in_queue
<1>1. Read(o, d, r, h, t, i, q) \/ Told(o, d, r, h, t, i, q) \/ Replying(o, d, r, h, t, i, q)
      \/ ReplyingWatched(o, d, r, h, t, i, q) \/ Written(o, d, r, h, t, i, q)
  BY DEF Alive, Beginning, Reading, Handling, Watching, Lost, Ended
<1>2. CASE Read(o, d, r, h, t, i, q)
  BY <1>2 DEF Read, SdTimed
<1>3. CASE Told(o, d, r, h, t, i, q)
  BY <1>3 DEF Told, Sd, Rq
<1>4. CASE Replying(o, d, r, h, t, i, q)
  BY <1>4 DEF Replying, Sd
<1>5. CASE ReplyingWatched(o, d, r, h, t, i, q)
  BY <1>5 DEF ReplyingWatched, Sd
<1>6. CASE Written(o, d, r, h, t, i, q)
  BY <1>6 DEF Written, Sd
<1> QED BY <1>1, <1>2, <1>3, <1>4, <1>5, <1>6

-----------------------------------------------------------------------------
(***************************************************************************)
(* What a closure makes of its request.                                    *)
(***************************************************************************)
LEMMA SomeCallbacks == {"DoRead", "DoTimeout", "DoCheckClosed", "DoWrite", "DoReadEOF"} \subseteq Callbacks
BY DEF Callbacks

\* The phase after Start().
LEMMA LifeAfterStart ==
  ASSUME NEW o, NEW d, NEW r, NEW h, NEW t, NEW i, NEW q,
         Alive(o, d, r, h, t, i, q), "Start" \in i \cup q
  PROVE  /\ o = "posted" /\ "Start" \in q /\ "Start" \notin i
         /\ Alive("live", NotifyWhenTimedout(NotifyWhenReadable(d, "DoRead"), "DoTimeout"), r, h, t,
                  i, q \ {"Start"})
<1>1. Beginning(o, d, r, h, t, i, q) /\ o = "posted" /\ q = {"Start"}
  BY AtStart
<1>2. SdTimed(NotifyWhenTimedout(NotifyWhenReadable(d, "DoRead"), "DoTimeout"),
              "DoRead", TRUE, "none", "DoTimeout", FALSE)
  BY <1>1, FirstDescriptor DEF Beginning
<1>3. Reading("live", NotifyWhenTimedout(NotifyWhenReadable(d, "DoRead"), "DoTimeout"), r, h, t,
              i, q \ {"Start"})
  BY <1>1, <1>2 DEF Beginning, Reading
<1> QED BY <1>1, <1>3 DEF Alive, Beginning

\* DoRead(): nothing yet, or StopRead() and the next closure.
LEMMA LifeAfterDoRead ==
  ASSUME NEW o, NEW d, NEW r, NEW h, NEW t, NEW i, NEW q,
         Reading(o, d, r, h, t, i, q), "readable" \in q, NEW f \in {"DoCheckClosed", "ReadFinished"}
  PROVE  /\ o = "live" /\ d.active_read /\ d.read_in_queue = "DoRead" /\ f \notin i \cup q
         /\ Alive(o, TookReadable(d), r, h, t, i, q \ {"readable"})
         /\ Alive(o, StopRead(TookReadable(d)), [r EXCEPT !.read_finished = TRUE], h, t, i,
                  (q \ {"readable"}) \cup {f})
<1>1. SdTimed(d, "DoRead", TRUE, "DoRead", "DoTimeout", FALSE) /\ q = {"readable"} /\ o = "live"
  <2>1. q # {} /\ q # {"timedout"}
    OBVIOUS
  <2> QED BY <2>1, Zenon DEF Reading
<1>2. PICK e : e = TookReadable(d) /\ SdTimed(e, "DoRead", TRUE, "none", "DoTimeout", FALSE)
  BY <1>1, DescriptorTimed
<1>3. SdTimed(StopRead(e), "DoRead", FALSE, "none", "DoTimeout", FALSE)
  BY <1>2, DescriptorTimed
<1>4. Rq([r EXCEPT !.read_finished = TRUE], TRUE, FALSE, FALSE, FALSE, FALSE, "no")
  BY FlagsOf DEF Reading
<1>5. Reading(o, e, r, h, t, i, {})
  BY <1>2 DEF Reading
<1>6. Read(o, StopRead(e), [r EXCEPT !.read_finished = TRUE], h, t, i, {f})
  BY <1>3, <1>4 DEF Reading, Read
<1>7. d.active_read /\ d.read_in_queue = "DoRead" /\ f \notin i \cup q
  BY <1>1 DEF SdTimed, Reading
<1>8. q \ {"readable"} = {} /\ (q \ {"readable"}) \cup {f} = {f}
  BY <1>1
<1>9. Alive(o, e, r, h, t, i, {}) /\ Alive(o, StopRead(e), [r EXCEPT !.read_finished = TRUE], h, t, i, {f})
  BY <1>5, <1>6 DEF Alive
<1> QED BY <1>1, <1>2, <1>7, <1>8, <1>9

\* The phase after DoTimeout().
LEMMA LifeAfterDoTimeout ==
  ASSUME NEW o, NEW d, NEW r, NEW h, NEW t, NEW i, NEW q,
         Alive(o, d, r, h, t, i, q), "timedout" \in i \cup q
  PROVE  /\ o = "live" /\ TimeoutWanted(d) /\ d.timeout_closure = "DoTimeout" /\ ~r.read_finished
         /\ "timedout" \in q /\ "timedout" \notin i /\ "Finish" \notin i \cup q
         /\ Alive(o, StopWrite(StopRead(TookTimeout(d, TRUE))), [r EXCEPT !.timed_out = TRUE], h, t, i,
                  (q \ {"timedout"}) \cup {"Finish"})
<1>1. "timedout" \in q /\ "timedout" \notin i /\ Reading(o, d, r, h, t, i, q)
  BY AtTimedout
<1>2. SdTimed(d, "DoRead", TRUE, "none", "DoTimeout", TRUE) /\ q = {"timedout"} /\ o = "live"
  <2>1. q # {} /\ q # {"readable"}
    BY <1>1
  <2> QED BY <1>1, <2>1, Zenon DEF Reading
<1>3. PICK e : e = TookTimeout(d, TRUE) /\ SdTimed(e, "DoRead", TRUE, "none", "none", FALSE)
  BY <1>2, DescriptorTimed
<1>4. PICK g : g = StopRead(e) /\ SdTimed(g, "DoRead", FALSE, "none", "none", FALSE)
  <2>1. SdTimed(StopRead(e), "DoRead", FALSE, "none", "none", FALSE)
    BY <1>3 DEF SdTimed, SdType, Callbacks, StopRead
  <2> QED BY <2>1
<1>5. SdTimed(StopWrite(g), "DoRead", FALSE, "none", "none", FALSE)
  BY <1>4, DescriptorTimed
<1>6. Rq([r EXCEPT !.timed_out = TRUE], FALSE, TRUE, FALSE, FALSE, FALSE, "no")
  BY <1>1, FlagsOf DEF Reading
<1>7. Read(o, StopWrite(g), [r EXCEPT !.timed_out = TRUE], h, t, i, {"Finish"})
  BY <1>1, <1>5, <1>6 DEF Reading, Read
<1>8. (q \ {"timedout"}) \cup {"Finish"} = {"Finish"} /\ "Finish" \notin i \cup q
  BY <1>1, <1>2 DEF Reading
<1>9. TimeoutWanted(d) /\ d.timeout_closure = "DoTimeout" /\ ~r.read_finished
  BY <1>1, <1>2 DEF SdTimed, TimeoutWanted, Reading, Rq
<1>10. Alive(o, StopWrite(g), [r EXCEPT !.timed_out = TRUE], h, t, i, {"Finish"})
  BY <1>7 DEF Alive
<1> QED BY <1>1, <1>2, <1>3, <1>4, <1>8, <1>9, <1>10

\* ReadFinished(): a reply at once, or a handler.
LEMMA LifeAfterReadFinished ==
  ASSUME NEW o, NEW d, NEW r, NEW h, NEW t, NEW i, NEW q,
         Alive(o, d, r, h, t, i, q), "ReadFinished" \in i \cup q
  PROVE  LET e == ClearTimeout(ClearReadable(d))
             s == [r EXCEPT !.inflight = TRUE]
         IN  /\ o = "live" /\ "ReadFinished" \in q /\ "ReadFinished" \notin i /\ ~s.closed
             /\ Alive(o, NotifyWhenWritable(e, "DoWrite"), Reply(s), h, t, i, q \ {"ReadFinished"})
             /\ Alive(o, e, s, "started", t, i, q \ {"ReadFinished"})
<1>1. q = {"ReadFinished"} /\ "ReadFinished" \notin i /\ Read(o, d, r, h, t, i, q)
  BY AtReadFinished
<1>2. SdTimed(d, "DoRead", FALSE, "none", "DoTimeout", FALSE) /\ o = "live" /\ i = {} /\ h = "none"
      /\ t = "no" /\ Rq(r, TRUE, FALSE, FALSE, FALSE, FALSE, "no")
  BY <1>1 DEF Read
<1>3. PICK g : g = ClearReadable(d) /\ SdTimed(g, "none", FALSE, "none", "DoTimeout", FALSE)
  BY <1>2, DescriptorTimed
<1>4. PICK e : e = ClearTimeout(g) /\ Sd(e, "none", FALSE, "none", "none", FALSE, "none")
  BY <1>3, DescriptorTimed
<1>5. Sd(NotifyWhenWritable(e, "DoWrite"), "none", FALSE, "none", "DoWrite", TRUE, "none")
  BY <1>4, DescriptorOf, SomeCallbacks
<1>6. PICK s : s = [r EXCEPT !.inflight = TRUE] /\ Rq(s, TRUE, FALSE, TRUE, FALSE, FALSE, "no")
  BY <1>2, FlagsOf
<1>7. Rq(Reply(s), TRUE, FALSE, TRUE, FALSE, FALSE, "open")
  BY <1>6, FlagsOf
<1>8. Replying(o, NotifyWhenWritable(e, "DoWrite"), Reply(s), h, t, i, {})
  BY <1>2, <1>5, <1>7 DEF Replying
<1>9. Handling(o, e, s, "started", t, i, {})
  BY <1>2, <1>4, <1>6 DEF Handling
<1>10. q \ {"ReadFinished"} = {} /\ ~s.closed
  BY <1>1, <1>6 DEF Rq
<1>11. Alive(o, NotifyWhenWritable(e, "DoWrite"), Reply(s), h, t, i, {}) /\ Alive(o, e, s, "started", t, i, {})
  BY <1>8, <1>9 DEF Alive
<1> QED BY <1>1, <1>2, <1>3, <1>4, <1>6, <1>10, <1>11

\* The phase after NotifyWhenClosedInternal().
LEMMA LifeAfterNotifyWhenClosedInternal ==
  ASSUME NEW o, NEW d, NEW r, NEW h, NEW t, NEW i, NEW q,
         Alive(o, d, r, h, t, i, q), "NotifyWhenClosedInternal" \in i \cup q
  PROVE  /\ o = "live" /\ "NotifyWhenClosedInternal" \in q /\ "NotifyWhenClosedInternal" \notin i
         /\ Alive(o, NotifyWhenReadable(d, "DoCheckClosed"), [r EXCEPT !.closed_callback = TRUE],
                  h, t, i, q \ {"NotifyWhenClosedInternal"})
<1> DEFINE e == NotifyWhenReadable(d, "DoCheckClosed")
           s == [r EXCEPT !.closed_callback = TRUE]
<1>1. /\ q = {"NotifyWhenClosedInternal"} /\ "NotifyWhenClosedInternal" \notin i
      /\ Handling(o, d, r, h, t, i, q) \/ Replying(o, d, r, h, t, i, q)
  BY AtNotifyWhenClosedInternal
<1>2. q \ {"NotifyWhenClosedInternal"} = {}
  BY <1>1
<1>3. CASE Handling(o, d, r, h, t, i, q)
  <2>1. /\ o = "live" /\ t = "no" /\ Rq(r, TRUE, FALSE, TRUE, FALSE, FALSE, "no")
        /\ Sd(d, "none", FALSE, "none", "none", FALSE, "none")
        /\ \/ h = "running" /\ i = {}
           \/ h = "done" /\ i = {"ExecDone"}
    BY <1>1, <1>3 DEF Handling
  <2>2. Sd(e, "DoCheckClosed", TRUE, "none", "none", FALSE, "none")
    BY <2>1 DEF Sd, SdType, Callbacks, NotifyWhenReadable
  <2>3. Rq(s, TRUE, FALSE, TRUE, FALSE, TRUE, "no")
    BY <2>1, FlagsOf
  <2>4. Watching(o, e, s, h, t, i, {})
    BY <2>1, <2>2, <2>3 DEF Watching
  <2> QED BY <1>1, <1>2, <2>1, <2>4 DEF Alive
<1>4. CASE Replying(o, d, r, h, t, i, q)
  <2>1. /\ o = "live" /\ t = "no" /\ i = {} /\ h = "done"
        /\ Rq(r, TRUE, FALSE, TRUE, FALSE, FALSE, "open")
        /\ Sd(d, "none", FALSE, "none", "DoWrite", TRUE, "none")
    BY <1>1, <1>4 DEF Replying
  <2>2. Sd(e, "DoCheckClosed", TRUE, "none", "DoWrite", TRUE, "none")
    BY <2>1, DescriptorOf, SomeCallbacks
  <2>3. Rq(s, TRUE, FALSE, TRUE, FALSE, TRUE, "open")
    BY <2>1, FlagsOf
  <2>4. ReplyingWatched(o, e, s, h, t, i, {})
    BY <2>1, <2>2, <2>3 DEF ReplyingWatched
  <2> QED BY <1>1, <1>2, <2>1, <2>4 DEF Alive
<1> QED BY <1>1, <1>3, <1>4

\* DoCheckClosed(), posted by DoRead(),
LEMMA LifeAfterDoCheckClosed ==
  ASSUME NEW o, NEW d, NEW r, NEW h, NEW t, NEW i, NEW q,
         Alive(o, d, r, h, t, i, q), "DoCheckClosed" \in i \cup q
  PROVE  /\ o = "live" /\ "DoCheckClosed" \in q /\ "DoCheckClosed" \notin i /\ "DoClosed" \notin i \cup q
         /\ Alive(o, StopWrite(StopRead(d)), r, h, t, i, (q \ {"DoCheckClosed"}) \cup {"DoClosed"})
<1>1. q = {"DoCheckClosed"} /\ "DoCheckClosed" \notin i /\ Read(o, d, r, h, t, i, q)
  BY AtReadFinished
<1>2. /\ SdTimed(d, "DoRead", FALSE, "none", "DoTimeout", FALSE) /\ o = "live" /\ i = {} /\ h = "none"
      /\ t = "no" /\ Rq(r, TRUE, FALSE, FALSE, FALSE, FALSE, "no")
  BY <1>1 DEF Read
<1>3. PICK e : e = StopRead(d) /\ SdTimed(e, "DoRead", FALSE, "none", "DoTimeout", FALSE)
  BY <1>2, DescriptorTimed
<1>4. SdTimed(StopWrite(e), "DoRead", FALSE, "none", "DoTimeout", FALSE)
  BY <1>3, DescriptorTimed
<1>5. Read(o, StopWrite(e), r, h, t, i, {"DoClosed"})
  BY <1>2, <1>4 DEF Read
<1>6. (q \ {"DoCheckClosed"}) \cup {"DoClosed"} = {"DoClosed"} /\ "DoClosed" \notin i \cup q
  BY <1>1, <1>2
<1>7. Alive(o, StopWrite(e), r, h, t, i, {"DoClosed"})
  BY <1>5 DEF Alive
<1> QED BY <1>1, <1>2, <1>3, <1>6, <1>7

\* and as the callback of a socket that is watched.
LEMMA LifeAfterWatch ==
  ASSUME NEW o, NEW d, NEW r, NEW h, NEW t, NEW i, NEW q,
         Watching(o, d, r, h, t, i, q) \/ ReplyingWatched(o, d, r, h, t, i, q), "readable" \in q
  PROVE  /\ o = "live" /\ d.active_read /\ d.read_in_queue = "DoCheckClosed" /\ "DoClosed" \notin i \cup q
         /\ Alive(o, StopWrite(StopRead(TookReadable(d))), r, h, t, i,
                  (q \ {"readable"}) \cup {"DoClosed"})
<1>1. ASSUME NEW x, NEW y, NEW z, Sd(d, "DoCheckClosed", TRUE, "DoCheckClosed", x, y, z)
      PROVE  /\ d.active_read /\ d.read_in_queue = "DoCheckClosed"
             /\ Sd(StopWrite(StopRead(TookReadable(d))), "DoCheckClosed", FALSE, "none", x, FALSE, z)
  BY <1>1 DEF Sd, SdType, Callbacks, StopRead, StopWrite, TookReadable
<1>2. CASE Watching(o, d, r, h, t, i, q)
  <2>1. q = {"readable"} /\ Sd(d, "DoCheckClosed", TRUE, "DoCheckClosed", "none", FALSE, "none")
    <3>1. q # {} /\ q # {"DoClosed"}
      OBVIOUS
    <3> QED BY <1>2, <3>1, Zenon DEF Watching
  <2>2. /\ d.active_read /\ d.read_in_queue = "DoCheckClosed"
        /\ Sd(StopWrite(StopRead(TookReadable(d))), "DoCheckClosed", FALSE, "none", "none", FALSE, "none")
    BY <1>1, <2>1
  <2>3. (q \ {"readable"}) \cup {"DoClosed"} = {"DoClosed"} /\ "DoClosed" \notin i \cup q
    BY <1>2, <2>1 DEF Watching
  <2>4. Watching(o, StopWrite(StopRead(TookReadable(d))), r, h, t, i, {"DoClosed"})
    BY <1>2, <2>2 DEF Watching
  <2> QED BY <1>2, <2>2, <2>3, <2>4 DEF Alive, Watching
<1>3. CASE ReplyingWatched(o, d, r, h, t, i, q)
  <2>1. \/ /\ q = {"readable"}
           /\ Sd(d, "DoCheckClosed", TRUE, "DoCheckClosed", "DoWrite", TRUE, "none")
        \/ /\ q = {"readable", "writable"}
           /\ Sd(d, "DoCheckClosed", TRUE, "DoCheckClosed", "DoWrite", TRUE, "DoWrite")
    <3>1. q \notin {{}, {"writable"}, {"writable", "DoClosed"}, {"DoClosed"}, {"Finish"}, {"WriteFinished"}}
      OBVIOUS
    <3>2. /\ q # {} /\ q # {"writable"} /\ q # {"writable", "DoClosed"} /\ q # {"DoClosed"}
          /\ q \notin {{"Finish"}, {"WriteFinished"}}
      BY <3>1
    <3> QED BY <1>3, <3>2, Zenon DEF ReplyingWatched
  <2>2. \/ /\ (q \ {"readable"}) \cup {"DoClosed"} = {"DoClosed"}
           /\ Sd(StopWrite(StopRead(TookReadable(d))), "DoCheckClosed", FALSE, "none", "DoWrite", FALSE, "none")
        \/ /\ (q \ {"readable"}) \cup {"DoClosed"} = {"writable", "DoClosed"}
           /\ Sd(StopWrite(StopRead(TookReadable(d))), "DoCheckClosed", FALSE, "none", "DoWrite", FALSE, "DoWrite")
    BY <1>1, <2>1
  <2>3. d.active_read /\ d.read_in_queue = "DoCheckClosed" /\ "DoClosed" \notin i \cup q
    BY <1>1, <1>3, <2>1 DEF ReplyingWatched
  <2>4. ReplyingWatched(o, StopWrite(StopRead(TookReadable(d))), r, h, t, i, (q \ {"readable"}) \cup {"DoClosed"})
    BY <1>3, <2>2 DEF ReplyingWatched
  <2> QED BY <1>3, <2>3, <2>4 DEF Alive, ReplyingWatched
<1> QED BY <1>2, <1>3

\* DoClosed(), when nothing is immediate.
LEMMA LifeAfterDoClosed ==
  ASSUME NEW o, NEW d, NEW r, NEW h, NEW t, NEW i, NEW q,
         Alive(o, d, r, h, t, i, q), "DoClosed" \in i \cup q, i = {}
  PROVE  LET u == IF r.closed_callback THEN "posted" ELSE t
         IN  /\ o = "live" /\ "DoClosed" \in q
             /\ Alive(o, ClearWritable(ClearReadable(d)),
                      [r EXCEPT !.closed = TRUE, !.closed_callback = FALSE], h, u,
                      IF r.inflight THEN i ELSE i \cup {"Finish"}, q \ {"DoClosed"})
<1> DEFINE u == IF r.closed_callback THEN "posted" ELSE t
           e == ClearWritable(ClearReadable(d))
           s == [r EXCEPT !.closed = TRUE, !.closed_callback = FALSE]
           j == IF r.inflight THEN i ELSE i \cup {"Finish"}
           p == q \ {"DoClosed"}
<1>1. /\ "DoClosed" \in q
      /\ \/ Read(o, d, r, h, t, i, q) \/ Watching(o, d, r, h, t, i, q)
         \/ ReplyingWatched(o, d, r, h, t, i, q)
  BY AtDoClosed
<1>2. CASE Read(o, d, r, h, t, i, q)
  <2>1. /\ q = {"DoClosed"} /\ o = "live" /\ h = "none" /\ t = "no"
        /\ SdTimed(d, "DoRead", FALSE, "none", "DoTimeout", FALSE)
        /\ Rq(r, TRUE, FALSE, FALSE, FALSE, FALSE, "no")
    <3>1. /\ q # {} /\ q # {"Finish"}
          /\ q \in {{"ReadFinished"}, {"DoCheckClosed"}, {"DoClosed"}} => q = {"DoClosed"}
      BY <1>1
    <3> QED BY <1>2, <3>1, Zenon DEF Read
  <2>2. SdTimed(e, "none", FALSE, "none", "DoTimeout", FALSE)
    BY <2>1 DEF SdTimed, SdType, Callbacks, ClearWritable, ClearReadable
  <2>3. Rq(s, TRUE, FALSE, FALSE, TRUE, FALSE, "no")
    BY <2>1, FlagsOf
  <2>4. p = {} /\ j = {"Finish"} /\ u = "no"
    BY <2>1 DEF Rq
  <2> HIDE DEF e, s, p, j, u
  <2>5. Read(o, e, s, h, u, j, p)
    BY <2>1, <2>2, <2>3, <2>4 DEF Read
  <2> QED BY <1>1, <2>1, <2>5 DEF Alive, e, s, p, j, u
<1>3. CASE Watching(o, d, r, h, t, i, q)
  <2>1. /\ q = {"DoClosed"} /\ o = "live" /\ h = "running"
        /\ Sd(d, "DoCheckClosed", FALSE, "none", "none", FALSE, "none")
        /\ Rq(r, TRUE, FALSE, TRUE, FALSE, TRUE, "no")
    <3>1. q # {} /\ q # {"readable"} /\ i # {"ExecDone"}
      BY <1>1
    <3> QED BY <1>3, <3>1, Zenon DEF Watching
  <2>2. Sd(e, "none", FALSE, "none", "none", FALSE, "none")
    BY <2>1 DEF Sd, SdType, Callbacks, ClearWritable, ClearReadable
  <2>3. Rq(s, TRUE, FALSE, TRUE, TRUE, FALSE, "no")
    BY <2>1, FlagsOf
  <2>4. p = {} /\ j = {} /\ u = "posted"
    BY <2>1 DEF Rq
  <2> HIDE DEF e, s, p, j, u
  <2>5. Told(o, e, s, h, u, j, p)
    BY <2>1, <2>2, <2>3, <2>4 DEF Told
  <2> QED BY <1>1, <2>1, <2>5 DEF Alive, e, s, p, j, u
<1>4. CASE ReplyingWatched(o, d, r, h, t, i, q)
  <2>1. /\ o = "live" /\ h = "done" /\ Rq(r, TRUE, FALSE, TRUE, FALSE, TRUE, "open")
        /\ \/ /\ \/ Sd(d, "DoCheckClosed", FALSE, "none", "DoWrite", FALSE, "none")
                 \/ Sd(d, "DoCheckClosed", FALSE, "none", "DoWrite", TRUE, "none")
              /\ q = {"DoClosed"}
           \/ /\ Sd(d, "DoCheckClosed", FALSE, "none", "DoWrite", FALSE, "DoWrite")
              /\ q = {"writable", "DoClosed"}
    <3>1. /\ q # {} /\ q # {"writable"} /\ q # {"readable"} /\ q # {"readable", "writable"}
          /\ q \notin {{"Finish"}, {"WriteFinished"}}
      BY <1>1
    <3> QED BY <1>4, <3>1, Zenon DEF ReplyingWatched
  <2>2. \/ p = {} /\ Sd(e, "none", FALSE, "none", "none", FALSE, "none")
        \/ p = {"writable"} /\ Sd(e, "none", FALSE, "none", "none", FALSE, "DoWrite")
    BY <2>1 DEF Sd, SdType, Callbacks, ClearWritable, ClearReadable
  <2>3. Rq(s, TRUE, FALSE, TRUE, TRUE, FALSE, "open")
    BY <2>1, FlagsOf
  <2>4. j = {} /\ u = "posted"
    BY <2>1 DEF Rq
  <2> HIDE DEF e, s, p, j, u
  <2>5. Lost(o, e, s, h, u, j, p)
    BY <2>1, <2>2, <2>3, <2>4 DEF Lost
  <2> QED BY <1>1, <2>1, <2>5 DEF Alive, e, s, p, j, u
<1> QED BY <1>1, <1>2, <1>3, <1>4

\* The callback to write, of a request that is not to be read first: DoWrite(), or
\* nothing if it was stopped.
LEMMA LifeAfterWritable ==
  ASSUME NEW o, NEW d, NEW r, NEW h, NEW t, NEW i, NEW q,
         Alive(o, d, r, h, t, i, q), "writable" \in i \cup q, "readable" \notin q
  PROVE  /\ o = "live" /\ "writable" \in q /\ "writable" \notin i
         /\ \/ /\ d.active_write /\ d.write_in_queue = "DoWrite"
               /\ \A f \in {"WriteFinished", "Finish"} :
                    /\ f \notin i \cup q
                    /\ Alive(o, StopWrite(TookWritable(d)), r, h, t, i, (q \ {"writable"}) \cup {f})
            \/ /\ ~d.active_write
               /\ Alive(o, TookWritable(d), r, h, t, i, q \ {"writable"})
<1> DEFINE e == TookWritable(d)
           g == StopWrite(TookWritable(d))
<1>1. /\ "writable" \in q /\ "writable" \notin i
      /\ \/ Replying(o, d, r, h, t, i, q) \/ ReplyingWatched(o, d, r, h, t, i, q)
         \/ Lost(o, d, r, h, t, i, q)
  BY AtWritable
<1>2. ASSUME NEW a, NEW b, NEW c, NEW x, NEW y, NEW z, Sd(d, a, b, c, x, y, z)
      PROVE  /\ d.active_write = y /\ d.write_in_queue = z
             /\ Sd(e, a, b, c, x, y, "none") /\ Sd(g, a, b, c, x, FALSE, "none")
  BY <1>2 DEF Sd, SdType, Callbacks, StopWrite, TookWritable
<1> HIDE DEF e, g
<1>3. CASE Replying(o, d, r, h, t, i, q)
  <2>1. /\ q = {"writable"} /\ h = "none" /\ o = "live" /\ t = "no" /\ i = {}
        /\ Rq(r, TRUE, FALSE, TRUE, FALSE, FALSE, "open")
        /\ Sd(d, "none", FALSE, "none", "DoWrite", TRUE, "DoWrite")
    <3>1. q # {} /\ q # {"NotifyWhenClosedInternal"} /\ q \notin {{"Finish"}, {"WriteFinished"}}
      BY <1>1
    <3> QED BY <1>3, <3>1, Zenon DEF Replying
  <2>2. Sd(g, "none", FALSE, "none", "DoWrite", FALSE, "none") /\ d.active_write /\ d.write_in_queue = "DoWrite"
    BY <1>2, <2>1
  <2>3. ASSUME NEW f \in {"WriteFinished", "Finish"}
        PROVE  f \notin i \cup q /\ Alive(o, g, r, h, t, i, (q \ {"writable"}) \cup {f})
    <3>1. (q \ {"writable"}) \cup {f} = {f} /\ {f} \in {{"Finish"}, {"WriteFinished"}} /\ f \notin i \cup q
      BY <2>1
    <3>2. Replying(o, g, r, h, t, i, {f})
      BY <2>1, <2>2, <3>1, Zenon DEF Replying
    <3> QED BY <3>1, <3>2 DEF Alive
  <2> QED BY <1>1, <2>1, <2>2, <2>3 DEF g
<1>4. CASE ReplyingWatched(o, d, r, h, t, i, q)
  <2>1. /\ o = "live" /\ t = "no" /\ i = {} /\ h = "done"
        /\ Rq(r, TRUE, FALSE, TRUE, FALSE, TRUE, "open")
        /\ \/ q = {"writable"} /\ Sd(d, "DoCheckClosed", TRUE, "none", "DoWrite", TRUE, "DoWrite")
           \/ /\ q = {"writable", "DoClosed"}
              /\ Sd(d, "DoCheckClosed", FALSE, "none", "DoWrite", FALSE, "DoWrite")
    <3>1. /\ q # {} /\ q # {"readable"} /\ q # {"readable", "writable"} /\ q # {"DoClosed"}
          /\ q \notin {{"Finish"}, {"WriteFinished"}}
      BY <1>1
    <3> QED BY <1>4, <3>1, Zenon DEF ReplyingWatched
  <2>2. CASE q = {"writable"}
    <3>1. Sd(d, "DoCheckClosed", TRUE, "none", "DoWrite", TRUE, "DoWrite")
      <4>1. q # {"writable", "DoClosed"}
        BY <2>2
      <4> QED BY <2>1, <4>1, Zenon
    <3>2. /\ Sd(g, "DoCheckClosed", TRUE, "none", "DoWrite", FALSE, "none")
          /\ d.active_write /\ d.write_in_queue = "DoWrite"
      BY <1>2, <3>1
    <3>3. ASSUME NEW f \in {"WriteFinished", "Finish"}
          PROVE  f \notin i \cup q /\ Alive(o, g, r, h, t, i, (q \ {"writable"}) \cup {f})
      <4>1. (q \ {"writable"}) \cup {f} = {f} /\ {f} \in {{"Finish"}, {"WriteFinished"}} /\ f \notin i \cup q
        BY <2>1, <2>2
      <4>2. ReplyingWatched(o, g, r, h, t, i, {f})
        BY <2>1, <3>2, <4>1, Zenon DEF ReplyingWatched
      <4> QED BY <4>1, <4>2 DEF Alive
    <3> QED BY <1>1, <2>1, <3>2, <3>3 DEF g
  <2>3. CASE q = {"writable", "DoClosed"}
    <3>1. Sd(d, "DoCheckClosed", FALSE, "none", "DoWrite", FALSE, "DoWrite")
      <4>1. q # {"writable"}
        BY <2>3
      <4> QED BY <2>1, <4>1, Zenon
    <3>2. Sd(e, "DoCheckClosed", FALSE, "none", "DoWrite", FALSE, "none") /\ ~d.active_write
      BY <1>2, <3>1
    <3>3. q \ {"writable"} = {"DoClosed"}
      BY <2>3
    <3>4. ReplyingWatched(o, e, r, h, t, i, {"DoClosed"})
      BY <2>1, <3>2, Zenon DEF ReplyingWatched
    <3> QED BY <1>1, <2>1, <3>2, <3>3, <3>4 DEF Alive, e
  <2> QED BY <2>1, <2>2, <2>3
<1>5. CASE Lost(o, d, r, h, t, i, q)
  <2>1. /\ o = "live" /\ t \in {"posted", "late"} /\ h = "done" /\ i = {} /\ q = {"writable"}
        /\ Rq(r, TRUE, FALSE, TRUE, TRUE, FALSE, "open")
        /\ Sd(d, "none", FALSE, "none", "none", FALSE, "DoWrite")
    <3>1. q # {}
      BY <1>1
    <3> QED BY <1>5, <3>1, Zenon DEF Lost
  <2>2. Sd(e, "none", FALSE, "none", "none", FALSE, "none") /\ ~d.active_write
    BY <1>2, <2>1
  <2>3. q \ {"writable"} = {}
    BY <2>1
  <2>4. Lost(o, e, r, h, t, i, {})
    BY <2>1, <2>2, Zenon DEF Lost
  <2> QED BY <1>1, <2>1, <2>2, <2>3, <2>4 DEF Alive, e
<1> QED BY <1>1, <1>3, <1>4, <1>5

\* The phase after WriteFinished().
LEMMA LifeAfterWriteFinished ==
  ASSUME NEW o, NEW d, NEW r, NEW h, NEW t, NEW i, NEW q,
         Alive(o, d, r, h, t, i, q), "WriteFinished" \in i \cup q
  PROVE  /\ o = "live" /\ "WriteFinished" \in q /\ "WriteFinished" \notin i
         /\ Alive(o, NotifyWhenReadable(ClearWritable(d), "DoReadEOF"), r, h, t, i,
                  q \ {"WriteFinished"})
<1> DEFINE e == NotifyWhenReadable(ClearWritable(d), "DoReadEOF")
<1>1. /\ q = {"WriteFinished"} /\ "WriteFinished" \notin i
      /\ Replying(o, d, r, h, t, i, q) \/ ReplyingWatched(o, d, r, h, t, i, q)
  BY AtWriteFinished
<1>2. ASSUME NEW a, NEW b, NEW c, NEW x, NEW y, NEW z, Sd(d, a, b, c, x, y, z)
      PROVE  Sd(e, "DoReadEOF", TRUE, c, "none", FALSE, z)
  BY <1>2 DEF Sd, SdType, Callbacks, NotifyWhenReadable, ClearWritable
<1> HIDE DEF e
<1>3. q \ {"WriteFinished"} = {}
  BY <1>1
<1>4. CASE Replying(o, d, r, h, t, i, q)
  <2>1. /\ h = "none" /\ o = "live" /\ t = "no" /\ i = {}
        /\ Rq(r, TRUE, FALSE, TRUE, FALSE, FALSE, "open")
        /\ Sd(d, "none", FALSE, "none", "DoWrite", FALSE, "none")
    <3>1. q # {} /\ q # {"NotifyWhenClosedInternal"} /\ q # {"writable"}
      BY <1>1
    <3> QED BY <1>4, <3>1, Zenon DEF Replying
  <2>2. Sd(e, "DoReadEOF", TRUE, "none", "none", FALSE, "none")
    BY <1>2, <2>1
  <2>3. Written(o, e, r, h, t, i, {})
    BY <2>1, <2>2, Zenon DEF Written
  <2> QED BY <1>1, <1>3, <2>1, <2>3 DEF Alive, e
<1>5. CASE ReplyingWatched(o, d, r, h, t, i, q)
  <2>1. /\ o = "live" /\ t = "no" /\ i = {} /\ h = "done"
        /\ Rq(r, TRUE, FALSE, TRUE, FALSE, TRUE, "open")
        /\ Sd(d, "DoCheckClosed", TRUE, "none", "DoWrite", FALSE, "none")
    <3>1. /\ q # {} /\ q # {"readable"} /\ q # {"readable", "writable"} /\ q # {"DoClosed"}
          /\ q # {"writable"} /\ q # {"writable", "DoClosed"}
      BY <1>1
    <3> QED BY <1>5, <3>1, Zenon DEF ReplyingWatched
  <2>2. Sd(e, "DoReadEOF", TRUE, "none", "none", FALSE, "none")
    BY <1>2, <2>1
  <2>3. Written(o, e, r, h, t, i, {})
    BY <2>1, <2>2, Zenon DEF Written
  <2> QED BY <1>1, <1>3, <2>1, <2>3 DEF Alive, e
<1> QED BY <1>1, <1>4, <1>5

\* The phase after DoReadEOF().
LEMMA LifeAfterDoReadEOF ==
  ASSUME NEW o, NEW d, NEW r, NEW h, NEW t, NEW i, NEW q,
         Written(o, d, r, h, t, i, q), "readable" \in q
  PROVE  /\ o = "live" /\ d.active_read /\ d.read_in_queue = "DoReadEOF" /\ "Finish" \notin i \cup q
         /\ Alive(o, StopRead(TookReadable(d)), r, h, t, i, (q \ {"readable"}) \cup {"Finish"})
<1> DEFINE e == StopRead(TookReadable(d))
<1>1. q = {"readable"} /\ Sd(d, "DoReadEOF", TRUE, "DoReadEOF", "none", FALSE, "none")
  <2>1. q # {} /\ q # {"Finish"}
    OBVIOUS
  <2> QED BY <2>1, Zenon DEF Written
<1>2. /\ Sd(e, "DoReadEOF", FALSE, "none", "none", FALSE, "none")
      /\ d.active_read /\ d.read_in_queue = "DoReadEOF"
  BY <1>1 DEF Sd, SdType, Callbacks, StopRead, TookReadable
<1> HIDE DEF e
<1>3. (q \ {"readable"}) \cup {"Finish"} = {"Finish"} /\ "Finish" \notin i \cup q /\ o = "live"
  BY <1>1 DEF Written
<1>4. Written(o, e, r, h, t, i, {"Finish"})
  BY <1>2, Zenon DEF Written
<1> QED BY <1>2, <1>3, <1>4 DEF Alive, e

\* The phase after Finish().
LEMMA LifeAfterFinish ==
  ASSUME NEW o, NEW d, NEW r, NEW h, NEW t, NEW i, NEW q,
         Alive(o, d, r, h, t, i, q), "Finish" \in i \cup q
  PROVE  o = "live" /\ Alive("freed", d, r, h, t, i \ {"Finish"}, q \ {"Finish"})
<1>1. /\ o = "live" /\ h \in {"none", "done"}
      /\ t = "no" \/ (r.closed /\ r.replied = "closed")
      /\ i \ {"Finish"} = {} /\ q \ {"Finish"} = {}
      /\ d.read_in_queue = "none" /\ d.write_in_queue = "none"
  BY AtFinish
<1>2. Ended("freed", d, r, h, t, {}, {})
  BY <1>1 DEF Ended
<1> QED BY <1>1, <1>2 DEF Alive

\* ExecDone(): SendReply() to an open socket, or to a closed one.
LEMMA LifeAfterExecDone ==
  ASSUME NEW o, NEW d, NEW r, NEW h, NEW t, NEW i, NEW q,
         Alive(o, d, r, h, t, i, q), "ExecDone" \in i \cup q
  PROVE  /\ o = "live" /\ "ExecDone" \in i /\ "ExecDone" \notin q
         /\ \/ /\ ~r.closed
               /\ Alive(o, NotifyWhenWritable(d, "DoWrite"), Reply(r), h, t, i \ {"ExecDone"}, q)
            \/ /\ r.closed /\ "Finish" \notin i \cup q
               /\ Alive(o, d, Reply(r), h, t, (i \ {"ExecDone"}) \cup {"Finish"}, q)
<1> DEFINE e == NotifyWhenWritable(d, "DoWrite")
<1>1. /\ i = {"ExecDone"} /\ "ExecDone" \notin q /\ h = "done"
      /\ \/ Handling(o, d, r, h, t, i, q) \/ Watching(o, d, r, h, t, i, q)
         \/ Told(o, d, r, h, t, i, q)
  BY AtExecDone
<1>2. ASSUME NEW a, NEW b, NEW c, NEW x, NEW y, NEW z, Sd(d, a, b, c, x, y, z)
      PROVE  Sd(e, a, b, c, "DoWrite", TRUE, z)
  BY <1>2 DEF Sd, SdType, Callbacks, NotifyWhenWritable
<1> HIDE DEF e
<1>3. i \ {"ExecDone"} = {} /\ (i \ {"ExecDone"}) \cup {"Finish"} = {"Finish"} /\ i # {}
  BY <1>1
<1>4. CASE Handling(o, d, r, h, t, i, q)
  <2>1. /\ o = "live" /\ t = "no" /\ Rq(r, TRUE, FALSE, TRUE, FALSE, FALSE, "no")
        /\ Sd(d, "none", FALSE, "none", "none", FALSE, "none") /\ q = {"NotifyWhenClosedInternal"}
    BY <1>1, <1>4 DEF Handling
  <2>2. Rq(Reply(r), TRUE, FALSE, TRUE, FALSE, FALSE, "open") /\ ~r.closed
    BY <2>1 DEF Rq, RqType, Reply
  <2>3. Sd(e, "none", FALSE, "none", "DoWrite", TRUE, "none")
    BY <1>2, <2>1
  <2>4. Replying(o, e, Reply(r), h, t, {}, q)
    BY <1>1, <2>1, <2>2, <2>3, Zenon DEF Replying
  <2> QED BY <1>1, <1>3, <2>1, <2>2, <2>4 DEF Alive, e
<1>5. CASE Watching(o, d, r, h, t, i, q)
  <2>1. /\ o = "live" /\ t = "no" /\ Rq(r, TRUE, FALSE, TRUE, FALSE, TRUE, "no")
        /\ \/ Sd(d, "DoCheckClosed", TRUE, "none", "none", FALSE, "none") /\ q = {}
           \/ Sd(d, "DoCheckClosed", TRUE, "DoCheckClosed", "none", FALSE, "none") /\ q = {"readable"}
           \/ Sd(d, "DoCheckClosed", FALSE, "none", "none", FALSE, "none") /\ q = {"DoClosed"}
    BY <1>5, Zenon DEF Watching
  <2>2. Rq(Reply(r), TRUE, FALSE, TRUE, FALSE, TRUE, "open") /\ ~r.closed
    BY <2>1 DEF Rq, RqType, Reply
  <2>3. \/ Sd(e, "DoCheckClosed", TRUE, "none", "DoWrite", TRUE, "none") /\ q = {}
        \/ Sd(e, "DoCheckClosed", TRUE, "DoCheckClosed", "DoWrite", TRUE, "none") /\ q = {"readable"}
        \/ Sd(e, "DoCheckClosed", FALSE, "none", "DoWrite", TRUE, "none") /\ q = {"DoClosed"}
    BY <1>2, <2>1
  <2>4. ReplyingWatched(o, e, Reply(r), h, t, {}, q)
    BY <1>1, <2>1, <2>2, <2>3, Zenon DEF ReplyingWatched
  <2> QED BY <1>1, <1>3, <2>1, <2>2, <2>4 DEF Alive, e
<1>6. CASE Told(o, d, r, h, t, i, q)
  <2>1. /\ o = "live" /\ t \in {"posted", "yes", "late"} /\ Rq(r, TRUE, FALSE, TRUE, TRUE, FALSE, "no") /\ q = {}
        /\ Sd(d, "none", FALSE, "none", "none", FALSE, "none")
    <3>1. i # {"Finish"}
      BY <1>1
    <3> QED BY <1>3, <1>6, <3>1, Zenon DEF Told
  <2>2. Rq(Reply(r), TRUE, FALSE, TRUE, TRUE, FALSE, "closed") /\ r.closed
    BY <2>1 DEF Rq, RqType, Reply
  <2>3. Told(o, d, Reply(r), h, t, {"Finish"}, q)
    BY <1>1, <2>1, <2>2, Zenon DEF Told
  <2>4. "Finish" \notin i \cup q
    BY <1>1, <2>1
  <2> QED BY <1>1, <1>3, <2>1, <2>2, <2>3, <2>4 DEF Alive
<1> QED BY <1>1, <1>4, <1>5, <1>6

-----------------------------------------------------------------------------
(***************************************************************************)
(* What its handler and the accept loop make of a request.                 *)
(***************************************************************************)
LEMMA LifeAfterNotifyWhenClosed ==
  ASSUME NEW o, NEW d, NEW r, NEW t, NEW i, NEW q, Alive(o, d, r, "started", t, i, q)
  PROVE  /\ "NotifyWhenClosedInternal" \notin i \cup q
         /\ Alive(o, d, r, "running", t, i, q \cup {"NotifyWhenClosedInternal"})
<1>1. Handling(o, d, r, "started", t, i, q)
  BY DEF Alive, Beginning, Reading, Read, Watching, Told, Replying, ReplyingWatched, Written, Lost, Ended
<1>2. i = {} /\ q = {}
  BY <1>1 DEF Handling
<1>3. Handling(o, d, r, "running", t, i, {"NotifyWhenClosedInternal"})
  BY <1>1, <1>2, Zenon DEF Handling
<1> QED BY <1>2, <1>3 DEF Alive

\* The phase after HandlerDone().
LEMMA LifeAfterHandlerDone ==
  ASSUME NEW o, NEW d, NEW r, NEW t, NEW i, NEW q, Alive(o, d, r, "running", t, i, q)
  PROVE  /\ "ExecDone" \notin i \cup q
         /\ Alive(o, d, r, "done", t, i \cup {"ExecDone"}, q)
<1>1. \/ Handling(o, d, r, "running", t, i, q) \/ Watching(o, d, r, "running", t, i, q)
      \/ Told(o, d, r, "running", t, i, q)
  BY DEF Alive, Beginning, Reading, Read, Replying, ReplyingWatched, Written, Lost, Ended
<1>2. i = {} /\ "ExecDone" \notin q
  BY <1>1 DEF Handling, Watching, Told
<1>3. CASE Handling(o, d, r, "running", t, i, q)
  <2>1. Handling(o, d, r, "done", t, {"ExecDone"}, q)
    BY <1>3 DEF Handling
  <2> QED BY <1>2, <2>1 DEF Alive
<1>4. CASE Watching(o, d, r, "running", t, i, q)
  <2>1. Watching(o, d, r, "done", t, {"ExecDone"}, q)
    BY <1>4, Zenon DEF Watching
  <2> QED BY <1>2, <2>1 DEF Alive
<1>5. CASE Told(o, d, r, "running", t, i, q)
  <2>1. Told(o, d, r, "done", t, {"ExecDone"}, q)
    <3>1. "running" # "done"
      OBVIOUS
    <3> QED BY <1>5, <3>1, Zenon DEF Told
  <2> QED BY <1>2, <2>1 DEF Alive
<1> QED BY <1>1, <1>3, <1>4, <1>5

\* The phase after closed_callback_ has run.
LEMMA LifeAfterClosedCallback ==
  ASSUME NEW o, NEW d, NEW r, NEW h, NEW i, NEW q, Alive(o, d, r, h, "posted", i, q)
  PROVE  Alive(o, d, r, h, IF h = "done" THEN "late" ELSE "yes", i, q)
<1>1. \/ Told(o, d, r, h, "posted", i, q) \/ Lost(o, d, r, h, "posted", i, q)
      \/ Ended(o, d, r, h, "posted", i, q)
  BY DEF Alive, Beginning, Reading, Read, Handling, Watching, Replying, ReplyingWatched, Written
<1>2. PICK u : u = IF h = "done" THEN "late" ELSE "yes"
  OBVIOUS
<1>3. u \in {"yes", "late"} /\ (h = "done" => u = "late") /\ "posted" # "no"
  BY <1>2
<1>4. CASE Told(o, d, r, h, "posted", i, q)
  <2>1. Told(o, d, r, h, u, i, q)
    BY <1>3, <1>4 DEF Told
  <2> QED BY <1>2, <2>1 DEF Alive
<1>5. CASE Lost(o, d, r, h, "posted", i, q)
  <2>1. Lost(o, d, r, h, u, i, q)
    BY <1>3, <1>5 DEF Lost
  <2> QED BY <1>2, <2>1 DEF Alive
<1>6. CASE Ended(o, d, r, h, "posted", i, q)
  <2>1. Ended(o, d, r, h, u, i, q)
    BY <1>3, <1>6 DEF Ended
  <2> QED BY <1>2, <2>1 DEF Alive
<1> QED BY <1>1, <1>4, <1>5, <1>6

\* The phase after Accept().
LEMMA LifeAfterAccept ==
  ASSUME NEW o \in {"none", "waiting"}, NEW d, NEW r, NEW h, NEW t, NEW i, NEW q, Alive(o, d, r, h, t, i, q)
  PROVE  /\ "Start" \notin i \cup q
         /\ Alive("waiting", d, r, h, t, i, q) /\ Alive("posted", d, r, h, t, i, q \cup {"Start"})
<1>1. Beginning(o, d, r, h, t, i, q)
  BY DEF Alive, Reading, Read, Handling, Watching, Told, Replying, ReplyingWatched, Written, Lost, Ended
<1>2. i = {} /\ q = {}
  BY <1>1 DEF Beginning
<1>3. Beginning("waiting", d, r, h, t, i, {}) /\ Beginning("posted", d, r, h, t, i, {"Start"})
  BY <1>1 DEF Beginning
<1> QED BY <1>2, <1>3 DEF Alive

-----------------------------------------------------------------------------
(***************************************************************************)
(* What PollEvents() queues of a request of which nothing is queued.       *)
(***************************************************************************)
PolledSd(d, readable, late) ==
  LET r == readable /\ HasReadableClosure(d)
      w == HasWritableClosure(d)
      t == ~r /\ ~w /\ late /\ HasTimeoutClosure(d)
      e == IF r THEN QueueReadable(d) ELSE d
      f == IF w THEN QueueWritable(e) ELSE e
  IN  IF t THEN QueueTimeout(f) ELSE f
PolledRuns(d, readable, late) ==
  LET r == readable /\ HasReadableClosure(d)
      w == HasWritableClosure(d)
      t == ~r /\ ~w /\ late /\ HasTimeoutClosure(d)
  IN  (IF r THEN {"readable"} ELSE {}) \cup (IF w THEN {"writable"} ELSE {})
      \cup (IF t THEN {"timedout"} ELSE {})

\* What Poll does with a descriptor depends on that one alone.
LEMMA PolledIs ==
  ASSUME NEW c \in Conns, NEW late
  PROVE  /\ Polled(c, late).sd = PolledSd(sd[c], Readable(c), late)
         /\ Polled(c, late).run = PolledRuns(sd[c], Readable(c), late)
BY DEF Polled, PolledSd, PolledRuns

\* Nothing to call, a callback to read, one to write, or both.
LEMMA PolledQuiet ==
  ASSUME NEW d, Sd(d, "none", FALSE, "none", "none", FALSE, "none"), NEW rd, NEW late
  PROVE  PolledSd(d, rd, late) = d /\ PolledRuns(d, rd, late) = {}
<1>1. ~HasReadableClosure(d) /\ ~HasWritableClosure(d) /\ ~HasTimeoutClosure(d)
  BY DEF Sd, HasReadableClosure, HasWritableClosure, HasTimeoutClosure
<1> QED BY <1>1 DEF PolledSd, PolledRuns

\* A descriptor with a callback to read, polled.
LEMMA PolledRead ==
  ASSUME NEW a \in Callbacks \ {"none"}, NEW d, Sd(d, a, TRUE, "none", "none", FALSE, "none"), NEW rd, NEW late
  PROVE  \/ PolledSd(d, rd, late) = d /\ PolledRuns(d, rd, late) = {}
         \/ /\ Sd(PolledSd(d, rd, late), a, TRUE, a, "none", FALSE, "none")
            /\ PolledRuns(d, rd, late) = {"readable"}
<1>1. HasReadableClosure(d) /\ ~HasWritableClosure(d) /\ ~HasTimeoutClosure(d)
  BY DEF Sd, HasReadableClosure, HasWritableClosure, HasTimeoutClosure
<1>2. Sd(QueueReadable(d), a, TRUE, a, "none", FALSE, "none")
  BY DEF Sd, SdType, Callbacks, QueueReadable
<1>3. CASE rd
  <2>1. PolledSd(d, rd, late) = QueueReadable(d) /\ PolledRuns(d, rd, late) = {"readable"}
    BY <1>1, <1>3 DEF PolledSd, PolledRuns
  <2> QED BY <1>2, <2>1
<1>4. CASE ~rd
  BY <1>1, <1>4 DEF PolledSd, PolledRuns
<1> QED BY <1>3, <1>4

\* One with a callback to write.
LEMMA PolledWrite ==
  ASSUME NEW d, Sd(d, "none", FALSE, "none", "DoWrite", TRUE, "none"), NEW rd, NEW late
  PROVE  /\ Sd(PolledSd(d, rd, late), "none", FALSE, "none", "DoWrite", TRUE, "DoWrite")
         /\ PolledRuns(d, rd, late) = {"writable"}
<1>1. ~HasReadableClosure(d) /\ HasWritableClosure(d) /\ ~HasTimeoutClosure(d)
  BY DEF Sd, HasReadableClosure, HasWritableClosure, HasTimeoutClosure
<1>2. Sd(QueueWritable(d), "none", FALSE, "none", "DoWrite", TRUE, "DoWrite")
  BY DEF Sd, SdType, Callbacks, QueueWritable
<1>3. PolledSd(d, rd, late) = QueueWritable(d) /\ PolledRuns(d, rd, late) = {"writable"}
  BY <1>1 DEF PolledSd, PolledRuns
<1> QED BY <1>2, <1>3

\* One with both: DoCheckClosed() watches while the reply is written.
LEMMA PolledBoth ==
  ASSUME NEW d, Sd(d, "DoCheckClosed", TRUE, "none", "DoWrite", TRUE, "none"), NEW rd, NEW late
  PROVE  \/ /\ Sd(PolledSd(d, rd, late), "DoCheckClosed", TRUE, "none", "DoWrite", TRUE, "DoWrite")
            /\ PolledRuns(d, rd, late) = {"writable"}
         \/ /\ Sd(PolledSd(d, rd, late), "DoCheckClosed", TRUE, "DoCheckClosed", "DoWrite", TRUE, "DoWrite")
            /\ PolledRuns(d, rd, late) = {"readable", "writable"}
<1>1. HasReadableClosure(d) /\ HasWritableClosure(d) /\ ~HasTimeoutClosure(d)
  BY DEF Sd, HasReadableClosure, HasWritableClosure, HasTimeoutClosure
<1>2. Sd(QueueWritable(d), "DoCheckClosed", TRUE, "none", "DoWrite", TRUE, "DoWrite")
  BY DEF Sd, SdType, Callbacks, QueueWritable
<1>3. Sd(QueueWritable(QueueReadable(d)), "DoCheckClosed", TRUE, "DoCheckClosed", "DoWrite", TRUE, "DoWrite")
  BY DEF Sd, SdType, Callbacks, QueueWritable, QueueReadable
<1>4. CASE rd
  <2>1. PolledSd(d, rd, late) = QueueWritable(QueueReadable(d))
        /\ PolledRuns(d, rd, late) = {"readable", "writable"}
    BY <1>1, <1>4 DEF PolledSd, PolledRuns
  <2> QED BY <1>3, <2>1
<1>5. CASE ~rd
  <2>1. PolledSd(d, rd, late) = QueueWritable(d) /\ PolledRuns(d, rd, late) = {"writable"}
    BY <1>1, <1>5 DEF PolledSd, PolledRuns
  <2> QED BY <1>2, <2>1
<1> QED BY <1>4, <1>5

\* One that may time out.
LEMMA PolledTimed ==
  ASSUME NEW d, SdTimed(d, "DoRead", TRUE, "none", "DoTimeout", FALSE), NEW rd, NEW late
  PROVE  \/ PolledSd(d, rd, late) = d /\ PolledRuns(d, rd, late) = {}
         \/ /\ SdTimed(PolledSd(d, rd, late), "DoRead", TRUE, "DoRead", "DoTimeout", FALSE)
            /\ PolledRuns(d, rd, late) = {"readable"}
         \/ /\ SdTimed(PolledSd(d, rd, late), "DoRead", TRUE, "none", "DoTimeout", TRUE)
            /\ PolledRuns(d, rd, late) = {"timedout"}
<1>1. HasReadableClosure(d) /\ ~HasWritableClosure(d) /\ HasTimeoutClosure(d)
  BY DEF SdTimed, HasReadableClosure, HasWritableClosure, HasTimeoutClosure
<1>2. /\ SdTimed(QueueReadable(d), "DoRead", TRUE, "DoRead", "DoTimeout", FALSE)
      /\ SdTimed(QueueTimeout(d), "DoRead", TRUE, "none", "DoTimeout", TRUE)
  BY DEF SdTimed, SdType, Callbacks, QueueReadable, QueueTimeout
<1>3. CASE rd
  <2>1. PolledSd(d, rd, late) = QueueReadable(d) /\ PolledRuns(d, rd, late) = {"readable"}
    BY <1>1, <1>3 DEF PolledSd, PolledRuns
  <2> QED BY <1>2, <2>1
<1>4. CASE ~rd /\ late
  <2>1. PolledSd(d, rd, late) = QueueTimeout(d) /\ PolledRuns(d, rd, late) = {"timedout"}
    BY <1>1, <1>4 DEF PolledSd, PolledRuns
  <2> QED BY <1>2, <2>1
<1>5. CASE ~rd /\ ~late
  BY <1>1, <1>5 DEF PolledSd, PolledRuns
<1> QED BY <1>3, <1>4, <1>5

\* A request stays in its phase when its descriptor is polled.
LEMMA LifeAfterPoll ==
  ASSUME NEW d, NEW r, NEW h, NEW t, Alive("live", d, r, h, t, {}, {}), NEW rd, NEW late
  PROVE  Alive("live", PolledSd(d, rd, late), r, h, t, {}, PolledRuns(d, rd, late))
<1> DEFINE e == PolledSd(d, rd, late)
           s == PolledRuns(d, rd, late)
<1>1. \/ Reading("live", d, r, h, t, {}, {}) \/ Handling("live", d, r, h, t, {}, {})
      \/ Watching("live", d, r, h, t, {}, {}) \/ Told("live", d, r, h, t, {}, {})
      \/ Replying("live", d, r, h, t, {}, {}) \/ ReplyingWatched("live", d, r, h, t, {}, {})
      \/ Written("live", d, r, h, t, {}, {}) \/ Lost("live", d, r, h, t, {}, {})
  BY DEF Alive, Beginning, Read, Ended
<1>f. /\ {} # {"readable"} /\ {} # {"timedout"} /\ {} # {"DoClosed"} /\ {} # {"ExecDone"} /\ {} # {"Finish"}
      /\ {} # {"NotifyWhenClosedInternal"} /\ {} # {"writable"} /\ {} # {"readable", "writable"}
      /\ {} # {"writable", "DoClosed"} /\ {} \notin {{"Finish"}, {"WriteFinished"}}
  OBVIOUS
<1>2. CASE Reading("live", d, r, h, t, {}, {})
  <2>1. SdTimed(d, "DoRead", TRUE, "none", "DoTimeout", FALSE)
    BY <1>2, <1>f, Zenon DEF Reading
  <2>2. \/ SdTimed(e, "DoRead", TRUE, "none", "DoTimeout", FALSE) /\ s = {}
        \/ SdTimed(e, "DoRead", TRUE, "DoRead", "DoTimeout", FALSE) /\ s = {"readable"}
        \/ SdTimed(e, "DoRead", TRUE, "none", "DoTimeout", TRUE) /\ s = {"timedout"}
    BY <2>1, PolledTimed
  <2> HIDE DEF e, s
  <2>3. Reading("live", e, r, h, t, {}, s)
    BY <1>2, <2>2, Zenon DEF Reading
  <2> QED BY <2>3 DEF Alive, e, s
<1>3. CASE Handling("live", d, r, h, t, {}, {})
  <2>1. e = d /\ s = {}
    BY <1>3, PolledQuiet DEF Handling
  <2> QED BY <2>1 DEF Alive
<1>4. CASE Watching("live", d, r, h, t, {}, {})
  <2>1. Sd(d, "DoCheckClosed", TRUE, "none", "none", FALSE, "none")
    BY <1>4, <1>f, Zenon DEF Watching
  <2>2. \/ Sd(e, "DoCheckClosed", TRUE, "none", "none", FALSE, "none") /\ s = {}
        \/ Sd(e, "DoCheckClosed", TRUE, "DoCheckClosed", "none", FALSE, "none") /\ s = {"readable"}
    BY <2>1, PolledRead, "DoCheckClosed" \in Callbacks \ {"none"} DEF Callbacks
  <2> HIDE DEF e, s
  <2>3. Watching("live", e, r, h, t, {}, s)
    BY <1>4, <2>2, Zenon DEF Watching
  <2> QED BY <2>3 DEF Alive, e, s
<1>5. CASE Told("live", d, r, h, t, {}, {})
  <2>1. e = d /\ s = {}
    BY <1>5, PolledQuiet DEF Told
  <2> QED BY <2>1 DEF Alive
<1>6. CASE Replying("live", d, r, h, t, {}, {})
  <2>1. h = "none" /\ Sd(d, "none", FALSE, "none", "DoWrite", TRUE, "none")
    BY <1>6, <1>f, Zenon DEF Replying
  <2>2. Sd(e, "none", FALSE, "none", "DoWrite", TRUE, "DoWrite") /\ s = {"writable"}
    BY <2>1, PolledWrite
  <2> HIDE DEF e, s
  <2>3. Replying("live", e, r, h, t, {}, s)
    BY <1>6, <2>1, <2>2, Zenon DEF Replying
  <2> QED BY <2>3 DEF Alive, e, s
<1>7. CASE ReplyingWatched("live", d, r, h, t, {}, {})
  <2>1. Sd(d, "DoCheckClosed", TRUE, "none", "DoWrite", TRUE, "none")
    BY <1>7, <1>f, Zenon DEF ReplyingWatched
  <2>2. \/ Sd(e, "DoCheckClosed", TRUE, "none", "DoWrite", TRUE, "DoWrite") /\ s = {"writable"}
        \/ /\ Sd(e, "DoCheckClosed", TRUE, "DoCheckClosed", "DoWrite", TRUE, "DoWrite")
           /\ s = {"readable", "writable"}
    BY <2>1, PolledBoth
  <2> HIDE DEF e, s
  <2>3. ReplyingWatched("live", e, r, h, t, {}, s)
    BY <1>7, <2>2, Zenon DEF ReplyingWatched
  <2> QED BY <2>3 DEF Alive, e, s
<1>8. CASE Written("live", d, r, h, t, {}, {})
  <2>1. Sd(d, "DoReadEOF", TRUE, "none", "none", FALSE, "none")
    BY <1>8, <1>f, Zenon DEF Written
  <2>2. \/ Sd(e, "DoReadEOF", TRUE, "none", "none", FALSE, "none") /\ s = {}
        \/ Sd(e, "DoReadEOF", TRUE, "DoReadEOF", "none", FALSE, "none") /\ s = {"readable"}
    BY <2>1, PolledRead, "DoReadEOF" \in Callbacks \ {"none"} DEF Callbacks
  <2> HIDE DEF e, s
  <2>3. Written("live", e, r, h, t, {}, s)
    BY <1>8, <2>2, Zenon DEF Written
  <2> QED BY <2>3 DEF Alive, e, s
<1>9. CASE Lost("live", d, r, h, t, {}, {})
  <2>1. e = d /\ s = {}
    <3>1. Sd(d, "none", FALSE, "none", "none", FALSE, "none")
      BY <1>9, <1>f, Zenon DEF Lost
    <3> QED BY <3>1, PolledQuiet
  <2> QED BY <2>1 DEF Alive
<1> QED BY <1>1, <1>2, <1>3, <1>4, <1>5, <1>6, <1>7, <1>8, <1>9

-----------------------------------------------------------------------------
(***************************************************************************)
(* The queues.                                                             *)
(***************************************************************************)
LEMMA ClosureIs ==
  /\ \A c \in Conns, f \in Runs : Closure(c, f) \in Entry
  /\ \A e \in Entry : e.conn \in Conns /\ e.run \in Runs /\ e = Closure(e.conn, e.run)
  /\ \A c, b, f, g : Closure(c, f) = Closure(b, g) <=> c = b /\ f = g
BY DEF Closure, Entry

\* An empty queue.
LEMMA RunsEmpty ==
  /\ \A c : RunsOf(<<>>, c) = {}
  /\ <<>> \in Seq(Entry) /\ Once(<<>>) /\ ReadFirst(<<>>)
<1>1. <<>> \in Seq(Entry) /\ Len(<<>>) = 0
  OBVIOUS
<1>2. 1 .. Len(<<>>) = {}
  BY <1>1
<1> QED BY <1>1, <1>2 DEF RunsOf, Once, ReadFirst

\* The first entry is taken.
LEMMA RunsTail ==
  ASSUME NEW q \in Seq(Entry), q # <<>>, Once(q)
  PROVE  LET e == Head(q)
         IN  /\ e \in Entry /\ Tail(q) \in Seq(Entry) /\ Once(Tail(q))
             /\ e.run \in RunsOf(q, e.conn)
             /\ RunsOf(Tail(q), e.conn) = RunsOf(q, e.conn) \ {e.run}
             /\ \A b \in Conns \ {e.conn} : RunsOf(Tail(q), b) = RunsOf(q, b)
             /\ ReadFirst(q) => /\ ReadFirst(Tail(q))
                                /\ e.run = "writable" => "readable" \notin RunsOf(q, e.conn)
<1> DEFINE e == Head(q)
<1>1. /\ Len(q) \in Nat \ {0} /\ e = q[1] /\ e \in Entry
      /\ Tail(q) \in Seq(Entry) /\ Len(Tail(q)) = Len(q) - 1
      /\ \A n \in 1 .. Len(Tail(q)) : Tail(q)[n] = q[n + 1]
  BY HeadTailProperties
<1>2. e.conn \in Conns /\ e.run \in Runs /\ e = Closure(e.conn, e.run)
  BY <1>1, ClosureIs
<1> HIDE DEF e
<1>3. Once(Tail(q))
  BY <1>1 DEF Once
<1>4. e.run \in RunsOf(q, e.conn)
  BY <1>1, <1>2 DEF RunsOf
<1>5. ASSUME NEW b, NEW f
      PROVE  f \in RunsOf(Tail(q), b) <=> f \in RunsOf(q, b) /\ Closure(b, f) # e
  <2>1. ASSUME f \in RunsOf(Tail(q), b)
        PROVE  f \in RunsOf(q, b) /\ Closure(b, f) # e
    <3>1. PICK n \in 1 .. Len(Tail(q)) : Tail(q)[n] = Closure(b, f)
      BY <2>1 DEF RunsOf
    <3>2. f \in Runs
      BY <2>1 DEF RunsOf
    <3>3. n + 1 \in 1 .. Len(q) /\ q[n + 1] = Closure(b, f) /\ n + 1 # 1
      BY <1>1, <3>1
    <3>4. q[n + 1] # q[1]
      BY <1>1, <3>3 DEF Once
    <3> QED BY <1>1, <3>2, <3>3, <3>4 DEF RunsOf
  <2>2. ASSUME f \in RunsOf(q, b), Closure(b, f) # e
        PROVE  f \in RunsOf(Tail(q), b)
    <3>1. PICK n \in 1 .. Len(q) : q[n] = Closure(b, f)
      BY <2>2 DEF RunsOf
    <3>2. f \in Runs
      BY <2>2 DEF RunsOf
    <3>3. n # 1
      BY <1>1, <2>2, <3>1
    <3>4. n - 1 \in 1 .. Len(Tail(q)) /\ Tail(q)[n - 1] = Closure(b, f)
      BY <1>1, <3>1, <3>3
    <3> QED BY <3>2, <3>4 DEF RunsOf
  <2> QED BY <2>1, <2>2
<1>6. RunsOf(Tail(q), e.conn) = RunsOf(q, e.conn) \ {e.run}
  <2>1. \A f : Closure(e.conn, f) # e <=> f # e.run
    BY <1>2, ClosureIs
  <2> QED BY <1>5, <2>1
<1>7. ASSUME NEW b \in Conns \ {e.conn}
      PROVE  RunsOf(Tail(q), b) = RunsOf(q, b)
  <2>1. \A f : Closure(b, f) # e
    BY <1>2, ClosureIs
  <2>2. \A f : f \in RunsOf(Tail(q), b) <=> f \in RunsOf(q, b)
    BY <1>5, <2>1
  <2> QED BY <2>2
<1>8. ASSUME ReadFirst(q)
      PROVE  /\ ReadFirst(Tail(q))
             /\ e.run = "writable" => "readable" \notin RunsOf(q, e.conn)
  <2>1. ReadFirst(Tail(q))
    <3>1. SUFFICES ASSUME NEW c \in Conns, NEW m \in 1 .. Len(Tail(q)), NEW n \in 1 .. Len(Tail(q)),
                          Tail(q)[m] = Closure(c, "readable"), Tail(q)[n] = Closure(c, "writable")
                   PROVE  m < n
      BY DEF ReadFirst
    <3>2. /\ m + 1 \in 1 .. Len(q) /\ n + 1 \in 1 .. Len(q)
          /\ q[m + 1] = Closure(c, "readable") /\ q[n + 1] = Closure(c, "writable")
      BY <1>1, <3>1
    <3>3. m + 1 < n + 1
      BY <1>8, <3>2 DEF ReadFirst
    <3> QED BY <3>3
  <2>2. ASSUME e.run = "writable", "readable" \in RunsOf(q, e.conn)
        PROVE  FALSE
    <3>1. PICK m \in 1 .. Len(q) : q[m] = Closure(e.conn, "readable")
      BY <2>2 DEF RunsOf
    <3>2. 1 \in 1 .. Len(q) /\ q[1] = Closure(e.conn, "writable")
      BY <1>1, <1>2, <2>2
    <3>3. m < 1
      BY <1>2, <1>8, <3>1, <3>2 DEF ReadFirst
    <3> QED BY <3>3
  <2> QED BY <2>1, <2>2
<1> QED BY <1>1, <1>3, <1>4, <1>6, <1>7, <1>8 DEF e

\* An entry more.
LEMMA RunsAppend ==
  ASSUME NEW q \in Seq(Entry), Once(q), NEW c \in Conns, NEW f \in Runs, f \notin RunsOf(q, c)
  PROVE  LET p == Append(q, Closure(c, f))
         IN  /\ p \in Seq(Entry) /\ Once(p)
             /\ RunsOf(p, c) = RunsOf(q, c) \cup {f}
             /\ \A b \in Conns \ {c} : RunsOf(p, b) = RunsOf(q, b)
             /\ ReadFirst(q) /\ f # "readable" => ReadFirst(p)
<1> DEFINE e == Closure(c, f)
           p == Append(q, e)
<1>1. e \in Entry
  BY ClosureIs
<1>2. /\ p \in Seq(Entry) /\ Len(q) \in Nat /\ Len(p) = Len(q) + 1 /\ p[Len(q) + 1] = e
      /\ \A n \in 1 .. Len(q) : p[n] = q[n]
  BY <1>1, AppendProperties
<1> HIDE DEF p, e
<1>3. \A n \in 1 .. Len(q) : q[n] # e
  BY DEF RunsOf, e
<1>4. Once(p)
  <2>1. SUFFICES ASSUME NEW m \in 1 .. Len(p), NEW n \in 1 .. Len(p), p[m] = p[n]
                 PROVE  m = n
    BY DEF Once
  <2>2. CASE m \in 1 .. Len(q) /\ n \in 1 .. Len(q)
    BY <1>2, <2>1, <2>2 DEF Once
  <2>3. CASE m = Len(q) + 1 \/ n = Len(q) + 1
    BY <1>2, <1>3, <2>1, <2>3
  <2> QED BY <1>2, <2>2, <2>3
<1>5. ASSUME NEW b, NEW g
      PROVE  g \in RunsOf(p, b) <=> g \in RunsOf(q, b) \/ (g \in Runs /\ Closure(b, g) = e)
  <2>1. ASSUME g \in RunsOf(p, b)
        PROVE  g \in RunsOf(q, b) \/ (g \in Runs /\ Closure(b, g) = e)
    <3>1. PICK n \in 1 .. Len(p) : p[n] = Closure(b, g)
      BY <2>1 DEF RunsOf
    <3>2. g \in Runs
      BY <2>1 DEF RunsOf
    <3>3. CASE n \in 1 .. Len(q)
      BY <1>2, <3>1, <3>2, <3>3 DEF RunsOf
    <3>4. CASE n = Len(q) + 1
      BY <1>2, <3>1, <3>2, <3>4
    <3> QED BY <1>2, <3>3, <3>4
  <2>2. ASSUME g \in RunsOf(q, b)
        PROVE  g \in RunsOf(p, b)
    <3>1. PICK n \in 1 .. Len(q) : q[n] = Closure(b, g)
      BY <2>2 DEF RunsOf
    <3>2. g \in Runs
      BY <2>2 DEF RunsOf
    <3>3. n \in 1 .. Len(p) /\ p[n] = Closure(b, g)
      BY <1>2, <3>1
    <3> QED BY <3>2, <3>3 DEF RunsOf
  <2>3. ASSUME g \in Runs, Closure(b, g) = e
        PROVE  g \in RunsOf(p, b)
    <3>1. Len(q) + 1 \in 1 .. Len(p)
      BY <1>2
    <3> QED BY <1>2, <2>3, <3>1 DEF RunsOf
  <2> QED BY <2>1, <2>2, <2>3
<1>6. RunsOf(p, c) = RunsOf(q, c) \cup {f}
  <2>1. \A g : Closure(c, g) = e <=> g = f
    BY ClosureIs DEF e
  <2> QED BY <1>5, <2>1
<1>7. ASSUME NEW b \in Conns \ {c}
      PROVE  RunsOf(p, b) = RunsOf(q, b)
  <2>1. \A g : Closure(b, g) # e
    BY ClosureIs DEF e
  <2> QED BY <1>5, <2>1
<1>8. ASSUME ReadFirst(q), f # "readable"
      PROVE  ReadFirst(p)
  <2>1. SUFFICES ASSUME NEW b \in Conns, NEW m \in 1 .. Len(p), NEW n \in 1 .. Len(p),
                        p[m] = Closure(b, "readable"), p[n] = Closure(b, "writable")
                 PROVE  m < n
    BY DEF ReadFirst
  <2>2. m # Len(q) + 1
    BY <1>2, <1>8, <2>1, ClosureIs DEF e
  <2>3. m \in 1 .. Len(q) /\ q[m] = Closure(b, "readable")
    BY <1>2, <2>1, <2>2
  <2>4. CASE n \in 1 .. Len(q)
    BY <1>2, <1>8, <2>1, <2>3, <2>4 DEF ReadFirst
  <2>5. CASE n = Len(q) + 1
    BY <1>2, <2>3, <2>5
  <2> QED BY <1>2, <2>4, <2>5
<1> QED BY <1>2, <1>4, <1>6, <1>7, <1>8 DEF p, e

-----------------------------------------------------------------------------
(***************************************************************************)
(* What a step does to one request, and what it leaves of the others.      *)
(***************************************************************************)
Changed(g, k, c, v) == DOMAIN k = Conns /\ k[c] = v /\ \A b \in Conns \ {c} : k[b] = g[b]

\* EXCEPT changes one connection.
LEMMA ChangedBy ==
  ASSUME NEW g, DOMAIN g = Conns, NEW c \in Conns, NEW v
  PROVE  Changed(g, [g EXCEPT ![c] = v], c, v) /\ Changed(g, g, c, g[c])
BY DEF Changed

\* The other connections live on when one of them changes and the queues have the same
\* entries for the others.
LEMMA LivesOn ==
  ASSUME \A b \in Conns : Life(b), NEW c \in Conns, NEW o, NEW d, NEW r, NEW h, NEW t,
         Changed(object, object', c, o), Changed(sd, sd', c, d), Changed(request, request', c, r),
         Changed(handler, handler', c, h), Changed(told, told', c, t),
         NEW i, NEW q, immediate' = i, high' = q,
         \A b \in Conns \ {c} : RunsOf(i, b) = RunsOf(immediate, b) /\ RunsOf(q, b) = RunsOf(high, b),
         Alive(o, d, r, h, t, RunsOf(i, c), RunsOf(q, c))
  PROVE  Maps' /\ \A b \in Conns : Life(b)'
<1>1. Maps'
  BY DEF Maps, Changed
<1>2. ASSUME NEW b \in Conns
      PROVE  Life(b)'
  <2>1. CASE b = c
    BY <2>1 DEF Life, Changed
  <2>2. CASE b # c
    <3>1. /\ object'[b] = object[b] /\ sd'[b] = sd[b] /\ request'[b] = request[b]
          /\ handler'[b] = handler[b] /\ told'[b] = told[b]
      BY <2>2 DEF Changed
    <3>2. RunsOf(i, b) = RunsOf(immediate, b) /\ RunsOf(q, b) = RunsOf(high, b)
      BY <2>2
    <3>3. Life(b)
      OBVIOUS
    <3> QED BY <3>1, <3>2, <3>3 DEF Life
  <2> QED BY <2>1, <2>2
<1> QED BY <1>1, <1>2

\* The count is right as long as no connection begins or ends.
LEMMA CountedSame ==
  ASSUME Counted, num_sockets' = num_sockets, max_sockets' = max_sockets,
         NEW c \in Conns, NEW o, Changed(object, object', c, o),
         o \in {"posted", "live"} <=> object[c] \in {"posted", "live"},
         o = "waiting" <=> object[c] = "waiting"
  PROVE  Counted'
<1>1. Serving' = Serving /\ Waiting' = Waiting
  BY DEF Serving, Waiting, Changed
<1> QED BY <1>1 DEF Counted

\* e was taken off its queue, which leaves q and i.
Took(e, q, i) ==
  /\ q \in Seq(Entry) /\ i \in Seq(Entry) /\ Once(q) /\ Once(i) /\ ReadFirst(q)
  /\ \A b \in Conns \ {e.conn} : RunsOf(i, b) = RunsOf(immediate, b) /\ RunsOf(q, b) = RunsOf(high, b)
  /\ \/ /\ e.run \in RunsOf(immediate, e.conn)
        /\ RunsOf(i, e.conn) = RunsOf(immediate, e.conn) \ {e.run}
        /\ RunsOf(q, e.conn) = RunsOf(high, e.conn)
     \/ /\ RunsOf(immediate, e.conn) = {} /\ RunsOf(i, e.conn) = {}
        /\ e.run \in RunsOf(high, e.conn) /\ RunsOf(q, e.conn) = RunsOf(high, e.conn) \ {e.run}
        /\ e.run = "writable" => "readable" \notin RunsOf(high, e.conn)

\* The thread takes an immediate closure.
LEMMA TookImmediate ==
  ASSUME ServerInv, immediate # <<>>
  PROVE  Head(immediate) \in Entry /\ Took(Head(immediate), high, Tail(immediate))
<1> DEFINE e == Head(immediate)
<1>1. /\ immediate \in Seq(Entry) /\ Once(immediate) /\ high \in Seq(Entry) /\ Once(high) /\ ReadFirst(high)
  BY DEF ServerInv, Queues
<1>2. /\ e \in Entry /\ Tail(immediate) \in Seq(Entry) /\ Once(Tail(immediate))
      /\ e.run \in RunsOf(immediate, e.conn)
      /\ RunsOf(Tail(immediate), e.conn) = RunsOf(immediate, e.conn) \ {e.run}
      /\ \A b \in Conns \ {e.conn} : RunsOf(Tail(immediate), b) = RunsOf(immediate, b)
  BY <1>1, RunsTail
<1> HIDE DEF e
<1> QED BY <1>1, <1>2 DEF Took, e

\* It takes another one.
LEMMA TookHigh ==
  ASSUME ServerInv, immediate = <<>>, high # <<>>
  PROVE  Head(high) \in Entry /\ Took(Head(high), Tail(high), <<>>)
<1> DEFINE e == Head(high)
<1>1. high \in Seq(Entry) /\ Once(high) /\ ReadFirst(high)
  BY DEF ServerInv, Queues
<1>2. /\ e \in Entry /\ Tail(high) \in Seq(Entry) /\ Once(Tail(high))
      /\ e.run \in RunsOf(high, e.conn)
      /\ RunsOf(Tail(high), e.conn) = RunsOf(high, e.conn) \ {e.run}
      /\ \A b \in Conns \ {e.conn} : RunsOf(Tail(high), b) = RunsOf(high, b)
  BY <1>1, RunsTail
<1>3. ReadFirst(Tail(high)) /\ (e.run = "writable" => "readable" \notin RunsOf(high, e.conn))
  BY <1>1, RunsTail
<1>4. /\ \A b \in Conns : RunsOf(<<>>, b) = RunsOf(immediate, b)
      /\ RunsOf(immediate, e.conn) = {} /\ RunsOf(<<>>, e.conn) = {}
      /\ <<>> \in Seq(Entry) /\ Once(<<>>)
  BY RunsEmpty
<1> HIDE DEF e
<1> QED BY <1>2, <1>3, <1>4 DEF Took, e

\* A closure that posts nothing, or one more.
LEMMA GoesOn ==
  ASSUME ServerInv, NEW e \in Entry, NEW q, NEW i, Took(e, q, i), NEW d, NEW r, NEW h, NEW t,
         object' = object, num_sockets' = num_sockets, max_sockets' = max_sockets,
         Changed(sd, sd', e.conn, d), Changed(request, request', e.conn, r),
         Changed(handler, handler', e.conn, h), Changed(told, told', e.conn, t),
         high' = q, immediate' = i,
         Alive(object[e.conn], d, r, h, t, RunsOf(i, e.conn), RunsOf(q, e.conn))
  PROVE  ServerInv'
<1>1. e.conn \in Conns
  BY ClosureIs
<1>2. Changed(object, object', e.conn, object[e.conn])
  BY <1>1, ChangedBy DEF ServerInv, Maps
<1>3. Maps' /\ \A b \in Conns : Life(b)'
  BY <1>1, <1>2, LivesOn DEF ServerInv, Took
<1>4. Queues'
  BY DEF Took, Queues
<1>5. Counted'
  BY <1>1, <1>2, CountedSame DEF ServerInv
<1> QED BY <1>3, <1>4, <1>5 DEF ServerInv

\* A closure that has run posts another one,
LEMMA GoesOnPosting ==
  ASSUME ServerInv, NEW e \in Entry, NEW q, NEW i, Took(e, q, i), NEW d, NEW r, NEW h, NEW t,
         NEW f \in Runs \ {"readable"}, f \notin RunsOf(q, e.conn),
         object' = object, num_sockets' = num_sockets, max_sockets' = max_sockets,
         Changed(sd, sd', e.conn, d), Changed(request, request', e.conn, r),
         Changed(handler, handler', e.conn, h), Changed(told, told', e.conn, t),
         high' = Append(q, Closure(e.conn, f)), immediate' = i,
         Alive(object[e.conn], d, r, h, t, RunsOf(i, e.conn), RunsOf(q, e.conn) \cup {f})
  PROVE  ServerInv'
<1>1. e.conn \in Conns
  BY ClosureIs
<1>2. Changed(object, object', e.conn, object[e.conn])
  BY <1>1, ChangedBy DEF ServerInv, Maps
<1>3. PICK p : p = Append(q, Closure(e.conn, f))
  OBVIOUS
<1>4. /\ p \in Seq(Entry) /\ Once(p) /\ ReadFirst(p) /\ RunsOf(p, e.conn) = RunsOf(q, e.conn) \cup {f}
      /\ \A b \in Conns \ {e.conn} : RunsOf(p, b) = RunsOf(q, b)
  BY <1>1, <1>3, RunsAppend DEF Took
<1>5. \A b \in Conns \ {e.conn} : RunsOf(i, b) = RunsOf(immediate, b) /\ RunsOf(p, b) = RunsOf(high, b)
  BY <1>4 DEF Took
<1>6. Maps' /\ \A b \in Conns : Life(b)'
  <2>1. Alive(object[e.conn], d, r, h, t, RunsOf(i, e.conn), RunsOf(p, e.conn)) /\ high' = p
    BY <1>3, <1>4
  <2>2. \A b \in Conns : Life(b)
    BY DEF ServerInv
  <2> QED BY <1>1, <1>2, <1>5, <2>1, <2>2, LivesOn
<1>7. Queues'
  BY <1>3, <1>4 DEF Took, Queues
<1>8. Counted'
  BY <1>1, <1>2, CountedSame DEF ServerInv
<1> QED BY <1>6, <1>7, <1>8 DEF ServerInv

\* or an immediate one.
LEMMA GoesOnImmediately ==
  ASSUME ServerInv, NEW e \in Entry, NEW q, NEW i, Took(e, q, i), NEW d, NEW r, NEW h, NEW t,
         NEW f \in Runs, f \notin RunsOf(i, e.conn),
         object' = object, num_sockets' = num_sockets, max_sockets' = max_sockets,
         Changed(sd, sd', e.conn, d), Changed(request, request', e.conn, r),
         Changed(handler, handler', e.conn, h), Changed(told, told', e.conn, t),
         high' = q, immediate' = Append(i, Closure(e.conn, f)),
         Alive(object[e.conn], d, r, h, t, RunsOf(i, e.conn) \cup {f}, RunsOf(q, e.conn))
  PROVE  ServerInv'
<1>1. e.conn \in Conns
  BY ClosureIs
<1>2. Changed(object, object', e.conn, object[e.conn])
  BY <1>1, ChangedBy DEF ServerInv, Maps
<1>3. PICK p : p = Append(i, Closure(e.conn, f))
  OBVIOUS
<1>4. /\ p \in Seq(Entry) /\ Once(p) /\ RunsOf(p, e.conn) = RunsOf(i, e.conn) \cup {f}
      /\ \A b \in Conns \ {e.conn} : RunsOf(p, b) = RunsOf(i, b)
  BY <1>1, <1>3, RunsAppend DEF Took
<1>5. \A b \in Conns \ {e.conn} : RunsOf(p, b) = RunsOf(immediate, b) /\ RunsOf(q, b) = RunsOf(high, b)
  BY <1>4 DEF Took
<1>6. Maps' /\ \A b \in Conns : Life(b)'
  <2>1. Alive(object[e.conn], d, r, h, t, RunsOf(p, e.conn), RunsOf(q, e.conn)) /\ immediate' = p
    BY <1>3, <1>4
  <2>2. \A b \in Conns : Life(b)
    BY DEF ServerInv
  <2> QED BY <1>1, <1>2, <1>5, <2>1, <2>2, LivesOn
<1>7. Queues'
  BY <1>3, <1>4 DEF Took, Queues
<1>8. Counted'
  BY <1>1, <1>2, CountedSame DEF ServerInv
<1> QED BY <1>6, <1>7, <1>8 DEF ServerInv

-----------------------------------------------------------------------------
(***************************************************************************)
(* The closures.                                                           *)
(***************************************************************************)
LEMMA Taken ==
  ASSUME ServerInv, NEW e \in Entry, NEW q, NEW i, Took(e, q, i), NEW c, c = e.conn
  PROVE  /\ c \in Conns
         /\ Alive(object[c], sd[c], request[c], handler[c], told[c],
                  RunsOf(immediate, c), RunsOf(high, c))
         /\ e.run \in RunsOf(immediate, c) \cup RunsOf(high, c)
         /\ e.run \notin RunsOf(immediate, c)
              => /\ RunsOf(immediate, c) = {} /\ RunsOf(i, c) = {}
                 /\ RunsOf(q, c) = RunsOf(high, c) \ {e.run}
                 /\ e.run = "writable" => "readable" \notin RunsOf(high, c)
         /\ e.run \notin RunsOf(high, c)
              => RunsOf(i, c) = RunsOf(immediate, c) \ {e.run} /\ RunsOf(q, c) = RunsOf(high, c)
<1>1. c \in Conns
  BY ClosureIs
<1>2. Life(c)
  BY <1>1 DEF ServerInv
<1>3. e.run \in RunsOf(immediate, c) \cup RunsOf(high, c)
  BY DEF Took
<1>4. e.run \notin RunsOf(immediate, c)
        => /\ RunsOf(immediate, c) = {} /\ RunsOf(i, c) = {}
           /\ RunsOf(q, c) = RunsOf(high, c) \ {e.run}
           /\ e.run = "writable" => "readable" \notin RunsOf(high, c)
  BY DEF Took
<1>5. e.run \notin RunsOf(high, c)
        => RunsOf(i, c) = RunsOf(immediate, c) \ {e.run} /\ RunsOf(q, c) = RunsOf(high, c)
  BY DEF Took
<1> QED BY <1>1, <1>2, <1>3, <1>4, <1>5 DEF Life

\* EXCEPT changes one connection, of every map.
LEMMA ChangedOf ==
  ASSUME ServerInv, NEW c \in Conns, NEW v
  PROVE  /\ Changed(object, object, c, object[c]) /\ Changed(object, [object EXCEPT ![c] = v], c, v)
         /\ Changed(sd, sd, c, sd[c]) /\ Changed(sd, [sd EXCEPT ![c] = v], c, v)
         /\ Changed(request, request, c, request[c]) /\ Changed(request, [request EXCEPT ![c] = v], c, v)
         /\ Changed(handler, handler, c, handler[c]) /\ Changed(handler, [handler EXCEPT ![c] = v], c, v)
         /\ Changed(told, told, c, told[c]) /\ Changed(told, [told EXCEPT ![c] = v], c, v)
<1>1. /\ DOMAIN object = Conns /\ DOMAIN sd = Conns /\ DOMAIN request = Conns
      /\ DOMAIN handler = Conns /\ DOMAIN told = Conns
  BY DEF ServerInv, Maps
<1> QED BY <1>1, ChangedBy

\* Start() runs.
LEMMA RunStart ==
  ASSUME ServerInv, NEW e \in Entry, NEW q, NEW i, Took(e, q, i), e.run = "Start", RunEntry(e, q, i)
  PROVE  ServerInv'
<1>1. PICK c : c = e.conn
  OBVIOUS
<1>2. Start(c, sd[c], q, i)
  BY <1>1 DEF RunEntry, Run
<1>3. PICK d : d = NotifyWhenTimedout(NotifyWhenReadable(sd[c], "DoRead"), "DoTimeout")
  OBVIOUS
<1>4. /\ object' = [object EXCEPT ![c] = "live"] /\ sd' = [sd EXCEPT ![c] = d]
      /\ request' = request /\ handler' = handler /\ told' = told
      /\ num_sockets' = num_sockets /\ max_sockets' = max_sockets /\ high' = q /\ immediate' = i
  BY <1>2, <1>3 DEF Start, Descriptor
<1>5. /\ c \in Conns /\ object[c] = "posted"
      /\ Alive("live", d, request[c], handler[c], told[c], RunsOf(i, c), RunsOf(q, c))
  <2>1. /\ c \in Conns
        /\ Alive(object[c], sd[c], request[c], handler[c], told[c], RunsOf(immediate, c), RunsOf(high, c))
        /\ "Start" \in RunsOf(immediate, c) \cup RunsOf(high, c)
        /\ "Start" \notin RunsOf(immediate, c)
             => RunsOf(immediate, c) = {} /\ RunsOf(i, c) = {} /\ RunsOf(q, c) = RunsOf(high, c) \ {"Start"}
    BY <1>1, Taken
  <2>2. /\ object[c] = "posted" /\ "Start" \notin RunsOf(immediate, c)
        /\ Alive("live", d, request[c], handler[c], told[c], RunsOf(immediate, c), RunsOf(high, c) \ {"Start"})
    BY <1>3, <2>1, LifeAfterStart
  <2> QED BY <2>1, <2>2
<1>6. /\ Changed(object, object', c, "live") /\ Changed(sd, sd', c, d) /\ Changed(request, request', c, request[c])
      /\ Changed(handler, handler', c, handler[c]) /\ Changed(told, told', c, told[c])
  BY <1>4, <1>5, ChangedOf
<1>7. Maps' /\ \A b \in Conns : Life(b)'
  <2>1. \A b \in Conns : Life(b)
    BY DEF ServerInv
  <2>2. \A b \in Conns \ {c} : RunsOf(i, b) = RunsOf(immediate, b) /\ RunsOf(q, b) = RunsOf(high, b)
    BY <1>1 DEF Took
  <2>3. immediate' = i /\ high' = q
    BY <1>4
  <2> QED BY <1>5, <1>6, <2>1, <2>2, <2>3, LivesOn
<1>8. Queues'
  BY <1>4 DEF Took, Queues
<1>9. Counted'
  <2>1. Counted
    BY DEF ServerInv
  <2> QED BY <1>4, <1>5, <1>6, <2>1, CountedSame
<1> QED BY <1>7, <1>8, <1>9 DEF ServerInv

\* ReadFinished() runs.
LEMMA RunReadFinished ==
  ASSUME ServerInv, NEW e \in Entry, NEW q, NEW i, Took(e, q, i), e.run = "ReadFinished", RunEntry(e, q, i)
  PROVE  ServerInv'
<1>1. PICK c : c = e.conn
  OBVIOUS
<1>2. ReadFinished(c, sd[c], q, i)
  BY <1>1 DEF RunEntry, Run
<1>3. PICK d : d = ClearTimeout(ClearReadable(sd[c]))
  OBVIOUS
<1>4. PICK r : r = [request[c] EXCEPT !.inflight = TRUE]
  OBVIOUS
<1>5. /\ c \in Conns /\ ~r.closed
      /\ Alive(object[c], NotifyWhenWritable(d, "DoWrite"), Reply(r), handler[c], told[c],
               RunsOf(i, c), RunsOf(q, c))
      /\ Alive(object[c], d, r, "started", told[c], RunsOf(i, c), RunsOf(q, c))
  <2>1. /\ c \in Conns
        /\ Alive(object[c], sd[c], request[c], handler[c], told[c], RunsOf(immediate, c), RunsOf(high, c))
        /\ "ReadFinished" \in RunsOf(immediate, c) \cup RunsOf(high, c)
        /\ "ReadFinished" \notin RunsOf(immediate, c)
             => /\ RunsOf(immediate, c) = {} /\ RunsOf(i, c) = {}
                /\ RunsOf(q, c) = RunsOf(high, c) \ {"ReadFinished"}
    BY <1>1, Taken
  <2>2. /\ "ReadFinished" \notin RunsOf(immediate, c) /\ ~r.closed
        /\ Alive(object[c], NotifyWhenWritable(d, "DoWrite"), Reply(r), handler[c], told[c],
                 RunsOf(immediate, c), RunsOf(high, c) \ {"ReadFinished"})
        /\ Alive(object[c], d, r, "started", told[c], RunsOf(immediate, c), RunsOf(high, c) \ {"ReadFinished"})
    BY <1>3, <1>4, <2>1, LifeAfterReadFinished
  <2> QED BY <2>1, <2>2
<1>6. /\ object' = object /\ told' = told /\ num_sockets' = num_sockets /\ max_sockets' = max_sockets
      /\ \/ SendReply(c, r, d, q, i) /\ handler' = handler
         \/ /\ Flag(c, r) /\ Descriptor(c, d) /\ high' = q /\ immediate' = i
            /\ handler' = [handler EXCEPT ![c] = "started"]
  BY <1>2, <1>3, <1>4 DEF ReadFinished
<1>7. CASE SendReply(c, r, d, q, i) /\ handler' = handler
  <2>1. /\ request' = [request EXCEPT ![c] = Reply(r)] /\ sd' = [sd EXCEPT ![c] = NotifyWhenWritable(d, "DoWrite")]
        /\ high' = q /\ immediate' = i
    BY <1>5, <1>7 DEF SendReply, Flag, Descriptor
  <2>2. /\ Changed(sd, sd', c, NotifyWhenWritable(d, "DoWrite")) /\ Changed(request, request', c, Reply(r))
        /\ Changed(handler, handler', c, handler[c]) /\ Changed(told, told', c, told[c])
    BY <1>5, <1>6, <1>7, <2>1, ChangedOf
  <2> QED BY <1>1, <1>5, <1>6, <2>1, <2>2, GoesOn
<1>8. CASE /\ Flag(c, r) /\ Descriptor(c, d) /\ high' = q /\ immediate' = i
           /\ handler' = [handler EXCEPT ![c] = "started"]
  <2>1. /\ Changed(sd, sd', c, d) /\ Changed(request, request', c, r)
        /\ Changed(handler, handler', c, "started") /\ Changed(told, told', c, told[c])
    BY <1>5, <1>6, <1>8, ChangedOf DEF Flag, Descriptor
  <2> QED BY <1>1, <1>5, <1>6, <1>8, <2>1, GoesOn
<1> QED BY <1>6, <1>7, <1>8

\* NotifyWhenClosedInternal() runs.
LEMMA RunNotifyWhenClosedInternal ==
  ASSUME ServerInv, NEW e \in Entry, NEW q, NEW i, Took(e, q, i), e.run = "NotifyWhenClosedInternal",
         RunEntry(e, q, i)
  PROVE  ServerInv'
<1>1. PICK c : c = e.conn
  OBVIOUS
<1>2. NotifyWhenClosedInternal(c, sd[c], q, i)
  BY <1>1 DEF RunEntry, Run
<1>3. PICK d : d = NotifyWhenReadable(sd[c], "DoCheckClosed")
  OBVIOUS
<1>4. PICK r : r = [request[c] EXCEPT !.closed_callback = TRUE]
  OBVIOUS
<1>5. c \in Conns /\ Alive(object[c], d, r, handler[c], told[c], RunsOf(i, c), RunsOf(q, c))
  <2>1. /\ c \in Conns
        /\ Alive(object[c], sd[c], request[c], handler[c], told[c], RunsOf(immediate, c), RunsOf(high, c))
        /\ "NotifyWhenClosedInternal" \in RunsOf(immediate, c) \cup RunsOf(high, c)
        /\ "NotifyWhenClosedInternal" \notin RunsOf(immediate, c)
             => /\ RunsOf(immediate, c) = {} /\ RunsOf(i, c) = {}
                /\ RunsOf(q, c) = RunsOf(high, c) \ {"NotifyWhenClosedInternal"}
    BY <1>1, Taken
  <2>2. /\ "NotifyWhenClosedInternal" \notin RunsOf(immediate, c)
        /\ Alive(object[c], d, r, handler[c], told[c], RunsOf(immediate, c),
                 RunsOf(high, c) \ {"NotifyWhenClosedInternal"})
    BY <1>3, <1>4, <2>1, LifeAfterNotifyWhenClosedInternal
  <2> QED BY <2>1, <2>2
<1>6. /\ object' = object /\ told' = told /\ handler' = handler
      /\ num_sockets' = num_sockets /\ max_sockets' = max_sockets
      /\ request' = [request EXCEPT ![c] = r] /\ sd' = [sd EXCEPT ![c] = d]
      /\ high' = q /\ immediate' = i
  BY <1>2, <1>3, <1>4 DEF NotifyWhenClosedInternal, Flag, Descriptor, same
<1>7. /\ Changed(sd, sd', c, d) /\ Changed(request, request', c, r)
      /\ Changed(handler, handler', c, handler[c]) /\ Changed(told, told', c, told[c])
  BY <1>5, <1>6, ChangedOf
<1> QED BY <1>1, <1>5, <1>6, <1>7, GoesOn

\* DoCheckClosed() runs.
LEMMA RunDoCheckClosed ==
  ASSUME ServerInv, NEW e \in Entry, NEW q, NEW i, Took(e, q, i), e.run = "DoCheckClosed", RunEntry(e, q, i)
  PROVE  ServerInv'
<1>1. PICK c : c = e.conn
  OBVIOUS
<1>2. DoCheckClosed(c, sd[c], q, i)
  BY <1>1 DEF RunEntry, Run
<1>3. PICK d : d = StopWrite(StopRead(sd[c]))
  OBVIOUS
<1>4. /\ c \in Conns /\ "DoClosed" \notin RunsOf(q, c)
      /\ Alive(object[c], d, request[c], handler[c], told[c], RunsOf(i, c), RunsOf(q, c) \cup {"DoClosed"})
  <2>1. /\ c \in Conns
        /\ Alive(object[c], sd[c], request[c], handler[c], told[c], RunsOf(immediate, c), RunsOf(high, c))
        /\ "DoCheckClosed" \in RunsOf(immediate, c) \cup RunsOf(high, c)
        /\ "DoCheckClosed" \notin RunsOf(immediate, c)
             => /\ RunsOf(immediate, c) = {} /\ RunsOf(i, c) = {}
                /\ RunsOf(q, c) = RunsOf(high, c) \ {"DoCheckClosed"}
    BY <1>1, Taken
  <2>2. /\ "DoCheckClosed" \notin RunsOf(immediate, c) /\ "DoClosed" \notin RunsOf(high, c)
        /\ Alive(object[c], d, request[c], handler[c], told[c], RunsOf(immediate, c),
                 (RunsOf(high, c) \ {"DoCheckClosed"}) \cup {"DoClosed"})
    BY <1>3, <2>1, LifeAfterDoCheckClosed
  <2> QED BY <2>1, <2>2
<1>5. /\ object' = object /\ told' = told /\ handler' = handler /\ request' = request
      /\ num_sockets' = num_sockets /\ max_sockets' = max_sockets
      /\ sd' = [sd EXCEPT ![c] = d] /\ high' = Append(q, Closure(c, "DoClosed")) /\ immediate' = i
  BY <1>2, <1>3 DEF DoCheckClosed, Descriptor, Enqueue, same
<1>6. /\ Changed(sd, sd', c, d) /\ Changed(request, request', c, request[c])
      /\ Changed(handler, handler', c, handler[c]) /\ Changed(told, told', c, told[c])
  BY <1>4, <1>5, ChangedOf
<1>7. "DoClosed" \in Runs \ {"readable"}
  BY DEF Runs
<1> QED BY <1>1, <1>4, <1>5, <1>6, <1>7, GoesOnPosting

\* DoClosed() runs.
LEMMA RunDoClosed ==
  ASSUME ServerInv, NEW e \in Entry, NEW q, NEW i, Took(e, q, i), e.run = "DoClosed", RunEntry(e, q, i)
  PROVE  ServerInv'
<1>1. PICK c : c = e.conn
  OBVIOUS
<1>2. DoClosed(c, sd[c], q, i)
  BY <1>1 DEF RunEntry, Run
<1>3. PICK d : d = ClearWritable(ClearReadable(sd[c]))
  OBVIOUS
<1>4. PICK r : r = [request[c] EXCEPT !.closed = TRUE, !.closed_callback = FALSE]
  OBVIOUS
<1>5. PICK t : t = IF request[c].closed_callback THEN "posted" ELSE told[c]
  OBVIOUS
<1>6. /\ c \in Conns /\ RunsOf(i, c) = {}
      /\ Alive(object[c], d, r, handler[c], t,
               IF request[c].inflight THEN RunsOf(i, c) ELSE RunsOf(i, c) \cup {"Finish"}, RunsOf(q, c))
  <2>1. /\ c \in Conns
        /\ Alive(object[c], sd[c], request[c], handler[c], told[c], RunsOf(immediate, c), RunsOf(high, c))
        /\ "DoClosed" \in RunsOf(immediate, c) \cup RunsOf(high, c)
        /\ "DoClosed" \notin RunsOf(immediate, c)
             => /\ RunsOf(immediate, c) = {} /\ RunsOf(i, c) = {}
                /\ RunsOf(q, c) = RunsOf(high, c) \ {"DoClosed"}
    BY <1>1, Taken
  <2>2. "DoClosed" \notin RunsOf(immediate, c)
    BY <2>1, AtDoClosed
  <2>3. RunsOf(immediate, c) = {} /\ RunsOf(i, c) = {} /\ RunsOf(q, c) = RunsOf(high, c) \ {"DoClosed"}
    BY <2>1, <2>2
  <2>4. Alive(object[c], d, r, handler[c], t,
              IF request[c].inflight THEN RunsOf(immediate, c) ELSE RunsOf(immediate, c) \cup {"Finish"},
              RunsOf(high, c) \ {"DoClosed"})
    BY <1>3, <1>4, <1>5, <2>1, <2>3, LifeAfterDoClosed
  <2> QED BY <2>1, <2>3, <2>4
<1>7. /\ object' = object /\ handler' = handler /\ num_sockets' = num_sockets /\ max_sockets' = max_sockets
      /\ request' = [request EXCEPT ![c] = r] /\ sd' = [sd EXCEPT ![c] = d] /\ high' = q
      /\ immediate' = IF request[c].inflight THEN i ELSE Append(i, Closure(c, "Finish"))
  BY <1>2, <1>3, <1>4 DEF DoClosed, Flag, Descriptor
<1>8. Changed(told, told', c, t)
  <2>1. told' = [told EXCEPT ![c] = t]
    BY <1>2, <1>5 DEF DoClosed
  <2> QED BY <1>6, <2>1, ChangedOf
<1>9. /\ Changed(sd, sd', c, d) /\ Changed(request, request', c, r) /\ Changed(handler, handler', c, handler[c])
  BY <1>6, <1>7, ChangedOf
<1>10. CASE request[c].inflight
  <2>1. /\ immediate' = i /\ high' = q
        /\ Alive(object[c], d, r, handler[c], t, RunsOf(i, c), RunsOf(q, c))
    BY <1>6, <1>7, <1>10
  <2> QED BY <1>1, <1>7, <1>8, <1>9, <2>1, GoesOn
<1>11. CASE ~request[c].inflight
  <2>1. /\ immediate' = Append(i, Closure(c, "Finish")) /\ high' = q /\ "Finish" \notin RunsOf(i, c)
        /\ Alive(object[c], d, r, handler[c], t, RunsOf(i, c) \cup {"Finish"}, RunsOf(q, c))
    BY <1>6, <1>7, <1>11
  <2>2. "Finish" \in Runs
    BY DEF Runs
  <2> QED BY <1>1, <1>7, <1>8, <1>9, <2>1, <2>2, GoesOnImmediately
<1> QED BY <1>10, <1>11

\* WriteFinished() runs.
LEMMA RunWriteFinished ==
  ASSUME ServerInv, NEW e \in Entry, NEW q, NEW i, Took(e, q, i), e.run = "WriteFinished", RunEntry(e, q, i)
  PROVE  ServerInv'
<1>1. PICK c : c = e.conn
  OBVIOUS
<1>2. WriteFinished(c, sd[c], q, i)
  BY <1>1 DEF RunEntry, Run
<1>3. PICK d : d = NotifyWhenReadable(ClearWritable(sd[c]), "DoReadEOF")
  OBVIOUS
<1>4. c \in Conns /\ Alive(object[c], d, request[c], handler[c], told[c], RunsOf(i, c), RunsOf(q, c))
  <2>1. /\ c \in Conns
        /\ Alive(object[c], sd[c], request[c], handler[c], told[c], RunsOf(immediate, c), RunsOf(high, c))
        /\ "WriteFinished" \in RunsOf(immediate, c) \cup RunsOf(high, c)
        /\ "WriteFinished" \notin RunsOf(immediate, c)
             => /\ RunsOf(immediate, c) = {} /\ RunsOf(i, c) = {}
                /\ RunsOf(q, c) = RunsOf(high, c) \ {"WriteFinished"}
    BY <1>1, Taken
  <2>2. /\ "WriteFinished" \notin RunsOf(immediate, c)
        /\ Alive(object[c], d, request[c], handler[c], told[c], RunsOf(immediate, c),
                 RunsOf(high, c) \ {"WriteFinished"})
    BY <1>3, <2>1, LifeAfterWriteFinished
  <2> QED BY <2>1, <2>2
<1>5. /\ object' = object /\ told' = told /\ handler' = handler /\ request' = request
      /\ num_sockets' = num_sockets /\ max_sockets' = max_sockets
      /\ sd' = [sd EXCEPT ![c] = d] /\ high' = q /\ immediate' = i
  BY <1>2, <1>3 DEF WriteFinished, Descriptor, same
<1>6. /\ Changed(sd, sd', c, d) /\ Changed(request, request', c, request[c])
      /\ Changed(handler, handler', c, handler[c]) /\ Changed(told, told', c, told[c])
  BY <1>4, <1>5, ChangedOf
<1> QED BY <1>1, <1>4, <1>5, <1>6, GoesOn

\* SendReply() of an Exec request.
LEMMA RunExecDone ==
  ASSUME ServerInv, NEW e \in Entry, NEW q, NEW i, Took(e, q, i), e.run = "ExecDone", RunEntry(e, q, i)
  PROVE  ServerInv'
<1>1. PICK c : c = e.conn
  OBVIOUS
<1>2. ExecDone(c, sd[c], q, i)
  BY <1>1 DEF RunEntry, Run
<1>3. PICK d : d = NotifyWhenWritable(sd[c], "DoWrite")
  OBVIOUS
<1>4. PICK r : r = Reply(request[c])
  OBVIOUS
<1>5. /\ c \in Conns
      /\ \/ /\ ~request[c].closed
            /\ Alive(object[c], d, r, handler[c], told[c], RunsOf(i, c), RunsOf(q, c))
         \/ /\ request[c].closed /\ "Finish" \notin RunsOf(i, c)
            /\ Alive(object[c], sd[c], r, handler[c], told[c], RunsOf(i, c) \cup {"Finish"}, RunsOf(q, c))
  <2>1. /\ c \in Conns
        /\ Alive(object[c], sd[c], request[c], handler[c], told[c], RunsOf(immediate, c), RunsOf(high, c))
        /\ "ExecDone" \in RunsOf(immediate, c) \cup RunsOf(high, c)
        /\ "ExecDone" \notin RunsOf(high, c)
             => RunsOf(i, c) = RunsOf(immediate, c) \ {"ExecDone"} /\ RunsOf(q, c) = RunsOf(high, c)
    BY <1>1, Taken
  <2>2. /\ "ExecDone" \notin RunsOf(high, c)
        /\ \/ /\ ~request[c].closed
              /\ Alive(object[c], d, r, handler[c], told[c], RunsOf(immediate, c) \ {"ExecDone"}, RunsOf(high, c))
           \/ /\ request[c].closed /\ "Finish" \notin RunsOf(immediate, c) \cup RunsOf(high, c)
              /\ Alive(object[c], sd[c], r, handler[c], told[c],
                       (RunsOf(immediate, c) \ {"ExecDone"}) \cup {"Finish"}, RunsOf(high, c))
    <3>1. /\ Alive(object[c], sd[c], request[c], handler[c], told[c], RunsOf(immediate, c), RunsOf(high, c))
          /\ "ExecDone" \in RunsOf(immediate, c) \cup RunsOf(high, c)
      BY <2>1
    <3> QED BY <1>3, <1>4, <3>1, LifeAfterExecDone, Zenon
  <2> QED BY <2>1, <2>2
<1>6. /\ object' = object /\ told' = told /\ handler' = handler
      /\ num_sockets' = num_sockets /\ max_sockets' = max_sockets
      /\ request' = [request EXCEPT ![c] = r] /\ high' = q
      /\ IF request[c].closed
         THEN immediate' = Append(i, Closure(c, "Finish")) /\ sd' = [sd EXCEPT ![c] = sd[c]]
         ELSE immediate' = i /\ sd' = [sd EXCEPT ![c] = d]
  BY <1>2, <1>3, <1>4 DEF ExecDone, SendReply, Flag, Descriptor, same
<1>7. /\ Changed(request, request', c, r) /\ Changed(handler, handler', c, handler[c])
      /\ Changed(told, told', c, told[c])
  BY <1>5, <1>6, ChangedOf
<1>8. CASE ~request[c].closed
  <2>1. /\ Changed(sd, sd', c, d) /\ immediate' = i /\ high' = q
        /\ Alive(object[c], d, r, handler[c], told[c], RunsOf(i, c), RunsOf(q, c))
    BY <1>5, <1>6, <1>8, ChangedOf
  <2> QED BY <1>1, <1>6, <1>7, <2>1, GoesOn
<1>9. CASE request[c].closed
  <2>1. /\ Changed(sd, sd', c, sd[c]) /\ immediate' = Append(i, Closure(c, "Finish")) /\ high' = q
        /\ "Finish" \notin RunsOf(i, c)
        /\ Alive(object[c], sd[c], r, handler[c], told[c], RunsOf(i, c) \cup {"Finish"}, RunsOf(q, c))
    BY <1>5, <1>6, <1>9, ChangedOf
  <2>2. "Finish" \in Runs
    BY DEF Runs
  <2> QED BY <1>1, <1>6, <1>7, <2>1, <2>2, GoesOnImmediately
<1> QED BY <1>8, <1>9

\* The timedout callback runs.
LEMMA RunTimedout ==
  ASSUME ServerInv, NEW e \in Entry, NEW q, NEW i, Took(e, q, i), e.run = "timedout", RunEntry(e, q, i)
  PROVE  ServerInv'
<1>1. PICK c : c = e.conn
  OBVIOUS
<1>2. PICK d : d = StopWrite(StopRead(TookTimeout(sd[c], TRUE)))
  OBVIOUS
<1>3. PICK r : r = [request[c] EXCEPT !.timed_out = TRUE]
  OBVIOUS
<1>4. /\ c \in Conns /\ "Finish" \notin RunsOf(q, c) /\ TimeoutWanted(sd[c])
      /\ sd[c].timeout_closure = "DoTimeout" /\ ~request[c].read_finished
      /\ Alive(object[c], d, r, handler[c], told[c], RunsOf(i, c), RunsOf(q, c) \cup {"Finish"})
  <2>1. /\ c \in Conns
        /\ Alive(object[c], sd[c], request[c], handler[c], told[c], RunsOf(immediate, c), RunsOf(high, c))
        /\ "timedout" \in RunsOf(immediate, c) \cup RunsOf(high, c)
        /\ "timedout" \notin RunsOf(immediate, c)
             => /\ RunsOf(immediate, c) = {} /\ RunsOf(i, c) = {}
                /\ RunsOf(q, c) = RunsOf(high, c) \ {"timedout"}
    BY <1>1, Taken
  <2>2. /\ "timedout" \notin RunsOf(immediate, c) /\ "Finish" \notin RunsOf(high, c) /\ TimeoutWanted(sd[c])
        /\ sd[c].timeout_closure = "DoTimeout" /\ ~request[c].read_finished
        /\ Alive(object[c], d, r, handler[c], told[c], RunsOf(immediate, c),
                 (RunsOf(high, c) \ {"timedout"}) \cup {"Finish"})
    <3>1. TimeoutWanted(sd[c])
      BY <2>1, LifeAfterDoTimeout
    <3>2. sd[c].timeout_closure = "DoTimeout"
      BY <2>1, LifeAfterDoTimeout
    <3>5. ~request[c].read_finished
      BY <2>1, AtTimedout DEF Reading, Rq
    <3>3. "timedout" \notin RunsOf(immediate, c) /\ "Finish" \notin RunsOf(high, c)
      BY <2>1, LifeAfterDoTimeout
    <3>4. Alive(object[c], d, r, handler[c], told[c], RunsOf(immediate, c),
                (RunsOf(high, c) \ {"timedout"}) \cup {"Finish"})
      BY <1>2, <1>3, <2>1, LifeAfterDoTimeout
    <3> QED BY <3>1, <3>2, <3>3, <3>4, <3>5
  <2> QED BY <2>1, <2>2
<1>5. PICK g : g = TookTimeout(sd[c], TRUE)
  OBVIOUS
<1>6. TookTimeout(sd[c], TimeoutWanted(sd[c])) = g
  BY <1>4, <1>5 DEF TookTimeout
<1>7. DoTimeout(c, g, q, i)
  <2>1. Run("DoTimeout", c, g, q, i)
    BY <1>1, <1>4, <1>6 DEF RunEntry
  <2> QED BY <2>1 DEF Run
<1>8. /\ object' = object /\ told' = told /\ handler' = handler
      /\ num_sockets' = num_sockets /\ max_sockets' = max_sockets
      /\ request' = [request EXCEPT ![c] = r] /\ sd' = [sd EXCEPT ![c] = d]
      /\ high' = Append(q, Closure(c, "Finish")) /\ immediate' = i
  BY <1>2, <1>3, <1>4, <1>5, <1>7 DEF DoTimeout, Flag, Descriptor, Enqueue, same
<1>9. /\ Changed(sd, sd', c, d) /\ Changed(request, request', c, r)
      /\ Changed(handler, handler', c, handler[c]) /\ Changed(told, told', c, told[c])
  BY <1>4, <1>8, ChangedOf
<1>10. "Finish" \in Runs \ {"readable"}
  BY DEF Runs
<1> QED BY <1>1, <1>4, <1>8, <1>9, <1>10, GoesOnPosting

\* The writable callback runs.
LEMMA RunWritable ==
  ASSUME ServerInv, NEW e \in Entry, NEW q, NEW i, Took(e, q, i), e.run = "writable", RunEntry(e, q, i)
  PROVE  ServerInv'
<1>1. PICK c : c = e.conn
  OBVIOUS
<1>2. PICK g : g = TookWritable(sd[c])
  OBVIOUS
<1>3. PICK d : d = StopWrite(g)
  OBVIOUS
<1>4. /\ c \in Conns
      /\ \/ /\ sd[c].active_write /\ sd[c].write_in_queue = "DoWrite"
            /\ \A f \in {"WriteFinished", "Finish"} :
                 /\ f \notin RunsOf(q, c)
                 /\ Alive(object[c], d, request[c], handler[c], told[c], RunsOf(i, c), RunsOf(q, c) \cup {f})
         \/ /\ ~sd[c].active_write
            /\ Alive(object[c], g, request[c], handler[c], told[c], RunsOf(i, c), RunsOf(q, c))
  <2>1. /\ c \in Conns
        /\ Alive(object[c], sd[c], request[c], handler[c], told[c], RunsOf(immediate, c), RunsOf(high, c))
        /\ "writable" \in RunsOf(immediate, c) \cup RunsOf(high, c)
        /\ "writable" \notin RunsOf(immediate, c)
             => /\ RunsOf(immediate, c) = {} /\ RunsOf(i, c) = {}
                /\ RunsOf(q, c) = RunsOf(high, c) \ {"writable"} /\ "readable" \notin RunsOf(high, c)
    BY <1>1, Taken
  <2>2. "writable" \notin RunsOf(immediate, c)
    BY <2>1, AtWritable
  <2>3. /\ RunsOf(immediate, c) = {} /\ RunsOf(i, c) = {}
        /\ RunsOf(q, c) = RunsOf(high, c) \ {"writable"} /\ "readable" \notin RunsOf(high, c)
    BY <2>1, <2>2
  <2>4. \/ /\ sd[c].active_write /\ sd[c].write_in_queue = "DoWrite"
           /\ \A f \in {"WriteFinished", "Finish"} :
                /\ f \notin RunsOf(immediate, c) \cup RunsOf(high, c)
                /\ Alive(object[c], d, request[c], handler[c], told[c], RunsOf(immediate, c),
                         (RunsOf(high, c) \ {"writable"}) \cup {f})
        \/ /\ ~sd[c].active_write
           /\ Alive(object[c], g, request[c], handler[c], told[c], RunsOf(immediate, c),
                    RunsOf(high, c) \ {"writable"})
    BY <1>2, <1>3, <2>1, <2>3, LifeAfterWritable
  <2> QED BY <2>1, <2>3, <2>4
<1>5. Run(IF sd[c].active_write THEN sd[c].write_in_queue ELSE "none", c, g, q, i)
  BY <1>1, <1>2 DEF RunEntry
<1>6. CASE sd[c].active_write
  <2>1. DoWrite(c, g, q, i)
    <3>1. Run("DoWrite", c, g, q, i)
      BY <1>4, <1>5, <1>6
    <3> QED BY <3>1 DEF Run
  <2>2. PICK f \in {"WriteFinished", "Finish"} : high' = Append(q, Closure(c, f)) /\ immediate' = i
    BY <2>1 DEF DoWrite, Enqueue
  <2>3. /\ object' = object /\ told' = told /\ handler' = handler /\ request' = request
        /\ num_sockets' = num_sockets /\ max_sockets' = max_sockets /\ sd' = [sd EXCEPT ![c] = d]
    BY <1>3, <2>1 DEF DoWrite, Descriptor, same
  <2>4. /\ Changed(sd, sd', c, d) /\ Changed(request, request', c, request[c])
        /\ Changed(handler, handler', c, handler[c]) /\ Changed(told, told', c, told[c])
    BY <1>4, <2>3, ChangedOf
  <2>5. /\ f \in Runs \ {"readable"} /\ f \notin RunsOf(q, c)
        /\ Alive(object[c], d, request[c], handler[c], told[c], RunsOf(i, c), RunsOf(q, c) \cup {f})
    BY <1>4, <1>6, <2>2 DEF Runs
  <2> QED BY <1>1, <2>2, <2>3, <2>4, <2>5, GoesOnPosting
<1>7. CASE ~sd[c].active_write
  <2>1. Nothing(c, g, q, i)
    <3>1. Run("none", c, g, q, i)
      BY <1>5, <1>7
    <3> QED BY <3>1 DEF Run
  <2>2. /\ object' = object /\ told' = told /\ handler' = handler /\ request' = request
        /\ num_sockets' = num_sockets /\ max_sockets' = max_sockets /\ sd' = [sd EXCEPT ![c] = g]
        /\ high' = q /\ immediate' = i
    BY <2>1 DEF Nothing, Descriptor, same
  <2>3. /\ Changed(sd, sd', c, g) /\ Changed(request, request', c, request[c])
        /\ Changed(handler, handler', c, handler[c]) /\ Changed(told, told', c, told[c])
    BY <1>4, <2>2, ChangedOf
  <2>4. Alive(object[c], g, request[c], handler[c], told[c], RunsOf(i, c), RunsOf(q, c))
    BY <1>4, <1>7
  <2> QED BY <1>1, <2>2, <2>3, <2>4, GoesOn
<1> QED BY <1>6, <1>7

\* The readable callback runs.
LEMMA RunReadable ==
  ASSUME ServerInv, NEW e \in Entry, NEW q, NEW i, Took(e, q, i), e.run = "readable", RunEntry(e, q, i)
  PROVE  ServerInv'
<1>1. PICK c : c = e.conn
  OBVIOUS
<1>2. PICK g : g = TookReadable(sd[c])
  OBVIOUS
<1>3. /\ c \in Conns /\ RunsOf(i, c) = RunsOf(immediate, c) /\ RunsOf(q, c) = RunsOf(high, c) \ {"readable"}
      /\ "readable" \in RunsOf(high, c)
      /\ \/ Reading(object[c], sd[c], request[c], handler[c], told[c], RunsOf(immediate, c), RunsOf(high, c))
         \/ Watching(object[c], sd[c], request[c], handler[c], told[c], RunsOf(immediate, c), RunsOf(high, c))
         \/ ReplyingWatched(object[c], sd[c], request[c], handler[c], told[c], RunsOf(immediate, c), RunsOf(high, c))
         \/ Written(object[c], sd[c], request[c], handler[c], told[c], RunsOf(immediate, c), RunsOf(high, c))
  <2>1. /\ c \in Conns
        /\ Alive(object[c], sd[c], request[c], handler[c], told[c], RunsOf(immediate, c), RunsOf(high, c))
        /\ "readable" \in RunsOf(immediate, c) \cup RunsOf(high, c)
        /\ "readable" \notin RunsOf(immediate, c)
             => /\ RunsOf(immediate, c) = {} /\ RunsOf(i, c) = {}
                /\ RunsOf(q, c) = RunsOf(high, c) \ {"readable"}
    BY <1>1, Taken
  <2>2. /\ "readable" \in RunsOf(high, c) /\ "readable" \notin RunsOf(immediate, c)
        /\ \/ Reading(object[c], sd[c], request[c], handler[c], told[c], RunsOf(immediate, c), RunsOf(high, c))
           \/ Watching(object[c], sd[c], request[c], handler[c], told[c], RunsOf(immediate, c), RunsOf(high, c))
           \/ ReplyingWatched(object[c], sd[c], request[c], handler[c], told[c], RunsOf(immediate, c), RunsOf(high, c))
           \/ Written(object[c], sd[c], request[c], handler[c], told[c], RunsOf(immediate, c), RunsOf(high, c))
    BY <2>1, AtReadable
  <2> QED BY <2>1, <2>2
<1>4. Run(IF sd[c].active_read THEN sd[c].read_in_queue ELSE "none", c, g, q, i)
  BY <1>1, <1>2 DEF RunEntry
<1>6. CASE Reading(object[c], sd[c], request[c], handler[c], told[c], RunsOf(immediate, c), RunsOf(high, c))
  <2>1. PICK d : d = StopRead(g)
    OBVIOUS
  <2>2. PICK r : r = [request[c] EXCEPT !.read_finished = TRUE]
    OBVIOUS
  <2>3. ASSUME NEW f \in {"DoCheckClosed", "ReadFinished"}
        PROVE  /\ sd[c].active_read /\ sd[c].read_in_queue = "DoRead" /\ f \notin RunsOf(q, c)
               /\ Alive(object[c], g, request[c], handler[c], told[c], RunsOf(i, c), RunsOf(q, c))
               /\ Alive(object[c], d, r, handler[c], told[c], RunsOf(i, c), RunsOf(q, c) \cup {f})
    <3>1. sd[c].active_read
      BY <1>3, <1>6, LifeAfterDoRead
    <3>2. sd[c].read_in_queue = "DoRead"
      BY <1>3, <1>6, LifeAfterDoRead
    <3>3. f \notin RunsOf(high, c)
      BY <1>3, <1>6 DEF Reading
    <3>4. Alive(object[c], g, request[c], handler[c], told[c], RunsOf(immediate, c), RunsOf(high, c) \ {"readable"})
      BY <1>2, <1>3, <1>6, LifeAfterDoRead
    <3>5. Alive(object[c], d, r, handler[c], told[c], RunsOf(immediate, c),
                (RunsOf(high, c) \ {"readable"}) \cup {f})
      BY <1>2, <1>3, <1>6, <2>1, <2>2, LifeAfterDoRead
    <3> QED BY <1>3, <3>1, <3>2, <3>3, <3>4, <3>5
  <2>4. DoRead(c, g, q, i)
    <3>1. Run("DoRead", c, g, q, i)
      BY <1>4, <2>3
    <3> QED BY <3>1 DEF Run
  <2>5. /\ object' = object /\ told' = told /\ handler' = handler
        /\ num_sockets' = num_sockets /\ max_sockets' = max_sockets
        /\ \/ request' = request /\ sd' = [sd EXCEPT ![c] = g] /\ high' = q /\ immediate' = i
           \/ \E f \in {"DoCheckClosed", "ReadFinished"} :
                /\ request' = [request EXCEPT ![c] = r] /\ sd' = [sd EXCEPT ![c] = d]
                /\ high' = Append(q, Closure(c, f)) /\ immediate' = i
    BY <2>1, <2>2, <2>4 DEF DoRead, Descriptor, Flag, Enqueue, same
  <2>6. CASE request' = request /\ sd' = [sd EXCEPT ![c] = g] /\ high' = q /\ immediate' = i
    <3>1. /\ Changed(sd, sd', c, g) /\ Changed(request, request', c, request[c])
          /\ Changed(handler, handler', c, handler[c]) /\ Changed(told, told', c, told[c])
      BY <1>3, <2>5, <2>6, ChangedOf
    <3>2. Alive(object[c], g, request[c], handler[c], told[c], RunsOf(i, c), RunsOf(q, c))
      BY <2>3
    <3> QED BY <1>1, <2>5, <2>6, <3>1, <3>2, GoesOn
  <2>7. ASSUME NEW f \in {"DoCheckClosed", "ReadFinished"},
               request' = [request EXCEPT ![c] = r], sd' = [sd EXCEPT ![c] = d],
               high' = Append(q, Closure(c, f)), immediate' = i
        PROVE  ServerInv'
    <3>1. /\ Changed(sd, sd', c, d) /\ Changed(request, request', c, r)
          /\ Changed(handler, handler', c, handler[c]) /\ Changed(told, told', c, told[c])
      BY <1>3, <2>5, <2>7, ChangedOf
    <3>2. /\ f \in Runs \ {"readable"} /\ f \notin RunsOf(q, c)
          /\ Alive(object[c], d, r, handler[c], told[c], RunsOf(i, c), RunsOf(q, c) \cup {f})
      BY <2>3 DEF Runs
    <3> QED BY <1>1, <2>5, <2>7, <3>1, <3>2, GoesOnPosting
  <2> QED BY <2>5, <2>6, <2>7
<1>7. CASE \/ Watching(object[c], sd[c], request[c], handler[c], told[c], RunsOf(immediate, c), RunsOf(high, c))
           \/ ReplyingWatched(object[c], sd[c], request[c], handler[c], told[c], RunsOf(immediate, c), RunsOf(high, c))
  <2>1. PICK d : d = StopWrite(StopRead(g))
    OBVIOUS
  <2>2. /\ sd[c].active_read /\ sd[c].read_in_queue = "DoCheckClosed" /\ "DoClosed" \notin RunsOf(q, c)
        /\ Alive(object[c], d, request[c], handler[c], told[c], RunsOf(i, c), RunsOf(q, c) \cup {"DoClosed"})
    <3>1. /\ sd[c].active_read /\ sd[c].read_in_queue = "DoCheckClosed"
          /\ "DoClosed" \notin RunsOf(immediate, c) \cup RunsOf(high, c)
          /\ Alive(object[c], StopWrite(StopRead(TookReadable(sd[c]))), request[c], handler[c], told[c],
                   RunsOf(immediate, c), (RunsOf(high, c) \ {"readable"}) \cup {"DoClosed"})
      BY <1>3, <1>7, LifeAfterWatch, Zenon
    <3> QED BY <1>2, <1>3, <2>1, <3>1
  <2>3. DoCheckClosed(c, g, q, i)
    <3>1. Run("DoCheckClosed", c, g, q, i)
      BY <1>4, <2>2
    <3> QED BY <3>1 DEF Run
  <2>4. /\ object' = object /\ told' = told /\ handler' = handler /\ request' = request
        /\ num_sockets' = num_sockets /\ max_sockets' = max_sockets
        /\ sd' = [sd EXCEPT ![c] = d] /\ high' = Append(q, Closure(c, "DoClosed")) /\ immediate' = i
    BY <2>1, <2>3 DEF DoCheckClosed, Descriptor, Enqueue, same
  <2>5. /\ Changed(sd, sd', c, d) /\ Changed(request, request', c, request[c])
        /\ Changed(handler, handler', c, handler[c]) /\ Changed(told, told', c, told[c])
    BY <1>3, <2>4, ChangedOf
  <2>6. "DoClosed" \in Runs \ {"readable"}
    BY DEF Runs
  <2> QED BY <1>1, <2>2, <2>4, <2>5, <2>6, GoesOnPosting
<1>8. CASE Written(object[c], sd[c], request[c], handler[c], told[c], RunsOf(immediate, c), RunsOf(high, c))
  <2>1. PICK d : d = StopRead(g)
    OBVIOUS
  <2>2. /\ sd[c].active_read /\ sd[c].read_in_queue = "DoReadEOF" /\ "Finish" \notin RunsOf(q, c)
        /\ Alive(object[c], d, request[c], handler[c], told[c], RunsOf(i, c), RunsOf(q, c) \cup {"Finish"})
    BY <1>2, <1>3, <1>8, <2>1, LifeAfterDoReadEOF
  <2>3. DoReadEOF(c, g, q, i)
    <3>1. Run("DoReadEOF", c, g, q, i)
      BY <1>4, <2>2
    <3> QED BY <3>1 DEF Run
  <2>4. /\ object' = object /\ told' = told /\ handler' = handler /\ request' = request
        /\ num_sockets' = num_sockets /\ max_sockets' = max_sockets
        /\ sd' = [sd EXCEPT ![c] = d] /\ high' = Append(q, Closure(c, "Finish")) /\ immediate' = i
    BY <2>1, <2>3 DEF DoReadEOF, Descriptor, Enqueue, same
  <2>5. /\ Changed(sd, sd', c, d) /\ Changed(request, request', c, request[c])
        /\ Changed(handler, handler', c, handler[c]) /\ Changed(told, told', c, told[c])
    BY <1>3, <2>4, ChangedOf
  <2>6. "Finish" \in Runs \ {"readable"}
    BY DEF Runs
  <2> QED BY <1>1, <2>2, <2>4, <2>5, <2>6, GoesOnPosting
<1> QED BY <1>3, <1>6, <1>7, <1>8

-----------------------------------------------------------------------------
(***************************************************************************)
(* The requests that are counted.                                          *)
(***************************************************************************)
LEMMA CountedFinite ==
  /\ IsFiniteSet(Serving) /\ Cardinality(Serving) \in Nat
  /\ IsFiniteSet(Waiting) /\ Cardinality(Waiting) \in Nat
<1>1. Serving \subseteq Conns /\ Waiting \subseteq Conns
  BY DEF Serving, Waiting
<1>2. IsFiniteSet(Serving) /\ IsFiniteSet(Waiting)
  BY <1>1, FS_Subset, SocketsAssumption
<1> QED BY <1>2, FS_CardinalityType

\* A request is destroyed.
LEMMA CountedFewer ==
  ASSUME Counted, num_sockets' = num_sockets - 1, max_sockets' = max_sockets,
         NEW c \in Conns, Changed(object, object', c, "freed"), object[c] = "live"
  PROVE  Counted'
<1>1. Serving' = Serving \ {c} /\ Waiting' = Waiting /\ c \in Serving
  BY DEF Serving, Waiting, Changed
<1>2. Cardinality(Serving \ {c}) = Cardinality(Serving) - 1
  BY <1>1, CountedFinite, FS_RemoveElement
<1> QED BY <1>1, <1>2, CountedFinite, SocketsAssumption DEF Counted

\* A connection is accepted, and waits.
LEMMA CountedWaiting ==
  ASSUME Counted, num_sockets' = num_sockets + 1, max_sockets' = max_sockets,
         NEW c \in Conns, Changed(object, object', c, "waiting"), object[c] = "none"
  PROVE  Counted'
<1>1. Serving' = Serving /\ Waiting' = Waiting \cup {c} /\ c \notin Waiting
  BY DEF Serving, Waiting, Changed
<1>2. Cardinality(Waiting \cup {c}) = Cardinality(Waiting) + 1
  BY <1>1, CountedFinite, FS_AddElement
<1> QED BY <1>1, <1>2, CountedFinite DEF Counted

\* It is posted to a thread.
LEMMA CountedMore ==
  ASSUME Counted, max_sockets' = max_sockets, ~TooMany(num_sockets'),
         NEW c \in Conns, Changed(object, object', c, "posted"),
         \/ object[c] = "none" /\ num_sockets' = num_sockets + 1
         \/ object[c] = "waiting" /\ num_sockets' = num_sockets
  PROVE  Counted'
<1>1. Serving' = Serving \cup {c} /\ c \notin Serving /\ Waiting' = Waiting \ {c}
  BY DEF Serving, Waiting, Changed
<1>2. Cardinality(Serving \cup {c}) = Cardinality(Serving) + 1
  BY <1>1, CountedFinite, FS_AddElement
<1>3. Cardinality(Waiting \ {c}) = IF c \in Waiting THEN Cardinality(Waiting) - 1 ELSE Cardinality(Waiting)
  BY CountedFinite, FS_RemoveElement
<1>4. Cardinality(Waiting \ {c}) \in Nat
  BY CountedFinite, FS_RemoveElement, FS_CardinalityType
<1>5. num_sockets' = Cardinality(Serving \cup {c}) + Cardinality(Waiting \ {c})
  <2>1. CASE object[c] = "none" /\ num_sockets' = num_sockets + 1
    <3>1. c \notin Waiting
      BY <2>1 DEF Waiting
    <3> QED BY <1>2, <1>3, <2>1, <3>1, CountedFinite DEF Counted
  <2>2. CASE object[c] = "waiting" /\ num_sockets' = num_sockets
    <3>1. c \in Waiting
      BY <2>2 DEF Waiting
    <3> QED BY <1>2, <1>3, <2>2, <3>1, CountedFinite DEF Counted
  <2> QED BY <2>1, <2>2
<1>6. Cardinality(Serving \cup {c}) \in Nat
  BY <1>2, CountedFinite
<1>7. Cardinality(Serving \cup {c}) <= max_sockets /\ Cardinality(Serving \cup {c}) < MaxNumSockets
  BY <1>4, <1>5, <1>6, SocketsAssumption DEF Counted, TooMany
<1> QED BY <1>1, <1>5, <1>7 DEF Counted

-----------------------------------------------------------------------------
(***************************************************************************)
(* Every step keeps the invariant.                                         *)
(***************************************************************************)
LEMMA RunFinish ==
  ASSUME ServerInv, NEW e \in Entry, NEW q, NEW i, Took(e, q, i), e.run = "Finish", RunEntry(e, q, i)
  PROVE  ServerInv'
<1>1. PICK c : c = e.conn
  OBVIOUS
<1>2. Finish(c, sd[c], q, i)
  BY <1>1 DEF RunEntry, Run
<1>3. /\ c \in Conns /\ object[c] = "live"
      /\ Alive("freed", sd[c], request[c], handler[c], told[c], RunsOf(i, c), RunsOf(q, c))
  <2>1. /\ c \in Conns
        /\ Alive(object[c], sd[c], request[c], handler[c], told[c], RunsOf(immediate, c), RunsOf(high, c))
        /\ "Finish" \in RunsOf(immediate, c) \cup RunsOf(high, c)
        /\ "Finish" \notin RunsOf(immediate, c)
             => /\ RunsOf(immediate, c) = {} /\ RunsOf(i, c) = {}
                /\ RunsOf(q, c) = RunsOf(high, c) \ {"Finish"}
        /\ "Finish" \notin RunsOf(high, c)
             => RunsOf(i, c) = RunsOf(immediate, c) \ {"Finish"} /\ RunsOf(q, c) = RunsOf(high, c)
    BY <1>1, Taken
  <2>2. /\ object[c] = "live"
        /\ Alive("freed", sd[c], request[c], handler[c], told[c],
                 RunsOf(immediate, c) \ {"Finish"}, RunsOf(high, c) \ {"Finish"})
    BY <2>1, LifeAfterFinish
  <2>3. \/ RunsOf(immediate, c) = {"Finish"} /\ RunsOf(high, c) = {}
        \/ RunsOf(immediate, c) = {} /\ RunsOf(high, c) = {"Finish"}
    BY <2>1, AtFinish
  <2>4. RunsOf(i, c) = RunsOf(immediate, c) \ {"Finish"} /\ RunsOf(q, c) = RunsOf(high, c) \ {"Finish"}
    BY <2>1, <2>3
  <2> QED BY <2>1, <2>2, <2>4
<1>4. /\ object' = [object EXCEPT ![c] = "freed"] /\ sd' = sd /\ request' = request /\ handler' = handler
      /\ told' = told /\ max_sockets' = max_sockets /\ num_sockets' = num_sockets - 1
  BY <1>2 DEF Finish
<1>5. high' = q /\ immediate' = i
  BY <1>2 DEF Finish
<1>6. /\ Changed(object, object', c, "freed") /\ Changed(sd, sd', c, sd[c])
      /\ Changed(request, request', c, request[c])
      /\ Changed(handler, handler', c, handler[c]) /\ Changed(told, told', c, told[c])
  BY <1>3, <1>4, ChangedOf
<1>7. Maps' /\ \A b \in Conns : Life(b)'
  <2>1. \A b \in Conns : Life(b)
    BY DEF ServerInv
  <2>2. \A b \in Conns \ {c} : RunsOf(i, b) = RunsOf(immediate, b) /\ RunsOf(q, b) = RunsOf(high, b)
    BY <1>1 DEF Took
  <2> QED BY <1>3, <1>5, <1>6, <2>1, <2>2, LivesOn
<1>8. Queues'
  BY <1>5 DEF Took, Queues
<1>9. Counted'
  <2>1. Counted /\ num_sockets' = num_sockets - 1 /\ max_sockets' = max_sockets
    BY <1>4 DEF ServerInv
  <2> QED BY <1>3, <1>6, <2>1, CountedFewer
<1> QED BY <1>7, <1>8, <1>9 DEF ServerInv

\* Whichever closure runs.
LEMMA RunStep ==
  ASSUME ServerInv, NEW e \in Entry, NEW q, NEW i, Took(e, q, i), RunEntry(e, q, i)
  PROVE  ServerInv'
<1>1. e.run \in {"Start", "ReadFinished", "NotifyWhenClosedInternal", "DoCheckClosed", "DoClosed",
                 "WriteFinished", "Finish", "ExecDone", "readable", "writable", "timedout"}
  BY ClosureIs DEF Runs
<1>2. CASE e.run = "Start" BY <1>2, RunStart
<1>3. CASE e.run = "ReadFinished" BY <1>3, RunReadFinished
<1>4. CASE e.run = "NotifyWhenClosedInternal" BY <1>4, RunNotifyWhenClosedInternal
<1>5. CASE e.run = "DoCheckClosed" BY <1>5, RunDoCheckClosed
<1>6. CASE e.run = "DoClosed" BY <1>6, RunDoClosed
<1>7. CASE e.run = "WriteFinished" BY <1>7, RunWriteFinished
<1>8. CASE e.run = "Finish" BY <1>8, RunFinish
<1>9. CASE e.run = "ExecDone" BY <1>9, RunExecDone
<1>10. CASE e.run = "readable" BY <1>10, RunReadable
<1>11. CASE e.run = "writable" BY <1>11, RunWritable
<1>12. CASE e.run = "timedout" BY <1>12, RunTimedout
<1> QED BY <1>1, <1>2, <1>3, <1>4, <1>5, <1>6, <1>7, <1>8, <1>9, <1>10, <1>11, <1>12

\* The thread runs an immediate closure,
LEMMA RunImmediateStep ==
  ASSUME ServerInv, RunImmediate
  PROVE  ServerInv'
<1>1. immediate # <<>> /\ RunEntry(Head(immediate), high, Tail(immediate))
  BY DEF RunImmediate
<1>2. Head(immediate) \in Entry /\ Took(Head(immediate), high, Tail(immediate))
  BY <1>1, TookImmediate
<1> QED BY <1>1, <1>2, RunStep

\* or another one.
LEMMA RunHighStep ==
  ASSUME ServerInv, RunHigh
  PROVE  ServerInv'
<1>1. immediate = <<>> /\ high # <<>> /\ RunEntry(Head(high), Tail(high), <<>>)
  BY DEF RunHigh
<1>2. Head(high) \in Entry /\ Took(Head(high), Tail(high), <<>>)
  BY <1>1, TookHigh
<1> QED BY <1>1, <1>2, RunStep

\* The callbacks that PollEvents() lists.
LEMMA FiniteCallbacks ==
  ASSUME NEW f \in Runs
  PROVE  IsFiniteSet({Closure(c, f) : c \in Conns})
<1> DEFINE S == {Closure(c, f) : c \in Conns}
           g == [c \in Conns |-> Closure(c, f)]
<1>1. g \in Surjection(Conns, S)
  <2>1. g \in [Conns -> S]
    OBVIOUS
  <2>2. \A e \in S : \E c \in Conns : g[c] = e
    OBVIOUS
  <2> QED BY <2>1, <2>2 DEF Surjection
<1> HIDE DEF g, S
<1> QED BY <1>1, FS_Surjection, SocketsAssumption DEF S

\* The callbacks in the order the poller enumerates them.
LEMMA ListedCallbacks ==
  ASSUME NEW S, S \subseteq {Closure(c, f) : c \in Conns, f \in {"readable", "writable", "timedout"}},
         NEW q \in SetToSeqs(S), Enumerated(q)
  PROVE  /\ q \in Seq(Entry) /\ Once(q) /\ ReadFirst(q)
         /\ \A c \in Conns : RunsOf(q, c) = {f \in Runs : Closure(c, f) \in S}
<1>1. IsFiniteSet(S)
  <2>1. PICK A, B, C : /\ A = {Closure(c, "readable") : c \in Conns}
                       /\ B = {Closure(c, "writable") : c \in Conns}
                       /\ C = {Closure(c, "timedout") : c \in Conns}
    OBVIOUS
  <2>2. IsFiniteSet(A) /\ IsFiniteSet(B) /\ IsFiniteSet(C)
    BY <2>1, FiniteCallbacks DEF Runs
  <2>3. IsFiniteSet((A \cup B) \cup C)
    <3>1. IsFiniteSet(A \cup B)
      BY <2>2, FS_Union
    <3> QED BY <2>2, <3>1, FS_Union
  <2>4. S \subseteq (A \cup B) \cup C
    BY <2>1
  <2> QED BY <2>3, <2>4, FS_Subset
<1>2. PICK n \in Nat : n = Cardinality(S)
  BY <1>1, FS_CardinalityType
<1>3. q \in [1 .. n -> S] /\ \A j, k \in 1 .. n : j # k => q[j] # q[k]
  BY <1>2 DEF SetToSeqs
<1>4. q \in Seq(Entry) /\ Len(q) = n /\ DOMAIN q = 1 .. n
  <2>1. S \subseteq Entry
    BY ClosureIs DEF Runs
  <2>2. q \in [1 .. n -> Entry]
    BY <1>3, <2>1
  <2> QED BY <2>2, SeqDef, LenProperties
<1>5. q \in Injection(1 .. n, S)
  BY <1>3 DEF Injection, IsInjective
<1>6. Cardinality(1 .. n) = n
  BY <1>2, FS_Interval
<1>7. q \in Surjection(1 .. n, S)
  BY <1>1, <1>2, <1>5, <1>6, FS_Injection
<1>8. \A e : e \in S <=> \E k \in 1 .. n : q[k] = e
  BY <1>3, <1>7 DEF Surjection
<1>9. Once(q)
  BY <1>3, <1>4 DEF Once
<1>10. ReadFirst(q)
  <2>1. SUFFICES ASSUME NEW c \in Conns, NEW j \in 1 .. n, NEW k \in 1 .. n,
                        q[j] = Closure(c, "readable"), q[k] = Closure(c, "writable")
                 PROVE  j < k
    BY <1>4 DEF ReadFirst
  <2>2. Closure(c, "readable") \in ToSet(q)
    BY <1>4, <2>1 DEF ToSet
  <2>3. k > 1 /\ q[k - 1] = Closure(c, "readable")
    BY <1>4, <2>1, <2>2 DEF Enumerated
  <2>4. k - 1 \in 1 .. n
    BY <2>3
  <2>5. j = k - 1
    BY <1>3, <2>1, <2>3, <2>4
  <2> QED BY <2>5
<1>11. \A c \in Conns : RunsOf(q, c) = {f \in Runs : Closure(c, f) \in S}
  BY <1>4, <1>8 DEF RunsOf
<1> QED BY <1>4, <1>9, <1>10, <1>11

\* The thread polls.
LEMMA PollStep ==
  ASSUME ServerInv, Poll
  PROVE  ServerInv'
<1>1. PICK late \in SUBSET {c \in Conns : Live(c)} :
        /\ sd' = [c \in Conns |-> IF Live(c) THEN Polled(c, c \in late).sd ELSE sd[c]]
        /\ high' \in {q \in SetToSeqs(UNION {{Closure(c, f) : f \in Polled(c, c \in late).run} :
                                               c \in {b \in Conns : Live(b)}}) : Enumerated(q)}
  BY DEF Poll
<1>2. /\ immediate = <<>> /\ high = <<>> /\ immediate' = immediate /\ object' = object /\ request' = request
      /\ handler' = handler /\ told' = told /\ num_sockets' = num_sockets /\ max_sockets' = max_sockets
  BY DEF Poll
<1>3. PICK S : S = UNION {{Closure(c, f) : f \in Polled(c, c \in late).run} : c \in {b \in Conns : Live(b)}}
  OBVIOUS
<1>4. PICK q : q = high' /\ q \in SetToSeqs(S) /\ Enumerated(q)
  BY <1>1, <1>3
<1>5. \A c \in Conns : Polled(c, c \in late).run \subseteq {"readable", "writable", "timedout"}
  BY PolledIs DEF PolledRuns
<1>6. S \subseteq {Closure(c, f) : c \in Conns, f \in {"readable", "writable", "timedout"}}
  BY <1>3, <1>5
<1>7. /\ q \in Seq(Entry) /\ Once(q) /\ ReadFirst(q)
      /\ \A c \in Conns : RunsOf(q, c) = {f \in Runs : Closure(c, f) \in S}
  BY <1>4, <1>6, ListedCallbacks
<1>8. ASSUME NEW c \in Conns
      PROVE  RunsOf(q, c) = IF Live(c) THEN Polled(c, c \in late).run ELSE {}
  <2>1. ASSUME NEW f
        PROVE  Closure(c, f) \in S <=> Live(c) /\ f \in Polled(c, c \in late).run
    <3>1. ASSUME Closure(c, f) \in S
          PROVE  Live(c) /\ f \in Polled(c, c \in late).run
      <4>1. PICK b \in Conns : Live(b) /\ \E k \in Polled(b, b \in late).run : Closure(c, f) = Closure(b, k)
        BY <1>3, <3>1
      <4>2. PICK k \in Polled(b, b \in late).run : Closure(c, f) = Closure(b, k)
        BY <4>1
      <4>3. c = b /\ f = k
        BY <4>2, ClosureIs
      <4> QED BY <4>1, <4>2, <4>3
    <3>2. ASSUME Live(c), f \in Polled(c, c \in late).run
          PROVE  Closure(c, f) \in S
      BY <1>3, <3>2
    <3> QED BY <3>1, <3>2
  <2>2. Polled(c, c \in late).run \subseteq Runs
    BY <1>5 DEF Runs
  <2> QED BY <1>7, <2>1, <2>2
<1>9. ASSUME NEW c \in Conns
      PROVE  Life(c)'
  <2>1. Alive(object[c], sd[c], request[c], handler[c], told[c], {}, {})
    BY <1>2, RunsEmpty DEF ServerInv, Life
  <2>2. RunsOf(immediate', c) = {}
    BY <1>2, RunsEmpty
  <2>3. CASE Live(c)
    <3>1. object[c] = "live" /\ sd'[c] = PolledSd(sd[c], Readable(c), c \in late)
          /\ RunsOf(q, c) = PolledRuns(sd[c], Readable(c), c \in late)
      BY <1>1, <1>8, <2>3, PolledIs DEF Live
    <3>2. Alive(object[c], sd'[c], request[c], handler[c], told[c], {}, RunsOf(q, c))
      BY <2>1, <3>1, LifeAfterPoll
    <3> QED BY <1>2, <1>4, <2>2, <3>2 DEF Life
  <2>4. CASE ~Live(c)
    <3>1. sd'[c] = sd[c] /\ RunsOf(q, c) = {}
      BY <1>1, <1>8, <2>4
    <3> QED BY <1>2, <1>4, <2>1, <2>2, <3>1 DEF Life
  <2> QED BY <2>3, <2>4
<1>10. Maps' /\ Queues'
  BY <1>1, <1>2, <1>4, <1>7 DEF ServerInv, Maps, Queues
<1>11. Counted'
  <2>1. Serving' = Serving /\ Waiting' = Waiting
    BY <1>2 DEF Serving, Waiting
  <2> QED BY <1>2, <2>1 DEF ServerInv, Counted
<1> QED BY <1>9, <1>10, <1>11 DEF ServerInv

\* The listening thread accepts,
LEMMA AddAcceptStep ==
  ASSUME ServerInv, NEW c \in Conns, AddAccept(c)
  PROVE  ServerInv'
<1>1. /\ object[c] = "none" /\ num_sockets' = num_sockets + 1
      /\ object' = [object EXCEPT ![c] = IF TooMany(num_sockets') THEN "waiting" ELSE "posted"]
      /\ IF TooMany(num_sockets') THEN UNCHANGED <<high, immediate>> ELSE Post(c, "Start")
      /\ max_sockets' = max_sockets /\ sd' = sd /\ request' = request /\ handler' = handler /\ told' = told
  BY DEF AddAccept
<1>2. /\ Changed(sd, sd', c, sd[c]) /\ Changed(request, request', c, request[c])
      /\ Changed(handler, handler', c, handler[c]) /\ Changed(told, told', c, told[c])
  BY <1>1, ChangedOf
<1>3. /\ "Start" \notin RunsOf(high, c)
      /\ Alive("waiting", sd[c], request[c], handler[c], told[c], RunsOf(immediate, c), RunsOf(high, c))
      /\ Alive("posted", sd[c], request[c], handler[c], told[c], RunsOf(immediate, c),
               RunsOf(high, c) \cup {"Start"})
  BY <1>1, LifeAfterAccept DEF ServerInv, Life
<1>4. /\ \A b \in Conns : Life(b)
      /\ immediate \in Seq(Entry) /\ high \in Seq(Entry) /\ Once(immediate) /\ Once(high) /\ ReadFirst(high)
      /\ Counted
  BY DEF ServerInv, Queues
<1>5. CASE TooMany(num_sockets')
  <2>1. Changed(object, object', c, "waiting") /\ high' = high /\ immediate' = immediate
    BY <1>1, <1>5, ChangedOf
  <2>2. Maps' /\ \A b \in Conns : Life(b)'
    BY <1>2, <1>3, <1>4, <2>1, LivesOn
  <2>3. Counted'
    BY <1>1, <1>4, <2>1, CountedWaiting
  <2> QED BY <1>4, <2>1, <2>2, <2>3 DEF ServerInv, Queues
<1>6. CASE ~TooMany(num_sockets')
  <2>1. Changed(object, object', c, "posted") /\ immediate' = immediate
    BY <1>1, <1>6, ChangedOf DEF Post
  <2>2. PICK q : q = high' /\ q = Append(high, Closure(c, "Start"))
    BY <1>1, <1>6 DEF Post
  <2>3. /\ q \in Seq(Entry) /\ Once(q) /\ ReadFirst(q) /\ RunsOf(q, c) = RunsOf(high, c) \cup {"Start"}
        /\ \A b \in Conns \ {c} : RunsOf(q, b) = RunsOf(high, b)
    BY <1>3, <1>4, <2>2, RunsAppend DEF Runs
  <2>4. Alive("posted", sd[c], request[c], handler[c], told[c], RunsOf(immediate, c), RunsOf(q, c))
    BY <1>3, <2>3
  <2>5. high' = q
    BY <2>2
  <2>6. Maps' /\ \A b \in Conns : Life(b)'
    <3>1. \A b \in Conns : Life(b)
      BY <1>4
    <3>2. \A b \in Conns \ {c} :
            RunsOf(immediate, b) = RunsOf(immediate, b) /\ RunsOf(q, b) = RunsOf(high, b)
      BY <2>3
    <3> QED BY <1>2, <2>1, <2>4, <2>5, <3>1, <3>2, LivesOn
  <2>7. Counted'
    BY <1>1, <1>4, <1>6, <2>1, CountedMore
  <2> QED BY <1>4, <2>1, <2>3, <2>5, <2>6, <2>7 DEF ServerInv, Queues
<1> QED BY <1>5, <1>6

\* and lets a waiting connection in.
LEMMA AcceptedStep ==
  ASSUME ServerInv, NEW c \in Conns, Accepted(c)
  PROVE  ServerInv'
<1>1. /\ object[c] = "waiting" /\ num_sockets' = num_sockets /\ ~TooMany(num_sockets)
      /\ object' = [object EXCEPT ![c] = "posted"]
      /\ high' = Append(high, Closure(c, "Start")) /\ immediate' = immediate
      /\ max_sockets' = max_sockets /\ sd' = sd /\ request' = request /\ handler' = handler /\ told' = told
  BY DEF Accepted, Post
<1>2. /\ Changed(object, object', c, "posted")
      /\ Changed(sd, sd', c, sd[c]) /\ Changed(request, request', c, request[c])
      /\ Changed(handler, handler', c, handler[c]) /\ Changed(told, told', c, told[c])
  BY <1>1, ChangedOf
<1>3. /\ "Start" \notin RunsOf(high, c)
      /\ Alive("posted", sd[c], request[c], handler[c], told[c], RunsOf(immediate, c),
               RunsOf(high, c) \cup {"Start"})
  BY <1>1, LifeAfterAccept DEF ServerInv, Life
<1>4. /\ \A b \in Conns : Life(b)
      /\ immediate \in Seq(Entry) /\ high \in Seq(Entry) /\ Once(immediate) /\ Once(high) /\ ReadFirst(high)
      /\ Counted
  BY DEF ServerInv, Queues
<1>5. PICK q : q = high' /\ q = Append(high, Closure(c, "Start"))
  BY <1>1
<1>6. /\ q \in Seq(Entry) /\ Once(q) /\ ReadFirst(q) /\ RunsOf(q, c) = RunsOf(high, c) \cup {"Start"}
      /\ \A b \in Conns \ {c} : RunsOf(q, b) = RunsOf(high, b)
  BY <1>3, <1>4, <1>5, RunsAppend DEF Runs
<1>7. Alive("posted", sd[c], request[c], handler[c], told[c], RunsOf(immediate, c), RunsOf(q, c))
  BY <1>3, <1>6
<1>8. high' = q /\ immediate' = immediate
  BY <1>1, <1>5
<1>9. Maps' /\ \A b \in Conns : Life(b)'
  <2>1. \A b \in Conns : Life(b)
    BY <1>4
  <2>2. \A b \in Conns \ {c} :
          RunsOf(immediate, b) = RunsOf(immediate, b) /\ RunsOf(q, b) = RunsOf(high, b)
    BY <1>6
  <2> QED BY <1>2, <1>7, <1>8, <2>1, <2>2, LivesOn
<1>10. Counted'
  <2>1. ~TooMany(num_sockets')
    BY <1>1
  <2> QED BY <1>1, <1>2, <1>4, <2>1, CountedMore
<1> QED BY <1>4, <1>6, <1>8, <1>9, <1>10 DEF ServerInv, Queues

\* The handler asks to be told when the client goes away.
LEMMA NotifyWhenClosedStep ==
  ASSUME ServerInv, NEW c \in Conns, NotifyWhenClosed(c)
  PROVE  ServerInv'
<1>1. /\ handler[c] = "started" /\ handler' = [handler EXCEPT ![c] = "running"]
      /\ high' = Append(high, Closure(c, "NotifyWhenClosedInternal")) /\ immediate' = immediate
      /\ object' = object /\ sd' = sd /\ request' = request /\ told' = told
      /\ max_sockets' = max_sockets /\ num_sockets' = num_sockets
  BY DEF NotifyWhenClosed, Post
<1>2. /\ Changed(object, object', c, object[c])
      /\ Changed(sd, sd', c, sd[c]) /\ Changed(request, request', c, request[c])
      /\ Changed(handler, handler', c, "running") /\ Changed(told, told', c, told[c])
  BY <1>1, ChangedOf
<1>3. /\ "NotifyWhenClosedInternal" \notin RunsOf(high, c)
      /\ Alive(object[c], sd[c], request[c], "running", told[c], RunsOf(immediate, c),
               RunsOf(high, c) \cup {"NotifyWhenClosedInternal"})
  BY <1>1, LifeAfterNotifyWhenClosed DEF ServerInv, Life
<1>4. /\ \A b \in Conns : Life(b)
      /\ immediate \in Seq(Entry) /\ high \in Seq(Entry) /\ Once(immediate) /\ Once(high) /\ ReadFirst(high)
      /\ Counted
  BY DEF ServerInv, Queues
<1>5. PICK q : q = high' /\ q = Append(high, Closure(c, "NotifyWhenClosedInternal"))
  BY <1>1
<1>6. /\ q \in Seq(Entry) /\ Once(q) /\ ReadFirst(q)
      /\ RunsOf(q, c) = RunsOf(high, c) \cup {"NotifyWhenClosedInternal"}
      /\ \A b \in Conns \ {c} : RunsOf(q, b) = RunsOf(high, b)
  BY <1>3, <1>4, <1>5, RunsAppend DEF Runs
<1>7. Alive(object[c], sd[c], request[c], "running", told[c], RunsOf(immediate, c), RunsOf(q, c))
  BY <1>3, <1>6
<1>8. high' = q /\ immediate' = immediate
  BY <1>1, <1>5
<1>9. Maps' /\ \A b \in Conns : Life(b)'
  <2>1. \A b \in Conns : Life(b)
    BY <1>4
  <2>2. \A b \in Conns \ {c} :
          RunsOf(immediate, b) = RunsOf(immediate, b) /\ RunsOf(q, b) = RunsOf(high, b)
    BY <1>6
  <2> QED BY <1>2, <1>7, <1>8, <2>1, <2>2, LivesOn
<1>10. Counted'
  BY <1>1, <1>2, <1>4, CountedSame
<1> QED BY <1>4, <1>6, <1>8, <1>9, <1>10 DEF ServerInv, Queues

\* The handler is done.
LEMMA HandlerDoneStep ==
  ASSUME ServerInv, NEW c \in Conns, HandlerDone(c)
  PROVE  ServerInv'
<1>1. /\ handler[c] = "running" /\ handler' = [handler EXCEPT ![c] = "done"]
      /\ immediate' = Append(immediate, Closure(c, "ExecDone")) /\ high' = high
      /\ object' = object /\ sd' = sd /\ request' = request /\ told' = told
      /\ max_sockets' = max_sockets /\ num_sockets' = num_sockets
  BY DEF HandlerDone
<1>2. /\ Changed(object, object', c, object[c])
      /\ Changed(sd, sd', c, sd[c]) /\ Changed(request, request', c, request[c])
      /\ Changed(handler, handler', c, "done") /\ Changed(told, told', c, told[c])
  BY <1>1, ChangedOf
<1>3. /\ "ExecDone" \notin RunsOf(immediate, c)
      /\ Alive(object[c], sd[c], request[c], "done", told[c], RunsOf(immediate, c) \cup {"ExecDone"},
               RunsOf(high, c))
  BY <1>1, LifeAfterHandlerDone DEF ServerInv, Life
<1>4. /\ \A b \in Conns : Life(b)
      /\ immediate \in Seq(Entry) /\ high \in Seq(Entry) /\ Once(immediate) /\ Once(high) /\ ReadFirst(high)
      /\ Counted
  BY DEF ServerInv, Queues
<1>5. PICK i : i = immediate' /\ i = Append(immediate, Closure(c, "ExecDone"))
  BY <1>1
<1>6. /\ i \in Seq(Entry) /\ Once(i) /\ RunsOf(i, c) = RunsOf(immediate, c) \cup {"ExecDone"}
      /\ \A b \in Conns \ {c} : RunsOf(i, b) = RunsOf(immediate, b)
  BY <1>3, <1>4, <1>5, RunsAppend DEF Runs
<1>7. Alive(object[c], sd[c], request[c], "done", told[c], RunsOf(i, c), RunsOf(high, c))
  BY <1>3, <1>6
<1>8. immediate' = i /\ high' = high
  BY <1>1, <1>5
<1>9. Maps' /\ \A b \in Conns : Life(b)'
  <2>1. \A b \in Conns : Life(b)
    BY <1>4
  <2>2. \A b \in Conns \ {c} :
          RunsOf(i, b) = RunsOf(immediate, b) /\ RunsOf(high, b) = RunsOf(high, b)
    BY <1>6
  <2> QED BY <1>2, <1>7, <1>8, <2>1, <2>2, LivesOn
<1>10. Counted'
  BY <1>1, <1>2, <1>4, CountedSame
<1> QED BY <1>4, <1>6, <1>8, <1>9, <1>10 DEF ServerInv, Queues

\* The handler is told that the client went away.
LEMMA ClosedCallbackStep ==
  ASSUME ServerInv, NEW c \in Conns, ClosedCallback(c)
  PROVE  ServerInv'
<1>1. PICK u : u = IF handler[c] = "done" THEN "late" ELSE "yes"
  OBVIOUS
<1>2. /\ told[c] = "posted" /\ told' = [told EXCEPT ![c] = u]
      /\ object' = object /\ sd' = sd /\ request' = request /\ handler' = handler
      /\ immediate' = immediate /\ high' = high
      /\ max_sockets' = max_sockets /\ num_sockets' = num_sockets
  BY <1>1 DEF ClosedCallback
<1>3. /\ Changed(object, object', c, object[c])
      /\ Changed(sd, sd', c, sd[c]) /\ Changed(request, request', c, request[c])
      /\ Changed(handler, handler', c, handler[c]) /\ Changed(told, told', c, u)
  BY <1>2, ChangedOf
<1>4. /\ \A b \in Conns : Life(b)
      /\ Queues /\ Counted
  BY DEF ServerInv
<1>5. Alive(object[c], sd[c], request[c], handler[c], u, RunsOf(immediate, c), RunsOf(high, c))
  <2>1. Alive(object[c], sd[c], request[c], handler[c], "posted", RunsOf(immediate, c), RunsOf(high, c))
    BY <1>2, <1>4 DEF Life
  <2> QED BY <1>1, <2>1, LifeAfterClosedCallback
<1>6. Maps' /\ \A b \in Conns : Life(b)'
  BY <1>2, <1>3, <1>4, <1>5, LivesOn
<1>7. Counted'
  BY <1>2, <1>3, <1>4, CountedSame
<1>8. Queues'
  BY <1>2, <1>4 DEF Queues
<1> QED BY <1>6, <1>7, <1>8 DEF ServerInv

\* What a client sends does not change a request until it is read.
LEMMA PeerStep ==
  ASSUME ServerInv, UNCHANGED <<max_sockets, object, sd, request, handler, num_sockets, immediate, high, told>>
  PROVE  ServerInv'
<1>1. /\ object' = object /\ sd' = sd /\ request' = request /\ handler' = handler /\ told' = told
      /\ immediate' = immediate /\ high' = high /\ num_sockets' = num_sockets /\ max_sockets' = max_sockets
  OBVIOUS
<1>2. \A c \in Conns : Life(c)'
  BY <1>1 DEF ServerInv, Life
<1>3. Maps' /\ Queues'
  BY <1>1 DEF ServerInv, Maps, Queues
<1>4. Counted'
  <2>1. Serving' = Serving /\ Waiting' = Waiting
    BY <1>1 DEF Serving, Waiting
  <2> QED BY <1>1, <2>1 DEF ServerInv, Counted
<1> QED BY <1>2, <1>3, <1>4 DEF ServerInv

\* The initial states.
LEMMA InitInv == ServerInit => ServerInv
<1>1. SUFFICES ASSUME ServerInit
               PROVE  ServerInv
  OBVIOUS
<1>2. Sd(NewDescriptor, "none", FALSE, "none", "none", FALSE, "none")
  BY DEF Sd, SdType, Callbacks, NewDescriptor
<1>3. Rq(NewRequest, FALSE, FALSE, FALSE, FALSE, FALSE, "no")
  BY DEF Rq, RqType, NewRequest
<1>4. Beginning("none", NewDescriptor, NewRequest, "none", "no", {}, {})
  BY <1>2, <1>3 DEF Beginning
<1>5. ASSUME NEW c \in Conns
      PROVE  Life(c)
  <2>1. /\ object[c] = "none" /\ sd[c] = NewDescriptor /\ request[c] = NewRequest /\ handler[c] = "none"
        /\ told[c] = "no" /\ immediate = <<>> /\ high = <<>>
    BY <1>1 DEF ServerInit
  <2> HIDE DEF NewDescriptor, NewRequest
  <2>2. Alive("none", NewDescriptor, NewRequest, "none", "no", {}, {})
    BY <1>4 DEF Alive
  <2>3. RunsOf(immediate, c) = {} /\ RunsOf(high, c) = {}
    BY <2>1, RunsEmpty
  <2> QED BY <2>1, <2>2, <2>3 DEF Life
<1>6. Maps /\ Queues
  BY <1>1, RunsEmpty DEF ServerInit, Maps, Queues
<1>7. Counted
  <2>1. Serving = {} /\ Waiting = {}
    BY <1>1 DEF ServerInit, Serving, Waiting
  <2>2. Cardinality({}) = 0
    BY FS_EmptySet
  <2>3. num_sockets = 0 /\ max_sockets \in 1 .. MaxSockets
    BY <1>1 DEF ServerInit
  <2> QED BY <2>1, <2>2, <2>3, SocketsAssumption DEF Counted
<1> QED BY <1>5, <1>6, <1>7 DEF ServerInv

\* Every step.
LEMMA StepInv == ServerInv /\ [ServerNext]_server_vars => ServerInv'
<1>1. SUFFICES ASSUME ServerInv, [ServerNext]_server_vars
               PROVE  ServerInv'
  OBVIOUS
<1>2. CASE RunImmediate BY <1>1, <1>2, RunImmediateStep
<1>3. CASE RunHigh BY <1>1, <1>3, RunHighStep
<1>4. CASE Poll BY <1>1, <1>4, PollStep
<1>5. ASSUME NEW c \in Conns,
             \/ AddAccept(c) \/ Accepted(c) \/ NotifyWhenClosed(c) \/ HandlerDone(c)
             \/ PeerSends(c) \/ PeerSendsPart(c) \/ PeerCloses(c) \/ ClosedCallback(c)
      PROVE  ServerInv'
  <2>1. CASE AddAccept(c) BY <1>1, <2>1, AddAcceptStep
  <2>2. CASE Accepted(c) BY <1>1, <2>2, AcceptedStep
  <2>3. CASE NotifyWhenClosed(c) BY <1>1, <2>3, NotifyWhenClosedStep
  <2>4. CASE HandlerDone(c) BY <1>1, <2>4, HandlerDoneStep
  <2>5. CASE PeerSends(c) BY <1>1, <2>5, PeerStep DEF PeerSends
  <2>6. CASE PeerSendsPart(c) BY <1>1, <2>6, PeerStep DEF PeerSendsPart
  <2>7. CASE PeerCloses(c) BY <1>1, <2>7, PeerStep DEF PeerCloses
  <2>8. CASE ClosedCallback(c) BY <1>1, <2>8, ClosedCallbackStep
  <2> QED BY <1>5, <2>1, <2>2, <2>3, <2>4, <2>5, <2>6, <2>7, <2>8
<1>6. CASE UNCHANGED server_vars
  BY <1>1, <1>6, PeerStep DEF server_vars
<1> QED BY <1>1, <1>2, <1>3, <1>4, <1>5, <1>6 DEF ServerNext, Worker

-----------------------------------------------------------------------------
(***************************************************************************)
(* What the invariant says of a request.                                   *)
(***************************************************************************)
LEMMA AliveIsLive ==
  ASSUME NEW o, NEW d, NEW r, NEW h, NEW t, NEW i, NEW q, Alive(o, d, r, h, t, i, q),
         i # {} \/ q # {} \/ h \in {"started", "running"}
  PROVE  o \in {"posted", "live"}
BY DEF Alive, Beginning, Reading, Read, Handling, Watching, Told, Replying, ReplyingWatched,
       Written, Lost, Ended

\* A descriptor has callbacks only as long as its request lives.
LEMMA CallbacksOf ==
  ASSUME NEW o, NEW d, NEW r, NEW h, NEW t, NEW i, NEW q, Alive(o, d, r, h, t, i, q)
  PROVE  CallbacksAlive(d)
<1>1. CASE Beginning(o, d, r, h, t, i, q)
  BY <1>1 DEF Beginning, Sd, CallbacksAlive
<1>2. CASE Reading(o, d, r, h, t, i, q)
  BY <1>2 DEF Reading, SdTimed, CallbacksAlive
<1>3. CASE Read(o, d, r, h, t, i, q)
  BY <1>3 DEF Read, SdTimed, CallbacksAlive
<1>4. CASE Handling(o, d, r, h, t, i, q)
  BY <1>4 DEF Handling, Sd, CallbacksAlive
<1>5. CASE Watching(o, d, r, h, t, i, q)
  BY <1>5 DEF Watching, Sd, CallbacksAlive
<1>6. CASE Told(o, d, r, h, t, i, q)
  BY <1>6 DEF Told, Sd, CallbacksAlive
<1>7. CASE Replying(o, d, r, h, t, i, q)
  BY <1>7 DEF Replying, Sd, CallbacksAlive
<1>8. CASE ReplyingWatched(o, d, r, h, t, i, q)
  BY <1>8 DEF ReplyingWatched, Sd, CallbacksAlive
<1>9. CASE Written(o, d, r, h, t, i, q)
  BY <1>9 DEF Written, Sd, CallbacksAlive
<1>10. CASE Lost(o, d, r, h, t, i, q)
  BY <1>10 DEF Lost, Sd, CallbacksAlive
<1>11. CASE Ended(o, d, r, h, t, i, q)
  BY <1>11 DEF Ended, CallbacksAlive
<1> QED BY <1>1, <1>2, <1>3, <1>4, <1>5, <1>6, <1>7, <1>8, <1>9, <1>10, <1>11 DEF Alive

\* A handler is told of a closed socket only, and in time only if its reply did not
\* find the socket open.
LEMMA OnlyClosed ==
  ASSUME NEW o, NEW d, NEW r, NEW h, NEW t, NEW i, NEW q, Alive(o, d, r, h, t, i, q), t # "no"
  PROVE  r.closed /\ (t = "yes" => r.replied # "open")
<1>1. Told(o, d, r, h, t, i, q) \/ Lost(o, d, r, h, t, i, q) \/ Ended(o, d, r, h, t, i, q)
  BY DEF Alive, Beginning, Reading, Read, Handling, Watching, Replying, ReplyingWatched, Written
<1>2. CASE Told(o, d, r, h, t, i, q)
  BY <1>2 DEF Told, Rq
<1>3. CASE Lost(o, d, r, h, t, i, q)
  BY <1>3 DEF Lost, Rq
<1>4. CASE Ended(o, d, r, h, t, i, q)
  BY <1>4 DEF Ended
<1> QED BY <1>1, <1>2, <1>3, <1>4

\* A request that nobody will call was answered and then closed, and its handler is
\* told too late.
LEMMA OnlyLost ==
  ASSUME NEW o, NEW d, NEW r, NEW h, NEW t, NEW i, NEW q, Alive(o, d, r, h, t, i, q),
         o = "live", i = {}, q = {}, h \notin {"started", "running"},
         ~HasReadableClosure(d), ~HasWritableClosure(d)
  PROVE  r.replied = "open" /\ r.closed /\ t \in {"posted", "late"}
<1>2. CASE /\ o = "live" /\ i = {} /\ q = {} /\ h \notin {"started", "running"}
           /\ ~HasReadableClosure(d) /\ ~HasWritableClosure(d)
  <2>f. /\ {} # {"readable"} /\ {} # {"timedout"} /\ {} # {"DoClosed"} /\ {} # {"ExecDone"} /\ {} # {"Finish"}
        /\ {} # {"NotifyWhenClosedInternal"} /\ {} # {"writable"} /\ {} # {"readable", "writable"}
        /\ {} # {"writable", "DoClosed"} /\ {} \notin {{"Finish"}, {"WriteFinished"}}
        /\ h # "started" /\ h # "running"
    BY <1>2
  <2>1. \/ Reading("live", d, r, h, t, {}, {}) \/ Handling("live", d, r, h, t, {}, {})
        \/ Watching("live", d, r, h, t, {}, {}) \/ Told("live", d, r, h, t, {}, {})
        \/ Replying("live", d, r, h, t, {}, {}) \/ ReplyingWatched("live", d, r, h, t, {}, {})
        \/ Written("live", d, r, h, t, {}, {}) \/ Lost("live", d, r, h, t, {}, {})
    BY <1>2 DEF Alive, Beginning, Read, Ended
  <2>2. ~Reading("live", d, r, h, t, {}, {})
    <3>1. ASSUME SdTimed(d, "DoRead", TRUE, "none", "DoTimeout", FALSE)
          PROVE  FALSE
      BY <1>2, <3>1 DEF SdTimed, HasReadableClosure
    <3> QED BY <2>f, <3>1, Zenon DEF Reading
  <2>3. ~Handling("live", d, r, h, t, {}, {})
    BY <2>f, Zenon DEF Handling
  <2>4. ~Watching("live", d, r, h, t, {}, {})
    BY <2>f, Zenon DEF Watching
  <2>5. ~Told("live", d, r, h, t, {}, {})
    BY <2>f, Zenon DEF Told
  <2>6. ~Replying("live", d, r, h, t, {}, {})
    <3>1. ASSUME Sd(d, "none", FALSE, "none", "DoWrite", TRUE, "none")
          PROVE  FALSE
      BY <1>2, <3>1 DEF Sd, HasWritableClosure
    <3> QED BY <2>f, <3>1, Zenon DEF Replying
  <2>7. ~ReplyingWatched("live", d, r, h, t, {}, {})
    <3>1. ASSUME Sd(d, "DoCheckClosed", TRUE, "none", "DoWrite", TRUE, "none")
          PROVE  FALSE
      BY <1>2, <3>1 DEF Sd, HasWritableClosure
    <3> QED BY <2>f, <3>1, Zenon DEF ReplyingWatched
  <2>8. ~Written("live", d, r, h, t, {}, {})
    <3>1. ASSUME Sd(d, "DoReadEOF", TRUE, "none", "none", FALSE, "none")
          PROVE  FALSE
      BY <1>2, <3>1 DEF Sd, HasReadableClosure
    <3> QED BY <2>f, <3>1, Zenon DEF Written
  <2>9. Lost("live", d, r, h, t, {}, {})
    BY <2>1, <2>2, <2>3, <2>4, <2>5, <2>6, <2>7, <2>8
  <2> QED BY <2>9 DEF Lost, Rq
<1> QED BY <1>2

\* A queued closure is an entry of one queue or of the other.
LEMMA EntriesOf ==
  ASSUME ServerInv, NEW c \in Conns
  PROVE  /\ \A n \in Entries(c) : queue[n].run \in RunsOf(immediate, c) \cup RunsOf(high, c)
         /\ \A m, n \in Entries(c) : \A f \in Runs :
              queue[m] = Closure(c, f) /\ queue[n] = Closure(c, f)
              /\ (RunsOf(immediate, c) = {} \/ RunsOf(high, c) = {}) => m = n
         /\ Entries(c) = {} => RunsOf(immediate, c) = {} /\ RunsOf(high, c) = {}
         /\ \A n \in Entries(c) : queue[n] = Closure(c, queue[n].run) /\ queue[n].run \in Runs
<1>1. immediate \in Seq(Entry) /\ high \in Seq(Entry) /\ Once(immediate) /\ Once(high)
  BY DEF ServerInv, Queues
<1>2. PICK k \in Nat, l \in Nat : k = Len(immediate) /\ l = Len(high)
  BY <1>1, LenProperties
<1>3. /\ queue \in Seq(Entry) /\ DOMAIN queue = 1 .. k + l
      /\ \A n \in 1 .. k + l : queue[n] = IF n <= k THEN immediate[n] ELSE high[n - k]
  <2>1. /\ queue \in Seq(Entry) /\ Len(queue) = k + l
        /\ \A n \in 1 .. k + l : queue[n] = IF n <= k THEN immediate[n] ELSE high[n - k]
    BY <1>1, <1>2, ConcatProperties DEF queue
  <2> QED BY <2>1, LenProperties
<1>4. \A n \in 1 .. k + l : queue[n] \in Entry
  BY <1>3, ElementOfSeq
<1>5. ASSUME NEW n \in Entries(c)
      PROVE  /\ n \in 1 .. k + l /\ queue[n] = Closure(c, queue[n].run) /\ queue[n].run \in Runs
             /\ n <= k => queue[n].run \in RunsOf(immediate, c)
             /\ n > k => queue[n].run \in RunsOf(high, c)
  <2>1. n \in 1 .. k + l /\ queue[n].conn = c
    BY <1>3 DEF Entries
  <2>2. queue[n] = Closure(c, queue[n].run) /\ queue[n].run \in Runs
    BY <1>4, <2>1, ClosureIs
  <2>3. ASSUME n <= k
        PROVE  queue[n].run \in RunsOf(immediate, c)
    <3>1. n \in 1 .. Len(immediate) /\ immediate[n] = Closure(c, queue[n].run)
      BY <1>2, <1>3, <2>1, <2>2, <2>3
    <3> QED BY <2>2, <3>1 DEF RunsOf
  <2>4. ASSUME n > k
        PROVE  queue[n].run \in RunsOf(high, c)
    <3>1. n - k \in 1 .. Len(high) /\ high[n - k] = Closure(c, queue[n].run)
      BY <1>2, <1>3, <2>1, <2>2, <2>4
    <3> QED BY <2>2, <3>1 DEF RunsOf
  <2> QED BY <2>1, <2>2, <2>3, <2>4
<1>6. ASSUME NEW n \in Entries(c)
      PROVE  queue[n].run \in RunsOf(immediate, c) \cup RunsOf(high, c)
  <2>1. n \in 1 .. k + l
    BY <1>5
  <2>2. n <= k \/ n > k
    BY <2>1
  <2> QED BY <1>5, <2>2
<1>7. ASSUME NEW m \in Entries(c), NEW n \in Entries(c), NEW f \in Runs,
             queue[m] = Closure(c, f), queue[n] = Closure(c, f),
             RunsOf(immediate, c) = {} \/ RunsOf(high, c) = {}
      PROVE  m = n
  <2>1. m \in 1 .. k + l /\ n \in 1 .. k + l
    BY <1>5
  <2>2. (m <= k /\ n <= k) \/ (m > k /\ n > k)
    <3>1. CASE RunsOf(immediate, c) = {}
      <4>1. ~(m <= k) /\ ~(n <= k)
        BY <1>5, <3>1
      <4> QED BY <2>1, <4>1
    <3>2. CASE RunsOf(high, c) = {}
      <4>1. ~(m > k) /\ ~(n > k)
        BY <1>5, <3>2
      <4> QED BY <2>1, <4>1
    <3> QED BY <1>7, <3>1, <3>2
  <2>3. CASE m <= k /\ n <= k
    <3>1. immediate[m] = immediate[n] /\ m \in 1 .. Len(immediate) /\ n \in 1 .. Len(immediate)
      BY <1>2, <1>3, <1>7, <2>1, <2>3
    <3> QED BY <1>1, <3>1 DEF Once
  <2>4. CASE m > k /\ n > k
    <3>1. high[m - k] = high[n - k] /\ m - k \in 1 .. Len(high) /\ n - k \in 1 .. Len(high)
      BY <1>2, <1>3, <1>7, <2>1, <2>4
    <3>2. m - k = n - k
      BY <1>1, <3>1 DEF Once
    <3> QED BY <2>1, <3>2
  <2> QED BY <2>2, <2>3, <2>4
<1>8. ASSUME Entries(c) = {}
      PROVE  RunsOf(immediate, c) = {} /\ RunsOf(high, c) = {}
  <2>1. ASSUME NEW f \in RunsOf(immediate, c)
        PROVE  FALSE
    <3>1. PICK n \in 1 .. Len(immediate) : immediate[n] = Closure(c, f)
      BY <2>1 DEF RunsOf
    <3>2. n \in DOMAIN queue /\ queue[n] = Closure(c, f)
      BY <1>2, <1>3, <3>1
    <3>3. n \in Entries(c)
      BY <3>2 DEF Entries, Closure
    <3> QED BY <1>8, <3>3
  <2>2. ASSUME NEW f \in RunsOf(high, c)
        PROVE  FALSE
    <3>1. PICK n \in 1 .. Len(high) : high[n] = Closure(c, f)
      BY <2>2 DEF RunsOf
    <3>2. n + k \in 1 .. k + l /\ ~(n + k <= k) /\ (n + k) - k = n
      BY <1>2, <3>1
    <3>3. n + k \in DOMAIN queue /\ queue[n + k] = Closure(c, f)
      BY <1>3, <3>1, <3>2
    <3>4. n + k \in Entries(c)
      BY <3>3 DEF Entries, Closure
    <3> QED BY <1>8, <3>4
  <2> QED BY <2>1, <2>2
<1>9. \A n \in Entries(c) : queue[n] = Closure(c, queue[n].run) /\ queue[n].run \in Runs
  BY <1>5
<1> QED BY <1>6, <1>7, <1>8, <1>9

\* The invariant says what NoUseAfterFree says,
LEMMA NothingFreedIsUsed == ServerInv => NoUseAfterFree
<1>1. SUFFICES ASSUME ServerInv, NEW c \in Conns
               PROVE  /\ Entries(c) # {} \/ HandlerHolds(c) => object[c] \in {"posted", "live"}
                      /\ \A n \in Entries(c) : queue[n].run = "Finish"
                           => Entries(c) = {n} /\ NothingQueued(sd[c]) /\ ~HandlerHolds(c)
                      /\ CallbacksAlive(sd[c])
  BY DEF NoUseAfterFree
<1>2. PICK i, q : i = RunsOf(immediate, c) /\ q = RunsOf(high, c)
  OBVIOUS
<1>3. Alive(object[c], sd[c], request[c], handler[c], told[c], i, q)
  BY <1>1, <1>2 DEF ServerInv, Life
<1>4. \A n \in Entries(c) : /\ queue[n].run \in i \cup q /\ queue[n].run \in Runs
                            /\ queue[n] = Closure(c, queue[n].run)
  BY <1>1, <1>2, EntriesOf
<1>5. ASSUME Entries(c) # {} \/ HandlerHolds(c)
      PROVE  object[c] \in {"posted", "live"}
  <2>1. i # {} \/ q # {} \/ handler[c] \in {"started", "running"}
    BY <1>4, <1>5 DEF HandlerHolds
  <2> QED BY <1>3, <2>1, AliveIsLive
<1>6. ASSUME NEW n \in Entries(c), queue[n].run = "Finish"
      PROVE  Entries(c) = {n} /\ NothingQueued(sd[c]) /\ ~HandlerHolds(c)
  <2>1. "Finish" \in i \cup q
    BY <1>4, <1>6
  <2>2. /\ handler[c] \in {"none", "done"}
        /\ \/ i = {"Finish"} /\ q = {}
           \/ i = {} /\ q = {"Finish"}
        /\ sd[c].read_in_queue = "none" /\ sd[c].write_in_queue = "none" /\ ~sd[c].timeout_in_queue
    BY <1>3, <2>1, AtFinish
  <2>3. ASSUME NEW m \in Entries(c)
        PROVE  m = n
    <3>1. queue[m].run = "Finish"
      BY <1>4, <2>2
    <3>2. queue[m] = Closure(c, "Finish") /\ queue[n] = Closure(c, "Finish") /\ "Finish" \in Runs
      BY <1>4, <1>6, <3>1
    <3> QED BY <1>1, <1>2, <2>2, <3>2, EntriesOf
  <2>4. Entries(c) = {n}
    BY <2>3
  <2> QED BY <2>2, <2>4 DEF NothingQueued, HandlerHolds
<1>7. CallbacksAlive(sd[c])
  BY <1>3, CallbacksOf
<1> QED BY <1>5, <1>6, <1>7

\* and what AcceptExact says.
LEMMA AcceptIsExact == ServerInv => AcceptExact
<1>1. SUFFICES ASSUME ServerInv
               PROVE  AcceptExact
  OBVIOUS
<1>2. ASSUME NEW c \in Conns
      PROVE  /\ Stranded(c) => /\ request[c].replied = "open" /\ request[c].closed
                               /\ told[c] \in {"posted", "late"}
             /\ told[c] # "no" => request[c].closed
             /\ told[c] = "yes" => request[c].replied # "open"
  <2>1. Alive(object[c], sd[c], request[c], handler[c], told[c], RunsOf(immediate, c), RunsOf(high, c))
    BY <1>1 DEF ServerInv, Life
  <2>2. Stranded(c)
          => /\ object[c] = "live" /\ RunsOf(immediate, c) = {} /\ RunsOf(high, c) = {}
             /\ handler[c] \notin {"started", "running"}
             /\ ~HasReadableClosure(sd[c]) /\ ~HasWritableClosure(sd[c])
    BY <1>1, EntriesOf DEF Stranded, Live, HandlerHolds
  <2> QED BY <2>1, <2>2, OnlyLost, OnlyClosed
<1>3. /\ num_sockets = Cardinality(Serving) + Cardinality(Waiting)
      /\ Cardinality(Serving) <= max_sockets /\ Cardinality(Serving) < MaxNumSockets
  BY <1>1 DEF ServerInv, Counted
<1> QED BY <1>2, <1>3 DEF AcceptExact, Serving, Waiting

-----------------------------------------------------------------------------
\* ThreadpoolHttpServer never runs a closure of a request that was deleted and
\* never deletes one while something of it is queued or its handler has it, for
\* any number of connections and any limits: a request is deleted by one closure,
\* Finish(), which is the last thing queued of it, and the socket descriptor has
\* no callback that could run a closure taken away from it.
THEOREM RequestsAreNotUsedAfterFree == ServerSpec => []NoUseAfterFree
<1>1. ServerInv /\ [ServerNext]_server_vars => ServerInv'
  BY StepInv
<1> QED BY InitInv, <1>1, NothingFreedIsUsed, PTL DEF ServerSpec

\* num_sockets_ is the number of requests that exist, AddAccept() lets no more be
\* served than max_sockets_ and max_num_sockets_ allow, and a request keeps its
\* slot for ever only when the client closed the socket after SendReply() and
\* before the response was written, in which case its handler is told after the
\* reply; a handler that is told while it is at work never has its reply written.
\* It is so for any number of connections and any limits.
THEOREM AcceptsAreExact == ServerSpec => []AcceptExact
<1>1. ServerInv /\ [ServerNext]_server_vars => ServerInv'
  BY StepInv
<1> QED BY InitInv, <1>1, AcceptIsExact, PTL DEF ServerSpec
==============================================================================
