------------------------ MODULE ThreadpoolHttpServer -------------------------
(***************************************************************************)
(* ThreadpoolHttpServer (client/threadpool_http_server.cc): connections    *)
(* are accepted by the thread in Loop(), and each is served by a           *)
(* RequestFromSocket on a worker thread until the object deletes itself.   *)
(*                                                                         *)
(* All requests here are on one worker thread, which runs one closure at a *)
(* time: those of PRIORITY_IMMEDIATE first, then those of PRIORITY_HIGH,   *)
(* and it looks at the sockets, which have PRIORITY_HIGH, only when        *)
(* neither is left (WorkerThread::NextClosure).  The handler of a request  *)
(* (a compile task, mostly) runs on another thread.                        *)
(***************************************************************************)
EXTENDS Integers, Sequences, SequencesExt, FiniteSets, SocketDescriptor

CONSTANTS
  Conns,          \* connections clients may make
  MaxSockets,     \* bound on max_sockets_ of their socket type
  MaxNumSockets   \* max_num_sockets_

ASSUME SocketsAssumption ==
  IsFiniteSet(Conns) /\ MaxSockets \in Nat \ {0} /\ MaxNumSockets \in Nat \ {0, 1}

VARIABLES
  object,      \* the request: none, waiting (in AddAccept), posted, live, freed
  sd,          \* its socket_descriptor_
  request,     \* its flags
  handler,     \* what HandleHttpRequest does with it
  max_sockets, \* max_sockets_, which StartIPC() sets before Loop()
  num_sockets, \* num_sockets_
  immediate,   \* closures of the worker thread in PRIORITY_IMMEDIATE
  high,        \* and in PRIORITY_HIGH
  peer,        \* the client, by what is there to read from it
  told         \* closed_callback_, which tells the handler that its client went
               \* away: posted to its thread, run while it was at work (yes) or
               \* once it had replied (late)

server_vars == <<object, sd, request, handler, max_sockets, num_sockets,
                 immediate, high, peer, told>>

NewRequest ==
  [read_finished |-> FALSE, timed_out |-> FALSE, inflight |-> FALSE,
   closed |-> FALSE, closed_callback |-> FALSE,
   replied |-> "no"]  \* SendReply() was called: on an open or a closed socket

\* A client connects, may send its request in parts, and leaves: before the
\* request is complete (broken) or after (closed).
Peers == {"away", "connected", "part", "paused", "sent", "broken", "closed"}
Gone(c) == peer[c] \in {"broken", "closed"}

Live(c) == object[c] = "live"
Closure(c, f) == [conn |-> c, run |-> f]
Post(c, f) == high' = Append(high, Closure(c, f)) /\ UNCHANGED immediate
Flag(c, r) == request' = [request EXCEPT ![c] = r]
Descriptor(c, d) == sd' = [sd EXCEPT ![c] = d]

-----------------------------------------------------------------------------
(***************************************************************************)
(* The accept loop.                                                        *)
(***************************************************************************)
TooMany(n) == n > max_sockets \/ n >= MaxNumSockets

\* Mutant: as many sockets as the limit says, and one more.
AddAcceptLate(c) ==
  /\ object[c] = "none" /\ \A b \in Conns : object[b] # "waiting"
  /\ num_sockets' = num_sockets + 1
  /\ object' = [object EXCEPT ![c] = IF TooMany(num_sockets) THEN "waiting"
                                                             ELSE "posted"]
  /\ IF TooMany(num_sockets) THEN UNCHANGED <<high, immediate>>
                             ELSE Post(c, "Start")
  /\ peer' = [peer EXCEPT ![c] = "connected"]
  /\ UNCHANGED <<max_sockets, sd, request, handler, told>>

\* Loop() accepts a connection, AddAccept() counts it and waits there if there
\* are too many, SendJobToWorkerThread() posts Start().
AddAccept(c) ==
  /\ object[c] = "none" /\ \A b \in Conns : object[b] # "waiting"
  /\ num_sockets' = num_sockets + 1
  /\ object' = [object EXCEPT ![c] = IF TooMany(num_sockets') THEN "waiting"
                                                              ELSE "posted"]
  /\ IF TooMany(num_sockets') THEN UNCHANGED <<high, immediate>>
                              ELSE Post(c, "Start")
  /\ peer' = [peer EXCEPT ![c] = "connected"]
  /\ UNCHANGED <<max_sockets, sd, request, handler, told>>

\* RemoveAccept() of another request woke AddAccept() up.
Accepted(c) ==
  /\ object[c] = "waiting" /\ ~TooMany(num_sockets)
  /\ object' = [object EXCEPT ![c] = "posted"]
  /\ Post(c, "Start")
  /\ UNCHANGED <<max_sockets, sd, request, handler, num_sockets, peer, told>>

-----------------------------------------------------------------------------
(***************************************************************************)
(* Replies.  SendReply() is called on the thread of the request.           *)
(***************************************************************************)
Reply(r) == [r EXCEPT !.replied = IF r.closed THEN "closed" ELSE "open"]

\* Mutant: a reply to a closed socket is dropped.
SendReplyDropped(c, r, d, q, i) ==
  /\ Flag(c, Reply(r))
  /\ Descriptor(c, IF r.closed THEN d ELSE NotifyWhenWritable(d, "DoWrite"))
  /\ immediate' = i /\ high' = q

\* r, d, q and i are the request, its descriptor and the queues at the call.
SendReply(c, r, d, q, i) ==
  /\ Flag(c, Reply(r))
  /\ IF r.closed
     THEN immediate' = Append(i, Closure(c, "Finish")) /\ Descriptor(c, d)
     ELSE immediate' = i /\ Descriptor(c, NotifyWhenWritable(d, "DoWrite"))
  /\ high' = q

-----------------------------------------------------------------------------
(***************************************************************************)
(* Closures of the worker thread.  Each is run with its entry taken off    *)
(* the queue: q and i are the queues then, d the descriptor.               *)
(***************************************************************************)
same == <<object, handler, max_sockets, num_sockets, peer, told>>
Enqueue(q, i, c, f) == high' = Append(q, Closure(c, f)) /\ immediate' = i

\* Registers the socket on this thread.
Start(c, d, q, i) ==
  /\ object' = [object EXCEPT ![c] = "live"]
  /\ Descriptor(c, NotifyWhenTimedout(NotifyWhenReadable(d, "DoRead"),
                                      "DoTimeout"))
  /\ high' = q /\ immediate' = i
  /\ UNCHANGED <<max_sockets, request, handler, num_sockets, peer, told>>

\* Reads until the request is complete or the socket closed.
DoRead(c, d, q, i) ==
  \/ /\ request[c].timed_out
     /\ Descriptor(c, d) /\ high' = q /\ immediate' = i
     /\ UNCHANGED <<request, same>>
  \/ /\ ~request[c].timed_out /\ peer[c] = "part"
     /\ peer' = [peer EXCEPT ![c] = "paused"]
     /\ Descriptor(c, d) /\ high' = q /\ immediate' = i
     /\ UNCHANGED <<max_sockets, request, object, handler, num_sockets, told>>
  \/ /\ ~request[c].timed_out /\ peer[c] # "part"
     /\ Descriptor(c, StopRead(d))
     /\ Flag(c, [request[c] EXCEPT !.read_finished = TRUE])
     /\ Enqueue(q, i, c, IF peer[c] = "broken" THEN "DoCheckClosed"
                                              ELSE "ReadFinished")
     /\ UNCHANGED same

DoTimeout(c, d, q, i) ==
  IF request[c].read_finished
  THEN /\ Descriptor(c, d) /\ high' = q /\ immediate' = i
       /\ UNCHANGED <<request, same>>
  ELSE /\ Descriptor(c, StopWrite(StopRead(d)))
       /\ Flag(c, [request[c] EXCEPT !.timed_out = TRUE])
       /\ Enqueue(q, i, c, "Finish")
       /\ UNCHANGED same

\* HandleIncoming() answers an invalid request, and the pages of the dashboard,
\* on the spot; an Exec request goes to the compile service.
ReadFinished(c, d, q, i) ==
  LET r == [request[c] EXCEPT !.inflight = TRUE]
      e == ClearTimeout(ClearReadable(d))
  IN  /\ \/ SendReply(c, r, e, q, i) /\ UNCHANGED handler
         \/ /\ Flag(c, r) /\ Descriptor(c, e) /\ high' = q /\ immediate' = i
            /\ handler' = [handler EXCEPT ![c] = "started"]
      /\ UNCHANGED <<max_sockets, object, num_sockets, peer, told>>

NotifyWhenClosedInternal(c, d, q, i) ==
  /\ Flag(c, [request[c] EXCEPT !.closed_callback = TRUE])
  /\ Descriptor(c, NotifyWhenReadable(d, "DoCheckClosed"))
  /\ high' = q /\ immediate' = i
  /\ UNCHANGED same

\* The client has sent something more, or has closed the socket.
DoCheckClosed(c, d, q, i) ==
  /\ Descriptor(c, StopWrite(StopRead(d)))
  /\ Enqueue(q, i, c, "DoClosed")
  /\ UNCHANGED <<request, same>>

\* Mutant: the object is deleted though a handler still refers to it.
DoClosedForgetsHandler(c, d, q, i) ==
  /\ Flag(c, [request[c] EXCEPT !.closed = TRUE, !.closed_callback = FALSE])
  /\ Descriptor(c, ClearWritable(ClearReadable(d)))
  /\ high' = q /\ immediate' = Append(i, Closure(c, "Finish"))
  /\ UNCHANGED same

\* closed_callback_ is posted to the thread of the handler; the object is kept
\* for a handler that has yet to call SendReply().
DoClosed(c, d, q, i) ==
  /\ Flag(c, [request[c] EXCEPT !.closed = TRUE, !.closed_callback = FALSE])
  /\ Descriptor(c, ClearWritable(ClearReadable(d)))
  /\ told' = [told EXCEPT ![c] = IF request[c].closed_callback THEN "posted"
                                                              ELSE @]
  /\ high' = q
  /\ immediate' = IF request[c].inflight THEN i
                                         ELSE Append(i, Closure(c, "Finish"))
  /\ UNCHANGED <<max_sockets, object, handler, num_sockets, peer>>

\* Writes all of the response, or fails.  (When it writes a part, or has to try
\* again, nothing changes and the next poll calls it again.)
DoWrite(c, d, q, i) ==
  /\ Descriptor(c, StopWrite(d))
  /\ \/ Enqueue(q, i, c, "WriteFinished")
     \/ Gone(c) /\ Enqueue(q, i, c, "Finish")
  /\ UNCHANGED <<request, same>>

\* Shuts the sending side down and waits for the client to close.
WriteFinished(c, d, q, i) ==
  /\ Descriptor(c, NotifyWhenReadable(ClearWritable(d), "DoReadEOF"))
  /\ high' = q /\ immediate' = i
  /\ UNCHANGED <<request, same>>

DoReadEOF(c, d, q, i) ==
  /\ Descriptor(c, StopRead(d))
  /\ Enqueue(q, i, c, "Finish")
  /\ UNCHANGED <<request, same>>

\* Mutant: RemoveAccept() is called by the destructor too.
FinishTwice(c, d, q, i) ==
  /\ object' = [object EXCEPT ![c] = "freed"]
  /\ num_sockets' = num_sockets - 2
  /\ high' = q /\ immediate' = i
  /\ UNCHANGED <<max_sockets, sd, request, handler, peer, told>>

\* Deletes the request with its descriptor and calls RemoveAccept().
Finish(c, d, q, i) ==
  /\ object' = [object EXCEPT ![c] = "freed"]
  /\ num_sockets' = num_sockets - 1
  /\ high' = q /\ immediate' = i
  /\ UNCHANGED <<max_sockets, sd, request, handler, peer, told>>

\* CompilerProxyHttpHandler::ExecDone().
ExecDone(c, d, q, i) ==
  /\ SendReply(c, request[c], d, q, i)
  /\ UNCHANGED same

\* A callback of the descriptor that is not wanted any more.
Nothing(c, d, q, i) ==
  /\ Descriptor(c, d) /\ high' = q /\ immediate' = i
  /\ UNCHANGED <<request, same>>

Run(f, c, d, q, i) ==
  CASE f = "Start" -> Start(c, d, q, i)
    [] f = "DoRead" -> DoRead(c, d, q, i)
    [] f = "DoTimeout" -> DoTimeout(c, d, q, i)
    [] f = "ReadFinished" -> ReadFinished(c, d, q, i)
    [] f = "NotifyWhenClosedInternal" -> NotifyWhenClosedInternal(c, d, q, i)
    [] f = "DoCheckClosed" -> DoCheckClosed(c, d, q, i)
    [] f = "DoClosed" -> DoClosed(c, d, q, i)
    [] f = "DoWrite" -> DoWrite(c, d, q, i)
    [] f = "WriteFinished" -> WriteFinished(c, d, q, i)
    [] f = "DoReadEOF" -> DoReadEOF(c, d, q, i)
    [] f = "Finish" -> Finish(c, d, q, i)
    [] f = "ExecDone" -> ExecDone(c, d, q, i)
    [] OTHER -> Nothing(c, d, q, i)

\* A closure at the head of a queue: one of the request, or a callback of its
\* descriptor.
RunEntry(e, q, i) ==
  LET d == sd[e.conn] IN
  CASE e.run = "readable" ->
         Run(IF d.active_read THEN d.read_in_queue ELSE "none", e.conn,
             TookReadable(d), q, i)
    [] e.run = "writable" ->
         Run(IF d.active_write THEN d.write_in_queue ELSE "none", e.conn,
             TookWritable(d), q, i)
    [] e.run = "timedout" ->
         Run(IF TimeoutWanted(d) THEN d.timeout_closure ELSE "none", e.conn,
             TookTimeout(d, TimeoutWanted(d)), q, i)
    [] OTHER -> Run(e.run, e.conn, d, q, i)

RunImmediate ==
  immediate # <<>> /\ RunEntry(Head(immediate), high, Tail(immediate))

RunHigh ==
  immediate = <<>> /\ high # <<>> /\ RunEntry(Head(high), Tail(high), <<>>)

\* A part of a request, the rest of it, or EOF.
Readable(c) ==
  peer[c] = "part" \/ (peer[c] = "sent" /\ ~request[c].read_finished) \/ Gone(c)

\* What PollEvents() queues for a socket: the callbacks of its events, and the
\* timeout if there is none.
Polled(c, late) ==
  LET d == sd[c]
      r == Readable(c) /\ HasReadableClosure(d)
      w == HasWritableClosure(d)
      t == ~r /\ ~w /\ late /\ HasTimeoutClosure(d)
      e == IF r THEN QueueReadable(d) ELSE d
      f == IF w THEN QueueWritable(e) ELSE e
  IN  [sd |-> IF t THEN QueueTimeout(f) ELSE f,
       run |-> (IF r THEN {"readable"} ELSE {}) \cup (IF w THEN {"writable"} ELSE {})
               \cup (IF t THEN {"timedout"} ELSE {})]

\* Socket by socket, in any order, and of a socket first the callback to read.
Enumerated(q) ==
  \A c \in Conns, n \in DOMAIN q :
    q[n] = Closure(c, "writable") /\ Closure(c, "readable") \in ToSet(q)
      => n > 1 /\ q[n - 1] = Closure(c, "readable")

Poll ==
  /\ immediate = <<>> /\ high = <<>>
  /\ \E late \in SUBSET {c \in Conns : Live(c)} :
       LET event(c) == Polled(c, c \in late)
           queued == UNION {{Closure(c, f) : f \in event(c).run} :
                              c \in {b \in Conns : Live(b)}}
       IN  /\ queued # {}
           /\ sd' = [c \in Conns |-> IF Live(c) THEN event(c).sd ELSE sd[c]]
           /\ high' \in {q \in SetToSeqs(queued) : Enumerated(q)}
  /\ UNCHANGED <<max_sockets, object, request, handler, num_sockets, immediate,
                 peer, told>>

-----------------------------------------------------------------------------
(***************************************************************************)
(* The handler's thread and the client.                                    *)
(***************************************************************************)
\* CompileTask::Start() asks to be told when the client goes away.
NotifyWhenClosed(c) ==
  /\ handler[c] = "started"
  /\ handler' = [handler EXCEPT ![c] = "running"]
  /\ Post(c, "NotifyWhenClosedInternal")
  /\ UNCHANGED <<max_sockets, object, sd, request, num_sockets, peer, told>>

\* closed_callback_ (CompileTask::GomaccClosed) runs on the handler's thread, which
\* may have gone on to reply since it was posted.
ClosedCallback(c) ==
  /\ told[c] = "posted"
  /\ told' = [told EXCEPT ![c] = IF handler[c] = "done" THEN "late" ELSE "yes"]
  /\ UNCHANGED <<max_sockets, object, sd, request, handler, num_sockets,
                 immediate, high, peer>>

\* CompileTask::ReplyResponse() posts the reply with PRIORITY_IMMEDIATE.
HandlerDone(c) ==
  /\ handler[c] = "running"
  /\ handler' = [handler EXCEPT ![c] = "done"]
  /\ immediate' = Append(immediate, Closure(c, "ExecDone"))
  /\ UNCHANGED <<max_sockets, object, sd, request, num_sockets, high, peer, told>>

PeerSends(c) ==
  /\ peer[c] \in {"connected", "part", "paused"}
  /\ peer' = [peer EXCEPT ![c] = "sent"]
  /\ UNCHANGED <<max_sockets, object, sd, request, handler, num_sockets,
                 immediate, high, told>>

PeerSendsPart(c) ==
  /\ peer[c] = "connected"
  /\ peer' = [peer EXCEPT ![c] = "part"]
  /\ UNCHANGED <<max_sockets, object, sd, request, handler, num_sockets,
                 immediate, high, told>>

PeerCloses(c) ==
  /\ peer[c] # "away" /\ ~Gone(c)
  /\ peer' = [peer EXCEPT ![c] = IF @ = "sent" THEN "closed" ELSE "broken"]
  /\ UNCHANGED <<max_sockets, object, sd, request, handler, num_sockets,
                 immediate, high, told>>

-----------------------------------------------------------------------------
ServerInit ==
  /\ object = [c \in Conns |-> "none"]
  /\ sd = [c \in Conns |-> NewDescriptor]
  /\ request = [c \in Conns |-> NewRequest]
  /\ handler = [c \in Conns |-> "none"]
  /\ max_sockets \in 1..MaxSockets
  /\ num_sockets = 0
  /\ immediate = <<>> /\ high = <<>>
  /\ peer = [c \in Conns |-> "away"]
  /\ told = [c \in Conns |-> "no"]

Worker == RunImmediate \/ RunHigh \/ Poll

ServerNext ==
  \/ Worker
  \/ \E c \in Conns : \/ AddAccept(c) \/ Accepted(c)
                      \/ NotifyWhenClosed(c) \/ ClosedCallback(c)
                      \/ HandlerDone(c)
                      \/ PeerSends(c) \/ PeerSendsPart(c) \/ PeerCloses(c)

ServerSpec == ServerInit /\ [][ServerNext]_server_vars

\* The worker thread goes on; a waiting accept loop is woken up; compile tasks
\* end (EveryTaskIsDone of CompileTask); a client that has been answered closes
\* its socket.  A client need not send its request.
ServerFairness ==
  /\ WF_server_vars(Worker)
  /\ \A c \in Conns :
       /\ WF_server_vars(Accepted(c))
       /\ WF_server_vars(NotifyWhenClosed(c)) /\ WF_server_vars(HandlerDone(c))
       /\ WF_server_vars(PeerCloses(c) /\ sd[c].readable = "DoReadEOF")

-----------------------------------------------------------------------------
(***************************************************************************)
(* Properties.                                                             *)
(***************************************************************************)
\* The type invariant of the server.
ServerTypeOK ==
  /\ object \in [Conns -> {"none", "waiting", "posted", "live", "freed"}]
  /\ handler \in [Conns -> {"none", "started", "running", "done"}]
  /\ peer \in [Conns -> Peers]
  /\ told \in [Conns -> {"no", "posted", "yes", "late"}]
  /\ max_sockets \in 1..MaxSockets /\ num_sockets \in 0..Cardinality(Conns)
  /\ DOMAIN sd = Conns /\ DOMAIN request = Conns

queue == immediate \o high
Entries(c) == {n \in DOMAIN queue : queue[n].conn = c}
HandlerHolds(c) == handler[c] \in {"started", "running"}

\* A request and its descriptor are not used after they were deleted: closures
\* and handlers refer to live requests only, a request is deleted when nothing
\* of it is queued (the CHECKs of ~SocketDescriptor), and no callback runs a
\* closure that ClearReadable, ClearWritable or a new one has replaced.
NoUseAfterFree ==
  \A c \in Conns :
    /\ Entries(c) # {} \/ HandlerHolds(c) => object[c] \in {"posted", "live"}
    /\ \A n \in Entries(c) : queue[n].run = "Finish"
         => Entries(c) = {n} /\ NothingQueued(sd[c]) /\ ~HandlerHolds(c)
    /\ CallbacksAlive(sd[c])

\* Nothing will ever call this request again.
Stranded(c) ==
  /\ Live(c) /\ Entries(c) = {} /\ ~HandlerHolds(c)
  /\ ~HasReadableClosure(sd[c]) /\ ~HasWritableClosure(sd[c])

\* SendReply() is to "Send response and delete this object"
\* (threadpool_http_server.h): a request that has been answered is on its way to
\* Finish().
ReplyDeletes == \A c \in Conns : request[c].replied # "no" => ~Stranded(c)

\* num_sockets_ counts the requests that are not deleted, and no more than the
\* limits allow are being served.  A request keeps its slot for ever only in
\* one race: the client goes away after SendReply() and before the response is
\* written.  DoClosed() then takes the write callback away and leaves the object
\* to a handler that is through, and that will be told after its reply.  A
\* handler that is told in time has its reply sent to no client: SendReply() finds
\* closed_ and deletes the request.
AcceptExact ==
  LET serving == Cardinality({c \in Conns : object[c] \in {"posted", "live"}})
  IN  /\ num_sockets = serving
           + Cardinality({c \in Conns : object[c] = "waiting"})
      /\ serving <= max_sockets /\ serving < MaxNumSockets
      /\ \A c \in Conns :
           /\ Stranded(c) => /\ request[c].replied = "open" /\ request[c].closed
                             /\ told[c] \in {"posted", "late"}
           /\ told[c] # "no" => request[c].closed
           /\ told[c] = "yes" => request[c].replied # "open"

\* Every connection was served and deleted, also those that waited to be accepted,
\* unless a request is stranded.
ConnectionsEnded ==
  (\A c \in Conns : object[c] \in {"none", "freed"}) \/ (\E c \in Conns : Stranded(c))
==============================================================================
