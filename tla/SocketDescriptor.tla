-------------------------- MODULE SocketDescriptor ---------------------------
(***************************************************************************)
(* SocketDescriptor (client/socket_descriptor.cc): the closures a worker   *)
(* thread runs when a socket is readable, writable or timed out.           *)
(*                                                                         *)
(* A descriptor is a record and each of its methods an operator on it.     *)
(* Only the thread that made a descriptor uses it.  A queued callback      *)
(* keeps a pointer to the closure it was made for; the record remembers    *)
(* which one in read_in_queue and write_in_queue ("none": not in a queue), *)
(* so that a callback to a closure deleted since can be seen.              *)
(***************************************************************************)
EXTENDS Integers

NewDescriptor ==
  [readable |-> "none", writable |-> "none",
   timeout |-> FALSE, timeout_closure |-> "none",
   read_in_queue |-> "none", write_in_queue |-> "none",
   timeout_in_queue |-> FALSE, active_read |-> FALSE, active_write |-> FALSE]

\* The closure that was set before is deleted.
NotifyWhenReadable(d, f) == [d EXCEPT !.readable = f, !.active_read = TRUE]
NotifyWhenWritable(d, f) == [d EXCEPT !.writable = f, !.active_write = TRUE]
NotifyWhenTimedout(d, f) == [d EXCEPT !.timeout = TRUE, !.timeout_closure = f]
ClearReadable(d) == [d EXCEPT !.readable = "none", !.active_read = FALSE]
ClearWritable(d) == [d EXCEPT !.writable = "none", !.active_write = FALSE]
ClearTimeout(d) == [d EXCEPT !.timeout = FALSE, !.timeout_closure = "none"]

\* The closure stays, and so does a callback in the queue, which will find that
\* it is not wanted.
StopRead(d) == [d EXCEPT !.active_read = FALSE]
StopWrite(d) == [d EXCEPT !.active_write = FALSE]
RestartWrite(d) == [d EXCEPT !.active_write = TRUE]

\* GetReadableClosure(), GetWritableClosure() and GetTimeoutClosure() return a
\* callback if there is one to run and it is not in the queue already.  A socket
\* is timed out only if nothing else of it is queued.
HasReadableClosure(d) ==
  d.active_read /\ d.readable # "none" /\ d.read_in_queue = "none"
HasWritableClosure(d) ==
  d.active_write /\ d.writable # "none" /\ d.write_in_queue = "none"
HasTimeoutClosure(d) ==
  /\ d.timeout
  /\ d.read_in_queue = "none" /\ d.write_in_queue = "none" /\ ~d.timeout_in_queue
  /\ d.active_read \/ d.active_write

QueueReadable(d) == [d EXCEPT !.read_in_queue = d.readable]
QueueWritable(d) == [d EXCEPT !.write_in_queue = d.writable]
QueueTimeout(d) == [d EXCEPT !.timeout_in_queue = TRUE]

\* RunCallback() takes the mark off and runs the closure if it is still wanted;
\* TimeoutClosure() gives the closure of the user away: it runs once.
TookReadable(d) == [d EXCEPT !.read_in_queue = "none"]
TookWritable(d) == [d EXCEPT !.write_in_queue = "none"]
TookTimeout(d, fires) ==
  [d EXCEPT !.timeout_in_queue = FALSE,
            !.timeout_closure = IF fires THEN "none" ELSE @]
TimeoutWanted(d) ==
  /\ d.active_read \/ d.active_write
  /\ d.read_in_queue = "none" /\ d.write_in_queue = "none"
  /\ d.timeout /\ d.timeout_closure # "none"

\* The CHECKs of ~SocketDescriptor().
NothingQueued(d) ==
  d.read_in_queue = "none" /\ d.write_in_queue = "none" /\ ~d.timeout_in_queue

\* No callback in a queue will run a closure that was deleted in the meantime.
CallbacksAlive(d) ==
  /\ d.read_in_queue # "none" /\ d.active_read => d.read_in_queue = d.readable
  /\ d.write_in_queue # "none" /\ d.active_write => d.write_in_queue = d.writable
==============================================================================
