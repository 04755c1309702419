------------------------------ MODULE Transport ------------------------------
(***************************************************************************)
(* The stdio session of the MCP server: src/mcp/transport.rs together with *)
(* the part of main.rs that serves it.  Four tasks of one current-thread   *)
(* runtime share the Lifecycle cell:                                       *)
(*                                                                         *)
(*   - the service loop of RMCP, which polls `receive` inside a select,    *)
(*     runs the handlers and hands their responses to `send`;              *)
(*   - the writer task, the only place that touches stdout;                *)
(*   - the termination spawned when an `exit` line is read;                *)
(*   - main, which returns when the service loop has ended.                *)
(*                                                                         *)
(* RMCP is a library outside the repository.  What is used of it here is   *)
(* what the comments of transport.rs say of it: one cancellation token per *)
(* request id (`pool`), a response is sent only by the holder of its id's  *)
(* token, the future of `receive` is dropped whenever another arm of the   *)
(* select is ready, and `receive` returning None ends the loop and then    *)
(* runs `close`.  The handshake is not serialised, so the model has every  *)
(* interleaving RMCP allows and some it does not.                          *)
(*                                                                         *)
(* A line is read whole here; framing is module LineReader.  Notifications *)
(* and log messages are frames that answer nothing (PeerSend).             *)
(***************************************************************************)
EXTENDS Naturals, Sequences, FiniteSets

CONSTANTS
  Ids,       \* the request ids a client may use
  NoId,      \* "no id": notifications, and frames that answer nothing
  ReuseIds,  \* whether the client may send a request id a second time
  MaxQueue   \* bound: nothing is read or sent unasked while the queue is full

ASSUME ConstantsAssumption ==
  /\ NoId \notin Ids
  /\ ReuseIds \in BOOLEAN
  /\ MaxQueue \in Nat

VARIABLES
  initialized,  \* Lifecycle.initialized
  shutdown,     \* Lifecycle.shutdown
  writeFailed,  \* Lifecycle.write_failed
  permit,       \* the stored wakeup of Lifecycle.write_failed_signal
  inFlight,     \* Lifecycle.in_flight, the ids still owed a response
  attached,     \* the lifecycle and the transport still hold the queue's sender
  queue,        \* frames not settled yet; the head is the one being written
  writer,       \* the writer task: "open", "wrote" (head is out), "ended"
  reader,       \* receive: "reading", "draining", "parked", "over"
  deadline,     \* StdioTransport.drain_deadline: "none", "running", "passed"
  eof,          \* the client has closed its end of stdin
  handshake,    \* an initialize request has reached its handler
  pool,         \* RMCP: ids with a cancellation token, served and unanswered
  session,      \* RMCP's loop: "open", "closing", "closed"
  terminator,   \* terminate(): "none", "spawned", "flushing", "acked"
  process,      \* "up", "exited" (process::exit), "returned" (main)
  status        \* the process's exit status

\* History variables: they are read by properties only, never by a guard
\* (`dispatched` is also how a client keeps its request ids unique).
VARIABLES
  dispatched,   \* ids of the requests handed to RMCP
  waived,       \* ids owed nothing: cancelled, or with no encodable response
  onWire,       \* ids whose response was written
  ackQueued,    \* shutdown's acknowledgement was queued before exit was read
  ackOnWire,    \* shutdown's acknowledgement was written
  shutAtExit,   \* the value of shutdown when exit was read
  timedOut,     \* terminate() gave up on the queue
  ending        \* why receive returned None

lifecycleVars == <<initialized, shutdown, writeFailed, permit, inFlight>>
queueVars == <<attached, queue, writer>>
readerVars == <<reader, deadline, eof>>
rmcpVars == <<handshake, pool, session>>
exitVars == <<terminator, process, status>>
historyVars == <<dispatched, waived, onWire, ackQueued, ackOnWire, shutAtExit,
                 timedOut, ending>>
vars == <<lifecycleVars, queueVars, readerVars, rmcpVars, exitVars, historyVars>>

Frame == [kind : {"response", "plain", "ack", "sentinel"},
          answers : Ids \cup {NoId}]

Plain == [kind |-> "plain", answers |-> NoId]
Ack == [kind |-> "ack", answers |-> NoId]
Sentinel == [kind |-> "sentinel", answers |-> NoId]
Response(i) == [kind |-> "response", answers |-> i]

\* The ids a sequence of frames answers.
Answered(frames) == {frames[k].answers : k \in DOMAIN frames} \ {NoId}

Init ==
  /\ initialized = FALSE /\ shutdown = FALSE /\ writeFailed = FALSE
  /\ permit = FALSE /\ inFlight = {}
  /\ attached = TRUE /\ queue = <<>> /\ writer = "open"
  /\ reader = "reading" /\ deadline = "none" /\ eof = FALSE
  /\ handshake = FALSE /\ pool = {} /\ session = "open"
  /\ terminator = "none" /\ process = "up" /\ status = 0
  /\ dispatched = {} /\ waived = {} /\ onWire = {}
  /\ ackQueued = FALSE /\ ackOnWire = FALSE
  /\ shutAtExit = FALSE /\ timedOut = FALSE /\ ending = "none"

-----------------------------------------------------------------------------
(***************************************************************************)
(* The gate: what happens to one envelope before RMCP sees it.             *)
(***************************************************************************)

Requests == {"initialize", "server/discover", "ping", "tools/call", "shutdown"}

\* The envelopes a client can send: requests, shutdown and exit also as
\* notifications, and a cancellation, which a careless client gives an id.
\* `declares` is a self-declaring _meta, `of` the request a cancellation names.
Lines ==
  [method : Requests, id : Ids, declares : BOOLEAN, of : {NoId}]
  \cup [method : {"shutdown", "exit"}, id : {NoId}, declares : {FALSE}, of : {NoId}]
  \cup [method : {"notifications/cancelled"}, id : Ids \cup {NoId},
        declares : BOOLEAN, of : Ids]

\* A request is answered by the framing layer, a notification is dropped.
Answer(l) == IF l.id = NoId THEN "Drop" ELSE "Reply"

Gate(l) ==
  IF l.method = "exit" THEN "Exit"
  ELSE IF shutdown THEN Answer(l)
  ELSE IF l.method = "notifications/cancelled" /\ l.id # NoId THEN "Reply"
  ELSE IF l.method = "shutdown" THEN "Shutdown"
  ELSE IF \/ l.method \in {"initialize", "server/discover"}
          \/ l.declares
          \/ initialized
       THEN "Forward"
  ELSE IF l.method = "notifications/cancelled" THEN "Drop"
  ELSE Answer(l)

-----------------------------------------------------------------------------
(***************************************************************************)
(* Queueing a frame.  The channel is unbounded; once the writer has closed *)
(* its end the send is refused and the frame is gone.                      *)
(***************************************************************************)
Enqueue(frame) ==
  queue' = IF writer = "ended" THEN queue ELSE Append(queue, frame)

\* receive is being polled on stdin, and stdout has not failed under it: the
\* select in read_line_unless_write_failed is biased towards the failure.
Polled == process = "up" /\ session = "open" /\ reader = "reading"
MayRead == Polled /\ ~permit /\ ~eof /\ Len(queue) < MaxQueue

\* receive returns None: RMCP leaves its loop and nothing is served any more.
\* The termination is a task already in the run queue of this single thread
\* when stdin or stdout next wakes the service loop, so it is polled first.
EndSession(why) ==
  /\ terminator # "spawned"
  /\ session' = "closing"
  /\ reader' = "over"
  /\ ending' = why
  /\ pool' = {}

-----------------------------------------------------------------------------
(***************************************************************************)
(* receive: one action per outcome of reading a line.                      *)
(***************************************************************************)

\* Mutant: only a session with a handshake counts what it dispatches.
ForwardCountedIfInitialized(l) ==
  /\ MayRead /\ Gate(l) = "Forward" /\ l.id # NoId
  /\ ReuseIds \/ l.id \notin dispatched
  /\ inFlight' = IF initialized THEN inFlight \cup {l.id} ELSE inFlight
  /\ pool' = pool \cup {l.id}
  /\ dispatched' = dispatched \cup {l.id}
  /\ handshake' = IF l.method = "initialize" THEN TRUE ELSE handshake
  /\ UNCHANGED <<initialized, shutdown, writeFailed, permit, queueVars,
                 readerVars, session, exitVars, waived, onWire, ackQueued,
                 ackOnWire, shutAtExit, timedOut, ending>>

\* Forwarded: accept_request for a request, retire_request for a cancellation,
\* both before RMCP is handed the message.  RMCP then starts a handler for the
\* one and takes the token of the other.
ForwardRequest(l) ==
  /\ MayRead /\ Gate(l) = "Forward" /\ l.id # NoId
  /\ ReuseIds \/ l.id \notin dispatched
  /\ inFlight' = inFlight \cup {l.id}
  /\ pool' = pool \cup {l.id}
  /\ dispatched' = dispatched \cup {l.id}
  /\ handshake' = IF l.method = "initialize" THEN TRUE ELSE handshake
  /\ UNCHANGED <<initialized, shutdown, writeFailed, permit, queueVars,
                 readerVars, session, exitVars, waived, onWire, ackQueued,
                 ackOnWire, shutAtExit, timedOut, ending>>

ForwardCancelled(l) ==
  /\ MayRead /\ Gate(l) = "Forward" /\ l.id = NoId
  /\ inFlight' = inFlight \ {l.of}
  /\ pool' = pool \ {l.of}
  /\ waived' = waived \cup ({l.of} \cap dispatched)
  /\ UNCHANGED <<initialized, shutdown, writeFailed, permit, queueVars,
                 readerVars, handshake, session, exitVars, dispatched, onWire,
                 ackQueued, ackOnWire, shutAtExit, timedOut, ending>>

\* Answered by the framing layer: a request the gate refuses, an envelope RMCP
\* cannot model, an oversize line, bytes that are not UTF-8 or not JSON-RPC.
ReadRefused ==
  /\ MayRead
  /\ Enqueue(Plain)
  /\ UNCHANGED <<lifecycleVars, attached, writer, readerVars, rmcpVars,
                 exitVars, historyVars>>

\* shutdown closes the gate before anything else is read; the acknowledgement
\* is only owed to a shutdown sent as a request.
ReadShutdown(l) ==
  /\ MayRead /\ Gate(l) = "Shutdown"
  /\ shutdown' = TRUE
  /\ IF l.id = NoId THEN UNCHANGED queue ELSE Enqueue(Ack)
  /\ ackQueued' = IF l.id # NoId /\ terminator = "none" /\ writer # "ended"
                  THEN TRUE ELSE ackQueued
  /\ UNCHANGED <<initialized, writeFailed, permit, inFlight, attached, writer,
                 readerVars, rmcpVars, exitVars, dispatched, waived, onWire,
                 ackOnWire, shutAtExit, timedOut, ending>>

\* exit spawns the termination and parks the read.  A second exit line spawns
\* a second task, which queues behind the first and changes nothing.
ReadExit(l) ==
  /\ MayRead /\ Gate(l) = "Exit"
  /\ reader' = "parked"
  /\ terminator' = IF terminator = "none" THEN "spawned" ELSE terminator
  /\ shutAtExit' = IF terminator = "none" THEN shutdown ELSE shutAtExit
  /\ UNCHANGED <<lifecycleVars, queueVars, deadline, eof, rmcpVars, process,
                 status, dispatched, waived, onWire, ackQueued, ackOnWire,
                 timedOut, ending>>

\* A line with no end in sight is answered and gives the stream up; a read
\* error gives it up in silence.  Neither waits for the handlers.
ReadUnreadable ==
  /\ MayRead
  /\ Enqueue(Plain) \/ UNCHANGED queue
  /\ EndSession("unreadable")
  /\ UNCHANGED <<lifecycleVars, attached, writer, deadline, eof, handshake,
                 exitVars, dispatched, waived, onWire, ackQueued, ackOnWire,
                 shutAtExit, timedOut>>

\* A read that finds stdout failed, whether it was already parked or not.
ReadDeadStdout ==
  /\ Polled /\ permit
  /\ permit' = FALSE
  /\ EndSession("dead_stdout")
  /\ UNCHANGED <<initialized, shutdown, writeFailed, inFlight, queueVars,
                 deadline, eof, handshake, exitVars, dispatched, waived, onWire,
                 ackQueued, ackOnWire, shutAtExit, timedOut>>

\* drain_in_flight, in the order it tests.
DrainOver == writeFailed \/ inFlight = {} \/ deadline = "passed"
DrainVerdict == IF writeFailed THEN "dead_stdout"
                ELSE IF inFlight = {} THEN "answered"
                ELSE "deadline"

\* Mutant: every end of input starts the deadline again.
ReadEofRestarts ==
  /\ Polled /\ ~permit /\ eof
  /\ deadline' = "running"
  /\ \/ /\ writeFailed \/ inFlight = {}
        /\ EndSession(DrainVerdict)
     \/ /\ ~writeFailed /\ inFlight # {}
        /\ reader' = "draining"
        /\ UNCHANGED <<session, pool, ending>>
  /\ UNCHANGED <<lifecycleVars, queueVars, eof, handshake, exitVars, dispatched,
                 waived, onWire, ackQueued, ackOnWire, shutAtExit, timedOut>>

\* End of input.  The first one starts the deadline; a drain that has nothing
\* to wait for returns at its first poll.
ReadEof ==
  /\ Polled /\ ~permit /\ eof
  /\ deadline' = IF deadline = "none" THEN "running" ELSE deadline
  /\ \/ /\ DrainOver
        /\ EndSession(DrainVerdict)
     \/ /\ ~DrainOver
        /\ reader' = "draining"
        /\ UNCHANGED <<session, pool, ending>>
  /\ UNCHANGED <<lifecycleVars, queueVars, eof, handshake, exitVars, dispatched,
                 waived, onWire, ackQueued, ackOnWire, shutAtExit, timedOut>>

DrainPoll ==
  /\ process = "up" /\ session = "open" /\ reader = "draining"
  /\ DrainOver
  /\ EndSession(DrainVerdict)
  /\ UNCHANGED <<lifecycleVars, queueVars, deadline, eof, handshake, exitVars,
                 dispatched, waived, onWire, ackQueued, ackOnWire, shutAtExit,
                 timedOut>>

\* DRAIN_TIMEOUT passes.
DrainTimer ==
  /\ process = "up" /\ deadline = "running"
  /\ deadline' = "passed"
  /\ UNCHANGED <<lifecycleVars, queueVars, reader, eof, rmcpVars, exitVars,
                 historyVars>>

-----------------------------------------------------------------------------
(***************************************************************************)
(* RMCP: handlers, send, and what a ready response does to receive.        *)
(***************************************************************************)

\* Another arm of the select is ready: the receive future is dropped and a new
\* one polled.  An unfinished line survives in `raw`, a drain's deadline in
\* `drain_deadline`; a parked read does not survive at all.
Repolled == reader' = IF reader \in {"draining", "parked"} THEN "reading" ELSE reader

\* SdkServer::initialize accepts the revision and opens the gate, before its
\* response exists.  A refusal is a Respond without this step.
InitializeSucceeds ==
  /\ process = "up" /\ session = "open"
  /\ handshake /\ ~initialized
  /\ initialized' = TRUE
  /\ UNCHANGED <<shutdown, writeFailed, permit, inFlight, queueVars, readerVars,
                 rmcpVars, exitVars, historyVars>>

\* Mutant: the request is retired when its handler returns, before its write.
RespondRetires(i) ==
  /\ process = "up" /\ session = "open" /\ i \in pool
  /\ pool' = pool \ {i}
  /\ Enqueue(Response(i))
  /\ inFlight' = inFlight \ {i}
  /\ Repolled
  /\ UNCHANGED <<initialized, shutdown, writeFailed, permit, attached, writer,
                 deadline, eof, handshake, session, exitVars, historyVars>>

\* A handler has finished and its id still has a token: send() queues the
\* response, or retires the id when the queue refuses it.
Respond(i) ==
  /\ process = "up" /\ session = "open" /\ i \in pool
  /\ pool' = pool \ {i}
  /\ Enqueue(Response(i))
  /\ inFlight' = IF writer = "ended" THEN inFlight \ {i} ELSE inFlight
  /\ Repolled
  /\ UNCHANGED <<initialized, shutdown, writeFailed, permit, attached, writer,
                 deadline, eof, handshake, session, exitVars, historyVars>>

\* send() could not encode the response: nothing will be written for this id.
RespondUnencodable(i) ==
  /\ process = "up" /\ session = "open" /\ i \in pool
  /\ pool' = pool \ {i}
  /\ inFlight' = inFlight \ {i}
  /\ waived' = waived \cup {i}
  /\ Repolled
  /\ UNCHANGED <<initialized, shutdown, writeFailed, permit, queueVars,
                 deadline, eof, handshake, session, exitVars, dispatched, onWire,
                 ackQueued, ackOnWire, shutAtExit, timedOut, ending>>

\* A sampling request, a notification or log output of a running handler.
PeerSend ==
  /\ process = "up" /\ session = "open" /\ pool # {}
  /\ Len(queue) < MaxQueue
  /\ Enqueue(Plain)
  /\ Repolled
  /\ UNCHANGED <<lifecycleVars, attached, writer, deadline, eof, rmcpVars,
                 exitVars, historyVars>>

-----------------------------------------------------------------------------
(***************************************************************************)
(* write_outbound.                                                         *)
(***************************************************************************)

\* The head is written and flushed.  The client may act on it before the task
\* resumes, so settling it is a step of its own.
WriteHead ==
  /\ process = "up" /\ writer = "open" /\ queue # <<>>
  /\ writer' = "wrote"
  /\ onWire' = onWire \cup ({Head(queue).answers} \ {NoId})
  /\ ackOnWire' = IF Head(queue).kind = "ack" THEN TRUE ELSE ackOnWire
  /\ UNCHANGED <<lifecycleVars, attached, queue, readerVars, rmcpVars, exitVars,
                 dispatched, waived, ackQueued, shutAtExit, timedOut, ending>>

\* The task resumes: `done` is signalled and the request retired.
SettleHead ==
  /\ process = "up" /\ writer = "wrote"
  /\ writer' = "open"
  /\ queue' = Tail(queue)
  /\ inFlight' = inFlight \ {Head(queue).answers}
  /\ terminator' = IF Head(queue).kind = "sentinel" THEN "acked" ELSE terminator
  /\ UNCHANGED <<initialized, shutdown, writeFailed, permit, attached,
                 readerVars, rmcpVars, process, status, historyVars>>

\* Mutant: the failure wakes the read, but the flag drains poll is not set.
WriteFailsUnflagged ==
  /\ process = "up" /\ writer = "open" /\ queue # <<>>
  /\ permit' = TRUE
  /\ writer' = "ended"
  /\ queue' = <<>>
  /\ inFlight' = inFlight \ Answered(queue)
  /\ terminator' = IF terminator = "flushing" THEN "acked" ELSE terminator
  /\ UNCHANGED <<initialized, shutdown, writeFailed, attached, readerVars, rmcpVars, process,
                 status, historyVars>>

\* Mutant: the flag is set, but a read that is already parked is not woken.
WriteFailsUnsignalled ==
  /\ process = "up" /\ writer = "open" /\ queue # <<>>
  /\ writeFailed' = TRUE
  /\ writer' = "ended"
  /\ queue' = <<>>
  /\ inFlight' = inFlight \ Answered(queue)
  /\ terminator' = IF terminator = "flushing" THEN "acked" ELSE terminator
  /\ UNCHANGED <<initialized, shutdown, permit, attached, readerVars, rmcpVars, process,
                 status, historyVars>>

\* The first failure: the flag and the wakeup are set, the channel is closed,
\* and every frame still queued is settled with the same error.
WriteFails ==
  /\ process = "up" /\ writer = "open" /\ queue # <<>>
  /\ writeFailed' = TRUE
  /\ permit' = TRUE
  /\ writer' = "ended"
  /\ queue' = <<>>
  /\ inFlight' = inFlight \ Answered(queue)
  /\ terminator' = IF terminator = "flushing" THEN "acked" ELSE terminator
  /\ UNCHANGED <<initialized, shutdown, attached, readerVars, rmcpVars, process,
                 status, historyVars>>

\* The queue is empty and every sender is gone; terminate() holds one across
\* its wait.
WriterEnds ==
  /\ process = "up" /\ writer = "open" /\ queue = <<>>
  /\ ~attached
  /\ terminator \notin {"flushing", "acked"}
  /\ writer' = "ended"
  /\ UNCHANGED <<lifecycleVars, attached, queue, readerVars, rmcpVars, exitVars,
                 historyVars>>

-----------------------------------------------------------------------------
(***************************************************************************)
(* terminate, close and main.                                              *)
(***************************************************************************)

\* process::exit, after the exit hook: the hook may panic, the exit is taken.
Exit ==
  /\ process' = "exited"
  /\ status' = IF shutdown THEN 0 ELSE 1

\* Mutant: terminate exits without waiting for the queue.
TerminateAtOnce ==
  /\ process = "up" /\ terminator = "spawned"
  /\ Exit
  /\ UNCHANGED <<lifecycleVars, queueVars, readerVars, rmcpVars, terminator,
                 historyVars>>

\* drain_outbound queues an empty frame behind what is there, unless there is
\* no queue left to wait on.
StartTerminate ==
  /\ process = "up" /\ terminator = "spawned"
  /\ \/ /\ attached /\ writer # "ended"
        /\ queue' = Append(queue, Sentinel)
        /\ terminator' = "flushing"
        /\ UNCHANGED <<process, status>>
     \/ /\ ~attached \/ writer = "ended"
        /\ Exit
        /\ UNCHANGED <<queue, terminator>>
  /\ UNCHANGED <<lifecycleVars, attached, writer, readerVars, rmcpVars,
                 historyVars>>

FlushAcked ==
  /\ process = "up" /\ terminator = "acked"
  /\ Exit
  /\ UNCHANGED <<lifecycleVars, queueVars, readerVars, rmcpVars, terminator,
                 historyVars>>

\* Mutant: the wait has no bound of its own, it ends with the writer.
FlushUnbounded ==
  /\ process = "up" /\ terminator = "flushing" /\ writer = "ended"
  /\ Exit
  /\ timedOut' = TRUE
  /\ UNCHANGED <<lifecycleVars, queueVars, readerVars, rmcpVars, terminator,
                 dispatched, waived, onWire, ackQueued, ackOnWire, shutAtExit,
                 ending>>

\* FLUSH_TIMEOUT passes before the empty frame is settled.
FlushTimeout ==
  /\ process = "up" /\ terminator = "flushing"
  /\ Exit
  /\ timedOut' = TRUE
  /\ UNCHANGED <<lifecycleVars, queueVars, readerVars, rmcpVars, terminator,
                 dispatched, waived, onWire, ackQueued, ackOnWire, shutAtExit,
                 ending>>

\* close() drops both senders, then waits for the writer.
Close ==
  /\ process = "up" /\ session = "closing" /\ attached
  /\ attached' = FALSE
  /\ UNCHANGED <<lifecycleVars, queue, writer, readerVars, rmcpVars, exitVars,
                 historyVars>>

\* The same timeout bounds the wait.  A termination that is already flushing
\* started its own earlier, so that one fires first.
CloseJoined ==
  /\ process = "up" /\ session = "closing" /\ ~attached
  /\ writer = "ended" \/ terminator = "none"
  /\ session' = "closed"
  /\ UNCHANGED <<lifecycleVars, queueVars, readerVars, handshake, pool, exitVars,
                 historyVars>>

\* The service loop's task has ended and main returns.  A termination that has
\* been woken is ahead of main in the run queue.
MainReturns ==
  /\ process = "up" /\ session = "closed"
  /\ terminator # "acked"
  /\ process' = "returned"
  /\ status' = 0
  /\ UNCHANGED <<lifecycleVars, queueVars, readerVars, rmcpVars, terminator,
                 historyVars>>

\* The client closes its end of stdin.
CloseStdin ==
  /\ process = "up" /\ ~eof
  /\ eof' = TRUE
  /\ UNCHANGED <<lifecycleVars, queueVars, reader, deadline, rmcpVars, exitVars,
                 historyVars>>

Gone == process # "up" /\ UNCHANGED vars

-----------------------------------------------------------------------------
Receive ==
  \/ \E l \in Lines : \/ ForwardRequest(l)
                      \/ ForwardCancelled(l)
                      \/ ReadShutdown(l)
                      \/ ReadExit(l)
  \/ ReadRefused
  \/ ReadUnreadable
  \/ ReadDeadStdout
  \/ ReadEof
  \/ DrainPoll

Handlers ==
  \/ InitializeSucceeds
  \/ PeerSend
  \/ \E i \in Ids : Respond(i) \/ RespondUnencodable(i)

Writer == WriteHead \/ SettleHead \/ WriteFails \/ WriterEnds

Ending == StartTerminate \/ FlushAcked \/ FlushTimeout
          \/ Close \/ CloseJoined \/ MainReturns

Next == Receive \/ Handlers \/ Writer \/ Ending
        \/ DrainTimer \/ CloseStdin \/ Gone

\* What the runtime's scheduler and clock guarantee: a task that is ready runs
\* and a timer fires.  Nothing is assumed of the client (lines, end of input,
\* reading what is written) nor of the handlers.
Fairness ==
  /\ WF_vars(ReadDeadStdout) /\ WF_vars(ReadEof) /\ WF_vars(DrainPoll)
  /\ WF_vars(DrainTimer)
  /\ WF_vars(StartTerminate) /\ WF_vars(FlushAcked) /\ WF_vars(FlushTimeout)
  /\ WF_vars(Close) /\ WF_vars(CloseJoined) /\ WF_vars(MainReturns)

Spec == Init /\ [][Next]_vars
FairSpec == Spec /\ Fairness

-----------------------------------------------------------------------------
(***************************************************************************)
(* Properties.                                                             *)
(***************************************************************************)

LifecycleTypes ==
  /\ initialized \in BOOLEAN /\ shutdown \in BOOLEAN
  /\ writeFailed \in BOOLEAN /\ permit \in BOOLEAN
  /\ inFlight \in SUBSET Ids

QueueTypes ==
  /\ attached \in BOOLEAN
  /\ queue \in Seq(Frame)
  /\ writer \in {"open", "wrote", "ended"}
  /\ writer = "wrote" => queue # <<>>

SessionTypes ==
  /\ reader \in {"reading", "draining", "parked", "over"}
  /\ deadline \in {"none", "running", "passed"}
  /\ eof \in BOOLEAN /\ handshake \in BOOLEAN
  /\ pool \in SUBSET Ids
  /\ session \in {"open", "closing", "closed"}
  /\ terminator \in {"none", "spawned", "flushing", "acked"}
  /\ process \in {"up", "exited", "returned"}
  /\ status \in {0, 1}

HistoryTypes ==
  /\ dispatched \in SUBSET Ids /\ waived \in SUBSET Ids
  /\ onWire \in SUBSET Ids
  /\ ackQueued \in BOOLEAN /\ ackOnWire \in BOOLEAN
  /\ shutAtExit \in BOOLEAN /\ timedOut \in BOOLEAN
  /\ ending \in {"none", "unreadable", "dead_stdout", "answered", "deadline"}

TypeOK == LifecycleTypes /\ QueueTypes /\ SessionTypes /\ HistoryTypes

\* "Everything dispatched before it is already counted" (drain_in_flight): a
\* request RMCP is still going to answer is in the set end of input waits on.
OwedIsCounted == pool \subseteq inFlight

\* The same words taken at their place, with a stdout that still works: once
\* the client has ended its input, every request that will be answered is
\* counted.  A client that uses an id twice breaks it.
CountedAtEndOfInput == eof /\ ~writeFailed => pool \subseteq inFlight

\* A session that ended because nothing was owed any more has written the
\* response of every request it handed to RMCP, except those the client
\* cancelled and those that have no encodable response.
EofLosesNothing == ending = "answered" => dispatched \subseteq onWire \cup waived

\* The process that terminates on exit has first written the acknowledgement
\* of a shutdown read before it, unless stdout broke or the client did not
\* read for FLUSH_TIMEOUT.
ShutdownIsAcknowledged ==
  process = "exited" /\ ackQueued /\ ~timedOut /\ ~writeFailed => ackOnWire

\* Once exit has been read the process ends in terminate(), with its exit hook
\* and its status, whatever end of input or a dead stdout does meanwhile.
ExitHasOneOwner == terminator # "none" /\ process # "up" => process = "exited"

\* A session whose stdout is gone hands no request to RMCP, and neither does
\* one that has read shutdown.
NothingMoreAccepted ==
  [][writeFailed \/ shutdown => dispatched' = dispatched]_vars

\* A dead stdout ends the process even while the client keeps stdin open and
\* says nothing.
DeadStdoutEndsProcess == writeFailed ~> process # "up"

\* End of input ends the process, however long a handler runs, however often a
\* response restarts the drain, and whether or not the client reads.
EofEndsProcess == eof ~> process # "up"

\* So does exit, even when the client reads nothing any more.
ExitEndsProcess == terminator # "none" ~> process # "up"

\* What Lifecycle::exit_code says of itself: "0 when `shutdown` came first, 1
\* otherwise".
StatusIsOrderly ==
  process = "exited" => (status = 0 <=> shutAtExit)

-----------------------------------------------------------------------------
(***************************************************************************)
(* The session implements RequestLedger.                                   *)
(***************************************************************************)

Account ==
  [i \in Ids |-> IF i \in onWire THEN "answered"
                 ELSE IF i \in waived THEN "waived"
                 ELSE IF i \in dispatched THEN "owed"
                 ELSE "new"]

Closed == CASE ending = "none" -> "open"
            [] ending = "answered" -> "orderly"
            [] OTHER -> "broken"

Ledger == INSTANCE RequestLedger WITH account <- Account, closed <- Closed

\* Every step of the session is one step of the ledger or none: no request is
\* taken after the end, answered before it was accepted or answered twice, and
\* the session that waits at end of input owes nothing when it closes.
ImplementsLedger == Ledger!Spec

-----------------------------------------------------------------------------
(***************************************************************************)
(* The inductive invariant behind the safety properties, for a client that *)
(* keeps its request ids unique.                                           *)
(***************************************************************************)

Sentinels == {k \in DOMAIN queue : queue[k].kind = "sentinel"}

\* A queued response left RMCP's pool, and its id is one RMCP was handed.
QueueInv ==
  \A k \in DOMAIN queue :
    /\ queue[k].answers \in dispatched \cup {NoId}
    /\ queue[k].answers \notin pool

\* While stdout lives, what is neither answered nor waived is counted.
CountedInv ==
  /\ pool \subseteq inFlight
  /\ inFlight \subseteq dispatched
  /\ waived \subseteq dispatched
  /\ onWire \subseteq dispatched
  /\ ~writeFailed => dispatched \subseteq onWire \cup waived \cup inFlight

\* A written head has been recorded; the writer only ends once the session is
\* over or stdout has failed, and never while a termination waits on it.
WriterInv ==
  /\ writer = "wrote" =>
       /\ Head(queue).answers \in onWire \cup {NoId}
       /\ Head(queue).kind = "ack" => ackOnWire
  /\ writer = "ended" => queue = <<>> /\ (writeFailed \/ ~attached)
  /\ terminator = "flushing" => writer # "ended"

SessionInv ==
  /\ session = "open" <=> ending = "none"
  /\ ending = "answered" => dispatched \subseteq onWire \cup waived
  /\ ~attached => session # "open"
  /\ writeFailed /\ session = "open" => permit
  /\ session = "closed" => terminator \in {"none", "acked"}
  /\ terminator = "spawned" /\ process = "up" => session = "open"

\* The empty frame is behind the acknowledgement it waits for.
FlushInv ==
  /\ terminator \in {"none", "spawned"} => Sentinels = {}
  /\ ackQueued /\ ~writeFailed =>
       \/ ackOnWire
       \/ /\ terminator # "acked"
          /\ \E k \in DOMAIN queue : /\ queue[k].kind = "ack"
                                     /\ \A j \in Sentinels : k < j

IInv ==
  /\ QueueInv /\ CountedInv /\ WriterInv /\ SessionInv /\ FlushInv
  /\ ShutdownIsAcknowledged /\ ExitHasOneOwner

=============================================================================
