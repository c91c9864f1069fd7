--------------------------- MODULE WsppConnection ---------------------------
(***************************************************************************)
(* One client connection of the vendored websocketpp library, as           *)
(* WebSocketClient uses it: the io_service loop that runs the handlers,    *)
(* the connection's state, the outgoing queue shared with the application  *)
(* thread, the read loop and the termination path.                         *)
(*                                                                         *)
(* Every action without a sender is one handler run by the loop; they are  *)
(* serialised by the connection's strand.  The three Send actions are the  *)
(* steps of connection::send on the application's thread, which shares     *)
(* only m_connection_state_lock and m_write_lock with the loop.  A frame's *)
(* bytes are abstracted to its opcode and the body the application reads.  *)
(***************************************************************************)
EXTENDS Naturals, Sequences

CONSTANTS
  Data,         \* the payloads the application sends
  Bodies,       \* the payloads the peer sends in text frames
  MaxArrivals,  \* bound: frames the peer sends in one behaviour
  MaxPushes     \* bound: queued messages after which nothing more is sent

Control == {"pong", "close", "abort"}

ASSUME ConnectionAssumption ==
  /\ Data \cap Control = {}
  /\ MaxArrivals \in Nat
  /\ MaxPushes \in Nat

Messages == Data \cup Control

\* "invalid" stands for any bytes that hybi13's consume() rejects.
Frames == [op : {"text"}, body : Bodies] \cup [op : {"ping", "close", "invalid"}]

NoCall == [handler |-> "none"]
Callbacks == [handler : {"none", "open", "fail"}]
               \cup [handler : {"message"}, body : Bodies]

NoSender == [at |-> "idle"]
Senders == [at : {"idle", "post"}] \cup [at : {"push"}, msg : Data]

VARIABLES
  loop,            \* io_service::run: "off", "running" or "returned"
  stopped,         \* io_service::stop was called
  m_state,         \* session::state
  socket_up,       \* the transport's shutdown has not completed
  shutdowns,       \* async_shutdown calls pending, by their terminate_status
  m_handshake_timer, \* the close handshake timer is armed
  reading,         \* an asynchronous read is outstanding
  buffered,        \* frames in m_buf that handle_read_frame still has to consume
  inbox,           \* frames on their way from the peer, m_buf's first
  arrivals,        \* frames the peer has sent so far
  m_send_queue, m_write_flag, m_current_msgs,
  posted,          \* write_frame handlers dispatched and not yet run
  wire,            \* messages the peer receives, in order
  pushed,          \* history: the arguments of write_push, in order
  callback,        \* the application handler the loop is in
  verdicts,        \* history: which of the open and fail handlers were called
  sender           \* position of the application's thread in connection::send

loopVars  == <<loop, stopped>>
stateVars == <<m_state, socket_up, shutdowns, m_handshake_timer>>
readVars  == <<reading, buffered, inbox, arrivals>>
queueVars == <<m_send_queue, pushed>>
writeVars == <<m_write_flag, m_current_msgs, wire>>
callVars  == <<callback, verdicts>>
connVars  == <<loopVars, stateVars, readVars, queueVars, writeVars, posted,
               callVars, sender>>

ConnInit ==
  /\ loop = "off" /\ stopped = FALSE
  /\ m_state = "connecting" /\ socket_up = TRUE
  /\ shutdowns = {} /\ m_handshake_timer = FALSE
  /\ reading = FALSE /\ buffered = 0 /\ inbox = <<>> /\ arrivals = 0
  /\ m_send_queue = <<>> /\ m_write_flag = FALSE /\ m_current_msgs = <<>>
  /\ posted = 0 /\ wire = <<>> /\ pushed = <<>>
  /\ callback = NoCall /\ verdicts = {}
  /\ sender = NoSender

-----------------------------------------------------------------------------
(* The loop.  Idle is where it may pick the next handler; Consuming is     *)
(* inside handle_read_frame's while loop, which runs to its end even after *)
(* stop().                                                                 *)

Running   == loop = "running" /\ callback = NoCall
Idle      == Running /\ ~stopped /\ buffered = 0
Consuming == Running /\ buffered > 0

Connect ==
  /\ loop = "off"
  /\ loop' = "running"
  /\ UNCHANGED <<stopped, stateVars, readVars, queueVars, writeVars, posted,
                 callVars, sender>>

Stop ==
  /\ stopped' = TRUE
  /\ UNCHANGED <<loop, stateVars, readVars, queueVars, writeVars, posted,
                 callVars, sender>>

OutOfWork == /\ m_state = "closed" /\ shutdowns = {}
             /\ ~reading /\ posted = 0 /\ m_current_msgs = <<>>

LoopReturns ==
  /\ Running /\ buffered = 0
  /\ stopped \/ OutOfWork
  /\ loop' = "returned"
  /\ UNCHANGED <<stopped, stateVars, readVars, queueVars, writeVars, posted,
                 callVars, sender>>

HandlerReturns ==
  /\ callback # NoCall
  /\ callback' = NoCall
  /\ UNCHANGED <<loopVars, stateVars, readVars, queueVars, writeVars, posted,
                 verdicts, sender>>

Call(c) == /\ callback' = c
           /\ verdicts' = verdicts \cup ({c.handler} \cap {"open", "fail"})

-----------------------------------------------------------------------------
(* terminate() and the application-visible end of a connection.            *)

Terminate ==
  IF m_state = "closed"
  THEN UNCHANGED <<m_state, shutdowns>> /\ m_handshake_timer' = FALSE
  ELSE /\ m_state' = "closed"
       /\ m_handshake_timer' = FALSE
       /\ shutdowns' = shutdowns \cup
            {IF m_state = "connecting" THEN "failed" ELSE "closed"}

\* Mutant: the socket is not shut down.
HandleTerminateKeepsSocket ==
  /\ Idle
  /\ \E tstat \in shutdowns :
       /\ shutdowns' = shutdowns \ {tstat}
       /\ IF tstat = "failed" THEN Call([handler |-> "fail"])
                              ELSE UNCHANGED callVars
  /\ UNCHANGED <<loopVars, m_state, socket_up, m_handshake_timer, readVars,
                 queueVars, writeVars, posted, sender>>

HandleTerminate ==
  /\ Idle
  /\ \E tstat \in shutdowns :
       /\ shutdowns' = shutdowns \ {tstat}
       /\ IF tstat = "failed" THEN Call([handler |-> "fail"])
                              ELSE UNCHANGED callVars
  /\ socket_up' = FALSE
  /\ UNCHANGED <<loopVars, m_state, m_handshake_timer, readVars, queueVars,
                 writeVars, posted, sender>>

CloseTimeout ==
  /\ Idle /\ m_handshake_timer
  /\ Terminate
  /\ UNCHANGED <<loopVars, socket_up, readVars, queueVars, writeVars, posted,
                 callVars, sender>>

-----------------------------------------------------------------------------
(* The outgoing queue.                                                     *)

\* Mutant: a control frame overtakes the messages that are queued.
PushInFront(msg) ==
  /\ m_send_queue' = <<msg>> \o m_send_queue
  /\ pushed' = Append(pushed, msg)
  /\ posted' = IF m_write_flag THEN posted ELSE posted + 1

\* write_push under m_write_lock, by a handler of the loop, which dispatches
\* write_frame when no write is outstanding.
PushFromLoop(msg) ==
  /\ m_send_queue' = Append(m_send_queue, msg)
  /\ pushed' = Append(pushed, msg)
  /\ posted' = IF m_write_flag THEN posted ELSE posted + 1

\* The first n messages of q are what write_frame takes: all of them, or up to
\* the first one marked terminal.
IsBatch(q, n) == /\ \A i \in 1..(n - 1) : q[i] # "abort"
                 /\ n = Len(q) \/ q[n] = "abort"

\* Mutant: the write flag is not looked at.
WriteFrameUnchecked ==
  /\ Idle /\ posted > 0
  /\ posted' = posted - 1
  /\ IF m_send_queue = <<>>
     THEN UNCHANGED <<queueVars, writeVars>>
     ELSE \E n \in 1..Len(m_send_queue) :
            /\ IsBatch(m_send_queue, n)
            /\ m_current_msgs' = SubSeq(m_send_queue, 1, n)
            /\ m_send_queue' = SubSeq(m_send_queue, n + 1, Len(m_send_queue))
            /\ m_write_flag' = TRUE
            /\ UNCHANGED <<pushed, wire>>
  /\ UNCHANGED <<loopVars, stateVars, readVars, callVars, sender>>

WriteFrame ==
  /\ Idle /\ posted > 0
  /\ posted' = posted - 1
  /\ IF m_write_flag \/ m_send_queue = <<>>
     THEN UNCHANGED <<queueVars, writeVars>>
     ELSE \E n \in 1..Len(m_send_queue) :
            /\ IsBatch(m_send_queue, n)
            /\ m_current_msgs' = SubSeq(m_send_queue, 1, n)
            /\ m_send_queue' = SubSeq(m_send_queue, n + 1, Len(m_send_queue))
            /\ m_write_flag' = TRUE
            /\ UNCHANGED <<pushed, wire>>
  /\ UNCHANGED <<loopVars, stateVars, readVars, callVars, sender>>

\* Mutant: the completion of a write does not look at the queue.
WriteOkNoDispatch ==
  /\ Idle /\ m_current_msgs # <<>> /\ socket_up
  /\ wire' = wire \o m_current_msgs
  /\ m_current_msgs' = <<>>
  /\ IF m_current_msgs[Len(m_current_msgs)] = "abort"
     THEN /\ Terminate
          /\ UNCHANGED <<m_write_flag, posted>>
     ELSE /\ m_write_flag' = FALSE
          /\ UNCHANGED <<posted, m_state, shutdowns, m_handshake_timer>>
  /\ UNCHANGED <<loopVars, socket_up, readVars, queueVars, callVars, sender>>

WriteOk ==
  /\ Idle /\ m_current_msgs # <<>> /\ socket_up
  /\ wire' = wire \o m_current_msgs
  /\ m_current_msgs' = <<>>
  /\ IF m_current_msgs[Len(m_current_msgs)] = "abort"
     THEN /\ Terminate
          /\ UNCHANGED <<m_write_flag, posted>>
     ELSE /\ m_write_flag' = FALSE
          /\ posted' = IF m_send_queue = <<>> THEN posted ELSE posted + 1
          /\ UNCHANGED <<m_state, shutdowns, m_handshake_timer>>
  /\ UNCHANGED <<loopVars, socket_up, readVars, queueVars, callVars, sender>>

\* The transport reports an error: any number of the messages may have reached
\* the peer before it.  m_write_flag stays set.
WriteError ==
  /\ Idle /\ m_current_msgs # <<>>
  /\ \E k \in 0..Len(m_current_msgs) :
       wire' = wire \o SubSeq(m_current_msgs, 1, k)
  /\ m_current_msgs' = <<>>
  /\ Terminate
  /\ UNCHANGED <<loopVars, socket_up, readVars, queueVars, m_write_flag, posted,
                 callVars, sender>>

(* connection::send on the application's thread: the state is checked and  *)
(* its lock released, the message is pushed under the write lock, and      *)
(* write_frame is dispatched after that lock is released.                  *)

SendCheck(msg) ==
  /\ Len(pushed) < MaxPushes
  /\ sender = NoSender
  /\ m_state = "open"
  /\ sender' = [at |-> "push", msg |-> msg]
  /\ UNCHANGED <<loopVars, stateVars, readVars, queueVars, writeVars, posted,
                 callVars>>

\* Mutant: send() leaves the writing to the next completion.
SendPushNoDispatch ==
  /\ sender.at = "push"
  /\ m_send_queue' = Append(m_send_queue, sender.msg)
  /\ pushed' = Append(pushed, sender.msg)
  /\ sender' = NoSender
  /\ UNCHANGED <<loopVars, stateVars, readVars, writeVars, posted, callVars>>

SendPush ==
  /\ sender.at = "push"
  /\ m_send_queue' = Append(m_send_queue, sender.msg)
  /\ pushed' = Append(pushed, sender.msg)
  /\ sender' = IF m_write_flag THEN NoSender ELSE [at |-> "post"]
  /\ UNCHANGED <<loopVars, stateVars, readVars, writeVars, posted, callVars>>

SendPost ==
  /\ sender.at = "post"
  /\ posted' = posted + 1
  /\ sender' = NoSender
  /\ UNCHANGED <<loopVars, stateVars, readVars, queueVars, writeVars, callVars>>

-----------------------------------------------------------------------------
(* The opening handshake's outcome.                                        *)

\* handle_read_http_response accepts the response and calls the open handler;
\* the bytes that came with it are frames that handle_read_frame then consumes.
OpenOk ==
  /\ Idle /\ m_state = "connecting"
  /\ m_state' = "open"
  /\ Call([handler |-> "open"])
  /\ \E n \in 0..Len(inbox) : buffered' = n
  /\ reading' = (buffered' = 0)
  /\ UNCHANGED <<loopVars, socket_up, shutdowns, m_handshake_timer, inbox,
                 arrivals, queueVars, writeVars, posted, sender>>

\* Extension negotiation failed: terminate() is called, and the handler goes on
\* to the code of OpenOk because no return follows it.
OpenBadExtensions ==
  /\ Idle /\ m_state = "connecting"
  /\ m_state' = "open"
  /\ shutdowns' = shutdowns \cup {"failed"}
  /\ m_handshake_timer' = FALSE
  /\ Call([handler |-> "open"])
  /\ \E n \in 0..Len(inbox) : buffered' = n
  /\ reading' = (buffered' = 0)
  /\ UNCHANGED <<loopVars, socket_up, inbox, arrivals, queueVars, writeVars,
                 posted, sender>>

\* Any step of the handshake fails or times out.
OpenFail ==
  /\ Idle /\ m_state = "connecting"
  /\ Terminate
  /\ UNCHANGED <<loopVars, socket_up, readVars, queueVars, writeVars, posted,
                 callVars, sender>>

-----------------------------------------------------------------------------
(* The read loop.                                                          *)

PeerSends(frame) ==
  /\ arrivals < MaxArrivals /\ m_state # "closed" /\ socket_up
  /\ loop # "off"
  /\ inbox' = Append(inbox, frame)
  /\ arrivals' = arrivals + 1
  /\ UNCHANGED <<loopVars, stateVars, reading, buffered, queueVars, writeVars,
                 posted, callVars, sender>>

ReadCompletes ==
  /\ Idle /\ reading /\ inbox # <<>> /\ socket_up
  /\ \E n \in 1..Len(inbox) : buffered' = n
  /\ reading' = FALSE
  /\ UNCHANGED <<loopVars, stateVars, inbox, arrivals, queueVars, writeVars,
                 posted, callVars, sender>>

\* End of file or any other transport error.
ReadError ==
  /\ Idle /\ reading
  /\ reading' = FALSE
  /\ Terminate
  /\ UNCHANGED <<loopVars, socket_up, buffered, inbox, arrivals, queueVars,
                 writeVars, posted, callVars, sender>>

\* One turn of the while loop; read_frame() is called after the last one.
Consume(op) ==
  /\ Consuming /\ inbox[1].op = op
  /\ inbox' = Tail(inbox)
  /\ buffered' = buffered - 1
  /\ reading' = (buffered = 1)
  /\ UNCHANGED <<loopVars, socket_up, shutdowns, arrivals, writeVars, sender>>

\* Mutant: data is dispatched in any state.
ReadTextAlways ==
  /\ Consume("text")
  /\ Call([handler |-> "message", body |-> inbox[1].body])
  /\ UNCHANGED <<m_state, m_handshake_timer, queueVars, posted>>

ReadText ==
  /\ Consume("text")
  /\ IF m_state = "open"
     THEN Call([handler |-> "message", body |-> inbox[1].body])
     ELSE UNCHANGED callVars
  /\ UNCHANGED <<m_state, m_handshake_timer, queueVars, posted>>

ReadPing ==
  /\ Consume("ping")
  /\ IF m_state = "open" THEN PushFromLoop("pong")
                         ELSE UNCHANGED <<queueVars, posted>>
  /\ UNCHANGED <<m_state, m_handshake_timer, callVars>>

\* Mutant: no timer is armed for the closing handshake.
ReadCloseNoTimer ==
  /\ Consume("close")
  /\ IF m_state = "open"
     THEN m_state' = "closing" /\ PushFromLoop("close")
     ELSE UNCHANGED <<m_state, queueVars, posted>>
  /\ UNCHANGED <<m_handshake_timer, callVars>>

\* send_close_ack: a client's acknowledgement is not marked terminal.
ReadClose ==
  /\ Consume("close")
  /\ IF m_state = "open"
     THEN /\ m_state' = "closing"
          /\ m_handshake_timer' = TRUE
          /\ PushFromLoop("close")
     ELSE UNCHANGED <<m_state, m_handshake_timer, queueVars, posted>>
  /\ UNCHANGED callVars

\* A protocol error: close() queues a terminal close frame when the connection
\* is open and terminate() runs when it is not; nothing is read any more.
ReadInvalid ==
  /\ Consuming /\ inbox[1].op = "invalid"
  /\ inbox' = SubSeq(inbox, buffered + 1, Len(inbox))
  /\ buffered' = 0
  /\ IF m_state = "open"
     THEN /\ m_state' = "closing"
          /\ m_handshake_timer' = TRUE
          /\ PushFromLoop("abort")
          /\ UNCHANGED shutdowns
     ELSE /\ Terminate
          /\ UNCHANGED <<queueVars, posted>>
  /\ UNCHANGED <<loopVars, socket_up, reading, arrivals, writeVars, callVars,
                 sender>>

-----------------------------------------------------------------------------
(* The connection on its own: any application thread and any peer.         *)

LoopStep ==
  \/ WriteFrame \/ WriteOk \/ WriteError
  \/ OpenOk \/ OpenBadExtensions \/ OpenFail
  \/ ReadCompletes \/ ReadError
  \/ ReadText \/ ReadPing \/ ReadClose \/ ReadInvalid
  \/ CloseTimeout \/ HandleTerminate \/ LoopReturns

AppStep ==
  \/ Connect
  \/ \E msg \in Data : SendCheck(msg)
  \/ SendPush \/ SendPost
  \/ HandlerReturns
  \/ Stop

ConnNext == LoopStep \/ AppStep \/ \E frame \in Frames : PeerSends(frame)

\* asio runs every ready handler, a transport write ends in success or in an
\* error, a read fails once the transport is shut down, timers expire, and the
\* application's calls and handlers return.  Nothing is assumed of the peer.
ConnFairness ==
  /\ WF_connVars(Connect) /\ WF_connVars(HandlerReturns)
  /\ WF_connVars(SendPush) /\ WF_connVars(SendPost)
  /\ WF_connVars(WriteFrame) /\ WF_connVars(WriteOk \/ WriteError)
  /\ WF_connVars(ReadCompletes) /\ WF_connVars(~socket_up /\ ReadError)
  /\ WF_connVars(ReadText) /\ WF_connVars(ReadPing)
  /\ WF_connVars(ReadClose) /\ WF_connVars(ReadInvalid)
  /\ WF_connVars(CloseTimeout) /\ WF_connVars(HandleTerminate)
  /\ WF_connVars(LoopReturns)

ConnSafety == ConnInit /\ [][ConnNext]_connVars

ConnSpec == ConnSafety /\ ConnFairness

-----------------------------------------------------------------------------
ConnTypeOK ==
  /\ loop \in {"off", "running", "returned"}
  /\ stopped \in BOOLEAN
  /\ m_state \in {"connecting", "open", "closing", "closed"}
  /\ socket_up \in BOOLEAN
  /\ shutdowns \in SUBSET {"failed", "closed"}
  /\ m_handshake_timer \in BOOLEAN
  /\ reading \in BOOLEAN
  /\ inbox \in Seq(Frames)
  /\ buffered \in 0..Len(inbox)
  /\ arrivals \in 0..MaxArrivals
  /\ m_send_queue \in Seq(Messages)
  /\ m_write_flag \in BOOLEAN
  /\ m_current_msgs \in Seq(Messages)
  /\ posted \in Nat
  /\ wire \in Seq(Messages)
  /\ pushed \in Seq(Messages)
  /\ callback \in Callbacks
  /\ verdicts \in SUBSET {"open", "fail"}
  /\ sender \in Senders

\* A queued message always has somebody who will write it: while the connection
\* is not closed, either a write is outstanding (its completion looks at the
\* queue again), or a write_frame is dispatched, or the sending thread is about
\* to dispatch one.  The check of m_write_flag in send() and the one in
\* handle_write_frame run in different threads.
NoStrandedMessage ==
  m_send_queue # <<>> =>
    m_write_flag \/ posted > 0 \/ sender.at = "post"

\* The write flag is given up only by the completion of a write that leaves the
\* connection open: a set flag with nothing in flight means it was closed.
FlagHeldByWrite ==
  /\ m_current_msgs # <<>> => m_write_flag
  /\ m_write_flag /\ m_current_msgs = <<>> => m_state = "closed"

\* What the peer has received is what write_push was given, in that order,
\* nothing skipped or repeated, whatever the threads, the errors and the close
\* frames did in between.
InOrder ==
  /\ Len(wire) <= Len(pushed)
  /\ wire = SubSeq(pushed, 1, Len(wire))

\* No open or message handler is entered by a step of a closed connection:
\* frames that were buffered when it closed do not reach the application.
NoCallAfterClose ==
  [][callback'.handler \in {"open", "message"} /\ callback' # callback
       => m_state # "closed"]_connVars

\* transport/base/connection.hpp: "Websocket++ promises to have only one
\* async_write in flight at a time": a write's messages change only by its
\* completion.
OneWriteInFlight ==
  [][m_current_msgs # <<>> => m_current_msgs' \in {m_current_msgs, <<>>}]_connVars

\* websocketpp/connection.hpp on open_handler and fail_handler: "Either the fail
\* handler or the open handler will be called for each WebSocket connection
\* attempt."
OpenOrFail == verdicts # {"open", "fail"}

\* Every queued message is written unless the connection closes or is stopped.
QueueDrains ==
  m_send_queue # <<>> ~> (m_send_queue = <<>> \/ m_state = "closed" \/ stopped)

\* A closing handshake ends, with or without the peer: client code relies on the
\* timer because it does not drop the TCP connection after its acknowledgement.
ClosingEnds == m_state = "closing" ~> (m_state = "closed" \/ stopped)

\* run() returns after the connection closes or the endpoint is stopped, so a
\* thread that joins the loop's thread is released.
LoopEnds == (m_state = "closed" \/ stopped) /\ loop = "running" ~> loop = "returned"
=============================================================================
