--------------------------- MODULE WebSocketClient ---------------------------
(***************************************************************************)
(* class WebSocketClient: the handlers that run on websocket_thread and    *)
(* the calls the main thread makes, interleaved at every access to shared  *)
(* state.  The connection underneath is module WsppConnection; a handler   *)
(* occupies its loop from the call to HandlerReturns.                      *)
(*                                                                         *)
(* main_pc is where the main thread is inside a call of this class;        *)
(* "idle" is between calls.  A cv.wait is the steps wait_lock (acquire     *)
(* mtx), wait_test (evaluate the predicate), wait_block (release mtx and   *)
(* sleep, atomically) and wait_sleep.                                      *)
(***************************************************************************)
EXTENDS WsppConnection

CONSTANT Names  \* the object names uploads announce

\* A body as on_message sees it: the "message" field of a JSON object, "other"
\* for any value the code does not look for; "unparsable" is not JSON and
\* "throws" is JSON that root.get or asString rejects with an exception.
Kinds == {"source_upload", "user_upload", "other", "unparsable", "throws"}

\* The value audio_source_name has before the first upload.
NoName == ""

\* A std::string read while another thread is assigning it.
Torn == "torn"

ASSUME ClientAssumption ==
  /\ Bodies \subseteq [message : Kinds, name : Names]
  /\ Torn \notin Names

VARIABLES
  connected,          \* std::atomic<bool>
  hdl_global,         \* whether it refers to the connection
  mtx,                \* who holds it: "free", "main" or "loop"
  condition_met,
  audio_source_name,
  handler_pc,         \* position in on_open or on_message
  main_pc,
  joinable,           \* websocket_thread.joinable()
  process             \* "up" or "aborted" (std::terminate)

clientVars == <<connected, hdl_global, mtx, condition_met, audio_source_name,
                handler_pc, main_pc, joinable, process>>
vars == <<connVars, clientVars>>

Waiting  == {"wait_lock", "wait_test", "wait_block", "wait_sleep"}
MainPcs  == {"idle", "sending", "reset_lock", "reset_clear", "join", "destroy",
             "destroyed"} \cup Waiting
HandlerPcs == {"start", "opened", "assign", "lock", "set", "notify"}

Init ==
  /\ ConnInit
  /\ connected = FALSE /\ hdl_global = FALSE
  /\ mtx = "free" /\ condition_met = FALSE
  /\ audio_source_name = NoName
  /\ handler_pc = "start" /\ main_pc = "idle"
  /\ joinable = FALSE /\ process = "up"

-----------------------------------------------------------------------------
(* Handlers, on websocket_thread.                                          *)

Return == HandlerReturns /\ handler_pc' = "start"

\* Mutant: on_open sets connected first.
OnOpenConnectedFirst ==
  /\ callback.handler = "open" /\ handler_pc = "start"
  /\ connected' = TRUE
  /\ handler_pc' = "opened"
  /\ UNCHANGED <<connVars, hdl_global, mtx, condition_met, audio_source_name,
                 main_pc, joinable, process>>

OnOpenHdl ==
  /\ callback.handler = "open" /\ handler_pc = "start"
  /\ hdl_global' = TRUE
  /\ handler_pc' = "opened"
  /\ UNCHANGED <<connVars, connected, mtx, condition_met, audio_source_name,
                 main_pc, joinable, process>>

OnOpenConnected ==
  /\ callback.handler = "open" /\ handler_pc = "opened"
  /\ connected' = TRUE
  /\ Return
  /\ UNCHANGED <<hdl_global, mtx, condition_met, audio_source_name, main_pc,
                 joinable, process>>

\* Mutant: on_fail waits for a connection.
OnFailWaits ==
  /\ callback.handler = "fail" /\ connected
  /\ Return
  /\ UNCHANGED <<connected, hdl_global, mtx, condition_met, audio_source_name,
                 main_pc, joinable, process>>

OnFail ==
  /\ callback.handler = "fail"
  /\ Return
  /\ UNCHANGED <<connected, hdl_global, mtx, condition_met, audio_source_name,
                 main_pc, joinable, process>>

IsUpload(body) == body.message \in {"source_upload", "user_upload"}

OnMessageIgnored ==
  /\ callback.handler = "message" /\ handler_pc = "start"
  /\ callback.body.message \in {"other", "unparsable"}
  /\ Return
  /\ UNCHANGED <<connected, hdl_global, mtx, condition_met, audio_source_name,
                 main_pc, joinable, process>>

\* Nothing between the handler and the thread's function catches it.
OnMessageThrows ==
  /\ callback.handler = "message" /\ handler_pc = "start"
  /\ callback.body.message = "throws"
  /\ process' = "aborted"
  /\ UNCHANGED <<connVars, connected, hdl_global, mtx, condition_met,
                 audio_source_name, handler_pc, main_pc, joinable>>

\* The assignment of audio_source_name is outside mtx: it begins, and ends.
OnMessageAssign ==
  /\ callback.handler = "message" /\ handler_pc = "start"
  /\ IsUpload(callback.body)
  /\ audio_source_name' = Torn
  /\ handler_pc' = "assign"
  /\ UNCHANGED <<connVars, connected, hdl_global, mtx, condition_met, main_pc,
                 joinable, process>>

\* Mutant: the wrong field of the message is kept.
OnMessageAssignedKind ==
  /\ handler_pc = "assign"
  /\ audio_source_name' = callback.body.message
  /\ handler_pc' = "lock"
  /\ UNCHANGED <<connVars, connected, hdl_global, mtx, condition_met, main_pc,
                 joinable, process>>

OnMessageAssigned ==
  /\ handler_pc = "assign"
  /\ audio_source_name' = callback.body.name
  /\ handler_pc' = "lock"
  /\ UNCHANGED <<connVars, connected, hdl_global, mtx, condition_met, main_pc,
                 joinable, process>>

\* Mutant: condition_met is set without mtx.
OnMessageUnlocked ==
  /\ handler_pc = "lock"
  /\ handler_pc' = "set"
  /\ UNCHANGED <<connVars, connected, hdl_global, mtx, condition_met,
                 audio_source_name, main_pc, joinable, process>>

OnMessageLock ==
  /\ handler_pc = "lock" /\ mtx = "free"
  /\ mtx' = "loop"
  /\ handler_pc' = "set"
  /\ UNCHANGED <<connVars, connected, hdl_global, condition_met,
                 audio_source_name, main_pc, joinable, process>>

OnMessageSet ==
  /\ handler_pc = "set"
  /\ condition_met' = TRUE
  /\ mtx' = "free"
  /\ handler_pc' = "notify"
  /\ UNCHANGED <<connVars, connected, hdl_global, audio_source_name, main_pc,
                 joinable, process>>

\* Mutant: nobody is notified.
OnMessageNoNotify ==
  /\ handler_pc = "notify"
  /\ main_pc' = main_pc
  /\ Return
  /\ UNCHANGED <<connected, hdl_global, mtx, condition_met, audio_source_name,
                 joinable, process>>

\* cv.notify_one: the main thread is the only one that ever waits.
OnMessageNotify ==
  /\ handler_pc = "notify"
  /\ main_pc' = IF main_pc = "wait_sleep" THEN "wait_lock" ELSE main_pc
  /\ Return
  /\ UNCHANGED <<connected, hdl_global, mtx, condition_met, audio_source_name,
                 joinable, process>>

Handler ==
  \/ OnOpenHdl \/ OnOpenConnected \/ OnFail
  \/ OnMessageIgnored \/ OnMessageThrows
  \/ OnMessageAssign \/ OnMessageAssigned \/ OnMessageLock \/ OnMessageSet
  \/ OnMessageNotify

-----------------------------------------------------------------------------
(* Calls of the main thread.                                               *)

\* connect() with a URI that get_connection accepts.  With any other URI it
\* returns false and changes nothing.
ClientConnect ==
  /\ main_pc = "idle"
  /\ Connect
  /\ joinable' = TRUE
  /\ UNCHANGED <<connected, hdl_global, mtx, condition_met, audio_source_name,
                 handler_pc, main_pc, process>>

\* send_message returns false when this is not so; endpoint::send finds no
\* connection when hdl_global is unset, connection::send none that is open.
CanSend == connected /\ hdl_global /\ m_state = "open"

SendMessage(msg) ==
  /\ main_pc = "idle" /\ CanSend
  /\ SendCheck(msg)
  /\ main_pc' = "sending"
  /\ UNCHANGED <<connected, hdl_global, mtx, condition_met, audio_source_name,
                 handler_pc, joinable, process>>

SendContinues ==
  /\ main_pc = "sending"
  /\ SendPush \/ SendPost
  /\ main_pc' = IF sender' = NoSender THEN "idle" ELSE "sending"
  /\ UNCHANGED <<connected, hdl_global, mtx, condition_met, audio_source_name,
                 handler_pc, joinable, process>>

unchangedByWait == <<connVars, connected, hdl_global, condition_met,
                     audio_source_name, handler_pc, joinable, process>>

WaitForCondition ==
  /\ main_pc = "idle"
  /\ main_pc' = "wait_lock"
  /\ UNCHANGED <<unchangedByWait, mtx>>

WaitLock ==
  /\ main_pc = "wait_lock" /\ mtx = "free"
  /\ mtx' = "main"
  /\ main_pc' = "wait_test"
  /\ UNCHANGED unchangedByWait

\* Mutant: a wait without a predicate.
WaitReturnsAnyway ==
  /\ main_pc = "wait_test"
  /\ mtx' = "free"
  /\ main_pc' = "idle"
  /\ UNCHANGED unchangedByWait

\* Mutant: the wait clears the condition it waited for.
WaitReturnsAndResets ==
  /\ main_pc = "wait_test" /\ condition_met
  /\ mtx' = "free"
  /\ condition_met' = FALSE
  /\ main_pc' = "idle"
  /\ UNCHANGED <<connVars, connected, hdl_global, audio_source_name, handler_pc,
                 joinable, process>>

\* The predicate holds: the lock is released and wait_for_condition returns.
WaitReturns ==
  /\ main_pc = "wait_test" /\ condition_met
  /\ mtx' = "free"
  /\ main_pc' = "idle"
  /\ UNCHANGED unchangedByWait

WaitAgain ==
  /\ main_pc = "wait_test" /\ ~condition_met
  /\ main_pc' = "wait_block"
  /\ UNCHANGED <<unchangedByWait, mtx>>

WaitBlock ==
  /\ main_pc = "wait_block"
  /\ mtx' = "free"
  /\ main_pc' = "wait_sleep"
  /\ UNCHANGED unchangedByWait

SpuriousWakeup ==
  /\ main_pc = "wait_sleep"
  /\ main_pc' = "wait_lock"
  /\ UNCHANGED <<unchangedByWait, mtx>>

ResetCondition ==
  /\ main_pc = "idle"
  /\ main_pc' = "reset_lock"
  /\ UNCHANGED <<unchangedByWait, mtx>>

ResetLock ==
  /\ main_pc = "reset_lock" /\ mtx = "free"
  /\ mtx' = "main"
  /\ main_pc' = "reset_clear"
  /\ UNCHANGED unchangedByWait

ResetReturns ==
  /\ main_pc = "reset_clear"
  /\ condition_met' = FALSE
  /\ mtx' = "free"
  /\ main_pc' = "idle"
  /\ UNCHANGED <<connVars, connected, hdl_global, audio_source_name, handler_pc,
                 joinable, process>>

\* Mutant: stop() only joins.
ClientOnlyJoins ==
  /\ main_pc = "idle"
  /\ main_pc' = "join"
  /\ UNCHANGED <<connVars, connected, hdl_global, mtx, condition_met, audio_source_name,
                 handler_pc, joinable, process>>

ClientStop ==
  /\ main_pc = "idle"
  /\ Stop
  /\ main_pc' = "join"
  /\ UNCHANGED <<connected, hdl_global, mtx, condition_met, audio_source_name,
                 handler_pc, joinable, process>>

\* The destructor does not stop the loop; it only joins it.
Destroy ==
  /\ main_pc = "idle"
  /\ main_pc' = "destroy"
  /\ UNCHANGED <<unchangedByWait, mtx>>

\* Mutant: the thread is detached instead of joined.
JoinNotWaiting ==
  /\ main_pc \in {"join", "destroy"}
  /\ joinable' = FALSE
  /\ main_pc' = IF main_pc = "join" THEN "idle" ELSE "destroyed"
  /\ UNCHANGED <<connVars, connected, hdl_global, mtx, condition_met,
                 audio_source_name, handler_pc, process>>

\* websocket_thread.join(), from stop() or from the destructor.
Join ==
  /\ main_pc \in {"join", "destroy"}
  /\ joinable => loop = "returned"
  /\ joinable' = FALSE
  /\ main_pc' = IF main_pc = "join" THEN "idle" ELSE "destroyed"
  /\ UNCHANGED <<connVars, connected, hdl_global, mtx, condition_met,
                 audio_source_name, handler_pc, process>>

\* Code of the caller, outside this class, ends the process.
MainDies ==
  /\ main_pc = "idle"
  /\ process' = "aborted"
  /\ UNCHANGED <<connVars, connected, hdl_global, mtx, condition_met,
                 audio_source_name, handler_pc, main_pc, joinable>>

-----------------------------------------------------------------------------
(* The class on its own: a main thread that makes any calls in any order.  *)

Transport == LoopStep /\ UNCHANGED clientVars

Environment == (\E frame \in Frames : PeerSends(frame)) /\ UNCHANGED clientVars

\* The steps of the main thread inside a call that the code, not the caller or
\* the scheduler, decides to take.
MainInCall ==
  \/ SendContinues
  \/ WaitLock \/ WaitReturns \/ WaitAgain \/ WaitBlock
  \/ ResetLock \/ ResetReturns
  \/ Join

MainCalls ==
  \/ ClientConnect
  \/ \E msg \in Data : SendMessage(msg)
  \/ WaitForCondition \/ ResetCondition
  \/ ClientStop
  \/ Destroy
  \/ MainDies

Next ==
  /\ process = "up"
  /\ Transport \/ Environment \/ Handler \/ MainInCall \/ SpuriousWakeup \/ MainCalls

InLoop(A) == process = "up" /\ A /\ UNCHANGED clientVars

\* Of ConnFairness, what concerns the loop; the rest is Handler and MainInCall.
LoopFairness ==
  /\ WF_vars(InLoop(WriteFrame)) /\ WF_vars(InLoop(WriteOk \/ WriteError))
  /\ WF_vars(InLoop(ReadCompletes)) /\ WF_vars(InLoop(~socket_up /\ ReadError))
  /\ WF_vars(InLoop(ReadText \/ ReadPing \/ ReadClose \/ ReadInvalid))
  /\ WF_vars(InLoop(CloseTimeout)) /\ WF_vars(InLoop(HandleTerminate))
  /\ WF_vars(InLoop(LoopReturns))

\* Both threads are scheduled; the main thread is not obliged to make a call.  A
\* handler that finds mtx free again and again gets it in the end: the wakeups
\* that could keep the main thread taking it are spurious.
Fairness ==
  /\ LoopFairness
  /\ WF_vars(process = "up" /\ Handler)
  /\ SF_vars(process = "up" /\ OnMessageLock)
  /\ WF_vars(process = "up" /\ MainInCall)

Safety == Init /\ [][Next]_vars

Spec == Safety /\ Fairness

-----------------------------------------------------------------------------
ClientTypeOK ==
  /\ connected \in BOOLEAN
  /\ hdl_global \in BOOLEAN
  /\ mtx \in {"free", "main", "loop"}
  /\ condition_met \in BOOLEAN
  /\ audio_source_name \in Names \cup {NoName, Torn}
  /\ handler_pc \in HandlerPcs
  /\ main_pc \in MainPcs
  /\ joinable \in BOOLEAN
  /\ process \in {"up", "aborted"}

TypeOK == ConnTypeOK /\ ClientTypeOK

\* The main thread is never asleep on a condition that is met unless the handler
\* that met it has still to notify: notify_one after the unlock cannot be missed.
NoLostWakeup ==
  main_pc = "wait_sleep" /\ condition_met => handler_pc = "notify"

\* connected, which the main thread polls without a lock, is the publication of
\* hdl_global: a send that has seen it uses a handle that refers to a connection
\* that did open.
HdlPublished == connected => hdl_global /\ m_state # "connecting"

\* No handler of the loop runs on a destroyed WebSocketClient, whatever the
\* calls made before the destructor.
NoHandlerAfterDestroy == main_pc = "destroyed" => loop # "running"

\* stop() returns: no handler waits for the thread that joins it.
StopReturns == main_pc = "join" ~> main_pc # "join" \/ process = "aborted"

\* The destructor returns once the connection is closed, by the peer or by an
\* error, even though nothing stops the loop.
DestroyReturns ==
  main_pc = "destroy" /\ m_state = "closed"
    ~> main_pc = "destroyed" \/ process = "aborted"

\* wait_for_condition, reset_condition and on_message implement the latch.
Latch == INSTANCE SignalLatch WITH
  flag   <- condition_met,
  waiter <- IF main_pc \in Waiting THEN "waiting" ELSE "out",
  up     <- process = "up"

ImplementsLatch == Latch!LatchSafety

\* With the liveness of the latch: a wait on a met condition returns.
WaitIsReleased == Latch!LatchSpec
=============================================================================
