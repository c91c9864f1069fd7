----------------------- MODULE WebSocketClient_proofs -----------------------
(***************************************************************************)
(* Proofs about WebSocketClient: it drives the connection as the           *)
(* connection's specification allows, its wait cannot lose a wakeup, what  *)
(* it publishes without a lock is published in order, its handlers do not  *)
(* outlive it, and its condition implements the latch.                     *)
(***************************************************************************)
EXTENDS WebSocketClient, WsppConnection_proofs

(***************************************************************************)
(* The client's steps are steps of the connection.                         *)
(***************************************************************************)
LEMMA ClientStepsConnection == [Next]_vars => [ConnNext]_connVars
<1> SUFFICES ASSUME Next PROVE ConnNext \/ UNCHANGED connVars
  BY DEF vars
<1>1. CASE Transport
  BY <1>1 DEF Transport, ConnNext
<1>2. CASE Environment
  BY <1>2 DEF Environment, ConnNext
<1>3. CASE Handler
  <2>1. HandlerReturns \/ UNCHANGED connVars
    BY <1>3 DEF Handler, Return, OnOpenHdl, OnOpenConnected, OnFail, OnMessageIgnored,
       OnMessageThrows, OnMessageAssign, OnMessageAssigned, OnMessageLock,
       OnMessageSet, OnMessageNotify
  <2> QED BY <2>1 DEF ConnNext, AppStep
<1>4. CASE MainInCall
  <2>1. SendPush \/ SendPost \/ UNCHANGED connVars
    BY <1>4 DEF MainInCall, SendContinues, WaitLock, WaitReturns, WaitAgain,
       WaitBlock, ResetLock, ResetReturns, Join, unchangedByWait
  <2> QED BY <2>1 DEF ConnNext, AppStep
<1>5. CASE SpuriousWakeup
  BY <1>5 DEF SpuriousWakeup, unchangedByWait
<1>6. CASE MainCalls
  <2>1. \/ Connect \/ Stop \/ (\E msg \in Data : SendCheck(msg))
        \/ UNCHANGED connVars
    BY <1>6 DEF MainCalls, ClientConnect, SendMessage, WaitForCondition,
       ResetCondition, ClientStop, Destroy, MainDies, unchangedByWait
  <2> QED BY <2>1 DEF ConnNext, AppStep
<1> QED BY <1>1, <1>2, <1>3, <1>4, <1>5, <1>6 DEF Next

\* WebSocketClient implements the connection's specification, so what is proved
\* of the connection holds under it.
THEOREM ClientUsesConnection == Safety => ConnSafety
<1>1. Init => ConnInit
  BY DEF Init
<1> QED BY <1>1, ClientStepsConnection, PTL DEF Safety, ConnSafety

\* The peer of a WebSocketClient receives its messages in order, and no message
\* it queued is left without a writer.
THEOREM ClientDeliversInOrder == Safety => [](InOrder /\ NoStrandedMessage)
BY ClientUsesConnection, DeliveredInOrder, NoStranded, PTL

-----------------------------------------------------------------------------
(* Types.                                                                  *)

\* The body of a message call is a body.
LEMMA MessageBody ==
  ASSUME NEW c \in Callbacks, c.handler = "message"
  PROVE  c.body \in Bodies
BY DEF Callbacks

\* The name in a body is a name.
LEMMA BodyName ==
  ASSUME NEW b \in Bodies
  PROVE  b.name \in Names
BY ClientAssumption

\* Where each thread is: a handler position belongs to the callback the loop is
\* in, mtx to the position of its holder, and the predicate a waiter found false
\* under mtx is still false when it goes to sleep.
Positions ==
  /\ handler_pc = "opened" => callback.handler = "open" /\ hdl_global
  /\ handler_pc \in {"assign", "lock", "set", "notify"} => callback.handler = "message"
  /\ callback.handler = "open" => m_state # "connecting"
  /\ mtx = "main" <=> main_pc \in {"wait_test", "wait_block", "reset_clear"}
  /\ mtx = "loop" <=> handler_pc = "set"
  /\ main_pc = "wait_block" => ~condition_met
  /\ loop = "running" => joinable

Inv == TypeOK /\ Positions /\ NoLostWakeup /\ HdlPublished /\ NoHandlerAfterDestroy

\* The client's types hold at the start.
LEMMA ClientTypeInit == Init => ClientTypeOK
BY DEF Init, ClientTypeOK, HandlerPcs, MainPcs

\* No step breaks the client's types.
LEMMA ClientTypeStep ==
  TypeOK /\ Positions /\ [Next]_vars => ClientTypeOK'
<1> SUFFICES ASSUME TypeOK, Positions, [Next]_vars PROVE ClientTypeOK'
  OBVIOUS
<1> USE DEF ClientTypeOK, HandlerPcs, MainPcs, Waiting
<1>t. ClientTypeOK
  BY DEF TypeOK
<1>1. CASE Transport \/ Environment \/ UNCHANGED vars
  BY <1>t, <1>1 DEF Transport, Environment, vars, clientVars
<1>2. CASE Handler
  <2>1. CASE OnMessageAssigned
    <3>1. callback.body.name \in Names
      <4>1. callback \in Callbacks
        BY DEF TypeOK, ConnTypeOK
      <4>2. callback.handler = "message"
        BY <2>1 DEF OnMessageAssigned, Positions
      <4> QED BY <4>1, <4>2, MessageBody, BodyName
    <3> QED BY <1>t, <2>1, <3>1 DEF OnMessageAssigned
  <2>2. CASE ~OnMessageAssigned
    BY <1>t, <1>2, <2>2 DEF Handler, Return, OnOpenHdl, OnOpenConnected, OnFail,
       OnMessageIgnored, OnMessageThrows, OnMessageAssign, OnMessageLock,
       OnMessageSet, OnMessageNotify
  <2> QED BY <2>1, <2>2
<1>3. CASE MainInCall \/ SpuriousWakeup
  BY <1>t, <1>3 DEF MainInCall, SpuriousWakeup, SendContinues, WaitLock, WaitReturns,
     WaitAgain, WaitBlock, ResetLock, ResetReturns, Join, unchangedByWait
<1>4. CASE MainCalls
  BY <1>t, <1>4 DEF MainCalls, ClientConnect, SendMessage, WaitForCondition,
     ResetCondition, ClientStop, Destroy, MainDies, unchangedByWait
<1> QED BY <1>1, <1>2, <1>3, <1>4 DEF Next

-----------------------------------------------------------------------------
(* Positions, wakeups and publication.                                     *)

\* What the loop, the peer and the main thread's calls may do to the callback
\* and to the connection's state.
LEMMA LoopCallsWhenFree ==
  ASSUME LoopStep
  PROVE  /\ callback = NoCall
         /\ callback'.handler = "open" => m_state' # "connecting"
BY DEF LoopStep, Idle, Consuming, Running, NoCall, WriteFrame, WriteOk, WriteError,
       OpenOk, OpenBadExtensions, OpenFail, ReadCompletes, ReadError, ReadText,
       ReadPing, ReadClose, ReadInvalid, Consume, CloseTimeout, HandleTerminate,
       LoopReturns, Call, callVars

\* A connection that has left the state connecting does not return to it.
LEMMA NeverConnectingAgain ==
  ASSUME [ConnNext]_connVars, m_state # "connecting"
  PROVE  m_state' # "connecting"
BY DEF ConnNext, LoopStep, AppStep, connVars, stateVars, WriteFrame, WriteOk,
       WriteError, Terminate, OpenOk, OpenBadExtensions, OpenFail, ReadCompletes,
       ReadError, ReadText, ReadPing, ReadClose, ReadInvalid, Consume, CloseTimeout,
       HandleTerminate, LoopReturns, Connect, SendCheck, SendPush, SendPost,
       HandlerReturns, Stop, PeerSends

\* Only connect() starts the loop.
LEMMA RunningOnlyByConnect ==
  ASSUME [Next]_vars, ~ClientConnect, loop' = "running"
  PROVE  loop = "running"
<1>1. CASE Transport
  BY <1>1 DEF Transport, LoopStep, loopVars, WriteFrame, WriteOk, WriteError, OpenOk,
     OpenBadExtensions, OpenFail, ReadCompletes, ReadError, ReadText, ReadPing,
     ReadClose, ReadInvalid, Consume, CloseTimeout, HandleTerminate, LoopReturns
<1>2. CASE Environment \/ UNCHANGED vars
  BY <1>2 DEF Environment, PeerSends, loopVars, vars, connVars
<1>3. CASE Handler
  BY <1>3 DEF Handler, Return, HandlerReturns, OnOpenHdl, OnOpenConnected, OnFail,
     OnMessageIgnored, OnMessageThrows, OnMessageAssign, OnMessageAssigned,
     OnMessageLock, OnMessageSet, OnMessageNotify, connVars, loopVars
<1>4. CASE MainInCall \/ SpuriousWakeup
  BY <1>4 DEF MainInCall, SpuriousWakeup, SendContinues, SendPush, SendPost, WaitLock,
     WaitReturns, WaitAgain, WaitBlock, ResetLock, ResetReturns, Join,
     unchangedByWait, connVars, loopVars
<1>5. CASE MainCalls
  BY <1>5 DEF MainCalls, SendMessage, SendCheck, WaitForCondition, ResetCondition,
     ClientStop, Stop, Destroy, MainDies, unchangedByWait, connVars, loopVars
<1> QED BY <1>1, <1>2, <1>3, <1>4, <1>5 DEF Next

\* Away from the handlers, a step leaves the callback as it is, or starts one.
LEMMA CallbackKept ==
  ASSUME Inv, [Next]_vars, ~Handler
  PROVE  /\ callback' = callback \/ (callback = NoCall /\ Transport)
         /\ handler_pc' = handler_pc /\ connected' = connected
         /\ hdl_global' = hdl_global
<1>1. CASE Transport
  BY <1>1, LoopCallsWhenFree DEF Transport, clientVars
<1>2. CASE Environment
  BY <1>2 DEF Environment, PeerSends, callVars, clientVars
<1>3. CASE MainInCall
  BY <1>3 DEF MainInCall, SendContinues, SendPush, SendPost, WaitLock, WaitReturns,
     WaitAgain, WaitBlock, ResetLock, ResetReturns, Join, unchangedByWait, connVars,
     callVars
<1>4. CASE SpuriousWakeup
  BY <1>4 DEF SpuriousWakeup, unchangedByWait, connVars, callVars
<1>5. CASE MainCalls
  BY <1>5 DEF MainCalls, ClientConnect, Connect, SendMessage, SendCheck,
     WaitForCondition, ResetCondition, ClientStop, Stop, Destroy, MainDies, unchangedByWait,
     connVars, callVars
<1>6. CASE UNCHANGED vars
  BY <1>6 DEF vars, connVars, callVars, clientVars
<1> QED BY <1>1, <1>2, <1>3, <1>4, <1>5, <1>6 DEF Next

\* The handler's position agrees with the callback, and on_open's order with
\* what it publishes.
LEMMA HandlerPositionStep ==
  ASSUME Inv, [Next]_vars
  PROVE  /\ handler_pc' = "opened" => callback'.handler = "open" /\ hdl_global'
         /\ handler_pc' \in {"assign", "lock", "set", "notify"}
              => callback'.handler = "message"
         /\ callback'.handler = "open" => m_state' # "connecting"
         /\ connected' => hdl_global' /\ m_state' # "connecting"
<1>c. [ConnNext]_connVars
  BY ClientStepsConnection
<1>1. CASE Handler
  <2>1. HandlerReturns \/ UNCHANGED connVars
    BY <1>1 DEF Handler, Return, OnOpenHdl, OnOpenConnected, OnFail, OnMessageIgnored,
       OnMessageThrows, OnMessageAssign, OnMessageAssigned, OnMessageLock,
       OnMessageSet, OnMessageNotify
  <2>2. m_state' = m_state /\ (callback' = callback \/ callback' = NoCall)
    BY <2>1 DEF HandlerReturns, connVars, stateVars, callVars
  <2> QED BY <1>1, <2>2 DEF Inv, Positions, HdlPublished, NoCall, Handler, Return,
             HandlerReturns, OnOpenHdl, OnOpenConnected, OnFail, OnMessageIgnored,
             OnMessageThrows, OnMessageAssign, OnMessageAssigned, OnMessageLock,
             OnMessageSet, OnMessageNotify, connVars, callVars
<1>2. CASE ~Handler
  <2>1. CASE callback = NoCall /\ Transport
    <3>1. handler_pc = "start"
      BY <2>1 DEF Inv, TypeOK, ClientTypeOK, HandlerPcs, Positions, NoCall
    <3>2. callback'.handler = "open" => m_state' # "connecting"
      BY <2>1, LoopCallsWhenFree DEF Transport
    <3> QED BY <1>c, <1>2, <3>1, <3>2, CallbackKept, NeverConnectingAgain
            DEF Inv, HdlPublished
  <2>2. CASE callback' = callback
    BY <1>c, <1>2, <2>2, CallbackKept, NeverConnectingAgain
    DEF Inv, Positions, HdlPublished
  <2> QED BY <1>2, <2>1, <2>2, CallbackKept
<1> QED BY <1>1, <1>2

\* mtx belongs to the thread whose position says so, and nobody asleep misses
\* the notification of a condition that is met.
LEMMA WaitPositionStep ==
  ASSUME Inv, [Next]_vars
  PROVE  /\ mtx' = "main" <=> main_pc' \in {"wait_test", "wait_block", "reset_clear"}
         /\ mtx' = "loop" <=> handler_pc' = "set"
         /\ main_pc' = "wait_block" => ~condition_met'
         /\ NoLostWakeup'
<1> USE DEF Inv, Positions, NoLostWakeup
<1>1. CASE Transport \/ Environment \/ UNCHANGED vars
  BY <1>1 DEF Transport, Environment, vars, clientVars
<1>2. CASE Handler
  BY <1>2 DEF Handler, Return, OnOpenHdl, OnOpenConnected, OnFail, OnMessageIgnored,
     OnMessageThrows, OnMessageAssign, OnMessageAssigned, OnMessageLock, OnMessageSet,
     OnMessageNotify
<1>3. CASE MainInCall \/ SpuriousWakeup
  BY <1>3 DEF MainInCall, SpuriousWakeup, SendContinues, WaitLock, WaitReturns,
     WaitAgain, WaitBlock, ResetLock, ResetReturns, Join, unchangedByWait
<1>4. CASE MainCalls
  BY <1>4 DEF MainCalls, ClientConnect, SendMessage, WaitForCondition, ResetCondition,
     ClientStop, Destroy, MainDies, unchangedByWait
<1> QED BY <1>1, <1>2, <1>3, <1>4 DEF Next

\* A loop that runs is joinable, and the destructor has joined it.
LEMMA DestroyStep ==
  ASSUME Inv, [Next]_vars
  PROVE  /\ loop' = "running" => joinable'
         /\ NoHandlerAfterDestroy'
<1> USE DEF Inv, Positions, NoHandlerAfterDestroy
<1>1. CASE ClientConnect
  BY <1>1 DEF ClientConnect
<1>2. CASE Join
  BY <1>2 DEF Join, connVars, loopVars
<1>3. CASE ~ClientConnect /\ ~Join
  <2>1. joinable' = joinable
    BY <1>3 DEF Next, Transport, Environment, vars, clientVars, Handler, Return,
       OnOpenHdl, OnOpenConnected, OnFail, OnMessageIgnored, OnMessageThrows,
       OnMessageAssign, OnMessageAssigned, OnMessageLock, OnMessageSet,
       OnMessageNotify, MainInCall, SpuriousWakeup, SendContinues, WaitLock,
       WaitReturns, WaitAgain, WaitBlock, ResetLock, ResetReturns, MainCalls,
       SendMessage, WaitForCondition, ResetCondition, ClientStop, Destroy, MainDies,
       unchangedByWait
  <2>2. main_pc' = "destroyed" => main_pc = "destroyed"
    BY <1>3 DEF Next, Transport, Environment, vars, clientVars, Handler, Return,
       OnOpenHdl, OnOpenConnected, OnFail, OnMessageIgnored, OnMessageThrows,
       OnMessageAssign, OnMessageAssigned, OnMessageLock, OnMessageSet,
       OnMessageNotify, MainInCall, SpuriousWakeup, SendContinues, WaitLock,
       WaitReturns, WaitAgain, WaitBlock, ResetLock, ResetReturns, MainCalls,
       SendMessage, WaitForCondition, ResetCondition, ClientStop, Destroy, MainDies,
       unchangedByWait
  <2>3. loop' = "running" => loop = "running"
    BY <1>3, RunningOnlyByConnect
  <2> QED BY <2>1, <2>2, <2>3
<1> QED BY <1>1, <1>2, <1>3

\* The client's invariant holds at the start.
LEMMA InvInit == Init => Inv
<1> SUFFICES ASSUME Init PROVE Inv
  OBVIOUS
<1>1. TypeOK
  BY ConnTypeInit, ClientTypeInit DEF Init, TypeOK
<1>2. Positions /\ NoLostWakeup /\ HdlPublished /\ NoHandlerAfterDestroy
  BY DEF Init, ConnInit, NoCall, Positions, NoLostWakeup, HdlPublished,
         NoHandlerAfterDestroy
<1> QED BY <1>1, <1>2 DEF Inv

\* No step breaks the client's invariant.
LEMMA InvStep == Inv /\ [Next]_vars => Inv'
<1> SUFFICES ASSUME Inv, [Next]_vars PROVE Inv'
  OBVIOUS
<1>1. TypeOK'
  BY ClientStepsConnection, ConnTypeStep, ClientTypeStep DEF Inv, TypeOK
<1>2. HdlPublished'
  BY HandlerPositionStep DEF HdlPublished
<1>3. Positions'
  BY HandlerPositionStep, WaitPositionStep, DestroyStep DEF Positions
<1>4. NoLostWakeup' /\ NoHandlerAfterDestroy'
  BY WaitPositionStep, DestroyStep
<1> QED BY <1>1, <1>2, <1>3, <1>4 DEF Inv

\* The inductive invariant, for any bodies, names and bounds.
THEOREM Invariance == Safety => []Inv
BY InvInit, InvStep, PTL DEF Safety

\* Every variable of the client and of its connection keeps its type.
THEOREM TypeCorrect == Safety => []TypeOK
BY Invariance, PTL DEF Inv

\* A main thread asleep on a condition that is met is about to be notified.
THEOREM WakeupsNotLost == Safety => []NoLostWakeup
BY Invariance, PTL DEF Inv

\* A main thread that sees connected also sees the handle of a connection that
\* has opened.
THEOREM HandlePublished == Safety => []HdlPublished
BY Invariance, PTL DEF Inv

\* No handler runs once the destructor has returned.
THEOREM HandlersEndFirst == Safety => []NoHandlerAfterDestroy
BY Invariance, PTL DEF Inv

-----------------------------------------------------------------------------
(* The latch.                                                              *)

\* Every step of the client is a step of the latch, or leaves it alone.
LEMMA LatchStep == Inv /\ [Next]_vars => [Latch!LatchNext]_(Latch!latchVars)
<1> SUFFICES ASSUME Inv, Next PROVE Latch!LatchNext \/ UNCHANGED Latch!latchVars
  BY DEF vars, clientVars, Latch!latchVars
<1> USE DEF Latch!LatchNext, Latch!Signal, Latch!Enter, Latch!Await, Latch!Reset,
            Latch!Die, Latch!latchVars, Waiting
<1>u. process = "up"
  BY DEF Next
<1>1. CASE Transport \/ Environment
  BY <1>1 DEF Transport, Environment, clientVars
<1>2. CASE Handler
  BY <1>u, <1>2 DEF Handler, OnOpenHdl, OnOpenConnected, OnFail, OnMessageIgnored,
     OnMessageThrows, OnMessageAssign, OnMessageAssigned, OnMessageLock,
     OnMessageSet, OnMessageNotify
<1>3. CASE MainInCall \/ SpuriousWakeup
  BY <1>u, <1>3 DEF MainInCall, SpuriousWakeup, SendContinues, WaitLock, WaitReturns,
     WaitAgain, WaitBlock, ResetLock, ResetReturns, Join, unchangedByWait
<1>4. CASE MainCalls
  BY <1>u, <1>4 DEF MainCalls, ClientConnect, SendMessage, WaitForCondition,
     ResetCondition, ClientStop, Destroy, MainDies, unchangedByWait
<1> QED BY <1>1, <1>2, <1>3, <1>4 DEF Next

\* wait_for_condition returns only when the latch is set, reset_condition clears
\* it outside a wait, and nothing else touches it: the safety of the latch.
THEOREM LatchImplemented == Safety => ImplementsLatch
<1>1. Init => Latch!LatchInit
  BY DEF Init, Latch!LatchInit, Waiting
<1> QED BY <1>1, LatchStep, Invariance, PTL DEF Safety, ImplementsLatch,
        Latch!LatchSafety
=============================================================================
