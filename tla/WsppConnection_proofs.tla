------------------------ MODULE WsppConnection_proofs ------------------------
(***************************************************************************)
(* Proofs about the connection: its types, that no queued message is left  *)
(* without a writer, and that the peer receives what was queued, in order. *)
(* Every step lemma is stated for [ConnNext]_connVars, so that it serves   *)
(* the modules whose steps are steps of the connection as well.            *)
(***************************************************************************)
EXTENDS WsppConnection, SequenceTheorems, TLAPS

(***************************************************************************)
(* A message appended to a sequence of messages.                           *)
(***************************************************************************)
LEMMA AppendMessage ==
  ASSUME NEW q \in Seq(Messages), NEW m \in Messages
  PROVE  Append(q, m) \in Seq(Messages)
BY AppendProperties

(***************************************************************************)
(* A batch and what it leaves are sequences of messages, and they are the  *)
(* queue they were cut from.                                               *)
(***************************************************************************)
LEMMA CutQueue ==
  ASSUME NEW q \in Seq(Messages), NEW n \in 0..Len(q)
  PROVE  /\ SubSeq(q, 1, n) \in Seq(Messages)
         /\ SubSeq(q, n + 1, Len(q)) \in Seq(Messages)
         /\ SubSeq(q, 1, n) \o SubSeq(q, n + 1, Len(q)) = q
<1>1. /\ Len(q) \in Nat
      /\ \A i \in 1..Len(q) : q[i] \in Messages
  BY ElementOfSeq, LenProperties
<1>2. SubSeq(q, 1, n) \in Seq(Messages)
  <2>1. \A i \in 1..n : q[i] \in Messages
    BY <1>1
  <2> QED BY <1>1, <2>1, SubSeqProperties
<1>3. SubSeq(q, n + 1, Len(q)) \in Seq(Messages)
  <2>1. \A i \in (n + 1)..Len(q) : q[i] \in Messages
    BY <1>1
  <2> QED BY <1>1, <2>1, SubSeqProperties
<1>4. SubSeq(q, 1, n) \o SubSeq(q, n + 1, Len(q)) = SubSeq(q, 1, Len(q))
  <2>1. 1 \in 1..(Len(q) + 1) /\ n \in (1 - 1)..Len(q) /\ Len(q) \in n..Len(q)
    BY <1>1
  <2> QED BY <2>1, ConcatAdjacentSubSeq
<1>5. SubSeq(q, 1, Len(q)) = q
  BY SubSeqFull
<1> QED BY <1>2, <1>3, <1>4, <1>5

(***************************************************************************)
(* Concatenation of sequences of messages is associative.                  *)
(***************************************************************************)
LEMMA Regroup ==
  \A s, t, u \in Seq(Messages) : (s \o t) \o u = s \o (t \o u)
BY ConcatAssociative

-----------------------------------------------------------------------------
(* Types.                                                                  *)

\* The body of a text frame is a body.
LEMMA FrameBody ==
  ASSUME NEW f \in Frames, f.op = "text"
  PROVE  f.body \in Bodies
BY DEF Frames

\* What a sender holds is application data.
LEMMA SenderMsg ==
  ASSUME NEW s \in Senders, s.at = "push"
  PROVE  s.msg \in Data
BY DEF Senders

\* What terminate() does to the state keeps it within its type.
LEMMA TerminateType ==
  ASSUME ConnTypeOK, Terminate
  PROVE  /\ m_state' \in {"connecting", "open", "closing", "closed"}
         /\ shutdowns' \in SUBSET {"failed", "closed"}
         /\ m_handshake_timer' \in BOOLEAN
         /\ m_state' = "closed"
BY DEF ConnTypeOK, Terminate

\* The connection's types hold at the start.
LEMMA ConnTypeInit == ConnInit => ConnTypeOK
<1> SUFFICES ASSUME ConnInit PROVE ConnTypeOK
  OBVIOUS
<1>1. <<>> \in Seq(Frames) /\ <<>> \in Seq(Messages) /\ Len(<<>>) = 0
  BY EmptySeq
<1>2. NoCall \in Callbacks /\ NoSender \in Senders
  BY DEF Callbacks, NoCall, Senders, NoSender
<1>3. 0 \in 0..MaxArrivals /\ buffered \in 0..Len(inbox)
  BY <1>1, ConnectionAssumption DEF ConnInit
<1> QED BY <1>1, <1>2, <1>3 DEF ConnInit, ConnTypeOK

\* Every step keeps the types.
LEMMA ConnTypeStep == ConnTypeOK /\ [ConnNext]_connVars => ConnTypeOK'
<1> SUFFICES ASSUME ConnTypeOK, [ConnNext]_connVars PROVE ConnTypeOK'
  OBVIOUS
<1> USE DEF connVars, loopVars, stateVars, readVars, queueVars, writeVars, callVars
<1>w. WriteFrame => ConnTypeOK'
  <2> SUFFICES ASSUME WriteFrame PROVE ConnTypeOK'
    OBVIOUS
  <2>1. posted' \in Nat
    BY DEF WriteFrame, ConnTypeOK
  <2>2. /\ m_send_queue' \in Seq(Messages) /\ m_current_msgs' \in Seq(Messages)
        /\ m_write_flag' \in BOOLEAN /\ wire' = wire /\ pushed' = pushed
    <3>1. CASE m_write_flag \/ m_send_queue = <<>>
      BY <3>1 DEF WriteFrame, ConnTypeOK
    <3>2. CASE ~(m_write_flag \/ m_send_queue = <<>>)
      <4>1. PICK n \in 1..Len(m_send_queue) :
              /\ m_current_msgs' = SubSeq(m_send_queue, 1, n)
              /\ m_send_queue' = SubSeq(m_send_queue, n + 1, Len(m_send_queue))
        BY <3>2 DEF WriteFrame
      <4>2. n \in 0..Len(m_send_queue)
        OBVIOUS
      <4>3. /\ m_current_msgs' \in Seq(Messages) /\ m_send_queue' \in Seq(Messages)
        BY <4>1, <4>2, CutQueue DEF ConnTypeOK
      <4> QED BY <3>2, <4>3 DEF WriteFrame, ConnTypeOK
    <3> QED BY <3>1, <3>2
  <2> QED BY <2>1, <2>2 DEF WriteFrame, ConnTypeOK
<1>wo. WriteOk => ConnTypeOK'
  <2> SUFFICES ASSUME WriteOk PROVE ConnTypeOK'
    OBVIOUS
  <2>1. wire' \in Seq(Messages) /\ m_current_msgs' \in Seq(Messages)
    BY ConcatProperties, EmptySeq DEF WriteOk, ConnTypeOK
  <2>2. CASE m_current_msgs[Len(m_current_msgs)] = "abort"
    <3>1. Terminate /\ m_write_flag' = m_write_flag /\ posted' = posted
      BY <2>2 DEF WriteOk
    <3>2. /\ m_state' \in {"connecting", "open", "closing", "closed"}
          /\ shutdowns' \in SUBSET {"failed", "closed"}
          /\ m_handshake_timer' \in BOOLEAN
      BY <3>1, TerminateType
    <3>3. UNCHANGED <<loop, stopped, socket_up, reading, buffered, inbox, arrivals,
                      m_send_queue, pushed, callback, verdicts, sender>>
      BY DEF WriteOk
    <3>4. m_write_flag' \in BOOLEAN /\ posted' \in Nat
      BY <3>1 DEF ConnTypeOK
    <3> QED BY <2>1, <3>2, <3>3, <3>4 DEF ConnTypeOK
  <2>3. CASE m_current_msgs[Len(m_current_msgs)] # "abort"
    <3>a. m_write_flag' = FALSE
      BY <2>3 DEF WriteOk
    <3>b. posted' \in {posted, posted + 1}
      BY <2>3 DEF WriteOk
    <3>c. posted \in Nat
      BY DEF ConnTypeOK
    <3>d. posted' \in Nat
      BY <3>b, <3>c
    <3>1. m_write_flag' \in BOOLEAN /\ posted' \in Nat
      BY <3>a, <3>d
    <3>2. UNCHANGED <<loop, stopped, m_state, shutdowns, m_handshake_timer, socket_up,
                      reading, buffered, inbox, arrivals, m_send_queue, pushed,
                      callback, verdicts, sender>>
      BY <2>3 DEF WriteOk
    <3> QED BY <2>1, <3>1, <3>2 DEF ConnTypeOK
  <2> QED BY <2>2, <2>3
<1>we. WriteError => ConnTypeOK'
  <2> SUFFICES ASSUME WriteError PROVE ConnTypeOK'
    OBVIOUS
  <2>1. PICK k \in 0..Len(m_current_msgs) : wire' = wire \o SubSeq(m_current_msgs, 1, k)
    BY DEF WriteError
  <2>2. SubSeq(m_current_msgs, 1, k) \in Seq(Messages)
    BY CutQueue DEF ConnTypeOK
  <2>3. wire' \in Seq(Messages) /\ m_current_msgs' \in Seq(Messages)
    BY <2>1, <2>2, ConcatProperties, EmptySeq DEF WriteError, ConnTypeOK
  <2> QED BY <2>3, TerminateType DEF WriteError, ConnTypeOK
<1>oo. OpenOk => ConnTypeOK'
  BY DEF OpenOk, Call, Callbacks, ConnTypeOK
<1>ob. OpenBadExtensions => ConnTypeOK'
  <2> SUFFICES ASSUME OpenBadExtensions PROVE ConnTypeOK'
    OBVIOUS
  <2>1. callback' \in Callbacks /\ verdicts' \in SUBSET {"open", "fail"}
    BY DEF OpenBadExtensions, Call, Callbacks, ConnTypeOK
  <2>2. shutdowns' \in SUBSET {"failed", "closed"}
    BY DEF OpenBadExtensions, ConnTypeOK
  <2>3. reading' \in BOOLEAN /\ buffered' \in 0..Len(inbox')
    BY DEF OpenBadExtensions
  <2> QED BY <2>1, <2>2, <2>3 DEF OpenBadExtensions, ConnTypeOK
<1>of. OpenFail => ConnTypeOK'
  BY TerminateType DEF OpenFail, ConnTypeOK
<1>rc. ReadCompletes => ConnTypeOK'
  <2> SUFFICES ASSUME ReadCompletes PROVE ConnTypeOK'
    OBVIOUS
  <2>1. buffered' \in 0..Len(inbox')
    BY DEF ReadCompletes
  <2> QED BY <2>1 DEF ReadCompletes, ConnTypeOK
<1>re. ReadError => ConnTypeOK'
  BY TerminateType DEF ReadError, ConnTypeOK
<1>c. ASSUME NEW op, Consume(op)
      PROVE  /\ inbox' \in Seq(Frames) /\ buffered' \in 0..Len(inbox')
             /\ reading' \in BOOLEAN /\ inbox[1] \in Frames
  <2>1. inbox # <<>> /\ Len(inbox) \in Nat /\ buffered \in 1..Len(inbox)
    BY <1>c, EmptySeq, LenProperties DEF Consume, Consuming, ConnTypeOK
  <2>2. inbox' \in Seq(Frames) /\ Len(inbox') = Len(inbox) - 1
    BY <1>c, <2>1, HeadTailProperties DEF Consume, ConnTypeOK
  <2>3. buffered' \in 0..Len(inbox')
    <3>1. buffered' = buffered - 1 /\ buffered \in Nat
      BY <1>c, <2>1 DEF Consume
    <3>2. buffered - 1 \in 0..(Len(inbox) - 1)
      BY <2>1
    <3> QED BY <2>2, <3>1, <3>2
  <2>5. reading' \in BOOLEAN
    BY <1>c DEF Consume
  <2>4. inbox[1] \in Frames
    BY <2>1, ElementOfSeq DEF ConnTypeOK
  <2> QED BY <2>2, <2>3, <2>4, <2>5
<1>rt. ReadText => ConnTypeOK'
  <2> SUFFICES ASSUME ReadText PROVE ConnTypeOK'
    OBVIOUS
  <2>1. inbox[1] \in Frames /\ inbox[1].op = "text"
    BY <1>c DEF ReadText, Consume
  <2>2. callback' \in Callbacks /\ verdicts' \in SUBSET {"open", "fail"}
    <3>1. inbox[1].body \in Bodies
      BY <2>1, FrameBody
    <3>2. [handler |-> "message", body |-> inbox[1].body] \in Callbacks
      BY <3>1 DEF Callbacks
    <3> QED BY <3>2 DEF ReadText, Call, ConnTypeOK
  <2> QED BY <1>c, <2>2 DEF ReadText, Consume, ConnTypeOK
<1>p. ASSUME NEW m \in Control, PushFromLoop(m)
      PROVE  /\ m_send_queue' \in Seq(Messages) /\ pushed' \in Seq(Messages)
             /\ posted' \in Nat
  BY <1>p, AppendMessage DEF PushFromLoop, ConnTypeOK, Messages
<1>rp. ReadPing => ConnTypeOK'
  BY <1>c, <1>p DEF ReadPing, Consume, Control, ConnTypeOK
<1>rl. ReadClose => ConnTypeOK'
  BY <1>c, <1>p DEF ReadClose, Consume, Control, ConnTypeOK
<1>ri. ReadInvalid => ConnTypeOK'
  <2> SUFFICES ASSUME ReadInvalid PROVE ConnTypeOK'
    OBVIOUS
  <2>1. inbox' \in Seq(Frames) /\ buffered' \in 0..Len(inbox')
    <3>1. Len(inbox) \in Nat /\ \A i \in (buffered + 1)..Len(inbox) : inbox[i] \in Frames
      BY ElementOfSeq, LenProperties DEF ConnTypeOK
    <3>2. inbox' \in Seq(Frames)
      BY <3>1, SubSeqProperties DEF ReadInvalid, ConnTypeOK
    <3> QED BY <3>2, LenProperties DEF ReadInvalid
  <2>2. CASE m_state = "open"
    BY <1>p, <2>1, <2>2 DEF ReadInvalid, Control, ConnTypeOK
  <2>3. CASE m_state # "open"
    BY <2>1, <2>3, TerminateType DEF ReadInvalid, ConnTypeOK
  <2> QED BY <2>2, <2>3
<1>ct. CloseTimeout => ConnTypeOK'
  BY TerminateType DEF CloseTimeout, ConnTypeOK
<1>ht. HandleTerminate => ConnTypeOK'
  <2> SUFFICES ASSUME HandleTerminate PROVE ConnTypeOK'
    OBVIOUS
  <2>1. /\ shutdowns' \in SUBSET {"failed", "closed"}
        /\ Call([handler |-> "fail"]) \/ UNCHANGED callVars
    BY DEF HandleTerminate, ConnTypeOK
  <2>2. callback' \in Callbacks /\ verdicts' \in SUBSET {"open", "fail"}
    <3>1. CASE Call([handler |-> "fail"])
      <4>1. [handler |-> "fail"] \in Callbacks
        BY DEF Callbacks
      <4> QED BY <3>1, <4>1 DEF Call, ConnTypeOK
    <3>2. CASE UNCHANGED callVars
      BY <3>2 DEF ConnTypeOK
    <3> QED BY <2>1, <3>1, <3>2
  <2> QED BY <2>1, <2>2 DEF HandleTerminate, ConnTypeOK
<1>lr. LoopReturns => ConnTypeOK'
  BY DEF LoopReturns, ConnTypeOK
<1>co. Connect => ConnTypeOK'
  BY DEF Connect, ConnTypeOK
<1>sc. (\E msg \in Data : SendCheck(msg)) => ConnTypeOK'
  BY DEF SendCheck, Senders, ConnTypeOK
<1>sp. SendPush => ConnTypeOK'
  <2> SUFFICES ASSUME SendPush PROVE ConnTypeOK'
    OBVIOUS
  <2>1. sender.msg \in Messages
    BY SenderMsg DEF SendPush, ConnTypeOK, Messages
  <2>2. m_send_queue' \in Seq(Messages) /\ pushed' \in Seq(Messages)
    BY <2>1, AppendMessage DEF SendPush, ConnTypeOK
  <2>3. sender' \in Senders
    BY DEF SendPush, NoSender, Senders
  <2> QED BY <2>2, <2>3 DEF SendPush, ConnTypeOK
<1>so. SendPost => ConnTypeOK'
  BY DEF SendPost, NoSender, Senders, ConnTypeOK
<1>hr. HandlerReturns => ConnTypeOK'
  BY DEF HandlerReturns, NoCall, Callbacks, ConnTypeOK
<1>st. Stop => ConnTypeOK'
  BY DEF Stop, ConnTypeOK
<1>ps. (\E frame \in Frames : PeerSends(frame)) => ConnTypeOK'
  <2> SUFFICES ASSUME NEW frame \in Frames, PeerSends(frame) PROVE ConnTypeOK'
    OBVIOUS
  <2>1. /\ inbox' \in Seq(Frames) /\ Len(inbox') = Len(inbox) + 1
        /\ Len(inbox) \in Nat
    BY AppendProperties, LenProperties DEF PeerSends, ConnTypeOK
  <2> QED BY <2>1, ConnectionAssumption DEF PeerSends, ConnTypeOK
<1>un. UNCHANGED connVars => ConnTypeOK'
  BY DEF ConnTypeOK
<1> QED
  BY <1>w, <1>wo, <1>we, <1>oo, <1>ob, <1>of, <1>rc, <1>re, <1>rt, <1>rp, <1>rl,
     <1>ri, <1>ct, <1>ht, <1>lr, <1>co, <1>sc, <1>sp, <1>so, <1>hr, <1>st, <1>ps,
     <1>un
  DEF ConnNext, LoopStep, AppStep

\* Safety of the connection: every variable keeps its type, for any bounds.
THEOREM ConnTypeCorrect == ConnSafety => []ConnTypeOK
BY ConnTypeInit, ConnTypeStep, PTL DEF ConnSafety

-----------------------------------------------------------------------------
(* The write flag and the queue.                                           *)

\* The messages in flight and the flag change only in the three actions of the
\* write path.
LEMMA WritePathOnly ==
  ASSUME [ConnNext]_connVars, ~WriteFrame, ~WriteOk, ~WriteError
  PROVE  UNCHANGED <<m_write_flag, m_current_msgs, wire>>
BY DEF ConnNext, LoopStep, AppStep, connVars, writeVars, OpenOk, OpenBadExtensions,
       OpenFail, ReadCompletes, ReadError, ReadText, ReadPing, ReadClose,
       ReadInvalid, Consume, CloseTimeout, HandleTerminate, LoopReturns, Connect,
       SendCheck, SendPush, SendPost, HandlerReturns, Stop, PeerSends

\* A closed connection stays closed.
LEMMA ClosedIsFinal ==
  ASSUME [ConnNext]_connVars, m_state = "closed"
  PROVE  m_state' = "closed"
BY DEF ConnNext, LoopStep, AppStep, connVars, stateVars, WriteFrame, WriteOk,
       WriteError, Terminate, OpenOk, OpenBadExtensions, OpenFail, ReadCompletes,
       ReadError, ReadText, ReadPing, ReadClose, ReadInvalid, Consume, CloseTimeout,
       HandleTerminate, LoopReturns, Connect, SendCheck, SendPush, SendPost,
       HandlerReturns, Stop, PeerSends

\* A batch is never empty.
LEMMA BatchNonEmpty ==
  ASSUME NEW q \in Seq(Messages), NEW n \in 1..Len(q)
  PROVE  SubSeq(q, 1, n) # <<>>
<1>1. \A i \in 1..n : q[i] \in Messages
  BY ElementOfSeq, LenProperties
<1>2. Len(SubSeq(q, 1, n)) = n
  BY <1>1, SubSeqProperties, LenProperties
<1> QED BY <1>2, EmptySeq

\* What write_frame does when it takes a batch.
LEMMA WriteFrameTakes ==
  ASSUME ConnTypeOK, WriteFrame, ~m_write_flag, m_send_queue # <<>>
  PROVE  /\ m_write_flag' = TRUE /\ m_current_msgs' # <<>>
         /\ m_current_msgs' \in Seq(Messages) /\ m_send_queue' \in Seq(Messages)
         /\ m_current_msgs' \o m_send_queue' = m_send_queue
         /\ UNCHANGED <<pushed, wire>>
<1>1. PICK n \in 1..Len(m_send_queue) :
        /\ m_current_msgs' = SubSeq(m_send_queue, 1, n)
        /\ m_send_queue' = SubSeq(m_send_queue, n + 1, Len(m_send_queue))
  BY DEF WriteFrame
<1>2. n \in 0..Len(m_send_queue)
  OBVIOUS
<1>3. m_write_flag' = TRUE /\ UNCHANGED <<pushed, wire>>
  BY DEF WriteFrame
<1> QED BY <1>1, <1>2, <1>3, CutQueue, BatchNonEmpty DEF ConnTypeOK

\* No step breaks the write flag's invariant.
LEMMA FlagStep ==
  ConnTypeOK /\ FlagHeldByWrite /\ [ConnNext]_connVars => FlagHeldByWrite'
<1> SUFFICES ASSUME ConnTypeOK, FlagHeldByWrite, [ConnNext]_connVars
             PROVE  FlagHeldByWrite'
  OBVIOUS
<1>1. CASE WriteFrame
  <2>1. CASE m_write_flag \/ m_send_queue = <<>>
    BY <1>1, <2>1, ClosedIsFinal DEF WriteFrame, writeVars, FlagHeldByWrite
  <2>2. CASE ~(m_write_flag \/ m_send_queue = <<>>)
    BY <1>1, <2>2, WriteFrameTakes DEF FlagHeldByWrite
  <2> QED BY <2>1, <2>2
<1>2. CASE WriteOk
  <2>1. m_current_msgs' = <<>>
    BY <1>2 DEF WriteOk
  <2>2. CASE m_current_msgs[Len(m_current_msgs)] = "abort"
    BY <1>2, <2>1, <2>2, TerminateType DEF WriteOk, FlagHeldByWrite
  <2>3. CASE m_current_msgs[Len(m_current_msgs)] # "abort"
    <3>1. m_write_flag' = FALSE
      BY <1>2, <2>3 DEF WriteOk
    <3> QED BY <2>1, <3>1 DEF FlagHeldByWrite
  <2> QED BY <2>2, <2>3
<1>3. CASE WriteError
  BY <1>3, TerminateType DEF WriteError, FlagHeldByWrite
<1>4. CASE ~WriteFrame /\ ~WriteOk /\ ~WriteError
  BY <1>4, WritePathOnly, ClosedIsFinal DEF FlagHeldByWrite
<1> QED BY <1>1, <1>2, <1>3, <1>4

\* Outside write_frame and the completions, a step either leaves the queue and
\* its writers alone, or pushes and sees to a writer, or is SendPost.
LEMMA QueueSteps ==
  ASSUME ConnTypeOK, [ConnNext]_connVars, ~WriteFrame, ~WriteOk, ~WriteError
  PROVE  \/ UNCHANGED <<m_send_queue, pushed, posted, sender>>
         \/ \E m \in Control : PushFromLoop(m) /\ sender' = sender
         \/ \E m \in Data : SendCheck(m)
         \/ SendPush
         \/ SendPost
BY DEF ConnNext, LoopStep, AppStep, connVars, queueVars, OpenOk, OpenBadExtensions,
       OpenFail, ReadCompletes, ReadError, ReadText, ReadPing, ReadClose,
       ReadInvalid, Consume, CloseTimeout, HandleTerminate, LoopReturns, Connect,
       HandlerReturns, Stop, PeerSends, Control

\* No step strands a queued message.
LEMMA NoStrandedStep ==
  ConnTypeOK /\ FlagHeldByWrite /\ NoStrandedMessage /\ [ConnNext]_connVars
    => NoStrandedMessage'
<1> SUFFICES ASSUME ConnTypeOK, FlagHeldByWrite, NoStrandedMessage,
                    [ConnNext]_connVars
             PROVE  NoStrandedMessage'
  OBVIOUS
<1>t. posted \in Nat
  BY DEF ConnTypeOK
<1>1. CASE WriteFrame
  <2>1. CASE m_send_queue = <<>>
    BY <1>1, <2>1 DEF WriteFrame, queueVars, NoStrandedMessage
  <2>2. CASE m_write_flag
    BY <1>1, <2>2 DEF WriteFrame, writeVars, NoStrandedMessage
  <2>3. CASE ~m_write_flag /\ m_send_queue # <<>>
    BY <1>1, <2>3, WriteFrameTakes DEF NoStrandedMessage
  <2> QED BY <2>1, <2>2, <2>3
<1>2. CASE WriteOk
  <2>1. m_write_flag /\ m_send_queue' = m_send_queue
    BY <1>2 DEF WriteOk, queueVars, FlagHeldByWrite
  <2>2. CASE m_current_msgs[Len(m_current_msgs)] = "abort"
    BY <1>2, <2>1, <2>2 DEF WriteOk, NoStrandedMessage
  <2>3. CASE m_current_msgs[Len(m_current_msgs)] # "abort"
    BY <1>t, <1>2, <2>1, <2>3 DEF WriteOk, NoStrandedMessage
  <2> QED BY <2>2, <2>3
<1>3. CASE WriteError
  BY <1>3 DEF WriteError, FlagHeldByWrite, NoStrandedMessage
<1>4. CASE ~WriteFrame /\ ~WriteOk /\ ~WriteError
  <2>1. m_write_flag' = m_write_flag
    BY <1>4, WritePathOnly
  <2>2. CASE UNCHANGED <<m_send_queue, pushed, posted, sender>>
    BY <2>1, <2>2 DEF NoStrandedMessage
  <2>3. CASE \E m \in Control : PushFromLoop(m) /\ sender' = sender
    BY <1>t, <2>1, <2>3 DEF PushFromLoop, NoStrandedMessage
  <2>4. CASE \E m \in Data : SendCheck(m)
    BY <2>1, <2>4 DEF SendCheck, NoSender, queueVars, NoStrandedMessage
  <2>5. CASE SendPush
    BY <2>1, <2>5 DEF SendPush, NoStrandedMessage
  <2>6. CASE SendPost
    BY <1>t, <2>1, <2>6 DEF SendPost, NoStrandedMessage
  <2> QED BY <1>4, <2>2, <2>3, <2>4, <2>5, <2>6, QueueSteps
<1> QED BY <1>1, <1>2, <1>3, <1>4

\* While the connection is not closed, either a write is outstanding, or a
\* write_frame is on its way to every queued message.
THEOREM NoStranded == ConnSafety => [](FlagHeldByWrite /\ NoStrandedMessage)
<1>1. ConnInit => FlagHeldByWrite /\ NoStrandedMessage
  BY DEF ConnInit, FlagHeldByWrite, NoStrandedMessage
<1>2. ConnTypeOK /\ FlagHeldByWrite /\ NoStrandedMessage /\ [ConnNext]_connVars
        => FlagHeldByWrite' /\ NoStrandedMessage'
  BY FlagStep, NoStrandedStep
<1> QED BY <1>1, <1>2, ConnTypeCorrect, PTL DEF ConnSafety

-----------------------------------------------------------------------------
(* Order.  InOrder is not inductive: a step that writes needs to know that *)
(* what is in flight and queued is the rest of what was pushed.  Once a    *)
(* write has failed, or a terminal frame was written, the flag stays set   *)
(* with nothing in flight and nothing is written any more.                 *)

Finished == m_write_flag /\ m_current_msgs = <<>>

Accounted == pushed = (wire \o m_current_msgs) \o m_send_queue

InOrderInv == InOrder /\ (Finished \/ Accounted)

\* A sequence that continues wire has wire as its prefix.
LEMMA PrefixOfConcat ==
  ASSUME NEW w \in Seq(Messages), NEW r \in Seq(Messages)
  PROVE  Len(w) <= Len(w \o r) /\ w = SubSeq(w \o r, 1, Len(w))
<1>1. /\ Len(w) \in Nat /\ Len(r) \in Nat
      /\ w \o r \in Seq(Messages) /\ Len(w \o r) = Len(w) + Len(r)
      /\ \A i \in 1..Len(w) : (w \o r)[i] = w[i]
  BY ConcatProperties, LenProperties
<1>2. /\ SubSeq(w \o r, 1, Len(w)) \in Seq(Messages)
      /\ Len(SubSeq(w \o r, 1, Len(w))) = Len(w)
      /\ \A i \in 1..Len(w) : SubSeq(w \o r, 1, Len(w))[i] = (w \o r)[i]
  <2>1. \A i \in 1..Len(w) : (w \o r)[i] \in Messages
    BY <1>1, ElementOfSeq
  <2>2. 1 \in Int /\ Len(w) \in Int
    BY <1>1
  <2> QED BY <1>1, <2>1, <2>2, SubSeqProperties
<1>3. w = SubSeq(w \o r, 1, Len(w))
  BY <1>1, <1>2, SeqEqual
<1> QED BY <1>1, <1>3

\* A prefix stays one when an element is appended.
LEMMA PrefixOfAppend ==
  ASSUME NEW w \in Seq(Messages), NEW p \in Seq(Messages), NEW m \in Messages,
         Len(w) <= Len(p), w = SubSeq(p, 1, Len(w))
  PROVE  Len(w) <= Len(Append(p, m)) /\ w = SubSeq(Append(p, m), 1, Len(w))
<1> DEFINE pm == Append(p, m)
<1>1. /\ Len(w) \in Nat /\ Len(p) \in Nat /\ Len(w) <= Len(p)
      /\ \A i \in 1..Len(p) : p[i] \in Messages
  BY ElementOfSeq, LenProperties
<1>2. /\ pm \in Seq(Messages) /\ Len(pm) = Len(p) + 1
      /\ \A i \in 1..Len(p) : pm[i] = p[i]
  BY AppendProperties
<1>3. \A i \in 1..Len(w) : w[i] = p[i]
  <2>1. \A i \in 1..Len(w) : p[i] \in Messages
    BY <1>1
  <2>2. \A i \in 1..(Len(w) - 1 + 1) : SubSeq(p, 1, Len(w))[i] = p[1 + i - 1]
    BY <1>1, <2>1, SubSeqProperties
  <2> QED BY <1>1, <2>2
<1>4. /\ SubSeq(pm, 1, Len(w)) \in Seq(Messages)
      /\ Len(SubSeq(pm, 1, Len(w))) = Len(w)
      /\ \A i \in 1..Len(w) : SubSeq(pm, 1, Len(w))[i] = pm[i]
  <2>1. \A i \in 1..Len(w) : pm[i] \in Messages
    BY <1>1, <1>2
  <2> QED BY <1>1, <2>1, SubSeqProperties
<1>5. \A i \in 1..Len(w) : w[i] = SubSeq(pm, 1, Len(w))[i]
  BY <1>1, <1>2, <1>3, <1>4
<1>6. w = SubSeq(pm, 1, Len(w))
  BY <1>4, <1>5, SeqEqual
<1> QED BY <1>1, <1>2, <1>6

\* A push keeps the account: it lengthens both sides by the message.
LEMMA PushInOrder ==
  ASSUME ConnTypeOK, InOrderInv, NEW m \in Messages,
         m_send_queue' = Append(m_send_queue, m), pushed' = Append(pushed, m),
         UNCHANGED <<m_write_flag, m_current_msgs, wire>>
  PROVE  InOrderInv'
<1>1. InOrder'
  BY PrefixOfAppend DEF InOrderInv, InOrder, ConnTypeOK
<1>2. Accounted => Accounted'
  <2> SUFFICES ASSUME Accounted PROVE Accounted'
    OBVIOUS
  <2> DEFINE written == wire \o m_current_msgs
  <2>1. written \in Seq(Messages) /\ <<m>> \in Seq(Messages)
    BY ConcatProperties DEF ConnTypeOK
  <2>2. pushed' = (written \o m_send_queue) \o <<m>>
    BY AppendIsConcat DEF Accounted, ConnTypeOK
  <2>3. m_send_queue' = m_send_queue \o <<m>>
    BY AppendIsConcat DEF ConnTypeOK
  <2>4. pushed' = written \o m_send_queue'
    <3> HIDE DEF written
    <3>1. m_send_queue \in Seq(Messages)
      BY DEF ConnTypeOK
    <3>2. (written \o m_send_queue) \o <<m>> = written \o (m_send_queue \o <<m>>)
      BY <2>1, <3>1, Regroup
    <3> QED BY <2>2, <2>3, <3>2
  <2> QED BY <2>4 DEF Accounted
<1> QED BY <1>1, <1>2 DEF InOrderInv, Finished

\* No step breaks the order of the messages.
LEMMA InOrderStep ==
  ConnTypeOK /\ FlagHeldByWrite /\ InOrderInv /\ [ConnNext]_connVars => InOrderInv'
<1> SUFFICES ASSUME ConnTypeOK, FlagHeldByWrite, InOrderInv, [ConnNext]_connVars
             PROVE  InOrderInv'
  OBVIOUS
<1>t. /\ wire \in Seq(Messages) /\ m_current_msgs \in Seq(Messages)
      /\ m_send_queue \in Seq(Messages)
  BY DEF ConnTypeOK
<1>1. CASE WriteFrame
  <2>1. CASE m_write_flag \/ m_send_queue = <<>>
    BY <1>1, <2>1 DEF WriteFrame, queueVars, writeVars, InOrderInv, InOrder, Finished,
                      Accounted
  <2>2. CASE ~(m_write_flag \/ m_send_queue = <<>>)
    <3>1. Accounted /\ m_current_msgs = <<>>
      BY <2>2 DEF InOrderInv, Finished, FlagHeldByWrite
    <3>2. pushed = wire \o m_send_queue
      BY <1>t, <3>1, ConcatEmptySeq DEF Accounted
    <3>3. /\ m_current_msgs' \in Seq(Messages) /\ m_send_queue' \in Seq(Messages)
          /\ m_current_msgs' \o m_send_queue' = m_send_queue
          /\ UNCHANGED <<pushed, wire>>
      BY <1>1, <2>2, WriteFrameTakes
    <3>4. Accounted'
      BY <1>t, <3>2, <3>3, Regroup DEF Accounted
    <3> QED BY <3>3, <3>4 DEF InOrderInv, InOrder
  <2> QED BY <2>1, <2>2
<1>2. CASE WriteOk
  <2>1. /\ wire' = wire \o m_current_msgs /\ m_current_msgs' = <<>>
        /\ UNCHANGED <<m_send_queue, pushed>>
    BY <1>2 DEF WriteOk, queueVars
  <2>2. pushed = (wire \o m_current_msgs) \o m_send_queue
    BY <1>2 DEF WriteOk, InOrderInv, Finished, Accounted
  <2>3. wire' \in Seq(Messages) /\ wire' \o m_current_msgs' = wire'
    BY <1>t, <2>1, ConcatProperties, ConcatEmptySeq
  <2>4. Accounted'
    BY <2>1, <2>2, <2>3 DEF Accounted
  <2>5. InOrder'
    BY <1>t, <2>1, <2>2, <2>3, PrefixOfConcat DEF InOrder
  <2> QED BY <2>4, <2>5 DEF InOrderInv
<1>3. CASE WriteError
  <2>1. PICK k \in 0..Len(m_current_msgs) : wire' = wire \o SubSeq(m_current_msgs, 1, k)
    BY <1>3 DEF WriteError
  <2> DEFINE sent == SubSeq(m_current_msgs, 1, k)
             lost == SubSeq(m_current_msgs, k + 1, Len(m_current_msgs))
  <2>2. /\ sent \in Seq(Messages) /\ lost \in Seq(Messages)
        /\ sent \o lost = m_current_msgs
    BY <1>t, CutQueue
  <2>3. Finished' /\ pushed' = pushed
    BY <1>3 DEF WriteError, queueVars, Finished, FlagHeldByWrite
  <2>4. pushed = (wire \o m_current_msgs) \o m_send_queue
    BY <1>3 DEF WriteError, InOrderInv, Finished, Accounted
  <2> HIDE DEF sent, lost
  <2>5. wire' = wire \o sent
    BY <2>1 DEF sent
  <2>6. wire \o m_current_msgs = wire' \o lost
    BY <1>t, <2>2, <2>5, Regroup
  <2>7. wire' \in Seq(Messages) /\ lost \o m_send_queue \in Seq(Messages)
    BY <1>t, <2>2, <2>5, ConcatProperties
  <2>8. pushed = wire' \o (lost \o m_send_queue)
    <3>1. pushed = (wire' \o lost) \o m_send_queue
      BY <2>4, <2>6
    <3>2. lost \in Seq(Messages) /\ m_send_queue \in Seq(Messages)
      BY <1>t, <2>2
    <3>3. \A w \in Seq(Messages) :
            (w \o lost) \o m_send_queue = w \o (lost \o m_send_queue)
      BY <3>2, Regroup
    <3>4. wire' \in Seq(Messages)
      BY <2>7
    <3> QED BY <3>1, <3>3, <3>4
  <2>9. InOrder'
    BY <2>3, <2>7, <2>8, PrefixOfConcat DEF InOrder
  <2> QED BY <2>3, <2>9 DEF InOrderInv
<1>4. CASE ~WriteFrame /\ ~WriteOk /\ ~WriteError
  <2>1. UNCHANGED <<m_write_flag, m_current_msgs, wire>>
    BY <1>4, WritePathOnly
  <2>2. CASE UNCHANGED <<m_send_queue, pushed>>
    BY <2>1, <2>2 DEF InOrderInv, InOrder, Finished, Accounted
  <2>3. CASE \E m \in Control : PushFromLoop(m)
    BY <2>1, <2>3, PushInOrder DEF PushFromLoop, Messages
  <2>4. CASE SendPush
    BY <2>1, <2>4, SenderMsg, PushInOrder DEF SendPush, ConnTypeOK, Messages
  <2>5. CASE (\E m \in Data : SendCheck(m)) \/ SendPost
    BY <2>2, <2>5 DEF SendCheck, SendPost, queueVars
  <2> QED BY <1>4, <2>2, <2>3, <2>4, <2>5, QueueSteps
<1> QED BY <1>1, <1>2, <1>3, <1>4

\* The peer receives the messages in the order they were queued, without gaps or
\* repetitions, whatever the errors and whatever the two threads interleave.
THEOREM DeliveredInOrder == ConnSafety => []InOrder
<1>1. ConnInit => InOrderInv
  <2>1. <<>> \in Seq(Messages) /\ Len(<<>>) = 0
    BY EmptySeq
  <2>2. <<>> \o <<>> = <<>> /\ SubSeq(<<>>, 1, 0) = <<>>
    BY <2>1, ConcatEmptySeq, SubSeqEmpty
  <2> QED BY <2>1, <2>2 DEF ConnInit, InOrderInv, InOrder, Accounted
<1>2. InOrderInv => InOrder
  BY DEF InOrderInv
<1> QED BY <1>1, <1>2, InOrderStep, ConnTypeCorrect, NoStranded, PTL DEF ConnSafety
-----------------------------------------------------------------------------
(* What a step may never do.                                               *)

\* A handler is entered when none runs, by a step of a connection that is not
\* closed; the fail handler alone is called later.
LEMMA CallsOfLiveConnection ==
  ASSUME [ConnNext]_connVars, callback'.handler \in {"open", "message"},
         callback' # callback
  PROVE  m_state \in {"connecting", "open"}
<1>1. CASE ReadText
  BY <1>1 DEF ReadText, callVars
<1>2. CASE OpenOk \/ OpenBadExtensions
  BY <1>2 DEF OpenOk, OpenBadExtensions
<1>3. CASE HandleTerminate
  BY <1>3 DEF HandleTerminate, Call, callVars
<1>4. CASE HandlerReturns
  BY <1>4 DEF HandlerReturns, NoCall
<1>5. CASE ~ReadText /\ ~OpenOk /\ ~OpenBadExtensions /\ ~HandleTerminate
           /\ ~HandlerReturns
  BY <1>5 DEF ConnNext, LoopStep, AppStep, connVars, callVars, WriteFrame, WriteOk,
     WriteError, OpenFail, ReadCompletes, ReadError, ReadPing, ReadClose, ReadInvalid,
     CloseTimeout, LoopReturns, Connect, SendCheck, SendPush, SendPost, Stop, PeerSends
<1> QED BY <1>1, <1>2, <1>3, <1>4, <1>5

\* Frames that were buffered when the connection closed do not reach the
\* application, however many there were.
THEOREM NoneCalledOnceClosed == ConnSafety => NoCallAfterClose
<1>1. [ConnNext]_connVars
        => [callback'.handler \in {"open", "message"} /\ callback' # callback
              => m_state # "closed"]_connVars
  BY CallsOfLiveConnection
<1> QED BY <1>1, PTL DEF ConnSafety, NoCallAfterClose

\* The messages in flight are replaced by others only after their completion:
\* it is the write flag, held for as long as they are there, that write_frame
\* looks at.
LEMMA BatchStep ==
  ConnTypeOK /\ FlagHeldByWrite /\ [ConnNext]_connVars
    => (m_current_msgs # <<>> => m_current_msgs' \in {m_current_msgs, <<>>})
<1> SUFFICES ASSUME ConnTypeOK, FlagHeldByWrite, [ConnNext]_connVars,
                    m_current_msgs # <<>>
             PROVE  m_current_msgs' \in {m_current_msgs, <<>>}
  OBVIOUS
<1>1. CASE WriteFrame
  BY <1>1 DEF WriteFrame, writeVars, FlagHeldByWrite
<1>2. CASE WriteOk \/ WriteError
  BY <1>2 DEF WriteOk, WriteError
<1>3. CASE ~WriteFrame /\ ~WriteOk /\ ~WriteError
  BY <1>3, WritePathOnly
<1> QED BY <1>1, <1>2, <1>3

\* At most one asynchronous write of the connection is in flight.
THEOREM OneWriteAtATime == ConnSafety => OneWriteInFlight
<1>1. ConnTypeOK /\ FlagHeldByWrite /\ [ConnNext]_connVars
        => [m_current_msgs # <<>> => m_current_msgs' \in {m_current_msgs, <<>>}]_connVars
  BY BatchStep
<1> QED BY <1>1, ConnTypeCorrect, NoStranded, PTL DEF ConnSafety, OneWriteInFlight
=============================================================================
