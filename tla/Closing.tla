------------------------------ MODULE Closing ------------------------------
(***************************************************************************)
(* The closing handshake of two connections that are open to each other:   *)
(* the codes and reasons each end records, sends and receives, the order   *)
(* of the frames and the end of the socket.  The client's end may be a     *)
(* stranger, which sends whatever it likes.  A channel delivers what was   *)
(* written in order, and the end of the file after it.                     *)
(***************************************************************************)
EXTENDS Integers, SequencesExt, Utf8Validator

CONSTANTS
  CloseWith,        \* what the application closes with: [code, reason]
  StrangePayloads,  \* payloads of a stranger's close frames
  close_reason_size, \* 123 in the code
  MaxMessages       \* bound: messages each end sends before it closes

\* Codes are 16 bits wide, reasons and payloads are bytes.
ASSUME ClosingAssumption ==
  /\ \A with \in CloseWith : /\ with.code \in Nat /\ with.code < 65536
                              /\ with.reason \in Seq(0..255)
  /\ StrangePayloads \subseteq Seq(0..255)
  /\ close_reason_size \in Nat /\ MaxMessages \in Nat

VARIABLE k

Sides    == {"client", "server"}
Peer(s)  == IF s = "client" THEN "server" ELSE "client"

blank == 0
normal == 1000
protocol_error == 1002
no_status == 1005
abnormal_close == 1006

ClosingEnd == [m_state |-> "open", m_was_clean |-> FALSE, m_ec |-> "none",
               local |-> abnormal_close, local_reason |-> <<>>,
               remote |-> abnormal_close, remote_reason |-> <<>>,
               timer |-> FALSE, m_send_queue |-> <<>>, m_current_msgs |-> <<>>,
               incoming |-> <<>>, sends |-> 0, sent |-> <<>>, refused |-> FALSE,
               reported |-> <<>>]

\* Bound: a configuration that closes silently does not also drop.
ClosingInit ==
  \E stranger \in BOOLEAN, silent \in BOOLEAN, drop \in BOOLEAN :
    /\ ~(silent /\ drop)
    /\ k = [stranger |-> stranger, silent_close |-> silent,
            drop_on_protocol_error |-> drop, end |-> [s \in Sides |-> ClosingEnd]]

Ours(s) == s = "server" \/ ~k.stranger
Step(s, d) == k' = [k EXCEPT !.end[s] = d]

-----------------------------------------------------------------------------
(* close.hpp                                                               *)

reserved_code(code) == code \in 1016..2999 \cup {1004}
invalid_code(code) == code <= 999 \/ code >= 5000 \/ code \in {1005, 1006, 1015}
terminal_code(code) == code \in {1002, 1007, 1008, 1009, 1011}

\* The code a payload starts with, in network order.
extract_code(payload) ==
  IF payload = <<>> THEN [code |-> no_status, ok |-> TRUE]
  ELSE IF Len(payload) = 1 THEN [code |-> protocol_error, ok |-> FALSE]
  ELSE LET code == payload[1] * 256 + payload[2] IN
       [code |-> code, ok |-> ~invalid_code(code) /\ ~reserved_code(code)]

extract_reason(payload) ==
  LET reason == SubSeq(payload, 3, Len(payload)) IN
  [reason |-> reason, ok |-> FoldLeft(Decode, utf8_accept, reason) = utf8_accept]

-----------------------------------------------------------------------------
(* Sending a close frame.                                                  *)

\* hybi13's prepare_close: the codes that may not be sent, and the payload.
prepare_close(code, reason) ==
  [ok |-> /\ ~reserved_code(code)
          /\ invalid_code(code) => code = no_status
          /\ code = no_status => reason = <<>>
          /\ Len(reason) <= close_reason_size,
   payload |-> IF code = no_status THEN <<>>
               ELSE <<code \div 256, code % 256>> \o reason]

write_push(d, msg) == [d EXCEPT !.m_send_queue = Append(@, msg)]

\* The code and the reason an end of connection d is to record and send.
Chosen(d, code, reason, ack) ==
  CASE k.silent_close -> [code |-> no_status, reason |-> <<>>]
    [] ~k.silent_close /\ code # blank -> [code |-> code, reason |-> reason]
    [] ~k.silent_close /\ code = blank /\ ~ack -> [code |-> no_status, reason |-> <<>>]
    [] ~k.silent_close /\ code = blank /\ ack ->
         IF d.remote = no_status THEN [code |-> normal, reason |-> <<>>]
         ELSE [code |-> d.remote, reason |-> d.remote_reason]

\* They are recorded even when no frame can be made of them.
send_close_frame(d, code, reason, ack, terminal) ==
  LET chosen == Chosen(d, code, reason, ack)
      e == [d EXCEPT !.local = chosen.code, !.local_reason = chosen.reason]
      p == prepare_close(chosen.code, chosen.reason) IN
  IF ~p.ok THEN e
  ELSE write_push([e EXCEPT !.m_state = "closing", !.m_was_clean = @ \/ ack,
                            !.timer = TRUE],
                  [op |-> "close", payload |-> p.payload, terminal |-> terminal])

send_close_ack(s, d, code, reason) ==
  send_close_frame(d, code, reason, TRUE, s = "server")

\* A reason that is too long is cut, wherever that falls.
Close(s, code, reason) ==
  /\ Ours(s) /\ k.end[s].m_state = "open"
  /\ Step(s, send_close_frame(k.end[s], code,
               SubSeq(reason, 1, IF Len(reason) < close_reason_size
                                 THEN Len(reason) ELSE close_reason_size),
               FALSE, terminal_code(code)))

Send(s) ==
  /\ Ours(s) /\ k.end[s].m_state = "open" /\ k.end[s].sends < MaxMessages
  /\ Step(s, write_push([k.end[s] EXCEPT !.sends = @ + 1],
                        [op |-> "text", payload |-> <<>>, terminal |-> FALSE]))

\* An error takes the place of what was recorded, whatever the state.
terminate_with(d, ec) ==
  LET e == IF ec = "none" THEN d
           ELSE [d EXCEPT !.m_ec = ec, !.local = abnormal_close, !.local_reason = <<>>]
  IN IF d.m_state = "closed" THEN [e EXCEPT !.timer = FALSE]
     ELSE [e EXCEPT !.timer = FALSE, !.m_state = "closed",
                    !.reported = <<[local |-> e.local, local_reason |-> e.local_reason,
                                    remote |-> e.remote, clean |-> e.m_was_clean,
                                    remote_reason |-> e.remote_reason, ec |-> e.m_ec]>>]

-----------------------------------------------------------------------------
(* Writing.  A terminal frame is the last of its batch and ends the socket *)
(* when it has been written.                                               *)

Batch(queue) == LET n == SelectInSeq(queue, LAMBDA m : m.terminal) IN
                IF n = 0 THEN queue ELSE SubSeq(queue, 1, n)

write_frame(s) ==
  LET d == k.end[s]  batch == Batch(d.m_send_queue)
      written == IF d.m_state = "closed" THEN <<>> ELSE batch IN
  /\ Ours(s) /\ d.m_current_msgs = <<>> /\ d.m_send_queue # <<>>
  /\ k' = [k EXCEPT
       !.end[s] = [d EXCEPT !.m_current_msgs = batch,
                            !.m_send_queue = SubSeq(@, Len(batch) + 1, Len(@)),
                            !.sent = @ \o written],
       !.end[Peer(s)].incoming = @ \o written]

handle_write_frame(s) ==
  LET d == k.end[s]  e == [d EXCEPT !.m_current_msgs = <<>>] IN
  /\ d.m_current_msgs # <<>>
  /\ \/ Step(s, terminate_with(e, "write"))
     \/ /\ IsSuffix(d.m_current_msgs, d.sent)
        /\ Step(s, IF Last(d.m_current_msgs).terminal THEN terminate_with(e, "none") ELSE e)

-----------------------------------------------------------------------------
(* Reading.                                                                *)

\* Mutant: a close frame is acknowledged in any state.
process_close_always(s, d, payload) ==
  LET code == extract_code(payload)
      reason == extract_reason(payload)
      e == [d EXCEPT !.remote = code.code, !.remote_reason = reason.reason] IN
  IF ~code.ok \/ ~reason.ok THEN [e EXCEPT !.refused = TRUE]
  ELSE send_close_ack(s, e, blank, <<>>)

\* An invalid code or reason is acknowledged even if a close frame was sent
\* before; a client leaves the socket for the server to close.
process_close(s, d, payload) ==
  LET code == extract_code(payload)
      reason == extract_reason(payload)
      coded == [d EXCEPT !.remote = code.code]
      e == IF code.ok THEN [coded EXCEPT !.remote_reason = reason.reason] ELSE coded
      bad == [e EXCEPT !.refused = TRUE] IN
  IF ~code.ok \/ ~reason.ok
  THEN IF k.drop_on_protocol_error THEN terminate_with(bad, "invalid_close")
       ELSE send_close_ack(s, bad, protocol_error, <<>>)
  ELSE IF d.m_state = "open" THEN send_close_ack(s, e, blank, <<>>)
  ELSE IF d.m_was_clean THEN e
  ELSE IF s = "server" THEN terminate_with([e EXCEPT !.m_was_clean = TRUE], "none")
  ELSE [e EXCEPT !.m_was_clean = TRUE]

ReadFrame(s) ==
  LET d == k.end[s] IN
  /\ Ours(s) /\ d.incoming # <<>> /\ d.m_state # "closed"
  /\ LET e == [d EXCEPT !.incoming = Tail(@)]  msg == Head(d.incoming) IN
     Step(s, IF msg.op = "close" THEN process_close(s, e, msg.payload) ELSE e)

\* A client that is closing takes the end of the file for the server's close.
ReadEof(s) ==
  LET d == k.end[s] IN
  /\ Ours(s) /\ d.incoming = <<>> /\ d.m_state # "closed"
  /\ k.end[Peer(s)].m_state = "closed"
  /\ Step(s, terminate_with(d, IF d.m_state = "closing" /\ s = "client"
                          THEN "none" ELSE "eof"))

ReadFails(s) ==
  /\ Ours(s) /\ k.end[s].m_state # "closed"
  /\ Step(s, terminate_with(k.end[s], "read"))

handle_close_handshake_timeout(s) ==
  /\ k.end[s].timer
  /\ Step(s, terminate_with(k.end[s], "close_handshake_timeout"))

\* A stranger sends close frames and goes.
StrangerCloses ==
  /\ k.stranger /\ Len(k.end["client"].sent) < 2 /\ k.end["client"].m_state # "closed"
  /\ \E payload \in StrangePayloads :
       LET msg == [op |-> "close", payload |-> payload, terminal |-> FALSE] IN
       k' = [k EXCEPT !.end["client"].sent = Append(@, msg),
                      !.end["server"].incoming = Append(@, msg)]

StrangerGoes == /\ k.stranger /\ k.end["client"].m_state # "closed"
                /\ k' = [k EXCEPT !.end["client"].m_state = "closed"]

ClosingNext ==
  \/ \E s \in Sides :
       \/ \E with \in CloseWith : Close(s, with.code, with.reason)
       \/ Send(s) \/ write_frame(s) \/ handle_write_frame(s)
       \/ ReadFrame(s) \/ ReadEof(s) \/ ReadFails(s)
       \/ handle_close_handshake_timeout(s)
  \/ StrangerCloses \/ StrangerGoes

ClosingSafety == ClosingInit /\ [][ClosingNext]_k

-----------------------------------------------------------------------------
\* What end d has sent and is to send; where the close frames are in it; and
\* whether one that was sent carries a code and a reason.
AllFrames(d)   == d.sent \o d.m_send_queue
CloseFrames(d) == {i \in DOMAIN AllFrames(d) : AllFrames(d)[i].op = "close"}
Carries(m, code, reason) ==
  /\ extract_code(m.payload).code = code
  /\ extract_reason(m.payload).reason = reason
HasSent(sent, code, reason) ==
  \E j \in DOMAIN sent : sent[j].op = "close" /\ Carries(sent[j], code, reason)

\* An end never sends a code that is invalid on the wire, and sends one close
\* frame however the two ends' closes cross, unless it refused the peer's.
\* When a closing handshake completed and neither refused a code or a reason,
\* each end reports the code and the reason that the other put on the wire and
\* reports as its own.
ClosesAgree ==
  \A s \in Sides : Ours(s) =>
    LET d == k.end[s]  o == k.end[Peer(s)] IN
    /\ \A i \in CloseFrames(d) : extract_code(AllFrames(d)[i].payload).ok
    /\ \A i, j \in CloseFrames(d) : i = j \/ d.refused
    /\ \A i \in DOMAIN d.reported :
         LET r == d.reported[i] IN
         r.clean /\ r.ec = "none" /\ ~d.refused /\ ~o.refused =>
           /\ HasSent(o.sent, r.remote, r.remote_reason)
           /\ \A j \in DOMAIN o.reported :
                o.reported[j].ec = "none" =>
                  /\ o.reported[j].local = r.remote
                  /\ o.reported[j].local_reason = r.remote_reason

\* connection.hpp: "All messages sent prior to calling close will be written
\* out before the connection is closed", at the least when it closes cleanly.
WrittenBeforeClosed ==
  \A s \in Sides :
    k.end[s].m_state = "closed" /\ k.end[s].m_was_clean =>
      \A i \in DOMAIN k.end[s].m_send_queue : k.end[s].m_send_queue[i].op # "text"
=============================================================================
