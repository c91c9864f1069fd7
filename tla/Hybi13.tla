------------------------------- MODULE Hybi13 -------------------------------
(***************************************************************************)
(* The hybi13 processor of one end of a connection: consume(), which is    *)
(* given the peer's bytes in pieces of any length, and the prepare_        *)
(* functions the peer's own processor makes frames with.                   *)
(*                                                                         *)
(* A frame is a record; on the wire it is a row of cells, one for each     *)
(* byte, of which only the payload's bytes are told apart.  The limits are *)
(* parameters so that every form of the length occurs with few bytes, and  *)
(* a size_t wraps at WordSize.  permessage-deflate is off, as in the       *)
(* program's configuration: a frame with rsv1 is invalid.                  *)
(***************************************************************************)
EXTENDS Utf8Validator

CONSTANTS
  Raw,             \* frames a peer may send without the library's help
  Outgoing,        \* messages the peer gives its own processor
  MaxFrames,       \* bound: frames in one behaviour
  PieceSizes,      \* how many bytes a read delivers
  Basic, Extended, \* payload_size_basic and payload_size_extended
  WordSize,        \* 2^w for a size_t of w bits
  m_max_message_size

Controls == {"close", "ping", "pong"}
Opcodes == Controls \cup {"text", "binary", "cont", "reserved"}

\* Seven bits hold no longer length, and the bytes past a frame's length are
\* not its own; a peer may stop before the last of them.
Frames ==
  {f \in [op : Opcodes, fin : BOOLEAN, rsv1 : BOOLEAN, rsv23 : BOOLEAN, masked : BOOLEAN,
          form : {"7", "16", "64"}, size : Nat, bytes : Seq(0..255)] :
     (f.form = "7" => f.size <= Basic) /\ Len(f.bytes) <= f.size}

ASSUME Hybi13Assumption ==
  /\ Basic \in Nat /\ Extended \in Nat /\ Basic < Extended
  /\ WordSize \in Nat \ {0} /\ m_max_message_size \in Nat /\ MaxFrames \in Nat
  /\ PieceSizes \subseteq Nat \ {0}
  /\ Raw \subseteq Frames
  /\ Outgoing \subseteq [op : Opcodes, fin : BOOLEAN, bytes : Seq(0..255)]

VARIABLE p    \* the processor, and the bytes on their way to it

-----------------------------------------------------------------------------
(* The outgoing side: what the prepare_ functions make of a message, or    *)
(* {} where they return an error.                                          *)

LengthForm(n) == IF n <= Basic THEN "7" ELSE IF n <= Extended THEN "16" ELSE "64"

Framed(op, fin, server, bytes) ==
  [op |-> op, fin |-> fin, rsv1 |-> FALSE, rsv23 |-> FALSE, masked |-> ~server,
   form |-> LengthForm(Len(bytes)), size |-> Len(bytes), bytes |-> bytes]

\* validator::decode: its state after each of the bytes.  None leads out of
\* utf8_reject, where it stops.
decode(state, bytes) ==
  LET after[i \in 0..Len(bytes)] ==
        IF i = 0 THEN state ELSE Decode(after[i - 1], bytes[i])
  IN after

validate(bytes) == decode(utf8_accept, bytes)[Len(bytes)] = utf8_accept

\* Mutant: a text is not validated before it is sent.
PrepareUnvalidated(m, server) ==
  IF m.op \in Controls THEN {} ELSE {Framed(m.op, m.fin, server, m.bytes)}

prepare_data_frame(m, server) ==
  IF m.op \in Controls \/ (m.op = "text" /\ ~validate(m.bytes)) THEN {}
  ELSE {Framed(m.op, m.fin, server, m.bytes)}

prepare_control(m, server) ==
  IF m.op \notin Controls \/ Len(m.bytes) > Basic THEN {}
  ELSE {Framed(m.op, TRUE, server, m.bytes)}

Prepared(server) ==
  UNION {prepare_data_frame(m, server) \cup prepare_control(m, server) : m \in Outgoing}

-----------------------------------------------------------------------------
(* The wire.                                                               *)

\* get_header_len less the basic header: the length's bytes and the key's.
ExtendedLength(f) == (IF f.form = "7" THEN 0 ELSE IF f.form = "16" THEN 2 ELSE 8)
                       + (IF f.masked THEN 4 ELSE 0)

\* Each cell names its frame; a masked payload byte the key byte it met.
Cells(f, id) ==
  [i \in 1..(2 + ExtendedLength(f)) |-> [frame |-> id, byte |-> -1, phase |-> 0]]
    \o [i \in 1..Len(f.bytes) |-> [frame |-> id, byte |-> f.bytes[i],
                                   phase |-> (i - 1) % 4]]

NoMsg == [op |-> "none", out |-> <<>>, validator |-> 0, frame |-> 0, phase |-> 0]

NewMsg(op, id) == [op |-> op, out |-> <<>>, validator |-> utf8_accept,
                   frame |-> id, phase |-> 0]

Hybi13Init ==
  p = [server |-> FALSE, frames |-> <<>>, wire |-> <<>>, buf |-> <<>>,
       m_state |-> "HEADER_BASIC", m_bytes_needed |-> 2, current |-> 0,
       data |-> NoMsg, control |-> NoMsg, delivered |-> <<>>, ec |-> "none",
       alone |-> TRUE, wrapped |-> FALSE]

ChooseRole == /\ p.frames = <<>> /\ ~p.server
              /\ p' = [p EXCEPT !.server = TRUE]

\* The peer sends its next frame, made by a processor of its own or not, and
\* however much of those before it was read.  What follows a frame that stops
\* short would be more of its payload, so nothing does.
PeerSends(f, prepared) ==
  /\ Len(p.frames) < MaxFrames /\ p.ec = "none"
  /\ \A i \in DOMAIN p.frames : Len(p.frames[i].bytes) = p.frames[i].size
  /\ p' = [p EXCEPT !.frames = Append(@, f), !.alone = @ /\ prepared,
                    !.wire = @ \o Cells(f, Len(p.frames) + 1)]

\* A read delivers n bytes, or all there are, the end of one frame and the next
\* ones among them; consume() is called with what it delivered, and again with
\* what is left each time it stopped at a message.
Read(n) ==
  /\ p.buf = <<>> /\ p.wire # <<>> /\ p.m_state # "READY" /\ p.ec = "none"
  /\ LET k == IF n < Len(p.wire) THEN n ELSE Len(p.wire) IN
     p' = [p EXCEPT !.buf = SubSeq(p.wire, 1, k),
                    !.wire = SubSeq(p.wire, k + 1, Len(p.wire))]

-----------------------------------------------------------------------------
(* consume(): each action is one turn of its loop, which goes on while     *)
(* there are bytes, or none are needed.                                    *)

Turn(state) == /\ p.m_state = state /\ p.ec = "none"
               /\ p.buf # <<>> \/ p.m_bytes_needed = 0

Take(n) == [p EXCEPT !.buf = SubSeq(@, n + 1, Len(@)), !.m_bytes_needed = @ - n]
AtMost(n) == IF n < Len(p.buf) THEN n ELSE Len(p.buf)

F == p.frames[p.current]
IsControl(f) == f.op \in Controls

\* Mutant: a control frame may be fragmented.
BasicErrorFragmented(f) ==
  \/ IsControl(f) /\ f.form # "7"
  \/ f.rsv1 \/ f.rsv23 \/ f.op = "reserved"
  \/ p.data = NoMsg /\ f.op = "cont"
  \/ p.data # NoMsg /\ ~IsControl(f) /\ f.op # "cont"
  \/ f.masked # p.server

\* validate_incoming_basic_header.
BasicError(f) ==
  \/ IsControl(f) /\ f.form # "7"
  \/ f.rsv1 \/ f.rsv23 \/ f.op = "reserved"
  \/ IsControl(f) /\ ~f.fin
  \/ p.data = NoMsg /\ f.op = "cont"
  \/ p.data # NoMsg /\ ~IsControl(f) /\ f.op # "cont"
  \/ f.masked # p.server

\* copy_basic_header_bytes and what follows a complete basic header.
BasicHeader ==
  /\ Turn("HEADER_BASIC")
  /\ p' = LET n == AtMost(p.m_bytes_needed)
              f == p.frames[p.buf[1].frame]
              d == [Take(n) EXCEPT !.current = p.buf[1].frame] IN
          IF n < p.m_bytes_needed THEN d
          ELSE IF BasicError(f) THEN [d EXCEPT !.ec = "protocol"]
          ELSE [d EXCEPT !.m_state = "HEADER_EXTENDED",
                         !.m_bytes_needed = ExtendedLength(f)]

\* validate_incoming_extended_header: the length is in its shortest form.
ExtendedError(f) == \/ f.form = "16" /\ f.size <= Basic
                    \/ f.form = "64" /\ f.size <= Extended

\* The sum that is compared wraps as a size_t does.
TooBig(n) == (Len(p.data.out) + n) % WordSize > m_max_message_size

\* The frame's message: a control's own, a new one, or the one it continues.
BeginPayload(d) ==
  LET e == [d EXCEPT !.m_state = "APPLICATION", !.m_bytes_needed = F.size] IN
  IF ExtendedError(F) THEN [d EXCEPT !.ec = "protocol"]
  ELSE IF IsControl(F) THEN [e EXCEPT !.control = NewMsg(F.op, p.current)]
  ELSE IF TooBig(F.size) THEN [e EXCEPT !.ec = "too_big"]
  ELSE [e EXCEPT !.data = IF p.data = NoMsg THEN NewMsg(F.op, p.current)
                          ELSE [p.data EXCEPT !.frame = p.current, !.phase = 0],
                 !.wrapped = @ \/ Len(p.data.out) + F.size >= WordSize]

ExtendedHeader ==
  /\ Turn("HEADER_EXTENDED")
  /\ p' = LET n == AtMost(p.m_bytes_needed) IN
          IF n < p.m_bytes_needed THEN Take(n) ELSE BeginPayload(Take(n))

\* A masked byte comes out right where the key byte it meets is its own.
Unmasked(m, i) ==
  LET cell == p.buf[i] IN
  IF ~F.masked \/ (cell.frame = m.frame /\ cell.phase = (m.phase + i - 1) % 4)
  THEN cell.byte ELSE 255 - cell.byte

\* process_payload_bytes: unmask, append, and validate a text message.
Appended(m, n) ==
  LET bytes == [i \in 1..n |-> Unmasked(m, i)] IN
  [m EXCEPT !.out = @ \o bytes, !.phase = (@ + n) % 4,
            !.validator = IF m.op = "text" THEN decode(@, bytes)[n] ELSE @]

Current(d) == IF IsControl(F) THEN d.control ELSE d.data

WithCurrent(d, m) == IF IsControl(F) THEN [d EXCEPT !.control = m]
                                     ELSE [d EXCEPT !.data = m]

reset_headers(d) == [d EXCEPT !.m_state = "HEADER_BASIC", !.m_bytes_needed = 2]

\* finalize_message: the code point is checked by the last frame's opcode.
EndFrame(d) ==
  IF ~F.fin THEN reset_headers(d)
  ELSE IF F.op = "text" /\ d.data.validator # utf8_accept
  THEN [d EXCEPT !.ec = "utf8"]
  ELSE [d EXCEPT !.m_state = "READY"]

Payload ==
  /\ Turn("APPLICATION")
  /\ p' = LET n == AtMost(p.m_bytes_needed)
              m == Appended(Current(p), n)
              d == WithCurrent(Take(n), m) IN
          IF m.validator = utf8_reject THEN [d EXCEPT !.ec = "utf8"]
          ELSE IF d.m_bytes_needed > 0 THEN d ELSE EndFrame(d)

\* Mutant: the message a control frame interrupts is dropped with it.
GetMessageDropsData ==
  /\ p.m_state = "READY"
  /\ p' = [reset_headers(p) EXCEPT
             !.delivered = Append(@, [op |-> Current(p).op, out |-> Current(p).out]),
             !.control = NoMsg, !.data = NoMsg]

\* get_message, by the caller of consume() once a message is ready.
GetMessage ==
  /\ p.m_state = "READY"
  /\ p' = WithCurrent(
            [reset_headers(p) EXCEPT
               !.delivered = Append(@, [op |-> Current(p).op, out |-> Current(p).out])],
            NoMsg)

Hybi13Next ==
  \/ ChooseRole
  \/ \E f \in Raw : PeerSends(f, FALSE)
  \/ \E f \in Prepared(~p.server) : PeerSends(f, TRUE)
  \/ \E n \in PieceSizes : Read(n)
  \/ BasicHeader \/ ExtendedHeader \/ Payload \/ GetMessage

-----------------------------------------------------------------------------
(* The reference: the messages in a row of whole frames, and the one that  *)
(* is open after them.                                                     *)

\* What a data frame makes of the open message, <<>> if there is none.
Joined(open, f) ==
  IF open = <<>> THEN [op |-> f.op, out |-> f.bytes]
  ELSE [open[1] EXCEPT !.out = @ \o f.bytes]

AfterFrame(a, f) ==
  IF IsControl(f)
  THEN [a EXCEPT !.messages = IF f.fin THEN Append(@, [op |-> f.op, out |-> f.bytes])
                              ELSE @]
  ELSE IF f.fin
  THEN [open |-> <<>>, messages |-> Append(a.messages, Joined(a.open, f))]
  ELSE [a EXCEPT !.open = <<Joined(a.open, f)>>]

Assembled(frames) ==
  LET after[i \in 0..Len(frames)] ==
        IF i = 0 THEN [open |-> <<>>, messages |-> <<>>]
        ELSE AfterFrame(after[i - 1], frames[i])
  IN after

Messages == Assembled(p.frames)[Len(p.frames)].messages

-----------------------------------------------------------------------------
\* However reads cut the stream, several frames in one or one in several, and
\* control frames interrupt a fragmented message, each message is delivered once,
\* whole, in order, with every byte unmasked by its own frame's key.
DeliversFrames ==
  /\ Len(p.delivered) <= Len(Messages)
  /\ p.delivered = SubSeq(Messages, 1, Len(p.delivered))
  /\ (p.wire = <<>> /\ p.buf = <<>> /\ p.ec = "none" /\ p.m_state = "HEADER_BASIC")
       => p.delivered = Messages

\* Whatever one end's processor agrees to send, the other end's accepts,
\* unless the message is longer than it allows, or the application began one
\* inside another or chose an opcode that begins none.
PreparedIsAccepted ==
  p.alone /\ (\A i \in DOMAIN p.frames :
               p.frames[i].fin /\ p.frames[i].op \notin {"cont", "reserved"})
    => p.ec \in {"none", "too_big"}

\* A message never outgrows the limit, except by a length whose sum wraps, and
\* a control frame its 125 bytes.
WithinLimits == /\ Len(p.data.out) <= m_max_message_size \/ p.wrapped
                /\ Len(p.control.out) <= Basic
                /\ p.control.op \in Controls => F.fin \/ ~IsControl(F)

\* hybi13.hpp: "ensure that text messages end on a valid UTF8 code point".
TextEndsOnCodePoint ==
  \A i \in DOMAIN p.delivered :
    p.delivered[i].op = "text" => validate(p.delivered[i].out)

Hybi13Spec == Hybi13Init /\ [][Hybi13Next]_p
=============================================================================
