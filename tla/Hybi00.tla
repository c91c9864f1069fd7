------------------------------- MODULE Hybi00 -------------------------------
(***************************************************************************)
(* The processor of the draft version 00, which a server falls back to for *)
(* a request without a version: the challenge of its handshake, whose last *)
(* part follows the request's head, and its framing, a text between a byte *)
(* 0 and a byte 255.  The peer is a client of its own.                     *)
(***************************************************************************)
EXTENDS Integers, SequencesExt, Utf8Validator

CONSTANTS
  Challenges,  \* [number, spaces] a client hides in Sec-WebSocket-Key1
  Noise,       \* a character of a key that is neither a digit nor a space
  Key3Bytes,   \* bytes of Sec-WebSocket-Key3: 8 in the code
  PeerBytes,   \* bytes a client sends
  Payloads00,  \* messages the application sends: [op, bytes]
  MaxKey, MaxStream, MaxSent   \* bounds on the key, the stream and the sends

ASSUME Hybi00Assumption == Key3Bytes \in Nat /\ {MaxKey, MaxStream, MaxSent} \subseteq Nat

VARIABLE h

msg_hdr == 0
msg_ftr == 255
IsDigit(x) == x \in 48..57

\* The decimal digits of n.
DigitsOf(n) ==
  LET of[m \in 0..n] == IF m < 10 THEN <<48 + m>>
                        ELSE Append(of[m \div 10], 48 + (m % 10)) IN of[n]

Hybi00Init ==
  \E challenge \in Challenges :
    h = [stage |-> "key", challenge |-> challenge, key |-> <<>>,
         digits |-> DigitsOf(challenge.number * challenge.spaces),
         spaces |-> challenge.spaces, key3 |-> <<>>, answer |-> <<>>,
         stream |-> <<>>, wire |-> <<>>, buf |-> <<>>, m_state |-> "HEADER",
         m_msg |-> <<>>, delivered |-> <<>>, out |-> <<>>, sent |-> <<>>]

-----------------------------------------------------------------------------
(* The client writes its key, with spaces and noise anywhere, then the     *)
(* request and the bytes that follow it.                                   *)

WriteKey1 ==
  /\ h.stage = "key" /\ Len(h.key) < MaxKey
  /\ \/ /\ h.digits # <<>>
        /\ h' = [h EXCEPT !.key = Append(@, Head(h.digits)), !.digits = Tail(@)]
     \/ /\ h.spaces > 0
        /\ h' = [h EXCEPT !.key = Append(@, 32), !.spaces = @ - 1]
     \/ h' = [h EXCEPT !.key = Append(@, Noise)]

SendRequest ==
  /\ h.stage = "key" /\ h.digits = <<>> /\ h.spaces = 0
  /\ h' = [h EXCEPT !.stage = "request"]

PeerWrites ==
  /\ h.stage \in {"request", "open"} /\ Len(h.stream) < MaxStream
  /\ \E b \in PeerBytes : h' = [h EXCEPT !.stream = Append(@, b), !.wire = Append(@, b)]

-----------------------------------------------------------------------------
(* The handshake.                                                          *)

\* The digits' number by the count of the spaces, and 0 if there are none.
\* Bound: a key's digits stay within 32 bits.
decode_client_key(key) ==
  LET spaces == Len(SelectSeq(key, LAMBDA x : x = 32))
      num == FoldLeft(LAMBDA n, x : 10 * n + (x - 48), 0, SelectSeq(key, IsDigit)) IN
  IF spaces > 0 /\ num > 0 THEN num \div spaces ELSE 0

validate_handshake00(r) == /\ r.method = "GET" /\ r.http11
                           /\ r.key1 # <<>> /\ r.key2 # <<>> /\ r.key3 # <<>>

\* The digest of the three keys: MD5 tells any two of them apart.
process_handshake00(r) ==
  <<"md5", decode_client_key(r.key1), decode_client_key(r.key2),
    SubSeq(r.key3, 1, Key3Bytes)>>

\* The read that completes the head brings n bytes of what follows it.  They
\* must hold key3; the ones beyond it are read first once the connection is
\* open.
HandleReadHandshake00 ==
  /\ h.stage = "request"
  /\ \E n \in 0..Len(h.wire), method \in {"GET", "POST"}, http11 \in BOOLEAN :
       LET r == [method |-> method, http11 |-> http11, key1 |-> h.key,
                 key2 |-> h.key, key3 |-> SubSeq(h.wire, 1, Key3Bytes)] IN
       h' = IF n < Key3Bytes \/ ~validate_handshake00(r)
            THEN [h EXCEPT !.stage = "refused"]
            ELSE [h EXCEPT !.stage = "open", !.key3 = r.key3, !.key = <<>>,
                           !.answer = process_handshake00(r),
                           !.buf = SubSeq(h.wire, Key3Bytes + 1, n),
                           !.wire = SubSeq(h.wire, n + 1, Len(h.wire))]

-----------------------------------------------------------------------------
(* Reading.                                                                *)

ReadCompletes00 ==
  /\ h.stage \in {"open", "closing"} /\ h.buf = <<>> /\ h.m_state # "READY"
  /\ \E n \in 1..Len(h.wire) :
       h' = [h EXCEPT !.buf = SubSeq(h.wire, 1, n),
                      !.wire = SubSeq(h.wire, n + 1, Len(h.wire))]

\* One call of consume(): what it appends to the message, how many bytes it
\* took and the state it leaves.
consume00(m_state, buf) ==
  LET from == IF m_state = "HEADER" THEN 2 ELSE 1
      at == SelectInSubSeq(buf, from, Len(buf), LAMBDA b : b = msg_ftr) IN
  IF m_state = "HEADER" /\ buf[1] # msg_hdr
  THEN [p |-> 0, payload |-> <<>>, m_state |-> "FATAL_ERROR"]
  ELSE IF at = 0
  THEN [p |-> Len(buf), payload |-> SubSeq(buf, from, Len(buf)), m_state |-> "PAYLOAD"]
  ELSE [p |-> at, payload |-> SubSeq(buf, from, at - 1), m_state |-> "READY"]

\* The close frame takes no code; nothing is sent once one has been.
prepare_close00 == <<255, 0>>
close00 == IF h.stage = "open" THEN h.out \o prepare_close00 ELSE h.out

\* Mutant: each read begins a message of its own.
Consume00Afresh ==
  /\ h.stage \in {"open", "closing"} /\ h.buf # <<>> /\ h.m_state # "READY"
  /\ LET r == consume00(h.m_state, h.buf) IN
     h' = IF r.m_state = "FATAL_ERROR"
          THEN [h EXCEPT !.m_state = r.m_state, !.out = close00, !.stage = "closed"]
          ELSE [h EXCEPT !.m_state = r.m_state, !.m_msg = r.payload,
                         !.buf = SubSeq(@, r.p + 1, Len(@))]

\* A byte that begins no text, a close frame's among them, is a protocol
\* error and ends the connection.
Consume00 ==
  /\ h.stage \in {"open", "closing"} /\ h.buf # <<>> /\ h.m_state # "READY"
  /\ LET r == consume00(h.m_state, h.buf) IN
     h' = IF r.m_state = "FATAL_ERROR"
          THEN [h EXCEPT !.m_state = r.m_state, !.out = close00, !.stage = "closed"]
          ELSE [h EXCEPT !.m_state = r.m_state, !.m_msg = @ \o r.payload,
                         !.buf = SubSeq(@, r.p + 1, Len(@))]

\* get_message and the dispatch, which only an open connection makes.
GetMessage00 ==
  /\ h.m_state = "READY"
  /\ h' = [h EXCEPT !.m_state = "HEADER", !.m_msg = <<>>,
                    !.delivered = IF h.stage = "open" THEN Append(@, h.m_msg) ELSE @]

-----------------------------------------------------------------------------
(* Writing.                                                                *)

\* Mutant: what is sent need not be UTF-8.
prepare_data_frame00_unvalidated(in) ==
  [ok |-> in.op = "text", bytes |-> <<msg_hdr>> \o in.bytes \o <<msg_ftr>>]

\* Text that is UTF-8, which never holds the byte that ends it.
prepare_data_frame00(in) ==
  [ok |-> in.op = "text" /\ FoldLeft(Decode, utf8_accept, in.bytes) = utf8_accept,
   bytes |-> <<msg_hdr>> \o in.bytes \o <<msg_ftr>>]

Send00 ==
  /\ h.stage = "open" /\ Len(h.sent) < MaxSent
  /\ \E in \in Payloads00 :
       /\ prepare_data_frame00(in).ok
       /\ h' = [h EXCEPT !.sent = Append(@, in.bytes),
                         !.out = @ \o prepare_data_frame00(in).bytes]

\* The application closes; a ping and a pong have no frame to be sent in.
Close00 ==
  /\ h.stage = "open"
  /\ h' = [h EXCEPT !.stage = "closing", !.out = close00]

Hybi00Next ==
  \/ WriteKey1 \/ SendRequest \/ PeerWrites \/ HandleReadHandshake00
  \/ ReadCompletes00 \/ Consume00 \/ GetMessage00 \/ Send00 \/ Close00

-----------------------------------------------------------------------------
\* The reference: the texts in a whole stream, up to a byte that begins none.
TextsIn(s) ==
  LET from[i \in 1..(Len(s) + 1)] ==
        LET at == SelectInSubSeq(s, i, Len(s), LAMBDA b : b = msg_ftr) IN
        IF i > Len(s) \/ at = 0 THEN <<>>
        ELSE IF s[i] # msg_hdr THEN <<>>
        ELSE <<SubSeq(s, i + 1, at - 1)>> \o from[at + 1]
  IN from[1]

\* The server answers the number the client hid, however the key was written,
\* with the client's own key3.  However reads cut the stream, what the
\* application gets is the texts that follow key3, in order; what it sends
\* reads back as the texts it sent.
Exchanges00 ==
  /\ h.answer # <<>> =>
       /\ h.answer = <<"md5", h.challenge.number, h.challenge.number, h.key3>>
       /\ h.key3 = SubSeq(h.stream, 1, Key3Bytes)
  /\ LET texts == TextsIn(SubSeq(h.stream, Key3Bytes + 1, Len(h.stream))) IN
     /\ IsPrefix(h.delivered, texts)
     /\ h.stage = "open" /\ h.wire = <<>> /\ h.buf = <<>> /\ h.m_state # "READY"
          => h.delivered = texts
  /\ TextsIn(h.out) = h.sent
=============================================================================
