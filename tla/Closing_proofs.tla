--------------------------- MODULE Closing_proofs ---------------------------
(***************************************************************************)
(* Proof that the two ends of a closing handshake agree, for every code    *)
(* and reason they close with and whatever a stranger sends.               *)
(***************************************************************************)
EXTENDS Closing, NatSets, SequenceTheorems

Byte == 0..255
Strings == Seq(Byte)

ECs == {"none", "write", "read", "eof", "close_handshake_timeout", "invalid_close"}
MessagesOfClosing == [op : {"close", "text"}, payload : Strings, terminal : BOOLEAN]
Reports == [local : Nat, local_reason : Strings, remote : Nat, clean : BOOLEAN,
            remote_reason : Strings, ec : ECs]
Ends == [m_state : {"open", "closing", "closed"}, m_was_clean : BOOLEAN, m_ec : ECs,
         local : Nat, local_reason : Strings, remote : Nat, remote_reason : Strings,
         timer : BOOLEAN, m_send_queue : Seq(MessagesOfClosing),
         m_current_msgs : Seq(MessagesOfClosing), incoming : Seq(MessagesOfClosing),
         sends : Nat, sent : Seq(MessagesOfClosing), refused : BOOLEAN,
         reported : Seq(Reports)]

ClosingTypeOK ==
  k \in [stranger : BOOLEAN, silent_close : BOOLEAN, drop_on_protocol_error : BOOLEAN,
         end : [Sides -> Ends]]

\* What is to be true of end d, to which the peer has sent os.
EndInv(d, os) ==
  /\ d.m_state = "open" => CloseFrames(d) = {}
  /\ d.m_ec # "none" \/ d.reported # <<>> => d.m_state = "closed"
  /\ \A i \in DOMAIN d.incoming : \E j \in DOMAIN os : d.incoming[i] = os[j]
  /\ \A i \in CloseFrames(d) : extract_code(AllFrames(d)[i].payload).ok
  /\ d.refused \/
       /\ \A i, j \in CloseFrames(d) : i = j
       /\ d.m_ec = "none" =>
            \A i \in CloseFrames(d) : Carries(AllFrames(d)[i], d.local, d.local_reason)
       /\ d.m_was_clean => HasSent(os, d.remote, d.remote_reason)
       /\ \A n \in DOMAIN d.reported :
            /\ d.reported[n].clean =>
                 HasSent(os, d.reported[n].remote, d.reported[n].remote_reason)
            /\ d.reported[n].ec = "none" =>
                 \A i \in CloseFrames(d) :
                   Carries(AllFrames(d)[i], d.reported[n].local,
                           d.reported[n].local_reason)

ClosingInv ==
  /\ k.stranger => /\ k.end["client"].m_current_msgs = <<>>
                   /\ ~k.end["client"].timer
                   /\ k.end["client"].reported = <<>>
  /\ \A s \in Sides : Ours(s) => EndInv(k.end[s], k.end[Peer(s)].sent)

-----------------------------------------------------------------------------
(* The payload of a close frame.                                           *)

\* Two bytes are a number.
LEMMA TwoBytes ==
  ASSUME NEW a \in Byte, NEW b \in Byte
  PROVE  a * 256 + b \in Nat
BY DEF Byte

\* A code that may be sent fits two bytes, and is what they say.
LEMMA BytesOf ==
  ASSUME NEW n \in Nat, n <= 4999
  PROVE  /\ n \div 256 \in Byte /\ n % 256 \in Byte
         /\ (n \div 256) * 256 + (n % 256) = n
BY DEF Byte

\* A sequence with neither no element nor one has a first and a second.
LEMMA TwoPositions ==
  ASSUME NEW n \in Nat, n # 0, n # 1
  PROVE  1 \in 1..n /\ 2 \in 1..n
OBVIOUS

\* A string of bytes, and its first bytes, are strings of bytes.
LEMMA StringFacts ==
  ASSUME NEW p \in Strings
  PROVE  /\ Len(p) \in Nat /\ \A i \in 1..Len(p) : p[i] \in Byte
         /\ \A n \in 0..Len(p) : SubSeq(p, 1, n) \in Strings
         /\ SubSeq(p, 3, Len(p)) \in Strings
<1>1. Len(p) \in Nat /\ \A i \in 1..Len(p) : p[i] \in Byte
  BY ElementOfSeq, LenProperties DEF Strings
<1>2. \A n \in 0..Len(p) : SubSeq(p, 1, n) \in Strings
  BY <1>1, SubSeqProperties DEF Strings
<1>3. SubSeq(p, 3, Len(p)) \in Strings
  <2>1. \A i \in 3..Len(p) : p[i] \in Byte
    BY <1>1
  <2> QED BY <1>1, <2>1, SubSeqProperties DEF Strings
<1> QED BY <1>1, <1>2, <1>3

\* The reason of a payload is what follows its first two bytes.
LEMMA ReasonOf ==
  ASSUME NEW p
  PROVE  extract_reason(p).reason = SubSeq(p, 3, Len(p))
BY DEF extract_reason

\* What is read from a payload is a code and a reason.
LEMMA ExtractedType ==
  ASSUME NEW p \in Strings
  PROVE  /\ extract_code(p).code \in Nat /\ extract_code(p).ok \in BOOLEAN
         /\ extract_reason(p).reason \in Strings
<1>1. extract_code(p).code \in Nat /\ extract_code(p).ok \in BOOLEAN
  <2>0. CASE p = <<>>
    <3>1. extract_code(p) = [code |-> no_status, ok |-> TRUE]
      BY <2>0 DEF extract_code
    <3> QED BY <3>1 DEF no_status
  <2>1. CASE p # <<>> /\ Len(p) = 1
    <3>1. extract_code(p) = [code |-> protocol_error, ok |-> FALSE]
      BY <2>1 DEF extract_code
    <3> QED BY <3>1 DEF protocol_error
  <2>2. CASE p # <<>> /\ Len(p) # 1
    <3>1. Len(p) \in Nat /\ Len(p) # 0
      BY <2>2, EmptySeq DEF Strings
    <3>2. 1 \in 1..Len(p) /\ 2 \in 1..Len(p)
      BY <2>2, <3>1, TwoPositions
    <3>3. p[1] \in Byte /\ p[2] \in Byte
      BY <3>2, StringFacts
    <3>4. p[1] * 256 + p[2] \in Nat
      BY <3>3, TwoBytes
    <3> QED BY <2>2, <3>4 DEF extract_code, invalid_code, reserved_code
  <2> QED BY <2>0, <2>1, <2>2
<1> QED BY <1>1, ReasonOf, StringFacts

\* What prepare_close makes of a code and a reason it accepts is read back as
\* that code and that reason, and is valid.
LEMMA PreparedReadsBack ==
  ASSUME NEW code \in Nat, NEW reason \in Strings, prepare_close(code, reason).ok
  PROVE  LET payload == prepare_close(code, reason).payload IN
         /\ payload \in Strings
         /\ extract_code(payload).ok
         /\ extract_code(payload).code = code
         /\ extract_reason(payload).reason = reason
<1> DEFINE payload == prepare_close(code, reason).payload
<1>1. CASE code = no_status
  <2>1. payload = <<>> /\ reason = <<>>
    BY <1>1 DEF prepare_close
  <2>2. extract_code(<<>>).ok /\ extract_code(<<>>).code = no_status
    BY DEF extract_code
  <2>3. SubSeq(<<>>, 3, Len(<<>>)) = <<>> /\ <<>> \in Strings
    BY DEF Strings
  <2> QED BY <1>1, <2>1, <2>2, <2>3, ReasonOf
<1>2. CASE code # no_status
  <2>1. /\ ~reserved_code(code) /\ ~invalid_code(code)
        /\ payload = <<code \div 256, code % 256>> \o reason
    BY <1>2 DEF prepare_close
  <2>2. code \in 0..4999
    BY <2>1 DEF invalid_code
  <2>3. code \div 256 \in Byte /\ code % 256 \in Byte
        /\ (code \div 256) * 256 + (code % 256) = code
    BY <2>2, BytesOf
  <2> DEFINE head == <<code \div 256, code % 256>>
  <2>4. head \in Strings /\ Len(head) = 2
        /\ head[1] = code \div 256 /\ head[2] = code % 256
    BY <2>3 DEF Strings
  <2>5. /\ payload \in Strings /\ Len(payload) = 2 + Len(reason) /\ Len(reason) \in Nat
        /\ payload[1] = code \div 256 /\ payload[2] = code % 256
        /\ \A i \in 3..Len(payload) : payload[i] = reason[i - 2]
    <3> HIDE DEF head
    <3>1. /\ payload \in Strings /\ Len(payload) = 2 + Len(reason) /\ Len(reason) \in Nat
          /\ \A i \in 1..2 : payload[i] = head[i]
          /\ \A i \in 3..Len(payload) : payload[i] = reason[i - 2]
      BY <2>1, <2>4, ConcatProperties, LenProperties DEF head, Strings
    <3> QED BY <2>4, <3>1
  <2>6. extract_code(payload).ok /\ extract_code(payload).code = code
    <3>1. payload # <<>> /\ Len(payload) # 1
      BY <2>5
    <3> HIDE DEF payload
    <3>2. payload[1] * 256 + payload[2] = code
      BY <2>3, <2>5
    <3>3. extract_code(payload) =
            [code |-> code, ok |-> ~invalid_code(code) /\ ~reserved_code(code)]
      BY <3>1, <3>2 DEF extract_code
    <3>4. extract_code(payload) = [code |-> code, ok |-> TRUE]
      BY <2>1, <3>3
    <3> QED BY <3>4
  <2>7. SubSeq(payload, 3, Len(payload)) = reason
    <3> HIDE DEF payload
    <3>1. \A i \in 3..Len(payload) : payload[i] \in Byte
      BY <2>5, StringFacts
    <3>2. /\ SubSeq(payload, 3, Len(payload)) \in Seq(Byte)
          /\ Len(SubSeq(payload, 3, Len(payload))) = Len(reason)
          /\ \A i \in 1..Len(reason) : SubSeq(payload, 3, Len(payload))[i] = payload[i + 2]
      BY <2>5, <3>1, SubSeqProperties
    <3>3. \A i \in 1..Len(reason) : payload[i + 2] = reason[i]
      BY <2>5
    <3> QED BY <3>2, <3>3, SeqEqual DEF Strings
  <2> QED BY <2>5, <2>6, <2>7, ReasonOf
<1> QED BY <1>1, <1>2

-----------------------------------------------------------------------------
(* Sequences.                                                              *)

\* Appending to the second of two sequences.
LEMMA AppendAfter ==
  ASSUME NEW S, NEW a \in Seq(S), NEW b \in Seq(S), NEW m \in S
  PROVE  a \o Append(b, m) = Append(a \o b, m)
<1>1. <<m>> \in Seq(S)
  OBVIOUS
<1>2. Append(b, m) = b \o <<m>>
  BY AppendIsConcat
<1>3. (a \o b) \o <<m>> = a \o (b \o <<m>>)
  BY <1>1, ConcatAssociative
<1>4. a \o b \in Seq(S)
  BY ConcatProperties
<1>5. Append(a \o b, m) = (a \o b) \o <<m>>
  BY <1>4, AppendIsConcat
<1> QED BY <1>2, <1>3, <1>5

\* A sequence cut after n elements.
LEMMA CutInTwo ==
  ASSUME NEW S, NEW q \in Seq(S), NEW n \in 0..Len(q)
  PROVE  /\ SubSeq(q, 1, n) \in Seq(S)
         /\ SubSeq(q, n + 1, Len(q)) \in Seq(S)
         /\ SubSeq(q, 1, n) \o SubSeq(q, n + 1, Len(q)) = q
         /\ Len(SubSeq(q, n + 1, Len(q))) = Len(q) - n
         /\ \A i \in 1..(Len(q) - n) : SubSeq(q, n + 1, Len(q))[i] = q[i + n]
<1> DEFINE l == Len(q)
           rest == SubSeq(q, n + 1, l)
<1>1. l \in Nat /\ n \in 0..l /\ \A i \in 1..l : q[i] \in S
  BY LenProperties, ElementOfSeq
<1> HIDE DEF l
<1>2. /\ n \in Int /\ n + 1 \in Int /\ l \in Int
      /\ \A i \in 1..n : i \in 1..l
      /\ \A i \in (n + 1)..l : i \in 1..l
  BY <1>1
<1>3. SubSeq(q, 1, n) \in Seq(S)
  BY <1>1, <1>2, SubSeqProperties
<1>4. /\ rest \in Seq(S)
      /\ Len(rest) = (IF n + 1 <= l THEN l - (n + 1) + 1 ELSE 0)
      /\ \A i \in 1..(l - (n + 1) + 1) : rest[i] = q[(n + 1) + i - 1]
  BY <1>1, <1>2, SubSeqProperties
<1>5. (IF n + 1 <= l THEN l - (n + 1) + 1 ELSE 0) = l - n /\ l - (n + 1) + 1 = l - n
  BY <1>1
<1>6. \A i \in 1..(l - n) : rest[i] = q[i + n]
  <2> SUFFICES ASSUME NEW i \in 1..(l - n) PROVE rest[i] = q[i + n]
    OBVIOUS
  <2>1. (n + 1) + i - 1 = i + n
    BY <1>1
  <2> QED BY <1>4, <1>5, <2>1
<1>7. SubSeq(q, 1, n) \o SubSeq(q, n + 1, l) = SubSeq(q, 1, l)
  <2>1. 1 \in 1..(l + 1) /\ n \in (1 - 1)..l /\ l \in n..l
    BY <1>1
  <2> QED BY <2>1, ConcatAdjacentSubSeq DEF l
<1>8. SubSeq(q, 1, l) = q
  BY SubSeqFull DEF l
<1> QED BY <1>3, <1>4, <1>5, <1>6, <1>7, <1>8 DEF l

\* Two sequences one after the other, without the first n elements of the second.
LEMMA WithoutMiddle ==
  ASSUME NEW S, NEW a \in Seq(S), NEW q \in Seq(S), NEW n \in 0..Len(q)
  PROVE  LET rest == SubSeq(q, n + 1, Len(q))
             at(i) == IF i <= Len(a) THEN i ELSE i + n
         IN  /\ DOMAIN (a \o rest) = 1..(Len(a) + Len(q) - n)
             /\ DOMAIN (a \o q) = 1..(Len(a) + Len(q))
             /\ \A i \in 1..(Len(a) + Len(q) - n) :
                  /\ at(i) \in 1..(Len(a) + Len(q))
                  /\ (a \o rest)[i] = (a \o q)[at(i)]
<1> DEFINE l == Len(a)
           z == Len(q)
           rest == SubSeq(q, n + 1, z)
           at(i) == IF i <= l THEN i ELSE i + n
<1>1. l \in Nat /\ z \in Nat /\ n \in 0..z
  BY LenProperties
<1>2. rest \in Seq(S) /\ Len(rest) = z - n /\ \A i \in 1..(z - n) : rest[i] = q[i + n]
  BY CutInTwo
<1>3. /\ a \o rest \in Seq(S) /\ Len(a \o rest) = l + (z - n)
      /\ \A i \in 1..(l + (z - n)) : (a \o rest)[i] = IF i <= l THEN a[i] ELSE rest[i - l]
  <2> HIDE DEF rest, l
  <2>1. /\ a \o rest \in Seq(S) /\ Len(a \o rest) = Len(a) + Len(rest)
        /\ \A i \in 1..(Len(a) + Len(rest)) :
             (a \o rest)[i] = IF i <= Len(a) THEN a[i] ELSE rest[i - Len(a)]
    BY <1>2, ConcatProperties
  <2> QED BY <1>2, <2>1 DEF l
<1>4. /\ a \o q \in Seq(S) /\ Len(a \o q) = l + z
      /\ \A i \in 1..(l + z) : (a \o q)[i] = IF i <= l THEN a[i] ELSE q[i - l]
  BY ConcatProperties
<1>5. DOMAIN (a \o rest) = 1..(l + (z - n)) /\ DOMAIN (a \o q) = 1..(l + z)
  BY <1>3, <1>4, LenProperties
<1> HIDE DEF l, z, rest
<1>6. l + (z - n) = l + z - n
  BY <1>1
<1>7. ASSUME NEW i \in 1..(l + z - n)
      PROVE  at(i) \in 1..(l + z) /\ (a \o rest)[i] = (a \o q)[at(i)]
  <2>1. i \in 1..(l + (z - n)) /\ i \in Int
    BY <1>1
  <2>2. CASE i <= l
    <3>1. at(i) = i /\ i \in 1..(l + z)
      BY <1>1, <2>1, <2>2
    <3> QED BY <1>3, <1>4, <2>1, <2>2, <3>1
  <2>3. CASE ~(i <= l)
    <3>1. /\ at(i) = i + n /\ i + n \in 1..(l + z) /\ ~(i + n <= l)
          /\ i - l \in 1..(z - n) /\ (i + n) - l = (i - l) + n
      BY <1>1, <2>1, <2>3
    <3>2. (a \o rest)[i] = q[(i - l) + n]
      BY <1>2, <1>3, <2>1, <2>3, <3>1
    <3>3. (a \o q)[i + n] = q[(i + n) - l]
      BY <1>4, <3>1
    <3> QED BY <3>1, <3>2, <3>3
  <2> QED BY <2>2, <2>3
<1> QED BY <1>5, <1>6, <1>7 DEF l, z, rest
-----------------------------------------------------------------------------
(* The frames of an end, as the queue grows and is written.                *)

\* The frames of an end are a sequence of messages.
LEMMA FramesType ==
  ASSUME NEW d \in Ends
  PROVE  /\ d.sent \in Seq(MessagesOfClosing) /\ Len(d.sent) \in Nat
         /\ d.m_send_queue \in Seq(MessagesOfClosing) /\ Len(d.m_send_queue) \in Nat
         /\ AllFrames(d) \in Seq(MessagesOfClosing)
         /\ Len(AllFrames(d)) \in Nat
         /\ DOMAIN AllFrames(d) = 1..Len(AllFrames(d))
<1>1. d.sent \in Seq(MessagesOfClosing) /\ d.m_send_queue \in Seq(MessagesOfClosing)
  BY DEF Ends
<1>2. AllFrames(d) \in Seq(MessagesOfClosing)
  BY <1>1, ConcatProperties DEF AllFrames
<1> QED BY <1>1, <1>2, LenProperties

\* A message pushed is the last frame.
LEMMA FramesPushed ==
  ASSUME NEW d \in Ends, NEW e \in Ends, NEW m \in MessagesOfClosing,
         e.sent = d.sent, e.m_send_queue = Append(d.m_send_queue, m)
  PROVE  /\ \A i \in CloseFrames(d) :
              i \in CloseFrames(e) /\ AllFrames(e)[i] = AllFrames(d)[i]
         /\ \A i \in CloseFrames(e) :
              \/ i \in CloseFrames(d)
              \/ /\ i = Len(AllFrames(d)) + 1 /\ AllFrames(e)[i] = m
                 /\ m.op = "close" /\ i \notin CloseFrames(d)
<1> DEFINE fs == AllFrames(d)
<1>1. AllFrames(e) = Append(fs, m)
  <2> DEFINE a == d.sent
             q == d.m_send_queue
  <2>1. a \in Seq(MessagesOfClosing) /\ q \in Seq(MessagesOfClosing)
    BY FramesType
  <2>2. AllFrames(e) = a \o Append(q, m) /\ fs = a \o q
    BY DEF AllFrames
  <2> HIDE DEF a, q, fs
  <2>3. a \o Append(q, m) = Append(a \o q, m)
    BY <2>1, AppendAfter
  <2> QED BY <2>2, <2>3
<1>2. /\ Len(fs) \in Nat /\ DOMAIN fs = 1..Len(fs)
      /\ DOMAIN AllFrames(e) = 1..(Len(fs) + 1)
      /\ AllFrames(e)[Len(fs) + 1] = m
      /\ \A i \in 1..Len(fs) : AllFrames(e)[i] = fs[i]
  BY <1>1, FramesType, AppendProperties
<1>3. \A i \in 1..(Len(fs) + 1) : i \in 1..Len(fs) \/ (i = Len(fs) + 1 /\ i \notin 1..Len(fs))
  BY <1>2
<1>4. 1..Len(fs) \subseteq 1..(Len(fs) + 1)
  BY <1>2
<1> HIDE DEF fs
<1> QED BY <1>2, <1>3, <1>4 DEF CloseFrames, fs

\* Frames written leave the queue for the wire, in place.
LEMMA FramesWritten ==
  ASSUME NEW d \in Ends, NEW e, NEW n \in 0..Len(d.m_send_queue),
         e.sent = d.sent \o SubSeq(d.m_send_queue, 1, n),
         e.m_send_queue = SubSeq(d.m_send_queue, n + 1, Len(d.m_send_queue))
  PROVE  AllFrames(e) = AllFrames(d) /\ CloseFrames(e) = CloseFrames(d)
<1> DEFINE a == d.sent
           q == d.m_send_queue
           head == SubSeq(q, 1, n)
           rest == SubSeq(q, n + 1, Len(q))
<1>1. q \in Seq(MessagesOfClosing) /\ a \in Seq(MessagesOfClosing)
  BY FramesType
<1>2. AllFrames(e) = (a \o head) \o rest /\ AllFrames(d) = a \o q /\ n \in 0..Len(q)
  BY DEF AllFrames
<1> HIDE DEF a, q
<1>3. head \o rest = q
  BY <1>1, <1>2, CutInTwo
<1>6. head \in Seq(MessagesOfClosing)
  BY <1>1, <1>2, CutInTwo
<1>7. rest \in Seq(MessagesOfClosing)
  BY <1>1, <1>2, CutInTwo
<1> HIDE DEF head, rest
<1>4. (a \o head) \o rest = a \o (head \o rest)
  BY ONLY <1>1, <1>6, <1>7, ConcatAssociative
<1>5. AllFrames(e) = AllFrames(d)
  BY <1>2, <1>3, <1>4
<1> QED BY <1>5 DEF CloseFrames

\* Frames dropped by an end that is closed leave a part of the others.
LEMMA FramesDropped ==
  ASSUME NEW d \in Ends, NEW e \in Ends, NEW n \in 0..Len(d.m_send_queue),
         e.sent = d.sent,
         e.m_send_queue = SubSeq(d.m_send_queue, n + 1, Len(d.m_send_queue))
  PROVE  \E f \in [CloseFrames(e) -> CloseFrames(d)] :
           \A i \in CloseFrames(e) :
             /\ AllFrames(e)[i] = AllFrames(d)[f[i]]
             /\ \A j \in CloseFrames(e) : f[i] = f[j] => i = j
<1> DEFINE q == d.m_send_queue
           l == Len(d.sent)
           at(i) == IF i <= l THEN i ELSE i + n
           f == [i \in CloseFrames(e) |-> at(i)]
<1>1. l \in Nat /\ Len(q) \in Nat /\ n \in 0..Len(q)
  BY FramesType
<1>2. /\ DOMAIN AllFrames(e) = 1..(l + Len(q) - n)
      /\ DOMAIN AllFrames(d) = 1..(l + Len(q))
      /\ \A i \in 1..(l + Len(q) - n) :
           at(i) \in 1..(l + Len(q)) /\ AllFrames(e)[i] = AllFrames(d)[at(i)]
  <2> DEFINE a == d.sent
  <2>1. q \in Seq(MessagesOfClosing) /\ a \in Seq(MessagesOfClosing)
    BY FramesType
  <2>2. /\ AllFrames(e) = a \o SubSeq(q, n + 1, Len(q)) /\ AllFrames(d) = a \o q
        /\ l = Len(a)
    BY DEF AllFrames
  <2> HIDE DEF a, q, l
  <2>3. /\ DOMAIN (a \o SubSeq(q, n + 1, Len(q))) = 1..(Len(a) + Len(q) - n)
        /\ DOMAIN (a \o q) = 1..(Len(a) + Len(q))
        /\ \A i \in 1..(Len(a) + Len(q) - n) :
             LET to == IF i <= Len(a) THEN i ELSE i + n IN
             /\ to \in 1..(Len(a) + Len(q))
             /\ (a \o SubSeq(q, n + 1, Len(q)))[i] = (a \o q)[to]
    BY <1>1, <2>1, WithoutMiddle
  <2> QED BY <2>2, <2>3
<1>3. \A i \in CloseFrames(e) :
        /\ i \in Int /\ at(i) \in CloseFrames(d)
        /\ AllFrames(e)[i] = AllFrames(d)[at(i)]
  <2> HIDE DEF at, l, q
  <2> SUFFICES ASSUME NEW i \in CloseFrames(e)
               PROVE  /\ i \in Int /\ at(i) \in CloseFrames(d)
                      /\ AllFrames(e)[i] = AllFrames(d)[at(i)]
    OBVIOUS
  <2>1. i \in DOMAIN AllFrames(e) /\ AllFrames(e)[i].op = "close"
    BY DEF CloseFrames
  <2>2. i \in 1..(l + Len(q) - n)
    BY <1>2, <2>1
  <2>3. i \in Int
    BY <1>1, <2>2
  <2>4. at(i) \in DOMAIN AllFrames(d) /\ AllFrames(e)[i] = AllFrames(d)[at(i)]
    BY <1>2, <2>2
  <2> QED BY <2>1, <2>3, <2>4 DEF CloseFrames
<1>4. \A i, j \in CloseFrames(e) : at(i) = at(j) => i = j
  BY <1>1, <1>3
<1>5. f \in [CloseFrames(e) -> CloseFrames(d)] /\ \A i \in CloseFrames(e) : f[i] = at(i)
  BY <1>3
<1> HIDE DEF f, at
<1> QED BY <1>3, <1>4, <1>5

\* An end that keeps its frames keeps its close frames.
LEMMA FramesKept ==
  ASSUME NEW d, NEW e, e.sent = d.sent, e.m_send_queue = d.m_send_queue
  PROVE  AllFrames(e) = AllFrames(d) /\ CloseFrames(e) = CloseFrames(d)
BY DEF AllFrames, CloseFrames

-----------------------------------------------------------------------------
(* Sending a close frame.                                                  *)

\* What is chosen to be sent is a code and a reason.
LEMMA ChosenType ==
  ASSUME ClosingTypeOK, NEW d \in Ends, NEW code \in Nat, NEW reason \in Strings,
         NEW ack \in BOOLEAN
  PROVE  Chosen(d, code, reason, ack) \in [code : Nat, reason : Strings]
<1>1. <<>> \in Strings /\ no_status \in Nat /\ normal \in Nat
  BY DEF Strings, no_status, normal
<1>2. d.remote \in Nat /\ d.remote_reason \in Strings
  BY DEF Ends
<1>3. k.silent_close \in BOOLEAN
  BY DEF ClosingTypeOK
<1>4. CASE k.silent_close
  BY <1>1, <1>4 DEF Chosen
<1>5. CASE ~k.silent_close /\ code # blank
  BY <1>1, <1>5 DEF Chosen
<1>6. CASE ~k.silent_close /\ code = blank /\ ~ack
  BY <1>1, <1>6 DEF Chosen
<1>7. CASE ~k.silent_close /\ code = blank /\ ack
  <2>1. Chosen(d, code, reason, ack) =
          IF d.remote = no_status THEN [code |-> normal, reason |-> <<>>]
          ELSE [code |-> d.remote, reason |-> d.remote_reason]
    BY <1>7 DEF Chosen
  <2> QED BY <1>1, <1>2, <2>1
<1> QED BY <1>3, <1>4, <1>5, <1>6, <1>7

\* What sending a close frame does to an end: it records what it chose, and
\* pushes a close frame that carries it, or none.
LEMMA SendCloseFields ==
  ASSUME ClosingTypeOK, NEW d \in Ends, NEW code \in Nat, NEW reason \in Strings,
         NEW ack \in BOOLEAN, NEW terminal \in BOOLEAN
  PROVE  LET e == send_close_frame(d, code, reason, ack, terminal) IN
         /\ e \in Ends
         /\ e.sent = d.sent /\ e.incoming = d.incoming /\ e.refused = d.refused
         /\ e.reported = d.reported /\ e.m_ec = d.m_ec
         /\ e.remote = d.remote /\ e.remote_reason = d.remote_reason
         /\ \/ /\ e.m_send_queue = d.m_send_queue
               /\ e.m_state = d.m_state /\ e.m_was_clean = d.m_was_clean
            \/ /\ e.m_state = "closing"
               /\ e.m_was_clean => d.m_was_clean \/ ack
               /\ \E m \in MessagesOfClosing :
                    /\ e.m_send_queue = Append(d.m_send_queue, m)
                    /\ m.op = "close" /\ extract_code(m.payload).ok
                    /\ Carries(m, e.local, e.local_reason)
<1> DEFINE chosen == Chosen(d, code, reason, ack)
           p == prepare_close(chosen.code, chosen.reason)
           e == send_close_frame(d, code, reason, ack, terminal)
           c == [d EXCEPT !.local = chosen.code, !.local_reason = chosen.reason]
           m == [op |-> "close", payload |-> p.payload, terminal |-> terminal]
<1>0. e = send_close_frame(d, code, reason, ack, terminal)
  OBVIOUS
<1>1. chosen.code \in Nat /\ chosen.reason \in Strings
  BY ChosenType
<1>2. CASE ~p.ok
  <2>1. e = c
    BY <1>2 DEF send_close_frame
  <2> HIDE DEF chosen, e
  <2>2. e \in Ends
    BY <1>1, <2>1 DEF Ends
  <2>3. /\ e.sent = d.sent /\ e.incoming = d.incoming /\ e.refused = d.refused
        /\ e.reported = d.reported /\ e.m_ec = d.m_ec
        /\ e.remote = d.remote /\ e.remote_reason = d.remote_reason
        /\ e.m_send_queue = d.m_send_queue /\ e.m_state = d.m_state
    BY <2>1 DEF Ends
  <2>4. e.m_was_clean = d.m_was_clean
    BY <2>1 DEF Ends
  <2> QED BY <1>0, <2>2, <2>3, <2>4
<1>3. CASE p.ok
  <2>1. e = write_push([c EXCEPT !.m_state = "closing", !.m_was_clean = @ \/ ack,
                                 !.timer = TRUE], m)
    BY <1>3 DEF send_close_frame
  <2>2. /\ p.payload \in Strings /\ extract_code(p.payload).ok
        /\ extract_code(p.payload).code = chosen.code
        /\ extract_reason(p.payload).reason = chosen.reason
    BY <1>1, <1>3, PreparedReadsBack
  <2> HIDE DEF chosen, e, p
  <2>3. m \in MessagesOfClosing
    BY <2>2 DEF MessagesOfClosing
  <2>4. d.m_was_clean \in BOOLEAN /\ d.m_send_queue \in Seq(MessagesOfClosing)
    BY DEF Ends
  <2>5. (d.m_was_clean \/ ack) \in BOOLEAN
    OBVIOUS
  <2>6. Append(d.m_send_queue, m) \in Seq(MessagesOfClosing)
    BY <2>3, <2>4, AppendProperties
  <2>7. e = [d EXCEPT !.local = chosen.code, !.local_reason = chosen.reason,
                      !.m_state = "closing", !.m_was_clean = d.m_was_clean \/ ack,
                      !.timer = TRUE, !.m_send_queue = Append(d.m_send_queue, m)]
    BY <2>1 DEF write_push, Ends
  <2> HIDE DEF m
  <2>8. e \in Ends
    BY <1>1, <2>5, <2>6, <2>7 DEF Ends
  <2>9. /\ e.sent = d.sent /\ e.incoming = d.incoming /\ e.refused = d.refused
        /\ e.reported = d.reported /\ e.m_ec = d.m_ec
        /\ e.remote = d.remote /\ e.remote_reason = d.remote_reason
        /\ e.m_state = "closing" /\ e.m_send_queue = Append(d.m_send_queue, m)
        /\ e.local = chosen.code /\ e.local_reason = chosen.reason
    BY <2>7 DEF Ends
  <2>10. e.m_was_clean = (d.m_was_clean \/ ack)
    BY <2>7 DEF Ends
  <2>11. m.op = "close" /\ m.payload = p.payload
    BY DEF m
  <2>12. Carries(m, e.local, e.local_reason)
    BY <2>2, <2>9, <2>11 DEF Carries
  <2> QED BY <1>0, <2>2, <2>3, <2>8, <2>9, <2>10, <2>11, <2>12
<1> QED BY <1>2, <1>3

\* An end that sends a close frame keeps its invariant if it was open, or if it
\* refused the peer's; it acknowledges only what the peer sent.
LEMMA SendCloseKeeps ==
  ASSUME ClosingTypeOK, NEW d \in Ends, NEW os, NEW code \in Nat, NEW reason \in Strings,
         NEW ack \in BOOLEAN, NEW terminal \in BOOLEAN,
         EndInv(d, os), d.m_state # "closed", d.m_state = "open" \/ d.refused,
         ack => d.refused \/ HasSent(os, d.remote, d.remote_reason)
  PROVE  /\ EndInv(send_close_frame(d, code, reason, ack, terminal), os)
         /\ send_close_frame(d, code, reason, ack, terminal) \in Ends
         /\ send_close_frame(d, code, reason, ack, terminal).sent = d.sent
<1> DEFINE e == send_close_frame(d, code, reason, ack, terminal)
<1> HIDE DEF e
<1>1. /\ e \in Ends
      /\ e.sent = d.sent /\ e.incoming = d.incoming /\ e.refused = d.refused
      /\ e.reported = d.reported /\ e.m_ec = d.m_ec
      /\ e.remote = d.remote /\ e.remote_reason = d.remote_reason
  BY SendCloseFields DEF e
<1>2. d.m_ec = "none" /\ d.reported = <<>>
  BY DEF EndInv
<1>3. DOMAIN e.reported = {}
  BY <1>1, <1>2
<1>4. CASE /\ e.m_send_queue = d.m_send_queue
           /\ e.m_state = d.m_state /\ e.m_was_clean = d.m_was_clean
  <2>1. AllFrames(e) = AllFrames(d) /\ CloseFrames(e) = CloseFrames(d)
    BY <1>1, <1>4, FramesKept
  <2>2. CloseFrames(d) = {} \/ d.refused
    BY DEF EndInv
  <2>3. EndInv(e, os)
    BY <1>1, <1>2, <1>3, <1>4, <2>1, <2>2 DEF EndInv
  <2> QED BY <1>1, <2>3 DEF e
<1>5. ASSUME e.m_state = "closing", e.m_was_clean => d.m_was_clean \/ ack,
             NEW m \in MessagesOfClosing,
             e.m_send_queue = Append(d.m_send_queue, m),
             m.op = "close", extract_code(m.payload).ok,
             Carries(m, e.local, e.local_reason)
      PROVE  EndInv(e, os)
  <2> DEFINE last == Len(AllFrames(d)) + 1
  <2>1. /\ \A i \in CloseFrames(d) :
             i \in CloseFrames(e) /\ AllFrames(e)[i] = AllFrames(d)[i]
        /\ \A i \in CloseFrames(e) :
             i \in CloseFrames(d) \/ (i = last /\ AllFrames(e)[i] = m)
    BY <1>1, <1>5, FramesPushed
  <2> HIDE DEF last
  <2>2. \A i \in CloseFrames(e) : extract_code(AllFrames(e)[i].payload).ok
    BY <1>5, <2>1 DEF EndInv
  <2>3. ASSUME ~e.refused
        PROVE  /\ \A i \in CloseFrames(e) : i = last /\ AllFrames(e)[i] = m
               /\ e.m_was_clean => HasSent(os, e.remote, e.remote_reason)
    <3>1. CloseFrames(d) = {}
      BY <1>1, <2>3 DEF EndInv
    <3>2. e.m_was_clean => HasSent(os, e.remote, e.remote_reason)
      BY <1>1, <1>5, <2>3 DEF EndInv
    <3> QED BY <2>1, <3>1, <3>2
  <2>4. \A i \in DOMAIN e.incoming : \E j \in DOMAIN os : e.incoming[i] = os[j]
    BY <1>1 DEF EndInv
  <2>5. e.m_state = "closing" /\ e.m_ec = "none" /\ e.reported = <<>>
    BY <1>1, <1>2, <1>5
  <2>6. e.refused \/
          /\ \A i, j \in CloseFrames(e) : i = j
          /\ \A i \in CloseFrames(e) : Carries(AllFrames(e)[i], e.local, e.local_reason)
          /\ e.m_was_clean => HasSent(os, e.remote, e.remote_reason)
    BY <1>5, <2>3
  <2> QED BY <1>3, <2>2, <2>4, <2>5, <2>6 DEF EndInv
<1> QED
  <2>1. CASE e.m_state = "closing" /\ (e.m_was_clean => d.m_was_clean \/ ack)
             /\ \E m \in MessagesOfClosing :
                  /\ e.m_send_queue = Append(d.m_send_queue, m)
                  /\ m.op = "close" /\ extract_code(m.payload).ok
                  /\ Carries(m, e.local, e.local_reason)
    BY <1>1, <1>5, <2>1 DEF e
  <2> QED BY <1>4, <2>1, SendCloseFields DEF e

\* An end that is open acknowledges what the peer sent.
LEMMA AckKeeps ==
  ASSUME ClosingTypeOK, NEW s \in Sides, NEW d \in Ends, NEW os,
         EndInv(d, os), d.m_state = "open", HasSent(os, d.remote, d.remote_reason)
  PROVE  /\ EndInv(send_close_ack(s, d, blank, <<>>), os)
         /\ send_close_ack(s, d, blank, <<>>) \in Ends
         /\ send_close_ack(s, d, blank, <<>>).sent = d.sent
<1>1. <<>> \in Strings /\ blank \in Nat
  BY DEF Strings, blank
<1>2. \A ack, terminal \in BOOLEAN :
        /\ EndInv(send_close_frame(d, blank, <<>>, ack, terminal), os)
        /\ send_close_frame(d, blank, <<>>, ack, terminal) \in Ends
        /\ send_close_frame(d, blank, <<>>, ack, terminal).sent = d.sent
  BY <1>1, SendCloseKeeps
<1>3. (s = "server") \in BOOLEAN
  OBVIOUS
<1> QED BY <1>2, <1>3 DEF send_close_ack

-----------------------------------------------------------------------------
(* The end of a connection.                                                *)

\* What terminating does to an end: a report is made of what it is left with.
LEMMA TerminateFields ==
  ASSUME NEW d \in Ends, NEW ec \in ECs
  PROVE  LET e == terminate_with(d, ec) IN
         /\ e \in Ends
         /\ e.sent = d.sent /\ e.m_send_queue = d.m_send_queue
         /\ e.incoming = d.incoming /\ e.refused = d.refused
         /\ e.remote = d.remote /\ e.remote_reason = d.remote_reason
         /\ e.m_was_clean = d.m_was_clean
         /\ e.m_current_msgs = d.m_current_msgs /\ ~e.timer
         /\ e.m_state = "closed"
         /\ e.m_ec = "none" => /\ d.m_ec = "none" /\ e.local = d.local
                               /\ e.local_reason = d.local_reason
         /\ \/ d.m_state = "closed" /\ e.reported = d.reported
            \/ e.reported = <<[local |-> e.local, local_reason |-> e.local_reason,
                               remote |-> e.remote, clean |-> e.m_was_clean,
                               remote_reason |-> e.remote_reason, ec |-> e.m_ec]>>
<1> DEFINE c == IF ec = "none" THEN d
                ELSE [d EXCEPT !.m_ec = ec, !.local = abnormal_close, !.local_reason = <<>>]
           r == [local |-> c.local, local_reason |-> c.local_reason,
                 remote |-> c.remote, clean |-> c.m_was_clean,
                 remote_reason |-> c.remote_reason, ec |-> c.m_ec]
           e == terminate_with(d, ec)
<1>0. e = terminate_with(d, ec)
  OBVIOUS
<1>1. e = IF d.m_state = "closed" THEN [c EXCEPT !.timer = FALSE]
          ELSE [c EXCEPT !.timer = FALSE, !.m_state = "closed", !.reported = <<r>>]
  BY DEF terminate_with
<1>2. <<>> \in Strings /\ abnormal_close \in Nat
  BY DEF Strings, abnormal_close
<1>3. /\ c \in Ends
      /\ c.sent = d.sent /\ c.m_send_queue = d.m_send_queue
      /\ c.incoming = d.incoming /\ c.refused = d.refused
      /\ c.remote = d.remote /\ c.remote_reason = d.remote_reason
      /\ c.m_was_clean = d.m_was_clean /\ c.m_current_msgs = d.m_current_msgs
      /\ c.m_state = d.m_state /\ c.reported = d.reported
      /\ c.m_ec = "none" => /\ d.m_ec = "none" /\ c.local = d.local
                            /\ c.local_reason = d.local_reason
  <2>1. CASE ec = "none"
    BY <2>1
  <2>2. CASE ec # "none"
    <3>1. c = [d EXCEPT !.m_ec = ec, !.local = abnormal_close, !.local_reason = <<>>]
      BY <2>2
    <3> HIDE DEF c
    <3> QED BY <1>2, <2>2, <3>1 DEF Ends
  <2> QED BY <2>1, <2>2
<1> HIDE DEF c, e
<1>4. CASE d.m_state = "closed"
  <2>1. e = [c EXCEPT !.timer = FALSE]
    BY <1>1, <1>4
  <2>2. e \in Ends
    BY <1>3, <2>1 DEF Ends
  <2>3. /\ e.sent = c.sent /\ e.m_send_queue = c.m_send_queue
        /\ e.incoming = c.incoming /\ e.refused = c.refused
        /\ e.remote = c.remote /\ e.remote_reason = c.remote_reason
        /\ e.m_was_clean = c.m_was_clean /\ e.m_current_msgs = c.m_current_msgs
        /\ e.m_state = c.m_state /\ e.reported = c.reported
        /\ e.m_ec = c.m_ec /\ e.local = c.local /\ e.local_reason = c.local_reason
        /\ ~e.timer
    BY <1>3, <2>1 DEF Ends
  <2> QED BY <1>0, <1>3, <1>4, <2>2, <2>3
<1>5. CASE d.m_state # "closed"
  <2>1. e = [c EXCEPT !.timer = FALSE, !.m_state = "closed", !.reported = <<r>>]
    BY <1>1, <1>5
  <2>2. r \in Reports
    BY <1>3 DEF Ends, Reports
  <2>3. r = [local |-> c.local, local_reason |-> c.local_reason,
             remote |-> c.remote, clean |-> c.m_was_clean,
             remote_reason |-> c.remote_reason, ec |-> c.m_ec]
    OBVIOUS
  <2> HIDE DEF r
  <2>4. e \in Ends
    <3>1. <<r>> \in Seq(Reports) /\ c \in Ends
      BY <1>3, <2>2
    <3> QED BY <2>1, <3>1 DEF Ends
  <2>5. /\ e.sent = c.sent /\ e.m_send_queue = c.m_send_queue
        /\ e.incoming = c.incoming /\ e.refused = c.refused
        /\ e.remote = c.remote /\ e.remote_reason = c.remote_reason
        /\ e.m_was_clean = c.m_was_clean /\ e.m_current_msgs = c.m_current_msgs
        /\ e.m_state = "closed" /\ e.reported = <<r>>
        /\ e.m_ec = c.m_ec /\ e.local = c.local /\ e.local_reason = c.local_reason
        /\ ~e.timer
    BY <1>3, <2>1 DEF Ends
  <2>6. e.reported = <<[local |-> e.local, local_reason |-> e.local_reason,
                        remote |-> e.remote, clean |-> e.m_was_clean,
                        remote_reason |-> e.remote_reason, ec |-> e.m_ec]>>
    BY <2>3, <2>5
  <2> QED BY <1>0, <1>3, <2>4, <2>5, <2>6
<1> QED BY <1>4, <1>5

\* Terminating keeps the invariant of an end.
LEMMA TerminateKeeps ==
  ASSUME NEW d \in Ends, NEW os, NEW ec \in ECs, EndInv(d, os)
  PROVE  /\ EndInv(terminate_with(d, ec), os)
         /\ terminate_with(d, ec) \in Ends
         /\ terminate_with(d, ec).sent = d.sent
<1> DEFINE e == terminate_with(d, ec)
           r == [local |-> e.local, local_reason |-> e.local_reason,
                 remote |-> e.remote, clean |-> e.m_was_clean,
                 remote_reason |-> e.remote_reason, ec |-> e.m_ec]
<1> HIDE DEF e
<1>1. /\ e \in Ends
      /\ e.sent = d.sent /\ e.m_send_queue = d.m_send_queue
      /\ e.incoming = d.incoming /\ e.refused = d.refused
      /\ e.remote = d.remote /\ e.remote_reason = d.remote_reason
      /\ e.m_was_clean = d.m_was_clean /\ e.m_state = "closed"
      /\ e.m_ec = "none" => /\ d.m_ec = "none" /\ e.local = d.local
                            /\ e.local_reason = d.local_reason
      /\ (d.m_state = "closed" /\ e.reported = d.reported) \/ e.reported = <<r>>
  BY TerminateFields DEF e
<1>2. AllFrames(e) = AllFrames(d) /\ CloseFrames(e) = CloseFrames(d)
  BY <1>1, FramesKept
<1>3. /\ \A i \in DOMAIN e.incoming : \E j \in DOMAIN os : e.incoming[i] = os[j]
      /\ \A i \in CloseFrames(e) : extract_code(AllFrames(e)[i].payload).ok
  BY <1>1, <1>2 DEF EndInv
<1>4. ASSUME ~e.refused
      PROVE  /\ \A i, j \in CloseFrames(e) : i = j
             /\ e.m_ec = "none" =>
                  \A i \in CloseFrames(e) : Carries(AllFrames(e)[i], e.local, e.local_reason)
             /\ e.m_was_clean => HasSent(os, e.remote, e.remote_reason)
  BY <1>1, <1>2, <1>4 DEF EndInv
<1>5. ASSUME ~e.refused, NEW n \in DOMAIN e.reported
      PROVE  /\ e.reported[n].clean =>
                  HasSent(os, e.reported[n].remote, e.reported[n].remote_reason)
             /\ e.reported[n].ec = "none" =>
                  \A i \in CloseFrames(e) :
                    Carries(AllFrames(e)[i], e.reported[n].local,
                            e.reported[n].local_reason)
  <2>1. CASE e.reported = d.reported
    BY <1>1, <1>2, <1>5, <2>1 DEF EndInv
  <2>2. CASE e.reported = <<r>>
    <3>1. /\ r.local = e.local /\ r.local_reason = e.local_reason
          /\ r.remote = e.remote /\ r.remote_reason = e.remote_reason /\ r.ec = e.m_ec
      OBVIOUS
    <3>2. r.clean = e.m_was_clean
      OBVIOUS
    <3> HIDE DEF r
    <3>3. e.reported[n] = r
      BY <1>5, <2>2
    <3> QED BY <1>4, <1>5, <3>1, <3>2, <3>3
  <2> QED BY <1>1, <2>1, <2>2
<1>6. EndInv(e, os)
  BY <1>1, <1>3, <1>4, <1>5 DEF EndInv
<1> QED BY <1>1, <1>6 DEF e

\* An end keeps its invariant when only what it received, or what it holds of
\* the peer's close, changes.
LEMMA OtherwiseSame ==
  ASSUME NEW d, NEW e, NEW os, EndInv(d, os),
         e.sent = d.sent, e.m_send_queue = d.m_send_queue, e.m_state = d.m_state,
         e.m_ec = d.m_ec, e.local = d.local, e.local_reason = d.local_reason,
         e.reported = d.reported,
         \A i \in DOMAIN e.incoming : \E j \in DOMAIN os : e.incoming[i] = os[j],
         \/ e.refused
         \/ ~d.refused /\ (e.m_was_clean => HasSent(os, e.remote, e.remote_reason))
  PROVE  EndInv(e, os)
<1>1. AllFrames(e) = AllFrames(d) /\ CloseFrames(e) = CloseFrames(d)
  BY FramesKept
<1>2. CASE e.refused
  BY <1>1, <1>2 DEF EndInv
<1>3. CASE ~d.refused /\ (e.m_was_clean => HasSent(os, e.remote, e.remote_reason))
  BY <1>1, <1>3 DEF EndInv
<1> QED BY <1>2, <1>3

-----------------------------------------------------------------------------
(* Writing and reading.                                                    *)

\* A batch is the first messages of a queue.
LEMMA BatchIsPrefix ==
  ASSUME NEW q \in Seq(MessagesOfClosing)
  PROVE  \E n \in 0..Len(q) :
           /\ Batch(q) = SubSeq(q, 1, n) /\ Len(Batch(q)) = n
           /\ Batch(q) \in Seq(MessagesOfClosing)
<1> DEFINE I == {i \in 1..Len(q) : q[i].terminal}
           n == IF I # {} THEN Min(I) ELSE 0
<1>1. Batch(q) = IF n = 0 THEN q ELSE SubSeq(q, 1, n)
  BY DEF Batch, SelectInSeq
<1>2. Len(q) \in Nat
  OBVIOUS
<1>3. n \in 0..Len(q)
  <2>1. CASE I = {}
    BY <1>2, <2>1
  <2>2. CASE I # {}
    <3>1. I \in SUBSET Nat
      BY <1>2
    <3>2. \E x \in I : \A y \in I : x <= y
      <4> HIDE DEF I
      <4> QED BY <2>2, <3>1, LeastElement
    <3>3. Min(I) \in I
      <4> HIDE DEF I
      <4> QED BY <3>2 DEF Min
    <3>4. n \in 1..Len(q)
      BY <2>2, <3>3
    <3> QED BY <1>2, <3>4
  <2> QED BY <2>1, <2>2
<1> HIDE DEF n
<1>4. CASE n = 0
  <2>1. Batch(q) = q /\ SubSeq(q, 1, Len(q)) = q /\ Len(q) \in 0..Len(q)
    BY <1>1, <1>2, <1>4, SubSeqFull
  <2> QED BY <2>1
<1>5. CASE n # 0
  <2>1. Batch(q) = SubSeq(q, 1, n)
    BY <1>1, <1>5
  <2>2. SubSeq(q, 1, n) \in Seq(MessagesOfClosing) /\ Len(SubSeq(q, 1, n)) = n
    <3>1. n \in Nat /\ n <= Len(q) /\ \A i \in 1..n : i \in 1..Len(q)
      BY <1>2, <1>3
    <3>2. \A i \in 1..n : q[i] \in MessagesOfClosing
      BY <3>1, ElementOfSeq
    <3> QED BY <3>1, <3>2, SubSeqProperties
  <2> QED BY <1>3, <2>1, <2>2
<1> QED BY <1>4, <1>5

\* What the peer has sent only grows, and the end receives what is added.
LEMMA MoreSent ==
  ASSUME NEW d \in Ends, NEW e, NEW os \in Seq(MessagesOfClosing),
         NEW w \in Seq(MessagesOfClosing), EndInv(d, os),
         e = [d EXCEPT !.incoming = @ \o w]
  PROVE  EndInv(e, os \o w)
<1> DEFINE ps == os \o w
           inc == d.incoming
<1>1. inc \in Seq(MessagesOfClosing)
  BY DEF Ends
<1>2. /\ e.sent = d.sent /\ e.m_send_queue = d.m_send_queue /\ e.m_state = d.m_state
      /\ e.m_ec = d.m_ec /\ e.local = d.local /\ e.local_reason = d.local_reason
      /\ e.reported = d.reported /\ e.remote = d.remote
      /\ e.remote_reason = d.remote_reason /\ e.incoming = inc \o w
  BY DEF Ends
<1>3. e.m_was_clean = d.m_was_clean /\ e.refused = d.refused
  BY DEF Ends
<1>4. /\ DOMAIN os = 1..Len(os) /\ DOMAIN w = 1..Len(w) /\ Len(os) \in Nat /\ Len(w) \in Nat
      /\ DOMAIN inc = 1..Len(inc) /\ Len(inc) \in Nat
  BY <1>1, LenProperties
<1> HIDE DEF inc, ps
<1>5. /\ DOMAIN ps = 1..(Len(os) + Len(w))
      /\ \A i \in 1..(Len(os) + Len(w)) :
           ps[i] = IF i <= Len(os) THEN os[i] ELSE w[i - Len(os)]
  <2>1. ps \in Seq(MessagesOfClosing) /\ Len(ps) = Len(os) + Len(w)
    BY ConcatProperties DEF ps
  <2> QED BY <2>1, ConcatProperties, LenProperties DEF ps
<1>6. /\ DOMAIN (inc \o w) = 1..(Len(inc) + Len(w))
      /\ \A i \in 1..(Len(inc) + Len(w)) :
           (inc \o w)[i] = IF i <= Len(inc) THEN inc[i] ELSE w[i - Len(inc)]
  <2>1. inc \o w \in Seq(MessagesOfClosing) /\ Len(inc \o w) = Len(inc) + Len(w)
    BY <1>1, ConcatProperties
  <2> QED BY <1>1, <2>1, ConcatProperties, LenProperties
<1>7. \A j \in DOMAIN os : j \in DOMAIN ps /\ ps[j] = os[j]
  BY <1>4, <1>5
<1>8. \A j \in DOMAIN w : Len(os) + j \in DOMAIN ps /\ ps[Len(os) + j] = w[j]
  BY <1>4, <1>5
<1>9. ASSUME NEW i \in DOMAIN (inc \o w)
      PROVE  \E j \in DOMAIN ps : (inc \o w)[i] = ps[j]
  <2>1. CASE i <= Len(inc)
    <3>1. i \in DOMAIN inc /\ (inc \o w)[i] = inc[i]
      BY <1>4, <1>6, <1>9, <2>1
    <3>2. PICK j \in DOMAIN os : inc[i] = os[j]
      BY <3>1 DEF EndInv, inc
    <3> QED BY <1>7, <3>1, <3>2
  <2>2. CASE ~(i <= Len(inc))
    <3>1. i - Len(inc) \in DOMAIN w /\ (inc \o w)[i] = w[i - Len(inc)]
      BY <1>4, <1>6, <1>9, <2>2
    <3> QED BY <1>8, <3>1
  <2> QED BY <2>1, <2>2
<1>10. ASSUME NEW code, NEW reason, HasSent(os, code, reason)
       PROVE  HasSent(ps, code, reason)
  <2>1. PICK j \in DOMAIN os : os[j].op = "close" /\ Carries(os[j], code, reason)
    BY <1>10 DEF HasSent
  <2> QED BY <1>7, <2>1 DEF HasSent
<1>11. AllFrames(e) = AllFrames(d) /\ CloseFrames(e) = CloseFrames(d)
  BY <1>2, FramesKept
<1>12. \A i \in DOMAIN e.incoming : \E j \in DOMAIN ps : e.incoming[i] = ps[j]
  BY <1>2, <1>9
<1>13. d.m_was_clean /\ ~d.refused => HasSent(ps, d.remote, d.remote_reason)
  BY <1>10 DEF EndInv
<1>14. ASSUME ~d.refused, NEW n \in DOMAIN d.reported, d.reported[n].clean
       PROVE  HasSent(ps, d.reported[n].remote, d.reported[n].remote_reason)
  <2>1. HasSent(os, d.reported[n].remote, d.reported[n].remote_reason)
    BY <1>14 DEF EndInv
  <2> QED BY <1>10, <2>1
<1>15. EndInv(e, ps)
  BY <1>2, <1>3, <1>11, <1>12, <1>13, <1>14 DEF EndInv
<1> QED BY <1>15 DEF ps

\* An end that is closed loses the batch it would have written.
LEMMA DroppedKeeps ==
  ASSUME NEW d \in Ends, NEW e \in Ends, NEW os, NEW n \in 0..Len(d.m_send_queue),
         EndInv(d, os), d.m_state = "closed",
         e.sent = d.sent,
         e.m_send_queue = SubSeq(d.m_send_queue, n + 1, Len(d.m_send_queue)),
         e.m_state = d.m_state, e.m_ec = d.m_ec, e.local = d.local,
         e.local_reason = d.local_reason, e.reported = d.reported,
         e.incoming = d.incoming, e.remote = d.remote,
         e.remote_reason = d.remote_reason, e.refused = d.refused,
         e.m_was_clean = d.m_was_clean
  PROVE  EndInv(e, os)
<1>1. PICK f \in [CloseFrames(e) -> CloseFrames(d)] :
        \A i \in CloseFrames(e) :
          /\ AllFrames(e)[i] = AllFrames(d)[f[i]]
          /\ \A j \in CloseFrames(e) : f[i] = f[j] => i = j
  BY FramesDropped
<1>2. \A i \in CloseFrames(e) : f[i] \in CloseFrames(d) /\ AllFrames(e)[i] = AllFrames(d)[f[i]]
  BY <1>1
<1>3. \A i \in CloseFrames(e) : extract_code(AllFrames(e)[i].payload).ok
  BY <1>2 DEF EndInv
<1>4. ASSUME ~d.refused
      PROVE  /\ \A i, j \in CloseFrames(e) : i = j
             /\ d.m_ec = "none" =>
                  \A i \in CloseFrames(e) : Carries(AllFrames(e)[i], d.local, d.local_reason)
             /\ \A m \in DOMAIN d.reported :
                  d.reported[m].ec = "none" =>
                    \A i \in CloseFrames(e) :
                      Carries(AllFrames(e)[i], d.reported[m].local,
                              d.reported[m].local_reason)
  <2>1. \A i, j \in CloseFrames(e) : i = j
    BY <1>1, <1>2, <1>4 DEF EndInv
  <2>2. d.m_ec = "none" =>
          \A i \in CloseFrames(e) : Carries(AllFrames(e)[i], d.local, d.local_reason)
    BY <1>2, <1>4 DEF EndInv
  <2>3. \A m \in DOMAIN d.reported :
          d.reported[m].ec = "none" =>
            \A i \in CloseFrames(d) :
              Carries(AllFrames(d)[i], d.reported[m].local, d.reported[m].local_reason)
    BY <1>4 DEF EndInv
  <2> QED BY <1>2, <2>1, <2>2, <2>3
<1> QED BY <1>3, <1>4 DEF EndInv

\* An end that pushes a text keeps its invariant.
LEMMA TextKeeps ==
  ASSUME NEW d \in Ends, NEW e \in Ends, NEW os, NEW m \in MessagesOfClosing,
         EndInv(d, os), m.op = "text",
         e.m_send_queue = Append(d.m_send_queue, m), e.sent = d.sent,
         e.m_state = d.m_state, e.m_ec = d.m_ec, e.local = d.local,
         e.local_reason = d.local_reason, e.reported = d.reported,
         e.incoming = d.incoming, e.remote = d.remote,
         e.remote_reason = d.remote_reason, e.refused = d.refused,
         e.m_was_clean = d.m_was_clean
  PROVE  EndInv(e, os)
<1>1. /\ CloseFrames(e) = CloseFrames(d)
      /\ \A i \in CloseFrames(e) : AllFrames(e)[i] = AllFrames(d)[i]
  <2>1. m.op # "close"
    OBVIOUS
  <2>2. \A i \in CloseFrames(d) :
          i \in CloseFrames(e) /\ AllFrames(e)[i] = AllFrames(d)[i]
    BY ONLY FramesPushed, e.sent = d.sent, e.m_send_queue = Append(d.m_send_queue, m)
  <2>3. \A i \in CloseFrames(e) : i \in CloseFrames(d) \/ m.op = "close"
    BY ONLY FramesPushed, e.sent = d.sent, e.m_send_queue = Append(d.m_send_queue, m)
  <2> QED BY ONLY <2>1, <2>2, <2>3
<1>2. \A i \in CloseFrames(e) : extract_code(AllFrames(e)[i].payload).ok
  BY <1>1 DEF EndInv
<1>3. d.m_state = "open" => CloseFrames(e) = {}
  BY <1>1 DEF EndInv
<1>4. ASSUME ~d.refused
      PROVE  /\ \A i, j \in CloseFrames(e) : i = j
             /\ d.m_ec = "none" =>
                  \A i \in CloseFrames(e) : Carries(AllFrames(e)[i], d.local, d.local_reason)
             /\ \A n \in DOMAIN d.reported :
                  d.reported[n].ec = "none" =>
                    \A i \in CloseFrames(e) :
                      Carries(AllFrames(e)[i], d.reported[n].local,
                              d.reported[n].local_reason)
  BY <1>1, <1>4 DEF EndInv
<1> QED BY <1>2, <1>3, <1>4 DEF EndInv

\* An end that reads a close frame keeps its invariant.
LEMMA ProcessCloseKeeps ==
  ASSUME ClosingTypeOK, NEW s \in Sides, NEW d \in Ends, NEW os, NEW payload \in Strings,
         EndInv(d, os), d.m_state # "closed",
         \E j \in DOMAIN os : os[j].op = "close" /\ os[j].payload = payload
  PROVE  /\ EndInv(process_close(s, d, payload), os)
         /\ process_close(s, d, payload) \in Ends
         /\ process_close(s, d, payload).sent = d.sent
<1> DEFINE theirs == extract_code(payload)
           cause == extract_reason(payload)
           coded == [d EXCEPT !.remote = theirs.code]
           e == IF theirs.ok THEN [coded EXCEPT !.remote_reason = cause.reason] ELSE coded
           bad == [e EXCEPT !.refused = TRUE]
           clean == [e EXCEPT !.m_was_clean = TRUE]
           p == process_close(s, d, payload)
<1>1. theirs.code \in Nat /\ theirs.ok \in BOOLEAN /\ cause.reason \in Strings
  BY ExtractedType
<1>2. /\ e \in Ends
      /\ e.sent = d.sent /\ e.m_send_queue = d.m_send_queue /\ e.m_state = d.m_state
      /\ e.m_ec = d.m_ec /\ e.local = d.local /\ e.local_reason = d.local_reason
      /\ e.reported = d.reported /\ e.incoming = d.incoming
      /\ e.remote = theirs.code /\ (theirs.ok => e.remote_reason = cause.reason)
  <2> HIDE DEF theirs, cause
  <2>1. CASE theirs.ok
    <3>1. e = [d EXCEPT !.remote = theirs.code, !.remote_reason = cause.reason]
      BY <2>1 DEF Ends
    <3> HIDE DEF e
    <3> QED BY <1>1, <2>1, <3>1 DEF Ends
  <2>2. CASE ~theirs.ok
    <3>1. e = [d EXCEPT !.remote = theirs.code]
      BY <2>2
    <3> HIDE DEF e
    <3> QED BY <1>1, <2>2, <3>1 DEF Ends
  <2> QED BY <1>1, <2>1, <2>2
<1>3. e.refused = d.refused /\ e.m_was_clean = d.m_was_clean
  BY DEF Ends
<1>4. p = IF ~theirs.ok \/ ~cause.ok
          THEN IF k.drop_on_protocol_error THEN terminate_with(bad, "invalid_close")
               ELSE send_close_ack(s, bad, protocol_error, <<>>)
          ELSE IF d.m_state = "open" THEN send_close_ack(s, e, blank, <<>>)
          ELSE IF d.m_was_clean THEN e
          ELSE IF s = "server" THEN terminate_with(clean, "none") ELSE clean
  BY DEF process_close
<1>5. <<>> \in Strings /\ protocol_error \in Nat /\ blank \in Nat
  BY DEF Strings, protocol_error, blank
<1>6. theirs.ok => HasSent(os, e.remote, e.remote_reason)
  BY <1>2 DEF HasSent, Carries
<1>7. \A i \in DOMAIN d.incoming : \E j \in DOMAIN os : d.incoming[i] = os[j]
  BY DEF EndInv
<1>8. (s = "server") \in BOOLEAN
  OBVIOUS
<1>9. /\ bad \in Ends /\ bad.refused
      /\ bad.sent = e.sent /\ bad.m_send_queue = e.m_send_queue
      /\ bad.m_state = e.m_state /\ bad.m_ec = e.m_ec /\ bad.local = e.local
      /\ bad.local_reason = e.local_reason /\ bad.reported = e.reported
      /\ bad.incoming = e.incoming
  <2> HIDE DEF e
  <2> QED BY <1>2 DEF Ends
<1>10. /\ clean \in Ends
       /\ clean.sent = e.sent /\ clean.m_send_queue = e.m_send_queue
       /\ clean.m_state = e.m_state /\ clean.m_ec = e.m_ec /\ clean.local = e.local
       /\ clean.local_reason = e.local_reason /\ clean.reported = e.reported
       /\ clean.incoming = e.incoming /\ clean.remote = e.remote
       /\ clean.remote_reason = e.remote_reason
  <2> HIDE DEF e
  <2> QED BY <1>2 DEF Ends
<1>11. clean.refused = e.refused
  <2> HIDE DEF e
  <2> QED BY <1>2 DEF Ends
<1> HIDE DEF theirs, cause, e, bad, clean, p
<1>12. EndInv(bad, os)
  BY <1>2, <1>7, <1>9, OtherwiseSame
<1>13. ASSUME theirs.ok
       PROVE  EndInv(e, os) /\ EndInv(clean, os)
  <2>1. EndInv(e, os)
    BY <1>2, <1>3, <1>6, <1>7, <1>13, OtherwiseSame
  <2>2. EndInv(clean, os)
    <3>1. \/ clean.refused
          \/ ~d.refused /\ HasSent(os, clean.remote, clean.remote_reason)
      BY <1>3, <1>6, <1>10, <1>11, <1>13
    <3> QED BY <1>2, <1>7, <1>10, <3>1, OtherwiseSame
  <2> QED BY <2>1, <2>2
<1>14. CASE ~theirs.ok \/ ~cause.ok
  <2>1. CASE k.drop_on_protocol_error
    <3>1. p = terminate_with(bad, "invalid_close") /\ "invalid_close" \in ECs
      BY <1>4, <1>14, <2>1 DEF ECs
    <3> QED BY <1>2, <1>9, <1>12, <3>1, TerminateKeeps DEF p
  <2>2. CASE ~k.drop_on_protocol_error
    <3>1. p = send_close_frame(bad, protocol_error, <<>>, TRUE, s = "server")
      BY <1>4, <1>14, <2>2 DEF send_close_ack
    <3>2. bad.m_state # "closed"
      BY <1>2, <1>9
    <3>3. /\ EndInv(send_close_frame(bad, protocol_error, <<>>, TRUE, s = "server"), os)
          /\ send_close_frame(bad, protocol_error, <<>>, TRUE, s = "server") \in Ends
          /\ send_close_frame(bad, protocol_error, <<>>, TRUE, s = "server").sent = bad.sent
      BY <1>5, <1>8, <1>9, <1>12, <3>2, SendCloseKeeps
    <3> QED BY <1>2, <1>9, <3>1, <3>3 DEF p
  <2> QED BY <2>1, <2>2
<1>15. CASE theirs.ok /\ cause.ok
  <2>1. CASE d.m_state = "open"
    <3>1. p = send_close_ack(s, e, blank, <<>>)
      BY <1>4, <1>15, <2>1
    <3>2. /\ e.m_state = "open" /\ e.m_state # "closed"
          /\ HasSent(os, e.remote, e.remote_reason) /\ EndInv(e, os) /\ e \in Ends
      BY <1>2, <1>6, <1>13, <1>15, <2>1
    <3>3. /\ EndInv(send_close_ack(s, e, blank, <<>>), os)
          /\ send_close_ack(s, e, blank, <<>>) \in Ends
          /\ send_close_ack(s, e, blank, <<>>).sent = e.sent
      BY <3>2, AckKeeps
    <3> QED BY <1>2, <3>1, <3>3 DEF p
  <2>2. CASE d.m_state # "open" /\ d.m_was_clean
    <3>1. p = e
      BY <1>4, <1>15, <2>2
    <3> QED BY <1>2, <1>13, <1>15, <3>1 DEF p
  <2>3. CASE d.m_state # "open" /\ ~d.m_was_clean /\ s = "server"
    <3>1. p = terminate_with(clean, "none") /\ "none" \in ECs
      BY <1>4, <1>15, <2>3 DEF ECs
    <3> QED BY <1>2, <1>10, <1>13, <1>15, <3>1, TerminateKeeps DEF p
  <2>4. CASE d.m_state # "open" /\ ~d.m_was_clean /\ s # "server"
    <3>1. p = clean
      BY <1>4, <1>15, <2>4
    <3> QED BY <1>2, <1>10, <1>13, <1>15, <3>1 DEF p
  <2> QED BY <2>1, <2>2, <2>3, <2>4
<1> QED BY <1>14, <1>15

-----------------------------------------------------------------------------
(* The invariant.                                                          *)

\* There are two ends, each the peer of the other.
LEMMA PeerFacts ==
  ASSUME NEW s \in Sides
  PROVE  Peer(s) \in Sides /\ Peer(s) # s /\ Peer(Peer(s)) = s
         /\ \A t \in Sides : t = s \/ t = Peer(s)
BY DEF Sides, Peer

\* A step of one of our ends that leaves what it has sent.
LEMMA StepKeeps ==
  ASSUME ClosingTypeOK, ClosingInv, NEW s \in Sides, Ours(s), NEW e \in Ends,
         EndInv(e, k.end[Peer(s)].sent), e.sent = k.end[s].sent, Step(s, e)
  PROVE  ClosingTypeOK' /\ ClosingInv'
<1>1. /\ k'.stranger = k.stranger /\ k'.end[s] = e
      /\ k'.end[Peer(s)] = k.end[Peer(s)] /\ ClosingTypeOK'
  BY PeerFacts DEF ClosingTypeOK, Step
<1>2. k'.stranger => /\ s # "client" /\ Peer(s) = "client"
                     /\ k'.end["client"] = k.end["client"]
  BY <1>1 DEF Ours, Sides, Peer
<1>3. ASSUME NEW t \in Sides, Ours(t)'
      PROVE  EndInv(k'.end[t], k'.end[Peer(t)].sent)
  <2>1. CASE t = s
    BY <1>1, <2>1
  <2>2. CASE t = Peer(s)
    <3>1. /\ Ours(t) /\ Peer(t) = s /\ k'.end[t] = k.end[t]
          /\ k'.end[Peer(t)].sent = k.end[Peer(t)].sent
      BY <1>1, <1>3, <2>2, PeerFacts DEF Ours
    <3> QED BY <3>1 DEF ClosingInv
  <2> QED BY <2>1, <2>2, PeerFacts
<1>4. ClosingInv'
  BY <1>1, <1>2, <1>3 DEF ClosingInv
<1> QED BY <1>1, <1>4

\* What the invariant says of an end and its peer.
LEMMA EndFacts ==
  ASSUME ClosingTypeOK, ClosingInv, NEW s \in Sides
  PROVE  /\ k.end[s] \in Ends /\ k.end[Peer(s)] \in Ends
         /\ k.end[Peer(s)].sent \in Seq(MessagesOfClosing)
         /\ Ours(s) => EndInv(k.end[s], k.end[Peer(s)].sent)
<1>1. k.end[s] \in Ends /\ k.end[Peer(s)] \in Ends
  BY PeerFacts DEF ClosingTypeOK
<1> QED BY <1>1, FramesType DEF ClosingInv

\* The application closes: its reason, cut to size, is still a string.
LEMMA CloseStep ==
  ASSUME ClosingTypeOK, ClosingInv, NEW s \in Sides, NEW with \in CloseWith,
         Close(s, with.code, with.reason)
  PROVE  ClosingTypeOK' /\ ClosingInv'
<1> DEFINE d == k.end[s]
           n == IF Len(with.reason) < close_reason_size
                THEN Len(with.reason) ELSE close_reason_size
           cut == SubSeq(with.reason, 1, n)
           e == send_close_frame(d, with.code, cut, FALSE, terminal_code(with.code))
<1>1. Ours(s) /\ d.m_state = "open" /\ Step(s, e)
  BY DEF Close
<1>2. with.code \in Nat /\ with.reason \in Strings
  BY ClosingAssumption DEF Strings, Byte
<1>3. cut \in Strings
  <2>1. Len(with.reason) \in Nat
    BY <1>2, StringFacts
  <2>2. n \in 0..Len(with.reason)
    <3>1. close_reason_size \in Nat
      BY ClosingAssumption
    <3>2. \A a, b \in Nat : (IF a < b THEN a ELSE b) \in 0..a
      OBVIOUS
    <3> QED BY ONLY <2>1, <3>1, <3>2
  <2> QED BY <1>2, <2>2, StringFacts
<1>4. terminal_code(with.code) \in BOOLEAN
  BY DEF terminal_code
<1>5. d \in Ends /\ EndInv(d, k.end[Peer(s)].sent)
  BY <1>1, EndFacts
<1>6. e \in Ends /\ EndInv(e, k.end[Peer(s)].sent) /\ e.sent = d.sent
  <2>1. d.m_state # "closed"
    BY <1>1
  <2> HIDE DEF d, cut
  <2>2. \A ack, terminal \in BOOLEAN : ~ack =>
          /\ EndInv(send_close_frame(d, with.code, cut, ack, terminal), k.end[Peer(s)].sent)
          /\ send_close_frame(d, with.code, cut, ack, terminal) \in Ends
          /\ send_close_frame(d, with.code, cut, ack, terminal).sent = d.sent
    BY <1>1, <1>2, <1>3, <1>5, <2>1, SendCloseKeeps
  <2> QED BY <1>4, <2>2
<1> HIDE DEF e
<1> QED BY <1>1, <1>6, StepKeeps

\* The application sends a text.
LEMMA SendStep ==
  ASSUME ClosingTypeOK, ClosingInv, NEW s \in Sides, Send(s)
  PROVE  ClosingTypeOK' /\ ClosingInv'
<1> DEFINE d == k.end[s]
           m == [op |-> "text", payload |-> <<>>, terminal |-> FALSE]
           e == write_push([d EXCEPT !.sends = @ + 1], m)
<1>1. Ours(s) /\ Step(s, e)
  BY DEF Send
<1>2. d \in Ends /\ EndInv(d, k.end[Peer(s)].sent)
  BY <1>1, EndFacts
<1>3. m \in MessagesOfClosing /\ m.op = "text"
  BY DEF MessagesOfClosing, Strings
<1> HIDE DEF m, d
<1>4. /\ d.m_send_queue \in Seq(MessagesOfClosing)
      /\ Append(d.m_send_queue, m) \in Seq(MessagesOfClosing)
  BY <1>2, <1>3, FramesType, AppendProperties
<1>5. d.sends + 1 \in Nat
  BY <1>2 DEF Ends
<1>6. e = [d EXCEPT !.sends = d.sends + 1, !.m_send_queue = Append(d.m_send_queue, m)]
  BY <1>2 DEF write_push, Ends
<1> HIDE DEF e
<1>7. e \in Ends
  BY <1>2, <1>4, <1>5, <1>6 DEF Ends
<1>8. /\ e.m_send_queue = Append(d.m_send_queue, m) /\ e.sent = d.sent
      /\ e.m_state = d.m_state /\ e.m_ec = d.m_ec /\ e.local = d.local
      /\ e.local_reason = d.local_reason /\ e.reported = d.reported
      /\ e.incoming = d.incoming /\ e.remote = d.remote
      /\ e.remote_reason = d.remote_reason
  BY <1>2, <1>6 DEF Ends
<1>9. e.refused = d.refused /\ e.m_was_clean = d.m_was_clean
  BY <1>2, <1>6 DEF Ends
<1>10. EndInv(e, k.end[Peer(s)].sent)
  BY <1>2, <1>3, <1>7, <1>8, <1>9, TextKeeps
<1> QED BY <1>1, <1>7, <1>8, <1>10, StepKeeps DEF d

\* One of our ends is terminated, for whatever reason.
LEMMA TerminateStep ==
  ASSUME ClosingTypeOK, ClosingInv, NEW s \in Sides, Ours(s), NEW ec \in ECs,
         Step(s, terminate_with(k.end[s], ec))
  PROVE  ClosingTypeOK' /\ ClosingInv'
<1>1. k.end[s] \in Ends /\ EndInv(k.end[s], k.end[Peer(s)].sent)
  BY EndFacts
<1>2. /\ EndInv(terminate_with(k.end[s], ec), k.end[Peer(s)].sent)
      /\ terminate_with(k.end[s], ec) \in Ends
      /\ terminate_with(k.end[s], ec).sent = k.end[s].sent
  BY <1>1, TerminateKeeps
<1> QED BY <1>2, StepKeeps

\* A batch is written: the peer receives it, or the end was closed and loses it.
LEMMA WriteStep ==
  ASSUME ClosingTypeOK, ClosingInv, NEW s \in Sides, write_frame(s)
  PROVE  ClosingTypeOK' /\ ClosingInv'
<1> DEFINE d == k.end[s]
           o == k.end[Peer(s)]
           q == d.m_send_queue
           batch == Batch(q)
           w == IF d.m_state = "closed" THEN <<>> ELSE batch
           e == [d EXCEPT !.m_current_msgs = batch,
                          !.m_send_queue = SubSeq(@, Len(batch) + 1, Len(@)),
                          !.sent = @ \o w]
           p == [o EXCEPT !.incoming = @ \o w]
<1>1. Ours(s) /\ k' = [k EXCEPT !.end[s] = e, !.end[Peer(s)].incoming = @ \o w]
  BY DEF write_frame
<1>2. d \in Ends /\ o \in Ends /\ EndInv(d, o.sent)
  BY <1>1, EndFacts
<1>3. /\ d.sent \in Seq(MessagesOfClosing) /\ q \in Seq(MessagesOfClosing)
      /\ o.sent \in Seq(MessagesOfClosing)
      /\ o.incoming \in Seq(MessagesOfClosing)
  BY <1>2, FramesType DEF Ends
<1>4. PICK n \in 0..Len(q) :
        /\ batch = SubSeq(q, 1, n) /\ Len(batch) = n /\ batch \in Seq(MessagesOfClosing)
  BY <1>3, BatchIsPrefix
<1>5. w \in Seq(MessagesOfClosing)
  BY <1>4
<1>6. SubSeq(q, n + 1, Len(q)) \in Seq(MessagesOfClosing)
  <2> HIDE DEF q
  <2> QED BY <1>3, CutInTwo
<1> DEFINE rest == SubSeq(q, n + 1, Len(q))
           out == d.sent \o w
           in == o.incoming \o w
<1>7. out \in Seq(MessagesOfClosing) /\ in \in Seq(MessagesOfClosing)
  <2> HIDE DEF d, o, w
  <2> QED BY <1>3, <1>5, ConcatProperties
<1>8. e = [d EXCEPT !.m_current_msgs = batch, !.m_send_queue = rest, !.sent = out]
      /\ p = [o EXCEPT !.incoming = in]
  BY <1>2, <1>4 DEF Ends
<1>9. /\ k'.stranger = k.stranger /\ k'.end[s] = e /\ k'.end[Peer(s)] = p
      /\ \A t \in Sides : t = s \/ t = Peer(s)
      /\ k' \in [stranger : BOOLEAN, silent_close : BOOLEAN,
                 drop_on_protocol_error : BOOLEAN, end : [Sides -> {e, p}]]
  <2> HIDE DEF w, batch
  <2>1. k' = [k EXCEPT !.end = [k.end EXCEPT ![s] = e, ![Peer(s)] = p]]
    BY <1>1, PeerFacts DEF ClosingTypeOK
  <2> HIDE DEF e, p
  <2> QED BY <2>1, PeerFacts DEF ClosingTypeOK
<1> HIDE DEF q, batch, w, e, p, rest, out, in
<1>10. /\ e \in Ends
       /\ e.m_send_queue = rest /\ e.sent = out
       /\ e.m_state = d.m_state /\ e.m_ec = d.m_ec /\ e.local = d.local
       /\ e.local_reason = d.local_reason /\ e.reported = d.reported
       /\ e.incoming = d.incoming /\ e.remote = d.remote
       /\ e.remote_reason = d.remote_reason
  <2> HIDE DEF d
  <2>1. rest \in Seq(MessagesOfClosing)
    BY <1>6 DEF rest
  <2> QED BY <1>2, <1>4, <1>7, <1>8, <2>1 DEF Ends
<1>11. e.refused = d.refused /\ e.m_was_clean = d.m_was_clean
  BY <1>2, <1>8 DEF Ends
<1>12. p \in Ends /\ p.sent = o.sent
  BY <1>2, <1>7, <1>8 DEF Ends
<1>13. EndInv(e, o.sent)
  <2>1. CASE d.m_state = "closed"
    <3>1. w = <<>>
      BY <2>1 DEF w
    <3>2. out = d.sent
      BY <1>3, <3>1, ConcatEmptySeq DEF out
    <3>3. rest = SubSeq(d.m_send_queue, n + 1, Len(d.m_send_queue)) /\ n \in 0..Len(d.m_send_queue)
      BY <1>4 DEF rest, q
    <3> HIDE DEF d, o
    <3> QED BY <1>2, <1>10, <1>11, <2>1, <3>2, <3>3, DroppedKeeps
  <2>2. CASE d.m_state # "closed"
    <3>1. out = d.sent \o SubSeq(d.m_send_queue, 1, n)
      BY <1>4, <2>2 DEF out, w, q
    <3>2. rest = SubSeq(d.m_send_queue, n + 1, Len(d.m_send_queue)) /\ n \in 0..Len(d.m_send_queue)
      BY <1>4 DEF rest, q
    <3> HIDE DEF d, o
    <3>3. AllFrames(e) = AllFrames(d) /\ CloseFrames(e) = CloseFrames(d)
      BY <1>2, <1>10, <3>1, <3>2, FramesWritten
    <3> QED BY <1>2, <1>10, <1>11, <3>3 DEF EndInv
  <2> QED BY <2>1, <2>2
<1>14. Ours(Peer(s)) => EndInv(p, e.sent)
  <2> SUFFICES ASSUME Ours(Peer(s)) PROVE EndInv(p, e.sent)
    OBVIOUS
  <2>1. EndInv(o, d.sent)
    BY EndFacts, PeerFacts
  <2>2. p = [o EXCEPT !.incoming = @ \o w]
    BY DEF p
  <2> HIDE DEF d, o
  <2>3. EndInv(p, d.sent \o w)
    BY <1>2, <1>3, <1>5, <2>1, <2>2, MoreSent
  <2> QED BY <1>10, <2>3 DEF out
<1>15. ClosingTypeOK'
  <2>1. {e, p} \subseteq Ends
    BY <1>10, <1>12
  <2> QED BY <1>9, <2>1 DEF ClosingTypeOK
<1>16. \A t \in Sides : Ours(t)' => EndInv(k'.end[t], k'.end[Peer(t)].sent)
  <2> HIDE DEF d, o
  <2>1. Ours(s)' => EndInv(k'.end[s], k'.end[Peer(s)].sent)
    BY <1>9, <1>12, <1>13
  <2>2. Ours(Peer(s))' => EndInv(k'.end[Peer(s)], k'.end[Peer(Peer(s))].sent)
    BY <1>9, <1>14, PeerFacts DEF Ours
  <2> QED BY <1>9, <2>1, <2>2
<1>17. k'.stranger => /\ k'.end["client"].m_current_msgs = <<>>
                      /\ ~k'.end["client"].timer
                      /\ k'.end["client"].reported = <<>>
  <2> SUFFICES ASSUME k.stranger
               PROVE  /\ k'.end["client"].m_current_msgs = <<>>
                      /\ ~k'.end["client"].timer
                      /\ k'.end["client"].reported = <<>>
    BY <1>9
  <2>1. s = "server" /\ Peer(s) = "client"
    BY <1>1 DEF Ours, Peer
  <2>2. /\ p.m_current_msgs = o.m_current_msgs /\ p.timer = o.timer
        /\ p.reported = o.reported
    BY <1>2, <1>8 DEF Ends
  <2> QED BY <1>9, <2>1, <2>2 DEF ClosingInv
<1> QED BY <1>15, <1>16, <1>17 DEF ClosingInv

\* A stranger's end has no timer and nothing in flight.
LEMMA OnlyOurs ==
  ASSUME ClosingInv, NEW s \in Sides,
         k.end[s].m_current_msgs # <<>> \/ k.end[s].timer
  PROVE  Ours(s)
BY DEF ClosingInv, Ours, Sides

\* A write completes or fails; a terminal frame ends the connection.
LEMMA WrittenStep ==
  ASSUME ClosingTypeOK, ClosingInv, NEW s \in Sides, handle_write_frame(s)
  PROVE  ClosingTypeOK' /\ ClosingInv'
<1> DEFINE d == k.end[s]
           os == k.end[Peer(s)].sent
           e == [d EXCEPT !.m_current_msgs = <<>>]
<1>1. Ours(s)
  BY OnlyOurs DEF handle_write_frame
<1>2. \/ Step(s, terminate_with(e, "write"))
      \/ Step(s, terminate_with(e, "none"))
      \/ Step(s, e)
  BY DEF handle_write_frame
<1>3. d \in Ends /\ EndInv(d, os)
  BY <1>1, EndFacts
<1>4. /\ e \in Ends /\ e.sent = d.sent /\ e.m_send_queue = d.m_send_queue
      /\ e.m_state = d.m_state /\ e.m_ec = d.m_ec /\ e.local = d.local
      /\ e.local_reason = d.local_reason /\ e.reported = d.reported
      /\ e.incoming = d.incoming /\ e.remote = d.remote
      /\ e.remote_reason = d.remote_reason
  <2> HIDE DEF d
  <2>1. <<>> \in Seq(MessagesOfClosing)
    OBVIOUS
  <2> QED BY <1>3, <2>1 DEF Ends
<1>5. e.refused = d.refused /\ e.m_was_clean = d.m_was_clean
  BY <1>3 DEF Ends
<1> HIDE DEF e
<1>6. EndInv(e, os)
  <2> HIDE DEF d, os
  <2>1. /\ \A i \in DOMAIN d.incoming : \E j \in DOMAIN os : d.incoming[i] = os[j]
        /\ d.refused \/ (d.m_was_clean => HasSent(os, d.remote, d.remote_reason))
    BY <1>3 DEF EndInv
  <2>2. \A i \in DOMAIN e.incoming : \E j \in DOMAIN os : e.incoming[i] = os[j]
    BY <1>4, <2>1
  <2>3. e.refused \/ (e.m_was_clean => HasSent(os, e.remote, e.remote_reason))
    BY <1>4, <1>5, <2>1
  <2>4. EndInv(d, os)
    BY <1>3
  <2> QED BY ONLY <1>4, <1>5, <2>2, <2>3, <2>4, OtherwiseSame
<1>7. ASSUME NEW ec \in ECs
      PROVE  /\ EndInv(terminate_with(e, ec), os) /\ terminate_with(e, ec) \in Ends
             /\ terminate_with(e, ec).sent = d.sent
  BY <1>4, <1>6, TerminateKeeps
<1>8. CASE Step(s, terminate_with(e, "write"))
  <2>1. "write" \in ECs
    BY DEF ECs
  <2> QED BY <1>1, <1>7, <1>8, <2>1, StepKeeps
<1>9. CASE Step(s, terminate_with(e, "none"))
  <2>1. "none" \in ECs
    BY DEF ECs
  <2> QED BY <1>1, <1>7, <1>9, <2>1, StepKeeps
<1>10. CASE Step(s, e)
  BY <1>1, <1>4, <1>6, <1>10, StepKeeps
<1> QED BY <1>2, <1>8, <1>9, <1>10

\* A frame is read: what is left to read is still what the peer sent.
LEMMA ReadStep ==
  ASSUME ClosingTypeOK, ClosingInv, NEW s \in Sides, ReadFrame(s)
  PROVE  ClosingTypeOK' /\ ClosingInv'
<1> DEFINE d == k.end[s]
           os == k.end[Peer(s)].sent
           e == [d EXCEPT !.incoming = Tail(@)]
           msg == Head(d.incoming)
<1>1. /\ Ours(s) /\ d.incoming # <<>> /\ d.m_state # "closed"
      /\ Step(s, IF msg.op = "close" THEN process_close(s, e, msg.payload) ELSE e)
  BY DEF ReadFrame
<1>2. d \in Ends /\ EndInv(d, os)
  BY <1>1, EndFacts
<1>3. d.incoming \in Seq(MessagesOfClosing)
  BY <1>2 DEF Ends
<1>4. /\ Tail(d.incoming) \in Seq(MessagesOfClosing) /\ msg \in MessagesOfClosing
      /\ 1 \in DOMAIN d.incoming /\ msg = d.incoming[1]
      /\ \A i \in DOMAIN Tail(d.incoming) :
           i + 1 \in DOMAIN d.incoming /\ Tail(d.incoming)[i] = d.incoming[i + 1]
  <2> DEFINE in == d.incoming
  <2>1. in \in Seq(MessagesOfClosing) /\ in # <<>>
    BY <1>1, <1>3
  <2> HIDE DEF in, d
  <2>2. /\ Len(in) \in Nat /\ Len(in) >= 1 /\ DOMAIN in = 1..Len(in)
        /\ \A i \in 1..Len(in) : in[i] \in MessagesOfClosing
    BY <2>1, EmptySeq, LenProperties, ElementOfSeq
  <2>3. /\ Tail(in) \in Seq(MessagesOfClosing) /\ Len(Tail(in)) = Len(in) - 1
        /\ DOMAIN Tail(in) = 1..(Len(in) - 1)
        /\ \A i \in 1..(Len(in) - 1) : Tail(in)[i] = in[i + 1]
    BY <2>1, <2>2, HeadTailProperties, LenProperties
  <2>4. Head(in) = in[1] /\ 1 \in 1..Len(in)
    BY <2>1, <2>2
  <2>5. \A i \in 1..(Len(in) - 1) : i + 1 \in 1..Len(in)
    BY <2>2
  <2> QED BY <2>2, <2>3, <2>4, <2>5 DEF in
<1>5. /\ e \in Ends /\ e.sent = d.sent /\ e.m_send_queue = d.m_send_queue
      /\ e.m_state = d.m_state /\ e.m_ec = d.m_ec /\ e.local = d.local
      /\ e.local_reason = d.local_reason /\ e.reported = d.reported
      /\ e.incoming = Tail(d.incoming) /\ e.remote = d.remote
      /\ e.remote_reason = d.remote_reason
  <2> HIDE DEF d
  <2> QED BY <1>2, <1>4 DEF Ends
<1>6. e.refused = d.refused /\ e.m_was_clean = d.m_was_clean
  BY <1>2 DEF Ends
<1> HIDE DEF d, os, e, msg
<1>7. \A i \in DOMAIN d.incoming : \E j \in DOMAIN os : d.incoming[i] = os[j]
  BY <1>2 DEF EndInv
<1>8. EndInv(e, os)
  <2>1. d.refused \/ (d.m_was_clean => HasSent(os, d.remote, d.remote_reason))
    BY <1>2 DEF EndInv
  <2>2. \A i \in DOMAIN e.incoming : \E j \in DOMAIN os : e.incoming[i] = os[j]
    BY <1>4, <1>5, <1>7
  <2>3. e.refused \/ (e.m_was_clean => HasSent(os, e.remote, e.remote_reason))
    BY <1>5, <1>6, <2>1
  <2>4. EndInv(d, os)
    BY <1>2
  <2>5. /\ e.sent = d.sent /\ e.m_send_queue = d.m_send_queue
        /\ e.m_state = d.m_state /\ e.m_ec = d.m_ec /\ e.local = d.local
        /\ e.local_reason = d.local_reason /\ e.reported = d.reported
    BY <1>5
  <2>6. \/ e.refused
        \/ ~d.refused /\ (e.m_was_clean => HasSent(os, e.remote, e.remote_reason))
    BY <1>6, <2>3
  <2> QED BY ONLY <2>2, <2>4, <2>5, <2>6, OtherwiseSame
<1>9. CASE msg.op = "close"
  <2> DEFINE p == process_close(s, e, msg.payload)
  <2>1. Step(s, p)
    BY <1>1, <1>9
  <2>2. msg.payload \in Strings
    BY <1>4 DEF MessagesOfClosing
  <2>3. \E j \in DOMAIN os : os[j].op = "close" /\ os[j].payload = msg.payload
    BY <1>4, <1>7, <1>9
  <2>4. EndInv(p, os) /\ p \in Ends /\ p.sent = e.sent
    BY <1>1, <1>5, <1>8, <2>2, <2>3, ProcessCloseKeeps
  <2> HIDE DEF p
  <2> QED BY <1>1, <1>5, <2>1, <2>4, StepKeeps DEF d, os
<1>10. CASE msg.op # "close"
  <2>1. Step(s, e)
    BY <1>1, <1>10
  <2> QED BY <1>1, <1>5, <1>8, <2>1, StepKeeps DEF d, os
<1> QED BY <1>9, <1>10

\* The end of the file is read.
LEMMA EofStep ==
  ASSUME ClosingTypeOK, ClosingInv, NEW s \in Sides, ReadEof(s)
  PROVE  ClosingTypeOK' /\ ClosingInv'
<1>1. Ours(s) /\ \E ec \in {"none", "eof"} : Step(s, terminate_with(k.end[s], ec))
  BY DEF ReadEof
<1>2. {"none", "eof"} \subseteq ECs
  BY DEF ECs
<1> QED BY <1>1, <1>2, TerminateStep

\* A stranger sends a close frame: nothing is asked of its own end.
LEMMA StrangerClosesStep ==
  ASSUME ClosingTypeOK, ClosingInv, StrangerCloses
  PROVE  ClosingTypeOK' /\ ClosingInv'
<1> DEFINE c == k.end["client"]
           d == k.end["server"]
<1>1. k.stranger /\ "client" \in Sides /\ "server" \in Sides /\ Peer("server") = "client"
      /\ Sides = {"client", "server"}
  BY DEF StrangerCloses, Sides, Peer
<1>2. PICK payload \in StrangePayloads :
        LET m == [op |-> "close", payload |-> payload, terminal |-> FALSE] IN
        k' = [k EXCEPT !.end["client"].sent = Append(@, m),
                       !.end["server"].incoming = Append(@, m)]
  BY DEF StrangerCloses
<1> DEFINE m == [op |-> "close", payload |-> payload, terminal |-> FALSE]
           ms == <<m>>
           x == [c EXCEPT !.sent = @ \o ms]
           y == [d EXCEPT !.incoming = @ \o ms]
<1>3. payload \in Strings
  BY ClosingAssumption DEF Strings, Byte
<1>4. m \in MessagesOfClosing
  BY <1>3 DEF MessagesOfClosing
<1>5. ms \in Seq(MessagesOfClosing)
  <2> HIDE DEF m
  <2> QED BY <1>4
<1>6. c \in Ends /\ d \in Ends
  BY <1>1 DEF ClosingTypeOK
<1>7. /\ c.sent \in Seq(MessagesOfClosing) /\ d.incoming \in Seq(MessagesOfClosing)
      /\ c.sent \o ms \in Seq(MessagesOfClosing)
      /\ d.incoming \o ms \in Seq(MessagesOfClosing)
  <2>1. c.sent \in Seq(MessagesOfClosing) /\ d.incoming \in Seq(MessagesOfClosing)
    BY <1>6 DEF Ends
  <2> HIDE DEF c, d, ms
  <2> QED BY <1>5, <2>1, ConcatProperties
<1>8. Append(c.sent, m) = c.sent \o ms /\ Append(d.incoming, m) = d.incoming \o ms
  <2> HIDE DEF c, d, m
  <2> QED BY <1>4, <1>7, AppendIsConcat
<1>9. x \in Ends /\ y \in Ends
  <2> HIDE DEF c, d, ms
  <2> QED BY <1>6, <1>7 DEF Ends
<1>10. k' = [k EXCEPT !.end = [k.end EXCEPT !["client"] = [c EXCEPT !.sent = c.sent \o ms],
                                            !["server"] = [d EXCEPT !.incoming = d.incoming \o ms]]]
  <2> HIDE DEF m, ms
  <2>1. k' = [k EXCEPT !.end["client"].sent = Append(@, m),
                       !.end["server"].incoming = Append(@, m)]
    BY <1>2 DEF m
  <2>2. k.end \in [Sides -> Ends]
    BY DEF ClosingTypeOK
  <2> QED BY <1>1, <1>6, <1>8, <2>1, <2>2 DEF ClosingTypeOK
<1>11. k'.stranger /\ k'.end["client"] = x /\ k'.end["server"] = y /\ ClosingTypeOK'
  <2> HIDE DEF c, d, ms
  <2>1. x = [c EXCEPT !.sent = c.sent \o ms] /\ y = [d EXCEPT !.incoming = d.incoming \o ms]
    OBVIOUS
  <2> HIDE DEF x, y
  <2> QED BY <1>1, <1>9, <1>10, <2>1 DEF ClosingTypeOK
<1>12. EndInv(d, c.sent)
  BY <1>1 DEF ClosingInv, Ours
<1>13. EndInv(y, c.sent \o ms)
  <2>1. y = [d EXCEPT !.incoming = @ \o ms]
    OBVIOUS
  <2> HIDE DEF c, d, ms, y
  <2> QED BY <1>5, <1>6, <1>7, <1>12, <2>1, MoreSent
<1>14. x.sent = c.sent \o ms /\ x.m_current_msgs = c.m_current_msgs
       /\ x.timer = c.timer /\ x.reported = c.reported
  <2> HIDE DEF c, ms
  <2> QED BY <1>6 DEF Ends
<1>15. c.m_current_msgs = <<>> /\ ~c.timer /\ c.reported = <<>>
  BY <1>1 DEF ClosingInv
<1> HIDE DEF c, d, ms, x, y
<1>16. ASSUME NEW t \in Sides, Ours(t)' PROVE EndInv(k'.end[t], k'.end[Peer(t)].sent)
  <2>1. t = "server"
    BY <1>11, <1>16 DEF Ours
  <2> QED BY <1>1, <1>11, <1>13, <1>14, <2>1
<1> QED BY <1>11, <1>14, <1>15, <1>16 DEF ClosingInv

\* A stranger goes: what it sent is still what was sent.
LEMMA StrangerGoesStep ==
  ASSUME ClosingTypeOK, ClosingInv, StrangerGoes
  PROVE  ClosingTypeOK' /\ ClosingInv'
<1> DEFINE c == k.end["client"]
           d == k.end["server"]
           x == [c EXCEPT !.m_state = "closed"]
<1>1. k.stranger /\ "client" \in Sides /\ "server" \in Sides /\ Peer("server") = "client"
      /\ Sides = {"client", "server"}
  BY DEF StrangerGoes, Sides, Peer
<1>2. c \in Ends /\ k.end \in [Sides -> Ends]
  BY <1>1 DEF ClosingTypeOK
<1>3. k' = [k EXCEPT !.end = [k.end EXCEPT !["client"] = x]]
  BY <1>1, <1>2 DEF StrangerGoes, ClosingTypeOK
<1>4. /\ x \in Ends /\ x.sent = c.sent /\ x.m_current_msgs = c.m_current_msgs
      /\ x.timer = c.timer /\ x.reported = c.reported
  <2> HIDE DEF c
  <2> QED BY <1>2 DEF Ends
<1>5. EndInv(d, c.sent) /\ c.m_current_msgs = <<>> /\ ~c.timer /\ c.reported = <<>>
  BY <1>1 DEF ClosingInv, Ours
<1> HIDE DEF x
<1>6. k'.stranger /\ k'.end["client"] = x /\ k'.end["server"] = d /\ ClosingTypeOK'
  BY <1>1, <1>2, <1>3, <1>4 DEF ClosingTypeOK
<1>7. ASSUME NEW t \in Sides, Ours(t)' PROVE EndInv(k'.end[t], k'.end[Peer(t)].sent)
  <2>1. t = "server"
    BY <1>6, <1>7 DEF Ours
  <2> QED BY <1>1, <1>4, <1>5, <1>6, <2>1
<1> QED BY <1>4, <1>5, <1>6, <1>7 DEF ClosingInv

\* The invariant holds at first.
LEMMA InitHolds == ClosingInit => ClosingTypeOK /\ ClosingInv
<1> SUFFICES ASSUME ClosingInit PROVE ClosingTypeOK /\ ClosingInv
  OBVIOUS
<1>1. PICK stranger \in BOOLEAN, silent \in BOOLEAN, drop \in BOOLEAN :
        k = [stranger |-> stranger, silent_close |-> silent,
             drop_on_protocol_error |-> drop, end |-> [s \in Sides |-> ClosingEnd]]
  BY DEF ClosingInit
<1>2. <<>> \in Strings /\ <<>> \in Seq(MessagesOfClosing) /\ <<>> \in Seq(Reports)
      /\ abnormal_close \in Nat /\ "none" \in ECs
  BY DEF Strings, abnormal_close, ECs
<1>3. ClosingEnd \in Ends
  BY <1>2 DEF ClosingEnd, Ends
<1>4. /\ k.end = [s \in Sides |-> ClosingEnd] /\ k \in
         [stranger : BOOLEAN, silent_close : BOOLEAN, drop_on_protocol_error : BOOLEAN,
          end : [Sides -> Ends]]
  BY <1>1, <1>3
<1>5. /\ ClosingEnd.sent = <<>> /\ ClosingEnd.m_send_queue = <<>>
      /\ ClosingEnd.incoming = <<>> /\ ClosingEnd.reported = <<>>
      /\ ClosingEnd.m_current_msgs = <<>> /\ ~ClosingEnd.timer
      /\ ~ClosingEnd.m_was_clean /\ ClosingEnd.m_ec = "none"
  BY DEF ClosingEnd
<1>6. AllFrames(ClosingEnd) = <<>>
  BY <1>5 DEF AllFrames
<1>7. CloseFrames(ClosingEnd) = {}
  BY <1>6 DEF CloseFrames
<1>8. EndInv(ClosingEnd, <<>>)
  BY <1>5, <1>7 DEF EndInv
<1>9. \A s \in Sides : k.end[s] = ClosingEnd /\ k.end[Peer(s)] = ClosingEnd
  BY <1>4, PeerFacts
<1> HIDE DEF ClosingEnd
<1> QED BY <1>4, <1>5, <1>8, <1>9 DEF ClosingTypeOK, ClosingInv, Sides

\* Every step keeps the invariant.
LEMMA NextKeeps ==
  ClosingTypeOK /\ ClosingInv /\ [ClosingNext]_k => ClosingTypeOK' /\ ClosingInv'
<1> SUFFICES ASSUME ClosingTypeOK, ClosingInv, [ClosingNext]_k
             PROVE  ClosingTypeOK' /\ ClosingInv'
  OBVIOUS
<1>1. ASSUME NEW s \in Sides, NEW with \in CloseWith, Close(s, with.code, with.reason)
      PROVE  ClosingTypeOK' /\ ClosingInv'
  BY <1>1, CloseStep
<1>2. ASSUME NEW s \in Sides, Send(s)
      PROVE  ClosingTypeOK' /\ ClosingInv'
  BY <1>2, SendStep
<1>3. ASSUME NEW s \in Sides, write_frame(s)
      PROVE  ClosingTypeOK' /\ ClosingInv'
  BY <1>3, WriteStep
<1>4. ASSUME NEW s \in Sides, handle_write_frame(s)
      PROVE  ClosingTypeOK' /\ ClosingInv'
  BY <1>4, WrittenStep
<1>5. ASSUME NEW s \in Sides, ReadFrame(s)
      PROVE  ClosingTypeOK' /\ ClosingInv'
  BY <1>5, ReadStep
<1>6. ASSUME NEW s \in Sides, ReadEof(s)
      PROVE  ClosingTypeOK' /\ ClosingInv'
  BY <1>6, EofStep
<1>7. ASSUME NEW s \in Sides, ReadFails(s)
      PROVE  ClosingTypeOK' /\ ClosingInv'
  <2>1. "read" \in ECs
    BY DEF ECs
  <2> QED BY <1>7, <2>1, TerminateStep DEF ReadFails
<1>8. ASSUME NEW s \in Sides, handle_close_handshake_timeout(s)
      PROVE  ClosingTypeOK' /\ ClosingInv'
  <2>1. "close_handshake_timeout" \in ECs
    BY DEF ECs
  <2>2. Ours(s)
    BY <1>8, OnlyOurs DEF handle_close_handshake_timeout
  <2> QED BY <1>8, <2>1, <2>2, TerminateStep DEF handle_close_handshake_timeout
<1>9. CASE StrangerCloses
  BY <1>9, StrangerClosesStep
<1>10. CASE StrangerGoes
  BY <1>10, StrangerGoesStep
<1>11. CASE UNCHANGED k
  BY <1>11 DEF ClosingTypeOK, ClosingInv, Ours
<1> QED BY <1>1, <1>2, <1>3, <1>4, <1>5, <1>6, <1>7, <1>8, <1>9, <1>10, <1>11 DEF ClosingNext

\* The close frame that an end acknowledges is one that the peer sent, and the
\* peer reports of its own close what that frame carries.
LEMMA InvAgrees == ClosingTypeOK /\ ClosingInv => ClosesAgree
<1> SUFFICES ASSUME ClosingTypeOK, ClosingInv, NEW s \in Sides, Ours(s)
             PROVE
               LET d == k.end[s]  o == k.end[Peer(s)] IN
               /\ \A i \in CloseFrames(d) : extract_code(AllFrames(d)[i].payload).ok
               /\ \A i, j \in CloseFrames(d) : i = j \/ d.refused
               /\ \A i \in DOMAIN d.reported :
                    LET r == d.reported[i] IN
                    r.clean /\ r.ec = "none" /\ ~d.refused /\ ~o.refused =>
                      /\ HasSent(o.sent, r.remote, r.remote_reason)
                      /\ \A j \in DOMAIN o.reported :
                           o.reported[j].ec = "none" =>
                             /\ o.reported[j].local = r.remote
                             /\ o.reported[j].local_reason = r.remote_reason
  BY DEF ClosesAgree
<1> DEFINE d == k.end[s]
           o == k.end[Peer(s)]
<1>1. d \in Ends /\ o \in Ends /\ EndInv(d, o.sent)
  BY EndFacts
<1>2. o.reported = <<>> \/ EndInv(o, d.sent)
  <2>1. CASE Ours(Peer(s))
    BY <2>1, EndFacts, PeerFacts
  <2>2. CASE ~Ours(Peer(s))
    BY <2>2 DEF ClosingInv, Ours, Sides, Peer
  <2> QED BY <2>1, <2>2
<1>3. \A j \in DOMAIN o.sent :
        o.sent[j].op = "close" => j \in CloseFrames(o) /\ AllFrames(o)[j] = o.sent[j]
  <2> DEFINE a == o.sent
             q == o.m_send_queue
  <2>1. /\ a \in Seq(MessagesOfClosing) /\ q \in Seq(MessagesOfClosing)
        /\ AllFrames(o) = a \o q
    BY <1>1, FramesType DEF AllFrames
  <2> HIDE DEF a, q
  <2>2. /\ DOMAIN a = 1..Len(a) /\ DOMAIN (a \o q) = 1..(Len(a) + Len(q))
        /\ Len(a) \in Nat /\ Len(q) \in Nat
        /\ \A j \in 1..(Len(a) + Len(q)) :
             (a \o q)[j] = IF j <= Len(a) THEN a[j] ELSE q[j - Len(a)]
    <3>1. a \o q \in Seq(MessagesOfClosing) /\ Len(a \o q) = Len(a) + Len(q)
      BY <2>1, ConcatProperties
    <3> QED BY <2>1, <3>1, ConcatProperties, LenProperties
  <2>3. \A j \in DOMAIN a : j \in DOMAIN (a \o q) /\ (a \o q)[j] = a[j]
    BY <2>2
  <2> HIDE DEF o
  <2> QED BY <2>1, <2>3 DEF CloseFrames, a
<1> HIDE DEF d, o
<1>4. ASSUME NEW i \in DOMAIN d.reported, d.reported[i].clean, ~d.refused, ~o.refused,
             NEW j \in DOMAIN o.reported, o.reported[j].ec = "none"
      PROVE  /\ o.reported[j].local = d.reported[i].remote
             /\ o.reported[j].local_reason = d.reported[i].remote_reason
  <2>1. HasSent(o.sent, d.reported[i].remote, d.reported[i].remote_reason)
    BY <1>1, <1>4 DEF EndInv
  <2>2. PICK n \in DOMAIN o.sent :
          /\ o.sent[n].op = "close"
          /\ Carries(o.sent[n], d.reported[i].remote, d.reported[i].remote_reason)
    BY <2>1 DEF HasSent
  <2>3. n \in CloseFrames(o) /\ AllFrames(o)[n] = o.sent[n]
    BY <1>3, <2>2
  <2>4. Carries(AllFrames(o)[n], o.reported[j].local, o.reported[j].local_reason)
    BY <1>2, <1>4, <2>3 DEF EndInv
  <2> QED BY <2>2, <2>3, <2>4 DEF Carries
<1>5. /\ \A i \in CloseFrames(d) : extract_code(AllFrames(d)[i].payload).ok
      /\ \A i, j \in CloseFrames(d) : i = j \/ d.refused
      /\ \A i \in DOMAIN d.reported :
           d.reported[i].clean /\ ~d.refused =>
             HasSent(o.sent, d.reported[i].remote, d.reported[i].remote_reason)
  BY <1>1 DEF EndInv
<1> QED BY <1>4, <1>5 DEF d, o

\* Whatever codes and reasons two ends close with, however their closes cross
\* and wherever the connection fails between, and whatever a stranger sends:
\* an end sends one close frame, with a valid code, unless it refused the
\* peer's, and after a clean close each end reports what the other reports.
THEOREM EndsAgree == ClosingSafety => []ClosesAgree
<1>1. ClosingSafety => [](ClosingTypeOK /\ ClosingInv)
  BY InitHolds, NextKeeps, PTL DEF ClosingSafety
<1> QED BY <1>1, InvAgrees, PTL
=============================================================================
