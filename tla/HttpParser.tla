------------------------------ MODULE HttpParser ------------------------------
(***************************************************************************)
(* The incremental HTTP parsers: request::consume and response::consume    *)
(* are given a message in pieces, cut anywhere, and must find in it what   *)
(* they would find in the whole.                                           *)
(*                                                                         *)
(* A message is a row of bytes.  "\r" and "\n" are themselves; any other   *)
(* byte begins, or fills, a line, and what a line is depends on its first: *)
(* "start", "host", "length0", "length2" and "length9" are the lines their *)
(* names say, "other" is another header and "bad" is no header at all.     *)
(***************************************************************************)
EXTENDS Integers, Sequences, FiniteSets, SequencesExt

CONSTANTS
  HttpStreams,      \* what is fed
  HttpPieces,       \* lengths it is fed in
  max_header_size,
  m_body_bytes_max,
  istream_buffer    \* 512 in the code

ASSUME HttpAssumption == /\ HttpPieces \subseteq Nat \ {0}
                         /\ max_header_size \in Nat /\ m_body_bytes_max \in Nat
                         /\ istream_buffer \in Nat \ {0}

VARIABLE http

HttpInit ==
  http = [response |-> FALSE, stream |-> <<>>, fed |-> 0, calls |-> 0,
          m_buf |-> <<>>, m_header_bytes |-> 0, started |-> FALSE,
          headers |-> <<>>, in_body |-> FALSE, needed |-> 0, body |-> <<>>,
          m_ready |-> FALSE, consumed |-> 0, ec |-> "none",
          streamed |-> FALSE]   \* the last call was given a stream

HeaderLines == {"host", "length0", "length2", "length9", "other"}
LengthLines == {"length0", "length2", "length9"}
LengthIn(line) == CASE line = "length0" -> 0 [] line = "length2" -> 2
                    [] line = "length9" -> 9

-----------------------------------------------------------------------------
(* The header.                                                             *)

\* std::search for the delimiter from the start of s; 0 if it is not there.
Delimiter(s) ==
  LET at == {i \in 1..(Len(s) - 1) : s[i] = "\r" /\ s[i + 1] = "\n"} IN
  IF at = {} THEN 0 ELSE CHOOSE i \in at : \A j \in at : i <= j

Fails(d, ec) == [d EXCEPT !.ec = ec]

\* process() and process_header(): the first line, then the others.
Line(d, line) ==
  CASE ~d.started /\ line[1] = "start" -> [d EXCEPT !.started = TRUE]
    [] d.started /\ line[1] \in HeaderLines -> [d EXCEPT !.headers = Append(@, line[1])]
    [] OTHER -> Fails(d, "bad_request")

ContentLength(headers) ==
  LET found == SelectSeq(headers, LAMBDA x : x \in LengthLines) IN
  IF found = <<>> THEN <<>> ELSE <<LengthIn(found[1])>>

\* request::process_body and response::process_body with the bytes left over;
\* a response without a length has no body, and takes no byte to be done.
Body(d, bytes) ==
  LET k == IF Len(bytes) < d.needed THEN Len(bytes) ELSE d.needed IN
  [d EXCEPT !.body = @ \o SubSeq(bytes, 1, k), !.needed = @ - k,
            !.consumed = @ + k,
            !.m_ready = d.needed = k]

\* The blank line: a request needs a start line and a Host, and keeps its body
\* within the limit; what follows the header in the same read is its body.  A
\* response looks at its body only if something follows.
Blank(d, rest) ==
  LET length == ContentLength(d.headers)
      e == [d EXCEPT !.in_body = TRUE, !.needed = IF length = <<>> THEN 0 ELSE length[1]] IN
  IF ~d.started \/ (~d.response /\ "host" \notin Range(d.headers))
  THEN Fails(d, "bad_request")
  ELSE IF ~d.response /\ e.needed > m_body_bytes_max THEN Fails(d, "body_too_large")
  ELSE IF d.response /\ rest = <<>> THEN e
  ELSE Body(e, rest)

\* Mutant: a delimiter that two reads share is lost with the old buffer.
KeptNothing(d, s) == [d EXCEPT !.m_buf = <<>>, !.m_header_bytes = @ - Len(s)]

\* Out of bytes: what is left of a line waits for the next read.
Kept(d, s) == [d EXCEPT !.m_buf = s, !.m_header_bytes = @ - Len(s)]

\* One turn of the loop over the lines of s; sizeof(header_delimiter) is 3.
\* m_buf holds the rest of s between turns, and stays empty after the header.
HeaderTurn(d) ==
  LET s == d.m_buf
      i == Delimiter(s)
      length == IF i = 0 THEN Len(s) ELSE i - 1
      e == [d EXCEPT !.m_header_bytes = @ + length + 3]
      rest == SubSeq(s, i + 2, Len(s)) IN
  IF e.m_header_bytes > max_header_size THEN Fails(e, "too_large")
  ELSE IF i = 0 THEN [Kept(e, s) EXCEPT !.consumed = @ + Len(s)]
  ELSE LET f == [e EXCEPT !.m_buf = rest, !.consumed = @ + i + 1] IN
       IF i = 1 THEN [Blank(f, rest) EXCEPT !.m_buf = <<>>]
       ELSE Line(f, SubSeq(s, 1, i - 1))

\* The bytes kept are counted as consumed once only.
consume(d, bytes) ==
  IF d.m_ready THEN d
  ELSE IF d.in_body THEN Body(d, bytes)
  ELSE LET s == d.m_buf \o bytes
           e == [d EXCEPT !.m_buf = s, !.consumed = @ - Len(d.m_buf)]
           turn[k \in 0..(Len(s) + 1)] ==
             IF k = 0 THEN [stop |-> FALSE, d |-> e]
             ELSE LET last == turn[k - 1]
                      g == HeaderTurn(last.d) IN
                  IF last.stop THEN last
                  ELSE [stop |-> g.ec # "none" \/ g.in_body \/ Delimiter(last.d.m_buf) = 0,
                        d |-> g]
       IN turn[Len(s) + 1].d

\* getline: up to a newline, or what the buffer holds, or the end of the stream;
\* the last two leave the stream no longer good.
LinePiece(s) ==
  LET newline == SelectInSeq(s, LAMBDA x : x = "\n")
      length == IF Len(s) < istream_buffer THEN Len(s) ELSE istream_buffer - 1 IN
  IF newline \in 1..istream_buffer THEN [bytes |-> SubSeq(s, 1, newline), good |-> TRUE]
  ELSE [bytes |-> SubSeq(s, 1, length), good |-> FALSE]

\* response::consume of a stream: line by line, until one is not taken whole.
consume_stream(d, s) ==
  LET Took(acc, piece, e) ==
        [d |-> [e EXCEPT !.fed = @ + Len(piece.bytes), !.calls = @ + 1],
         good |-> /\ piece.good /\ e.ec = "none"
                  /\ e.consumed - acc.d.consumed = Len(piece.bytes)]
      Piece(acc, piece) == Took(acc, piece, consume(acc.d, piece.bytes))
      Turn(acc) == Piece(acc, LinePiece(SubSeq(s, acc.d.fed - d.fed + 1, Len(s))))
  IN FoldLeft(LAMBDA acc, i : IF acc.good THEN Turn(acc) ELSE acc,
              [d |-> d, good |-> TRUE], [i \in 1..(Len(s) + 1) |-> i]).d

Choose ==
  /\ http.stream = <<>>
  /\ \E stream \in HttpStreams, response \in BOOLEAN :
       http' = [http EXCEPT !.stream = stream, !.response = response]

\* A read feeds the next k bytes, unless the message has ended.
Feeds(k) ==
  /\ ~http.m_ready /\ http.ec = "none" /\ http.fed + k <= Len(http.stream)
  /\ http' = [consume(http, SubSeq(http.stream, http.fed + 1, http.fed + k))
              EXCEPT !.fed = @ + k, !.calls = @ + 1, !.streamed = FALSE]

\* The client reads a proxy's answer through a stream.
FeedsStream(k) ==
  /\ http.response /\ http.stream # <<>>
  /\ ~http.m_ready /\ http.ec = "none" /\ http.fed + k <= Len(http.stream)
  /\ http' = [consume_stream(http, SubSeq(http.stream, http.fed + 1, http.fed + k))
              EXCEPT !.streamed = TRUE]

HttpNext == Choose \/ \E k \in HttpPieces : Feeds(k) \/ FeedsStream(k)

-----------------------------------------------------------------------------
(* The reference: the same, found in the whole of what was fed.            *)

Ends2(s) == {i \in 1..(Len(s) - 1) : s[i] = "\r" /\ s[i + 1] = "\n"}
HeadEnds(s) == {i \in Ends2(s) : i = 1 \/ i - 2 \in Ends2(s)}

\* The first bytes of the lines that end before i, in order.
LinesBefore(s, i) ==
  LET starts == SelectSeq([k \in 1..Len(s) |-> k],
                          LAMBDA k : /\ k = 1 \/ k - 2 \in Ends2(s)
                                     /\ \E j \in Ends2(s) : k < j /\ j < i) IN
  [m \in DOMAIN starts |-> s[starts[m]]]

Sound(lines) ==
  \A m \in DOMAIN lines : IF m = 1 THEN lines[m] = "start" ELSE lines[m] \in HeaderLines

Verdict(s) ==
  LET ends == HeadEnds(s)
      i == IF ends = {} THEN Len(s) + 1 ELSE CHOOSE x \in ends : \A y \in ends : x <= y
      lines == LinesBefore(s, i)
      length == ContentLength(lines)
      needed == IF length = <<>> THEN 0 ELSE length[1]
      left == Len(s) - (i + 1) IN
  CASE ~Sound(lines) -> [ec |-> "bad_request"]
    [] Sound(lines) /\ ends = {} -> [ec |-> "incomplete"]
    [] OTHER ->
         IF lines = <<>> \/ (~http.response /\ "host" \notin Range(lines))
         THEN [ec |-> "bad_request"]
         ELSE IF ~http.response /\ needed > m_body_bytes_max THEN [ec |-> "body_too_large"]
         ELSE [ec |-> "none",
               ready |-> IF http.response /\ needed = 0
                         THEN left > 0 \/ http.streamed ELSE left >= needed,
               body |-> SubSeq(s, i + 2, i + 1 + (IF left < needed THEN left ELSE needed)),
               headers |-> Tail(lines)]

\* However the message is cut, the parser's verdict, headers and body are those
\* of the whole, and not a byte after the message is taken.  A response without a
\* body is ready once a byte follows its head, or where a stream was read to its
\* end.  Only the size of the header is judged by the cuts: a header over the
\* limit is never let through, but one is refused that is under it by up to a
\* byte for each line and three for each read.
SplitIndependent ==
  LET s == SubSeq(http.stream, 1, http.fed)
      v == Verdict(s) IN
  CASE http.ec = "too_large" ->
         Len(s) + Cardinality(Ends2(s)) + 3 * (http.calls + 1) > max_header_size
    [] http.ec \in {"bad_request", "body_too_large"} -> v.ec = http.ec
    [] OTHER ->
         IF http.in_body
         THEN /\ v.ec = "none" /\ v.ready = http.m_ready /\ v.body = http.body
              /\ v.headers = http.headers
              /\ http.consumed <= max_header_size + Len(http.body)
              /\ http.consumed = (CHOOSE x \in HeadEnds(s) :
                                    \A y \in HeadEnds(s) : x <= y) + 1 + Len(http.body)
         ELSE v.ec = "incomplete" /\ http.consumed = Len(s) /\ Len(s) <= max_header_size
=============================================================================
