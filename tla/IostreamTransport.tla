-------------------------- MODULE IostreamTransport --------------------------
(***************************************************************************)
(* The iostream transport: the application hands the bytes of its own      *)
(* socket to the connection, and is handed what the connection writes.     *)
(*                                                                         *)
(* Bytes are numbered in the order of the stream, and read handlers are    *)
(* called inside the call that completes them: the handler either asks for *)
(* more at once or leaves that to a later call.                            *)
(***************************************************************************)
EXTENDS Integers, Sequences, SequencesExt

CONSTANTS
  StreamLength,   \* bound: bytes the application has to hand over
  MaxLen,         \* bound: size of a read buffer
  MaxAsked,       \* bound: read handlers called before another read is asked for
  Outputs,        \* what was registered: "ostream", "vector", "handler", "none"
  MaxWrites       \* bound: writes in one behaviour

ASSUME IostreamAssumption == /\ StreamLength \in Nat /\ MaxLen \in Nat
                             /\ MaxAsked \in Nat /\ MaxWrites \in Nat
                             /\ Outputs \subseteq {"ostream", "vector", "handler", "none"}

VARIABLE io

IostreamInit ==
  io = [m_reading |-> FALSE, m_len |-> 0, m_bytes_needed |-> 0, m_cursor |-> 0,
        m_buf |-> <<>>,
        taken |-> 0,        \* bytes the application was told are read
        handed |-> <<>>,    \* what read handlers were called with
        sent |-> 0,         \* buffers the connection has handed to the transport
        ostream |-> "good", \* the state of the application's output stream
        output |-> <<>>, writes |-> <<>>, shutdowns |-> 0, cleanups |-> 0,
        threw |-> FALSE]    \* operator>> ended in a call of an empty handler

Smaller(m, n) == IF m < n THEN m ELSE n
\* The n numbers that follow count.
Following(count, n) == [i \in 1..n |-> count + i]

-----------------------------------------------------------------------------
(* iostream_read_at_least, and the handler a completed read calls.            *)

Handed(d, ec) == [d EXCEPT !.handed = Append(@, [ec |-> ec, bytes |-> d.m_buf])]

\* Refusals are reported through the handler at once, as no bytes.
Report(d, ec) == [d EXCEPT !.handed = Append(@, [ec |-> ec, bytes |-> <<>>])]

iostream_read_at_least(d, num_bytes, len) ==
  IF num_bytes > len THEN Report(d, "invalid_num_bytes")
  ELSE IF d.m_reading THEN Report(d, "double_read")
  ELSE IF num_bytes = 0 \/ len = 0 THEN Report(d, "ok")
  ELSE [d EXCEPT !.m_reading = TRUE, !.m_len = len, !.m_bytes_needed = num_bytes,
                 !.m_cursor = 0, !.m_buf = <<>>]

\* m_reading is down before the handler runs, so it may ask again.
complete_read(d, ec, again) ==
  LET e == Handed([d EXCEPT !.m_reading = FALSE], ec) IN
  IF again = <<>> THEN e ELSE iostream_read_at_least(e, again[1], again[2])

Asks == {<<n, len>> : n \in 0..MaxLen, len \in 0..MaxLen}
Agains == {<<>>} \cup {<<n, len>> : n \in 1..MaxLen, len \in 1..MaxLen}

AsyncRead ==
  /\ Len(io.handed) < MaxAsked
  /\ \E r \in Asks : io' = iostream_read_at_least(io, r[1], r[2])

-----------------------------------------------------------------------------
(* The application's calls, each under m_read_mutex.                       *)

\* Mutant: a buffer that is still filling is started over.
CopiedAfresh(d, n) ==
  [d EXCEPT !.m_buf = Following(d.taken, n),
            !.m_cursor = @ + n, !.taken = @ + n]

\* The bytes copied into m_buf at the cursor.
Copied(d, n) ==
  [d EXCEPT !.m_buf = @ \o Following(d.taken, n),
            !.m_cursor = @ + n, !.taken = @ + n]

\* read_some_impl with the next len bytes of the stream.
read_some_impl(d, len, again) ==
  IF ~d.m_reading THEN d
  ELSE LET e == Copied(d, Smaller(len, d.m_len - d.m_cursor)) IN
       IF e.m_cursor >= e.m_bytes_needed THEN complete_read(e, "ok", again) ELSE e

ReadSome ==
  \E len \in 1..(StreamLength - io.taken), again \in Agains :
    io' = read_some_impl(io, len, again)

\* read_all: read_some until a call takes nothing or all of it is taken; the
\* state after each byte it has had a chance to take.
read_all(d, len, again) ==
  LET after[k \in 0..len] ==
        IF k = 0 THEN d
        ELSE IF after[k - 1].taken - d.taken = k - 1
             THEN read_some_impl(after[k - 1], len - (k - 1), again)
             ELSE after[k - 1]
  IN after

ReadAll ==
  \E len \in 1..(StreamLength - io.taken), again \in Agains :
    io' = read_all(io, len, again)[len]

\* operator>>: read() fills the buffer from the stream and completes it while
\* there is more, which takes what read_all would take of all that is left.
read(d, again) ==
  LET left == StreamLength - d.taken IN read_all(d, left, again)[left]

StreamIn == \E again \in Agains : io' = read(io, again)

\* read() as its stream goes bad with got bytes of a read, which takes a stream
\* buffer that sets the state of its stream: completed as bad, and once more,
\* with no handler left to call, when those bytes are enough and the handler
\* asked for none.
went_bad(d, got, again) ==
  LET e == complete_read(Copied(d, got), "bad_stream", again) IN
  [e EXCEPT !.threw = @ \/ (~e.m_reading /\ e.m_cursor >= e.m_bytes_needed)]

\* What read() has taken before is what read_all takes of it.
StreamInBad ==
  \E again \in Agains, len \in 0..(StreamLength - io.taken) :
    LET d == read_all(io, len, again)[len] IN
    /\ d.taken = io.taken + len /\ d.m_reading
    /\ len > 0 => d.m_cursor = 0
    /\ \E got \in 1..Smaller(d.m_len - d.m_cursor, StreamLength - d.taken) :
         io' = went_bad(d, got, again)

\* eof and fatal_error complete the pending read with what it has.
SignalEnd(ec) ==
  /\ io.m_reading
  /\ io' = complete_read(io, ec, <<>>)

-----------------------------------------------------------------------------
(* Writing.  Buffers are numbered; the sink may fail at one of a write's,   *)
(* failing, which is 0 if it does not.                                     *)

\* Mutant: the buffers after the one that failed are written too.
WrittenPastFailure(bufs, failing) ==
  IF failing \in DOMAIN bufs THEN RemoveAt(bufs, failing) ELSE bufs

\* Those before the one that failed are out; that one may be in part.
WrittenBefore(bufs, failing) ==
  IF failing \in DOMAIN bufs THEN SubSeq(bufs, 1, failing - 1) ELSE bufs

\* A stream that is not good writes nothing, and async_write looks at bad() only:
\* one whose failbit is set swallows the write and it is reported as done.
Swallowed(d, output) == output = "ostream" /\ d.ostream = "fail"
WasBad(d, output)    == output = "ostream" /\ d.ostream = "bad"

\* The registered stream goes first; one vectored call takes all or nothing.
iostream_write(d, output, bufs, failing) ==
  LET whole == failing \notin DOMAIN bufs
      nowhere == output = "none" \/ Swallowed(d, output) \/ WasBad(d, output)
      out == CASE nowhere -> <<>>
               [] output = "vector" -> IF whole THEN bufs ELSE <<>>
               [] OTHER -> WrittenBefore(bufs, failing)
      ec == CASE output = "none" -> "output_stream_required"
              [] Swallowed(d, output) -> "ok"
              [] OTHER -> IF whole /\ ~WasBad(d, output) THEN "ok" ELSE "error" IN
  [d EXCEPT !.sent = @ + Len(bufs), !.output = @ \o out,
            !.ostream = IF output = "ostream" /\ @ = "good" /\ ~whole THEN "bad" ELSE @,
            !.writes = Append(@, [bufs |-> bufs, ec |-> ec,
                                  swallowed |-> Swallowed(d, output)])]

\* The stream is the application's: it may fail or be cleared between writes.
OstreamBecomes(became) == io' = [io EXCEPT !.ostream = became]

AsyncWrite ==
  /\ Len(io.writes) < MaxWrites
  /\ \E output \in Outputs, n \in 1..3, failing \in 0..3 :
       io' = iostream_write(io, output, Following(io.sent, n), failing)

\* async_shutdown calls the handler the application registered, once.
AsyncShutdown(registered) ==
  /\ io.shutdowns = 0
  /\ io' = [io EXCEPT !.shutdowns = 1, !.cleanups = IF registered THEN 1 ELSE 0]

IostreamInput ==
  \/ AsyncRead \/ ReadSome \/ ReadAll \/ StreamIn \/ StreamInBad
  \/ \E ec \in {"eof", "pass_through"} : SignalEnd(ec)

IostreamOutput ==
  \/ AsyncWrite
  \/ \E became \in {"good", "fail", "bad"} : OstreamBecomes(became)
  \/ \E registered \in BOOLEAN : AsyncShutdown(registered)

\* The two directions share no field.
IostreamNext == IostreamInput \/ IostreamOutput

-----------------------------------------------------------------------------
Increasing(s) == \A i, j \in DOMAIN s : i < j => s[i] < s[j]
Before(s, t)  == \A x \in Range(s), y \in Range(t) : x < y

\* The pieces hold the numbers up to count, each once and in order.
InOrder(pieces, count) ==
  /\ UNION {Range(pieces[i]) : i \in DOMAIN pieces} = 1..count
  /\ \A i \in DOMAIN pieces : Increasing(pieces[i])
  /\ \A i, j \in DOMAIN pieces : i < j => Before(pieces[i], pieces[j])

\* What each read handler got, and what waits for the next.
Reports(d) == [i \in DOMAIN d.handed |-> d.handed[i].bytes]
Pieces(d)  == Append(Reports(d), IF d.m_reading THEN d.m_buf ELSE <<>>)

\* Every byte the application is told was read reaches a read handler once and
\* in order, or waits in the buffer of the read in progress: however the stream
\* is cut, whichever call feeds it, whether or not it goes bad, and whatever the
\* handler asks for next.  No buffer follows a failed one of its write into the
\* output, and a write reported as done is there whole, those apart that a
\* stream with its failbit set swallowed, which async_write reports as done.
BytesInOrder ==
  /\ InOrder(Pieces(io), io.taken)
  /\ io.m_reading => io.m_cursor < io.m_bytes_needed /\ io.m_cursor = Len(io.m_buf)
  /\ Increasing(io.output)
  /\ \A i \in DOMAIN io.writes :
       LET w == io.writes[i] IN
       /\ w.ec = "ok" /\ ~w.swallowed => Range(w.bufs) \subseteq Range(io.output)
       /\ \A a, b \in DOMAIN w.bufs :
            a < b /\ w.bufs[b] \in Range(io.output) => w.bufs[a] \in Range(io.output)

IostreamSpec == IostreamInit /\ [][IostreamNext]_io
=============================================================================
