# A TLA+ model of audioProcessor

The repository builds one program, `absolute_agony`. It connects to a WebSocket
server, asks for audio, downloads the announced object from S3, keeps the chunks
whose spectrum peaks at a control note, uploads the collected chunks as a WAV
file and tells the server. The WebSocket library it is built on, websocketpp, is
part of the repository. This directory holds TLA+ modules of the program and of
the library, TLC configurations that check them, and theorems that TLAPS checks.

## The system

Paths without a directory are under `src/lib/websocketpp/`.

| Part | State | Operations | Module |
|---|---|---|---|
| `main()` (`src/src/absolute_agony.cpp`) | position, the environment variables it read, number of requests | user-source path, random-source loop | `AudioProcessor` |
| `WebSocketClient` (`src/src/WebSocketClient.cpp`) | `connected`, `hdl_global`, `mtx`, `cv`, `condition_met`, `audio_source_name`, `websocket_thread` | calls of the main thread; `on_open`, `on_fail`, `on_message` on the loop's thread | `WebSocketClient` |
| `AudioFileParse` | `temp_audio.mp3`, `m_audioData` | download; read and window | `AudioProcessor`; `AudioChunks` |
| `FFTProcessor` | `m_realInput`, `m_sampleStorage`, `m_magnitudeChunks` | `compute`, `storeChunkIfProminent` | `AudioChunks`; its outcome in `AudioProcessor` |
| `AudioUploader` | the output file, the S3 bucket | `uploadIfReady` | `AudioProcessor` |
| an open connection (`impl/connection_impl.hpp`) | `m_state`, `m_send_queue`, `m_write_flag`, `m_current_msgs`, the read buffer, the closing timer | `send`, the loop's handlers, `terminate` | `WsppConnection` |
| its controls | `m_read_flag`, reads in flight, posted handlers, `m_ping_timer` and the timers set | pause and resume reading, ping, interrupt | `ConnectionControls` |
| its closing, between two ends | codes and reasons, local and remote; the frames under way | `close`, `process_control_frame`, `send_close_frame` | `Closing` |
| its opening (`transport/asio/connection.hpp`, `endpoint.hpp`, `security/`) | `m_state`, pending operations and timers, `m_ec` | resolve, connect, proxy, TLS, request, response, `terminate` | `OpenHandshake`, `ServerHandshake` |
| endpoint, server role (`transport/asio/endpoint.hpp`, `roles/server_endpoint.hpp`) | `m_state`, `m_io_service`, `m_acceptor`, `m_work` | `init_asio`, `listen`, accepting, running, moving, destruction | `AsioEndpoint` |
| framing (`processors/hybi13.hpp`, `frame.hpp`, `utf8_validator.hpp`) | header bytes, the key's phase, both messages under way, the validator's state | `consume`, the prepare functions, headers, masking | `Hybi13`, `FrameCodec`, `Utf8Validator` |
| draft 00 (`processors/hybi00.hpp`) | `m_state`, the message under way | the challenge, `consume`, `prepare_data_frame` | `Hybi00` |
| negotiation (`processors/`, `extensions/permessage_deflate/enabled.hpp`) | both ends' windows and modes | version, key, subprotocol, extension offers and answers | `Negotiation` |
| HTTP parser (`http/`) | `m_buf`, header bytes, headers, body | `consume` of requests and responses | `HttpParser` |
| texts (`http/parser.hpp`, `uri.hpp`, `base64/base64.hpp`) | none | parameter lists, header values, URIs, base64 | `HandshakeText`, `Base64` |
| iostream transport | the read in progress, the outputs, the ostream's state | `read_some`, `read_all`, `istream >>`, writing | `IostreamTransport` |
| message server, S3, peers | outside the repository | answer, close, store, send what they like | external actions |

There are two threads. The main thread runs `main()`; `websocket_thread` runs
`io_service::run()` and in it every handler of the connection and of
`WebSocketClient`. They share the client's fields, the connection's queue and
its state. The main thread waits for the other in three ways: it polls
`connected`, it sleeps on `cv`, and it joins the thread.

What each part has to get right:

* connection: whatever is queued by either thread has somebody to write it; one
  write at a time; order; a closing handshake ends, and both ends agree on how;
  the loop ends. An opening attempt is reported once, and is reported.
* `WebSocketClient`: no lost wakeup; what is published without a lock is
  published in order; `stop()` and the destructor return and nothing runs after.
* `main()`: requests and answers stay in step over one shared flag and one
  shared string; stored audio comes from the announced objects; a product is
  announced only if it is stored; at most one product; it ends.
* `FFTProcessor` and `AudioFileParse`: every sample is transformed once, in
  order, beside nothing left over, and only what peaks is kept.
* framing, HTTP, texts: however a stream is cut, what is read is what was
  written; limits hold; what one end prepares the other accepts.
* endpoint: a server goes on accepting; the application's io_service is never
  deleted.

The hard behaviours are listed, each at its line, under `hazards` in
`PROJECT.json`.

## Modules

The program, composed by EXTENDS:

**`WsppConnection`** — one client connection. Each action without a sender is one
handler that the loop runs to its end, as the strand and the single thread make
it do. `SendCheck`, `SendPush`, `SendPost` are the three critical regions of
`connection::send` on the application's thread: the state is checked under one
lock, the message pushed under another, and `write_frame` dispatched after both.
`handle_read_frame`'s loop over its buffer is one `Read...` action per frame,
because the message handler runs in the middle of it and takes time; while it
runs (`buffered > 0` or `callback # NoCall`) the loop does nothing else.
`posted` counts dispatched `write_frame` handlers; `pushed` and `verdicts` are
history variables. Frames are abstracted to their opcode; `invalid` stands for
any bytes `consume()` rejects. The opening handshake is reduced to its outcomes
(`OpenOk`, `OpenFail`, `OpenBadExtensions`).

**`WebSocketClient`** extends it with the class. A handler occupies the loop from
`Call` to `HandlerReturns`; `handler_pc` is its position. `main_pc` is the main
thread's position inside a call. `cv.wait` is four positions, so that the window
between testing the predicate and going to sleep exists. The assignment of
`audio_source_name`, which takes no lock, has a beginning and an end with `Torn`
between them: reading it there is a data race, and `Torn` is what it yields.
`Next` lets the main thread make any calls in any order.

**`SignalLatch`** is what `wait_for_condition`, `reset_condition` and the upload
branches of `on_message` promise together: a latch. `WebSocketClient` implements
it under `flag <- condition_met`, `waiter <- "waiting"` inside a wait.

**`AudioProcessor`** extends `WebSocketClient` with `main()` and the three audio
classes. `pc` is the statement; a statement that begins a call of the client
leaves `main_pc` inside the call and the next one waits for it to return. Audio
is abstracted to its origin: `m_sampleStorage` has one entry per stored chunk,
the object it was cut from. `compute` stores any number of chunks of a file.
Every ignored failure is a step: a rejected URI, a refused send, a download that
fails or is cut short, a file libsndfile refuses, the mono audio that is
dropped, the multichannel file that runs off the end of
`readAudioFileAsMono`, `file_size` throwing, a failed `PutObject`, a WAV file
written short. The two-second sleep in `uploadIfReady` has no counterpart: time
is not modelled, any number of steps of the loop may happen there.

**`SessionProtocol`** is the conversation the server may expect; the messages
queued by `main()` implement it.

The server is external. `ServerReplies` answers the i-th request that reached it
with `Sources[i]`, `ServerCloses` sends a close frame, `ServerAnnouncesUnasked`
sends a `user_upload` nobody asked for.


The library's parts and the sample pipeline. Each has one variable, a record of the component's fields
under their names in the code plus what history its properties need, except
`ConnectionControls`, whose variables are separate:

**`OpenHandshake`** — the client's opening. Handlers call each other
synchronously, so a handler is an operator from the connection to the connection
it leaves, and an action is one entry of the io_service's queue. A timer is idle,
armed or due: cancelling a due timer does not remove its handler.
**`ServerHandshake`** extends it with the server's role, whose HTTP handler may
answer, close or defer the answer to a thread of the application.

**`AsioEndpoint`** — counts accepts outstanding and completed by outcome; a
completed accept is handled in any later step, after stops and new listens too.
`Move` and `Destroy` follow the move constructor and the destructor.

**`ConnectionControls`** — posted handlers run in order. `ping()` works on
`m_ping_timer` without a lock on the thread of whoever calls it, so it is four
actions, `PingChecks`, `PingCancels`, `PingSetsTimer` and `PingAssigns`, and
everything else may come between them: the other callers in `Callers`, a pong, a
timer, the end of the connection. Where one thread assigns the pointer while
another is at it, the data race, `PingRaces` ends the behaviour: nothing is said
of what follows. `met` remembers the pings whose calls overlapped.

**`Closing`** — two ends and the channels between them; the
client's end may be a stranger, which writes any close payload.

**`Utf8Validator`** — the lookup table by classes, against the definition of a
well-formed sequence. **`FrameCodec`** — header bytes by arithmetic, masking by
bytes and by words with the prepared key. **`Hybi13`** — a frame is a row of
cells on the wire. The peer writes frames at any time, ahead of the reader, and a
read takes any number of the cells there are: part of a frame, or the end of one
and the beginning of the next, so that `consume()` stops at a message with bytes
left and is called again, as `handle_read_frame` does. Only payload bytes are told
apart, and `get_extended_header` and masking are `FrameCodec`'s subject.
**`Hybi00`** — the same for the draft, with its challenge.

**`Negotiation`** — a header list is a record of the headers the code reads. Two
ends of the library, or one and a stranger; the attributes of every offer in an
order, applied as the code applies them, also those of an offer it refuses.

**`HttpParser`** — a byte is `"\r"`, `"\n"` or the beginning or filling of a line,
and a line is what its first byte says. A response asks `process_body` whether it
is done only if bytes follow the head, in the same read or a later one, so one
without a body is not ready when its head ends. **`HandshakeText`** — recursive functions
over iterators; a writer's meaning against what the parser makes of it.
**`Base64`** — its arithmetic; it has no state.

**`IostreamTransport`** — numbered bytes; a read handler runs inside the call that
completes it and asks for more at once or later. The application's output stream
is good, has failed or is bad, and may change between writes; `async_write` asks
for `bad()` alone, so a write that a failed stream ignores is done, and `swallowed`
in the history. `went_bad` is the branch of `read()` that completes a read twice.

**`AudioChunks`** — one file after another through a new `AudioFileParse` and the
one `FFTProcessor`. A sample is its place and how often it was windowed; the
largest `int` is `IntMax`, and an overflow is the wrapped or the wider value.

**`MCParts`** extends these and gives TLC one state space of them all: they share
no state with each other, so `part` says which one a behaviour is of and `Alone`
keeps the others as they are. The two directions of the iostream transport share
no field either and are two parts. A property about one part is thereby checked over
all of that part's behaviours.

**`MC...`** modules give TLC its instances. **`..._proofs`** modules hold the
theorems: those of a module are in the one named after it, those about
`AsioEndpoint`, `ConnectionControls` and `IostreamTransport` together in
`Transports_proofs`, those about the framing in `Framing_proofs`; **`NatSets`**
holds what several of them need of the natural numbers. Definitions marked
"Mutant" are variants of the definition after them with a plausible bug; no
specification uses them. Each property is known to be violated when its variant
replaces the original (`mutants` in `PROJECT.json`).

## Runs

Deadlock checking is off in all of them, because the system stops: after
`exited` or an abort, after a connection or an endpoint is gone, and where
somebody waits for a peer that says nothing.

| Run | Shows | Distinct states |
|---|---|---|
| `wspp` | `NoStrandedMessage`, `InOrder`, `OneWriteInFlight`, `NoCallAfterClose`; `QueueDrains`, `ClosingEnds`, `LoopEnds` | 836,000 |
| `wspp_open_or_fail` | finding 1 | violation |
| `client` | types; `NoLostWakeup`, `HdlPublished`, `NoHandlerAfterDestroy`, the latch; `WaitIsReleased`, `StopReturns`, `DestroyReturns` | 708,000 |
| `program` | types; `AnswersInStep`, `Provenance`, `NoFalseAnnouncement`, `SpeaksProtocol` | 1,700,000 |
| `program_unasked` | `OneProduct`, `NotifyDoesNotBlock` with an unasked announcement | 3,680,000 |
| `program_live` | `Completes` | 100,000 |
| `parts` | see below | 724,000 |
| `waits_for_source_upload`, `parses_received_audio`, `sends_finished_audio` | findings 2 to 4 | violations |
| `text_ends_on_code_point`, `written_before_closed` | findings 5 and 6 | violations |

What `parts` checks, by module:

| Module | Property | Statement, in short |
|---|---|---|
| `OpenHandshake` | `OneVerdict` | whichever of a timer and its operation wins, one of open and fail is called, once; an answer is written once |
| `ServerHandshake` | `AttemptEnds` | silence strands no attempt, except an answer the application deferred |
| `AsioEndpoint` | `AcceptLoopLives`, `DeletesItsOwn` | accepting goes on; only the endpoint's own io_service is deleted, once |
| `ConnectionControls` | `ReportsOnlyExpired` | a ping whose call met no other is reported only if its own timer ran out before a pong or a later ping, however the callers and the loop interleave |
| `Closing` | `ClosesAgree` | both ends report the codes and reasons of the wire; one close frame each |
| `Utf8Validator` | `Utf8Exact` | exactly the well-formed sequences, rejected at the first hopeless byte |
| `FrameCodec` | `CodecExact` | headers read back; masking is the same however a payload is cut |
| `Hybi13` | `DeliversFrames`, `PreparedIsAccepted`, `WithinLimits` | messages whole, once, in order, whatever frames a read spans; what is prepared is accepted; limits |
| `Hybi00` | `Exchanges00` | the challenge is answered; texts arrive as they were sent, in order, two in a read too |
| `Negotiation` | `WindowsFit` | no end compresses with a window the other cannot inflate |
| `HttpParser` | `SplitIndependent` | the parse does not depend on the cuts, but for the header limit and when a response without a body is ready |
| `HandshakeText` | `ReadsBack` | lists, URIs and base64 mean what was written |
| `IostreamTransport` | `BytesInOrder` | bytes reach handlers once and in order, from a stream that goes bad too; writes reported as done are whole, unless a failed ostream swallowed them |
| `AudioChunks` | `StoresPeaks` | every sample once, in order; the product is the prominent chunks |

Where a property of this table has an exception, the exception is what the code
does and its comment in the module says so; it is in the list of hazards as well.

Bounds of the program's runs, and why they are enough:

* `MaxPushes` (2 in `wspp`): two messages of the application and the pongs and
  close frames of the loop are enough for a message queued during a write,
  another queued while the completion runs, and a terminal message in the middle
  of a batch. `client` sends one message: the queue is `wspp`'s subject.
  `program` never reaches its bound of 8, since `main()` sends at most five.
* `MaxArrivals` (2 or 3): frames in one behaviour, so two frames in one buffer,
  such as a close behind data or data behind a close, and a second upload
  message while the first is handled. In the program runs it is the number of
  answers, announcements and close frames the run admits, so that the bound
  never stops a server the run is about.
* `MaxRounds` 2: a second turn of the loop meets everything a first leaves
  behind. `MaxChunks`, `ProductChunks`: a product of two chunks needs two
  sources or two rounds; with 1 and 1 every turn may be the last.
* Two names, so that a stale name differs from a fresh one. No symmetry is used.

Bounds of `parts`:

* Opening: none on steps, for an attempt is finite. A timer that is due reads as
  past to every handler from then on. A server name that cannot be set is not
  combined with a proxy; a response whose extensions are refused is
  `WsppConnection`'s; the application's HTTP handler does not answer 101 itself.
* `MaxAccepts` 2: an accept of an earlier listen beside one of the present.
  `MaxReads` 2, `MaxPosted` 1, `MaxPings` 2 with two `Callers`: a second read in
  flight, and a ping over an unanswered one, by the same thread, by another, or by
  both at once. The two modules' theorems do not depend on these numbers.
* Framing: limits are parameters, scaled so that every form of a length and both
  sides of every edge occur with a few bytes (`Basic` 2, `Extended` 3,
  `m_max_message_size` 4, a `size_t` of `WordSize` 8 that wraps). `FrameCodec`
  uses the real sizes up to 2^31 - 1. Three frames hold a message in two
  fragments with a control frame between, and all three may be on the wire before
  the first is read. A read takes five cells or, if there are fewer, all there
  are (`PieceSizes`): the frames have from two to eighteen, so reads end
  inside a basic header, a length, a key and a payload, and take two whole frames
  or the end of one and the beginning of the next. `FramesDelivered` is about reads
  of any sizes. The frames a peer of a server masks are those that change a key's phase
  and one between (`MCMasked`). `Utf8Bytes` has the edges of every
  class, and 4 bytes are the longest sequence. permessage-deflate is off.
* `MaxStream` 6 leaves a draft 00 client five bytes after its key, two texts, one of
  them with a byte, and `MaxSent` 2 is two texts the other way. The two directions
  share only the stage, so behaviours with both have at most one byte of a text
  read (`NotBoth00`).
* `IostreamTransport`: three bytes for two reads, `MaxLen` 2, `MaxAsked` 2 and
  `MaxWrites` 2: a read completed in one call with the next one's bytes, a write
  after one that failed or was swallowed.
* `Key3Bytes` 1 and `close_reason_size` 2 stand for 8 and 123, `istream_buffer` 6
  for 512, `max_header_size` 40 and `m_body_bytes_max` 4 for 16000 and 32000000;
  the messages fed lie on both sides. A key's digits stay within 32 bits, and the
  digits of a port are not put together.
* `Closing`: one message for each end before its close; a silent close is not
  combined with dropping. A stranger may stop at any point.
* `Negotiation`: two windows and every mode for each end, two calls of the
  setters, so one replaces another. A stranger
  takes the place of an end that was given no settings of its own.
* `AudioChunks`: chunks of 4 samples, 5-bit `int`, lengths on both sides of one
  chunk, several chunks, and past what `int` counts; two files.

## Fairness

`ConnFairness`, `LoopFairness`: the loop runs every ready handler, a transport
write ends in success or in an error, a read fails once the transport is shut
down, timers expire (`async_shutdown` has a timer of its own). Each kind of
handler is weakly fair by itself; nothing is assumed of the peer, so a read may
never complete. `Fairness` adds that both threads are scheduled inside calls and
handlers, and strong fairness for `on_message` taking `mtx`: `wait_for_condition`
may take and release it any number of times through spurious wakeups, and
`std::mutex` is taken not to starve a waiter for ever. The main thread is never
obliged to make a call. `ProgFairness` also obliges `main()` to go on and the
server to answer what reached it, but not to keep the connection open or to
accept it: `Completes` has a closed connection among its outcomes, because no
close handler tells `main()`, which then waits for ever.

`OpeningFairness`, `HandshakeFairness`: posted handlers run, armed timers
expire, the application's handler returns, and a deferred answer that was begun
is written. Nothing is assumed of the network: `AttemptEnds` rests on the timers
alone. In `parts` this fairness is asked of the opening handshake only
(`PartsFairness`): the other parts promise no liveness.

## Findings

1. `connection_impl.hpp:1629`: no return after `terminate()` when extension
   negotiation fails: the connection is opened again and both the open and the
   fail handler are called for one attempt. `WebSocketClient` then believes it is
   connected.
2. `WebSocketClient.cpp:120`: any upload message releases the loop's wait, though
   the comment there names `source_upload`.
3. `absolute_agony.cpp:173`: after a failed download the leftover file is
   analysed.
4. `absolute_agony.cpp:196`: the program finishes normally without having told
   the server of a product, because a failed upload, a refused send and frames
   that `stop()` discards all go unnoticed.
5. `hybi13.hpp:537`: only a message whose last frame is a text frame is checked
   to end on a code point; a fragmented text ends in a continuation and is not.
6. `connection_impl.hpp:2042`: a server that receives a close frame while it is
   closing ends the connection as clean with messages, sent before its `close`,
   still queued.

Other places where the code is less than it seems. They are modelled as they
are, and no run claims otherwise:

* `resume_reading` starts a read whether one is in flight or not, though
  `connection.hpp:736-738` says it has no effect then.
* `init_asio(ec)` on an endpoint that has an io_service returns an error and
  clears the mark of an external one, which the destructor then deletes.
* A failed server name reports an error and then success as well
  (`security/tls.hpp:245`).
* A message size that wraps in `size_t` passes the limit (`hybi13.hpp:457`), which
  `connection.hpp:565-566` gives as the point where the connection fails.
* Two pings in progress at once cancel the same timer and set two: the one that is
  not kept runs on, and the pong timeout handler is called for a ping that was
  answered, where `connection.hpp:113` speaks of one that goes unanswered.
* A response without a Content-Length, or with one of 0, is ready as soon as a byte
  follows its head, and not before, so that depends on the cut of the reads;
  `http/response.hpp:51-52` says that `ready()` is then never true.
* `async_write` of the iostream transport reports as done what an ostream with its
  failbit set has ignored (`iostream/connection.hpp:498, 540`), where its
  documentation has it report failure.
* `read()` completes a read whose stream goes bad and then, if the bytes are
  enough, completes it again (621-630); the handler is gone by then, and calling it
  throws.
* Draft 00's closing frame `FF 00` is not recognised, and `key3` has to come with
  the read that ends the head.
* `str()` and `get_host_port()` leave out the brackets of an IPv6 host.
* A client's `get_subprotocol()` is never set from the response.
* `get_header_as_plist` returns true for an error, where
  `http/parser.hpp:434-440` describes the return value as validity.
* `response::consume(istream)` stops early at a line longer than its buffer.

## Proofs

All theorems hold for every value of the constants under the modules' named
assumptions (`ConnectionAssumption`, `ClientAssumption`, `ProgramAssumption`,
`EndpointAssumption`, `Hybi13Assumption`, ...), which only say what the constants
are: `ProgramAssumption` also keeps the file tags `Leftover`, `Unreadable` and
`Absent` apart from the names of objects, `ClosingAssumption` gives codes and
bytes their width. The bounds are constants too, so nothing depends on their
size. A theorem is about the safety part of a specification (`ConnSafety`,
`ProgSafety`, `ClosingSafety`, ...: `Init` and the steps), which the one with
fairness implies.

* `WsppConnection_proofs`. `ConnTypeCorrect`: the type invariant is inductive
  by itself. `NoStranded`: `FlagHeldByWrite /\ NoStrandedMessage` is inductive
  with the types. The argument is a hand-over of responsibility: a push that
  finds the flag set leaves the queue to the write in flight, whose completion
  dispatches; a push that finds it clear dispatches itself; `write_frame` empties
  the queue up to a terminal message, and then the flag stays set. `DeliveredInOrder`:
  `InOrder` speaks of the wire only, so the invariant has to account for every
  message: until the first failed write, the queued history is the wire, the
  messages in flight and the queue, in this order (`Accounted`); after it nothing
  is written any more (`Finished`) and the wire stays the prefix it was.
  `NoneCalledOnceClosed` and `OneWriteAtATime` are action properties. The first
  goes through every step that calls a handler; the second needs
  `FlagHeldByWrite`: `write_frame` looks at the flag, and it is the flag that is
  held for as long as there is a batch.
* `WebSocketClient_proofs`. `ClientUsesConnection`: every step is a step of the
  connection or leaves it alone, so its theorems carry over. `Inv` adds
  `Positions` to the properties: who holds `mtx` by position, and that a main
  thread about to sleep has seen the condition unmet under `mtx` and the
  condition still is. Without it `NoLostWakeup` is not inductive: a handler could
  set and notify in the window. `LatchImplemented`: steps map to steps of the
  latch or stutter.
* `AudioProcessor_proofs`. `ProgramUsesClient`: `main()` implements the client's
  specification, so all the theorems above hold of the program. `OneProductOnly`
  needs `ProductInv`: once a product is stored `main()` is past the upload, or
  back at the loop's condition with enough audio to leave it. `NotifyNeverBlocks`
  needs `HeldInv`: from the return of the wait until the reset the condition is
  met, because only the main thread clears it and its position is elsewhere.
  Four results are about `main()` and the server across both threads, the queue
  and the wire; they use `DeliveredInOrder`, so what the server received is known
  to be a prefix of what was queued.
  `ImplementsProtocol`: `SessionProtocol`'s variable is the last application
  message queued, so `SaidInv` has to say, for each position of `main()`, what
  that was, unless a send was refused, and then that the connection is no longer
  open and nothing can follow (`Silenced`). Pongs and close frames are in the same
  queue; `DataIn` drops them, and what it computes is proved by induction.
  `AnnouncesOnlyProducts` needs `AnnounceInv`: while the bucket is empty no
  announcement is queued, nor half sent, nor is `main()` where it would say one.
  `AnswersBelongToRequests` needs `AnswersOK`: as long as the server only answers,
  at most one answer is under way, in one of four places (the read buffer, the
  handler before and after its assignment, the flag), only while `main()` waits
  for it, and the server never answers more than was asked; that last part comes
  from the order of delivery. Without the count of requests in it the invariant is
  not inductive: an answer two rounds old could still arrive.
  `ProductsAreTraced` rests on it: `ProvInv` says the stored chunks are `Traced`
  to the sources in order and that the file, once downloaded, is the latest one.
* `NatSets`. `SetInduction` is induction over the natural numbers for a set
  instead of a predicate, from the well-foundedness of inclusion on finite sets;
  the library's own induction theorems take an operator as a parameter, which the
  installed provers cannot instantiate. `Recursion` gives the function that a
  definition by recursion on `0..N` denotes. `LeastElement` gives what `Min` chooses.
* `Closing_proofs`. `EndsAgree` needs `ClosingInv`, which speaks of one end and of
  what the other has sent (`EndInv`): while open it has no close frame, sent or
  queued; each it has carries a valid code; unless it refused the peer's, it has
  one at most, that one carries what the end records as its own, or reported, and
  a clean end holds a code and a reason that are in a close frame of the peer's.
  The agreement of the two reports is then no invariant of its own: the frame one
  end acknowledged is in what the other sent, and what the other sent carries what
  it reports. `PreparedReadsBack` is the lemma that a payload is read back as the
  code and the reason it was made of; the rest is about sequences, since frames
  go from the queue to the wire in batches, or are lost when the end is closed.
* `Transports_proofs`, of three modules. `AcceptsGoOn` needs `Listens`: an accept is outstanding,
  or accepting goes on, only while the endpoint is listening, and then the
  acceptor is open; `stop_listening` and the destructor therefore leave none.
  `DeletesOwnOnly` needs `Owns`: an application's io_service that is not marked
  as external was left so by a second `init_asio(ec)`. One lemma per action;
  accepts are counted, so `MaxAccepts` plays no part.
  `OnlyExpiredReported` needs `PingInv`, for any number of callers. Its core is
  `LastRuns`: of the pings that met no other, only the one whose timer is kept can
  still run, no pong has followed it, and no call has got as far as cancelling.
  That rests on whose timer is whose between `set_timer` and the assignment
  (`Holds`), and on two calls in progress having met (`Meets`). `StreamIsKept` needs `IoStates`: the
  buffer of a read under way holds the last bytes taken from the stream, as many as
  its cursor says, and handlers got the bytes before those, in order; every buffer
  written has a number below `sent`, those that are out have increasing ones, a
  write that succeeded and was not swallowed is out whole, and one that failed is
  out up to some buffer. A read whose stream goes bad ends with the bytes it has,
  so it keeps the same invariant.
  Its lemmas go through `read_some_impl` one call at a time, since `read_all` calls
  it until the bytes end and a completed read may ask for more inside the call:
  both loops are recursive functions, and what they keep is proved by
  `SetInduction`.
* `AudioChunks_proofs`. `ProductIsChunks` needs `FftInv`, which has three parts as
  long as no length has overflowed. `DataInv`: the samples being worked on are the
  last that were read, in order, each windowed once when the windowing is over.
  `LoopInv`: what the locals of the loop are in terms of the file's length.
  `ProductInv`: each transform so far is of the next samples of one file, and the
  storage is the chunks that were kept, given how many samples have been
  transformed (`Done`), which depends on the stage and the chunk. Without that count
  nothing relates the next chunk to the ones before it.
* `Framing_proofs`. `ValidatorExact` needs `Utf8Inv`: as long as nothing was
  rejected, the bytes since the last place where a code point ends are a begun code
  point that the state stands for (`Shape`), or none. `ShapeNext` follows each
  state through the table: what leads to `utf8_reject` begins no code point, the
  other bytes continue or complete one. That this is about the whole text and not
  its last code point is `NoStraddle`: a code point's first byte tells its length
  and is no trailing byte, so none begins inside another. `CodePointTable` relates
  the definition by scalar values to ranges of bytes.

  `FramesDelivered`, `PreparedAccepted` and `LimitsKept` share `HyInv`, which is a
  case for each thing `consume()` can be reading: nothing (`Between`), a basic
  header, the rest of it, the payload of a control or of a data frame, or nothing
  any more (`Refused`). Frames may lie ahead of the one being read, so each case
  speaks of the current frame and says how many of all the frames' cells, laid end
  to end (`Stream`), were consumed: the buffer and the wire are the rest (`Left`), and
  neither a cut between two reads nor another frame sent changes which. It also says
  what the messages under way hold: the open message as the reference has it before
  the frame (`OpenIs`), and in the payload the frame's bytes so far and the key's
  phase (`UnderWay`). What was delivered is what the frames before the current one
  made, a first part of what all of them make (`MessagesGrow`), and once no cell is
  left the current frame is the last (`AllRead`): a frame may stop short of its
  length, but nothing follows it. `InData` needs two things that are not in the properties. The
  length still to come counts against the limit, or `LimitsKept` is not inductive:
  the limit is only looked at before the payload. And where every frame was
  prepared, the validator's state is that of the frame's bytes so far: since the
  sender validated all of them, no part of them is rejected (`DecodeRejects`,
  `DecodeParts`). The lemmas go action by action; those on `AfterFrame` and
  `decode` rest on `Recursion`.

Only model-checked:

* all liveness properties: TLAPS 1.4.5 has neither ENABLED nor fairness;
* `OneVerdict`, because its instance is already exact: the state of an opening is
  finite, its two constants name subsets of three and of four values, and `parts`
  takes them whole;
* `CodecExact`, `ReadsBack`, `SplitIndependent`, `Exchanges00`,
  `WindowsFit`: they compare recursive computations over all byte sequences, texts
  or offers of a length, with division and bits in them, which needs an induction
  over the data for each of the functions.

The deepest invariants (`ClosingInv` with `ClosingTypeOK`, `SaidInv`, `AnswerInv`,
`ProvInv`, `HyInv`, `PingInv`) were checked by TLC on small instances before they were proved.

## Not modelled

* `task_done` is written and never read. Payload contents other than the message
  kind and the object name. Sample values and the spectrum: the two magnitudes
  that are compared are any.
* The SDK: its initialisation count, and `AudioUploader`'s client that outlives
  `ShutdownAPI`. `clamp`, `generateUUID` and `lib/dotenv.h`, which no source
  includes.
* `connect()` called twice and a send from a second application thread: the
  program has neither.
* Compression itself, MD5, SHA-1, random numbers and message buffers: functions
  of bits with known test vectors. Hybi13 with permessage-deflate on.
* Logging, error texts, the layout of a response, configuration classes, setters
  of handlers and limits, endpoint_impl's wrappers that look a handle up and
  forward, the version numbers of hybi07 and hybi08.
* The stub and debug transports, which report success or an error at once.
* `WsppConnection` sees the opening handshake as an outcome and a frame as an
  opcode: that the details keep within these outcomes is shown by `OneVerdict`
  and `DeliversFrames`, not by a refinement mapping.

## Plan

1. `AttemptEnds` without fairness: that an attempt which is not over has a timer
   armed or a handler to run, as an invariant.
2. `OpenHandshake` shown to implement the outcomes of `WsppConnection`, and the
   SDK's nested initialisation.
3. `Exchanges00`, whose state is like that of `Hybi13`.
