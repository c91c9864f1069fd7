---------------------------- MODULE AsioEndpoint ----------------------------
(***************************************************************************)
(* The asio endpoint a client or a server is built on: who owns its        *)
(* io_service, the acceptor, the server's loop of asynchronous accepts,    *)
(* the application's timers and the ways its event loop is run and         *)
(* stopped.  Connections are abstracted to whether one could be created.   *)
(***************************************************************************)
EXTENDS Naturals, Sequences

CONSTANT MaxAccepts     \* bound: accepts outstanding or completed at a time

ASSUME EndpointAssumption == MaxAccepts \in Nat \ {0}

VARIABLE e

Completions == {"ok", "error", "canceled"}

EndpointInit ==
  e = [m_state |-> "UNINITIALIZED", m_io_service |-> "none",
       m_external_io_service |-> FALSE, m_acceptor |-> "closed",
       m_work |-> FALSE, loop |-> "idle", stopped |-> FALSE, timer |-> "off",
       accepts |-> 0, done |-> [r \in Completions |-> 0],
       accepting |-> FALSE, reinitialized |-> FALSE, deleted |-> <<>>]

Alive   == e.m_state # "DESTROYED"
Usable  == Alive /\ e.m_state # "UNINITIALIZED"
Pending(d) == d.accepts + d.done["ok"] + d.done["error"] + d.done["canceled"]
Ready(d)   == Pending(d) > d.accepts \/ d.timer \in {"due", "canceled"}

-----------------------------------------------------------------------------
\* Mutant: the flag of an application's io_service is not set.
InitAsioUnmarked(service, throws) ==
  /\ Alive /\ e.m_state = "UNINITIALIZED"
  /\ e' = [e EXCEPT !.m_state = "READY", !.m_io_service = service]

\* init_asio with the application's io_service, or with one of its own: the
\* overload that reports through ec clears the flag even when it fails.
InitAsio(service, throws) ==
  /\ Alive
  /\ e' = IF e.m_state = "UNINITIALIZED"
          THEN [e EXCEPT !.m_state = "READY", !.m_io_service = service,
                         !.m_external_io_service = service = "app"]
          ELSE IF service = "own" /\ ~throws
          THEN [e EXCEPT !.m_external_io_service = FALSE, !.reinitialized = TRUE]
          ELSE e

\* The acceptor after an attempt to listen, whose steps may each fail.
clean_up_listen_after_error(d) == [d EXCEPT !.m_acceptor = "closed"]

\* open, set_option, the pre-bind handler, bind and listen, for a port or an
\* endpoint.
Listen(succeeds) ==
  /\ e.m_state = "READY"
  /\ e' = IF succeeds THEN [e EXCEPT !.m_state = "LISTENING", !.m_acceptor = "open"]
                      ELSE clean_up_listen_after_error(e)

\* Listening on a host resolves it first, and does nothing if that fails.
ListenOnHost(resolves, succeeds) == Usable /\ IF resolves THEN Listen(succeeds)
                                                          ELSE UNCHANGED e

\* Closing the acceptor completes what it has outstanding as canceled.
StopListening ==
  /\ e.m_state = "LISTENING"
  /\ e' = [e EXCEPT !.m_state = "READY", !.m_acceptor = "closed",
                    !.done["canceled"] = @ + e.accepts, !.accepts = 0,
                    !.accepting = FALSE]

-----------------------------------------------------------------------------
async_accept(d) == IF d.m_state = "LISTENING"
                   THEN [d EXCEPT !.accepts = @ + 1, !.accepting = TRUE] ELSE d

\* start_accept: what it leaves when it is called in state d, and whether a
\* connection could be made.
start_accept(d, created) ==
  IF d.m_state # "LISTENING" THEN d
  ELSE IF created THEN async_accept(d)
  ELSE [d EXCEPT !.accepting = @ /\ Pending(d) > 0]

StartAccept(created) ==
  /\ Alive /\ Pending(e) < MaxAccepts
  /\ e' = start_accept(e, created)

AcceptCompletes ==
  /\ e.accepts > 0
  /\ \E r \in {"ok", "error"} :
       e' = [e EXCEPT !.accepts = @ - 1, !.done[r] = @ + 1]

-----------------------------------------------------------------------------
\* The event loop: run, poll and run_one execute handlers until they return.
Executing == e.loop \in {"run", "poll", "run_one"} /\ ~e.stopped
Executed(d) == [d EXCEPT !.loop = IF @ = "run_one" THEN "idle" ELSE @]

\* Mutant: an accept that failed ends the loop.
HandleAcceptEndsOnError(created) ==
  /\ Executing
  /\ \E r \in Completions :
       /\ e.done[r] > 0
       /\ LET d == [Executed(e) EXCEPT !.done[r] = @ - 1] IN
          e' = IF r = "ok" THEN start_accept(d, created) ELSE d

\* Whatever the accept's result, the loop is started again.
HandleAccept(created) ==
  /\ Executing
  /\ \E r \in Completions :
       /\ e.done[r] > 0
       /\ e' = start_accept([Executed(e) EXCEPT !.done[r] = @ - 1], created)

\* The application's timer; its handler is called with what ended the wait.
SetTimer    == Usable /\ e.timer = "off" /\ e' = [e EXCEPT !.timer = "armed"]
CancelTimers == e.timer = "armed" /\ e' = [e EXCEPT !.timer = "canceled"]
TimerExpires == e.timer = "armed" /\ e' = [e EXCEPT !.timer = "due"]
HandleTimer == /\ Executing /\ e.timer \in {"due", "canceled"}
               /\ e' = [Executed(e) EXCEPT !.timer = "off"]

\* A loop with nothing left to wait for stops its io_service.
Run(mode) ==
  /\ Usable /\ e.loop = "idle"
  /\ e' = [e EXCEPT !.loop = mode]

OutOfWork == Pending(e) = 0 /\ e.timer = "off" /\ ~e.m_work

RunReturns ==
  /\ e.loop # "idle"
  /\ \/ e.stopped \/ OutOfWork
     \/ e.loop = "poll" /\ ~Ready(e)
  /\ e' = [e EXCEPT !.loop = "idle", !.stopped = @ \/ OutOfWork]

StopLoop  == Usable /\ e' = [e EXCEPT !.stopped = TRUE]
ResetLoop == Usable /\ e.loop = "idle" /\ e' = [e EXCEPT !.stopped = FALSE]

StartPerpetual == Usable /\ e' = [e EXCEPT !.m_work = TRUE]
StopPerpetual  == Alive /\ e' = [e EXCEPT !.m_work = FALSE]

-----------------------------------------------------------------------------
\* What the destructor of an endpoint in state d deletes.
Deletes(d) == IF d.m_state # "UNINITIALIZED" /\ ~d.m_external_io_service
              THEN <<d.m_io_service>> ELSE <<>>

\* The move constructor's source, which is destroyed at once; the work that
\* kept the loop running stays with it.
MovedFrom(d) == [d EXCEPT !.m_state = "UNINITIALIZED", !.m_io_service = "none",
                          !.m_external_io_service = FALSE]

\* Handlers hold the address of the endpoint: one that has any is not moved.
Move ==
  /\ Alive /\ e.loop = "idle" /\ Pending(e) = 0 /\ e.timer = "off"
  /\ e' = [e EXCEPT !.m_work = FALSE, !.deleted = @ \o Deletes(MovedFrom(e))]

\* The destructor, which is not called while the loop runs.
Destroy ==
  /\ Alive /\ e.loop = "idle"
  /\ e' = [e EXCEPT !.m_state = "DESTROYED", !.m_work = FALSE, !.accepting = FALSE,
                    !.accepts = 0, !.m_acceptor = "closed",
                    !.done["canceled"] = @ + e.accepts,
                    !.deleted = @ \o Deletes(e)]

EndpointNext ==
  \/ \E service \in {"own", "app"}, throws \in BOOLEAN : InitAsio(service, throws)
  \/ \E ok \in BOOLEAN : Listen(ok) \/ StartAccept(ok) \/ HandleAccept(ok)
  \/ \E resolves \in BOOLEAN, ok \in BOOLEAN : ListenOnHost(resolves, ok)
  \/ StopListening \/ AcceptCompletes
  \/ SetTimer \/ CancelTimers \/ TimerExpires \/ HandleTimer
  \/ \E mode \in {"run", "poll", "run_one"} : Run(mode)
  \/ RunReturns \/ StopLoop \/ ResetLoop
  \/ StartPerpetual \/ StopPerpetual
  \/ Move \/ Destroy

EndpointSpec == EndpointInit /\ [][EndpointNext]_e

-----------------------------------------------------------------------------
\* A server that started accepting and still listens keeps an accept going,
\* whatever order failures, cancellations and new listens come in; it stops
\* only where no connection could be created.  An accept is never left on a
\* closed acceptor.
AcceptLoopLives == /\ e.accepting => Pending(e) > 0
                   /\ e.accepts > 0 => e.m_acceptor = "open"

\* An endpoint, moved or not, deletes its own io_service once and when it is
\* destroyed, and never the application's, unless init_asio(ec) was called on
\* an endpoint that had one already.
DeletesItsOwn ==
  /\ e.deleted # <<>> => e.deleted = <<e.m_io_service>> /\ ~Alive
  /\ ~Alive /\ e.m_io_service = "own" => e.deleted = <<"own">>
  /\ e.deleted = <<"app">> => e.reinitialized
=============================================================================
