--------------------------- MODULE OpenHandshake ---------------------------
(***************************************************************************)
(* The opening of one client connection over the asio transport: resolve,  *)
(* connect, an optional HTTP proxy, the TLS handshake and the WebSocket    *)
(* handshake, each guarded by a timer that races the operation it guards.  *)
(* The fields of c that only a server's connection uses are there for      *)
(* ServerHandshake, which shares the transport and the termination path.   *)
(*                                                                         *)
(* Handlers call each other synchronously, so each is an operator from the *)
(* connection c to the connection it leaves, and an action is what one     *)
(* entry of the io_service queue runs; the strand serialises them.  A      *)
(* timer that is due reads as past (is_neg) from then on, whichever        *)
(* handler runs first, and cancelling it no longer removes its handler.  A *)
(* cancelled timer's handler only returns, so it is not represented.       *)
(***************************************************************************)
EXTENDS Naturals

CONSTANTS
  Proxies,    \* what set_proxy was given: among "none", "valid", "invalid"
  Responses   \* what the server may answer; subset of AllResponses

\* Bound: a response whose extensions are refused is left to WsppConnection.
AllResponses == {"partial", "malformed", "rejected", "accepted"}

ASSUME OpeningAssumption == /\ Proxies \subseteq {"none", "valid", "invalid"}
                            /\ Responses \subseteq AllResponses

\* The asynchronous operations, and the timers.  A second TLS handshake is
\* started when pre_init reports twice.
SocketOps == {"connect", "proxy_write", "proxy_read", "tls", "tls_again",
              "write", "read", "shutdown"}
Ops    == SocketOps \cup {"resolve"}
Timers == {"dns", "connect", "proxy", "post_init", "post_init_again", "open",
           "shutdown"}

VARIABLE c     \* the connection and its transport

Setups == [proxy : Proxies, secure : BOOLEAN, endpoint_secure : BOOLEAN,
           uri_valid : BOOLEAN, context : BOOLEAN, sni : BOOLEAN]

Unopened == [is_server |-> FALSE, setup |-> [proxy |-> "none", secure |-> FALSE,
               endpoint_secure |-> FALSE, uri_valid |-> TRUE,
               context |-> FALSE, sni |-> TRUE],
  op |-> [o \in Ops |-> "off"], timer |-> [t \in Timers |-> "off"],
  m_state |-> "none", m_internal_state |-> "USER_INIT", tstat |-> "unknown",
  m_ec |-> "none", m_is_http |-> FALSE, m_http_state |-> "init",
  status |-> "uninitialized", in_handler |-> FALSE, sender |-> "idle",
  opens |-> 0, fails |-> 0, closes |-> 0, ended |-> 0, inits |-> 0,
  responses |-> 0,
  late |-> FALSE, stray |-> FALSE]

OpeningInit == c = Unopened

-----------------------------------------------------------------------------
(* Timers and operations.                                                  *)

Past(d, t) == d.timer[t] \in {"due", "fired"}

CancelTimer(d, t) ==
  IF d.timer[t] = "armed" THEN [d EXCEPT !.timer[t] = "off"] ELSE d

CancelOps(d, os) ==
  [d EXCEPT !.op = [o \in Ops |-> IF o \in os /\ d.op[o] = "busy"
                                  THEN "aborted" ELSE d.op[o]]]

cancel_socket_checked(d) == CancelOps(d, SocketOps)

\* The transport's reads and writes, and whether the one that ended failed: an
\* end of file or an abort is an error like any other.
async_read_at_least(d) == [d EXCEPT !.op["read"] = "busy"]
async_write(d)         == [d EXCEPT !.op["write"] = "busy"]
ReadFailed  == c.op["read"] # "ok"
WriteFailed == c.op["write"] # "ok"

Guarded(d, o, t) == [d EXCEPT !.op[o] = "busy", !.timer[t] = "armed"]

-----------------------------------------------------------------------------
(* The end of an attempt: terminate() and the transport's shutdown, which  *)
(* a plain socket completes inside the call.                               *)

\* A connection an HTTP response ended calls no handler.
handle_terminate(d) ==
  CASE d.tstat = "closed" -> [d EXCEPT !.closes = @ + 1]
    [] d.tstat = "failed" /\ d.m_ec = "http_connection_ended" ->
         [d EXCEPT !.ended = @ + 1]
    [] OTHER -> [d EXCEPT !.fails = @ + 1]

\* The TLS policy tells the peer; the plain one calls back inside the call.
tls_async_shutdown(d) == [d EXCEPT !.op["shutdown"] = "busy"]
none_async_shutdown(d) == handle_terminate(CancelTimer(d, "shutdown"))

async_shutdown(d) ==
  LET e == [d EXCEPT !.timer["shutdown"] = "armed"] IN
  IF d.setup.endpoint_secure THEN tls_async_shutdown(e) ELSE none_async_shutdown(e)

\* The state terminate() records before it shuts the socket down.
Closed(d, ec) ==
  [CancelTimer(d, "open") EXCEPT
     !.m_ec = ec,
     !.m_http_state = IF d.m_is_http THEN "closed" ELSE @,
     !.m_state = "closed",
     !.tstat = IF d.m_state = "closed" THEN @
               ELSE IF d.m_state = "connecting" THEN "failed" ELSE "closed"]

\* Mutant: a second terminate() reports again.
TerminateAgain(d, ec) == async_shutdown(Closed(d, ec))

terminate(d, ec) == IF d.m_state = "closed" THEN Closed(d, ec)
                    ELSE async_shutdown(Closed(d, ec))

-----------------------------------------------------------------------------
(* The WebSocket handshake's request, and the transport's initialisation   *)
(* that leads to it.                                                       *)

\* Mutant: the opening timer is not armed.
SendWithoutTimer(d) == [async_write(d) EXCEPT !.stray = d.m_state = "closed"]

send_http_request(d) == [async_write(d) EXCEPT !.timer["open"] = "armed",
                                               !.stray = d.m_state = "closed"]

\* A server's connection waits for the request instead.
read_handshake(d) == [async_read_at_least(d) EXCEPT !.timer["open"] = "armed"]

handle_transport_init(d, ok) ==
  LET e == [d EXCEPT !.inits = @ + 1] IN
  IF d.m_internal_state # "TRANSPORT_INIT" \/ ~ok THEN terminate(e, "error")
  ELSE IF d.is_server
  THEN read_handshake([e EXCEPT !.m_internal_state = "READ_HTTP_REQUEST"])
  ELSE send_http_request([e EXCEPT !.m_internal_state = "WRITE_HTTP_REQUEST"])

\* handle_post_init, once its guards let it through.
post_init_done(d, t, ok) == handle_transport_init(CancelTimer(d, t), ok)

\* The TLS handshake, or nothing at all.
tls_post_init(d) == IF d.op["tls"] = "off"
                    THEN Guarded(d, "tls", "post_init")
                    ELSE Guarded(d, "tls_again", "post_init_again")
none_post_init(d) ==
  post_init_done([d EXCEPT !.timer["post_init"] = "armed"], "post_init", TRUE)

post_init(d) == IF d.setup.endpoint_secure THEN tls_post_init(d) ELSE none_post_init(d)

proxy_write(d) == Guarded(d, "proxy_write", "proxy")
proxy_read(d)  == [d EXCEPT !.op["proxy_read"] = "busy"]

\* There is no return after the callback that reports an error.
handle_pre_init(d, ok) ==
  LET e == IF ok THEN d ELSE handle_transport_init(d, FALSE) IN
  IF d.setup.proxy = "none" THEN post_init(e) ELSE proxy_write(e)

\* A failed SNI setup is reported, and then success is.
tls_pre_init(d) == handle_pre_init(IF d.setup.sni THEN d ELSE handle_pre_init(d, FALSE), TRUE)
none_pre_init(d) == handle_pre_init(d, TRUE)

transport_init(d) == IF d.setup.endpoint_secure THEN tls_pre_init(d) ELSE none_pre_init(d)

start(d) ==
  IF d.m_internal_state # "USER_INIT" THEN terminate(d, "error")
  ELSE transport_init([d EXCEPT !.m_internal_state = "TRANSPORT_INIT"])

client_handle_connect(d, ok) == IF ok THEN start(d) ELSE terminate(d, "error")

-----------------------------------------------------------------------------
(* get_connection and connect, on the application's thread.                *)

\* The transport is given its io_service: the TLS policy asks for a context.
init_asio_fails(s) == s.endpoint_secure /\ ~s.context

\* The connection an endpoint makes, with its handlers and its limits.
create_connection(s) == [Unopened EXCEPT !.setup = s]

Rejects(s) == \/ ~s.uri_valid
              \/ s.secure /\ ~s.endpoint_secure
              \/ init_asio_fails(s)

\* A proxy's address is parsed only here, the tunnel's request with it.
proxy_init_fails(s) == s.proxy = "invalid"

async_connect(d) ==
  IF proxy_init_fails(d.setup) THEN client_handle_connect(d, FALSE)
                               ELSE Guarded(d, "resolve", "dns")

\* Bounds: a failing SNI setup is not combined with a proxy, and the fields
\* an endpoint without TLS does not read have one value.
Sensible(s) == /\ s.sni \/ (s.endpoint_secure /\ s.proxy = "none")
               /\ s.endpoint_secure \/ ~s.context

ConnectTo(s) ==
  /\ c.m_state = "none"
  /\ Sensible(s)
  /\ c' = LET d == create_connection(s) IN
          IF Rejects(s) THEN [d EXCEPT !.m_state = "rejected"]
          ELSE async_connect([d EXCEPT !.m_state = "connecting"])

-----------------------------------------------------------------------------
(* The network, the clock, and another connection of the endpoint whose    *)
(* resolve times out: the resolver they share cancels this one's too.      *)

Completes(o) ==
  /\ c.op[o] = "busy"
  /\ \E r \in {"ok", "error"} : c' = [c EXCEPT !.op[o] = r]

Expires(t) ==
  /\ c.timer[t] = "armed"
  /\ c' = [c EXCEPT !.timer[t] = "due"]

OtherResolveTimesOut ==
  /\ c.op["resolve"] = "busy"
  /\ c' = CancelOps(c, {"resolve"})

-----------------------------------------------------------------------------
(* Completion handlers.  The ones that share a callback with a timer leave *)
(* it to the timer when they were aborted or the timer is past.            *)

\* The strand runs one handler at a time.
Done(o)   == c.op[o] \in {"ok", "error", "aborted"} /\ ~c.in_handler
Due(t)    == c.timer[t] = "due" /\ ~c.in_handler
Ran(d, o) == [d EXCEPT !.op[o] = "off"]

\* Mutant: the clock is not consulted.
LeavesToTimerUnchecked(o, t) == c.op[o] = "aborted"

LeavesToTimer(o, t) == c.op[o] = "aborted" \/ Past(c, t)

HandleResolve ==
  /\ Done("resolve")
  /\ c' = LET d == CancelTimer(Ran(c, "resolve"), "dns") IN
          IF LeavesToTimer("resolve", "dns") THEN Ran(c, "resolve")
          ELSE IF c.op["resolve"] = "error" THEN client_handle_connect(d, FALSE)
          ELSE Guarded(d, "connect", "connect")

HandleConnect ==
  /\ Done("connect")
  /\ c' = IF LeavesToTimer("connect", "connect") THEN Ran(c, "connect")
          ELSE client_handle_connect(CancelTimer(Ran(c, "connect"), "connect"),
                                     c.op["connect"] = "ok")

HandleProxyWrite ==
  /\ Done("proxy_write")
  /\ c' = LET d == Ran(c, "proxy_write") IN
          IF LeavesToTimer("proxy_write", "proxy") THEN d
          ELSE IF c.op["proxy_write"] = "error"
               THEN handle_transport_init(CancelTimer(d, "proxy"), FALSE)
               ELSE proxy_read(d)

\* Incomplete headers and any status but 200 end the attempt.
HandleProxyRead ==
  /\ Done("proxy_read")
  /\ LET d == CancelTimer(Ran(c, "proxy_read"), "proxy") IN
     \/ /\ LeavesToTimer("proxy_read", "proxy")
        /\ c' = Ran(c, "proxy_read")
     \/ /\ ~LeavesToTimer("proxy_read", "proxy")
        /\ c' = handle_transport_init(d, FALSE)
     \/ /\ ~LeavesToTimer("proxy_read", "proxy") /\ c.op["proxy_read"] = "ok"
        /\ c' = post_init(d)

\* TLS's handle_init hands handle_post_init its own error, never "aborted".
HandlePostInit(o, t) ==
  /\ Done(o)
  /\ c' = IF Past(c, t) THEN Ran(c, o)
          ELSE post_init_done(Ran(c, o), t, c.op[o] = "ok")

HandleSendHttpRequest ==
  /\ Done("write") /\ ~c.is_server
  /\ c' = LET d == Ran(c, "write") IN
          IF WriteFailed THEN terminate(d, "error")
          ELSE IF c.m_state = "closed" THEN d
          ELSE IF c.m_state = "connecting"
                  /\ c.m_internal_state = "WRITE_HTTP_REQUEST"
          THEN async_read_at_least([d EXCEPT !.m_internal_state = "READ_HTTP_RESPONSE"])
          ELSE terminate(d, "error")

\* What a readable response does once its headers are complete.
Answered(d, r) ==
  LET e == CancelTimer([d EXCEPT !.late = d.timer["open"] = "due"], "open") IN
  IF r = "rejected" THEN terminate(e, "error")
  ELSE [e EXCEPT !.m_internal_state = "PROCESS_CONNECTION",
                 !.m_state = "open", !.opens = @ + 1]

HandleReadHttpResponse(r) ==
  /\ Done("read") /\ ~c.is_server
  /\ c' = LET d == Ran(c, "read") IN
          IF ReadFailed THEN terminate(d, "error")
          ELSE IF c.m_state = "closed" THEN d
          ELSE IF c.m_state # "connecting"
                  \/ c.m_internal_state # "READ_HTTP_RESPONSE" THEN terminate(d, "error")
          ELSE CASE r = "partial"   -> async_read_at_least(d)
                 [] r = "malformed" -> terminate(d, "error")
                 [] OTHER           -> Answered(d, r)

HandleAsyncShutdown ==
  /\ Done("shutdown")
  /\ c' = IF LeavesToTimer("shutdown", "shutdown") THEN Ran(c, "shutdown")
          ELSE handle_terminate(CancelTimer(Ran(c, "shutdown"), "shutdown"))

-----------------------------------------------------------------------------
(* Timer handlers: cancel the operation and report the timeout.            *)

Fired(t) == [c EXCEPT !.timer[t] = "fired"]

HandleResolveTimeout ==
  /\ Due("dns")
  /\ c' = client_handle_connect(CancelOps(Fired("dns"), {"resolve"}), FALSE)

HandleConnectTimeout ==
  /\ Due("connect")
  /\ c' = client_handle_connect(cancel_socket_checked(Fired("connect")), FALSE)

HandleProxyTimeout ==
  /\ Due("proxy")
  /\ c' = handle_transport_init(cancel_socket_checked(Fired("proxy")), FALSE)

HandlePostInitTimeout(t) ==
  /\ Due(t)
  /\ c' = handle_transport_init(cancel_socket_checked(Fired(t)), FALSE)

HandleOpenTimeout ==
  /\ Due("open")
  /\ c' = terminate(Fired("open"), "error")

HandleShutdownTimeout ==
  /\ Due("shutdown")
  /\ c' = handle_terminate(cancel_socket_checked(Fired("shutdown")))

-----------------------------------------------------------------------------
Handlers ==
  \/ HandleResolve \/ HandleConnect
  \/ HandleProxyWrite \/ HandleProxyRead
  \/ HandlePostInit("tls", "post_init")
  \/ HandlePostInit("tls_again", "post_init_again")
  \/ HandleSendHttpRequest
  \/ \E r \in Responses : HandleReadHttpResponse(r)
  \/ HandleAsyncShutdown

TimerHandlers ==
  \/ HandleResolveTimeout \/ HandleConnectTimeout
  \/ HandleProxyTimeout
  \/ \E t \in {"post_init", "post_init_again"} : HandlePostInitTimeout(t)
  \/ HandleOpenTimeout \/ HandleShutdownTimeout

OpeningNext ==
  \/ \E s \in Setups : ConnectTo(s)
  \/ \E o \in Ops : Completes(o)
  \/ \E t \in Timers : Expires(t)
  \/ OtherResolveTimesOut
  \/ Handlers \/ TimerHandlers

\* The loop runs the handlers that are ready and time passes.  Nothing is
\* assumed of the network: an operation may stay busy for ever.
OpeningFairness ==
  /\ WF_c(Handlers) /\ WF_c(TimerHandlers)
  /\ \A t \in Timers : WF_c(Expires(t))

OpeningSpec == OpeningInit /\ [][OpeningNext]_c /\ OpeningFairness

-----------------------------------------------------------------------------
\* Whoever wins a race between a timer and its operation, an attempt is
\* reported once: the open and the fail handler exclude each other, and a
\* connection that opened is closed here only by an opening timer that was
\* already due when the response was read.  A client sends its
\* opening request for no attempt that has failed already, unless the server
\* name could not be set and pre_init went on; of what else is written after a
\* failure nothing is said.  A server answers a request at most once, although the handler that
\* keeps the answer and the thread that sends it run at the same time.
OneVerdict ==
  /\ c.opens + c.fails + c.ended <= 1
  /\ c.closes > 0 => c.late /\ c.closes = c.opens
  /\ c.stray => ~c.setup.sni
  /\ c.responses <= 1
=============================================================================
