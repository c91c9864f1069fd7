--------------------------- MODULE ServerHandshake ---------------------------
(***************************************************************************)
(* The same connection in the server's role, from an accepted socket to    *)
(* the response: the request is read and answered on the strand, while the *)
(* application may keep the answer and send it later from a thread of its  *)
(* own.                                                                    *)
(***************************************************************************)
EXTENDS OpenHandshake

CONSTANTS
  Requests,      \* what the client sends; subset of AllRequests
  HttpHandlers   \* what the application does with a plain HTTP request

\* Requests a stage of the handshake refuses, each with a status of its own.
Refusable == {"malformed", "bad_version", "short_key3", "bad_handshake",
              "bad_extensions", "bad_uri", "vetoed", "unprocessable"}
AllRequests == Refusable \cup {"partial", "websocket", "http"}

ASSUME ServerAssumption ==
  /\ Requests \subseteq AllRequests
  /\ HttpHandlers \subseteq {"absent", "answers", "defers", "ends"}

AcceptedOn(secure) ==
  /\ c.m_state = "none"
  /\ c' = start([c EXCEPT !.is_server = TRUE, !.m_state = "connecting",
                          !.setup.secure = secure,
                          !.setup.endpoint_secure = secure,
                          !.setup.context = secure])

-----------------------------------------------------------------------------
\* A response with no status becomes a 500, and its error is the response's.
write_http_response(d, ec) ==
  [d EXCEPT !.m_ec = IF d.status = "uninitialized" THEN "error" ELSE ec,
            !.status = IF @ = "uninitialized" THEN "error" ELSE @,
            !.op["write"] = "busy", !.responses = @ + 1]

\* Every refused request is answered with its status and ends in an error.
Refused(d) == write_http_response([d EXCEPT !.status = "error"], "error")

\* The application's HTTP handler starts: it may end the connection or keep
\* the answer for later, which cancels the handshake timer.
http_handler(d, h) ==
  LET e == [d EXCEPT !.m_is_http = TRUE, !.in_handler = TRUE] IN
  CASE h = "answers" -> e
    [] h = "defers"  -> [CancelTimer(e, "open") EXCEPT !.m_http_state = "deferred"]
    [] h = "ends"    -> terminate(e, "error")

process_handshake_request(d, r, h) ==
  CASE r \in Refusable              -> Refused(d)
    [] r = "websocket"              ->
         write_http_response([d EXCEPT !.status = "switching"], "none")
    [] r = "http" /\ h = "absent"   -> Refused(d)
    [] r = "http" /\ h # "absent"   -> http_handler(d, h)

HandleReadHandshake(r, h) ==
  /\ Done("read") /\ c.is_server
  /\ r = "http" \/ h = "absent"
  /\ c' = LET d == Ran(c, "read") IN
          IF ReadFailed THEN terminate(d, "error")
          ELSE IF c.m_state = "closed" THEN d
          ELSE IF c.m_state # "connecting"
                  \/ c.m_internal_state # "READ_HTTP_REQUEST"
               THEN terminate(d, "error")
          ELSE IF r = "partial" THEN async_read_at_least(d)
          ELSE process_handshake_request(
                 [d EXCEPT !.m_internal_state = "PROCESS_HTTP_REQUEST"], r, h)

\* Mutant: the answer is written whatever the handler did with it.
HttpHandlerAlwaysAnswers ==
  /\ c.in_handler
  /\ c' = write_http_response([c EXCEPT !.in_handler = FALSE], "none")

\* The rest of handle_read_handshake when the HTTP handler returns: the answer
\* is written now unless the handler has deferred, sent or ended it.
HttpHandlerReturns ==
  /\ c.in_handler
  /\ c' = LET d == [c EXCEPT !.in_handler = FALSE] IN
          IF c.m_http_state = "init" THEN write_http_response(d, "none") ELSE d

\* set_status, the headers and the body, until the request has been processed:
\* in the handler, or later if the answer was deferred.
\* Bound: the application does not answer 101 itself.
MayBuildResponse == c.is_server /\ c.m_internal_state = "PROCESS_HTTP_REQUEST"

SetStatus ==
  /\ MayBuildResponse /\ c.status = "uninitialized"
  /\ c.in_handler \/ c.m_http_state = "deferred"
  /\ c' = [c EXCEPT !.status = "ok"]

-----------------------------------------------------------------------------
(* send_http_response on the application's thread: the state is checked    *)
(* under the lock, the write follows without it.                           *)

SendHttpResponse ==
  /\ c.sender = "idle" /\ c.m_http_state = "deferred"
  /\ c' = [c EXCEPT !.sender = "write", !.m_http_state = "body_written"]

WriteDeferredResponse ==
  /\ c.sender = "write"
  /\ c' = write_http_response([c EXCEPT !.sender = "done"], "none")

\* Any answer but the switch to WebSocket ends the connection, without a
\* handler's call when it answered an HTTP request.
HandleWriteHttpResponse ==
  /\ Done("write") /\ c.is_server
  /\ c' = LET d == Ran(c, "write")
              e == CancelTimer([d EXCEPT !.late = d.timer["open"] = "due"], "open") IN
          IF WriteFailed THEN terminate(d, "error")
          ELSE IF c.m_state = "closed" THEN d
          ELSE IF c.m_state # "connecting"
                  \/ c.m_internal_state # "PROCESS_HTTP_REQUEST"
               THEN terminate(d, "error")
          ELSE IF c.status = "switching"
          THEN [e EXCEPT !.m_internal_state = "PROCESS_CONNECTION",
                         !.m_state = "open", !.opens = @ + 1]
          ELSE terminate(e, IF c.m_is_http THEN "http_connection_ended" ELSE c.m_ec)

ServerHandlers ==
  \/ \E r \in Requests, h \in HttpHandlers \cup {"absent"} : HandleReadHandshake(r, h)
  \/ HttpHandlerReturns
  \/ HandleWriteHttpResponse

ServerNext ==
  \/ \E secure \in BOOLEAN : AcceptedOn(secure)
  \/ ServerHandlers
  \/ SetStatus \/ SendHttpResponse \/ WriteDeferredResponse

-----------------------------------------------------------------------------
\* The application's thread finishes the answer it began.
HandshakeNext == OpeningNext \/ ServerNext
HandshakeFairness == /\ OpeningFairness
                     /\ WF_c(ServerHandlers) /\ WF_c(WriteDeferredResponse)
HandshakeSpec == OpeningInit /\ [][HandshakeNext]_c /\ HandshakeFairness

\* The peer's silence never strands an attempt in either role, and neither
\* does any request: only an answer the application has deferred may be
\* outstanding for ever, for its timer is gone.
AttemptEnds ==
  c.m_state = "connecting" ~>
    \/ c.opens + c.fails + c.ended > 0
    \/ c.m_http_state \in {"deferred", "body_written"}
=============================================================================
