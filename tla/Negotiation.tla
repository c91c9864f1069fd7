----------------------------- MODULE Negotiation -----------------------------
(***************************************************************************)
(* What two ends agree on in the opening handshake: the version, the key's *)
(* answer, a subprotocol, and permessage-deflate's windows.  Either end    *)
(* may also face a stranger's request or response.                         *)
(*                                                                         *)
(* A header list is a record of the headers the code reads; an attribute   *)
(* list maps names to values, whose numbers are what atoi makes of them.   *)
(***************************************************************************)
EXTENDS Integers, Sequences, SequencesExt

CONSTANTS
  WindowBits, Modes,    \* what the window setters are called with
  MaxCalls,             \* bound: calls of the setters
  Subprotocols,         \* subset of STRING without ""
  StrangerRequests,     \* requests that the library's client would not make
  StrangerResponses     \* responses that the library's server would not make

ASSUME NegotiationAssumption ==
  /\ Modes \subseteq {"accept", "decline", "largest", "smallest"}
  /\ MaxCalls \in Nat /\ "" \notin Subprotocols

VARIABLE n

Ends == {"client", "server"}
Empty == -1                         \* the attribute has no value
Numerals == [x \in {"0", "8", "9", "13"} |->
               CASE x = "0" -> 0 [] x = "8" -> 8 [] x = "9" -> 9 [] x = "13" -> 13]

Fresh == [m_enabled |-> FALSE, m_initialized |-> FALSE,
          m_server_no_context_takeover |-> FALSE,
          m_client_no_context_takeover |-> FALSE,
          m_server_max_window_bits |-> 15, m_client_max_window_bits |-> 15,
          server_mode |-> "accept", client_mode |-> "accept"]

Unagreed == [deflate |-> [x \in Ends |-> Fresh], calls |-> 0,
          limited |-> FALSE,       \* the client has limited the server's window
          m_subprotocol |-> [x \in Ends |-> ""], requested |-> <<>>,
          request |-> <<>>, response |-> <<>>, accepted |-> <<>>,
          client |-> "connecting"]

NegotiationInit == n = Unagreed

-----------------------------------------------------------------------------
(* Settings, before the handshake.                                         *)

Configures(x, settings) ==
  /\ n.request = <<>> /\ n.calls < MaxCalls
  /\ n' = [n EXCEPT !.calls = @ + 1, !.deflate[x] = settings,
                    !.limited = @ \/ (x = "client" /\ settings.m_server_max_window_bits < 15)]

Widened(bits) == IF bits = 8 THEN 9 ELSE bits

SetServerMaxWindowBits(x, bits, mode) ==
  /\ bits \in 8..15
  /\ Configures(x, [n.deflate[x] EXCEPT !.m_server_max_window_bits = Widened(bits),
                                        !.server_mode = mode])

SetClientMaxWindowBits(x, bits, mode) ==
  /\ bits \in 8..15
  /\ Configures(x, [n.deflate[x] EXCEPT !.m_client_max_window_bits = Widened(bits),
                                        !.client_mode = mode])

EnableServerNoContextTakeover(x) ==
  Configures(x, [n.deflate[x] EXCEPT !.m_server_no_context_takeover = TRUE])
EnableClientNoContextTakeover(x) ==
  Configures(x, [n.deflate[x] EXCEPT !.m_client_no_context_takeover = TRUE])

add_subprotocol(value) ==
  /\ n.request = <<>> /\ value \notin Range(n.requested)
  /\ n' = [n EXCEPT !.requested = Append(@, value)]

-----------------------------------------------------------------------------
(* permessage-deflate: negotiate() applies a list's attributes in the      *)
(* order of their names, and stops at the first it cannot accept; what it  *)
(* had applied by then stays.                                              *)

Attributes == <<"client_max_window_bits", "client_no_context_takeover",
                "server_max_window_bits", "server_no_context_takeover", "unknown">>

generate_offer == [client_no_context_takeover |-> Empty, client_max_window_bits |-> Empty]

Smaller2(a, b) == IF a < b THEN a ELSE b

\* Mutant: the largest window of both ends is taken.
WindowLargest(bits, own, mode) ==
  Widened(CASE mode = "decline"  -> 15
            [] mode = "accept"   -> bits
            [] mode = "largest"  -> IF bits > own THEN bits ELSE own
            [] mode = "smallest" -> 8)

\* The switch in negotiate_server_max_window_bits and its client twin.
Window(bits, own, mode) ==
  Widened(CASE mode = "decline"  -> 15
            [] mode = "accept"   -> bits
            [] mode = "largest"  -> Smaller2(bits, own)
            [] mode = "smallest" -> 8)

\* The settings after one attribute, and whether it was refused.  A window of
\* w bits is read as uint8_t(w).
Applied(s, name, value) ==
  LET bits == IF value = Empty THEN 0 ELSE value % 256
      refused(t) == [ec |-> TRUE, settings |-> t]
      done(t) == [ec |-> FALSE, settings |-> t] IN
  CASE name = "server_no_context_takeover" ->
         IF value = Empty THEN done([s EXCEPT !.m_server_no_context_takeover = TRUE])
                          ELSE refused(s)
    [] name = "client_no_context_takeover" ->
         IF value = Empty THEN done([s EXCEPT !.m_client_no_context_takeover = TRUE])
                          ELSE refused(s)
    [] name = "server_max_window_bits" ->
         IF bits \notin 8..15 THEN refused([s EXCEPT !.m_server_max_window_bits = 15])
         ELSE done([s EXCEPT !.m_server_max_window_bits = Window(bits, @, s.server_mode)])
    [] name = "client_max_window_bits" ->
         IF value # Empty /\ bits \notin 8..15
         THEN refused([s EXCEPT !.m_client_max_window_bits = 15])
         ELSE done([s EXCEPT !.m_client_max_window_bits =
                      Window(IF value = Empty THEN 15 ELSE bits, @, s.client_mode)])
    [] OTHER -> refused(s)

negotiate(s, list) ==
  LET present == SelectSeq(Attributes, LAMBDA name : name \in DOMAIN list)
      r == FoldLeft(LAMBDA acc, name : IF acc.ec THEN acc
                                       ELSE Applied(acc.settings, name, list[name]),
                    [ec |-> FALSE, settings |-> s], present) IN
  IF r.ec THEN r ELSE [r EXCEPT !.settings.m_enabled = TRUE]

\* init(): zlib takes windows of 9 to 15 bits.
init(s) == IF {s.m_server_max_window_bits, s.m_client_max_window_bits} \subseteq 9..15
           THEN [s EXCEPT !.m_initialized = TRUE] ELSE s

\* negotiate_extensions_helper: the first list that is accepted counts.
negotiate_extensions(s, lists) ==
  FoldLeft(LAMBDA acc, list :
             IF acc.settings.m_enabled THEN acc
             ELSE LET r == negotiate(acc.settings, list) IN
                  [settings |-> IF r.ec THEN r.settings ELSE init(r.settings),
                   accepted |-> IF r.ec THEN acc.accepted ELSE <<list>>],
           [settings |-> s, accepted |-> <<>>], lists)

generate_response(s) ==
  LET present ==
        (IF s.m_server_no_context_takeover THEN {"server_no_context_takeover"} ELSE {})
          \cup (IF s.m_client_no_context_takeover THEN {"client_no_context_takeover"} ELSE {})
          \cup (IF s.m_server_max_window_bits < 15 THEN {"server_max_window_bits"} ELSE {})
          \cup (IF s.m_client_max_window_bits < 15 THEN {"client_max_window_bits"} ELSE {}) IN
  [name \in present |-> CASE name = "server_max_window_bits" -> s.m_server_max_window_bits
                          [] name = "client_max_window_bits" -> s.m_client_max_window_bits
                          [] OTHER -> Empty]

-----------------------------------------------------------------------------
(* The handshake.                                                          *)

\* client_handshake_request.
ClientRequest ==
  /\ n.request = <<>>
  /\ n' = [n EXCEPT !.request =
       <<[stranger |-> FALSE, method |-> "GET", http11 |-> TRUE, upgrade |-> TRUE,
          connection |-> TRUE, version |-> "13", key |-> "key", keys00 |-> FALSE,
          uri_valid |-> TRUE, protocols |-> n.requested, protocols_ok |-> TRUE,
          offers |-> <<generate_offer>>]>>]

\* A stranger is there instead of the library's client, which has no settings.
StrangerRequest ==
  /\ n.request = <<>> /\ n.deflate["client"] = Fresh /\ n.requested = <<>>
  /\ \E r \in StrangerRequests : n' = [n EXCEPT !.request = <<r>>]

is_websocket_handshake(r) == r.upgrade /\ r.connection

\* A request without the version header is read as draft 00, and text that is no
\* number as no version at all.
get_websocket_version(r) ==
  CASE r.version = "" -> 0
    [] r.version \in DOMAIN Numerals -> Numerals[r.version]
    [] OTHER -> -1

\* Whether get_processor makes one for the version.
get_processor(version) == version \in {0, 7, 8, 13}

initialize_processor(r) ==
  LET version == get_websocket_version(r) IN
  ~is_websocket_handshake(r) \/ (version >= 0 /\ get_processor(version))

Draft00(r) == get_websocket_version(r) = 0

\* A list that cannot be parsed asks for nothing.
extract_subprotocols(r) == IF r.protocols_ok THEN Range(r.protocols) ELSE {}

\* select_subprotocol takes only what the client asked for.
select_subprotocol(r, value) == IF value \in extract_subprotocols(r) THEN value ELSE ""

validate_handshake(r) ==
  /\ r.method = "GET" /\ r.http11
  /\ IF Draft00(r) THEN r.keys00 ELSE r.key # ""

process_handshake_key(key) == <<"sha1", key>>
AcceptOf(r) == IF Draft00(r) THEN <<"md5", "key3">> ELSE process_handshake_key(r.key)

Reply(status, settings, accept, subprotocol) ==
  [status |-> status, upgrade |-> status = 101, connection |-> status = 101,
   accept |-> accept, subprotocol |-> subprotocol, stranger |-> FALSE,
   extensions |-> IF settings.m_enabled THEN <<generate_response(settings)>> ELSE <<>>]

Refuses(r) == \/ ~is_websocket_handshake(r) \/ ~initialize_processor(r)
              \/ ~validate_handshake(r) \/ ~r.uri_valid

\* initialize_processor and process_handshake_request; the validate handler
\* may select a subprotocol, or refuse.  Draft 00 negotiates no extensions.
ServerAnswers(choice, validates) ==
  /\ n.request # <<>> /\ n.response = <<>>
  /\ LET r == n.request[1]
         neg == negotiate_extensions(n.deflate["server"],
                                     IF Draft00(r) THEN <<>> ELSE r.offers)
         selected == select_subprotocol(r, choice) IN
     n' = IF Refuses(r)
          THEN [n EXCEPT !.response = <<Reply(400, n.deflate["server"], <<>>, "")>>]
          ELSE IF ~validates
          THEN [n EXCEPT !.response = <<Reply(400, neg.settings, <<>>, "")>>,
                         !.deflate["server"] = neg.settings]
          ELSE [n EXCEPT !.deflate["server"] = neg.settings, !.accepted = neg.accepted,
                         !.m_subprotocol["server"] = selected,
                         !.response = <<Reply(101, neg.settings, AcceptOf(r), selected)>>]

StrangerAnswers ==
  /\ n.request # <<>> /\ n.response = <<>> /\ ~n.request[1].stranger
  /\ n.deflate["server"] = Fresh
  /\ \E r \in StrangerResponses : n' = [n EXCEPT !.response = <<r>>]

\* validate_server_handshake_response, then the extensions.  A response whose
\* extensions are refused is left to WsppConnection.
ClientValidates ==
  /\ n.client = "connecting" /\ n.response # <<>> /\ ~n.request[1].stranger
  /\ LET r == n.response[1]
         neg == negotiate_extensions(n.deflate["client"], r.extensions) IN
     n' = IF /\ r.status = 101 /\ r.upgrade /\ r.connection
             /\ r.accept = process_handshake_key(n.request[1].key)
          THEN [n EXCEPT !.client = "open", !.deflate["client"] = neg.settings]
          ELSE [n EXCEPT !.client = "failed"]

NegotiationNext ==
  \/ \E x \in Ends, bits \in WindowBits, mode \in Modes :
       SetServerMaxWindowBits(x, bits, mode) \/ SetClientMaxWindowBits(x, bits, mode)
  \/ \E x \in Ends : EnableServerNoContextTakeover(x) \/ EnableClientNoContextTakeover(x)
  \/ \E value \in Subprotocols : add_subprotocol(value)
  \/ ClientRequest \/ StrangerRequest
  \/ \E choice \in Subprotocols \cup {""}, validates \in BOOLEAN :
       ServerAnswers(choice, validates)
  \/ StrangerAnswers
  \/ ClientValidates

-----------------------------------------------------------------------------
\* The library's client as its fixed offer assumes it: it has not limited the
\* server's window and accepts what is said of its own.
Plain(s) == ~n.limited /\ s.server_mode = "accept" /\ s.client_mode # "decline"

WindowOf(x, compressor) ==
  IF compressor = "server" THEN n.deflate[x].m_server_max_window_bits
                           ELSE n.deflate[x].m_client_max_window_bits

\* Neither end compresses with a window the other cannot inflate: with a client
\* of the library, over any settings of the server; with a stranger, the one its
\* accepted offer asked for, unless the server declines.  zlib is never asked
\* for a window it refuses, whatever the peer wrote and whichever offers failed
\* before the one that was accepted.
WindowsFit ==
  /\ n.client = "open" /\ ~n.response[1].stranger /\ Plain(n.deflate["client"]) =>
       /\ n.deflate["client"].m_enabled = n.deflate["server"].m_enabled
       /\ WindowOf("server", "server") <= WindowOf("client", "server")
       /\ WindowOf("client", "client") <= WindowOf("server", "client")
  /\ \A offer \in Range(n.accepted) :
       "server_max_window_bits" \in DOMAIN offer /\ n.deflate["server"].server_mode # "decline"
         => WindowOf("server", "server") <= Widened(offer["server_max_window_bits"] % 256)
  /\ \A x \in Ends : n.deflate[x].m_enabled => n.deflate[x].m_initialized
=============================================================================
