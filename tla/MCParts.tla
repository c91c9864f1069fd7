----------------------------- MODULE MCParts ------------------------------
(***************************************************************************)
(* The parts that keep no state in common with the others, each explored   *)
(* on its own in one state space: part says which one a behaviour is of.   *)
(***************************************************************************)
EXTENDS ServerHandshake, AsioEndpoint, ConnectionControls, FrameCodec, Hybi13,
        IostreamTransport, Negotiation, HttpParser, HandshakeText, Hybi00, Closing,
        AudioChunks

VARIABLE part

Parts == {"handshake", "endpoint", "controls", "utf8", "codec", "hybi13",
          "iostream in", "iostream out", "negotiation", "http", "text",
          "hybi00", "closing", "audio"}

-----------------------------------------------------------------------------
(* hybi13: whole, fragmented, interleaved and wrong frames.                *)

MCFrame(op, fin, bytes) ==
  [op |-> op, fin |-> fin, rsv1 |-> FALSE, rsv23 |-> FALSE, masked |-> FALSE,
   form |-> LengthForm(Len(bytes)), size |-> Len(bytes), bytes |-> bytes]

MCUnmasked ==
  {MCFrame("text", FALSE, <<97, 194>>), MCFrame("text", TRUE, <<194>>),
   MCFrame("cont", TRUE, <<128>>), MCFrame("cont", TRUE, <<>>),
   MCFrame("binary", FALSE, <<255, 97, 97>>),
   MCFrame("ping", TRUE, <<97>>), MCFrame("ping", FALSE, <<>>),
   MCFrame("reserved", TRUE, <<>>), MCFrame("close", TRUE, <<97, 97, 97>>),
   [MCFrame("binary", TRUE, <<97>>) EXCEPT !.rsv1 = TRUE],
   [MCFrame("binary", TRUE, <<97>>) EXCEPT !.form = "16"],
   [MCFrame("cont", TRUE, <<97, 97, 97, 97, 97>>) EXCEPT !.form = "64",
                                                         !.size = WordSize - 1]}
\* A peer of a server masks: what changes a key's phase, or has another's.
MCMasked == {MCFrame("text", FALSE, <<97, 194>>), MCFrame("cont", TRUE, <<128>>),
             MCFrame("ping", TRUE, <<97>>)}
MCRaw == MCUnmasked \cup {[f EXCEPT !.masked = TRUE] : f \in MCMasked}

MCMessage(op, bytes) == [op |-> op, fin |-> TRUE, bytes |-> bytes]
MCOutgoing ==
  {MCMessage("text", <<97, 97, 97, 97>>), MCMessage("text", <<194>>),
   MCMessage("text", <<194, 128>>), MCMessage("binary", <<255>>),
   MCMessage("ping", <<97, 97, 97>>), MCMessage("close", <<97, 97>>),
   MCMessage("pong", <<>>)}

-----------------------------------------------------------------------------
(* Negotiation: two offers of a compressor, and one fault at a time.       *)

MCOffers ==
  {[server_max_window_bits |-> 8, server_no_context_takeover |-> Empty],
   [server_max_window_bits |-> Empty], [server_max_window_bits |-> 264],
   [client_max_window_bits |-> 10, client_no_context_takeover |-> 1],
   [server_max_window_bits |-> 9, unknown |-> Empty]}

MCRequest ==
  [stranger |-> TRUE, method |-> "GET", http11 |-> TRUE, upgrade |-> TRUE,
   connection |-> TRUE, version |-> "13", key |-> "key", keys00 |-> FALSE,
   uri_valid |-> TRUE, protocols |-> <<"chat">>, protocols_ok |-> TRUE, offers |-> <<>>]
MCRequests ==
  {[MCRequest EXCEPT !.offers = <<first, second>>] :
     first \in MCOffers, second \in MCOffers}
  \cup {[MCRequest EXCEPT !.method = "POST"], [MCRequest EXCEPT !.http11 = FALSE],
        [MCRequest EXCEPT !.upgrade = FALSE], [MCRequest EXCEPT !.connection = FALSE],
        [MCRequest EXCEPT !.version = ""],
        [MCRequest EXCEPT !.version = "", !.keys00 = TRUE],
        [MCRequest EXCEPT !.version = "9"], [MCRequest EXCEPT !.version = "x"],
        [MCRequest EXCEPT !.version = "8"], [MCRequest EXCEPT !.protocols_ok = FALSE],
        [MCRequest EXCEPT !.key = ""], [MCRequest EXCEPT !.uri_valid = FALSE]}

MCResponse ==
  [status |-> 101, upgrade |-> TRUE, connection |-> TRUE, accept |-> <<"sha1", "key">>,
   subprotocol |-> "", stranger |-> TRUE, extensions |-> <<>>]
MCResponses ==
  {[MCResponse EXCEPT !.extensions = <<offer>>] : offer \in MCOffers}
  \cup {[MCResponse EXCEPT !.status = 200], [MCResponse EXCEPT !.upgrade = FALSE],
        [MCResponse EXCEPT !.connection = FALSE],
        [MCResponse EXCEPT !.accept = <<"sha1", "other">>]}

-----------------------------------------------------------------------------
(* HTTP: heads that are whole, too long, malformed, with and without body. *)

MCNl == <<"\r", "\n">>
MCHeads ==
  {<<"start">> \o MCNl \o <<"host">> \o MCNl,
   <<"start", "x">> \o MCNl \o <<"other", "\r">> \o MCNl \o <<"host">> \o MCNl,
   <<"start">> \o MCNl \o <<"host">> \o MCNl \o <<"length2">> \o MCNl,
   <<"start">> \o MCNl \o <<"length0">> \o MCNl \o <<"host">> \o MCNl,
   <<"start">> \o MCNl \o <<"host">> \o MCNl \o <<"length9">> \o MCNl,
   <<"start">> \o MCNl \o <<"bad">> \o MCNl, <<"host">> \o MCNl, <<>>,
   <<"start">> \o MCNl \o <<"other", "x", "x", "x", "x", "x", "x", "x">>
     \o MCNl \o <<"host">> \o MCNl}
MCStreams == {head \o MCNl \o rest :
                head \in MCHeads, rest \in {<<"x", "x", "x">>, MCNl \o <<"x">>}}

-----------------------------------------------------------------------------
(* Quoted values with the grammar's own characters; control notes below,   *)
(* in and above the three bins of a chunk of four samples.                 *)

MCQuoted == {<<>>, <<",">>, <<"\"", ";">>}
MCBins == {-1, 1, 3}

-----------------------------------------------------------------------------
(* hybi00 and the closing handshake.                                       *)

MCChallenges == {[number |-> 0, spaces |-> 1], [number |-> 7, spaces |-> 2],
                 [number |-> 12, spaces |-> 1]}
MCPayloads == {[op |-> "text", bytes |-> <<>>], [op |-> "text", bytes |-> <<194, 128>>],
               [op |-> "text", bytes |-> <<97, 255, 0>>],
               [op |-> "binary", bytes |-> <<97>>]}

MCClose == {[code |-> blank, reason |-> <<>>],
            [code |-> protocol_error, reason |-> <<97, 194, 128>>],
            [code |-> 1016, reason |-> <<>>]}
MCStrange == {<<>>, <<3>>, <<3, 236>>, <<3, 232, 97>>, <<3, 233, 255>>}

-----------------------------------------------------------------------------
\* A part that is not explored has one initial state.
PartsInit ==
  /\ part \in Parts
  /\ OpeningInit /\ EndpointInit /\ ControlsInit /\ Utf8Init /\ CodecInit
  /\ Hybi13Init /\ IostreamInit /\ NegotiationInit /\ HttpInit /\ TextInit
  /\ Hybi00Init /\ (part = "hybi00" \/ h.challenge.number = 0)
  /\ ChunksInit /\ ClosingInit
  /\ part = "closing" \/ ~(k.stranger \/ k.silent_close \/ k.drop_on_protocol_error)

\* Bound: what is read shares only the stage with what is sent and the challenge,
\* so a client that writes more than two bytes hid the zero and is sent nothing.
NotBoth00 == Len(h'.stream) <= 2 \/ (h'.sent = <<>> /\ h'.challenge.number = 0)

\* The others keep their state.
Alone ==
  /\ UNCHANGED part
  /\ IF part = "handshake" THEN TRUE ELSE UNCHANGED c
  /\ IF part = "endpoint" THEN TRUE ELSE UNCHANGED e
  /\ IF part = "controls" THEN TRUE ELSE UNCHANGED controlVars
  /\ IF part = "utf8" THEN TRUE ELSE UNCHANGED utf8
  /\ IF part = "codec" THEN TRUE ELSE UNCHANGED codec
  /\ IF part = "hybi13" THEN TRUE ELSE UNCHANGED p
  /\ IF part \in {"iostream in", "iostream out"} THEN TRUE ELSE UNCHANGED io
  /\ IF part = "negotiation" THEN TRUE ELSE UNCHANGED n
  /\ IF part = "http" THEN TRUE ELSE UNCHANGED http
  /\ IF part = "text" THEN TRUE ELSE UNCHANGED txt
  /\ IF part = "hybi00" THEN TRUE ELSE UNCHANGED h
  /\ IF part = "closing" THEN TRUE ELSE UNCHANGED k
  /\ IF part = "audio" THEN TRUE ELSE UNCHANGED fft

PartsNext ==
  \/ part = "handshake" /\ HandshakeNext /\ Alone
  \/ part = "endpoint" /\ EndpointNext /\ Alone
  \/ part = "controls" /\ ControlsNext /\ Alone
  \/ part = "utf8" /\ Feed /\ Alone
  \/ part = "codec" /\ CodecNext /\ Alone
  \/ part = "hybi13" /\ Hybi13Next /\ Alone
  \/ part = "iostream in" /\ IostreamInput /\ Alone
  \/ part = "iostream out" /\ IostreamOutput /\ Alone
  \/ part = "negotiation" /\ NegotiationNext /\ Alone
  \/ part = "http" /\ HttpNext /\ Alone
  \/ part = "text" /\ TextNext /\ Alone
  \/ part = "hybi00" /\ Hybi00Next /\ NotBoth00 /\ Alone
  \/ part = "closing" /\ ClosingNext /\ Alone
  \/ part = "audio" /\ ChunksNext /\ Alone

partsVars == <<part, c, e, controlVars, utf8, codec, p, io, n, http, txt, h, k,
             fft>>

\* Only the opening handshake promises that something happens: its fairness,
\* asked of the behaviours that are its own.
OfHandshake(A) == part = "handshake" /\ A
PartsFairness ==
  /\ WF_c(OfHandshake(Handlers)) /\ WF_c(OfHandshake(TimerHandlers))
  /\ \A t \in Timers : WF_c(OfHandshake(Expires(t)))
  /\ WF_c(OfHandshake(ServerHandlers)) /\ WF_c(OfHandshake(WriteDeferredResponse))

PartsSpec == PartsInit /\ [][PartsNext]_partsVars /\ PartsFairness
=============================================================================
