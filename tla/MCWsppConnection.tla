--------------------------- MODULE MCWsppConnection ---------------------------
(***************************************************************************)
(* The websocketpp connection with one text body from the peer and two     *)
(* payloads of the application.                                            *)
(***************************************************************************)
EXTENDS WsppConnection
=============================================================================
