-------------------------- MODULE MCWebSocketClient --------------------------
(***************************************************************************)
(* Instances of WebSocketClient for TLC: the bodies a peer sends.          *)
(***************************************************************************)
EXTENDS WebSocketClient

Upload(n)   == [message |-> "source_upload", name |-> n]
UserUpload(n) == [message |-> "user_upload", name |-> n]

\* Uploads of either kind, an object that is none, and JSON that throws.
MixedBodies == {Upload("a"), UserUpload("b"), [message |-> "other", name |-> "a"],
                [message |-> "throws", name |-> "a"]}

UploadBodies == {Upload("a")}
=============================================================================
