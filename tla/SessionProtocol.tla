--------------------------- MODULE SessionProtocol ---------------------------
(***************************************************************************)
(* The conversation the server is entitled to expect from one execution of *)
(* the program: it identifies its user, then asks for the user's own       *)
(* recording once or for random sources repeatedly, and at the end         *)
(* announces one product and says it is done.  It may fall silent at any   *)
(* point, but it never skips a step or returns to one.                     *)
(***************************************************************************)
EXTENDS Sequences, Naturals

VARIABLE said  \* the messages queued for the server, in order

LastSaid == IF said = <<>> THEN "nothing" ELSE said[Len(said)]

Say(msg, after) == LastSaid \in after /\ said' = Append(said, msg)

ProtocolInit == said = <<>>

ProtocolNext ==
  \/ Say("user_id", {"nothing"})
  \/ Say("source_ready", {"user_id"})
  \/ Say("run_function", {"user_id", "run_function"})
  \/ Say("sampledinfinite", {"source_ready", "run_function"})
  \/ Say("finish_now", {"sampledinfinite"})

ProtocolSpec == ProtocolInit /\ [][ProtocolNext]_said
=============================================================================
