-------------------------- MODULE MCAudioProcessor --------------------------
(***************************************************************************)
(* Instances of AudioProcessor for TLC: the server's objects, their        *)
(* channel counts and the bodies it may send.                              *)
(***************************************************************************)
EXTENDS AudioProcessor

ProgramData == {"user_id", "source_ready", "run_function", "sampledinfinite",
                "finish_now"}

AllBodies == [message : {"source_upload", "user_upload"}, name : Names]

TwoSources == <<"src1", "src2">>

StereoFiles == [name \in Names \cup {Leftover} |-> 2]

\* A mono source, and a file of an earlier execution that libsndfile reads but
\* readAudioFileAsMono does not support.
MixedFiles ==
  [name \in Names \cup {Leftover} |->
     IF name = Leftover THEN 6 ELSE IF name = "src2" THEN 1 ELSE 2]
=============================================================================
