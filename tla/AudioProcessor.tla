--------------------------- MODULE AudioProcessor ---------------------------
(***************************************************************************)
(* main() of absolute_agony.cpp with the AudioFileParse, FFTProcessor and  *)
(* AudioUploader objects it drives, on the main thread, over               *)
(* WebSocketClient and the connection below it.                            *)
(*                                                                         *)
(* pc is the statement main() is at; a step that begins a call of the      *)
(* client leaves main_pc inside the call, and the next statement waits for *)
(* main_pc = "idle".  Audio is abstracted to where it came from:           *)
(* m_sampleStorage is a sequence with one entry per stored chunk, naming   *)
(* the object the chunk was cut from, and ProductChunks is                 *)
(* productDurationSamples counted in chunks.                               *)
(*                                                                         *)
(* The server is what main() takes it to be: it answers a run_function or  *)
(* a source_ready that reached it with one upload message, the i-th answer *)
(* naming Sources[i].  Unsolicited bounds the user_upload messages it      *)
(* sends without being asked.                                              *)
(***************************************************************************)
EXTENDS WebSocketClient, FiniteSets

CONSTANTS
  Sources,        \* the object names the server announces, in order
  Channels,       \* channel count of each audio file
  MaxChunks,      \* chunks in one audio file
  ProductChunks,
  MaxRounds,      \* bound: turns of main()'s while loop
  Unsolicited,    \* bound: unasked-for user_upload messages
  Closes          \* bound: close frames the server sends

\* What temp_audio.mp3 may hold besides an object of this execution: that of an
\* earlier one, or bytes a failed write left that are no audio file.
Leftover   == "leftover"
Unreadable == "unreadable"
Absent     == "absent"    \* no such file; no audio

ASSUME ProgramAssumption ==
  /\ Sources \in Seq(Names) /\ MaxRounds <= Len(Sources)
  /\ [message : {"source_upload", "user_upload"}, name : Names] \subseteq Bodies
  /\ {"user_id", "source_ready", "run_function", "sampledinfinite",
      "finish_now"} \subseteq Data
  /\ {Leftover, Unreadable, Absent} \cap Names = {}
  /\ Channels \in [Names \cup {Leftover} -> Nat]
  /\ {MaxChunks, ProductChunks, MaxRounds, Unsolicited, Closes} \subseteq Nat

VARIABLES
  env,              \* MY_WEBSOCKET_URI and MY_CONTROL_SOURCE
  pc,
  rounds,           \* requests for audio made so far
  object_key,       \* the name passed to downloadAudioFileFromS3
  temp_audio,       \* what temp_audio.mp3 holds
  m_audioData,      \* the parser's audio: where it came from, or Absent
  m_sampleStorage,
  bucket,           \* the products PutObject stored, in order
  download_failed,  \* history: some download left temp_audio.mp3 as it was
  replies,          \* uploads the server sent as answers
  unsolicited       \* and without being asked

progVars == <<env, pc, rounds, object_key, temp_audio, m_audioData,
              m_sampleStorage, bucket, download_failed, replies, unsolicited>>
allVars  == <<vars, progVars>>

Requests == {"run_function", "source_ready"}

ProgInit ==
  /\ Init
  /\ env \in [uri : {"unset", "invalid", "valid"},
              control_source : {"unset", "user_source", "other"}]
  /\ pc = "start"
  /\ rounds = 0 /\ object_key = NoName
  /\ temp_audio \in {Absent, Leftover}
  /\ m_audioData = Absent /\ m_sampleStorage = <<>>
  /\ bucket = <<>> /\ download_failed = FALSE
  /\ replies = 0 /\ unsolicited = 0

UserPath == env.control_source = "user_source"

\* main() is at statement p, its last call of the client has returned.
At(p) == pc = p /\ main_pc = "idle"

fileVars   == <<object_key, temp_audio, m_audioData, download_failed>>
serverVars == <<replies, unsolicited>>

\* main() goes on to statement p and nothing else of it changes.
GoTo(p) == /\ pc' = p
           /\ UNCHANGED <<env, rounds, fileVars, m_sampleStorage, bucket, serverVars>>

-----------------------------------------------------------------------------
(* Start: environment, connection, identification.                         *)

NoUri == At("start") /\ env.uri = "unset" /\ GoTo("exited") /\ UNCHANGED vars

\* connect()'s result is not looked at.
ConnectFails ==
  At("start") /\ env.uri = "invalid" /\ GoTo("wait_connection") /\ UNCHANGED vars

Connects ==
  At("start") /\ env.uri = "valid" /\ ClientConnect /\ GoTo("wait_connection")

WaitForConnection ==
  /\ At("wait_connection") /\ connected
  /\ GoTo(IF env.control_source = "unset" THEN "return" ELSE "say_user_id")
  /\ UNCHANGED vars

\* ws.send_message; when it refuses, main() goes on all the same.
Say(msg, next) ==
  /\ SendMessage(msg) \/ (~CanSend /\ UNCHANGED vars)
  /\ GoTo(next)

SayUserId ==
  At("say_user_id") /\ Say("user_id", IF UserPath THEN "say_source_ready" ELSE "while")

-----------------------------------------------------------------------------
(* One request for audio: the whole user_source path, or one turn of the   *)
(* while loop.                                                             *)

Request(msg) ==
  /\ SendMessage(msg) \/ (~CanSend /\ UNCHANGED vars)
  /\ pc' = "wait_audio"
  /\ rounds' = rounds + 1
  /\ UNCHANGED <<env, fileVars, m_sampleStorage, bucket, serverVars>>

SaySourceReady == At("say_source_ready") /\ Request("source_ready")

\* Mutant: the loop asks for audio when it has just enough.
SayRunFunctionOnceMore ==
  /\ At("while") /\ Len(m_sampleStorage) <= ProductChunks
  /\ rounds < MaxRounds
  /\ Request("run_function")

SayRunFunction ==
  /\ At("while") /\ Len(m_sampleStorage) < ProductChunks
  /\ rounds < MaxRounds
  /\ Request("run_function")

LoopExits ==
  /\ At("while") /\ Len(m_sampleStorage) >= ProductChunks
  /\ GoTo("stop") /\ UNCHANGED vars

WaitForAudio == At("wait_audio") /\ WaitForCondition /\ GoTo("get_name")

\* A new parser, and the copy of get_audio_source_name()'s string.
GetName ==
  /\ At("get_name")
  /\ object_key' = audio_source_name
  /\ m_audioData' = Absent
  /\ pc' = "download"
  /\ UNCHANGED <<vars, env, rounds, temp_audio, m_sampleStorage, bucket,
                 download_failed, serverVars>>

\* Mutant: the object's bytes do not reach temp_audio.mp3.
DownloadKeepsFile ==
  /\ At("download")
  /\ \/ /\ object_key \in Names
        /\ temp_audio' = temp_audio
        /\ UNCHANGED download_failed
     \/ /\ download_failed' = TRUE
        /\ UNCHANGED temp_audio
  /\ pc' = "read"
  /\ UNCHANGED <<vars, env, rounds, object_key, m_audioData, m_sampleStorage,
                 bucket, serverVars>>

\* GetObject may succeed for a name the server announced, and then the file is
\* opened and written, with no check of either: it may be cut short.  When
\* GetObject or the open fails the file stays as it was, and main() does not
\* look at the result.
Download ==
  /\ At("download")
  /\ \/ /\ object_key \in Names
        /\ temp_audio' \in {object_key, Unreadable}
        /\ UNCHANGED download_failed
     \/ /\ download_failed' = TRUE
        /\ UNCHANGED temp_audio
  /\ pc' = "read"
  /\ UNCHANGED <<vars, env, rounds, object_key, m_audioData, m_sampleStorage,
                 bucket, serverVars>>

\* After an open that failed, file_size() throws when there is no file.
DownloadThrows ==
  /\ At("download") /\ object_key \in Names /\ temp_audio = Absent
  /\ MainDies
  /\ UNCHANGED progVars

Playable == Names \cup {Leftover}

\* readAudioFileAsMono keeps the audio only of a stereo file, unless libsndfile
\* refuses it; the mono branch returns a vector that main() drops.
ReadAudio ==
  /\ At("read")
  /\ \/ m_audioData' = Absent
     \/ /\ temp_audio \in Playable /\ Channels[temp_audio] = 2
        /\ m_audioData' = temp_audio
  /\ pc' = "compute"
  /\ UNCHANGED <<vars, env, rounds, object_key, temp_audio, m_sampleStorage,
                 bucket, download_failed, serverVars>>

\* With three channels or more the function ends without a return statement,
\* and main() destroys a vector that was never constructed: it may crash.
ReadCrashes ==
  /\ At("read") /\ temp_audio \in Playable /\ Channels[temp_audio] > 2
  /\ MainDies
  /\ UNCHANGED progVars

\* Mutant: audio without samples has chunks too.
ComputeEmpty ==
  /\ At("compute")
  /\ \E stored \in 0..MaxChunks :
       m_sampleStorage' = m_sampleStorage \o [i \in 1..stored |-> m_audioData]
  /\ pc' = IF UserPath \/ Len(m_sampleStorage') >= ProductChunks
           THEN "upload" ELSE "reset"
  /\ UNCHANGED <<vars, env, rounds, fileVars, bucket, serverVars>>

\* compute(..., false) appends the chunks that are prominent, any of them; the
\* random path uploads only a product that is long enough.
Compute ==
  /\ At("compute")
  /\ \E stored \in 0..(IF m_audioData = Absent THEN 0 ELSE MaxChunks) :
       m_sampleStorage' = m_sampleStorage \o [i \in 1..stored |-> m_audioData]
  /\ pc' = IF UserPath \/ Len(m_sampleStorage') >= ProductChunks
           THEN "upload" ELSE "reset"
  /\ UNCHANGED <<vars, env, rounds, fileVars, bucket, serverVars>>

-----------------------------------------------------------------------------
(* uploadIfReady, whose result main() does not look at, and the end.       *)

\* The file is written, perhaps short, and PutObject stores it.
Upload ==
  /\ At("upload")
  /\ \E n \in 0..Len(m_sampleStorage) :
       bucket' = Append(bucket, SubSeq(m_sampleStorage, 1, n))
  /\ pc' = "say_sampledinfinite"
  /\ UNCHANGED <<vars, env, rounds, fileVars, m_sampleStorage, serverVars>>

\* Mutant: the outcome of PutObject is not looked at.
UploadFailureIgnored == At("upload") /\ GoTo("say_sampledinfinite") /\ UNCHANGED vars

\* The file cannot be written or opened, or PutObject reports an error.
UploadFails == At("upload") /\ GoTo("reset") /\ UNCHANGED vars

\* Mutant: the server is told of the end first.
SayFinishNowFirst == At("say_sampledinfinite") /\ Say("finish_now", "say_finish_now")

SaySampledinfinite == At("say_sampledinfinite") /\ Say("sampledinfinite", "say_finish_now")

SayFinishNow == At("say_finish_now") /\ Say("finish_now", "wait_notified")

WaitNotified == At("wait_notified") /\ WaitForCondition /\ GoTo("reset")

\* Mutant: the condition is not reset.
ResetForgotten ==
  At("reset") /\ UNCHANGED vars /\ GoTo(IF UserPath THEN "stop" ELSE "while")

ResetForNext ==
  At("reset") /\ ResetCondition /\ GoTo(IF UserPath THEN "stop" ELSE "while")

\* Mutant: main() returns without ws.stop().
StopForgotten == At("stop") /\ UNCHANGED vars /\ GoTo("return")

StopClient == At("stop") /\ ClientStop /\ GoTo("return")

\* main() returns: the destructor of ws joins the thread.
ReturnFromMain == At("return") /\ Destroy /\ GoTo("returning")

Exit ==
  /\ pc = "returning" /\ main_pc = "destroyed"
  /\ GoTo("exited") /\ UNCHANGED vars

Program ==
  \/ NoUri \/ ConnectFails \/ Connects \/ WaitForConnection \/ SayUserId
  \/ SaySourceReady \/ SayRunFunction \/ LoopExits
  \/ WaitForAudio \/ GetName \/ Download \/ DownloadThrows
  \/ ReadAudio \/ ReadCrashes \/ Compute
  \/ Upload \/ UploadFails \/ SaySampledinfinite \/ SayFinishNow \/ WaitNotified
  \/ ResetForNext \/ StopClient \/ ReturnFromMain \/ Exit

-----------------------------------------------------------------------------
(* The server.                                                             *)

RequestsIn(q) == {i \in 1..Len(q) : q[i] \in Requests}

RequestsReceived == Cardinality(RequestsIn(wire))

Text(kind, name) == [op |-> "text", body |-> [message |-> kind, name |-> name]]

unchangedByServer == <<clientVars, env, pc, rounds, fileVars, m_sampleStorage, bucket>>

ServerReplies ==
  /\ replies < RequestsReceived /\ replies < Len(Sources)
  /\ PeerSends(Text(IF UserPath THEN "user_upload" ELSE "source_upload",
                    Sources[replies + 1]))
  /\ replies' = replies + 1
  /\ UNCHANGED <<unchangedByServer, unsolicited>>

ServerAnnouncesUnasked ==
  /\ unsolicited < Unsolicited
  /\ \E name \in Names : PeerSends(Text("user_upload", name))
  /\ unsolicited' = unsolicited + 1
  /\ UNCHANGED <<unchangedByServer, replies>>

ServerCloses ==
  /\ arrivals - replies - unsolicited < Closes
  /\ PeerSends([op |-> "close"])
  /\ UNCHANGED <<unchangedByServer, serverVars>>

Server == ServerReplies \/ ServerAnnouncesUnasked \/ ServerCloses

ProgNext ==
  /\ process = "up"
  /\ \/ (Transport \/ Handler \/ MainInCall \/ SpuriousWakeup) /\ UNCHANGED progVars
     \/ Program
     \/ Server

\* Both threads run, and the server answers what it receives.  Nothing obliges
\* it to close, to stay up, or to have accepted the connection.
ProgFairness ==
  /\ WF_allVars(InLoop(WriteFrame) /\ UNCHANGED progVars)
  /\ WF_allVars(InLoop(WriteOk \/ WriteError) /\ UNCHANGED progVars)
  /\ WF_allVars(InLoop(OpenOk \/ OpenBadExtensions \/ OpenFail) /\ UNCHANGED progVars)
  /\ WF_allVars(InLoop(ReadCompletes) /\ UNCHANGED progVars)
  /\ WF_allVars(InLoop(~socket_up /\ ReadError) /\ UNCHANGED progVars)
  /\ WF_allVars(InLoop(ReadText \/ ReadPing \/ ReadClose \/ ReadInvalid)
                /\ UNCHANGED progVars)
  /\ WF_allVars(InLoop(CloseTimeout) /\ UNCHANGED progVars)
  /\ WF_allVars(InLoop(HandleTerminate) /\ UNCHANGED progVars)
  /\ WF_allVars(InLoop(LoopReturns) /\ UNCHANGED progVars)
  /\ WF_allVars(process = "up" /\ Handler /\ UNCHANGED progVars)
  /\ SF_allVars(process = "up" /\ OnMessageLock /\ UNCHANGED progVars)
  /\ WF_allVars(process = "up" /\ MainInCall /\ UNCHANGED progVars)
  /\ WF_allVars(process = "up" /\ Program)
  /\ WF_allVars(process = "up" /\ ServerReplies)

ProgSafety == ProgInit /\ [][ProgNext]_allVars

ProgSpec == ProgSafety /\ ProgFairness

-----------------------------------------------------------------------------
PCs == {"start", "wait_connection", "say_user_id", "say_source_ready", "while",
        "wait_audio", "get_name", "download", "read", "compute", "upload",
        "say_sampledinfinite", "say_finish_now", "wait_notified", "reset", "stop",
        "return", "returning", "exited"}

Files == Playable \cup {Unreadable, Absent}

ProgTypeOK ==
  /\ TypeOK
  /\ env \in [uri : {"unset", "invalid", "valid"},
              control_source : {"unset", "user_source", "other"}]
  /\ pc \in PCs
  /\ rounds \in Nat
  /\ object_key \in Names \cup {NoName, Torn}
  /\ temp_audio \in Files
  /\ m_audioData \in Playable \cup {Absent}
  /\ m_sampleStorage \in Seq(Playable)
  /\ bucket \in Seq(Seq(Playable))
  /\ download_failed \in BOOLEAN
  /\ replies \in 0..Len(Sources)
  /\ unsolicited \in 0..Unsolicited

\* While the server only answers, the name main() reads after its wait is whole
\* and is the answer to its latest request: no answer is lost to the reset, none
\* is taken twice, and none is written while it is read.  get_audio_source_name
\* takes no lock; this is what stands in for one.
AnswersInStep ==
  pc = "download" /\ unsolicited = 0 => object_key = Sources[rounds]

\* Every stored chunk comes from an object announced to this execution, in the
\* order of the announcements, as long as every download replaced the file.
Provenance ==
  ~download_failed /\ unsolicited = 0 =>
    \A i \in 1..Len(m_sampleStorage) :
      \E k \in 1..rounds :
        /\ m_sampleStorage[i] = Sources[k]
        /\ \A j \in (i + 1)..Len(m_sampleStorage) :
             \E l \in k..rounds : m_sampleStorage[j] = Sources[l]

\* One execution stores at most one product: the loop's condition and the test
\* before uploadIfReady agree on when the product is long enough.
OneProduct == Len(bucket) <= 1

\* The server hears of a product only when the bucket has one.
NoFalseAnnouncement ==
  \A i \in 1..Len(wire) :
    wire[i] \in {"sampledinfinite", "finish_now"} => bucket # <<>>

\* The wait in notifyWebSocket cannot block main(): the condition of the answer
\* that led to the product is still set.  The server does not answer finish_now,
\* so main() would otherwise never return.
NotifyDoesNotBlock == pc = "reset" /\ main_pc \in Waiting => condition_met

\* The messages queued for the server follow the protocol, also when sends are
\* refused in between: InOrder makes what the server receives a prefix of them.
DataUpTo(q) ==
  LET upTo[n \in 0..Len(q)] ==
        IF n = 0 THEN <<>>
        ELSE IF q[n] \in Data THEN Append(upTo[n - 1], q[n]) ELSE upTo[n - 1]
  IN  upTo

DataIn(q) == DataUpTo(q)[Len(q)]

Protocol == INSTANCE SessionProtocol WITH said <- DataIn(pushed)

SpeaksProtocol == Protocol!ProtocolSpec

\* An execution whose connection opens and stays ends, however the chunks turn
\* out: main() returns unless the product never gets long enough (MaxRounds) or
\* the process dies.  With no MY_CONTROL_SOURCE main() ends only with the
\* connection, since nothing stops the loop it then joins.
Completes ==
  env.uri = "valid" /\ env.control_source # "unset" ~>
    \/ pc = "exited" \/ process = "aborted" \/ m_state = "closed"
    \/ pc = "while" /\ rounds = MaxRounds

\* absolute_agony.cpp:223: "Wait until 'source_upload' message is received".
WaitsForSourceUpload == pc = "download" /\ ~UserPath => replies >= rounds

\* absolute_agony.cpp:156-157: "PAUSE EXECUTION UNTIL AUDIO RECEIVED", "PARSE
\* AUDIO": what is analysed is the audio that was announced, or none.
ParsesReceivedAudio ==
  pc = "compute" /\ UserPath => m_audioData \in {object_key, Absent}

\* absolute_agony.cpp:158-159: "SEND FINISHED AUDIO TO WEBSOCKET SERVER", then
\* "CLEANUP/FINISH": when main() finishes the server was told of the product.
SendsFinishedAudio ==
  pc = "exited" /\ UserPath /\ env.uri = "valid" =>
    \E i \in 1..Len(wire) : wire[i] = "sampledinfinite"
=============================================================================
