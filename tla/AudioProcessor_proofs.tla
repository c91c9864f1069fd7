----------------------- MODULE AudioProcessor_proofs -----------------------
(***************************************************************************)
(* Proofs about main(): it drives WebSocketClient as that class's          *)
(* specification allows, it keeps its types, it stores at most one         *)
(* product, and the wait inside notifyWebSocket never blocks it; and about *)
(* its conversation with the server: what it says follows SessionProtocol, *)
(* the product it announces exists, each of its requests is paired with    *)
(* its answer, and the product is cut from the audio those answers named.  *)
(***************************************************************************)
EXTENDS AudioProcessor, WebSocketClient_proofs, NatSets

(***************************************************************************)
(* Types of the program's own variables.                                   *)
(***************************************************************************)
ProgVarsOK ==
  /\ env \in [uri : {"unset", "invalid", "valid"},
              control_source : {"unset", "user_source", "other"}]
  /\ pc \in PCs
  /\ rounds \in Nat
  /\ object_key \in Names \cup {NoName, Torn}
  /\ temp_audio \in Files
  /\ m_audioData \in Playable \cup {Absent}
  /\ m_sampleStorage \in Seq(Playable)
  /\ bucket \in Seq(Seq(Playable))
  /\ download_failed \in BOOLEAN
  /\ replies \in 0..Len(Sources)
  /\ unsolicited \in 0..Unsolicited

\* Every source the server announces is a name.
LEMMA SourceName ==
  ASSUME NEW i \in 1..Len(Sources)
  PROVE  Sources[i] \in Names
BY ProgramAssumption, ElementOfSeq

\* What the server sends is a frame of the connection.
LEMMA ServerFrame ==
  ASSUME NEW kind \in {"source_upload", "user_upload"}, NEW name \in Names
  PROVE  Text(kind, name) \in Frames
BY ProgramAssumption DEF Text, Frames

\* What main() says is application data.
LEMMA SaidIsData ==
  {"user_id", "source_ready", "run_function", "sampledinfinite", "finish_now"}
    \subseteq Data
BY ProgramAssumption

-----------------------------------------------------------------------------
(* The program's steps are steps of the client.                            *)

\* Sending is one of the calls the client allows.
LEMMA SendIsCall ==
  ASSUME NEW msg \in Data, SendMessage(msg)
  PROVE  MainCalls
BY DEF MainCalls

\* Every step of the program is a step of the client, or leaves it alone.
LEMMA ProgramStepsClient ==
  ASSUME ProgVarsOK, [ProgNext]_allVars
  PROVE  [Next]_vars
<1> SUFFICES ASSUME ProgNext PROVE Next \/ UNCHANGED vars
  BY DEF allVars
<1>1. CASE (Transport \/ Handler \/ MainInCall \/ SpuriousWakeup) /\ UNCHANGED progVars
  BY <1>1 DEF ProgNext, Next
<1>2. CASE Program
  <2>1. MainCalls \/ UNCHANGED vars
    BY <1>2, SaidIsData, SendIsCall DEF Program, MainCalls, NoUri, ConnectFails, Connects,
       WaitForConnection, SayUserId, Say, SaySourceReady, Request, SayRunFunction,
       LoopExits, WaitForAudio, GetName, Download, DownloadThrows, ReadAudio,
       ReadCrashes, Compute, Upload, UploadFails, SaySampledinfinite, SayFinishNow,
       WaitNotified, ResetForNext, StopClient, ReturnFromMain, Exit
  <2> QED BY <2>1 DEF ProgNext, Next
<1>3. CASE Server
  <2>1. Environment
    <3>1. CASE ServerReplies
      <4>1. replies + 1 \in 1..Len(Sources)
        BY <3>1 DEF ServerReplies, ProgVarsOK
      <4> QED BY <3>1, <4>1, SourceName, ServerFrame
              DEF ServerReplies, Environment, unchangedByServer
    <3>2. CASE ServerAnnouncesUnasked
      BY <3>2, ServerFrame DEF ServerAnnouncesUnasked, Environment, unchangedByServer
    <3>3. CASE ServerCloses
      <4>1. [op |-> "close"] \in Frames
        BY DEF Frames
      <4> QED BY <3>3, <4>1 DEF ServerCloses, Environment, unchangedByServer
    <3> QED BY <1>3, <3>1, <3>2, <3>3 DEF Server
  <2> QED BY <2>1 DEF ProgNext, Next
<1> QED BY <1>1, <1>2, <1>3 DEF ProgNext

-----------------------------------------------------------------------------
\* The types hold at the start.
LEMMA ProgVarsInit == ProgInit => ProgVarsOK
<1> SUFFICES ASSUME ProgInit PROVE ProgVarsOK
  OBVIOUS
<1>1. Len(Sources) \in Nat /\ Unsolicited \in Nat
  BY ProgramAssumption, LenProperties
<1>2. <<>> \in Seq(Playable) /\ <<>> \in Seq(Seq(Playable))
  OBVIOUS
<1>3. m_sampleStorage \in Seq(Playable) /\ bucket \in Seq(Seq(Playable))
  BY <1>2 DEF ProgInit
<1>4. replies \in 0..Len(Sources) /\ unsolicited \in 0..Unsolicited
  BY <1>1 DEF ProgInit
<1>5. temp_audio \in Files /\ m_audioData \in Playable \cup {Absent}
  BY DEF ProgInit, Files, Playable
<1>6. env \in [uri : {"unset", "invalid", "valid"},
               control_source : {"unset", "user_source", "other"}]
  BY DEF ProgInit
<1>7. rounds \in Nat /\ object_key \in Names \cup {NoName, Torn}
      /\ download_failed \in BOOLEAN /\ pc \in PCs
  BY DEF ProgInit, PCs
<1> QED BY <1>3, <1>4, <1>5, <1>6, <1>7 DEF ProgVarsOK

\* Chunks of audio, a product cut from them.
LEMMA StorageGrows ==
  ASSUME NEW s \in Seq(Playable), NEW a \in Playable, NEW n \in Nat
  PROVE  s \o [i \in 1..n |-> a] \in Seq(Playable)
<1>1. [i \in 1..n |-> a] \in Seq(Playable)
  BY IsASeq
<1> QED BY <1>1, ConcatProperties

\* No chunks appended leave the storage as it is.
LEMMA StorageKept ==
  ASSUME NEW s \in Seq(Playable), NEW a
  PROVE  s \o [i \in 1..0 |-> a] = s
<1>1. [i \in 1..0 |-> a] = <<>>
  OBVIOUS
<1> QED BY <1>1, ConcatEmptySeq

\* A product is a prefix of the storage.
LEMMA ProductType ==
  ASSUME NEW s \in Seq(Playable), NEW n \in 0..Len(s)
  PROVE  SubSeq(s, 1, n) \in Seq(Playable)
<1>1. Len(s) \in Nat /\ \A i \in 1..Len(s) : s[i] \in Playable
  BY ElementOfSeq, LenProperties
<1>2. \A i \in 1..n : s[i] \in Playable
  BY <1>1
<1> QED BY <1>1, <1>2, SubSeqProperties

\* The bucket holds products.
LEMMA ProductAdded ==
  ASSUME NEW b \in Seq(Seq(Playable)), NEW s \in Seq(Playable)
  PROVE  Append(b, s) \in Seq(Seq(Playable))
BY AppendProperties

\* No step breaks the types.
LEMMA ProgVarsStep ==
  ASSUME TypeOK, ProgVarsOK, [ProgNext]_allVars
  PROVE  ProgVarsOK'
<1> USE DEF ProgVarsOK
<1>1. CASE UNCHANGED progVars
  BY <1>1 DEF progVars
<1>2. ASSUME NEW p \in PCs, GoTo(p) PROVE ProgVarsOK'
  BY <1>2 DEF GoTo, fileVars, serverVars
<1>3. CASE \/ NoUri \/ ConnectFails \/ Connects \/ WaitForConnection \/ SayUserId
           \/ LoopExits \/ WaitForAudio \/ UploadFails \/ SaySampledinfinite
           \/ SayFinishNow \/ WaitNotified \/ ResetForNext \/ StopClient
           \/ ReturnFromMain \/ Exit
  <2>1. \E p \in PCs : GoTo(p)
    BY <1>3 DEF NoUri, ConnectFails, Connects, WaitForConnection, SayUserId, Say,
       LoopExits, WaitForAudio, UploadFails, SaySampledinfinite, SayFinishNow,
       WaitNotified, ResetForNext, StopClient, ReturnFromMain, Exit, PCs
  <2> QED BY <1>2, <2>1
<1>4. CASE SaySourceReady \/ SayRunFunction
  BY <1>4 DEF SaySourceReady, SayRunFunction, Request, fileVars, serverVars, PCs
<1>5. CASE GetName
  <2>1. audio_source_name \in Names \cup {NoName, Torn}
    BY DEF TypeOK, ClientTypeOK
  <2> QED BY <1>5, <2>1 DEF GetName, serverVars, PCs
<1>6. CASE Download
  BY <1>6 DEF Download, serverVars, PCs, Files, Playable
<1>7. CASE DownloadThrows \/ ReadCrashes
  BY <1>7 DEF DownloadThrows, ReadCrashes, progVars
<1>8. CASE ReadAudio
  BY <1>8 DEF ReadAudio, serverVars, PCs
<1>9. CASE Compute
  <2>1. PICK stored \in 0..(IF m_audioData = Absent THEN 0 ELSE MaxChunks) :
          m_sampleStorage' = m_sampleStorage \o [i \in 1..stored |-> m_audioData]
    BY <1>9 DEF Compute
  <2>2. m_sampleStorage' \in Seq(Playable)
    <3>1. CASE m_audioData = Absent
      <4>1. stored = 0
        BY <2>1, <3>1
      <4> QED BY <2>1, <4>1, StorageKept
    <3>2. CASE m_audioData # Absent
      <4>1. stored \in Nat /\ m_audioData \in Playable
        BY <2>1, <3>2, ProgramAssumption
      <4> QED BY <2>1, <4>1, StorageGrows
    <3> QED BY <3>1, <3>2
  <2>3. pc' \in PCs
    BY <1>9 DEF Compute, PCs
  <2> QED BY <1>9, <2>2, <2>3 DEF Compute, fileVars, serverVars
<1>10. CASE Upload
  <2>1. bucket' \in Seq(Seq(Playable))
    <3>1. PICK n \in 0..Len(m_sampleStorage) :
            bucket' = Append(bucket, SubSeq(m_sampleStorage, 1, n))
      BY <1>10 DEF Upload
    <3> QED BY <3>1, ProductType, ProductAdded
  <2> QED BY <1>10, <2>1 DEF Upload, fileVars, serverVars, PCs
<1>11. CASE Server
  <2>1. Len(Sources) \in Nat /\ Unsolicited \in Nat
    BY ProgramAssumption, LenProperties
  <2> QED BY <1>11, <2>1 DEF Server, ServerReplies, ServerAnnouncesUnasked,
             ServerCloses, unchangedByServer, fileVars, serverVars
<1>12. CASE UNCHANGED allVars
  BY <1>12, <1>1 DEF allVars
<1> QED BY <1>1, <1>3, <1>4, <1>5, <1>6, <1>7, <1>8, <1>9, <1>10, <1>11, <1>12
        DEF ProgNext, Program

\* One step of the program, for the client and for the program's own variables.
LEMMA ProgStepClient ==
  ASSUME Inv, ProgVarsOK, [ProgNext]_allVars
  PROVE  Inv' /\ ProgVarsOK' /\ [Next]_vars
BY ProgramStepsClient, InvStep, ProgVarsStep DEF Inv

\* The client's invariant and the program's types hold throughout.
LEMMA ProgInvariance == ProgSafety => [](Inv /\ ProgVarsOK)
<1>1. ProgInit => Inv /\ ProgVarsOK
  BY InvInit, ProgVarsInit DEF ProgInit
<1>2. Inv /\ ProgVarsOK /\ [ProgNext]_allVars => (Inv /\ ProgVarsOK)'
  BY ProgStepClient
<1> QED BY <1>1, <1>2, PTL DEF ProgSafety

\* Every variable of the program keeps its type, whatever the server sends.
THEOREM ProgTypeCorrect == ProgSafety => []ProgTypeOK
<1>1. Inv /\ ProgVarsOK => ProgTypeOK
  BY DEF Inv, ProgVarsOK, ProgTypeOK
<1> QED BY <1>1, ProgInvariance, PTL

\* main() makes only calls that WebSocketClient's specification allows, so all
\* that is proved of the client and of the connection holds of the program.
THEOREM ProgramUsesClient == ProgSafety => Safety
<1>1. ProgInit => Init
  BY DEF ProgInit
<1>2. Inv /\ ProgVarsOK /\ [ProgNext]_allVars => [Next]_vars
  BY ProgStepClient
<1> QED BY <1>1, <1>2, ProgInvariance, PTL DEF ProgSafety, Safety

-----------------------------------------------------------------------------
(* At most one product.                                                    *)

AfterUpload == {"say_sampledinfinite", "say_finish_now", "wait_notified", "reset",
                "stop", "return", "returning", "exited"}

\* Once a product is stored main() is on its way out: on the random path it can
\* be back at the loop's condition, but with enough audio to leave the loop.
ProductInv ==
  /\ bucket # <<>> => /\ Len(bucket) = 1
                      /\ pc \in AfterUpload \cup {"while"}
                      /\ ~UserPath => Len(m_sampleStorage) >= ProductChunks
  /\ UserPath => pc # "while"
  /\ pc = "upload" /\ ~UserPath => Len(m_sampleStorage) >= ProductChunks

\* No step breaks ProductInv.
LEMMA ProductStep ==
  ASSUME ProgVarsOK, ProductInv, [ProgNext]_allVars
  PROVE  ProductInv'
<1> USE DEF ProductInv, UserPath
<1>1. CASE UNCHANGED progVars
  BY <1>1 DEF progVars
<1>2. CASE Server
  BY <1>2 DEF Server, ServerReplies, ServerAnnouncesUnasked, ServerCloses,
     unchangedByServer
<1>3. CASE \/ NoUri \/ ConnectFails \/ Connects \/ WaitForConnection \/ SayUserId
           \/ LoopExits \/ WaitForAudio \/ UploadFails \/ SaySampledinfinite
           \/ SayFinishNow \/ WaitNotified \/ ResetForNext \/ StopClient
           \/ ReturnFromMain \/ Exit
  BY <1>3 DEF NoUri, ConnectFails, Connects, WaitForConnection, SayUserId, Say, At,
     LoopExits, WaitForAudio, UploadFails, SaySampledinfinite, SayFinishNow,
     WaitNotified, ResetForNext, StopClient, ReturnFromMain, Exit, GoTo, AfterUpload
<1>4. CASE SaySourceReady \/ SayRunFunction
  <2>1. bucket = <<>>
    <3>1. CASE SaySourceReady
      BY <3>1 DEF SaySourceReady, At, AfterUpload
    <3>2. CASE SayRunFunction
      <4>1. Len(m_sampleStorage) \in Nat /\ ProductChunks \in Nat
        BY ProgramAssumption, LenProperties DEF ProgVarsOK
      <4> QED BY <3>2, <4>1 DEF SayRunFunction, At
    <3> QED BY <1>4, <3>1, <3>2
  <2> QED BY <1>4, <2>1 DEF SaySourceReady, SayRunFunction, Request
<1>5. CASE GetName \/ Download \/ ReadAudio
  BY <1>5 DEF GetName, Download, ReadAudio, At, AfterUpload
<1>6. CASE DownloadThrows \/ ReadCrashes
  BY <1>6 DEF DownloadThrows, ReadCrashes, progVars
<1>7. CASE Compute
  <2>1. bucket = <<>>
    BY <1>7 DEF Compute, At, AfterUpload
  <2> QED BY <1>7, <2>1 DEF Compute
<1>8. CASE Upload
  <2>1. bucket = <<>>
    BY <1>8 DEF Upload, At, AfterUpload
  <2>2. Len(bucket') = 1
    BY <1>8, <2>1 DEF Upload
  <2> QED BY <1>8, <2>2 DEF Upload, At, AfterUpload
<1>9. CASE UNCHANGED allVars
  BY <1>9, <1>1 DEF allVars
<1> QED BY <1>1, <1>2, <1>3, <1>4, <1>5, <1>6, <1>7, <1>8, <1>9
        DEF ProgNext, Program

\* The loop's condition and the test before uploadIfReady agree, however many
\* chunks a product needs and however many a file has: one product at most.
THEOREM OneProductOnly == ProgSafety => []OneProduct
<1>1. ProgInit => ProductInv
  BY DEF ProgInit, ProductInv
<1>2. ProgVarsOK /\ ProductInv /\ [ProgNext]_allVars => ProductInv'
  BY ProductStep
<1>3. ProgVarsOK /\ ProductInv => OneProduct
  <2>1. bucket = <<>> => Len(bucket) = 0
    OBVIOUS
  <2> QED BY <2>1 DEF ProductInv, OneProduct
<1> QED BY <1>1, <1>2, <1>3, ProgInvariance, PTL DEF ProgSafety

-----------------------------------------------------------------------------
(* The wait in notifyWebSocket.                                            *)

Working == {"download", "read", "compute", "upload", "say_sampledinfinite",
            "say_finish_now", "wait_notified"}

\* From the moment the wait for audio returns until reset_condition begins, the
\* condition is met: only the main thread clears it, and it is elsewhere.
HeldInv ==
  /\ pc \in {"get_name", "reset"} => main_pc \in Waiting \cup {"idle"}
  /\ pc \in Working => main_pc \in {"idle", "sending"}
  /\ pc \in Working \cup {"reset"} => condition_met
  /\ pc = "get_name" /\ main_pc = "idle" => condition_met

\* No step breaks HeldInv: the condition is cleared only inside the reset.
LEMMA HeldStep ==
  ASSUME HeldInv, [ProgNext]_allVars
  PROVE  HeldInv'
<1> USE DEF HeldInv, Working, Waiting
<1>1. CASE Transport /\ UNCHANGED progVars
  BY <1>1 DEF Transport, clientVars, progVars
<1>2. CASE Handler /\ UNCHANGED progVars
  BY <1>2 DEF Handler, Return, OnOpenHdl, OnOpenConnected, OnFail, OnMessageIgnored,
     OnMessageThrows, OnMessageAssign, OnMessageAssigned, OnMessageLock, OnMessageSet,
     OnMessageNotify, progVars
<1>3. CASE (MainInCall \/ SpuriousWakeup) /\ UNCHANGED progVars
  BY <1>3 DEF MainInCall, SpuriousWakeup, SendContinues, WaitLock, WaitReturns,
     WaitAgain, WaitBlock, ResetLock, ResetReturns, Join, unchangedByWait, progVars
<1>4. CASE Server
  BY <1>4 DEF Server, ServerReplies, ServerAnnouncesUnasked, ServerCloses,
     unchangedByServer, clientVars
<1>5. CASE \/ NoUri \/ ConnectFails \/ Connects \/ WaitForConnection \/ SayUserId
           \/ LoopExits \/ WaitForAudio \/ UploadFails \/ SaySampledinfinite
           \/ SayFinishNow \/ WaitNotified \/ ResetForNext \/ StopClient
           \/ ReturnFromMain \/ Exit
  BY <1>5 DEF NoUri, ConnectFails, Connects, WaitForConnection, SayUserId, Say, At,
     LoopExits, WaitForAudio, UploadFails, SaySampledinfinite, SayFinishNow,
     WaitNotified, ResetForNext, StopClient, ReturnFromMain, Exit, GoTo, vars,
     clientVars, ClientConnect, SendMessage, WaitForCondition, ResetCondition,
     ClientStop, Destroy, unchangedByWait
<1>6. CASE SaySourceReady \/ SayRunFunction
  BY <1>6 DEF SaySourceReady, SayRunFunction, Request
<1>7. CASE GetName \/ Download \/ ReadAudio \/ Compute \/ Upload
  BY <1>7 DEF GetName, Download, ReadAudio, Compute, Upload, At, vars, clientVars
<1>8. CASE DownloadThrows \/ ReadCrashes
  BY <1>8 DEF DownloadThrows, ReadCrashes, MainDies, progVars
<1>9. CASE UNCHANGED allVars
  BY <1>9 DEF allVars, vars, clientVars, progVars
<1> QED BY <1>1, <1>2, <1>3, <1>4, <1>5, <1>6, <1>7, <1>8, <1>9
        DEF ProgNext, Program

\* Whatever the server announces and however often, main() is never blocked by
\* the wait that follows finish_now.
THEOREM NotifyNeverBlocks == ProgSafety => []NotifyDoesNotBlock
<1>1. ProgInit => HeldInv
  BY DEF ProgInit, Init, HeldInv, Working
<1>2. HeldInv /\ [ProgNext]_allVars => HeldInv'
  BY HeldStep
<1>3. HeldInv => NotifyDoesNotBlock
  BY DEF HeldInv, NotifyDoesNotBlock
<1> QED BY <1>1, <1>2, <1>3, PTL DEF ProgSafety

-----------------------------------------------------------------------------
(***************************************************************************)
(* DataIn is defined by recursion on the sequence.  The function it takes  *)
(* its value from exists, since one for n elements gives one for n + 1.    *)
(***************************************************************************)
LEMMA DataUpToDef ==
  ASSUME NEW q, Len(q) \in Nat
  PROVE  DataUpTo(q) =
           [n \in 0..Len(q) |->
              IF n = 0 THEN <<>>
              ELSE IF q[n] \in Data THEN Append(DataUpTo(q)[n - 1], q[n])
                                    ELSE DataUpTo(q)[n - 1]]
<1> DEFINE Step(g, n) == IF q[n] \in Data THEN Append(g[n - 1], q[n]) ELSE g[n - 1]
           Defined(n) == \E g : g = [i \in 0..n |-> IF i = 0 THEN <<>> ELSE Step(g, i)]
           T == {n \in Nat : Defined(n)}
<1>1. 0 \in T
  <2> DEFINE g == [i \in 0..0 |-> <<>>]
  <2>1. g = [i \in 0..0 |-> IF i = 0 THEN <<>> ELSE Step(g, i)]
    OBVIOUS
  <2> QED BY <2>1
<1>2. ASSUME NEW n \in Nat, n \in T PROVE n + 1 \in T
  <2>1. PICK g : g = [i \in 0..n |-> IF i = 0 THEN <<>> ELSE Step(g, i)]
    BY <1>2
  <2> DEFINE h == [i \in 0..(n + 1) |-> IF i = n + 1 THEN Step(g, n + 1) ELSE g[i]]
  <2>2. h = [i \in 0..(n + 1) |-> IF i = 0 THEN <<>> ELSE Step(h, i)]
    <3> SUFFICES ASSUME NEW i \in 0..(n + 1)
                 PROVE  h[i] = IF i = 0 THEN <<>> ELSE Step(h, i)
      OBVIOUS
    <3>1. CASE i = 0
      BY <2>1, <3>1
    <3>2. CASE i # 0
      <4>1. i - 1 \in 0..n /\ h[i - 1] = g[i - 1]
        BY <3>2
      <4>2. CASE i = n + 1
        BY <4>1, <4>2, <3>2
      <4>3. CASE i \in 0..n
        <5>1. h[i] = g[i]
          BY <4>3
        <5>2. g[i] = Step(g, i)
          BY <2>1, <4>3, <3>2
        <5> QED BY <3>2, <4>1, <5>1, <5>2
      <4> QED BY <4>2, <4>3
    <3> QED BY <3>1, <3>2
  <2> HIDE DEF h
  <2> QED BY <2>2
<1>3. Len(q) \in T
  <2> HIDE DEF T
  <2> QED BY <1>1, <1>2, SetInduction
<1>4. Defined(Len(q))
  BY <1>3
<1> QED BY <1>4 DEF DataUpTo

\* What DataUpTo holds at each position is a sequence of application messages:
\* induction over the position.
LEMMA DataUpToType ==
  ASSUME NEW q, Len(q) \in Nat
  PROVE  \A n \in 0..Len(q) : DataUpTo(q)[n] \in Seq(Data)
<1> DEFINE T == {n \in Nat : n <= Len(q) => DataUpTo(q)[n] \in Seq(Data)}
<1>1. 0 \in T
  <2>1. 0 \in 0..Len(q)
    OBVIOUS
  <2>2. DataUpTo(q)[0] = <<>>
    BY <2>1, DataUpToDef
  <2>3. <<>> \in Seq(Data)
    OBVIOUS
  <2> QED BY <2>2, <2>3
<1>2. ASSUME NEW n \in Nat, n \in T PROVE n + 1 \in T
  <2> SUFFICES ASSUME n + 1 <= Len(q) PROVE DataUpTo(q)[n + 1] \in Seq(Data)
    OBVIOUS
  <2>1. n + 1 \in 0..Len(q) /\ n + 1 # 0 /\ (n + 1) - 1 = n
    OBVIOUS
  <2>2. DataUpTo(q)[n + 1] = IF q[n + 1] \in Data
                             THEN Append(DataUpTo(q)[n], q[n + 1])
                             ELSE DataUpTo(q)[n]
    BY <2>1, DataUpToDef
  <2>3. DataUpTo(q)[n] \in Seq(Data)
    BY <1>2, <2>1
  <2> QED BY <2>2, <2>3, AppendProperties
<1>3. Nat \subseteq T
  <2> HIDE DEF T
  <2> QED BY <1>1, <1>2, SetInduction
<1> QED BY <1>3

\* The application messages of a queue are a sequence of them.
LEMMA DataInType ==
  ASSUME NEW q \in Seq(Messages)
  PROVE  DataIn(q) \in Seq(Data)
<1>1. Len(q) \in Nat /\ Len(q) \in 0..Len(q)
  BY LenProperties
<1> QED BY <1>1, DataUpToType DEF DataIn

\* An empty queue holds none.
LEMMA DataInEmpty == DataIn(<<>>) = <<>>
<1>1. Len(<<>>) = 0
  OBVIOUS
<1>2. DataUpTo(<<>>)[0] = <<>>
  BY <1>1, DataUpToDef
<1> QED BY <1>1, <1>2 DEF DataIn

\* What is appended to the queue is appended to its data, or is none.
LEMMA DataInAppend ==
  ASSUME NEW q \in Seq(Messages), NEW m \in Messages
  PROVE  DataIn(Append(q, m)) = IF m \in Data THEN Append(DataIn(q), m) ELSE DataIn(q)
<1> DEFINE qm == Append(q, m)
           T  == {n \in Nat : n <= Len(q) => DataUpTo(qm)[n] = DataUpTo(q)[n]}
<1>1. /\ Len(q) \in Nat /\ Len(qm) = Len(q) + 1 /\ Len(qm) \in Nat
      /\ \A i \in 1..Len(q) : qm[i] = q[i]
      /\ qm[Len(q) + 1] = m
  BY AppendProperties, LenProperties
<1> HIDE DEF qm
<1>2. 0 \in T
  <2>1. 0 \in 0..Len(q) /\ 0 \in 0..Len(qm)
    BY <1>1
  <2>2. DataUpTo(qm)[0] = <<>> /\ DataUpTo(q)[0] = <<>>
    BY <1>1, <2>1, DataUpToDef
  <2> QED BY <2>2
<1>3. ASSUME NEW n \in Nat, n \in T PROVE n + 1 \in T
  <2> SUFFICES ASSUME n + 1 <= Len(q)
               PROVE  DataUpTo(qm)[n + 1] = DataUpTo(q)[n + 1]
    OBVIOUS
  <2>1. /\ n + 1 \in 0..Len(q) /\ n + 1 \in 0..Len(qm) /\ n + 1 # 0
        /\ (n + 1) - 1 = n /\ n + 1 \in 1..Len(q)
    BY <1>1
  <2>2. DataUpTo(q)[n + 1] = IF q[n + 1] \in Data
                             THEN Append(DataUpTo(q)[n], q[n + 1])
                             ELSE DataUpTo(q)[n]
    BY <1>1, <2>1, DataUpToDef
  <2>3. DataUpTo(qm)[n + 1] = IF qm[n + 1] \in Data
                              THEN Append(DataUpTo(qm)[n], qm[n + 1])
                              ELSE DataUpTo(qm)[n]
    BY <1>1, <2>1, DataUpToDef
  <2>4. DataUpTo(qm)[n] = DataUpTo(q)[n] /\ qm[n + 1] = q[n + 1]
    BY <1>1, <1>3, <2>1
  <2> QED BY <2>2, <2>3, <2>4
<1>4. Nat \subseteq T
  <2> HIDE DEF T
  <2> QED BY <1>2, <1>3, SetInduction
<1>5. DataUpTo(qm)[Len(q)] = DataUpTo(q)[Len(q)]
  BY <1>1, <1>4
<1>6. Len(q) + 1 \in 0..Len(qm) /\ Len(q) + 1 # 0 /\ (Len(q) + 1) - 1 = Len(q)
  BY <1>1
<1>7. DataUpTo(qm)[Len(q) + 1] =
        IF m \in Data THEN Append(DataUpTo(qm)[Len(q)], m) ELSE DataUpTo(qm)[Len(q)]
  BY <1>1, <1>6, DataUpToDef
<1> QED BY <1>1, <1>5, <1>7 DEF DataIn, qm

-----------------------------------------------------------------------------
(* What is said.                                                           *)

\* What main() asks with is application data, and no application data is a
\* control frame.
LEMMA SaysWords ==
  Requests \subseteq Data /\ Data \subseteq Messages /\ Data \cap Control = {}
BY SaidIsData, ConnectionAssumption DEF Requests, Messages

\* Of the steps of the loop those that push at all push a control frame.
LEMMA LoopPushes ==
  ASSUME LoopStep
  PROVE  /\ sender' = sender
         /\ pushed' = pushed \/ \E m \in Control : pushed' = Append(pushed, m)
         /\ m_state \in {"closing", "closed"} => m_state' \in {"closing", "closed"}
BY DEF LoopStep, Control, WriteFrame, WriteOk, WriteError, Terminate, OpenOk,
       OpenBadExtensions, OpenFail, ReadCompletes, ReadError, ReadText, ReadPing,
       ReadClose, ReadInvalid, Consume, CloseTimeout, HandleTerminate, LoopReturns,
       PushFromLoop, queueVars, stateVars

Says == \/ SayUserId \/ SaySourceReady \/ SayRunFunction
        \/ SaySampledinfinite \/ SayFinishNow

\* A step of the program is one that says nothing, one inside connection::send,
\* or the call that begins it.
LEMMA ConversationSteps ==
  ASSUME ProgVarsOK, [ProgNext]_allVars
  PROVE  \/ /\ sender' = sender
            /\ pushed' = pushed \/ \E m \in Control : pushed' = Append(pushed, m)
            /\ main_pc = "sending" => main_pc' = "sending"
         \/ SendContinues /\ UNCHANGED progVars
         \/ Says /\ \E msg \in Data : SendMessage(msg)
<1> DEFINE Silent ==
             /\ sender' = sender
             /\ pushed' = pushed \/ \E m \in Control : pushed' = Append(pushed, m)
             /\ main_pc = "sending" => main_pc' = "sending"
<1>1. CASE Transport /\ UNCHANGED progVars
  BY <1>1, LoopPushes DEF Transport, clientVars
<1>2. CASE Handler /\ UNCHANGED progVars
  BY <1>2 DEF Handler, Return, HandlerReturns, OnOpenHdl, OnOpenConnected, OnFail,
     OnMessageIgnored, OnMessageThrows, OnMessageAssign, OnMessageAssigned,
     OnMessageLock, OnMessageSet, OnMessageNotify, connVars, queueVars
<1>3. CASE (MainInCall \/ SpuriousWakeup) /\ UNCHANGED progVars
  BY <1>3 DEF MainInCall, SpuriousWakeup, WaitLock, WaitReturns, WaitAgain, WaitBlock,
     ResetLock, ResetReturns, Join, unchangedByWait, connVars, queueVars
<1>4. CASE Server
  BY <1>4 DEF Server, ServerReplies, ServerAnnouncesUnasked, ServerCloses,
     unchangedByServer, clientVars, PeerSends, queueVars
<1>5. CASE \/ NoUri \/ ConnectFails \/ WaitForConnection \/ LoopExits \/ GetName
           \/ Download \/ ReadAudio \/ Compute \/ Upload \/ UploadFails \/ Exit
  BY <1>5 DEF NoUri, ConnectFails, WaitForConnection, LoopExits, GetName, Download,
     ReadAudio, Compute, Upload, UploadFails, Exit, vars, connVars, queueVars,
     clientVars
<1>6. CASE \/ Connects \/ WaitForAudio \/ WaitNotified \/ ResetForNext \/ StopClient
           \/ ReturnFromMain \/ DownloadThrows \/ ReadCrashes
  BY <1>6 DEF Connects, WaitForAudio, WaitNotified, ResetForNext, StopClient,
     ReturnFromMain, DownloadThrows, ReadCrashes, ClientConnect, Connect,
     WaitForCondition, ResetCondition, ClientStop, Stop, Destroy, MainDies,
     unchangedByWait, connVars, queueVars
<1>7. CASE Says
  <2>1. (\E msg \in Data : SendMessage(msg)) \/ UNCHANGED vars
    BY <1>7, SaidIsData DEF Says, SayUserId, SaySourceReady,
       SayRunFunction, SaySampledinfinite, SayFinishNow, Say, Request
  <2>2. CASE UNCHANGED vars
    BY <2>2 DEF vars, connVars, queueVars, clientVars
  <2> QED BY <1>7, <2>1, <2>2
<1>8. CASE UNCHANGED allVars
  BY <1>8 DEF allVars, vars, connVars, queueVars, clientVars
<1> QED BY <1>1, <1>2, <1>3, <1>4, <1>5, <1>6, <1>7, <1>8 DEF ProgNext, Program, Says

\* What main() said last, if only to connection::send so far.
Heard == IF sender.at = "push" THEN sender.msg ELSE Protocol!LastSaid

\* The protocol's alternatives, for a message and the one before it.
MayFollow(msg, last) ==
  \/ msg = "user_id" /\ last = "nothing"
  \/ msg = "source_ready" /\ last = "user_id"
  \/ msg = "run_function" /\ last \in {"user_id", "run_function"}
  \/ msg = "sampledinfinite" /\ last \in {"source_ready", "run_function"}
  \/ msg = "finish_now" /\ last = "sampledinfinite"

\* From here on every send is refused.
Silenced == m_state \in {"closing", "closed"}

Enough == Len(m_sampleStorage) >= ProductChunks

Asked == {"wait_audio", "get_name", "download", "read", "compute", "upload",
          "say_sampledinfinite"}

Ending == {"return", "returning", "exited"}

\* Where main() is tells what it said last, unless a send was refused: then the
\* connection is no longer open, and nothing more is said.
SaidInv ==
  /\ sender # NoSender => main_pc = "sending"
  /\ sender.at = "push" => MayFollow(sender.msg, Protocol!LastSaid)
  /\ pc \notin Ending \cup {"start", "wait_connection"} => connected
  /\ pc = "say_source_ready" => UserPath
  /\ pc = "while" => ~UserPath
  /\ pc \in {"upload", "say_sampledinfinite", "say_finish_now", "wait_notified"}
       => UserPath \/ Enough
  /\ \/ Silenced
     \/ /\ pc \in {"start", "wait_connection", "say_user_id"} => Heard = "nothing"
        /\ pc = "say_source_ready" => Heard = "user_id"
        /\ pc = "while" => Heard \in {"user_id", "run_function"} \/ Enough
        /\ pc \in Asked => Heard = IF UserPath THEN "source_ready" ELSE "run_function"
        /\ pc = "say_finish_now" => Heard = "sampledinfinite"
        /\ pc = "reset" => UserPath \/ Heard = "run_function" \/ Enough

\* A step that says nothing leaves the conversation as it was.
LEMMA SilentStep ==
  ASSUME ConnTypeOK, sender' = sender,
         pushed' = pushed \/ \E m \in Control : pushed' = Append(pushed, m)
  PROVE  DataIn(pushed)' = DataIn(pushed) /\ Heard' = Heard
         /\ Protocol!LastSaid' = Protocol!LastSaid
<1>1. DataIn(pushed') = DataIn(pushed)
  <2>1. CASE pushed' = pushed
    BY <2>1
  <2>2. CASE \E m \in Control : pushed' = Append(pushed, m)
    <3>1. PICK m \in Control : pushed' = Append(pushed, m)
      BY <2>2
    <3>2. m \in Messages /\ m \notin Data /\ pushed \in Seq(Messages)
      BY SaysWords DEF Messages, ConnTypeOK
    <3> QED BY <3>1, <3>2, DataInAppend
  <2> QED BY <2>1, <2>2
<1>2. Protocol!LastSaid' = Protocol!LastSaid
  BY <1>1 DEF Protocol!LastSaid
<1> QED BY <1>1, <1>2 DEF Heard

\* What connection::send pushes was heard before.
LEMMA SendStep ==
  ASSUME TypeOK, SendContinues
  PROVE  /\ Heard' = Heard /\ sender'.at # "push"
         /\ sender' # NoSender => main_pc' = "sending"
         /\ SendPost => DataIn(pushed)' = DataIn(pushed)
         /\ SendPush => /\ DataIn(pushed)' = Append(DataIn(pushed), sender.msg)
                        /\ sender.at = "push"
<1>s. sender \in Senders /\ pushed \in Seq(Messages)
  BY DEF TypeOK, ConnTypeOK
<1>1. CASE SendPush
  <2>1. sender.msg \in Data /\ sender.msg \in Messages
    BY <1>1, <1>s, SenderMsg, SaysWords DEF SendPush
  <2>2. DataIn(pushed') = Append(DataIn(pushed), sender.msg)
    BY <1>1, <1>s, <2>1, DataInAppend DEF SendPush
  <2>3. /\ DataIn(pushed) \in Seq(Data)
        /\ Append(DataIn(pushed), sender.msg) # <<>>
        /\ Append(DataIn(pushed), sender.msg)[Len(Append(DataIn(pushed), sender.msg))]
             = sender.msg
    BY <1>s, <2>1, DataInType, AppendProperties
  <2>4. Protocol!LastSaid' = sender.msg
    BY <2>2, <2>3 DEF Protocol!LastSaid
  <2>5. sender.at = "push" /\ sender'.at # "push" /\ ~SendPost
    BY <1>1 DEF SendPush, SendPost, NoSender
  <2> QED BY <2>2, <2>4, <2>5 DEF Heard, SendContinues
<1>2. CASE SendPost
  <2>1. pushed' = pushed /\ sender.at = "post" /\ sender'.at # "push" /\ ~SendPush
    BY <1>2 DEF SendPost, SendPush, queueVars, NoSender
  <2>2. Protocol!LastSaid' = Protocol!LastSaid
    BY <2>1 DEF Protocol!LastSaid
  <2> QED BY <2>1, <2>2 DEF Heard, SendContinues
<1> QED BY <1>1, <1>2 DEF SendContinues

\* A connection that is closing does not open again.
LEMMA SilencedStep ==
  ASSUME [ConnNext]_connVars, Silenced
  PROVE  Silenced'
BY DEF Silenced, ConnNext, LoopStep, AppStep, connVars, stateVars, WriteFrame, WriteOk,
       WriteError, Terminate, OpenOk, OpenBadExtensions, OpenFail, ReadCompletes,
       ReadError, ReadText, ReadPing, ReadClose, ReadInvalid, Consume, CloseTimeout,
       HandleTerminate, LoopReturns, Connect, SendCheck, SendPush, SendPost,
       HandlerReturns, Stop, PeerSends

\* connected is never taken back.
LEMMA ConnectedStep ==
  ASSUME Inv, [Next]_vars, connected
  PROVE  connected'
<1>1. CASE Handler
  BY <1>1 DEF Handler, Return, OnOpenHdl, OnOpenConnected, OnFail, OnMessageIgnored,
     OnMessageThrows, OnMessageAssign, OnMessageAssigned, OnMessageLock, OnMessageSet,
     OnMessageNotify
<1>2. CASE ~Handler
  BY <1>2, CallbackKept
<1> QED BY <1>1, <1>2

\* A send that main() makes, or that is refused.
LEMMA SayStep ==
  ASSUME Inv, SaidInv, main_pc = "idle", connected, NEW msg \in Data,
         SendMessage(msg) \/ (~CanSend /\ UNCHANGED vars),
         Silenced \/ MayFollow(msg, Heard)
  PROVE  /\ sender' # NoSender => main_pc' = "sending"
         /\ sender'.at = "push" => MayFollow(sender'.msg, Protocol!LastSaid')
         /\ connected'
         /\ Silenced' \/ Heard' = msg
<1>1. sender = NoSender /\ sender.at # "push"
  BY DEF SaidInv, NoSender
<1>2. CASE SendMessage(msg)
  <2>1. /\ sender' = [at |-> "push", msg |-> msg] /\ pushed' = pushed
        /\ main_pc' = "sending" /\ connected' = connected /\ m_state = "open"
    BY <1>2 DEF SendMessage, SendCheck, CanSend, queueVars
  <2>2. Protocol!LastSaid' = Protocol!LastSaid
    BY <2>1 DEF Protocol!LastSaid
  <2>3. MayFollow(msg, Protocol!LastSaid)
    BY <1>1, <2>1 DEF Silenced, Heard
  <2>4. MayFollow(sender'.msg, Protocol!LastSaid')
    BY <2>1, <2>2, <2>3
  <2> QED BY <2>1, <2>4 DEF Heard
<1>3. CASE ~CanSend /\ UNCHANGED vars
  <2>1. sender' = sender /\ connected' = connected /\ m_state' = m_state
    BY <1>3 DEF vars, connVars, stateVars, clientVars
  <2>2. Silenced
    BY <1>3 DEF Inv, HdlPublished, TypeOK, ConnTypeOK, CanSend, Silenced
  <2> QED BY <1>1, <2>1, <2>2 DEF Silenced
<1> QED BY <1>2, <1>3

\* No step of the program, the client or the server breaks SaidInv.
LEMMA SaidStep ==
  ASSUME Inv, ProgVarsOK, SaidInv, [ProgNext]_allVars
  PROVE  SaidInv'
<1>n. [Next]_vars /\ [ConnNext]_connVars
  BY ProgramStepsClient, ClientStepsConnection
<1>c. (connected => connected') /\ (Silenced => Silenced')
  BY <1>n, ConnectedStep, SilencedStep
<1>t. ConnTypeOK
  BY DEF Inv, TypeOK
<1> DEFINE Silent ==
             /\ sender' = sender
             /\ pushed' = pushed \/ \E m \in Control : pushed' = Append(pushed, m)
             /\ main_pc = "sending" => main_pc' = "sending"
<1>s. Silent => /\ Heard' = Heard
                /\ sender' # NoSender => main_pc' = "sending"
                /\ sender'.at = "push" => MayFollow(sender'.msg, Protocol!LastSaid')
  BY <1>t, SilentStep DEF SaidInv
<1>i. main_pc = "idle" => sender = NoSender /\ sender.at # "push"
  BY DEF SaidInv, NoSender
<1>1. CASE UNCHANGED progVars /\ Silent
  BY <1>1, <1>c, <1>s DEF SaidInv, progVars, UserPath, Enough
<1>2. CASE SendContinues /\ UNCHANGED progVars
  <2>1. /\ Heard' = Heard /\ sender'.at # "push"
        /\ sender' # NoSender => main_pc' = "sending"
    BY <1>2, SendStep DEF Inv
  <2> QED BY <1>2, <1>c, <2>1 DEF SaidInv, progVars, UserPath, Enough
<1>3. CASE Server /\ Silent
  BY <1>3, <1>c, <1>s DEF SaidInv, Server, ServerReplies, ServerAnnouncesUnasked,
     ServerCloses, unchangedByServer, UserPath, Enough
<1>4. CASE SayUserId
  <2>1. pc = "say_user_id" /\ main_pc = "idle" /\ connected
    BY <1>4 DEF SayUserId, At, SaidInv, Ending
  <2>2. Silenced \/ MayFollow("user_id", Heard)
    BY <2>1 DEF SaidInv, MayFollow
  <2>3. /\ sender' # NoSender => main_pc' = "sending"
        /\ sender'.at = "push" => MayFollow(sender'.msg, Protocol!LastSaid')
        /\ connected'
        /\ Silenced' \/ Heard' = "user_id"
    BY <1>4, <2>1, <2>2, SayStep, SaidIsData DEF SayUserId, Say
  <2> QED BY <1>4, <2>3 DEF SayUserId, Say, GoTo, SaidInv, UserPath, Asked
<1>5. CASE SaySourceReady
  <2>1. pc = "say_source_ready" /\ main_pc = "idle" /\ connected /\ UserPath
    BY <1>5 DEF SaySourceReady, At, SaidInv, Ending
  <2>2. Silenced \/ MayFollow("source_ready", Heard)
    BY <2>1 DEF SaidInv, MayFollow
  <2>3. /\ sender' # NoSender => main_pc' = "sending"
        /\ sender'.at = "push" => MayFollow(sender'.msg, Protocol!LastSaid')
        /\ connected'
        /\ Silenced' \/ Heard' = "source_ready"
    BY <1>5, <2>1, <2>2, SayStep, SaidIsData DEF SaySourceReady, Request
  <2> QED BY <1>5, <2>1, <2>3 DEF SaySourceReady, Request, SaidInv, UserPath, Asked
<1>6. CASE SayRunFunction
  <2>1. pc = "while" /\ main_pc = "idle" /\ connected /\ ~UserPath
    BY <1>6 DEF SayRunFunction, At, SaidInv, Ending
  <2>e. ~Enough
    <3>1. Len(m_sampleStorage) \in Nat /\ ProductChunks \in Nat
      BY ProgramAssumption, LenProperties DEF ProgVarsOK
    <3> QED BY <1>6, <3>1 DEF SayRunFunction, Enough
  <2>2. Silenced \/ MayFollow("run_function", Heard)
    BY <2>1, <2>e DEF SaidInv, MayFollow
  <2>3. /\ sender' # NoSender => main_pc' = "sending"
        /\ sender'.at = "push" => MayFollow(sender'.msg, Protocol!LastSaid')
        /\ connected'
        /\ Silenced' \/ Heard' = "run_function"
    BY <1>6, <2>1, <2>2, SayStep, SaidIsData DEF SayRunFunction, Request
  <2> QED BY <1>6, <2>1, <2>3 DEF SayRunFunction, Request, SaidInv, UserPath, Asked
<1>7. CASE SaySampledinfinite
  <2>1. pc = "say_sampledinfinite" /\ main_pc = "idle" /\ connected
    BY <1>7 DEF SaySampledinfinite, At, SaidInv, Ending
  <2>2. Silenced \/ MayFollow("sampledinfinite", Heard)
    BY <2>1 DEF SaidInv, MayFollow, Asked
  <2>3. /\ sender' # NoSender => main_pc' = "sending"
        /\ sender'.at = "push" => MayFollow(sender'.msg, Protocol!LastSaid')
        /\ connected'
        /\ Silenced' \/ Heard' = "sampledinfinite"
    BY <1>7, <2>1, <2>2, SayStep, SaidIsData DEF SaySampledinfinite, Say
  <2> QED BY <1>7, <2>1, <2>3
          DEF SaySampledinfinite, Say, GoTo, SaidInv, UserPath, Asked, Enough
<1>8. CASE SayFinishNow
  <2>1. pc = "say_finish_now" /\ main_pc = "idle" /\ connected
    BY <1>8 DEF SayFinishNow, At, SaidInv, Ending
  <2>2. Silenced \/ MayFollow("finish_now", Heard)
    BY <2>1 DEF SaidInv, MayFollow
  <2>3. /\ sender' # NoSender => main_pc' = "sending"
        /\ sender'.at = "push" => MayFollow(sender'.msg, Protocol!LastSaid')
        /\ connected'
    BY <1>8, <2>1, <2>2, SayStep, SaidIsData DEF SayFinishNow, Say
  <2> QED BY <1>8, <2>1, <2>3
          DEF SayFinishNow, Say, GoTo, SaidInv, UserPath, Asked, Enough
<1>9. CASE Silent /\ (NoUri \/ ConnectFails \/ Connects \/ WaitForConnection)
  BY <1>9, <1>c, <1>s DEF NoUri, ConnectFails, Connects, WaitForConnection, At, GoTo,
     SaidInv, UserPath, Asked, Ending
<1>10. CASE Silent /\ (WaitForAudio \/ GetName \/ Download \/ ReadAudio)
  BY <1>10, <1>c, <1>s DEF WaitForAudio, GetName, Download, ReadAudio, At, GoTo,
     SaidInv, UserPath, Asked, Ending, Enough
<1>11. CASE Silent /\ Compute
  BY <1>11, <1>c, <1>s DEF Compute, At, SaidInv, UserPath, Asked, Ending, Enough
<1>12. CASE Silent /\ (Upload \/ UploadFails \/ WaitNotified)
  BY <1>12, <1>c, <1>s DEF Upload, UploadFails, WaitNotified, At, GoTo,
     SaidInv, UserPath, Asked, Ending, Enough
<1>13. CASE Silent /\ (LoopExits \/ ResetForNext \/ StopClient \/ ReturnFromMain \/ Exit)
  BY <1>13, <1>c, <1>s DEF LoopExits, ResetForNext, StopClient, ReturnFromMain, Exit,
     At, GoTo, SaidInv, UserPath, Asked, Ending, Enough
<1>14. CASE Silent /\ (DownloadThrows \/ ReadCrashes)
  BY <1>14, <1>1 DEF DownloadThrows, ReadCrashes
<1>15. CASE Silent /\ UNCHANGED allVars
  BY <1>15, <1>1 DEF allVars
<1>16. CASE Says
  BY <1>4, <1>5, <1>6, <1>7, <1>8, <1>16 DEF Says
<1>17. CASE Silent /\ Program
  BY <1>9, <1>10, <1>11, <1>12, <1>13, <1>14, <1>16, <1>17 DEF Program, Says
<1> QED BY <1>1, <1>2, <1>3, <1>15, <1>16, <1>17, ConversationSteps DEF ProgNext

\* main() begins with nothing said.
LEMMA SaidInit == ProgInit => SaidInv
<1> SUFFICES ASSUME ProgInit PROVE SaidInv
  OBVIOUS
<1>1. sender = NoSender /\ sender.at # "push" /\ pushed = <<>> /\ pc = "start"
  BY DEF ProgInit, Init, ConnInit, NoSender
<1>2. Heard = "nothing"
  BY <1>1, DataInEmpty DEF Heard, Protocol!LastSaid
<1> QED BY <1>1, <1>2 DEF SaidInv, Asked

\* The data in the queue's history grows as the protocol says.
LEMMA ProtocolStep ==
  ASSUME Inv, ProgVarsOK, SaidInv, [ProgNext]_allVars
  PROVE  [Protocol!ProtocolNext]_(DataIn(pushed))
<1>t. ConnTypeOK
  BY DEF Inv, TypeOK
<1>1. CASE /\ sender' = sender
           /\ pushed' = pushed \/ \E m \in Control : pushed' = Append(pushed, m)
  BY <1>1, <1>t, SilentStep
<1>2. CASE SendContinues
  <2>1. CASE SendPost
    BY <1>2, <2>1, SendStep DEF Inv
  <2>2. CASE SendPush
    <3>1. DataIn(pushed)' = Append(DataIn(pushed), sender.msg)
      BY <1>2, <2>2, SendStep DEF Inv
    <3>2. MayFollow(sender.msg, Protocol!LastSaid)
      BY <1>2, <2>2, SendStep DEF Inv, SaidInv
    <3> QED BY <3>1, <3>2 DEF MayFollow, Protocol!ProtocolNext, Protocol!Say
  <2> QED BY <1>2, <2>1, <2>2 DEF SendContinues
<1>3. CASE \E msg \in Data : SendMessage(msg)
  BY <1>3 DEF SendMessage, SendCheck, queueVars
<1> QED BY <1>1, <1>2, <1>3, ConversationSteps

\* SaidInv holds throughout.
LEMMA SaidInvariance == ProgSafety => []SaidInv
<1>1. Inv /\ ProgVarsOK /\ SaidInv /\ [ProgNext]_allVars => SaidInv'
  BY SaidStep
<1> QED BY <1>1, SaidInit, ProgInvariance, PTL DEF ProgSafety

\* main() implements SessionProtocol: whatever the server sends, whenever the
\* connection fails and whichever downloads and uploads succeed, the messages
\* queued for the server skip no step of the conversation and repeat none.
THEOREM ImplementsProtocol == ProgSafety => SpeaksProtocol
<1>1. ProgInit => Protocol!ProtocolInit
  BY DataInEmpty DEF ProgInit, Init, ConnInit, Protocol!ProtocolInit
<1>2. Inv /\ ProgVarsOK /\ SaidInv /\ [ProgNext]_allVars
        => [Protocol!ProtocolNext]_(DataIn(pushed))
  BY ProtocolStep
<1> QED BY <1>1, <1>2, SaidInvariance, ProgInvariance, PTL
        DEF ProgSafety, SpeaksProtocol, Protocol!ProtocolSpec

\* What reached the server was queued for it, at the same place.
LEMMA WiredWasPushed ==
  ASSUME ConnTypeOK, InOrder, NEW i \in 1..Len(wire)
  PROVE  i \in 1..Len(pushed) /\ wire[i] = pushed[i]
<1>1. /\ Len(wire) \in Nat /\ Len(pushed) \in Nat /\ Len(wire) <= Len(pushed)
      /\ \A k \in 1..Len(pushed) : pushed[k] \in Messages
  BY ElementOfSeq, LenProperties DEF ConnTypeOK, InOrder
<1>2. \A k \in 1..Len(wire) : pushed[k] \in Messages
  BY <1>1
<1>3. \A k \in 1..(Len(wire) - 1 + 1) : SubSeq(pushed, 1, Len(wire))[k] = pushed[1 + k - 1]
  BY <1>1, <1>2, SubSeqProperties
<1>4. wire = SubSeq(pushed, 1, Len(wire))
  BY DEF InOrder
<1>5. i \in 1..(Len(wire) - 1 + 1) /\ 1 + i - 1 = i /\ i \in 1..Len(pushed)
  BY <1>1
<1>6. SubSeq(pushed, 1, Len(wire))[i] = pushed[i]
  BY <1>3, <1>5
<1> QED BY <1>4, <1>5, <1>6

-----------------------------------------------------------------------------
(* What is announced.                                                      *)

Final == {"sampledinfinite", "finish_now"}

\* While the bucket has no product, nothing that announces one was queued, nor is
\* main() where it would say so.
AnnounceInv ==
  bucket = <<>> =>
    /\ pc \notin {"say_sampledinfinite", "say_finish_now"}
    /\ sender.at = "push" => sender.msg \notin Final
    /\ \A i \in 1..Len(pushed) : pushed[i] \notin Final

\* The two final messages are application data.
LEMMA FinalIsData == Final \subseteq Data /\ Final \cap Control = {}
BY SaidIsData, ConnectionAssumption DEF Final

\* The product stays in the bucket.
LEMMA BucketStep ==
  ASSUME ProgVarsOK, [ProgNext]_allVars
  PROVE  IF Upload THEN bucket' # <<>> ELSE bucket' = bucket
<1>1. CASE Upload
  <2>1. PICK n \in 0..Len(m_sampleStorage) :
          bucket' = Append(bucket, SubSeq(m_sampleStorage, 1, n))
    BY <1>1 DEF Upload
  <2>2. bucket \in Seq(Seq(Playable)) /\ SubSeq(m_sampleStorage, 1, n) \in Seq(Playable)
    BY ProductType DEF ProgVarsOK
  <2>3. bucket' # <<>>
    BY <2>1, <2>2, AppendProperties
  <2> QED BY <1>1, <2>3
<1>2. CASE ~Upload
  BY <1>2 DEF ProgNext, Program, progVars, allVars, Server, ServerReplies,
     ServerAnnouncesUnasked, ServerCloses, unchangedByServer, GoTo, NoUri,
     ConnectFails, Connects, WaitForConnection, SayUserId, Say, SaySourceReady,
     Request, SayRunFunction, LoopExits, WaitForAudio, GetName, Download,
     DownloadThrows, ReadAudio, ReadCrashes, Compute, UploadFails,
     SaySampledinfinite, SayFinishNow, WaitNotified, ResetForNext, StopClient,
     ReturnFromMain, Exit
<1> QED BY <1>1, <1>2

\* Another message leaves a queue without final messages as it was.
LEMMA PushedKept ==
  ASSUME ConnTypeOK, NEW m \in Messages, pushed' = Append(pushed, m),
         m \notin Final, \A i \in 1..Len(pushed) : pushed[i] \notin Final
  PROVE  \A i \in 1..Len(pushed') : pushed'[i] \notin Final
<1>1. /\ Len(pushed) \in Nat /\ Len(pushed') = Len(pushed) + 1
      /\ \A i \in 1..Len(pushed) : pushed'[i] = pushed[i]
      /\ pushed'[Len(pushed) + 1] = m
  BY AppendProperties, LenProperties DEF ConnTypeOK
<1> QED BY <1>1

\* A final message is only ever under way with a product in the bucket.
LEMMA AnnounceStep ==
  ASSUME Inv, ProgVarsOK, SaidInv, AnnounceInv, [ProgNext]_allVars
  PROVE  AnnounceInv'
<1> SUFFICES ASSUME bucket' = <<>>
             PROVE  /\ pc' \notin {"say_sampledinfinite", "say_finish_now"}
                    /\ sender'.at = "push" => sender'.msg \notin Final
                    /\ \A i \in 1..Len(pushed') : pushed'[i] \notin Final
  BY DEF AnnounceInv
<1>1. /\ bucket = <<>> /\ ~Upload
      /\ pc \notin {"say_sampledinfinite", "say_finish_now"}
      /\ sender.at = "push" => sender.msg \notin Final
      /\ \A i \in 1..Len(pushed) : pushed[i] \notin Final
  BY BucketStep DEF AnnounceInv
<1>t. ConnTypeOK /\ TypeOK
  BY DEF Inv, TypeOK
<1>2. pc' \notin {"say_sampledinfinite", "say_finish_now"}
  BY <1>1 DEF ProgNext, Program, progVars, allVars, Server, ServerReplies,
     ServerAnnouncesUnasked, ServerCloses, unchangedByServer, GoTo, NoUri, At,
     ConnectFails, Connects, WaitForConnection, SayUserId, Say, SaySourceReady,
     Request, SayRunFunction, LoopExits, WaitForAudio, GetName, Download,
     DownloadThrows, ReadAudio, ReadCrashes, Compute, UploadFails,
     SaySampledinfinite, SayFinishNow, WaitNotified, ResetForNext, StopClient,
     ReturnFromMain, Exit
<1>3. /\ sender'.at = "push" => sender'.msg \notin Final
      /\ \A i \in 1..Len(pushed') : pushed'[i] \notin Final
  <2>1. CASE /\ sender' = sender
             /\ pushed' = pushed \/ \E m \in Control : pushed' = Append(pushed, m)
    BY <1>1, <1>t, <2>1, PushedKept, FinalIsData DEF Messages
  <2>2. CASE SendContinues
    <3>1. sender'.at # "push"
      BY <1>t, <2>2, SendStep
    <3>2. CASE SendPost
      BY <1>1, <3>1, <3>2 DEF SendPost, queueVars
    <3>3. CASE SendPush
      <4>1. /\ sender.msg \in Messages /\ pushed' = Append(pushed, sender.msg)
            /\ sender.msg \notin Final
        BY <1>1, <1>t, <3>3, SenderMsg, SaysWords DEF SendPush, ConnTypeOK
      <4> QED BY <1>1, <1>t, <3>1, <4>1, PushedKept
    <3> QED BY <2>2, <3>2, <3>3 DEF SendContinues
  <2>3. CASE Says
    <3>1. pushed' = pushed
      BY <2>3 DEF Says, SayUserId, SaySourceReady, SayRunFunction, SaySampledinfinite,
         SayFinishNow, Say, Request, SendMessage, SendCheck, queueVars, vars, connVars
    <3>2. sender'.at = "push" => sender'.msg \notin Final
      BY <1>1, <2>3 DEF Says, SayUserId, SaySourceReady, SayRunFunction, At, Final,
         SaySampledinfinite, SayFinishNow, Say, Request, SendMessage, SendCheck, vars,
         connVars
    <3> QED BY <1>1, <3>1, <3>2
  <2> QED BY <2>1, <2>2, <2>3, ConversationSteps
<1> QED BY <1>2, <1>3

\* The server hears of a product, or of the end, only when a product is in the
\* bucket, whichever of the uploads and sends fail: what reached it was queued.
THEOREM AnnouncesOnlyProducts == ProgSafety => []NoFalseAnnouncement
<1>1. ProgInit => AnnounceInv
  BY DEF ProgInit, Init, ConnInit, NoSender, AnnounceInv
<1>2. Inv /\ ProgVarsOK /\ SaidInv /\ AnnounceInv /\ [ProgNext]_allVars => AnnounceInv'
  BY AnnounceStep
<1>3. Inv /\ InOrder /\ AnnounceInv => NoFalseAnnouncement
  <2> SUFFICES ASSUME Inv, InOrder, AnnounceInv, NEW i \in 1..Len(wire),
                      wire[i] \in {"sampledinfinite", "finish_now"}
               PROVE  bucket # <<>>
    BY DEF NoFalseAnnouncement
  <2>1. i \in 1..Len(pushed) /\ wire[i] = pushed[i]
    BY WiredWasPushed DEF Inv, TypeOK
  <2> QED BY <2>1 DEF AnnounceInv, Final
<1> QED BY <1>1, <1>2, <1>3, SaidInvariance, ProgInvariance, ProgramUsesClient,
           ClientDeliversInOrder, PTL DEF ProgSafety

-----------------------------------------------------------------------------
(* Requests, counted.                                                      *)

\* A queue has finitely many requests in it.
LEMMA RequestsFinite ==
  ASSUME NEW q \in Seq(Messages)
  PROVE  IsFiniteSet(RequestsIn(q)) /\ Cardinality(RequestsIn(q)) \in Nat
<1>1. Len(q) \in Int /\ 1 \in Int
  BY LenProperties
<1>2. IsFiniteSet(1..Len(q))
  BY <1>1, FS_Interval
<1>3. RequestsIn(q) \in SUBSET (1..Len(q))
  BY DEF RequestsIn
<1>4. IsFiniteSet(RequestsIn(q))
  BY <1>2, <1>3, FS_Subset
<1> QED BY <1>4, FS_CardinalityType

\* One more request, or none.
LEMMA RequestsAppend ==
  ASSUME NEW q \in Seq(Messages), NEW m \in Messages
  PROVE  Cardinality(RequestsIn(Append(q, m))) =
           Cardinality(RequestsIn(q)) + (IF m \in Requests THEN 1 ELSE 0)
<1>1. /\ Len(q) \in Nat /\ Len(Append(q, m)) = Len(q) + 1
      /\ \A i \in 1..Len(q) : Append(q, m)[i] = q[i]
      /\ Append(q, m)[Len(q) + 1] = m
  BY AppendProperties, LenProperties
<1>2. IsFiniteSet(RequestsIn(q)) /\ Cardinality(RequestsIn(q)) \in Nat
  BY RequestsFinite
<1>3. CASE m \in Requests
  <2>1. RequestsIn(Append(q, m)) = RequestsIn(q) \cup {Len(q) + 1}
    BY <1>1, <1>3 DEF RequestsIn
  <2>2. Len(q) + 1 \notin RequestsIn(q)
    BY <1>1 DEF RequestsIn
  <2> QED BY <1>2, <1>3, <2>1, <2>2, FS_AddElement
<1>4. CASE m \notin Requests
  <2>1. RequestsIn(Append(q, m)) = RequestsIn(q)
    BY <1>1, <1>4 DEF RequestsIn
  <2> QED BY <1>2, <1>4, <2>1
<1> QED BY <1>3, <1>4

\* A prefix holds no more requests than the whole.
LEMMA RequestsOfPrefix ==
  ASSUME NEW p \in Seq(Messages), NEW q \in Seq(Messages), Len(p) <= Len(q),
         \A i \in 1..Len(p) : p[i] = q[i]
  PROVE  Cardinality(RequestsIn(p)) <= Cardinality(RequestsIn(q))
<1>1. Len(p) \in Nat /\ Len(q) \in Nat
  BY LenProperties
<1>2. RequestsIn(p) \in SUBSET RequestsIn(q)
  BY <1>1 DEF RequestsIn
<1> QED BY <1>2, RequestsFinite, FS_Subset

\* The number of requests received never falls: the wire only grows.
LEMMA RequestsReceivedStep ==
  ASSUME ConnTypeOK, ConnTypeOK', [ConnNext]_connVars
  PROVE  /\ RequestsReceived \in Nat /\ RequestsReceived' \in Nat
         /\ RequestsReceived <= RequestsReceived'
<1>t. wire \in Seq(Messages) /\ wire' \in Seq(Messages)
  BY DEF ConnTypeOK
<1>1. RequestsReceived \in Nat /\ RequestsReceived' \in Nat
  BY <1>t, RequestsFinite DEF RequestsReceived
<1>2. wire' = wire \/ \E b \in Seq(Messages) : wire' = wire \o b
  <2>1. CASE WriteOk
    BY <2>1 DEF WriteOk, ConnTypeOK
  <2>2. CASE WriteError
    <3>1. PICK k \in 0..Len(m_current_msgs) :
            wire' = wire \o SubSeq(m_current_msgs, 1, k)
      BY <2>2 DEF WriteError
    <3>2. SubSeq(m_current_msgs, 1, k) \in Seq(Messages)
      BY CutQueue DEF ConnTypeOK
    <3> QED BY <3>1, <3>2
  <2>3. CASE WriteFrame
    BY <2>3 DEF WriteFrame, writeVars
  <2> QED BY <2>1, <2>2, <2>3, WritePathOnly
<1>3. CASE wire' = wire
  BY <1>1, <1>3 DEF RequestsReceived
<1>4. ASSUME NEW b \in Seq(Messages), wire' = wire \o b
      PROVE  RequestsReceived <= RequestsReceived'
  <2>1. /\ Len(wire) \in Nat /\ Len(b) \in Nat /\ Len(wire') = Len(wire) + Len(b)
        /\ \A i \in 1..Len(wire) : wire'[i] = wire[i]
    BY <1>4, <1>t, ConcatProperties, LenProperties
  <2>2. Len(wire) <= Len(wire') /\ \A i \in 1..Len(wire) : wire[i] = wire'[i]
    BY <2>1
  <2> QED BY <1>t, <2>2, RequestsOfPrefix DEF RequestsReceived
<1> QED BY <1>1, <1>2, <1>3, <1>4

\* Every request that was queued, or is about to be, is a round of main().
AskedInv ==
  Cardinality(RequestsIn(pushed))
    + (IF sender.at = "push" /\ sender.msg \in Requests THEN 1 ELSE 0) <= rounds

\* A request is counted in rounds before it can be pushed.
LEMMA AskedStep ==
  ASSUME Inv, ProgVarsOK, SaidInv, AskedInv, [ProgNext]_allVars
  PROVE  AskedInv'
<1>t. /\ ConnTypeOK /\ TypeOK /\ pushed \in Seq(Messages) /\ rounds \in Nat
      /\ Cardinality(RequestsIn(pushed)) \in Nat
  BY RequestsFinite DEF Inv, TypeOK, ConnTypeOK, ProgVarsOK
<1>r. rounds' \in {rounds, rounds + 1}
  BY DEF ProgNext, Program, progVars, allVars, Server, ServerReplies,
     ServerAnnouncesUnasked, ServerCloses, unchangedByServer, GoTo, NoUri,
     ConnectFails, Connects, WaitForConnection, SayUserId, Say, SaySourceReady,
     Request, SayRunFunction, LoopExits, WaitForAudio, GetName, Download,
     DownloadThrows, ReadAudio, ReadCrashes, Compute, Upload, UploadFails,
     SaySampledinfinite, SayFinishNow, WaitNotified, ResetForNext, StopClient,
     ReturnFromMain, Exit
<1>1. CASE sender' = sender /\ pushed' = pushed
  BY <1>1, <1>t, <1>r DEF AskedInv
<1>2. CASE sender' = sender /\ \E m \in Control : pushed' = Append(pushed, m)
  <2>1. PICK m \in Control : pushed' = Append(pushed, m)
    BY <1>2
  <2>2. m \in Messages /\ m \notin Requests
    BY SaysWords DEF Messages
  <2>3. Cardinality(RequestsIn(pushed')) = Cardinality(RequestsIn(pushed)) + 0
    BY <1>t, <2>1, <2>2, RequestsAppend
  <2> QED BY <1>2, <1>t, <1>r, <2>3 DEF AskedInv
<1>3. CASE SendContinues
  <2>1. sender'.at # "push"
    BY <1>3, <1>t, SendStep
  <2>2. CASE SendPost
    BY <1>t, <1>r, <2>1, <2>2 DEF AskedInv, SendPost, queueVars
  <2>3. CASE SendPush
    <3>1. sender.at = "push" /\ sender.msg \in Messages /\ pushed' = Append(pushed, sender.msg)
      BY <1>t, <2>3, SenderMsg, SaysWords DEF SendPush, ConnTypeOK
    <3>2. Cardinality(RequestsIn(pushed')) =
            Cardinality(RequestsIn(pushed)) + (IF sender.msg \in Requests THEN 1 ELSE 0)
      BY <1>t, <3>1, RequestsAppend
    <3> QED BY <1>t, <1>r, <2>1, <3>1, <3>2 DEF AskedInv
  <2> QED BY <1>3, <2>2, <2>3 DEF SendContinues
<1>4. CASE Says /\ \E msg \in Data : SendMessage(msg)
  <2>1. pushed' = pushed /\ sender.at # "push"
    BY <1>4 DEF SendMessage, SendCheck, NoSender, queueVars
  <2>2. CASE SaySourceReady \/ SayRunFunction
    <3>1. rounds' = rounds + 1
      BY <2>2 DEF SaySourceReady, SayRunFunction, Request
    <3> QED BY <1>t, <2>1, <3>1 DEF AskedInv
  <2>3. CASE SayUserId \/ SaySampledinfinite \/ SayFinishNow
    <3>1. sender'.at = "push" => sender'.msg \notin Requests
      BY <2>1, <2>3 DEF SayUserId, SaySampledinfinite, SayFinishNow, Say, SendMessage,
         SendCheck, Requests, vars, connVars
    <3> QED BY <1>t, <1>r, <2>1, <3>1 DEF AskedInv
  <2> QED BY <1>4, <2>2, <2>3 DEF Says
<1> QED BY <1>1, <1>2, <1>3, <1>4, ConversationSteps

\* The server has received no more requests than main() made.
LEMMA ReceivedWasAsked ==
  ASSUME ConnTypeOK, InOrder, rounds \in Nat, AskedInv
  PROVE  RequestsReceived <= rounds
<1>t. /\ wire \in Seq(Messages) /\ pushed \in Seq(Messages)
      /\ Cardinality(RequestsIn(wire)) \in Nat /\ Cardinality(RequestsIn(pushed)) \in Nat
  BY RequestsFinite DEF ConnTypeOK
<1>1. Len(wire) <= Len(pushed) /\ \A i \in 1..Len(wire) : wire[i] = pushed[i]
  BY WiredWasPushed DEF InOrder
<1>2. Cardinality(RequestsIn(wire)) <= Cardinality(RequestsIn(pushed))
  BY <1>t, <1>1, RequestsOfPrefix
<1> QED BY <1>t, <1>2 DEF RequestsReceived, AskedInv

-----------------------------------------------------------------------------
(* Each answer belongs to the latest request.                              *)

Uploads == {i \in 1..Len(inbox) : inbox[i].op = "text"}

\* main() waits for the answer to its request, or is on its way to the wait.
Expecting == pc = "wait_audio" \/ (pc = "get_name" /\ main_pc \in Waiting)

\* No answer is on its way or inside on_message, save after condition_met is set.
Handled == callback.handler = "message" => handler_pc = "notify"
Quiet   == Uploads = {} /\ Handled

\* At most one answer is under way, and only while main() waits for it; the
\* condition is met exactly by the answer to the latest request.
AnswersOK ==
  /\ replies \in {rounds - 1, rounds}
  /\ replies = rounds \/ Expecting
  /\ Quiet \/ (Expecting /\ replies = rounds)
  /\ condition_met => /\ Quiet /\ rounds > 0 /\ replies = rounds
                      /\ audio_source_name = Sources[rounds]
  /\ \A i, j \in Uploads : i = j /\ inbox[i].body.name = Sources[replies]
  /\ Uploads = {} \/ Handled
  /\ callback.handler = "message" /\ handler_pc \in {"start", "assign"}
       => callback.body.name = Sources[replies]
  /\ handler_pc \in {"lock", "set"} => audio_source_name = Sources[replies]
  /\ pc = "while" /\ main_pc \notin {"reset_lock", "reset_clear"} => ~condition_met
  /\ pc \in {"download", "read", "compute"} => object_key = Sources[rounds]

Early == {"start", "wait_connection", "say_user_id", "say_source_ready"}

AnswerInv ==
  /\ AskedInv
  /\ replies <= RequestsReceived
  /\ pc \in Early => rounds = 0
  /\ Expecting => rounds > 0
  /\ unsolicited = 0 => AnswersOK

\* What the loop does to the frames and the handlers: it drops some of the first
\* frames, or hands the first one, a text, to on_message.
LEMMA LoopReads ==
  ASSUME ConnTypeOK, LoopStep
  PROVE  \/ /\ callback'.handler # "message"
            /\ \E k \in 0..Len(inbox) :
                 /\ Len(inbox') = Len(inbox) - k
                 /\ \A i \in 1..Len(inbox') : inbox'[i] = inbox[i + k]
         \/ /\ 1 \in Uploads
            /\ callback'.handler = "message" /\ callback'.body = inbox[1].body
            /\ Len(inbox') = Len(inbox) - 1
            /\ \A i \in 1..Len(inbox') : inbox'[i] = inbox[i + 1]
<1>t. inbox \in Seq(Frames) /\ Len(inbox) \in Nat /\ buffered \in 0..Len(inbox)
      /\ \A i \in 1..Len(inbox) : inbox[i] \in Frames
  BY ElementOfSeq, LenProperties DEF ConnTypeOK
<1>c. callback = NoCall
  BY LoopCallsWhenFree
<1> DEFINE Drops == \E k \in 0..Len(inbox) :
                      /\ Len(inbox') = Len(inbox) - k
                      /\ \A i \in 1..Len(inbox') : inbox'[i] = inbox[i + k]
<1>k. inbox' = inbox => Drops
  <2> SUFFICES ASSUME inbox' = inbox PROVE Drops
    OBVIOUS
  <2>1. 0 \in 0..Len(inbox) /\ Len(inbox') = Len(inbox) - 0
    BY <1>t
  <2>2. \A i \in 1..Len(inbox') : inbox'[i] = inbox[i + 0]
    BY <1>t
  <2> QED BY <2>1, <2>2
<1>1. ASSUME NEW op, Consume(op)
      PROVE  /\ inbox # <<>> /\ 1 \in 1..Len(inbox) /\ inbox[1].op = op
             /\ Len(inbox') = Len(inbox) - 1
             /\ \A i \in 1..Len(inbox') : inbox'[i] = inbox[i + 1]
  <2>1. inbox # <<>> /\ 1 \in 1..Len(inbox) /\ inbox[1].op = op
    BY <1>t, <1>1, EmptySeq DEF Consume, Consuming
  <2>2. /\ Len(inbox') = Len(inbox) - 1
        /\ \A i \in 1..Len(Tail(inbox)) : Tail(inbox)[i] = inbox[i + 1]
    BY <1>t, <1>1, <2>1, HeadTailProperties DEF Consume
  <2> QED BY <1>1, <2>1, <2>2 DEF Consume
<1>2. CASE ReadText
  <2>1. CASE m_state = "open"
    <3>1. 1 \in Uploads
      BY <1>1, <1>2 DEF ReadText, Uploads
    <3>2. callback'.handler = "message" /\ callback'.body = inbox[1].body
      BY <1>2, <2>1 DEF ReadText, Call
    <3> QED BY <1>1, <1>2, <3>1, <3>2 DEF ReadText
  <2>2. CASE m_state # "open"
    <3>1. callback'.handler # "message"
      BY <1>2, <1>c, <2>2 DEF ReadText, callVars, NoCall
    <3>2. Drops
      BY <1>t, <1>1, <1>2 DEF ReadText
    <3> QED BY <3>1, <3>2
  <2> QED BY <2>1, <2>2
<1>3. CASE ReadPing \/ ReadClose
  <2>1. callback'.handler # "message"
    BY <1>3, <1>c DEF ReadPing, ReadClose, callVars, NoCall
  <2>2. Drops
    BY <1>t, <1>1, <1>3 DEF ReadPing, ReadClose
  <2> QED BY <2>1, <2>2
<1>4. CASE ReadInvalid
  <2>1. callback'.handler # "message"
    BY <1>4, <1>c DEF ReadInvalid, callVars, NoCall
  <2>2. /\ \A i \in (buffered + 1)..Len(inbox) : inbox[i] \in Frames
        /\ inbox' = SubSeq(inbox, buffered + 1, Len(inbox))
    BY <1>t, <1>4 DEF ReadInvalid
  <2>3. /\ Len(inbox') = Len(inbox) - buffered
        /\ \A i \in 1..(Len(inbox) - (buffered + 1) + 1) :
             inbox'[i] = inbox[(buffered + 1) + i - 1]
    BY <1>t, <2>2, SubSeqProperties
  <2>4. \A i \in 1..Len(inbox') : inbox'[i] = inbox[i + buffered]
    BY <1>t, <2>3
  <2> QED BY <1>t, <2>1, <2>3, <2>4
<1>5. CASE ~ReadText /\ ~ReadPing /\ ~ReadClose /\ ~ReadInvalid
  <2>1. inbox' = inbox /\ callback'.handler # "message"
    BY <1>c, <1>5 DEF LoopStep, NoCall, readVars, callVars, WriteFrame, WriteOk,
       WriteError, OpenOk, OpenBadExtensions, OpenFail, ReadCompletes, ReadError,
       CloseTimeout, HandleTerminate, LoopReturns, Call
  <2> QED BY <1>k, <2>1
<1> QED BY <1>2, <1>3, <1>4, <1>5

\* The loop hands the one answer under way to on_message, or drops it.
LEMMA AnswersLoop ==
  ASSUME Inv, ProgVarsOK, AnswersOK, Transport, UNCHANGED progVars
  PROVE  AnswersOK'
<1>u. /\ UNCHANGED <<condition_met, audio_source_name, handler_pc, main_pc, pc, rounds,
                     replies, object_key>>
      /\ ConnTypeOK /\ LoopStep /\ Len(inbox) \in Nat
  BY LenProperties DEF Transport, clientVars, progVars, Inv, TypeOK, ConnTypeOK
<1>c. callback = NoCall /\ Handled /\ handler_pc = "start"
  BY <1>u, LoopCallsWhenFree
  DEF Handled, NoCall, Inv, Positions, TypeOK, ClientTypeOK, HandlerPcs
<1>1. CASE /\ callback'.handler # "message"
           /\ \E k \in 0..Len(inbox) :
                /\ Len(inbox') = Len(inbox) - k
                /\ \A i \in 1..Len(inbox') : inbox'[i] = inbox[i + k]
  <2>1. PICK k \in 0..Len(inbox) : /\ Len(inbox') = Len(inbox) - k
                                   /\ \A i \in 1..Len(inbox') : inbox'[i] = inbox[i + k]
    BY <1>1
  <2>2. \A i \in Uploads' : i \in Int /\ i + k \in Uploads /\ inbox'[i] = inbox[i + k]
    BY <1>u, <2>1 DEF Uploads
  <2>3. Handled' /\ (Uploads = {} => Uploads' = {})
    BY <1>1, <2>2 DEF Handled
  <2>4. \A i, j \in Uploads' : i = j /\ inbox'[i].body.name = Sources[replies]
    <3> SUFFICES ASSUME NEW i \in Uploads', NEW j \in Uploads'
                 PROVE  i = j /\ inbox'[i].body.name = Sources[replies]
      OBVIOUS
    <3>1. i + k \in Uploads /\ j + k \in Uploads /\ i \in Int /\ j \in Int /\ k \in Int
      BY <2>2
    <3>2. i + k = j + k /\ inbox[i + k].body.name = Sources[replies]
      BY <3>1 DEF AnswersOK
    <3> QED BY <2>2, <3>1, <3>2
  <2> QED BY <1>1, <1>u, <1>c, <2>3, <2>4 DEF AnswersOK, Quiet, Expecting
<1>2. CASE /\ 1 \in Uploads
           /\ callback'.handler = "message" /\ callback'.body = inbox[1].body
           /\ Len(inbox') = Len(inbox) - 1
           /\ \A i \in 1..Len(inbox') : inbox'[i] = inbox[i + 1]
  <2>1. Uploads' = {}
    <3> SUFFICES ASSUME NEW i \in Uploads' PROVE FALSE
      OBVIOUS
    <3>1. i + 1 \in Uploads /\ i \in 1..Len(inbox')
      BY <1>u, <1>2 DEF Uploads
    <3>2. i + 1 = 1
      BY <1>2, <3>1 DEF AnswersOK
    <3> QED BY <1>u, <1>2, <3>1, <3>2
  <2>2. inbox[1].body.name = Sources[replies] /\ ~Quiet
    BY <1>2 DEF AnswersOK, Quiet
  <2>3. ~condition_met
    BY <2>2 DEF AnswersOK
  <2> QED BY <1>u, <1>c, <1>2, <2>1, <2>2, <2>3 DEF AnswersOK, Quiet, Expecting
<1> QED BY <1>u, <1>1, <1>2, LoopReads

\* on_message copies the name, and only then sets the condition.
LEMMA AnswersHandler ==
  ASSUME Inv, ProgVarsOK, AnswersOK, Expecting => rounds > 0,
         Handler, UNCHANGED progVars
  PROVE  AnswersOK'
<1>u. UNCHANGED <<inbox, pc, rounds, replies, object_key>>
  BY DEF progVars, Handler, Return, HandlerReturns, OnOpenHdl, OnOpenConnected, OnFail,
     OnMessageIgnored, OnMessageThrows, OnMessageAssign, OnMessageAssigned,
     OnMessageLock, OnMessageSet, OnMessageNotify, connVars, readVars
<1>p. Uploads' = Uploads
  BY <1>u DEF Uploads
<1>1. CASE OnOpenHdl \/ OnOpenConnected \/ OnFail \/ OnMessageIgnored
  BY <1>1, <1>u, <1>p DEF OnOpenHdl, OnOpenConnected, OnFail, OnMessageIgnored, Return,
     HandlerReturns, NoCall, connVars, callVars, AnswersOK, Quiet, Handled, Expecting
<1>2. CASE OnMessageThrows \/ OnMessageLock
  BY <1>2, <1>u, <1>p DEF OnMessageThrows, OnMessageLock, connVars, callVars, Inv,
     Positions, AnswersOK, Quiet, Handled, Expecting
<1>3. CASE OnMessageAssign
  <2>1. ~Quiet /\ ~condition_met
    BY <1>3 DEF OnMessageAssign, AnswersOK, Quiet, Handled
  <2> QED BY <1>3, <1>u, <1>p, <2>1 DEF OnMessageAssign, connVars, callVars,
             AnswersOK, Quiet, Handled, Expecting
<1>4. CASE OnMessageAssigned
  <2>1. callback.handler = "message"
    BY <1>4 DEF OnMessageAssigned, Inv, Positions
  <2>2. ~Quiet /\ ~condition_met /\ callback.body.name = Sources[replies]
    BY <1>4, <2>1 DEF OnMessageAssigned, AnswersOK, Quiet, Handled
  <2> QED BY <1>4, <1>u, <1>p, <2>1, <2>2 DEF OnMessageAssigned, connVars, callVars,
             AnswersOK, Quiet, Handled, Expecting
<1>5. CASE OnMessageSet
  <2>1. callback.handler = "message" /\ callback' = callback
    BY <1>5 DEF OnMessageSet, Inv, Positions, connVars, callVars
  <2>2. ~Handled /\ Uploads = {} /\ Expecting /\ replies = rounds /\ rounds > 0
        /\ audio_source_name = Sources[replies]
    BY <1>5, <2>1 DEF OnMessageSet, AnswersOK, Quiet, Handled
  <2> QED BY <1>5, <1>u, <1>p, <2>1, <2>2 DEF OnMessageSet, AnswersOK, Quiet, Handled,
             Expecting
<1>6. CASE OnMessageNotify
  <2>1. Handled /\ Handled'
    BY <1>6 DEF OnMessageNotify, Return, HandlerReturns, NoCall, Handled
  <2>2. main_pc' \in Waiting <=> main_pc \in Waiting
    BY <1>6 DEF OnMessageNotify, Waiting
  <2>3. main_pc' \in {"reset_lock", "reset_clear"} <=> main_pc \in {"reset_lock", "reset_clear"}
    BY <1>6 DEF OnMessageNotify
  <2> QED BY <1>6, <1>u, <1>p, <2>1, <2>2, <2>3 DEF OnMessageNotify, Return,
             HandlerReturns, NoCall, AnswersOK, Quiet, Expecting
<1> QED BY <1>1, <1>2, <1>3, <1>4, <1>5, <1>6 DEF Handler

\* Waits end only when the condition is met, and the reset clears it.
LEMMA AnswersInCall ==
  ASSUME ProgVarsOK, AnswersOK, MainInCall \/ SpuriousWakeup, UNCHANGED progVars
  PROVE  AnswersOK'
<1>u. UNCHANGED <<inbox, callback, handler_pc, audio_source_name, pc, rounds, replies,
                  object_key>>
  BY DEF progVars, MainInCall, SpuriousWakeup, SendContinues, SendPush, SendPost,
     WaitLock, WaitReturns, WaitAgain, WaitBlock, ResetLock, ResetReturns, Join,
     unchangedByWait, connVars, readVars, callVars
<1>p. Uploads' = Uploads /\ Handled' = Handled /\ Quiet' = Quiet
  BY <1>u DEF Uploads, Handled, Quiet
<1>1. CASE WaitReturns
  <2>1. condition_met /\ condition_met' = condition_met /\ main_pc = "wait_test"
        /\ main_pc' = "idle"
    BY <1>1 DEF WaitReturns, unchangedByWait
  <2>2. Quiet /\ replies = rounds
    BY <2>1 DEF AnswersOK
  <2> QED BY <1>u, <1>p, <2>1, <2>2 DEF AnswersOK
<1>2. CASE ResetReturns
  <2>1. ~condition_met' /\ main_pc \notin Waiting
    BY <1>2 DEF ResetReturns, Waiting
  <2> QED BY <1>u, <1>p, <2>1 DEF AnswersOK, Expecting
<1>3. CASE SendContinues \/ WaitLock \/ WaitAgain \/ WaitBlock \/ ResetLock \/ Join
           \/ SpuriousWakeup
  <2>1. /\ condition_met' = condition_met
        /\ main_pc' \in Waiting <=> main_pc \in Waiting
        /\ main_pc' \notin {"reset_lock", "reset_clear"}
             => main_pc \notin {"reset_lock", "reset_clear"}
    BY <1>3 DEF SendContinues, WaitLock, WaitAgain, WaitBlock, ResetLock, Join,
       SpuriousWakeup, unchangedByWait, Waiting
  <2> QED BY <1>u, <1>p, <2>1 DEF AnswersOK, Expecting
<1> QED BY <1>1, <1>2, <1>3 DEF MainInCall

\* The server answers only a request that reached it, which main() made and
\* still waits for.
LEMMA AnswersServer ==
  ASSUME Inv, ProgVarsOK, AnswersOK, RequestsReceived \in Nat,
         RequestsReceived <= rounds, Server, unsolicited' = 0
  PROVE  AnswersOK'
<1>u. /\ UNCHANGED <<condition_met, audio_source_name, handler_pc, main_pc, pc, rounds,
                     object_key, callback>>
      /\ replies \in Nat /\ rounds \in Nat
  BY DEF Server, ServerReplies, ServerAnnouncesUnasked, ServerCloses, unchangedByServer,
     clientVars, fileVars, PeerSends, callVars, ProgVarsOK
<1>t. inbox \in Seq(Frames)
  BY DEF Inv, TypeOK, ConnTypeOK
<1>a. ASSUME NEW frame \in Frames, inbox' = Append(inbox, frame)
      PROVE  /\ Len(inbox) \in Nat /\ Len(inbox') = Len(inbox) + 1
             /\ \A i \in 1..Len(inbox) : inbox'[i] = inbox[i]
             /\ inbox'[Len(inbox) + 1] = frame
  BY <1>a, <1>t, AppendProperties, LenProperties
<1>1. CASE ServerReplies
  <2>1. /\ replies' = replies + 1 /\ replies + 1 \in 1..Len(Sources)
        /\ replies < RequestsReceived
        /\ \E kind \in {"source_upload", "user_upload"} :
             inbox' = Append(inbox, Text(kind, Sources[replies + 1]))
    BY <1>1, <1>u DEF ServerReplies, PeerSends, ProgVarsOK
  <2>2. PICK kind \in {"source_upload", "user_upload"} :
          inbox' = Append(inbox, Text(kind, Sources[replies + 1]))
    BY <2>1
  <2>3. Text(kind, Sources[replies + 1]) \in Frames
    BY <2>1, SourceName, ServerFrame
  <2>4. /\ replies = rounds - 1 /\ replies' = rounds /\ Expecting /\ Quiet
        /\ ~condition_met
    BY <1>u, <2>1 DEF AnswersOK
  <2>5. /\ \A i \in Uploads' : i = Len(inbox) + 1
        /\ inbox'[Len(inbox) + 1].body.name = Sources[replies']
    <3>1. /\ Len(inbox) \in Nat /\ Len(inbox') = Len(inbox) + 1
          /\ \A i \in 1..Len(inbox) : inbox'[i] = inbox[i]
          /\ inbox'[Len(inbox) + 1] = Text(kind, Sources[replies + 1])
      BY <1>a, <2>2, <2>3
    <3>2. \A i \in 1..Len(inbox) : inbox[i].op # "text"
      BY <2>4 DEF Quiet, Uploads
    <3> QED BY <2>1, <3>1, <3>2 DEF Uploads, Text
  <2>6. Handled /\ Handled'
    BY <1>u, <2>4 DEF Quiet, Handled
  <2>7. handler_pc \notin {"lock", "set"}
        /\ ~(callback.handler = "message" /\ handler_pc \in {"start", "assign"})
    BY <2>6 DEF Handled, Inv, Positions
  <2>8. \A i, j \in Uploads' : i = j /\ inbox'[i].body.name = Sources[replies']
    BY <2>5
  <2>9. /\ replies' \in {rounds - 1, rounds} /\ replies' = rounds
        /\ Expecting' /\ ~condition_met'
    BY <1>u, <2>4 DEF Expecting
  <2> QED BY <1>u, <2>4, <2>6, <2>7, <2>8, <2>9 DEF AnswersOK
<1>2. CASE ServerAnnouncesUnasked
  BY <1>2 DEF ServerAnnouncesUnasked, ProgVarsOK
<1>3. CASE ServerCloses
  <2>1. inbox' = Append(inbox, [op |-> "close"]) /\ [op |-> "close"] \in Frames
        /\ replies' = replies
    BY <1>3 DEF ServerCloses, PeerSends, Frames, serverVars
  <2>2. Uploads' = Uploads /\ \A i \in Uploads : inbox'[i] = inbox[i]
    BY <1>a, <2>1 DEF Uploads
  <2>3. Handled' = Handled /\ Quiet' = Quiet /\ Expecting' = Expecting
    BY <1>u, <2>2 DEF Handled, Quiet, Expecting
  <2> QED BY <1>u, <2>1, <2>2, <2>3 DEF AnswersOK
<1> QED BY <1>1, <1>2, <1>3 DEF Server

\* A statement of main(): a request begins the wait for the next answer, and the
\* name is copied while the condition that announced it is met.
LEMMA AnswersProgram ==
  ASSUME ProgVarsOK, HeldInv, AnswersOK, pc \in Early => rounds = 0,
         Expecting => rounds > 0, Program
  PROVE  AnswersOK'
<1>u. UNCHANGED <<inbox, callback, handler_pc, audio_source_name, condition_met, replies>>
  BY DEF Program, NoUri, ConnectFails, Connects,
     WaitForConnection, SayUserId, Say, SaySourceReady, Request, SayRunFunction,
     LoopExits, WaitForAudio, GetName, Download, DownloadThrows, ReadAudio,
     ReadCrashes, Compute, Upload, UploadFails, SaySampledinfinite, SayFinishNow,
     WaitNotified, ResetForNext, StopClient, ReturnFromMain, Exit, GoTo, serverVars,
     fileVars, progVars, vars, clientVars, connVars, readVars, callVars, ClientConnect,
     SendMessage, WaitForCondition, ResetCondition, ClientStop, Destroy, MainDies,
     unchangedByWait, Connect, Stop, SendCheck
<1>p. Uploads' = Uploads /\ Handled' = Handled /\ Quiet' = Quiet
  BY <1>u DEF Uploads, Handled, Quiet
<1>t. rounds \in Nat /\ replies \in Nat
  BY DEF ProgVarsOK
<1>1. CASE SaySourceReady \/ SayRunFunction
  <2>1. /\ rounds' = rounds + 1 /\ pc' = "wait_audio" /\ ~Expecting
    BY <1>1 DEF SaySourceReady, SayRunFunction, Request, At, Expecting
  <2>2. ~condition_met
    BY <1>1, <1>t DEF SaySourceReady, SayRunFunction, At, Early, AnswersOK
  <2>3. replies = rounds /\ Quiet
    BY <2>1 DEF AnswersOK
  <2>4. replies = rounds' - 1 /\ Expecting'
    BY <1>t, <2>1, <2>3 DEF Expecting
  <2> QED BY <1>u, <1>p, <2>1, <2>2, <2>3, <2>4 DEF AnswersOK
<1>2. CASE GetName
  <2>1. condition_met /\ ~Expecting /\ ~Expecting' /\ rounds' = rounds
        /\ object_key' = audio_source_name /\ pc' = "download"
    BY <1>2 DEF GetName, At, Expecting, Waiting, HeldInv
  <2> QED BY <1>u, <1>p, <2>1 DEF AnswersOK
<1>3. CASE WaitForAudio
  <2>1. Expecting /\ Expecting' /\ rounds' = rounds /\ pc' = "get_name"
    BY <1>3 DEF WaitForAudio, WaitForCondition, At, GoTo, Expecting, Waiting
  <2> QED BY <1>u, <1>p, <2>1 DEF AnswersOK
<1>4. CASE ResetForNext
  <2>1. ~Expecting /\ ~Expecting' /\ rounds' = rounds /\ pc' \in {"stop", "while"}
        /\ main_pc' = "reset_lock"
    BY <1>4 DEF ResetForNext, ResetCondition, At, GoTo, Expecting, Waiting
  <2> QED BY <1>u, <1>p, <2>1 DEF AnswersOK
<1>5. CASE SayUserId
  <2>1. ~Expecting /\ ~Expecting' /\ rounds' = rounds /\ rounds = 0
        /\ pc' \in {"while", "say_source_ready"}
    BY <1>5 DEF SayUserId, Say, At, GoTo, Expecting, Early
  <2>2. ~condition_met
    BY <2>1 DEF AnswersOK
  <2> QED BY <1>u, <1>p, <2>1, <2>2 DEF AnswersOK
<1>6. CASE Download \/ ReadAudio \/ Compute
  <2>1. /\ ~Expecting /\ ~Expecting' /\ rounds' = rounds /\ object_key' = object_key
        /\ pc \in {"download", "read", "compute"} /\ pc' # "while"
    BY <1>6 DEF Download, ReadAudio, Compute, At, Expecting, fileVars
  <2> QED BY <1>u, <1>p, <2>1 DEF AnswersOK
<1>7. CASE DownloadThrows \/ ReadCrashes
  BY <1>7, <1>u, <1>p DEF DownloadThrows, ReadCrashes, MainDies, progVars, Expecting,
     AnswersOK
<1>8. CASE \/ NoUri \/ ConnectFails \/ Connects \/ WaitForConnection
           \/ LoopExits \/ Upload \/ UploadFails \/ SaySampledinfinite
           \/ SayFinishNow \/ WaitNotified \/ StopClient \/ ReturnFromMain \/ Exit
  <2>1. /\ ~Expecting /\ ~Expecting' /\ rounds' = rounds
        /\ pc' \notin {"download", "read", "compute", "while"}
    BY <1>8 DEF NoUri, ConnectFails, Connects, WaitForConnection, LoopExits, Upload,
       UploadFails, SaySampledinfinite, SayFinishNow, Say, WaitNotified, StopClient,
       ReturnFromMain, Exit, At, GoTo, Expecting
  <2> QED BY <1>u, <1>p, <2>1 DEF AnswersOK
<1> QED BY <1>1, <1>2, <1>3, <1>4, <1>5, <1>6, <1>7, <1>8 DEF Program

\* The bookkeeping around AnswersOK: requests are counted before they are sent,
\* answers after they are received.
LEMMA AnswerStep ==
  ASSUME Inv, Inv', ProgVarsOK, ProgVarsOK', SaidInv, HeldInv, InOrder, AnswerInv,
         [ProgNext]_allVars
  PROVE  AnswerInv'
<1>n. ConnTypeOK /\ ConnTypeOK' /\ [ConnNext]_connVars
  BY ProgramStepsClient, ClientStepsConnection DEF Inv, TypeOK
<1>t. rounds \in Nat /\ replies \in Nat
  BY DEF ProgVarsOK
<1>r. /\ RequestsReceived \in Nat /\ RequestsReceived' \in Nat
      /\ RequestsReceived <= RequestsReceived' /\ RequestsReceived <= rounds
  BY <1>n, <1>t, RequestsReceivedStep, ReceivedWasAsked DEF AnswerInv
<1>1. AskedInv'
  BY AskedStep DEF AnswerInv
<1>2. replies' <= RequestsReceived'
  <2>1. replies' = replies \/ (replies' = replies + 1 /\ replies < RequestsReceived)
    BY DEF ProgNext, Program, Server, ServerReplies, ServerAnnouncesUnasked, ServerCloses,
       serverVars, NoUri, ConnectFails, Connects,
       WaitForConnection, SayUserId, Say, SaySourceReady, Request, SayRunFunction,
       LoopExits, WaitForAudio, GetName, Download, DownloadThrows, ReadAudio,
       ReadCrashes, Compute, Upload, UploadFails, SaySampledinfinite, SayFinishNow,
       WaitNotified, ResetForNext, StopClient, ReturnFromMain, Exit, GoTo, progVars,
       allVars
  <2> QED BY <1>t, <1>r, <2>1 DEF AnswerInv
<1>3. (pc \in Early => rounds = 0)' /\ (Expecting => rounds > 0)'
  <2>1. CASE Program
    BY <2>1, <1>t DEF AnswerInv, Early, Expecting, Waiting, At, Program, NoUri,
       ConnectFails, Connects,
       WaitForConnection, SayUserId, Say, SaySourceReady, Request, SayRunFunction,
       LoopExits, WaitForAudio, GetName, Download, DownloadThrows, ReadAudio,
       ReadCrashes, Compute, Upload, UploadFails, SaySampledinfinite, SayFinishNow,
       WaitNotified, ResetForNext, StopClient, ReturnFromMain, Exit, GoTo, progVars,
       MainDies
  <2>2. CASE UNCHANGED <<pc, rounds>>
    <3>1. CASE main_pc' \in Waiting => main_pc \in Waiting
      BY <2>2, <3>1 DEF AnswerInv, Early, Expecting
    <3>2. CASE main_pc' \in Waiting /\ main_pc \notin Waiting
      <4>1. ~Transport /\ ~Handler /\ ~MainInCall /\ ~SpuriousWakeup /\ ~Server
            /\ ~UNCHANGED allVars
        BY <3>2 DEF Waiting, Transport, Handler, MainInCall, SpuriousWakeup, Server,
           ServerReplies, ServerAnnouncesUnasked, ServerCloses, unchangedByServer,
           clientVars, vars, allVars, SendContinues, WaitLock, WaitReturns, WaitAgain,
           WaitBlock, ResetLock, ResetReturns, Join, unchangedByWait, OnOpenHdl,
           OnOpenConnected, OnFail, OnMessageIgnored, OnMessageThrows, OnMessageAssign,
           OnMessageAssigned, OnMessageLock, OnMessageSet, OnMessageNotify
      <4> QED BY <2>1, <4>1 DEF ProgNext
    <3> QED BY <3>1, <3>2
  <2>3. CASE Server \/ UNCHANGED allVars \/ UNCHANGED progVars
    <3>1. UNCHANGED <<pc, rounds>>
      BY <2>3 DEF Server, ServerReplies, ServerAnnouncesUnasked, ServerCloses,
         unchangedByServer, allVars, progVars
    <3> QED BY <2>2, <3>1
  <2> QED BY <2>1, <2>3 DEF ProgNext
<1>4. (unsolicited = 0 => AnswersOK)'
  <2> SUFFICES ASSUME unsolicited' = 0 PROVE AnswersOK'
    OBVIOUS
  <2>1. unsolicited = 0
    BY DEF ProgVarsOK, ProgNext, Program, Server, ServerReplies, ServerAnnouncesUnasked,
       ServerCloses,
       serverVars, NoUri, ConnectFails, Connects,
       WaitForConnection, SayUserId, Say, SaySourceReady, Request, SayRunFunction,
       LoopExits, WaitForAudio, GetName, Download, DownloadThrows, ReadAudio,
       ReadCrashes, Compute, Upload, UploadFails, SaySampledinfinite, SayFinishNow,
       WaitNotified, ResetForNext, StopClient, ReturnFromMain, Exit, GoTo, progVars,
       allVars
  <2>2. AnswersOK /\ (pc \in Early => rounds = 0) /\ (Expecting => rounds > 0)
    BY <2>1 DEF AnswerInv
  <2>3. CASE Program
    BY <2>1, <2>3, AnswersProgram DEF AnswerInv
  <2>4. CASE Server
    BY <1>r, <2>1, <2>4, AnswersServer DEF AnswerInv
  <2>5. CASE (Transport \/ Handler \/ MainInCall \/ SpuriousWakeup) /\ UNCHANGED progVars
    BY <2>1, <2>5, AnswersLoop, AnswersHandler, AnswersInCall DEF AnswerInv
  <2>6. CASE UNCHANGED allVars
    <3>1. UNCHANGED <<inbox, callback, handler_pc, audio_source_name, condition_met,
                      main_pc, pc, rounds, replies, object_key>>
      BY <2>6 DEF allVars, vars, connVars, readVars, callVars, clientVars, progVars
    <3> QED BY <3>1, <2>1 DEF AnswerInv, AnswersOK, Quiet, Handled, Expecting, Uploads
  <2> QED BY <2>3, <2>4, <2>5, <2>6 DEF ProgNext
<1> QED BY <1>1, <1>2, <1>3, <1>4 DEF AnswerInv

\* Nothing is asked or answered at the start.
LEMMA AnswerInit == ProgInit => AnswerInv
<1> SUFFICES ASSUME ProgInit PROVE AnswerInv
  OBVIOUS
<1>1. /\ pushed = <<>> /\ wire = <<>> /\ inbox = <<>> /\ sender = NoSender
      /\ callback = NoCall /\ handler_pc = "start" /\ main_pc = "idle"
      /\ condition_met = FALSE /\ pc = "start" /\ rounds = 0 /\ replies = 0
  BY DEF ProgInit, Init, ConnInit
<1>2. RequestsIn(<<>>) = {} /\ Cardinality({}) = 0
  BY FS_EmptySet DEF RequestsIn
<1>3. Uploads = {} /\ Handled /\ ~Expecting
  BY <1>1 DEF Uploads, Handled, Expecting, NoCall
<1>4. AskedInv /\ replies <= RequestsReceived
  BY <1>1, <1>2 DEF AskedInv, RequestsReceived, NoSender
<1>5. AnswersOK
  BY <1>1, <1>3 DEF AnswersOK, Quiet, NoCall
<1> QED BY <1>1, <1>3, <1>4, <1>5 DEF AnswerInv

\* HeldInv and AnswerInv hold throughout; InOrder, which the client's proofs
\* give, is what bounds the requests the server has received.
LEMMA AnswerInvariance == ProgSafety => [](HeldInv /\ AnswerInv)
<1>1. ProgInit => HeldInv /\ AnswerInv
  BY AnswerInit DEF ProgInit, Init, HeldInv, Working
<1>2. Inv /\ ProgVarsOK /\ Inv' /\ ProgVarsOK' /\ SaidInv /\ InOrder /\ HeldInv
      /\ AnswerInv /\ [ProgNext]_allVars
        => HeldInv' /\ AnswerInv'
  BY HeldStep, AnswerStep
<1>3. ProgSafety => []InOrder
  BY ProgramUsesClient, ClientDeliversInOrder, PTL
<1> QED BY <1>1, <1>2, <1>3, SaidInvariance, ProgInvariance, PTL DEF ProgSafety

\* As long as the server speaks only when it is asked, the name main() downloads
\* is the whole answer to its latest request, with no lock around the string:
\* the handler writes it only between the request and the condition it sets.
THEOREM AnswersBelongToRequests == ProgSafety => []AnswersInStep
<1>1. AnswerInv => AnswersInStep
  BY DEF AnswerInv, AnswersOK, AnswersInStep
<1> QED BY <1>1, AnswerInvariance, PTL

-----------------------------------------------------------------------------
(* Where the stored chunks come from.                                      *)

\* The chunks of s come from the first r sources, in their order.
Traced(s, r) ==
  \A i \in 1..Len(s) :
    \E k \in 1..r :
      /\ s[i] = Sources[k]
      /\ \A j \in (i + 1)..Len(s) : \E l \in k..r : s[j] = Sources[l]

\* One more source leaves the trace as it is.
LEMMA TracedKept ==
  ASSUME NEW s, NEW r \in Nat, Traced(s, r)
  PROVE  Traced(s, r + 1)
<1> SUFFICES ASSUME NEW i \in 1..Len(s)
             PROVE  \E k \in 1..(r + 1) :
                      /\ s[i] = Sources[k]
                      /\ \A j \in (i + 1)..Len(s) : \E l \in k..(r + 1) : s[j] = Sources[l]
  BY DEF Traced
<1>1. PICK k \in 1..r :
        /\ s[i] = Sources[k]
        /\ \A j \in (i + 1)..Len(s) : \E l \in k..r : s[j] = Sources[l]
  BY DEF Traced
<1>2. k \in 1..(r + 1) /\ k..r \subseteq k..(r + 1)
  OBVIOUS
<1>3. \A j \in (i + 1)..Len(s) : \E l \in k..(r + 1) : s[j] = Sources[l]
  BY <1>1, <1>2
<1> QED BY <1>1, <1>2, <1>3

\* So do chunks of the latest source after all the others.
LEMMA TracedAppend ==
  ASSUME NEW s, NEW t, NEW r \in Nat, r > 0, Len(s) \in Nat, Len(t) \in Nat,
         Len(s) <= Len(t), Traced(s, r),
         \A i \in 1..Len(s) : t[i] = s[i],
         \A i \in (Len(s) + 1)..Len(t) : t[i] = Sources[r]
  PROVE  Traced(t, r)
<1> SUFFICES ASSUME NEW i \in 1..Len(t)
             PROVE  \E k \in 1..r :
                      /\ t[i] = Sources[k]
                      /\ \A j \in (i + 1)..Len(t) : \E l \in k..r : t[j] = Sources[l]
  BY DEF Traced
<1>1. CASE i <= Len(s)
  <2>1. PICK k \in 1..r :
          /\ s[i] = Sources[k]
          /\ \A j \in (i + 1)..Len(s) : \E l \in k..r : s[j] = Sources[l]
    BY <1>1 DEF Traced
  <2>2. ASSUME NEW j \in (i + 1)..Len(t)
        PROVE  \E l \in k..r : t[j] = Sources[l]
    <3>1. CASE j <= Len(s)
      <4>1. j \in (i + 1)..Len(s) /\ t[j] = s[j]
        BY <3>1
      <4> QED BY <2>1, <4>1
    <3>2. CASE j > Len(s)
      <4>1. r \in k..r /\ t[j] = Sources[r]
        BY <3>2
      <4> QED BY <4>1
    <3> QED BY <3>1, <3>2
  <2>3. t[i] = s[i]
    BY <1>1
  <2> QED BY <2>1, <2>2, <2>3
<1>2. CASE i > Len(s)
  <2>1. t[i] = Sources[r] /\ r \in 1..r /\ r \in r..r
    BY <1>2
  <2>2. \A j \in (i + 1)..Len(t) : t[j] = Sources[r]
    BY <1>2
  <2>3. \A j \in (i + 1)..Len(t) : \E l \in r..r : t[j] = Sources[l]
    BY <2>1, <2>2
  <2> QED BY <2>1, <2>3
<1> QED BY <1>1, <1>2

\* Every download so far replaced the file and the server only answered.
Clean == ~download_failed /\ unsolicited = 0

\* Then the file, once downloaded, is the latest source or no audio at all, and
\* so is what was read from it.
ProvInv ==
  Clean => /\ Traced(m_sampleStorage, rounds)
           /\ pc = "read" => temp_audio \in {object_key, Unreadable}
           /\ pc = "compute" => m_audioData \in {Absent, Sources[rounds]}

\* Compute appends chunks of the latest source, or none.
LEMMA ComputeTraced ==
  ASSUME ProgVarsOK, Compute, Traced(m_sampleStorage, rounds), rounds > 0,
         m_audioData \in {Absent, Sources[rounds]}
  PROVE  Traced(m_sampleStorage', rounds)
<1>1. PICK stored \in 0..(IF m_audioData = Absent THEN 0 ELSE MaxChunks) :
        m_sampleStorage' = m_sampleStorage \o [i \in 1..stored |-> m_audioData]
  BY DEF Compute
<1>t. /\ m_sampleStorage \in Seq(Playable) /\ rounds \in Nat
      /\ m_audioData \in Playable \cup {Absent} /\ Len(m_sampleStorage) \in Nat
  BY LenProperties DEF ProgVarsOK
<1>2. CASE m_audioData = Absent
  <2>1. stored = 0
    BY <1>1, <1>2
  <2> QED BY <1>1, <1>t, <2>1, StorageKept
<1>3. CASE m_audioData # Absent
  <2> DEFINE t == [i \in 1..stored |-> m_audioData]
  <2>1. stored \in Nat /\ m_audioData \in Playable /\ m_audioData = Sources[rounds]
    BY <1>1, <1>t, <1>3, ProgramAssumption
  <2>2. /\ t \in Seq(Playable) /\ Len(t) = stored
        /\ \A i \in 1..stored : t[i] = Sources[rounds]
    BY <2>1, IsASeq
  <2>3. /\ Len(m_sampleStorage') = Len(m_sampleStorage) + stored
        /\ \A i \in 1..Len(m_sampleStorage) : m_sampleStorage'[i] = m_sampleStorage[i]
        /\ \A i \in (Len(m_sampleStorage) + 1)..Len(m_sampleStorage') :
             m_sampleStorage'[i] = t[i - Len(m_sampleStorage)]
    BY <1>1, <1>t, <2>1, <2>2, ConcatProperties
  <2>4. \A i \in (Len(m_sampleStorage) + 1)..Len(m_sampleStorage') :
          m_sampleStorage'[i] = Sources[rounds]
    BY <1>t, <2>1, <2>2, <2>3
  <2>5. Len(m_sampleStorage') \in Nat /\ Len(m_sampleStorage) <= Len(m_sampleStorage')
    BY <1>t, <2>1, <2>3
  <2> QED BY <1>t, <2>3, <2>4, <2>5, TracedAppend
<1> QED BY <1>2, <1>3

\* Each step keeps the trace: only Compute adds chunks, and only of the file
\* that the latest answer named.
LEMMA ProvStep ==
  ASSUME ProgVarsOK, HeldInv, AnswerInv, ProvInv, [ProgNext]_allVars
  PROVE  ProvInv'
<1> SUFFICES ASSUME Clean'
             PROVE  /\ Traced(m_sampleStorage', rounds')
                    /\ pc' = "read" => temp_audio' \in {object_key', Unreadable}
                    /\ pc' = "compute" => m_audioData' \in {Absent, Sources[rounds']}
  BY DEF ProvInv, Clean, Traced
<1>t. rounds \in Nat /\ unsolicited \in Nat
  BY DEF ProgVarsOK
<1>1. CASE /\ Program
           /\ \/ NoUri \/ ConnectFails \/ Connects \/ WaitForConnection \/ SayUserId
              \/ LoopExits \/ WaitForAudio \/ UploadFails \/ SaySampledinfinite
              \/ SayFinishNow \/ WaitNotified \/ ResetForNext \/ StopClient
              \/ ReturnFromMain \/ Exit \/ GetName \/ Upload
  <2>1. /\ UNCHANGED <<m_sampleStorage, rounds, download_failed, unsolicited>>
        /\ pc' \notin {"read", "compute"}
    BY <1>1 DEF NoUri, ConnectFails, Connects, WaitForConnection, SayUserId, Say,
       LoopExits, WaitForAudio, UploadFails, SaySampledinfinite, SayFinishNow,
       WaitNotified, ResetForNext, StopClient, ReturnFromMain, Exit, GoTo, fileVars,
       serverVars, GetName, Upload
  <2>2. Clean
    BY <2>1 DEF Clean
  <2> QED BY <2>1, <2>2 DEF ProvInv
<1>2. CASE SaySourceReady \/ SayRunFunction
  <2>1. /\ UNCHANGED <<m_sampleStorage, download_failed, unsolicited>>
        /\ rounds' = rounds + 1 /\ pc' = "wait_audio"
    BY <1>2 DEF SaySourceReady, SayRunFunction, Request, fileVars, serverVars
  <2>2. Clean
    BY <2>1 DEF Clean
  <2> QED BY <1>t, <2>1, <2>2, TracedKept DEF ProvInv
<1>3. CASE Download
  <2>1. /\ UNCHANGED <<m_sampleStorage, rounds, object_key, unsolicited>> /\ pc' = "read"
        /\ temp_audio' \in {object_key, Unreadable} /\ download_failed' = download_failed
    BY <1>3 DEF Download, Clean, serverVars
  <2>2. Clean
    BY <2>1 DEF Clean
  <2> QED BY <2>1, <2>2 DEF ProvInv
<1>4. CASE ReadAudio
  <2>1. /\ UNCHANGED <<m_sampleStorage, rounds, object_key, temp_audio, download_failed,
                       unsolicited>>
        /\ pc = "read" /\ pc' = "compute"
        /\ m_audioData' = Absent \/ (temp_audio \in Playable /\ m_audioData' = temp_audio)
    BY <1>4 DEF ReadAudio, At, serverVars
  <2>2. Clean
    BY <2>1 DEF Clean
  <2>3. object_key = Sources[rounds] /\ temp_audio \in {object_key, Unreadable}
    BY <2>1, <2>2 DEF Clean, AnswerInv, AnswersOK, ProvInv
  <2>4. Unreadable \notin Playable
    BY ProgramAssumption DEF Playable, Unreadable, Leftover
  <2> QED BY <2>1, <2>2, <2>3, <2>4 DEF ProvInv
<1>5. CASE Compute
  <2>1. /\ UNCHANGED <<rounds, download_failed, unsolicited>>
        /\ pc = "compute" /\ pc' \notin {"read", "compute"}
    BY <1>5 DEF Compute, At, fileVars, serverVars
  <2>2. Clean
    BY <2>1 DEF Clean
  <2>3. rounds > 0
    BY <2>1, <2>2 DEF Clean, HeldInv, Working, AnswerInv, AnswersOK
  <2> QED BY <1>5, <2>1, <2>2, <2>3, ComputeTraced DEF ProvInv
<1>6. CASE Server
  <2>1. /\ UNCHANGED <<m_sampleStorage, rounds, object_key, temp_audio, m_audioData, pc,
                       download_failed>>
        /\ unsolicited' \in {unsolicited, unsolicited + 1}
    BY <1>6 DEF Server, ServerReplies, ServerAnnouncesUnasked, ServerCloses, serverVars,
       unchangedByServer, fileVars
  <2>2. Clean
    BY <1>t, <2>1 DEF Clean
  <2> QED BY <2>1, <2>2 DEF ProvInv
<1>7. CASE DownloadThrows \/ ReadCrashes \/ UNCHANGED progVars \/ UNCHANGED allVars
  <2>1. UNCHANGED progVars
    BY <1>7 DEF DownloadThrows, ReadCrashes, allVars
  <2>2. Clean
    BY <2>1 DEF Clean, progVars
  <2> QED BY <2>1, <2>2 DEF ProvInv, progVars
<1> QED BY <1>1, <1>2, <1>3, <1>4, <1>5, <1>6, <1>7 DEF ProgNext, Program

\* As long as every download replaces the file and the server only answers, the
\* chunks that become the product come from the objects announced to this
\* execution, in the order of the announcements: never from a file left by an
\* earlier one, and never from one announced before chunks already stored.
THEOREM ProductsAreTraced == ProgSafety => []Provenance
<1>1. ProgInit => ProvInv
  <2> SUFFICES ASSUME ProgInit PROVE ProvInv
    OBVIOUS
  <2>1. m_sampleStorage = <<>> /\ pc = "start" /\ Len(<<>>) = 0
    BY DEF ProgInit
  <2> QED BY <2>1 DEF ProvInv, Traced
<1>2. ProgVarsOK /\ HeldInv /\ AnswerInv /\ ProvInv /\ [ProgNext]_allVars => ProvInv'
  BY ProvStep
<1>3. ProvInv => Provenance
  BY DEF ProvInv, Clean, Traced, Provenance
<1> QED BY <1>1, <1>2, <1>3, AnswerInvariance, ProgInvariance, PTL DEF ProgSafety
=============================================================================
