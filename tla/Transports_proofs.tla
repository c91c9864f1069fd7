-------------------------- MODULE Transports_proofs --------------------------
(***************************************************************************)
(* Proofs about what lies under a connection: the asio endpoint keeps      *)
(* accepting and deletes nothing but its own io_service, only the last     *)
(* ping's timer runs, and the iostream transport hands every byte on once, *)
(* in order.                                                               *)
(***************************************************************************)
EXTENDS AsioEndpoint, ConnectionControls, IostreamTransport, NatSets,
        SequenceTheorems

(***************************************************************************)
(* The asio endpoint, for any number of accepts.                           *)
(***************************************************************************)
EndpointRecord ==
  [m_state : {"UNINITIALIZED", "READY", "LISTENING", "DESTROYED"},
   m_io_service : {"none", "own", "app"}, m_external_io_service : BOOLEAN,
   m_acceptor : {"open", "closed"}, m_work : BOOLEAN,
   loop : {"idle", "run", "poll", "run_one"}, stopped : BOOLEAN,
   timer : {"off", "armed", "due", "canceled"}, accepts : Nat,
   done : [Completions -> Nat], accepting : BOOLEAN, reinitialized : BOOLEAN,
   deleted : Seq({"none", "own", "app"})]

EndpointType == e \in EndpointRecord

\* What is outstanding belongs to a listening endpoint, whose acceptor is open.
Listens == /\ e.accepting \/ e.accepts > 0 => e.m_state = "LISTENING"
           /\ e.m_state = "LISTENING" => e.m_acceptor = "open"

\* An io_service is there from init_asio on, and one that would be deleted
\* without being the endpoint's own was left unmarked by a second init_asio.
Owns == /\ e.m_state = "UNINITIALIZED" => e.m_io_service = "none"
        /\ e.m_state \in {"READY", "LISTENING"} => e.m_io_service # "none"
        /\ e.m_io_service = "none" => ~e.m_external_io_service
        /\ e.m_io_service = "own" => ~e.m_external_io_service
        /\ e.m_io_service = "app" /\ ~e.m_external_io_service => e.reinitialized

EndpointInv == EndpointType /\ Listens /\ Owns /\ AcceptLoopLives /\ DeletesItsOwn

\* init_asio.
LEMMA InitAsioStep ==
  ASSUME EndpointInv, NEW service \in {"own", "app"}, NEW throws \in BOOLEAN,
         InitAsio(service, throws)
  PROVE  EndpointInv'
<1>1. EndpointType'
  <2>1. PICK external \in BOOLEAN : external = (service = "app")
    OBVIOUS
  <2>2. CASE e.m_state = "UNINITIALIZED"
    <3>1. e' = [e EXCEPT !.m_state = "READY", !.m_io_service = service,
                         !.m_external_io_service = external]
      BY <2>1, <2>2 DEF InitAsio
    <3> QED BY <3>1 DEF EndpointInv, EndpointType, EndpointRecord
  <2>3. CASE e' = [e EXCEPT !.m_external_io_service = FALSE, !.reinitialized = TRUE]
    BY <2>3 DEF EndpointInv, EndpointType, EndpointRecord
  <2>4. CASE e' = e
    BY <2>4 DEF EndpointInv, EndpointType, EndpointRecord
  <2> QED BY <2>2, <2>3, <2>4 DEF InitAsio
<1>2. Listens'
  BY DEF EndpointInv, EndpointType, EndpointRecord, Listens, InitAsio
<1>3. Owns'
  BY DEF EndpointInv, EndpointType, EndpointRecord, Owns, InitAsio
<1>4. AcceptLoopLives'
  BY DEF EndpointInv, EndpointType, EndpointRecord, AcceptLoopLives, Pending, Completions, InitAsio
<1>5. DeletesItsOwn'
  BY DEF EndpointInv, EndpointType, EndpointRecord, DeletesItsOwn, Alive, Owns, InitAsio
<1> QED BY <1>1, <1>2, <1>3, <1>4, <1>5 DEF EndpointInv

-----------------------------------------------------------------------------
(* The timers and the loop touch nothing the invariant speaks of.          *)

Kept == <<e.m_state, e.m_io_service, e.m_external_io_service, e.m_acceptor,
          e.accepts, e.done, e.accepting, e.reinitialized, e.deleted>>

\* A step that leaves these fields alone keeps the invariant.
LEMMA KeptStep ==
  ASSUME EndpointInv, EndpointType', UNCHANGED Kept
  PROVE  EndpointInv'
<1>1. Listens' /\ Owns' BY DEF EndpointInv, Listens, Owns, Kept
<1>2. AcceptLoopLives' BY DEF EndpointInv, AcceptLoopLives, Pending, Kept
<1>3. DeletesItsOwn' BY DEF EndpointInv, DeletesItsOwn, Alive, Kept
<1> QED BY <1>1, <1>2, <1>3 DEF EndpointInv

\* SetTimer, CancelTimers, TimerExpires and HandleTimer.
LEMMA TimerStep ==
  ASSUME EndpointInv, SetTimer \/ CancelTimers \/ TimerExpires \/ HandleTimer
  PROVE  EndpointInv'
<1>1. EndpointType' /\ UNCHANGED Kept
  <2>1. CASE SetTimer \/ CancelTimers \/ TimerExpires
    BY <2>1 DEF EndpointInv, EndpointType, EndpointRecord, Kept, SetTimer,
                CancelTimers, TimerExpires
  <2>2. CASE HandleTimer
    BY <2>2 DEF EndpointInv, EndpointType, EndpointRecord, Kept, HandleTimer, Executed
  <2> QED BY <2>1, <2>2
<1> QED BY <1>1, KeptStep

\* Run, RunReturns, StopLoop, ResetLoop, StartPerpetual and StopPerpetual.
LEMMA LoopStep ==
  ASSUME EndpointInv,
         \/ \E mode \in {"run", "poll", "run_one"} : Run(mode)
         \/ RunReturns \/ StopLoop \/ ResetLoop \/ StartPerpetual \/ StopPerpetual
  PROVE  EndpointInv'
<1>1. EndpointType' /\ UNCHANGED Kept
  <2>1. CASE \E mode \in {"run", "poll", "run_one"} : Run(mode)
    BY <2>1 DEF EndpointInv, EndpointType, EndpointRecord, Kept, Run
  <2>2. CASE RunReturns
    <3>1. PICK out \in BOOLEAN : out = (e.stopped \/ OutOfWork)
      OBVIOUS
    <3>2. e' = [e EXCEPT !.loop = "idle", !.stopped = out]
      BY <2>2, <3>1 DEF RunReturns
    <3> QED BY <3>2 DEF EndpointInv, EndpointType, EndpointRecord, Kept
  <2>3. CASE StopLoop
    BY <2>3 DEF EndpointInv, EndpointType, EndpointRecord, Kept, StopLoop
  <2>4. CASE ResetLoop
    BY <2>4 DEF EndpointInv, EndpointType, EndpointRecord, Kept, ResetLoop
  <2>5. CASE StartPerpetual
    BY <2>5 DEF EndpointInv, EndpointType, EndpointRecord, Kept, StartPerpetual
  <2>6. CASE StopPerpetual
    BY <2>6 DEF EndpointInv, EndpointType, EndpointRecord, Kept, StopPerpetual
  <2> QED BY <2>1, <2>2, <2>3, <2>4, <2>5, <2>6
<1> QED BY <1>1, KeptStep

-----------------------------------------------------------------------------
(* Listening and accepting.                                                *)

\* Listen and ListenOnHost.
LEMMA ListenStep ==
  ASSUME EndpointInv, NEW ok \in BOOLEAN,
         Listen(ok) \/ \E resolves \in BOOLEAN : ListenOnHost(resolves, ok)
  PROVE  EndpointInv'
<1>1. CASE UNCHANGED e
  BY <1>1 DEF EndpointInv, EndpointType, Listens, Owns, AcceptLoopLives, Pending,
              DeletesItsOwn, Alive
<1>2. CASE Listen(ok)
  <2>1. EndpointType'
    BY <1>2 DEF EndpointInv, EndpointType, EndpointRecord, Listen,
                clean_up_listen_after_error
  <2>2. Listens' /\ Owns'
    BY <1>2 DEF EndpointInv, EndpointType, EndpointRecord, Listens, Owns, Listen,
                clean_up_listen_after_error
  <2>3. AcceptLoopLives'
    BY <1>2 DEF EndpointInv, EndpointType, EndpointRecord, Listens, AcceptLoopLives,
                Pending, Listen, clean_up_listen_after_error
  <2>4. DeletesItsOwn'
    BY <1>2 DEF EndpointInv, EndpointType, EndpointRecord, DeletesItsOwn, Alive,
                Listen, clean_up_listen_after_error
  <2> QED BY <2>1, <2>2, <2>3, <2>4 DEF EndpointInv
<1> QED BY <1>1, <1>2 DEF ListenOnHost

\* StopListening.
LEMMA StopListeningStep ==
  ASSUME EndpointInv, StopListening
  PROVE  EndpointInv'
<1>1. EndpointType'
  <2> DEFINE canceled == e.done["canceled"] + e.accepts
  <2>1. canceled \in Nat
    BY DEF EndpointInv, EndpointType, EndpointRecord, Completions
  <2>2. [e.done EXCEPT !["canceled"] = canceled] \in [Completions -> Nat]
    BY <2>1 DEF EndpointInv, EndpointType, EndpointRecord
  <2> DEFINE done == [e.done EXCEPT !["canceled"] = canceled]
  <2>3. e' = [e EXCEPT !.m_state = "READY", !.m_acceptor = "closed", !.done = done,
                       !.accepts = 0, !.accepting = FALSE]
    BY DEF EndpointInv, EndpointType, EndpointRecord, StopListening
  <2> HIDE DEF done
  <2> QED BY <2>2, <2>3 DEF EndpointInv, EndpointType, EndpointRecord, done
<1>2. Listens' /\ Owns' /\ AcceptLoopLives'
  BY DEF EndpointInv, EndpointType, EndpointRecord, Listens, Owns, AcceptLoopLives,
         StopListening
<1>3. DeletesItsOwn'
  BY DEF EndpointInv, EndpointType, EndpointRecord, DeletesItsOwn, Alive, StopListening
<1> QED BY <1>1, <1>2, <1>3 DEF EndpointInv

\* start_accept changes the accepts and whether accepting goes on, and that ends
\* only where nothing is pending.
LEMMA StartAccepting ==
  ASSUME NEW d \in EndpointRecord, NEW created \in BOOLEAN,
         d.accepting => d.m_state = "LISTENING"
  PROVE  LET s == start_accept(d, created) IN
         /\ s \in EndpointRecord
         /\ s = [d EXCEPT !.accepts = s.accepts, !.accepting = s.accepting]
         /\ s.accepting => d.m_state = "LISTENING" /\ Pending(s) > 0
         /\ s.accepts > 0 => d.m_state = "LISTENING" \/ d.accepts > 0
<1> DEFINE s == start_accept(d, created)
<1>1. CASE d.m_state # "LISTENING"
  <2>1. start_accept(d, created) = d
    BY <1>1 DEF start_accept
  <2>2. d = [d EXCEPT !.accepts = d.accepts, !.accepting = d.accepting]
    BY DEF EndpointRecord
  <2> QED BY <1>1, <2>1, <2>2
<1>2. CASE d.m_state = "LISTENING" /\ created
  <2>1. s = [d EXCEPT !.accepts = d.accepts + 1, !.accepting = TRUE]
    BY <1>2 DEF start_accept, async_accept, EndpointRecord
  <2>2. d.accepts + 1 \in Nat /\ s \in EndpointRecord
    <3>1. d.accepts + 1 \in Nat BY DEF EndpointRecord
    <3> HIDE DEF s
    <3> QED BY <2>1, <3>1 DEF EndpointRecord
  <2>3. Pending(s) > 0
    BY <2>1, <2>2 DEF EndpointRecord, Pending, Completions
  <2> QED BY <1>2, <2>1, <2>2, <2>3 DEF EndpointRecord
<1>3. CASE d.m_state = "LISTENING" /\ ~created
  <2>1. PICK b \in BOOLEAN : b = (d.accepting /\ Pending(d) > 0)
    OBVIOUS
  <2>2. s = [d EXCEPT !.accepting = b]
    BY <1>3, <2>1 DEF start_accept
  <2>3. s \in EndpointRecord
    BY <2>2 DEF EndpointRecord
  <2>4. s = [d EXCEPT !.accepts = s.accepts, !.accepting = s.accepting]
    BY <2>2 DEF EndpointRecord
  <2>5. b => Pending(s) > 0
    BY <2>1, <2>2 DEF EndpointRecord, Pending
  <2> QED BY <1>3, <2>2, <2>3, <2>4, <2>5 DEF EndpointRecord
<1> QED BY <1>1, <1>2, <1>3

\* The invariant after an accept was started in a state that differs from e in
\* the accepts that are pending and in the loop.
LEMMA AcceptedStep ==
  ASSUME EndpointInv, NEW d \in EndpointRecord, NEW created \in BOOLEAN,
         e' = start_accept(d, created),
         d.m_state = e.m_state, d.m_io_service = e.m_io_service,
         d.m_external_io_service = e.m_external_io_service,
         d.m_acceptor = e.m_acceptor, d.accepts = e.accepts,
         d.accepting = e.accepting, d.reinitialized = e.reinitialized,
         d.deleted = e.deleted
  PROVE  EndpointInv'
<1>1. d.accepting => d.m_state = "LISTENING"
  BY DEF EndpointInv, Listens
<1>2. /\ e' \in EndpointRecord
      /\ e' = [d EXCEPT !.accepts = e'.accepts, !.accepting = e'.accepting]
      /\ e'.accepting => d.m_state = "LISTENING" /\ Pending(e') > 0
      /\ e'.accepts > 0 => d.m_state = "LISTENING" \/ d.accepts > 0
  BY <1>1, StartAccepting
<1>3. /\ e'.m_state = e.m_state /\ e'.m_io_service = e.m_io_service
      /\ e'.m_external_io_service = e.m_external_io_service
      /\ e'.m_acceptor = e.m_acceptor /\ e'.reinitialized = e.reinitialized
      /\ e'.deleted = e.deleted
  <2>1. PICK n, b : e' = [d EXCEPT !.accepts = n, !.accepting = b]
    BY <1>2
  <2> QED BY <2>1 DEF EndpointRecord
<1>4. EndpointType' BY <1>2 DEF EndpointType
<1>5. Listens' /\ Owns' BY <1>2, <1>3 DEF EndpointInv, Listens, Owns
<1>6. AcceptLoopLives' BY <1>2, <1>3, <1>5 DEF AcceptLoopLives, Listens
<1>7. DeletesItsOwn' BY <1>3 DEF EndpointInv, DeletesItsOwn, Alive
<1> QED BY <1>4, <1>5, <1>6, <1>7 DEF EndpointInv

\* StartAccept and HandleAccept.
LEMMA AcceptStep ==
  ASSUME EndpointInv, NEW created \in BOOLEAN,
         StartAccept(created) \/ HandleAccept(created)
  PROVE  EndpointInv'
<1>1. CASE StartAccept(created)
  BY <1>1, AcceptedStep DEF EndpointInv, EndpointType, StartAccept
<1>2. CASE HandleAccept(created)
  <2>1. PICK r \in Completions :
          /\ e.done[r] > 0
          /\ e' = start_accept([Executed(e) EXCEPT !.done[r] = @ - 1], created)
    BY <1>2 DEF HandleAccept
  <2> DEFINE done == [e.done EXCEPT ![r] = e.done[r] - 1]
             loop == IF e.loop = "run_one" THEN "idle" ELSE e.loop
             d == [e EXCEPT !.done = done, !.loop = loop]
  <2>2. [Executed(e) EXCEPT !.done[r] = @ - 1] = d
    BY DEF EndpointInv, EndpointType, EndpointRecord, Executed
  <2>3. done \in [Completions -> Nat]
    BY <2>1 DEF EndpointInv, EndpointType, EndpointRecord
  <2>4. loop \in {"idle", "run", "poll", "run_one"}
    BY DEF EndpointInv, EndpointType, EndpointRecord
  <2> HIDE DEF done, loop
  <2>5. /\ d \in EndpointRecord
        /\ d.m_state = e.m_state /\ d.m_io_service = e.m_io_service
        /\ d.m_external_io_service = e.m_external_io_service
        /\ d.m_acceptor = e.m_acceptor /\ d.accepts = e.accepts
        /\ d.accepting = e.accepting /\ d.reinitialized = e.reinitialized
        /\ d.deleted = e.deleted
    BY <2>3, <2>4 DEF EndpointInv, EndpointType, EndpointRecord
  <2> HIDE DEF d
  <2> QED BY <2>1, <2>2, <2>5, AcceptedStep
<1> QED BY <1>1, <1>2

\* AcceptCompletes.
LEMMA AcceptCompletesStep ==
  ASSUME EndpointInv, AcceptCompletes
  PROVE  EndpointInv'
<1>1. PICK r \in {"ok", "error"} :
        e' = [e EXCEPT !.accepts = @ - 1, !.done[r] = @ + 1]
  BY DEF AcceptCompletes
<1> DEFINE done == [e.done EXCEPT ![r] = e.done[r] + 1]
<1>2. done \in [Completions -> Nat] /\ e.accepts - 1 \in Nat
  BY DEF EndpointInv, EndpointType, EndpointRecord, Completions, AcceptCompletes
<1>3. e' = [e EXCEPT !.accepts = e.accepts - 1, !.done = done]
  BY <1>1 DEF EndpointInv, EndpointType, EndpointRecord
<1>4. Pending(e') > 0
  <2>1. e'.accepts = e.accepts - 1 /\ e'.done = done
    BY <1>3 DEF EndpointInv, EndpointType, EndpointRecord
  <2>2. done[r] > 0
    BY DEF EndpointInv, EndpointType, EndpointRecord, Completions
  <2>3. done["ok"] \in Nat /\ done["error"] \in Nat /\ done["canceled"] \in Nat
    BY <1>2 DEF Completions
  <2> HIDE DEF done
  <2> QED BY <1>2, <2>1, <2>2, <2>3 DEF Pending
<1> HIDE DEF done
<1>5. EndpointType'
  BY <1>2, <1>3 DEF EndpointInv, EndpointType, EndpointRecord
<1>6. Listens' /\ Owns' /\ AcceptLoopLives'
  BY <1>2, <1>3, <1>4 DEF EndpointInv, EndpointType, EndpointRecord, Listens, Owns,
                          AcceptLoopLives, AcceptCompletes
<1>7. DeletesItsOwn'
  BY <1>3 DEF EndpointInv, EndpointType, EndpointRecord, DeletesItsOwn, Alive
<1> QED BY <1>5, <1>6, <1>7 DEF EndpointInv

-----------------------------------------------------------------------------
(* Moving and destroying.                                                  *)

\* Nothing has been deleted while the endpoint is there.
LEMMA NothingDeleted ==
  ASSUME EndpointInv, Alive
  PROVE  e.deleted = <<>>
BY DEF EndpointInv, DeletesItsOwn

\* Move: the source that is destroyed is not initialized and deletes nothing.
LEMMA MoveStep ==
  ASSUME EndpointInv, Move
  PROVE  EndpointInv'
<1>1. Deletes(MovedFrom(e)) = <<>>
  BY DEF EndpointInv, EndpointType, EndpointRecord, Deletes, MovedFrom
<1>2. e.deleted = <<>>
  BY NothingDeleted DEF Move
<1>3. e' = [e EXCEPT !.m_work = FALSE, !.deleted = <<>>]
  BY <1>1, <1>2 DEF Move
<1>4. EndpointType'
  <2>1. e' = [e EXCEPT !.m_work = FALSE]
    BY <1>2, <1>3 DEF EndpointInv, EndpointType, EndpointRecord
  <2> QED BY <2>1 DEF EndpointInv, EndpointType, EndpointRecord
<1>5. UNCHANGED Kept
  BY <1>2, <1>3 DEF EndpointInv, EndpointType, EndpointRecord, Kept
<1> QED BY <1>4, <1>5, KeptStep

\* Destroy.
LEMMA DestroyStep ==
  ASSUME EndpointInv, Destroy
  PROVE  EndpointInv'
<1> DEFINE done == [e.done EXCEPT !["canceled"] = e.done["canceled"] + e.accepts]
<1>1. done \in [Completions -> Nat]
  BY DEF EndpointInv, EndpointType, EndpointRecord, Completions
<1>2. /\ Deletes(e) \in {<<>>, <<e.m_io_service>>}
      /\ Deletes(e) \in Seq({"none", "own", "app"})
  <2>1. e.m_io_service \in {"none", "own", "app"}
    BY DEF EndpointInv, EndpointType, EndpointRecord
  <2>2. <<e.m_io_service>> \in Seq({"none", "own", "app"})
    BY <2>1
  <2>3. <<>> \in Seq({"none", "own", "app"})
    OBVIOUS
  <2> QED BY <2>2, <2>3 DEF Deletes
<1>3. e.deleted \o Deletes(e) = Deletes(e)
  BY <1>2, NothingDeleted DEF Destroy
<1>4. e' = [e EXCEPT !.m_state = "DESTROYED", !.m_work = FALSE, !.accepting = FALSE,
                     !.accepts = 0, !.m_acceptor = "closed", !.done = done,
                     !.deleted = Deletes(e)]
  BY <1>3 DEF EndpointInv, EndpointType, EndpointRecord, Destroy
<1> HIDE DEF done
<1>5. EndpointType'
  BY <1>1, <1>2, <1>4 DEF EndpointInv, EndpointType, EndpointRecord
<1>6. /\ e'.m_state = "DESTROYED" /\ e'.accepting = FALSE /\ e'.accepts = 0
      /\ e'.m_io_service = e.m_io_service /\ e'.reinitialized = e.reinitialized
      /\ e'.m_external_io_service = e.m_external_io_service
      /\ e'.deleted = Deletes(e)
  BY <1>4 DEF EndpointInv, EndpointType, EndpointRecord
<1>7. Listens' /\ Owns' /\ AcceptLoopLives'
  BY <1>6 DEF EndpointInv, Listens, Owns, AcceptLoopLives
<1>8. DeletesItsOwn'
  <2>1. e.m_io_service = "own" => Deletes(e) = <<"own">>
    BY DEF EndpointInv, Owns, Deletes
  <2>2. Deletes(e) = <<"app">> => e.reinitialized
    BY DEF EndpointInv, Owns, Deletes
  <2> QED BY <1>2, <1>6, <2>1, <2>2 DEF DeletesItsOwn, Alive
<1> QED BY <1>5, <1>7, <1>8 DEF EndpointInv

-----------------------------------------------------------------------------
\* The invariant is inductive.
LEMMA EndpointInvInit == EndpointInit => EndpointInv
<1> SUFFICES ASSUME EndpointInit PROVE EndpointInv
  OBVIOUS
<1>1. [r \in Completions |-> 0] \in [Completions -> Nat]
  OBVIOUS
<1>2. EndpointType
  BY <1>1 DEF EndpointInit, EndpointType, EndpointRecord
<1>3. Listens /\ Owns /\ AcceptLoopLives /\ DeletesItsOwn
  BY DEF EndpointInit, Listens, Owns, AcceptLoopLives, DeletesItsOwn, Alive
<1> QED BY <1>2, <1>3 DEF EndpointInv

\* Every action keeps it: one lemma above for each.
LEMMA EndpointInvNext == EndpointInv /\ [EndpointNext]_e => EndpointInv'
<1> SUFFICES ASSUME EndpointInv, [EndpointNext]_e PROVE EndpointInv'
  OBVIOUS
<1>1. CASE UNCHANGED e
  BY <1>1 DEF EndpointInv, EndpointType, Listens, Owns, AcceptLoopLives, Pending,
              DeletesItsOwn, Alive
<1>2. CASE EndpointNext
  BY <1>2, InitAsioStep, ListenStep, StopListeningStep, AcceptStep,
     AcceptCompletesStep, TimerStep, LoopStep, MoveStep, DestroyStep
  DEF EndpointNext
<1> QED BY <1>1, <1>2

\* The types, and what the two properties below rest on.
THEOREM EndpointCorrect == EndpointSpec => []EndpointInv
BY EndpointInvInit, EndpointInvNext, PTL DEF EndpointSpec

\* A listening server's accepts go on whatever the order of failed accepts,
\* cancellations and new listens, with any number outstanding: handle_accept
\* starts the next one, and stop_listening and the destructor leave none.
THEOREM AcceptsGoOn == EndpointSpec => []AcceptLoopLives
BY EndpointCorrect, PTL DEF EndpointInv

\* The destructor deletes the endpoint's own io_service once and never the
\* application's, however often the endpoint was initialized and moved.
THEOREM DeletesOwnOnly == EndpointSpec => []DeletesItsOwn
BY EndpointCorrect, PTL DEF EndpointInv

(***************************************************************************)
(* Pings, for any number of callers: of those whose calls met no other,    *)
(* only the last one's timer runs, and not once it is answered.            *)
(***************************************************************************)
TimerStates == {"armed", "due", "cancelled", "reported"}
Positions == {"idle", "checked", "cancelled", "set"}

PingType ==
  /\ timers \in Seq(TimerStates)
  /\ ping_pc \in [Callers -> Positions]
  /\ made \in [Callers -> Nat]
  /\ meeting \subseteq Callers

\* A caller holds a timer from set_timer to its assignment, each its own, and
\* the one the connection keeps is nobody's.
Holds ==
  /\ \A t \in Callers : IF ping_pc[t] = "set" THEN made[t] \in DOMAIN timers
                        ELSE made[t] = 0
  /\ \A t, u \in Callers : made[t] = made[u] /\ made[t] # 0 => t = u
  /\ m_ping_timer # 0 => m_ping_timer \in Sent

\* Two pings in progress have met.
Meets == \A t, u \in Callers : {t, u} \subseteq Pinging /\ t # u => t \in meeting

AnsweredSent == answered \subseteq Sent

\* Of the pings that met no other, the one whose timer runs is the last, no pong
\* has answered it, and no call has come as far as to cancel it.
LastRuns ==
  \A i \in Sent \ met :
    timers[i] = "armed" =>
      /\ i = m_ping_timer /\ i \notin answered
      /\ \A t \in Callers : ping_pc[t] \in {"idle", "checked"}

PingInv == PingType /\ Holds /\ Meets /\ AnsweredSent /\ LastRuns

\* Cancelling changes no timer but the one kept, and leaves that one not running.
LEMMA CancelledTimers ==
  ASSUME timers \in Seq(TimerStates)
  PROVE  /\ Cancelled \in Seq(TimerStates)
         /\ Len(Cancelled) = Len(timers)
         /\ \A i \in DOMAIN timers : Cancelled[i] = "armed"
                                       => timers[i] = "armed" /\ i # m_ping_timer
BY DEF Cancelled, TimerStates

\* The invariant is inductive; only the pings' own steps can disturb it.
LEMMA PingInvInit == ControlsInit => PingInv
BY DEF ControlsInit, PingInv, PingType, Holds, Meets, AnsweredSent, LastRuns, Sent,
       Pinging, TimerStates, Positions

\* PingChecks: the caller has met whoever is in a ping.
LEMMA ChecksStep ==
  ASSUME PingInv, NEW t \in Callers, PingChecks(t)
  PROVE  PingInv'
<1>1. /\ timers' = timers /\ m_ping_timer' = m_ping_timer /\ made' = made
      /\ answered' = answered /\ met' = met
      /\ ping_pc' = [ping_pc EXCEPT ![t] = "checked"] /\ ping_pc[t] = "idle"
      /\ meeting' = IF Pinging = {} THEN {} ELSE meeting \cup Pinging \cup {t}
  BY DEF PingChecks, Goes
<1>2. Sent' = Sent
  BY <1>1 DEF Sent
<1>3. PingType' /\ Holds'
  BY <1>1, <1>2 DEF PingInv, PingType, Holds, Positions, Pinging
<1>4. Pinging' = Pinging \cup {t}
  BY <1>1 DEF PingInv, PingType, Pinging
<1>5. Meets'
  BY <1>1, <1>4 DEF PingInv, Meets
<1>6. AnsweredSent' /\ LastRuns'
  BY <1>1, <1>2 DEF PingInv, PingType, AnsweredSent, LastRuns
<1> QED BY <1>3, <1>5, <1>6 DEF PingInv

\* PingCancels: the one timer that could run without having met is cancelled.
LEMMA CancelsStep ==
  ASSUME PingInv, NEW t \in Callers, PingCancels(t)
  PROVE  PingInv'
<1>1. /\ timers' = Cancelled /\ m_ping_timer' = m_ping_timer /\ made' = made
      /\ answered' = answered /\ met' = met /\ meeting' = meeting
      /\ ping_pc' = [ping_pc EXCEPT ![t] = "cancelled"] /\ ping_pc[t] = "checked"
  BY DEF PingCancels, Goes
<1>2. /\ timers' \in Seq(TimerStates) /\ DOMAIN timers' = DOMAIN timers
      /\ \A i \in DOMAIN timers : timers'[i] = "armed"
                                    => timers[i] = "armed" /\ i # m_ping_timer
  BY <1>1, CancelledTimers DEF PingInv, PingType
<1>3. Sent' = Sent
  BY <1>1, <1>2 DEF Sent
<1>4. PingType' /\ Holds'
  BY <1>1, <1>2, <1>3 DEF PingInv, PingType, Holds, Positions
<1>5. Pinging' = Pinging
  BY <1>1 DEF PingInv, PingType, Pinging
<1>6. Meets' /\ AnsweredSent'
  BY <1>1, <1>3, <1>5 DEF PingInv, Meets, AnsweredSent
<1>7. LastRuns'
  BY <1>1, <1>2, <1>3 DEF PingInv, LastRuns, Sent
<1> QED BY <1>4, <1>6, <1>7 DEF PingInv

\* PingSetsTimer: the new timer is its caller's, and no unmet one runs.
LEMMA SetsStep ==
  ASSUME PingInv, NEW t \in Callers, PingSetsTimer(t)
  PROVE  PingInv'
<1> DEFINE n == Len(timers) + 1
<1>1. /\ timers' = Append(timers, "armed") /\ m_ping_timer' = m_ping_timer
      /\ made' = [made EXCEPT ![t] = n]
      /\ answered' = answered /\ met' = met /\ meeting' = meeting
      /\ ping_pc' = [ping_pc EXCEPT ![t] = "set"] /\ ping_pc[t] = "cancelled"
  BY DEF PingSetsTimer, Goes
<1>2. /\ timers' \in Seq(TimerStates) /\ DOMAIN timers' = DOMAIN timers \cup {n}
      /\ n \notin DOMAIN timers /\ n \in Nat \ {0}
      /\ \A i \in DOMAIN timers : timers'[i] = timers[i]
  BY <1>1 DEF PingInv, PingType, TimerStates
<1> HIDE DEF n
<1>3. /\ made[t] = 0 /\ \A u \in Callers : made'[u] = IF u = t THEN n ELSE made[u]
      /\ \A u \in Callers : made[u] = 0 \/ made[u] \in DOMAIN timers
      /\ 0 \notin DOMAIN timers
  BY <1>1 DEF PingInv, PingType, Holds
<1>4. Sent' = Sent
  BY <1>2, <1>3 DEF Sent
<1>5. PingType'
  BY <1>1, <1>2 DEF PingInv, PingType, Positions
<1>6. Holds'
  <2>1. \A u \in Callers : IF ping_pc'[u] = "set" THEN made'[u] \in DOMAIN timers'
                           ELSE made'[u] = 0
    BY <1>1, <1>2, <1>3 DEF PingInv, PingType, Holds
  <2>2. \A u, v \in Callers : made'[u] = made'[v] /\ made'[u] # 0 => u = v
    BY <1>2, <1>3 DEF PingInv, Holds
  <2> QED BY <1>1, <1>4, <2>1, <2>2 DEF PingInv, Holds
<1>7. Pinging' = Pinging
  BY <1>1 DEF PingInv, PingType, Pinging
<1>8. Meets' /\ AnsweredSent'
  BY <1>1, <1>4, <1>7 DEF PingInv, Meets, AnsweredSent
<1>9. \A i \in Sent \ met : timers[i] # "armed"
  BY <1>1 DEF PingInv, LastRuns
<1>10. LastRuns'
  BY <1>1, <1>2, <1>4, <1>9 DEF LastRuns, Sent
<1> QED BY <1>5, <1>6, <1>8, <1>10 DEF PingInv

\* PingAssigns: the timer is kept; one whose call met another is among the met.
LEMMA AssignsStep ==
  ASSUME PingInv, NEW t \in Callers, PingAssigns(t)
  PROVE  PingInv'
<1> DEFINE n == made[t]
<1>1. /\ timers' = timers /\ m_ping_timer' = n
      /\ made' = [made EXCEPT ![t] = 0]
      /\ answered' = answered /\ meeting' = meeting \ {t}
      /\ met' = IF t \in meeting THEN met \cup {n} ELSE met
      /\ ping_pc' = [ping_pc EXCEPT ![t] = "idle"] /\ ping_pc[t] = "set"
  BY DEF PingAssigns, Goes
<1>2. /\ n \in DOMAIN timers /\ n # 0
      /\ \A u \in Callers : made'[u] = IF u = t THEN 0 ELSE made[u]
      /\ \A u \in Callers : u # t => made[u] # n
  BY <1>1 DEF PingInv, PingType, Holds
<1> HIDE DEF n
<1>3. n \in Sent' /\ n \notin Sent /\ Sent' = Sent \cup {n}
  <2>1. n \notin Sent
    BY DEF Sent, n
  <2>2. \A i \in DOMAIN timers : i # n => (i \in Sent' <=> i \in Sent)
    BY <1>1, <1>2 DEF Sent, PingInv, PingType, n
  <2>3. n \in Sent'
    BY <1>1, <1>2 DEF Sent
  <2> QED BY <1>1, <1>2, <2>1, <2>2, <2>3 DEF Sent
<1>4. PingType'
  BY <1>1 DEF PingInv, PingType, Positions
<1>5. Holds'
  BY <1>1, <1>2, <1>3 DEF PingInv, PingType, Holds
<1>6. Pinging' = Pinging \ {t}
  BY <1>1 DEF PingInv, PingType, Pinging
<1>7. Meets' /\ AnsweredSent'
  BY <1>1, <1>3, <1>6 DEF PingInv, Meets, AnsweredSent
<1>8. \A i \in Sent \ met : timers[i] # "armed"
  BY <1>1 DEF PingInv, LastRuns
<1>9. ASSUME t \in meeting PROVE LastRuns'
  BY <1>1, <1>3, <1>8, <1>9 DEF LastRuns
<1>10. ASSUME t \notin meeting PROVE LastRuns'
  <2>1. \A u \in Callers : u # t => ping_pc[u] = "idle"
    BY <1>1, <1>10 DEF PingInv, Meets, Pinging
  <2>2. \A u \in Callers : ping_pc'[u] = "idle"
    BY <1>1, <2>1 DEF PingInv, PingType
  <2>3. n \notin answered
    BY <1>3 DEF PingInv, AnsweredSent
  <2> QED BY <1>1, <1>3, <1>8, <2>2, <2>3 DEF LastRuns
<1>11. LastRuns'
  BY <1>9, <1>10
<1> QED BY <1>4, <1>5, <1>7, <1>11 DEF PingInv

\* PongArrives: the timer is cancelled and every ping so far is answered.
LEMMA PongStep ==
  ASSUME PingInv, PongArrives
  PROVE  PingInv'
<1>1. /\ timers' = Cancelled /\ answered' = Sent
      /\ UNCHANGED <<m_ping_timer, ping_pc, made, meeting, met>>
  BY DEF PongArrives
<1>2. /\ timers' \in Seq(TimerStates) /\ DOMAIN timers' = DOMAIN timers
      /\ \A i \in DOMAIN timers : timers'[i] = "armed"
                                    => timers[i] = "armed" /\ i # m_ping_timer
  BY <1>1, CancelledTimers DEF PingInv, PingType
<1>3. Sent' = Sent /\ Pinging' = Pinging
  BY <1>1, <1>2 DEF Sent, Pinging
<1>4. PingType' /\ Holds' /\ Meets' /\ AnsweredSent'
  BY <1>1, <1>2, <1>3 DEF PingInv, PingType, Holds, Meets, AnsweredSent
<1>5. LastRuns'
  BY <1>1, <1>2, <1>3 DEF PingInv, LastRuns, Sent
<1> QED BY <1>4, <1>5 DEF PingInv

\* PingTimerExpires and HandlePongTimeout: no timer starts to run.
LEMMA TimeoutStep ==
  ASSUME PingInv, PingTimerExpires \/ HandlePongTimeout
  PROVE  PingInv'
<1>1. PICK i \in DOMAIN timers, became \in {"due", "reported"} :
        timers' = [timers EXCEPT ![i] = became]
  BY DEF PingTimerExpires, HandlePongTimeout
<1>2. UNCHANGED <<m_ping_timer, ping_pc, made, answered, meeting, met>>
  BY DEF PingTimerExpires, HandlePongTimeout
<1>3. /\ timers' \in Seq(TimerStates) /\ DOMAIN timers' = DOMAIN timers
      /\ \A j \in DOMAIN timers : timers'[j] = "armed" => timers[j] = "armed"
  BY <1>1 DEF PingInv, PingType, TimerStates
<1>4. Sent' = Sent /\ Pinging' = Pinging
  BY <1>2, <1>3 DEF Sent, Pinging
<1>5. PingType' /\ Holds' /\ Meets' /\ AnsweredSent'
  BY <1>2, <1>3, <1>4 DEF PingInv, PingType, Holds, Meets, AnsweredSent
<1>6. LastRuns'
  BY <1>2, <1>3, <1>4 DEF PingInv, LastRuns, Sent
<1> QED BY <1>5, <1>6 DEF PingInv

\* Every action keeps it; one that races changes nothing else.
LEMMA PingInvNext == PingInv /\ [ControlsNext]_controlVars => PingInv'
<1> SUFFICES ASSUME PingInv, [ControlsNext]_controlVars PROVE PingInv'
  OBVIOUS
<1>1. ASSUME UNCHANGED <<timers, m_ping_timer, ping_pc, made, answered, meeting, met>>
      PROVE  PingInv'
  BY <1>1 DEF PingInv, PingType, Holds, Meets, AnsweredSent, LastRuns, Sent, Pinging
<1>2. CASE \E handler \in {"pause", "resume", "interrupt"} : Call(handler)
  BY <1>1, <1>2 DEF Call, Post, pingVars
<1>3. CASE RunPosted \/ ReadCompletes \/ Terminated
  BY <1>1, <1>3 DEF RunPosted, ReadCompletes, Terminated, pingVars
<1>4. CASE \E t \in Callers : Ping(t)
  BY <1>4, ChecksStep, CancelsStep, SetsStep, AssignsStep DEF Ping
<1>5. CASE \E t \in Callers : PingRaces(t)
  BY <1>1, <1>5 DEF PingRaces
<1>6. CASE UNCHANGED controlVars
  BY <1>1, <1>6 DEF controlVars, pingVars
<1> QED BY <1>2, <1>3, <1>4, <1>5, <1>6, PongStep, TimeoutStep DEF ControlsNext

\* A ping whose call met no other is reported only when its own timer ran out:
\* after any number of pings by any number of threads, pongs and pauses, a pong
\* or a later ping keeps it from being reported, whichever access of the later
\* call the loop steps in at.
THEOREM OnlyExpiredReported == ControlsSpec => ReportsOnlyExpired
<1>1. ControlsSpec => []PingInv
  BY PingInvInit, PingInvNext, PTL DEF ControlsSpec
<1> DEFINE Expires == \A i \in DOMAIN timers :
             RunsOut(i) /\ i \in Sent /\ i \notin met
               => i = m_ping_timer /\ i \notin answered
<1>2. PingInv /\ [ControlsNext]_controlVars => [Expires]_controlVars
  <2> SUFFICES ASSUME PingInv PROVE Expires
    OBVIOUS
  <2> QED BY DEF PingInv, LastRuns, RunsOut
<1> QED BY <1>1, <1>2, PTL DEF ControlsSpec, ReportsOnlyExpired

(***************************************************************************)
(* The iostream transport, for a stream, reads and buffers of any length.  *)
(***************************************************************************)
\* The numbers that follow a count, in order.
LEMMA FollowingFacts ==
  ASSUME NEW K \in Nat, NEW m \in Nat
  PROVE  /\ Following(K, m) \in Seq(Nat) /\ Len(Following(K, m)) = m
         /\ Range(Following(K, m)) = (K + 1)..(K + m)
         /\ Increasing(Following(K, m))
<1>1. Following(K, m) \in [1..m -> Nat]
  BY DEF Following
<1>2. Following(K, m) \in Seq(Nat) /\ Len(Following(K, m)) = m
  BY <1>1
<1>3. Increasing(Following(K, m))
  BY <1>2 DEF Increasing, Following
<1>4. ASSUME NEW x \in (K + 1)..(K + m) PROVE x \in Range(Following(K, m))
  <2>1. x - K \in 1..m /\ Following(K, m)[x - K] = x
    BY DEF Following
  <2> QED BY <1>1, <2>1 DEF Range
<1>5. ASSUME NEW x \in Range(Following(K, m)) PROVE x \in (K + 1)..(K + m)
  BY <1>5 DEF Range, Following
<1> QED BY <1>2, <1>3, <1>4, <1>5

\* Numbers that follow numbers that follow a count follow it.
LEMMA FollowingConcat ==
  ASSUME NEW K \in Nat, NEW l \in Nat, NEW m \in Nat
  PROVE  Following(K, l) \o Following(K + l, m) = Following(K, l + m)
<1> DEFINE a == Following(K, l)
           b == Following(K + l, m)
           c == Following(K, l + m)
<1>1. a \in Seq(Nat) /\ Len(a) = l /\ b \in Seq(Nat) /\ Len(b) = m
  <2>1. K + l \in Nat
    OBVIOUS
  <2> QED BY <2>1, FollowingFacts
<1>2. c \in Seq(Nat) /\ Len(c) = l + m
  BY FollowingFacts
<1>3. /\ \A i \in 1..l : a[i] = K + i
      /\ \A i \in 1..m : b[i] = K + l + i
      /\ \A i \in 1..(l + m) : c[i] = K + i
  BY DEF Following
<1> HIDE DEF a, b, c
<1>4. a \o b \in Seq(Nat) /\ Len(a \o b) = l + m
  BY <1>1
<1>5. ASSUME NEW i \in 1..(l + m) PROVE (a \o b)[i] = c[i]
  <2>1. CASE i <= l
    <3>1. (a \o b)[i] = a[i] /\ i \in 1..l
      BY <1>1, <2>1
    <3> QED BY <3>1, <1>3
  <2>2. CASE i > l
    <3>1. (a \o b)[i] = b[i - l] /\ i - l \in 1..m
      BY <1>1, <2>2
    <3>2. b[i - l] = K + l + (i - l) /\ c[i] = K + i
      BY <3>1, <1>3
    <3>3. K + l + (i - l) = K + i
      OBVIOUS
    <3> QED BY <3>1, <3>2, <3>3
  <2>3. i <= l \/ i > l
    OBVIOUS
  <2> QED BY <2>1, <2>2, <2>3
<1>6. a \o b = c
  <2>1. DOMAIN (a \o b) = 1..(l + m) /\ DOMAIN c = 1..(l + m)
    BY <1>2, <1>4
  <2> HIDE DEF a, b, c
  <2> QED BY <1>2, <1>4, <1>5, SeqEqual
<1> QED BY <1>6 DEF a, b, c

\* The numbers that follow those of the pieces are the next piece.
LEMMA InOrderAppend ==
  ASSUME NEW h \in Seq(Seq(Nat)), NEW K \in Nat, InOrder(h, K), NEW m \in Nat
  PROVE  InOrder(Append(h, Following(K, m)), K + m)
<1> DEFINE new == Following(K, m)
           q == Append(h, new)
<1>1. /\ new \in Seq(Nat) /\ Range(new) = (K + 1)..(K + m) /\ Increasing(new)
  BY FollowingFacts
<1> HIDE DEF new
<1>2. /\ q \in Seq(Seq(Nat)) /\ Len(q) = Len(h) + 1 /\ Len(h) \in Nat
      /\ DOMAIN q = 1..(Len(h) + 1) /\ DOMAIN h = 1..Len(h)
      /\ \A i \in 1..Len(h) : q[i] = h[i]
      /\ q[Len(h) + 1] = new
  BY <1>1
<1> HIDE DEF q
<1>3. ASSUME NEW i \in DOMAIN q PROVE Increasing(q[i])
  BY <1>1, <1>2 DEF InOrder
<1>4. ASSUME NEW i \in DOMAIN h, NEW x \in Range(h[i]) PROVE x \in 1..K
  BY <1>4 DEF InOrder
<1>5. ASSUME NEW i \in DOMAIN q, NEW j \in DOMAIN q, i < j PROVE Before(q[i], q[j])
  <2>1. i \in DOMAIN h /\ q[i] = h[i]
    BY <1>2, <1>5
  <2>2. CASE j \in DOMAIN h
    BY <2>1, <2>2, <1>2, <1>5 DEF InOrder
  <2>3. CASE q[j] = new
    BY <2>1, <2>3, <1>1, <1>4 DEF Before
  <2> QED BY <1>2, <2>2, <2>3
<1>6. UNION {Range(q[i]) : i \in DOMAIN q} = 1..(K + m)
  <2>1. ASSUME NEW i \in DOMAIN q, NEW x \in Range(q[i]) PROVE x \in 1..(K + m)
    <3>1. CASE i \in DOMAIN h
      <4>1. x \in Range(h[i])
        BY <2>1, <3>1, <1>2
      <4> QED BY <1>4, <3>1, <4>1
    <3>2. CASE i = Len(h) + 1
      BY <2>1, <3>2, <1>1, <1>2
    <3> QED BY <1>2, <3>1, <3>2
  <2>2. ASSUME NEW x \in 1..K PROVE \E i \in DOMAIN q : x \in Range(q[i])
    <3>1. PICK i \in DOMAIN h : x \in Range(h[i])
      BY DEF InOrder
    <3> QED BY <3>1, <1>2
  <2>3. ASSUME NEW x \in (K + 1)..(K + m) PROVE \E i \in DOMAIN q : x \in Range(q[i])
    <3>1. x \in Range(q[Len(h) + 1]) /\ Len(h) + 1 \in DOMAIN q
      BY <1>1, <1>2
    <3> QED BY <3>1
  <2>4. 1..(K + m) = (1..K) \cup ((K + 1)..(K + m))
    OBVIOUS
  <2> QED BY <2>1, <2>2, <2>3, <2>4
<1>7. InOrder(q, K + m)
  BY <1>3, <1>5, <1>6 DEF InOrder
<1> QED BY <1>7 DEF q, new

-----------------------------------------------------------------------------
(* The invariant of the transport.                                         *)

Outcomes == {"ok", "double_read", "invalid_num_bytes", "eof", "pass_through",
             "bad_stream", "error", "output_stream_required"}

WriteRecord == [bufs : Seq(Nat), ec : Outcomes, swallowed : BOOLEAN]
StreamStates == {"good", "fail", "bad"}

IoRecord ==
  [m_reading : BOOLEAN, m_len : Nat, m_bytes_needed : Nat, m_cursor : Nat,
   m_buf : Seq(Nat), taken : Nat, handed : Seq([ec : Outcomes, bytes : Seq(Nat)]),
   sent : Nat, ostream : StreamStates, output : Seq(Nat), writes : Seq(WriteRecord),
   shutdowns : Nat, cleanups : Nat, threw : BOOLEAN]

\* The bytes of a read in progress: its buffer holds the last the application
\* handed over, and fits.
Waiting(d) == IF d.m_reading THEN d.m_cursor ELSE 0

FillInv(d) ==
  d.m_reading => /\ d.m_cursor <= d.m_len /\ d.m_bytes_needed <= d.m_len
                 /\ d.m_cursor <= d.taken
                 /\ d.m_buf = Following(d.taken - d.m_cursor, d.m_cursor)

\* What the read handlers got are the bytes before those.
ReportInv(d) == InOrder(Reports(d), d.taken - Waiting(d))

ReadInv(d) ==
  /\ d.taken <= StreamLength /\ FillInv(d) /\ ReportInv(d)
  /\ d.m_reading => d.m_cursor < d.m_bytes_needed

\* Every buffer that is out, or of a write, has been numbered.
WriteInv(d) ==
  /\ Increasing(d.output) /\ Range(d.output) \subseteq 1..d.sent
  /\ \A i \in DOMAIN d.writes :
       LET bufs == d.writes[i].bufs IN
       /\ Range(bufs) \subseteq 1..d.sent
       /\ d.writes[i].ec = "ok" /\ ~d.writes[i].swallowed => Range(bufs) \subseteq Range(d.output)
       /\ \A a, b \in DOMAIN bufs :
            a < b /\ bufs[b] \in Range(d.output) => bufs[a] \in Range(d.output)

IoStates == {d \in IoRecord : ReadInv(d) /\ WriteInv(d)}

\* A report of bytes is the next of the reports.
LEMMA ReportsAppend ==
  ASSUME NEW d, NEW u, d.handed \in Seq([ec : Outcomes, bytes : Seq(Nat)]),
         NEW r \in [ec : Outcomes, bytes : Seq(Nat)],
         u.handed = Append(d.handed, r)
  PROVE  /\ Reports(d) \in Seq(Seq(Nat))
         /\ Reports(u) = Append(Reports(d), r.bytes)
<1> DEFINE h == d.handed
           g == u.handed
<1>1. /\ h \in Seq([ec : Outcomes, bytes : Seq(Nat)]) /\ Len(h) \in Nat
      /\ g = Append(h, r) /\ Len(g) = Len(h) + 1
      /\ g \in Seq([ec : Outcomes, bytes : Seq(Nat)])
      /\ DOMAIN h = 1..Len(h) /\ DOMAIN g = 1..(Len(h) + 1)
      /\ \A i \in 1..Len(h) : g[i] = h[i]
      /\ g[Len(h) + 1] = r
  OBVIOUS
<1>2. /\ Reports(d) = [i \in 1..Len(h) |-> h[i].bytes]
      /\ Reports(u) = [i \in 1..(Len(h) + 1) |-> g[i].bytes]
  BY <1>1 DEF Reports
<1> HIDE DEF h, g
<1>3. /\ \A i \in 1..Len(h) : h[i].bytes \in Seq(Nat)
      /\ \A i \in 1..(Len(h) + 1) : g[i].bytes \in Seq(Nat)
  <2>1. /\ \A i \in 1..Len(h) : h[i] \in [ec : Outcomes, bytes : Seq(Nat)]
        /\ \A i \in 1..(Len(h) + 1) : g[i] \in [ec : Outcomes, bytes : Seq(Nat)]
    BY <1>1, ElementOfSeq
  <2> QED BY <2>1
<1>4. /\ Reports(d) \in Seq(Seq(Nat)) /\ Len(Reports(d)) = Len(h)
      /\ Reports(u) \in Seq(Seq(Nat)) /\ Len(Reports(u)) = Len(h) + 1
  BY <1>1, <1>2, <1>3
<1>5. /\ \A i \in 1..Len(h) : Reports(d)[i] = h[i].bytes
      /\ \A i \in 1..(Len(h) + 1) : Reports(u)[i] = g[i].bytes
  BY <1>2
<1>6. r.bytes \in Seq(Nat)
  OBVIOUS
<1> DEFINE a == Append(Reports(d), r.bytes)
<1>7. /\ a \in Seq(Seq(Nat)) /\ Len(a) = Len(h) + 1
      /\ \A i \in 1..Len(h) : a[i] = Reports(d)[i]
      /\ a[Len(h) + 1] = r.bytes
  BY <1>1, <1>4, <1>6
<1> HIDE DEF a
<1>8. ASSUME NEW i \in 1..(Len(h) + 1) PROVE Reports(u)[i] = a[i]
  <2>1. CASE i \in 1..Len(h)
    <3>1. g[i] = h[i] /\ a[i] = h[i].bytes
      BY <2>1, <1>1, <1>5, <1>7
    <3>2. Reports(u)[i] = g[i].bytes
      BY <1>5
    <3> QED BY <3>1, <3>2
  <2>2. CASE i = Len(h) + 1
    BY <2>2, <1>1, <1>5, <1>7
  <2>3. i \in 1..Len(h) \/ i = Len(h) + 1
    BY <1>1
  <2> QED BY <2>1, <2>2, <2>3
<1>9. Reports(u) = a
  BY <1>1, <1>4, <1>7, <1>8, SeqEqual
<1> QED BY <1>4, <1>9 DEF a

\* A read that is complete reports the bytes in its buffer.
LEMMA HandedKeeps ==
  ASSUME NEW d \in IoRecord, NEW ec \in Outcomes, d.m_reading, d.taken <= StreamLength,
         FillInv(d), ReportInv(d)
  PROVE  LET u == Handed([d EXCEPT !.m_reading = FALSE], ec) IN
         /\ u \in IoRecord /\ ReadInv(u) /\ ~u.m_reading /\ u.taken = d.taken
         /\ u.sent = d.sent /\ u.output = d.output /\ u.writes = d.writes
<1> DEFINE u == Handed([d EXCEPT !.m_reading = FALSE], ec)
           r == [ec |-> ec, bytes |-> d.m_buf]
<1>1. r \in [ec : Outcomes, bytes : Seq(Nat)] /\ r.bytes = d.m_buf
  BY DEF IoRecord
<1>2. u = [d EXCEPT !.m_reading = FALSE, !.handed = Append(d.handed, r)]
  BY DEF Handed, IoRecord
<1>3. d.handed \in Seq([ec : Outcomes, bytes : Seq(Nat)])
  BY DEF IoRecord
<1> HIDE DEF r
<1>4. Append(d.handed, r) \in Seq([ec : Outcomes, bytes : Seq(Nat)])
  BY <1>1, <1>3
<1> HIDE DEF u
<1>5. /\ u \in IoRecord /\ ~u.m_reading /\ u.taken = d.taken
      /\ u.sent = d.sent /\ u.output = d.output /\ u.writes = d.writes
      /\ u.handed = Append(d.handed, r)
  BY <1>2, <1>4 DEF IoRecord
<1>6. /\ Reports(d) \in Seq(Seq(Nat))
      /\ Reports(u) = Append(Reports(d), d.m_buf)
  <2>1. r \in [ec : Outcomes, bytes : Seq(Nat)] /\ u.handed = Append(d.handed, r)
    BY <1>1, <1>5
  <2>2. /\ Reports(d) \in Seq(Seq(Nat))
        /\ Reports(u) = Append(Reports(d), r.bytes)
    BY ONLY <2>1, <1>3, ReportsAppend
  <2> QED BY <2>2, <1>1
<1>7. /\ d.taken \in Nat /\ d.m_cursor \in Nat /\ d.taken - d.m_cursor \in Nat
      /\ d.m_buf = Following(d.taken - d.m_cursor, d.m_cursor)
      /\ InOrder(Reports(d), d.taken - d.m_cursor)
      /\ (d.taken - d.m_cursor) + d.m_cursor = d.taken
  BY DEF IoRecord, FillInv, ReportInv, Waiting
<1>8. InOrder(Reports(u), d.taken)
  <2> DEFINE K == d.taken - d.m_cursor
  <2>1. K \in Nat /\ d.m_cursor \in Nat /\ InOrder(Reports(d), K)
    BY <1>7
  <2>2. Reports(u) = Append(Reports(d), Following(K, d.m_cursor)) /\ K + d.m_cursor = d.taken
    BY <1>6, <1>7
  <2> HIDE DEF K
  <2>3. InOrder(Append(Reports(d), Following(K, d.m_cursor)), K + d.m_cursor)
    BY <2>1, <1>6, InOrderAppend
  <2> QED BY <2>2, <2>3
<1>9. ReadInv(u)
  <2>1. ReportInv(u)
    <3>1. Waiting(u) = 0 /\ u.taken - 0 = d.taken
      BY <1>5, <1>7 DEF Waiting
    <3> QED BY <3>1, <1>8 DEF ReportInv
  <2> QED BY <2>1, <1>5 DEF ReadInv, FillInv
<1> QED BY <1>5, <1>9 DEF u

\* A read that is refused, or started, keeps what was reported and what is kept.
LEMMA AtLeastKeeps ==
  ASSUME NEW d \in IoRecord, ReadInv(d), NEW num_bytes \in Nat, NEW len \in Nat
  PROVE  LET u == iostream_read_at_least(d, num_bytes, len) IN
         /\ u \in IoRecord /\ ReadInv(u) /\ u.taken = d.taken
         /\ u.sent = d.sent /\ u.output = d.output /\ u.writes = d.writes
<1> DEFINE u == iostream_read_at_least(d, num_bytes, len)
<1>1. ASSUME NEW ec \in Outcomes
      PROVE  LET f == Report(d, ec) IN
             /\ f \in IoRecord /\ ReadInv(f) /\ f.taken = d.taken
             /\ f.sent = d.sent /\ f.output = d.output /\ f.writes = d.writes
  <2> DEFINE r == [ec |-> ec, bytes |-> <<>>]
             f == Report(d, ec)
  <2>1. r \in [ec : Outcomes, bytes : Seq(Nat)] /\ r.bytes = <<>>
    OBVIOUS
  <2>2. f = [d EXCEPT !.handed = Append(d.handed, r)]
    BY DEF Report
  <2>3. d.handed \in Seq([ec : Outcomes, bytes : Seq(Nat)])
    BY DEF IoRecord
  <2> HIDE DEF r
  <2>4. Append(d.handed, r) \in Seq([ec : Outcomes, bytes : Seq(Nat)])
    BY <2>1, <2>3
  <2> HIDE DEF f
  <2>5. /\ f \in IoRecord /\ f.m_reading = d.m_reading /\ f.taken = d.taken
        /\ f.m_cursor = d.m_cursor /\ f.m_len = d.m_len
        /\ f.m_bytes_needed = d.m_bytes_needed /\ f.m_buf = d.m_buf
        /\ f.sent = d.sent /\ f.output = d.output /\ f.writes = d.writes
        /\ f.handed = Append(d.handed, r)
    BY <2>2, <2>4 DEF IoRecord
  <2>6. Reports(d) \in Seq(Seq(Nat)) /\ Reports(f) = Append(Reports(d), <<>>)
    BY <2>1, <2>3, <2>5, ReportsAppend
  <2> DEFINE K == d.taken - Waiting(d)
  <2>7. K \in Nat /\ InOrder(Reports(d), K)
    BY DEF IoRecord, ReadInv, FillInv, ReportInv, Waiting
  <2>8. Following(K, 0) = <<>>
    BY DEF Following
  <2>9. f.taken - Waiting(f) = K + 0
    BY <2>5, <2>7 DEF Waiting
  <2> HIDE DEF K
  <2>10. InOrder(Append(Reports(d), Following(K, 0)), K + 0)
    BY <2>6, <2>7, InOrderAppend
  <2>11. ReportInv(f)
    BY <2>6, <2>8, <2>9, <2>10 DEF ReportInv
  <2>12. ReadInv(f)
    BY <2>5, <2>11 DEF ReadInv, FillInv
  <2> QED BY <2>5, <2>12 DEF f
<1>2. CASE num_bytes > len
  <2>1. u = Report(d, "invalid_num_bytes")
    BY <1>2 DEF iostream_read_at_least
  <2>2. "invalid_num_bytes" \in Outcomes
    BY DEF Outcomes
  <2> HIDE DEF u
  <2> QED BY <2>1, <2>2, <1>1 DEF u
<1>3. CASE ~(num_bytes > len) /\ d.m_reading
  <2>1. u = Report(d, "double_read")
    BY <1>3 DEF iostream_read_at_least
  <2>2. "double_read" \in Outcomes
    BY DEF Outcomes
  <2> HIDE DEF u
  <2> QED BY <2>1, <2>2, <1>1 DEF u
<1>4. CASE ~(num_bytes > len) /\ ~d.m_reading /\ (num_bytes = 0 \/ len = 0)
  <2>1. u = Report(d, "ok")
    BY <1>4 DEF iostream_read_at_least
  <2>2. "ok" \in Outcomes
    BY DEF Outcomes
  <2> HIDE DEF u
  <2> QED BY <2>1, <2>2, <1>1 DEF u
<1>5. CASE ~(num_bytes > len) /\ ~d.m_reading /\ ~(num_bytes = 0 \/ len = 0)
  <2>1. u = [d EXCEPT !.m_reading = TRUE, !.m_len = len, !.m_bytes_needed = num_bytes,
                      !.m_cursor = 0, !.m_buf = <<>>]
    BY <1>5 DEF iostream_read_at_least
  <2> HIDE DEF u
  <2>2. <<>> \in Seq(Nat)
    OBVIOUS
  <2>3. /\ u \in IoRecord /\ u.m_reading /\ u.m_len = len /\ u.m_bytes_needed = num_bytes
        /\ u.m_cursor = 0 /\ u.m_buf = <<>> /\ u.taken = d.taken /\ u.handed = d.handed
        /\ u.sent = d.sent /\ u.output = d.output /\ u.writes = d.writes
    BY <2>1, <2>2 DEF IoRecord
  <2>4. d.taken \in Nat
    BY DEF IoRecord
  <2>5. Following(d.taken - 0, 0) = <<>>
    BY DEF Following
  <2>6. FillInv(u)
    BY <2>3, <2>4, <2>5, <1>5 DEF FillInv
  <2>7. Reports(u) = Reports(d) /\ Waiting(d) = 0 /\ Waiting(u) = 0
    BY <2>3, <1>5 DEF Reports, Waiting
  <2>8. ReportInv(u)
    BY <2>3, <2>7 DEF ReadInv, ReportInv
  <2>9. num_bytes > 0 /\ num_bytes <= len
    BY <1>5
  <2>10. ReadInv(u)
    BY <2>3, <2>6, <2>8, <2>9 DEF ReadInv
  <2> QED BY <2>3, <2>10 DEF u
<1> QED BY <1>2, <1>3, <1>4, <1>5

\* complete_read, whatever the handler asks for next.
LEMMA CompleteKeeps ==
  ASSUME NEW d \in IoRecord, NEW ec \in Outcomes, NEW again \in Agains, d.m_reading,
         d.taken <= StreamLength, FillInv(d), ReportInv(d)
  PROVE  LET u == complete_read(d, ec, again) IN
         /\ u \in IoRecord /\ ReadInv(u) /\ u.taken = d.taken
         /\ u.sent = d.sent /\ u.output = d.output /\ u.writes = d.writes
<1> DEFINE f == Handed([d EXCEPT !.m_reading = FALSE], ec)
<1>1. /\ f \in IoRecord /\ ReadInv(f) /\ f.taken = d.taken
      /\ f.sent = d.sent /\ f.output = d.output /\ f.writes = d.writes
  BY HandedKeeps
<1> HIDE DEF f
<1>2. CASE again = <<>>
  <2>1. complete_read(d, ec, again) = f
    BY <1>2 DEF complete_read, f
  <2> QED BY <1>1, <2>1
<1>3. CASE again # <<>>
  <2>1. again[1] \in Nat /\ again[2] \in Nat
    BY <1>3, IostreamAssumption DEF Agains
  <2>2. complete_read(d, ec, again) = iostream_read_at_least(f, again[1], again[2])
    BY <1>3 DEF complete_read, f
  <2>3. LET u == iostream_read_at_least(f, again[1], again[2]) IN
        /\ u \in IoRecord /\ ReadInv(u) /\ u.taken = f.taken
        /\ u.sent = f.sent /\ u.output = f.output /\ u.writes = f.writes
    BY ONLY <2>1, <1>1, AtLeastKeeps
  <2> QED BY <2>2, <2>3, <1>1
<1> QED BY <1>2, <1>3

\* Bytes that are left of the stream and fit are appended to those in the buffer.
LEMMA CopiedKeeps ==
  ASSUME NEW d \in IoStates, NEW n \in Nat, d.m_reading,
         n <= d.m_len - d.m_cursor, d.taken + n <= StreamLength
  PROVE  LET f == Copied(d, n) IN
         /\ f \in IoRecord /\ f.m_reading /\ f.taken = d.taken + n
         /\ f.taken <= StreamLength /\ f.m_cursor = d.m_cursor + n
         /\ f.m_bytes_needed = d.m_bytes_needed /\ f.m_len = d.m_len
         /\ FillInv(f) /\ ReportInv(f) /\ WriteInv(f)
<1> DEFINE K == d.taken - d.m_cursor
           f == Copied(d, n)
<1>1. /\ d.taken \in Nat /\ d.m_cursor \in Nat /\ d.m_len \in Nat /\ d.m_bytes_needed \in Nat
      /\ d.m_buf \in Seq(Nat) /\ d \in IoRecord
  BY DEF IoStates, IoRecord
<1>2. /\ d.m_cursor <= d.m_len /\ d.m_bytes_needed <= d.m_len /\ d.m_cursor <= d.taken
      /\ d.m_buf = Following(K, d.m_cursor)
      /\ InOrder(Reports(d), K) /\ K \in Nat /\ K + d.m_cursor = d.taken
      /\ d.taken <= StreamLength /\ d.m_cursor < d.m_bytes_needed
  BY <1>1 DEF IoStates, ReadInv, FillInv, ReportInv, Waiting
<1>3. d.m_cursor + n <= d.m_len
  BY <1>1, <1>2
<1>4. f = [d EXCEPT !.m_buf = d.m_buf \o Following(d.taken, n),
                    !.m_cursor = d.m_cursor + n, !.taken = d.taken + n]
  BY <1>1 DEF Copied, IoRecord
<1> HIDE DEF f
<1>5. d.m_buf \o Following(d.taken, n) = Following(K, d.m_cursor + n)
  <2>1. Following(K, d.m_cursor) \o Following(K + d.m_cursor, n)
          = Following(K, d.m_cursor + n)
    <3>1. K \in Nat /\ d.m_cursor \in Nat /\ n \in Nat
      BY <1>1, <1>2
    <3> HIDE DEF K
    <3> QED BY <3>1, FollowingConcat
  <2> QED BY <2>1, <1>2
<1>6. Following(K, d.m_cursor + n) \in Seq(Nat) /\ d.m_cursor + n \in Nat /\ d.taken + n \in Nat
  <2>1. d.m_cursor + n \in Nat /\ d.taken + n \in Nat
    BY <1>1, <1>3
  <2> HIDE DEF K
  <2> QED BY <1>2, <2>1, FollowingFacts
<1>7. /\ f \in IoRecord /\ f.m_reading /\ f.taken = d.taken + n
      /\ f.m_cursor = d.m_cursor + n /\ f.m_len = d.m_len
      /\ f.m_bytes_needed = d.m_bytes_needed
      /\ f.m_buf = Following(K, d.m_cursor + n)
      /\ f.sent = d.sent /\ f.output = d.output /\ f.writes = d.writes
      /\ f.handed = d.handed
  <2> HIDE DEF K
  <2> QED BY <1>1, <1>4, <1>5, <1>6 DEF IoRecord
<1>8. f.taken - f.m_cursor = K /\ f.m_cursor <= f.taken /\ f.taken <= StreamLength
  <2>1. (d.taken + n) - (d.m_cursor + n) = K /\ d.m_cursor + n <= d.taken + n
    BY <1>1, <1>2, <1>3
  <2>2. d.taken + n <= StreamLength
    BY <1>1, <1>3, IostreamAssumption
  <2> HIDE DEF K
  <2>3. f.taken = d.taken + n /\ f.m_cursor = d.m_cursor + n
    BY <1>7
  <2> QED BY <2>1, <2>2, <2>3
<1>9. Reports(f) = Reports(d) /\ Waiting(f) = f.m_cursor
  BY <1>7 DEF Reports, Waiting
<1>10. FillInv(f) /\ ReportInv(f)
  BY <1>1, <1>2, <1>3, <1>7, <1>8, <1>9 DEF FillInv, ReportInv
<1>11. WriteInv(f)
  BY <1>7 DEF IoStates, WriteInv
<1> QED BY <1>1, <1>2, <1>3, <1>7, <1>8, <1>10, <1>11 DEF f

\* The state of the output stream, the counts of a shutdown and an exception are
\* nothing to the invariant.
SameButOstream(d, u) ==
  /\ u.m_reading = d.m_reading /\ u.m_len = d.m_len
  /\ u.m_bytes_needed = d.m_bytes_needed /\ u.m_cursor = d.m_cursor
  /\ u.m_buf = d.m_buf /\ u.taken = d.taken /\ u.handed = d.handed
  /\ u.sent = d.sent /\ u.output = d.output /\ u.writes = d.writes

LEMMA OstreamOnly ==
  ASSUME NEW d \in IoStates, NEW u \in IoRecord, SameButOstream(d, u)
  PROVE  u \in IoStates
<1>1. Reports(u) = Reports(d) /\ Waiting(u) = Waiting(d)
  BY DEF SameButOstream, Reports, Waiting
<1>2. ReadInv(u) /\ WriteInv(u)
  BY <1>1 DEF SameButOstream, IoStates, ReadInv, FillInv, ReportInv, WriteInv
<1> QED BY <1>2 DEF IoStates

\* read_some_impl with bytes that are left of the stream.
LEMMA ReadSomeKeeps ==
  ASSUME NEW d \in IoStates, NEW len \in Nat, d.taken + len <= StreamLength,
         NEW again \in Agains
  PROVE  read_some_impl(d, len, again) \in IoStates
<1>1. CASE ~d.m_reading
  BY <1>1 DEF read_some_impl
<1>2. CASE d.m_reading
  <2> DEFINE n == Smaller(len, d.m_len - d.m_cursor)
             f == Copied(d, n)
  <2>1. /\ d.taken \in Nat /\ d.m_cursor \in Nat /\ d.m_len \in Nat
        /\ d.m_cursor <= d.m_len
    BY <1>2 DEF IoStates, IoRecord, ReadInv, FillInv
  <2>2. n \in Nat /\ n <= len /\ n <= d.m_len - d.m_cursor
    BY <2>1 DEF Smaller
  <2>3. read_some_impl(d, len, again) =
          IF f.m_cursor >= f.m_bytes_needed THEN complete_read(f, "ok", again) ELSE f
    BY <1>2 DEF read_some_impl
  <2>4. d.taken + n <= StreamLength
    BY <2>1, <2>2, IostreamAssumption
  <2> HIDE DEF n
  <2>5. /\ f \in IoRecord /\ f.m_reading /\ f.taken <= StreamLength
        /\ FillInv(f) /\ ReportInv(f) /\ WriteInv(f)
    BY <1>2, <2>2, <2>4, CopiedKeeps
  <2> HIDE DEF f
  <2>6. CASE f.m_cursor >= f.m_bytes_needed
    <3> DEFINE u == complete_read(f, "ok", again)
    <3>1. "ok" \in Outcomes
      BY DEF Outcomes
    <3>2. /\ u \in IoRecord /\ ReadInv(u) /\ u.taken = f.taken
          /\ u.sent = f.sent /\ u.output = f.output /\ u.writes = f.writes
      BY <2>5, <3>1, CompleteKeeps
    <3> HIDE DEF u
    <3>3. WriteInv(u)
      BY <2>5, <3>2 DEF WriteInv
    <3>4. u \in IoStates
      BY <3>2, <3>3 DEF IoStates
    <3> QED BY <3>4, <2>3, <2>6 DEF u
  <2>7. CASE ~(f.m_cursor >= f.m_bytes_needed)
    <3>1. f.m_cursor < f.m_bytes_needed
      BY <2>7, <2>5 DEF IoRecord
    <3>2. f \in IoStates
      BY <3>1, <2>5 DEF IoStates, ReadInv
    <3> QED BY <3>2, <2>3, <2>7
  <2> QED BY <2>6, <2>7
<1> QED BY <1>1, <1>2

\* read_all: every call has bytes left to take.
LEMMA ReadAllKeeps ==
  ASSUME NEW d \in IoStates, NEW len \in Nat, d.taken + len <= StreamLength,
         NEW again \in Agains
  PROVE  read_all(d, len, again)[len] \in IoStates
<1> DEFINE Step(k, u) == IF u.taken - d.taken = k - 1
                         THEN read_some_impl(u, len - (k - 1), again) ELSE u
           after == read_all(d, len, again)
           Reached(m) == \E f \in [0..m -> IoStates] :
                           f[0] = d /\ \A k \in 1..m : f[k] = Step(k, f[k - 1])
           R == {m \in Nat : m <= len => Reached(m)}
<1>1. ASSUME NEW k \in 1..len, NEW u \in IoStates PROVE Step(k, u) \in IoStates
  <2>1. CASE u.taken - d.taken = k - 1
    <3>1. u.taken \in Nat /\ d.taken \in Nat /\ len - (k - 1) \in Nat
      BY DEF IoStates, IoRecord
    <3>2. u.taken + (len - (k - 1)) <= StreamLength
      BY <2>1, <3>1, IostreamAssumption
    <3>3. read_some_impl(u, len - (k - 1), again) \in IoStates
      BY <3>1, <3>2, ReadSomeKeeps
    <3> QED BY <2>1, <3>3
  <2>2. CASE ~(u.taken - d.taken = k - 1)
    BY <2>2
  <2> QED BY <2>1, <2>2
<1>2. 0 \in R
  <2> DEFINE f == [k \in 0..0 |-> d]
  <2>1. f \in [0..0 -> IoStates] /\ f[0] = d /\ \A k \in 1..0 : f[k] = Step(k, f[k - 1])
    OBVIOUS
  <2> HIDE DEF f
  <2> QED BY <2>1
<1>3. ASSUME NEW m \in Nat, m \in R PROVE m + 1 \in R
  <2> SUFFICES ASSUME m + 1 <= len PROVE Reached(m + 1)
    OBVIOUS
  <2>1. PICK f \in [0..m -> IoStates] : f[0] = d /\ \A k \in 1..m : f[k] = Step(k, f[k - 1])
    BY <1>3
  <2> HIDE DEF Step
  <2> DEFINE h == [k \in 0..(m + 1) |-> IF k = m + 1 THEN Step(k, f[m]) ELSE f[k]]
  <2>2. m + 1 \in 1..len /\ f[m] \in IoStates /\ Step(m + 1, f[m]) \in IoStates
    BY <1>1
  <2>3. h \in [0..(m + 1) -> IoStates]
    BY <2>2
  <2>4. h[0] = d
    BY <2>1
  <2>5. ASSUME NEW k \in 1..(m + 1) PROVE h[k] = Step(k, h[k - 1])
    <3>1. k - 1 \in 0..m /\ h[k - 1] = f[k - 1]
      OBVIOUS
    <3>2. CASE k = m + 1
      BY <3>1, <3>2
    <3>3. CASE k \in 1..m
      <4>1. h[k] = f[k] /\ f[k] = Step(k, f[k - 1])
        BY <2>1, <3>3
      <4> QED BY <3>1, <4>1
    <3> QED BY <3>2, <3>3
  <2> HIDE DEF h
  <2> QED BY <2>3, <2>4, <2>5
<1>4. Reached(len)
  <2> HIDE DEF Reached
  <2>1. len \in R
    <3> HIDE DEF R
    <3> QED BY <1>2, <1>3, SetInduction
  <2> QED BY <2>1
<1>5. PICK f \in [0..len -> IoStates] :
        f = [k \in 0..len |-> IF k = 0 THEN d ELSE Step(k, f[k - 1])]
  <2> HIDE DEF Step
  <2>1. PICK f \in [0..len -> IoStates] :
          f[0] = d /\ \A k \in 1..len : f[k] = Step(k, f[k - 1])
    BY <1>4
  <2>2. ASSUME NEW k \in 0..len PROVE f[k] = IF k = 0 THEN d ELSE Step(k, f[k - 1])
    BY <2>1
  <2>3. f = [k \in 0..len |-> f[k]]
    OBVIOUS
  <2>4. f = [k \in 0..len |-> IF k = 0 THEN d ELSE Step(k, f[k - 1])]
    BY <2>2, <2>3
  <2> QED BY <2>4
<1>6. after = [k \in 0..len |-> IF k = 0 THEN d ELSE Step(k, after[k - 1])]
  BY <1>5 DEF read_all
<1> HIDE DEF after
<1> DEFINE T == {k \in Nat : k <= len => after[k] \in IoStates}
<1>7. 0 \in T
  <2>1. after[0] = d
    BY <1>6
  <2> QED BY <2>1
<1>8. ASSUME NEW k \in Nat, k \in T PROVE k + 1 \in T
  <2> SUFFICES ASSUME k + 1 <= len PROVE after[k + 1] \in IoStates
    OBVIOUS
  <2>1. k + 1 \in 1..len /\ k + 1 \in 0..len /\ k + 1 # 0 /\ (k + 1) - 1 = k
    OBVIOUS
  <2>2. after[k] \in IoStates
    BY <1>8, <2>1
  <2> HIDE DEF Step
  <2>3. after[k + 1] = Step(k + 1, after[k])
    BY <1>6, <2>1
  <2> QED BY <1>1, <2>1, <2>2, <2>3
<1>9. len \in T
  <2> HIDE DEF T
  <2> QED BY <1>7, <1>8, SetInduction
<1> QED BY <1>9 DEF after

-----------------------------------------------------------------------------
(* Writing.                                                                *)

\* What a write puts out is the first of its buffers, and all of them if it is
\* reported as done.
LEMMA OutIsPrefix ==
  ASSUME NEW K \in Nat, NEW n \in Nat, NEW failing \in Nat
  PROVE  \E m \in 0..n : /\ WrittenBefore(Following(K, n), failing) = Following(K, m)
                         /\ failing \notin DOMAIN Following(K, n) => m = n
<1> DEFINE bufs == Following(K, n)
<1>1. bufs \in Seq(Nat) /\ Len(bufs) = n /\ DOMAIN bufs = 1..n
  BY FollowingFacts
<1>2. \A i \in 1..n : bufs[i] = K + i
  BY DEF Following
<1> HIDE DEF bufs
<1>3. CASE failing \in DOMAIN bufs
  <2>1. failing - 1 \in 0..n /\ failing - 1 \in Nat /\ failing - 1 <= n
    BY <1>1, <1>3
  <2> DEFINE l == failing - 1
             s == SubSeq(bufs, 1, l)
             t == Following(K, l)
  <2>2. t \in Seq(Nat) /\ Len(t) = l
    BY <2>1, FollowingFacts
  <2>3. \A i \in 1..l : t[i] = K + i
    BY DEF Following
  <2> HIDE DEF l, t
  <2>4. l \in 0..n /\ l \in Nat /\ l <= n
    BY <2>1 DEF l
  <2>5. s \in Seq(Nat) /\ Len(s) = l /\ \A i \in 1..l : s[i] = bufs[i]
    BY <1>1, <2>4
  <2> HIDE DEF s
  <2>6. ASSUME NEW i \in 1..Len(s) PROVE s[i] = t[i]
    BY <1>2, <2>3, <2>4, <2>5
  <2>7. s = t
    BY <2>2, <2>5, <2>6, SeqEqual
  <2>8. WrittenBefore(bufs, failing) = Following(K, l)
    BY <1>3, <2>7 DEF WrittenBefore, s, t, l
  <2> QED BY <1>3, <2>4, <2>8 DEF bufs
<1>4. CASE failing \notin DOMAIN bufs
  <2>1. WrittenBefore(bufs, failing) = Following(K, n)
    BY <1>4 DEF WrittenBefore, bufs
  <2>2. n \in 0..n
    OBVIOUS
  <2> QED BY <1>4, <2>1, <2>2 DEF bufs
<1> QED BY <1>3, <1>4

\* The numbers that follow all that are out go out after them.
LEMMA OutputGrows ==
  ASSUME NEW out \in Seq(Nat), NEW K \in Nat, NEW m \in Nat,
         Increasing(out), Range(out) \subseteq 1..K
  PROVE  LET new == out \o Following(K, m) IN
         /\ new \in Seq(Nat) /\ Increasing(new)
         /\ Range(new) = Range(out) \cup ((K + 1)..(K + m))
<1> DEFINE t == Following(K, m)
           new == out \o t
<1>1. t \in Seq(Nat) /\ Len(t) = m /\ Range(t) = (K + 1)..(K + m) /\ Increasing(t)
  BY FollowingFacts
<1> HIDE DEF t
<1>2. /\ new \in Seq(Nat) /\ Len(new) = Len(out) + m /\ Len(out) \in Nat
      /\ DOMAIN new = 1..(Len(out) + m) /\ DOMAIN out = 1..Len(out) /\ DOMAIN t = 1..m
      /\ \A i \in 1..Len(out) : new[i] = out[i]
  BY <1>1
<1>3. ASSUME NEW i \in DOMAIN new, i > Len(out)
      PROVE  i - Len(out) \in DOMAIN t /\ new[i] = t[i - Len(out)]
  BY <1>1, <1>2, <1>3
<1>4. ASSUME NEW i \in DOMAIN t PROVE Len(out) + i \in DOMAIN new /\ new[Len(out) + i] = t[i]
  BY <1>1, <1>2
<1> HIDE DEF new
<1>5. /\ \A i \in DOMAIN out : out[i] \in 1..K
      /\ \A i \in DOMAIN t : t[i] \in (K + 1)..(K + m)
  BY <1>1 DEF Range
<1>6. ASSUME NEW i \in DOMAIN new, NEW j \in DOMAIN new, i < j PROVE new[i] < new[j]
  <2>1. CASE j \in 1..Len(out)
    <3>1. i \in DOMAIN out /\ j \in DOMAIN out /\ new[i] = out[i] /\ new[j] = out[j]
      BY <1>2, <1>6, <2>1
    <3> QED BY <3>1, <1>6 DEF Increasing
  <2>2. CASE j > Len(out) /\ i \in 1..Len(out)
    <3>1. new[j] \in (K + 1)..(K + m)
      BY <1>3, <1>5, <2>2
    <3>2. new[i] \in 1..K
      BY <1>2, <1>5, <2>2
    <3> QED BY <3>1, <3>2
  <2>3. CASE j > Len(out) /\ i > Len(out)
    <3>1. /\ i - Len(out) \in DOMAIN t /\ new[i] = t[i - Len(out)]
          /\ j - Len(out) \in DOMAIN t /\ new[j] = t[j - Len(out)]
      BY <1>3, <2>3
    <3>2. i - Len(out) < j - Len(out)
      BY <1>2, <1>6
    <3> QED BY <3>1, <3>2, <1>1 DEF Increasing
  <2> QED BY <1>2, <2>1, <2>2, <2>3
<1>7. ASSUME NEW x \in Range(new) PROVE x \in Range(out) \cup ((K + 1)..(K + m))
  <2>1. PICK i \in DOMAIN new : x = new[i]
    BY <1>7 DEF Range
  <2>2. CASE i \in 1..Len(out)
    BY <2>1, <2>2, <1>2 DEF Range
  <2>3. CASE i > Len(out)
    BY <2>1, <2>3, <1>3, <1>5
  <2> QED BY <1>2, <2>2, <2>3
<1>8. ASSUME NEW x \in Range(out) PROVE x \in Range(new)
  BY <1>2 DEF Range
<1>9. ASSUME NEW x \in (K + 1)..(K + m) PROVE x \in Range(new)
  <2>1. PICK i \in DOMAIN t : x = t[i]
    BY <1>1 DEF Range
  <2> QED BY <2>1, <1>4 DEF Range
<1>10. Increasing(new)
  BY <1>6 DEF Increasing
<1> QED BY <1>2, <1>7, <1>8, <1>9, <1>10 DEF new, t

\* read() as its stream goes bad: the bytes it got are reported with the error.
LEMMA WentBadKeeps ==
  ASSUME NEW d \in IoStates, NEW got \in Nat, NEW again \in Agains, d.m_reading,
         got <= d.m_len - d.m_cursor, d.taken + got <= StreamLength
  PROVE  went_bad(d, got, again) \in IoStates
<1> DEFINE f == Copied(d, got)
           ended == complete_read(f, "bad_stream", again)
           u == went_bad(d, got, again)
<1>1. /\ f \in IoRecord /\ f.m_reading /\ f.taken <= StreamLength
      /\ FillInv(f) /\ ReportInv(f) /\ WriteInv(f)
  BY CopiedKeeps
<1> HIDE DEF f
<1>2. "bad_stream" \in Outcomes
  BY DEF Outcomes
<1>3. /\ ended \in IoRecord /\ ReadInv(ended) /\ ended.taken = f.taken
      /\ ended.sent = f.sent /\ ended.output = f.output /\ ended.writes = f.writes
  BY <1>1, <1>2, CompleteKeeps
<1>4. WriteInv(ended)
  BY <1>1, <1>3 DEF WriteInv
<1>5. u = [ended EXCEPT !.threw =
                         ended.threw \/ (~ended.m_reading /\ ended.m_cursor >= ended.m_bytes_needed)]
  <2>1. u = [ended EXCEPT !.threw =
                           @ \/ (~ended.m_reading /\ ended.m_cursor >= ended.m_bytes_needed)]
    BY DEF went_bad, f
  <2> HIDE DEF ended, u
  <2> QED BY <2>1, <1>3 DEF IoRecord
<1> HIDE DEF ended, u
<1> DEFINE threw == \/ ended.threw
                    \/ ~ended.m_reading /\ ended.m_cursor >= ended.m_bytes_needed
<1>6. threw \in BOOLEAN
  OBVIOUS
<1> HIDE DEF threw
<1>7. u \in IoRecord /\ SameButOstream(ended, u)
  <2>1. u = [ended EXCEPT !.threw = threw]
    BY <1>5 DEF threw
  <2> QED BY <2>1, <1>3, <1>6 DEF IoRecord, SameButOstream
<1>8. ended \in IoStates
  BY <1>3, <1>4 DEF IoStates
<1> QED BY <1>7, <1>8, OstreamOnly DEF u

\* A write disturbs nothing of the writes before it: their buffers are numbered
\* below its own.
LEMMA WriteKeeps ==
  ASSUME NEW d \in IoStates, NEW output \in Outputs, NEW n \in Nat, NEW failing \in Nat
  PROVE  iostream_write(d, output, Following(d.sent, n), failing) \in IoStates
<1> DEFINE K == d.sent
           bufs == Following(K, n)
           whole == failing \notin DOMAIN bufs
           swallowed == Swallowed(d, output)
           nowhere == output = "none" \/ swallowed \/ WasBad(d, output)
           out == CASE nowhere -> <<>>
                    [] output = "vector" -> IF whole THEN bufs ELSE <<>>
                    [] OTHER -> WrittenBefore(bufs, failing)
           ec == CASE output = "none" -> "output_stream_required"
                   [] swallowed -> "ok"
                   [] OTHER -> IF whole /\ ~WasBad(d, output) THEN "ok" ELSE "error"
           ostream == IF output = "ostream" /\ d.ostream = "good" /\ ~whole
                      THEN "bad" ELSE d.ostream
           w == [bufs |-> bufs, ec |-> ec, swallowed |-> swallowed]
           u == iostream_write(d, output, bufs, failing)
<1>1. K \in Nat /\ d \in IoRecord /\ WriteInv(d) /\ ReadInv(d)
  BY DEF IoStates, IoRecord
<1>2. /\ bufs \in Seq(Nat) /\ Len(bufs) = n /\ Range(bufs) = (K + 1)..(K + n)
      /\ DOMAIN bufs = 1..n /\ \A i \in 1..n : bufs[i] = K + i
  <2>1. bufs \in Seq(Nat) /\ Len(bufs) = n /\ Range(bufs) = (K + 1)..(K + n)
    <3> HIDE DEF K
    <3> QED BY <1>1, FollowingFacts
  <2> QED BY <2>1 DEF Following
<1>3. u = [d EXCEPT !.sent = K + n, !.output = d.output \o out, !.ostream = ostream,
                    !.writes = Append(d.writes, w)]
  BY <1>1, <1>2 DEF iostream_write, IoRecord
<1>4. ec \in Outcomes /\ swallowed \in BOOLEAN /\ ostream \in StreamStates
  BY <1>1 DEF Outcomes, Swallowed, StreamStates, IoRecord
<1>5. PICK m \in 0..n : out = Following(K, m) /\ (ec = "ok" /\ ~swallowed => m = n)
  <2>1. Following(K, 0) = <<>> /\ 0 \in 0..n /\ n \in 0..n
    BY DEF Following
  <2>2. CASE nowhere
    <3>1. output # "vector" /\ (swallowed => output = "ostream")
      BY <2>2 DEF Swallowed, WasBad
    <3>2. ec = "ok" => swallowed
      <4> HIDE DEF whole, swallowed
      <4> QED BY <2>2, <3>1
    <3>3. out = <<>>
      <4> HIDE DEF whole, nowhere, bufs
      <4> QED BY <2>2, <3>1
    <3> HIDE DEF out, ec, K, swallowed
    <3> QED BY <3>2, <3>3, <2>1
  <2>3. CASE ~nowhere /\ output = "vector"
    <3>1. out = (IF whole THEN bufs ELSE <<>>) /\ (ec = "ok" => whole)
      BY <2>3
    <3> HIDE DEF out, ec, K, swallowed
    <3> QED BY <3>1, <2>1
  <2>4. CASE ~nowhere /\ output # "vector"
    <3>1. out = WrittenBefore(bufs, failing) /\ (ec = "ok" => whole)
      BY <2>4
    <3>2. \E m \in 0..n : /\ WrittenBefore(Following(K, n), failing) = Following(K, m)
                          /\ failing \notin DOMAIN Following(K, n) => m = n
      <4> HIDE DEF K
      <4> QED BY <1>1, OutIsPrefix
    <3> HIDE DEF out, ec, K, swallowed
    <3> QED BY <3>1, <3>2
  <2> QED BY <2>2, <2>3, <2>4
<1> HIDE DEF out, ec, bufs, swallowed, ostream
<1> DEFINE new == d.output \o out
           ws == Append(d.writes, w)
<1>6. /\ new \in Seq(Nat) /\ Increasing(new)
      /\ Range(new) = Range(d.output) \cup ((K + 1)..(K + m))
  <2>1. d.output \in Seq(Nat) /\ Increasing(d.output) /\ Range(d.output) \subseteq 1..K
    BY <1>1 DEF IoRecord, WriteInv
  <2>2. m \in Nat
    OBVIOUS
  <2> HIDE DEF K
  <2> QED BY <2>1, <2>2, <1>1, <1>5, OutputGrows
<1>7. w \in WriteRecord /\ w.bufs = bufs /\ w.ec = ec /\ w.swallowed = swallowed
  BY <1>2, <1>4 DEF WriteRecord
<1> HIDE DEF w, new
<1>8. /\ d.writes \in Seq(WriteRecord)
      /\ ws \in Seq(WriteRecord)
      /\ DOMAIN d.writes = 1..Len(d.writes) /\ Len(d.writes) \in Nat
      /\ DOMAIN ws = 1..(Len(d.writes) + 1)
      /\ \A i \in 1..Len(d.writes) : ws[i] = d.writes[i]
      /\ ws[Len(d.writes) + 1] = w
  BY <1>1, <1>7 DEF IoRecord
<1> HIDE DEF ws, u
<1>9. /\ u \in IoRecord /\ u.sent = K + n /\ u.output = new /\ u.writes = ws
      /\ u.m_reading = d.m_reading /\ u.m_len = d.m_len
      /\ u.m_bytes_needed = d.m_bytes_needed /\ u.m_cursor = d.m_cursor
      /\ u.m_buf = d.m_buf /\ u.taken = d.taken /\ u.handed = d.handed
  <2> DEFINE sent == K + n
  <2>1. u = [d EXCEPT !.sent = sent, !.output = new, !.ostream = ostream, !.writes = ws]
    BY <1>3 DEF new, ws
  <2>2. /\ sent \in Nat /\ new \in Seq(Nat) /\ ostream \in StreamStates
        /\ ws \in Seq(WriteRecord) /\ d \in IoRecord
    BY <1>1, <1>4, <1>6, <1>8
  <2> HIDE DEF sent
  <2> QED BY ONLY <2>1, <2>2 DEF IoRecord, sent
<1>10. ReadInv(u)
  <2>1. Reports(u) = Reports(d) /\ Waiting(u) = Waiting(d)
    BY <1>9 DEF Reports, Waiting
  <2> QED BY <1>1, <1>9, <2>1 DEF ReadInv, FillInv, ReportInv
<1> DEFINE Recorded(i) == LET b == ws[i].bufs IN
                          /\ Range(b) \subseteq 1..(K + n)
                          /\ ws[i].ec = "ok" /\ ~ws[i].swallowed => Range(b) \subseteq Range(new)
                          /\ \A x, y \in DOMAIN b :
                               x < y /\ b[y] \in Range(new) => b[x] \in Range(new)
<1>11. ASSUME NEW i \in 1..Len(d.writes) PROVE Recorded(i)
  <2> DEFINE b == d.writes[i].bufs
  <2>1. /\ Range(b) \subseteq 1..K
        /\ d.writes[i].ec = "ok" /\ ~d.writes[i].swallowed
             => Range(b) \subseteq Range(d.output)
        /\ \A x, y \in DOMAIN b :
             x < y /\ b[y] \in Range(d.output) => b[x] \in Range(d.output)
    BY <1>1, <1>8 DEF WriteInv
  <2>2. ws[i] = d.writes[i]
    BY <1>8
  <2>3. \A x \in Range(b) : x \in Range(new) <=> x \in Range(d.output)
    <3> HIDE DEF K
    <3> QED BY <2>1, <1>1, <1>6
  <2>4. \A x \in DOMAIN b : b[x] \in Range(b)
    BY DEF Range
  <2>5. 1..K \subseteq 1..(K + n)
    BY <1>1
  <2> HIDE DEF b, K
  <2> QED BY <2>1, <2>2, <2>3, <2>4, <2>5 DEF b
<1>12. Recorded(Len(d.writes) + 1)
  <2>1. /\ ws[Len(d.writes) + 1].bufs = bufs /\ ws[Len(d.writes) + 1].ec = ec
        /\ ws[Len(d.writes) + 1].swallowed = swallowed
    BY <1>7, <1>8
  <2>2. Range(bufs) \subseteq 1..(K + n)
    BY <1>1, <1>2
  <2>3. ec = "ok" /\ ~swallowed => Range(bufs) \subseteq Range(new)
    BY <1>2, <1>5, <1>6
  <2>4. ASSUME NEW x \in DOMAIN bufs, NEW y \in DOMAIN bufs, x < y, bufs[y] \in Range(new)
        PROVE  bufs[x] \in Range(new)
    <3>1. bufs[x] = K + x /\ bufs[y] = K + y /\ x \in 1..n /\ y \in 1..n
      BY <1>2
    <3>2. ~(bufs[y] \in Range(d.output))
      <4>1. ~(K + y \in 1..K)
        BY <1>1, <3>1
      <4> QED BY <4>1, <3>1, <1>1 DEF WriteInv
    <3>3. K + y \in (K + 1)..(K + m)
      BY <2>4, <3>1, <3>2, <1>6
    <3>4. K + x \in (K + 1)..(K + m)
      BY <1>1, <2>4, <3>1, <3>3
    <3> QED BY <3>1, <3>4, <1>6
  <2> HIDE DEF K
  <2> QED BY <2>1, <2>2, <2>3, <2>4
<1>13. WriteInv(u)
  <2>1. Range(new) \subseteq 1..(K + n)
    <3>1. Range(d.output) \subseteq 1..K
      BY <1>1 DEF WriteInv
    <3> QED BY <3>1, <1>1, <1>6
  <2>2. \A i \in DOMAIN ws : Recorded(i)
    <3> HIDE DEF Recorded
    <3>1. \A i \in 1..(Len(d.writes) + 1) : i \in 1..Len(d.writes) \/ i = Len(d.writes) + 1
      BY <1>8
    <3> QED BY <1>8, <1>11, <1>12, <3>1
  <2> HIDE DEF K
  <2> QED BY <1>6, <1>9, <2>1, <2>2 DEF WriteInv
<1> QED BY <1>9, <1>10, <1>13 DEF IoStates, u, bufs

-----------------------------------------------------------------------------
(* Every step, and the property.                                           *)

IoInv == io \in IoStates

\* Nothing has been read or written.
LEMMA IoInit == IostreamInit => IoInv
<1> SUFFICES ASSUME IostreamInit PROVE io \in IoStates
  BY DEF IoInv
<1>1. /\ ~io.m_reading /\ io.taken = 0 /\ io.handed = <<>> /\ io.sent = 0
      /\ io.output = <<>> /\ io.writes = <<>>
  BY DEF IostreamInit
<1>2. io \in IoRecord
  BY DEF IostreamInit, IoRecord, StreamStates
<1>3. Reports(io) = <<>> /\ Waiting(io) = 0 /\ DOMAIN Reports(io) = {}
  BY <1>1 DEF Reports, Waiting
<1>4. ReadInv(io)
  BY <1>1, <1>3, IostreamAssumption DEF ReadInv, FillInv, ReportInv, InOrder
<1>5. WriteInv(io)
  BY <1>1 DEF WriteInv, Increasing, Range
<1> QED BY <1>2, <1>4, <1>5 DEF IoStates

\* Each of the application's calls, and of the connection's, keeps it.
LEMMA IoStep == IoInv /\ [IostreamNext]_io => IoInv'
<1> SUFFICES ASSUME io \in IoStates, [IostreamNext]_io
             PROVE  io' \in IoStates
  BY DEF IoInv
<1>1. /\ io \in IoRecord /\ ReadInv(io) /\ WriteInv(io)
      /\ io.taken \in Nat /\ io.taken <= StreamLength
  BY DEF IoStates, IoRecord, ReadInv
<1>2. CASE AsyncRead
  <2>1. PICK r \in Asks : io' = iostream_read_at_least(io, r[1], r[2])
    BY <1>2 DEF AsyncRead
  <2>2. r[1] \in Nat /\ r[2] \in Nat
    BY IostreamAssumption DEF Asks
  <2>3. /\ io' \in IoRecord /\ ReadInv(io') /\ io'.taken = io.taken
        /\ io'.sent = io.sent /\ io'.output = io.output /\ io'.writes = io.writes
    BY <1>1, <2>1, <2>2, AtLeastKeeps
  <2>4. WriteInv(io')
    BY <1>1, <2>3 DEF WriteInv
  <2> QED BY <2>3, <2>4 DEF IoStates
<1>3. CASE ReadSome
  <2>1. PICK len \in 1..(StreamLength - io.taken), again \in Agains :
          io' = read_some_impl(io, len, again)
    BY <1>3 DEF ReadSome
  <2>2. len \in Nat /\ io.taken + len <= StreamLength
    BY <1>1, IostreamAssumption
  <2> QED BY <2>1, <2>2, ReadSomeKeeps
<1>4. CASE ReadAll
  <2>1. PICK len \in 1..(StreamLength - io.taken), again \in Agains :
          io' = read_all(io, len, again)[len]
    BY <1>4 DEF ReadAll
  <2>2. len \in Nat /\ io.taken + len <= StreamLength
    BY <1>1, IostreamAssumption
  <2> QED BY <2>1, <2>2, ReadAllKeeps
<1>5. CASE StreamIn
  <2> DEFINE left == StreamLength - io.taken
  <2>1. PICK again \in Agains : io' = read_all(io, left, again)[left]
    BY <1>5 DEF StreamIn, read
  <2>2. left \in Nat /\ io.taken + left <= StreamLength
    BY <1>1, IostreamAssumption
  <2> HIDE DEF left
  <2> QED BY <2>1, <2>2, ReadAllKeeps
<1>6. CASE \E ec \in {"eof", "pass_through"} : SignalEnd(ec)
  <2>1. PICK ec \in {"eof", "pass_through"} : SignalEnd(ec)
    BY <1>6
  <2>2. io.m_reading /\ io' = complete_read(io, ec, <<>>)
    BY <2>1 DEF SignalEnd
  <2>3. ec \in Outcomes /\ <<>> \in Agains
    BY DEF Outcomes, Agains
  <2>4. FillInv(io) /\ ReportInv(io)
    BY <1>1 DEF ReadInv
  <2>5. /\ io' \in IoRecord /\ ReadInv(io') /\ io'.taken = io.taken
        /\ io'.sent = io.sent /\ io'.output = io.output /\ io'.writes = io.writes
    BY <1>1, <2>2, <2>3, <2>4, CompleteKeeps
  <2>6. WriteInv(io')
    BY <1>1, <2>5 DEF WriteInv
  <2> QED BY <2>5, <2>6 DEF IoStates
<1>7. CASE AsyncWrite
  <2>1. PICK output \in Outputs, n \in 1..3, failing \in 0..3 :
          io' = iostream_write(io, output, Following(io.sent, n), failing)
    BY <1>7 DEF AsyncWrite
  <2>2. n \in Nat /\ failing \in Nat
    OBVIOUS
  <2> QED BY <2>1, <2>2, WriteKeeps
<1>8. CASE StreamInBad
  <2>1. PICK again \in Agains, len \in 0..(StreamLength - io.taken) :
          LET d == read_all(io, len, again)[len] IN
          /\ d.taken = io.taken + len /\ d.m_reading
          /\ \E got \in 1..Smaller(d.m_len - d.m_cursor, StreamLength - d.taken) :
               io' = went_bad(d, got, again)
    BY <1>8 DEF StreamInBad
  <2> DEFINE d == read_all(io, len, again)[len]
  <2>2. len \in Nat /\ io.taken + len <= StreamLength
    BY <1>1, IostreamAssumption
  <2>3. d \in IoStates
    BY <2>2, ReadAllKeeps
  <2> HIDE DEF d
  <2>4. PICK got \in 1..Smaller(d.m_len - d.m_cursor, StreamLength - d.taken) :
          io' = went_bad(d, got, again)
    BY <2>1 DEF d
  <2>5. /\ d.m_reading /\ d.taken \in Nat /\ d.m_len \in Nat /\ d.m_cursor \in Nat
        /\ d.m_cursor <= d.m_len /\ d.taken <= StreamLength
    BY <2>1, <2>3 DEF d, IoStates, IoRecord, ReadInv, FillInv
  <2>6. got \in Nat /\ got <= d.m_len - d.m_cursor /\ d.taken + got <= StreamLength
    BY <2>5, IostreamAssumption DEF Smaller
  <2> QED BY <2>3, <2>4, <2>5, <2>6, WentBadKeeps
<1>9. CASE \/ \E became \in {"good", "fail", "bad"} : OstreamBecomes(became)
           \/ \E registered \in BOOLEAN : AsyncShutdown(registered)
  <2>1. CASE \E became \in {"good", "fail", "bad"} : OstreamBecomes(became)
    <3>1. PICK became \in StreamStates : io' = [io EXCEPT !.ostream = became]
      BY <2>1 DEF OstreamBecomes, StreamStates
    <3>2. io' \in IoRecord /\ SameButOstream(io, io')
      BY <1>1, <3>1 DEF IoRecord, SameButOstream
    <3> QED BY <3>2, OstreamOnly
  <2>2. CASE \E registered \in BOOLEAN : AsyncShutdown(registered)
    <3>1. PICK registered \in BOOLEAN :
            io' = [io EXCEPT !.shutdowns = 1, !.cleanups = IF registered THEN 1 ELSE 0]
      BY <2>2 DEF AsyncShutdown
    <3>2. io' \in IoRecord /\ SameButOstream(io, io')
      BY <1>1, <3>1 DEF IoRecord, SameButOstream
    <3> QED BY <3>2, OstreamOnly
  <2> QED BY <1>9, <2>1, <2>2
<1>10. CASE UNCHANGED io
  BY <1>10
<1> QED BY <1>2, <1>3, <1>4, <1>5, <1>6, <1>7, <1>8, <1>9, <1>10
        DEF IostreamNext, IostreamInput, IostreamOutput

\* With what is in the buffer, the reports are all that was taken.
LEMMA InvInOrder == IoInv => BytesInOrder
<1> SUFFICES ASSUME io \in IoStates PROVE BytesInOrder
  BY DEF IoInv
<1> DEFINE K == io.taken - Waiting(io)
           n == Waiting(io)
           h == Reports(io)
           t == IF io.m_reading THEN io.m_buf ELSE <<>>
<1>1. io \in IoRecord /\ ReadInv(io) /\ WriteInv(io)
  BY DEF IoStates
<1>2. K \in Nat /\ n \in Nat /\ K + n = io.taken /\ InOrder(h, K)
  BY <1>1 DEF IoRecord, ReadInv, FillInv, ReportInv, Waiting
<1>3. t = Following(K, n)
  <2>1. CASE io.m_reading
    BY <2>1, <1>1 DEF ReadInv, FillInv, Waiting
  <2>2. CASE ~io.m_reading
    BY <2>2 DEF Following, Waiting
  <2> QED BY <2>1, <2>2
<1>4. h \in Seq(Seq(Nat))
  <2>1. io.handed \in Seq([ec : Outcomes, bytes : Seq(Nat)])
    BY <1>1 DEF IoRecord
  <2> DEFINE r == [ec |-> "ok", bytes |-> <<>>]
             u == [io EXCEPT !.handed = Append(io.handed, r)]
  <2>2. r \in [ec : Outcomes, bytes : Seq(Nat)]
    BY DEF Outcomes
  <2> HIDE DEF r
  <2>3. u.handed = Append(io.handed, r)
    BY <1>1 DEF IoRecord
  <2> HIDE DEF u
  <2> QED BY <2>1, <2>2, <2>3, ReportsAppend
<1>5. io.m_reading => io.m_cursor < io.m_bytes_needed /\ io.m_cursor = Len(io.m_buf)
  <2>1. io.m_reading => n = io.m_cursor /\ t = io.m_buf /\ Len(t) = n
    <3>1. Len(Following(K, n)) = n
      <4> HIDE DEF K, n
      <4> QED BY <1>2, FollowingFacts
    <3> QED BY <3>1, <1>3 DEF Waiting
  <2> QED BY <2>1, <1>1 DEF ReadInv
<1>6. InOrder(Pieces(io), io.taken)
  <2>1. Pieces(io) = Append(h, t)
    BY DEF Pieces
  <2> HIDE DEF K, n, h, t
  <2>2. InOrder(Append(h, Following(K, n)), K + n)
    BY <1>2, <1>4, InOrderAppend
  <2> QED BY <1>2, <1>3, <2>1, <2>2
<1> QED BY <1>1, <1>5, <1>6 DEF BytesInOrder, WriteInv

\* However the application cuts its stream, whichever of its calls feeds it and
\* whatever the handlers ask for next, the bytes reach them once and in order;
\* and what is written is out in order, whole where it is reported as done by
\* anything but an output stream whose failbit is set.
THEOREM StreamIsKept == IostreamSpec => []BytesInOrder
<1> QED BY IoInit, IoStep, InvInOrder, PTL DEF IostreamSpec
===============================================================================
