------------------------- MODULE ConnectionControls -------------------------
(***************************************************************************)
(* The controls of an open connection: pausing and resuming the read loop, *)
(* pings with their timeout, interrupts.  The calls are made by any thread *)
(* and only post a handler for the strand, but for ping(): it replaces     *)
(* m_ping_timer on its caller's thread, with no lock, one access at a time.*)
(***************************************************************************)
EXTENDS Naturals, Sequences

CONSTANTS
  Callers,     \* the threads that call ping()
  MaxPosted,   \* bound: posted handlers not yet run
  MaxReads,    \* bound: reads in flight after which no resume is asked for
  MaxPings     \* bound: timers set after which no ping is begun

ASSUME ControlsAssumption == MaxPosted \in Nat /\ MaxReads \in Nat /\ MaxPings \in Nat

VARIABLES
  open,          \* m_state is open
  m_read_flag,
  reads,         \* async_read_at_least calls in flight
  posted,        \* handlers dispatched and not yet run, oldest first
  timers,        \* those set_timer made: "armed", "due", "cancelled" or "reported"
  m_ping_timer,  \* which of them the connection keeps, or 0
  ping_pc,       \* a caller's position in ping(): "idle", "checked", ...
  made,          \* the timer a caller was returned and has not assigned, or 0
  answered,      \* history: the timers of pings that a pong has followed
  meeting,       \* history: the callers whose ping met another in progress
  met,           \* history: the timers of such pings
  raced          \* two threads were at m_ping_timer at once, one to assign it

pingVars    == <<timers, m_ping_timer, ping_pc, made, answered, meeting, met, raced>>
controlVars == <<open, m_read_flag, reads, posted, pingVars>>

ControlsInit ==
  /\ open = TRUE /\ m_read_flag = TRUE /\ reads = 1 /\ posted = <<>>
  /\ timers = <<>> /\ m_ping_timer = 0
  /\ ping_pc = [t \in Callers |-> "idle"] /\ made = [t \in Callers |-> 0]
  /\ answered = {} /\ meeting = {} /\ met = {} /\ raced = FALSE

-----------------------------------------------------------------------------
\* The application calls through a handle, a weak pointer: only what runs on
\* the connection's behalf keeps it alive once it has closed.
get_con_from_hdl == \/ open \/ reads > 0 \/ posted # <<>>
                    \/ \E i \in DOMAIN timers : timers[i] \in {"armed", "due"}

\* pause_reading, resume_reading and interrupt post their handler.
Post(handler) ==
  /\ Len(posted) < MaxPosted
  /\ handler = "resume" => reads + Len(posted) < MaxReads
  /\ posted' = Append(posted, handler)
  /\ UNCHANGED <<open, m_read_flag, reads, pingVars>>

\* A read is started only while the flag is up.
read_frame(flag, n) == IF flag THEN n + 1 ELSE n

\* resume raises the flag and reads at once, a read in flight or not.
RunPosted ==
  /\ posted # <<>>
  /\ posted' = Tail(posted)
  /\ CASE Head(posted) = "pause"  -> m_read_flag' = FALSE /\ reads' = reads
       [] Head(posted) = "resume" -> m_read_flag' = TRUE /\ reads' = read_frame(TRUE, reads)
       [] OTHER                   -> UNCHANGED <<m_read_flag, reads>>
  /\ UNCHANGED <<open, pingVars>>

\* A read completes: its frames are consumed and the next read is started.
ReadCompletes ==
  /\ reads > 0
  /\ reads' = IF open THEN read_frame(m_read_flag, reads - 1) ELSE reads - 1
  /\ UNCHANGED <<open, m_read_flag, posted, pingVars>>

\* What the endpoint does with an expired handle is to report an error.
Call(handler) == get_con_from_hdl /\ Post(handler)

Terminated ==
  /\ open
  /\ open' = FALSE
  /\ UNCHANGED <<m_read_flag, reads, posted, pingVars>>

-----------------------------------------------------------------------------
(* Pings, with a pong-timeout handler set.                                 *)

\* The timer the connection keeps is cancelled, if it still runs.
Cancelled == [i \in DOMAIN timers |-> IF i = m_ping_timer /\ timers[i] = "armed"
                                      THEN "cancelled" ELSE timers[i]]

Pinging == {t \in Callers : ping_pc[t] # "idle"}
Goes(t, position) == ping_pc' = [ping_pc EXCEPT ![t] = position]

\* The state is checked under its lock, which is released at once.
PingChecks(t) ==
  /\ open /\ ping_pc[t] = "idle" /\ Len(timers) < MaxPings
  /\ Goes(t, "checked")
  /\ meeting' = IF Pinging = {} THEN {} ELSE meeting \cup Pinging \cup {t}
  /\ UNCHANGED <<open, m_read_flag, reads, posted, timers, m_ping_timer, made,
                 answered, met, raced>>

\* Mutant: the earlier ping's timer is left running.
PingKeepsTimer(t) ==
  /\ ping_pc[t] = "checked"
  /\ Goes(t, "cancelled")
  /\ UNCHANGED <<open, m_read_flag, reads, posted, timers, m_ping_timer, made,
                 answered, meeting, met, raced>>

\* Any existing timer is cancelled: the one m_ping_timer points to.
PingCancels(t) ==
  /\ ping_pc[t] = "checked"
  /\ Goes(t, "cancelled") /\ timers' = Cancelled
  /\ UNCHANGED <<open, m_read_flag, reads, posted, m_ping_timer, made, answered,
                 meeting, met, raced>>

\* set_timer returns a timer that runs already.
PingSetsTimer(t) ==
  /\ ping_pc[t] = "cancelled"
  /\ Goes(t, "set")
  /\ timers' = Append(timers, "armed") /\ made' = [made EXCEPT ![t] = Len(timers) + 1]
  /\ UNCHANGED <<open, m_read_flag, reads, posted, m_ping_timer, answered, meeting,
                 met, raced>>

\* It is assigned, and the ping is queued.
PingAssigns(t) ==
  /\ ping_pc[t] = "set"
  /\ Goes(t, "idle") /\ m_ping_timer' = made[t] /\ made' = [made EXCEPT ![t] = 0]
  /\ met' = IF t \in meeting THEN met \cup {made[t]} ELSE met
  /\ meeting' = meeting \ {t}
  /\ UNCHANGED <<open, m_read_flag, reads, posted, timers, answered, raced>>

\* Another caller, or the loop with a pong, is at m_ping_timer while a caller
\* assigns it.  Either comes first, or the pointer is torn, and nothing is said
\* of what follows.
PingRaces(t) ==
  /\ ping_pc[t] = "set"
  /\ \/ open /\ reads > 0
     \/ \E u \in Callers \ {t} : ping_pc[u] \in {"checked", "set"}
  /\ raced' = TRUE
  /\ UNCHANGED <<open, m_read_flag, reads, posted, timers, m_ping_timer, ping_pc,
                 made, answered, meeting, met>>

Ping(t) == PingChecks(t) \/ PingCancels(t) \/ PingSetsTimer(t) \/ PingAssigns(t)

\* The pings that were queued: their calls are over.
Sent == DOMAIN timers \ {made[t] : t \in Callers}

\* process_control_frame on a pong cancels the timer whatever the payload.
PongArrives ==
  /\ open /\ reads > 0
  /\ timers' = Cancelled
  /\ answered' = Sent
  /\ reads' = read_frame(m_read_flag, reads - 1)
  /\ UNCHANGED <<open, m_read_flag, posted, m_ping_timer, ping_pc, made, meeting,
                 met, raced>>

PingTimerExpires ==
  /\ \E i \in DOMAIN timers :
       /\ timers[i] = "armed"
       /\ timers' = [timers EXCEPT ![i] = "due"]
  /\ UNCHANGED <<open, m_read_flag, reads, posted, m_ping_timer, ping_pc, made,
                 answered, meeting, met, raced>>

\* Termination leaves the timer alone, so it may report on a closed connection.
HandlePongTimeout ==
  /\ \E i \in DOMAIN timers :
       /\ timers[i] = "due"
       /\ timers' = [timers EXCEPT ![i] = "reported"]
  /\ UNCHANGED <<open, m_read_flag, reads, posted, m_ping_timer, ping_pc, made,
                 answered, meeting, met, raced>>

ControlsNext ==
  /\ ~raced
  /\ \/ \E handler \in {"pause", "resume", "interrupt"} : Call(handler)
     \/ RunPosted \/ ReadCompletes \/ Terminated
     \/ \E t \in Callers : Ping(t) \/ PingRaces(t)
     \/ PongArrives \/ PingTimerExpires \/ HandlePongTimeout

ControlsSpec == ControlsInit /\ [][ControlsNext]_controlVars

-----------------------------------------------------------------------------
RunsOut(i) == timers[i] = "armed" /\ timers'[i] = "due"

\* A ping whose call met no other is reported as unanswered only if its own
\* time ran out: a pong or a later ping that came before keeps it from ever
\* being reported, at whichever access of the later call the loop steps in.
ReportsOnlyExpired ==
  [][\A i \in DOMAIN timers :
       RunsOut(i) /\ i \in Sent /\ i \notin met
         => i = m_ping_timer /\ i \notin answered]_controlVars
=============================================================================
