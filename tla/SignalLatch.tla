----------------------------- MODULE SignalLatch -----------------------------
(***************************************************************************)
(* What wait_for_condition, reset_condition and the upload branch of       *)
(* on_message promise together: a latch that one thread sets and the other *)
(* waits for and clears.  A wait that has begun ends once the latch is     *)
(* set, and only then; no signal given before a reset is forgotten.        *)
(***************************************************************************)
VARIABLES
  flag,    \* the latch
  waiter,  \* "out" or "waiting"
  up       \* FALSE once the process has died

latchVars == <<flag, waiter, up>>

LatchInit == flag = FALSE /\ waiter = "out" /\ up = TRUE

Signal == up /\ flag' = TRUE /\ UNCHANGED <<waiter, up>>

Enter == up /\ waiter = "out" /\ waiter' = "waiting" /\ UNCHANGED <<flag, up>>

Await == up /\ waiter = "waiting" /\ flag /\ waiter' = "out" /\ UNCHANGED <<flag, up>>

Reset == up /\ waiter = "out" /\ flag' = FALSE /\ UNCHANGED <<waiter, up>>

Die == up' = FALSE /\ UNCHANGED <<flag, waiter>>

LatchNext == Signal \/ Enter \/ Await \/ Reset \/ Die

LatchSafety == LatchInit /\ [][LatchNext]_latchVars

\* A thread waiting on a set latch is released.
LatchSpec == LatchSafety /\ WF_latchVars(Await)
=============================================================================
