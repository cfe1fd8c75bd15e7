---------------------------- MODULE EventDelivery ----------------------------
(***************************************************************************)
(* What the executor of kernel/src/task promises, without wakers, ready    *)
(* queue or polling: every event an interrupt handler stores for a task    *)
(* that is still alive is handled, and the CPU is put to sleep only while  *)
(* no live task has an event left.                                         *)
(***************************************************************************)
EXTENDS Integers

CONSTANTS Tasks, ChannelCap

VARIABLES
  pending,     \* events stored and not handled yet, by task
  alive,       \* tasks whose future has not completed
  sleeping     \* the CPU is stopped

dvars == <<pending, alive, sleeping>>

DInit ==
  /\ pending = [t \in Tasks |-> 0]
  /\ alive = Tasks
  /\ sleeping = FALSE

\* An interrupt stores an event, or drops it on a full channel; either way the
\* CPU is awake afterwards.
Arrive(t) ==
  /\ pending' = [pending EXCEPT ![t] = IF @ < ChannelCap THEN @ + 1 ELSE @]
  /\ sleeping' = FALSE
  /\ UNCHANGED alive

Handle(t) ==
  /\ ~sleeping
  /\ t \in alive
  /\ pending[t] > 0
  /\ pending' = [pending EXCEPT ![t] = @ - 1]
  /\ UNCHANGED <<alive, sleeping>>

Finish(t) ==
  /\ ~sleeping
  /\ t \in alive
  /\ alive' = alive \ {t}
  /\ UNCHANGED <<pending, sleeping>>

Sleep ==
  /\ \A t \in alive : pending[t] = 0
  /\ sleeping' = TRUE
  /\ UNCHANGED <<pending, alive>>

\* An interrupt that concerns no task.
Rouse ==
  /\ sleeping' = FALSE
  /\ UNCHANGED <<pending, alive>>

DNext ==
  \/ \E t \in Tasks : Arrive(t) \/ Handle(t) \/ Finish(t)
  \/ Sleep
  \/ Rouse

DSafe == DInit /\ [][DNext]_dvars

DSpec == DSafe /\ \A t \in Tasks : WF_dvars(Handle(t))
=============================================================================
