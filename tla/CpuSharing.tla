----------------------------- MODULE CpuSharing -----------------------------
(***************************************************************************)
(* What a scheduler of one CPU promises, whatever its queues, quanta and   *)
(* priorities: processes are admitted once, exactly one of those admitted  *)
(* and not finished has the CPU or it is free, the others are ready, and a *)
(* process leaves only from the CPU.                                       *)
(***************************************************************************)
CONSTANTS Procs, None   \* None is not one of Procs

VARIABLES
  admitted,    \* processes ever admitted
  ready,       \* waiting for the CPU
  running      \* the owner of the CPU, or None

cvars == <<admitted, ready, running>>

CInit == admitted = {} /\ ready = {} /\ running = None

Admit(p) ==
  /\ p \notin admitted
  /\ admitted' = admitted \cup {p}
  /\ ready' = ready \cup {p}
  /\ UNCHANGED running

\* The CPU goes to p, its owner (if any) goes back to the ready ones.
Switch(p) ==
  /\ p \in ready \cup {running}
  /\ running' = p
  /\ ready' = (ready \cup {running}) \ {p, None}
  /\ UNCHANGED admitted

\* The owner is finished; p follows, or the CPU becomes free.
Finish(p) ==
  /\ running # None
  /\ p \in ready \cup {None}
  /\ running' = p
  /\ ready' = ready \ {p}
  /\ UNCHANGED admitted

CNext ==
  \/ \E p \in Procs : Admit(p) \/ Switch(p)
  \/ \E p \in Procs \cup {None} : Finish(p)

CSpec == CInit /\ [][CNext]_cvars
=============================================================================
