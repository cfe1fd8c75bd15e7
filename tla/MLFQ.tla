-------------------------------- MODULE MLFQ --------------------------------
(***************************************************************************)
(* The multi-level feedback queue of kernel/src/scheduler.rs: four ready   *)
(* queues, the process that owns the CPU, and the parameters the scheduler *)
(* recomputes from its load.  There is one action per public method that   *)
(* changes the Scheduler, and one for a timer interrupt that finds the     *)
(* SCHEDULER lock taken.                                                   *)
(*                                                                         *)
(* A process is one member of Pids; the fields of struct Process that the  *)
(* scheduler reads or writes are functions on Pids.  total_ticks and       *)
(* total_switches are only ever printed and are left out.  Two unbounded   *)
(* counters saturate at a value past every threshold they are compared     *)
(* with: cpu_since_boost at CpuCap and the distance SCHEDULER_TICKS -      *)
(* last_boost_tick, called boost_age here, at AgeCap.                      *)
(***************************************************************************)
EXTENDS Integers, Sequences, FiniteSets

CONSTANTS
  Pids,                    \* processes that may ever be created
  NoProc,                  \* `current: None`
  BASE_QUANTUM_MS,         \* ticks per turn, by level
  DEMOTION_THRESHOLD,      \* CPU ticks tolerated at a level; none at the last
  BASE_BOOST_INTERVAL_MS,
  LightLoad, MediumLoad, HeavyLoad   \* 2, 5 and 10 in the code

MAX_LEVELS == 4
Levels     == 0 .. MAX_LEVELS - 1

ASSUME PidsAssumption == IsFiniteSet(Pids) /\ NoProc \notin Pids
ASSUME TuningAssumption ==
  /\ BASE_QUANTUM_MS \in [Levels -> Nat \ {0}]
  /\ DEMOTION_THRESHOLD \in [0 .. MAX_LEVELS - 2 -> Nat \ {0}]
  /\ \A k, l \in 0 .. MAX_LEVELS - 2 : k <= l => DEMOTION_THRESHOLD[k] <= DEMOTION_THRESHOLD[l]
  /\ BASE_BOOST_INTERVAL_MS \in Nat \ (0 .. 3)
ASSUME LoadAssumption ==
  /\ {LightLoad, MediumLoad, HeavyLoad} \subseteq Nat \ {0}
  /\ LightLoad <= MediumLoad /\ MediumLoad <= HeavyLoad

VARIABLES
  queues,             \* [Levels -> Seq(Pids)], VecDeque per level
  current,            \* the process on the CPU, or NoProc
  state,              \* Process::state; "New" before add_process, "Gone" once dropped
  priority, quantum_remaining, cpu_since_boost,   \* by process
  active_levels, boost_interval, last_known_load,
  boost_age,          \* SCHEDULER_TICKS - last_boost_tick
  should_switch       \* the local of timer_interrupt_handler: sys_yield comes next

procVars  == <<state, priority, quantum_remaining, cpu_since_boost>>
dynamics  == <<active_levels, boost_interval, last_known_load>>
vars      == <<queues, current, procVars, dynamics, boost_age, should_switch>>

-----------------------------------------------------------------------------
(* Pure parts of the scheduler.                                            *)

AtLeast1(n)  == IF n = 0 THEN 1 ELSE n
AtMost(n, m) == IF n > m THEN m ELSE n

CpuCap == 3 * DEMOTION_THRESHOLD[MAX_LEVELS - 2]
AgeCap == 2 * BASE_BOOST_INTERVAL_MS

\* process_count() for given queues and owner of the CPU.
Count(q, c) == Len(q[0]) + Len(q[1]) + Len(q[2]) + Len(q[3])
               + (IF c = NoProc THEN 0 ELSE 1)

ActiveLevelsFor(load) ==
  IF load <= LightLoad THEN 2 ELSE IF load <= MediumLoad THEN 3 ELSE MAX_LEVELS

BoostIntervalFor(load) ==
  IF load <= LightLoad THEN BASE_BOOST_INTERVAL_MS * 2
  ELSE IF load <= MediumLoad THEN BASE_BOOST_INTERVAL_MS
  ELSE IF load <= HeavyLoad THEN BASE_BOOST_INTERVAL_MS \div 2
  ELSE BASE_BOOST_INTERVAL_MS \div 4

\* Mutant of QuantumFor: the scaled quantum may come out as zero ticks.
QuantumMayBeZero(level, active, count) ==
  LET base == BASE_QUANTUM_MS[AtMost(level, active - 1)]
  IN  IF count <= LightLoad THEN base * 4
      ELSE IF count <= MediumLoad THEN base
      ELSE IF count <= HeavyLoad THEN base \div 2
      ELSE base \div 4

\* The quantum of a level when `count` processes are visible to process_count().
QuantumFor(level, active, count) ==
  LET base == BASE_QUANTUM_MS[AtMost(level, active - 1)]
      load == AtLeast1(count)
  IN  IF load <= LightLoad THEN base * 4
      ELSE IF load <= MediumLoad THEN base
      ELSE IF load <= HeavyLoad THEN AtLeast1(base \div 2)
      ELSE AtLeast1(base \div 4)

\* u64::MAX at the last level: past the cap of cpu_since_boost.
DemotionThresholdFor(level, count) ==
  LET load == AtLeast1(count)
  IN  IF level = MAX_LEVELS - 1 THEN CpuCap + 1
      ELSE IF load <= LightLoad THEN DEMOTION_THRESHOLD[level] * 3
      ELSE IF load <= MediumLoad THEN DEMOTION_THRESHOLD[level]
      ELSE AtLeast1(DEMOTION_THRESHOLD[level] \div 2)

-----------------------------------------------------------------------------
Init ==
  /\ queues = [l \in Levels |-> <<>>]
  /\ current = NoProc
  /\ state = [p \in Pids |-> "New"]
  /\ priority = [p \in Pids |-> 0]
  /\ quantum_remaining = [p \in Pids |-> 2]
  /\ cpu_since_boost = [p \in Pids |-> 0]
  /\ active_levels = 2
  /\ boost_interval = BASE_BOOST_INTERVAL_MS
  /\ last_known_load = 0
  /\ boost_age = 0
  /\ should_switch = FALSE

\* recalculate_dynamics() once the queues are q and the CPU belongs to c.
RecalculateDynamics(q, c) ==
  LET load == Count(q, c)
  IN  IF load = last_known_load
      THEN UNCHANGED dynamics
      ELSE /\ last_known_load' = load
           /\ active_levels' = ActiveLevelsFor(load)
           /\ boost_interval' = BoostIntervalFor(load)

\* Mutant of ScannedLevels: the lowest active level is left out.
ScannedTooFew(active) == 0 .. active - 2

\* The levels pick_and_run looks at.
ScannedLevels(active) == 0 .. active - 1

\* pick_and_run() on queues q, with st and qr the states and quanta left by the
\* caller: the head of the first non-empty active level gets the CPU.  The popped
\* process is in no queue and not yet current when quantum_for counts the load.
PickAndRun(q, st, qr) ==
  LET nonEmpty == {l \in ScannedLevels(active_levels') : q[l] # <<>>}
  IN  \/ /\ nonEmpty = {}
         /\ current' = NoProc
         /\ queues' = q
         /\ state' = st
         /\ quantum_remaining' = qr
      \/ \E l \in nonEmpty :
           /\ \A k \in nonEmpty : l <= k
           /\ LET p == Head(q[l]) IN
              /\ current' = p
              /\ queues' = [q EXCEPT ![l] = Tail(@)]
              /\ state' = [st EXCEPT ![p] = "Running"]
              /\ quantum_remaining' =
                   [qr EXCEPT ![p] = QuantumFor(priority'[p], active_levels',
                                                Count(queues', NoProc))]

\* The level a process of priority prio is queued at.
QueueLevel(prio) == AtMost(prio, active_levels - 1)

-----------------------------------------------------------------------------
\* add_process: a process from Process::new joins the top queue.
AddProcess(p) ==
  /\ ~should_switch
  /\ state[p] = "New"
  /\ state' = [state EXCEPT ![p] = "Ready"]
  /\ priority' = [priority EXCEPT ![p] = 0]
  /\ cpu_since_boost' = [cpu_since_boost EXCEPT ![p] = 0]
  /\ queues' = [queues EXCEPT ![0] = Append(@, p)]
  /\ RecalculateDynamics(queues', current)
  /\ UNCHANGED <<current, quantum_remaining, boost_age, should_switch>>

\* check_cumulative_demotion and check_and_demote: the priority p leaves the CPU
\* with, one lower if it has used up what its level tolerates, or its quantum.
CumulativeDemotion(p, count) ==
  IF /\ cpu_since_boost[p] >= DemotionThresholdFor(priority[p], count)
     /\ priority[p] < active_levels - 1
  THEN priority[p] + 1 ELSE priority[p]

QuantumDemotion(p) ==
  IF quantum_remaining[p] = 0 /\ priority[p] < active_levels - 1
  THEN priority[p] + 1 ELSE priority[p]

\* yield_current (rotate_and_get_next) with a process on the CPU: maybe demote
\* it, queue it with a fresh quantum, run the best ready process.  The owner is
\* taken out first, so the load it is judged by does not count it.  newPriority
\* is what becomes of its priority field.
Requeue(old, level, newPriority) ==
  /\ priority' = [priority EXCEPT ![old] = newPriority]
  /\ PickAndRun([queues EXCEPT ![level] = Append(@, old)],
                [state EXCEPT ![old] = "Ready"],
                [quantum_remaining EXCEPT
                   ![old] = QuantumFor(level, active_levels, Count(queues, NoProc))])

\* Mutant of YieldRunning: the demoted priority is not written back.
YieldForgetsDemotion(old) ==
  Requeue(old, QueueLevel(CumulativeDemotion(old, Count(queues, NoProc))), priority[old])

YieldRunning(old) ==
  LET prio == CumulativeDemotion(old, Count(queues, NoProc))
  IN  Requeue(old, QueueLevel(prio), prio)

YieldCurrent ==
  /\ UNCHANGED <<dynamics, cpu_since_boost, boost_age>>
  /\ should_switch' = FALSE
  /\ IF current = NoProc
     THEN /\ UNCHANGED priority
          /\ PickAndRun(queues, state, quantum_remaining)
     ELSE YieldRunning(current)

\* schedule_next: like yield_current, but the demotion rule is an exhausted
\* quantum.  No caller in the tree.
ScheduleNext ==
  /\ ~should_switch
  /\ UNCHANGED <<dynamics, cpu_since_boost, boost_age, should_switch>>
  /\ IF current = NoProc
     THEN /\ UNCHANGED priority
          /\ PickAndRun(queues, state, quantum_remaining)
     ELSE LET prio == QuantumDemotion(current)
          IN  /\ priority' = [priority EXCEPT ![current] = prio]
              /\ PickAndRun([queues EXCEPT ![QueueLevel(prio)] = Append(@, current)],
                            [state EXCEPT ![current] = "Ready"], quantum_remaining)

\* Mutant of PromoteCurrent: a process of the top level can be promoted.
PromoteWithoutFloor ==
  /\ ~should_switch
  /\ current # NoProc
  /\ priority' = [priority EXCEPT ![current] = @ - 1]
  /\ UNCHANGED <<queues, current, state, quantum_remaining, cpu_since_boost,
                 dynamics, boost_age, should_switch>>

\* promote_current.  No caller in the tree.
PromoteCurrent ==
  /\ ~should_switch
  /\ current # NoProc
  /\ priority[current] > 0
  /\ priority' = [priority EXCEPT ![current] = @ - 1]
  /\ UNCHANGED <<queues, current, state, quantum_remaining, cpu_since_boost,
                 dynamics, boost_age, should_switch>>

\* Mutant of ExitCurrent: the load is not recomputed.
ExitWithoutRecalculating ==
  /\ ~should_switch
  /\ UNCHANGED <<priority, cpu_since_boost, boost_age, should_switch, dynamics>>
  /\ PickAndRun(queues, [p \in Pids |-> IF p = current THEN "Gone" ELSE state[p]],
                quantum_remaining)

\* exit_current: the Process is dropped, the load falls, the next one runs.
ExitCurrent ==
  /\ ~should_switch
  /\ RecalculateDynamics(queues, NoProc)
  /\ UNCHANGED <<priority, cpu_since_boost, boost_age, should_switch>>
  /\ PickAndRun(queues, [p \in Pids |-> IF p = current THEN "Gone" ELSE state[p]],
                quantum_remaining)

-----------------------------------------------------------------------------
\* priority_boost: the lower queues are emptied, in order, into the top one.
InLowerQueue(p) == \E l \in 1 .. MAX_LEVELS - 1 : \E i \in 1 .. Len(queues[l]) : queues[l][i] = p

\* Mutants of BoostedQueues: the lower queues are copied but not emptied; only the
\* active levels are visited; all are emptied but only the active ones moved; the
\* lowest level goes first.
BoostCopies ==
  [queues EXCEPT ![0] = @ \o queues[1] \o queues[2] \o queues[3]]

BoostActiveOnly ==
  [l \in Levels |->
     IF l = 0 THEN queues[0] \o queues[1]
                   \o (IF active_levels > 2 THEN queues[2] ELSE <<>>)
                   \o (IF active_levels > 3 THEN queues[3] ELSE <<>>)
     ELSE IF l < active_levels THEN <<>> ELSE queues[l]]

BoostDropsInactive == [l \in Levels |-> IF l = 0 THEN BoostActiveOnly[0] ELSE <<>>]

BoostLowestFirst ==
  [l \in Levels |-> IF l = 0 THEN queues[0] \o queues[3] \o queues[2] \o queues[1]
                    ELSE <<>>]

BoostedQueues ==
  [l \in Levels |-> IF l = 0 THEN queues[0] \o queues[1] \o queues[2] \o queues[3]
                    ELSE <<>>]

\* Processes whose priority and CPU account are reset: those the boost moves,
\* and the running one if it had sunk.
BoostResets(p) == InLowerQueue(p) \/ (p = current /\ priority[p] > 0)

\* A popped process is uncounted while its own quantum is computed.
BoostedQuantum(p) ==
  IF InLowerQueue(p)
  THEN QuantumFor(0, active_levels, Count(queues, current) - 1)
  ELSE quantum_remaining[p]

\* timer_tick: boost if it is due, then charge one tick to the running process.
\* quantum and cpu are the process fields after the boost, if any.
ChargeTick(quantum, cpu) ==
  IF current = NoProc
  THEN /\ quantum_remaining' = quantum
       /\ cpu_since_boost' = cpu
       /\ should_switch' = FALSE
  ELSE /\ quantum_remaining' = [quantum EXCEPT ![current] = IF @ > 0 THEN @ - 1 ELSE 0]
       /\ cpu_since_boost' = [cpu EXCEPT ![current] = AtMost(@ + 1, CpuCap)]
       /\ should_switch' = (quantum_remaining'[current] = 0)

TickNoBoost ==
  /\ ~should_switch
  /\ boost_age + 1 < boost_interval
  /\ boost_age' = boost_age + 1
  /\ ChargeTick(quantum_remaining, cpu_since_boost)
  /\ UNCHANGED <<queues, current, state, priority, dynamics>>

TickWithBoost ==
  /\ ~should_switch
  /\ boost_age + 1 >= boost_interval
  /\ boost_age' = 0
  /\ queues' = BoostedQueues
  /\ priority' = [p \in Pids |-> IF BoostResets(p) THEN 0 ELSE priority[p]]
  /\ ChargeTick([p \in Pids |-> BoostedQuantum(p)],
                [p \in Pids |-> IF BoostResets(p) THEN 0 ELSE cpu_since_boost[p]])
  /\ RecalculateDynamics(queues', current)
  /\ UNCHANGED <<current, state>>

TimerTick == TickNoBoost \/ TickWithBoost

\* The timer interrupts the holder of the SCHEDULER lock: try_lock fails, the
\* clock advances and nothing else happens.
MissedTick ==
  /\ ~should_switch
  /\ boost_age' = AtMost(boost_age + 1, AgeCap)
  /\ UNCHANGED <<queues, current, procVars, dynamics, should_switch>>

\* The methods the kernel calls; schedule_next and promote_current have no caller.
CalledNext ==
  \/ \E p \in Pids : AddProcess(p)
  \/ YieldCurrent
  \/ ExitCurrent
  \/ TimerTick
  \/ MissedTick

Next == CalledNext \/ ScheduleNext \/ PromoteCurrent

Spec == Init /\ [][Next]_vars

\* The PIT fires at 1 kHz and no code holds SCHEDULER forever, so a timer_tick
\* always comes; sys_yield follows in the same handler, interrupts off.
FairSpec == /\ Init /\ [][CalledNext]_vars
            /\ WF_vars(TimerTick)
            /\ WF_vars(should_switch /\ YieldCurrent)

-----------------------------------------------------------------------------
(* Properties.                                                             *)

TypeOK ==
  /\ queues \in [Levels -> Seq(Pids)]
  /\ current \in Pids \cup {NoProc}
  /\ state \in [Pids -> {"New", "Ready", "Running", "Gone"}]
  /\ priority \in [Pids -> Levels]
  /\ quantum_remaining \in [Pids -> Nat]
  /\ cpu_since_boost \in [Pids -> 0 .. CpuCap]
  /\ active_levels \in 2 .. MAX_LEVELS
  /\ boost_interval \in 1 .. AgeCap
  /\ last_known_load \in Nat
  /\ boost_age \in 0 .. AgeCap
  /\ should_switch \in BOOLEAN

Queued(q)   == {q[i] : i \in 1 .. Len(q)}
NoDup(q)    == \A i, j \in 1 .. Len(q) : q[i] = q[j] => i = j

\* Every process with state Ready is in one slot of one of the queues q, every
\* Running one is c, and c is the only one that runs.
Placed(q, c, st) ==
  /\ \A l \in Levels : NoDup(q[l])
  /\ \A k, l \in Levels : k # l => Queued(q[k]) \cap Queued(q[l]) = {}
  /\ \A p \in Pids : st[p] = "Ready" <=> \E l \in Levels : p \in Queued(q[l])
  /\ \A p \in Pids : st[p] = "Running" <=> c = p

\* No operation loses or duplicates a process: every process that was added and
\* has not exited is the running one or sits in exactly one slot of one queue,
\* through every demotion, boost and change of the number of levels.
OnePlace == Placed(queues, current, state)

\* The processes that sit in some queue are the ones waiting for the CPU.
Sharing == INSTANCE CpuSharing WITH
  Procs <- Pids, None <- NoProc, running <- current,
  ready <- UNION {Queued(queues[l]) : l \in Levels},
  admitted <- {p \in Pids : state[p] # "New"}

\* Whatever the levels, boosts and demotions, the scheduler only ever hands the
\* CPU round: no step loses a waiting process, admits one twice, runs one that
\* has exited, or takes more than one from the queues.
SharesCpu == Sharing!CSpec

\* The cached load is the real one and the number of levels is the one that load
\* calls for: recalculate_dynamics, which returns early on an unchanged load, is
\* called wherever the load can change.
DynamicsFollowLoad ==
  /\ last_known_load = Count(queues, current)
  /\ active_levels = ActiveLevelsFor(last_known_load)

\* A process waits exactly on the level its priority names and runs only with a
\* priority that is active, although levels come and go with the load: no clamping
\* of a level in the code ever changes one, and no boost, demotion or promotion
\* leaves a priority and a queue apart.
QueuedByPriority ==
  /\ \A l \in Levels : \A i \in 1 .. Len(queues[l]) : priority[queues[l][i]] = l
  /\ current # NoProc => priority[current] < active_levels

\* Whoever is on the CPU has time left until the tick that preempts it: no
\* quantum of any load band is zero and no boost takes the last tick away.
TimeLeft ==
  current # NoProc => (should_switch <=> quantum_remaining[current] = 0)

\* Only exit_current can leave the CPU without a process: a yield always finds at
\* least the process it has just queued, on a level that is active.
OnlyExitIdles ==
  [][current # NoProc /\ current' = NoProc => state'[current] = "Gone"]_vars

\* Position in the order in which the queues are scanned.
Before(p, q) ==
  LET all == BoostedQueues[0]
  IN  \E i, j \in 1 .. Len(all) : i < j /\ all[i] = p /\ all[j] = q

\* Two waiting processes are served in the order of the scan, whatever others do:
\* a boost merges the queues without letting anyone overtake.
NoOvertaking ==
  [][\A p, q \in Pids : Before(p, q) => Before(p, q)' \/ state'[p] # "Ready"]_vars

\* While the CPU is in use no ready process waits forever, not even one left on a
\* level that the load has made inactive: the boost brings it back.
NoStarvation ==
  \A p \in Pids : state[p] = "Ready" ~> (state[p] # "Ready" \/ current = NoProc)
=============================================================================
