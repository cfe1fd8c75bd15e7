--------------------------- MODULE Executor_proofs ---------------------------
(* Proofs about the executor, for every set of tasks, every capacity and     *)
(* every number of interrupts.                                               *)
EXTENDS Executor, TLAPS, SequenceTheorems, FiniteSetTheorems

-----------------------------------------------------------------------------
(* The inductive invariant.                                                  *)

Polling == {"poll", "register", "registering", "recheck", "take", "taking"}

\* Who is being polled, as the place of the executor tells.
RunningFollowsPc ==
  /\ pc \in Polling => running \in tasks
  /\ pc \in {"pop", "idle", "check", "halt"} => running = NoTask

\* Only the polled task can be inside an operation of its AtomicWaker.
WakerBusyOnlyInside ==
  /\ \A t \in Tasks : waker_state[t] # "WAITING"
                      => running = t /\ pc \in {"registering", "taking", "panic"}
  /\ pc = "registering" => waker_state[running] # "WAITING" /\ waker[running]

\* Once registered, a task is armed or a wake has already queued it again.
ArmedForRecheck == pc = "recheck" => running \in QueuedTasks \/ waker[running]

HaltsOnEmptyQueue == pc = "halt" => task_queue = <<>>

IInv ==
  /\ TypeOK
  /\ RunningFollowsPc
  /\ WakerBusyOnlyInside
  /\ ArmedForRecheck
  /\ HaltsOnEmptyQueue
  /\ NoLostWakeup
  /\ ParkedIsWakeable

-----------------------------------------------------------------------------
(* The ready queue.                                                          *)

\* pop.
LEMMA PopKeepsTheRest ==
  ASSUME TypeOK, task_queue # <<>>, task_queue' = Tail(task_queue)
  PROVE  /\ Head(task_queue) \in Tasks
         /\ task_queue' \in Seq(Tasks)
         /\ Len(task_queue') <= TaskQueueCap
         /\ QueuedTasks \subseteq QueuedTasks' \cup {Head(task_queue)}
<1> DEFINE q == Tail(task_queue)
<1>1. /\ q \in Seq(Tasks)
      /\ Len(task_queue) \in Nat \ {0}
      /\ Len(q) = Len(task_queue) - 1
      /\ \A i \in 1 .. Len(task_queue) - 1 : q[i] = task_queue[i + 1]
      /\ Head(task_queue) = task_queue[1]
      /\ Head(task_queue) \in Tasks
  BY HeadTailProperties, EmptySeq DEF TypeOK
<1>2. Len(q) <= TaskQueueCap
  BY <1>1, ExecutorAssumption DEF TypeOK
<1>3. ASSUME NEW i \in 1 .. Len(task_queue), i # 1
      PROVE  task_queue[i] \in QueuedTasks'
  <2>1. i - 1 \in 1 .. Len(q) /\ q[i - 1] = task_queue[i]
    BY <1>1, <1>3
  <2> QED BY <2>1 DEF QueuedTasks
<1>4. QueuedTasks \subseteq QueuedTasks' \cup {Head(task_queue)}
  <2> SUFFICES ASSUME NEW i \in 1 .. Len(task_queue)
               PROVE  task_queue[i] \in QueuedTasks' \cup {Head(task_queue)}
    BY DEF QueuedTasks
  <2> QED BY <1>1, <1>3
<1> QED BY <1>1, <1>2, <1>4

\* wake_task.
LEMMA WakeTaskQueues ==
  ASSUME TypeOK, NEW t \in Tasks, NEW next, WakeTask(t, next)
  PROVE  /\ task_queue' \in Seq(Tasks)
         /\ Len(task_queue') <= TaskQueueCap
         /\ QueuedTasks \subseteq QueuedTasks'
         /\ \/ pc' = next /\ t \in QueuedTasks'
            \/ pc' = "panic"
<1>1. CASE Len(task_queue) < TaskQueueCap
  <2> DEFINE q == Append(task_queue, t)
  <2>1. /\ q \in Seq(Tasks) /\ Len(task_queue) \in Nat
        /\ Len(q) = Len(task_queue) + 1
        /\ \A i \in 1 .. Len(task_queue) : q[i] = task_queue[i]
        /\ q[Len(task_queue) + 1] = t
    BY DEF TypeOK
  <2>2. task_queue' = q /\ pc' = next
    BY <1>1 DEF WakeTask
  <2> HIDE DEF q
  <2>3. QueuedTasks \subseteq QueuedTasks' /\ t \in QueuedTasks'
    BY <2>1, <2>2 DEF QueuedTasks
  <2>4. Len(q) <= TaskQueueCap
    BY <1>1, <2>1, ExecutorAssumption
  <2> QED BY <2>1, <2>2, <2>3, <2>4
<1>2. CASE ~(Len(task_queue) < TaskQueueCap)
  BY <1>2 DEF WakeTask, TypeOK, QueuedTasks
<1> QED BY <1>1, <1>2

-----------------------------------------------------------------------------
(* Every action keeps the invariant.                                         *)

LEMMA InitEstablishesIInv ==
  ASSUME Init PROVE IInv
<1>1. Cardinality(Tasks) \in Nat /\ Cardinality(Tasks) <= TaskQueueCap
  BY ExecutorAssumption, FS_CardinalityType
<1> DEFINE N == Cardinality(Tasks)
<1>2. /\ task_queue \in [1 .. N -> Tasks]
      /\ \A t \in Tasks : \E i \in 1 .. N : task_queue[i] = t
  BY DEF Init
<1> HIDE DEF N
<1>3. task_queue \in Seq(Tasks) /\ Len(task_queue) = N
  BY <1>1, <1>2 DEF N
<1>4. Tasks \subseteq QueuedTasks
  BY <1>2, <1>3 DEF QueuedTasks
<1>5. TypeOK
  BY <1>1, <1>3, ExecutorAssumption DEF Init, TypeOK, N
<1> QED
  BY <1>4, <1>5 DEF Init, IInv, RunningFollowsPc, WakerBusyOnlyInside, ArmedForRecheck,
     HaltsOnEmptyQueue, NoLostWakeup, ParkedIsWakeable, Polling

\* One entry leaves the channel of the polled task.
LEMMA ConsumeTypes ==
  ASSUME TypeOK, running \in Tasks, channel[running] > 0, Consume
  PROVE  /\ channel' \in [Tasks -> 0 .. ChannelCap]
         /\ \A t \in Tasks : t # running => channel'[t] = channel[t]
  BY ExecutorAssumption DEF TypeOK, Consume

LEMMA PopTaskKeepsIInv ==
  ASSUME IInv, PopTask PROVE IInv'
<1> USE DEF IInv
<1>1. CASE task_queue = <<>>
  BY <1>1 DEF PopTask, TypeOK, RunningFollowsPc, WakerBusyOnlyInside, ArmedForRecheck,
     HaltsOnEmptyQueue, NoLostWakeup, ParkedIsWakeable, QueuedTasks, Polling
<1>2. CASE task_queue # <<>>
  <2>1. task_queue' = Tail(task_queue)
    BY <1>2 DEF PopTask
  <2>2. /\ Head(task_queue) \in Tasks
        /\ task_queue' \in Seq(Tasks)
        /\ Len(task_queue') <= TaskQueueCap
        /\ QueuedTasks \subseteq QueuedTasks' \cup {Head(task_queue)}
    BY <1>2, <2>1, PopKeepsTheRest
  <2>3. TypeOK'
    BY <1>2, <2>2 DEF PopTask, TypeOK
  <2>4. running = NoTask /\ NoTask \notin tasks
    BY ExecutorAssumption DEF PopTask, RunningFollowsPc, TypeOK
  <2>5. RunningFollowsPc' /\ WakerBusyOnlyInside' /\ ArmedForRecheck' /\ HaltsOnEmptyQueue'
    BY <1>2, <2>4, ExecutorAssumption DEF PopTask, TypeOK, RunningFollowsPc,
       WakerBusyOnlyInside, ArmedForRecheck, HaltsOnEmptyQueue, Polling
  <2>6. NoLostWakeup' /\ ParkedIsWakeable'
    BY <1>2, <2>2, <2>4 DEF PopTask, NoLostWakeup, ParkedIsWakeable, TypeOK
  <2> QED BY <2>3, <2>5, <2>6
<1> QED BY <1>1, <1>2

LEMMA CompleteKeepsIInv ==
  ASSUME IInv, Complete PROVE IInv'
<1> USE DEF IInv
<1>1. TypeOK' /\ QueuedTasks' = QueuedTasks
  BY DEF Complete, TypeOK, QueuedTasks
<1>2. RunningFollowsPc' /\ WakerBusyOnlyInside' /\ ArmedForRecheck' /\ HaltsOnEmptyQueue'
  BY DEF Complete, TypeOK, RunningFollowsPc, WakerBusyOnlyInside, ArmedForRecheck,
     HaltsOnEmptyQueue, Polling
<1>3. NoLostWakeup' /\ ParkedIsWakeable'
  BY <1>1 DEF Complete, TypeOK, NoLostWakeup, ParkedIsWakeable
<1> QED BY <1>1, <1>2, <1>3

LEMMA PollFastKeepsIInv ==
  ASSUME IInv, PollFast PROVE IInv'
<1> USE DEF IInv
<1>1. running \in tasks /\ running \in Tasks
  BY DEF PollFast, RunningFollowsPc, Polling, TypeOK
<1>2. TypeOK' /\ QueuedTasks' = QueuedTasks
  BY <1>1, ConsumeTypes DEF PollFast, TypeOK, QueuedTasks
<1>3. RunningFollowsPc' /\ WakerBusyOnlyInside' /\ ArmedForRecheck' /\ HaltsOnEmptyQueue'
  BY <1>1 DEF PollFast, RunningFollowsPc, WakerBusyOnlyInside, ArmedForRecheck,
     HaltsOnEmptyQueue, Polling
<1>4. NoLostWakeup' /\ ParkedIsWakeable'
  BY <1>1, <1>2, ConsumeTypes DEF PollFast, NoLostWakeup, ParkedIsWakeable, TypeOK
<1> QED BY <1>2, <1>3, <1>4

LEMMA RegisterBeginKeepsIInv ==
  ASSUME IInv, RegisterBegin PROVE IInv'
<1> USE DEF IInv
<1>1. running \in tasks /\ running \in Tasks
  BY DEF RegisterBegin, RunningFollowsPc, Polling, TypeOK
<1>2. TypeOK' /\ QueuedTasks' = QueuedTasks
  BY <1>1 DEF RegisterBegin, TypeOK, QueuedTasks
<1>3. RunningFollowsPc' /\ WakerBusyOnlyInside' /\ ArmedForRecheck' /\ HaltsOnEmptyQueue'
  BY <1>1 DEF RegisterBegin, RunningFollowsPc, WakerBusyOnlyInside, ArmedForRecheck,
     HaltsOnEmptyQueue, Polling, TypeOK
<1>4. NoLostWakeup' /\ ParkedIsWakeable'
  BY <1>1, <1>2 DEF RegisterBegin, NoLostWakeup, ParkedIsWakeable, TypeOK
<1> QED BY <1>2, <1>3, <1>4

LEMMA RegisterEndKeepsIInv ==
  ASSUME IInv, RegisterEnd PROVE IInv'
<1> USE DEF IInv
<1>1. running \in tasks /\ running \in Tasks
  BY DEF RegisterEnd, RunningFollowsPc, Polling, TypeOK
<1>2. CASE waker_state[running] = "FLAGGED"
  <2>1. WakeTask(running, "recheck")
    BY <1>2 DEF RegisterEnd
  <2>2. /\ task_queue' \in Seq(Tasks)
        /\ Len(task_queue') <= TaskQueueCap
        /\ QueuedTasks \subseteq QueuedTasks'
        /\ \/ pc' = "recheck" /\ running \in QueuedTasks'
           \/ pc' = "panic"
    BY <1>1, <2>1, WakeTaskQueues
  <2>3. TypeOK'
    BY <1>1, <1>2, <2>2 DEF RegisterEnd, TypeOK
  <2>4. RunningFollowsPc' /\ WakerBusyOnlyInside' /\ ArmedForRecheck' /\ HaltsOnEmptyQueue'
    BY <1>1, <1>2, <2>2 DEF RegisterEnd, RunningFollowsPc, WakerBusyOnlyInside,
       ArmedForRecheck, HaltsOnEmptyQueue, Polling, TypeOK
  <2>5. NoLostWakeup' /\ ParkedIsWakeable'
    BY <1>1, <1>2, <2>2 DEF RegisterEnd, NoLostWakeup, ParkedIsWakeable, TypeOK
  <2> QED BY <2>3, <2>4, <2>5
<1>3. CASE waker_state[running] # "FLAGGED"
  <2>1. TypeOK' /\ QueuedTasks' = QueuedTasks
    BY <1>1, <1>3 DEF RegisterEnd, TypeOK, QueuedTasks
  <2>2. RunningFollowsPc' /\ WakerBusyOnlyInside' /\ ArmedForRecheck' /\ HaltsOnEmptyQueue'
    BY <1>1, <1>3 DEF RegisterEnd, RunningFollowsPc, WakerBusyOnlyInside,
       ArmedForRecheck, HaltsOnEmptyQueue, Polling, TypeOK
  <2>3. NoLostWakeup' /\ ParkedIsWakeable'
    BY <1>1, <1>3, <2>1 DEF RegisterEnd, NoLostWakeup, ParkedIsWakeable, TypeOK
  <2> QED BY <2>1, <2>2, <2>3
<1> QED BY <1>2, <1>3

LEMMA RecheckKeepsIInv ==
  ASSUME IInv, Recheck PROVE IInv'
<1> USE DEF IInv
<1>1. running \in tasks /\ running \in Tasks /\ NoTask \notin Tasks
  BY ExecutorAssumption DEF Recheck, RunningFollowsPc, Polling, TypeOK
<1>2. TypeOK' /\ QueuedTasks' = QueuedTasks
  BY <1>1, ConsumeTypes DEF Recheck, TypeOK, QueuedTasks
<1>3. waker_state[running] = "WAITING"
  BY <1>1 DEF Recheck, WakerBusyOnlyInside
<1>4. RunningFollowsPc' /\ WakerBusyOnlyInside' /\ ArmedForRecheck' /\ HaltsOnEmptyQueue'
  BY <1>1, <1>3 DEF Recheck, RunningFollowsPc, WakerBusyOnlyInside, ArmedForRecheck,
     HaltsOnEmptyQueue, Polling, TypeOK
<1>5. NoLostWakeup' /\ ParkedIsWakeable'
  BY <1>1, <1>2, <1>3, ConsumeTypes
  DEF Recheck, NoLostWakeup, ParkedIsWakeable, ArmedForRecheck, TypeOK
<1> QED BY <1>2, <1>4, <1>5

LEMMA TakeBeginKeepsIInv ==
  ASSUME IInv, TakeBegin PROVE IInv'
<1> USE DEF IInv
<1>1. running \in tasks /\ running \in Tasks
  BY DEF TakeBegin, RunningFollowsPc, Polling, TypeOK
<1>2. TypeOK' /\ QueuedTasks' = QueuedTasks
  BY <1>1 DEF TakeBegin, TypeOK, QueuedTasks
<1>3. RunningFollowsPc' /\ WakerBusyOnlyInside' /\ ArmedForRecheck' /\ HaltsOnEmptyQueue'
  BY <1>1, <1>2 DEF TakeBegin, RunningFollowsPc, WakerBusyOnlyInside, ArmedForRecheck,
     HaltsOnEmptyQueue, Polling, TypeOK
<1>4. NoLostWakeup' /\ ParkedIsWakeable'
  BY <1>1, <1>2 DEF TakeBegin, NoLostWakeup, ParkedIsWakeable, TypeOK
<1> QED BY <1>2, <1>3, <1>4

LEMMA TakeEndKeepsIInv ==
  ASSUME IInv, TakeEnd PROVE IInv'
<1> USE DEF IInv
<1>1. running \in tasks /\ running \in Tasks
  BY DEF TakeEnd, RunningFollowsPc, Polling, TypeOK
<1>2. TypeOK' /\ QueuedTasks' = QueuedTasks
  BY <1>1 DEF TakeEnd, TypeOK, QueuedTasks
<1>3. RunningFollowsPc' /\ WakerBusyOnlyInside' /\ ArmedForRecheck' /\ HaltsOnEmptyQueue'
  BY <1>1, <1>2 DEF TakeEnd, RunningFollowsPc, WakerBusyOnlyInside, ArmedForRecheck,
     HaltsOnEmptyQueue, Polling, TypeOK
<1>4. NoLostWakeup' /\ ParkedIsWakeable'
  BY <1>1, <1>2 DEF TakeEnd, NoLostWakeup, ParkedIsWakeable, TypeOK
<1> QED BY <1>2, <1>3, <1>4

LEMMA DisableInterruptsKeepsIInv ==
  ASSUME IInv, DisableInterrupts PROVE IInv'
<1> USE DEF IInv
<1>2. TypeOK' /\ QueuedTasks' = QueuedTasks
  BY DEF DisableInterrupts, TypeOK, QueuedTasks
<1>3. RunningFollowsPc' /\ WakerBusyOnlyInside' /\ ArmedForRecheck' /\ HaltsOnEmptyQueue'
  BY <1>2 DEF DisableInterrupts, RunningFollowsPc, WakerBusyOnlyInside, ArmedForRecheck,
     HaltsOnEmptyQueue, Polling, TypeOK
<1>4. NoLostWakeup' /\ ParkedIsWakeable'
  BY <1>2 DEF DisableInterrupts, NoLostWakeup, ParkedIsWakeable, TypeOK
<1> QED BY <1>2, <1>3, <1>4

LEMMA HaltOrEnableKeepsIInv ==
  ASSUME IInv, HaltOrEnable PROVE IInv'
<1> USE DEF IInv
<1>2. TypeOK' /\ QueuedTasks' = QueuedTasks
  BY DEF HaltOrEnable, TypeOK, QueuedTasks
<1>3. RunningFollowsPc' /\ WakerBusyOnlyInside' /\ ArmedForRecheck' /\ HaltsOnEmptyQueue'
  BY <1>2 DEF HaltOrEnable, RunningFollowsPc, WakerBusyOnlyInside, ArmedForRecheck,
     HaltsOnEmptyQueue, Polling, TypeOK
<1>4. NoLostWakeup' /\ ParkedIsWakeable'
  BY <1>2 DEF HaltOrEnable, NoLostWakeup, ParkedIsWakeable, TypeOK
<1> QED BY <1>2, <1>3, <1>4

LEMMA OtherInterruptKeepsIInv ==
  ASSUME IInv, OtherInterrupt PROVE IInv'
<1> USE DEF IInv
<1>2. TypeOK' /\ QueuedTasks' = QueuedTasks
  BY DEF OtherInterrupt, TypeOK, QueuedTasks
<1>3. RunningFollowsPc' /\ WakerBusyOnlyInside' /\ ArmedForRecheck' /\ HaltsOnEmptyQueue'
  BY <1>2 DEF OtherInterrupt, RunningFollowsPc, WakerBusyOnlyInside, ArmedForRecheck,
     HaltsOnEmptyQueue, Polling, TypeOK
<1>4. NoLostWakeup' /\ ParkedIsWakeable'
  BY <1>2 DEF OtherInterrupt, NoLostWakeup, ParkedIsWakeable, TypeOK
<1> QED BY <1>2, <1>3, <1>4

\* An interrupt handler that wakes t, whatever the poll of t is doing.
LEMMA WakeKeepsParts ==
  ASSUME IInv, NEW t \in Tasks, InterruptsEnabled, Wake(t), UNCHANGED <<running, tasks>>
  PROVE  /\ pc' \in {Resumed, "panic"}
         /\ task_queue' \in Seq(Tasks) /\ Len(task_queue') <= TaskQueueCap
         /\ waker' \in [Tasks -> BOOLEAN]
         /\ waker_state' \in [Tasks -> {"WAITING", "REGISTERING", "FLAGGED", "WAKING"}]
         /\ QueuedTasks \subseteq QueuedTasks'
         /\ \A u \in Tasks : u # t => waker'[u] = waker[u]
         /\ \A u \in Tasks : (waker_state'[u] = "WAITING") = (waker_state[u] = "WAITING")
         /\ waker_state[t] # "WAITING" => waker'[t] = waker[t]
         /\ waker'[t] # waker[t] => t \in QueuedTasks' \/ pc' = "panic"
         /\ waker[t] /\ waker_state[t] = "WAITING" => t \in QueuedTasks' \/ pc' = "panic"
<1> USE DEF IInv
<1>1. CASE waker_state[t] = "WAITING" /\ waker[t]
  <2>1. WakeTask(t, Resumed) /\ waker' = [waker EXCEPT ![t] = FALSE] /\ UNCHANGED waker_state
    BY <1>1 DEF Wake
  <2>2. /\ task_queue' \in Seq(Tasks)
        /\ Len(task_queue') <= TaskQueueCap
        /\ QueuedTasks \subseteq QueuedTasks'
        /\ \/ pc' = Resumed /\ t \in QueuedTasks'
           \/ pc' = "panic"
    BY <2>1, WakeTaskQueues
  <2> QED BY <1>1, <2>1, <2>2 DEF TypeOK
<1>2. CASE ~(waker_state[t] = "WAITING" /\ waker[t])
  BY <1>2 DEF Wake, TypeOK, QueuedTasks
<1> QED BY <1>1, <1>2

LEMMA InputInterruptKeepsIInv ==
  ASSUME IInv, NEW t \in Tasks, InputInterrupt(t) PROVE IInv'
<1> USE DEF IInv
<1>1. raised' \in [Tasks -> 0 .. MaxEvents]
  BY ExecutorAssumption DEF InputInterrupt, TypeOK
<1>2. CASE channel[t] < ChannelCap
  <2>1. /\ Wake(t) /\ InterruptsEnabled /\ UNCHANGED <<running, tasks>>
        /\ channel' = [channel EXCEPT ![t] = channel[t] + 1]
    BY <1>2 DEF InputInterrupt
  <2>2. /\ pc' \in {Resumed, "panic"}
        /\ task_queue' \in Seq(Tasks) /\ Len(task_queue') <= TaskQueueCap
        /\ waker' \in [Tasks -> BOOLEAN]
        /\ waker_state' \in [Tasks -> {"WAITING", "REGISTERING", "FLAGGED", "WAKING"}]
        /\ QueuedTasks \subseteq QueuedTasks'
        /\ \A u \in Tasks : u # t => waker'[u] = waker[u]
        /\ \A u \in Tasks : (waker_state'[u] = "WAITING") = (waker_state[u] = "WAITING")
        /\ waker_state[t] # "WAITING" => waker'[t] = waker[t]
        /\ waker'[t] # waker[t] => t \in QueuedTasks' \/ pc' = "panic"
        /\ waker[t] /\ waker_state[t] = "WAITING" => t \in QueuedTasks' \/ pc' = "panic"
    BY <2>1, WakeKeepsParts
  <2>3. channel' \in [Tasks -> 0 .. ChannelCap]
    BY <1>2, <2>1, ExecutorAssumption DEF TypeOK
  <2>4. TypeOK'
    BY <1>1, <2>1, <2>2, <2>3 DEF TypeOK, Resumed
  <2>5. RunningFollowsPc' /\ WakerBusyOnlyInside' /\ ArmedForRecheck' /\ HaltsOnEmptyQueue'
    BY <2>1, <2>2 DEF Resumed, RunningFollowsPc, WakerBusyOnlyInside, ArmedForRecheck,
       HaltsOnEmptyQueue, Polling, TypeOK
  <2>6. ASSUME NEW u \in tasks', u \notin QueuedTasks', running' # u, pc' # "panic"
        PROVE  waker'[u] /\ waker_state'[u] = "WAITING" /\ u # t
    BY <2>1, <2>2, <2>6 DEF ParkedIsWakeable, TypeOK, InterruptsEnabled
  <2>7. ParkedIsWakeable'
    BY <2>6 DEF ParkedIsWakeable
  <2>8. NoLostWakeup'
    <3> SUFFICES ASSUME NEW u \in tasks', u \notin QueuedTasks', running' # u, pc' # "panic"
                 PROVE  ~(channel'[u] > 0)
      BY DEF NoLostWakeup
    <3>1. u # t
      BY <2>6
    <3> QED BY <2>1, <2>2, <3>1 DEF NoLostWakeup, TypeOK, InterruptsEnabled
  <2> QED BY <2>4, <2>5, <2>7, <2>8
<1>3. CASE ~(channel[t] < ChannelCap)
  <2>1. TypeOK' /\ QueuedTasks' = QueuedTasks
    BY <1>1, <1>3 DEF InputInterrupt, Resumed, TypeOK, QueuedTasks
  <2>2. RunningFollowsPc' /\ WakerBusyOnlyInside' /\ ArmedForRecheck' /\ HaltsOnEmptyQueue'
    BY <1>3, <2>1 DEF InputInterrupt, Resumed, RunningFollowsPc, WakerBusyOnlyInside,
       ArmedForRecheck, HaltsOnEmptyQueue, Polling, TypeOK
  <2>3. NoLostWakeup' /\ ParkedIsWakeable'
    BY <1>3, <2>1 DEF InputInterrupt, InterruptsEnabled, Resumed, NoLostWakeup, ParkedIsWakeable, TypeOK
  <2> QED BY <2>1, <2>2, <2>3
<1> QED BY <1>2, <1>3

LEMMA NextKeepsIInv ==
  IInv /\ [Next]_vars => IInv'
<1> SUFFICES ASSUME IInv, [Next]_vars PROVE IInv'
  OBVIOUS
<1>1. CASE Step
  BY <1>1, PopTaskKeepsIInv, CompleteKeepsIInv, PollFastKeepsIInv, RegisterBeginKeepsIInv,
     RegisterEndKeepsIInv, RecheckKeepsIInv, TakeBeginKeepsIInv, TakeEndKeepsIInv,
     DisableInterruptsKeepsIInv, HaltOrEnableKeepsIInv
  DEF Step
<1>2. CASE \E t \in Tasks : InputInterrupt(t)
  BY <1>2, InputInterruptKeepsIInv
<1>3. CASE OtherInterrupt
  BY <1>3, OtherInterruptKeepsIInv
<1>4. CASE UNCHANGED vars
  BY <1>4 DEF vars, IInv, TypeOK, RunningFollowsPc, WakerBusyOnlyInside, ArmedForRecheck,
     HaltsOnEmptyQueue, NoLostWakeup, ParkedIsWakeable, QueuedTasks
<1> QED BY <1>1, <1>2, <1>3, <1>4 DEF Next

\* The inductive invariant behind the theorems below.
THEOREM Executor_IInv == Spec => []IInv
<1>1. Init => IInv
  BY InitEstablishesIInv
<1>2. IInv /\ [Next]_vars => IInv'
  BY NextKeepsIInv
<1> QED BY <1>1, <1>2, PTL DEF Spec

\* The queues keep within their capacities and every variable its type.
THEOREM Executor_TypeOK == Spec => []TypeOK
  BY Executor_IInv, PTL DEF IInv

\* No interrupt, wherever it hits the poll, leaves an event with nobody due to
\* look at it.
THEOREM Executor_NoLostWakeup == Spec => []NoLostWakeup
  BY Executor_IInv, PTL DEF IInv

\* A task that waits can be woken.
THEOREM Executor_ParkedIsWakeable == Spec => []ParkedIsWakeable
  BY Executor_IInv, PTL DEF IInv

\* sleep_if_idle stops the CPU only when no live task has an event.
LEMMA IInvSleepsOnlyWhenDrained ==
  ASSUME IInv PROVE SleepsOnlyWhenDrained
<1> SUFFICES ASSUME pc = "halt", NEW t \in tasks
             PROVE  task_queue = <<>> /\ channel[t] = 0
  BY DEF SleepsOnlyWhenDrained, IInv, HaltsOnEmptyQueue
<1>1. task_queue = <<>> /\ running = NoTask /\ t \in Tasks
  BY DEF IInv, HaltsOnEmptyQueue, RunningFollowsPc, TypeOK
<1>2. QueuedTasks = {}
  BY <1>1 DEF QueuedTasks
<1>3. ~(channel[t] > 0) /\ channel[t] \in 0 .. ChannelCap
  BY <1>1, <1>2, ExecutorAssumption DEF IInv, NoLostWakeup, TypeOK
<1> QED BY <1>1, <1>3, ExecutorAssumption

THEOREM Executor_SleepsOnlyWhenDrained == Spec => []SleepsOnlyWhenDrained
  BY Executor_IInv, IInvSleepsOnlyWhenDrained, PTL

-----------------------------------------------------------------------------
(* The executor implements EventDelivery.                                    *)

\* The steps of the poll that touch no event are stutters.
LEMMA QuietStep ==
  ASSUME UNCHANGED <<channel, tasks>>, pc # "halt", pc' # "halt"
  PROVE  UNCHANGED Delivery!dvars
  BY DEF Delivery!dvars

\* A hit in the channel is Handle.
LEMMA ConsumeHandles ==
  ASSUME IInv, running \in tasks, channel[running] > 0, Consume, UNCHANGED tasks,
         pc # "halt", pc' # "halt"
  PROVE  Delivery!DNext
<1>1. running \in Tasks
  BY DEF IInv, TypeOK
<1>2. Delivery!Handle(running)
  BY DEF Delivery!Handle, Consume
<1> QED BY <1>1, <1>2 DEF Delivery!DNext

LEMMA StepRefines ==
  ASSUME IInv, Step PROVE Delivery!DNext \/ UNCHANGED Delivery!dvars
<1>1. CASE PopTask
  BY <1>1, QuietStep DEF PopTask
<1>2. CASE Complete
  <2>1. running \in tasks /\ running \in Tasks
    BY <1>2 DEF Complete, IInv, RunningFollowsPc, Polling, TypeOK
  <2>2. Delivery!Finish(running)
    BY <1>2, <2>1 DEF Complete, Delivery!Finish
  <2> QED BY <2>1, <2>2 DEF Delivery!DNext
<1>3. CASE PollFast
  <2>1. running \in tasks
    BY <1>3 DEF PollFast, IInv, RunningFollowsPc, Polling
  <2>2. CASE channel[running] > 0
    BY <1>3, <2>1, <2>2, ConsumeHandles DEF PollFast
  <2>3. CASE ~(channel[running] > 0)
    BY <1>3, <2>3, QuietStep DEF PollFast
  <2> QED BY <2>2, <2>3
<1>4. CASE RegisterBegin \/ TakeBegin \/ TakeEnd \/ DisableInterrupts
  BY <1>4, QuietStep DEF RegisterBegin, TakeBegin, TakeEnd, DisableInterrupts
<1>5. CASE RegisterEnd
  BY <1>5, QuietStep DEF RegisterEnd, WakeTask
<1>6. CASE Recheck
  <2>1. running \in tasks
    BY <1>6 DEF Recheck, IInv, RunningFollowsPc, Polling
  <2>2. CASE channel[running] > 0
    BY <1>6, <2>1, <2>2, ConsumeHandles DEF Recheck
  <2>3. CASE ~(channel[running] > 0)
    BY <1>6, <2>3, QuietStep DEF Recheck
  <2> QED BY <2>2, <2>3
<1>7. CASE HaltOrEnable
  <2>1. CASE task_queue = <<>>
    <3>1. pc' = "halt" /\ UNCHANGED <<tasks, channel>>
      BY <1>7, <2>1 DEF HaltOrEnable
    <3>2. SleepsOnlyWhenDrained'
      <4>1. IInv'
        BY <1>7, HaltOrEnableKeepsIInv
      <4> QED BY <4>1, IInvSleepsOnlyWhenDrained, PTL
    <3>3. Delivery!Sleep
      BY <3>1, <3>2 DEF SleepsOnlyWhenDrained, Delivery!Sleep
    <3> QED BY <3>3 DEF Delivery!DNext
  <2>2. CASE task_queue # <<>>
    BY <1>7, <2>2, QuietStep DEF HaltOrEnable
  <2> QED BY <2>1, <2>2
<1> QED BY <1>1, <1>2, <1>3, <1>4, <1>5, <1>6, <1>7 DEF Step

LEMMA InputInterruptRefines ==
  ASSUME IInv, NEW t \in Tasks, InputInterrupt(t) PROVE Delivery!Arrive(t)
<1>1. pc' # "halt" /\ UNCHANGED tasks
  BY DEF InputInterrupt, Wake, WakeTask, Resumed
<1>2. channel' = [channel EXCEPT ![t] = IF @ < ChannelCap THEN @ + 1 ELSE @]
  BY DEF InputInterrupt, IInv, TypeOK
<1> QED BY <1>1, <1>2 DEF Delivery!Arrive

\* What sleeps is drained and what arrives is kept until handled: every step of
\* the executor is a step of EventDelivery.
THEOREM Executor_Implements == Spec => Delivery!DSafe
<1>1. Init => Delivery!DInit
  BY DEF Init, Delivery!DInit
<1>2. IInv /\ [Next]_vars => [Delivery!DNext]_(Delivery!dvars)
  <2> SUFFICES ASSUME IInv, [Next]_vars
               PROVE  Delivery!DNext \/ UNCHANGED Delivery!dvars
    OBVIOUS
  <2>1. CASE Step
    BY <2>1, StepRefines
  <2>2. CASE \E t \in Tasks : InputInterrupt(t)
    BY <2>2, InputInterruptRefines DEF Delivery!DNext
  <2>3. CASE OtherInterrupt
    <3>1. Delivery!Rouse
      BY <2>3 DEF OtherInterrupt, Delivery!Rouse
    <3> QED BY <3>1 DEF Delivery!DNext
  <2>4. CASE UNCHANGED vars
    BY <2>4 DEF vars, Delivery!dvars
  <2> QED BY <2>1, <2>2, <2>3, <2>4 DEF Next
<1> QED BY <1>1, <1>2, Executor_IInv, PTL DEF Spec, Delivery!DSafe
=============================================================================
