------------------------------ MODULE Executor ------------------------------
(***************************************************************************)
(* The cooperative executor of kernel/src/task/executor.rs, the two input  *)
(* streams it serves (keyboard.rs, mouse.rs) and the interrupt handlers    *)
(* that feed them.  The executor is one thread of control that an          *)
(* interrupt can enter between any two of its accesses to shared state,    *)
(* except while interrupts are off; a handler runs to its end at once.     *)
(*                                                                         *)
(* Every task is a loop around stream.next().await, as cli::run and        *)
(* activate_mouse are.  The streams' queues are counted, not listed: the   *)
(* order within one is the library's.  The AtomicWaker of futures_util is  *)
(* modelled from how poll_next and the handlers use it; all wakers of a    *)
(* task are equal, so only the presence of one is kept.                    *)
(***************************************************************************)
EXTENDS Integers, Sequences, FiniteSets

CONSTANTS
  Tasks, NoTask,
  Ending,          \* tasks whose future may complete, Poll::Ready
  ChannelCap,      \* capacity of SCANCODE_QUEUE and MOUSE_QUEUE, 100
  TaskQueueCap,    \* capacity of task_queue, 100
  MaxEvents        \* bound on the interrupts raised for a task

ASSUME ExecutorAssumption ==
  /\ IsFiniteSet(Tasks) /\ NoTask \notin Tasks /\ Ending \subseteq Tasks
  /\ ChannelCap \in Nat \ {0} /\ TaskQueueCap \in Nat /\ MaxEvents \in Nat
  /\ Cardinality(Tasks) <= TaskQueueCap

VARIABLES
  pc,             \* where the executor is
  running,        \* the task being polled
  tasks,          \* Executor::tasks
  task_queue,     \* Executor::task_queue, ids of the tasks to poll
  channel,        \* entries in the stream's queue, by task
  waker,          \* the AtomicWaker holds a waker, by task
  waker_state,    \* its state bits: "WAITING", "REGISTERING", "FLAGGED", "WAKING"
  raised          \* interrupts so far, by task

vars == <<pc, running, tasks, task_queue, channel, waker, waker_state, raised>>

-----------------------------------------------------------------------------
\* spawn has queued every task, in some order, and run starts.
Init ==
  /\ pc = "pop"
  /\ running = NoTask
  /\ tasks = Tasks
  /\ task_queue \in {q \in [1 .. Cardinality(Tasks) -> Tasks] :
                       \A t \in Tasks : \E i \in DOMAIN q : q[i] = t}
  /\ channel = [t \in Tasks |-> 0]
  /\ waker = [t \in Tasks |-> FALSE]
  /\ waker_state = [t \in Tasks |-> "WAITING"]
  /\ raised = [t \in Tasks |-> 0]

\* The body of the running task takes an entry from its stream and handles it.
Consume == channel' = [channel EXCEPT ![running] = @ - 1]

\* wake_task: push the id, or panic on a full queue; control goes to `next`.
WakeTask(t, next) ==
  IF Len(task_queue) < TaskQueueCap
  THEN task_queue' = Append(task_queue, t) /\ pc' = next
  ELSE UNCHANGED task_queue /\ pc' = "panic"

-----------------------------------------------------------------------------
(* run_ready_tasks.                                                        *)

PopTask ==
  /\ pc = "pop"
  /\ IF task_queue = <<>>
     THEN pc' = "idle" /\ UNCHANGED <<running, task_queue>>
     ELSE /\ task_queue' = Tail(task_queue)
          /\ IF Head(task_queue) \in tasks
             THEN pc' = "poll" /\ running' = Head(task_queue)
             ELSE UNCHANGED <<pc, running>>
  /\ UNCHANGED <<tasks, channel, waker, waker_state, raised>>

\* Between two events a task's future may complete.
Complete ==
  /\ pc = "poll"
  /\ running \in Ending
  /\ tasks' = tasks \ {running}
  /\ pc' = "pop"
  /\ running' = NoTask
  /\ UNCHANGED <<task_queue, channel, waker, waker_state, raised>>

\* Mutant of PollFast: the future handles one event per poll and returns Pending.
PollOncePerWake ==
  /\ pc = "poll"
  /\ IF channel[running] > 0
     THEN Consume /\ pc' = "pop" /\ running' = NoTask
     ELSE pc' = "register" /\ UNCHANGED <<channel, running>>
  /\ UNCHANGED <<tasks, task_queue, waker, waker_state, raised>>

\* poll_next, the fast path: on a hit the task goes on with its loop.
PollFast ==
  /\ pc = "poll"
  /\ IF channel[running] > 0
     THEN Consume /\ UNCHANGED pc
     ELSE pc' = "register" /\ UNCHANGED channel
  /\ UNCHANGED <<running, tasks, task_queue, waker, waker_state, raised>>

\* AtomicWaker::register takes the state to REGISTERING and stores the waker.
RegisterBegin ==
  /\ pc = "register"
  /\ pc' = "registering"
  /\ waker_state' = [waker_state EXCEPT ![running] = "REGISTERING"]
  /\ waker' = [waker EXCEPT ![running] = TRUE]
  /\ UNCHANGED <<running, tasks, task_queue, channel, raised>>

\* It lets go of the slot.  If a wake came meanwhile it is the one to wake.
RegisterEnd ==
  /\ pc = "registering"
  /\ waker_state' = [waker_state EXCEPT ![running] = "WAITING"]
  /\ IF waker_state[running] = "FLAGGED"
     THEN /\ waker' = [waker EXCEPT ![running] = FALSE]
          /\ WakeTask(running, "recheck")
     ELSE pc' = "recheck" /\ UNCHANGED <<waker, task_queue>>
  /\ UNCHANGED <<running, tasks, channel, raised>>

\* Mutants of Recheck: Pending without a second look; the waker is dropped before
\* Pending too.
NoRecheck ==
  /\ pc = "recheck"
  /\ pc' = "pop" /\ running' = NoTask
  /\ UNCHANGED <<channel, tasks, task_queue, waker, waker_state, raised>>

RecheckDropsWaker ==
  /\ pc = "recheck"
  /\ IF channel[running] > 0
     THEN Consume /\ pc' = "take" /\ UNCHANGED <<running, waker>>
     ELSE /\ pc' = "pop" /\ running' = NoTask /\ UNCHANGED channel
          /\ waker' = [waker EXCEPT ![running] = FALSE]
  /\ UNCHANGED <<tasks, task_queue, waker_state, raised>>

\* poll_next, after registering: look again before going Pending.
Recheck ==
  /\ pc = "recheck"
  /\ IF channel[running] > 0
     THEN Consume /\ pc' = "take" /\ UNCHANGED running
     ELSE pc' = "pop" /\ running' = NoTask /\ UNCHANGED channel
  /\ UNCHANGED <<tasks, task_queue, waker, waker_state, raised>>

\* AtomicWaker::take, in its two steps: a wake between them finds nothing to do.
TakeBegin ==
  /\ pc = "take"
  /\ pc' = "taking"
  /\ waker_state' = [waker_state EXCEPT ![running] = "WAKING"]
  /\ UNCHANGED <<running, tasks, task_queue, channel, waker, raised>>

TakeEnd ==
  /\ pc = "taking"
  /\ pc' = "poll"
  /\ waker_state' = [waker_state EXCEPT ![running] = "WAITING"]
  /\ waker' = [waker EXCEPT ![running] = FALSE]
  /\ UNCHANGED <<running, tasks, task_queue, channel, raised>>

-----------------------------------------------------------------------------
(* sleep_if_idle.                                                          *)

DisableInterrupts ==
  /\ pc = "idle"
  /\ pc' = "check"
  /\ UNCHANGED <<running, tasks, task_queue, channel, waker, waker_state, raised>>

\* Mutant of HaltOrEnable: the queue found empty before interrupts were disabled is
\* not looked at again.
HaltUnchecked ==
  /\ pc = "check"
  /\ pc' = "halt"
  /\ UNCHANGED <<running, tasks, task_queue, channel, waker, waker_state, raised>>

\* enable_and_hlt is atomic with respect to interrupts.
HaltOrEnable ==
  /\ pc = "check"
  /\ pc' = IF task_queue = <<>> THEN "halt" ELSE "pop"
  /\ UNCHANGED <<running, tasks, task_queue, channel, waker, waker_state, raised>>

-----------------------------------------------------------------------------
(* Interrupts.                                                             *)

InterruptsEnabled == pc \notin {"check", "panic"}

\* hlt ends with any interrupt.
Resumed == IF pc = "halt" THEN "pop" ELSE pc

\* AtomicWaker::wake from an interrupt handler.
Wake(t) ==
  IF waker_state[t] = "WAITING" /\ waker[t]
  THEN /\ waker' = [waker EXCEPT ![t] = FALSE]
       /\ UNCHANGED waker_state
       /\ WakeTask(t, Resumed)
  ELSE /\ waker_state' = [waker_state EXCEPT ![t] = IF @ = "REGISTERING" THEN "FLAGGED" ELSE @]
       /\ pc' = Resumed
       /\ UNCHANGED <<waker, task_queue>>

\* Mutant of InputInterrupt: the result of push is ignored.
InputIgnoresFull(t) ==
  /\ InterruptsEnabled
  /\ raised[t] < MaxEvents
  /\ raised' = [raised EXCEPT ![t] = @ + 1]
  /\ channel' = [channel EXCEPT ![t] = @ + 1]
  /\ Wake(t)
  /\ UNCHANGED <<running, tasks>>

\* add_scancode, and the last byte of a packet in add_packet_from_interrupt: a
\* full queue drops the entry and wakes nobody.
InputInterrupt(t) ==
  /\ InterruptsEnabled
  /\ raised[t] < MaxEvents
  /\ raised' = [raised EXCEPT ![t] = @ + 1]
  /\ IF channel[t] < ChannelCap
     THEN channel' = [channel EXCEPT ![t] = @ + 1] /\ Wake(t)
     ELSE pc' = Resumed /\ UNCHANGED <<channel, waker, waker_state, task_queue>>
  /\ UNCHANGED <<running, tasks>>

\* Any other interrupt, such as the timer's, only matters to hlt.
OtherInterrupt ==
  /\ pc = "halt"
  /\ pc' = "pop"
  /\ UNCHANGED <<running, tasks, task_queue, channel, waker, waker_state, raised>>

-----------------------------------------------------------------------------
\* What the CPU does when no interrupt comes.
Step ==
  \/ PopTask
  \/ Complete
  \/ PollFast
  \/ RegisterBegin
  \/ RegisterEnd
  \/ Recheck
  \/ TakeBegin
  \/ TakeEnd
  \/ DisableInterrupts
  \/ HaltOrEnable

Next ==
  \/ Step
  \/ \E t \in Tasks : InputInterrupt(t)
  \/ OtherInterrupt

Spec == Init /\ [][Next]_vars

\* A CPU that is not halted executes.  Nothing is assumed of interrupts.
FairSpec == Spec /\ WF_vars(Step)

-----------------------------------------------------------------------------
(* Properties.                                                             *)

TypeOK ==
  /\ pc \in {"pop", "poll", "register", "registering", "recheck", "take", "taking",
             "idle", "check", "halt", "panic"}
  /\ running \in Tasks \cup {NoTask}
  /\ tasks \subseteq Tasks
  /\ task_queue \in Seq(Tasks)
  /\ Len(task_queue) <= TaskQueueCap
  /\ channel \in [Tasks -> 0 .. ChannelCap]
  /\ waker \in [Tasks -> BOOLEAN]
  /\ waker_state \in [Tasks -> {"WAITING", "REGISTERING", "FLAGGED", "WAKING"}]
  /\ raised \in [Tasks -> 0 .. MaxEvents]

QueuedTasks == {task_queue[i] : i \in 1 .. Len(task_queue)}

\* A live task with an unhandled event is always due to be polled: it is queued,
\* or it is being polled and will look at its channel again.  No interleaving of
\* an interrupt with the poll loses a wake-up.
NoLostWakeup ==
  \A t \in tasks : channel[t] > 0 => t \in QueuedTasks \/ running = t \/ pc = "panic"

\* The CPU halts only when there is nothing to do, although an interrupt may come
\* at any point of the way to hlt.
SleepsOnlyWhenDrained ==
  pc = "halt" => task_queue = <<>> /\ \A t \in tasks : channel[t] = 0

\* A live task that is neither queued nor polled can be woken: its waker is in
\* place for the next interrupt.
ParkedIsWakeable ==
  \A t \in tasks : t \notin QueuedTasks /\ running # t /\ pc # "panic"
                   => waker[t] /\ waker_state[t] = "WAITING"

\* wake_task expects that the ready queue is never full.
TaskQueueNeverFull == pc # "panic"

\* Events without wakers and queues: see EventDelivery.
Delivery == INSTANCE EventDelivery WITH
  pending <- channel, alive <- tasks, sleeping <- (pc = "halt")

\* While interrupts are input the executor implements EventDelivery: it sleeps
\* only when drained, and it handles every stored event without a further
\* interrupt to help it.
DeliversEvents == Delivery!DSpec
=============================================================================
