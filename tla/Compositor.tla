----------------------------- MODULE Compositor -----------------------------
(***************************************************************************)
(* How the compositor of kernel/src/gui/graphics.rs sleeps and is woken:   *)
(* WaitForDamage, the frame it composes when there is work, and those who  *)
(* give it work: the timer interrupt, the mouse task, and the shell and    *)
(* notepad code that prints or draws.                                      *)
(*                                                                         *)
(* Tasks are cooperative: one of them runs until it is pending, and only   *)
(* the timer interrupt comes between its steps.  Queues are known as empty *)
(* or not, and a window change that the next frame has to act on (a close  *)
(* button, a minimise button, a launch request) by its kind.               *)
(***************************************************************************)
EXTENDS Naturals

VARIABLES
  running,          \* the task that is being polled, or "none"
  pc,               \* its next step
  queued,           \* entries of the compositor in the executor's ready queue
  waker,            \* COMPOSITOR_WAKER holds a waker
  waker_lock,       \* its mutex is held by the running task
  clock_tick,       \* CLOCK_TICK
  damage,           \* DAMAGE_QUEUE is not empty
  needs_redraw,     \* GUI_TERMINAL.needs_redraw
  mouse_events,     \* MOUSE_EVENTS is not empty
  changes           \* kinds of window changes that wait for the next frame

queues == <<clock_tick, damage, needs_redraw, mouse_events, changes>>
wakeup == <<queued, waker, waker_lock>>
vars   == <<running, pc, wakeup, queues>>

Changes == {"close", "minimize", "launch"}

Init ==
  /\ running = "none" /\ pc = "check"
  /\ queued = 1 /\ waker = FALSE /\ waker_lock = FALSE
  /\ clock_tick = FALSE
  /\ damage = TRUE                \* setup_desktop reports the whole screen
  /\ needs_redraw = FALSE /\ mouse_events = FALSE
  /\ changes = {}

At(task, step) == running = task /\ pc = step
Goto(step)     == pc' = step /\ UNCHANGED running
Return         == running' = "none" /\ pc' = "check"

\* waker.take() and wake(): the id goes to the ready queue.
TakeAndWake ==
  /\ waker' = FALSE
  /\ queued' = IF waker THEN queued + 1 ELSE queued

-----------------------------------------------------------------------------
(* The compositor task.                                                    *)

RunCompositor ==
  /\ running = "none" /\ queued > 0
  /\ running' = "compositor" /\ pc' = "check"
  /\ queued' = queued - 1
  /\ UNCHANGED <<waker, waker_lock, queues>>

\* Mutant of WaitForDamage: text printed to the terminal is not looked for.
WaitForDamageOnly ==
  /\ At("compositor", "check")
  /\ Goto(IF damage \/ clock_tick THEN "clock" ELSE "lock")
  /\ UNCHANGED <<wakeup, queues>>

\* WaitForDamage::poll looks at the queue, the clock and the terminal.
WaitForDamage ==
  /\ At("compositor", "check")
  /\ Goto(IF damage \/ clock_tick \/ needs_redraw THEN "clock" ELSE "lock")
  /\ UNCHANGED <<wakeup, queues>>

\* Nothing found: COMPOSITOR_WAKER is locked, set and unlocked; Pending.
LockWaker ==
  /\ At("compositor", "lock")
  /\ waker_lock' = TRUE
  /\ Goto("store")
  /\ UNCHANGED <<queued, waker, queues>>

StoreWaker ==
  /\ At("compositor", "store")
  /\ waker' = TRUE /\ waker_lock' = FALSE
  /\ Return
  /\ UNCHANGED <<queued, queues>>

\* The frame.  First the clock: the taskbar is redrawn if the minute changed.
TickClock ==
  /\ At("compositor", "clock")
  /\ clock_tick' = FALSE
  /\ \/ UNCHANGED damage
     \/ clock_tick /\ damage' = TRUE
  /\ Goto("manage")
  /\ UNCHANGED <<wakeup, needs_redraw, mouse_events, changes>>

\* Mutant of ManageWindows: closed windows are removed only in a frame that also
\* launches one.
ManageWithLaunch ==
  /\ At("compositor", "manage")
  /\ IF "launch" \in changes THEN changes' = {} /\ damage' = TRUE
                             ELSE UNCHANGED <<changes, damage>>
  /\ Goto("route")
  /\ UNCHANGED <<wakeup, clock_tick, needs_redraw, mouse_events>>

\* Closed windows are removed, minimised ones erased, requested ones opened.
ManageWindows ==
  /\ At("compositor", "manage")
  /\ changes' = {}
  /\ damage' = (damage \/ changes # {})
  /\ Goto("route")
  /\ UNCHANGED <<wakeup, clock_tick, needs_redraw, mouse_events>>

\* Clicks reach windows: they may be raised, moved, restored or maximised at once,
\* or ask for a change that only the next frame makes.
RouteEvents ==
  /\ At("compositor", "route")
  /\ mouse_events' = FALSE
  /\ \/ UNCHANGED <<damage, needs_redraw, changes>>
     \/ /\ mouse_events
        /\ damage' \in {damage, TRUE}
        /\ needs_redraw' \in {needs_redraw, TRUE}
        /\ changes' \in {changes \cup asked : asked \in SUBSET Changes}
  /\ Goto("terminal")
  /\ UNCHANGED <<wakeup, clock_tick>>

\* The terminal's flags are consumed; a terminal window that is visible is drawn.
MirrorTerminal ==
  /\ At("compositor", "terminal")
  /\ needs_redraw' = FALSE
  /\ \/ UNCHANGED damage
     \/ needs_redraw /\ damage' = TRUE
  /\ Goto("drain")
  /\ UNCHANGED <<wakeup, clock_tick, mouse_events, changes>>

\* The damage queue is emptied and drawn; the loop awaits again.
DrainDamage ==
  /\ At("compositor", "drain")
  /\ damage' = FALSE
  /\ Goto("check")
  /\ UNCHANGED <<wakeup, clock_tick, needs_redraw, mouse_events, changes>>

-----------------------------------------------------------------------------
(* Those who give it work.                                                 *)

\* Any other task takes the waker in two steps, the mutex held in between.
LockToWake ==
  /\ running \in {"mouse", "shell"} /\ pc \in {"wakeClick", "wake"}
  /\ ~waker_lock
  /\ waker_lock' = TRUE
  /\ Goto(IF pc = "wakeClick" THEN "takeClick" ELSE "take")
  /\ UNCHANGED <<queued, waker, queues>>

\* Mutant of TakeWaker: woken through a reference, the waker stays.
WakeByRef ==
  /\ running \in {"mouse", "shell"} /\ pc \in {"takeClick", "take"}
  /\ queued' = IF waker THEN 1 ELSE queued
  /\ waker_lock' = FALSE
  /\ IF pc = "takeClick" THEN Goto("move") ELSE Return
  /\ UNCHANGED <<waker, queues>>

TakeWaker ==
  /\ running \in {"mouse", "shell"} /\ pc \in {"takeClick", "take"}
  /\ TakeAndWake
  /\ waker_lock' = FALSE
  /\ IF pc = "takeClick" THEN Goto("move") ELSE Return
  /\ UNCHANGED queues

\* activate_mouse handles a packet: an event if a button is or was down, then the
\* old and the new place of the cursor.
MousePacket ==
  /\ running = "none"
  /\ running' = "mouse"
  /\ \/ pc' = "wakeClick" /\ mouse_events' = TRUE
     \/ pc' = "move" /\ UNCHANGED mouse_events
  /\ UNCHANGED <<wakeup, clock_tick, damage, needs_redraw, changes>>

MoveCursor ==
  /\ At("mouse", "move")
  /\ damage' = TRUE
  /\ Goto("wake")
  /\ UNCHANGED <<wakeup, clock_tick, needs_redraw, mouse_events, changes>>

\* _tprint: the grid is written with interrupts off, then the compositor is woken.
PrintText ==
  /\ running = "none"
  /\ running' = "shell" /\ pc' = "wake"
  /\ needs_redraw' = TRUE
  /\ UNCHANGED <<wakeup, clock_tick, damage, mouse_events, changes>>

\* clear_terminal does both with interrupts off.
ClearTerminal ==
  /\ running = "none"
  /\ needs_redraw' = TRUE
  /\ TakeAndWake
  /\ UNCHANGED <<running, pc, waker_lock, clock_tick, damage, mouse_events, changes>>

\* The notepad draws its own window and reports it.
DrawNotepad ==
  /\ running = "none"
  /\ running' = "shell" /\ pc' = "wake"
  /\ damage' = TRUE
  /\ UNCHANGED <<wakeup, clock_tick, needs_redraw, mouse_events, changes>>

\* Every 16th timer interrupt, at any point: the flag always, the waker only if
\* its mutex is free.
TimerWakeup ==
  /\ clock_tick' = TRUE
  /\ IF waker_lock THEN UNCHANGED <<queued, waker>> ELSE TakeAndWake
  /\ UNCHANGED <<running, pc, waker_lock, damage, needs_redraw, mouse_events, changes>>

-----------------------------------------------------------------------------
Frame == TickClock \/ ManageWindows \/ RouteEvents \/ MirrorTerminal \/ DrainDamage

CompositorStep == WaitForDamage \/ LockWaker \/ StoreWaker \/ Frame

WorkStep == LockToWake \/ TakeWaker \/ MoveCursor

Next ==
  \/ RunCompositor
  \/ CompositorStep
  \/ WorkStep
  \/ MousePacket
  \/ PrintText
  \/ ClearTerminal
  \/ DrawNotepad
  \/ TimerWakeup

Spec == Init /\ [][Next]_vars

\* A running task goes on, the ready queue is first in first out, so a scheduled
\* task gets its turn, and the timer keeps firing.
FairSpec ==
  /\ Spec
  /\ WF_vars(CompositorStep)
  /\ WF_vars(WorkStep)
  /\ SF_vars(RunCompositor)
  /\ WF_vars(TimerWakeup)

-----------------------------------------------------------------------------
(* Properties.                                                             *)

TypeOK ==
  /\ running \in {"none", "compositor", "mouse", "shell"}
  /\ pc \in {"check", "lock", "store", "clock", "manage", "route", "terminal", "drain",
             "wakeClick", "takeClick", "move", "wake", "take"}
  /\ queued \in {0, 1} /\ waker \in BOOLEAN /\ waker_lock \in BOOLEAN
  /\ clock_tick \in BOOLEAN /\ damage \in BOOLEAN /\ needs_redraw \in BOOLEAN
  /\ mouse_events \in BOOLEAN
  /\ changes \subseteq Changes

\* Whoever wakes the compositor, it has at most one entry in the ready queue, and
\* none while it runs: its waker is only there while it is neither.
QueuedOnce == waker => queued = 0 /\ running # "compositor"

\* The compositor never sleeps over damage, text or clicks, although it looks for
\* them before it stores its waker and a task that finds no waker wakes nobody.
NothingLeftAsleep ==
  running = "none" /\ queued = 0 =>
    waker /\ ~damage /\ ~needs_redraw /\ ~mouse_events

\* A window that was closed, minimised or asked for in one frame is dealt with in a
\* later one, which nobody but the timer may cause.
ChangesServed == \A c \in Changes : c \in changes ~> c \notin changes
=============================================================================
