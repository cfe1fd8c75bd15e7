------------------------------- MODULE Desktop -------------------------------
(***************************************************************************)
(* The window list of kernel/src/gui and what a frame of compositor_task   *)
(* does to it: closing, minimising and launching windows, labelling the    *)
(* minimised ones on the taskbar, routing clicks, dragging, and drawing    *)
(* what was reported as damaged.                                           *)
(*                                                                         *)
(* A window is a member of Windows, free again once it is removed.  Where  *)
(* it lies is left out: a click may hit any visible window, on any of its  *)
(* parts; damage and screen contents are kept per window.  The compositor  *)
(* runs the phases of a frame without a pause, so clicks arrive only       *)
(* between frames, several of them before the next one.                    *)
(***************************************************************************)
EXTENDS Naturals, Sequences, FiniteSets

CONSTANTS
  Windows,       \* windows that can be open at once
  Menus,         \* those of them that are the app and power menus
  MaxEvents,     \* bound on MOUSE_EVENTS between two frames
  MaxLabels      \* labels a click can aim at

ASSUME DesktopAssumption ==
  IsFiniteSet(Windows) /\ Menus \subseteq Windows /\ MaxEvents \in Nat

VARIABLES
  phase,           \* of the frame; "await" between frames
  windows,         \* WindowManager::windows, the last one on top
  close_btn, is_minimized, was_minimized, is_dragging,   \* windows with the flag set
  app_requests,    \* number of windows asked for, APP_REQUESTS
  minimized_labels,\* the taskbar's labels: a window (its title) and its index
  mouse_events,    \* MOUSE_EVENTS, then the frame's copy of it
  button_down,     \* left_button_was_down of the mouse task
  damage,          \* windows whose place is in DAMAGE_QUEUE
  screen           \* windows that can be seen on the framebuffer

flags == <<close_btn, is_minimized, was_minimized, is_dragging>>
input == <<mouse_events, button_down>>
vars  == <<phase, windows, flags, app_requests, minimized_labels, input, damage, screen>>

Listed  == {windows[i] : i \in 1 .. Len(windows)}
Visible == Listed \ is_minimized
Free    == Windows \ Listed

Init ==
  /\ phase = "await"
  /\ windows = <<>>
  /\ close_btn = {} /\ is_minimized = {} /\ was_minimized = {} /\ is_dragging = {}
  /\ app_requests = 0
  /\ minimized_labels = <<>>
  /\ mouse_events = <<>> /\ button_down = FALSE
  /\ damage = {} /\ screen = {}

-----------------------------------------------------------------------------
\* The mouse task: a press somewhere, then its release.
Targets == {<<"menu">>, <<"window">>} \cup {<<"label", k>> : k \in 1 .. MaxLabels}

MouseButton ==
  /\ phase = "await"
  /\ Len(mouse_events) < MaxEvents
  /\ button_down' = ~button_down
  /\ \E e \in IF button_down THEN {<<"release">>} ELSE Targets :
       mouse_events' = Append(mouse_events, e)
  /\ UNCHANGED <<phase, windows, flags, app_requests, minimized_labels, damage, screen>>

WaitForDamage ==
  /\ phase = "await"
  /\ phase' = "retain"
  /\ UNCHANGED <<windows, flags, app_requests, minimized_labels, input, damage, screen>>

\* Those members of s that are in S, in their order.
Kept(s, S) ==
  LET keep    == {i \in 1 .. Len(s) : s[i] \in S}
      Upto(i) == Cardinality({j \in keep : j <= i})
  IN  [n \in 1 .. Cardinality(keep) |-> s[CHOOSE i \in keep : Upto(i) = n]]

\* Windows with close_btn set are reported and removed.
RetainOpen ==
  /\ phase = "retain"
  /\ phase' = "minimize"
  /\ windows' = Kept(windows, Windows \ close_btn)
  /\ damage' = damage \cup close_btn
  /\ close_btn' = {}
  /\ is_minimized' = is_minimized \ close_btn
  /\ was_minimized' = was_minimized \ close_btn
  /\ is_dragging' = is_dragging \ close_btn
  /\ UNCHANGED <<app_requests, minimized_labels, input, screen>>

\* Mutant of ReportMinimized: the place is reported only for a window on screen as
\* far as the frame before knew, and the flag is never taken back.
ReportMinimizedOnce ==
  /\ phase = "minimize"
  /\ phase' = "launch"
  /\ damage' = damage \cup (is_minimized \ was_minimized)
  /\ was_minimized' = was_minimized \cup is_minimized
  /\ UNCHANGED <<windows, close_btn, is_minimized, is_dragging, app_requests,
                 minimized_labels, input, screen>>

ReportMinimized ==
  /\ phase = "minimize"
  /\ phase' = "launch"
  /\ damage' = damage \cup (is_minimized \ was_minimized)
  /\ was_minimized' = is_minimized
  /\ UNCHANGED <<windows, close_btn, is_minimized, is_dragging, app_requests,
                 minimized_labels, input, screen>>

\* One window per request, drawn and on top.  Without a free one the request is
\* dropped, which bounds the model and not the program.
Launch ==
  /\ phase = "launch" /\ app_requests > 0
  /\ app_requests' = app_requests - 1
  /\ IF Free \ Menus = {}
     THEN UNCHANGED <<windows, damage>>
     ELSE \E w \in Free \ Menus : /\ windows' = Append(windows, w)
                                  /\ damage' = damage \cup {w}
  /\ UNCHANGED <<phase, flags, minimized_labels, input, screen>>

MinimizedTitles ==
  Kept([i \in 1 .. Len(windows) |-> <<windows[i], i>>], is_minimized \X (1 .. Len(windows)))

\* Mutant of LabelMinimized: only the number of labels is compared.
LabelByNumber ==
  /\ phase = "launch" /\ app_requests = 0
  /\ phase' = "route"
  /\ minimized_labels' = IF Len(minimized_labels) # Len(MinimizedTitles)
                         THEN MinimizedTitles ELSE minimized_labels
  /\ UNCHANGED <<windows, flags, app_requests, input, damage, screen>>

\* The taskbar is redrawn if its labels are not those of the minimised windows.
LabelMinimized ==
  /\ phase = "launch" /\ app_requests = 0
  /\ phase' = "route"
  /\ minimized_labels' = MinimizedTitles
  /\ UNCHANGED <<windows, flags, app_requests, input, damage, screen>>

-----------------------------------------------------------------------------
(* Routing: the frame's copy of MOUSE_EVENTS, in order.                    *)

Routed(kind) ==
  /\ phase = "route" /\ mouse_events # <<>>
  /\ Head(mouse_events)[1] = kind
  /\ mouse_events' = Tail(mouse_events)
  /\ UNCHANGED <<phase, button_down, minimized_labels, screen>>

\* Mutant of RouteRelease: only the top window lets go.
ReleaseTop ==
  /\ Routed("release")
  /\ is_dragging' = IF windows = <<>> THEN {} ELSE is_dragging \ {windows[Len(windows)]}
  /\ UNCHANGED <<windows, close_btn, is_minimized, was_minimized, app_requests, damage>>

RouteRelease ==
  /\ Routed("release")
  /\ is_dragging' = {}
  /\ UNCHANGED <<windows, close_btn, is_minimized, was_minimized, app_requests, damage>>

\* The taskbar's own buttons open a menu.
RouteMenu ==
  /\ Routed("menu")
  /\ \/ \E w \in Free \cap Menus : /\ windows' = Append(windows, w)
                                   /\ damage' = damage \cup {w}
     \/ UNCHANGED <<windows, damage>>
  /\ UNCHANGED <<flags, app_requests>>

\* A click on a label restores the window that is at the label's index by now.
RestoreWindow ==
  LET k == Head(mouse_events)[2]
      i == minimized_labels[k][2]
  IN  /\ Routed("label")
      /\ IF k <= Len(minimized_labels) /\ i <= Len(windows)
         THEN /\ is_minimized' = is_minimized \ {windows[i]}
              /\ damage' = damage \cup {windows[i]}
         ELSE UNCHANGED <<is_minimized, damage>>
      /\ UNCHANGED <<windows, close_btn, was_minimized, is_dragging, app_requests>>

\* A clicked window that is not on top is reported and moved there.
Raised(w) ==
  IF windows[Len(windows)] = w THEN windows
  ELSE Append(Kept(windows, Windows \ {w}), w)

Buttons == {"close", "minimize", "maximize", "title", "item", "body"}

\* What process_events makes of a click on a part of w: an item of a menu asks for
\* a window and closes the menu, maximising repaints.
ClickWindow ==
  /\ Routed("window")
  /\ \/ UNCHANGED <<windows, flags, app_requests, damage>>
     \/ \E w \in Visible, part \in Buttons :
          /\ part = "item" => w \in Menus
          /\ part = "maximize" => w \notin Menus
          /\ windows' = Raised(w)
          /\ damage' = IF windows' # windows \/ part = "maximize"
                       THEN damage \cup {w} ELSE damage
          /\ close_btn' = IF part \in {"close", "item"} THEN close_btn \cup {w} ELSE close_btn
          /\ is_minimized' = IF part = "minimize" THEN is_minimized \cup {w} ELSE is_minimized
          /\ is_dragging' = IF part = "title" THEN is_dragging \cup {w}
                            ELSE IF part = "maximize" THEN is_dragging \ {w} ELSE is_dragging
          /\ app_requests' = IF part = "item" THEN app_requests + 1 ELSE app_requests
          /\ UNCHANGED was_minimized

-----------------------------------------------------------------------------
\* The drag engine moves the top window if it is held.
Drag ==
  /\ phase = "route" /\ mouse_events = <<>>
  /\ phase' = "drain"
  /\ \/ UNCHANGED damage
     \/ /\ windows # <<>> /\ windows[Len(windows)] \in is_dragging
        /\ damage' = damage \cup {windows[Len(windows)]}
  /\ UNCHANGED <<windows, flags, app_requests, minimized_labels, input, screen>>

\* Every reported place is drawn anew from the windows that are not minimised.
DrainDamage ==
  /\ phase = "drain"
  /\ phase' = "await"
  /\ screen' = (screen \ damage) \cup (damage \cap Visible)
  /\ damage' = {}
  /\ UNCHANGED <<windows, flags, app_requests, minimized_labels, input>>

Next ==
  \/ MouseButton
  \/ WaitForDamage
  \/ RetainOpen
  \/ ReportMinimized
  \/ Launch
  \/ LabelMinimized
  \/ RouteRelease
  \/ RouteMenu
  \/ RestoreWindow
  \/ ClickWindow
  \/ Drag
  \/ DrainDamage

Spec == Init /\ [][Next]_vars

-----------------------------------------------------------------------------
(* Properties.                                                             *)

\* Every open window is in the list once.  One mouse drags one window: a window that
\* is held is let go before another is taken, even if it is no longer on top.
TypeOK ==
  /\ phase \in {"await", "retain", "minimize", "launch", "route", "drain"}
  /\ windows \in Seq(Windows)
  /\ Cardinality(Listed) = Len(windows)
  /\ close_btn \cup is_minimized \cup was_minimized \cup is_dragging \subseteq Listed
  /\ Cardinality(is_dragging) <= 1
  /\ app_requests \in 0 .. MaxEvents
  /\ minimized_labels \in Seq(Windows \X (1 .. Cardinality(Windows)))
  /\ damage \subseteq Windows /\ screen \subseteq Windows

\* Unless the last frame minimised a window, which the next one reports, the screen
\* shows the windows that are open and not minimised, and no trace of others: however
\* clicks that close, minimise, restore and raise fall into frames, each change of a
\* window has had its place reported.
ScreenFollowsWindows ==
  phase = "await" /\ is_minimized \subseteq was_minimized => screen = Visible

\* Between frames, unless the last one minimised or restored a window, the taskbar
\* has a label for each minimised window and for no other: restoring one window and
\* minimising another in the same frame leaves their number as it was.
LabelsFollowWindows ==
  phase = "await" /\ is_minimized = was_minimized
    => {minimized_labels[k][1] : k \in DOMAIN minimized_labels} = is_minimized

\* minimized_labels holds "(title, window index)": a click on a label restores
\* the window whose title it bears.
RestoresNamedWindow ==
  [][\A k \in 1 .. Len(minimized_labels) :
       Len(mouse_events) > 0 /\ Head(mouse_events) = <<"label", k>> /\ RestoreWindow
         => minimized_labels[k][1] \notin is_minimized']_vars
=============================================================================
