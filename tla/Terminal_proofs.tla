--------------------------- MODULE Terminal_proofs ---------------------------
(* Theorems about Compositor and about Terminal, which adds the pictures,    *)
(* for a grid of any size and any number of windows.  What a sleeping        *)
(* compositor has done is proved first: why the order of WaitForDamage's     *)
(* look and the waker's store is harmless to everybody but the timer.  Then  *)
(* it is carried over and tied to the pictures.                              *)
EXTENDS Terminal, TLAPS

-----------------------------------------------------------------------------
(* Compositor.                                                               *)

\* Each task is at a step of its own, and holds the mutex only where it took it.
Places ==
  /\ running = "none" => pc = "check"
  /\ running = "compositor" =>
       pc \in {"check", "lock", "store", "clock", "manage", "route", "terminal", "drain"}
  /\ running = "mouse" => pc \in {"wakeClick", "takeClick", "move", "wake", "take"}
  /\ running = "shell" => pc \in {"wake", "take"}
  /\ waker_lock <=> pc \in {"store", "takeClick", "take"}

\* Exactly one of: running, queued, or with its waker in place.
OneHandle ==
  /\ running = "compositor" => queued = 0 /\ ~waker
  /\ running # "compositor" => (queued = 0 <=> waker)

\* Clicks never wait alone: damage comes with them before the mouse task returns.
ClicksBringDamage ==
  /\ running \in {"none", "shell"} /\ mouse_events => damage
  /\ running = "compositor" /\ mouse_events => damage /\ pc \in {"check", "clock", "manage", "route"}
  /\ running = "mouse" /\ mouse_events /\ pc \in {"wake", "take"} => damage

\* Work is only left while somebody is still going to wake or to compose.
WorkIsSeen ==
  /\ running = "none" /\ queued = 0 => ~damage /\ ~needs_redraw
  /\ running = "compositor" /\ pc \in {"lock", "store"} => ~damage /\ ~needs_redraw

IInv == TypeOK /\ Places /\ OneHandle /\ ClicksBringDamage /\ WorkIsSeen

\* The invariant holds when the executor starts.
LEMMA InitIInv == Init => IInv
<1> SUFFICES ASSUME Init PROVE IInv
  OBVIOUS
<1>1. TypeOK
  BY DEF Init, TypeOK, Changes
<1>2. Places
  BY DEF Init, Places
<1>3. OneHandle
  BY DEF Init, OneHandle
<1>4. ClicksBringDamage
  BY DEF Init, ClicksBringDamage
<1>5. WorkIsSeen
  BY DEF Init, WorkIsSeen
<1> QED
  BY <1>1, <1>2, <1>3, <1>4, <1>5 DEF IInv

\* A waker that is taken puts the one entry into the ready queue; without one the
\* queue is left alone.
LEMMA TakeQueues ==
  ASSUME TakeAndWake, queued = 0
  PROVE  waker' = FALSE /\ (waker => queued' = 1) /\ (~waker => queued' = 0)
<1>1. CASE waker
  <2>1. 0 + 1 = 1
    OBVIOUS
  <2> QED
    BY <1>1, <2>1 DEF TakeAndWake
<1>2. CASE ~waker
  BY <1>2 DEF TakeAndWake
<1> QED
  BY <1>1, <1>2

\* The same seen from a task that is not the compositor: afterwards it is queued.
LEMMA TakenIsQueued ==
  ASSUME TakeAndWake, queued \in {0, 1}, queued = 0 <=> waker
  PROVE  waker' = FALSE /\ queued' = 1 /\ queued' # 0
<1>1. CASE waker
  BY <1>1, TakeQueues
<1>2. CASE ~waker
  BY <1>2 DEF TakeAndWake
<1> QED
  BY <1>1, <1>2

\* Every step keeps the invariant.
LEMMA NextIInv == IInv /\ [Next]_vars => IInv'
<1> SUFFICES ASSUME IInv, [Next]_vars PROVE IInv'
  OBVIOUS
<1> USE DEF IInv, TypeOK, Places, OneHandle, ClicksBringDamage, WorkIsSeen,
            At, Goto, Return, wakeup, queues, Changes
<1>1. CASE RunCompositor
  BY <1>1 DEF RunCompositor
<1>2. CASE WaitForDamage
  BY <1>2 DEF WaitForDamage
<1>3. CASE LockWaker
  BY <1>3 DEF LockWaker
<1>4. CASE StoreWaker
  BY <1>4 DEF StoreWaker
<1>5. CASE TickClock
  BY <1>5 DEF TickClock
<1>6. CASE ManageWindows
  BY <1>6 DEF ManageWindows
<1>7. CASE RouteEvents
  BY <1>7 DEF RouteEvents
<1>8. CASE MirrorTerminal
  BY <1>8 DEF MirrorTerminal
<1>9. CASE DrainDamage
  BY <1>9 DEF DrainDamage
<1>10. CASE LockToWake
  BY <1>10 DEF LockToWake
<1>11. CASE TakeWaker
  <2>1. TakeAndWake /\ running # "compositor"
    BY <1>11 DEF TakeWaker
  <2>2. waker' = FALSE /\ queued' = 1 /\ queued' # 0
    BY <2>1, TakenIsQueued
  <2> QED
    BY <1>11, <2>1, <2>2 DEF TakeWaker
<1>12. CASE MoveCursor
  BY <1>12 DEF MoveCursor
<1>13. CASE MousePacket
  BY <1>13 DEF MousePacket
<1>14. CASE PrintText
  BY <1>14 DEF PrintText
<1>15. CASE ClearTerminal
  <2>1. TakeAndWake /\ running # "compositor"
    BY <1>15 DEF ClearTerminal
  <2>2. waker' = FALSE /\ queued' = 1 /\ queued' # 0
    BY <2>1, TakenIsQueued
  <2> QED
    BY <1>15, <2>1, <2>2 DEF ClearTerminal
<1>16. CASE DrawNotepad
  BY <1>16 DEF DrawNotepad
<1>17. CASE TimerWakeup
  <2>1. CASE waker_lock
    BY <1>17, <2>1 DEF TimerWakeup
  <2>2. CASE ~waker_lock /\ running = "compositor"
    <3>1. TakeAndWake
      BY <1>17, <2>2 DEF TimerWakeup
    <3>2. waker' = FALSE /\ queued' = 0
      BY <2>2, <3>1, TakeQueues
    <3> QED
      BY <1>17, <2>2, <3>2 DEF TimerWakeup
  <2>3. CASE ~waker_lock /\ running # "compositor"
    <3>1. TakeAndWake
      BY <1>17, <2>3 DEF TimerWakeup
    <3>2. waker' = FALSE /\ queued' = 1 /\ queued' # 0
      BY <2>3, <3>1, TakenIsQueued
    <3> QED
      BY <1>17, <2>3, <3>2 DEF TimerWakeup
  <2> QED
    BY <2>1, <2>2, <2>3
<1>18. CASE UNCHANGED vars
  BY <1>18 DEF vars
<1> QED
  BY <1>1, <1>2, <1>3, <1>4, <1>5, <1>6, <1>7, <1>8, <1>9,
     <1>10, <1>11, <1>12, <1>13, <1>14, <1>15, <1>16, <1>17, <1>18
     DEF Next, CompositorStep, Frame, WorkStep

\* The inductive invariant.
THEOREM Compositor_IInv == Spec => []IInv
<1> QED
  BY InitIInv, NextIInv, PTL DEF Spec

\* In particular the compositor never has two entries in the ready queue.
THEOREM Compositor_TypeOK == Spec => []TypeOK
<1>1. IInv => TypeOK
  BY DEF IInv
<1> QED
  BY <1>1, Compositor_IInv, PTL

\* The waker is there only while the compositor is neither queued nor running.
THEOREM Compositor_QueuedOnce == Spec => []QueuedOnce
<1>1. IInv => QueuedOnce
  BY DEF IInv, OneHandle, QueuedOnce
<1> QED
  BY <1>1, Compositor_IInv, PTL

\* The compositor never sleeps over damage, text or clicks.
THEOREM Compositor_NothingLeftAsleep == Spec => []NothingLeftAsleep
<1>1. IInv => NothingLeftAsleep
  BY DEF IInv, OneHandle, ClicksBringDamage, WorkIsSeen, NothingLeftAsleep
<1> QED
  BY <1>1, Compositor_IInv, PTL

-----------------------------------------------------------------------------
(* Terminal.                                                                 *)

Chars == Glyphs \cup {Blank}

Grids == [cells : [Rows -> [Cols -> Chars]], row : Rows, col : 0 .. TERM_COLS,
          needs_full_redraw : BOOLEAN]

TermWindow == [row : Rows, prev_row : Rows, picture : [Rows -> [Cols -> Chars \cup {Cursor}]],
               is_minimized : BOOLEAN]

TTypeOK ==
  /\ term \in Grids
  /\ \A w \in DOMAIN windows : windows[w] \in TermWindow

UpToDate(win, t) == win.row = t.row /\ win.picture = Shown(t)

\* All but the row of the cursor is in the picture.
OthersAgree(win, t) ==
  win.row = t.row /\ \A r \in Rows \ {t.row} : win.picture[r] = t.cells[r]

\* A window that is not up to date will be painted, and enough of it.
Noted(win, t) == t.needs_full_redraw \/ win.row < t.row \/ OthersAgree(win, t)

GridInv ==
  \A w \in DOMAIN windows \ behind :
    /\ windows[w].prev_row = windows[w].row
    /\ UpToDate(windows[w], term) \/ (needs_redraw /\ Noted(windows[w], term))

TInv == TTypeOK /\ GridInv

-----------------------------------------------------------------------------
(* The grid.                                                               *)

\* Writing to the grid keeps its type.  Only the row of the cursor changes, unless the
\* cursor moves down or every row is marked.
LEMMA NewLineType == ASSUME NEW t \in Grids PROVE NewLine(t) \in Grids
<1>1. 0 \in 0 .. TERM_COLS /\ t.row + 1 \in Nat
  BY TerminalAssumption DEF Grids, Rows
<1>2. CASE t.row + 1 \in Rows
  BY <1>1, <1>2 DEF NewLine, Grids
<1>3. CASE t.row + 1 \notin Rows
  <2> DEFINE cells == [r \in Rows |-> IF r + 1 \in Rows THEN t.cells[r + 1] ELSE BlankRow]
  <2>1. BlankRow \in [Cols -> Chars]
    BY DEF BlankRow, Chars
  <2>2. cells \in [Rows -> [Cols -> Chars]]
    BY <2>1 DEF Grids
  <2>3. NewLine(t) = [t EXCEPT !.col = 0, !.cells = cells, !.needs_full_redraw = TRUE]
    BY <1>3 DEF NewLine, ScrollUp, Grids
  <2> QED
    BY <1>1, <2>2, <2>3 DEF Grids
<1> QED
  BY <1>2, <1>3

LEMMA NewLineNoted ==
  ASSUME NEW t \in Grids
  PROVE  NewLine(t).needs_full_redraw
           \/ (NewLine(t).row = t.row + 1 /\ NewLine(t).needs_full_redraw = t.needs_full_redraw)
BY DEF NewLine, ScrollUp, Grids

\* Printing a character or taking one back, with room for it.
Written(t, c, ch, k) == [t EXCEPT !.cells[t.row][c] = ch, !.col = k]

LEMMA CellWritten ==
  ASSUME NEW t \in Grids, NEW c \in Cols, NEW ch \in Chars, NEW k \in 0 .. TERM_COLS
  PROVE  /\ Written(t, c, ch, k) \in Grids
         /\ Written(t, c, ch, k).row = t.row
         /\ Written(t, c, ch, k).needs_full_redraw = t.needs_full_redraw
         /\ \A r \in Rows \ {t.row} : Written(t, c, ch, k).cells[r] = t.cells[r]
<1> DEFINE cells == [t.cells EXCEPT ![t.row][c] = ch]
<1>1. cells \in [Rows -> [Cols -> Chars]] /\ \A r \in Rows \ {t.row} : cells[r] = t.cells[r]
  BY DEF Grids
<1>2. Written(t, c, ch, k) = [t EXCEPT !.cells = cells, !.col = k]
  BY DEF Written
<1> HIDE DEF cells
<1> QED
  BY <1>1, <1>2 DEF Grids

-----------------------------------------------------------------------------
(* The pictures.                                                           *)

\* A whole repaint does not depend on what was there before.
LEMMA WholePainted == ASSUME NEW p, NEW t PROVE Painted(p, t, Rows) = Shown(t)
BY DEF Painted, Shown

\* Nor does painting one row, if the others are there already.
LEMMA RowPainted ==
  ASSUME NEW p \in [Rows -> [Cols -> Chars \cup {Cursor}]], NEW t \in Grids,
         \A r \in Rows \ {t.row} : p[r] = t.cells[r]
  PROVE  Painted(p, t, {t.row}) = Shown(t)
<1>1. \A r \in Rows, c \in Cols :
        (IF r \in {t.row} THEN t.cells[r][c] ELSE p[r][c]) = t.cells[r][c]
  OBVIOUS
<1> QED
  BY <1>1 DEF Painted, Shown

LEMMA PaintedType ==
  ASSUME NEW p \in [Rows -> [Cols -> Chars \cup {Cursor}]], NEW t \in Grids, NEW R
  PROVE  Painted(p, t, R) \in [Rows -> [Cols -> Chars \cup {Cursor}]]
BY DEF Painted, Grids

LEMMA ShownType ==
  ASSUME NEW t \in Grids PROVE Shown(t) \in [Rows -> [Cols -> Chars \cup {Cursor}]]
<1>1. NoPicture \in [Rows -> [Cols -> Chars \cup {Cursor}]]
  BY DEF NoPicture, BlankRow, Chars
<1> QED
  BY <1>1, PaintedType DEF Shown

\* The grid's own rows show in a complete picture, but for the cursor.
LEMMA UpToDateAgrees ==
  ASSUME NEW t \in Grids, NEW win, UpToDate(win, t) PROVE OthersAgree(win, t)
<1>1. \A r \in Rows \ {t.row} : Shown(t)[r] = [c \in Cols |-> t.cells[r][c]]
  BY DEF Shown, Painted
<1>2. \A r \in Rows : [c \in Cols |-> t.cells[r][c]] = t.cells[r]
  BY DEF Grids
<1> QED
  BY <1>1, <1>2 DEF UpToDate, OthersAgree

-----------------------------------------------------------------------------
(* Printing.                                                               *)

\* How the grid may change by a print: marked, one row further, or in its row only.
Advanced(t, u) ==
  \/ u.needs_full_redraw
  \/ t.row < u.row /\ u.needs_full_redraw = t.needs_full_redraw
  \/ /\ u.row = t.row /\ u.needs_full_redraw = t.needs_full_redraw
     /\ \A r \in Rows \ {t.row} : u.cells[r] = t.cells[r]

LEMMA NewLineAdvances ==
  ASSUME NEW t \in Grids
  PROVE  NewLine(t) \in Grids /\ NewLine(t).col = 0 /\ Advanced(t, NewLine(t))
<1>1. NewLine(t).col = 0
  BY DEF NewLine, ScrollUp, Grids
<1>2. t.row \in Nat
  BY TerminalAssumption DEF Grids, Rows
<1> QED
  BY <1>1, <1>2, NewLineType, NewLineNoted DEF Advanced

LEMMA PutAdvances ==
  ASSUME NEW t \in Grids, NEW g \in Chars
  PROVE  Put(t, g) \in Grids /\ Advanced(t, Put(t, g))
<1> DEFINE u == IF t.col \in Cols THEN t ELSE NewLine(t)
<1>1. u \in Grids /\ u.col \in Cols
  <2>1. 0 \in Cols
    BY TerminalAssumption DEF Cols
  <2> QED
    BY <2>1, NewLineAdvances
<1>2. Put(t, g) = Written(u, u.col, g, u.col + 1)
  BY <1>1 DEF Put, Written, Grids
<1>3. u.col + 1 \in 0 .. TERM_COLS
  BY <1>1, TerminalAssumption DEF Cols
<1>4. /\ Put(t, g) \in Grids /\ Put(t, g).row = u.row
      /\ Put(t, g).needs_full_redraw = u.needs_full_redraw
      /\ \A r \in Rows \ {u.row} : Put(t, g).cells[r] = u.cells[r]
  <2> HIDE DEF u
  <2> QED
    BY <1>1, <1>2, <1>3, CellWritten
<1>5. CASE t.col \in Cols
  BY <1>4, <1>5 DEF Advanced
<1>6. CASE t.col \notin Cols
  <2>1. NewLine(t).needs_full_redraw
          \/ (t.row < NewLine(t).row /\ NewLine(t).needs_full_redraw = t.needs_full_redraw)
    <3>1. t.row \in Nat
      BY TerminalAssumption DEF Grids, Rows
    <3> QED
      BY <3>1, NewLineNoted
  <2> QED
    BY <1>4, <1>6, <2>1 DEF Advanced
<1> QED
  BY <1>5, <1>6

LEMMA BackspaceAdvances ==
  ASSUME NEW t \in Grids
  PROVE  Backspace(t) \in Grids /\ Advanced(t, Backspace(t))
<1>1. CASE t.col = 0
  BY <1>1 DEF Backspace, Advanced
<1>2. CASE t.col # 0
  <2>1. t.col - 1 \in Cols /\ t.col - 1 \in 0 .. TERM_COLS
    BY <1>2, TerminalAssumption DEF Grids, Cols
  <2>2. Backspace(t) = Written(t, t.col - 1, Blank, t.col - 1)
    BY <1>2 DEF Backspace, Written, Grids
  <2>3. Blank \in Chars
    BY DEF Chars
  <2> QED
    BY <2>1, <2>2, <2>3, CellWritten DEF Advanced
<1> QED
  BY <1>1, <1>2

\* A window that was complete, or known not to be, is known not to be afterwards.
LEMMA PrintNoted ==
  ASSUME NEW t \in Grids, NEW u \in Grids, Advanced(t, u),
         NEW win \in TermWindow, UpToDate(win, t) \/ Noted(win, t)
  PROVE  Noted(win, u)
<1>1. t.row \in Nat /\ u.row \in Nat /\ win.row \in Nat
  BY TerminalAssumption DEF Grids, TermWindow, Rows
<1>2. UpToDate(win, t) => OthersAgree(win, t)
  BY UpToDateAgrees
<1> QED
  BY <1>1, <1>2 DEF Noted, Advanced, OthersAgree

-----------------------------------------------------------------------------
(* The invariant.                                                          *)

LEMMA ClearedType == ASSUME NEW t PROVE Cleared(t) \in Grids /\ Cleared(t).needs_full_redraw
<1>1. 0 \in Rows /\ 0 \in 0 .. TERM_COLS
  BY TerminalAssumption DEF Rows
<1>2. [r \in Rows |-> BlankRow] \in [Rows -> [Cols -> Chars]]
  BY DEF BlankRow, Chars
<1> QED
  BY <1>1, <1>2 DEF Cleared, Grids

LEMMA InitTInv == TInit => TInv
<1> SUFFICES ASSUME TInit PROVE TInv
  OBVIOUS
<1>1. DOMAIN windows = {}
  BY DEF TInit
<1> QED
  BY <1>1, ClearedType DEF TInit, TInv, TTypeOK, GridInv

\* A window that opens is complete.
LEMMA OpenedUpToDate ==
  ASSUME NEW t \in Grids
  PROVE  Opened(t) \in TermWindow /\ Opened(t).prev_row = Opened(t).row /\ UpToDate(Opened(t), t)
BY ShownType DEF Opened, TermWindow, UpToDate, Grids

\* What Mirror makes of a window.
LEMMA MirroredUpToDate ==
  ASSUME NEW t \in Grids, NEW win \in TermWindow
  PROVE  /\ Mirrored(t, win) \in TermWindow
         /\ Mirrored(t, win).prev_row = Mirrored(t, win).row
         /\ WholeRedraw(t, win) => UpToDate(Mirrored(t, win), t)
         /\ win.prev_row = win.row /\ (UpToDate(win, t) \/ Noted(win, t))
              => UpToDate(Mirrored(t, win), t)
<1> DEFINE rows == IF WholeRedraw(t, win) THEN Rows ELSE {t.row, win.prev_row}
<1> DEFINE pic == Painted(win.picture, t, rows)
<1>1. Mirrored(t, win) = [row |-> t.row, prev_row |-> t.row, picture |-> pic,
                          is_minimized |-> win.is_minimized]
  <2>1. Mirrored(t, win) = [win EXCEPT !.row = t.row, !.prev_row = t.row, !.picture = pic]
    BY DEF Mirrored
  <2> HIDE DEF pic
  <2> QED
    BY <2>1 DEF TermWindow
<1>2. Painted(win.picture, t, rows) \in [Rows -> [Cols -> Chars \cup {Cursor}]]
  BY PaintedType DEF TermWindow
<1>3. ASSUME WholeRedraw(t, win) PROVE UpToDate(Mirrored(t, win), t)
  BY <1>1, <1>3, WholePainted DEF UpToDate
<1>4. ASSUME ~WholeRedraw(t, win), win.prev_row = win.row, UpToDate(win, t) \/ Noted(win, t)
      PROVE  UpToDate(Mirrored(t, win), t)
  <2>1. win.row = t.row /\ ~t.needs_full_redraw
    BY <1>4 DEF WholeRedraw
  <2>2. ~(win.row < t.row)
    BY <2>1, TerminalAssumption DEF Grids, Rows
  <2>3. OthersAgree(win, t)
    BY <1>4, <2>1, <2>2, UpToDateAgrees DEF Noted
  <2>4. rows = {t.row}
    BY <1>4, <2>1
  <2>5. Painted(win.picture, t, rows) = Shown(t)
    BY <2>3, <2>4, RowPainted DEF OthersAgree, TermWindow
  <2> QED
    BY <1>1, <2>5 DEF UpToDate
<1>5. Mirrored(t, win) \in TermWindow /\ Mirrored(t, win).prev_row = Mirrored(t, win).row
  <2> HIDE DEF pic, rows
  <2>1. pic \in [Rows -> [Cols -> Chars \cup {Cursor}]]
    BY <1>2 DEF pic
  <2> QED
    BY <1>1, <2>1 DEF TermWindow, Grids
<1> QED
  BY <1>3, <1>4, <1>5

\* After a print, no window has changed and the compositor is told to look.
LEMMA PrintedTInv ==
  ASSUME TInv, NEW u \in Grids, Advanced(term, u) \/ u.needs_full_redraw,
         needs_redraw', term' = u, UNCHANGED <<windows, behind>>
  PROVE  TInv'
<1>1. Advanced(term, u)
  BY DEF Advanced
<1>2. TTypeOK'
  BY DEF TInv, TTypeOK
<1>3. ASSUME NEW w \in DOMAIN windows \ behind
      PROVE  windows[w].prev_row = windows[w].row /\ Noted(windows[w], u)
  <2>1. windows[w] \in TermWindow /\ term \in Grids
    BY DEF TInv, TTypeOK
  <2>2. /\ windows[w].prev_row = windows[w].row
        /\ UpToDate(windows[w], term) \/ Noted(windows[w], term)
    BY DEF TInv, GridInv
  <2> QED
    BY <1>1, <2>1, <2>2, PrintNoted
<1>4. GridInv'
  BY <1>3 DEF GridInv
<1> QED
  BY <1>2, <1>4 DEF TInv

LEMMA CloseAndLaunchTInv == TInv /\ CloseAndLaunch => TInv'
<1> SUFFICES ASSUME TInv, CloseAndLaunch PROVE TInv'
  OBVIOUS
<1>1. PICK gone \in SUBSET DOMAIN windows, new \in SUBSET (TermWindows \ DOMAIN windows) :
        /\ windows' = [w \in (DOMAIN windows \ gone) \cup new |->
                         IF w \in new THEN Opened(term) ELSE windows[w]]
        /\ behind' = behind \ gone
  BY DEF CloseAndLaunch
<1>2. UNCHANGED <<term, needs_redraw>>
  BY DEF CloseAndLaunch, ManageWindows
<1>3. term \in Grids
  BY DEF TInv, TTypeOK
<1>4. DOMAIN windows' = (DOMAIN windows \ gone) \cup new
  BY <1>1
<1>5. ASSUME NEW w \in new
      PROVE  windows'[w] \in TermWindow /\ windows'[w].prev_row = windows'[w].row
               /\ UpToDate(windows'[w], term)
  BY <1>1, <1>3, <1>5, OpenedUpToDate
<1>6. ASSUME NEW w \in DOMAIN windows', w \notin new
      PROVE  w \in DOMAIN windows \ gone /\ windows'[w] = windows[w]
  BY <1>1, <1>4, <1>6
<1>7. TTypeOK'
  BY <1>2, <1>3, <1>5, <1>6 DEF TInv, TTypeOK
<1>8. GridInv'
  BY <1>1, <1>2, <1>5, <1>6 DEF TInv, GridInv
<1> QED
  BY <1>7, <1>8 DEF TInv

LEMMA ClickTInv == TInv /\ Click => TInv'
<1> SUFFICES ASSUME TInv, Click PROVE TInv'
  OBVIOUS
<1>1. PICK minimized \in SUBSET DOMAIN windows, resized \in SUBSET DOMAIN windows :
        /\ needs_redraw' = (needs_redraw \/ resized # {})
        /\ term' = [term EXCEPT !.needs_full_redraw = @ \/ resized # {}]
        /\ windows' = [w \in DOMAIN windows |->
                         [windows[w] EXCEPT !.is_minimized = w \in minimized,
                                            !.picture = IF w \in resized THEN NoPicture ELSE @]]
        /\ behind' = behind
  BY DEF Click
<1>2. term \in Grids /\ \A w \in DOMAIN windows : windows[w] \in TermWindow
  BY DEF TInv, TTypeOK
<1>3. /\ term' \in Grids /\ term'.row = term.row /\ term'.col = term.col
      /\ term'.cells = term.cells
      /\ term'.needs_full_redraw = (term.needs_full_redraw \/ resized # {})
  BY <1>1, <1>2 DEF Grids
<1>4. NoPicture \in [Rows -> [Cols -> Chars \cup {Cursor}]]
  BY DEF NoPicture, BlankRow, Chars
<1>5. ASSUME NEW w \in DOMAIN windows
      PROVE  /\ windows'[w] \in TermWindow
             /\ windows'[w].row = windows[w].row /\ windows'[w].prev_row = windows[w].prev_row
             /\ w \notin resized => windows'[w].picture = windows[w].picture
  <2>1. (w \in minimized) \in BOOLEAN
    OBVIOUS
  <2> QED
    BY <1>1, <1>2, <1>4, <1>5, <2>1 DEF TermWindow
<1>6. TTypeOK'
  BY <1>1, <1>3, <1>5 DEF TTypeOK
<1>7. GridInv'
  <2> SUFFICES ASSUME NEW w \in DOMAIN windows \ behind
               PROVE  /\ windows'[w].prev_row = windows'[w].row
                      /\ UpToDate(windows'[w], term')
                           \/ (needs_redraw' /\ Noted(windows'[w], term'))
    BY <1>1 DEF GridInv
  <2>1. /\ windows[w].prev_row = windows[w].row
        /\ UpToDate(windows[w], term) \/ (needs_redraw /\ Noted(windows[w], term))
    BY DEF TInv, GridInv
  <2>2. CASE resized # {}
    BY <1>1, <1>3, <1>5, <2>1, <2>2 DEF Noted
  <2>3. CASE resized = {}
    <3>1. Shown(term') = Shown(term)
      BY <1>3 DEF Shown, Painted
    <3> QED
      BY <1>1, <1>3, <1>5, <2>1, <2>3, <3>1, ZenonT(30) DEF Noted, UpToDate, OthersAgree
  <2> QED
    BY <2>2, <2>3
<1> QED
  BY <1>6, <1>7 DEF TInv

LEMMA MirrorTInv == TInv /\ Mirror => TInv'
<1> SUFFICES ASSUME TInv, Mirror PROVE TInv'
  OBVIOUS
<1>1. term \in Grids /\ \A w \in DOMAIN windows : windows[w] \in TermWindow
  BY DEF TInv, TTypeOK
<1>2. CASE ~needs_redraw
  <2>1. UNCHANGED <<term, windows, behind>>
    BY <1>2 DEF Mirror
  <2>2. GridInv'
    BY <1>2, <2>1 DEF TInv, GridInv
  <2> QED
    BY <1>1, <2>1, <2>2 DEF TInv, TTypeOK
<1>3. CASE needs_redraw
  <2>1. /\ term' = [term EXCEPT !.needs_full_redraw = FALSE]
        /\ windows' = [w \in DOMAIN windows |->
                         IF w \in Visible THEN Mirrored(term, windows[w]) ELSE windows[w]]
        /\ behind' = (behind \ {w \in Visible : WholeRedraw(term, windows[w])})
                       \cup (DOMAIN windows \ Visible)
    BY <1>3 DEF Mirror
  <2>2. term' \in Grids
    BY <1>1, <2>1 DEF Grids
  <2>3. Shown(term') = Shown(term) /\ term'.row = term.row
    BY <1>1, <2>1 DEF Shown, Painted, Grids
  <2>4. TTypeOK'
    BY <1>1, <2>1, <2>2, MirroredUpToDate DEF TTypeOK
  <2>5. ASSUME NEW w \in DOMAIN windows' \ behind'
        PROVE  windows'[w].prev_row = windows'[w].row /\ UpToDate(windows'[w], term')
    <3>1. w \in DOMAIN windows /\ w \in Visible /\ windows'[w] = Mirrored(term, windows[w])
      BY <2>1, <2>5 DEF Visible
    <3>2. WholeRedraw(term, windows[w]) \/ w \notin behind
      BY <2>1, <2>5, <3>1
    <3>3. w \notin behind =>
            /\ windows[w].prev_row = windows[w].row
            /\ UpToDate(windows[w], term) \/ Noted(windows[w], term)
      BY <3>1 DEF TInv, GridInv
    <3>4. windows'[w].prev_row = windows'[w].row /\ UpToDate(windows'[w], term)
      BY <1>1, <3>1, <3>2, <3>3, MirroredUpToDate
    <3> QED
      BY <2>3, <3>4 DEF UpToDate
  <2>6. GridInv'
    BY <2>5 DEF GridInv
  <2> QED
    BY <2>4, <2>6 DEF TInv
<1> QED
  BY <1>2, <1>3

LEMMA NextTInv == TInv /\ [TNext]_tvars => TInv'
<1> SUFFICES ASSUME TInv, [TNext]_tvars PROVE TInv'
  OBVIOUS
<1>1. term \in Grids
  BY DEF TInv, TTypeOK
<1>2. CASE PrintByte
  <2>1. PICK u \in {Put(term, g) : g \in Glyphs \cup {Blank}} \cup {NewLine(term), Backspace(term)} : term' = u
    BY <1>2 DEF PrintByte
  <2>2. u \in Grids /\ Advanced(term, u)
    BY <1>1, <2>1, PutAdvances, NewLineAdvances, BackspaceAdvances DEF Chars
  <2>3. needs_redraw' /\ UNCHANGED <<windows, behind>>
    BY <1>2 DEF PrintByte, PrintText
  <2> QED
    BY <2>1, <2>2, <2>3, PrintedTInv
<1>3. CASE Clear
  <2>1. needs_redraw' /\ UNCHANGED <<windows, behind>> /\ term' = Cleared(term)
    BY <1>3 DEF Clear, ClearTerminal
  <2> QED
    BY <2>1, ClearedType, PrintedTInv
<1>4. CASE CloseAndLaunch
  BY <1>4, CloseAndLaunchTInv
<1>5. CASE Click
  BY <1>5, ClickTInv
<1>6. CASE Mirror
  BY <1>6, MirrorTInv
<1>7. CASE OtherStep \/ UNCHANGED tvars
  <2>1. UNCHANGED <<term, windows, behind, needs_redraw>>
    BY <1>7 DEF OtherStep, RunCompositor, WaitForDamage, LockWaker, StoreWaker, TickClock,
                DrainDamage, WorkStep, LockToWake, TakeWaker, MoveCursor, MousePacket,
                DrawNotepad, TimerWakeup, tvars, vars, queues
  <2> QED
    BY <2>1 DEF TInv, TTypeOK, GridInv
<1> QED
  BY <1>2, <1>3, <1>4, <1>5, <1>6, <1>7 DEF TNext

-----------------------------------------------------------------------------
(* The theorems.                                                           *)

\* The terminal adds to the compositor and takes nothing away: whatever Compositor
\* promises holds with a terminal too.
THEOREM Terminal_ImplementsCompositor == TSpec => Spec
<1>1. TInit => Init
  BY DEF TInit
<1>2. [TNext]_tvars => [Next]_vars
  BY DEF TNext, PrintByte, Clear, CloseAndLaunch, Click, Mirror, OtherStep, Next,
         CompositorStep, Frame, tvars
<1> QED
  BY <1>1, <1>2, PTL DEF TSpec, Spec

\* Painting single rows is enough: while the compositor sleeps, the buffer of a terminal
\* window on the screen shows the grid, whatever was printed since its last frame,
\* unless the window was minimised in between.
THEOREM Terminal_WindowsShowGrid == TSpec => []WindowsShowGrid
<1>1. TSpec => []TInv
  BY InitTInv, NextTInv, PTL DEF TSpec
<1>2. TInv /\ NothingLeftAsleep => WindowsShowGrid
  BY DEF TInv, GridInv, UpToDate, NothingLeftAsleep, WindowsShowGrid, Visible
<1> QED
  BY <1>1, <1>2, Terminal_ImplementsCompositor, Compositor_NothingLeftAsleep, PTL
=============================================================================
