------------------------------ MODULE Terminal ------------------------------
(***************************************************************************)
(* The text terminal of kernel/src/gui/terminal.rs on top of Compositor:   *)
(* the shared grid the shell prints to, its two redraw flags, and the      *)
(* windows that show it.  Each window has a row of its own to tell how     *)
(* much of it to paint, and a buffer that keeps what was painted.          *)
(*                                                                         *)
(* Colours are left out, and so is where a window lies.  A byte is one of  *)
(* three kinds; a longer text is several calls with no frame in between.   *)
(***************************************************************************)
EXTENDS Compositor

CONSTANTS
  TERM_ROWS, TERM_COLS,   \* 20 x 48 in the code
  Glyphs,                 \* characters that show
  Blank, Cursor,          \* what else a cell of a picture may show
  TermWindows             \* bound: the terminal windows that may be open

ASSUME TerminalAssumption ==
  /\ TERM_ROWS \in Nat \ {0} /\ TERM_COLS \in Nat \ {0}
  /\ Blank \notin Glyphs /\ Cursor \notin Glyphs /\ Blank # Cursor

VARIABLES
  term,      \* GUI_TERMINAL: [cells, row, col, needs_full_redraw]
  windows,   \* the open terminal windows: [row, prev_row, picture, is_minimized]
  behind     \* history: windows that were minimised when text was drawn, and have
             \* not been painted as a whole since

tvars == <<vars, term, windows, behind>>

-----------------------------------------------------------------------------
(* The grid.                                                               *)

Rows == 0 .. TERM_ROWS - 1
Cols == 0 .. TERM_COLS - 1

BlankRow == [c \in Cols |-> Blank]

\* Mutant of ScrollUp: the windows are not told that every row has changed.
ScrollUnseen(t) ==
  [t EXCEPT !.cells = [r \in Rows |-> IF r + 1 \in Rows THEN t.cells[r + 1] ELSE BlankRow]]

ScrollUp(t) ==
  [t EXCEPT !.cells = [r \in Rows |-> IF r + 1 \in Rows THEN t.cells[r + 1] ELSE BlankRow],
            !.needs_full_redraw = TRUE]

NewLine(t) ==
  LET back == [t EXCEPT !.col = 0]
  IN  IF t.row + 1 \in Rows THEN [back EXCEPT !.row = @ + 1] ELSE ScrollUp(back)

Backspace(t) ==
  IF t.col = 0 THEN t
  ELSE [t EXCEPT !.col = @ - 1, !.cells[t.row][t.col - 1] = Blank]

\* A full line is broken by the character that no longer fits, not before.
Put(t, glyph) ==
  LET u == IF t.col \in Cols THEN t ELSE NewLine(t)
  IN  [u EXCEPT !.cells[u.row][u.col] = glyph, !.col = @ + 1]

Cleared(t) ==
  [cells |-> [r \in Rows |-> BlankRow], row |-> 0, col |-> 0, needs_full_redraw |-> TRUE]

-----------------------------------------------------------------------------
(* The windows.                                                            *)

Visible == {w \in DOMAIN windows : ~windows[w].is_minimized}

\* What render_row and render_cursor leave of a picture: the rows are painted as
\* they are in the grid, then the cursor, unless it is past the last column.
Painted(picture, t, rows) ==
  [r \in Rows |-> [c \in Cols |->
     IF r = t.row /\ c = t.col THEN Cursor
     ELSE IF r \in rows THEN t.cells[r][c] ELSE picture[r][c]]]

NoPicture == [r \in Rows |-> BlankRow]

\* All of the grid.
Shown(t) == Painted(NoPicture, t, Rows)

\* A window that opens takes a copy of the grid and paints all of it.
Opened(t) ==
  [row |-> t.row, prev_row |-> t.row, picture |-> Shown(t), is_minimized |-> FALSE]

WholeRedraw(t, win) == t.needs_full_redraw \/ win.row # t.row

\* render_into_window.
Mirrored(t, win) ==
  [win EXCEPT !.row = t.row, !.prev_row = t.row,
              !.picture = Painted(@, t, IF WholeRedraw(t, win) THEN Rows
                                        ELSE {t.row, win.prev_row})]

-----------------------------------------------------------------------------
TInit ==
  /\ Init
  /\ term = Cleared([needs_full_redraw |-> TRUE])
  /\ windows = [w \in {} |-> Opened(term)] /\ behind = {}

\* A text is written to the grid.
PrintByte ==
  /\ PrintText
  /\ term' \in {Put(term, g) : g \in Glyphs \cup {Blank}} \cup {NewLine(term), Backspace(term)}
  /\ UNCHANGED <<windows, behind>>

Clear ==
  /\ ClearTerminal
  /\ term' = Cleared(term)
  /\ UNCHANGED <<windows, behind>>

\* Of the windows closed and launched, some are terminals.
CloseAndLaunch ==
  /\ ManageWindows
  /\ \E gone \in SUBSET DOMAIN windows, new \in SUBSET (TermWindows \ DOMAIN windows) :
       /\ gone # {} => "close" \in changes
       /\ new # {} => "launch" \in changes
       /\ windows' = [w \in (DOMAIN windows \ gone) \cup new |->
                        IF w \in new THEN Opened(term) ELSE windows[w]]
       /\ behind' = behind \ gone
  /\ UNCHANGED term

\* Clicks minimise windows, which the next frame sees; restore them, as they are;
\* and maximise them or undo it, which empties the buffer and asks for the whole grid.
Click ==
  /\ RouteEvents
  /\ \E minimized \in SUBSET DOMAIN windows, resized \in SUBSET DOMAIN windows :
       /\ minimized \cap Visible # {} => "minimize" \in changes'
       /\ Visible \cup minimized # DOMAIN windows => mouse_events /\ damage'
       /\ resized # {} => mouse_events /\ damage'
       /\ needs_redraw' = (needs_redraw \/ resized # {})
       /\ term' = [term EXCEPT !.needs_full_redraw = @ \/ resized # {}]
       /\ windows' = [w \in DOMAIN windows |->
                        [windows[w] EXCEPT !.is_minimized = w \in minimized,
                                           !.picture = IF w \in resized THEN NoPicture ELSE @]]
  /\ UNCHANGED behind

\* The flags are taken whether or not somebody paints.
Mirror ==
  /\ MirrorTerminal
  /\ damage' = (damage \/ (needs_redraw /\ Visible # {}))
  /\ IF needs_redraw
     THEN /\ term' = [term EXCEPT !.needs_full_redraw = FALSE]
          /\ windows' = [w \in DOMAIN windows |->
                           IF w \in Visible THEN Mirrored(term, windows[w]) ELSE windows[w]]
          /\ behind' = (behind \ {w \in Visible : WholeRedraw(term, windows[w])})
                         \cup (DOMAIN windows \ Visible)
     ELSE UNCHANGED <<term, windows, behind>>

\* All that has to do with text or windows is above.
OtherStep ==
  /\ \/ RunCompositor \/ WaitForDamage \/ LockWaker \/ StoreWaker \/ TickClock \/ DrainDamage
     \/ WorkStep \/ MousePacket \/ DrawNotepad \/ TimerWakeup
  /\ UNCHANGED <<term, windows, behind>>

TNext == PrintByte \/ Clear \/ CloseAndLaunch \/ Click \/ Mirror \/ OtherStep

TSpec == TInit /\ [][TNext]_tvars

\* The fairness of Compositor.
TFairSpec ==
  /\ TSpec
  /\ WF_vars(CompositorStep)
  /\ WF_vars(WorkStep)
  /\ SF_vars(RunCompositor)
  /\ WF_vars(TimerWakeup)

-----------------------------------------------------------------------------
(* Properties.                                                             *)

\* Whenever the compositor sleeps, the buffer of a terminal window that is open on the
\* screen is the grid with its cursor, although a frame paints one row in most cases:
\* the flags, which several printers set and one reader takes, and the row each window
\* remembers tell when that is not enough.  Windows that were minimised while text was
\* printed are another matter, see ShowsGrid.
WindowsShowGrid ==
  running = "none" /\ queued = 0 =>
    \A w \in Visible \ behind : windows[w].picture = Shown(term)

\* The same for every window in sight.  It does not hold: a restored window is put on the
\* screen as it was when it was minimised, and what is printed next repaints its last
\* row only if the grid has scrolled in between.
ShowsGrid ==
  running = "none" /\ queued = 0 => \A w \in Visible : windows[w].picture = Shown(term)
=============================================================================
