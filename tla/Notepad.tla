------------------------------- MODULE Notepad -------------------------------
(***************************************************************************)
(* The text editor of kernel/src/gui/notepad.rs: the text with its cursor, *)
(* scroll position, selection, clipboard and undo history, the files it    *)
(* opens and saves through kernel/src/fs.rs, and the shell commands that   *)
(* open it and change files while it is closed.                            *)
(*                                                                         *)
(* NOTEPAD_STATE is one record, and every method of NotepadState an        *)
(* operator from records to records, so that a key is the composition the  *)
(* code makes.  Rows are counted from 1; a column is the number of         *)
(* characters before the cursor.  Names typed into a prompt are chosen     *)
(* when the prompt is confirmed.  A failed index panics the kernel.        *)
(***************************************************************************)
EXTENDS Integers, Sequences, SequencesExt

CONSTANTS
  Chars, Space,                 \* printable characters, the space among them
  NL,                           \* b'\n'
  Names, Untitled,              \* file names, and no name
  TarFiles,                     \* contents of the files in the TAR image
  VISIBLE_ROWS, VISIBLE_COLS, MAX_UNDO,
  TabWidth,                     \* spaces a tab inserts
  MaxRows, MaxCols, MaxKeys     \* bounds of the model: text, and keys pressed

ASSUME NotepadAssumption ==
  /\ Space \in Chars /\ NL \notin Chars /\ Untitled \notin Names
  /\ \A n \in DOMAIN TarFiles : n \in Names /\ TarFiles[n] \in Seq(Chars \cup {NL})
  /\ {VISIBLE_ROWS, VISIBLE_COLS, MAX_UNDO, TabWidth} \subseteq Nat \ {0}
  /\ TabWidth < MAX_UNDO          \* 4 and 50

VARIABLES
  active,       \* NOTEPAD_ACTIVE: "closed", "open", or "panicked" once an index failed
  state,        \* NOTEPAD_STATE
  ram_files,    \* OverlayFileSystem::ram_files
  keys          \* keys pressed and commands given so far

vars == <<active, state, ram_files, keys>>

None == [selected |-> FALSE]

Fresh(clipboard) ==
  [lines |-> << <<>> >>, row |-> 1, col |-> 0, scroll_row |-> 1, scroll_col |-> 0,
   selection |-> None, clipboard |-> clipboard, mode |-> "Editing", filename |-> Untitled,
   modified |-> FALSE, undo_stack |-> <<>>, redo_stack |-> <<>>]

Init ==
  /\ active = "closed"
  /\ state = Fresh(<<>>)
  /\ ram_files = << >>
  /\ keys = 0

-----------------------------------------------------------------------------
(* Cursor and scrolling.                                                   *)

Smaller(a, b) == IF a <= b THEN a ELSE b
LineLen(s, row) == IF row <= Len(s.lines) THEN Len(s.lines[row]) ELSE 0

\* Mutant of ClampCursor: the column is left alone.
ClampRow(s) == [s EXCEPT !.row = Smaller(@, Len(s.lines))]

ClampCursor(s) ==
  LET row == Smaller(s.row, Len(s.lines))
  IN  [s EXCEPT !.row = row, !.col = Smaller(s.col, LineLen(s, row))]

\* The first row, or column, to show so that `at` is among the `size` shown.
Scrolled(first, at, size) ==
  IF at < first THEN at ELSE IF at >= first + size THEN at - size + 1 ELSE first

EnsureVisible(s) ==
  [s EXCEPT !.scroll_row = Scrolled(s.scroll_row, s.row, VISIBLE_ROWS),
            !.scroll_col = Scrolled(s.scroll_col, s.col, VISIBLE_COLS)]

-----------------------------------------------------------------------------
(* Undo and redo.                                                          *)

Snapshot(s) == [lines |-> s.lines, row |-> s.row, col |-> s.col]

\* Mutants of Restored: the view, or the mark for unsaved changes, stays.
RestoredUnseen(s, snap) ==
  ClampCursor([s EXCEPT !.lines = snap.lines, !.row = snap.row, !.col = snap.col,
                        !.modified = TRUE])

RestoredUnmarked(s, snap) ==
  EnsureVisible(ClampCursor([s EXCEPT !.lines = snap.lines, !.row = snap.row, !.col = snap.col]))

Restored(s, snap) ==
  EnsureVisible(ClampCursor([s EXCEPT !.lines = snap.lines, !.row = snap.row,
                                      !.col = snap.col, !.modified = TRUE]))

PushUndo(s) ==
  [s EXCEPT !.undo_stack = Append(IF Len(@) >= MAX_UNDO THEN Tail(@) ELSE @, Snapshot(s)),
            !.redo_stack = <<>>]

Undo(s) ==
  IF s.undo_stack = <<>> THEN s
  ELSE Restored([s EXCEPT !.undo_stack = Front(@), !.redo_stack = Append(@, Snapshot(s))],
                Last(s.undo_stack))

\* Mutant of Redo: the undo entry is made by push_undo.
RedoByPush(s) ==
  IF s.redo_stack = <<>> THEN s ELSE Restored(PushUndo(s), Last(s.redo_stack))

Redo(s) ==
  IF s.redo_stack = <<>> THEN s
  ELSE Restored([s EXCEPT !.redo_stack = Front(@), !.undo_stack = Append(@, Snapshot(s))],
                Last(s.redo_stack))

-----------------------------------------------------------------------------
(* Selection and clipboard.                                                *)

Pos(s) == <<s.row, s.col>>
Before(p, q) == p[1] < q[1] \/ (p[1] = q[1] /\ p[2] <= q[2])
SelectFrom(p, q) == [selected |-> TRUE, start |-> p, end |-> q]

\* Some selection that is not empty, and its ends in document order.
Selected(s) == s.selection.selected /\ s.selection.start # s.selection.end
From(s) == IF Before(s.selection.start, s.selection.end) THEN s.selection.start ELSE s.selection.end
To(s)   == IF Before(s.selection.start, s.selection.end) THEN s.selection.end ELSE s.selection.start

StartOrExtendSelection(s, shift) ==
  [s EXCEPT !.selection = IF ~shift THEN None
                          ELSE IF @.selected THEN @ ELSE SelectFrom(Pos(s), Pos(s))]
UpdateSelectionEnd(s) ==
  [s EXCEPT !.selection = IF @.selected THEN SelectFrom(@.start, Pos(s)) ELSE @]

SelectAll(s) ==
  LET last == <<Len(s.lines), Len(Last(s.lines))>>
  IN  EnsureVisible([s EXCEPT !.selection = SelectFrom(<<1, 0>>, last),
                              !.row = last[1], !.col = last[2]])

\* Rows that are gone are skipped, columns cut to the line.
SelectedPart(s, r) ==
  LET line == s.lines[r]
      from == IF r = From(s)[1] THEN Smaller(From(s)[2], Len(line)) ELSE 0
      to   == IF r = To(s)[1] THEN Smaller(To(s)[2], Len(line)) ELSE Len(line)
  IN  SubSeq(line, from + 1, to) \o IF r < To(s)[1] THEN <<NL>> ELSE <<>>

SelectedText(s) ==
  LET text[r \in 0 .. Len(s.lines)] ==
        IF r = 0 THEN <<>>
        ELSE text[r - 1] \o IF r \in From(s)[1] .. To(s)[1] THEN SelectedPart(s, r) ELSE <<>>
  IN  IF Selected(s) THEN text[Len(s.lines)] ELSE <<>>

\* delete_selection indexes the first selected row, whatever the text is by now.
DeletePanics(s) == Selected(s) /\ From(s)[1] > Len(s.lines)

\* The lines without what is between the ends; SubSeq cuts columns and rows to the
\* text as the code does with min.
Remaining(s) ==
  LET first == From(s)
      last  == To(s)
      head  == SubSeq(s.lines[first[1]], 1, Smaller(first[2], LineLen(s, first[1])))
      tail  == IF last[1] <= Len(s.lines)
               THEN SubSeq(s.lines[last[1]], last[2] + 1, Len(s.lines[last[1]])) ELSE <<>>
  IN  SubSeq(s.lines, 1, first[1] - 1) \o <<head \o tail>>
        \o SubSeq(s.lines, last[1] + 1, Len(s.lines))

DeleteSelection(s) ==
  IF ~Selected(s) THEN [s EXCEPT !.selection = None]
  ELSE EnsureVisible(ClampCursor(
         [PushUndo([s EXCEPT !.selection = None]) EXCEPT
            !.lines = Remaining(s), !.row = From(s)[1], !.col = From(s)[2], !.modified = TRUE]))

Copy(s) ==
  LET text == SelectedText(s)
  IN  IF text = <<>> THEN s ELSE [s EXCEPT !.clipboard = text]

-----------------------------------------------------------------------------
(* Editing.                                                                *)

\* One byte at the cursor: a line break splits the line.
InsertByte(s, b) ==
  LET line  == s.lines[s.row]
      left  == SubSeq(line, 1, s.col)
      right == SubSeq(line, s.col + 1, Len(line))
  IN  IF b = NL
      THEN [s EXCEPT !.lines = SubSeq(@, 1, s.row - 1) \o <<left, right>>
                                 \o SubSeq(@, s.row + 1, Len(@)),
                     !.row = s.row + 1, !.col = 0]
      ELSE [s EXCEPT !.lines[s.row] = Append(left, b) \o right, !.col = s.col + 1]

\* Mutant of Insert: no undo entry.
InsertUnrecorded(s, b) ==
  EnsureVisible([InsertByte(s, b) EXCEPT !.modified = TRUE])

\* insert_char and insert_newline.
Insert(s, b) ==
  EnsureVisible([InsertByte(PushUndo(s), b) EXCEPT !.modified = TRUE])

InsertTab(s) ==
  LET tabbed[i \in 0 .. TabWidth] == IF i = 0 THEN s ELSE Insert(tabbed[i - 1], Space)
  IN  tabbed[TabWidth]

\* The line break between row and the next one goes.
Joined(lines, row) ==
  SubSeq(lines, 1, row - 1) \o <<lines[row] \o lines[row + 1]>> \o SubSeq(lines, row + 2, Len(lines))
Without(lines, row, i) == [lines EXCEPT ![row] = RemoveAt(@, i)]

\* An undo entry is made even if there is nothing to delete.
Backspace(s) ==
  LET t == PushUndo(s)
  IN  EnsureVisible(
        IF s.col > 0
        THEN [t EXCEPT !.lines = Without(@, s.row, s.col), !.col = s.col - 1, !.modified = TRUE]
        ELSE IF s.row > 1
        THEN [t EXCEPT !.lines = Joined(@, s.row - 1), !.row = s.row - 1,
                       !.col = Len(s.lines[s.row - 1]), !.modified = TRUE]
        ELSE t)

Delete(s) ==
  LET t == PushUndo(s)
  IN  IF s.col < Len(s.lines[s.row])
      THEN [t EXCEPT !.lines = Without(@, s.row, s.col + 1), !.modified = TRUE]
      ELSE IF s.row < Len(s.lines)
      THEN [t EXCEPT !.lines = Joined(@, s.row), !.modified = TRUE]
      ELSE t

Paste(s) ==
  LET pasted[i \in 0 .. Len(s.clipboard)] ==
        IF i = 0 THEN PushUndo(s) ELSE InsertByte(pasted[i - 1], s.clipboard[i])
  IN  EnsureVisible([pasted[Len(s.clipboard)] EXCEPT !.modified = TRUE])

\* The cursor keys.
Moves == {"Left", "Right", "Up", "Down", "Home", "End"}

Moved(s, move) ==
  CASE move = "Left"  -> IF s.col > 0 THEN [s EXCEPT !.col = @ - 1]
                         ELSE IF s.row > 1
                         THEN [s EXCEPT !.row = @ - 1, !.col = LineLen(s, s.row - 1)] ELSE s
    [] move = "Right" -> IF s.col < LineLen(s, s.row) THEN [s EXCEPT !.col = @ + 1]
                         ELSE IF s.row < Len(s.lines)
                         THEN [s EXCEPT !.row = @ + 1, !.col = 0] ELSE s
    [] move = "Up"    -> IF s.row > 1 THEN ClampCursor([s EXCEPT !.row = @ - 1]) ELSE s
    [] move = "Down"  -> IF s.row < Len(s.lines) THEN ClampCursor([s EXCEPT !.row = @ + 1]) ELSE s
    [] move = "Home"  -> [s EXCEPT !.col = 0]
    [] move = "End"   -> [s EXCEPT !.col = LineLen(s, s.row)]

Move(s, move, shift) ==
  UpdateSelectionEnd(EnsureVisible(Moved(StartOrExtendSelection(s, shift), move)))

-----------------------------------------------------------------------------
(* Files.                                                                  *)

FileNames == DOMAIN ram_files \cup DOMAIN TarFiles
ReadFile(name) == IF name \in DOMAIN ram_files THEN ram_files[name] ELSE TarFiles[name]
WriteFile(name, content) ==
  ram_files' = [n \in DOMAIN ram_files \cup {name} |-> IF n = name THEN content ELSE ram_files[n]]

Content(lines) ==
  LET text[r \in 0 .. Len(lines) - 1] ==
        IF r = 0 THEN lines[1] ELSE text[r - 1] \o <<NL>> \o lines[r + 1]
  IN  text[Len(lines) - 1]

Lines(content) ==
  LET lines[i \in 0 .. Len(content)] ==
        IF i = 0 THEN << <<>> >>
        ELSE IF content[i] = NL THEN Append(lines[i - 1], <<>>)
        ELSE [lines[i - 1] EXCEPT ![Len(lines[i - 1])] = Append(@, content[i])]
  IN  lines[Len(content)]

\* A file that is not there leaves the text as it is, under the new name.
OpenFile(s, name) ==
  IF name \notin FileNames THEN [s EXCEPT !.filename = name]
  ELSE [Fresh(s.clipboard) EXCEPT !.lines = Lines(ReadFile(name)), !.filename = name]

-----------------------------------------------------------------------------
(* Keys, as handle_key and the shell pass them on.                         *)

Fits(s) == Len(s.lines) <= MaxRows /\ \A r \in DOMAIN s.lines : Len(s.lines[r]) <= MaxCols

KeyDown ==
  /\ active = "open" /\ state.mode = "Editing"
  /\ keys < MaxKeys /\ keys' = keys + 1
  /\ UNCHANGED ram_files

Becomes(s) == Fits(s) /\ state' = s /\ UNCHANGED active

\* A key that first deletes what is selected.
Replacing(s) ==
  IF DeletePanics(state) THEN active' = "panicked" /\ UNCHANGED state ELSE Becomes(s)

TypeKey ==
  KeyDown /\ \E b \in Chars \cup {NL} : Replacing(Insert(DeleteSelection(state), b))
TabKey == KeyDown /\ Replacing(InsertTab(DeleteSelection(state)))

\* A selection is deleted instead of a character, even an empty one.
BackspaceKey ==
  KeyDown /\ Replacing(IF state.selection.selected THEN DeleteSelection(state) ELSE Backspace(state))
DeleteKey ==
  KeyDown /\ Replacing(IF state.selection.selected THEN DeleteSelection(state) ELSE Delete(state))

CutKey   == KeyDown /\ Replacing(DeleteSelection(Copy(state)))
PasteKey == KeyDown /\ state.clipboard # <<>> /\ Replacing(Paste(DeleteSelection(state)))
CopyKey  == KeyDown /\ Becomes(Copy(state))
UndoKey  == KeyDown /\ Becomes(Undo(state))
RedoKey  == KeyDown /\ Becomes(Redo(state))
MoveKey  == KeyDown /\ \E move \in Moves, shift \in BOOLEAN : Becomes(Move(state, move, shift))
SelectAllKey == KeyDown /\ Becomes(SelectAll(state))
NewKey   == KeyDown /\ Becomes(Fresh(state.clipboard))
OpenKey  == KeyDown /\ Becomes([state EXCEPT !.mode = "OpenPrompt"])

Saved(s) == [s EXCEPT !.modified = FALSE, !.mode = "Editing"]

SaveKey ==
  /\ active = "open" /\ state.mode = "Editing"
  /\ keys < MaxKeys /\ keys' = keys + 1
  /\ IF state.filename = Untitled
     THEN state' = [state EXCEPT !.mode = "SavePrompt"] /\ UNCHANGED ram_files
     ELSE state' = Saved(state) /\ WriteFile(state.filename, Content(state.lines))
  /\ UNCHANGED active

\* The file name is confirmed, or the prompt left.
PromptEnter ==
  /\ active = "open" /\ keys < MaxKeys /\ keys' = keys + 1
  /\ \E name \in Names :
       \/ /\ state.mode = "SavePrompt"
          /\ state' = Saved([state EXCEPT !.filename = name])
          /\ WriteFile(name, Content(state.lines))
       \/ /\ state.mode = "OpenPrompt"
          /\ state' = [OpenFile(state, name) EXCEPT !.mode = "Editing"]
          /\ UNCHANGED ram_files
  /\ UNCHANGED active

PromptCancel ==
  /\ active = "open" /\ state.mode # "Editing"
  /\ keys < MaxKeys /\ keys' = keys + 1
  /\ state' = [state EXCEPT !.mode = "Editing"]
  /\ UNCHANGED <<active, ram_files>>

\* Escape closes the window; NOTEPAD_STATE stays as it is until it is opened again.
CloseKey == KeyDown /\ active' = "closed" /\ UNCHANGED state

-----------------------------------------------------------------------------
(* The shell, which gets the keys while the notepad is closed.             *)

Shell == active = "closed" /\ keys < MaxKeys /\ keys' = keys + 1

OpenNotepad ==
  /\ Shell
  /\ active' = "open"
  /\ \/ state' = Fresh(state.clipboard)
     \/ \E name \in Names : state' = OpenFile(Fresh(state.clipboard), name)
  /\ UNCHANGED ram_files

\* touch and write; rm, which takes files in RAM only.
ShellWrite ==
  /\ Shell
  /\ \E name \in Names, text \in {<<>>, <<Space>>} : WriteFile(name, text)
  /\ UNCHANGED <<active, state>>

ShellRemove ==
  /\ Shell
  /\ \E name \in DOMAIN ram_files :
       ram_files' = [n \in DOMAIN ram_files \ {name} |-> ram_files[n]]
  /\ UNCHANGED <<active, state>>

-----------------------------------------------------------------------------
EditKey == TypeKey \/ TabKey \/ BackspaceKey \/ DeleteKey \/ CutKey \/ PasteKey

Next ==
  \/ EditKey
  \/ UndoKey
  \/ RedoKey
  \/ CopyKey
  \/ MoveKey
  \/ SelectAllKey
  \/ NewKey
  \/ OpenKey
  \/ SaveKey
  \/ PromptEnter
  \/ PromptCancel
  \/ CloseKey
  \/ OpenNotepad
  \/ ShellWrite
  \/ ShellRemove

Spec == Init /\ [][Next]_vars

-----------------------------------------------------------------------------
(* Properties.                                                             *)

InText(snap) == snap.row \in 1 .. Len(snap.lines) /\ snap.col \in 0 .. Len(snap.lines[snap.row])

\* The cursor is a place in the text, in every undo entry too: all of the code but
\* clamp_cursor indexes with it unchecked.  push_undo bounds one stack only, and redo
\* pushes without it; together they never hold more than MAX_UNDO entries all the same.
TypeOK ==
  /\ active \in {"closed", "open", "panicked"}
  /\ state.lines \in Seq(Seq(Chars)) /\ InText(state)
  /\ \A i \in DOMAIN state.undo_stack : InText(state.undo_stack[i])
  /\ \A i \in DOMAIN state.redo_stack : InText(state.redo_stack[i])
  /\ state.clipboard \in Seq(Chars \cup {NL})
  /\ state.mode \in {"Editing", "SavePrompt", "OpenPrompt"}
  /\ state.filename \in Names \cup {Untitled} /\ state.modified \in BOOLEAN
  /\ Len(state.undo_stack) + Len(state.redo_stack) <= MAX_UNDO
  /\ DOMAIN ram_files \subseteq Names

\* Whatever moved it, the cursor is in the part of the text that is shown.
CursorVisible ==
  /\ state.row \in state.scroll_row .. state.scroll_row + VISIBLE_ROWS - 1
  /\ state.col \in state.scroll_col .. state.scroll_col + VISIBLE_COLS - 1

\* A text without the mark for unsaved changes is what its file contains: saving,
\* opening, undoing past a save and prompts for missing files never lose track.
UnmodifiedIsSaved ==
  active = "open" /\ ~state.modified /\ state.filename \in FileNames
    => ReadFile(state.filename) = Content(state.lines)

Texts(stack) == [i \in DOMAIN stack |-> stack[i].lines]
History(s)   == Texts(s.undo_stack) \o <<s.lines>> \o Reverse(Texts(s.redo_stack))

\* Undo and redo walk along one history of texts and never change it.
HistoryLinear == [][UndoKey \/ RedoKey => History(state') = History(state)]_vars

Among(lines, stack) == \E i \in DOMAIN stack : stack[i].lines = lines

\* The text is given up for a new one, and its history with it.
StartsOver(s) == s.undo_stack = <<>> /\ s.redo_stack = <<>> /\ ~s.modified

\* Whatever changes the text leaves a way back to the old one: edits and redo in the undo
\* stack, an undo in the redo stack.  Three steps have none: Ctrl+N, the opening of a file
\* and the opening of the editor give the text and its history up.
EditsUndoable ==
  [][state'.lines # state.lines =>
       \/ Among(state.lines, state'.undo_stack)
       \/ UndoKey /\ Among(state.lines, state'.redo_stack)
       \/ (NewKey \/ PromptEnter \/ OpenNotepad) /\ StartsOver(state')]_vars

\* Ctrl+N can be undone, as the push_undo that new_file starts with suggests.
NewIsUndoable ==
  [][NewKey /\ state'.lines # state.lines => Among(state.lines, state'.undo_stack)]_vars

\* What is selected is in the text: delete_selection finds the row it indexes.
SelectionExists == active # "panicked"
=============================================================================
