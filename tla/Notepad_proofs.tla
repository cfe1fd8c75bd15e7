--------------------------- MODULE Notepad_proofs ---------------------------
(* Theorems about Notepad, for texts, files, windows and undo stacks of any   *)
(* size and any number of keys.                                               *)
EXTENDS Notepad, TLAPS, WellFoundedInduction, SequenceTheorems

-----------------------------------------------------------------------------
(* Induction over numbers.  The library's theorems about it take an operator; *)
(* what they rest on, that a set of numbers has a least one, does not.        *)

LEMMA LessThanWellFounded ==
  \E R : IsWellFoundedOn(R, Nat) /\ \A x, y \in Nat : y < x => <<y, x>> \in R
<1>1. \A x, y \in Nat : y < x => <<y, x>> \in OpToRel(<, Nat)
  BY DEF OpToRel
<1> QED
  BY <1>1, NatLessThanWellFounded, Zenon

LEMMA LeastNat ==
  ASSUME NEW S \in SUBSET Nat, S # {}
  PROVE  \E n \in S : \A m \in S : n <= m
<1>1. PICK R : IsWellFoundedOn(R, Nat) /\ \A x, y \in Nat : y < x => <<y, x>> \in R
  BY LessThanWellFounded
<1>2. PICK n \in S : \A m \in S : <<m, n>> \notin R
  BY <1>1, WFMin
<1>3. ASSUME NEW m \in S PROVE n <= m
  <2>1. n \in Nat /\ m \in Nat
    OBVIOUS
  <2>2. ~(m < n)
    BY <1>1, <1>2, <2>1
  <2> QED
    BY <2>1, <2>2
<1> QED
  BY <1>3

\* A set that has 0 and with each number the next one has all numbers up to n.
LEMMA Steps ==
  ASSUME NEW n \in Nat, NEW S, 0 \in S,
         \A i \in 1 .. n : i - 1 \in S => i \in S
  PROVE  \A i \in 0 .. n : i \in S
<1> DEFINE missing == (0 .. n) \ S
<1> SUFFICES ASSUME missing # {} PROVE FALSE
  OBVIOUS
<1>0. missing \in SUBSET Nat
  OBVIOUS
<1> HIDE DEF missing
<1>1. PICK k \in missing : \A m \in missing : k <= m
  BY <1>0, LeastNat
<1>2. k \in 0 .. n /\ k \notin S
  BY DEF missing
<1>3. k \in 1 .. n /\ k - 1 \in 0 .. n /\ ~(k <= k - 1)
  BY <1>2
<1>4. k - 1 \in S
  BY <1>1, <1>3 DEF missing
<1> QED
  BY <1>2, <1>3, <1>4

\* A function can be defined by its first value and the step to the next one.
UpTo(f, k, a, step) == f[0] = a /\ \A i \in 1 .. k : f[i] = step[<<i, f[i - 1]>>]

LEMMA DefinedByStep ==
  ASSUME NEW n \in Nat, NEW V, NEW a \in V, NEW step \in [(1 .. n) \X V -> V]
  PROVE  \E f \in [0 .. n -> V] : UpTo(f, n, a, step)
<1> DEFINE defined == {k \in 0 .. n : \E f \in [0 .. k -> V] : UpTo(f, k, a, step)}
<1>1. 0 \in defined
  <2>1. [i \in 0 .. 0 |-> a] \in [0 .. 0 -> V] /\ UpTo([i \in 0 .. 0 |-> a], 0, a, step)
    BY DEF UpTo
  <2> QED
    BY <2>1
<1>2. ASSUME NEW k \in 1 .. n, k - 1 \in defined PROVE k \in defined
  <2>1. PICK f \in [0 .. k - 1 -> V] : UpTo(f, k - 1, a, step)
    BY <1>2
  <2> DEFINE last == step[<<k, f[k - 1]>>]
             g == [i \in 0 .. k |-> IF i = k THEN last ELSE f[i]]
  <2>2. k - 1 \in 0 .. k - 1
    OBVIOUS
  <2>3. last \in V
    BY <2>2
  <2>4. g[k] = last /\ \A i \in 0 .. k - 1 : g[i] = f[i]
    OBVIOUS
  <2>5. g \in [0 .. k -> V]
    <3> HIDE DEF last
    <3>1. \A i \in 0 .. k : i # k => i \in 0 .. k - 1
      OBVIOUS
    <3> QED
      BY <2>3, <3>1
  <2>6. UpTo(g, k, a, step)
    <3>1. g[0] = a
      BY <2>1, <2>4 DEF UpTo
    <3>2. ASSUME NEW i \in 1 .. k PROVE g[i] = step[<<i, g[i - 1]>>]
      <4>1. i - 1 \in 0 .. k - 1 /\ g[i - 1] = f[i - 1]
        BY <2>4
      <4>2. CASE i = k
        BY <2>4, <4>1, <4>2
      <4>3. CASE i # k
        <5>1. i \in 1 .. k - 1 /\ i \in 0 .. k - 1
          BY <4>3
        <5>2. g[i] = f[i] /\ f[i] = step[<<i, f[i - 1]>>]
          BY <2>1, <2>4, <5>1 DEF UpTo
        <5> QED
          BY <4>1, <5>2
      <4> QED
        BY <4>2, <4>3
    <3> QED
      BY <3>1, <3>2 DEF UpTo
  <2> HIDE DEF g
  <2>7. k \in 0 .. n
    OBVIOUS
  <2> QED
    BY <2>5, <2>6, <2>7
<1> HIDE DEF defined
<1>3. n \in defined
  BY <1>1, <1>2, Steps
<1> QED
  BY <1>3 DEF defined

-----------------------------------------------------------------------------
(* What the state is made of.                                                 *)

Bytes == Chars \cup {NL}
Docs == Seq(Seq(Chars)) \ {<<>>}
Modes == {"Editing", "SavePrompt", "OpenPrompt"}
Places == (Nat \ {0}) \X Nat
Selections == {None} \cup [selected : {TRUE}, start : Places, end : Places]
Snaps == {snap \in [lines : Docs, row : Nat \ {0}, col : Nat] : InText(snap)}

Editors ==
  [lines : Docs, row : Nat \ {0}, col : Nat, scroll_row : Nat \ {0}, scroll_col : Nat,
   selection : Selections, clipboard : Seq(Bytes), mode : Modes,
   filename : Names \cup {Untitled}, modified : BOOLEAN,
   undo_stack : Seq(Snaps), redo_stack : Seq(Snaps)]

Bounded(s) == Len(s.undo_stack) + Len(s.redo_stack) <= MAX_UNDO

\* A state a method may be called in, and what CursorVisible adds.
Sound(s) == s \in Editors /\ InText(s) /\ Bounded(s)
Visible(s) ==
  /\ s.row \in s.scroll_row .. s.scroll_row + VISIBLE_ROWS - 1
  /\ s.col \in s.scroll_col .. s.scroll_col + VISIBLE_COLS - 1

\* An edit: the text is marked as changed or is the same, and the history is that
\* of one push_undo.
Marked(s, t) ==
  /\ t.filename = s.filename
  /\ t.modified \/ (t.modified = s.modified /\ t.lines = s.lines)
Pushed(s, t) == t.undo_stack = PushUndo(s).undo_stack

-----------------------------------------------------------------------------
(* Sequences.                                                                 *)

LEMMA Piece ==
  ASSUME NEW S, NEW q \in Seq(S), NEW m \in Nat \ {0}, NEW n \in Int, n <= Len(q)
  PROVE  /\ SubSeq(q, m, n) \in Seq(S)
         /\ Len(SubSeq(q, m, n)) = IF m <= n THEN n - m + 1 ELSE 0
         /\ \A i \in 1 .. n - m + 1 : SubSeq(q, m, n)[i] = q[m + i - 1]
<1>1. \A i \in m .. n : q[i] \in S
  OBVIOUS
<1> QED
  BY <1>1, SubSeqProperties

LEMMA FrontOf ==
  ASSUME NEW S, NEW q \in Seq(S), q # <<>>
  PROVE  /\ Front(q) \in Seq(S) /\ Len(Front(q)) = Len(q) - 1
         /\ \A i \in 1 .. Len(q) - 1 : Front(q)[i] = q[i]
         /\ Len(q) \in Nat \ {0} /\ Last(q) \in S /\ Last(q) = q[Len(q)]
<1> DEFINE n == Len(q) - 1
<1>1. n \in Nat /\ n = Len(q) - 1 /\ \A i \in 1 .. n : q[i] \in S
  OBVIOUS
<1>2. Len(q) \in Nat \ {0} /\ Last(q) \in S /\ Last(q) = q[Len(q)]
  BY DEF Last
<1> HIDE DEF n
<1>3. /\ SubSeq(q, 1, n) \in Seq(S)
      /\ Len(SubSeq(q, 1, n)) = IF 1 <= n THEN n - 1 + 1 ELSE 0
      /\ \A i \in 1 .. n - 1 + 1 : SubSeq(q, 1, n)[i] = q[1 + i - 1]
  BY <1>1, SubSeqProperties
<1>4. \A i \in 1 .. n : i \in 1 .. n - 1 + 1 /\ 1 + i - 1 = i
  BY <1>1
<1> QED
  BY <1>1, <1>2, <1>3, <1>4 DEF Front

LEMMA RowsOf ==
  ASSUME NEW lines \in Docs
  PROVE  /\ lines \in Seq(Seq(Chars)) /\ Len(lines) \in Nat \ {0}
         /\ \A r \in 1 .. Len(lines) : lines[r] \in Seq(Chars) /\ Len(lines[r]) \in Nat
BY DEF Docs

LEMMA SnapsAre ==
  ASSUME NEW snap \in Snaps
  PROVE  /\ snap.lines \in Docs /\ snap.row \in Nat \ {0} /\ snap.col \in Nat /\ InText(snap)
BY DEF Snaps

-----------------------------------------------------------------------------
(* Cursor and scrolling.                                                      *)

LEMMA LineLenIs ==
  ASSUME NEW s, s.lines \in Docs, NEW row \in Nat \ {0}
  PROVE  LineLen(s, row) \in Nat
BY RowsOf DEF LineLen

LEMMA Clamped ==
  ASSUME NEW s \in Editors
  PROVE  LET t == ClampCursor(s)
         IN  /\ t \in Editors /\ InText(t)
             /\ t = [s EXCEPT !.row = t.row, !.col = t.col]
<1> DEFINE row == Smaller(s.row, Len(s.lines))
           col == Smaller(s.col, LineLen(s, row))
<1>0. s.lines \in Docs /\ s.row \in Nat \ {0} /\ s.col \in Nat
  BY DEF Editors
<1>1. Len(s.lines) \in Nat \ {0}
  BY <1>0, RowsOf
<1>2. row \in 1 .. Len(s.lines) /\ row \in Nat \ {0}
  BY <1>0, <1>1 DEF Smaller
<1> HIDE DEF row
<1>3. LineLen(s, row) = Len(s.lines[row]) /\ LineLen(s, row) \in Nat
  BY <1>0, <1>1, <1>2, RowsOf DEF LineLen
<1>4. col \in Nat /\ col \in 0 .. Len(s.lines[row])
  BY <1>0, <1>3 DEF Smaller
<1>5. ClampCursor(s) = [s EXCEPT !.row = row, !.col = col]
  BY DEF ClampCursor, row, Smaller
<1> HIDE DEF col
<1>6. /\ [s EXCEPT !.row = row, !.col = col] \in Editors
      /\ [s EXCEPT !.row = row, !.col = col].lines = s.lines
      /\ [s EXCEPT !.row = row, !.col = col].row = row
      /\ [s EXCEPT !.row = row, !.col = col].col = col
  BY <1>2, <1>4 DEF Editors
<1> QED
  BY <1>2, <1>4, <1>5, <1>6 DEF InText

LEMMA ScrolledShows ==
  ASSUME NEW first \in Nat, NEW at \in Nat, NEW size \in Nat \ {0}
  PROVE  /\ Scrolled(first, at, size) \in Nat
         /\ first # 0 /\ at # 0 => Scrolled(first, at, size) # 0
         /\ at \in Scrolled(first, at, size) .. Scrolled(first, at, size) + size - 1
BY DEF Scrolled

LEMMA Ensured ==
  ASSUME NEW s \in Editors
  PROVE  LET t == EnsureVisible(s)
         IN  /\ t \in Editors /\ Visible(t)
             /\ t = [s EXCEPT !.scroll_row = t.scroll_row, !.scroll_col = t.scroll_col]
             /\ Sound(s) => Sound(t)
<1> DEFINE r == Scrolled(s.scroll_row, s.row, VISIBLE_ROWS)
           c == Scrolled(s.scroll_col, s.col, VISIBLE_COLS)
<1>1. /\ s.row \in Nat /\ s.row # 0 /\ s.col \in Nat
      /\ s.scroll_row \in Nat /\ s.scroll_row # 0 /\ s.scroll_col \in Nat
  BY DEF Editors
<1>2. VISIBLE_ROWS \in Nat \ {0} /\ VISIBLE_COLS \in Nat \ {0}
  BY NotepadAssumption
<1>3. r \in Nat \ {0} /\ s.row \in r .. r + VISIBLE_ROWS - 1
  BY <1>1, <1>2, ScrolledShows
<1>4. c \in Nat /\ s.col \in c .. c + VISIBLE_COLS - 1
  BY <1>1, <1>2, ScrolledShows
<1>5. EnsureVisible(s) = [s EXCEPT !.scroll_row = r, !.scroll_col = c]
  BY DEF EnsureVisible
<1> HIDE DEF r, c
<1> DEFINE t == [s EXCEPT !.scroll_row = r, !.scroll_col = c]
<1>6. /\ t \in Editors
      /\ t.scroll_row = r /\ t.scroll_col = c /\ t.row = s.row /\ t.col = s.col
      /\ t.lines = s.lines /\ t.undo_stack = s.undo_stack /\ t.redo_stack = s.redo_stack
  BY <1>3, <1>4 DEF Editors
<1> HIDE DEF t
<1>7. Visible(t) /\ (Sound(s) => Sound(t))
  BY <1>3, <1>4, <1>6 DEF Visible, Sound, InText, Bounded
<1> QED
  BY <1>5, <1>6, <1>7 DEF t

-----------------------------------------------------------------------------
(* Undo and redo.                                                             *)

LEMMA SnapshotIs ==
  ASSUME NEW s, Sound(s)
  PROVE  Snapshot(s) \in Snaps /\ Snapshot(s).lines = s.lines
BY DEF Snapshot, Sound, Editors, Snaps, InText

LEMMA PushUndoSound ==
  ASSUME NEW s, Sound(s)
  PROVE  LET t == PushUndo(s)
         IN  /\ Sound(t)
             /\ t = [s EXCEPT !.undo_stack = t.undo_stack, !.redo_stack = <<>>]
             /\ t.undo_stack # <<>> /\ Last(t.undo_stack) = Snapshot(s)
             /\ Len(t.undo_stack) = IF Len(s.undo_stack) >= MAX_UNDO THEN MAX_UNDO
                                                                     ELSE Len(s.undo_stack) + 1
             /\ \A i \in 1 .. Len(t.undo_stack) - 1 :
                  t.undo_stack[i] = s.undo_stack[IF Len(s.undo_stack) >= MAX_UNDO THEN i + 1 ELSE i]
<1> DEFINE old == s.undo_stack
           kept == IF Len(old) >= MAX_UNDO THEN Tail(old) ELSE old
           stack == Append(kept, Snapshot(s))
           t == [s EXCEPT !.undo_stack = stack, !.redo_stack = <<>>]
<1>1. /\ s \in Editors /\ old \in Seq(Snaps) /\ s.redo_stack \in Seq(Snaps)
      /\ Len(old) + Len(s.redo_stack) <= MAX_UNDO
      /\ MAX_UNDO \in Nat \ {0}
  BY NotepadAssumption DEF Sound, Editors, Bounded
<1>2. Len(old) \in Nat /\ Len(s.redo_stack) \in Nat /\ Len(old) <= MAX_UNDO
  <2>1. Len(old) \in Nat /\ Len(s.redo_stack) \in Nat
    BY <1>1
  <2>2. \A i, j, n \in Nat : i + j <= n => i <= n
    OBVIOUS
  <2> HIDE DEF old
  <2> QED
    BY <1>1, <2>1, <2>2
<1>3. /\ kept \in Seq(Snaps)
      /\ Len(kept) = IF Len(old) >= MAX_UNDO THEN MAX_UNDO - 1 ELSE Len(old)
      /\ \A i \in 1 .. Len(kept) : kept[i] = old[IF Len(old) >= MAX_UNDO THEN i + 1 ELSE i]
  <2>1. CASE Len(old) >= MAX_UNDO
    <3>1. old # <<>>
      BY <1>1, <1>2, <2>1
    <3>2. kept = Tail(old) /\ Len(old) = MAX_UNDO
      BY <1>1, <1>2, <2>1
    <3> HIDE DEF kept
    <3> QED
      BY <1>1, <2>1, <3>1, <3>2, HeadTailProperties
  <2>2. CASE ~(Len(old) >= MAX_UNDO)
    BY <1>1, <2>2
  <2> QED
    BY <2>1, <2>2
<1> HIDE DEF kept
<1>4. /\ stack \in Seq(Snaps) /\ stack # <<>> /\ Len(stack) = Len(kept) + 1
      /\ \A i \in 1 .. Len(kept) : stack[i] = kept[i]
      /\ stack[Len(kept) + 1] = Snapshot(s)
  BY <1>3, SnapshotIs, AppendProperties
<1>5. Last(stack) = Snapshot(s) /\ Len(stack) <= MAX_UNDO
  BY <1>1, <1>2, <1>3, <1>4 DEF Last
<1>6. PushUndo(s) = t
  BY DEF PushUndo, t, stack, kept, old
<1> HIDE DEF stack
<1>7. <<>> \in Seq(Snaps) /\ Len(<<>>) = 0
  OBVIOUS
<1>8. /\ t \in Editors /\ t.lines = s.lines /\ t.row = s.row /\ t.col = s.col
      /\ t.undo_stack = stack /\ t.redo_stack = <<>>
  BY <1>1, <1>4, <1>7 DEF Editors
<1>9. t = [s EXCEPT !.undo_stack = t.undo_stack, !.redo_stack = <<>>]
  BY <1>8
<1> HIDE DEF t
<1>10. Sound(t)
  BY <1>4, <1>5, <1>7, <1>8 DEF Sound, InText, Bounded
<1>11. \A i \in 1 .. Len(stack) - 1 : stack[i] = old[IF Len(old) >= MAX_UNDO THEN i + 1 ELSE i]
  <2>1. Len(stack) - 1 = Len(kept)
    BY <1>3, <1>4
  <2> QED
    BY <1>3, <1>4, <2>1
<1> QED
  BY <1>1, <1>2, <1>3, <1>4, <1>5, <1>6, <1>8, <1>9, <1>10, <1>11

LEMMA RestoredSound ==
  ASSUME NEW s \in Editors, Bounded(s), NEW snap \in Snaps
  PROVE  LET t == Restored(s, snap)
         IN  /\ Sound(t) /\ Visible(t) /\ t.lines = snap.lines /\ t.modified = TRUE
             /\ t.filename = s.filename /\ t.mode = s.mode
             /\ t.undo_stack = s.undo_stack /\ t.redo_stack = s.redo_stack
<1> DEFINE u == [s EXCEPT !.lines = snap.lines, !.row = snap.row, !.col = snap.col, !.modified = TRUE]
           v == ClampCursor(u)
           t == EnsureVisible(v)
<1>1. /\ u \in Editors /\ u.lines = snap.lines /\ u.modified = TRUE
      /\ u.filename = s.filename /\ u.mode = s.mode
      /\ u.undo_stack = s.undo_stack /\ u.redo_stack = s.redo_stack
  BY SnapsAre DEF Editors
<1>2. Restored(s, snap) = t
  BY DEF Restored
<1> HIDE DEF u
<1>3. v \in Editors /\ InText(v) /\ v = [u EXCEPT !.row = v.row, !.col = v.col]
  BY <1>1, Clamped
<1> HIDE DEF v
<1>4. /\ v.lines = u.lines /\ v.modified = u.modified /\ v.filename = u.filename /\ v.mode = u.mode
      /\ v.undo_stack = u.undo_stack /\ v.redo_stack = u.redo_stack
  BY <1>1, <1>3 DEF Editors
<1>5. Sound(v)
  BY <1>1, <1>3, <1>4 DEF Sound, Bounded
<1>6. /\ t \in Editors /\ Visible(t) /\ Sound(t)
      /\ t = [v EXCEPT !.scroll_row = t.scroll_row, !.scroll_col = t.scroll_col]
  BY <1>3, <1>5, Ensured
<1> HIDE DEF t
<1>7. /\ t.lines = v.lines /\ t.modified = v.modified /\ t.filename = v.filename /\ t.mode = v.mode
      /\ t.undo_stack = v.undo_stack /\ t.redo_stack = v.redo_stack
  BY <1>3, <1>6 DEF Editors
<1> QED
  BY <1>1, <1>2, <1>4, <1>6, <1>7

\* One stack loses its last entry, the other gains one for the text there is.
LEMMA Exchange ==
  ASSUME NEW s, Sound(s), NEW from \in Seq(Snaps), NEW to \in Seq(Snaps), from # <<>>
  PROVE  /\ Front(from) \in Seq(Snaps) /\ Append(to, Snapshot(s)) \in Seq(Snaps)
         /\ Last(from) \in Snaps
         /\ Len(Front(from)) + Len(Append(to, Snapshot(s))) = Len(from) + Len(to)
<1>1. /\ Front(from) \in Seq(Snaps) /\ Len(Front(from)) = Len(from) - 1
      /\ Len(from) \in Nat /\ Last(from) \in Snaps
  BY FrontOf
<1>2. Append(to, Snapshot(s)) \in Seq(Snaps) /\ Len(Append(to, Snapshot(s))) = Len(to) + 1
  BY SnapshotIs, AppendProperties
<1>3. Len(to) \in Nat
  OBVIOUS
<1> QED
  BY <1>1, <1>2, <1>3

LEMMA UndoSound ==
  ASSUME NEW s, Sound(s), Visible(s)
  PROVE  LET t == Undo(s)
         IN  /\ Sound(t) /\ Visible(t) /\ Marked(s, t)
             /\ \/ t = s
                \/ /\ s.undo_stack # <<>> /\ t.lines = Last(s.undo_stack).lines
                   /\ t.undo_stack = Front(s.undo_stack)
                   /\ t.redo_stack = Append(s.redo_stack, Snapshot(s))
<1>0. s \in Editors /\ s.undo_stack \in Seq(Snaps) /\ s.redo_stack \in Seq(Snaps) /\ Bounded(s)
  BY DEF Sound, Editors
<1>1. CASE s.undo_stack = <<>>
  BY <1>1 DEF Undo, Marked
<1>2. CASE s.undo_stack # <<>>
  <2> DEFINE undo == Front(s.undo_stack)
             redo == Append(s.redo_stack, Snapshot(s))
             snap == Last(s.undo_stack)
             u == [s EXCEPT !.undo_stack = undo, !.redo_stack = redo]
  <2>1. undo \in Seq(Snaps) /\ redo \in Seq(Snaps) /\ snap \in Snaps
        /\ Len(undo) + Len(redo) = Len(s.undo_stack) + Len(s.redo_stack)
    BY <1>0, <1>2, Exchange
  <2>2. Undo(s) = Restored(u, snap)
    BY <1>2 DEF Undo
  <2> HIDE DEF undo, redo, snap
  <2>3. /\ u \in Editors /\ u.filename = s.filename /\ u.mode = s.mode
        /\ u.undo_stack = undo /\ u.redo_stack = redo
    BY <1>0, <2>1 DEF Editors
  <2> HIDE DEF u
  <2>4. Bounded(u)
    BY <1>0, <2>1, <2>3 DEF Bounded
  <2> DEFINE t == Restored(u, snap)
  <2>5. /\ Sound(t) /\ Visible(t) /\ t.lines = snap.lines /\ t.modified = TRUE
        /\ t.filename = u.filename /\ t.mode = u.mode
        /\ t.undo_stack = u.undo_stack /\ t.redo_stack = u.redo_stack
    BY <2>1, <2>3, <2>4, RestoredSound
  <2> HIDE DEF t
  <2> QED
    BY <1>2, <2>2, <2>3, <2>5 DEF Marked, undo, redo, snap, t
<1> QED
  BY <1>1, <1>2

LEMMA RedoSound ==
  ASSUME NEW s, Sound(s), Visible(s)
  PROVE  LET t == Redo(s)
         IN  /\ Sound(t) /\ Visible(t) /\ Marked(s, t)
             /\ \/ t = s
                \/ /\ s.redo_stack # <<>> /\ t.lines = Last(s.redo_stack).lines
                   /\ t.redo_stack = Front(s.redo_stack)
                   /\ t.undo_stack = Append(s.undo_stack, Snapshot(s))
<1>0. s \in Editors /\ s.undo_stack \in Seq(Snaps) /\ s.redo_stack \in Seq(Snaps) /\ Bounded(s)
  BY DEF Sound, Editors
<1>1. CASE s.redo_stack = <<>>
  BY <1>1 DEF Redo, Marked
<1>2. CASE s.redo_stack # <<>>
  <2> DEFINE redo == Front(s.redo_stack)
             undo == Append(s.undo_stack, Snapshot(s))
             snap == Last(s.redo_stack)
             u == [s EXCEPT !.redo_stack = redo, !.undo_stack = undo]
  <2>1. undo \in Seq(Snaps) /\ redo \in Seq(Snaps) /\ snap \in Snaps
        /\ Len(redo) + Len(undo) = Len(s.redo_stack) + Len(s.undo_stack)
    BY <1>0, <1>2, Exchange
  <2>2. Redo(s) = Restored(u, snap)
    BY <1>2 DEF Redo
  <2>6. Len(redo) \in Nat /\ Len(undo) \in Nat /\ Len(s.redo_stack) \in Nat /\ Len(s.undo_stack) \in Nat
    BY <1>0, <2>1
  <2> HIDE DEF undo, redo, snap
  <2>3. /\ u \in Editors /\ u.filename = s.filename /\ u.mode = s.mode
        /\ u.undo_stack = undo /\ u.redo_stack = redo
    BY <1>0, <2>1 DEF Editors
  <2> HIDE DEF u
  <2>4. Bounded(u)
    <3>1. \A i, j \in Nat : i + j = j + i
      OBVIOUS
    <3>2. Len(undo) + Len(redo) = Len(s.undo_stack) + Len(s.redo_stack)
      BY <2>1, <2>6, <3>1
    <3> QED
      BY <1>0, <2>3, <3>2 DEF Bounded
  <2> DEFINE t == Restored(u, snap)
  <2>5. /\ Sound(t) /\ Visible(t) /\ t.lines = snap.lines /\ t.modified = TRUE
        /\ t.filename = u.filename /\ t.mode = u.mode
        /\ t.undo_stack = u.undo_stack /\ t.redo_stack = u.redo_stack
    BY <2>1, <2>3, <2>4, RestoredSound
  <2> HIDE DEF t
  <2> QED
    BY <1>2, <2>2, <2>3, <2>5 DEF Marked, undo, redo, snap, t
<1> QED
  BY <1>1, <1>2

-----------------------------------------------------------------------------
(* The history.                                                               *)

LEMMA TextsOf ==
  ASSUME NEW q \in Seq(Snaps)
  PROVE  /\ Texts(q) \in Seq(Docs) /\ Len(Texts(q)) = Len(q) /\ Len(q) \in Nat
         /\ \A i \in 1 .. Len(q) : Texts(q)[i] = q[i].lines
<1>1. Len(q) \in Nat /\ DOMAIN q = 1 .. Len(q) /\ \A i \in 1 .. Len(q) : q[i] \in Snaps
  OBVIOUS
<1>2. \A i \in 1 .. Len(q) : q[i].lines \in Docs
  BY <1>1, SnapsAre
<1>3. Texts(q) = [i \in 1 .. Len(q) |-> q[i].lines]
  BY <1>1 DEF Texts
<1> QED
  BY <1>1, <1>2, <1>3

LEMMA TextsAppend ==
  ASSUME NEW q \in Seq(Snaps), NEW x \in Snaps
  PROVE  Texts(Append(q, x)) = Texts(q) \o <<x.lines>>
<1> DEFINE long == Append(q, x)
           sum == Texts(q) \o <<x.lines>>
<1>1. /\ long \in Seq(Snaps) /\ Len(long) = Len(q) + 1 /\ long[Len(q) + 1] = x
      /\ \A i \in 1 .. Len(q) : long[i] = q[i]
  BY AppendProperties
<1>2. x.lines \in Docs
  BY SnapsAre
<1>3. /\ Texts(q) \in Seq(Docs) /\ Len(Texts(q)) = Len(q) /\ Len(q) \in Nat
      /\ \A i \in 1 .. Len(q) : Texts(q)[i] = q[i].lines
  BY TextsOf
<1>4. <<x.lines>> \in Seq(Docs) /\ Len(<<x.lines>>) = 1 /\ <<x.lines>>[1] = x.lines
  BY <1>2
<1>5. /\ sum \in Seq(Docs) /\ Len(sum) = Len(q) + 1
      /\ \A i \in 1 .. Len(q) + 1 : sum[i] = IF i <= Len(q) THEN Texts(q)[i] ELSE <<x.lines>>[i - Len(q)]
  BY <1>3, <1>4, ConcatProperties
<1> HIDE DEF long, sum
<1>6. /\ Texts(long) \in Seq(Docs) /\ Len(Texts(long)) = Len(long)
      /\ \A i \in 1 .. Len(long) : Texts(long)[i] = long[i].lines
  BY <1>1, TextsOf
<1>7. \A i \in 1 .. Len(q) + 1 : Texts(long)[i] = sum[i]
  <2> TAKE i \in 1 .. Len(q) + 1
  <2>1. CASE i <= Len(q)
    <3>1. i \in 1 .. Len(q) /\ i \in 1 .. Len(long)
      BY <1>1, <1>3, <2>1
    <3>2. Texts(long)[i] = q[i].lines
      BY <1>1, <1>6, <3>1
    <3>3. sum[i] = q[i].lines
      BY <1>3, <1>5, <2>1, <3>1
    <3> QED
      BY <3>2, <3>3
  <2>2. CASE ~(i <= Len(q))
    <3>1. i = Len(q) + 1 /\ i - Len(q) = 1
      BY <1>3, <2>2
    <3> QED
      BY <1>1, <1>4, <1>5, <1>6, <2>2, <3>1
  <2> QED
    BY <2>1, <2>2
<1>8. Texts(long) = sum
  BY <1>1, <1>5, <1>6, <1>7, SeqEqual
<1> QED
  BY <1>8 DEF long, sum

LEMMA FrontAppend ==
  ASSUME NEW S, NEW q \in Seq(S), q # <<>>
  PROVE  q = Append(Front(q), Last(q)) /\ Front(q) \in Seq(S) /\ Last(q) \in S
<1>1. /\ Front(q) \in Seq(S) /\ Len(Front(q)) = Len(q) - 1
      /\ \A i \in 1 .. Len(q) - 1 : Front(q)[i] = q[i]
      /\ Len(q) \in Nat \ {0} /\ Last(q) \in S /\ Last(q) = q[Len(q)]
  BY FrontOf
<1> DEFINE long == Append(Front(q), Last(q))
<1>2. /\ long \in Seq(S) /\ Len(long) = Len(q) /\ long[Len(q)] = Last(q)
      /\ \A i \in 1 .. Len(q) - 1 : long[i] = Front(q)[i]
  BY <1>1, AppendProperties
<1> HIDE DEF long
<1>3. \A i \in 1 .. Len(q) : q[i] = long[i]
  BY <1>1, <1>2
<1>4. q = long
  BY <1>2, <1>3, SeqEqual
<1> QED
  BY <1>1, <1>4 DEF long

LEMMA ReverseOf ==
  ASSUME NEW S, NEW q \in Seq(S)
  PROVE  /\ Reverse(q) \in Seq(S) /\ Len(Reverse(q)) = Len(q) /\ Len(q) \in Nat
         /\ \A i \in 1 .. Len(q) : Reverse(q)[i] = q[Len(q) - i + 1]
<1>1. Len(q) \in Nat /\ \A i \in 1 .. Len(q) : Len(q) - i + 1 \in 1 .. Len(q)
  OBVIOUS
<1>2. \A i \in 1 .. Len(q) : q[Len(q) - i + 1] \in S
  BY <1>1, ElementOfSeq
<1> QED
  BY <1>1, <1>2 DEF Reverse

LEMMA ReverseAppend ==
  ASSUME NEW S, NEW q \in Seq(S), NEW x \in S
  PROVE  Reverse(q \o <<x>>) = <<x>> \o Reverse(q)
<1> DEFINE long == q \o <<x>>
           sum == <<x>> \o Reverse(q)
           n == Len(q)
<1>1. <<x>> \in Seq(S) /\ Len(<<x>>) = 1 /\ <<x>>[1] = x
  OBVIOUS
<1>2. /\ Reverse(q) \in Seq(S) /\ Len(Reverse(q)) = n /\ n \in Nat
      /\ \A i \in 1 .. n : Reverse(q)[i] = q[n - i + 1]
  BY ReverseOf
<1>3. /\ long \in Seq(S) /\ Len(long) = n + 1
      /\ \A i \in 1 .. n + 1 : long[i] = IF i <= n THEN q[i] ELSE <<x>>[i - n]
  BY <1>1, ConcatProperties
<1>4. /\ sum \in Seq(S) /\ Len(sum) = 1 + n
      /\ \A i \in 1 .. 1 + n : sum[i] = IF i <= 1 THEN <<x>>[i] ELSE Reverse(q)[i - 1]
  BY <1>1, <1>2, ConcatProperties
<1> HIDE DEF long, sum, n
<1>5. /\ Reverse(long) \in Seq(S) /\ Len(Reverse(long)) = n + 1
      /\ \A i \in 1 .. n + 1 : Reverse(long)[i] = long[n + 1 - i + 1]
  <2>1. /\ Reverse(long) \in Seq(S) /\ Len(Reverse(long)) = Len(long)
        /\ \A i \in 1 .. Len(long) : Reverse(long)[i] = long[Len(long) - i + 1]
    BY <1>3, ReverseOf
  <2>2. Len(long) = n + 1
    BY <1>3
  <2>3. \A i \in 1 .. n + 1 : i \in 1 .. Len(long) /\ Len(long) - i + 1 = n + 1 - i + 1
    BY <1>2, <2>2
  <2> QED
    BY <1>2, <2>1, <2>2, <2>3
<1>6. \A i \in 1 .. n + 1 : Reverse(long)[i] = sum[i]
  <2> TAKE i \in 1 .. n + 1
  <2>1. CASE i = 1
    <3>1. n + 1 - i + 1 = n + 1 /\ n + 1 \in 1 .. n + 1 /\ ~(n + 1 <= n) /\ n + 1 - n = 1
          /\ i \in 1 .. 1 + n /\ i <= 1
      BY <1>2, <2>1
    <3>2. sum[i] = x
      BY <1>1, <1>4, <2>1, <3>1
    <3>3. Reverse(long)[i] = long[n + 1]
      BY <1>5, <3>1
    <3>4. long[n + 1] = <<x>>[n + 1 - n]
      <4>1. \A k \in 1 .. n + 1 : ~(k <= n) => long[k] = <<x>>[k - n]
        BY <1>3
      <4> QED
        BY <1>2, <3>1, <4>1
    <3> QED
      BY <1>1, <3>1, <3>2, <3>3, <3>4
  <2>2. CASE i # 1
    <3>1. /\ i - 1 \in 1 .. n /\ i \in 1 .. 1 + n /\ ~(i <= 1)
          /\ n + 1 - i + 1 \in 1 .. n + 1 /\ n + 1 - i + 1 <= n
          /\ n - (i - 1) + 1 = n + 1 - i + 1
      BY <1>2, <2>2
    <3>2. sum[i] = q[n - (i - 1) + 1]
      BY <1>2, <1>4, <3>1
    <3>3. Reverse(long)[i] = q[n + 1 - i + 1]
      BY <1>3, <1>5, <3>1
    <3> QED
      BY <3>1, <3>2, <3>3
  <2> QED
    BY <2>1, <2>2
<1>7. Len(sum) = n + 1
  BY <1>2, <1>4
<1>8. Reverse(long) = sum
  BY <1>4, <1>5, <1>6, <1>7, SeqEqual
<1> QED
  BY <1>8 DEF long, sum

\* Moving the text on the screen to one stack, and the top of the other to the screen.
LEMMA HistoryShift ==
  ASSUME NEW undo \in Seq(Snaps), NEW redo \in Seq(Snaps), NEW x \in Snaps, NEW y \in Snaps
  PROVE  (Texts(Append(undo, x)) \o <<y.lines>>) \o Reverse(Texts(redo))
           = (Texts(undo) \o <<x.lines>>) \o Reverse(Texts(Append(redo, y)))
<1> DEFINE a == Texts(Append(undo, x))
           b == Reverse(Texts(redo))
           mid == <<y.lines>>
<1>1. x.lines \in Docs /\ y.lines \in Docs
  BY SnapsAre
<1>2. a = Texts(undo) \o <<x.lines>> /\ a \in Seq(Docs)
  <2>1. Append(undo, x) \in Seq(Snaps)
    OBVIOUS
  <2> QED
    BY <2>1, TextsAppend, TextsOf
<1>3. Texts(redo) \in Seq(Docs) /\ b \in Seq(Docs)
  BY TextsOf, ReverseOf
<1>4. Reverse(Texts(Append(redo, y))) = mid \o b
  BY <1>1, <1>3, TextsAppend, ReverseAppend
<1>5. a \in Seq(Docs) /\ mid \in Seq(Docs) /\ b \in Seq(Docs)
  BY <1>1, <1>2, <1>3
<1> HIDE DEF a, b, mid
<1>6. (a \o mid) \o b = a \o (mid \o b)
  BY <1>5, ConcatAssociative, SMTT(40)
<1> QED
  BY <1>2, <1>4, <1>6 DEF a, b, mid

LEMMA UndoHistory ==
  ASSUME NEW s, Sound(s), Visible(s)
  PROVE  History(Undo(s)) = History(s)
<1> DEFINE t == Undo(s)
           x == Last(s.undo_stack)
           front == Front(s.undo_stack)
<1>0. s.undo_stack \in Seq(Snaps) /\ s.redo_stack \in Seq(Snaps)
  BY DEF Sound, Editors
<1>1. \/ t = s
      \/ /\ s.undo_stack # <<>> /\ t.lines = x.lines /\ t.undo_stack = front
         /\ t.redo_stack = Append(s.redo_stack, Snapshot(s))
  BY UndoSound
<1> HIDE DEF t
<1>2. CASE s.undo_stack # <<>> /\ t.lines = x.lines /\ t.undo_stack = front
           /\ t.redo_stack = Append(s.redo_stack, Snapshot(s))
  <2>1. s.undo_stack = Append(front, x) /\ front \in Seq(Snaps) /\ x \in Snaps
    BY <1>0, <1>2, FrontAppend
  <2>2. Snapshot(s) \in Snaps /\ Snapshot(s).lines = s.lines
    BY SnapshotIs
  <2> HIDE DEF x, front
  <2>3. (Texts(Append(front, x)) \o <<Snapshot(s).lines>>) \o Reverse(Texts(s.redo_stack))
          = (Texts(front) \o <<x.lines>>) \o Reverse(Texts(Append(s.redo_stack, Snapshot(s))))
    BY <1>0, <2>1, <2>2, HistoryShift, ZenonT(40)
  <2> QED
    BY <1>2, <2>1, <2>2, <2>3, Zenon DEF History, t
<1> QED
  BY <1>1, <1>2 DEF t

LEMMA RedoHistory ==
  ASSUME NEW s, Sound(s), Visible(s)
  PROVE  History(Redo(s)) = History(s)
<1> DEFINE t == Redo(s)
           x == Last(s.redo_stack)
           front == Front(s.redo_stack)
<1>0. s.undo_stack \in Seq(Snaps) /\ s.redo_stack \in Seq(Snaps)
  BY DEF Sound, Editors
<1>1. \/ t = s
      \/ /\ s.redo_stack # <<>> /\ t.lines = x.lines /\ t.redo_stack = front
         /\ t.undo_stack = Append(s.undo_stack, Snapshot(s))
  BY RedoSound
<1> HIDE DEF t
<1>2. CASE s.redo_stack # <<>> /\ t.lines = x.lines /\ t.redo_stack = front
           /\ t.undo_stack = Append(s.undo_stack, Snapshot(s))
  <2>1. s.redo_stack = Append(front, x) /\ front \in Seq(Snaps) /\ x \in Snaps
    BY <1>0, <1>2, FrontAppend
  <2>2. Snapshot(s) \in Snaps /\ Snapshot(s).lines = s.lines
    BY SnapshotIs
  <2> HIDE DEF x, front
  <2>3. (Texts(Append(s.undo_stack, Snapshot(s))) \o <<x.lines>>) \o Reverse(Texts(front))
          = (Texts(s.undo_stack) \o <<Snapshot(s).lines>>) \o Reverse(Texts(Append(front, x)))
    BY <1>0, <2>1, <2>2, HistoryShift, ZenonT(40)
  <2> QED
    BY <1>2, <2>1, <2>2, <2>3, Zenon DEF History, t
<1> QED
  BY <1>1, <1>2 DEF t

-----------------------------------------------------------------------------
(* Selection and clipboard.                                                   *)

LEMMA SelectionIs ==
  ASSUME NEW s, Sound(s)
  PROVE  /\ s.selection \in Selections /\ s.selection.selected \in BOOLEAN
         /\ s.selection.selected => s.selection.start \in Places /\ s.selection.end \in Places
<1>1. s.selection \in Selections
  BY DEF Sound, Editors
<1>2. CASE s.selection = None
  BY <1>1, <1>2 DEF None
<1>3. CASE s.selection \in [selected : {TRUE}, start : Places, end : Places]
  BY <1>1, <1>3
<1> QED
  BY <1>1, <1>2, <1>3 DEF Selections

LEMMA EndsAre ==
  ASSUME NEW s, Sound(s), Selected(s)
  PROVE  /\ From(s) \in Places /\ From(s)[1] \in Nat \ {0} /\ From(s)[2] \in Nat
         /\ To(s) \in Places /\ To(s)[1] \in Nat \ {0} /\ To(s)[2] \in Nat
<1>1. s.selection.start \in Places /\ s.selection.end \in Places
  BY SelectionIs DEF Selected
<1>2. From(s) \in Places /\ To(s) \in Places
  BY <1>1 DEF From, To
<1> QED
  BY <1>2 DEF Places

\* Only the selection changes.
Reselected(s, t) ==
  t.selection \in Selections /\ t = [s EXCEPT !.selection = t.selection]

LEMMA ReselectedSound ==
  ASSUME NEW s, Sound(s), NEW t, Reselected(s, t)
  PROVE  /\ Sound(t) /\ Marked(s, t) /\ t.lines = s.lines
         /\ t.undo_stack = s.undo_stack /\ t.redo_stack = s.redo_stack
         /\ Visible(s) => Visible(t)
<1>1. /\ t \in Editors /\ t.lines = s.lines /\ t.row = s.row /\ t.col = s.col
      /\ t.undo_stack = s.undo_stack /\ t.redo_stack = s.redo_stack
      /\ t.scroll_row = s.scroll_row /\ t.scroll_col = s.scroll_col
      /\ t.filename = s.filename /\ t.mode = s.mode /\ t.modified = s.modified
  BY DEF Reselected, Sound, Editors
<1> QED
  BY <1>1 DEF Sound, InText, Bounded, Marked, Visible

LEMMA PosIs ==
  ASSUME NEW s, Sound(s)
  PROVE  Pos(s) \in Places
BY DEF Pos, Places, Sound, Editors

LEMMA SelectsFrom ==
  ASSUME NEW p \in Places, NEW q \in Places
  PROVE  SelectFrom(p, q) \in Selections
BY DEF SelectFrom, Selections

LEMMA StartSound ==
  ASSUME NEW s, Sound(s), NEW shift \in BOOLEAN
  PROVE  Reselected(s, StartOrExtendSelection(s, shift))
<1> DEFINE new == IF ~shift THEN None
                  ELSE IF s.selection.selected THEN s.selection ELSE SelectFrom(Pos(s), Pos(s))
<1>1. new \in Selections
  BY SelectionIs, PosIs, SelectsFrom DEF Selections
<1>2. StartOrExtendSelection(s, shift) = [s EXCEPT !.selection = new]
  BY DEF StartOrExtendSelection, Sound, Editors
<1> HIDE DEF new
<1>3. [s EXCEPT !.selection = new].selection = new
  BY DEF Sound, Editors
<1> QED
  BY <1>1, <1>2, <1>3 DEF Reselected

LEMMA UpdateSound ==
  ASSUME NEW s, Sound(s)
  PROVE  Reselected(s, UpdateSelectionEnd(s))
<1> DEFINE new == IF s.selection.selected THEN SelectFrom(s.selection.start, Pos(s)) ELSE s.selection
<1>1. new \in Selections
  BY SelectionIs, PosIs, SelectsFrom
<1>2. UpdateSelectionEnd(s) = [s EXCEPT !.selection = new]
  BY DEF UpdateSelectionEnd, Sound, Editors
<1> HIDE DEF new
<1>3. [s EXCEPT !.selection = new].selection = new
  BY DEF Sound, Editors
<1> QED
  BY <1>1, <1>2, <1>3 DEF Reselected

LEMMA SelectAllSound ==
  ASSUME NEW s, Sound(s)
  PROVE  LET t == SelectAll(s)
         IN  Sound(t) /\ Visible(t) /\ t.lines = s.lines /\ Marked(s, t)
<1> DEFINE last == <<Len(s.lines), Len(Last(s.lines))>>
           u == [s EXCEPT !.selection = SelectFrom(<<1, 0>>, last), !.row = last[1], !.col = last[2]]
           t == EnsureVisible(u)
<1>1. s \in Editors /\ s.lines \in Docs /\ Bounded(s)
  BY DEF Sound, Editors
<1>2. Len(s.lines) \in Nat \ {0} /\ Last(s.lines) = s.lines[Len(s.lines)]
      /\ Len(s.lines[Len(s.lines)]) \in Nat
  BY <1>1, RowsOf DEF Last
<1>3. last \in Places /\ <<1, 0>> \in Places
  BY <1>2 DEF Places
<1>4. SelectFrom(<<1, 0>>, last) \in Selections
  BY <1>3, SelectsFrom
<1>5. last[1] = Len(s.lines) /\ last[2] = Len(s.lines[Len(s.lines)])
  BY <1>2
<1>6. SelectAll(s) = t
  BY DEF SelectAll
<1> HIDE DEF last
<1>7. /\ u \in Editors /\ u.lines = s.lines /\ u.row = last[1] /\ u.col = last[2]
      /\ u.undo_stack = s.undo_stack /\ u.redo_stack = s.redo_stack
      /\ u.filename = s.filename /\ u.mode = s.mode /\ u.modified = s.modified
  BY <1>1, <1>2, <1>4, <1>5 DEF Editors
<1> HIDE DEF u
<1>8. Sound(u)
  <2>1. InText(u)
    BY <1>2, <1>5, <1>7 DEF InText
  <2> QED
    BY <1>1, <1>7, <2>1 DEF Sound, Bounded
<1>9. /\ Sound(t) /\ Visible(t)
      /\ t = [u EXCEPT !.scroll_row = t.scroll_row, !.scroll_col = t.scroll_col]
  BY <1>7, <1>8, Ensured
<1> HIDE DEF t
<1>10. t.lines = u.lines /\ t.filename = u.filename /\ t.mode = u.mode /\ t.modified = u.modified
  BY <1>7, <1>9 DEF Editors
<1> QED
  BY <1>6, <1>7, <1>9, <1>10 DEF Marked

LEMMA SelectedPartIs ==
  ASSUME NEW s, Sound(s), Selected(s), NEW r \in 1 .. Len(s.lines)
  PROVE  SelectedPart(s, r) \in Seq(Bytes)
<1> DEFINE line == s.lines[r]
           from == IF r = From(s)[1] THEN Smaller(From(s)[2], Len(line)) ELSE 0
           to == IF r = To(s)[1] THEN Smaller(To(s)[2], Len(line)) ELSE Len(line)
           end == IF r < To(s)[1] THEN <<NL>> ELSE <<>>
<1>1. s.lines \in Docs
  BY DEF Sound, Editors
<1>2. line \in Seq(Chars) /\ Len(line) \in Nat
  BY <1>1, RowsOf
<1>3. From(s)[1] \in Nat /\ From(s)[2] \in Nat /\ To(s)[1] \in Nat /\ To(s)[2] \in Nat
  BY EndsAre
<1> HIDE DEF line
<1>4. from \in Nat /\ to \in Nat /\ to <= Len(line)
  BY <1>2, <1>3 DEF Smaller
<1>5. SelectedPart(s, r) = SubSeq(line, from + 1, to) \o end
  BY DEF SelectedPart, line
<1>6. end \in Seq(Bytes)
  <2>1. <<NL>> \in Seq(Bytes) /\ <<>> \in Seq(Bytes)
    BY DEF Bytes
  <2> QED
    BY <2>1
<1> HIDE DEF from, to, end
<1>7. SubSeq(line, from + 1, to) \in Seq(Chars)
  <2>1. from + 1 \in Nat \ {0} /\ to \in Int
    BY <1>4
  <2> QED
    BY <1>2, <1>4, <2>1, Piece
<1>8. SubSeq(line, from + 1, to) \in Seq(Bytes)
  BY <1>7, SeqMonotonic DEF Bytes
<1> QED
  BY <1>5, <1>6, <1>8, ConcatProperties

LEMMA DeleteSelectionUnselected ==
  ASSUME NEW s, Sound(s), ~Selected(s)
  PROVE  Reselected(s, DeleteSelection(s))
<1>1. DeleteSelection(s) = [s EXCEPT !.selection = None]
  BY DEF DeleteSelection
<1>2. [s EXCEPT !.selection = None].selection = None /\ None \in Selections
  BY DEF Sound, Editors, Selections
<1> QED
  BY <1>1, <1>2 DEF Reselected

LEMMA RemainingIs ==
  ASSUME NEW s, Sound(s), Selected(s), ~DeletePanics(s)
  PROVE  Remaining(s) \in Docs
<1> DEFINE first == From(s)
           last == To(s)
           n == Len(s.lines)
           head == SubSeq(s.lines[first[1]], 1, Smaller(first[2], LineLen(s, first[1])))
           tail == IF last[1] <= n THEN SubSeq(s.lines[last[1]], last[2] + 1, Len(s.lines[last[1]])) ELSE <<>>
           above == SubSeq(s.lines, 1, first[1] - 1)
           below == SubSeq(s.lines, last[1] + 1, n)
<1>1. s.lines \in Docs
  BY DEF Sound, Editors
<1>2. /\ s.lines \in Seq(Seq(Chars)) /\ n \in Nat \ {0}
      /\ \A r \in 1 .. n : s.lines[r] \in Seq(Chars) /\ Len(s.lines[r]) \in Nat
  BY <1>1, RowsOf
<1>3. /\ first[1] \in Nat \ {0} /\ first[2] \in Nat /\ first[1] <= n
      /\ last[1] \in Nat \ {0} /\ last[2] \in Nat
  BY <1>2, EndsAre DEF DeletePanics
<1>4. Remaining(s) = (above \o <<head \o tail>>) \o below
  BY DEF Remaining
<1> HIDE DEF first, last, n
<1>5. head \in Seq(Chars)
  <2>1. LineLen(s, first[1]) = Len(s.lines[first[1]]) /\ s.lines[first[1]] \in Seq(Chars)
        /\ Len(s.lines[first[1]]) \in Nat
    BY <1>2, <1>3 DEF LineLen, n
  <2>2. Smaller(first[2], LineLen(s, first[1])) \in Int
        /\ Smaller(first[2], LineLen(s, first[1])) <= Len(s.lines[first[1]])
    BY <1>3, <2>1 DEF Smaller
  <2>3. 1 \in Nat \ {0}
    OBVIOUS
  <2> QED
    BY <2>1, <2>2, <2>3, Piece
<1>6. tail \in Seq(Chars)
  <2>1. CASE last[1] <= n
    <3>1. s.lines[last[1]] \in Seq(Chars) /\ Len(s.lines[last[1]]) \in Nat /\ last[2] + 1 \in Nat \ {0}
      <4>1. last[1] \in 1 .. n /\ last[2] + 1 \in Nat \ {0}
        <5>1. \A i \in Nat \ {0} : i <= n => i \in 1 .. n
          BY <1>2
        <5>2. \A i \in Nat : i + 1 \in Nat \ {0}
          OBVIOUS
        <5> QED
          BY <1>3, <2>1, <5>1, <5>2, Zenon
      <4> QED
        BY <1>2, <4>1, Zenon
    <3>2. SubSeq(s.lines[last[1]], last[2] + 1, Len(s.lines[last[1]])) \in Seq(Chars)
      BY <3>1, Piece
    <3> QED
      BY <2>1, <3>2
  <2>2. CASE ~(last[1] <= n)
    BY <2>2
  <2> QED
    BY <2>1, <2>2
<1>7. above \in Seq(Seq(Chars)) /\ below \in Seq(Seq(Chars))
  <2>1. /\ 1 \in Nat \ {0} /\ first[1] - 1 \in Int /\ first[1] - 1 <= n
        /\ last[1] + 1 \in Nat \ {0} /\ n \in Int /\ n <= n
    BY <1>2, <1>3
  <2> QED
    BY <1>2, <2>1, Piece DEF n
<1> HIDE DEF head, tail, above, below
<1>8. head \o tail \in Seq(Chars)
  BY <1>5, <1>6
<1>9. <<head \o tail>> \in Seq(Seq(Chars)) /\ Len(<<head \o tail>>) = 1
  BY <1>8
<1>10. /\ above \o <<head \o tail>> \in Seq(Seq(Chars))
       /\ Len(above \o <<head \o tail>>) = Len(above) + 1
  BY <1>7, <1>9, ConcatProperties
<1>11. Remaining(s) \in Seq(Seq(Chars)) /\ Len(Remaining(s)) = Len(above) + 1 + Len(below)
  BY <1>4, <1>7, <1>10, ConcatProperties
<1>12. Len(above) \in Nat /\ Len(below) \in Nat
  BY <1>7
<1>13. Len(Remaining(s)) # 0
  BY <1>11, <1>12
<1>14. Remaining(s) # <<>>
  BY <1>13
<1> QED
  BY <1>11, <1>14 DEF Docs

-----------------------------------------------------------------------------
(* Editing.                                                                   *)

\* Other lines and another cursor, after push_undo.
LEMMA Rewritten ==
  ASSUME NEW s, Sound(s), NEW lines \in Docs, NEW row \in Nat \ {0}, NEW col \in Nat
  PROVE  LET t == [PushUndo(s) EXCEPT !.lines = lines, !.row = row, !.col = col, !.modified = TRUE]
         IN  /\ t \in Editors /\ Bounded(t) /\ Marked(s, t) /\ Pushed(s, t)
             /\ t.lines = lines /\ t.row = row /\ t.col = col
             /\ row \in 1 .. Len(lines) /\ col \in 0 .. Len(lines[row]) => Sound(t)
<1> DEFINE u == PushUndo(s)
           t == [u EXCEPT !.lines = lines, !.row = row, !.col = col, !.modified = TRUE]
<1>1. u \in Editors /\ Bounded(u) /\ u = [s EXCEPT !.undo_stack = u.undo_stack, !.redo_stack = <<>>]
  BY PushUndoSound DEF Sound
<1>2. s \in Editors
  BY DEF Sound
<1>3. Pushed(s, u)
  BY DEF Pushed
<1> HIDE DEF u
<1>4. u.filename = s.filename /\ u.mode = s.mode
  BY <1>1, <1>2 DEF Editors
<1>5. /\ t \in Editors /\ t.lines = lines /\ t.row = row /\ t.col = col /\ t.modified = TRUE
      /\ t.undo_stack = u.undo_stack /\ t.redo_stack = u.redo_stack
      /\ t.filename = u.filename /\ t.mode = u.mode
  BY <1>1 DEF Editors
<1> HIDE DEF t
<1>6. Bounded(t) /\ Marked(s, t) /\ Pushed(s, t)
  BY <1>1, <1>3, <1>4, <1>5 DEF Bounded, Marked, Pushed
<1>7. row \in 1 .. Len(lines) /\ col \in 0 .. Len(lines[row]) => Sound(t)
  BY <1>5, <1>6 DEF Sound, InText
<1> QED
  BY <1>5, <1>6, <1>7 DEF t, u

\* ensure_visible shows the cursor and changes nothing else that matters.
LEMMA EnsuredEdit ==
  ASSUME NEW s, NEW t, Sound(t)
  PROVE  LET v == EnsureVisible(t)
         IN  /\ Sound(v) /\ Visible(v) /\ v.lines = t.lines /\ v.undo_stack = t.undo_stack
             /\ v.redo_stack = t.redo_stack
             /\ Marked(s, t) => Marked(s, v)
             /\ Pushed(s, t) => Pushed(s, v)
<1> DEFINE v == EnsureVisible(t)
<1>1. t \in Editors
  BY DEF Sound
<1>2. /\ Sound(v) /\ Visible(v)
      /\ v = [t EXCEPT !.scroll_row = v.scroll_row, !.scroll_col = v.scroll_col]
  BY <1>1, Ensured
<1> HIDE DEF v
<1>3. /\ v.lines = t.lines /\ v.undo_stack = t.undo_stack /\ v.redo_stack = t.redo_stack
      /\ v.filename = t.filename /\ v.mode = t.mode /\ v.modified = t.modified
  BY <1>1, <1>2 DEF Editors
<1> QED
  BY <1>2, <1>3 DEF Marked, Pushed, v

LEMMA DeleteSelectionSelected ==
  ASSUME NEW s, Sound(s), Selected(s), ~DeletePanics(s)
  PROVE  LET t == DeleteSelection(s)
         IN  Sound(t) /\ Visible(t) /\ Marked(s, t) /\ Pushed(s, t)
<1> DEFINE u == [s EXCEPT !.selection = None]
           lines == Remaining(s)
           row == From(s)[1]
           col == From(s)[2]
           v == [PushUndo(u) EXCEPT !.lines = lines, !.row = row, !.col = col, !.modified = TRUE]
           w == ClampCursor(v)
<1>1. Reselected(s, u)
  BY DEF Reselected, Sound, Editors, Selections
<1>2. Sound(u) /\ Marked(s, u) /\ u.undo_stack = s.undo_stack /\ Snapshot(u) = Snapshot(s)
  <2>1. Sound(u) /\ Marked(s, u) /\ u.undo_stack = s.undo_stack
    BY <1>1, ReselectedSound
  <2>2. u.lines = s.lines /\ u.row = s.row /\ u.col = s.col
    BY DEF Sound, Editors
  <2> QED
    BY <2>1, <2>2 DEF Snapshot
<1>3. lines \in Docs /\ row \in Nat \ {0} /\ col \in Nat
  BY RemainingIs, EndsAre
<1>4. DeleteSelection(s) = EnsureVisible(w)
  BY DEF DeleteSelection
<1> HIDE DEF u, lines, row, col
<1>5. v \in Editors /\ Bounded(v) /\ Marked(u, v) /\ Pushed(u, v)
  BY <1>2, <1>3, Rewritten
<1> HIDE DEF v
<1>6. w \in Editors /\ InText(w) /\ w = [v EXCEPT !.row = w.row, !.col = w.col]
  BY <1>5, Clamped
<1> HIDE DEF w
<1>7. /\ w.lines = v.lines /\ w.undo_stack = v.undo_stack /\ w.redo_stack = v.redo_stack
      /\ w.filename = v.filename /\ w.mode = v.mode /\ w.modified = v.modified
  BY <1>5, <1>6 DEF Editors
<1>8. Sound(w) /\ Marked(u, w) /\ Pushed(u, w)
  BY <1>5, <1>6, <1>7 DEF Sound, Bounded, Marked, Pushed
<1>9. Marked(s, w)
  <2>1. v.modified = TRUE
    BY <1>2, <1>3 DEF v, PushUndo, Sound, Editors
  <2> QED
    BY <1>2, <1>7, <1>8, <2>1 DEF Marked
<1>10. Pushed(s, w)
  <2>1. PushUndo(u).undo_stack = PushUndo(s).undo_stack
    BY <1>2 DEF PushUndo, Sound, Editors
  <2> QED
    BY <1>8, <2>1 DEF Pushed
<1> QED
  BY <1>4, <1>8, <1>9, <1>10, EnsuredEdit

LEMMA DeleteSelectionSound ==
  ASSUME NEW s, Sound(s), Visible(s), ~DeletePanics(s)
  PROVE  LET t == DeleteSelection(s)
         IN  /\ Sound(t) /\ Visible(t) /\ Marked(s, t)
             /\ Pushed(s, t) \/ (t.lines = s.lines /\ t.undo_stack = s.undo_stack)
<1>1. CASE Selected(s)
  BY <1>1, DeleteSelectionSelected
<1>2. CASE ~Selected(s)
  BY <1>2, DeleteSelectionUnselected, ReselectedSound
<1> QED
  BY <1>1, <1>2

-----------------------------------------------------------------------------
(* One byte.                                                                  *)

LEMMA LineIs ==
  ASSUME NEW s, Sound(s)
  PROVE  /\ s.lines \in Seq(Seq(Chars)) /\ Len(s.lines) \in Nat \ {0}
         /\ s.row \in 1 .. Len(s.lines) /\ s.row \in Nat \ {0} /\ s.col \in Nat
         /\ s.col \in 0 .. Len(s.lines[s.row])
         /\ \A r \in 1 .. Len(s.lines) : s.lines[r] \in Seq(Chars) /\ Len(s.lines[r]) \in Nat
         /\ \A r \in 1 .. Len(s.lines) : LineLen(s, r) = Len(s.lines[r])
<1>1. s.lines \in Docs /\ s.row \in Nat \ {0} /\ s.col \in Nat /\ InText(s)
  BY DEF Sound, Editors
<1> QED
  BY <1>1, RowsOf DEF InText, LineLen

\* A text in which one row is replaced by others.
LEMMA Spliced ==
  ASSUME NEW lines \in Seq(Seq(Chars)), NEW m \in Nat, m <= Len(lines), NEW n \in Nat \ {0},
         NEW new \in Seq(Seq(Chars)), new # <<>>
  PROVE  LET t == (SubSeq(lines, 1, m) \o new) \o SubSeq(lines, n, Len(lines))
         IN  /\ t \in Docs /\ Len(t) >= m + Len(new)
             /\ \A i \in 1 .. Len(new) : t[m + i] = new[i]
<1> DEFINE a == SubSeq(lines, 1, m)
           c == SubSeq(lines, n, Len(lines))
           b == a \o new
           t == b \o c
<1>1. /\ a \in Seq(Seq(Chars)) /\ Len(a) = m
  <2>1. 1 \in Nat \ {0} /\ m \in Int
    OBVIOUS
  <2>2. a \in Seq(Seq(Chars)) /\ Len(a) = IF 1 <= m THEN m - 1 + 1 ELSE 0
    BY <2>1, Piece
  <2> QED
    BY <2>2
<1>2. c \in Seq(Seq(Chars)) /\ Len(c) \in Nat
  <2>1. Len(lines) \in Int /\ Len(lines) <= Len(lines)
    OBVIOUS
  <2> QED
    BY <2>1, Piece
<1>3. Len(new) \in Nat \ {0}
  OBVIOUS
<1> HIDE DEF a, c
<1>4. /\ b \in Seq(Seq(Chars)) /\ Len(b) = m + Len(new)
      /\ \A i \in 1 .. m + Len(new) : b[i] = IF i <= m THEN a[i] ELSE new[i - m]
  <2>1. /\ b \in Seq(Seq(Chars)) /\ Len(b) = Len(a) + Len(new)
        /\ \A i \in 1 .. Len(a) + Len(new) : b[i] = IF i <= Len(a) THEN a[i] ELSE new[i - Len(a)]
    BY <1>1, ConcatProperties, Zenon
  <2> QED
    BY <1>1, <2>1
<1> HIDE DEF b
<1>5. /\ t \in Seq(Seq(Chars)) /\ Len(t) = m + Len(new) + Len(c)
      /\ \A i \in 1 .. m + Len(new) + Len(c) : t[i] = IF i <= Len(b) THEN b[i] ELSE c[i - Len(b)]
  <2>1. /\ t \in Seq(Seq(Chars)) /\ Len(t) = Len(b) + Len(c)
        /\ \A i \in 1 .. Len(b) + Len(c) : t[i] = IF i <= Len(b) THEN b[i] ELSE c[i - Len(b)]
    BY <1>2, <1>4, ConcatProperties, ZenonT(40)
  <2> QED
    BY <1>4, <2>1
<1> HIDE DEF t
<1>6. ASSUME NEW i \in 1 .. Len(new) PROVE t[m + i] = new[i]
  <2>1. /\ m + i \in 1 .. m + Len(new) + Len(c) /\ m + i \in 1 .. m + Len(new)
        /\ m + i <= m + Len(new) /\ ~(m + i <= m) /\ m + i - m = i
    BY <1>2, <1>3
  <2>2. t[m + i] = b[m + i]
    BY <1>4, <1>5, <2>1
  <2>3. b[m + i] = new[m + i - m]
    <3>1. \A k \in 1 .. m + Len(new) : ~(k <= m) => b[k] = new[k - m]
      BY <1>4
    <3> QED
      BY <2>1, <3>1
  <2> QED
    BY <2>1, <2>2, <2>3
<1>7. Len(t) >= m + Len(new) /\ Len(t) # 0
  BY <1>2, <1>3, <1>5
<1>8. t \in Docs
  BY <1>5, <1>7 DEF Docs
<1> QED
  BY <1>6, <1>7, <1>8 DEF a, b, c, t

\* What is typed or pasted goes into the text; stacks, file and mode stay.
Aside(s, t) ==
  /\ t.undo_stack = s.undo_stack /\ t.redo_stack = s.redo_stack
  /\ t.filename = s.filename /\ t.mode = s.mode

LEMMA Retyped ==
  ASSUME NEW s, Sound(s), NEW lines \in Docs, NEW row \in 1 .. Len(lines),
         NEW col \in 0 .. Len(lines[row])
  PROVE  LET t == [s EXCEPT !.lines = lines, !.row = row, !.col = col]
         IN  Sound(t) /\ Aside(s, t)
<1> DEFINE t == [s EXCEPT !.lines = lines, !.row = row, !.col = col]
<1>0. Len(lines) \in Nat /\ Len(lines[row]) \in Nat
  BY RowsOf
<1>1. row \in Nat \ {0} /\ col \in Nat
  BY <1>0
<1>2. s \in Editors /\ Bounded(s)
  BY DEF Sound
<1>3. /\ t \in Editors /\ t.lines = lines /\ t.row = row /\ t.col = col
      /\ t.undo_stack = s.undo_stack /\ t.redo_stack = s.redo_stack
      /\ t.filename = s.filename /\ t.mode = s.mode
  BY <1>1, <1>2 DEF Editors
<1> HIDE DEF t
<1> QED
  BY <1>2, <1>3 DEF Sound, InText, Bounded, Aside, t

LEMMA InsertByteSound ==
  ASSUME NEW s, Sound(s), NEW b \in Bytes
  PROVE  Sound(InsertByte(s, b)) /\ Aside(s, InsertByte(s, b))
<1> DEFINE line == s.lines[s.row]
           left == SubSeq(line, 1, s.col)
           right == SubSeq(line, s.col + 1, Len(line))
<1>1. /\ s.lines \in Seq(Seq(Chars)) /\ Len(s.lines) \in Nat \ {0}
      /\ s.row \in 1 .. Len(s.lines) /\ s.row \in Nat \ {0} /\ s.col \in Nat
      /\ line \in Seq(Chars) /\ Len(line) \in Nat /\ s.col \in 0 .. Len(line)
  BY LineIs
<1>2. /\ left \in Seq(Chars) /\ Len(left) = s.col
  <2>1. 1 \in Nat \ {0} /\ s.col \in Int /\ s.col <= Len(line)
    BY <1>1
  <2>2. left \in Seq(Chars) /\ Len(left) = IF 1 <= s.col THEN s.col - 1 + 1 ELSE 0
    BY <1>1, <2>1, Piece
  <2> QED
    BY <1>1, <2>2
<1>3. right \in Seq(Chars) /\ Len(right) \in Nat
  <2>1. s.col + 1 \in Nat \ {0} /\ Len(line) \in Int /\ Len(line) <= Len(line)
    BY <1>1
  <2>2. SubSeq(line, s.col + 1, Len(line)) \in Seq(Chars)
    BY <1>1, <2>1, Piece, Zenon
  <2> QED
    BY <2>2
<1>4. CASE b = NL
  <2> DEFINE lines == (SubSeq(s.lines, 1, s.row - 1) \o <<left, right>>)
                        \o SubSeq(s.lines, s.row + 1, Len(s.lines))
  <2>1. InsertByte(s, b) = [s EXCEPT !.lines = lines, !.row = s.row + 1, !.col = 0]
    BY <1>4 DEF InsertByte, Sound, Editors
  <2> HIDE DEF left, right
  <2>2. <<left, right>> \in Seq(Seq(Chars)) /\ <<left, right>> # <<>> /\ Len(<<left, right>>) = 2
    BY <1>2, <1>3
  <2>3. s.row - 1 \in Nat /\ s.row - 1 <= Len(s.lines) /\ s.row + 1 \in Nat \ {0}
    BY <1>1
  <2>4. lines \in Docs /\ Len(lines) >= s.row - 1 + 2
    BY <1>1, <2>2, <2>3, Spliced
  <2> HIDE DEF lines
  <2>5. s.row + 1 \in 1 .. Len(lines) /\ 0 \in 0 .. Len(lines[s.row + 1])
    <3>1. Len(lines) \in Nat
      BY <2>4, RowsOf
    <3>2. s.row + 1 \in 1 .. Len(lines)
      <4>1. \A i \in Nat \ {0} : \A j \in Nat : j >= i - 1 + 2 => i + 1 \in 1 .. j
        OBVIOUS
      <4> QED
        BY <1>1, <2>4, <3>1, <4>1, Zenon
    <3>3. Len(lines[s.row + 1]) \in Nat
      BY <2>4, <3>2, RowsOf
    <3> QED
      BY <3>2, <3>3
  <2> DEFINE t == [s EXCEPT !.lines = lines, !.row = s.row + 1, !.col = 0]
  <2>6. Sound(t) /\ Aside(s, t)
    BY <2>4, <2>5, Retyped
  <2> QED
    BY <2>1, <2>6, Zenon
<1>5. CASE b # NL
  <2> DEFINE new == Append(left, b) \o right
             lines == [s.lines EXCEPT ![s.row] = new]
  <2>1. b \in Chars
    BY <1>5 DEF Bytes
  <2>2. InsertByte(s, b) = [s EXCEPT !.lines = lines, !.row = s.row, !.col = s.col + 1]
    BY <1>5 DEF InsertByte, Sound, Editors
  <2> HIDE DEF left, right
  <2>3. Append(left, b) \in Seq(Chars) /\ Len(Append(left, b)) = s.col + 1
    BY <1>2, <2>1, AppendProperties
  <2>4. new \in Seq(Chars) /\ Len(new) = s.col + 1 + Len(right)
    BY <1>3, <2>3, ConcatProperties
  <2> HIDE DEF new
  <2>5. lines \in Seq(Seq(Chars)) /\ Len(lines) = Len(s.lines) /\ lines[s.row] = new
    BY <1>1, <2>4, ExceptSeq
  <2> HIDE DEF lines
  <2>6. lines \in Docs
    BY <1>1, <2>5 DEF Docs
  <2>7. s.row \in 1 .. Len(lines) /\ s.col + 1 \in 0 .. Len(lines[s.row])
    <3>1. \A i, j \in Nat : i + 1 \in 0 .. i + 1 + j
      OBVIOUS
    <3>2. Len(lines[s.row]) = s.col + 1 + Len(right)
      BY <2>4, <2>5
    <3> QED
      BY <1>1, <1>3, <2>5, <3>1, <3>2, Zenon
  <2> DEFINE t == [s EXCEPT !.lines = lines, !.row = s.row, !.col = s.col + 1]
  <2>8. Sound(t) /\ Aside(s, t)
    BY <2>6, <2>7, Retyped
  <2> QED
    BY <2>2, <2>8, Zenon
<1> QED
  BY <1>4, <1>5

\* After push_undo and some bytes.
LEMMA Remarked ==
  ASSUME NEW s, NEW t, Sound(s), Sound(t), Aside(PushUndo(s), t)
  PROVE  LET v == EnsureVisible([t EXCEPT !.modified = TRUE])
         IN  Sound(v) /\ Visible(v) /\ Marked(s, v) /\ Pushed(s, v)
<1> DEFINE u == [t EXCEPT !.modified = TRUE]
<1>1. t \in Editors /\ s \in Editors
  BY DEF Sound
<1>2. /\ u \in Editors /\ u.modified = TRUE /\ u.filename = t.filename /\ u.mode = t.mode
      /\ u.undo_stack = t.undo_stack /\ u.redo_stack = t.redo_stack
      /\ u.lines = t.lines /\ u.row = t.row /\ u.col = t.col
  BY <1>1 DEF Editors
<1> HIDE DEF u
<1>3. Sound(u) /\ Pushed(s, u)
  BY <1>2 DEF Sound, InText, Bounded, Pushed, Aside
<1>4. PushUndo(s).filename = s.filename /\ PushUndo(s).mode = s.mode
  BY <1>1 DEF PushUndo, Editors
<1>5. Marked(s, u)
  BY <1>2, <1>4 DEF Marked, Aside
<1> QED
  BY <1>3, <1>5, EnsuredEdit DEF u

LEMMA InsertSound ==
  ASSUME NEW s, Sound(s), NEW b \in Bytes
  PROVE  LET t == Insert(s, b)
         IN  Sound(t) /\ Visible(t) /\ Marked(s, t) /\ Pushed(s, t)
<1>1. Sound(PushUndo(s))
  BY PushUndoSound
<1>2. Sound(InsertByte(PushUndo(s), b)) /\ Aside(PushUndo(s), InsertByte(PushUndo(s), b))
  BY <1>1, InsertByteSound
<1> QED
  BY <1>2, Remarked DEF Insert

-----------------------------------------------------------------------------
(* Backspace and Delete.                                                      *)

LEMMA WithoutIs ==
  ASSUME NEW lines \in Docs, NEW row \in 1 .. Len(lines), NEW i \in 1 .. Len(lines[row])
  PROVE  /\ Without(lines, row, i) \in Docs /\ Len(Without(lines, row, i)) = Len(lines)
         /\ Len(Without(lines, row, i)[row]) = Len(lines[row]) - 1
<1> DEFINE line == lines[row]
           n == Len(line)
           a == SubSeq(line, 1, i - 1)
           c == SubSeq(line, i + 1, n)
           new == a \o c
           t == [lines EXCEPT ![row] = new]
<1>1. /\ lines \in Seq(Seq(Chars)) /\ Len(lines) \in Nat \ {0}
      /\ line \in Seq(Chars) /\ n \in Nat /\ i \in 1 .. n
  BY RowsOf
<1>2. a \in Seq(Chars) /\ Len(a) = i - 1
  <2>1. 1 \in Nat \ {0} /\ i - 1 \in Int /\ i - 1 <= n
    BY <1>1
  <2>2. a \in Seq(Chars) /\ Len(a) = IF 1 <= i - 1 THEN i - 1 - 1 + 1 ELSE 0
    BY <1>1, <2>1, Piece
  <2> QED
    BY <1>1, <2>2
<1>3. c \in Seq(Chars) /\ Len(c) = n - i
  <2>1. i + 1 \in Nat \ {0} /\ n \in Int /\ n <= n
    BY <1>1
  <2>2. c \in Seq(Chars) /\ Len(c) = IF i + 1 <= n THEN n - (i + 1) + 1 ELSE 0
    BY <1>1, <2>1, Piece
  <2> QED
    BY <1>1, <2>2
<1>4. Without(lines, row, i) = t
  BY DEF Without, RemoveAt
<1> HIDE DEF a, c
<1>5. new \in Seq(Chars) /\ Len(new) = i - 1 + (n - i)
  <2>1. new \in Seq(Chars) /\ Len(new) = Len(a) + Len(c)
    BY <1>2, <1>3, ConcatProperties
  <2> QED
    BY <1>2, <1>3, <2>1
<1> HIDE DEF new
<1>6. t \in Seq(Seq(Chars)) /\ Len(t) = Len(lines) /\ t[row] = new
  BY <1>1, <1>5, ExceptSeq
<1> HIDE DEF t
<1>7. t \in Docs
  BY <1>1, <1>6 DEF Docs
<1>8. Len(t[row]) = n - 1
  BY <1>1, <1>5, <1>6
<1> QED
  BY <1>4, <1>6, <1>7, <1>8

LEMMA JoinedIs ==
  ASSUME NEW lines \in Docs, NEW row \in 1 .. Len(lines), row + 1 <= Len(lines)
  PROVE  /\ Joined(lines, row) \in Docs /\ row \in 1 .. Len(Joined(lines, row))
         /\ Len(lines[row]) \in 0 .. Len(Joined(lines, row)[row])
<1> DEFINE both == lines[row] \o lines[row + 1]
           t == (SubSeq(lines, 1, row - 1) \o <<both>>) \o SubSeq(lines, row + 2, Len(lines))
<1>1. /\ lines \in Seq(Seq(Chars)) /\ Len(lines) \in Nat \ {0}
      /\ lines[row] \in Seq(Chars) /\ lines[row + 1] \in Seq(Chars)
      /\ Len(lines[row]) \in Nat /\ Len(lines[row + 1]) \in Nat
  <2>1. row + 1 \in 1 .. Len(lines)
    BY RowsOf
  <2> QED
    BY <2>1, RowsOf
<1>2. both \in Seq(Chars) /\ Len(both) = Len(lines[row]) + Len(lines[row + 1])
  BY <1>1, ConcatProperties
<1>3. Joined(lines, row) = t
  BY DEF Joined
<1> HIDE DEF both
<1>4. <<both>> \in Seq(Seq(Chars)) /\ <<both>> # <<>> /\ Len(<<both>>) = 1 /\ <<both>>[1] = both
  BY <1>2
<1>5. row - 1 \in Nat /\ row - 1 <= Len(lines) /\ row + 2 \in Nat \ {0} /\ row - 1 + 1 = row
  BY <1>1
<1>6. /\ t \in Docs /\ Len(t) >= row - 1 + 1
      /\ \A i \in 1 .. 1 : t[row - 1 + i] = <<both>>[i]
  <2>1. /\ t \in Docs /\ Len(t) >= row - 1 + Len(<<both>>)
        /\ \A i \in 1 .. Len(<<both>>) : t[row - 1 + i] = <<both>>[i]
    BY <1>1, <1>4, <1>5, Spliced, ZenonT(40)
  <2> QED
    BY <1>4, <2>1
<1> HIDE DEF t
<1>7. t[row] = both
  <2>1. t[row - 1 + 1] = <<both>>[1]
    BY <1>6
  <2> QED
    BY <1>4, <1>5, <2>1
<1>8. row \in 1 .. Len(t)
  <2>1. Len(t) \in Nat
    BY <1>6, RowsOf
  <2> QED
    BY <1>5, <1>6, <2>1
<1>9. Len(lines[row]) \in 0 .. Len(both)
  <2>1. \A i, j \in Nat : i \in 0 .. i + j
    OBVIOUS
  <2> QED
    BY <1>1, <1>2, <2>1
<1> QED
  BY <1>3, <1>6, <1>7, <1>8, <1>9

\* Rewritten, for a cursor in the new text.
LEMMA RewrittenInText ==
  ASSUME NEW s, Sound(s), NEW lines \in Docs, NEW row \in 1 .. Len(lines),
         NEW col \in 0 .. Len(lines[row])
  PROVE  LET t == [PushUndo(s) EXCEPT !.lines = lines, !.row = row, !.col = col, !.modified = TRUE]
         IN  Sound(t) /\ Marked(s, t) /\ Pushed(s, t)
<1>1. row \in Nat \ {0} /\ col \in Nat
  BY RowsOf
<1> QED
  BY <1>1, Rewritten

LEMMA PushedOnly ==
  ASSUME NEW s, Sound(s)
  PROVE  LET t == PushUndo(s)
         IN  /\ Sound(t) /\ Marked(s, t) /\ Pushed(s, t)
             /\ t \in Editors /\ t.lines = s.lines /\ t.row = s.row /\ t.col = s.col
             /\ t.scroll_row = s.scroll_row /\ t.scroll_col = s.scroll_col
<1> DEFINE t == PushUndo(s)
<1>1. s \in Editors /\ Sound(t) /\ t = [s EXCEPT !.undo_stack = t.undo_stack, !.redo_stack = <<>>]
  BY PushUndoSound DEF Sound
<1>2. Pushed(s, t)
  BY DEF Pushed
<1> HIDE DEF t
<1>3. /\ t.lines = s.lines /\ t.row = s.row /\ t.col = s.col /\ t.filename = s.filename
      /\ t.mode = s.mode /\ t.modified = s.modified
      /\ t.scroll_row = s.scroll_row /\ t.scroll_col = s.scroll_col
  BY <1>1 DEF Editors
<1> QED
  BY <1>1, <1>2, <1>3 DEF Marked, t, Sound

LEMMA BackspaceSound ==
  ASSUME NEW s, Sound(s)
  PROVE  LET t == Backspace(s)
         IN  Sound(t) /\ Visible(t) /\ Marked(s, t) /\ Pushed(s, t)
<1> DEFINE t == PushUndo(s)
           u == IF s.col > 0
                THEN [t EXCEPT !.lines = Without(@, s.row, s.col), !.col = s.col - 1, !.modified = TRUE]
                ELSE IF s.row > 1
                THEN [t EXCEPT !.lines = Joined(@, s.row - 1), !.row = s.row - 1,
                               !.col = Len(s.lines[s.row - 1]), !.modified = TRUE]
                ELSE t
<1>1. /\ s.lines \in Docs /\ Len(s.lines) \in Nat \ {0}
      /\ s.row \in 1 .. Len(s.lines) /\ s.col \in Nat /\ s.col \in 0 .. Len(s.lines[s.row])
  BY LineIs DEF Sound, Editors
<1>2. /\ t \in Editors /\ Sound(t) /\ Marked(s, t) /\ Pushed(s, t)
      /\ t.lines = s.lines /\ t.row = s.row /\ t.col = s.col
  BY PushedOnly
<1>3. Sound(u) /\ Marked(s, u) /\ Pushed(s, u)
  <2>1. CASE s.col > 0
    <3> DEFINE lines == Without(s.lines, s.row, s.col)
    <3>1. s.col \in 1 .. Len(s.lines[s.row]) /\ Len(s.lines[s.row]) \in Nat
      BY <1>1, <2>1, RowsOf
    <3>2. lines \in Docs /\ Len(lines) = Len(s.lines) /\ Len(lines[s.row]) = Len(s.lines[s.row]) - 1
      BY <1>1, <3>1, WithoutIs
    <3>3. u = [t EXCEPT !.lines = lines, !.row = s.row, !.col = s.col - 1, !.modified = TRUE]
      <4> HIDE DEF t
      <4> QED
        BY <1>2, <2>1 DEF Editors
    <3> HIDE DEF lines, u
    <3>4. s.row \in 1 .. Len(lines) /\ s.col - 1 \in 0 .. Len(lines[s.row])
      BY <1>1, <3>1, <3>2
    <3> DEFINE v == [t EXCEPT !.lines = lines, !.row = s.row, !.col = s.col - 1, !.modified = TRUE]
    <3>5. Sound(v) /\ Marked(s, v) /\ Pushed(s, v)
      BY <3>2, <3>4, RewrittenInText
    <3> QED
      BY <3>3, <3>5, Zenon
  <2>2. CASE ~(s.col > 0) /\ s.row > 1
    <3> DEFINE lines == Joined(s.lines, s.row - 1)
               col == Len(s.lines[s.row - 1])
    <3>1. s.row - 1 \in 1 .. Len(s.lines) /\ s.row - 1 + 1 <= Len(s.lines)
      BY <1>1, <2>2
    <3>2. lines \in Docs /\ s.row - 1 \in 1 .. Len(lines) /\ col \in 0 .. Len(lines[s.row - 1])
      BY <1>1, <3>1, JoinedIs
    <3>3. u = [t EXCEPT !.lines = lines, !.row = s.row - 1, !.col = col, !.modified = TRUE]
      BY <1>2, <2>2
    <3> HIDE DEF lines, u, col
    <3> DEFINE v == [t EXCEPT !.lines = lines, !.row = s.row - 1, !.col = col, !.modified = TRUE]
    <3>5. Sound(v) /\ Marked(s, v) /\ Pushed(s, v)
      BY <3>2, RewrittenInText
    <3> QED
      BY <3>3, <3>5, Zenon
  <2>3. CASE ~(s.col > 0) /\ ~(s.row > 1)
    BY <1>2, <2>3
  <2> QED
    BY <2>1, <2>2, <2>3
<1>4. Backspace(s) = EnsureVisible(u)
  BY DEF Backspace
<1> HIDE DEF u, t
<1> QED
  BY <1>3, <1>4, EnsuredEdit

LEMMA DeleteSound ==
  ASSUME NEW s, Sound(s), Visible(s)
  PROVE  LET t == Delete(s)
         IN  Sound(t) /\ Visible(t) /\ Marked(s, t) /\ Pushed(s, t)
<1> DEFINE t == PushUndo(s)
<1>1. /\ s.lines \in Docs /\ Len(s.lines) \in Nat \ {0}
      /\ s.row \in 1 .. Len(s.lines) /\ s.col \in Nat /\ s.col \in 0 .. Len(s.lines[s.row])
      /\ Len(s.lines[s.row]) \in Nat
  BY LineIs DEF Sound, Editors
<1>2. /\ t \in Editors /\ Sound(t) /\ Marked(s, t) /\ Pushed(s, t)
      /\ t.lines = s.lines /\ t.row = s.row /\ t.col = s.col
      /\ t.scroll_row = s.scroll_row /\ t.scroll_col = s.scroll_col
  BY PushedOnly
<1>3. ASSUME NEW lines \in Docs, s.row \in 1 .. Len(lines), s.col \in 0 .. Len(lines[s.row]),
             NEW u, u = [t EXCEPT !.lines = lines, !.modified = TRUE]
      PROVE  Sound(u) /\ Visible(u) /\ Marked(s, u) /\ Pushed(s, u)
  <2> DEFINE v == [t EXCEPT !.lines = lines, !.row = s.row, !.col = s.col, !.modified = TRUE]
  <2>1. Sound(v) /\ Marked(s, v) /\ Pushed(s, v)
    BY <1>3, RewrittenInText
  <2> HIDE DEF t
  <2>2. u = v /\ v.row = s.row /\ v.col = s.col /\ v.scroll_row = s.scroll_row /\ v.scroll_col = s.scroll_col
    BY <1>2, <1>3 DEF Editors
  <2> HIDE DEF v
  <2> QED
    BY <2>1, <2>2 DEF Visible
<1>4. CASE s.col < Len(s.lines[s.row])
  <2> DEFINE lines == Without(s.lines, s.row, s.col + 1)
  <2>1. s.col + 1 \in 1 .. Len(s.lines[s.row])
    BY <1>1, <1>4
  <2>2. lines \in Docs /\ Len(lines) = Len(s.lines) /\ Len(lines[s.row]) = Len(s.lines[s.row]) - 1
    BY <1>1, <2>1, WithoutIs
  <2>3. Delete(s) = [t EXCEPT !.lines = lines, !.modified = TRUE]
    BY <1>2, <1>4 DEF Delete
  <2> HIDE DEF lines, t
  <2>4. s.row \in 1 .. Len(lines) /\ s.col \in 0 .. Len(lines[s.row])
    BY <1>1, <2>1, <2>2
  <2> QED
    BY <1>3, <2>2, <2>3, <2>4
<1>5. CASE ~(s.col < Len(s.lines[s.row])) /\ s.row < Len(s.lines)
  <2> DEFINE lines == Joined(s.lines, s.row)
  <2>1. s.row + 1 <= Len(s.lines) /\ s.col = Len(s.lines[s.row])
    BY <1>1, <1>5
  <2>2. lines \in Docs /\ s.row \in 1 .. Len(lines) /\ s.col \in 0 .. Len(lines[s.row])
    BY <1>1, <2>1, JoinedIs
  <2>3. Delete(s) = [t EXCEPT !.lines = lines, !.modified = TRUE]
    BY <1>2, <1>5 DEF Delete
  <2> HIDE DEF lines, t
  <2> QED
    BY <1>3, <2>2, <2>3
<1>6. CASE ~(s.col < Len(s.lines[s.row])) /\ ~(s.row < Len(s.lines))
  <2>1. Delete(s) = t
    BY <1>6 DEF Delete
  <2> HIDE DEF t
  <2> QED
    BY <1>2, <2>1 DEF Visible
<1> QED
  BY <1>4, <1>5, <1>6

-----------------------------------------------------------------------------
(* The cursor keys.                                                           *)

\* The cursor is at another place of the same text.
LEMMA Placed ==
  ASSUME NEW s, Sound(s), NEW row \in 1 .. Len(s.lines), NEW col \in 0 .. Len(s.lines[row])
  PROVE  LET t == [s EXCEPT !.row = row, !.col = col]
         IN  Sound(t) /\ t.lines = s.lines /\ Marked(s, t)
<1> DEFINE t == [s EXCEPT !.row = row, !.col = col]
<1>1. s \in Editors /\ s.lines \in Docs
  BY DEF Sound, Editors
<1>2. row \in Nat \ {0} /\ col \in Nat
  BY <1>1, RowsOf
<1>3. /\ t \in Editors /\ t.lines = s.lines /\ t.row = row /\ t.col = col
      /\ t.undo_stack = s.undo_stack /\ t.redo_stack = s.redo_stack
      /\ t.filename = s.filename /\ t.mode = s.mode /\ t.modified = s.modified
  BY <1>1, <1>2 DEF Editors
<1> HIDE DEF t
<1> QED
  BY <1>3 DEF Sound, InText, Bounded, Marked, t

LEMMA ClampPlaces ==
  ASSUME NEW s, Sound(s), NEW row \in 1 .. Len(s.lines)
  PROVE  LET t == ClampCursor([s EXCEPT !.row = row])
         IN  Sound(t) /\ t.lines = s.lines /\ Marked(s, t)
<1> DEFINE u == [s EXCEPT !.row = row]
           t == ClampCursor(u)
<1>1. s \in Editors /\ s.lines \in Docs
  BY DEF Sound, Editors
<1>2. row \in Nat \ {0}
  BY <1>1, RowsOf
<1>3. /\ u \in Editors /\ u.lines = s.lines
      /\ u.undo_stack = s.undo_stack /\ u.redo_stack = s.redo_stack
      /\ u.filename = s.filename /\ u.mode = s.mode /\ u.modified = s.modified
  BY <1>1, <1>2 DEF Editors
<1> HIDE DEF u
<1>4. t \in Editors /\ InText(t) /\ t = [u EXCEPT !.row = t.row, !.col = t.col]
  BY <1>3, Clamped
<1> HIDE DEF t
<1>5. /\ t.lines = u.lines /\ t.undo_stack = u.undo_stack /\ t.redo_stack = u.redo_stack
      /\ t.filename = u.filename /\ t.mode = u.mode /\ t.modified = u.modified
  BY <1>3, <1>4 DEF Editors
<1> QED
  BY <1>3, <1>4, <1>5 DEF Sound, Bounded, Marked, t, u

LEMMA MovedSound ==
  ASSUME NEW s, Sound(s), NEW move \in Moves
  PROVE  Sound(Moved(s, move)) /\ Moved(s, move).lines = s.lines /\ Marked(s, Moved(s, move))
<1>1. /\ s.lines \in Docs /\ Len(s.lines) \in Nat \ {0} /\ s \in Editors
      /\ s.row \in 1 .. Len(s.lines) /\ s.row \in Nat /\ s.col \in Nat
      /\ s.col \in 0 .. Len(s.lines[s.row]) /\ Len(s.lines[s.row]) \in Nat
      /\ \A r \in 1 .. Len(s.lines) : LineLen(s, r) = Len(s.lines[r]) /\ Len(s.lines[r]) \in Nat
  BY LineIs DEF Sound, Editors
<1>0. Sound(s) /\ Marked(s, s)
  BY DEF Marked
<1>2. ASSUME NEW row \in 1 .. Len(s.lines), NEW col \in 0 .. Len(s.lines[row]),
             Moved(s, move) = [s EXCEPT !.row = row, !.col = col]
      PROVE  Sound(Moved(s, move)) /\ Moved(s, move).lines = s.lines /\ Marked(s, Moved(s, move))
  <2> DEFINE t == [s EXCEPT !.row = row, !.col = col]
  <2>1. Sound(t) /\ t.lines = s.lines /\ Marked(s, t)
    BY Placed
  <2> QED
    BY <1>2, <2>1, Zenon
<1>3. s = [s EXCEPT !.row = s.row] /\ s = [s EXCEPT !.col = s.col]
  BY <1>1 DEF Editors
<1>4. ASSUME NEW col PROVE [s EXCEPT !.col = col] = [s EXCEPT !.row = s.row, !.col = col]
  BY <1>1 DEF Editors
<1>5. CASE move = "Left"
  <2>1. CASE s.col > 0
    <3>1. Moved(s, move) = [s EXCEPT !.row = s.row, !.col = s.col - 1]
      BY <1>4, <1>5, <2>1 DEF Moved
    <3>2. s.col - 1 \in 0 .. Len(s.lines[s.row])
      BY <1>1, <2>1
    <3> QED
      BY <1>1, <1>2, <3>1, <3>2
  <2>2. CASE ~(s.col > 0) /\ s.row > 1
    <3>1. s.row - 1 \in 1 .. Len(s.lines)
      BY <1>1, <2>2
    <3>2. /\ LineLen(s, s.row - 1) = Len(s.lines[s.row - 1])
          /\ Len(s.lines[s.row - 1]) \in 0 .. Len(s.lines[s.row - 1])
      BY <1>1, <3>1
    <3>3. Moved(s, move) = [s EXCEPT !.row = s.row - 1, !.col = Len(s.lines[s.row - 1])]
      BY <1>5, <2>2, <3>2 DEF Moved
    <3> QED
      BY <1>2, <3>1, <3>2, <3>3
  <2>3. CASE ~(s.col > 0) /\ ~(s.row > 1)
    BY <1>0, <1>5, <2>3 DEF Moved
  <2> QED
    BY <2>1, <2>2, <2>3
<1>6. CASE move = "Right"
  <2>1. CASE s.col < LineLen(s, s.row)
    <3>1. Moved(s, move) = [s EXCEPT !.row = s.row, !.col = s.col + 1]
      BY <1>4, <1>6, <2>1 DEF Moved
    <3>2. s.col + 1 \in 0 .. Len(s.lines[s.row])
      BY <1>1, <2>1
    <3> QED
      BY <1>1, <1>2, <3>1, <3>2
  <2>2. CASE ~(s.col < LineLen(s, s.row)) /\ s.row < Len(s.lines)
    <3>1. s.row + 1 \in 1 .. Len(s.lines)
      BY <1>1, <2>2
    <3>2. 0 \in 0 .. Len(s.lines[s.row + 1])
      BY <1>1, <3>1
    <3>3. Moved(s, move) = [s EXCEPT !.row = s.row + 1, !.col = 0]
      BY <1>6, <2>2 DEF Moved
    <3> QED
      BY <1>2, <3>1, <3>2, <3>3
  <2>3. CASE ~(s.col < LineLen(s, s.row)) /\ ~(s.row < Len(s.lines))
    BY <1>0, <1>6, <2>3 DEF Moved
  <2> QED
    BY <2>1, <2>2, <2>3
<1>7. CASE move = "Up"
  <2>1. CASE s.row > 1
    <3>1. s.row - 1 \in 1 .. Len(s.lines)
      BY <1>1, <2>1
    <3>2. Moved(s, move) = ClampCursor([s EXCEPT !.row = s.row - 1])
      BY <1>7, <2>1 DEF Moved
    <3> QED
      BY <3>1, <3>2, ClampPlaces
  <2>2. CASE ~(s.row > 1)
    BY <1>0, <1>7, <2>2 DEF Moved
  <2> QED
    BY <2>1, <2>2
<1>8. CASE move = "Down"
  <2>1. CASE s.row < Len(s.lines)
    <3>1. s.row + 1 \in 1 .. Len(s.lines)
      BY <1>1, <2>1
    <3>2. Moved(s, move) = ClampCursor([s EXCEPT !.row = s.row + 1])
      BY <1>8, <2>1 DEF Moved
    <3> QED
      BY <3>1, <3>2, ClampPlaces
  <2>2. CASE ~(s.row < Len(s.lines))
    BY <1>0, <1>8, <2>2 DEF Moved
  <2> QED
    BY <2>1, <2>2
<1>9. CASE move = "Home"
  <2>1. Moved(s, move) = [s EXCEPT !.row = s.row, !.col = 0]
    BY <1>4, <1>9 DEF Moved
  <2>2. 0 \in 0 .. Len(s.lines[s.row])
    BY <1>1
  <2> QED
    BY <1>1, <1>2, <2>1, <2>2
<1>10. CASE move = "End"
  <2>1. Moved(s, move) = [s EXCEPT !.row = s.row, !.col = Len(s.lines[s.row])]
    BY <1>1, <1>4, <1>10 DEF Moved
  <2>2. Len(s.lines[s.row]) \in 0 .. Len(s.lines[s.row])
    BY <1>1
  <2> QED
    BY <1>1, <1>2, <2>1, <2>2
<1> QED
  BY <1>5, <1>6, <1>7, <1>8, <1>9, <1>10 DEF Moves

LEMMA MarkedTrans ==
  ASSUME NEW s, NEW t, NEW u, t.modified \in BOOLEAN, Marked(s, t), Marked(t, u)
  PROVE  Marked(s, u)
BY DEF Marked

LEMMA SoundModified ==
  ASSUME NEW s, Sound(s)
  PROVE  s.modified \in BOOLEAN
BY DEF Sound, Editors

LEMMA MoveSound ==
  ASSUME NEW s, Sound(s), NEW move \in Moves, NEW shift \in BOOLEAN
  PROVE  LET t == Move(s, move, shift)
         IN  Sound(t) /\ Visible(t) /\ t.lines = s.lines /\ Marked(s, t)
<1> DEFINE a == StartOrExtendSelection(s, shift)
           b == Moved(a, move)
           c == EnsureVisible(b)
           d == UpdateSelectionEnd(c)
<1>1. Sound(a) /\ a.lines = s.lines /\ Marked(s, a)
  BY StartSound, ReselectedSound
<1> HIDE DEF a
<1>2. Sound(b) /\ b.lines = a.lines /\ Marked(a, b)
  BY <1>1, MovedSound
<1> HIDE DEF b
<1>3. Sound(c) /\ Visible(c) /\ c.lines = b.lines /\ Marked(a, c)
  BY <1>2, EnsuredEdit
<1> HIDE DEF c
<1>4. Sound(d) /\ Visible(d) /\ d.lines = c.lines /\ Marked(c, d)
  BY <1>3, UpdateSound, ReselectedSound
<1> HIDE DEF d
<1>5. Marked(s, d)
  BY <1>1, <1>3, <1>4, MarkedTrans, SoundModified
<1>6. d.lines = s.lines
  BY <1>1, <1>2, <1>3, <1>4
<1> QED
  BY <1>4, <1>5, <1>6 DEF Move, a, b, c, d

-----------------------------------------------------------------------------
(* What the recursive definitions define: each function is the one its        *)
(* equation describes, because there is one.                                  *)

Follows(f, n, V, a, step) ==
  /\ f \in [0 .. n -> V] /\ f[0] = a
  /\ \A i \in 0 .. n : i # 0 => i \in 1 .. n /\ f[i - 1] \in V /\ f[i] = step[<<i, f[i - 1]>>]

LEMMA Recursion ==
  ASSUME NEW n \in Nat, NEW V, NEW a \in V, NEW step \in [(1 .. n) \X V -> V]
  PROVE  \E f : Follows(f, n, V, a, step)
<1>1. PICK f \in [0 .. n -> V] : UpTo(f, n, a, step)
  BY DefinedByStep
<1>2. f[0] = a /\ \A i \in 1 .. n : f[i] = step[<<i, f[i - 1]>>]
  BY <1>1 DEF UpTo
<1>3. \A i \in 0 .. n : i # 0 => i \in 1 .. n /\ i - 1 \in 0 .. n
  OBVIOUS
<1> QED
  BY <1>1, <1>2, <1>3 DEF Follows

Parts(s, text, r) ==
  IF r = 0 THEN <<>>
  ELSE text[r - 1] \o IF r \in From(s)[1] .. To(s)[1] THEN SelectedPart(s, r) ELSE <<>>
PartsUpTo(s) == CHOOSE text : text = [r \in 0 .. Len(s.lines) |-> Parts(s, text, r)]

LEMMA SelectedTextIs ==
  ASSUME NEW s, Sound(s)
  PROVE  SelectedText(s) \in Seq(Bytes)
<1>1. CASE ~Selected(s)
  BY <1>1 DEF SelectedText
<1>2. CASE Selected(s)
  <2> DEFINE n == Len(s.lines)
             V == Seq(Bytes)
             part(r) == IF r \in From(s)[1] .. To(s)[1] THEN SelectedPart(s, r) ELSE <<>>
             step == [p \in (1 .. n) \X V |-> p[2] \o part(p[1])]
             text == PartsUpTo(s)
  <2>1. n \in Nat
    BY LineIs
  <2>2. \A r \in 1 .. n : part(r) \in V
    BY <1>2, SelectedPartIs
  <2>3. <<>> \in V /\ step \in [(1 .. n) \X V -> V]
    <3> HIDE DEF part
    <3> QED
      BY <2>2, ConcatProperties
  <2>4. PICK f : Follows(f, n, V, <<>>, step)
    <3> HIDE DEF step, n, V
    <3> QED
      BY <2>1, <2>3, Recursion
  <2>5. ASSUME NEW r \in 0 .. n PROVE f[r] = Parts(s, f, r)
    <3>1. CASE r = 0
      BY <2>4, <3>1 DEF Parts, Follows
    <3>2. CASE r # 0
      <4>1. f[r - 1] \in V /\ f[r] = step[<<r, f[r - 1]>>] /\ r \in 1 .. n
        <5> HIDE DEF step, n, V
        <5> QED
          BY <2>4, <3>2 DEF Follows
      <4> HIDE DEF part
      <4>2. f[r] = f[r - 1] \o part(r)
        BY <4>1
      <4> QED
        BY <3>2, <4>2 DEF Parts, part
    <3> QED
      BY <3>1, <3>2
  <2>6. f = [r \in 0 .. n |-> Parts(s, f, r)]
    <3>1. f \in [0 .. n -> V]
      BY <2>4 DEF Follows
    <3> QED
      BY <2>5, <3>1
  <2>7. text = [r \in 0 .. n |-> Parts(s, text, r)]
    BY <2>6 DEF PartsUpTo
  <2>8. SelectedText(s) = text[n]
    BY <1>2 DEF SelectedText, PartsUpTo, Parts
  <2> DEFINE typed == {r \in 0 .. n : text[r] \in V}
  <2> HIDE DEF text, n, V, part, step
  <2>9. \A r \in 0 .. n : text[r] = Parts(s, text, r)
    BY <2>7, Zenon
  <2>10. 0 \in typed
    BY <2>1, <2>3, <2>9 DEF Parts
  <2>11. ASSUME NEW r \in 1 .. n, r - 1 \in typed PROVE r \in typed
    <3>1. r \in 0 .. n /\ r # 0
      BY <2>1
    <3>2. text[r] = text[r - 1] \o part(r)
      BY <2>9, <3>1 DEF Parts, part
    <3>3. text[r - 1] \in V /\ part(r) \in V
      BY <2>2, <2>11
    <3>4. text[r - 1] \o part(r) \in V
      BY <3>3, ConcatProperties DEF V
    <3> QED
      BY <3>1, <3>2, <3>4
  <2> HIDE DEF typed
  <2>12. n \in typed
    BY <2>1, <2>10, <2>11, Steps
  <2> QED
    BY <2>8, <2>12 DEF typed, V
<1> QED
  BY <1>1, <1>2

LEMMA CopySound ==
  ASSUME NEW s, Sound(s)
  PROVE  LET t == Copy(s)
         IN  /\ Sound(t) /\ Marked(s, t) /\ t.lines = s.lines /\ t.undo_stack = s.undo_stack
             /\ t.selection = s.selection
             /\ Visible(s) => Visible(t)
<1> DEFINE text == SelectedText(s)
           t == [s EXCEPT !.clipboard = text]
<1>1. text \in Seq(Bytes)
  BY SelectedTextIs
<1>2. Copy(s) = s \/ Copy(s) = t
  BY DEF Copy
<1> HIDE DEF text
<1>3. /\ t \in Editors /\ t.lines = s.lines /\ t.row = s.row /\ t.col = s.col
      /\ t.scroll_row = s.scroll_row /\ t.scroll_col = s.scroll_col /\ t.selection = s.selection
      /\ t.undo_stack = s.undo_stack /\ t.redo_stack = s.redo_stack
      /\ t.filename = s.filename /\ t.mode = s.mode /\ t.modified = s.modified
  BY <1>1 DEF Sound, Editors
<1> HIDE DEF t
<1>4. Sound(t) /\ Marked(s, t) /\ (Visible(s) => Visible(t))
  BY <1>3 DEF Sound, InText, Bounded, Marked, Visible
<1>5. Marked(s, s)
  BY DEF Marked
<1> QED
  BY <1>2, <1>3, <1>4, <1>5

-----------------------------------------------------------------------------
(* The way back.                                                              *)

\* The text of s is that of t, or among the last k entries t can undo.
Reaches(stack, lines, k) ==
  \E i \in 1 .. Len(stack) : stack[i].lines = lines /\ i > Len(stack) - k
Recorded(s, t, k) == t.lines = s.lines \/ Reaches(t.undo_stack, s.lines, k)

LEMMA PushedRecords ==
  ASSUME NEW s, NEW t, Sound(t), NEW u, Pushed(t, u),
         NEW k \in Nat, k < MAX_UNDO, Recorded(s, t, k)
  PROVE  Recorded(s, u, k + 1) /\ Reaches(u.undo_stack, s.lines, k + 1)
<1> DEFINE old == t.undo_stack
           stack == PushUndo(t).undo_stack
           full == Len(old) >= MAX_UNDO
<1>1. /\ stack # <<>> /\ Last(stack) = Snapshot(t)
      /\ Len(stack) = IF full THEN MAX_UNDO ELSE Len(old) + 1
      /\ \A i \in 1 .. Len(stack) - 1 : stack[i] = old[IF full THEN i + 1 ELSE i]
  BY PushUndoSound
<1>2. MAX_UNDO \in Nat \ {0}
  BY NotepadAssumption
<1>3. Len(old) \in Nat /\ Len(old) <= MAX_UNDO
  <2>1. old \in Seq(Snaps) /\ t.redo_stack \in Seq(Snaps) /\ Len(old) + Len(t.redo_stack) <= MAX_UNDO
    BY DEF Sound, Editors, Bounded
  <2>2. Len(old) \in Nat /\ Len(t.redo_stack) \in Nat
    BY <2>1
  <2>3. \A i, j, n \in Nat : i + j <= n => i <= n
    OBVIOUS
  <2> HIDE DEF old
  <2> QED
    BY <1>2, <2>1, <2>2, <2>3
<1> HIDE DEF old, stack
<1>4. Len(stack) \in Nat \ {0}
  BY <1>1, <1>2, <1>3
<1>5. CASE t.lines = s.lines
  <2>1. Len(stack) \in 1 .. Len(stack) /\ Len(stack) > Len(stack) - (k + 1)
    BY <1>4
  <2>2. stack[Len(stack)].lines = s.lines
    BY <1>1, <1>5, SnapshotIs DEF Last
  <2> QED
    BY <2>1, <2>2 DEF Reaches, Recorded, Pushed, stack
<1>6. CASE Reaches(old, s.lines, k)
  <2>1. PICK i \in 1 .. Len(old) : old[i].lines = s.lines /\ i > Len(old) - k
    BY <1>6 DEF Reaches
  <2> DEFINE j == IF full THEN i - 1 ELSE i
  <2>2. /\ j \in 1 .. Len(stack) - 1 /\ j \in 1 .. Len(stack) /\ j > Len(stack) - (k + 1)
        /\ (IF full THEN j + 1 ELSE j) = i
    <3>1. CASE full
      BY <1>1, <1>2, <1>3, <2>1, <3>1
    <3>2. CASE ~full
      BY <1>1, <1>2, <1>3, <2>1, <3>2
    <3> QED
      BY <3>1, <3>2
  <2> HIDE DEF j, full
  <2>3. stack[j] = old[i]
    BY <1>1, <2>2
  <2> QED
    BY <2>1, <2>2, <2>3 DEF Reaches, Recorded, Pushed, stack
<1> QED
  BY <1>5, <1>6 DEF Recorded, old

\* How each edit leaves the text behind it, and the file it is of.
Edit(s, t) == Sound(t) /\ Visible(t) /\ Marked(s, t)

Tabs(s, tabbed, i) == IF i = 0 THEN s ELSE Insert(tabbed[i - 1], Space)
TabsUpTo(s) == CHOOSE tabbed : tabbed = [i \in 0 .. TabWidth |-> Tabs(s, tabbed, i)]

LEMMA TabsAre ==
  ASSUME NEW s, Sound(s)
  PROVE  TabsUpTo(s) = [i \in 0 .. TabWidth |-> Tabs(s, TabsUpTo(s), i)]
<1> DEFINE V == {t \in Editors : Sound(t)}
           step == [p \in (1 .. TabWidth) \X V |-> Insert(p[2], Space)]
<1>0. TabWidth \in Nat /\ Space \in Bytes
  BY NotepadAssumption DEF Bytes
<1>1. s \in V
  BY DEF Sound
<1>2. step \in [(1 .. TabWidth) \X V -> V]
  <2>1. \A t \in V : Insert(t, Space) \in V
    BY <1>0, InsertSound DEF Sound
  <2> HIDE DEF V
  <2> QED
    BY <2>1
<1> HIDE DEF V
<1>3. PICK f : Follows(f, TabWidth, V, s, step)
  <2> HIDE DEF step
  <2> QED
    BY <1>0, <1>1, <1>2, Recursion
<1>4. ASSUME NEW i \in 0 .. TabWidth PROVE f[i] = Tabs(s, f, i)
  <2>1. CASE i = 0
    BY <1>3, <2>1 DEF Follows, Tabs
  <2>2. CASE i # 0
    <3>1. i \in 1 .. TabWidth /\ f[i - 1] \in V /\ f[i] = step[<<i, f[i - 1]>>]
      BY <1>3, <2>2 DEF Follows
    <3>2. f[i] = Insert(f[i - 1], Space)
      BY <3>1
    <3> QED
      BY <2>2, <3>2 DEF Tabs
  <2> QED
    BY <2>1, <2>2
<1>5. f \in [0 .. TabWidth -> V]
  BY <1>3 DEF Follows
<1>6. f = [i \in 0 .. TabWidth |-> Tabs(s, f, i)]
  BY <1>4, <1>5
<1> QED
  BY <1>6 DEF TabsUpTo

\* A tab, typed where the text of r is still to be undone to.
LEMMA InsertTabSound ==
  ASSUME NEW s, Sound(s), NEW r, Recorded(r, s, 1)
  PROVE  LET t == InsertTab(s)
         IN  Edit(s, t) /\ Recorded(r, t, TabWidth + 1)
<1> DEFINE tabbed == TabsUpTo(s)
           good == {i \in 0 .. TabWidth : /\ Sound(tabbed[i]) /\ Marked(s, tabbed[i])
                                          /\ (i = 0 \/ Visible(tabbed[i]))
                                          /\ Recorded(r, tabbed[i], i + 1)}
<1>0. TabWidth \in Nat \ {0} /\ TabWidth < MAX_UNDO /\ MAX_UNDO \in Nat /\ Space \in Bytes
  BY NotepadAssumption DEF Bytes
<1>1. tabbed = [i \in 0 .. TabWidth |-> Tabs(s, tabbed, i)]
  BY TabsAre
<1>2. InsertTab(s) = tabbed[TabWidth]
  BY DEF InsertTab, TabsUpTo, Tabs
<1> HIDE DEF tabbed
<1>3. \A i \in 0 .. TabWidth : tabbed[i] = Tabs(s, tabbed, i)
  BY <1>1, Zenon
<1>4. 0 \in good
  <2>1. 0 \in 0 .. TabWidth
    BY <1>0
  <2>2. tabbed[0] = s
    BY <1>3, <2>1 DEF Tabs
  <2>3. Marked(s, s) /\ 0 + 1 = 1
    BY DEF Marked
  <2> QED
    BY <2>1, <2>2, <2>3
<1>5. ASSUME NEW i \in 1 .. TabWidth, i - 1 \in good PROVE i \in good
  <2> DEFINE t == tabbed[i - 1]
             u == tabbed[i]
  <2>1. i \in 0 .. TabWidth /\ i # 0 /\ i \in Nat /\ i < MAX_UNDO /\ i - 1 + 1 = i
    BY <1>0
  <2>2. u = Insert(t, Space)
    BY <1>3, <2>1 DEF Tabs
  <2>3. Sound(t) /\ Marked(s, t) /\ Recorded(r, t, i)
    BY <1>5, <2>1
  <2> HIDE DEF t
  <2>4. Sound(u) /\ Visible(u) /\ Marked(t, u) /\ Pushed(t, u)
    BY <1>0, <2>2, <2>3, InsertSound
  <2>5. Marked(s, u)
    BY <2>3, <2>4, MarkedTrans, SoundModified
  <2>6. Recorded(r, u, i + 1)
    BY <2>1, <2>3, <2>4, PushedRecords
  <2> QED
    BY <2>1, <2>4, <2>5, <2>6
<1> HIDE DEF good
<1>6. TabWidth \in good
  BY <1>0, <1>4, <1>5, Steps
<1> QED
  BY <1>0, <1>2, <1>6 DEF good, Edit

Pastes(s, pasted, i) ==
  IF i = 0 THEN PushUndo(s) ELSE InsertByte(pasted[i - 1], s.clipboard[i])
PastesUpTo(s) == CHOOSE pasted : pasted = [i \in 0 .. Len(s.clipboard) |-> Pastes(s, pasted, i)]

LEMMA ClipboardIs ==
  ASSUME NEW s, Sound(s)
  PROVE  Len(s.clipboard) \in Nat /\ \A i \in 1 .. Len(s.clipboard) : s.clipboard[i] \in Bytes
<1>1. s.clipboard \in Seq(Bytes)
  BY DEF Sound, Editors
<1> QED
  BY <1>1

LEMMA PastesAre ==
  ASSUME NEW s, Sound(s)
  PROVE  PastesUpTo(s) = [i \in 0 .. Len(s.clipboard) |-> Pastes(s, PastesUpTo(s), i)]
<1> DEFINE n == Len(s.clipboard)
           V == {t \in Editors : Sound(t)}
           step == [p \in (1 .. n) \X V |-> InsertByte(p[2], s.clipboard[p[1]])]
<1>0. n \in Nat /\ \A i \in 1 .. n : s.clipboard[i] \in Bytes
  BY ClipboardIs
<1>1. PushUndo(s) \in V
  BY PushUndoSound DEF Sound
<1> HIDE DEF n
<1>2. step \in [(1 .. n) \X V -> V]
  <2>1. \A i \in 1 .. n : \A t \in V : InsertByte(t, s.clipboard[i]) \in V
    BY <1>0, InsertByteSound DEF Sound
  <2> HIDE DEF V
  <2> QED
    BY <2>1
<1> HIDE DEF V
<1>3. PICK f : Follows(f, n, V, PushUndo(s), step)
  <2> HIDE DEF step
  <2> QED
    BY <1>0, <1>1, <1>2, Recursion
<1>4. ASSUME NEW i \in 0 .. n PROVE f[i] = Pastes(s, f, i)
  <2>1. CASE i = 0
    BY <1>3, <2>1 DEF Follows, Pastes
  <2>2. CASE i # 0
    <3>1. i \in 1 .. n /\ f[i - 1] \in V /\ f[i] = step[<<i, f[i - 1]>>]
      BY <1>3, <2>2 DEF Follows
    <3>2. f[i] = InsertByte(f[i - 1], s.clipboard[i])
      BY <3>1
    <3> QED
      BY <2>2, <3>2 DEF Pastes
  <2> QED
    BY <2>1, <2>2
<1>5. f \in [0 .. n -> V]
  BY <1>3 DEF Follows
<1>6. f = [i \in 0 .. n |-> Pastes(s, f, i)]
  BY <1>4, <1>5
<1> QED
  BY <1>6 DEF PastesUpTo, n

LEMMA PasteSound ==
  ASSUME NEW s, Sound(s)
  PROVE  Edit(s, Paste(s)) /\ Pushed(s, Paste(s))
<1> DEFINE n == Len(s.clipboard)
           pasted == PastesUpTo(s)
           good == {i \in 0 .. n : Sound(pasted[i]) /\ Aside(PushUndo(s), pasted[i])}
<1>0. n \in Nat /\ \A i \in 1 .. n : s.clipboard[i] \in Bytes
  BY ClipboardIs
<1>1. pasted = [i \in 0 .. n |-> Pastes(s, pasted, i)]
  BY PastesAre
<1>2. Paste(s) = EnsureVisible([pasted[n] EXCEPT !.modified = TRUE])
  BY DEF Paste, PastesUpTo, Pastes
<1> HIDE DEF pasted, n
<1>3. \A i \in 0 .. n : pasted[i] = Pastes(s, pasted, i)
  BY <1>1, Zenon
<1>4. 0 \in good
  <2>1. 0 \in 0 .. n
    BY <1>0
  <2>2. pasted[0] = PushUndo(s)
    BY <1>3, <2>1 DEF Pastes
  <2>3. Sound(PushUndo(s)) /\ Aside(PushUndo(s), PushUndo(s))
    BY PushUndoSound DEF Aside
  <2> QED
    BY <2>1, <2>2, <2>3
<1>5. ASSUME NEW i \in 1 .. n, i - 1 \in good PROVE i \in good
  <2> DEFINE t == pasted[i - 1]
             u == pasted[i]
  <2>1. i \in 0 .. n /\ i # 0
    BY <1>0
  <2>2. u = InsertByte(t, s.clipboard[i])
    BY <1>3, <2>1 DEF Pastes
  <2>3. Sound(t) /\ Aside(PushUndo(s), t)
    BY <1>5
  <2> HIDE DEF t
  <2>4. Sound(u) /\ Aside(t, u)
    BY <1>0, <2>2, <2>3, InsertByteSound
  <2>5. Aside(PushUndo(s), u)
    BY <2>3, <2>4 DEF Aside
  <2> QED
    BY <2>1, <2>4, <2>5
<1> HIDE DEF good
<1>6. n \in good
  BY <1>0, <1>4, <1>5, Steps
<1>7. Sound(pasted[n]) /\ Aside(PushUndo(s), pasted[n])
  BY <1>6 DEF good
<1> QED
  BY <1>2, <1>7, Remarked DEF Edit

-----------------------------------------------------------------------------
(* Files: Lines takes a file apart, Content puts it together again.           *)

Joins(lines, text, r) == IF r = 0 THEN lines[1] ELSE text[r - 1] \o <<NL>> \o lines[r + 1]
JoinsUpTo(lines) == CHOOSE text : text = [r \in 0 .. Len(lines) - 1 |-> Joins(lines, text, r)]

LEMMA ByteLines ==
  ASSUME NEW lines \in Docs
  PROVE  /\ Len(lines) - 1 \in Nat
         /\ \A r \in 1 .. Len(lines) : lines[r] \in Seq(Bytes)
         /\ <<NL>> \in Seq(Bytes)
<1>1. \A r \in 1 .. Len(lines) : lines[r] \in Seq(Chars)
  BY RowsOf
<1>2. \A r \in 1 .. Len(lines) : lines[r] \in Seq(Bytes)
  BY <1>1, SeqMonotonic DEF Bytes
<1> QED
  BY <1>2, RowsOf DEF Bytes

LEMMA JoinsAre ==
  ASSUME NEW lines \in Docs
  PROVE  /\ JoinsUpTo(lines) = [r \in 0 .. Len(lines) - 1 |-> Joins(lines, JoinsUpTo(lines), r)]
         /\ JoinsUpTo(lines) \in [0 .. Len(lines) - 1 -> Seq(Bytes)]
<1> DEFINE n == Len(lines) - 1
           V == Seq(Bytes)
           step == [p \in (1 .. n) \X V |-> p[2] \o <<NL>> \o lines[p[1] + 1]]
           text == JoinsUpTo(lines)
<1>0. n \in Nat /\ \A r \in 0 .. n : r + 1 \in 1 .. Len(lines) /\ lines[r + 1] \in V
  <2>1. n \in Nat /\ \A r \in 1 .. Len(lines) : lines[r] \in V
    BY ByteLines
  <2>2. \A r \in 0 .. n : r + 1 \in 1 .. Len(lines)
    BY RowsOf
  <2> QED
    BY <2>1, <2>2
<1>1. lines[1] \in V
  BY <1>0
<1>9. \A p \in V : \A r \in 1 .. n : p \o <<NL>> \o lines[r + 1] \in V
  <2> TAKE p \in V
  <2> TAKE r \in 1 .. n
  <2>1. lines[r + 1] \in V /\ <<NL>> \in V
    BY <1>0, ByteLines
  <2>2. p \o <<NL>> \in V
    BY <2>1, ConcatProperties
  <2> QED
    BY <2>1, <2>2, ConcatProperties
<1> HIDE DEF n
<1>2. step \in [(1 .. n) \X V -> V]
  <2> HIDE DEF V
  <2> QED
    BY <1>9
<1> HIDE DEF V
<1>3. PICK f : Follows(f, n, V, lines[1], step)
  <2> HIDE DEF step
  <2> QED
    BY <1>0, <1>1, <1>2, Recursion
<1>4. ASSUME NEW r \in 0 .. n PROVE f[r] = Joins(lines, f, r)
  <2>1. CASE r = 0
    BY <1>3, <2>1 DEF Follows, Joins
  <2>2. CASE r # 0
    <3>1. r \in 1 .. n /\ f[r - 1] \in V /\ f[r] = step[<<r, f[r - 1]>>]
      BY <1>3, <2>2 DEF Follows
    <3>2. f[r] = f[r - 1] \o <<NL>> \o lines[r + 1]
      BY <3>1
    <3> QED
      BY <2>2, <3>2 DEF Joins
  <2> QED
    BY <2>1, <2>2
<1>5. f \in [0 .. n -> V]
  BY <1>3 DEF Follows
<1>6. f = [r \in 0 .. n |-> Joins(lines, f, r)]
  BY <1>4, <1>5
<1>7. text = [r \in 0 .. n |-> Joins(lines, text, r)]
  BY <1>6 DEF JoinsUpTo, n
<1> DEFINE typed == {r \in 0 .. n : text[r] \in V}
<1> HIDE DEF text
<1>8. \A r \in 0 .. n : text[r] = Joins(lines, text, r)
  BY <1>7, Zenon
<1>10. 0 \in typed
  BY <1>0, <1>1, <1>8 DEF Joins
<1>11. ASSUME NEW r \in 1 .. n, r - 1 \in typed PROVE r \in typed
  <2>1. r \in 0 .. n /\ r # 0
    BY <1>0
  <2>2. text[r] = text[r - 1] \o <<NL>> \o lines[r + 1]
    BY <1>8, <2>1 DEF Joins
  <2>3. text[r - 1] \in V
    BY <1>11
  <2>4. text[r - 1] \o <<NL>> \o lines[r + 1] \in V
    BY <1>9, <2>3
  <2> QED
    BY <2>1, <2>2, <2>4
<1> HIDE DEF typed
<1>12. \A r \in 0 .. n : r \in typed
  BY <1>0, <1>10, <1>11, Steps
<1>13. \A r \in 0 .. n : text[r] \in V
  BY <1>12 DEF typed
<1>14. text \in [0 .. n -> V]
  <2> DEFINE g == [r \in 0 .. n |-> Joins(lines, text, r)]
  <2>1. \A r \in 0 .. n : Joins(lines, text, r) \in V
    BY <1>8, <1>13
  <2>2. g \in [0 .. n -> V]
    BY <2>1
  <2> QED
    BY <1>7, <2>2
<1> QED
  BY <1>7, <1>14 DEF n, V, text

\* Content is what its equation says, and a file.
LEMMA ContentIs ==
  ASSUME NEW lines \in Docs
  PROVE  /\ Content(lines) = JoinsUpTo(lines)[Len(lines) - 1]
         /\ Content(lines) \in Seq(Bytes)
         /\ JoinsUpTo(lines)[0] = lines[1]
         /\ \A r \in 1 .. Len(lines) - 1 :
              /\ JoinsUpTo(lines)[r - 1] \in Seq(Bytes)
              /\ JoinsUpTo(lines)[r] = JoinsUpTo(lines)[r - 1] \o <<NL>> \o lines[r + 1]
<1> DEFINE n == Len(lines) - 1
           text == JoinsUpTo(lines)
<1>1. text = [r \in 0 .. n |-> Joins(lines, text, r)] /\ text \in [0 .. n -> Seq(Bytes)]
  BY JoinsAre
<1>2. n \in Nat
  BY ByteLines
<1>3. Content(lines) = text[n]
  BY DEF Content, JoinsUpTo, Joins
<1> HIDE DEF text, n
<1>4. \A r \in 0 .. n : text[r] = Joins(lines, text, r)
  BY <1>1, Zenon
<1>5. 0 \in 0 .. n /\ n \in 0 .. n /\ \A r \in 1 .. n : r \in 0 .. n /\ r # 0 /\ r - 1 \in 0 .. n
  BY <1>2
<1>6. text[0] = lines[1]
  BY <1>4, <1>5 DEF Joins
<1>7. ASSUME NEW r \in 1 .. n PROVE text[r] = text[r - 1] \o <<NL>> \o lines[r + 1]
  BY <1>4, <1>5 DEF Joins
<1>8. text[n] \in Seq(Bytes) /\ \A r \in 1 .. n : text[r - 1] \in Seq(Bytes)
  BY <1>1, <1>5
<1> QED
  BY <1>3, <1>6, <1>7, <1>8 DEF text, n

\* What comes before a row does not depend on what comes after.
LEMMA JoinsAgree ==
  ASSUME NEW short \in Docs, NEW long \in Docs, NEW m \in Nat,
         m < Len(short), m < Len(long),
         \A r \in 1 .. m + 1 : short[r] = long[r]
  PROVE  JoinsUpTo(short)[m] = JoinsUpTo(long)[m]
<1> DEFINE a == JoinsUpTo(short)
           b == JoinsUpTo(long)
           same == {r \in 0 .. m : a[r] = b[r]}
<1>1. /\ a[0] = short[1]
      /\ \A r \in 1 .. Len(short) - 1 : a[r] = a[r - 1] \o <<NL>> \o short[r + 1]
  BY ContentIs
<1>2. /\ b[0] = long[1]
      /\ \A r \in 1 .. Len(long) - 1 : b[r] = b[r - 1] \o <<NL>> \o long[r + 1]
  BY ContentIs
<1>3. Len(short) \in Nat /\ Len(long) \in Nat
  BY RowsOf
<1> HIDE DEF a, b
<1>4. 0 \in same
  <2>1. 1 \in 1 .. m + 1 /\ 0 \in 0 .. m
    OBVIOUS
  <2> QED
    BY <1>1, <1>2, <2>1
<1>5. ASSUME NEW r \in 1 .. m, r - 1 \in same PROVE r \in same
  <2>1. /\ r \in 0 .. m /\ r + 1 \in 1 .. m + 1
        /\ r \in 1 .. Len(short) - 1 /\ r \in 1 .. Len(long) - 1
    BY <1>3
  <2>2. a[r - 1] = b[r - 1] /\ short[r + 1] = long[r + 1]
    BY <1>5, <2>1
  <2> QED
    BY <1>1, <1>2, <2>1, <2>2
<1> HIDE DEF same
<1>6. m \in same
  <2>1. \A r \in 0 .. m : r \in same
    BY <1>4, <1>5, Steps
  <2> QED
    BY <2>1
<1> QED
  BY <1>6 DEF same, a, b

\* A file grows by a line break, or by another byte, as its lines do.
LEMMA ContentBreak ==
  ASSUME NEW lines \in Docs
  PROVE  /\ Append(lines, <<>>) \in Docs
         /\ Content(Append(lines, <<>>)) = Append(Content(lines), NL)
<1> DEFINE long == Append(lines, <<>>)
           n == Len(lines)
<1>1. n \in Nat \ {0} /\ lines \in Seq(Seq(Chars))
  BY RowsOf
<1>2. <<>> \in Seq(Chars)
  OBVIOUS
<1>3. /\ long \in Seq(Seq(Chars)) /\ long # <<>> /\ Len(long) = n + 1
      /\ \A r \in 1 .. n : long[r] = lines[r]
      /\ long[n + 1] = <<>>
  BY <1>1, <1>2, AppendProperties
<1> HIDE DEF long
<1>4. long \in Docs
  BY <1>3 DEF Docs
<1>5. n - 1 \in Nat /\ n - 1 < Len(lines) /\ n - 1 < Len(long) /\ n - 1 + 1 = n
      /\ n \in 1 .. Len(long) - 1 /\ Len(long) - 1 = n
  BY <1>1, <1>3
<1>6. JoinsUpTo(lines)[n - 1] = JoinsUpTo(long)[n - 1]
  <2>1. \A r \in 1 .. n - 1 + 1 : lines[r] = long[r]
    BY <1>3, <1>5
  <2> HIDE DEF n
  <2> QED
    BY <1>4, <1>5, <2>1, JoinsAgree
<1>7. Content(lines) = JoinsUpTo(lines)[n - 1] /\ Content(lines) \in Seq(Bytes)
  BY ContentIs
<1>8. /\ Content(long) = JoinsUpTo(long)[n]
      /\ JoinsUpTo(long)[n] = JoinsUpTo(long)[n - 1] \o <<NL>> \o long[n + 1]
  BY <1>4, <1>5, ContentIs
<1> HIDE DEF n
<1>9. Content(long) = (Content(lines) \o <<NL>>) \o <<>>
  BY <1>3, <1>6, <1>7, <1>8
<1>10. Append(Content(lines), NL) = Content(lines) \o <<NL>> /\ NL \in Bytes
  BY <1>7, AppendIsConcat DEF Bytes
<1>11. Content(lines) \o <<NL>> \in Seq(Bytes)
  BY <1>7, ByteLines, ConcatProperties
<1>12. (Content(lines) \o <<NL>>) \o <<>> = Content(lines) \o <<NL>>
  BY <1>11, ConcatEmptySeq
<1> QED
  BY <1>4, <1>9, <1>10, <1>12 DEF long

LEMMA ContentByte ==
  ASSUME NEW lines \in Docs, NEW b \in Chars
  PROVE  LET more == [lines EXCEPT ![Len(lines)] = Append(@, b)]
         IN  more \in Docs /\ Content(more) = Append(Content(lines), b)
<1> DEFINE n == Len(lines)
           last == lines[n]
           more == [lines EXCEPT ![n] = Append(last, b)]
<1>1. /\ n \in Nat \ {0} /\ lines \in Seq(Seq(Chars)) /\ last \in Seq(Chars) /\ last \in Seq(Bytes)
  BY RowsOf, ByteLines
<1>2. Append(last, b) \in Seq(Chars) /\ b \in Bytes
  BY <1>1, AppendProperties DEF Bytes
<1>3. /\ more \in Seq(Seq(Chars)) /\ Len(more) = n /\ more[n] = Append(last, b)
      /\ \A r \in 1 .. n : r # n => more[r] = lines[r]
  <2> HIDE DEF last
  <2> QED
    BY <1>1, <1>2, ExceptSeq
<1> HIDE DEF more
<1>4. more \in Docs
  BY <1>1, <1>3 DEF Docs
<1>5. Content(lines) = JoinsUpTo(lines)[n - 1] /\ Content(lines) \in Seq(Bytes)
  BY ContentIs
<1>6. Content(more) = JoinsUpTo(more)[n - 1]
  BY <1>3, <1>4, ContentIs
<1>7. Append(last, b) = last \o <<b>> /\ <<b>> \in Seq(Bytes)
      /\ Append(Content(lines), b) = Content(lines) \o <<b>>
  <2> HIDE DEF last
  <2>1. Append(last, b) = last \o <<b>>
    BY <1>1, <1>2, AppendIsConcat
  <2>2. Append(Content(lines), b) = Content(lines) \o <<b>>
    BY <1>2, <1>5, AppendIsConcat
  <2>3. <<b>> \in Seq(Bytes)
    BY <1>2
  <2> QED
    BY <2>1, <2>2, <2>3
<1>8. CASE n = 1
  <2>1. JoinsUpTo(lines)[0] = lines[1] /\ JoinsUpTo(more)[0] = more[1]
    BY <1>4, ContentIs
  <2>2. n - 1 = 0 /\ last = lines[1] /\ more[1] = Append(last, b)
    BY <1>3, <1>8
  <2>3. Content(lines) = last /\ Content(more) = Append(last, b)
    BY <1>5, <1>6, <2>1, <2>2
  <2> QED
    BY <1>4, <2>3 DEF more
<1>9. CASE n # 1
  <2> DEFINE above == JoinsUpTo(lines)[n - 2] \o <<NL>>
  <2>1. /\ n - 2 \in Nat /\ n - 2 < Len(lines) /\ n - 2 < Len(more) /\ n - 2 + 1 = n - 1
        /\ n - 1 \in 1 .. Len(lines) - 1 /\ n - 1 \in 1 .. Len(more) - 1
        /\ n - 1 - 1 = n - 2 /\ n - 1 + 1 = n
        /\ \A r \in 1 .. n - 2 + 1 : r \in 1 .. n /\ r # n
    BY <1>1, <1>3, <1>9
  <2>2. JoinsUpTo(lines)[n - 2] = JoinsUpTo(more)[n - 2]
    <3>1. \A r \in 1 .. n - 2 + 1 : lines[r] = more[r]
      BY <1>3, <2>1
    <3> HIDE DEF n
    <3> QED
      BY <1>4, <2>1, <3>1, JoinsAgree
  <2>3. /\ JoinsUpTo(lines)[n - 2] \in Seq(Bytes)
        /\ JoinsUpTo(lines)[n - 1] = JoinsUpTo(lines)[n - 2] \o <<NL>> \o lines[n]
    <3>1. /\ JoinsUpTo(lines)[n - 1 - 1] \in Seq(Bytes)
          /\ JoinsUpTo(lines)[n - 1] = JoinsUpTo(lines)[n - 1 - 1] \o <<NL>> \o lines[n - 1 + 1]
      BY <2>1, ContentIs
    <3> QED
      BY <2>1, <3>1
  <2>4. JoinsUpTo(more)[n - 1] = JoinsUpTo(more)[n - 2] \o <<NL>> \o more[n]
    <3>1. JoinsUpTo(more)[n - 1] = JoinsUpTo(more)[n - 1 - 1] \o <<NL>> \o more[n - 1 + 1]
      BY <1>4, <2>1, ContentIs
    <3> QED
      BY <2>1, <3>1
  <2>5. above \in Seq(Bytes)
    BY <2>3, ByteLines, ConcatProperties
  <2>6. Content(lines) = above \o last /\ Content(more) = above \o (last \o <<b>>)
    BY <1>3, <1>5, <1>6, <1>7, <2>2, <2>3, <2>4
  <2> DEFINE byte == <<b>>
  <2>7. last \in Seq(Bytes) /\ byte \in Seq(Bytes)
    BY <1>1, <1>7
  <2> HIDE DEF above, last, byte
  <2>8. above \o (last \o byte) = (above \o last) \o byte
    BY <2>5, <2>7, ConcatAssociative, SMTT(40)
  <2>9. above \o (last \o <<b>>) = (above \o last) \o <<b>>
    BY <2>8 DEF byte
  <2> QED
    BY <1>4, <1>7, <2>6, <2>9 DEF more, last
<1> QED
  BY <1>8, <1>9

Breaks(content, lines, i) ==
  IF i = 0 THEN << <<>> >>
  ELSE IF content[i] = NL THEN Append(lines[i - 1], <<>>)
  ELSE [lines[i - 1] EXCEPT ![Len(lines[i - 1])] = Append(@, content[i])]
BreaksUpTo(content) ==
  CHOOSE lines : lines = [i \in 0 .. Len(content) |-> Breaks(content, lines, i)]

NextLines(lines, b) ==
  IF b = NL THEN Append(lines, <<>>) ELSE [lines EXCEPT ![Len(lines)] = Append(@, b)]

LEMMA NextLinesIs ==
  ASSUME NEW lines \in Docs, NEW b \in Bytes
  PROVE  NextLines(lines, b) \in Docs /\ Content(NextLines(lines, b)) = Append(Content(lines), b)
<1>1. CASE b = NL
  BY <1>1, ContentBreak DEF NextLines
<1>2. CASE b # NL
  <2>1. b \in Chars
    BY <1>2 DEF Bytes
  <2>2. NextLines(lines, b) = [lines EXCEPT ![Len(lines)] = Append(@, b)]
    BY <1>2 DEF NextLines
  <2> QED
    BY <2>1, <2>2, ContentByte
<1> QED
  BY <1>1, <1>2

LEMMA OneLine == << <<>> >> \in Docs /\ Content(<< <<>> >>) = <<>>
<1> DEFINE one == << <<>> >>
<1>1. one \in Seq(Seq(Chars)) /\ one # <<>> /\ Len(one) = 1 /\ one[1] = <<>>
  OBVIOUS
<1> HIDE DEF one
<1>2. one \in Docs
  BY <1>1 DEF Docs
<1>3. Content(one) = JoinsUpTo(one)[1 - 1] /\ JoinsUpTo(one)[0] = <<>>
  BY <1>1, <1>2, ContentIs
<1>4. 1 - 1 = 0
  OBVIOUS
<1> QED
  BY <1>2, <1>3, <1>4 DEF one

\* A file that is opened and saved is the same file.
LEMMA ContentOfLines ==
  ASSUME NEW content \in Seq(Bytes)
  PROVE  Lines(content) \in Docs /\ Content(Lines(content)) = content
<1> DEFINE n == Len(content)
           step == [p \in (1 .. n) \X Docs |-> NextLines(p[2], content[p[1]])]
           lines == BreaksUpTo(content)
<1>0. n \in Nat /\ \A i \in 1 .. n : content[i] \in Bytes
  OBVIOUS
<1>1. Lines(content) = lines[n]
  BY DEF Lines, BreaksUpTo, Breaks
<1> HIDE DEF n
<1>2. step \in [(1 .. n) \X Docs -> Docs]
  <2>1. \A i \in 1 .. n : \A t \in Docs : NextLines(t, content[i]) \in Docs
    BY <1>0, NextLinesIs
  <2> QED
    BY <2>1
<1>3. PICK f : Follows(f, n, Docs, << <<>> >>, step)
  <2> DEFINE one == << <<>> >>
  <2>1. one \in Docs
    BY OneLine
  <2> HIDE DEF step, one
  <2>2. \E f : Follows(f, n, Docs, one, step)
    BY <1>0, <1>2, <2>1, Recursion
  <2> QED
    BY <2>2 DEF one
<1>4. ASSUME NEW i \in 0 .. n PROVE f[i] = Breaks(content, f, i)
  <2>1. CASE i = 0
    BY <1>3, <2>1 DEF Follows, Breaks
  <2>2. CASE i # 0
    <3>1. i \in 1 .. n /\ f[i - 1] \in Docs /\ f[i] = step[<<i, f[i - 1]>>]
      BY <1>3, <2>2 DEF Follows
    <3>2. f[i] = NextLines(f[i - 1], content[i])
      BY <3>1
    <3> QED
      BY <2>2, <3>2 DEF Breaks, NextLines
  <2> QED
    BY <2>1, <2>2
<1>5. f \in [0 .. n -> Docs]
  BY <1>3 DEF Follows
<1>6. f = [i \in 0 .. n |-> Breaks(content, f, i)]
  BY <1>4, <1>5
<1>7. lines = [i \in 0 .. n |-> Breaks(content, lines, i)]
  BY <1>6 DEF BreaksUpTo, n
<1> DEFINE good == {i \in 0 .. n : lines[i] \in Docs /\ Content(lines[i]) = SubSeq(content, 1, i)}
<1> HIDE DEF lines
<1>8. \A i \in 0 .. n : lines[i] = Breaks(content, lines, i)
  BY <1>7, Zenon
<1>9. 0 \in good
  <2>1. 0 \in 0 .. n
    BY <1>0
  <2>2. lines[0] = << <<>> >>
    BY <1>8, <2>1 DEF Breaks
  <2>3. SubSeq(content, 1, 0) = <<>>
    BY SubSeqEmpty
  <2> QED
    BY <2>1, <2>2, <2>3, OneLine
<1>10. ASSUME NEW i \in 1 .. n, i - 1 \in good PROVE i \in good
  <2> DEFINE old == lines[i - 1]
  <2>1. i \in 0 .. n /\ i # 0 /\ content[i] \in Bytes
    BY <1>0
  <2>2. lines[i] = NextLines(old, content[i])
    BY <1>8, <2>1 DEF Breaks, NextLines
  <2>3. old \in Docs /\ Content(old) = SubSeq(content, 1, i - 1)
    BY <1>10
  <2> HIDE DEF old
  <2>4. lines[i] \in Docs /\ Content(lines[i]) = Append(SubSeq(content, 1, i - 1), content[i])
    BY <2>1, <2>2, <2>3, NextLinesIs
  <2>5. SubSeq(content, 1, i) = SubSeq(content, 1, i - 1) \o <<content[i]>>
    <3>1. 1 \in 1 .. Len(content) /\ i \in 1 .. Len(content)
      BY <1>0 DEF n
    <3> QED
      BY <3>1, SubSeqRecursiveSecond
  <2>6. Append(SubSeq(content, 1, i - 1), content[i]) = SubSeq(content, 1, i - 1) \o <<content[i]>>
    <3>1. SubSeq(content, 1, i - 1) \in Seq(Bytes)
      <4>1. 1 \in Nat \ {0} /\ i - 1 \in Int /\ i - 1 <= Len(content)
        BY <1>0 DEF n
      <4> QED
        BY <4>1, Piece
    <3> QED
      BY <2>1, <3>1, AppendIsConcat
  <2> QED
    BY <2>1, <2>4, <2>5, <2>6
<1> HIDE DEF good
<1>11. n \in good
  <2>1. \A i \in 0 .. n : i \in good
    BY <1>0, <1>9, <1>10, Steps
  <2> QED
    BY <1>0, <2>1
<1>12. lines[n] \in Docs /\ Content(lines[n]) = SubSeq(content, 1, n)
  BY <1>11 DEF good
<1>13. SubSeq(content, 1, n) = content
  BY SubSeqFull DEF n
<1> QED
  BY <1>1, <1>12, <1>13

-----------------------------------------------------------------------------
(* The state as a whole.                                                      *)

FilesAre ==
  /\ DOMAIN ram_files \subseteq Names
  /\ \A name \in DOMAIN ram_files : ram_files[name] \in Seq(Bytes)

NotepadInv ==
  /\ active \in {"closed", "open", "panicked"}
  /\ Sound(state) /\ Visible(state)
  /\ FilesAre
  /\ UnmodifiedIsSaved

LEMMA FilesRead ==
  ASSUME FilesAre
  PROVE  /\ FileNames \subseteq Names /\ Untitled \notin FileNames
         /\ \A name \in FileNames : ReadFile(name) \in Seq(Bytes)
BY NotepadAssumption DEF FilesAre, FileNames, ReadFile, Bytes

LEMMA FreshSound ==
  ASSUME NEW clipboard \in Seq(Bytes)
  PROVE  LET t == Fresh(clipboard)
         IN  /\ Sound(t) /\ Visible(t) /\ t.filename = Untitled /\ t.mode = "Editing"
             /\ t.clipboard = clipboard
<1> DEFINE t == Fresh(clipboard)
<1>1. << <<>> >> \in Docs /\ Len(<< <<>> >>) = 1 /\ << <<>> >>[1] = <<>> /\ Len(<<>>) = 0
  BY OneLine
<1>2. <<>> \in Seq(Snaps) /\ None \in Selections
  BY DEF Selections
<1>3. /\ t.lines = << <<>> >> /\ t.row = 1 /\ t.col = 0 /\ t.scroll_row = 1 /\ t.scroll_col = 0
      /\ t.undo_stack = <<>> /\ t.redo_stack = <<>> /\ t.filename = Untitled /\ t.mode = "Editing"
      /\ t.clipboard = clipboard
  BY DEF Fresh
<1>4. t \in Editors
  BY <1>1, <1>2 DEF Fresh, Editors, Modes
<1> HIDE DEF t
<1>5. InText(t) /\ Bounded(t)
  BY <1>1, <1>3, NotepadAssumption DEF InText, Bounded
<1>6. Visible(t)
  BY <1>3, NotepadAssumption DEF Visible
<1> QED
  BY <1>3, <1>4, <1>5, <1>6 DEF Sound, t

\* Opening a file: its lines, unmodified, or a name no file has.
LEMMA OpenSound ==
  ASSUME NEW s, Sound(s), Visible(s), FilesAre, NEW name \in Names
  PROVE  LET t == OpenFile(s, name)
         IN  /\ Sound(t) /\ Visible(t) /\ t.filename = name
             /\ name \in FileNames => ReadFile(name) = Content(t.lines)
             /\ t.lines = s.lines \/ StartsOver(t)
<1> DEFINE t == OpenFile(s, name)
<1>1. CASE name \notin FileNames
  <2> DEFINE u == [s EXCEPT !.filename = name]
  <2>1. t = u
    BY <1>1 DEF OpenFile
  <2>2. /\ u \in Editors /\ u.lines = s.lines /\ u.row = s.row /\ u.col = s.col
        /\ u.scroll_row = s.scroll_row /\ u.scroll_col = s.scroll_col
        /\ u.undo_stack = s.undo_stack /\ u.redo_stack = s.redo_stack /\ u.filename = name
    BY DEF Sound, Editors
  <2> HIDE DEF u, t
  <2>3. Sound(u) /\ Visible(u)
    BY <2>2 DEF Sound, InText, Bounded, Visible
  <2> QED
    BY <1>1, <2>1, <2>2, <2>3 DEF t
<1>2. CASE name \in FileNames
  <2> DEFINE fresh == Fresh(s.clipboard)
             lines == Lines(ReadFile(name))
             u == [fresh EXCEPT !.lines = lines, !.filename = name]
  <2>1. t = u
    BY <1>2 DEF OpenFile
  <2>2. lines \in Docs /\ Content(lines) = ReadFile(name)
    BY <1>2, FilesRead, ContentOfLines
  <2>3. s.clipboard \in Seq(Bytes)
    BY DEF Sound, Editors
  <2>4. Sound(fresh) /\ Visible(fresh) /\ fresh.row = 1 /\ fresh.col = 0 /\ StartsOver(fresh)
    BY <2>3, FreshSound DEF Fresh, StartsOver
  <2> HIDE DEF fresh, lines
  <2>5. /\ u \in Editors /\ u.lines = lines /\ u.row = 1 /\ u.col = 0
        /\ u.scroll_row = fresh.scroll_row /\ u.scroll_col = fresh.scroll_col
        /\ u.undo_stack = fresh.undo_stack /\ u.redo_stack = fresh.redo_stack /\ u.filename = name
        /\ u.modified = fresh.modified
    BY <2>2, <2>4 DEF Sound, Editors
  <2> HIDE DEF u, t
  <2>6. 1 \in 1 .. Len(lines) /\ 0 \in 0 .. Len(lines[1])
    <3>1. 1 \in 1 .. Len(lines)
      BY <2>2, RowsOf
    <3>2. Len(lines[1]) \in Nat
      BY <2>2, <3>1, RowsOf
    <3> QED
      BY <3>1, <3>2
  <2>7. Sound(u) /\ Visible(u)
    BY <2>4, <2>5, <2>6 DEF Sound, InText, Bounded, Visible
  <2>8. StartsOver(u)
    BY <2>4, <2>5 DEF StartsOver
  <2> QED
    BY <2>1, <2>2, <2>5, <2>7, <2>8 DEF t
<1> QED
  BY <1>1, <1>2

-----------------------------------------------------------------------------
(* What a key does.                                                           *)

\* Deleting the selection, which leaves a way back to the text.
LEMMA DeleteFirst ==
  ASSUME NEW s, Sound(s), Visible(s), ~DeletePanics(s)
  PROVE  Edit(s, DeleteSelection(s)) /\ Recorded(s, DeleteSelection(s), 1)
<1> DEFINE t == DeleteSelection(s)
<1>1. /\ Sound(t) /\ Visible(t) /\ Marked(s, t)
      /\ Pushed(s, t) \/ t.lines = s.lines
  BY DeleteSelectionSound
<1> HIDE DEF t
<1>2. Recorded(s, s, 0) /\ 0 \in Nat /\ 0 < MAX_UNDO /\ 0 + 1 = 1
  BY NotepadAssumption DEF Recorded
<1>3. Recorded(s, t, 1)
  <2>1. CASE Pushed(s, t)
    BY <1>2, <2>1, PushedRecords
  <2>2. CASE t.lines = s.lines
    BY <2>2 DEF Recorded
  <2> QED
    BY <1>1, <2>1, <2>2
<1> QED
  BY <1>1, <1>3 DEF Edit, t

\* One more entry after it.
LEMMA ThenPushed ==
  ASSUME NEW s, NEW t, NEW u, Edit(s, t), Recorded(s, t, 1), Edit(t, u), Pushed(t, u)
  PROVE  Edit(s, u) /\ Recorded(s, u, 2)
<1>1. 1 \in Nat /\ 1 < MAX_UNDO /\ 1 + 1 = 2
  BY NotepadAssumption
<1>2. Recorded(s, u, 2)
  BY <1>1, PushedRecords DEF Edit
<1>3. Marked(s, u)
  BY MarkedTrans, SoundModified DEF Edit
<1> QED
  BY <1>2, <1>3 DEF Edit

LEMMA PushedEdit ==
  ASSUME NEW s, NEW t, Edit(s, t), Pushed(s, t), Sound(s)
  PROVE  Recorded(s, t, 1)
<1>1. Recorded(s, s, 0) /\ 0 \in Nat /\ 0 < MAX_UNDO /\ 0 + 1 = 1
  BY NotepadAssumption DEF Recorded
<1> QED
  BY <1>1, PushedRecords

EditDone(k) == active' = active /\ Edit(state, state') /\ Recorded(state, state', k)
Panicked == active' = "panicked" /\ state' = state

LEMMA EditKeyDoes ==
  ASSUME NotepadInv, EditKey
  PROVE  Panicked \/ \E k \in Nat : EditDone(k)
<1>1. Sound(state) /\ Visible(state)
  BY DEF NotepadInv
<1> DEFINE d == DeleteSelection(state)
<1>2. ASSUME ~DeletePanics(state) PROVE Edit(state, d) /\ Recorded(state, d, 1)
  BY <1>1, <1>2, DeleteFirst
<1>3. ASSUME NEW t, Replacing(t),
             ~DeletePanics(state) => \E k \in Nat : Edit(state, t) /\ Recorded(state, t, k)
      PROVE  Panicked \/ \E k \in Nat : EditDone(k)
  BY <1>3 DEF Replacing, Becomes, Panicked, EditDone
<1> HIDE DEF d
<1>4. CASE TypeKey
  <2>1. PICK b \in Bytes : Replacing(Insert(d, b))
    BY <1>4 DEF TypeKey, Bytes, d
  <2>2. ASSUME ~DeletePanics(state) PROVE Edit(state, Insert(d, b)) /\ Recorded(state, Insert(d, b), 2)
    <3>1. Edit(state, d) /\ Recorded(state, d, 1)
      BY <1>2, <2>2
    <3>2. Edit(d, Insert(d, b)) /\ Pushed(d, Insert(d, b))
      BY <3>1, InsertSound DEF Edit
    <3> QED
      BY <3>1, <3>2, ThenPushed
  <2> QED
    BY <1>3, <2>1, <2>2
<1>5. CASE TabKey
  <2>1. Replacing(InsertTab(d))
    BY <1>5 DEF TabKey, d
  <2>2. ASSUME ~DeletePanics(state)
        PROVE  Edit(state, InsertTab(d)) /\ Recorded(state, InsertTab(d), TabWidth + 1)
    <3>1. Edit(state, d) /\ Recorded(state, d, 1)
      BY <1>2, <2>2
    <3>2. Edit(d, InsertTab(d)) /\ Recorded(state, InsertTab(d), TabWidth + 1)
      BY <3>1, InsertTabSound DEF Edit
    <3>3. Marked(state, InsertTab(d))
      BY <3>1, <3>2, MarkedTrans, SoundModified DEF Edit
    <3> QED
      BY <3>2, <3>3 DEF Edit
  <2>3. TabWidth + 1 \in Nat
    BY NotepadAssumption
  <2> QED
    BY <1>3, <2>1, <2>2, <2>3
<1>6. CASE BackspaceKey
  <2>1. Replacing(IF state.selection.selected THEN d ELSE Backspace(state))
    BY <1>6 DEF BackspaceKey, d
  <2>2. Edit(state, Backspace(state)) /\ Recorded(state, Backspace(state), 1)
    BY <1>1, BackspaceSound, PushedEdit DEF Edit
  <2> QED
    BY <1>2, <1>3, <2>1, <2>2
<1>7. CASE DeleteKey
  <2>1. Replacing(IF state.selection.selected THEN d ELSE Delete(state))
    BY <1>7 DEF DeleteKey, d
  <2>2. Edit(state, Delete(state)) /\ Recorded(state, Delete(state), 1)
    BY <1>1, DeleteSound, PushedEdit DEF Edit
  <2> QED
    BY <1>2, <1>3, <2>1, <2>2
<1>8. CASE CutKey
  <2> DEFINE c == Copy(state)
             t == DeleteSelection(c)
  <2>1. Replacing(t)
    BY <1>8 DEF CutKey
  <2>2. Sound(c) /\ Visible(c) /\ Marked(state, c) /\ c.lines = state.lines /\ c.selection = state.selection
    BY <1>1, CopySound
  <2> HIDE DEF c
  <2>3. DeletePanics(c) <=> DeletePanics(state)
    BY <2>2 DEF DeletePanics, Selected, From
  <2>4. ASSUME ~DeletePanics(state) PROVE Edit(state, t) /\ Recorded(state, t, 1)
    <3>1. Edit(c, t) /\ Recorded(c, t, 1)
      BY <2>2, <2>3, <2>4, DeleteFirst
    <3>2. Marked(state, t)
      BY <2>2, <3>1, MarkedTrans, SoundModified DEF Edit
    <3> QED
      BY <2>2, <3>1, <3>2 DEF Edit, Recorded
  <2> QED
    BY <1>3, <2>1, <2>4
<1>9. CASE PasteKey
  <2>1. Replacing(Paste(d))
    BY <1>9 DEF PasteKey, d
  <2>2. ASSUME ~DeletePanics(state) PROVE Edit(state, Paste(d)) /\ Recorded(state, Paste(d), 2)
    <3>1. Edit(state, d) /\ Recorded(state, d, 1)
      BY <1>2, <2>2
    <3>2. Edit(d, Paste(d)) /\ Pushed(d, Paste(d))
      BY <3>1, PasteSound DEF Edit
    <3> QED
      BY <3>1, <3>2, ThenPushed
  <2> QED
    BY <1>3, <2>1, <2>2
<1> QED
  BY <1>4, <1>5, <1>6, <1>7, <1>8, <1>9 DEF EditKey

\* The keys that do not edit.
LEMMA OtherKeyDoes ==
  ASSUME NotepadInv, UndoKey \/ RedoKey \/ CopyKey \/ MoveKey \/ SelectAllKey
  PROVE  active' = active /\ Edit(state, state')
<1>1. Sound(state) /\ Visible(state)
  BY DEF NotepadInv
<1>2. CASE UndoKey
  BY <1>1, <1>2, UndoSound DEF UndoKey, Becomes, Edit
<1>3. CASE RedoKey
  BY <1>1, <1>3, RedoSound DEF RedoKey, Becomes, Edit
<1>4. CASE CopyKey
  BY <1>1, <1>4, CopySound DEF CopyKey, Becomes, Edit
<1>5. CASE MoveKey
  BY <1>1, <1>5, MoveSound DEF MoveKey, Becomes, Edit
<1>6. CASE SelectAllKey
  BY <1>1, <1>6, SelectAllSound DEF SelectAllKey, Becomes, Edit
<1> QED
  BY <1>2, <1>3, <1>4, <1>5, <1>6

-----------------------------------------------------------------------------
(* The invariant is inductive.                                                *)

\* Files as they were, and the text saved or marked.
LEMMA FilesStay ==
  ASSUME FilesAre, ram_files' = ram_files
  PROVE  /\ FilesAre' /\ FileNames' = FileNames
         /\ \A name : ReadFile(name)' = ReadFile(name)
BY DEF FilesAre, FileNames, ReadFile

LEMMA EditKeeps ==
  ASSUME NotepadInv, active = "open", ram_files' = ram_files,
         active' \in {"closed", "open", "panicked"}, Edit(state, state')
  PROVE  NotepadInv'
<1>1. Sound(state') /\ Visible(state') /\ Marked(state, state')
  BY DEF Edit
<1>2. FilesAre' /\ FileNames' = FileNames /\ \A name : ReadFile(name)' = ReadFile(name)
  BY FilesStay DEF NotepadInv
<1>3. UnmodifiedIsSaved'
  <2> SUFFICES ASSUME ~state'.modified, state'.filename \in FileNames'
               PROVE  ReadFile(state.filename)' = Content(state.lines)'
    BY DEF UnmodifiedIsSaved
  <2>1. ~state.modified /\ state.lines = state'.lines /\ state.filename = state'.filename
    BY <1>1 DEF Marked
  <2>2. ReadFile(state.filename) = Content(state.lines)
    BY <1>2, <2>1 DEF NotepadInv, UnmodifiedIsSaved
  <2>3. ReadFile(state.filename)' = ReadFile(state.filename)
    BY <2>1 DEF ReadFile
  <2> QED
    BY <2>1, <2>2, <2>3
<1> QED
  BY <1>1, <1>2, <1>3 DEF NotepadInv, Sound, Visible, InText, Bounded

LEMMA InitInv == Init => NotepadInv
<1> SUFFICES ASSUME Init PROVE NotepadInv
  OBVIOUS
<1>1. <<>> \in Seq(Bytes)
  OBVIOUS
<1>2. Sound(state) /\ Visible(state)
  BY <1>1, FreshSound DEF Init
<1>3. FilesAre
  BY DEF Init, FilesAre
<1> QED
  BY <1>2, <1>3 DEF Init, NotepadInv, UnmodifiedIsSaved

LEMMA ModeSet ==
  ASSUME NEW s, Sound(s), Visible(s), NEW mode \in Modes
  PROVE  LET t == [s EXCEPT !.mode = mode]
         IN  Edit(s, t) /\ t.lines = s.lines /\ t.modified = s.modified
<1> DEFINE t == [s EXCEPT !.mode = mode]
<1>1. /\ t \in Editors /\ t.lines = s.lines /\ t.row = s.row /\ t.col = s.col
      /\ t.scroll_row = s.scroll_row /\ t.scroll_col = s.scroll_col
      /\ t.undo_stack = s.undo_stack /\ t.redo_stack = s.redo_stack
      /\ t.filename = s.filename /\ t.modified = s.modified
  BY DEF Sound, Editors
<1> HIDE DEF t
<1> QED
  BY <1>1 DEF Edit, Sound, InText, Bounded, Visible, Marked, t

LEMMA SavedSound ==
  ASSUME NEW s, Sound(s), Visible(s), NEW name \in Names
  PROVE  LET t == Saved([s EXCEPT !.filename = name])
         IN  Sound(t) /\ Visible(t) /\ t.lines = s.lines /\ t.filename = name
<1> DEFINE t == Saved([s EXCEPT !.filename = name])
<1>1. /\ t \in Editors /\ t.lines = s.lines /\ t.row = s.row /\ t.col = s.col
      /\ t.scroll_row = s.scroll_row /\ t.scroll_col = s.scroll_col
      /\ t.undo_stack = s.undo_stack /\ t.redo_stack = s.redo_stack /\ t.filename = name
  BY DEF Sound, Editors, Saved, Modes
<1> HIDE DEF t
<1> QED
  BY <1>1 DEF Sound, InText, Bounded, Visible, t

LEMMA Written ==
  ASSUME FilesAre, NEW name \in Names, NEW content \in Seq(Bytes), WriteFile(name, content)
  PROVE  FilesAre' /\ ReadFile(name)' = content
<1>1. ram_files' = [n \in DOMAIN ram_files \cup {name} |-> IF n = name THEN content ELSE ram_files[n]]
  BY DEF WriteFile
<1>2. DOMAIN ram_files' = DOMAIN ram_files \cup {name} /\ ram_files'[name] = content
  BY <1>1
<1>3. \A n \in DOMAIN ram_files' : ram_files'[n] \in Seq(Bytes)
  BY <1>1, <1>2 DEF FilesAre
<1>4. FilesAre'
  BY <1>2, <1>3 DEF FilesAre
<1>5. ReadFile(name)' = content
  BY <1>2 DEF ReadFile
<1> QED
  BY <1>4, <1>5

LEMMA SavingKeeps ==
  ASSUME NotepadInv, NEW name \in Names, active' = active,
         state' = Saved([state EXCEPT !.filename = name]), WriteFile(name, Content(state.lines))
  PROVE  NotepadInv'
<1>1. Sound(state) /\ Visible(state) /\ FilesAre /\ state.lines \in Docs
  BY DEF NotepadInv, Sound, Editors
<1>2. Sound(state') /\ Visible(state') /\ state'.lines = state.lines /\ state'.filename = name
  BY <1>1, SavedSound
<1>3. FilesAre' /\ ReadFile(name)' = Content(state.lines)
  BY <1>1, ContentIs, Written
<1>4. ReadFile(state.filename)' = Content(state.lines)'
  <2>1. ReadFile(state.filename)' = ReadFile(name)'
    BY <1>2 DEF ReadFile
  <2> QED
    BY <1>2, <1>3, <2>1
<1>5. UnmodifiedIsSaved'
  BY <1>4 DEF UnmodifiedIsSaved
<1> QED
  BY <1>2, <1>3, <1>5 DEF NotepadInv, Sound, Visible, InText, Bounded

LEMMA OpeningKeeps ==
  ASSUME NotepadInv, NEW name \in Names, NEW s, Sound(s), Visible(s),
         active' = "open", ram_files' = ram_files,
         state'.lines = OpenFile(s, name).lines, state'.filename = OpenFile(s, name).filename,
         Sound(state'), Visible(state')
  PROVE  NotepadInv'
<1>1. FilesAre' /\ FileNames' = FileNames /\ \A n : ReadFile(n)' = ReadFile(n)
  BY FilesStay DEF NotepadInv
<1>2. /\ state'.filename = name
      /\ name \in FileNames => ReadFile(name) = Content(state'.lines)
  BY OpenSound DEF NotepadInv
<1>3. ReadFile(state.filename)' = ReadFile(name)'
  BY <1>2 DEF ReadFile
<1>4. UnmodifiedIsSaved'
  BY <1>1, <1>2, <1>3 DEF UnmodifiedIsSaved
<1> QED
  BY <1>1, <1>4 DEF NotepadInv, Sound, Visible, InText, Bounded

LEMMA FreshKeeps ==
  ASSUME NotepadInv, active' = "open", ram_files' = ram_files, state' = Fresh(state.clipboard)
  PROVE  NotepadInv'
<1>1. state.clipboard \in Seq(Bytes)
  BY DEF NotepadInv, Sound, Editors
<1>2. Sound(state') /\ Visible(state') /\ state'.filename = Untitled
  BY <1>1, FreshSound
<1>3. FilesAre' /\ FileNames' = FileNames
  BY FilesStay DEF NotepadInv
<1>4. Untitled \notin FileNames
  BY FilesRead DEF NotepadInv
<1>5. UnmodifiedIsSaved'
  BY <1>2, <1>3, <1>4 DEF UnmodifiedIsSaved
<1> QED
  BY <1>2, <1>3, <1>5 DEF NotepadInv, Sound, Visible, InText, Bounded

LEMMA NextInv == NotepadInv /\ [Next]_vars => NotepadInv'
<1> SUFFICES ASSUME NotepadInv, [Next]_vars PROVE NotepadInv'
  OBVIOUS
<1>0. Sound(state) /\ Visible(state) /\ FilesAre
  BY DEF NotepadInv
<1>1. Edit(state, state)
  BY <1>0 DEF Edit, Marked
<1>2. CASE EditKey
  <2>1. active = "open" /\ ram_files' = ram_files
    BY <1>2 DEF EditKey, TypeKey, TabKey, BackspaceKey, DeleteKey, CutKey, PasteKey, KeyDown
  <2>2. Panicked \/ \E k \in Nat : EditDone(k)
    BY <1>2, EditKeyDoes
  <2>3. Edit(state, state') /\ active' \in {"closed", "open", "panicked"}
    BY <1>1, <2>1, <2>2 DEF Panicked, EditDone
  <2> QED
    BY <2>1, <2>3, EditKeeps
<1>3. CASE UndoKey \/ RedoKey \/ CopyKey \/ MoveKey \/ SelectAllKey
  <2>1. active = "open" /\ ram_files' = ram_files
    BY <1>3 DEF UndoKey, RedoKey, CopyKey, MoveKey, SelectAllKey, KeyDown
  <2>2. Edit(state, state') /\ active' = active
    BY <1>3, OtherKeyDoes
  <2> QED
    BY <2>1, <2>2, EditKeeps
<1>4. CASE NewKey
  BY <1>4, FreshKeeps DEF NewKey, KeyDown, Becomes
<1>5. CASE OpenKey
  <2>1. "OpenPrompt" \in Modes
    BY DEF Modes
  <2>2. Edit(state, state')
    BY <1>0, <1>5, <2>1, ModeSet DEF OpenKey, Becomes
  <2> QED
    BY <1>5, <2>2, EditKeeps DEF OpenKey, Becomes, KeyDown
<1>6. CASE SaveKey
  <2>1. CASE state.filename = Untitled
    <3>1. "SavePrompt" \in Modes
      BY DEF Modes
    <3>2. state' = [state EXCEPT !.mode = "SavePrompt"] /\ ram_files' = ram_files
          /\ active = "open" /\ active' = active
      BY <1>6, <2>1 DEF SaveKey
    <3>3. Edit(state, state')
      BY <1>0, <3>1, <3>2, ModeSet
    <3> QED
      BY <3>2, <3>3, EditKeeps
  <2>2. CASE state.filename # Untitled
    <3>1. state.filename \in Names /\ state = [state EXCEPT !.filename = state.filename]
      BY <1>0, <2>2 DEF Sound, Editors
    <3>2. /\ state' = Saved(state) /\ WriteFile(state.filename, Content(state.lines))
          /\ active' = active
      BY <1>6, <2>2 DEF SaveKey
    <3>3. state' = Saved([state EXCEPT !.filename = state.filename])
      BY <3>1, <3>2, Zenon
    <3> QED
      BY <3>1, <3>2, <3>3, SavingKeeps
  <2> QED
    BY <2>1, <2>2
<1>7. CASE PromptEnter
  <2>1. PICK name \in Names :
          \/ /\ state' = Saved([state EXCEPT !.filename = name])
             /\ WriteFile(name, Content(state.lines))
          \/ /\ state' = [OpenFile(state, name) EXCEPT !.mode = "Editing"]
             /\ ram_files' = ram_files
    BY <1>7 DEF PromptEnter
  <2>2. active = "open" /\ active' = active
    BY <1>7 DEF PromptEnter
  <2>3. CASE state' = Saved([state EXCEPT !.filename = name]) /\ WriteFile(name, Content(state.lines))
    BY <2>2, <2>3, SavingKeeps
  <2>4. CASE state' = [OpenFile(state, name) EXCEPT !.mode = "Editing"] /\ ram_files' = ram_files
    <3> DEFINE t == OpenFile(state, name)
    <3>1. Sound(t) /\ Visible(t) /\ "Editing" \in Modes
      BY <1>0, OpenSound DEF Modes
    <3>2. state' = [t EXCEPT !.mode = "Editing"]
      BY <2>4
    <3> HIDE DEF t
    <3>3. Edit(t, state') /\ state'.lines = t.lines
      BY <3>1, <3>2, ModeSet
    <3> QED
      BY <1>0, <2>2, <2>4, <3>3, OpeningKeeps DEF Edit, Marked, t
  <2> QED
    BY <2>1, <2>3, <2>4
<1>8. CASE PromptCancel
  <2>1. "Editing" \in Modes
    BY DEF Modes
  <2>2. /\ state' = [state EXCEPT !.mode = "Editing"] /\ ram_files' = ram_files
        /\ active = "open" /\ active' = active
    BY <1>8 DEF PromptCancel
  <2>3. Edit(state, state')
    BY <1>0, <2>1, <2>2, ModeSet
  <2> QED
    BY <2>2, <2>3, EditKeeps
<1>9. CASE CloseKey
  BY <1>1, <1>9, EditKeeps DEF CloseKey, KeyDown
<1>10. CASE OpenNotepad
  <2>1. CASE state' = Fresh(state.clipboard)
    BY <1>10, <2>1, FreshKeeps DEF OpenNotepad
  <2>2. ASSUME NEW name \in Names, state' = OpenFile(Fresh(state.clipboard), name) PROVE NotepadInv'
    <3> DEFINE s == Fresh(state.clipboard)
    <3>1. Sound(s) /\ Visible(s)
      <4>1. state.clipboard \in Seq(Bytes)
        BY <1>0 DEF Sound, Editors
      <4> QED
        BY <4>1, FreshSound
    <3>2. state' = OpenFile(s, name)
      BY <2>2
    <3> HIDE DEF s
    <3>3. Sound(OpenFile(s, name)) /\ Visible(OpenFile(s, name))
      BY <1>0, <3>1, OpenSound
    <3>4. active' = "open" /\ ram_files' = ram_files
      BY <1>10 DEF OpenNotepad
    <3> QED
      BY <3>1, <3>2, <3>3, <3>4, OpeningKeeps
  <2> QED
    BY <1>10, <2>1, <2>2 DEF OpenNotepad
<1>11. CASE ShellWrite
  <2>1. PICK name \in Names, text \in {<<>>, <<Space>>} : WriteFile(name, text)
    BY <1>11 DEF ShellWrite
  <2>2. text \in Seq(Bytes)
    <3>1. Space \in Bytes
      BY NotepadAssumption DEF Bytes
    <3>2. <<>> \in Seq(Bytes) /\ <<Space>> \in Seq(Bytes)
      BY <3>1
    <3> QED
      BY <3>2
  <2>3. FilesAre'
    BY <1>0, <2>1, <2>2, Written
  <2>4. active = "closed" /\ active' = active /\ state' = state
    BY <1>11 DEF ShellWrite, Shell
  <2> QED
    BY <1>0, <2>3, <2>4 DEF NotepadInv, UnmodifiedIsSaved, Sound, Visible, InText, Bounded
<1>12. CASE ShellRemove
  <2>1. PICK name \in DOMAIN ram_files : ram_files' = [n \in DOMAIN ram_files \ {name} |-> ram_files[n]]
    BY <1>12 DEF ShellRemove
  <2>2. FilesAre'
    BY <1>0, <2>1 DEF FilesAre
  <2>3. active = "closed" /\ active' = active /\ state' = state
    BY <1>12 DEF ShellRemove, Shell
  <2> QED
    BY <1>0, <2>2, <2>3 DEF NotepadInv, UnmodifiedIsSaved, Sound, Visible, InText, Bounded
<1>13. CASE UNCHANGED vars
  <2>1. active' = active /\ state' = state /\ ram_files' = ram_files
    BY <1>13 DEF vars
  <2>2. FilesAre' /\ FileNames' = FileNames /\ ReadFile(state.filename)' = ReadFile(state.filename)
    BY <1>0, <2>1, FilesStay DEF ReadFile
  <2>3. UnmodifiedIsSaved'
    BY <2>1, <2>2 DEF NotepadInv, UnmodifiedIsSaved
  <2> QED
    BY <1>0, <2>1, <2>2, <2>3 DEF NotepadInv, Sound, Visible, InText, Bounded
<1> QED
  BY <1>2, <1>3, <1>4, <1>5, <1>6, <1>7, <1>8, <1>9, <1>10, <1>11, <1>12, <1>13 DEF Next

-----------------------------------------------------------------------------
(* The theorems.                                                              *)

LEMMA Invariant == Spec => []NotepadInv
<1> QED
  BY InitInv, NextInv, PTL DEF Spec

\* The cursor is in the text and in every entry of the undo and redo stacks, which
\* together stay within MAX_UNDO, although redo pushes without push_undo's test.
THEOREM Notepad_TypeOK == Spec => []TypeOK
<1>1. NotepadInv => TypeOK
  <2> SUFFICES ASSUME NotepadInv PROVE TypeOK
    OBVIOUS
  <2>1. /\ state.lines \in Docs /\ state.clipboard \in Seq(Bytes) /\ state.mode \in Modes
        /\ state.filename \in Names \cup {Untitled} /\ state.modified \in BOOLEAN
        /\ state.undo_stack \in Seq(Snaps) /\ state.redo_stack \in Seq(Snaps)
        /\ InText(state) /\ Bounded(state)
    BY DEF NotepadInv, Sound, Editors
  <2>2. \A i \in DOMAIN state.undo_stack : InText(state.undo_stack[i])
    BY <2>1, SnapsAre
  <2>3. \A i \in DOMAIN state.redo_stack : InText(state.redo_stack[i])
    BY <2>1, SnapsAre
  <2> QED
    BY <2>1, <2>2, <2>3 DEF TypeOK, NotepadInv, FilesAre, Docs, Bytes, Modes, Bounded
<1> QED
  BY Invariant, <1>1, PTL

\* The cursor is always in the part of the text that is drawn, whichever key moved it.
THEOREM Notepad_CursorVisible == Spec => []CursorVisible
<1>1. NotepadInv => CursorVisible
  BY DEF NotepadInv, Visible, CursorVisible
<1> QED
  BY Invariant, <1>1, PTL

\* A text that is not marked as modified is what its file contains.
THEOREM Notepad_UnmodifiedIsSaved == Spec => []UnmodifiedIsSaved
<1>1. NotepadInv => UnmodifiedIsSaved
  BY DEF NotepadInv
<1> QED
  BY Invariant, <1>1, PTL

\* Undo and redo move along one history of texts and never rewrite it.
THEOREM Notepad_HistoryLinear == Spec => HistoryLinear
<1>1. NotepadInv /\ [Next]_vars => [UndoKey \/ RedoKey => History(state') = History(state)]_vars
  BY UndoHistory, RedoHistory DEF NotepadInv, UndoKey, RedoKey, Becomes
<1> QED
  BY Invariant, <1>1, PTL DEF Spec, HistoryLinear

\* What leaves the text alone, and what starts over with another one.
LEMMA OtherStepDoes ==
  ASSUME NotepadInv, [Next]_vars, ~EditKey, ~UndoKey, ~RedoKey
  PROVE  \/ state'.lines = state.lines
         \/ (NewKey \/ PromptEnter \/ OpenNotepad) /\ StartsOver(state')
<1>0. Sound(state) /\ Visible(state) /\ FilesAre /\ state \in Editors
  BY DEF NotepadInv, Sound
<1>1. ASSUME NEW c PROVE StartsOver(Fresh(c))
  BY DEF StartsOver, Fresh
<1>2. CASE CopyKey
  BY <1>0, <1>2, CopySound DEF CopyKey, Becomes
<1>3. CASE MoveKey
  BY <1>0, <1>3, MoveSound DEF MoveKey, Becomes
<1>4. CASE SelectAllKey
  BY <1>0, <1>4, SelectAllSound DEF SelectAllKey, Becomes
<1>5. CASE NewKey
  BY <1>1, <1>5 DEF NewKey, Becomes
<1>6. CASE OpenKey
  BY <1>0, <1>6 DEF OpenKey, Becomes, Editors
<1>7. CASE SaveKey
  BY <1>0, <1>7 DEF SaveKey, Saved, Editors
<1>8. CASE PromptEnter
  <2>1. CASE \E name \in Names : state' = Saved([state EXCEPT !.filename = name])
    BY <1>0, <2>1 DEF Saved, Editors
  <2>2. ASSUME NEW name \in Names, state' = [OpenFile(state, name) EXCEPT !.mode = "Editing"]
        PROVE  state'.lines = state.lines \/ StartsOver(state')
    <3> DEFINE t == OpenFile(state, name)
    <3>1. t \in Editors /\ (t.lines = state.lines \/ StartsOver(t))
      BY <1>0, OpenSound DEF Sound
    <3> HIDE DEF t
    <3>2. state' = [t EXCEPT !.mode = "Editing"]
      BY <2>2 DEF t
    <3> QED
      BY <3>1, <3>2 DEF StartsOver, Editors
  <2> QED
    BY <1>8, <2>1, <2>2 DEF PromptEnter
<1>9. CASE PromptCancel
  BY <1>0, <1>9 DEF PromptCancel, Editors
<1>10. CASE OpenNotepad
  <2>1. CASE state' = Fresh(state.clipboard)
    BY <1>1, <1>10, <2>1
  <2>2. ASSUME NEW name \in Names, state' = OpenFile(Fresh(state.clipboard), name)
        PROVE  StartsOver(state')
    BY <2>2 DEF OpenFile, StartsOver, Fresh
  <2> QED
    BY <1>10, <2>1, <2>2 DEF OpenNotepad
<1>11. CASE CloseKey \/ ShellWrite \/ ShellRemove \/ UNCHANGED vars
  BY <1>11 DEF CloseKey, ShellWrite, ShellRemove, vars
<1> QED
  BY <1>2, <1>3, <1>4, <1>5, <1>6, <1>7, <1>8, <1>9, <1>10, <1>11 DEF Next

\* What is pushed on a stack is in it.
LEMMA AmongPushed ==
  ASSUME NEW s, Sound(s), NEW stack \in Seq(Snaps)
  PROVE  Among(s.lines, Append(stack, Snapshot(s)))
<1> DEFINE new == Append(stack, Snapshot(s))
<1>1. Snapshot(s) \in Snaps /\ Snapshot(s).lines = s.lines
  BY SnapshotIs
<1>2. DOMAIN new = 1 .. Len(stack) + 1 /\ new[Len(stack) + 1] = Snapshot(s) /\ Len(stack) \in Nat
  BY <1>1
<1> QED
  BY <1>1, <1>2 DEF Among

\* Whatever changes the text leaves the old one where undo, or redo after an undo, finds
\* it, a tab with its four entries and the deletion before it included; the exceptions are
\* a new file, the opening of a file and the opening of the editor, which start over.
THEOREM Notepad_EditsUndoable == Spec => EditsUndoable
<1> DEFINE Way == \/ Among(state.lines, state'.undo_stack)
                  \/ UndoKey /\ Among(state.lines, state'.redo_stack)
                  \/ (NewKey \/ PromptEnter \/ OpenNotepad) /\ StartsOver(state')
<1>1. ASSUME NotepadInv, [Next]_vars, state'.lines # state.lines PROVE Way
  <2>0. /\ Sound(state) /\ Visible(state)
        /\ state.undo_stack \in Seq(Snaps) /\ state.redo_stack \in Seq(Snaps)
    BY <1>1 DEF NotepadInv, Sound, Editors
  <2>1. CASE EditKey
    <3>1. PICK k \in Nat : EditDone(k)
      BY <1>1, <2>1, EditKeyDoes DEF Panicked
    <3>2. Reaches(state'.undo_stack, state.lines, k)
      BY <1>1, <3>1 DEF EditDone, Recorded
    <3>3. state'.undo_stack \in Seq(Snaps)
      BY <3>1 DEF EditDone, Edit, Sound, Editors
    <3>4. DOMAIN state'.undo_stack = 1 .. Len(state'.undo_stack)
      BY <3>3
    <3> QED
      BY <3>2, <3>4 DEF Reaches, Among
  <2>2. CASE UndoKey
    <3>1. state' = Undo(state)
      BY <2>2 DEF UndoKey, Becomes
    <3>2. state'.redo_stack = Append(state.redo_stack, Snapshot(state))
      BY <1>1, <2>0, <3>1, UndoSound
    <3> QED
      BY <2>0, <2>2, <3>2, AmongPushed
  <2>3. CASE RedoKey
    <3>1. state' = Redo(state)
      BY <2>3 DEF RedoKey, Becomes
    <3>2. state'.undo_stack = Append(state.undo_stack, Snapshot(state))
      BY <1>1, <2>0, <3>1, RedoSound
    <3> QED
      BY <2>0, <3>2, AmongPushed
  <2>4. CASE ~EditKey /\ ~UndoKey /\ ~RedoKey
    BY <1>1, <2>4, OtherStepDoes
  <2> QED
    BY <2>1, <2>2, <2>3, <2>4
<1>2. NotepadInv /\ [Next]_vars => [state'.lines # state.lines => Way]_vars
  BY <1>1
<1> QED
  BY Invariant, <1>2, PTL DEF Spec, EditsUndoable
=============================================================================
