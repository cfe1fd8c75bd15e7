------------------------------- MODULE Snake -------------------------------
(***************************************************************************)
(* The Snake window: the game of gui/snake.rs, the scancode queue the      *)
(* keyboard interrupt fills for it, and the compositor's frame, which      *)
(* feeds it every queued key, at most one tick, and repaints as little as  *)
(* it believes has changed.                                                *)
(*                                                                         *)
(* Left out: the high score and the colour gradient (only displayed), the  *)
(* generator behind spawn_food (any free cell may come out), scancodes on  *)
(* which every state of the game does nothing, and other windows: a second *)
(* Snake window is sent the same keys and shares nothing else.             *)
(***************************************************************************)
EXTENDS Integers, Sequences, SequencesExt

CONSTANTS GRID_COLS, GRID_ROWS,   \* 20 x 15 in the code
          BASE_TICKS, MIN_TICKS,  \* ticks between two moves: slowest, fastest
          SPEED_STEP,             \* score that makes it one tick faster
          Keys,                   \* keys pressed, of those on_key looks at
          MaxKeys                 \* bound: keys queued between two frames

ASSUME GridAssumption == GRID_COLS \in Nat /\ GRID_ROWS \in Nat
                           /\ GRID_COLS \div 2 >= 3 /\ GRID_ROWS >= 1

\* A game that has just started waits for a second tick before it moves.
ASSUME SpeedAssumption == BASE_TICKS \in Nat \ {0, 1} /\ MIN_TICKS \in 1..BASE_TICKS
                            /\ SPEED_STEP \in Nat \ {0}

Directions == {"Up", "Down", "Left", "Right"}

\* P stands for P and Escape, which do the same everywhere.
ASSUME KeysAssumption == Keys \subseteq Directions \cup {"P", "Enter", "Space"}

Cells == (0..GRID_COLS-1) \X (0..GRID_ROWS-1)
NoCell == <<-1, -1>>

VARIABLES game,             \* the SnakeGame
          SNAKE_SCANCODES,  \* keys the interrupt handler has queued
          drawn             \* what the window's buffer shows in each cell

vars == <<game, SNAKE_SCANCODES, drawn>>

-----------------------------------------------------------------------------
\* The game.  A call that places food has a set of outcomes.

Opposite(d) ==
  CASE d = "Up" -> "Down" [] d = "Down" -> "Up"
    [] d = "Left" -> "Right" [] d = "Right" -> "Left"

Ahead(p, d) ==
  CASE d = "Up"   -> <<p[1], p[2] - 1>> [] d = "Down"  -> <<p[1], p[2] + 1>>
    [] d = "Left" -> <<p[1] - 1, p[2]>> [] d = "Right" -> <<p[1] + 1, p[2]>>

GameOver(g) == [g EXCEPT !.state = "GameOver"]

\* A full board is a win, which ends the game and leaves the food in place.
SpawnFood(g) ==
  LET free == Cells \ ToSet(g.body)
  IN  IF free = {} THEN {GameOver(g)}
      ELSE {[g EXCEPT !.food = p] : p \in free}

\* Four segments heading right from the middle of the board.
Reset(g) ==
  SpawnFood([body |-> [i \in 1..4 |-> <<GRID_COLS \div 2 - i + 1, GRID_ROWS \div 2>>],
             direction |-> "Right", next_direction |-> "Right",
             food |-> g.food, state |-> "Playing", score |-> 0,
             tick_counter |-> 0, last_tail |-> NoCell, moved |-> FALSE])

TicksPerUpdate(g) ==
  LET faster == BASE_TICKS - g.score \div SPEED_STEP
  IN  IF faster < MIN_TICKS THEN MIN_TICKS ELSE faster

\* Mutant of TurnsBack: the check is against the last turn asked for.
TurnsBackOnKey(g, d) == d = Opposite(g.next_direction)

\* A turn is checked against the direction of the last move, not against a
\* turn asked for since.
TurnsBack(g, d) == d = Opposite(g.direction)

OnKey(g, k) ==
  CASE g.state = "Playing" /\ k \in Directions /\ ~TurnsBack(g, k) ->
         {[g EXCEPT !.next_direction = k]}
    [] g.state = "Playing" /\ k = "P" -> {[g EXCEPT !.state = "Paused"]}
    [] g.state = "Paused" /\ k \in {"P", "Enter"} -> {[g EXCEPT !.state = "Playing"]}
    [] g.state = "GameOver" /\ k \in {"Enter", "Space"} -> Reset(g)
    [] OTHER -> {g}

\* Mutant of Collides: one segment too many is left out.
CollidesLate(g, p) == p \notin Cells \/ p \in ToSet(Front(Front(g.body)))

\* The tail is not in the way: it moves on in the same step.
Collides(g, p) == p \notin Cells \/ p \in ToSet(Front(g.body))

Update(g) ==
  LET turned == [g EXCEPT !.direction = g.next_direction, !.moved = FALSE]
      head   == Ahead(Head(g.body), turned.direction)
      grown  == [turned EXCEPT !.body = <<head>> \o @, !.moved = TRUE]
  IN  IF Collides(turned, head) THEN {GameOver(turned)}
      ELSE IF head = g.food
      THEN SpawnFood([grown EXCEPT !.score = @ + 10, !.last_tail = NoCell])
      ELSE {[grown EXCEPT !.body = Front(@), !.last_tail = Last(g.body)]}

Tick(g) ==
  IF g.state # "Playing" THEN {g}
  ELSE IF g.tick_counter + 1 < TicksPerUpdate(g)
  THEN {[g EXCEPT !.tick_counter = @ + 1]}
  ELSE Update([g EXCEPT !.tick_counter = 0])

\* on_key for each queued scancode: the games there may be after i of them.
Fed(g, scancodes) ==
  LET games[i \in 0 .. Len(scancodes)] ==
        IF i = 0 THEN {g} ELSE UNION {OnKey(h, scancodes[i]) : h \in games[i - 1]}
  IN  games

AfterKeys(g, scancodes) == Fed(g, scancodes)[Len(scancodes)]

\* Then tick if the timer has advanced.
Played(g, scancodes, pit_advanced) ==
  LET games == AfterKeys(g, scancodes)
  IN  IF pit_advanced THEN UNION {Tick(h) : h \in games} ELSE games

-----------------------------------------------------------------------------
\* The picture.

\* The whole board: food first, then the body over it.
RenderSnake(g) ==
  LET head == Head(g.body)
      rest == ToSet(Tail(g.body))
  IN  [p \in Cells |-> IF p = head THEN "head" ELSE IF p \in rest THEN "body"
                       ELSE IF p = g.food THEN "food" ELSE "empty"]

Paint(picture, p, what) ==
  IF p \in Cells THEN [picture EXCEPT ![p] = what] ELSE picture

\* Mutant of RenderPartial: the tail is erased after the head is painted.
EraseLast(picture, g) ==
  IF g.state # "Playing" THEN RenderSnake(g)
  ELSE IF ~g.moved THEN picture
  ELSE Paint(Paint(Paint(Paint(picture, Head(g.body), "head"),
                         g.body[2], "body"),
                   g.food, "food"),
             g.last_tail, "empty")

\* Only the cells a move changes, in the order the code paints them: the cell
\* the tail left, the head, the segment behind it, the food.
RenderPartial(picture, g) ==
  IF g.state # "Playing" THEN RenderSnake(g)
  ELSE IF ~g.moved THEN picture
  ELSE Paint(Paint(Paint(Paint(picture, g.last_tail, "empty"),
                         Head(g.body), "head"),
                   g.body[2], "body"),
             g.food, "food")

Rendered(picture, old, new) ==
  IF old.state # new.state THEN RenderSnake(new)
  ELSE IF Head(old.body) # Head(new.body) THEN RenderPartial(picture, new)
  ELSE picture

-----------------------------------------------------------------------------

\* SnakeGame::new, and the first rendering of its window.
Init ==
  /\ game \in Reset([food |-> <<0, 0>>])
  /\ SNAKE_SCANCODES = <<>>
  /\ drawn = RenderSnake(game)

\* keyboard_interrupt_handler.  A key that arrives while the frame holds the
\* queue's lock is lost, as if it had not been pressed.
KeyInterrupt ==
  /\ Len(SNAKE_SCANCODES) < MaxKeys
  /\ \E k \in Keys : SNAKE_SCANCODES' = Append(SNAKE_SCANCODES, k)
  /\ UNCHANGED <<game, drawn>>

\* A frame takes all the keys, then ticks if the timer has advanced.
Frame ==
  /\ SNAKE_SCANCODES' = <<>>
  /\ \E pit_advanced \in BOOLEAN :
       game' \in Played(game, SNAKE_SCANCODES, pit_advanced)
  /\ drawn' = Rendered(drawn, game, game')

\* The frame while the window is minimised (which it may become, and cease to
\* be, between any two frames): the keys are taken and nobody sees them.
MinimizedFrame ==
  /\ SNAKE_SCANCODES' = <<>>
  /\ UNCHANGED <<game, drawn>>

\* A click in the window restarts a game that is over; other games ignore it.
ClickRestart ==
  /\ game.state = "GameOver"
  /\ game' \in Reset(game)
  /\ drawn' = RenderSnake(game')
  /\ UNCHANGED SNAKE_SCANCODES

\* Maximising and restoring the size give the window a new, empty buffer and
\* draw all of it.
ToggleMaximize ==
  /\ drawn' = RenderSnake(game)
  /\ UNCHANGED <<game, SNAKE_SCANCODES>>

Next == KeyInterrupt \/ Frame \/ MinimizedFrame \/ ClickRestart \/ ToggleMaximize

Spec == Init /\ [][Next]_vars

-----------------------------------------------------------------------------

\* The snake is a chain of distinct neighbouring cells on the board, one
\* longer for each food eaten: what update's collision test, which leaves the
\* tail out, has to guarantee also when the head follows the tail.  While the
\* game goes on there is food to reach, never under the snake; spawn_food must
\* notice the board that has no free cell left.
SnakeIntact ==
  LET n     == Len(game.body)
      taken == ToSet(game.body)
  IN
  /\ taken \subseteq Cells
  /\ Cardinality(taken) = n
  /\ \A i \in 1..n-1 :
       \E d \in Directions : game.body[i] = Ahead(game.body[i+1], d)
  /\ n = 4 + game.score \div 10
  /\ game.state # "GameOver" => game.food \in Cells \ taken

\* However many keys are pressed between two moves, the snake never reverses
\* into its own neck: on_key checks each against the last move.
NeverReverses ==
  [][game.state # "GameOver" => game'.direction # Opposite(game.direction)]_vars

\* The incremental painting always leaves the picture a full repaint would
\* give, across pauses, restarts, growth and a head that follows its tail.
PictureFollows == drawn = RenderSnake(game)

=============================================================================
