---------------------------- MODULE Snake_proofs ----------------------------
(* Theorems about Snake, for a board of any size, any keys and any number of  *)
(* them between two frames.                                                   *)
EXTENDS Snake, TLAPS, WellFoundedInduction, FiniteSetTheorems, SequenceTheorems

-----------------------------------------------------------------------------
(* Induction over numbers.  The library's theorems about it take an operator; *)
(* what they rest on, that a set of numbers has a least one, does not.        *)

LEMMA LessThanWellFounded ==
  \E R : IsWellFoundedOn(R, Nat) /\ \A x, y \in Nat : y < x => <<y, x>> \in R
<1>1. \A x, y \in Nat : y < x => <<y, x>> \in OpToRel(<, Nat)
  BY DEF OpToRel
<1> QED
  BY <1>1, NatLessThanWellFounded, Zenon

LEMMA LeastNat ==
  ASSUME NEW S \in SUBSET Nat, S # {}
  PROVE  \E n \in S : \A m \in S : n <= m
<1>1. PICK R : IsWellFoundedOn(R, Nat) /\ \A x, y \in Nat : y < x => <<y, x>> \in R
  BY LessThanWellFounded
<1>2. PICK n \in S : \A m \in S : <<m, n>> \notin R
  BY <1>1, WFMin
<1>3. ASSUME NEW m \in S PROVE n <= m
  <2>1. n \in Nat /\ m \in Nat
    OBVIOUS
  <2>2. ~(m < n)
    BY <1>1, <1>2, <2>1
  <2> QED
    BY <2>1, <2>2
<1> QED
  BY <1>3

\* A set that has 0 and with each number the next one has all numbers up to n.
LEMMA Steps ==
  ASSUME NEW n \in Nat, NEW S, 0 \in S,
         \A i \in 1 .. n : i - 1 \in S => i \in S
  PROVE  \A i \in 0 .. n : i \in S
<1> DEFINE missing == (0 .. n) \ S
<1> SUFFICES ASSUME missing # {} PROVE FALSE
  OBVIOUS
<1>0. missing \in SUBSET Nat
  OBVIOUS
<1> HIDE DEF missing
<1>1. PICK k \in missing : \A m \in missing : k <= m
  BY <1>0, LeastNat
<1>2. k \in 0 .. n /\ k \notin S
  BY DEF missing
<1>3. k \in 1 .. n /\ k - 1 \in 0 .. n /\ ~(k <= k - 1)
  BY <1>2
<1>4. k - 1 \in S
  BY <1>1, <1>3 DEF missing
<1> QED
  BY <1>2, <1>3, <1>4

\* A function can be defined by its first value and the step to the next one.
UpTo(f, k, a, step) == f[0] = a /\ \A i \in 1 .. k : f[i] = step[<<i, f[i - 1]>>]

LEMMA DefinedByStep ==
  ASSUME NEW n \in Nat, NEW V, NEW a \in V, NEW step \in [(1 .. n) \X V -> V]
  PROVE  \E f \in [0 .. n -> V] : UpTo(f, n, a, step)
<1> DEFINE defined == {k \in 0 .. n : \E f \in [0 .. k -> V] : UpTo(f, k, a, step)}
<1>1. 0 \in defined
  <2>1. [i \in 0 .. 0 |-> a] \in [0 .. 0 -> V] /\ UpTo([i \in 0 .. 0 |-> a], 0, a, step)
    BY DEF UpTo
  <2> QED
    BY <2>1
<1>2. ASSUME NEW k \in 1 .. n, k - 1 \in defined PROVE k \in defined
  <2>1. PICK f \in [0 .. k - 1 -> V] : UpTo(f, k - 1, a, step)
    BY <1>2
  <2> DEFINE last == step[<<k, f[k - 1]>>]
             g == [i \in 0 .. k |-> IF i = k THEN last ELSE f[i]]
  <2>2. k - 1 \in 0 .. k - 1
    OBVIOUS
  <2>3. last \in V
    BY <2>2
  <2>4. g[k] = last /\ \A i \in 0 .. k - 1 : g[i] = f[i]
    OBVIOUS
  <2>5. g \in [0 .. k -> V]
    <3> HIDE DEF last
    <3>1. \A i \in 0 .. k : i # k => i \in 0 .. k - 1
      OBVIOUS
    <3> QED
      BY <2>3, <3>1
  <2>6. UpTo(g, k, a, step)
    <3>1. g[0] = a
      BY <2>1, <2>4 DEF UpTo
    <3>2. ASSUME NEW i \in 1 .. k PROVE g[i] = step[<<i, g[i - 1]>>]
      <4>1. i - 1 \in 0 .. k - 1 /\ g[i - 1] = f[i - 1]
        BY <2>4
      <4>2. CASE i = k
        BY <2>4, <4>1, <4>2
      <4>3. CASE i # k
        <5>1. i \in 1 .. k - 1 /\ i \in 0 .. k - 1
          BY <4>3
        <5>2. g[i] = f[i] /\ f[i] = step[<<i, f[i - 1]>>]
          BY <2>1, <2>4, <5>1 DEF UpTo
        <5> QED
          BY <4>1, <5>2
      <4> QED
        BY <4>2, <4>3
    <3> QED
      BY <3>1, <3>2 DEF UpTo
  <2> HIDE DEF g
  <2>7. k \in 0 .. n
    OBVIOUS
  <2> QED
    BY <2>5, <2>6, <2>7
<1> HIDE DEF defined
<1>3. n \in defined
  BY <1>1, <1>2, Steps
<1> QED
  BY <1>3 DEF defined

-----------------------------------------------------------------------------
(* The body.                                                                  *)

\* Ahead is a step to another place.
LEMMA AheadMoves ==
  ASSUME NEW p \in Int \X Int, NEW d \in Directions
  PROVE  Ahead(p, d) \in Int \X Int /\ Ahead(p, d) # p
BY DEF Ahead, Directions

LEMMA CellsArePlaces == Cells \subseteq Int \X Int
BY GridAssumption DEF Cells

\* A direction has an opposite, which is another direction, and is its own.
LEMMA OppositeTurns ==
  ASSUME NEW d \in Directions
  PROVE  Opposite(d) \in Directions /\ Opposite(d) # d /\ Opposite(Opposite(d)) = d
BY DEF Opposite, Directions

LEMMA ToSetOf ==
  ASSUME NEW S, NEW s \in Seq(S)
  PROVE  /\ ToSet(s) \subseteq S
         /\ \A x : x \in ToSet(s) <=> \E i \in 1 .. Len(s) : x = s[i]
BY DEF ToSet

LEMMA FrontOf ==
  ASSUME NEW S, NEW s \in Seq(S), Len(s) > 0
  PROVE  /\ Front(s) \in Seq(S) /\ Len(Front(s)) = Len(s) - 1
         /\ \A i \in 1 .. Len(s) - 1 : Front(s)[i] = s[i]
<1> DEFINE n == Len(s) - 1
<1>1. n \in Nat /\ n = Len(s) - 1 /\ \A i \in 1 .. n : s[i] \in S
  OBVIOUS
<1> HIDE DEF n
<1>2. /\ SubSeq(s, 1, n) \in Seq(S)
      /\ Len(SubSeq(s, 1, n)) = IF 1 <= n THEN n - 1 + 1 ELSE 0
      /\ \A i \in 1 .. n - 1 + 1 : SubSeq(s, 1, n)[i] = s[1 + i - 1]
  BY <1>1, SubSeqProperties
<1>3. \A i \in 1 .. n : i \in 1 .. n - 1 + 1 /\ 1 + i - 1 = i
  BY <1>1
<1> QED
  BY <1>1, <1>2, <1>3 DEF Front

LEMMA Pushed ==
  ASSUME NEW S, NEW s \in Seq(S), NEW x \in S
  PROVE  /\ <<x>> \o s \in Seq(S) /\ Len(<<x>> \o s) = Len(s) + 1
         /\ (<<x>> \o s)[1] = x
         /\ \A i \in 2 .. Len(s) + 1 : (<<x>> \o s)[i] = s[i - 1]
OBVIOUS

\* The body of a snake that moved on without eating.
LEMMA MovedOn ==
  ASSUME NEW S, NEW s \in Seq(S), NEW x \in S, Len(s) > 0
  PROVE  /\ Front(<<x>> \o s) \in Seq(S) /\ Len(Front(<<x>> \o s)) = Len(s)
         /\ Front(<<x>> \o s)[1] = x
         /\ \A i \in 2 .. Len(s) : Front(<<x>> \o s)[i] = s[i - 1]
<1> DEFINE t == <<x>> \o s
<1>1. /\ t \in Seq(S) /\ Len(t) = Len(s) + 1 /\ t[1] = x
      /\ \A i \in 2 .. Len(s) + 1 : t[i] = s[i - 1]
  BY Pushed
<1> HIDE DEF t
<1>2. /\ Front(t) \in Seq(S) /\ Len(Front(t)) = Len(t) - 1
      /\ \A i \in 1 .. Len(t) - 1 : Front(t)[i] = t[i]
  BY <1>1, FrontOf, SMTT(30)
<1> QED
  BY <1>1, <1>2 DEF t

\* No cell twice; each segment a step ahead of the next.
Distinct(s) == \A i, j \in 1 .. Len(s) : s[i] = s[j] => i = j
Chain(s) == \A i \in 1 .. Len(s) - 1 : \E d \in Directions : s[i] = Ahead(s[i + 1], d)

LEMMA DistinctCount ==
  ASSUME NEW S, NEW s \in Seq(S), Distinct(s)
  PROVE  Cardinality(ToSet(s)) = Len(s)
<1>1. s \in Bijection(1 .. Len(s), ToSet(s))
  BY ToSetOf DEF Distinct, Bijection, Injection, Surjection, IsInjective, ToSet
<1> QED
  BY <1>1, FS_CountingElements DEF ExistsBijection

\* A head that enters no cell but the tail's, and is a step ahead, keeps both.
LEMMA MovedKeeps ==
  ASSUME NEW s \in Seq(Cells), NEW x \in Cells, Len(s) > 0, Distinct(s), Chain(s),
         x \notin ToSet(Front(s)), \E d \in Directions : x = Ahead(s[1], d)
  PROVE  /\ Distinct(Front(<<x>> \o s)) /\ Chain(Front(<<x>> \o s))
         /\ ToSet(Front(<<x>> \o s)) = {x} \cup ToSet(Front(s))
<1> DEFINE t == Front(<<x>> \o s)
           n == Len(s)
<1>1. /\ t \in Seq(Cells) /\ Len(t) = n /\ t[1] = x
      /\ \A i \in 2 .. n : t[i] = s[i - 1]
  BY MovedOn
<1>2. Front(s) \in Seq(Cells) /\ Len(Front(s)) = n - 1 /\ \A i \in 1 .. n - 1 : Front(s)[i] = s[i]
  BY FrontOf
<1>3. \A i \in 1 .. n - 1 : s[i] \in ToSet(Front(s)) /\ s[i] # x
  BY <1>2, ToSetOf
<1>4. n \in Nat /\ n > 0
  OBVIOUS
<1> HIDE DEF t, n
<1>5. ASSUME NEW i \in 1 .. n, NEW j \in 1 .. n, t[i] = t[j] PROVE i = j
  <2>1. ASSUME NEW k \in 1 .. n, k # 1 PROVE k \in 2 .. n /\ k - 1 \in 1 .. n - 1 /\ t[k] = s[k - 1] /\ t[k] # x
    BY <1>1, <1>3, <1>4, <2>1
  <2>2. CASE i = 1 \/ j = 1
    BY <1>1, <1>5, <2>1, <2>2
  <2>3. CASE i # 1 /\ j # 1
    <3>1. s[i - 1] = s[j - 1] /\ i - 1 \in 1 .. n /\ j - 1 \in 1 .. n
      BY <1>4, <1>5, <2>1, <2>3
    <3>2. i - 1 = j - 1
      BY <3>1 DEF Distinct, n
    <3> QED
      BY <3>2
  <2> QED
    BY <2>2, <2>3
<1>6. ASSUME NEW i \in 1 .. n - 1 PROVE \E d \in Directions : t[i] = Ahead(t[i + 1], d)
  <2>1. i + 1 \in 2 .. n /\ t[i + 1] = s[i]
    BY <1>1, <1>4
  <2>2. CASE i = 1
    BY <1>1, <2>1, <2>2
  <2>3. CASE i # 1
    <3>1. i \in 2 .. n /\ t[i] = s[i - 1] /\ i - 1 \in 1 .. n - 1 /\ (i - 1) + 1 = i
      BY <1>1, <1>4, <2>3
    <3>2. \E d \in Directions : s[i - 1] = Ahead(s[(i - 1) + 1], d)
      BY <3>1 DEF Chain, n
    <3> QED
      BY <2>1, <3>1, <3>2
  <2> QED
    BY <2>2, <2>3
<1>7. ToSet(t) = {x} \cup ToSet(Front(s))
  <2>1. ASSUME NEW y PROVE y \in ToSet(t) => y \in {x} \cup ToSet(Front(s))
    <3> SUFFICES ASSUME NEW i \in 1 .. n, y = t[i] PROVE y \in {x} \cup ToSet(Front(s))
      BY <1>1, ToSetOf
    <3>1. CASE i = 1
      BY <1>1, <3>1
    <3>2. CASE i # 1
      <4>1. i \in 2 .. n /\ i - 1 \in 1 .. n - 1
        BY <1>4, <3>2
      <4> QED
        BY <1>1, <1>3, <4>1
    <3> QED
      BY <3>1, <3>2
  <2>2. ASSUME NEW y PROVE y \in {x} \cup ToSet(Front(s)) => y \in ToSet(t)
    <3>1. 1 \in 1 .. n /\ x \in ToSet(t)
      BY <1>1, <1>4, ToSetOf
    <3>2. ASSUME NEW i \in 1 .. n - 1, y = Front(s)[i] PROVE y \in ToSet(t)
      <4>1. i + 1 \in 2 .. n /\ i + 1 \in 1 .. n /\ (i + 1) - 1 = i
        BY <1>4
      <4>2. t[i + 1] = y
        BY <1>1, <1>2, <3>2, <4>1
      <4> QED
        BY <1>1, <4>1, <4>2, ToSetOf
    <3> QED
      BY <1>2, <3>1, <3>2, ToSetOf
  <2> QED
    BY <2>1, <2>2
<1> QED
  BY <1>1, <1>5, <1>6, <1>7 DEF Distinct, Chain, t

LEMMA GrownKeeps ==
  ASSUME NEW s \in Seq(Cells), NEW x \in Cells, Len(s) > 0, Distinct(s), Chain(s),
         x \notin ToSet(s), \E d \in Directions : x = Ahead(s[1], d)
  PROVE  /\ Distinct(<<x>> \o s) /\ Chain(<<x>> \o s)
         /\ ToSet(<<x>> \o s) = {x} \cup ToSet(s)
<1> DEFINE t == <<x>> \o s
           n == Len(s)
<1>1. /\ t \in Seq(Cells) /\ Len(t) = n + 1 /\ t[1] = x
      /\ \A i \in 2 .. n + 1 : t[i] = s[i - 1]
  BY Pushed
<1>2. \A i \in 1 .. n : s[i] \in ToSet(s) /\ s[i] # x
  BY ToSetOf
<1>3. n \in Nat /\ n > 0
  OBVIOUS
<1> HIDE DEF t, n
<1>4. ASSUME NEW k \in 1 .. n + 1, k # 1
      PROVE  k \in 2 .. n + 1 /\ k - 1 \in 1 .. n /\ t[k] = s[k - 1] /\ t[k] # x
  BY <1>1, <1>2, <1>3, <1>4
<1>5. ASSUME NEW i \in 1 .. n + 1, NEW j \in 1 .. n + 1, t[i] = t[j] PROVE i = j
  <2>1. CASE i = 1 \/ j = 1
    BY <1>1, <1>4, <1>5, <2>1
  <2>2. CASE i # 1 /\ j # 1
    <3>1. s[i - 1] = s[j - 1] /\ i - 1 \in 1 .. n /\ j - 1 \in 1 .. n
      BY <1>4, <1>5, <2>2
    <3>2. i - 1 = j - 1
      BY <3>1 DEF Distinct, n
    <3> QED
      BY <3>2
  <2> QED
    BY <2>1, <2>2
<1>6. ASSUME NEW i \in 1 .. n PROVE \E d \in Directions : t[i] = Ahead(t[i + 1], d)
  <2>1. i + 1 \in 2 .. n + 1 /\ t[i + 1] = s[i]
    BY <1>1, <1>3
  <2>2. CASE i = 1
    BY <1>1, <2>1, <2>2
  <2>3. CASE i # 1
    <3>1. t[i] = s[i - 1] /\ i - 1 \in 1 .. n - 1 /\ (i - 1) + 1 = i
      BY <1>4, <1>3, <2>3
    <3>2. \E d \in Directions : s[i - 1] = Ahead(s[(i - 1) + 1], d)
      BY <3>1 DEF Chain, n
    <3> QED
      BY <2>1, <3>1, <3>2
  <2> QED
    BY <2>2, <2>3
<1>7. ToSet(t) = {x} \cup ToSet(s)
  <2>1. ASSUME NEW i \in 1 .. n + 1 PROVE t[i] \in {x} \cup ToSet(s)
    BY <1>1, <1>2, <1>4
  <2>2. ASSUME NEW i \in 1 .. n PROVE s[i] \in ToSet(t)
    <3>1. i + 1 \in 1 .. n + 1 /\ t[i + 1] = s[i]
      BY <1>1, <1>3
    <3> QED
      BY <1>1, <3>1, ToSetOf
  <2>3. 1 \in 1 .. n + 1 /\ x \in ToSet(t)
    BY <1>1, <1>3, ToSetOf
  <2>4. \A y : y \in ToSet(t) <=> \E i \in 1 .. n + 1 : y = t[i]
    BY <1>1, ToSetOf
  <2>5. \A y : y \in ToSet(s) <=> \E i \in 1 .. n : y = s[i]
    BY ToSetOf DEF n
  <2> QED
    BY <2>1, <2>2, <2>3, <2>4, <2>5, Zenon
<1>8. (n + 1) - 1 = n
  BY <1>3
<1> QED
  BY <1>1, <1>5, <1>6, <1>7, <1>8 DEF Distinct, Chain, t

-----------------------------------------------------------------------------
(* The games there are.  Sound is the inductive invariant: SnakeIntact needs  *)
(* that the next turn never points at the neck, and that a game that is not   *)
(* over has its food off the snake.                                           *)

Games == [body : Seq(Cells), direction : Directions, next_direction : Directions,
          food : Cells, state : {"Playing", "Paused", "GameOver"}, score : Nat,
          tick_counter : Nat, last_tail : Cells \cup {NoCell}, moved : BOOLEAN]

Intact(g) ==
  /\ Distinct(g.body) /\ Chain(g.body)
  /\ Len(g.body) = 4 + g.score \div 10
  /\ g.state # "GameOver" => g.food \notin ToSet(g.body)

Sound(g) == g \in Games /\ Intact(g) /\ g.next_direction # Opposite(g.direction)

\* What the queued keys make of game g: it stays where it is, or starts anew.
After(g) ==
  {h \in Games :
     /\ Sound(h)
     /\ \/ /\ g.state # "GameOver" /\ h.state # "GameOver"
           /\ h.body = g.body /\ h.food = g.food /\ h.direction = g.direction
        \/ /\ g.state = "GameOver"
           /\ h = g \/ (h.state # "GameOver" /\ h.score = 0 /\ h.tick_counter = 0)}

\* A new game: four segments in the middle, going right.
NewBody == [i \in 1..4 |-> <<GRID_COLS \div 2 - i + 1, GRID_ROWS \div 2>>]

LEMMA NewBodyFits ==
  /\ NewBody \in Seq(Cells) /\ Len(NewBody) = 4
  /\ Distinct(NewBody) /\ Chain(NewBody)
  /\ <<0, 0>> \in Cells
  /\ Cells \ ToSet(NewBody) # {}
<1> DEFINE c == GRID_COLS \div 2
           r == GRID_ROWS \div 2
<1>1. c \in Nat /\ r \in Nat /\ c >= 3 /\ GRID_COLS >= 2 * c /\ r <= GRID_ROWS - 1
      /\ GRID_COLS \in Nat /\ GRID_ROWS \in Nat /\ GRID_ROWS >= 1
  BY GridAssumption
<1> HIDE DEF c, r
<1>2. NewBody = [i \in 1..4 |-> <<c - i + 1, r>>]
  BY DEF NewBody, c, r
<1>3. \A i \in 1..4 : c - i + 1 \in 0 .. GRID_COLS - 1 /\ r \in 0 .. GRID_ROWS - 1
  BY <1>1
<1>4. NewBody \in Seq(Cells) /\ Len(NewBody) = 4 /\ \A i \in 1..4 : NewBody[i] = <<c - i + 1, r>>
  <2>1. \A i \in 1..4 : <<c - i + 1, r>> \in Cells
    BY <1>3 DEF Cells
  <2>2. NewBody \in [1..4 -> Cells]
    BY <1>2, <2>1
  <2>3. NewBody \in Seq(Cells)
    BY <2>2, 4 \in Nat, SeqDef, Zenon
  <2>4. Len(NewBody) = 4
    BY <2>2, <2>3, LenProperties
  <2> QED
    BY <1>2, <2>3, <2>4
<1>5. Distinct(NewBody)
  <2> SUFFICES ASSUME NEW i \in 1..4, NEW j \in 1..4, NewBody[i] = NewBody[j] PROVE i = j
    BY <1>4 DEF Distinct
  <2>1. <<c - i + 1, r>> = <<c - j + 1, r>>
    BY <1>4
  <2> QED
    BY <2>1, <1>1
<1>6. Chain(NewBody)
  <2> SUFFICES ASSUME NEW i \in 1..3 PROVE \E d \in Directions : NewBody[i] = Ahead(NewBody[i + 1], d)
    BY <1>4 DEF Chain
  <2>1. NewBody[i] = <<c - i + 1, r>> /\ NewBody[i + 1] = <<c - (i + 1) + 1, r>>
    BY <1>4
  <2>2. Ahead(<<c - (i + 1) + 1, r>>, "Right") = <<c - (i + 1) + 1 + 1, r>>
    BY DEF Ahead
  <2>3. c - (i + 1) + 1 + 1 = c - i + 1
    BY <1>1
  <2> QED
    BY <2>1, <2>2, <2>3 DEF Directions
<1>7. <<0, 0>> \in Cells
  BY <1>1 DEF Cells
\* The cell ahead of the head is free: the board has at least six columns.
<1>8. <<c + 1, r>> \in Cells /\ <<c + 1, r>> \notin ToSet(NewBody)
  <2>1. c + 1 \in 0 .. GRID_COLS - 1 /\ r \in 0 .. GRID_ROWS - 1
    BY <1>1
  <2>2. \A i \in 1..4 : <<c - i + 1, r>> # <<c + 1, r>>
    BY <1>1
  <2>3. <<c + 1, r>> \notin ToSet(NewBody)
    BY <2>2, <1>4, ToSetOf
  <2> QED
    BY <2>1, <2>3 DEF Cells
<1> QED
  BY <1>4, <1>5, <1>6, <1>7, <1>8

\* reset always finds a place for the food, so the new game is on.
LEMMA ResetSound ==
  ASSUME NEW food \in Cells, NEW g, g.food = food, NEW h \in Reset(g)
  PROVE  /\ Sound(h) /\ h.state = "Playing" /\ h.score = 0 /\ h.tick_counter = 0
<1> DEFINE new == [body |-> NewBody,
                   direction |-> "Right", next_direction |-> "Right",
                   food |-> food, state |-> "Playing", score |-> 0,
                   tick_counter |-> 0, last_tail |-> NoCell, moved |-> FALSE]
<1>1. new \in Games
  BY NewBodyFits DEF Games, Directions
<1>2. PICK p \in Cells \ ToSet(NewBody) : h = [new EXCEPT !.food = p]
  BY NewBodyFits DEF Reset, SpawnFood, NewBody
<1>3. h \in Games /\ h.body = NewBody /\ h.state = "Playing" /\ h.score = 0
      /\ h.tick_counter = 0 /\ h.food = p /\ h.direction = "Right" /\ h.next_direction = "Right"
  BY <1>1, <1>2 DEF Games
<1>4. Len(h.body) = 4 + h.score \div 10
  BY <1>3, NewBodyFits
<1> QED
  BY <1>3, <1>4, NewBodyFits, OppositeTurns DEF Sound, Intact, Directions

\* Each key keeps the game sound, and makes it move nowhere.
LEMMA OnKeyStays ==
  ASSUME NEW g, Sound(g), NEW f \in After(g), NEW k, NEW h \in OnKey(f, k)
  PROVE  h \in After(g)
<1>1. f \in Games /\ Sound(f)
  BY DEF After
<1>2. CASE f.state = "Playing" /\ k \in Directions /\ ~TurnsBack(f, k) /\ h = [f EXCEPT !.next_direction = k]
  <2>1. h \in Games /\ h.body = f.body /\ h.food = f.food /\ h.direction = f.direction
        /\ h.next_direction = k /\ h.state = f.state /\ h.score = f.score
        /\ h.tick_counter = f.tick_counter
    BY <1>1, <1>2 DEF Games
  <2>2. Sound(h)
    BY <1>1, <1>2, <2>1 DEF Sound, Intact, TurnsBack
  <2> QED
    BY <1>2, <2>1, <2>2 DEF After
<1>3. ASSUME NEW new \in {"Playing", "Paused"}, f.state \in {"Playing", "Paused"},
             h = [f EXCEPT !.state = new]
      PROVE  h \in After(g)
  <2>1. h \in Games /\ h.body = f.body /\ h.food = f.food /\ h.direction = f.direction
        /\ h.next_direction = f.next_direction /\ h.state = new /\ h.score = f.score
        /\ h.tick_counter = f.tick_counter
    BY <1>1, <1>3 DEF Games
  <2>2. Sound(h)
    BY <1>1, <1>3, <2>1 DEF Sound, Intact
  <2> QED
    BY <1>3, <2>1, <2>2 DEF After
<1>4. CASE f.state = "GameOver" /\ h \in Reset(f)
  <2>1. g.state = "GameOver"
    BY <1>4 DEF After
  <2>2. f.food \in Cells
    BY <1>1 DEF Games
  <2>3. Sound(h) /\ h.state = "Playing" /\ h.score = 0 /\ h.tick_counter = 0
    BY <1>4, <2>2, ResetSound
  <2> QED
    BY <2>1, <2>3 DEF After, Sound
<1>5. CASE h = f
  BY <1>5
<1>6. \/ f.state = "Playing" /\ k \in Directions /\ ~TurnsBack(f, k) /\ h = [f EXCEPT !.next_direction = k]
      \/ f.state = "Playing" /\ h = [f EXCEPT !.state = "Paused"]
      \/ f.state = "Paused" /\ h = [f EXCEPT !.state = "Playing"]
      \/ f.state = "GameOver" /\ h \in Reset(f)
      \/ h = f
  BY Zenon DEF OnKey
<1> QED
  BY <1>2, <1>3, <1>4, <1>5, <1>6

FedNext(g, scancodes, games, i) ==
  IF i = 0 THEN {g} ELSE UNION {OnKey(h, scancodes[i]) : h \in games[i - 1]}

\* Fed is the function its recursive definition describes: there is one.
LEMMA FedIs ==
  ASSUME NEW g, Sound(g), NEW scancodes, Len(scancodes) \in Nat
  PROVE  LET games == Fed(g, scancodes)
         IN  games = [i \in 0 .. Len(scancodes) |-> FedNext(g, scancodes, games, i)]
<1> DEFINE n == Len(scancodes)
           V == SUBSET After(g)
           key(p) == UNION {OnKey(h, scancodes[p[1]]) : h \in p[2]}
           step == [p \in (1 .. n) \X V |-> key(p)]
<1>1. {g} \in V
  BY DEF After, Sound
<1>2. ASSUME NEW p \in (1 .. n) \X V PROVE key(p) \in V
  <2>1. p[2] \in V
    OBVIOUS
  <2>2. \A h \in p[2] : \A new \in OnKey(h, scancodes[p[1]]) : new \in After(g)
    BY <2>1, OnKeyStays
  <2> QED
    BY <2>2
<1> HIDE DEF V
<1>3. step \in [(1 .. n) \X V -> V]
  <2> HIDE DEF key
  <2> QED
    BY <1>2
<1>4. PICK f \in [0 .. n -> V] : UpTo(f, n, {g}, step)
  <2> HIDE DEF step
  <2> QED
    BY <1>1, <1>3, DefinedByStep
<1>5. ASSUME NEW i \in 0 .. n PROVE f[i] = FedNext(g, scancodes, f, i)
  <2>1. CASE i = 0
    BY <1>4, <2>1 DEF UpTo, FedNext
  <2>2. CASE i # 0
    <3>1. i \in 1 .. n /\ i - 1 \in 0 .. n
      BY <2>2
    <3>2. f[i] = step[<<i, f[i - 1]>>] /\ <<i, f[i - 1]>> \in (1 .. n) \X V
      BY <1>4, <3>1 DEF UpTo
    <3>3. f[i] = key(<<i, f[i - 1]>>)
      BY <3>2
    <3> QED
      BY <2>2, <3>3 DEF FedNext
  <2> QED
    BY <2>1, <2>2
<1>6. f = [i \in 0 .. n |-> FedNext(g, scancodes, f, i)]
  BY <1>5
<1>7. Fed(g, scancodes) = CHOOSE games : games = [i \in 0 .. n |-> FedNext(g, scancodes, games, i)]
  BY DEF Fed, FedNext
<1> HIDE DEF n
<1> QED
  BY <1>6, <1>7 DEF n

\* However many keys are queued: the game stays where it is, or starts anew.
LEMMA AfterKeysStay ==
  ASSUME NEW g, Sound(g), NEW scancodes, Len(scancodes) \in Nat
  PROVE  AfterKeys(g, scancodes) \subseteq After(g)
<1> DEFINE n == Len(scancodes)
           games == Fed(g, scancodes)
           stay == {i \in 0 .. n : games[i] \subseteq After(g)}
<1>1. games = [i \in 0 .. n |-> FedNext(g, scancodes, games, i)]
  BY FedIs
<1> HIDE DEF games
<1>0. n \in Nat /\ \A i \in 0 .. n : games[i] = FedNext(g, scancodes, games, i)
  BY <1>1, Zenon
<1>2. 0 \in stay
  <2>0. 0 \in 0 .. n
    BY <1>0
  <2>1. games[0] = {g}
    BY <1>0, <2>0, Zenon DEF FedNext
  <2> QED
    BY <2>1, <1>0 DEF After, Sound
<1>3. ASSUME NEW i \in 1 .. n, i - 1 \in stay PROVE i \in stay
  <2>0. i \in 0 .. n /\ i # 0
    BY <1>0
  <2>1. games[i] = UNION {OnKey(h, scancodes[i]) : h \in games[i - 1]}
    BY <1>0, <2>0 DEF FedNext
  <2>2. \A h \in games[i - 1] : \A new \in OnKey(h, scancodes[i]) : new \in After(g)
    BY <1>3, OnKeyStays
  <2> QED
    BY <2>0, <2>1, <2>2
<1> HIDE DEF stay, n
<1>4. \A i \in 0 .. n : i \in stay
  BY <1>0, <1>2, <1>3, Steps
<1>5. n \in stay
  BY <1>0, <1>4
<1> QED
  BY <1>5 DEF n, AfterKeys, stay, games

-----------------------------------------------------------------------------
(* One tick of the game.  Its outcomes, each by what it leaves of game g.     *)

NextHead(g) == Ahead(g.body[1], g.next_direction)

Turned(g, h) == h \in Games /\ h.direction = g.next_direction /\ h.next_direction = g.next_direction

Stopped(g, h) == Turned(g, h) /\ h.body = g.body /\ h.score = g.score /\ h.state = "GameOver"

\* The head has gone on to a cell that is free, or that the tail leaves.
Entered(g, h) ==
  /\ Turned(g, h) /\ h.moved
  /\ NextHead(g) \in Cells /\ NextHead(g) \notin ToSet(Front(g.body))

Stepped(g, h) ==
  /\ Entered(g, h) /\ h.state = "Playing" /\ h.score = g.score
  /\ NextHead(g) # g.food /\ h.food = g.food /\ h.last_tail = Last(g.body)
  /\ h.body = Front(<<NextHead(g)>> \o g.body)

Grew(g, h) ==
  /\ Entered(g, h) /\ h.score = g.score + 10
  /\ NextHead(g) = g.food /\ h.last_tail = NoCell
  /\ h.body = <<NextHead(g)>> \o g.body
  /\ \/ h.state = "GameOver"
     \/ h.state = "Playing" /\ h.food \in Cells \ ToSet(h.body)

Updated(g, h) == Stopped(g, h) \/ Stepped(g, h) \/ Grew(g, h)

LEMMA UpdateOutcomes ==
  ASSUME NEW g, Sound(g), g.state = "Playing", NEW h \in Update(g)
  PROVE  Updated(g, h)
<1>1. /\ g \in Games /\ g.body \in Seq(Cells) /\ Len(g.body) >= 4 /\ g.score \in Nat
      /\ g.body[1] \in Cells /\ Head(g.body) = g.body[1]
  <2>1. g \in Games /\ g.body \in Seq(Cells) /\ g.score \in Nat /\ Len(g.body) = 4 + g.score \div 10
    BY DEF Sound, Intact, Games
  <2>2. Len(g.body) >= 4
    BY <2>1
  <2> QED
    BY <2>1, <2>2
<1> DEFINE turned == [g EXCEPT !.direction = g.next_direction, !.moved = FALSE]
           head == Ahead(Head(g.body), turned.direction)
           body == <<head>> \o g.body
           grown == [turned EXCEPT !.body = body, !.moved = TRUE]
           eaten == [grown EXCEPT !.score = grown.score + 10, !.last_tail = NoCell]
           stepped == [grown EXCEPT !.body = Front(body), !.last_tail = Last(g.body)]
<1>2. /\ turned \in Games /\ turned.body = g.body /\ turned.score = g.score
      /\ turned.direction = g.next_direction /\ turned.next_direction = g.next_direction
      /\ turned.state = "Playing" /\ turned.food = g.food
  BY <1>1 DEF Games
<1>3. head = NextHead(g)
  BY <1>1, <1>2 DEF NextHead
<1>4. \/ Collides(turned, head) /\ h = GameOver(turned)
      \/ ~Collides(turned, head) /\ head = g.food /\ h \in SpawnFood(eaten)
      \/ ~Collides(turned, head) /\ head # g.food /\ h = stepped
  <2>1. Update(g) = IF Collides(turned, head) THEN {GameOver(turned)}
                    ELSE IF head = g.food THEN SpawnFood(eaten) ELSE {stepped}
    <3>1. grown = [turned EXCEPT !.body = <<head>> \o turned.body, !.moved = TRUE]
      BY <1>2
    <3>2. grown.body = body /\ eaten = [grown EXCEPT !.score = @ + 10, !.last_tail = NoCell]
          /\ stepped = [grown EXCEPT !.body = Front(@), !.last_tail = Last(g.body)]
      BY <1>2 DEF Games
    <3> HIDE DEF grown, eaten, stepped
    <3> QED
      BY <3>1, <3>2 DEF Update
  <2> HIDE DEF turned, head, eaten, stepped
  <2> QED
    BY <2>1
<1> HIDE DEF turned, head
<1>5. CASE Collides(turned, head) /\ h = GameOver(turned)
  BY <1>2, <1>5 DEF GameOver, Games, Updated, Stopped, Turned
<1>6. ASSUME ~Collides(turned, head) PROVE head \in Cells /\ head \notin ToSet(Front(g.body))
  BY <1>2, <1>6 DEF Collides
<1>7. ASSUME head \in Cells
      PROVE  /\ body \in Seq(Cells) /\ grown \in Games /\ grown.body = body /\ grown.moved
             /\ grown.score = g.score /\ grown.food = g.food /\ grown.state = "Playing"
             /\ grown.direction = g.next_direction /\ grown.next_direction = g.next_direction
             /\ Front(body) \in Seq(Cells) /\ Last(g.body) \in Cells
  <2>1. body \in Seq(Cells) /\ Front(body) \in Seq(Cells)
    BY <1>1, <1>7, Pushed, MovedOn
  <2>2. Last(g.body) \in Cells
    BY <1>1 DEF Last
  <2> HIDE DEF body
  <2> QED
    BY <1>2, <2>1, <2>2 DEF Games
<1> HIDE DEF grown
<1>8. CASE ~Collides(turned, head) /\ head # g.food /\ h = stepped
  <2> HIDE DEF body
  <2>1. head \in Cells /\ head \notin ToSet(Front(g.body))
    BY <1>6, <1>8
  <2>2. /\ h \in Games /\ h.body = Front(body) /\ h.last_tail = Last(g.body) /\ h.moved
        /\ h.score = g.score /\ h.food = g.food /\ h.state = "Playing"
        /\ h.direction = g.next_direction /\ h.next_direction = g.next_direction
    BY <1>7, <1>8, <2>1 DEF Games
  <2> QED
    BY <1>3, <1>8, <2>1, <2>2 DEF Updated, Stepped, Entered, Turned, body
<1>9. CASE ~Collides(turned, head) /\ head = g.food /\ h \in SpawnFood(eaten)
  <2> HIDE DEF body
  <2>1. head \in Cells /\ head \notin ToSet(Front(g.body))
    BY <1>6, <1>9
  <2>2. /\ eaten \in Games /\ eaten.body = body /\ eaten.last_tail = NoCell /\ eaten.moved
        /\ eaten.score = g.score + 10 /\ eaten.state = "Playing"
        /\ eaten.direction = g.next_direction /\ eaten.next_direction = g.next_direction
    <3> DEFINE score == grown.score + 10
    <3>1. score \in Nat /\ score = g.score + 10
      BY <1>1, <1>7, <2>1
    <3> HIDE DEF score, stepped
    <3>2. eaten = [grown EXCEPT !.score = score, !.last_tail = NoCell]
      BY DEF score
    <3> HIDE DEF eaten
    <3> QED
      BY <1>7, <2>1, <3>1, <3>2 DEF Games
  <2> HIDE DEF eaten
  <2>3. \/ h = GameOver(eaten)
        \/ \E p \in Cells \ ToSet(body) : h = [eaten EXCEPT !.food = p]
    BY <1>9, <2>2 DEF SpawnFood
  <2>4. /\ h \in Games /\ h.body = body /\ h.last_tail = NoCell /\ h.moved
        /\ h.score = g.score + 10
        /\ h.direction = g.next_direction /\ h.next_direction = g.next_direction
        /\ h.state = "GameOver" \/ (h.state = "Playing" /\ h.food \in Cells \ ToSet(body))
    BY <2>2, <2>3 DEF Games, GameOver
  <2> QED
    BY <1>3, <1>9, <2>1, <2>4 DEF Updated, Grew, Entered, Turned, body
<1> QED
  BY <1>4, <1>5, <1>8, <1>9

LEMMA UpdatedSound ==
  ASSUME NEW g, Sound(g), g.state = "Playing", NEW h, Updated(g, h)
  PROVE  Sound(h)
<1>1. /\ g \in Games /\ g.body \in Seq(Cells) /\ g.score \in Nat /\ Len(g.body) = 4 + g.score \div 10
      /\ Distinct(g.body) /\ Chain(g.body) /\ g.food \notin ToSet(g.body)
      /\ g.next_direction \in Directions
  BY DEF Sound, Intact, Games
<1>2. Len(g.body) > 0
  BY <1>1
<1>3. Turned(g, h) /\ h.next_direction # Opposite(h.direction)
  BY <1>1, OppositeTurns DEF Updated, Stopped, Stepped, Grew, Entered, Turned
<1>4. \E d \in Directions : NextHead(g) = Ahead(g.body[1], d)
  BY <1>1 DEF NextHead
<1> DEFINE x == NextHead(g)
<1>5. CASE Stopped(g, h)
  BY <1>1, <1>3, <1>5 DEF Stopped, Sound, Intact, Turned
<1>6. CASE Stepped(g, h)
  <2> HIDE DEF x
  <2>1. /\ x \in Cells /\ x \notin ToSet(Front(g.body)) /\ x # g.food /\ h.food = g.food
        /\ h.body = Front(<<x>> \o g.body) /\ h.score = g.score
    BY <1>6 DEF Stepped, Entered, x
  <2>2. /\ Distinct(h.body) /\ Chain(h.body) /\ ToSet(h.body) = {x} \cup ToSet(Front(g.body))
    BY <1>1, <1>2, <1>4, <2>1, MovedKeeps DEF x
  <2>3. Len(h.body) = Len(g.body)
    BY <1>1, <1>2, <2>1, MovedOn
  <2>4. g.food \notin ToSet(Front(g.body))
    <3>1. Front(g.body) \in Seq(Cells) /\ Len(Front(g.body)) = Len(g.body) - 1
          /\ \A i \in 1 .. Len(g.body) - 1 : Front(g.body)[i] = g.body[i]
      BY <1>1, <1>2, FrontOf
    <3>2. \A i \in 1 .. Len(g.body) - 1 : i \in 1 .. Len(g.body)
      BY <1>1
    <3> QED
      BY <1>1, <3>1, <3>2, ToSetOf
  <2> QED
    BY <1>1, <1>3, <2>1, <2>2, <2>3, <2>4 DEF Sound, Intact, Turned
<1>7. CASE Grew(g, h)
  <2> HIDE DEF x
  <2>1. /\ x \in Cells /\ x \notin ToSet(g.body) /\ h.body = <<x>> \o g.body /\ h.score = g.score + 10
        /\ h.state # "GameOver" => h.food \notin ToSet(h.body)
    BY <1>1, <1>7 DEF Grew, Entered, x
  <2>2. Distinct(h.body) /\ Chain(h.body)
    BY <1>1, <1>2, <1>4, <2>1, GrownKeeps DEF x
  <2>3. Len(h.body) = Len(g.body) + 1
    BY <1>1, <2>1, Pushed
  <2>4. Len(h.body) = 4 + h.score \div 10
    BY <1>1, <2>1, <2>3
  <2> QED
    BY <1>3, <2>1, <2>2, <2>4 DEF Sound, Intact, Turned
<1> QED
  BY <1>5, <1>6, <1>7 DEF Updated

\* The game waits for its next move, and only its counter changes.
Waited(g, h) ==
  /\ h \in Games /\ h.state = g.state /\ h.body = g.body /\ h.food = g.food /\ h.score = g.score
  /\ h.direction = g.direction /\ h.next_direction = g.next_direction

\* A tick leaves the game, lets it wait, or updates it; a game that has just
\* started waits.
LEMMA TickOutcomes ==
  ASSUME NEW g, Sound(g), NEW h \in Tick(g)
  PROVE  /\ Sound(h)
         /\ \/ Waited(g, h)
            \/ /\ g.state = "Playing" /\ Updated(g, h)
               /\ ~(g.score = 0 /\ g.tick_counter = 0)
<1>1. g \in Games /\ g.score \in Nat /\ g.tick_counter \in Nat /\ Intact(g)
      /\ g.next_direction # Opposite(g.direction)
  BY DEF Sound, Games
<1>2. CASE g.state # "Playing"
  BY <1>1, <1>2 DEF Tick, Waited
<1>3. CASE g.state = "Playing" /\ g.tick_counter + 1 < TicksPerUpdate(g)
  <2> DEFINE count == g.tick_counter + 1
  <2>1. count \in Nat
    BY <1>1
  <2>2. h = [g EXCEPT !.tick_counter = count]
    BY <1>3 DEF Tick
  <2> HIDE DEF count
  <2>3. Waited(g, h)
    BY <1>1, <2>1, <2>2 DEF Games, Waited
  <2> QED
    BY <1>1, <2>3 DEF Sound, Intact, Waited
<1>4. CASE g.state = "Playing" /\ ~(g.tick_counter + 1 < TicksPerUpdate(g))
  <2> DEFINE f == [g EXCEPT !.tick_counter = 0]
  <2>1. h \in Update(f)
    BY <1>4 DEF Tick
  <2>2. /\ f \in Games /\ f.state = g.state /\ f.body = g.body /\ f.food = g.food /\ f.score = g.score
        /\ f.direction = g.direction /\ f.next_direction = g.next_direction
    BY <1>1 DEF Games
  <2> HIDE DEF f
  <2>3. Sound(f) /\ f.state = "Playing"
    BY <1>1, <1>4, <2>2 DEF Sound, Intact
  <2>4. Updated(f, h) /\ Sound(h)
    BY <2>1, <2>3, UpdateOutcomes, UpdatedSound
  <2>5. Updated(g, h)
    BY <2>2, <2>4 DEF Updated, Stopped, Stepped, Grew, Entered, Turned, NextHead
  <2>6. ~(g.score = 0 /\ g.tick_counter = 0)
    <3> SUFFICES ASSUME g.score = 0, g.tick_counter = 0 PROVE FALSE
      OBVIOUS
    <3>1. 0 \div SPEED_STEP = 0
      BY SpeedAssumption
    <3>2. TicksPerUpdate(g) = BASE_TICKS
      BY <3>1, SpeedAssumption DEF TicksPerUpdate
    <3> QED
      BY <1>4, <3>2, SpeedAssumption
  <2> QED
    BY <1>4, <2>4, <2>5, <2>6
<1> QED
  BY <1>2, <1>3, <1>4

-----------------------------------------------------------------------------
(* The picture.                                                               *)

Shows == {"head", "body", "food", "empty"}

\* What a whole repaint of g shows in cell p.
Shown(g, p) ==
  IF p = g.body[1] THEN "head" ELSE IF p \in ToSet(g.body) THEN "body"
  ELSE IF p = g.food THEN "food" ELSE "empty"

LEMMA RenderIs ==
  ASSUME NEW g, g.body \in Seq(Cells), Len(g.body) > 0
  PROVE  /\ RenderSnake(g) = [p \in Cells |-> Shown(g, p)]
         /\ RenderSnake(g) \in [Cells -> Shows]
<1> DEFINE s == g.body
<1>1. s # << >> /\ Head(s) = s[1] /\ 1 \in 1 .. Len(s)
  OBVIOUS
<1>2. /\ Tail(s) \in Seq(Cells) /\ Len(Tail(s)) = Len(s) - 1
      /\ \A i \in 1 .. Len(Tail(s)) : Tail(s)[i] = s[i + 1]
  BY <1>1, HeadTailProperties
<1>3. ASSUME NEW p, p # s[1] PROVE p \in ToSet(Tail(s)) <=> p \in ToSet(s)
  <2>1. ASSUME NEW i \in 1 .. Len(Tail(s)) PROVE i + 1 \in 1 .. Len(s) /\ Tail(s)[i] = s[i + 1]
    BY <1>2
  <2>2. ASSUME NEW i \in 1 .. Len(s), i # 1
        PROVE  i - 1 \in 1 .. Len(Tail(s)) /\ Tail(s)[i - 1] = s[i]
    <3>1. i - 1 \in 1 .. Len(Tail(s)) /\ (i - 1) + 1 = i
      BY <1>2, <2>2
    <3> QED
      BY <1>2, <3>1
  <2>3. p \in ToSet(Tail(s)) <=> \E i \in 1 .. Len(Tail(s)) : p = Tail(s)[i]
    BY <1>2, ToSetOf, ZenonT(30)
  <2>4. p \in ToSet(s) <=> \E i \in 1 .. Len(s) : p = s[i]
    BY ToSetOf
  <2> HIDE DEF s
  <2> QED
    BY <1>3, <2>1, <2>2, <2>3, <2>4
<1>4. RenderSnake(g) = [p \in Cells |-> Shown(g, p)]
  BY <1>1, <1>3 DEF RenderSnake, Shown
<1> QED
  BY <1>4 DEF Shown, Shows

LEMMA Painted ==
  ASSUME NEW picture \in [Cells -> Shows], NEW p, NEW what \in Shows
  PROVE  /\ Paint(picture, p, what) \in [Cells -> Shows]
         /\ \A q \in Cells : Paint(picture, p, what)[q] = IF q = p THEN what ELSE picture[q]
BY DEF Paint

\* The four cells render_partial paints, over any picture.
Repainted(picture, g, q) ==
  IF q = g.food THEN "food" ELSE IF q = g.body[2] THEN "body"
  ELSE IF q = g.body[1] THEN "head" ELSE IF q = g.last_tail THEN "empty" ELSE picture[q]

LEMMA PartialIs ==
  ASSUME NEW picture \in [Cells -> Shows], NEW g, g.state = "Playing", g.moved,
         g.body \in Seq(Cells), Len(g.body) > 1
  PROVE  RenderPartial(picture, g) = [q \in Cells |-> Repainted(picture, g, q)]
<1> DEFINE p1 == Paint(picture, g.last_tail, "empty")
           p2 == Paint(p1, Head(g.body), "head")
           p3 == Paint(p2, g.body[2], "body")
           p4 == Paint(p3, g.food, "food")
<1>1. RenderPartial(picture, g) = p4 /\ Head(g.body) = g.body[1]
  BY DEF RenderPartial
<1>2. p1 \in [Cells -> Shows] /\ \A q \in Cells : p1[q] = IF q = g.last_tail THEN "empty" ELSE picture[q]
  BY Painted DEF Shows
<1> HIDE DEF p1
<1>3. p2 \in [Cells -> Shows] /\ \A q \in Cells : p2[q] = IF q = g.body[1] THEN "head" ELSE p1[q]
  BY <1>1, <1>2, Painted DEF Shows
<1> HIDE DEF p2
<1>4. p3 \in [Cells -> Shows] /\ \A q \in Cells : p3[q] = IF q = g.body[2] THEN "body" ELSE p2[q]
  BY <1>3, Painted DEF Shows
<1> HIDE DEF p3
<1>5. p4 \in [Cells -> Shows] /\ \A q \in Cells : p4[q] = IF q = g.food THEN "food" ELSE p3[q]
  BY <1>4, Painted DEF Shows
<1> HIDE DEF p4
<1>6. \A q \in Cells : p4[q] = Repainted(picture, g, q)
  BY <1>2, <1>3, <1>4, <1>5 DEF Repainted
<1> QED
  BY <1>1, <1>5, <1>6

LEMMA LastApart ==
  ASSUME NEW s \in Seq(Cells), Len(s) > 0, Distinct(s)
  PROVE  ToSet(s) = ToSet(Front(s)) \cup {Last(s)} /\ Last(s) \notin ToSet(Front(s))
<1> DEFINE n == Len(s)
<1>1. Front(s) \in Seq(Cells) /\ Len(Front(s)) = n - 1 /\ \A i \in 1 .. n - 1 : Front(s)[i] = s[i]
  BY FrontOf
<1>2. n \in 1 .. n /\ Last(s) = s[n] /\ n \in Nat
  BY DEF Last
<1>3. \A y : y \in ToSet(Front(s)) <=> \E i \in 1 .. n - 1 : y = s[i]
  BY <1>1, ToSetOf
<1>4. \A y : y \in ToSet(s) <=> \E i \in 1 .. n : y = s[i]
  BY ToSetOf
<1>5. \A i \in 1 .. n - 1 : i \in 1 .. n /\ s[i] # s[n]
  <2> SUFFICES ASSUME NEW i \in 1 .. n - 1 PROVE i \in 1 .. n /\ s[i] # s[n]
    OBVIOUS
  <2>1. i \in 1 .. n /\ i # n
    BY <1>2
  <2> QED
    BY <1>2, <2>1 DEF Distinct
<1>6. \A i \in 1 .. n : i = n \/ i \in 1 .. n - 1
  BY <1>2
<1> HIDE DEF n
<1> QED
  BY <1>2, <1>3, <1>4, <1>5, <1>6

\* After a move that does not end the game, the four cells are all there is
\* to paint.
LEMMA PartialEnough ==
  ASSUME NEW g, Sound(g), g.state = "Playing", NEW h, Updated(g, h), h.state = "Playing"
  PROVE  /\ RenderPartial(RenderSnake(g), h) = RenderSnake(h)
         /\ h.body[1] # g.body[1]
<1> DEFINE x == NextHead(g)
           old == RenderSnake(g)
<1>1. /\ g \in Games /\ g.body \in Seq(Cells) /\ g.score \in Nat /\ Len(g.body) = 4 + g.score \div 10
      /\ Distinct(g.body) /\ Chain(g.body) /\ g.food \notin ToSet(g.body)
      /\ g.food \in Cells /\ g.next_direction \in Directions
  BY DEF Sound, Intact, Games
<1>2. Len(g.body) >= 4
  BY <1>1
<1>3. /\ Sound(h) /\ h.body \in Seq(Cells) /\ h.food \in Cells /\ h.score \in Nat
      /\ Len(h.body) = 4 + h.score \div 10 /\ h.food \notin ToSet(h.body)
  BY UpdatedSound DEF Sound, Intact, Games
<1>4. Len(h.body) >= 4
  BY <1>3
<1>5. Entered(g, h) /\ (Stepped(g, h) \/ Grew(g, h))
  BY DEF Updated, Stopped, Stepped, Grew
<1>6. /\ h.moved /\ x \in Cells /\ x \notin ToSet(Front(g.body))
  BY <1>5 DEF Entered
<1>7. g.body[1] \in Cells /\ x # g.body[1] /\ \E d \in Directions : x = Ahead(g.body[1], d)
  <2>1. g.body[1] \in Cells
    BY <1>1, <1>2
  <2> QED
    BY <1>1, <2>1, AheadMoves, CellsArePlaces DEF NextHead
<1>8. old \in [Cells -> Shows] /\ \A q \in Cells : old[q] = Shown(g, q)
  BY <1>1, <1>2, RenderIs
<1>9. RenderPartial(old, h) = [q \in Cells |-> Repainted(old, h, q)]
  <2> HIDE DEF old
  <2> QED
    BY <1>3, <1>4, <1>6, <1>8, PartialIs
<1>10. RenderSnake(h) = [q \in Cells |-> Shown(h, q)]
  BY <1>3, <1>4, RenderIs
<1>11. g.body[1] \in ToSet(Front(g.body)) /\ ToSet(g.body) = ToSet(Front(g.body)) \cup {Last(g.body)}
       /\ Last(g.body) \notin ToSet(Front(g.body))
  <2>1. 1 \in 1 .. Len(g.body) - 1 /\ Len(g.body) > 0
    BY <1>1, <1>2
  <2>2. Front(g.body) \in Seq(Cells) /\ Len(Front(g.body)) = Len(g.body) - 1 /\ Front(g.body)[1] = g.body[1]
    BY <1>1, <2>1, FrontOf
  <2>3. g.body[1] \in ToSet(Front(g.body))
    BY <2>1, <2>2, ToSetOf
  <2> QED
    BY <1>1, <2>1, <2>3, LastApart
<1> HIDE DEF x, old
<1>12. CASE Stepped(g, h)
  <2>1. h.food = g.food /\ h.last_tail = Last(g.body) /\ h.body = Front(<<x>> \o g.body)
    BY <1>12 DEF Stepped, x
  <2>2. h.body[1] = x /\ h.body[2] = g.body[1]
    <3>1. 2 \in 2 .. Len(g.body) /\ 2 - 1 = 1 /\ Len(g.body) > 0
      BY <1>1, <1>2
    <3> QED
      BY <1>1, <1>6, <2>1, <3>1, MovedOn
  <2>3. ToSet(h.body) = {x} \cup ToSet(Front(g.body))
    BY <1>1, <1>2, <1>6, <1>7, <2>1, MovedKeeps
  <2>4. \A q \in Cells : Repainted(old, h, q) = Shown(h, q)
    BY <1>1, <1>3, <1>6, <1>7, <1>8, <1>11, <2>1, <2>2, <2>3, SMTT(30) DEF Repainted, Shown
  <2> QED
    BY <1>7, <1>9, <1>10, <2>2, <2>4 DEF old
<1>13. CASE Grew(g, h)
  <2>1. x = g.food /\ h.last_tail = NoCell /\ h.body = <<x>> \o g.body
    BY <1>13 DEF Grew, x
  <2>2. h.body[1] = x /\ h.body[2] = g.body[1]
    <3>1. 2 \in 2 .. Len(g.body) + 1 /\ 2 - 1 = 1
      BY <1>1, <1>2
    <3> QED
      BY <1>1, <1>6, <2>1, <3>1, Pushed
  <2>3. ToSet(h.body) = {x} \cup ToSet(g.body)
    <3>1. x \notin ToSet(g.body) /\ Len(g.body) > 0
      BY <1>1, <1>2, <2>1
    <3> QED
      BY <1>1, <1>6, <1>7, <2>1, <3>1, GrownKeeps
  <2>4. NoCell \notin Cells
    BY GridAssumption DEF NoCell, Cells
  <2>5. \A q \in Cells : Repainted(old, h, q) = Shown(h, q)
    BY <1>1, <1>3, <1>6, <1>7, <1>8, <1>11, <2>1, <2>2, <2>3, <2>4 DEF Repainted, Shown
  <2> QED
    BY <1>7, <1>9, <1>10, <2>2, <2>5 DEF old
<1> QED
  BY <1>5, <1>12, <1>13

-----------------------------------------------------------------------------
(* A frame, and the theorems.                                                 *)

LEMMA RenderedAlike ==
  ASSUME NEW g, NEW h, h.body = g.body, h.food = g.food
  PROVE  RenderSnake(h) = RenderSnake(g)
BY DEF RenderSnake

LEMMA PlayedOutcomes ==
  ASSUME NEW g, Sound(g), NEW scancodes, Len(scancodes) \in Nat, NEW pit_advanced \in BOOLEAN,
         NEW h \in Played(g, scancodes, pit_advanced)
  PROVE  /\ Sound(h)
         /\ g.state # "GameOver" => h.direction # Opposite(g.direction)
         /\ Rendered(RenderSnake(g), g, h) = RenderSnake(h)
<1>1. PICK f \in After(g) : h = f \/ h \in Tick(f)
  BY AfterKeysStay DEF Played
<1>2. /\ Sound(f) /\ f \in Games /\ g \in Games /\ g.direction \in Directions
      /\ f.state \in {"Playing", "Paused", "GameOver"} /\ g.state \in {"Playing", "Paused", "GameOver"}
      /\ f.body \in Seq(Cells) /\ Head(f.body) = f.body[1]
  BY <1>1 DEF After, Sound, Games
<1>3. /\ Sound(h)
      /\ \/ Waited(f, h)
         \/ f.state = "Playing" /\ Updated(f, h) /\ ~(f.score = 0 /\ f.tick_counter = 0)
  BY <1>1, <1>2, TickOutcomes DEF Waited
<1>4. h.body \in Seq(Cells) /\ Head(h.body) = h.body[1] /\ h.next_direction # Opposite(h.direction)
  BY <1>3 DEF Sound, Games
<1>5. \/ /\ g.state # "GameOver" /\ f.state # "GameOver"
         /\ f.body = g.body /\ f.food = g.food /\ f.direction = g.direction
      \/ g.state = "GameOver" /\ f = g
      \/ g.state = "GameOver" /\ f.state # "GameOver" /\ f.score = 0 /\ f.tick_counter = 0
  BY <1>1 DEF After
<1>6. ASSUME g.state # "GameOver" PROVE h.direction # Opposite(g.direction)
  <2>1. f.direction = g.direction /\ f.next_direction # Opposite(f.direction)
    BY <1>2, <1>5, <1>6 DEF Sound
  <2>2. h.direction = f.direction \/ h.direction = f.next_direction
    BY <1>3 DEF Waited, Updated, Stopped, Stepped, Grew, Entered, Turned
  <2> QED
    BY <1>2, <2>1, <2>2, OppositeTurns
<1>7. Rendered(RenderSnake(g), g, h) = RenderSnake(h)
  <2>1. CASE g.state # h.state
    BY <2>1 DEF Rendered
  <2>2. CASE g.state = h.state /\ Waited(f, h)
    <3>1. h.body = g.body /\ h.food = g.food
      BY <1>5, <2>2 DEF Waited
    <3> QED
      BY <2>2, <3>1, RenderedAlike DEF Rendered
  <2>3. CASE g.state = h.state /\ f.state = "Playing" /\ Updated(f, h) /\ ~(f.score = 0 /\ f.tick_counter = 0)
    <3>1. g.state # "GameOver" /\ f.body = g.body /\ f.food = g.food
      BY <1>5, <2>3
    <3>2. h.state = "Playing"
      BY <2>3, <3>1 DEF Updated, Stopped, Stepped, Grew
    <3>3. RenderPartial(RenderSnake(f), h) = RenderSnake(h) /\ h.body[1] # f.body[1]
      BY <1>2, <2>3, <3>2, PartialEnough
    <3>4. RenderSnake(f) = RenderSnake(g)
      BY <3>1, RenderedAlike
    <3> QED
      BY <1>2, <1>4, <2>3, <3>1, <3>3, <3>4 DEF Rendered
  <2> QED
    BY <1>3, <2>1, <2>2, <2>3
<1> QED
  BY <1>3, <1>6, <1>7

\* The inductive invariant.
GameSound == Sound(game) /\ SNAKE_SCANCODES \in Seq(Keys) /\ PictureFollows

LEMMA InitSound == Init => GameSound
<1> SUFFICES ASSUME Init PROVE GameSound
  OBVIOUS
<1>1. <<0, 0>> \in Cells /\ game \in Reset([food |-> <<0, 0>>])
  BY NewBodyFits DEF Init
<1>2. Sound(game)
  BY <1>1, ResetSound
<1>3. SNAKE_SCANCODES \in Seq(Keys) /\ PictureFollows
  BY DEF Init, PictureFollows
<1> QED
  BY <1>2, <1>3 DEF GameSound

\* Every step keeps the game sound and its picture true, and never makes a
\* snake that is alive reverse.
LEMMA NextSound ==
  GameSound /\ [Next]_vars =>
    /\ GameSound'
    /\ game.state # "GameOver" => game'.direction # Opposite(game.direction)
<1> SUFFICES ASSUME GameSound, [Next]_vars
             PROVE  /\ GameSound'
                    /\ game.state # "GameOver" => game'.direction # Opposite(game.direction)
  OBVIOUS
<1>1. /\ Sound(game) /\ SNAKE_SCANCODES \in Seq(Keys) /\ Len(SNAKE_SCANCODES) \in Nat
      /\ drawn = RenderSnake(game) /\ game.food \in Cells
      /\ game.direction # Opposite(game.direction)
  <2>1. Sound(game) /\ SNAKE_SCANCODES \in Seq(Keys) /\ drawn = RenderSnake(game)
    BY DEF GameSound, PictureFollows
  <2>2. game.food \in Cells /\ game.direction \in Directions
    BY <2>1 DEF Sound, Games
  <2> QED
    BY <2>1, <2>2, OppositeTurns
<1>2. CASE KeyInterrupt
  <2>1. PICK k \in Keys : SNAKE_SCANCODES' = Append(SNAKE_SCANCODES, k)
    BY <1>2 DEF KeyInterrupt
  <2>2. SNAKE_SCANCODES' \in Seq(Keys)
    BY <1>1, <2>1
  <2> QED
    BY <1>1, <1>2, <2>2 DEF KeyInterrupt, GameSound, PictureFollows
<1>3. CASE Frame
  <2>1. PICK pit_advanced \in BOOLEAN : game' \in Played(game, SNAKE_SCANCODES, pit_advanced)
    BY <1>3 DEF Frame
  <2>2. /\ Sound(game')
        /\ game.state # "GameOver" => game'.direction # Opposite(game.direction)
        /\ Rendered(RenderSnake(game), game, game') = RenderSnake(game')
    BY <1>1, <2>1, PlayedOutcomes
  <2>3. drawn' = RenderSnake(game') /\ SNAKE_SCANCODES' \in Seq(Keys)
    BY <1>1, <1>3, <2>2 DEF Frame
  <2> QED
    BY <2>2, <2>3 DEF GameSound, PictureFollows
<1>4. CASE MinimizedFrame
  BY <1>1, <1>4 DEF MinimizedFrame, GameSound, PictureFollows
<1>5. CASE ClickRestart
  <2>1. Sound(game')
    BY <1>1, <1>5, ResetSound DEF ClickRestart
  <2> QED
    BY <1>1, <1>5, <2>1 DEF ClickRestart, GameSound, PictureFollows
<1>6. CASE ToggleMaximize
  BY <1>1, <1>6 DEF ToggleMaximize, GameSound, PictureFollows
<1>7. CASE UNCHANGED vars
  BY <1>1, <1>7 DEF vars, GameSound, PictureFollows
<1> QED
  BY <1>2, <1>3, <1>4, <1>5, <1>6, <1>7 DEF Next

LEMMA SoundGivesIntact == GameSound => SnakeIntact
<1> SUFFICES ASSUME GameSound PROVE SnakeIntact
  OBVIOUS
<1>1. /\ game.body \in Seq(Cells) /\ game.food \in Cells /\ Distinct(game.body) /\ Chain(game.body)
      /\ Len(game.body) = 4 + game.score \div 10
      /\ game.state # "GameOver" => game.food \notin ToSet(game.body)
  BY DEF GameSound, Sound, Intact, Games
<1>2. ToSet(game.body) \subseteq Cells
  BY <1>1, ToSetOf
<1>3. Cardinality(ToSet(game.body)) = Len(game.body)
  BY <1>1, DistinctCount
<1> QED
  BY <1>1, <1>2, <1>3 DEF SnakeIntact, Chain

\* The snake is a chain of distinct neighbouring cells on the board, one longer
\* for each food eaten, and while the game goes on there is food to reach: on
\* every board, also when the head enters the cell that the tail leaves, and
\* when the board fills up.
THEOREM Snake_StaysIntact == Spec => []SnakeIntact
<1>1. GameSound /\ [Next]_vars => GameSound'
  BY NextSound
<1> QED
  BY InitSound, <1>1, SoundGivesIntact, PTL DEF Spec

\* The incremental painting always leaves the picture that a whole repaint
\* would give.
THEOREM Snake_PictureFollows == Spec => []PictureFollows
<1>1. GameSound /\ [Next]_vars => GameSound'
  BY NextSound
<1>2. GameSound => PictureFollows
  BY DEF GameSound
<1> QED
  BY InitSound, <1>1, <1>2, PTL DEF Spec

\* However many keys are queued between two moves, a snake that is alive never
\* reverses into its own neck.
THEOREM Snake_NeverReverses == Spec => NeverReverses
<1>1. GameSound /\ [Next]_vars => GameSound'
  BY NextSound
<1>2. GameSound /\ [Next]_vars
        => [game.state # "GameOver" => game'.direction # Opposite(game.direction)]_vars
  BY NextSound
<1> QED
  BY InitSound, <1>1, <1>2, PTL DEF Spec, NeverReverses
=============================================================================
