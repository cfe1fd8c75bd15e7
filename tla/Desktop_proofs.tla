--------------------------- MODULE Desktop_proofs ---------------------------
(* Theorems about Desktop, for any windows, any number of clicks between two  *)
(* frames and any labels.                                                     *)
EXTENDS Desktop, TLAPS, FiniteSetTheorems, FunctionTheorems, SequenceTheorems

-----------------------------------------------------------------------------
(* Lists.                                                                     *)

Members(s)  == {s[i] : i \in 1 .. Len(s)}
Distinct(s) == \A i, j \in 1 .. Len(s) : s[i] = s[j] => i = j

LEMMA DistinctCount ==
  ASSUME NEW T, NEW s \in Seq(T), Distinct(s)
  PROVE  IsFiniteSet(Members(s)) /\ Cardinality(Members(s)) = Len(s)
<1>1. s \in [1 .. Len(s) -> Members(s)] /\ Len(s) \in Nat
  BY DEF Members
<1>2. s \in Bijection(1 .. Len(s), Members(s))
  BY <1>1 DEF Distinct, Members, Bijection, Injection, Surjection, IsInjective
<1>3. ExistsBijection(1 .. Len(s), Members(s))
  BY <1>2 DEF ExistsBijection
<1>4. IsFiniteSet(1 .. Len(s))
  BY <1>1, FS_Interval
<1>5. IsFiniteSet(Members(s))
  BY <1>3, <1>4, FS_Bijection
<1>6. Cardinality(Members(s)) = Len(s)
  BY <1>1, <1>3, FS_CountingElements
<1> QED
  BY <1>5, <1>6

\* A list of distinct members of a finite set is no longer than the set.
LEMMA DistinctFits ==
  ASSUME NEW T, IsFiniteSet(T), NEW s \in Seq(T), Distinct(s)
  PROVE  Len(s) <= Cardinality(T)
<1>1. Members(s) \in SUBSET T
  BY DEF Members
<1> QED
  BY <1>1, DistinctCount, FS_Subset

\* How many of a finite set of numbers come up to each of them: a bijection.
LEMMA CountedUpTo ==
  ASSUME NEW K \in SUBSET Nat, IsFiniteSet(K)
  PROVE  LET upto == [i \in K |-> Cardinality({j \in K : j <= i})]
         IN  /\ \A i \in K : upto[i] \in 1 .. Cardinality(K)
             /\ \A i, j \in K : upto[i] = upto[j] => i = j
             /\ \A n \in 1 .. Cardinality(K) : \E i \in K : upto[i] = n
<1> DEFINE below(i) == {j \in K : j <= i}
           upto == [i \in K |-> Cardinality(below(i))]
           c == Cardinality(K)
<1>1. c \in Nat /\ IsFiniteSet(1 .. c) /\ Cardinality(1 .. c) = c
  BY FS_CardinalityType, FS_Interval
<1>2. ASSUME NEW i \in K
      PROVE  /\ IsFiniteSet(below(i)) /\ Cardinality(below(i)) \in 1 .. c
             /\ upto[i] = Cardinality(below(i))
  <2>1. below(i) \in SUBSET K /\ i \in below(i)
    OBVIOUS
  <2>2. IsFiniteSet(below(i)) /\ Cardinality(below(i)) <= c
    BY <2>1, FS_Subset
  <2>3. Cardinality(below(i)) \in Nat /\ Cardinality(below(i)) # 0
    BY <2>1, <2>2, FS_CardinalityType, FS_EmptySet
  <2> QED
    BY <1>1, <2>2, <2>3
<1>3. ASSUME NEW i \in K, NEW j \in K, i < j PROVE upto[i] # upto[j]
  <2>1. below(i) \in SUBSET below(j) /\ j \in below(j) /\ j \notin below(i)
    <3>1. i \in Nat /\ j \in Nat /\ \A k \in K : k \in Nat
      OBVIOUS
    <3>2. \A k \in K : k <= i => k <= j
      BY <1>3, <3>1
    <3>3. ~(j <= i) /\ j <= j
      BY <1>3, <3>1
    <3> QED
      BY <3>2, <3>3
  <2> HIDE DEF below
  <2>2. Cardinality(below(i)) # Cardinality(below(j))
    BY <1>2, <2>1, FS_Subset
  <2> QED
    BY <1>2, <2>2
<1> HIDE DEF below
<1>4. \A i \in K : upto[i] \in 1 .. c
  BY <1>2
<1>5. \A i, j \in K : upto[i] = upto[j] => i = j
  BY <1>3
<1>6. upto \in Injection(K, 1 .. c)
  BY <1>4, <1>5 DEF Injection, IsInjective
<1>7. upto \in Surjection(K, 1 .. c)
  <2> HIDE DEF upto, c
  <2> QED
    BY <1>1, <1>6, FS_Injection DEF c
<1>8. \A n \in 1 .. c : \E i \in K : upto[i] = n
  BY <1>7 DEF Surjection
<1> QED
  BY <1>4, <1>5, <1>8 DEF below

\* Kept has those members of a list that are in S, and none twice that was there once.
LEMMA KeptOf ==
  ASSUME NEW T, NEW s \in Seq(T), NEW S
  PROVE  /\ Kept(s, S) \in Seq(T \cap S)
         /\ Members(Kept(s, S)) = Members(s) \cap S
         /\ Distinct(s) => Distinct(Kept(s, S))
<1> DEFINE K == {i \in 1 .. Len(s) : s[i] \in S}
           c == Cardinality(K)
           upto == [i \in K |-> Cardinality({j \in K : j <= i})]
           place == [n \in 1 .. c |-> CHOOSE i \in K : Cardinality({j \in K : j <= i}) = n]
           t == [n \in 1 .. c |-> s[place[n]]]
<1>1. K \in SUBSET Nat /\ IsFiniteSet(K) /\ c \in Nat
  <2>1. IsFiniteSet(1 .. Len(s)) /\ K \in SUBSET (1 .. Len(s))
    BY FS_Interval
  <2>2. IsFiniteSet(K)
    BY <2>1, FS_Subset
  <2> QED
    BY <2>2, FS_CardinalityType
<1>2. Kept(s, S) = t
  BY DEF Kept
<1>3. \A i \in K : i \in 1 .. Len(s) /\ s[i] \in T \cap S
  OBVIOUS
<1>4. \A i \in 1 .. Len(s) : s[i] \in S => i \in K
  OBVIOUS
<1> HIDE DEF K
<1>5. /\ \A i \in K : upto[i] \in 1 .. c
      /\ \A i, j \in K : upto[i] = upto[j] => i = j
      /\ \A n \in 1 .. c : \E i \in K : upto[i] = n
  BY <1>1, CountedUpTo
<1> HIDE DEF upto, c
<1>6. ASSUME NEW n \in 1 .. c PROVE place[n] \in K /\ upto[place[n]] = n /\ t[n] = s[place[n]]
  <2>1. \E i \in K : Cardinality({j \in K : j <= i}) = n
    BY <1>5 DEF upto
  <2>2. place[n] \in K /\ Cardinality({j \in K : j <= place[n]}) = n
    BY <2>1
  <2> HIDE DEF place
  <2> QED
    BY <2>2 DEF upto
<1> HIDE DEF place
<1>7. ASSUME NEW i \in K PROVE place[upto[i]] = i
  BY <1>5, <1>6
<1>8. t \in Seq(T \cap S) /\ Len(t) = c
  <2>1. \A n \in 1 .. c : t[n] \in T \cap S
    BY <1>3, <1>6
  <2>2. t \in [1 .. c -> T \cap S] /\ DOMAIN t = 1 .. c
    BY <2>1
  <2> HIDE DEF t
  <2> QED
    BY <1>1, <2>2
<1> HIDE DEF t
<1>9. Members(t) = Members(s) \cap S
  <2>1. ASSUME NEW x \in Members(t) PROVE x \in Members(s) \cap S
    BY <1>3, <1>6, <1>8, <2>1 DEF Members
  <2>2. ASSUME NEW x \in Members(s) \cap S PROVE x \in Members(t)
    <3>1. PICK i \in 1 .. Len(s) : x = s[i]
      BY DEF Members
    <3>2. i \in K /\ upto[i] \in 1 .. c
      BY <1>4, <1>5, <3>1
    <3>3. t[upto[i]] = x
      BY <1>6, <1>7, <3>1, <3>2
    <3> QED
      BY <1>8, <3>2, <3>3 DEF Members
  <2> QED
    BY <2>1, <2>2
<1>10. ASSUME Distinct(s) PROVE Distinct(t)
  <2> SUFFICES ASSUME NEW n \in 1 .. c, NEW m \in 1 .. c, t[n] = t[m] PROVE n = m
    BY <1>8 DEF Distinct
  <2>1. place[n] = place[m]
    BY <1>3, <1>6, <1>10 DEF Distinct
  <2> QED
    BY <1>6, <2>1
<1> QED
  BY <1>2, <1>8, <1>9, <1>10

-----------------------------------------------------------------------------
(* The invariant.                                                             *)

\* Each window is in the list once, and only listed windows have flags.
WindowTypes ==
  /\ phase \in {"await", "retain", "minimize", "launch", "route", "drain"}
  /\ windows \in Seq(Windows) /\ Distinct(windows)
  /\ close_btn \subseteq Listed /\ is_minimized \subseteq Listed
  /\ was_minimized \subseteq Listed /\ is_dragging \subseteq Listed
  /\ minimized_labels \in Seq(Windows \X (1 .. Cardinality(Windows)))
  /\ damage \subseteq Windows /\ screen \subseteq Windows

\* A request is an event that has been routed.
RequestsBounded ==
  /\ app_requests \in Nat
  /\ Len(mouse_events) + (IF phase = "route" THEN app_requests ELSE 0) <= MaxEvents
  /\ app_requests <= MaxEvents
  /\ phase = "drain" => mouse_events = <<>>

Release == <<"release">>

\* Presses and releases take turns, and what is held is let go by the next event.
Alternating ==
  /\ mouse_events \in Seq(Targets \cup {Release}) /\ button_down \in BOOLEAN
  /\ \A i \in 1 .. Len(mouse_events) - 1 :
       mouse_events[i] = Release <=> mouse_events[i + 1] # Release
  /\ mouse_events # <<>> => (button_down <=> mouse_events[Len(mouse_events)] # Release)
  /\ is_dragging # {} => IF mouse_events = <<>> THEN button_down ELSE Head(mouse_events) = Release
  /\ \A v, w \in is_dragging : v = w

\* Where the screen is wrong, it is reported or about to be.
Reported ==
  /\ screen \ Visible \subseteq damage \cup (is_minimized \ was_minimized)
  /\ Visible \ screen \subseteq damage \cup (is_minimized \ was_minimized)
  /\ phase = "launch" => is_minimized = was_minimized
  /\ phase = "route" => was_minimized \ is_minimized \subseteq damage
  /\ phase = "await" => damage = {}

\* The labels are those of the frame's beginning.
Labelled ==
  phase \in {"route", "drain", "await"} =>
    {minimized_labels[k][1] : k \in 1 .. Len(minimized_labels)} = was_minimized

DesktopInv == WindowTypes /\ RequestsBounded /\ Alternating /\ Reported /\ Labelled

LEMMA ListedIsMembers == Listed = Members(windows) /\ Listed' = Members(windows')
BY DEF Listed, Members

LEMMA OneHeld ==
  ASSUME NEW S, \A v, w \in S : v = w
  PROVE  IsFiniteSet(S) /\ Cardinality(S) <= 1
<1>1. CASE S = {}
  BY <1>1, FS_EmptySet
<1>2. CASE S # {}
  <2>1. PICK w \in S : S = {w}
    BY <1>2
  <2>2. IsFiniteSet({w}) /\ Cardinality({w}) = 1
    BY FS_Singleton
  <2> QED
    BY <2>1, <2>2
<1> QED
  BY <1>1, <1>2

LEMMA InvImpliesProperties ==
  DesktopInv => TypeOK /\ ScreenFollowsWindows /\ LabelsFollowWindows
<1> SUFFICES ASSUME DesktopInv PROVE TypeOK /\ ScreenFollowsWindows /\ LabelsFollowWindows
  OBVIOUS
<1>1. TypeOK
  <2>1. Cardinality(Listed) = Len(windows)
    BY ListedIsMembers, DistinctCount DEF DesktopInv, WindowTypes
  <2>2. Cardinality(is_dragging) <= 1
    BY OneHeld DEF DesktopInv, Alternating
  <2>3. app_requests \in 0 .. MaxEvents
    BY DesktopAssumption DEF DesktopInv, RequestsBounded
  <2> QED
    BY <2>1, <2>2, <2>3 DEF TypeOK, DesktopInv, WindowTypes
<1>2. ScreenFollowsWindows
  BY DEF ScreenFollowsWindows, DesktopInv, Reported
<1>3. LabelsFollowWindows
  <2>1. DOMAIN minimized_labels = 1 .. Len(minimized_labels)
    BY DEF DesktopInv, WindowTypes
  <2> QED
    BY <2>1 DEF LabelsFollowWindows, DesktopInv, Labelled
<1> QED
  BY <1>1, <1>2, <1>3

-----------------------------------------------------------------------------
(* What the operators give.                                                   *)

\* A window put on top of the others.
LEMMA AppendDistinct ==
  ASSUME NEW T, NEW s \in Seq(T), Distinct(s), NEW w \in T, w \notin Members(s)
  PROVE  /\ Append(s, w) \in Seq(T) /\ Distinct(Append(s, w))
         /\ Members(Append(s, w)) = Members(s) \cup {w}
<1> DEFINE t == Append(s, w)
           n == Len(s)
<1>1. /\ t \in Seq(T) /\ Len(t) = n + 1 /\ n \in Nat
      /\ \A i \in 1 .. n : t[i] = s[i] /\ t[i] # w
      /\ t[n + 1] = w
  BY AppendProperties DEF Members
<1> HIDE DEF t, n
<1>2. \A i \in 1 .. n + 1 : i = n + 1 \/ i \in 1 .. n
  BY <1>1
<1>3. Distinct(t)
  BY <1>1, <1>2 DEF Distinct, n
<1>4. Members(t) = Members(s) \cup {w}
  <2>1. n + 1 \in 1 .. n + 1 /\ 1 .. n \subseteq 1 .. n + 1
    BY <1>1
  <2> QED
    BY <1>1, <1>2, <2>1 DEF Members, n
<1> QED
  BY <1>1, <1>3, <1>4 DEF t

LEMMA RaisedOf ==
  ASSUME WindowTypes, NEW w \in Listed
  PROVE  Raised(w) \in Seq(Windows) /\ Distinct(Raised(w)) /\ Members(Raised(w)) = Listed
<1>1. windows \in Seq(Windows) /\ Distinct(windows) /\ w \in Windows /\ Listed = Members(windows)
  BY ListedIsMembers DEF WindowTypes, Listed
<1>2. CASE windows[Len(windows)] = w
  BY <1>1, <1>2 DEF Raised
<1>3. CASE windows[Len(windows)] # w
  <2> DEFINE rest == Kept(windows, Windows \ {w})
  <2>1. /\ rest \in Seq(Windows \cap (Windows \ {w})) /\ Distinct(rest)
        /\ Members(rest) = Listed \cap (Windows \ {w})
    BY <1>1, KeptOf
  <2>2. rest \in Seq(Windows) /\ w \notin Members(rest) /\ Members(rest) \cup {w} = Listed
    <3>1. Listed \subseteq Windows
      BY <1>1 DEF Listed
    <3> HIDE DEF rest
    <3>2. rest \in Seq(Windows)
      BY <2>1
    <3> QED
      BY <2>1, <3>1, <3>2
  <2>3. Raised(w) = Append(rest, w)
    BY <1>3 DEF Raised
  <2> HIDE DEF rest
  <2>4. /\ Append(rest, w) \in Seq(Windows) /\ Distinct(Append(rest, w))
        /\ Members(Append(rest, w)) = Members(rest) \cup {w}
    BY <1>1, <2>1, <2>2, AppendDistinct
  <2> QED
    BY <2>2, <2>3, <2>4
<1> QED
  BY <1>2, <1>3

\* The labels made are those of the minimised windows.
LEMMA TitlesOf ==
  ASSUME WindowTypes
  PROVE  /\ MinimizedTitles \in Seq(Windows \X (1 .. Cardinality(Windows)))
         /\ {MinimizedTitles[k][1] : k \in 1 .. Len(MinimizedTitles)} = is_minimized
<1> DEFINE n == Len(windows)
           T == Windows \X (1 .. Cardinality(Windows))
           s == [i \in 1 .. n |-> <<windows[i], i>>]
           S == is_minimized \X (1 .. n)
           t == Kept(s, S)
<1>1. /\ n \in Nat /\ n <= Cardinality(Windows) /\ Cardinality(Windows) \in Nat
      /\ is_minimized \subseteq Listed
      /\ \A i \in 1 .. n : windows[i] \in Windows
  BY DesktopAssumption, DistinctFits, FS_CardinalityType DEF WindowTypes
<1>2. s \in Seq(T) /\ Len(s) = n
  <2>1. \A i \in 1 .. n : <<windows[i], i>> \in T
    BY <1>1
  <2>2. s \in [1 .. n -> T] /\ DOMAIN s = 1 .. n
    BY <2>1
  <2> HIDE DEF s, T
  <2> QED
    BY <1>1, <2>2
<1>3. MinimizedTitles = t
  BY DEF MinimizedTitles
<1>4. Members(s) = {<<windows[i], i>> : i \in 1 .. n}
  <2>1. \A i \in 1 .. n : s[i] = <<windows[i], i>>
    OBVIOUS
  <2> HIDE DEF s
  <2> QED
    BY <1>2, <2>1 DEF Members
<1> HIDE DEF s, T
<1>5. t \in Seq(T \cap S) /\ Members(t) = Members(s) \cap S
  BY <1>2, KeptOf
<1>6. t \in Seq(T)
  <2> HIDE DEF t
  <2> QED
    BY <1>5
<1> HIDE DEF t
<1>7. {t[k][1] : k \in 1 .. Len(t)} = is_minimized
  <2>1. ASSUME NEW k \in 1 .. Len(t) PROVE t[k][1] \in is_minimized
    <3>1. t[k] \in S
      BY <1>5
    <3> QED
      BY <3>1
  <2>2. ASSUME NEW w \in is_minimized PROVE \E k \in 1 .. Len(t) : t[k][1] = w
    <3>1. PICK i \in 1 .. n : windows[i] = w
      BY <1>1 DEF Listed
    <3>2. <<w, i>> \in Members(s) /\ <<w, i>> \in S
      BY <1>4, <3>1
    <3>3. PICK k \in 1 .. Len(t) : t[k] = <<w, i>>
      BY <1>5, <3>2 DEF Members
    <3> QED
      BY <3>3
  <2> QED
    BY <2>1, <2>2
<1> QED
  BY <1>3, <1>6, <1>7 DEF T

-----------------------------------------------------------------------------
(* Events.                                                                    *)

LEMMA TargetIsNoRelease ==
  /\ Release \notin Targets /\ Release[1] = "release"
  /\ \A e \in Targets : e[1] \in {"menu", "window", "label"}
BY DEF Targets, Release

\* The next event is taken.
LEMMA Popped ==
  ASSUME Alternating, mouse_events # <<>>, mouse_events' = Tail(mouse_events),
         UNCHANGED button_down
  PROVE  /\ mouse_events' \in Seq(Targets \cup {Release}) /\ Len(mouse_events') = Len(mouse_events) - 1
         /\ \A i \in 1 .. Len(mouse_events') - 1 :
              mouse_events'[i] = Release <=> mouse_events'[i + 1] # Release
         /\ mouse_events' # <<>> => (button_down' <=> mouse_events'[Len(mouse_events')] # Release)
         /\ Head(mouse_events) # Release =>
              IF mouse_events' = <<>> THEN button_down' ELSE Head(mouse_events') = Release
         /\ Head(mouse_events) \in Targets \cup {Release}
<1> DEFINE q == mouse_events
           n == Len(mouse_events)
           t == Tail(mouse_events)
<1>1. q \in Seq(Targets \cup {Release}) /\ n \in Nat /\ n # 0
  BY DEF Alternating
<1>2. /\ t \in Seq(Targets \cup {Release}) /\ Len(t) = n - 1
      /\ \A i \in 1 .. n - 1 : t[i] = q[i + 1]
      /\ Head(q) = q[1] /\ q[1] \in Targets \cup {Release}
      /\ t # <<>> => n > 1 /\ Head(t) = t[1]
      /\ t = <<>> => n = 1
  <2> HIDE DEF q
  <2>1. /\ t \in Seq(Targets \cup {Release}) /\ Len(t) = n - 1
        /\ \A i \in 1 .. n - 1 : t[i] = q[i + 1]
    BY <1>1, HeadTailProperties DEF q
  <2>2. Head(q) = q[1] /\ q[1] \in Targets \cup {Release}
    BY <1>1 DEF q
  <2>3. t # <<>> <=> n - 1 # 0
    BY <2>1, EmptySeq
  <2>4. t # <<>> => Head(t) = t[1]
    BY <2>1
  <2> QED
    BY <1>1, <2>1, <2>2, <2>3, <2>4
<1>3. /\ \A i \in 1 .. n - 1 : q[i] = Release <=> q[i + 1] # Release
      /\ button_down <=> q[n] # Release
      /\ mouse_events' = t /\ button_down' = button_down
  BY DEF Alternating
<1> HIDE DEF q, n, t
<1>4. ASSUME NEW i \in 1 .. (n - 1) - 1 PROVE t[i] = Release <=> t[i + 1] # Release
  <2>1. i \in 1 .. n - 1 /\ i + 1 \in 1 .. n - 1
    BY <1>1
  <2> QED
    BY <1>2, <1>3, <2>1
<1>5. ASSUME t # <<>> PROVE button_down <=> t[n - 1] # Release
  <2>1. n - 1 \in 1 .. n - 1 /\ (n - 1) + 1 = n
    BY <1>1, <1>2, <1>5
  <2> QED
    BY <1>2, <1>3, <2>1
<1>6. ASSUME q[1] # Release PROVE IF t = <<>> THEN button_down ELSE Head(t) = Release
  <2>1. CASE t = <<>>
    BY <1>2, <1>3, <1>6, <2>1
  <2>2. CASE t # <<>>
    <3>1. 1 \in 1 .. n - 1
      BY <1>1, <1>2, <2>2
    <3> QED
      BY <1>2, <1>3, <1>6, <2>2, <3>1
  <2> QED
    BY <2>1, <2>2
<1> QED
  BY <1>2, <1>3, <1>4, <1>5, <1>6 DEF q, n, t

\* What is held afterwards is one window, and only if the event was a press.
LEMMA RoutedAlternates ==
  ASSUME DesktopInv, NEW kind, Routed(kind),
         \/ kind = "release" /\ is_dragging' = {}
         \/ kind # "release" /\ \E w : is_dragging' \subseteq is_dragging \cup {w}
  PROVE  Alternating'
<1>1. /\ Alternating /\ mouse_events # <<>> /\ mouse_events' = Tail(mouse_events)
      /\ UNCHANGED button_down /\ Head(mouse_events)[1] = kind
  BY DEF DesktopInv, Routed
<1>2. /\ mouse_events' \in Seq(Targets \cup {Release})
      /\ \A i \in 1 .. Len(mouse_events') - 1 :
           mouse_events'[i] = Release <=> mouse_events'[i + 1] # Release
      /\ mouse_events' # <<>> => (button_down' <=> mouse_events'[Len(mouse_events')] # Release)
      /\ Head(mouse_events) # Release =>
           IF mouse_events' = <<>> THEN button_down' ELSE Head(mouse_events') = Release
  BY <1>1, Popped
<1>3. button_down' \in BOOLEAN
  BY <1>1 DEF Alternating
<1>4. CASE kind = "release"
  BY <1>2, <1>3, <1>4 DEF Alternating
<1>5. CASE kind # "release"
  <2>1. Head(mouse_events) # Release
    BY <1>1, <1>5, TargetIsNoRelease
  <2>2. is_dragging = {}
    BY <1>1, <2>1 DEF Alternating
  <2>3. PICK w : is_dragging' \subseteq {w}
    BY <1>5, <2>2
  <2> QED
    BY <1>2, <1>3, <2>1, <2>3 DEF Alternating
<1> QED
  BY <1>4, <1>5

\* An event that is taken leaves room for the request it may make.
LEMMA RoutedBounded ==
  ASSUME DesktopInv, NEW kind, Routed(kind),
         app_requests' = app_requests \/ app_requests' = app_requests + 1
  PROVE  RequestsBounded'
<1>1. /\ Alternating /\ RequestsBounded /\ mouse_events # <<>>
      /\ mouse_events' = Tail(mouse_events) /\ phase = "route" /\ phase' = phase
      /\ UNCHANGED button_down
  BY DEF DesktopInv, Routed
<1>2. Len(mouse_events') = Len(mouse_events) - 1 /\ Len(mouse_events) \in Nat
      /\ Len(mouse_events) # 0
  BY <1>1, Popped DEF Alternating
<1>3. MaxEvents \in Nat /\ app_requests \in Nat
      /\ Len(mouse_events) + app_requests <= MaxEvents
  BY <1>1, DesktopAssumption DEF RequestsBounded
<1>4. /\ app_requests' \in Nat /\ Len(mouse_events') + app_requests' <= MaxEvents
      /\ app_requests' <= MaxEvents
  BY <1>2, <1>3
<1> QED
  BY <1>1, <1>4 DEF RequestsBounded

LEMMA MouseButtonKeeps == DesktopInv /\ MouseButton => Alternating' /\ RequestsBounded'
<1> SUFFICES ASSUME DesktopInv, MouseButton PROVE Alternating' /\ RequestsBounded'
  OBVIOUS
<1> DEFINE q == mouse_events
           n == Len(mouse_events)
<1>1. Alternating /\ RequestsBounded /\ MaxEvents \in Nat
  BY DesktopAssumption DEF DesktopInv
<1>2. PICK e \in IF button_down THEN {Release} ELSE Targets : mouse_events' = Append(q, e)
  BY DEF MouseButton, Release
<1>3. e \in Targets \cup {Release} /\ (e = Release <=> button_down) /\ button_down \in BOOLEAN
  BY <1>1, <1>2, TargetIsNoRelease DEF Alternating
<1>4. button_down' = ~button_down /\ phase = "await" /\ n < MaxEvents
      /\ UNCHANGED <<phase, is_dragging, app_requests>>
  BY DEF MouseButton, flags
<1> DEFINE t == Append(q, e)
<1>5. /\ t \in Seq(Targets \cup {Release}) /\ Len(t) = n + 1 /\ n \in Nat /\ t # <<>>
      /\ \A i \in 1 .. n : t[i] = q[i]
      /\ t[n + 1] = e /\ Head(t) = t[1] /\ (q = <<>> <=> n = 0)
      /\ n # 0 => Head(q) = q[1]
  BY <1>1, <1>3, AppendProperties, EmptySeq DEF Alternating
<1>6. /\ \A i \in 1 .. n - 1 : q[i] = Release <=> q[i + 1] # Release
      /\ n # 0 => (button_down <=> q[n] # Release)
      /\ is_dragging # {} => IF n = 0 THEN button_down ELSE q[1] = Release
      /\ \A v, w \in is_dragging : v = w
  BY <1>1, <1>5 DEF Alternating
<1>7. mouse_events' = t
  BY <1>2
<1> HIDE DEF q, n, t
<1>8. ASSUME NEW i \in 1 .. (n + 1) - 1 PROVE t[i] = Release <=> t[i + 1] # Release
  <2>1. CASE i = n
    <3>1. n \in 1 .. n /\ n # 0
      BY <1>5, <2>1
    <3> QED
      BY <1>3, <1>5, <1>6, <2>1, <3>1
  <2>2. CASE i # n
    <3>1. i \in 1 .. n - 1 /\ i \in 1 .. n /\ i + 1 \in 1 .. n
      BY <1>5, <2>2
    <3> QED
      BY <1>5, <1>6, <3>1
  <2> QED
    BY <2>1, <2>2
<1>9. is_dragging # {} => t[1] = Release
  <2>1. CASE n = 0
    BY <1>3, <1>5, <1>6, <2>1
  <2>2. CASE n # 0
    <3>1. 1 \in 1 .. n
      BY <1>5, <2>2
    <3> QED
      BY <1>5, <1>6, <2>2, <3>1
  <2> QED
    BY <2>1, <2>2
<1>10. Alternating'
  <2>1. mouse_events'[Len(mouse_events')] = e /\ Len(mouse_events') = n + 1
    BY <1>5, <1>7
  <2>2. button_down' <=> e # Release
    BY <1>3, <1>4
  <2>3. button_down' \in BOOLEAN
    BY <1>3, <1>4
  <2> QED
    BY <1>4, <1>5, <1>6, <1>7, <1>8, <1>9, <2>1, <2>2, <2>3 DEF Alternating
<1>11. RequestsBounded'
  BY <1>1, <1>4, <1>5, <1>7 DEF RequestsBounded
<1> QED
  BY <1>10, <1>11

-----------------------------------------------------------------------------
(* The steps keep the invariant.                                              *)

LEMMA InitInv == Init => DesktopInv
<1> SUFFICES ASSUME Init PROVE DesktopInv
  OBVIOUS
<1>1. /\ phase = "await" /\ windows = <<>> /\ mouse_events = <<>> /\ minimized_labels = <<>>
      /\ close_btn = {} /\ is_minimized = {} /\ was_minimized = {} /\ is_dragging = {}
      /\ app_requests = 0 /\ button_down = FALSE /\ damage = {} /\ screen = {}
  BY DEF Init
<1>2. Listed = {} /\ Visible = {}
  BY <1>1 DEF Listed, Visible
<1>3. WindowTypes
  BY <1>1, <1>2 DEF WindowTypes, Distinct
<1>4. RequestsBounded
  BY <1>1, DesktopAssumption DEF RequestsBounded
<1>5. Alternating
  <2>1. mouse_events \in Seq(Targets \cup {Release}) /\ Len(mouse_events) = 0
    BY <1>1, EmptySeq
  <2>2. \A i \in 1 .. Len(mouse_events) - 1 : FALSE
    BY <2>1
  <2> QED
    BY <1>1, <2>1, <2>2 DEF Alternating
<1>6. Reported /\ Labelled
  BY <1>1, <1>2 DEF Reported, Labelled
<1> QED
  BY <1>3, <1>4, <1>5, <1>6 DEF DesktopInv

\* The phases of a frame take no event; those that let go of a window may.
LEMMA FramePhase ==
  ASSUME DesktopInv, UNCHANGED input, is_dragging' \subseteq is_dragging,
         phase # "await" \/ phase' = "retain", phase' # "drain" \/ mouse_events = <<>>,
         \/ app_requests' = app_requests
         \/ app_requests > 0 /\ app_requests' = app_requests - 1,
         phase' = "route" => app_requests' = 0
  PROVE  Alternating' /\ RequestsBounded'
<1>1. /\ UNCHANGED <<mouse_events, button_down>> /\ Alternating /\ RequestsBounded
  BY DEF input, DesktopInv
<1>2. Alternating'
  <2>1. is_dragging' # {} => is_dragging # {}
    OBVIOUS
  <2> QED
    BY <1>1, <2>1 DEF Alternating
<1>3. RequestsBounded'
  <2>1. Len(mouse_events) \in Nat /\ Len(mouse_events) <= MaxEvents /\ MaxEvents \in Nat
    BY <1>1, DesktopAssumption DEF Alternating, RequestsBounded
  <2>2. app_requests' \in Nat /\ app_requests' <= MaxEvents
    BY <1>1, <2>1 DEF RequestsBounded
  <2> QED
    BY <1>1, <2>1, <2>2 DEF RequestsBounded
<1> QED
  BY <1>2, <1>3

LEMMA RetainOpenKeeps == DesktopInv /\ RetainOpen => DesktopInv'
<1> SUFFICES ASSUME DesktopInv, RetainOpen PROVE DesktopInv'
  OBVIOUS
<1>1. Alternating' /\ RequestsBounded'
  <2>1. UNCHANGED input /\ phase = "retain" /\ phase' = "minimize"
        /\ is_dragging' \subseteq is_dragging /\ app_requests' = app_requests
    BY DEF RetainOpen
  <2> QED
    BY <2>1, FramePhase
<1>2. windows' \in Seq(Windows) /\ Distinct(windows') /\ Listed' = Listed \ close_btn
  <2> DEFINE left == Kept(windows, Windows \ close_btn)
  <2>1. windows \in Seq(Windows) /\ Distinct(windows) /\ Listed \subseteq Windows
    BY DEF DesktopInv, WindowTypes, Listed
  <2>2. /\ left \in Seq(Windows \cap (Windows \ close_btn)) /\ Distinct(left)
        /\ Members(left) = Listed \cap (Windows \ close_btn)
    BY <2>1, KeptOf, ListedIsMembers
  <2>3. windows' = left
    BY DEF RetainOpen
  <2> HIDE DEF left
  <2>4. left \in Seq(Windows)
    BY <2>2
  <2> QED
    BY <2>1, <2>2, <2>3, <2>4, ListedIsMembers
<1>3. WindowTypes'
  <2>1. close_btn \subseteq Windows
    BY DEF DesktopInv, WindowTypes, Listed
  <2> QED
    BY <1>2, <2>1 DEF RetainOpen, DesktopInv, WindowTypes
<1>4. Reported'
  BY <1>2 DEF RetainOpen, DesktopInv, Reported, Visible
<1>5. Labelled'
  BY DEF RetainOpen, Labelled
<1> QED
  BY <1>1, <1>3, <1>4, <1>5 DEF DesktopInv

LEMMA ReportMinimizedKeeps == DesktopInv /\ ReportMinimized => DesktopInv'
<1> SUFFICES ASSUME DesktopInv, ReportMinimized PROVE DesktopInv'
  OBVIOUS
<1>1. Alternating' /\ RequestsBounded'
  <2>1. UNCHANGED input /\ phase = "minimize" /\ phase' = "launch"
        /\ is_dragging' \subseteq is_dragging /\ app_requests' = app_requests
    BY DEF ReportMinimized
  <2> QED
    BY <2>1, FramePhase
<1>2. Listed' = Listed
  BY DEF ReportMinimized, Listed
<1>3. WindowTypes'
  <2>1. Listed \subseteq Windows
    BY DEF DesktopInv, WindowTypes, Listed
  <2> QED
    BY <1>2, <2>1 DEF ReportMinimized, DesktopInv, WindowTypes
<1>4. Reported'
  BY <1>2 DEF ReportMinimized, DesktopInv, Reported, Visible
<1>5. Labelled'
  BY DEF ReportMinimized, Labelled
<1> QED
  BY <1>1, <1>3, <1>4, <1>5 DEF DesktopInv

\* A new window on top, without flags and reported.
LEMMA OpenedKeeps ==
  ASSUME DesktopInv, NEW w \in Free, windows' = Append(windows, w), damage' = damage \cup {w},
         UNCHANGED <<flags, minimized_labels, screen, phase>>, phase # "await"
  PROVE  WindowTypes' /\ Reported' /\ Labelled'
<1>1. UNCHANGED <<close_btn, is_minimized, was_minimized, is_dragging>>
  BY DEF flags
<1>2. w \in Windows /\ w \notin Listed
  BY DEF Free
<1>3. windows' \in Seq(Windows) /\ Distinct(windows') /\ Listed' = Listed \cup {w}
  BY <1>2, AppendDistinct, ListedIsMembers DEF DesktopInv, WindowTypes
<1>4. WindowTypes'
  BY <1>1, <1>2, <1>3 DEF DesktopInv, WindowTypes
<1>5. Reported'
  BY <1>1, <1>2, <1>3 DEF DesktopInv, WindowTypes, Reported, Visible
<1>6. Labelled'
  BY <1>1 DEF DesktopInv, Labelled
<1> QED
  BY <1>4, <1>5, <1>6

\* A step that touches no window.
LEMMA NoWindowTouched ==
  ASSUME DesktopInv, UNCHANGED <<windows, close_btn, is_minimized, was_minimized>>,
         is_dragging' \subseteq Listed, UNCHANGED <<minimized_labels, damage, screen, phase>>
  PROVE  WindowTypes' /\ Reported' /\ Labelled'
<1>1. Listed' = Listed
  BY DEF Listed
<1>2. WindowTypes'
  BY <1>1 DEF DesktopInv, WindowTypes
<1>3. Reported'
  BY <1>1 DEF DesktopInv, Reported, Visible
<1>4. Labelled'
  BY DEF DesktopInv, Labelled
<1> QED
  BY <1>2, <1>3, <1>4

LEMMA LaunchKeeps == DesktopInv /\ Launch => DesktopInv'
<1> SUFFICES ASSUME DesktopInv, Launch PROVE DesktopInv'
  OBVIOUS
<1>1. Alternating' /\ RequestsBounded'
  <2>1. UNCHANGED input /\ phase = "launch" /\ phase' = "launch" /\ is_dragging' = is_dragging
        /\ app_requests > 0 /\ app_requests' = app_requests - 1
    BY DEF Launch, flags
  <2> QED
    BY <2>1, FramePhase
<1>2. WindowTypes' /\ Reported' /\ Labelled'
  <2>1. CASE Free \ Menus = {}
    <3>1. /\ UNCHANGED <<windows, close_btn, is_minimized, was_minimized, is_dragging>>
          /\ UNCHANGED <<minimized_labels, damage, screen, phase>>
      BY <2>1 DEF Launch, flags
    <3>2. is_dragging' \subseteq Listed
      BY <3>1 DEF DesktopInv, WindowTypes
    <3> QED
      BY <3>1, <3>2, NoWindowTouched
  <2>2. CASE Free \ Menus # {}
    <3>1. PICK w \in Free \ Menus : windows' = Append(windows, w) /\ damage' = damage \cup {w}
      BY <2>2 DEF Launch
    <3>2. UNCHANGED <<flags, minimized_labels, screen, phase>> /\ phase # "await"
      BY DEF Launch
    <3> QED
      BY <3>1, <3>2, OpenedKeeps
  <2> QED
    BY <2>1, <2>2
<1> QED
  BY <1>1, <1>2 DEF DesktopInv

LEMMA LabelMinimizedKeeps == DesktopInv /\ LabelMinimized => DesktopInv'
<1> SUFFICES ASSUME DesktopInv, LabelMinimized PROVE DesktopInv'
  OBVIOUS
<1>1. /\ phase = "launch" /\ app_requests = 0 /\ phase' = "route"
      /\ minimized_labels' = MinimizedTitles
      /\ UNCHANGED <<windows, close_btn, is_minimized, was_minimized, is_dragging>>
      /\ UNCHANGED <<app_requests, input, damage, screen>>
  BY DEF LabelMinimized, flags
<1>2. Alternating' /\ RequestsBounded'
  BY <1>1, FramePhase
<1>3. Listed' = Listed
  BY <1>1 DEF Listed
<1>4. /\ MinimizedTitles \in Seq(Windows \X (1 .. Cardinality(Windows)))
      /\ {MinimizedTitles[k][1] : k \in 1 .. Len(MinimizedTitles)} = is_minimized
  BY TitlesOf DEF DesktopInv
<1>5. WindowTypes'
  BY <1>1, <1>3, <1>4 DEF DesktopInv, WindowTypes
<1>6. Reported'
  BY <1>1, <1>3 DEF DesktopInv, Reported, Visible
<1>7. Labelled'
  BY <1>1, <1>4 DEF DesktopInv, Reported, Labelled
<1> QED
  BY <1>2, <1>5, <1>6, <1>7 DEF DesktopInv

LEMMA DragKeeps == DesktopInv /\ Drag => DesktopInv'
<1> SUFFICES ASSUME DesktopInv, Drag PROVE DesktopInv'
  OBVIOUS
<1>1. /\ phase = "route" /\ mouse_events = <<>> /\ phase' = "drain"
      /\ UNCHANGED <<windows, close_btn, is_minimized, was_minimized, is_dragging>>
      /\ UNCHANGED <<app_requests, minimized_labels, input, screen>>
      /\ damage' = damage \/ \E w \in is_dragging : damage' = damage \cup {w}
  BY DEF Drag, flags
<1>2. Alternating' /\ RequestsBounded'
  BY <1>1, FramePhase
<1>3. Listed' = Listed /\ Listed \subseteq Windows
  BY <1>1 DEF DesktopInv, WindowTypes, Listed
<1>4. WindowTypes'
  BY <1>1, <1>3 DEF DesktopInv, WindowTypes
<1>5. Reported'
  BY <1>1, <1>3 DEF DesktopInv, Reported, Visible
<1>6. Labelled'
  BY <1>1 DEF DesktopInv, Labelled
<1> QED
  BY <1>2, <1>4, <1>5, <1>6 DEF DesktopInv

LEMMA DrainDamageKeeps == DesktopInv /\ DrainDamage => DesktopInv'
<1> SUFFICES ASSUME DesktopInv, DrainDamage PROVE DesktopInv'
  OBVIOUS
<1>1. /\ phase = "drain" /\ phase' = "await" /\ damage' = {}
      /\ screen' = (screen \ damage) \cup (damage \cap Visible)
      /\ UNCHANGED <<windows, close_btn, is_minimized, was_minimized, is_dragging>>
      /\ UNCHANGED <<app_requests, minimized_labels, input>>
  BY DEF DrainDamage, flags
<1>2. Alternating' /\ RequestsBounded'
  BY <1>1, FramePhase
<1>3. Listed' = Listed /\ Listed \subseteq Windows
  BY <1>1 DEF DesktopInv, WindowTypes, Listed
<1>4. WindowTypes'
  BY <1>1, <1>3 DEF DesktopInv, WindowTypes
<1>5. Reported'
  BY <1>1, <1>3 DEF DesktopInv, Reported, Visible
<1>6. Labelled'
  BY <1>1 DEF DesktopInv, Labelled
<1> QED
  BY <1>2, <1>4, <1>5, <1>6 DEF DesktopInv

LEMMA RouteReleaseKeeps == DesktopInv /\ RouteRelease => DesktopInv'
<1> SUFFICES ASSUME DesktopInv, RouteRelease PROVE DesktopInv'
  OBVIOUS
<1>1. /\ Routed("release") /\ is_dragging' = {}
      /\ UNCHANGED <<windows, close_btn, is_minimized, was_minimized, app_requests, damage>>
      /\ UNCHANGED <<minimized_labels, screen, phase>>
  BY DEF RouteRelease, Routed
<1>2. Alternating'
  BY <1>1, RoutedAlternates
<1>3. RequestsBounded'
  BY <1>1, RoutedBounded
<1>4. WindowTypes' /\ Reported' /\ Labelled'
  BY <1>1, NoWindowTouched
<1> QED
  BY <1>2, <1>3, <1>4 DEF DesktopInv

LEMMA RouteMenuKeeps == DesktopInv /\ RouteMenu => DesktopInv'
<1> SUFFICES ASSUME DesktopInv, RouteMenu PROVE DesktopInv'
  OBVIOUS
<1>1. /\ Routed("menu") /\ phase = "route"
      /\ UNCHANGED <<flags, app_requests, minimized_labels, screen, phase>>
      /\ UNCHANGED <<close_btn, is_minimized, was_minimized, is_dragging>>
  BY DEF RouteMenu, Routed, flags
<1>2. Alternating'
  BY <1>1, RoutedAlternates
<1>3. RequestsBounded'
  BY <1>1, RoutedBounded
<1>4. WindowTypes' /\ Reported' /\ Labelled'
  <2>1. CASE UNCHANGED <<windows, damage>>
    <3>1. is_dragging' \subseteq Listed
      BY <1>1 DEF DesktopInv, WindowTypes
    <3> QED
      BY <1>1, <2>1, <3>1, NoWindowTouched
  <2>2. ASSUME NEW w \in Free, windows' = Append(windows, w), damage' = damage \cup {w}
        PROVE  WindowTypes' /\ Reported' /\ Labelled'
    BY <1>1, <2>2, OpenedKeeps
  <2> QED
    BY <2>1, <2>2 DEF RouteMenu
<1> QED
  BY <1>2, <1>3, <1>4 DEF DesktopInv

LEMMA RestoreWindowKeeps == DesktopInv /\ RestoreWindow => DesktopInv'
<1> SUFFICES ASSUME DesktopInv, RestoreWindow PROVE DesktopInv'
  OBVIOUS
<1>1. /\ Routed("label") /\ phase = "route" /\ mouse_events # <<>>
      /\ UNCHANGED <<windows, close_btn, was_minimized, is_dragging, app_requests>>
      /\ UNCHANGED <<minimized_labels, screen, phase>>
  BY DEF RestoreWindow, Routed
<1>2. Alternating'
  BY <1>1, RoutedAlternates
<1>3. RequestsBounded'
  BY <1>1, RoutedBounded
<1>4. /\ Listed' = Listed /\ Listed \subseteq Windows
      /\ \A i \in 1 .. Len(windows) : windows[i] \in Listed
  BY <1>1 DEF DesktopInv, WindowTypes, Listed
<1>5. \/ UNCHANGED <<is_minimized, damage>>
      \/ \E w \in Listed : is_minimized' = is_minimized \ {w} /\ damage' = damage \cup {w}
  <2> DEFINE e == Head(mouse_events)
             k == e[2]
             i == minimized_labels[k][2]
  <2>1. e \in Targets /\ e[1] = "label"
    <3>1. e \in Targets \cup {Release} /\ e[1] = "label"
      BY <1>1, Popped DEF DesktopInv, Routed
    <3> HIDE DEF e
    <3> QED
      BY <3>1, TargetIsNoRelease
  <2>2. k \in 1 .. MaxLabels
    <3> HIDE DEF e
    <3> QED
      BY <2>1 DEF Targets
  <2>3. \/ UNCHANGED <<is_minimized, damage>>
        \/ /\ k <= Len(minimized_labels) /\ i <= Len(windows)
           /\ is_minimized' = is_minimized \ {windows[i]}
           /\ damage' = damage \cup {windows[i]}
    BY DEF RestoreWindow
  <2> HIDE DEF e, k
  <2>4. k <= Len(minimized_labels) => i \in Nat \ {0}
    <3> SUFFICES ASSUME k <= Len(minimized_labels) PROVE i \in Nat \ {0}
      OBVIOUS
    <3>1. minimized_labels \in Seq(Windows \X (1 .. Cardinality(Windows)))
      BY DEF DesktopInv, WindowTypes
    <3>2. k \in 1 .. Len(minimized_labels)
      BY <2>2, <3>1
    <3>3. minimized_labels[k] \in Windows \X (1 .. Cardinality(Windows))
      BY <3>1, <3>2
    <3>4. i \in 1 .. Cardinality(Windows)
      BY <3>3
    <3> QED
      BY <3>4
  <2> HIDE DEF i
  <2>5. windows \in Seq(Windows)
    BY DEF DesktopInv, WindowTypes
  <2>6. k <= Len(minimized_labels) /\ i <= Len(windows) => windows[i] \in Listed
    BY <1>4, <2>4, <2>5
  <2> QED
    BY <2>3, <2>6
<1>6. WindowTypes'
  BY <1>1, <1>4, <1>5 DEF DesktopInv, WindowTypes
<1>7. Reported'
  BY <1>1, <1>4, <1>5 DEF DesktopInv, Reported, Visible
<1>8. Labelled'
  BY <1>1 DEF DesktopInv, Labelled
<1> QED
  BY <1>2, <1>3, <1>6, <1>7, <1>8 DEF DesktopInv

LEMMA ClickWindowKeeps == DesktopInv /\ ClickWindow => DesktopInv'
<1> SUFFICES ASSUME DesktopInv, ClickWindow PROVE DesktopInv'
  OBVIOUS
<1>1. Routed("window") /\ phase = "route" /\ UNCHANGED <<minimized_labels, screen, phase>>
  BY DEF ClickWindow, Routed
<1>2. CASE UNCHANGED <<windows, flags, app_requests, damage>>
  <2>1. /\ UNCHANGED <<windows, close_btn, is_minimized, was_minimized, damage>>
        /\ is_dragging' = is_dragging /\ is_dragging' \subseteq Listed
        /\ app_requests' = app_requests
    BY <1>2 DEF flags, DesktopInv, WindowTypes
  <2>2. Alternating'
    BY <1>1, <2>1, RoutedAlternates
  <2>3. RequestsBounded'
    BY <1>1, <2>1, RoutedBounded
  <2>4. WindowTypes' /\ Reported' /\ Labelled'
    BY <1>1, <2>1, NoWindowTouched
  <2> QED
    BY <2>2, <2>3, <2>4 DEF DesktopInv
<1>3. ASSUME NEW w \in Visible,
             /\ windows' = Raised(w)
             /\ damage' = damage \/ damage' = damage \cup {w}
             /\ close_btn' \subseteq close_btn \cup {w}
             /\ is_minimized' = is_minimized \/ is_minimized' = is_minimized \cup {w}
             /\ is_dragging' \subseteq is_dragging \cup {w}
             /\ app_requests' = app_requests \/ app_requests' = app_requests + 1
             /\ was_minimized' = was_minimized,
             damage \subseteq damage'
      PROVE  DesktopInv'
  <2>1. w \in Listed /\ w \notin is_minimized
    BY DEF Visible
  <2>2. windows' \in Seq(Windows) /\ Distinct(windows') /\ Listed' = Listed /\ Listed \subseteq Windows
    <3>1. Raised(w) \in Seq(Windows) /\ Distinct(Raised(w)) /\ Members(Raised(w)) = Listed
      BY <2>1, RaisedOf DEF DesktopInv
    <3>2. Listed \subseteq Windows
      BY DEF DesktopInv, WindowTypes, Listed
    <3> QED
      BY <1>3, <3>1, <3>2, ListedIsMembers
  <2>3. Alternating'
    <3>1. \E v : is_dragging' \subseteq is_dragging \cup {v}
      BY <1>3
    <3> QED
      BY <1>1, <3>1, RoutedAlternates
  <2>4. RequestsBounded'
    BY <1>1, <1>3, RoutedBounded
  <2>5. WindowTypes'
    BY <1>1, <1>3, <2>1, <2>2 DEF DesktopInv, WindowTypes
  <2>6. Reported'
    BY <1>1, <1>3, <2>1, <2>2 DEF DesktopInv, Reported, Visible
  <2>7. Labelled'
    BY <1>1, <1>3 DEF DesktopInv, Labelled
  <2> QED
    BY <2>3, <2>4, <2>5, <2>6, <2>7 DEF DesktopInv
<1>4. \/ UNCHANGED <<windows, flags, app_requests, damage>>
      \/ \E w \in Visible :
             /\ windows' = Raised(w)
             /\ (damage' = damage \/ damage' = damage \cup {w})
             /\ close_btn' \subseteq close_btn \cup {w}
             /\ (is_minimized' = is_minimized \/ is_minimized' = is_minimized \cup {w})
             /\ is_dragging' \subseteq is_dragging \cup {w}
             /\ (app_requests' = app_requests \/ app_requests' = app_requests + 1)
             /\ was_minimized' = was_minimized
  <2>1. ASSUME NEW w \in Visible, NEW part \in Buttons,
               /\ windows' = Raised(w)
               /\ damage' = IF windows' # windows \/ part = "maximize"
                            THEN damage \cup {w} ELSE damage
               /\ close_btn' = IF part \in {"close", "item"} THEN close_btn \cup {w} ELSE close_btn
               /\ is_minimized' = IF part = "minimize" THEN is_minimized \cup {w}
                                  ELSE is_minimized
               /\ is_dragging' = IF part = "title" THEN is_dragging \cup {w}
                                 ELSE IF part = "maximize" THEN is_dragging \ {w}
                                 ELSE is_dragging
               /\ app_requests' = IF part = "item" THEN app_requests + 1 ELSE app_requests
               /\ UNCHANGED was_minimized
        PROVE  /\ windows' = Raised(w)
               /\ (damage' = damage \/ damage' = damage \cup {w})
               /\ close_btn' \subseteq close_btn \cup {w}
               /\ (is_minimized' = is_minimized \/ is_minimized' = is_minimized \cup {w})
               /\ is_dragging' \subseteq is_dragging \cup {w}
               /\ (app_requests' = app_requests \/ app_requests' = app_requests + 1)
               /\ was_minimized' = was_minimized
    BY <2>1
  <2> QED
    BY <2>1 DEF ClickWindow
<1> QED
  BY <1>2, <1>3, <1>4

LEMMA NextKeepsInv == DesktopInv /\ [Next]_vars => DesktopInv'
<1> SUFFICES ASSUME DesktopInv, [Next]_vars PROVE DesktopInv'
  OBVIOUS
<1>1. CASE MouseButton
  <2>1. Alternating' /\ RequestsBounded'
    BY <1>1, MouseButtonKeeps
  <2>2. /\ UNCHANGED <<windows, close_btn, is_minimized, was_minimized, is_dragging>>
        /\ UNCHANGED <<minimized_labels, damage, screen, phase>>
        /\ is_dragging' \subseteq Listed
    BY <1>1 DEF MouseButton, flags, DesktopInv, WindowTypes
  <2> QED
    BY <2>1, <2>2, NoWindowTouched DEF DesktopInv
<1>2. CASE WaitForDamage
  <2>1. /\ phase = "await" /\ phase' = "retain"
        /\ UNCHANGED <<windows, close_btn, is_minimized, was_minimized, is_dragging>>
        /\ UNCHANGED <<app_requests, minimized_labels, input, damage, screen>>
    BY <1>2 DEF WaitForDamage, flags
  <2>2. Alternating' /\ RequestsBounded'
    BY <2>1, FramePhase
  <2>3. Listed' = Listed
    BY <2>1 DEF Listed
  <2>4. WindowTypes'
    BY <2>1, <2>3 DEF DesktopInv, WindowTypes
  <2>5. Reported'
    BY <2>1, <2>3 DEF DesktopInv, Reported, Visible
  <2>6. Labelled'
    BY <2>1 DEF Labelled
  <2> QED
    BY <2>2, <2>4, <2>5, <2>6 DEF DesktopInv
<1>3. CASE UNCHANGED vars
  <2>1. /\ UNCHANGED <<windows, close_btn, is_minimized, was_minimized, is_dragging>>
        /\ UNCHANGED <<minimized_labels, damage, screen, phase>>
        /\ UNCHANGED <<app_requests, mouse_events, button_down>>
        /\ is_dragging' \subseteq Listed
    BY <1>3 DEF vars, flags, input, DesktopInv, WindowTypes
  <2>2. Alternating' /\ RequestsBounded'
    BY <2>1 DEF DesktopInv, Alternating, RequestsBounded
  <2> QED
    BY <2>1, <2>2, NoWindowTouched DEF DesktopInv
<1> QED
  BY <1>1, <1>2, <1>3, RetainOpenKeeps, ReportMinimizedKeeps, LaunchKeeps, LabelMinimizedKeeps,
     RouteReleaseKeeps, RouteMenuKeeps, RestoreWindowKeeps, ClickWindowKeeps, DragKeeps,
     DrainDamageKeeps DEF Next

LEMMA Desktop_Inv == Spec => []DesktopInv
BY InitInv, NextKeepsInv, PTL DEF Spec

\* Raising, closing and launching leave every open window in the list once, and as
\* presses and releases take turns in the queue, one mouse never holds two windows.
THEOREM Desktop_TypeOK == Spec => []TypeOK
BY Desktop_Inv, InvImpliesProperties, PTL

\* What the screen shows wrongly after a frame is a window minimised in it, which the
\* next frame reports: all else has been.
THEOREM Desktop_ScreenFollowsWindows == Spec => []ScreenFollowsWindows
BY Desktop_Inv, InvImpliesProperties, PTL

\* Between frames the labels are those of the frame's beginning.
THEOREM Desktop_LabelsFollowWindows == Spec => []LabelsFollowWindows
BY Desktop_Inv, InvImpliesProperties, PTL
=============================================================================
