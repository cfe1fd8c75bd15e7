----------------------------- MODULE MLFQ_proofs -----------------------------
(* Proofs about the scheduler of MLFQ, for every set of processes and every  *)
(* quantum, threshold and load band; and, in the last part, about Dispatch,  *)
(* the kernel around it.                                                     *)
EXTENDS Dispatch, TLAPS, SequenceTheorems

-----------------------------------------------------------------------------
(* The queue operations, in terms of the set of queued processes.            *)

\* push_back of an element that is not there.
LEMMA AppendQueued ==
  ASSUME NEW s \in Seq(Pids), NEW e \in Pids
  PROVE  /\ Queued(Append(s, e)) = Queued(s) \cup {e}
         /\ NoDup(s) /\ e \notin Queued(s) => NoDup(Append(s, e))
<1>1. /\ Len(Append(s, e)) = Len(s) + 1
      /\ Len(s) \in Nat
      /\ \A i \in 1 .. Len(s) : Append(s, e)[i] = s[i]
      /\ Append(s, e)[Len(s) + 1] = e
  OBVIOUS
<1>2. Queued(Append(s, e)) = Queued(s) \cup {e}
  BY <1>1 DEF Queued
<1>3. NoDup(s) /\ e \notin Queued(s) => NoDup(Append(s, e))
  BY <1>1 DEF NoDup, Queued
<1> QED BY <1>2, <1>3

\* pop_front of a queue without duplicates.
LEMMA TailQueued ==
  ASSUME NEW s \in Seq(Pids), s # <<>>, NoDup(s)
  PROVE  /\ Head(s) \in Pids
         /\ Tail(s) \in Seq(Pids)
         /\ Head(s) \in Queued(s)
         /\ Queued(Tail(s)) = Queued(s) \ {Head(s)}
         /\ NoDup(Tail(s))
<1>1. /\ Tail(s) \in Seq(Pids)
      /\ Len(s) \in Nat \ {0}
      /\ Len(Tail(s)) = Len(s) - 1
      /\ \A i \in 1 .. Len(s) - 1 : Tail(s)[i] = s[i + 1]
      /\ Head(s) = s[1]
      /\ Head(s) \in Pids
  BY HeadTailProperties, EmptySeq
<1>2. Head(s) \in Queued(s)
  BY <1>1 DEF Queued
<1>3. Queued(Tail(s)) \subseteq Queued(s) \ {Head(s)}
  BY <1>1 DEF Queued, NoDup
<1>4. Queued(s) \ {Head(s)} \subseteq Queued(Tail(s))
  <2> SUFFICES ASSUME NEW i \in 1 .. Len(s), s[i] # Head(s)
               PROVE  s[i] \in Queued(Tail(s))
    BY DEF Queued
  <2>1. i - 1 \in 1 .. Len(Tail(s)) /\ Tail(s)[i - 1] = s[i]
    BY <1>1
  <2> QED BY <2>1 DEF Queued
<1>5. NoDup(Tail(s))
  BY <1>1 DEF NoDup
<1> QED BY <1>1, <1>2, <1>3, <1>4, <1>5

\* Two queues with nothing in common, one after the other.
LEMMA ConcatQueued ==
  ASSUME NEW s \in Seq(Pids), NEW t \in Seq(Pids)
  PROVE  /\ s \o t \in Seq(Pids)
         /\ Len(s \o t) = Len(s) + Len(t)
         /\ Queued(s \o t) = Queued(s) \cup Queued(t)
         /\ NoDup(s) /\ NoDup(t) /\ Queued(s) \cap Queued(t) = {} => NoDup(s \o t)
<1>1. /\ s \o t \in Seq(Pids)
      /\ Len(s) \in Nat /\ Len(t) \in Nat
      /\ Len(s \o t) = Len(s) + Len(t)
      /\ \A i \in 1 .. Len(s) : (s \o t)[i] = s[i]
      /\ \A i \in 1 .. Len(t) : (s \o t)[Len(s) + i] = t[i]
  BY ConcatProperties
<1>2. \A i \in 1 .. Len(s \o t) :
        \/ i \in 1 .. Len(s)
        \/ \E j \in 1 .. Len(t) : i = Len(s) + j
  <2> TAKE i \in 1 .. Len(s \o t)
  <2>1. CASE i > Len(s)
    <3>1. i - Len(s) \in 1 .. Len(t) /\ i = Len(s) + (i - Len(s))
      BY <1>1, <2>1
    <3> QED BY <3>1
  <2>2. CASE i <= Len(s)
    BY <1>1, <2>2
  <2> QED BY <1>1, <2>1, <2>2
<1>3. Queued(s \o t) = Queued(s) \cup Queued(t)
  <2>1. Queued(s \o t) \subseteq Queued(s) \cup Queued(t)
    BY <1>1, <1>2 DEF Queued
  <2>2. Queued(s) \subseteq Queued(s \o t)
    BY <1>1 DEF Queued
  <2>3. Queued(t) \subseteq Queued(s \o t)
    <3> SUFFICES ASSUME NEW i \in 1 .. Len(t) PROVE t[i] \in Queued(s \o t)
      BY DEF Queued
    <3>1. Len(s) + i \in 1 .. Len(s \o t) /\ (s \o t)[Len(s) + i] = t[i]
      BY <1>1
    <3> QED BY <3>1 DEF Queued
  <2> QED BY <2>1, <2>2, <2>3
<1>4. ASSUME NoDup(s), NoDup(t), Queued(s) \cap Queued(t) = {}
      PROVE  NoDup(s \o t)
  <2> SUFFICES ASSUME NEW i \in 1 .. Len(s \o t), NEW j \in 1 .. Len(s \o t),
                      (s \o t)[i] = (s \o t)[j]
               PROVE  i = j
    BY DEF NoDup
  <2>1. \A a \in 1 .. Len(s), b \in 1 .. Len(t) : s[a] # t[b]
    BY <1>4 DEF Queued
  <2>2. CASE i \in 1 .. Len(s) /\ j \in 1 .. Len(s)
    BY <1>1, <1>4, <2>2 DEF NoDup
  <2>3. CASE i \in 1 .. Len(s) /\ \E b \in 1 .. Len(t) : j = Len(s) + b
    BY <1>1, <2>1, <2>3
  <2>4. CASE j \in 1 .. Len(s) /\ \E b \in 1 .. Len(t) : i = Len(s) + b
    BY <1>1, <2>1, <2>4
  <2>5. CASE (\E a \in 1 .. Len(t) : i = Len(s) + a) /\ \E b \in 1 .. Len(t) : j = Len(s) + b
    <3>1. PICK a \in 1 .. Len(t) : i = Len(s) + a
      BY <2>5
    <3>2. PICK b \in 1 .. Len(t) : j = Len(s) + b
      BY <2>5
    <3>3. t[a] = t[b]
      BY <1>1, <3>1, <3>2
    <3> QED BY <1>4, <3>1, <3>2, <3>3 DEF NoDup
  <2> QED BY <1>2, <2>2, <2>3, <2>4, <2>5
<1> QED BY <1>1, <1>3, <1>4

-----------------------------------------------------------------------------
(* Arithmetic of the load.                                                   *)

LEMMA CountIsNat ==
  ASSUME NEW q \in [Levels -> Seq(Pids)], NEW c
  PROVE  Count(q, c) \in Nat
<1>1. \A l \in Levels : Len(q[l]) \in Nat
  OBVIOUS
<1>2. {0, 1, 2, 3} \subseteq Levels
  BY DEF Levels, MAX_LEVELS
<1> QED BY <1>1, <1>2 DEF Count

LEMMA CountFree ==
  ASSUME NEW q \in [Levels -> Seq(Pids)]
  PROVE  /\ Len(q[0]) \in Nat /\ Len(q[1]) \in Nat /\ Len(q[2]) \in Nat /\ Len(q[3]) \in Nat
         /\ Count(q, NoProc) = Len(q[0]) + Len(q[1]) + Len(q[2]) + Len(q[3])
<1>1. 0 \in Levels /\ 1 \in Levels /\ 2 \in Levels /\ 3 \in Levels
  BY DEF Levels, MAX_LEVELS
<1>2. Len(q[0]) \in Nat /\ Len(q[1]) \in Nat /\ Len(q[2]) \in Nat /\ Len(q[3]) \in Nat
  BY <1>1
<1> QED BY <1>2 DEF Count

\* One queue is longer by one process.
LEMMA CountOneMore ==
  ASSUME NEW q \in [Levels -> Seq(Pids)], NEW r \in [Levels -> Seq(Pids)],
         NEW l \in Levels,
         \A k \in Levels : k # l => r[k] = q[k],
         Len(r[l]) = Len(q[l]) + 1
  PROVE  Count(r, NoProc) = Count(q, NoProc) + 1
<1>1. 0 \in Levels /\ 1 \in Levels /\ 2 \in Levels /\ 3 \in Levels
  BY DEF Levels, MAX_LEVELS
<1>2. l = 0 \/ l = 1 \/ l = 2 \/ l = 3
  BY DEF Levels, MAX_LEVELS
<1>3. PICK n0 \in Nat, n1 \in Nat, n2 \in Nat, n3 \in Nat :
        Len(q[0]) = n0 /\ Len(q[1]) = n1 /\ Len(q[2]) = n2 /\ Len(q[3]) = n3
  BY CountFree
<1>4. Count(q, NoProc) = n0 + n1 + n2 + n3
  BY <1>3, CountFree
<1>5. Count(r, NoProc) = Len(r[0]) + Len(r[1]) + Len(r[2]) + Len(r[3])
  BY CountFree
<1>6. CASE l = 0
  <2>1. Len(r[1]) = n1 /\ Len(r[2]) = n2 /\ Len(r[3]) = n3
    BY <1>1, <1>3, <1>6
  <2>2. Len(r[0]) = n0 + 1
    BY <1>3, <1>6
  <2>3. Count(r, NoProc) = n0 + 1 + n1 + n2 + n3
    BY <1>5, <2>1, <2>2
  <2>4. n0 + 1 + n1 + n2 + n3 = (n0 + n1 + n2 + n3) + 1
    OBVIOUS
  <2> QED BY <1>4, <2>3, <2>4
<1>7. CASE l = 1
  <2>1. Len(r[0]) = n0 /\ Len(r[2]) = n2 /\ Len(r[3]) = n3
    BY <1>1, <1>3, <1>7
  <2>2. Len(r[1]) = n1 + 1
    BY <1>3, <1>7
  <2>3. Count(r, NoProc) = n0 + n1 + 1 + n2 + n3
    BY <1>5, <2>1, <2>2
  <2>4. n0 + n1 + 1 + n2 + n3 = (n0 + n1 + n2 + n3) + 1
    OBVIOUS
  <2> QED BY <1>4, <2>3, <2>4
<1>8. CASE l = 2
  <2>1. Len(r[0]) = n0 /\ Len(r[1]) = n1 /\ Len(r[3]) = n3
    BY <1>1, <1>3, <1>8
  <2>2. Len(r[2]) = n2 + 1
    BY <1>3, <1>8
  <2>3. Count(r, NoProc) = n0 + n1 + n2 + 1 + n3
    BY <1>5, <2>1, <2>2
  <2>4. n0 + n1 + n2 + 1 + n3 = (n0 + n1 + n2 + n3) + 1
    OBVIOUS
  <2> QED BY <1>4, <2>3, <2>4
<1>9. CASE l = 3
  <2>1. Len(r[0]) = n0 /\ Len(r[1]) = n1 /\ Len(r[2]) = n2
    BY <1>1, <1>3, <1>9
  <2>2. Len(r[3]) = n3 + 1
    BY <1>3, <1>9
  <2>3. Count(r, NoProc) = n0 + n1 + n2 + n3 + 1
    BY <1>5, <2>1, <2>2
  <2>4. n0 + n1 + n2 + n3 + 1 = (n0 + n1 + n2 + n3) + 1
    OBVIOUS
  <2> QED BY <1>4, <2>3, <2>4
<1> QED BY <1>2, <1>6, <1>7, <1>8, <1>9

\* Counting the owner of the CPU.
LEMMA CountOwner ==
  ASSUME NEW q \in [Levels -> Seq(Pids)], NEW c \in Pids
  PROVE  Count(q, c) = Count(q, NoProc) + 1
<1>1. 0 \in Levels /\ 1 \in Levels /\ 2 \in Levels /\ 3 \in Levels
  BY DEF Levels, MAX_LEVELS
<1>2. Len(q[0]) \in Nat /\ Len(q[1]) \in Nat /\ Len(q[2]) \in Nat /\ Len(q[3]) \in Nat
  BY <1>1
<1>3. c # NoProc
  BY PidsAssumption
<1> QED BY <1>2, <1>3 DEF Count

\* quantum_for is a positive number of ticks at every level and load.
LEMMA QuantumIsPositive ==
  ASSUME NEW level \in Levels, NEW active \in 2 .. MAX_LEVELS, NEW count \in Nat
  PROVE  QuantumFor(level, active, count) \in Nat \ {0}
<1> DEFINE base == BASE_QUANTUM_MS[AtMost(level, active - 1)]
<1>1. AtMost(level, active - 1) \in Levels
  BY DEF AtMost, Levels, MAX_LEVELS
<1>2. base \in Nat \ {0}
  BY <1>1, TuningAssumption
<1>3. base * 4 \in Nat \ {0} /\ base \div 2 \in Nat /\ base \div 4 \in Nat
  BY <1>2
<1>4. AtLeast1(base \div 2) \in Nat \ {0} /\ AtLeast1(base \div 4) \in Nat \ {0}
  BY <1>3 DEF AtLeast1
<1> HIDE DEF base
<1> QED BY <1>2, <1>3, <1>4 DEF QuantumFor, base

LEMMA DynamicsTypes ==
  ASSUME NEW load \in Nat
  PROVE  /\ ActiveLevelsFor(load) \in 2 .. MAX_LEVELS
         /\ BoostIntervalFor(load) \in 1 .. AgeCap
<1>1. ActiveLevelsFor(load) \in 2 .. MAX_LEVELS
  BY DEF ActiveLevelsFor, MAX_LEVELS
<1>2. BASE_BOOST_INTERVAL_MS \in Nat /\ BASE_BOOST_INTERVAL_MS >= 4
  BY TuningAssumption
<1>3. BoostIntervalFor(load) \in 1 .. AgeCap
  BY <1>2 DEF BoostIntervalFor, AgeCap
<1> QED BY <1>1, <1>3

-----------------------------------------------------------------------------
(* The strengthened invariant.                                               *)

States == {"New", "Ready", "Running", "Gone"}

\* QueuedByPriority in terms of the set of queued processes.
ByPriority(q, prio) == \A l \in Levels : \A p \in Queued(q[l]) : prio[p] = l
OwnerIsActive == current # NoProc => priority[current] < active_levels

LEMMA ByPriorityMeans == QueuedByPriority <=> ByPriority(queues, priority) /\ OwnerIsActive
  BY DEF QueuedByPriority, ByPriority, OwnerIsActive, Queued

IInv == TypeOK /\ OnePlace /\ DynamicsFollowLoad /\ QueuedByPriority

\* pick_and_run on queues q that hold every Ready process, the CPU being free:
\* the processes stay in one place each and their number stays the same.
LEMMA PickAndRunPlaces ==
  ASSUME NEW q \in [Levels -> Seq(Pids)],
         NEW st \in [Pids -> States],
         NEW qr \in [Pids -> Nat],
         active_levels' \in 2 .. MAX_LEVELS,
         priority' \in [Pids -> Levels],
         Placed(q, NoProc, st),
         PickAndRun(q, st, qr)
  PROVE  /\ queues' \in [Levels -> Seq(Pids)]
         /\ current' \in Pids \cup {NoProc}
         /\ state' \in [Pids -> States]
         /\ quantum_remaining' \in [Pids -> Nat]
         /\ Placed(queues', current', state')
         /\ Count(queues', current') = Count(q, NoProc)
         /\ \A l \in Levels : Queued(queues'[l]) \subseteq Queued(q[l])
<1> DEFINE nonEmpty == {l \in 0 .. active_levels' - 1 : q[l] # <<>>}
<1>1. CASE /\ nonEmpty = {}
           /\ current' = NoProc
           /\ queues' = q
           /\ state' = st
           /\ quantum_remaining' = qr
  BY <1>1
<1>2. CASE \E l \in nonEmpty :
             LET p == Head(q[l]) IN
             /\ current' = p
             /\ queues' = [q EXCEPT ![l] = Tail(@)]
             /\ state' = [st EXCEPT ![p] = "Running"]
             /\ quantum_remaining' =
                  [qr EXCEPT ![p] = QuantumFor(priority'[p], active_levels',
                                               Count(queues', NoProc))]
  <2>1. PICK l \in nonEmpty :
             LET p == Head(q[l]) IN
             /\ current' = p
             /\ queues' = [q EXCEPT ![l] = Tail(@)]
             /\ state' = [st EXCEPT ![p] = "Running"]
             /\ quantum_remaining' =
                  [qr EXCEPT ![p] = QuantumFor(priority'[p], active_levels',
                                               Count(queues', NoProc))]
    BY <1>2
  <2> DEFINE p == Head(q[l])
  <2>2. l \in Levels /\ q[l] \in Seq(Pids) /\ q[l] # <<>> /\ NoDup(q[l])
    <3>1. PICK active \in 2 .. MAX_LEVELS : active = active_levels'
      OBVIOUS
    <3>2. l \in 0 .. active - 1 /\ q[l] # <<>>
      BY <3>1
    <3>3. l \in Levels
      BY <3>2 DEF Levels, MAX_LEVELS
    <3> QED BY <3>2, <3>3 DEF Placed
  <2>3. /\ p \in Pids /\ Tail(q[l]) \in Seq(Pids)
        /\ p \in Queued(q[l])
        /\ Queued(Tail(q[l])) = Queued(q[l]) \ {p}
        /\ NoDup(Tail(q[l]))
    BY <2>2, TailQueued
  <2>4. Len(Tail(q[l])) = Len(q[l]) - 1
    BY <2>2, HeadTailProperties
  <2> HIDE DEF nonEmpty, p
  <2>5. /\ current' = p
        /\ queues' = [q EXCEPT ![l] = Tail(q[l])]
        /\ state' = [st EXCEPT ![p] = "Running"]
    BY <2>1 DEF p
  <2>6. queues' \in [Levels -> Seq(Pids)] /\ state' \in [Pids -> States]
    BY <2>2, <2>3, <2>5 DEF States
  <2>7. quantum_remaining' \in [Pids -> Nat]
    <3>1. Count(queues', NoProc) \in Nat
      BY <2>6, CountIsNat
    <3>2. QuantumFor(priority'[p], active_levels', Count(queues', NoProc)) \in Nat
      BY <2>3, <3>1, QuantumIsPositive
    <3> QED BY <2>1, <2>3, <3>2 DEF p
  <2>8. Count(queues', current') = Count(q, NoProc)
    <3>1. Len(q[l]) = Len(queues'[l]) + 1
      BY <2>2, <2>4, <2>5, LenProperties
    <3>2. \A k \in Levels : k # l => q[k] = queues'[k]
      BY <2>5
    <3>3. Count(q, NoProc) = Count(queues', NoProc) + 1
      BY <2>2, <2>6, <3>1, <3>2, CountOneMore
    <3> QED BY <2>3, <2>5, <2>6, <3>3, CountOwner
  <2>9. \A k \in Levels : Queued(queues'[k]) = IF k = l THEN Queued(q[k]) \ {p} ELSE Queued(q[k])
    BY <2>2, <2>3, <2>5
  <2>10. Placed(queues', current', state')
    <3>1. \A k \in Levels : NoDup(queues'[k])
      BY <2>2, <2>3, <2>5 DEF Placed
    <3>2. \A j, k \in Levels : j # k => Queued(queues'[j]) \cap Queued(queues'[k]) = {}
      BY <2>9 DEF Placed
    <3>3. \A r \in Pids : state'[r] = "Ready" <=> \E k \in Levels : r \in Queued(queues'[k])
      <4> TAKE r \in Pids
      <4>1. CASE r = p
        <5>1. \A k \in Levels : r \notin Queued(queues'[k])
          BY <2>2, <2>3, <2>9, <4>1 DEF Placed
        <5>2. state'[r] = "Running"
          BY <2>3, <2>5, <4>1
        <5> QED BY <5>1, <5>2
      <4>2. CASE r # p
        <5>1. state'[r] = st[r]
          BY <2>5, <4>2
        <5>2. \A k \in Levels : r \in Queued(queues'[k]) <=> r \in Queued(q[k])
          BY <2>9, <4>2
        <5> QED BY <5>1, <5>2 DEF Placed
      <4> QED BY <4>1, <4>2
    <3>4. \A r \in Pids : state'[r] = "Running" <=> current' = r
      BY <2>3, <2>5, PidsAssumption DEF Placed
    <3> QED BY <3>1, <3>2, <3>3, <3>4 DEF Placed
  <2> QED BY <2>3, <2>5, <2>6, <2>7, <2>8, <2>9, <2>10
<1> QED BY <1>1, <1>2 DEF PickAndRun, ScannedLevels

\* push_back, on level l of queues q, of a process p that is not queued: it was
\* outside the table (add_process) or on the CPU (yield_current).  The result is
\* queues r, states su and owner d of the CPU.
Enqueues(q, st, c, p, l, r, su, d) ==
  /\ q \in [Levels -> Seq(Pids)] /\ st \in [Pids -> States]
  /\ p \in Pids /\ l \in Levels
  /\ Placed(q, c, st)
  /\ st[p] # "Ready"
  /\ (d = c /\ c # p) \/ (d = NoProc /\ c = p)
  /\ r = [q EXCEPT ![l] = Append(@, p)]
  /\ su = [st EXCEPT ![p] = "Ready"]

LEMMA EnqueuePlaces ==
  ASSUME NEW q, NEW st, NEW c, NEW p, NEW l, NEW r, NEW su, NEW d,
         Enqueues(q, st, c, p, l, r, su, d)
  PROVE  /\ r \in [Levels -> Seq(Pids)]
         /\ su \in [Pids -> States]
         /\ Placed(r, d, su)
         /\ \A k \in Levels : \A x : x \in Queued(r[k]) <=> x \in Queued(q[k]) \/ (k = l /\ x = p)
         /\ \A k \in Levels : p \notin Queued(q[k])
         /\ Count(r, NoProc) = Count(q, NoProc) + 1
<1> USE DEF Enqueues
<1>1. \A k \in Levels : p \notin Queued(q[k])
  BY DEF Placed
<1>2. q[l] \in Seq(Pids) /\ NoDup(q[l])
  BY DEF Placed
<1>3. /\ Append(q[l], p) \in Seq(Pids)
      /\ Len(Append(q[l], p)) = Len(q[l]) + 1
      /\ Queued(Append(q[l], p)) = Queued(q[l]) \cup {p}
      /\ NoDup(Append(q[l], p))
  BY <1>1, <1>2, AppendQueued
<1>4. r \in [Levels -> Seq(Pids)]
  BY <1>3
<1>5. \A k \in Levels : r[k] = IF k = l THEN Append(q[l], p) ELSE q[k]
  OBVIOUS
<1>6. \A k \in Levels : \A x : x \in Queued(r[k]) <=> x \in Queued(q[k]) \/ (k = l /\ x = p)
  BY <1>3, <1>5
<1>7. \A k \in Levels : NoDup(r[k])
  BY <1>3, <1>5 DEF Placed
<1>8. Placed(r, d, su)
  <2>1. ASSUME NEW j \in Levels, NEW k \in Levels, j # k
        PROVE  Queued(r[j]) \cap Queued(r[k]) = {}
    <3>1. Queued(q[j]) \cap Queued(q[k]) = {}
      BY <2>1 DEF Placed
    <3> QED BY <1>1, <1>6, <2>1, <3>1
  <2>2. \A x \in Pids : su[x] = "Ready" <=> \E k \in Levels : x \in Queued(r[k])
    <3> TAKE x \in Pids
    <3>1. CASE x = p
      <4>1. su[x] = "Ready"
        BY <3>1
      <4>2. x \in Queued(r[l])
        BY <1>6, <3>1
      <4> QED BY <4>1, <4>2
    <3>2. CASE x # p
      <4>1. su[x] = st[x]
        BY <3>2
      <4>2. \A k \in Levels : x \in Queued(r[k]) <=> x \in Queued(q[k])
        BY <1>6, <3>2
      <4> QED BY <4>1, <4>2 DEF Placed
    <3> QED BY <3>1, <3>2
  <2>3. \A x \in Pids : su[x] = "Running" <=> d = x
    <3> TAKE x \in Pids
    <3>1. CASE x = p
      BY <3>1, PidsAssumption
    <3>2. CASE x # p
      <4>1. su[x] = st[x]
        BY <3>2
      <4>2. d = x <=> c = x
        BY <3>2, PidsAssumption
      <4> QED BY <4>1, <4>2 DEF Placed
    <3> QED BY <3>1, <3>2
  <2> QED BY <1>7, <2>1, <2>2, <2>3 DEF Placed
<1>9. Count(r, NoProc) = Count(q, NoProc) + 1
  <2>1. /\ \A k \in Levels : k # l => r[k] = q[k]
        /\ Len(r[l]) = Len(q[l]) + 1
    BY <1>3, <1>5
  <2> QED BY <1>4, <2>1, CountOneMore
<1> QED BY <1>1, <1>4, <1>6, <1>8, <1>9 DEF States

\* recalculate_dynamics leaves the cached load and the level count right, whether
\* or not it returns early.
LEMMA RecalculateFollows ==
  ASSUME NEW q \in [Levels -> Seq(Pids)], NEW c,
         TypeOK,
         active_levels = ActiveLevelsFor(last_known_load),
         RecalculateDynamics(q, c)
  PROVE  /\ last_known_load' = Count(q, c)
         /\ active_levels' = ActiveLevelsFor(last_known_load')
         /\ last_known_load' \in Nat
         /\ active_levels' \in 2 .. MAX_LEVELS
         /\ boost_interval' \in 1 .. AgeCap
<1>1. Count(q, c) \in Nat
  BY CountIsNat
<1>2. CASE Count(q, c) = last_known_load
  BY <1>1, <1>2 DEF RecalculateDynamics, dynamics, TypeOK
<1>3. CASE Count(q, c) # last_known_load
  BY <1>1, <1>3, DynamicsTypes DEF RecalculateDynamics
<1> QED BY <1>2, <1>3

LEMMA CapsAreNat == CpuCap \in Nat /\ AgeCap \in Nat
<1>1. DEMOTION_THRESHOLD[2] \in Nat /\ BASE_BOOST_INTERVAL_MS \in Nat
  BY TuningAssumption DEF MAX_LEVELS
<1> QED BY <1>1 DEF CpuCap, AgeCap, MAX_LEVELS

-----------------------------------------------------------------------------
(* The invariant holds initially and is kept by each method.                 *)

LEMMA InitEstablishesIInv == Init => IInv
<1> SUFFICES ASSUME Init PROVE IInv
  OBVIOUS
<1>1. \A l \in Levels : queues[l] = <<>> /\ Len(queues[l]) = 0 /\ Queued(queues[l]) = {}
  BY DEF Init, Queued
<1>2. TypeOK
  <2>1. BASE_BOOST_INTERVAL_MS \in 1 .. AgeCap
    BY TuningAssumption DEF AgeCap
  <2>2. queues \in [Levels -> Seq(Pids)]
    BY DEF Init
  <2> QED BY <2>1, <2>2, CapsAreNat DEF Init, TypeOK, Levels, MAX_LEVELS
<1>3. OnePlace
  <2>1. \A l \in Levels : NoDup(queues[l])
    BY <1>1 DEF NoDup
  <2> QED BY <1>1, <2>1, PidsAssumption DEF Init, OnePlace, Placed
<1>4. DynamicsFollowLoad
  <2>1. 0 \in Levels /\ 1 \in Levels /\ 2 \in Levels /\ 3 \in Levels
    BY DEF Levels, MAX_LEVELS
  <2>2. Count(queues, current) = 0
    BY <1>1, <2>1 DEF Init, Count
  <2>3. ActiveLevelsFor(0) = 2
    BY LoadAssumption DEF ActiveLevelsFor
  <2> QED BY <2>2, <2>3 DEF Init, DynamicsFollowLoad
<1>5. ByPriority(queues, priority)
  BY <1>1 DEF ByPriority
<1>6. OwnerIsActive
  BY DEF Init, OwnerIsActive
<1> QED BY <1>2, <1>3, <1>4, <1>5, <1>6, ByPriorityMeans DEF IInv

LEMMA AddProcessKeepsIInv ==
  ASSUME IInv, NEW p \in Pids, AddProcess(p)
  PROVE  IInv'
<1>1. /\ queues \in [Levels -> Seq(Pids)] /\ state \in [Pids -> States]
      /\ 0 \in Levels /\ state[p] = "New" /\ Placed(queues, current, state)
      /\ current # p
  <2>1. state[p] = "New" /\ Placed(queues, current, state)
    BY DEF IInv, OnePlace, AddProcess
  <2>2. current # p
    BY <2>1 DEF Placed
  <2> QED BY <2>1, <2>2 DEF IInv, TypeOK, States, Levels, MAX_LEVELS
<1>2. /\ queues' = [queues EXCEPT ![0] = Append(@, p)]
      /\ state' = [state EXCEPT ![p] = "Ready"]
      /\ current' = current
      /\ priority' = [priority EXCEPT ![p] = 0]
  BY DEF AddProcess
<1>3. /\ queues' \in [Levels -> Seq(Pids)]
      /\ Placed(queues', current', state')
      /\ \A k \in Levels : \A x :
            x \in Queued(queues'[k]) <=> x \in Queued(queues[k]) \/ (k = 0 /\ x = p)
      /\ \A k \in Levels : p \notin Queued(queues[k])
  <2>1. state[p] # "Ready"
    BY <1>1
  <2>2. (current' = current /\ current # p) \/ (current' = NoProc /\ current = p)
    BY <1>1, <1>2
  <2>3. Enqueues(queues, state, current, p, 0, queues', state', current')
    BY <1>1, <1>2, <2>1, <2>2 DEF Enqueues
  <2> QED BY <2>3, EnqueuePlaces
<1>4. /\ last_known_load' = Count(queues', current')
      /\ active_levels' = ActiveLevelsFor(last_known_load')
      /\ last_known_load' \in Nat
      /\ active_levels' \in 2 .. MAX_LEVELS
      /\ boost_interval' \in 1 .. AgeCap
  <2>1. RecalculateDynamics(queues', current)
    BY DEF AddProcess
  <2> QED BY <1>2, <1>3, <2>1, RecalculateFollows DEF IInv, DynamicsFollowLoad
<1>5. TypeOK'
  BY <1>3, <1>4, CapsAreNat, SMTT(30) DEF TypeOK, IInv, AddProcess, Levels, MAX_LEVELS
<1>6. ByPriority(queues', priority')
  <2> SUFFICES ASSUME NEW k \in Levels, NEW r \in Queued(queues'[k])
               PROVE  priority'[r] = k
    BY DEF ByPriority
  <2>1. r \in Pids
    BY <1>3 DEF Queued
  <2>2. priority \in [Pids -> Levels] /\ ByPriority(queues, priority)
    BY ByPriorityMeans DEF IInv, TypeOK
  <2>3. CASE r = p
    BY <1>2, <1>3, <2>1, <2>2, <2>3
  <2>4. CASE r # p
    BY <1>2, <1>3, <2>1, <2>2, <2>4 DEF ByPriority
  <2> QED BY <2>3, <2>4
<1>7. OwnerIsActive'
  <2> SUFFICES ASSUME current # NoProc PROVE priority'[current] < active_levels'
    BY <1>2 DEF OwnerIsActive
  <2>1. /\ current \in Pids /\ current # p
        /\ priority[current] \in Nat /\ priority[current] < active_levels
    BY <1>1, ByPriorityMeans DEF IInv, TypeOK, OwnerIsActive, Levels
  <2>2. active_levels <= active_levels'
    <3>1. Count(queues, current) \in Nat /\ Count(queues', current') = Count(queues, current) + 1
      <4>1. Len(queues'[0]) = Len(queues[0]) + 1 /\ \A k \in Levels : k # 0 => queues'[k] = queues[k]
        BY <1>1, <1>2
      <4>2. Count(queues', NoProc) = Count(queues, NoProc) + 1
        BY <1>1, <1>3, <4>1, CountOneMore
      <4>3. /\ Count(queues, current) = Count(queues, NoProc) + 1
            /\ Count(queues', current) = Count(queues', NoProc) + 1
        BY <1>1, <1>3, <2>1, CountOwner
      <4>4. Count(queues, NoProc) \in Nat
        BY <1>1, CountIsNat
      <4> QED BY <1>2, <4>2, <4>3, <4>4
    <3>2. PICK n \in Nat : n = Count(queues, current)
      BY <3>1
    <3>3. ActiveLevelsFor(n) <= ActiveLevelsFor(n + 1)
      BY LoadAssumption DEF ActiveLevelsFor, MAX_LEVELS
    <3>4. active_levels = ActiveLevelsFor(n) /\ active_levels' = ActiveLevelsFor(n + 1)
      BY <1>4, <3>1, <3>2 DEF IInv, DynamicsFollowLoad
    <3> QED BY <3>3, <3>4
  <2>3. priority'[current] = priority[current]
    BY <1>2, <2>1
  <2>4. active_levels \in Int
    BY <1>1 DEF IInv, TypeOK
  <2>5. PICK a \in 2 .. MAX_LEVELS : a = active_levels'
    BY <1>4
  <2> QED BY <2>1, <2>2, <2>3, <2>4, <2>5 DEF MAX_LEVELS
<1>8. QueuedByPriority'
  BY <1>6, <1>7 DEF QueuedByPriority, ByPriority, OwnerIsActive, Queued
<1> QED BY <1>3, <1>4, <1>5, <1>8 DEF IInv, OnePlace, DynamicsFollowLoad
\* The end of every switch: pick_and_run on queues q and states st with the CPU
\* free, the load known and the levels set for it.
RunsFrom(q, st, qr) ==
  /\ q \in [Levels -> Seq(Pids)] /\ st \in [Pids -> States] /\ qr \in [Pids -> Nat]
  /\ Placed(q, NoProc, st)
  /\ ByPriority(q, priority')
  /\ PickAndRun(q, st, qr)
  /\ priority' \in [Pids -> Levels]
  /\ cpu_since_boost' \in [Pids -> 0 .. CpuCap]
  /\ boost_age' \in 0 .. AgeCap /\ should_switch' \in BOOLEAN
  /\ last_known_load' = Count(q, NoProc)
  /\ active_levels' = ActiveLevelsFor(last_known_load')
  /\ active_levels' \in 2 .. MAX_LEVELS
  /\ boost_interval' \in 1 .. AgeCap

\* pick_and_run serves a process of the queues it is given, or nobody.
LEMMA PickServes ==
  ASSUME NEW q, NEW st, NEW qr, RunsFrom(q, st, qr)
  PROVE  \/ current' = NoProc /\ state' = st
         \/ /\ current' \in Pids /\ st[current'] = "Ready"
            /\ \E l \in 0 .. active_levels' - 1 : l \in Levels /\ current' \in Queued(q[l])
            /\ state' = [st EXCEPT ![current'] = "Running"]
<1>1. /\ PickAndRun(q, st, qr) /\ Placed(q, NoProc, st)
      /\ q \in [Levels -> Seq(Pids)]
  BY DEF RunsFrom
<1>2. PICK active \in 2 .. 4 : active = active_levels'
  BY DEF RunsFrom, MAX_LEVELS
<1>3. CASE current' = NoProc /\ state' = st
  BY <1>3
<1>4. CASE \E l \in 0 .. active - 1 :
             /\ q[l] # <<>>
             /\ current' = Head(q[l])
             /\ state' = [st EXCEPT ![Head(q[l])] = "Running"]
  <2>1. PICK l \in 0 .. active - 1 :
             /\ q[l] # <<>>
             /\ current' = Head(q[l])
             /\ state' = [st EXCEPT ![Head(q[l])] = "Running"]
    BY <1>4
  <2>2. l \in Levels /\ q[l] \in Seq(Pids) /\ NoDup(q[l])
    BY <1>1 DEF Levels, MAX_LEVELS, Placed
  <2>3. Head(q[l]) \in Pids /\ Head(q[l]) \in Queued(q[l])
    BY <2>1, <2>2, TailQueued
  <2>4. st[Head(q[l])] = "Ready"
    BY <1>1, <2>2, <2>3 DEF Placed
  <2> QED BY <1>2, <2>1, <2>2, <2>3, <2>4
<1> QED BY <1>1, <1>2, <1>3, <1>4 DEF PickAndRun, ScannedLevels

LEMMA RunsFromEstablishesIInv ==
  ASSUME NEW q, NEW st, NEW qr, RunsFrom(q, st, qr)
  PROVE  IInv'
<1>1. /\ queues' \in [Levels -> Seq(Pids)]
      /\ current' \in Pids \cup {NoProc}
      /\ state' \in [Pids -> States]
      /\ quantum_remaining' \in [Pids -> Nat]
      /\ Placed(queues', current', state')
      /\ Count(queues', current') = Count(q, NoProc)
      /\ \A l \in Levels : Queued(queues'[l]) \subseteq Queued(q[l])
  BY PickAndRunPlaces DEF RunsFrom
<1>2. last_known_load' \in Nat
  BY CountIsNat DEF RunsFrom
<1>3. TypeOK'
  BY <1>1, <1>2 DEF RunsFrom, TypeOK, States
<1>4. OnePlace' /\ DynamicsFollowLoad'
  BY <1>1 DEF OnePlace, DynamicsFollowLoad, RunsFrom
<1>5. QueuedByPriority'
  <2>1. ByPriority(queues', priority')
    BY <1>1 DEF RunsFrom, ByPriority
  <2>2. OwnerIsActive'
    <3> SUFFICES ASSUME current' # NoProc PROVE priority'[current'] < active_levels'
      BY DEF OwnerIsActive
    <3>1. PICK a \in 2 .. MAX_LEVELS : a = active_levels'
      BY DEF RunsFrom
    <3>2. PICK l \in 0 .. a - 1 : l \in Levels /\ current' \in Queued(q[l])
      BY <3>1, PickServes
    <3>3. priority'[current'] = l
      BY <3>2 DEF RunsFrom, ByPriority
    <3>4. l < a
      BY <3>2 DEF MAX_LEVELS
    <3> QED BY <3>1, <3>3, <3>4
  <2> QED BY <2>1, <2>2 DEF QueuedByPriority, ByPriority, OwnerIsActive, Queued
<1> QED BY <1>3, <1>4, <1>5 DEF IInv

\* yield_current and schedule_next with a process on the CPU: it is requeued with
\* priority prio.
Requeues(prio, qr) ==
  /\ current # NoProc
  /\ prio \in Levels /\ prio < active_levels
  /\ qr \in [Pids -> Nat]
  /\ priority' = [priority EXCEPT ![current] = prio]
  /\ PickAndRun([queues EXCEPT ![QueueLevel(prio)] = Append(@, current)],
                [state EXCEPT ![current] = "Ready"], qr)
  /\ UNCHANGED <<dynamics, cpu_since_boost, boost_age>>
  /\ should_switch' \in BOOLEAN

LEMMA RequeuesRunsFrom ==
  ASSUME IInv, NEW prio, NEW qr, Requeues(prio, qr)
  PROVE  \E q : /\ RunsFrom(q, [state EXCEPT ![current] = "Ready"], qr)
                /\ q = [queues EXCEPT ![QueueLevel(prio)] = Append(@, current)]
<1> DEFINE level == QueueLevel(prio)
           q  == [queues EXCEPT ![level] = Append(@, current)]
           st == [state EXCEPT ![current] = "Ready"]
<1>1. /\ current \in Pids /\ queues \in [Levels -> Seq(Pids)]
      /\ state \in [Pids -> States] /\ priority \in [Pids -> Levels]
      /\ Placed(queues, current, state) /\ state[current] = "Running"
      /\ active_levels \in 2 .. MAX_LEVELS
  BY DEF IInv, TypeOK, States, OnePlace, Placed, Requeues
<1>2. level \in Levels /\ level = prio
  <2>1. prio \in 0 .. 3 /\ prio < active_levels
    BY DEF Requeues, Levels, MAX_LEVELS
  <2> QED BY <1>1, <2>1 DEF QueueLevel, AtMost, Levels, MAX_LEVELS
<1>3. Enqueues(queues, state, current, current, level, q, st, NoProc)
  BY <1>1, <1>2 DEF Enqueues
<1> HIDE DEF level, q, st
<1>4. /\ q \in [Levels -> Seq(Pids)]
      /\ st \in [Pids -> States]
      /\ Placed(q, NoProc, st)
      /\ \A k \in Levels : \A x : x \in Queued(q[k]) <=> x \in Queued(queues[k]) \/ (k = level /\ x = current)
      /\ \A k \in Levels : current \notin Queued(queues[k])
      /\ Count(q, NoProc) = Count(queues, NoProc) + 1
  BY <1>3, EnqueuePlaces
<1>5. priority' \in [Pids -> Levels]
  BY <1>1 DEF Requeues
<1>6. ByPriority(q, priority')
  <2> SUFFICES ASSUME NEW k \in Levels, NEW x \in Queued(q[k])
               PROVE  priority'[x] = k
    BY DEF ByPriority
  <2>1. x \in Pids
    BY <1>4 DEF Queued
  <2>2. CASE x = current
    BY <1>1, <1>2, <1>4, <2>2 DEF Requeues
  <2>3. CASE x # current
    <3>1. ByPriority(queues, priority)
      BY ByPriorityMeans DEF IInv
    <3>2. x \in Queued(queues[k]) /\ priority'[x] = priority[x]
      BY <1>1, <1>4, <2>1, <2>3 DEF Requeues
    <3> QED BY <3>1, <3>2 DEF ByPriority
  <2> QED BY <2>2, <2>3
<1>7. last_known_load' = Count(q, NoProc)
  <2>1. Count(queues, current) = Count(queues, NoProc) + 1
    BY <1>1, CountOwner
  <2> QED BY <1>4, <2>1 DEF Requeues, dynamics, IInv, DynamicsFollowLoad
<1>8. RunsFrom(q, st, qr)
  BY <1>4, <1>5, <1>6, <1>7 DEF RunsFrom, Requeues, dynamics, IInv, TypeOK, DynamicsFollowLoad, q, st, level
<1> QED BY <1>8 DEF st, q, level

LEMMA RequeuesKeepsIInv ==
  ASSUME IInv, NEW prio, NEW qr, Requeues(prio, qr)
  PROVE  IInv'
  BY RequeuesRunsFrom, RunsFromEstablishesIInv

\* The same methods with nobody on the CPU.
LEMMA IdlePickRunsFrom ==
  ASSUME IInv, current = NoProc,
         PickAndRun(queues, state, quantum_remaining),
         UNCHANGED <<dynamics, priority, cpu_since_boost, boost_age>>,
         should_switch' \in BOOLEAN
  PROVE  RunsFrom(queues, state, quantum_remaining)
<1>1. ByPriority(queues, priority')
  BY ByPriorityMeans DEF IInv
<1> QED
  BY <1>1 DEF RunsFrom, dynamics, IInv, TypeOK, States, OnePlace, DynamicsFollowLoad

LEMMA IdlePickKeepsIInv ==
  ASSUME IInv, current = NoProc,
         PickAndRun(queues, state, quantum_remaining),
         UNCHANGED <<dynamics, priority, cpu_since_boost, boost_age>>,
         should_switch' \in BOOLEAN
  PROVE  IInv'
  BY IdlePickRunsFrom, RunsFromEstablishesIInv

LEMMA YieldRequeues ==
  ASSUME IInv, YieldCurrent, current # NoProc
  PROVE  \E prio, qr : Requeues(prio, qr)
<1> DEFINE others  == Count(queues, NoProc)
           prio    == CumulativeDemotion(current, others)
           quantum == QuantumFor(QueueLevel(prio), active_levels, others)
           qr      == [quantum_remaining EXCEPT ![current] = quantum]
<1>1. /\ current \in Pids /\ priority[current] \in 0 .. 3 /\ active_levels \in 2 .. 4
      /\ priority[current] < active_levels
      /\ queues \in [Levels -> Seq(Pids)]
  BY ByPriorityMeans DEF IInv, TypeOK, OwnerIsActive, Levels, MAX_LEVELS
<1>2. prio \in Levels /\ prio < active_levels
  <2> HIDE DEF others
  <2> QED BY <1>1 DEF CumulativeDemotion, Levels, MAX_LEVELS
<1>3. QueueLevel(prio) \in Levels
  <2> HIDE DEF prio
  <2> QED BY <1>1, <1>2 DEF QueueLevel, AtMost, Levels, MAX_LEVELS
<1>4. quantum \in Nat
  <2>1. others \in Nat
    BY <1>1, CountIsNat
  <2> HIDE DEF others, prio
  <2> QED BY <1>1, <1>3, <2>1, QuantumIsPositive DEF MAX_LEVELS
<1>5. qr \in [Pids -> Nat]
  <2> HIDE DEF quantum
  <2> QED BY <1>4 DEF IInv, TypeOK
<1>6. Requeue(current, QueueLevel(prio), prio)
  BY DEF YieldCurrent, YieldRunning
<1>7. Requeues(prio, qr)
  <2> HIDE DEF prio
  <2> QED BY <1>2, <1>5, <1>6 DEF Requeues, YieldCurrent, Requeue
<1> QED BY <1>7

LEMMA ScheduleRequeues ==
  ASSUME IInv, ScheduleNext, current # NoProc
  PROVE  \E prio, qr : Requeues(prio, qr)
<1> DEFINE prio == QuantumDemotion(current)
<1>1. /\ current \in Pids /\ priority[current] \in 0 .. 3 /\ active_levels \in 2 .. 4
      /\ priority[current] < active_levels
      /\ quantum_remaining \in [Pids -> Nat]
      /\ should_switch' \in BOOLEAN
  BY ByPriorityMeans DEF IInv, TypeOK, OwnerIsActive, Levels, MAX_LEVELS, ScheduleNext
<1>2. prio \in Levels /\ prio < active_levels
  BY <1>1 DEF QuantumDemotion, Levels, MAX_LEVELS
<1>3. Requeues(prio, quantum_remaining)
  BY <1>1, <1>2 DEF Requeues, ScheduleNext
<1> QED BY <1>3

LEMMA YieldCurrentKeepsIInv ==
  ASSUME IInv, YieldCurrent
  PROVE  IInv'
<1>1. CASE current = NoProc
  BY <1>1, IdlePickKeepsIInv DEF YieldCurrent
<1>2. CASE current # NoProc
  BY <1>2, YieldRequeues, RequeuesKeepsIInv
<1> QED BY <1>1, <1>2

LEMMA ScheduleNextKeepsIInv ==
  ASSUME IInv, ScheduleNext
  PROVE  IInv'
<1>1. should_switch' \in BOOLEAN
  BY DEF ScheduleNext, IInv, TypeOK
<1>2. CASE current = NoProc
  BY <1>1, <1>2, IdlePickKeepsIInv DEF ScheduleNext
<1>3. CASE current # NoProc
  BY <1>3, ScheduleRequeues, RequeuesKeepsIInv
<1> QED BY <1>2, <1>3

\* The running process is in no queue, so its priority is free to change.
LEMMA PromoteCurrentKeepsIInv ==
  ASSUME IInv, PromoteCurrent
  PROVE  IInv'
<1>1. /\ current \in Pids /\ priority[current] \in 1 .. 3
      /\ queues \in [Levels -> Seq(Pids)]
      /\ priority' = [priority EXCEPT ![current] = @ - 1]
      /\ UNCHANGED <<queues, current, state, quantum_remaining, cpu_since_boost,
                     dynamics, boost_age, should_switch>>
  BY DEF IInv, TypeOK, Levels, MAX_LEVELS, PromoteCurrent
<1>2. priority' \in [Pids -> Levels]
  BY <1>1 DEF IInv, TypeOK, Levels, MAX_LEVELS
<1>3. \A k \in Levels : current \notin Queued(queues[k])
  <2>1. Placed(queues, current, state)
    BY DEF IInv, OnePlace
  <2>2. state[current] = "Running"
    BY <1>1, <2>1 DEF Placed
  <2> QED BY <1>1, <2>1, <2>2 DEF Placed
<1>4. ByPriority(queues, priority')
  <2> SUFFICES ASSUME NEW k \in Levels, NEW x \in Queued(queues[k])
               PROVE  priority'[x] = k
    BY DEF ByPriority
  <2>1. x \in Pids /\ x # current
    BY <1>1, <1>3 DEF Queued
  <2>2. priority'[x] = priority[x]
    BY <1>1, <2>1
  <2> QED BY <2>2, ByPriorityMeans DEF IInv, ByPriority
<1>5. QueuedByPriority'
  <2>1. priority[current] < active_levels /\ active_levels \in 2 .. 4
    BY <1>1, PidsAssumption, ByPriorityMeans DEF IInv, TypeOK, OwnerIsActive, MAX_LEVELS
  <2>2. priority'[current] = priority[current] - 1
    BY <1>1 DEF IInv, TypeOK
  <2>3. OwnerIsActive'
    BY <1>1, <2>1, <2>2 DEF OwnerIsActive, dynamics
  <2> QED BY <1>1, <1>4, <2>3 DEF QueuedByPriority, ByPriority, OwnerIsActive, Queued
<1> QED BY <1>1, <1>2, <1>5 DEF IInv, TypeOK, OnePlace, DynamicsFollowLoad, dynamics

LEMMA ExitRunsFrom ==
  ASSUME IInv, ExitCurrent
  PROVE  RunsFrom(queues, [p \in Pids |-> IF p = current THEN "Gone" ELSE state[p]],
                  quantum_remaining)
<1> DEFINE st == [p \in Pids |-> IF p = current THEN "Gone" ELSE state[p]]
<1>1. /\ queues \in [Levels -> Seq(Pids)] /\ Placed(queues, current, state)
      /\ state \in [Pids -> States] /\ quantum_remaining \in [Pids -> Nat]
  BY DEF IInv, TypeOK, States, OnePlace
<1>2. st \in [Pids -> States]
  BY <1>1 DEF States
<1>3. Placed(queues, NoProc, st)
  <2>1. \A p \in Pids : st[p] = "Ready" <=> state[p] = "Ready"
    BY <1>1 DEF Placed
  <2>2. \A p \in Pids : st[p] # "Running"
    BY <1>1 DEF Placed
  <2> HIDE DEF st
  <2> QED BY <1>1, <2>1, <2>2, PidsAssumption DEF Placed
<1>4. /\ last_known_load' = Count(queues, NoProc)
      /\ active_levels' = ActiveLevelsFor(last_known_load')
      /\ last_known_load' \in Nat
      /\ active_levels' \in 2 .. MAX_LEVELS
      /\ boost_interval' \in 1 .. AgeCap
  <2>1. RecalculateDynamics(queues, NoProc)
    BY DEF ExitCurrent
  <2> QED BY <1>1, <2>1, RecalculateFollows DEF IInv, DynamicsFollowLoad
<1>5. ByPriority(queues, priority')
  BY ByPriorityMeans DEF IInv, ExitCurrent
<1>6. PickAndRun(queues, st, quantum_remaining)
  BY DEF ExitCurrent
<1> HIDE DEF st
<1>7. RunsFrom(queues, st, quantum_remaining)
  BY <1>1, <1>2, <1>3, <1>4, <1>5, <1>6 DEF RunsFrom, IInv, TypeOK, ExitCurrent
<1> QED BY <1>7 DEF st

LEMMA ExitCurrentKeepsIInv ==
  ASSUME IInv, ExitCurrent
  PROVE  IInv'
  BY ExitRunsFrom, RunsFromEstablishesIInv

-----------------------------------------------------------------------------
(* The timer.                                                                *)

\* The charge of a tick leaves the types of the process fields alone.
LEMMA ChargeTickTypes ==
  ASSUME current \in Pids \cup {NoProc},
         NEW quantum \in [Pids -> Nat], NEW charged \in [Pids -> 0 .. CpuCap],
         ChargeTick(quantum, charged)
  PROVE  /\ quantum_remaining' \in [Pids -> Nat]
         /\ cpu_since_boost' \in [Pids -> 0 .. CpuCap]
         /\ should_switch' \in BOOLEAN
<1>1. CASE current = NoProc
  BY <1>1 DEF ChargeTick
<1>2. CASE current # NoProc
  <2>1. current \in Pids
    BY <1>2
  <2>2. quantum[current] \in Nat /\ charged[current] \in 0 .. CpuCap /\ CpuCap \in Nat
    BY <2>1, CapsAreNat
  <2>3. (IF quantum[current] > 0 THEN quantum[current] - 1 ELSE 0) \in Nat
    BY <2>2
  <2>4. AtMost(charged[current] + 1, CpuCap) \in 0 .. CpuCap
    BY <2>2 DEF AtMost
  <2>5. /\ quantum_remaining' = [quantum EXCEPT ![current] =
                                 IF quantum[current] > 0 THEN quantum[current] - 1 ELSE 0]
        /\ cpu_since_boost' = [charged EXCEPT ![current] = AtMost(charged[current] + 1, CpuCap)]
        /\ should_switch' \in BOOLEAN
    BY <1>2 DEF ChargeTick
  <2> QED BY <2>3, <2>4, <2>5
<1> QED BY <1>1, <1>2

LEMMA TickNoBoostKeepsIInv ==
  ASSUME IInv, TickNoBoost
  PROVE  IInv'
<1>1. boost_age' \in 0 .. AgeCap
  <2>1. /\ boost_age \in Int /\ boost_age >= 0
        /\ boost_interval \in Int /\ boost_interval <= AgeCap /\ AgeCap \in Nat
    BY CapsAreNat DEF IInv, TypeOK
  <2> QED BY <2>1 DEF TickNoBoost
<1>2. /\ quantum_remaining' \in [Pids -> Nat]
      /\ cpu_since_boost' \in [Pids -> 0 .. CpuCap]
      /\ should_switch' \in BOOLEAN
  BY ChargeTickTypes DEF IInv, TypeOK, TickNoBoost
<1>3. UNCHANGED <<queues, current, state, priority, dynamics>>
  BY DEF TickNoBoost
<1> QED BY <1>1, <1>2, <1>3
        DEF IInv, TypeOK, OnePlace, DynamicsFollowLoad, QueuedByPriority, dynamics

\* The queue `all` is the merge of the queues q, which share nothing.
Merges(q, all) ==
  /\ q \in [Levels -> Seq(Pids)]
  /\ \A l \in Levels : NoDup(q[l])
  /\ \A k, l \in Levels : k # l => Queued(q[k]) \cap Queued(q[l]) = {}
  /\ all = q[0] \o q[1] \o q[2] \o q[3]

\* The merged queue holds what the four queues held, once each.
LEMMA BoostMerges ==
  ASSUME NEW q, NEW all, Merges(q, all)
  PROVE  /\ all \in Seq(Pids)
         /\ NoDup(all)
         /\ \A x : x \in Queued(all) <=> \E l \in Levels : x \in Queued(q[l])
         /\ Len(all) = Count(q, NoProc)
<1> USE DEF Merges
<1>1. 0 \in Levels /\ 1 \in Levels /\ 2 \in Levels /\ 3 \in Levels
  BY DEF Levels, MAX_LEVELS
<1>2. /\ q[0] \in Seq(Pids) /\ q[1] \in Seq(Pids) /\ q[2] \in Seq(Pids) /\ q[3] \in Seq(Pids)
      /\ NoDup(q[0]) /\ NoDup(q[1]) /\ NoDup(q[2]) /\ NoDup(q[3])
  BY <1>1
<1> DEFINE a == q[0] \o q[1]
           b == a \o q[2]
<1>3. a \in Seq(Pids) /\ NoDup(a) /\ Queued(a) = Queued(q[0]) \cup Queued(q[1])
      /\ Len(a) = Len(q[0]) + Len(q[1])
  <2>1. Queued(q[0]) \cap Queued(q[1]) = {}
    BY <1>1
  <2> QED BY <1>2, <2>1, ConcatQueued
<1> HIDE DEF a
<1>4. b \in Seq(Pids) /\ NoDup(b) /\ Queued(b) = Queued(a) \cup Queued(q[2])
      /\ Len(b) = Len(a) + Len(q[2])
  <2>1. Queued(q[0]) \cap Queued(q[2]) = {} /\ Queued(q[1]) \cap Queued(q[2]) = {}
    BY <1>1
  <2>2. Queued(a) \cap Queued(q[2]) = {}
    BY <1>3, <2>1
  <2> QED BY <1>2, <1>3, <2>2, ConcatQueued
<1> HIDE DEF b
<1>5. all = b \o q[3]
  BY DEF a, b
<1>6. all \in Seq(Pids) /\ NoDup(all) /\ Queued(all) = Queued(b) \cup Queued(q[3])
      /\ Len(all) = Len(b) + Len(q[3])
  <2>1. Queued(q[0]) \cap Queued(q[3]) = {}
    BY <1>1, 0 # 3
  <2>2. Queued(q[1]) \cap Queued(q[3]) = {}
    BY <1>1, 1 # 3
  <2>3. Queued(q[2]) \cap Queued(q[3]) = {}
    BY <1>1, 2 # 3
  <2>4. Queued(b) \cap Queued(q[3]) = {}
    BY <1>3, <1>4, <2>1, <2>2, <2>3
  <2> DEFINE c == b \o q[3]
  <2>5. c \in Seq(Pids) /\ NoDup(c) /\ Queued(c) = Queued(b) \cup Queued(q[3])
        /\ Len(c) = Len(b) + Len(q[3])
    BY <1>2, <1>4, <2>4, ConcatQueued
  <2>6. all = c
    BY <1>5
  <2> HIDE DEF c
  <2> QED BY <2>5, <2>6
<1>7. \A x : x \in Queued(all) <=> \E l \in Levels : x \in Queued(q[l])
  <2>1. \A l \in Levels : l = 0 \/ l = 1 \/ l = 2 \/ l = 3
    BY DEF Levels, MAX_LEVELS
  <2>2. \A x : x \in Queued(all) <=> \/ x \in Queued(q[0]) \/ x \in Queued(q[1])
                                     \/ x \in Queued(q[2]) \/ x \in Queued(q[3])
    BY <1>3, <1>4, <1>6
  <2> QED BY <1>1, <2>1, <2>2
<1>8. Len(all) = Count(q, NoProc)
  BY <1>3, <1>4, <1>6, CountFree
<1> QED BY <1>6, <1>7, <1>8
\* A process in a lower queue is counted, so the load without it is a number.
LEMMA LowerQueueCounts ==
  ASSUME queues \in [Levels -> Seq(Pids)], current \in Pids \cup {NoProc},
         NEW p \in Pids, InLowerQueue(p)
  PROVE  Count(queues, current) - 1 \in Nat
<1>1. PICK n0 \in Nat, n1 \in Nat, n2 \in Nat, n3 \in Nat :
        Len(queues[0]) = n0 /\ Len(queues[1]) = n1 /\ Len(queues[2]) = n2 /\ Len(queues[3]) = n3
  BY CountFree
<1>2. n1 > 0 \/ n2 > 0 \/ n3 > 0
  <2>1. PICK l \in 1 .. 3 : \E i \in 1 .. Len(queues[l]) : queues[l][i] = p
    BY DEF InLowerQueue, MAX_LEVELS
  <2>2. l = 1 \/ l = 2 \/ l = 3
    OBVIOUS
  <2>3. CASE l = 1
    BY <1>1, <2>1, <2>3
  <2>4. CASE l = 2
    BY <1>1, <2>1, <2>4
  <2>5. CASE l = 3
    BY <1>1, <2>1, <2>5
  <2> QED BY <2>2, <2>3, <2>4, <2>5
<1>3. Count(queues, NoProc) = n0 + n1 + n2 + n3
  BY <1>1, CountFree
<1>4. PICK m \in Nat : m = n0 + n1 + n2 + n3 /\ m > 0
  BY <1>2
<1>5. Count(queues, NoProc) = m
  BY <1>3, <1>4
<1>6. CASE current = NoProc
  BY <1>4, <1>5, <1>6
<1>7. CASE current # NoProc
  <2>1. Count(queues, current) = m + 1
    BY <1>5, <1>7, CountOwner
  <2> QED BY <2>1
<1> QED BY <1>6, <1>7

LEMMA TickWithBoostKeepsIInv ==
  ASSUME IInv, TickWithBoost
  PROVE  IInv'
<1>1. /\ queues \in [Levels -> Seq(Pids)] /\ Placed(queues, current, state)
      /\ current \in Pids \cup {NoProc}
      /\ priority \in [Pids -> Levels] /\ active_levels \in 2 .. MAX_LEVELS
      /\ quantum_remaining \in [Pids -> Nat]
      /\ cpu_since_boost \in [Pids -> 0 .. CpuCap]
  BY DEF IInv, TypeOK, OnePlace
<1>2. current' = current /\ state' = state /\ boost_age' = 0
  BY DEF TickWithBoost
<1> DEFINE all == queues[0] \o queues[1] \o queues[2] \o queues[3]
<1>3. /\ all \in Seq(Pids)
      /\ NoDup(all)
      /\ \A x : x \in Queued(all) <=> \E l \in Levels : x \in Queued(queues[l])
  <2>1. /\ \A l \in Levels : NoDup(queues[l])
        /\ \A k, l \in Levels : k # l => Queued(queues[k]) \cap Queued(queues[l]) = {}
    BY <1>1 DEF Placed
  <2>2. all = queues[0] \o queues[1] \o queues[2] \o queues[3]
    OBVIOUS
  <2>3. Merges(queues, all)
    BY <1>1, <2>1, <2>2 DEF Merges
  <2> QED BY <2>3, BoostMerges
<1>4. \A l \in Levels : queues'[l] = IF l = 0 THEN all ELSE <<>>
  BY DEF TickWithBoost, BoostedQueues
<1>5. queues' = [l \in Levels |-> IF l = 0 THEN all ELSE <<>>]
  BY DEF TickWithBoost, BoostedQueues
<1> HIDE DEF all
<1>6. queues' \in [Levels -> Seq(Pids)]
  BY <1>3, <1>5
<1>7. \A l \in Levels : l # 0 => Queued(queues'[l]) = {} /\ NoDup(queues'[l])
  BY <1>4 DEF Queued, NoDup
<1>8. 0 \in Levels /\ queues'[0] = all
  BY <1>4 DEF Levels, MAX_LEVELS
<1>9. Placed(queues', current', state')
  <2>1. \A l \in Levels : NoDup(queues'[l])
    BY <1>3, <1>7, <1>8
  <2>2. \A k, l \in Levels : k # l => Queued(queues'[k]) \cap Queued(queues'[l]) = {}
    BY <1>7
  <2>3. \A p \in Pids : state'[p] = "Ready" <=> \E l \in Levels : p \in Queued(queues'[l])
    <3> TAKE p \in Pids
    <3>1. state[p] = "Ready" <=> p \in Queued(all)
      BY <1>1, <1>3 DEF Placed
    <3>2. (\E l \in Levels : p \in Queued(queues'[l])) <=> p \in Queued(all)
      BY <1>7, <1>8
    <3> QED BY <1>2, <3>1, <3>2
  <2> QED BY <1>1, <1>2, <2>1, <2>2, <2>3 DEF Placed
<1>10. /\ last_known_load' = Count(queues', current')
       /\ active_levels' = ActiveLevelsFor(last_known_load')
       /\ last_known_load' \in Nat
       /\ active_levels' \in 2 .. MAX_LEVELS
       /\ boost_interval' \in 1 .. AgeCap
  <2>1. RecalculateDynamics(queues', current)
    BY DEF TickWithBoost
  <2> QED BY <1>2, <1>6, <2>1, RecalculateFollows DEF IInv, DynamicsFollowLoad
<1>11. priority' \in [Pids -> Levels]
  BY <1>1, <1>8 DEF TickWithBoost
<1> DEFINE quantum == [p \in Pids |-> BoostedQuantum(p)]
           charged == [p \in Pids |-> IF BoostResets(p) THEN 0 ELSE cpu_since_boost[p]]
<1>12. quantum \in [Pids -> Nat]
  <2> SUFFICES ASSUME NEW p \in Pids PROVE BoostedQuantum(p) \in Nat
    OBVIOUS
  <2>1. CASE InLowerQueue(p)
    <3>1. Count(queues, current) - 1 \in Nat
      BY <1>1, <2>1, LowerQueueCounts
    <3>2. QuantumFor(0, active_levels, Count(queues, current) - 1) \in Nat
      BY <1>1, <1>8, <3>1, QuantumIsPositive
    <3> QED BY <2>1, <3>2 DEF BoostedQuantum
  <2>2. CASE ~InLowerQueue(p)
    BY <1>1, <2>2 DEF BoostedQuantum
  <2> QED BY <2>1, <2>2
<1>13. charged \in [Pids -> 0 .. CpuCap]
  BY <1>1, CapsAreNat
<1>14. ChargeTick(quantum, charged)
  BY DEF TickWithBoost
<1> HIDE DEF quantum, charged
<1>15. /\ quantum_remaining' \in [Pids -> Nat]
       /\ cpu_since_boost' \in [Pids -> 0 .. CpuCap]
       /\ should_switch' \in BOOLEAN
  BY <1>1, <1>12, <1>13, <1>14, ChargeTickTypes
<1>16. TypeOK'
  BY <1>2, <1>6, <1>10, <1>11, <1>15, CapsAreNat DEF IInv, TypeOK
<1>17. QueuedByPriority'
  <2>1. \A k \in Levels : k # 0 => \A x \in Queued(queues[k]) : InLowerQueue(x)
    BY DEF Queued, InLowerQueue, Levels, MAX_LEVELS
  <2>2. ByPriority(queues, priority)
    BY ByPriorityMeans DEF IInv
  <2>3. \A x \in Queued(all) : priority'[x] = 0
    <3> TAKE x \in Queued(all)
    <3>1. x \in Pids
      BY <1>3 DEF Queued
    <3>2. PICK k \in Levels : x \in Queued(queues[k])
      BY <1>3
    <3>3. k = 0 => priority[x] = 0
      BY <2>2, <3>2 DEF ByPriority
    <3> QED BY <2>1, <3>1, <3>2, <3>3 DEF TickWithBoost, BoostResets
  <2>4. ByPriority(queues', priority')
    BY <1>7, <1>8, <2>3 DEF ByPriority
  <2>5. OwnerIsActive'
    <3> SUFFICES ASSUME current # NoProc PROVE priority'[current] < active_levels'
      BY <1>2 DEF OwnerIsActive
    <3>1. current \in Pids /\ priority[current] \in 0 .. 3
      BY <1>1 DEF Levels, MAX_LEVELS
    <3>2. priority'[current] = 0
      BY <3>1 DEF TickWithBoost, BoostResets
    <3>3. PICK a \in 2 .. MAX_LEVELS : a = active_levels'
      BY <1>10
    <3> QED BY <3>2, <3>3 DEF MAX_LEVELS
  <2> QED BY <2>4, <2>5 DEF QueuedByPriority, ByPriority, OwnerIsActive, Queued
<1> QED BY <1>9, <1>10, <1>16, <1>17 DEF IInv, OnePlace, DynamicsFollowLoad

LEMMA MissedTickKeepsIInv ==
  ASSUME IInv, MissedTick
  PROVE  IInv'
<1>1. boost_age' \in 0 .. AgeCap
  BY CapsAreNat DEF IInv, TypeOK, MissedTick, AtMost
<1>2. UNCHANGED <<queues, current, procVars, dynamics, should_switch>>
  BY DEF MissedTick
<1> QED BY <1>1, <1>2
        DEF IInv, TypeOK, OnePlace, DynamicsFollowLoad, QueuedByPriority, dynamics, procVars

-----------------------------------------------------------------------------
(* The theorems.                                                             *)

\* IInv is inductive for the full interface of the scheduler.
LEMMA NextKeepsIInv == IInv /\ [Next]_vars => IInv'
<1> SUFFICES ASSUME IInv, [Next]_vars PROVE IInv'
  OBVIOUS
<1>1. ASSUME NEW p \in Pids, AddProcess(p) PROVE IInv'
  BY <1>1, AddProcessKeepsIInv
<1>2. CASE YieldCurrent
  BY <1>2, YieldCurrentKeepsIInv
<1>3. CASE ScheduleNext
  BY <1>3, ScheduleNextKeepsIInv
<1>4. CASE PromoteCurrent
  BY <1>4, PromoteCurrentKeepsIInv
<1>5. CASE ExitCurrent
  BY <1>5, ExitCurrentKeepsIInv
<1>6. CASE TimerTick
  BY <1>6, TickNoBoostKeepsIInv, TickWithBoostKeepsIInv DEF TimerTick
<1>7. CASE MissedTick
  BY <1>7, MissedTickKeepsIInv
<1>8. CASE UNCHANGED vars
  BY <1>8 DEF vars, procVars, dynamics, IInv, TypeOK, OnePlace, DynamicsFollowLoad,
              QueuedByPriority
<1> QED BY <1>1, <1>2, <1>3, <1>4, <1>5, <1>6, <1>7, <1>8 DEF Next, CalledNext

\* Every reachable state of the scheduler satisfies the strengthened invariant.
THEOREM MLFQ_IInv == Spec => []IInv
<1>1. Init => IInv
  BY InitEstablishesIInv
<1>2. IInv /\ [Next]_vars => IInv'
  BY NextKeepsIInv
<1> QED BY <1>1, <1>2, PTL DEF Spec

\* The variables keep their types; the cached load, the levels and the caps too.
THEOREM MLFQ_TypeOK == Spec => []TypeOK
  BY MLFQ_IInv, PTL DEF IInv

\* No method loses or duplicates a process, for any number of processes.
THEOREM MLFQ_OnePlace == Spec => []OnePlace
  BY MLFQ_IInv, PTL DEF IInv

\* The cached load is never stale and the level count is the one it calls for.
THEOREM MLFQ_DynamicsFollowLoad == Spec => []DynamicsFollowLoad
  BY MLFQ_IInv, PTL DEF IInv

\* Queues and priorities always agree, and what runs has an active priority.
THEOREM MLFQ_QueuedByPriority == Spec => []QueuedByPriority
  BY MLFQ_IInv, PTL DEF IInv
\* pick_and_run leaves the CPU free only when every active level is empty.
LEMMA PickIdles ==
  ASSUME NEW q \in [Levels -> Seq(Pids)], NEW st, NEW qr,
         active_levels' \in 2 .. 4,
         PickAndRun(q, st, qr), current' = NoProc
  PROVE  state' = st /\ \A l \in 0 .. active_levels' - 1 : q[l] = <<>>
<1>1. ASSUME NEW l \in 0 .. active_levels' - 1, q[l] # <<>>
      PROVE  Head(q[l]) # NoProc
  <2>1. l \in Levels
    <3>1. PICK active \in 2 .. 4 : active = active_levels'
      OBVIOUS
    <3>2. l \in 0 .. active - 1
      BY <3>1
    <3> QED BY <3>2 DEF Levels, MAX_LEVELS
  <2>2. Head(q[l]) \in Pids
    BY <1>1, <2>1, HeadTailProperties
  <2> QED BY <2>2, PidsAssumption
<1> QED BY <1>1 DEF PickAndRun, ScannedLevels

\* The level a process is requeued at is active, so pick_and_run finds somebody.
LEMMA RequeuesFindsSomebody ==
  ASSUME IInv, NEW prio, NEW qr, Requeues(prio, qr)
  PROVE  current' # NoProc
<1> DEFINE level == QueueLevel(prio)
           q     == [queues EXCEPT ![level] = Append(queues[level], current)]
<1>1. /\ current \in Pids /\ queues \in [Levels -> Seq(Pids)]
      /\ active_levels \in 2 .. 4 /\ prio \in 0 .. 3
      /\ active_levels' = active_levels
  BY DEF IInv, TypeOK, Requeues, dynamics, Levels, MAX_LEVELS
<1>2. level \in 0 .. active_levels - 1 /\ level \in Levels
  BY <1>1 DEF QueueLevel, AtMost, Levels, MAX_LEVELS
<1> HIDE DEF level
<1>3. Append(queues[level], current) \in Seq(Pids) /\ Append(queues[level], current) # <<>>
  BY <1>1, <1>2
<1>4. q \in [Levels -> Seq(Pids)] /\ q[level] # <<>>
  BY <1>1, <1>2, <1>3
<1>5. PickAndRun(q, [state EXCEPT ![current] = "Ready"], qr)
  BY DEF Requeues, level
<1> HIDE DEF q
<1> QED BY <1>1, <1>2, <1>4, <1>5, PickIdles

\* Only exit_current leaves the CPU without a process.
THEOREM MLFQ_OnlyExitIdles == Spec => OnlyExitIdles
<1> DEFINE A == current # NoProc /\ current' = NoProc => state'[current] = "Gone"
<1>1. IInv /\ [Next]_vars => [A]_vars
  <2> SUFFICES ASSUME IInv, Next, current # NoProc, current' = NoProc
               PROVE  state'[current] = "Gone"
    BY DEF vars
  <2>1. current \in Pids
    BY DEF IInv, TypeOK
  <2>2. CASE YieldCurrent
    BY <2>2, YieldRequeues, RequeuesFindsSomebody
  <2>3. CASE ScheduleNext
    BY <2>3, ScheduleRequeues, RequeuesFindsSomebody
  <2>4. CASE ExitCurrent
    <3> DEFINE st == [p \in Pids |-> IF p = current THEN "Gone" ELSE state[p]]
    <3>1. PickAndRun(queues, st, quantum_remaining) /\ st[current] = "Gone"
      BY <2>1, <2>4 DEF ExitCurrent
    <3>2. active_levels' \in 2 .. 4
      <4>1. IInv'
        BY <2>4, ExitCurrentKeepsIInv
      <4> QED BY <4>1 DEF IInv, TypeOK, MAX_LEVELS
    <3>3. queues \in [Levels -> Seq(Pids)]
      BY DEF IInv, TypeOK
    <3> HIDE DEF st
    <3>4. state' = st
      BY <3>1, <3>2, <3>3, PickIdles
    <3> QED BY <3>1, <3>4
  <2>5. CASE \/ \E p \in Pids : AddProcess(p)
             \/ PromoteCurrent \/ TimerTick \/ MissedTick
    BY <2>5 DEF AddProcess, PromoteCurrent, TimerTick, TickNoBoost, TickWithBoost, MissedTick
  <2> QED BY <2>2, <2>3, <2>4, <2>5 DEF Next, CalledNext
<1> QED BY <1>1, MLFQ_IInv, PTL DEF Spec, OnlyExitIdles

-----------------------------------------------------------------------------
(* The scheduler implements CpuSharing.                                      *)

\* What an action does to state and current decides which abstract step it is.
LEMMA SharingView ==
  ASSUME IInv, IInv'
  PROVE  /\ UNION {Queued(queues[l]) : l \in Levels} = {p \in Pids : state[p] = "Ready"}
         /\ UNION {Queued(queues'[l]) : l \in Levels} = {p \in Pids : state'[p] = "Ready"}
         /\ \A p \in Pids : (state[p] = "Running") = (p = current)
         /\ state \in [Pids -> States] /\ state' \in [Pids -> States]
         /\ current \in Pids \cup {NoProc} /\ NoProc \notin Pids
<1>1. /\ \A l \in Levels : Queued(queues[l]) \subseteq Pids
      /\ \A l \in Levels : Queued(queues'[l]) \subseteq Pids
  <2>1. queues \in [Levels -> Seq(Pids)] /\ queues' \in [Levels -> Seq(Pids)]
    BY DEF IInv, TypeOK
  <2>2. \A q \in Seq(Pids) : Queued(q) \subseteq Pids
    BY DEF Queued
  <2> QED BY <2>1, <2>2
<1>2. UNION {Queued(queues[l]) : l \in Levels} = {p \in Pids : state[p] = "Ready"}
  BY <1>1 DEF IInv, OnePlace, Placed
<1>3. UNION {Queued(queues'[l]) : l \in Levels} = {p \in Pids : state'[p] = "Ready"}
  BY <1>1 DEF IInv, OnePlace, Placed
<1> QED BY <1>2, <1>3, PidsAssumption DEF IInv, TypeOK, States, OnePlace, Placed

\* Queueing the owner of the CPU and serving the best process is a Switch.
LEMMA RequeuesShares ==
  ASSUME IInv, NEW prio, NEW qr, Requeues(prio, qr)
  PROVE  Sharing!CNext
<1> DEFINE st == [state EXCEPT ![current] = "Ready"]
<1>1. IInv' /\ current' # NoProc
  BY RequeuesKeepsIInv, RequeuesFindsSomebody
<1>2. current \in Pids /\ st \in [Pids -> States]
  BY DEF Requeues, IInv, TypeOK, States
<1>3. /\ current' \in Pids /\ st[current'] = "Ready"
      /\ state' = [st EXCEPT ![current'] = "Running"]
  BY <1>1, RequeuesRunsFrom, PickServes
<1>4. Sharing!Switch(current')
  BY <1>1, <1>2, <1>3, SharingView DEF Sharing!Switch, States
<1> QED BY <1>3, <1>4 DEF Sharing!CNext

\* With a free CPU, a yield is a Switch or finds nobody.
LEMMA IdlePickShares ==
  ASSUME IInv, current = NoProc,
         PickAndRun(queues, state, quantum_remaining),
         UNCHANGED <<dynamics, priority, cpu_since_boost, boost_age>>,
         should_switch' \in BOOLEAN
  PROVE  Sharing!CNext \/ UNCHANGED Sharing!cvars
<1>1. IInv' /\ RunsFrom(queues, state, quantum_remaining)
  BY IdlePickRunsFrom, IdlePickKeepsIInv
<1>2. CASE current' = NoProc /\ state' = state
  BY <1>1, <1>2, SharingView DEF Sharing!cvars
<1>3. CASE /\ current' \in Pids /\ state[current'] = "Ready"
           /\ state' = [state EXCEPT ![current'] = "Running"]
  <2>1. Sharing!Switch(current')
    BY <1>1, <1>3, SharingView DEF Sharing!Switch, States
  <2> QED BY <1>3, <2>1 DEF Sharing!CNext
<1> QED BY <1>1, <1>2, <1>3, PickServes

\* An exit is a Finish; with a free CPU it is one of the above.
LEMMA ExitShares ==
  ASSUME IInv, ExitCurrent
  PROVE  Sharing!CNext \/ UNCHANGED Sharing!cvars
<1> DEFINE st == [p \in Pids |-> IF p = current THEN "Gone" ELSE state[p]]
<1>1. RunsFrom(queues, st, quantum_remaining) /\ IInv'
  BY ExitRunsFrom, ExitCurrentKeepsIInv
<1>2. st \in [Pids -> States]
  BY DEF IInv, TypeOK, States
<1>3. CASE current' = NoProc /\ state' = st
  <2>1. CASE current = NoProc
    <3>1. state' = state
      <4>1. state \in [Pids -> States] /\ current \notin Pids
        BY <1>1, <2>1, SharingView
      <4>2. state = [p \in Pids |-> state[p]]
        BY <4>1
      <4> QED BY <1>3, <4>1, <4>2
    <3> QED BY <1>1, <1>3, <2>1, <3>1, SharingView DEF Sharing!cvars
  <2>2. CASE current # NoProc
    <3>1. Sharing!Finish(NoProc)
      BY <1>1, <1>3, <2>2, SharingView DEF Sharing!Finish, States
    <3> QED BY <3>1 DEF Sharing!CNext
  <2> QED BY <2>1, <2>2
<1>4. CASE /\ current' \in Pids /\ st[current'] = "Ready"
           /\ state' = [st EXCEPT ![current'] = "Running"]
  <2>1. CASE current = NoProc
    <3>1. Sharing!Switch(current')
      BY <1>1, <1>4, <2>1, SharingView DEF Sharing!Switch, States
    <3> QED BY <1>4, <3>1 DEF Sharing!CNext
  <2>2. CASE current # NoProc
    <3>1. Sharing!Finish(current')
      BY <1>1, <1>4, <2>2, SharingView DEF Sharing!Finish, States
    <3> QED BY <1>4, <3>1 DEF Sharing!CNext
  <2> QED BY <2>1, <2>2
<1> HIDE DEF st
<1> QED BY <1>1, <1>3, <1>4, PickServes

\* The steps that move nobody in or out of the CPU.
LEMMA StillShares ==
  ASSUME IInv, IInv', UNCHANGED <<current, state>>
  PROVE  UNCHANGED Sharing!cvars
  BY SharingView DEF Sharing!cvars

LEMMA AddProcessShares ==
  ASSUME IInv, NEW p \in Pids, AddProcess(p)
  PROVE  Sharing!CNext
<1>1. IInv'
  BY AddProcessKeepsIInv
<1>2. state[p] = "New" /\ state' = [state EXCEPT ![p] = "Ready"] /\ UNCHANGED current
  BY DEF AddProcess
<1>3. Sharing!Admit(p)
  BY <1>1, <1>2, SharingView DEF Sharing!Admit, States
<1> QED BY <1>3 DEF Sharing!CNext

\* Every step of the scheduler is a step of CpuSharing or changes nothing it sees.
THEOREM MLFQ_SharesCpu == Spec => SharesCpu
<1>1. Init => Sharing!CInit
  BY DEF Init, Sharing!CInit, Queued
<1>2. IInv /\ [Next]_vars => [Sharing!CNext]_(Sharing!cvars)
  <2> SUFFICES ASSUME IInv, [Next]_vars
               PROVE  Sharing!CNext \/ UNCHANGED Sharing!cvars
    OBVIOUS
  <2>1. CASE \E p \in Pids : AddProcess(p)
    BY <2>1, AddProcessShares
  <2>2. CASE YieldCurrent
    <3>1. CASE current = NoProc
      BY <2>2, <3>1, IdlePickShares DEF YieldCurrent
    <3>2. CASE current # NoProc
      BY <2>2, <3>2, YieldRequeues, RequeuesShares
    <3> QED BY <3>1, <3>2
  <2>3. CASE ScheduleNext
    <3>1. CASE current = NoProc
      BY <2>3, <3>1, IdlePickShares DEF ScheduleNext, IInv, TypeOK
    <3>2. CASE current # NoProc
      BY <2>3, <3>2, ScheduleRequeues, RequeuesShares
    <3> QED BY <3>1, <3>2
  <2>4. CASE ExitCurrent
    BY <2>4, ExitShares
  <2>5. CASE PromoteCurrent \/ TimerTick \/ MissedTick \/ UNCHANGED vars
    <3>1. IInv'
      BY <2>5, NextKeepsIInv DEF Next, CalledNext
    <3>2. UNCHANGED <<current, state>>
      BY <2>5 DEF PromoteCurrent, TimerTick, TickNoBoost, TickWithBoost, MissedTick, vars, procVars
    <3> QED BY <3>1, <3>2, StillShares
  <2> QED BY <2>1, <2>2, <2>3, <2>4, <2>5 DEF Next, CalledNext
<1> QED BY <1>1, <1>2, MLFQ_IInv, PTL DEF Spec, SharesCpu, Sharing!CSpec

-----------------------------------------------------------------------------
(* Time left and order of service.                                           *)

LEMMA ScannedAreLevels == \A n \in 2 .. MAX_LEVELS : 0 .. n - 1 \subseteq Levels
  BY DEF Levels, MAX_LEVELS

LEMMA AboveIsScanned ==
  \A n \in 2 .. MAX_LEVELS : \A l \in 0 .. n - 1 : \A k \in Levels : k < l => k \in 0 .. n - 1
  BY DEF Levels, MAX_LEVELS

LEMMA NotBothWays == \A l, k \in Levels : ~(k < l /\ l <= k)
  BY DEF Levels, MAX_LEVELS

\* Whoever pick_and_run serves has time left.
LEMMA ServedHasTime ==
  ASSUME NEW q, NEW st, NEW qr, RunsFrom(q, st, qr), current' # NoProc
  PROVE  quantum_remaining'[current'] # 0
<1>1. /\ PickAndRun(q, st, qr) /\ qr \in [Pids -> Nat] /\ q \in [Levels -> Seq(Pids)]
      /\ priority' \in [Pids -> Levels]
  BY DEF RunsFrom
<1>2. PICK active \in 2 .. MAX_LEVELS : active = active_levels'
  BY DEF RunsFrom
<1>3. PICK l \in 0 .. active - 1 :
        /\ q[l] # <<>> /\ current' = Head(q[l])
        /\ quantum_remaining' =
             [qr EXCEPT ![Head(q[l])] = QuantumFor(priority'[Head(q[l])], active_levels',
                                                   Count(queues', NoProc))]
  <2> DEFINE nonEmpty == {l \in ScannedLevels(active_levels') : q[l] # <<>>}
  <2>1. PICK l \in nonEmpty :
          LET p == Head(q[l]) IN
            /\ current' = p
            /\ quantum_remaining' =
                 [qr EXCEPT ![p] = QuantumFor(priority'[p], active_levels', Count(queues', NoProc))]
    <3> HIDE DEF nonEmpty
    <3>1. \/ current' = NoProc
          \/ \E l \in nonEmpty :
               LET p == Head(q[l]) IN
                 /\ current' = p
                 /\ quantum_remaining' =
                      [qr EXCEPT ![p] = QuantumFor(priority'[p], active_levels',
                                                   Count(queues', NoProc))]
      BY <1>1, Zenon DEF PickAndRun, nonEmpty
    <3> QED BY <3>1
  <2>2. l \in 0 .. active - 1 /\ q[l] # <<>>
    BY <1>2, <2>1 DEF ScannedLevels
  <2> QED BY <2>1, <2>2
<1>4. l \in Levels
  BY ScannedAreLevels
<1>5. Head(q[l]) \in Pids
  BY <1>1, <1>3, <1>4, HeadTailProperties
<1> DEFINE p == Head(q[l])
           n == Count(queues', NoProc)
           fresh == QuantumFor(priority'[p], active, n)
<1>6. n \in Nat
  <2>1. IInv'
    BY RunsFromEstablishesIInv
  <2> QED
    BY <2>1, CountIsNat DEF IInv, TypeOK
<1>7. priority'[p] \in Levels
  BY <1>1, <1>5
<1> HIDE DEF n
<1>8. fresh # 0
  BY <1>2, <1>6, <1>7, QuantumIsPositive
<1>9. quantum_remaining' = [qr EXCEPT ![p] = fresh]
  BY <1>2, <1>3 DEF n
<1> HIDE DEF fresh
<1>10. quantum_remaining'[p] = fresh
  BY <1>1, <1>5, <1>9
<1> QED BY <1>3, <1>8, <1>10

LEMMA TimeLeftStep == IInv /\ TimeLeft /\ [Next]_vars => TimeLeft'
<1> SUFFICES ASSUME IInv, TimeLeft, [Next]_vars, current' # NoProc
             PROVE  should_switch' <=> quantum_remaining'[current'] = 0
  BY DEF TimeLeft
<1>1. ASSUME NEW q, NEW st, NEW qr, RunsFrom(q, st, qr), ~should_switch'
      PROVE  should_switch' <=> quantum_remaining'[current'] = 0
  BY <1>1, ServedHasTime
<1>2. CASE YieldCurrent
  <2>1. ~should_switch'
    BY <1>2 DEF YieldCurrent
  <2>2. CASE current = NoProc
    <3>1. RunsFrom(queues, state, quantum_remaining)
      BY <1>2, <2>2, IdlePickRunsFrom DEF YieldCurrent
    <3> QED BY <1>1, <2>1, <3>1
  <2>3. CASE current # NoProc
    <3>1. \E q, qr : RunsFrom(q, [state EXCEPT ![current] = "Ready"], qr)
      BY <1>2, <2>3, YieldRequeues, RequeuesRunsFrom
    <3> QED BY <1>1, <2>1, <3>1
  <2> QED BY <2>2, <2>3
<1>3. CASE ScheduleNext
  <2>1. ~should_switch' /\ should_switch' \in BOOLEAN
    BY <1>3 DEF ScheduleNext, IInv, TypeOK
  <2>2. CASE current = NoProc
    <3>1. RunsFrom(queues, state, quantum_remaining)
      BY <1>3, <2>1, <2>2, IdlePickRunsFrom DEF ScheduleNext
    <3> QED BY <1>1, <2>1, <3>1
  <2>3. CASE current # NoProc
    <3>1. \E q, qr : RunsFrom(q, [state EXCEPT ![current] = "Ready"], qr)
      BY <1>3, <2>3, ScheduleRequeues, RequeuesRunsFrom
    <3> QED BY <1>1, <2>1, <3>1
  <2> QED BY <2>2, <2>3
<1>4. CASE ExitCurrent
  <2>1. ~should_switch'
    BY <1>4 DEF ExitCurrent
  <2> QED BY <1>1, <1>4, <2>1, ExitRunsFrom
<1>5. CASE TimerTick
  <2>1. current' = current /\ current # NoProc
    BY <1>5 DEF TimerTick, TickNoBoost, TickWithBoost
  <2>2. should_switch' = (quantum_remaining'[current] = 0)
    BY <1>5, <2>1 DEF TimerTick, TickNoBoost, TickWithBoost, ChargeTick
  <2> QED BY <2>1, <2>2
<1>6. CASE \/ \E p \in Pids : AddProcess(p)
           \/ PromoteCurrent \/ MissedTick \/ UNCHANGED vars
  <2>1. UNCHANGED <<current, should_switch, quantum_remaining>>
    BY <1>6 DEF AddProcess, PromoteCurrent, MissedTick, vars, procVars
  <2> QED BY <2>1 DEF TimeLeft
<1> QED BY <1>2, <1>3, <1>4, <1>5, <1>6 DEF Next, CalledNext

\* The owner of the CPU is out of time exactly when the switch is about to follow.
THEOREM MLFQ_TimeLeft == Spec => []TimeLeft
<1>1. Init => TimeLeft
  BY DEF Init, TimeLeft
<1> QED BY <1>1, TimeLeftStep, MLFQ_IInv, PTL DEF Spec

\* x comes before y in one queue.
Ahead(s, x, y) == \E i, j \in 1 .. Len(s) : i < j /\ s[i] = x /\ s[j] = y

\* x comes before y in the order in which the queues are scanned.
InOrder(q, x, y) ==
  \/ \E l \in Levels : Ahead(q[l], x, y)
  \/ \E k, l \in Levels : k < l /\ x \in Queued(q[k]) /\ y \in Queued(q[l])

LEMMA ConcatAhead ==
  ASSUME NEW s \in Seq(Pids), NEW t \in Seq(Pids), NEW x, NEW y
  PROVE  Ahead(s \o t, x, y) <=> \/ Ahead(s, x, y) \/ Ahead(t, x, y)
                                 \/ x \in Queued(s) /\ y \in Queued(t)
<1> DEFINE m == Len(s)
           n == Len(t)
           u == s \o t
<1>1. /\ m \in Nat /\ n \in Nat /\ Len(u) = m + n
      /\ \A i \in 1 .. m : u[i] = s[i]
      /\ \A i \in 1 .. n : u[m + i] = t[i]
  BY ConcatProperties
<1> HIDE DEF m, n, u
<1>2. Ahead(s, x, y) => Ahead(u, x, y)
  BY <1>1 DEF Ahead, m
<1>3. ASSUME NEW i \in 1 .. n, NEW j \in 1 .. n, i < j, t[i] = x, t[j] = y
      PROVE  Ahead(u, x, y)
  <2>1. m + i \in 1 .. Len(u) /\ m + j \in 1 .. Len(u) /\ m + i < m + j
    BY <1>1, <1>3
  <2> QED BY <1>1, <1>3, <2>1 DEF Ahead
<1>4. ASSUME NEW i \in 1 .. m, NEW j \in 1 .. n, s[i] = x, t[j] = y
      PROVE  Ahead(u, x, y)
  <2>1. i \in 1 .. Len(u) /\ m + j \in 1 .. Len(u) /\ i < m + j
    BY <1>1
  <2> QED BY <1>1, <1>4, <2>1 DEF Ahead
<1>5. ASSUME NEW i \in 1 .. Len(u), NEW j \in 1 .. Len(u), i < j, u[i] = x, u[j] = y
      PROVE  \/ Ahead(s, x, y) \/ Ahead(t, x, y)
             \/ x \in Queued(s) /\ y \in Queued(t)
  <2>1. CASE j <= m
    <3>1. i \in 1 .. m /\ j \in 1 .. m
      BY <1>1, <1>5, <2>1
    <3>2. s[i] = x /\ s[j] = y
      BY <1>1, <1>5, <3>1
    <3> QED BY <1>5, <3>1, <3>2 DEF Ahead, m
  <2>2. CASE i > m
    <3>1. i - m \in 1 .. n /\ j - m \in 1 .. n /\ i - m < j - m
          /\ i = m + (i - m) /\ j = m + (j - m)
      BY <1>1, <1>5, <2>2
    <3>2. t[i - m] = x /\ t[j - m] = y
      BY <1>1, <1>5, <3>1
    <3> QED BY <3>1, <3>2 DEF Ahead, n
  <2>3. CASE i <= m /\ j > m
    <3>1. i \in 1 .. m /\ j - m \in 1 .. n /\ j = m + (j - m)
      BY <1>1, <2>3
    <3>2. s[i] = x /\ t[j - m] = y
      BY <1>1, <1>5, <3>1
    <3> QED BY <3>1, <3>2 DEF Queued, m, n
  <2> QED BY <1>1, <2>1, <2>2, <2>3
<1>6. Ahead(t, x, y) => Ahead(u, x, y)
  BY <1>3 DEF Ahead, n
<1>7. x \in Queued(s) /\ y \in Queued(t) => Ahead(u, x, y)
  BY <1>4 DEF Queued, m, n
<1>8. Ahead(u, x, y) => \/ Ahead(s, x, y) \/ Ahead(t, x, y)
                        \/ x \in Queued(s) /\ y \in Queued(t)
  BY <1>5 DEF Ahead
<1> QED BY <1>2, <1>6, <1>7, <1>8 DEF u

\* The order of the scan is the order in the queue a boost would make.
LEMMA MergedAhead ==
  ASSUME NEW q \in [Levels -> Seq(Pids)], NEW x, NEW y
  PROVE  Ahead(q[0] \o q[1] \o q[2] \o q[3], x, y) <=> InOrder(q, x, y)
<1>1. /\ 0 \in Levels /\ 1 \in Levels /\ 2 \in Levels /\ 3 \in Levels
      /\ \A l \in Levels : l = 0 \/ l = 1 \/ l = 2 \/ l = 3
  BY DEF Levels, MAX_LEVELS
<1>2. /\ q[0] \in Seq(Pids) /\ q[1] \in Seq(Pids) /\ q[2] \in Seq(Pids) /\ q[3] \in Seq(Pids)
  BY <1>1
<1> DEFINE a == q[0] \o q[1]
           b == a \o q[2]
           c == b \o q[3]
<1>3. /\ a \in Seq(Pids) /\ Queued(a) = Queued(q[0]) \cup Queued(q[1])
      /\ Ahead(a, x, y) <=> \/ Ahead(q[0], x, y) \/ Ahead(q[1], x, y)
                            \/ x \in Queued(q[0]) /\ y \in Queued(q[1])
  BY <1>2, ConcatQueued, ConcatAhead
<1> HIDE DEF a
<1>4. /\ b \in Seq(Pids) /\ Queued(b) = Queued(a) \cup Queued(q[2])
      /\ Ahead(b, x, y) <=> \/ Ahead(a, x, y) \/ Ahead(q[2], x, y)
                            \/ x \in Queued(a) /\ y \in Queued(q[2])
  BY <1>2, <1>3, ConcatQueued, ConcatAhead
<1> HIDE DEF b
<1>5. Ahead(c, x, y) <=> \/ Ahead(b, x, y) \/ Ahead(q[3], x, y)
                         \/ x \in Queued(b) /\ y \in Queued(q[3])
  BY <1>2, <1>4, ConcatAhead
<1>6. (\E l \in Levels : Ahead(q[l], x, y)) <=>
        Ahead(q[0], x, y) \/ Ahead(q[1], x, y) \/ Ahead(q[2], x, y) \/ Ahead(q[3], x, y)
  BY <1>1
<1>7. (\E k, l \in Levels : k < l /\ x \in Queued(q[k]) /\ y \in Queued(q[l])) <=>
        \/ x \in Queued(q[0]) /\ (y \in Queued(q[1]) \/ y \in Queued(q[2]) \/ y \in Queued(q[3]))
        \/ x \in Queued(q[1]) /\ (y \in Queued(q[2]) \/ y \in Queued(q[3]))
        \/ x \in Queued(q[2]) /\ y \in Queued(q[3])
  <2> DEFINE I(k) == x \in Queued(q[k])
             J(l) == y \in Queued(q[l])
  <2> HIDE DEF I, J
  <2>1. (\E k, l \in Levels : k < l /\ I(k) /\ J(l)) <=>
           \/ I(0) /\ (J(1) \/ J(2) \/ J(3))
           \/ I(1) /\ (J(2) \/ J(3))
           \/ I(2) /\ J(3)
    <3>1. ASSUME NEW k \in Levels, NEW l \in Levels, k < l
          PROVE  \/ k = 0 /\ (l = 1 \/ l = 2 \/ l = 3)
                 \/ k = 1 /\ (l = 2 \/ l = 3)
                 \/ k = 2 /\ l = 3
      BY <1>1, <3>1 DEF Levels, MAX_LEVELS
    <3>2. ASSUME NEW k \in Levels, NEW l \in Levels, k < l, I(k), J(l)
          PROVE  \/ I(0) /\ (J(1) \/ J(2) \/ J(3))
                 \/ I(1) /\ (J(2) \/ J(3))
                 \/ I(2) /\ J(3)
      BY <3>1, <3>2, Zenon
    <3>3. 0 < 1 /\ 0 < 2 /\ 0 < 3 /\ 1 < 2 /\ 1 < 3 /\ 2 < 3
      OBVIOUS
    <3>4. ASSUME \/ I(0) /\ (J(1) \/ J(2) \/ J(3))
                 \/ I(1) /\ (J(2) \/ J(3))
                 \/ I(2) /\ J(3)
          PROVE  \E k, l \in Levels : k < l /\ I(k) /\ J(l)
      BY <1>1, <3>3, <3>4, Zenon
    <3> QED BY <3>2, <3>4, Zenon
  <2> QED BY <2>1 DEF I, J
<1>8. Ahead(c, x, y) <=> InOrder(q, x, y)
  BY <1>3, <1>4, <1>5, <1>6, <1>7 DEF InOrder
<1> QED BY <1>8 DEF a, b, c

LEMMA BeforeIsInOrder ==
  /\ queues \in [Levels -> Seq(Pids)] => \A x, y : Before(x, y) <=> InOrder(queues, x, y)
  /\ queues' \in [Levels -> Seq(Pids)] => \A x, y : Before(x, y)' <=> InOrder(queues', x, y)
<1>1. 0 \in Levels
  BY DEF Levels, MAX_LEVELS
<1>2. /\ BoostedQueues[0] = queues[0] \o queues[1] \o queues[2] \o queues[3]
      /\ BoostedQueues'[0] = queues'[0] \o queues'[1] \o queues'[2] \o queues'[3]
  BY <1>1 DEF BoostedQueues
<1>3. ASSUME NEW x, NEW y
      PROVE  /\ Before(x, y) <=> Ahead(BoostedQueues[0], x, y)
             /\ Before(x, y)' <=> Ahead(BoostedQueues'[0], x, y)
  BY DEF Before, Ahead
<1> QED BY <1>2, <1>3, MergedAhead

\* push_back keeps the order of those who wait.
LEMMA AppendKeepsOrder ==
  ASSUME NEW q \in [Levels -> Seq(Pids)], NEW level \in Levels, NEW p \in Pids,
         NEW x, NEW y, InOrder(q, x, y)
  PROVE  InOrder([q EXCEPT ![level] = Append(@, p)], x, y)
<1> DEFINE longer == Append(q[level], p)
           r == [q EXCEPT ![level] = longer]
<1>1. /\ r[level] = longer
      /\ \A l \in Levels \ {level} : r[l] = q[l]
  OBVIOUS
<1>2. /\ Len(longer) = Len(q[level]) + 1 /\ Len(q[level]) \in Nat
      /\ \A i \in 1 .. Len(q[level]) : longer[i] = q[level][i]
      /\ Queued(longer) = Queued(q[level]) \cup {p}
  BY AppendQueued, AppendProperties
<1> HIDE DEF longer, r
<1>3. Ahead(q[level], x, y) => Ahead(longer, x, y)
  BY <1>2 DEF Ahead
<1>4. \A l \in Levels : Queued(q[l]) \subseteq Queued(r[l]) /\ (Ahead(q[l], x, y) => Ahead(r[l], x, y))
  BY <1>1, <1>2, <1>3
<1>5. InOrder(r, x, y)
  BY <1>4 DEF InOrder
<1> QED BY <1>5 DEF r, longer

\* pick_and_run serves nobody before those who come before him.
LEMMA PickKeepsOrder ==
  ASSUME NEW q, NEW st, NEW qr, RunsFrom(q, st, qr), NEW x \in Pids, NEW y, InOrder(q, x, y)
  PROVE  InOrder(queues', x, y) \/ state'[x] # "Ready"
<1>1. /\ PickAndRun(q, st, qr) /\ Placed(q, NoProc, st)
      /\ q \in [Levels -> Seq(Pids)] /\ st \in [Pids -> States]
  BY DEF RunsFrom
<1>2. PICK active \in 2 .. MAX_LEVELS : active = active_levels'
  BY DEF RunsFrom
<1>3. CASE queues' = q
  BY <1>3
<1>4. ASSUME NEW l \in 0 .. active - 1, q[l] # <<>>,
             \A k \in 0 .. active - 1 : q[k] # <<>> => l <= k,
             queues' = [q EXCEPT ![l] = Tail(@)],
             state' = [st EXCEPT ![Head(q[l])] = "Running"]
      PROVE  InOrder(queues', x, y) \/ state'[x] # "Ready"
  <2> DEFINE p == Head(q[l])
             s == q[l]
             t == Tail(q[l])
  <2>1. l \in Levels /\ s \in Seq(Pids) /\ NoDup(s)
    <3>1. l \in Levels
      BY ScannedAreLevels
    <3> QED BY <1>1, <3>1 DEF Placed
  <2>2. p \in Pids /\ p \in Queued(s) /\ Queued(t) = Queued(s) \ {p} /\ t \in Seq(Pids)
    BY <1>4, <2>1, TailQueued
  <2>3. /\ Len(s) \in Nat \ {0} /\ Len(t) = Len(s) - 1
        /\ \A i \in 1 .. Len(s) - 1 : t[i] = s[i + 1]
        /\ p = s[1]
    BY <1>4, <2>1, HeadTailProperties, EmptySeq
  <2>4. CASE x = p
    BY <1>1, <1>4, <2>4
  <2>5. CASE x # p
    <3>1. y # p
      <4> SUFFICES ASSUME y = p PROVE FALSE
        OBVIOUS
      <4>1. \A k \in Levels : p \in Queued(q[k]) => k = l
        BY <1>1, <2>1, <2>2 DEF Placed
      <4>2. ASSUME NEW m \in Levels, Ahead(q[m], x, p) PROVE FALSE
        <5>1. PICK i, j \in 1 .. Len(q[m]) : i < j /\ q[m][i] = x /\ q[m][j] = p
          BY <4>2 DEF Ahead
        <5>2. m = l
          BY <4>1, <5>1 DEF Queued
        <5>3. j = 1
          BY <2>1, <2>3, <5>1, <5>2 DEF NoDup
        <5> QED BY <5>1, <5>2, <5>3, <2>3
      <4>3. ASSUME NEW k \in Levels, NEW m \in Levels, k < m,
                   x \in Queued(q[k]), p \in Queued(q[m])
            PROVE  FALSE
        <5>1. m = l
          BY <4>1, <4>3
        <5>2. k \in 0 .. active - 1
          BY <4>3, <5>1, AboveIsScanned
        <5>3. q[k] # <<>>
          BY <4>3 DEF Queued
        <5>4. l <= k
          BY <1>4, <5>2, <5>3
        <5> QED BY <2>1, <4>3, <5>1, <5>4, NotBothWays
      <4> QED BY <4>2, <4>3 DEF InOrder
    <3>2. Ahead(s, x, y) => Ahead(t, x, y)
      <4> SUFFICES ASSUME NEW i \in 1 .. Len(s), NEW j \in 1 .. Len(s), i < j, s[i] = x, s[j] = y
                   PROVE  Ahead(t, x, y)
        BY DEF Ahead
      <4>1. i # 1
        BY <2>3, <2>5
      <4>2. i - 1 \in 1 .. Len(t) /\ j - 1 \in 1 .. Len(t) /\ i - 1 < j - 1
        BY <2>3, <4>1
      <4>3. t[i - 1] = x /\ t[j - 1] = y
        BY <2>3, <4>1, <4>2
      <4> QED BY <4>2, <4>3 DEF Ahead
    <3>3. /\ queues'[l] = t
          /\ \A k \in Levels \ {l} : queues'[k] = q[k]
      BY <1>1, <1>4, <2>1
    <3>4. \A k \in Levels : /\ Ahead(q[k], x, y) => Ahead(queues'[k], x, y)
                            /\ x \in Queued(q[k]) => x \in Queued(queues'[k])
                            /\ y \in Queued(q[k]) => y \in Queued(queues'[k])
      BY <2>2, <2>5, <3>1, <3>2, <3>3
    <3>5. InOrder(queues', x, y)
      BY <3>4 DEF InOrder
    <3> QED BY <3>5
  <2> QED BY <2>4, <2>5
<1>5. \/ queues' = q
      \/ \E l \in 0 .. active - 1 :
           /\ q[l] # <<>> /\ \A k \in 0 .. active - 1 : q[k] # <<>> => l <= k
           /\ queues' = [q EXCEPT ![l] = Tail(@)]
           /\ state' = [st EXCEPT ![Head(q[l])] = "Running"]
  BY <1>1, <1>2 DEF PickAndRun, ScannedLevels
<1> QED BY <1>3, <1>4, <1>5

\* A yield with a process on the CPU puts it behind those of its level.
LEMMA RequeuesKeepsOrder ==
  ASSUME IInv, NEW prio, NEW qr, Requeues(prio, qr),
         NEW x \in Pids, NEW y, InOrder(queues, x, y)
  PROVE  InOrder(queues', x, y) \/ state'[x] # "Ready"
<1>1. PICK q : /\ RunsFrom(q, [state EXCEPT ![current] = "Ready"], qr)
               /\ q = [queues EXCEPT ![QueueLevel(prio)] = Append(@, current)]
  BY RequeuesRunsFrom
<1>2. current \in Pids /\ queues \in [Levels -> Seq(Pids)] /\ QueueLevel(prio) \in Levels
  <2>1. active_levels \in 2 .. 4 /\ prio \in 0 .. 3
    BY DEF IInv, TypeOK, Requeues, Levels, MAX_LEVELS
  <2> QED BY <2>1 DEF IInv, TypeOK, Requeues, QueueLevel, AtMost, Levels, MAX_LEVELS
<1>3. InOrder(q, x, y)
  BY <1>1, <1>2, AppendKeepsOrder
<1> QED BY <1>1, <1>3, PickKeepsOrder

\* Nobody is overtaken: not by a yield, an exit or a newcomer, and not in a boost.
THEOREM MLFQ_NoOvertaking == Spec => NoOvertaking
<1> DEFINE A == \A p, q \in Pids : Before(p, q) => Before(p, q)' \/ state'[p] # "Ready"
<1>1. IInv /\ [Next]_vars => A
  <2> SUFFICES ASSUME IInv, [Next]_vars, NEW x \in Pids, NEW y \in Pids, Before(x, y)
               PROVE  Before(x, y)' \/ state'[x] # "Ready"
    OBVIOUS
  <2> DEFINE Goal == InOrder(queues', x, y) \/ state'[x] # "Ready"
  <2>1. /\ queues \in [Levels -> Seq(Pids)] /\ queues' \in [Levels -> Seq(Pids)]
        /\ InOrder(queues, x, y)
    <3>1. IInv'
      BY NextKeepsIInv
    <3> QED BY <3>1, BeforeIsInOrder DEF IInv, TypeOK
  <2>2. ASSUME NEW p \in Pids, AddProcess(p) PROVE Goal
    <3>1. 0 \in Levels /\ queues' = [queues EXCEPT ![0] = Append(@, p)]
      BY <2>2 DEF AddProcess, Levels, MAX_LEVELS
    <3> QED BY <2>1, <3>1, AppendKeepsOrder
  <2>3. ASSUME YieldCurrent PROVE Goal
    <3>1. CASE current = NoProc
      <4>1. RunsFrom(queues, state, quantum_remaining)
        BY <2>3, <3>1, IdlePickRunsFrom DEF YieldCurrent
      <4> QED BY <2>1, <4>1, PickKeepsOrder
    <3>2. CASE current # NoProc
      BY <2>1, <2>3, <3>2, YieldRequeues, RequeuesKeepsOrder
    <3> QED BY <3>1, <3>2
  <2>4. ASSUME ScheduleNext PROVE Goal
    <3>1. CASE current = NoProc
      <4>1. should_switch' \in BOOLEAN
        BY <2>4 DEF ScheduleNext, IInv, TypeOK
      <4>2. RunsFrom(queues, state, quantum_remaining)
        BY <2>4, <3>1, <4>1, IdlePickRunsFrom DEF ScheduleNext
      <4> QED BY <2>1, <4>2, PickKeepsOrder
    <3>2. CASE current # NoProc
      BY <2>1, <2>4, <3>2, ScheduleRequeues, RequeuesKeepsOrder
    <3> QED BY <3>1, <3>2
  <2>5. ASSUME ExitCurrent PROVE Goal
    BY <2>1, <2>5, ExitRunsFrom, PickKeepsOrder
  <2>6. ASSUME PromoteCurrent \/ TickNoBoost \/ MissedTick \/ UNCHANGED vars PROVE Goal
    <3>1. queues' = queues
      BY <2>6 DEF PromoteCurrent, TickNoBoost, MissedTick, vars
    <3> QED BY <2>1, <3>1
  <2>7. ASSUME TickWithBoost PROVE Goal
    <3>1. 0 \in Levels /\ queues' = BoostedQueues
      BY <2>7 DEF TickWithBoost, Levels, MAX_LEVELS
    <3>2. queues'[0] = queues[0] \o queues[1] \o queues[2] \o queues[3]
      BY <3>1 DEF BoostedQueues
    <3>3. Ahead(queues'[0], x, y)
      BY <2>1, <3>2, MergedAhead
    <3> QED BY <3>1, <3>3 DEF InOrder
  <2> HIDE DEF Goal
  <2>8. Goal
    BY <2>2, <2>3, <2>4, <2>5, <2>6, <2>7 DEF Next, CalledNext, TimerTick
  <2> QED BY <2>1, <2>8, BeforeIsInOrder DEF Goal
<1>2. Spec => [][A]_vars
  <2> HIDE DEF A
  <2> QED BY <1>1, MLFQ_IInv, PTL DEF Spec
<1> QED BY <1>2 DEF NoOvertaking

-----------------------------------------------------------------------------
(* The kernel around the scheduler.                                          *)

\* The kernel reaches the scheduler through its methods only: whatever MLFQ
\* guarantees holds in the running system.
THEOREM Dispatch_DrivesMLFQ == KSpec => Spec
<1>1. KInit => Init
  BY DEF KInit
<1>2. [KNext]_kernelVars => [Next]_vars
  <2> SUFFICES ASSUME [KNext]_kernelVars PROVE Next \/ UNCHANGED vars
    OBVIOUS
  <2>1. CASE \E p \in Pids : Spawn(p)
    BY <2>1 DEF Spawn, Next, CalledNext
  <2>2. CASE BootYield \/ TimerPreempt \/ SyscallYield
    BY <2>2 DEF BootYield, TimerPreempt, SyscallYield, SysYield, Next, CalledNext
  <2>3. CASE TimerInterrupt
    BY <2>3 DEF TimerInterrupt, Next, CalledNext
  <2>4. CASE SyscallExit
    BY <2>4 DEF SyscallExit, Next, CalledNext
  <2>5. CASE PsLock \/ PsUnlock \/ SyscallReturn \/ UNCHANGED kernelVars
    BY <2>5 DEF PsLock, PsUnlock, SyscallReturn, kernelVars
  <2> QED BY <2>1, <2>2, <2>3, <2>4, <2>5 DEF KNext
<1> QED BY <1>1, <1>2, PTL DEF KSpec, Spec

-----------------------------------------------------------------------------
\* A switch through sys_yield: the lock is free before and after, and the page
\* table follows the owner of the CPU.
LEMMA SysYieldKeeps ==
  ASSUME SysYield, AddressSpaceOfCurrent
  PROVE  LockHolderStays' /\ AddressSpaceOfCurrent'
<1>1. ~sched_lock' /\ ~should_switch'
  BY DEF SysYield, YieldCurrent
<1>2. AddressSpaceOfCurrent'
  BY DEF SysYield, ContextSwitch, AddressSpaceOfCurrent
<1> QED BY <1>1, <1>2 DEF LockHolderStays

LEMMA TimerKeepsOwner ==
  ASSUME TimerTick \/ MissedTick
  PROVE  current' = current
  BY DEF TimerTick, TickNoBoost, TickWithBoost, MissedTick

LEMMA KNextKeeps ==
  ASSUME LockHolderStays, AddressSpaceOfCurrent, [KNext]_kernelVars
  PROVE  LockHolderStays' /\ AddressSpaceOfCurrent'
<1>1. CASE \E p \in Pids : Spawn(p)
  BY <1>1 DEF Spawn, AddProcess, cpu, LockHolderStays, AddressSpaceOfCurrent
<1>2. CASE BootYield \/ TimerPreempt \/ SyscallYield
  BY <1>2, SysYieldKeeps DEF BootYield, TimerPreempt, SyscallYield
<1>3. CASE PsLock \/ PsUnlock \/ SyscallReturn \/ UNCHANGED kernelVars
  BY <1>3 DEF PsLock, PsUnlock, SyscallReturn, Idle, kernelVars, vars, cpu,
     LockHolderStays, AddressSpaceOfCurrent
<1>4. CASE TimerInterrupt
  <2>1. LockHolderStays'
    <3>1. CASE sched_lock
      BY <1>4, <3>1 DEF TimerInterrupt, MissedTick, Idle, cpu, LockHolderStays
    <3>2. CASE ~sched_lock
      BY <1>4, <3>2 DEF TimerInterrupt, LockHolderStays
    <3> QED BY <3>1, <3>2
  <2>2. AddressSpaceOfCurrent'
    BY <1>4, TimerKeepsOwner DEF TimerInterrupt, cpu, AddressSpaceOfCurrent
  <2> QED BY <2>1, <2>2
<1>5. CASE SyscallExit
  <2>1. LockHolderStays'
    BY <1>5 DEF SyscallExit, LockHolderStays
  <2>2. AddressSpaceOfCurrent'
    BY <1>5 DEF SyscallExit, SwitchWithoutSaving, cpu, AddressSpaceOfCurrent
  <2> QED BY <2>1, <2>2
<1> QED BY <1>1, <1>2, <1>3, <1>4, <1>5 DEF KNext

\* No context that holds SCHEDULER is ever switched away from, so the spinning
\* lock of sys_yield, taken with interrupts masked, is free.
THEOREM Dispatch_LockHolderStays == KSpec => []LockHolderStays
<1>1. KInit => LockHolderStays /\ AddressSpaceOfCurrent
  BY DEF KInit, Init, LockHolderStays, AddressSpaceOfCurrent
<1> QED BY <1>1, KNextKeeps, PTL DEF KSpec

\* The page table in cr3 is the one of the process the scheduler runs.
THEOREM Dispatch_AddressSpaceOfCurrent == KSpec => []AddressSpaceOfCurrent
<1>1. KInit => LockHolderStays /\ AddressSpaceOfCurrent
  BY DEF KInit, Init, LockHolderStays, AddressSpaceOfCurrent
<1> QED BY <1>1, KNextKeeps, PTL DEF KSpec

\* As the kernel only calls the scheduler, its processes too have time left when and only
\* when no switch is about to follow.
THEOREM Dispatch_TimeLeft == KSpec => []TimeLeft
  BY Dispatch_DrivesMLFQ, MLFQ_TimeLeft, PTL
=============================================================================
