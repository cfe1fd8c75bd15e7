---------------------------- MODULE Memory_proofs ----------------------------
(***************************************************************************)
(* Frames, contents, images and areas, for every memory map whose regions  *)
(* do not overlap, any image whose segments' data is on pages of their own *)
(* and any number of processes and areas:                                  *)
(*   - no frame has two uses (FramesInv is inductive);                     *)
(*   - types, ranges and the order of areas (MemoryTypes);                 *)
(*   - what processes see is what AddressSpaces promises: every step maps  *)
(*     to a step of it or to none;                                         *)
(*   - boot leaves every image complete (Progress);                        *)
(*   - page-table entries agree with areas (Agree), pages that are not     *)
(*     writable hold zeros (ReadAreZero), and a fault that finds no frame  *)
(*     finds none left (OutOfFramesThen), so that a fault that an area     *)
(*     allows stops the machine only where LegalAccessSurvives says so.    *)
(***************************************************************************)
EXTENDS Memory, TLAPS, FiniteSetTheorems, WellFoundedInduction, SequenceTheorems

\* f is a frame of region r.
InRegion(f, r) ==
  /\ f \in Nat
  /\ MemoryMap[r].start <= f /\ f + FrameSize <= MemoryMap[r].end

\* The allocator a has f behind it: in a region it has left, or below next_addr.
Behind(a, f) ==
  \E r \in 1 .. Len(MemoryMap) :
    /\ InRegion(f, r)
    /\ r < a.region_idx \/ (r = a.region_idx /\ f + FrameSize <= a.next_addr)

\* What is true of the allocator: it never looks below the region it is in.
AllocatorOK(a) ==
  /\ a \in [region_idx : Nat \ {0}, next_addr : Nat]
  /\ a.region_idx <= Len(MemoryMap) => MemoryMap[a.region_idx].start <= a.next_addr

\* What the allocator a has handed out and the places in uses agree: a frame in use is
\* behind the allocator, and has one use.
Owned(a, uses) ==
  /\ AllocatorOK(a)
  /\ uses \in [Places -> Nat \cup {NoFrame}]
  /\ \A pl \in Places : uses[pl] # NoFrame => Behind(a, uses[pl])
  /\ \A pl, other \in Places : uses[pl] # NoFrame /\ uses[pl] = uses[other] => pl = other

\* The inductive invariant.
FramesInv == Owned(allocator, frame_at)

-----------------------------------------------------------------------------
(* Induction over numbers.  The library's theorems about it take an operator; *)
(* what they rest on, that a set of numbers has a least one, does not.        *)

LEMMA LessThanWellFounded ==
  \E R : IsWellFoundedOn(R, Nat) /\ \A x, y \in Nat : y < x => <<y, x>> \in R
<1>1. \A x, y \in Nat : y < x => <<y, x>> \in OpToRel(<, Nat)
  BY DEF OpToRel
<1> QED
  BY <1>1, NatLessThanWellFounded, Zenon

LEMMA LeastNat ==
  ASSUME NEW S \in SUBSET Nat, S # {}
  PROVE  \E n \in S : \A m \in S : n <= m
<1>1. PICK R : IsWellFoundedOn(R, Nat) /\ \A x, y \in Nat : y < x => <<y, x>> \in R
  BY LessThanWellFounded
<1>2. PICK n \in S : \A m \in S : <<m, n>> \notin R
  BY <1>1, WFMin
<1>3. ASSUME NEW m \in S PROVE n <= m
  <2>1. n \in Nat /\ m \in Nat
    OBVIOUS
  <2>2. ~(m < n)
    BY <1>1, <1>2, <2>1
  <2> QED
    BY <2>1, <2>2
<1> QED
  BY <1>3

-----------------------------------------------------------------------------
LEMMA AlignUpAbove == ASSUME NEW x \in Nat
                      PROVE  AlignUp(x) \in Nat /\ x <= AlignUp(x)
<1> DEFINE y == x + FrameSize - 1
<1>1. FrameSize \in Nat /\ FrameSize > 0
  BY MapAssumption
<1>2. /\ y \in Nat /\ y \div FrameSize \in Nat /\ y % FrameSize \in 0 .. FrameSize - 1
      /\ y = FrameSize * (y \div FrameSize) + (y % FrameSize)
  BY <1>1
<1> HIDE DEF y
<1>3. (y \div FrameSize) * FrameSize = y - (y % FrameSize) /\ (y \div FrameSize) * FrameSize \in Nat
  BY <1>1, <1>2
<1>4. (y \div FrameSize) * FrameSize >= y - (FrameSize - 1)
  BY <1>1, <1>2, <1>3
<1>5. AlignUp(x) = (y \div FrameSize) * FrameSize
  BY DEF AlignUp, y
<1> QED
  BY <1>1, <1>3, <1>4, <1>5 DEF y

LEMMA RegionType == ASSUME NEW r \in 1 .. Len(MemoryMap)
                    PROVE  /\ MemoryMap[r].start \in Nat /\ MemoryMap[r].end \in Nat
                           /\ \A q \in 1 .. Len(MemoryMap) \ {r} :
                                \/ MemoryMap[q].end <= MemoryMap[r].start
                                \/ MemoryMap[r].end <= MemoryMap[q].start
<1>1. MemoryMap \in Seq([start : Nat, end : Nat, usable : BOOLEAN])
  BY MapAssumption
<1>2. MemoryMap[r] \in [start : Nat, end : Nat, usable : BOOLEAN]
  BY <1>1, ElementOfSeq
<1>3. \A q \in 1 .. Len(MemoryMap) \ {r} :
        MemoryMap[q].end <= MemoryMap[r].start \/ MemoryMap[r].end <= MemoryMap[q].start
  BY MapAssumption
<1> QED
  BY <1>2, <1>3

LEMMA Sizes == Len(MemoryMap) \in Nat /\ FrameSize \in Nat /\ FrameSize > 0
BY MapAssumption, LenProperties

LEMMA NextAddrAbove == ASSUME NEW a, AllocatorOK(a), NEW r \in Fitting(a)
                       PROVE  /\ r \in 1 .. Len(MemoryMap) /\ a.region_idx <= r
                              /\ InRegion(NextAddr(a, r), r)
<1>1. r \in 1 .. Len(MemoryMap) /\ a.region_idx <= r /\ Len(MemoryMap) \in Nat
  BY MapAssumption DEF Fitting, AllocatorOK
<1>2. NextAddr(a, r) \in Nat /\ MemoryMap[r].start <= NextAddr(a, r)
  <2>1. CASE r = a.region_idx
    BY <1>1, <2>1 DEF NextAddr, AllocatorOK
  <2>2. CASE r # a.region_idx
    BY <1>1, <2>2, RegionType, AlignUpAbove DEF NextAddr
  <2> QED
    BY <2>1, <2>2
<1> QED
  BY <1>1, <1>2 DEF InRegion, Fitting

LEMMA FirstFitFits == ASSUME NEW a, AllocatorOK(a), Fitting(a) # {}
                      PROVE  FirstFit(a) \in Fitting(a)
<1>1. Fitting(a) \subseteq Nat
  BY Sizes DEF Fitting, AllocatorOK
<1>2. \E r \in Fitting(a) : \A q \in Fitting(a) : r <= q
  BY <1>1, LeastNat
<1> QED
  BY <1>2 DEF FirstFit

\* One call of allocate_frame that returns a frame.
LEMMA AllocateFresh ==
  ASSUME NEW a, AllocatorOK(a), FrameOf(a) # NoFrame
  PROVE  /\ Behind(After(a), FrameOf(a))
         /\ \A g : Behind(a, g) => g # FrameOf(a)
<1> DEFINE r == FirstFit(a)
           f == NextAddr(a, r)
<1>1. Fitting(a) # {} /\ FrameOf(a) = f
      /\ After(a) = [region_idx |-> r, next_addr |-> f + FrameSize]
  BY DEF FrameOf, After
<1>2. r \in Fitting(a) /\ r \in 1 .. Len(MemoryMap) /\ a.region_idx <= r /\ InRegion(f, r)
  BY <1>1, FirstFitFits, NextAddrAbove
<1>3. Behind(After(a), f)
  <2>1. After(a).region_idx = r /\ After(a).next_addr = f + FrameSize
    BY <1>1
  <2>2. InRegion(f, r) /\ f + FrameSize <= f + FrameSize
    BY <1>2, Sizes DEF InRegion
  <2> HIDE DEF r, f
  <2> QED
    BY <1>2, <2>1, <2>2 DEF Behind
<1>4. ASSUME NEW g, Behind(a, g)
      PROVE  g # f
  <2>1. PICK s \in 1 .. Len(MemoryMap) :
          /\ InRegion(g, s)
          /\ s < a.region_idx \/ (s = a.region_idx /\ g + FrameSize <= a.next_addr)
    BY <1>4 DEF Behind
  <2>2. CASE s = r
    <3>1. f = a.next_addr /\ g + FrameSize <= f
      BY <1>2, <2>1, <2>2, Sizes DEF NextAddr, AllocatorOK
    <3> QED
      BY <2>1, <3>1, Sizes DEF InRegion
  <2>3. CASE s # r
    <3> HIDE DEF r, f
    <3>1. MemoryMap[s].end <= MemoryMap[r].start \/ MemoryMap[r].end <= MemoryMap[s].start
      BY <1>2, <2>3, RegionType
    <3>2. /\ MemoryMap[s].start \in Nat /\ MemoryMap[s].end \in Nat
          /\ MemoryMap[r].start \in Nat /\ MemoryMap[r].end \in Nat
      BY <1>2, RegionType
    <3> QED
      BY <1>2, <2>1, <3>1, <3>2, Sizes, SMTT(30) DEF InRegion
  <2> QED
    BY <2>2, <2>3
<1> QED
  BY <1>1, <1>3, <1>4

\* Any call keeps what is behind the allocator behind it.
LEMMA AllocateKeeps ==
  ASSUME NEW a, AllocatorOK(a)
  PROVE  /\ AllocatorOK(After(a))
         /\ \A g : Behind(a, g) => Behind(After(a), g)
<1>1. CASE Fitting(a) = {}
  <2>1. After(a) = [a EXCEPT !.region_idx = Len(MemoryMap) + 1] /\ Len(MemoryMap) \in Nat
    BY <1>1, MapAssumption DEF After
  <2> QED
    BY <2>1 DEF AllocatorOK, Behind
<1>2. CASE Fitting(a) # {}
  <2> DEFINE r == FirstFit(a)
             f == NextAddr(a, r)
  <2>1. After(a) = [region_idx |-> r, next_addr |-> f + FrameSize]
    BY <1>2 DEF After
  <2>2. r \in 1 .. Len(MemoryMap) /\ a.region_idx <= r /\ InRegion(f, r)
    BY <1>2, FirstFitFits, NextAddrAbove
  <2>3. r = a.region_idx => f = a.next_addr
    BY DEF NextAddr
  <2>4. AllocatorOK(After(a))
    BY <2>1, <2>2, RegionType, MapAssumption, SMTT(30) DEF AllocatorOK, InRegion
  <2>5. ASSUME NEW g, Behind(a, g)
        PROVE  Behind(After(a), g)
    <3>1. PICK s \in 1 .. Len(MemoryMap) :
            /\ InRegion(g, s)
            /\ s < a.region_idx \/ (s = a.region_idx /\ g + FrameSize <= a.next_addr)
      BY <2>5 DEF Behind
    <3>2. After(a).region_idx = r /\ After(a).next_addr = f + FrameSize
      BY <2>1
    <3>3. s < r \/ (s = r /\ g + FrameSize <= f + FrameSize)
      BY <2>2, <2>3, <3>1, MapAssumption, SMTT(30) DEF AllocatorOK, InRegion
    <3> QED
      BY <3>1, <3>2, <3>3 DEF Behind
  <2> QED
    BY <2>4, <2>5
<1> QED
  BY <1>1, <1>2

\* A fresh frame for a place, and a place that gives up its frame.
LEMMA OwnedPlace ==
  ASSUME NEW a, NEW uses, Owned(a, uses), NEW pl, FrameOf(a) # NoFrame
  PROVE  Owned(After(a), [uses EXCEPT ![pl] = FrameOf(a)])
<1> DEFINE f == FrameOf(a)
           new == [uses EXCEPT ![pl] = f]
<1>1. AllocatorOK(a) /\ AllocatorOK(After(a)) /\ uses \in [Places -> Nat \cup {NoFrame}]
  BY AllocateKeeps DEF Owned
<1>2. Behind(After(a), f) /\ f \in Nat
  BY <1>1, AllocateFresh DEF Behind, InRegion
<1>3. \A x \in Places : uses[x] # NoFrame => Behind(After(a), uses[x]) /\ uses[x] # f
  BY <1>1, AllocateFresh, AllocateKeeps DEF Owned
<1> HIDE DEF f
<1>4. new \in [Places -> Nat \cup {NoFrame}]
      /\ \A x \in Places : new[x] = IF x = pl THEN f ELSE uses[x]
  BY <1>1, <1>2
<1> HIDE DEF new
<1>5. \A x \in Places : new[x] # NoFrame => Behind(After(a), new[x])
  BY <1>2, <1>3, <1>4
<1>6. \A x, y \in Places : new[x] # NoFrame /\ new[x] = new[y] => x = y
  BY <1>3, <1>4 DEF Owned
<1> QED
  BY <1>1, <1>4, <1>5, <1>6 DEF Owned, new, f

LEMMA OwnedFree ==
  ASSUME NEW a, NEW uses, Owned(a, uses), NEW pl
  PROVE  Owned(a, [uses EXCEPT ![pl] = NoFrame])
<1> DEFINE new == [uses EXCEPT ![pl] = NoFrame]
<1>1. new \in [Places -> Nat \cup {NoFrame}]
      /\ \A x \in Places : new[x] = IF x = pl THEN NoFrame ELSE uses[x]
  BY DEF Owned
<1> HIDE DEF new
<1>2. Owned(a, new)
  BY <1>1 DEF Owned
<1> QED
  BY <1>2 DEF new

\* A call whose frame, if any, is not put anywhere.
LEMMA OwnedKept ==
  ASSUME NEW a, NEW uses, Owned(a, uses)
  PROVE  Owned(After(a), uses)
BY AllocateKeeps DEF Owned

-----------------------------------------------------------------------------
LEMMA OwnedInit == Init => FramesInv
<1> SUFFICES ASSUME Init
             PROVE  FramesInv
  OBVIOUS
<1>1. 1 \in 1 .. Len(MemoryMap)
  BY MapAssumption, EmptySeq, LenProperties
<1>2. /\ AlignUp(MemoryMap[1].start) \in Nat
      /\ MemoryMap[1].start <= AlignUp(MemoryMap[1].start)
  BY <1>1, RegionType, AlignUpAbove
<1>3. AllocatorOK(allocator)
  BY <1>2 DEF AllocatorOK, Init
<1>4. frame_at = [pl \in Places |-> NoFrame]
  BY DEF Init
<1> QED
  BY <1>3, <1>4 DEF FramesInv, Owned

LEMMA OwnedOccupy == ASSUME FramesInv, NEW place, Occupy(place)
                     PROVE  FramesInv'
<1>1. CASE FrameOf(allocator) = NoFrame
  <2>1. Owned(After(allocator), [frame_at EXCEPT ![place] = NoFrame])
    BY OwnedKept, OwnedFree DEF FramesInv
  <2> QED
    BY <1>1, <2>1 DEF Occupy, FramesInv
<1>2. CASE FrameOf(allocator) # NoFrame
  <2>1. Owned(After(allocator), [frame_at EXCEPT ![place] = FrameOf(allocator)])
    BY <1>2, OwnedPlace DEF FramesInv
  <2> QED
    BY <2>1 DEF Occupy, FramesInv
<1> QED
  BY <1>1, <1>2

\* A page and, if it is missing, its table.
LEMMA OwnedMapFresh == ASSUME FramesInv, NEW s, NEW pg, NEW w, NEW value, MapFresh(s, pg, w, value)
                       PROVE  FramesInv'
<1> DEFINE page == PagePlace(s, pg)
           table == TablePlace(s, pg)
           f == FrameOf(allocator)
           one == After(allocator)
<1>1. page # table
  BY DEF PagePlace, TablePlace
<1>2. allocator' = one \/ allocator' = After(one)
  BY DEF MapFresh
<1>3. CASE halted'
  <2>1. frame_at' = [frame_at EXCEPT ![page] = NoFrame]
    BY <1>3 DEF MapFresh
  <2>2. Owned(one, frame_at') /\ Owned(After(one), frame_at')
    BY <2>1, OwnedKept, OwnedFree DEF FramesInv
  <2> QED
    BY <1>2, <2>2 DEF FramesInv
<1>4. CASE ~halted' /\ frame_at[table] # NoFrame
  <2>1. allocator' = one /\ f # NoFrame
        /\ frame_at' = [frame_at EXCEPT ![page] = f, ![table] = frame_at[table]]
    BY <1>4 DEF MapFresh
  <2>2. frame_at' = [frame_at EXCEPT ![page] = f]
    <3> HIDE DEF page, table, f
    <3> QED
      BY <1>1, <2>1 DEF FramesInv, Owned
  <2>3. Owned(one, [frame_at EXCEPT ![page] = f])
    BY <2>1, OwnedPlace DEF FramesInv
  <2> QED
    BY <2>1, <2>2, <2>3 DEF FramesInv
<1>5. CASE ~halted' /\ frame_at[table] = NoFrame
  <2>1. /\ allocator' = After(one) /\ f # NoFrame /\ FrameOf(one) # NoFrame
        /\ frame_at' = [frame_at EXCEPT ![page] = f, ![table] = FrameOf(one)]
    BY <1>5 DEF MapFresh
  <2>2. Owned(one, [frame_at EXCEPT ![page] = f])
    BY <2>1, OwnedPlace DEF FramesInv
  <2>3. Owned(After(one), [[frame_at EXCEPT ![page] = f] EXCEPT ![table] = FrameOf(one)])
    BY <2>1, <2>2, OwnedPlace
  <2> QED
    BY <2>1, <2>3 DEF FramesInv
<1> QED
  BY <1>3, <1>4, <1>5

LEMMA OwnedStep == FramesInv /\ [Next]_vars => FramesInv'
<1> SUFFICES ASSUME FramesInv, [Next]_vars
             PROVE  FramesInv'
  OBVIOUS
<1>1. ASSUME UNCHANGED <<allocator, frame_at>>
      PROVE  FramesInv'
  BY <1>1 DEF FramesInv
<1>2. CASE InitHeapPage
  BY <1>2, OwnedOccupy DEF InitHeapPage
<1>3. ASSUME NEW p \in Procs, NewProcess(p)
      PROVE  FramesInv'
  BY <1>3, OwnedOccupy DEF NewProcess
<1>4. CASE LoadPage
  BY <1>4, OwnedMapFresh DEF LoadPage
<1>5. CASE StartScheduling
  BY <1>1, <1>5 DEF StartScheduling, spaces
<1>6. ASSUME NEW p \in Procs, NEW pg \in Pages, NEW v \in Values, Store(p, pg, v)
      PROVE  FramesInv'
  BY <1>1, <1>6 DEF Store
<1>7. ASSUME NEW p \in Procs, NEW pg \in Pages, NEW write \in BOOLEAN,
             SegmentationFault(p, pg, write)
      PROVE  FramesInv'
  BY <1>1, <1>7 DEF SegmentationFault, spaces
<1>8. ASSUME NEW p \in Procs, NEW pg \in Pages, NEW write \in BOOLEAN,
             DemandAllocate(p, pg, write)
      PROVE  FramesInv'
  BY <1>8, OwnedMapFresh DEF DemandAllocate
<1>9. ASSUME NEW p \in Procs, NEW pg \in Pages, CowResolve(p, pg)
      PROVE  FramesInv'
  BY <1>1, <1>9 DEF CowResolve
<1>10. ASSUME NEW p \in UserProcs, NEW r \in Ranges, NEW w \in BOOLEAN,
              InsertVma(p, r[1], r[2], w)
       PROVE  FramesInv'
  BY <1>1, <1>10 DEF InsertVma, spaces
<1>11. ASSUME NEW p \in UserProcs, NEW c \in ForkedProcs, CowForkVmas(p, c)
       PROVE  FramesInv'
  BY <1>1, <1>11 DEF CowForkVmas, spaces
<1>12. CASE UNCHANGED vars
  BY <1>1, <1>12 DEF vars, spaces
<1> QED
  BY <1>2, <1>3, <1>4, <1>5, <1>6, <1>7, <1>8, <1>9, <1>10, <1>11, <1>12 DEF Next

\* No frame has two uses at any time: see FramesOwnedOnce.
THEOREM OwnedOnce == Spec => []FramesOwnedOnce
<1>1. FramesInv => FramesOwnedOnce
  BY DEF FramesInv, Owned, FramesOwnedOnce, InUse
<1> QED
  BY <1>1, OwnedInit, OwnedStep, PTL DEF Spec

-----------------------------------------------------------------------------
(* Types.  The addresses the allocator goes through are multiples of the      *)
(* frame's size.                                                              *)

Multiple(x) == \E q \in Nat : x = q * FrameSize

LEMMA MultipleMod == ASSUME NEW x, Multiple(x)
                     PROVE  x \in Nat /\ x % FrameSize = 0 /\ Multiple(x + FrameSize)
<1>1. PICK q \in Nat : x = q * FrameSize
  BY DEF Multiple
<1>2. x \in Nat
  BY <1>1, Sizes
<1> DEFINE d == x \div FrameSize
           m == x % FrameSize
<1>3. d \in Nat /\ m \in 0 .. FrameSize - 1 /\ x = FrameSize * d + m
  BY <1>2, Sizes
<1> HIDE DEF d, m
<1>4. m = FrameSize * (q - d)
  BY <1>1, <1>3, Sizes
<1>5. q = d
  <2>1. CASE q > d
    <3>1. FrameSize * (q - d) >= FrameSize
      BY <1>3, <2>1, Sizes
    <3> QED
      BY <1>3, <1>4, <3>1, Sizes
  <2>2. CASE q < d
    <3>1. FrameSize * (q - d) < 0
      BY <1>3, <2>2, Sizes
    <3> QED
      BY <1>3, <1>4, <3>1, Sizes
  <2> QED
    BY <1>3, <2>1, <2>2
<1>6. m = 0
  BY <1>3, <1>4, <1>5, Sizes
<1>7. q + 1 \in Nat /\ x + FrameSize = (q + 1) * FrameSize
  BY <1>1, Sizes
<1> QED
  BY <1>2, <1>6, <1>7 DEF m, Multiple

LEMMA AlignUpMultiple == ASSUME NEW x \in Nat
                         PROVE  Multiple(AlignUp(x))
<1> DEFINE q == (x + FrameSize - 1) \div FrameSize
<1>1. q \in Nat
  BY Sizes
<1> QED
  BY <1>1 DEF AlignUp, Multiple

AllocatorFits(a) ==
  /\ AllocatorOK(a) /\ a.region_idx <= Len(MemoryMap) + 1
  /\ a.region_idx <= Len(MemoryMap) => Multiple(a.next_addr)

LEMMA FrameOfFits == ASSUME NEW a, AllocatorFits(a)
                     PROVE  AllocatorFits(After(a)) /\ FrameOf(a) \in Frames \cup {NoFrame}
<1>1. AllocatorOK(a) /\ AllocatorOK(After(a))
  BY AllocateKeeps DEF AllocatorFits
<1>2. CASE Fitting(a) = {}
  <2>1. After(a) = [a EXCEPT !.region_idx = Len(MemoryMap) + 1] /\ FrameOf(a) = NoFrame
    BY <1>2 DEF After, FrameOf
  <2>2. After(a).region_idx = Len(MemoryMap) + 1
    BY <1>1, <2>1 DEF AllocatorOK
  <2> QED
    BY <1>1, <2>1, <2>2, Sizes DEF AllocatorFits
<1>3. CASE Fitting(a) # {}
  <2> DEFINE r == FirstFit(a)
             f == NextAddr(a, r)
  <2>1. r \in Fitting(a) /\ r \in 1 .. Len(MemoryMap) /\ a.region_idx <= r /\ InRegion(f, r)
    BY <1>1, <1>3, FirstFitFits, NextAddrAbove
  <2>2. FrameOf(a) = f /\ After(a).region_idx = r /\ After(a).next_addr = f + FrameSize
    BY <1>3 DEF FrameOf, After
  <2>3. Multiple(f)
    <3>1. CASE r = a.region_idx
      BY <2>1, <3>1 DEF NextAddr, AllocatorFits
    <3>2. CASE r # a.region_idx
      BY <2>1, <3>2, RegionType, AlignUpMultiple DEF NextAddr
    <3> QED
      BY <3>1, <3>2
  <2>4. MemoryMap[r].usable /\ MemoryMap[r].start \in Nat /\ MemoryMap[r].end \in Nat
    BY <2>1, RegionType DEF Fitting
  <2> HIDE DEF r, f
  <2>5. f \in Nat /\ f % FrameSize = 0 /\ Multiple(f + FrameSize)
    BY <2>3, MultipleMod
  <2>6. f \in MemoryMap[r].start .. MemoryMap[r].end
    BY <2>1, <2>4, <2>5, Sizes DEF InRegion
  <2>7. f \in Frames
    BY <2>1, <2>4, <2>5, <2>6 DEF Frames, InRegion
  <2> QED
    BY <1>1, <2>1, <2>2, <2>5, <2>7, Sizes DEF AllocatorFits
<1> QED
  BY <1>2, <1>3

LEMMA FramesAreNumbers == Frames \subseteq Nat /\ NoFrame \notin Frames
<1>1. Frames \subseteq Nat
  BY RegionType DEF Frames
<1> QED
  BY <1>1, SpacesAssumption

-----------------------------------------------------------------------------
(* Areas.                                                                     *)

Vmas == [start : Nat, end : Nat, write : BOOLEAN, cow : BOOLEAN, ref_count : Nat \ {0}]

LEMMA VmaFields == ASSUME NEW v \in Vmas
                   PROVE  /\ v.start \in Nat /\ v.end \in Nat /\ v.ref_count \in Nat \ {0}
                          /\ v.write \in BOOLEAN /\ v.cow \in BOOLEAN
BY DEF Vmas

Ordered(list) ==
  \A i \in 1 .. Len(list) : /\ list[i].start < list[i].end
                            /\ i > 1 => list[i - 1].start <= list[i].start

\* What Inserted returns: the area at pos, and all others as they were around it.
InsertedIn(new, list, vma, pos) ==
  /\ new \in Seq(Vmas) /\ Len(new) = Len(list) + 1
  /\ new[pos] = vma
  /\ \A i \in 1 .. pos - 1 : new[i] = list[i]
  /\ \A i \in pos + 1 .. Len(list) + 1 : new[i] = list[i - 1]

LEMMA InsertAtIs ==
  ASSUME NEW list \in Seq(Vmas), NEW vma \in Vmas, NEW pos \in 1 .. Len(list) + 1
  PROVE  InsertedIn(InsertAt(list, pos, vma), list, vma, pos)
<1> DEFINE n == Len(list)
           k == pos - 1
           front == SubSeq(list, 1, k)
           back == SubSeq(list, pos, n)
<1>1. n \in Nat /\ pos \in Int /\ k \in Nat /\ k <= n /\ pos = k + 1 /\ n = Len(list)
  OBVIOUS
<1> HIDE DEF n, k
<1>2. \A i \in 1 .. n : list[i] \in Vmas
  BY <1>1
<1>3. front \in Seq(Vmas) /\ Len(front) = k /\ \A i \in 1 .. k : front[i] = list[i]
  <2>1. 1 \in Int /\ k \in Int /\ \A i \in 1 .. k : list[i] \in Vmas
    BY <1>1, <1>2
  <2>2. /\ front \in Seq(Vmas)
        /\ Len(front) = IF 1 <= k THEN k - 1 + 1 ELSE 0
        /\ \A i \in 1 .. k - 1 + 1 : front[i] = list[1 + i - 1]
    BY <2>1, SubSeqProperties
  <2>3. \A i \in 1 .. k : i \in 1 .. k - 1 + 1 /\ 1 + i - 1 = i
    BY <1>1
  <2> QED
    BY <1>1, <2>2, <2>3
<1>4. back \in Seq(Vmas) /\ Len(back) = n - k /\ \A i \in 1 .. n - k : back[i] = list[k + i]
  <2>1. pos \in Int /\ n \in Int /\ \A i \in pos .. n : list[i] \in Vmas
    BY <1>1, <1>2
  <2>2. /\ back \in Seq(Vmas)
        /\ Len(back) = IF pos <= n THEN n - pos + 1 ELSE 0
        /\ \A i \in 1 .. n - pos + 1 : back[i] = list[pos + i - 1]
    BY <2>1, SubSeqProperties
  <2>3. \A i \in 1 .. n - k : i \in 1 .. n - pos + 1 /\ pos + i - 1 = k + i
    BY <1>1
  <2>4. Len(back) = n - k
    BY <1>1, <2>2
  <2> QED
    BY <2>2, <2>3, <2>4
<1> HIDE DEF front, back
<1> DEFINE one == front \o <<vma>>
           new == one \o back
<1>5. /\ one \in Seq(Vmas) /\ Len(one) = k + 1 /\ one[k + 1] = vma
      /\ \A i \in 1 .. k : one[i] = front[i]
  BY <1>1, <1>3
<1> HIDE DEF one
<1>6. /\ new \in Seq(Vmas) /\ Len(new) = (k + 1) + (n - k)
      /\ \A i \in 1 .. (k + 1) + (n - k) : new[i] = IF i <= k + 1 THEN one[i] ELSE back[i - (k + 1)]
  <2>1. /\ one \o back \in Seq(Vmas) /\ Len(one \o back) = Len(one) + Len(back)
        /\ \A i \in 1 .. Len(one) + Len(back) :
             (one \o back)[i] = IF i <= Len(one) THEN one[i] ELSE back[i - Len(one)]
    BY <1>4, <1>5, ConcatProperties
  <2> QED
    BY <1>4, <1>5, <2>1
<1> HIDE DEF new
<1>7. InsertAt(list, pos, vma) = new
  BY DEF InsertAt, new, one, front, back, n, k
<1>8. (k + 1) + (n - k) = n + 1
  BY <1>1
<1>9. new[pos] = vma
  <2>1. pos \in 1 .. (k + 1) + (n - k) /\ pos <= k + 1
    BY <1>1
  <2> QED
    BY <1>1, <1>5, <1>6, <2>1
<1>10. ASSUME NEW i \in 1 .. pos - 1 PROVE new[i] = list[i]
  <2>1. i \in 1 .. (k + 1) + (n - k) /\ i <= k + 1 /\ i \in 1 .. k
    BY <1>1
  <2> QED
    BY <1>3, <1>5, <1>6, <2>1
<1>11. ASSUME NEW i \in pos + 1 .. n + 1 PROVE new[i] = list[i - 1]
  <2>1. /\ i \in 1 .. (k + 1) + (n - k) /\ ~(i <= k + 1)
        /\ i - (k + 1) \in 1 .. n - k /\ k + (i - (k + 1)) = i - 1
    BY <1>1
  <2> QED
    BY <1>4, <1>6, <2>1
<1> QED
  BY <1>1, <1>6, <1>7, <1>8, <1>9, <1>10, <1>11 DEF InsertedIn

LEMMA InsertedIs ==
  ASSUME NEW list \in Seq(Vmas), NEW vma \in Vmas
  PROVE  \E pos \in 1 .. Len(list) + 1 :
           InsertedAt(list, vma, pos) /\ InsertedIn(Inserted(list, vma), list, vma, pos)
<1> DEFINE S == {i \in 1 .. Len(list) + 1 : i <= Len(list) => list[i].start > vma.start}
<1>1. Len(list) \in Nat /\ Len(list) + 1 \in S /\ S \in SUBSET Nat
  OBVIOUS
<1> HIDE DEF S
<1>2. PICK pos \in S : \A m \in S : pos <= m
  BY <1>1, LeastNat
<1>3. pos \in 1 .. Len(list) + 1 /\ InsertedAt(list, vma, pos)
  <2>1. pos \in 1 .. Len(list) + 1 /\ (pos <= Len(list) => list[pos].start > vma.start)
    BY <1>2 DEF S
  <2>2. ASSUME NEW i \in 1 .. pos - 1 PROVE list[i].start <= vma.start
    <3>1. i \in 1 .. Len(list) + 1 /\ i <= Len(list) /\ ~(pos <= i)
      BY <1>1, <2>1
    <3>2. i \notin S
      BY <1>2, <3>1
    <3>3. list[i] \in Vmas
      BY <1>1, <3>1
    <3>5. list[i].start \in Nat /\ vma.start \in Nat
      BY <3>3, VmaFields
    <3>4. ~(list[i].start > vma.start)
      BY <3>1, <3>2 DEF S
    <3> QED
      BY <3>4, <3>5
  <2> QED
    BY <2>1, <2>2 DEF InsertedAt
<1> DEFINE chosen == CHOOSE p \in 1 .. Len(list) + 1 : InsertedAt(list, vma, p)
<1>4. chosen \in 1 .. Len(list) + 1 /\ InsertedAt(list, vma, chosen)
  BY <1>3
<1>5. Inserted(list, vma) = InsertAt(list, chosen, vma)
  BY DEF Inserted
<1> HIDE DEF chosen
<1> QED
  BY <1>4, <1>5, InsertAtIs

LEMMA InsertedOrdered ==
  ASSUME NEW list \in Seq(Vmas), NEW vma \in Vmas, Ordered(list), vma.start < vma.end
  PROVE  Inserted(list, vma) \in Seq(Vmas) /\ Ordered(Inserted(list, vma))
<1> DEFINE new == Inserted(list, vma)
<1>1. PICK pos \in 1 .. Len(list) + 1 :
        InsertedAt(list, vma, pos) /\ InsertedIn(new, list, vma, pos)
  BY InsertedIs
<1> HIDE DEF new
<1>2. new \in Seq(Vmas) /\ Len(new) = Len(list) + 1 /\ Len(list) \in Nat /\ pos \in Nat
  BY <1>1 DEF InsertedIn
<1>3. ASSUME NEW i \in 1 .. Len(list) + 1 PROVE new[i].start < new[i].end
  <2>1. CASE i < pos
    <3>1. i \in 1 .. pos - 1 /\ i \in 1 .. Len(list)
      BY <1>2, <2>1
    <3> QED
      BY <1>1, <3>1 DEF InsertedIn, Ordered
  <2>2. CASE i = pos
    BY <1>1, <2>2 DEF InsertedIn
  <2>3. CASE i > pos
    <3>1. i \in pos + 1 .. Len(list) + 1 /\ i - 1 \in 1 .. Len(list)
      BY <1>2, <2>3
    <3> QED
      BY <1>1, <3>1 DEF InsertedIn, Ordered
  <2> QED
    BY <1>2, <2>1, <2>2, <2>3
<1>4. ASSUME NEW i \in 1 .. Len(list) + 1, i > 1 PROVE new[i - 1].start <= new[i].start
  <2>1. CASE i < pos
    <3>1. i \in 1 .. pos - 1 /\ i - 1 \in 1 .. pos - 1 /\ i \in 1 .. Len(list)
      BY <1>2, <1>4, <2>1
    <3> QED
      BY <1>1, <1>4, <3>1 DEF InsertedIn, Ordered
  <2>2. CASE i = pos
    <3>1. i - 1 \in 1 .. pos - 1
      BY <1>2, <1>4, <2>2
    <3> QED
      BY <1>1, <2>2, <3>1 DEF InsertedIn, InsertedAt
  <2>3. CASE i = pos + 1
    <3>1. i \in pos + 1 .. Len(list) + 1 /\ i - 1 = pos /\ pos <= Len(list) /\ pos \in 1 .. Len(list)
      BY <1>2, <2>3
    <3>2. list[pos].start \in Nat /\ vma.start \in Nat
      <4>1. list[pos] \in Vmas
        BY <3>1
      <4> QED
        BY <4>1, VmaFields
    <3>3. new[i] = list[i - 1] /\ new[i - 1] = vma
      BY <1>1, <3>1 DEF InsertedIn
    <3>4. list[pos].start > vma.start
      BY <1>1, <3>1 DEF InsertedAt
    <3> QED
      BY <2>3, <3>1, <3>2, <3>3, <3>4
  <2>4. CASE i > pos + 1
    <3>1. /\ i \in pos + 1 .. Len(list) + 1 /\ i - 1 \in pos + 1 .. Len(list) + 1
          /\ i - 1 \in 1 .. Len(list) /\ i - 1 > 1 /\ (i - 1) - 1 = i - 2
      BY <1>2, <2>4
    <3>2. new[i] = list[i - 1] /\ new[i - 1] = list[(i - 1) - 1]
      BY <1>1, <3>1 DEF InsertedIn
    <3> QED
      BY <3>1, <3>2 DEF Ordered
  <2> QED
    BY <1>2, <2>1, <2>2, <2>3, <2>4
<1> QED
  BY <1>2, <1>3, <1>4 DEF Ordered, new

\* Changes that leave the bounds of the areas alone.
LEMMA SameBoundsOrdered ==
  ASSUME NEW list \in Seq(Vmas), NEW new \in Seq(Vmas), Ordered(list), Len(new) = Len(list),
         \A i \in 1 .. Len(list) : new[i].start = list[i].start /\ new[i].end = list[i].end
  PROVE  Ordered(new)
<1> SUFFICES ASSUME NEW i \in 1 .. Len(list)
             PROVE  new[i].start < new[i].end /\ (i > 1 => new[i - 1].start <= new[i].start)
  BY DEF Ordered
<1>1. i > 1 => i - 1 \in 1 .. Len(list)
  OBVIOUS
<1> QED
  BY <1>1 DEF Ordered

\* The copy on write of one area.
LEMMA CowCleared ==
  ASSUME NEW list \in Seq(Vmas), Ordered(list), NEW i \in 1 .. Len(list)
  PROVE  LET new == [list EXCEPT ![i].cow = FALSE]
         IN  /\ new \in Seq(Vmas) /\ Ordered(new) /\ Len(new) = Len(list)
             /\ \A j \in 1 .. Len(list) :
                  new[j] = IF j = i THEN [list[i] EXCEPT !.cow = FALSE] ELSE list[j]
<1> DEFINE v == [list[i] EXCEPT !.cow = FALSE]
           new == [list EXCEPT ![i] = v]
<1>1. list[i] \in Vmas
  OBVIOUS
<1>2. v \in Vmas /\ v.start = list[i].start /\ v.end = list[i].end
  BY <1>1 DEF Vmas
<1>3. new = [list EXCEPT ![i].cow = FALSE]
  OBVIOUS
<1> HIDE DEF v
<1>4. new \in Seq(Vmas) /\ Len(new) = Len(list) /\ \A j \in 1 .. Len(list) : new[j] = IF j = i THEN v ELSE list[j]
  BY <1>2, ExceptSeq
<1> HIDE DEF new
<1>5. Ordered(new)
  BY <1>2, <1>4, SameBoundsOrdered
<1> QED
  BY <1>3, <1>4, <1>5 DEF v

Forked(list) ==
  [i \in 1 .. Len(list) |-> IF list[i].write
                            THEN [list[i] EXCEPT !.cow = TRUE, !.ref_count = @ + 1]
                            ELSE list[i]]

LEMMA ForkedIs ==
  ASSUME NEW list \in Seq(Vmas), Ordered(list)
  PROVE  /\ Forked(list) \in Seq(Vmas) /\ Ordered(Forked(list)) /\ Len(Forked(list)) = Len(list)
         /\ \A i \in 1 .. Len(list) :
              LET v == Forked(list)[i]
              IN  /\ v.start = list[i].start /\ v.end = list[i].end /\ v.write = list[i].write
                  /\ v.ref_count = IF list[i].write THEN list[i].ref_count + 1 ELSE list[i].ref_count
<1> DEFINE one(i) == IF list[i].write
                     THEN [list[i] EXCEPT !.cow = TRUE, !.ref_count = @ + 1]
                     ELSE list[i]
<1>1. ASSUME NEW i \in 1 .. Len(list)
      PROVE  /\ one(i) \in Vmas
             /\ one(i).start = list[i].start /\ one(i).end = list[i].end /\ one(i).write = list[i].write
             /\ one(i).ref_count = IF list[i].write THEN list[i].ref_count + 1 ELSE list[i].ref_count
  <2>1. list[i] \in Vmas
    OBVIOUS
  <2> DEFINE count == list[i].ref_count + 1
  <2>2. count \in Nat \ {0}
    BY <2>1, VmaFields
  <2>3. one(i) = IF list[i].write THEN [list[i] EXCEPT !.cow = TRUE, !.ref_count = count] ELSE list[i]
    OBVIOUS
  <2> HIDE DEF one
  <2>4. CASE list[i].write
    <3>1. one(i) = [list[i] EXCEPT !.cow = TRUE, !.ref_count = count]
      BY <2>3, <2>4
    <3> HIDE DEF count
    <3>2. one(i) \in Vmas
      BY <2>1, <2>2, <3>1 DEF Vmas
    <3>3. one(i).start = list[i].start /\ one(i).end = list[i].end /\ one(i).write = list[i].write
          /\ one(i).ref_count = count
      BY <2>1, <3>1 DEF Vmas
    <3> QED
      BY <2>4, <3>2, <3>3 DEF count
  <2>5. CASE ~list[i].write
    BY <2>1, <2>3, <2>5
  <2> QED
    BY <2>4, <2>5
<1> DEFINE new == [i \in 1 .. Len(list) |-> one(i)]
<1>2. new = Forked(list)
  BY DEF Forked
<1> HIDE DEF one
<1>3. new \in [1 .. Len(list) -> Vmas] /\ Len(list) \in Nat
  BY <1>1
<1>4. new \in Seq(Vmas)
  BY <1>3, SeqDef, Zenon
<1>5. Len(new) = Len(list) /\ \A i \in 1 .. Len(list) : new[i] = one(i)
  BY <1>3, <1>4, LenProperties
<1> HIDE DEF new
<1>6. Ordered(new)
  BY <1>1, <1>4, <1>5, SameBoundsOrdered
<1> QED
  BY <1>1, <1>2, <1>4, <1>5, <1>6

-----------------------------------------------------------------------------
(* What is loaded.                                                            *)

LEMMA DivMonotone ==
  ASSUME NEW x \in Nat, NEW y \in Nat, NEW n \in Nat \ {0}, x <= y
  PROVE  x \div n \in Nat /\ y \div n \in Nat /\ x \div n <= y \div n
<1> DEFINE a == x \div n
           b == y \div n
<1>1. /\ a \in Nat /\ b \in Nat
      /\ x % n \in 0 .. n - 1 /\ y % n \in 0 .. n - 1
      /\ x = n * a + (x % n) /\ y = n * b + (y % n)
  OBVIOUS
<1> HIDE DEF a, b
<1>2. ASSUME a > b PROVE FALSE
  <2>1. n * (a - b) >= n
    BY <1>1, <1>2
  <2>2. n * (a - b) = n * a - n * b
    BY <1>1
  <2> QED
    BY <1>1, <2>1, <2>2
<1>3. a <= b
  BY <1>1, <1>2
<1> QED
  BY <1>1, <1>3 DEF a, b

LEMMA SegmentType ==
  ASSUME NEW k \in 1 .. Len(Image)
  PROVE  /\ FirstPage(k) \in Nat /\ LastPage(k) \in Nat /\ FirstPage(k) <= LastPage(k)
         /\ Image[k].write \in BOOLEAN
<1>0. Image \in Seq([start : Nat, size : Nat \ {0}, write : BOOLEAN])
  BY SpacesAssumption
<1>1. Image[k] \in [start : Nat, size : Nat \ {0}, write : BOOLEAN]
  BY <1>0, ElementOfSeq
<1>2. /\ Image[k].start \in Nat /\ Image[k].start + Image[k].size \in Nat
      /\ Image[k].start <= Image[k].start + Image[k].size
      /\ Image[k].write \in BOOLEAN /\ PageSize \in Nat \ {0}
  BY <1>1, SpacesAssumption
<1> QED
  BY <1>2, DivMonotone DEF FirstPage, LastPage

LEMMA ImageLen == Len(Image) \in Nat /\ Stages = 1 .. Len(Image) + 1
BY SpacesAssumption, LenProperties DEF Stages

LEMMA PageAtType ==
  ASSUME NEW k \in Stages
  PROVE  /\ PageCount(k) \in Nat /\ PageCount(k) >= 1
         /\ \A i \in 1 .. PageCount(k) : PageAt(k, i) \in Pages
<1>1. CASE k <= Len(Image)
  <2>1. k \in 1 .. Len(Image) /\ PageCount(k) = LastPage(k) - FirstPage(k) + 1
        /\ \A i \in 1 .. PageCount(k) : PageAt(k, i) = FirstPage(k) + i - 1
    BY <1>1, ImageLen DEF PageCount, PageAt
  <2>2. FirstPage(k) \in Nat /\ LastPage(k) \in Nat /\ FirstPage(k) <= LastPage(k)
        /\ FirstPage(k) .. LastPage(k) \subseteq Pages
    BY <2>1, SegmentType, ImageAssumption
  <2>3. ASSUME NEW i \in 1 .. PageCount(k) PROVE PageAt(k, i) \in FirstPage(k) .. LastPage(k)
    BY <2>1, <2>2
  <2>4. PageCount(k) \in Nat /\ PageCount(k) >= 1
    BY <2>1, <2>2
  <2> QED
    BY <2>2, <2>3, <2>4
<1>2. CASE ~(k <= Len(Image))
  <2>1. PageCount(k) = Len(Stack) /\ \A i : PageAt(k, i) = Stack[i]
    BY <1>2 DEF PageCount, PageAt
  <2>2. Stack \in Seq(Pages) /\ Len(Stack) \in Nat /\ Len(Stack) >= 1
    BY SpacesAssumption, EmptySeq
  <2> QED
    BY <2>1, <2>2
<1> QED
  BY <1>1, <1>2

-----------------------------------------------------------------------------
(* The types, as an inductive invariant.                                      *)

Kinds == Values \cup {Zero, Junk} \cup 1 .. Len(Image)

TablesTyped ==
  /\ AllocatorFits(allocator)
  /\ frame_at \in [Places -> Frames \cup {NoFrame}]
  /\ writable \in [Spaces -> SUBSET Pages]
  /\ content \in [Frames -> Kinds]
  /\ halted \in BOOLEAN

ListsTyped == vma_list \in [Procs -> Seq(Vmas)] /\ \A p \in Procs : Ordered(vma_list[p])

LoadingTyped ==
  \/ loading = Idle
  \/ /\ loading \in UserProcs \X Stages \X Nat
     /\ loading[3] \in 1 .. PageCount(loading[2])

MemoryTypes ==
  /\ TablesTyped /\ ListsTyped /\ LoadingTyped
  /\ shared \in BOOLEAN /\ booted \in BOOLEAN

LEMMA TypedOccupy ==
  ASSUME TablesTyped, NEW place \in Places, Occupy(place)
  PROVE  TablesTyped'
<1>1. AllocatorFits(allocator') /\ FrameOf(allocator) \in Frames \cup {NoFrame}
  BY FrameOfFits DEF TablesTyped, Occupy
<1>2. frame_at' \in [Places -> Frames \cup {NoFrame}]
  <2> DEFINE f == FrameOf(allocator)
  <2>1. frame_at' = [frame_at EXCEPT ![place] = f] /\ f \in Frames \cup {NoFrame}
    BY <1>1 DEF Occupy
  <2> HIDE DEF f
  <2> QED
    BY <2>1 DEF TablesTyped
<1> QED
  BY <1>1, <1>2 DEF TablesTyped, Occupy

LEMMA TypedMapFresh ==
  ASSUME TablesTyped, NEW s \in Spaces, NEW pg \in Pages, NEW w \in BOOLEAN, NEW value \in Kinds,
         MapFresh(s, pg, w, value)
  PROVE  TablesTyped'
<1> DEFINE place == PagePlace(s, pg)
           beside == TablePlace(s, pg)
           table == frame_at[beside]
           f == FrameOf(allocator)
           t == IF table # NoFrame THEN table ELSE FrameOf(After(allocator))
<1>1. place \in Places /\ beside \in Places
  BY DEF Places, PagePlace, TablePlace
<1>2. f \in Frames \cup {NoFrame} /\ t \in Frames \cup {NoFrame} /\ AllocatorFits(allocator')
  <2>1. /\ AllocatorFits(After(allocator)) /\ AllocatorFits(After(After(allocator)))
        /\ f \in Frames \cup {NoFrame} /\ FrameOf(After(allocator)) \in Frames \cup {NoFrame}
    BY FrameOfFits DEF TablesTyped
  <2>2. table \in Frames \cup {NoFrame}
    BY <1>1 DEF TablesTyped
  <2>3. allocator' = After(allocator) \/ allocator' = After(After(allocator))
    BY DEF MapFresh
  <2> QED
    BY <2>1, <2>2, <2>3
<1>3. halted' = (NoFrame \in {f, t})
  BY DEF MapFresh
<1> HIDE DEF place, beside, table, f, t
<1>4. CASE halted'
  <2>1. frame_at' = [frame_at EXCEPT ![place] = NoFrame] /\ UNCHANGED <<writable, content>>
    BY <1>4 DEF MapFresh, place
  <2>2. halted' \in BOOLEAN
    <3>1. (NoFrame \in {f, t}) \in BOOLEAN
      OBVIOUS
    <3> QED
      BY <1>3, <3>1
  <2>3. frame_at' \in [Places -> Frames \cup {NoFrame}]
    BY <2>1 DEF TablesTyped
  <2> QED
    BY <1>2, <2>1, <2>2, <2>3 DEF TablesTyped
<1>5. CASE ~halted'
  <2>1. /\ frame_at' = [frame_at EXCEPT ![place] = f, ![beside] = t]
        /\ writable' = [writable EXCEPT ![s] = IF w THEN writable[s] \cup {pg} ELSE writable[s] \ {pg}]
        /\ content' = [content EXCEPT ![f] = value]
    BY <1>5, Zenon DEF MapFresh, place, beside, f, t, table
  <2>2. f \in Frames /\ t \in Frames
    BY <1>2, <1>3, <1>5
  <2>3. frame_at' \in [Places -> Frames \cup {NoFrame}]
    BY <2>1, <2>2 DEF TablesTyped
  <2>4. writable' \in [Spaces -> SUBSET Pages]
    <3> DEFINE new == IF w THEN writable[s] \cup {pg} ELSE writable[s] \ {pg}
    <3>1. writable[s] \subseteq Pages
      BY DEF TablesTyped
    <3>2. new \subseteq Pages
      BY <3>1
    <3>3. writable' = [writable EXCEPT ![s] = new]
      BY <2>1
    <3> HIDE DEF new
    <3> QED
      BY <3>2, <3>3 DEF TablesTyped
  <2>5. content' \in [Frames -> Kinds]
    BY <2>1 DEF TablesTyped
  <2> QED
    BY <1>2, <1>3, <2>3, <2>4, <2>5 DEF TablesTyped
<1> QED
  BY <1>4, <1>5

LEMMA TypedInit == Init => MemoryTypes
<1> SUFFICES ASSUME Init PROVE MemoryTypes
  OBVIOUS
<1>1. 1 \in 1 .. Len(MemoryMap)
  BY MapAssumption, EmptySeq, LenProperties
<1>2. /\ AlignUp(MemoryMap[1].start) \in Nat
      /\ MemoryMap[1].start <= AlignUp(MemoryMap[1].start)
      /\ Multiple(AlignUp(MemoryMap[1].start))
  BY <1>1, RegionType, AlignUpAbove, AlignUpMultiple
<1>3. AllocatorFits(allocator)
  BY <1>1, <1>2, Sizes DEF AllocatorFits, AllocatorOK, Init
<1>4. TablesTyped
  BY <1>3 DEF Init, TablesTyped, Kinds
<1>5. ListsTyped
  <2>1. <<>> \in Seq(Vmas) /\ Ordered(<<>>)
    BY EmptySeq DEF Ordered
  <2>2. vma_list = [p \in Procs |-> <<>>]
    BY DEF Init
  <2> QED
    BY <2>1, <2>2 DEF ListsTyped
<1> QED
  BY <1>4, <1>5 DEF Init, MemoryTypes, LoadingTyped

LEMMA SpaceType == ASSUME NEW p \in Procs PROVE Space(p) \in Spaces
BY DEF Space, Spaces

\* The place of a page, of a root table, of a heap page.
LEMMA PlaceTypes ==
  /\ \A s \in Spaces, pg \in Pages : PagePlace(s, pg) \in Places /\ TablePlace(s, pg) \in Places
  /\ \A p \in Procs : RootPlace(p) \in Places
  /\ \A i \in 1 .. HeapPages : HeapPlace(i) \in Places
BY DEF Places

\* The next page to load.
LEMMA LoadingIs ==
  ASSUME LoadingTyped, loading[1] # NoProc
  PROVE  /\ loading[1] \in UserProcs /\ loading[1] \in Procs /\ loading[2] \in Stages
         /\ loading[3] \in 1 .. PageCount(loading[2])
         /\ PageAt(loading[2], loading[3]) \in Pages
<1>1. loading # Idle
  BY DEF Idle
<1>2. loading[1] \in UserProcs /\ loading[2] \in Stages /\ loading[3] \in 1 .. PageCount(loading[2])
  BY <1>1 DEF LoadingTyped
<1> QED
  BY <1>2, PageAtType DEF Procs

LEMMA NextPageType ==
  ASSUME NEW p \in UserProcs, NEW k \in Stages, NEW i \in 1 .. PageCount(k)
  PROVE  \/ NextPage(p, k, i) = Idle
         \/ /\ NextPage(p, k, i) \in UserProcs \X Stages \X Nat
            /\ NextPage(p, k, i)[3] \in 1 .. PageCount(NextPage(p, k, i)[2])
<1>1. PageCount(k) \in Nat /\ k \in Nat
  BY PageAtType, ImageLen
<1>2. CASE i < PageCount(k)
  <2>1. NextPage(p, k, i) = <<p, k, i + 1>> /\ i + 1 \in 1 .. PageCount(k) /\ i + 1 \in Nat
    BY <1>1, <1>2 DEF NextPage
  <2> QED
    BY <2>1
<1>3. CASE ~(i < PageCount(k)) /\ k <= Len(Image)
  <2>1. NextPage(p, k, i) = <<p, k + 1, 1>> /\ k + 1 \in Stages
    BY <1>1, <1>3, ImageLen DEF NextPage
  <2>2. PageCount(k + 1) \in Nat /\ PageCount(k + 1) >= 1
    BY <2>1, PageAtType
  <2>3. 1 \in 1 .. PageCount(k + 1)
    BY <2>2
  <2> QED
    BY <2>1, <2>3
<1>4. CASE ~(i < PageCount(k)) /\ ~(k <= Len(Image))
  BY <1>4 DEF NextPage
<1> QED
  BY <1>2, <1>3, <1>4

\* The area a segment gets.
LEMMA SegmentArea ==
  ASSUME NEW k \in Stages, k <= Len(Image), NEW list \in Seq(Vmas), Ordered(list)
  PROVE  LET vma == Area(FirstPage(k), PageAt(k, PageCount(k)), Image[k].write)
         IN  /\ PageAt(k, PageCount(k)) = LastPage(k) /\ vma \in Vmas
             /\ Inserted(list, vma) \in Seq(Vmas) /\ Ordered(Inserted(list, vma))
<1> DEFINE vma == Area(FirstPage(k), PageAt(k, PageCount(k)), Image[k].write)
<1>1. k \in 1 .. Len(Image)
  BY ImageLen
<1>2. /\ FirstPage(k) \in Nat /\ LastPage(k) \in Nat /\ FirstPage(k) <= LastPage(k)
      /\ Image[k].write \in BOOLEAN
  BY <1>1, SegmentType
<1>3. PageAt(k, PageCount(k)) = LastPage(k)
  BY <1>2 DEF PageAt, PageCount
<1>4. vma \in Vmas /\ vma.start < vma.end
  BY <1>2, <1>3 DEF Area, Vmas
<1> HIDE DEF vma
<1> QED
  BY <1>3, <1>4, InsertedOrdered DEF vma

LEMMA TypedLoad == ASSUME MemoryTypes, LoadPage PROVE MemoryTypes'
<1> DEFINE p == loading[1]
           k == loading[2]
           i == loading[3]
           pg == PageAt(k, i)
           value == IF k <= Len(Image) /\ HasData(k, pg) THEN k ELSE Junk
           list == vma_list[p]
           vma == Area(FirstPage(k), pg, Image[k].write)
<1>1. p \in UserProcs /\ p \in Procs /\ k \in Stages /\ i \in 1 .. PageCount(k) /\ pg \in Pages
  BY LoadingIs DEF LoadPage, MemoryTypes
<1>2. value \in Kinds
  BY <1>1, ImageLen DEF Kinds
<1>3. /\ MapFresh(Space(p), pg, TRUE, value)
      /\ vma_list' = IF k <= Len(Image) /\ i = PageCount(k)
                     THEN [vma_list EXCEPT ![p] = Inserted(list, vma)] ELSE vma_list
      /\ loading' = NextPage(p, k, i)
      /\ UNCHANGED booted
  BY DEF LoadPage
<1>4. shared' = shared
  BY <1>3 DEF MapFresh
<1> HIDE DEF p, k, i, value
<1>5. TablesTyped'
  BY <1>1, <1>2, <1>3, SpaceType, TypedMapFresh DEF MemoryTypes
<1>6. LoadingTyped'
  BY <1>1, <1>3, NextPageType DEF LoadingTyped
<1>7. ListsTyped'
  <2>1. CASE k <= Len(Image) /\ i = PageCount(k)
    <3>1. list \in Seq(Vmas) /\ Ordered(list)
      BY <1>1 DEF MemoryTypes, ListsTyped
    <3> HIDE DEF list
    <3>2. Inserted(list, vma) \in Seq(Vmas) /\ Ordered(Inserted(list, vma))
      BY <1>1, <2>1, <3>1, SegmentArea
    <3> HIDE DEF vma
    <3> QED
      BY <1>1, <1>3, <2>1, <3>2 DEF MemoryTypes, ListsTyped
  <2>2. CASE ~(k <= Len(Image) /\ i = PageCount(k))
    BY <1>3, <2>2 DEF MemoryTypes, ListsTyped
  <2> QED
    BY <2>1, <2>2
<1> QED
  BY <1>3, <1>4, <1>5, <1>6, <1>7 DEF MemoryTypes

LEMMA TypedStep == MemoryTypes /\ [Next]_vars => MemoryTypes'
<1> SUFFICES ASSUME MemoryTypes, [Next]_vars PROVE MemoryTypes'
  OBVIOUS
<1>1. TablesTyped /\ ListsTyped /\ LoadingTyped /\ shared \in BOOLEAN /\ booted \in BOOLEAN
  BY DEF MemoryTypes
<1>2. ASSUME UNCHANGED <<allocator, frame_at, writable, content, halted>> PROVE TablesTyped'
  BY <1>1, <1>2 DEF TablesTyped
<1>3. ASSUME UNCHANGED vma_list PROVE ListsTyped'
  BY <1>1, <1>3 DEF ListsTyped
<1>4. ASSUME UNCHANGED loading PROVE LoadingTyped'
  BY <1>1, <1>4 DEF LoadingTyped
<1>5. CASE InitHeapPage
  <2>1. PICK i \in 1 .. HeapPages : Occupy(HeapPlace(i))
    BY <1>5 DEF InitHeapPage
  <2>2. TablesTyped'
    BY <1>1, <2>1, PlaceTypes, TypedOccupy
  <2> QED
    BY <1>1, <1>3, <1>4, <1>5, <2>1, <2>2 DEF InitHeapPage, Occupy, boot, MemoryTypes
<1>6. ASSUME NEW p \in Procs, NewProcess(p) PROVE MemoryTypes'
  <2>1. TablesTyped' /\ UNCHANGED <<shared, vma_list, booted>>
    BY <1>1, <1>6, PlaceTypes, TypedOccupy DEF NewProcess, Occupy
  <2>2. LoadingTyped'
    <3>1. CASE p \in UserProcs
      <4>1. 1 \in Stages /\ PageCount(1) \in Nat /\ PageCount(1) >= 1
        BY ImageLen, PageAtType
      <4>2. loading' = <<p, 1, 1>> /\ 1 \in 1 .. PageCount(1)
        BY <1>6, <3>1, <4>1 DEF NewProcess
      <4> QED
        BY <3>1, <4>1, <4>2 DEF LoadingTyped
    <3>2. CASE p \notin UserProcs
      BY <1>4, <1>6, <3>2 DEF NewProcess
    <3> QED
      BY <3>1, <3>2
  <2> QED
    BY <1>1, <1>3, <2>1, <2>2 DEF MemoryTypes
<1>7. CASE LoadPage
  BY <1>7, TypedLoad
<1>8. CASE StartScheduling
  BY <1>1, <1>2, <1>3, <1>4, <1>8 DEF StartScheduling, spaces, MemoryTypes
<1>9. ASSUME NEW p \in Procs, NEW pg \in Pages, NEW v \in Values, Store(p, pg, v) PROVE MemoryTypes'
  <2> DEFINE f == frame_at[PagePlace(Space(p), pg)]
  <2>1. content' = [content EXCEPT ![f] = v] /\ v \in Kinds
    BY <1>9 DEF Store, Kinds
  <2> HIDE DEF f
  <2>2. content' \in [Frames -> Kinds]
    BY <1>1, <2>1 DEF TablesTyped
  <2>3. TablesTyped'
    BY <1>1, <1>9, <2>2 DEF Store, TablesTyped
  <2> QED
    BY <1>1, <1>3, <1>4, <1>9, <2>3 DEF Store, boot, MemoryTypes
<1>10. ASSUME NEW p \in Procs, NEW pg \in Pages, NEW write \in BOOLEAN, SegmentationFault(p, pg, write)
       PROVE  MemoryTypes'
  <2>1. TablesTyped'
    BY <1>1, <1>10 DEF SegmentationFault, spaces, TablesTyped
  <2> QED
    BY <1>1, <1>3, <1>4, <1>10, <2>1 DEF SegmentationFault, spaces, boot, MemoryTypes
<1>11. ASSUME NEW p \in Procs, NEW pg \in Pages, NEW write \in BOOLEAN, DemandAllocate(p, pg, write)
       PROVE  MemoryTypes'
  <2>1. PICK i \in FindVma(vma_list[p], pg) :
          MapFresh(Space(p), pg, vma_list[p][i].write /\ ~vma_list[p][i].cow, Zero)
    BY <1>11 DEF DemandAllocate
  <2>2. (vma_list[p][i].write /\ ~vma_list[p][i].cow) \in BOOLEAN /\ Zero \in Kinds
    BY DEF Kinds
  <2>3. TablesTyped' /\ UNCHANGED shared
    BY <1>1, <2>1, <2>2, SpaceType, TypedMapFresh DEF MapFresh
  <2> QED
    BY <1>1, <1>3, <1>4, <1>11, <2>3 DEF DemandAllocate, boot, MemoryTypes
<1>12. ASSUME NEW p \in Procs, NEW pg \in Pages, CowResolve(p, pg) PROVE MemoryTypes'
  <2>1. PICK i \in FindVma(vma_list[p], pg) : vma_list' = [vma_list EXCEPT ![p][i].cow = FALSE]
    BY <1>12 DEF CowResolve
  <2>2. i \in 1 .. Len(vma_list[p]) /\ vma_list[p] \in Seq(Vmas) /\ Ordered(vma_list[p])
    BY <1>1 DEF FindVma, ListsTyped
  <2> DEFINE new == [vma_list[p] EXCEPT ![i].cow = FALSE]
  <2>3. new \in Seq(Vmas) /\ Ordered(new)
    BY <2>2, CowCleared
  <2>4. vma_list' = [vma_list EXCEPT ![p] = new]
    BY <2>1
  <2> HIDE DEF new
  <2>5. ListsTyped'
    BY <1>1, <2>3, <2>4 DEF ListsTyped
  <2>6. writable' \in [Spaces -> SUBSET Pages]
    <3> DEFINE more == writable[Space(p)] \cup {pg}
    <3>1. writable' = [writable EXCEPT ![Space(p)] = more] /\ more \subseteq Pages
      BY <1>1, <1>12, SpaceType DEF CowResolve, TablesTyped
    <3> HIDE DEF more
    <3> QED
      BY <1>1, <3>1 DEF TablesTyped
  <2>7. TablesTyped'
    BY <1>1, <1>12, <2>6 DEF CowResolve, TablesTyped
  <2> QED
    BY <1>1, <1>4, <1>12, <2>5, <2>7 DEF CowResolve, boot, MemoryTypes
<1>13. ASSUME NEW p \in UserProcs, NEW r \in Ranges, NEW w \in BOOLEAN, InsertVma(p, r[1], r[2], w)
       PROVE  MemoryTypes'
  <2> DEFINE vma == Area(r[1], r[2], w)
             list == vma_list[p]
             new == Inserted(list, vma)
  <2>1. r[1] \in Nat /\ r[2] \in Nat /\ r[1] <= r[2]
    BY SpacesAssumption
  <2>2. vma \in Vmas /\ vma.start < vma.end
    BY <2>1 DEF Area, Vmas
  <2>3. list \in Seq(Vmas) /\ Ordered(list) /\ p \in Procs
    BY <1>1 DEF ListsTyped, Procs
  <2>4. vma_list' = [vma_list EXCEPT ![p] = new]
    BY <1>13 DEF InsertVma
  <2> HIDE DEF vma, list
  <2>5. new \in Seq(Vmas) /\ Ordered(new)
    BY <2>2, <2>3, InsertedOrdered
  <2> HIDE DEF new
  <2>6. ListsTyped'
    BY <1>1, <2>3, <2>4, <2>5 DEF ListsTyped
  <2> QED
    BY <1>1, <1>2, <1>4, <1>13, <2>6 DEF InsertVma, spaces, boot, MemoryTypes
<1>14. ASSUME NEW p \in UserProcs, NEW c \in ForkedProcs, CowForkVmas(p, c) PROVE MemoryTypes'
  <2> DEFINE new == Forked(vma_list[p])
  <2>1. p \in Procs /\ c \in Procs /\ vma_list[p] \in Seq(Vmas) /\ Ordered(vma_list[p])
    BY <1>1 DEF ListsTyped, Procs
  <2>2. new \in Seq(Vmas) /\ Ordered(new)
    BY <2>1, ForkedIs
  <2>3. vma_list' = [vma_list EXCEPT ![p] = new, ![c] = new]
    BY <1>14 DEF CowForkVmas, Forked
  <2> HIDE DEF new
  <2>4. ListsTyped'
    BY <1>1, <2>1, <2>2, <2>3 DEF ListsTyped
  <2> QED
    BY <1>1, <1>2, <1>4, <1>14, <2>4 DEF CowForkVmas, spaces, boot, MemoryTypes
<1>15. CASE UNCHANGED vars
  BY <1>1, <1>2, <1>3, <1>4, <1>15 DEF vars, spaces, boot, MemoryTypes
<1> QED
  BY <1>5, <1>6, <1>7, <1>8, <1>9, <1>10, <1>11, <1>12, <1>13, <1>14, <1>15 DEF Next

\* Types and ranges; in particular a frame in use is aligned and lies in a usable
\* region, for every memory map, and the areas of a process stay in order.
THEOREM Memory_TypeOK == Spec => []TypeOK
<1>1. MemoryTypes => TypeOK
  <2> SUFFICES ASSUME MemoryTypes PROVE TypeOK
    OBVIOUS
  <2>1. allocator.region_idx \in 1 .. Len(MemoryMap) + 1 /\ allocator.next_addr \in Nat
    BY Sizes DEF MemoryTypes, TablesTyped, AllocatorFits, AllocatorOK
  <2>2. \A p \in Procs : \A i \in 1 .. Len(vma_list[p]) :
          /\ vma_list[p][i].start < vma_list[p][i].end
          /\ i > 1 => vma_list[p][i - 1].start <= vma_list[p][i].start
    BY DEF MemoryTypes, ListsTyped, Ordered
  <2> QED
    BY <2>1, <2>2 DEF TypeOK, MemoryTypes, TablesTyped, LoadingTyped, Kinds
<1> QED
  BY <1>1, TypedInit, TypedStep, PTL DEF Spec

-----------------------------------------------------------------------------
(* Contents.  What MapFresh does to the pages that can be seen: a fresh frame *)
(* is nobody else's, so that only the page it is for changes.                 *)

Kept(s, pg) ==
  /\ frame_at'[PagePlace(s, pg)] = frame_at[PagePlace(s, pg)]
  /\ Mapped(s, pg) => content'[frame_at[PagePlace(s, pg)]] = content[frame_at[PagePlace(s, pg)]]

LEMMA MapFreshEffect ==
  ASSUME MemoryTypes, FramesInv, NEW s \in Spaces, NEW pg \in Pages, NEW w \in BOOLEAN,
         NEW value \in Kinds, MapFresh(s, pg, w, value)
  PROVE  /\ \A other \in Spaces, q \in Pages : other # s \/ q # pg => Kept(other, q)
         /\ halted' => frame_at'[PagePlace(s, pg)] = NoFrame /\ UNCHANGED writable
         /\ ~halted' => /\ frame_at'[PagePlace(s, pg)] \in Frames
                        /\ content'[frame_at'[PagePlace(s, pg)]] = value
                        /\ writable' = [writable EXCEPT ![s] = IF w THEN writable[s] \cup {pg}
                                                               ELSE writable[s] \ {pg}]
<1> DEFINE place == PagePlace(s, pg)
           beside == TablePlace(s, pg)
           table == frame_at[beside]
           f == FrameOf(allocator)
           t == IF table # NoFrame THEN table ELSE FrameOf(After(allocator))
<1>1. /\ place \in Places /\ beside \in Places /\ place # beside
      /\ \A other \in Spaces, q \in Pages :
           /\ PagePlace(other, q) \in Places /\ PagePlace(other, q) # beside
           /\ other # s \/ q # pg => PagePlace(other, q) # place
  <2>1. \A other \in Spaces, q \in Pages :
           /\ PagePlace(other, q) # beside
           /\ other # s \/ q # pg => PagePlace(other, q) # place
    BY DEF PagePlace, TablePlace
  <2> QED
    BY <2>1, PlaceTypes
<1>2. halted' = (NoFrame \in {f, t})
  BY DEF MapFresh
<1>3. /\ frame_at \in [Places -> Frames \cup {NoFrame}] /\ content \in [Frames -> Kinds]
      /\ f \in Frames \cup {NoFrame} /\ AllocatorOK(allocator)
      /\ \A pl \in Places : frame_at[pl] # NoFrame => Behind(allocator, frame_at[pl])
  BY FrameOfFits DEF MemoryTypes, TablesTyped, FramesInv, Owned
<1>4. ASSUME f # NoFrame PROVE \A g : Behind(allocator, g) => g # f
  BY <1>3, <1>4, AllocateFresh
<1> HIDE DEF place, beside, table, f, t
<1>5. CASE halted'
  <2>1. frame_at' = [frame_at EXCEPT ![place] = NoFrame] /\ UNCHANGED <<writable, content>>
    BY <1>5 DEF MapFresh, place
  <2>2. \A other \in Spaces, q \in Pages : other # s \/ q # pg => Kept(other, q)
    BY <1>1, <1>3, <2>1 DEF Kept
  <2>3. frame_at'[place] = NoFrame
    BY <1>1, <1>3, <2>1
  <2> QED
    BY <1>5, <2>1, <2>2, <2>3 DEF place
<1>6. CASE ~halted'
  <2>1. /\ frame_at' = [frame_at EXCEPT ![place] = f, ![beside] = t]
        /\ writable' = [writable EXCEPT ![s] = IF w THEN writable[s] \cup {pg} ELSE writable[s] \ {pg}]
        /\ content' = [content EXCEPT ![f] = value]
    BY <1>6, Zenon DEF MapFresh, place, beside, f, t, table
  <2>2. f # NoFrame /\ f \in Frames
    BY <1>2, <1>3, <1>6
  <2>3. frame_at'[place] = f /\ content'[f] = value
    BY <1>1, <1>3, <2>1, <2>2
  <2>4. ASSUME NEW other \in Spaces, NEW q \in Pages, other # s \/ q # pg PROVE Kept(other, q)
    <3> DEFINE pl == PagePlace(other, q)
    <3>1. pl \in Places /\ pl # beside /\ pl # place
      BY <1>1, <2>4
    <3>2. frame_at'[pl] = frame_at[pl]
      BY <1>3, <2>1, <3>1
    <3>3. ASSUME frame_at[pl] # NoFrame PROVE content'[frame_at[pl]] = content[frame_at[pl]]
      <4>1. frame_at[pl] # f /\ frame_at[pl] \in Frames
        BY <1>3, <1>4, <2>2, <3>1, <3>3
      <4> QED
        BY <1>3, <2>1, <4>1
    <3> QED
      BY <3>2, <3>3 DEF Kept, Mapped
  <2> QED
    BY <1>6, <2>1, <2>2, <2>3, <2>4 DEF place
<1> QED
  BY <1>5, <1>6

\* Steps that change no content and map no page change nothing that can be seen.
LEMMA NothingSeen ==
  ASSUME UNCHANGED <<frame_at, content>> PROVE Seen' = Seen
BY DEF Seen, Mapped

LEMMA OccupyUnseen ==
  ASSUME MemoryTypes, NEW place, Occupy(place), \A s \in Spaces, pg \in Pages : PagePlace(s, pg) # place
  PROVE  /\ \A s \in Spaces, pg \in Pages : Kept(s, pg)
         /\ Seen' = Seen
<1>1. frame_at' = [frame_at EXCEPT ![place] = FrameOf(allocator)] /\ UNCHANGED content
  BY DEF Occupy
<1>2. \A s \in Spaces, pg \in Pages : frame_at'[PagePlace(s, pg)] = frame_at[PagePlace(s, pg)]
  BY <1>1, PlaceTypes DEF MemoryTypes, TablesTyped
<1> QED
  BY <1>1, <1>2 DEF Seen, Mapped, Kept

\* A process that is loading has not been started.
BootOver == booted => loading = Idle

LEMMA BootOverStep == MemoryTypes /\ BootOver /\ [Next]_vars => BootOver'
<1> SUFFICES ASSUME MemoryTypes, BootOver, [Next]_vars PROVE BootOver'
  OBVIOUS
<1>1. loading[1] = NoProc => loading = Idle
  BY SpacesAssumption DEF MemoryTypes, LoadingTyped, Procs
<1>2. loading = Idle => loading[1] = NoProc
  BY DEF Idle
<1>3. ASSUME UNCHANGED <<loading, booted>> PROVE BootOver'
  BY <1>3 DEF BootOver
<1>4. CASE InitHeapPage
  BY <1>3, <1>4 DEF InitHeapPage, boot
<1>5. ASSUME NEW p \in Procs, NewProcess(p) PROVE BootOver'
  BY <1>5 DEF NewProcess, BootOver
<1>6. CASE LoadPage
  BY <1>2, <1>6 DEF LoadPage, BootOver
<1>7. CASE StartScheduling
  BY <1>1, <1>7 DEF StartScheduling, BootOver
<1>8. ASSUME NEW p \in Procs, NEW pg \in Pages, NEW v \in Values, Store(p, pg, v) PROVE BootOver'
  BY <1>3, <1>8 DEF Store, boot
<1>9. ASSUME NEW p \in Procs, NEW pg \in Pages, NEW write \in BOOLEAN, SegmentationFault(p, pg, write)
      PROVE  BootOver'
  BY <1>3, <1>9 DEF SegmentationFault, boot
<1>10. ASSUME NEW p \in Procs, NEW pg \in Pages, NEW write \in BOOLEAN, DemandAllocate(p, pg, write)
       PROVE  BootOver'
  BY <1>3, <1>10 DEF DemandAllocate, boot
<1>11. ASSUME NEW p \in Procs, NEW pg \in Pages, CowResolve(p, pg) PROVE BootOver'
  BY <1>3, <1>11 DEF CowResolve, boot
<1>12. ASSUME NEW p \in UserProcs, NEW r \in Ranges, NEW w \in BOOLEAN, InsertVma(p, r[1], r[2], w)
       PROVE  BootOver'
  BY <1>3, <1>12 DEF InsertVma, boot
<1>13. ASSUME NEW p \in UserProcs, NEW c \in ForkedProcs, CowForkVmas(p, c) PROVE BootOver'
  BY <1>3, <1>13 DEF CowForkVmas, boot
<1>14. CASE UNCHANGED vars
  BY <1>3, <1>14 DEF vars, boot
<1> QED
  BY <1>4, <1>5, <1>6, <1>7, <1>8, <1>9, <1>10, <1>11, <1>12, <1>13, <1>14 DEF Next

\* A store is seen in one page of one space.
LEMMA StoreSeen ==
  ASSUME MemoryTypes, FramesInv, NEW p \in Procs, NEW pg \in Pages, NEW v \in Values, Store(p, pg, v)
  PROVE  \A s \in Spaces, q \in Pages :
           /\ frame_at'[PagePlace(s, q)] = frame_at[PagePlace(s, q)]
           /\ Mapped(s, q) =>
                content'[frame_at[PagePlace(s, q)]] =
                  IF s = Space(p) /\ q = pg THEN v ELSE content[frame_at[PagePlace(s, q)]]
<1> DEFINE place == PagePlace(Space(p), pg)
           f == frame_at[place]
<1>1. place \in Places /\ Space(p) \in Spaces
  BY SpaceType, PlaceTypes
<1>2. frame_at \in [Places -> Frames \cup {NoFrame}] /\ content \in [Frames -> Kinds]
  BY DEF MemoryTypes, TablesTyped
<1>3. f # NoFrame /\ content' = [content EXCEPT ![f] = v] /\ UNCHANGED frame_at
  BY DEF Store, Mapped
<1> SUFFICES ASSUME NEW s \in Spaces, NEW q \in Pages
             PROVE  Mapped(s, q) =>
                      content'[frame_at[PagePlace(s, q)]] =
                        IF s = Space(p) /\ q = pg THEN v ELSE content[frame_at[PagePlace(s, q)]]
  BY <1>3
<1> DEFINE other == PagePlace(s, q)
<1>4. other \in Places
  BY PlaceTypes
<1>5. other = place => s = Space(p) /\ q = pg
  BY DEF PagePlace
<1>6. s = Space(p) /\ q = pg => other = place
  OBVIOUS
<1> HIDE DEF place, other
<1>7. frame_at[other] = f => other = place
  BY <1>1, <1>3, <1>4 DEF FramesInv, Owned
<1> QED
  BY <1>1, <1>2, <1>3, <1>4, <1>5, <1>6, <1>7 DEF Mapped, other

LEMMA StepImplements ==
  MemoryTypes /\ FramesInv /\ BootOver /\ [Next]_vars => [Contents!ANext]_<<booted, Seen>>
<1> SUFFICES ASSUME MemoryTypes, FramesInv, BootOver, [Next]_vars
             PROVE  Contents!ANext \/ UNCHANGED <<booted, Seen>>
  OBVIOUS
<1>1. DOMAIN Seen' = Spaces \X Pages /\ DOMAIN Seen = Spaces \X Pages
  BY DEF Seen
<1>2. MemoryTypes'
  BY TypedStep
<1>3. CASE ~booted
  <2>1. Contents!Load
    BY <1>1, <1>2, <1>3 DEF Contents!Load, MemoryTypes
  <2> QED
    BY <2>1 DEF Contents!ANext
<1> SUFFICES ASSUME booted PROVE Contents!ANext \/ UNCHANGED <<booted, Seen>>
  BY <1>3
<1>4. loading[1] = NoProc
  BY DEF BootOver, Idle
<1>5. ASSUME UNCHANGED <<booted, frame_at, content>> PROVE UNCHANGED <<booted, Seen>>
  BY <1>5, NothingSeen
<1>6. CASE InitHeapPage
  <2>1. PICK i \in 1 .. HeapPages : Occupy(HeapPlace(i))
    BY <1>6 DEF InitHeapPage
  <2>2. \A s \in Spaces, pg \in Pages : PagePlace(s, pg) # HeapPlace(i)
    BY DEF PagePlace, HeapPlace
  <2> QED
    BY <1>6, <2>1, <2>2, OccupyUnseen DEF InitHeapPage, boot
<1>7. ASSUME NEW p \in Procs, NewProcess(p) PROVE FALSE
  BY <1>7 DEF NewProcess
<1>8. CASE LoadPage
  BY <1>4, <1>8 DEF LoadPage
<1>9. CASE StartScheduling
  BY <1>9 DEF StartScheduling
<1>10. ASSUME NEW p \in Procs, NEW pg \in Pages, NEW v \in Values, Store(p, pg, v)
       PROVE  Contents!ANext
  <2> DEFINE c == <<Space(p), pg>>
  <2>1. c \in Spaces \X Pages /\ Mapped(Space(p), pg) /\ booted' = booted
    BY <1>10, SpaceType DEF Store, boot
  <2>2. \A s \in Spaces, q \in Pages :
           /\ frame_at'[PagePlace(s, q)] = frame_at[PagePlace(s, q)]
           /\ Mapped(s, q) =>
                content'[frame_at[PagePlace(s, q)]] =
                  IF s = Space(p) /\ q = pg THEN v ELSE content[frame_at[PagePlace(s, q)]]
    BY <1>10, StoreSeen
  <2>3. Seen'[c] = v
    BY <2>1, <2>2 DEF Seen, Mapped
  <2>4. ASSUME NEW d \in (Spaces \X Pages) \ {c} PROVE Seen'[d] = Seen[d]
    <3>1. d = <<d[1], d[2]>> /\ d[1] \in Spaces /\ d[2] \in Pages
      BY <2>4
    <3>2. ~(d[1] = Space(p) /\ d[2] = pg)
      BY <2>4, <3>1
    <3> QED
      BY <2>2, <3>1, <3>2 DEF Seen, Mapped
  <2>5. Contents!Store(c)
    BY <1>1, <2>1, <2>3, <2>4 DEF Contents!Store
  <2> QED
    BY <2>1, <2>5 DEF Contents!ANext
<1>11. ASSUME NEW p \in Procs, NEW pg \in Pages, NEW write \in BOOLEAN, SegmentationFault(p, pg, write)
       PROVE  UNCHANGED <<booted, Seen>>
  BY <1>5, <1>11 DEF SegmentationFault, spaces, boot
<1>12. ASSUME NEW p \in Procs, NEW pg \in Pages, NEW write \in BOOLEAN, DemandAllocate(p, pg, write)
       PROVE  UNCHANGED <<booted, Seen>>
  <2>1. PICK i \in FindVma(vma_list[p], pg) :
          MapFresh(Space(p), pg, vma_list[p][i].write /\ ~vma_list[p][i].cow, Zero)
    BY <1>12 DEF DemandAllocate
  <2>2. Zero \in Kinds /\ (vma_list[p][i].write /\ ~vma_list[p][i].cow) \in BOOLEAN
        /\ Space(p) \in Spaces /\ frame_at[PagePlace(Space(p), pg)] = NoFrame
    BY <1>12, SpaceType DEF Kinds, DemandAllocate, Mapped
  <2>3. /\ \A other \in Spaces, q \in Pages : other # Space(p) \/ q # pg => Kept(other, q)
        /\ \/ frame_at'[PagePlace(Space(p), pg)] = NoFrame
           \/ /\ frame_at'[PagePlace(Space(p), pg)] # NoFrame
              /\ content'[frame_at'[PagePlace(Space(p), pg)]] = Zero
    <3> DEFINE s == Space(p)
               w == vma_list[p][i].write /\ ~vma_list[p][i].cow
    <3>1. s \in Spaces /\ w \in BOOLEAN /\ MapFresh(s, pg, w, Zero)
      BY <2>1, <2>2
    <3> HIDE DEF s, w
    <3>2. /\ \A other \in Spaces, q \in Pages : other # s \/ q # pg => Kept(other, q)
          /\ halted' => frame_at'[PagePlace(s, pg)] = NoFrame
          /\ ~halted' => /\ frame_at'[PagePlace(s, pg)] \in Frames
                         /\ content'[frame_at'[PagePlace(s, pg)]] = Zero
      BY <2>2, <3>1, MapFreshEffect
    <3>3. frame_at'[PagePlace(s, pg)] = NoFrame \/ frame_at'[PagePlace(s, pg)] # NoFrame
      OBVIOUS
    <3> QED
      BY <3>2, <3>3, FramesAreNumbers DEF s
  <2>4. ASSUME NEW c \in Spaces \X Pages PROVE Seen'[c] = Seen[c]
    <3>1. c[1] \in Spaces /\ c[2] \in Pages
      OBVIOUS
    <3>2. CASE c[1] = Space(p) /\ c[2] = pg
      BY <2>2, <2>3, <3>2 DEF Seen, Mapped
    <3>3. CASE ~(c[1] = Space(p) /\ c[2] = pg)
      BY <2>3, <3>1, <3>3 DEF Seen, Mapped, Kept
    <3> QED
      BY <3>2, <3>3
  <2>5. Seen' = Seen
    BY <2>4 DEF Seen
  <2> QED
    BY <1>12, <2>5 DEF DemandAllocate, boot
<1>13. ASSUME NEW p \in Procs, NEW pg \in Pages, CowResolve(p, pg) PROVE UNCHANGED <<booted, Seen>>
  BY <1>5, <1>13 DEF CowResolve, boot
<1>14. ASSUME NEW p \in UserProcs, NEW r \in Ranges, NEW w \in BOOLEAN, InsertVma(p, r[1], r[2], w)
       PROVE  UNCHANGED <<booted, Seen>>
  BY <1>5, <1>14 DEF InsertVma, spaces, boot
<1>15. ASSUME NEW p \in UserProcs, NEW c \in ForkedProcs, CowForkVmas(p, c) PROVE UNCHANGED <<booted, Seen>>
  BY <1>5, <1>15 DEF CowForkVmas, spaces, boot
<1>16. CASE UNCHANGED vars
  BY <1>5, <1>16 DEF vars, spaces, boot
<1> QED
  BY <1>6, <1>7, <1>8, <1>9, <1>10, <1>11, <1>12, <1>13, <1>14, <1>15, <1>16 DEF Next

LEMMA InitImplements == Init => Contents!AInit
BY PlaceTypes DEF Init, Contents!AInit, Seen, Mapped

\* Page faults, fresh pages, remapped pages and page tables cannot be seen: the
\* contents of a page change only by a store into it, in its own space.
THEOREM Memory_KeepsContents == Spec => MemoryKept
<1>1. Init => MemoryTypes /\ FramesInv /\ BootOver
  BY TypedInit, OwnedInit DEF Init, BootOver
<1>2. MemoryTypes /\ FramesInv /\ BootOver /\ [Next]_vars => (MemoryTypes /\ FramesInv /\ BootOver)'
  BY TypedStep, OwnedStep, BootOverStep
<1> QED
  BY <1>1, <1>2, InitImplements, StepImplements, PTL DEF Spec, MemoryKept, Contents!ASpec

-----------------------------------------------------------------------------
(* The images.  Pages are loaded in the order of loading, and what is loaded  *)
(* stays: a page that a later one replaces has no data of the earlier.        *)

Before(k, i) == k < loading[2] \/ (k = loading[2] /\ i < loading[3])

\* Page i of stage k is still to be loaded into space s.
Pending(s, k, i) == loading[1] # NoProc /\ Space(loading[1]) = s /\ ~Before(k, i)

Loaded(s, k, i) ==
  /\ Mapped(s, PageAt(k, i))
  /\ booted \/ PageAt(k, i) \in writable[s]
  /\ k <= Len(Image) /\ HasData(k, PageAt(k, i)) =>
       content[frame_at[PagePlace(s, PageAt(k, i))]] \in {k} \cup Values

Progress ==
  ~halted \/ booted =>
    \A p \in UserProcs, k \in Stages : \A i \in 1 .. PageCount(k) :
      frame_at[RootPlace(p)] # NoFrame /\ ~Pending(Space(p), k, i) => Loaded(Space(p), k, i)

RootsFirst ==
  /\ booted => \A p \in Procs : frame_at[RootPlace(p)] # NoFrame
  /\ loading[1] # NoProc /\ ~halted => frame_at[RootPlace(loading[1])] # NoFrame

SameRoots == \A p \in Procs : frame_at'[RootPlace(p)] = frame_at[RootPlace(p)]

LEMMA MapFreshRoots ==
  ASSUME MemoryTypes, NEW s \in Spaces, NEW pg \in Pages, NEW w, NEW value, MapFresh(s, pg, w, value)
  PROVE  SameRoots /\ UNCHANGED shared
<1> DEFINE place == PagePlace(s, pg)
           beside == TablePlace(s, pg)
<1>1. \A p \in Procs : RootPlace(p) \in Places /\ RootPlace(p) # place /\ RootPlace(p) # beside
  BY PlaceTypes DEF RootPlace, PagePlace, TablePlace
<1>2. frame_at \in [Places -> Frames \cup {NoFrame}]
  BY DEF MemoryTypes, TablesTyped
<1>3. \E f, t : \/ frame_at' = [frame_at EXCEPT ![place] = f]
                \/ frame_at' = [frame_at EXCEPT ![place] = f, ![beside] = t]
  BY DEF MapFresh
<1>4. UNCHANGED shared
  BY DEF MapFresh
<1> HIDE DEF place, beside
<1> QED
  BY <1>1, <1>2, <1>3, <1>4 DEF SameRoots

LEMMA LoadedKept ==
  ASSUME NEW s \in Spaces, NEW k \in Stages, NEW i \in 1 .. PageCount(k), Loaded(s, k, i),
         Kept(s, PageAt(k, i)), booted => booted',
         PageAt(k, i) \in writable[s] => booted' \/ PageAt(k, i) \in writable'[s]
  PROVE  Loaded(s, k, i)'
BY DEF Loaded, Kept, Mapped

LEMMA ProgressKept ==
  ASSUME Progress, SameRoots, UNCHANGED <<shared, loading>>, ~halted' \/ booted' => ~halted \/ booted,
         \A s \in Spaces, k \in Stages : \A i \in 1 .. PageCount(k) : Loaded(s, k, i) => Loaded(s, k, i)'
  PROVE  Progress'
<1>1. \A p \in Procs : Space(p) \in Spaces /\ Space(p)' = Space(p)
  BY SpaceType DEF Space
<1>2. \A p \in UserProcs : p \in Procs
  BY DEF Procs
<1> SUFFICES ASSUME ~halted' \/ booted', NEW p \in UserProcs, NEW k \in Stages, NEW i \in 1 .. PageCount(k),
                    frame_at'[RootPlace(p)] # NoFrame, ~Pending(Space(p), k, i)'
             PROVE  Loaded(Space(p), k, i)'
  BY DEF Progress
<1>3. frame_at[RootPlace(p)] # NoFrame
  BY <1>2 DEF SameRoots
<1>4. ~Pending(Space(p), k, i)
  BY <1>1, <1>2 DEF Pending, Before, Space
<1>5. Loaded(Space(p), k, i)
  BY <1>3, <1>4 DEF Progress
<1> QED
  BY <1>1, <1>2, <1>5

\* What comes before the next page is what came before this one, and this one.
LEMMA NextPageAfter ==
  ASSUME NEW p \in UserProcs, NEW k \in Stages, NEW i \in 1 .. PageCount(k),
         NEW j \in Stages, NEW n \in 1 .. PageCount(j),
         LET next == NextPage(p, k, i)
         IN  next[1] = NoProc \/ j < next[2] \/ (j = next[2] /\ n < next[3])
  PROVE  j < k \/ (j = k /\ n < i) \/ (j = k /\ n = i)
<1>1. /\ PageCount(k) \in Nat /\ k \in Nat /\ j \in Nat /\ n \in Nat /\ i \in Nat
      /\ j <= Len(Image) + 1 /\ n <= PageCount(j) /\ Len(Image) \in Nat
      /\ p # NoProc
  BY PageAtType, ImageLen, SpacesAssumption DEF Procs
<1>2. CASE i < PageCount(k)
  <2>1. NextPage(p, k, i) = <<p, k, i + 1>>
    BY <1>2 DEF NextPage
  <2> QED
    BY <1>1, <2>1
<1>3. CASE ~(i < PageCount(k)) /\ k <= Len(Image)
  <2>1. NextPage(p, k, i) = <<p, k + 1, 1>>
    BY <1>3 DEF NextPage
  <2>2. j <= k
    BY <1>1, <2>1
  <2> QED
    BY <1>1, <1>3, <2>2
<1>4. CASE ~(i < PageCount(k)) /\ ~(k <= Len(Image))
  <2>1. j <= k
    BY <1>1, <1>4
  <2> QED
    BY <1>1, <1>4, <2>1
<1> QED
  BY <1>2, <1>3, <1>4

LEMMA RootsFirstStep == MemoryTypes /\ RootsFirst /\ [Next]_vars => RootsFirst'
<1> SUFFICES ASSUME MemoryTypes, RootsFirst, [Next]_vars PROVE RootsFirst'
  OBVIOUS
<1>1. ASSUME UNCHANGED <<loading, booted>>, SameRoots, ~halted' => ~halted PROVE RootsFirst'
  <2>1. loading[1] # NoProc => loading[1] \in Procs
    BY LoadingIs DEF MemoryTypes
  <2> QED
    BY <1>1, <2>1 DEF RootsFirst, SameRoots
<1>2. ASSUME UNCHANGED <<frame_at, loading, booted>>, ~halted PROVE RootsFirst'
  BY <1>2 DEF RootsFirst
<1>3. CASE InitHeapPage
  <2>1. PICK i \in 1 .. HeapPages : Occupy(HeapPlace(i))
    BY <1>3 DEF InitHeapPage
  <2>2. SameRoots
    <3>1. \A p \in Procs : RootPlace(p) \in Places /\ RootPlace(p) # HeapPlace(i)
      BY PlaceTypes DEF RootPlace, HeapPlace
    <3> QED
      BY <2>1, <3>1 DEF SameRoots, Occupy, MemoryTypes, TablesTyped
  <2> QED
    BY <1>1, <1>3, <2>2 DEF InitHeapPage, boot
<1>4. ASSUME NEW p \in Procs, NewProcess(p) PROVE RootsFirst'
  <2>1. frame_at' = [frame_at EXCEPT ![RootPlace(p)] = FrameOf(allocator)]
        /\ halted' = (FrameOf(allocator) = NoFrame)
    BY <1>4 DEF NewProcess, Occupy
  <2>2. RootPlace(p) \in DOMAIN frame_at
    BY PlaceTypes DEF MemoryTypes, TablesTyped
  <2>3. ~halted' => frame_at'[RootPlace(p)] # NoFrame
    BY <2>1, <2>2
  <2>4. ~booted /\ booted' = booted /\ loading[1] = NoProc
        /\ loading' = IF p \in UserProcs THEN <<p, 1, 1>> ELSE loading
    BY <1>4 DEF NewProcess
  <2> QED
    BY <2>3, <2>4 DEF RootsFirst
<1>5. CASE LoadPage
  <2>1. /\ loading[1] \in UserProcs /\ loading[1] \in Procs
        /\ PageAt(loading[2], loading[3]) \in Pages
    BY <1>5, LoadingIs DEF LoadPage, MemoryTypes
  <2>2. SameRoots
    BY <1>5, <2>1, SpaceType, MapFreshRoots DEF LoadPage
  <2>3. loading'[1] = loading[1] \/ loading'[1] = NoProc
    BY <1>5 DEF LoadPage, NextPage, Idle
  <2> QED
    BY <1>5, <2>1, <2>2, <2>3 DEF LoadPage, RootsFirst, SameRoots
<1>6. CASE StartScheduling
  BY <1>6 DEF StartScheduling, spaces, RootsFirst
<1>7. ASSUME NEW p \in Procs, NEW pg \in Pages, NEW v \in Values, Store(p, pg, v) PROVE RootsFirst'
  BY <1>2, <1>7 DEF Store, boot
<1>8. ASSUME NEW p \in Procs, NEW pg \in Pages, NEW write \in BOOLEAN, SegmentationFault(p, pg, write)
      PROVE  RootsFirst'
  BY <1>2, <1>8 DEF SegmentationFault, Faults, spaces, boot
<1>9. ASSUME NEW p \in Procs, NEW pg \in Pages, NEW write \in BOOLEAN, DemandAllocate(p, pg, write)
      PROVE  RootsFirst'
  BY <1>1, <1>9, SpaceType, MapFreshRoots DEF DemandAllocate, Faults, boot
<1>10. ASSUME NEW p \in Procs, NEW pg \in Pages, CowResolve(p, pg) PROVE RootsFirst'
  BY <1>2, <1>10 DEF CowResolve, Faults, boot
<1>11. ASSUME NEW p \in UserProcs, NEW r \in Ranges, NEW w \in BOOLEAN, InsertVma(p, r[1], r[2], w)
       PROVE  RootsFirst'
  BY <1>2, <1>11 DEF InsertVma, spaces, boot
<1>12. ASSUME NEW p \in UserProcs, NEW c \in ForkedProcs, CowForkVmas(p, c) PROVE RootsFirst'
  BY <1>2, <1>12 DEF CowForkVmas, spaces, boot
<1>13. CASE UNCHANGED vars
  BY <1>13 DEF vars, spaces, boot, RootsFirst
<1> QED
  BY <1>3, <1>4, <1>5, <1>6, <1>7, <1>8, <1>9, <1>10, <1>11, <1>12, <1>13 DEF Next

\* What LoadPage does to the page it loads, and to all others.
LEMMA LoadPageEffect ==
  ASSUME MemoryTypes, FramesInv, LoadPage
  PROVE  LET p == loading[1]
             k == loading[2]
             pg == PageAt(k, loading[3])
         IN  /\ \A s \in Spaces, q \in Pages : s # Space(p) \/ q # pg => Kept(s, q)
             /\ ~halted' => /\ frame_at'[PagePlace(Space(p), pg)] \in Frames
                            /\ k <= Len(Image) /\ HasData(k, pg) =>
                                 content'[frame_at'[PagePlace(Space(p), pg)]] = k
                            /\ writable' = [writable EXCEPT ![Space(p)] = writable[Space(p)] \cup {pg}]
<1> DEFINE p == loading[1]
           k == loading[2]
           pg == PageAt(k, loading[3])
           s == Space(p)
           value == IF k <= Len(Image) /\ HasData(k, pg) THEN k ELSE Junk
<1>1. p \in Procs /\ k \in Stages /\ pg \in Pages
  BY LoadingIs DEF LoadPage, MemoryTypes
<1>2. s \in Spaces /\ value \in Kinds
  BY <1>1, SpaceType, ImageLen DEF Kinds
<1>3. MapFresh(s, pg, TRUE, value)
  BY DEF LoadPage
<1> HIDE DEF p, k, pg, s, value
<1>4. /\ \A other \in Spaces, q \in Pages : other # s \/ q # pg => Kept(other, q)
      /\ ~halted' => /\ frame_at'[PagePlace(s, pg)] \in Frames
                     /\ content'[frame_at'[PagePlace(s, pg)]] = value
                     /\ writable' = [writable EXCEPT ![s] = writable[s] \cup {pg}]
  BY <1>1, <1>2, <1>3, MapFreshEffect
<1> QED
  BY <1>4 DEF s, p, k, pg, value

LEMMA ProgressLoad ==
  ASSUME MemoryTypes, FramesInv, BootOver, Progress, LoadPage
  PROVE  Progress'
<1> DEFINE p == loading[1]
           k == loading[2]
           i == loading[3]
           pg == PageAt(k, i)
           s == Space(p)
<1>1. p \in UserProcs /\ p \in Procs /\ k \in Stages /\ i \in 1 .. PageCount(k) /\ pg \in Pages /\ s \in Spaces
  BY LoadingIs, SpaceType DEF LoadPage, MemoryTypes
<1>2. ~halted /\ ~booted /\ booted' = booted /\ loading' = NextPage(p, k, i) /\ p # NoProc
  BY DEF LoadPage, BootOver, Idle
<1>3. SameRoots /\ UNCHANGED shared
  BY <1>1, MapFreshRoots DEF LoadPage
<1>4. /\ \A other \in Spaces, q \in Pages : other # s \/ q # pg => Kept(other, q)
      /\ ~halted' => /\ frame_at'[PagePlace(s, pg)] \in Frames
                     /\ k <= Len(Image) /\ HasData(k, pg) => content'[frame_at'[PagePlace(s, pg)]] = k
                     /\ writable' = [writable EXCEPT ![s] = writable[s] \cup {pg}]
  BY LoadPageEffect
<1>5. \A q \in Procs : Space(q) \in Spaces /\ Space(q)' = Space(q)
  BY <1>3, SpaceType DEF Space
<1> SUFFICES ASSUME ~halted', NEW q \in UserProcs, NEW j \in Stages, NEW n \in 1 .. PageCount(j),
                    frame_at'[RootPlace(q)] # NoFrame, ~Pending(Space(q), j, n)'
             PROVE  Loaded(Space(q), j, n)'
  BY <1>2 DEF Progress
<1> DEFINE other == Space(q)
           page == PageAt(j, n)
<1>6. q \in Procs /\ other \in Spaces /\ page \in Pages /\ Space(q)' = other
  BY <1>5, PageAtType DEF Procs
<1>7. frame_at[RootPlace(q)] # NoFrame
  BY <1>3, <1>6 DEF SameRoots
<1>8. ~Pending(other, j, n) => Loaded(other, j, n)
  BY <1>2, <1>7 DEF Progress
<1>9. loading'[1] = p \/ loading'[1] = NoProc
  BY <1>2 DEF NextPage, Idle
<1>10. other = s => \/ loading'[1] = NoProc
                    \/ j < loading'[2] \/ (j = loading'[2] /\ n < loading'[3])
  BY <1>2, <1>3, <1>6, <1>9 DEF Pending, Before, Space
<1>11. other = s => j < k \/ (j = k /\ n < i) \/ (j = k /\ n = i)
  BY <1>1, <1>2, <1>10, NextPageAfter
<1>12. writable \in [Spaces -> SUBSET Pages]
  BY DEF MemoryTypes, TablesTyped
<1>13. page \in writable[other] => page \in writable'[other]
  BY <1>4, <1>6, <1>12
<1>14. CASE other # s
  <2>1. Loaded(other, j, n)
    BY <1>8, <1>14 DEF Pending
  <2> QED
    BY <1>2, <1>4, <1>6, <1>13, <1>14, <2>1, LoadedKept
<1>15. CASE other = s /\ (j < k \/ (j = k /\ n < i))
  <2>1. Loaded(other, j, n)
    BY <1>8, <1>15 DEF Pending, Before
  <2>2. CASE page # pg
    BY <1>2, <1>4, <1>6, <1>13, <2>1, <2>2, LoadedKept
  <2>3. CASE page = pg
    <3>1. j <= Len(Image) /\ HasData(j, page) => j = k
      BY <1>1, <1>15, <2>3, ImageAssumption, ImageLen
    <3>2. frame_at'[PagePlace(s, pg)] # NoFrame /\ pg \in writable'[s]
      BY <1>1, <1>4, <1>12, FramesAreNumbers
    <3> QED
      BY <1>4, <1>6, <1>15, <2>3, <3>1, <3>2 DEF Loaded, Mapped
  <2> QED
    BY <2>2, <2>3
<1>16. CASE other = s /\ j = k /\ n = i
  <2>1. frame_at'[PagePlace(s, pg)] # NoFrame /\ pg \in writable'[s]
    BY <1>1, <1>4, <1>12, FramesAreNumbers
  <2> QED
    BY <1>4, <1>6, <1>16, <2>1 DEF Loaded, Mapped
<1> QED
  BY <1>11, <1>14, <1>15, <1>16

LEMMA ProgressStep ==
  MemoryTypes /\ FramesInv /\ BootOver /\ RootsFirst /\ Progress /\ [Next]_vars => Progress'
<1> SUFFICES ASSUME MemoryTypes, FramesInv, BootOver, RootsFirst, Progress, [Next]_vars PROVE Progress'
  OBVIOUS
<1> DEFINE LoadedStay ==
             \A s \in Spaces, k \in Stages : \A i \in 1 .. PageCount(k) : Loaded(s, k, i) => Loaded(s, k, i)'
<1>1. \A k \in Stages : \A i \in 1 .. PageCount(k) : PageAt(k, i) \in Pages
  BY PageAtType
<1>2. ASSUME \A s \in Spaces, pg \in Pages : Kept(s, pg), booted => booted', UNCHANGED writable PROVE LoadedStay
  BY <1>1, <1>2, LoadedKept
<1>3. ASSUME UNCHANGED <<frame_at, content>>
      PROVE  SameRoots /\ \A s \in Spaces, pg \in Pages : Kept(s, pg)
  BY <1>3 DEF SameRoots, Kept
<1>4. ASSUME UNCHANGED <<spaces, booted>> PROVE LoadedStay /\ SameRoots
  BY <1>2, <1>3, <1>4 DEF spaces
<1> HIDE DEF LoadedStay
<1>5. ASSUME LoadedStay, SameRoots, UNCHANGED <<shared, loading>>, ~halted' \/ booted' => ~halted \/ booted
      PROVE  Progress'
  BY <1>5, ProgressKept DEF LoadedStay
<1>6. CASE InitHeapPage
  <2>1. PICK i \in 1 .. HeapPages : Occupy(HeapPlace(i))
    BY <1>6 DEF InitHeapPage
  <2>2. \A s \in Spaces, pg \in Pages : PagePlace(s, pg) # HeapPlace(i)
    BY DEF PagePlace, HeapPlace
  <2>3. \A p \in Procs : RootPlace(p) \in Places /\ RootPlace(p) # HeapPlace(i)
    BY PlaceTypes DEF RootPlace, HeapPlace
  <2>4. SameRoots
    BY <2>1, <2>3 DEF SameRoots, Occupy, MemoryTypes, TablesTyped
  <2>5. LoadedStay
    BY <1>2, <1>6, <2>1, <2>2, OccupyUnseen DEF InitHeapPage, Occupy, boot
  <2> QED
    BY <1>5, <1>6, <2>1, <2>4, <2>5 DEF InitHeapPage, Occupy, boot
<1>7. ASSUME NEW p \in Procs, NewProcess(p) PROVE Progress'
  <2>1. /\ Occupy(RootPlace(p)) /\ ~halted /\ ~booted /\ booted' = booted /\ loading[1] = NoProc
        /\ loading' = IF p \in UserProcs THEN <<p, 1, 1>> ELSE loading
    BY <1>7 DEF NewProcess
  <2>2. \A s \in Spaces, pg \in Pages : PagePlace(s, pg) # RootPlace(p)
    BY DEF PagePlace, RootPlace
  <2>3. \A s \in Spaces, pg \in Pages : Kept(s, pg)
    BY <2>1, <2>2, OccupyUnseen
  <2>4. LoadedStay
    BY <1>2, <2>1, <2>3 DEF Occupy
  <2>5. \A q \in Procs \ {p} : frame_at'[RootPlace(q)] = frame_at[RootPlace(q)]
    <3>1. \A q \in Procs \ {p} : RootPlace(q) # RootPlace(p) /\ RootPlace(q) \in Places
      BY PlaceTypes DEF RootPlace
    <3> QED
      BY <2>1, <3>1 DEF Occupy, MemoryTypes, TablesTyped
  <2>6. \A q \in Procs : Space(q) \in Spaces /\ Space(q)' = Space(q)
    BY <2>1, SpaceType DEF Space, Occupy
  <2> SUFFICES ASSUME NEW q \in UserProcs, NEW k \in Stages, NEW i \in 1 .. PageCount(k),
                      frame_at'[RootPlace(q)] # NoFrame, ~Pending(Space(q), k, i)'
               PROVE  Loaded(Space(q), k, i)'
    BY DEF Progress
  <2>7. q \in Procs
    BY DEF Procs
  <2>8. CASE q = p
    <3>1. loading' = <<p, 1, 1>> /\ p # NoProc
      BY <2>1, <2>8, SpacesAssumption DEF Procs
    <3>2. Before(k, i)'
      BY <2>6, <2>8, <3>1 DEF Pending, Space
    <3>3. k \in Nat /\ k >= 1 /\ i \in Nat /\ i >= 1
      BY ImageLen
    <3> QED
      BY <3>1, <3>2, <3>3 DEF Before
  <2>9. CASE q # p
    <3>1. frame_at[RootPlace(q)] # NoFrame
      BY <2>5, <2>7, <2>9
    <3>2. Loaded(Space(q), k, i)
      BY <2>1, <3>1 DEF Progress, Pending
    <3> QED
      BY <2>4, <2>6, <2>7, <3>2 DEF LoadedStay
  <2> QED
    BY <2>8, <2>9
<1>8. CASE LoadPage
  BY <1>8, ProgressLoad
<1>9. CASE StartScheduling
  <2>1. LoadedStay
    <3>1. \A s \in Spaces, pg \in Pages : Kept(s, pg)
      BY <1>3, <1>9 DEF StartScheduling, spaces
    <3> QED
      BY <1>1, <1>9, <3>1, LoadedKept DEF StartScheduling, LoadedStay
  <2> QED
    BY <1>3, <1>5, <1>9, <2>1 DEF StartScheduling, spaces
<1>10. ASSUME NEW p \in Procs, NEW pg \in Pages, NEW v \in Values, Store(p, pg, v) PROVE Progress'
  <2>1. /\ booted /\ booted' = booted
        /\ UNCHANGED <<frame_at, shared, loading, writable, halted>>
    BY <1>10 DEF Store, boot
  <2>2. \A s \in Spaces, q \in Pages :
           Mapped(s, q) => \/ content'[frame_at[PagePlace(s, q)]] = v
                           \/ content'[frame_at[PagePlace(s, q)]] = content[frame_at[PagePlace(s, q)]]
    BY <1>10, StoreSeen
  <2>3. LoadedStay
    BY <1>1, <2>1, <2>2 DEF LoadedStay, Loaded, Mapped
  <2> QED
    BY <1>5, <2>1, <2>3 DEF SameRoots
<1>11. ASSUME NEW p \in Procs, NEW pg \in Pages, NEW write \in BOOLEAN, SegmentationFault(p, pg, write)
       PROVE  Progress'
  BY <1>4, <1>5, <1>11 DEF SegmentationFault, Faults, spaces, boot
<1>12. ASSUME NEW p \in Procs, NEW pg \in Pages, NEW write \in BOOLEAN, DemandAllocate(p, pg, write)
       PROVE  Progress'
  <2>1. PICK n \in FindVma(vma_list[p], pg) :
          MapFresh(Space(p), pg, vma_list[p][n].write /\ ~vma_list[p][n].cow, Zero)
    BY <1>12 DEF DemandAllocate
  <2> DEFINE s == Space(p)
             w == vma_list[p][n].write /\ ~vma_list[p][n].cow
  <2>2. s \in Spaces /\ w \in BOOLEAN /\ Zero \in Kinds /\ MapFresh(s, pg, w, Zero)
    BY <2>1, SpaceType DEF Kinds
  <2>3. ~Mapped(s, pg) /\ booted /\ ~halted /\ UNCHANGED <<loading, booted>>
    BY <1>12 DEF DemandAllocate, Faults, boot
  <2> HIDE DEF s, w
  <2>4. \A other \in Spaces, q \in Pages : other # s \/ q # pg => Kept(other, q)
    BY <2>2, MapFreshEffect
  <2>5. SameRoots /\ UNCHANGED shared
    BY <2>2, MapFreshRoots
  <2>6. ASSUME NEW other \in Spaces, NEW k \in Stages, NEW i \in 1 .. PageCount(k), Loaded(other, k, i)
        PROVE  Loaded(other, k, i)'
    <3>1. other # s \/ PageAt(k, i) # pg
      BY <2>3, <2>6 DEF Loaded
    <3>2. Kept(other, PageAt(k, i))
      BY <1>1, <2>4, <3>1
    <3> QED
      BY <2>3, <2>6, <3>2, LoadedKept
  <2> QED
    BY <1>5, <2>3, <2>5, <2>6 DEF LoadedStay
<1>13. ASSUME NEW p \in Procs, NEW pg \in Pages, CowResolve(p, pg) PROVE Progress'
  <2>1. /\ booted /\ booted' = booted
        /\ UNCHANGED <<frame_at, content, shared, loading, halted>>
    BY <1>13 DEF CowResolve, Faults, boot
  <2>2. LoadedStay
    BY <1>1, <1>3, <2>1, LoadedKept DEF LoadedStay
  <2> QED
    BY <1>3, <1>5, <2>1, <2>2
<1>14. ASSUME NEW p \in UserProcs, NEW r \in Ranges, NEW w \in BOOLEAN, InsertVma(p, r[1], r[2], w)
       PROVE  Progress'
  BY <1>4, <1>5, <1>14 DEF InsertVma, spaces, boot
<1>15. ASSUME NEW p \in UserProcs, NEW c \in ForkedProcs, CowForkVmas(p, c) PROVE Progress'
  BY <1>4, <1>5, <1>15 DEF CowForkVmas, spaces, boot
<1>16. CASE UNCHANGED vars
  BY <1>4, <1>5, <1>16 DEF vars, spaces, boot
<1> QED
  BY <1>6, <1>7, <1>8, <1>9, <1>10, <1>11, <1>12, <1>13, <1>14, <1>15, <1>16 DEF Next

\* Boot leaves every process with a complete image, for every image whose segments'
\* data lies on pages of their own: unmapping pages on the way takes nothing away.
THEOREM Memory_ImageIntact == Spec => []ImageIntact
<1>1. Init => MemoryTypes /\ FramesInv /\ BootOver /\ RootsFirst /\ Progress
  <2>1. Init => \A p \in Procs : frame_at[RootPlace(p)] = NoFrame
    BY PlaceTypes DEF Init
  <2>2. Init => RootsFirst /\ Progress
    BY <2>1 DEF Init, Idle, RootsFirst, Progress, Procs
  <2> QED
    BY <2>2, TypedInit, OwnedInit DEF Init, BootOver
<1>2. MemoryTypes /\ FramesInv /\ BootOver /\ RootsFirst /\ Progress /\ [Next]_vars
        => (MemoryTypes /\ FramesInv /\ BootOver /\ RootsFirst /\ Progress)'
  BY TypedStep, OwnedStep, BootOverStep, RootsFirstStep, ProgressStep
<1>3. BootOver /\ RootsFirst /\ Progress => ImageIntact
  <2> SUFFICES ASSUME BootOver, RootsFirst, Progress, booted,
                      NEW p \in UserProcs, NEW k \in 1 .. Len(Image), NEW pg \in Pages, HasData(k, pg)
               PROVE  /\ Mapped(Space(p), pg)
                      /\ content[frame_at[PagePlace(Space(p), pg)]] \in {k} \cup Values
    BY DEF ImageIntact
  <2> DEFINE i == pg - FirstPage(k) + 1
  <2>1. k \in Stages /\ k <= Len(Image) /\ FirstPage(k) \in Nat /\ LastPage(k) \in Nat
        /\ pg \in FirstPage(k) .. LastPage(k)
    BY ImageLen, SegmentType DEF HasData
  <2>2. i \in 1 .. PageCount(k) /\ PageAt(k, i) = pg
    BY <2>1 DEF PageCount, PageAt
  <2>3. frame_at[RootPlace(p)] # NoFrame /\ ~Pending(Space(p), k, i)
    BY DEF RootsFirst, BootOver, Idle, Pending, Procs
  <2> HIDE DEF i
  <2>4. Loaded(Space(p), k, i)
    BY <2>1, <2>2, <2>3 DEF Progress
  <2> QED
    BY <2>1, <2>2, <2>4 DEF Loaded
<1> QED
  BY <1>1, <1>2, <1>3, PTL DEF Spec

-----------------------------------------------------------------------------
(* Entries and areas.  A page that an area covers is there and writable, or   *)
(* no other area covers it and the area says what a fault will do.            *)

Settled(p, pg) == Mapped(p, pg) /\ pg \in writable[p]

Alone(p, i, pg) ==
  /\ ~vma_list[p][i].cow
  /\ Mapped(p, pg) => pg \in writable[p]
  /\ \A j \in 1 .. Len(vma_list[p]) : Covers(vma_list[p][j], pg) => j = i

Fine(p, i, pg) ==
  Covers(vma_list[p][i], pg) =>
    \/ Settled(p, pg)
    \/ booted /\ (~vma_list[p][i].write \/ vma_list[p][i].ref_count > 1 \/ Alone(p, i, pg))

Agree ==
  ~shared /\ ~halted =>
    \A p \in Procs : \A i \in 1 .. Len(vma_list[p]), pg \in Pages : Fine(p, i, pg)

LEMMA FoundIfCovered ==
  ASSUME NEW list \in Seq(Vmas), NEW pg, NEW i \in 1 .. Len(list), Covers(list[i], pg)
  PROVE  \E j \in FindVma(list, pg) : TRUE
<1> DEFINE S == {j \in 1 .. Len(list) : Covers(list[j], pg)}
<1>1. S \in SUBSET Nat /\ i \in S /\ Len(list) \in Nat
  OBVIOUS
<1> HIDE DEF S
<1>2. PICK j \in S : \A m \in S : j <= m
  BY <1>1, LeastNat
<1>3. j \in 1 .. Len(list) /\ Covers(list[j], pg)
  BY <1>2 DEF S
<1>4. ASSUME NEW m \in 1 .. j - 1 PROVE ~Covers(list[m], pg)
  <2>1. m \in 1 .. Len(list) /\ ~(j <= m)
    BY <1>1, <1>3
  <2> QED
    BY <1>2, <2>1 DEF S
<1> QED
  BY <1>3, <1>4 DEF FindVma

\* Where area i of a list was before one was inserted at pos.
OldIndex(pos, i) == IF i < pos THEN i ELSE i - 1

LEMMA InsertedOld ==
  \A list \in Seq(Vmas) : \A vma, new : \A pos \in 1 .. Len(list) + 1 :
    InsertedIn(new, list, vma, pos) =>
      /\ \A i \in (1 .. Len(new)) \ {pos} :
           OldIndex(pos, i) \in 1 .. Len(list) /\ new[i] = list[OldIndex(pos, i)]
      /\ \A i, j \in (1 .. Len(new)) \ {pos} : OldIndex(pos, i) = OldIndex(pos, j) => i = j
      /\ pos \in 1 .. Len(new) /\ new[pos] = vma
<1> SUFFICES ASSUME NEW list \in Seq(Vmas), NEW vma, NEW new, NEW pos \in 1 .. Len(list) + 1,
                    InsertedIn(new, list, vma, pos)
             PROVE  /\ \A i \in (1 .. Len(new)) \ {pos} :
                         OldIndex(pos, i) \in 1 .. Len(list) /\ new[i] = list[OldIndex(pos, i)]
                    /\ \A i, j \in (1 .. Len(new)) \ {pos} : OldIndex(pos, i) = OldIndex(pos, j) => i = j
                    /\ pos \in 1 .. Len(new) /\ new[pos] = vma
  OBVIOUS
<1>1. Len(list) \in Nat /\ Len(new) = Len(list) + 1 /\ pos \in Nat
  BY DEF InsertedIn
<1>2. ASSUME NEW i \in (1 .. Len(new)) \ {pos}
      PROVE  OldIndex(pos, i) \in 1 .. Len(list) /\ new[i] = list[OldIndex(pos, i)]
  <2>1. CASE i < pos
    BY <1>1, <2>1 DEF InsertedIn, OldIndex
  <2>2. CASE ~(i < pos)
    <3>1. i \in pos + 1 .. Len(list) + 1 /\ i - 1 \in 1 .. Len(list)
      BY <1>1, <2>2
    <3> QED
      BY <2>2, <3>1 DEF InsertedIn, OldIndex
  <2> QED
    BY <2>1, <2>2
<1>3. ASSUME NEW i \in (1 .. Len(new)) \ {pos}, NEW j \in (1 .. Len(new)) \ {pos},
             OldIndex(pos, i) = OldIndex(pos, j)
      PROVE  i = j
  BY <1>1, <1>3 DEF OldIndex
<1> QED
  BY <1>1, <1>2, <1>3 DEF InsertedIn

\* A step that leaves the areas of p alone, and the entry of one of its pages.
Undisturbed(p, pg) ==
  /\ Settled(p, pg) => Mapped(p, pg)' /\ pg \in writable'[p]
  /\ Mapped(p, pg)' => Mapped(p, pg)

LEMMA FineKept ==
  ASSUME NEW p \in Procs, NEW i, NEW pg \in Pages, Fine(p, i, pg),
         vma_list'[p] = vma_list[p], booted => booted', Undisturbed(p, pg)
  PROVE  Fine(p, i, pg)'
BY DEF Fine, Alone, Settled, Undisturbed

LEMMA AgreeKept ==
  ASSUME Agree, UNCHANGED <<shared, vma_list>>, ~halted' => ~halted, booted => booted',
         \A p \in Procs, pg \in Pages : Undisturbed(p, pg)
  PROVE  Agree'
<1> SUFFICES ASSUME ~shared, ~halted, NEW p \in Procs, NEW i \in 1 .. Len(vma_list[p]), NEW pg \in Pages
             PROVE  Fine(p, i, pg)'
  BY DEF Agree
<1> QED
  BY FineKept DEF Agree

\* Pages that a fresh one is not mapped to keep their entries.
LEMMA KeptUndisturbed ==
  ASSUME NEW p \in Procs, NEW pg \in Pages, Kept(p, pg), pg \in writable[p] => pg \in writable'[p]
  PROVE  Undisturbed(p, pg)
BY DEF Kept, Undisturbed, Settled, Mapped

\* Without shared tables a process has a space of its own.
LEMMA OwnSpace == ASSUME ~shared PROVE \A p \in Procs : Space(p) = p /\ p \in Spaces
BY DEF Space, Spaces

\* Areas that are registered when their segment is complete.
LEMMA AgreeLoad ==
  ASSUME MemoryTypes, FramesInv, BootOver, RootsFirst, Progress', Agree, LoadPage
  PROVE  Agree'
<1>0. PICK p, k, n : p = loading[1] /\ k = loading[2] /\ n = loading[3]
  OBVIOUS
<1> DEFINE pg == PageAt(k, n)
           list == vma_list[p]
           vma == Area(FirstPage(k), pg, Image[k].write)
<1>1. p \in UserProcs /\ p \in Procs /\ k \in Stages /\ n \in 1 .. PageCount(k) /\ pg \in Pages
  BY <1>0, LoadingIs DEF LoadPage, MemoryTypes
<1>2. /\ ~halted /\ ~booted /\ booted' = booted /\ loading' = NextPage(p, k, n) /\ p # NoProc
      /\ vma_list' = IF k <= Len(Image) /\ n = PageCount(k)
                     THEN [vma_list EXCEPT ![p] = Inserted(list, vma)] ELSE vma_list
  BY <1>0 DEF LoadPage, BootOver, Idle
<1>3. SameRoots /\ UNCHANGED shared
  BY <1>0, <1>1, SpaceType, MapFreshRoots DEF LoadPage
<1>4. frame_at[RootPlace(p)] # NoFrame
  BY <1>0, <1>2 DEF RootsFirst
<1>5. /\ \A s \in Spaces, q \in Pages : s # Space(p) \/ q # pg => Kept(s, q)
      /\ ~halted' => /\ frame_at'[PagePlace(Space(p), pg)] \in Frames
                     /\ writable' = [writable EXCEPT ![Space(p)] = writable[Space(p)] \cup {pg}]
  BY <1>0, LoadPageEffect
<1>6. list \in Seq(Vmas) /\ Ordered(list) /\ vma_list \in [Procs -> Seq(Vmas)]
  BY <1>1 DEF MemoryTypes, ListsTyped
<1>7. writable \in [Spaces -> SUBSET Pages]
  BY DEF MemoryTypes, TablesTyped
<1> HIDE DEF pg, list, vma
<1> SUFFICES ASSUME ~shared, ~halted' PROVE \A q \in Procs : \A i \in 1 .. Len(vma_list'[q]), page \in Pages : Fine(q, i, page)'
  BY <1>3 DEF Agree
<1>8. \A q \in Procs : Space(q) = q /\ q \in Spaces /\ Space(q)' = q
  BY <1>3, OwnSpace DEF Space
<1>9. ASSUME NEW q \in Procs, NEW page \in Pages, Settled(q, page) PROVE Settled(q, page)'
  <2>1. q # p \/ page # pg => Kept(q, page) /\ (page \in writable[q] => page \in writable'[q])
    BY <1>1, <1>5, <1>7, <1>8
  <2>2. frame_at'[PagePlace(p, pg)] # NoFrame /\ pg \in writable'[p]
    BY <1>1, <1>5, <1>7, <1>8, FramesAreNumbers
  <2> QED
    BY <1>9, <2>1, <2>2 DEF Settled, Mapped, Kept
<1>10. ASSUME NEW q \in Procs, NEW i \in 1 .. Len(vma_list[q]), NEW page \in Pages, Covers(vma_list[q][i], page)
       PROVE  Settled(q, page)'
  BY <1>2, <1>9, <1>10 DEF Agree, Fine
<1>11. ASSUME NEW q \in Procs, vma_list'[q] = vma_list[q], NEW i \in 1 .. Len(vma_list[q]), NEW page \in Pages
       PROVE  Fine(q, i, page)'
  BY <1>10, <1>11 DEF Fine
<1>12. CASE ~(k <= Len(Image) /\ n = PageCount(k))
  BY <1>2, <1>11, <1>12
<1>13. CASE k <= Len(Image) /\ n = PageCount(k)
  <2>1. vma_list'[p] = Inserted(list, vma) /\ \A q \in Procs \ {p} : vma_list'[q] = vma_list[q]
    BY <1>1, <1>2, <1>6, <1>13
  <2>2. pg = LastPage(k) /\ vma \in Vmas
    BY <1>1, <1>6, <1>13, SegmentArea DEF pg, vma
  <2>3. PICK pos \in 1 .. Len(list) + 1 : InsertedIn(Inserted(list, vma), list, vma, pos)
    BY <1>6, <2>2, InsertedIs
  <2> DEFINE new == Inserted(list, vma)
             old(i) == OldIndex(pos, i)
  <2> HIDE DEF new
  <2>4. /\ \A i \in (1 .. Len(new)) \ {pos} : old(i) \in 1 .. Len(list) /\ new[i] = list[old(i)]
        /\ new[pos] = vma
    <3>1. InsertedIn(new, list, vma, pos)
      BY <2>3 DEF new
    <3>2. list \in Seq(Vmas) /\ pos \in 1 .. Len(list) + 1
      BY <1>6
    <3> HIDE DEF old
    <3>3. /\ \A i \in (1 .. Len(new)) \ {pos} :
               OldIndex(pos, i) \in 1 .. Len(list) /\ new[i] = list[OldIndex(pos, i)]
          /\ new[pos] = vma
      BY <3>1, <3>2, InsertedOld
    <3> QED
      BY <3>3 DEF old
  <2>5. ASSUME NEW page \in Pages, Covers(vma, page) PROVE Settled(p, page)'
    <3> DEFINE i == page - FirstPage(k) + 1
    <3>1. FirstPage(k) \in Nat /\ LastPage(k) \in Nat /\ PageCount(k) = LastPage(k) - FirstPage(k) + 1
      BY <1>1, <1>13, ImageLen, SegmentType DEF PageCount
    <3>2. FirstPage(k) <= page /\ page < LastPage(k) + 1 /\ page \in Nat
      BY <2>2, <2>5, SpacesAssumption DEF Covers, Area, vma
    <3>3. i \in 1 .. PageCount(k) /\ PageAt(k, i) = page
      BY <1>13, <3>1, <3>2 DEF PageAt
    <3> HIDE DEF i
    <3>4. loading' = <<p, k + 1, 1>>
      BY <1>2, <1>13, <3>1 DEF NextPage
    <3>5. Before(k, i)'
      BY <1>1, <3>4, ImageLen DEF Before
    <3>6. ~Pending(Space(p), k, i)'
      BY <3>5 DEF Pending
    <3>7. frame_at'[RootPlace(p)] # NoFrame
      BY <1>1, <1>3, <1>4 DEF SameRoots
    <3>8. Loaded(Space(p), k, i)'
      BY <1>1, <3>3, <3>6, <3>7 DEF Progress
    <3> QED
      BY <1>1, <1>2, <1>8, <3>3, <3>8 DEF Loaded, Settled
  <2>6. ASSUME NEW i \in 1 .. Len(vma_list'[p]), NEW page \in Pages PROVE Fine(p, i, page)'
    <3>1. i \in 1 .. Len(new) /\ vma_list'[p][i] = new[i]
      BY <2>1 DEF new
    <3>2. CASE i = pos
      BY <2>4, <2>5, <3>1, <3>2 DEF Fine
    <3>3. CASE i # pos
      <4>1. old(i) \in 1 .. Len(list) /\ vma_list'[p][i] = list[old(i)]
        BY <2>4, <3>1, <3>3
      <4>2. Covers(list[old(i)], page) => Settled(p, page)'
        BY <1>1, <1>10, <4>1 DEF list
      <4> QED
        BY <4>1, <4>2 DEF Fine
    <3> QED
      BY <3>2, <3>3
  <2>7. ASSUME NEW q \in Procs \ {p}, NEW i \in 1 .. Len(vma_list'[q]), NEW page \in Pages PROVE Fine(q, i, page)'
    BY <1>11, <2>1
  <2>8. ASSUME NEW q \in Procs, NEW i \in 1 .. Len(vma_list'[q]), NEW page \in Pages PROVE Fine(q, i, page)'
    BY <2>6, <2>7
  <2> QED
    BY <2>8
<1> QED
  BY <1>12, <1>13

\* A page that demand paging brings in is writable if its area allows it.
LEMMA AgreeDemand ==
  ASSUME MemoryTypes, FramesInv, Agree,
         NEW p \in Procs, NEW pg \in Pages, NEW write \in BOOLEAN, DemandAllocate(p, pg, write)
  PROVE  Agree'
<1>1. PICK n \in FindVma(vma_list[p], pg) :
        MapFresh(Space(p), pg, vma_list[p][n].write /\ ~vma_list[p][n].cow, Zero)
  BY DEF DemandAllocate
<1>2. booted /\ ~halted /\ ~Mapped(Space(p), pg) /\ UNCHANGED <<vma_list, booted>>
  BY DEF DemandAllocate, Faults, boot
<1> DEFINE s == Space(p)
           w == vma_list[p][n].write /\ ~vma_list[p][n].cow
<1>3. s \in Spaces /\ w \in BOOLEAN /\ Zero \in Kinds /\ MapFresh(s, pg, w, Zero)
  BY <1>1, SpaceType DEF Kinds
<1> HIDE DEF s, w
<1>4. /\ \A other \in Spaces, q \in Pages : other # s \/ q # pg => Kept(other, q)
      /\ ~halted' => /\ frame_at'[PagePlace(s, pg)] \in Frames
                     /\ writable' = [writable EXCEPT ![s] = IF w THEN writable[s] \cup {pg}
                                                            ELSE writable[s] \ {pg}]
  BY <1>3, MapFreshEffect
<1>5. UNCHANGED shared
  BY <1>3 DEF MapFresh
<1> SUFFICES ASSUME ~shared, ~halted', NEW q \in Procs, NEW i \in 1 .. Len(vma_list[q]), NEW page \in Pages
             PROVE  Fine(q, i, page)'
  BY <1>2, <1>5 DEF Agree
<1>6. s = p /\ p \in Spaces /\ q \in Spaces
  BY OwnSpace DEF s
<1>7. writable \in [Spaces -> SUBSET Pages]
  BY DEF MemoryTypes, TablesTyped
<1>8. Fine(q, i, page)
  BY <1>2 DEF Agree
<1>9. CASE q # p \/ page # pg
  <2>1. Kept(q, page) /\ (page \in writable[q] => page \in writable'[q])
    BY <1>4, <1>6, <1>7, <1>9
  <2> QED
    BY <1>2, <1>8, <2>1, KeptUndisturbed, FineKept
<1>10. CASE q = p /\ page = pg
  <2>1. /\ frame_at'[PagePlace(p, pg)] # NoFrame
        /\ w => pg \in writable'[p]
    BY <1>4, <1>6, <1>7, FramesAreNumbers
  <2>2. ~Settled(p, pg)
    BY <1>2, <1>6 DEF Settled, s
  <2>3. ASSUME Covers(vma_list[p][i], pg), vma_list[p][i].write, ~(vma_list[p][i].ref_count > 1)
        PROVE  pg \in writable'[p]
    <3>1. Alone(p, i, pg)
      BY <1>8, <1>10, <2>2, <2>3 DEF Fine
    <3>2. n = i
      BY <1>1, <3>1 DEF Alone, FindVma
    <3>3. w
      BY <2>3, <3>1, <3>2 DEF w, Alone
    <3> QED
      BY <2>1, <3>3
  <2> QED
    BY <1>2, <1>10, <2>1, <2>3 DEF Fine, Settled, Mapped
<1> QED
  BY <1>9, <1>10

\* The areas of a list with one area's flag cleared.
LEMMA CowClearedFields ==
  ASSUME NEW list \in Seq(Vmas), Ordered(list), NEW n \in 1 .. Len(list)
  PROVE  LET new == [list EXCEPT ![n].cow = FALSE]
         IN  /\ Len(new) = Len(list)
             /\ \A j \in 1 .. Len(list) :
                  /\ new[j].start = list[j].start /\ new[j].end = list[j].end
                  /\ new[j].write = list[j].write /\ new[j].ref_count = list[j].ref_count
                  /\ new[j].cow => list[j].cow
<1> DEFINE new == [list EXCEPT ![n].cow = FALSE]
<1>1. Len(new) = Len(list)
      /\ \A j \in 1 .. Len(list) : new[j] = IF j = n THEN [list[n] EXCEPT !.cow = FALSE] ELSE list[j]
  BY CowCleared
<1> HIDE DEF new
<1>2. list[n] \in Vmas
  OBVIOUS
<1> DEFINE v == [list[n] EXCEPT !.cow = FALSE]
<1>3. /\ v.start = list[n].start /\ v.end = list[n].end /\ v.write = list[n].write
      /\ v.ref_count = list[n].ref_count /\ ~v.cow
  BY <1>2 DEF Vmas
<1> HIDE DEF v
<1>4. \A j \in 1 .. Len(list) : new[j] = IF j = n THEN v ELSE list[j]
  BY <1>1 DEF v
<1> QED
  BY <1>1, <1>3, <1>4 DEF new

\* The same frame becomes writable, and one area less is copy on write.
LEMMA AgreeCow ==
  ASSUME MemoryTypes, Agree, NEW p \in Procs, NEW pg \in Pages, CowResolve(p, pg)
  PROVE  Agree'
<1>1. PICK n \in FindVma(vma_list[p], pg) : vma_list' = [vma_list EXCEPT ![p][n].cow = FALSE]
  BY DEF CowResolve
<1> DEFINE list == vma_list[p]
           new == [list EXCEPT ![n].cow = FALSE]
<1>2. n \in 1 .. Len(list) /\ list \in Seq(Vmas) /\ Ordered(list)
  BY <1>1 DEF FindVma, MemoryTypes, ListsTyped
<1>3. vma_list' = [vma_list EXCEPT ![p] = new] /\ vma_list \in [Procs -> Seq(Vmas)]
  BY <1>1 DEF MemoryTypes, ListsTyped
<1>4. /\ Len(new) = Len(list)
      /\ \A j \in 1 .. Len(list) :
           /\ new[j].start = list[j].start /\ new[j].end = list[j].end
           /\ new[j].write = list[j].write /\ new[j].ref_count = list[j].ref_count
           /\ new[j].cow => list[j].cow
  BY <1>2, CowClearedFields
<1> HIDE DEF new
<1>5. \A q \in Procs : vma_list'[q] = IF q = p THEN new ELSE vma_list[q]
  BY <1>3
<1>6. /\ booted /\ booted' = booted /\ writable' = [writable EXCEPT ![Space(p)] = @ \cup {pg}]
      /\ UNCHANGED <<frame_at, shared, halted>>
  BY DEF CowResolve, Faults, boot
<1> SUFFICES ASSUME ~shared, ~halted, NEW q \in Procs, NEW i \in 1 .. Len(vma_list'[q]), NEW page \in Pages
             PROVE  Fine(q, i, page)'
  BY <1>6 DEF Agree
<1>7. q \in Spaces /\ Space(p) = p /\ writable \in [Spaces -> SUBSET Pages]
  BY OwnSpace DEF MemoryTypes, TablesTyped
<1>8. page \in writable[q] => page \in writable'[q]
  BY <1>6, <1>7
<1>9. (Mapped(q, page)' <=> Mapped(q, page)) /\ (Settled(q, page) => Settled(q, page)')
  BY <1>6, <1>8 DEF Mapped, Settled
<1>10. CASE q # p
  <2>1. i \in 1 .. Len(vma_list[q]) /\ vma_list'[q] = vma_list[q]
    BY <1>5, <1>10
  <2>2. Fine(q, i, page)
    BY <2>1 DEF Agree
  <2> QED
    BY <1>6, <1>9, <2>1, <2>2, FineKept DEF Undisturbed, Settled
<1>11. CASE q = p
  <2>1. vma_list'[q] = new /\ vma_list[q] = list /\ i \in 1 .. Len(list)
    BY <1>4, <1>5, <1>11
  <2>2. Fine(q, i, page)
    BY <2>1 DEF Agree
  <2>3. \A j \in 1 .. Len(list) : Covers(new[j], page) <=> Covers(list[j], page)
    BY <1>4 DEF Covers
  <2>4. Alone(q, i, page) => Alone(q, i, page)'
    BY <1>4, <1>8, <1>9, <2>1, <2>3 DEF Alone
  <2> QED
    BY <1>4, <1>6, <1>9, <2>1, <2>2, <2>3, <2>4 DEF Fine
<1> QED
  BY <1>10, <1>11

\* A new area for pages that are not there and that no area covers.
LEMMA AgreeInsert ==
  ASSUME MemoryTypes, Agree, NEW p \in UserProcs, NEW r \in Ranges, NEW w \in BOOLEAN,
         InsertVma(p, r[1], r[2], w)
  PROVE  Agree'
<1> DEFINE vma == Area(r[1], r[2], w)
           list == vma_list[p]
           new == Inserted(list, vma)
<1>1. r[1] \in Nat /\ r[2] \in Nat /\ r[1] <= r[2] /\ p \in Procs
  BY SpacesAssumption DEF Procs
<1>2. vma \in Vmas /\ ~vma.cow /\ \A page \in Pages : Covers(vma, page) => page \in r[1] .. r[2]
  BY <1>1, SpacesAssumption DEF Area, Vmas, Covers
<1>3. list \in Seq(Vmas) /\ vma_list \in [Procs -> Seq(Vmas)]
  BY <1>1 DEF MemoryTypes, ListsTyped
<1>4. /\ booted /\ ~halted /\ vma_list' = [vma_list EXCEPT ![p] = new]
      /\ \A page \in r[1] .. r[2] : FindVma(list, page) = {} /\ ~Mapped(Space(p), page)
      /\ UNCHANGED <<frame_at, writable, shared, booted>>
  BY DEF InsertVma, spaces, boot
<1> HIDE DEF vma, list
<1>5. PICK pos \in 1 .. Len(list) + 1 : InsertedIn(new, list, vma, pos)
  BY <1>2, <1>3, InsertedIs
<1> HIDE DEF new
<1> DEFINE old(j) == OldIndex(pos, j)
<1> HIDE DEF old
<1>6. /\ \A j \in (1 .. Len(new)) \ {pos} : old(j) \in 1 .. Len(list) /\ new[j] = list[old(j)]
      /\ \A j, m \in (1 .. Len(new)) \ {pos} : old(j) = old(m) => j = m
      /\ pos \in 1 .. Len(new) /\ new[pos] = vma
  BY <1>3, <1>5, InsertedOld DEF old
<1>7. \A q \in Procs : vma_list'[q] = IF q = p THEN new ELSE vma_list[q]
  BY <1>3, <1>4
<1> SUFFICES ASSUME ~shared, NEW q \in Procs, NEW i \in 1 .. Len(vma_list'[q]), NEW page \in Pages
             PROVE  Fine(q, i, page)'
  BY <1>4 DEF Agree
<1>8. /\ (Mapped(q, page)' <=> Mapped(q, page)) /\ (Settled(q, page) <=> Settled(q, page)')
      /\ Space(p) = p
  BY <1>1, <1>4, OwnSpace DEF Mapped, Settled
<1>9. Undisturbed(q, page)
  BY <1>8 DEF Undisturbed, Settled
<1>10. CASE q # p
  <2>1. i \in 1 .. Len(vma_list[q]) /\ vma_list'[q] = vma_list[q]
    BY <1>7, <1>10
  <2>2. Fine(q, i, page)
    BY <1>4, <2>1 DEF Agree
  <2> QED
    BY <1>4, <1>9, <2>1, <2>2, FineKept
<1>11. CASE q = p
  <2>1. vma_list'[q] = new /\ vma_list[q] = list /\ i \in 1 .. Len(new)
    BY <1>7, <1>11 DEF list
  <2>2. Covers(vma, page) => \A j \in 1 .. Len(list) : ~Covers(list[j], page)
    BY <1>2, <1>3, <1>4, FoundIfCovered
  <2>3. CASE i = pos
    <3>1. ASSUME Covers(vma, page) PROVE Alone(q, i, page)'
      <4>1. ~Mapped(q, page)'
        BY <1>2, <1>4, <1>8, <1>11, <3>1
      <4>2. \A j \in 1 .. Len(new) : Covers(new[j], page) => j = pos
        BY <1>6, <2>2, <3>1
      <4> QED
        BY <1>2, <1>6, <2>1, <2>3, <4>1, <4>2 DEF Alone
    <3> QED
      BY <1>4, <1>6, <2>1, <2>3, <3>1 DEF Fine
  <2>4. CASE i # pos
    <3>1. old(i) \in 1 .. Len(list) /\ new[i] = list[old(i)]
      BY <1>6, <2>1, <2>4
    <3>2. Fine(q, old(i), page)
      BY <1>4, <2>1, <3>1 DEF Agree
    <3>3. ASSUME Covers(new[i], page), Alone(q, old(i), page) PROVE Alone(q, i, page)'
      <4>1. ~Covers(vma, page)
        BY <2>2, <3>1, <3>3
      <4>2. ASSUME NEW j \in 1 .. Len(new), Covers(new[j], page) PROVE j = i
        <5>1. j # pos
          BY <1>6, <4>1, <4>2
        <5>2. old(j) \in 1 .. Len(list) /\ new[j] = list[old(j)]
          BY <1>6, <5>1
        <5>3. old(j) = old(i)
          BY <2>1, <3>3, <4>2, <5>2 DEF Alone
        <5> QED
          BY <1>6, <2>1, <2>4, <5>1, <5>3
      <4>3. ~new[i].cow /\ (Mapped(q, page)' => page \in writable'[q])
        BY <1>4, <1>8, <2>1, <3>1, <3>3 DEF Alone
      <4> QED
        BY <2>1, <4>2, <4>3 DEF Alone
    <3> QED
      BY <1>4, <1>8, <2>1, <3>1, <3>2, <3>3 DEF Fine
  <2> QED
    BY <2>3, <2>4
<1> QED
  BY <1>10, <1>11

\* A fork counts one user more of every area that may be written.
LEMMA AgreeFork ==
  ASSUME MemoryTypes, Agree, NEW p \in UserProcs, NEW c \in ForkedProcs, CowForkVmas(p, c)
  PROVE  Agree'
<1> DEFINE list == vma_list[p]
           new == Forked(list)
<1>1. /\ p \in Procs /\ c \in Procs /\ list \in Seq(Vmas) /\ Ordered(list)
      /\ vma_list \in [Procs -> Seq(Vmas)]
  BY DEF MemoryTypes, ListsTyped, Procs
<1>2. /\ booted /\ ~halted /\ vma_list' = [vma_list EXCEPT ![p] = new, ![c] = new]
      /\ UNCHANGED <<frame_at, writable, shared, booted>>
  BY DEF CowForkVmas, Forked, spaces, boot
<1>3. /\ Len(new) = Len(list)
      /\ \A i \in 1 .. Len(list) :
           /\ new[i].write = list[i].write
           /\ new[i].ref_count = IF list[i].write THEN list[i].ref_count + 1 ELSE list[i].ref_count
  BY <1>1, ForkedIs
<1> HIDE DEF new
<1>4. \A i \in 1 .. Len(list) : list[i].write => new[i].ref_count > 1
  <2> SUFFICES ASSUME NEW i \in 1 .. Len(list), list[i].write PROVE new[i].ref_count > 1
    OBVIOUS
  <2>1. list[i] \in Vmas
    BY <1>1
  <2>2. list[i].ref_count \in Nat \ {0}
    BY <2>1, VmaFields
  <2>3. new[i].ref_count = list[i].ref_count + 1
    BY <1>3
  <2> QED
    BY <2>2, <2>3
<1> HIDE DEF list
<1>5. \A q \in Procs : vma_list'[q] = IF q \in {p, c} THEN new ELSE vma_list[q]
  BY <1>1, <1>2
<1> SUFFICES ASSUME ~shared, NEW q \in Procs, NEW i \in 1 .. Len(vma_list'[q]), NEW page \in Pages
             PROVE  Fine(q, i, page)'
  BY <1>2 DEF Agree
<1>6. CASE q \notin {p, c}
  <2>1. i \in 1 .. Len(vma_list[q]) /\ vma_list'[q] = vma_list[q]
    BY <1>5, <1>6
  <2>2. Fine(q, i, page) /\ Undisturbed(q, page)
    BY <1>2, <2>1 DEF Agree, Undisturbed, Settled, Mapped
  <2> QED
    BY <1>2, <2>1, <2>2, FineKept
<1>7. CASE q \in {p, c}
  <2>1. vma_list'[q] = new /\ i \in 1 .. Len(list)
    BY <1>3, <1>5, <1>7
  <2> QED
    BY <1>2, <1>3, <1>4, <2>1 DEF Fine
<1> QED
  BY <1>6, <1>7

LEMMA AgreeStep ==
  /\ MemoryTypes /\ FramesInv /\ BootOver /\ RootsFirst /\ Progress /\ Agree
  /\ [Next]_vars
  => Agree'
<1> SUFFICES ASSUME MemoryTypes, FramesInv, BootOver, RootsFirst, Progress, Agree, [Next]_vars PROVE Agree'
  OBVIOUS
<1>1. Progress'
  BY ProgressStep
<1>2. ASSUME UNCHANGED <<spaces, vma_list>>, ~halted' => ~halted, booted => booted' PROVE Agree'
  BY <1>2, AgreeKept DEF spaces, Undisturbed, Settled, Mapped
<1>3. ASSUME NEW place, Occupy(place), \A s \in Spaces, pg \in Pages : PagePlace(s, pg) # place,
             ~halted, booted => booted'
      PROVE  Agree'
  <2>1. \A p \in Procs : p \in Spaces
    BY DEF Spaces
  <2>2. \A p \in Procs, pg \in Pages : Kept(p, pg)
    BY <1>3, <2>1, OccupyUnseen
  <2>3. UNCHANGED <<writable, shared, vma_list>>
    BY <1>3 DEF Occupy
  <2>4. \A p \in Procs, pg \in Pages : Undisturbed(p, pg)
    BY <2>2, <2>3, KeptUndisturbed
  <2> QED
    BY <1>3, <2>3, <2>4, AgreeKept
<1>4. CASE InitHeapPage
  <2>1. PICK i \in 1 .. HeapPages : Occupy(HeapPlace(i))
    BY <1>4 DEF InitHeapPage
  <2>2. \A s \in Spaces, pg \in Pages : PagePlace(s, pg) # HeapPlace(i)
    BY DEF PagePlace, HeapPlace
  <2> QED
    BY <1>3, <1>4, <2>1, <2>2 DEF InitHeapPage, boot
<1>5. ASSUME NEW p \in Procs, NewProcess(p) PROVE Agree'
  <2>1. \A s \in Spaces, pg \in Pages : PagePlace(s, pg) # RootPlace(p)
    BY DEF PagePlace, RootPlace
  <2> QED
    BY <1>3, <1>5, <2>1 DEF NewProcess
<1>6. CASE LoadPage
  BY <1>1, <1>6, AgreeLoad
<1>7. CASE StartScheduling
  BY <1>2, <1>7 DEF StartScheduling
<1>8. ASSUME NEW p \in Procs, NEW pg \in Pages, NEW v \in Values, Store(p, pg, v) PROVE Agree'
  <2>1. UNCHANGED <<frame_at, writable, shared, vma_list, booted, halted>>
    BY <1>8 DEF Store, boot
  <2> QED
    BY <2>1, AgreeKept DEF Undisturbed, Settled, Mapped
<1>9. ASSUME NEW p \in Procs, NEW pg \in Pages, NEW write \in BOOLEAN, SegmentationFault(p, pg, write)
      PROVE  Agree'
  BY <1>9 DEF SegmentationFault, Agree
<1>10. ASSUME NEW p \in Procs, NEW pg \in Pages, NEW write \in BOOLEAN, DemandAllocate(p, pg, write)
       PROVE  Agree'
  BY <1>10, AgreeDemand
<1>11. ASSUME NEW p \in Procs, NEW pg \in Pages, CowResolve(p, pg) PROVE Agree'
  BY <1>11, AgreeCow
<1>12. ASSUME NEW p \in UserProcs, NEW r \in Ranges, NEW w \in BOOLEAN, InsertVma(p, r[1], r[2], w)
       PROVE  Agree'
  BY <1>12, AgreeInsert
<1>13. ASSUME NEW p \in UserProcs, NEW c \in ForkedProcs, CowForkVmas(p, c) PROVE Agree'
  BY <1>13, AgreeFork
<1>14. CASE UNCHANGED vars
  BY <1>2, <1>14 DEF vars, boot
<1> QED
  BY <1>4, <1>5, <1>6, <1>7, <1>8, <1>9, <1>10, <1>11, <1>12, <1>13, <1>14 DEF Next

-----------------------------------------------------------------------------
(* Pages without WRITABLE were only read: they hold the zeros they came with. *)

ReadAreZero ==
  ~halted => \A s \in Spaces, pg \in Pages :
               Mapped(s, pg) /\ pg \notin writable[s] => content[frame_at[PagePlace(s, pg)]] = Zero

\* A fresh page either is writable or holds zeros.
LEMMA FreshZero ==
  ASSUME MemoryTypes, FramesInv, ReadAreZero, ~halted, NEW s \in Spaces, NEW pg \in Pages,
         NEW w \in BOOLEAN, NEW value \in Kinds, MapFresh(s, pg, w, value), w \/ value = Zero
  PROVE  ReadAreZero'
<1> SUFFICES ASSUME ~halted', NEW q \in Spaces, NEW page \in Pages, Mapped(q, page)', page \notin writable'[q]
             PROVE  content'[frame_at'[PagePlace(q, page)]] = Zero
  BY DEF ReadAreZero
<1>1. /\ \A other \in Spaces, x \in Pages : other # s \/ x # pg => Kept(other, x)
      /\ content'[frame_at'[PagePlace(s, pg)]] = value
      /\ writable' = [writable EXCEPT ![s] = IF w THEN writable[s] \cup {pg} ELSE writable[s] \ {pg}]
  BY MapFreshEffect
<1>2. writable \in [Spaces -> SUBSET Pages]
  BY DEF MemoryTypes, TablesTyped
<1>3. CASE q = s /\ page = pg
  <2>1. ~w
    BY <1>1, <1>2, <1>3
  <2> QED
    BY <1>1, <1>3, <2>1
<1>4. CASE q # s \/ page # pg
  <2>1. Kept(q, page)
    BY <1>1, <1>4
  <2>2. page \notin writable[q]
    BY <1>1, <1>2, <1>4
  <2>3. Mapped(q, page)
    BY <2>1 DEF Kept, Mapped
  <2>4. content[frame_at[PagePlace(q, page)]] = Zero
    BY <2>2, <2>3 DEF ReadAreZero
  <2> QED
    BY <2>1, <2>3, <2>4 DEF Kept
<1> QED
  BY <1>3, <1>4

LEMMA ReadAreZeroStep ==
  MemoryTypes /\ FramesInv /\ ReadAreZero /\ [Next]_vars => ReadAreZero'
<1> SUFFICES ASSUME MemoryTypes, FramesInv, ReadAreZero, [Next]_vars PROVE ReadAreZero'
  OBVIOUS
<1>1. ASSUME UNCHANGED <<frame_at, content>>, ~halted' => ~halted,
             \A s \in Spaces : writable[s] \subseteq writable'[s]
      PROVE  ReadAreZero'
  BY <1>1 DEF ReadAreZero, Mapped
<1>2. ASSUME UNCHANGED spaces, ~halted' => ~halted PROVE ReadAreZero'
  BY <1>1, <1>2 DEF spaces
<1>3. ASSUME NEW place, Occupy(place), \A s \in Spaces, pg \in Pages : PagePlace(s, pg) # place, ~halted
      PROVE  ReadAreZero'
  <2>1. \A s \in Spaces, pg \in Pages : Kept(s, pg)
    BY <1>3, OccupyUnseen
  <2>2. UNCHANGED writable
    BY <1>3 DEF Occupy
  <2> QED
    BY <1>3, <2>1, <2>2 DEF ReadAreZero, Kept, Mapped
<1>4. CASE InitHeapPage
  <2>1. PICK i \in 1 .. HeapPages : Occupy(HeapPlace(i))
    BY <1>4 DEF InitHeapPage
  <2>2. \A s \in Spaces, pg \in Pages : PagePlace(s, pg) # HeapPlace(i)
    BY DEF PagePlace, HeapPlace
  <2> QED
    BY <1>3, <1>4, <2>1, <2>2 DEF InitHeapPage
<1>5. ASSUME NEW p \in Procs, NewProcess(p) PROVE ReadAreZero'
  <2>1. \A s \in Spaces, pg \in Pages : PagePlace(s, pg) # RootPlace(p)
    BY DEF PagePlace, RootPlace
  <2> QED
    BY <1>3, <1>5, <2>1 DEF NewProcess
<1>6. CASE LoadPage
  <2> DEFINE p == loading[1]
             k == loading[2]
             pg == PageAt(k, loading[3])
             value == IF k <= Len(Image) /\ HasData(k, pg) THEN k ELSE Junk
  <2>1. p \in Procs /\ k \in Stages /\ pg \in Pages
    BY <1>6, LoadingIs DEF LoadPage, MemoryTypes
  <2>2. ~halted /\ MapFresh(Space(p), pg, TRUE, value)
    BY <1>6 DEF LoadPage
  <2>3. value \in Kinds
    BY <2>1, ImageLen DEF Kinds
  <2> HIDE DEF p, k, pg, value
  <2> QED
    BY <2>1, <2>2, <2>3, SpaceType, FreshZero
<1>7. CASE StartScheduling
  BY <1>2, <1>7 DEF StartScheduling
<1>8. ASSUME NEW p \in Procs, NEW pg \in Pages, NEW v \in Values, Store(p, pg, v) PROVE ReadAreZero'
  <2>1. ~halted /\ pg \in writable[Space(p)] /\ UNCHANGED <<frame_at, writable>>
    BY <1>8 DEF Store
  <2>2. \A s \in Spaces, q \in Pages :
          Mapped(s, q) => content'[frame_at[PagePlace(s, q)]] =
                            IF s = Space(p) /\ q = pg THEN v ELSE content[frame_at[PagePlace(s, q)]]
    BY <1>8, StoreSeen
  <2> QED
    BY <2>1, <2>2 DEF ReadAreZero, Mapped
<1>9. ASSUME NEW p \in Procs, NEW pg \in Pages, NEW write \in BOOLEAN, SegmentationFault(p, pg, write)
      PROVE  ReadAreZero'
  BY <1>9 DEF SegmentationFault, ReadAreZero
<1>10. ASSUME NEW p \in Procs, NEW pg \in Pages, NEW write \in BOOLEAN, DemandAllocate(p, pg, write)
       PROVE  ReadAreZero'
  <2>1. PICK n \in FindVma(vma_list[p], pg) :
          MapFresh(Space(p), pg, vma_list[p][n].write /\ ~vma_list[p][n].cow, Zero)
    BY <1>10 DEF DemandAllocate
  <2> DEFINE w == vma_list[p][n].write /\ ~vma_list[p][n].cow
  <2>2. w \in BOOLEAN /\ Zero \in Kinds /\ MapFresh(Space(p), pg, w, Zero) /\ ~halted
    BY <1>10, <2>1 DEF Kinds, DemandAllocate, Faults
  <2> HIDE DEF w
  <2> QED
    BY <2>2, SpaceType, FreshZero
<1>11. ASSUME NEW p \in Procs, NEW pg \in Pages, CowResolve(p, pg) PROVE ReadAreZero'
  <2>1. /\ UNCHANGED <<frame_at, content, halted>>
        /\ writable' = [writable EXCEPT ![Space(p)] = writable[Space(p)] \cup {pg}]
    BY <1>11 DEF CowResolve
  <2>2. writable \in [Spaces -> SUBSET Pages]
    BY DEF MemoryTypes, TablesTyped
  <2>3. \A s \in Spaces : writable[s] \subseteq writable'[s]
    BY <2>1, <2>2
  <2> QED
    BY <1>1, <2>1, <2>3
<1>12. ASSUME NEW p \in UserProcs, NEW r \in Ranges, NEW w \in BOOLEAN, InsertVma(p, r[1], r[2], w)
       PROVE  ReadAreZero'
  BY <1>2, <1>12 DEF InsertVma
<1>13. ASSUME NEW p \in UserProcs, NEW c \in ForkedProcs, CowForkVmas(p, c) PROVE ReadAreZero'
  BY <1>2, <1>13 DEF CowForkVmas
<1>14. CASE UNCHANGED vars
  BY <1>2, <1>14 DEF vars
<1> QED
  BY <1>4, <1>5, <1>6, <1>7, <1>8, <1>9, <1>10, <1>11, <1>12, <1>13, <1>14 DEF Next

\* A fault that stops the machine is not one that an area allows, while the process
\* has its own tables, except in the two cases of a forked area.
LEMMA FaultIsIllegal ==
  ASSUME MemoryTypes, Agree, ReadAreZero, ~halted, ~shared,
         NEW p \in Procs, NEW pg \in Pages, NEW write \in BOOLEAN, SegmentationFault(p, pg, write),
         NEW i \in 1 .. Len(vma_list[p]), Covers(vma_list[p][i], pg)
  PROVE  /\ write
         /\ vma_list[p][i].write =>
              /\ vma_list[p][i].ref_count > 1
              /\ ForkedShadowed(p, pg, i) \/ ForkedReadFirst(p, pg, i)
<1>1. vma_list[p] \in Seq(Vmas) /\ Len(vma_list[p]) \in Nat
  BY DEF MemoryTypes, ListsTyped
<1>2. PICK j \in FindVma(vma_list[p], pg) : TRUE
  BY <1>1, FoundIfCovered
<1>3. /\ booted /\ p \in Spaces
      /\ ~Mapped(p, pg) \/ (write /\ pg \notin writable[p])
      /\ (write /\ ~MayWrite(vma_list[p][j])) \/ (Mapped(p, pg) /\ ~(write /\ vma_list[p][j].cow))
  BY <1>2, OwnSpace DEF SegmentationFault, Faults
<1>4. write
  BY <1>3
<1>5. j \in 1 .. Len(vma_list[p]) /\ Covers(vma_list[p][j], pg) /\ \A m \in 1 .. j - 1 : ~Covers(vma_list[p][m], pg)
  BY <1>2 DEF FindVma
<1> SUFFICES ASSUME vma_list[p][i].write
             PROVE  /\ vma_list[p][i].ref_count > 1
                    /\ ForkedShadowed(p, pg, i) \/ ForkedReadFirst(p, pg, i)
  BY <1>4
<1>6. vma_list[p][i].ref_count > 1
  <2> SUFFICES ASSUME ~(vma_list[p][i].ref_count > 1) PROVE FALSE
    OBVIOUS
  <2>1. Fine(p, i, pg)
    BY DEF Agree
  <2>2. Alone(p, i, pg)
    BY <1>3, <1>4, <2>1 DEF Fine, Settled
  <2>3. j = i
    BY <1>5, <2>2 DEF Alone
  <2> QED
    BY <1>3, <1>4, <2>2, <2>3 DEF Alone, MayWrite
<1>7. CASE j # i
  <2>1. j \in 1 .. i - 1
    <3>1. ~(i \in 1 .. j - 1)
      BY <1>5
    <3> QED
      BY <1>1, <1>5, <1>7, <3>1
  <2> QED
    BY <1>5, <1>6, <2>1 DEF ForkedShadowed
<1>8. CASE j = i
  <2>1. Mapped(p, pg) /\ ~vma_list[p][i].cow /\ pg \notin writable[p]
    BY <1>3, <1>4, <1>8 DEF MayWrite
  <2>2. content[frame_at[PagePlace(p, pg)]] = Zero
    BY <1>3, <2>1 DEF ReadAreZero
  <2> QED
    BY <1>6, <2>1, <2>2 DEF ForkedReadFirst
<1> QED
  BY <1>7, <1>8

-----------------------------------------------------------------------------
(* The frames that are left.                                                  *)

\* AlignUp rounds up no further than it must.
LEMMA AlignUpLeast ==
  ASSUME NEW x \in Nat, NEW f, Multiple(f), x <= f
  PROVE  AlignUp(x) <= f
<1>1. PICK e \in Nat : f = e * FrameSize
  BY DEF Multiple
<1>2. FrameSize \in Nat /\ FrameSize > 0 /\ f \in Nat
  BY <1>1, Sizes
<1> DEFINE y == x + FrameSize - 1
           d == y \div FrameSize
<1>3. y \in Nat /\ d \in Nat /\ FrameSize * d <= y /\ y < f + FrameSize
  BY <1>2
<1>4. AlignUp(x) = d * FrameSize
  BY DEF AlignUp
<1> HIDE DEF d, y
<1>5. d <= e
  <2> SUFFICES ASSUME d > e PROVE FALSE
    BY <1>1, <1>3
  <2>1. d - 1 - e \in Nat
    BY <1>1, <1>3
  <2>2. FrameSize * d = FrameSize * (d - 1 - e) + f + FrameSize
    BY <1>1, <1>2, <1>3, <2>1
  <2>3. FrameSize * (d - 1 - e) >= 0
    BY <1>2, <2>1
  <2> QED
    BY <1>2, <1>3, <2>2, <2>3
<1>6. e - d \in Nat /\ f - d * FrameSize = FrameSize * (e - d)
  BY <1>1, <1>2, <1>3, <1>5
<1>7. FrameSize * (e - d) >= 0
  BY <1>2, <1>6
<1> QED
  BY <1>2, <1>3, <1>4, <1>6, <1>7

\* Two frames are at least a frame apart.
LEMMA FramesApart ==
  ASSUME NEW f, NEW g, Multiple(f), Multiple(g), g <= f, f # g
  PROVE  g + FrameSize <= f
<1>1. PICK c, e \in Nat : f = c * FrameSize /\ g = e * FrameSize
  BY DEF Multiple
<1>2. e < c
  <2> SUFFICES ASSUME e >= c PROVE FALSE
    BY <1>1
  <2>1. e - c \in Nat /\ g - f = FrameSize * (e - c)
    BY <1>1, Sizes
  <2>2. FrameSize * (e - c) >= 0
    BY <2>1, Sizes
  <2>3. f \in Nat /\ g \in Nat
    BY <1>1, Sizes
  <2> QED
    BY <2>1, <2>2, <2>3
<1>3. c - e - 1 \in Nat /\ f = FrameSize * (c - e - 1) + g + FrameSize
  BY <1>1, <1>2, Sizes
<1>4. FrameSize * (c - e - 1) >= 0 /\ FrameSize * (c - e - 1) \in Nat
  BY <1>3, Sizes
<1>5. g \in Nat
  BY <1>1, Sizes
<1> QED
  BY <1>3, <1>4, <1>5, Sizes

LEMMA FramesMultiple == \A f \in Frames : f \in Nat /\ Multiple(f)
<1> SUFFICES ASSUME NEW f \in Frames PROVE f \in Nat /\ Multiple(f)
  OBVIOUS
<1>1. f \in Nat
  BY FramesAreNumbers
<1>2. f % FrameSize = 0
  BY DEF Frames
<1> DEFINE q == f \div FrameSize
<1>3. q \in Nat /\ f = FrameSize * q + (f % FrameSize)
  BY <1>1, Sizes
<1> HIDE DEF q
<1>4. f = q * FrameSize
  BY <1>1, <1>2, <1>3, Sizes
<1> QED
  BY <1>1, <1>3, <1>4 DEF Multiple

\* A frame that is left is one the allocator can still get to.
LEMMA AheadFits ==
  ASSUME NEW a, AllocatorFits(a), NEW f \in Ahead(a)
  PROVE  \E q \in Fitting(a) :
           /\ MemoryMap[q].usable /\ InRegion(f, q)
           /\ NextAddr(a, q) <= f
<1>1. f \in Frames /\ f \in Nat /\ Multiple(f)
  BY FramesMultiple DEF Ahead
<1>2. PICK q \in a.region_idx .. Len(MemoryMap) :
        /\ MemoryMap[q].usable /\ MemoryMap[q].start <= f /\ f + FrameSize <= MemoryMap[q].end
        /\ q = a.region_idx => a.next_addr <= f
  BY DEF Ahead
<1>3. /\ q \in 1 .. Len(MemoryMap) /\ MemoryMap[q].start \in Nat /\ MemoryMap[q].end \in Nat
      /\ a.next_addr \in Nat
  <2>1. q \in 1 .. Len(MemoryMap) /\ a.next_addr \in Nat
    BY Sizes DEF AllocatorFits, AllocatorOK
  <2> QED
    BY <2>1, RegionType
<1>4. NextAddr(a, q) <= f /\ NextAddr(a, q) \in Nat
  <2>1. CASE q = a.region_idx
    BY <1>2, <1>3, <2>1 DEF NextAddr
  <2>2. CASE q # a.region_idx
    BY <1>1, <1>2, <1>3, <2>2, AlignUpLeast, AlignUpAbove DEF NextAddr
  <2> QED
    BY <2>1, <2>2
<1>5. NextAddr(a, q) + FrameSize <= MemoryMap[q].end
  BY <1>1, <1>2, <1>3, <1>4, Sizes
<1>6. q \in Fitting(a)
  BY <1>2, <1>5 DEF Fitting
<1> QED
  BY <1>1, <1>2, <1>4, <1>6 DEF InRegion

\* Without a frame to return there is none left.
LEMMA NoneAhead ==
  ASSUME NEW a, AllocatorFits(a), FrameOf(a) = NoFrame
  PROVE  Ahead(a) = {}
<1>1. ASSUME Fitting(a) # {} PROVE FALSE
  <2>1. FrameOf(a) \in Nat
    BY <1>1, FirstFitFits, NextAddrAbove DEF FrameOf, AllocatorFits, InRegion
  <2> QED
    BY <2>1, SpacesAssumption
<1> QED
  BY <1>1, AheadFits

\* A call takes one of the frames that are left.
LEMMA OneLessAhead ==
  ASSUME NEW a, AllocatorFits(a), NEW f \in Ahead(a), f # FrameOf(a)
  PROVE  f \in Ahead(After(a))
<1> DEFINE r == FirstFit(a)
           g == NextAddr(a, r)
<1>1. PICK q \in Fitting(a) : MemoryMap[q].usable /\ InRegion(f, q) /\ NextAddr(a, q) <= f
  BY AheadFits
<1>2. AllocatorOK(a) /\ r \in Fitting(a) /\ r \in 1 .. Len(MemoryMap) /\ InRegion(g, r)
  BY <1>1, FirstFitFits, NextAddrAbove DEF AllocatorFits
<1>3. FrameOf(a) = g /\ After(a).region_idx = r /\ After(a).next_addr = g + FrameSize
  BY <1>1 DEF FrameOf, After
<1>4. q \in Nat /\ q \in r .. Len(MemoryMap)
  <2>1. Fitting(a) \subseteq Nat
    BY <1>2, Sizes DEF Fitting, AllocatorOK
  <2>2. \E n \in Fitting(a) : \A m \in Fitting(a) : n <= m
    BY <1>1, <2>1, LeastNat
  <2>3. r <= q
    BY <2>2 DEF FirstFit
  <2>4. q <= Len(MemoryMap)
    BY <1>2, Sizes DEF Fitting, AllocatorOK
  <2> QED
    BY <1>2, <2>1, <2>3, <2>4, Sizes
<1>5. ASSUME q = r PROVE g + FrameSize <= f
  <2>1. f \in Frames /\ Multiple(f)
    BY FramesMultiple DEF Ahead
  <2>2. g \in Frames
    BY <1>2, <1>3, FrameOfFits, SpacesAssumption DEF InRegion
  <2>3. Multiple(g)
    BY <2>2, FramesMultiple
  <2>4. g <= f /\ f # g
    BY <1>1, <1>3, <1>5
  <2> HIDE DEF g
  <2> QED
    BY <2>1, <2>3, <2>4, FramesApart
<1> HIDE DEF r, g
<1>6. f \in Frames
  BY DEF Ahead
<1> QED
  BY <1>1, <1>3, <1>4, <1>5, <1>6 DEF Ahead, InRegion

\* A page that finds no frame, for itself or for its table, finds none left.
LEMMA OutOfFramesThen ==
  ASSUME MemoryTypes, NEW s \in Spaces, NEW pg \in Pages, NEW w, NEW value,
         MapFresh(s, pg, w, value), halted'
  PROVE  OutOfFrames(s, pg)
<1> DEFINE a == allocator
           f == FrameOf(a)
           table == frame_at[TablePlace(s, pg)]
<1>1. AllocatorFits(a) /\ AllocatorFits(After(a))
  BY FrameOfFits DEF MemoryTypes, TablesTyped
<1>2. f = NoFrame \/ (table = NoFrame /\ FrameOf(After(a)) = NoFrame)
  BY DEF MapFresh
<1>3. CASE f = NoFrame
  <2>1. Cardinality(Ahead(a)) = 0
    BY <1>1, <1>3, NoneAhead, FS_EmptySet
  <2> QED
    BY <2>1 DEF OutOfFrames
<1>4. CASE table = NoFrame /\ FrameOf(After(a)) = NoFrame
  <2>1. Ahead(a) \in SUBSET {f}
    BY <1>1, <1>4, NoneAhead, OneLessAhead
  <2>2. IsFiniteSet({f}) /\ Cardinality({f}) = 1
    BY FS_Singleton
  <2>3. /\ IsFiniteSet(Ahead(a))
        /\ Cardinality(Ahead(a)) <= 1
    BY <2>1, <2>2, FS_Subset
  <2>4. Cardinality(Ahead(a)) \in Nat
    BY <2>3, FS_CardinalityType
  <2> QED
    BY <1>4, <2>3, <2>4 DEF OutOfFrames
<1> QED
  BY <1>2, <1>3, <1>4

\* An access that an area allows stops the machine only when the frames run out, in one
\* of the two cases of forked areas, or with shared tables: however faults, stores and
\* dispatches are ordered, entries and areas agree otherwise.
THEOREM Memory_LegalAccess == Spec => LegalAccessSurvives
<1> DEFINE Sound == /\ MemoryTypes /\ FramesInv /\ BootOver /\ RootsFirst /\ Progress
                    /\ Agree /\ ReadAreZero
<1>1. Init => Sound
  <2>1. Init => \A p \in Procs : frame_at[RootPlace(p)] = NoFrame
    BY PlaceTypes DEF Init
  <2>2. Init => RootsFirst /\ Progress
    BY <2>1 DEF Init, Idle, RootsFirst, Progress, Procs
  <2>3. Init => Agree
    BY DEF Init, Agree
  <2>4. Init => ReadAreZero
    BY PlaceTypes DEF Init, ReadAreZero, Mapped
  <2> QED
    BY <2>2, <2>3, <2>4, TypedInit, OwnedInit DEF Init, BootOver
<1>2. Sound /\ [Next]_vars => Sound'
  BY TypedStep, OwnedStep, BootOverStep, RootsFirstStep, ProgressStep, AgreeStep, ReadAreZeroStep
<1> DEFINE Legal == ~halted /\ halted' => \A p \in Procs, pg \in Pages, write \in BOOLEAN :
             /\ DemandAllocate(p, pg, write) => OutOfFrames(Space(p), pg)
             /\ SegmentationFault(p, pg, write) /\ ~shared =>
                  \A i \in 1 .. Len(vma_list[p]) : Covers(vma_list[p][i], pg) =>
                    /\ write
                    /\ vma_list[p][i].write =>
                         /\ vma_list[p][i].ref_count > 1
                         /\ ForkedShadowed(p, pg, i) \/ ForkedReadFirst(p, pg, i)
<1>3. Sound => Legal
  <2> SUFFICES ASSUME MemoryTypes, Agree, ReadAreZero, ~halted, halted',
                      NEW p \in Procs, NEW pg \in Pages, NEW write \in BOOLEAN
               PROVE  /\ DemandAllocate(p, pg, write) => OutOfFrames(Space(p), pg)
                      /\ SegmentationFault(p, pg, write) /\ ~shared =>
                           \A i \in 1 .. Len(vma_list[p]) : Covers(vma_list[p][i], pg) =>
                             /\ write
                             /\ vma_list[p][i].write =>
                                  /\ vma_list[p][i].ref_count > 1
                                  /\ ForkedShadowed(p, pg, i) \/ ForkedReadFirst(p, pg, i)
    OBVIOUS
  <2>1. DemandAllocate(p, pg, write) => OutOfFrames(Space(p), pg)
    BY SpaceType, OutOfFramesThen DEF DemandAllocate
  <2> QED
    BY <2>1, FaultIsIllegal
<1> HIDE DEF Sound
<1>4. Sound /\ [Next]_vars => [Legal]_vars
  BY <1>3
<1> HIDE DEF Legal
<1>5. Spec => [][Legal]_vars
  BY <1>1, <1>2, <1>4, PTL DEF Spec
<1> QED
  BY <1>5 DEF LegalAccessSurvives, Legal
=============================================================================
