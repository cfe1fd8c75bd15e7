-------------------------------- MODULE Memory --------------------------------
(***************************************************************************)
(* Physical frames and the address spaces of processes: the frame          *)
(* allocator and page tables of kernel/src/memory.rs, what init_heap, the  *)
(* ELF loader and allocate_user_stack map at boot, and the areas, demand   *)
(* paging and copy on write of kernel/src/vm.rs behind the page-fault      *)
(* handler.                                                                *)
(*                                                                         *)
(* Physical addresses are counted in a unit that divides a frame; areas    *)
(* and mappings in pages.  The levels between the root table and a page    *)
(* are one table per group of pages.  All that holds a frame is a place:   *)
(* a heap page, a root table, a table or a page of an address space.       *)
(* Contents are kept per frame.                                            *)
(***************************************************************************)
EXTENDS Naturals, Sequences, FiniteSets, SequencesExt

CONSTANTS
  MemoryMap,        \* the boot loader's regions: records [start, end, usable]
  FrameSize,
  HeapPages,        \* number of pages of the kernel heap
  UserProcs,        \* processes loaded at boot
  ForkedProcs,      \* processes created at boot that only get a copy of areas
  NoProc,
  Kernel,           \* the address space of the boot loader's tables
  Pages, GroupSize, \* user pages, as numbers, and pages per table
  Image,            \* loadable segments: records [start, size, write]
  PageSize,         \* in the unit of the segments' addresses
  Stack,            \* pages of the user stack, in order
  MaxAreas,         \* bound on the areas of a process
  Ranges,           \* first and last pages of areas that are asked for
  Values, Zero, Junk, NoFrame

Procs  == UserProcs \cup ForkedProcs
Spaces == Procs \cup {Kernel}
Groups == {pg \div GroupSize : pg \in Pages}

\* The pages a segment is mapped to: up to the one that contains its end, which is
\* one too many if it ends with a page.
FirstPage(k) == Image[k].start \div PageSize
LastPage(k)  == (Image[k].start + Image[k].size) \div PageSize

HasData(k, pg) == pg \in FirstPage(k) .. LastPage(k) /\ pg * PageSize < Image[k].start + Image[k].size

\* What is loaded: the segments in their order, then the stack.
Stages == 1 .. Len(Image) + 1

PageCount(k) == IF k <= Len(Image) THEN LastPage(k) - FirstPage(k) + 1 ELSE Len(Stack)

\* Mutant of PageAt: a segment starts one page late.
PageAtLate(k, i) == IF k <= Len(Image) THEN FirstPage(k) + i ELSE Stack[i]

PageAt(k, i) == IF k <= Len(Image) THEN FirstPage(k) + i - 1 ELSE Stack[i]

\* The regions do not overlap; the boot loader says so of its memory map.
ASSUME MapAssumption ==
  /\ FrameSize \in Nat \ {0}
  /\ MemoryMap \in Seq([start : Nat, end : Nat, usable : BOOLEAN]) \ {<<>>}
  /\ \A i, j \in 1 .. Len(MemoryMap) :
       i # j => MemoryMap[i].end <= MemoryMap[j].start \/ MemoryMap[j].end <= MemoryMap[i].start

ASSUME SpacesAssumption ==
  /\ UserProcs \cap ForkedProcs = {} /\ NoProc \notin Procs /\ Kernel \notin Procs
  /\ Pages \subseteq Nat /\ GroupSize \in Nat \ {0} /\ PageSize \in Nat \ {0}
  /\ Image \in Seq([start : Nat, size : Nat \ {0}, write : BOOLEAN])
  /\ Stack \in Seq(Pages) \ {<<>>}
  /\ Ranges \subseteq Pages \X Pages
  /\ \A r \in Ranges : r[1] <= r[2] /\ r[1] .. r[2] \subseteq Pages
  /\ {Zero, Junk} \cap Values = {} /\ Zero # Junk /\ NoFrame \notin Nat

\* The linker keeps the segments on pages of their own, in order, and main puts the
\* stack elsewhere; the page a segment gets too many may be one of the next.
ASSUME ImageAssumption ==
  /\ \A k \in 1 .. Len(Image) : FirstPage(k) .. LastPage(k) \subseteq Pages
  /\ \A k \in 1 .. Len(Image), j \in Stages :
       k < j => \A i \in 1 .. PageCount(j) : ~HasData(k, PageAt(j, i))

VARIABLES
  allocator,     \* BootInfoFrameAllocator: [region_idx, next_addr]
  frame_at,      \* the frame of each place, or NoFrame
  writable,      \* the pages of each space whose entry has WRITABLE
  shared,        \* the boot loader's root table already has the user entries
  content,       \* of each frame
  vma_list,      \* areas of each process: [start, end, write, cow, ref_count]
  loading,       \* the process being loaded what is next: <<process, stage, page>>
  booted,        \* main has queued the processes
  halted         \* hlt_loop, or a panic

spaces == <<frame_at, writable, shared, content>>
boot   == <<loading, booted>>
vars   == <<allocator, spaces, vma_list, boot, halted>>

-----------------------------------------------------------------------------
(* The frame allocator.                                                    *)

AlignUp(addr) == ((addr + FrameSize - 1) \div FrameSize) * FrameSize

\* All frames that lie in a usable region.
Frames ==
  UNION {{f \in MemoryMap[r].start .. MemoryMap[r].end :
            MemoryMap[r].usable /\ f + FrameSize <= MemoryMap[r].end /\ f % FrameSize = 0} :
         r \in 1 .. Len(MemoryMap)}

\* Mutants of NextAddr: a new region starts where the map says; the address is not
\* moved past the frame when it is the last of its region.
UnalignedNextAddr(a, r) == IF r = a.region_idx THEN a.next_addr ELSE MemoryMap[r].start

RestartedNextAddr(a, r) == AlignUp(MemoryMap[r].start)

\* Where the search continues in region r: seek_region_start for a new one.
NextAddr(a, r) ==
  IF r = a.region_idx THEN a.next_addr ELSE AlignUp(MemoryMap[r].start)

Fitting(a) ==
  {r \in a.region_idx .. Len(MemoryMap) :
     MemoryMap[r].usable /\ NextAddr(a, r) + FrameSize <= MemoryMap[r].end}

FirstFit(a) == CHOOSE r \in Fitting(a) : \A q \in Fitting(a) : r <= q

\* allocate_frame: the frame it returns, and the allocator it leaves.  Past the last
\* region next_addr has no meaning.
FrameOf(a) == IF Fitting(a) = {} THEN NoFrame ELSE NextAddr(a, FirstFit(a))

After(a) ==
  IF Fitting(a) = {} THEN [a EXCEPT !.region_idx = Len(MemoryMap) + 1]
  ELSE [region_idx |-> FirstFit(a), next_addr |-> NextAddr(a, FirstFit(a)) + FrameSize]

-----------------------------------------------------------------------------
(* Places, and mapping a page to a frame.                                  *)

HeapPlace(i)      == <<"heap", i>>
RootPlace(p)      == <<"root", p>>
TablePlace(s, pg) == <<"table", s, pg \div GroupSize>>
PagePlace(s, pg)  == <<"page", s, pg>>

Places == {HeapPlace(i) : i \in 1 .. HeapPages} \cup {RootPlace(p) : p \in Procs}
          \cup {TablePlace(s, pg) : s \in Spaces, pg \in Pages}
          \cup {PagePlace(s, pg) : s \in Spaces, pg \in Pages}

\* create_new_page_table copies all 512 root entries: if the one for user pages was
\* already there, all processes use the tables behind it.
Space(p) == IF shared THEN Kernel ELSE p

Mapped(s, pg) == frame_at[PagePlace(s, pg)] # NoFrame

\* A frame for a place; panic without one.
Occupy(place) ==
  /\ allocator' = After(allocator)
  /\ frame_at' = [frame_at EXCEPT ![place] = FrameOf(allocator)]
  /\ halted' = (FrameOf(allocator) = NoFrame)
  /\ UNCHANGED <<writable, shared, content, vma_list>>

\* A fresh frame is mapped to the page, whose table may need another one; w is the
\* WRITABLE flag.  Without frames whoever maps gives up, and the machine stops.
MapFresh(s, pg, w, value) ==
  LET table == frame_at[TablePlace(s, pg)]
      f == FrameOf(allocator)
      t == IF table # NoFrame THEN table ELSE FrameOf(After(allocator))
  IN  /\ allocator' = IF table # NoFrame THEN After(allocator) ELSE After(After(allocator))
      /\ halted' = (NoFrame \in {f, t})
      /\ IF halted'
         THEN /\ frame_at' = [frame_at EXCEPT ![PagePlace(s, pg)] = NoFrame]
              /\ UNCHANGED <<writable, content>>
         ELSE /\ frame_at' = [frame_at EXCEPT ![PagePlace(s, pg)] = f, ![TablePlace(s, pg)] = t]
              /\ writable' = [writable EXCEPT ![s] = IF w THEN @ \cup {pg} ELSE @ \ {pg}]
              /\ content' = [content EXCEPT ![f] = value]
      /\ UNCHANGED shared

-----------------------------------------------------------------------------
(* Areas.                                                                  *)

Area(first, last, w) ==
  [start |-> first, end |-> last + 1, write |-> w, cow |-> FALSE, ref_count |-> 1]

Covers(vma, pg) == vma.start <= pg /\ pg < vma.end

\* insert_vma: before the first area with a greater start, or at the end.
InsertedAt(list, vma, pos) ==
  /\ \A i \in 1 .. pos - 1 : list[i].start <= vma.start
  /\ pos <= Len(list) => list[pos].start > vma.start

Inserted(list, vma) ==
  InsertAt(list, CHOOSE pos \in 1 .. Len(list) + 1 : InsertedAt(list, vma, pos), vma)

\* find_vma: the indices it returns, one or none.
FindVma(list, pg) ==
  {i \in 1 .. Len(list) : /\ Covers(list[i], pg)
                          /\ \A j \in 1 .. i - 1 : ~Covers(list[j], pg)}

-----------------------------------------------------------------------------
Idle == <<NoProc, 0, 0>>

Init ==
  /\ allocator = [region_idx |-> 1, next_addr |-> AlignUp(MemoryMap[1].start)]
  /\ frame_at = [pl \in Places |-> NoFrame]
  /\ writable = [s \in Spaces |-> {}]
  /\ shared \in BOOLEAN
  /\ content = [f \in Frames |-> Junk]
  /\ vma_list = [p \in Procs |-> <<>>]
  /\ loading = Idle /\ booted = FALSE
  /\ halted = FALSE

-----------------------------------------------------------------------------
(* Boot, one frame at a time: nothing else runs.                           *)

HeapReady == \A i \in 1 .. HeapPages : frame_at[HeapPlace(i)] # NoFrame

InitHeapPage ==
  /\ ~halted
  /\ \E i \in 1 .. HeapPages :
       /\ frame_at[HeapPlace(i)] = NoFrame
       /\ \A j \in 1 .. i - 1 : frame_at[HeapPlace(j)] # NoFrame
       /\ Occupy(HeapPlace(i))
  /\ UNCHANGED boot

\* Process::new: a root table; main then loads the image, if the process gets one.
NewProcess(p) ==
  /\ ~halted /\ HeapReady /\ ~booted /\ loading[1] = NoProc
  /\ frame_at[RootPlace(p)] = NoFrame
  /\ Occupy(RootPlace(p))
  /\ loading' = IF p \in UserProcs THEN <<p, 1, 1>> ELSE loading
  /\ UNCHANGED booted

NextPage(p, k, i) ==
  IF i < PageCount(k) THEN <<p, k, i + 1>>
  ELSE IF k <= Len(Image) THEN <<p, k + 1, 1>> ELSE Idle

\* load_elf and allocate_user_stack, page by page.  A page that is mapped is unmapped
\* first.  All are WRITABLE.  A frame keeps what was in it except for the segment's
\* bytes.  The area of a segment is registered, the one of the stack is not.
LoadPage ==
  LET p == loading[1]
      k == loading[2]
      i == loading[3]
      pg == PageAt(k, i)
  IN  /\ ~halted /\ p # NoProc
      /\ MapFresh(Space(p), pg, TRUE, IF k <= Len(Image) /\ HasData(k, pg) THEN k ELSE Junk)
      /\ vma_list' = IF k <= Len(Image) /\ i = PageCount(k)
                     THEN [vma_list EXCEPT ![p] = Inserted(@, Area(FirstPage(k), pg, Image[k].write))]
                     ELSE vma_list
      /\ loading' = NextPage(p, k, i)
      /\ UNCHANGED booted

StartScheduling ==
  /\ ~halted /\ ~booted /\ loading[1] = NoProc
  /\ \A p \in Procs : frame_at[RootPlace(p)] # NoFrame
  /\ booted' = TRUE
  /\ UNCHANGED <<allocator, spaces, vma_list, loading, halted>>

-----------------------------------------------------------------------------
(* Processes run.  The page tables loaded are those of the running process, *)
(* which may be any.                                                       *)

\* The running process p stores into a page it may write.
Store(p, pg, v) ==
  /\ ~halted /\ booted
  /\ Mapped(Space(p), pg) /\ pg \in writable[Space(p)]
  /\ content' = [content EXCEPT ![frame_at[PagePlace(Space(p), pg)]] = v]
  /\ UNCHANGED <<allocator, frame_at, writable, shared, vma_list, boot, halted>>

\* Any other access of the running process traps: the page-fault handler finds the
\* area, if any.  An unresolved fault ends in hlt_loop with interrupts off.
Faults(p, pg, write) ==
  /\ ~halted /\ booted
  /\ \/ ~Mapped(Space(p), pg)
     \/ write /\ pg \notin writable[Space(p)]

MayWrite(vma) == vma.write \/ vma.cow

\* No area, or one that is not for writing, or a page that is mapped already and
\* not copy on write.
SegmentationFault(p, pg, write) ==
  /\ Faults(p, pg, write)
  /\ \A i \in FindVma(vma_list[p], pg) :
       LET vma == vma_list[p][i]
       IN  \/ write /\ ~MayWrite(vma)
           \/ Mapped(Space(p), pg) /\ ~(write /\ vma.cow)
  /\ halted' = TRUE
  /\ UNCHANGED <<allocator, spaces, vma_list, boot>>

\* Mutants of DemandAllocate: the frame is not zeroed; the page becomes writable
\* only if the fault was a store.
DemandUnzeroed(p, pg, write) ==
  /\ Faults(p, pg, write)
  /\ ~Mapped(Space(p), pg)
  /\ \E i \in FindVma(vma_list[p], pg) :
       LET vma == vma_list[p][i]
       IN  /\ write => MayWrite(vma)
           /\ MapFresh(Space(p), pg, vma.write /\ ~vma.cow, Junk)
  /\ UNCHANGED <<vma_list, boot>>

DemandLazily(p, pg, write) ==
  /\ Faults(p, pg, write)
  /\ ~Mapped(Space(p), pg)
  /\ \E i \in FindVma(vma_list[p], pg) :
       LET vma == vma_list[p][i]
       IN  /\ write => MayWrite(vma)
           /\ MapFresh(Space(p), pg, write /\ vma.write /\ ~vma.cow, Zero)
  /\ UNCHANGED <<vma_list, boot>>

\* demand_allocate: areas are anonymous, their pages come into being zeroed.
DemandAllocate(p, pg, write) ==
  /\ Faults(p, pg, write)
  /\ ~Mapped(Space(p), pg)
  /\ \E i \in FindVma(vma_list[p], pg) :
       LET vma == vma_list[p][i]
       IN  /\ write => MayWrite(vma)
           /\ MapFresh(Space(p), pg, vma.write /\ ~vma.cow, Zero)
  /\ UNCHANGED <<vma_list, boot>>

\* cow_resolve with a count of at most 1: the same frame, writable, and the area is
\* no longer copy on write.
CowResolve(p, pg) ==
  /\ Faults(p, pg, TRUE)
  /\ Mapped(Space(p), pg)
  /\ \E i \in FindVma(vma_list[p], pg) :
       /\ vma_list[p][i].cow
       /\ vma_list' = [vma_list EXCEPT ![p][i].cow = FALSE]
  /\ writable' = [writable EXCEPT ![Space(p)] = @ \cup {pg}]
  /\ UNCHANGED <<allocator, frame_at, shared, content, halted, boot>>

-----------------------------------------------------------------------------
(* Entry points of vm.rs that no code calls yet.                           *)

\* insert_vma for a range that the process does not use.
InsertVma(p, first, last, w) ==
  /\ ~halted /\ booted
  /\ Len(vma_list[p]) < MaxAreas
  /\ \A pg \in first .. last :
       FindVma(vma_list[p], pg) = {} /\ ~Mapped(Space(p), pg)
  /\ vma_list' = [vma_list EXCEPT ![p] = Inserted(@, Area(first, last, w))]
  /\ UNCHANGED <<allocator, spaces, boot, halted>>

\* cow_fork_vmas: the writable areas of p become copy on write, c gets the same list.
CowForkVmas(p, c) ==
  LET forked == [i \in 1 .. Len(vma_list[p]) |->
                   IF vma_list[p][i].write
                   THEN [vma_list[p][i] EXCEPT !.cow = TRUE, !.ref_count = @ + 1]
                   ELSE vma_list[p][i]]
  IN  /\ ~halted /\ booted
      /\ vma_list[p] # <<>> /\ vma_list[c] = <<>>
      /\ vma_list' = [vma_list EXCEPT ![p] = forked, ![c] = forked]
      /\ UNCHANGED <<allocator, spaces, boot, halted>>

Next ==
  \/ InitHeapPage
  \/ \E p \in Procs : NewProcess(p)
  \/ LoadPage
  \/ StartScheduling
  \/ \E p \in Procs, pg \in Pages, v \in Values : Store(p, pg, v)
  \/ \E p \in Procs, pg \in Pages, write \in BOOLEAN : SegmentationFault(p, pg, write)
  \/ \E p \in Procs, pg \in Pages, write \in BOOLEAN : DemandAllocate(p, pg, write)
  \/ \E p \in Procs, pg \in Pages : CowResolve(p, pg)
  \/ \E p \in UserProcs, r \in Ranges, w \in BOOLEAN : InsertVma(p, r[1], r[2], w)
  \/ \E p \in UserProcs, c \in ForkedProcs : CowForkVmas(p, c)

Spec == Init /\ [][Next]_vars

-----------------------------------------------------------------------------
(* Properties.                                                             *)

\* Among the types: a frame in use is aligned and lies in a usable region, whatever
\* the bounds of the regions.
TypeOK ==
  /\ allocator.region_idx \in 1 .. Len(MemoryMap) + 1 /\ allocator.next_addr \in Nat
  /\ frame_at \in [Places -> Frames \cup {NoFrame}]
  /\ writable \in [Spaces -> SUBSET Pages]
  /\ shared \in BOOLEAN
  /\ content \in [Frames -> Values \cup {Zero, Junk} \cup 1 .. Len(Image)]
  /\ \A p \in Procs : \A i \in 1 .. Len(vma_list[p]) :
       /\ vma_list[p][i].start < vma_list[p][i].end
       /\ i > 1 => vma_list[p][i - 1].start <= vma_list[p][i].start
  /\ \/ loading = Idle
     \/ loading \in UserProcs \X Stages \X Nat /\ loading[3] \in 1 .. PageCount(loading[2])
  /\ booted \in BOOLEAN
  /\ halted \in BOOLEAN

InUse == {a \in Places : frame_at[a] # NoFrame}

\* No frame has two uses: a page of a process is never also a page of another one,
\* of the heap or a page table, through boot, demand paging and remapping.
FramesOwnedOnce == \A a, b \in InUse : frame_at[a] = frame_at[b] => a = b

\* A process starts with its image complete: unmapping pages that are already
\* mapped takes nothing away that an earlier segment has put there.  Only a store
\* changes it later.
ImageIntact ==
  booted => \A p \in UserProcs, k \in 1 .. Len(Image), pg \in Pages :
              HasData(k, pg) => /\ Mapped(Space(p), pg)
                                /\ content[frame_at[PagePlace(Space(p), pg)]] \in {k} \cup Values

\* The frames still to be handed out: there is no way back for a frame.
Ahead(a) ==
  {f \in Frames : \E r \in a.region_idx .. Len(MemoryMap) :
     /\ MemoryMap[r].usable /\ MemoryMap[r].start <= f /\ f + FrameSize <= MemoryMap[r].end
     /\ r = a.region_idx => a.next_addr <= f}

OutOfFrames(s, pg) ==
  Cardinality(Ahead(allocator)) < IF frame_at[TablePlace(s, pg)] = NoFrame THEN 2 ELSE 1

\* Forked areas in which a store is refused although the area is for writing.  In a child,
\* areas of the image that share a page are searched in order and the first may be one for
\* reading only.  A page that was read, and never stored into, while the area was copy on
\* write stays read-only when a store into another page takes the flag from the whole area.
ForkedShadowed(p, pg, i) == \E j \in 1 .. i - 1 : Covers(vma_list[p][j], pg)
ForkedReadFirst(p, pg, i) ==
  /\ ~vma_list[p][i].cow
  /\ Mapped(p, pg) /\ content[frame_at[PagePlace(p, pg)]] = Zero

\* A fault that stops the machine is one the areas do not allow, with four exceptions: no
\* frame is left for the page or its table, the two cases of forked areas, and processes
\* that share their tables.  However faults, stores and dispatches are ordered, the entry
\* of a page agrees with its area otherwise.
LegalAccessSurvives ==
  [][~halted /\ halted' => \A p \in Procs, pg \in Pages, write \in BOOLEAN :
       /\ DemandAllocate(p, pg, write) => OutOfFrames(Space(p), pg)
       /\ SegmentationFault(p, pg, write) /\ ~shared =>
            \A i \in 1 .. Len(vma_list[p]) : Covers(vma_list[p][i], pg) =>
              /\ write
              /\ vma_list[p][i].write =>
                   /\ vma_list[p][i].ref_count > 1
                   /\ ForkedShadowed(p, pg, i) \/ ForkedReadFirst(p, pg, i)]_vars

\* Nor does a store into a page of a forked area that is its owner's alone.
ForkedAccessSurvives ==
  [][~halted /\ halted' /\ ~shared => \A p \in Procs, pg \in Pages :
       SegmentationFault(p, pg, TRUE) =>
         \A i \in FindVma(vma_list[p], pg) : ~vma_list[p][i].write]_vars

\* What processes see of all this.
Seen == [c \in Spaces \X Pages |->
           IF Mapped(c[1], c[2]) THEN content[frame_at[PagePlace(c[1], c[2])]] ELSE Zero]

Contents == INSTANCE AddressSpaces WITH Cells <- Spaces \X Pages, mem <- Seen

\* Faults, fresh pages and remaps cannot be seen: the contents of a page change only
\* by a store into it, in its own space or, if the tables are shared, in everybody's.
MemoryKept == Contents!ASpec
=============================================================================
