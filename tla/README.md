# KafkaOS in TLA+

KafkaOS (`kernel/`) is an x86_64 kernel in Rust for one CPU. Two schedulers live
side by side in it: a preemptive multi-level feedback queue for processes, driven by
the timer interrupt, and a cooperative executor for the kernel's own async tasks
(shell, mouse, compositor), fed by interrupt handlers. This directory models both,
checks them with TLC on small instances and proves their main invariants with TLAPS.

## The system

| Part (kernel/src) | State | Operations | Hard behaviour | What makes it correct |
|---|---|---|---|---|
| Scheduler (`scheduler.rs`) | four ready queues, `current`, levels, boost interval, cached load | add, yield, exit, tick, boost, demote, promote | levels come and go with the load; the boost moves processes the scan cannot see | nobody is lost or duplicated; queue = priority; everybody is served |
| Dispatch (`process.rs`, `syscalls.rs`, `interrupts.rs`, `main.rs`) | rsp, cr3, saved stack pointers, `SYSCALL_STACK`, `USER_STACK_SCRATCH`, `TSS.privilege_stack_table[0]`, the `SCHEDULER` lock | timer handler, `sys_yield`, system calls 11/12, `ps`, boot | preemption anywhere interrupts are on; a spin lock shared with a handler; two static stacks, for system calls and for interrupts of ring 3, shared by all processes | CPU, page table and scheduler agree on who runs; no handler spins on a lock its victim holds |
| Executor (`task/executor.rs`) | tasks, ready queue of 100, waker cache | spawn, poll, remove, wake, sleep | the check-then-halt race; wake-ups from handlers | no lost wake-up; sleeps only when idle |
| Input streams (`task/keyboard.rs`, `task/mouse.rs`) | queues of 100, an `AtomicWaker` each, three-byte packet buffer | interrupt pushes, `poll_next` pops | register/wake race; full queue; lost bytes | stored events are handled, in order; resynchronisation |
| Compositor (`gui/graphics.rs`, `gui/window.rs`) | `DAMAGE_QUEUE`, `COMPOSITOR_WAKER`, `CLOCK_TICK`, `MOUSE_EVENTS`, `APP_REQUESTS`, the window list | wait for damage, drain queues, route clicks, drag, launch, close | waker stored after the check; indices that go stale | reported damage is eventually drawn |
| GUI terminal (`gui/terminal.rs`) | shared cell grid with redraw flags, a copy per window | print, clear, snapshot, render | flags consumed without a reader | windows show the shared grid |
| File system (`fs.rs`) | RAM files over a read-only TAR image, descriptor table | open, read, write, seek, close, append, remove | several descriptors on one file; removal under an open descriptor; offsets fixed at open | where a file is kept cannot be seen |
| Virtual memory (`vm.rs`, `interrupts.rs`) | VM areas, frame reference counts, page table | page fault: demand zero, copy on write | area, page entry and contents change at different times; frames run out half-way | a page holds what its process stored last |
| Frames (`memory.rs`) | region index and next address | allocate | unaligned regions | every frame once, inside its region |
| Loader (`elf_loader.rs`, `process.rs`) | a page table and areas per process | map segments and a stack, page by page | pages shared by segments; a page mapped twice | the image is complete when processes start |
| Heap (`allocator/`) | free lists per block size over a linked list | alloc, dealloc | reached from interrupt handlers | blocks disjoint |
| GDT, VGA, serial, RTC | - | straight-line set-up and device I/O | - | - |
| Notepad (`gui/notepad.rs`) | text, cursor, scroll, selection, clipboard, two undo stacks, file name, unsaved mark | keys, prompts, open, save | state kept across undo; a mark set and cleared in many places | undo and redo walk one history, edits leave a way back; saved means saved |
| Snake (`gui/snake.rs`) | body, food, two directions, tick counter; a queue of scancodes; the window's picture | keys from the interrupt, a tick per frame, repaint | several keys between two moves; incremental painting; a full board | snake intact, never reversed; picture = game |
| Shell and file explorer (`cli.rs`, `gui/window.rs`) | current folder; folder and rows of the last picture | cd, ls, touch, write, rm; clicks on rows | there are no directories: folders come and go with the names of files; rows and folders go stale | a stale row still belongs to the path it is shown under |
| Paint, calculator (`gui/paint.rs`, `gui/window.rs`) | canvas, display | clicks | - | - |

Interaction: the timer handler advances `SCHEDULER_TICKS`, wakes the compositor every
16th tick, and calls `timer_tick` if `try_lock` succeeds, then `sys_yield` if the
quantum is spent. Input handlers push into a queue and wake a task, which puts its id
in the executor's ready queue. The page-fault handler reaches the current process
through `SCHEDULER`.

## Modules

| Module | Models | Checked by |
|---|---|---|
| `CpuSharing` | what any scheduler of one CPU promises (abstract) | property `SharesCpu` |
| `MLFQ` | `scheduler.rs` | `MCMLFQ.cfg`, `MCMLFQ_live.cfg` |
| `Dispatch` | the kernel around the scheduler; extends `MLFQ` | `MCDispatch.cfg`, `MCDispatch_stack.cfg`, `MCDispatch_halt.cfg` |
| `EventDelivery` | what the executor promises (abstract) | property `DeliversEvents` |
| `Executor` | executor, streams, input handlers | `MCExecutor.cfg` |
| `Compositor` | how the compositor sleeps and who wakes it | `MCCompositor.cfg` |
| `Terminal` | the terminal's grid, redraw flags and windows; extends `Compositor` | `MCCompositor.cfg` |
| `Desktop` | what a frame does to the window list and the screen | `MCDesktop.cfg` |
| `Notepad` | the editor, its files, the shell commands on them | `MCNotepad.cfg` |
| `Snake` | the game, its keys, its picture | `MCSnake.cfg` |
| `AddressSpaces` | what memory promises to processes (abstract) | property `MemoryKept` |
| `Memory` | frames, page tables, the loader, areas and page faults | `MCMemory.cfg` |
| `FileStore` | what the file system promises (abstract) | property `StoreImplemented` |
| `OverlayFS` | `fs.rs` | `MCShell.cfg` |
| `Shell` | the shell's file commands and the file explorer; extends `OverlayFS` | `MCShell.cfg` |
| `MLFQ_proofs` | theorems about `MLFQ` and `Dispatch` | `tlapm` |
| `Terminal_proofs` | theorems about `Compositor` and `Terminal` | `tlapm` |
| `Executor_proofs`, `Desktop_proofs`, `Notepad_proofs`, `Snake_proofs`, `Memory_proofs`, `Shell_proofs` | theorems about the module each is named after | `tlapm` |

**MLFQ.** The fields of `Scheduler` are variables under their own names; the fields of
`Process` are functions on `Pids`. Each public method is one action, with the private
helpers (`recalculate_dynamics`, `pick_and_run`, `quantum_for`, the two demotion
checks, `priority_boost`) as operators. A popped process is in no queue and not yet
current while `quantum_for` counts the load; the model counts the same way. A process
starts as "New" and ends as "Gone". `should_switch`, a local of the timer handler, is
kept because `sys_yield` follows it in the same handler: no other operation comes
between. `MissedTick` is the tick whose `try_lock` fails. `schedule_next` and
`promote_current` have no caller; they are actions of `Next` (the invariants hold with
them) and not of `FairSpec`.

**Dispatch.** A context is a kernel stack together with the code on it; a saved stack
pointer is the context it resumes. `ContextSwitch` stores and loads what the assembly
stores and loads, given the arguments of `pick_and_run`. Of what two processes overwrite
for each other on the static stacks only `USER_STACK_SCRATCH` is modelled. In the tree the
boot context never yields (`BootYields = FALSE`); with `TRUE` it hands over like `process_a` of
`main.rs`, which lets the rest of the machinery run.

**Executor.** A program counter per step of `run_ready_tasks`, `poll_next`,
`AtomicWaker::register`/`take` and `sleep_if_idle`; an interrupt may come between any
two while interrupts are on, and a handler runs to its end. Tasks are the loops around
`stream.next().await` of the shell and the mouse task; `Ending` names tasks whose future
may complete. `AtomicWaker` is not in the repository: it is modelled from how
`poll_next` and the handlers use it.

**Compositor.** The compositor, the mouse task and the shell are tasks of the executor:
one runs at a time, up to its next `await`, and only the timer handler comes between two
of its steps. `WaitForDamage` looks at the queues, locks `COMPOSITOR_WAKER`, stores its
waker; the others take the waker out and wake it. Queues are Booleans (is there work?);
`changes` are the flags and requests a click leaves for the next frame.

**Terminal.** Every step is a step of `Compositor` that also says what happens to the
grid and the windows. The shared `GuiTerminal` is `term`; a window keeps the row it was
last painted with (`terminal.row`, `prev_row`) and `picture`, what its pixel buffer shows.
`Mirror` takes both flags at once, as the code does before it drops the lock, and paints
either all rows or the row of the cursor. A grid cell is a character; the colour that
goes with it is left out. A text of several bytes is several `PrintByte`, with or without
a frame in between, which is more than `_tprint` can do.

**Desktop.** The phases of one frame in the order of `compositor_task`, over the window
list and its flags; the mouse task queues clicks between frames. Where a window lies is
left out: a click may hit any visible window on any of its parts.

**Notepad.** `NOTEPAD_STATE` is a record and each method of `NotepadState` an operator
on records, so a key is the composition the code makes (delete the selection, then
insert). Names typed into a prompt are chosen when it is confirmed. A failed index is the
end of the kernel (`active = "panicked"`).

**Snake.** `SnakeGame` is a record; an operation that may place food returns the set of
its outcomes. `Frame` is what the compositor does for the window: all queued keys, at most
one tick, then nothing, a partial or a full repaint. `drawn` is what each cell of the
buffer shows, painted in the order of the code.

**Memory.** `BootInfoFrameAllocator` is the record `allocator` of its two fields. Whatever
holds a frame (a heap page, a root table, a table, a user page) is a *place*, and
`frame_at` maps places to frames; a frame's contents are one value: zeroes, junk, the
number of the segment loaded there, or what a process stored. Boot goes one frame at a time in
the order of `kernel_main`: heap, then for each process a root table, the segments of its
image page by page and its stack. Afterwards any process may run; it stores where its page
table allows it and faults elsewhere, and `handle_page_fault` with all it calls is one step,
as it runs with interrupts off. `create_new_page_table` copies the boot loader's root entries:
whether one for user pages was among them, so that all processes share the tables behind
it, is chosen in `Init` (`shared`). `insert_vma` and `cow_fork_vmas` have no caller that runs
after boot; they are actions because the fault handler is written for them.

**OverlayFS, Shell.** A path is the sequence of its parts, so that folders are prefixes. Each
method of `OverlayFileSystem` is an operator under its own name and takes the lock once, so a
call is a step. `Shell` adds the commands of `cli.rs` and the clicks of the explorer,
whose rows are those of its last picture; descriptors, which no program uses yet, are opened,
moved and written in between. `existed`, all files there are and have been, is a history
variable: no step depends on it. `FileStore` has files by name and no image beneath them.

## Runs

| Run | Shows | Bounds |
|---|---|---|
| `mlfq` | `TypeOK`, `OnePlace`, `DynamicsFollowLoad`, `QueuedByPriority`, `OnlyExitIdles`, `NoOvertaking`, refinement `SharesCpu` | 3 processes, bands 1/2/2 so that three processes visit 2, 3 and 4 levels; thresholds of 1 tick, so that the bottom level is reached; boost every 2 to 8 ticks |
| `mlfq_live` | `NoStarvation` under `FairSpec` | 3 processes, the code's bands: the third one opens and closes level 2 |
| `dispatch` | `LockHolderStays`, `AddressSpaceOfCurrent`, `TimeLeft` | 3 processes and the boot context; bands 1/1/2, so that quanta of 1 are halved when two processes are known (`quantum_for` counts at most two of the three, so they are never quartered here; the proof of `TimeLeft` covers that) |
| `dispatch_stack`, `dispatch_halt` | disagreements, see below | the same with the code's bands |
| `executor` | `TypeOK`, `NoLostWakeup`, `SleepsOnlyWhenDrained`, `ParkedIsWakeable`, refinement `DeliversEvents` | two endless tasks and a finite one, channels of 1 (so they fill), two interrupts per task |
| `compositor` | `QueuedOnce`, `NothingLeftAsleep`, `ChangesServed`, `WindowsShowGrid` | `Compositor` is finite; a grid of 2 rows of 1 cell, one character and the space, one terminal window that opens and closes |
| `desktop` | `TypeOK`, `ScreenFollowsWindows`, `LabelsFollowWindows` | 3 windows and a menu, 3 clicks between two frames, 2 labels; a launch without a free window is dropped |
| `notepad` | `TypeOK`, `CursorVisible`, `UnmodifiedIsSaved`, `HistoryLinear`, `EditsUndoable` | 7 keys and commands; texts of 2 rows of 2 characters seen through a window of 1 x 2; 3 undo entries; a file in the image and one in RAM |
| `snake` | `SnakeIntact`, `PictureFollows`, `NeverReverses` | board of 6 x 2, which a game can fill; 2 keys between frames; faster after the first food |
| `memory` | `TypeOK`, `FramesOwnedOnce`, `ImageIntact`, `LegalAccessSurvives`, refinement `MemoryKept` | a loaded process and one to fork into; 5 pages in tables of 3, of which two are for an area that is asked for; five frames are left after boot; a frame of 2 units cut from two usable regions off its alignment, with one too small and a reserved one between; 3 areas per process |
| `files` | `TypeOK`, `RowsWereThere`, `SoleAppenderKeeps`, refinement `StoreImplemented` | a file of the image, a folder with a file, a folder that comes and goes with its only file; contents and offsets up to 2; two descriptors; three sets of flags |

Why these are enough: three processes are the fewest that can be running, waiting on an
active and waiting on an inactive level at once; two keys are the fewest that can turn the
snake back; seven keys suffice to fill the undo stack and walk it in both directions, or
to save, undo past the save and reopen; three clicks to raise, minimise and restore within
one frame. Two rows are the fewest that have a cursor's row and another, and a cell per row
makes every second character break the line and every third scroll. The image of `memory`
has a segment that ends with its page, so that it takes the first page of the next one; its frames run out for the table
of a page as well as for a page, and suffice for a fork, a read and two stores. Two processes
that load images would only repeat boot. Two descriptors are the fewest of which
one may disturb the other. A text or board of more cells repeats the same cases.

Numbers that saturate (`CpuCap`, `AgeCap`) do so above every threshold they are
compared with. Symmetry over processes is used in `mlfq` and the `dispatch`
runs, over applications in `desktop`; none of them checks liveness.
Deadlock is not checked in `Dispatch` and `Memory`, where the CPU may really halt for good,
nor in `Notepad`, which stops at the bound on keys or at a panic.

## Disagreements between code and comments

- `dispatch_stack`: `pick_and_run` hands out the *incoming* process's `stack_pointer`
  as the place to save the outgoing one (`scheduler.rs:180`, `process.rs:156`).
- `dispatch_halt`: `exit_current` lowers the number of levels before it looks for a
  successor; processes on a level that has just become inactive are not seen and the CPU
  halts for good (`scheduler.rs:245`, `syscalls.rs:115`). Three processes are enough:
  one demoted to level 2 while three are known. `OnlyExitIdles` is about yields only and
  does not see this.

More properties are stated in the modules and kept out of the runs. TLC violates
each when it replaces the properties of the configuration named:

- `Dispatch!RestoresOwnUserStack` (`MCDispatch_stack.cfg`): one `USER_STACK_SCRATCH` for all
  processes, read back after a switch (`syscalls.rs:40`, `:60`).
- `Notepad!SelectionExists` (`MCNotepad.cfg`): undo and redo keep the selection although
  its rows may be gone; the next key that replaces it indexes such a row and the kernel panics
  (`notepad.rs:167-200`, `:336`, against the field's comment at `:109`). Seven commands:
  open the notepad, break a line in front of a character, select the character, undo, type.
- `Terminal!ShowsGrid` (`MCCompositor.cfg`): text printed while a terminal window is minimised
  consumes the redraw flags (`graphics.rs:437`). The restored window is put on the screen as
  it was, and the next text repaints one row of it, unless the cursor's row has changed or
  the grid is scrolled or cleared. `WindowsShowGrid` is the same without such windows.
- `Dispatch!MultitaskingStarts` (`MCDispatch.cfg` with `KFairSpec` and
  `BootYields = FALSE`): nothing dispatches a first process, although `main.rs:161`
  announces multitasking.
- `Executor!TaskQueueNeverFull` (`MCExecutor.cfg` with one task, the capacities of 100
  and 101 interrupts): duplicates of one id fill the ready queue and `wake_task` panics in
  the handler (`executor.rs:90`). It takes a hundred interrupts that each fall between
  `register` and the second `pop`; unlikely, and not excluded. `TypeOK` allows for the panic.
- `Desktop!RestoresNamedWindow` (`MCDesktop.cfg`): a label carries an index into the
  window list of the last frame (`taskbar.rs:25`); a click earlier in the same batch that
  raises a window shifts it, and another window is restored (`graphics.rs:312`).
  `LabelsFollowWindows` compares titles, between frames, and does not see this.
- `Notepad!NewIsUndoable` (`MCNotepad.cfg`): `new_file` calls `push_undo` and then clears both
  stacks (`notepad.rs:565`, `:574-575`), so that Ctrl+N loses the text for good.
- `Memory!ForkedAccessSurvives` (`MCMemory.cfg`): a copy-on-write fault says "this page is now
  exclusively ours" and clears the flag of the whole area (`vm.rs:259`). A page of it that was
  read before is mapped read-only, and a later store into it halts the machine. An area of two
  pages, a fork, a read of one page, a store into the other, a store into the first.
- `Shell!RowsAreThere` (`MCShell.cfg`): the explorer is not drawn again when the shell removes
  a file, and a click on the row enters a folder that is gone (`window.rs:247`).

Seen while modelling, without a property of its own:

- `vm.rs`: only `load_elf` inserts areas; `allocate_user_stack` logs that it registered the stack and
  does not (`process.rs:119`), so a fault on a stack page that is not mapped is never resolved. All pages of an image are
  writable, whatever the segment says (`elf_loader.rs:59`). Frames are zeroed by the fault handler
  and not by the loader, so the rest of a segment's last page, and the stack, hold what was there.
  A segment that shares a page with an earlier one would take the earlier one's bytes away.
- A fault that finds no frame (`vm.rs:216`, `:229`) halts the kernel as an illegal one does,
  though `PageFaultResult` speaks of killing the process. `LegalAccessSurvives` says when a fault
  halts it: the areas do not allow the access, or no frame is left for the page or its table, or
  the process has no tables of its own, or the area was forked and one of two cases applies. In a
  child whose image has two areas on a page the first may be for reading only
  (`ForkedShadowed`; the loader has mapped the page for the parent, not for the child), and the
  case of `ForkedAccessSurvives` above (`ForkedReadFirst`).
- `gdt.rs:20`: the TSS has one static stack for entries from ring 3, so that a process preempted
  in user mode leaves its frame where the next one's interrupt is pushed. No property covers it;
  contexts of `Dispatch` are stacks of their own.
- `fs.rs`: `append_file` and the descriptors have no caller; `read` does not look at `READ`;
  a write far past the end resizes first. Removing a file that the image has too brings the old
  one back.
- The explorer's selected row is an index and marks another file when the files change.
  `notepad <file>` does not look at the shell's folder.

## Fairness

- `MLFQ!FairSpec`: weak fairness of `TimerTick` (the PIT fires at 1 kHz and nobody
  holds `SCHEDULER` for ever) and of the `sys_yield` that follows it in the handler.
  Nothing is assumed of processes, which may yield or exit at will.
- `Dispatch!KFairSpec`: boot completes, `ps` ends, the timer fires while the lock is
  free, the handler finishes.
- `Executor!FairSpec`: a CPU that is not halted executes. Nothing is assumed of
  interrupts; a stored event is handled without another one. `MaxEvents` bounds them, so
  the liveness part says what holds once a burst ends: under an endless flood on one
  stream the task never returns `Pending` and starves the others, as the code does.
- `Compositor!FairSpec`: a task that runs reaches its next `await` (weak fairness of its
  steps); the ready queue is served in order, so a queued compositor runs again and again
  as soon as the CPU is free, whoever else runs in between (strong fairness of
  `RunCompositor`); the PIT goes on ticking (weak fairness of `TimerWakeup`). Nothing is
  assumed of mouse or shell. `ChangesServed` shows that without the timer a click on a
  close button could wait for ever.
- `Terminal!TFairSpec` adds nothing to it.
- `Desktop`, `Notepad`, `Snake`, `Memory` and `Shell` have safety properties only.

## Proofs

`tlapm` checks every theorem and lemma of the eight modules; no fact is assumed besides the
named assumptions on the constants, which TLC evaluates in the runs: a finite set of
processes, positive and monotone tuning tables, ordered load bands, capacities that fit the
tasks, regions that do not overlap, a grid that is not empty. Those that are less obvious:

- `Memory!ImageAssumption`: the data of each segment lies on pages that no later segment
  maps, as the linker lays out the image in the tree. A segment that shares a page with an
  earlier one would take its bytes away (see "Seen while modelling").
- `Snake!SpeedAssumption`: a game starts at two or more ticks a move, as `BASE_TICKS` does.
- `OverlayFS!OverlayAssumption`, `Shell!ShellAssumption`: contents and buffers are no longer
  than the bound `MaxLen`, `NoFile` is neither contents nor a descriptor, paths are sequences.
- `Notepad!NotepadAssumption`: a tab inserts fewer characters than the undo stack has places,
  as 4 and 50 do: each character makes an entry of its own, and a tab over a selection one more.
- `Desktop!DesktopAssumption`: finitely many windows, a number as the bound on events.

- `MLFQ_proofs`. The inductive invariant is `TypeOK`, `OnePlace`, `DynamicsFollowLoad`
  and `QueuedByPriority` together: `QueuedByPriority` needs the number of levels to
  follow the load, that needs the count of queue lengths, and that needs each process to be
  in one place. From it follow `OnlyExitIdles` (the queue a yield appends to is
  scanned) and the refinement `SharesCpu`, step by step. `TimeLeft` rests on quanta that
  stay positive whatever the load divides them by. `NoOvertaking` is proved of an order that
  is easier to follow (`InOrder`: before in one queue, or in an earlier one), which is shown to
  be the order of the queue a boost would make; `push_back` and `pick_and_run` keep it.
  Every step of the kernel is a step of `MLFQ!Next` or leaves its variables alone
  (`Dispatch_DrivesMLFQ`), so these theorems carry over to `Dispatch`. The lock
  discipline and the page table are proved on top.
- `Executor_proofs`. The inductive invariant relates the program counter, the state
  bits of each waker and the ready queue: a task with an event is queued, or is being
  polled with the second look still to come, or has a waker whose owner is in `FLAGGED`
  and will be woken at the end of `register`. `Executor_Implements` is the safety part of the
  refinement of `EventDelivery`.
- `Terminal_proofs`, the compositor. `NothingLeftAsleep` is not inductive: a look that finds nothing and
  a waker stored three steps later must have nothing put in between. The strengthening says
  where each task stands (`Places`), that the compositor is always exactly one of running,
  queued, or asleep with its waker stored (`OneHandle`), and that clicks never come without
  damage (`ClicksBringDamage`).
  The types of `Compositor` are a lemma of these proofs and no run's property.
- `Terminal_proofs`, the terminal. A terminal only adds to the compositor (`Terminal_ImplementsCompositor`),
  so it sleeps with no redraw wanted. The inductive invariant says what a window may lack
  while one is wanted: either the whole grid is marked, or the cursor has moved below the
  window's row, or all rows but the cursor's agree (`Noted`), and printing keeps that up
  (`Advanced`: a print marks the grid, moves down, or changes one row). With
  `Compositor_NothingLeftAsleep` this gives `WindowsShowGrid` for every grid.
- `Memory_proofs`. `FramesOwnedOnce` needs to know that the next frame is a new one. The
  inductive invariant `Owned` says that every frame in use is behind the allocator: in a region
  it has left, or below `next_addr`; as regions do not overlap and the search only moves
  on, an allocated frame is behind it afterwards and was not before. All actions that take frames
  do so through two operators, for which this is proved once.

  Beyond that, `MemoryTypes` types areas, entries and the progress of boot. Boot is followed with
  `Progress`, which says what of each image is loaded when the loader is at a given page
  (`Memory_ImageIntact`). `Agree` relates areas and page entries: a page an area covers
  is mapped and writable, or the area is read-only or forked, or no other area covers the page
  and a fault will map it. A page without `WRITABLE` holds the zeros it came with
  (`ReadAreZero`), which tells the page that was only read from any other. Both are about the areas;
  that a fault without a frame means that no frame is left needs that the allocator passes over
  none (`NoneAhead`, `OneLessAhead`). Together they give `LegalAccessSurvives`.
  `Memory_KeepsContents` is the refinement of `AddressSpaces`, with what a process sees of a page
  (`Contents`) as the mapping: a step changes what is seen of one page only, and only by a store.
- `Snake_proofs`. The inductive invariant `GameSound` is about the game as it is between two
  keys: body distinct and connected, its length the score's, food off the body, and the next
  direction not the opposite of the current one, which is what several keys between two moves
  could break. The keys of a frame are a recursion over their number. Induction over
  numbers, and that a function defined by steps exists, are derived at the head of the modules
  that need them (`Snake_proofs`, `Memory_proofs`, `Notepad_proofs`) from the library's theorem
  that well-founded sets have minimal elements, which takes no operator.
- `Desktop_proofs`. `TypeOK`'s "one window is held" needs that presses and releases take turns in
  the queue and that the next event after a grab is a release (`Alternating`); its bound on
  requests needs that a request takes the place of an event. `ScreenFollowsWindows` needs
  `Reported`: where screen and list differ, the place is in the damage queue or the window was
  minimised and not yet reported; a window restored and minimised within one frame is in the queue
  already. `Kept`, the list without some members, is shown to keep order, members and distinctness.
- `Shell_proofs`. Descriptors and contents keep their types (`ShellTypes`) through calls that copy a
  file up. `Shell_RowsWereThere` relates the rows of the last picture to the files of that time,
  which `existed` remembers (`Remembered`). `Shell_SoleAppenderKeeps` follows from `AtEnd`: a
  descriptor opened with `APPEND` is at the end of its file as long as nobody disturbs it. `Shell_StoreImplemented` maps the image and
  the RAM files to one store and shows each method of `OverlayFileSystem` to be the store's.
- `Notepad_proofs`. `NotepadInv` says that the editor is `Sound` (types, cursor and every entry's
  cursor inside their texts, both stacks together within `MAX_UNDO`) and `Visible`, and that a
  text without the mark is its file. For each method of `NotepadState` a lemma says what it keeps
  (`Edit`) and, if it edits, how far down the undo stack the old text is then (`Recorded`), so that
  a key is a composition of lemmas as it is one of methods. A selection may name rows that are gone, so
  nothing is assumed of it: a deletion that would index such a row panics and is no edit.
  `Notepad_EditsUndoable` is about every change of the text: a key that is no edit, no undo and no
  redo either leaves the text alone or starts over (Ctrl+N, opening a file or the editor). For
  edits it counts: every `push_undo` moves the old text down by one
  (`PushedRecords`), and the longest edit makes `TabWidth + 1` entries. `Notepad_HistoryLinear`
  is about one sequence of texts (`HistoryShift`). `UnmodifiedIsSaved` after a file is opened needs
  `ContentOfLines`: what `Lines` takes apart, `Content` puts together again, by induction over the
  file's bytes. What is recursive (lines, pasted bytes, tabs) is a recursive function, shown
  to be the one its equation describes (`Recursion`).

Only model-checked:

- the liveness properties, as fairness and `ENABLED` are beyond the prover (`NoStarvation`,
  `ChangesServed`, the fairness part of `DeliversEvents`).

The properties of the violation runs, and those kept out of the runs, are refuted by TLC and not
proved.

## Plan

Done: the schedulers, dispatch, executor, compositor and terminal, the desktop, notepad and
snake, memory and files, with proofs of all their safety properties. Next, in this order:

1. `MousePackets`: assembly and resynchronisation of packets.
2. The heap allocators, and a module of the locks that handlers and tasks share
   (`SNAKE_SCANCODES`, the heap, `SCHEDULER`, the frame allocator).
3. What the notepad renders: `render_fast` repaints two rows, and horizontal scrolling or a
   selection that ends changes more.

## Not modelled

Pixels, fonts, colours and layout; the paint program and the calculator; shell commands that
only print; device set-up (PIT, PIC, PS/2, UART, RTC); the simple executor, which nothing
uses; the test harness. SMP does not exist in this kernel. `total_ticks` and `total_switches`
are only printed. Of `vm.rs`: `mark_pages_readonly_for_cow`, which has no caller, and with it
counts above one in `FRAME_REF_COUNTS` and the copying branch of `cow_resolve`;
`remove_vma_range`; the NX bit. Of `fs.rs`: file metadata, and calls that return an error, which
change nothing. Of the loader: the parsing of ELF headers, which a library does. Of the
explorer: its scroll bar and the selected row.
