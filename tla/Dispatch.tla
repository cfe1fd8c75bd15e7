------------------------------ MODULE Dispatch ------------------------------
(***************************************************************************)
(* How the kernel drives the scheduler of MLFQ on its one CPU: the timer   *)
(* interrupt handler (interrupts.rs), sys_yield and context_switch         *)
(* (process.rs), and the system calls that reach them (syscalls.rs).       *)
(*                                                                         *)
(* A context is a kernel stack with the code that runs on it: Boot is      *)
(* kernel_main and the executor it ends in, a process p is what init_stack *)
(* prepared for it.  A saved stack pointer is the context it belongs to.   *)
(* System calls share SYSCALL_STACK and USER_STACK_SCRATCH, interrupts of  *)
(* ring 3 the one stack of the TSS (gdt.rs); of what two processes         *)
(* overwrite for each other only USER_STACK_SCRATCH is modelled.           *)
(*                                                                         *)
(* In the tree only process code calls sys_yield outside the timer handler *)
(* (process_a and process_b of main.rs, system call 11), and kernel_main   *)
(* does not: BootYields = FALSE.  With BootYields = TRUE the boot context  *)
(* hands the CPU over the way process_a does, so that processes run.       *)
(***************************************************************************)
EXTENDS MLFQ

CONSTANTS Boot, BootYields

Contexts == Pids \cup {Boot}

ASSUME DispatchAssumption == Boot \notin Pids \cup {NoProc} /\ BootYields \in BOOLEAN

VARIABLES
  executing,        \* the context whose stack is in rsp
  cr3,              \* the context whose page table is loaded
  stack_pointer,    \* Process::stack_pointer: the context it resumes
  in_syscall,       \* contexts with system call 11 on their way back to user mode
  user_stack_scratch,  \* USER_STACK_SCRATCH: whose user stack sysretq returns to
  sched_lock,       \* the executor holds SCHEDULER, interrupts on (command ps)
  halted            \* in the hlt loop of system call 12, interrupts masked

cpu == <<executing, cr3, stack_pointer>>
kernelVars == <<vars, cpu, in_syscall, user_stack_scratch, sched_lock, halted>>

KInit ==
  /\ Init
  /\ executing = Boot
  /\ cr3 = Boot
  /\ stack_pointer = [p \in Pids |-> p]
  /\ in_syscall = {}
  /\ user_stack_scratch = Boot
  /\ sched_lock = FALSE
  /\ halted = FALSE

\* context_switch, with the arguments pick_and_run prepares.  It stores rsp at
\* &current.stack_pointer, and current is already the incoming process; its old
\* stack_pointer, read before, becomes rsp.
ContextSwitch ==
  IF current' = NoProc
  THEN UNCHANGED cpu
  ELSE /\ executing' = stack_pointer[current']
       /\ stack_pointer' = [stack_pointer EXCEPT ![current'] = executing]
       /\ cr3' = current'

\* Mutant of SwitchWithoutSaving: cr3 is left to the process that exits.
SwitchStacksOnly ==
  /\ executing' = stack_pointer[current']
  /\ UNCHANGED <<cr3, stack_pointer>>

\* The switch of system call 12: rsp goes to a dummy, the rest is the same.
SwitchWithoutSaving ==
  /\ executing' = stack_pointer[current']
  /\ cr3' = current'
  /\ UNCHANGED stack_pointer

\* sys_yield: interrupts off, yield_current under the lock, switch.
SysYield ==
  /\ ~sched_lock
  /\ YieldCurrent
  /\ ContextSwitch
  /\ UNCHANGED <<sched_lock, halted>>

Idle == ~should_switch /\ ~halted

-----------------------------------------------------------------------------
\* kernel_main adds its processes before anything can be scheduled.
Spawn(p) ==
  /\ Idle
  /\ executing = Boot /\ current = NoProc /\ ~sched_lock
  /\ AddProcess(p)
  /\ UNCHANGED <<cpu, in_syscall, user_stack_scratch, sched_lock, halted>>

BootYield ==
  /\ Idle
  /\ BootYields /\ executing = Boot
  /\ SysYield
  /\ UNCHANGED <<in_syscall, user_stack_scratch>>

\* The command ps prints the process list with SCHEDULER locked.
PsLock ==
  /\ Idle
  /\ executing = Boot /\ ~sched_lock
  /\ sched_lock' = TRUE
  /\ UNCHANGED <<vars, cpu, in_syscall, user_stack_scratch, halted>>

PsUnlock ==
  /\ Idle
  /\ executing = Boot /\ sched_lock
  /\ sched_lock' = FALSE
  /\ UNCHANGED <<vars, cpu, in_syscall, user_stack_scratch, halted>>

\* Mutant of TimerInterrupt: the lock is not tried.
TimerIgnoresLock ==
  /\ Idle
  /\ TimerTick
  /\ UNCHANGED <<cpu, in_syscall, user_stack_scratch, sched_lock, halted>>

\* timer_interrupt_handler up to should_switch: try_lock decides.
TimerInterrupt ==
  /\ Idle
  /\ IF sched_lock THEN MissedTick ELSE TimerTick
  /\ UNCHANGED <<cpu, in_syscall, user_stack_scratch, sched_lock, halted>>

\* The rest of the handler when the quantum is spent.
TimerPreempt ==
  /\ should_switch
  /\ SysYield
  /\ UNCHANGED <<in_syscall, user_stack_scratch>>

\* syscall_handler on the way in, from user mode.
EnterSyscall ==
  /\ Idle
  /\ executing \in Pids \ in_syscall
  /\ user_stack_scratch' = executing

\* System call 11, down to the switch.
SyscallYield ==
  /\ EnterSyscall
  /\ in_syscall' = in_syscall \cup {executing}
  /\ SysYield

\* sys_yield comes back and sysretq returns to the saved user stack.  Interrupts
\* are on again since the end of sys_yield, so the timer may fire before this.
SyscallReturn ==
  /\ Idle
  /\ executing \in in_syscall
  /\ in_syscall' = in_syscall \ {executing}
  /\ UNCHANGED <<vars, cpu, user_stack_scratch, sched_lock, halted>>

\* System call 12.  Without a successor the CPU halts with interrupts masked by
\* SFMASK: nothing runs any more.
SyscallExit ==
  /\ EnterSyscall
  /\ ~sched_lock
  /\ ExitCurrent
  /\ IF current' = NoProc THEN halted' = TRUE /\ UNCHANGED cpu
                          ELSE halted' = FALSE /\ SwitchWithoutSaving
  /\ UNCHANGED <<in_syscall, sched_lock>>

KNext ==
  \/ \E p \in Pids : Spawn(p)
  \/ BootYield
  \/ PsLock
  \/ PsUnlock
  \/ TimerInterrupt
  \/ TimerPreempt
  \/ SyscallYield
  \/ SyscallReturn
  \/ SyscallExit

KSpec == KInit /\ [][KNext]_kernelVars

\* The boot sequence completes, ps ends, the timer fires.
KFairSpec ==
  /\ KSpec
  /\ \A p \in Pids : WF_kernelVars(Spawn(p))
  /\ WF_kernelVars(PsUnlock)
  /\ SF_kernelVars(~sched_lock /\ TimerInterrupt)
  /\ WF_kernelVars(TimerPreempt)

-----------------------------------------------------------------------------
(* Properties.                                                             *)

\* sys_yield spins on SCHEDULER with interrupts masked, so it must never find the
\* lock taken: whoever holds it stays on the CPU, and no preemption is pending.
LockHolderStays == sched_lock => executing = Boot /\ ~should_switch

\* The page table loaded is the one of the process the scheduler runs, after a
\* yield, a preemption and an exit alike.
AddressSpaceOfCurrent == current # NoProc => cr3 = current

\* What sys_yield means to do ("Save old stack pointer", "Jump to new process"):
\* the CPU executes the code of the process that the scheduler runs.
ExecutesCurrent == current # NoProc => executing = current

\* System call 12 halts when there is no process left.
HaltsOnlyWhenEmpty == halted => Count(queues, current) = 0

\* A system call returns to the user stack of its own caller.
RestoresOwnUserStack == [][SyscallReturn => user_stack_scratch = executing]_kernelVars

\* Once kernel_main says "Starting Multitasking...", some process gets the CPU.
MultitaskingStarts == <>(current # NoProc)
=============================================================================
