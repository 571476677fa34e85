-------------------------------- MODULE Task --------------------------------
(***************************************************************************)
(* The kernel's scheduler on its one CPU: the task table and the context   *)
(* switch of kernel/task.c, the exception entry and return of              *)
(* arch/aarch64/exceptions.{c,S}, the SVC dispatch of kernel/syscall.c,    *)
(* the entry to and the exit from EL0 of arch/aarch64/user_enter.S and     *)
(* kernel/user.c, and the interrupt-masking lock of kernel/klog.c.         *)
(*                                                                         *)
(* A step is what the CPU does between two points at which an interrupt    *)
(* can be observed.  An exception is one step: its handler runs with       *)
(* interrupts masked, so that nothing is seen between the entry and the    *)
(* return.  Stack pointers are counted in units of 16 bytes from the top   *)
(* of the owner's stack (negative is below the top).                       *)
(***************************************************************************)
EXTENDS Integers

CONSTANTS TASK_MAX,  \* slots of task_table (8 in the code)
          Steps      \* loop iterations of a task's entry function (3 in the demos)

ASSUME TaskMaxAssumption == TASK_MAX \in Nat \ {0}
ASSUME StepsAssumption == Steps \in Nat \ {0}

VARIABLES
  state,       \* task_table[t].state, and kernel_task.state
  current,     \* current_task
  frame,       \* the trap frame task->sp points to, NoFrame while sp = 0
  own,         \* the context whose registers the CPU holds
  pc, ps, sp,  \* the CPU: program counter, exception level and mask, stack pointer
  elr, spsr,   \* ELR_EL1 and SPSR_EL1
  irqsOn,      \* gic_init, gic_enable_irq and timer_start_periodic_ms have run
  slot,        \* the slot task_create is filling
  steps,       \* iterations the task's entry function has completed
  lock,        \* kprintf_lock: its holder, or NoTask
  flags,       \* the DAIF value each context saved in spin_lock_irqsave
  userActive,  \* user_active
  userSpsr     \* user_resume_spsr

sched == <<state, current, frame>>
locks == <<lock, flags>>
user == <<userActive, userSpsr>>
vars == <<state, current, frame, own, pc, ps, sp, elr, spsr, irqsOn, slot,
          steps, lock, flags, userActive, userSpsr>>

Tasks == 0 .. (TASK_MAX - 1)
Kernel == -1              \* kernel_task: task_index_of(&kernel_task)
Contexts == Tasks \cup {Kernel}
NoTask == -2              \* the null struct task pointer

\* PSTATE: EL1 with IRQs masked, EL1 with IRQs enabled, EL0 (IRQs enabled).
PStates == {"EL1m", "EL1", "EL0"}

\* Where kernel_main's thread is.
KernelPCs == {"idle", "c_ready", "c_stack", "made", "spin", "kprintf", "check",
              "yield", "enter_elr", "enter_spsr", "enter_eret", "el0",
              "resume", "panic"}
\* Where a table task is.
TaskPCs == {"trampoline", "work", "spin", "kprintf", "loop", "finished",
            "after_finish", "after_exit"}

PCsOf(c) == IF c = Kernel THEN KernelPCs ELSE TaskPCs

ENTRY_RESERVE == 20   \* 0x140 bytes: the trap frame and the x0 slot below it
FRAME_SIZE == 19      \* sizeof(struct exception_trap_frame), 0x130 bytes

Frames == [own: Contexts, at: Int, pc: KernelPCs \cup TaskPCs, ps: PStates]
NoFrame == [own |-> NoTask, at |-> 0, pc |-> "wild", ps |-> "EL1m"]

----------------------------------------------------------------------------
(* Choosing the next task *)

Candidate(c, i) == (c + i + TASK_MAX) % TASK_MAX

\* The round-robin distances from context c at which a task is READY.
ReadyAt(st, c) == {i \in 1 .. TASK_MAX : st[Candidate(c, i)] = "READY"}

Nearest(D) == CHOOSE i \in D : \A j \in D : i <= j

\* Mutation: the scan stops one slot short.
PickNextShort(st, c) ==
  IF ReadyAt(st, c) \ {TASK_MAX} # {} THEN Candidate(c, Nearest(ReadyAt(st, c)))
  ELSE IF c # Kernel THEN Kernel ELSE NoTask

PickNext(st, c) ==
  IF ReadyAt(st, c) # {} THEN Candidate(c, Nearest(ReadyAt(st, c)))
  ELSE IF c # Kernel THEN Kernel ELSE NoTask

\* What task_active_count counts.
ActiveTasks == {t \in Tasks : state[t] \in {"READY", "RUNNING"}}

----------------------------------------------------------------------------
(* Exceptions *)

\* exception_entry_common: what the entry pushes on the interrupted stack.
TrapFrame(retpc) == [own |-> own, at |-> sp - ENTRY_RESERVE, pc |-> retpc, ps |-> ps]

\* The restore and eret at the end of exception_entry_common.  From sp = 0 the
\* CPU loads whatever is at address 0 and is lost.
Eret(f) ==
  /\ own' = f.own
  /\ pc' = f.pc
  /\ ps' = f.ps
  /\ sp' = f.at + ENTRY_RESERVE
  /\ elr' = f.pc
  /\ spsr' = f.ps

\* Mutation: the kernel's own frame is not kept.
SaveFrameTasksOnly(c, f) == IF c = Kernel THEN frame ELSE [frame EXCEPT ![c] = f]

\* previous_task->sp = frame
SaveFrame(c, f) == [frame EXCEPT ![c] = f]

\* Mutation: the preempted context stays RUNNING.
DemoteNot(st, c) == st

\* if (current_can_continue && previous_task->state == TASK_RUNNING)
Demote(st, c) == [st EXCEPT ![c] = IF @ = "RUNNING" THEN "READY" ELSE @]

\* task_schedule_from_exception(frame, 1), then the return from the exception;
\* retpc is where the interrupted context goes on.
Schedule(retpc) ==
  LET saved == SaveFrame(current, TrapFrame(retpc))
      next  == PickNext(state, current)
  IN  /\ frame' = saved
      /\ IF next \in {NoTask, current}
           THEN /\ Eret(saved[current])
                /\ UNCHANGED <<state, current>>
           ELSE /\ state' = [Demote(state, current) EXCEPT ![next] = "RUNNING"]
                /\ current' = next
                /\ Eret(saved[next])

\* task_exit_from_exception by a table task: the frame is saved, the task is
\* marked finished and another context is chosen.  It is never null, because
\* the kernel can always be chosen when a table task exits.
TaskExit ==
  LET saved  == SaveFrame(current, TrapFrame("after_exit"))
      marked == [state EXCEPT ![current] = "FINISHED"]
      next   == PickNext(marked, current)
  IN  /\ frame' = saved
      /\ state' = [marked EXCEPT ![next] = "RUNNING"]
      /\ current' = next
      /\ Eret(saved[next])

\* An exception whose handler returns the interrupted frame: only the banked
\* return registers keep a trace of it.
ReturnToFrame ==
  /\ elr' = pc
  /\ spsr' = ps
  /\ UNCHANGED <<own, pc, ps, sp>>

Interruptible == irqsOn /\ ps # "EL1m" /\ pc # "wild"

\* The timer interrupt: exception_handle_irq for PPI 30.  timer_handle_irq
\* rearms the timer; the time slice is one tick, so every tick schedules.
TimerIrq ==
  /\ Interruptible
  /\ Schedule(pc)
  /\ UNCHANGED <<irqsOn, slot, steps, locks, user>>

\* A virtio or spurious interrupt: the interrupted context goes on.
DeviceIrq ==
  /\ Interruptible
  /\ ReturnToFrame
  /\ UNCHANGED <<sched, irqsOn, slot, steps, locks, user>>

----------------------------------------------------------------------------
(* Steps of the interrupted code.  Goto(c, from, to) is context c going on *)
(* from one program point to the next with the CPU's other registers kept. *)

At(c, p) == own = c /\ pc = p /\ (ps = "EL0" <=> p = "el0")

Goto(c, from, to) ==
  /\ At(c, from)
  /\ pc' = to
  /\ UNCHANGED <<own, ps, sp, elr, spsr>>

UnusedSlots == {t \in Tasks : state[t] = "UNUSED"}

\* task_create: the first unused slot, and kmalloc of its stack, which may fail.
\* Every caller panics when it returns 0.
TaskCreate ==
  /\ \E from \in {"idle", "made"} :
       \/ /\ UnusedSlots # {}
          /\ Goto(Kernel, from, "c_ready")
          /\ slot' = Nearest(UnusedSlots)
       \/ /\ Goto(Kernel, from, "panic")
          /\ UNCHANGED slot
  /\ UNCHANGED <<sched, irqsOn, steps, locks, user>>

\* task->state = TASK_READY.
CreateReady ==
  /\ Goto(Kernel, "c_ready", "c_stack")
  /\ state' = [state EXCEPT ![slot] = "READY"]
  /\ UNCHANGED <<current, frame, irqsOn, slot, steps, locks, user>>

\* task_prepare_stack: a frame that starts the trampoline with the creator's
\* interrupt mask.
FreshFrame(t) == [own |-> t, at |-> 0 - FRAME_SIZE, pc |-> "trampoline", ps |-> ps]

CreateStack ==
  /\ Goto(Kernel, "c_stack", "made")
  /\ frame' = [frame EXCEPT ![slot] = FreshFrame(slot)]
  /\ UNCHANGED <<state, current, irqsOn, slot, steps, locks, user>>

\* Creation is over: the creator polls task_active_count.
StartWait ==
  /\ Goto(Kernel, "made", "check")
  /\ UNCHANGED <<sched, irqsOn, slot, steps, locks, user>>

\* Mutation: the loop looks at the running task only.
WaitCheckRunning ==
  /\ Goto(Kernel, "check",
          IF \E t \in Tasks : state[t] = "RUNNING" THEN "yield" ELSE "idle")
  /\ UNCHANGED <<sched, irqsOn, slot, steps, locks, user>>

\* Mutation: the loop polls without yielding.
WaitCheckBusy ==
  /\ Goto(Kernel, "check", IF ActiveTasks # {} THEN "check" ELSE "idle")
  /\ UNCHANGED <<sched, irqsOn, slot, steps, locks, user>>

\* while (task_active_count() != 0)
WaitCheck ==
  /\ Goto(Kernel, "check", IF ActiveTasks # {} THEN "yield" ELSE "idle")
  /\ UNCHANGED <<sched, irqsOn, slot, steps, locks, user>>

\* task_yield(): svc #0.
WaitYield ==
  /\ At(Kernel, "yield")
  /\ Schedule("check")
  /\ UNCHANGED <<irqsOn, slot, steps, locks, user>>

\* kernel_main after the boot tests: the interrupt controller and the timer
\* are started with interrupts masked, then DAIF.I is cleared.
EnableInterrupts ==
  /\ At(Kernel, "idle")
  /\ ~irqsOn
  /\ irqsOn' = TRUE
  /\ ps' = "EL1"
  /\ UNCHANGED <<own, pc, sp, elr, spsr, sched, slot, steps, locks, user>>

----------------------------------------------------------------------------
(* A table task: task_trampoline and an entry function that prints, and    *)
(* may yield, Steps times, then returns or calls syscall_exit.             *)

TaskEntry(t) ==
  /\ Goto(t, "trampoline", "work")
  /\ UNCHANGED <<sched, irqsOn, slot, steps, locks, user>>

AfterKprintf(c) == IF c = Kernel THEN "check" ELSE "loop"

\* Mutation: the saved flags are taken but the interrupts stay enabled.
KprintfEnterUnmasked(c) ==
  /\ \/ At(c, "made")
     \/ At(c, "work") /\ steps[c] < Steps
  /\ pc' = "spin"
  /\ flags' = [flags EXCEPT ![c] = ps]
  /\ UNCHANGED <<own, ps, sp, elr, spsr, sched, irqsOn, slot, steps, lock, user>>

\* kprintf: irq_save ...
KprintfEnter(c) ==
  /\ \/ At(c, "made")
     \/ At(c, "work") /\ steps[c] < Steps
  /\ pc' = "spin"
  /\ flags' = [flags EXCEPT ![c] = ps]
  /\ ps' = "EL1m"
  /\ UNCHANGED <<own, sp, elr, spsr, sched, irqsOn, slot, steps, lock, user>>

\* ... spin_lock; while the lock is taken the context spins ...
KprintfLock(c) ==
  /\ lock = NoTask
  /\ Goto(c, "spin", "kprintf")
  /\ lock' = c
  /\ UNCHANGED <<sched, irqsOn, slot, steps, flags, user>>

\* ... spin_unlock_irqrestore.  A task's loop iteration ends with it.
KprintfUnlock(c) ==
  /\ At(c, "kprintf")
  /\ pc' = AfterKprintf(c)
  /\ ps' = flags[c]
  /\ lock' = NoTask
  /\ steps' = IF c = Kernel THEN steps ELSE [steps EXCEPT ![c] = @ + 1]
  /\ UNCHANGED <<own, sp, elr, spsr, sched, irqsOn, slot, flags, user>>

\* The next iteration, with or without a task_yield in between.
TaskLoop(t) ==
  /\ Goto(t, "loop", "work")
  /\ UNCHANGED <<sched, irqsOn, slot, steps, locks, user>>

TaskYield(t) ==
  /\ At(t, "loop")
  /\ Schedule("work")
  /\ UNCHANGED <<irqsOn, slot, steps, locks, user>>

\* The entry function returns: task_mark_finished(current_task) ...
TaskReturn(t) ==
  /\ steps[t] = Steps
  /\ Goto(t, "work", "finished")
  /\ state' = [state EXCEPT ![current] = "FINISHED"]
  /\ UNCHANGED <<current, frame, irqsOn, slot, steps, locks, user>>

\* ... then task_yield().  If it returned, the trampoline would panic.
FinishedYield(t) ==
  /\ At(t, "finished")
  /\ Schedule("after_finish")
  /\ UNCHANGED <<irqsOn, slot, steps, locks, user>>

\* syscall_handle, SYS_EXIT from a task.  With a user program active the frame
\* would be diverted to arch_user_resume_el1.
SysExitTask(t) ==
  /\ At(t, "work")
  /\ steps[t] = Steps
  /\ IF userActive
       THEN /\ userActive' = FALSE
            /\ pc' = "resume" /\ elr' = "resume"
            /\ ps' = userSpsr /\ spsr' = userSpsr
            /\ UNCHANGED <<own, sp, sched>>
       ELSE /\ TaskExit
            /\ UNCHANGED userActive
  /\ UNCHANGED <<irqsOn, slot, steps, locks, userSpsr>>

----------------------------------------------------------------------------
(* A user program, run by kernel_main's thread (boot tests, shell commands) *)

\* user_run_loaded_pages up to the call of arch_enter_user.
UserRun ==
  /\ Goto(Kernel, "idle", "enter_elr")
  /\ userSpsr' = ps
  /\ userActive' = TRUE
  /\ UNCHANGED <<sched, irqsOn, slot, steps, locks>>

\* msr ELR_EL1, x0
EnterElr ==
  /\ At(Kernel, "enter_elr")
  /\ pc' = "enter_spsr"
  /\ elr' = "el0"
  /\ UNCHANGED <<own, ps, sp, spsr, sched, irqsOn, slot, steps, locks, user>>

\* msr SPSR_EL1, xzr
EnterSpsr ==
  /\ At(Kernel, "enter_spsr")
  /\ pc' = "enter_eret"
  /\ spsr' = "EL0"
  /\ UNCHANGED <<own, ps, sp, elr, sched, irqsOn, slot, steps, locks, user>>

\* isb; eret
EnterEret ==
  /\ At(Kernel, "enter_eret")
  /\ pc' = elr
  /\ ps' = spsr
  /\ UNCHANGED <<own, sp, elr, spsr, sched, irqsOn, slot, steps, locks, user>>

\* SYS_WRITE_CONSOLE, SYS_GET_TICKS or an unknown number: x0 is set and the
\* program goes on.
UserSyscall ==
  /\ At(Kernel, "el0")
  /\ ReturnToFrame
  /\ UNCHANGED <<sched, irqsOn, slot, steps, locks, user>>

\* svc #0 is not privileged: a user program may yield.
UserYield ==
  /\ At(Kernel, "el0")
  /\ Schedule("el0")
  /\ UNCHANGED <<irqsOn, slot, steps, locks, user>>

\* syscall_handle, SYS_EXIT from EL0: user_exit_from_exception rewrites the
\* frame to return to arch_user_resume_el1 with the mask saved by UserRun.
UserExit ==
  /\ At(Kernel, "el0")
  /\ userActive
  /\ pc' = "resume" /\ elr' = "resume"
  /\ ps' = userSpsr /\ spsr' = userSpsr
  /\ userActive' = FALSE
  /\ UNCHANGED <<own, sp, sched, irqsOn, slot, steps, locks, userSpsr>>

\* The tail of arch_enter_user and of user_run_loaded_pages.
UserResume ==
  /\ Goto(Kernel, "resume", "idle")
  /\ userActive' = FALSE
  /\ UNCHANGED <<sched, irqsOn, slot, steps, locks, userSpsr>>

\* A fault in EL0 - an instruction of the program, or EL0 sent to the kernel's
\* own text - is unhandled: exception_handle_default panics with IRQs masked.
UserFault ==
  /\ own = Kernel
  /\ ps = "EL0"
  /\ pc' = "panic"
  /\ ps' = "EL1m"
  /\ elr' = pc
  /\ spsr' = ps
  /\ UNCHANGED <<own, sp, sched, irqsOn, slot, steps, locks, user>>

\* cpu_wait_forever after panic, and a CPU that has lost its context.
Stuck ==
  /\ pc \in {"panic", "after_finish", "wild"}
  /\ UNCHANGED vars

----------------------------------------------------------------------------
Init ==
  /\ state = [c \in Contexts |-> IF c = Kernel THEN "RUNNING" ELSE "UNUSED"]
  /\ current = Kernel
  /\ frame = [c \in Contexts |-> NoFrame]
  /\ own = Kernel /\ pc = "idle" /\ ps = "EL1m" /\ sp = 0
  /\ elr = "idle" /\ spsr = "EL1m"
  /\ irqsOn = FALSE
  /\ slot = NoTask
  /\ steps = [t \in Tasks |-> 0]
  /\ lock = NoTask
  /\ flags = [c \in Contexts |-> "EL1m"]
  /\ userActive = FALSE
  /\ userSpsr = "EL1m"

KernelCode ==
  \/ TaskCreate \/ CreateReady \/ CreateStack \/ StartWait \/ WaitCheck
  \/ WaitYield \/ EnableInterrupts
  \/ UserRun \/ EnterElr \/ EnterSpsr \/ EnterEret \/ UserSyscall \/ UserYield
  \/ UserExit \/ UserResume \/ UserFault

TaskCode(t) ==
  \/ TaskEntry(t) \/ TaskLoop(t) \/ TaskYield(t) \/ TaskReturn(t)
  \/ FinishedYield(t) \/ SysExitTask(t)

Kprintf(c) == KprintfEnter(c) \/ KprintfLock(c) \/ KprintfUnlock(c)

Next ==
  \/ KernelCode
  \/ \E t \in Tasks : TaskCode(t)
  \/ \E c \in Contexts : Kprintf(c)
  \/ TimerIrq
  \/ DeviceIrq
  \/ Stuck

Spec == Init /\ [][Next]_vars

\* What context c does when it has the CPU.
Run(c) == Kprintf(c) \/ IF c = Kernel THEN KernelCode ELSE TaskCode(c)

\* The timer leaves 10 ms between two interrupts, so that a context that gets
\* the CPU again and again gets on with its code.
FairSpec == Spec /\ \A c \in Contexts : SF_vars(Run(c))

----------------------------------------------------------------------------
(* Properties *)

\* Every variable has its type; a lost CPU ("wild") has none.
TypeOK ==
  /\ state \in [Contexts -> {"UNUSED", "READY", "RUNNING", "FINISHED"}]
  /\ current \in Contexts
  /\ frame \in [Contexts -> Frames \cup {NoFrame}]
  /\ own \in Contexts \cup {NoTask}
  /\ pc \in KernelPCs \cup TaskPCs \cup {"wild"}
  /\ ps \in PStates /\ spsr \in PStates
  /\ sp \in Int
  /\ elr \in KernelPCs \cup TaskPCs \cup {"wild"}
  /\ irqsOn \in BOOLEAN /\ userActive \in BOOLEAN
  /\ slot \in Tasks \cup {NoTask}
  /\ steps \in [Tasks -> 0 .. Steps]
  /\ lock \in Contexts \cup {NoTask}
  /\ flags \in [Contexts -> PStates]
  /\ userSpsr \in PStates

Lost == pc = "wild"

\* The CPU runs the code of the context current_task names, at a program point
\* of that context, and that context alone is RUNNING (task.c:182-241): the
\* save and the load of a switch, from an interrupt at any point, never mix two
\* contexts.  A task is FINISHED and still on the CPU only between its mark and
\* its yield in task_trampoline, and neither that yield nor SYS_EXIT returns.
ContextIntegrity ==
  ~Lost =>
    /\ own = current
    /\ pc \in PCsOf(current) \ {"after_finish", "after_exit"}
    /\ \A c \in Contexts : state[c] = "RUNNING" => c = current
    /\ state[current] = IF pc = "finished" THEN "FINISHED" ELSE "RUNNING"

\* Whoever may be chosen by task_pick_next can be resumed: a READY context has a
\* saved frame of its own, except the slot that task_create has marked READY and
\* not yet given a stack (task.c:144-145).
ReadyIsResumable ==
  ~Lost =>
    \A c \in Contexts :
      \/ state[c] # "READY"
      \/ frame[c] \in Frames /\ frame[c].own = c /\ frame[c].pc \in PCsOf(c)
      \/ c = slot /\ (pc = "c_stack" \/ frame[Kernel].pc = "c_stack")

\* The CPU is lost only when an interrupt came between the two last statements
\* of task_create: no other point of any code leaves a context that cannot be
\* resumed to the scheduler.
LostOnlyInCreate == Lost => state[Kernel] = "READY" /\ frame[Kernel].pc = "c_stack"

\* kprintf_lock is held only by the context on the CPU and with interrupts
\* masked, so that no context ever spins on it: with the holder off the CPU, a
\* context spinning with interrupts masked would spin for ever.
LockNeverContended ==
  /\ lock # NoTask => own = lock /\ ps = "EL1m"
  /\ pc = "spin" => lock = NoTask

\* A task is FINISHED only when its entry function has done all its work, which
\* is what task_run_preemptive_demo and the task tests check of their counters
\* (task.c:296, test.c:366-368).
FinishedDidItsWork == \A t \in Tasks : state[t] = "FINISHED" => steps[t] = Steps

\* user_active is one global flag, but SYS_EXIT consults it whoever calls: no
\* task is alive while a user program is active, so that a task's exit is never
\* taken for the program's (syscall.c:76-81).
UserRunsAlone ==
  userActive => ActiveTasks = {}

\* A finished task is never scheduled again, whatever the interrupts between
\* task_mark_finished and the yield (task.c:97-99).
FinishedForever ==
  [][\A t \in Tasks : state[t] = "FINISHED" => state'[t] = "FINISHED"]_vars

\* A wait for the tasks ends: task_run_preemptive_demo and the tests' loops
\* return to their caller (task.c:291-294).
WaitEnds == At(Kernel, "check") ~> At(Kernel, "idle")

\* A READY task gets the CPU, unless the CPU is lost or the kernel thread has
\* panicked.
ReadyRuns ==
  \A t \in Tasks : state[t] = "READY" ~> (state[t] = "RUNNING" \/ pc \in {"panic", "wild"})

(* The inductive invariant behind the safety properties *)

\* Where context c is, on the CPU or in its saved frame.
PcOf(c) == IF c = current THEN pc ELSE frame[c].pc

\* The program points a task can be preempted at and come back to.
Preemptible == {"trampoline", "work", "loop"}
\* The program points at which kernel_main's thread knows of no live task.
Quiet == {"idle", "enter_elr", "enter_spsr", "enter_eret", "el0", "resume"}

\* Context c has a frame of its own, with a program point at which it holds no
\* lock; EL0 is saved only at a point at which no task is alive.
Resumable(c) ==
  /\ frame[c] \in Frames
  /\ frame[c].own = c
  /\ frame[c].pc \in IF c = Kernel THEN KernelPCs \ {"spin", "kprintf"} ELSE Preemptible
  /\ frame[c].ps = "EL0" => frame[c].pc \in Quiet

\* A context off the CPU that may be chosen can be resumed, but for the slot
\* that has no stack yet.
FramesInv ==
  \A c \in Contexts \ {current} :
    state[c] = "READY" => Resumable(c) \/ (c = slot /\ PcOf(Kernel) = "c_stack")

\* A slot that was never filled has no frame.
UnusedInv == \A t \in Tasks : state[t] = "UNUSED" => frame[t] = NoFrame

\* The kernel thread is RUNNING or READY, the slot it fills is not in use, and
\* when it believes that no task is alive, none is.
KernelInv ==
  /\ state[Kernel] = IF current = Kernel THEN "RUNNING" ELSE "READY"
  /\ PcOf(Kernel) \in {"c_ready", "c_stack"} => slot \in Tasks
  /\ PcOf(Kernel) = "c_ready" => state[slot] = "UNUSED"
  /\ PcOf(Kernel) = "c_stack" => state[slot] = "READY" /\ frame[slot] = NoFrame
  /\ PcOf(Kernel) \in Quiet => current = Kernel /\ ActiveTasks = {}

\* kprintf_lock is free unless the CPU is inside kprintf, with interrupts masked.
LockInv ==
  /\ lock # NoTask => pc = "kprintf"
  /\ pc = "kprintf" => lock = own /\ ps = "EL1m"
  /\ pc = "spin" => ps = "EL1m"
  /\ pc \in {"spin", "kprintf"} => flags[own] # "EL0"

\* A user program belongs to the kernel thread, and what an interrupt leaves in
\* ELR_EL1 inside arch_enter_user is a point of arch_enter_user.
UserInv ==
  /\ userActive => pc \in (Quiet \ {"idle"}) \cup {"panic"} /\ ActiveTasks = {}
  /\ userActive => current = Kernel
  /\ ps = "EL0" => pc \in Quiet
  /\ pc \in {"enter_spsr", "enter_eret"} =>
       elr \in {"el0", "enter_spsr", "enter_eret"}

\* A task's work and its state agree.
WorkInv ==
  /\ \A t \in Tasks : state[t] = "FINISHED" => steps[t] = Steps
  /\ current \in Tasks /\ pc \in {"spin", "kprintf"} => steps[current] < Steps

IInv ==
  /\ TypeOK
  /\ LostOnlyInCreate
  /\ Lost => lock = NoTask /\ own = NoTask /\ ~userActive
  /\ ~Lost => /\ ContextIntegrity /\ FramesInv /\ UnusedInv /\ KernelInv
              /\ LockInv /\ UserInv
  /\ WorkInv

(* Statements of the repository's comments that the code does not meet *)

\* exceptions.S:87 "Restore exception return state for selected task/context":
\* the selected context has a frame to restore.
SelectedHasFrame == ~Lost

\* exceptions.S:94 "Restore saved state and return to interrupted context": an
\* interrupted arch_enter_user goes on to enter EL0 (or the program's fault is
\* reported).
UserIsEntered == At(Kernel, "enter_elr") ~> (At(Kernel, "el0") \/ pc = "panic")

============================================================================
