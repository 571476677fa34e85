# Verification of duck-os

duck-os is a small AArch64 kernel for QEMU's `virt` machine: one CPU, a
preemptive round-robin scheduler, EL0 programs, virtio drivers, a log file system
on the virtio disk, a text and graphics console, a shell and a desktop.
This directory holds TLA+ models of its parts, the TLC configurations that check
them, and TLAPS proofs of the properties that matter most. `PROJECT.json` is the
index: which definition models which lines, what each run checks, which
disagreements between the code and its own words were found.

## Inventory

| Part | State | Operations | What is hard | What makes it correct |
|---|---|---|---|---|
| Scheduler (`task.c`, `exceptions.*`) | `task_table`, `current_task`, saved frames | create, yield, exit, tick | an interrupt at every instruction | no two contexts mix; whoever can be chosen can be resumed; nobody starves |
| EL0 entry and exit (`user.c`, `user_enter.S`, `syscall.c`) | `user_active`, saved SPSR, ELR/SPSR | run, enter, SVC, exit, fault | banked registers live across an interrupt | a program is entered, ends once, and leaves the interrupt mask as it was |
| Lock and log (`spinlock.c`, `klog.c`) | `kprintf_lock`, DAIF | lock, unlock | a spin lock on one CPU | the lock is never contended |
| Memory (`pmm.c`, `kmalloc.c`, `memory_layout.c`) | bitmap, used count, heap pointer | alloc, free, load a program, kmalloc | two allocators over one memory, loads that fail half-way | every page has one owner |
| Program loader (`user.c`, `vfs.c`, `tinyfs.c`, `file.c`, `mmu.c`) | program pages, user window's table | stat, open, read, load flat or ELF, map, run | wrapping addresses, chunks against blocks against pages, read errors anywhere, table entries that outlive their program | a program sees its file's image in its own pages and nobody else's |
| Virtqueue (`virtqueue.c`) | free list, two rings, wrapping indices | alloc, free, submit, pop | `last_used_idx++` against an interrupt; wrap-around | descriptors are conserved |
| virtio-blk | one request | submit, poll, IRQ | poll and IRQ run the same completion code | a transfer ends and reports its own answer |
| virtio-rng | one request | fill, `wfi`, IRQ | the wake-up may come before the sleep | a fill ends |
| Log file system (`logfs.c`) | log on disk; file and segment tables, log end | mount, create, append, read | torn writes, refused blocks, read errors, power failure, full tables | what was acknowledged is there after a mount, and reads return it |
| Input (`input.c`, `virtio_input.c`) | event ring, mode, shift, device buffers | poll, pop, set mode | device, poller and reader at their own pace; full ring | order, no lost buffers, the case as typed |
| Console, display (`console.c`, `virtio_gpu.c`, `gfx/cursor.c`) | grid, text cursor, dirty rectangle, frame buffer, pointer with its saved background | putc, scroll, attach, read a line, draw a picture, move the pointer, flush | printing from tasks and handlers between two locks; refused requests; who restores what under the pointer | the frame buffer shows the grid, the display shows the frame buffer but for what is dirty or was refused |
| Desktop and its applications (`src/desktop`) | windows in stacking order, focus, drag, modal alert, instances, application states | open, close, click, drag, type, alert, run a command | long event sequences, reused ids, steps that fail half-way, `desktop` inside the desktop | windows, instances and states stay in step; an alert holds what is under it; the prompt gets its console back |
| Block layer, ramdisk, initramfs | device table, disk contents | register, read | bounds | reads stay inside the image |
| Shell, boot, MMU, GIC, timer, PCI, UART | registers, command table | - | boot order | - |

The parts interact by calls on one CPU and by interrupts. The timer interrupt
calls the scheduler; a virtio interrupt is acknowledged and passed to the handler
of blk or rng; everything else polls. The file system calls the block driver
synchronously; the shell and the desktop read events from the input ring; user
programs and task stacks take memory from the two allocators. The hazards in
`PROJECT.json` list, line by line, where this is delicate.

## Modules

**Task** (proofs in **TaskProofs**). The CPU's registers (`own`, `pc`, `ps`,
`sp`, `elr`, `spsr`) and the scheduler's variables. A step is what the CPU does
between two points at which an interrupt can be seen, so `TimerIrq` and
`DeviceIrq` are enabled wherever the code runs with interrupts enabled:
inside `task_create` (`TaskCreate`, `CreateReady`, `CreateStack` are its
statements), inside `arch_enter_user` (`EnterElr`, `EnterSpsr`, `EnterEret` are
its instructions) and around `kprintf`. `Schedule` is
`task_schedule_from_exception` with the save before it and the restore after
it; `PickNext` is the round-robin scan. A table task runs `task_trampoline` and
an entry function that prints `Steps` times, may yield, and returns or exits.
Stack pointers are counted in 16-byte units from the top of the owner's stack.
When a context is resumed through a null frame, the CPU is lost (`pc = "wild"`).

**LogFS** (proofs in **LogFSProofs**). The log is an array of cells; a record is
a header cell and its payload cells, written in one or more device blocks
(`WriteBlock`), each of which may be refused (`WriteFails`, with or without the
block being stored). `MountBegin`, `ReplayCreate`, `ReplayAppend` and `MountDone`
are the loop of `logfs_mount`; `MountReadError` is a read error in it;
`PowerOff` may come at any point. The checksum is modelled by its purpose: a
record is accepted when all its parts are in place.
**LogFSFiles** adds `logfs_read_file_part` and two history variables - what the
callers were told and what an unfinished operation may have left - and shows
that LogFS implements **DurableFiles**, the abstract promise: a mount finds
everything that was acknowledged, and of the operation that was cut off either
all or nothing. The promise ends where the code's does: `damaged` is set when a
mount met a read error or when `logfs_append` left a record it could not enter
into its tables.

**VirtQueue** (lemmas in **VirtQueueProofs**) has the operations of `virtqueue.c` as
operators on a record; `FreeListIs(q, S)` says what the threaded free list holds.
**VirtioBlk** uses it for `virtio_blk_transfer`; the accesses of
`virtqueue_pop_used` are one step each, and the handler may run between any two
of them. The increment of `last_used_idx` is a data race: it may start from the
value compared or from the value in memory. **VirtioRng** is `virtio_rng_fill`
with the test and the `wfi` as two steps. The proofs of both drivers are in
**VirtioProofs**.

**Memory** (proofs in **MemoryProofs**) has pages below and above the kernel, the
bitmap with its count, the callers that free their pages, the program loader that
never does, and the heap. **Programs** is the loader itself and shows that it
implements Memory. `Stat`, `FileRead`, `ReadFilePart` and `ReadBytes` are the way from a path
to the bytes of the disk; `LoadFlat` and `LoadElf` are `user_run_flat_file` and
`user_run_elf_file` with all their checks, in words and page indices that wrap;
`CopyPart` (chunk by chunk) and `ZeroRange` put the bytes into pages; `MapPages` writes the user
window's table, in which the entries of earlier programs stay. Any one read of a load
may be refused, told apart by what it reads (`Errors`). A load is one step because
nothing else touches its state: interrupt handlers and table tasks take no pages and
read no files. Entering and leaving EL0 step by step is in Task.

**Console** (**ConsoleProofs**) is the graphics console. The frame buffer has two parts per character
cell, the lower of which carries the cursor's mark, and the pointer covers a cell.
`Putc` and what it calls are operators on the record `c` of the C statics; a step is
one critical section, so a handler's or a task's print can fall between the two of
`kprintf` and into a pointer move. `Write` is a recursive function along the text;
what may be printed is the constant `Texts`, which `MCConsole` chooses. Requests of the
GPU may be refused.

**Desktop** (**DesktopProofs**) is `src/desktop` with the shell commands that reach it. Each event taken
from the input ring is one step, since the handlers call each other in one thread;
they are operators on the record `d` of the statics. `desktop` typed into a
Terminal window suspends the handler it runs in, and `depth` counts the loops on the
call stack. Positions are abstracted to what a hit test can answer.

**Input** (**InputProofs**) is the keyboard's event queue, the ring and the readers.
`PollPop`, `PollHandle` and `PollSubmit` are the steps of
`virtio_input_poll_device` between which the device may act. Events carry a
number and the state of the shift keys when they were sent, which only the
properties read. The ring is shown to implement **DropOldestQueue**.

The devices themselves (disk, entropy source, keyboard, serial line, the power
switch) are outside the repository; their actions are marked external and do
what the drivers may rely on and no more.

## Runs

| Run | What it shows |
|---|---|
| `task` | The safety properties of the scheduler and, under fairness, `WaitEnds` and `ReadyRuns`: two tasks, two iterations, 30 729 states. |
| `logfs_crash` | Two files, seven cells, blocks of two: the tables, the reads and the refinement `Durable`, with refused writes, read errors, full tables, a full log and power failures; 1 063 668 states. |
| `blk` | Poll against handler with counters that wrap; `TransferEnds` under fairness; 68 838 states. |
| `rng_fill` | The lost wake-up in `virtio_rng_fill` is rescued by the tick; 1 409 states. |
| `programs` | Programs of every shape the loader tells apart, run one after the other: the image in the window is the file's, the window reaches programs' pages only, pages have one owner, and the loader implements Memory; 92 816 states. |
| `input` | Two shift keys, a letter, a serial line, four events, a ring that holds two; 436 256 states. |
| `desktop` | Three windows, two instances, one nested `desktop`: every sequence of events; 253 606 states. |
| `console` | A grid of two by two, a task, handlers that print, a line of four, pictures, the pointer and refused requests; 857 301 states. |

Runs that are expected to fail, each with a finding that quotes the line the code
does not live up to:

| Run | What it shows |
|---|---|
| `task_create_race` | A tick between `task->state = TASK_READY` and `task_prepare_stack` makes the scheduler resume a task without a frame. `LostOnlyInCreate` (checked and proved) says that this is the only place. |
| `task_enter_user_irq` | An interrupt inside `arch_enter_user` overwrites ELR_EL1 and SPSR_EL1; the eret then jumps to itself for ever. |
| `logfs_orphan` | `logfs_append` writes its record before it looks for a segment; files created afterwards are gone at the next mount. |
| `memory_overlap` | Heap and page allocator share the memory behind the bitmap. |

### Bounds

`TASK_MAX = 2` and `Steps = 2` give two tasks and the kernel thread every order of
preemption, yield and exit; the theorems hold for every table size. Seven cells in
blocks of two let a record span two blocks, lie across a block boundary and follow
a torn one, and hold one append more than the segment table of two; `MaxId = 2`
stops creating after two ids, one of which a failed create may burn. A queue of four
descriptors with counters modulo eight wraps several times within a run and leaves
stale entries in the ring, as 16 and 65536 do. In Input
four events are enough to fill a ring that holds two and the two device buffers,
and to press both shift keys, let one go and strike a letter.

In Programs a page has four bytes, a chunk and a block three, so that chunks and
blocks are cut by pages in every way; the address space has 64 bytes and page indices
are modulo 8, so that segments at the end of the address space wrap. Seven free pages
are enough for the boot test's demo and two ELF programs, the second of which meets
the entries of the first, and for a third load that runs out of memory. The files
are listed in `MCPrograms`: segments across a page, with cleared bytes, overlapping,
sharing a page with different rights, with a gap, skipped ones, and each kind that
must be refused. `MaxLent = 1` is the pages other callers hold at a time, and one read
of a load is refused at most, since a load ends at the first.

Three window slots are the fewest with an alert over two windows and a full table; two
instances let one close while the other is used; `MaxDepth = 2` is a `desktop` within
the desktop; `MaxOff = 1` window may be off the left edge, as long as no instance has
lost its windows. In Console a grid of two by two wraps and scrolls after four characters,
which is also the longest line, so the echo of a line can scroll while it is edited;
`MaxOthers = 2` bounds what disturbs a print: pictures, pointer moves, handlers that
print and refused flushes together. Events, ids and pages stop at their named
bounds; the code's 32-bit ids are not reached in practice.

### Fairness

- `Task!FairSpec`: strong fairness for what each context does when it has the CPU.
  Interrupts can disable a context's next step, but the timer leaves 10 ms between
  two of them (`kernel.c:274`), far longer than a handler takes, so a context that
  gets the CPU again and again gets on.
- `VirtioBlk!FairSpec`: weak fairness for the caller after its submission (it polls in
  a loop), for the interrupt handler and for the device's answer.
- `VirtioRng!RngFairSpec`: the same, and weak fairness for the tick, which
  `timer_handle_irq` rearms each time. Without it a wake-up that falls between the
  test and the `wfi` would be lost.
- `Input!FairSpec`: weak fairness for the reader's polling and popping: `input_getc`,
  `console_read_line` and the desktop's loop do nothing else while they wait. Nothing
  is assumed of the keyboard, the user or the mode.

## Proofs

`TaskProofs` proves, for every `TASK_MAX` and `Steps` (assumed to be positive
integers), that `IInv` is an invariant of `Task!Spec` and from it the types,
`ContextIntegrity`, `LostOnlyInCreate`, `ReadyIsResumable`,
`LockNeverContended`, `FinishedDidItsWork`, `UserRunsAlone` and the action
property `FinishedForever`. None of these is inductive by itself. `ContextIntegrity`
needs to know what a saved frame contains (`FramesInv`: the frame belongs to its
context, at a point where it holds no lock); that in turn needs `UnusedInv` and
`KernelInv`, which tie the slot `task_create` is filling to the kernel thread's
position, wherever that thread is; `UserInv` restricts what an interrupt inside
`arch_enter_user` can leave in ELR_EL1; `LockInv` ties the lock to the program
point; `WorkInv` ties a task's state to its progress. The induction has one step
per action, and lemmas on what `Schedule` does to the invariant are shared by the
tick, the yields and the exits.

`LogFSProofs` proves, for every log, block and table size (`LogFSAssumption`),
`LogInvariant` and from it `IdsUnique`, `SegmentsTile`, `SegmentsHold`, the types
and `LogStable`. The strengthening is `OpInv` (the record being written starts at
the log's end, what is written of it is on the disk, and it belongs to the file its
operation names) and `SizeInv` (sizes agree with the room below the log's end).
Without `OpInv` a finished append could not be known to be on the disk.
Two results about LogFSFiles stand on it:

- `ReadsWhatWasAcknowledged`. `ReadInv` says that the tables, without a file that is
  still being created, show the acknowledged contents, and `TableInv` that an operation
  in progress has room for its file. That `logfs_read_file_part` then returns the right
  bytes is an induction along the segment table (`ReadPartIs`): the segments passed so
  far cover the file from its start, and what has been collected is the requested part
  of what they cover. The induction is over numbers, by the least index at which the
  claim fails.
- `ImplementsDurableFiles`, the refinement. `DurableInv` says that, as long as nothing
  is `damaged`, there is a set of replay points, each reached from another by one
  accepted record (`Chain`), from the empty tables to the last acknowledged point; that
  behind this point the disk holds at most one record a mount would accept, left by an
  operation that was not acknowledged or being written (`Behind`); and that a mount
  under way stands at one of these points or one record behind. `MountBegin`, the
  replays, `CreateNoSpace` and `WriteBlock` are stutters of DurableFiles; `MountDone`
  and `MountReadError` are `Recover`; `Create` and `AppendFile` are `Begin`; the
  `Finish` actions are `Ack`; `WriteFails` and `AppendNoSegment` are `Fail`; `PowerOff`
  is `Crash`.

`MemoryProofs` proves, for every memory size, place of the kernel, program size and
set of heap requests (`MemoryAssumption`), `OneOwner`, the types - with them that
`pmm_used_count` never leaves 0 .. `pmm_page_count`, so that the unsigned counter does
not wrap - and the action property `FreshPage`. The inductive invariant is `OneOwner`
with the sets typed; the counter's bound follows from what it counts, and each step
adds or removes pages whose bits show that nobody has them. For the loader, with any
page and block size, any chunk that is no larger than a page and any files
(`ProgramsAssumption`, in which the largest program fits below the end of the address
space), it proves `ImplementsMemory`, and so `OneOwner` of a running system, and
`WindowOwned`: an entry of the user window, also one left by an earlier program, maps a
page that belongs to a program.

`MemoryProofs` also proves `ImageIntact`. A byte of the image is looked at
by its number (`Byte`), whichever page it is in, and the proof climbs from the smallest
copy to the whole load:

- `Store` changes the bytes it is given and no other (`Landed`), also where a chunk is
  cut by the end of a page; a read returns the bytes of the file however the blocks of
  the device cut them (`Copied`);
- a part of a file, then a list of segments, is a recursive function over the numbers of its
  chunks and of its segments. `Iterated` shows that such a function exists, `Upto` is
  induction over its steps: a set with 0 and, with each number, the next;
- later segments cover earlier ones, and `ImageByte` takes the last that covers a byte;
- no index wraps: a segment that passed the first pass lies inside the image, so its
  page numbers are small, and one whose cleared bytes reach the end of the address space
  makes the second pass fail. This needs `Word` to be a multiple of `PageSize * IndexMod`
  (2^64, 2^12 and 2^32 in the code).

The inductive invariant `ImageInv` adds to `WindowOwned` and the types that the image's
pages belong to a program and lie in the window (`Placed`): so the allocator gives
none of them away, and a program that writes to a page it may write hits no other,
because no page is in the window twice.

`VirtQueueProofs` has the lemmas about the queue, for every `Size` and every index
modulus it divides (`QueueAssumption`): taking a descriptor from the free list and
putting one or a chain back, and the distance between two wrapping indices.
`VirtioProofs` proves, of the disk, `DescriptorsConserved`, `ReturnsItsAnswer` and `RingCaughtUp`
for every queue of at least three descriptors, the number of a request's chain. The
inductive invariant adds that the chain's descriptors are distinct and names the five
phases of a request: `Resting`, `Outstanding` at the device, answered but `Unread`,
`Completing` while one of the two completers is between its reads, `Completed`. Only
while it is `Completed` may `last_used_idx` have been counted too far, by the data race
of the two completers. Of the entropy source it proves `RngRequestSound` with the phases
`Quiet`, `AtDevice` and `Unread`.

`InputProofs` proves, for every ring capacity, queue size and set of shift keys
(`InputAssumption`), `BuffersConserved`, `KeysInOrder`, `CharsAsTyped` and that the
event ring implements `DropOldestQueue`. `Counts` and `Places` say where each of the
device's buffers is; `Order` that numbers rise along the ring, the event in the
driver's hand and the events waiting in the used ring; `ShiftTracked` that, until
`lost` is set, the reader's shift flag brought up to date with the shift events in
flight is what the keyboard holds down.

`DesktopProofs` proves, for every number of windows (at least the two an alert over a
window needs), instances and nested loops (`DesktopAssumption`), `OwnersRun`,
`FocusVisible`, `DragHeld`, `AlertIsModal`, `PromptRestored`, `CaptureLive` and the
action property `ModalHolds`. The inductive invariant has `Sound` (the window array
against focus, drag, modal alert and the instances' window counts), `Private` (no two
instances share an application state), `Captured` (whose output is captured) and
`Session` (the saved console modes). `Sound` speaks of the set of windows, because
raising one permutes the array. A new instance has no window until its application
opens one, and handlers run in between; the second argument of `Sound` names that
instance. There is one lemma for each handler, cited by the handlers that call it.

`ConsoleProofs` proves, for every grid, line length, set of tasks and set of texts made of
characters and controls (`ConsoleAssumption`: the grid and the line are not empty, and
no character has the name of a control or of an image), `GridRendered`, `DirtyCovers`,
`NothingPending`, `EchoMatches` and `NoTrail`. The parts of the inductive invariant:

- `Sane`, of a console record: it is typed, its frame buffer shows the grid (`Rendered`),
  and what the display does not show is dirty or owed (`Covered`). Every operator on the
  record, from `DrawCell` to `SetMode`, has a lemma that it keeps `Sane`; a
  text keeps it by induction along its characters (`WriteSteps`, by the least index at
  which the claim fails).
- `Pointing` and `Over`, of the pointer: where its image is still to be seen and nothing
  foreign was under it, the saved background is what the console shows there now. `NoTrail`
  and `GridRendered` need it, since a move puts that background back. Between the two
  parts of a move, `Over` says that nothing foreign has come to the place it moves to.
  `Prints` is what makes it stable: printing draws over the pointer's image or
  changes nothing below it.
- `Stages`: there is neither a pointer nor a line being read before the shell starts.
- `EchoMatches` is inductive with these. `Place` numbers the cells row by row; `PutAt`
  says that a character takes the next place and that a scroll moves every place up by
  one row, so the two cases of a full grid and any other are one; `EchoErase` follows
  `"\b \b"` through its three characters, also at the first cell.

Only model-checked:

- all liveness (`WaitEnds`, `ReadyRuns`, `TransferEnds`, `FillEnds`,
  `DeviceGetsBuffers`): fairness and ENABLED are beyond the prover.

## Observations

Behaviour the models show that no line of the repository promises otherwise, so that
no run is expected to fail on it:

- A new task starts with its stack pointer 16 bytes above its stack: `sizeof(frame)`
  is 0x130, the return path drops 0x140 (`task.c:83`).
- A flush the GPU refuses is forgotten (`console.c:48`); the model keeps what it owed
  in `owed`, and `DirtyCovers` says that nothing else is ever missing. Attaching again
  forgets the dirty rectangle as well.
- `desktop once` draws a frame that nobody flushes (`shell_core.c:668`,
  `desktop.c:595`), and the pointer moved with the arrow keys is drawn after the
  flush of its frame.
- The pointer puts back the background it saved even if something was drawn there
  since, and a handler that prints inside a pointer move draws under it; `NoTrail`
  says that the pointer itself is never left behind.
- A handler that prints while a flush waits shares the GPU's control queue with it;
  what it prints while a Terminal captures the output goes to the Terminal.
- `desktop` typed into a Terminal wipes the windows of the outer desktop; its
  instances stay allocated for good, and the console modes saved by the
  outer one are lost. `PromptRestored` leaves this case out by name (`nested`).
- A window dragged off the left edge is hit nowhere, since coordinates are unsigned.
- A read error on the first header makes an ELF file run as a flat program
  (`user.c:757`).
- Entries of the user window outlive their program. They do no harm because a
  program's pages are never freed (`WindowOwned`, whose mutant frees them).

## Not modelled

- A torn header within a cell, a checksum that collides, and payload bytes that
  happen to look like a record.
- More than one caller of a driver at a time: all of them run on the one kernel
  thread today, and table tasks do no I/O but printing.
- What the pages of a program contain when the heap hands the same memory out: the
  overlap is the finding of `memory_overlap`, and Programs assumes it away.
- Directory listing, the copy of the initramfs into the ramdisk, the block device
  table: each runs once or only reads.
- The text inside the desktop's windows, the lists and cursors of the full-screen
  GUI applications, the Files application's listing; they change only what is drawn.
- The virtio-mmio handshake, PCI, GIC and MMU set-up, which program registers once at
  boot; formatting, fonts and drawing; the shell commands that only print.

## Plan

1. The GPU's control queue with a request from a handler inside another one.
2. The virtio-mmio handshake and the boot order of `kernel_main`.
3. The Files application and the editor's buffer against the log file system.
