----------------------------- MODULE VirtioRng -----------------------------
(***************************************************************************)
(* The virtio entropy driver (drivers/virtio_rng.c): virtio_rng_fill       *)
(* submits one buffer and sleeps in wfi until its interrupt handler has    *)
(* seen the answer.  The test of request_done and the wfi are two          *)
(* instructions, with interrupts enabled between them.                     *)
(***************************************************************************)
EXTENDS VirtQueue

VARIABLES
  queue,          \* virtio_rng_state.queue
  request_busy, request_done, request_len,
  fill,           \* where virtio_rng_fill is: "idle", "check", "wfi", "asleep" or "return"
  raised,         \* InterruptStatus of the device: the used ring has changed
  given,          \* the heads the device has not answered yet
  filled          \* history: the bytes the device gave for this request, or -1

rngVars == <<queue, request_busy, request_done, request_len, fill, raised, given, filled>>

\* virtio_rng_fill down to the unlock.
Fill ==
  /\ fill = "idle"
  /\ ~request_busy
  /\ CanAlloc(queue)
  /\ queue' = AfterSubmit(AfterAlloc(queue), Allocated(queue))
  /\ given' = given \cup {Allocated(queue)}
  /\ request_busy' = TRUE /\ request_done' = FALSE /\ request_len' = 0
  /\ fill' = "check"
  /\ filled' = -1
  /\ UNCHANGED raised

\* while (!request_done)
Check ==
  /\ fill = "check"
  /\ fill' = IF request_done THEN "return" ELSE "wfi"
  /\ UNCHANGED <<queue, request_busy, request_done, request_len, raised, given, filled>>

\* cpu_wait_for_interrupt: wfi does not sleep while an interrupt is pending.
Sleep ==
  /\ fill = "wfi"
  /\ fill' = IF raised THEN "check" ELSE "asleep"
  /\ UNCHANGED <<queue, request_busy, request_done, request_len, raised, given, filled>>

FillReturn ==
  /\ fill = "return"
  /\ fill' = "idle"
  /\ UNCHANGED <<queue, request_busy, request_done, request_len, raised, given, filled>>

Woken == IF fill = "asleep" THEN "check" ELSE fill

\* Mutation: the descriptor is not given back.
FreedKept(p) == [p EXCEPT !.last_used = p.used_idx]

\* What the loop of virtio_rng_irq does to the queue: with one request at a time
\* there is at most one entry to read.
Freed(p) == AfterFree([p EXCEPT !.last_used = p.used_idx], PendingElem(p, 0).id)

\* virtio_handle_irq and virtio_rng_irq.
RngIrq ==
  /\ raised /\ raised' = FALSE
  /\ fill' = Woken
  /\ IF Pending(queue) = 0
       THEN UNCHANGED <<queue, request_busy, request_done, request_len>>
       ELSE /\ queue' = Freed(queue)
            /\ request_len' = PendingElem(queue, 0).len
            /\ request_done' = TRUE
            /\ request_busy' = FALSE
  /\ UNCHANGED <<given, filled>>

\* Mutation: the tick does not wake the CPU.
NoTimerIrq == FALSE /\ UNCHANGED rngVars

\* Any other interrupt, the 10 ms tick among them, also ends the wfi.
TimerIrq ==
  /\ fill = "asleep"
  /\ fill' = "check"
  /\ UNCHANGED <<queue, request_busy, request_done, request_len, raised, given, filled>>

\* The device (external) fills the buffer and raises its interrupt.
DeviceFills ==
  \E h \in given, n \in {0, 1} :
    /\ queue' = AfterDeviceUse(queue, h, n)
    /\ given' = given \ {h}
    /\ filled' = n
    /\ raised' = TRUE
    /\ UNCHANGED <<request_busy, request_done, request_len, fill>>

\* virtio_rng_init
RngInit ==
  /\ queue = QueueInit
  /\ request_busy = FALSE /\ request_done = FALSE /\ request_len = 0
  /\ fill = "idle"
  /\ raised = FALSE
  /\ given = {}
  /\ filled = -1

Caller == Check \/ Sleep \/ FillReturn

RngNext == Fill \/ Caller \/ RngIrq \/ TimerIrq \/ DeviceFills

RngSpec == RngInit /\ [][RngNext]_rngVars

\* The caller runs while it is awake; the timer ticks; the device answers.
RngFairSpec ==
  /\ RngSpec
  /\ WF_rngVars(Caller) /\ WF_rngVars(RngIrq) /\ WF_rngVars(TimerIrq) /\ WF_rngVars(DeviceFills)

----------------------------------------------------------------------------
(* Properties *)

\* The type invariant of the driver's state.
RngTypeOK ==
  /\ queue \in Queues
  /\ request_busy \in BOOLEAN /\ request_done \in BOOLEAN /\ request_len \in {0, 1}
  /\ fill \in {"idle", "check", "wfi", "asleep", "return"}
  /\ raised \in BOOLEAN /\ given \subseteq Descs
  /\ filled \in {-1, 0, 1}

\* The descriptors the handler has yet to read from the used ring.
Answered == {PendingElem(queue, k).id : k \in 0 .. Pending(queue) - 1}

\* The handler frees the buffer's descriptor exactly once: one that is neither
\* with the device nor answered is on the free list, once, and one request at a
\* time is all there is.  The caller returns the number of bytes the device gave
\* for this request.
RngRequestSound ==
  /\ RngTypeOK
  /\ FreeListIs(queue, Descs \ (given \cup Answered))
  /\ queue.num_free = IF request_busy THEN Size - 1 ELSE Size
  /\ request_done => filled # -1 /\ request_len = filled

\* virtio_rng_fill returns, although the interrupt may arrive between the test
\* of request_done and the wfi: the next tick wakes it.
FillEnds == fill # "idle" ~> fill = "idle"
============================================================================
