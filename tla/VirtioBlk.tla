----------------------------- MODULE VirtioBlk -----------------------------
(***************************************************************************)
(* The virtio block driver (drivers/virtio_blk.c): virtio_blk_transfer     *)
(* submits one request under its lock and then polls virtio_blk_complete_- *)
(* used with interrupts on, while the interrupt handler calls the same     *)
(* function.  The handler may run between any two accesses of the poll.    *)
(***************************************************************************)
EXTENDS VirtQueue

ASSUME BlkAssumption == Size >= 3

VARIABLES
  q,         \* virtio_blk_state.queue
  req,       \* the request: [busy, done, status, used_len, header, data, stat]
  pc,        \* where virtio_blk_transfer is
  reg,       \* its locals in virtqueue_pop_used: [last, head, len]
  irqOn,     \* interrupts are enabled (not during the boot)
  intr,      \* InterruptStatus of the device: the used ring has changed
  dev,       \* the heads the device has not answered yet
  answer,    \* history: the device's answer to the request, or "none"
  result     \* what the last transfer returned: 0, -1

vars == <<q, req, pc, reg, irqOn, intr, dev, answer, result>>

S_OK == 0
S_IOERR == 1
S_PENDING == 255   \* 0xff, written by the driver

\* Mutation: request_done is left from the request before.
NewRequestDoneKept(h, d, s) ==
  [busy |-> TRUE, done |-> req.done, status |-> S_PENDING, used_len |-> 0,
   header |-> h, data |-> d, stat |-> s]

\* The fields of virtio_blk_state that describe a new request.
NewRequest(h, d, s) ==
  [busy |-> TRUE, done |-> FALSE, status |-> S_PENDING, used_len |-> 0,
   header |-> h, data |-> d, stat |-> s]

\* virtio_blk_transfer down to the unlock: three descriptors are taken and the
\* request is submitted, with interrupts masked.
Submit ==
  /\ pc = "idle"
  /\ ~req.busy
  /\ CanAlloc(AfterAlloc(AfterAlloc(q)))
  /\ LET h == Allocated(q)
         d == Allocated(AfterAlloc(q))
         s == Allocated(AfterAlloc(AfterAlloc(q)))
         linked == [AfterAlloc(AfterAlloc(AfterAlloc(q))) EXCEPT
                      !.next[h] = d, !.next[d] = s, !.next[s] = 0]
     IN  /\ q' = AfterSubmit(linked, h)
         /\ req' = NewRequest(h, d, s)
         /\ dev' = dev \cup {h}
  /\ pc' = "wait"
  /\ answer' = "none"
  /\ UNCHANGED <<reg, irqOn, intr, result>>

\* while (!request_done)
Wait ==
  /\ pc = "wait"
  /\ pc' = IF req.done THEN "return" ELSE "pop"
  /\ UNCHANGED <<q, req, reg, irqOn, intr, dev, answer, result>>

\* virtqueue_pop_used: compare last_used_idx with the device's counter.
PopCompare ==
  /\ pc = "pop"
  /\ IF q.last_used = q.used_idx
       THEN pc' = "wait" /\ UNCHANGED reg
       ELSE pc' = "elem" /\ reg' = [reg EXCEPT !.last = q.last_used]
  /\ UNCHANGED <<q, req, irqOn, intr, dev, answer, result>>

\* Read the element the index points at.
PopElem ==
  /\ pc = "elem"
  /\ reg' = [reg EXCEPT !.head = q.used[reg.last % Size].id, !.len = q.used[reg.last % Size].len]
  /\ pc' = "store"
  /\ UNCHANGED <<q, req, irqOn, intr, dev, answer, result>>

\* last_used_idx++: the compiled code may add to the value it compared or to the
\* value that is in memory by now.
PopStore ==
  /\ pc = "store"
  /\ \E from \in {reg.last, q.last_used} : q' = [q EXCEPT !.last_used = (from + 1) % IdxMod]
  /\ pc' = "match"
  /\ UNCHANGED <<req, reg, irqOn, intr, dev, answer, result>>

\* Mutation: the used entry is compared with the wrong descriptor.
MatchData ==
  /\ pc = "match"
  /\ pc' = IF req.busy /\ reg.head = req.data THEN "free" ELSE "pop"
  /\ UNCHANGED <<q, req, reg, irqOn, intr, dev, answer, result>>

\* virtio_blk_complete_used: is this the answer to the request in progress?
Match ==
  /\ pc = "match"
  /\ pc' = IF req.busy /\ reg.head = req.header THEN "free" ELSE "pop"
  /\ UNCHANGED <<q, req, reg, irqOn, intr, dev, answer, result>>

\* Mutation: the status descriptor is not freed.
WithoutStatus(p, r) == AfterFree(AfterFree(p, r.header), r.data)

\* virtio_blk_free_pending_chain
FreeChain(p, r) == AfterFree(AfterFree(AfterFree(p, r.header), r.data), r.stat)

Free ==
  /\ pc = "free"
  /\ q' = FreeChain(q, req)
  /\ req' = [req EXCEPT !.used_len = reg.len]
  /\ pc' = "done"
  /\ UNCHANGED <<reg, irqOn, intr, dev, answer, result>>

\* request_done = 1; request_busy = 0
SetDone ==
  /\ pc = "done"
  /\ req' = [req EXCEPT !.done = TRUE]
  /\ pc' = "clear"
  /\ UNCHANGED <<q, reg, irqOn, intr, dev, answer, result>>

ClearBusy ==
  /\ pc = "clear"
  /\ req' = [req EXCEPT !.busy = FALSE]
  /\ pc' = "pop"
  /\ UNCHANGED <<q, reg, irqOn, intr, dev, answer, result>>

\* The transfer returns.
Return ==
  /\ pc = "return"
  /\ result' = IF req.status # S_OK \/ req.used_len < 1 THEN -1 ELSE 0
  /\ pc' = "idle"
  /\ UNCHANGED <<q, req, reg, irqOn, intr, dev, answer>>

----------------------------------------------------------------------------
(* The interrupt handler and the device *)

\* The entries of the used ring that answer the request in progress.
Matching == {k \in 0 .. Pending(q) - 1 : PendingElem(q, k).id = req.header}

\* Mutation: the handler completes the request but leaves the entries unread.
ReadAllKept(p) == p

\* The queue after virtqueue_pop_used has returned everything there was.
ReadAll(p) == [p EXCEPT !.last_used = p.used_idx]

\* virtio_handle_irq acknowledges the interrupt, then virtio_blk_irq runs
\* virtio_blk_complete_used to its end.
Irq ==
  /\ irqOn /\ intr
  /\ intr' = FALSE
  /\ IF req.busy /\ Matching # {}
       THEN LET first == CHOOSE k \in Matching : \A j \in Matching : k <= j
            IN  /\ q' = FreeChain(ReadAll(q), req)
                /\ req' = [req EXCEPT !.used_len = PendingElem(q, first).len,
                                      !.done = TRUE, !.busy = FALSE]
       ELSE q' = ReadAll(q) /\ UNCHANGED req
  /\ UNCHANGED <<pc, reg, irqOn, dev, answer, result>>

\* kernel_main enables interrupts once the boot is over.
EnableIrqs ==
  /\ ~irqOn
  /\ irqOn' = TRUE
  /\ UNCHANGED <<q, req, pc, reg, intr, dev, answer, result>>

\* The device (external) writes data and status, then the used ring, and raises
\* its interrupt.
DeviceAnswer ==
  \E h \in dev, status \in {S_OK, S_IOERR}, len \in {0, 1} :
    /\ q' = AfterDeviceUse(q, h, len)
    /\ req' = [req EXCEPT !.status = status]
    /\ answer' = IF status = S_OK /\ len = 1 THEN "ok" ELSE "error"
    /\ dev' = dev \ {h}
    /\ intr' = TRUE
    /\ UNCHANGED <<pc, reg, irqOn, result>>

\* virtio_blk_init
Init ==
  /\ q = QueueInit
  /\ req = [busy |-> FALSE, done |-> FALSE, status |-> 0, used_len |-> 0,
            header |-> 0, data |-> 0, stat |-> 0]
  /\ pc = "idle"
  /\ reg = [last |-> 0, head |-> 0, len |-> 0]
  /\ irqOn = FALSE
  /\ intr = FALSE
  /\ dev = {}
  /\ answer = "none"
  /\ result = 0

Transfer ==
  Submit \/ Wait \/ PopCompare \/ PopElem \/ PopStore \/ Match \/ Free \/ SetDone \/ ClearBusy
    \/ Return

Next == Transfer \/ Irq \/ EnableIrqs \/ DeviceAnswer

Spec == Init /\ [][Next]_vars

\* The caller's steps after the submission, the handler and the device go on.
Fairness ==
  /\ WF_vars(Transfer /\ pc # "idle")
  /\ WF_vars(Irq)
  /\ WF_vars(DeviceAnswer)

FairSpec == Spec /\ Fairness

----------------------------------------------------------------------------
(* Properties *)

\* The type invariant of the driver's state.
TypeOK ==
  /\ q \in Queues
  /\ req \in [busy : BOOLEAN, done : BOOLEAN, status : {S_OK, S_IOERR, S_PENDING},
              used_len : {0, 1}, header : Descs, data : Descs, stat : Descs]
  /\ pc \in {"idle", "wait", "pop", "elem", "store", "match", "free", "done", "clear", "return"}
  /\ reg \in [last : Indices, head : Descs, len : {0, 1}]
  /\ irqOn \in BOOLEAN /\ intr \in BOOLEAN
  /\ dev \subseteq Descs
  /\ answer \in {"none", "ok", "error"}
  /\ result \in {0, -1}

\* The poll and the interrupt handler never both free the chain of a request
\* and never lose it: the free list has every descriptor that no unfinished
\* request uses, once, and no other.
DescriptorsConserved ==
  /\ TypeOK
  /\ FreeListIs(q, IF req.busy /\ pc \notin {"done", "clear"}
                     THEN Descs \ {req.header, req.data, req.stat} ELSE Descs)

\* A transfer returns only after the device has answered this request, and it
\* reports that answer, although stale entries of the used ring may be read on
\* the way.
ReturnsItsAnswer ==
  /\ req.done => answer # "none" /\ dev = {}
  /\ pc = "idle" /\ answer # "none" => (result = 0) = (answer = "ok")

\* Between two transfers the driver has read the used ring up to the device's
\* counter, even after the handler has run inside virtqueue_pop_used: a later
\* request meets no old entry.
RingCaughtUp == pc = "idle" => q.last_used = q.used_idx

\* Every transfer ends if the device answers.
TransferEnds == pc # "idle" ~> pc = "idle"
============================================================================
