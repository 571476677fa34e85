----------------------------- MODULE VirtQueue -----------------------------
(***************************************************************************)
(* The split virtqueue of drivers/virtqueue.c, as operators on a record:   *)
(* the free list threaded through the descriptors' next fields, the        *)
(* available ring the driver fills and the used ring the device fills.     *)
(* Ring indices are free-running counters of a fixed width.                *)
(***************************************************************************)
EXTENDS Integers, FiniteSets, Functions

CONSTANTS
  Size,     \* queue->size
  IdxMod    \* ring indices count modulo this (2^16 for an unsigned short)

\* The queue is shorter than the range of its counters, and divides it.
ASSUME QueueAssumption ==
  /\ Size \in Nat \ {0}
  /\ IdxMod \in Nat \ {0}
  /\ IdxMod > Size
  /\ IdxMod % Size = 0

Descs == 0 .. Size - 1
Indices == 0 .. IdxMod - 1
UsedElems == [id : Descs, len : 0 .. 1]

Queues == [next : [Descs -> Descs], free_head : Descs, num_free : 0 .. Size,
           last_used : Indices, avail_idx : Indices, avail : [Descs -> Descs],
           used_idx : Indices, used : [Descs -> UsedElems]]

\* virtqueue_init: the page is zeroed and the descriptors are chained.
QueueInit ==
  [next |-> [d \in Descs |-> IF d = Size - 1 THEN 0 ELSE d + 1],
   free_head |-> 0, num_free |-> Size, last_used |-> 0,
   avail_idx |-> 0, avail |-> [d \in Descs |-> 0],
   used_idx |-> 0, used |-> [d \in Descs |-> [id |-> 0, len |-> 0]]]

\* virtqueue_alloc_desc: the descriptor it returns and the queue it leaves.  It
\* returns -1, with nothing changed, when num_free is 0.
CanAlloc(q) == q.num_free > 0
Allocated(q) == q.free_head
AfterAlloc(q) ==
  [q EXCEPT !.free_head = q.next[q.free_head],
            !.num_free  = @ - 1,
            !.next[q.free_head] = 0]

\* virtqueue_free_desc
AfterFree(q, d) ==
  [q EXCEPT !.next[d] = q.free_head, !.free_head = d, !.num_free = @ + 1]

\* virtqueue_submit
AfterSubmit(q, head) ==
  [q EXCEPT !.avail[q.avail_idx % Size] = head,
            !.avail_idx = (@ + 1) % IdxMod]

\* virtqueue_pop_used: the number of entries it has yet to return, and the k-th
\* of them.  It compares the counters for equality only.
Pending(q) == (q.used_idx - q.last_used) % IdxMod
PendingElem(q, k) == q.used[(q.last_used + k) % Size]

\* The device (external): it answers the request whose chain starts at head.
AfterDeviceUse(q, head, len) ==
  [q EXCEPT !.used[q.used_idx % Size] = [id |-> head, len |-> len],
            !.used_idx = (@ + 1) % IdxMod]

----------------------------------------------------------------------------
\* The free list, from free_head on along the next fields, is w.
IsFreeList(q, w) ==
  /\ q.num_free > 0 => w[1] = q.free_head
  /\ \A k \in 1 .. q.num_free - 1 : q.next[w[k]] = w[k + 1]

\* The free list has every descriptor of S, once, and no other.
FreeListIs(q, S) ==
  \E w \in [1 .. q.num_free -> S] : IsFreeList(q, w) /\ w \in Bijection(1 .. q.num_free, S)
============================================================================
