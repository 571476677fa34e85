---------------------------- MODULE VirtioProofs ----------------------------
(***************************************************************************)
(* Proofs about the two virtio drivers whose requests are completed by an  *)
(* interrupt, for every width of the ring counters.  For the block driver, *)
(* with every queue size from three on: the poll and the interrupt         *)
(* handler, wherever it strikes, complete a request once, conserve the     *)
(* descriptors and leave no entry of the used ring unread.  For the        *)
(* entropy driver, with every queue size: each request gives its           *)
(* descriptor back once, and the caller gets the length the device wrote   *)
(* for it.                                                                 *)
(***************************************************************************)
EXTENDS VirtioBlk, VirtioRng, VirtQueueProofs

\* The device's answer to the request is what its status byte and this length say.
Reports(len) == answer = (IF req.status = S_OK /\ len = 1 THEN "ok" ELSE "error")

(***************************************************************************)
(* A request is in one of five phases: there is none; the device has it;   *)
(* it is answered and the entry is unread; the poll completes it; it is    *)
(* completed and the caller on its way out.  In the last one               *)
(* last_used_idx may be anywhere: when the handler ran inside              *)
(* virtqueue_pop_used the poll may have moved it past the device's         *)
(* counter, and then goes around the whole ring, but it leaves the loop    *)
(* only where the two are equal.                                           *)
(***************************************************************************)
Resting ==
  /\ pc = "idle" /\ ~req.busy /\ dev = {}
  /\ q.last_used = q.used_idx
  /\ req.done => answer # "none"
  /\ answer # "none" => (result = 0) = (answer = "ok")

Outstanding ==
  /\ pc \in {"wait", "pop"} /\ req.busy /\ ~req.done
  /\ dev = {req.header} /\ answer = "none"
  /\ q.last_used = q.used_idx

Unread ==
  /\ pc \in {"wait", "pop", "elem", "store"} /\ req.busy /\ ~req.done
  /\ dev = {}
  /\ q.used_idx = (q.last_used + 1) % IdxMod
  /\ q.used[q.last_used % Size].id = req.header
  /\ Reports(q.used[q.last_used % Size].len)
  /\ pc \in {"elem", "store"} => reg.last = q.last_used
  /\ pc = "store" => reg.head = req.header /\ reg.len = q.used[q.last_used % Size].len

Completing ==
  /\ pc \in {"match", "free", "done", "clear"} /\ req.busy
  /\ req.done = (pc = "clear")
  /\ dev = {}
  /\ q.last_used = q.used_idx
  /\ reg.head = req.header
  /\ Reports(reg.len)
  /\ pc \in {"done", "clear"} => req.used_len = reg.len

Completed ==
  /\ pc \in {"wait", "pop", "elem", "store", "match", "return"} /\ ~req.busy /\ req.done
  /\ dev = {}
  /\ Reports(req.used_len)
  /\ pc \in {"wait", "return"} => q.last_used = q.used_idx

Phase == Resting \/ Outstanding \/ Unread \/ Completing \/ Completed

\* The three descriptors of the request in progress are different.
ChainDistinct ==
  req.busy => req.header # req.data /\ req.header # req.stat /\ req.data # req.stat

IInv == DescriptorsConserved /\ ChainDistinct /\ Phase

----------------------------------------------------------------------------
(* The queue *)

\* virtio_blk_free_pending_chain puts three different descriptors back.
LEMMA FreeChainConserves ==
  ASSUME NEW p \in Queues, NEW r,
         r.header \in Descs, r.data \in Descs, r.stat \in Descs,
         r.header # r.data, r.header # r.stat, r.data # r.stat,
         FreeListIs(p, Descs \ {r.header, r.data, r.stat})
  PROVE  /\ FreeChain(p, r) \in Queues
         /\ FreeListIs(FreeChain(p, r), Descs)
         /\ FreeChain(p, r).last_used = p.last_used
         /\ FreeChain(p, r).used_idx = p.used_idx
         /\ FreeChain(p, r).used = p.used
<1> DEFINE S == Descs \ {r.header, r.data, r.stat}
           p1 == AfterFree(p, r.header)
           p2 == AfterFree(p1, r.data)
           p3 == AfterFree(p2, r.stat)
<1>1. p1 \in Queues /\ FreeListIs(p1, S \cup {r.header})
  BY FreeFreeList, S \in SUBSET Descs, r.header \in Descs \ S
<1>2. p2 \in Queues /\ FreeListIs(p2, S \cup {r.header} \cup {r.data})
  <2> HIDE DEF p1
  <2> QED
    BY <1>1, FreeFreeList, S \cup {r.header} \in SUBSET Descs, r.data \in Descs \ (S \cup {r.header})
<1>3. p3 \in Queues /\ FreeListIs(p3, S \cup {r.header} \cup {r.data} \cup {r.stat})
  <2> HIDE DEF p2
  <2> QED
    BY <1>2, FreeFreeList, S \cup {r.header} \cup {r.data} \in SUBSET Descs,
       r.stat \in Descs \ (S \cup {r.header} \cup {r.data})
<1>4. S \cup {r.header} \cup {r.data} \cup {r.stat} = Descs
  OBVIOUS
<1>5. ASSUME NEW x \in Queues, NEW e
      PROVE  /\ AfterFree(x, e).last_used = x.last_used
             /\ AfterFree(x, e).used_idx = x.used_idx
             /\ AfterFree(x, e).used = x.used
  BY DEF AfterFree, Queues
<1>6. /\ p3.last_used = p.last_used /\ p3.used_idx = p.used_idx /\ p3.used = p.used
  BY <1>1, <1>2, <1>5
<1>7. FreeChain(p, r) = p3
  BY DEF FreeChain
<1> HIDE DEF p3, S
<1> QED
  BY <1>3, <1>4, <1>6, <1>7

\* Three allocations, the links between them and the submission.
Taken1 == AfterAlloc(q)
Taken2 == AfterAlloc(Taken1)
Taken3 == AfterAlloc(Taken2)
Linked(h, d, s) == [Taken3 EXCEPT !.next[h] = d, !.next[d] = s, !.next[s] = 0]

LEMMA SubmitConserves ==
  ASSUME q \in Queues, FreeListIs(q, Descs), CanAlloc(Taken2),
         NEW h, NEW d, NEW s,
         h = Allocated(q), d = Allocated(Taken1), s = Allocated(Taken2)
  PROVE  LET p == AfterSubmit(Linked(h, d, s), h)
         IN  /\ p \in Queues
             /\ h \in Descs /\ d \in Descs /\ s \in Descs
             /\ h # d /\ h # s /\ d # s
             /\ FreeListIs(p, Descs \ {h, d, s})
             /\ p.last_used = q.last_used /\ p.used_idx = q.used_idx
<1>1. q.num_free \in Nat
  BY QueueFacts DEF Queues
<1>2. Taken1.num_free = q.num_free - 1 /\ Taken2.num_free = q.num_free - 2
  BY <1>1 DEF Taken1, Taken2, AfterAlloc, Queues
<1>3. CanAlloc(q) /\ CanAlloc(Taken1)
  BY <1>1, <1>2 DEF CanAlloc
<1>4. Taken1 \in Queues /\ h \in Descs /\ FreeListIs(Taken1, Descs \ {h})
  BY <1>3, AllocFreeList DEF Taken1
<1>5. Taken2 \in Queues /\ d \in Descs \ {h} /\ FreeListIs(Taken2, (Descs \ {h}) \ {d})
  BY <1>3, <1>4, AllocFreeList, Descs \ {h} \in SUBSET Descs DEF Taken2
<1>6. Taken3 \in Queues /\ s \in (Descs \ {h}) \ {d} /\ FreeListIs(Taken3, ((Descs \ {h}) \ {d}) \ {s})
  BY <1>5, AllocFreeList, (Descs \ {h}) \ {d} \in SUBSET Descs DEF Taken3
<1>7. ((Descs \ {h}) \ {d}) \ {s} = Descs \ {h, d, s}
  OBVIOUS
<1> DEFINE p == AfterSubmit(Linked(h, d, s), h)
<1> DEFINE nx == [[[Taken3.next EXCEPT ![h] = d] EXCEPT ![d] = s] EXCEPT ![s] = 0]
<1>8. Linked(h, d, s) = [Taken3 EXCEPT !.next = nx]
  BY <1>6 DEF Linked, Queues
<1>9. nx \in [Descs -> Descs]
  <2>1. Taken3.next \in [Descs -> Descs]
    BY <1>6 DEF Queues
  <2>2. d \in Descs /\ s \in Descs
    BY <1>5, <1>6
  <2> QED
    BY <2>1, <2>2, UpdateType, ZeroDesc
<1>10. Linked(h, d, s) \in Queues
  <2> HIDE DEF nx
  <2> QED
    BY <1>6, <1>8, <1>9 DEF Queues
<1>11. FreeListIs(Linked(h, d, s), Descs \ {h, d, s})
  <2>1. \A e \in Descs \ {h, d, s} : Linked(h, d, s).next[e] = Taken3.next[e]
    BY <1>6, <1>8 DEF Queues
  <2>2. Linked(h, d, s).num_free = Taken3.num_free /\ Linked(h, d, s).free_head = Taken3.free_head
    BY <1>6, <1>8 DEF Queues
  <2> QED
    BY <1>6, <1>7, <2>1, <2>2, SameFreeList
<1>12. p \in Queues /\ p.next = Linked(h, d, s).next /\ p.num_free = Linked(h, d, s).num_free
       /\ p.free_head = Linked(h, d, s).free_head
       /\ p.last_used = Linked(h, d, s).last_used /\ p.used_idx = Linked(h, d, s).used_idx
  BY <1>4, <1>10, SubmitFields
<1>13. FreeListIs(p, Descs \ {h, d, s})
  BY <1>10, <1>11, <1>12, SameFreeList
<1>14. Linked(h, d, s).last_used = q.last_used /\ Linked(h, d, s).used_idx = q.used_idx
  <2>1. ASSUME NEW x \in Queues
        PROVE  AfterAlloc(x).last_used = x.last_used /\ AfterAlloc(x).used_idx = x.used_idx
    BY DEF AfterAlloc, Queues
  <2>2. Taken3.last_used = q.last_used /\ Taken3.used_idx = q.used_idx
    BY <1>4, <1>5, <2>1 DEF Taken1, Taken2, Taken3
  <2> QED
    BY <1>6, <1>8, <2>2 DEF Queues
<1> HIDE DEF p
<1> QED
  BY <1>4, <1>5, <1>6, <1>12, <1>13, <1>14 DEF p

----------------------------------------------------------------------------
(* The induction *)

LEMMA InitIInv == Init => IInv
<1> SUFFICES ASSUME Init PROVE IInv
  OBVIOUS
<1>1. q \in Queues /\ FreeListIs(q, Descs)
  BY InitFreeList DEF Init
<1>2. q.last_used = q.used_idx
  BY DEF Init, QueueInit
<1>3. DescriptorsConserved
  BY <1>1, ZeroDesc DEF Init, DescriptorsConserved, TypeOK, S_OK
<1>4. Phase
  BY <1>2 DEF Init, Phase, Resting
<1> QED
  BY <1>3, <1>4 DEF IInv, ChainDistinct, Init

\* A new request leaves the idle phase with three descriptors of its own.
LEMMA SubmitIInv ==
  ASSUME IInv, Submit
  PROVE  IInv'
<1>1. pc = "idle" /\ ~req.busy
  BY DEF Submit
<1>2. Resting
  BY <1>1 DEF IInv, Phase, Resting, Outstanding, Unread, Completing, Completed
<1>3. q \in Queues /\ FreeListIs(q, Descs) /\ TypeOK
  BY <1>1 DEF IInv, DescriptorsConserved, TypeOK
<1> DEFINE h == Allocated(q)
           d == Allocated(Taken1)
           s == Allocated(Taken2)
           p == AfterSubmit(Linked(h, d, s), h)
<1>4. /\ p \in Queues
      /\ h \in Descs /\ d \in Descs /\ s \in Descs
      /\ h # d /\ h # s /\ d # s
      /\ FreeListIs(p, Descs \ {h, d, s})
      /\ p.last_used = q.last_used /\ p.used_idx = q.used_idx
  BY <1>3, SubmitConserves DEF Submit, Taken1, Taken2
<1>5. /\ q' = p
      /\ req' = NewRequest(h, d, s)
      /\ dev' = dev \cup {h}
      /\ pc' = "wait" /\ answer' = "none"
      /\ UNCHANGED <<reg, irqOn, intr, result>>
  BY DEF Submit, Linked, Taken1, Taken2, Taken3
<1> HIDE DEF h, d, s, p
<1>6. req' = [busy |-> TRUE, done |-> FALSE, status |-> S_PENDING, used_len |-> 0,
              header |-> h, data |-> d, stat |-> s]
  BY <1>5 DEF NewRequest
<1>7. TypeOK'
  BY <1>2, <1>3, <1>4, <1>5, <1>6 DEF TypeOK, Resting
<1>8. FreeListIs(q', Descs \ {req'.header, req'.data, req'.stat})
  BY <1>4, <1>5, <1>6
<1>9. DescriptorsConserved'
  BY <1>5, <1>6, <1>7, <1>8 DEF DescriptorsConserved
<1>10. Outstanding'
  BY <1>2, <1>4, <1>5, <1>6 DEF Outstanding, Resting
<1> QED
  BY <1>4, <1>6, <1>9, <1>10 DEF IInv, ChainDistinct, Phase

\* The caller's steps that touch neither the queue nor the request.
LEMMA LocalIInv ==
  ASSUME IInv, Wait \/ PopCompare \/ PopElem \/ Match \/ Return \/ EnableIrqs
  PROVE  IInv'
<1>1. q' = q /\ req' = req /\ dev' = dev /\ answer' = answer /\ intr' = intr
  BY DEF Wait, PopCompare, PopElem, Match, Return, EnableIrqs
<1>2. TypeOK
  BY DEF IInv, DescriptorsConserved
<1>3. /\ q.last_used \in Indices /\ q.used_idx \in Indices
      /\ \A i \in Descs : q.used[i].id \in Descs /\ q.used[i].len \in {0, 1}
  BY <1>2 DEF TypeOK, Queues, UsedElems
<1>4. TypeOK'
  <2>1. CASE Wait \/ Match
    BY <1>1, <1>2, <2>1 DEF TypeOK, Wait, Match
  <2>5. CASE EnableIrqs
    BY <1>1, <1>2, <2>5 DEF TypeOK, EnableIrqs
  <2>2. CASE PopCompare
    BY <1>1, <1>2, <1>3, <2>2 DEF TypeOK, PopCompare
  <2>3. CASE PopElem
    <3>1. reg.last \in Indices
      BY <1>2 DEF TypeOK
    <3>2. reg.last % Size \in Descs
      BY <3>1, SlotType, 0 \in Nat
    <3> QED
      BY <1>1, <1>2, <1>3, <2>3, <3>2 DEF TypeOK, PopElem
  <2>4. CASE Return
    BY <1>1, <1>2, <2>4 DEF TypeOK, Return
  <2> QED
    BY <2>1, <2>2, <2>3, <2>4, <2>5
<1>5. Phase'
  <2>1. CASE Wait
    BY <1>1, <2>1 DEF IInv, Phase, Resting, Outstanding, Unread, Completing, Completed, Reports, Wait
  <2>2. CASE PopCompare
    <3>1. Unread => q.last_used # q.used_idx
      BY <1>3, QueueFacts, QueueAssumption, ModNext DEF Unread, Indices
    <3> QED
      BY <1>1, <1>2, <2>2, <3>1 DEF IInv, Phase, Resting, Outstanding, Unread, Completing, Completed,
         Reports, PopCompare, TypeOK
  <2>3. CASE PopElem
    BY <1>1, <1>2, <2>3 DEF IInv, Phase, Resting, Outstanding, Unread, Completing, Completed,
       Reports, PopElem, TypeOK
  <2>4. CASE Match
    BY <1>1, <2>4 DEF IInv, Phase, Resting, Outstanding, Unread, Completing, Completed, Reports, Match
  <2>5. CASE Return
    BY <1>1, <1>2, <2>5 DEF IInv, Phase, Resting, Outstanding, Unread, Completing, Completed,
       Reports, Return, TypeOK
  <2>6. CASE EnableIrqs
    BY <1>1, <2>6 DEF IInv, Phase, Resting, Outstanding, Unread, Completing, Completed,
       Reports, EnableIrqs
  <2> QED
    BY <2>1, <2>2, <2>3, <2>4, <2>5, <2>6
<1>6. (pc \notin {"done", "clear"} /\ pc' \notin {"done", "clear"}) \/ pc' = pc
  BY DEF Wait, PopCompare, PopElem, Match, Return, EnableIrqs
<1>7. DescriptorsConserved'
  BY <1>1, <1>4, <1>6 DEF IInv, DescriptorsConserved
<1> QED
  BY <1>1, <1>5, <1>7 DEF IInv, ChainDistinct

\* The poll advances last_used_idx: over the entry that answers the request, or
\* anywhere once the handler has completed it.
LEMMA PopStoreIInv ==
  ASSUME IInv, PopStore
  PROVE  IInv'
<1>1. TypeOK /\ q \in Queues /\ pc = "store"
  BY DEF IInv, DescriptorsConserved, TypeOK, PopStore
<1>2. PICK from \in {reg.last, q.last_used} : q' = [q EXCEPT !.last_used = (from + 1) % IdxMod]
  BY DEF PopStore
<1>3. (from + 1) % IdxMod \in Indices
  <2>1. from \in Indices
    BY <1>1 DEF TypeOK, Queues
  <2> QED
    BY <2>1, WrapSlot, 0 \in Int
<1> DEFINE n == (from + 1) % IdxMod
<1>4. UNCHANGED <<req, reg, irqOn, intr, dev, answer, result>> /\ pc' = "match"
  BY DEF PopStore
<1>5. Unread => n = q.used_idx
  BY <1>1, <1>2 DEF Unread
<1> HIDE DEF n
<1>6. /\ q' \in Queues
      /\ q'.next = q.next /\ q'.num_free = q.num_free /\ q'.free_head = q.free_head
      /\ q'.last_used = n /\ q'.used = q.used /\ q'.used_idx = q.used_idx
  BY <1>1, <1>2, <1>3, PopFields DEF n
<1>7. TypeOK'
  BY <1>1, <1>4, <1>6 DEF TypeOK
<1>8. DescriptorsConserved'
  <2> DEFINE S == IF req.busy THEN Descs \ {req.header, req.data, req.stat} ELSE Descs
  <2>1. FreeListIs(q, S)
    BY <1>1 DEF IInv, DescriptorsConserved
  <2>2. FreeListIs(q', S)
    <3> HIDE DEF S
    <3> QED
      BY <1>1, <1>6, <2>1, SameFreeList
  <2> QED
    BY <1>4, <1>7, <2>2 DEF DescriptorsConserved
<1>9. Phase'
  <2>1. CASE Unread
    <3>1. req'.done = FALSE /\ pc' = "match"
      BY <1>1, <1>4, <2>1 DEF TypeOK, Unread
    <3>2. reg'.len = q.used[q.last_used % Size].len /\ reg'.head = req'.header
      BY <1>1, <1>4, <2>1 DEF Unread
    <3>3. Reports(reg.len)'
      BY <1>4, <2>1, <3>2 DEF Unread, Reports
    <3>4. Completing'
      BY <1>4, <1>5, <1>6, <2>1, <3>1, <3>2, <3>3 DEF Unread, Completing
    <3> QED
      BY <3>4 DEF Phase
  <2>2. CASE Completed
    <3>1. Completed'
      BY <1>1, <1>4, <2>2 DEF Completed, Reports
    <3> QED
      BY <3>1 DEF Phase
  <2> QED
    BY <1>1, <2>1, <2>2 DEF IInv, Phase, Resting, Outstanding, Completing
<1> QED
  BY <1>4, <1>8, <1>9 DEF IInv, ChainDistinct

\* The poll gives the chain back and completes the request.
LEMMA CompleteIInv ==
  ASSUME IInv, Free \/ SetDone \/ ClearBusy
  PROVE  IInv'
<1>1. TypeOK /\ q \in Queues /\ pc \in {"free", "done", "clear"}
  BY DEF IInv, DescriptorsConserved, TypeOK, Free, SetDone, ClearBusy
<1>2. Completing
  BY <1>1 DEF IInv, Phase, Resting, Outstanding, Unread, Completed
<1>3. UNCHANGED <<reg, irqOn, intr, dev, answer, result>>
  BY DEF Free, SetDone, ClearBusy
<1>4. /\ req'.header = req.header /\ req'.data = req.data /\ req'.stat = req.stat
      /\ req'.status = req.status
  BY <1>1 DEF Free, SetDone, ClearBusy, TypeOK
<1>5. CASE Free
  <2>1. FreeListIs(q, Descs \ {req.header, req.data, req.stat})
    BY <1>2, <1>5 DEF IInv, DescriptorsConserved, Completing, Free
  <2>2. /\ req.header \in Descs /\ req.data \in Descs /\ req.stat \in Descs
        /\ req.header # req.data /\ req.header # req.stat /\ req.data # req.stat
    BY <1>1, <1>2 DEF IInv, ChainDistinct, Completing, TypeOK
  <2>3. /\ q' \in Queues /\ FreeListIs(q', Descs)
        /\ q'.last_used = q.last_used /\ q'.used_idx = q.used_idx
    BY <1>1, <1>5, <2>1, <2>2, FreeChainConserves DEF Free
  <2>4. pc = "free" /\ pc' = "done" /\ req' = [req EXCEPT !.used_len = reg.len]
    BY <1>5 DEF Free
  <2>5. TypeOK'
    BY <1>1, <1>3, <2>3, <2>4 DEF TypeOK
  <2>6. req'.busy = req.busy /\ req'.done = req.done /\ req'.used_len = reg.len
    BY <1>1, <2>4 DEF TypeOK
  <2>7. Completing'
    BY <1>2, <1>3, <1>4, <2>3, <2>4, <2>6 DEF Completing, Reports
  <2>8. DescriptorsConserved'
    BY <2>3, <2>4, <2>5 DEF DescriptorsConserved
  <2> QED
    BY <1>4, <2>6, <2>7, <2>8 DEF IInv, ChainDistinct, Phase
<1>6. CASE SetDone
  <2>1. pc = "done" /\ pc' = "clear" /\ req' = [req EXCEPT !.done = TRUE] /\ q' = q
    BY <1>6 DEF SetDone
  <2>2. req'.busy = req.busy /\ req'.done = TRUE /\ req'.used_len = req.used_len
    BY <1>1, <2>1 DEF TypeOK
  <2>3. TypeOK'
    BY <1>1, <1>3, <2>1 DEF TypeOK
  <2>4. Completing'
    BY <1>2, <1>3, <1>4, <2>1, <2>2 DEF Completing, Reports
  <2>5. DescriptorsConserved'
    BY <2>1, <2>3 DEF IInv, DescriptorsConserved
  <2> QED
    BY <1>4, <2>2, <2>4, <2>5 DEF IInv, ChainDistinct, Phase
<1>7. CASE ClearBusy
  <2>1. pc = "clear" /\ pc' = "pop" /\ req' = [req EXCEPT !.busy = FALSE] /\ q' = q
    BY <1>7 DEF ClearBusy
  <2>2. req'.busy = FALSE /\ req'.done = req.done /\ req'.used_len = req.used_len
    BY <1>1, <2>1 DEF TypeOK
  <2>3. TypeOK'
    BY <1>1, <1>3, <2>1 DEF TypeOK
  <2>4. Completed'
    BY <1>2, <1>3, <1>4, <2>1, <2>2 DEF Completing, Completed, Reports
  <2>5. DescriptorsConserved'
    BY <2>1, <2>2, <2>3 DEF IInv, DescriptorsConserved
  <2> QED
    BY <2>2, <2>4, <2>5 DEF IInv, ChainDistinct, Phase
<1> QED
  BY <1>5, <1>6, <1>7

\* The device answers the request it has: its entry is the only unread one.
LEMMA DeviceIInv ==
  ASSUME IInv, DeviceAnswer
  PROVE  IInv'
<1>1. PICK h \in dev, status \in {S_OK, S_IOERR}, len \in {0, 1} :
        /\ q' = AfterDeviceUse(q, h, len)
        /\ req' = [req EXCEPT !.status = status]
        /\ answer' = IF status = S_OK /\ len = 1 THEN "ok" ELSE "error"
        /\ dev' = dev \ {h}
        /\ intr' = TRUE
        /\ UNCHANGED <<pc, reg, irqOn, result>>
  BY DEF DeviceAnswer
<1>2. TypeOK /\ q \in Queues /\ h \in Descs
  BY <1>1 DEF IInv, DescriptorsConserved, TypeOK
<1>3. Outstanding /\ h = req.header
  BY <1>1 DEF IInv, Phase, Resting, Outstanding, Unread, Completing, Completed
<1>4. /\ q' \in Queues
      /\ q'.next = q.next /\ q'.num_free = q.num_free /\ q'.free_head = q.free_head
      /\ q'.last_used = q.last_used
      /\ q'.used = [q.used EXCEPT ![q.used_idx % Size] = [id |-> h, len |-> len]]
      /\ q'.used_idx = (q.used_idx + 1) % IdxMod
  BY <1>1, <1>2, DeviceUseFields
<1>5. /\ req'.header = req.header /\ req'.data = req.data /\ req'.stat = req.stat
      /\ req'.busy = req.busy /\ req'.done = req.done /\ req'.status = status
  BY <1>1, <1>2 DEF TypeOK
<1>6. TypeOK'
  BY <1>1, <1>2, <1>4 DEF TypeOK
<1>7. DescriptorsConserved'
  <2>1. FreeListIs(q, Descs \ {req.header, req.data, req.stat})
    BY <1>3 DEF IInv, DescriptorsConserved, Outstanding
  <2>2. FreeListIs(q', Descs \ {req.header, req.data, req.stat})
    BY <1>2, <1>4, <2>1, SameFreeList
  <2> QED
    BY <1>1, <1>3, <1>5, <1>6, <2>2 DEF DescriptorsConserved, Outstanding
<1>8. q'.used[q'.last_used % Size] = [id |-> h, len |-> len]
  <2>1. q.used \in [Descs -> UsedElems] /\ q.last_used \in Indices
    BY <1>2 DEF Queues
  <2>2. q.last_used % Size \in Descs
    BY <2>1, SlotType, 0 \in Nat
  <2>3. q'.used = [q.used EXCEPT ![q.last_used % Size] = [id |-> h, len |-> len]]
    BY <1>3, <1>4 DEF Outstanding
  <2> QED
    BY <1>4, <2>1, <2>2, <2>3
<1>9. Unread'
  <2>1. dev' = {}
    BY <1>1, <1>3 DEF Outstanding
  <2>2. Reports(len)'
    BY <1>1, <1>5 DEF Reports
  <2>3. q'.used_idx = (q'.last_used + 1) % IdxMod
    BY <1>3, <1>4 DEF Outstanding
  <2>4. q'.used[q'.last_used % Size].id = req'.header /\ q'.used[q'.last_used % Size].len = len
    BY <1>3, <1>5, <1>8
  <2>5. pc' \in {"wait", "pop"} /\ req'.busy /\ ~req'.done
    BY <1>1, <1>3, <1>5 DEF Outstanding
  <2>6. answer' = (IF req'.status = S_OK /\ q'.used[q'.last_used % Size].len = 1 THEN "ok" ELSE "error")
    BY <2>2, <2>4 DEF Reports
  <2> QED
    BY <2>1, <2>3, <2>4, <2>5, <2>6 DEF Unread, Reports
<1> QED
  BY <1>5, <1>7, <1>9 DEF IInv, ChainDistinct, Phase

\* The handler completes the request of which an answer is unread, wherever the
\* poll stands, and changes nothing that matters otherwise.
LEMMA IrqIInv ==
  ASSUME IInv, Irq
  PROVE  IInv'
<1>1. TypeOK /\ q \in Queues
  BY DEF IInv, DescriptorsConserved, TypeOK
<1>2. UNCHANGED <<pc, reg, irqOn, dev, answer, result>> /\ intr' = FALSE
  BY DEF Irq
<1>3. q.last_used \in Indices /\ q.used_idx \in Indices
  BY <1>1 DEF Queues
<1> DEFINE r == ReadAll(q)
<1>4. /\ r \in Queues
      /\ r.next = q.next /\ r.num_free = q.num_free /\ r.free_head = q.free_head
      /\ r.last_used = q.used_idx /\ r.used = q.used /\ r.used_idx = q.used_idx
  BY <1>1, <1>3, PopFields DEF ReadAll
<1>5. q.last_used = q.used_idx => r = q
  BY <1>1, <1>3 DEF ReadAll, Queues
<1>6. q.last_used = q.used_idx => Pending(q) = 0
  BY <1>3, BetweenType DEF Pending, Between
<1>7. CASE ~(req.busy /\ Matching # {})
  <2>1. q' = r /\ req' = req
    BY <1>7 DEF Irq
  <2>2. ~Unread
    <3>1. SUFFICES ASSUME Unread PROVE FALSE
      OBVIOUS
    <3>2. Pending(q) = 1
      BY <1>3, <3>1, OneUnread DEF Unread
    <3>3. PendingElem(q, 0).id = req.header
      BY <1>3, <3>1 DEF PendingElem, Unread, Indices
    <3>4. 0 \in Matching
      BY <3>2, <3>3 DEF Matching
    <3> QED
      BY <1>7, <3>1, <3>4 DEF Unread
  <2> HIDE DEF r
  <2>3. TypeOK'
    BY <1>1, <1>2, <1>4, <2>1 DEF TypeOK
  <2>4. DescriptorsConserved'
    <3> DEFINE S == IF req.busy /\ pc \notin {"done", "clear"}
                      THEN Descs \ {req.header, req.data, req.stat} ELSE Descs
    <3>1. FreeListIs(q, S)
      BY DEF IInv, DescriptorsConserved
    <3>2. FreeListIs(r, S)
      <4> HIDE DEF S
      <4> QED
        BY <1>1, <1>4, <3>1, SameFreeList
    <3> QED
      BY <1>2, <2>1, <2>3, <3>2 DEF DescriptorsConserved
  <2>5. CASE Resting \/ Outstanding \/ Completing
    <3>1. q' = q
      BY <1>5, <2>1, <2>5 DEF Resting, Outstanding, Completing
    <3>2. (Resting \/ Outstanding \/ Completing)'
      BY <1>2, <2>1, <2>5, <3>1 DEF Resting, Outstanding, Completing, Reports
    <3> QED
      BY <2>1, <2>4, <3>2 DEF IInv, ChainDistinct, Phase
  <2>6. CASE Completed
    <3>1. Completed'
      BY <1>2, <1>4, <2>1, <2>6 DEF Completed, Reports
    <3> QED
      BY <2>1, <2>4, <3>1 DEF IInv, ChainDistinct, Phase
  <2> QED
    BY <2>2, <2>5, <2>6 DEF IInv, Phase
<1>8. CASE req.busy /\ Matching # {}
  <2>1. Unread
    <3>1. Pending(q) # 0
      BY <1>8 DEF Matching
    <3> QED
      BY <1>6, <1>8, <3>1 DEF IInv, Phase, Resting, Outstanding, Completing, Completed
  <2>2. Pending(q) = 1
    BY <1>3, <2>1, OneUnread DEF Unread
  <2>3. Matching = {0}
    <3>1. \A k \in 0 .. Pending(q) - 1 : k = 0
      BY <2>2
    <3> QED
      BY <1>8, <3>1 DEF Matching
  <2> DEFINE first == CHOOSE k \in Matching : \A j \in Matching : k <= j
  <2>4. first = 0
    BY <2>3
  <2>5. /\ q' = FreeChain(r, req)
        /\ req' = [req EXCEPT !.used_len = PendingElem(q, first).len, !.done = TRUE, !.busy = FALSE]
    BY <1>8 DEF Irq
  <2> HIDE DEF first, r
  <2>6. PendingElem(q, first) = q.used[q.last_used % Size]
    BY <1>3, <2>4 DEF PendingElem, Indices
  <2> DEFINE len == q.used[q.last_used % Size].len
  <2>7. len \in {0, 1}
    <3>1. q.last_used % Size \in Descs
      BY <1>3, SlotType, 0 \in Nat
    <3>2. q.used \in [Descs -> UsedElems]
      BY <1>1 DEF Queues
    <3>3. q.used[q.last_used % Size] \in UsedElems
      BY <3>1, <3>2
    <3> QED
      BY <3>3 DEF UsedElems
  <2>8. req' = [req EXCEPT !.used_len = len, !.done = TRUE, !.busy = FALSE]
    BY <2>5, <2>6
  <2>9. Reports(len)
    BY <2>1 DEF Unread
  <2> HIDE DEF len
  <2>10. req'.busy = FALSE /\ req'.done = TRUE /\ req'.used_len = len /\ req'.status = req.status
    BY <1>1, <2>8 DEF TypeOK
  <2>11. FreeListIs(q, Descs \ {req.header, req.data, req.stat})
    BY <2>1 DEF IInv, DescriptorsConserved, Unread
  <2>12. FreeListIs(r, Descs \ {req.header, req.data, req.stat})
    BY <1>1, <1>4, <2>11, SameFreeList
  <2>13. /\ req.header \in Descs /\ req.data \in Descs /\ req.stat \in Descs
         /\ req.header # req.data /\ req.header # req.stat /\ req.data # req.stat
    BY <1>1, <1>8 DEF IInv, ChainDistinct, TypeOK
  <2>14. /\ q' \in Queues /\ FreeListIs(q', Descs)
         /\ q'.last_used = r.last_used /\ q'.used_idx = r.used_idx
    BY <1>4, <2>5, <2>12, <2>13, FreeChainConserves
  <2>15. TypeOK'
    BY <1>1, <1>2, <2>7, <2>8, <2>14 DEF TypeOK
  <2>16. DescriptorsConserved'
    BY <2>10, <2>14, <2>15 DEF DescriptorsConserved
  <2>17. Completed'
    BY <1>2, <1>4, <2>1, <2>9, <2>10, <2>14 DEF Unread, Completed, Reports
  <2> QED
    BY <2>10, <2>16, <2>17 DEF IInv, ChainDistinct, Phase
<1> QED
  BY <1>7, <1>8

LEMMA StepIInv == IInv /\ [Next]_vars => IInv'
<1> SUFFICES ASSUME IInv, [Next]_vars PROVE IInv'
  OBVIOUS
<1>1. CASE UNCHANGED vars
  BY <1>1 DEF vars, IInv, DescriptorsConserved, TypeOK, ChainDistinct, Phase, Resting, Outstanding,
     Unread, Completing, Completed, Reports
<1> QED
  BY <1>1, SubmitIInv, LocalIInv, PopStoreIInv, CompleteIInv, DeviceIInv, IrqIInv
     DEF Next, Transfer

----------------------------------------------------------------------------
(* The theorems *)

\* The inductive invariant of the block driver.
THEOREM Invariant == Spec => []IInv
BY InitIInv, StepIInv, PTL DEF Spec

\* The poll in virtio_blk_transfer and the interrupt handler, which run the same
\* virtio_blk_complete_used, never free a chain twice and never lose one.
THEOREM ConservesDescriptors == Spec => []DescriptorsConserved
<1>1. IInv => DescriptorsConserved
  BY DEF IInv
<1> QED
  BY <1>1, Invariant, PTL

\* A transfer reports the device's answer to its own request.
THEOREM ReportsAnswer == Spec => []ReturnsItsAnswer
<1>1. IInv => ReturnsItsAnswer
  BY DEF IInv, Phase, Resting, Outstanding, Unread, Completing, Completed, Reports, ReturnsItsAnswer
<1> QED
  BY <1>1, Invariant, PTL

\* Between two transfers the whole used ring is read, although the poll may
\* overrun the device's counter on the way.
THEOREM CatchesUp == Spec => []RingCaughtUp
<1>1. IInv => RingCaughtUp
  BY DEF IInv, Phase, Resting, Outstanding, Unread, Completing, Completed, RingCaughtUp
<1> QED
  BY <1>1, Invariant, PTL

----------------------------------------------------------------------------
(***************************************************************************)
(* The entropy driver.                                                      *)
(* There is no request, or the device has it, or its answer is unread.     *)
(***************************************************************************)
Quiet ==
  /\ ~request_busy /\ given = {}
  /\ queue.used_idx = queue.last_used
  /\ FreeListIs(queue, Descs)
  /\ request_done => filled # -1 /\ request_len = filled

AtDevice ==
  /\ request_busy /\ ~request_done
  /\ queue.used_idx = queue.last_used
  /\ \E h \in Descs : given = {h} /\ FreeListIs(queue, Descs \ {h})

RngUnread ==
  /\ request_busy /\ ~request_done /\ given = {} /\ filled # -1
  /\ queue.used_idx = (queue.last_used + 1) % IdxMod
  /\ queue.used[queue.last_used % Size].len = filled
  /\ FreeListIs(queue, Descs \ {queue.used[queue.last_used % Size].id})

RngPhase == Quiet \/ AtDevice \/ RngUnread

RngIInv == RngTypeOK /\ RngPhase

----------------------------------------------------------------------------
(* The induction *)

\* The slot at last_used_idx and the entry in it.
LEMMA HeadEntry ==
  ASSUME NEW p \in Queues
  PROVE  /\ p.last_used \in Indices /\ p.used_idx \in Indices
         /\ p.last_used % Size \in Descs
         /\ p.used[p.last_used % Size].id \in Descs
         /\ p.used[p.last_used % Size].len \in {0, 1}
         /\ PendingElem(p, 0) = p.used[p.last_used % Size]
<1>1. p.last_used \in Indices /\ p.used_idx \in Indices /\ p.used \in [Descs -> UsedElems]
  BY DEF Queues
<1>2. p.last_used % Size \in Descs
  BY <1>1, SlotType, 0 \in Nat
<1>3. p.used[p.last_used % Size] \in UsedElems
  BY <1>1, <1>2
<1>4. p.last_used + 0 = p.last_used
  BY <1>1 DEF Indices
<1> QED
  BY <1>1, <1>2, <1>3, <1>4 DEF UsedElems, PendingElem

LEMMA RngInitIInv == RngInit => RngIInv
<1> SUFFICES ASSUME RngInit PROVE RngIInv
  OBVIOUS
<1>1. queue \in Queues /\ FreeListIs(queue, Descs)
  BY InitFreeList DEF RngInit
<1>2. queue.used_idx = queue.last_used
  BY DEF RngInit, QueueInit
<1>3. RngTypeOK
  BY <1>1 DEF RngInit, RngTypeOK
<1> QED
  BY <1>1, <1>2, <1>3 DEF RngInit, RngIInv, RngPhase, Quiet

\* A request takes one descriptor and gives it to the device.
LEMMA FillIInv ==
  ASSUME RngIInv, Fill
  PROVE  RngIInv'
<1>1. queue \in Queues /\ RngTypeOK /\ Quiet
  BY DEF RngIInv, RngTypeOK, RngPhase, AtDevice, RngUnread, Fill
<1> DEFINE h == Allocated(queue)
           r == AfterAlloc(queue)
<1>2. r \in Queues /\ h \in Descs /\ FreeListIs(r, Descs \ {h})
  BY <1>1, AllocFreeList DEF Fill, Quiet
<1>3. r.used_idx = queue.used_idx /\ r.last_used = queue.last_used
  BY <1>1 DEF AfterAlloc, Queues
<1>4. /\ queue' = AfterSubmit(r, h)
      /\ given' = given \cup {h}
      /\ request_busy' = TRUE /\ request_done' = FALSE /\ request_len' = 0 /\ fill' = "check" /\ filled' = -1 /\ raised' = raised
  BY DEF Fill
<1> HIDE DEF h, r
<1>5. /\ queue' \in Queues
      /\ queue'.next = r.next /\ queue'.num_free = r.num_free /\ queue'.free_head = r.free_head
      /\ queue'.last_used = r.last_used /\ queue'.used_idx = r.used_idx
  BY <1>2, <1>4, SubmitFields
<1>6. FreeListIs(queue', Descs \ {h})
  BY <1>2, <1>5, SameFreeList
<1>7. given' = {h}
  BY <1>1, <1>4 DEF Quiet
<1>8. RngTypeOK'
  BY <1>1, <1>2, <1>4, <1>5, <1>7 DEF RngTypeOK
<1>9. AtDevice'
  BY <1>1, <1>2, <1>3, <1>4, <1>5, <1>6, <1>7 DEF AtDevice, Quiet
<1> QED
  BY <1>8, <1>9 DEF RngIInv, RngPhase

\* The device's answer becomes the one unread entry.
LEMMA DeviceFillsIInv ==
  ASSUME RngIInv, DeviceFills
  PROVE  RngIInv'
<1>1. PICK h \in given, n \in {0, 1} :
        /\ queue' = AfterDeviceUse(queue, h, n)
        /\ given' = given \ {h} /\ filled' = n /\ raised' = TRUE
        /\ UNCHANGED <<request_busy, request_done, request_len, fill>>
  BY DEF DeviceFills
<1>2. queue \in Queues /\ RngTypeOK /\ AtDevice
  BY <1>1 DEF RngIInv, RngTypeOK, RngPhase, Quiet, RngUnread
<1>3. h \in Descs /\ given = {h} /\ FreeListIs(queue, Descs \ {h})
  BY <1>1, <1>2 DEF AtDevice
<1>4. /\ queue' \in Queues
      /\ queue'.next = queue.next /\ queue'.num_free = queue.num_free /\ queue'.free_head = queue.free_head
      /\ queue'.last_used = queue.last_used
      /\ queue'.used = [queue.used EXCEPT ![queue.used_idx % Size] = [id |-> h, len |-> n]]
      /\ queue'.used_idx = (queue.used_idx + 1) % IdxMod
  BY <1>1, <1>2, <1>3, DeviceUseFields
<1>5. FreeListIs(queue', Descs \ {h})
  BY <1>2, <1>3, <1>4, SameFreeList
<1>6. queue'.used[queue'.last_used % Size] = [id |-> h, len |-> n]
  <2>1. queue.used \in [Descs -> UsedElems] /\ queue.last_used % Size \in Descs
    BY <1>2, HeadEntry DEF Queues
  <2>2. queue'.used = [queue.used EXCEPT ![queue.last_used % Size] = [id |-> h, len |-> n]]
    BY <1>2, <1>4 DEF AtDevice
  <2> QED
    BY <1>4, <2>1, <2>2
<1>7. RngTypeOK'
  BY <1>1, <1>2, <1>3, <1>4 DEF RngTypeOK
<1>8. queue'.used[queue'.last_used % Size].id = h /\ queue'.used[queue'.last_used % Size].len = n
  BY <1>6
<1>9. queue'.used_idx = (queue'.last_used + 1) % IdxMod
  BY <1>2, <1>4 DEF AtDevice
<1>10. request_busy' /\ ~request_done' /\ given' = {} /\ filled' = n /\ n # -1
  BY <1>1, <1>2, <1>3 DEF AtDevice
<1>11. RngUnread'
  BY <1>5, <1>8, <1>9, <1>10 DEF RngUnread
<1> QED
  BY <1>7, <1>11 DEF RngIInv, RngPhase

\* The handler frees the descriptor of the one unread entry.
LEMMA RngIrqIInv ==
  ASSUME RngIInv, RngIrq
  PROVE  RngIInv'
<1>1. queue \in Queues /\ RngTypeOK /\ raised' = FALSE /\ fill' = Woken /\ given' = given /\ filled' = filled
  BY DEF RngIInv, RngTypeOK, RngIrq
<1>2. queue.last_used \in Indices /\ queue.used_idx \in Indices
  BY <1>1, HeadEntry
<1>3. fill' \in {"idle", "check", "wfi", "asleep", "return"}
  BY <1>1 DEF Woken, RngTypeOK
<1>4. CASE Quiet \/ AtDevice
  <2>1. Pending(queue) = 0
    BY <1>2, <1>4, NoneUnread DEF Quiet, AtDevice
  <2>2. UNCHANGED <<queue, request_busy, request_done, request_len>>
    BY <2>1 DEF RngIrq
  <2> QED
    BY <1>1, <1>3, <1>4, <2>2 DEF RngIInv, RngTypeOK, RngPhase, Quiet, AtDevice
<1>5. CASE RngUnread
  <2>1. Pending(queue) = 1
    BY <1>2, <1>5, OneUnread DEF RngUnread
  <2> DEFINE e == queue.used[queue.last_used % Size]
             r == [queue EXCEPT !.last_used = queue.used_idx]
  <2>2. PendingElem(queue, 0) = e /\ e.id \in Descs /\ e.len \in {0, 1}
    BY <1>1, HeadEntry
  <2>3. e.len = filled /\ FreeListIs(queue, Descs \ {e.id})
    BY <1>5 DEF RngUnread
  <2>4. /\ r \in Queues
        /\ r.next = queue.next /\ r.num_free = queue.num_free /\ r.free_head = queue.free_head
        /\ r.last_used = queue.used_idx /\ r.used_idx = queue.used_idx
    BY <1>1, <1>2, PopFields
  <2>5. queue' = AfterFree(r, e.id) /\ request_len' = e.len /\ request_done' = TRUE /\ request_busy' = FALSE
    BY <2>1, <2>2 DEF RngIrq, Freed
  <2> HIDE DEF e, r
  <2>6. FreeListIs(r, Descs \ {e.id})
    BY <1>1, <2>3, <2>4, SameFreeList
  <2>7. queue' \in Queues /\ FreeListIs(queue', (Descs \ {e.id}) \cup {e.id})
    BY <2>2, <2>4, <2>5, <2>6, FreeFreeList, Descs \ {e.id} \in SUBSET Descs,
       e.id \in Descs \ (Descs \ {e.id})
  <2>8. (Descs \ {e.id}) \cup {e.id} = Descs
    BY <2>2
  <2>9. queue'.used_idx = queue'.last_used
    BY <2>4, <2>5 DEF AfterFree, Queues
  <2>10. RngTypeOK'
    BY <1>1, <1>3, <2>2, <2>5, <2>7 DEF RngTypeOK
  <2>11. Quiet'
    BY <1>1, <1>5, <2>3, <2>5, <2>7, <2>8, <2>9 DEF Quiet, RngUnread
  <2> QED
    BY <2>10, <2>11 DEF RngIInv, RngPhase
<1> QED
  BY <1>4, <1>5 DEF RngIInv, RngPhase

LEMMA RngStepIInv == RngIInv /\ [RngNext]_rngVars => RngIInv'
<1> SUFFICES ASSUME RngIInv, [RngNext]_rngVars PROVE RngIInv'
  OBVIOUS
<1>1. ASSUME Check \/ Sleep \/ FillReturn \/ TimerIrq \/ UNCHANGED rngVars
      PROVE  RngIInv'
  <2>1. UNCHANGED <<queue, request_busy, request_done, request_len, raised, given, filled>>
    BY <1>1 DEF Check, Sleep, FillReturn, TimerIrq, rngVars
  <2>2. fill' \in {"idle", "check", "wfi", "asleep", "return"}
    BY <1>1 DEF Check, Sleep, FillReturn, TimerIrq, rngVars, RngIInv, RngTypeOK
  <2> QED
    BY <2>1, <2>2 DEF RngIInv, RngTypeOK, RngPhase, Quiet, AtDevice, RngUnread
<1> QED
  BY <1>1, FillIInv, DeviceFillsIInv, RngIrqIInv DEF RngNext, Caller

----------------------------------------------------------------------------
(* The theorems *)

\* The inductive invariant of the entropy driver.
THEOREM RngInvariant == RngSpec => []RngIInv
BY RngInitIInv, RngStepIInv, PTL DEF RngSpec

\* virtio_rng_irq frees the buffer's descriptor exactly once, and
\* virtio_rng_fill finds the length of its own answer.
THEOREM RequestSound == RngSpec => []RngRequestSound
<1>1. ASSUME RngIInv PROVE RngRequestSound
  <2>1. queue \in Queues /\ RngTypeOK
    BY <1>1 DEF RngIInv, RngTypeOK
  <2>2. queue.last_used \in Indices /\ queue.used_idx \in Indices
    BY <2>1, HeadEntry
  <2>3. Quiet \/ AtDevice => Answered = {}
    BY <2>2, NoneUnread DEF Quiet, AtDevice, Answered
  <2>4. RngUnread => Answered = {queue.used[queue.last_used % Size].id}
    <3>1. SUFFICES ASSUME RngUnread PROVE Answered = {queue.used[queue.last_used % Size].id}
      OBVIOUS
    <3>2. Pending(queue) = 1
      BY <2>2, <3>1, OneUnread DEF RngUnread
    <3>3. 0 .. Pending(queue) - 1 = {0}
      BY <3>2
    <3> QED
      BY <2>1, <3>3, HeadEntry DEF Answered
  <2>5. \A e \in Descs : FreeListIs(queue, Descs \ {e}) => queue.num_free = Size - 1
    <3>1. SUFFICES ASSUME NEW e \in Descs, FreeListIs(queue, Descs \ {e}) PROVE queue.num_free = Size - 1
      OBVIOUS
    <3>2. Cardinality(Descs \ {e}) = queue.num_free
      BY <2>1, <3>1, FreeListCounts, Descs \ {e} \in SUBSET Descs
    <3>3. Cardinality(Descs \ {e}) = Size - 1
      BY DescsFinite, FS_RemoveElement
    <3> QED
      BY <3>2, <3>3
  <2>6. FreeListIs(queue, Descs) => queue.num_free = Size
    <3>1. SUFFICES ASSUME FreeListIs(queue, Descs) PROVE queue.num_free = Size
      OBVIOUS
    <3>2. Cardinality(Descs) = queue.num_free
      BY <2>1, <3>1, FreeListCounts, Descs \in SUBSET Descs
    <3> QED
      BY <3>2, DescsFinite
  <2>7. CASE Quiet
    <3>1. Descs \ (given \cup Answered) = Descs
      BY <2>3, <2>7 DEF Quiet
    <3> QED
      BY <2>1, <2>6, <2>7, <3>1 DEF Quiet, RngRequestSound
  <2>8. CASE AtDevice
    <3>1. PICK h \in Descs : given = {h} /\ FreeListIs(queue, Descs \ {h})
      BY <2>8 DEF AtDevice
    <3>2. given \cup Answered = {h}
      BY <2>3, <2>8, <3>1
    <3> QED
      BY <2>1, <2>5, <2>8, <3>1, <3>2 DEF AtDevice, RngRequestSound
  <2>9. CASE RngUnread
    <3>1. given \cup Answered = {queue.used[queue.last_used % Size].id}
      BY <2>4, <2>9 DEF RngUnread
    <3>2. queue.used[queue.last_used % Size].id \in Descs
      BY <2>1, HeadEntry
    <3> QED
      BY <2>1, <2>5, <2>9, <3>1, <3>2 DEF RngUnread, RngRequestSound
  <2> QED
    BY <1>1, <2>7, <2>8, <2>9 DEF RngIInv, RngPhase
<1> QED
  BY <1>1, RngInvariant, PTL
============================================================================
