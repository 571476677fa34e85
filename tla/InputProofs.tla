---------------------------- MODULE InputProofs ----------------------------
(***************************************************************************)
(* Proofs about the input layer for every queue size, ring capacity and    *)
(* number of events: no buffer of the keyboard's queue is lost or used     *)
(* twice, key events stay in order, letters come out in the case they were *)
(* struck in, and the ring is a queue that forgets its oldest event.       *)
(***************************************************************************)
EXTENDS Input, VirtQueueProofs, SequenceTheorems

\* The number of buffers with the device, of filled ones and of events in the ring.
Given == Between(devAvail, q.avail_idx)
Ready == Between(q.last_used, q.used_idx)
Count == (tail - head) % CAPACITY

\* The i-th buffer with the device, the i-th filled one and the event in it.
GivenAt(i) == q.avail[(devAvail + i) % Size]
ReadyAt(i) == q.used[(q.last_used + i) % Size].id
Waiting(i) == events[ReadyAt(i)]

\* The i-th event of the ring.
Item(i) == ring[(head + i - 1) % CAPACITY]

IsKey(e) == e.source = "keyboard"

(***************************************************************************)
(* Each buffer is in exactly one place.                                    *)
(***************************************************************************)
Counts == Given + Ready + (IF pc \in {"handle", "submit"} THEN 1 ELSE 0) = Size

Places ==
  /\ \A i, j \in 0 .. Given - 1 : GivenAt(i) = GivenAt(j) => i = j
  /\ \A i, j \in 0 .. Ready - 1 : ReadyAt(i) = ReadyAt(j) => i = j
  /\ \A i \in 0 .. Given - 1, j \in 0 .. Ready - 1 : GivenAt(i) # ReadyAt(j)
  /\ \A i \in 0 .. Given - 1 : GivenAt(i) \notin InHand
  /\ \A j \in 0 .. Ready - 1 : ReadyAt(j) \notin InHand
  /\ \A d \in Descs : \/ \E i \in 0 .. Given - 1 : GivenAt(i) = d
                      \/ \E j \in 0 .. Ready - 1 : ReadyAt(j) = d
                      \/ d \in InHand

(***************************************************************************)
(* The events are numbered upwards from the reader to the keyboard.        *)
(***************************************************************************)
WaitingOrder ==
  /\ \A i \in 0 .. Ready - 1 : /\ Waiting(i) \in Events
                               /\ taken < Waiting(i).seq /\ Waiting(i).seq <= sent
  /\ \A i, j \in 0 .. Ready - 1 : i < j => Waiting(i).seq < Waiting(j).seq

HandOrder ==
  pc = "handle" =>
    /\ events[cur] \in Events
    /\ taken < events[cur].seq /\ events[cur].seq <= sent
    /\ \A i \in 0 .. Ready - 1 : events[cur].seq < Waiting(i).seq

RingOrder ==
  \A i \in 1 .. Count : IsKey(Item(i)) =>
    /\ taken < Item(i).seq /\ Item(i).seq <= sent
    /\ \A j \in 1 .. Count : i < j /\ IsKey(Item(j)) => Item(i).seq < Item(j).seq
    /\ \A j \in 0 .. Ready - 1 : Item(i).seq < Waiting(j).seq
    /\ pc = "handle" => Item(i).seq < events[cur].seq

Order == taken <= sent /\ WaitingOrder /\ HandOrder /\ RingOrder

(***************************************************************************)
(* The key events that no reader has seen carry the shift state: the state *)
(* before each of them, and the keys held now, are what the last event of  *)
(* a shift key before it says, or else what the reader has.                *)
(***************************************************************************)
InFlight ==
  {e \in {Item(i) : i \in 1 .. Count} \cup {Waiting(i) : i \in 0 .. Ready - 1}
         \cup (IF pc = "handle" THEN {events[cur]} ELSE {}) : IsKey(e)}

Says(S, s, v) ==
  /\ S = {} => v = s
  /\ \A f \in S : (\A g \in S : g.seq <= f.seq) => v = (f.pressed # "release")

Shifts(K) == {f \in K : f.key \in ShiftKeys}

Tracks(K, s, v) ==
  /\ \A e \in K : Says({f \in Shifts(K) : f.seq < e.seq}, s, e.shifted)
  /\ Says(Shifts(K), s, v)

ShiftTracked == ~lost => Tracks(InFlight, shift, held \cap ShiftKeys # {})

BInv == TypeOK /\ Counts /\ Places
OInv == BInv /\ Order
IInv == OInv /\ ShiftTracked /\ CharsAsTyped
----------------------------------------------------------------------------
(* The keyboard's queue *)

LEMMA EventFacts ==
  /\ \A e \in Events : e.seq \in 1 .. MaxEvents
  /\ \A e \in Events : IsKey(e) => /\ e.key \in Keys /\ e.shifted \in BOOLEAN
                                   /\ e.pressed \in {"press", "repeat", "release"}
  /\ ~IsKey(NoEvent)
BY DEF Events, NoEvent, IsKey

\* The slots that the windows of the two rings cover.
LEMMA WindowTypes ==
  ASSUME TypeOK
  PROVE  /\ q \in Queues /\ devAvail \in Indices /\ q.avail_idx \in Indices
         /\ q.last_used \in Indices /\ q.used_idx \in Indices
         /\ Given \in 0 .. IdxMod - 1 /\ Ready \in 0 .. IdxMod - 1
         /\ Given = 0 <=> devAvail = q.avail_idx
         /\ \A i \in Nat : GivenAt(i) \in Descs /\ ReadyAt(i) \in Descs
         /\ \A i \in Nat : Waiting(i) \in Events \cup {NoEvent}
<1>1. /\ q \in Queues /\ devAvail \in Indices /\ q.avail_idx \in Indices
      /\ q.last_used \in Indices /\ q.used_idx \in Indices
      /\ q.avail \in [Descs -> Descs] /\ q.used \in [Descs -> UsedElems]
  BY DEF TypeOK, Queues
<1>2. /\ Given \in 0 .. IdxMod - 1 /\ Ready \in 0 .. IdxMod - 1
      /\ Given = 0 <=> devAvail = q.avail_idx
  BY <1>1, BetweenType DEF Given, Ready
<1>3. ASSUME NEW i \in Nat PROVE GivenAt(i) \in Descs /\ ReadyAt(i) \in Descs
  <2>1. (devAvail + i) % Size \in Descs /\ (q.last_used + i) % Size \in Descs
    BY <1>1, SlotType
  <2>2. q.used[(q.last_used + i) % Size] \in UsedElems
    BY <1>1, <2>1
  <2> QED
    BY <1>1, <2>1, <2>2 DEF GivenAt, ReadyAt, UsedElems
<1>4. ASSUME NEW i \in Nat PROVE Waiting(i) \in Events \cup {NoEvent}
  BY <1>3 DEF Waiting, TypeOK
<1> QED
  BY <1>1, <1>2, <1>3, <1>4

\* The device moves the first buffer it was given to the end of the filled ones.
LEMMA SendView ==
  ASSUME TypeOK, Counts, devAvail # q.avail_idx,
         q' = AfterDeviceUse(q, q.avail[devAvail % Size], 1),
         devAvail' = (devAvail + 1) % IdxMod
  PROVE  /\ q' \in Queues /\ devAvail' \in Indices
         /\ q.avail[devAvail % Size] = GivenAt(0)
         /\ Given > 0 /\ Given' = Given - 1 /\ Ready' = Ready + 1
         /\ \A i \in 0 .. Given - 2 : GivenAt(i)' = GivenAt(i + 1)
         /\ \A i \in 0 .. Ready : ReadyAt(i)' = IF i < Ready THEN ReadyAt(i) ELSE GivenAt(0)
<1> DEFINE h == GivenAt(0)
<1>1. /\ q \in Queues /\ devAvail \in Indices /\ q.avail_idx \in Indices
      /\ q.last_used \in Indices /\ q.used_idx \in Indices
      /\ Given \in 0 .. IdxMod - 1 /\ Ready \in 0 .. IdxMod - 1 /\ Given # 0
      /\ h \in Descs
  BY WindowTypes
<1>2. q.avail[devAvail % Size] = h
  BY <1>1 DEF GivenAt, Indices
<1>3. /\ q' \in Queues /\ q'.last_used = q.last_used
      /\ q'.avail = q.avail /\ q'.avail_idx = q.avail_idx
      /\ q'.used = [q.used EXCEPT ![q.used_idx % Size] = [id |-> h, len |-> 1]]
      /\ q'.used_idx = (q.used_idx + 1) % IdxMod
  <2> HIDE DEF h
  <2> QED
    BY <1>1, <1>2, DeviceUseFields, 1 \in {0, 1}
<1> HIDE DEF h
<1>4. devAvail' \in Indices /\ \A i \in Int : (devAvail' + i) % Size = (devAvail + (i + 1)) % Size
  BY <1>1, WrapSlot
<1>5. Given' = Given - 1
  BY <1>1, <1>3, BetweenShrinks DEF Given
<1>6. Ready + 1 <= Size
  BY <1>1, QueueFacts DEF Counts
<1>7. Ready' = Ready + 1
  BY <1>1, <1>3, <1>6, QueueFacts, BetweenGrows DEF Ready
<1>8. \A i \in 0 .. Given - 2 : GivenAt(i)' = GivenAt(i + 1)
  BY <1>3, <1>4 DEF GivenAt
<1>9. q.used_idx % Size = (q.last_used + Ready) % Size
  BY <1>1, BetweenSlot DEF Ready
<1>10. q.used \in [Descs -> UsedElems] /\ \A i \in Nat : (q.last_used + i) % Size \in Descs
  BY <1>1, SlotType DEF Queues
<1>11. ASSUME NEW i \in 0 .. Ready - 1 PROVE ReadyAt(i)' = ReadyAt(i)
  <2>1. (q.last_used + i) % Size # q.used_idx % Size
    <3>1. i \in 0 .. Size - 1 /\ Ready \in 0 .. Size - 1 /\ i # Ready /\ q.last_used \in Int
      BY <1>1, <1>6, QueueFacts DEF Indices
    <3> QED
      BY <1>9, <3>1, QueueFacts, ModDistinct
  <2>2. (q.last_used + i) % Size \in Descs
    BY <1>1, <1>10
  <2>3. q'.used[(q.last_used + i) % Size] = q.used[(q.last_used + i) % Size]
    BY <1>3, <1>10, <2>1, <2>2
  <2> QED
    BY <1>3, <2>3 DEF ReadyAt
<1>12. ASSUME NEW i, i = Ready PROVE ReadyAt(i)' = h
  <2>1. q.used_idx % Size \in Descs
    BY <1>1, <1>9, <1>10
  <2>2. q'.used[q.used_idx % Size] = [id |-> h, len |-> 1]
    BY <1>3, <1>10, <2>1
  <2>3. q'.used[(q'.last_used + i) % Size].id = h
    BY <1>3, <1>9, <1>12, <2>2
  <2> QED
    BY <2>3 DEF ReadyAt
<1> QED
  BY <1>1, <1>2, <1>3, <1>4, <1>5, <1>7, <1>8, <1>11, <1>12 DEF h

\* The driver takes the oldest filled buffer.
LEMMA PopView ==
  ASSUME TypeOK, Ready # 0, UNCHANGED devAvail,
         q' = [q EXCEPT !.last_used = (@ + 1) % IdxMod]
  PROVE  /\ q' \in Queues /\ PendingElem(q, 0).id = ReadyAt(0)
         /\ Given' = Given /\ Ready' = Ready - 1
         /\ \A i \in 0 .. Given - 1 : GivenAt(i)' = GivenAt(i)
         /\ \A i \in 0 .. Ready - 2 : ReadyAt(i)' = ReadyAt(i + 1)
<1>1. /\ q \in Queues /\ q.last_used \in Indices /\ q.used_idx \in Indices
      /\ Ready \in 0 .. IdxMod - 1
  BY WindowTypes
<1> DEFINE n == (q.last_used + 1) % IdxMod
<1>2. q' = [q EXCEPT !.last_used = n]
  BY <1>1 DEF Queues
<1>3. n \in Indices /\ \A i \in Int : (n + i) % Size = (q.last_used + (i + 1)) % Size
  BY <1>1, WrapSlot
<1>4. Between(n, q.used_idx) = Ready - 1
  BY <1>1, BetweenShrinks DEF Ready
<1> HIDE DEF n
<1>5. /\ q' \in Queues /\ q'.last_used = n
      /\ q'.avail = q.avail /\ q'.avail_idx = q.avail_idx
      /\ q'.used = q.used /\ q'.used_idx = q.used_idx
  <2> DEFINE r == [q EXCEPT !.last_used = n]
  <2>1. /\ r \in Queues /\ r.last_used = n
        /\ r.avail = q.avail /\ r.avail_idx = q.avail_idx
        /\ r.used = q.used /\ r.used_idx = q.used_idx
    BY <1>1, <1>3, PopFields
  <2>2. q' = r
    BY <1>2
  <2> HIDE DEF r
  <2> QED
    BY <2>1, <2>2
<1>6. Given' = Given /\ Ready' = Ready - 1
  BY <1>4, <1>5 DEF Given, Ready
<1>7. \A i \in 0 .. Given - 1 : GivenAt(i)' = GivenAt(i)
  BY <1>5 DEF GivenAt
<1>8. \A i \in 0 .. Ready - 2 : ReadyAt(i)' = ReadyAt(i + 1)
  BY <1>3, <1>5 DEF ReadyAt
<1> QED
  BY <1>5, <1>6, <1>7, <1>8 DEF PendingElem, ReadyAt

\* The driver gives a buffer back: it becomes the last one the device has.
LEMMA SubmitView ==
  ASSUME TypeOK, Given < Size, UNCHANGED devAvail, q' = AfterSubmit(q, cur)
  PROVE  /\ q' \in Queues
         /\ Given' = Given + 1 /\ Ready' = Ready
         /\ \A i \in 0 .. Given : GivenAt(i)' = IF i < Given THEN GivenAt(i) ELSE cur
         /\ \A i \in 0 .. Ready - 1 : ReadyAt(i)' = ReadyAt(i)
<1>1. /\ q \in Queues /\ devAvail \in Indices /\ q.avail_idx \in Indices /\ cur \in Descs
      /\ Given \in 0 .. IdxMod - 1
  BY WindowTypes DEF TypeOK
<1>2. /\ q' \in Queues /\ q'.last_used = q.last_used
      /\ q'.used = q.used /\ q'.used_idx = q.used_idx
      /\ q'.avail = [q.avail EXCEPT ![q.avail_idx % Size] = cur]
      /\ q'.avail_idx = (q.avail_idx + 1) % IdxMod
  BY <1>1, SubmitFields
<1>3. Given' = Given + 1
  BY <1>1, <1>2, QueueFacts, BetweenGrows DEF Given
<1>4. Ready' = Ready /\ \A i \in 0 .. Ready - 1 : ReadyAt(i)' = ReadyAt(i)
  BY <1>2 DEF Ready, ReadyAt
<1>5. q.avail_idx % Size = (devAvail + Given) % Size
  BY <1>1, BetweenSlot DEF Given
<1>6. q.avail \in [Descs -> Descs] /\ \A i \in Nat : (devAvail + i) % Size \in Descs
  BY <1>1, SlotType DEF Queues
<1>7. ASSUME NEW i \in 0 .. Given - 1 PROVE GivenAt(i)' = GivenAt(i)
  <2>1. (devAvail + i) % Size # q.avail_idx % Size
    <3>1. i \in 0 .. Size - 1 /\ Given \in 0 .. Size - 1 /\ i # Given /\ devAvail \in Int
      BY <1>1, QueueFacts DEF Indices
    <3> QED
      BY <1>5, <3>1, QueueFacts, ModDistinct
  <2>2. (devAvail + i) % Size \in Descs
    BY <1>1, <1>6
  <2>3. q'.avail[(devAvail + i) % Size] = q.avail[(devAvail + i) % Size]
    BY <1>2, <1>6, <2>1, <2>2
  <2> QED
    BY <2>3 DEF GivenAt
<1>8. ASSUME NEW i, i = Given PROVE GivenAt(i)' = cur
  <2>1. q.avail_idx % Size \in Descs
    BY <1>1, <1>5, <1>6
  <2>2. q'.avail[q.avail_idx % Size] = cur
    BY <1>2, <1>6, <2>1
  <2>3. q'.avail[(devAvail' + i) % Size] = cur
    BY <1>5, <1>8, <2>2
  <2> QED
    BY <2>3 DEF GivenAt
<1> QED
  BY <1>1, <1>2, <1>3, <1>4, <1>7, <1>8

\* A step that leaves the queue and the buffer in hand alone.
LEMMA PlacesKept ==
  ASSUME Counts, Places, UNCHANGED <<q, devAvail, cur>>,
         pc' \in {"handle", "submit"} <=> pc \in {"handle", "submit"}
  PROVE  Counts' /\ Places'
<1>1. InHand' = InHand
  BY DEF InHand
<1>2. Given' = Given /\ Ready' = Ready
  BY DEF Given, Ready
<1>3. \A i : GivenAt(i)' = GivenAt(i) /\ ReadyAt(i)' = ReadyAt(i)
  BY DEF GivenAt, ReadyAt
<1>4. Counts'
  BY <1>2 DEF Counts
<1> QED
  BY <1>1, <1>2, <1>3, <1>4 DEF Places

LEMMA SendPlaces ==
  ASSUME TypeOK, Counts, Places, devAvail # q.avail_idx,
         q' = AfterDeviceUse(q, q.avail[devAvail % Size], 1),
         devAvail' = (devAvail + 1) % IdxMod, UNCHANGED <<pc, cur>>
  PROVE  Counts' /\ Places'
<1>1. /\ Given > 0 /\ Given' = Given - 1 /\ Ready' = Ready + 1
      /\ \A i \in 0 .. Given - 2 : GivenAt(i)' = GivenAt(i + 1)
      /\ \A i \in 0 .. Ready : ReadyAt(i)' = IF i < Ready THEN ReadyAt(i) ELSE GivenAt(0)
  BY SendView
<1>2. Given \in Nat /\ Ready \in Nat
  BY WindowTypes, QueueFacts
<1>3. InHand' = InHand
  BY DEF InHand
<1>4. Counts'
  BY <1>1, <1>2, QueueFacts DEF Counts
<1>5. ASSUME NEW i \in 0 .. Given' - 1 PROVE i + 1 \in 0 .. Given - 1 /\ GivenAt(i)' = GivenAt(i + 1)
  BY <1>1, <1>2
<1>6. ASSUME NEW i \in 0 .. Ready' - 1
      PROVE  \/ i \in 0 .. Ready - 1 /\ ReadyAt(i)' = ReadyAt(i)
             \/ i = Ready /\ ReadyAt(i)' = GivenAt(0)
  BY <1>1, <1>2
<1>7. 0 \in 0 .. Given - 1
  BY <1>1, <1>2
<1>8. \A i, j \in 0 .. Given' - 1 : GivenAt(i)' = GivenAt(j)' => i = j
  BY <1>2, <1>5 DEF Places
<1>9. \A i, j \in 0 .. Ready' - 1 : ReadyAt(i)' = ReadyAt(j)' => i = j
  BY <1>6, <1>7 DEF Places
<1>10. \A i \in 0 .. Given' - 1, j \in 0 .. Ready' - 1 : GivenAt(i)' # ReadyAt(j)'
  <2>1. SUFFICES ASSUME NEW i \in 0 .. Given' - 1, NEW j \in 0 .. Ready' - 1
                 PROVE  GivenAt(i)' # ReadyAt(j)'
    OBVIOUS
  <2>2. GivenAt(i + 1) # GivenAt(0)
    <3>1. i + 1 # 0
      BY <1>1, <1>2
    <3> QED
      BY <1>5, <1>7, <3>1 DEF Places
  <2> QED
    BY <1>5, <1>6, <2>2 DEF Places
<1>11. /\ \A i \in 0 .. Given' - 1 : GivenAt(i)' \notin InHand
       /\ \A j \in 0 .. Ready' - 1 : ReadyAt(j)' \notin InHand
  BY <1>5, <1>6, <1>7 DEF Places
<1>12. ASSUME NEW d \in Descs
       PROVE  \/ \E i \in 0 .. Given' - 1 : GivenAt(i)' = d
              \/ \E j \in 0 .. Ready' - 1 : ReadyAt(j)' = d
              \/ d \in InHand
  <2>1. CASE \E i \in 0 .. Given - 1 : GivenAt(i) = d
    <3>1. PICK i \in 0 .. Given - 1 : GivenAt(i) = d
      BY <2>1
    <3>2. CASE i = 0
      <4>1. Ready \in 0 .. Ready' - 1
        BY <1>1, <1>2
      <4>2. \A k : k = Ready => ReadyAt(k)' = d
        BY <1>1, <1>2, <3>1, <3>2
      <4> QED
        BY <4>1, <4>2
    <3>3. CASE i # 0
      <4>1. i - 1 \in 0 .. Given' - 1 /\ i - 1 + 1 = i
        BY <1>1, <1>2, <3>3
      <4>2. GivenAt(i - 1)' = d
        BY <1>5, <3>1, <4>1
      <4> QED
        BY <4>1, <4>2
    <3> QED
      BY <3>2, <3>3
  <2>2. CASE \E j \in 0 .. Ready - 1 : ReadyAt(j) = d
    BY <1>1, <1>2, <2>2
  <2> QED
    BY <2>1, <2>2 DEF Places
<1> QED
  BY <1>3, <1>4, <1>8, <1>9, <1>10, <1>11, <1>12 DEF Places

LEMMA PopPlaces ==
  ASSUME TypeOK, Counts, Places, Ready # 0, UNCHANGED devAvail,
         pc = "poll", pc' = "handle", cur' = ReadyAt(0),
         q' = [q EXCEPT !.last_used = (@ + 1) % IdxMod]
  PROVE  Counts' /\ Places'
<1>1. /\ Given' = Given /\ Ready' = Ready - 1
      /\ \A i \in 0 .. Given - 1 : GivenAt(i)' = GivenAt(i)
      /\ \A i \in 0 .. Ready - 2 : ReadyAt(i)' = ReadyAt(i + 1)
  BY PopView
<1>2. Given \in Nat /\ Ready \in Nat \ {0}
  BY WindowTypes, QueueFacts
<1>3. InHand = {} /\ InHand' = {ReadyAt(0)}
  BY DEF InHand
<1>4. Counts'
  BY <1>1, <1>2, QueueFacts DEF Counts
<1>5. ASSUME NEW i \in 0 .. Ready' - 1
      PROVE  i + 1 \in 0 .. Ready - 1 /\ i + 1 # 0 /\ ReadyAt(i)' = ReadyAt(i + 1)
  BY <1>1, <1>2
<1>6. 0 \in 0 .. Ready - 1
  BY <1>2
<1>7. \A i, j \in 0 .. Ready' - 1 : ReadyAt(i)' = ReadyAt(j)' => i = j
  BY <1>2, <1>5 DEF Places
<1>8. \A j \in 0 .. Ready' - 1 : ReadyAt(j)' # ReadyAt(0)
  BY <1>5, <1>6 DEF Places
<1>9. \A i \in 0 .. Given - 1, j \in 0 .. Ready' - 1 : GivenAt(i)' # ReadyAt(j)'
  BY <1>1, <1>5 DEF Places
<1>10. \A i \in 0 .. Given - 1 : GivenAt(i)' # ReadyAt(0)
  BY <1>1, <1>6 DEF Places
<1>11. ASSUME NEW d \in Descs
       PROVE  \/ \E i \in 0 .. Given' - 1 : GivenAt(i)' = d
              \/ \E j \in 0 .. Ready' - 1 : ReadyAt(j)' = d
              \/ d = ReadyAt(0)
  <2>1. CASE \E i \in 0 .. Given - 1 : GivenAt(i) = d
    BY <1>1, <2>1
  <2>2. CASE \E j \in 0 .. Ready - 1 : ReadyAt(j) = d
    <3>1. PICK j \in 0 .. Ready - 1 : ReadyAt(j) = d
      BY <2>2
    <3>2. CASE j # 0
      <4>1. j - 1 \in 0 .. Ready' - 1 /\ j - 1 + 1 = j
        BY <1>1, <1>2, <3>2
      <4>2. ReadyAt(j - 1)' = d
        BY <1>5, <3>1, <4>1
      <4> QED
        BY <4>1, <4>2
    <3> QED
      BY <3>1, <3>2
  <2> QED
    BY <1>3, <2>1, <2>2 DEF Places
<1>12. \A i, j \in 0 .. Given - 1 : GivenAt(i)' = GivenAt(j)' => i = j
  BY <1>1 DEF Places
<1> QED
  BY <1>1, <1>3, <1>4, <1>7, <1>8, <1>9, <1>10, <1>11, <1>12 DEF Places

LEMMA SubmitPlaces ==
  ASSUME TypeOK, Counts, Places, UNCHANGED <<devAvail, cur>>,
         pc = "submit", pc' = "poll", q' = AfterSubmit(q, cur)
  PROVE  Given < Size /\ Counts' /\ Places'
<1>1. Given \in Nat /\ Ready \in Nat /\ cur \in Descs
  BY WindowTypes, QueueFacts DEF TypeOK
<1>2. Given < Size
  BY <1>1, QueueFacts DEF Counts
<1>3. /\ Given' = Given + 1 /\ Ready' = Ready
      /\ \A i \in 0 .. Given : GivenAt(i)' = IF i < Given THEN GivenAt(i) ELSE cur
      /\ \A i \in 0 .. Ready - 1 : ReadyAt(i)' = ReadyAt(i)
  BY <1>2, SubmitView
<1>4. InHand = {cur} /\ InHand' = {}
  BY DEF InHand
<1>5. Counts'
  BY <1>1, <1>3, QueueFacts DEF Counts
<1>6. ASSUME NEW i \in 0 .. Given' - 1
      PROVE  \/ i \in 0 .. Given - 1 /\ GivenAt(i)' = GivenAt(i)
             \/ i = Given /\ GivenAt(i)' = cur
  BY <1>1, <1>3
<1>7. \A i, j \in 0 .. Given' - 1 : GivenAt(i)' = GivenAt(j)' => i = j
  BY <1>4, <1>6 DEF Places
<1>8. \A i \in 0 .. Given' - 1, j \in 0 .. Ready - 1 : GivenAt(i)' # ReadyAt(j)'
  BY <1>3, <1>4, <1>6 DEF Places
<1>9. \A i, j \in 0 .. Ready - 1 : ReadyAt(i)' = ReadyAt(j)' => i = j
  BY <1>3 DEF Places
<1>10. ASSUME NEW d \in Descs
       PROVE  \/ \E i \in 0 .. Given' - 1 : GivenAt(i)' = d
              \/ \E j \in 0 .. Ready - 1 : ReadyAt(j)' = d
  <2>1. CASE \E i \in 0 .. Given - 1 : GivenAt(i) = d
    BY <1>1, <1>3, <2>1
  <2>2. CASE \E j \in 0 .. Ready - 1 : ReadyAt(j) = d
    BY <1>3, <2>2
  <2>3. CASE d = cur
    <3>1. Given \in 0 .. Given' - 1 /\ \A k : k = Given => GivenAt(k)' = d
      BY <1>1, <1>3, <2>3
    <3> QED
      BY <3>1
  <2> QED
    BY <1>4, <2>1, <2>2, <2>3 DEF Places
<1> QED
  BY <1>2, <1>3, <1>4, <1>5, <1>7, <1>8, <1>9, <1>10 DEF Places

----------------------------------------------------------------------------
(* The ring of events *)

LEMMA CapacityFacts ==
  CAPACITY \in Nat /\ CAPACITY >= 2 /\ CAPACITY \in Nat \ {0}
BY InputAssumption

LEMMA ModTwice ==
  ASSUME NEW m \in Nat \ {0}, NEW a \in 0 .. 2 * m - 1
  PROVE  a % m = IF a < m THEN a ELSE a - m
OBVIOUS

\* The indices of the ring without the remainders.
LEMMA RingIndices ==
  ASSUME NEW h \in Slots, NEW t \in Slots
  PROVE  /\ NextSlot(h) \in Slots /\ NextSlot(h) = IF h + 1 = CAPACITY THEN 0 ELSE h + 1
         /\ (t - h) % CAPACITY = IF h <= t THEN t - h ELSE t - h + CAPACITY
         /\ \A i \in 1 .. CAPACITY :
              (h + i - 1) % CAPACITY = IF h + i - 1 < CAPACITY THEN h + i - 1 ELSE h + i - 1 - CAPACITY
<1>1. NextSlot(h) = IF h + 1 = CAPACITY THEN 0 ELSE h + 1
  BY CapacityFacts, ModNext DEF NextSlot, Slots
<1>2. NextSlot(h) \in Slots
  BY <1>1, CapacityFacts DEF Slots
<1>3. (t - h) % CAPACITY = IF h <= t THEN t - h ELSE t - h + CAPACITY
  BY CapacityFacts, ModDifference DEF Slots
<1>4. ASSUME NEW i \in 1 .. CAPACITY
      PROVE  (h + i - 1) % CAPACITY = IF h + i - 1 < CAPACITY THEN h + i - 1 ELSE h + i - 1 - CAPACITY
  <2> DEFINE b == h + i - 1
  <2>1. b \in 0 .. 2 * CAPACITY - 1
    BY CapacityFacts DEF Slots
  <2>2. \A a \in 0 .. 2 * CAPACITY - 1 : a % CAPACITY = IF a < CAPACITY THEN a ELSE a - CAPACITY
    BY CapacityFacts, ModTwice
  <2> HIDE DEF b
  <2>3. b % CAPACITY = IF b < CAPACITY THEN b ELSE b - CAPACITY
    BY <2>1, <2>2
  <2> QED
    BY <2>3, CapacityFacts, h \in Int, i \in Int DEF b, Slots
<1> QED
  BY <1>1, <1>2, <1>3, <1>4

\* How many events input_push_event drops.
Dropped == IF IsFull THEN 1 ELSE 0

LEMMA RingTypes ==
  ASSUME TypeOK
  PROVE  /\ head \in Slots /\ tail \in Slots /\ Count \in 0 .. CAPACITY - 1
         /\ IsFull <=> Count = CAPACITY - 1
         /\ IsEmpty <=> Count = 0
         /\ ring[head] = Item(1)
         /\ \A i \in 1 .. Count : Item(i) \in Events \cup {NoEvent}
<1>1. head \in Slots /\ tail \in Slots /\ ring \in [Slots -> Events \cup {NoEvent}]
  BY DEF TypeOK
<1>2. Count = IF head <= tail THEN tail - head ELSE tail - head + CAPACITY
  BY <1>1, RingIndices DEF Count
<1>3. NextSlot(tail) = IF tail + 1 = CAPACITY THEN 0 ELSE tail + 1
  BY <1>1, RingIndices
<1>4. Count \in 0 .. CAPACITY - 1 /\ (IsEmpty <=> Count = 0)
  BY <1>1, <1>2, CapacityFacts DEF Slots, IsEmpty
<1>5. IsFull <=> Count = CAPACITY - 1
  BY <1>1, <1>2, <1>3, CapacityFacts DEF Slots, IsFull
<1>6. \A i \in 1 .. CAPACITY :
        (head + i - 1) % CAPACITY = IF head + i - 1 < CAPACITY THEN head + i - 1 ELSE head + i - 1 - CAPACITY
  BY <1>1, RingIndices
<1>7. \A i \in 1 .. CAPACITY : (head + i - 1) % CAPACITY \in Slots
  BY <1>1, <1>6, CapacityFacts DEF Slots
<1>8. (head + 1 - 1) % CAPACITY = head
  BY <1>1, <1>6, CapacityFacts DEF Slots
<1>9. \A i \in 1 .. Count : i \in 1 .. CAPACITY
  BY <1>4, CapacityFacts
<1> QED
  BY <1>1, <1>4, <1>5, <1>7, <1>8, <1>9 DEF Item

\* input_push_event puts an event behind the others, and into a full ring at the
\* cost of the first.
LEMMA PushView ==
  ASSUME TypeOK, NEW e, PushEvent(e)
  PROVE  /\ head' \in Slots /\ tail' \in Slots
         /\ Dropped \in 0 .. 1 /\ Dropped <= Count
         /\ Count' = Count + 1 - Dropped
         /\ \A i \in 1 .. Count - Dropped : Item(i)' = Item(i + Dropped)
         /\ \A i : i = Count + 1 - Dropped => Item(i)' = e
<1>1. /\ head \in Slots /\ tail \in Slots /\ Count \in 0 .. CAPACITY - 1
      /\ IsFull <=> Count = CAPACITY - 1
      /\ ring \in [Slots -> Events \cup {NoEvent}]
  BY RingTypes DEF TypeOK
<1>2. /\ head' = IF IsFull THEN NextSlot(head) ELSE head
      /\ ring' = [ring EXCEPT ![tail] = e]
      /\ tail' = NextSlot(tail)
  BY DEF PushEvent
<1>3. /\ NextSlot(head) \in Slots /\ NextSlot(head) = IF head + 1 = CAPACITY THEN 0 ELSE head + 1
      /\ NextSlot(tail) \in Slots /\ NextSlot(tail) = IF tail + 1 = CAPACITY THEN 0 ELSE tail + 1
  BY <1>1, RingIndices
<1>4. head' \in Slots /\ tail' \in Slots
  BY <1>1, <1>2, <1>3
<1>5. /\ Count = IF head <= tail THEN tail - head ELSE tail - head + CAPACITY
      /\ Count' = IF head' <= tail' THEN tail' - head' ELSE tail' - head' + CAPACITY
  BY <1>1, <1>4, RingIndices DEF Count
<1>6. Dropped \in 0 .. 1 /\ Dropped <= Count /\ (Dropped = 1 <=> Count = CAPACITY - 1)
  BY <1>1, CapacityFacts DEF Dropped
<1>7. head' = IF Count = CAPACITY - 1 THEN (IF head + 1 = CAPACITY THEN 0 ELSE head + 1) ELSE head
  BY <1>1, <1>2, <1>3
<1>8. tail' = IF tail + 1 = CAPACITY THEN 0 ELSE tail + 1
  BY <1>2, <1>3
<1>9. head \in 0 .. CAPACITY - 1 /\ tail \in 0 .. CAPACITY - 1
  BY <1>1 DEF Slots
<1>10. Count' = Count + 1 - Dropped
  BY <1>1, <1>5, <1>6, <1>7, <1>8, <1>9, CapacityFacts
<1>11. /\ \A i \in 1 .. CAPACITY :
            (head + i - 1) % CAPACITY = IF head + i - 1 < CAPACITY THEN head + i - 1 ELSE head + i - 1 - CAPACITY
       /\ \A i \in 1 .. CAPACITY :
            (head' + i - 1) % CAPACITY = IF head' + i - 1 < CAPACITY THEN head' + i - 1 ELSE head' + i - 1 - CAPACITY
  BY <1>1, <1>4, RingIndices
<1>12. ASSUME NEW i \in 1 .. Count - Dropped PROVE Item(i)' = Item(i + Dropped)
  <2>1. i \in 1 .. CAPACITY /\ i + Dropped \in 1 .. CAPACITY
    BY <1>1, <1>6, CapacityFacts
  <2>2. (head' + i - 1) % CAPACITY = IF head' + i - 1 < CAPACITY THEN head' + i - 1 ELSE head' + i - 1 - CAPACITY
    BY <1>11, <2>1
  <2>3. (head + (i + Dropped) - 1) % CAPACITY
          = IF head + (i + Dropped) - 1 < CAPACITY THEN head + (i + Dropped) - 1
            ELSE head + (i + Dropped) - 1 - CAPACITY
    BY <1>11, <2>1
  <2>4. (head' + i - 1) % CAPACITY = (head + (i + Dropped) - 1) % CAPACITY
    BY <1>1, <1>6, <1>7, <1>9, <2>1, <2>2, <2>3, CapacityFacts
  <2>5. (head + (i + Dropped) - 1) % CAPACITY \in Slots \ {tail}
    BY <1>1, <1>5, <1>6, <1>9, <2>1, <2>3, CapacityFacts DEF Slots
  <2>6. ring'[(head + (i + Dropped) - 1) % CAPACITY] = ring[(head + (i + Dropped) - 1) % CAPACITY]
    BY <1>1, <1>2, <2>5
  <2> QED
    BY <2>4, <2>6 DEF Item
<1>13. ASSUME NEW i, i = Count + 1 - Dropped PROVE Item(i)' = e
  <2>1. i \in 1 .. CAPACITY
    BY <1>1, <1>6, <1>13, CapacityFacts
  <2>2. (head' + i - 1) % CAPACITY = IF head' + i - 1 < CAPACITY THEN head' + i - 1 ELSE head' + i - 1 - CAPACITY
    BY <1>11, <2>1
  <2>3. (head' + i - 1) % CAPACITY = tail
    BY <1>1, <1>5, <1>6, <1>7, <1>9, <1>13, <2>1, <2>2, CapacityFacts
  <2> QED
    BY <1>1, <1>2, <2>3 DEF Item
<1> QED
  BY <1>4, <1>6, <1>10, <1>12, <1>13

\* input_pop_event takes the first event.
LEMMA TakeView ==
  ASSUME TypeOK, ~IsEmpty, head' = NextSlot(head), UNCHANGED <<ring, tail>>
  PROVE  /\ head' \in Slots
         /\ Count > 0 /\ Count' = Count - 1
         /\ \A i \in 1 .. Count - 1 : Item(i)' = Item(i + 1)
<1>1. head \in Slots /\ tail \in Slots /\ Count \in 0 .. CAPACITY - 1 /\ Count # 0
  BY RingTypes
<1>2. head' \in Slots /\ head' = IF head + 1 = CAPACITY THEN 0 ELSE head + 1
  BY <1>1, RingIndices
<1>3. /\ Count = IF head <= tail THEN tail - head ELSE tail - head + CAPACITY
      /\ Count' = IF head' <= tail THEN tail - head' ELSE tail - head' + CAPACITY
  BY <1>1, <1>2, RingIndices DEF Count
<1>4. Count > 0 /\ Count' = Count - 1
  BY <1>1, <1>2, <1>3, CapacityFacts DEF Slots
<1>5. ASSUME NEW i \in 1 .. Count - 1 PROVE Item(i)' = Item(i + 1)
  <2>1. i \in 1 .. CAPACITY /\ i + 1 \in 1 .. CAPACITY
    BY <1>1, CapacityFacts
  <2>2. (head' + i - 1) % CAPACITY = IF head' + i - 1 < CAPACITY THEN head' + i - 1 ELSE head' + i - 1 - CAPACITY
    BY <1>2, <2>1, RingIndices
  <2>3. (head + (i + 1) - 1) % CAPACITY
          = IF head + (i + 1) - 1 < CAPACITY THEN head + (i + 1) - 1 ELSE head + (i + 1) - 1 - CAPACITY
    BY <1>1, <2>1, RingIndices
  <2>4. (head' + i - 1) % CAPACITY = (head + (i + 1) - 1) % CAPACITY
    BY <1>1, <1>2, <2>1, <2>2, <2>3, CapacityFacts DEF Slots
  <2> QED
    BY <2>4 DEF Item
<1> QED
  BY <1>2, <1>4, <1>5

----------------------------------------------------------------------------
(* The ring is a queue *)

LEMMA ItemsFacts ==
  ASSUME TypeOK
  PROVE  /\ Items \in Seq(Events \cup {NoEvent})
         /\ Len(Items) = Count
         /\ \A i \in 1 .. Count : Items[i] = Item(i)
<1>1. Count \in Nat /\ \A i \in 1 .. Count : Item(i) \in Events \cup {NoEvent}
  BY RingTypes, CapacityFacts
<1>2. Items = [i \in 1 .. Count |-> Item(i)]
  BY DEF Items, Item, Count
<1> QED
  BY <1>1, <1>2

LEMMA SeqPut ==
  ASSUME NEW S, NEW s \in Seq(S), NEW e \in S, NEW t \in Seq(S), Len(t) = Len(s) + 1,
         \A i \in 1 .. Len(s) : t[i] = s[i], t[Len(s) + 1] = e
  PROVE  t = Append(s, e)
<1>1. /\ Append(s, e) \in Seq(S) /\ Len(Append(s, e)) = Len(s) + 1 /\ Len(s) \in Nat
      /\ \A i \in 1 .. Len(s) + 1 : Append(s, e)[i] = IF i <= Len(s) THEN s[i] ELSE e
  BY AppendProperties, LenProperties
<1>2. \A i \in 1 .. Len(t) : t[i] = Append(s, e)[i]
  BY <1>1
<1> QED
  BY <1>1, <1>2, SeqEqual

LEMMA SeqTake ==
  ASSUME NEW S, NEW s \in Seq(S), NEW t \in Seq(S), Len(s) > 0, Len(t) = Len(s) - 1,
         \A i \in 1 .. Len(s) - 1 : t[i] = s[i + 1]
  PROVE  s # << >> /\ t = Tail(s)
<1>1. s # << >>
  OBVIOUS
<1>2. /\ Tail(s) \in Seq(S) /\ Len(Tail(s)) = Len(s) - 1
      /\ \A i \in 1 .. Len(Tail(s)) : Tail(s)[i] = s[i + 1]
  BY <1>1, HeadTailProperties
<1> QED
  BY <1>1, <1>2, SeqEqual

\* input_push_event is the Put of the abstract queue.
LEMMA PushIsPut ==
  ASSUME TypeOK, NEW e \in Events, PushEvent(e)
  PROVE  Queue!Put(e)
<1> DEFINE S == Events \cup {NoEvent}
           old == IF Len(Items) = CAPACITY - 1 THEN Tail(Items) ELSE Items
           t == [i \in 1 .. Count + 1 - Dropped |-> Item(i)']
<1>1. Items \in Seq(S) /\ Len(Items) = Count /\ \A i \in 1 .. Count : Items[i] = Item(i)
  BY ItemsFacts
<1>2. /\ Dropped \in 0 .. 1 /\ Dropped <= Count /\ Count' = Count + 1 - Dropped
      /\ \A i \in 1 .. Count - Dropped : Item(i)' = Item(i + Dropped)
      /\ \A i : i = Count + 1 - Dropped => Item(i)' = e
  BY PushView
<1>3. /\ Count \in Nat /\ (Dropped = 1 <=> Count = CAPACITY - 1)
      /\ \A i \in 1 .. Count : Item(i) \in S
  BY RingTypes, CapacityFacts DEF Dropped
<1>4. Items' = t
  BY <1>2 DEF Items, Item, Count
<1>5. \A i \in 1 .. Count + 1 - Dropped :
        t[i] = IF i <= Count - Dropped THEN Item(i + Dropped) ELSE e
  BY <1>2, <1>3
<1>6. t \in Seq(S) /\ Len(t) = Count + 1 - Dropped
  <2>1. Count + 1 - Dropped \in Nat
    BY <1>2, <1>3
  <2>2. \A i \in 1 .. Count + 1 - Dropped : t[i] \in S
    BY <1>2, <1>3, <1>5
  <2> QED
    BY <2>1, <2>2
<1> HIDE DEF t, S
<1>7. old \in Seq(S) /\ Len(old) = Count - Dropped
      /\ \A i \in 1 .. Count - Dropped : old[i] = Item(i + Dropped)
  <2>1. CASE Dropped = 0
    BY <1>1, <1>3, <2>1
  <2>2. CASE Dropped = 1
    <3>1. Items # << >>
      BY <1>1, <1>2, <2>2
    <3>2. /\ Tail(Items) \in Seq(S) /\ Len(Tail(Items)) = Len(Items) - 1
          /\ \A i \in 1 .. Len(Tail(Items)) : Tail(Items)[i] = Items[i + 1]
      BY <1>1, <3>1, HeadTailProperties
    <3>3. old = Tail(Items)
      BY <1>1, <1>3, <2>2
    <3>4. \A i \in 1 .. Count - 1 : i + 1 \in 1 .. Count
      BY <1>3
    <3> QED
      BY <1>1, <1>3, <2>2, <3>2, <3>3, <3>4
  <2> QED
    BY <1>2, <2>1, <2>2
<1> HIDE DEF old
<1>8. Len(t) = Len(old) + 1 /\ (\A i \in 1 .. Len(old) : t[i] = old[i]) /\ t[Len(old) + 1] = e
  BY <1>2, <1>3, <1>5, <1>6, <1>7
<1>9. e \in S
  BY DEF S
<1>10. t = Append(old, e)
  BY <1>6, <1>7, <1>8, <1>9, SeqPut
<1> QED
  BY <1>4, <1>10 DEF Queue!Put, old

\* input_pop_event is the Take of the abstract queue.
LEMMA PopIsTake ==
  ASSUME TypeOK, PopEvent
  PROVE  Queue!Take
<1> DEFINE S == Events \cup {NoEvent}
           t == [i \in 1 .. Count - 1 |-> Item(i)']
<1>1. Items \in Seq(S) /\ Len(Items) = Count /\ \A i \in 1 .. Count : Items[i] = Item(i)
  BY ItemsFacts
<1>2. Count > 0 /\ Count' = Count - 1 /\ \A i \in 1 .. Count - 1 : Item(i)' = Item(i + 1)
  BY TakeView DEF PopEvent
<1>3. Count \in Nat /\ \A i \in 1 .. Count : Item(i) \in S
  BY RingTypes, CapacityFacts
<1>4. Items' = t
  BY <1>2 DEF Items, Item, Count
<1>5. \A i \in 1 .. Count - 1 : i + 1 \in 1 .. Count
  BY <1>3
<1>6. t \in Seq(S) /\ Len(t) = Count - 1 /\ \A i \in 1 .. Count - 1 : t[i] = Item(i + 1)
  <2>1. \A i \in 1 .. Count - 1 : t[i] = Item(i + 1) /\ t[i] \in S
    BY <1>2, <1>3, <1>5
  <2>2. Count - 1 \in Nat
    BY <1>2, <1>3
  <2> QED
    BY <2>1, <2>2
<1> HIDE DEF t, S
<1>7. Items # << >> /\ t = Tail(Items)
  BY <1>1, <1>2, <1>3, <1>5, <1>6, SeqTake
<1> QED
  BY <1>4, <1>7 DEF Queue!Take

----------------------------------------------------------------------------
(* The buffers: every action keeps BInv *)

LEMMA InitBInv == Init => BInv
<1> SUFFICES ASSUME Init PROVE BInv
  OBVIOUS
<1> DEFINE z == [d \in Descs |-> 0]
           a == [d \in Descs |-> d]
           e == [d \in Descs |-> [id |-> 0, len |-> 0]]
<1>1. q = [next |-> z, free_head |-> 0, num_free |-> 0, last_used |-> 0,
           avail_idx |-> Size, avail |-> a, used_idx |-> 0, used |-> e]
  BY DEF Init, DriverInit, QueueInit
<1>2. /\ z \in [Descs -> Descs] /\ a \in [Descs -> Descs] /\ e \in [Descs -> UsedElems]
      /\ 0 \in Descs /\ 0 \in Indices /\ Size \in Indices /\ 0 \in 0 .. Size
  BY ZeroDesc, QueueFacts DEF UsedElems, Indices
<1>3. \A d \in Descs : a[d] = d
  OBVIOUS
<1> HIDE DEF z, a, e
<1>4. q \in Queues
  BY <1>1, <1>2 DEF Queues
<1>5. TypeOK
  <2>1. 0 \in Slots /\ MaxEvents \in Nat
    BY CapacityFacts, InputAssumption DEF Slots
  <2>2. << >> \in Seq(1 .. MaxEvents)
    OBVIOUS
  <2>3. {"serial"} \in (SUBSET Sources) \ {{}}
    BY DEF Sources
  <2> QED
    BY <1>2, <1>4, <2>1, <2>2, <2>3 DEF Init, DriverInit, LayerInit, TypeOK, NoChar
<1>6. Given = Size /\ Ready = 0
  <2>1. Between(0, Size) = Size /\ Between(0, 0) = 0
    BY <1>2, QueueFacts, ModDifference, BetweenType DEF Between, Indices
  <2> QED
    BY <1>1, <2>1 DEF Init, Given, Ready
<1>7. Counts
  BY <1>6, QueueFacts DEF Init, DriverInit, Counts
<1>8. ASSUME NEW i \in 0 .. Size - 1 PROVE GivenAt(i) = i
  <2>1. (0 + i) % Size = i
    BY QueueFacts, ModSmall
  <2>2. i \in Descs
    BY DEF Descs
  <2> QED
    BY <1>1, <1>3, <2>1, <2>2 DEF Init, GivenAt
<1>9. InHand = {}
  BY DEF Init, DriverInit, InHand
<1>10. 0 .. Ready - 1 = {} /\ 0 .. Given - 1 = 0 .. Size - 1 /\ Descs = 0 .. Size - 1
  BY <1>6 DEF Descs
<1>11. Places
  BY <1>8, <1>9, <1>10 DEF Places
<1> QED
  BY <1>5, <1>7, <1>11 DEF BInv

\* What input_push_event leaves of the right type.
LEMMA PushType ==
  ASSUME TypeOK, NEW e \in Events, PushEvent(e)
  PROVE  /\ head' \in Slots /\ tail' \in Slots /\ lost' \in BOOLEAN
         /\ ring' \in [Slots -> Events \cup {NoEvent}]
<1>1. head' \in Slots /\ tail' \in Slots
  BY PushView
<1>2. ring' \in [Slots -> Events \cup {NoEvent}]
  <2>1. ring \in [Slots -> Events \cup {NoEvent}] /\ e \in Events \cup {NoEvent}
    BY DEF TypeOK
  <2> QED
    BY <2>1, UpdateType DEF PushEvent
<1>3. lost' \in BOOLEAN
  BY DEF PushEvent
<1> QED
  BY <1>1, <1>2, <1>3

LEMMA PollSerialBInv ==
  ASSUME BInv, PollSerial
  PROVE  BInv'
<1>1. TypeOK /\ Counts /\ Places
  BY DEF BInv
<1>2. UNCHANGED <<q, events, devAvail, held, mode, shift, cur, out, sent, taken>>
      /\ pc = "read" /\ pc' \in {"poll", "read"}
  BY DEF PollSerial
<1>3. /\ head' \in Slots /\ tail' \in Slots /\ lost' \in BOOLEAN
      /\ ring' \in [Slots -> Events \cup {NoEvent}] /\ uart' \in Seq(1 .. MaxEvents)
  <2>1. CASE "serial" \in mode /\ uart # << >>
    <3>1. uart \in Seq(1 .. MaxEvents) /\ uart # << >>
      BY <1>1, <2>1 DEF TypeOK
    <3>2. Head(uart) \in 1 .. MaxEvents /\ Tail(uart) \in Seq(1 .. MaxEvents)
      BY <3>1, HeadTailProperties
    <3>3. SerialEvent(Head(uart)) \in Events
      BY <3>2 DEF SerialEvent, Events
    <3> QED
      BY <1>1, <2>1, <3>2, <3>3, PushType DEF PollSerial
  <2>2. CASE ~("serial" \in mode /\ uart # << >>)
    BY <1>1, <2>2 DEF PollSerial, TypeOK
  <2> QED
    BY <2>1, <2>2
<1>4. TypeOK'
  BY <1>1, <1>2, <1>3 DEF TypeOK
<1>5. Counts' /\ Places'
  BY <1>1, <1>2, PlacesKept
<1> QED
  BY <1>4, <1>5 DEF BInv

LEMMA PollPopBInv ==
  ASSUME BInv, PollPop
  PROVE  BInv'
<1>1. TypeOK /\ Counts /\ Places
  BY DEF BInv
<1>2. Ready # 0
  BY DEF PollPop, Pending, Ready, Between
<1>3. q' \in Queues /\ cur' = ReadyAt(0)
  BY <1>1, <1>2, PopView DEF PollPop, device
<1>4. cur' \in Descs
  BY <1>1, <1>3, WindowTypes
<1>5. TypeOK'
  BY <1>1, <1>3, <1>4 DEF TypeOK, PollPop, device
<1>6. Counts' /\ Places'
  BY <1>1, <1>2, <1>3, PopPlaces DEF PollPop, device
<1> QED
  BY <1>5, <1>6 DEF BInv

LEMMA PollHandleBInv ==
  ASSUME BInv, PollHandle
  PROVE  BInv'
<1>1. TypeOK /\ Counts /\ Places
  BY DEF BInv
<1>2. UNCHANGED <<q, events, devAvail, held, uart, sent, mode, shift, cur, out, taken>>
      /\ pc = "handle" /\ pc' = "submit"
  BY DEF PollHandle, device
<1>3. /\ head' \in Slots /\ tail' \in Slots /\ lost' \in BOOLEAN
      /\ ring' \in [Slots -> Events \cup {NoEvent}]
  <2>1. CASE events[cur].source = "keyboard"
    <3>1. events[cur] \in Events \cup {NoEvent} /\ events[cur] # NoEvent
      BY <1>1, <2>1, EventFacts DEF TypeOK, IsKey
    <3> QED
      BY <1>1, <2>1, <3>1, PushType DEF PollHandle
  <2>2. CASE events[cur].source # "keyboard"
    BY <1>1, <2>2 DEF PollHandle, TypeOK
  <2> QED
    BY <2>1, <2>2
<1>4. TypeOK'
  BY <1>1, <1>2, <1>3 DEF TypeOK
<1>5. Counts' /\ Places'
  BY <1>1, <1>2, PlacesKept
<1> QED
  BY <1>4, <1>5 DEF BInv

LEMMA PollSubmitBInv ==
  ASSUME BInv, PollSubmit
  PROVE  BInv'
<1>1. TypeOK /\ Counts /\ Places
  BY DEF BInv
<1>2. Given < Size /\ Counts' /\ Places'
  BY <1>1, SubmitPlaces DEF PollSubmit, device
<1>3. q' \in Queues
  BY <1>1, <1>2, SubmitView DEF PollSubmit, device
<1>4. TypeOK'
  BY <1>1, <1>3 DEF TypeOK, PollSubmit, device
<1> QED
  BY <1>2, <1>4 DEF BInv

LEMMA PollDoneBInv ==
  ASSUME BInv, PollDone
  PROVE  BInv'
<1>1. TypeOK /\ Counts /\ Places
  BY DEF BInv
<1>2. TypeOK'
  BY <1>1 DEF TypeOK, PollDone, device
<1>3. Counts' /\ Places'
  BY <1>1, PlacesKept DEF PollDone, device
<1> QED
  BY <1>2, <1>3 DEF BInv

LEMMA PopEventBInv ==
  ASSUME BInv, PopEvent
  PROVE  BInv'
<1>1. TypeOK /\ Counts /\ Places
  BY DEF BInv
<1>2. UNCHANGED <<q, events, devAvail, held, uart, sent, ring, tail, mode, pc, cur>>
  BY DEF PopEvent, device
<1>3. head' \in Slots
  BY <1>1, TakeView DEF PopEvent
<1> DEFINE e == ring[head]
<1>4. e \in Events \cup {NoEvent}
  BY <1>1 DEF TypeOK
<1>5. /\ shift' = IF Allowed(e) THEN ShiftAfter(e) ELSE shift
      /\ lost' = (lost \/ (~Allowed(e) /\ IsShift(e)))
      /\ out' = IF GivesChar(e) THEN CharOf(e) ELSE out
      /\ taken' = IF e.source = "keyboard" THEN e.seq ELSE taken
  BY DEF PopEvent
<1> HIDE DEF e
<1>6. shift' \in BOOLEAN
  BY <1>1, <1>5 DEF ShiftAfter, TypeOK
<1>7. taken' \in 0 .. MaxEvents
  BY <1>1, <1>4, <1>5, EventFacts, InputAssumption DEF TypeOK, IsKey
<1>8. out' \in [upper : BOOLEAN, typed : BOOLEAN]
  <2>1. CASE GivesChar(e)
    <3>1. e \in Events /\ e.shifted \in BOOLEAN
      BY <1>4, <2>1, EventFacts DEF GivesChar, IsKey
    <3> QED
      BY <1>1, <1>5, <2>1, <3>1 DEF CharOf, TypeOK
  <2> QED
    BY <1>1, <1>5, <2>1 DEF TypeOK
<1>9. lost' \in BOOLEAN
  BY <1>5
<1>10. TypeOK'
  BY <1>1, <1>2, <1>3, <1>6, <1>7, <1>8, <1>9 DEF TypeOK
<1>11. Counts' /\ Places'
  BY <1>1, <1>2, PlacesKept
<1> QED
  BY <1>10, <1>11 DEF BInv

LEMMA SetModeBInv ==
  ASSUME BInv, NEW m \in SUBSET Sources, SetMode(m)
  PROVE  BInv'
<1>1. TypeOK /\ Counts /\ Places
  BY DEF BInv
<1>2. mode' \in (SUBSET Sources) \ {{}}
  BY DEF SetMode, Sources
<1>3. TypeOK'
  BY <1>1, <1>2 DEF TypeOK, SetMode, device
<1>4. Counts' /\ Places'
  BY <1>1, PlacesKept DEF SetMode, device
<1> QED
  BY <1>3, <1>4 DEF BInv

LEMMA SendBInv ==
  ASSUME BInv, NEW e \in Events, NEW b \in BOOLEAN, DeviceSend(e, b), held' \subseteq Keys
  PROVE  BInv'
<1>1. TypeOK /\ Counts /\ Places
  BY DEF BInv
<1>2. UNCHANGED <<uart, ring, head, tail, mode, shift, pc, cur, out, taken>>
      /\ sent < MaxEvents /\ sent' = sent + 1
  BY DEF DeviceSend
<1>3. sent' \in 0 .. MaxEvents
  BY <1>1, <1>2, InputAssumption DEF TypeOK
<1>4. CASE devAvail # q.avail_idx
  <2> DEFINE d == q.avail[devAvail % Size]
  <2>1. /\ events' = [events EXCEPT ![d] = e]
        /\ q' = AfterDeviceUse(q, d, 1)
        /\ devAvail' = (devAvail + 1) % IdxMod
        /\ lost' = (lost \/ b)
    BY <1>4 DEF DeviceSend
  <2>2. Counts' /\ Places'
    BY <1>1, <1>2, <1>4, <2>1, SendPlaces
  <2>3. q' \in Queues /\ devAvail' \in Indices
    BY <1>1, <1>4, <2>1, SendView
  <2>4. events' \in [Descs -> Events \cup {NoEvent}]
    <3>1. events \in [Descs -> Events \cup {NoEvent}] /\ e \in Events \cup {NoEvent}
      BY <1>1 DEF TypeOK
    <3> QED
      BY <2>1, <3>1, UpdateType
  <2>5. lost' \in BOOLEAN
    BY <2>1
  <2>6. TypeOK'
    BY <1>1, <1>2, <1>3, <2>3, <2>4, <2>5 DEF TypeOK
  <2> QED
    BY <2>2, <2>6 DEF BInv
<1>5. CASE devAvail = q.avail_idx
  <2>1. UNCHANGED <<events, q, devAvail>> /\ lost' \in BOOLEAN
    BY <1>5 DEF DeviceSend
  <2>2. TypeOK'
    BY <1>1, <1>2, <1>3, <2>1 DEF TypeOK
  <2>3. Counts' /\ Places'
    BY <1>1, <1>2, <2>1, PlacesKept
  <2> QED
    BY <2>2, <2>3 DEF BInv
<1> QED
  BY <1>4, <1>5

\* The event of a key, with the number and the shift state it is sent with.
KeyEvent(k, p) ==
  [source |-> "keyboard", key |-> k, pressed |-> p, seq |-> sent + 1,
   shifted |-> held \cap ShiftKeys # {}]

LEMMA KeyEventType ==
  ASSUME TypeOK, sent < MaxEvents, NEW k \in Keys, NEW p \in {"press", "repeat", "release"}
  PROVE  /\ KeyEvent(k, p) \in Events
         /\ [source |-> "motion", seq |-> sent + 1] \in Events
<1>1. sent + 1 \in 1 .. MaxEvents
  BY InputAssumption DEF TypeOK
<1>2. (held \cap ShiftKeys # {}) \in BOOLEAN
  OBVIOUS
<1> QED
  BY <1>1, <1>2 DEF KeyEvent, Events

LEMMA DeviceBInv ==
  ASSUME BInv, Device
  PROVE  BInv'
<1>1. TypeOK /\ Counts /\ Places
  BY DEF BInv
<1>2. ASSUME NEW k \in Keys, NEW p \in {"press", "repeat", "release"}, DeviceKey(k, p)
      PROVE  BInv'
  <2>1. held' \subseteq Keys
    BY <1>1, <1>2 DEF DeviceKey, TypeOK
  <2>2. DeviceSend(KeyEvent(k, p), k \in ShiftKeys /\ p = "release" /\ held' \cap ShiftKeys # {})
    BY <1>2 DEF DeviceKey, KeyEvent
  <2>3. KeyEvent(k, p) \in Events
    BY <1>1, <2>2, KeyEventType DEF DeviceSend
  <2>4. (k \in ShiftKeys /\ p = "release" /\ held' \cap ShiftKeys # {}) \in BOOLEAN
    OBVIOUS
  <2> QED
    BY <2>1, <2>2, <2>3, <2>4, SendBInv
<1>3. CASE DeviceOther
  <2>1. DeviceSend([source |-> "motion", seq |-> sent + 1], FALSE) /\ held' \subseteq Keys
    BY <1>1, <1>3 DEF DeviceOther, TypeOK
  <2>2. [source |-> "motion", seq |-> sent + 1] \in Events
    BY <1>1, <2>1, KeyEventType, Letter \in Keys, "press" \in {"press", "repeat", "release"}
       DEF DeviceSend, Keys
  <2> QED
    BY <2>1, <2>2, FALSE \in BOOLEAN, SendBInv
<1>4. CASE SerialArrives
  <2>1. sent + 1 \in 1 .. MaxEvents /\ sent' = sent + 1 /\ uart' = Append(uart, sent + 1)
    BY <1>1, <1>4, InputAssumption DEF SerialArrives, TypeOK
  <2>2. uart' \in Seq(1 .. MaxEvents)
    BY <1>1, <2>1, AppendProperties DEF TypeOK
  <2>3. sent' \in 0 .. MaxEvents
    BY <2>1, InputAssumption
  <2>4. TypeOK'
    BY <1>1, <1>4, <2>2, <2>3 DEF SerialArrives, TypeOK
  <2>5. Counts' /\ Places'
    BY <1>1, <1>4, PlacesKept DEF SerialArrives
  <2> QED
    BY <2>4, <2>5 DEF BInv
<1> QED
  BY <1>2, <1>3, <1>4 DEF Device

----------------------------------------------------------------------------
(* The order of the events: every action keeps OInv *)

LEMMA SeqTypes ==
  ASSUME TypeOK
  PROVE  /\ \A i \in 1 .. Count : IsKey(Item(i)) => Item(i) \in Events /\ Item(i).seq \in Nat
         /\ \A i \in 0 .. Ready - 1 : Waiting(i) \in Events => Waiting(i).seq \in Nat
         /\ events[cur] \in Events => events[cur].seq \in Nat
         /\ IsKey(events[cur]) => events[cur] \in Events
         /\ sent \in Nat /\ taken \in Nat /\ Ready \in Nat /\ Given \in Nat /\ Count \in Nat
<1>1. \A e \in Events : e.seq \in Nat
  BY EventFacts, InputAssumption
<1>2. \A e \in Events \cup {NoEvent} : IsKey(e) => e \in Events /\ e.seq \in Nat
  BY <1>1, EventFacts
<1>3. \A i \in 1 .. Count : Item(i) \in Events \cup {NoEvent}
  BY RingTypes
<1>4. events[cur] \in Events \cup {NoEvent}
  BY DEF TypeOK
<1>5. sent \in Nat /\ taken \in Nat /\ Ready \in Nat /\ Given \in Nat /\ Count \in Nat
  BY WindowTypes, RingTypes, QueueFacts, CapacityFacts, InputAssumption DEF TypeOK
<1> QED
  BY <1>1, <1>2, <1>3, <1>4, <1>5

LEMMA QueueSame ==
  ASSUME UNCHANGED <<q, events>>
  PROVE  Ready' = Ready /\ \A i : Waiting(i)' = Waiting(i)
BY DEF Ready, Waiting, ReadyAt

LEMMA RingSame ==
  ASSUME UNCHANGED <<ring, head, tail>>
  PROVE  Count' = Count /\ \A i : Item(i)' = Item(i)
BY DEF Count, Item

\* An event may enter the ring when it is younger than the key events there and
\* older than the waiting ones.
LEMMA PushOrder ==
  ASSUME TypeOK, Order, NEW e \in Events, PushEvent(e), UNCHANGED <<q, events, taken, sent>>,
         pc' # "handle",
         IsKey(e) => /\ taken < e.seq /\ e.seq <= sent
                     /\ \A i \in 1 .. Count : IsKey(Item(i)) => Item(i).seq < e.seq
                     /\ \A j \in 0 .. Ready - 1 : e.seq < Waiting(j).seq
  PROVE  Order'
<1>1. Ready' = Ready /\ \A i : Waiting(i)' = Waiting(i)
  BY QueueSame
<1>2. /\ Dropped \in 0 .. 1 /\ Dropped <= Count /\ Count' = Count + 1 - Dropped
      /\ \A i \in 1 .. Count - Dropped : Item(i)' = Item(i + Dropped)
      /\ \A i : i = Count + 1 - Dropped => Item(i)' = e
  BY PushView
<1>3. Count \in Nat
  BY SeqTypes
<1>4. ASSUME NEW i \in 1 .. Count'
      PROVE  \/ i + Dropped \in 1 .. Count /\ Item(i)' = Item(i + Dropped)
             \/ i = Count' /\ Item(i)' = e
  BY <1>2, <1>3
<1>5. ASSUME NEW i \in 1 .. Count', IsKey(Item(i)')
      PROVE  /\ taken < Item(i)'.seq /\ Item(i)'.seq <= sent
             /\ \A j \in 0 .. Ready - 1 : Item(i)'.seq < Waiting(j).seq
  BY <1>4, <1>5 DEF Order, RingOrder
<1>6. ASSUME NEW i \in 1 .. Count', NEW j \in 1 .. Count', IsKey(Item(i)'), IsKey(Item(j)'), i < j
      PROVE  Item(i)'.seq < Item(j)'.seq
  <2>1. i + Dropped \in 1 .. Count /\ Item(i)' = Item(i + Dropped)
    BY <1>2, <1>3, <1>4, <1>6
  <2>2. CASE j + Dropped \in 1 .. Count /\ Item(j)' = Item(j + Dropped)
    <3>1. i + Dropped < j + Dropped
      BY <1>2, <1>3, <1>6
    <3> QED
      BY <1>6, <2>1, <2>2, <3>1 DEF Order, RingOrder
  <2>3. CASE Item(j)' = e
    BY <1>6, <2>1, <2>3
  <2> QED
    BY <1>4, <2>2, <2>3
<1>7. RingOrder'
  BY <1>1, <1>5, <1>6 DEF RingOrder
<1> QED
  BY <1>1, <1>7 DEF Order, WaitingOrder, HandOrder

LEMMA PollSerialOrder ==
  ASSUME BInv, Order, PollSerial
  PROVE  Order'
<1>1. TypeOK /\ UNCHANGED <<q, events, taken, sent>> /\ pc # "handle" /\ pc' # "handle"
  BY DEF BInv, PollSerial
<1>2. CASE "serial" \in mode /\ uart # << >>
  <2>1. Head(uart) \in 1 .. MaxEvents
    <3>1. uart \in Seq(1 .. MaxEvents) /\ uart # << >>
      BY <1>1, <1>2 DEF TypeOK
    <3> QED
      BY <3>1, HeadTailProperties
  <2>2. SerialEvent(Head(uart)) \in Events /\ ~IsKey(SerialEvent(Head(uart)))
    BY <2>1 DEF SerialEvent, Events, IsKey
  <2>3. PushEvent(SerialEvent(Head(uart)))
    BY <1>2 DEF PollSerial
  <2> QED
    BY <1>1, <2>2, <2>3, PushOrder
<1>3. CASE ~("serial" \in mode /\ uart # << >>)
  <2>1. UNCHANGED <<ring, head, tail>>
    BY <1>3 DEF PollSerial
  <2> QED
    BY <1>1, <2>1, QueueSame, RingSame DEF Order, WaitingOrder, HandOrder, RingOrder
<1> QED
  BY <1>2, <1>3

LEMMA PollPopOrder ==
  ASSUME BInv, Order, PollPop
  PROVE  Order'
<1>1. /\ TypeOK /\ UNCHANGED <<events, taken, sent, ring, head, tail>>
      /\ pc = "poll" /\ pc' = "handle" /\ Ready # 0
  BY DEF BInv, PollPop, device, Pending, Ready, Between
<1>2. /\ Ready' = Ready - 1 /\ cur' = ReadyAt(0)
      /\ \A i \in 0 .. Ready - 2 : ReadyAt(i)' = ReadyAt(i + 1)
  BY <1>1, PopView DEF PollPop, device
<1>3. Ready \in Nat
  BY <1>1, SeqTypes
<1>4. ASSUME NEW i \in 0 .. Ready' - 1
      PROVE  i + 1 \in 0 .. Ready - 1 /\ 0 < i + 1 /\ Waiting(i)' = Waiting(i + 1)
  BY <1>1, <1>2, <1>3 DEF Waiting
<1>5. events'[cur'] = Waiting(0) /\ 0 \in 0 .. Ready - 1
  BY <1>1, <1>2, <1>3 DEF Waiting
<1>6. Count' = Count /\ \A i : Item(i)' = Item(i)
  BY <1>1, RingSame
<1>7. WaitingOrder'
  <2>1. \A i \in 0 .. Ready' - 1 : /\ Waiting(i)' \in Events
                                   /\ taken < Waiting(i)'.seq /\ Waiting(i)'.seq <= sent
    BY <1>4 DEF Order, WaitingOrder
  <2>2. ASSUME NEW i \in 0 .. Ready' - 1, NEW j \in 0 .. Ready' - 1, i < j
        PROVE  Waiting(i)'.seq < Waiting(j)'.seq
    <3>1. i + 1 < j + 1
      BY <1>2, <1>3, <2>2
    <3> QED
      BY <1>4, <3>1 DEF Order, WaitingOrder
  <2> QED
    BY <1>1, <2>1, <2>2 DEF WaitingOrder
<1>8. HandOrder'
  <2>1. \A i \in 0 .. Ready' - 1 : Waiting(0).seq < Waiting(i)'.seq
    BY <1>4, <1>5 DEF Order, WaitingOrder
  <2>2. Waiting(0) \in Events /\ taken < Waiting(0).seq /\ Waiting(0).seq <= sent
    BY <1>5 DEF Order, WaitingOrder
  <2> QED
    BY <1>1, <1>5, <2>1, <2>2 DEF HandOrder
<1>9. RingOrder'
  <2>1. ASSUME NEW i \in 1 .. Count, IsKey(Item(i))
        PROVE  /\ \A j \in 0 .. Ready' - 1 : Item(i).seq < Waiting(j)'.seq
               /\ Item(i).seq < events'[cur'].seq
    BY <1>4, <1>5, <2>1 DEF Order, RingOrder
  <2> QED
    BY <1>1, <1>6, <2>1 DEF Order, RingOrder
<1> QED
  BY <1>1, <1>7, <1>8, <1>9 DEF Order

LEMMA PollHandleOrder ==
  ASSUME BInv, Order, PollHandle
  PROVE  Order'
<1>1. TypeOK /\ UNCHANGED <<q, events, taken, sent>> /\ pc = "handle" /\ pc' = "submit"
  BY DEF BInv, PollHandle, device
<1>2. CASE events[cur].source = "keyboard"
  <2>1. PushEvent(events[cur])
    BY <1>2 DEF PollHandle
  <2>2. /\ events[cur] \in Events /\ taken < events[cur].seq /\ events[cur].seq <= sent
        /\ \A j \in 0 .. Ready - 1 : events[cur].seq < Waiting(j).seq
        /\ \A i \in 1 .. Count : IsKey(Item(i)) => Item(i).seq < events[cur].seq
    BY <1>1 DEF Order, HandOrder, RingOrder
  <2> QED
    BY <1>1, <2>1, <2>2, PushOrder
<1>3. CASE events[cur].source # "keyboard"
  <2>1. UNCHANGED <<ring, head, tail>>
    BY <1>3 DEF PollHandle
  <2> QED
    BY <1>1, <2>1, QueueSame, RingSame DEF Order, WaitingOrder, HandOrder, RingOrder
<1> QED
  BY <1>2, <1>3

LEMMA PollSubmitOrder ==
  ASSUME BInv, Order, PollSubmit
  PROVE  Order'
<1>1. /\ TypeOK /\ Counts /\ Places
      /\ UNCHANGED <<events, taken, sent, ring, head, tail>> /\ pc' = "poll"
  BY DEF BInv, PollSubmit, device
<1>2. Given < Size
  BY <1>1, SubmitPlaces DEF PollSubmit, device
<1>3. Ready' = Ready /\ \A i \in 0 .. Ready - 1 : Waiting(i)' = Waiting(i)
  BY <1>1, <1>2, SubmitView DEF PollSubmit, device, Waiting
<1> QED
  BY <1>1, <1>3, RingSame DEF Order, WaitingOrder, HandOrder, RingOrder

LEMMA PopEventOrder ==
  ASSUME BInv, Order, PopEvent
  PROVE  Order'
<1>1. /\ TypeOK /\ UNCHANGED <<q, events, sent, pc, cur>> /\ pc = "read"
      /\ taken' = IF ring[head].source = "keyboard" THEN ring[head].seq ELSE taken
  BY DEF BInv, PopEvent, device
<1>2. Count > 0 /\ Count' = Count - 1 /\ \A i \in 1 .. Count - 1 : Item(i)' = Item(i + 1)
  BY <1>1, TakeView DEF PopEvent
<1>3. ring[head] = Item(1) /\ Count \in Nat /\ 1 \in 1 .. Count
  BY <1>1, <1>2, RingTypes, SeqTypes
<1>4. taken' = IF IsKey(Item(1)) THEN Item(1).seq ELSE taken
  BY <1>1, <1>3 DEF IsKey
<1>5. ASSUME NEW i \in 1 .. Count'
      PROVE  i + 1 \in 1 .. Count /\ 1 < i + 1 /\ Item(i)' = Item(i + 1)
  BY <1>2, <1>3
<1>6. Ready' = Ready /\ \A i : Waiting(i)' = Waiting(i)
  BY <1>1, QueueSame
<1>7. taken' <= sent
  BY <1>3, <1>4 DEF Order, RingOrder
<1>8. WaitingOrder'
  BY <1>1, <1>3, <1>4, <1>6 DEF Order, WaitingOrder, RingOrder
<1>9. RingOrder'
  <2>1. ASSUME NEW i \in 1 .. Count', IsKey(Item(i)')
        PROVE  /\ taken' < Item(i)'.seq /\ Item(i)'.seq <= sent
               /\ \A j \in 0 .. Ready - 1 : Item(i)'.seq < Waiting(j).seq
    BY <1>3, <1>4, <1>5, <2>1 DEF Order, RingOrder
  <2>2. ASSUME NEW i \in 1 .. Count', NEW j \in 1 .. Count', i < j,
               IsKey(Item(i)'), IsKey(Item(j)')
        PROVE  Item(i)'.seq < Item(j)'.seq
    <3>1. i + 1 < j + 1
      BY <1>2, <1>3, <2>2
    <3> QED
      BY <1>5, <2>2, <3>1 DEF Order, RingOrder
  <2> QED
    BY <1>1, <1>6, <2>1, <2>2 DEF RingOrder
<1> QED
  BY <1>1, <1>7, <1>8, <1>9 DEF Order, HandOrder

\* What a sent event does to the filled buffers.
LEMMA SendWaiting ==
  ASSUME BInv, NEW e, devAvail # q.avail_idx,
         events' = [events EXCEPT ![q.avail[devAvail % Size]] = e],
         q' = AfterDeviceUse(q, q.avail[devAvail % Size], 1),
         devAvail' = (devAvail + 1) % IdxMod, UNCHANGED <<pc, cur>>
  PROVE  /\ Ready' = Ready + 1
         /\ \A i \in 0 .. Ready : Waiting(i)' = IF i < Ready THEN Waiting(i) ELSE e
         /\ pc = "handle" => events'[cur'] = events[cur]
<1>1. TypeOK /\ Counts /\ Places /\ events \in [Descs -> Events \cup {NoEvent}] /\ cur \in Descs
  BY DEF BInv, TypeOK
<1>2. /\ q.avail[devAvail % Size] = GivenAt(0)
      /\ Given > 0 /\ Ready' = Ready + 1
      /\ \A i \in 0 .. Ready : ReadyAt(i)' = IF i < Ready THEN ReadyAt(i) ELSE GivenAt(0)
  BY <1>1, SendView
<1>3. Given \in Nat /\ Ready \in Nat /\ 0 \in 0 .. Given - 1
  BY <1>1, <1>2, SeqTypes
<1>4. GivenAt(0) \in Descs /\ \A i \in 0 .. Ready - 1 : ReadyAt(i) \in Descs
  BY <1>1, WindowTypes
<1>5. \A i \in 0 .. Ready - 1 : ReadyAt(i) # GivenAt(0)
  BY <1>1, <1>3 DEF Places
<1>6. ASSUME NEW i \in 0 .. Ready PROVE Waiting(i)' = IF i < Ready THEN Waiting(i) ELSE e
  <2>1. CASE i < Ready
    <3>1. ReadyAt(i)' = ReadyAt(i) /\ ReadyAt(i) \in Descs /\ ReadyAt(i) # GivenAt(0)
      BY <1>2, <1>3, <1>4, <1>5, <2>1
    <3> QED
      BY <1>1, <1>2, <2>1, <3>1 DEF Waiting
  <2>2. CASE ~(i < Ready)
    <3>1. ReadyAt(i)' = GivenAt(0)
      BY <1>2, <2>2
    <3> QED
      BY <1>1, <1>2, <1>4, <2>2, <3>1 DEF Waiting
  <2> QED
    BY <2>1, <2>2
<1>7. pc = "handle" => events'[cur'] = events[cur]
  <2>1. SUFFICES ASSUME pc = "handle" PROVE events'[cur'] = events[cur]
    OBVIOUS
  <2>2. GivenAt(0) # cur
    BY <1>1, <1>3, <2>1 DEF Places, InHand
  <2> QED
    BY <1>1, <1>2, <2>2
<1> QED
  BY <1>2, <1>6, <1>7

LEMMA SendOrder ==
  ASSUME BInv, Order, NEW e \in Events, NEW b, DeviceSend(e, b), e.seq = sent + 1
  PROVE  Order'
<1>1. /\ TypeOK /\ UNCHANGED <<ring, head, tail, pc, cur, taken>> /\ sent' = sent + 1
  BY DEF BInv, DeviceSend
<1>2. /\ sent \in Nat /\ taken \in Nat /\ Ready \in Nat /\ taken <= sent
      /\ \A i \in 1 .. Count : IsKey(Item(i)) => Item(i).seq \in Nat
      /\ \A i \in 0 .. Ready - 1 : Waiting(i).seq \in Nat
  BY <1>1, SeqTypes DEF Order, WaitingOrder
<1>3. Count' = Count /\ \A i : Item(i)' = Item(i)
  BY <1>1, RingSame
<1>4. pc = "handle" => events[cur].seq \in Nat /\ events[cur].seq <= sent /\ events[cur] \in Events
  BY <1>1, SeqTypes DEF Order, HandOrder
<1>5. CASE devAvail = q.avail_idx
  <2>1. UNCHANGED <<events, q>>
    BY <1>5 DEF DeviceSend
  <2>2. Ready' = Ready /\ \A i : Waiting(i)' = Waiting(i)
    BY <2>1, QueueSame
  <2> QED
    BY <1>1, <1>2, <1>3, <1>4, <2>1, <2>2 DEF Order, WaitingOrder, HandOrder, RingOrder
<1>6. CASE devAvail # q.avail_idx
  <2>1. /\ Ready' = Ready + 1
        /\ \A i \in 0 .. Ready : Waiting(i)' = IF i < Ready THEN Waiting(i) ELSE e
        /\ pc = "handle" => events'[cur'] = events[cur]
    BY <1>1, <1>6, SendWaiting DEF DeviceSend
  <2>2. ASSUME NEW i \in 0 .. Ready' - 1
        PROVE  \/ i \in 0 .. Ready - 1 /\ Waiting(i)' = Waiting(i)
               \/ i = Ready /\ Waiting(i)' = e
    BY <1>2, <2>1
  <2>3. WaitingOrder'
    <3>1. \A i \in 0 .. Ready' - 1 : /\ Waiting(i)' \in Events
                                     /\ taken < Waiting(i)'.seq /\ Waiting(i)'.seq <= sent + 1
      BY <1>2, <2>2 DEF Order, WaitingOrder
    <3>2. ASSUME NEW i \in 0 .. Ready' - 1, NEW j \in 0 .. Ready' - 1, i < j
          PROVE  Waiting(i)'.seq < Waiting(j)'.seq
      <4>1. i \in 0 .. Ready - 1 /\ Waiting(i)' = Waiting(i) /\ Waiting(i).seq < sent + 1
        BY <1>2, <2>1, <2>2, <3>2 DEF Order, WaitingOrder
      <4> QED
        BY <2>2, <3>2, <4>1 DEF Order, WaitingOrder
    <3> QED
      BY <1>1, <3>1, <3>2 DEF WaitingOrder
  <2>4. HandOrder'
    <3>1. SUFFICES ASSUME pc = "handle" PROVE HandOrder'
      BY <1>1 DEF HandOrder
    <3>2. \A i \in 0 .. Ready' - 1 : events[cur].seq < Waiting(i)'.seq
      BY <1>2, <1>4, <2>2, <3>1 DEF Order, HandOrder
    <3> QED
      BY <1>1, <1>2, <1>4, <2>1, <3>1, <3>2 DEF Order, HandOrder
  <2>5. RingOrder'
    <3>1. ASSUME NEW i \in 1 .. Count, IsKey(Item(i))
          PROVE  Item(i).seq <= sent + 1 /\ \A j \in 0 .. Ready' - 1 : Item(i).seq < Waiting(j)'.seq
      BY <1>2, <2>2, <3>1 DEF Order, RingOrder
    <3> QED
      BY <1>1, <1>3, <2>1, <3>1 DEF Order, RingOrder
  <2> QED
    BY <1>1, <1>2, <2>3, <2>4, <2>5 DEF Order
<1> QED
  BY <1>5, <1>6

----------------------------------------------------------------------------
(* The shift state: every action keeps IInv *)

\* Events of other keys may go.
LEMMA TracksFewer ==
  ASSUME NEW K, NEW L \in SUBSET K, NEW s, NEW v, Tracks(K, s, v), Shifts(L) = Shifts(K)
  PROVE  Tracks(L, s, v)
BY DEF Tracks

\* The reader takes over what the oldest event, of a shift key, says.
LEMMA TracksTake ==
  ASSUME NEW K, NEW s, NEW v, NEW f \in K, f.key \in ShiftKeys,
         \A e \in K : e.seq \in Nat, \A e \in K \ {f} : f.seq < e.seq, Tracks(K, s, v)
  PROVE  Tracks(K \ {f}, f.pressed # "release", v)
<1> DEFINE r == (f.pressed # "release")
<1>1. Shifts(K \ {f}) = Shifts(K) \ {f} /\ f \in Shifts(K)
  BY DEF Shifts
<1>2. ASSUME NEW S \in SUBSET K, f \in S, NEW w, Says(S, s, w)
      PROVE  Says(S \ {f}, r, w)
  <2>1. S \ {f} = {} => w = r
    BY <1>2 DEF Says
  <2>2. ASSUME NEW g \in S \ {f}, \A h \in S \ {f} : h.seq <= g.seq
        PROVE  w = (g.pressed # "release")
    <3>1. f.seq <= g.seq
      BY <2>2
    <3> QED
      BY <1>2, <2>2, <3>1 DEF Says
  <2> QED
    BY <2>1, <2>2 DEF Says
<1>3. ASSUME NEW e \in K \ {f}
      PROVE  Says({g \in Shifts(K \ {f}) : g.seq < e.seq}, r, e.shifted)
  <2> DEFINE S == {g \in Shifts(K) : g.seq < e.seq}
  <2>1. S \in SUBSET K /\ f \in S
    BY <1>1 DEF Shifts
  <2>2. Says(S, s, e.shifted)
    BY DEF Tracks
  <2>3. {g \in Shifts(K \ {f}) : g.seq < e.seq} = S \ {f}
    BY <1>1
  <2> HIDE DEF S
  <2> QED
    BY <1>2, <2>1, <2>2, <2>3
<1>4. Says(Shifts(K \ {f}), r, v)
  <2>1. Shifts(K) \in SUBSET K /\ Says(Shifts(K), s, v)
    BY DEF Shifts, Tracks
  <2> QED
    BY <1>1, <1>2, <2>1
<1> QED
  BY <1>3, <1>4 DEF Tracks

\* A new event records the state before it and leaves the one it makes.
LEMMA TracksPut ==
  ASSUME NEW K, NEW s, NEW v, NEW w, NEW e, Tracks(K, s, v),
         e.seq \in Nat, \A f \in K : f.seq \in Nat /\ f.seq < e.seq,
         e.shifted = v,
         w = IF e.key \in ShiftKeys THEN e.pressed # "release" ELSE v
  PROVE  Tracks(K \cup {e}, s, w)
<1> DEFINE L == K \cup {e}
<1>1. Shifts(L) = IF e.key \in ShiftKeys THEN Shifts(K) \cup {e} ELSE Shifts(K)
  BY DEF Shifts
<1>2. \A f \in Shifts(K) : f \in K
  BY DEF Shifts
<1>3. ASSUME NEW f \in L PROVE Says({g \in Shifts(L) : g.seq < f.seq}, s, f.shifted)
  <2>1. CASE f \in K
    <3>1. {g \in Shifts(L) : g.seq < f.seq} = {g \in Shifts(K) : g.seq < f.seq}
      BY <1>1, <1>2, <2>1
    <3> QED
      BY <2>1, <3>1 DEF Tracks
  <2>2. CASE f = e
    <3>1. {g \in Shifts(L) : g.seq < f.seq} = Shifts(K)
      BY <1>1, <1>2, <2>2
    <3> QED
      BY <2>2, <3>1 DEF Tracks
  <2> QED
    BY <2>1, <2>2
<1>4. Says(Shifts(L), s, w)
  <2>1. CASE e.key \in ShiftKeys
    <3>1. \A f \in Shifts(L) : (\A g \in Shifts(L) : g.seq <= f.seq) => f = e
      BY <1>1, <1>2, <2>1
    <3> QED
      BY <1>1, <2>1, <3>1 DEF Says
  <2>2. CASE e.key \notin ShiftKeys
    BY <1>1, <2>2 DEF Tracks
  <2> QED
    BY <2>1, <2>2
<1> QED
  BY <1>3, <1>4 DEF Tracks

LEMMA InFlightIs ==
  \A e : e \in InFlight <=>
    /\ IsKey(e)
    /\ \/ \E i \in 1 .. Count : e = Item(i)
       \/ \E i \in 0 .. Ready - 1 : e = Waiting(i)
       \/ pc = "handle" /\ e = events[cur]
BY DEF InFlight

LEMMA InFlightTypes ==
  ASSUME TypeOK, Order
  PROVE  \A e \in InFlight : e \in Events /\ e.seq \in Nat /\ e.seq <= sent
BY InFlightIs, SeqTypes DEF Order, WaitingOrder, HandOrder, RingOrder

\* A step that moves no key event and leaves the shift state and the keys alone.
LEMMA TrackedKept ==
  ASSUME ShiftTracked, CharsAsTyped, InFlight' = InFlight, UNCHANGED <<shift, lost, out>>,
         held' \cap ShiftKeys = held \cap ShiftKeys
  PROVE  ShiftTracked' /\ CharsAsTyped'
BY DEF ShiftTracked, CharsAsTyped

\* input_push_event forgets at most the first event of the ring, and remembers
\* that in lost if it was one of a shift key.
LEMMA PushTracked ==
  ASSUME TypeOK, ShiftTracked, CharsAsTyped, NEW e, PushEvent(e),
         UNCHANGED <<q, events, shift, held, out>>, pc' # "handle",
         IsKey(e) => e \in InFlight,
         pc = "handle" => IsKey(e) /\ e = events[cur]
  PROVE  ShiftTracked' /\ CharsAsTyped'
<1>1. Ready' = Ready /\ \A i : Waiting(i)' = Waiting(i)
  BY QueueSame
<1>2. /\ Dropped \in 0 .. 1 /\ Dropped <= Count /\ Count' = Count + 1 - Dropped
      /\ \A i \in 1 .. Count - Dropped : Item(i)' = Item(i + Dropped)
      /\ \A i : i = Count + 1 - Dropped => Item(i)' = e
  BY PushView
<1>3. Count \in Nat /\ ring[head] = Item(1)
  BY SeqTypes, RingTypes
<1>4. lost' = (lost \/ (IsFull /\ IsShift(Item(1))))
  BY <1>3 DEF PushEvent
<1>5. \A x : x \in InFlight' <=>
        /\ IsKey(x)
        /\ \/ \E i \in 1 .. Count' : x = Item(i)'
           \/ \E i \in 0 .. Ready - 1 : x = Waiting(i)
  BY <1>1 DEF InFlight
<1>6. InFlight' \subseteq InFlight
  <2>1. SUFFICES ASSUME NEW x \in InFlight' PROVE x \in InFlight
    OBVIOUS
  <2>2. CASE \E i \in 1 .. Count' : x = Item(i)'
    <3>1. PICK i \in 1 .. Count' : x = Item(i)'
      BY <2>2
    <3>2. x = e \/ (i + Dropped \in 1 .. Count /\ x = Item(i + Dropped))
      BY <1>2, <1>3, <3>1
    <3> QED
      BY <1>5, <2>1, <3>2, InFlightIs
  <2> QED
    BY <1>5, <2>1, <2>2, InFlightIs
<1>7. ASSUME ~lost', NEW x \in InFlight, x.key \in ShiftKeys PROVE x \in InFlight'
  <2>1. CASE \E i \in 1 .. Count : x = Item(i)
    <3>1. PICK i \in 1 .. Count : x = Item(i)
      BY <2>1
    <3>2. i > Dropped
      <4>1. SUFFICES ASSUME ~(i > Dropped) PROVE FALSE
        OBVIOUS
      <4>2. Dropped = 1 /\ i = 1
        BY <1>2, <4>1
      <4>3. IsFull /\ IsShift(Item(1))
        BY <1>7, <3>1, <4>2, InFlightIs DEF Dropped, IsShift, IsKey
      <4> QED
        BY <1>4, <1>7, <4>3
    <3>3. i - Dropped \in 1 .. Count - Dropped /\ (i - Dropped) + Dropped = i
          /\ i - Dropped \in 1 .. Count'
      BY <1>2, <1>3, <3>2
    <3>4. PICK k \in 1 .. Count' : k \in 1 .. Count - Dropped /\ k + Dropped = i
      BY <3>3
    <3>5. Item(k)' = Item(i)
      BY <1>2, <3>4
    <3> QED
      BY <1>5, <3>1, <3>5, InFlightIs
  <2>2. CASE x = e
    <3>1. Count + 1 - Dropped \in 1 .. Count' /\ \A k : k = Count + 1 - Dropped => x = Item(k)'
      BY <1>2, <1>3, <2>2
    <3> QED
      BY <1>5, <3>1, InFlightIs
  <2> QED
    BY <1>5, <2>1, <2>2, InFlightIs
<1>8. ~lost' => Shifts(InFlight') = Shifts(InFlight)
  BY <1>6, <1>7 DEF Shifts
<1>9. ~lost' => ~lost
  BY <1>4
<1>10. ShiftTracked'
  <2>1. SUFFICES ASSUME ~lost' PROVE Tracks(InFlight', shift, held \cap ShiftKeys # {})
    BY DEF ShiftTracked
  <2>2. Tracks(InFlight, shift, held \cap ShiftKeys # {})
    BY <1>9, <2>1 DEF ShiftTracked
  <2> QED
    BY <1>6, <1>8, <2>1, <2>2, TracksFewer, InFlight' \in SUBSET InFlight
<1> QED
  BY <1>9, <1>10 DEF CharsAsTyped

LEMMA PollTracked ==
  ASSUME IInv, PollSerial \/ Poll
  PROVE  ShiftTracked' /\ CharsAsTyped'
<1>1. TypeOK /\ BInv /\ Order /\ ShiftTracked /\ CharsAsTyped
  BY DEF IInv, OInv, BInv
<1>2. UNCHANGED <<held, shift, out>>
  BY DEF PollSerial, Poll, PollPop, PollHandle, PollSubmit, PollDone, device
<1>3. ASSUME UNCHANGED <<ring, head, tail, lost>>, Ready' = Ready,
             \A i \in 0 .. Ready - 1 : Waiting(i)' = Waiting(i),
             pc # "handle" \/ ~IsKey(events[cur]), pc' # "handle"
      PROVE  ShiftTracked' /\ CharsAsTyped'
  <2>1. Count' = Count /\ \A i : Item(i)' = Item(i)
    BY <1>3, RingSame
  <2>2. {Waiting(i)' : i \in 0 .. Ready' - 1} = {Waiting(i) : i \in 0 .. Ready - 1}
    BY <1>3
  <2>3. {Item(i)' : i \in 1 .. Count'} = {Item(i) : i \in 1 .. Count}
    BY <2>1
  <2>4. \A e : e \in InFlight' <=>
          e \in {Item(i) : i \in 1 .. Count} \cup {Waiting(i) : i \in 0 .. Ready - 1} /\ IsKey(e)
    BY <1>3, <2>2, <2>3 DEF InFlight
  <2>5. \A e : e \in InFlight <=>
          e \in {Item(i) : i \in 1 .. Count} \cup {Waiting(i) : i \in 0 .. Ready - 1} /\ IsKey(e)
    BY <1>3 DEF InFlight
  <2>6. InFlight' = InFlight
    BY <2>4, <2>5
  <2> QED
    BY <1>1, <1>2, <1>3, <2>6, TrackedKept
<1>4. CASE PollSerial
  <2>1. UNCHANGED <<q, events>> /\ pc # "handle" /\ pc' # "handle"
    BY <1>4 DEF PollSerial
  <2>2. CASE "serial" \in mode /\ uart # << >>
    <3>1. PushEvent(SerialEvent(Head(uart)))
      BY <1>4, <2>2 DEF PollSerial
    <3>2. ~IsKey(SerialEvent(Head(uart)))
      BY DEF SerialEvent, IsKey
    <3> QED
      BY <1>1, <1>2, <2>1, <3>1, <3>2, PushTracked
  <2>3. CASE ~("serial" \in mode /\ uart # << >>)
    BY <1>3, <1>4, <2>1, <2>3, QueueSame DEF PollSerial
  <2> QED
    BY <2>2, <2>3
<1>5. CASE PollPop
  <2>1. /\ UNCHANGED <<events, ring, head, tail, lost>>
        /\ pc = "poll" /\ pc' = "handle" /\ Ready # 0
    BY <1>5 DEF PollPop, device, Pending, Ready, Between
  <2>2. /\ Ready' = Ready - 1 /\ cur' = ReadyAt(0)
        /\ \A i \in 0 .. Ready - 2 : ReadyAt(i)' = ReadyAt(i + 1)
    BY <1>1, <1>5, <2>1, PopView DEF PollPop, device
  <2>3. Ready \in Nat
    BY <1>1, SeqTypes
  <2>4. Count' = Count /\ \A i : Item(i)' = Item(i)
    BY <2>1, RingSame
  <2>5. \A i \in 0 .. Ready' - 1 : i + 1 \in 0 .. Ready - 1 /\ Waiting(i)' = Waiting(i + 1)
    BY <2>1, <2>2, <2>3 DEF Waiting
  <2>6. events'[cur'] = Waiting(0) /\ 0 \in 0 .. Ready - 1
    BY <2>1, <2>2, <2>3 DEF Waiting
  <2>7. \A e : (\E i \in 0 .. Ready - 1 : e = Waiting(i))
                 <=> (\E i \in 0 .. Ready' - 1 : e = Waiting(i)') \/ e = events'[cur']
    <3>1. ASSUME NEW e, NEW i \in 0 .. Ready - 1, e = Waiting(i)
          PROVE  (\E j \in 0 .. Ready' - 1 : e = Waiting(j)') \/ e = events'[cur']
      <4>1. CASE i = 0
        BY <2>6, <3>1, <4>1
      <4>2. CASE i # 0
        <5>1. PICK j \in 0 .. Ready' - 1 : j + 1 = i
          BY <2>2, <2>3, <4>2, i - 1 \in 0 .. Ready' - 1
        <5> QED
          BY <2>5, <3>1, <5>1
      <4> QED
        BY <4>1, <4>2
    <3> QED
      BY <2>5, <2>6, <3>1
  <2>8. \A e : e \in InFlight' <=>
          /\ IsKey(e)
          /\ \/ \E i \in 1 .. Count : e = Item(i)
             \/ \E i \in 0 .. Ready' - 1 : e = Waiting(i)'
             \/ e = events'[cur']
    BY <2>1, <2>4 DEF InFlight
  <2>9. InFlight' = InFlight
    <3>1. \A e : e \in InFlight' <=> e \in InFlight
      BY <2>1, <2>7, <2>8, InFlightIs
    <3> QED
      BY <3>1
  <2> QED
    BY <1>1, <1>2, <2>1, <2>9, TrackedKept
<1>6. CASE PollHandle
  <2>1. UNCHANGED <<q, events>> /\ pc = "handle" /\ pc' # "handle"
    BY <1>6 DEF PollHandle, device
  <2>2. CASE events[cur].source = "keyboard"
    <3>1. PushEvent(events[cur]) /\ IsKey(events[cur])
      BY <1>6, <2>2 DEF PollHandle, IsKey
    <3>2. events[cur] \in InFlight
      BY <2>1, <3>1, InFlightIs
    <3> QED
      BY <1>1, <1>2, <2>1, <3>1, <3>2, PushTracked
  <2>3. CASE events[cur].source # "keyboard"
    BY <1>3, <1>6, <2>1, <2>3, QueueSame DEF PollHandle, IsKey
  <2> QED
    BY <2>2, <2>3
<1>7. CASE PollSubmit
  <2>1. UNCHANGED <<events, ring, head, tail, lost>> /\ pc # "handle" /\ pc' # "handle"
    BY <1>7 DEF PollSubmit, device
  <2>2. Given < Size
    BY <1>1, <1>7, SubmitPlaces DEF BInv, PollSubmit, device
  <2>3. Ready' = Ready /\ \A i \in 0 .. Ready - 1 : Waiting(i)' = Waiting(i)
    BY <1>1, <1>7, <2>2, SubmitView DEF PollSubmit, device, Waiting
  <2> QED
    BY <1>3, <2>1, <2>3
<1>8. CASE PollDone
  <2>1. UNCHANGED <<q, events, ring, head, tail, lost>> /\ pc # "handle" /\ pc' # "handle"
    BY <1>8 DEF PollDone, device
  <2> QED
    BY <1>3, <2>1, QueueSame
<1> QED
  BY <1>4, <1>5, <1>6, <1>7, <1>8 DEF Poll

\* The reader takes the oldest event: what it knows of shift is what the event
\* was struck under.
LEMMA PopEventTracked ==
  ASSUME IInv, PopEvent
  PROVE  ShiftTracked' /\ CharsAsTyped'
<1>1. TypeOK /\ Order /\ ShiftTracked /\ CharsAsTyped
  BY DEF IInv, OInv, BInv
<1> DEFINE e == Item(1)
           v == (held \cap ShiftKeys # {})
<1>2. /\ UNCHANGED <<q, events, held, pc>> /\ pc = "read" /\ ring[head] = e
      /\ Count \in Nat /\ Ready \in Nat
  BY <1>1, RingTypes, SeqTypes DEF PopEvent, device
<1>3. /\ shift' = IF Allowed(e) THEN ShiftAfter(e) ELSE shift
      /\ lost' = (lost \/ (~Allowed(e) /\ IsShift(e)))
      /\ out' = IF GivesChar(e) THEN CharOf(e) ELSE out
  BY <1>2 DEF PopEvent
<1>4. Count > 0 /\ Count' = Count - 1 /\ \A i \in 1 .. Count - 1 : Item(i)' = Item(i + 1)
  BY <1>1, TakeView DEF PopEvent
<1>5. 1 \in 1 .. Count
  BY <1>2, <1>4
<1>6. Ready' = Ready /\ \A i : Waiting(i)' = Waiting(i)
  BY <1>2, QueueSame
<1>7. \A x : x \in InFlight' <=>
        /\ IsKey(x)
        /\ \/ \E i \in 1 .. Count' : x = Item(i)'
           \/ \E i \in 0 .. Ready - 1 : x = Waiting(i)
  BY <1>2, <1>6 DEF InFlight
<1>8. ASSUME NEW x \in InFlight'
      PROVE  x \in InFlight /\ (IsKey(e) => e.seq < x.seq)
  <2>1. CASE \E i \in 1 .. Count' : x = Item(i)'
    <3>1. PICK i \in 1 .. Count' : x = Item(i)'
      BY <2>1
    <3>2. i + 1 \in 1 .. Count /\ 1 < i + 1 /\ x = Item(i + 1)
      BY <1>2, <1>4, <3>1
    <3>3. IsKey(x)
      BY <1>7
    <3> QED
      BY <1>1, <1>5, <3>2, <3>3, InFlightIs DEF Order, RingOrder
  <2>2. CASE \E i \in 0 .. Ready - 1 : x = Waiting(i)
    BY <1>1, <1>5, <1>7, <2>2, InFlightIs DEF Order, RingOrder
  <2> QED
    BY <1>7, <2>1, <2>2
<1>9. ASSUME NEW x \in InFlight, x # e PROVE x \in InFlight'
  <2>1. CASE \E i \in 1 .. Count : x = Item(i)
    <3>1. PICK i \in 1 .. Count : x = Item(i)
      BY <2>1
    <3>2. PICK k \in 1 .. Count' : k + 1 = i
      BY <1>2, <1>4, <1>9, <3>1, i - 1 \in 1 .. Count'
    <3>3. x = Item(k)'
      BY <1>4, <3>1, <3>2
    <3> QED
      BY <1>7, <3>3, InFlightIs
  <2>2. CASE \E i \in 0 .. Ready - 1 : x = Waiting(i)
    BY <1>7, <2>2, InFlightIs
  <2> QED
    BY <1>2, <2>1, <2>2, InFlightIs
<1>10. \A x \in InFlight : x.seq \in Nat
  BY <1>1, InFlightTypes
<1>11. IsKey(e) => e \in InFlight
  BY <1>5, InFlightIs
<1>12. InFlight' = InFlight \ {e}
  <2>1. e \notin InFlight'
    BY <1>7, <1>8, <1>10
  <2> QED
    BY <1>8, <1>9, <2>1
<1>13. ~lost' => ~lost /\ (IsShift(e) => Allowed(e))
  BY <1>3
<1> HIDE DEF e, v
<1>14. ShiftTracked'
  <2>1. SUFFICES ASSUME ~lost' PROVE Tracks(InFlight \ {e}, shift', v)
    BY <1>2, <1>12 DEF ShiftTracked, v
  <2>2. Tracks(InFlight, shift, v)
    BY <1>1, <1>13, <2>1 DEF ShiftTracked, v
  <2>3. CASE IsShift(e)
    <3>1. e \in InFlight /\ e.key \in ShiftKeys
      BY <1>11, <2>3 DEF IsShift, IsKey
    <3>2. shift' = (e.pressed # "release")
      BY <1>3, <1>13, <2>1, <2>3 DEF ShiftAfter
    <3>3. \A x \in InFlight \ {e} : e.seq < x.seq
      BY <1>8, <1>12, <2>3 DEF IsShift, IsKey
    <3> QED
      BY <1>10, <2>2, <3>1, <3>2, <3>3, TracksTake
  <2>4. CASE ~IsShift(e)
    <3>1. shift' = shift
      BY <1>3, <2>4 DEF ShiftAfter
    <3>2. Shifts(InFlight \ {e}) = Shifts(InFlight)
      <4>1. \A x \in InFlight : x.key \in ShiftKeys => x # e
        BY <2>4, InFlightIs DEF IsShift, IsKey
      <4> QED
        BY <4>1 DEF Shifts
    <3> QED
      BY <2>2, <3>1, <3>2, TracksFewer, InFlight \ {e} \in SUBSET InFlight
  <2> QED
    BY <2>3, <2>4
<1>15. CharsAsTyped'
  <2>1. SUFFICES ASSUME ~lost' PROVE out'.upper = out'.typed
    BY DEF CharsAsTyped
  <2>2. CASE GivesChar(e)
    <3>1. e \in InFlight /\ IsKey(e)
      BY <1>11, <2>2 DEF GivesChar, IsKey
    <3>2. {f \in Shifts(InFlight) : f.seq < e.seq} = {}
      <4>1. \A f \in InFlight : ~(f.seq < e.seq)
        BY <1>8, <1>9, <1>10, <3>1
      <4> QED
        BY <4>1 DEF Shifts
    <3>3. Tracks(InFlight, shift, v)
      BY <1>1, <1>13, <2>1 DEF ShiftTracked, v
    <3>4. e.shifted = shift
      BY <3>1, <3>2, <3>3 DEF Tracks, Says
    <3> QED
      BY <1>3, <2>2, <3>4 DEF CharOf
  <2>3. CASE ~GivesChar(e)
    BY <1>1, <1>3, <1>13, <2>1, <2>3 DEF CharsAsTyped
  <2> QED
    BY <2>2, <2>3
<1> QED
  BY <1>14, <1>15

LEMMA InFlightSame ==
  ASSUME UNCHANGED <<q, events, ring, head, tail, pc, cur>>
  PROVE  InFlight' = InFlight
<1>1. Ready' = Ready /\ (\A i : Waiting(i)' = Waiting(i)) /\ Count' = Count /\ \A i : Item(i)' = Item(i)
  BY QueueSame, RingSame
<1> QED
  BY <1>1 DEF InFlight

LEMMA SendInFlight ==
  ASSUME BInv, NEW e, NEW b, DeviceSend(e, b)
  PROVE  IF devAvail # q.avail_idx
           THEN InFlight' = InFlight \cup (IF IsKey(e) THEN {e} ELSE {}) /\ lost' = (lost \/ b)
           ELSE InFlight' = InFlight /\ lost' = (lost \/ IsShift(e))
<1>1. TypeOK /\ UNCHANGED <<ring, head, tail, pc, cur>>
  BY DEF BInv, DeviceSend
<1>2. Count' = Count /\ \A i : Item(i)' = Item(i)
  BY <1>1, RingSame
<1>3. CASE devAvail # q.avail_idx
  <2>1. /\ Ready' = Ready + 1
        /\ \A i \in 0 .. Ready : Waiting(i)' = IF i < Ready THEN Waiting(i) ELSE e
        /\ pc = "handle" => events'[cur'] = events[cur]
    BY <1>1, <1>3, SendWaiting DEF DeviceSend
  <2>2. Ready \in Nat
    BY <1>1, SeqTypes
  <2>3. \A x : (\E i \in 0 .. Ready' - 1 : x = Waiting(i)')
                 <=> (\E i \in 0 .. Ready - 1 : x = Waiting(i)) \/ x = e
    <3>1. \A i \in 0 .. Ready' - 1 : i \in 0 .. Ready
      BY <2>1, <2>2
    <3>2. ASSUME NEW i \in 0 .. Ready - 1
          PROVE  i \in 0 .. Ready' - 1 /\ Waiting(i)' = Waiting(i)
      BY <2>1, <2>2
    <3>3. \E i \in 0 .. Ready' - 1 : i = Ready /\ Waiting(i)' = e
      BY <2>1, <2>2
    <3>4. ASSUME NEW i \in 0 .. Ready' - 1
          PROVE  (i \in 0 .. Ready - 1 /\ Waiting(i)' = Waiting(i)) \/ Waiting(i)' = e
      BY <2>1, <2>2
    <3> QED
      BY <3>2, <3>3, <3>4
  <2>4. \A x : x \in InFlight' <=>
          /\ IsKey(x)
          /\ \/ \E i \in 1 .. Count : x = Item(i)
             \/ \E i \in 0 .. Ready' - 1 : x = Waiting(i)'
             \/ pc = "handle" /\ x = events[cur]
    BY <1>1, <1>2, <2>1 DEF InFlight
  <2>5. \A x : x \in InFlight' <=> x \in InFlight \cup (IF IsKey(e) THEN {e} ELSE {})
    BY <2>3, <2>4, InFlightIs
  <2>6. InFlight' = InFlight \cup (IF IsKey(e) THEN {e} ELSE {})
    BY <2>5
  <2> QED
    BY <1>3, <2>6 DEF DeviceSend
<1>4. CASE devAvail = q.avail_idx
  BY <1>1, <1>4, InFlightSame DEF DeviceSend
<1> QED
  BY <1>3, <1>4

LEMMA DeviceTracked ==
  ASSUME IInv, Device
  PROVE  ShiftTracked' /\ CharsAsTyped'
<1>1. TypeOK /\ BInv /\ Order /\ ShiftTracked /\ CharsAsTyped
  BY DEF IInv, OInv, BInv
<1> DEFINE v == (held \cap ShiftKeys # {})
<1>2. ASSUME NEW k \in Keys, NEW p \in {"press", "repeat", "release"}, DeviceKey(k, p)
      PROVE  ShiftTracked' /\ CharsAsTyped'
  <2> DEFINE e == KeyEvent(k, p)
             b == (k \in ShiftKeys /\ p = "release" /\ held' \cap ShiftKeys # {})
             w == (held' \cap ShiftKeys # {})
  <2>1. DeviceSend(e, b)
    BY <1>2 DEF DeviceKey, KeyEvent
  <2>2. UNCHANGED <<shift, out>>
    BY <2>1 DEF DeviceSend
  <2>3. /\ IsKey(e) /\ e.key = k /\ e.pressed = p /\ e.seq = sent + 1 /\ e.shifted = v
        /\ IsShift(e) = (k \in ShiftKeys)
    BY DEF KeyEvent, IsKey, IsShift
  <2>4. held' = IF p = "release" THEN held \ {k} ELSE held \cup {k}
    BY <1>2 DEF DeviceKey
  <2>5. k \notin ShiftKeys => held' \cap ShiftKeys = held \cap ShiftKeys
    BY <2>4
  <2>6. k \in ShiftKeys /\ p # "release" => w = TRUE
    BY <2>4
  <2>7. IF devAvail # q.avail_idx
          THEN InFlight' = InFlight \cup {e} /\ lost' = (lost \/ b)
          ELSE InFlight' = InFlight /\ lost' = (lost \/ k \in ShiftKeys)
    BY <1>1, <2>1, <2>3, SendInFlight
  <2>8. \A f \in InFlight : f.seq \in Nat /\ f.seq < e.seq
    <3>1. sent \in Nat
      BY <1>1, SeqTypes
    <3> HIDE DEF e
    <3> QED
      BY <1>1, <2>3, <3>1, InFlightTypes
  <2>9. e.seq \in Nat
    BY <1>1, <2>3, SeqTypes
  <2> HIDE DEF e
  <2>10. ShiftTracked'
    <3>1. SUFFICES ASSUME ~lost' PROVE Tracks(InFlight', shift, w)
      BY <2>2 DEF ShiftTracked
    <3>2. ~lost
      BY <2>7, <3>1
    <3>3. Tracks(InFlight, shift, v)
      BY <1>1, <3>2 DEF ShiftTracked
    <3>4. CASE devAvail # q.avail_idx
      <4>1. ~b /\ InFlight' = InFlight \cup {e}
        BY <2>7, <3>1, <3>4
      <4>2. w = IF e.key \in ShiftKeys THEN e.pressed # "release" ELSE v
        BY <2>3, <2>5, <2>6, <4>1
      <4> HIDE DEF v, w
      <4> QED
        BY <2>3, <2>8, <2>9, <3>3, <4>1, <4>2, TracksPut
    <3>5. CASE devAvail = q.avail_idx
      <4>1. k \notin ShiftKeys /\ InFlight' = InFlight
        BY <2>7, <3>1, <3>5
      <4> QED
        BY <2>5, <3>3, <4>1
    <3> QED
      BY <3>4, <3>5
  <2>11. CharsAsTyped'
    BY <1>1, <2>2, <2>7 DEF CharsAsTyped
  <2> QED
    BY <2>10, <2>11
<1>3. CASE DeviceOther
  <2> DEFINE e == [source |-> "motion", seq |-> sent + 1]
  <2>1. DeviceSend(e, FALSE) /\ held' = held
    BY <1>3 DEF DeviceOther
  <2>2. UNCHANGED <<shift, out>>
    BY <2>1 DEF DeviceSend
  <2>3. ~IsKey(e) /\ IsShift(e) = FALSE
    BY DEF IsKey, IsShift
  <2>4. InFlight' = InFlight /\ lost' = (lost \/ FALSE)
    BY <1>1, <2>1, <2>3, SendInFlight
  <2>5. lost' = lost
    BY <1>1, <2>4 DEF TypeOK
  <2> QED
    BY <1>1, <2>1, <2>2, <2>4, <2>5, TrackedKept
<1>4. CASE SerialArrives
  BY <1>1, <1>4, InFlightSame, TrackedKept DEF SerialArrives
<1> QED
  BY <1>2, <1>3, <1>4 DEF Device

----------------------------------------------------------------------------
(* The induction *)

LEMMA InitIInv == Init => IInv
<1> SUFFICES ASSUME Init PROVE IInv
  OBVIOUS
<1>1. BInv /\ TypeOK
  BY InitBInv DEF BInv
<1>2. Ready = 0 /\ Count = 0
  <2>1. q.last_used = 0 /\ q.used_idx = 0 /\ head = 0 /\ tail = 0
    BY DEF Init, DriverInit, LayerInit, QueueInit
  <2>2. Ready = 0
    BY <1>1, <2>1, BetweenType, WindowTypes DEF Ready
  <2>3. IsEmpty
    BY <2>1 DEF IsEmpty
  <2> QED
    BY <1>1, <2>2, <2>3, RingTypes
<1>3. 0 .. Ready - 1 = {} /\ 1 .. Count = {}
  BY <1>2
<1>4. pc = "read" /\ sent = 0 /\ taken = 0 /\ shift = FALSE /\ held = {} /\ out = NoChar
  BY DEF Init, DriverInit, LayerInit
<1>5. Order
  BY <1>3, <1>4 DEF Order, WaitingOrder, HandOrder, RingOrder
<1>6. InFlight = {}
  BY <1>3, <1>4 DEF InFlight
<1>7. ShiftTracked
  BY <1>4, <1>6 DEF ShiftTracked, Tracks, Says, Shifts
<1>8. CharsAsTyped
  BY <1>4 DEF CharsAsTyped, NoChar
<1> QED
  BY <1>1, <1>5, <1>7, <1>8 DEF IInv, OInv

\* A step that changes nothing the invariant is about.
LEMMA StutterIInv ==
  ASSUME IInv, UNCHANGED vars
  PROVE  IInv'
<1>1. TypeOK /\ Counts /\ Places /\ Order /\ ShiftTracked /\ CharsAsTyped
  BY DEF IInv, OInv, BInv
<1>2. Counts' /\ Places'
  BY <1>1, PlacesKept DEF vars
<1>3. TypeOK'
  BY <1>1 DEF vars, TypeOK
<1>4. Order'
  <2>1. /\ Ready' = Ready /\ (\A i : Waiting(i)' = Waiting(i))
        /\ Count' = Count /\ \A i : Item(i)' = Item(i)
    BY QueueSame, RingSame DEF vars
  <2> QED
    BY <1>1, <2>1 DEF vars, Order, WaitingOrder, HandOrder, RingOrder
<1>5. ShiftTracked' /\ CharsAsTyped'
  BY <1>1, InFlightSame, TrackedKept DEF vars
<1> QED
  BY <1>2, <1>3, <1>4, <1>5 DEF IInv, OInv, BInv

LEMMA StepIInv == IInv /\ [Next]_vars => IInv'
<1> SUFFICES ASSUME IInv, [Next]_vars PROVE IInv'
  OBVIOUS
<1>1. TypeOK /\ BInv /\ Order /\ ShiftTracked /\ CharsAsTyped
  BY DEF IInv, OInv, BInv
<1>2. CASE PollSerial
  BY <1>1, <1>2, PollSerialBInv, PollSerialOrder, PollTracked DEF IInv, OInv
<1>3. CASE Poll
  <2>1. CASE PollPop
    BY <1>1, <2>1, PollPopBInv, PollPopOrder, PollTracked DEF IInv, OInv, Poll
  <2>2. CASE PollHandle
    BY <1>1, <2>2, PollHandleBInv, PollHandleOrder, PollTracked DEF IInv, OInv, Poll
  <2>3. CASE PollSubmit
    BY <1>1, <2>3, PollSubmitBInv, PollSubmitOrder, PollTracked DEF IInv, OInv, Poll
  <2>4. CASE PollDone
    <3>1. UNCHANGED <<q, events, ring, head, tail, cur, taken, sent>> /\ pc # "handle" /\ pc' # "handle"
      BY <2>4 DEF PollDone, device
    <3>2. Order'
      BY <1>1, <3>1, QueueSame, RingSame DEF Order, WaitingOrder, HandOrder, RingOrder
    <3> QED
      BY <1>1, <2>4, <3>2, PollDoneBInv, PollTracked DEF IInv, OInv, Poll
  <2> QED
    BY <1>3, <2>1, <2>2, <2>3, <2>4 DEF Poll
<1>4. CASE PopEvent
  BY <1>1, <1>4, PopEventBInv, PopEventOrder, PopEventTracked DEF IInv, OInv
<1>5. ASSUME NEW m \in SUBSET Sources, SetMode(m) PROVE IInv'
  <2>1. UNCHANGED <<q, events, ring, head, tail, pc, cur, taken, sent, shift, lost, out, held>>
    BY <1>5 DEF SetMode, device
  <2>2. Order'
    BY <1>1, <2>1, QueueSame, RingSame DEF Order, WaitingOrder, HandOrder, RingOrder
  <2>3. ShiftTracked' /\ CharsAsTyped'
    BY <1>1, <2>1, InFlightSame, TrackedKept
  <2> QED
    BY <1>1, <1>5, <2>2, <2>3, SetModeBInv DEF IInv, OInv
<1>6. CASE Device
  <2>1. Order'
    <3>1. ASSUME NEW k \in Keys, NEW p \in {"press", "repeat", "release"}, DeviceKey(k, p)
          PROVE  Order'
      <4>1. DeviceSend(KeyEvent(k, p), k \in ShiftKeys /\ p = "release" /\ held' \cap ShiftKeys # {})
        BY <3>1 DEF DeviceKey, KeyEvent
      <4>2. KeyEvent(k, p) \in Events /\ KeyEvent(k, p).seq = sent + 1
        BY <1>1, <4>1, KeyEventType DEF DeviceSend, KeyEvent
      <4> QED
        BY <1>1, <4>1, <4>2, SendOrder
    <3>2. CASE DeviceOther
      <4> DEFINE e == [source |-> "motion", seq |-> sent + 1]
      <4>1. DeviceSend(e, FALSE)
        BY <3>2 DEF DeviceOther
      <4>2. e \in Events /\ e.seq = sent + 1
        BY <1>1, <4>1, KeyEventType, Letter \in Keys, "press" \in {"press", "repeat", "release"}
           DEF DeviceSend, Keys
      <4> HIDE DEF e
      <4> QED
        BY <1>1, <4>1, <4>2, SendOrder
    <3>3. CASE SerialArrives
      <4>1. UNCHANGED <<q, events, ring, head, tail, pc, cur, taken>> /\ sent' = sent + 1 /\ sent \in Nat
        BY <1>1, <3>3, SeqTypes DEF SerialArrives
      <4>2. /\ Ready' = Ready /\ (\A i : Waiting(i)' = Waiting(i))
            /\ Count' = Count /\ \A i : Item(i)' = Item(i)
        BY <4>1, QueueSame, RingSame
      <4>3. /\ \A i \in 1 .. Count : IsKey(Item(i)) => Item(i).seq \in Nat
            /\ \A i \in 0 .. Ready - 1 : Waiting(i).seq \in Nat
            /\ pc = "handle" => events[cur].seq \in Nat
            /\ taken \in Nat
        BY <1>1, SeqTypes DEF Order, WaitingOrder, HandOrder
      <4> QED
        BY <1>1, <4>1, <4>2, <4>3 DEF Order, WaitingOrder, HandOrder, RingOrder
    <3> QED
      BY <1>6, <3>1, <3>2, <3>3 DEF Device
  <2> QED
    BY <1>1, <1>6, <2>1, DeviceBInv, DeviceTracked DEF IInv, OInv
<1> QED
  BY <1>2, <1>3, <1>4, <1>5, <1>6, StutterIInv DEF Next

----------------------------------------------------------------------------
(* The theorems *)

\* The inductive invariant of the input layer.
THEOREM Invariant == Spec => []IInv
BY InitIInv, StepIInv, PTL DEF Spec

LEMMA IntervalSize ==
  ASSUME NEW n \in Nat
  PROVE  Cardinality(0 .. n - 1) = n
BY FS_Interval, 0 \in Int, n - 1 \in Int

\* virtio_input_poll_device and the device pass the buffers of the event queue to
\* each other and lose none, however the two rings' counters wrap.
THEOREM ConservesBuffers == Spec => []BuffersConserved
<1>1. ASSUME IInv PROVE BuffersConserved
  <2>1. TypeOK /\ Counts /\ Places
    BY <1>1 DEF IInv, OInv, BInv
  <2>2. Given \in Nat /\ Ready \in Nat /\ cur \in Descs
    BY <2>1, SeqTypes DEF TypeOK
  <2>3. WithDevice = [k \in 0 .. Given - 1 |-> GivenAt(k)]
    BY DEF WithDevice, Given, Between, GivenAt
  <2>4. Filled = [k \in 0 .. Ready - 1 |-> ReadyAt(k)]
    BY DEF Filled, Ready, Between, Pending, PendingElem, ReadyAt
  <2> DEFINE D == {WithDevice[k] : k \in DOMAIN WithDevice}
             F == {Filled[k] : k \in DOMAIN Filled}
  <2>5. D = {GivenAt(k) : k \in 0 .. Given - 1} /\ F = {ReadyAt(k) : k \in 0 .. Ready - 1}
    BY <2>3, <2>4
  <2>6. D \cup F \cup InHand = Descs
    <3>1. D \subseteq Descs /\ F \subseteq Descs
      BY <2>1, <2>2, <2>5, WindowTypes
    <3>2. InHand \subseteq Descs
      BY <2>2 DEF InHand
    <3>3. \A d \in Descs : d \in D \/ d \in F \/ d \in InHand
      BY <2>1, <2>5 DEF Places
    <3> HIDE DEF D, F
    <3> QED
      BY <3>1, <3>2, <3>3
  <2>7. Cardinality(DOMAIN WithDevice) = Given /\ Cardinality(DOMAIN Filled) = Ready
    BY <2>2, <2>3, <2>4, IntervalSize
  <2>8. Cardinality(InHand) = IF pc \in {"handle", "submit"} THEN 1 ELSE 0
    BY FS_Singleton, FS_EmptySet DEF InHand
  <2>9. Cardinality(DOMAIN WithDevice) + Cardinality(DOMAIN Filled) + Cardinality(InHand) = Size
    BY <2>1, <2>7, <2>8 DEF Counts
  <2> QED
    BY <2>1, <2>6, <2>9 DEF BuffersConserved
<1> QED
  BY <1>1, Invariant, PTL

\* Key events reach the readers in the order they were sent, whatever
\* input_push_event drops.
THEOREM KeepsOrder == Spec => []KeysInOrder
<1>1. ASSUME IInv PROVE KeysInOrder
  <2>1. TypeOK /\ Order
    BY <1>1 DEF IInv, OInv, BInv
  <2>2. Items = [i \in 1 .. Count |-> Item(i)]
    BY DEF Items, Item, Count
  <2>3. Filled = [k \in 0 .. Ready - 1 |-> ReadyAt(k)]
    BY DEF Filled, Ready, Between, Pending, PendingElem, ReadyAt
  <2> DEFINE queued == {i \in DOMAIN Items : Items[i].source = "keyboard"}
             waiting == {events[Filled[k]] : k \in DOMAIN Filled}
             hand == IF pc = "handle" THEN {events[cur]} ELSE {}
  <2>4. queued = {i \in 1 .. Count : IsKey(Item(i))} /\ \A i \in queued : Items[i] = Item(i)
    BY <2>2 DEF IsKey
  <2>5. /\ DOMAIN Filled = 0 .. Ready - 1
        /\ \A k \in 0 .. Ready - 1 : events[Filled[k]] = Waiting(k)
    BY <2>3 DEF Waiting
  <2>6. waiting = {Waiting(k) : k \in 0 .. Ready - 1}
    BY <2>5
  <2> HIDE DEF queued, waiting, hand
  <2>7. /\ \A i \in queued : Items[i].seq > taken
        /\ \A i, j \in queued : i < j => Items[i].seq < Items[j].seq
    <3>1. \A i \in queued : Items[i].seq \in Nat /\ taken \in Nat
      BY <2>1, <2>4, SeqTypes
    <3> QED
      BY <2>1, <2>4, <3>1 DEF Order, RingOrder
  <2>8. \A i \in queued, e \in waiting \cup hand : Items[i].seq < e.seq
    BY <2>1, <2>4, <2>6 DEF Order, RingOrder, hand
  <2>9. \A e \in hand, f \in waiting : e.seq < f.seq
    BY <2>1, <2>6 DEF Order, HandOrder, hand
  <2>10. \A k, l \in DOMAIN Filled : k < l => events[Filled[k]].seq < events[Filled[l]].seq
    BY <2>1, <2>5 DEF Order, WaitingOrder
  <2> QED
    BY <2>7, <2>8, <2>9, <2>10 DEF KeysInOrder, queued, waiting, hand
<1> QED
  BY <1>1, Invariant, PTL

\* A letter comes out in the case it was struck in, unless an event of a shift key
\* was lost or two shift keys were held.
THEOREM TypesAsStruck == Spec => []CharsAsTyped
<1>1. IInv => CharsAsTyped
  BY DEF IInv
<1> QED
  BY <1>1, Invariant, PTL

\* input_push_event and input_pop_event make the ring a bounded queue that drops
\* its oldest event.
THEOREM ImplementsQueue == Spec => RingIsQueue
<1>1. Init => Queue!Init
  <2> SUFFICES ASSUME Init PROVE Items = << >>
    BY DEF Queue!Init
  <2>1. TypeOK /\ head = tail
    BY InitBInv DEF BInv, Init, LayerInit
  <2>2. Count = 0
    BY <2>1, RingTypes DEF IsEmpty
  <2>3. Items = [i \in 1 .. 0 |-> Item(i)]
    BY <2>2 DEF Items, Item, Count
  <2> QED
    BY <2>3
<1>2. IInv /\ [Next]_vars => [Queue!Next]_Items
  <2> SUFFICES ASSUME IInv, [Next]_vars, UNCHANGED Items => FALSE PROVE Queue!Next
    OBVIOUS
  <2>1. TypeOK /\ Order
    BY DEF IInv, OInv, BInv
  <2>2. UNCHANGED <<ring, head, tail>> => FALSE
    BY DEF Items
  <2>3. CASE PopEvent
    BY <2>1, <2>3, PopIsTake DEF Queue!Next
  <2>4. CASE PollSerial
    <3>1. "serial" \in mode /\ uart # << >> /\ PushEvent(SerialEvent(Head(uart)))
      BY <2>2, <2>4 DEF PollSerial
    <3>2. uart \in Seq(1 .. MaxEvents)
      BY <2>1 DEF TypeOK
    <3>3. Head(uart) \in 1 .. MaxEvents
      BY <3>1, <3>2, HeadTailProperties
    <3>4. SerialEvent(Head(uart)) \in Events
      BY <3>3 DEF SerialEvent, Events
    <3> QED
      BY <2>1, <3>1, <3>4, PushIsPut DEF Queue!Next
  <2>5. CASE PollHandle
    <3>1. events[cur].source = "keyboard" /\ PushEvent(events[cur])
      BY <2>2, <2>5 DEF PollHandle
    <3>2. events[cur] \in Events
      BY <2>1, <3>1, SeqTypes DEF IsKey
    <3> QED
      BY <2>1, <3>1, <3>2, PushIsPut DEF Queue!Next
  <2>6. CASE PollPop \/ PollSubmit \/ PollDone \/ (\E m \in SUBSET Sources : SetMode(m)) \/ Device
             \/ UNCHANGED vars
    BY <2>2, <2>6 DEF PollPop, PollSubmit, PollDone, SetMode, Device, DeviceKey, DeviceOther,
       DeviceSend, SerialArrives, vars
  <2> QED
    BY <2>3, <2>4, <2>5, <2>6 DEF Next, Poll
<1> QED
  BY <1>1, <1>2, Invariant, PTL DEF Spec, RingIsQueue, Queue!Spec
============================================================================
