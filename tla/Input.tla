------------------------------- MODULE Input -------------------------------
(***************************************************************************)
(* The input layer (input/input.c) and the keyboard driver below it        *)
(* (drivers/virtio_input.c): the device fills the buffers of its event     *)
(* queue at any time, input_poll moves what it finds there and on the      *)
(* serial line into a ring that drops its oldest event, and the readers -  *)
(* input_getc, console_read_line, the desktop's loop - take events from    *)
(* the ring and turn them into characters.                                 *)
(***************************************************************************)
EXTENDS VirtQueue, Sequences

CONSTANTS
  CAPACITY,    \* INPUT_QUEUE_CAPACITY: slots of the ring, one is kept free
  ShiftKeys,   \* INPUT_KEY_LEFTSHIFT, INPUT_KEY_RIGHTSHIFT
  Letter,      \* any key with a character that depends on shift
  MaxEvents    \* bound on what the keyboard and the serial line send

ASSUME InputAssumption ==
  /\ CAPACITY \in Nat \ {0, 1}
  /\ Letter \notin ShiftKeys
  /\ MaxEvents \in Nat

VARIABLES
  q,          \* eventq of the keyboard
  events,     \* events[]: the buffer of each descriptor
  devAvail,   \* the device (external): how much of the available ring it has used
  held,       \* the keys that are held down (external)
  uart,       \* received serial characters (external)
  ring, head, tail,   \* input_queue, input_queue_head, input_queue_tail
  mode,       \* input_mode_flags
  shift,      \* input_modifiers & INPUT_MOD_SHIFT
  pc, cur,    \* where input_poll is, and the descriptor it has in hand
  out,        \* the last character a reader got from a key
  sent,       \* history: events that the keyboard and the serial line sent
  taken,      \* history: the number of the last key event a reader took
  lost        \* history: an event of a shift key did not reach the readers, or
              \* one shift key came up while the other was down

device == <<devAvail, held, uart, sent>>
vars == <<q, events, devAvail, held, uart, ring, head, tail, mode, shift, pc,
          cur, out, sent, taken, lost>>

Keys == ShiftKeys \cup {Letter}
Slots == 0 .. CAPACITY - 1
Sources == {"serial", "keyboard"}

\* An event with its number, and whether a shift key was down when it was sent.
Events == [source : {"keyboard"}, key : Keys, pressed : {"press", "repeat", "release"},
           seq : 1 .. MaxEvents, shifted : BOOLEAN]
          \cup [source : {"serial"}, seq : 1 .. MaxEvents]
          \cup [source : {"motion"}, seq : 1 .. MaxEvents]
NoEvent == [source |-> "none", seq |-> 0]
NoChar == [upper |-> FALSE, typed |-> FALSE]

IsShift(e) == e.source = "keyboard" /\ e.key \in ShiftKeys

----------------------------------------------------------------------------
(* The ring *)

NextSlot(i) == (i + 1) % CAPACITY

IsEmpty == head = tail

\* Mutation: a full ring is not recognised.
IsFullNever == FALSE

IsFull == NextSlot(tail) = head

\* input_push_event: into a full ring it drops the oldest event.
PushEvent(e) ==
  /\ head' = IF IsFull THEN NextSlot(head) ELSE head
  /\ lost' = (lost \/ (IsFull /\ IsShift(ring[head])))
  /\ ring' = [ring EXCEPT ![tail] = e]
  /\ tail' = NextSlot(tail)

\* The events in the ring, oldest first.
Items == [i \in 1 .. (tail - head) % CAPACITY |-> ring[(head + i - 1) % CAPACITY]]

\* input_queue_serial_char
SerialEvent(n) == [source |-> "serial", seq |-> n]

----------------------------------------------------------------------------
(* input_poll *)

\* input_poll: at most one serial character, then the keyboard.
PollSerial ==
  /\ pc = "read"
  /\ IF "serial" \in mode /\ uart # << >>
       THEN PushEvent(SerialEvent(Head(uart))) /\ uart' = Tail(uart)
       ELSE UNCHANGED <<ring, head, tail, lost, uart>>
  /\ pc' = IF "keyboard" \in mode THEN "poll" ELSE "read"
  /\ UNCHANGED <<q, events, devAvail, held, mode, shift, cur, out, sent, taken>>

\* Mutation: the newest entry of the used ring is read, not the oldest.
PollPopLast ==
  /\ pc = "poll"
  /\ Pending(q) # 0
  /\ cur' = PendingElem(q, Pending(q) - 1).id
  /\ q' = [q EXCEPT !.last_used = (@ + 1) % IdxMod]
  /\ pc' = "handle"
  /\ UNCHANGED <<events, device, ring, head, tail, mode, shift, out, taken, lost>>

\* virtio_input_poll_device: virtqueue_pop_used yields a filled buffer.
PollPop ==
  /\ pc = "poll"
  /\ Pending(q) # 0
  /\ cur' = PendingElem(q, 0).id
  /\ q' = [q EXCEPT !.last_used = (@ + 1) % IdxMod]
  /\ pc' = "handle"
  /\ UNCHANGED <<events, device, ring, head, tail, mode, shift, out, taken, lost>>

\* virtio_input_handle_event: key events go into the ring; the others end at the
\* cursor.
PollHandle ==
  /\ pc = "handle"
  /\ IF events[cur].source = "keyboard" THEN PushEvent(events[cur])
                                        ELSE UNCHANGED <<ring, head, tail, lost>>
  /\ pc' = "submit"
  /\ UNCHANGED <<q, events, device, mode, shift, cur, out, taken>>

\* Mutation: the first descriptor is given back whatever buffer was read.
PollSubmitFirst ==
  /\ pc = "submit"
  /\ q' = AfterSubmit(q, 0)
  /\ pc' = "poll"
  /\ UNCHANGED <<events, device, ring, head, tail, mode, shift, cur, out, taken, lost>>

\* Mutation: the buffer is not given back.
PollSubmitNot ==
  /\ pc = "submit"
  /\ pc' = "poll"
  /\ UNCHANGED <<q, events, device, ring, head, tail, mode, shift, cur, out, taken, lost>>

\* virtio_input_submit_buffer: the buffer goes back to the device.
PollSubmit ==
  /\ pc = "submit"
  /\ q' = AfterSubmit(q, cur)
  /\ pc' = "poll"
  /\ UNCHANGED <<events, device, ring, head, tail, mode, shift, cur, out, taken, lost>>

PollDone ==
  /\ pc = "poll"
  /\ Pending(q) = 0
  /\ pc' = "read"
  /\ UNCHANGED <<q, events, device, ring, head, tail, mode, shift, cur, out, taken, lost>>

----------------------------------------------------------------------------
(* The readers *)

\* Mutation: the release of a shift key is not looked at.
ShiftAfterSticky(e) == shift \/ IsShift(e)

\* The effect of input_event_to_char on the shift state.
ShiftAfter(e) == IF IsShift(e) THEN e.pressed # "release" ELSE shift

\* input_event_allowed
Allowed(e) == e.source \in mode

\* input_translate_keypress: the case of the character, and the one it was typed in.
CharOf(e) == [upper |-> shift, typed |-> e.shifted]

\* A key event that yields a character.
GivesChar(e) ==
  Allowed(e) /\ e.source = "keyboard" /\ e.key = Letter /\ e.pressed # "release"

\* input_pop_event, then input_event_to_char, as in input_getc: an event of a
\* source that is switched off is dropped.
PopEvent ==
  /\ pc = "read"
  /\ ~IsEmpty
  /\ head' = NextSlot(head)
  /\ LET e == ring[head]
     IN  /\ shift' = IF Allowed(e) THEN ShiftAfter(e) ELSE shift
         /\ lost' = (lost \/ (~Allowed(e) /\ IsShift(e)))
         /\ out' = IF GivesChar(e) THEN CharOf(e) ELSE out
         /\ taken' = IF e.source = "keyboard" THEN e.seq ELSE taken
  /\ UNCHANGED <<q, events, device, ring, tail, mode, pc, cur>>

\* input_set_mode, from the shell's input command and the desktop.
SetMode(m) ==
  /\ pc = "read"
  /\ mode' = IF m = {} THEN {"serial"} ELSE m
  /\ UNCHANGED <<q, events, device, ring, head, tail, shift, pc, cur, out, taken, lost>>

----------------------------------------------------------------------------
(* The devices (external) *)

\* The keyboard puts an event into the next buffer it was given; without one the
\* event is gone.  A release of one of two shift keys says less than it seems to.
DeviceSend(e, ambiguous) ==
  /\ sent < MaxEvents
  /\ sent' = sent + 1
  /\ IF devAvail # q.avail_idx
       THEN LET d == q.avail[devAvail % Size]
            IN  /\ events' = [events EXCEPT ![d] = e]
                /\ q' = AfterDeviceUse(q, d, 1)
                /\ devAvail' = (devAvail + 1) % IdxMod
                /\ lost' = (lost \/ ambiguous)
       ELSE /\ lost' = (lost \/ IsShift(e))
            /\ UNCHANGED <<events, q, devAvail>>
  /\ UNCHANGED <<uart, ring, head, tail, mode, shift, pc, cur, out, taken>>

\* A key goes down, repeats, or comes up.
DeviceKey(k, p) ==
  /\ (p = "press") = (k \notin held)
  /\ held' = IF p = "release" THEN held \ {k} ELSE held \cup {k}
  /\ DeviceSend([source |-> "keyboard", key |-> k, pressed |-> p, seq |-> sent + 1,
                 shifted |-> held \cap ShiftKeys # {}],
                k \in ShiftKeys /\ p = "release" /\ held' \cap ShiftKeys # {})

\* A synchronisation or motion event.
DeviceOther ==
  /\ DeviceSend([source |-> "motion", seq |-> sent + 1], FALSE)
  /\ UNCHANGED held

\* A character arrives on the serial line.
SerialArrives ==
  /\ sent < MaxEvents
  /\ sent' = sent + 1
  /\ uart' = Append(uart, sent + 1)
  /\ UNCHANGED <<q, events, devAvail, held, ring, head, tail, mode, shift, pc, cur,
                 out, taken, lost>>

----------------------------------------------------------------------------
\* virtio_input_init: every buffer is with the device.
DriverInit ==
  /\ q = [QueueInit EXCEPT !.next = [d \in Descs |-> 0], !.num_free = 0,
                           !.avail = [d \in Descs |-> d], !.avail_idx = Size]
  /\ events = [d \in Descs |-> NoEvent]
  /\ pc = "read" /\ cur = 0

\* input_init
LayerInit ==
  /\ ring = [i \in Slots |-> NoEvent] /\ head = 0 /\ tail = 0
  /\ mode = {"serial"}
  /\ shift = FALSE

Init ==
  /\ DriverInit
  /\ LayerInit
  /\ devAvail = 0 /\ held = {} /\ uart = << >>
  /\ out = NoChar
  /\ sent = 0 /\ taken = 0 /\ lost = FALSE

Poll == PollPop \/ PollHandle \/ PollSubmit \/ PollDone
Device ==
  \/ \E k \in Keys, p \in {"press", "repeat", "release"} : DeviceKey(k, p)
  \/ DeviceOther
  \/ SerialArrives

Next ==
  \/ PollSerial
  \/ Poll
  \/ PopEvent
  \/ \E m \in SUBSET Sources : SetMode(m)
  \/ Device

Spec == Init /\ [][Next]_vars

\* The reader polls, and takes what it finds: every reader is a loop of the two.
FairSpec == Spec /\ WF_vars(PollSerial) /\ WF_vars(Poll) /\ WF_vars(PopEvent)

----------------------------------------------------------------------------
(* Properties *)

\* The type invariant of the input layer.
TypeOK ==
  /\ q \in Queues
  /\ events \in [Descs -> Events \cup {NoEvent}]
  /\ devAvail \in Indices
  /\ held \subseteq Keys
  /\ uart \in Seq(1 .. MaxEvents)
  /\ ring \in [Slots -> Events \cup {NoEvent}]
  /\ head \in Slots /\ tail \in Slots
  /\ mode \in (SUBSET Sources) \ {{}}
  /\ shift \in BOOLEAN /\ lost \in BOOLEAN
  /\ pc \in {"read", "poll", "handle", "submit"} /\ cur \in Descs
  /\ out \in [upper : BOOLEAN, typed : BOOLEAN]
  /\ sent \in 0 .. MaxEvents /\ taken \in 0 .. MaxEvents

\* The descriptors the device may use next, in order, and the filled ones.
WithDevice == [k \in 0 .. ((q.avail_idx - devAvail) % IdxMod) - 1 |-> q.avail[(devAvail + k) % Size]]
Filled == [k \in 0 .. Pending(q) - 1 |-> PendingElem(q, k).id]
InHand == IF pc \in {"handle", "submit"} THEN {cur} ELSE {}

\* Every buffer is in one place: with the device, filled and waiting, or in the
\* hands of virtio_input_poll_device.  The device never runs dry because a
\* buffer was lost, and never gets one that is still being read.
BuffersConserved ==
  LET D == {WithDevice[k] : k \in DOMAIN WithDevice}
      F == {Filled[k] : k \in DOMAIN Filled}
  IN  /\ TypeOK
      /\ D \cup F \cup InHand = Descs
      /\ Cardinality(DOMAIN WithDevice) + Cardinality(DOMAIN Filled) + Cardinality(InHand) = Size

\* Key events reach the readers in the order they were sent, whatever the ring
\* dropped and however its indices wrapped: the last one taken, those in the
\* ring, the one in hand and the filled buffers have increasing numbers.
KeysInOrder ==
  LET keys(S) == {e \in S : e.source = "keyboard"}
      queued == {i \in DOMAIN Items : Items[i].source = "keyboard"}
      waiting == {events[Filled[k]] : k \in DOMAIN Filled}
      hand == IF pc = "handle" THEN {events[cur]} ELSE {}
  IN  /\ \A i \in queued : Items[i].seq > taken
      /\ \A i, j \in queued : i < j => Items[i].seq < Items[j].seq
      /\ \A i \in queued, e \in keys(waiting \cup hand) : Items[i].seq < e.seq
      /\ \A e \in hand, f \in waiting : e.seq < f.seq
      /\ \A k, l \in DOMAIN Filled : k < l => events[Filled[k]].seq < events[Filled[l]].seq

\* A letter comes out in upper case exactly when shift was down as it was
\* struck, however far the reader is behind the keyboard, unless an event of a
\* shift key was dropped by the device, by the ring or by a change of the mode,
\* or one shift key was let go with the other held: input_event_to_char keeps
\* one flag for both, at the reader's end of the ring.
CharsAsTyped == ~lost => out.upper = out.typed

\* A keyboard that has filled all its buffers gets one back, unless the mode no
\* longer includes it: virtio_input_poll_device never needs a free buffer to go
\* on.
DeviceGetsBuffers ==
  devAvail = q.avail_idx ~> (devAvail # q.avail_idx \/ "keyboard" \notin mode)

\* What the readers see is a queue of at most CAPACITY - 1 events that forgets
\* the oldest when one more is put into it.
Queue == INSTANCE DropOldestQueue
  WITH items <- Items, Bound <- CAPACITY - 1, Items <- Events
RingIsQueue == Queue!Spec
============================================================================
