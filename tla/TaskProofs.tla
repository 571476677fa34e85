----------------------------- MODULE TaskProofs -----------------------------
(***************************************************************************)
(* Proofs about the scheduler of module Task, for every table size and     *)
(* every number of steps.                                                  *)
(***************************************************************************)
EXTENDS Task, WellFoundedInduction, TLAPS

USE DEF sched, locks, user

\* A round-robin distance always leads to a slot of the table.
LEMMA CandidateInTable ==
  ASSUME NEW c \in Contexts, NEW i \in 1 .. TASK_MAX
  PROVE  Candidate(c, i) \in Tasks
BY TaskMaxAssumption DEF Candidate, Contexts, Tasks, Kernel

\* A nonempty set of naturals has a nearest element, and it is one of the set.
LEMMA NearestInSet ==
  ASSUME NEW D \in SUBSET Nat, D # {}
  PROVE  Nearest(D) \in D
<1> DEFINE Less == OpToRel(<, Nat)
<1>1. IsWellFoundedOn(Less, Nat)
  BY NatLessThanWellFounded
<1>2. \A i, j \in Nat : <<j, i>> \in Less <=> j < i
  BY DEF OpToRel
<1> HIDE DEF Less
<1>3. \E i \in D : \A j \in D : ~ (<<j, i>> \in Less)
  BY <1>1, WFMin
<1>4. PICK i \in D : \A j \in D : ~ (<<j, i>> \in Less)
  BY <1>3
<1>5. ASSUME NEW j \in D  PROVE i <= j
  <2>1. i \in Nat /\ j \in Nat
    OBVIOUS
  <2>2. ~ (j < i)
    BY <2>1, <1>2, <1>4
  <2> QED  BY <2>1, <2>2
<1> QED  BY <1>5 DEF Nearest

\* task_pick_next returns a READY task, the kernel or (for the kernel) nothing.
LEMMA PickNextSound ==
  ASSUME NEW st, NEW c \in Contexts
  PROVE  \/ PickNext(st, c) \in Tasks /\ st[PickNext(st, c)] = "READY"
         \/ PickNext(st, c) = Kernel /\ c # Kernel
         \/ PickNext(st, c) = NoTask /\ c = Kernel
<1>1. ReadyAt(st, c) \in SUBSET Nat
  BY TaskMaxAssumption DEF ReadyAt
<1>2. CASE ReadyAt(st, c) # {}
  <2>1. Nearest(ReadyAt(st, c)) \in ReadyAt(st, c)
    BY <1>1, <1>2, NearestInSet
  <2>2. PickNext(st, c) = Candidate(c, Nearest(ReadyAt(st, c)))
    BY <1>2 DEF PickNext
  <2> QED  BY <2>1, <2>2, CandidateInTable DEF ReadyAt
<1>3. CASE ReadyAt(st, c) = {}
  BY <1>3 DEF PickNext
<1> QED  BY <1>2, <1>3

----------------------------------------------------------------------------
(* A switch *)

\* What every action but a switch leaves alone.
Rest == <<irqsOn, slot, steps, lock, flags, userActive, userSpsr>>

\* The trap frame of the running context is a frame of that context.
LEMMA TrapFrameType ==
  ASSUME TypeOK, ContextIntegrity, ~Lost, NEW r \in KernelPCs \cup TaskPCs
  PROVE  /\ TrapFrame(r) \in Frames
         /\ TrapFrame(r).own = current
         /\ TrapFrame(r).pc = r
         /\ TrapFrame(r).ps = ps
BY DEF TypeOK, ContextIntegrity, TrapFrame, Frames, Lost, ENTRY_RESERVE

\* Returning from an exception to frame f, with the scheduler state of the
\* running context c, keeps the CPU's registers typed.
LEMMA EretType ==
  ASSUME NEW f \in Frames \cup {NoFrame}, Eret(f)
  PROVE  /\ own' \in Contexts \cup {NoTask}
         /\ pc' \in KernelPCs \cup TaskPCs \cup {"wild"}
         /\ ps' \in PStates /\ spsr' \in PStates
         /\ sp' \in Int
         /\ elr' \in KernelPCs \cup TaskPCs \cup {"wild"}
         /\ pc' = f.pc /\ own' = f.own /\ elr' = f.pc /\ ps' = f.ps
BY DEF Eret, Frames, NoFrame, PStates, ENTRY_RESERVE

\* task_schedule_from_exception preserves the invariant, from any point of the
\* running context at which it holds no lock.
LEMMA ScheduleKeeps ==
  ASSUME IInv, ~Lost, NEW r \in KernelPCs \cup TaskPCs,
         pc \notin {"spin", "kprintf"},
         current = Kernel => r = pc \/ (r = "check" /\ pc = "yield"),
         current \in Tasks /\ state[current] = "RUNNING" => r \in Preemptible,
         Schedule(r), UNCHANGED Rest
  PROVE  IInv'
<1> USE DEF Rest
<1> DEFINE saved == SaveFrame(current, TrapFrame(r))
           next == PickNext(state, current)
<1>1. /\ TypeOK /\ ContextIntegrity /\ FramesInv /\ UnusedInv /\ KernelInv
      /\ LockInv /\ UserInv /\ WorkInv
  BY DEF IInv
<1>2. /\ TrapFrame(r) \in Frames
      /\ TrapFrame(r).own = current
      /\ TrapFrame(r).pc = r
      /\ TrapFrame(r).ps = ps
  BY <1>1, TrapFrameType
<1>3. /\ frame' = saved
      /\ saved \in [Contexts -> Frames \cup {NoFrame}]
      /\ saved[current] = TrapFrame(r)
      /\ \A c \in Contexts \ {current} : saved[c] = frame[c]
  BY <1>1, <1>2 DEF Schedule, SaveFrame, TypeOK
<1>4. \/ next \in Tasks /\ state[next] = "READY"
      \/ next = Kernel /\ current # Kernel
      \/ next = NoTask /\ current = Kernel
  BY <1>1, PickNextSound DEF TypeOK
<1>5. lock = NoTask
  BY <1>1 DEF LockInv
<1>6. state[current] \in {"RUNNING", "FINISHED"}
  BY <1>1 DEF ContextIntegrity
<1>7. NoTask \notin Contexts /\ Kernel \notin Tasks /\ Contexts = Tasks \cup {Kernel}
  BY TaskMaxAssumption DEF NoTask, Contexts, Kernel, Tasks
<1> HIDE DEF saved, next
<1>8. CASE next \in {NoTask, current}
  <2>1. Eret(saved[current]) /\ UNCHANGED <<state, current>>
    BY <1>8 DEF Schedule, saved, next
  <2>2. pc' = r /\ own' = current /\ elr' = r /\ ps' = ps
    BY <2>1, <1>2, <1>3 DEF Eret
  <2>3. TypeOK'
    <3>1. saved[current] \in Frames \cup {NoFrame}
      BY <1>1, <1>3 DEF TypeOK
    <3> QED  BY <1>1, <1>3, <2>1, <3>1, EretType DEF TypeOK
  <2>4. current = Kernel
    BY <1>4, <1>6, <1>7, <1>8
  <2>5. r \in KernelPCs /\ r # "wild"
    BY <1>1, <2>4 DEF ContextIntegrity, PCsOf, KernelPCs
  <2>6. ContextIntegrity'
    BY <1>1, <2>1, <2>2, <2>4, <2>5 DEF ContextIntegrity, PCsOf, Lost, TaskPCs
  <2>7. PcOf(Kernel) = pc /\ PcOf(Kernel)' = r
    BY <2>1, <2>2, <2>4 DEF PcOf
  <2>8. FramesInv' /\ UnusedInv'
    BY <1>1, <1>3, <1>7, <2>1, <2>2, <2>4, <2>7 DEF FramesInv, UnusedInv, Resumable
  <2>9. KernelInv'
    BY <1>1, <1>3, <1>7, <2>1, <2>4, <2>7 DEF KernelInv, ActiveTasks, Quiet
  <2>10. LockInv'
    BY <1>1, <1>5, <2>2, <2>4 DEF LockInv
  <2>11. UserInv'
    BY <1>1, <2>1, <2>2, <2>4 DEF UserInv, ActiveTasks, Quiet
  <2>12. WorkInv'
    BY <1>1, <1>7, <2>1, <2>2, <2>4 DEF WorkInv
  <2>13. ~Lost'
    BY <2>2, <2>5 DEF Lost
  <2> QED
    BY <1>5, <2>3, <2>6, <2>8, <2>9, <2>10, <2>11, <2>12, <2>13
    DEF IInv, LostOnlyInCreate
<1>9. CASE next \notin {NoTask, current}
  <2>1. /\ Eret(saved[next])
        /\ state' = [Demote(state, current) EXCEPT ![next] = "RUNNING"]
        /\ current' = next
    BY <1>9 DEF Schedule, saved, next
  <2>2. next \in Contexts \ {current} /\ state[next] = "READY"
    BY <1>1, <1>4, <1>7, <1>9 DEF KernelInv
  <2>3. /\ state' \in [Contexts -> {"UNUSED", "READY", "RUNNING", "FINISHED"}]
        /\ state'[next] = "RUNNING"
        /\ state'[current] = IF state[current] = "RUNNING" THEN "READY" ELSE "FINISHED"
        /\ \A c \in Contexts \ {current, next} : state'[c] = state[c]
    BY <1>1, <1>6, <2>1, <2>2 DEF TypeOK, Demote
  <2>4. saved[next] = frame[next] /\ saved[next] \in Frames \cup {NoFrame}
    BY <1>3, <2>2
  <2>5. /\ pc' = frame[next].pc /\ own' = frame[next].own /\ elr' = frame[next].pc
        /\ ps' = frame[next].ps
    BY <2>1, <2>4, EretType
  <2>6. TypeOK'
    BY <1>1, <1>3, <2>1, <2>2, <2>3, <2>4, EretType DEF TypeOK
  <2>7. CASE next = slot /\ PcOf(Kernel) = "c_stack"
    <3>1. frame[next] = NoFrame /\ slot \in Tasks
      BY <1>1, <2>7 DEF KernelInv
    <3>2. Lost' /\ own' = NoTask
      BY <2>5, <3>1 DEF Lost, NoFrame
    <3>3. frame'[Kernel].pc = "c_stack"
      BY <1>2, <1>3, <1>7, <2>7 DEF PcOf
    <3>4. state'[Kernel] = "READY"
      BY <1>1, <1>7, <2>3, <2>7, <3>1 DEF KernelInv
    <3>5. WorkInv'
      BY <1>1, <1>6, <1>7, <2>1, <2>2, <2>3, <3>2 DEF WorkInv, Lost
    <3>6. ~userActive
      BY <1>1, <2>2, <2>7, <3>1 DEF UserInv, ActiveTasks
    <3> QED  BY <1>5, <2>6, <3>2, <3>3, <3>4, <3>5, <3>6 DEF IInv, LostOnlyInCreate
  <2>8. CASE Resumable(next)
    <3>1. /\ pc' \in PCsOf(next) \ {"spin", "kprintf", "finished", "after_finish", "after_exit"}
          /\ pc' # "wild" /\ own' = next
      BY <2>5, <2>8 DEF Resumable, PCsOf, KernelPCs, TaskPCs, Preemptible
    <3>2. WorkInv'
      BY <1>1, <1>6, <1>7, <2>1, <2>2, <2>3, <3>1 DEF WorkInv
    <3>3. ContextIntegrity'
      BY <1>1, <2>1, <2>2, <2>3, <3>1 DEF ContextIntegrity
    <3>4. PcOf(Kernel)' = IF current = Kernel THEN r ELSE PcOf(Kernel)
      BY <1>2, <1>3, <1>7, <2>1, <2>2, <2>5 DEF PcOf
    <3>5. PcOf(Kernel)' = PcOf(Kernel) \/ PcOf(Kernel)' = "check"
      BY <3>4 DEF PcOf
    <3>6. UnusedInv'
      BY <1>1, <1>3, <1>7, <2>2, <2>3 DEF UnusedInv, TypeOK
    <3>7. FramesInv'
      <4> SUFFICES ASSUME NEW c \in Contexts \ {next}, state'[c] = "READY"
                   PROVE  Resumable(c)' \/ (c = slot /\ PcOf(Kernel)' = "c_stack")
        BY <2>1 DEF FramesInv
      <4>1. CASE c = current
        BY <4>1, <1>1, <1>2, <1>3, <1>7, <2>3 DEF ContextIntegrity, PCsOf, KernelPCs, TaskPCs, Resumable, UserInv, Quiet
      <4>2. CASE c # current
        BY <4>2, <1>1, <1>3, <2>3, <3>4 DEF FramesInv, PcOf, Resumable
      <4> QED  BY <4>1, <4>2
    <3>8. KernelInv'
      <4>1. PcOf(Kernel)' \notin Quiet
        BY <1>1, <1>7, <2>2, <3>5 DEF KernelInv, Quiet, ActiveTasks, TypeOK
      <4>2. state'[Kernel] = IF next = Kernel THEN "RUNNING" ELSE "READY"
        BY <1>1, <1>7, <2>2, <2>3 DEF KernelInv
      <4>3. ASSUME PcOf(Kernel)' \in {"c_ready", "c_stack"}
            PROVE  slot \in Tasks /\ PcOf(Kernel) = PcOf(Kernel)'
        BY <4>3, <1>1, <3>5 DEF KernelInv
      <4>4. PcOf(Kernel)' = "c_ready" => state'[slot] = "UNUSED"
        BY <4>3, <1>1, <1>6, <1>7, <2>2, <2>3 DEF KernelInv
      <4>5. PcOf(Kernel)' = "c_stack" => state'[slot] = "READY" /\ frame'[slot] = NoFrame
        BY <4>3, <1>1, <1>3, <1>6, <1>7, <2>2, <2>3, <2>8 DEF Resumable, KernelInv, Frames, NoFrame
      <4> QED  BY <2>1, <4>1, <4>2, <4>3, <4>4, <4>5 DEF KernelInv
    <3>9. LockInv'
      BY <1>5, <3>1 DEF LockInv
    <3>10. UserInv'
      <4>1. ~userActive
        BY <1>1, <1>7, <2>2 DEF UserInv, ActiveTasks, TypeOK
      <4> QED  BY <4>1, <2>5, <2>8 DEF UserInv, Resumable
    <3>11. ~Lost'
      BY <3>1 DEF Lost
    <3> QED
      BY <1>5, <2>6, <3>2, <3>3, <3>6, <3>7, <3>8, <3>9, <3>10, <3>11
      DEF IInv, LostOnlyInCreate
  <2> QED
    BY <1>1, <2>2, <2>7, <2>8 DEF FramesInv
<1> QED  BY <1>8, <1>9

\* task_exit_from_exception preserves the invariant: it is the switch of
\* task_schedule_from_exception after the running task has been marked.
LEMMA TaskExitKeeps ==
  ASSUME IInv, ~Lost, current \in Tasks, pc = "work", steps[current] = Steps,
         TaskExit, UNCHANGED Rest
  PROVE  IInv'
<1> USE DEF Rest
<1> DEFINE saved == SaveFrame(current, TrapFrame("after_exit"))
           marked == [state EXCEPT ![current] = "FINISHED"]
           next == PickNext(marked, current)
<1>1. /\ TypeOK /\ ContextIntegrity /\ FramesInv /\ UnusedInv /\ KernelInv
      /\ LockInv /\ UserInv /\ WorkInv
  BY DEF IInv
<1>2. TrapFrame("after_exit") \in Frames
  BY <1>1, TrapFrameType DEF TaskPCs
<1>3. /\ frame' = saved
      /\ saved \in [Contexts -> Frames \cup {NoFrame}]
      /\ \A c \in Contexts \ {current} : saved[c] = frame[c]
  BY <1>1, <1>2 DEF TaskExit, SaveFrame, TypeOK
<1>4. /\ marked \in [Contexts -> {"UNUSED", "READY", "RUNNING", "FINISHED"}]
      /\ marked[current] = "FINISHED"
      /\ \A c \in Contexts \ {current} : marked[c] = state[c]
  BY <1>1 DEF TypeOK
<1>5. NoTask \notin Contexts /\ Kernel \notin Tasks /\ Contexts = Tasks \cup {Kernel}
  BY TaskMaxAssumption DEF NoTask, Contexts, Kernel, Tasks
<1>6. \/ next \in Tasks /\ marked[next] = "READY"
      \/ next = Kernel
  BY <1>1, <1>5, PickNextSound DEF TypeOK
<1> HIDE DEF saved, next, marked
<1>7. /\ Eret(saved[next])
      /\ state' = [marked EXCEPT ![next] = "RUNNING"]
      /\ current' = next
  BY DEF TaskExit, saved, next, marked
<1>8. next \in Contexts \ {current} /\ state[next] = "READY"
  BY <1>1, <1>4, <1>5, <1>6 DEF KernelInv
<1>9. /\ state' \in [Contexts -> {"UNUSED", "READY", "RUNNING", "FINISHED"}]
      /\ state'[next] = "RUNNING"
      /\ state'[current] = "FINISHED"
      /\ \A c \in Contexts \ {current, next} : state'[c] = state[c]
  BY <1>4, <1>7, <1>8
<1>10. saved[next] = frame[next] /\ saved[next] \in Frames \cup {NoFrame}
  BY <1>3, <1>8
<1>11. /\ pc' = frame[next].pc /\ own' = frame[next].own /\ elr' = frame[next].pc
       /\ ps' = frame[next].ps
  BY <1>7, <1>10, EretType
<1>12. TypeOK'
  BY <1>1, <1>3, <1>7, <1>8, <1>9, <1>10, EretType DEF TypeOK
<1>13. lock = NoTask
  BY <1>1 DEF LockInv
<1>14. PcOf(Kernel) = frame[Kernel].pc
  BY <1>5 DEF PcOf
<1>15. CASE next = slot /\ PcOf(Kernel) = "c_stack"
  <2>1. frame[next] = NoFrame /\ slot \in Tasks
    BY <1>1, <1>15 DEF KernelInv
  <2>2. Lost' /\ own' = NoTask
    BY <1>11, <2>1 DEF Lost, NoFrame
  <2>3. frame'[Kernel].pc = "c_stack" /\ state'[Kernel] = "READY"
    BY <1>1, <1>3, <1>5, <1>9, <1>14, <1>15, <2>1 DEF KernelInv
  <2>4. WorkInv'
    BY <1>1, <1>5, <1>7, <1>8, <1>9, <2>2 DEF WorkInv, Lost
  <2>5. ~userActive
    BY <1>1, <1>8, <1>15, <2>1 DEF UserInv, ActiveTasks
  <2> QED  BY <1>12, <1>13, <2>2, <2>3, <2>4, <2>5 DEF IInv, LostOnlyInCreate
<1>16. CASE Resumable(next)
  <2>1. /\ pc' \in PCsOf(next) \ {"spin", "kprintf", "finished", "after_finish", "after_exit"}
        /\ pc' # "wild" /\ own' = next
    BY <1>11, <1>16 DEF Resumable, PCsOf, KernelPCs, TaskPCs, Preemptible
  <2>2. WorkInv'
    BY <1>1, <1>5, <1>7, <1>8, <1>9, <2>1 DEF WorkInv
  <2>3. ContextIntegrity'
    BY <1>1, <1>7, <1>8, <1>9, <2>1 DEF ContextIntegrity
  <2>4. PcOf(Kernel)' = PcOf(Kernel)
    BY <1>3, <1>5, <1>7, <1>8, <1>11, <1>14 DEF PcOf
  <2>5. FramesInv' /\ UnusedInv'
    BY <1>1, <1>3, <1>5, <1>7, <1>8, <1>9, <2>4 DEF FramesInv, UnusedInv, Resumable
  <2>6. KernelInv'
    <3>1. PcOf(Kernel) \notin Quiet
      BY <1>1, <1>5 DEF KernelInv
    <3>2. state'[Kernel] = IF next = Kernel THEN "RUNNING" ELSE "READY"
      BY <1>1, <1>5, <1>8, <1>9 DEF KernelInv
    <3>3. PcOf(Kernel) = "c_ready" => state'[slot] = "UNUSED"
      BY <1>1, <1>5, <1>8, <1>9 DEF KernelInv, ContextIntegrity
    <3>4. PcOf(Kernel) = "c_stack" => state'[slot] = "READY" /\ frame'[slot] = NoFrame
      BY <1>1, <1>3, <1>5, <1>8, <1>9, <1>16 DEF Resumable, KernelInv, ContextIntegrity, Frames, NoFrame
    <3> QED  BY <1>1, <1>7, <2>4, <3>1, <3>2, <3>3, <3>4 DEF KernelInv
  <2>7. LockInv'
    BY <1>13, <2>1 DEF LockInv
  <2>8. UserInv'
    BY <1>1, <1>5, <1>11, <1>16 DEF UserInv, Resumable
  <2>9. ~Lost'
    BY <2>1 DEF Lost
  <2> QED
    BY <1>12, <1>13, <2>2, <2>3, <2>5, <2>6, <2>7, <2>8, <2>9
    DEF IInv, LostOnlyInCreate
<1> QED  BY <1>1, <1>8, <1>15, <1>16 DEF FramesInv

----------------------------------------------------------------------------
(* The other actions *)

\* The kernel context is not a table slot, and the null task is no context.
LEMMA ContextsDistinct ==
  NoTask \notin Contexts /\ Kernel \notin Tasks /\ Contexts = Tasks \cup {Kernel}
BY TaskMaxAssumption DEF NoTask, Contexts, Kernel, Tasks

\* A step at a program point of context c is a step of the running context.
LEMMA AtRunning ==
  ASSUME IInv, NEW c \in Contexts, NEW p \in KernelPCs \cup TaskPCs, At(c, p)
  PROVE  ~Lost /\ current = c /\ pc = p
BY ContextsDistinct DEF IInv, At, ContextIntegrity, Lost

\* The steps of task_create.
LEMMA CreateKeeps ==
  ASSUME IInv, TaskCreate \/ CreateReady \/ CreateStack
  PROVE  IInv'
<1> USE DEF IInv, TypeOK, Lost, LostOnlyInCreate, ContextIntegrity, PCsOf, FramesInv,
            UnusedInv, KernelInv, Resumable, PcOf, LockInv, UserInv, WorkInv,
            ActiveTasks, Quiet, Preemptible, KernelPCs, TaskPCs, PStates, Goto, At
<1>0. NoTask \notin Contexts /\ Kernel \notin Tasks /\ Contexts = Tasks \cup {Kernel}
  BY ContextsDistinct
<1>1. CASE TaskCreate
  <2>1. UnusedSlots # {} => Nearest(UnusedSlots) \in UnusedSlots
    <3>1. UnusedSlots \in SUBSET Nat
      BY TaskMaxAssumption DEF UnusedSlots, Tasks
    <3> QED  BY <3>1, NearestInSet
  <2>2. UnusedSlots = {t \in Tasks : state[t] = "UNUSED"}
    BY DEF UnusedSlots
  <2>3. CASE pc' = "panic"
    BY <1>0, <1>1, <2>3 DEF TaskCreate
  <2>4. CASE pc' = "c_ready"
    <3>1. slot' \in Tasks /\ state[slot'] = "UNUSED"
      BY <1>1, <2>1, <2>2, <2>4 DEF TaskCreate
    <3> QED  BY <1>0, <1>1, <2>4, <3>1 DEF TaskCreate
  <2> QED  BY <1>1, <2>3, <2>4 DEF TaskCreate
<1>2. CASE CreateReady
  BY <1>0, <1>2 DEF CreateReady
<1>3. CASE CreateStack
  <2>1. slot \in Tasks /\ current = Kernel
    BY <1>0, <1>3 DEF CreateStack
  <2>2. FreshFrame(slot) \in Frames
    BY <1>0, <2>1 DEF FreshFrame, Frames, FRAME_SIZE
  <2>3. /\ FreshFrame(slot).own = slot /\ FreshFrame(slot).pc = "trampoline"
        /\ FreshFrame(slot).ps = ps /\ ps # "EL0"
    BY <1>3 DEF FreshFrame, CreateStack
  <2>4. /\ frame' \in [Contexts -> Frames \cup {NoFrame}]
        /\ frame'[slot] = FreshFrame(slot)
        /\ \A c \in Contexts \ {slot} : frame'[c] = frame[c]
    BY <1>0, <1>3, <2>1, <2>2 DEF CreateStack
  <2> QED  BY <1>0, <1>3, <2>1, <2>2, <2>3, <2>4 DEF CreateStack
<1> QED  BY <1>1, <1>2, <1>3

\* Waiting for the tasks, and enabling the interrupts.
LEMMA WaitKeeps ==
  ASSUME IInv, StartWait \/ WaitCheck \/ EnableInterrupts
  PROVE  IInv'
<1> USE DEF IInv, TypeOK, Lost, LostOnlyInCreate, ContextIntegrity, PCsOf, FramesInv,
            UnusedInv, KernelInv, Resumable, PcOf, LockInv, UserInv, WorkInv,
            ActiveTasks, Quiet, Preemptible, KernelPCs, TaskPCs, PStates, Goto, At
<1>0. NoTask \notin Contexts /\ Kernel \notin Tasks /\ Contexts = Tasks \cup {Kernel}
  BY ContextsDistinct
<1>1. CASE StartWait
  BY <1>0, <1>1 DEF StartWait
<1>2. CASE WaitCheck
  BY <1>0, <1>2 DEF WaitCheck
<1>3. CASE EnableInterrupts
  BY <1>0, <1>3 DEF EnableInterrupts
<1> QED  BY <1>1, <1>2, <1>3

\* A user program, but for its yield.
LEMMA UserKeeps ==
  ASSUME IInv, \/ UserRun \/ EnterElr \/ EnterSpsr \/ EnterEret
               \/ UserSyscall \/ UserExit \/ UserResume \/ UserFault
  PROVE  IInv'
<1> USE DEF IInv, TypeOK, Lost, LostOnlyInCreate, ContextIntegrity, PCsOf, FramesInv,
            UnusedInv, KernelInv, Resumable, PcOf, LockInv, UserInv, WorkInv,
            ActiveTasks, Quiet, Preemptible, KernelPCs, TaskPCs, PStates, Goto, At
<1>0. NoTask \notin Contexts /\ Kernel \notin Tasks /\ Contexts = Tasks \cup {Kernel}
  BY ContextsDistinct
<1>1. CASE UserRun
  BY <1>0, <1>1 DEF UserRun
<1>2. CASE EnterElr
  BY <1>0, <1>2 DEF EnterElr
<1>3. CASE EnterSpsr
  BY <1>0, <1>3 DEF EnterSpsr
<1>4. CASE EnterEret
  BY <1>0, <1>4 DEF EnterEret
<1>5. CASE UserSyscall
  BY <1>0, <1>5 DEF UserSyscall, ReturnToFrame
<1>6. CASE UserExit
  BY <1>0, <1>6 DEF UserExit
<1>7. CASE UserResume
  <2>1. ~Lost /\ current = Kernel /\ pc = "resume" /\ ActiveTasks = {}
    BY <1>0, <1>7 DEF UserResume
  <2>2. UserInv' /\ LockInv' /\ KernelInv'
    BY <1>0, <1>7, <2>1 DEF UserResume
  <2>3. ContextIntegrity'
    BY <1>0, <1>7, <2>1 DEF UserResume
  <2>4. FramesInv'
    BY <1>0, <1>7, <2>1 DEF UserResume
  <2>5. UnusedInv'
    BY <1>0, <1>7, <2>1 DEF UserResume
  <2>6. WorkInv'
    BY <1>0, <1>7, <2>1 DEF UserResume
  <2>7. TypeOK'
    <3>1. userActive' \in BOOLEAN
      BY <1>7 DEF UserResume
    <3>2. pc' \in KernelPCs
      BY <1>7 DEF UserResume
    <3> QED  BY <1>7, <3>1, <3>2 DEF UserResume
  <2> QED  BY <1>7, <2>2, <2>3, <2>4, <2>5, <2>6, <2>7 DEF UserResume
<1>8. CASE UserFault
  <2>1. ~Lost /\ current = Kernel
    BY <1>0, <1>8 DEF UserFault
  <2>2. UserInv' /\ LockInv' /\ KernelInv'
    BY <1>0, <1>8, <2>1 DEF UserFault
  <2>3. ContextIntegrity' /\ FramesInv' /\ UnusedInv' /\ WorkInv' /\ TypeOK'
    BY <1>0, <1>8, <2>1 DEF UserFault
  <2> QED  BY <1>8, <2>2, <2>3 DEF UserFault
<1> QED  BY <1>1, <1>2, <1>3, <1>4, <1>5, <1>6, <1>7, <1>8

\* A task's own steps, but for the ones that switch.
LEMMA TaskKeeps ==
  ASSUME IInv, NEW t \in Tasks, TaskEntry(t) \/ TaskLoop(t) \/ TaskReturn(t)
  PROVE  IInv'
<1> USE DEF IInv, TypeOK, Lost, LostOnlyInCreate, ContextIntegrity, PCsOf, FramesInv,
            UnusedInv, KernelInv, Resumable, PcOf, LockInv, UserInv, WorkInv,
            ActiveTasks, Quiet, Preemptible, KernelPCs, TaskPCs, PStates, Goto, At
<1>0. NoTask \notin Contexts /\ Kernel \notin Tasks /\ Contexts = Tasks \cup {Kernel}
  BY ContextsDistinct
<1>1. CASE TaskEntry(t)
  BY <1>0, <1>1 DEF TaskEntry
<1>2. CASE TaskLoop(t)
  BY <1>0, <1>2 DEF TaskLoop
<1>3. CASE TaskReturn(t)
  BY <1>0, <1>3 DEF TaskReturn
<1> QED  BY <1>1, <1>2, <1>3

\* kprintf.
LEMMA KprintfKeeps ==
  ASSUME IInv, NEW c \in Contexts, Kprintf(c)
  PROVE  IInv'
<1> USE DEF IInv, TypeOK, Lost, LostOnlyInCreate, ContextIntegrity, PCsOf, FramesInv,
            UnusedInv, KernelInv, Resumable, PcOf, LockInv, UserInv, WorkInv,
            ActiveTasks, Quiet, Preemptible, KernelPCs, TaskPCs, PStates, Goto, At
<1>0. NoTask \notin Contexts /\ Kernel \notin Tasks /\ Contexts = Tasks \cup {Kernel}
  BY ContextsDistinct
<1>1. CASE KprintfEnter(c)
  BY <1>0, <1>1 DEF KprintfEnter
<1>2. CASE KprintfLock(c)
  BY <1>0, <1>2 DEF KprintfLock
<1>3. CASE KprintfUnlock(c)
  BY <1>0, <1>3, StepsAssumption DEF KprintfUnlock, AfterKprintf
<1> QED  BY <1>1, <1>2, <1>3 DEF Kprintf

\* An interrupt that does not switch.
LEMMA DeviceIrqKeeps ==
  ASSUME IInv, DeviceIrq
  PROVE  IInv'
<1> USE DEF IInv, TypeOK, Lost, LostOnlyInCreate, ContextIntegrity, PCsOf, FramesInv,
            UnusedInv, KernelInv, Resumable, PcOf, LockInv, UserInv, WorkInv,
            ActiveTasks, Quiet, Preemptible, KernelPCs, TaskPCs, PStates, Goto, At
<1>0. NoTask \notin Contexts /\ Kernel \notin Tasks /\ Contexts = Tasks \cup {Kernel}
  BY ContextsDistinct
<1> QED  BY <1>0 DEF DeviceIrq, ReturnToFrame, Interruptible

----------------------------------------------------------------------------
(* The invariant *)

\* The boot state satisfies the invariant.
LEMMA InitInv == Init => IInv
<1> USE DEF Init, PStates, KernelPCs
<1>0. NoTask \notin Contexts /\ Kernel \notin Tasks /\ Contexts = Tasks \cup {Kernel}
  BY ContextsDistinct
<1>1. Init => TypeOK
  <2>1. Init => irqsOn \in BOOLEAN /\ userActive \in BOOLEAN
    OBVIOUS
  <2>2. Init => /\ state \in [Contexts -> {"UNUSED", "READY", "RUNNING", "FINISHED"}]
                /\ frame \in [Contexts -> Frames \cup {NoFrame}]
                /\ flags \in [Contexts -> PStates]
                /\ steps \in [Tasks -> 0 .. Steps]
    BY <1>0, StepsAssumption
  <2> QED  BY <1>0, <2>1, <2>2 DEF TypeOK
<1>2. Init => ContextIntegrity /\ FramesInv /\ UnusedInv
  BY <1>0 DEF ContextIntegrity, PCsOf, FramesInv, UnusedInv
<1>3. Init => KernelInv /\ LockInv /\ UserInv /\ WorkInv /\ ~Lost
  BY <1>0 DEF KernelInv, PcOf, ActiveTasks, LockInv, UserInv, WorkInv, Lost
<1> QED  BY <1>1, <1>2, <1>3 DEF IInv, LostOnlyInCreate

\* Every step preserves the invariant: one case for each action that switches
\* contexts, and the lemmas above for the others.
LEMMA NextInv == IInv /\ [Next]_vars => IInv'
<1> SUFFICES ASSUME IInv, [Next]_vars PROVE IInv'
  OBVIOUS
<1>0. NoTask \notin Contexts /\ Kernel \notin Tasks /\ Contexts = Tasks \cup {Kernel}
  BY ContextsDistinct
<1>1. CASE UNCHANGED vars
  BY <1>1 DEF vars, IInv, TypeOK, LostOnlyInCreate, ContextIntegrity, FramesInv,
    Resumable, UnusedInv, KernelInv, PcOf, LockInv, UserInv, WorkInv, Lost, ActiveTasks
<1>2. \A c \in Contexts, p \in KernelPCs \cup TaskPCs :
        At(c, p) => ~Lost /\ current = c /\ pc = p
  <2> SUFFICES ASSUME NEW c \in Contexts, NEW p \in KernelPCs \cup TaskPCs, At(c, p)
               PROVE  ~Lost /\ current = c /\ pc = p
    OBVIOUS
  <2> QED  BY AtRunning
<1>3. CASE KernelCode
  <2>1. CASE WaitYield
    <3>1. ~Lost /\ current = Kernel /\ pc = "yield"
      BY <1>0, <1>2, <2>1 DEF WaitYield, KernelPCs
    <3> QED  BY <1>0, <2>1, <3>1, ScheduleKeeps DEF WaitYield, Rest, KernelPCs
  <2>2. CASE UserYield
    <3>1. ~Lost /\ current = Kernel /\ pc = "el0"
      BY <1>0, <1>2, <2>2 DEF UserYield, KernelPCs
    <3> QED  BY <1>0, <2>2, <3>1, ScheduleKeeps DEF UserYield, Rest, KernelPCs
  <2> QED  BY <1>3, <2>1, <2>2, CreateKeeps, WaitKeeps, UserKeeps DEF KernelCode
<1>4. ASSUME NEW t \in Tasks, TaskCode(t) PROVE IInv'
  <2>1. CASE TaskYield(t)
    <3>1. ~Lost /\ current = t /\ pc = "loop"
      BY <1>0, <1>2, <2>1 DEF TaskYield, TaskPCs
    <3> QED  BY <1>0, <2>1, <3>1, ScheduleKeeps DEF TaskYield, Rest, TaskPCs, Preemptible
  <2>2. CASE FinishedYield(t)
    <3>1. ~Lost /\ current = t /\ pc = "finished"
      BY <1>0, <1>2, <2>2 DEF FinishedYield, TaskPCs
    <3>2. state[current] # "RUNNING"
      BY <3>1 DEF IInv, ContextIntegrity
    <3> QED
      BY <1>0, <2>2, <3>1, <3>2, ScheduleKeeps DEF FinishedYield, Rest, TaskPCs
  <2>3. CASE SysExitTask(t)
    <3>1. ~Lost /\ current = t /\ pc = "work"
      BY <1>0, <1>2, <2>3 DEF SysExitTask, TaskPCs
    <3>2. ~userActive
      BY <1>0, <3>1 DEF IInv, UserInv
    <3> QED  BY <1>0, <2>3, <3>1, <3>2, TaskExitKeeps DEF SysExitTask, Rest
  <2> QED  BY <1>4, <2>1, <2>2, <2>3, TaskKeeps DEF TaskCode
<1>5. ASSUME NEW c \in Contexts, Kprintf(c) PROVE IInv'
  BY <1>5, KprintfKeeps
<1>6. CASE TimerIrq
  <2>1. ~Lost /\ pc \notin {"spin", "kprintf"}
    BY <1>6 DEF TimerIrq, Interruptible, Lost, IInv, LockInv
  <2>2. pc \in KernelPCs \cup TaskPCs
    BY <2>1 DEF IInv, TypeOK, Lost
  <2>3. current \in Tasks /\ state[current] = "RUNNING" => pc \in Preemptible
    BY <1>0, <2>1 DEF IInv, ContextIntegrity, PCsOf, TaskPCs, Preemptible
  <2> QED  BY <1>6, <2>1, <2>2, <2>3, ScheduleKeeps DEF TimerIrq, Rest
<1>7. CASE DeviceIrq
  BY <1>7, DeviceIrqKeeps
<1>8. CASE Stuck
  BY <1>1, <1>8 DEF Stuck
<1> QED  BY <1>1, <1>3, <1>4, <1>5, <1>6, <1>7, <1>8 DEF Next

\* The scheduler's invariant holds in every state, for every table size.
THEOREM SchedulerInvariant == Spec => []IInv
BY InitInv, NextInv, PTL DEF Spec

\* Type correctness.
THEOREM TypeCorrect == Spec => []TypeOK
<1>1. IInv => TypeOK
  BY DEF IInv
<1> QED  BY <1>1, SchedulerInvariant, PTL

\* The CPU runs the context current_task names, and no finished task comes back.
THEOREM ContextsNeverMix == Spec => []ContextIntegrity
<1>1. IInv => ContextIntegrity
  BY DEF IInv, ContextIntegrity
<1> QED  BY <1>1, SchedulerInvariant, PTL

\* Only the unfinished task_create can leave the scheduler a context it cannot
\* resume.
THEOREM LostOnlyByCreate == Spec => []LostOnlyInCreate
<1>1. IInv => LostOnlyInCreate
  BY DEF IInv
<1> QED  BY <1>1, SchedulerInvariant, PTL

\* Every READY context but the one being created has a frame to resume.
THEOREM ReadyCanResume == Spec => []ReadyIsResumable
<1>1. IInv => ReadyIsResumable
  <2> SUFFICES ASSUME IInv, ~Lost, NEW c \in Contexts, state[c] = "READY",
                      ~(c = slot /\ (pc = "c_stack" \/ frame[Kernel].pc = "c_stack"))
               PROVE  frame[c] \in Frames /\ frame[c].own = c /\ frame[c].pc \in PCsOf(c)
    BY DEF ReadyIsResumable
  <2>1. c # current
    BY DEF IInv, ContextIntegrity
  <2>2. Resumable(c)
    BY <2>1 DEF IInv, FramesInv, PcOf
  <2> QED  BY <2>2 DEF Resumable, PCsOf, Preemptible, TaskPCs
<1> QED  BY <1>1, SchedulerInvariant, PTL

\* No context ever waits for kprintf_lock.
THEOREM KprintfNeverSpins == Spec => []LockNeverContended
<1>1. IInv => LockNeverContended
  BY DEF IInv, LockInv, LockNeverContended, Lost
<1> QED  BY <1>1, SchedulerInvariant, PTL

\* A finished task has done its work.
THEOREM FinishedHasWorked == Spec => []FinishedDidItsWork
<1>1. IInv => FinishedDidItsWork
  BY DEF IInv, WorkInv, FinishedDidItsWork
<1> QED  BY <1>1, SchedulerInvariant, PTL

\* No task is alive while a user program is active.
THEOREM UserProgramRunsAlone == Spec => []UserRunsAlone
<1>1. IInv => UserRunsAlone
  BY DEF IInv, UserInv, UserRunsAlone
<1> QED  BY <1>1, SchedulerInvariant, PTL

\* A finished task stays finished.
THEOREM FinishedTasksStay == Spec => FinishedForever
<1> DEFINE Stays == \A t \in Tasks : state[t] = "FINISHED" => state'[t] = "FINISHED"
<1>1. IInv /\ [Next]_vars => [Stays]_vars
  <2> SUFFICES ASSUME IInv, Next, NEW t \in Tasks, state[t] = "FINISHED"
               PROVE  state'[t] = "FINISHED"
    OBVIOUS
  <2>0. NoTask \notin Contexts /\ Kernel \notin Tasks /\ Contexts = Tasks \cup {Kernel}
    BY ContextsDistinct
  <2>1. state \in [Contexts -> {"UNUSED", "READY", "RUNNING", "FINISHED"}]
        /\ current \in Contexts
    BY DEF IInv, TypeOK
  <2>2. ASSUME NEW r, Schedule(r) PROVE state'[t] = "FINISHED"
    <3>1. PickNext(state, current) # t
      BY <2>0, <2>1, PickNextSound
    <3> QED  BY <2>0, <2>1, <2>2, <3>1 DEF Schedule, Demote
  <2>3. ASSUME TaskExit PROVE state'[t] = "FINISHED"
    <3> DEFINE marked == [state EXCEPT ![current] = "FINISHED"]
    <3>1. marked[t] = "FINISHED" /\ marked \in [Contexts -> {"UNUSED", "READY", "RUNNING", "FINISHED"}]
      BY <2>0, <2>1
    <3>2. state' = [marked EXCEPT ![PickNext(marked, current)] = "RUNNING"]
      BY <2>3 DEF TaskExit
    <3> HIDE DEF marked
    <3>3. PickNext(marked, current) # t
      BY <2>0, <2>1, <3>1, PickNextSound
    <3> QED  BY <2>0, <3>1, <3>2, <3>3
  <2>4. ASSUME CreateReady PROVE state'[t] = "FINISHED"
    <3>1. state[slot] = "UNUSED"
      BY <2>0, <2>4 DEF CreateReady, Goto, At, IInv, ContextIntegrity, KernelInv, PcOf, Lost
    <3> QED  BY <2>1, <2>4, <3>1 DEF CreateReady
  <2>5. ASSUME NEW u \in Tasks, TaskReturn(u) PROVE state'[t] = "FINISHED"
    BY <2>0, <2>1, <2>5 DEF TaskReturn
  <2>6. CASE KernelCode
    BY <2>2, <2>4, <2>6 DEF KernelCode, TaskCreate, CreateStack, StartWait, WaitCheck,
      WaitYield, EnableInterrupts, UserRun, EnterElr, EnterSpsr, EnterEret, UserSyscall,
      UserYield, UserExit, UserResume, UserFault
  <2>7. ASSUME NEW u \in Tasks, TaskCode(u) PROVE state'[t] = "FINISHED"
    BY <2>2, <2>3, <2>5, <2>7 DEF TaskCode, TaskEntry, TaskLoop, TaskYield,
      FinishedYield, SysExitTask
  <2>8. ASSUME NEW c \in Contexts, Kprintf(c) PROVE state'[t] = "FINISHED"
    BY <2>8 DEF Kprintf, KprintfEnter, KprintfLock, KprintfUnlock
  <2>9. CASE TimerIrq \/ DeviceIrq \/ Stuck
    BY <2>2, <2>9 DEF TimerIrq, DeviceIrq, Stuck, vars
  <2> QED  BY <2>6, <2>7, <2>8, <2>9 DEF Next
<1> QED  BY <1>1, SchedulerInvariant, PTL DEF Spec, FinishedForever
============================================================================
