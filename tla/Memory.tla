------------------------------- MODULE Memory -------------------------------
(***************************************************************************)
(* Physical memory after pmm_init: the page allocator of mm/pmm.c, the     *)
(* bump allocator of kernel/kmalloc.c, and the two users whose             *)
(* allocations matter, the user program loader and task_create.            *)
(*                                                                         *)
(* Pages are numbered from the start of RAM.  Below the kernel lie the low *)
(* pages; above the kernel and the bitmap lie the high pages, where the    *)
(* heap of kmalloc also begins.                                            *)
(***************************************************************************)
EXTENDS Integers, FiniteSets, FiniteSetsExt

CONSTANTS
  PageCount,      \* pmm_page_count
  KernelStart,    \* the first page of the kernel
  BitmapEnd,      \* the first page behind the kernel and the bitmap
  PageUnits,      \* a page in the 16-byte units of kmalloc
  MaxProgram,     \* the most code pages of a user program
  BlockUnits      \* the sizes asked of kmalloc, in units

\* There is a kernel, there are low pages and high pages, and a page holds
\* at least one unit.
ASSUME MemoryAssumption ==
  /\ PageCount \in Nat /\ KernelStart \in Nat /\ BitmapEnd \in Nat
  /\ 0 < KernelStart /\ KernelStart < BitmapEnd /\ BitmapEnd < PageCount
  /\ PageUnits \in Nat \ {0}
  /\ MaxProgram \in Nat
  /\ BlockUnits \subseteq Nat

VARIABLES
  bitmap,      \* the pages whose bit is set
  usedCount,   \* pmm_used_count
  lent,        \* history: the pages callers hold and will free
  programs,    \* history: the pages given to user programs
  heap         \* heap_current, in units from the start of RAM

vars == <<bitmap, usedCount, lent, programs, heap>>

Pages == 0 .. PageCount - 1
LowPages == 0 .. KernelStart - 1
Reserved == KernelStart .. BitmapEnd - 1
HeapStart == BitmapEnd * PageUnits
HeapLimit == PageCount * PageUnits

Free == Pages \ bitmap

\* The pages the heap has handed out, whole or in part.
HeapPages == {p \in Pages : p >= BitmapEnd /\ p * PageUnits < heap}

\* pmm_reserve_range of the kernel and of the bitmap.
ReservedAtInit == Reserved

\* pmm_init, and kmalloc_init at the first kmalloc, which comes later.
Init ==
  /\ bitmap = ReservedAtInit
  /\ usedCount = Cardinality(ReservedAtInit)
  /\ lent = {}
  /\ programs = {}
  /\ heap = HeapStart

\* pmm_alloc_page: the first page whose bit is clear.
FirstFree == Min(Free)

\* pmm_alloc_page, by a caller that frees its page again.  With every bit set it
\* returns 0 and changes nothing.
AllocPage ==
  /\ Free # {}
  /\ bitmap' = bitmap \cup {FirstFree}
  /\ lent' = lent \cup {FirstFree}
  /\ usedCount' = usedCount + 1
  /\ UNCHANGED <<programs, heap>>

\* pmm_free_page of a page its caller holds; it panics for a page that is free.
FreePage(p) ==
  /\ p \in lent
  /\ p \in bitmap
  /\ bitmap' = bitmap \ {p}
  /\ lent' = lent \ {p}
  /\ usedCount' = usedCount - 1
  /\ UNCHANGED <<programs, heap>>

\* Mutation: a failed load does not count the pages it has taken.
CountAfterLoadKept(n) == usedCount

\* pmm_used_count after n more pages.
CountAfterLoad(n) == usedCount + n

\* The user program loader: the code pages and the stack page are taken one
\* after the other and none is ever freed.  The load takes all it needs, or
\* fewer when it fails on the way or the memory gives out (module Programs says
\* when).
LoadProgram(n) ==
  \E taken \in SUBSET Free :
    /\ Cardinality(taken) = n
    /\ \A p \in taken, r \in Free \ taken : p < r
    /\ bitmap' = bitmap \cup taken
    /\ programs' = programs \cup taken
    /\ usedCount' = CountAfterLoad(n)
    /\ UNCHANGED <<lent, heap>>

\* The check of block_end against heap_limit.
HeapFits(units) == heap + units <= HeapLimit

\* kmalloc, of a task's stack for instance; past the limit it returns 0.
Kmalloc(units) ==
  /\ HeapFits(units)
  /\ heap' = heap + units
  /\ UNCHANGED <<bitmap, usedCount, lent, programs>>

Next ==
  \/ AllocPage
  \/ \E p \in Pages : FreePage(p)
  \/ \E n \in 1 .. MaxProgram + 1 : LoadProgram(n)
  \/ \E units \in BlockUnits : Kmalloc(units)

Spec == Init /\ [][Next]_vars

----------------------------------------------------------------------------
(* Properties *)

\* The type invariant of the two allocators.
TypeOK ==
  /\ bitmap \subseteq Pages
  /\ usedCount \in 0 .. PageCount
  /\ lent \subseteq Pages /\ programs \subseteq Pages
  /\ heap \in HeapStart .. HeapLimit

\* Every page has one owner: the kernel and the bitmap, a caller, or a user
\* program; a set bit is an owned page, and pmm_used_count counts them.
OneOwner ==
  /\ lent \cap programs = {} /\ lent \cap Reserved = {} /\ programs \cap Reserved = {}
  /\ bitmap = lent \cup programs \cup Reserved
  /\ usedCount = Cardinality(bitmap)

\* What the two allocators give out does not overlap: no page of a caller or of
\* a program is part of the heap.
HeapAndPagesDisjoint == (lent \cup programs) \cap HeapPages = {}
============================================================================
