---------------------------- MODULE MemoryProofs ----------------------------
(***************************************************************************)
(* Proofs about the two allocators of module Memory, and about the run     *)
(* command of module Programs, which uses them: for every amount of        *)
(* memory, every place of the kernel in it, every page size and user       *)
(* window, and every content of the root file system.  The second half     *)
(* follows every byte of a program from its file to the window.            *)
(***************************************************************************)
EXTENDS Programs, FiniteSetTheorems, WellFoundedInduction, TLAPS

\* A nonempty set of naturals has a least element.
LEMMA LeastInSet ==
  ASSUME NEW S \in SUBSET Nat, S # {}
  PROVE  \E i \in S : \A j \in S : i =< j
<1> DEFINE Less == OpToRel(<, Nat)
<1>1. IsWellFoundedOn(Less, Nat)
  BY NatLessThanWellFounded
<1>2. \A i, j \in Nat : <<j, i>> \in Less <=> j < i
  BY DEF OpToRel
<1> HIDE DEF Less
<1>3. PICK i \in S : \A j \in S : ~ (<<j, i>> \in Less)
  BY <1>1, WFMin
<1>4. ASSUME NEW j \in S  PROVE i =< j
  <2>1. i \in Nat /\ j \in Nat
    OBVIOUS
  <2>2. ~ (j < i)
    BY <1>2, <1>3, <2>1
  <2> QED
    BY <2>1, <2>2
<1> QED
  BY <1>3, <1>4

LEMMA MinLeast ==
  ASSUME NEW S \in SUBSET Nat, S # {}
  PROVE  Min(S) \in S /\ \A x \in S : Min(S) =< x
BY LeastInSet DEF Min

\* pmm_alloc_page finds a page whose bit is clear whenever there is one.
LEMMA FirstFreeIsFree ==
  ASSUME Free # {}
  PROVE  FirstFree \in Free
<1>1. Free \subseteq Nat
  BY MemoryAssumption DEF Free, Pages
<1> QED
  BY <1>1, MinLeast DEF FirstFree

LEMMA PagesFinite == IsFiniteSet(Pages) /\ Cardinality(Pages) = PageCount
<1>1. 0 \in Int /\ PageCount - 1 \in Int /\ ~(0 > PageCount - 1)
  BY MemoryAssumption
<1>2. IsFiniteSet(0 .. PageCount - 1) /\ Cardinality(0 .. PageCount - 1) = PageCount - 1 - 0 + 1
  BY <1>1, FS_Interval
<1> QED
  BY <1>2, MemoryAssumption DEF Pages

\* The kernel and the bitmap lie in memory.
LEMMA ReservedInPages == Reserved \subseteq Pages
BY MemoryAssumption DEF Reserved, Pages

\* The heap begins and ends at natural numbers, in this order.
LEMMA HeapBounds ==
  HeapStart \in Nat /\ HeapLimit \in Nat /\ HeapStart <= HeapLimit
<1>1. \A a, b, u \in Nat : a < b => a * u \in Nat /\ b * u \in Nat /\ a * u <= b * u
  OBVIOUS
<1> QED
  BY <1>1, MemoryAssumption DEF HeapStart, HeapLimit

----------------------------------------------------------------------------
(***************************************************************************)
(* The inductive invariant: the parts of TypeOK other than the counter,    *)
(* whose bound follows from what it counts, and OneOwner.                  *)
(***************************************************************************)
SetsTyped ==
  /\ bitmap \subseteq Pages /\ lent \subseteq Pages /\ programs \subseteq Pages
  /\ heap \in HeapStart .. HeapLimit

IInv == SetsTyped /\ OneOwner

LEMMA BitmapFinite ==
  ASSUME SetsTyped
  PROVE  IsFiniteSet(bitmap) /\ Cardinality(bitmap) \in 0 .. PageCount
<1>1. IsFiniteSet(bitmap) /\ Cardinality(bitmap) <= Cardinality(Pages)
  BY PagesFinite, FS_Subset DEF SetsTyped
<1>2. Cardinality(bitmap) \in Nat
  BY <1>1, FS_CardinalityType
<1> QED
  BY <1>1, <1>2, PagesFinite, MemoryAssumption

LEMMA InitIInv == Init => IInv
<1> SUFFICES ASSUME Init PROVE IInv
  OBVIOUS
<1>1. SetsTyped
  BY ReservedInPages, HeapBounds DEF Init, SetsTyped, ReservedAtInit
<1>2. OneOwner
  BY DEF Init, OneOwner, ReservedAtInit
<1> QED
  BY <1>1, <1>2 DEF IInv

LEMMA AllocPageIInv ==
  ASSUME IInv, AllocPage
  PROVE  IInv'
<1>1. FirstFree \in Pages /\ FirstFree \notin bitmap
  BY FirstFreeIsFree DEF AllocPage, Free
<1>2. Cardinality(bitmap \cup {FirstFree}) = Cardinality(bitmap) + 1
  BY <1>1, BitmapFinite, FS_AddElement DEF IInv
<1>3. SetsTyped'
  BY <1>1 DEF IInv, SetsTyped, AllocPage, Pages, HeapStart, HeapLimit
<1>4. usedCount' = Cardinality(bitmap')
  BY <1>2 DEF IInv, OneOwner, AllocPage
<1>5. OneOwner'
  BY <1>1, <1>4 DEF IInv, OneOwner, AllocPage, Reserved
<1> QED
  BY <1>3, <1>5 DEF IInv

LEMMA FreePageIInv ==
  ASSUME IInv, NEW p \in Pages, FreePage(p)
  PROVE  IInv'
<1>1. Cardinality(bitmap \ {p}) = Cardinality(bitmap) - 1
  BY BitmapFinite, FS_RemoveElement DEF IInv, FreePage
<1>2. SetsTyped'
  BY DEF IInv, SetsTyped, FreePage, Pages, HeapStart, HeapLimit
<1>3. usedCount' = Cardinality(bitmap')
  BY <1>1 DEF IInv, OneOwner, FreePage
<1>4. OneOwner'
  BY <1>3 DEF IInv, OneOwner, FreePage, Reserved
<1> QED
  BY <1>2, <1>4 DEF IInv

LEMMA LoadProgramIInv ==
  ASSUME IInv, NEW n \in 1 .. MaxProgram + 1, LoadProgram(n)
  PROVE  IInv'
<1>1. PICK taken \in SUBSET Free :
        /\ Cardinality(taken) = n
        /\ bitmap' = bitmap \cup taken
        /\ programs' = programs \cup taken
        /\ usedCount' = usedCount + n
        /\ UNCHANGED <<lent, heap>>
  BY DEF LoadProgram, CountAfterLoad
<1>2. taken \subseteq Pages /\ taken \cap bitmap = {}
  BY <1>1 DEF Free
<1>3. IsFiniteSet(taken)
  BY <1>2, PagesFinite, FS_Subset
<1>4. Cardinality(bitmap \cup taken) = Cardinality(bitmap) + Cardinality(taken)
  <2>1. bitmap \cap taken = {}
    BY <1>2
  <2>2. Cardinality(bitmap \cup taken)
          = Cardinality(bitmap) + Cardinality(taken) - Cardinality(bitmap \cap taken)
    BY <1>3, BitmapFinite, FS_Union DEF IInv
  <2>3. Cardinality(bitmap \cap taken) = 0
    BY <2>1, FS_EmptySet
  <2>4. Cardinality(bitmap) \in Int /\ Cardinality(taken) \in Int
    BY <1>1, BitmapFinite, MemoryAssumption DEF IInv
  <2> QED
    BY <2>2, <2>3, <2>4
<1>5. SetsTyped'
  BY <1>1, <1>2 DEF IInv, SetsTyped, Pages, HeapStart, HeapLimit
<1>6. usedCount' = Cardinality(bitmap')
  BY <1>1, <1>4 DEF IInv, OneOwner
<1>7. OneOwner'
  BY <1>1, <1>2, <1>6 DEF IInv, OneOwner, Reserved
<1> QED
  BY <1>5, <1>7 DEF IInv

LEMMA KmallocIInv ==
  ASSUME IInv, NEW units \in BlockUnits, Kmalloc(units)
  PROVE  IInv'
<1>1. units \in Nat
  BY MemoryAssumption
<1>2. heap' \in HeapStart .. HeapLimit
  BY <1>1, HeapBounds DEF IInv, SetsTyped, Kmalloc, HeapFits
<1>3. SetsTyped'
  BY <1>2 DEF IInv, SetsTyped, Kmalloc, Pages, HeapStart, HeapLimit
<1>4. OneOwner'
  BY DEF IInv, OneOwner, Kmalloc, Reserved
<1> QED
  BY <1>3, <1>4 DEF IInv

LEMMA StepIInv == IInv /\ [Next]_vars => IInv'
<1> SUFFICES ASSUME IInv, [Next]_vars PROVE IInv'
  OBVIOUS
<1>1. CASE AllocPage
  BY <1>1, AllocPageIInv
<1>2. ASSUME NEW p \in Pages, FreePage(p)  PROVE IInv'
  BY <1>2, FreePageIInv
<1>3. ASSUME NEW n \in 1 .. MaxProgram + 1, LoadProgram(n)  PROVE IInv'
  BY <1>3, LoadProgramIInv
<1>4. ASSUME NEW units \in BlockUnits, Kmalloc(units)  PROVE IInv'
  BY <1>4, KmallocIInv
<1>5. CASE UNCHANGED vars
  BY <1>5 DEF vars, IInv, SetsTyped, OneOwner, Reserved, Pages, HeapStart, HeapLimit
<1> QED
  BY <1>1, <1>2, <1>3, <1>4, <1>5 DEF Next

\* The inductive invariant of the allocators holds in every state of them.
THEOREM Invariant == Spec => []IInv
<1> QED
  BY InitIInv, StepIInv, PTL DEF Spec

\* pmm_alloc_page, pmm_free_page and the loader, however they are interleaved and
\* wherever a load stops: every set bit is a page with one owner and
\* pmm_used_count is their number.
THEOREM PagesHaveOneOwner == Spec => []OneOwner
<1>1. IInv => OneOwner
  BY DEF IInv
<1> QED
  BY <1>1, Invariant, PTL

\* The two allocators stay inside memory and pmm_used_count never leaves
\* 0 .. pmm_page_count, so the unsigned counter does not wrap in pmm_free_page.
THEOREM MemoryTyped == Spec => []TypeOK
<1>1. IInv => TypeOK
  BY BitmapFinite DEF IInv, SetsTyped, OneOwner, TypeOK
<1> QED
  BY <1>1, Invariant, PTL

\* A page is never given out while someone has it: what pmm_alloc_page returns
\* belongs to no caller, no program and not to the kernel.
FreshPage == AllocPage => FirstFree \notin lent \cup programs \cup Reserved

THEOREM PagesAreFresh == Spec => [][FreshPage]_vars
<1>1. IInv /\ [Next]_vars => [FreshPage]_vars
  <2> SUFFICES ASSUME IInv, AllocPage PROVE FirstFree \notin lent \cup programs \cup Reserved
    BY DEF FreshPage
  <2> QED
    BY FirstFreeIsFree DEF IInv, OneOwner, AllocPage, Free
<1> QED
  BY <1>1, Invariant, PTL DEF Spec

----------------------------------------------------------------------------
(***************************************************************************)
(* What the loader takes.  Rank is how many free pages lie below a free    *)
(* one: pmm_alloc_page, called again and again, gives them out in the      *)
(* order of their ranks.                                                   *)
(***************************************************************************)
Rank(p) == Cardinality({r \in Free : r < p})

LEMMA FreeFinite == Free \subseteq Nat /\ IsFiniteSet(Free) /\ Cardinality(Free) \in Nat
<1>1. Free \subseteq Pages /\ Free \subseteq Nat
  BY MemoryAssumption DEF Free, Pages
<1>2. IsFiniteSet(Free)
  BY <1>1, PagesFinite, FS_Subset
<1> QED
  BY <1>1, <1>2, FS_CardinalityType

LEMMA RankRange ==
  ASSUME NEW p \in Free
  PROVE  Rank(p) \in 0 .. Cardinality(Free) - 1
<1> DEFINE B == {r \in Free : r < p}
<1>1. p \in Nat /\ p \notin B /\ B \subseteq Free /\ B # Free
  BY FreeFinite
<1> HIDE DEF B
<1>2. IsFiniteSet(B) /\ Cardinality(B) <= Cardinality(Free) /\ Cardinality(B) # Cardinality(Free)
  BY <1>1, FreeFinite, FS_Subset
<1>3. Cardinality(B) \in Nat
  BY <1>2, FS_CardinalityType
<1>4. Cardinality(B) \in 0 .. Cardinality(Free) - 1
  BY <1>2, <1>3, FreeFinite
<1> QED
  BY <1>4 DEF Rank, B

LEMMA RankGrows ==
  ASSUME NEW p \in Free, NEW r \in Free, p < r
  PROVE  Rank(p) < Rank(r)
<1> DEFINE A == {s \in Free : s < p}
           B == {s \in Free : s < r}
<1>1. A \subseteq B /\ p \in B /\ p \notin A /\ B \subseteq Free
  <2>1. p \in Nat /\ r \in Nat /\ ~(p < p)
    BY FreeFinite
  <2>2. ASSUME NEW s \in Free, s < p  PROVE s < r
    <3>1. s \in Nat
      BY FreeFinite
    <3> QED
      BY <2>1, <2>2, <3>1
  <2> QED
    BY <2>1, <2>2
<1> HIDE DEF A, B
<1>2. IsFiniteSet(B)
  BY <1>1, FreeFinite, FS_Subset
<1>3. Cardinality(A) <= Cardinality(B) /\ Cardinality(A) # Cardinality(B)
  BY <1>1, <1>2, FS_Subset
<1>4. Cardinality(A) = Rank(p) /\ Cardinality(B) = Rank(r)
  BY DEF Rank, A, B
<1>5. Rank(p) \in Int /\ Rank(r) \in Int
  BY RankRange, FreeFinite
<1> QED
  BY <1>3, <1>4, <1>5

LEMMA RankUnique ==
  ASSUME NEW p \in Free, NEW r \in Free, Rank(p) = Rank(r)
  PROVE  p = r
<1>1. p \in Nat /\ r \in Nat /\ Rank(p) \in Int /\ Rank(r) \in Int
  BY RankRange, FreeFinite
<1>2. ~(p < r) /\ ~(r < p)
  <2>1. p < r => Rank(p) < Rank(r)
    BY RankGrows
  <2>2. r < p => Rank(r) < Rank(p)
    BY RankGrows
  <2> QED
    BY <1>1, <2>1, <2>2
<1> QED
  BY <1>1, <1>2

LEMMA RankExists ==
  ASSUME NEW i \in 0 .. Cardinality(Free) - 1
  PROVE  \E p \in Free : Rank(p) = i
<1> DEFINE K == Cardinality(Free)
           T == 0 .. K - 1
           f == [p \in Free |-> Rank(p)]
<1>1. f \in Injection(Free, T)
  BY RankRange, RankUnique DEF Injection, IsInjective
<1>2. IsFiniteSet(T) /\ Cardinality(T) = K
  <2>1. K \in Nat /\ K - 1 \in Int /\ 0 \in Int
    BY FreeFinite
  <2>2. IsFiniteSet(T) /\ Cardinality(T) = IF 0 > K - 1 THEN 0 ELSE K - 1 - 0 + 1
    BY <2>1, FS_Interval
  <2> QED
    BY <2>1, <2>2
<1>3. f \in Surjection(Free, T)
  BY <1>1, <1>2, FS_Injection
<1>4. PICK p \in Free : f[p] = i
  BY <1>3 DEF Surjection
<1> QED
  BY <1>4

LEMMA MinOfTwo ==
  ASSUME NEW a \in Int, NEW b \in Int
  PROVE  Min({a, b}) = IF a <= b THEN a ELSE b
<1> DEFINE m == IF a <= b THEN a ELSE b
<1>1. m \in {a, b} /\ \A y \in {a, b} : m =< y
  OBVIOUS
<1>2. \A x \in {a, b} : (\A y \in {a, b} : x =< y) => x = m
  OBVIOUS
<1> HIDE DEF m
<1>3. Min({a, b}) = m
  BY <1>1, <1>2 DEF Min
<1> QED
  BY <1>3 DEF m

\* The pages of a load are free ones, in the order of their ranks.
LEMMA PagesTakenRanks ==
  ASSUME NEW n \in Nat
  PROVE  LET t == PagesTaken(n)
             k == IF n <= Cardinality(Free) THEN n ELSE Cardinality(Free)
         IN  /\ k \in Nat /\ k <= n /\ k <= Cardinality(Free)
             /\ t \in Seq(Free) /\ Len(t) = k
             /\ \A i \in 1 .. k : t[i] \in Free /\ Rank(t[i]) = i - 1
<1> DEFINE k == IF n <= Cardinality(Free) THEN n ELSE Cardinality(Free)
           t == [i \in 1 .. k |-> CHOOSE p \in Free : Rank(p) = i - 1]
<1>1. k \in Nat /\ k <= n /\ k <= Cardinality(Free)
  BY FreeFinite
<1>2. Min({n, Cardinality(Free)}) = k
  BY FreeFinite, MinOfTwo
<1>3. PagesTaken(n) = t
  BY <1>2 DEF PagesTaken, Rank
<1> HIDE DEF k
<1>4. ASSUME NEW i \in 1 .. k
      PROVE  t[i] \in Free /\ Rank(t[i]) = i - 1
  <2>1. i - 1 \in 0 .. Cardinality(Free) - 1
    BY <1>1, FreeFinite
  <2>2. \E p \in Free : Rank(p) = i - 1
    BY <2>1, RankExists
  <2> QED
    BY <2>2
<1>5. t \in Seq(Free) /\ Len(t) = k
  <2>1. t \in [1 .. k -> Free]
    BY <1>4
  <2> HIDE DEF t
  <2> QED
    BY <1>1, <2>1
<1> QED
  BY <1>1, <1>3, <1>4, <1>5 DEF k

\* They are distinct, and no free page below one of them is left out.
LEMMA PagesTakenFirst ==
  ASSUME NEW n \in Nat
  PROVE  LET t == PagesTaken(n)
         IN  /\ t \in Seq(Free) /\ Len(t) \in Nat /\ Len(t) <= n
             /\ \A i, j \in 1 .. Len(t) : t[i] = t[j] => i = j
             /\ ToSet(t) \subseteq Free
             /\ Cardinality(ToSet(t)) = Len(t)
             /\ \A p \in ToSet(t), r \in Free \ ToSet(t) : p < r
<1> DEFINE t == PagesTaken(n)
           k == Len(t)
<1>1. k \in Nat /\ k <= n /\ k <= Cardinality(Free) /\ t \in Seq(Free)
  BY PagesTakenRanks
<1>2. \A i \in 1 .. k : t[i] \in Free /\ Rank(t[i]) = i - 1
  BY PagesTakenRanks
<1> HIDE DEF t
<1>3. DOMAIN t = 1 .. k /\ ToSet(t) = {t[i] : i \in 1 .. k}
  BY <1>1 DEF ToSet
<1>4. ASSUME NEW i \in 1 .. k, NEW j \in 1 .. k, t[i] = t[j]
      PROVE  i = j
  <2>1. i - 1 = j - 1
    BY <1>2, <1>4
  <2> QED
    BY <1>1, <2>1
<1>5. ToSet(t) \subseteq Free
  BY <1>2, <1>3
<1>6. Cardinality(ToSet(t)) = k
  <2>1. t \in [1 .. k -> ToSet(t)]
    BY <1>1, <1>3
  <2>2. t \in Bijection(1 .. k, ToSet(t))
    BY <1>3, <1>4, <2>1 DEF Bijection, Injection, Surjection, IsInjective
  <2>3. ExistsBijection(1 .. k, ToSet(t))
    BY <2>2 DEF ExistsBijection
  <2> QED
    BY <1>1, <2>3, FS_CountingElements
<1>7. ASSUME NEW p \in ToSet(t), NEW r \in Free \ ToSet(t)
      PROVE  p < r
  <2>1. PICK i \in 1 .. k : p = t[i]
    BY <1>3
  <2>2. p \in Nat /\ r \in Nat /\ p # r /\ p \in Free
    BY <1>5, FreeFinite
  <2>3. SUFFICES ASSUME r < p PROVE FALSE
    BY <2>2
  <2>4. Rank(r) < Rank(p) /\ Rank(p) = i - 1
    BY <1>2, <2>1, <2>2, <2>3, RankGrows
  <2>5. Rank(r) \in Nat
    BY RankRange
  <2>6. Rank(r) + 1 \in 1 .. k
    BY <1>1, <2>4, <2>5
  <2>7. Rank(t[Rank(r) + 1]) = Rank(r) /\ t[Rank(r) + 1] \in Free
    BY <1>2, <2>5, <2>6
  <2>8. t[Rank(r) + 1] = r
    BY <2>7, RankUnique
  <2> QED
    BY <1>3, <2>6, <2>8
<1> QED
  BY <1>1, <1>4, <1>5, <1>6, <1>7 DEF t

----------------------------------------------------------------------------
(* Where an image lies *)

LEMMA ProductGrows ==
  ASSUME NEW m \in Nat \ {0}, NEW a \in Int, NEW b \in Int, a < b
  PROVE  (a * m) + m <= b * m
<1> DEFINE e == b - a - 1
<1>1. e \in Nat /\ b = a + e + 1
  OBVIOUS
<1> HIDE DEF e
<1>2. b * m = (a * m) + (e * m) + m
  BY <1>1
<1>3. e * m \in Nat
  BY <1>1
<1>4. a * m \in Int
  OBVIOUS
<1> QED
  BY <1>2, <1>3, <1>4

LEMMA PageOf ==
  ASSUME NEW m \in Nat \ {0}, NEW a \in Int
  PROVE  /\ a \div m \in Int
         /\ (a \div m) * m <= a /\ a < ((a \div m) * m) + m
<1>1. a \div m \in Int /\ a % m \in 0 .. m - 1
  OBVIOUS
<1>2. a = ((a \div m) * m) + (a % m)
  OBVIOUS
<1>3. (a \div m) * m \in Int
  BY <1>1
<1> QED
  BY <1>1, <1>2, <1>3

LEMMA StackPageNat == StackPage \in Nat /\ CodePage <= StackPage
BY MemoryAssumption, ProgramsAssumption DEF StackPage

\* user_program_range_valid keeps the pages of an image in the user window, below
\* the stack's page.
LEMMA RangeInWindow ==
  ASSUME NEW base \in Int, NEW count \in Int, RangeValid(base, count)
  PROVE  /\ count \in 1 .. MaxProgram
         /\ base \div PageSize \in Int
         /\ base \div PageSize >= CodePage
         /\ base \div PageSize + count <= StackPage
<1> DEFINE q == base \div PageSize
<1>0. PageSize \in Nat \ {0} /\ CodePage \in Nat /\ MaxProgram \in Nat /\ StackPage \in Nat
  BY MemoryAssumption, ProgramsAssumption, StackPageNat
<1>1. /\ count > 0 /\ count <= MaxProgram
      /\ base >= CodePage * PageSize
      /\ base + (count * PageSize) <= StackPage * PageSize
  BY DEF RangeValid
<1>2. q \in Int /\ q * PageSize <= base /\ base < (q * PageSize) + PageSize
  BY <1>0, PageOf
<1> HIDE DEF q
<1>3. q >= CodePage
  <2> SUFFICES ASSUME q < CodePage PROVE FALSE
    BY <1>0, <1>2
  <2>1. (q * PageSize) + PageSize <= CodePage * PageSize
    BY <1>0, <1>2, ProductGrows
  <2>2. q * PageSize \in Int /\ CodePage * PageSize \in Int
    BY <1>0, <1>2
  <2> QED
    BY <1>0, <1>1, <1>2, <2>1, <2>2
<1>4. q + count <= StackPage
  <2> SUFFICES ASSUME StackPage < q + count PROVE FALSE
    BY <1>0, <1>2
  <2>1. q + count \in Int
    BY <1>2
  <2>2. (StackPage * PageSize) + PageSize <= (q + count) * PageSize
    BY <1>0, <2>1, ProductGrows
  <2>3. (q + count) * PageSize = (q * PageSize) + (count * PageSize)
    BY <1>0, <1>2
  <2>4. q * PageSize \in Int /\ count * PageSize \in Int /\ StackPage * PageSize \in Int
    BY <1>0, <1>2
  <2> QED
    BY <1>0, <1>1, <1>2, <2>2, <2>3, <2>4
<1> QED
  BY <1>0, <1>1, <1>2, <1>3, <1>4 DEF q

\* A nonempty set of bounded naturals has a maximum, and that is one of the set.
LEMMA MaxGreatest ==
  ASSUME NEW b \in Nat, NEW S \in SUBSET (0 .. b), S # {}
  PROVE  Max(S) \in S /\ \A x \in S : Max(S) >= x
<1> DEFINE T == {b - x : x \in S}
<1>1. T \in SUBSET Nat /\ T # {}
  <2>1. ASSUME NEW x \in S  PROVE b - x \in Nat
    <3>1. x \in 0 .. b
      OBVIOUS
    <3> QED
      BY <3>1
  <2>2. T \in SUBSET Nat
    BY <2>1
  <2>3. T # {}
    OBVIOUS
  <2> QED
    BY <2>2, <2>3
<1>2. \E t \in T : \A u \in T : t =< u
  <2> HIDE DEF T
  <2> QED
    BY <1>1, LeastInSet
<1>3. PICK x \in S : \A u \in T : b - x =< u
  BY <1>2
<1>4. \A y \in S : x >= y
  <2> SUFFICES ASSUME NEW y \in S PROVE x >= y
    OBVIOUS
  <2>1. b - x =< b - y
    BY <1>3
  <2>2. x \in Nat /\ y \in Nat
    OBVIOUS
  <2> QED
    BY <2>1, <2>2
<1> QED
  BY <1>4 DEF Max

----------------------------------------------------------------------------
(***************************************************************************)
(* What every load is, whichever loader made it and wherever it stopped:   *)
(* the first free pages, at most those of an image and a stack; and when   *)
(* it succeeded, one page for each page of an image that lies in the       *)
(* window below the stack, and one for the stack.                          *)
(***************************************************************************)
SoundLoad(l) ==
  /\ \E n \in 0 .. MaxProgram + 1 : l.taken = PagesTaken(n)
  /\ l.ok => /\ l.count \in 1 .. MaxProgram
             /\ Len(l.taken) = l.count + 1
             /\ l.base \div PageSize \in Int
             /\ l.base \div PageSize >= CodePage
             /\ l.base \div PageSize + l.count <= StackPage

LEMMA NothingTaken == PagesTaken(0) = << >>
<1>1. PagesTaken(0) \in Seq(Free) /\ Len(PagesTaken(0)) = 0
  BY PagesTakenFirst
<1> QED
  BY <1>1

LEMMA ProgramNat == MaxProgram \in Nat /\ 0 \in 0 .. MaxProgram + 1
BY MemoryAssumption

\* A load that is not entered.
LEMMA FailedLoad ==
  ASSUME NEW n \in 0 .. MaxProgram + 1, NEW m
  PROVE  /\ SoundLoad(Refused)
         /\ SoundLoad([Refused EXCEPT !.taken = PagesTaken(n), !.mem = m])
         /\ ~Refused.ok /\ ~[Refused EXCEPT !.taken = PagesTaken(n), !.mem = m].ok
<1>1. Refused.taken = PagesTaken(0) /\ ~Refused.ok
  BY NothingTaken DEF Refused, Load
<1>2. [Refused EXCEPT !.taken = PagesTaken(n), !.mem = m].taken = PagesTaken(n)
  BY DEF Refused, Load
<1>3. ~[Refused EXCEPT !.taken = PagesTaken(n), !.mem = m].ok
  BY DEF Refused, Load
<1> QED
  BY <1>1, <1>2, <1>3, ProgramNat DEF SoundLoad

LEMMA PageCountInt ==
  ASSUME NEW size \in Int
  PROVE  PageCountOf(size) \in Int
<1>1. PageSize \in Nat \ {0} /\ size + PageSize - 1 \in Int
  BY ProgramsAssumption
<1> QED
  BY <1>1, PageOf DEF PageCountOf

LEMMA LoadFlatSound ==
  ASSUME NEW f, IsFile(f), NEW err
  PROVE  SoundLoad(LoadFlat(f, err))
<1> DEFINE count == PageCountOf(f.size)
           base  == CodePage * PageSize
           taken == PagesTaken(count + 1)
           r     == CopyFlat(f, taken, count, err)
           m     == Cleared(taken)
           l     == LoadFlat(f, err)
<1>1. count \in Int /\ base \in Int
  <2>1. f.size \in Int
    BY ProgramsAssumption DEF IsFile, Words
  <2> QED
    BY <2>1, PageCountInt, ProgramsAssumption
<1>2. l = IF ~RangeValid(base, count) \/ count > FlatMaxPages THEN Refused
          ELSE IF Len(taken) < count + 1 THEN [Refused EXCEPT !.taken = taken, !.mem = m]
          ELSE Load(r.ok, taken, r.mem, "flat", base, count, base, {})
  BY DEF LoadFlat
<1> HIDE DEF count, base, r, m, l
<1>3. CASE ~RangeValid(base, count) \/ count > FlatMaxPages
  BY <1>2, <1>3, FailedLoad, ProgramNat DEF l
<1>4. CASE RangeValid(base, count) /\ ~(count > FlatMaxPages)
  <2>1. /\ count \in 1 .. MaxProgram
        /\ base \div PageSize \in Int /\ base \div PageSize >= CodePage
        /\ base \div PageSize + count <= StackPage
    BY <1>1, <1>4, RangeInWindow
  <2>2. count + 1 \in 0 .. MaxProgram + 1 /\ count + 1 \in Nat
    BY <2>1, ProgramNat
  <2>3. CASE Len(taken) < count + 1
    <3>1. l = [Refused EXCEPT !.taken = PagesTaken(count + 1), !.mem = m]
      BY <1>2, <1>4, <2>3
    <3> QED
      BY <2>2, <3>1, FailedLoad DEF l
  <2>4. CASE ~(Len(taken) < count + 1)
    <3>1. l = Load(r.ok, taken, r.mem, "flat", base, count, base, {})
      BY <1>2, <1>4, <2>4
    <3>2. l.taken = PagesTaken(count + 1) /\ l.base = base /\ l.count = count
      BY <3>1 DEF Load
    <3>3. Len(taken) = count + 1
      BY <2>2, <2>4, PagesTakenFirst
    <3>4. SoundLoad(l)
      BY <2>1, <2>2, <3>2, <3>3 DEF SoundLoad
    <3> QED
      BY <3>4 DEF l
  <2> QED
    BY <2>3, <2>4
<1> QED
  BY <1>3, <1>4

\* The first pass over the program headers: the extent it finds is that of
\* segments of the file.
LEMMA ExtentInt ==
  ASSUME NEW f, IsFile(f), Segments(f) # {}
  PROVE  ImageBase(f) \in Int /\ ImageEnd(f) \in Int
<1> DEFINE A == {SegmentStart(s) : s \in Segments(f)}
           B == {SegmentEnd(s) : s \in Segments(f)}
<1>0. PageSize \in Nat \ {0} /\ Word \in Nat \ {0}
  <2>1. PageSize \in Nat \ {0} /\ Word \in Nat /\ CodePage + MaxProgram + 1 \in Nat
    BY MemoryAssumption, ProgramsAssumption
  <2>2. (CodePage + MaxProgram + 1) * PageSize \in Nat
    BY <2>1
  <2> QED
    BY <2>1, <2>2, ProgramsAssumption
<1>1. ASSUME NEW s \in Segments(f)
      PROVE  s.vaddr \in Nat /\ s.memsz \in Nat
  <2>1. PICK i \in DOMAIN f.segs : s = f.segs[i]
    BY DEF Segments
  <2>2. s \in ProgramHeader
    BY <2>1 DEF IsFile
  <2> QED
    BY <1>0, <2>2 DEF ProgramHeader, Words
<1>2. ASSUME NEW s \in Segments(f)
      PROVE  SegmentStart(s) \in Nat
  <2>1. s.vaddr \in Nat
    BY <1>1
  <2>2. \A a \in Nat : a - (a % PageSize) \in Nat
    <3> SUFFICES ASSUME NEW a \in Nat PROVE a - (a % PageSize) \in Nat
      OBVIOUS
    <3>1. a = ((a \div PageSize) * PageSize) + (a % PageSize) /\ a \div PageSize \in Nat
      BY <1>0
    <3>2. (a \div PageSize) * PageSize \in Nat
      BY <1>0, <3>1
    <3>3. a % PageSize \in Nat
      BY <1>0
    <3> QED
      BY <3>1, <3>2, <3>3
  <2> QED
    BY <2>1, <2>2 DEF SegmentStart
<1>3. ASSUME NEW s \in Segments(f)
      PROVE  SegmentEnd(s) \in 0 .. Word
  <2> DEFINE e == (s.vaddr + s.memsz + PageSize - 1) % Word
  <2>1. s.vaddr + s.memsz + PageSize - 1 \in Nat
    BY <1>0, <1>1
  <2>2. e \in 0 .. Word - 1
    BY <1>0, <2>1
  <2>3. SegmentEnd(s) = e - (e % PageSize)
    BY DEF SegmentEnd
  <2> HIDE DEF e
  <2>4. e % PageSize \in Nat /\ e % PageSize <= e
    <3>1. e = ((e \div PageSize) * PageSize) + (e % PageSize) /\ e \div PageSize \in Nat
      BY <1>0, <2>2
    <3>2. (e \div PageSize) * PageSize \in Nat
      BY <1>0, <3>1
    <3>3. e % PageSize \in Nat
      BY <1>0, <2>2
    <3> QED
      BY <2>2, <3>1, <3>2, <3>3
  <2> QED
    BY <1>0, <2>2, <2>3, <2>4
<1>4. Min(A) \in A
  <2>1. A \in SUBSET Nat /\ A # {}
    BY <1>2
  <2> HIDE DEF A
  <2> QED
    BY <2>1, MinLeast
<1>5. Max(B) \in B
  <2>1. B \in SUBSET (0 .. Word) /\ B # {}
    BY <1>3
  <2> HIDE DEF B
  <2> QED
    BY <1>0, <2>1, MaxGreatest
<1>6. Min(A) \in Int
  BY <1>2, <1>4
<1>7. Max(B) \in Int
  BY <1>0, <1>3, <1>5
<1> QED
  BY <1>6, <1>7 DEF ImageBase, ImageEnd

LEMMA LoadElfSound ==
  ASSUME NEW f, IsFile(f), NEW err
  PROVE  SoundLoad(LoadElf(f, err))
<1> DEFINE base  == ImageBase(f)
           full  == PageCountOf(ImageEnd(f) - base)
           count == full % IndexMod
           pages == PagesTaken(count)
           r == LoadSegments(f, base, pages, err)
           taken == PagesTaken(count + 1)
           cleared == Cleared(pages)
           stored == Store(r.mem, Last(taken), 0, [o \in 1 .. PageSize |-> 0])
           l == LoadElf(f, err)
<1>1. l = IF ~LayoutValid(f, err) THEN Refused
          ELSE IF Len(pages) < count THEN [Refused EXCEPT !.taken = pages, !.mem = cleared]
          ELSE IF ~r.ok \/ ~r.mapped \/ Len(taken) = count
          THEN [Refused EXCEPT !.taken = pages, !.mem = r.mem]
          ELSE Load(TRUE, taken, stored, "elf", base, count, f.entry, r.rw)
  BY DEF LoadElf
<1> HIDE DEF r, cleared, stored, l
<1>2. CASE ~LayoutValid(f, err)
  BY <1>1, <1>2, FailedLoad, ProgramNat DEF l
<1>3. CASE LayoutValid(f, err)
  <2>1. Segments(f) # {} /\ RangeValid(base, full)
    BY <1>3 DEF LayoutValid
  <2>2. base \in Int /\ full \in Int
    <3>1. base \in Int /\ ImageEnd(f) - base \in Int
      BY <2>1, ExtentInt
    <3> QED
      BY <3>1, PageCountInt
  <2> HIDE DEF base, full
  <2>3. /\ full \in 1 .. MaxProgram
        /\ base \div PageSize \in Int /\ base \div PageSize >= CodePage
        /\ base \div PageSize + full <= StackPage
    BY <2>1, <2>2, RangeInWindow
  <2>4. count = full
    <3>1. IndexMod \in Nat /\ full < IndexMod /\ full \in Nat
      BY <2>3, MemoryAssumption, ProgramsAssumption
    <3> QED
      BY <3>1
  <2> HIDE DEF count
  <2>5. count \in 0 .. MaxProgram + 1 /\ count + 1 \in 0 .. MaxProgram + 1
        /\ count \in Nat /\ count + 1 \in Nat
    BY <2>3, <2>4, ProgramNat
  <2>6. CASE Len(pages) < count
    BY <1>1, <1>3, <2>5, <2>6, FailedLoad DEF l
  <2>7. CASE ~(Len(pages) < count) /\ (~r.ok \/ ~r.mapped \/ Len(taken) = count)
    <3>1. l = [Refused EXCEPT !.taken = PagesTaken(count), !.mem = r.mem]
      BY <1>1, <1>3, <2>7
    <3> QED
      BY <2>5, <3>1, FailedLoad DEF l
  <2>8. CASE ~(Len(pages) < count) /\ ~(~r.ok \/ ~r.mapped \/ Len(taken) = count)
    <3>1. l = Load(TRUE, taken, stored, "elf", base, count, f.entry, r.rw)
      BY <1>1, <1>3, <2>8
    <3>2. l.taken = PagesTaken(count + 1) /\ l.base = base /\ l.count = count
      BY <3>1 DEF Load
    <3>3. Len(pages) = count
      BY <2>5, <2>8, PagesTakenFirst
    <3>4. Len(taken) \in Nat /\ Len(taken) <= count + 1 /\ Len(taken) # count
      BY <2>5, <2>8, PagesTakenFirst
    <3>5. Len(pages) <= Len(taken)
      <4>1. Len(pages) = IF count <= Cardinality(Free) THEN count ELSE Cardinality(Free)
        BY <2>5, PagesTakenRanks
      <4>2. Len(taken) = IF count + 1 <= Cardinality(Free) THEN count + 1 ELSE Cardinality(Free)
        BY <2>5, PagesTakenRanks
      <4> QED
        BY <2>5, <4>1, <4>2, FreeFinite
    <3>6. Len(taken) = count + 1
      BY <2>5, <3>3, <3>4, <3>5
    <3>7. SoundLoad(l)
      BY <2>3, <2>4, <2>5, <3>2, <3>6 DEF SoundLoad
    <3> QED
      BY <3>7 DEF l
  <2> QED
    BY <2>6, <2>7, <2>8
<1> QED
  BY <1>2, <1>3

LEMMA LoadFileSound ==
  ASSUME NEW f, IsFile(f), NEW err
  PROVE  SoundLoad(LoadFile(f, err))
BY LoadFlatSound, LoadElfSound DEF LoadFile

LEMMA LoadDemoSound == SoundLoad(LoadDemo)
<1> DEFINE taken == PagesTaken(2)
           l == LoadDemo
           base == CodePage * PageSize
<1>1. l.taken = taken /\ l.base = base /\ l.count = 1 /\ (l.ok => Len(taken) = 2)
  BY DEF LoadDemo, Load
<1>2. 2 \in 0 .. MaxProgram + 1 /\ 1 \in 1 .. MaxProgram
  BY MemoryAssumption, ProgramsAssumption
<1>3. RangeValid(base, 1) /\ base \in Int
  <2>1. base \in Nat /\ PageSize \in Nat \ {0} /\ StackPage \in Nat /\ CodePage \in Nat
        /\ CodePage < StackPage
    BY MemoryAssumption, ProgramsAssumption DEF StackPage
  <2>2. (CodePage * PageSize) + PageSize <= StackPage * PageSize
    BY <2>1, ProductGrows
  <2> QED
    BY <1>2, <2>1, <2>2 DEF RangeValid
<1>4. /\ base \div PageSize \in Int /\ base \div PageSize >= CodePage
      /\ base \div PageSize + 1 <= StackPage
  BY <1>3, RangeInWindow
<1> QED
  BY <1>1, <1>2, <1>4 DEF SoundLoad

----------------------------------------------------------------------------
(***************************************************************************)
(* The inductive invariant of the run command: that of the allocators, the *)
(* files are files, the running program is on record, and WindowOwned.     *)
(* The window needs OneOwner: the pages of a load are new to it because    *)
(* programs' pages are never free.                                         *)
(***************************************************************************)
OnRecord ==
  pc = "el0" =>
    prog = [kind |-> prog.kind, file |-> prog.file, base |-> prog.base, count |-> prog.count,
            entry |-> prog.entry, pages |-> prog.pages, fresh |-> prog.fresh]

PInv == IInv /\ fs \in FileSystems /\ OnRecord /\ WindowOwned

\* A load is LoadProgram of the pages it took, or no step of the allocators.
LEMMA TakeIsLoad ==
  ASSUME IInv, NEW l, SoundLoad(l), Take(l)
  PROVE  [Next]_vars
<1>1. PICK n \in 0 .. MaxProgram + 1 : l.taken = PagesTaken(n)
  BY DEF SoundLoad
<1> DEFINE t == l.taken
           T == ToSet(t)
           k == Len(t)
<1>2. /\ k \in Nat /\ k <= n /\ T \subseteq Free /\ Cardinality(T) = k
      /\ \A p \in T, r \in Free \ T : p < r
  <2>1. n \in Nat
    BY MemoryAssumption
  <2> QED
    BY <1>1, <2>1, PagesTakenFirst
<1>3. /\ bitmap' = bitmap \cup T /\ programs' = programs \cup T
      /\ usedCount' = CountAfterLoad(k) /\ UNCHANGED <<lent, heap>>
  BY DEF Take
<1> HIDE DEF t, T, k
<1>4. CASE k = 0
  <2>1. T = {}
    <3>1. IsFiniteSet(T)
      BY <1>2, FreeFinite, FS_Subset
    <3> QED
      BY <1>2, <1>4, <3>1, FS_EmptySet
  <2>2. usedCount \in Int
    BY BitmapFinite DEF IInv, OneOwner
  <2>3. usedCount' = usedCount
    BY <1>3, <1>4, <2>2 DEF CountAfterLoad
  <2> QED
    BY <1>3, <2>1, <2>3 DEF vars
<1>5. CASE k # 0
  <2>1. k \in 1 .. MaxProgram + 1
    BY <1>2, <1>5, ProgramNat
  <2>2. LoadProgram(k)
    BY <1>2, <1>3 DEF LoadProgram
  <2> QED
    BY <2>1, <2>2 DEF Next
<1> QED
  BY <1>4, <1>5

\* Mapping a sound load keeps the window sound: the new entries hold the pages
\* taken, one each, and the old ones pages that were not free.
LEMMA EnterKeepsWindow ==
  ASSUME IInv, WindowOwned, NEW l, NEW f, SoundLoad(l), l.ok, Take(l), Enter(l, f)
  PROVE  OnRecord' /\ WindowOwned'
<1> DEFINE first == l.base \div PageSize
           count == l.count
           t == l.taken
           T == ToSet(t)
           Image == first .. first + count - 1
           New == Image \cup {StackPage}
           Place(v) == IF v = StackPage THEN count + 1 ELSE v - first + 1
<1>0. PICK n \in 0 .. MaxProgram + 1 : t = PagesTaken(n)
  BY DEF SoundLoad
<1>1. /\ T \subseteq Free /\ t \in Seq(Free)
      /\ \A i, j \in 1 .. Len(t) : t[i] = t[j] => i = j
  <2>1. n \in Nat
    BY MemoryAssumption
  <2> QED
    BY <1>0, <2>1, PagesTakenFirst
<1>2. /\ count \in 1 .. MaxProgram /\ Len(t) = count + 1 /\ first \in Int
      /\ first >= CodePage /\ first + count <= StackPage
  BY DEF SoundLoad
<1>3. T = {t[i] : i \in 1 .. count + 1}
  BY <1>1, <1>2 DEF ToSet
<1>4. StackPage \in Nat /\ CodePage \in Nat /\ MaxProgram \in Nat
  BY StackPageNat, ProgramsAssumption, MemoryAssumption
<1>5. New \subseteq VPages /\ StackPage \notin Image
  BY <1>2, <1>4 DEF VPages
<1>6. /\ win' = MapPages(l) /\ programs' = programs \cup T /\ pc' = "el0"
      /\ prog' = [kind |-> l.kind, file |-> f, base |-> l.base, count |-> count,
                  entry |-> l.entry, pages |-> T, fresh |-> TRUE]
  BY DEF Take, Enter
<1>7. ASSUME NEW v \in New
      PROVE  Place(v) \in 1 .. count + 1 /\ win'[v].page = t[Place(v)]
  <2>1. CASE v = StackPage
    <3>1. Place(v) = count + 1
      BY <2>1
    <3>2. win'[v] = UserData(Last(t))
      BY <1>5, <1>6, <2>1 DEF MapPages
    <3>3. Last(t) = t[count + 1]
      BY <1>2 DEF Last
    <3> QED
      BY <1>2, <3>1, <3>2, <3>3 DEF UserData
  <2>2. CASE v # StackPage
    <3>1. v \in Image /\ Place(v) = v - first + 1
      BY <2>2
    <3>2. win'[v] \in {UserData(t[v - first + 1]), UserCode(t[v - first + 1])}
      BY <1>5, <1>6, <3>1 DEF MapPages
    <3> QED
      BY <1>2, <3>1, <3>2 DEF UserData, UserCode
  <2> QED
    BY <2>1, <2>2
<1>8. ASSUME NEW v \in VPages \ New
      PROVE  win'[v] = win[v]
  BY <1>6 DEF MapPages
<1>9. ASSUME NEW u \in New, NEW v \in New, Place(u) = Place(v)
      PROVE  u = v
  BY <1>2, <1>4, <1>9
<1>10. ASSUME NEW i \in 1 .. count + 1
       PROVE  \E v \in New : Place(v) = i
  <2>1. CASE i = count + 1
    <3>1. StackPage \in New /\ Place(StackPage) = i
      BY <2>1
    <3> QED
      BY <3>1
  <2>2. CASE i # count + 1
    <3>1. first + i - 1 \in Image /\ first + i - 1 # StackPage
      BY <1>2, <1>4, <2>2
    <3>2. Place(first + i - 1) = i
      BY <1>2, <3>1
    <3> QED
      BY <3>1, <3>2
  <2> QED
    BY <2>1, <2>2
<1>11. programs \cap T = {}
  BY <1>1 DEF IInv, OneOwner, Free
<1> HIDE DEF first, count, t, T, Image, New, Place
<1>12. {win'[v].page : v \in New} = T
  BY <1>3, <1>7, <1>10
<1> DEFINE Mapped == {v \in VPages : win[v] # Unmapped}
           Mapped2 == {v \in VPages : win'[v] # Unmapped}
<1>13. ASSUME NEW v \in Mapped2
       PROVE  /\ v \in New => win'[v].page \in T
              /\ v \notin New => v \in Mapped /\ win'[v] = win[v] /\ win'[v].page \in programs
  <2>1. v \in New => win'[v].page \in T
    BY <1>12
  <2>2. ASSUME v \notin New
        PROVE  v \in Mapped /\ win'[v] = win[v] /\ win'[v].page \in programs
    <3>1. win'[v] = win[v] /\ v \in Mapped
      BY <1>8, <2>2
    <3> QED
      BY <3>1 DEF WindowOwned
  <2> QED
    BY <2>1, <2>2
<1>14. \A v \in Mapped2 : win'[v].page \in programs'
  BY <1>6, <1>13
<1>15. ASSUME NEW u \in Mapped2, NEW v \in Mapped2, win'[u].page = win'[v].page
       PROVE  u = v
  <2>1. CASE u \in New /\ v \in New
    <3>1. Place(u) = Place(v)
      <4>1. Place(u) \in 1 .. Len(t) /\ Place(v) \in 1 .. Len(t) /\ t[Place(u)] = t[Place(v)]
        BY <1>2, <1>7, <1>15, <2>1
      <4> QED
        BY <1>1, <4>1
    <3> QED
      BY <1>9, <2>1, <3>1
  <2>2. CASE u \notin New /\ v \notin New
    <3>1. u \in Mapped /\ v \in Mapped /\ win[u].page = win[v].page
      BY <1>13, <1>15, <2>2
    <3> QED
      BY <3>1 DEF WindowOwned
  <2>3. CASE ~(u \in New <=> v \in New)
    BY <1>11, <1>13, <1>15, <2>3
  <2> QED
    BY <2>1, <2>2, <2>3
<1>16. New = ImagePages' \cup {StackPage} /\ prog'.pages = T
  <2>1. prog'.base = l.base /\ prog'.count = count /\ prog'.pages = T
    BY <1>6
  <2> QED
    BY <2>1 DEF ImagePages, New, Image, first
<1>17. {win'[v].page : v \in ImagePages' \cup {StackPage}} = prog'.pages
  BY <1>12, <1>16
<1>18. WindowOwned'
  <2> HIDE DEF Mapped
  <2> QED
    BY <1>14, <1>15, <1>17 DEF WindowOwned, VPages, StackPage
<1>19. OnRecord'
  BY <1>6 DEF OnRecord
<1> QED
  BY <1>18, <1>19

\* What leaves the window, the running program and the programs' pages alone keeps
\* the window sound.
LEMMA WindowKept ==
  ASSUME OnRecord, WindowOwned, programs' = programs, UNCHANGED <<win, pc, prog>>
  PROVE  OnRecord' /\ WindowOwned'
BY DEF OnRecord, WindowOwned, ImagePages, VPages, StackPage, Unmapped

LEMMA InitPInv == PInit => PInv /\ Init
<1> SUFFICES ASSUME PInit PROVE PInv /\ Init
  OBVIOUS
<1>1. Init /\ IInv
  BY InitIInv DEF PInit
<1>2. OnRecord
  BY DEF PInit, OnRecord
<1>3. \A v \in VPages : win[v] = Unmapped
  BY DEF PInit
<1>4. WindowOwned
  BY <1>3 DEF PInit, WindowOwned
<1> QED
  BY <1>1, <1>2, <1>4 DEF PInit, PInv

LEMMA RunDemoStep ==
  ASSUME PInv, RunDemo
  PROVE  [Next]_vars /\ PInv'
<1> DEFINE l == LoadDemo
<1>1. l.ok /\ Take(l) /\ Enter(l, << >>) /\ fs' = fs
  BY DEF RunDemo
<1>2. SoundLoad(l)
  BY LoadDemoSound
<1> HIDE DEF l
<1>3. [Next]_vars
  BY <1>1, <1>2, TakeIsLoad DEF PInv
<1>4. IInv'
  BY <1>3, StepIInv DEF PInv
<1>5. OnRecord' /\ WindowOwned'
  BY <1>1, <1>2, EnterKeepsWindow DEF PInv
<1> QED
  BY <1>1, <1>3, <1>4, <1>5 DEF PInv

LEMMA RunFileStep ==
  ASSUME PInv, NEW path \in DOMAIN fs, NEW err, RunFile(path, err)
  PROVE  [Next]_vars /\ PInv'
<1> DEFINE l == LoadFile(fs[path], err)
           f == fs[path]
<1>1. /\ Take(l) /\ fs' = fs
      /\ IF l.ok THEN Enter(l, f) ELSE UNCHANGED <<win, pc, prog>>
  BY DEF RunFile
<1>2. IsFile(f)
  BY ProgramsAssumption DEF PInv
<1>3. SoundLoad(l)
  <2> HIDE DEF f
  <2>1. SoundLoad(LoadFile(f, err))
    BY <1>2, LoadFileSound
  <2> QED
    BY <2>1 DEF f
<1> HIDE DEF l, f
<1>4. [Next]_vars
  BY <1>1, <1>3, TakeIsLoad DEF PInv
<1>5. IInv'
  BY <1>4, StepIInv DEF PInv
<1>6. CASE l.ok
  BY <1>1, <1>3, <1>4, <1>5, <1>6, EnterKeepsWindow DEF PInv
<1>7. CASE ~l.ok
  <2>1. UNCHANGED <<win, pc, prog>>
    BY <1>1, <1>7
  <2>2. programs' = programs \cup ToSet(l.taken)
    BY <1>1 DEF Take
  <2>3. OnRecord'
    BY <2>1 DEF PInv, OnRecord
  <2>4. WindowOwned'
    BY <2>1, <2>2 DEF PInv, WindowOwned, ImagePages, VPages, StackPage, Unmapped
  <2> QED
    BY <1>1, <1>4, <1>5, <2>3, <2>4 DEF PInv
<1> QED
  BY <1>6, <1>7

LEMMA UserWriteStep ==
  ASSUME PInv, NEW v \in VPages, UserWrite(v)
  PROVE  [Next]_vars /\ PInv'
<1>1. UNCHANGED vars /\ fs' = fs /\ win' = win /\ pc' = pc /\ pc = "el0"
      /\ prog' = [prog EXCEPT !.fresh = FALSE]
  BY DEF UserWrite
<1>2. IInv'
  BY <1>1, StepIInv DEF PInv
<1>3. prog' = [kind |-> prog.kind, file |-> prog.file, base |-> prog.base, count |-> prog.count,
               entry |-> prog.entry, pages |-> prog.pages, fresh |-> FALSE]
  BY <1>1 DEF PInv, OnRecord
<1>4. OnRecord'
  BY <1>3 DEF OnRecord
<1>5. ImagePages' = ImagePages /\ prog'.pages = prog.pages
  BY <1>3 DEF ImagePages
<1>6. WindowOwned'
  BY <1>1, <1>5 DEF PInv, WindowOwned, VPages, StackPage, Unmapped, vars
<1> QED
  BY <1>1, <1>2, <1>4, <1>6 DEF PInv

LEMMA UserExitStep ==
  ASSUME PInv, UserExit
  PROVE  [Next]_vars /\ PInv'
<1>1. UNCHANGED vars /\ fs' = fs /\ win' = win /\ pc' = "prompt"
  BY DEF UserExit
<1>2. IInv'
  BY <1>1, StepIInv DEF PInv
<1>3. OnRecord' /\ WindowOwned'
  BY <1>1 DEF PInv, OnRecord, WindowOwned, VPages, StackPage, Unmapped, vars
<1> QED
  BY <1>1, <1>2, <1>3 DEF PInv

LEMMA StepPInv == PInv /\ [PNext]_pvars => [Next]_vars /\ PInv'
<1> SUFFICES ASSUME PInv, [PNext]_pvars PROVE [Next]_vars /\ PInv'
  OBVIOUS
<1>1. CASE RunDemo
  BY <1>1, RunDemoStep
<1>2. ASSUME NEW path \in DOMAIN fs, NEW err, RunFile(path, err)
      PROVE  [Next]_vars /\ PInv'
  BY <1>2, RunFileStep
<1>3. ASSUME NEW v \in VPages, UserWrite(v)
      PROVE  [Next]_vars /\ PInv'
  BY <1>3, UserWriteStep
<1>4. CASE UserExit
  BY <1>4, UserExitStep
<1>5. CASE OtherAlloc
  <2>1. [Next]_vars /\ IInv'
    BY <1>5, AllocPageIInv DEF OtherAlloc, PInv, Next
  <2>2. programs' = programs /\ UNCHANGED <<fs, win, pc, prog>>
    BY <1>5 DEF OtherAlloc, AllocPage
  <2> QED
    BY <2>1, <2>2, WindowKept DEF PInv
<1>6. ASSUME NEW p \in Pages, OtherFree(p)
      PROVE  [Next]_vars /\ PInv'
  <2>1. [Next]_vars /\ IInv'
    BY <1>6, FreePageIInv DEF OtherFree, PInv, Next
  <2>2. programs' = programs /\ UNCHANGED <<fs, win, pc, prog>>
    BY <1>6 DEF OtherFree, FreePage
  <2> QED
    BY <2>1, <2>2, WindowKept DEF PInv
<1>7. CASE UNCHANGED pvars
  <2>1. UNCHANGED vars /\ UNCHANGED <<fs, win, pc, prog>>
    BY <1>7 DEF pvars
  <2>2. programs' = programs /\ IInv'
    BY <2>1, StepIInv DEF PInv, vars
  <2> QED
    BY <2>1, <2>2, WindowKept DEF PInv
<1>8. ASSUME NEW path \in Paths, RunNothing(path)
      PROVE  [Next]_vars /\ PInv'
  BY <1>7, <1>8 DEF RunNothing
<1> QED
  BY <1>1, <1>2, <1>3, <1>4, <1>5, <1>6, <1>7, <1>8 DEF PNext

\* The inductive invariant of the run command holds in every state of it.
THEOREM ProgramsInvariant == PSpec => []PInv
<1> QED
  BY InitPInv, StepPInv, PTL DEF PSpec

\* However many programs run, fail to load or leave their entries behind, and
\* whoever else takes and frees pages meanwhile: the user window shows programs'
\* pages only, no page twice, and the running program exactly its own.
THEOREM WindowIsOwned == PSpec => []WindowOwned
<1>1. PInv => WindowOwned
  BY DEF PInv
<1> QED
  BY <1>1, ProgramsInvariant, PTL

\* The loaders, with their page rounding, wrapped counts and partial failures,
\* use memory as module Memory says: every load is the first free pages, counted
\* once, at most MaxProgram and a stack page.
THEOREM RunImplementsMemory == PSpec => ImplementsMemory
<1> QED
  BY InitPInv, StepPInv, PTL DEF PSpec, ImplementsMemory, Spec

\* So what is proved of the allocators holds while programs are loaded and run.
THEOREM RunKeepsOwners == PSpec => []OneOwner
<1> QED
  BY RunImplementsMemory, PagesHaveOneOwner, PTL DEF ImplementsMemory

----------------------------------------------------------------------------
(* Induction, and where a byte of an image lies *)

\* A set of numbers that has 0 and, with each number below n, the next one has
\* all of them up to n: induction, in the form the provers can use.
LEMMA Upto ==
  ASSUME NEW n \in Nat, NEW S, 0 \in S,
         \A i \in 1 .. n : i - 1 \in S => i \in S
  PROVE  \A i \in 0 .. n : i \in S
<1> SUFFICES ASSUME NEW k \in 0 .. n, k \notin S PROVE FALSE
  OBVIOUS
<1> DEFINE B == {i \in 0 .. n : i \notin S}
<1>1. B \in SUBSET Nat /\ B # {}
  OBVIOUS
<1>2. PICK i \in B : \A j \in B : i =< j
  <2> HIDE DEF B
  <2> QED
    BY <1>1, LeastInSet
<1>3. i \in 0 .. n /\ i \notin S /\ i # 0
  OBVIOUS
<1>4. i \in 1 .. n /\ i - 1 \in 0 .. n /\ ~(i =< i - 1)
  BY <1>3
<1>5. i - 1 \in S
  BY <1>2, <1>4
<1> QED
  BY <1>3, <1>4, <1>5

\* g starts at b and takes its next value from F.
Iterates(g, n, b, F) == g[0] = b /\ \A i \in 1 .. n : g[i] = F[<<i, g[i - 1]>>]

\* A recursive function over 0 .. n exists.
LEMMA Iterated ==
  ASSUME NEW n \in Nat, NEW V, NEW b \in V, NEW F \in [(1 .. n) \X V -> V]
  PROVE  \E g \in [0 .. n -> V] : Iterates(g, n, b, F)
<1> DEFINE Is(g, m) == g[0] = b /\ \A i \in 1 .. m : g[i] = F[<<i, g[i - 1]>>]
           S == {m \in 0 .. n : \E g \in [0 .. m -> V] : Is(g, m)}
<1>1. 0 \in S
  <2> DEFINE g == [i \in 0 .. 0 |-> b]
  <2>1. g \in [0 .. 0 -> V] /\ g[0] = b
    OBVIOUS
  <2>2. \A i \in 1 .. 0 : FALSE
    OBVIOUS
  <2> HIDE DEF g
  <2>3. 0 \in 0 .. n /\ Is(g, 0)
    BY <2>1, <2>2
  <2> QED
    BY <2>1, <2>3
<1>2. ASSUME NEW m \in 1 .. n, m - 1 \in S  PROVE m \in S
  <2>1. PICK g \in [0 .. m - 1 -> V] : Is(g, m - 1)
    BY <1>2
  <2> DEFINE h == [i \in 0 .. m |-> IF i = m THEN F[<<m, g[m - 1]>>] ELSE g[i]]
  <2>2. m \in Nat /\ m - 1 \in 0 .. m - 1 /\ m - 1 \in 0 .. m
    OBVIOUS
  <2>3. F[<<m, g[m - 1]>>] \in V
    BY <2>2
  <2>4. h \in [0 .. m -> V]
    BY <2>3
  <2>5. \A i \in 0 .. m - 1 : h[i] = g[i]
    OBVIOUS
  <2>6. h[m] = F[<<m, h[m - 1]>>]
    <3>1. h[m] = F[<<m, g[m - 1]>>] /\ h[m - 1] = g[m - 1]
      <4>1. m \in 0 .. m
        BY <2>2
      <4> QED
        BY <2>2, <2>5, <4>1
    <3> HIDE DEF h
    <3> QED
      BY <3>1
  <2>7. h[0] = b
    BY <2>1, <2>5
  <2> HIDE DEF h
  <2>8. ASSUME NEW i \in 1 .. m  PROVE h[i] = F[<<i, h[i - 1]>>]
    <3>1. CASE i = m
      BY <2>6, <3>1
    <3>2. CASE i # m
      <4>1. i \in 1 .. m - 1 /\ i \in 0 .. m - 1 /\ i - 1 \in 0 .. m - 1
        BY <3>2
      <4>2. g[i] = F[<<i, g[i - 1]>>]
        BY <2>1, <4>1
      <4> QED
        BY <2>5, <4>1, <4>2
    <3> QED
      BY <3>1, <3>2
  <2> QED
    BY <2>4, <2>7, <2>8
<1>3. n \in S
  <2>1. \A m \in 1 .. n : m - 1 \in S => m \in S
    BY <1>2
  <2> HIDE DEF S
  <2>2. \A i \in 0 .. n : i \in S
    BY <1>1, <2>1, Upto
  <2> QED
    BY <2>2
<1> QED
  BY <1>3 DEF Iterates

\* Quotient and remainder are unique.
LEMMA Quotient ==
  ASSUME NEW n \in Nat \ {0}, NEW q \in Int, NEW r \in 0 .. n - 1
  PROVE  (q * n + r) \div n = q /\ (q * n + r) % n = r
<1> DEFINE i == q * n + r
           d == i \div n
           m == i % n
<1>1. i \in Int
  OBVIOUS
<1> HIDE DEF i
<1>2. d \in Int /\ m \in 0 .. n - 1 /\ i = d * n + m
  BY <1>1
<1> HIDE DEF d, m
<1>3. q * n + r = d * n + m
  BY <1>2 DEF i
<1>4. CASE d < q
  <2>1. (q - d) * n = m - r
    BY <1>2, <1>3
  <2>2. (q - d) * n >= n
    BY <1>2, <1>4
  <2> QED
    BY <1>2, <2>1, <2>2
<1>5. CASE d > q
  <2>1. (d - q) * n = r - m
    BY <1>2, <1>3
  <2>2. (d - q) * n >= n
    BY <1>2, <1>5
  <2> QED
    BY <1>2, <2>1, <2>2
<1>6. CASE d = q
  BY <1>2, <1>3, <1>6 DEF d, m, i
<1> QED
  BY <1>2, <1>4, <1>5, <1>6

(***************************************************************************)
(* The bytes of an image: byte j of the image in pages is at offset        *)
(* j % PageSize of page j \div PageSize.                                   *)
(***************************************************************************)
Mem == [Pages -> [Offsets -> Int]]
Byte(m, pages, j) == m[pages[(j \div PageSize) + 1]][j % PageSize]

\* The pages of an image: memory's, distinct, no more than a program may have.
IsImage(pages) ==
  /\ pages \in Seq(Pages) /\ Len(pages) \in 0 .. MaxProgram
  /\ \A a, b \in 1 .. Len(pages) : pages[a] = pages[b] => a = b

\* The bytes of an image of n pages.
Extent(n) == 0 .. (n * PageSize) - 1

LEMMA PageFacts ==
  /\ PageSize \in Nat \ {0} /\ Chunk \in 1 .. PageSize /\ MaxProgram \in Nat /\ IndexMod \in Nat
  /\ Word \in Nat /\ CodePage \in Nat /\ MaxProgram < IndexMod /\ MaxProgram * PageSize < Word
  /\ 0 \in Offsets /\ Pages \subseteq Int
<1>1. /\ PageSize \in Nat \ {0} /\ Chunk \in 1 .. PageSize /\ MaxProgram \in Nat /\ IndexMod \in Nat
      /\ Word \in Nat /\ CodePage \in Nat /\ CodePage + MaxProgram + 1 < IndexMod
      /\ (CodePage + MaxProgram + 1) * PageSize < Word
  BY MemoryAssumption, ProgramsAssumption
<1>2. MaxProgram < CodePage + MaxProgram + 1 /\ CodePage + MaxProgram + 1 \in Int
  BY <1>1
<1>3. (MaxProgram * PageSize) + PageSize <= (CodePage + MaxProgram + 1) * PageSize
  BY <1>1, <1>2, ProductGrows
<1>4. MaxProgram * PageSize \in Int /\ (CodePage + MaxProgram + 1) * PageSize \in Int
  BY <1>1
<1>5. MaxProgram * PageSize < Word
  BY <1>1, <1>3, <1>4
<1>6. 0 \in Offsets /\ Pages \subseteq Int
  BY <1>1 DEF Offsets, Pages
<1> QED
  BY <1>1, <1>2, <1>5, <1>6

LEMMA ProductMonotone ==
  ASSUME NEW m \in Nat \ {0}, NEW a \in Int, NEW b \in Int, a <= b
  PROVE  a * m <= b * m /\ a * m \in Int /\ b * m \in Int
<1>1. a * m \in Int /\ b * m \in Int
  OBVIOUS
<1>2. CASE a = b
  BY <1>1, <1>2
<1>3. CASE a < b
  BY <1>1, <1>3, ProductGrows
<1> QED
  BY <1>1, <1>2, <1>3

\* In an image that is small enough for the window no index wraps.
LEMMA PlainIndex ==
  ASSUME NEW n \in 0 .. MaxProgram, NEW j \in Extent(n)
  PROVE  /\ j \in Nat /\ j \div PageSize \in 0 .. n - 1 /\ j % PageSize \in Offsets
         /\ j = ((j \div PageSize) * PageSize) + (j % PageSize)
         /\ PageIndex(j) = j \div PageSize /\ j % Word = j
<1>0. /\ PageSize \in Nat \ {0} /\ MaxProgram \in Nat /\ IndexMod \in Nat /\ Word \in Nat
      /\ MaxProgram < IndexMod /\ MaxProgram * PageSize < Word
  BY PageFacts
<1> DEFINE q == j \div PageSize
           r == j % PageSize
           M == MaxProgram * PageSize
           N == n * PageSize
<1>1. N <= M /\ N \in Int /\ M \in Int /\ n \in Int
  BY <1>0, ProductMonotone
<1>2. j \in Nat /\ j < N
  BY <1>1 DEF Extent
<1>3. q \in Int /\ r \in 0 .. PageSize - 1 /\ j = (q * PageSize) + r
  BY <1>0, <1>2
<1> HIDE DEF q, r
<1>4. q >= 0
  <2> SUFFICES ASSUME q < 0 PROVE FALSE
    BY <1>3
  <2>1. (q * PageSize) + PageSize <= 0 * PageSize
    BY <1>0, <1>3, ProductGrows
  <2>2. q * PageSize \in Int /\ 0 * PageSize = 0
    BY <1>0, <1>3
  <2> QED
    BY <1>0, <1>2, <1>3, <2>1, <2>2
<1>5. q < n
  <2> SUFFICES ASSUME n <= q PROVE FALSE
    BY <1>1, <1>3
  <2>1. n * PageSize <= q * PageSize /\ q * PageSize \in Int
    BY <1>0, <1>1, <1>3, ProductMonotone
  <2> QED
    BY <1>1, <1>2, <1>3, <2>1
<1>6. q \in 0 .. n - 1 /\ q < IndexMod /\ q \in Nat
  BY <1>0, <1>1, <1>3, <1>4, <1>5
<1>7. q % IndexMod = q
  BY <1>0, <1>6
<1>8. j % Word = j
  <2>1. j < Word
    BY <1>0, <1>1, <1>2
  <2> QED
    BY <1>0, <1>2, <2>1
<1> QED
  BY <1>2, <1>3, <1>6, <1>7, <1>8 DEF q, r, PageIndex, Offsets

\* The byte at an offset of a page of the image.
LEMMA ByteAt ==
  ASSUME NEW n \in 0 .. MaxProgram, NEW q \in 0 .. n - 1, NEW o \in Offsets
  PROVE  /\ (q * PageSize) + o \in Extent(n)
         /\ ((q * PageSize) + o) \div PageSize = q /\ ((q * PageSize) + o) % PageSize = o
<1>0. PageSize \in Nat \ {0} /\ n \in Int /\ q \in Int /\ o \in 0 .. PageSize - 1 /\ q < n /\ 0 <= q
  BY PageFacts DEF Offsets
<1>1. (q * PageSize) + PageSize <= n * PageSize
  BY <1>0, ProductGrows
<1>2. 0 * PageSize <= q * PageSize /\ q * PageSize \in Int
  BY <1>0, ProductMonotone
<1>3. n * PageSize \in Int /\ 0 * PageSize = 0
  BY <1>0
<1>4. (q * PageSize) + o \in Extent(n)
  BY <1>0, <1>1, <1>2, <1>3 DEF Extent
<1> QED
  BY <1>0, <1>4, Quotient

LEMMA StoreTyped ==
  ASSUME NEW m \in Mem, NEW p, NEW off \in Int, NEW data \in Seq(Int)
  PROVE  Store(m, p, off, data) \in Mem
<1> DEFINE g == [o \in Offsets |-> IF o - off + 1 \in DOMAIN data THEN data[o - off + 1] ELSE m[p][o]]
<1>1. Store(m, p, off, data) = [m EXCEPT ![p] = g]
  BY DEF Store
<1>2. CASE p \in Pages
  <2>1. g \in [Offsets -> Int]
    BY <1>2 DEF Mem
  <2> HIDE DEF g
  <2> QED
    BY <1>1, <2>1 DEF Mem
<1>3. CASE p \notin Pages
  <2> HIDE DEF g
  <2>1. [m EXCEPT ![p] = g] = m
    BY <1>3 DEF Mem
  <2> QED
    BY <1>1, <2>1
<1> QED
  BY <1>2, <1>3

\* The pages outside the image are as they were.
Others(m, m2, pages) == \A p \in Pages : p \notin ToSet(pages) => m2[p] = m[p]

\* The memory m2 is m with data put at place d of the image.
Landed(m, m2, pages, d, data) ==
  /\ Others(m, m2, pages)
  /\ \A j \in Extent(Len(pages)) :
       Byte(m2, pages, j) = IF j \in d .. d + Len(data) - 1 THEN data[j - d + 1] ELSE Byte(m, pages, j)

\* Bytes stored in one page of the image.
LEMMA StoreLands ==
  ASSUME NEW m \in Mem, NEW pages, IsImage(pages), NEW q \in 0 .. Len(pages) - 1,
         NEW off \in Offsets, NEW data \in Seq(Int), off + Len(data) <= PageSize
  PROVE  Landed(m, Store(m, pages[q + 1], off, data), pages, (q * PageSize) + off, data)
<1> DEFINE n == Len(pages)
           d == (q * PageSize) + off
           p == pages[q + 1]
           m2 == Store(m, p, off, data)
<1>0. /\ PageSize \in Nat \ {0} /\ off \in 0 .. PageSize - 1 /\ n \in 0 .. MaxProgram /\ n \in Nat
      /\ pages \in [1 .. n -> Pages] /\ q \in Int /\ MaxProgram \in Nat
  BY PageFacts DEF IsImage, Offsets
<1>20. Others(m, m2, pages)
  <2>1. q + 1 \in DOMAIN pages
    BY <1>0
  <2>2. p \in ToSet(pages)
    BY <2>1 DEF ToSet
  <2> HIDE DEF p
  <2> QED
    BY <2>2 DEF Others, Store, Mem
<1>1. SUFFICES ASSUME NEW j \in Extent(n)
      PROVE  Byte(m2, pages, j) = IF j \in d .. d + Len(data) - 1 THEN data[j - d + 1]
                                  ELSE Byte(m, pages, j)
  BY <1>20 DEF Landed
<1> DEFINE a == j \div PageSize
           r == j % PageSize
<1>2. /\ j \in Nat /\ a \in 0 .. n - 1 /\ r \in Offsets /\ j = (a * PageSize) + r
  BY <1>0, PlainIndex
<1>3. r \in 0 .. PageSize - 1
  BY <1>2 DEF Offsets
<1> HIDE DEF a, r, n
<1>4. p \in Pages /\ pages[a + 1] \in Pages /\ q + 1 \in 1 .. n /\ a + 1 \in 1 .. n
  <2>1. q + 1 \in 1 .. n /\ a + 1 \in 1 .. n
    BY <1>0, <1>2 DEF n
  <2> QED
    BY <1>0, <2>1
<1>5. Byte(m2, pages, j) = m2[pages[a + 1]][r] /\ Byte(m, pages, j) = m[pages[a + 1]][r]
  BY DEF Byte, a, r
<1>6. m2 = [m EXCEPT ![p] = [o \in Offsets |-> IF o - off + 1 \in DOMAIN data THEN data[o - off + 1]
                                               ELSE m[p][o]]]
  BY DEF Store
<1>7. DOMAIN data = 1 .. Len(data) /\ Len(data) \in Nat
  OBVIOUS
<1>8. q * PageSize \in Int /\ a * PageSize \in Int /\ d \in Int
  BY <1>0, <1>2
<1>9. CASE a = q
  <2>1. j - d = r - off
    BY <1>0, <1>2, <1>3, <1>8, <1>9
  <2>2. m2[p][r] = IF r - off + 1 \in DOMAIN data THEN data[r - off + 1] ELSE m[p][r]
    BY <1>2, <1>4, <1>6 DEF Mem
  <2> HIDE DEF d, m2
  <2>3. j \in d .. d + Len(data) - 1 <=> r - off + 1 \in DOMAIN data
    BY <1>0, <1>2, <1>3, <1>7, <1>8, <2>1
  <2>4. j - d + 1 = r - off + 1
    BY <2>1
  <2>5. pages[a + 1] = p
    BY <1>9
  <2> HIDE DEF p
  <2> QED
    BY <1>5, <2>2, <2>3, <2>4, <2>5
<1>10. CASE a # q
  <2>1. pages[a + 1] # p
    BY <1>0, <1>2, <1>4, <1>10 DEF IsImage, n
  <2>2. m2[pages[a + 1]] = m[pages[a + 1]]
    BY <1>4, <1>6, <2>1 DEF Mem
  <2>3. j \notin d .. d + Len(data) - 1
    <3> DEFINE A == a * PageSize
               Q == q * PageSize
    <3>0. A \in Int /\ Q \in Int /\ j = A + r /\ d = Q + off
      BY <1>2, <1>8
    <3>1. CASE a < q
      <4>1. A + PageSize <= Q
        BY <1>0, <1>2, <3>1, ProductGrows
      <4> HIDE DEF A, Q, d
      <4>2. j < d
        BY <1>0, <1>3, <3>0, <4>1
      <4> QED
        BY <1>0, <1>2, <1>8, <4>2
    <3>2. CASE q < a
      <4>1. Q + PageSize <= A
        BY <1>0, <1>2, <3>2, ProductGrows
      <4> HIDE DEF A, Q, d
      <4>2. d + Len(data) <= j
        BY <1>0, <1>3, <1>7, <3>0, <4>1
      <4> QED
        BY <1>2, <1>7, <1>8, <4>2
    <3> QED
      BY <1>0, <1>2, <1>10, <3>1, <3>2
  <2> HIDE DEF d, m2
  <2> QED
    BY <1>5, <2>2, <2>3
<1> QED
  BY <1>9, <1>10

----------------------------------------------------------------------------
(***************************************************************************)
(* Copying.  A load in progress, and what a step of it keeps.              *)
(***************************************************************************)
Loaded == [ok : BOOLEAN, mem : Mem, rw : SUBSET Int, mapped : BOOLEAN]

SameRest(st, r) == r \in Loaded /\ r.rw = st.rw /\ r.mapped = st.mapped

\* The first bytes of a chunk, and the others.
LEMMA Cut ==
  ASSUME NEW data \in Seq(Int), NEW h \in 0 .. Len(data)
  PROVE  /\ SubSeq(data, 1, h) \in Seq(Int) /\ Len(SubSeq(data, 1, h)) = h
         /\ \A i \in 1 .. h : SubSeq(data, 1, h)[i] = data[i]
         /\ SubSeq(data, h + 1, Len(data)) \in Seq(Int)
         /\ Len(SubSeq(data, h + 1, Len(data))) = Len(data) - h
         /\ \A i \in 1 .. Len(data) - h : SubSeq(data, h + 1, Len(data))[i] = data[h + i]
<1> DEFINE n == Len(data)
           a == [i \in 1 .. h |-> data[i]]
           b == [i \in 1 .. n - h |-> data[h + i]]
<1>1. data \in [1 .. n -> Int] /\ n \in Nat /\ h \in Nat /\ h <= n
  OBVIOUS
<1>2. SubSeq(data, 1, h) = a
  OBVIOUS
<1>3. SubSeq(data, h + 1, n) = b
  OBVIOUS
<1>4. a \in [1 .. h -> Int] /\ b \in [1 .. n - h -> Int] /\ n - h \in Nat
  <2>1. \A i \in 1 .. h : i \in 1 .. n
    BY <1>1
  <2>2. \A i \in 1 .. n - h : h + i \in 1 .. n
    BY <1>1
  <2> HIDE DEF n
  <2> QED
    BY <1>1, <2>1, <2>2
<1>5. a \in Seq(Int) /\ Len(a) = h /\ b \in Seq(Int) /\ Len(b) = n - h
  <2>1. a \in Seq(Int) /\ Len(a) = h
    <3> HIDE DEF a
    <3> QED
      BY <1>1, <1>4
  <2>2. b \in Seq(Int) /\ Len(b) = n - h
    <3> DEFINE e == n - h
    <3>1. e \in Nat /\ b \in [1 .. e -> Int]
      BY <1>4
    <3> HIDE DEF b, e
    <3>2. b \in Seq(Int) /\ Len(b) = e
      BY <3>1
    <3> QED
      BY <3>2 DEF e
  <2> QED
    BY <2>1, <2>2
<1> QED
  BY <1>2, <1>3, <1>5

\* Data put down in two pieces.
LEMMA LandedTwice ==
  ASSUME NEW m, NEW m1, NEW m2, NEW pages, NEW d \in Nat, NEW data \in Seq(Int),
         NEW h \in 0 .. Len(data),
         Landed(m, m1, pages, d, SubSeq(data, 1, h)),
         Landed(m1, m2, pages, d + h, SubSeq(data, h + 1, Len(data)))
  PROVE  Landed(m, m2, pages, d, data)
<1> DEFINE a == SubSeq(data, 1, h)
           b == SubSeq(data, h + 1, Len(data))
           n == Len(data)
<1>1. /\ Len(a) = h /\ (\A i \in 1 .. h : a[i] = data[i])
      /\ Len(b) = n - h /\ (\A i \in 1 .. n - h : b[i] = data[h + i])
      /\ n \in Nat /\ h \in Nat /\ h <= n
  <2>1. n \in Nat /\ h \in Nat /\ h <= n
    OBVIOUS
  <2>2. Len(a) = h /\ Len(b) = n - h
    BY Cut
  <2>3. \A i \in 1 .. h : a[i] = data[i]
    BY Cut
  <2>4. \A i \in 1 .. n - h : b[i] = data[h + i]
    BY Cut
  <2> QED
    BY <2>1, <2>2, <2>3, <2>4
<1>20. Others(m, m2, pages)
  BY DEF Landed, Others
<1>2. SUFFICES ASSUME NEW j \in Extent(Len(pages))
      PROVE  Byte(m2, pages, j) = IF j \in d .. d + n - 1 THEN data[j - d + 1] ELSE Byte(m, pages, j)
  BY <1>20 DEF Landed
<1>3. Byte(m1, pages, j) = IF j \in d .. d + Len(a) - 1 THEN a[j - d + 1] ELSE Byte(m, pages, j)
  BY DEF Landed
<1>4. Byte(m2, pages, j) = IF j \in (d + h) .. (d + h) + Len(b) - 1 THEN b[j - (d + h) + 1]
                           ELSE Byte(m1, pages, j)
  BY DEF Landed
<1>5. j \in Int
  BY DEF Extent
<1> HIDE DEF a, b, n
<1>6. CASE j < d + h
  <2>1. j \notin (d + h) .. (d + h) + Len(b) - 1
    BY <1>5, <1>6, <1>1
  <2>2. j \in d .. d + n - 1 <=> j \in d .. d + Len(a) - 1
    BY <1>1, <1>5, <1>6
  <2>3. j \in d .. d + Len(a) - 1 => j - d + 1 \in 1 .. h
    BY <1>1, <1>5, <1>6
  <2> QED
    BY <1>1, <1>3, <1>4, <2>1, <2>2, <2>3
<1>7. CASE ~(j < d + h)
  <2>1. j \notin d .. d + Len(a) - 1
    BY <1>1, <1>5, <1>7
  <2>2. j \in d .. d + n - 1 <=> j \in (d + h) .. (d + h) + Len(b) - 1
    BY <1>1, <1>5, <1>7
  <2>3. ASSUME j \in d .. d + n - 1
        PROVE  j - (d + h) + 1 \in 1 .. n - h /\ h + (j - (d + h) + 1) = j - d + 1
    BY <1>1, <1>5, <1>7, <2>3
  <2>4. j \in d .. d + n - 1 => b[j - (d + h) + 1] = data[j - d + 1]
    BY <1>1, <2>3
  <2> QED
    BY <1>3, <1>4, <2>1, <2>2, <2>4
<1> QED
  BY <1>6, <1>7

\* One chunk, at the end of a page and the start of the next.
LEMMA ChunkLands ==
  ASSUME NEW st \in Loaded, NEW pages, IsImage(pages), NEW data \in Seq(Int),
         Len(data) \in 1 .. Chunk, NEW dest \in Nat,
         dest + Len(data) <= Len(pages) * PageSize
  PROVE  /\ SameRest(st, CopyChunk(st, data, dest, pages))
         /\ CopyChunk(st, data, dest, pages).ok = st.ok
         /\ Landed(st.mem, CopyChunk(st, data, dest, pages).mem, pages, dest, data)
<1> DEFINE n == Len(pages)
           k == Len(data)
           q == dest \div PageSize
           off == dest % PageSize
           head == IF PageSize - off <= k THEN PageSize - off ELSE k
           one == SubSeq(data, 1, head)
           two == SubSeq(data, head + 1, k)
           once == Store(st.mem, pages[q + 1], off, one)
           twice == Store(once, pages[q + 2], 0, two)
           r == CopyChunk(st, data, dest, pages)
           N == n * PageSize
<1>0. /\ PageSize \in Nat \ {0} /\ n \in 0 .. MaxProgram /\ k \in Nat /\ k >= 1 /\ k <= PageSize
      /\ n \in Int /\ N \in Int /\ st.mem \in Mem /\ dest + k <= N
  BY PageFacts DEF IsImage, Loaded
<1>1. dest \in Extent(n)
  <2> HIDE DEF n, k, N
  <2> QED
    BY <1>0 DEF Extent, N
<1>2. /\ q \in 0 .. n - 1 /\ off \in Offsets /\ dest = (q * PageSize) + off
      /\ PageIndex(dest) = q
  BY <1>0, <1>1, PlainIndex
<1>3. off \in 0 .. PageSize - 1 /\ off \in Int
  BY <1>2 DEF Offsets
<1> HIDE DEF q, off
<1>4. /\ Min({PageSize - off, Len(data)}) = head /\ head \in 1 .. k /\ head \in 0 .. Len(data)
      /\ off + head <= PageSize
  <2>1. Min({PageSize - off, k}) = head
    BY <1>0, <1>3, MinOfTwo
  <2> QED
    BY <1>0, <1>3, <2>1
<1>5. r = IF q >= n THEN [st EXCEPT !.ok = FALSE]
          ELSE IF head = k THEN [st EXCEPT !.mem = once]
          ELSE IF q + 1 >= n THEN [st EXCEPT !.mem = once, !.ok = FALSE]
          ELSE [st EXCEPT !.mem = twice]
  BY <1>2, <1>4 DEF CopyChunk, off
<1> HIDE DEF head
<1>6. one \in Seq(Int) /\ Len(one) = head /\ two \in Seq(Int) /\ Len(two) = k - head
  BY <1>4, Cut
<1>7. once \in Mem /\ Landed(st.mem, once, pages, dest, one)
  <2> HIDE DEF one
  <2>1. once \in Mem
    BY <1>0, <1>3, <1>6, StoreTyped
  <2>2. Landed(st.mem, once, pages, (q * PageSize) + off, one)
    BY <1>0, <1>2, <1>4, <1>6, StoreLands
  <2> QED
    BY <1>2, <2>1, <2>2
<1>8. ~(q >= n)
  BY <1>0, <1>2
<1>9. CASE head = k
  <2>1. r = [st EXCEPT !.mem = once]
    BY <1>5, <1>8, <1>9
  <2>2. one = data
    BY <1>9
  <2> HIDE DEF once, one, r
  <2>3. r \in Loaded /\ r.ok = st.ok /\ r.rw = st.rw /\ r.mapped = st.mapped /\ r.mem = once
    BY <1>7, <2>1 DEF Loaded
  <2> QED
    BY <1>7, <2>2, <2>3 DEF SameRest, r
<1>10. CASE head # k
  <2>1. off + head = PageSize /\ head < k
    BY <1>0, <1>3, <1>10 DEF head
  <2> DEFINE Q == q * PageSize
             P == (q + 1) * PageSize
  <2>2. P = Q + PageSize /\ Q \in Int /\ dest = Q + off
    BY <1>0, <1>2
  <2>3. P = dest + head /\ P < N
    <3> HIDE DEF P, Q, N, k
    <3> QED
      BY <1>0, <1>3, <1>4, <2>1, <2>2
  <2>4. q + 1 < n
    <3> SUFFICES ASSUME n <= q + 1 PROVE FALSE
      BY <1>0, <1>2
    <3>1. N <= P
      BY <1>0, <1>2, ProductMonotone
    <3> HIDE DEF P, N
    <3>2. P \in Int
      BY <2>2, <1>0
    <3> QED
      BY <1>0, <2>3, <3>1, <3>2
  <2>5. r = [st EXCEPT !.mem = twice]
    BY <1>0, <1>2, <1>5, <1>8, <1>10, <2>4
  <2>6. twice \in Mem /\ Landed(once, twice, pages, dest + head, two)
    <3> DEFINE q1 == q + 1
    <3>1. q1 \in 0 .. n - 1 /\ q1 + 1 = q + 2 /\ 0 \in Offsets /\ 0 \in Int
      BY <1>0, <1>2, <2>4, PageFacts
    <3>2. 0 + Len(two) <= PageSize
      BY <1>0, <1>4, <1>6
    <3> HIDE DEF once, two, q1
    <3>3. Store(once, pages[q1 + 1], 0, two) \in Mem
      BY <1>6, <1>7, <3>1, StoreTyped
    <3>4. Landed(once, Store(once, pages[q1 + 1], 0, two), pages, (q1 * PageSize) + 0, two)
      BY <1>6, <1>7, <3>1, <3>2, StoreLands
    <3>5. (q1 * PageSize) + 0 = dest + head
      BY <2>2, <2>3, <1>0 DEF q1
    <3> QED
      BY <3>1, <3>3, <3>4, <3>5
  <2>7. Landed(st.mem, twice, pages, dest, data)
    <3> HIDE DEF once, twice
    <3> QED
      BY <1>4, <1>7, <2>6, LandedTwice
  <2> HIDE DEF twice, r
  <2>8. r \in Loaded /\ r.ok = st.ok /\ r.rw = st.rw /\ r.mapped = st.mapped /\ r.mem = twice
    BY <2>5, <2>6 DEF Loaded
  <2> QED
    BY <2>7, <2>8 DEF SameRest, r
<1> QED
  BY <1>9, <1>10

\* However the blocks of the device cut it, what file_read returns are the bytes of
\* the file.
LEMMA FileBytes ==
  ASSUME NEW f, IsFile(f), NEW off \in Nat, NEW n \in Nat \ {0}, off + n <= f.size
  PROVE  /\ FileRead(f, off, n) \in Seq(Int) /\ Len(FileRead(f, off, n)) = n
         /\ \A i \in 1 .. n : FileRead(f, off, n)[i] = f.at + off + i - 1
<1> DEFINE a == f.at + off
           g == [i \in 1 .. n |-> BlockByte((a + i - 1) \div BlockSize, (a + i - 1) % BlockSize)]
<1>0. BlockSize \in Nat \ {0} /\ f.at \in Nat /\ f.size \in Nat /\ a \in Nat
  <2>1. BlockSize \in Nat \ {0} /\ Word \in Nat
    BY ProgramsAssumption
  <2> QED
    BY <2>1 DEF IsFile, Words
<1>1. FileRead(f, off, n) = ReadBytes(a, Min({n, f.size - off}))
  <2>1. ~(off >= f.size)
    BY <1>0
  <2> QED
    BY <2>1 DEF FileRead, ReadFilePart
<1>2. Min({n, f.size - off}) = n
  <2>1. f.size - off \in Int /\ n <= f.size - off /\ n \in Int
    BY <1>0
  <2> QED
    BY <2>1, MinOfTwo
<1>3. FileRead(f, off, n) = g
  BY <1>1, <1>2 DEF ReadBytes
<1> HIDE DEF a
<1>4. \A i \in 1 .. n : g[i] = a + i - 1
  <2> SUFFICES ASSUME NEW i \in 1 .. n PROVE g[i] = a + i - 1
    OBVIOUS
  <2> DEFINE x == a + i - 1
  <2>1. x \in Nat
    BY <1>0
  <2>2. g[i] = ((x \div BlockSize) * BlockSize) + (x % BlockSize)
    BY DEF BlockByte
  <2> HIDE DEF x
  <2>3. x = ((x \div BlockSize) * BlockSize) + (x % BlockSize)
    BY <1>0, <2>1
  <2> QED
    BY <2>2, <2>3 DEF x
<1>5. g \in Seq(Int) /\ Len(g) = n
  <2>1. \A i \in 1 .. n : g[i] \in Int
    <3> HIDE DEF g
    <3> QED
      BY <1>0, <1>4
  <2>2. g \in [1 .. n -> Int]
    BY <2>1
  <2> HIDE DEF g
  <2> QED
    BY <2>2
<1>6. \A i \in 1 .. n : g[i] = f.at + off + i - 1
  BY <1>4 DEF a
<1> HIDE DEF g
<1> QED
  BY <1>3, <1>5, <1>6

\* How many bytes k chunks are.
Done(size, k) == IF k * Chunk <= size THEN k * Chunk ELSE size

\* Where chunk k starts and how long it is.
ChunkAt(size, k) ==
  /\ (k - 1) * Chunk \in Nat /\ (k - 1) * Chunk < size
  /\ Done(size, k - 1) = (k - 1) * Chunk
  /\ Min({Chunk, size - (k - 1) * Chunk}) \in 1 .. Chunk
  /\ Done(size, k) = (k - 1) * Chunk + Min({Chunk, size - (k - 1) * Chunk})
  /\ Done(size, k) <= size

LEMMA ChunkFacts ==
  ASSUME NEW size \in Nat
  PROVE  /\ ChunkCount(size) \in Nat
         /\ Done(size, 0) = 0 /\ Done(size, ChunkCount(size)) = size
         /\ \A k \in 1 .. ChunkCount(size) : ChunkAt(size, k)
<1> DEFINE c == Chunk
           t == size + c - 1
           K == t \div c
           T == K * c
<1>0. c \in Nat \ {0} /\ t \in Nat
  BY PageFacts
<1>1. K \in Int /\ T <= t /\ t < T + c /\ T \in Int
  <2>1. K \in Int /\ T <= t /\ t < T + c
    BY <1>0, PageOf
  <2> QED
    BY <1>0, <2>1
<1>2. ChunkCount(size) = K
  BY DEF ChunkCount
<1>3. K \in Nat
  <2> SUFFICES ASSUME K <= -1 PROVE FALSE
    BY <1>1
  <2>1. T <= -1 * c
    BY <1>0, <1>1, ProductMonotone
  <2>2. -1 * c = -c
    BY <1>0
  <2> HIDE DEF T, K
  <2> QED
    BY <1>0, <1>1, <2>1, <2>2
<1>4. Done(size, 0) = 0
  BY <1>0 DEF Done
<1>5. Done(size, K) = size
  <2> HIDE DEF K
  <2>1. size <= T
    <3> HIDE DEF T
    <3> QED
      BY <1>0, <1>1
  <2>2. Done(size, K) = IF T <= size THEN T ELSE size
    BY DEF Done
  <2> HIDE DEF T
  <2> QED
    BY <1>1, <2>1, <2>2
<1>6. ASSUME NEW k \in 1 .. K
      PROVE  ChunkAt(size, k)
  <2> HIDE DEF K
  <2> DEFINE a == (k - 1) * c
             b == k * c
             n == Min({c, size - a})
  <2>1. k \in Int /\ k <= K /\ 1 <= k
    BY <1>3
  <2>2. a \in Nat /\ b = a + c /\ b <= T
    <3>1. b <= T /\ b \in Int
      BY <1>0, <1>1, <2>1, ProductMonotone
    <3>2. b = a + c /\ a \in Int
      BY <1>0, <2>1
    <3>3. 0 * c <= a /\ 0 * c = 0
      BY <1>0, <2>1, ProductMonotone
    <3> QED
      BY <3>1, <3>2, <3>3
  <2>3. Done(size, k - 1) = (IF a <= size THEN a ELSE size) /\ Done(size, k) = IF b <= size THEN b ELSE size
    BY DEF Done
  <2> HIDE DEF a, b, T
  <2>4. a < size
    BY <1>0, <1>1, <2>2
  <2>5. n = IF c <= size - a THEN c ELSE size - a
    BY <1>0, <2>2, MinOfTwo
  <2> HIDE DEF n
  <2>6. a < size /\ n \in 1 .. c /\ Done(size, k - 1) = a /\ Done(size, k) = a + n /\ Done(size, k) <= size
    BY <1>0, <2>2, <2>3, <2>4, <2>5
  <2> QED
    BY <2>2, <2>6 DEF a, n, ChunkAt
<1> QED
  BY <1>2, <1>3, <1>4, <1>5, <1>6

\* A part of a file that the file and the image have room for.
PartFits(f, part, pages) ==
  /\ part.offset \in Nat /\ part.to \in Nat /\ part.size \in Nat
  /\ part.offset + part.size <= f.size
  /\ part.to + part.size <= Len(pages) * PageSize

\* The first c bytes of the part are in the image.
Copied(f, part, c, m, m2, pages) ==
  /\ Others(m, m2, pages)
  /\ \A j \in Extent(Len(pages)) :
       Byte(m2, pages, j) = IF j \in part.to .. part.to + c - 1
                            THEN f.at + part.offset + (j - part.to) ELSE Byte(m, pages, j)

\* The step from st to r adds chunk k to what has been copied.
Adds(f, part, k, pages, st, r) ==
  \A m : r.ok /\ Copied(f, part, Done(part.size, k - 1), m, st.mem, pages)
          => Copied(f, part, Done(part.size, k), m, r.mem, pages)

LEMMA CopyStepCopies ==
  ASSUME NEW f, IsFile(f), NEW st \in Loaded, NEW pages, IsImage(pages), NEW err, NEW part,
         PartFits(f, part, pages), NEW k \in 1 .. ChunkCount(part.size)
  PROVE  /\ SameRest(st, CopyStep(st, f, part, k, pages, err))
         /\ CopyStep(st, f, part, k, pages, err).ok => st.ok
         /\ Adds(f, part, k, pages, st, CopyStep(st, f, part, k, pages, err))
<1> DEFINE size == part.size
           from == (k - 1) * Chunk
           n == Min({Chunk, size - from})
           at == f.at
           to == part.to
           begin == part.offset
           off == begin + from
           dest == to + from
           data == FileRead(f, off, n)
           r == CopyStep(st, f, part, k, pages, err)
           N == Len(pages) * PageSize
           done == CopyChunk(st, data, dest, pages)
           fail == [st EXCEPT !.ok = FALSE]
<1>0. /\ size \in Nat /\ begin \in Nat /\ to \in Nat /\ N \in Int
      /\ begin + size <= f.size /\ to + size <= N /\ at \in Nat /\ f.size \in Int
  <2>1. PageSize \in Nat /\ Len(pages) \in Int /\ Word \in Nat
    BY PageFacts DEF IsImage
  <2> QED
    BY <2>1 DEF PartFits, IsFile, Words
<1>1. /\ from \in Nat /\ from < size /\ n \in 1 .. Chunk /\ Chunk \in Nat
      /\ Done(size, k - 1) = from /\ Done(size, k) = from + n /\ from + n <= size
  <2> HIDE DEF size
  <2>1. k \in 1 .. ChunkCount(size)
    BY DEF size
  <2>2. ChunkAt(size, k) /\ Chunk \in Nat
    BY <1>0, <2>1, ChunkFacts, PageFacts
  <2>3. Done(size, k) = from + n /\ Done(size, k) <= size
    BY <2>2 DEF ChunkAt
  <2> QED
    BY <2>2, <2>3 DEF ChunkAt
<1> HIDE DEF from, n, N
<1>2. off \in Nat /\ dest \in Nat /\ n \in Nat \ {0} /\ off + n <= f.size /\ dest + n <= N /\ dest < N
  BY <1>0, <1>1
<1>3. data \in Seq(Int) /\ Len(data) = n /\ \A i \in 1 .. n : data[i] = at + off + i - 1
  <2> HIDE DEF off
  <2> QED
    BY <1>2, FileBytes
<1>4. dest % Word = dest
  <2>1. dest \in Extent(Len(pages))
    BY <1>0, <1>2 DEF Extent, N
  <2>2. Len(pages) \in 0 .. MaxProgram
    BY DEF IsImage
  <2> QED
    BY <2>1, <2>2, PlainIndex
<1>5. r = IF ~st.ok \/ Len(data) # n \/ Read("data", part.tag, k) = err THEN fail
          ELSE CopyChunk(st, data, dest % Word, pages)
  BY DEF CopyStep, from, n
<1>6. r = IF ~st.ok \/ Read("data", part.tag, k) = err THEN fail ELSE done
  <2> HIDE DEF data, dest, r, fail
  <2> QED
    BY <1>3, <1>4, <1>5
<1>7. SameRest(st, done) /\ done.ok = st.ok /\ Landed(st.mem, done.mem, pages, dest, data)
  <2> HIDE DEF data, dest
  <2>1. Len(data) \in 1 .. Chunk /\ dest + Len(data) <= Len(pages) * PageSize
    BY <1>1, <1>2, <1>3 DEF N
  <2> QED
    BY <1>2, <1>3, <2>1, ChunkLands
<1>8. SameRest(st, fail) /\ ~fail.ok
  BY DEF Loaded, SameRest
<1> HIDE DEF r, done, fail, data
<1>9. CASE r = fail
  <2>1. Adds(f, part, k, pages, st, r)
    BY <1>8, <1>9 DEF Adds
  <2> QED
    BY <1>8, <1>9, <2>1 DEF r
<1>10. CASE r # fail
  <2>1. r = done /\ st.ok
    BY <1>6, <1>10
  <2>2. ASSUME NEW m, Copied(f, part, from, m, st.mem, pages)
        PROVE  Copied(f, part, from + n, m, r.mem, pages)
    <3>20. Others(m, r.mem, pages)
      BY <1>7, <2>1, <2>2 DEF Landed, Copied, Others
    <3> SUFFICES ASSUME NEW j \in Extent(Len(pages))
                 PROVE  Byte(r.mem, pages, j) = IF j \in to .. to + (from + n) - 1
                                                THEN at + begin + (j - to)
                                                ELSE Byte(m, pages, j)
      BY <3>20 DEF Copied
    <3>1. Byte(st.mem, pages, j) = IF j \in to .. to + from - 1
                                   THEN at + begin + (j - to) ELSE Byte(m, pages, j)
      BY <2>2 DEF Copied
    <3>2. Byte(r.mem, pages, j) = IF j \in dest .. dest + n - 1 THEN data[j - dest + 1]
                                  ELSE Byte(st.mem, pages, j)
      BY <1>3, <1>7, <2>1 DEF Landed
    <3>3. j \in Int
      BY DEF Extent
    <3> HIDE DEF to, begin, at
    <3>4. CASE j \in dest .. dest + n - 1
      <4>1. j - dest + 1 \in 1 .. n /\ j \in to .. to + (from + n) - 1
        BY <1>0, <1>1, <1>2, <3>3, <3>4
      <4>2. data[j - dest + 1] = at + off + (j - dest + 1) - 1
        BY <1>3, <4>1
      <4>3. at + off + (j - dest + 1) - 1 = at + begin + (j - to)
        BY <1>0, <1>1, <3>3
      <4> HIDE DEF dest, off
      <4> QED
        BY <3>2, <3>4, <4>1, <4>2, <4>3
    <3>5. CASE j \notin dest .. dest + n - 1
      <4>1. j \in to .. to + (from + n) - 1 <=> j \in to .. to + from - 1
        BY <1>0, <1>1, <1>2, <3>3, <3>5
      <4> HIDE DEF dest, off
      <4> QED
        BY <3>1, <3>2, <3>5, <4>1
    <3> QED
      BY <3>4, <3>5
  <2>3. Adds(f, part, k, pages, st, r)
    BY <1>1, <2>2 DEF Adds
  <2> QED
    BY <1>7, <2>1, <2>3 DEF r
<1> QED
  BY <1>9, <1>10

\* user_load_file_into_pages and user_copy_file_range_into_pages: when no read fails
\* the part is in the image, and nothing else of the image has changed.
LEMMA CopyPartCopies ==
  ASSUME NEW f, IsFile(f), NEW st \in Loaded, NEW pages, IsImage(pages), NEW err, NEW part,
         PartFits(f, part, pages)
  PROVE  /\ SameRest(st, CopyPart(st, f, part, pages, err))
         /\ CopyPart(st, f, part, pages, err).ok =>
              /\ st.ok
              /\ Copied(f, part, part.size, st.mem, CopyPart(st, f, part, pages, err).mem, pages)
<1> DEFINE size == part.size
           n == ChunkCount(size)
           Step(h, k) == CopyStep(h, f, part, k, pages, err)
           F == [x \in (1 .. n) \X Loaded |-> Step(x[2], x[1])]
<1>0. size \in Nat
  BY DEF PartFits
<1>1. n \in Nat /\ Done(size, 0) = 0 /\ Done(size, n) = size
  BY <1>0, ChunkFacts
<1>2. ASSUME NEW h \in Loaded, NEW k \in 1 .. n
      PROVE  /\ Step(h, k) \in Loaded /\ SameRest(h, Step(h, k)) /\ (Step(h, k).ok => h.ok)
             /\ Adds(f, part, k, pages, h, Step(h, k))
  BY CopyStepCopies DEF SameRest
<1> HIDE DEF n, size, Step
<1>3. F \in [(1 .. n) \X Loaded -> Loaded]
  BY <1>2
<1>4. \A k \in 1 .. n, h \in Loaded : F[<<k, h>>] = Step(h, k)
  OBVIOUS
<1> HIDE DEF F
<1>5. PICK g \in [0 .. n -> Loaded] : Iterates(g, n, st, F)
  BY <1>1, <1>3, Iterated
<1>6. g[0] = st /\ \A k \in 1 .. n : g[k] = Step(g[k - 1], k)
  <2>1. \A k \in 1 .. n : g[k - 1] \in Loaded
    BY <1>1
  <2> QED
    BY <1>4, <1>5, <2>1 DEF Iterates
<1> DEFINE Body(w) == [k \in 0 .. n |-> IF k = 0 THEN st ELSE Step(w[k - 1], k)]
           W == CHOOSE w : w = Body(w)
<1>7. g = Body(g)
  <2>1. ASSUME NEW k \in 0 .. n PROVE g[k] = Body(g)[k]
    <3>1. CASE k = 0
      BY <1>6, <3>1
    <3>2. CASE k # 0
      <4>1. k \in 1 .. n
        BY <1>1, <3>2
      <4> QED
        BY <1>6, <3>2, <4>1
    <3> QED
      BY <3>1, <3>2
  <2> QED
    BY <2>1
<1>8. W = Body(W)
  <2>1. \E w : w = Body(w)
    BY <1>7
  <2> HIDE DEF Body
  <2> QED
    BY <2>1
<1>9. CopyPart(st, f, part, pages, err) = W[n]
  BY DEF CopyPart, n, size, Step
<1> HIDE DEF W
<1>10. /\ W[0] = st
       /\ \A k \in 1 .. n : W[k] = Step(W[k - 1], k)
  <2>1. 0 \in 0 .. n /\ \A k \in 1 .. n : k \in 0 .. n /\ k # 0
    BY <1>1
  <2> QED
    BY <1>8, <2>1
<1> DEFINE Good(k) == /\ SameRest(st, W[k])
                      /\ W[k].ok => st.ok /\ Copied(f, part, Done(size, k), st.mem, W[k].mem, pages)
           T == {k \in 0 .. n : Good(k)}
<1>11. 0 \in T
  <2>1. Copied(f, part, 0, st.mem, st.mem, pages)
    <3>1. part.to \in Nat
      BY DEF PartFits
    <3>2. \A j : j \notin part.to .. part.to + 0 - 1
      BY <3>1
    <3> QED
      BY <3>2 DEF Copied, Others
  <2> QED
    BY <1>1, <1>10, <2>1 DEF SameRest
<1>12. ASSUME NEW k \in 1 .. n, k - 1 \in T PROVE k \in T
  <2> DEFINE w == W[k - 1]
  <2>1. /\ SameRest(st, w) /\ W[k] = Step(w, k)
        /\ w.ok => st.ok /\ Copied(f, part, Done(size, k - 1), st.mem, w.mem, pages)
    BY <1>10, <1>12
  <2>2. w \in Loaded
    BY <2>1 DEF SameRest
  <2> HIDE DEF w
  <2>3. /\ SameRest(w, W[k]) /\ (W[k].ok => w.ok)
        /\ Adds(f, part, k, pages, w, W[k])
    BY <1>2, <2>1, <2>2
  <2>4. SameRest(st, W[k])
    BY <2>1, <2>3 DEF SameRest
  <2>5. Good(k)
    BY <2>1, <2>3, <2>4 DEF Adds, size
  <2> QED
    BY <1>1, <2>5
<1>13. n \in T
  <2>1. \A k \in 1 .. n : k - 1 \in T => k \in T
    BY <1>12
  <2> HIDE DEF T
  <2>2. \A k \in 0 .. n : k \in T
    BY <1>1, <1>11, <2>1, Upto
  <2> QED
    BY <1>1, <2>2
<1>14. Good(n)
  BY <1>13
<1> QED
  BY <1>1, <1>9, <1>14 DEF size

----------------------------------------------------------------------------
(* Segments *)

\* The segment lies in the file, and in an image that begins at base.
SegmentFits(f, s, base, pages) ==
  /\ s \in ProgramHeader /\ base \in Nat /\ base <= s.vaddr /\ s.filesz <= s.memsz
  /\ s.offset + s.filesz <= f.size
  /\ (s.vaddr - base) + s.memsz <= Len(pages) * PageSize

\* The z bytes at place d are zero, the others as they were.
Wiped(m, m2, pages, d, z) ==
  \A j \in Extent(Len(pages)) :
    Byte(m2, pages, j) = IF j \in d .. d + z - 1 THEN 0 ELSE Byte(m, pages, j)

\* user_zero_range_in_pages
LEMMA ZeroRangeWipes ==
  ASSUME NEW st \in Loaded, NEW pages, IsImage(pages), NEW f, NEW s, NEW base,
         SegmentFits(f, s, base, pages)
  PROVE  /\ SameRest(st, ZeroRange(st, s, base, pages))
         /\ ZeroRange(st, s, base, pages).ok = st.ok
         /\ st.ok => Wiped(st.mem, ZeroRange(st, s, base, pages).mem, pages,
                           s.vaddr + s.filesz - base, s.memsz - s.filesz)
<1> DEFINE first == s.vaddr + s.filesz - base
           z == s.memsz - s.filesz
           n == Len(pages)
           N == n * PageSize
           Inside(x) == PageIndex((first + x) % Word) < n
           cleared == {x \in 0 .. z - 1 : \A y \in 0 .. x : Inside(y)}
           At(p, o) == \E x \in cleared : /\ pages[PageIndex((first + x) % Word) + 1] = p
                                          /\ (first + x) % PageSize = o
           m == st.mem
           m2 == [p \in Pages |-> [o \in Offsets |-> IF At(p, o) THEN 0 ELSE m[p][o]]]
           ok2 == Cardinality(cleared) = z
           r == ZeroRange(st, s, base, pages)
<1>0. first \in Nat /\ z \in Nat /\ n \in 0 .. MaxProgram /\ n \in Nat /\ N \in Int
      /\ first + z <= N /\ m \in Mem
  <2> DEFINE a == s.vaddr
             b == s.filesz
             c == s.memsz
  <2>1. a \in Nat /\ b \in Nat /\ c \in Nat /\ base \in Nat /\ base <= a /\ b <= c
        /\ (a - base) + c <= N
    BY PageFacts DEF SegmentFits, ProgramHeader, Words
  <2>2. n \in 0 .. MaxProgram /\ n \in Nat /\ PageSize \in Nat
    BY PageFacts DEF IsImage
  <2>3. N \in Int
    BY <2>2
  <2>4. first = a + b - base /\ z = c - b
    OBVIOUS
  <2> HIDE DEF a, b, c, N, first, z
  <2>5. first \in Nat /\ z \in Nat /\ first + z <= N
    BY <2>1, <2>3, <2>4
  <2> QED
    BY <2>2, <2>3, <2>5 DEF Loaded
<1>1. r = IF ~st.ok THEN st ELSE [st EXCEPT !.mem = m2, !.ok = ok2]
  BY DEF ZeroRange
<1> HIDE DEF first, z, N, r, m
<1>2. ASSUME NEW x \in 0 .. z - 1
      PROVE  /\ first + x \in Extent(n) /\ first + x \in Nat
             /\ (first + x) % Word = first + x
             /\ PageIndex((first + x) % Word) = (first + x) \div PageSize
             /\ (first + x) \div PageSize \in 0 .. n - 1
  <2>1. first + x \in 0 .. N - 1 /\ first + x \in Nat
    BY <1>0
  <2>2. first + x \in Extent(n)
    BY <2>1 DEF Extent, N
  <2> QED
    BY <1>0, <2>1, <2>2, PlainIndex
<1>3. cleared = 0 .. z - 1
  <2>1. ASSUME NEW x \in 0 .. z - 1 PROVE Inside(x)
    <3> DEFINE i == PageIndex((first + x) % Word)
    <3>1. i \in 0 .. n - 1
      BY <1>2
    <3> HIDE DEF i
    <3>2. i < n
      BY <1>0, <3>1
    <3> QED
      BY <3>2 DEF i
  <2>2. \A x \in 0 .. z - 1 : \A y \in 0 .. x : y \in 0 .. z - 1
    BY <1>0
  <2> HIDE DEF Inside
  <2> QED
    BY <2>1, <2>2
<1>4. ok2
  <2>1. 0 \in Int /\ z - 1 \in Int
    BY <1>0
  <2>2. Cardinality(0 .. z - 1) = IF 0 > z - 1 THEN 0 ELSE z - 1 - 0 + 1
    BY <2>1, FS_Interval
  <2>3. Cardinality(0 .. z - 1) = z
    BY <1>0, <2>2
  <2> HIDE DEF cleared
  <2> QED
    BY <1>3, <2>3
<1>5. m2 \in Mem
  <2> HIDE DEF At
  <2>1. ASSUME NEW p \in Pages, NEW o \in Offsets PROVE (IF At(p, o) THEN 0 ELSE m[p][o]) \in Int
    BY <1>0 DEF Mem
  <2> QED
    BY <2>1 DEF Mem
<1>6. ASSUME NEW j \in Extent(n)
      PROVE  Byte(m2, pages, j) = IF j \in first .. first + z - 1 THEN 0 ELSE Byte(m, pages, j)
  <2> DEFINE a == j \div PageSize
             o == j % PageSize
             p == pages[a + 1]
  <2>1. j \in Nat /\ a \in 0 .. n - 1 /\ o \in Offsets /\ j = (a * PageSize) + o
    BY <1>0, PlainIndex
  <2>2. a + 1 \in 1 .. n /\ p \in Pages
    <3>1. a + 1 \in 1 .. n
      BY <1>0, <2>1
    <3>2. pages \in [1 .. n -> Pages]
      BY DEF IsImage
    <3> QED
      BY <3>1, <3>2
  <2>3. Byte(m2, pages, j) = (IF At(p, o) THEN 0 ELSE m[p][o]) /\ Byte(m, pages, j) = m[p][o]
    <3> HIDE DEF At
    <3> QED
      BY <2>1, <2>2 DEF Byte
  <2> HIDE DEF a, o, cleared
  <2>4. At(p, o) <=> j \in first .. first + z - 1
    <3>1. ASSUME j \in first .. first + z - 1 PROVE At(p, o)
      <4> DEFINE x == j - first
      <4>1. x \in 0 .. z - 1 /\ first + x = j
        BY <1>0, <2>1, <3>1
      <4> HIDE DEF x
      <4>2. PageIndex((first + x) % Word) = a /\ (first + x) % PageSize = o
        BY <1>2, <4>1 DEF a, o
      <4> QED
        BY <1>3, <4>1, <4>2
    <3>2. ASSUME At(p, o) PROVE j \in first .. first + z - 1
      <4>1. PICK x \in 0 .. z - 1 : /\ pages[PageIndex((first + x) % Word) + 1] = p
                                   /\ (first + x) % PageSize = o
        BY <1>3, <3>2
      <4> DEFINE y == first + x
                 c == y \div PageSize
      <4>2. y \in Extent(n) /\ PageIndex(y % Word) = c /\ c \in 0 .. n - 1
        BY <1>2
      <4>3. pages[c + 1] = pages[a + 1] /\ y % PageSize = o
        BY <4>1, <4>2
      <4>4. y = (c * PageSize) + (y % PageSize)
        BY <1>0, <4>2, PlainIndex
      <4>5. c + 1 = a + 1
        <5>1. c + 1 \in 1 .. n
          BY <1>0, <4>2
        <5> HIDE DEF c
        <5> QED
          BY <2>2, <4>3, <5>1 DEF IsImage
      <4>6. c = a
        <5> HIDE DEF c
        <5> QED
          BY <1>0, <2>1, <4>2, <4>5
      <4>7. y = j
        BY <2>1, <4>3, <4>4, <4>6
      <4> QED
        BY <1>0, <4>7
    <3> QED
      BY <3>1, <3>2
  <2> HIDE DEF At
  <2> QED
    BY <2>3, <2>4
<1>7. Wiped(m, m2, pages, first, z)
  BY <1>6 DEF Wiped
<1> HIDE DEF m2, ok2
<1>8. CASE ~st.ok
  BY <1>1, <1>8 DEF SameRest, r
<1>9. CASE st.ok
  <2>1. r = [st EXCEPT !.mem = m2, !.ok = ok2]
    BY <1>1, <1>9
  <2>2. r \in Loaded /\ r.rw = st.rw /\ r.mapped = st.mapped /\ r.ok = st.ok /\ r.mem = m2
    BY <1>4, <1>5, <1>9, <2>1 DEF Loaded
  <2> QED
    BY <1>7, <2>2 DEF SameRest, r, m, first, z
<1> QED
  BY <1>8, <1>9

\* The check of a sum of two words against the first one finds an overflow.
LEMMA NoOverflow ==
  ASSUME NEW w \in Nat \ {0}, NEW a \in 0 .. w - 1, NEW b \in 0 .. w - 1, (a + b) % w >= a
  PROVE  a + b < w /\ (a + b) % w = a + b
<1>1. CASE a + b < w
  BY <1>1
<1>2. CASE a + b >= w
  <2> DEFINE r == a + b - w
  <2>1. r \in 0 .. w - 1 /\ r < a
    BY <1>2
  <2>2. ((1 * w) + r) % w = r
    <3> HIDE DEF r
    <3> QED
      BY <2>1, Quotient
  <2>3. (1 * w) + r = a + b
    OBVIOUS
  <2>4. (a + b) % w = r
    BY <2>2, <2>3
  <2> HIDE DEF r
  <2> QED
    BY <2>1, <2>4
<1> QED
  BY <1>1, <1>2

\* Rounding down to a page, and up to pages.
LEMMA RoundDown ==
  ASSUME NEW a \in Nat
  PROVE  /\ a - (a % PageSize) \in Nat /\ a - (a % PageSize) <= a /\ a < a - (a % PageSize) + PageSize
         /\ a - (a % PageSize) = (a \div PageSize) * PageSize /\ a \div PageSize \in Nat
<1>0. PageSize \in Nat \ {0}
  BY PageFacts
<1> DEFINE q == a \div PageSize
           r == a % PageSize
           Q == q * PageSize
<1>1. q \in Nat /\ r \in 0 .. PageSize - 1 /\ a = Q + r
  BY <1>0
<1>2. Q \in Nat
  BY <1>0, <1>1
<1> HIDE DEF Q, r, q
<1>3. a - r = Q
  BY <1>0, <1>1, <1>2
<1>4. a - r \in Nat /\ a - r <= a /\ a < a - r + PageSize
  BY <1>0, <1>1, <1>2
<1> QED
  BY <1>1, <1>3, <1>4 DEF Q, r, q

LEMMA RoundUp ==
  ASSUME NEW size \in Int
  PROVE  size <= PageCountOf(size) * PageSize /\ PageCountOf(size) * PageSize \in Int
         /\ PageCountOf(size) * PageSize < size + PageSize
<1>0. PageSize \in Nat \ {0} /\ size + PageSize - 1 \in Int
  BY PageFacts
<1> DEFINE t == size + PageSize - 1
           c == t \div PageSize
           C == c * PageSize
<1>1. c \in Int /\ C <= t /\ t < C + PageSize
  BY <1>0, PageOf
<1>2. C \in Int
  BY <1>0, <1>1
<1>3. PageCountOf(size) = c
  BY DEF PageCountOf
<1> HIDE DEF c, C
<1>4. size <= C /\ C < size + PageSize
  BY <1>0, <1>1, <1>2
<1> QED
  BY <1>2, <1>3, <1>4 DEF C

\* The first pass finds an image that begins with a page and holds every segment
\* whose end does not wrap around.
LEMMA ExtentHolds ==
  ASSUME NEW f, IsFile(f), Segments(f) # {}
  PROVE  /\ ImageBase(f) \in Nat /\ ImageEnd(f) \in Nat
         /\ ImageBase(f) = (ImageBase(f) \div PageSize) * PageSize
         /\ \A s \in Segments(f) : s \in ProgramHeader /\ ImageBase(f) <= SegmentStart(s)
                                   /\ SegmentEnd(s) <= ImageEnd(f)
<1> DEFINE A == {SegmentStart(s) : s \in Segments(f)}
           B == {SegmentEnd(s) : s \in Segments(f)}
<1>0. PageSize \in Nat \ {0} /\ Word \in Nat \ {0}
  <2>1. MaxProgram * PageSize \in Nat /\ PageSize \in Nat \ {0} /\ Word \in Nat
        /\ MaxProgram * PageSize < Word
    BY PageFacts
  <2> QED
    BY <2>1
<1>1. ASSUME NEW s \in Segments(f)
      PROVE  s \in ProgramHeader /\ s.vaddr \in Nat /\ s.memsz \in Nat
  <2>1. PICK i \in DOMAIN f.segs : s = f.segs[i]
    BY DEF Segments
  <2>2. s \in ProgramHeader
    BY <2>1 DEF IsFile
  <2> QED
    BY <1>0, <2>2 DEF ProgramHeader, Words
<1>2. ASSUME NEW s \in Segments(f)
      PROVE  SegmentStart(s) \in Nat /\ SegmentStart(s) = (s.vaddr \div PageSize) * PageSize
             /\ s.vaddr \div PageSize \in Nat
  <2>1. s.vaddr \in Nat
    BY <1>1
  <2> QED
    BY <2>1, RoundDown DEF SegmentStart
<1>3. ASSUME NEW s \in Segments(f)
      PROVE  SegmentEnd(s) \in 0 .. Word
  <2> DEFINE e == (s.vaddr + s.memsz + PageSize - 1) % Word
  <2>1. s.vaddr + s.memsz + PageSize - 1 \in Nat
    BY <1>0, <1>1
  <2>2. e \in 0 .. Word - 1
    BY <1>0, <2>1
  <2>3. SegmentEnd(s) = e - (e % PageSize)
    BY DEF SegmentEnd
  <2> HIDE DEF e
  <2>4. e - (e % PageSize) \in Nat /\ e - (e % PageSize) <= e
    BY <1>0, <2>2, RoundDown
  <2> QED
    BY <1>0, <2>2, <2>3, <2>4
<1>4. Min(A) \in A /\ \A x \in A : Min(A) =< x
  <2>1. A \in SUBSET Nat /\ A # {}
    BY <1>2
  <2> HIDE DEF A
  <2> QED
    BY <2>1, MinLeast
<1>5. Max(B) \in B /\ \A x \in B : Max(B) >= x
  <2>1. B \in SUBSET (0 .. Word) /\ B # {}
    BY <1>3
  <2> HIDE DEF B
  <2> QED
    BY <1>0, <2>1, MaxGreatest
<1>6. ImageBase(f) = Min(A) /\ ImageEnd(f) = Max(B)
  BY DEF ImageBase, ImageEnd
<1>7. Min(A) \in Nat /\ Min(A) = (Min(A) \div PageSize) * PageSize
  <2>1. PICK s \in Segments(f) : Min(A) = SegmentStart(s)
    BY <1>4
  <2> DEFINE q == s.vaddr \div PageSize
             b == SegmentStart(s)
  <2>2. b \in Nat /\ b = q * PageSize /\ q \in Nat
    BY <1>2
  <2> HIDE DEF q, b
  <2>3. b \div PageSize = q
    <3>1. 0 \in 0 .. PageSize - 1 /\ q * PageSize + 0 = b
      BY <1>0, <2>2
    <3>2. (q * PageSize + 0) \div PageSize = q
      BY <1>0, <2>2, <3>1, Quotient
    <3> QED
      BY <3>1, <3>2
  <2> QED
    BY <2>1, <2>2, <2>3 DEF b
<1>8. Max(B) \in Nat
  <2>1. PICK s \in Segments(f) : Max(B) = SegmentEnd(s)
    BY <1>5
  <2> QED
    BY <1>0, <1>3, <2>1
<1>9. ASSUME NEW s \in Segments(f)
      PROVE  s \in ProgramHeader /\ Min(A) <= SegmentStart(s) /\ SegmentEnd(s) <= Max(B)
  <2>1. SegmentStart(s) \in A /\ SegmentEnd(s) \in B
    OBVIOUS
  <2> HIDE DEF A, B
  <2>2. Min(A) <= SegmentStart(s) /\ Max(B) >= SegmentEnd(s)
    BY <1>4, <1>5, <2>1
  <2> QED
    BY <1>0, <1>1, <1>3, <1>8, <2>2
<1> HIDE DEF A, B
<1> QED
  BY <1>6, <1>7, <1>8, <1>9

\* A segment that reaches the last page of the address space has its last page
\* behind every image.
LEMMA LastPageIsFar ==
  ASSUME NEW base \in Nat, NEW q \in Nat, base = q * PageSize, NEW e \in Nat,
         e + 1 < Word, e + PageSize >= Word, NEW n \in Nat, q + n <= StackPage, base <= e
  PROVE  PageIndex((e - base) % Word) >= n
<1>0. /\ PageSize \in Nat \ {0} /\ Word \in Nat /\ IndexMod \in Nat \ {0}
      /\ Word % (PageSize * IndexMod) = 0 /\ StackPage + 1 < IndexMod /\ StackPage \in Nat
  <2>1. CodePage + MaxProgram + 1 < IndexMod /\ IndexMod \in Nat /\ CodePage + MaxProgram \in Nat
        /\ PageSize \in Nat \ {0} /\ Word \in Nat /\ Word % (PageSize * IndexMod) = 0
    BY MemoryAssumption, ProgramsAssumption
  <2> QED
    BY <2>1 DEF StackPage
<1> DEFINE K == Word \div (PageSize * IndexMod)
           I == K * IndexMod
           r == e - (Word - PageSize)
           a == I - 1 - q
           d == e - base
<1>1. K \in Int /\ Word = K * (PageSize * IndexMod)
  <2> DEFINE t == PageSize * IndexMod
  <2>1. t \in Nat \ {0}
    BY <1>0
  <2> HIDE DEF t
  <2>2. Word \div t \in Int /\ Word = ((Word \div t) * t) + (Word % t)
    BY <1>0, <2>1
  <2>3. Word % t = 0
    BY <1>0 DEF t
  <2>4. (Word \div t) * t \in Int
    BY <2>1, <2>2
  <2> QED
    BY <2>2, <2>3, <2>4 DEF t
<1> HIDE DEF K
<1>2. I \in Int /\ Word = I * PageSize
  BY <1>0, <1>1
<1>3. r \in 0 .. PageSize - 1
  BY <1>0
<1>4. d = a * PageSize + r
  <2>1. a * PageSize = I * PageSize - PageSize - q * PageSize
    <3> HIDE DEF I
    <3> QED
      BY <1>0, <1>2
  <2>2. I * PageSize \in Int /\ q * PageSize \in Int
    <3> HIDE DEF I
    <3> QED
      BY <1>0, <1>2
  <2> QED
    BY <1>0, <1>2, <2>1, <2>2
<1>5. a \in Int /\ d \in Nat /\ d < Word
  BY <1>0, <1>2
<1>6. d % Word = d
  <2> HIDE DEF d
  <2> QED
    BY <1>0, <1>5
<1>7. d \div PageSize = a
  <2> HIDE DEF a, r, d
  <2>1. (a * PageSize + r) \div PageSize = a
    BY <1>0, <1>3, <1>5, Quotient
  <2> QED
    BY <1>4, <2>1
<1>8. a % IndexMod = IndexMod - 1 - q
  <2> DEFINE K1 == K - 1
             u == IndexMod - 1 - q
  <2>1. u \in 0 .. IndexMod - 1 /\ K1 \in Int
    BY <1>0, <1>1
  <2>2. a = K1 * IndexMod + u
    <3>1. K1 * IndexMod = K * IndexMod - IndexMod /\ K * IndexMod \in Int
      BY <1>0, <1>1
    <3> QED
      BY <1>0, <3>1
  <2> HIDE DEF K1, u, a
  <2>3. (K1 * IndexMod + u) % IndexMod = u
    BY <1>0, <2>1, Quotient
  <2> QED
    BY <2>2, <2>3 DEF u
<1>9. PageIndex(d % Word) = IndexMod - 1 - q
  BY <1>6, <1>7, <1>8 DEF PageIndex
<1>10. IndexMod - 1 - q >= n
  BY <1>0
<1> HIDE DEF d
<1>11. PageIndex(d % Word) >= n
  BY <1>9, <1>10
<1> QED
  BY <1>11 DEF d

LEMMA LayoutFits ==
  ASSUME NEW f, IsFile(f), NEW err, LayoutValid(f, err), NEW pages,
         Len(pages) = PageCountOf(ImageEnd(f) - ImageBase(f)), NEW s \in Segments(f),
         PageIndex((s.vaddr - ImageBase(f) + s.memsz - 1) % Word) < Len(pages)
  PROVE  SegmentFits(f, s, ImageBase(f), pages)
<1> DEFINE base == ImageBase(f)
           end == ImageEnd(f)
           v == s.vaddr
           z == s.memsz
           n == Len(pages)
           N == n * PageSize
           t == v + z + PageSize - 1
<1>0. PageSize \in Nat \ {0} /\ Word \in Nat \ {0}
  <2>1. MaxProgram * PageSize \in Nat /\ PageSize \in Nat \ {0} /\ Word \in Nat
        /\ MaxProgram * PageSize < Word
    BY PageFacts
  <2> QED
    BY <2>1
<1>1. Segments(f) # {} /\ SegmentValid(f, s) /\ RangeValid(base, PageCountOf(end - base)) /\ end > base
  BY DEF LayoutValid
<1>2. /\ base \in Nat /\ end \in Nat /\ base = (base \div PageSize) * PageSize
      /\ s \in ProgramHeader /\ base <= SegmentStart(s) /\ SegmentEnd(s) <= end
  BY <1>1, ExtentHolds
<1>3. /\ v \in 0 .. Word - 1 /\ z \in 0 .. Word - 1 /\ s.offset \in 0 .. Word - 1
      /\ s.filesz \in 0 .. Word - 1 /\ z # 0
  <2>1. z # 0
    BY DEF Segments, Loadable
  <2> QED
    BY <1>2, <2>1 DEF ProgramHeader, Words
<1>4. v + z < Word
  <2>1. (v + z) % Word >= v
    BY <1>1 DEF SegmentValid
  <2> HIDE DEF v, z
  <2> QED
    BY <1>0, <1>3, <2>1, NoOverflow
<1>5. s.offset + s.filesz <= f.size
  <2> DEFINE a == s.offset
             b == s.filesz
  <2>1. (a + b) % Word >= a /\ (a + b) % Word <= f.size
    BY <1>1 DEF SegmentValid
  <2> HIDE DEF a, b
  <2>2. (a + b) % Word = a + b
    BY <1>0, <1>3, <2>1, NoOverflow DEF a, b
  <2>3. a + b <= f.size
    BY <2>1, <2>2
  <2> QED
    BY <2>3 DEF a, b
<1>6. base <= v
  <2>1. SegmentStart(s) = v - (v % PageSize)
    BY DEF SegmentStart
  <2>2. v \in Nat
    BY <1>0, <1>3
  <2> HIDE DEF v, base
  <2>3. v - (v % PageSize) \in Nat /\ v - (v % PageSize) <= v
    BY <2>2, RoundDown
  <2> QED
    BY <1>2, <2>1, <2>2, <2>3
<1>7. /\ n \in 1 .. MaxProgram /\ base \div PageSize \in Int
      /\ base \div PageSize >= CodePage /\ base \div PageSize + n <= StackPage
  <2>1. end - base \in Int
    BY <1>2
  <2>2. RangeValid(base, n) /\ n \in Int
    BY <1>1, <2>1, PageCountInt
  <2> HIDE DEF base, n
  <2> QED
    BY <1>2, <2>2, RangeInWindow
<1>8. end - base <= N /\ N \in Int
  <2>1. end - base \in Int
    BY <1>2
  <2> QED
    BY <2>1, RoundUp
<1>9. CASE t < Word
  <2>1. t \in Nat /\ t % Word = t
    <3>1. t \in Nat
      BY <1>0, <1>3
    <3> HIDE DEF t
    <3> QED
      BY <1>0, <1>9, <3>1
  <2>2. SegmentEnd(s) = t - (t % PageSize)
    BY <2>1 DEF SegmentEnd
  <2>3. t - (t % PageSize) \in Nat /\ t < t - (t % PageSize) + PageSize
    <3> HIDE DEF t
    <3> QED
      BY <2>1, RoundDown
  <2> DEFINE E == t - (t % PageSize)
  <2>4. E \in Nat /\ t < E + PageSize /\ E <= end
    BY <1>2, <2>2, <2>3
  <2> HIDE DEF E
  <2>5. v + z <= E
    BY <1>0, <1>3, <2>4
  <2> HIDE DEF v, z, N, base, end
  <2>6. (v - base) + z <= N
    BY <1>0, <1>2, <1>3, <1>8, <2>4, <2>5
  <2> QED
    BY <1>1, <1>2, <1>5, <1>6, <2>6 DEF SegmentFits, SegmentValid, v, z, N, base
<1>10. CASE t >= Word
  <2> DEFINE e == v + z - 1
             q == base \div PageSize
  <2>1. e \in Nat /\ e + 1 < Word /\ e + PageSize >= Word /\ base <= e
    <3>1. base \in Nat
      BY <1>2
    <3> HIDE DEF v, z, base
    <3> QED
      BY <1>0, <1>3, <1>4, <1>6, <1>10, <3>1
  <2>2. q \in Nat /\ base = q * PageSize /\ n \in Nat /\ q + n <= StackPage
    BY <1>2, <1>7, PageFacts
  <2>3. e - base = s.vaddr - base + s.memsz - 1
    BY <1>2, <1>3
  <2> HIDE DEF e, q, n
  <2>4. PageIndex((e - base) % Word) >= n
    BY <1>2, <2>1, <2>2, LastPageIsFar
  <2>5. PageIndex((e - base) % Word) < n
    BY <2>3 DEF n
  <2>6. PageIndex((e - base) % Word) \in Int
    <3>1. e - base \in Int /\ IndexMod \in Nat \ {0} /\ PageSize \in Nat \ {0}
      BY <1>2, <2>1, PageFacts
    <3> DEFINE x == (e - base) % Word
    <3>2. x \in Nat
      BY <1>0, <3>1
    <3> HIDE DEF x
    <3>3. x \div PageSize \in Nat
      BY <3>1, <3>2
    <3>4. (x \div PageSize) % IndexMod \in Nat
      BY <3>1, <3>3
    <3> QED
      BY <3>4 DEF PageIndex, x
  <2> QED
    BY <2>2, <2>4, <2>5, <2>6
<1> QED
  BY <1>0, <1>3, <1>9, <1>10

\* What segment s says of the byte at an address.
SegmentByte(f, s, x, other) ==
  IF Loadable(s) /\ x \in s.vaddr .. s.vaddr + s.memsz - 1
  THEN IF x - s.vaddr < s.filesz THEN f.at + s.offset + x - s.vaddr ELSE 0
  ELSE other

\* The segment is in the image.
SegmentIn(f, s, base, m, m2, pages) ==
  \A j \in Extent(Len(pages)) :
    Byte(m2, pages, j) = SegmentByte(f, s, base + j, Byte(m, pages, j))

\* The layout found by the first pass and the pages taken for it.
Laid(f, err, pages) ==
  /\ IsFile(f) /\ LayoutValid(f, err) /\ IsImage(pages)
  /\ Len(pages) = PageCountOf(ImageEnd(f) - ImageBase(f))

LEMMA IndexInt ==
  ASSUME NEW a \in Int
  PROVE  PageIndex(a % Word) \in Nat
<1>1. PageSize \in Nat \ {0} /\ IndexMod \in Nat \ {0} /\ Word \in Nat \ {0}
  <2>1. MaxProgram * PageSize \in Nat /\ PageSize \in Nat \ {0} /\ Word \in Nat /\ IndexMod \in Nat
        /\ MaxProgram * PageSize < Word /\ MaxProgram < IndexMod /\ MaxProgram \in Nat
    BY PageFacts
  <2> QED
    BY <2>1
<1> DEFINE x == a % Word
<1>2. x \in Nat
  BY <1>1
<1> HIDE DEF x
<1>3. x \div PageSize \in Nat
  BY <1>1, <1>2
<1>4. (x \div PageSize) % IndexMod \in Nat
  BY <1>1, <1>3
<1> QED
  BY <1>4 DEF PageIndex, x

\* A segment that fits is copied and its tail cleared.
LEMMA FittingSegment ==
  ASSUME NEW f, IsFile(f), NEW st \in Loaded, NEW pages, IsImage(pages), NEW err, NEW i, NEW s,
         NEW base, SegmentFits(f, s, base, pages), Loadable(s)
  PROVE  LET r == ZeroRange(CopyPart(st, f, SegmentPart(s, i, base), pages, err), s, base, pages)
         IN  r \in Loaded /\ (r.ok => st.ok /\ SegmentIn(f, s, base, st.mem, r.mem, pages))
<1> DEFINE part == SegmentPart(s, i, base)
           c == CopyPart(st, f, part, pages, err)
           r == ZeroRange(c, s, base, pages)
           v == s.vaddr
           z == s.memsz
           b == s.filesz
           o == s.offset
           N == Len(pages) * PageSize
           first == v + b - base
<1>0. /\ v \in Nat /\ z \in Nat /\ b \in Nat /\ o \in Nat /\ base \in Nat /\ base <= v /\ b <= z
      /\ o + b <= f.size /\ (v - base) + z <= N /\ N \in Int /\ f.at \in Nat
  <2>1. PageSize \in Nat /\ Len(pages) \in Int /\ Word \in Nat
    BY PageFacts DEF IsImage
  <2> QED
    BY <2>1 DEF SegmentFits, ProgramHeader, Words, IsFile
<1>1. part.tag = i /\ part.offset = o /\ part.to = v - base /\ part.size = b
  BY DEF SegmentPart
<1>2. PartFits(f, part, pages)
  <2> DEFINE d == v - base
  <2>1. d \in Nat /\ d + b <= N
    <3> HIDE DEF v, z, b, N
    <3> QED
      BY <1>0
  <2> HIDE DEF part, d
  <2> QED
    BY <1>0, <1>1, <2>1 DEF PartFits, d
<1> HIDE DEF part
<1>3. SameRest(st, c) /\ (c.ok => st.ok /\ Copied(f, part, b, st.mem, c.mem, pages))
  BY <1>1, <1>2, CopyPartCopies
<1>4. c \in Loaded
  BY <1>3 DEF SameRest
<1> HIDE DEF c
<1>5. SameRest(c, r) /\ r.ok = c.ok /\ (c.ok => Wiped(c.mem, r.mem, pages, first, z - b))
  BY <1>4, ZeroRangeWipes
<1> HIDE DEF r
<1>6. ASSUME r.ok, NEW j \in Extent(Len(pages))
      PROVE  Byte(r.mem, pages, j) = SegmentByte(f, s, base + j, Byte(st.mem, pages, j))
  <2> DEFINE x == Byte(r.mem, pages, j)
             y == Byte(c.mem, pages, j)
             w == Byte(st.mem, pages, j)
             d == v - base
             at == f.at
             u == base + j
  <2>1. j \in Int
    BY DEF Extent
  <2>2. y = IF j \in d .. d + b - 1 THEN at + o + (j - d) ELSE w
    BY <1>1, <1>3, <1>5, <1>6 DEF Copied
  <2>3. x = IF j \in first .. first + (z - b) - 1 THEN 0 ELSE y
    BY <1>5, <1>6 DEF Wiped
  <2>4. SegmentByte(f, s, u, w)
          = IF u \in v .. v + z - 1
            THEN IF u - v < b THEN at + o + u - v ELSE 0 ELSE w
    <3> HIDE DEF u
    <3> QED
      BY DEF SegmentByte
  <2>5. at \in Nat /\ u = base + j /\ d = v - base /\ first = v + b - base
    BY <1>0
  <2> HIDE DEF x, y, w, v, z, b, o, at, d, first, N, u
  <2>6. CASE j \in d .. d + b - 1
    <3>1. /\ j \notin first .. first + (z - b) - 1 /\ u \in v .. v + z - 1
          /\ u - v < b /\ at + o + (j - d) = at + o + u - v
      BY <1>0, <2>1, <2>5, <2>6
    <3> QED
      BY <2>2, <2>3, <2>4, <2>6, <3>1 DEF x, w, u
  <2>7. CASE j \in first .. first + (z - b) - 1
    <3>1. /\ u \in v .. v + z - 1 /\ ~(u - v < b)
      BY <1>0, <2>1, <2>5, <2>7
    <3> QED
      BY <2>3, <2>4, <2>7, <3>1 DEF x, w, u
  <2>8. CASE j \notin d .. d + b - 1 /\ j \notin first .. first + (z - b) - 1
    <3>1. u \notin v .. v + z - 1
      BY <1>0, <2>1, <2>5, <2>8
    <3> QED
      BY <2>2, <2>3, <2>4, <2>8, <3>1 DEF x, w, u
  <2> QED
    BY <2>6, <2>7, <2>8
<1>7. r.ok => SegmentIn(f, s, base, st.mem, r.mem, pages)
  BY <1>6 DEF SegmentIn
<1>8. r \in Loaded /\ (r.ok => st.ok)
  BY <1>3, <1>5 DEF SameRest
<1> QED
  BY <1>7, <1>8 DEF r, c, part

LEMMA LoadSegmentLoads ==
  ASSUME NEW f, NEW err, NEW pages, Laid(f, err, pages), NEW st \in Loaded, NEW i \in DOMAIN f.segs
  PROVE  /\ LoadSegment(st, f, i, ImageBase(f), pages, err) \in Loaded
         /\ LoadSegment(st, f, i, ImageBase(f), pages, err).ok =>
              /\ st.ok
              /\ SegmentIn(f, f.segs[i], ImageBase(f), st.mem,
                           LoadSegment(st, f, i, ImageBase(f), pages, err).mem, pages)
<1> DEFINE base == ImageBase(f)
           s == f.segs[i]
           first == PageIndex((s.vaddr - base) % Word)
           last == PageIndex((s.vaddr - base + s.memsz - 1) % Word)
           mapped2 == st.mapped \/ f.entry \in s.vaddr .. s.vaddr + s.memsz - 1
           rw2 == IF s.write THEN st.rw \cup (first .. last) ELSE st.rw
           seen == [st EXCEPT !.mapped = mapped2, !.rw = rw2]
           fail == [st EXCEPT !.ok = FALSE]
           done == ZeroRange(CopyPart(seen, f, SegmentPart(s, i, base), pages, err), s, base, pages)
           r == LoadSegment(st, f, i, base, pages, err)
<1>1. r = IF ~st.ok \/ Read("segment", i, 0) = err THEN fail
          ELSE IF ~Loadable(s) THEN st
          ELSE IF last >= Len(pages) THEN fail
          ELSE done
  BY DEF LoadSegment
<1>2. fail \in Loaded /\ ~fail.ok
  BY DEF Loaded
<1>3. IsFile(f) /\ LayoutValid(f, err) /\ IsImage(pages)
      /\ Len(pages) = PageCountOf(ImageEnd(f) - ImageBase(f)) /\ Len(pages) \in Nat
  BY DEF Laid, IsImage
<1>4. CASE r = fail
  <2> HIDE DEF r, fail
  <2> QED
    BY <1>2, <1>4 DEF r
<1>5. CASE r # fail /\ ~Loadable(s)
  <2>1. r = st
    BY <1>1, <1>5
  <2>2. SegmentIn(f, s, base, st.mem, st.mem, pages)
    BY <1>5 DEF SegmentIn, SegmentByte
  <2>3. st.ok
    BY <1>1, <1>5
  <2> HIDE DEF r, s, base
  <2> QED
    BY <2>1, <2>2, <2>3 DEF r, s, base
<1>6. CASE r # fail /\ Loadable(s)
  <2>1. r = done /\ ~(last >= Len(pages)) /\ st.ok
    BY <1>1, <1>6
  <2>2. s \in Segments(f) /\ s \in ProgramHeader
    BY <1>3, <1>6 DEF Segments, IsFile
  <2>3. s.vaddr \in Int /\ s.memsz \in Int /\ base \in Int
    <3>1. Segments(f) # {}
      BY <2>2
    <3>2. base \in Int
      BY <1>3, <3>1, ExtentHolds
    <3> QED
      BY <2>2, <3>2, PageFacts DEF ProgramHeader, Words
  <2>4. first \in Nat /\ last \in Nat
    <3> HIDE DEF base, s
    <3>1. s.vaddr - base \in Int /\ s.vaddr - base + s.memsz - 1 \in Int
      BY <2>3
    <3> QED
      BY <3>1, IndexInt
  <2>5. last < Len(pages)
    <3> HIDE DEF last
    <3> QED
      BY <1>3, <2>1, <2>4
  <2>6. SegmentFits(f, s, base, pages)
    <3> HIDE DEF s
    <3> QED
      BY <1>3, <2>2, <2>5, LayoutFits
  <2>7. seen \in Loaded /\ seen.mem = st.mem /\ seen.ok = st.ok
    <3>1. mapped2 \in BOOLEAN /\ rw2 \in SUBSET Int
      <4>1. st.mapped \in BOOLEAN /\ st.rw \in SUBSET Int
        BY DEF Loaded
      <4>2. (first .. last) \subseteq Int
        <5> HIDE DEF first, last
        <5> QED
          BY <2>4
      <4> HIDE DEF first, last
      <4> QED
        BY <4>1, <4>2
    <3> HIDE DEF mapped2, rw2
    <3> QED
      BY <3>1 DEF Loaded
  <2> HIDE DEF seen, base, s
  <2>8. done \in Loaded /\ (done.ok => seen.ok /\ SegmentIn(f, s, base, seen.mem, done.mem, pages))
    BY <1>3, <1>6, <2>6, <2>7, FittingSegment
  <2> HIDE DEF done, r
  <2> QED
    BY <2>1, <2>7, <2>8 DEF r, s, base
<1> QED
  BY <1>4, <1>5, <1>6

\* The segments among the first i that cover an address, and what they say of it.
Cover(f, i, x) ==
  {k \in 1 .. i : Loadable(f.segs[k]) /\ x \in f.segs[k].vaddr .. f.segs[k].vaddr + f.segs[k].memsz - 1}

ElfByte(f, i, x) ==
  LET s == f.segs[Max(Cover(f, i, x))]
  IN  IF Cover(f, i, x) # {} /\ x - s.vaddr < s.filesz THEN f.at + s.offset + x - s.vaddr ELSE 0

\* The last segment that covers an address decides.
LEMMA ElfByteNext ==
  ASSUME NEW f, NEW x, NEW i \in Nat \ {0}
  PROVE  ElfByte(f, i, x) = SegmentByte(f, f.segs[i], x, ElfByte(f, i - 1, x))
<1> DEFINE s == f.segs[i]
           C == Cover(f, i, x)
           B == Cover(f, i - 1, x)
           In == Loadable(s) /\ x \in s.vaddr .. s.vaddr + s.memsz - 1
<1>1. \A k : k \in 1 .. i <=> k = i \/ k \in 1 .. i - 1
  OBVIOUS
<1>2. CASE In
  <2>1. i \in C /\ C \subseteq 1 .. i
    BY <1>2 DEF Cover
  <2>2. C \in SUBSET (0 .. i) /\ C # {} /\ i \in Nat
    BY <2>1
  <2> HIDE DEF C
  <2>3. Max(C) \in C /\ Max(C) >= i
    BY <2>1, <2>2, MaxGreatest
  <2>4. Max(C) = i
    <3>1. Max(C) \in 1 .. i
      BY <2>1, <2>3
    <3> QED
      BY <2>3, <3>1
  <2>5. ElfByte(f, i, x) = IF C # {} /\ x - f.segs[Max(C)].vaddr < f.segs[Max(C)].filesz
                           THEN f.at + f.segs[Max(C)].offset + x - f.segs[Max(C)].vaddr ELSE 0
    BY DEF ElfByte, C
  <2>6. ElfByte(f, i, x) = IF x - s.vaddr < s.filesz THEN f.at + s.offset + x - s.vaddr ELSE 0
    BY <2>2, <2>4, <2>5
  <2> QED
    BY <1>2, <2>6 DEF SegmentByte
<1>3. CASE ~In
  <2>1. C = B
    BY <1>1, <1>3 DEF Cover
  <2>2. ElfByte(f, i, x) = ElfByte(f, i - 1, x)
    BY <2>1 DEF ElfByte
  <2> QED
    BY <1>3, <2>2 DEF SegmentByte
<1> QED
  BY <1>2, <1>3

LEMMA ElfByteNone ==
  ASSUME NEW f, NEW x
  PROVE  ElfByte(f, 0, x) = 0
<1>1. Cover(f, 0, x) = {}
  BY DEF Cover
<1> QED
  BY <1>1 DEF ElfByte

\* Pages are cleared before anything is put into them.
LEMMA StartClear ==
  ASSUME mem \in Mem, NEW pages, IsImage(pages), NEW all \in Seq(Pages), ToSet(pages) \subseteq ToSet(all)
  PROVE  /\ Start(all) \in Loaded /\ Start(all).ok /\ Start(all).mem = Cleared(all)
         /\ \A j \in Extent(Len(pages)) : Byte(Cleared(all), pages, j) = 0
<1> DEFINE c == Cleared(all)
           n == Len(pages)
<1>1. Zero \in [Offsets -> Int] /\ \A o \in Offsets : Zero[o] = 0
  BY DEF Zero
<1> HIDE DEF c
<1>2. c \in Mem /\ \A p \in Pages : c[p] = IF p \in ToSet(all) THEN Zero ELSE mem[p]
  BY <1>1 DEF c, Cleared, Mem
<1>3. ASSUME NEW j \in Extent(n) PROVE Byte(c, pages, j) = 0
  <2> DEFINE a == j \div PageSize
             o == j % PageSize
  <2>0. n \in 0 .. MaxProgram /\ n \in Nat /\ pages \in [1 .. n -> Pages] /\ DOMAIN pages = 1 .. n
    BY DEF IsImage
  <2>1. a \in 0 .. n - 1 /\ o \in Offsets
    BY <2>0, PlainIndex
  <2> HIDE DEF a, o
  <2>2. a + 1 \in 1 .. n
    BY <2>0, <2>1
  <2>3. pages[a + 1] \in Pages /\ pages[a + 1] \in ToSet(pages)
    BY <2>0, <2>2 DEF ToSet
  <2>4. c[pages[a + 1]] = Zero
    BY <1>2, <2>3
  <2> QED
    BY <1>1, <2>1, <2>4 DEF Byte, a, o
<1>4. Start(all) = [ok |-> TRUE, mem |-> c, rw |-> {}, mapped |-> FALSE]
  BY DEF Start, c
<1> QED
  BY <1>2, <1>3, <1>4 DEF Loaded, c

\* The image is what the first i segments say.
ElfUpto(f, i, m, pages) ==
  \A j \in Extent(Len(pages)) : Byte(m, pages, j) = ElfByte(f, i, ImageBase(f) + j)

LEMMA LoadSegmentsLoads ==
  ASSUME mem \in Mem, NEW f, NEW err, NEW pages, Laid(f, err, pages)
  PROVE  /\ LoadSegments(f, ImageBase(f), pages, err) \in Loaded
         /\ LoadSegments(f, ImageBase(f), pages, err).ok =>
              ElfUpto(f, Len(f.segs), LoadSegments(f, ImageBase(f), pages, err).mem, pages)
<1> DEFINE base == ImageBase(f)
           n == Len(f.segs)
           st == Start(pages)
           Step(h, i) == LoadSegment(h, f, i, base, pages, err)
           F == [x \in (1 .. n) \X Loaded |-> Step(x[2], x[1])]
<1>1. n \in Nat /\ DOMAIN f.segs = 1 .. n /\ IsImage(pages)
  BY DEF Laid, IsFile
<1>2. ASSUME NEW h \in Loaded, NEW i \in 1 .. n
      PROVE  /\ Step(h, i) \in Loaded
             /\ Step(h, i).ok => h.ok /\ SegmentIn(f, f.segs[i], base, h.mem, Step(h, i).mem, pages)
  BY <1>1, LoadSegmentLoads
<1>3. st \in Loaded /\ ElfUpto(f, 0, st.mem, pages)
  <2>1. pages \in Seq(Pages) /\ ToSet(pages) \subseteq ToSet(pages)
    BY <1>1 DEF IsImage
  <2>2. /\ st \in Loaded /\ st.mem = Cleared(pages)
        /\ \A j \in Extent(Len(pages)) : Byte(Cleared(pages), pages, j) = 0
    BY <1>1, <2>1, StartClear
  <2> HIDE DEF st
  <2> QED
    BY <2>2, ElfByteNone DEF ElfUpto
<1> HIDE DEF n, st, Step
<1>4. F \in [(1 .. n) \X Loaded -> Loaded]
  BY <1>2
<1>5. \A i \in 1 .. n, h \in Loaded : F[<<i, h>>] = Step(h, i)
  OBVIOUS
<1> HIDE DEF F
<1>6. PICK g \in [0 .. n -> Loaded] : Iterates(g, n, st, F)
  BY <1>1, <1>3, <1>4, Iterated
<1>7. g[0] = st /\ \A i \in 1 .. n : g[i] = Step(g[i - 1], i)
  <2>1. \A i \in 1 .. n : g[i - 1] \in Loaded
    BY <1>1
  <2> QED
    BY <1>5, <1>6, <2>1 DEF Iterates
<1> DEFINE Body(w) == [i \in 0 .. n |-> IF i = 0 THEN st ELSE Step(w[i - 1], i)]
           W == CHOOSE w : w = Body(w)
<1>8. g = Body(g)
  <2>1. ASSUME NEW i \in 0 .. n PROVE g[i] = Body(g)[i]
    <3>1. CASE i = 0
      BY <1>7, <3>1
    <3>2. CASE i # 0
      <4>1. i \in 1 .. n
        BY <1>1, <3>2
      <4> QED
        BY <1>7, <3>2, <4>1
    <3> QED
      BY <3>1, <3>2
  <2> QED
    BY <2>1
<1>9. W = Body(W)
  <2>1. \E w : w = Body(w)
    BY <1>8
  <2> HIDE DEF Body
  <2> QED
    BY <2>1
<1>10. LoadSegments(f, base, pages, err) = W[n]
  BY DEF LoadSegments, n, st, Step
<1> HIDE DEF W
<1>11. /\ W[0] = st
       /\ \A i \in 1 .. n : W[i] = Step(W[i - 1], i)
  <2>1. 0 \in 0 .. n /\ \A i \in 1 .. n : i \in 0 .. n /\ i # 0
    BY <1>1
  <2> QED
    BY <1>9, <2>1
<1> DEFINE Good(i) == W[i] \in Loaded /\ (W[i].ok => ElfUpto(f, i, W[i].mem, pages))
           T == {i \in 0 .. n : Good(i)}
<1>12. 0 \in T
  BY <1>1, <1>3, <1>11
<1>13. ASSUME NEW i \in 1 .. n, i - 1 \in T PROVE i \in T
  <2> DEFINE w == W[i - 1]
  <2>1. w \in Loaded /\ W[i] = Step(w, i) /\ (w.ok => ElfUpto(f, i - 1, w.mem, pages))
    BY <1>11, <1>13
  <2> HIDE DEF w
  <2>2. W[i] \in Loaded /\ (W[i].ok => w.ok /\ SegmentIn(f, f.segs[i], base, w.mem, W[i].mem, pages))
    BY <1>2, <2>1
  <2>3. ASSUME W[i].ok, NEW j \in Extent(Len(pages))
        PROVE  Byte(W[i].mem, pages, j) = ElfByte(f, i, base + j)
    <3> DEFINE y == Byte(w.mem, pages, j)
    <3>1. y = ElfByte(f, i - 1, base + j)
      BY <2>1, <2>2, <2>3 DEF ElfUpto
    <3>2. Byte(W[i].mem, pages, j) = SegmentByte(f, f.segs[i], base + j, y)
      BY <2>2, <2>3 DEF SegmentIn
    <3> HIDE DEF y, base
    <3>3. i \in Nat \ {0}
      BY <1>1
    <3>4. ElfByte(f, i, base + j) = SegmentByte(f, f.segs[i], base + j, ElfByte(f, i - 1, base + j))
      BY <3>3, ElfByteNext
    <3> QED
      BY <3>1, <3>2, <3>4
  <2>4. Good(i)
    BY <2>2, <2>3 DEF ElfUpto
  <2> QED
    BY <1>1, <2>4
<1>14. n \in T
  <2>1. \A i \in 1 .. n : i - 1 \in T => i \in T
    BY <1>13
  <2> HIDE DEF T
  <2>2. \A i \in 0 .. n : i \in T
    BY <1>1, <1>12, <2>1, Upto
  <2> QED
    BY <1>1, <2>2
<1>15. Good(n)
  BY <1>14
<1> QED
  BY <1>10, <1>15 DEF n

----------------------------------------------------------------------------
(***************************************************************************)
(* What a load has in memory: whichever loader made it, a load that        *)
(* succeeded holds the image of the program it is put on record as, and a  *)
(* clear stack.                                                            *)
(***************************************************************************)
Made(l, f) ==
  [kind |-> l.kind, file |-> f, base |-> l.base, count |-> l.count,
   entry |-> l.entry, pages |-> ToSet(l.taken), fresh |-> TRUE]

HasImage(l, f) ==
  /\ l.base \in Int /\ l.base = (l.base \div PageSize) * PageSize
  /\ \A j \in Extent(l.count) : Byte(l.mem, l.taken, j) = ImageByte(Made(l, f), l.base + j)
  /\ l.mem[Last(l.taken)] = Zero
  /\ l.entry \div PageSize \in l.base \div PageSize .. l.base \div PageSize + l.count - 1

RightLoad(l, f) == l.mem \in Mem /\ (l.ok => HasImage(l, f))

LEMMA FlatByte ==
  ASSUME NEW p, p.kind = "flat", p.base \in Int, NEW j \in Int
  PROVE  ImageByte(p, p.base + j) = IF j < p.file.size THEN p.file.at + j ELSE 0
<1> DEFINE b == p.base
           i == (b + j) - b
<1>1. i = j
  <2> HIDE DEF b
  <2>1. b \in Int
    BY DEF b
  <2> QED
    BY <2>1
<1>2. ImageByte(p, b + j) = IF i < p.file.size THEN p.file.at + i ELSE 0
  <2> HIDE DEF i
  <2> QED
    BY DEF ImageByte, i
<1> HIDE DEF i
<1> QED
  BY <1>1, <1>2

LEMMA DemoByte ==
  ASSUME NEW p, p.kind = "demo", p.base \in Int, NEW j \in Int
  PROVE  ImageByte(p, p.base + j) = IF j < BlobSize THEN -2 - j ELSE 0
<1> DEFINE b == p.base
           i == (b + j) - b
<1>1. i = j
  <2> HIDE DEF b
  <2>1. b \in Int
    BY DEF b
  <2> QED
    BY <2>1
<1>2. ImageByte(p, b + j) = IF i < BlobSize THEN -2 - i ELSE 0
  <2> HIDE DEF i
  <2> QED
    BY DEF ImageByte, i
<1> HIDE DEF i
<1> QED
  BY <1>1, <1>2

LEMMA ElfByteIs ==
  ASSUME NEW p, p.kind = "elf", p.file.segs \in Seq(ProgramHeader), NEW x
  PROVE  ImageByte(p, x) = ElfByte(p.file, Len(p.file.segs), x)
<1> DEFINE f == p.file
           C == Cover(f, Len(f.segs), x)
           D == {i \in DOMAIN f.segs : /\ Loadable(f.segs[i])
                                       /\ x \in f.segs[i].vaddr .. f.segs[i].vaddr + f.segs[i].memsz - 1}
           s == f.segs[Max(C)]
<1>1. D = C
  BY DEF Cover
<1>2. ImageByte(p, x) = IF D # {} /\ x - f.segs[Max(D)].vaddr < f.segs[Max(D)].filesz
                        THEN f.at + f.segs[Max(D)].offset + x - f.segs[Max(D)].vaddr ELSE 0
  BY DEF ImageByte
<1> HIDE DEF D, C
<1>3. ElfByte(f, Len(f.segs), x) = IF C # {} /\ x - s.vaddr < s.filesz
                                   THEN f.at + s.offset + x - s.vaddr ELSE 0
  BY DEF ElfByte, C
<1> QED
  BY <1>1, <1>2, <1>3

\* The pages of an image, and the stack's page taken after them.
LEMMA TakenPrefix ==
  ASSUME NEW n \in 0 .. MaxProgram, Len(PagesTaken(n + 1)) = n + 1
  PROVE  /\ IsImage(PagesTaken(n)) /\ Len(PagesTaken(n)) = n
         /\ PagesTaken(n + 1) \in Seq(Pages)
         /\ \A i \in 1 .. n : PagesTaken(n + 1)[i] = PagesTaken(n)[i]
         /\ SubSeq(PagesTaken(n + 1), 1, n) = PagesTaken(n)
         /\ Last(PagesTaken(n + 1)) = PagesTaken(n + 1)[n + 1]
         /\ Last(PagesTaken(n + 1)) \in Pages
         /\ Last(PagesTaken(n + 1)) \in ToSet(PagesTaken(n + 1))
         /\ Last(PagesTaken(n + 1)) \notin ToSet(PagesTaken(n))
         /\ ToSet(PagesTaken(n)) \subseteq ToSet(PagesTaken(n + 1))
<1> DEFINE a == PagesTaken(n)
           b == PagesTaken(n + 1)
           c == Cardinality(Free)
<1>0. n \in Nat /\ n + 1 \in Nat /\ MaxProgram \in Nat /\ c \in Nat /\ Free \subseteq Pages
  BY PageFacts, FreeFinite DEF Free
<1>1. /\ a \in Seq(Free) /\ Len(a) = (IF n <= c THEN n ELSE c)
      /\ \A i \in 1 .. Len(a) : a[i] \in Free /\ Rank(a[i]) = i - 1
  BY <1>0, PagesTakenRanks
<1>2. /\ b \in Seq(Free) /\ Len(b) = (IF n + 1 <= c THEN n + 1 ELSE c)
      /\ \A i \in 1 .. n + 1 : b[i] \in Free /\ Rank(b[i]) = i - 1
  BY <1>0, PagesTakenRanks
<1>3. \A i, j \in 1 .. Len(a) : a[i] = a[j] => i = j
  BY <1>0, PagesTakenFirst
<1>4. \A i, j \in 1 .. n + 1 : b[i] = b[j] => i = j
  BY <1>0, PagesTakenFirst
<1>5. Len(b) = n + 1
  OBVIOUS
<1> HIDE DEF a, b, c
<1>6. Len(a) = n
  BY <1>0, <1>1, <1>2, <1>5
<1>7. ASSUME NEW i \in 1 .. n PROVE b[i] = a[i]
  <2>1. i \in 1 .. n + 1 /\ i \in 1 .. Len(a)
    BY <1>0, <1>6
  <2>2. a[i] \in Free /\ b[i] \in Free /\ Rank(a[i]) = Rank(b[i])
    BY <1>1, <1>2, <2>1
  <2> QED
    BY <2>2, RankUnique
<1>8. a \in Seq(Pages) /\ b \in Seq(Pages)
  BY <1>0, <1>1, <1>2
<1>9. IsImage(a)
  BY <1>3, <1>6, <1>8 DEF IsImage
<1>10. SubSeq(b, 1, n) = a
  <2> DEFINE d == SubSeq(b, 1, n)
  <2>1. d = [i \in 1 .. n |-> b[i]]
    BY <1>0, <1>5, <1>8
  <2>2. a = [i \in 1 .. n |-> a[i]]
    BY <1>6, <1>8
  <2> QED
    BY <1>7, <2>1, <2>2
<1>11. DOMAIN a = 1 .. n /\ DOMAIN b = 1 .. n + 1 /\ n + 1 \in 1 .. n + 1
  BY <1>0, <1>5, <1>6, <1>8
<1>12. Last(b) = b[n + 1] /\ b[n + 1] \in Pages /\ b[n + 1] \in ToSet(b)
  BY <1>5, <1>8, <1>11 DEF Last, ToSet
<1>13. \A i \in 1 .. n : i \in 1 .. n + 1 /\ i # n + 1
  BY <1>0
<1>14. b[n + 1] \notin ToSet(a)
  BY <1>4, <1>7, <1>11, <1>13 DEF ToSet
<1>15. ToSet(a) \subseteq ToSet(b)
  BY <1>7, <1>11, <1>13 DEF ToSet
<1> QED
  BY <1>6, <1>7, <1>8, <1>9, <1>10, <1>12, <1>14, <1>15 DEF a, b

\* The bytes of an image are in the first pages taken.
LEMMA PrefixBytes ==
  ASSUME NEW n \in 0 .. MaxProgram, NEW t, NEW pages, \A i \in 1 .. n : t[i] = pages[i], NEW m,
         NEW j \in Extent(n)
  PROVE  Byte(m, t, j) = Byte(m, pages, j)
<1> DEFINE a == j \div PageSize
<1>1. a \in 0 .. n - 1
  BY PlainIndex
<1> HIDE DEF a
<1>2. a + 1 \in 1 .. n
  BY <1>1, PageFacts
<1>3. t[a + 1] = pages[a + 1]
  BY <1>2
<1> QED
  BY <1>3 DEF Byte, a

LEMMA ClearedTyped ==
  ASSUME mem \in Mem, NEW t
  PROVE  Cleared(t) \in Mem
<1>1. Zero \in [Offsets -> Int]
  BY DEF Zero
<1> QED
  BY <1>1 DEF Cleared, Mem

\* A load that is not entered leaves memory in place.
LEMMA FailedRight ==
  ASSUME mem \in Mem, NEW t, NEW m \in Mem, NEW f
  PROVE  RightLoad(Refused, f) /\ RightLoad([Refused EXCEPT !.taken = t, !.mem = m], f)
BY DEF RightLoad, Refused, Load

LEMMA WindowStart ==
  /\ CodePage * PageSize \in Nat /\ (CodePage * PageSize) \div PageSize = CodePage
<1>1. PageSize \in Nat \ {0} /\ CodePage \in Int /\ 0 \in 0 .. PageSize - 1 /\ CodePage \in Nat
  BY PageFacts
<1>2. (CodePage * PageSize + 0) \div PageSize = CodePage
  BY <1>1, Quotient
<1>3. CodePage * PageSize \in Nat /\ CodePage * PageSize + 0 = CodePage * PageSize
  BY <1>1
<1> QED
  BY <1>2, <1>3

\* user_run_flat_file
LEMMA LoadFlatRight ==
  ASSUME mem \in Mem, NEW f, IsFile(f), NEW err
  PROVE  RightLoad(LoadFlat(f, err), f)
<1> DEFINE count == PageCountOf(f.size)
           base  == CodePage * PageSize
           taken == PagesTaken(count + 1)
           r     == CopyFlat(f, taken, count, err)
           m     == Cleared(taken)
           l     == LoadFlat(f, err)
<1>1. count \in Int /\ base \in Nat /\ f.size \in Nat /\ f.at \in Nat
  <2>1. f.size \in Nat /\ f.at \in Nat
    BY PageFacts DEF IsFile, Words
  <2> QED
    BY <2>1, PageCountInt, WindowStart
<1>2. l = IF ~RangeValid(base, count) \/ count > FlatMaxPages THEN Refused
          ELSE IF Len(taken) < count + 1 THEN [Refused EXCEPT !.taken = taken, !.mem = m]
          ELSE Load(r.ok, taken, r.mem, "flat", base, count, base, {})
  BY DEF LoadFlat
<1>3. m \in Mem
  BY ClearedTyped
<1>4. f.size <= count * PageSize
  BY <1>1, RoundUp
<1> HIDE DEF count, base, r, m, l
<1>5. CASE ~RangeValid(base, count) \/ count > FlatMaxPages
  BY <1>2, <1>3, <1>5, FailedRight DEF l
<1>6. CASE RangeValid(base, count) /\ ~(count > FlatMaxPages) /\ Len(taken) < count + 1
  <2> HIDE DEF taken
  <2>1. l = [Refused EXCEPT !.taken = taken, !.mem = m]
    BY <1>2, <1>6
  <2>2. RightLoad([Refused EXCEPT !.taken = taken, !.mem = m], f)
    BY <1>3, FailedRight
  <2>3. RightLoad(l, f)
    <3> HIDE DEF l
    <3> QED
      BY <2>1, <2>2
  <2> QED
    BY <2>3 DEF l
<1>7. CASE RangeValid(base, count) /\ ~(count > FlatMaxPages) /\ ~(Len(taken) < count + 1)
  <2>1. l = Load(r.ok, taken, r.mem, "flat", base, count, base, {})
    BY <1>2, <1>7
  <2>2. count \in 1 .. MaxProgram
    BY <1>1, <1>7, RangeInWindow
  <2>3. count \in 0 .. MaxProgram /\ count \in Nat /\ count + 1 \in Nat
    BY <2>2, PageFacts
  <2>4. Len(taken) = count + 1
    BY <1>7, <2>3, PagesTakenFirst
  <2> DEFINE pages == PagesTaken(count)
             part == [tag |-> 0, offset |-> 0, to |-> 0, size |-> f.size]
             st == Start(taken)
  <2>5. /\ IsImage(pages) /\ Len(pages) = count /\ taken \in Seq(Pages)
        /\ (\A i \in 1 .. count : taken[i] = pages[i]) /\ SubSeq(taken, 1, count) = pages
        /\ Last(taken) \in Pages /\ Last(taken) \in ToSet(taken) /\ Last(taken) \notin ToSet(pages)
        /\ ToSet(pages) \subseteq ToSet(taken)
    BY <2>3, <2>4, TakenPrefix
  <2> HIDE DEF pages, taken
  <2>6. /\ st \in Loaded /\ st.ok /\ st.mem = m
        /\ \A j \in Extent(Len(pages)) : Byte(m, pages, j) = 0
    BY <2>5, StartClear DEF m
  <2>7. r = CopyPart(st, f, part, pages, err)
    BY <2>5 DEF r, CopyFlat
  <2>8. part.offset = 0 /\ part.to = 0 /\ part.size = f.size
    OBVIOUS
  <2> HIDE DEF part, st
  <2>9. PartFits(f, part, pages)
    BY <1>1, <1>4, <2>5, <2>8 DEF PartFits
  <2>10. r \in Loaded /\ (r.ok => Copied(f, part, f.size, m, r.mem, pages))
    BY <2>5, <2>6, <2>7, <2>8, <2>9, CopyPartCopies DEF SameRest
  <2>11. /\ l.ok = r.ok /\ l.mem = r.mem /\ l.taken = taken /\ l.base = base /\ l.count = count
         /\ l.entry = base /\ l.kind = "flat"
    BY <2>1 DEF Load
  <2>12. l.mem \in Mem
    BY <2>10, <2>11 DEF Loaded
  <2>13. ASSUME r.ok PROVE HasImage(l, f)
    <3> DEFINE p == Made(l, f)
    <3>1. p.kind = "flat" /\ p.base = base /\ p.file = f
      BY <2>11 DEF Made
    <3> HIDE DEF p
    <3>2. ASSUME NEW j \in Extent(count) PROVE Byte(l.mem, l.taken, j) = ImageByte(p, base + j)
      <4>1. j \in Int /\ j >= 0
        BY DEF Extent
      <4>2. Byte(l.mem, taken, j) = Byte(r.mem, pages, j)
        BY <2>3, <2>5, <2>11, PrefixBytes
      <4>3. Byte(r.mem, pages, j) = IF j \in 0 .. 0 + f.size - 1 THEN f.at + 0 + (j - 0) ELSE 0
        BY <2>5, <2>6, <2>8, <2>10, <2>13 DEF Copied
      <4>4. ImageByte(p, base + j) = IF j < f.size THEN f.at + j ELSE 0
        BY <1>1, <3>1, <4>1, FlatByte
      <4>5. (j \in 0 .. 0 + f.size - 1 <=> j < f.size) /\ f.at + 0 + (j - 0) = f.at + j
        BY <1>1, <4>1
      <4> QED
        BY <2>11, <4>2, <4>3, <4>4, <4>5
    <3>3. l.mem[Last(l.taken)] = Zero
      <4>1. r.mem[Last(taken)] = m[Last(taken)]
        BY <2>5, <2>10, <2>13 DEF Copied, Others
      <4>2. m[Last(taken)] = Zero
        BY <2>5 DEF m, Cleared
      <4> QED
        BY <2>11, <4>1, <4>2
    <3>4. base \div PageSize = CodePage /\ base = (base \div PageSize) * PageSize /\ base \in Int
      BY WindowStart DEF base
    <3>5. CodePage \in CodePage .. CodePage + count - 1
      BY <2>2, PageFacts
    <3> QED
      BY <2>11, <3>2, <3>3, <3>4, <3>5 DEF HasImage, p
  <2> QED
    BY <2>11, <2>12, <2>13 DEF RightLoad, l
<1> QED
  BY <1>5, <1>6, <1>7

\* user_run_demo
LEMMA LoadDemoRight ==
  ASSUME mem \in Mem
  PROVE  RightLoad(LoadDemo, << >>)
<1> DEFINE taken == PagesTaken(2)
           pages == PagesTaken(1)
           base == CodePage * PageSize
           blob == [i \in 1 .. BlobSize |-> -1 - i]
           m == Cleared(taken)
           stored == Store(m, taken[1], 0, blob)
           l == LoadDemo
<1>1. BlobSize \in Nat /\ MaxProgram \in Nat /\ 1 \in 0 .. MaxProgram /\ 1 + 1 = 2
  BY MemoryAssumption, ProgramsAssumption
<1>2. blob \in Seq(Int) /\ Len(blob) = BlobSize
  <2>1. blob \in [1 .. BlobSize -> Int]
    BY <1>1
  <2> HIDE DEF blob
  <2> QED
    BY <1>1, <2>1
<1>3. /\ l.ok <=> Len(taken) = 2 /\ BlobSize <= PageSize
      /\ l.taken = taken /\ l.kind = "demo" /\ l.base = base /\ l.count = 1 /\ l.entry = base
      /\ l.mem = IF taken # << >> THEN stored ELSE mem
  BY DEF LoadDemo, Load
<1>4. m \in Mem
  BY ClearedTyped
<1>5. stored \in Mem
  <2> HIDE DEF m, taken, blob
  <2> QED
    BY <1>2, <1>4, StoreTyped
<1>6. l.mem \in Mem
  BY <1>3, <1>5
<1> HIDE DEF l
<1>7. ASSUME l.ok PROVE HasImage(l, << >>)
  <2>1. Len(taken) = 2 /\ BlobSize <= PageSize
    BY <1>3, <1>7
  <2>2. /\ IsImage(pages) /\ Len(pages) = 1 /\ taken \in Seq(Pages)
        /\ \A i \in 1 .. 1 : taken[i] = pages[i]
        /\ Last(taken) \in Pages /\ Last(taken) \in ToSet(taken) /\ Last(taken) \notin ToSet(pages)
        /\ ToSet(pages) \subseteq ToSet(taken)
    <3> DEFINE n == 1
    <3>1. n \in 0 .. MaxProgram /\ n + 1 = 2
      BY <1>1
    <3> HIDE DEF n
    <3>2. Len(PagesTaken(n + 1)) = n + 1
      BY <2>1, <3>1
    <3>3. /\ IsImage(PagesTaken(n)) /\ Len(PagesTaken(n)) = n /\ PagesTaken(n + 1) \in Seq(Pages)
          /\ (\A i \in 1 .. n : PagesTaken(n + 1)[i] = PagesTaken(n)[i])
          /\ Last(PagesTaken(n + 1)) \in Pages /\ Last(PagesTaken(n + 1)) \in ToSet(PagesTaken(n + 1))
          /\ Last(PagesTaken(n + 1)) \notin ToSet(PagesTaken(n))
          /\ ToSet(PagesTaken(n)) \subseteq ToSet(PagesTaken(n + 1))
      BY <3>1, <3>2, TakenPrefix
    <3>4. PagesTaken(n) = pages /\ PagesTaken(n + 1) = taken /\ n = 1
      BY <3>1 DEF n
    <3> HIDE DEF pages, taken
    <3> QED
      BY <3>3, <3>4
  <2> HIDE DEF taken, pages, base
  <2>3. \A j \in Extent(Len(pages)) : Byte(m, pages, j) = 0
    BY <2>2, StartClear
  <2> HIDE DEF blob
  <2>4. Landed(m, stored, pages, 0, blob)
    <3> DEFINE q == 0
    <3>1. q \in 0 .. Len(pages) - 1 /\ 0 \in Offsets /\ 0 + Len(blob) <= PageSize
      BY <1>2, <2>1, <2>2, PageFacts
    <3> HIDE DEF m, q
    <3>2. Landed(m, Store(m, pages[q + 1], 0, blob), pages, (q * PageSize) + 0, blob)
      BY <1>2, <1>4, <2>2, <3>1, StoreLands
    <3>3. q + 1 = 1 /\ (q * PageSize) + 0 = 0
      BY PageFacts DEF q
    <3>4. pages[1] = taken[1]
      BY <2>2
    <3> QED
      BY <3>2, <3>3, <3>4
  <2>5. l.mem = stored
    <3>1. taken # << >>
      BY <2>1
    <3> QED
      BY <1>3, <3>1
  <2> HIDE DEF stored, m
  <2> DEFINE p == Made(l, << >>)
  <2>6. p.kind = "demo" /\ p.base = base
    BY <1>3 DEF Made
  <2> HIDE DEF p
  <2>7. base \div PageSize = CodePage /\ base = (base \div PageSize) * PageSize /\ base \in Int
    BY WindowStart DEF base
  <2>8. ASSUME NEW j \in Extent(1) PROVE Byte(l.mem, l.taken, j) = ImageByte(p, base + j)
    <3>1. j \in Int /\ j >= 0
      BY DEF Extent
    <3>2. Byte(l.mem, taken, j) = Byte(stored, pages, j)
      BY <1>1, <2>2, <2>5, PrefixBytes
    <3>3. Byte(stored, pages, j) = IF j \in 0 .. 0 + BlobSize - 1 THEN blob[j - 0 + 1] ELSE 0
      BY <1>2, <2>2, <2>3, <2>4 DEF Landed
    <3>4. ImageByte(p, base + j) = IF j < BlobSize THEN -2 - j ELSE 0
      BY <2>6, <2>7, <3>1, DemoByte
    <3>5. CASE j < BlobSize
      <4>1. j \in 0 .. 0 + BlobSize - 1 /\ j - 0 + 1 \in 1 .. BlobSize /\ -1 - (j - 0 + 1) = -2 - j
        BY <1>1, <3>1, <3>5
      <4>2. blob[j - 0 + 1] = -1 - (j - 0 + 1)
        BY <4>1 DEF blob
      <4> QED
        BY <1>3, <3>2, <3>3, <3>4, <3>5, <4>1, <4>2
    <3>6. CASE ~(j < BlobSize)
      <4>1. j \notin 0 .. 0 + BlobSize - 1
        BY <1>1, <3>1, <3>6
      <4> QED
        BY <1>3, <3>2, <3>3, <3>4, <3>6, <4>1
    <3> QED
      BY <3>5, <3>6
  <2>9. l.mem[Last(l.taken)] = Zero
    <3>1. stored[Last(taken)] = m[Last(taken)]
      BY <2>2, <2>4 DEF Landed, Others
    <3>2. m[Last(taken)] = Zero
      BY <2>2 DEF m, Cleared
    <3> QED
      BY <1>3, <2>5, <3>1, <3>2
  <2>10. CodePage \in CodePage .. CodePage + 1 - 1
    BY PageFacts
  <2> QED
    BY <1>3, <2>7, <2>8, <2>9, <2>10 DEF HasImage, p
<1> QED
  BY <1>6, <1>7 DEF RightLoad, l

\* The stack's page is cleared after the image was laid out.
StackCleared(m, m2, p, pages) ==
  /\ m2 \in Mem /\ m2[p] = Zero
  /\ \A j \in Extent(Len(pages)) : Byte(m2, pages, j) = Byte(m, pages, j)

LEMMA ClearStack ==
  ASSUME NEW m \in Mem, NEW p \in Pages, NEW pages, IsImage(pages), p \notin ToSet(pages)
  PROVE  StackCleared(m, Store(m, p, 0, [o \in 1 .. PageSize |-> 0]), p, pages)
<1> DEFINE zs == [o \in 1 .. PageSize |-> 0]
           m2 == Store(m, p, 0, zs)
           n == Len(pages)
<1>0. PageSize \in Nat \ {0} /\ n \in 0 .. MaxProgram /\ n \in Nat /\ pages \in [1 .. n -> Pages]
      /\ DOMAIN pages = 1 .. n
  BY PageFacts DEF IsImage
<1>1. zs \in Seq(Int) /\ DOMAIN zs = 1 .. PageSize /\ \A o \in 1 .. PageSize : zs[o] = 0
  <2>1. zs \in [1 .. PageSize -> Int] /\ \A o \in 1 .. PageSize : zs[o] = 0
    OBVIOUS
  <2> HIDE DEF zs
  <2> QED
    BY <1>0, <2>1
<1> HIDE DEF zs
<1>2. m2 \in Mem
  BY <1>1, StoreTyped
<1>3. m2 = [m EXCEPT ![p] = [o \in Offsets |-> IF o - 0 + 1 \in DOMAIN zs THEN zs[o - 0 + 1] ELSE m[p][o]]]
  BY DEF Store
<1>4. m2[p] = Zero
  <2>1. \A o \in Offsets : o - 0 + 1 \in DOMAIN zs /\ zs[o - 0 + 1] = 0
    <3> SUFFICES ASSUME NEW o \in Offsets PROVE o - 0 + 1 \in DOMAIN zs /\ zs[o - 0 + 1] = 0
      OBVIOUS
    <3>1. o - 0 + 1 \in 1 .. PageSize
      BY <1>0 DEF Offsets
    <3> QED
      BY <1>1, <3>1
  <2>2. m2[p] = [o \in Offsets |-> IF o - 0 + 1 \in DOMAIN zs THEN zs[o - 0 + 1] ELSE m[p][o]]
    BY <1>3 DEF Mem
  <2> QED
    BY <2>1, <2>2 DEF Zero
<1>5. ASSUME NEW j \in Extent(n) PROVE Byte(m2, pages, j) = Byte(m, pages, j)
  <2> DEFINE a == j \div PageSize
  <2>1. a \in 0 .. n - 1
    BY <1>0, PlainIndex
  <2> HIDE DEF a
  <2>2. a + 1 \in 1 .. n
    BY <1>0, <2>1
  <2>3. pages[a + 1] \in Pages /\ pages[a + 1] \in ToSet(pages)
    BY <1>0, <2>2 DEF ToSet
  <2>4. m2[pages[a + 1]] = m[pages[a + 1]]
    BY <1>3, <2>3 DEF Mem
  <2> QED
    BY <2>4 DEF Byte, a
<1> QED
  BY <1>2, <1>4, <1>5 DEF zs, StackCleared

\* user_run_elf_file
LEMMA LoadElfRight ==
  ASSUME mem \in Mem, NEW f, IsFile(f), NEW err
  PROVE  RightLoad(LoadElf(f, err), f)
<1> DEFINE base  == ImageBase(f)
           end   == ImageEnd(f)
           full  == PageCountOf(end - base)
           count == full % IndexMod
           pages == PagesTaken(count)
           r     == LoadSegments(f, base, pages, err)
           taken == PagesTaken(count + 1)
           cleared == Cleared(pages)
           stored == Store(r.mem, Last(taken), 0, [o \in 1 .. PageSize |-> 0])
           l == LoadElf(f, err)
<1>1. l = IF ~LayoutValid(f, err) THEN Refused
          ELSE IF Len(pages) < count THEN [Refused EXCEPT !.taken = pages, !.mem = cleared]
          ELSE IF ~r.ok \/ ~r.mapped \/ Len(taken) = count
          THEN [Refused EXCEPT !.taken = pages, !.mem = r.mem]
          ELSE Load(TRUE, taken, stored, "elf", base, count, f.entry, r.rw)
  BY DEF LoadElf
<1>2. cleared \in Mem
  BY ClearedTyped
<1>3. SUFFICES RightLoad(l, f)
  OBVIOUS
<1> HIDE DEF r, cleared, stored, l
<1>4. CASE ~LayoutValid(f, err)
  BY <1>1, <1>2, <1>4, FailedRight
<1>5. CASE LayoutValid(f, err)
  <2>1. Segments(f) # {} /\ RangeValid(base, full) /\ end > base /\ f.entry >= base /\ f.entry < end
    BY <1>5 DEF LayoutValid
  <2>2. base \in Nat /\ end \in Nat /\ base = (base \div PageSize) * PageSize /\ end - base \in Int
    BY <2>1, ExtentHolds
  <2>3. full \in Int /\ end - base <= full * PageSize /\ full * PageSize \in Int
    BY <2>2, PageCountInt, RoundUp
  <2>4. full = PageCountOf(ImageEnd(f) - ImageBase(f))
    OBVIOUS
  <2> HIDE DEF base, full, end
  <2>5. /\ full \in 1 .. MaxProgram /\ base \div PageSize \in Int
        /\ base \div PageSize + full <= StackPage
    BY <2>1, <2>2, <2>3, RangeInWindow
  <2>6. count = full
    <3>1. IndexMod \in Nat /\ full < IndexMod /\ full \in Nat
      BY <2>5, PageFacts
    <3> QED
      BY <3>1
  <2> HIDE DEF count
  <2>7. count \in 0 .. MaxProgram /\ count \in Nat /\ count + 1 \in Nat
    BY <2>5, <2>6, PageFacts
  <2>8. CASE Len(pages) < count
    <3> HIDE DEF pages
    <3>1. l = [Refused EXCEPT !.taken = pages, !.mem = cleared]
      BY <1>1, <1>5, <2>8
    <3>2. RightLoad([Refused EXCEPT !.taken = pages, !.mem = cleared], f)
      BY <1>2, FailedRight
    <3> QED
      BY <3>1, <3>2
  <2>9. CASE ~(Len(pages) < count)
    <3>1. Len(pages) = count
      BY <2>7, <2>9, PagesTakenFirst
    <3>2. IsImage(pages)
      <4>1. pages \in Seq(Free) /\ \A i, j \in 1 .. Len(pages) : pages[i] = pages[j] => i = j
        BY <2>7, PagesTakenFirst
      <4>2. pages \in Seq(Pages)
        BY <4>1 DEF Free
      <4> HIDE DEF pages
      <4> QED
        BY <2>7, <3>1, <4>1, <4>2 DEF IsImage
    <3>3. Laid(f, err, pages)
      BY <1>5, <2>4, <2>6, <3>1, <3>2 DEF Laid
    <3>4. r \in Loaded /\ (r.ok => ElfUpto(f, Len(f.segs), r.mem, pages))
      <4> HIDE DEF pages
      <4> QED
        BY <3>3, LoadSegmentsLoads DEF r, base
    <3>5. r.mem \in Mem
      BY <3>4 DEF Loaded
    <3>6. CASE ~r.ok \/ ~r.mapped \/ Len(taken) = count
      <4> HIDE DEF pages, taken
      <4>1. l = [Refused EXCEPT !.taken = pages, !.mem = r.mem]
        BY <1>1, <1>5, <2>9, <3>6
      <4> DEFINE m == r.mem
      <4>2. m \in Mem
        BY <3>5
      <4> HIDE DEF m
      <4>3. RightLoad([Refused EXCEPT !.taken = pages, !.mem = m], f)
        BY <4>2, FailedRight
      <4> QED
        BY <4>1, <4>3 DEF m
    <3>7. CASE ~(~r.ok \/ ~r.mapped \/ Len(taken) = count)
      <4>1. l = Load(TRUE, taken, stored, "elf", base, count, f.entry, r.rw)
        <5> HIDE DEF pages, taken
        <5> QED
          BY <1>1, <1>5, <2>9, <3>7
      <4>2. Len(taken) = count + 1
        <5>1. Len(taken) \in Nat /\ Len(taken) <= count + 1 /\ Len(taken) # count
          BY <2>7, <3>7, PagesTakenFirst
        <5>2. Len(pages) = IF count <= Cardinality(Free) THEN count ELSE Cardinality(Free)
          BY <2>7, PagesTakenRanks
        <5>3. Len(taken) = IF count + 1 <= Cardinality(Free) THEN count + 1 ELSE Cardinality(Free)
          BY <2>7, PagesTakenRanks
        <5> HIDE DEF pages, taken
        <5> QED
          BY <2>7, <3>1, <5>1, <5>2, <5>3, FreeFinite
      <4>3. /\ \A i \in 1 .. count : taken[i] = pages[i]
            /\ Last(taken) \in Pages /\ Last(taken) \notin ToSet(pages)
        BY <2>7, <4>2, TakenPrefix
      <4> HIDE DEF pages, taken
      <4>4. /\ stored \in Mem /\ stored[Last(taken)] = Zero
            /\ \A j \in Extent(Len(pages)) : Byte(stored, pages, j) = Byte(r.mem, pages, j)
        <5> DEFINE m == r.mem
                   p == Last(taken)
        <5>1. m \in Mem /\ p \in Pages /\ p \notin ToSet(pages)
          BY <3>5, <4>3
        <5> HIDE DEF m, p
        <5>2. StackCleared(m, Store(m, p, 0, [o \in 1 .. PageSize |-> 0]), p, pages)
          BY <3>2, <5>1, ClearStack
        <5>3. StackCleared(m, stored, p, pages)
          BY <5>2 DEF stored, m, p
        <5> QED
          BY <5>3 DEF StackCleared, m, p
      <4>5. /\ l.mem = stored /\ l.taken = taken /\ l.base = base /\ l.count = count
            /\ l.entry = f.entry /\ l.kind = "elf"
        BY <4>1 DEF Load
      <4> DEFINE p == Made(l, f)
      <4>6. p.kind = "elf" /\ p.file = f /\ p.file.segs \in Seq(ProgramHeader)
        BY <4>5 DEF Made, IsFile
      <4> HIDE DEF p
      <4>7. ASSUME NEW j \in Extent(count) PROVE Byte(l.mem, l.taken, j) = ImageByte(p, base + j)
        <5>1. Byte(l.mem, taken, j) = Byte(stored, pages, j)
          BY <2>7, <4>3, <4>5, PrefixBytes
        <5>2. Byte(stored, pages, j) = Byte(r.mem, pages, j)
          BY <3>1, <4>4
        <5>3. Byte(r.mem, pages, j) = ElfByte(f, Len(f.segs), base + j)
          BY <3>1, <3>4, <3>7 DEF ElfUpto, base
        <5>4. ImageByte(p, base + j) = ElfByte(f, Len(f.segs), base + j)
          BY <4>6, ElfByteIs
        <5> QED
          BY <4>5, <5>1, <5>2, <5>3, <5>4
      <4>8. f.entry \div PageSize \in base \div PageSize .. base \div PageSize + count - 1
        <5> DEFINE e == f.entry
                   q == base \div PageSize
                   d == e - base
        <5>1. e \in Nat /\ PageSize \in Nat \ {0}
          BY PageFacts DEF IsFile, Words
        <5>2. d \in 0 .. (count * PageSize) - 1
          <6> DEFINE N == count * PageSize
          <6>1. end - base <= N /\ N \in Int
            BY <2>3, <2>6
          <6>2. base <= e /\ e < end
            BY <2>1, <2>2, <5>1
          <6> HIDE DEF N, e
          <6>3. d \in 0 .. N - 1
            BY <2>2, <5>1, <6>1, <6>2
          <6> QED
            BY <6>3 DEF N
        <5>3. d \in Extent(count)
          BY <5>2 DEF Extent
        <5> DEFINE a == d \div PageSize
                   o == d % PageSize
        <5>4. a \in 0 .. count - 1 /\ o \in Offsets /\ d = (a * PageSize) + o
          <6> HIDE DEF d
          <6> QED
            BY <2>7, <5>3, PlainIndex
        <5>5. o \in 0 .. PageSize - 1
          BY <5>4 DEF Offsets
        <5>6. q \in Int /\ base = q * PageSize
          BY <2>2, <2>5
        <5> HIDE DEF a, o, q
        <5>7. e = (q + a) * PageSize + o
          <6>1. (q + a) * PageSize = (q * PageSize) + (a * PageSize) /\ a * PageSize \in Int
            BY <5>1, <5>4, <5>6
          <6>2. e = base + d
            BY <2>2, <5>1
          <6> HIDE DEF d, e
          <6> QED
            BY <2>2, <5>1, <5>4, <5>5, <5>6, <6>1, <6>2
        <5>8. ((q + a) * PageSize + o) \div PageSize = q + a
          <6> DEFINE u == q + a
          <6>1. u \in Int
            BY <5>4, <5>6
          <6> HIDE DEF u
          <6>2. (u * PageSize + o) \div PageSize = u
            BY <5>1, <5>5, <6>1, Quotient
          <6> QED
            BY <6>2 DEF u
        <5>9. q + a \in q .. q + count - 1
          BY <2>7, <5>4, <5>6
        <5>10. e \div PageSize = q + a
          BY <5>7, <5>8
        <5> HIDE DEF e
        <5>11. e \div PageSize \in q .. q + count - 1
          BY <5>9, <5>10
        <5> QED
          BY <5>11 DEF e, q
      <4>9. HasImage(l, f)
        BY <2>2, <4>4, <4>5, <4>7, <4>8 DEF HasImage, p
      <4> QED
        BY <4>4, <4>5, <4>9 DEF RightLoad
    <3> QED
      BY <3>6, <3>7
  <2> QED
    BY <2>8, <2>9
<1> QED
  BY <1>4, <1>5

LEMMA LoadFileRight ==
  ASSUME mem \in Mem, NEW f, IsFile(f), NEW err
  PROVE  RightLoad(LoadFile(f, err), f)
BY LoadFlatRight, LoadElfRight DEF LoadFile

----------------------------------------------------------------------------
(***************************************************************************)
(* The inductive invariant of the image: that of the run command, memory   *)
(* is bytes, the running program is placed (its pages are programs' pages, *)
(* its image lies in the window), and ImageIntact.  A write of the program *)
(* spares what it may not write because no page is in the window twice;    *)
(* the allocator spares it because a page of a program is not free.        *)
(***************************************************************************)
Placed == pc = "el0" => prog.pages \subseteq programs /\ ImagePages \subseteq VPages

ImageInv == PInv /\ mem \in Mem /\ Placed /\ ImageIntact

\* What is said of the image by win, mem and prog.
Intact(w, m, p) ==
  /\ \A v \in p.base \div PageSize .. p.base \div PageSize + p.count - 1 : (~w[v].rw \/ p.fresh) =>
       \A o \in Offsets : m[w[v].page][o] = ImageByte(p, (v * PageSize) + o)
  /\ p.fresh => m[w[StackPage].page] = Zero
  /\ p.entry \div PageSize \in p.base \div PageSize .. p.base \div PageSize + p.count - 1

LEMMA IntactIs ==
  /\ ImageIntact <=> (pc = "el0" => Intact(win, mem, prog))
  /\ ImageIntact' <=> (pc' = "el0" => Intact(win', mem', prog'))
<1>1. ImageIntact <=> (pc = "el0" => Intact(win, mem, prog))
  BY DEF ImageIntact, Intact, ImagePages
<1>2. ImageIntact' <=> (pc' = "el0" => Intact(win', mem', prog'))
  BY DEF ImageIntact, Intact, ImagePages, StackPage, Offsets, Zero
<1> QED
  BY <1>1, <1>2

LEMMA SameBytes ==
  ASSUME NEW p, NEW q, p.kind = q.kind, p.file = q.file, p.base = q.base, NEW x
  PROVE  ImageByte(p, x) = ImageByte(q, x)
BY DEF ImageByte

\* A right load that is entered shows its image in the window.
LEMMA EnterShowsImage ==
  ASSUME IInv, NEW l, NEW f, SoundLoad(l), RightLoad(l, f), l.ok, Take(l), Enter(l, f)
  PROVE  mem' \in Mem /\ ImageIntact' /\ Placed'
<1> DEFINE first == l.base \div PageSize
           count == l.count
           t == l.taken
           p == Made(l, f)
           w == MapPages(l)
           m == l.mem
<1>1. HasImage(l, f) /\ m \in Mem
  BY DEF RightLoad
<1>2. /\ win' = w /\ mem' = m /\ prog' = p /\ programs' = programs \cup ToSet(t)
  BY DEF Take, Enter, Made
<1>3. p.base = l.base /\ p.count = count /\ p.entry = l.entry /\ p.pages = ToSet(t)
  BY DEF Made
<1>4. /\ count \in 1 .. MaxProgram /\ count \in 0 .. MaxProgram /\ first \in Int
      /\ first >= CodePage /\ first + count <= StackPage /\ StackPage \in Nat
      /\ CodePage \in Nat /\ PageSize \in Nat \ {0} /\ count \in Int
  <2>1. count \in 1 .. MaxProgram /\ first \in Int /\ first >= CodePage /\ first + count <= StackPage
    BY DEF SoundLoad
  <2> QED
    BY <2>1, StackPageNat, PageFacts
<1>5. /\ l.base \in Int /\ l.base = first * PageSize
      /\ \A j \in Extent(count) : Byte(m, t, j) = ImageByte(p, l.base + j)
      /\ m[Last(t)] = Zero
      /\ l.entry \div PageSize \in first .. first + count - 1
  BY <1>1 DEF HasImage
<1> HIDE DEF first, count, p, m
<1>6. ASSUME NEW v \in first .. first + count - 1, NEW o \in Offsets
      PROVE  m[w[v].page][o] = ImageByte(p, (v * PageSize) + o)
  <2> DEFINE q == v - first
             j == (q * PageSize) + o
  <2>1. q \in 0 .. count - 1 /\ v \in Int /\ v \in VPages
    BY <1>4 DEF VPages
  <2>2. w[v] \in {UserData(t[q + 1]), UserCode(t[q + 1])}
    BY <2>1 DEF MapPages, first, count
  <2>3. w[v].page = t[q + 1]
    BY <2>2 DEF UserData, UserCode
  <2> HIDE DEF q, w, t
  <2>4. j \in Extent(count) /\ j \div PageSize = q /\ j % PageSize = o
    BY <1>4, <2>1, ByteAt
  <2>5. Byte(m, t, j) = m[t[q + 1]][o]
    <3> HIDE DEF j
    <3> QED
      BY <2>4 DEF Byte
  <2>6. l.base + j = (v * PageSize) + o
    <3>1. o \in Int
      BY <1>4 DEF Offsets
    <3>2. q * PageSize = v * PageSize - first * PageSize
      BY <1>4, <2>1 DEF q
    <3>3. v * PageSize \in Int /\ first * PageSize \in Int
      BY <1>4, <2>1
    <3> QED
      BY <1>5, <3>1, <3>2, <3>3
  <2> HIDE DEF j
  <2> QED
    BY <1>5, <2>3, <2>4, <2>5, <2>6
<1>7. m[w[StackPage].page] = Zero
  <2>1. StackPage \in VPages /\ StackPage \notin first .. first + count - 1
    BY <1>4 DEF VPages
  <2>2. w[StackPage] = UserData(Last(t))
    BY <2>1 DEF MapPages, first, count
  <2> QED
    BY <1>5, <2>2 DEF UserData
<1> HIDE DEF w, t
<1>8. Intact(w, m, p)
  BY <1>3, <1>5, <1>6, <1>7 DEF Intact, first
<1>9. ImageIntact'
  BY <1>2, <1>8, IntactIs
<1>10. Placed'
  <2>1. first .. first + count - 1 \subseteq VPages
    BY <1>4 DEF VPages
  <2>2. ImagePages' = first .. first + count - 1
    BY <1>2, <1>3 DEF ImagePages, first
  <2>3. prog'.pages \subseteq programs'
    BY <1>2, <1>3
  <2> QED
    BY <2>1, <2>2, <2>3 DEF Placed, VPages, StackPage
<1> QED
  BY <1>1, <1>2, <1>9, <1>10

LEMMA InitImageInv == PInit => ImageInv
<1> SUFFICES ASSUME PInit PROVE ImageInv
  OBVIOUS
<1>1. PInv /\ pc # "el0"
  BY InitPInv DEF PInit
<1>2. Dirt \in [Offsets -> Int]
  BY DEF Dirt
<1>3. mem \in Mem
  BY <1>2 DEF PInit, Mem
<1> QED
  BY <1>1, <1>3 DEF ImageInv, ImageIntact, Placed

LEMMA RunDemoImage ==
  ASSUME ImageInv, RunDemo
  PROVE  ImageInv'
<1> DEFINE l == LoadDemo
<1>1. l.ok /\ Take(l) /\ Enter(l, << >>)
  BY DEF RunDemo
<1>2. SoundLoad(l) /\ RightLoad(l, << >>) /\ IInv
  BY LoadDemoSound, LoadDemoRight DEF ImageInv, PInv
<1>3. PInv'
  BY RunDemoStep DEF ImageInv
<1> HIDE DEF l
<1>4. mem' \in Mem /\ ImageIntact' /\ Placed'
  BY <1>1, <1>2, EnterShowsImage
<1> QED
  BY <1>3, <1>4 DEF ImageInv, Mem, Pages, Offsets

LEMMA RunFileImage ==
  ASSUME ImageInv, NEW path \in DOMAIN fs, NEW err, RunFile(path, err)
  PROVE  ImageInv'
<1> DEFINE l == LoadFile(fs[path], err)
           f == fs[path]
<1>1. /\ Take(l) /\ pc = "prompt"
      /\ IF l.ok THEN Enter(l, f) ELSE UNCHANGED <<win, pc, prog>>
  BY DEF RunFile
<1>2. IsFile(f) /\ IInv
  BY ProgramsAssumption DEF ImageInv, PInv
<1>3. SoundLoad(l) /\ RightLoad(l, f)
  <2> HIDE DEF f
  <2>1. SoundLoad(LoadFile(f, err)) /\ RightLoad(LoadFile(f, err), f)
    BY <1>2, LoadFileSound, LoadFileRight DEF ImageInv
  <2> QED
    BY <2>1 DEF f
<1>4. PInv'
  BY RunFileStep DEF ImageInv
<1> HIDE DEF l, f
<1>5. CASE l.ok
  <2>1. mem' \in Mem /\ ImageIntact' /\ Placed'
    BY <1>1, <1>2, <1>3, <1>5, EnterShowsImage
  <2> QED
    BY <1>4, <2>1 DEF ImageInv, Mem, Pages, Offsets
<1>6. CASE ~l.ok
  <2>1. mem' \in Mem /\ pc' # "el0"
    BY <1>1, <1>3, <1>6 DEF RightLoad, Take
  <2>2. ImageIntact'
    BY <2>1, IntactIs
  <2> QED
    BY <1>4, <2>1, <2>2 DEF ImageInv, Mem, Pages, Offsets, Placed
<1> QED
  BY <1>5, <1>6

\* A step that leaves the window and the program alone, and of memory changes only
\* a page the program does not have.
LEMMA ImageKept ==
  ASSUME ImageInv, PInv', NEW q, mem' = [mem EXCEPT ![q] = Dirt],
         UNCHANGED <<win, pc, prog, programs>>, q \notin programs
  PROVE  ImageInv'
<1>1. Dirt \in [Offsets -> Int]
  BY DEF Dirt
<1>2. mem' \in Mem
  BY <1>1 DEF ImageInv, Mem
<1>3. ASSUME pc = "el0" PROVE Intact(win, mem', prog)
  <2>1. Intact(win, mem, prog) /\ WindowOwned
    BY <1>3, IntactIs DEF ImageInv, PInv
  <2>2. \A v \in ImagePages \cup {StackPage} : win[v].page \in programs
    BY <1>3, <2>1 DEF ImageInv, Placed, WindowOwned
  <2>3. \A v \in ImagePages \cup {StackPage} : mem'[win[v].page] = mem[win[v].page]
    BY <2>2 DEF ImageInv, Mem
  <2> QED
    BY <2>1, <2>3 DEF Intact, ImagePages
<1>4. ImageIntact'
  BY <1>3, IntactIs
<1>5. Placed'
  BY DEF ImageInv, Placed, ImagePages, VPages, StackPage
<1> QED
  BY <1>2, <1>4, <1>5 DEF ImageInv, Mem, Pages, Offsets

\* The program writes a page: those it may not write are others.
LEMMA UserWriteImage ==
  ASSUME ImageInv, NEW u \in VPages, UserWrite(u)
  PROVE  ImageInv'
<1> DEFINE q == win[u].page
<1>1. /\ pc = "el0" /\ win[u] # Unmapped /\ win[u].rw /\ mem' = [mem EXCEPT ![q] = Dirt]
      /\ prog' = [prog EXCEPT !.fresh = FALSE] /\ UNCHANGED <<win, pc, programs>>
  BY DEF UserWrite, vars
<1>2. PInv'
  BY UserWriteStep DEF ImageInv
<1>3. Dirt \in [Offsets -> Int]
  BY DEF Dirt
<1>4. mem' \in Mem
  BY <1>1, <1>3 DEF ImageInv, Mem
<1>5. prog' = [kind |-> prog.kind, file |-> prog.file, base |-> prog.base, count |-> prog.count,
               entry |-> prog.entry, pages |-> prog.pages, fresh |-> FALSE]
  BY <1>1 DEF ImageInv, PInv, OnRecord
<1>6. /\ prog'.kind = prog.kind /\ prog'.file = prog.file /\ prog'.base = prog.base
      /\ prog'.count = prog.count /\ prog'.entry = prog.entry /\ prog'.pages = prog.pages
      /\ ~prog'.fresh
  BY <1>5
<1>7. Intact(win, mem, prog) /\ WindowOwned /\ programs \subseteq Pages /\ prog.pages \subseteq programs
  BY <1>1, IntactIs DEF ImageInv, Placed, PInv, IInv, SetsTyped
<1>8. ASSUME NEW v \in ImagePages, ~win[v].rw
      PROVE  mem'[win[v].page] = mem[win[v].page]
  <2>1. win[v].page \in Pages
    BY <1>1, <1>7 DEF WindowOwned
  <2>2. win[v] # Unmapped
    <3>1. Unmapped.page = -1 /\ -1 \notin Pages
      BY DEF Unmapped, Pages
    <3> QED
      BY <2>1, <3>1
  <2>3. v \in VPages
    BY <1>1 DEF ImageInv, Placed
  <2>4. win[v].page # q
    BY <1>1, <1>7, <1>8, <2>2, <2>3 DEF WindowOwned
  <2> QED
    BY <1>1, <2>1, <2>4 DEF ImageInv, Mem
<1>9. Intact(win', mem', prog')
  <2>1. ASSUME NEW v \in ImagePages, ~win[v].rw, NEW o \in Offsets
        PROVE  mem'[win[v].page][o] = ImageByte(prog', (v * PageSize) + o)
    <3>1. mem[win[v].page][o] = ImageByte(prog, (v * PageSize) + o)
      BY <1>7, <2>1 DEF Intact, ImagePages
    <3>2. ImageByte(prog', (v * PageSize) + o) = ImageByte(prog, (v * PageSize) + o)
      BY <1>6, SameBytes
    <3> QED
      BY <1>8, <2>1, <3>1, <3>2
  <2>2. prog.entry \div PageSize \in ImagePages
    BY <1>7 DEF Intact, ImagePages
  <2>3. win' = win
    BY <1>1
  <2> QED
    BY <1>6, <2>1, <2>2, <2>3 DEF Intact, ImagePages
<1>10. ImageIntact'
  BY <1>9, IntactIs
<1>11. Placed'
  <2>1. ImagePages' = ImagePages
    BY <1>6 DEF ImagePages
  <2> QED
    BY <1>1, <1>6, <2>1 DEF ImageInv, Placed, VPages, StackPage
<1> QED
  BY <1>2, <1>4, <1>10, <1>11 DEF ImageInv, Mem, Pages, Offsets

LEMMA StepImageInv == ImageInv /\ [PNext]_pvars => ImageInv'
<1> SUFFICES ASSUME ImageInv, [PNext]_pvars PROVE ImageInv'
  OBVIOUS
<1>0. PInv /\ PInv'
  BY StepPInv DEF ImageInv
<1>1. CASE RunDemo
  BY <1>1, RunDemoImage
<1>2. ASSUME NEW path \in DOMAIN fs, NEW err, RunFile(path, err)
      PROVE  ImageInv'
  BY <1>2, RunFileImage
<1>3. ASSUME NEW v \in VPages, UserWrite(v)
      PROVE  ImageInv'
  BY <1>3, UserWriteImage
<1>4. CASE UserExit
  <2>1. mem' = mem /\ pc' # "el0"
    BY <1>4 DEF UserExit
  <2> QED
    BY <1>0, <2>1, IntactIs DEF ImageInv, Placed, Mem, Pages, Offsets
<1>5. CASE OtherAlloc
  <2>1. /\ Free # {} /\ mem' = [mem EXCEPT ![FirstFree] = Dirt]
        /\ UNCHANGED <<win, pc, prog, programs>>
    BY <1>5 DEF OtherAlloc, AllocPage
  <2>2. FirstFree \notin programs
    BY <1>0, <2>1, FirstFreeIsFree DEF PInv, IInv, OneOwner, Free
  <2> QED
    BY <1>0, <2>1, <2>2, ImageKept
<1>6. ASSUME UNCHANGED <<mem, win, pc, prog, programs>>
      PROVE  ImageInv'
  <2>1. ImageIntact'
    BY <1>6, IntactIs DEF ImageInv
  <2>2. Placed'
    BY <1>6 DEF ImageInv, Placed, ImagePages, VPages, StackPage
  <2> QED
    BY <1>0, <1>6, <2>1, <2>2 DEF ImageInv, Mem, Pages, Offsets
<1>7. ASSUME NEW p \in Pages, OtherFree(p)
      PROVE  ImageInv'
  BY <1>6, <1>7 DEF OtherFree, FreePage
<1>8. CASE UNCHANGED pvars
  BY <1>6, <1>8 DEF pvars, vars
<1>9. ASSUME NEW path \in Paths, RunNothing(path)
      PROVE  ImageInv'
  BY <1>8, <1>9 DEF RunNothing
<1> QED
  BY <1>1, <1>2, <1>3, <1>4, <1>5, <1>7, <1>8, <1>9 DEF PNext

\* For every file, page size and block size and every chunk that is no larger than
\* a page, and however segments overlap, wrap or share pages: a program that was
\* entered sees in its window exactly what its file says and a clear stack, what it
\* may not write stays so until it ends, and its entry point lies in its image.
THEOREM ImageIsIntact == PSpec => []ImageIntact
<1>1. ImageInv => ImageIntact
  BY DEF ImageInv
<1> QED
  BY <1>1, InitImageInv, StepImageInv, PTL DEF PSpec
=============================================================================
