-------------------------- MODULE VirtQueueProofs --------------------------
(***************************************************************************)
(* Lemmas about the virtqueue, for every queue size and every width of the *)
(* ring counters that the size divides: where a free-running counter       *)
(* points, how many entries lie between two of them, and what the          *)
(* allocation and the release of a descriptor do to the free list.         *)
(***************************************************************************)
EXTENDS VirtQueue, FiniteSetTheorems, TLAPS

----------------------------------------------------------------------------
(* Remainders *)

LEMMA ModRange ==
  ASSUME NEW a \in Int, NEW m \in Nat \ {0}
  PROVE  a % m \in 0 .. m - 1
OBVIOUS

LEMMA ModSmall ==
  ASSUME NEW m \in Nat \ {0}, NEW a \in 0 .. m - 1
  PROVE  a % m = a
OBVIOUS

LEMMA ModNext ==
  ASSUME NEW m \in Nat \ {0}, NEW a \in 0 .. m - 1
  PROVE  (a + 1) % m = IF a + 1 = m THEN 0 ELSE a + 1
OBVIOUS

LEMMA ModDifference ==
  ASSUME NEW m \in Nat \ {0}, NEW a \in 0 .. m - 1, NEW b \in 0 .. m - 1
  PROVE  (b - a) % m = IF a <= b THEN b - a ELSE b - a + m
OBVIOUS

LEMMA Quotient ==
  ASSUME NEW m \in Nat \ {0}, NEW a \in Int
  PROVE  \E d \in Int : a = (m * d) + (a % m)
<1>1. a \div m \in Int
  OBVIOUS
<1>2. a = (m * (a \div m)) + (a % m)
  OBVIOUS
<1> QED
  BY <1>1, <1>2

LEMMA ProductAtLeast ==
  ASSUME NEW m \in Nat \ {0}, NEW d \in Int, d >= 1
  PROVE  m * d >= m
<1> DEFINE e == d - 1
<1>1. e \in Nat /\ d = e + 1
  OBVIOUS
<1> HIDE DEF e
<1>2. m * d = (m * e) + m
  BY <1>1
<1>3. m * e >= 0
  BY <1>1
<1> QED
  BY <1>1, <1>2, <1>3

LEMMA RemainderUnique ==
  ASSUME NEW m \in Nat \ {0}, NEW a \in Int, NEW b \in Int,
         NEW r \in 0 .. m - 1, NEW t \in 0 .. m - 1, (m * a) + r = (m * b) + t
  PROVE  r = t
<1>1. m * (a - b) = t - r /\ m * (b - a) = r - t
  OBVIOUS
<1>2. ~(a - b >= 1) /\ ~(b - a >= 1)
  BY <1>1, ProductAtLeast
<1>3. a = b
  BY <1>2
<1> QED
  BY <1>3

LEMMA ModOfSum ==
  ASSUME NEW m \in Nat \ {0}, NEW a \in Int, NEW d \in Int
  PROVE  (a + (m * d)) % m = a % m
<1>1. PICK e \in Int : a = (m * e) + (a % m)
  BY Quotient
<1>2. PICK f \in Int : a + (m * d) = (m * f) + ((a + (m * d)) % m)
  <2>1. a + (m * d) \in Int
    OBVIOUS
  <2> QED
    BY <2>1, Quotient
<1>3. (m * (e + d)) + (a % m) = (m * f) + ((a + (m * d)) % m)
  BY <1>1, <1>2
<1>4. a % m \in 0 .. m - 1 /\ (a + (m * d)) % m \in 0 .. m - 1
  BY ModRange
<1>5. e + d \in Int
  OBVIOUS
<1> QED
  BY <1>3, <1>4, <1>5, RemainderUnique

\* Two of m consecutive numbers differ modulo m.
LEMMA ModDistinct ==
  ASSUME NEW m \in Nat \ {0}, NEW a \in Int, NEW i \in 0 .. m - 1, NEW j \in 0 .. m - 1,
         (a + i) % m = (a + j) % m
  PROVE  i = j
<1>0. a + i \in Int /\ a + j \in Int
  OBVIOUS
<1>1. PICK e \in Int : a + i = (m * e) + ((a + i) % m)
  BY <1>0, Quotient
<1>2. PICK f \in Int : a + j = (m * f) + ((a + j) % m)
  BY <1>0, Quotient
<1>3. (a + i) % m \in 0 .. m - 1
  BY <1>0, ModRange
<1>4. (m * e) + j = (m * f) + i
  BY <1>1, <1>2, <1>3
<1> QED
  BY <1>4, RemainderUnique

----------------------------------------------------------------------------
(* Ring counters *)

LEMMA QueueFacts ==
  /\ Size \in Nat \ {0} /\ IdxMod \in Nat \ {0} /\ IdxMod > Size /\ IdxMod % Size = 0
BY QueueAssumption

\* A counter that wraps points at the slot it would point at without.
LEMMA WrapSlot ==
  ASSUME NEW a \in Indices, NEW k \in Int
  PROVE  /\ (a + 1) % IdxMod \in Indices
         /\ (((a + 1) % IdxMod) + k) % Size = (a + (k + 1)) % Size
<1>1. (a + 1) % IdxMod = IF a + 1 = IdxMod THEN 0 ELSE a + 1
  BY QueueFacts, ModNext DEF Indices
<1>2. CASE a + 1 = IdxMod
  <2>1. PICK d \in Int : IdxMod = (Size * d) + (IdxMod % Size)
    BY QueueFacts, IdxMod \in Int, Quotient
  <2>2. IdxMod = Size * d
    BY <2>1, QueueFacts
  <2>3. (k + (Size * d)) % Size = k % Size
    BY QueueFacts, ModOfSum
  <2>4. a + (k + 1) = k + (Size * d)
    BY <1>2, <2>2 DEF Indices
  <2>5. ((a + 1) % IdxMod) + k = k
    BY <1>1, <1>2
  <2> QED
    BY <1>1, <1>2, <2>3, <2>4, <2>5, QueueFacts DEF Indices
<1>3. CASE a + 1 # IdxMod
  <2>1. ((a + 1) % IdxMod) + k = a + (k + 1)
    BY <1>1, <1>3 DEF Indices
  <2> QED
    BY <1>1, <1>3, <2>1, QueueFacts DEF Indices
<1> QED
  BY <1>2, <1>3

\* The number of entries between two counters.
Between(a, b) == (b - a) % IdxMod

LEMMA BetweenType ==
  ASSUME NEW a \in Indices, NEW b \in Indices
  PROVE  Between(a, b) \in 0 .. IdxMod - 1 /\ (Between(a, b) = 0 <=> a = b)
BY QueueFacts, ModDifference DEF Between, Indices

LEMMA BetweenGrows ==
  ASSUME NEW a \in Indices, NEW b \in Indices, Between(a, b) < IdxMod - 1
  PROVE  Between(a, (b + 1) % IdxMod) = Between(a, b) + 1
<1>1. (b + 1) % IdxMod = IF b + 1 = IdxMod THEN 0 ELSE b + 1
  BY QueueFacts, ModNext DEF Indices
<1>2. (b + 1) % IdxMod \in Indices
  BY <1>1, QueueFacts DEF Indices
<1>3. Between(a, b) = IF a <= b THEN b - a ELSE b - a + IdxMod
  BY QueueFacts, ModDifference DEF Between, Indices
<1>4. \A c \in Indices : Between(a, c) = IF a <= c THEN c - a ELSE c - a + IdxMod
  BY QueueFacts, ModDifference DEF Between, Indices
<1> QED
  BY <1>1, <1>2, <1>3, <1>4, QueueFacts DEF Indices

LEMMA BetweenShrinks ==
  ASSUME NEW a \in Indices, NEW b \in Indices, Between(a, b) > 0
  PROVE  Between((a + 1) % IdxMod, b) = Between(a, b) - 1
<1>1. (a + 1) % IdxMod = IF a + 1 = IdxMod THEN 0 ELSE a + 1
  BY QueueFacts, ModNext DEF Indices
<1>2. (a + 1) % IdxMod \in Indices
  BY <1>1, QueueFacts DEF Indices
<1>3. \A c \in Indices : Between(c, b) = IF c <= b THEN b - c ELSE b - c + IdxMod
  BY QueueFacts, ModDifference DEF Between, Indices
<1> QED
  BY <1>1, <1>2, <1>3, QueueFacts DEF Indices

\* The entry behind the last of them.
LEMMA BetweenSlot ==
  ASSUME NEW a \in Indices, NEW b \in Indices
  PROVE  b % Size = (a + Between(a, b)) % Size
<1>1. Between(a, b) = IF a <= b THEN b - a ELSE b - a + IdxMod
  BY QueueFacts, ModDifference DEF Between, Indices
<1>2. PICK d \in Int : IdxMod = (Size * d) + (IdxMod % Size)
  BY QueueFacts, IdxMod \in Int, Quotient
<1>3. IdxMod = Size * d
  BY <1>2, QueueFacts
<1>4. (b + (Size * d)) % Size = b % Size
  BY QueueFacts, ModOfSum, b \in Int DEF Indices
<1>5. a + Between(a, b) = b \/ a + Between(a, b) = b + (Size * d)
  BY <1>1, <1>3, QueueFacts DEF Indices
<1> QED
  BY <1>4, <1>5

----------------------------------------------------------------------------
(* The free list *)

LEMMA DescsFinite == IsFiniteSet(Descs) /\ Cardinality(Descs) = Size
<1>1. IsFiniteSet(0 .. Size - 1) /\ Cardinality(0 .. Size - 1) = Size - 1 - 0 + 1
  BY QueueFacts, FS_Interval, 0 \in Int, Size - 1 \in Int, ~(0 > Size - 1)
<1> QED
  BY <1>1, QueueFacts DEF Descs

\* num_free is the number of free descriptors.
LEMMA FreeListCounts ==
  ASSUME NEW p \in Queues, NEW S \in SUBSET Descs, FreeListIs(p, S)
  PROVE  IsFiniteSet(S) /\ Cardinality(S) = p.num_free
<1>1. IsFiniteSet(S)
  BY DescsFinite, FS_Subset
<1>2. PICK w \in Bijection(1 .. p.num_free, S) : TRUE
  BY DEF FreeListIs
<1>3. ExistsBijection(1 .. p.num_free, S)
  BY <1>2 DEF ExistsBijection
<1>4. p.num_free \in Nat
  BY QueueFacts DEF Queues
<1>5. IsFiniteSet(1 .. p.num_free) /\ Cardinality(1 .. p.num_free) = p.num_free
  BY <1>4, FS_Interval
<1> QED
  BY <1>1, <1>3, <1>5, FS_Bijection

\* The list depends on the next fields of the free descriptors only.
LEMMA SameFreeList ==
  ASSUME NEW p \in Queues, NEW r, NEW S, FreeListIs(p, S),
         r.num_free = p.num_free, r.free_head = p.free_head,
         \A e \in S : r.next[e] = p.next[e]
  PROVE  FreeListIs(r, S)
<1>1. PICK w \in [1 .. p.num_free -> S] : IsFreeList(p, w) /\ w \in Bijection(1 .. p.num_free, S)
  BY DEF FreeListIs
<1>2. IsFreeList(r, w)
  <2>1. ASSUME NEW k \in 1 .. p.num_free - 1  PROVE w[k] \in S
    BY QueueFacts DEF Queues
  <2> QED
    BY <1>1, <2>1 DEF IsFreeList
<1> QED
  BY <1>1, <1>2 DEF FreeListIs

\* virtqueue_alloc_desc takes a free descriptor off the list.
LEMMA AllocFreeList ==
  ASSUME NEW p \in Queues, NEW S \in SUBSET Descs, FreeListIs(p, S), CanAlloc(p)
  PROVE  /\ AfterAlloc(p) \in Queues
         /\ AfterAlloc(p).num_free = p.num_free - 1
         /\ Allocated(p) \in S
         /\ FreeListIs(AfterAlloc(p), S \ {Allocated(p)})
<1> DEFINE n == p.num_free
           r == AfterAlloc(p)
           h == p.free_head
<1>1. /\ n \in 1 .. Size /\ h \in Descs /\ p.next \in [Descs -> Descs]
      /\ Size \in Nat
  BY QueueFacts DEF Queues, CanAlloc
<1>2. r \in Queues /\ r.num_free = n - 1 /\ r.free_head = p.next[h]
      /\ r.next = [p.next EXCEPT ![h] = 0]
  <2>1. /\ r = [p EXCEPT !.free_head = p.next[h], !.num_free = n - 1,
                        !.next = [p.next EXCEPT ![h] = 0]]
    BY DEF AfterAlloc, Queues
  <2>2. n - 1 \in 0 .. Size /\ p.next[h] \in Descs /\ [p.next EXCEPT ![h] = 0] \in [Descs -> Descs]
    <3>1. 0 \in Descs
      BY QueueFacts DEF Descs
    <3>2. n - 1 \in 0 .. Size
      BY <1>1
    <3> QED
      BY <1>1, <3>1, <3>2
  <2> HIDE DEF r, n, h
  <2> QED
    BY <2>1, <2>2 DEF Queues
<1>3. PICK w \in [1 .. n -> S] : IsFreeList(p, w) /\ w \in Bijection(1 .. n, S)
  BY DEF FreeListIs
<1>4. /\ w[1] = h
      /\ \A k \in 1 .. n - 1 : p.next[w[k]] = w[k + 1]
      /\ \A i, j \in 1 .. n : w[i] = w[j] => i = j
      /\ \A e \in S : \E i \in 1 .. n : w[i] = e
  BY <1>1, <1>3 DEF IsFreeList, Bijection, Injection, Surjection, IsInjective
<1>5. h \in S
  BY <1>1, <1>4
<1> DEFINE v == [k \in 1 .. n - 1 |-> w[k + 1]]
<1>6. v \in [1 .. n - 1 -> S \ {h}]
  <2>1. ASSUME NEW k \in 1 .. n - 1  PROVE w[k + 1] \in S \ {h}
    BY <1>1, <1>4
  <2> QED
    BY <2>1
<1>7. v \in Bijection(1 .. n - 1, S \ {h})
  <2>1. ASSUME NEW i \in 1 .. n - 1, NEW j \in 1 .. n - 1, v[i] = v[j]  PROVE i = j
    BY <1>1, <1>4, <2>1
  <2>2. ASSUME NEW e \in S \ {h}  PROVE \E i \in 1 .. n - 1 : v[i] = e
    <3>1. PICK i \in 1 .. n : w[i] = e
      BY <1>4
    <3>2. i # 1 /\ i - 1 \in 1 .. n - 1
      BY <1>1, <1>4, <3>1
    <3>3. v[i - 1] = e
      BY <1>1, <3>1, <3>2
    <3> QED
      BY <3>2, <3>3
  <2> HIDE DEF v
  <2> QED
    BY <1>6, <2>1, <2>2 DEF Bijection, Injection, Surjection, IsInjective
<1>8. IsFreeList(r, v)
  <2>1. r.num_free > 0 => v[1] = r.free_head
    BY <1>1, <1>2, <1>4
  <2>2. ASSUME NEW k \in 1 .. r.num_free - 1  PROVE r.next[v[k]] = v[k + 1]
    <3>1. k \in 1 .. n - 1 /\ k + 1 \in 1 .. n - 1 /\ k + 1 \in 1 .. n
      BY <1>1, <1>2
    <3>2. v[k] = w[k + 1] /\ v[k + 1] = w[(k + 1) + 1] /\ w[k + 1] # h /\ w[k + 1] \in Descs
      BY <1>1, <1>4, <3>1
    <3> QED
      BY <1>1, <1>2, <1>4, <3>1, <3>2
  <2> HIDE DEF v, r
  <2> QED
    BY <2>1, <2>2 DEF IsFreeList
<1> HIDE DEF v
<1>9. FreeListIs(r, S \ {h})
  BY <1>2, <1>6, <1>7, <1>8 DEF FreeListIs
<1> QED
  BY <1>2, <1>5, <1>9 DEF Allocated

\* virtqueue_free_desc puts a descriptor that is not free in front of the list.
LEMMA FreeFreeList ==
  ASSUME NEW p \in Queues, NEW S \in SUBSET Descs, FreeListIs(p, S), NEW d \in Descs \ S
  PROVE  /\ AfterFree(p, d) \in Queues
         /\ AfterFree(p, d).num_free = p.num_free + 1
         /\ FreeListIs(AfterFree(p, d), S \cup {d})
<1> DEFINE n == p.num_free
           r == AfterFree(p, d)
<1>1. /\ n \in 0 .. Size /\ p.free_head \in Descs /\ p.next \in [Descs -> Descs]
      /\ Size \in Nat
  BY QueueFacts DEF Queues
<1>2. n + 1 <= Size
  <2>1. IsFiniteSet(S) /\ Cardinality(S) = n
    BY FreeListCounts
  <2>2. IsFiniteSet(S \cup {d}) /\ Cardinality(S \cup {d}) = n + 1
    BY <2>1, FS_AddElement
  <2>3. Cardinality(S \cup {d}) <= Cardinality(Descs)
    BY DescsFinite, FS_Subset, S \cup {d} \in SUBSET Descs
  <2> QED
    BY <2>2, <2>3, DescsFinite
<1>3. r \in Queues /\ r.num_free = n + 1 /\ r.free_head = d
      /\ r.next = [p.next EXCEPT ![d] = p.free_head]
  <2>1. r = [p EXCEPT !.next = [p.next EXCEPT ![d] = p.free_head], !.free_head = d, !.num_free = n + 1]
    BY DEF AfterFree, Queues
  <2>2. n + 1 \in 0 .. Size /\ [p.next EXCEPT ![d] = p.free_head] \in [Descs -> Descs]
    BY <1>1, <1>2
  <2> HIDE DEF r, n
  <2> QED
    BY <2>1, <2>2 DEF Queues
<1>4. PICK w \in [1 .. n -> S] : IsFreeList(p, w) /\ w \in Bijection(1 .. n, S)
  BY DEF FreeListIs
<1>5. /\ n > 0 => w[1] = p.free_head
      /\ \A k \in 1 .. n - 1 : p.next[w[k]] = w[k + 1]
      /\ \A i, j \in 1 .. n : w[i] = w[j] => i = j
      /\ \A e \in S : \E i \in 1 .. n : w[i] = e
  BY <1>1, <1>4 DEF IsFreeList, Bijection, Injection, Surjection, IsInjective
<1> DEFINE v == [k \in 1 .. n + 1 |-> IF k = 1 THEN d ELSE w[k - 1]]
<1>6. v \in [1 .. n + 1 -> S \cup {d}]
  <2>1. ASSUME NEW k \in 1 .. n + 1, k # 1  PROVE w[k - 1] \in S
    BY <1>1, <2>1
  <2> QED
    BY <2>1
<1>7. v \in Bijection(1 .. n + 1, S \cup {d})
  <2>1. ASSUME NEW i \in 1 .. n + 1, NEW j \in 1 .. n + 1, v[i] = v[j]  PROVE i = j
    <3>1. ASSUME NEW k \in 1 .. n + 1, k # 1  PROVE v[k] \in S /\ v[k] = w[k - 1] /\ k - 1 \in 1 .. n
      <4>1. k - 1 \in 1 .. n
        BY <1>1, <3>1
      <4>2. v[k] = w[k - 1]
        BY <3>1
      <4> QED
        BY <4>1, <4>2
    <3>2. v[1] = d
      BY <1>1
    <3> HIDE DEF v
    <3>3. CASE i # 1 /\ j # 1
      <4>1. i - 1 \in 1 .. n /\ j - 1 \in 1 .. n /\ w[i - 1] = w[j - 1]
        BY <2>1, <3>1, <3>3
      <4>2. i - 1 = j - 1
        BY <1>5, <4>1
      <4> QED
        BY <1>1, <4>2
    <3> QED
      BY <2>1, <3>1, <3>2, <3>3
  <2>2. ASSUME NEW e \in S \cup {d}  PROVE \E i \in 1 .. n + 1 : v[i] = e
    <3>1. CASE e = d
      <4>1. 1 \in 1 .. n + 1
        BY <1>1
      <4> QED
        BY <3>1, <4>1
    <3>2. CASE e \in S
      <4>1. PICK i \in 1 .. n : w[i] = e
        BY <1>5, <3>2
      <4>2. i + 1 \in 1 .. n + 1 /\ v[i + 1] = e
        BY <1>1, <4>1
      <4> QED
        BY <4>2
    <3> QED
      BY <3>1, <3>2
  <2> HIDE DEF v
  <2> QED
    BY <1>6, <2>1, <2>2 DEF Bijection, Injection, Surjection, IsInjective
<1>8. IsFreeList(r, v)
  <2>1. r.num_free > 0 => v[1] = r.free_head
    BY <1>1, <1>3
  <2>2. ASSUME NEW k \in 1 .. r.num_free - 1  PROVE r.next[v[k]] = v[k + 1]
    <3>1. k \in 1 .. n /\ k + 1 \in 1 .. n + 1 /\ v[k + 1] = w[k]
      BY <1>1, <1>3
    <3>2. CASE k = 1
      BY <1>1, <1>3, <1>5, <3>1, <3>2
    <3>3. CASE k # 1
      <4>1. k - 1 \in 1 .. n - 1 /\ v[k] = w[k - 1] /\ w[k - 1] \in S
        BY <1>1, <3>1, <3>3
      <4>2. p.next[w[k - 1]] = w[k]
        BY <1>1, <1>5, <3>1, <4>1
      <4> QED
        BY <1>1, <1>3, <3>1, <4>1, <4>2
    <3> QED
      BY <3>2, <3>3
  <2> HIDE DEF v, r
  <2> QED
    BY <2>1, <2>2 DEF IsFreeList
<1> HIDE DEF v
<1> QED
  BY <1>3, <1>6, <1>7, <1>8 DEF FreeListIs

----------------------------------------------------------------------------
(* The rings *)

LEMMA ZeroDesc == 0 \in Descs /\ 0 \in Indices
BY QueueFacts DEF Descs, Indices

LEMMA UpdateType ==
  ASSUME NEW D, NEW R, NEW g \in [D -> R], NEW i, NEW e \in R
  PROVE  [g EXCEPT ![i] = e] \in [D -> R]
OBVIOUS

\* virtqueue_submit writes the available ring and its counter only.
LEMMA SubmitFields ==
  ASSUME NEW p \in Queues, NEW h \in Descs
  PROVE  LET r == AfterSubmit(p, h)
         IN  /\ r \in Queues
             /\ r.next = p.next /\ r.num_free = p.num_free /\ r.free_head = p.free_head
             /\ r.last_used = p.last_used /\ r.used_idx = p.used_idx /\ r.used = p.used
             /\ r.avail = [p.avail EXCEPT ![p.avail_idx % Size] = h]
             /\ r.avail_idx = (p.avail_idx + 1) % IdxMod
<1> DEFINE i == p.avail_idx % Size
           n == (p.avail_idx + 1) % IdxMod
           a == [p.avail EXCEPT ![i] = h]
<1>1. AfterSubmit(p, h) = [p EXCEPT !.avail = a, !.avail_idx = n]
  BY DEF AfterSubmit, Queues
<1>2. p.avail_idx \in Indices /\ p.avail \in [Descs -> Descs]
  BY DEF Queues
<1>3. n \in Indices
  BY <1>2, WrapSlot, 0 \in Int
<1>4. a \in [Descs -> Descs]
  BY <1>2, UpdateType
<1> HIDE DEF a, n
<1>5. /\ AfterSubmit(p, h) \in Queues
      /\ AfterSubmit(p, h).avail = a /\ AfterSubmit(p, h).avail_idx = n
  BY <1>1, <1>3, <1>4 DEF Queues
<1>6. LET r == AfterSubmit(p, h)
      IN  /\ r.next = p.next /\ r.num_free = p.num_free /\ r.free_head = p.free_head
          /\ r.last_used = p.last_used /\ r.used_idx = p.used_idx /\ r.used = p.used
  BY <1>1 DEF Queues
<1> QED
  BY <1>5, <1>6 DEF a, n

\* The device writes the used ring and its counter only.
LEMMA DeviceUseFields ==
  ASSUME NEW p \in Queues, NEW h \in Descs, NEW len \in {0, 1}
  PROVE  LET r == AfterDeviceUse(p, h, len)
         IN  /\ r \in Queues
             /\ r.next = p.next /\ r.num_free = p.num_free /\ r.free_head = p.free_head
             /\ r.last_used = p.last_used /\ r.avail = p.avail /\ r.avail_idx = p.avail_idx
             /\ r.used = [p.used EXCEPT ![p.used_idx % Size] = [id |-> h, len |-> len]]
             /\ r.used_idx = (p.used_idx + 1) % IdxMod
<1> DEFINE i == p.used_idx % Size
           n == (p.used_idx + 1) % IdxMod
           e == [id |-> h, len |-> len]
           u == [p.used EXCEPT ![i] = e]
<1>1. AfterDeviceUse(p, h, len) = [p EXCEPT !.used = u, !.used_idx = n]
  BY DEF AfterDeviceUse, Queues
<1>2. p.used_idx \in Indices /\ p.used \in [Descs -> UsedElems]
  BY DEF Queues
<1>3. n \in Indices
  BY <1>2, WrapSlot, 0 \in Int
<1>4. e \in UsedElems
  BY DEF UsedElems
<1>5. u \in [Descs -> UsedElems]
  <2> HIDE DEF e
  <2> QED
    BY <1>2, <1>4, UpdateType
<1> HIDE DEF u, n
<1>6. /\ AfterDeviceUse(p, h, len) \in Queues
      /\ AfterDeviceUse(p, h, len).used = u /\ AfterDeviceUse(p, h, len).used_idx = n
  BY <1>1, <1>3, <1>5 DEF Queues
<1>7. LET r == AfterDeviceUse(p, h, len)
      IN  /\ r.next = p.next /\ r.num_free = p.num_free /\ r.free_head = p.free_head
          /\ r.last_used = p.last_used /\ r.avail = p.avail /\ r.avail_idx = p.avail_idx
  BY <1>1 DEF Queues
<1> QED
  BY <1>6, <1>7 DEF u, n

\* virtqueue_pop_used moves last_used_idx only.
LEMMA PopFields ==
  ASSUME NEW p \in Queues, NEW n \in Indices
  PROVE  LET r == [p EXCEPT !.last_used = n]
         IN  /\ r \in Queues
             /\ r.next = p.next /\ r.num_free = p.num_free /\ r.free_head = p.free_head
             /\ r.last_used = n /\ r.avail = p.avail /\ r.avail_idx = p.avail_idx
             /\ r.used = p.used /\ r.used_idx = p.used_idx
BY DEF Queues

\* Where a counter points is a slot of the ring.
LEMMA SlotType ==
  ASSUME NEW a \in Indices, NEW k \in Nat
  PROVE  (a + k) % Size \in Descs /\ a % Size \in Descs
<1>1. a + k \in Int /\ a \in Int
  BY DEF Indices
<1> QED
  BY <1>1, QueueFacts, ModRange DEF Descs

\* There is nothing to read where the counters are equal, and one entry where the
\* device's is one ahead.
LEMMA NoneUnread ==
  ASSUME NEW p, p.last_used \in Indices, p.used_idx = p.last_used
  PROVE  Pending(p) = 0
<1>1. Pending(p) = IF p.last_used <= p.used_idx THEN p.used_idx - p.last_used
                   ELSE p.used_idx - p.last_used + IdxMod
  BY QueueFacts, ModDifference DEF Pending, Indices
<1> QED
  BY <1>1, QueueFacts DEF Indices

LEMMA OneUnread ==
  ASSUME NEW p, p.last_used \in Indices, p.used_idx \in Indices,
         p.used_idx = (p.last_used + 1) % IdxMod
  PROVE  Pending(p) = 1
<1>1. p.used_idx = IF p.last_used + 1 = IdxMod THEN 0 ELSE p.last_used + 1
  BY QueueFacts, ModNext DEF Indices
<1>2. Pending(p) = IF p.last_used <= p.used_idx THEN p.used_idx - p.last_used
                   ELSE p.used_idx - p.last_used + IdxMod
  BY QueueFacts, ModDifference DEF Pending, Indices
<1> QED
  BY <1>1, <1>2, QueueFacts DEF Indices

\* virtqueue_init chains all descriptors.
LEMMA InitFreeList == QueueInit \in Queues /\ FreeListIs(QueueInit, Descs)
<1>1. QueueInit \in Queues
  BY QueueFacts, ZeroDesc DEF QueueInit, Queues, Descs, UsedElems
<1> DEFINE w == [k \in 1 .. Size |-> k - 1]
<1>2. w \in [1 .. Size -> Descs]
  BY QueueFacts DEF Descs
<1>3. w \in Bijection(1 .. Size, Descs)
  <2>1. ASSUME NEW i \in 1 .. Size, NEW j \in 1 .. Size, w[i] = w[j]  PROVE i = j
    BY <2>1, QueueFacts
  <2>2. ASSUME NEW e \in Descs  PROVE \E i \in 1 .. Size : w[i] = e
    <3>1. e + 1 \in 1 .. Size /\ w[e + 1] = e
      BY QueueFacts DEF Descs
    <3> QED
      BY <3>1
  <2> HIDE DEF w
  <2> QED
    BY <1>2, <2>1, <2>2 DEF Bijection, Injection, Surjection, IsInjective
<1>4. QueueInit.num_free = Size /\ QueueInit.free_head = 0
      /\ QueueInit.next = [d \in Descs |-> IF d = Size - 1 THEN 0 ELSE d + 1]
  BY DEF QueueInit
<1>5. IsFreeList(QueueInit, w)
  <2>1. w[1] = 0
    BY QueueFacts
  <2>2. ASSUME NEW k \in 1 .. Size - 1  PROVE QueueInit.next[w[k]] = w[k + 1]
    <3>1. w[k] = k - 1 /\ w[k + 1] = k /\ k - 1 \in Descs /\ k - 1 # Size - 1
      BY QueueFacts DEF Descs
    <3> QED
      BY <1>4, <3>1, QueueFacts
  <2> HIDE DEF w
  <2> QED
    BY <1>4, <2>1, <2>2 DEF IsFreeList
<1> HIDE DEF w
<1> QED
  BY <1>1, <1>2, <1>3, <1>4, <1>5 DEF FreeListIs
============================================================================
