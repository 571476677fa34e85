--------------------------- MODULE DesktopProofs ---------------------------
(***************************************************************************)
(* Proofs about the desktop of module Desktop: for every number of windows *)
(* and instances, every set of applications and of modes, every bound on   *)
(* ids and on the depth of nested desktops.                                *)
(*                                                                         *)
(* The handlers are operators on the record of C statics, called one from  *)
(* the other; so are the parts of the invariant, and there is one lemma    *)
(* for what each handler does to them.  All but the focus is said of the   *)
(* set of windows, whatever their order in the array.                      *)
(***************************************************************************)
EXTENDS Desktop, FiniteSetTheorems, WellFoundedInduction, TLAPS

Sinks == SUBSET {"serial", "graphics"}
Win == [id : Nat \ {0}, owner : Slots \cup {0}, alert : BOOLEAN, min : BOOLEAN, left : BOOLEAN]
Inst == [app : Apps \cup {"none"}, count : Nat, data : {0} \cup Slots]

\* The type of the record d.
Desk ==
  [initialized : BOOLEAN, wins : Seq(Win), focus : Nat \ {0}, modal : Nat, drag : Nat,
   button : BOOLEAN, launcher : BOOLEAN, active : BOOLEAN,
   saved : [out : Sinks, keys : BOOLEAN], inst : [Slots -> Inst],
   states : [Apps -> SUBSET Slots], orphans : SUBSET Slots]

SetOf(s) == {s[i] : i \in 1 .. Len(s)}
WinSet(x) == SetOf(x.wins)
Ids(W, q) == {w.id : w \in {v \in W : v.owner = q}}

\* The array: no more windows than it holds, their ids distinct and bounded, and
\* the focus on a visible one when there is one.
DistinctIds(s) == \A i, j \in 1 .. Len(s) : s[i].id = s[j].id => i = j
BoundedIds(s) == \E b \in Nat : \A i \in 1 .. Len(s) : s[i].id <= b
Visible(s) == \E i \in 1 .. Len(s) : ~s[i].min

InArray(s, focus) ==
  /\ Len(s) <= MaxWindows /\ focus <= MaxWindows
  /\ DistinctIds(s) /\ BoundedIds(s)
  /\ Visible(s) => focus <= Len(s) /\ ~s[focus].min

\* The alert: the modal window, with no owner and visible.
Alerted(W, modal) ==
  /\ \A w \in W : w.alert <=> w.id = modal
  /\ \A w \in W : w.alert => w.owner = 0
  /\ modal # 0 => \E w \in W : w.alert /\ ~w.min

\* What is dragged: a visible window, and only without an alert.
Dragged(W, drag, modal) ==
  drag # 0 => modal = 0 /\ \E w \in W : w.id = drag /\ ~w.min

\* The registry.  Slot p, if it is not 0, is that of an instance that is being
\* started and has no window yet.
Counted(W, inst, orphans, p) ==
  /\ \A w \in W : w.owner # 0 => inst[w.owner].app # "none" /\ w.owner \notin orphans /\ w.owner # p
  /\ \A q \in Slots : inst[q].app = "none" => inst[q] = Idle
  /\ \A q \in Slots : inst[q].app # "none" /\ q # p => inst[q].count > 0
  /\ \A q \in Slots : inst[q].count <= MaxWindows
  /\ \A q \in Slots : inst[q].app # "none" /\ q \notin orphans /\ q # p
                        => inst[q].count = Cardinality(Ids(W, q))
  /\ \A q \in orphans : inst[q].app # "none" /\ q # p
  /\ p # 0 => p \in Slots /\ inst[p].app # "none" /\ inst[p].count = 0

\* The applications' arrays of states.
Private(inst, states) ==
  /\ \A q \in Slots : inst[q].app # "none" => inst[q].data \in states[inst[q].app]
  /\ \A a \in Apps : \A k \in states[a] : \E q \in Slots : inst[q].app = a /\ inst[q].data = k
  /\ \A q, r \in Slots : /\ inst[q].app # "none" /\ inst[q].app = inst[r].app
                         /\ inst[q].data = inst[r].data
                         => q = r

Sound(x, p) ==
  /\ x \in Desk
  /\ InArray(x.wins, x.focus)
  /\ Alerted(WinSet(x), x.modal)
  /\ Dragged(WinSet(x), x.drag, x.modal)
  /\ Counted(WinSet(x), x.inst, x.orphans, p)

(***************************************************************************)
(* The session.  A Terminal whose command runs a desktop has lost its      *)
(* window to desktop_init, so nothing can close it; and until a desktop    *)
(* has been run inside the desktop there is one desktop_run on the stack,  *)
(* which is active and keeps the modes of the prompt, or has restored them.*)
(***************************************************************************)
Captured ==
  con.capture # 0 =>
    /\ depth > 1
    /\ \E q \in d.orphans : d.inst[q].app = "terminal" /\ d.inst[q].data = con.capture

Session ==
  ~entry.nested =>
    /\ depth <= 1
    /\ (depth = 0 \/ leaving) => con.out = entry.out /\ con.keys = entry.keys
    /\ (depth = 1 /\ ~leaving) =>
         d.active /\ d.saved.out = entry.out /\ d.saved.keys = entry.keys

IInv ==
  /\ Sound(d, 0) /\ Private(d.inst, d.states)
  /\ d.drag # 0 => d.button
  /\ \A w \in WinSet(d) : w.id <= MaxId
  /\ con \in [out : Sinks, keys : BOOLEAN, capture : {0} \cup Slots]
  /\ entry \in [out : Sinks, keys : BOOLEAN, nested : BOOLEAN]
  /\ depth \in 0 .. MaxDepth /\ leaving \in BOOLEAN
  /\ depth > 0 => d.initialized
  /\ depth = 0 => ~leaving
  /\ Captured /\ Session

----------------------------------------------------------------------------
(* Minima, maxima and sequences *)

LEMMA LeastElement ==
  ASSUME NEW S \in SUBSET Nat, S # {}
  PROVE  \E i \in S : \A j \in S : i =< j
<1> DEFINE Less == OpToRel(<, Nat)
<1>1. IsWellFoundedOn(Less, Nat)
  BY NatLessThanWellFounded
<1>2. \A i, j \in Nat : <<j, i>> \in Less <=> j < i
  BY DEF OpToRel
<1> HIDE DEF Less
<1>3. PICK i \in S : \A j \in S : ~ (<<j, i>> \in Less)
  BY <1>1, WFMin
<1>4. ASSUME NEW j \in S  PROVE i =< j
  <2>1. i \in Nat /\ j \in Nat
    OBVIOUS
  <2>2. ~ (j < i)
    BY <1>2, <1>3, <2>1
  <2> QED
    BY <2>1, <2>2
<1> QED
  BY <1>3, <1>4

LEMMA MinIsLeast ==
  ASSUME NEW S \in SUBSET Nat, S # {}
  PROVE  Min(S) \in S /\ \A j \in S : Min(S) <= j
BY LeastElement DEF Min

LEMMA MaxIsGreatest ==
  ASSUME NEW b \in Nat, NEW S \in SUBSET Nat, S # {}, \A x \in S : x <= b
  PROVE  Max(S) \in S /\ \A j \in S : Max(S) >= j
<1> DEFINE T == {b - x : x \in S}
<1>1. T \in SUBSET Nat /\ T # {}
  <2>1. ASSUME NEW x \in S  PROVE b - x \in Nat
    <3>1. x \in Nat /\ x <= b
      OBVIOUS
    <3> QED
      BY <3>1
  <2>2. T \in SUBSET Nat
    BY <2>1
  <2>3. T # {}
    OBVIOUS
  <2> QED
    BY <2>2, <2>3
<1>2. \E t \in T : \A u \in T : t =< u
  <2> HIDE DEF T
  <2> QED
    BY <1>1, LeastElement
<1>3. PICK x \in S : \A u \in T : b - x =< u
  BY <1>2
<1>4. \A y \in S : x >= y
  <2> SUFFICES ASSUME NEW y \in S PROVE x >= y
    OBVIOUS
  <2>1. b - x =< b - y
    BY <1>3
  <2>2. x \in Nat /\ y \in Nat
    OBVIOUS
  <2> QED
    BY <2>1, <2>2
<1> QED
  BY <1>4 DEF Max

LEMMA RemoveAtFacts ==
  ASSUME NEW S, NEW s \in Seq(S), NEW i \in 1 .. Len(s)
  PROVE  /\ RemoveAt(s, i) \in Seq(S)
         /\ Len(RemoveAt(s, i)) = Len(s) - 1
         /\ \A j \in 1 .. Len(s) - 1 :
              RemoveAt(s, i)[j] = IF j < i THEN s[j] ELSE s[j + 1]
<1> DEFINE a == SubSeq(s, 1, i - 1)
           b == SubSeq(s, i + 1, Len(s))
<1>0. Len(s) \in Nat /\ i \in Nat /\ 1 <= i /\ i <= Len(s)
  OBVIOUS
<1>1. /\ a \in Seq(S) /\ Len(a) = i - 1
      /\ \A j \in 1 .. i - 1 : a[j] = s[j]
  BY <1>0
<1>2. /\ b \in Seq(S) /\ Len(b) = Len(s) - i
      /\ \A j \in 1 .. Len(s) - i : b[j] = s[i + j]
  BY <1>0
<1>3. RemoveAt(s, i) = a \o b
  BY DEF RemoveAt
<1> HIDE DEF a, b
<1>4. a \o b \in Seq(S) /\ Len(a \o b) = Len(s) - 1
  <2>1. a \in Seq(S) /\ b \in Seq(S)
    BY <1>1, <1>2
  <2>2. a \o b \in Seq(S)
    BY <2>1
  <2>3. Len(a \o b) = Len(a) + Len(b)
    BY <2>1
  <2> QED
    BY <1>0, <1>1, <1>2, <2>2, <2>3
<1>5. ASSUME NEW j \in 1 .. Len(s) - 1
      PROVE  (a \o b)[j] = IF j < i THEN s[j] ELSE s[j + 1]
  <2>1. CASE j < i
    <3>1. (a \o b)[j] = a[j]
      BY <1>0, <1>1, <1>2, <2>1
    <3> QED
      BY <1>0, <1>1, <2>1, <3>1
  <2>2. CASE ~(j < i)
    <3>1. (a \o b)[j] = b[j - (i - 1)]
      BY <1>0, <1>1, <1>2, <2>2
    <3>2. j - (i - 1) \in 1 .. Len(s) - i /\ i + (j - (i - 1)) = j + 1
      BY <1>0, <2>2
    <3> QED
      BY <1>2, <2>2, <3>1, <3>2
  <2> QED
    BY <2>1, <2>2
<1> QED
  BY <1>3, <1>4, <1>5

----------------------------------------------------------------------------
(* Constants and types *)

LEMMA Constants ==
  /\ MaxWindows \in Nat /\ MaxWindows >= 2 /\ MaxInstances \in Nat \ {0}
  /\ MaxId \in Nat /\ MaxId >= 2 /\ MaxDepth \in Nat \ {0}
  /\ "editor" \in Apps /\ "none" \notin Apps /\ Slots \subseteq Nat \ {0}
BY DesktopAssumption DEF Slots

LEMMA IdleType == Idle \in Inst
BY DEF Idle, Inst

LEMMA WinFields ==
  ASSUME NEW w \in Win
  PROVE  /\ w.id \in Nat \ {0} /\ w.owner \in Slots \cup {0} /\ w.alert \in BOOLEAN
         /\ w.min \in BOOLEAN /\ w.left \in BOOLEAN
BY DEF Win

LEMMA DeskFields ==
  ASSUME NEW x \in Desk
  PROVE  /\ x.initialized \in BOOLEAN /\ x.wins \in Seq(Win) /\ x.focus \in Nat \ {0}
         /\ x.modal \in Nat /\ x.drag \in Nat /\ x.button \in BOOLEAN
         /\ x.launcher \in BOOLEAN /\ x.active \in BOOLEAN
         /\ x.saved \in [out : Sinks, keys : BOOLEAN]
         /\ x.inst \in [Slots -> Inst] /\ x.states \in [Apps -> SUBSET Slots]
         /\ x.orphans \in SUBSET Slots
BY DEF Desk

LEMMA DeskLen ==
  ASSUME NEW x \in Desk
  PROVE  /\ Len(x.wins) \in Nat /\ DOMAIN x.wins = 1 .. Len(x.wins)
         /\ \A i \in 1 .. Len(x.wins) : x.wins[i] \in Win /\ x.wins[i] \in WinSet(x)
         /\ \A w \in WinSet(x) : w \in Win /\ \E i \in 1 .. Len(x.wins) : w = x.wins[i]
<1>1. x.wins \in Seq(Win)
  BY DeskFields
<1>2. Len(x.wins) \in Nat /\ DOMAIN x.wins = 1 .. Len(x.wins)
  BY <1>1
<1>3. \A i \in 1 .. Len(x.wins) : x.wins[i] \in Win
  BY <1>1
<1> QED
  BY <1>2, <1>3 DEF WinSet, SetOf

----------------------------------------------------------------------------
(* The array of windows and its set *)

LEMMA SeqFacts ==
  ASSUME NEW s \in Seq(Win)
  PROVE  /\ Len(s) \in Nat /\ DOMAIN s = 1 .. Len(s)
         /\ \A i \in 1 .. Len(s) : s[i] \in Win /\ s[i].id \in Nat \ {0}
         /\ SetOf(s) \subseteq Win
<1>1. \A i \in 1 .. Len(s) : s[i] \in Win
  OBVIOUS
<1> QED
  BY <1>1, WinFields DEF SetOf

LEMMA SetDistinct ==
  ASSUME NEW s \in Seq(Win), DistinctIds(s)
  PROVE  \A v, w \in SetOf(s) : v.id = w.id => v = w
BY DEF SetOf, DistinctIds

\* A window changed in place.
LEMMA UpdateFacts ==
  ASSUME NEW s \in Seq(Win), DistinctIds(s), BoundedIds(s), NEW i \in 1 .. Len(s),
         NEW v \in Win, v.id = s[i].id
  PROVE  LET t == [s EXCEPT ![i] = v]
         IN  /\ t \in Seq(Win) /\ Len(t) = Len(s)
             /\ \A j \in 1 .. Len(s) : t[j] = IF j = i THEN v ELSE s[j]
             /\ DistinctIds(t) /\ BoundedIds(t)
             /\ SetOf(t) = (SetOf(s) \ {s[i]}) \cup {v}
<1> DEFINE t == [s EXCEPT ![i] = v]
<1>1. t \in Seq(Win) /\ Len(t) = Len(s)
  OBVIOUS
<1>2. \A j \in 1 .. Len(s) : t[j] = IF j = i THEN v ELSE s[j]
  BY SeqFacts
<1> HIDE DEF t
<1>3. \A j \in 1 .. Len(s) : t[j].id = s[j].id
  BY <1>2
<1>4. DistinctIds(t) /\ BoundedIds(t)
  BY <1>1, <1>3 DEF DistinctIds, BoundedIds
<1>5. SetOf(t) = (SetOf(s) \ {s[i]}) \cup {v}
  <2>1. ASSUME NEW j \in 1 .. Len(s)
        PROVE  t[j] \in (SetOf(s) \ {s[i]}) \cup {v}
    BY <1>2 DEF SetOf, DistinctIds
  <2>2. ASSUME NEW j \in 1 .. Len(s), s[j] # s[i]
        PROVE  s[j] \in SetOf(t)
    <3>1. t[j] = s[j]
      BY <1>2, <2>2
    <3> QED
      BY <1>1, <3>1 DEF SetOf
  <2>3. v \in SetOf(t)
    BY <1>1, <1>2 DEF SetOf
  <2> QED
    BY <1>1, <2>1, <2>2, <2>3 DEF SetOf
<1> QED
  BY <1>1, <1>2, <1>4, <1>5 DEF t

\* A window taken out.
LEMMA RemoveFacts ==
  ASSUME NEW s \in Seq(Win), DistinctIds(s), BoundedIds(s), NEW i \in 1 .. Len(s)
  PROVE  LET t == RemoveAt(s, i)
         IN  /\ t \in Seq(Win) /\ Len(t) = Len(s) - 1
             /\ DistinctIds(t) /\ BoundedIds(t)
             /\ SetOf(t) = SetOf(s) \ {s[i]}
<1> DEFINE t == RemoveAt(s, i)
           From(j) == IF j < i THEN j ELSE j + 1
<1>0. Len(s) \in Nat /\ i \in Nat /\ 1 <= i /\ i <= Len(s)
  BY SeqFacts
<1>1. /\ t \in Seq(Win) /\ Len(t) = Len(s) - 1
      /\ \A j \in 1 .. Len(s) - 1 : t[j] = s[From(j)]
  BY RemoveAtFacts
<1>2. \A j \in 1 .. Len(s) - 1 : From(j) \in 1 .. Len(s) /\ From(j) # i
  BY <1>0
<1>3. \A j, k \in 1 .. Len(s) - 1 : From(j) = From(k) => j = k
  BY <1>0
<1>4. ASSUME NEW j \in 1 .. Len(s), j # i
      PROVE  \E k \in 1 .. Len(s) - 1 : From(k) = j
  <2>1. CASE j < i
    <3>1. j \in 1 .. Len(s) - 1 /\ From(j) = j
      BY <1>0, <2>1
    <3> QED
      BY <3>1
  <2>2. CASE ~(j < i)
    <3>1. j - 1 \in 1 .. Len(s) - 1 /\ From(j - 1) = j
      BY <1>0, <1>4, <2>2
    <3> QED
      BY <3>1
  <2> QED
    BY <2>1, <2>2
<1> HIDE DEF t, From
<1>5. DistinctIds(t)
  BY <1>1, <1>2, <1>3 DEF DistinctIds
<1>6. BoundedIds(t)
  BY <1>1, <1>2 DEF BoundedIds
<1>7. SetOf(t) = SetOf(s) \ {s[i]}
  <2>1. ASSUME NEW j \in 1 .. Len(s) - 1
        PROVE  t[j] \in SetOf(s) \ {s[i]}
    BY <1>1, <1>2 DEF SetOf, DistinctIds
  <2>2. ASSUME NEW j \in 1 .. Len(s), s[j] # s[i]
        PROVE  s[j] \in SetOf(t)
    <3>1. PICK k \in 1 .. Len(s) - 1 : From(k) = j
      BY <1>4, <2>2
    <3> QED
      BY <1>1, <3>1 DEF SetOf
  <2> QED
    BY <1>1, <2>1, <2>2 DEF SetOf
<1> QED
  BY <1>1, <1>5, <1>6, <1>7 DEF t

\* A window with a new id put at the end.
LEMMA AppendFacts ==
  ASSUME NEW s \in Seq(Win), DistinctIds(s), BoundedIds(s), NEW v \in Win,
         \A w \in SetOf(s) : w.id # v.id
  PROVE  LET t == Append(s, v)
         IN  /\ t \in Seq(Win) /\ Len(t) = Len(s) + 1 /\ t[Len(s) + 1] = v
             /\ \A j \in 1 .. Len(s) : t[j] = s[j]
             /\ DistinctIds(t) /\ BoundedIds(t)
             /\ SetOf(t) = SetOf(s) \cup {v}
<1> DEFINE t == Append(s, v)
           n == Len(s)
<1>0. n \in Nat
  BY SeqFacts
<1>1. /\ t \in Seq(Win) /\ Len(t) = n + 1 /\ t[n + 1] = v
      /\ \A j \in 1 .. n : t[j] = s[j]
  OBVIOUS
<1> HIDE DEF t, n
<1>2. 1 .. n + 1 = (1 .. n) \cup {n + 1} /\ n + 1 \notin 1 .. n
  BY <1>0
<1>3. SetOf(t) = SetOf(s) \cup {v}
  BY <1>1, <1>2 DEF SetOf, n
<1>4. \A j \in 1 .. n : s[j].id # v.id
  BY DEF SetOf, n
<1>5. DistinctIds(t)
  <2> SUFFICES ASSUME NEW j \in 1 .. n + 1, NEW k \in 1 .. n + 1, t[j].id = t[k].id
               PROVE  j = k
    BY <1>1 DEF DistinctIds
  <2>1. CASE j \in 1 .. n /\ k \in 1 .. n
    BY <1>1, <2>1 DEF DistinctIds, n
  <2>2. CASE j = n + 1 /\ k \in 1 .. n
    BY <1>1, <1>4, <2>2
  <2>3. CASE j \in 1 .. n /\ k = n + 1
    BY <1>1, <1>4, <2>3
  <2> QED
    BY <1>2, <2>1, <2>2, <2>3
<1>6. BoundedIds(t)
  <2>1. PICK b \in Nat : \A j \in 1 .. n : s[j].id <= b
    BY DEF BoundedIds, n
  <2>2. v.id \in Nat /\ \A j \in 1 .. n : s[j].id \in Nat
    BY SeqFacts, WinFields DEF n
  <2> DEFINE c == b + v.id
  <2>3. c \in Nat /\ v.id <= c
    BY <2>2
  <2>4. \A j \in 1 .. n : s[j].id <= c
    BY <2>1, <2>2
  <2> HIDE DEF c
  <2>5. \A j \in 1 .. n + 1 : t[j].id <= c
    BY <1>1, <1>2, <2>3, <2>4
  <2> QED
    BY <1>1, <2>3, <2>5 DEF BoundedIds
<1> QED
  BY <1>1, <1>3, <1>5, <1>6 DEF t, n

\* A window brought to the end, changed.
LEMMA MoveFacts ==
  ASSUME NEW s \in Seq(Win), DistinctIds(s), BoundedIds(s), NEW i \in 1 .. Len(s),
         NEW v \in Win, v.id = s[i].id
  PROVE  LET t == Append(RemoveAt(s, i), v)
         IN  /\ t \in Seq(Win) /\ Len(t) = Len(s) /\ t[Len(s)] = v
             /\ DistinctIds(t) /\ BoundedIds(t)
             /\ SetOf(t) = (SetOf(s) \ {s[i]}) \cup {v}
<1> DEFINE r == RemoveAt(s, i)
<1>1. /\ r \in Seq(Win) /\ Len(r) = Len(s) - 1
      /\ DistinctIds(r) /\ BoundedIds(r)
      /\ SetOf(r) = SetOf(s) \ {s[i]}
  BY RemoveFacts
<1>2. s[i] \in SetOf(s)
  BY DEF SetOf
<1>3. \A w \in SetOf(r) : w.id # v.id
  BY <1>1, <1>2, SetDistinct
<1> HIDE DEF r
<1> DEFINE t == Append(r, v)
<1>4. /\ t \in Seq(Win) /\ Len(t) = Len(r) + 1 /\ t[Len(r) + 1] = v
      /\ DistinctIds(t) /\ BoundedIds(t)
      /\ SetOf(t) = SetOf(r) \cup {v}
  BY <1>1, <1>3, AppendFacts
<1>5. Len(r) + 1 = Len(s)
  BY <1>1, SeqFacts
<1> HIDE DEF t
<1>6. /\ t \in Seq(Win) /\ Len(t) = Len(s) /\ t[Len(s)] = v
      /\ DistinctIds(t) /\ BoundedIds(t)
      /\ SetOf(t) = (SetOf(s) \ {s[i]}) \cup {v}
  BY <1>1, <1>4, <1>5
<1> QED
  BY <1>6 DEF t, r

----------------------------------------------------------------------------
(***************************************************************************)
(* What the invariant says of the set of windows, when one of them is      *)
(* changed, taken out or put in.                                           *)
(***************************************************************************)
LEMMA IdsFinite ==
  ASSUME NEW s \in Seq(Win), NEW q
  PROVE  /\ IsFiniteSet(Ids(SetOf(s), q))
         /\ Cardinality(Ids(SetOf(s), q)) \in Nat
         /\ Cardinality(Ids(SetOf(s), q)) <= Len(s)
<1> DEFINE n == Len(s)
           T == {s[i].id : i \in 1 .. n}
           f == [i \in 1 .. n |-> s[i].id]
<1>1. n \in Nat
  BY SeqFacts
<1>2. f \in Surjection(1 .. n, T)
  BY DEF Surjection
<1>3. ExistsSurjection(1 .. n, T)
  BY <1>2 DEF ExistsSurjection
<1>4. IsFiniteSet(T) /\ Cardinality(T) <= n
  BY <1>1, <1>3, FS_NatSurjection, FS_SurjCardinalityBound
<1>5. Ids(SetOf(s), q) \subseteq T
  BY DEF Ids, SetOf
<1> HIDE DEF T, n
<1>6. /\ IsFiniteSet(Ids(SetOf(s), q))
      /\ Cardinality(Ids(SetOf(s), q)) <= Cardinality(T)
  BY <1>4, <1>5, FS_Subset
<1>7. Cardinality(Ids(SetOf(s), q)) \in Nat /\ Cardinality(T) \in Nat
  BY <1>4, <1>6, FS_CardinalityType
<1>8. Cardinality(Ids(SetOf(s), q)) <= n
  BY <1>1, <1>4, <1>6, <1>7
<1> QED
  BY <1>6, <1>7, <1>8 DEF n

LEMMA TouchIds ==
  ASSUME NEW W, NEW w \in W, NEW v, v.id = w.id, v.owner = w.owner, NEW q
  PROVE  Ids((W \ {w}) \cup {v}, q) = Ids(W, q)
BY DEF Ids

LEMMA TouchAlerted ==
  ASSUME NEW W, NEW w \in W, NEW v, v.id = w.id, v.owner = w.owner, v.alert = w.alert,
         NEW modal, Alerted(W, modal), ~v.min \/ modal = 0
  PROVE  Alerted((W \ {w}) \cup {v}, modal)
BY DEF Alerted

LEMMA TouchDragged ==
  ASSUME NEW W, NEW w \in W, NEW v, v.id = w.id, v.min => w.min,
         NEW drag, NEW modal, Dragged(W, drag, modal)
  PROVE  Dragged((W \ {w}) \cup {v}, drag, modal)
BY DEF Dragged

LEMMA TouchCounted ==
  ASSUME NEW W, NEW w \in W, NEW v, v.id = w.id, v.owner = w.owner,
         NEW inst, NEW orphans, NEW p, Counted(W, inst, orphans, p)
  PROVE  Counted((W \ {w}) \cup {v}, inst, orphans, p)
<1> DEFINE U == (W \ {w}) \cup {v}
<1>1. \A q \in Slots : Ids(U, q) = Ids(W, q)
  BY TouchIds
<1>2. \A u \in U : u.owner # 0 => inst[u.owner].app # "none" /\ u.owner \notin orphans /\ u.owner # p
  BY DEF Counted
<1> HIDE DEF U
<1>3. Counted(U, inst, orphans, p)
  BY <1>1, <1>2 DEF Counted
<1> QED
  BY <1>3 DEF U

\* A window without an owner may come or go.
LEMMA UnownedCounted ==
  ASSUME NEW W, NEW v, v.owner = 0, NEW inst, NEW orphans, NEW p
  PROVE  /\ Counted(W, inst, orphans, p) => Counted(W \cup {v}, inst, orphans, p)
         /\ Counted(W, inst, orphans, p) => Counted(W \ {v}, inst, orphans, p)
<1>0. 0 \notin Slots
  BY Constants
<1>1. \A q \in Slots : Ids(W \cup {v}, q) = Ids(W, q) /\ Ids(W \ {v}, q) = Ids(W, q)
  BY <1>0 DEF Ids
<1>2. Counted(W, inst, orphans, p) => Counted(W \cup {v}, inst, orphans, p)
  <2> SUFFICES ASSUME Counted(W, inst, orphans, p) PROVE Counted(W \cup {v}, inst, orphans, p)
    OBVIOUS
  <2>1. \A u \in W \cup {v} :
          u.owner # 0 => inst[u.owner].app # "none" /\ u.owner \notin orphans /\ u.owner # p
    BY DEF Counted
  <2> QED
    BY <1>1, <2>1 DEF Counted
<1>3. Counted(W, inst, orphans, p) => Counted(W \ {v}, inst, orphans, p)
  <2> SUFFICES ASSUME Counted(W, inst, orphans, p) PROVE Counted(W \ {v}, inst, orphans, p)
    OBVIOUS
  <2>1. \A u \in W \ {v} :
          u.owner # 0 => inst[u.owner].app # "none" /\ u.owner \notin orphans /\ u.owner # p
    BY DEF Counted
  <2> QED
    BY <1>1, <2>1 DEF Counted
<1> QED
  BY <1>2, <1>3

LEMMA IndexOfFacts ==
  ASSUME NEW x \in Desk, NEW id
  PROVE  /\ IndexOf(x, id) \in 0 .. Len(x.wins)
         /\ IndexOf(x, id) # 0 => /\ id # 0 /\ IndexOf(x, id) \in 1 .. Len(x.wins)
                                  /\ x.wins[IndexOf(x, id)].id = id
         /\ IndexOf(x, id) = 0 /\ id # 0 => \A w \in WinSet(x) : w.id # id
<1> DEFINE I == {i \in 1 .. Len(x.wins) : x.wins[i].id = id}
<1>1. IndexOf(x, id) = IF id = 0 THEN 0 ELSE IF I # {} THEN Min(I) ELSE 0
  BY DEF IndexOf, SelectInSeq
<1>2. Len(x.wins) \in Nat
  BY DeskLen
<1>3. I # {} => Min(I) \in I
  <2>1. I \in SUBSET Nat
    BY <1>2
  <2> HIDE DEF I
  <2> QED
    BY <2>1, MinIsLeast
<1>4. I # {} => Min(I) \in 1 .. Len(x.wins) /\ x.wins[Min(I)].id = id /\ Min(I) # 0
  BY <1>2, <1>3
<1>5. I = {} => \A w \in WinSet(x) : w.id # id
  BY DEF WinSet, SetOf
<1> HIDE DEF I
<1> QED
  BY <1>1, <1>2, <1>4, <1>5

LEMMA IndexOfWindow ==
  ASSUME NEW x \in Desk, DistinctIds(x.wins), NEW i \in 1 .. Len(x.wins)
  PROVE  IndexOf(x, x.wins[i].id) = i
<1> DEFINE id == x.wins[i].id
           k == IndexOf(x, id)
<1>1. id # 0 /\ x.wins[i] \in WinSet(x)
  BY DeskLen, WinFields
<1>2. k # 0
  BY <1>1, IndexOfFacts
<1>3. k \in 1 .. Len(x.wins) /\ x.wins[k].id = id
  BY <1>2, IndexOfFacts
<1> QED
  BY <1>3 DEF DistinctIds

----------------------------------------------------------------------------
(***************************************************************************)
(* The handlers.  None of them touches what Frame names: the session, and  *)
(* the instances that have lost their windows.                             *)
(***************************************************************************)
Frame(x, y) ==
  /\ y.initialized = x.initialized /\ y.active = x.active /\ y.saved = x.saved
  /\ y.orphans = x.orphans /\ \A q \in x.orphans : y.inst[q] = x.inst[q]

\* Nor, most of them, the registry and what is dragged.
Same(x, y) ==
  /\ Frame(x, y)
  /\ y.inst = x.inst /\ y.states = x.states /\ y.button = x.button /\ y.modal = x.modal
  /\ y.drag = x.drag /\ y.launcher = x.launcher

LEMMA Shown ==
  ASSUME NEW w \in Win
  PROVE  LET v == [w EXCEPT !.min = FALSE]
         IN  /\ v \in Win /\ v.id = w.id /\ v.owner = w.owner /\ v.alert = w.alert
             /\ v.left = w.left /\ ~v.min /\ [v EXCEPT !.min = FALSE] = v
BY DEF Win

LEMMA FocusWindowFacts ==
  ASSUME NEW x \in Desk, DistinctIds(x.wins), BoundedIds(x.wins), NEW id,
         NEW i, i = IndexOf(x, id), i # 0
  PROVE  LET y == FocusWindow(x, id)
             v == [x.wins[i] EXCEPT !.min = FALSE]
         IN  /\ i \in 1 .. Len(x.wins)
             /\ y \in Desk /\ y.wins = [x.wins EXCEPT ![i] = v] /\ Same(x, y)
<1> DEFINE v == [x.wins[i] EXCEPT !.min = FALSE]
           s == [x.wins EXCEPT ![i] = v]
           y == FocusWindow(x, id)
<1>1. i \in 1 .. Len(x.wins) /\ i \in Nat \ {0}
  BY IndexOfFacts, DeskLen
<1>2. x.wins[i] \in Win /\ v \in Win /\ v.id = x.wins[i].id
  BY <1>1, DeskLen, Shown
<1>3. s \in Seq(Win)
  BY <1>1, <1>2, DeskFields, UpdateFacts
<1>4. y = [x EXCEPT !.wins = s, !.focus = i]
  BY DEF FocusWindow
<1> HIDE DEF v, s, y
<1>5. y \in Desk /\ y.wins = s
  BY <1>1, <1>3, <1>4 DEF Desk
<1>6. Same(x, y)
  BY <1>4 DEF Desk, Same, Frame
<1> QED
  BY <1>1, <1>5, <1>6 DEF v, s, y

LEMMA BringToFrontFacts ==
  ASSUME NEW x \in Desk, DistinctIds(x.wins), BoundedIds(x.wins), NEW id,
         NEW i, i = IndexOf(x, id), i # 0
  PROVE  LET y == BringToFront(x, id)
             v == [x.wins[i] EXCEPT !.min = FALSE]
         IN  /\ i \in 1 .. Len(x.wins)
             /\ y \in Desk /\ Same(x, y)
             /\ y.wins = Append(RemoveAt(x.wins, i), v) /\ y.focus = Len(x.wins)
<1> DEFINE v == [x.wins[i] EXCEPT !.min = FALSE]
           s == Append(RemoveAt(x.wins, i), v)
           y == BringToFront(x, id)
<1>1. i \in 1 .. Len(x.wins) /\ Len(x.wins) \in Nat \ {0}
  BY IndexOfFacts, DeskLen
<1>2. x.wins[i] \in Win /\ v \in Win /\ v.id = x.wins[i].id
  BY <1>1, DeskLen, Shown
<1>3. s \in Seq(Win)
  BY <1>1, <1>2, DeskFields, MoveFacts
<1>4. y = [x EXCEPT !.wins = s, !.focus = Len(x.wins)]
  BY DEF BringToFront
<1> HIDE DEF v, s, y
<1>5. y \in Desk /\ y.wins = s /\ y.focus = Len(x.wins)
  BY <1>1, <1>3, <1>4 DEF Desk
<1>6. Same(x, y)
  BY <1>4 DEF Desk, Same, Frame
<1> QED
  BY <1>1, <1>5, <1>6 DEF v, s, y

\* desktop_focus_window and desktop_bring_to_front: the window is the last of the
\* array, visible and focused.
LEMMA RaiseFacts ==
  ASSUME NEW x \in Desk, DistinctIds(x.wins), BoundedIds(x.wins), NEW id,
         NEW i, i = IndexOf(x, id), i # 0
  PROVE  LET y == Raise(x, id)
             w == x.wins[i]
             v == [w EXCEPT !.min = FALSE]
         IN  /\ i \in 1 .. Len(x.wins) /\ w \in WinSet(x) /\ w.id = id
             /\ y \in Desk /\ Same(x, y)
             /\ Len(y.wins) = Len(x.wins) /\ y.focus = Len(x.wins) /\ y.wins[Len(x.wins)] = v
             /\ DistinctIds(y.wins) /\ BoundedIds(y.wins)
             /\ WinSet(y) = (WinSet(x) \ {w}) \cup {v}
             /\ IndexOf(y, id) = Len(x.wins)
<1> DEFINE w == x.wins[i]
           v == [w EXCEPT !.min = FALSE]
           f == FocusWindow(x, id)
           y == Raise(x, id)
           s == [x.wins EXCEPT ![i] = v]
<1>1. i \in 1 .. Len(x.wins) /\ w \in WinSet(x) /\ w.id = id /\ w \in Win /\ Len(x.wins) \in Nat
  BY IndexOfFacts, DeskLen
<1>2. v \in Win /\ v.id = id /\ [v EXCEPT !.min = FALSE] = v
  BY <1>1, Shown
<1> HIDE DEF f, s, w, v
<1>3. f \in Desk /\ f.wins = s /\ Same(x, f)
  <2>1. /\ FocusWindow(x, id) \in Desk /\ Same(x, FocusWindow(x, id))
        /\ FocusWindow(x, id).wins = [x.wins EXCEPT ![i] = [x.wins[i] EXCEPT !.min = FALSE]]
    BY FocusWindowFacts
  <2> QED
    BY <2>1 DEF f, s, w, v
<1>4. /\ s \in Seq(Win) /\ Len(s) = Len(x.wins) /\ s[i] = v
      /\ DistinctIds(s) /\ BoundedIds(s) /\ SetOf(s) = (WinSet(x) \ {w}) \cup {v}
  <2>1. x.wins \in Seq(Win) /\ v.id = x.wins[i].id
    BY <1>1, <1>2, DeskFields DEF w
  <2> DEFINE t == [x.wins EXCEPT ![i] = v]
  <2>2. /\ t \in Seq(Win) /\ Len(t) = Len(x.wins)
        /\ \A j \in 1 .. Len(x.wins) : t[j] = IF j = i THEN v ELSE x.wins[j]
        /\ DistinctIds(t) /\ BoundedIds(t)
        /\ SetOf(t) = (SetOf(x.wins) \ {x.wins[i]}) \cup {v}
    BY <1>1, <1>2, <2>1, UpdateFacts
  <2>3. s = t
    BY DEF s
  <2> HIDE DEF t
  <2> QED
    BY <1>1, <2>2, <2>3 DEF w, WinSet
<1>5. IndexOf(f, id) = i
  BY <1>1, <1>2, <1>3, <1>4, IndexOfWindow
<1>6. y = BringToFront(f, id)
  BY DEF Raise, f
<1> HIDE DEF y
<1>7. /\ y \in Desk /\ Same(f, y) /\ y.focus = Len(s)
      /\ y.wins = Append(RemoveAt(s, i), v)
  <2>1. i # 0 /\ i = IndexOf(f, id) /\ DistinctIds(f.wins) /\ BoundedIds(f.wins)
    BY <1>3, <1>4, <1>5
  <2>2. [f.wins[i] EXCEPT !.min = FALSE] = v
    BY <1>2, <1>3, <1>4
  <2>3. /\ y \in Desk /\ Same(f, y) /\ y.focus = Len(f.wins)
        /\ y.wins = Append(RemoveAt(f.wins, i), [f.wins[i] EXCEPT !.min = FALSE])
    BY <1>3, <1>6, <2>1, BringToFrontFacts
  <2> QED
    BY <1>3, <2>2, <2>3
<1>8. /\ Len(y.wins) = Len(s) /\ y.wins[Len(s)] = v
      /\ DistinctIds(y.wins) /\ BoundedIds(y.wins)
      /\ SetOf(y.wins) = (SetOf(s) \ {s[i]}) \cup {v}
  <2>1. i \in 1 .. Len(s) /\ v.id = s[i].id
    BY <1>1, <1>4
  <2> QED
    BY <1>2, <1>4, <1>7, <2>1, MoveFacts
<1>9. WinSet(y) = (WinSet(x) \ {w}) \cup {v}
  BY <1>4, <1>8 DEF WinSet
<1>10. Same(x, y)
  BY <1>3, <1>7 DEF Same, Frame
<1>11. IndexOf(y, id) = Len(x.wins)
  <2>1. Len(x.wins) \in 1 .. Len(y.wins) /\ y.wins[Len(x.wins)].id = id
    BY <1>1, <1>2, <1>4, <1>8
  <2> QED
    BY <1>7, <1>8, <2>1, IndexOfWindow
<1> QED
  BY <1>1, <1>4, <1>7, <1>8, <1>9, <1>10, <1>11 DEF w, v, y

\* The last window of the array is focused and visible.
LEMMA LastFocused ==
  ASSUME NEW s \in Seq(Win), Len(s) <= MaxWindows, Len(s) # 0, DistinctIds(s), BoundedIds(s),
         ~s[Len(s)].min
  PROVE  InArray(s, Len(s))
BY SeqFacts DEF InArray

LEMMA RaiseSound ==
  ASSUME NEW x, NEW p, Sound(x, p), NEW id
  PROVE  LET y == Raise(x, id)
         IN  Sound(y, p) /\ Same(x, y)
<1> DEFINE y == Raise(x, id)
           i == IndexOf(x, id)
<1>1. x \in Desk /\ DistinctIds(x.wins) /\ BoundedIds(x.wins) /\ Len(x.wins) <= MaxWindows
  BY DEF Sound, InArray
<1>2. CASE i = 0
  <2>1. y = x
    BY <1>2 DEF Raise, FocusWindow, BringToFront
  <2> QED
    BY <2>1 DEF Same, Frame
<1>3. CASE i # 0
  <2> DEFINE w == x.wins[i]
             v == [w EXCEPT !.min = FALSE]
  <2>1. /\ i \in 1 .. Len(x.wins) /\ w \in WinSet(x)
        /\ y \in Desk /\ Same(x, y)
        /\ Len(y.wins) = Len(x.wins) /\ y.focus = Len(x.wins) /\ y.wins[Len(x.wins)] = v
        /\ DistinctIds(y.wins) /\ BoundedIds(y.wins)
        /\ WinSet(y) = (WinSet(x) \ {w}) \cup {v}
    BY <1>1, <1>3, RaiseFacts
  <2>2. w \in Win
    BY <1>1, <2>1, DeskLen
  <2>3. v.id = w.id /\ v.owner = w.owner /\ v.alert = w.alert /\ ~v.min
    BY <2>2, Shown
  <2> HIDE DEF y, w, v
  <2>4. InArray(y.wins, y.focus)
    <3>1. y.wins \in Seq(Win) /\ Len(y.wins) # 0 /\ Len(y.wins) <= MaxWindows
      BY <1>1, <2>1, DeskFields, DeskLen
    <3> QED
      BY <2>1, <2>3, <3>1, LastFocused
  <2>5. Alerted(WinSet(y), x.modal)
    BY <2>1, <2>3, TouchAlerted DEF Sound
  <2>6. Dragged(WinSet(y), x.drag, x.modal)
    BY <2>1, <2>3, TouchDragged DEF Sound
  <2>7. Counted(WinSet(y), x.inst, x.orphans, p)
    BY <2>1, <2>3, TouchCounted DEF Sound
  <2>8. y.modal = x.modal /\ y.drag = x.drag /\ y.inst = x.inst /\ y.orphans = x.orphans
    BY <2>1 DEF Same, Frame
  <2> QED
    BY <2>1, <2>4, <2>5, <2>6, <2>7, <2>8 DEF Sound, y
<1> QED
  BY <1>2, <1>3

LEMMA RecomputeFocusFacts ==
  ASSUME NEW x \in Desk, Len(x.wins) <= MaxWindows, DistinctIds(x.wins), BoundedIds(x.wins)
  PROVE  LET y == RecomputeFocus(x)
         IN  y \in Desk /\ Same(x, y) /\ y.wins = x.wins /\ InArray(y.wins, y.focus)
<1> DEFINE visible == {i \in DOMAIN x.wins : ~x.wins[i].min}
           k == IF x.wins = << >> THEN 1 ELSE IF visible = {} THEN Len(x.wins) ELSE Max(visible)
           y == RecomputeFocus(x)
<1>1. Len(x.wins) \in Nat /\ DOMAIN x.wins = 1 .. Len(x.wins) /\ MaxWindows \in Nat /\ MaxWindows >= 2
  BY DeskLen, Constants
<1>2. x.wins # << >> => Len(x.wins) # 0
  BY DeskFields
<1>3. visible # {} => Max(visible) \in visible
  <2>1. visible \in SUBSET Nat /\ \A i \in visible : i <= Len(x.wins)
    BY <1>1
  <2> HIDE DEF visible
  <2> QED
    BY <1>1, <2>1, MaxIsGreatest
<1>4. k \in Nat \ {0} /\ k <= MaxWindows
  <2>1. CASE x.wins = << >>
    BY <1>1, <2>1
  <2>2. CASE x.wins # << >> /\ visible = {}
    BY <1>1, <1>2, <2>2
  <2>3. CASE x.wins # << >> /\ visible # {}
    <3>1. Max(visible) \in 1 .. Len(x.wins) /\ k = Max(visible)
      BY <1>1, <1>3, <2>3
    <3> QED
      BY <1>1, <3>1
  <2> QED
    BY <2>1, <2>2, <2>3
<1>5. Visible(x.wins) => k <= Len(x.wins) /\ ~x.wins[k].min
  <2> SUFFICES ASSUME Visible(x.wins) PROVE k <= Len(x.wins) /\ ~x.wins[k].min
    OBVIOUS
  <2>1. visible # {} /\ x.wins # << >>
    BY <1>1 DEF Visible
  <2>2. k = Max(visible) /\ k \in visible
    BY <1>3, <2>1
  <2> QED
    BY <1>1, <2>2
<1>6. y = [x EXCEPT !.focus = k]
  BY DEF RecomputeFocus
<1> HIDE DEF visible, k, y
<1>7. y \in Desk /\ y.wins = x.wins /\ y.focus = k
  BY <1>4, <1>6 DEF Desk
<1>8. Same(x, y)
  BY <1>6 DEF Desk, Same, Frame
<1>9. InArray(y.wins, y.focus)
  BY <1>4, <1>5, <1>7 DEF InArray
<1> QED
  BY <1>7, <1>8, <1>9 DEF y

LEMMA InstFields ==
  ASSUME NEW inst \in [Slots -> Inst], NEW q \in Slots
  PROVE  inst[q].app \in Apps \cup {"none"} /\ inst[q].count \in Nat /\ inst[q].data \in {0} \cup Slots
BY DEF Inst

\* What the registry is left with when a window of instance q is gone.
ClosedInst(inst, q) ==
  IF inst[q].count <= 1 THEN [inst EXCEPT ![q] = Idle]
  ELSE [inst EXCEPT ![q] = [inst[q] EXCEPT !.count = inst[q].count - 1]]

ClosedStates(inst, states, q) ==
  IF inst[q].count <= 1
  THEN [states EXCEPT ![inst[q].app] = states[inst[q].app] \ {inst[q].data}] ELSE states

LEMMA WindowClosedFacts ==
  ASSUME NEW x \in Desk, NEW q \in Slots, x.inst[q].app # "none"
  PROVE  LET y == WindowClosed(x, q)
         IN  /\ y \in Desk /\ y.wins = x.wins /\ y.focus = x.focus
             /\ y.inst = ClosedInst(x.inst, q)
             /\ y.states = ClosedStates(x.inst, x.states, q)
             /\ y.initialized = x.initialized /\ y.active = x.active /\ y.saved = x.saved
             /\ y.orphans = x.orphans /\ y.button = x.button /\ y.modal = x.modal
             /\ y.drag = x.drag /\ y.launcher = x.launcher
<1> DEFINE y == WindowClosed(x, q)
           i == x.inst[q]
           rest == x.states[i.app] \ {i.data}
           less == [i EXCEPT !.count = i.count - 1]
<1>0. q # 0 /\ x.inst \in [Slots -> Inst] /\ x.states \in [Apps -> SUBSET Slots]
  BY Constants, DeskFields
<1>1. i \in Inst /\ i.app \in Apps /\ i.count \in Nat
  BY <1>0, InstFields
<1>2. CASE i.count <= 1
  <2>1. y = [x EXCEPT !.states = [x.states EXCEPT ![i.app] = rest],
                      !.inst = [x.inst EXCEPT ![q] = Idle]]
    BY <1>0, <1>2 DEF WindowClosed, StopInstance, CloseApp, Desk
  <2>2. [x.states EXCEPT ![i.app] = rest] \in [Apps -> SUBSET Slots]
    BY <1>0, <1>1
  <2>3. [x.inst EXCEPT ![q] = Idle] \in [Slots -> Inst]
    BY <1>0, IdleType
  <2> DEFINE A == [x.states EXCEPT ![i.app] = rest]
             B == [x.inst EXCEPT ![q] = Idle]
  <2>4. A = ClosedStates(x.inst, x.states, q) /\ B = ClosedInst(x.inst, q)
    BY <1>2 DEF ClosedStates, ClosedInst
  <2> HIDE DEF A, B, y
  <2>5. y = [x EXCEPT !.states = A, !.inst = B] /\ A \in [Apps -> SUBSET Slots] /\ B \in [Slots -> Inst]
    BY <2>1, <2>2, <2>3 DEF A, B
  <2>6. /\ y \in Desk /\ y.wins = x.wins /\ y.focus = x.focus /\ y.inst = B /\ y.states = A
        /\ y.initialized = x.initialized /\ y.active = x.active /\ y.saved = x.saved
        /\ y.orphans = x.orphans /\ y.button = x.button /\ y.modal = x.modal
        /\ y.drag = x.drag /\ y.launcher = x.launcher
    BY <2>5 DEF Desk
  <2> QED
    BY <2>4, <2>6 DEF y
<1>3. CASE ~(i.count <= 1)
  <2> DEFINE B == [x.inst EXCEPT ![q] = less]
  <2>1. y = [x EXCEPT !.inst = B]
    BY <1>0, <1>3 DEF WindowClosed
  <2>2. less \in Inst
    BY <1>1, <1>3 DEF Inst
  <2>3. B \in [Slots -> Inst]
    BY <1>0, <2>2
  <2>4. x.states = ClosedStates(x.inst, x.states, q) /\ B = ClosedInst(x.inst, q)
    BY <1>3 DEF ClosedStates, ClosedInst
  <2> HIDE DEF B, y
  <2>5. /\ y \in Desk /\ y.wins = x.wins /\ y.focus = x.focus /\ y.inst = B /\ y.states = x.states
        /\ y.initialized = x.initialized /\ y.active = x.active /\ y.saved = x.saved
        /\ y.orphans = x.orphans /\ y.button = x.button /\ y.modal = x.modal
        /\ y.drag = x.drag /\ y.launcher = x.launcher
    BY <2>1, <2>3 DEF Desk
  <2> QED
    BY <2>4, <2>5 DEF y
<1> QED
  BY <1>2, <1>3

LEMMA ClosedCounted ==
  ASSUME NEW s \in Seq(Win), DistinctIds(s), NEW inst \in [Slots -> Inst],
         NEW orphans \in SUBSET Slots, Counted(SetOf(s), inst, orphans, 0),
         NEW w \in SetOf(s), w.owner # 0
  PROVE  Counted(SetOf(s) \ {w}, ClosedInst(inst, w.owner), orphans, 0)
<1> DEFINE W == SetOf(s)
           U == W \ {w}
           q == w.owner
           J == ClosedInst(inst, q)
<1>1. q \in Slots /\ inst[q].app # "none" /\ q \notin orphans
  BY SeqFacts, WinFields DEF Counted
<1>2. ASSUME NEW r \in Slots, r # q
      PROVE  Ids(U, r) = Ids(W, r) /\ J[r] = inst[r]
  BY <1>2 DEF Ids, ClosedInst
<1>3. Ids(U, q) = Ids(W, q) \ {w.id} /\ w.id \in Ids(W, q)
  BY SetDistinct DEF Ids
<1>4. IsFiniteSet(Ids(W, q)) /\ Cardinality(Ids(W, q)) \in Nat
  BY IdsFinite
<1>5. Cardinality(Ids(U, q)) = Cardinality(Ids(W, q)) - 1 /\ IsFiniteSet(Ids(U, q))
  <2> DEFINE A == Ids(W, q)
             B == Ids(U, q)
  <2>1. IsFiniteSet(A) /\ w.id \in A /\ B = A \ {w.id}
    BY <1>3, <1>4
  <2> HIDE DEF A, B
  <2>2. Cardinality(B) = Cardinality(A) - 1 /\ IsFiniteSet(B)
    BY <2>1, FS_RemoveElement
  <2> QED
    BY <2>2 DEF A, B
<1>6. inst[q].count = Cardinality(Ids(W, q)) /\ inst[q].count <= MaxWindows
  <2>1. q # 0
    BY <1>1, Constants
  <2> QED
    BY <1>1, <2>1 DEF Counted
<1>7. \A r \in Slots : inst[r] \in Inst /\ inst[r].count \in Nat
  BY InstFields
<1>8. CASE inst[q].count <= 1
  <2>1. J[q] = Idle
    BY <1>1, <1>8 DEF ClosedInst
  <2>2. Cardinality(Ids(U, q)) = 0
    <3>1. Cardinality(Ids(U, q)) \in Nat
      BY <1>5, FS_CardinalityType
    <3> QED
      BY <1>4, <1>5, <1>6, <1>8, <3>1
  <2>3. Ids(U, q) = {}
    BY <1>5, <2>2, FS_EmptySet
  <2>4. \A u \in U : u.owner # q
    BY <2>3 DEF Ids
  <2>5. \A u \in U : u.owner # 0 => J[u.owner].app # "none" /\ u.owner \notin orphans /\ u.owner # 0
    <3> SUFFICES ASSUME NEW u \in U, u.owner # 0
                 PROVE  J[u.owner].app # "none" /\ u.owner \notin orphans
      OBVIOUS
    <3>1. u \in W /\ u.owner \in Slots /\ u.owner # q
      BY <2>4, SeqFacts, WinFields
    <3> QED
      BY <1>2, <3>1 DEF Counted
  <2>6. Idle.app = "none" /\ Idle.count = 0
    BY DEF Idle
  <2> HIDE DEF W, U, J, q
  <2>7. \A r \in Slots : J[r] = IF r = q THEN Idle ELSE inst[r]
    BY <1>2, <2>1
  <2>8. Counted(W, inst, orphans, 0)
    BY DEF W
  <2>9. Counted(U, J, orphans, 0)
    <3>1. \A r \in Slots : J[r].app = "none" => J[r] = Idle
      BY <2>7, <2>8 DEF Counted
    <3>2. \A r \in Slots : J[r].app # "none" /\ r # 0 => J[r].count > 0
      BY <2>6, <2>7, <2>8 DEF Counted
    <3>3. \A r \in Slots : J[r].count <= MaxWindows
      BY <2>6, <2>7, <2>8, Constants DEF Counted
    <3>4. \A r \in Slots : J[r].app # "none" /\ r \notin orphans /\ r # 0
                             => J[r].count = Cardinality(Ids(U, r))
      BY <1>2, <2>6, <2>7, <2>8 DEF Counted
    <3>5. \A r \in orphans : J[r].app # "none" /\ r # 0
      BY <1>1, <2>7, <2>8 DEF Counted
    <3> QED
      BY <2>5, <3>1, <3>2, <3>3, <3>4, <3>5 DEF Counted
  <2> QED
    BY <2>9 DEF U, W, J, q
<1>9. CASE ~(inst[q].count <= 1)
  <2> DEFINE c == inst[q].count - 1
  <2>1. J[q] = [inst[q] EXCEPT !.count = c]
    BY <1>1, <1>9 DEF ClosedInst
  <2>2. J[q].app = inst[q].app /\ J[q].count = c
    BY <1>1, <1>7, <2>1 DEF Inst
  <2>3. c > 0 /\ c <= MaxWindows /\ c = Cardinality(Ids(U, q))
    BY <1>1, <1>4, <1>5, <1>6, <1>7, <1>9, Constants
  <2>4. \A r \in Slots : J[r].app = inst[r].app
    BY <1>2, <2>2
  <2>5. \A u \in U : u.owner # 0 => J[u.owner].app # "none" /\ u.owner \notin orphans /\ u.owner # 0
    <3> SUFFICES ASSUME NEW u \in U, u.owner # 0
                 PROVE  J[u.owner].app # "none" /\ u.owner \notin orphans
      OBVIOUS
    <3>1. u \in W /\ u.owner \in Slots
      BY SeqFacts, WinFields
    <3> QED
      BY <2>4, <3>1 DEF Counted
  <2> HIDE DEF W, U, J, q, c
  <2>6. Counted(W, inst, orphans, 0)
    BY DEF W
  <2>7. Counted(U, J, orphans, 0)
    <3>1. \A r \in Slots : J[r].app = "none" => J[r] = Idle
      BY <1>1, <1>2, <2>4, <2>6 DEF Counted
    <3>2. \A r \in Slots : J[r].app # "none" /\ r # 0 => J[r].count > 0
      BY <1>2, <2>2, <2>3, <2>6 DEF Counted
    <3>3. \A r \in Slots : J[r].count <= MaxWindows
      BY <1>2, <2>2, <2>3, <2>6 DEF Counted
    <3>4. \A r \in Slots : J[r].app # "none" /\ r \notin orphans /\ r # 0
                             => J[r].count = Cardinality(Ids(U, r))
      BY <1>2, <2>2, <2>3, <2>6 DEF Counted
    <3>5. \A r \in orphans : J[r].app # "none" /\ r # 0
      BY <2>4, <2>6 DEF Counted
    <3> QED
      BY <2>5, <3>1, <3>2, <3>3, <3>4, <3>5 DEF Counted
  <2> QED
    BY <2>7 DEF U, W, J, q
<1> QED
  BY <1>8, <1>9

LEMMA ClosedPrivate ==
  ASSUME NEW inst \in [Slots -> Inst], NEW states \in [Apps -> SUBSET Slots],
         Private(inst, states), NEW q \in Slots, inst[q].app # "none"
  PROVE  Private(ClosedInst(inst, q), ClosedStates(inst, states, q))
<1> DEFINE J == ClosedInst(inst, q)
           T == ClosedStates(inst, states, q)
<1>1. inst[q] \in Inst /\ inst[q].app \in Apps
  BY InstFields
<1>2. CASE ~(inst[q].count <= 1)
  <2>1. T = states
    BY <1>2 DEF ClosedStates
  <2>2. \A r \in Slots : J[r].app = inst[r].app /\ J[r].data = inst[r].data
    BY <1>1, <1>2 DEF ClosedInst, Inst
  <2> HIDE DEF J, T
  <2>3. Private(J, T)
    BY <2>1, <2>2 DEF Private
  <2> QED
    BY <2>3 DEF J, T
<1>3. CASE inst[q].count <= 1
  <2>1. \A r \in Slots : J[r] = IF r = q THEN Idle ELSE inst[r]
    BY <1>3 DEF ClosedInst
  <2>2. \A a \in Apps : T[a] = IF a = inst[q].app THEN states[a] \ {inst[q].data} ELSE states[a]
    BY <1>1, <1>3 DEF ClosedStates
  <2>3. Idle.app = "none"
    BY DEF Idle
  <2>4. \A r \in Slots : inst[r].app # "none" => inst[r].app \in Apps
    BY InstFields
  <2>5. "none" \notin Apps
    BY Constants
  <2> HIDE DEF J, T
  <2>6. ASSUME NEW r \in Slots, J[r].app # "none"
        PROVE  J[r].data \in T[J[r].app]
    <3>1. r # q /\ J[r] = inst[r]
      BY <2>1, <2>3, <2>6
    <3>2. inst[r].data \in states[inst[r].app] /\ inst[r].app \in Apps
      BY <2>4, <2>6, <3>1 DEF Private
    <3>3. inst[r].app = inst[q].app => inst[r].data # inst[q].data
      BY <2>6, <3>1 DEF Private
    <3> QED
      BY <2>2, <3>1, <3>2, <3>3
  <2>7. ASSUME NEW a \in Apps, NEW k \in T[a]
        PROVE  \E r \in Slots : J[r].app = a /\ J[r].data = k
    <3>1. k \in states[a] /\ (a = inst[q].app => k # inst[q].data)
      BY <2>2, <2>7
    <3>2. PICK r \in Slots : inst[r].app = a /\ inst[r].data = k
      BY <3>1 DEF Private
    <3>3. r # q
      BY <3>1, <3>2
    <3> QED
      BY <2>1, <3>2, <3>3
  <2>8. ASSUME NEW r \in Slots, NEW t \in Slots, J[r].app # "none", J[r].app = J[t].app,
               J[r].data = J[t].data
        PROVE  r = t
    <3>1. J[r] = inst[r] /\ J[t] = inst[t]
      BY <2>1, <2>3, <2>8
    <3> QED
      BY <2>8, <3>1 DEF Private
  <2>9. Private(J, T)
    BY <2>6, <2>7, <2>8 DEF Private
  <2> QED
    BY <2>9 DEF J, T
<1> QED
  BY <1>2, <1>3

\* desktop_destroy_window: the window is gone, nothing is dragged, and its
\* instance has one window less or is stopped.
LEMMA DestroyFacts ==
  ASSUME NEW x \in Desk, InArray(x.wins, x.focus), Private(x.inst, x.states),
         Counted(WinSet(x), x.inst, x.orphans, 0), NEW id,
         NEW i, i = IndexOf(x, id), i # 0
  PROVE  LET y == DestroyWindow(x, id)
         IN  /\ i \in 1 .. Len(x.wins) /\ x.wins[i].id = id /\ x.wins[i] \in WinSet(x)
             /\ y \in Desk /\ InArray(y.wins, y.focus) /\ Private(y.inst, y.states)
             /\ Counted(WinSet(y), y.inst, y.orphans, 0)
             /\ WinSet(y) = WinSet(x) \ {x.wins[i]}
             /\ y.drag = 0 /\ y.modal = x.modal /\ y.button = x.button
             /\ y.launcher = x.launcher /\ Frame(x, y)
             /\ x.wins[i].owner = 0 => y.inst = x.inst /\ y.states = x.states
<1> DEFINE w == x.wins[i]
           q == w.owner
           s == RemoveAt(x.wins, i)
           gone == [x EXCEPT !.wins = s, !.drag = 0]
           c == WindowClosed(gone, q)
           y == DestroyWindow(x, id)
<1>1. /\ i \in 1 .. Len(x.wins) /\ w.id = id /\ w \in WinSet(x) /\ w \in Win
      /\ Len(x.wins) \in Nat /\ x.wins \in Seq(Win)
  BY IndexOfFacts, DeskLen, DeskFields
<1>2. DistinctIds(x.wins) /\ BoundedIds(x.wins) /\ Len(x.wins) <= MaxWindows
  BY DEF InArray
<1>3. /\ s \in Seq(Win) /\ Len(s) = Len(x.wins) - 1
      /\ DistinctIds(s) /\ BoundedIds(s) /\ SetOf(s) = WinSet(x) \ {w}
  BY <1>1, <1>2, RemoveFacts DEF WinSet
<1>4. y = RecomputeFocus(c)
  BY DEF DestroyWindow
<1> HIDE DEF s
<1>5. /\ gone \in Desk /\ gone.wins = s /\ gone.drag = 0 /\ gone.modal = x.modal
      /\ gone.button = x.button /\ gone.launcher = x.launcher /\ gone.inst = x.inst
      /\ gone.states = x.states /\ gone.orphans = x.orphans
      /\ gone.initialized = x.initialized /\ gone.active = x.active /\ gone.saved = x.saved
  BY <1>3 DEF Desk
<1> HIDE DEF gone, c, y, w, q
<1>6. /\ c \in Desk /\ c.wins = s /\ c.drag = 0 /\ c.modal = x.modal /\ c.button = x.button
      /\ c.launcher = x.launcher /\ Frame(x, c) /\ Private(c.inst, c.states)
      /\ Counted(SetOf(s), c.inst, c.orphans, 0)
      /\ (q = 0 => c.inst = x.inst /\ c.states = x.states)
  <2>1. CASE q = 0
    <3>1. c = gone
      BY <2>1 DEF c, WindowClosed
    <3>2. Counted(SetOf(s), x.inst, x.orphans, 0)
      <4>1. w.owner = 0
        BY <2>1 DEF q
      <4>2. Counted(WinSet(x) \ {w}, x.inst, x.orphans, 0)
        BY <4>1, UnownedCounted
      <4> QED
        BY <1>3, <4>2
    <3> QED
      BY <1>5, <3>1, <3>2 DEF Frame
  <2>2. CASE q # 0
    <3>1. q \in Slots /\ x.inst[q].app # "none" /\ q \notin x.orphans
      BY <1>1, <2>2, WinFields DEF q, Counted
    <3>2. /\ c \in Desk /\ c.wins = s
          /\ c.inst = ClosedInst(x.inst, q)
          /\ c.states = ClosedStates(x.inst, x.states, q)
          /\ c.initialized = x.initialized /\ c.active = x.active /\ c.saved = x.saved
          /\ c.orphans = x.orphans /\ c.button = x.button /\ c.modal = x.modal
          /\ c.drag = 0 /\ c.launcher = x.launcher
      BY <1>5, <3>1, WindowClosedFacts DEF c
    <3>3. x.inst \in [Slots -> Inst] /\ x.states \in [Apps -> SUBSET Slots] /\ x.orphans \in SUBSET Slots
      BY DeskFields
    <3>4. Private(c.inst, c.states)
      BY <3>1, <3>2, <3>3, ClosedPrivate
    <3>5. Counted(SetOf(s), c.inst, c.orphans, 0)
      <4>1. w \in SetOf(x.wins) /\ w.owner = q /\ SetOf(s) = SetOf(x.wins) \ {w}
            /\ Counted(SetOf(x.wins), x.inst, x.orphans, 0)
        BY <1>1, <1>3 DEF WinSet, q
      <4>2. Counted(SetOf(x.wins) \ {w}, ClosedInst(x.inst, w.owner), x.orphans, 0)
        BY <1>1, <1>2, <2>2, <3>3, <4>1, ClosedCounted
      <4> QED
        BY <3>2, <4>1, <4>2
    <3>6. \A r \in x.orphans : c.inst[r] = x.inst[r]
      <4> SUFFICES ASSUME NEW r \in x.orphans PROVE c.inst[r] = x.inst[r]
        OBVIOUS
      <4>1. r # q /\ r \in Slots
        BY <3>1, <3>3
      <4> QED
        BY <3>2, <3>3, <4>1 DEF ClosedInst
    <3> QED
      BY <2>2, <3>2, <3>4, <3>5, <3>6 DEF Frame
  <2> QED
    BY <2>1, <2>2
<1>7. Len(s) <= MaxWindows
  BY <1>1, <1>2, <1>3, Constants
<1>8. y \in Desk /\ Same(c, y) /\ y.wins = s /\ InArray(y.wins, y.focus)
  BY <1>3, <1>4, <1>6, <1>7, RecomputeFocusFacts
<1>9. WinSet(y) = WinSet(x) \ {w}
  BY <1>3, <1>8 DEF WinSet
<1>10. /\ y.drag = 0 /\ y.modal = x.modal /\ y.button = x.button /\ y.launcher = x.launcher
       /\ Frame(x, y) /\ y.inst = c.inst /\ y.states = c.states /\ y.orphans = c.orphans
  BY <1>6, <1>8 DEF Same, Frame
<1>11. Private(y.inst, y.states) /\ Counted(WinSet(y), y.inst, y.orphans, 0)
  BY <1>3, <1>6, <1>9, <1>10
<1>12. q = 0 => y.inst = x.inst /\ y.states = x.states
  BY <1>6, <1>10
<1> QED
  BY <1>1, <1>8, <1>9, <1>10, <1>11, <1>12 DEF y, w, q

Good(x) == Sound(x, 0) /\ Private(x.inst, x.states)

\* The windows under the alert.
Under(x) == {w \in WinSet(x) : ~w.alert}

LEMMA GoodFields ==
  ASSUME NEW x, Good(x)
  PROVE  /\ x \in Desk /\ InArray(x.wins, x.focus) /\ Private(x.inst, x.states)
         /\ Counted(WinSet(x), x.inst, x.orphans, 0)
         /\ Alerted(WinSet(x), x.modal) /\ Dragged(WinSet(x), x.drag, x.modal)
         /\ DistinctIds(x.wins) /\ BoundedIds(x.wins) /\ Len(x.wins) <= MaxWindows
BY DEF Good, Sound, InArray

\* desktop_state.modal_window_id is 0 or the id of a window.
LEMMA ModalThere ==
  ASSUME NEW x, NEW p, Sound(x, p)
  PROVE  IndexOf(x, x.modal) = 0 <=> x.modal = 0
<1>1. x \in Desk /\ Alerted(WinSet(x), x.modal)
  BY DEF Sound
<1>2. x.modal # 0 => \E w \in WinSet(x) : w.id = x.modal
  BY <1>1 DEF Alerted
<1> QED
  BY <1>1, <1>2, IndexOfFacts

LEMMA RaiseGood ==
  ASSUME NEW x, Good(x), NEW id
  PROVE  Good(Raise(x, id)) /\ Same(x, Raise(x, id))
<1>1. Sound(Raise(x, id), 0) /\ Same(x, Raise(x, id))
  BY RaiseSound DEF Good
<1> QED
  BY <1>1 DEF Good, Same

\* Without an alert every window may be destroyed.
LEMMA DestroyGood ==
  ASSUME NEW x, Good(x), x.modal = 0, NEW id
  PROVE  LET y == DestroyWindow(x, id)
         IN  Good(y) /\ Frame(x, y) /\ y.drag \in {x.drag, 0} /\ y.button = x.button
<1> DEFINE y == DestroyWindow(x, id)
           i == IndexOf(x, id)
<1>1. CASE i = 0
  <2>1. y = x
    BY <1>1 DEF DestroyWindow
  <2> QED
    BY <2>1 DEF Frame
<1>2. CASE i # 0
  <2> DEFINE w == x.wins[i]
  <2>1. /\ y \in Desk /\ InArray(y.wins, y.focus) /\ Private(y.inst, y.states)
        /\ Counted(WinSet(y), y.inst, y.orphans, 0)
        /\ WinSet(y) = WinSet(x) \ {w}
        /\ y.drag = 0 /\ y.modal = x.modal /\ y.button = x.button /\ Frame(x, y)
    BY <1>2, GoodFields, DestroyFacts
  <2> HIDE DEF y, w
  <2>2. Alerted(WinSet(y), y.modal)
    BY <2>1, GoodFields DEF Alerted
  <2>3. Dragged(WinSet(y), y.drag, y.modal)
    BY <2>1 DEF Dragged
  <2> QED
    BY <2>1, <2>2, <2>3 DEF Good, Sound, y
<1> QED
  BY <1>1, <1>2

\* desktop_close_modal takes the alert away and leaves the other windows alone.
LEMMA CloseModalGood ==
  ASSUME NEW x, Good(x), x.modal # 0
  PROVE  LET y == CloseModal(x)
         IN  /\ Good(y) /\ Frame(x, y) /\ y.drag = 0 /\ y.button = x.button
             /\ y.inst = x.inst /\ Under(y) = Under(x)
<1> DEFINE z == [x EXCEPT !.modal = 0]
           y == CloseModal(x)
           i == IndexOf(x, x.modal)
           w == x.wins[i]
<1>1. x \in Desk /\ i # 0 /\ x.modal \in Nat
  BY ModalThere, GoodFields, DeskFields DEF Good
<1>2. /\ z \in Desk /\ z.wins = x.wins /\ z.focus = x.focus /\ z.modal = 0 /\ z.inst = x.inst
      /\ z.states = x.states /\ z.orphans = x.orphans /\ z.button = x.button
      /\ z.initialized = x.initialized /\ z.active = x.active /\ z.saved = x.saved
  BY <1>1 DEF Desk
<1>3. y = DestroyWindow(z, x.modal)
  BY DEF CloseModal
<1> HIDE DEF z, y, w
<1>4. WinSet(z) = WinSet(x) /\ IndexOf(z, x.modal) = i
  BY <1>2 DEF WinSet, IndexOf
<1>5. /\ y \in Desk /\ InArray(y.wins, y.focus) /\ Private(y.inst, y.states)
      /\ Counted(WinSet(y), y.inst, y.orphans, 0)
      /\ z.wins[i].id = x.modal /\ z.wins[i] \in WinSet(z)
      /\ WinSet(y) = WinSet(z) \ {z.wins[i]}
      /\ y.drag = 0 /\ y.modal = z.modal /\ y.button = z.button /\ Frame(z, y)
      /\ (z.wins[i].owner = 0 => y.inst = z.inst)
  <2>1. /\ InArray(z.wins, z.focus) /\ Private(z.inst, z.states)
        /\ Counted(WinSet(z), z.inst, z.orphans, 0)
    BY <1>2, <1>4, GoodFields
  <2>2. i = IndexOf(z, x.modal)
    BY <1>4
  <2> QED
    BY <1>1, <1>2, <1>3, <2>1, <2>2, DestroyFacts
<1>6. w \in WinSet(x) /\ w.id = x.modal /\ WinSet(y) = WinSet(x) \ {w}
      /\ (w.owner = 0 => y.inst = x.inst)
  BY <1>2, <1>4, <1>5 DEF w
<1>7. w.alert /\ w.owner = 0
  BY <1>6, GoodFields DEF Alerted
<1>8. \A v \in WinSet(y) : ~v.alert /\ v.id # 0
  <2> SUFFICES ASSUME NEW v \in WinSet(y) PROVE ~v.alert /\ v.id # 0
    OBVIOUS
  <2>1. v \in WinSet(x) /\ v # w
    BY <1>6
  <2>2. v.id # w.id /\ v.id # 0
    BY <1>1, <1>6, <2>1, GoodFields, SetDistinct, DeskFields, DeskLen, WinFields DEF WinSet
  <2> QED
    BY <1>6, <2>1, <2>2, GoodFields DEF Alerted
<1>9. Alerted(WinSet(y), y.modal) /\ Dragged(WinSet(y), y.drag, y.modal)
  <2>1. y.modal = 0 /\ y.drag = 0
    BY <1>2, <1>5
  <2>2. \A v \in WinSet(y) : v.alert \in BOOLEAN
    BY <1>5, DeskLen, WinFields
  <2> QED
    BY <1>8, <2>1, <2>2 DEF Alerted, Dragged
<1>10. Frame(x, y) /\ y.button = x.button
  BY <1>2, <1>5 DEF Frame
<1>11. Under(y) = Under(x)
  BY <1>6, <1>7 DEF Under
<1> QED
  BY <1>5, <1>6, <1>7, <1>9, <1>10, <1>11 DEF Good, Sound, y

\* Without an alert a window may be minimised.
LEMMA MinimizeGood ==
  ASSUME NEW x, Good(x), x.modal = 0, NEW id
  PROVE  LET y == MinimizeWindow(x, id)
         IN  Good(y) /\ Frame(x, y) /\ y.drag \in {x.drag, 0} /\ y.button = x.button
<1> DEFINE y == MinimizeWindow(x, id)
           i == IndexOf(x, id)
<1>0. x \in Desk
  BY GoodFields
<1>1. CASE i = 0
  <2>1. y = x
    BY <1>1 DEF MinimizeWindow
  <2> QED
    BY <2>1 DEF Frame
<1>2. CASE i # 0
  <2> DEFINE w == x.wins[i]
             v == [w EXCEPT !.min = TRUE]
             s == [x.wins EXCEPT ![i] = v]
             z == [x EXCEPT !.wins = s, !.drag = 0]
  <2>1. i \in 1 .. Len(x.wins) /\ w \in WinSet(x) /\ w \in Win /\ x.wins \in Seq(Win)
    BY <1>0, <1>2, IndexOfFacts, DeskLen, DeskFields
  <2>2. v \in Win /\ v.id = w.id /\ v.owner = w.owner /\ v.alert = w.alert
    BY <2>1 DEF Win
  <2>3. y = RecomputeFocus(z)
    BY <1>2 DEF MinimizeWindow
  <2> HIDE DEF v
  <2>4. /\ s \in Seq(Win) /\ Len(s) = Len(x.wins) /\ DistinctIds(s) /\ BoundedIds(s)
        /\ SetOf(s) = (WinSet(x) \ {w}) \cup {v}
    BY <2>1, <2>2, GoodFields, UpdateFacts DEF WinSet
  <2> HIDE DEF s, w, y
  <2>5. /\ z \in Desk /\ z.wins = s /\ z.drag = 0 /\ z.modal = x.modal /\ z.button = x.button
        /\ z.inst = x.inst /\ z.states = x.states /\ z.orphans = x.orphans /\ Frame(x, z)
    BY <1>0, <2>4 DEF Desk, Frame
  <2> HIDE DEF z
  <2>6. y \in Desk /\ Same(z, y) /\ y.wins = s /\ InArray(y.wins, y.focus)
    BY <2>3, <2>4, <2>5, GoodFields, RecomputeFocusFacts
  <2>7. /\ y.drag = 0 /\ y.modal = x.modal /\ y.button = x.button /\ y.inst = x.inst
        /\ y.states = x.states /\ y.orphans = x.orphans /\ Frame(x, y)
    BY <2>5, <2>6 DEF Same, Frame
  <2>8. WinSet(y) = (WinSet(x) \ {w}) \cup {v}
    BY <2>4, <2>6 DEF WinSet
  <2>9. Alerted(WinSet(y), x.modal)
    BY <2>1, <2>2, <2>8, GoodFields, TouchAlerted
  <2>10. Counted(WinSet(y), x.inst, x.orphans, 0)
    BY <2>1, <2>2, <2>8, GoodFields, TouchCounted
  <2>11. Dragged(WinSet(y), y.drag, y.modal)
    BY <2>7 DEF Dragged
  <2>12. Private(y.inst, y.states)
    BY <2>7, GoodFields
  <2> QED
    BY <2>6, <2>7, <2>9, <2>10, <2>11, <2>12 DEF Good, Sound, y
<1> QED
  BY <1>1, <1>2

\* A raised window may be maximised or restored.
LEMMA ToggleGood ==
  ASSUME NEW x, Good(x), NEW id, IndexOf(x, id) = x.focus
  PROVE  LET y == ToggleMaximizeWindow(x, id)
         IN  Good(y) /\ Frame(x, y) /\ y.drag \in {x.drag, 0} /\ y.button = x.button
<1> DEFINE y == ToggleMaximizeWindow(x, id)
           i == IndexOf(x, id)
           w == x.wins[i]
           v == [w EXCEPT !.left = FALSE, !.min = FALSE]
           s == [x.wins EXCEPT ![i] = v]
<1>1. x \in Desk /\ i # 0
  BY GoodFields, DeskFields
<1>2. i \in 1 .. Len(x.wins) /\ w \in WinSet(x) /\ w \in Win /\ x.wins \in Seq(Win)
  BY <1>1, IndexOfFacts, DeskLen, DeskFields
<1>3. v \in Win /\ v.id = w.id /\ v.owner = w.owner /\ v.alert = w.alert /\ ~v.min
  BY <1>2 DEF Win
<1>4. y = [x EXCEPT !.wins = s, !.drag = 0]
  <2> DEFINE r == [x.wins EXCEPT ![i] = [w EXCEPT !.left = FALSE]]
             a == [x EXCEPT !.wins = r]
             b == [a EXCEPT !.wins = s]
  <2>1. x.wins[i] \in Win /\ r[i] = [w EXCEPT !.left = FALSE]
    BY <1>2
  <2>2. [r EXCEPT ![i] = [r[i] EXCEPT !.min = FALSE]] = s
    BY <1>2, <2>1 DEF Win
  <2>3. a.wins = r
    BY <1>1 DEF Desk
  <2>4. [a EXCEPT !.wins[i].min = FALSE] = b
    BY <2>2, <2>3
  <2>5. y = [[a EXCEPT !.wins[i].min = FALSE] EXCEPT !.drag = 0]
    BY <1>1 DEF ToggleMaximizeWindow
  <2>6. b = [x EXCEPT !.wins = s]
    BY <1>1 DEF Desk
  <2> HIDE DEF a, b, s, y
  <2> QED
    BY <1>1, <2>4, <2>5, <2>6 DEF Desk
<1> HIDE DEF v
<1>5. /\ s \in Seq(Win) /\ Len(s) = Len(x.wins) /\ DistinctIds(s) /\ BoundedIds(s)
      /\ s[i] = v /\ SetOf(s) = (WinSet(x) \ {w}) \cup {v}
  BY <1>2, <1>3, GoodFields, UpdateFacts DEF WinSet
<1> HIDE DEF s, w, y
<1>6. /\ y \in Desk /\ y.wins = s /\ y.drag = 0 /\ y.modal = x.modal /\ y.button = x.button
      /\ y.inst = x.inst /\ y.states = x.states /\ y.orphans = x.orphans /\ y.focus = x.focus
      /\ Frame(x, y)
  BY <1>1, <1>4, <1>5 DEF Desk, Frame
<1>7. InArray(y.wins, y.focus)
  <2>1. x.focus = i /\ i <= Len(s) /\ x.focus <= MaxWindows
    BY <1>2, <1>5, GoodFields DEF InArray
  <2> QED
    BY <1>3, <1>5, <1>6, <2>1, GoodFields DEF InArray
<1>8. WinSet(y) = (WinSet(x) \ {w}) \cup {v}
  BY <1>5, <1>6 DEF WinSet
<1>9. Alerted(WinSet(y), x.modal)
  BY <1>2, <1>3, <1>8, GoodFields, TouchAlerted
<1>10. Counted(WinSet(y), x.inst, x.orphans, 0)
  BY <1>2, <1>3, <1>8, GoodFields, TouchCounted
<1>11. Dragged(WinSet(y), y.drag, y.modal) /\ Private(y.inst, y.states)
  BY <1>6, GoodFields DEF Dragged
<1> QED
  BY <1>6, <1>7, <1>9, <1>10, <1>11 DEF Good, Sound, y

LEMMA MoveGood ==
  ASSUME NEW x, Good(x), NEW off \in BOOLEAN
  PROVE  LET y == HandleMove(x, off)
         IN  Good(y) /\ Frame(x, y) /\ y.drag = x.drag /\ y.button = x.button
<1> DEFINE y == HandleMove(x, off)
           i == IndexOf(x, x.drag)
<1>0. x \in Desk
  BY GoodFields
<1>1. CASE i = 0
  <2>1. y = x
    BY <1>1 DEF HandleMove
  <2> QED
    BY <2>1 DEF Frame
<1>2. CASE i # 0
  <2> DEFINE w == x.wins[i]
             v == [w EXCEPT !.left = off]
             s == [x.wins EXCEPT ![i] = v]
  <2>1. i \in 1 .. Len(x.wins) /\ w \in WinSet(x) /\ w \in Win /\ x.wins \in Seq(Win)
        /\ x.drag # 0 /\ w.id = x.drag
    BY <1>0, <1>2, IndexOfFacts, DeskLen, DeskFields
  <2>2. v \in Win /\ v.id = w.id /\ v.owner = w.owner /\ v.alert = w.alert /\ v.min = w.min
    BY <2>1 DEF Win
  <2>3. y = [x EXCEPT !.wins = s]
    BY <1>2 DEF HandleMove
  <2> HIDE DEF v
  <2>4. /\ s \in Seq(Win) /\ Len(s) = Len(x.wins) /\ DistinctIds(s) /\ BoundedIds(s)
        /\ \A j \in 1 .. Len(x.wins) : s[j] = IF j = i THEN v ELSE x.wins[j]
        /\ SetOf(s) = (WinSet(x) \ {w}) \cup {v}
    BY <2>1, <2>2, GoodFields, UpdateFacts DEF WinSet
  <2>5. \A j \in 1 .. Len(x.wins) : s[j].min = x.wins[j].min
    BY <2>2, <2>4
  <2> HIDE DEF s, w, y
  <2>6. /\ y \in Desk /\ y.wins = s /\ y.drag = x.drag /\ y.modal = x.modal /\ y.button = x.button
        /\ y.inst = x.inst /\ y.states = x.states /\ y.orphans = x.orphans /\ y.focus = x.focus
        /\ Frame(x, y)
    BY <1>0, <2>3, <2>4 DEF Desk, Frame
  <2>7. InArray(y.wins, y.focus)
    <3>1. x.focus \in Nat \ {0} /\ Len(x.wins) \in Nat
      BY <1>0, DeskFields, DeskLen
    <3>2. Visible(s) => x.focus <= Len(s) /\ ~s[x.focus].min
      <4>1. Visible(s) => Visible(x.wins)
        BY <2>4, <2>5 DEF Visible
      <4>2. Visible(x.wins) => x.focus <= Len(x.wins) /\ ~x.wins[x.focus].min
        BY GoodFields DEF InArray
      <4> QED
        BY <2>4, <2>5, <3>1, <4>1, <4>2
    <3> QED
      BY <2>4, <2>6, <3>2, GoodFields DEF InArray
  <2>8. WinSet(y) = (WinSet(x) \ {w}) \cup {v}
    BY <2>4, <2>6 DEF WinSet
  <2>9. x.modal = 0
    BY <2>1, GoodFields DEF Dragged
  <2>10. Alerted(WinSet(y), x.modal)
    BY <2>1, <2>2, <2>8, <2>9, GoodFields, TouchAlerted
  <2>11. Counted(WinSet(y), x.inst, x.orphans, 0)
    BY <2>1, <2>2, <2>8, GoodFields, TouchCounted
  <2>12. Dragged(WinSet(y), x.drag, x.modal)
    BY <2>1, <2>2, <2>8, GoodFields, TouchDragged
  <2>13. Private(y.inst, y.states)
    BY <2>6, GoodFields
  <2> QED
    BY <2>6, <2>7, <2>10, <2>11, <2>12, <2>13 DEF Good, Sound, y
<1> QED
  BY <1>1, <1>2

----------------------------------------------------------------------------
(***************************************************************************)
(* desktop_init, and windows that open.  A handler may find the desktop    *)
(* uninitialised only from the prompt, and drags nothing new.              *)
(***************************************************************************)
Kept(x, y) ==
  /\ x.initialized => Frame(x, y)
  /\ y.drag # 0 => y.drag = x.drag /\ y.button = x.button

LEMMA KeptTransitive ==
  ASSUME NEW x, NEW y, NEW z, Kept(x, y), Kept(y, z)
  PROVE  Kept(x, z)
BY DEF Kept, Frame

LEMMA LayoutFacts ==
  /\ Layout \in Seq(Win) /\ Len(Layout) = 2 /\ DistinctIds(Layout) /\ BoundedIds(Layout)
  /\ ~Layout[1].min
  /\ \A w \in SetOf(Layout) : w.owner = 0 /\ ~w.alert /\ w.id <= 2
<1> DEFINE a == Window(1, 0, FALSE)
           b == Window(2, 0, FALSE)
<1>1. /\ a \in Win /\ a.id = 1 /\ a.owner = 0 /\ ~a.alert /\ ~a.min
      /\ b \in Win /\ b.id = 2 /\ b.owner = 0 /\ ~b.alert /\ ~b.min
  BY DEF Window, Win
<1> HIDE DEF a, b
<1>2. Layout = <<a, b>>
  BY DEF Layout, a, b
<1>3. Layout \in Seq(Win) /\ Len(Layout) = 2 /\ Layout[1] = a /\ Layout[2] = b
  BY <1>1, <1>2
<1>4. \A i \in 1 .. 2 : i = 1 \/ i = 2
  OBVIOUS
<1>5. DistinctIds(Layout)
  BY <1>1, <1>3, <1>4 DEF DistinctIds
<1>6. BoundedIds(Layout)
  <2>1. \A i \in 1 .. 2 : Layout[i].id <= 2
    BY <1>1, <1>3, <1>4
  <2> QED
    BY <1>3, <2>1 DEF BoundedIds
<1>7. SetOf(Layout) = {a, b}
  BY <1>3, <1>4 DEF SetOf
<1> QED
  BY <1>1, <1>3, <1>5, <1>6, <1>7

\* desktop_init: the two windows of the layout, and every instance that had a
\* window is an orphan.
LEMMA InitSound ==
  ASSUME NEW x, NEW p, Sound(x, p)
  PROVE  LET y == DesktopInit(x)
         IN  /\ Sound(y, p) /\ y.inst = x.inst /\ y.states = x.states /\ y.initialized
             /\ y.drag = 0 /\ y.wins = Layout
             /\ \A q \in Slots : x.inst[q].app # "none" /\ q # p => q \in y.orphans
<1> DEFINE O == {s \in Running(x) : x.inst[s].count > 0}
           m == [out |-> {}, keys |-> FALSE]
           y == DesktopInit(x)
<1>1. x \in Desk /\ Counted(WinSet(x), x.inst, x.orphans, p)
  BY DEF Sound
<1>2. O \in SUBSET Slots /\ m \in [out : Sinks, keys : BOOLEAN]
  BY DEF Running, Sinks
<1>3. y = [x EXCEPT !.initialized = TRUE, !.wins = Layout, !.modal = 0, !.drag = 0,
                    !.launcher = FALSE, !.active = FALSE, !.saved = m, !.orphans = O,
                    !.focus = 1, !.button = FALSE]
  BY <1>1 DEF DesktopInit, InputReset, Desk
<1>4. O = {s \in Slots : x.inst[s].app # "none" /\ s # p}
  <2>1. \A s \in Slots : x.inst[s].count \in Nat
    BY <1>1, DeskFields, InstFields
  <2>2. \A s \in Slots : x.inst[s].app # "none" => (x.inst[s].count > 0 <=> s # p)
    BY <1>1, <2>1, Constants DEF Counted
  <2> QED
    BY <2>2 DEF Running
<1> HIDE DEF O, m, y
<1>5. /\ y \in Desk /\ y.inst = x.inst /\ y.states = x.states /\ y.initialized /\ y.drag = 0
      /\ y.wins = Layout /\ y.focus = 1 /\ y.modal = 0 /\ y.orphans = O
  <2>1. y \in Desk
    <3> DEFINE a == [x EXCEPT !.initialized = TRUE, !.wins = Layout, !.modal = 0, !.drag = 0]
               b == [a EXCEPT !.launcher = FALSE, !.active = FALSE, !.saved = m]
    <3>1. y = [b EXCEPT !.orphans = O, !.focus = 1, !.button = FALSE]
      BY <1>1, <1>3 DEF Desk
    <3>2. Layout \in Seq(Win)
      BY LayoutFacts
    <3>3. a \in Desk
      BY <1>1, <3>2 DEF Desk
    <3> HIDE DEF a
    <3>4. b \in Desk
      BY <1>2, <3>3 DEF Desk
    <3> HIDE DEF b
    <3>5. O \in SUBSET Slots /\ 1 \in Nat \ {0}
      BY <1>2
    <3> QED
      BY <3>1, <3>4, <3>5 DEF Desk
  <2>2. /\ y.inst = x.inst /\ y.states = x.states /\ y.initialized = TRUE /\ y.drag = 0
        /\ y.wins = Layout /\ y.focus = 1 /\ y.modal = 0 /\ y.orphans = O
    BY <1>1, <1>3 DEF Desk
  <2> QED
    BY <2>1, <2>2
<1>6. InArray(y.wins, y.focus)
  BY <1>5, LayoutFacts, Constants DEF InArray
<1>7. WinSet(y) = SetOf(Layout)
  BY <1>5 DEF WinSet
<1>8. Alerted(WinSet(y), y.modal)
  <2>1. \A w \in WinSet(y) : w.id # 0
    BY <1>5, DeskLen, WinFields
  <2> QED
    BY <1>5, <1>7, <2>1, LayoutFacts DEF Alerted
<1>9. Dragged(WinSet(y), y.drag, y.modal)
  BY <1>5 DEF Dragged
<1>10. Counted(WinSet(y), x.inst, O, p)
  BY <1>1, <1>4, <1>7, LayoutFacts DEF Counted
<1> QED
  BY <1>4, <1>5, <1>6, <1>7, <1>8, <1>9, <1>10, LayoutFacts DEF Sound, y

LEMMA EnsureInitSound ==
  ASSUME NEW x, NEW p, Sound(x, p)
  PROVE  LET y == EnsureInit(x)
         IN  Sound(y, p) /\ y.inst = x.inst /\ y.states = x.states /\ Kept(x, y)
<1>1. CASE x.initialized
  BY <1>1 DEF EnsureInit, Kept, Frame
<1>2. CASE ~x.initialized
  <2>1. EnsureInit(x) = DesktopInit(x)
    BY <1>2 DEF EnsureInit
  <2> QED
    BY <1>2, <2>1, InitSound DEF Kept
<1> QED
  BY <1>1, <1>2

LEMMA FreshId ==
  ASSUME NEW x \in Desk, BoundedIds(x.wins)
  PROVE  /\ NextWindowId(x) \in Nat \ {0}
         /\ \A w \in WinSet(x) : w.id # NextWindowId(x)
<1> DEFINE S == {0} \cup {x.wins[i].id : i \in DOMAIN x.wins}
<1>1. PICK b \in Nat : \A i \in 1 .. Len(x.wins) : x.wins[i].id <= b
  BY DEF BoundedIds
<1>2. DOMAIN x.wins = 1 .. Len(x.wins) /\ \A i \in 1 .. Len(x.wins) : x.wins[i].id \in Nat
  BY DeskLen, WinFields
<1>3. S \in SUBSET Nat /\ S # {} /\ \A n \in S : n <= b
  BY <1>1, <1>2
<1>4. \A w \in WinSet(x) : w.id \in S
  BY <1>2 DEF WinSet, SetOf
<1>5. NextWindowId(x) = Max(S) + 1
  BY DEF NextWindowId
<1> HIDE DEF S
<1>6. Max(S) \in S /\ \A n \in S : Max(S) >= n
  BY <1>1, <1>3, MaxIsGreatest
<1>7. Max(S) \in Nat /\ \A n \in S : n # Max(S) + 1
  <2> DEFINE m == Max(S)
  <2> HIDE DEF m
  <2>1. m \in Nat
    BY <1>3, <1>6 DEF m
  <2>2. ASSUME NEW n \in S PROVE n # m + 1
    <3>1. n \in Nat /\ m >= n
      BY <1>3, <1>6 DEF m
    <3> QED
      BY <2>1, <3>1
  <2> QED
    BY <2>1, <2>2 DEF m
<1> QED
  BY <1>4, <1>5, <1>7

LEMMA RaiseVisible ==
  ASSUME NEW x \in Desk, DistinctIds(x.wins), BoundedIds(x.wins),
         NEW i \in 1 .. Len(x.wins), ~x.wins[i].min, NEW id, id = x.wins[i].id
  PROVE  LET y == Raise(x, id)
         IN  /\ y \in Desk /\ Same(x, y)
             /\ Len(y.wins) = Len(x.wins) /\ y.focus = Len(x.wins)
             /\ y.wins[Len(x.wins)] = x.wins[i]
             /\ DistinctIds(y.wins) /\ BoundedIds(y.wins) /\ WinSet(y) = WinSet(x)
<1> DEFINE y == Raise(x, id)
           w == x.wins[i]
           v == [w EXCEPT !.min = FALSE]
<1>1. w \in Win /\ w \in WinSet(x) /\ i # 0 /\ IndexOf(x, id) = i
  BY DeskLen, IndexOfWindow
<1>2. v = w
  BY <1>1 DEF Win
<1>3. /\ y \in Desk /\ Same(x, y)
      /\ Len(y.wins) = Len(x.wins) /\ y.focus = Len(x.wins) /\ y.wins[Len(x.wins)] = v
      /\ DistinctIds(y.wins) /\ BoundedIds(y.wins)
      /\ WinSet(y) = (WinSet(x) \ {w}) \cup {v}
  BY <1>1, RaiseFacts
<1> HIDE DEF y, v, w
<1>4. WinSet(y) = WinSet(x)
  BY <1>1, <1>2, <1>3
<1> QED
  BY <1>2, <1>3, <1>4 DEF y, w

\* A window with a new id is put in and raised.
LEMMA AddFacts ==
  ASSUME NEW s \in Seq(Win), Len(s) < MaxWindows, DistinctIds(s), BoundedIds(s),
         NEW v \in Win, ~v.min, \A w \in SetOf(s) : w.id # v.id,
         NEW z \in Desk, z.wins = Append(s, v), NEW id, id = v.id
  PROVE  LET y == Raise(z, id)
         IN  /\ y \in Desk /\ Same(z, y) /\ InArray(y.wins, y.focus)
             /\ WinSet(y) = SetOf(s) \cup {v}
<1> DEFINE t == Append(s, v)
           y == Raise(z, id)
<1>1. /\ t \in Seq(Win) /\ Len(t) = Len(s) + 1 /\ t[Len(s) + 1] = v
      /\ DistinctIds(t) /\ BoundedIds(t) /\ SetOf(t) = SetOf(s) \cup {v}
  BY AppendFacts
<1> HIDE DEF t, y
<1>2. z.wins = t /\ Len(s) \in Nat
  BY SeqFacts DEF t
<1> DEFINE i == Len(s) + 1
<1>3. i \in 1 .. Len(z.wins) /\ z.wins[i] = v
  BY <1>1, <1>2
<1> HIDE DEF i
<1>4. /\ y \in Desk /\ Same(z, y)
      /\ Len(y.wins) = Len(z.wins) /\ y.focus = Len(z.wins)
      /\ y.wins[Len(z.wins)] = z.wins[i]
      /\ DistinctIds(y.wins) /\ BoundedIds(y.wins) /\ WinSet(y) = WinSet(z)
  BY <1>1, <1>2, <1>3, RaiseVisible DEF y
<1>5. WinSet(y) = SetOf(s) \cup {v}
  BY <1>1, <1>2, <1>4 DEF WinSet
<1>6. InArray(y.wins, y.focus)
  <2>1. y.wins \in Seq(Win) /\ Len(y.wins) # 0 /\ Len(y.wins) <= MaxWindows
    BY <1>1, <1>2, <1>4, DeskFields, Constants
  <2> QED
    BY <1>3, <1>4, <2>1, LastFocused
<1> QED
  BY <1>4, <1>5, <1>6 DEF y

\* desktop_show_alert: one alert at most, brought to the front or opened, with
\* nothing dragged; or none, where the array has no room for it.
LEMMA ShowAlertSound ==
  ASSUME NEW x, NEW p, Sound(x, p)
  PROVE  LET y == ShowAlert(x)
         IN  Sound(y, p) /\ y.inst = x.inst /\ y.states = x.states /\ Kept(x, y)
<1> DEFINE y == EnsureInit(x)
           z == IF IndexOf(y, y.modal) = 0 THEN [y EXCEPT !.modal = 0] ELSE y
           id == NextWindowId(y)
           v == Window(id, 0, TRUE)
           a == [y EXCEPT !.wins = Append(y.wins, v), !.modal = id]
           f == ShowAlert(x)
<1>1. Sound(y, p) /\ y.inst = x.inst /\ y.states = x.states /\ Kept(x, y)
  BY EnsureInitSound
<1>2. /\ y \in Desk /\ InArray(y.wins, y.focus) /\ Alerted(WinSet(y), y.modal)
      /\ Counted(WinSet(y), y.inst, y.orphans, p)
  BY <1>1 DEF Sound
<1> HIDE DEF y
<1>3. z = y
  <2>1. CASE y.modal = 0
    <3>1. [y EXCEPT !.modal = 0] = y
      BY <1>2, <2>1 DEF Desk
    <3> QED
      BY <3>1
  <2>2. CASE y.modal # 0
    BY <1>1, <2>2, ModalThere
  <2> QED
    BY <2>1, <2>2
<1>4. f = IF y.modal # 0
          THEN [Raise(y, y.modal) EXCEPT !.drag = 0, !.launcher = FALSE]
          ELSE IF Len(y.wins) >= MaxWindows THEN y
          ELSE [Raise(a, id) EXCEPT !.drag = 0, !.launcher = FALSE]
  <2>1. f = LET u == z IN
            IF u.modal # 0
            THEN [Raise(u, u.modal) EXCEPT !.drag = 0, !.launcher = FALSE]
            ELSE IF Len(u.wins) >= MaxWindows THEN u
            ELSE [Raise([u EXCEPT !.wins = Append(u.wins, Window(NextWindowId(u), 0, TRUE)),
                                  !.modal = NextWindowId(u)], NextWindowId(u))
                    EXCEPT !.drag = 0, !.launcher = FALSE]
    BY DEF ShowAlert, y
  <2> HIDE DEF z, f
  <2> QED
    BY <1>3, <2>1
<1> HIDE DEF z
<1>5. ASSUME NEW b, Sound(b, p), b.modal # 0, b.inst = y.inst, b.states = y.states, Frame(y, b),
             f = [b EXCEPT !.drag = 0, !.launcher = FALSE]
      PROVE  Sound(f, p) /\ f.inst = x.inst /\ f.states = x.states /\ Kept(x, f)
  <2>1. b \in Desk
    BY <1>5 DEF Sound
  <2> HIDE DEF f
  <2>2. /\ f \in Desk /\ f.wins = b.wins /\ f.focus = b.focus /\ f.modal = b.modal /\ f.drag = 0
        /\ f.inst = b.inst /\ f.states = b.states /\ f.orphans = b.orphans
        /\ f.initialized = b.initialized /\ f.active = b.active /\ f.saved = b.saved
    BY <1>5, <2>1 DEF Desk
  <2>3. Sound(f, p)
    BY <1>5, <2>2 DEF Sound, WinSet, Dragged
  <2>4. Frame(y, f)
    BY <1>5, <2>2 DEF Frame
  <2>5. Kept(y, f)
    BY <2>2, <2>4 DEF Kept
  <2> QED
    BY <1>1, <1>5, <2>2, <2>3, <2>5, KeptTransitive
<1>6. CASE y.modal # 0
  <2> DEFINE b == Raise(y, y.modal)
  <2>1. Sound(b, p) /\ Same(y, b)
    BY <1>1, RaiseSound
  <2>2. f = [b EXCEPT !.drag = 0, !.launcher = FALSE]
    BY <1>4, <1>6
  <2> HIDE DEF b, f
  <2>3. b.modal # 0 /\ b.inst = y.inst /\ b.states = y.states /\ Frame(y, b)
    BY <1>6, <2>1 DEF Same
  <2> QED
    BY <1>5, <2>1, <2>2, <2>3 DEF f
<1>7. CASE y.modal = 0 /\ Len(y.wins) >= MaxWindows
  <2>1. f = y
    BY <1>4, <1>7
  <2> QED
    BY <1>1, <2>1
<1>8. CASE y.modal = 0 /\ ~(Len(y.wins) >= MaxWindows)
  <2> DEFINE b == Raise(a, id)
  <2>1. DistinctIds(y.wins) /\ BoundedIds(y.wins) /\ y.wins \in Seq(Win) /\ Len(y.wins) < MaxWindows
    BY <1>2, <1>8, DeskFields, DeskLen, Constants DEF InArray
  <2>2. id \in Nat \ {0} /\ \A w \in WinSet(y) : w.id # id
    BY <1>2, <2>1, FreshId
  <2>3. f = [b EXCEPT !.drag = 0, !.launcher = FALSE]
    BY <1>4, <1>8
  <2> HIDE DEF id
  <2>4. v \in Win /\ v.id = id /\ v.owner = 0 /\ v.alert /\ ~v.min
    BY <2>2 DEF Window, Win
  <2> HIDE DEF v
  <2> DEFINE t == Append(y.wins, v)
  <2>5. t \in Seq(Win)
    BY <2>1, <2>4
  <2>6. a = [y EXCEPT !.wins = t, !.modal = id]
    OBVIOUS
  <2> HIDE DEF t, a, b
  <2>7. /\ a \in Desk /\ a.wins = t /\ a.modal = id /\ a.inst = y.inst /\ a.states = y.states
        /\ a.orphans = y.orphans /\ a.drag = y.drag /\ Frame(y, a)
    BY <1>2, <2>2, <2>5, <2>6 DEF Desk, Frame
  <2>8. /\ b \in Desk /\ Same(a, b) /\ InArray(b.wins, b.focus)
        /\ WinSet(b) = SetOf(y.wins) \cup {v}
    <3>1. a.wins = Append(y.wins, v) /\ \A w \in SetOf(y.wins) : w.id # v.id
      BY <2>2, <2>4, <2>7 DEF t, WinSet
    <3> QED
      BY <2>1, <2>4, <2>7, <3>1, AddFacts DEF b
  <2>9. /\ b.modal = id /\ b.inst = y.inst /\ b.states = y.states /\ b.orphans = y.orphans
        /\ Frame(y, b) /\ WinSet(b) = WinSet(y) \cup {v} /\ b.drag = y.drag
    BY <2>7, <2>8 DEF Same, Frame, WinSet
  <2>10. Alerted(WinSet(b), id)
    <3>1. \A w \in WinSet(y) : ~w.alert
      <4>1. \A w \in WinSet(y) : w.id # 0
        BY <1>2, DeskLen, WinFields
      <4> QED
        BY <1>2, <1>8, <4>1 DEF Alerted
    <3> QED
      BY <2>2, <2>4, <2>9, <3>1 DEF Alerted
  <2>11. Counted(WinSet(b), b.inst, b.orphans, p)
    BY <1>2, <2>4, <2>9, UnownedCounted
  <2>12. id # 0
    BY <2>2
  <2> DEFINE g == [b EXCEPT !.drag = 0]
  <2>13. /\ g \in Desk /\ g.wins = b.wins /\ g.focus = b.focus /\ g.modal = b.modal /\ g.drag = 0
         /\ g.inst = b.inst /\ g.states = b.states /\ g.orphans = b.orphans /\ Frame(y, g)
    BY <2>8, <2>9 DEF Desk, Frame
  <2>14. f = [g EXCEPT !.drag = 0, !.launcher = FALSE]
    BY <2>3, <2>8 DEF Desk
  <2> HIDE DEF g, f
  <2>15. Sound(g, p)
    BY <2>8, <2>9, <2>10, <2>11, <2>13 DEF Sound, WinSet, Dragged
  <2>16. g.modal # 0 /\ g.inst = y.inst /\ g.states = y.states
    BY <2>9, <2>12, <2>13
  <2> QED
    BY <1>5, <2>13, <2>14, <2>15, <2>16 DEF f
<1> QED
  BY <1>6, <1>7, <1>8

LEMMA ShowAlertGood ==
  ASSUME NEW x, Good(x)
  PROVE  Good(ShowAlert(x)) /\ Kept(x, ShowAlert(x))
<1>1. /\ Sound(ShowAlert(x), 0) /\ ShowAlert(x).inst = x.inst /\ ShowAlert(x).states = x.states
      /\ Kept(x, ShowAlert(x))
  BY ShowAlertSound DEF Good
<1> QED
  BY <1>1 DEF Good

----------------------------------------------------------------------------
(* Starting an application *)

\* The first window of the instance that is being started.
LEMMA FirstCounted ==
  ASSUME NEW W, NEW v, NEW inst \in [Slots -> Inst], NEW orphans \in SUBSET Slots,
         NEW s \in Slots, Counted(W, inst, orphans, s), v.owner = s,
         NEW one, one = [inst[s] EXCEPT !.count = inst[s].count + 1]
  PROVE  Counted(W \cup {v}, [inst EXCEPT ![s] = one], orphans, 0)
<1> DEFINE U == W \cup {v}
           J == [inst EXCEPT ![s] = one]
<1>0. s # 0 /\ 0 \notin Slots /\ MaxWindows \in Nat /\ MaxWindows >= 2
  BY Constants
<1>1. inst[s] \in Inst /\ inst[s].app # "none" /\ inst[s].count = 0 /\ s \notin orphans
  BY <1>0 DEF Counted
<1>2. one.app = inst[s].app /\ one.count = 1
  BY <1>1 DEF Inst
<1>3. \A q \in Slots : J[q] = IF q = s THEN one ELSE inst[q]
  OBVIOUS
<1>4. Ids(U, s) = {v.id}
  BY <1>0 DEF Ids, Counted
<1>5. Cardinality(Ids(U, s)) = 1
  BY <1>4, FS_Singleton
<1>6. \A q \in Slots : q # s => Ids(U, q) = Ids(W, q)
  BY DEF Ids
<1>7. \A u \in U : u.owner # 0 => J[u.owner].app # "none" /\ u.owner \notin orphans /\ u.owner # 0
  <2> SUFFICES ASSUME NEW u \in U, u.owner # 0
               PROVE  J[u.owner].app # "none" /\ u.owner \notin orphans
    OBVIOUS
  <2>1. CASE u.owner = s
    BY <1>1, <1>2, <1>3, <2>1
  <2>2. CASE u.owner # s
    <3>1. u \in W
      BY <2>2
    <3>2. J[u.owner] = inst[u.owner]
      BY <2>2
    <3> QED
      BY <3>1, <3>2 DEF Counted
  <2> QED
    BY <2>1, <2>2
<1> HIDE DEF U, J
<1>8. \A q \in Slots : J[q].app = "none" => J[q] = Idle
  BY <1>1, <1>2, <1>3 DEF Counted
<1>9. ASSUME NEW q \in Slots
      PROVE  J[q].count <= MaxWindows /\ (J[q].app # "none" /\ q # 0 => J[q].count > 0)
  <2>1. CASE q = s
    <3>1. J[q].count = 1
      BY <1>2, <1>3, <2>1
    <3> QED
      BY <1>0, <3>1
  <2>2. CASE q # s
    <3>1. J[q] = inst[q]
      BY <1>3, <2>2
    <3> QED
      BY <2>2, <3>1 DEF Counted
  <2> QED
    BY <2>1, <2>2
<1>10. \A q \in Slots : J[q].app # "none" /\ q # 0 => J[q].count > 0
  BY <1>9
<1>11. \A q \in Slots : J[q].app # "none" /\ q \notin orphans /\ q # 0
                          => J[q].count = Cardinality(Ids(U, q))
  BY <1>2, <1>3, <1>5, <1>6 DEF Counted
<1>12. \A q \in orphans : J[q].app # "none" /\ q # 0
  BY <1>0, <1>1, <1>3 DEF Counted
<1>13. Counted(U, J, orphans, 0)
  BY <1>7, <1>8, <1>9, <1>10, <1>11, <1>12 DEF Counted
<1> QED
  BY <1>13 DEF U, J

\* desktop_open_app_instance_window, for the first window of instance s.
LEMMA OpenWindowSound ==
  ASSUME NEW x, NEW s \in Slots, Sound(x, s)
  PROVE  LET r == OpenAppInstanceWindow(x, s)
             one == [x.inst[s] EXCEPT !.count = x.inst[s].count + 1]
         IN  /\ r.ok \in BOOLEAN /\ Kept(x, r.d) /\ r.d.states = x.states
             /\ ~r.ok => Sound(r.d, s) /\ r.d.inst = x.inst
             /\ r.ok => Sound(r.d, 0) /\ r.d.inst = [x.inst EXCEPT ![s] = one]
<1> DEFINE y == EnsureInit(x)
           r == OpenAppInstanceWindow(x, s)
           id == NextWindowId(y)
           v == Window(id, s, FALSE)
           one == [x.inst[s] EXCEPT !.count = x.inst[s].count + 1]
           J == [x.inst EXCEPT ![s] = one]
           t == Append(y.wins, v)
           a == [y EXCEPT !.wins = t, !.inst = J]
           b == Raise(a, id)
<1>1. Sound(y, s) /\ y.inst = x.inst /\ y.states = x.states /\ Kept(x, y)
  BY EnsureInitSound
<1>2. /\ y \in Desk /\ InArray(y.wins, y.focus) /\ Alerted(WinSet(y), y.modal)
      /\ Counted(WinSet(y), y.inst, y.orphans, s) /\ Dragged(WinSet(y), y.drag, y.modal)
  BY <1>1 DEF Sound
<1>3. x.inst \in [Slots -> Inst] /\ y.orphans \in SUBSET Slots
  BY <1>2, DeskFields DEF Sound
<1> HIDE DEF y
<1>4. r = IF Len(y.wins) >= MaxWindows THEN [d |-> y, ok |-> FALSE] ELSE [d |-> b, ok |-> TRUE]
  <2>1. [y EXCEPT !.wins = Append(y.wins, Window(NextWindowId(y), s, FALSE)),
                  !.inst[s].count = y.inst[s].count + 1] = a
    BY <1>1
  <2> QED
    BY <2>1 DEF OpenAppInstanceWindow, y
<1>5. CASE Len(y.wins) >= MaxWindows
  <2>1. r = [d |-> y, ok |-> FALSE]
    BY <1>4, <1>5
  <2> HIDE DEF r
  <2>2. r.d = y /\ r.ok = FALSE
    BY <2>1
  <2> QED
    BY <1>1, <2>2 DEF r
<1>6. CASE ~(Len(y.wins) >= MaxWindows)
  <2>1. DistinctIds(y.wins) /\ BoundedIds(y.wins) /\ y.wins \in Seq(Win) /\ Len(y.wins) < MaxWindows
    BY <1>2, <1>6, DeskFields, DeskLen, Constants DEF InArray
  <2>2. id \in Nat \ {0} /\ \A w \in WinSet(y) : w.id # id
    BY <1>2, <2>1, FreshId
  <2>3. r = [d |-> b, ok |-> TRUE]
    BY <1>4, <1>6
  <2> HIDE DEF id
  <2>4. v \in Win /\ v.id = id /\ v.owner = s /\ ~v.alert /\ ~v.min
    BY <2>2 DEF Window, Win
  <2> HIDE DEF v
  <2>5. t \in Seq(Win)
    BY <2>1, <2>4
  <2>6. one \in Inst
    BY <1>3 DEF Inst
  <2>7. J \in [Slots -> Inst]
    BY <1>3, <2>6
  <2>8. \A q \in y.orphans : J[q] = y.inst[q]
    <3>1. s \notin y.orphans
      BY <1>2 DEF Counted
    <3> QED
      BY <1>1, <1>3, <3>1
  <2>9. Counted(WinSet(y) \cup {v}, J, y.orphans, 0)
    BY <1>1, <1>2, <1>3, <2>4, FirstCounted
  <2> HIDE DEF one, J, t, r, b
  <2>10. /\ a \in Desk /\ a.wins = t /\ a.modal = y.modal /\ a.inst = J /\ a.states = y.states
         /\ a.orphans = y.orphans /\ a.drag = y.drag /\ a.button = y.button
         /\ a.initialized = y.initialized /\ a.active = y.active /\ a.saved = y.saved
    BY <1>2, <2>5, <2>7 DEF Desk
  <2> HIDE DEF a
  <2>11. /\ b \in Desk /\ Same(a, b) /\ InArray(b.wins, b.focus)
         /\ WinSet(b) = SetOf(y.wins) \cup {v}
    <3>1. a.wins = Append(y.wins, v) /\ \A w \in SetOf(y.wins) : w.id # v.id
      BY <2>2, <2>4, <2>10 DEF t, WinSet
    <3> QED
      BY <2>1, <2>4, <2>10, <3>1, AddFacts DEF b
  <2>12. /\ b.modal = y.modal /\ b.inst = J /\ b.states = y.states /\ b.orphans = y.orphans
         /\ WinSet(b) = WinSet(y) \cup {v} /\ b.drag = y.drag /\ b.button = y.button
         /\ Frame(y, b)
    BY <2>8, <2>10, <2>11 DEF Same, Frame, WinSet
  <2>13. Alerted(WinSet(b), y.modal)
    <3>1. v.id # y.modal
      BY <1>2, <2>2, <2>4 DEF Alerted
    <3> QED
      BY <1>2, <2>4, <2>12, <3>1 DEF Alerted
  <2>14. Dragged(WinSet(b), y.drag, y.modal)
    BY <1>2, <2>12 DEF Dragged
  <2>15. Sound(b, 0)
    BY <2>9, <2>11, <2>12, <2>13, <2>14 DEF Sound
  <2>16. Kept(x, b)
    <3>1. Kept(y, b)
      BY <2>12 DEF Kept
    <3> QED
      BY <1>1, <3>1, KeptTransitive
  <2>17. r.d = b /\ r.ok = TRUE
    BY <2>3
  <2> QED
    BY <1>1, <2>12, <2>15, <2>16, <2>17 DEF r, J, one
<1> QED
  BY <1>5, <1>6

\* The state the application takes for the instance is its own.
LEMMA StartedPrivate ==
  ASSUME NEW inst \in [Slots -> Inst], NEW states \in [Apps -> SUBSET Slots],
         Private(inst, states), NEW s \in Slots, inst[s].app = "none",
         NEW app \in Apps, NEW k \in Slots, k \notin states[app],
         NEW i \in Inst, i.app = app, i.data = k,
         NEW T, T = [states EXCEPT ![app] = states[app] \cup {k}],
         NEW J, J = [inst EXCEPT ![s] = i]
  PROVE  Private(J, T)
<1>1. \A q \in Slots : J[q] = IF q = s THEN i ELSE inst[q]
  OBVIOUS
<1>2. \A a \in Apps : T[a] = IF a = app THEN states[a] \cup {k} ELSE states[a]
  OBVIOUS
<1>3. \A q \in Slots : inst[q].app # "none" => inst[q].app \in Apps
  BY InstFields
<1>4. app # "none"
  BY Constants
<1>5. ASSUME NEW q \in Slots, J[q].app # "none"
      PROVE  J[q].data \in T[J[q].app]
  <2>1. CASE q = s
    BY <1>1, <1>2, <2>1
  <2>2. CASE q # s
    <3>1. inst[q].app \in Apps /\ inst[q].data \in states[inst[q].app] /\ J[q] = inst[q]
      BY <1>1, <1>3, <1>5, <2>2 DEF Private
    <3> QED
      BY <1>2, <3>1
  <2> QED
    BY <2>1, <2>2
<1>6. ASSUME NEW a \in Apps, NEW l \in T[a]
      PROVE  \E q \in Slots : J[q].app = a /\ J[q].data = l
  <2>1. CASE l \in states[a]
    <3>1. PICK q \in Slots : inst[q].app = a /\ inst[q].data = l
      BY <2>1 DEF Private
    <3>2. q # s
      BY <3>1, Constants
    <3> QED
      BY <1>1, <3>1, <3>2
  <2>2. CASE l \notin states[a]
    <3>1. a = app /\ l = k
      BY <1>2, <1>6, <2>2
    <3> QED
      BY <1>1, <3>1
  <2> QED
    BY <2>1, <2>2
<1>7. ASSUME NEW q \in Slots, NEW r \in Slots, J[q].app # "none", J[q].app = J[r].app,
             J[q].data = J[r].data
      PROVE  q = r
  <2>1. ASSUME NEW u \in Slots, u # s, J[u].app = app PROVE J[u].data # k
    <3>1. J[u] = inst[u] /\ inst[u].data \in states[app]
      BY <1>1, <1>4, <2>1 DEF Private
    <3> QED
      BY <3>1
  <2>2. J[s].app = app /\ J[s].data = k
    BY <1>1
  <2>3. CASE q # s /\ r # s
    <3>1. J[q] = inst[q] /\ J[r] = inst[r]
      BY <1>1, <2>3
    <3> QED
      BY <1>7, <3>1 DEF Private
  <2>4. CASE q = s
    BY <1>7, <2>1, <2>2, <2>4
  <2>5. CASE r = s
    BY <1>7, <2>1, <2>2, <2>5
  <2> QED
    BY <2>3, <2>4, <2>5
<1> QED
  BY <1>5, <1>6, <1>7 DEF Private

\* Only the registry changes.
OnlyRegistry(x, y) ==
  /\ y \in Desk /\ y.wins = x.wins /\ y.focus = x.focus /\ y.modal = x.modal
  /\ y.drag = x.drag /\ y.button = x.button /\ y.orphans = x.orphans
  /\ y.initialized = x.initialized /\ y.active = x.active /\ y.saved = x.saved

SlotSet(x, y, s, i) == y.inst = [x.inst EXCEPT ![s] = i]

\* A slot that is given to an instance, or whose instance takes its state.
LEMMA SetInstSound ==
  ASSUME NEW x, NEW s \in Slots, NEW p, Sound(x, p), p = s \/ (p = 0 /\ x.inst[s].app = "none"),
         NEW i \in Inst, i.app # "none", i.count = 0,
         NEW y, OnlyRegistry(x, y), SlotSet(x, y, s, i)
  PROVE  Sound(y, s) /\ Kept(x, y)
<1> DEFINE J == y.inst
<1>1. x \in Desk /\ Counted(WinSet(x), x.inst, x.orphans, p)
  BY DEF Sound
<1>2. x.inst \in [Slots -> Inst] /\ x.orphans \in SUBSET Slots /\ 0 \notin Slots
      /\ MaxWindows \in Nat
  BY <1>1, DeskFields, Constants
<1>3. J \in [Slots -> Inst] /\ \A q \in Slots : J[q] = IF q = s THEN i ELSE x.inst[q]
  BY <1>2 DEF SlotSet
<1> HIDE DEF J
<1>4. s \notin x.orphans /\ \A w \in WinSet(x) : w.owner # s
  BY <1>1, <1>2 DEF Counted
<1>5. \A q \in x.orphans : J[q] = x.inst[q]
  BY <1>2, <1>3, <1>4
<1>6. Counted(WinSet(x), J, x.orphans, s)
  <2>1. \A w \in WinSet(x) : w.owner # 0 =>
           J[w.owner].app # "none" /\ w.owner \notin x.orphans /\ w.owner # s
    <3> SUFFICES ASSUME NEW w \in WinSet(x), w.owner # 0
                 PROVE  J[w.owner].app # "none" /\ w.owner \notin x.orphans /\ w.owner # s
      OBVIOUS
    <3>1. w.owner \in Slots /\ w.owner # s
      BY <1>1, <1>4, DeskLen, WinFields
    <3>2. J[w.owner] = x.inst[w.owner]
      BY <1>3, <3>1
    <3> QED
      BY <1>1, <3>1, <3>2 DEF Counted
  <2>2. ASSUME NEW q \in Slots
        PROVE  /\ J[q].app = "none" => J[q] = Idle
               /\ J[q].app # "none" /\ q # s => J[q].count > 0
               /\ J[q].count <= MaxWindows
               /\ J[q].app # "none" /\ q \notin x.orphans /\ q # s
                    => J[q].count = Cardinality(Ids(WinSet(x), q))
    <3>1. CASE q = s
      BY <1>2, <1>3, <3>1
    <3>2. CASE q # s
      <4>1. J[q] = x.inst[q] /\ q # p
        BY <1>2, <1>3, <3>2
      <4> QED
        BY <1>1, <4>1 DEF Counted
    <3> QED
      BY <3>1, <3>2
  <2>3. \A q \in x.orphans : J[q].app # "none" /\ q # s
    BY <1>1, <1>4, <1>5 DEF Counted
  <2>4. J[s].app # "none" /\ J[s].count = 0
    BY <1>3
  <2> QED
    BY <2>1, <2>2, <2>3, <2>4 DEF Counted
<1>7. /\ y \in Desk /\ y.inst = J /\ y.wins = x.wins /\ y.focus = x.focus
      /\ y.modal = x.modal /\ y.drag = x.drag /\ y.button = x.button /\ y.orphans = x.orphans
      /\ y.initialized = x.initialized /\ y.active = x.active /\ y.saved = x.saved
  BY DEF OnlyRegistry, J
<1>8. Kept(x, y)
  BY <1>5, <1>7 DEF Kept, Frame
<1>9. WinSet(y) = WinSet(x)
  BY <1>7 DEF WinSet
<1>10. Sound(y, s)
  BY <1>6, <1>7, <1>9 DEF Sound
<1> QED
  BY <1>8, <1>10

\* desktop_registry_stop_instance takes back the slot and the state.
LEMMA StopPending ==
  ASSUME NEW x, Good(x), NEW s \in Slots, x.inst[s].app = "none",
         NEW y, Sound(y, s), NEW i \in Inst, i.app \in Apps,
         y.inst = [x.inst EXCEPT ![s] = i],
         \/ i.data = 0 /\ y.states = x.states
         \/ /\ i.data \notin x.states[i.app]
            /\ y.states = [x.states EXCEPT ![i.app] = x.states[i.app] \cup {i.data}]
  PROVE  Good(StopInstance(y, s)) /\ Kept(y, StopInstance(y, s))
<1> DEFINE z == StopInstance(y, s)
           T == [y.states EXCEPT ![i.app] = y.states[i.app] \ {i.data}]
           J == [y.inst EXCEPT ![s] = Idle]
<1>1. /\ y \in Desk /\ Counted(WinSet(y), y.inst, y.orphans, s)
      /\ x \in Desk /\ Counted(WinSet(x), x.inst, x.orphans, 0) /\ Private(x.inst, x.states)
  BY GoodFields DEF Sound
<1>2. /\ x.inst \in [Slots -> Inst] /\ x.states \in [Apps -> SUBSET Slots] /\ 0 \notin Slots
      /\ y.inst \in [Slots -> Inst] /\ y.states \in [Apps -> SUBSET Slots]
      /\ y.orphans \in SUBSET Slots /\ "none" \notin Apps /\ MaxWindows \in Nat
  BY <1>1, DeskFields, Constants
<1>3. y.inst[s] = i /\ x.inst[s] = Idle
  BY <1>1, <1>2 DEF Counted
<1>4. J = x.inst
  BY <1>2, <1>3
<1>5. T = x.states
  <2>1. ASSUME NEW a \in Apps PROVE T[a] = x.states[a]
    <3>1. T[a] = IF a = i.app THEN y.states[a] \ {i.data} ELSE y.states[a]
      BY <1>2
    <3>2. CASE i.data = 0 /\ y.states = x.states
      <4>1. 0 \notin x.states[a]
        BY <1>2
      <4> HIDE DEF T
      <4>2. x.states[a] \ {0} = x.states[a]
        BY <4>1
      <4> QED
        BY <3>1, <3>2, <4>2
    <3>3. CASE /\ i.data \notin x.states[i.app]
               /\ y.states = [x.states EXCEPT ![i.app] = x.states[i.app] \cup {i.data}]
      <4>1. y.states[a] = IF a = i.app THEN x.states[a] \cup {i.data} ELSE x.states[a]
        BY <1>2, <3>3
      <4> HIDE DEF T
      <4> QED
        BY <3>1, <3>3, <4>1
    <3> QED
      BY <3>2, <3>3
  <2>2. T \in [Apps -> SUBSET Slots]
    BY <1>2
  <2> HIDE DEF T
  <2> QED
    BY <1>2, <2>1, <2>2
<1>6. z = [y EXCEPT !.states = T, !.inst = J]
  <2>1. y.inst[s].app = i.app /\ y.inst[s].data = i.data /\ y.inst[s].app # "none"
    BY <1>2, <1>3
  <2>2. z = [CloseApp(y, y.inst[s]) EXCEPT !.inst[s] = Idle]
    BY <2>1 DEF StopInstance
  <2>3. CloseApp(y, y.inst[s]) = [y EXCEPT !.states = T]
    BY <2>1 DEF CloseApp
  <2> DEFINE c == [y EXCEPT !.states = T]
  <2>4. c.inst = y.inst
    BY <1>1 DEF Desk
  <2>5. z = [c EXCEPT !.inst = J]
    BY <2>2, <2>3, <2>4
  <2> HIDE DEF T, J
  <2> QED
    BY <1>1, <2>5 DEF Desk
<1> HIDE DEF z, T, J
<1>7. /\ z \in Desk /\ z.inst = x.inst /\ z.states = x.states /\ z.wins = y.wins /\ z.focus = y.focus
      /\ z.modal = y.modal /\ z.drag = y.drag /\ z.button = y.button /\ z.orphans = y.orphans
      /\ z.initialized = y.initialized /\ z.active = y.active /\ z.saved = y.saved
  <2>1. z = [y EXCEPT !.states = x.states, !.inst = x.inst]
    BY <1>4, <1>5, <1>6
  <2> QED
    BY <1>1, <1>2, <2>1 DEF Desk
<1>8. \A q \in Slots : q # s => x.inst[q] = y.inst[q]
  BY <1>2
<1>9. s \notin y.orphans /\ \A w \in WinSet(y) : w.owner # s
  BY <1>1, <1>2 DEF Counted
<1>10. Kept(y, z)
  <2>1. \A q \in y.orphans : z.inst[q] = y.inst[q]
    BY <1>2, <1>7, <1>8, <1>9
  <2> QED
    BY <1>7, <2>1 DEF Kept, Frame
<1>11. Counted(WinSet(y), x.inst, y.orphans, 0)
  <2>1. \A w \in WinSet(y) : w.owner # 0 =>
           x.inst[w.owner].app # "none" /\ w.owner \notin y.orphans /\ w.owner # 0
    <3> SUFFICES ASSUME NEW w \in WinSet(y), w.owner # 0
                 PROVE  x.inst[w.owner].app # "none" /\ w.owner \notin y.orphans
      OBVIOUS
    <3>1. w.owner \in Slots /\ w.owner # s
      BY <1>1, <1>9, DeskLen, WinFields
    <3>2. x.inst[w.owner] = y.inst[w.owner]
      BY <1>8, <3>1
    <3> QED
      BY <1>1, <3>1, <3>2 DEF Counted
  <2>2. ASSUME NEW q \in Slots
        PROVE  /\ x.inst[q].app # "none" /\ q \notin y.orphans /\ q # 0
                    => x.inst[q].count = Cardinality(Ids(WinSet(y), q))
    <3>1. CASE q = s
      BY <3>1
    <3>2. CASE q # s
      <4>1. x.inst[q] = y.inst[q]
        BY <1>8, <3>2
      <4> QED
        BY <1>1, <3>2, <4>1 DEF Counted
    <3> QED
      BY <3>1, <3>2
  <2>3. \A q \in y.orphans : x.inst[q].app # "none" /\ q # 0
    BY <1>1, <1>2, <1>8, <1>9 DEF Counted
  <2>4. /\ \A q \in Slots : x.inst[q].app = "none" => x.inst[q] = Idle
        /\ \A q \in Slots : x.inst[q].app # "none" /\ q # 0 => x.inst[q].count > 0
        /\ \A q \in Slots : x.inst[q].count <= MaxWindows
    BY <1>1 DEF Counted
  <2> QED
    BY <2>1, <2>2, <2>3, <2>4 DEF Counted
<1>12. WinSet(z) = WinSet(y)
  BY <1>7 DEF WinSet
<1>13. Sound(z, 0) /\ Private(z.inst, z.states)
  BY <1>1, <1>7, <1>11, <1>12 DEF Sound
<1> QED
  BY <1>10, <1>13 DEF Good, z

\* Slot s is given to an instance of the application.
Given(x, s, app) == [x EXCEPT !.inst[s] = [Idle EXCEPT !.app = app]]

\* The instance has its slot, and perhaps its state, but no window.
HalfStarted(x, y, s, app) ==
  /\ Sound(y, s)
  /\ \E i \in Inst :
       /\ i.app = app /\ y.inst = [x.inst EXCEPT ![s] = i]
       /\ \/ i.data = 0 /\ y.states = x.states
          \/ /\ i.data \notin x.states[app]
             /\ y.states = [x.states EXCEPT ![app] = x.states[app] \cup {i.data}]

\* The start callbacks of the applications: with the instance's state and window,
\* or half started.
LEMMA StartAppSound ==
  ASSUME NEW x, Good(x), NEW s \in Slots, x.inst[s].app = "none",
         NEW app \in Apps, NEW readable \in BOOLEAN
  PROVE  LET r == StartApp(Given(x, s, app), s, app, readable)
         IN  /\ r.ok \in BOOLEAN /\ Kept(x, r.d)
             /\ r.ok => Good(r.d) /\ r.d.inst[s].count > 0
             /\ ~r.ok => HalfStarted(x, r.d, s, app)
<1> DEFINE i == [Idle EXCEPT !.app = app]
           a == Given(x, s, app)
           r == StartApp(a, s, app, readable)
           J == [x.inst EXCEPT ![s] = i]
<1>1. /\ x \in Desk /\ Sound(x, 0) /\ Private(x.inst, x.states)
      /\ x.inst \in [Slots -> Inst] /\ x.states \in [Apps -> SUBSET Slots]
      /\ app # "none"
  BY GoodFields, DeskFields, Constants DEF Good
<1>2. i \in Inst /\ i.app = app /\ i.count = 0 /\ i.data = 0
  BY DEF Idle, Inst
<1> HIDE DEF i
<1>3. J \in [Slots -> Inst] /\ J[s] = i
  BY <1>1, <1>2
<1>4. a = [x EXCEPT !.inst = J]
  BY DEF Given, i
<1>5. Sound(a, s) /\ Kept(x, a) /\ a.inst = J /\ a.states = x.states
  <2> HIDE DEF a, J
  <2>1. OnlyRegistry(x, a) /\ a.inst = J /\ a.states = x.states
    BY <1>1, <1>3, <1>4 DEF Desk, OnlyRegistry
  <2>2. SlotSet(x, a, s, i)
    BY <2>1 DEF J, SlotSet
  <2> QED
    BY <1>1, <1>2, <2>1, <2>2, SetInstSound
<1> HIDE DEF a, J
<1>6. CASE x.states[app] = Slots
  <2>1. r = [d |-> a, ok |-> FALSE]
    BY <1>5, <1>6 DEF StartApp
  <2> HIDE DEF r
  <2>2. r.d = a /\ r.ok = FALSE
    BY <2>1
  <2>3. /\ i.app = app /\ r.d.inst = [x.inst EXCEPT ![s] = i]
        /\ i.data = 0 /\ r.d.states = x.states
    BY <1>2, <1>5, <2>2 DEF J
  <2>4. HalfStarted(x, r.d, s, app)
    BY <1>2, <1>5, <2>2, <2>3 DEF HalfStarted
  <2> QED
    BY <1>5, <2>2, <2>4 DEF r, a
<1>7. CASE x.states[app] # Slots
  <2> DEFINE k == AllocState(a, app)
             T == [x.states EXCEPT ![app] = x.states[app] \cup {k}]
             y == [a EXCEPT !.states[app] = a.states[app] \cup {k}]
             z == IF app = "editor" THEN LoadFile(y, readable) ELSE y
             j == [i EXCEPT !.data = k]
             H == [x.inst EXCEPT ![s] = j]
             c == [z EXCEPT !.inst[s].data = k]
  <2>1. k \in Slots /\ k \notin x.states[app]
    <3> DEFINE S == Slots \ x.states[app]
    <3>1. S \in SUBSET Nat /\ S # {}
      BY <1>1, <1>7, Constants
    <3>2. k = Min(S)
      BY <1>5 DEF AllocState
    <3> HIDE DEF S, k
    <3>3. k \in S
      BY <3>1, <3>2, MinIsLeast
    <3> QED
      BY <3>3 DEF S
  <2>2. r = OpenAppInstanceWindow(c, s)
    BY <1>5, <1>7 DEF StartApp
  <2> HIDE DEF k
  <2>3. T \in [Apps -> SUBSET Slots]
    BY <1>1, <2>1
  <2>4. OnlyRegistry(a, y) /\ y.inst = J /\ y.states = T
    <3>1. a \in Desk
      BY <1>5 DEF Sound
    <3>2. y = [a EXCEPT !.states = T]
      BY <1>5
    <3> HIDE DEF y, T
    <3> QED
      BY <1>5, <2>3, <3>1, <3>2 DEF Desk, OnlyRegistry
  <2> HIDE DEF T, y
  <2>5. Sound(y, s) /\ Kept(a, y)
    <3>1. SlotSet(a, y, s, i)
      BY <1>3, <1>5, <2>4 DEF SlotSet
    <3>2. Sound(a, s) /\ OnlyRegistry(a, y) /\ i.app # "none"
      BY <1>1, <1>2, <1>5, <2>4
    <3> QED
      BY <1>2, <3>1, <3>2, SetInstSound
  <2>6. y.inst = J /\ y.states = T
    BY <2>4
  <2>7. Sound(z, s) /\ Kept(y, z) /\ z.inst = J /\ z.states = T
    <3>1. Kept(y, y)
      BY DEF Kept, Frame
    <3>2. /\ Sound(ShowAlert(y), s) /\ ShowAlert(y).inst = y.inst /\ ShowAlert(y).states = y.states
          /\ Kept(y, ShowAlert(y))
      BY <2>5, ShowAlertSound
    <3>3. z = y \/ z = ShowAlert(y)
      BY DEF LoadFile
    <3> QED
      BY <2>5, <2>6, <3>1, <3>2, <3>3
  <2> HIDE DEF z
  <2>8. j \in Inst /\ j.app = app /\ j.count = 0 /\ j.data = k
    BY <1>2, <2>1 DEF Inst
  <2>9. [J EXCEPT ![s] = j] = H
    BY <1>1 DEF J
  <2>10. OnlyRegistry(z, c) /\ c.inst = H /\ c.states = T
    <3>1. z \in Desk
      BY <2>7 DEF Sound
    <3>2. [J EXCEPT ![s].data = k] = H
      BY <1>3, <2>9
    <3>3. c = [z EXCEPT !.inst = H]
      BY <2>7, <3>2
    <3>4. H \in [Slots -> Inst]
      BY <1>1, <2>8
    <3> HIDE DEF H, c
    <3> QED
      BY <2>7, <3>1, <3>3, <3>4 DEF Desk, OnlyRegistry
  <2> HIDE DEF c, j
  <2>11. Sound(c, s) /\ Kept(z, c) /\ c.inst = H /\ c.states = T
    <3>1. SlotSet(z, c, s, j)
      BY <2>7, <2>9, <2>10 DEF SlotSet
    <3>2. Sound(z, s) /\ OnlyRegistry(z, c) /\ j.app # "none"
      BY <1>1, <2>7, <2>8, <2>10
    <3>3. Sound(c, s) /\ Kept(z, c)
      BY <2>8, <3>1, <3>2, SetInstSound
    <3> QED
      BY <2>10, <3>3
  <2>12. H[s] = j /\ H \in [Slots -> Inst]
    BY <1>1, <2>8
  <2>13. Kept(x, c)
    BY <1>5, <2>5, <2>7, <2>11, KeptTransitive
  <2> DEFINE one == [j EXCEPT !.count = 1]
             G == [x.inst EXCEPT ![s] = one]
  <2>14. [H EXCEPT ![s] = [H[s] EXCEPT !.count = H[s].count + 1]] = G
    <3>1. [H[s] EXCEPT !.count = H[s].count + 1] = one
      BY <2>8, <2>12
    <3>2. [H EXCEPT ![s] = one] = G
      BY <1>1
    <3> QED
      BY <3>1, <3>2
  <2>15. one \in Inst /\ one.app = app /\ one.data = k /\ one.count = 1
    BY <2>8 DEF Inst
  <2> HIDE DEF one
  <2>16. G \in [Slots -> Inst] /\ G[s] = one
    BY <1>1, <2>15
  <2>17. Private(G, T)
    BY <1>1, <2>1, <2>15, StartedPrivate DEF T
  <2> HIDE DEF H, G, r
  <2>18. /\ r.ok \in BOOLEAN /\ Kept(c, r.d) /\ r.d.states = T
         /\ ~r.ok => Sound(r.d, s) /\ r.d.inst = H
         /\ r.ok => Sound(r.d, 0) /\ r.d.inst = G
    <3>1. /\ r.ok \in BOOLEAN /\ Kept(c, r.d) /\ r.d.states = c.states
          /\ ~r.ok => Sound(r.d, s) /\ r.d.inst = c.inst
          /\ r.ok => /\ Sound(r.d, 0)
                     /\ r.d.inst = [c.inst EXCEPT ![s] = [c.inst[s] EXCEPT !.count = c.inst[s].count + 1]]
      BY <2>2, <2>11, OpenWindowSound
    <3> QED
      BY <2>11, <2>14, <3>1
  <2>19. Kept(x, r.d)
    BY <2>13, <2>18, KeptTransitive
  <2>20. r.ok => Good(r.d) /\ r.d.inst[s].count > 0
    <3>1. r.ok => r.d.inst[s].count = 1
      BY <2>15, <2>16, <2>18
    <3>2. r.ok => Good(r.d)
      BY <2>17, <2>18 DEF Good
    <3> QED
      BY <3>1, <3>2
  <2>21. ~r.ok => /\ j.app = app /\ r.d.inst = [x.inst EXCEPT ![s] = j]
                  /\ j.data \notin x.states[app]
                  /\ r.d.states = [x.states EXCEPT ![app] = x.states[app] \cup {j.data}]
    BY <2>1, <2>8, <2>18 DEF H, T
  <2>22. ~r.ok => HalfStarted(x, r.d, s, app)
    BY <2>8, <2>18, <2>21 DEF HalfStarted
  <2> QED
    BY <2>18, <2>19, <2>20, <2>22 DEF r, a
<1> QED
  BY <1>6, <1>7

\* desktop_registry_launch: whichever step fails, what was taken is given back.
LEMMA LaunchAppGood ==
  ASSUME NEW x, Good(x), NEW app \in Apps, NEW readable \in BOOLEAN
  PROVE  LET r == LaunchApp(x, app, readable)
         IN  r.ok \in BOOLEAN /\ Good(r.d) /\ Kept(x, r.d)
<1> DEFINE s == AllocInstance(x)
           r == StartApp(Given(x, s, app), s, app, readable)
           f == LaunchApp(x, app, readable)
<1>1. f = IF Running(x) = Slots THEN [d |-> x, ok |-> FALSE]
          ELSE IF r.ok /\ r.d.inst[s].count > 0 THEN r
          ELSE [d |-> StopInstance(r.d, s), ok |-> FALSE]
  BY DEF LaunchApp, Given
<1>2. CASE Running(x) = Slots
  <2>1. f = [d |-> x, ok |-> FALSE]
    BY <1>1, <1>2
  <2> HIDE DEF f
  <2>2. f.d = x /\ f.ok = FALSE
    BY <2>1
  <2>3. Kept(x, x)
    BY DEF Kept, Frame
  <2> QED
    BY <2>2, <2>3 DEF f
<1>3. CASE Running(x) # Slots
  <2>1. s \in Slots /\ x.inst[s].app = "none"
    <3> DEFINE S == Slots \ Running(x)
    <3>1. S \in SUBSET Nat /\ S # {}
      BY <1>3, Constants DEF Running
    <3>2. s = Min(S)
      BY DEF AllocInstance
    <3> HIDE DEF S, s
    <3>3. s \in S
      BY <3>1, <3>2, MinIsLeast
    <3> QED
      BY <3>3 DEF S, Running
  <2> HIDE DEF s
  <2>2. /\ r.ok \in BOOLEAN /\ Kept(x, r.d)
        /\ r.ok => Good(r.d) /\ r.d.inst[s].count > 0
        /\ ~r.ok => HalfStarted(x, r.d, s, app)
    BY <2>1, StartAppSound
  <2> HIDE DEF r, f
  <2>3. CASE r.ok
    <3>1. f = r
      BY <1>1, <1>3, <2>2, <2>3
    <3> QED
      BY <2>2, <2>3, <3>1 DEF f
  <2>4. CASE ~r.ok
    <3> DEFINE z == StopInstance(r.d, s)
    <3>1. f = [d |-> z, ok |-> FALSE]
      BY <1>1, <1>3, <2>4
    <3>2. Good(z) /\ Kept(r.d, z)
      <4> DEFINE y == r.d
      <4> HIDE DEF y
      <4>1. HalfStarted(x, y, s, app)
        BY <2>2, <2>4 DEF y
      <4>2. PICK i \in Inst :
                 /\ i.app = app /\ y.inst = [x.inst EXCEPT ![s] = i]
                 /\ \/ i.data = 0 /\ y.states = x.states
                    \/ /\ i.data \notin x.states[app]
                       /\ y.states = [x.states EXCEPT ![app] = x.states[app] \cup {i.data}]
        BY <4>1 DEF HalfStarted
      <4>3. Sound(y, s)
        BY <4>1 DEF HalfStarted
      <4>4. Good(StopInstance(y, s)) /\ Kept(y, StopInstance(y, s))
        BY <2>1, <4>2, <4>3, StopPending
      <4> QED
        BY <4>4 DEF y
    <3>3. f.d = z /\ f.ok = FALSE
      BY <3>1
    <3>4. Kept(x, z)
      BY <2>2, <3>2, KeptTransitive
    <3> QED
      BY <3>2, <3>3, <3>4 DEF f
  <2> QED
    BY <2>2, <2>3, <2>4
<1> QED
  BY <1>2, <1>3

LEMMA OpenFileGood ==
  ASSUME NEW x, Good(x), NEW file \in Files
  PROVE  Good(OpenFile(x, file)) /\ Kept(x, OpenFile(x, file))
<1> DEFINE r == LaunchApp(x, "editor", file = "text")
<1>1. r.ok \in BOOLEAN /\ Good(r.d) /\ Kept(x, r.d)
  BY LaunchAppGood, Constants
<1> HIDE DEF r
<1>2. Good(ShowAlert(x)) /\ Kept(x, ShowAlert(x))
  BY ShowAlertGood
<1>3. Good(ShowAlert(r.d)) /\ Kept(r.d, ShowAlert(r.d))
  BY <1>1, ShowAlertGood
<1>4. Kept(x, ShowAlert(r.d))
  BY <1>1, <1>3, KeptTransitive
<1>5. OpenFile(x, file) \in {ShowAlert(x), r.d, ShowAlert(r.d)}
  BY <1>1 DEF OpenFile, r
<1> QED
  BY <1>1, <1>2, <1>3, <1>4, <1>5

----------------------------------------------------------------------------
(***************************************************************************)
(* desktop_handle_event                                                    *)
(***************************************************************************)
Held(x) == x.drag # 0 => x.button

Safe(x, y) == Good(y) /\ Held(y) /\ (x.initialized => Frame(x, y))

LEMMA KeptSafe ==
  ASSUME NEW x, NEW y, NEW z, Safe(x, y), Good(z), Kept(y, z)
  PROVE  Safe(x, z)
BY DEF Safe, Kept, Held, Frame

LEMMA SelfSafe ==
  ASSUME NEW x, Good(x), Held(x)
  PROVE  Safe(x, x) /\ Kept(x, x)
BY DEF Safe, Kept, Frame

\* What a handler only sets flags of.
OnlyFlags(x, y) ==
  /\ y \in Desk /\ y.wins = x.wins /\ y.focus = x.focus /\ y.modal = x.modal
  /\ y.inst = x.inst /\ y.states = x.states /\ y.orphans = x.orphans
  /\ y.initialized = x.initialized /\ y.active = x.active /\ y.saved = x.saved

LEMMA FlagsGood ==
  ASSUME NEW x, Good(x), NEW y, OnlyFlags(x, y), y.drag \in {x.drag, 0}
  PROVE  Good(y) /\ Frame(x, y)
<1>1. WinSet(y) = WinSet(x)
  BY DEF OnlyFlags, WinSet
<1>2. Dragged(WinSet(y), y.drag, y.modal)
  BY <1>1, GoodFields DEF OnlyFlags, Dragged
<1> QED
  BY <1>1, <1>2 DEF Good, Sound, OnlyFlags, Frame

LEMMA SetFlags ==
  ASSUME NEW x \in Desk, NEW b \in BOOLEAN
  PROVE  /\ OnlyFlags(x, [x EXCEPT !.launcher = b]) /\ [x EXCEPT !.launcher = b].drag = x.drag
         /\ [x EXCEPT !.launcher = b].button = x.button
         /\ OnlyFlags(x, [x EXCEPT !.launcher = b, !.drag = 0])
         /\ [x EXCEPT !.launcher = b, !.drag = 0].drag = 0
         /\ OnlyFlags(x, [x EXCEPT !.button = b, !.drag = 0])
         /\ [x EXCEPT !.button = b, !.drag = 0].drag = 0
         /\ OnlyFlags(x, [x EXCEPT !.button = b]) /\ [x EXCEPT !.button = b].drag = x.drag
         /\ [x EXCEPT !.button = b].button = b
BY DEF Desk, OnlyFlags

LEMMA LauncherKept ==
  ASSUME NEW x, Good(x), NEW b \in BOOLEAN
  PROVE  LET y == [x EXCEPT !.launcher = b]
             z == [x EXCEPT !.launcher = b, !.drag = 0]
         IN  Good(y) /\ Kept(x, y) /\ Good(z) /\ Kept(x, z)
<1> DEFINE y == [x EXCEPT !.launcher = b]
           z == [x EXCEPT !.launcher = b, !.drag = 0]
<1>1. x \in Desk
  BY GoodFields
<1>2. OnlyFlags(x, y) /\ y.drag = x.drag /\ y.button = x.button /\ OnlyFlags(x, z) /\ z.drag = 0
  BY <1>1 DEF Desk, OnlyFlags
<1> HIDE DEF y, z
<1>3. Good(y) /\ Frame(x, y) /\ Good(z) /\ Frame(x, z)
  BY <1>2, FlagsGood
<1>4. Kept(x, y) /\ Kept(x, z)
  BY <1>2, <1>3 DEF Kept
<1> QED
  BY <1>3, <1>4 DEF y, z

LEMMA DispatchGood ==
  ASSUME NEW x, Good(x), NEW ev, NEW pt
  PROVE  Good(Dispatch(x, ev, pt)) /\ Kept(x, Dispatch(x, ev, pt))
<1>1. Dispatch(x, ev, pt) \in {x, ShowAlert(x)}
  BY DEF Dispatch
<1>2. Kept(x, x)
  BY DEF Kept, Frame
<1> QED
  BY <1>1, <1>2, ShowAlertGood

\* A raised window is the focused one.
LEMMA RaiseFocus ==
  ASSUME NEW x, Good(x), NEW w \in WinSet(x), NEW id, id = w.id
  PROVE  LET y == Raise(x, id)
         IN  /\ IndexOf(y, id) = y.focus /\ y.focus \in 1 .. Len(y.wins)
             /\ y.wins[y.focus].id = id /\ ~y.wins[y.focus].min
<1> DEFINE i == IndexOf(x, id)
           y == Raise(x, id)
<1>1. x \in Desk /\ DistinctIds(x.wins) /\ BoundedIds(x.wins) /\ Len(x.wins) \in Nat
  BY GoodFields, DeskLen
<1>2. id # 0
  BY <1>1, DeskLen, WinFields
<1>3. i # 0
  BY <1>1, <1>2, IndexOfFacts
<1>4. /\ i \in 1 .. Len(x.wins) /\ x.wins[i].id = id
      /\ Len(y.wins) = Len(x.wins) /\ y.focus = Len(x.wins)
      /\ y.wins[Len(x.wins)] = [x.wins[i] EXCEPT !.min = FALSE]
      /\ IndexOf(y, id) = Len(x.wins)
  BY <1>1, <1>3, RaiseFacts
<1> HIDE DEF y, i
<1>5. x.wins[i] \in Win
  BY <1>1, <1>4, DeskLen
<1>6. y.wins[Len(x.wins)].id = id /\ ~y.wins[Len(x.wins)].min
  BY <1>4, <1>5, Shown
<1>7. Len(x.wins) \in 1 .. Len(y.wins)
  BY <1>1, <1>4
<1> QED
  BY <1>4, <1>6, <1>7 DEF y

\* desktop_handle_window_down: a drag begins on the window that was just raised.
LEMMA WindowDownSafe ==
  ASSUME NEW x, Good(x), x.modal = 0, x.button, NEW ev, NEW pt,
         \E w \in WinSet(x) : w.id = ev.target
  PROVE  Safe(x, HandleWindowDown(x, ev, pt))
<1> DEFINE id == ev.target
           z == Raise(x, id)
           y == [z EXCEPT !.launcher = FALSE]
           part == IF Last(y.wins).alert /\ pt.part \in Controls THEN "title" ELSE pt.part
           t == [y EXCEPT !.drag = id]
           f == HandleWindowDown(x, ev, pt)
<1>1. Good(z) /\ Same(x, z)
  BY RaiseGood
<1>2. /\ IndexOf(z, id) = z.focus /\ z.focus \in 1 .. Len(z.wins)
      /\ z.wins[z.focus].id = id /\ ~z.wins[z.focus].min
  BY RaiseFocus
<1>3. f \in {y, DestroyWindow(y, id), MinimizeWindow(y, id), ToggleMaximizeWindow(y, id), t}
  <2>1. f = CASE part = "close" -> DestroyWindow(y, id)
              [] part = "min"   -> MinimizeWindow(y, id)
              [] part = "max"   -> ToggleMaximizeWindow(y, id)
              [] part = "title" -> t
              [] OTHER          -> y
    BY DEF HandleWindowDown
  <2> HIDE DEF f, y, part, t
  <2> QED
    BY <2>1
<1> HIDE DEF z, f
<1>4. z \in Desk
  BY <1>1, GoodFields
<1>5. OnlyFlags(z, y) /\ y.drag = z.drag /\ y.button = z.button
  BY <1>4, SetFlags
<1>6. id \in Nat
  <2>1. z.wins[z.focus] \in Win
    BY <1>2, <1>4, DeskLen
  <2> QED
    BY <1>2, <2>1, WinFields
<1> HIDE DEF id
<1>7. t \in Desk /\ OnlyFlags(y, t) /\ t.drag = id /\ t.button = y.button
  <2>1. y \in Desk
    BY <1>5 DEF OnlyFlags
  <2> HIDE DEF y
  <2> QED
    BY <1>6, <2>1 DEF Desk, OnlyFlags
<1> HIDE DEF y, t
<1>8. Good(y) /\ Frame(z, y)
  BY <1>1, <1>5, FlagsGood
<1>9. /\ Frame(x, y) /\ y.drag = x.drag /\ y.button /\ y.modal = 0
      /\ y.wins = z.wins /\ y.focus = z.focus
  BY <1>1, <1>5, <1>8 DEF Same, Frame, OnlyFlags
<1>10. Safe(x, y)
  BY <1>8, <1>9 DEF Safe, Held
<1>11. IndexOf(y, id) = y.focus
  BY <1>2, <1>9 DEF IndexOf
<1>12. ASSUME NEW u, Good(u), Frame(y, u), u.drag \in {y.drag, 0}, u.button = y.button
       PROVE  Safe(x, u)
  BY <1>9, <1>12 DEF Safe, Held, Frame
<1>13. Safe(x, DestroyWindow(y, id)) /\ Safe(x, MinimizeWindow(y, id))
       /\ Safe(x, ToggleMaximizeWindow(y, id))
  <2>1. Safe(x, DestroyWindow(y, id))
    BY <1>8, <1>9, <1>12, DestroyGood
  <2>2. Safe(x, MinimizeWindow(y, id))
    BY <1>8, <1>9, <1>12, MinimizeGood
  <2>3. Safe(x, ToggleMaximizeWindow(y, id))
    BY <1>8, <1>11, <1>12, ToggleGood
  <2> QED
    BY <2>1, <2>2, <2>3
<1>14. Safe(x, t)
  <2>1. WinSet(t) = WinSet(y) /\ y \in Desk
    BY <1>5, <1>7 DEF OnlyFlags, WinSet
  <2>2. y.wins[y.focus] \in WinSet(y)
    BY <1>2, <1>9, <2>1, DeskLen
  <2>3. Dragged(WinSet(t), t.drag, t.modal)
    BY <1>2, <1>7, <1>9, <2>1, <2>2 DEF OnlyFlags, Dragged
  <2>4. Good(t) /\ Frame(y, t)
    BY <1>7, <1>8, <2>1, <2>3 DEF Good, Sound, OnlyFlags, Frame
  <2> QED
    BY <1>7, <1>9, <2>4 DEF Safe, Held, Frame
<1> QED
  BY <1>3, <1>10, <1>13, <1>14 DEF f

LEMMA ButtonDownSafe ==
  ASSUME NEW x, Good(x), x.modal = 0, x.button, NEW ev, NEW pt,
         ev.target # 0 => \E w \in WinSet(x) : w.id = ev.target,
         pt.spot = "item" => pt.of \in Apps
  PROVE  Safe(x, HandleButtonDown(x, ev, pt))
<1> DEFINE f == HandleButtonDown(x, ev, pt)
           Quiet(u) == [u EXCEPT !.launcher = FALSE, !.drag = 0]
<1>1. x \in Desk /\ Held(x) /\ Safe(x, x)
  BY GoodFields, SelfSafe DEF Held
<1>2. (~x.launcher) \in BOOLEAN
  BY <1>1, DeskFields
<1>3. CASE pt.spot = "launcher"
  <2> DEFINE b == ~x.launcher
             t == [x EXCEPT !.launcher = b]
             z == [x EXCEPT !.launcher = b, !.drag = 0]
  <2>1. f = [t EXCEPT !.drag = 0]
    BY <1>3 DEF HandleButtonDown, ToggleLauncher
  <2>2. [t EXCEPT !.drag = 0] = z
    BY <1>1 DEF Desk
  <2> HIDE DEF b
  <2>3. Good(z) /\ Kept(x, z)
    BY <1>2, LauncherKept DEF b
  <2> HIDE DEF z, t, f
  <2> QED
    BY <1>1, <2>1, <2>2, <2>3, KeptSafe DEF f
<1>4. CASE pt.spot = "item" /\ x.launcher
  <2> DEFINE u == LaunchApp(x, pt.of, TRUE).d
  <2>1. f = Quiet(u)
    BY <1>4 DEF HandleButtonDown
  <2>2. Good(u) /\ Kept(x, u)
    BY <1>4, LaunchAppGood
  <2> HIDE DEF u, f
  <2>3. Good(Quiet(u)) /\ Kept(u, Quiet(u))
    BY <2>2, LauncherKept
  <2> HIDE DEF Quiet
  <2> QED
    BY <1>1, <2>1, <2>2, <2>3, KeptSafe DEF f
<1>5. CASE pt.spot = "button"
  <2> DEFINE u == Raise(x, pt.of)
  <2>1. f = Quiet(u)
    BY <1>5 DEF HandleButtonDown
  <2>2. Good(u) /\ Kept(x, u)
    BY RaiseGood DEF Kept, Same
  <2> HIDE DEF u, f
  <2>3. Good(Quiet(u)) /\ Kept(u, Quiet(u))
    BY <2>2, LauncherKept
  <2> HIDE DEF Quiet
  <2> QED
    BY <1>1, <2>1, <2>2, <2>3, KeptSafe DEF f
<1>6. CASE ev.target # 0
  <2> DEFINE u == HandleWindowDown(x, ev, pt)
             g == Dispatch(u, ev, pt)
  <2>1. Safe(x, u)
    BY <1>6, WindowDownSafe
  <2> HIDE DEF u
  <2>2. Good(g) /\ Kept(u, g)
    BY <2>1, DispatchGood DEF Safe
  <2>3. Safe(x, g)
    BY <2>1, <2>2, KeptSafe
  <2> HIDE DEF g
  <2>4. f = g \/ pt.spot \in {"launcher", "button"} \/ (pt.spot = "item" /\ x.launcher)
    BY <1>6 DEF HandleButtonDown, g, u
  <2> HIDE DEF f
  <2> QED
    BY <1>3, <1>4, <1>5, <2>3, <2>4 DEF f
<1>7. CASE /\ pt.spot \notin {"launcher", "button"} /\ ~(pt.spot = "item" /\ x.launcher)
           /\ ev.target = 0
  <2>1. f \in {[x EXCEPT !.launcher = FALSE], Quiet(x)}
    BY <1>7 DEF HandleButtonDown
  <2> DEFINE y == [x EXCEPT !.launcher = FALSE]
             z == Quiet(x)
  <2>2. Good(y) /\ Kept(x, y) /\ Good(z) /\ Kept(x, z)
    BY LauncherKept
  <2>3. f \in {y, z}
    BY <2>1
  <2> HIDE DEF y, z, f
  <2> QED
    BY <1>1, <2>2, <2>3, KeptSafe DEF f
<1> QED
  BY <1>3, <1>4, <1>5, <1>6, <1>7

LEMMA ButtonUpSafe ==
  ASSUME NEW x, Good(x), NEW ev, NEW pt
  PROVE  Safe(x, HandleButtonUp(x, ev, pt))
<1> DEFINE y == [x EXCEPT !.button = FALSE, !.drag = 0]
           f == Dispatch(y, ev, pt)
<1>1. x \in Desk
  BY GoodFields
<1>2. OnlyFlags(x, y) /\ y.drag = 0
  BY <1>1, SetFlags
<1>3. HandleButtonUp(x, ev, pt) = f
  BY DEF HandleButtonUp
<1> HIDE DEF y
<1>4. Good(y) /\ Frame(x, y)
  BY <1>2, FlagsGood
<1>5. Safe(x, y)
  BY <1>2, <1>4 DEF Safe, Held
<1>6. Good(f) /\ Kept(y, f)
  BY <1>4, DispatchGood
<1> HIDE DEF f
<1> QED
  BY <1>3, <1>5, <1>6, KeptSafe

LEMMA KeySafe ==
  ASSUME NEW x, Good(x), Held(x), NEW ev, NEW pt
  PROVE  Safe(x, HandleKey(x, ev, pt)) /\ Safe(x, HandleChar(x, ev, pt))
<1> DEFINE u == Raise(x, ev.target)
           b == ~x.launcher
           t == [x EXCEPT !.launcher = b]
<1>1. x \in Desk /\ Safe(x, x) /\ Kept(x, x)
  BY GoodFields, SelfSafe
<1>2. Good(u) /\ Kept(x, u)
  BY RaiseGood DEF Kept, Same
<1>3. b \in BOOLEAN
  BY <1>1, DeskFields
<1>4. ToggleLauncher(x) = t
  BY DEF ToggleLauncher
<1> HIDE DEF b, u
<1>5. Good(t) /\ Kept(x, t)
  BY <1>3, LauncherKept
<1> HIDE DEF t
<1>6. /\ Good(Dispatch(x, ev, pt)) /\ Kept(x, Dispatch(x, ev, pt))
      /\ Good(Dispatch(u, ev, pt)) /\ Kept(u, Dispatch(u, ev, pt))
  BY <1>2, DispatchGood
<1>7. /\ Safe(x, t) /\ Safe(x, Dispatch(x, ev, pt)) /\ Safe(x, Dispatch(u, ev, pt))
  <2>1. Safe(x, u)
    BY <1>1, <1>2, KeptSafe
  <2> QED
    BY <1>1, <1>5, <1>6, <2>1, KeptSafe
<1>8. HandleKey(x, ev, pt) \in {t, Dispatch(x, ev, pt), Dispatch(u, ev, pt)}
  BY <1>4 DEF HandleKey, u
<1>9. HandleChar(x, ev, pt) \in {Dispatch(x, ev, pt), Dispatch(u, ev, pt)}
  BY DEF HandleChar, u
<1> QED
  BY <1>7, <1>8, <1>9

\* While the alert is open an event raises it, closes it or does nothing.
LEMMA ModalEventSafe ==
  ASSUME NEW x, Good(x), x.modal # 0, NEW ev, NEW pt
  PROVE  LET y == HandleModalEvent(x, ev, pt)
         IN  Safe(x, y) /\ y.inst = x.inst /\ Under(y) = Under(x)
<1> DEFINE r == Raise(x, x.modal)
           f == HandleModalEvent(x, ev, pt)
<1>1. x.drag = 0
  BY GoodFields DEF Dragged
<1>2. Good(r) /\ Same(x, r)
  BY RaiseGood
<1>3. Under(r) = Under(x)
  <2> DEFINE i == IndexOf(x, x.modal)
             w == x.wins[i]
             v == [w EXCEPT !.min = FALSE]
  <2>1. x \in Desk /\ i # 0
    BY GoodFields, ModalThere DEF Good
  <2>2. w \in WinSet(x) /\ w.id = x.modal /\ WinSet(r) = (WinSet(x) \ {w}) \cup {v}
    <3> DEFINE id == x.modal
    <3>1. i = IndexOf(x, id) /\ r = Raise(x, id)
      OBVIOUS
    <3> HIDE DEF id, i, r
    <3>2. x \in Desk /\ DistinctIds(x.wins) /\ BoundedIds(x.wins)
      BY GoodFields
    <3>3. /\ i \in 1 .. Len(x.wins) /\ w \in WinSet(x) /\ w.id = id
          /\ r \in Desk /\ Same(x, r)
          /\ Len(r.wins) = Len(x.wins) /\ r.focus = Len(x.wins) /\ r.wins[Len(x.wins)] = v
          /\ DistinctIds(r.wins) /\ BoundedIds(r.wins)
          /\ WinSet(r) = (WinSet(x) \ {w}) \cup {v}
      BY <2>1, <3>1, <3>2, RaiseFacts
    <3> QED
      BY <3>3 DEF id
  <2> HIDE DEF i, w, r
  <2>3. w \in Win /\ w.alert
    BY <2>1, <2>2, GoodFields, DeskLen DEF Alerted
  <2>4. v.alert
    BY <2>3, Shown
  <2> HIDE DEF v
  <2> QED
    BY <2>2, <2>3, <2>4 DEF Under
<1>4. f \in {x, r, CloseModal(x), CloseModal(r)}
  BY DEF HandleModalEvent
<1> HIDE DEF r, f
<1>5. r.modal # 0 /\ r.drag = 0 /\ r.inst = x.inst /\ Frame(x, r)
  BY <1>1, <1>2 DEF Same
<1>6. ASSUME NEW u, Good(u), u.drag = 0, Frame(x, u), u.inst = x.inst, Under(u) = Under(x)
      PROVE  Safe(x, u) /\ u.inst = x.inst /\ Under(u) = Under(x)
  BY <1>6 DEF Safe, Held
<1>7. Safe(x, r) /\ Safe(x, x)
  BY <1>1, <1>2, <1>3, <1>5, <1>6, SelfSafe DEF Held
<1>8. /\ Safe(x, CloseModal(x)) /\ CloseModal(x).inst = x.inst /\ Under(CloseModal(x)) = Under(x)
  BY <1>6, CloseModalGood
<1>9. /\ Safe(x, CloseModal(r)) /\ CloseModal(r).inst = x.inst /\ Under(CloseModal(r)) = Under(x)
  <2> DEFINE u == CloseModal(r)
  <2>1. Good(u) /\ Frame(r, u) /\ u.drag = 0 /\ u.inst = r.inst /\ Under(u) = Under(r)
    BY <1>2, <1>5, CloseModalGood
  <2> HIDE DEF u
  <2>2. Frame(x, u)
    BY <1>5, <2>1 DEF Frame
  <2>3. Safe(x, u) /\ u.inst = x.inst /\ Under(u) = Under(x)
    BY <1>3, <1>5, <1>6, <2>1, <2>2
  <2> QED
    BY <2>3 DEF u
<1> QED
  BY <1>3, <1>4, <1>5, <1>7, <1>8, <1>9 DEF f

LEMMA EventSafe ==
  ASSUME NEW x, Good(x), NEW ev, NEW pt, NEW off \in BOOLEAN,
         ev.type = "down" => x.button, ev.type # "up" => Held(x),
         ev.type = "down" /\ ev.target # 0 => \E w \in WinSet(x) : w.id = ev.target,
         pt.spot = "item" => pt.of \in Apps
  PROVE  LET y == HandleEvent(x, ev, pt, off)
         IN  /\ Safe(x, y)
             /\ x.modal # 0 => y.inst = x.inst /\ Under(y) = Under(x)
<1> DEFINE f == HandleEvent(x, ev, pt, off)
<1>1. x \in Desk
  BY GoodFields
<1>2. CASE x.modal # 0
  <2>1. f = HandleModalEvent(x, ev, pt)
    BY <1>2, ModalThere DEF HandleEvent, Good
  <2> QED
    BY <1>2, <2>1, ModalEventSafe
<1>3. CASE x.modal = 0
  <2>1. IndexOf(x, x.modal) = 0
    BY <1>3, ModalThere DEF Good
  <2>2. [x EXCEPT !.modal = 0] = x
    BY <1>1, <1>3 DEF Desk
  <2>3. f = CASE ev.type \in {"key", "release"} -> HandleKey(x, ev, pt)
              [] ev.type = "char" -> HandleChar(x, ev, pt)
              [] ev.type = "down" -> HandleButtonDown(x, ev, pt)
              [] ev.type = "up"   -> HandleButtonUp(x, ev, pt)
              [] ev.type = "move" -> HandleMove(x, off)
              [] OTHER            -> x
    <3>1. f = LET y == [x EXCEPT !.modal = 0] IN
              CASE ev.type \in {"key", "release"} -> HandleKey(y, ev, pt)
                [] ev.type = "char" -> HandleChar(y, ev, pt)
                [] ev.type = "down" -> HandleButtonDown(y, ev, pt)
                [] ev.type = "up"   -> HandleButtonUp(y, ev, pt)
                [] ev.type = "move" -> HandleMove(y, off)
                [] OTHER            -> x
      BY <2>1 DEF HandleEvent
    <3> HIDE DEF f
    <3> QED
      BY <2>2, <3>1
  <2> HIDE DEF f
  <2>4. CASE ev.type \in {"key", "release", "char"}
    <3>1. f \in {HandleKey(x, ev, pt), HandleChar(x, ev, pt)}
      BY <2>3, <2>4
    <3> QED
      BY <1>3, <2>4, <3>1, KeySafe DEF f
  <2>5. CASE ev.type = "down"
    <3>1. f = HandleButtonDown(x, ev, pt)
      BY <2>3, <2>5
    <3>2. Safe(x, HandleButtonDown(x, ev, pt))
      BY <1>3, <2>5, ButtonDownSafe
    <3> QED
      BY <1>3, <3>1, <3>2 DEF f
  <2>6. CASE ev.type = "up"
    <3>1. f = HandleButtonUp(x, ev, pt)
      BY <2>3, <2>6
    <3> QED
      BY <1>3, <3>1, ButtonUpSafe DEF f
  <2>7. CASE ev.type = "move"
    <3>1. f = HandleMove(x, off)
      BY <2>3, <2>7
    <3>2. Good(f) /\ Frame(x, f) /\ f.drag = x.drag /\ f.button = x.button
      BY <3>1, MoveGood
    <3> QED
      BY <1>3, <2>7, <3>2 DEF Safe, Held, f
  <2>8. CASE ev.type \notin {"key", "release", "char", "down", "up", "move"}
    <3>1. f = x
      BY <2>3, <2>8
    <3> QED
      BY <1>3, <2>8, <3>1, SelfSafe DEF f
  <2> QED
    BY <2>4, <2>5, <2>6, <2>7, <2>8
<1> QED
  BY <1>2, <1>3

----------------------------------------------------------------------------
(* desktop_input_route, and the commands *)

LEMMA PointsFacts ==
  ASSUME NEW x, NEW in, NEW keys, NEW pt \in PointsFor(x, in, keys)
  PROVE  pt.win \in {0} \cup Hittable(x) /\ (pt.spot = "item" => pt.of \in Apps)
<1> DEFINE P(p) == p.win \in {0} \cup Hittable(x) /\ (p.spot = "item" => p.of \in Apps)
<1>1. ASSUME NEW w \in {0} \cup Hittable(x), NEW spot, NEW of, NEW part, NEW save,
             spot = "item" => of \in Apps
      PROVE  P(Point(w, spot, of, part, save))
  BY <1>1 DEF Point
<1>2. P(NoPoint) /\ P(Point(0, "taskbar", "none", "body", FALSE))
  BY <1>1 DEF NoPoint
<1> HIDE DEF P
<1>3. ASSUME NEW w \in {0} \cup Hittable(x), NEW p \in PointsOn(x, w) PROVE P(p)
  <2>1. CASE \E spot \in {"launcher"} \cup OkSpots(x) : p = Point(w, spot, "none", "body", FALSE)
    <3>1. "item" \notin {"launcher"} \cup OkSpots(x)
      BY DEF OkSpots
    <3> QED
      BY <1>1, <2>1, <3>1
  <2>2. CASE \E a \in MenuItems(x) : p = Point(w, "item", a, "body", FALSE)
    <3>1. MenuItems(x) \subseteq Apps
      BY DEF MenuItems
    <3> QED
      BY <1>1, <2>2, <3>1
  <2>3. CASE \E id \in TaskbarButtons(x) : p = Point(w, "button", id, "body", FALSE)
    BY <1>1, <2>3
  <2> QED
    BY <1>3, <2>1, <2>2, <2>3, Zenon DEF PointsOn
<1>4. ASSUME NEW w \in Hittable(x), NEW p \in PointsIn(x, w) PROVE P(p)
  <2>1. PICK part, save : p = Point(w, "none", "none", part, save)
    BY Zenon DEF PointsIn
  <2> QED
    BY <1>1, <2>1
<1>5. \A p \in Points(x) : P(p)
  BY <1>2, <1>3, <1>4, Zenon DEF Points
<1>6. pt \in Points(x) \cup {NoPoint}
  BY DEF PointsFor
<1>7. P(pt)
  BY <1>2, <1>5, <1>6
<1> QED
  BY <1>7 DEF P

LEMMA HittableWindow ==
  ASSUME NEW x, Good(x), NEW id \in Hittable(x)
  PROVE  /\ id # 0 /\ IndexOf(x, id) \in 1 .. Len(x.wins)
         /\ ~x.wins[IndexOf(x, id)].min /\ \E w \in WinSet(x) : w.id = id
<1>1. x \in Desk /\ DistinctIds(x.wins)
  BY GoodFields
<1>2. PICK i \in 1 .. Len(x.wins) : id = x.wins[i].id /\ ~x.wins[i].min
  BY <1>1, DeskLen DEF Hittable
<1>3. x.wins[i] \in Win /\ x.wins[i] \in WinSet(x)
  BY <1>1, DeskLen
<1>4. IndexOf(x, id) = i
  BY <1>1, <1>2, IndexOfWindow
<1> QED
  BY <1>2, <1>3, <1>4, WinFields

\* The state after routing differs in the focus and the button only, and a click
\* tells the window under the cursor.
LEMMA RouteFacts ==
  ASSUME NEW x, Good(x), Held(x), NEW in \in Inputs, NEW pt, NEW keys,
         pt.win \in {0} \cup Hittable(x)
  PROVE  LET r == Route(x, in, pt, keys)
         IN  /\ Good(r.d) /\ Frame(x, r.d)
             /\ r.d.modal = x.modal /\ r.d.inst = x.inst /\ WinSet(r.d) = WinSet(x)
             /\ r.ev.type = "down" => r.d.button /\ r.ev.target = pt.win
             /\ r.ev.type # "up" => Held(r.d)
<1> DEFINE r == Route(x, in, pt, keys)
           A == r.d = x /\ r.ev.type \notin {"down", "up"}
           B == /\ r.d = [x EXCEPT !.button = in.pressed] /\ r.ev.target = pt.win
                /\ r.ev.type = IF in.pressed THEN "down" ELSE "up"
           y == IF pt.win # 0 THEN [x EXCEPT !.focus = IndexOf(x, pt.win)] ELSE x
           C == /\ r.d = [y EXCEPT !.button = ~x.button] /\ r.ev.target = pt.win
                /\ r.ev.type = IF x.button THEN "up" ELSE "down"
<1>0. x \in Desk /\ in.pressed \in BOOLEAN
  BY GoodFields DEF Inputs
<1>1. x.button \in BOOLEAN
  BY <1>0, DeskFields
<1>2. y \in Desk /\ y.button = x.button
  <2>1. CASE pt.win = 0
    BY <1>0, <2>1
  <2>2. CASE pt.win # 0
    <3> DEFINE i == IndexOf(x, pt.win)
    <3>1. i \in Nat \ {0}
      BY <1>0, <2>2, HittableWindow, DeskLen
    <3>2. y = [x EXCEPT !.focus = i]
      BY <2>2
    <3> HIDE DEF i, y
    <3> QED
      BY <1>0, <3>1, <3>2 DEF Desk
  <2> QED
    BY <2>1, <2>2
<1>3. A \/ B \/ C
  <2>1. CASE in.type = "char"
    <3>1. r = RouteChar(x, in, pt)
      BY <2>1 DEF Route
    <3>2. CASE (in.code = "esc" /\ x.modal = 0) \/ in.code = "tab" \/ in.code # "newline"
      <4>1. A
        BY <3>1, <3>2 DEF RouteChar, Event
      <4> QED
        BY <4>1
    <3>3. CASE ~((in.code = "esc" /\ x.modal = 0) \/ in.code = "tab" \/ in.code # "newline")
      <4>1. r = [d |-> [y EXCEPT !.button = ~y.button],
                 ev |-> Event(IF x.button THEN "up" ELSE "down", "newline", pt.win)]
        BY <3>1, <3>3 DEF RouteChar
      <4> HIDE DEF y, r
      <4>2. C
        BY <1>2, <4>1 DEF Event
      <4> QED
        BY <4>2
    <3> QED
      BY <3>2, <3>3
  <2>2. CASE in.type # "char"
    <3>1. r = RouteKey(x, in, pt, keys)
      BY <2>2 DEF Route
    <3>2. CASE /\ ~(in.code = "esc" /\ x.modal = 0) /\ ~IsChar(in, keys)
               /\ in.code \in {"enter", "mouse"}
      <4>1. r = [d  |-> [x EXCEPT !.button = in.pressed],
                 ev |-> Event(IF in.pressed THEN "down" ELSE "up", in.code, pt.win)]
        BY <3>1, <3>2 DEF RouteKey
      <4> HIDE DEF r
      <4>2. B
        BY <4>1 DEF Event
      <4> QED
        BY <4>2
    <3>3. CASE ~(/\ ~(in.code = "esc" /\ x.modal = 0) /\ ~IsChar(in, keys)
                 /\ in.code \in {"enter", "mouse"})
      <4>1. A
        BY <3>1, <3>3 DEF RouteKey, Event, NoEvent
      <4> QED
        BY <4>1
    <3> QED
      BY <3>2, <3>3
  <2> QED
    BY <2>1, <2>2
<1> HIDE DEF r
<1>4. CASE A
  BY <1>4 DEF Frame, r
<1>5. CASE B
  <2> DEFINE b == in.pressed
             z == [x EXCEPT !.button = b]
  <2>1. OnlyFlags(x, z) /\ z.drag = x.drag /\ z.button = b
    BY <1>0 DEF Desk, OnlyFlags
  <2>2. r.d = z /\ r.ev.target = pt.win /\ r.ev.type = IF b THEN "down" ELSE "up"
    BY <1>5
  <2> HIDE DEF z, b
  <2>3. Good(z) /\ Frame(x, z)
    BY <2>1, FlagsGood
  <2>4. z.modal = x.modal /\ z.inst = x.inst /\ WinSet(z) = WinSet(x)
    BY <2>1 DEF OnlyFlags, WinSet
  <2>5. r.ev.type = "down" => z.button
    BY <2>1, <2>2
  <2>6. r.ev.type # "up" => Held(z)
    BY <2>1, <2>2 DEF Held
  <2> QED
    BY <2>2, <2>3, <2>4, <2>5, <2>6 DEF r
<1>6. CASE C
  <2> DEFINE b == ~x.button
             z == [y EXCEPT !.button = b]
  <2>1. b \in BOOLEAN
    BY <1>1
  <2>2. r.d = z /\ r.ev.target = pt.win /\ r.ev.type = IF b THEN "down" ELSE "up"
    BY <1>1, <1>6
  <2>3. /\ y.wins = x.wins /\ y.modal = x.modal /\ y.inst = x.inst /\ y.states = x.states
        /\ y.orphans = x.orphans /\ y.initialized = x.initialized /\ y.active = x.active
        /\ y.saved = x.saved /\ y.drag = x.drag
        /\ y.focus = IF pt.win # 0 THEN IndexOf(x, pt.win) ELSE x.focus
    BY <1>0 DEF Desk
  <2> HIDE DEF y, b
  <2>4. /\ z \in Desk /\ z.wins = y.wins /\ z.modal = y.modal /\ z.inst = y.inst
        /\ z.states = y.states /\ z.orphans = y.orphans /\ z.initialized = y.initialized
        /\ z.active = y.active /\ z.saved = y.saved /\ z.drag = y.drag /\ z.focus = y.focus
        /\ z.button = b
    BY <1>2, <2>1 DEF Desk
  <2> HIDE DEF z
  <2>5. InArray(z.wins, z.focus)
    <3>1. InArray(x.wins, x.focus)
      BY GoodFields
    <3>2. CASE pt.win = 0
      BY <2>3, <2>4, <3>1, <3>2
    <3>3. CASE pt.win # 0
      <4> DEFINE i == IndexOf(x, pt.win)
      <4>1. i \in 1 .. Len(x.wins) /\ ~x.wins[i].min
        BY <3>3, HittableWindow
      <4>2. Len(x.wins) \in Nat /\ Len(x.wins) <= MaxWindows /\ MaxWindows \in Nat
        BY <1>0, GoodFields, DeskLen, Constants
      <4>3. z.wins = x.wins /\ z.focus = i
        BY <2>3, <2>4, <3>3
      <4> HIDE DEF i
      <4>4. i <= Len(x.wins) /\ i <= MaxWindows
        BY <4>1, <4>2
      <4> QED
        BY <3>1, <4>1, <4>3, <4>4 DEF InArray
    <3> QED
      BY <3>2, <3>3
  <2>6. WinSet(z) = WinSet(x)
    BY <2>3, <2>4 DEF WinSet
  <2>7. Good(z) /\ Frame(x, z)
    BY <2>3, <2>4, <2>5, <2>6 DEF Good, Sound, Frame
  <2>8. z.modal = x.modal /\ z.inst = x.inst
    BY <2>3, <2>4
  <2>9. r.ev.type = "down" => z.button
    BY <2>2, <2>4
  <2>10. r.ev.type # "up" => Held(z)
    BY <2>2, <2>4 DEF Held
  <2> QED
    BY <2>2, <2>6, <2>7, <2>8, <2>9, <2>10 DEF r
<1> QED
  BY <1>3, <1>4, <1>5, <1>6

\* What the shell's desktop command leaves: the layout, no drag, and every running
\* instance an orphan; entered with "run", the modes are kept.
LEMMA RunDesktopFacts ==
  ASSUME NEW x, Good(x), NEW args \in Args, Modes \in [out : Sinks, keys : BOOLEAN]
  PROVE  LET y == RunDesktop(x, args)
         IN  /\ Good(y) /\ y.initialized /\ y.drag = 0 /\ y.inst = x.inst
             /\ \A w \in WinSet(y) : w.id <= 2
             /\ \A q \in Slots : x.inst[q].app # "none" => q \in y.orphans
             /\ args = "run" => y.active /\ y.saved = Modes
<1> DEFINE i == DesktopInit(x)
           m == Modes
           e == [i EXCEPT !.saved = m, !.active = TRUE, !.drag = 0, !.focus = 1, !.button = FALSE]
           o == [e EXCEPT !.active = FALSE]
           f == RunDesktop(x, args)
<1>1. /\ Sound(i, 0) /\ i.inst = x.inst /\ i.states = x.states /\ i.initialized
      /\ i.drag = 0 /\ i.wins = Layout
      /\ \A q \in Slots : x.inst[q].app # "none" /\ q # 0 => q \in i.orphans
  BY InitSound DEF Good
<1>2. Good(i) /\ i \in Desk
  BY <1>1 DEF Good, Sound
<1>3. DesktopEnter(i) = e
  BY <1>2 DEF DesktopEnter, InputReset, Desk
<1>4. f = IF args = "run" THEN e ELSE IF args = "once" THEN o ELSE i
  BY <1>3 DEF RunDesktop, Args
<1>5. WinSet(i) = SetOf(Layout) /\ \A w \in WinSet(i) : w.id <= 2
  BY <1>1, LayoutFacts DEF WinSet
<1>6. \A q \in Slots : x.inst[q].app # "none" => q \in i.orphans
  BY <1>1, Constants
<1> HIDE DEF i, m
<1>7. /\ e \in Desk /\ e.wins = i.wins /\ e.modal = i.modal /\ e.inst = i.inst
      /\ e.states = i.states /\ e.orphans = i.orphans /\ e.initialized = i.initialized
      /\ e.active = TRUE /\ e.saved = m /\ e.drag = 0 /\ e.focus = 1
  <2> DEFINE g == [i EXCEPT !.saved = m, !.active = TRUE]
             h == [g EXCEPT !.drag = 0, !.focus = 1, !.button = FALSE]
  <2>1. m \in [out : Sinks, keys : BOOLEAN]
    BY DEF m
  <2>2. /\ g \in Desk /\ g.wins = i.wins /\ g.modal = i.modal /\ g.inst = i.inst
        /\ g.states = i.states /\ g.orphans = i.orphans /\ g.initialized = i.initialized
        /\ g.active = TRUE /\ g.saved = m
    BY <1>2, <2>1 DEF Desk
  <2>3. e = h
    BY <1>2 DEF Desk
  <2> HIDE DEF e, g
  <2>4. 0 \in Nat /\ 1 \in Nat \ {0} /\ FALSE \in BOOLEAN
    OBVIOUS
  <2>5. /\ h.wins = g.wins /\ h.modal = g.modal /\ h.inst = g.inst
        /\ h.states = g.states /\ h.orphans = g.orphans /\ h.initialized = g.initialized
        /\ h.active = g.active /\ h.saved = g.saved /\ h.drag = 0 /\ h.focus = 1
    BY <2>2 DEF Desk
  <2>6. h \in Desk
    BY <2>2, <2>4 DEF Desk
  <2> HIDE DEF h
  <2> QED
    BY <2>2, <2>3, <2>5, <2>6
<1> HIDE DEF e
<1>8. /\ o \in Desk /\ o.wins = e.wins /\ o.modal = e.modal /\ o.inst = e.inst
      /\ o.states = e.states /\ o.orphans = e.orphans /\ o.initialized = e.initialized
      /\ o.drag = e.drag /\ o.focus = e.focus
  BY <1>7 DEF Desk
<1> HIDE DEF o
<1>9. InArray(Layout, 1)
  BY LayoutFacts, Constants DEF InArray
<1>10. ASSUME NEW u \in Desk, u.wins = Layout, u.modal = i.modal, u.inst = i.inst,
              u.states = i.states, u.orphans = i.orphans, u.drag = 0, u.focus = 1
       PROVE  Good(u) /\ \A w \in WinSet(u) : w.id <= 2
  <2>1. WinSet(u) = WinSet(i)
    BY <1>1, <1>10 DEF WinSet
  <2>2. Dragged(WinSet(u), u.drag, u.modal)
    BY <1>10 DEF Dragged
  <2>3. InArray(u.wins, u.focus)
    BY <1>9, <1>10
  <2> QED
    BY <1>2, <1>5, <1>10, <2>1, <2>2, <2>3 DEF Good, Sound
<1>11. Good(e) /\ Good(o) /\ (\A w \in WinSet(e) : w.id <= 2) /\ \A w \in WinSet(o) : w.id <= 2
  <2>1. Good(e) /\ \A w \in WinSet(e) : w.id <= 2
    BY <1>1, <1>7, <1>10
  <2>2. Good(o) /\ \A w \in WinSet(o) : w.id <= 2
    BY <1>1, <1>7, <1>8, <1>10
  <2> QED
    BY <2>1, <2>2
<1> HIDE DEF f
<1>12. CASE args = "run"
  <2>1. f = e /\ Modes = m
    BY <1>4, <1>12 DEF m
  <2> QED
    BY <1>1, <1>6, <1>7, <1>11, <2>1 DEF f
<1>13. CASE args = "once"
  <2>1. f = o
    BY <1>4, <1>13
  <2> QED
    BY <1>1, <1>6, <1>7, <1>8, <1>11, <1>13, <2>1 DEF f
<1>14. CASE args = "state"
  <2>1. f = i
    BY <1>4, <1>14
  <2> QED
    BY <1>1, <1>2, <1>5, <1>6, <1>14, <2>1 DEF f
<1> QED
  BY <1>12, <1>13, <1>14 DEF Args

\* Only a focused Terminal without an alert over it executes a line.
LEMMA TerminalFacts ==
  ASSUME Good(d), TerminalEnter
  PROVE  /\ depth > 0 /\ ~leaving /\ d.modal = 0
         /\ \E q \in Slots : d.inst[q].app = "terminal" /\ d.inst[q].data = FocusedTerminal
<1> DEFINE r == Route(d, EnterKey, NoPoint, con.keys)
           id == FocusedId(d)
           i == IndexOf(d, id)
<1>1. depth > 0 /\ ~leaving /\ IsTerminalLine(r)
  BY DEF TerminalEnter, InLoop
<1>2. d \in Desk /\ DistinctIds(d.wins)
  BY GoodFields
<1>3. EnterKey.type = "key" /\ EnterKey.code = "enter" /\ EnterKey.pressed = TRUE
  BY DEF EnterKey
<1>4. r = RouteKey(d, EnterKey, NoPoint, con.keys)
  BY <1>3 DEF Route
<1>5. r.d = d /\ r.ev.target = id
  <2>1. CASE IsChar(EnterKey, con.keys)
    BY <1>3, <1>4, <2>1 DEF RouteKey, Event
  <2>2. CASE ~IsChar(EnterKey, con.keys)
    <3>1. r.ev = Event("down", "enter", NoPoint.win)
      BY <1>3, <1>4, <2>2 DEF RouteKey
    <3>2. r.ev.type = "down"
      BY <3>1 DEF Event
    <3> QED
      BY <1>1, <3>2 DEF IsTerminalLine
  <2> QED
    BY <2>1, <2>2
<1> HIDE DEF r
<1>6. IndexOf(d, d.modal) = 0 /\ AppOf(d, id) = "terminal"
  BY <1>1, <1>5 DEF IsTerminalLine
<1>7. d.modal = 0
  BY <1>6, ModalThere DEF Good
<1>8. i # 0 /\ d.wins[i].owner # 0 /\ d.inst[d.wins[i].owner].app = "terminal"
  BY <1>6 DEF AppOf
<1>9. id # 0
  BY <1>2, <1>8, IndexOfFacts
<1>10. d.focus \in 1 .. Len(d.wins) /\ id = d.wins[d.focus].id
  <2>1. d.focus \in Nat \ {0} /\ Len(d.wins) \in Nat
    BY <1>2, DeskFields, DeskLen
  <2>2. d.focus <= Len(d.wins) /\ id = d.wins[d.focus].id
    BY <1>9 DEF FocusedId
  <2> QED
    BY <2>1, <2>2
<1> HIDE DEF id
<1>11. i = d.focus
  BY <1>2, <1>10, IndexOfWindow
<1>12. d.wins[d.focus].owner \in Slots
  <2>1. d.wins[d.focus] \in Win
    BY <1>2, <1>10, DeskLen
  <2> QED
    BY <1>8, <1>11, <2>1, WinFields
<1> QED
  BY <1>1, <1>7, <1>8, <1>11, <1>12 DEF FocusedTerminal

----------------------------------------------------------------------------
(***************************************************************************)
(* The steps                                                               *)
(***************************************************************************)
\* IInv in the words of the lemmas above.
LEMMA InvParts ==
  IInv <=> /\ Good(d) /\ Held(d) /\ \A w \in WinSet(d) : w.id <= MaxId
           /\ con \in [out : Sinks, keys : BOOLEAN, capture : {0} \cup Slots]
           /\ entry \in [out : Sinks, keys : BOOLEAN, nested : BOOLEAN]
           /\ depth \in 0 .. MaxDepth /\ leaving \in BOOLEAN
           /\ depth > 0 => d.initialized
           /\ depth = 0 => ~leaving
           /\ Captured /\ Session
BY DEF IInv, Good, Held

LEMMA BoundedWindows ==
  ASSUME NEW x \in Desk, Bounded(x)
  PROVE  \A w \in WinSet(x) : w.id <= MaxId
<1>1. \A i \in 1 .. Len(x.wins) : x.wins[i].id <= MaxId
  BY DeskLen DEF Bounded
<1> QED
  BY <1>1, DeskLen

\* The handlers of the event loop leave the session as they find it.
LEMMA FrameSession ==
  ASSUME IInv, NEW y, Good(y), Held(y), Bounded(y), depth > 0 => Frame(d, y),
         d' = y, UNCHANGED <<depth, leaving, entry>>,
         con' \in [out : Sinks, keys : BOOLEAN, capture : {0} \cup Slots],
         con'.capture \in {0, con.capture},
         depth = 0 \/ leaving => con'.out = con.out /\ con'.keys = con.keys
  PROVE  IInv'
<1>0. /\ Good(d) /\ depth \in 0 .. MaxDepth /\ leaving \in BOOLEAN
      /\ entry \in [out : Sinks, keys : BOOLEAN, nested : BOOLEAN]
      /\ depth > 0 => d.initialized
      /\ depth = 0 => ~leaving
      /\ Captured /\ Session
  BY InvParts
<1>1. y \in Desk
  BY GoodFields
<1>2. Good(d') /\ Held(d') /\ \A w \in WinSet(d') : w.id <= MaxId
  BY <1>1, BoundedWindows
<1>3. depth' = depth /\ leaving' = leaving /\ entry' = entry
  OBVIOUS
<1>4. depth' > 0 => d'.initialized
  BY <1>0, <1>3 DEF Frame
<1>5. Captured'
  <2>1. depth > 0 \/ con.capture = 0
    BY <1>0 DEF Captured
  <2> QED
    BY <1>0, <1>3, <2>1 DEF Captured, Frame
<1>6. Session'
  BY <1>0, <1>3 DEF Session, Frame
<1> QED
  BY <1>0, <1>2, <1>3, <1>4, <1>5, <1>6 DEF IInv, Good, Held

LEMMA OpenStep ==
  ASSUME IInv, NEW file \in Files, d' = OpenFile(d, file), Bounded(d'),
         UNCHANGED <<depth, leaving, entry>>,
         con' \in [out : Sinks, keys : BOOLEAN, capture : {0} \cup Slots],
         con'.capture \in {0, con.capture}, con'.out = con.out, con'.keys = con.keys
  PROVE  IInv'
<1> DEFINE y == OpenFile(d, file)
<1>1. Good(d) /\ Held(d) /\ (depth > 0 => d.initialized)
  BY InvParts
<1>2. Good(y) /\ Kept(d, y)
  BY <1>1, OpenFileGood
<1>3. d' = y /\ Bounded(y)
  OBVIOUS
<1> HIDE DEF y
<1>4. Held(y) /\ (depth > 0 => Frame(d, y))
  BY <1>1, <1>2 DEF Held, Kept
<1> QED
  BY <1>2, <1>3, <1>4, FrameSession

LEMMA RunStep ==
  ASSUME IInv, NEW args \in Args, d' = RunDesktop(d, args)
  PROVE  /\ Good(d') /\ Held(d') /\ (\A w \in WinSet(d') : w.id <= MaxId)
         /\ d'.initialized /\ d'.inst = d.inst
         /\ \A q \in Slots : d.inst[q].app # "none" => q \in d'.orphans
         /\ args = "run" => d'.active /\ d'.saved.out = con.out /\ d'.saved.keys = con.keys
<1> DEFINE y == RunDesktop(d, args)
<1>1. Good(d) /\ con \in [out : Sinks, keys : BOOLEAN, capture : {0} \cup Slots]
  BY InvParts
<1>2. Modes \in [out : Sinks, keys : BOOLEAN] /\ Modes.out = con.out /\ Modes.keys = con.keys
  BY <1>1 DEF Modes
<1>3. /\ Good(y) /\ y.initialized /\ y.drag = 0 /\ y.inst = d.inst
      /\ \A w \in WinSet(y) : w.id <= 2
      /\ \A q \in Slots : d.inst[q].app # "none" => q \in y.orphans
      /\ args = "run" => y.active /\ y.saved = Modes
  BY <1>1, <1>2, RunDesktopFacts
<1>4. d' = y
  OBVIOUS
<1> HIDE DEF y
<1>5. \A w \in WinSet(y) : w.id <= MaxId
  <2> SUFFICES ASSUME NEW w \in WinSet(y) PROVE w.id <= MaxId
    OBVIOUS
  <2>1. y \in Desk
    BY <1>3, GoodFields
  <2>2. w.id \in Nat
    BY <2>1, DeskLen, WinFields
  <2> QED
    BY <1>3, <2>2, Constants
<1> QED
  BY <1>2, <1>3, <1>4, <1>5 DEF Held

LEMMA PromptDesktopStep ==
  ASSUME IInv, NEW args \in Args, PromptDesktop(args)
  PROVE  IInv'
<1>0. /\ con \in [out : Sinks, keys : BOOLEAN, capture : {0} \cup Slots]
      /\ depth = 0 /\ depth \in 0 .. MaxDepth /\ ~leaving /\ leaving \in BOOLEAN /\ Captured
  BY InvParts DEF PromptDesktop
<1>1. /\ Good(d') /\ Held(d') /\ (\A w \in WinSet(d') : w.id <= MaxId)
      /\ d'.initialized /\ d'.inst = d.inst
      /\ \A q \in Slots : d.inst[q].app # "none" => q \in d'.orphans
      /\ args = "run" => d'.active /\ d'.saved.out = con.out /\ d'.saved.keys = con.keys
  BY RunStep DEF PromptDesktop
<1>2. /\ entry' = [out |-> con.out, keys |-> con.keys, nested |-> FALSE] /\ leaving' = leaving
      /\ entry' \in [out : Sinks, keys : BOOLEAN, nested : BOOLEAN]
  BY <1>0 DEF PromptDesktop
<1>3. con.capture = 0
  BY <1>0 DEF Captured
<1>4. /\ con' \in [out : Sinks, keys : BOOLEAN, capture : {0} \cup Slots] /\ con'.capture = 0
      /\ IF args = "run" THEN depth' = 1 ELSE depth' = 0 /\ con' = con
  BY <1>0, <1>3 DEF PromptDesktop, Sinks
<1>5. depth' \in 0 .. MaxDepth
  BY <1>4, Constants
<1>6. Captured'
  BY <1>4 DEF Captured
<1>7. Session'
  BY <1>0, <1>1, <1>2, <1>4 DEF Session
<1> QED
  BY <1>0, <1>1, <1>2, <1>4, <1>5, <1>6, <1>7 DEF IInv, Good, Held

LEMMA ModeTypes ==
  ASSUME con \in [out : Sinks, keys : BOOLEAN, capture : {0} \cup Slots], NEW c \in ModeCommands
  PROVE  c \in [out : Sinks, keys : BOOLEAN, capture : {0} \cup Slots] /\ c.capture = con.capture
<1>1. OutputModes \subseteq Sinks /\ InputModes \subseteq BOOLEAN
  BY DesktopAssumption DEF Sinks
<1>2. CASE c \in ConsoleCommands
  <2>1. PICK out \in OutputModes : c = [con EXCEPT !.out = out]
    BY <1>2 DEF ConsoleCommands
  <2>2. out \in Sinks
    BY <1>1
  <2> QED
    BY <2>1, <2>2
<1>3. CASE c \in InputCommands
  <2>1. PICK keys \in InputModes : c = [con EXCEPT !.keys = keys]
    BY <1>3 DEF InputCommands
  <2>2. keys \in BOOLEAN
    BY <1>1
  <2> QED
    BY <2>1, <2>2
<1> QED
  BY <1>2, <1>3 DEF ModeCommands

LEMMA PromptModeStep ==
  ASSUME IInv, NEW c \in ModeCommands, PromptMode(c)
  PROVE  IInv'
<1>0. /\ con \in [out : Sinks, keys : BOOLEAN, capture : {0} \cup Slots] /\ Good(d) /\ Held(d)
      /\ (\A w \in WinSet(d) : w.id <= MaxId)
      /\ depth = 0 /\ depth \in 0 .. MaxDepth /\ ~leaving /\ leaving \in BOOLEAN /\ Captured
  BY InvParts DEF PromptMode
<1>1. c \in [out : Sinks, keys : BOOLEAN, capture : {0} \cup Slots] /\ c.capture = con.capture
  BY <1>0, ModeTypes
<1>2. con.capture = 0
  BY <1>0 DEF Captured
<1>3. /\ d' = d /\ depth' = depth /\ leaving' = leaving /\ con' = c
      /\ entry' = [out |-> c.out, keys |-> c.keys, nested |-> FALSE]
  BY DEF PromptMode
<1>4. entry' \in [out : Sinks, keys : BOOLEAN, nested : BOOLEAN]
  BY <1>1, <1>3
<1>5. Captured' /\ Session'
  BY <1>0, <1>1, <1>2, <1>3 DEF Captured, Session
<1>6. Good(d') /\ Held(d') /\ (\A w \in WinSet(d') : w.id <= MaxId)
  BY <1>0, <1>3
<1> QED
  BY <1>0, <1>1, <1>3, <1>4, <1>5, <1>6 DEF IInv, Good, Held

LEMMA PopStep ==
  ASSUME IInv, NEW in \in Inputs, NEW pt \in PointsFor(d, in, con.keys), NEW off \in Offs(in),
         PopEvent(in, pt, off)
  PROVE  /\ IInv'
         /\ d.modal # 0 => d'.inst = d.inst /\ Under(d') = Under(d)
<1> DEFINE r == Route(d, in, pt, con.keys)
           x == r.d
           ev == r.ev
           y == IF ev.type = "none" THEN x ELSE HandleEvent(x, ev, pt, off)
<1>0. /\ con \in [out : Sinks, keys : BOOLEAN, capture : {0} \cup Slots]
      /\ Good(d) /\ Held(d) /\ (depth > 0 => d.initialized)
  BY InvParts
<1>1. d' = y /\ Bounded(y) /\ depth > 0 /\ UNCHANGED <<con, depth, leaving, entry>>
  BY DEF PopEvent, InLoop
<1>2. pt.win \in {0} \cup Hittable(d) /\ (pt.spot = "item" => pt.of \in Apps)
  BY PointsFacts
<1>3. /\ Good(x) /\ Frame(d, x)
      /\ x.modal = d.modal /\ x.inst = d.inst /\ WinSet(x) = WinSet(d)
      /\ ev.type = "down" => x.button /\ ev.target = pt.win
      /\ ev.type # "up" => Held(x)
  BY <1>0, <1>2, RouteFacts
<1>4. off \in BOOLEAN
  BY DEF Offs
<1>5. ev.type = "down" /\ ev.target # 0 => \E w \in WinSet(x) : w.id = ev.target
  BY <1>0, <1>2, <1>3, HittableWindow
<1>6. Under(x) = Under(d)
  BY <1>3 DEF Under
<1> HIDE DEF x, ev
<1>7. /\ Good(y) /\ Held(y) /\ Frame(d, y)
      /\ d.modal # 0 => y.inst = d.inst /\ Under(y) = Under(d)
  <2>1. CASE ev.type = "none"
    <3>1. y = x
      BY <2>1
    <3> QED
      BY <1>3, <1>6, <2>1, <3>1
  <2>2. CASE ev.type # "none"
    <3> DEFINE z == HandleEvent(x, ev, pt, off)
    <3>1. /\ Safe(x, z)
          /\ x.modal # 0 => z.inst = x.inst /\ Under(z) = Under(x)
      BY <1>2, <1>3, <1>4, <1>5, EventSafe
    <3>2. y = z
      BY <2>2
    <3>3. x.initialized
      BY <1>0, <1>1, <1>3 DEF Frame
    <3> HIDE DEF z
    <3>4. Good(z) /\ Held(z) /\ Frame(x, z)
      BY <3>1, <3>3 DEF Safe
    <3>5. Frame(d, z)
      BY <1>3, <3>4 DEF Frame
    <3> HIDE DEF y
    <3> QED
      BY <1>3, <1>6, <3>1, <3>2, <3>4, <3>5
  <2> QED
    BY <2>1, <2>2
<1> HIDE DEF y
<1>8. IInv'
  <2>1. con' = con /\ UNCHANGED <<depth, leaving, entry>>
    BY <1>1
  <2>2. /\ con' \in [out : Sinks, keys : BOOLEAN, capture : {0} \cup Slots]
        /\ con'.capture \in {0, con.capture}
        /\ depth = 0 \/ leaving => con'.out = con.out /\ con'.keys = con.keys
    BY <1>0, <2>1
  <2> QED
    BY <1>1, <1>7, <2>1, <2>2, FrameSession
<1> QED
  BY <1>1, <1>7, <1>8

LEMMA ExitStep ==
  ASSUME IInv, NEW in \in Inputs, DesktopExit(in)
  PROVE  IInv' /\ d'.inst = d.inst /\ d'.wins = d.wins
<1> DEFINE y == [d EXCEPT !.active = FALSE]
<1>0. /\ con \in [out : Sinks, keys : BOOLEAN, capture : {0} \cup Slots] /\ Good(d) /\ Held(d)
      /\ (\A w \in WinSet(d) : w.id <= MaxId)
      /\ entry \in [out : Sinks, keys : BOOLEAN, nested : BOOLEAN]
      /\ depth \in 0 .. MaxDepth /\ (depth > 0 => d.initialized) /\ Captured /\ Session
  BY InvParts
<1>1. /\ d' = y /\ con' = [con EXCEPT !.out = d.saved.out, !.keys = d.saved.keys]
      /\ leaving' = TRUE /\ depth' = depth /\ entry' = entry /\ depth > 0 /\ ~leaving
  BY DEF DesktopExit, InLoop
<1>2. d \in Desk /\ d.saved \in [out : Sinks, keys : BOOLEAN]
  BY <1>0, GoodFields, DeskFields
<1>3. /\ y \in Desk /\ y.wins = d.wins /\ y.focus = d.focus /\ y.modal = d.modal
      /\ y.inst = d.inst /\ y.states = d.states /\ y.orphans = d.orphans /\ y.drag = d.drag
      /\ y.button = d.button /\ y.initialized = d.initialized /\ y.saved = d.saved
  BY <1>2 DEF Desk
<1> HIDE DEF y
<1>4. Good(y) /\ Held(y) /\ \A w \in WinSet(y) : w.id <= MaxId
  <2>1. WinSet(y) = WinSet(d)
    BY <1>3 DEF WinSet
  <2> QED
    BY <1>0, <1>3, <2>1 DEF Good, Sound, Held
<1>5. /\ con' \in [out : Sinks, keys : BOOLEAN, capture : {0} \cup Slots]
      /\ con'.capture = con.capture /\ con'.out = d.saved.out /\ con'.keys = d.saved.keys
  BY <1>0, <1>1, <1>2
<1>6. Captured'
  BY <1>0, <1>1, <1>3, <1>5 DEF Captured
<1>7. Session'
  <2>1. ASSUME ~entry.nested
        PROVE  depth = 1 /\ d.saved.out = entry.out /\ d.saved.keys = entry.keys
    BY <1>0, <1>1, <2>1 DEF Session
  <2> QED
    BY <1>1, <1>5, <2>1 DEF Session
<1> QED
  BY <1>0, <1>1, <1>3, <1>4, <1>5, <1>6, <1>7 DEF IInv, Good, Held

LEMMA TerminalDesktopStep ==
  ASSUME IInv, NEW args \in Args, TerminalDesktop(args)
  PROVE  IInv'
<1>0. /\ con \in [out : Sinks, keys : BOOLEAN, capture : {0} \cup Slots] /\ Good(d)
      /\ entry \in [out : Sinks, keys : BOOLEAN, nested : BOOLEAN]
      /\ depth \in 0 .. MaxDepth /\ leaving \in BOOLEAN
  BY InvParts
<1>1. /\ Good(d') /\ Held(d') /\ (\A w \in WinSet(d') : w.id <= MaxId)
      /\ d'.initialized /\ d'.inst = d.inst
      /\ \A q \in Slots : d.inst[q].app # "none" => q \in d'.orphans
      /\ args = "run" => d'.active /\ d'.saved.out = con.out /\ d'.saved.keys = con.keys
  BY RunStep DEF TerminalDesktop
<1>2. /\ depth > 0 /\ ~leaving /\ d.modal = 0
      /\ \E q \in Slots : d.inst[q].app = "terminal" /\ d.inst[q].data = FocusedTerminal
  BY <1>0, TerminalFacts DEF TerminalDesktop
<1>3. FocusedTerminal \in {0} \cup Slots
  <2>1. d.inst \in [Slots -> Inst]
    BY <1>0, GoodFields, DeskFields
  <2> QED
    BY <1>2, <2>1 DEF Inst
<1>4. /\ entry' = [entry EXCEPT !.nested = TRUE] /\ leaving' = leaving
      /\ entry' \in [out : Sinks, keys : BOOLEAN, nested : BOOLEAN] /\ entry'.nested
  BY <1>0 DEF TerminalDesktop
<1>5. Session'
  BY <1>4 DEF Session
<1>6. CASE args = "run"
  <2>1. /\ con' = [out |-> {"serial"}, keys |-> TRUE, capture |-> FocusedTerminal]
        /\ depth < MaxDepth /\ depth' = depth + 1
    BY <1>6 DEF TerminalDesktop
  <2>2. /\ con' \in [out : Sinks, keys : BOOLEAN, capture : {0} \cup Slots]
        /\ con'.capture = FocusedTerminal
    BY <1>3, <2>1 DEF Sinks
  <2>3. depth' \in 0 .. MaxDepth /\ depth' > 1 /\ depth' # 0
    BY <1>0, <1>2, <2>1, Constants
  <2>4. Captured'
    BY <1>1, <1>2, <2>2, <2>3 DEF Captured
  <2> QED
    BY <1>0, <1>1, <1>4, <1>5, <2>2, <2>3, <2>4 DEF IInv, Good, Held
<1>7. CASE args # "run"
  <2>1. con' = [con EXCEPT !.capture = 0] /\ depth' = depth
    BY <1>7 DEF TerminalDesktop
  <2>2. con' \in [out : Sinks, keys : BOOLEAN, capture : {0} \cup Slots] /\ con'.capture = 0
    BY <1>0, <2>1
  <2>3. Captured'
    BY <2>2 DEF Captured
  <2> QED
    BY <1>0, <1>1, <1>2, <1>4, <1>5, <2>1, <2>2, <2>3 DEF IInv, Good, Held
<1> QED
  BY <1>6, <1>7

LEMMA TerminalModeStep ==
  ASSUME IInv, NEW c \in ModeCommands, TerminalMode(c)
  PROVE  IInv'
<1>0. /\ con \in [out : Sinks, keys : BOOLEAN, capture : {0} \cup Slots] /\ Good(d) /\ Held(d)
      /\ (\A w \in WinSet(d) : w.id <= MaxId)
      /\ entry \in [out : Sinks, keys : BOOLEAN, nested : BOOLEAN]
      /\ depth \in 0 .. MaxDepth /\ leaving \in BOOLEAN
      /\ (depth > 0 => d.initialized) /\ Session
  BY InvParts
<1>1. c \in [out : Sinks, keys : BOOLEAN, capture : {0} \cup Slots]
  BY <1>0, ModeTypes
<1>2. depth > 0 /\ ~leaving
  BY <1>0, TerminalFacts DEF TerminalMode
<1>3. /\ con' = [c EXCEPT !.capture = 0]
      /\ d' = d /\ depth' = depth /\ leaving' = leaving /\ entry' = entry
  BY DEF TerminalMode
<1>4. con' \in [out : Sinks, keys : BOOLEAN, capture : {0} \cup Slots] /\ con'.capture = 0
  BY <1>1, <1>3
<1>5. Captured' /\ Session'
  BY <1>0, <1>2, <1>3, <1>4 DEF Captured, Session
<1>6. Good(d') /\ Held(d') /\ (\A w \in WinSet(d') : w.id <= MaxId)
  BY <1>0, <1>3
<1> QED
  BY <1>0, <1>2, <1>3, <1>4, <1>5, <1>6 DEF IInv, Good, Held

LEMMA ReturnStep ==
  ASSUME IInv, DesktopReturn
  PROVE  IInv'
<1>0. /\ con \in [out : Sinks, keys : BOOLEAN, capture : {0} \cup Slots] /\ Good(d) /\ Held(d)
      /\ (\A w \in WinSet(d) : w.id <= MaxId)
      /\ entry \in [out : Sinks, keys : BOOLEAN, nested : BOOLEAN]
      /\ depth \in 0 .. MaxDepth /\ leaving \in BOOLEAN
      /\ (depth > 0 => d.initialized) /\ Captured /\ Session
  BY InvParts
<1>1. /\ depth > 0 /\ ~d.active /\ depth' = depth - 1 /\ leaving' = FALSE
      /\ con' = IF depth > 1 THEN [con EXCEPT !.capture = 0] ELSE con
      /\ d' = d /\ entry' = entry
  BY DEF DesktopReturn
<1>2. depth' \in 0 .. MaxDepth
  BY <1>0, <1>1, Constants
<1>3. /\ con' \in [out : Sinks, keys : BOOLEAN, capture : {0} \cup Slots] /\ con'.capture = 0
      /\ con'.out = con.out /\ con'.keys = con.keys
  BY <1>0, <1>1 DEF Captured
<1>4. Captured'
  BY <1>3 DEF Captured
<1>5. Session'
  <2>1. ASSUME ~entry.nested
        PROVE  depth = 1 /\ con.out = entry.out /\ con.keys = entry.keys
    BY <1>0, <1>1, <2>1 DEF Session
  <2> QED
    BY <1>1, <1>3, <2>1 DEF Session
<1>6. Good(d') /\ Held(d') /\ (\A w \in WinSet(d') : w.id <= MaxId)
  BY <1>0, <1>1
<1> QED
  BY <1>0, <1>1, <1>2, <1>3, <1>4, <1>5, <1>6 DEF IInv, Good, Held

LEMMA InitInv == Init => IInv
<1> SUFFICES ASSUME Init PROVE IInv
  OBVIOUS
<1> DEFINE inst0 == [q \in Slots |-> Idle]
           states0 == [a \in Apps |-> {}]
           saved0 == [out |-> {}, keys |-> FALSE]
<1>1. inst0 \in [Slots -> Inst] /\ \A q \in Slots : inst0[q] = Idle
  BY IdleType
<1>2. states0 \in [Apps -> SUBSET Slots] /\ \A a \in Apps : states0[a] = {}
  OBVIOUS
<1>3. saved0 \in [out : Sinks, keys : BOOLEAN] /\ << >> \in Seq(Win) /\ Len(<< >>) = 0
  BY DEF Sinks
<1>4. d = [initialized |-> FALSE, wins |-> << >>, focus |-> 1, modal |-> 0, drag |-> 0,
           button |-> FALSE, launcher |-> FALSE, active |-> FALSE, saved |-> saved0,
           inst |-> inst0, states |-> states0, orphans |-> {}]
  BY DEF Init
<1> HIDE DEF inst0, states0, saved0
<1>5. /\ d.wins = << >> /\ d.focus = 1 /\ d.modal = 0 /\ d.drag = 0
      /\ d.inst = inst0 /\ d.states = states0 /\ d.orphans = {}
  BY <1>4
<1>6. d \in Desk
  <2>1. 0 \in Nat /\ 1 \in Nat \ {0} /\ {} \in SUBSET Slots
    OBVIOUS
  <2> QED
    BY <1>1, <1>2, <1>3, <1>4, <2>1 DEF Desk
<1>7. WinSet(d) = {}
  BY <1>3, <1>5 DEF WinSet, SetOf
<1>8. InArray(d.wins, d.focus)
  <2>1. DistinctIds(d.wins) /\ BoundedIds(d.wins) /\ ~Visible(d.wins)
    BY <1>3, <1>5 DEF DistinctIds, BoundedIds, Visible
  <2> QED
    BY <1>3, <1>5, <2>1, Constants DEF InArray
<1>9. Alerted(WinSet(d), d.modal) /\ Dragged(WinSet(d), d.drag, d.modal)
  BY <1>5, <1>7 DEF Alerted, Dragged
<1>10. Idle.app = "none" /\ Idle.count = 0
  BY DEF Idle
<1>11. \A q \in Slots : d.inst[q] = Idle
  BY <1>1, <1>5
<1>12. Counted(WinSet(d), d.inst, d.orphans, 0)
  <2>1. /\ \A q \in Slots : d.inst[q].app = "none" /\ d.inst[q].count = 0
        /\ 0 <= MaxWindows
    BY <1>10, <1>11, Constants
  <2>2. \A q \in Slots : d.inst[q].count <= MaxWindows
    BY <2>1
  <2> QED
    BY <1>5, <1>7, <1>11, <2>1, <2>2 DEF Counted
<1>13. Private(d.inst, d.states)
  BY <1>2, <1>5, <1>10, <1>11 DEF Private
<1>14. Good(d)
  BY <1>6, <1>8, <1>9, <1>12, <1>13 DEF Good, Sound
<1>15. OutputModes \subseteq Sinks /\ InputModes \subseteq BOOLEAN
  BY DesktopAssumption DEF Sinks
<1>16. /\ con \in [out : OutputModes, keys : InputModes, capture : {0}]
       /\ depth = 0 /\ leaving = FALSE
       /\ entry = [out |-> con.out, keys |-> con.keys, nested |-> FALSE]
  BY DEF Init
<1>17. /\ con \in [out : Sinks, keys : BOOLEAN, capture : {0} \cup Slots]
       /\ entry \in [out : Sinks, keys : BOOLEAN, nested : BOOLEAN] /\ con.capture = 0
  BY <1>15, <1>16
<1>18. Captured /\ Session
  BY <1>16, <1>17 DEF Captured, Session
<1> QED
  <2>1. depth = 0 /\ leaving \in BOOLEAN /\ ~leaving
    BY <1>16
  <2>2. depth \in 0 .. MaxDepth /\ ~(depth > 0)
    <3>1. 0 \in 0 .. MaxDepth /\ ~(0 > 0)
      BY Constants
    <3> QED
      BY <2>1, <3>1
  <2>3. d.drag = 0 /\ \A w \in WinSet(d) : w.id <= MaxId
    BY <1>5, <1>7
  <2> QED
    BY <1>14, <1>17, <1>18, <2>1, <2>2, <2>3 DEF IInv, Good

LEMMA NextInv == IInv /\ [Next]_vars => IInv'
<1> SUFFICES ASSUME IInv, [Next]_vars PROVE IInv'
  OBVIOUS
<1>0. con \in [out : Sinks, keys : BOOLEAN, capture : {0} \cup Slots] /\ Good(d)
  BY InvParts
<1>1. ASSUME NEW args \in Args, PromptDesktop(args)  PROVE IInv'
  BY <1>1, PromptDesktopStep
<1>2. ASSUME NEW file \in Files, PromptOpen(file)  PROVE IInv'
  <2>1. /\ d' = OpenFile(d, file) /\ Bounded(d') /\ UNCHANGED <<depth, leaving, entry>>
        /\ con' = con
    BY <1>2 DEF PromptOpen
  <2> QED
    BY <1>0, <2>1, OpenStep
<1>3. ASSUME NEW c \in ModeCommands, PromptMode(c)  PROVE IInv'
  BY <1>3, PromptModeStep
<1>4. ASSUME NEW in \in Inputs, NEW pt \in PointsFor(d, in, con.keys), NEW off \in Offs(in),
             PopEvent(in, pt, off)
      PROVE  IInv'
  BY <1>4, PopStep
<1>5. ASSUME NEW in \in Inputs, DesktopExit(in)  PROVE IInv'
  BY <1>5, ExitStep
<1>6. ASSUME NEW args \in Args, TerminalDesktop(args)  PROVE IInv'
  BY <1>6, TerminalDesktopStep
<1>7. ASSUME NEW file \in Files, TerminalOpen(file)  PROVE IInv'
  <2>1. /\ d' = OpenFile(d, file) /\ Bounded(d') /\ UNCHANGED <<depth, leaving, entry>>
        /\ con' = [con EXCEPT !.capture = 0]
    BY <1>7 DEF TerminalOpen
  <2>2. /\ con' \in [out : Sinks, keys : BOOLEAN, capture : {0} \cup Slots]
        /\ con'.capture = 0 /\ con'.out = con.out /\ con'.keys = con.keys
    BY <1>0, <2>1
  <2> QED
    BY <2>1, <2>2, OpenStep
<1>8. ASSUME NEW c \in ModeCommands, TerminalMode(c)  PROVE IInv'
  BY <1>8, TerminalModeStep
<1>9. CASE DesktopReturn
  BY <1>9, ReturnStep
<1>10. CASE UNCHANGED vars
  <2>1. d' = d /\ con' = con /\ depth' = depth /\ leaving' = leaving /\ entry' = entry
    BY <1>10 DEF vars
  <2>2. Captured' /\ Session'
    BY <2>1, InvParts DEF Captured, Session
  <2> QED
    BY <2>1, <2>2 DEF IInv
<1> QED
  BY <1>1, <1>2, <1>3, <1>4, <1>5, <1>6, <1>7, <1>8, <1>9, <1>10 DEF Next

\* The inductive invariant holds in every state the desktop and the shell can
\* reach: the window array, the alert, the drag, the registry with its counts
\* and orphans, the applications' states and the modes of the session.
THEOREM Invariant == Spec => []IInv
<1>1. Init => IInv
  BY InitInv
<1>2. IInv /\ [Next]_vars => IInv'
  BY NextInv
<1> QED
  BY <1>1, <1>2, PTL DEF Spec

----------------------------------------------------------------------------
(***************************************************************************)
(* The properties of module Desktop                                        *)
(***************************************************************************)
LEMMA WindowsCounted ==
  ASSUME NEW s \in Seq(Win), DistinctIds(s), NEW q
  PROVE  Cardinality({i \in 1 .. Len(s) : s[i].owner = q}) = Cardinality(Ids(SetOf(s), q))
<1> DEFINE n == Len(s)
           A == {i \in 1 .. n : s[i].owner = q}
           B == Ids(SetOf(s), q)
           f == [i \in A |-> s[i].id]
<1>1. n \in Nat
  BY SeqFacts
<1>2. IsFiniteSet(A)
  <2>1. IsFiniteSet(1 .. n) /\ A \in SUBSET (1 .. n)
    BY <1>1, FS_Interval
  <2> HIDE DEF A
  <2> QED
    BY <2>1, FS_Subset
<1>3. \A i \in A : s[i].id \in B
  BY DEF Ids, SetOf
<1>4. \A k \in B : \E i \in A : s[i].id = k
  BY DEF Ids, SetOf
<1>5. \A i, j \in A : s[i].id = s[j].id => i = j
  BY DEF DistinctIds
<1> HIDE DEF A, B
<1>6. f \in [A -> B] /\ \A i \in A : f[i] = s[i].id
  BY <1>3
<1> HIDE DEF f
<1>7. f \in Bijection(A, B)
  BY <1>4, <1>5, <1>6 DEF Bijection, Injection, Surjection, IsInjective
<1>8. ExistsBijection(A, B)
  BY <1>7 DEF ExistsBijection
<1>9. Cardinality(B) = Cardinality(A)
  BY <1>2, <1>8, FS_Bijection
<1> QED
  BY <1>9 DEF A, B

LEMMA StatesCounted ==
  ASSUME NEW inst \in [Slots -> Inst], NEW states \in [Apps -> SUBSET Slots],
         Private(inst, states), NEW a \in Apps
  PROVE  /\ states[a] = {inst[q].data : q \in {r \in Slots : inst[r].app = a}}
         /\ Cardinality(states[a]) = Cardinality({r \in Slots : inst[r].app = a})
<1> DEFINE A == {r \in Slots : inst[r].app = a}
           B == states[a]
           f == [q \in A |-> inst[q].data]
<1>1. a # "none"
  BY Constants
<1>2. IsFiniteSet(A)
  <2>1. MaxInstances \in Nat /\ IsFiniteSet(Slots) /\ A \in SUBSET Slots
    BY Constants, FS_Interval DEF Slots
  <2> HIDE DEF A
  <2> QED
    BY <2>1, FS_Subset
<1>3. \A q \in A : inst[q].data \in B
  BY <1>1 DEF Private
<1>4. \A k \in B : \E q \in A : inst[q].data = k
  BY DEF Private
<1>5. \A q, r \in A : inst[q].data = inst[r].data => q = r
  BY <1>1 DEF Private
<1>6. B = {inst[q].data : q \in A}
  <2> HIDE DEF A, B
  <2> QED
    BY <1>3, <1>4
<1> HIDE DEF A, B
<1>7. f \in [A -> B] /\ \A q \in A : f[q] = inst[q].data
  BY <1>3
<1> HIDE DEF f
<1>8. f \in Bijection(A, B)
  BY <1>4, <1>5, <1>7 DEF Bijection, Injection, Surjection, IsInjective
<1>9. ExistsBijection(A, B)
  BY <1>8 DEF ExistsBijection
<1>10. Cardinality(B) = Cardinality(A)
  BY <1>2, <1>9, FS_Bijection
<1> QED
  BY <1>6, <1>10 DEF A, B

LEMMA InvType == IInv => TypeOK
<1> SUFFICES ASSUME IInv PROVE TypeOK
  OBVIOUS
<1>0. /\ Good(d) /\ (\A w \in WinSet(d) : w.id <= MaxId)
      /\ con \in [out : Sinks, keys : BOOLEAN, capture : {0} \cup Slots]
      /\ depth \in 0 .. MaxDepth /\ leaving \in BOOLEAN
  BY InvParts
<1>1. /\ d \in Desk /\ InArray(d.wins, d.focus) /\ Alerted(WinSet(d), d.modal)
      /\ Dragged(WinSet(d), d.drag, d.modal)
      /\ Counted(WinSet(d), d.inst, d.orphans, 0)
  BY <1>0, GoodFields
<1>2. /\ d.focus \in Nat \ {0} /\ d.modal \in Nat /\ d.drag \in Nat
      /\ d.inst \in [Slots -> Inst] /\ d.states \in [Apps -> SUBSET Slots]
  BY <1>1, DeskFields
<1>3. Len(d.wins) <= MaxWindows /\ d.focus <= MaxWindows
  BY <1>1 DEF InArray
<1>4. ASSUME NEW w \in WinSet(d)
      PROVE  w \in [id : 1 .. MaxId, owner : Slots \cup {0}, alert : BOOLEAN,
                    min : BOOLEAN, left : BOOLEAN]
  <2>1. w \in Win /\ w.id <= MaxId
    BY <1>0, <1>1, DeskLen
  <2>2. w.id \in 1 .. MaxId
    <3>1. w.id \in Nat \ {0}
      BY <2>1, WinFields
    <3> QED
      BY <2>1, <3>1, Constants
  <2> QED
    BY <2>1, <2>2 DEF Win
<1>5. \A i \in DOMAIN d.wins :
        d.wins[i] \in [id : 1 .. MaxId, owner : Slots \cup {0}, alert : BOOLEAN,
                       min : BOOLEAN, left : BOOLEAN]
  BY <1>1, <1>4, DeskLen
<1>6. d.focus \in 1 .. MaxWindows
  BY <1>2, <1>3, Constants
<1>7. d.modal \in 0 .. MaxId
  <2>1. CASE d.modal # 0
    <3>1. PICK w \in WinSet(d) : w.id = d.modal
      BY <1>1, <2>1 DEF Alerted
    <3>2. d.modal <= MaxId
      BY <1>0, <3>1
    <3> QED
      BY <1>2, <3>2, Constants
  <2> QED
    BY <2>1, Constants
<1>8. d.drag \in 0 .. MaxId
  <2>1. CASE d.drag # 0
    <3>1. PICK w \in WinSet(d) : w.id = d.drag
      BY <1>1, <2>1 DEF Dragged
    <3>2. d.drag <= MaxId
      BY <1>0, <3>1
    <3> QED
      BY <1>2, <3>2, Constants
  <2> QED
    BY <2>1, Constants
<1>9. d.inst \in [Slots -> [app : Apps \cup {"none"}, count : 0 .. MaxWindows,
                            data : {0} \cup Slots]]
  <2>1. ASSUME NEW q \in Slots
        PROVE  d.inst[q] \in [app : Apps \cup {"none"}, count : 0 .. MaxWindows,
                              data : {0} \cup Slots]
    <3>1. d.inst[q] \in Inst /\ d.inst[q].count <= MaxWindows
      BY <1>1, <1>2 DEF Counted
    <3>2. d.inst[q].count \in 0 .. MaxWindows
      <4>1. d.inst[q].count \in Nat
        BY <3>1 DEF Inst
      <4> QED
        BY <3>1, <4>1, Constants
    <3> QED
      BY <3>1, <3>2 DEF Inst
  <2> QED
    BY <1>2, <2>1
<1>10. con.capture \in {0} \cup Slots
  BY <1>0
<1> QED
  BY <1>0, <1>2, <1>3, <1>5, <1>6, <1>7, <1>8, <1>9, <1>10 DEF TypeOK

LEMMA InvOwners == IInv => OwnersRun
<1> SUFFICES ASSUME IInv PROVE OwnersRun
  OBVIOUS
<1>0. Good(d) /\ TypeOK
  BY InvParts, InvType
<1>1. /\ d \in Desk /\ DistinctIds(d.wins) /\ Private(d.inst, d.states)
      /\ Counted(WinSet(d), d.inst, d.orphans, 0)
  BY <1>0, GoodFields
<1>2. /\ d.wins \in Seq(Win) /\ d.inst \in [Slots -> Inst]
      /\ d.states \in [Apps -> SUBSET Slots] /\ DOMAIN d.wins = 1 .. Len(d.wins)
  BY <1>1, DeskFields, DeskLen
<1>3. ASSUME NEW i \in DOMAIN d.wins, d.wins[i].owner # 0
      PROVE  d.wins[i].owner \in Running(d) \ d.orphans
  <2>1. d.wins[i] \in WinSet(d) /\ d.wins[i] \in Win
    BY <1>1, <1>2, DeskLen
  <2>2. d.wins[i].owner \in Slots
    BY <1>3, <2>1, WinFields
  <2> QED
    BY <1>1, <1>3, <2>1, <2>2 DEF Counted, Running
<1>4. ASSUME NEW q \in Running(d) \ d.orphans
      PROVE  d.inst[q].count = Cardinality(WindowsOf(q)) /\ d.inst[q].count > 0
  <2>1. q \in Slots /\ q # 0 /\ d.inst[q].app # "none" /\ q \notin d.orphans
    BY Constants DEF Running
  <2>2. d.inst[q].count = Cardinality(Ids(WinSet(d), q)) /\ d.inst[q].count > 0
    BY <1>1, <2>1 DEF Counted
  <2>3. Cardinality({i \in 1 .. Len(d.wins) : d.wins[i].owner = q})
          = Cardinality(Ids(SetOf(d.wins), q))
    BY <1>1, <1>2, WindowsCounted
  <2>4. WindowsOf(q) = {i \in 1 .. Len(d.wins) : d.wins[i].owner = q}
    BY <1>2 DEF WindowsOf
  <2> QED
    BY <2>2, <2>3, <2>4 DEF WinSet
<1>5. ASSUME NEW a \in Apps
      PROVE  LET mine == {q \in Slots : d.inst[q].app = a}
             IN  /\ d.states[a] = {d.inst[q].data : q \in mine}
                 /\ Cardinality(d.states[a]) = Cardinality(mine)
  BY <1>1, <1>2, StatesCounted
<1> QED
  BY <1>0, <1>3, <1>4, <1>5 DEF OwnersRun

\* Every window of a running instance is counted by it and every instance has a
\* state of its own in its application's array, with none left over, whichever
\* step of opening a window or a file fails (desktop_launch_app_with_argument,
\* desktop_app_instance_window_closed).
THEOREM KeepsOwners == Spec => []OwnersRun
BY Invariant, InvOwners, PTL

\* While some window is visible the focused one is: what is typed never goes to
\* a window the user cannot see (desktop_recompute_focus).
THEOREM KeepsFocus == Spec => []FocusVisible
<1>1. IInv => FocusVisible
  <2> SUFFICES ASSUME IInv PROVE FocusVisible
    OBVIOUS
  <2>1. Good(d)
    BY InvParts
  <2>2. InArray(d.wins, d.focus) /\ DOMAIN d.wins = 1 .. Len(d.wins)
    BY <2>1, GoodFields, DeskLen
  <2> QED
    BY <2>2 DEF FocusVisible, InArray, Visible
<1> QED
  BY <1>1, Invariant, PTL

\* Window ids stay distinct although the highest is handed out again, and a drag
\* moves a window that is still there and visible, with the button held and no
\* alert open (desktop_next_window_id, desktop_destroy_window).
THEOREM KeepsDrag == Spec => []DragHeld
<1>1. IInv => DragHeld
  <2> SUFFICES ASSUME IInv PROVE DragHeld
    OBVIOUS
  <2>1. Good(d) /\ Held(d)
    BY InvParts
  <2>2. /\ d \in Desk /\ DistinctIds(d.wins) /\ Dragged(WinSet(d), d.drag, d.modal)
        /\ DOMAIN d.wins = 1 .. Len(d.wins)
    BY <2>1, GoodFields, DeskLen
  <2>3. \A i, j \in DOMAIN d.wins : d.wins[i].id = d.wins[j].id => i = j
    BY <2>2 DEF DistinctIds
  <2>4. ASSUME d.drag # 0
        PROVE  /\ d.button /\ d.modal = 0
               /\ \E i \in DOMAIN d.wins : d.wins[i].id = d.drag /\ ~d.wins[i].min
    <3>1. d.button /\ d.modal = 0 /\ \E w \in WinSet(d) : w.id = d.drag /\ ~w.min
      BY <2>1, <2>2, <2>4 DEF Held, Dragged
    <3> QED
      BY <2>2, <3>1, DeskLen
  <2> QED
    BY <2>3, <2>4 DEF DragHeld
<1> QED
  BY <1>1, Invariant, PTL

\* The modal window exists, is visible and is the only alert, so it can always be
\* dismissed (desktop_show_alert, desktop_close_modal_window).
THEOREM KeepsAlert == Spec => []AlertIsModal
<1>1. IInv => AlertIsModal
  <2> SUFFICES ASSUME IInv PROVE AlertIsModal
    OBVIOUS
  <2>1. Good(d)
    BY InvParts
  <2>2. /\ d \in Desk /\ Alerted(WinSet(d), d.modal) /\ DOMAIN d.wins = 1 .. Len(d.wins)
    BY <2>1, GoodFields, DeskLen
  <2>3. \A i \in DOMAIN d.wins : d.wins[i].alert <=> d.wins[i].id = d.modal
    BY <2>2, DeskLen DEF Alerted
  <2>4. ASSUME d.modal # 0  PROVE \E i \in DOMAIN d.wins : d.wins[i].alert /\ ~d.wins[i].min
    <3>1. \E w \in WinSet(d) : w.alert /\ ~w.min
      BY <2>2, <2>4 DEF Alerted
    <3> QED
      BY <2>2, <3>1, DeskLen
  <2> QED
    BY <2>3, <2>4 DEF AlertIsModal
<1> QED
  BY <1>1, Invariant, PTL

\* Back at the prompt no Terminal captures the output, and unless a desktop was
\* run inside the desktop the modes are those the session began with
\* (desktop_enter, desktop_exit, shell_execute_line).
THEOREM RestoresPrompt == Spec => []PromptRestored
<1>1. IInv => PromptRestored
  <2> SUFFICES ASSUME IInv, depth = 0
               PROVE  /\ con.capture = 0
                      /\ ~entry.nested => con.out = entry.out /\ con.keys = entry.keys
    BY DEF PromptRestored
  <2>1. Captured /\ Session
    BY InvParts
  <2>2. con.capture = 0
    BY <2>1 DEF Captured
  <2> QED
    BY <2>1, <2>2 DEF Session
<1> QED
  BY <1>1, Invariant, PTL

\* The output is captured only for a Terminal whose command is still executing
\* and whose instance and state are still allocated (terminal_app.c).
THEOREM CapturesLive == Spec => []CaptureLive
<1>1. IInv => CaptureLive
  <2> SUFFICES ASSUME IInv, con.capture # 0
               PROVE  /\ depth > 1
                      /\ \E q \in Running(d) : /\ d.inst[q].app = "terminal"
                                               /\ d.inst[q].data = con.capture
    BY DEF CaptureLive
  <2>1. Captured /\ Good(d)
    BY InvParts
  <2>2. d.orphans \in SUBSET Slots
    BY <2>1, GoodFields, DeskFields
  <2>3. PICK q \in d.orphans : d.inst[q].app = "terminal" /\ d.inst[q].data = con.capture
    BY <2>1 DEF Captured
  <2> QED
    BY <2>1, <2>2, <2>3 DEF Captured, Running
<1> QED
  BY <1>1, Invariant, PTL

LEMMA SameWindows ==
  ASSUME NEW x \in Desk
  PROVE  {w \in ToSet(x.wins) : ~w.alert} = Under(x)
<1>1. DOMAIN x.wins = 1 .. Len(x.wins)
  BY DeskLen
<1>2. ToSet(x.wins) = WinSet(x)
  BY <1>1 DEF ToSet, WinSet, SetOf
<1> QED
  BY <1>2 DEF Under

\* While an alert is open no step of a session opens, closes, moves or changes a
\* window under it, nor the registry (desktop_handle_modal_event).
THEOREM HoldsUnderAlert == Spec => ModalHolds
<1> DEFINE Still == d'.inst = d.inst /\ Under(d') = Under(d)
           Unmoved == {w \in ToSet(d'.wins) : ~w.alert} = {w \in ToSet(d.wins) : ~w.alert}
           Holds == d.modal # 0 /\ depth > 0 => d'.inst = d.inst /\ Unmoved
<1>1. ASSUME IInv, Next, d.modal # 0, depth > 0  PROVE Still
  <2>0. Good(d)
    BY <1>1, InvParts
  <2>1. ASSUME NEW args \in Args, PromptDesktop(args)  PROVE FALSE
    BY <1>1, <2>1 DEF PromptDesktop
  <2>2. ASSUME NEW file \in Files, PromptOpen(file)  PROVE FALSE
    BY <1>1, <2>2 DEF PromptOpen
  <2>3. ASSUME NEW c \in ModeCommands, PromptMode(c)  PROVE FALSE
    BY <1>1, <2>3 DEF PromptMode
  <2>4. ASSUME NEW in \in Inputs, NEW pt \in PointsFor(d, in, con.keys), NEW off \in Offs(in),
               PopEvent(in, pt, off)
        PROVE  Still
    BY <1>1, <2>4, PopStep
  <2>5. ASSUME NEW in \in Inputs, DesktopExit(in)  PROVE Still
    BY <1>1, <2>5, ExitStep DEF Under, WinSet
  <2>6. ~TerminalEnter
    BY <1>1, <2>0, TerminalFacts
  <2>7. CASE DesktopReturn
    BY <2>7 DEF DesktopReturn
  <2> QED
    BY <1>1, <2>1, <2>2, <2>3, <2>4, <2>5, <2>6, <2>7
       DEF Next, TerminalDesktop, TerminalOpen, TerminalMode
<1>2. IInv => d \in Desk
  BY InvParts, GoodFields
<1>3. IInv /\ IInv' /\ [Next]_vars => [Holds]_d
  <2> SUFFICES ASSUME IInv, IInv', [Next]_vars, d' # d, d.modal # 0, depth > 0
               PROVE  d'.inst = d.inst /\ Unmoved
    OBVIOUS
  <2>1. Next
    BY DEF vars
  <2>2. Still
    BY <1>1, <2>1
  <2>3. d \in Desk /\ d' \in Desk
    BY <1>2 DEF IInv, Sound
  <2>4. Unmoved
    <3>1. {w \in ToSet(d.wins) : ~w.alert} = Under(d)
      BY <2>3, SameWindows
    <3>2. {w \in ToSet(d'.wins) : ~w.alert} = Under(d')
      BY <2>3, SameWindows
    <3> QED
      BY <2>2, <3>1, <3>2
  <2> QED
    BY <2>2, <2>4
<1> QED
  BY <1>3, Invariant, PTL DEF Spec, ModalHolds
=============================================================================
