---------------------------- MODULE ConsoleProofs ----------------------------
(***************************************************************************)
(* Proofs about the console and the display for every size of the grid and *)
(* of the line, every set of tasks and every text that is printed: the     *)
(* frame buffer shows the grid, the display shows the frame buffer but for *)
(* what is dirty or owed, a line is echoed as it was typed, and the        *)
(* pointer leaves no trail.                                                *)
(***************************************************************************)
EXTENDS Console, WellFoundedInduction, TLAPS

Glyphs == Chars \cup {" ", "?"}
Images == Glyphs \cup {"mark", "picture", "pointer", "none"}
Rects == [y0 : Int, x0 : Int, y1 : Int, x1 : Int]

\* The C statics of the console, with the frame buffer and the display.
Con == [gpu : BOOLEAN, mode : SUBSET Both, saved : SUBSET Both, attached : BOOLEAN,
        cells : [Cells -> Glyphs], row : 1 .. Rows, col : 1 .. Cols, visible : BOOLEAN,
        dirty : Rects, fb : [Pix -> Images], scr : [Pix -> Images],
        foreign : SUBSET Pix, owed : SUBSET Pix, others : Nat]

\* What the console shows at a place of the frame buffer.
Shown(k, p) == IF k.visible /\ p = Mark(Cursor(k)) THEN "mark" ELSE k.cells[CellOf(p)]

Rendered(k) == k.attached => \A p \in Pix \ k.foreign : k.fb[p] = Shown(k, p)

Covered(k) == \A p \in Pix : k.scr[p] # k.fb[p] => p \in Dirty(k) \cup k.owed \/ ~k.gpu

Sane(k) ==
  /\ k \in Con
  /\ ("graphics" \in k.mode => k.attached) /\ (k.attached => k.gpu)
  /\ Rendered(k)
  /\ Covered(k)

(***************************************************************************)
(* The pointer q over the console k.  Where its image is still there, and  *)
(* nothing foreign was under it, the saved background is what the console  *)
(* shows.  During a move nothing foreign comes to the place it moves to.   *)
(***************************************************************************)
Backs == (UNION {[Halves(a) -> Images] : a \in Cells}) \cup {<< >>}
Ptr == [attached : BOOLEAN, visible : BOOLEAN, at : Cells, saved : Backs, under : SUBSET Pix,
        moving : BOOLEAN]

\* The background that is saved has no pointer in it.
Saved(q) == q.saved \in [Halves(q.at) -> Images \ {"pointer"}]

Pointing(q) ==
  /\ q \in Ptr
  /\ q.moving => ~q.visible
  /\ q.visible \/ q.moving => q.attached /\ Saved(q)

Trackless(k, q) == \A p \in Pix : k.fb[p] = "pointer" => q.visible /\ p \in Halves(q.at)

Over(k, q) ==
  /\ Trackless(k, q)
  /\ k.attached /\ q.visible =>
       \A p \in Halves(q.at) : k.fb[p] = "pointer" /\ p \notin q.under => q.saved[p] = Shown(k, p)
  /\ q.moving => \A p \in Halves(q.at) : p \in k.foreign => p \in q.under

\* The pointer comes with the shell, and so does a line that is read.
Stages ==
  /\ phase \in {"off", "boot", "demo", "shell"}
  /\ phase = "off" => ~c.gpu
  /\ phase # "shell" => ~ptr.visible /\ ~ptr.moving /\ pc["kernel"] \in {"run", "unflushed"}
  /\ pc \in [Contexts -> {"run", "unflushed", "reading", "desktop"}]

LineOK ==
  /\ line \in [buf : Seq(Chars \cup {"control"}), clean : BOOLEAN]
  /\ Len(line.buf) < MaxLine

IInv ==
  /\ Sane(c) /\ Pointing(ptr) /\ Over(c, ptr)
  /\ Stages /\ LineOK
  /\ NothingPending /\ EchoMatches

----------------------------------------------------------------------------
(* Induction *)

\* A set of natural numbers that is not empty has a least element.
LEMMA LeastElement ==
  ASSUME NEW S \in SUBSET Nat, S # {}
  PROVE  \E i \in S : \A j \in S : i =< j
<1> DEFINE Less == OpToRel(<, Nat)
<1>1. IsWellFoundedOn(Less, Nat)
  BY NatLessThanWellFounded
<1>2. \A i, j \in Nat : <<j, i>> \in Less <=> j < i
  BY DEF OpToRel
<1> HIDE DEF Less
<1>3. PICK i \in S : \A j \in S : ~ (<<j, i>> \in Less)
  BY <1>1, WFMin
<1>4. ASSUME NEW j \in S  PROVE i =< j
  <2>1. i \in Nat /\ j \in Nat
    OBVIOUS
  <2>2. ~ (j < i)
    BY <1>2, <1>3, <2>1
  <2> QED
    BY <2>1, <2>2
<1> QED
  BY <1>3, <1>4

\* A set of numbers that has 0 and, with each number below n, the next one has
\* all of them up to n: induction, in the form the provers can use.
LEMMA Upto ==
  ASSUME NEW n \in Nat, NEW S, 0 \in S,
         \A i \in 1 .. n : i - 1 \in S => i \in S
  PROVE  \A i \in 0 .. n : i \in S
<1> SUFFICES ASSUME NEW k \in 0 .. n, k \notin S PROVE FALSE
  OBVIOUS
<1> DEFINE B == {i \in 0 .. n : i \notin S}
<1>1. B \in SUBSET Nat /\ B # {}
  OBVIOUS
<1>2. PICK i \in B : \A j \in B : i =< j
  <2> HIDE DEF B
  <2> QED
    BY <1>1, LeastElement
<1>3. i \in 0 .. n /\ i \notin S /\ i # 0
  OBVIOUS
<1>4. i \in 1 .. n /\ i - 1 \in 0 .. n /\ ~(i =< i - 1)
  BY <1>3
<1>5. i - 1 \in S
  BY <1>2, <1>4
<1> QED
  BY <1>3, <1>4, <1>5

\* g starts at b and takes its next value from F.
Iterates(g, n, b, F) == g[0] = b /\ \A i \in 1 .. n : g[i] = F[<<i, g[i - 1]>>]

\* A recursive function over 0 .. n exists.
LEMMA Iterated ==
  ASSUME NEW n \in Nat, NEW V, NEW b \in V, NEW F \in [(1 .. n) \X V -> V]
  PROVE  \E g \in [0 .. n -> V] : Iterates(g, n, b, F)
<1> DEFINE Is(g, m) == g[0] = b /\ \A i \in 1 .. m : g[i] = F[<<i, g[i - 1]>>]
           S == {m \in 0 .. n : \E g \in [0 .. m -> V] : Is(g, m)}
<1>1. 0 \in S
  <2> DEFINE g == [i \in 0 .. 0 |-> b]
  <2>1. g \in [0 .. 0 -> V] /\ g[0] = b
    OBVIOUS
  <2>2. \A i \in 1 .. 0 : FALSE
    OBVIOUS
  <2> HIDE DEF g
  <2>3. 0 \in 0 .. n /\ Is(g, 0)
    BY <2>1, <2>2
  <2> QED
    BY <2>1, <2>3
<1>2. ASSUME NEW m \in 1 .. n, m - 1 \in S  PROVE m \in S
  <2>1. PICK g \in [0 .. m - 1 -> V] : Is(g, m - 1)
    BY <1>2
  <2> DEFINE h == [i \in 0 .. m |-> IF i = m THEN F[<<m, g[m - 1]>>] ELSE g[i]]
  <2>2. m \in Nat /\ m - 1 \in 0 .. m - 1 /\ m - 1 \in 0 .. m
    OBVIOUS
  <2>3. F[<<m, g[m - 1]>>] \in V
    BY <2>2
  <2>4. h \in [0 .. m -> V]
    BY <2>3
  <2>5. \A i \in 0 .. m - 1 : h[i] = g[i]
    OBVIOUS
  <2>6. h[m] = F[<<m, h[m - 1]>>]
    <3>1. h[m] = F[<<m, g[m - 1]>>] /\ h[m - 1] = g[m - 1]
      <4>1. m \in 0 .. m
        BY <2>2
      <4> QED
        BY <2>2, <2>5, <4>1
    <3> HIDE DEF h
    <3> QED
      BY <3>1
  <2>7. h[0] = b
    BY <2>1, <2>5
  <2> HIDE DEF h
  <2>8. ASSUME NEW i \in 1 .. m  PROVE h[i] = F[<<i, h[i - 1]>>]
    <3>1. CASE i = m
      BY <2>6, <3>1
    <3>2. CASE i # m
      <4>1. i \in 1 .. m - 1 /\ i \in 0 .. m - 1 /\ i - 1 \in 0 .. m - 1
        BY <3>2
      <4>2. g[i] = F[<<i, g[i - 1]>>]
        BY <2>1, <4>1
      <4> QED
        BY <2>5, <4>1, <4>2
    <3> QED
      BY <3>1, <3>2
  <2> QED
    BY <2>4, <2>7, <2>8
<1>3. n \in S
  <2>1. \A m \in 1 .. n : m - 1 \in S => m \in S
    BY <1>2
  <2> HIDE DEF S
  <2>2. \A i \in 0 .. n : i \in S
    BY <1>1, <2>1, Upto
  <2> QED
    BY <2>2
<1> QED
  BY <1>3 DEF Iterates

----------------------------------------------------------------------------
(* Places and rectangles *)

LEMMA GridSize == Rows \in Nat \ {0} /\ Cols \in Nat \ {0}
BY ConsoleAssumption

\* A bounded set of numbers has a least and a greatest element.
LEMMA MinMax ==
  ASSUME NEW n \in Nat, NEW S \in SUBSET (1 .. n), S # {}
  PROVE  /\ Min(S) \in S /\ \A x \in S : Min(S) <= x
         /\ Max(S) \in S /\ \A x \in S : x <= Max(S)
<1>1. \E i \in S : \A j \in S : i <= j
  BY LeastElement, S \in SUBSET Nat
<1>2. Min(S) \in S /\ \A x \in S : Min(S) <= x
  BY <1>1 DEF Min
<1>3. \E i \in S : \A j \in S : i >= j
  <2> DEFINE T == {n - x : x \in S}
  <2>1. T \in SUBSET Nat /\ T # {}
    <3>1. \A x \in S : n - x \in Nat
      OBVIOUS
    <3> QED
      BY <3>1
  <2> HIDE DEF T
  <2>2. PICK t \in T : \A u \in T : t <= u
    BY <2>1, LeastElement
  <2>3. PICK i \in S : t = n - i
    BY DEF T
  <2>4. ASSUME NEW j \in S PROVE i >= j
    <3>1. n - j \in T
      BY DEF T
    <3>2. n - i <= n - j
      BY <2>2, <2>3, <3>1
    <3> QED
      BY <3>2
  <2> QED
    BY <2>4
<1>4. Max(S) \in S /\ \A x \in S : x <= Max(S)
  BY <1>3 DEF Max
<1> QED
  BY <1>2, <1>4

\* A cell of the grid and its two parts of the frame buffer.
LEMMA Parts ==
  /\ \A a \in Cells : Halves(a) \in SUBSET Pix /\ Mark(a) \in Halves(a) /\ Mark(a) \in Pix
  /\ \A p \in Pix : CellOf(p) \in Cells /\ p \in Halves(CellOf(p))
  /\ \A a \in Cells : \A p \in Halves(a) : CellOf(p) = a
<1>1. Rows \in Nat /\ Cols \in Nat
  BY GridSize
<1>2. ASSUME NEW a \in Cells
      PROVE  Halves(a) \in SUBSET Pix /\ Mark(a) \in Halves(a) /\ Mark(a) \in Pix
  BY <1>1 DEF Cells, Halves, Mark, Pix
<1>3. ASSUME NEW p \in Pix
      PROVE  CellOf(p) \in Cells /\ p \in Halves(CellOf(p))
  <2>1. PICK y \in 1 .. 2 * Rows, x \in 1 .. Cols : p = <<y, x>>
    BY DEF Pix
  <2>2. (y + 1) \div 2 \in 1 .. Rows
    BY <1>1
  <2>3. y = 2 * ((y + 1) \div 2) - 1 \/ y = 2 * ((y + 1) \div 2)
    BY <1>1
  <2> QED
    BY <2>1, <2>2, <2>3 DEF CellOf, Cells, Halves
<1>4. ASSUME NEW a \in Cells, NEW p \in Halves(a)
      PROVE  CellOf(p) = a
  <2>1. PICK y \in 1 .. Rows, x \in 1 .. Cols : a = <<y, x>>
    BY DEF Cells
  <2>2. (2 * y - 1 + 1) \div 2 = y /\ (2 * y + 1) \div 2 = y
    BY <1>1
  <2> QED
    BY <2>1, <2>2 DEF CellOf, Halves
<1> QED
  BY <1>2, <1>3, <1>4

\* The cursor is in the grid.
LEMMA CursorIn ==
  ASSUME NEW k \in Con
  PROVE  Cursor(k) \in Cells
BY DEF Con, Cursor, Cells

\* A rectangle covers what it was made for.
LEMMA RectCovers ==
  ASSUME NEW S \in SUBSET Pix, S # {}
  PROVE  RectOf(S) \in Rects /\ S \subseteq In(RectOf(S))
<1> DEFINE Y == {p[1] : p \in S}
           X == {p[2] : p \in S}
<1>1. Rows \in Nat /\ 2 * Rows \in Nat /\ Cols \in Nat
  <2>1. Rows \in Nat /\ Cols \in Nat
    BY GridSize
  <2> QED
    BY <2>1
<1>2. Y \in SUBSET (1 .. 2 * Rows) /\ X \in SUBSET (1 .. Cols) /\ Y # {} /\ X # {}
  BY DEF Pix
<1>3. RectOf(S) = [y0 |-> Min(Y), x0 |-> Min(X), y1 |-> Max(Y), x1 |-> Max(X)]
  BY DEF RectOf
<1>4. \A p \in S : p[1] \in Y /\ p[2] \in X
  OBVIOUS
<1> HIDE DEF Y, X
<1>5. /\ Min(Y) \in Y /\ \A x \in Y : Min(Y) <= x
      /\ Max(Y) \in Y /\ \A x \in Y : x <= Max(Y)
  BY <1>1, <1>2, MinMax
<1>6. /\ Min(X) \in X /\ \A x \in X : Min(X) <= x
      /\ Max(X) \in X /\ \A x \in X : x <= Max(X)
  BY <1>1, <1>2, MinMax
<1>7. Min(Y) \in Int /\ Max(Y) \in Int /\ Min(X) \in Int /\ Max(X) \in Int
  <2>1. Y \subseteq Int /\ X \subseteq Int
    BY <1>1, <1>2
  <2> QED
    BY <2>1, <1>5, <1>6
<1>8. RectOf(S) \in Rects
  BY <1>3, <1>7 DEF Rects
<1>9. ASSUME NEW p \in S PROVE p[1] \in Min(Y) .. Max(Y) /\ p[2] \in Min(X) .. Max(X)
  <2>1. p[1] \in Int /\ p[2] \in Int
    BY <1>1 DEF Pix
  <2>2. Min(Y) <= p[1] /\ p[1] <= Max(Y) /\ Min(X) <= p[2] /\ p[2] <= Max(X)
    BY <1>4, <1>5, <1>6
  <2> QED
    BY <1>7, <2>1, <2>2
<1> QED
  BY <1>3, <1>8, <1>9 DEF In

\* gfx_console_mark_dirty_rect changes the rectangle only, which grows.
LEMMA MarkDirtyGrows ==
  ASSUME NEW k \in Con, NEW S \in SUBSET Pix, S # {}
  PROVE  /\ MarkDirty(k, S) \in Con
         /\ \E r \in Rects : MarkDirty(k, S) = [k EXCEPT !.dirty = r]
         /\ Dirty(k) \cup S \subseteq Dirty(MarkDirty(k, S))
<1>1. Dirty(k) \cup S \in SUBSET Pix /\ Dirty(k) \cup S # {}
  BY DEF Dirty, In
<1> DEFINE r == RectOf(Dirty(k) \cup S)
<1>2. r \in Rects /\ Dirty(k) \cup S \subseteq In(r)
  BY <1>1, RectCovers
<1>3. MarkDirty(k, S) = [k EXCEPT !.dirty = r]
  BY DEF MarkDirty
<1> HIDE DEF r
<1>4. [k EXCEPT !.dirty = r] \in Con /\ [k EXCEPT !.dirty = r].dirty = r
  BY <1>2 DEF Con
<1> QED
  BY <1>2, <1>3, <1>4 DEF Dirty

----------------------------------------------------------------------------
(* What the console draws *)

\* The sinks, the frame buffer and the GPU stay as they are.
SameConf(k, h) ==
  /\ h.gpu = k.gpu /\ h.attached = k.attached /\ h.mode = k.mode /\ h.saved = k.saved

SameText(k, h) == h.cells = k.cells /\ h.row = k.row /\ h.col = k.col

\* What printing may do to the frame buffer: it draws over what is foreign, and
\* where a pointer is still to be seen it has changed nothing below.
Prints(k, h) ==
  /\ h.foreign \subseteq k.foreign
  /\ \A p \in Pix : h.fb[p] = "pointer" => k.fb[p] = "pointer" /\ Shown(h, p) = Shown(k, p)

LEMMA PrintsRefl == \A k : Prints(k, k) /\ SameConf(k, k)
BY DEF Prints, SameConf

LEMMA PrintsTrans ==
  ASSUME NEW k, NEW h, NEW g, Prints(k, h), Prints(h, g)
  PROVE  Prints(k, g)
BY DEF Prints

LEMMA ConfTrans ==
  ASSUME NEW k, NEW h, NEW g, SameConf(k, h), SameConf(h, g)
  PROVE  SameConf(k, g)
BY DEF SameConf

\* What is drawn and marked dirty, or owed, is accounted for.
LEMMA CoverKept ==
  ASSUME NEW k, NEW h, Covered(k), h.scr = k.scr, h.gpu = k.gpu,
         Dirty(k) \cup k.owed \subseteq Dirty(h) \cup h.owed,
         \A p \in Pix : h.fb[p] # k.fb[p] => p \in Dirty(h) \cup h.owed
  PROVE  Covered(h)
BY DEF Covered

\* gfx_console_draw_cell
LEMMA DrawCellFields ==
  ASSUME NEW k \in Con, NEW a \in Cells
  PROVE  LET h == DrawCell(k, a)
         IN  /\ h \in Con
             /\ h.fb = [p \in Pix |-> IF p \in Halves(a) THEN k.cells[a] ELSE k.fb[p]]
             /\ h.foreign = k.foreign \ Halves(a)
             /\ Dirty(k) \cup Halves(a) \subseteq Dirty(h)
             /\ SameConf(k, h) /\ SameText(k, h) /\ h.visible = k.visible
             /\ h.scr = k.scr /\ h.owed = k.owed /\ h.others = k.others
<1> DEFINE F == [p \in Pix |-> IF p \in Halves(a) THEN k.cells[a] ELSE k.fb[p]]
           m == Paint(k, Halves(a), k.cells[a])
<1>1. Halves(a) \in SUBSET Pix /\ Halves(a) # {}
  BY Parts
<1>2. k.cells[a] \in Images /\ k.fb \in [Pix -> Images]
  BY DEF Con, Images
<1>3. F \in [Pix -> Images]
  BY <1>2
<1>4. m = [k EXCEPT !.fb = F]
  BY DEF Paint, Con
<1> HIDE DEF F
<1>5. m \in Con /\ m.fb = F /\ m.foreign = k.foreign /\ m.dirty = k.dirty
  BY <1>3, <1>4 DEF Con
<1>6. Dirty(m) = Dirty(k)
  BY <1>5 DEF Dirty
<1>7. PICK r \in Rects : MarkDirty(m, Halves(a)) = [m EXCEPT !.dirty = r]
  BY <1>1, <1>5, MarkDirtyGrows
<1>8. Dirty(m) \cup Halves(a) \subseteq Dirty([m EXCEPT !.dirty = r])
  BY <1>1, <1>5, <1>7, MarkDirtyGrows
<1> DEFINE h == [[m EXCEPT !.dirty = r] EXCEPT !.foreign = k.foreign \ Halves(a)]
<1>9. DrawCell(k, a) = h
  BY <1>5, <1>7 DEF DrawCell, Con
<1>10. h = [k EXCEPT !.fb = F, !.dirty = r, !.foreign = k.foreign \ Halves(a)]
  BY <1>4 DEF Con
<1>11. Dirty(h) = Dirty([m EXCEPT !.dirty = r])
  BY <1>5 DEF Dirty, Con
<1>12. h \in Con
  BY <1>3, <1>10 DEF Con
<1>13. /\ h.fb = F /\ h.foreign = k.foreign \ Halves(a)
       /\ SameConf(k, h) /\ SameText(k, h) /\ h.visible = k.visible
       /\ h.scr = k.scr /\ h.owed = k.owed /\ h.others = k.others
  BY <1>10 DEF Con, SameConf, SameText
<1> HIDE DEF h
<1> QED
  BY <1>6, <1>8, <1>9, <1>11, <1>12, <1>13 DEF F

\* A cell gets a new character and is drawn, while the cursor is hidden.
CellDrawn(k, h, a, g) ==
  /\ Sane(h) /\ Prints(k, h) /\ SameConf(k, h) /\ ~h.visible
  /\ h.cells = [k.cells EXCEPT ![a] = g] /\ h.row = k.row /\ h.col = k.col

LEMMA DrawAt ==
  ASSUME NEW k, Sane(k), ~k.visible, NEW a \in Cells, NEW g \in Glyphs
  PROVE  CellDrawn(k, DrawCell([k EXCEPT !.cells[a] = g], a), a, g)
<1>1. k \in Con
  BY DEF Sane
<1> DEFINE n == [k EXCEPT !.cells[a] = g]
           h == DrawCell(n, a)
<1>2. /\ n \in Con /\ n.cells = [k.cells EXCEPT ![a] = g] /\ n.cells[a] = g
      /\ n.fb = k.fb /\ n.foreign = k.foreign /\ n.dirty = k.dirty /\ n.scr = k.scr
      /\ n.owed = k.owed /\ n.visible = k.visible /\ n.row = k.row /\ n.col = k.col
      /\ SameConf(k, n)
  BY <1>1 DEF Con, SameConf
<1>3. k.cells \in [Cells -> Glyphs] /\ k.fb \in [Pix -> Images] /\ k.foreign \in SUBSET Pix
  BY <1>1 DEF Con
<1> HIDE DEF n
<1>4. /\ h \in Con
      /\ h.fb = [p \in Pix |-> IF p \in Halves(a) THEN n.cells[a] ELSE n.fb[p]]
      /\ h.foreign = n.foreign \ Halves(a)
      /\ Dirty(n) \cup Halves(a) \subseteq Dirty(h)
      /\ SameConf(n, h) /\ SameText(n, h) /\ h.visible = n.visible
      /\ h.scr = n.scr /\ h.owed = n.owed
  BY <1>2, DrawCellFields
<1> HIDE DEF h
<1>5. Dirty(n) = Dirty(k)
  BY <1>2 DEF Dirty
<1>6. /\ h.cells = [k.cells EXCEPT ![a] = g] /\ h.row = k.row /\ h.col = k.col
      /\ ~h.visible /\ SameConf(k, h)
  BY <1>2, <1>4, ConfTrans DEF SameText
<1>7. \A p \in Pix : h.cells[CellOf(p)] = IF p \in Halves(a) THEN g ELSE k.cells[CellOf(p)]
  BY <1>3, <1>6, Parts
<1>8. \A p \in Pix : h.fb[p] = IF p \in Halves(a) THEN g ELSE k.fb[p]
  BY <1>2, <1>4
<1>9. \A p \in Pix : Shown(h, p) = IF p \in Halves(a) THEN g ELSE Shown(k, p)
  BY <1>6, <1>7 DEF Shown
<1>10. Rendered(h)
  BY <1>2, <1>4, <1>6, <1>8, <1>9 DEF Rendered, Sane, SameConf
<1>11. Covered(h)
  BY <1>2, <1>4, <1>5, <1>6, <1>8, CoverKept DEF Sane, SameConf
<1>12. g # "pointer"
  BY ConsoleAssumption DEF Glyphs
<1>13. Prints(k, h)
  BY <1>2, <1>4, <1>8, <1>9, <1>12 DEF Prints
<1>14. Sane(h)
  BY <1>4, <1>6, <1>10, <1>11 DEF Sane, SameConf
<1> QED
  BY <1>6, <1>13, <1>14 DEF h, n, CellDrawn

\* gfx_console_hide_cursor puts the character back in place of the mark.
LEMMA HideSane ==
  ASSUME NEW k, Sane(k)
  PROVE  LET h == HideCursor(k)
         IN  /\ Sane(h) /\ Prints(k, h) /\ SameConf(k, h) /\ SameText(k, h)
             /\ k.attached => ~h.visible
<1>1. k \in Con /\ Cursor(k) \in Cells
  BY CursorIn DEF Sane
<1>2. CASE ~(k.attached /\ k.visible)
  BY <1>1, <1>2, PrintsRefl DEF HideCursor, SameText
<1>3. CASE k.attached /\ k.visible
  <2> DEFINE a == Cursor(k)
             d == DrawCell(k, a)
             h == [d EXCEPT !.visible = FALSE]
  <2>1. HideCursor(k) = h
    BY <1>3 DEF HideCursor
  <2>2. /\ d \in Con
        /\ d.fb = [p \in Pix |-> IF p \in Halves(a) THEN k.cells[a] ELSE k.fb[p]]
        /\ d.foreign = k.foreign \ Halves(a)
        /\ Dirty(k) \cup Halves(a) \subseteq Dirty(d)
        /\ SameConf(k, d) /\ SameText(k, d) /\ d.visible = k.visible
        /\ d.scr = k.scr /\ d.owed = k.owed
    BY <1>1, DrawCellFields
  <2> HIDE DEF d
  <2>3. /\ h \in Con /\ h.fb = d.fb /\ h.foreign = d.foreign /\ h.dirty = d.dirty
        /\ SameConf(d, h) /\ SameText(d, h) /\ h.visible = FALSE
        /\ h.scr = d.scr /\ h.owed = d.owed
    BY <2>2 DEF Con, SameConf, SameText
  <2> HIDE DEF h
  <2>4. Dirty(h) = Dirty(d)
    BY <2>3 DEF Dirty
  <2>5. SameConf(k, h) /\ SameText(k, h)
    BY <2>2, <2>3, ConfTrans DEF SameText
  <2>6. k.cells \in [Cells -> Glyphs] /\ a \in Cells
    BY <1>1 DEF Con
  <2>7. \A p \in Pix : p \in Halves(a) => CellOf(p) = a
    BY <2>6, Parts
  <2>8. \A p \in Pix : p \notin Halves(a) => p # Mark(Cursor(k))
    BY <2>6, Parts
  <2>9. \A p \in Pix : h.fb[p] = IF p \in Halves(a) THEN k.cells[a] ELSE k.fb[p]
    BY <2>2, <2>3
  <2>10. \A p \in Pix : Shown(h, p) = IF p \in Halves(a) THEN k.cells[a] ELSE Shown(k, p)
    BY <2>3, <2>5, <2>7, <2>8 DEF Shown, SameText
  <2>11. Rendered(h)
    BY <1>3, <2>2, <2>3, <2>9, <2>10 DEF Rendered, Sane
  <2>12. Covered(h)
    BY <2>2, <2>3, <2>4, <2>5, <2>9, CoverKept DEF Sane, SameConf
  <2>13. k.cells[a] # "pointer"
    BY <2>6, ConsoleAssumption DEF Glyphs
  <2>14. Prints(k, h)
    BY <2>2, <2>3, <2>9, <2>10, <2>13 DEF Prints
  <2>15. Sane(h)
    BY <2>3, <2>5, <2>11, <2>12 DEF Sane, SameConf
  <2> QED
    BY <2>1, <2>3, <2>5, <2>14, <2>15
<1> QED
  BY <1>2, <1>3

\* gfx_console_show_cursor
LEMMA ShowSane ==
  ASSUME NEW k, Sane(k)
  PROVE  LET h == ShowCursor(k)
         IN  Sane(h) /\ Prints(k, h) /\ SameConf(k, h) /\ SameText(k, h)
<1>1. k \in Con /\ Cursor(k) \in Cells
  BY CursorIn DEF Sane
<1>2. CASE ~k.attached
  BY <1>1, <1>2, PrintsRefl DEF ShowCursor, SameText
<1>3. CASE k.attached
  <2> DEFINE a == Mark(Cursor(k))
             F == [p \in Pix |-> IF p \in {a} THEN "mark" ELSE k.fb[p]]
             m == Paint(k, {a}, "mark")
  <2>1. a \in Pix /\ {a} \in SUBSET Pix /\ {a} # {}
    BY <1>1, Parts
  <2>2. k.fb \in [Pix -> Images]
    BY <1>1 DEF Con
  <2>3. F \in [Pix -> Images]
    BY <2>2 DEF Images
  <2>4. m = [k EXCEPT !.fb = F]
    BY <1>1 DEF Paint, Con
  <2>5. \A p \in Pix : F[p] = IF p = a THEN "mark" ELSE k.fb[p]
    OBVIOUS
  <2> HIDE DEF F
  <2>6. m \in Con /\ m.dirty = k.dirty
    BY <1>1, <2>3, <2>4 DEF Con
  <2>7. PICK r \in Rects : MarkDirty(m, {a}) = [m EXCEPT !.dirty = r]
    BY <2>1, <2>6, MarkDirtyGrows
  <2>8. Dirty(m) \cup {a} \subseteq Dirty([m EXCEPT !.dirty = r])
    BY <2>1, <2>6, <2>7, MarkDirtyGrows
  <2> DEFINE h == [k EXCEPT !.fb = F, !.dirty = r, !.visible = TRUE, !.foreign = k.foreign \ {a}]
  <2>9. ShowCursor(k) = [[m EXCEPT !.dirty = r] EXCEPT !.visible = TRUE,
                            !.foreign = [m EXCEPT !.dirty = r].foreign \ {a}]
    BY <1>3, <2>7 DEF ShowCursor
  <2>10. ShowCursor(k) = h
    BY <1>1, <2>4, <2>9 DEF Con
  <2>11. Dirty([m EXCEPT !.dirty = r]) = In(r) /\ Dirty(m) = Dirty(k)
    BY <1>1, <2>4, <2>6 DEF Dirty, Con
  <2>12. /\ h \in Con /\ h.fb = F /\ h.foreign = k.foreign \ {a} /\ h.dirty = r
         /\ SameConf(k, h) /\ SameText(k, h) /\ h.visible = TRUE
         /\ h.scr = k.scr /\ h.owed = k.owed
    BY <1>1, <2>3 DEF Con, SameConf, SameText
  <2> HIDE DEF h
  <2>13. Dirty(k) \cup {a} \subseteq Dirty(h)
    BY <2>8, <2>11, <2>12 DEF Dirty
  <2>14. Mark(Cursor(h)) = a
    BY <2>12 DEF SameText, Cursor
  <2>15. \A p \in Pix : Shown(h, p) = IF p = a THEN "mark" ELSE Shown(k, p)
    BY <2>12, <2>14 DEF Shown, SameText
  <2>16. Rendered(h)
    BY <1>3, <2>5, <2>12, <2>15 DEF Rendered, Sane
  <2>17. Covered(h)
    BY <2>5, <2>12, <2>13, CoverKept DEF Sane, SameConf
  <2>18. Prints(k, h)
    BY <2>5, <2>12, <2>15 DEF Prints
  <2>19. Sane(h)
    BY <2>12, <2>16, <2>17 DEF Sane, SameConf
  <2> QED
    BY <2>10, <2>12, <2>18, <2>19
<1> QED
  BY <1>2, <1>3

\* While it is hidden the cursor can be put anywhere.
CursorMoved(k, h, y, x) ==
  /\ Sane(h) /\ Prints(k, h) /\ SameConf(k, h) /\ ~h.visible
  /\ h.cells = k.cells /\ h.row = y /\ h.col = x

LEMMA MoveCursor ==
  ASSUME NEW k, Sane(k), ~k.visible, NEW y \in 1 .. Rows, NEW x \in 1 .. Cols
  PROVE  CursorMoved(k, [k EXCEPT !.row = y, !.col = x], y, x)
<1> DEFINE h == [k EXCEPT !.row = y, !.col = x]
<1>1. k \in Con
  BY DEF Sane
<1>2. /\ h \in Con /\ h.row = y /\ h.col = x /\ h.cells = k.cells /\ h.visible = k.visible
      /\ h.fb = k.fb /\ h.foreign = k.foreign /\ h.dirty = k.dirty /\ h.scr = k.scr
      /\ h.owed = k.owed /\ SameConf(k, h)
  BY <1>1 DEF Con, SameConf
<1> HIDE DEF h
<1>3. \A p \in Pix : Shown(h, p) = Shown(k, p)
  BY <1>2 DEF Shown
<1>4. Rendered(h) /\ Prints(k, h)
  BY <1>2, <1>3 DEF Rendered, Prints, Sane, SameConf
<1>5. Covered(h)
  BY <1>2 DEF Covered, Dirty, Sane, SameConf
<1>6. Sane(h)
  BY <1>2, <1>4, <1>5 DEF Sane, SameConf
<1> QED
  BY <1>2, <1>4, <1>6 DEF h, CursorMoved

\* The cells after a scroll.
Up(cells) == [p \in Cells |-> IF p[1] < Rows THEN cells[<<p[1] + 1, p[2]>>] ELSE " "]

LEMMA ScrollSane ==
  ASSUME NEW k, Sane(k), ~k.visible
  PROVE  LET h == Scroll(k)
         IN  /\ Sane(h) /\ Prints(k, h) /\ SameConf(k, h) /\ ~h.visible
             /\ h.cells = Up(k.cells) /\ h.row = k.row /\ h.col = k.col
<1>1. k \in Con /\ k.cells \in [Cells -> Glyphs]
  BY DEF Sane, Con
<1>2. Up(k.cells) \in [Cells -> Glyphs]
  <2>1. ASSUME NEW p \in Cells, p[1] < Rows PROVE <<p[1] + 1, p[2]>> \in Cells
    BY <2>1, GridSize DEF Cells
  <2> QED
    BY <1>1, <2>1 DEF Up, Glyphs
<1> DEFINE n == [k EXCEPT !.cells = Up(k.cells)]
           F == [p \in Pix |-> n.cells[CellOf(p)]]
<1>3. Scroll(k) = RedrawAll(n)
  BY <1>1 DEF Scroll, Up, Con
<1>4. n \in Con /\ n.dirty = k.dirty /\ n.cells = Up(k.cells) /\ n.foreign = k.foreign
  BY <1>1, <1>2 DEF Con
<1>5. Pix # {}
  <2>1. <<1, 1>> \in Pix
    BY GridSize DEF Pix
  <2> QED
    BY <2>1
<1>6. PICK r \in Rects : MarkDirty(n, Pix) = [n EXCEPT !.dirty = r]
  BY <1>4, <1>5, MarkDirtyGrows
<1>7. Dirty(n) \cup Pix \subseteq Dirty([n EXCEPT !.dirty = r])
  BY <1>4, <1>5, <1>6, MarkDirtyGrows
<1>8. \A p \in Pix : n.cells[CellOf(p)] \in Glyphs
  BY <1>2, <1>4, Parts
<1>9. F \in [Pix -> Images] /\ \A p \in Pix : F[p] = n.cells[CellOf(p)] /\ F[p] # "pointer"
  BY <1>8, ConsoleAssumption DEF Images, Glyphs
<1> DEFINE h == [k EXCEPT !.cells = Up(k.cells), !.dirty = r, !.fb = F, !.foreign = {}]
<1>10. RedrawAll(n) = [[n EXCEPT !.dirty = r] EXCEPT !.fb = F, !.foreign = {}]
  BY <1>6 DEF RedrawAll
<1> HIDE DEF F
<1>11. RedrawAll(n) = h
  BY <1>1, <1>10 DEF Con
<1>12. /\ h \in Con /\ h.row = k.row /\ h.col = k.col /\ h.visible = k.visible
       /\ h.cells = Up(k.cells) /\ h.fb = F /\ h.foreign = {} /\ h.dirty = r
       /\ h.scr = k.scr /\ h.owed = k.owed /\ SameConf(k, h)
  BY <1>1, <1>2, <1>9 DEF Con, SameConf
<1>13. Dirty([n EXCEPT !.dirty = r]) = In(r)
  BY <1>4 DEF Dirty, Con
<1> HIDE DEF h, n
<1>14. Pix \subseteq Dirty(h)
  BY <1>7, <1>12, <1>13 DEF Dirty
<1>15. \A p \in Pix : Shown(h, p) = h.fb[p]
  BY <1>4, <1>9, <1>12 DEF Shown
<1>16. Rendered(h) /\ Covered(h) /\ Prints(k, h)
  BY <1>9, <1>12, <1>14, <1>15 DEF Rendered, Covered, Prints
<1>17. Sane(h)
  BY <1>12, <1>16 DEF Sane, SameConf
<1> QED
  BY <1>3, <1>11, <1>12, <1>16, <1>17

\* gfx_console_newline
LEMMA NewlineSane ==
  ASSUME NEW k, Sane(k), ~k.visible
  PROVE  LET h == Newline(k)
         IN  /\ Sane(h) /\ Prints(k, h) /\ SameConf(k, h) /\ ~h.visible
             /\ h.col = 1
             /\ IF k.row < Rows THEN h.row = k.row + 1 /\ h.cells = k.cells
                ELSE h.row = k.row /\ h.cells = Up(k.cells)
<1>1. k \in Con /\ k.row \in 1 .. Rows /\ Rows \in Nat /\ 1 \in 1 .. Cols
  BY GridSize DEF Sane, Con
<1>2. CASE k.row < Rows
  <2>1. Newline(k) = [k EXCEPT !.row = k.row + 1, !.col = 1]
    BY <1>1, <1>2 DEF Newline, Con
  <2>2. k.row + 1 \in 1 .. Rows
    BY <1>1, <1>2
  <2>3. CursorMoved(k, [k EXCEPT !.row = k.row + 1, !.col = 1], k.row + 1, 1)
    BY <1>1, <2>2, MoveCursor
  <2> QED
    BY <1>2, <2>1, <2>3 DEF CursorMoved
<1>3. CASE ~(k.row < Rows)
  <2> DEFINE n == [k EXCEPT !.row = k.row, !.col = 1]
  <2>1. Newline(k) = Scroll(n)
    <3>1. n = [k EXCEPT !.col = 1]
      BY <1>1 DEF Con
    <3> QED
      BY <1>3, <3>1 DEF Newline
  <2>2. /\ Sane(n) /\ Prints(k, n) /\ SameConf(k, n) /\ ~n.visible
        /\ n.cells = k.cells /\ n.row = k.row /\ n.col = 1
    <3>1. CursorMoved(k, n, k.row, 1)
      BY <1>1, MoveCursor
    <3> QED
      BY <3>1 DEF CursorMoved
  <2> HIDE DEF n
  <2>3. /\ Sane(Scroll(n)) /\ Prints(n, Scroll(n)) /\ SameConf(n, Scroll(n)) /\ ~Scroll(n).visible
        /\ Scroll(n).cells = Up(n.cells) /\ Scroll(n).row = n.row /\ Scroll(n).col = n.col
    BY <2>2, ScrollSane
  <2> QED
    BY <1>3, <2>1, <2>2, <2>3, PrintsTrans, ConfTrans
<1> QED
  BY <1>2, <1>3

\* Where the cursor is after a backspace.
BackRow(k) == IF k.col > 1 THEN k.row ELSE IF k.row > 1 THEN k.row - 1 ELSE k.row
BackCol(k) == IF k.col > 1 THEN k.col - 1 ELSE IF k.row > 1 THEN Cols ELSE k.col

\* gfx_console_backspace
LEMMA BackspaceSane ==
  ASSUME NEW k, Sane(k), ~k.visible
  PROVE  LET h == Backspace(k)
         IN  /\ Sane(h) /\ Prints(k, h) /\ SameConf(k, h) /\ ~h.visible
             /\ h.row = BackRow(k) /\ h.col = BackCol(k)
             /\ h.cells = IF k.row = 1 /\ k.col = 1 THEN k.cells
                          ELSE [k.cells EXCEPT ![<<BackRow(k), BackCol(k)>>] = " "]
<1>1. /\ k \in Con /\ k.row \in 1 .. Rows /\ k.col \in 1 .. Cols /\ Rows \in Nat
      /\ Cols \in 1 .. Cols /\ Cols \in Nat
  BY GridSize DEF Sane, Con
<1>2. CASE k.row = 1 /\ k.col = 1
  BY <1>2, PrintsRefl DEF Backspace, BackRow, BackCol
<1>3. CASE ~(k.row = 1 /\ k.col = 1)
  <2> DEFINE y == BackRow(k)
             x == BackCol(k)
             back == [k EXCEPT !.row = y, !.col = x]
             h == DrawCell([back EXCEPT !.cells[<<y, x>>] = " "], <<y, x>>)
  <2>1. y \in 1 .. Rows /\ x \in 1 .. Cols /\ (y # k.row \/ x # k.col)
    BY <1>1, <1>3 DEF BackRow, BackCol
  <2>2. back = IF k.col > 1 THEN [k EXCEPT !.col = @ - 1]
               ELSE IF k.row > 1 THEN [k EXCEPT !.row = @ - 1, !.col = Cols]
               ELSE k
    BY <1>1, <1>3 DEF BackRow, BackCol, Con
  <2>3. /\ Sane(back) /\ Prints(k, back) /\ SameConf(k, back) /\ ~back.visible
        /\ back.cells = k.cells /\ back.row = y /\ back.col = x
    <3>1. CursorMoved(k, back, y, x)
      <4> HIDE DEF y, x
      <4> QED
        BY <2>1, MoveCursor
    <3> QED
      BY <3>1 DEF CursorMoved
  <2>4. Backspace(k) = IF back = k THEN k
                       ELSE DrawCell([back EXCEPT !.cells[Cursor(back)] = " "], Cursor(back))
    <3> HIDE DEF back
    <3> QED
      BY <2>2 DEF Backspace
  <2> HIDE DEF back, y, x
  <2>5. Cursor(back) = <<y, x>> /\ back # k
    BY <2>1, <2>3 DEF Cursor
  <2>6. Backspace(k) = h
    BY <2>4, <2>5
  <2>7. <<y, x>> \in Cells /\ " " \in Glyphs
    BY <2>1 DEF Cells, Glyphs
  <2>8. /\ Sane(h) /\ Prints(back, h) /\ SameConf(back, h) /\ ~h.visible
        /\ h.cells = [back.cells EXCEPT ![<<y, x>>] = " "] /\ h.row = back.row /\ h.col = back.col
    <3>1. CellDrawn(back, h, <<y, x>>, " ")
      BY <2>3, <2>7, DrawAt
    <3> QED
      BY <3>1 DEF CellDrawn
  <2> HIDE DEF h
  <2>9. Prints(k, h) /\ SameConf(k, h)
    BY <2>3, <2>8, PrintsTrans, ConfTrans
  <2> QED
    BY <1>3, <2>3, <2>6, <2>8, <2>9 DEF y, x
<1> QED
  BY <1>2, <1>3

\* A printable character is written at the cursor, which moves on.
LEMMA PutGlyphSane ==
  ASSUME NEW k, Sane(k), ~k.visible, NEW ch
  PROVE  LET h == PutGlyph(k, ch)
             new == [k.cells EXCEPT ![Cursor(k)] = Glyph(ch)]
         IN  /\ Sane(h) /\ Prints(k, h) /\ SameConf(k, h) /\ ~h.visible
             /\ IF k.col < Cols THEN h.row = k.row /\ h.col = k.col + 1 /\ h.cells = new
                ELSE /\ h.col = 1
                     /\ IF k.row < Rows THEN h.row = k.row + 1 /\ h.cells = new
                        ELSE h.row = k.row /\ h.cells = Up(new)
<1> DEFINE a == Cursor(k)
           d == DrawCell([k EXCEPT !.cells[a] = Glyph(ch)], a)
           new == [k.cells EXCEPT ![a] = Glyph(ch)]
<1>1. /\ k \in Con /\ k.row \in 1 .. Rows /\ k.col \in 1 .. Cols /\ Rows \in Nat /\ Cols \in Nat
  BY GridSize DEF Sane, Con
<1>2. a \in Cells /\ Glyph(ch) \in Glyphs
  BY <1>1, CursorIn DEF Glyph, Glyphs
<1>3. /\ Sane(d) /\ Prints(k, d) /\ SameConf(k, d) /\ ~d.visible
      /\ d.cells = new /\ d.row = k.row /\ d.col = k.col
  BY <1>2, DrawAt DEF CellDrawn
<1>4. PutGlyph(k, ch) = IF k.col < Cols THEN [d EXCEPT !.col = @ + 1] ELSE Newline(d)
  BY DEF PutGlyph
<1> HIDE DEF d, new
<1>5. CASE k.col < Cols
  <2> DEFINE h == [d EXCEPT !.row = d.row, !.col = k.col + 1]
  <2>1. PutGlyph(k, ch) = h
    BY <1>3, <1>4, <1>5 DEF Con, Sane
  <2>2. k.col + 1 \in 1 .. Cols /\ d.row \in 1 .. Rows
    BY <1>1, <1>3, <1>5
  <2>3. /\ Sane(h) /\ Prints(d, h) /\ SameConf(d, h) /\ ~h.visible
        /\ h.cells = d.cells /\ h.row = d.row /\ h.col = k.col + 1
    <3>1. CursorMoved(d, h, d.row, k.col + 1)
      BY <1>3, <2>2, MoveCursor
    <3> QED
      BY <3>1 DEF CursorMoved
  <2> HIDE DEF h
  <2> QED
    BY <1>3, <1>5, <2>1, <2>3, PrintsTrans, ConfTrans DEF new
<1>6. CASE ~(k.col < Cols)
  <2> DEFINE h == Newline(d)
  <2>1. /\ Sane(h) /\ Prints(d, h) /\ SameConf(d, h) /\ ~h.visible
        /\ h.col = 1
        /\ IF d.row < Rows THEN h.row = d.row + 1 /\ h.cells = d.cells
           ELSE h.row = d.row /\ h.cells = Up(d.cells)
    BY <1>3, NewlineSane
  <2>2. PutGlyph(k, ch) = h
    BY <1>4, <1>6
  <2> HIDE DEF h
  <2> QED
    BY <1>3, <1>6, <2>1, <2>2, PrintsTrans, ConfTrans DEF new
<1> QED
  BY <1>5, <1>6

\* What gfx_console_putc does between hiding and showing the cursor.
Typed(h, ch) ==
  CASE ch = "cr"        -> [h EXCEPT !.col = 1]
    [] ch = "newline"   -> Newline(h)
    [] ch = "backspace" -> Backspace(h)
    [] OTHER            -> PutGlyph(h, ch)

LEMMA GfxPutcSane ==
  ASSUME NEW k, Sane(k), k.attached, NEW ch
  PROVE  LET h == HideCursor(k)
             t == Typed(h, ch)
             s == GfxPutc(k, ch)
         IN  /\ Sane(h) /\ ~h.visible /\ SameText(k, h)
             /\ Sane(s) /\ Prints(k, s) /\ SameConf(k, s) /\ SameText(t, s)
<1> DEFINE h == HideCursor(k)
           t == Typed(h, ch)
           s == ShowCursor(t)
<1>1. GfxPutc(k, ch) = s
  BY DEF GfxPutc, Typed
<1>2. Sane(h) /\ Prints(k, h) /\ SameConf(k, h) /\ SameText(k, h) /\ ~h.visible
  BY HideSane
<1> HIDE DEF h
<1>3. Sane(t) /\ Prints(h, t) /\ SameConf(h, t)
  <2>1. CASE ch = "cr"
    <3>1. t = [h EXCEPT !.row = h.row, !.col = 1]
      BY <1>2, <2>1 DEF Typed, Sane, Con
    <3>2. h.row \in 1 .. Rows /\ 1 \in 1 .. Cols
      BY <1>2, GridSize DEF Sane, Con
    <3>3. CursorMoved(h, [h EXCEPT !.row = h.row, !.col = 1], h.row, 1)
      BY <1>2, <3>2, MoveCursor
    <3> QED
      BY <3>1, <3>3 DEF CursorMoved
  <2>2. CASE ch = "newline"
    <3>1. t = Newline(h)
      BY <2>2 DEF Typed
    <3> QED
      BY <1>2, <3>1, NewlineSane
  <2>3. CASE ch = "backspace"
    <3>1. t = Backspace(h)
      BY <2>3 DEF Typed
    <3> QED
      BY <1>2, <3>1, BackspaceSane
  <2>4. CASE ch \notin {"cr", "newline", "backspace"}
    <3>1. t = PutGlyph(h, ch)
      BY <2>4 DEF Typed
    <3> QED
      BY <1>2, <3>1, PutGlyphSane
  <2> QED
    BY <2>1, <2>2, <2>3, <2>4
<1> HIDE DEF t
<1>4. Sane(s) /\ Prints(t, s) /\ SameConf(t, s) /\ SameText(t, s)
  BY <1>3, ShowSane
<1> HIDE DEF s
<1>5. Prints(k, s) /\ SameConf(k, s)
  BY <1>2, <1>3, <1>4, PrintsTrans, ConfTrans
<1> QED
  BY <1>1, <1>2, <1>4, <1>5 DEF h, t

\* console_putc_unlocked
LEMMA PutcSane ==
  ASSUME NEW k, Sane(k), NEW ch
  PROVE  Sane(Putc(k, ch)) /\ Prints(k, Putc(k, ch)) /\ SameConf(k, Putc(k, ch))
BY GfxPutcSane, PrintsRefl DEF Putc

\* The consoles on the way of a text that is printed.
Steps(g, k, text, h) ==
  /\ g[0] = k /\ g[Len(text)] = h
  /\ \A i \in 1 .. Len(text) : g[i] = Putc(g[i - 1], text[i])
  /\ \A i \in 0 .. Len(text) : Sane(g[i]) /\ Prints(k, g[i]) /\ SameConf(k, g[i])

\* console_write_unlocked
LEMMA WriteSteps ==
  ASSUME NEW k, Sane(k), NEW text, Len(text) \in Nat
  PROVE  \E g : Steps(g, k, text, Write(k, text))
<1> DEFINE n == Len(text)
<1> DEFINE V == {h \in Con : Sane(h)}
           F == [x \in (1 .. n) \X V |-> Putc(x[2], text[x[1]])]
<1>1. k \in V
  BY DEF Sane
<1>2. \A h \in V : \A ch : Putc(h, ch) \in V
  <2> SUFFICES ASSUME NEW h \in V, NEW ch PROVE Putc(h, ch) \in V
    OBVIOUS
  <2>1. Sane(Putc(h, ch))
    BY PutcSane
  <2> QED
    BY <2>1 DEF Sane
<1>3. F \in [(1 .. n) \X V -> V]
  BY <1>2
<1>4. \A i \in 1 .. n, h \in V : F[<<i, h>>] = Putc(h, text[i])
  OBVIOUS
<1> HIDE DEF V, F
<1>5. PICK g \in [0 .. n -> V] : Iterates(g, n, k, F)
  BY <1>1, <1>3, Iterated
<1>6. g[0] = k /\ \A i \in 1 .. n : g[i] = Putc(g[i - 1], text[i])
  <2>1. \A i \in 1 .. n : g[i - 1] \in V
    OBVIOUS
  <2> QED
    BY <1>4, <1>5, <2>1 DEF Iterates
<1> DEFINE Body(f) == [i \in 0 .. n |-> IF i = 0 THEN k ELSE Putc(f[i - 1], text[i])]
           W == CHOOSE f : f = Body(f)
<1>7. g = Body(g)
  <2>1. ASSUME NEW i \in 0 .. n PROVE g[i] = Body(g)[i]
    <3>1. CASE i = 0
      BY <1>6, <3>1
    <3>2. CASE i # 0
      <4>1. i \in 1 .. n
        BY <3>2
      <4> QED
        BY <1>6, <3>2, <4>1
    <3> QED
      BY <3>1, <3>2
  <2> QED
    BY <2>1
<1>8. W = Body(W)
  <2>1. \E f : f = Body(f)
    BY <1>7
  <2> HIDE DEF Body
  <2> QED
    BY <2>1
<1>9. Write(k, text) = W[n]
  BY DEF Write
<1> HIDE DEF W
<1>10. /\ W[0] = k
       /\ \A i \in 1 .. n : W[i] = Putc(W[i - 1], text[i])
  <2>1. 0 \in 0 .. n /\ \A i \in 1 .. n : i \in 0 .. n /\ i # 0
    OBVIOUS
  <2> QED
    BY <1>8, <2>1
<1> DEFINE T == {i \in 0 .. n : Sane(W[i]) /\ Prints(k, W[i]) /\ SameConf(k, W[i])}
<1>11. 0 \in T
  BY <1>10, PrintsRefl
<1>12. ASSUME NEW i \in 1 .. n, i - 1 \in T PROVE i \in T
  <2> DEFINE w == W[i - 1]
  <2>1. Sane(w) /\ Prints(k, w) /\ SameConf(k, w) /\ W[i] = Putc(w, text[i])
    BY <1>10, <1>12
  <2> HIDE DEF w
  <2>2. Sane(W[i]) /\ Prints(w, W[i]) /\ SameConf(w, W[i])
    BY <2>1, PutcSane
  <2>3. Prints(k, W[i]) /\ SameConf(k, W[i])
    BY <2>1, <2>2, PrintsTrans, ConfTrans
  <2> QED
    BY <2>2, <2>3
<1>13. \A i \in 0 .. n : i \in T
  <2>1. \A i \in 1 .. n : i - 1 \in T => i \in T
    BY <1>12
  <2> HIDE DEF T
  <2> QED
    BY <1>11, <2>1, Upto
<1> QED
  BY <1>9, <1>10, <1>13 DEF Steps

LEMMA WriteSane ==
  ASSUME NEW k, Sane(k), NEW text, Len(text) \in Nat
  PROVE  Sane(Write(k, text)) /\ Prints(k, Write(k, text)) /\ SameConf(k, Write(k, text))
<1>1. PICK g : Steps(g, k, text, Write(k, text))
  BY WriteSteps
<1>2. Len(text) \in 0 .. Len(text)
  OBVIOUS
<1> QED
  BY <1>1, <1>2 DEF Steps

----------------------------------------------------------------------------
(* What reaches the display, and the sinks *)

\* Only what is owed to the display, the dirty rectangle and the counter change.
Flushed(k, h) ==
  /\ Sane(h) /\ Prints(k, h) /\ SameConf(k, h) /\ SameText(k, h)
  /\ h.fb = k.fb /\ h.foreign = k.foreign /\ h.visible = k.visible

\* The display gets a part of the frame buffer, or it is owed; h.dirty may
\* forget that part.
LEMMA GpuFlushFields ==
  ASSUME NEW k, Sane(k), NEW S \in SUBSET Pix, NEW ok \in BOOLEAN
  PROVE  LET h == GpuFlush(k, S, ok)
         IN  /\ h \in Con /\ SameConf(k, h) /\ SameText(k, h)
             /\ h.fb = k.fb /\ h.foreign = k.foreign /\ h.visible = k.visible
             /\ h.dirty = k.dirty
             /\ \A p \in Pix : h.scr[p] # h.fb[p] => p \in (Dirty(k) \ S) \cup h.owed \/ ~k.gpu
<1>1. k \in Con /\ Covered(k) /\ k.scr \in [Pix -> Images] /\ k.fb \in [Pix -> Images]
  BY DEF Sane, Con
<1>2. CASE ~k.gpu
  BY <1>1, <1>2 DEF GpuFlush, SameConf, SameText
<1>3. CASE k.gpu /\ ok
  <2> DEFINE D == [p \in Pix |-> IF p \in S THEN k.fb[p] ELSE k.scr[p]]
             h == [k EXCEPT !.scr = D, !.owed = k.owed \ S]
  <2>1. GpuFlush(k, S, ok) = h
    BY <1>1, <1>3 DEF GpuFlush, Con
  <2>2. D \in [Pix -> Images] /\ \A p \in Pix : D[p] = IF p \in S THEN k.fb[p] ELSE k.scr[p]
    BY <1>1
  <2> HIDE DEF D
  <2>3. /\ h \in Con /\ SameConf(k, h) /\ SameText(k, h)
        /\ h.fb = k.fb /\ h.foreign = k.foreign /\ h.visible = k.visible /\ h.dirty = k.dirty
        /\ h.scr = D /\ h.owed = k.owed \ S
    BY <1>1, <2>2 DEF Con, SameConf, SameText
  <2> HIDE DEF h
  <2>4. \A p \in Pix : h.scr[p] # h.fb[p] => p \in (Dirty(k) \ S) \cup h.owed \/ ~k.gpu
    BY <1>1, <2>2, <2>3 DEF Covered
  <2> QED
    BY <2>1, <2>3, <2>4
<1>4. CASE k.gpu /\ ~ok
  <2> DEFINE h == [k EXCEPT !.owed = k.owed \cup S, !.others = k.others + 1]
  <2>1. GpuFlush(k, S, ok) = h
    BY <1>1, <1>4 DEF GpuFlush, Con
  <2>2. /\ h \in Con /\ SameConf(k, h) /\ SameText(k, h)
        /\ h.fb = k.fb /\ h.foreign = k.foreign /\ h.visible = k.visible /\ h.dirty = k.dirty
        /\ h.scr = k.scr /\ h.owed = k.owed \cup S
    <3> DEFINE o == k.owed \cup S
               n == k.others + 1
    <3>1. o \in SUBSET Pix /\ n \in Nat
      BY <1>1 DEF Con
    <3> HIDE DEF o, n
    <3>2. h = [k EXCEPT !.owed = o, !.others = n]
      BY DEF o, n
    <3> HIDE DEF h
    <3> QED
      BY <1>1, <3>1, <3>2 DEF Con, SameConf, SameText, o
  <2> HIDE DEF h
  <2>3. \A p \in Pix : h.scr[p] # h.fb[p] => p \in (Dirty(k) \ S) \cup h.owed \/ ~k.gpu
    BY <1>1, <2>2 DEF Covered
  <2> QED
    BY <2>1, <2>2, <2>3
<1> QED
  BY <1>2, <1>3, <1>4

\* The frame buffer and the text are the same, and what the display lacks is
\* still accounted for.
LEMMA FlushedIs ==
  ASSUME NEW k, Sane(k), NEW h \in Con, SameConf(k, h), SameText(k, h),
         h.fb = k.fb, h.foreign = k.foreign, h.visible = k.visible,
         Covered(h)
  PROVE  Flushed(k, h)
<1>1. \A p \in Pix : Shown(h, p) = Shown(k, p)
  BY DEF Shown, SameText, Cursor
<1>2. Rendered(h) /\ Prints(k, h)
  BY <1>1 DEF Rendered, Prints, Sane, SameConf
<1> QED
  BY <1>2 DEF Flushed, Sane, SameConf

LEMMA GpuFlushSane ==
  ASSUME NEW k, Sane(k), NEW S \in SUBSET Pix, NEW ok \in BOOLEAN
  PROVE  Flushed(k, GpuFlush(k, S, ok)) /\ GpuFlush(k, S, ok).dirty = k.dirty
<1> DEFINE h == GpuFlush(k, S, ok)
<1>1. /\ h \in Con /\ SameConf(k, h) /\ SameText(k, h)
      /\ h.fb = k.fb /\ h.foreign = k.foreign /\ h.visible = k.visible /\ h.dirty = k.dirty
      /\ \A p \in Pix : h.scr[p] # h.fb[p] => p \in (Dirty(k) \ S) \cup h.owed \/ ~k.gpu
  BY GpuFlushFields
<1> HIDE DEF h
<1>2. Covered(h)
  BY <1>1 DEF Covered, Dirty, SameConf
<1> QED
  BY <1>1, <1>2, FlushedIs DEF h

\* console_flush_unlocked leaves nothing to flush while the graphics sink is on.
LEMMA FlushSane ==
  ASSUME NEW k, Sane(k), NEW ok \in BOOLEAN
  PROVE  /\ Flushed(k, Flush(k, ok))
         /\ "graphics" \in k.mode => Flush(k, ok).dirty = NoRect
<1>1. k \in Con /\ ("graphics" \in k.mode => k.gpu) /\ Covered(k)
  BY DEF Sane
<1>2. CASE ~("graphics" \in k.mode /\ k.gpu /\ k.dirty # NoRect)
  <2>1. Flush(k, ok) = k
    BY <1>2 DEF Flush
  <2>2. Flushed(k, k)
    BY <1>1, FlushedIs DEF SameConf, SameText
  <2> QED
    BY <1>1, <1>2, <2>1, <2>2
<1>3. CASE "graphics" \in k.mode /\ k.gpu /\ k.dirty # NoRect
  <2> DEFINE m == GpuFlush(k, Dirty(k), ok)
             h == [m EXCEPT !.dirty = NoRect]
  <2>1. Flush(k, ok) = h
    BY <1>3 DEF Flush
  <2>2. Dirty(k) \in SUBSET Pix /\ NoRect \in Rects
    BY DEF Dirty, In, NoRect, Rects
  <2>3. /\ m \in Con /\ SameConf(k, m) /\ SameText(k, m)
        /\ m.fb = k.fb /\ m.foreign = k.foreign /\ m.visible = k.visible /\ m.dirty = k.dirty
        /\ \A p \in Pix : m.scr[p] # m.fb[p] => p \in (Dirty(k) \ Dirty(k)) \cup m.owed \/ ~k.gpu
    BY <2>2, GpuFlushFields
  <2> HIDE DEF m
  <2>4. /\ h \in Con /\ SameConf(m, h) /\ SameText(m, h)
        /\ h.fb = m.fb /\ h.foreign = m.foreign /\ h.visible = m.visible
        /\ h.scr = m.scr /\ h.owed = m.owed /\ h.dirty = NoRect
    BY <2>2, <2>3 DEF Con, SameConf, SameText
  <2> HIDE DEF h
  <2>5. Covered(h)
    BY <2>3, <2>4 DEF Covered, SameConf
  <2>6. SameConf(k, h) /\ SameText(k, h)
    BY <2>3, <2>4 DEF SameConf, SameText
  <2>7. Flushed(k, h)
    BY <2>3, <2>4, <2>5, <2>6, FlushedIs
  <2> QED
    BY <2>1, <2>4, <2>7
<1> QED
  BY <1>2, <1>3

LEMMA CountedSane ==
  ASSUME NEW k, Sane(k)
  PROVE  Flushed(k, Counted(k)) /\ Counted(k).dirty = k.dirty
<1>1. k \in Con /\ Covered(k)
  BY DEF Sane
<1> DEFINE h == [k EXCEPT !.others = k.others + 1]
<1>2. Counted(k) = h
  BY <1>1 DEF Counted, Con
<1>3. /\ h \in Con /\ SameConf(k, h) /\ SameText(k, h)
      /\ h.fb = k.fb /\ h.foreign = k.foreign /\ h.visible = k.visible
      /\ h.scr = k.scr /\ h.owed = k.owed /\ h.dirty = k.dirty
  BY <1>1 DEF Con, SameConf, SameText
<1> HIDE DEF h
<1>4. Covered(h)
  BY <1>1, <1>3 DEF Covered, Dirty, SameConf
<1> QED
  BY <1>2, <1>3, <1>4, FlushedIs

\* A console with other modes, in use and saved.
ModeIs(k, n, m, s) ==
  /\ Sane(n) /\ Prints(k, n) /\ n.mode = m /\ n.saved = s
  /\ n.attached = k.attached /\ n.gpu = k.gpu /\ n.dirty = k.dirty /\ n.fb = k.fb

LEMMA ModeSane ==
  ASSUME NEW k, Sane(k), NEW m \in SUBSET Both, NEW s \in SUBSET Both,
         "graphics" \in m => k.attached
  PROVE  ModeIs(k, [k EXCEPT !.mode = m, !.saved = s], m, s)
<1> DEFINE n == [k EXCEPT !.mode = m, !.saved = s]
<1>1. k \in Con
  BY DEF Sane
<1>2. /\ n \in Con /\ n.mode = m /\ n.saved = s /\ n.attached = k.attached /\ n.gpu = k.gpu
      /\ n.fb = k.fb /\ n.foreign = k.foreign /\ n.visible = k.visible /\ n.cells = k.cells
      /\ n.row = k.row /\ n.col = k.col /\ n.scr = k.scr /\ n.owed = k.owed /\ n.dirty = k.dirty
  BY <1>1 DEF Con
<1> HIDE DEF n
<1>3. \A p \in Pix : Shown(n, p) = Shown(k, p)
  BY <1>2 DEF Shown, Cursor
<1>4. Rendered(n) /\ Prints(k, n)
  BY <1>2, <1>3 DEF Rendered, Prints, Sane
<1>5. Covered(n)
  BY <1>2 DEF Covered, Sane, Dirty
<1>6. Sane(n)
  BY <1>2, <1>4, <1>5 DEF Sane
<1> QED
  BY <1>2, <1>4, <1>6 DEF n, ModeIs

\* console_set_output_mode: with the graphics sink nothing is left to flush.
ModeSet(k, h) ==
  /\ Sane(h) /\ Prints(k, h)
  /\ h.attached = k.attached /\ h.gpu = k.gpu /\ h.saved = k.saved
  /\ "graphics" \in h.mode => h.dirty = NoRect

LEMMA SetModeSane ==
  ASSUME NEW k, Sane(k), NEW mode \in SUBSET Both, NEW ok \in BOOLEAN
  PROVE  /\ ModeSet(k, SetMode(k, mode, ok))
         /\ SetMode(k, mode, ok).mode \subseteq mode
<1> DEFINE m == IF k.attached THEN mode ELSE mode \ {"graphics"}
           n == [k EXCEPT !.mode = m]
<1>1. m \in SUBSET Both /\ m \subseteq mode /\ ("graphics" \in m => k.attached)
  OBVIOUS
<1>2. SetMode(k, mode, ok) = IF "graphics" \in m THEN Flush(ShowCursor(n), ok) ELSE HideCursor(n)
  BY DEF SetMode
<1>3. k.saved \in SUBSET Both /\ n = [k EXCEPT !.mode = m, !.saved = k.saved]
  BY DEF Sane, Con
<1> HIDE DEF m
<1>4. /\ Sane(n) /\ Prints(k, n) /\ n.mode = m /\ n.saved = k.saved
      /\ n.attached = k.attached /\ n.gpu = k.gpu
  <2>1. ModeIs(k, [k EXCEPT !.mode = m, !.saved = k.saved], m, k.saved)
    BY <1>1, <1>3, ModeSane
  <2> QED
    BY <1>3, <2>1 DEF ModeIs
<1> HIDE DEF n
<1>5. CASE "graphics" \in m
  <2> DEFINE s == ShowCursor(n)
             h == Flush(s, ok)
  <2>1. Sane(s) /\ Prints(n, s) /\ SameConf(n, s)
    BY <1>4, ShowSane
  <2> HIDE DEF s
  <2>2. Flushed(s, h) /\ ("graphics" \in s.mode => h.dirty = NoRect)
    BY <2>1, FlushSane
  <2>3. SetMode(k, mode, ok) = h
    BY <1>2, <1>5 DEF s
  <2> HIDE DEF h
  <2>4. Prints(k, h)
    BY <1>4, <2>1, <2>2, PrintsTrans DEF Flushed
  <2> QED
    BY <1>1, <1>4, <1>5, <2>1, <2>2, <2>3, <2>4 DEF Flushed, SameConf, ModeSet
<1>6. CASE "graphics" \notin m
  <2> DEFINE h == HideCursor(n)
  <2>1. Sane(h) /\ Prints(n, h) /\ SameConf(n, h)
    BY <1>4, HideSane
  <2>2. SetMode(k, mode, ok) = h
    BY <1>2, <1>6
  <2> HIDE DEF h
  <2>3. Prints(k, h)
    BY <1>4, <2>1, PrintsTrans
  <2> QED
    BY <1>1, <1>4, <1>6, <2>1, <2>2, <2>3 DEF SameConf, ModeSet
<1> QED
  BY <1>5, <1>6

NoPointer(k) == \A p \in Pix : k.fb[p] # "pointer"

\* console_attach_graphics, before there is a pointer.
LEMMA AttachSane ==
  ASSUME NEW k, Sane(k), NoPointer(k), NEW memory \in BOOLEAN, NEW ok \in BOOLEAN
  PROVE  LET h == Attach(k, memory, ok)
         IN  Sane(h) /\ NoPointer(h) /\ h.saved = k.saved
<1> DEFINE old == HideCursor(k)
           zero == [old EXCEPT !.attached = FALSE, !.row = 1, !.col = 1, !.visible = FALSE,
                      !.dirty = NoRect, !.cells = [p \in Cells |-> " "],
                      !.owed = @ \cup Dirty(old)]
           new == [zero EXCEPT !.attached = TRUE, !.fb = [p \in Pix |-> " "], !.foreign = {}]
           off == [zero EXCEPT !.mode = @ \ {"graphics"}]
<1>1. Sane(old) /\ Prints(k, old) /\ SameConf(k, old)
  BY HideSane
<1>2. Attach(k, memory, ok) = IF k.gpu /\ memory THEN Flush(ShowCursor(MarkDirty(new, Pix)), ok)
                              ELSE off
  BY DEF Attach
<1>3. /\ [p \in Cells |-> " "] \in [Cells -> Glyphs] /\ [p \in Pix |-> " "] \in [Pix -> Images]
      /\ NoRect \in Rects /\ 1 \in 1 .. Rows /\ 1 \in 1 .. Cols /\ Dirty(old) \in SUBSET Pix
  BY GridSize DEF Glyphs, Images, NoRect, Rects, Dirty, In
<1>4. old \in Con
  BY <1>1 DEF Sane
<1> HIDE DEF old
<1>5. /\ zero \in Con /\ zero.attached = FALSE /\ zero.dirty = NoRect
      /\ zero.owed = old.owed \cup Dirty(old) /\ zero.fb = old.fb /\ zero.scr = old.scr
      /\ zero.gpu = old.gpu /\ zero.saved = old.saved /\ zero.mode = old.mode
      /\ zero.cells = [p \in Cells |-> " "] /\ zero.visible = FALSE
  BY <1>3, <1>4 DEF Con
<1> HIDE DEF zero
<1>6. NoPointer(old)
  BY <1>1 DEF NoPointer, Prints
<1>7. CASE k.gpu /\ memory
  <2> DEFINE m == MarkDirty(new, Pix)
             s == ShowCursor(m)
             h == Flush(s, ok)
  <2>1. /\ new \in Con /\ new.attached = TRUE /\ new.fb = [p \in Pix |-> " "]
        /\ new.gpu = k.gpu /\ new.saved = k.saved
        /\ new.cells = [p \in Cells |-> " "] /\ new.visible = FALSE
    BY <1>1, <1>3, <1>5 DEF Con, SameConf
  <2> HIDE DEF new
  <2>2. Pix # {} /\ Pix \in SUBSET Pix
    <3>1. <<1, 1>> \in Pix
      BY GridSize DEF Pix
    <3> QED
      BY <3>1
  <2>3. PICK r \in Rects : m = [new EXCEPT !.dirty = r]
    BY <2>1, <2>2, MarkDirtyGrows
  <2>4. m \in Con /\ Pix \subseteq Dirty(m)
    BY <2>1, <2>2, MarkDirtyGrows
  <2>5. /\ m.attached = TRUE /\ m.fb = new.fb /\ m.gpu = k.gpu /\ m.saved = k.saved
        /\ m.cells = new.cells /\ m.visible = FALSE
    BY <2>1, <2>3 DEF Con
  <2> HIDE DEF m
  <2>6. \A p \in Pix : m.fb[p] = " " /\ Shown(m, p) = " "
    <3>1. m.cells = [p \in Cells |-> " "] /\ m.fb = [p \in Pix |-> " "]
      BY <2>1, <2>5
    <3>2. ASSUME NEW p \in Pix PROVE m.cells[CellOf(p)] = " "
      BY <3>1, Parts
    <3> QED
      BY <2>5, <3>1, <3>2 DEF Shown
  <2>7. Sane(m) /\ NoPointer(m)
    BY <1>7, <2>4, <2>5, <2>6 DEF Sane, Rendered, Covered, NoPointer
  <2>8. Sane(s) /\ Prints(m, s) /\ SameConf(m, s)
    BY <2>7, ShowSane
  <2> HIDE DEF s
  <2>9. Flushed(s, h)
    BY <2>8, FlushSane
  <2>10. Attach(k, memory, ok) = h
    BY <1>2, <1>7 DEF s, m
  <2> HIDE DEF h
  <2> QED
    BY <2>5, <2>7, <2>8, <2>9, <2>10 DEF Flushed, Prints, NoPointer, SameConf
<1>8. CASE ~(k.gpu /\ memory)
  <2>1. /\ off \in Con /\ off.attached = FALSE /\ off.dirty = NoRect
        /\ off.owed = zero.owed /\ off.fb = zero.fb /\ off.scr = zero.scr
        /\ off.gpu = zero.gpu /\ off.saved = zero.saved /\ "graphics" \notin off.mode
    BY <1>5 DEF Con
  <2>2. Attach(k, memory, ok) = off
    BY <1>2, <1>8
  <2> HIDE DEF off
  <2>3. Covered(off)
    BY <1>1, <1>5, <2>1 DEF Covered, Sane
  <2>4. Sane(off)
    BY <2>1, <2>3 DEF Sane, Rendered
  <2> QED
    BY <1>1, <1>5, <1>6, <2>1, <2>2, <2>4 DEF NoPointer, SameConf
<1> QED
  BY <1>7, <1>8

----------------------------------------------------------------------------
(* The pointer *)

\* Printing leaves the pointer's background as good as it was.
LEMMA OverKept ==
  ASSUME NEW k, NEW h, NEW q \in Ptr, Over(k, q), Prints(k, h), h.attached = k.attached
  PROVE  Over(h, q)
<1>1. Halves(q.at) \subseteq Pix
  BY Parts DEF Ptr
<1> QED
  BY <1>1 DEF Over, Trackless, Prints

\* Where no pointer is drawn there is nothing to say of one.
LEMMA OverNone ==
  ASSUME NEW k, NEW q \in Ptr, NoPointer(k), ~q.moving
  PROVE  Over(k, q)
<1>1. Halves(q.at) \subseteq Pix
  BY Parts DEF Ptr
<1> QED
  BY <1>1 DEF Over, Trackless, NoPointer

\* The console is the same but for the frame buffer and what others drew there.
Painted(k, h) ==
  /\ Sane(h) /\ SameConf(k, h) /\ SameText(k, h)
  /\ h.visible = k.visible /\ h.dirty = k.dirty

\* gfx_cursor_restore_background: what comes back is what the console shows, or
\* foreign.
LEMMA RestoreSane ==
  ASSUME NEW k, Sane(k), NEW q, Pointing(q), Over(k, q)
  PROVE  /\ Painted(k, RestoreBackground(k, q))
         /\ NoPointer(RestoreBackground(k, q))
<1>1. k \in Con /\ k.fb \in [Pix -> Images] /\ k.foreign \in SUBSET Pix /\ k.owed \in SUBSET Pix
  BY DEF Sane, Con
<1>2. q \in Ptr /\ Halves(q.at) \subseteq Pix
  BY Parts DEF Pointing, Ptr
<1> DEFINE S == IF q.visible THEN Halves(q.at) ELSE {}
           F == [p \in Pix |-> IF p \in S THEN q.saved[p] ELSE k.fb[p]]
           G == (k.foreign \ S) \cup {p \in S : k.fb[p] # "pointer" \/ p \in q.under}
           h == [k EXCEPT !.fb = F, !.foreign = G, !.owed = k.owed \cup S]
<1>3. S \subseteq Pix
  BY <1>2
<1>4. \A p \in S : q.saved[p] \in Images /\ q.saved[p] # "pointer"
  BY DEF Pointing, Saved
<1>5. F \in [Pix -> Images]
  BY <1>1, <1>4
<1>6. G \in SUBSET Pix /\ k.owed \cup S \in SUBSET Pix
  BY <1>1, <1>3
<1>7. RestoreBackground(k, q) = h
  BY <1>1 DEF RestoreBackground, Con
<1>8. \A p \in Pix : F[p] = IF p \in S THEN q.saved[p] ELSE k.fb[p]
  OBVIOUS
<1>9. \A p \in S : k.attached /\ p \notin G => q.saved[p] = Shown(k, p)
  BY DEF Over
<1>10. \A p \in Pix : p \notin S => k.fb[p] # "pointer" /\ (p \in G <=> p \in k.foreign)
  BY DEF Over, Trackless
<1> HIDE DEF S, F, G
<1>11. /\ h \in Con /\ SameConf(k, h) /\ SameText(k, h) /\ h.fb = F /\ h.foreign = G
       /\ h.visible = k.visible /\ h.dirty = k.dirty /\ h.owed = k.owed \cup S /\ h.scr = k.scr
  <2> DEFINE o == k.owed \cup S
  <2>1. o \in SUBSET Pix
    BY <1>6
  <2> HIDE DEF o
  <2>2. h = [k EXCEPT !.fb = F, !.foreign = G, !.owed = o]
    BY DEF o
  <2> HIDE DEF h
  <2> QED
    BY <1>1, <1>5, <1>6, <2>1, <2>2 DEF Con, SameConf, SameText, o
<1> HIDE DEF h
<1>12. \A p \in Pix : Shown(h, p) = Shown(k, p)
  BY <1>11 DEF Shown, SameText, Cursor
<1>13. Rendered(h)
  BY <1>8, <1>9, <1>10, <1>11, <1>12 DEF Rendered, Sane, SameConf
<1>14. Covered(h)
  BY <1>8, <1>11 DEF Covered, Sane, SameConf, Dirty
<1>15. NoPointer(h)
  BY <1>4, <1>8, <1>10, <1>11 DEF NoPointer
<1>16. Sane(h)
  BY <1>11, <1>13, <1>14 DEF Sane, SameConf
<1> QED
  BY <1>7, <1>11, <1>15, <1>16 DEF Painted

\* gfx_cursor_save_background
Saves(k, q, s, at) ==
  /\ s \in Ptr /\ s.at = at /\ ~s.visible /\ s.moving = q.moving /\ s.attached = q.attached
  /\ Saved(s)
  /\ \A p \in Halves(at) : p \in k.foreign => p \in s.under

LEMMA SaveSane ==
  ASSUME NEW k, Sane(k), NoPointer(k), NEW q \in Ptr, NEW at \in Cells
  PROVE  Saves(k, q, SaveBackground(k, q, at), at)
<1>1. k.fb \in [Pix -> Images] /\ k.foreign \in SUBSET Pix /\ Halves(at) \subseteq Pix
  BY Parts DEF Sane, Con
<1> DEFINE B == [p \in Halves(at) |-> k.fb[p]]
           U == k.foreign \cap Halves(at)
           s == [q EXCEPT !.at = at, !.visible = FALSE, !.saved = B, !.under = U]
<1>2. SaveBackground(k, q, at) = s
  BY DEF SaveBackground, Ptr
<1>3. B \in [Halves(at) -> Images \ {"pointer"}] /\ U \in SUBSET Pix
  BY <1>1 DEF NoPointer
<1>4. B \in Backs
  <2>1. B \in [Halves(at) -> Images]
    BY <1>3
  <2> HIDE DEF B
  <2> QED
    BY <2>1 DEF Backs
<1>5. \A p \in Halves(at) : p \in k.foreign => p \in U
  OBVIOUS
<1> HIDE DEF B, U
<1>6. /\ s \in Ptr /\ s.at = at /\ s.visible = FALSE /\ s.moving = q.moving
      /\ s.attached = q.attached /\ s.saved = B /\ s.under = U
  BY <1>3, <1>4 DEF Ptr
<1> HIDE DEF s
<1> QED
  BY <1>2, <1>3, <1>5, <1>6 DEF Saves, Saved

\* The pointer is drawn, and x describes it.
Pointed(k, h, x) ==
  /\ Sane(h) /\ SameConf(k, h) /\ h.dirty = k.dirty
  /\ Pointing(x) /\ Over(h, x) /\ ~x.moving

LEMMA DrawSane ==
  ASSUME NEW k, Sane(k), NoPointer(k), NEW q, NEW b, NEW at \in Cells, Saves(k, b, q, at),
         NEW x \in Ptr, x.at = at, x.visible, ~x.moving, x.attached, x.saved = q.saved,
         x.under = q.under \cup {p \in Halves(q.at) : k.fb[p] # q.saved[p]}
  PROVE  Pointed(k, DrawPointer(k, q), x)
<1>1. /\ k \in Con /\ k.fb \in [Pix -> Images] /\ k.foreign \in SUBSET Pix
      /\ k.owed \in SUBSET Pix /\ Halves(at) \subseteq Pix /\ q.at = at
  BY Parts DEF Sane, Con, Saves
<1> DEFINE F == [p \in Pix |-> IF p \in Halves(at) THEN "pointer" ELSE k.fb[p]]
           G == k.foreign \cup Halves(at)
           O == k.owed \cup Halves(at)
           h == [k EXCEPT !.fb = F, !.foreign = G, !.owed = O]
<1>2. F \in [Pix -> Images] /\ G \in SUBSET Pix /\ O \in SUBSET Pix
  BY <1>1 DEF Images
<1>3. DrawPointer(k, q) = h
  BY <1>1 DEF DrawPointer, Paint, Con
<1>4. /\ \A p \in Pix : F[p] = IF p \in Halves(at) THEN "pointer" ELSE k.fb[p]
      /\ Halves(at) \subseteq G /\ k.foreign \subseteq G
      /\ Halves(at) \subseteq O /\ k.owed \subseteq O
  OBVIOUS
<1> HIDE DEF F, G, O
<1>5. /\ h \in Con /\ SameConf(k, h) /\ SameText(k, h) /\ h.fb = F /\ h.foreign = G
      /\ h.visible = k.visible /\ h.dirty = k.dirty /\ h.owed = O /\ h.scr = k.scr
  BY <1>1, <1>2 DEF Con, SameConf, SameText
<1> HIDE DEF h
<1>6. \A p \in Pix : Shown(h, p) = Shown(k, p)
  BY <1>5 DEF Shown, SameText, Cursor
<1>7. Rendered(h)
  BY <1>4, <1>5, <1>6 DEF Rendered, Sane, SameConf
<1>8. Covered(h)
  BY <1>4, <1>5 DEF Covered, Sane, SameConf, Dirty
<1>9. Sane(h)
  BY <1>5, <1>7, <1>8 DEF Sane, SameConf
<1>10. Trackless(h, x)
  BY <1>4, <1>5 DEF Trackless, NoPointer
<1>11. ASSUME h.attached, NEW p \in Halves(at), p \notin x.under PROVE x.saved[p] = Shown(h, p)
  <2>1. p \in Pix /\ p \notin k.foreign /\ k.fb[p] = q.saved[p] /\ k.attached
    BY <1>1, <1>5, <1>11 DEF Saves, SameConf
  <2>2. k.fb[p] = Shown(k, p)
    BY <2>1 DEF Sane, Rendered
  <2> QED
    BY <1>6, <2>1, <2>2
<1>12. Over(h, x)
  BY <1>10, <1>11 DEF Over
<1>13. Pointing(x)
  BY <1>1 DEF Pointing, Saved, Saves
<1> QED
  BY <1>3, <1>5, <1>9, <1>12, <1>13 DEF Pointed

\* The pointer after it was drawn.
LEMMA DrawnIs ==
  ASSUME NEW k, NEW q \in Ptr
  PROVE  LET x == Drawn(k, q)
         IN  /\ x \in Ptr /\ x.at = q.at /\ x.visible /\ x.moving = q.moving
             /\ x.attached = q.attached /\ x.saved = q.saved
             /\ x.under = q.under \cup {p \in Halves(q.at) : k.fb[p] # q.saved[p]}
<1> DEFINE U == q.under \cup {p \in Halves(q.at) : k.fb[p] # q.saved[p]}
<1>1. Drawn(k, q) = [q EXCEPT !.visible = TRUE, !.under = U]
  BY DEF Drawn, Ptr
<1>2. U \in SUBSET Pix
  BY Parts DEF Ptr
<1> HIDE DEF U
<1> DEFINE x == [q EXCEPT !.visible = TRUE, !.under = U]
<1>3. /\ x \in Ptr /\ x.at = q.at /\ x.visible /\ x.moving = q.moving
      /\ x.attached = q.attached /\ x.saved = q.saved /\ x.under = U
  BY <1>2 DEF Ptr
<1> HIDE DEF x
<1> QED
  BY <1>1, <1>3 DEF U, x

\* virtio_gpu_draw_demo and its like
LEMMA PictureSane ==
  ASSUME NEW k, Sane(k)
  PROVE  Painted(k, Picture(k)) /\ NoPointer(Picture(k))
<1>1. k \in Con /\ k.fb \in [Pix -> Images]
  BY DEF Sane, Con
<1> DEFINE F == [p \in Pix |-> "picture"]
           h == [k EXCEPT !.fb = F, !.foreign = Pix, !.owed = Pix]
<1>2. F \in [Pix -> Images] /\ \A p \in Pix : F[p] # "pointer"
  BY DEF Images
<1>3. Picture(k) = h
  BY <1>1 DEF Picture, Paint, Con
<1> HIDE DEF F
<1>4. /\ h \in Con /\ SameConf(k, h) /\ SameText(k, h) /\ h.fb = F /\ h.foreign = Pix
      /\ h.visible = k.visible /\ h.dirty = k.dirty /\ h.owed = Pix
  BY <1>1, <1>2 DEF Con, SameConf, SameText
<1> HIDE DEF h
<1>5. Rendered(h) /\ Covered(h) /\ NoPointer(h)
  BY <1>2, <1>4 DEF Rendered, Covered, NoPointer
<1> QED
  BY <1>3, <1>4, <1>5 DEF Painted, Sane, SameConf

\* gfx_cursor_refresh
LEMMA RefreshSane ==
  ASSUME NEW k, Sane(k), NoPointer(k), NEW q, Pointing(q), ~q.moving
  PROVE  LET r == Refresh(k, q)
         IN  Pointed(k, r.k, r.q)
<1>1. q \in Ptr /\ q.at \in Cells
  BY DEF Pointing, Ptr
<1>2. CASE ~q.attached
  <2>1. Refresh(k, q).k = k /\ Refresh(k, q).q = q
    BY <1>2 DEF Refresh
  <2>2. Over(k, q)
    BY <1>1, OverNone
  <2> QED
    BY <2>1, <2>2 DEF Pointed, SameConf
<1>3. CASE q.attached
  <2> DEFINE s == SaveBackground(k, q, q.at)
             x == Drawn(k, s)
             h == DrawPointer(k, s)
  <2>1. Saves(k, q, s, q.at)
    BY <1>1, SaveSane
  <2>2. DrawPointer(k, q) = DrawPointer(k, s)
    BY <2>1 DEF Saves, DrawPointer
  <2>3. Refresh(k, q).k = h /\ Refresh(k, q).q = x
    BY <1>3, <2>2 DEF Refresh
  <2> HIDE DEF s
  <2>4. /\ x \in Ptr /\ x.at = s.at /\ x.visible /\ x.moving = s.moving
        /\ x.attached = s.attached /\ x.saved = s.saved
        /\ x.under = s.under \cup {p \in Halves(s.at) : k.fb[p] # s.saved[p]}
    BY <2>1, DrawnIs DEF Saves
  <2> HIDE DEF x
  <2>5. Pointed(k, h, x)
    BY <1>1, <1>3, <2>1, <2>4, DrawSane DEF Saves
  <2> QED
    BY <2>3, <2>5
<1> QED
  BY <1>2, <1>3

\* gfx_cursor_move up to the drawing
LEMMA MoveSavesSane ==
  ASSUME NEW k, Sane(k), NEW q, Pointing(q), Over(k, q), NEW at \in Cells
  PROVE  LET m == MoveSaves(k, q, at)
         IN  Saves(RestoreBackground(k, q), [q EXCEPT !.attached = TRUE], m, at)
<1> DEFINE r == RestoreBackground(k, q)
           s == SaveBackground(r, q, at)
           m == [s EXCEPT !.attached = TRUE]
<1>1. Sane(r) /\ NoPointer(r) /\ q \in Ptr
  BY RestoreSane DEF Painted, Pointing
<1> HIDE DEF r
<1>2. Saves(r, q, s, at)
  BY <1>1, SaveSane
<1>3. MoveSaves(k, q, at) = m
  BY DEF MoveSaves, r
<1> HIDE DEF s
<1>4. /\ m \in Ptr /\ m.at = s.at /\ m.visible = s.visible /\ m.moving = s.moving
      /\ m.attached = TRUE /\ m.saved = s.saved /\ m.under = s.under
  BY <1>2 DEF Saves, Ptr
<1>5. [q EXCEPT !.attached = TRUE].attached = TRUE /\ [q EXCEPT !.attached = TRUE].moving = q.moving
  BY <1>1 DEF Ptr
<1> HIDE DEF m
<1> QED
  BY <1>2, <1>3, <1>4, <1>5 DEF Saves, Saved, r

\* A move of the pointer in one go.
LEMMA MovedSane ==
  ASSUME NEW k, Sane(k), NEW q, Pointing(q), ~q.moving, Over(k, q), NEW at \in Cells
  PROVE  LET r == Moved(k, q, at)
         IN  Pointed(k, r.k, r.q)
<1> DEFINE r == RestoreBackground(k, q)
           m == MoveSaves(k, q, at)
           x == Drawn(r, m)
           b == [q EXCEPT !.attached = TRUE]
<1>1. Painted(k, r) /\ NoPointer(r)
  BY RestoreSane
<1>2. Saves(r, b, m, at)
  BY MoveSavesSane
<1>3. Moved(k, q, at).k = DrawPointer(r, m) /\ Moved(k, q, at).q = x
  BY DEF Moved
<1>4. b.attached = TRUE /\ b.moving = q.moving
  BY DEF Pointing, Ptr
<1> HIDE DEF r, m, b
<1>5. /\ x \in Ptr /\ x.at = m.at /\ x.visible /\ x.moving = m.moving
      /\ x.attached = m.attached /\ x.saved = m.saved
      /\ x.under = m.under \cup {p \in Halves(m.at) : r.fb[p] # m.saved[p]}
  BY <1>2, DrawnIs DEF Saves
<1> HIDE DEF x
<1>6. m.attached /\ ~m.moving /\ m.at = at
  BY <1>2, <1>4 DEF Saves
<1>7. Pointed(r, DrawPointer(r, m), x)
  BY <1>1, <1>2, <1>5, <1>6, DrawSane DEF Painted
<1>8. Pointed(k, DrawPointer(r, m), x)
  BY <1>1, <1>7, ConfTrans DEF Pointed, Painted
<1> QED
  BY <1>3, <1>8

----------------------------------------------------------------------------
(* The line at the prompt *)

\* The cells of the grid, one after the other.
Place(k) == (k.row - 1) * Cols + k.col - 1
CellAt(i) == <<(i \div Cols) + 1, (i % Cols) + 1>>

LEMMA Quotient ==
  ASSUME NEW n \in Nat \ {0}, NEW q \in Int, NEW r \in 0 .. n - 1
  PROVE  (q * n + r) \div n = q /\ (q * n + r) % n = r
<1> DEFINE i == q * n + r
           d == i \div n
           m == i % n
<1>1. i \in Int
  OBVIOUS
<1> HIDE DEF i
<1>2. d \in Int /\ m \in 0 .. n - 1 /\ i = d * n + m
  BY <1>1
<1> HIDE DEF d, m
<1>3. q * n + r = d * n + m
  BY <1>2 DEF i
<1>4. CASE d < q
  <2>1. (q - d) * n = m - r
    BY <1>2, <1>3
  <2>2. (q - d) * n >= n
    BY <1>2, <1>4
  <2> QED
    BY <1>2, <2>1, <2>2
<1>5. CASE d > q
  <2>1. (d - q) * n = r - m
    BY <1>2, <1>3
  <2>2. (d - q) * n >= n
    BY <1>2, <1>5
  <2> QED
    BY <1>2, <2>1, <2>2
<1>6. CASE d = q
  BY <1>2, <1>3, <1>6 DEF d, m, i
<1> QED
  BY <1>2, <1>4, <1>5, <1>6

\* The cell of a place, and the place of a cell.
LEMMA CellAtIs ==
  ASSUME NEW r \in 1 .. Rows, NEW x \in 1 .. Cols
  PROVE  /\ CellAt((r - 1) * Cols + x - 1) = <<r, x>>
         /\ (r - 1) * Cols + x - 1 \in 0 .. Rows * Cols - 1
<1>1. Rows \in Nat \ {0} /\ Cols \in Nat \ {0} /\ r - 1 \in Int /\ x - 1 \in 0 .. Cols - 1
  BY GridSize
<1>2. ((r - 1) * Cols + (x - 1)) \div Cols = r - 1 /\ ((r - 1) * Cols + (x - 1)) % Cols = x - 1
  BY <1>1, Quotient
<1>3. (r - 1) * Cols + x - 1 = (r - 1) * Cols + (x - 1)
  BY <1>1
<1>4. (r - 1) * Cols >= 0 /\ (r - 1) * Cols <= (Rows - 1) * Cols
  BY <1>1
<1>5. (Rows - 1) * Cols = Rows * Cols - Cols /\ (r - 1) * Cols \in Int /\ Rows * Cols \in Int
  BY <1>1
<1> QED
  BY <1>1, <1>2, <1>3, <1>4, <1>5 DEF CellAt

LEMMA CellAtIn ==
  ASSUME NEW i \in 0 .. Rows * Cols - 1
  PROVE  /\ CellAt(i) \in Cells
         /\ i = (CellAt(i)[1] - 1) * Cols + CellAt(i)[2] - 1
         /\ i >= Cols => CellAt(i - Cols) = <<CellAt(i)[1] - 1, CellAt(i)[2]>>
<1> DEFINE q == i \div Cols
           r == i % Cols
<1>1. Rows \in Nat \ {0} /\ Cols \in Nat \ {0} /\ i \in Nat /\ Rows * Cols \in Nat
  BY GridSize
<1>2. q \in Int /\ r \in 0 .. Cols - 1 /\ i = q * Cols + r
  BY <1>1
<1>3. CellAt(i) = <<q + 1, r + 1>>
  BY DEF CellAt
<1> HIDE DEF q, r
<1>4. q >= 0
  <2> SUFFICES ASSUME q <= -1 PROVE FALSE
    BY <1>2
  <2>1. q * Cols <= -Cols
    BY <1>1, <1>2
  <2> QED
    BY <1>1, <1>2, <2>1
<1>5. q < Rows
  <2> SUFFICES ASSUME q >= Rows PROVE FALSE
    BY <1>1, <1>2
  <2>1. q * Cols >= Rows * Cols
    BY <1>1, <1>2
  <2> QED
    BY <1>1, <1>2, <2>1
<1>6. i - Cols = (q - 1) * Cols + r
  BY <1>1, <1>2
<1>7. (i - Cols) \div Cols = q - 1 /\ (i - Cols) % Cols = r
  BY <1>1, <1>2, <1>6, Quotient
<1>8. CellAt(i - Cols) = <<q, r + 1>>
  BY <1>2, <1>7 DEF CellAt
<1>9. <<q + 1, r + 1>> \in Cells
  BY <1>1, <1>2, <1>4, <1>5 DEF Cells
<1>10. CellAt(i)[1] = q + 1 /\ CellAt(i)[2] = r + 1 /\ (q + 1) - 1 = q
  BY <1>2, <1>3
<1>11. i = q * Cols + (r + 1) - 1
  BY <1>1, <1>2
<1> QED
  BY <1>2, <1>3, <1>8, <1>9, <1>10, <1>11

LEMMA PlaceIs ==
  ASSUME NEW k, Sane(k)
  PROVE  /\ Place(k) \in 0 .. Rows * Cols - 1
         /\ CellAt(Place(k)) = Cursor(k)
         /\ Place(k) = 0 <=> (k.row = 1 /\ k.col = 1)
<1>1. k.row \in 1 .. Rows /\ k.col \in 1 .. Cols
  BY DEF Sane, Con
<1>2. Rows \in Nat \ {0} /\ Cols \in Nat \ {0}
  BY GridSize
<1>3. CellAt(Place(k)) = Cursor(k) /\ Place(k) \in 0 .. Rows * Cols - 1
  BY <1>1, CellAtIs DEF Place, Cursor
<1>4. k.row > 1 => (k.row - 1) * Cols >= Cols
  BY <1>1, <1>2
<1>5. k.row = 1 => (k.row - 1) * Cols = 0
  BY <1>1, <1>2
<1>6. (k.row - 1) * Cols \in Int
  BY <1>1, <1>2
<1>7. Place(k) = 0 <=> (k.row = 1 /\ k.col = 1)
  <2> DEFINE a == (k.row - 1) * Cols
  <2>1. Place(k) = a + k.col - 1
    BY DEF Place
  <2>2. a \in Int /\ (k.row > 1 => a >= Cols) /\ (k.row = 1 => a = 0)
    BY <1>4, <1>5, <1>6
  <2> HIDE DEF a
  <2>3. k.row \in Int /\ k.col \in Int /\ k.row >= 1 /\ k.col >= 1 /\ Cols \in Int /\ Cols > 0
    BY <1>1, <1>2
  <2>4. CASE k.row = 1
    BY <2>1, <2>2, <2>3, <2>4
  <2>5. CASE k.row > 1
    <3>1. Place(k) > 0
      BY <2>1, <2>2, <2>3, <2>5
    <3> QED
      BY <2>3, <2>5, <3>1
  <2> QED
    BY <2>3, <2>4, <2>5
<1> QED
  BY <1>3, <1>7

\* gfx_console_backspace: one place back, and what is before it stays.
LEMMA BackspacePlace ==
  ASSUME NEW k, Sane(k), ~k.visible
  PROVE  LET h == Backspace(k)
         IN  /\ Place(h) = IF Place(k) = 0 THEN 0 ELSE Place(k) - 1
             /\ \A i \in 0 .. Place(h) - 1 : h.cells[CellAt(i)] = k.cells[CellAt(i)]
<1> DEFINE h == Backspace(k)
<1>1. /\ Sane(h) /\ h.row = BackRow(k) /\ h.col = BackCol(k)
      /\ h.cells = IF k.row = 1 /\ k.col = 1 THEN k.cells
                   ELSE [k.cells EXCEPT ![<<BackRow(k), BackCol(k)>>] = " "]
  BY BackspaceSane
<1> HIDE DEF h
<1>2. /\ k.row \in 1 .. Rows /\ k.col \in 1 .. Cols /\ k.cells \in [Cells -> Glyphs]
      /\ Rows \in Nat \ {0} /\ Cols \in Nat \ {0}
  BY GridSize DEF Sane, Con
<1>3. Place(h) = IF Place(k) = 0 THEN 0 ELSE Place(k) - 1
  <2>1. CASE k.col > 1
    <3>1. h.row = k.row /\ h.col = k.col - 1
      BY <1>1, <2>1 DEF BackRow, BackCol
    <3>2. (k.row - 1) * Cols \in Int
      BY <1>2
    <3>3. Place(h) = Place(k) - 1
      BY <1>2, <3>1, <3>2 DEF Place
    <3> QED
      BY <1>2, <2>1, <3>3, PlaceIs
  <2>2. CASE k.col = 1 /\ k.row > 1
    <3>1. h.row = k.row - 1 /\ h.col = Cols
      <4>1. ~(k.col > 1)
        BY <2>2
      <4> QED
        BY <1>1, <2>2, <4>1 DEF BackRow, BackCol
    <3>2. (k.row - 1 - 1) * Cols = (k.row - 1) * Cols - Cols /\ (k.row - 1) * Cols \in Int
      BY <1>2
    <3>3. Place(h) = Place(k) - 1
      BY <1>2, <2>2, <3>1, <3>2 DEF Place
    <3> QED
      BY <1>2, <2>2, <3>3, PlaceIs
  <2>3. CASE k.col = 1 /\ k.row = 1
    BY <1>1, <2>3, PlaceIs DEF BackRow, BackCol, Place
  <2> QED
    BY <1>2, <2>1, <2>2, <2>3
<1>4. ASSUME NEW i \in 0 .. Place(h) - 1 PROVE h.cells[CellAt(i)] = k.cells[CellAt(i)]
  <2>1. Place(h) \in 0 .. Rows * Cols - 1 /\ CellAt(Place(h)) = Cursor(h) /\ Rows * Cols \in Int
    <3>1. Sane(h)
      BY <1>1
    <3>2. Rows * Cols \in Int
      BY GridSize
    <3> QED
      BY <3>1, <3>2, PlaceIs
  <2>2. i \in 0 .. Rows * Cols - 1 /\ i # Place(h)
    BY <2>1
  <2>3. CellAt(i) \in Cells /\ CellAt(i) # CellAt(Place(h))
    BY <2>1, <2>2, CellAtIn
  <2> QED
    BY <1>1, <1>2, <2>1, <2>3 DEF Cursor
<1> QED
  BY <1>3, <1>4 DEF h

\* By how many places the grid moves up when a character is put at the cursor.
Moves(k) == IF Place(k) = Rows * Cols - 1 THEN Cols ELSE 0

\* A character is put: the cursor goes one place on, and every place keeps what it
\* showed, as the last row's end scrolls the grid.
PutAt(k, h, ch) ==
  /\ Place(h) = Place(k) + 1 - Moves(k)
  /\ \A i \in Moves(k) .. Place(k) :
       h.cells[CellAt(i - Moves(k))] = IF i = Place(k) THEN Glyph(ch) ELSE k.cells[CellAt(i)]

LEMMA PutPlace ==
  ASSUME NEW k, Sane(k), ~k.visible, NEW ch
  PROVE  PutAt(k, PutGlyph(k, ch), ch)
<1> DEFINE h == PutGlyph(k, ch)
           new == [k.cells EXCEPT ![Cursor(k)] = Glyph(ch)]
<1>1. /\ Sane(h)
      /\ IF k.col < Cols THEN h.row = k.row /\ h.col = k.col + 1 /\ h.cells = new
         ELSE /\ h.col = 1
              /\ IF k.row < Rows THEN h.row = k.row + 1 /\ h.cells = new
                 ELSE h.row = k.row /\ h.cells = Up(new)
  BY PutGlyphSane
<1> HIDE DEF h
<1>2. /\ k.row \in 1 .. Rows /\ k.col \in 1 .. Cols /\ k.cells \in [Cells -> Glyphs]
      /\ Rows \in Nat \ {0} /\ Cols \in Nat \ {0} /\ Rows * Cols \in Int
  BY GridSize DEF Sane, Con
<1>3. /\ Place(k) \in 0 .. Rows * Cols - 1 /\ CellAt(Place(k)) = Cursor(k)
  BY PlaceIs
<1>4. ASSUME NEW i \in 0 .. Place(k)
      PROVE  /\ i \in 0 .. Rows * Cols - 1 /\ CellAt(i) \in Cells
             /\ new[CellAt(i)] = IF i = Place(k) THEN Glyph(ch) ELSE k.cells[CellAt(i)]
  <2>1. i \in 0 .. Rows * Cols - 1
    BY <1>2, <1>3
  <2>2. CellAt(i) \in Cells /\ (i # Place(k) => CellAt(i) # CellAt(Place(k)))
    BY <1>3, <2>1, CellAtIn
  <2> QED
    BY <1>2, <1>3, <2>1, <2>2
<1>5. CASE ~(k.col = Cols /\ k.row = Rows)
  <2> DEFINE a == (k.row - 1) * Cols
             b == Rows * Cols
  <2>1. a \in Int /\ b \in Int /\ k.row * Cols = a + Cols /\ (k.row - 1 + 1) * Cols = a + Cols
    BY <1>2
  <2>2. k.row < Rows => a + Cols <= b - Cols
    <3> SUFFICES ASSUME k.row < Rows PROVE a + Cols <= b - Cols
      OBVIOUS
    <3>1. k.row * Cols <= (Rows - 1) * Cols
      BY <1>2
    <3>2. (Rows - 1) * Cols = b - Cols
      BY <1>2
    <3> QED
      BY <2>1, <3>1, <3>2
  <2>3. k.row = Rows => a + Cols = b
    BY <1>2, <2>1
  <2>4. Place(k) = a + k.col - 1
    BY DEF Place
  <2>5. h.col = 1 /\ h.row = k.row + 1 => Place(h) = a + Cols
    <3> SUFFICES ASSUME h.col = 1, h.row = k.row + 1 PROVE Place(h) = a + Cols
      OBVIOUS
    <3>1. Place(h) = (h.row - 1) * Cols + h.col - 1
      BY DEF Place
    <3>2. h.row - 1 = k.row
      BY <1>2
    <3> QED
      BY <1>2, <2>1, <3>1, <3>2
  <2>6. h.row = k.row => Place(h) = a + h.col - 1
    BY DEF Place
  <2> HIDE DEF a, b
  <2>7. Place(k) # b - 1
    <3>1. k.col \in Int /\ Cols \in Int /\ Cols > 0 /\ k.col <= Cols
      BY <1>2
    <3>2. CASE k.row < Rows
      <4>1. a + Cols <= b - Cols
        BY <2>2, <3>2
      <4> QED
        BY <2>1, <2>4, <3>1, <4>1
    <3>3. CASE k.row = Rows
      <4>1. a + Cols = b /\ k.col # Cols
        BY <1>5, <2>3, <3>3
      <4> QED
        BY <2>1, <2>4, <3>1, <4>1
    <3> QED
      BY <1>2, <3>2, <3>3
  <2>8. Moves(k) = 0
    BY <2>7 DEF Moves, b
  <2>9. Place(h) = Place(k) + 1 /\ h.cells = new
    BY <1>1, <1>2, <1>5, <2>1, <2>4, <2>5, <2>6
  <2>10. ASSUME NEW i \in 0 .. Place(k)
         PROVE  h.cells[CellAt(i - 0)] = IF i = Place(k) THEN Glyph(ch) ELSE k.cells[CellAt(i)]
    <3>1. i - 0 = i
      BY <1>3
    <3> QED
      BY <1>4, <2>9, <3>1
  <2>11. Place(k) + 1 - 0 = Place(k) + 1
    BY <1>3
  <2> QED
    BY <2>8, <2>9, <2>10, <2>11 DEF PutAt, h
<1>6. CASE k.col = Cols /\ k.row = Rows
  <2>1. h.col = 1 /\ h.row = Rows /\ h.cells = Up(new)
    BY <1>1, <1>2, <1>6
  <2>2. (Rows - 1) * Cols = Rows * Cols - Cols
    BY <1>2
  <2>3. Place(k) = Rows * Cols - 1 /\ Place(h) = Rows * Cols - Cols
    BY <1>2, <1>6, <2>1, <2>2 DEF Place
  <2>4. Moves(k) = Cols /\ Place(h) = Place(k) + 1 - Cols
    BY <1>2, <2>3 DEF Moves
  <2>5. ASSUME NEW i \in Cols .. Place(k)
        PROVE  h.cells[CellAt(i - Cols)] = IF i = Place(k) THEN Glyph(ch) ELSE k.cells[CellAt(i)]
    <3>1. i \in 0 .. Place(k) /\ i >= Cols
      BY <1>2, <1>3
    <3>2. i \in 0 .. Rows * Cols - 1
      BY <1>4, <3>1
    <3>3. PICK r \in 1 .. Rows, x \in 1 .. Cols : CellAt(i) = <<r, x>>
      BY <3>2, CellAtIn DEF Cells
    <3>4. CellAt(i - Cols) = <<r - 1, x>>
      BY <3>1, <3>2, <3>3, CellAtIn
    <3>5. i - Cols \in 0 .. Rows * Cols - 1
      BY <1>2, <3>1, <3>2
    <3>6. <<r - 1, x>> \in Cells
      BY <3>4, <3>5, CellAtIn
    <3>7. r - 1 < Rows /\ r - 1 + 1 = r
      BY <1>2
    <3>8. Up(new)[<<r - 1, x>>] = new[<<r, x>>]
      BY <3>6, <3>7 DEF Up
    <3> QED
      BY <1>4, <2>1, <3>1, <3>3, <3>4, <3>8
  <2> QED
    BY <2>4, <2>5 DEF PutAt, h
<1> QED
  BY <1>5, <1>6

\* console_putc_unlocked with the graphics sink.
LEMMA PutcPlace ==
  ASSUME NEW k, Sane(k), "graphics" \in k.mode, NEW ch, ch \notin {"cr", "newline", "backspace"}
  PROVE  PutAt(k, Putc(k, ch), ch)
<1> DEFINE h == HideCursor(k)
           t == PutGlyph(h, ch)
           s == Putc(k, ch)
<1>1. k.attached
  BY DEF Sane
<1>2. s = GfxPutc(k, ch) /\ Typed(h, ch) = t
  BY <1>1 DEF Putc, Typed
<1>3. Sane(h) /\ ~h.visible /\ SameText(k, h) /\ SameText(t, s)
  BY <1>1, <1>2, GfxPutcSane
<1>4. PutAt(h, t, ch)
  BY <1>3, PutPlace
<1> HIDE DEF h, t, s
<1>5. Place(h) = Place(k) /\ Place(s) = Place(t) /\ Moves(h) = Moves(k)
  BY <1>3 DEF Place, SameText, Moves
<1> QED
  BY <1>3, <1>4, <1>5 DEF PutAt, SameText, s

\* A backspace goes one place back.
BackAt(k, h) ==
  /\ Place(h) = IF Place(k) = 0 THEN 0 ELSE Place(k) - 1
  /\ \A i \in 0 .. Place(h) - 1 : h.cells[CellAt(i)] = k.cells[CellAt(i)]

LEMMA PutcBack ==
  ASSUME NEW k, Sane(k), "graphics" \in k.mode
  PROVE  BackAt(k, Putc(k, "backspace"))
<1> DEFINE h == HideCursor(k)
           t == Backspace(h)
           s == Putc(k, "backspace")
<1>1. k.attached
  BY DEF Sane
<1>2. s = GfxPutc(k, "backspace") /\ Typed(h, "backspace") = t
  BY <1>1 DEF Putc, Typed
<1>3. Sane(h) /\ ~h.visible /\ SameText(k, h) /\ SameText(t, s)
  BY <1>1, <1>2, GfxPutcSane
<1>4. BackAt(h, t)
  BY <1>3, BackspacePlace DEF BackAt
<1> HIDE DEF h, t, s
<1>5. Place(h) = Place(k) /\ Place(s) = Place(t)
  BY <1>3 DEF Place, SameText
<1> QED
  BY <1>3, <1>4, <1>5 DEF BackAt, SameText, s

\* The cells before the cursor spell what was read.
Echo(k, buf) ==
  \A j \in 1 .. Len(buf) :
    Place(k) - j >= 0 => k.cells[CellAt(Place(k) - j)] = Glyph(buf[Len(buf) + 1 - j])

LEMMA EchoText ==
  ASSUME NEW k, NEW h, NEW buf, Echo(k, buf), SameText(k, h)
  PROVE  Echo(h, buf)
BY DEF Echo, SameText, Place

\* A character that is read and echoed.
LEMMA EchoChar ==
  ASSUME NEW k, Sane(k), "graphics" \in k.mode, NEW X, NEW buf \in Seq(X), Echo(k, buf),
         NEW ch \in X, ch \notin {"cr", "newline", "backspace"}
  PROVE  Echo(Putc(k, ch), Append(buf, ch))
<1> DEFINE h == Putc(k, ch)
           P == Place(k)
           d == Moves(k)
<1>1. PutAt(k, h, ch)
  BY PutcPlace
<1>2. P \in Nat /\ d \in Nat
  BY PlaceIs, GridSize DEF Moves
<1>3. P + 1 - d = Place(h)
  BY <1>1 DEF PutAt
<1>4. Append(buf, ch) \in Seq(X) /\ Len(Append(buf, ch)) = Len(buf) + 1 /\ Len(buf) \in Nat
  OBVIOUS
<1> SUFFICES ASSUME NEW j \in 1 .. Len(buf) + 1, Place(h) - j >= 0
             PROVE  h.cells[CellAt(Place(h) - j)] = Glyph(Append(buf, ch)[Len(buf) + 1 + 1 - j])
  BY <1>4 DEF Echo
<1> DEFINE i == P + 1 - j
<1>5. i \in d .. P /\ i - d = Place(h) - j /\ (i = P <=> j = 1) /\ j \in Nat
  BY <1>2, <1>3, <1>4
<1>6. h.cells[CellAt(Place(h) - j)] = IF i = P THEN Glyph(ch) ELSE k.cells[CellAt(i)]
  BY <1>1, <1>5 DEF PutAt
<1>7. CASE j = 1
  <2>1. Len(buf) + 1 + 1 - j = Len(buf) + 1
    BY <1>4, <1>7
  <2>2. Append(buf, ch)[Len(buf) + 1] = ch
    OBVIOUS
  <2> QED
    BY <1>5, <1>6, <1>7, <2>1, <2>2
<1>8. CASE j # 1
  <2>1. /\ j - 1 \in 1 .. Len(buf) /\ P - (j - 1) = i /\ i >= 0
        /\ Len(buf) + 1 - (j - 1) = Len(buf) + 1 + 1 - j
        /\ Len(buf) + 1 + 1 - j \in 1 .. Len(buf)
    BY <1>2, <1>4, <1>5, <1>8
  <2>2. k.cells[CellAt(i)] = Glyph(buf[Len(buf) + 1 + 1 - j])
    <3>1. P - (j - 1) >= 0 => k.cells[CellAt(P - (j - 1))] = Glyph(buf[Len(buf) + 1 - (j - 1)])
      BY <2>1 DEF Echo
    <3> QED
      BY <2>1, <3>1
  <2>3. Append(buf, ch)[Len(buf) + 1 + 1 - j] = buf[Len(buf) + 1 + 1 - j]
    BY <2>1
  <2> QED
    BY <1>5, <1>6, <1>8, <2>2, <2>3
<1> QED
  BY <1>7, <1>8

\* "\b \b" undoes the echo of the last character.
LEMMA EchoErase ==
  ASSUME NEW k, Sane(k), "graphics" \in k.mode, NEW X, NEW buf \in Seq(X), Echo(k, buf),
         buf # << >>
  PROVE  Echo(Write(k, <<"backspace", " ", "backspace">>), Front(buf))
<1> DEFINE text == <<"backspace", " ", "backspace">>
           h == Write(k, text)
           P == Place(k)
<1> SUFFICES Echo(h, Front(buf))
  OBVIOUS
<1>1. /\ Len(text) = 3 /\ Len(text) \in Nat
      /\ text[1] = "backspace" /\ text[2] = " " /\ text[3] = "backspace"
  OBVIOUS
<1> HIDE DEF text
<1>2. PICK g : Steps(g, k, text, h)
  BY <1>1, WriteSteps
<1>3. /\ g[0] = k /\ g[3] = h
      /\ g[1] = Putc(g[0], "backspace") /\ g[2] = Putc(g[1], " ") /\ g[3] = Putc(g[2], "backspace")
      /\ \A i \in 0 .. 3 : Sane(g[i]) /\ "graphics" \in g[i].mode
  <2>1. /\ \A i \in 1 .. 3 : g[i] = Putc(g[i - 1], text[i])
        /\ \A i \in 0 .. 3 : Sane(g[i]) /\ SameConf(k, g[i])
        /\ g[0] = k /\ g[3] = h
    BY <1>1, <1>2 DEF Steps
  <2>2. g[1] = Putc(g[0], text[1]) /\ g[2] = Putc(g[1], text[2]) /\ g[3] = Putc(g[2], text[3])
    <3>1. 1 - 1 = 0 /\ 2 - 1 = 1 /\ 3 - 1 = 2
      OBVIOUS
    <3>2. 1 \in 1 .. 3 /\ 2 \in 1 .. 3 /\ 3 \in 1 .. 3
      OBVIOUS
    <3> QED
      BY <2>1, <3>1, <3>2
  <2> QED
    BY <1>1, <2>1, <2>2 DEF SameConf
<1>4. Sane(g[1]) /\ Sane(g[2]) /\ "graphics" \in g[1].mode /\ "graphics" \in g[2].mode /\ Sane(h)
  <2>1. 1 \in 0 .. 3 /\ 2 \in 0 .. 3 /\ 3 \in 0 .. 3
    OBVIOUS
  <2> QED
    BY <1>3, <2>1
<1>5. BackAt(k, g[1]) /\ BackAt(g[2], h)
  BY <1>3, <1>4, PutcBack
<1>6. PutAt(g[1], g[2], " ")
  BY <1>3, <1>4, PutcPlace
<1> HIDE DEF h
<1>7. /\ P \in 0 .. Rows * Cols - 1
      /\ Place(h) \in Nat /\ Place(g[2]) \in Nat /\ Place(g[1]) \in Nat
      /\ Rows * Cols \in Int
  <2>1. Rows * Cols \in Int
    BY GridSize
  <2> QED
    BY <1>4, <2>1, PlaceIs
<1>8. CASE P = 0
  <2>1. Place(g[1]) = 0
    BY <1>5, <1>8 DEF BackAt
  <2>2. Place(g[2]) <= 1
    <3>1. Place(g[2]) = Place(g[1]) + 1 - Moves(g[1])
      BY <1>6 DEF PutAt
    <3>2. Moves(g[1]) \in Nat
      BY GridSize DEF Moves
    <3> QED
      BY <2>1, <3>1, <3>2
  <2>3. Place(h) = 0
    BY <1>5, <1>7, <2>2 DEF BackAt
  <2>4. Front(buf) \in Seq(X) /\ Len(Front(buf)) \in Nat
    BY DEF Front
  <2>5. \A j \in 1 .. Len(Front(buf)) : ~(0 - j >= 0)
    BY <2>4
  <2> QED
    BY <2>3, <2>5 DEF Echo
<1>9. CASE P # 0
  <2>1. Place(g[1]) = P - 1 /\ \A i \in 0 .. P - 2 : g[1].cells[CellAt(i)] = k.cells[CellAt(i)]
    BY <1>5, <1>7, <1>9 DEF BackAt
  <2>2. Moves(g[1]) = 0
    BY <1>7, <2>1 DEF Moves
  <2>3. Place(g[2]) = P /\ \A i \in 0 .. P - 2 : g[2].cells[CellAt(i)] = g[1].cells[CellAt(i)]
    <3>1. Place(g[2]) = P
      <4>1. Place(g[2]) = Place(g[1]) + 1 - Moves(g[1])
        BY <1>6 DEF PutAt
      <4> QED
        BY <1>7, <2>1, <2>2, <4>1
    <3>2. ASSUME NEW i \in 0 .. P - 2 PROVE g[2].cells[CellAt(i)] = g[1].cells[CellAt(i)]
      <4>1. i \in 0 .. Place(g[1]) /\ i # Place(g[1]) /\ i - 0 = i
        BY <1>7, <2>1
      <4> QED
        BY <1>6, <2>2, <4>1 DEF PutAt
    <3> QED
      BY <3>1, <3>2
  <2>4. Place(h) = P - 1 /\ \A i \in 0 .. P - 2 : h.cells[CellAt(i)] = g[2].cells[CellAt(i)]
    BY <1>5, <1>7, <1>9, <2>3 DEF BackAt
  <2>5. ASSUME NEW i \in 0 .. P - 2 PROVE h.cells[CellAt(i)] = k.cells[CellAt(i)]
    BY <2>1, <2>3, <2>4
  <2>6. Front(buf) \in Seq(X) /\ Len(buf) \in Nat \ {0} /\ Len(Front(buf)) = Len(buf) - 1
    <3>1. Len(buf) \in Nat \ {0}
      OBVIOUS
    <3>2. Len(buf) - 1 \in 0 .. Len(buf) /\ \A i \in 1 .. Len(buf) - 1 : i \in 1 .. Len(buf)
      BY <3>1
    <3>3. Front(buf) = [i \in 1 .. Len(buf) - 1 |-> buf[i]]
      BY <3>1, <3>2 DEF Front
    <3> QED
      BY <3>1, <3>2, <3>3
  <2> SUFFICES ASSUME NEW j \in 1 .. Len(buf) - 1, P - 1 - j >= 0
               PROVE  h.cells[CellAt(P - 1 - j)] = Glyph(Front(buf)[Len(buf) - 1 + 1 - j])
    BY <2>4, <2>6 DEF Echo
  <2>7. /\ P - 1 - j \in 0 .. P - 2 /\ j + 1 \in 1 .. Len(buf) /\ P - (j + 1) = P - 1 - j
        /\ Len(buf) + 1 - (j + 1) = Len(buf) - j /\ Len(buf) - 1 + 1 - j = Len(buf) - j
        /\ Len(buf) - j \in 1 .. Len(buf) - 1
    BY <1>7, <2>6
  <2>8. k.cells[CellAt(P - 1 - j)] = Glyph(buf[Len(buf) - j])
    <3>1. P - (j + 1) >= 0 => k.cells[CellAt(P - (j + 1))] = Glyph(buf[Len(buf) + 1 - (j + 1)])
      BY <2>7 DEF Echo
    <3> QED
      BY <2>7, <3>1
  <2>9. Front(buf)[Len(buf) - j] = buf[Len(buf) - j]
    BY <2>6, <2>7 DEF Front
  <2> QED
    BY <2>5, <2>7, <2>8, <2>9
<1> QED
  BY <1>8, <1>9

----------------------------------------------------------------------------
(* The steps *)

LEMMA EchoIs ==
  /\ EchoMatches <=>
       (pc["kernel"] = "reading" /\ line.clean /\ "graphics" \in c.mode => Echo(c, line.buf))
  /\ EchoMatches' <=>
       (pc'["kernel"] = "reading" /\ line'.clean /\ "graphics" \in c'.mode => Echo(c', line'.buf))
BY DEF EchoMatches, Echo, Place, CellAt

LEMMA TextLen == \A text \in Texts : Len(text) \in Nat
<1> DEFINE S == Chars \cup Controls \cup {" "}
<1>1. Texts \subseteq Seq(S)
  BY ConsoleAssumption
<1> HIDE DEF S
<1> QED
  BY <1>1

LEMMA InitHolds == Init => IInv
<1> SUFFICES ASSUME Init PROVE IInv
  OBVIOUS
<1>1. Rows \in Nat \ {0} /\ Cols \in Nat \ {0} /\ <<1, 1>> \in Cells
  BY GridSize DEF Cells
<1>2. NoRect \in Rects
  BY DEF NoRect, Rects
<1> DEFINE G == [p \in Cells |-> " "]
           F == [p \in Pix |-> "none"]
<1>3. G \in [Cells -> Glyphs] /\ F \in [Pix -> Images] /\ \A p \in Pix : F[p] = "none"
  BY DEF Glyphs, Images
<1>4. /\ c = [gpu |-> FALSE, mode |-> {"serial"}, saved |-> {}, attached |-> FALSE,
              cells |-> G, row |-> 1, col |-> 1, visible |-> FALSE,
              dirty |-> NoRect, fb |-> F, scr |-> F,
              foreign |-> Pix, owed |-> {}, others |-> 0]
      /\ {"serial"} \in SUBSET Both /\ "graphics" \notin {"serial"}
  BY DEF Init, Both
<1> HIDE DEF F, G
<1>5. c \in Con
  BY <1>1, <1>2, <1>3, <1>4 DEF Con
<1>6. c.gpu = FALSE /\ c.attached = FALSE /\ "graphics" \notin c.mode /\ c.fb = F /\ c.scr = F
  BY <1>4
<1>7. Sane(c)
  BY <1>5, <1>6 DEF Sane, Rendered, Covered
<1>8. ptr \in Ptr /\ ptr.visible = FALSE /\ ptr.moving = FALSE
  <2>1. << >> \in Backs
    BY DEF Backs
  <2>2. ptr = [attached |-> FALSE, visible |-> FALSE, at |-> <<1, 1>>, saved |-> << >>,
               under |-> {}, moving |-> FALSE]
    BY DEF Init
  <2> QED
    BY <1>1, <2>1, <2>2 DEF Ptr
<1>9. NoPointer(c)
  BY <1>3, <1>6 DEF NoPointer
<1>10. Pointing(ptr) /\ Over(c, ptr)
  BY <1>8, <1>9, OverNone DEF Pointing
<1>11. pc \in [Contexts -> {"run", "unflushed", "reading", "desktop"}] /\ pc["kernel"] = "run"
  BY DEF Init, Contexts
<1>12. Stages
  BY <1>6, <1>8, <1>11 DEF Stages, Init
<1>13. LineOK
  <2>1. line = [buf |-> << >>, clean |-> TRUE]
    BY DEF Init, NoLine
  <2>2. << >> \in Seq(Chars \cup {"control"}) /\ Len(<< >>) = 0
    OBVIOUS
  <2>3. 0 < MaxLine
    <3>1. MaxLine \in Nat \ {0}
      BY ConsoleAssumption
    <3> QED
      BY <3>1
  <2> QED
    BY <2>1, <2>2, <2>3 DEF LineOK
<1>14. NothingPending /\ EchoMatches
  BY <1>6, <1>11, EchoIs DEF NothingPending
<1> QED
  BY <1>7, <1>10, <1>12, <1>13, <1>14 DEF IInv

\* Before the shell there is no pointer.
LEMMA NoPointerYet ==
  ASSUME IInv, phase # "shell"
  PROVE  NoPointer(c) /\ ~ptr.visible /\ ~ptr.moving
BY DEF IInv, Stages, Over, Trackless, NoPointer

LEMMA GpuInitKeeps ==
  ASSUME IInv, NEW n \in 0 .. Len(InitRequests), GpuInit(n)
  PROVE  IInv'
<1>1. /\ Sane(c) /\ Pointing(ptr) /\ NoPointer(c) /\ ~ptr.visible /\ ~ptr.moving
      /\ phase = "off" /\ phase' = "boot" /\ ptr' = ptr /\ pc' = pc /\ line' = line
      /\ c.gpu = FALSE /\ c.attached = FALSE /\ "graphics" \notin c.mode /\ c \in Con
  BY NoPointerYet DEF IInv, GpuInit, Stages, Sane, Con
<1>2. Sane(c') /\ NoPointer(c') /\ "graphics" \notin c'.mode
  <2>1. CASE n = Len(InitRequests)
    <3> DEFINE p == Picture(c)
               k == [p EXCEPT !.gpu = TRUE]
    <3>1. Painted(c, p) /\ NoPointer(p)
      BY <1>1, PictureSane
    <3>2. p.owed = Pix
      BY <1>1 DEF Picture, Con, Paint
    <3>3. p \in Con /\ p.attached = FALSE /\ "graphics" \notin p.mode
      BY <1>1, <3>1 DEF Painted, Sane, SameConf
    <3>4. c' = GpuFlush(k, Pix, TRUE)
      BY <2>1 DEF GpuInit
    <3> HIDE DEF p
    <3>5. /\ k \in Con /\ k.attached = FALSE /\ k.mode = p.mode /\ k.owed = Pix /\ k.fb = p.fb
          /\ k.gpu = TRUE
      BY <3>2, <3>3 DEF Con
    <3> HIDE DEF k
    <3>6. Sane(k) /\ NoPointer(k)
      BY <3>1, <3>3, <3>5 DEF Sane, Rendered, Covered, NoPointer
    <3>7. Flushed(k, c')
      BY <3>4, <3>6, GpuFlushSane
    <3> QED
      BY <3>3, <3>5, <3>6, <3>7 DEF Flushed, NoPointer, SameConf
  <2>2. CASE n # Len(InitRequests) /\ n >= 4
    <3> DEFINE F == [p \in Pix |-> "picture"]
               k == [c EXCEPT !.fb = F]
    <3>1. F \in [Pix -> Images] /\ \A p \in Pix : F[p] # "pointer"
      BY DEF Images
    <3>2. c' = k
      BY <1>1, <2>2 DEF GpuInit, Paint, Con
    <3> HIDE DEF F
    <3>3. k \in Con /\ k.fb = F /\ k.gpu = FALSE /\ k.attached = FALSE /\ k.mode = c.mode
      BY <1>1, <3>1 DEF Con
    <3> HIDE DEF k
    <3>4. Sane(k) /\ NoPointer(k)
      BY <1>1, <3>1, <3>3 DEF Sane, Rendered, Covered, NoPointer
    <3> QED
      BY <1>1, <3>2, <3>3, <3>4
  <2>3. CASE n # Len(InitRequests) /\ ~(n >= 4)
    BY <1>1, <2>3 DEF GpuInit
  <2> QED
    BY <2>1, <2>2, <2>3
<1>3. Over(c', ptr')
  BY <1>1, <1>2, OverNone DEF Pointing
<1>4. Stages'
  BY <1>1 DEF Stages, IInv
<1>5. LineOK'
  BY <1>1 DEF LineOK, IInv
<1>6. NothingPending' /\ EchoMatches'
  BY <1>2, EchoIs DEF NothingPending
<1> QED
  BY <1>1, <1>2, <1>3, <1>4, <1>5, <1>6 DEF IInv

LEMMA BootAttachKeeps ==
  ASSUME IInv, NEW memory \in BOOLEAN, NEW ok \in BOOLEAN, BootAttach(memory, ok)
  PROVE  IInv'
<1>1. /\ Sane(c) /\ Pointing(ptr) /\ NoPointer(c) /\ ~ptr.visible /\ ~ptr.moving
      /\ phase = "boot" /\ phase' = phase /\ ptr' = ptr /\ pc' = pc /\ line' = line
      /\ pc["kernel"] = "run" /\ Stages /\ LineOK
  BY NoPointerYet DEF IInv, BootAttach, Idle
<1> DEFINE k == Attach(c, memory, ok)
<1>2. Sane(k) /\ NoPointer(k)
  BY <1>1, AttachSane
<1> HIDE DEF k
<1>3. Both \in SUBSET Both /\ c' = SetMode(k, Both, ok)
  BY DEF BootAttach, k
<1>4. ModeSet(k, c')
  BY <1>2, <1>3, SetModeSane
<1>5. Sane(c') /\ NoPointer(c') /\ ("graphics" \in c'.mode => c'.dirty = NoRect)
  BY <1>2, <1>4 DEF ModeSet, Prints, NoPointer
<1>6. Over(c', ptr')
  BY <1>1, <1>5, OverNone DEF Pointing
<1>7. Stages' /\ LineOK'
  BY <1>1 DEF Stages, LineOK
<1>8. NothingPending' /\ EchoMatches'
  BY <1>1, <1>5, EchoIs DEF NothingPending
<1> QED
  BY <1>1, <1>5, <1>6, <1>7, <1>8 DEF IInv

LEMMA StartKeeps ==
  ASSUME IInv, StartDemo \/ StartShell
  PROVE  IInv'
<1>1. /\ Sane(c) /\ Pointing(ptr) /\ Over(c, ptr) /\ Stages /\ LineOK /\ NothingPending
      /\ EchoMatches
      /\ c' = c /\ ptr' = ptr /\ pc' = pc /\ line' = line /\ phase # "off"
      /\ (phase' = "demo" /\ phase = "boot") \/ phase' = "shell"
  BY DEF IInv, StartDemo, StartShell
<1>2. Stages' /\ LineOK'
  BY <1>1 DEF Stages, LineOK
<1>3. NothingPending' /\ EchoMatches'
  BY <1>1, EchoIs DEF NothingPending
<1> QED
  BY <1>1, <1>2, <1>3 DEF IInv

\* What a step that only prints and flushes keeps.
LEMMA PrintKeeps ==
  ASSUME IInv, NEW h, c' = h, Sane(h), Prints(c, h), SameConf(c, h), ptr' = ptr
  PROVE  Sane(c') /\ Pointing(ptr') /\ Over(c', ptr') /\ c'.mode = c.mode /\ c'.gpu = c.gpu
BY OverKept DEF IInv, Pointing, SameConf

LEMMA KprintfKeeps ==
  ASSUME IInv, NEW x \in Contexts, NEW text \in Texts, Kprintf(x, text)
  PROVE  IInv'
<1>1. /\ Sane(c) /\ Stages /\ LineOK /\ phase # "off" /\ phase' = phase /\ line' = line
      /\ ptr' = ptr /\ c' = Write(c, text) /\ pc' = [pc EXCEPT ![x] = "unflushed"]
      /\ x \in Tasks => phase = "demo"
  BY DEF IInv, Kprintf
<1>2. Sane(c') /\ Pointing(ptr') /\ Over(c', ptr')
  <2>1. Len(text) \in Nat
    BY TextLen
  <2>2. Sane(c') /\ Prints(c, c') /\ SameConf(c, c')
    BY <1>1, <2>1, WriteSane
  <2> QED
    BY <1>1, <2>2, PrintKeeps
<1>3. pc \in [Contexts -> {"run", "unflushed", "reading", "desktop"}] /\ "kernel" \in Contexts
  BY <1>1 DEF Stages, Contexts
<1>4. /\ pc' \in [Contexts -> {"run", "unflushed", "reading", "desktop"}]
      /\ pc'[x] = "unflushed" /\ pc'["kernel"] \in {"unflushed", pc["kernel"]}
      /\ x = "kernel" => pc'["kernel"] = "unflushed"
  BY <1>1, <1>3
<1>5. Stages' /\ LineOK'
  BY <1>1, <1>4 DEF Stages, LineOK
<1>6. NothingPending'
  BY <1>4 DEF NothingPending
<1>7. pc'["kernel"] # "reading"
  BY <1>1, <1>4 DEF Stages, Contexts
<1> QED
  BY <1>2, <1>5, <1>6, <1>7, EchoIs DEF IInv

LEMMA KprintfFlushKeeps ==
  ASSUME IInv, NEW x \in Contexts, NEW ok \in BOOLEAN, KprintfFlush(x, ok)
  PROVE  IInv'
<1>1. /\ Sane(c) /\ Stages /\ LineOK /\ EchoMatches /\ phase' = phase /\ line' = line
      /\ ptr' = ptr /\ c' = Flush(c, ok) /\ pc[x] = "unflushed" /\ pc' = [pc EXCEPT ![x] = "run"]
  BY DEF IInv, KprintfFlush
<1>2. Flushed(c, c') /\ ("graphics" \in c.mode => c'.dirty = NoRect)
  BY <1>1, FlushSane
<1>3. Sane(c') /\ Pointing(ptr') /\ Over(c', ptr') /\ c'.mode = c.mode /\ c'.gpu = c.gpu
  BY <1>1, <1>2, PrintKeeps DEF Flushed
<1>4. pc \in [Contexts -> {"run", "unflushed", "reading", "desktop"}] /\ "kernel" \in Contexts
  BY <1>1 DEF Stages, Contexts
<1>5. /\ pc' \in [Contexts -> {"run", "unflushed", "reading", "desktop"}]
      /\ pc'["kernel"] \in {"run", pc["kernel"]}
  BY <1>1, <1>4
<1>6. Stages' /\ LineOK'
  BY <1>1, <1>3, <1>5 DEF Stages, LineOK
<1>7. NothingPending'
  BY <1>2, <1>3 DEF NothingPending
<1>8. EchoMatches'
  <2> SUFFICES ASSUME pc'["kernel"] = "reading", line'.clean, "graphics" \in c'.mode
               PROVE  Echo(c', line'.buf)
    BY EchoIs
  <2>1. Echo(c, line.buf)
    BY <1>1, <1>3, <1>5, EchoIs
  <2> QED
    BY <1>1, <1>2, <2>1, EchoText DEF Flushed
<1> QED
  BY <1>3, <1>6, <1>7, <1>8 DEF IInv

\* A text, or a character, that is written and flushed.
LEMMA WriteFlushKeeps ==
  ASSUME IInv, ptr' = ptr, NEW h, Sane(h), Prints(c, h), SameConf(c, h), NEW ok \in BOOLEAN,
         c' = Flush(h, ok) \/ c' = Counted(Flush(h, ok))
  PROVE  /\ Sane(c') /\ Pointing(ptr') /\ Over(c', ptr') /\ NothingPending'
         /\ c'.mode = c.mode /\ c'.gpu = c.gpu /\ SameText(h, c')
<1> DEFINE f == Flush(h, ok)
<1>1. Flushed(h, f) /\ ("graphics" \in h.mode => f.dirty = NoRect)
  BY FlushSane
<1> HIDE DEF f
<1>2. Sane(f) /\ Prints(c, f) /\ SameConf(c, f) /\ SameText(h, f)
  BY <1>1, PrintsTrans, ConfTrans DEF Flushed
<1>3. c' = f \/ c' = Counted(f)
  BY DEF f
<1>4. Flushed(f, Counted(f)) /\ Counted(f).dirty = f.dirty
  BY <1>2, CountedSane
<1>5. Sane(c') /\ Prints(f, c') /\ SameConf(f, c') /\ SameText(f, c') /\ c'.dirty = f.dirty
  BY <1>2, <1>3, <1>4, PrintsRefl DEF Flushed, SameText
<1>6. Prints(c, c') /\ SameConf(c, c') /\ SameText(h, c')
  BY <1>2, <1>5, PrintsTrans, ConfTrans DEF SameText
<1>7. Sane(c') /\ Pointing(ptr') /\ Over(c', ptr') /\ c'.mode = c.mode /\ c'.gpu = c.gpu
  BY <1>5, <1>6, PrintKeeps
<1>8. NothingPending'
  BY <1>1, <1>5, <1>7 DEF NothingPending, SameConf
<1> QED
  BY <1>6, <1>7, <1>8

LEMMA IrqPrintKeeps ==
  ASSUME IInv, NEW text \in Texts, NEW ok \in BOOLEAN, IrqPrint(text, ok)
  PROVE  IInv'
<1> DEFINE h == Write(c, text)
<1>1. /\ Sane(c) /\ Stages /\ LineOK /\ phase' = phase /\ ptr' = ptr /\ pc' = pc
      /\ c' = Counted(Flush(h, ok)) /\ line' = [line EXCEPT !.clean = pc["kernel"] # "reading"]
  BY DEF IInv, IrqPrint
<1>2. Sane(h) /\ Prints(c, h) /\ SameConf(c, h)
  BY <1>1, TextLen, WriteSane
<1> HIDE DEF h
<1>3. Sane(c') /\ Pointing(ptr') /\ Over(c', ptr') /\ NothingPending' /\ c'.gpu = c.gpu
  BY <1>1, <1>2, WriteFlushKeeps
<1>4. Stages'
  BY <1>1, <1>3 DEF Stages
<1>5. LineOK' /\ (line'.clean <=> pc["kernel"] # "reading")
  <2> DEFINE b == pc["kernel"] # "reading"
  <2>1. b \in BOOLEAN
    OBVIOUS
  <2>2. line' = [line EXCEPT !.clean = b]
    BY <1>1
  <2> HIDE DEF b
  <2>3. line' \in [buf : Seq(Chars \cup {"control"}), clean : BOOLEAN] /\ line'.buf = line.buf
        /\ line'.clean = b
    BY <1>1, <2>1, <2>2 DEF LineOK
  <2> QED
    BY <1>1, <2>3 DEF LineOK, b
<1>6. EchoMatches'
  BY <1>1, <1>5, EchoIs
<1> QED
  BY <1>3, <1>4, <1>5, <1>6 DEF IInv

LEMMA ConsoleWriteKeeps ==
  ASSUME IInv, NEW text \in Texts, NEW ok \in BOOLEAN, ConsoleWrite(text, ok)
  PROVE  IInv'
<1> DEFINE h == Write(c, text)
<1>1. /\ Sane(c) /\ Stages /\ LineOK /\ phase' = phase /\ ptr' = ptr /\ pc' = pc /\ line' = line
      /\ c' = Flush(h, ok) /\ pc["kernel"] = "run"
  BY DEF IInv, ConsoleWrite, Shell, Idle
<1>2. Sane(h) /\ Prints(c, h) /\ SameConf(c, h)
  BY <1>1, TextLen, WriteSane
<1> HIDE DEF h
<1>3. Sane(c') /\ Pointing(ptr') /\ Over(c', ptr') /\ NothingPending' /\ c'.gpu = c.gpu
  BY <1>1, <1>2, WriteFlushKeeps
<1>4. Stages' /\ LineOK' /\ EchoMatches'
  BY <1>1, <1>3, EchoIs DEF Stages, LineOK
<1> QED
  BY <1>3, <1>4 DEF IInv

LEMMA NoLineOK ==
  /\ NoLine \in [buf : Seq(Chars \cup {"control"}), clean : BOOLEAN]
  /\ NoLine.buf = << >> /\ Len(NoLine.buf) < MaxLine
<1>1. MaxLine \in Nat \ {0}
  BY ConsoleAssumption
<1>2. << >> \in Seq(Chars \cup {"control"}) /\ Len(<< >>) = 0
  OBVIOUS
<1> QED
  BY <1>1, <1>2 DEF NoLine

LEMMA ReadLineKeeps ==
  ASSUME IInv, ReadLine
  PROVE  IInv'
<1>1. /\ Sane(c) /\ Pointing(ptr) /\ Over(c, ptr) /\ Stages /\ NothingPending
      /\ phase = "shell" /\ phase' = phase /\ ptr' = ptr /\ c' = c /\ pc["kernel"] = "run"
      /\ pc' = [pc EXCEPT !["kernel"] = "reading"] /\ line' = NoLine
  BY DEF IInv, ReadLine, Shell, Idle
<1>2. LineOK'
  BY <1>1, NoLineOK DEF LineOK
<1>3. pc \in [Contexts -> {"run", "unflushed", "reading", "desktop"}] /\ "kernel" \in Contexts
  BY <1>1 DEF Stages, Contexts
<1>4. Stages'
  BY <1>1, <1>3 DEF Stages
<1>5. NothingPending'
  BY <1>1, <1>3 DEF NothingPending
<1>6. EchoMatches'
  <2>1. Echo(c', << >>)
    <3>1. 1 .. Len(<< >>) = {}
      OBVIOUS
    <3> QED
      BY <3>1 DEF Echo
  <2> QED
    BY <1>1, <2>1, NoLineOK, EchoIs
<1> QED
  BY <1>1, <1>2, <1>4, <1>5, <1>6 DEF IInv

LEMMA ReadCharKeeps ==
  ASSUME IInv, NEW ch \in Chars \cup {"control"}, NEW ok \in BOOLEAN, ReadChar(ch, ok)
  PROVE  IInv'
<1>1. CASE ~(Len(line.buf) + 1 < MaxLine)
  <2>1. c' = c /\ line' = line /\ ptr' = ptr /\ pc' = pc /\ phase' = phase
    BY <1>1 DEF ReadChar
  <2>2. Stages' /\ LineOK' /\ NothingPending' /\ EchoMatches'
    BY <2>1, EchoIs DEF IInv, Stages, LineOK, NothingPending
  <2> QED
    BY <2>1, <2>2 DEF IInv
<1>2. CASE Len(line.buf) + 1 < MaxLine
  <2> DEFINE h == Putc(c, ch)
             X == Chars \cup {"control"}
  <2>1. /\ Sane(c) /\ Stages /\ LineOK /\ phase' = phase /\ ptr' = ptr /\ pc' = pc
        /\ c' = Flush(h, ok) /\ line' = [line EXCEPT !.buf = Append(line.buf, ch)]
        /\ pc["kernel"] = "reading" /\ EchoMatches
    BY <1>2 DEF IInv, ReadChar, Reading
  <2>2. Sane(h) /\ Prints(c, h) /\ SameConf(c, h)
    BY <2>1, PutcSane
  <2>3. ch \in X /\ ch \notin {"cr", "newline", "backspace"}
    <3>1. Chars \cap Controls = {}
      BY ConsoleAssumption
    <3> QED
      BY <3>1 DEF Controls
  <2>4. "graphics" \in c.mode /\ Echo(c, line.buf) => Echo(h, Append(line.buf, ch))
    BY <2>1, <2>3, EchoChar DEF LineOK
  <2>5. line \in [buf : Seq(X), clean : BOOLEAN]
    BY <2>1 DEF LineOK
  <2> HIDE DEF h, X
  <2>6. Sane(c') /\ Pointing(ptr') /\ Over(c', ptr') /\ NothingPending' /\ c'.gpu = c.gpu
        /\ c'.mode = c.mode /\ SameText(h, c')
    BY <2>1, <2>2, WriteFlushKeeps
  <2>7. /\ line' \in [buf : Seq(X), clean : BOOLEAN] /\ line'.buf = Append(line.buf, ch)
        /\ line'.clean = line.clean
    <3> DEFINE b == Append(line.buf, ch)
    <3>1. b \in Seq(X)
      BY <2>3, <2>5
    <3> HIDE DEF b
    <3>2. line' = [line EXCEPT !.buf = b]
      BY <2>1 DEF b
    <3> QED
      BY <2>5, <3>1, <3>2 DEF b
  <2>8. Len(line'.buf) < MaxLine
    <3>1. line.buf \in Seq(X)
      BY <2>5
    <3>2. Len(line'.buf) = Len(line.buf) + 1
      BY <2>7, <3>1
    <3> QED
      BY <1>2, <3>2
  <2>9. Stages' /\ LineOK'
    BY <2>1, <2>6, <2>7, <2>8 DEF Stages, LineOK, X
  <2>10. EchoMatches'
    <3> SUFFICES ASSUME line.clean, "graphics" \in c.mode PROVE Echo(c', line'.buf)
      BY <2>6, <2>7, EchoIs
    <3>1. Echo(h, line'.buf)
      BY <2>1, <2>4, <2>7, EchoIs
    <3> QED
      BY <2>6, <3>1, EchoText
  <2> QED
    BY <2>6, <2>9, <2>10 DEF IInv
<1> QED
  BY <1>1, <1>2

LEMMA ReadBackspaceKeeps ==
  ASSUME IInv, NEW ok \in BOOLEAN, ReadBackspace(ok)
  PROVE  IInv'
<1>1. CASE line.buf = << >>
  <2>1. c' = c /\ line' = line /\ ptr' = ptr /\ pc' = pc /\ phase' = phase
    BY <1>1 DEF ReadBackspace
  <2>2. Stages' /\ LineOK' /\ NothingPending' /\ EchoMatches'
    BY <2>1, EchoIs DEF IInv, Stages, LineOK, NothingPending
  <2> QED
    BY <2>1, <2>2 DEF IInv
<1>2. CASE line.buf # << >>
  <2> DEFINE h == Write(c, <<"backspace", " ", "backspace">>)
             X == Chars \cup {"control"}
  <2>1. /\ Sane(c) /\ Stages /\ LineOK /\ phase' = phase /\ ptr' = ptr /\ pc' = pc
        /\ c' = Flush(h, ok) /\ line' = [line EXCEPT !.buf = Front(line.buf)]
        /\ pc["kernel"] = "reading" /\ EchoMatches
    BY <1>2 DEF IInv, ReadBackspace, Reading
  <2>2. Sane(h) /\ Prints(c, h) /\ SameConf(c, h)
    <3>1. Len(<<"backspace", " ", "backspace">>) \in Nat
      OBVIOUS
    <3> QED
      BY <2>1, <3>1, WriteSane
  <2>3. line \in [buf : Seq(X), clean : BOOLEAN] /\ line.buf \in Seq(X)
    BY <2>1 DEF LineOK
  <2> HIDE DEF X
  <2>4. "graphics" \in c.mode /\ Echo(c, line.buf) => Echo(h, Front(line.buf))
    BY <1>2, <2>1, <2>3, EchoErase
  <2> HIDE DEF h
  <2>5. Sane(c') /\ Pointing(ptr') /\ Over(c', ptr') /\ NothingPending' /\ c'.gpu = c.gpu
        /\ c'.mode = c.mode /\ SameText(h, c')
    BY <2>1, <2>2, WriteFlushKeeps
  <2> DEFINE b == Front(line.buf)
  <2>6. b \in Seq(X) /\ Len(b) < MaxLine
    <3>1. Len(line.buf) \in Nat \ {0} /\ Len(line.buf) < MaxLine /\ MaxLine \in Nat
      <4>1. MaxLine \in Nat
        BY ConsoleAssumption
      <4> QED
        BY <1>2, <2>1, <2>3, <4>1 DEF LineOK
    <3>2. \A i \in 1 .. Len(line.buf) - 1 : i \in 1 .. Len(line.buf)
      BY <3>1
    <3>3. b = [i \in 1 .. Len(line.buf) - 1 |-> line.buf[i]]
      BY <2>3, <3>1, <3>2 DEF Front
    <3> QED
      BY <2>3, <3>1, <3>2, <3>3
  <2> HIDE DEF b
  <2>7. line' \in [buf : Seq(X), clean : BOOLEAN] /\ line'.buf = b /\ line'.clean = line.clean
    <3>1. line' = [line EXCEPT !.buf = b]
      BY <2>1 DEF b
    <3> QED
      BY <2>3, <2>6, <3>1
  <2>8. Stages' /\ LineOK'
    BY <2>1, <2>5, <2>6, <2>7 DEF Stages, LineOK, X
  <2>9. EchoMatches'
    <3> SUFFICES ASSUME line.clean, "graphics" \in c.mode PROVE Echo(c', line'.buf)
      BY <2>5, <2>7, EchoIs
    <3>1. Echo(h, line'.buf)
      BY <2>1, <2>4, <2>7, EchoIs DEF b
    <3> QED
      BY <2>5, <3>1, EchoText
  <2> QED
    BY <2>5, <2>8, <2>9 DEF IInv
<1> QED
  BY <1>1, <1>2

LEMMA ReadReturnKeeps ==
  ASSUME IInv, NEW ok \in BOOLEAN, ReadReturn(ok)
  PROVE  IInv'
<1> DEFINE h == Putc(c, "newline")
<1>1. /\ Sane(c) /\ Stages /\ phase' = phase /\ ptr' = ptr /\ line' = NoLine
      /\ c' = Flush(h, ok) /\ pc["kernel"] = "reading" /\ pc' = [pc EXCEPT !["kernel"] = "run"]
  BY DEF IInv, ReadReturn, Reading
<1>2. Sane(h) /\ Prints(c, h) /\ SameConf(c, h)
  BY <1>1, PutcSane
<1> HIDE DEF h
<1>3. Sane(c') /\ Pointing(ptr') /\ Over(c', ptr') /\ NothingPending' /\ c'.gpu = c.gpu
  BY <1>1, <1>2, WriteFlushKeeps
<1>4. pc \in [Contexts -> {"run", "unflushed", "reading", "desktop"}] /\ "kernel" \in Contexts
  BY <1>1 DEF Stages, Contexts
<1>5. Stages' /\ LineOK' /\ pc'["kernel"] = "run"
  BY <1>1, <1>3, <1>4, NoLineOK DEF Stages, LineOK
<1> QED
  BY <1>3, <1>5, EchoIs DEF IInv

\* The shell's commands, and the desktop's first and last steps: the kernel reads no
\* line, and nothing is left to flush.
LEMMA CommandKeeps ==
  ASSUME IInv, phase = "shell", phase' = phase, line' = line, pc["kernel"] # "reading",
         pc' = pc \/ \E s \in {"run", "desktop"} : pc' = [pc EXCEPT !["kernel"] = s],
         Sane(c'), Pointing(ptr'), Over(c', ptr'),
         "graphics" \in c'.mode =>
           c'.dirty = NoRect \/ (c.dirty = c'.dirty /\ c.mode = c'.mode /\ pc' = pc)
  PROVE  IInv'
<1>1. pc \in [Contexts -> {"run", "unflushed", "reading", "desktop"}] /\ "kernel" \in Contexts
  BY DEF IInv, Stages, Contexts
<1>2. Stages' /\ LineOK' /\ pc'["kernel"] # "reading"
  BY <1>1 DEF IInv, Stages, LineOK
<1>3. NothingPending'
  BY DEF IInv, NothingPending
<1> QED
  BY <1>2, <1>3, EchoIs DEF IInv

LEMMA SetOutputModeKeeps ==
  ASSUME IInv, NEW mode \in Modes, NEW ok \in BOOLEAN, SetOutputMode(mode, ok)
  PROVE  IInv'
<1>1. /\ Sane(c) /\ Pointing(ptr) /\ Over(c, ptr) /\ phase = "shell" /\ phase' = phase
      /\ ptr' = ptr /\ pc' = pc /\ line' = line /\ pc["kernel"] = "run"
      /\ c' = SetMode(c, mode, ok) /\ mode \in SUBSET Both
  BY DEF IInv, SetOutputMode, Shell, Idle, Modes, Both
<1>2. ModeSet(c, c')
  BY <1>1, SetModeSane
<1>3. Sane(c') /\ Over(c', ptr')
  BY <1>1, <1>2, OverKept DEF ModeSet, Pointing
<1> QED
  BY <1>1, <1>2, <1>3, CommandKeeps DEF ModeSet

LEMMA ClearGraphicsKeeps ==
  ASSUME IInv, NEW ok \in BOOLEAN, ClearGraphics(ok)
  PROVE  IInv'
<1> DEFINE p == Picture(c)
           g == GpuFlush(p, Pix, ok)
<1>1. /\ Sane(c) /\ Pointing(ptr) /\ ~ptr.moving /\ phase = "shell" /\ phase' = phase
      /\ ptr' = ptr /\ pc' = pc /\ line' = line /\ pc["kernel"] = "run" /\ c' = Counted(g)
  BY DEF IInv, ClearGraphics, Shell, Idle
<1>2. Painted(c, p) /\ NoPointer(p)
  BY <1>1, PictureSane
<1> HIDE DEF p
<1>3. Flushed(p, g) /\ g.dirty = p.dirty
  BY <1>2, GpuFlushSane DEF Painted
<1> HIDE DEF g
<1>4. Flushed(g, c') /\ c'.dirty = g.dirty
  BY <1>1, <1>3, CountedSane DEF Flushed
<1>5. Sane(c') /\ NoPointer(c') /\ c'.mode = c.mode /\ c'.dirty = c.dirty
  BY <1>2, <1>3, <1>4 DEF Flushed, Painted, NoPointer, SameConf
<1>6. Over(c', ptr')
  BY <1>1, <1>5, OverNone DEF Pointing
<1> QED
  BY <1>1, <1>5, <1>6, CommandKeeps

\* A console h over which the pointer x was drawn, then counted.
LEMMA PointedCounted ==
  ASSUME NEW k, NEW h, NEW x, Pointed(k, h, x)
  PROVE  Pointed(k, Counted(h), x)
<1>1. Flushed(h, Counted(h)) /\ Counted(h).dirty = h.dirty /\ Pointing(x) /\ Over(h, x) /\ x \in Ptr
  BY CountedSane DEF Pointed, Pointing
<1>2. Over(Counted(h), x)
  BY <1>1, OverKept DEF Flushed, SameConf
<1> QED
  BY <1>1, <1>2, ConfTrans DEF Pointed, Flushed

\* ... or flushed to the GPU
LEMMA PointedFlushed ==
  ASSUME NEW k, NEW h, NEW x, Pointed(k, h, x), NEW ok \in BOOLEAN
  PROVE  Pointed(k, GpuFlush(h, Pix, ok), x)
<1> DEFINE g == GpuFlush(h, Pix, ok)
<1>1. Flushed(h, g) /\ g.dirty = h.dirty /\ Pointing(x) /\ Over(h, x) /\ x \in Ptr
  BY GpuFlushSane DEF Pointed, Pointing
<1> HIDE DEF g
<1>2. Over(g, x)
  BY <1>1, OverKept DEF Flushed, SameConf
<1>3. Pointed(k, g, x)
  BY <1>1, <1>2, ConfTrans DEF Pointed, Flushed
<1> QED
  BY <1>3 DEF g

\* ... or its sinks were selected
LEMMA PointedMode ==
  ASSUME NEW k, NEW h, NEW x, Pointed(k, h, x), NEW mode \in SUBSET Both, NEW ok \in BOOLEAN
  PROVE  LET s == SetMode(h, mode, ok)
         IN  /\ Sane(s) /\ Pointing(x) /\ Over(s, x) /\ ~x.moving
             /\ "graphics" \in s.mode => s.dirty = NoRect
<1>1. ModeSet(h, SetMode(h, mode, ok)) /\ Pointing(x) /\ Over(h, x) /\ x \in Ptr
  BY SetModeSane DEF Pointed, Pointing
<1> QED
  BY <1>1, OverKept DEF ModeSet, Pointed

\* A console that is only counted.
LEMMA CountedKeeps ==
  ASSUME NEW s, NEW x, Sane(s), Pointing(x), Over(s, x)
  PROVE  /\ Sane(Counted(s)) /\ Over(Counted(s), x)
         /\ Counted(s).dirty = s.dirty /\ Counted(s).mode = s.mode
<1>1. Flushed(s, Counted(s)) /\ Counted(s).dirty = s.dirty /\ x \in Ptr
  BY CountedSane DEF Pointing
<1> QED
  BY <1>1, OverKept DEF Flushed, SameConf

LEMMA GuiDrawKeeps ==
  ASSUME IInv, NEW ok \in BOOLEAN, GuiDraw(ok)
  PROVE  IInv'
<1> DEFINE p == Picture(c)
           r == Refresh(p, ptr)
           g == GpuFlush(r.k, Pix, ok)
           s == SetMode(g, {"serial"}, ok)
<1>1. /\ Sane(c) /\ Pointing(ptr) /\ ~ptr.moving /\ phase = "shell" /\ phase' = phase
      /\ ptr' = r.q /\ pc' = pc /\ line' = line /\ pc["kernel"] = "run" /\ c' = Counted(s)
  BY DEF IInv, GuiDraw, Shell, Idle
<1>2. Painted(c, p) /\ NoPointer(p)
  BY <1>1, PictureSane
<1> HIDE DEF p
<1>3. Pointed(p, r.k, r.q)
  BY <1>1, <1>2, RefreshSane DEF Painted
<1> HIDE DEF r
<1>4. Pointed(p, g, r.q)
  BY <1>3, PointedFlushed
<1> HIDE DEF g
<1>5. {"serial"} \in SUBSET Both
  BY DEF Both
<1>6. /\ Sane(s) /\ Pointing(r.q) /\ Over(s, r.q)
      /\ "graphics" \in s.mode => s.dirty = NoRect
  BY <1>4, <1>5, PointedMode
<1> HIDE DEF s
<1>7. Sane(c') /\ Pointing(ptr') /\ Over(c', ptr') /\ ("graphics" \in c'.mode => c'.dirty = NoRect)
  BY <1>1, <1>6, CountedKeeps
<1> QED
  BY <1>1, <1>7, CommandKeeps

LEMMA PointerMoveKeeps ==
  ASSUME IInv, NEW at \in Cells, PointerMove(at)
  PROVE  IInv'
<1> DEFINE r == RestoreBackground(c, ptr)
           m == MoveSaves(c, ptr, at)
           b == [ptr EXCEPT !.attached = TRUE]
<1>1. /\ Sane(c) /\ Pointing(ptr) /\ Over(c, ptr) /\ Stages /\ LineOK /\ NothingPending
      /\ EchoMatches /\ phase = "shell" /\ phase' = phase /\ pc' = pc /\ line' = line
      /\ c' = Counted(r) /\ ptr' = [m EXCEPT !.moving = TRUE]
  BY DEF IInv, PointerMove
<1>2. Painted(c, r) /\ NoPointer(r)
  BY <1>1, RestoreSane
<1>3. Saves(r, b, m, at)
  BY <1>1, MoveSavesSane
<1>4. b.attached = TRUE
  BY <1>1 DEF Pointing, Ptr
<1> HIDE DEF r, m, b
<1>5. Flushed(r, c') /\ c'.dirty = r.dirty
  BY <1>1, <1>2, CountedSane DEF Painted
<1>6. /\ ptr' \in Ptr /\ ptr'.moving = TRUE /\ ptr'.visible = FALSE /\ ptr'.attached = TRUE
      /\ ptr'.at = at /\ ptr'.saved = m.saved /\ ptr'.under = m.under
  BY <1>1, <1>3, <1>4 DEF Saves, Ptr
<1>7. Pointing(ptr')
  BY <1>3, <1>6 DEF Pointing, Saved, Saves
<1>8. Over(c', ptr')
  BY <1>2, <1>3, <1>5, <1>6 DEF Over, Trackless, NoPointer, Flushed, Saves
<1>9. Sane(c') /\ c'.mode = c.mode /\ c'.dirty = c.dirty /\ SameText(c, c')
  BY <1>2, <1>5 DEF Painted, Flushed, SameConf, SameText
<1>10. Stages' /\ LineOK'
  BY <1>1 DEF Stages, LineOK
<1>11. NothingPending' /\ EchoMatches'
  BY <1>1, <1>9, EchoIs, EchoText DEF NothingPending
<1> QED
  BY <1>7, <1>8, <1>9, <1>10, <1>11 DEF IInv

LEMMA PointerDrawKeeps ==
  ASSUME IInv, NEW ok \in BOOLEAN, PointerDraw(ok)
  PROVE  IInv'
<1> DEFINE d == DrawPointer(c, ptr)
           y == Drawn(c, ptr)
           x == [y EXCEPT !.moving = FALSE]
<1>1. /\ Sane(c) /\ Pointing(ptr) /\ Over(c, ptr) /\ Stages /\ LineOK /\ NothingPending
      /\ EchoMatches /\ phase' = phase /\ pc' = pc /\ line' = line /\ ptr.moving
      /\ c' = GpuFlush(d, Pix, ok) /\ ptr' = x /\ ptr \in Ptr /\ ptr.at \in Cells
  BY DEF IInv, PointerDraw, Pointing, Ptr
<1>2. NoPointer(c)
  BY <1>1 DEF Over, Trackless, Pointing, NoPointer
<1>3. Saves(c, ptr, ptr, ptr.at) /\ ptr.attached
  BY <1>1 DEF Saves, Pointing, Over
<1>4. /\ y \in Ptr /\ y.at = ptr.at /\ y.visible /\ y.attached = ptr.attached
      /\ y.saved = ptr.saved
      /\ y.under = ptr.under \cup {p \in Halves(ptr.at) : c.fb[p] # ptr.saved[p]}
  BY <1>1, DrawnIs
<1> HIDE DEF y
<1>5. /\ x \in Ptr /\ x.at = ptr.at /\ x.visible /\ ~x.moving /\ x.attached
      /\ x.saved = ptr.saved /\ x.under = y.under
  BY <1>3, <1>4 DEF Ptr
<1> HIDE DEF x
<1>6. Pointed(c, d, x)
  BY <1>1, <1>2, <1>3, <1>4, <1>5, DrawSane
<1>7. SameText(c, d)
  BY <1>1 DEF DrawPointer, Paint, SameText, Sane, Con
<1> HIDE DEF d
<1>8. Flushed(d, c') /\ c'.dirty = d.dirty
  BY <1>1, <1>6, GpuFlushSane DEF Pointed
<1>9. Pointed(c, c', ptr')
  BY <1>1, <1>6, PointedFlushed
<1>10. SameText(c, c')
  BY <1>7, <1>8 DEF Flushed, SameText
<1>11. c'.mode = c.mode /\ c'.dirty = c.dirty /\ c'.gpu = c.gpu /\ phase = "shell"
  BY <1>1, <1>9 DEF Pointed, SameConf, Stages
<1>12. Stages' /\ LineOK'
  BY <1>1, <1>11 DEF Stages, LineOK
<1>13. NothingPending' /\ EchoMatches'
  BY <1>1, <1>10, <1>11, EchoIs, EchoText DEF NothingPending
<1> QED
  BY <1>9, <1>12, <1>13 DEF IInv, Pointed

LEMMA DesktopEnterKeeps ==
  ASSUME IInv, NEW at \in Cells, DesktopEnter(at)
  PROVE  IInv'
<1> DEFINE k == [c EXCEPT !.saved = c.mode]
           s == SetMode(k, {"serial"}, TRUE)
           r == Moved(s, ptr, at)
<1>1. /\ Sane(c) /\ Pointing(ptr) /\ Over(c, ptr) /\ ~ptr.moving /\ phase = "shell"
      /\ phase' = phase /\ line' = line /\ pc["kernel"] = "run" /\ c' = Counted(r.k) /\ ptr' = r.q
      /\ pc' = [pc EXCEPT !["kernel"] = "desktop"] /\ c \in Con /\ ptr \in Ptr
  BY DEF IInv, DesktopEnter, Shell, Idle, Sane, Pointing
<1>2. c.mode \in SUBSET Both /\ ("graphics" \in c.mode => c.attached) /\ {"serial"} \in SUBSET Both
  BY <1>1 DEF Sane, Con, Both
<1>3. k = [c EXCEPT !.mode = c.mode, !.saved = c.mode]
  BY <1>1 DEF Con
<1>4. ModeIs(c, k, c.mode, c.mode)
  BY <1>1, <1>2, <1>3, ModeSane
<1> HIDE DEF k
<1>5. Sane(k) /\ Over(k, ptr)
  BY <1>1, <1>4, OverKept DEF ModeIs
<1>6. ModeSet(k, s)
  BY <1>2, <1>5, SetModeSane
<1> HIDE DEF s
<1>7. Sane(s) /\ Over(s, ptr) /\ ("graphics" \in s.mode => s.dirty = NoRect)
  BY <1>1, <1>5, <1>6, OverKept DEF ModeSet
<1>8. Pointed(s, r.k, r.q)
  BY <1>1, <1>7, MovedSane
<1> HIDE DEF r
<1>9. Pointed(s, c', ptr')
  BY <1>1, <1>8, PointedCounted
<1>10. Sane(c') /\ Pointing(ptr') /\ Over(c', ptr') /\ ("graphics" \in c'.mode => c'.dirty = NoRect)
  BY <1>7, <1>9 DEF Pointed, SameConf
<1> QED
  BY <1>1, <1>10, CommandKeeps

LEMMA DesktopFrameKeeps ==
  ASSUME IInv, NEW at \in Cells, NEW ok \in BOOLEAN, DesktopFrame(at, ok)
  PROVE  IInv'
<1> DEFINE p == Picture(c)
           r == Refresh(p, ptr)
           k == GpuFlush(r.k, Pix, ok)
           m == IF at = ptr.at THEN [k |-> k, q |-> r.q] ELSE Moved(k, r.q, at)
<1>1. /\ Sane(c) /\ Pointing(ptr) /\ ~ptr.moving /\ phase' = phase /\ line' = line /\ pc' = pc
      /\ pc["kernel"] = "desktop" /\ c' = Counted(m.k) /\ ptr' = m.q /\ phase = "shell"
  BY DEF IInv, DesktopFrame, Stages
<1>2. Painted(c, p) /\ NoPointer(p)
  BY <1>1, PictureSane
<1> HIDE DEF p
<1>3. Pointed(p, r.k, r.q)
  BY <1>1, <1>2, RefreshSane DEF Painted
<1> HIDE DEF r
<1>4. Pointed(p, k, r.q)
  BY <1>3, PointedFlushed
<1> HIDE DEF k
<1>5. Pointed(k, Moved(k, r.q, at).k, Moved(k, r.q, at).q)
  BY <1>4, MovedSane DEF Pointed
<1>6. Pointed(p, m.k, m.q)
  <2>1. CASE at = ptr.at
    BY <1>4, <2>1
  <2>2. CASE at # ptr.at
    <3>1. m.k = Moved(k, r.q, at).k /\ m.q = Moved(k, r.q, at).q
      BY <2>2
    <3> HIDE DEF m
    <3>2. Pointed(k, m.k, m.q)
      BY <1>5, <3>1
    <3> QED
      BY <1>4, <3>2, ConfTrans DEF Pointed
  <2> QED
    BY <2>1, <2>2
<1> HIDE DEF m
<1>7. Pointed(p, c', ptr')
  BY <1>1, <1>6, PointedCounted
<1>8. Sane(c') /\ Pointing(ptr') /\ Over(c', ptr') /\ c'.mode = c.mode /\ c'.dirty = c.dirty
  BY <1>2, <1>7 DEF Pointed, Painted, SameConf
<1> QED
  BY <1>1, <1>8, CommandKeeps

LEMMA DesktopOnceKeeps ==
  ASSUME IInv, NEW at \in Cells, NEW ok \in BOOLEAN, DesktopOnce(at, ok)
  PROVE  IInv'
<1> DEFINE s == SetMode(c, {"serial"}, TRUE)
           r == Moved(s, ptr, at)
           p == Picture(r.k)
           f == Refresh(p, r.q)
           e == SetMode(f.k, c.mode, ok)
<1>1. /\ Sane(c) /\ Pointing(ptr) /\ Over(c, ptr) /\ ~ptr.moving /\ phase = "shell"
      /\ phase' = phase /\ line' = line /\ pc' = pc /\ pc["kernel"] = "run" /\ c' = Counted(e)
      /\ ptr' = f.q /\ ptr \in Ptr
  BY DEF IInv, DesktopOnce, Shell, Idle, Pointing
<1>2. c.mode \in SUBSET Both /\ {"serial"} \in SUBSET Both
  BY <1>1 DEF Sane, Con, Both
<1>3. ModeSet(c, s)
  BY <1>1, <1>2, SetModeSane
<1> HIDE DEF s
<1>4. Sane(s) /\ Over(s, ptr)
  BY <1>1, <1>3, OverKept DEF ModeSet
<1>5. Pointed(s, r.k, r.q)
  BY <1>1, <1>4, MovedSane
<1> HIDE DEF r
<1>6. Painted(r.k, p) /\ NoPointer(p)
  BY <1>5, PictureSane DEF Pointed
<1> HIDE DEF p
<1>7. Pointed(p, f.k, f.q)
  BY <1>5, <1>6, RefreshSane DEF Pointed, Painted
<1> HIDE DEF f
<1>8. Sane(e) /\ Pointing(f.q) /\ Over(e, f.q) /\ ("graphics" \in e.mode => e.dirty = NoRect)
  BY <1>2, <1>7, PointedMode
<1> HIDE DEF e
<1>9. Sane(c') /\ Pointing(ptr') /\ Over(c', ptr') /\ ("graphics" \in c'.mode => c'.dirty = NoRect)
  BY <1>1, <1>8, CountedKeeps
<1> QED
  BY <1>1, <1>9, CommandKeeps

LEMMA DesktopExitKeeps ==
  ASSUME IInv, NEW ok \in BOOLEAN, DesktopExit(ok)
  PROVE  IInv'
<1> DEFINE s == SetMode(c, c.saved, ok)
<1>1. /\ Sane(c) /\ Pointing(ptr) /\ Over(c, ptr) /\ ~ptr.moving /\ ptr' = ptr
      /\ phase' = phase /\ line' = line /\ pc["kernel"] = "desktop" /\ phase = "shell"
      /\ c' = [s EXCEPT !.saved = {}] /\ ptr \in Ptr
      /\ pc' = [pc EXCEPT !["kernel"] = "run"]
  BY DEF IInv, DesktopExit, Pointing, Stages
<1>2. c.saved \in SUBSET Both
  BY <1>1 DEF Sane, Con
<1>3. ModeSet(c, s)
  BY <1>1, <1>2, SetModeSane
<1> HIDE DEF s
<1>4. Sane(s) /\ Over(s, ptr) /\ ("graphics" \in s.mode => s.dirty = NoRect) /\ s \in Con
  BY <1>1, <1>3, OverKept DEF ModeSet, Sane
<1>5. s.mode \in SUBSET Both /\ ("graphics" \in s.mode => s.attached) /\ {} \in SUBSET Both
  BY <1>4 DEF Sane, Con
<1>6. c' = [s EXCEPT !.mode = s.mode, !.saved = {}]
  BY <1>1, <1>4 DEF Con
<1>7. ModeIs(s, c', s.mode, {})
  BY <1>4, <1>5, <1>6, ModeSane
<1>8. Sane(c') /\ Pointing(ptr') /\ Over(c', ptr') /\ ("graphics" \in c'.mode => c'.dirty = NoRect)
  BY <1>1, <1>4, <1>7, OverKept DEF ModeIs
<1> QED
  BY <1>1, <1>8, CommandKeeps

----------------------------------------------------------------------------
(* The theorems *)

LEMMA NextKeeps ==
  ASSUME IInv, [Next]_vars
  PROVE  IInv'
<1>1. Answers \subseteq BOOLEAN
  BY DEF Answers
<1>2. CASE \E n \in 0 .. Len(InitRequests) : GpuInit(n)
  BY <1>2, GpuInitKeeps
<1>3. CASE \E memory \in BOOLEAN, ok \in Answers : BootAttach(memory, ok)
  BY <1>1, <1>3, BootAttachKeeps
<1>4. CASE StartDemo \/ StartShell
  BY <1>4, StartKeeps
<1>5. CASE \E x \in Contexts, text \in Texts : Kprintf(x, text)
  BY <1>5, KprintfKeeps
<1>6. CASE \E x \in Contexts, ok \in Answers : KprintfFlush(x, ok)
  BY <1>1, <1>6, KprintfFlushKeeps
<1>7. CASE \E text \in Texts, ok \in Answers : IrqPrint(text, ok)
  BY <1>1, <1>7, IrqPrintKeeps
<1>8. CASE \E text \in Texts, ok \in Answers : ConsoleWrite(text, ok)
  BY <1>1, <1>8, ConsoleWriteKeeps
<1>9. CASE ReadLine
  BY <1>9, ReadLineKeeps
<1>10. CASE \E ch \in Chars \cup {"control"}, ok \in Answers : ReadChar(ch, ok)
  BY <1>1, <1>10, ReadCharKeeps
<1>11. CASE \E ok \in Answers : ReadBackspace(ok) \/ ReadReturn(ok)
  BY <1>1, <1>11, ReadBackspaceKeeps, ReadReturnKeeps
<1>12. CASE \E mode \in Modes, ok \in Answers : SetOutputMode(mode, ok)
  BY <1>1, <1>12, SetOutputModeKeeps
<1>13. CASE \E ok \in Answers : ClearGraphics(ok) \/ GuiDraw(ok)
  BY <1>1, <1>13, ClearGraphicsKeeps, GuiDrawKeeps
<1>14. CASE \E at \in Cells : PointerMove(at)
  BY <1>14, PointerMoveKeeps
<1>15. CASE \E ok \in Answers : PointerDraw(ok)
  BY <1>1, <1>15, PointerDrawKeeps
<1>16. CASE \E at \in Cells : DesktopEnter(at)
  BY <1>16, DesktopEnterKeeps
<1>17. CASE \E at \in Cells, ok \in Answers : DesktopFrame(at, ok) \/ DesktopOnce(at, ok)
  BY <1>1, <1>17, DesktopFrameKeeps, DesktopOnceKeeps
<1>18. CASE \E ok \in Answers : DesktopExit(ok)
  BY <1>1, <1>18, DesktopExitKeeps
<1>19. CASE UNCHANGED vars
  <2>1. c' = c /\ ptr' = ptr /\ pc' = pc /\ line' = line /\ phase' = phase
    BY <1>19 DEF vars
  <2>2. Stages' /\ LineOK' /\ NothingPending' /\ EchoMatches'
    BY <2>1, EchoIs DEF IInv, Stages, LineOK, NothingPending
  <2> QED
    BY <2>1, <2>2 DEF IInv
<1> QED
  BY <1>2, <1>3, <1>4, <1>5, <1>6, <1>7, <1>8, <1>9, <1>10, <1>11, <1>12, <1>13, <1>14, <1>15,
     <1>16, <1>17, <1>18, <1>19 DEF Next

\* The console, its frame buffer, the pointer with its background, the line that is
\* read and the stage of kernel_main stay as the inductive invariant says.
THEOREM ConsoleInvariant == Spec => []IInv
<1>1. IInv /\ [Next]_vars => IInv'
  BY NextKeeps
<1> QED
  BY <1>1, InitHolds, PTL DEF Spec

\* The frame buffer shows the character grid and one cursor mark wherever nothing else
\* was drawn since, whatever is printed, scrolled and erased, and wherever the pointer
\* goes (gfx_console_putc, gfx_cursor_move).
THEOREM RenderedAlways == Spec => []GridRendered
<1>1. IInv => GridRendered
  <2> SUFFICES ASSUME IInv PROVE GridRendered
    OBVIOUS
  <2>1. Sane(c) /\ Stages /\ LineOK /\ c \in Con
    BY DEF IInv, Sane
  <2>2. TypeOK
    <3>1. c.mode \subseteq Both /\ ("graphics" \in c.mode => c.attached) /\ (c.attached => c.gpu)
      BY <2>1 DEF Sane, Con
    <3>2. c.row \in 1 .. Rows /\ c.col \in 1 .. Cols
      BY <2>1 DEF Con
    <3>3. c.cells \in [Cells -> Chars \cup {" ", "?"}]
      BY <2>1 DEF Con, Glyphs
    <3>4. c.fb \in [Pix -> Chars \cup {" ", "?", "mark", "picture", "pointer", "none"}]
      <4>1. Images = Chars \cup {" ", "?", "mark", "picture", "pointer", "none"}
        BY DEF Images, Glyphs
      <4> QED
        BY <2>1, <4>1 DEF Con
    <3> QED
      BY <2>1, <3>1, <3>2, <3>3, <3>4 DEF TypeOK, Stages, LineOK
  <2> QED
    BY <2>1, <2>2 DEF GridRendered, Sane, Rendered, Shown
<1> QED
  BY <1>1, ConsoleInvariant, PTL

\* Whatever the display does not show yet is in the dirty rectangle or is owed: no
\* change of the frame buffer is forgotten (gfx_console_mark_dirty_rect,
\* console_flush_unlocked).
THEOREM CoveredAlways == Spec => []DirtyCovers
<1>1. IInv => DirtyCovers
  BY DEF IInv, Sane, Covered, DirtyCovers
<1> QED
  BY <1>1, ConsoleInvariant, PTL

\* When every kprintf has returned nothing is left to flush, although kprintf releases
\* its lock before console_flush takes it again.
THEOREM NothingPendingAlways == Spec => []NothingPending
<1>1. IInv => NothingPending
  BY DEF IInv
<1> QED
  BY <1>1, ConsoleInvariant, PTL

\* The cells before the cursor spell the line that console_read_line has, across the
\* end of a row, a scroll and every erased character.
THEOREM EchoAlways == Spec => []EchoMatches
<1>1. IInv => EchoMatches
  BY DEF IInv
<1> QED
  BY <1>1, ConsoleInvariant, PTL

\* The pointer's image is nowhere but where the pointer is: gfx_cursor_move, in its two
\* parts, never leaves one behind.
THEOREM NoTrailAlways == Spec => []NoTrail
<1>1. IInv => NoTrail
  BY DEF IInv, Over, Trackless, NoTrail
<1> QED
  BY <1>1, ConsoleInvariant, PTL
=============================================================================
