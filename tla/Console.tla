------------------------------- MODULE Console -------------------------------
(***************************************************************************)
(* The graphics console and the display: the character grid and its text   *)
(* cursor (kernel/console.c), the frame buffer, the mouse pointer with the *)
(* background it saves (gfx/cursor.c), and the flush to the GPU            *)
(* (drivers/virtio_gpu.c).                                                 *)
(*                                                                         *)
(* The frame buffer is divided as the properties need it: a character cell *)
(* is an upper part and the lower part on which the text cursor's mark is  *)
(* drawn; the pointer covers one cell.  What others draw is a "picture".   *)
(* The C statics are the fields of c.  A step is what one context does     *)
(* with interrupts masked, or without being disturbed: kprintf releases    *)
(* its lock before it flushes, and moving the pointer takes no lock, so    *)
(* the driver's interrupt handlers, which may print, run in between.  The  *)
(* capture of the output by a Terminal is in module Desktop.               *)
(***************************************************************************)
EXTENDS Integers, FiniteSets, Sequences, SequencesExt

CONSTANTS
  Rows, Cols,    \* the size of the grid
  Chars,         \* printable characters other than the space and "?"
  Tasks,         \* the tasks of the preemptive demo
  Texts,         \* what a kprintf, an interrupt handler or a program prints
  MaxLine,       \* max_len of console_read_line
  MaxOthers      \* bound on pictures, pointer moves, interrupts that print, and
                 \* refused flushes together

Controls == {"cr", "newline", "backspace", "control"}

ASSUME ConsoleAssumption ==
  /\ Rows \in Nat \ {0} /\ Cols \in Nat \ {0}
  /\ MaxLine \in Nat \ {0} /\ MaxOthers \in Nat
  /\ Chars \cap (Controls \cup {" ", "?", "mark", "picture", "pointer", "none"}) = {}
  /\ Texts \subseteq Seq(Chars \cup Controls \cup {" "})

VARIABLES
  c,      \* the console, the frame buffer, the display
  ptr,    \* gfx_cursor_state
  pc,     \* where each context is
  line,   \* the buffer of console_read_line
  phase   \* how far kernel_main has come

vars == <<c, ptr, pc, line, phase>>

Contexts == {"kernel"} \cup Tasks

\* Parts of the frame buffer: <<line, column>>, two lines a row.
Pix == (1 .. 2 * Rows) \X (1 .. Cols)
Cells == (1 .. Rows) \X (1 .. Cols)
Halves(p) == {<<2 * p[1] - 1, p[2]>>, <<2 * p[1], p[2]>>}
Mark(p) == <<2 * p[1], p[2]>>
CellOf(x) == <<(x[1] + 1) \div 2, x[2]>>
Cursor(k) == <<k.row, k.col>>

\* The dirty rectangle: its corners, or none while dirty_valid is 0.
NoRect == [y0 |-> 0, x0 |-> 0, y1 |-> -1, x1 |-> -1]
RectOf(S) == [y0 |-> Min({p[1] : p \in S}), x0 |-> Min({p[2] : p \in S}),
              y1 |-> Max({p[1] : p \in S}), x1 |-> Max({p[2] : p \in S})]
In(r) == {p \in Pix : p[1] \in r.y0 .. r.y1 /\ p[2] \in r.x0 .. r.x1}
Dirty(k) == In(k.dirty)

MarkDirtyExact(k, S) == [k EXCEPT !.dirty = RectOf(S)]

\* gfx_console_mark_dirty_rect
MarkDirty(k, S) == [k EXCEPT !.dirty = RectOf(Dirty(k) \cup S)]

Paint(k, S, image) == [k EXCEPT !.fb = [p \in Pix |-> IF p \in S THEN image ELSE @[p]]]

----------------------------------------------------------------------------
(***************************************************************************)
(* console_flush_unlocked and virtio_gpu_flush_rect.  The transfer and the *)
(* flush of one rectangle are two requests; if the device accepts both,    *)
(* the display shows the rectangle.  owed (ghost) is what was changed in   *)
(* the frame buffer and then left out by the code: refused by the device,  *)
(* or drawn without being flushed.                                         *)
(***************************************************************************)
GpuFlush(k, S, ok) ==
  IF ~k.gpu THEN k
  ELSE IF ok
  THEN [k EXCEPT !.scr = [p \in Pix |-> IF p \in S THEN k.fb[p] ELSE @[p]],
                 !.owed = @ \ S]
  ELSE [k EXCEPT !.owed = @ \cup S, !.others = @ + 1]

Flush(k, ok) ==
  IF "graphics" \in k.mode /\ k.gpu /\ k.dirty # NoRect
  THEN [GpuFlush(k, Dirty(k), ok) EXCEPT !.dirty = NoRect]
  ELSE k

(***************************************************************************)
(* The character grid.  foreign (ghost) are the parts of the frame buffer  *)
(* on which something else was drawn after the console last drew there.    *)
(***************************************************************************)
DrawCell(k, p) ==
  [MarkDirty(Paint(k, Halves(p), k.cells[p]), Halves(p)) EXCEPT !.foreign = @ \ Halves(p)]

HideCursor(k) ==
  IF k.attached /\ k.visible
  THEN [DrawCell(k, Cursor(k)) EXCEPT !.visible = FALSE] ELSE k

ShowCursor(k) ==
  IF k.attached
  THEN [MarkDirty(Paint(k, {Mark(Cursor(k))}, "mark"), {Mark(Cursor(k))})
          EXCEPT !.visible = TRUE, !.foreign = @ \ {Mark(Cursor(k))}]
  ELSE k

RedrawAll(k) ==
  [MarkDirty(k, Pix) EXCEPT !.fb = [p \in Pix |-> k.cells[CellOf(p)]], !.foreign = {}]

Scroll(k) ==
  RedrawAll([k EXCEPT !.cells = [p \in Cells |-> IF p[1] < Rows THEN @[<<p[1] + 1, p[2]>>]
                                                 ELSE " "]])

Newline(k) ==
  IF k.row < Rows THEN [k EXCEPT !.col = 1, !.row = @ + 1]
  ELSE Scroll([k EXCEPT !.col = 1])

BackspaceKeepsRow(k) ==
  LET back == IF k.col > 1 THEN [k EXCEPT !.col = @ - 1] ELSE k
  IN  IF back = k THEN k
      ELSE DrawCell([back EXCEPT !.cells[Cursor(back)] = " "], Cursor(back))

Backspace(k) ==
  LET back == IF k.col > 1 THEN [k EXCEPT !.col = @ - 1]
              ELSE IF k.row > 1 THEN [k EXCEPT !.row = @ - 1, !.col = Cols]
              ELSE k
  IN  IF back = k THEN k
      ELSE DrawCell([back EXCEPT !.cells[Cursor(back)] = " "], Cursor(back))

\* An unprintable character is shown as a question mark.
Glyph(ch) == IF ch \in Chars \cup {" "} THEN ch ELSE "?"

PutGlyph(k, ch) ==
  LET drawn == DrawCell([k EXCEPT !.cells[Cursor(k)] = Glyph(ch)], Cursor(k))
  IN  IF k.col < Cols THEN [drawn EXCEPT !.col = @ + 1] ELSE Newline(drawn)

GfxPutcNoHide(k, ch) ==
  ShowCursor(CASE ch = "cr"        -> [k EXCEPT !.col = 1]
               [] ch = "newline"   -> Newline(k)
               [] ch = "backspace" -> Backspace(k)
               [] OTHER            -> PutGlyph(k, ch))

GfxPutc(k, ch) ==
  LET h == HideCursor(k)
  IN  ShowCursor(CASE ch = "cr"        -> [h EXCEPT !.col = 1]
                   [] ch = "newline"   -> Newline(h)
                   [] ch = "backspace" -> Backspace(h)
                   [] OTHER            -> PutGlyph(h, ch))

\* console_putc_unlocked; what the serial line shows is not kept.
Putc(k, ch) == IF "graphics" \in k.mode /\ k.attached THEN GfxPutc(k, ch) ELSE k

\* console_write_unlocked
Write(k, text) ==
  LET after[i \in 0 .. Len(text)] == IF i = 0 THEN k ELSE Putc(after[i - 1], text[i])
  IN  after[Len(text)]

SetModeNoFlush(k, mode, ok) ==
  LET m == IF k.attached THEN mode ELSE mode \ {"graphics"}
      n == [k EXCEPT !.mode = m]
  IN  IF "graphics" \in m THEN ShowCursor(n) ELSE HideCursor(n)

SetMode(k, mode, ok) ==
  LET m == IF k.attached THEN mode ELSE mode \ {"graphics"}
      n == [k EXCEPT !.mode = m]
  IN  IF "graphics" \in m THEN Flush(ShowCursor(n), ok) ELSE HideCursor(n)

\* console_attach_graphics forgets what was dirty; without a frame buffer,
\* or without memory for the cells, the graphics sink is given up.
Attach(k, memory, ok) ==
  LET old == HideCursor(k)
      zero == [old EXCEPT !.attached = FALSE, !.row = 1, !.col = 1, !.visible = FALSE,
                 !.dirty = NoRect, !.cells = [p \in Cells |-> " "],
                 !.owed = @ \cup Dirty(old)]
      new == [zero EXCEPT !.attached = TRUE, !.fb = [p \in Pix |-> " "], !.foreign = {}]
  IN  IF k.gpu /\ memory THEN Flush(ShowCursor(MarkDirty(new, Pix)), ok)
      ELSE [zero EXCEPT !.mode = @ \ {"graphics"}]

(***************************************************************************)
(* The pointer.  under (ghost) is the part of the saved background that    *)
(* was not the console's, or changed before the pointer was drawn over it; *)
(* restoring puts back what is out of date there, and wherever the console *)
(* has drawn over the pointer.                                             *)
(***************************************************************************)
RestoreBackgroundTop(k, q) ==
  LET S == IF q.visible THEN Halves(q.at) \ {Mark(q.at)} ELSE {}
  IN  [k EXCEPT !.fb = [p \in Pix |-> IF p \in S THEN q.saved[p] ELSE @[p]],
                !.owed = @ \cup S]

RestoreBackground(k, q) ==
  LET S == IF q.visible THEN Halves(q.at) ELSE {}
  IN  [k EXCEPT !.fb = [p \in Pix |-> IF p \in S THEN q.saved[p] ELSE @[p]],
                !.foreign = (@ \ S) \cup {p \in S : k.fb[p] # "pointer" \/ p \in q.under},
                !.owed = @ \cup S]

SaveBackground(k, q, at) ==
  [q EXCEPT !.at = at, !.visible = FALSE, !.saved = [p \in Halves(at) |-> k.fb[p]],
            !.under = k.foreign \cap Halves(at)]

DrawPointer(k, q) ==
  [Paint(k, Halves(q.at), "pointer") EXCEPT !.foreign = @ \cup Halves(q.at),
                                           !.owed = @ \cup Halves(q.at)]

\* gfx_cursor_move without its last part, the drawing.
MoveSaves(k, q, at) == [SaveBackground(RestoreBackground(k, q), q, at) EXCEPT !.attached = TRUE]

Drawn(k, q) ==
  [q EXCEPT !.visible = TRUE,
            !.under = @ \cup {p \in Halves(q.at) : k.fb[p] # q.saved[p]}]

\* A picture over the whole frame buffer.  gclear and gpudemo leave the
\* pointer to be painted over; the windows and the desktop draw it again.
Picture(k) == [Paint(k, Pix, "picture") EXCEPT !.foreign = Pix, !.owed = Pix]

----------------------------------------------------------------------------
Both == {"serial", "graphics"}
Modes == {{"serial"}, {"graphics"}, Both}
Idle(x) == pc[x] = "run"
Shell == phase = "shell" /\ Idle("kernel") /\ ~ptr.moving
Reading == pc["kernel"] = "reading" /\ ~ptr.moving

\* (bound) The answers of the device.
Answers == IF c.others < MaxOthers THEN BOOLEAN ELSE {TRUE}

\* (bound) Drawing by others than the thread that prints.
Other == c.others < MaxOthers
Counted(k) == [k EXCEPT !.others = @ + 1]

NoLine == [buf |-> << >>, clean |-> TRUE]

Init ==
  /\ c = [gpu |-> FALSE, mode |-> {"serial"}, saved |-> {}, attached |-> FALSE,
          cells |-> [p \in Cells |-> " "], row |-> 1, col |-> 1, visible |-> FALSE,
          dirty |-> NoRect, fb |-> [p \in Pix |-> "none"], scr |-> [p \in Pix |-> "none"],
          foreign |-> Pix, owed |-> {}, others |-> 0]
  /\ ptr = [attached |-> FALSE, visible |-> FALSE, at |-> <<1, 1>>, saved |-> << >>,
            under |-> {}, moving |-> FALSE]
  /\ pc = [x \in Contexts |-> "run"]
  /\ line = NoLine
  /\ phase = "off"

(***************************************************************************)
(* kernel_main: the GPU is set up and shows its demo, or is given up at    *)
(* the first step that fails; the console is attached to it, once at boot  *)
(* and once more after the test that borrowed it; the demo's tasks print.  *)
(***************************************************************************)
InitRequests == <<"display_info", "create_2d", "attach_backing", "set_scanout",
                  "transfer_to_host", "flush">>

\* The device accepts the first n requests; the demo is drawn before the
\* last two, its flush.
GpuInit(n) ==
  /\ phase = "off" /\ phase' = "boot"
  /\ c' = IF n = Len(InitRequests) THEN GpuFlush([Picture(c) EXCEPT !.gpu = TRUE], Pix, TRUE)
          ELSE IF n >= 4 THEN Paint(c, Pix, "picture") ELSE c
  /\ UNCHANGED <<ptr, pc, line>>

BootAttach(memory, ok) ==
  /\ phase = "boot" /\ Idle("kernel")
  /\ c' = SetMode(Attach(c, memory, ok), Both, ok)
  /\ UNCHANGED <<ptr, pc, line, phase>>

StartDemo ==
  /\ phase = "boot" /\ Idle("kernel") /\ phase' = "demo"
  /\ UNCHANGED <<c, ptr, pc, line>>

StartShell ==
  /\ phase = "demo" /\ (\A x \in Contexts : Idle(x)) /\ phase' = "shell"
  /\ UNCHANGED <<c, ptr, pc, line>>

(***************************************************************************)
(* Printing.  kprintf releases its lock before console_flush takes its     *)
(* own; console_write and console_putc hold theirs over both parts.        *)
(***************************************************************************)
Kprintf(x, text) ==
  /\ Idle(x) /\ phase # "off" /\ (x \in Tasks => phase = "demo") /\ ~ptr.moving
  /\ c' = Write(c, text)
  /\ pc' = [pc EXCEPT ![x] = "unflushed"]
  /\ UNCHANGED <<ptr, line, phase>>

KprintfFlush(x, ok) ==
  /\ pc[x] = "unflushed"
  /\ c' = Flush(c, ok)
  /\ pc' = [pc EXCEPT ![x] = "run"]
  /\ UNCHANGED <<ptr, line, phase>>

\* An interrupt handler reports an unexpected interrupt or a configuration
\* change.
IrqPrint(text, ok) ==
  /\ phase \in {"demo", "shell"} /\ Other
  /\ c' = Counted(Flush(Write(c, text), ok))
  /\ line' = [line EXCEPT !.clean = pc["kernel"] # "reading"]
  /\ UNCHANGED <<ptr, pc, phase>>

\* A user program's SYS_WRITE_CONSOLE.
ConsoleWrite(text, ok) ==
  /\ Shell
  /\ c' = Flush(Write(c, text), ok)
  /\ UNCHANGED <<ptr, pc, line, phase>>

(***************************************************************************)
(* console_read_line, at the prompt.                                       *)
(***************************************************************************)
ReadLine ==
  /\ Shell
  /\ pc' = [pc EXCEPT !["kernel"] = "reading"]
  /\ line' = NoLine
  /\ UNCHANGED <<c, ptr, phase>>

ReadChar(ch, ok) ==
  /\ Reading
  /\ IF Len(line.buf) + 1 < MaxLine
     THEN /\ line' = [line EXCEPT !.buf = Append(@, ch)]
          /\ c' = Flush(Putc(c, ch), ok)
     ELSE UNCHANGED <<c, line>>
  /\ UNCHANGED <<ptr, pc, phase>>

ReadBackspace(ok) ==
  /\ Reading
  /\ IF line.buf # << >>
     THEN /\ line' = [line EXCEPT !.buf = Front(@)]
          /\ c' = Flush(Write(c, <<"backspace", " ", "backspace">>), ok)
     ELSE UNCHANGED <<c, line>>
  /\ UNCHANGED <<ptr, pc, phase>>

ReadReturn(ok) ==
  /\ Reading
  /\ c' = Flush(Putc(c, "newline"), ok)
  /\ pc' = [pc EXCEPT !["kernel"] = "run"]
  /\ line' = NoLine
  /\ UNCHANGED <<ptr, phase>>

(***************************************************************************)
(* The shell's commands for the console and the display.                   *)
(***************************************************************************)
SetOutputMode(mode, ok) ==
  /\ Shell
  /\ c' = SetMode(c, mode, ok)
  /\ UNCHANGED <<ptr, pc, line, phase>>

\* gclear and gpudemo
ClearGraphics(ok) ==
  /\ Shell /\ Other /\ c.gpu /\ c.attached
  /\ c' = Counted(GpuFlush(Picture(c), Pix, ok))
  /\ UNCHANGED <<ptr, pc, line, phase>>

\* gfx_cursor_refresh: a picture has just been drawn over the pointer.
Refresh(k, q) == IF q.attached THEN [k |-> DrawPointer(k, q), q |-> Drawn(k, SaveBackground(k, q, q.at))]
                 ELSE [k |-> k, q |-> q]

\* gui demo, gui files, gui view
GuiDraw(ok) ==
  LET r == Refresh(Picture(c), ptr)
  IN  /\ Shell /\ Other /\ c.gpu /\ c.attached
      /\ c' = Counted(SetMode(GpuFlush(r.k, Pix, ok), {"serial"}, ok))
      /\ ptr' = r.q
      /\ UNCHANGED <<pc, line, phase>>

\* The two parts of a move of the pointer, by the mouse while a line is
\* read or the desktop runs, or by the cursor command.
PointerMove(at) ==
  /\ Other /\ c.gpu /\ phase = "shell" /\ ~ptr.moving /\ pc["kernel"] # "unflushed"
  /\ pc["kernel"] = "run" => c.attached
  /\ c' = Counted(RestoreBackground(c, ptr))
  /\ ptr' = [MoveSaves(c, ptr, at) EXCEPT !.moving = TRUE]
  /\ UNCHANGED <<pc, line, phase>>

PointerDraw(ok) ==
  /\ ptr.moving
  /\ c' = GpuFlush(DrawPointer(c, ptr), Pix, ok)
  /\ ptr' = [Drawn(c, ptr) EXCEPT !.moving = FALSE]
  /\ UNCHANGED <<pc, line, phase>>

(***************************************************************************)
(* The desktop: it puts the console on the serial line, draws its frames,  *)
(* and puts the old mode back.  It moves the pointer without flushing, and *)
(* "desktop once" does not flush at all.                                   *)
(***************************************************************************)
Moved(k, q, at) ==
  LET m == MoveSaves(k, q, at)
      r == RestoreBackground(k, q)
  IN  [k |-> DrawPointer(r, m), q |-> Drawn(r, m)]

DesktopEnter(at) ==
  LET r == Moved(SetMode([c EXCEPT !.saved = c.mode], {"serial"}, TRUE), ptr, at)
  IN  /\ Shell /\ Other /\ c.gpu
      /\ c' = Counted(r.k) /\ ptr' = r.q
      /\ pc' = [pc EXCEPT !["kernel"] = "desktop"]
      /\ UNCHANGED <<line, phase>>

DesktopFrame(at, ok) ==
  LET r == Refresh(Picture(c), ptr)
      k == GpuFlush(r.k, Pix, ok)
      m == IF at = ptr.at THEN [k |-> k, q |-> r.q] ELSE Moved(k, r.q, at)
  IN  /\ Other /\ pc["kernel"] = "desktop" /\ ~ptr.moving
      /\ c' = Counted(m.k) /\ ptr' = m.q
      /\ UNCHANGED <<pc, line, phase>>

DesktopOnce(at, ok) ==
  LET r == Moved(SetMode(c, {"serial"}, TRUE), ptr, at)
      f == Refresh(Picture(r.k), r.q)
  IN  /\ Shell /\ Other /\ c.gpu
      /\ c' = Counted(SetMode(f.k, c.mode, ok)) /\ ptr' = f.q
      /\ UNCHANGED <<pc, line, phase>>

DesktopExit(ok) ==
  /\ pc["kernel"] = "desktop" /\ ~ptr.moving
  /\ c' = [SetMode(c, c.saved, ok) EXCEPT !.saved = {}]
  /\ pc' = [pc EXCEPT !["kernel"] = "run"]
  /\ UNCHANGED <<ptr, line, phase>>

Next ==
  \/ \E n \in 0 .. Len(InitRequests) : GpuInit(n)
  \/ \E memory \in BOOLEAN, ok \in Answers : BootAttach(memory, ok)
  \/ StartDemo
  \/ StartShell
  \/ \E x \in Contexts, text \in Texts : Kprintf(x, text)
  \/ \E x \in Contexts, ok \in Answers : KprintfFlush(x, ok)
  \/ \E text \in Texts, ok \in Answers : IrqPrint(text, ok)
  \/ \E text \in Texts, ok \in Answers : ConsoleWrite(text, ok)
  \/ ReadLine
  \/ \E ch \in Chars \cup {"control"}, ok \in Answers : ReadChar(ch, ok)
  \/ \E ok \in Answers : ReadBackspace(ok) \/ ReadReturn(ok)
  \/ \E mode \in Modes, ok \in Answers : SetOutputMode(mode, ok)
  \/ \E ok \in Answers : ClearGraphics(ok) \/ GuiDraw(ok)
  \/ \E at \in Cells : PointerMove(at)
  \/ \E ok \in Answers : PointerDraw(ok)
  \/ \E at \in Cells : DesktopEnter(at)
  \/ \E at \in Cells, ok \in Answers : DesktopFrame(at, ok) \/ DesktopOnce(at, ok)
  \/ \E ok \in Answers : DesktopExit(ok)

Spec == Init /\ [][Next]_vars

----------------------------------------------------------------------------
\* The statics keep their shape; the cursor stays inside the grid, and the
\* graphics sink is selected only with a frame buffer.
TypeOK ==
  /\ c.mode \subseteq Both /\ ("graphics" \in c.mode => c.attached)
  /\ c.attached => c.gpu
  /\ c.row \in 1 .. Rows /\ c.col \in 1 .. Cols
  /\ c.cells \in [Cells -> Chars \cup {" ", "?"}]
  /\ c.fb \in [Pix -> Chars \cup {" ", "?", "mark", "picture", "pointer", "none"}]
  /\ pc \in [Contexts -> {"run", "unflushed", "reading", "desktop"}]
  /\ Len(line.buf) < MaxLine

\* The frame buffer shows the character grid and one cursor mark, where the
\* cursor is, everywhere except where a picture or the pointer was drawn since:
\* hiding and showing the cursor around every change leaves no second mark
\* behind, and a pointer that moves on puts back exactly what was under it
\* unless the console wrote there meanwhile.
GridRendered ==
  /\ TypeOK
  /\ c.attached =>
       \A p \in Pix \ c.foreign :
         c.fb[p] = IF c.visible /\ p = Mark(Cursor(c)) THEN "mark" ELSE c.cells[CellOf(p)]

\* Whatever the display does not show yet is inside the dirty rectangle, or
\* was refused by the device, or was drawn by code that does not flush.
DirtyCovers == \A p \in Pix : c.scr[p] # c.fb[p] => p \in Dirty(c) \cup c.owed \/ ~c.gpu

\* When every kprintf has returned nothing is left to flush: the last flush
\* covers what other contexts printed between its two locks.
NothingPending ==
  /\ "graphics" \in c.mode /\ \A x \in Contexts : pc[x] # "unflushed"
  => c.dirty = NoRect

\* What is typed at the prompt and what is on the screen agree: the cells
\* before the cursor spell the line as console_read_line has it, across the
\* end of a row and a scroll, and the "\b \b" of an erased character undoes
\* exactly its echo (unless an interrupt handler has printed in between).
EchoMatches ==
  LET cursor == (c.row - 1) * Cols + c.col - 1
      n == Len(line.buf)
      At(i) == <<(i \div Cols) + 1, (i % Cols) + 1>>
  IN  (pc["kernel"] = "reading" /\ line.clean /\ "graphics" \in c.mode) =>
        \A k \in 1 .. n : cursor - k >= 0 =>
           c.cells[At(cursor - k)] = Glyph(line.buf[n + 1 - k])

\* The pointer leaves no trail: its image is nowhere but where it is.
NoTrail == \A p \in Pix : c.fb[p] = "pointer" => ptr.visible /\ p \in Halves(ptr.at)
==============================================================================
