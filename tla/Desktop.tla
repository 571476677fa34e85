------------------------------- MODULE Desktop -------------------------------
(***************************************************************************)
(* The desktop: its windows in stacking order, the one modal alert, the    *)
(* registry of running application instances and their private states, and *)
(* the shell commands that start it, from the prompt or from a Terminal    *)
(* window inside it (src/src/desktop, src/src/kernel/shell_core.c).        *)
(*                                                                         *)
(* The handlers call each other in one thread, so each event popped from   *)
(* the input queue is one step; they are operators on the record d of the  *)
(* C statics they change.  A Terminal that runs "desktop" suspends the     *)
(* handler it runs in: depth counts the desktop_run calls on the call      *)
(* stack.  Positions are abstracted to what the hit tests can answer:      *)
(* any window that contains a point of the screen may be the topmost one   *)
(* under the cursor.  desktop_open_custom_window, desktop_open_app_window  *)
(* and text_editor_app_launch_path have no caller and are left out.        *)
(***************************************************************************)
EXTENDS Naturals, FiniteSets, SequencesExt

CONSTANTS
  MaxWindows,     \* DESKTOP_MAX_WINDOWS
  MaxInstances,   \* DESKTOP_REGISTRY_MAX_INSTANCES, also each app's states
  Apps,           \* the registered applications a user starts
  OutputModes,    \* what the console command can select, sets of sinks
  InputModes,     \* what the input command can select: is the keyboard on
  MaxId,          \* bound on the window ids handed out
  MaxDepth,       \* bound on desktop_run calls on the stack
  MaxOff          \* bound on windows dragged off the left edge at a time, while
                  \* no instance has lost its windows

ASSUME DesktopAssumption ==
  /\ MaxWindows \in Nat /\ MaxWindows >= 2
  /\ MaxInstances \in Nat \ {0}
  /\ Apps \subseteq {"terminal", "editor", "files"} /\ "editor" \in Apps
  /\ InputModes \subseteq BOOLEAN
  /\ OutputModes \subseteq SUBSET {"serial", "graphics"}
  /\ MaxId \in Nat /\ MaxId >= 2
  /\ MaxDepth \in Nat \ {0}
  /\ MaxOff \in Nat

VARIABLES
  d,        \* desktop_state, desktop_registry_instances, the apps' states
  con,      \* console_mode, input_mode_flags and the capture callback
  depth,    \* desktop_run calls on the call stack, the first by the prompt
  leaving,  \* the innermost desktop_run has left its event loop
  entry     \* (ghost) the console modes when the prompt's command began

vars == <<d, con, depth, leaving, entry>>

Slots == 1..MaxInstances
Idle == [app |-> "none", count |-> 0, data |-> 0]
Running(x) == {s \in Slots : x.inst[s].app # "none"}

(***************************************************************************)
(* Windows.  The sequence d.wins is the array in stacking order, topmost   *)
(* last; d.focus is focused_window_index, counted from 1.                  *)
(***************************************************************************)
Window(id, owner, alert) ==
  [id |-> id, owner |-> owner, alert |-> alert, min |-> FALSE, left |-> FALSE]

IndexOf(x, id) == IF id = 0 THEN 0 ELSE SelectInSeq(x.wins, LAMBDA w : w.id = id)

FocusedId(x) == IF x.focus <= Len(x.wins) THEN x.wins[x.focus].id ELSE 0

\* desktop_window_contains_point compares as unsigned: a window whose left
\* edge is off the screen contains no point of it.
Hittable(x) == {x.wins[i].id : i \in {j \in DOMAIN x.wins : ~x.wins[j].min /\ ~x.wins[j].left}}

FocusWindow(x, id) ==
  LET i == IndexOf(x, id)
  IN  IF i = 0 THEN x ELSE [x EXCEPT !.wins[i].min = FALSE, !.focus = i]

BringToFront(x, id) ==
  LET i == IndexOf(x, id)
  IN  IF i = 0 THEN x
      ELSE [x EXCEPT !.wins = Append(RemoveAt(@, i), [@[i] EXCEPT !.min = FALSE]),
                     !.focus = Len(x.wins)]

Raise(x, id) == BringToFront(FocusWindow(x, id), id)

RecomputeFocus(x) ==
  LET visible == {i \in DOMAIN x.wins : ~x.wins[i].min}
  IN  [x EXCEPT !.focus = IF x.wins = << >> THEN 1
                          ELSE IF visible = {} THEN Len(x.wins) ELSE Max(visible)]

\* The application that handles the events of a window.
AppOf(x, id) ==
  LET i == IndexOf(x, id)
  IN  IF i = 0 THEN "none"
      ELSE IF x.wins[i].owner = 0 THEN "none" ELSE x.inst[x.wins[i].owner].app

NextWindowId(x) == Max({0} \cup {x.wins[i].id : i \in DOMAIN x.wins}) + 1

NextFocusable(x) ==
  LET n == Len(x.wins)
      At(k) == ((x.focus - 1 + k) % n) + 1
      ks == {k \in 1..n : ~x.wins[At(k)].min}
  IN  IF n = 0 THEN 0
      ELSE IF ks = {} THEN FocusedId(x) ELSE x.wins[At(Min(ks))].id

(***************************************************************************)
(* The registry.  Each app keeps an array of states of its own; data is    *)
(* the instance's index in it, 0 before one is allocated.                  *)
(***************************************************************************)
AllocState(x, app) == Min(Slots \ x.states[app])

CloseApp(x, i) == [x EXCEPT !.states[i.app] = @ \ {i.data}]

AllocInstance(x) == Min(Slots \ Running(x))

StopInstance(x, s) ==
  IF x.inst[s].app = "none" THEN x
  ELSE [CloseApp(x, x.inst[s]) EXCEPT !.inst[s] = Idle]

WindowClosed(x, s) ==
  IF s = 0 THEN x
  ELSE IF x.inst[s].app = "none" THEN x
  ELSE IF x.inst[s].count <= 1 THEN StopInstance(x, s)
  ELSE [x EXCEPT !.inst[s].count = @ - 1]

DestroyWindowKeepsDrag(x, id) ==
  LET i == IndexOf(x, id)
      gone == [x EXCEPT !.wins = RemoveAt(@, i)]
  IN  IF i = 0 THEN x ELSE RecomputeFocus(WindowClosed(gone, x.wins[i].owner))

\* The applications ignore the close notice that comes first.
DestroyWindow(x, id) ==
  LET i == IndexOf(x, id)
      gone == [x EXCEPT !.wins = RemoveAt(@, i), !.drag = 0]
  IN  IF i = 0 THEN x ELSE RecomputeFocus(WindowClosed(gone, x.wins[i].owner))

MinimizeWindowKeepsFocus(x, id) ==
  LET i == IndexOf(x, id)
  IN  IF i = 0 THEN x ELSE [x EXCEPT !.wins[i].min = TRUE, !.drag = 0]

MinimizeWindow(x, id) ==
  LET i == IndexOf(x, id)
  IN  IF i = 0 THEN x ELSE RecomputeFocus([x EXCEPT !.wins[i].min = TRUE, !.drag = 0])

\* Maximised or restored, the window ends on the screen: the position it is
\* restored to was saved when its control was hit there.
ToggleMaximizeWindow(x, id) ==
  LET i == IndexOf(x, id)
  IN  IF i = 0 THEN x
      ELSE [x EXCEPT !.wins[i].left = FALSE, !.wins[i].min = FALSE, !.drag = 0]

(***************************************************************************)
(* desktop_init forgets every window, whoever owns it; the registry is not *)
(* told.  orphans (ghost) are the instances that lose windows that way.    *)
(***************************************************************************)
Layout == <<Window(1, 0, FALSE), Window(2, 0, FALSE)>>

InputReset(x) == [x EXCEPT !.focus = 1, !.button = FALSE]

DesktopInit(x) ==
  InputReset([x EXCEPT !.initialized = TRUE, !.wins = Layout, !.modal = 0, !.drag = 0,
                       !.launcher = FALSE, !.active = FALSE,
                       !.saved = [out |-> {}, keys |-> FALSE],
                       !.orphans = {s \in Running(x) : x.inst[s].count > 0}])

EnsureInit(x) == IF x.initialized THEN x ELSE DesktopInit(x)

OpenAppInstanceWindow(x, s) ==
  LET y == EnsureInit(x)
      id == NextWindowId(y)
  IN  IF Len(y.wins) >= MaxWindows THEN [d |-> y, ok |-> FALSE]
      ELSE [d |-> Raise([y EXCEPT !.wins = Append(@, Window(id, s, FALSE)),
                                  !.inst[s].count = @ + 1], id),
            ok |-> TRUE]

ShowAlertAnew(x) ==
  LET y == EnsureInit(x)
      id == NextWindowId(y)
  IN  IF Len(y.wins) >= MaxWindows THEN y
      ELSE [Raise([y EXCEPT !.wins = Append(@, Window(id, 0, TRUE)), !.modal = id], id)
              EXCEPT !.drag = 0, !.launcher = FALSE]

ShowAlert(x) ==
  LET y == EnsureInit(x)
      z == IF IndexOf(y, y.modal) = 0 THEN [y EXCEPT !.modal = 0] ELSE y
      id == NextWindowId(z)
      Quiet(w) == [w EXCEPT !.drag = 0, !.launcher = FALSE]
  IN  IF z.modal # 0
      THEN Quiet(Raise(z, z.modal))
      ELSE IF Len(z.wins) >= MaxWindows THEN z
      ELSE Quiet(Raise([z EXCEPT !.wins = Append(@, Window(id, 0, TRUE)), !.modal = id], id))

CloseModal(x) == DestroyWindow([x EXCEPT !.modal = 0], x.modal)

\* The editor tells the user of a file it could not open or read before its
\* own window opens, and opens it all the same.
LoadFile(x, readable) == IF readable THEN x ELSE ShowAlert(x)

StartApp(x, s, app, readable) ==
  LET k == AllocState(x, app)
      y == [x EXCEPT !.states[app] = @ \cup {k}]
      z == IF app = "editor" THEN LoadFile(y, readable) ELSE y
  IN  IF x.states[app] = Slots THEN [d |-> x, ok |-> FALSE]
      ELSE OpenAppInstanceWindow([z EXCEPT !.inst[s].data = k], s)

LaunchAppNoStop(x, app, readable) ==
  LET s == AllocInstance(x)
      r == StartApp([x EXCEPT !.inst[s] = [Idle EXCEPT !.app = app]], s, app, readable)
  IN  IF Running(x) = Slots THEN [d |-> x, ok |-> FALSE] ELSE r

LaunchApp(x, app, readable) ==
  LET s == AllocInstance(x)
      r == StartApp([x EXCEPT !.inst[s] = [Idle EXCEPT !.app = app]], s, app, readable)
  IN  IF Running(x) = Slots THEN [d |-> x, ok |-> FALSE]
      ELSE IF r.ok /\ r.d.inst[s].count > 0 THEN r
      ELSE [d |-> StopInstance(r.d, s), ok |-> FALSE]

\* What desktop_open_file can find at a path: a text file the editor can or
\* cannot read, or anything it only reports (no such file, a directory, an
\* extension it does not know).
Files == {"text", "unreadable", "refused"}

OpenFile(x, file) ==
  LET r == LaunchApp(x, "editor", file = "text")
  IN  IF file = "refused" THEN ShowAlert(x)
      ELSE IF r.ok THEN r.d ELSE ShowAlert(r.d)

(***************************************************************************)
(* What the input queue can hold, and desktop_input_route.  A "text" key   *)
(* is one input_translate_keypress knows.  A point tells which window is   *)
(* topmost under the cursor, whether it is on the taskbar or the launcher's*)
(* menu, which part of the window it is on, and whether it is on the Save  *)
(* button of an editor, as it is when the click is passed on: after a hit  *)
(* on the maximise control that is where the resized window has it.        *)
(***************************************************************************)
Inputs == [type : {"char"}, code : {"esc", "tab", "newline", "text"}, pressed : {TRUE}]
          \cup [type : {"key"}, pressed : BOOLEAN,
                code : {"esc", "enter", "tab", "f1", "mouse", "arrow", "text", "other"}]

EnterKey == [type |-> "key", code |-> "enter", pressed |-> TRUE]

Point(w, spot, of, part, save) ==
  [win |-> w, spot |-> spot, of |-> of, part |-> part, save |-> save]

NoPoint == Point(0, "none", "none", "body", FALSE)

\* What the hit tests can find: a window's button on the taskbar (alerts
\* have none), an item of the menu while the launcher is open, the OK button
\* of an alert, a part of a window, the Save button of an editor.
TaskbarButtons(x) == {x.wins[i].id : i \in {j \in DOMAIN x.wins : ~x.wins[j].alert}}
MenuItems(x) == IF x.launcher THEN Apps ELSE {}
OkSpots(x) == IF x.modal # 0 THEN {"ok"} ELSE {}
Controls == {"close", "min", "max"}
SaveHits(x, w) == IF AppOf(x, w) = "editor" THEN BOOLEAN ELSE {FALSE}

PointsOn(x, w) ==
  {Point(w, spot, "none", "body", FALSE) : spot \in {"launcher"} \cup OkSpots(x)}
  \cup {Point(w, "item", a, "body", FALSE) : a \in MenuItems(x)}
  \cup {Point(w, "button", id, "body", FALSE) : id \in TaskbarButtons(x)}

PointsIn(x, w) ==
  UNION {{Point(w, "none", "none", part, save) : part \in Controls \cup {"title", "body"}} :
         save \in SaveHits(x, w)}

Points(x) ==
  {NoPoint, Point(0, "taskbar", "none", "body", FALSE)}
  \cup (UNION {PointsOn(x, w) : w \in {0} \cup Hittable(x)})
  \cup (UNION {PointsIn(x, w) : w \in Hittable(x)})

\* The cursor positions worth telling apart for an input: only a serial
\* newline moves the focus to the window under the cursor before the taskbar
\* is looked at, and no application acts on a button release.
PointsFor(x, in, keys) ==
  IF in.type = "char" /\ in.code = "newline" THEN Points(x)
  ELSE IF (in.code = "mouse" /\ in.pressed) \/ (in = EnterKey /\ ~keys)
  THEN {pt \in Points(x) : pt.spot # "none" => pt.win = 0}
  ELSE {NoPoint}

Event(type, code, target) == [type |-> type, code |-> code, target |-> target]
NoEvent == Event("none", "none", 0)

\* A key event that input_event_to_char turns into a character: pressed,
\* translatable, and from a source the input mode allows.
IsChar(in, keys) == in.pressed /\ in.code \in {"enter", "text"} /\ keys

CharOfKey(code) == IF code = "enter" THEN "newline" ELSE code

RouteChar(x, in, pt) ==
  LET y == IF pt.win # 0 THEN [x EXCEPT !.focus = IndexOf(x, pt.win)] ELSE x
  IN  IF in.code = "esc" /\ x.modal = 0 THEN [d |-> x, ev |-> Event("exit", "esc", 0)]
      ELSE IF in.code = "tab" THEN [d |-> x, ev |-> Event("char", "tab", NextFocusable(x))]
      ELSE IF in.code = "newline"
      THEN [d  |-> [y EXCEPT !.button = ~@],
            ev |-> Event(IF x.button THEN "up" ELSE "down", "newline", pt.win)]
      ELSE [d |-> x, ev |-> Event("char", in.code, FocusedId(x))]

RouteKey(x, in, pt, keys) ==
  IF in.code = "esc" /\ x.modal = 0
  THEN [d |-> x, ev |-> IF in.pressed THEN Event("exit", "esc", 0) ELSE NoEvent]
  ELSE IF IsChar(in, keys)
  THEN [d |-> x, ev |-> Event("char", CharOfKey(in.code), FocusedId(x))]
  ELSE IF in.code \in {"enter", "mouse"}
  THEN [d  |-> [x EXCEPT !.button = in.pressed],
        ev |-> Event(IF in.pressed THEN "down" ELSE "up", in.code, pt.win)]
  ELSE IF ~in.pressed
  THEN [d |-> x, ev |-> IF x.focus <= Len(x.wins) THEN Event("release", in.code, FocusedId(x))
                        ELSE NoEvent]
  ELSE IF in.code = "tab" THEN [d |-> x, ev |-> Event("key", "tab", NextFocusable(x))]
  ELSE IF in.code = "arrow" THEN [d |-> x, ev |-> Event("move", "arrow", FocusedId(x))]
  ELSE [d |-> x, ev |-> Event("key", in.code, FocusedId(x))]

Route(x, in, pt, keys) ==
  IF in.type = "char" THEN RouteChar(x, in, pt) ELSE RouteKey(x, in, pt, keys)

(***************************************************************************)
(* desktop_handle_event.  Dispatch is what the application whose window it *)
(* is does with an event, apart from a Terminal's command line (below) and *)
(* the text an application keeps to itself.  desktop_input_route passes    *)
(* none of Up, Down, Enter and Esc on as keys (arrows move the cursor,     *)
(* Enter is a character or a click, Esc leaves the desktop), so what the   *)
(* launcher and the Files window would do with them never happens.         *)
(***************************************************************************)
Dispatch(x, ev, pt) ==
  IF /\ AppOf(x, ev.target) = "editor" /\ ev.type = "down"
     /\ pt.save /\ pt.part \in {"max", "body"}
  THEN ShowAlert(x) ELSE x

HandleModalEvent(x, ev, pt) ==
  IF \/ ev.type = "key" /\ ev.code = "esc"
     \/ ev.type = "char" /\ ev.code \in {"newline", "esc"}
  THEN CloseModal(x)
  ELSE IF ev.type = "down"
  THEN LET y == Raise(x, x.modal) IN IF pt.spot = "ok" THEN CloseModal(y) ELSE y
  ELSE x

HandleWindowDown(x, ev, pt) ==
  LET y == [Raise(x, ev.target) EXCEPT !.launcher = FALSE]
      part == IF Last(y.wins).alert /\ pt.part \in Controls THEN "title" ELSE pt.part
  IN  CASE part = "close" -> DestroyWindow(y, ev.target)
        [] part = "min"   -> MinimizeWindow(y, ev.target)
        [] part = "max"   -> ToggleMaximizeWindow(y, ev.target)
        [] part = "title" -> [y EXCEPT !.drag = ev.target]
        [] OTHER          -> y

ToggleLauncher(x) == [x EXCEPT !.launcher = ~@]

HandleButtonDown(x, ev, pt) ==
  IF pt.spot = "launcher" THEN [ToggleLauncher(x) EXCEPT !.drag = 0]
  ELSE IF pt.spot = "item" /\ x.launcher
  THEN [LaunchApp(x, pt.of, TRUE).d EXCEPT !.launcher = FALSE, !.drag = 0]
  ELSE IF pt.spot = "button"
  THEN [Raise(x, pt.of) EXCEPT !.launcher = FALSE, !.drag = 0]
  ELSE IF ev.target # 0 THEN Dispatch(HandleWindowDown(x, ev, pt), ev, pt)
  ELSE IF pt.spot = "taskbar" THEN [x EXCEPT !.launcher = FALSE]
  ELSE [x EXCEPT !.launcher = FALSE, !.drag = 0]

HandleButtonUp(x, ev, pt) ==
  Dispatch([x EXCEPT !.button = FALSE, !.drag = 0], ev, pt)

\* The dragged window follows the cursor, and the clamp lets its left edge
\* leave the screen.
HandleMove(x, off) ==
  LET i == IndexOf(x, x.drag) IN IF i = 0 THEN x ELSE [x EXCEPT !.wins[i].left = off]

HandleKey(x, ev, pt) ==
  IF ev.type = "key" /\ ev.code = "f1" THEN ToggleLauncher(x)
  ELSE Dispatch(IF ev.type = "key" /\ ev.code = "tab" THEN Raise(x, ev.target) ELSE x,
                ev, pt)

HandleChar(x, ev, pt) ==
  Dispatch(IF ev.code = "tab" THEN Raise(x, ev.target) ELSE x, ev, pt)

HandleEventUnderAlert(x, ev, pt, off) ==
  IF IndexOf(x, x.modal) # 0 /\ ev.type # "down" THEN HandleModalEvent(x, ev, pt)
  ELSE CASE ev.type \in {"key", "release"} -> HandleKey(x, ev, pt)
         [] ev.type = "char" -> HandleChar(x, ev, pt)
         [] ev.type = "down" -> HandleButtonDown(x, ev, pt)
         [] ev.type = "up"   -> HandleButtonUp(x, ev, pt)
         [] ev.type = "move" -> HandleMove(x, off)
         [] OTHER            -> x

HandleEvent(x, ev, pt, off) ==
  IF IndexOf(x, x.modal) # 0 THEN HandleModalEvent(x, ev, pt)
  ELSE LET y == [x EXCEPT !.modal = 0]
       IN  CASE ev.type \in {"key", "release"} -> HandleKey(y, ev, pt)
             [] ev.type = "char" -> HandleChar(y, ev, pt)
             [] ev.type = "down" -> HandleButtonDown(y, ev, pt)
             [] ev.type = "up"   -> HandleButtonUp(y, ev, pt)
             [] ev.type = "move" -> HandleMove(y, off)
             [] OTHER            -> x

(***************************************************************************)
(* Entering and leaving, and the shell's desktop command, which starts     *)
(* with desktop_init whatever its argument is.                             *)
(***************************************************************************)
Modes == [out |-> con.out, keys |-> con.keys]

DesktopEnterSavesLate(x) ==
  InputReset([x EXCEPT !.saved = [out |-> {"serial"}, keys |-> TRUE],
                       !.active = TRUE, !.drag = 0])

DesktopEnter(x) ==
  InputReset([x EXCEPT !.saved = Modes, !.active = TRUE, !.drag = 0])

\* "once" enters, draws a frame and leaves, so it puts back the modes it
\* found; "state", and any other word, does nothing more.
RunDesktop(x, args) ==
  LET y == DesktopInit(x)
  IN  CASE args = "run"   -> DesktopEnter(y)
        [] args = "once"  -> [DesktopEnter(y) EXCEPT !.active = FALSE]
        [] args = "state" -> y

Args == {"run", "once", "state"}

Bounded(x) ==
  /\ \A i \in DOMAIN x.wins : x.wins[i].id <= MaxId
  /\ LET off == {i \in DOMAIN x.wins : x.wins[i].left}
     IN  Cardinality(off) <= MaxOff /\ (off # {} => x.orphans = {})

Init ==
  /\ d = [initialized |-> FALSE, wins |-> << >>, focus |-> 1, modal |-> 0, drag |-> 0,
          button |-> FALSE, launcher |-> FALSE, active |-> FALSE,
          saved |-> [out |-> {}, keys |-> FALSE],
          inst |-> [s \in Slots |-> Idle], states |-> [a \in Apps |-> {}],
          orphans |-> {}]
  /\ con \in [out : OutputModes, keys : InputModes, capture : {0}]
  /\ depth = 0 /\ leaving = FALSE
  /\ entry = [out |-> con.out, keys |-> con.keys, nested |-> FALSE]

(***************************************************************************)
(* The prompt (shell_run), while no desktop is on the stack.               *)
(***************************************************************************)
\* (bound) A session starts in modes the user has chosen.
PromptDesktop(args) ==
  /\ depth = 0 /\ con.out \in OutputModes /\ con.keys \in InputModes
  /\ d' = RunDesktop(d, args)
  /\ entry' = [out |-> con.out, keys |-> con.keys, nested |-> FALSE]
  /\ IF args = "run" THEN depth' = 1 /\ con' = [con EXCEPT !.out = {"serial"}, !.keys = TRUE]
     ELSE UNCHANGED <<depth, con>>
  /\ UNCHANGED leaving

PromptOpen(file) ==
  /\ depth = 0
  /\ d' = OpenFile(d, file)
  /\ Bounded(d')
  /\ UNCHANGED <<con, depth, leaving, entry>>

\* The console and input commands: each sets one of the modes.
ConsoleCommands == {[con EXCEPT !.out = out] : out \in OutputModes}
InputCommands == {[con EXCEPT !.keys = keys] : keys \in InputModes}
ModeCommands == ConsoleCommands \cup InputCommands

PromptMode(c) ==
  /\ depth = 0
  /\ con' = c
  /\ entry' = [out |-> c.out, keys |-> c.keys, nested |-> FALSE]
  /\ UNCHANGED <<d, depth, leaving>>

(***************************************************************************)
(* The innermost desktop_run pops an event.  It goes on doing so after a   *)
(* command run by the handler has made the desktop inactive, until the     *)
(* queue is empty; only the desktop_run that popped Escape stops at once.  *)
(***************************************************************************)
InLoop == depth > 0 /\ ~leaving

\* The event makes a Terminal execute its line.
IsTerminalLine(r) ==
  /\ r.ev.type = "char" /\ r.ev.code = "newline"
  /\ IndexOf(r.d, r.d.modal) = 0
  /\ AppOf(r.d, r.ev.target) = "terminal"

PopEvent(in, pt, off) ==
  LET r == Route(d, in, pt, con.keys)
  IN  /\ InLoop
      /\ r.ev.type # "exit" /\ ~IsTerminalLine(r)
      /\ d' = IF r.ev.type = "none" THEN r.d ELSE HandleEvent(r.d, r.ev, pt, off)
      /\ Bounded(d')
      /\ UNCHANGED <<con, depth, leaving, entry>>

DesktopExit(in) ==
  /\ InLoop
  /\ Route(d, in, NoPoint, con.keys).ev.type = "exit"
  /\ d' = [d EXCEPT !.active = FALSE]
  /\ con' = [con EXCEPT !.out = d.saved.out, !.keys = d.saved.keys]
  /\ leaving' = TRUE
  /\ UNCHANGED <<depth, entry>>

\* Only the keyboard's Enter reaches it as a character.
TerminalEnter == InLoop /\ IsTerminalLine(Route(d, EnterKey, NoPoint, con.keys))

\* The state of the Terminal that has the focus, where its output goes.
FocusedTerminal == d.inst[d.wins[d.focus].owner].data

TerminalDesktop(args) ==
  /\ TerminalEnter
  /\ d' = RunDesktop(d, args)
  /\ entry' = [entry EXCEPT !.nested = TRUE]
  /\ IF args = "run"
     THEN /\ depth < MaxDepth /\ depth' = depth + 1
          /\ con' = [out |-> {"serial"}, keys |-> TRUE, capture |-> FocusedTerminal]
     ELSE con' = [con EXCEPT !.capture = 0] /\ UNCHANGED depth
  /\ UNCHANGED leaving

TerminalOpen(file) ==
  /\ TerminalEnter
  /\ d' = OpenFile(d, file)
  /\ Bounded(d')
  /\ con' = [con EXCEPT !.capture = 0]
  /\ UNCHANGED <<depth, leaving, entry>>

TerminalMode(c) ==
  /\ TerminalEnter
  /\ con' = [c EXCEPT !.capture = 0]
  /\ UNCHANGED <<d, depth, leaving, entry>>

DesktopReturnCaptured ==
  /\ depth > 0 /\ ~d.active
  /\ depth' = depth - 1 /\ leaving' = FALSE
  /\ UNCHANGED <<d, con, entry>>

\* desktop_run returns, and with it shell_execute_line, which ends the
\* capture if a Terminal began it.
DesktopReturn ==
  /\ depth > 0 /\ ~d.active
  /\ depth' = depth - 1 /\ leaving' = FALSE
  /\ con' = IF depth > 1 THEN [con EXCEPT !.capture = 0] ELSE con
  /\ UNCHANGED <<d, entry>>

\* The left edges the clamp lets a moved window have: on the screen or not.
Offs(in) == IF in.code = "arrow" THEN BOOLEAN ELSE {FALSE}

Next ==
  \/ \E args \in Args : PromptDesktop(args)
  \/ \E file \in Files : PromptOpen(file)
  \/ \E c \in ModeCommands : PromptMode(c)
  \/ \E in \in Inputs : \E pt \in PointsFor(d, in, con.keys), off \in Offs(in) :
       PopEvent(in, pt, off)
  \/ \E in \in Inputs : DesktopExit(in)
  \/ \E args \in Args : TerminalDesktop(args)
  \/ \E file \in Files : TerminalOpen(file)
  \/ \E c \in ModeCommands : TerminalMode(c)
  \/ DesktopReturn

Spec == Init /\ [][Next]_vars

(***************************************************************************)
(* Properties                                                              *)
(***************************************************************************)
\* The statics keep their shape; desktop_state.windows never overflows.
TypeOK ==
  /\ Len(d.wins) <= MaxWindows
  /\ \A i \in DOMAIN d.wins :
        d.wins[i] \in [id : 1..MaxId, owner : Slots \cup {0}, alert : BOOLEAN,
                      min : BOOLEAN, left : BOOLEAN]
  /\ d.focus \in 1..MaxWindows /\ d.modal \in 0..MaxId /\ d.drag \in 0..MaxId
  /\ d.inst \in [Slots -> [app : Apps \cup {"none"}, count : 0..MaxWindows, data : {0} \cup Slots]]
  /\ d.states \in [Apps -> SUBSET Slots]
  /\ con.capture \in {0} \cup Slots
  /\ depth \in 0..MaxDepth /\ leaving \in BOOLEAN

WindowsOf(s) == {i \in DOMAIN d.wins : d.wins[i].owner = s}

\* Every window with an owner belongs to a running instance, every running
\* instance counts its windows right and has at least one, unless
\* desktop_init threw its windows away, and each has a state of its own in
\* its app's array with none left over: no event can reach an instance or a
\* state after it was freed, and none is lost, whichever of the steps of
\* opening a window or a file fails.
OwnersRun ==
  /\ TypeOK
  /\ \A i \in DOMAIN d.wins :
        d.wins[i].owner # 0 => d.wins[i].owner \in Running(d) \ d.orphans
  /\ \A s \in Running(d) \ d.orphans :
        d.inst[s].count = Cardinality(WindowsOf(s)) /\ d.inst[s].count > 0
  /\ \A a \in Apps :
        LET mine == {s \in Slots : d.inst[s].app = a}
        IN  /\ d.states[a] = {d.inst[s].data : s \in mine}
            /\ Cardinality(d.states[a]) = Cardinality(mine)

\* While some window is visible the focused one is, so typing never goes to
\* a window the user cannot see.
FocusVisible ==
  (\E i \in DOMAIN d.wins : ~d.wins[i].min)
    => d.focus <= Len(d.wins) /\ ~d.wins[d.focus].min

\* Window ids are distinct although the highest one is handed out again once
\* its window is gone, and a drag in progress moves a window that is still
\* there and visible, with the button held down and no alert open.
DragHeld ==
  /\ \A i, j \in DOMAIN d.wins : d.wins[i].id = d.wins[j].id => i = j
  /\ d.drag # 0 => /\ d.button /\ d.modal = 0
                   /\ \E i \in DOMAIN d.wins : d.wins[i].id = d.drag /\ ~d.wins[i].min

\* The modal window exists, is visible and is the only alert: an alert that
\* was not the modal one could never be dismissed, since it has no controls
\* and no taskbar button.
AlertIsModal ==
  /\ \A i \in DOMAIN d.wins : d.wins[i].alert <=> d.wins[i].id = d.modal
  /\ d.modal # 0 => \E i \in DOMAIN d.wins : d.wins[i].alert /\ ~d.wins[i].min

\* While an alert is open the windows under it neither appear, disappear,
\* move nor change state, and nothing is launched.
ModalHolds ==
  [][ (d.modal # 0 /\ depth > 0)
        => /\ d'.inst = d.inst
           /\ {w \in ToSet(d'.wins) : ~w.alert} = {w \in ToSet(d.wins) : ~w.alert} ]_d

\* Back at the prompt no Terminal captures the output, and unless the
\* desktop command was used inside the desktop the console and input modes
\* are those the session began with.
PromptRestored ==
  depth = 0 => /\ con.capture = 0
               /\ ~entry.nested => con.out = entry.out /\ con.keys = entry.keys

\* The output is captured only on behalf of a Terminal whose command is
\* still executing and whose instance and state are still allocated.
CaptureLive ==
  con.capture # 0 =>
    /\ depth > 1
    /\ \E s \in Running(d) : d.inst[s].app = "terminal" /\ d.inst[s].data = con.capture

=============================================================================
