----------------------------- MODULE FrontPanel -----------------------------
(***************************************************************************)
(* The front panel: one button and a screen of pages, warnings or a fatal  *)
(* message (software/src/display.c, sysmonDraw of sysmon.c, fatal, warn    *)
(* and the reset switch of util.c).  The main loop refreshes the screen;   *)
(* a call draws what has changed and one line of a page at most.           *)
(*                                                                         *)
(* A line of a page is the item that it names and, later, its value.  A    *)
(* time is drawn as two characters, of which the screen keeps the colour.  *)
(***************************************************************************)
EXTENDS Integers, Sequences, FiniteSetsExt

CONSTANTS
  FirstItem,    \* for each page of readings, the first one that it shows
  Lines,        \* and how many lines it has
  Messages,     \* messages of warnings: records of their rows and bytes
  WarningRows,  \* rows for warnings
  cbufSize,     \* bytes that are kept of them
  MaxMessages,  \* entries of msgs
  Garbage,      \* uninitialized strings
  MaxTime       \* bound: the last second that the clock shows

STARTUP == 0
PAGES == 1
WARNING == 2
FATAL == 3
Unchanged == -1
pageFirst == 0
pageLast == 5
Readings == DOMAIN Lines    \* pages 1 to 3; page 4 is pageTargetInfo
ASSUME PanelAssumption ==
  /\ Readings = 1 .. 3
  /\ \A p \in Readings : Lines[p] \in Nat \ {0} /\ FirstItem[p] \in Int
  /\ Messages \subseteq [rows : Nat, bytes : Nat]
  /\ WarningRows \in Nat \ {0} /\ cbufSize \in Nat \ {0} /\ MaxMessages \in Nat \ {0}
  /\ Garbage \subseteq Int \X Int /\ MaxTime \in Nat

(* Time since the button was seen to change: up to 20 ms, up to 1 s, up to *)
(* 1200 s, and more.                                                       *)
Bouncing == 0
Steady == 1
Long == 2
Idle1200 == 3

VARIABLES
  button, swtch,   \* whether the button and the reset switch are pressed
  time,            \* the second, 0 when it is not known
  panel,           \* the static variables of display.c, sysmon.c, util.c
  screen
panelVars == <<button, swtch, time, panel, screen>>

Blank == -1
Cell == [char |-> Blank, colour |-> "black"]
Empty == [names |-> {}, values |-> {}, shown |-> <<>>]
NotPushed == FALSE
WasPushed == TRUE
PanelAtBoot ==
  [seen |-> FALSE, age |-> Bouncing, wasPressed |-> FALSE, blanked |-> FALSE,
   mode |-> STARTUP, newPage |-> pageFirst, page |-> pageLast,
   naming |-> TRUE, row |-> 0, item |-> 0, drawnPage |-> -1,
   stored |-> <<>>, bytes |-> 0, rows |-> 0,
   then |-> -1, wasBad |-> FALSE, old |-> <<Blank, Blank>>, wiped |-> FALSE, started |-> FALSE,
   resetWasPushed |-> WasPushed, pushed |-> FALSE, pushAge |-> 0, released |-> FALSE]
ScreenAtBoot == [body |-> Empty, line |-> <<Cell, Cell>>, lit |-> TRUE]
PanelInit == /\ button = FALSE /\ swtch \in BOOLEAN /\ time = 0
             /\ panel = PanelAtBoot /\ screen = ScreenAtBoot
----------------------------------------------------------------------------
(* sysmonDraw: names first and then values, over and over; from the first  *)
(* name again when the page or the screen is new.                          *)
StartedPage(p, page) ==
  [p EXCEPT !.naming = TRUE, !.row = 0, !.item = FirstItem[page], !.drawnPage = page]
RestartedForPage(p, page, redraw) == IF p.drawnPage # page THEN StartedPage(p, page) ELSE p
Restarted(p, page, redraw) ==
  IF redraw \/ p.drawnPage # page THEN StartedPage(p, page) ELSE p
Advanced(p, page) ==
  IF p.row + 1 >= Lines[page]
  THEN [p EXCEPT !.row = 0, !.item = FirstItem[page], !.naming = FALSE]
  ELSE [p EXCEPT !.row = @ + 1, !.item = @ + 1]
DrawnLine(body, p) ==
  LET line == [row |-> p.row, item |-> p.item]
  IN  IF p.naming THEN [body EXCEPT !.names = @ \cup {line}]
      ELSE [body EXCEPT !.values = {v \in @ : v.row # p.row} \cup {line}]

(* drawTime.  When the time is not good, what is drawn is an uninitialized *)
(* string.  Only the characters that differ from those drawn last are      *)
(* drawn, all of them when the colour is to change or the screen is new.   *)
Digits(t) == <<t \div 2, t % 2>>
SameColour(p, bad) == TRUE
KeepsColour(p, bad) == bad = p.wasBad
LineDrawn(line, old, str, all, colour) ==
  [i \in 1 .. 2 |-> IF all \/ str[i] # old[i] THEN [char |-> str[i], colour |-> colour]
                    ELSE line[i]]
TimeDrawn(p, line, redraw, bad, str) ==
  LET all == redraw \/ ~KeepsColour(p, bad)
      due == all \/ time # p.then
      q == [p EXCEPT !.wasBad = bad]
  IN  IF due THEN [p |-> [q EXCEPT !.then = time, !.old = str, !.wiped = @ /\ ~all],
                   line |-> LineDrawn(line, p.old, str, all, IF bad THEN "red" ELSE "white")]
      ELSE [p |-> q, line |-> line]

(* The beginning of displayRefresh: the button is debounced, and blanks    *)
(* the screen when it has not been pressed for long.                       *)
Debounced(p) ==
  LET q == IF button # p.seen THEN [p EXCEPT !.seen = button, !.age = Bouncing] ELSE p
      pressed == IF q.age > Bouncing THEN button ELSE q.wasPressed
  IN  [q EXCEPT !.wasPressed = pressed, !.blanked = @ \/ (~pressed /\ q.age = Idle1200)]
NewPress(p) == Debounced(p).wasPressed /\ ~p.wasPressed

(* A long press brings the first page, whatever mode is asked for.         *)
WithMode(p, newMode) ==
  LET long == p.wasPressed /\ p.age >= Long
      wanted == IF long THEN PAGES ELSE newMode
      next == IF long \/ p.newPage = pageFirst THEN pageFirst + 1 ELSE p.newPage
      mode == IF wanted = Unchanged THEN p.mode ELSE wanted
  IN  [p EXCEPT !.mode = mode, !.newPage = next,
                !.page = IF mode = PAGES THEN next ELSE IF mode # p.mode THEN pageLast ELSE @]

(* A press that was noticed lights the screen, or else turns the page.     *)
Turned(p) == IF p.newPage + 1 >= pageLast THEN pageFirst ELSE p.newPage + 1
LeftDark(p) == [p EXCEPT !.newPage = Turned(p)]
Pressed(p) == IF p.blanked THEN [p EXCEPT !.blanked = FALSE] ELSE [p EXCEPT !.newPage = Turned(p)]

(* displayRefresh.  due: it is time for the next line.                     *)
Refresh(newMode, due, bad, str) ==
  LET p == Debounced(panel)
      q == WithMode(p, newMode)
      redraw == q.mode # p.mode \/ q.page # p.page
      body == IF redraw THEN Empty ELSE screen.body
      t == TimeDrawn(q, screen.line, redraw, bad, str)
      r == Restarted(t.p, q.page, redraw)
      draws == q.mode = PAGES /\ q.page \in Readings /\ (due \/ redraw)
      done == CASE q.mode = FATAL -> [p |-> q, body |-> body, line |-> screen.line]
                [] q.mode # FATAL /\ draws ->
                     [p |-> Advanced(r, q.page), body |-> DrawnLine(body, r), line |-> t.line]
                [] q.mode = WARNING /\ redraw ->
                     [p |-> t.p, body |-> [body EXCEPT !.shown = q.stored], line |-> t.line]
                [] OTHER -> [p |-> t.p, body |-> body, line |-> t.line]
      end == IF NewPress(panel) THEN Pressed(done.p) ELSE done.p
  IN  [panel |-> end,
       screen |-> [body |-> done.body, line |-> done.line, lit |-> ~end.blanked]]
Strings(bad) == IF bad THEN Garbage ELSE {Digits(time)}
Refreshes(newMode, due) ==
  UNION {{Refresh(newMode, due, bad, str) : str \in Strings(bad)} :
           bad \in IF time = 0 THEN {TRUE} ELSE BOOLEAN}

displayUpdate(due) ==
  /\ panel.started
  /\ \E r \in Refreshes(Unchanged, due) : panel' = r.panel /\ screen' = r.screen
  /\ UNCHANGED <<button, swtch, time>>

(* displayShowWarning.  The messages are kept for the next time that the   *)
(* screen is new: the last one may have been cut.                          *)
Full(p) == p.bytes >= cbufSize \/ Len(p.stored) >= MaxMessages \/ p.rows >= WarningRows
NeverFull(p) == FALSE
Emptied(p) == IF Full(p) THEN [p EXCEPT !.stored = <<>>, !.bytes = 0, !.rows = 0] ELSE p
Stored(p, m) ==
  [p EXCEPT !.stored = Append(@, m),
            !.bytes = Min({cbufSize, @ + m.bytes}), !.rows = Min({WarningRows, @ + m.rows})]
WithWarning(r, m) ==
  LET e == Emptied(r.panel)
      kept == IF e.stored = <<>> THEN <<>> ELSE r.screen.body.shown
  IN  /\ panel' = Stored(e, m)
      /\ screen' = [r.screen EXCEPT !.body.shown = Append(kept, m)]
warn(m) ==
  /\ panel.mode # FATAL
  /\ \E r \in Refreshes(WARNING, FALSE) :
       WithWarning(IF panel.mode = WARNING THEN [panel |-> panel, screen |-> screen] ELSE r, m)
  /\ UNCHANGED <<button, swtch, time>>

(* Before the main loop: a line of text where the time is, and pages       *)
(* unless there is a warning; or a fatal message.                          *)
displayShowStatusLine ==
  /\ ~panel.started /\ screen' = [screen EXCEPT !.line = <<Cell, Cell>>]
  /\ panel' = [panel EXCEPT !.wiped = TRUE] /\ UNCHANGED <<button, swtch, time>>
Begin(newMode) ==
  /\ ~panel.started
  /\ \E r \in Refreshes(newMode, FALSE) :
       panel' = [r.panel EXCEPT !.started = TRUE] /\ screen' = r.screen
  /\ UNCHANGED <<button, swtch, time>>
BeginLoop == Begin(IF panel.mode = STARTUP THEN PAGES ELSE Unchanged)
displayShowFatal == Begin(FATAL)

(* checkForReset, and the end of the 60 s of a fatal message.              *)
resetFPGA ==
  /\ panel' = PanelAtBoot /\ screen' = ScreenAtBoot
  /\ time' = 0 /\ UNCHANGED <<button, swtch>>
NewPush == swtch /\ ~panel.resetWasPushed
PushIsLong == swtch /\ ~NewPush /\ panel.pushed /\ panel.pushAge > 0
checkForReset ==
  /\ panel.started
  /\ \/ ~PushIsLong
        /\ panel' = [panel EXCEPT !.resetWasPushed = swtch, !.released = @ \/ ~swtch,
                                  !.pushed = @ \/ NewPush, !.pushAge = IF NewPush THEN 0 ELSE @]
        /\ UNCHANGED <<button, swtch, time, screen>>
     \/ PushIsLong /\ resetFPGA
FatalTimesOut == panel.started /\ panel.mode = FATAL /\ resetFPGA

(* The world: fingers, seconds, and the time since a change.               *)
World ==
  \/ button' = ~button /\ UNCHANGED <<swtch, time, panel, screen>>
  \/ swtch' = ~swtch /\ UNCHANGED <<button, time, panel, screen>>
  \/ time < MaxTime /\ time' = time + 1 /\ UNCHANGED <<button, swtch, panel, screen>>
  \/ /\ panel.age < Idle1200 \/ panel.pushAge = 0
     /\ panel' = [panel EXCEPT !.age = Min({@ + 1, Idle1200}), !.pushAge = 1]
     /\ UNCHANGED <<button, swtch, time, screen>>

PanelNext ==
  \/ \E due \in BOOLEAN : displayUpdate(due)
  \/ \E m \in Messages : warn(m)
  \/ displayShowStatusLine \/ BeginLoop \/ displayShowFatal
  \/ checkForReset \/ FatalTimesOut \/ World
PanelSpec == PanelInit /\ [][PanelNext]_panelVars
----------------------------------------------------------------------------
(* What is kept of the warnings fits, though bytes, messages and rows run  *)
(* out at different times.                                                 *)
PanelTypeOK ==
  /\ panel.newPage \in pageFirst .. pageLast - 1 /\ panel.page \in 1 .. pageLast
  /\ Len(panel.stored) <= MaxMessages /\ panel.bytes <= cbufSize

(* A page shows its own readings, each beside its name, whatever was on    *)
(* the screen before and wherever the drawing had come to.                 *)
PageIsItsOwn ==
  panel.mode = PAGES =>
    /\ screen.body.values \subseteq screen.body.names
    /\ \A n \in screen.body.names :
         panel.page \in Readings /\ n.item = FirstItem[panel.page] + n.row

(* The warnings on the screen are those that were given since the screen   *)
(* was last full, also when pages were looked at in between.               *)
WarningsAreKept == panel.mode = WARNING => screen.body.shown = panel.stored

(* The time that is shown is one time, in one colour; once a status line   *)
(* has been erased it is not until the next full drawing (display.c:514).  *)
TimeIsWhole ==
  panel.then > 0 /\ ~panel.wasBad /\ ~panel.wiped /\ panel.mode # FATAL =>
    screen.line = [i \in 1 .. 2 |-> [char |-> Digits(panel.then)[i], colour |-> "white"]]

(* A press that was noticed has lit the screen.                            *)
PressLights == panel.wasPressed => screen.lit

(* The switch that selects recovery mode at power up does not restart the  *)
(* board when it is held: it has to be let go first.                       *)
RecoveryHolds == [][panel.started /\ ~panel'.started /\ panel.mode # FATAL => panel.released]_panelVars

(* Whatever is asked of the panel in any order, the screen shows what it   *)
(* stands for.                                                             *)
ScreenIsTrue == PageIsItsOwn /\ WarningsAreKept /\ TimeIsWhole /\ PressLights
=============================================================================
