------------------------------ MODULE EventLog ------------------------------
(***************************************************************************)
(* The event logger: a ring of events that the gateware writes             *)
(* (gateware/modules/evrLogger.v) and the tlog command of the console      *)
(* prints (cmdTLOG, software/src/console.c) until any key is read.         *)
(*                                                                         *)
(* An event is represented by its number; entry a of the ring has the      *)
(* last event with a number of that remainder, or what was there at boot.  *)
(***************************************************************************)
EXTENDS Integers

CONSTANTS
  RingSize,   \* entries of the ring: addrMask + 1
  MaxLogged   \* bound: events that are logged

ASSUME RingAssumption == RingSize \in Nat \ {0}

VARIABLE tl   \* the ring and the state of the command

addrMask == RingSize - 1
----------------------------------------------------------------------------
(* The gateware writes while it is enabled.  That the reader was a whole   *)
(* ring behind is noted.                                                   *)
LogEvent ==
  /\ tl.enabled /\ tl.written < MaxLogged
  /\ tl' = [tl EXCEPT !.written = @ + 1,
                      !.behind = @ \/ tl.written + 1 - tl.printed >= RingSize]
InEntry(a, written) ==
  CHOOSE n \in written - RingSize .. written - 1 : n % RingSize = a

(* cmdTLOG with an argument starts a log.  The ring starts from entry 0    *)
(* when it was stopped; a log that was left off has not been (rerun).      *)
tlogStart(t) ==
  [t EXCEPT !.enabled = TRUE, !.active = TRUE, !.rerun = t.enabled, !.rAddr = 0, !.printed = 0,
            !.written = IF t.enabled THEN @ ELSE 0, !.inOrder = TRUE, !.behind = FALSE]
tlogStop(t) == IF t.active THEN [t EXCEPT !.enabled = FALSE, !.active = FALSE] ELSE t

(* A crank prints the entries up to where the gateware writes, and leaves  *)
(* off when they are all of the ring but one.  It also does when the       *)
(* address it reads twice never is the same.                               *)
AddressAfter(t, i) == (t.rAddr + i + 1) % RingSize
AddressOf(t, i) == (t.rAddr + i) % RingSize
Unread(t) == (t.written - t.rAddr) % RingSize
Printed(t) ==
  [t EXCEPT !.rAddr = (@ + Unread(t)) % RingSize,
            !.printed = @ + Unread(t),
            !.inOrder = @ /\ \A i \in 0 .. Unread(t) - 1 :
                               InEntry(AddressOf(t, i), t.written) = t.printed + i,
            !.active = Unread(t) < addrMask]
tlogCrank(t) == IF t.active THEN {Printed(t), [t EXCEPT !.active = FALSE]} ELSE {t}

LogAtBoot == [enabled |-> FALSE, active |-> FALSE, rerun |-> FALSE, written |-> 0,
              rAddr |-> 0, printed |-> 0, inOrder |-> TRUE, behind |-> FALSE]
----------------------------------------------------------------------------
(* Every event is printed once, in the order it came: unless the reader    *)
(* falls a whole ring behind, which it cannot tell, or the log is started  *)
(* again after it was left off, when what the ring has kept is printed.    *)
EventsInOrder == tl.behind \/ tl.rerun \/ tl.inOrder
=============================================================================
