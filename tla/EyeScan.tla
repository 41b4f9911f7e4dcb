------------------------------ MODULE EyeScan ------------------------------
(***************************************************************************)
(* The eye scan of a transceiver lane (software/src/eyescan.c): a raster   *)
(* of offsets, at each of which the transceiver counts errors, cranked by  *)
(* the console one register access or one character of the border a time.  *)
(*                                                                         *)
(* Offsets are numbered from the centre, in strides.  An error count is    *)
(* represented by the offset at which it was counted.                      *)
(***************************************************************************)
EXTENDS Integers, Sequences

CONSTANTS
  HLast,        \* H_LAST: points on either side of the centre
  VLast,        \* rows on either side of the centre
  BorderWidth,  \* characters of a border
  Formats       \* "art", "numeric", "raw"

ASSUME ScanAssumption == HLast \in Nat /\ VLast \in Nat /\ BorderWidth \in Nat

TimeLimit == 1  \* 500 ms
Passes == 10

VARIABLE es  \* state of the scan, and the registers of its lane

Point(h, v) == [h |-> h, v |-> v]
Centre == Point(0, 0)
----------------------------------------------------------------------------
(* The transceiver counts while RUN is set and then is done until RUN is   *)
(* cleared; setting it when it is set starts nothing.  Registers are read  *)
(* and modified one field at a time.                                       *)
drp_set(s) == IF s.run THEN s ELSE [s EXCEPT !.run = TRUE, !.done = FALSE]
LeftRunning(s) == s
drp_clr(s) == [s EXCEPT !.run = FALSE, !.done = FALSE]
drp_rmw(s, point) == [s EXCEPT !.offset = point]
CountingDone == /\ es.run /\ ~es.done
                /\ es' = [es EXCEPT !.done = TRUE, !.count = es.offset]
ScanTime == /\ es.acquiring /\ es.age <= TimeLimit
            /\ es' = [es EXCEPT !.age = @ + 1]

(* xBorderCrank: how much of a border is still to be printed.              *)
xBorderStart(s) == IF s.format = "raw" THEN s ELSE [s EXCEPT !.border = BorderWidth]
xBorderCrank(s) ==
  IF s.format = "raw" \/ s.border = 0 THEN s ELSE [s EXCEPT !.border = @ - 1]
BorderBusy(s) == s.format # "raw" /\ s.border > 0

(* eyescanSync waits for a count at the centre.  It succeeds without       *)
(* clearing RUN; it clears RUN when the count never ends; after Passes     *)
(* attempts to synchronize again it gives up with the offset moved.        *)
Running(s) == drp_set(drp_rmw(s, Centre))
Synchronized(s) == [Running(s) EXCEPT !.done = TRUE, !.count = Centre]
NotSynchronized(s) == {drp_clr(Running(s)), [Running(s) EXCEPT !.offset = Point(-HLast, 0)]}

eyescanStart(s) ==
  xBorderStart([s EXCEPT !.acquiring = FALSE, !.active = TRUE,
                         !.h = -HLast, !.v = VLast, !.shown = <<>>])

(* eyescanCommand: the lane is synchronized and the scan begins, or not.   *)
eyescanCommand(s) ==
  UNION {LET f == [s EXCEPT !.format = format]
         IN  {eyescanStart(Synchronized(f))} \cup NotSynchronized(f) : format \in Formats}

NextPoint(s) == IF s.h < HLast THEN [s EXCEPT !.h = @ + 1]
                ELSE [s EXCEPT !.h = -HLast, !.v = @ - 1]
Shown(s) == NextPoint([s EXCEPT !.shown = Append(@, [at |-> Point(s.h, s.v), of |-> s.count])])

NeverTimedOut(s) == FALSE
TimedOut(s) == s.age > TimeLimit
Acquiring(s) ==
  LET over == [s EXCEPT !.acquiring = FALSE]
  IN  IF s.done THEN drp_clr(Shown(over))
      ELSE IF TimedOut(s) THEN drp_clr([over EXCEPT !.active = FALSE])
      ELSE s
Acquire(s) ==
  IF s.v < -VLast THEN xBorderStart([s EXCEPT !.active = FALSE])
  ELSE [drp_set(drp_rmw(s, Point(s.h, s.v))) EXCEPT !.acquiring = TRUE, !.age = 0]
eyescanStep(s) ==
  LET b == xBorderCrank(s)
  IN  IF BorderBusy(b) \/ ~s.active THEN b
      ELSE IF b.acquiring THEN Acquiring(b) ELSE Acquire(b)

(* What eyescanCrank answers: the console reads no input while it is busy. *)
(* The step that ends a scan is not, though it has a border to print.      *)
Busy(s) == LET b == xBorderCrank(s) IN BorderBusy(b) \/ eyescanStep(s).active

(* eyescanInit sets up the masks and the modes of every lane.              *)
ScanAtBoot ==
  [active |-> FALSE, acquiring |-> FALSE, format |-> "art", h |-> 0, v |-> 0, border |-> 0,
   age |-> 0, run |-> FALSE, done |-> FALSE, offset |-> Centre, count |-> Centre, shown |-> <<>>]
ScanEnvironment == CountingDone \/ ScanTime
----------------------------------------------------------------------------
(* The raster: top row first, each row from the left.                      *)
Raster == [k \in 1 .. (2 * HLast + 1) * (2 * VLast + 1) |->
            Point(((k - 1) % (2 * HLast + 1)) - HLast, VLast - ((k - 1) \div (2 * HLast + 1)))]

(* A scan shows the points of the raster in order, and the count shown for *)
(* each, except the first, was taken there and not left by the point       *)
(* before.  (The first shows the count of the synchronization at the       *)
(* centre: eyescanSync leaves RUN set, so setting it starts no count.)     *)
CountedWhereShown ==
  /\ Len(es.shown) <= Len(Raster)
  /\ \A k \in DOMAIN es.shown : /\ es.shown[k].at = Raster[k]
                                /\ es.shown[k].of = IF k = 1 THEN Centre ELSE Raster[k]
=============================================================================
