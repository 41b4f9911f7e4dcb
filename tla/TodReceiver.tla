----------------------------- MODULE TodReceiver -----------------------------
(***************************************************************************)
(* The receiver of the time of day (todReceiver.v): in the course of a     *)
(* second the bits of the next one are shifted in by two event codes, and  *)
(* a marker begins it.  Codes may be lost, and the receiver be reset.  The *)
(* event generator that sends them is external.  What the processor gets   *)
(* is seconds; secondsValid only decides whether they are counted on.      *)
(***************************************************************************)
EXTENDS Integers

CONSTANTS
  Width,           \* bits of the seconds, a power of two
  StartSeconds,    \* the second in which it starts: high bits set, as in our time
  MaxDisturbances  \* bound: codes lost and resets

Power[n \in 0 .. Width] == IF n = 0 THEN 1 ELSE 2 * Power[n - 1]
Modulus == Power[Width]
ASSUME TodAssumption ==
  /\ Width \in Nat \ {0} /\ MaxDisturbances \in Nat
  /\ StartSeconds \subseteq Modulus \div 2 .. Modulus - 1

VARIABLES
  rx,  \* the registers of the receiver
  tx   \* the second that is, bits sent of the next one, what was disturbed
todVars == <<rx, tx>>

Next1(s) == (s + 1) % Modulus
----------------------------------------------------------------------------
(* A code of one bit.  bitsLeft goes round, and the bit after the last one *)
(* is one too many.                                                        *)
OneTooMany(r) == r.tooManyBits \/ r.enoughBits
ShiftIn(r, bit) ==
  [r EXCEPT !.bitsLeft = (@ - 1) % Width, !.tooManyBits = OneTooMany(r),
            !.enoughBits = @ \/ r.bitsLeft = 0, !.shiftReg = (2 * @ + bit) % Modulus]

(* The marker.  Seconds are taken when a whole second came and it is the   *)
(* one after the last that came whole; else they are counted if valid.     *)
InSequenceAlways(r) == TRUE
InSequence(r) == r.shiftReg = r.expectSeconds
Whole(r) == r.enoughBits /\ ~r.tooManyBits
Taken(r) == Whole(r) /\ InSequence(r)
SecondsAfter(r) ==
  IF Taken(r) THEN r.shiftReg ELSE IF r.secondsValid THEN Next1(r.seconds) ELSE r.seconds
ppsStrobe(r) ==
  [r EXCEPT !.expectSeconds = IF Whole(r) THEN Next1(r.shiftReg) ELSE @,
            !.seconds = SecondsAfter(r), !.secondsValid = @ \/ Taken(r),
            !.bitsLeft = Width - 1, !.enoughBits = FALSE, !.tooManyBits = FALSE]

(* The fraction has run over before a marker came.                         *)
fractionOverflow(r) == [r EXCEPT !.secondsValid = FALSE]
rst(r) == [r EXCEPT !.seconds = 0, !.secondsValid = FALSE, !.enoughBits = FALSE,
                    !.tooManyBits = FALSE]
----------------------------------------------------------------------------
(* tx.whole counts, to 2, the undisturbed seconds since the last that was  *)
(* not; tx.overdue: a marker was lost and the fraction has not yet run     *)
(* over, which it does before the next marker.                             *)
Disturbed(t) == [t EXCEPT !.disturbed = @ + 1, !.clean = FALSE, !.whole = 0]
MayDisturb == tx.disturbed < MaxDisturbances
NextBit == (Next1(tx.sec) \div Power[Width - 1 - tx.sent]) % 2
Begun(t) == [t EXCEPT !.sec = Next1(@), !.sent = 0]

Bit == /\ tx.sent < Width
       /\ rx' = ShiftIn(rx, NextBit)
       /\ tx' = [tx EXCEPT !.sent = @ + 1]
BitLost == /\ tx.sent < Width /\ MayDisturb
           /\ tx' = Disturbed([tx EXCEPT !.sent = @ + 1])
           /\ UNCHANGED rx
Marker ==
  /\ tx.sent = Width /\ ~tx.overdue
  /\ rx' = ppsStrobe(rx)
  /\ tx' = [Begun(tx) EXCEPT !.clean = TRUE,
                             !.whole = IF ~tx.clean THEN 0 ELSE IF @ < 2 THEN @ + 1 ELSE @]
MarkerLost == /\ tx.sent = Width /\ ~tx.overdue /\ MayDisturb
              /\ tx' = Disturbed([Begun(tx) EXCEPT !.overdue = TRUE])
              /\ UNCHANGED rx
Overflow == /\ tx.overdue \/ tx.sent = Width
            /\ rx' = fractionOverflow(rx)
            /\ tx' = [tx EXCEPT !.overdue = FALSE]
LocalReset == /\ MayDisturb
              /\ rx' = rst(rx)
              /\ tx' = Disturbed(tx)

(* The receiver starts anywhere in a second; shiftReg has no first value.  *)
RxInit ==
  \E sec \in StartSeconds, bits \in 0 .. Modulus - 1, sent \in 0 .. Width :
    /\ rx = [seconds |-> 0, expectSeconds |-> 0, shiftReg |-> bits, bitsLeft |-> Width - 1,
             enoughBits |-> FALSE, tooManyBits |-> FALSE, secondsValid |-> FALSE]
    /\ tx = [sec |-> sec, sent |-> sent, clean |-> FALSE, whole |-> 0, overdue |-> FALSE,
             disturbed |-> 0]
RxNext == Bit \/ BitLost \/ Marker \/ MarkerLost \/ Overflow \/ LocalReset
RxSpec == RxInit /\ [][RxNext]_todVars
----------------------------------------------------------------------------
(* Between the markers the seconds that are counted on are those that are. *)
CountedInStep == ~tx.overdue /\ rx.secondsValid => rx.seconds = tx.sec

(* Two whole seconds that come undisturbed set the receiver right,         *)
(* whatever was lost or reset before.                                      *)
RightAfterTwo == ~tx.overdue /\ tx.whole = 2 => rx.seconds = tx.sec

(* The seconds are those that are whenever the receiver counts them on,    *)
(* and when two whole seconds have come undisturbed.                       *)
SecondsAreTrue == CountedInStep /\ RightAfterTwo
=============================================================================
