------------------------------ MODULE Receiver ------------------------------
(***************************************************************************)
(* The event receiver as the processor sees it: the state machine that     *)
(* resets the transceiver until it comes out aligned (software/src/mgt.c)  *)
(* and then synchronizes the converters (software/src/rfadc.c), the map    *)
(* from events to actions and the reading of the time of day               *)
(* (software/src/evr.c).  The transceiver and the clock take their steps   *)
(* between any two instructions of the processor.                          *)
(*                                                                         *)
(* Of the aligner's times only the order is kept: 10, 200, 1000 and 250000 *)
(* microseconds are the ticks HoldTime < Delay < Confirm < Limit.          *)
(***************************************************************************)
EXTENDS Transfers, FiniteSets

CONSTANTS
  Events,      \* events of the map, among them Heartbeat and PPS
  MaxSeconds,  \* bound: seconds that pass
  Fractions,   \* fractions in a second
  MaxLosses,   \* bound: times that a stable alignment is lost
  MaxSyncFaults \* bound: calls to the driver of the converters that fail

HoldTime == 0
Delay == 1
Confirm == 2
Limit == 3
Heartbeat == 122
PPS == 125
EventTriggers == {"T2", "T3"}

ASSUME ReceiverAssumption ==
  /\ Events \subseteq Nat \ {0}
  /\ MaxSeconds \in Nat /\ Fractions \in Nat \ {0}
  /\ MaxLosses \in Nat /\ MaxSyncFaults \in Nat

VARIABLES
  mgt,   \* the aligner, the transceiver, the converters, and how far main is
  tod,   \* time of day and where its reader is
  evmap  \* events, their actions and those chosen last
----------------------------------------------------------------------------
(* The transceiver: the end of a reset may never come, and the receiver    *)
(* comes out of it in the right phase or not.  In the right one it is      *)
(* aligned as soon as it has counted its commas, also after an error.      *)
ComeOut(right, aligned) ==
  /\ ~mgt.reset /\ ~mgt.done /\ ~mgt.stuck
  /\ aligned => right
  /\ mgt' = [mgt EXCEPT !.done = TRUE, !.right = right, !.aligned = aligned]
GetStuck == /\ ~mgt.reset /\ ~mgt.done /\ ~mgt.stuck
            /\ mgt' = [mgt EXCEPT !.stuck = TRUE]
LoseAlignment(right) ==
  /\ mgt.aligned /\ mgt.losses < MaxLosses
  /\ mgt' = [mgt EXCEPT !.aligned = FALSE, !.right = right, !.losses = @ + 1]
CountCommas == /\ mgt.right /\ ~mgt.aligned
               /\ mgt' = [mgt EXCEPT !.aligned = TRUE]
MgtTime == /\ mgt.age <= Limit
           /\ mgt' = [mgt EXCEPT !.age = @ + 1]

(* mgtCrankRxAligner.  A change of state starts its time again.            *)
Enter(s, state) == [s EXCEPT !.state = state, !.age = 0]
Reset(s, on) == [s EXCEPT !.reset = on, !.done = FALSE, !.right = FALSE, !.aligned = FALSE,
                          !.stuck = FALSE, !.synced = FALSE]
NoTimeout(s) == s
TimedOut(s) == Enter(s, "apply")
CrankAwait(s) ==
  IF s.done THEN Enter(s, "delay") ELSE IF s.age > Limit THEN TimedOut(s) ELSE s

(* The case of the delay runs on into the confirmation: it neither waits   *)
(* for the delay to reset again nor starts the time of the confirmation.   *)
CrankConfirm(s, unchanged) ==
  IF ~s.aligned THEN Enter(s, "apply")
  ELSE IF s.age > Confirm THEN Enter(s, "achieved") ELSE unchanged
CrankDelay(s) == CrankConfirm(s, IF s.age > Delay THEN Enter(s, "confirm") ELSE s)

CrankAligned(s) == IF s.aligned THEN s ELSE Enter(s, "apply")

(* rfADCsync: the status is asked for, SYSREF is turned on, the converters *)
(* are synchronized, SYSREF is turned off; the first that fails ends it,   *)
(* and a synchronization that fails leaves the converters in step or not.  *)
(* Kept as history: whether the last call came to its end.                 *)
Synchronized(s) == Send([s EXCEPT !.synced = FALSE], [s EXCEPT !.synced = TRUE])
SetSysref(s, on) == Send(s, [s EXCEPT !.sysref = on])
rfADCsync(s) ==
  IF ~s.initDone THEN Done(s)
  ELSE {[o EXCEPT !.s.failed = ~o.ok] : o \in
          Then(Send(s, s), LAMBDA t :
            Then(SetSysref(t, TRUE), LAMBDA u :
              Then(Synchronized(u), LAMBDA v : SetSysref(v, FALSE))))}

(* rfADCrestart, which takes the converters out of step, and rfADCsync.    *)
rfADCrestart(s) == Send(s, [s EXCEPT !.synced = FALSE])
SyncThenRestart(s) == Regardless(rfADCsync(s), rfADCrestart)
RestartThenSync(s) == Regardless(rfADCrestart(s), rfADCsync)

Crank(s) ==
  CASE s.state = "apply" -> Done(Reset(Enter(s, "hold"), TRUE))
    [] s.state = "hold" /\ s.age > HoldTime -> Done(Reset(Enter(s, "await"), FALSE))
    [] s.state = "await" -> Done(CrankAwait(s))
    [] s.state = "delay" -> Done(CrankDelay(s))
    [] s.state = "confirm" -> Done(CrankConfirm(s, s))
    [] s.state = "achieved" -> rfADCsync(Enter(s, "aligned"))
    [] s.state = "aligned" -> Done(CrankAligned(s))
    [] OTHER -> Done(s)

(* mgtInit resets, waits for the end of it, and cranks until aligned or    *)
(* tired of it; main starts the converters then, whatever the state of the *)
(* aligner, and cranks it in its loop.                                     *)
MgtInit ==
  mgt = [boot |-> "reset", state |-> "aligned", age |-> 0, reset |-> FALSE, done |-> FALSE,
         stuck |-> FALSE, right |-> FALSE, aligned |-> FALSE, losses |-> 0,
         initDone |-> FALSE, synced |-> FALSE, sysref |-> FALSE, failed |-> FALSE,
         faults |-> MaxSyncFaults]
AwaitReset ==
  /\ mgt.boot = "reset"
  /\ \/ mgt.done /\ mgt' = [mgt EXCEPT !.boot = "align"]
     \/ ~mgt.done /\ mgt.age > Limit /\ mgt' = [mgt EXCEPT !.boot = "converters"]
AlignAtBoot ==
  /\ mgt.boot = "align"
  /\ \E o \in Crank(mgt) :
       mgt' = IF o.s.state = "aligned" THEN [o.s EXCEPT !.boot = "converters"] ELSE o.s
GiveUp == /\ mgt.boot = "align" /\ mgt.state # "aligned"
          /\ mgt' = [mgt EXCEPT !.boot = "converters"]
StartConverters ==
  /\ mgt.boot = "converters"
  /\ \E o \in RestartThenSync([mgt EXCEPT !.initDone = TRUE]) : mgt' = [o.s EXCEPT !.boot = "loop"]

(* In the main loop: the aligner, and two flags of the debug command, of   *)
(* which the first restarts the converters (afeADCrestart).                *)
mgtCrankRxAligner == mgt.boot = "loop" /\ \E o \in Crank(mgt) : mgt' = o.s
DebugRestart == mgt.boot = "loop" /\ \E o \in RestartThenSync(mgt) : mgt' = o.s
DebugResync == mgt.boot = "loop" /\ \E o \in rfADCsync(mgt) : mgt' = o.s

Processor == AwaitReset \/ AlignAtBoot \/ GiveUp \/ StartConverters \/ mgtCrankRxAligner
MgtNext ==
  \/ \E right \in BOOLEAN : \/ \E aligned \in BOOLEAN : ComeOut(right, aligned)
                            \/ LoseAlignment(right)
  \/ GetStuck \/ CountCommas \/ MgtTime \/ Processor \/ DebugRestart \/ DebugResync
----------------------------------------------------------------------------
(* The clock goes on at any moment; a second begins with fraction 0.       *)
After(t) == IF t.fraction + 1 < Fractions THEN [t EXCEPT !.fraction = @ + 1]
            ELSE [sec |-> t.sec + 1, fraction |-> 0]
ClockTicks == /\ tod.now.sec < MaxSeconds
              /\ tod' = [tod EXCEPT !.now = After(@), !.during = @ \cup {After(tod.now)}]

(* evrCurrentTime: the seconds, then fraction and seconds until the        *)
(* seconds are the same.                                                   *)
SecondsTaken(s) == TRUE
SecondsAgree(s) == s = tod.got.sec
FirstSeconds(s) == tod.got.sec
NextSeconds(s) == s
ReadStart == /\ tod.pc = "idle"
             /\ tod' = [tod EXCEPT !.pc = "fraction", !.got.sec = tod.now.sec, !.during = {tod.now}]
ReadFraction == /\ tod.pc = "fraction"
                /\ tod' = [tod EXCEPT !.pc = "again", !.got.fraction = tod.now.fraction]
ReadAgain == /\ tod.pc = "again"
             /\ tod' = IF SecondsAgree(tod.now.sec) THEN [tod EXCEPT !.pc = "idle"]
                       ELSE [tod EXCEPT !.pc = "fraction", !.got.sec = NextSeconds(tod.now.sec)]
TodInit == \E f \in 0 .. Fractions - 1 : LET t == [sec |-> 0, fraction |-> f] IN
             tod = [now |-> t, pc |-> "idle", got |-> t, during |-> {t}]
TodNext == ClockTicks \/ ReadStart \/ ReadFraction \/ ReadAgain
----------------------------------------------------------------------------
(* evrInit: the markers drive triggers 0 and 1.                            *)
EvInit ==
  evmap = [action |-> [e \in Events |-> CASE e = Heartbeat -> {"T0"} [] e = PPS -> {"T1"} [] OTHER -> {}],
           old |-> [t \in EventTriggers |-> 0], mapped |-> FALSE]
evrAddEventAction(s, e, t) == [s EXCEPT !.action[e] = @ \cup {t}]
evrRemoveEventAction(s, e, t) == [s EXCEPT !.action[e] = @ \ {t}]

(* setEventAction of the EPICS server: any triggers but the two markers.   *)
EveryAction(actions) == actions
Replaceable(actions) == actions \ {"T0", "T1"}
setEventAction ==
  \E e \in Events, actions \in SUBSET ({"T0"} \cup EventTriggers) :
    evmap' = [evmap EXCEPT !.action[e] = (@ \ Replaceable(@)) \cup Replaceable(actions),
                           !.mapped = TRUE]

(* selectTriggerEventAction: an event out of range only removes.           *)
NotRemoved(s, e, t) == s
Unselected(s, e, t) == evrRemoveEventAction(s, e, t)
selectTriggerEventAction ==
  \E t \in EventTriggers, e \in Events \cup {0} :
    LET gone == IF evmap.old[t] = 0 THEN evmap ELSE Unselected(evmap, evmap.old[t], t)
        none == [gone EXCEPT !.old[t] = 0]
    IN  evmap' = IF e = 0 THEN none ELSE [evrAddEventAction(none, e, t) EXCEPT !.old[t] = e]
EvNext == setEventAction \/ selectTriggerEventAction
----------------------------------------------------------------------------
receiverVars == <<mgt, tod, evmap>>
ReceiverInit == MgtInit /\ TodInit /\ EvInit
ReceiverNext == \/ MgtNext /\ UNCHANGED <<tod, evmap>>
                \/ TodNext /\ UNCHANGED <<mgt, evmap>>
                \/ EvNext /\ UNCHANGED <<mgt, tod>>
ReceiverSpec == ReceiverInit /\ [][ReceiverNext]_receiverVars
----------------------------------------------------------------------------
(* The states are those of the code, and the reset is applied in one only. *)
ReceiverTypeOK ==
  /\ mgt.state \in {"apply", "hold", "await", "delay", "confirm", "achieved", "aligned"}
  /\ mgt.boot \in {"reset", "align", "converters", "loop"}
  /\ mgt.age \in 0 .. Limit + 1 /\ mgt.reset = (mgt.state = "hold")
  /\ tod.got.sec \in 0 .. MaxSeconds /\ tod.got.fraction \in 0 .. Fractions - 1

(* Once main is in its loop, unless the last synchronization failed: SYSREF *)
(* is off, and whenever the aligner is content the converters have been    *)
(* synchronized since the last reset of the receiver, which moves the      *)
(* phase of samples, and since their last restart.  One that fails is not  *)
(* tried again by itself, and leaves SYSREF on (rfADCsync).                *)
InStep ==
  mgt.boot = "loop" /\ ~mgt.failed =>
    ~mgt.sysref /\ (mgt.state = "aligned" => mgt.synced)

(* The states are those of the code, and the converters are in step when   *)
(* they are believed to be.                                                *)
AlignedInStep == ReceiverTypeOK /\ InStep

(* A receiver that keeps coming out of reset, aligned again and again, is  *)
(* in the end accepted, although resets may hang and alignment be lost.    *)
EventuallyAligned == []<>(mgt.state = "aligned" /\ mgt.aligned)

(* The time that evrCurrentTime returns was the time at some moment of the *)
(* call, whenever a second began.                                          *)
TimeWasReal == tod.pc = "idle" => tod.got \in tod.during

(* A reading of the time ends, although each second that begins during it  *)
(* makes it try again.                                                     *)
ReadingEnds == tod.pc # "idle" ~> tod.pc = "idle"

(* No command takes from the heartbeat and the second markers the outputs  *)
(* that synchronize the ring clock, nor gives them to another event.       *)
MarkersKept ==
  \A e \in Events : /\ ("T0" \in evmap.action[e]) = (e = Heartbeat)
                    /\ ("T1" \in evmap.action[e]) = (e = PPS)

(* Unless triggers are mapped by setEventAction, the event last selected   *)
(* for a trigger, and no event before it, starts an acquisition.           *)
OneTriggerEvent ==
  ~evmap.mapped => \A t \in EventTriggers, e \in Events :
    (t \in evmap.action[e]) = (evmap.old[t] = e)

(* The actions of every event are those that the clock and the commands    *)
(* have left there.                                                        *)
EventActionsStand == MarkersKept /\ OneTriggerEvent
=============================================================================
