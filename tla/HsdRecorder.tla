---------------------------- MODULE HsdRecorder ----------------------------
(***************************************************************************)
(* Waveform recorder of one channel of the high speed digitizer: the       *)
(* gateware (gateware/modules/acquisitionHSD.v), the processor functions   *)
(* that arm it, configure it and locate samples in its memory              *)
(* (software/src/acquisition.c, lines 11 to 530), and a client.            *)
(*                                                                         *)
(* A Tick is a cycle of the ADC clock; a variable has the value that the   *)
(* register of that name has in the cycle, and the ADC data are valid in   *)
(* every cycle.  Software writes are far apart compared with the cycles    *)
(* that clock domain crossing takes, but the end of an acquisition may     *)
(* cross to the system clock around any of them.                           *)
(*                                                                         *)
(* What a word of the memory holds is abstracted to its age, the number of *)
(* cycles since the ADC delivered it: the samples read back are right when *)
(* their ages are.                                                         *)
(***************************************************************************)
EXTENDS Integers, FiniteSetsExt

CONSTANTS
  Cap,                \* words of the memory; a word is the samples of a clock
  Segment,            \* Segment[m]: words of a segment in mode m
  EARLY_SEGMENTS_COUNT,
  SamplesPerClock,
  Discard,            \* the samples that the processor discards: the '-14'
  EarlyBits, LaterBits,    \* widths of the segment gap fields
  Intervals,          \* Intervals[m]: the early and the later interval set
  ClientModes,        \* segmentation modes that clients select
  PretriggerCounts,   \* numbers of pretrigger samples that clients set
  MaxPretrigger,      \* MaxPretrigger[m]: the largest a client uses in mode m
  Locations,          \* places in a clock where a level crossing happens
  ConfigWhileActive,  \* whether clients change settings of an active recorder
  DisarmWhileActive,  \* whether clients disarm an active recorder
  MaxArms             \* bound: the recorder is armed at most this many times

Modes == {"contiguous", "long", "short"}
ASSUME GeometryAssumption ==
  /\ Cap \in Nat \ {0, 1} /\ Segment \in [Modes -> 1 .. Cap]
  /\ Segment["contiguous"] = Cap /\ Segment["short"] <= Segment["long"]
  /\ \A m \in Modes : Cap % Segment[m] = 0
  /\ EARLY_SEGMENTS_COUNT \in Nat \ {0, 1}
  /\ SamplesPerClock \in Nat \ {0} /\ Discard \in Nat
  /\ EarlyBits \in Nat /\ LaterBits \in Nat
ASSUME FieldsAssumption ==      \* powers of two are positive and grow
  /\ \A n \in {EarlyBits, LaterBits} : 2 ^ n \in Nat \ {0}
  /\ 2 ^ Max({EarlyBits, LaterBits}) = Max({2 ^ EarlyBits, 2 ^ LaterBits})
ASSUME ClientAssumption ==
  /\ Intervals \in [Modes -> [early : Nat, later : Nat]]
  /\ ClientModes \subseteq Modes
  /\ PretriggerCounts \subseteq Nat /\ MaxPretrigger \in [Modes -> Nat]
  /\ Locations \subseteq 0 .. SamplesPerClock - 1
  /\ ConfigWhileActive \in BOOLEAN /\ DisarmWhileActive \in BOOLEAN
  /\ MaxArms \in Nat

VARIABLES
  (* acqConfig; the mode is also in the trigger configuration register *)
  segMode, pretriggerCount,
  (* registers of the system clock domain *)
  acqConfig,        \* sysAcqConfig1 and 2: pretrigger clocks and gap loads
  sysAcqActive, sysFull,
  sysAcqFinish_d,   \* acqFinish as last seen by the edge detector
  (* registers of the ADC clock domain *)
  acqActive_m, acqActive,
  watchForTrigger_d, triggersBeenIdle, triggered, triggerLocation,
  dpramWriteAddress, channelWriteEnable, channelWriteAddress,
  fsm,              \* what the acquisition state machine assigns
  (* history *)
  age,              \* of each word of the memory
  triggerAge,       \* of the word that holds the trigger
  arms              \* number of times armed

settings == <<segMode, pretriggerCount>>
sys == <<acqConfig, sysAcqActive, sysFull, sysAcqFinish_d>>
trigger == <<watchForTrigger_d, triggersBeenIdle, triggered, triggerLocation>>
memory == <<dpramWriteAddress, channelWriteEnable, channelWriteAddress, age, triggerAge>>
adc == <<acqActive_m, acqActive, trigger, memory, fsm>>
vars == <<settings, sys, adc, arms>>

Addresses == 0 .. Cap - 1
CapSamples == Cap * SamplesPerClock
Segments(m) == Cap \div Segment[m]

(* Ages saturate beyond the longest acquisition.                           *)
Old == Cap + Segments("short") * (2 ^ Max({EarlyBits, LaterBits}) + 2)
Older(n) == Min({n + 1, Old})

Init ==
  /\ segMode = "contiguous" /\ pretriggerCount = 1
  /\ acqConfig = [pre |-> 0, early |-> 0, later |-> 0]
  /\ sysAcqActive = FALSE /\ sysFull = FALSE /\ sysAcqFinish_d = FALSE
  /\ acqActive_m = FALSE /\ acqActive = FALSE
  /\ watchForTrigger_d = FALSE /\ triggersBeenIdle = FALSE /\ triggered = FALSE
  /\ triggerLocation = 0
  /\ dpramWriteAddress = 0 /\ channelWriteEnable = FALSE /\ channelWriteAddress = 0
  /\ fsm = [acqState |-> "START", acqCounter |-> 0, segmentCounter |-> -1,
            earlySegmentsCounter |-> EARLY_SEGMENTS_COUNT - 2, segGapCounter |-> 0,
            watchForTrigger |-> FALSE, dpramWriteEnable |-> FALSE,
            triggerDpramAddr |-> 0, acqFinish |-> FALSE]
  /\ age = [a \in Addresses |-> Old] /\ triggerAge = Old
  /\ arms = 0

----------------------------------------------------------------------------
(* Counter loads.  A counter is done when it reaches -1.                   *)
TRIGGER_DETECTION_LATENCY == 4
TRIGGER_RESPONSE_LATENCY == 1
Done(counter) == counter < 0

PretriggerLoad == (acqConfig.pre + TRIGGER_DETECTION_LATENCY - 2) % Cap
PosttriggerLoadNoLatency == ((Segment[segMode] - acqConfig.pre) % Cap) - 2
PosttriggerLoad ==
  ((Segment[segMode] - acqConfig.pre) % Cap)
    - TRIGGER_DETECTION_LATENCY - TRIGGER_RESPONSE_LATENCY - 2
SegmentCounterLoad == Segments(segMode) - 2
SegmentLoad == Segment[IF segMode = "long" THEN "long" ELSE "short"] - 2

(* The trigger watch.  An event strobe triggers at once, a level crossing  *)
(* only when the samples have been seen on the other side of the level.    *)
NoCrossing == SamplesPerClock
Fires(strobe, crossing) ==
  /\ fsm.watchForTrigger /\ watchForTrigger_d /\ ~triggered
  /\ strobe \/ (crossing # NoCrossing /\ triggersBeenIdle)
WatchForTrigger(strobe, crossing, idle) ==
  /\ watchForTrigger_d' = fsm.watchForTrigger
  /\ triggersBeenIdle' =
       (fsm.watchForTrigger /\ (triggersBeenIdle \/ (watchForTrigger_d /\ idle)))
  /\ triggered' = (fsm.watchForTrigger /\ (triggered \/ Fires(strobe, crossing)))
  /\ triggerLocation' =
       IF Fires(strobe, crossing) THEN IF strobe THEN 0 ELSE crossing
       ELSE triggerLocation

(* Writing to the memory.  Ages stand still when nothing is in motion.     *)
Resting ==
  /\ ~fsm.dpramWriteEnable /\ ~channelWriteEnable
  /\ fsm.acqState \in {"START", "DONE"}
NextAddressTooWide(a) == (a + 1) % (2 * Cap)
NextAddress(a) == (a + 1) % Cap
WriteMemory ==
  /\ dpramWriteAddress' =
       IF fsm.dpramWriteEnable THEN NextAddress(dpramWriteAddress) ELSE dpramWriteAddress
  /\ channelWriteEnable' = fsm.dpramWriteEnable
  /\ channelWriteAddress' = dpramWriteAddress
  /\ age' = IF Resting THEN age
            ELSE [a \in Addresses |->
                    IF channelWriteEnable /\ a = channelWriteAddress THEN 1
                    ELSE Older(age[a])]

(* The word that fires the trigger was delivered two cycles ago.           *)
FollowTrigger(fires) ==
  triggerAge' = IF fires THEN 3
                ELSE IF Resting THEN triggerAge ELSE Older(triggerAge)

(* The acquisition state machine.  An inactive one keeps watching for a    *)
(* trigger, and keeps writing, if it did.                                  *)
Inactive ==
  [fsm EXCEPT !.earlySegmentsCounter = EARLY_SEGMENTS_COUNT - 2,
              !.segmentCounter = SegmentCounterLoad,
              !.acqFinish = FALSE, !.acqState = "START"]
Start ==
  [fsm EXCEPT !.dpramWriteEnable = TRUE, !.acqCounter = PretriggerLoad,
              !.acqState = "FILL"]
Fill ==
  [fsm EXCEPT !.acqCounter = @ - 1,
              !.watchForTrigger = @ \/ Done(fsm.acqCounter),
              !.acqState = IF Done(fsm.acqCounter) THEN "ARMED" ELSE @]
Armed ==
  IF triggered
  THEN [fsm EXCEPT !.acqCounter = PosttriggerLoad, !.watchForTrigger = FALSE,
                   !.triggerDpramAddr = dpramWriteAddress,
                   !.dpramWriteEnable = TRUE, !.acqState = "ACQUIRE"]
  ELSE [fsm EXCEPT !.acqCounter = PosttriggerLoad]
SegmentGap == IF Done(fsm.earlySegmentsCounter) THEN acqConfig.later ELSE acqConfig.early
Acquire ==
  IF Done(fsm.acqCounter)
  THEN [fsm EXCEPT !.segGapCounter = SegmentGap, !.acqCounter = @ - 1,
                   !.segmentCounter = @ - 1, !.dpramWriteEnable = FALSE,
                   !.acqState = IF Done(fsm.segmentCounter) THEN "DONE" ELSE "PAUSE",
                   !.earlySegmentsCounter = IF Done(@) THEN @ ELSE @ - 1]
  ELSE [fsm EXCEPT !.segGapCounter = SegmentGap, !.acqCounter = @ - 1]
Pause ==
  IF Done(fsm.segGapCounter)
  THEN [fsm EXCEPT !.acqCounter = SegmentLoad, !.dpramWriteEnable = TRUE,
                   !.acqState = "ACQUIRE"]
  ELSE [fsm EXCEPT !.acqCounter = SegmentLoad, !.segGapCounter = @ - 1]
Finished == [fsm EXCEPT !.acqFinish = TRUE]
StateMachine ==
  fsm' = CASE ~acqActive -> Inactive
           [] acqActive /\ fsm.acqState = "START" -> Start
           [] acqActive /\ fsm.acqState = "FILL" -> Fill
           [] acqActive /\ fsm.acqState = "ARMED" -> Armed
           [] acqActive /\ fsm.acqState = "ACQUIRE" -> Acquire
           [] acqActive /\ fsm.acqState = "PAUSE" -> Pause
           [] acqActive /\ fsm.acqState = "DONE" -> Finished

Tick ==
  /\ acqActive_m' = sysAcqActive /\ acqActive' = acqActive_m
  /\ \E strobe, idle \in BOOLEAN, crossing \in Locations \cup {NoCrossing} :
       /\ WatchForTrigger(strobe, crossing, idle)
       /\ FollowTrigger(Fires(strobe, crossing))
  /\ WriteMemory
  /\ StateMachine
  /\ UNCHANGED <<settings, sys, arms>>

(* The system clock domain sees the edges of acqFinish.                    *)
FinishForgotten == sysAcqFinish_d
FinishGone == FALSE
SysSeesFinish ==
  /\ fsm.acqFinish /\ ~sysAcqFinish_d
  /\ sysAcqFinish_d' = TRUE
  /\ sysAcqActive' = FALSE
  /\ sysFull' = TRUE
  /\ UNCHANGED <<settings, acqConfig, adc, arms>>
SysSeesFinishGone ==
  /\ ~fsm.acqFinish /\ sysAcqFinish_d
  /\ sysAcqFinish_d' = FinishGone
  /\ UNCHANGED <<settings, acqConfig, sysAcqActive, sysFull, adc, arms>>

----------------------------------------------------------------------------
(* The client, through the processor.  The previous write has crossed, and *)
(* each domain has seen what it will see of it.                            *)
Settled ==
  /\ acqActive_m = sysAcqActive /\ acqActive = sysAcqActive
  /\ \/ sysAcqActive
     \/ fsm.acqState = "START" /\ ~fsm.acqFinish /\ (sysAcqFinish_d => FinishGone)
MayConfigure == Settled /\ ~sysFull /\ (ConfigWhileActive \/ ~sysAcqActive)

clampPretrigger(n) == Min({Max({n, 1}), CapSamples - SamplesPerClock})
acquisitionSetPretriggerCount(n) ==
  /\ MayConfigure
  /\ pretriggerCount' = clampPretrigger(n)
  /\ UNCHANGED <<segMode, sys, adc, arms>>

acquisitionSetSegmentedMode(m) ==
  /\ MayConfigure
  /\ segMode' = m
  /\ UNCHANGED <<pretriggerCount, sys, adc, arms>>

(* A write to the CSR.                                                     *)
WriteCSR(arm) == sysAcqActive' = arm /\ sysFull' = FALSE /\ UNCHANGED sysAcqFinish_d

pretriggerClocks == (pretriggerCount + SamplesPerClock - 1) \div SamplesPerClock
GapLoad(interval, bits) == (interval - Segment[segMode] - 2) % 2 ^ bits
Arm ==
  /\ arms < MaxArms
  /\ Settled /\ ~sysAcqActive
  /\ pretriggerCount <= MaxPretrigger[segMode]
  /\ acqConfig' =
       IF segMode = "contiguous"
       THEN [pre |-> pretriggerClocks, early |-> 0, later |-> 0]
       ELSE [pre |-> pretriggerClocks,
             early |-> GapLoad(Intervals[segMode].early, EarlyBits),
             later |-> GapLoad(Intervals[segMode].later, LaterBits)]
  /\ WriteCSR(TRUE)
  /\ arms' = arms + 1
  /\ age' = IF Resting THEN [a \in Addresses |-> Old] ELSE age
  /\ UNCHANGED <<settings, acqActive_m, acqActive, trigger, dpramWriteAddress,
                 channelWriteEnable, channelWriteAddress, triggerAge, fsm>>

Disarm ==
  /\ DisarmWhileActive
  /\ Settled /\ sysAcqActive
  /\ WriteCSR(FALSE)
  /\ UNCHANGED <<settings, acqConfig, adc, arms>>

(* Reading samples writes their locations to the CSR.                      *)
Fetch ==
  /\ Settled /\ sysFull /\ ~sysAcqActive
  /\ WriteCSR(FALSE)
  /\ UNCHANGED <<settings, acqConfig, adc, arms>>

Next ==
  \/ Tick \/ SysSeesFinish \/ SysSeesFinishGone
  \/ \E n \in PretriggerCounts : acquisitionSetPretriggerCount(n)
  \/ \E m \in ClientModes : acquisitionSetSegmentedMode(m)
  \/ Arm \/ Disarm \/ Fetch

Spec == Init /\ [][Next]_vars

(* The clocks run.  Nothing is assumed of triggers or of the client.       *)
FairSpec ==
  Spec /\ WF_vars(Tick) /\ WF_vars(SysSeesFinish) /\ WF_vars(SysSeesFinishGone)

----------------------------------------------------------------------------
(* Where the processor reads a sample: acquisitionNormalFetch's base, the  *)
(* offset that dataLocation adds for sample i of segment k, and the word   *)
(* that the location selects.                                              *)
base == (fsm.triggerDpramAddr * SamplesPerClock + triggerLocation
          - pretriggerCount + CapSamples) % CapSamples
samplesPerSegment == Segment[segMode] * SamplesPerClock - Discard
dataLocationPacked(k, i) == (base + k * samplesPerSegment + i) % CapSamples
dataLocation(k, i) ==
  (base + k * Segment[segMode] * SamplesPerClock + i) % CapSamples
WordAtUndelayed(location) == location \div SamplesPerClock
WordAt(location) == ((location \div SamplesPerClock) - TRIGGER_DETECTION_LATENCY) % Cap

(* When sample i of segment k was due, in clocks after the trigger's.      *)
SegmentStart(k) ==
  LET early == Min({k, EARLY_SEGMENTS_COUNT - 1}) IN
  early * Intervals[segMode].early + (k - early) * Intervals[segMode].later
DueAt(k, i) == ((triggerLocation + i - pretriggerCount) \div SamplesPerClock) + SegmentStart(k)

TypeOK ==
  /\ segMode \in Modes /\ pretriggerCount \in 1 .. CapSamples - SamplesPerClock
  /\ acqConfig \in [pre : 0 .. Cap - 1, early : 0 .. 2 ^ EarlyBits - 1,
                    later : 0 .. 2 ^ LaterBits - 1]
  /\ {sysAcqActive, sysFull, sysAcqFinish_d, acqActive_m, acqActive} \subseteq BOOLEAN
  /\ {watchForTrigger_d, triggersBeenIdle, triggered} \subseteq BOOLEAN
  /\ triggerLocation \in 0 .. SamplesPerClock - 1
  /\ dpramWriteAddress \in Addresses /\ channelWriteAddress \in Addresses
  /\ channelWriteEnable \in BOOLEAN
  /\ fsm \in [acqState : {"START", "FILL", "ARMED", "ACQUIRE", "PAUSE", "DONE"},
              acqCounter : -8 .. Cap - 1, segmentCounter : -2 .. Cap,
              earlySegmentsCounter : -1 .. EARLY_SEGMENTS_COUNT - 2,
              segGapCounter : -1 .. 2 ^ Max({EarlyBits, LaterBits}) - 1,
              watchForTrigger : BOOLEAN, dpramWriteEnable : BOOLEAN,
              triggerDpramAddr : Addresses, acqFinish : BOOLEAN]
  /\ age \in [Addresses -> 0 .. Old] /\ triggerAge \in 0 .. Old
  /\ arms \in 0 .. MaxArms

(* How the recorder is used: clients leave the settings of one in use      *)
(* alone, the longest pretrigger time is six clocks less than a segment, a *)
(* gap between segments has at least two clocks and fits its field, and    *)
(* the samples that are discarded make up for the rounding to clocks at    *)
(* both ends of a segment.                                                 *)
DocumentedUse ==
  /\ ~ConfigWhileActive
  /\ \A m \in Modes : MaxPretrigger[m] <= (Segment[m] - 6) * SamplesPerClock
  /\ \A m \in Modes \ {"contiguous"} :
       /\ Intervals[m].early - Segment[m] - 2 \in 0 .. 2 ^ EarlyBits - 1
       /\ Intervals[m].later - Segment[m] - 2 \in 0 .. 2 ^ LaterBits - 1
  /\ Discard >= 2 * SamplesPerClock - 2

(* A full recorder holds, where the processor looks for them, all samples  *)
(* of all segments, at the intervals that were set: nothing is missing,    *)
(* overwritten, or left from before, whatever the moment of the trigger    *)
(* and however often the recorder was disarmed.                            *)
WholeWaveform ==
  sysFull =>
    \A k \in 0 .. Segments(segMode) - 1, i \in 0 .. samplesPerSegment - 1 :
      /\ age[WordAt(dataLocation(k, i))] < Old
      /\ age[WordAt(dataLocation(k, i))] + DueAt(k, i)
           = age[WordAt(dataLocation(0, 0))] + DueAt(0, 0)

(* The sample that the trigger came with is the one that follows the       *)
(* pretrigger samples.                                                     *)
TriggerInPlace ==
  sysFull => age[WordAt(dataLocation(0, pretriggerCount))] = triggerAge

(* Once triggered, an acquisition ends by itself: the recorder becomes     *)
(* inactive again.                                                         *)
AcquisitionCompletes == fsm.acqState = "ACQUIRE" /\ sysAcqActive ~> ~sysAcqActive
=============================================================================
