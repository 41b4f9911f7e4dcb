--------------------------- MODULE BcmAcquisition ---------------------------
(***************************************************************************)
(* Data acquisition of the bunch current monitor: the processor side       *)
(* (software/src/acquisition.c from line 635), the gateware recorder       *)
(* (gateware/modules/acquisitionBCM.v), and a client that reads waveforms  *)
(* packet by packet.                                                       *)
(*                                                                         *)
(* The recorder is armed by a START write, waits for an event or a soft    *)
(* trigger, adds up the samples of several passes over the buffer and goes *)
(* inactive.  The processor hands out samples only while it is inactive,   *)
(* and arms it again once the last sample has been handed out or when the  *)
(* waveform has not been read out for 5 seconds.                           *)
(*                                                                         *)
(* Time is abstracted to whether a timeout has expired.  The processor     *)
(* runs a single loop, so each of its functions is one step; the recorder  *)
(* can only become inactive under it.  Acquisitions are told apart by a    *)
(* tag that is reused after Tags of them.                                  *)
(***************************************************************************)
EXTENDS Integers, Sequences, FiniteSetsExt, SequencesExt

CONSTANTS
  Sizes,          \* numbers of samples clients ask for
  PassCounts,     \* numbers of passes clients ask for
  MinSize,        \* the smallest number of samples accepted
  DefaultSize,    \* the size at boot: the capacity of the buffer
  DefaultPasses,  \* the number of passes at boot: the largest
  SamplesPerWord, \* samples of a channel in a word of the buffer
  Chunk,          \* samples in a reply
  Tags            \* number of tags that tell acquisitions apart

ASSUME SizesAssumption ==
  /\ Sizes \subseteq Nat
  /\ DefaultSize \in Nat
  /\ MinSize \in 1 .. DefaultSize
  /\ SamplesPerWord \in Nat \ {0}
  /\ DefaultSize % SamplesPerWord = 0
  /\ Chunk \in Nat \ {0}
ASSUME PassesAssumption ==
  PassCounts \subseteq Nat /\ DefaultPasses \in Nat \ {0}
ASSUME TagsAssumption == Tags \in Nat \ {0, 1}

VARIABLES
  (* acquisition.c *)
  size, passCount,        \* what clients asked for
  acqSize, acqPassCount,  \* what the last acquisitionStart took over
  needParameters,         \* parameters not yet received
  firstTime,              \* acquisitionCrank has not started the recorder yet
  wasStarted,             \* started and not yet seen to be finished
  startTimedOut,          \* more than 3 s since usWhenStarted
  finishTimedOut,         \* more than 5 s since usWhenFinished
  (* acquisitionBCM.v *)
  phase,                  \* "idle" is inactive in the CSR
  softTrigger,            \* sysSoftTrigger
  reload,                 \* the size and pass count of the START write
  tag,                    \* tag of the latest acquisition
  buffer,                 \* acquisition and number of passes in each sample
  (* client *)
  wave                    \* the waveform it is assembling

parameters == <<size, passCount, needParameters>>
taken == <<acqSize, acqPassCount>>
timers == <<startTimedOut, finishTimedOut>>
recorder == <<phase, softTrigger, reload, tag>>
vars == <<parameters, taken, firstTime, wasStarted, timers, recorder, buffer, wave>>

Positions == 0 .. DefaultSize - 1
NoTag == Tags
Cell == [tag : 0 .. Tags, passes : 0 .. DefaultPasses]

(* What the client holds: the acquisition whose header it received, the    *)
(* size the processor then worked with, the number of samples it wants,    *)
(* the samples, and whether the processor cancelled the readout.           *)
NoWave ==
  [tag |-> NoTag, acqSize |-> 0, wanted |-> 0, samples |-> <<>>, cancelled |-> FALSE]
Sample == [tag : 0 .. Tags, passes : 0 .. DefaultPasses, scale : 0 .. DefaultPasses]

Active == phase # "idle"

Init ==
  /\ size = DefaultSize /\ passCount = DefaultPasses
  /\ acqSize = 0 /\ acqPassCount = 0
  /\ needParameters = {"size", "passCount"}
  /\ firstTime = TRUE /\ wasStarted = FALSE
  /\ startTimedOut = FALSE /\ finishTimedOut = FALSE
  /\ phase = "idle" /\ softTrigger = FALSE
  /\ reload = [size |-> 0, passes |-> 0]
  /\ tag = 0
  /\ buffer = [p \in Positions |-> [tag |-> NoTag, passes |-> 0]]
  /\ wave = NoWave

----------------------------------------------------------------------------
(* acquisitionStart.  The parameters are taken over whether or not the     *)
(* recorder accepts the START write.  The earlier write of a changed size, *)
(* without START, is ignored by the recorder.                              *)
TakeParameters == acqSize' = size /\ acqPassCount' = passCount
TakeNothing == UNCHANGED taken
Arm ==
  /\ phase' = "armed"
  /\ softTrigger' = FALSE
  /\ reload' = [size |-> size, passes |-> passCount]
  /\ wasStarted' = TRUE
  /\ startTimedOut' = FALSE
  /\ UNCHANGED tag
acquisitionStart ==
  /\ TakeParameters
  /\ IF Active THEN UNCHANGED <<recorder, wasStarted, startTimedOut>> ELSE Arm

(* acquisitionCrank, once the parameters have come: the first call.        *)
CrankFirstTime ==
  /\ needParameters = {}
  /\ firstTime
  /\ firstTime' = FALSE
  /\ TakeParameters
  /\ IF Active
     THEN /\ softTrigger' = (softTrigger \/ startTimedOut)
          /\ UNCHANGED <<phase, reload, tag, wasStarted, startTimedOut>>
     ELSE Arm
  /\ UNCHANGED <<parameters, finishTimedOut, buffer, wave>>

(* Still active after 3 seconds: soft trigger.                             *)
SoftTriggerIsDueWhenSet == softTrigger /\ startTimedOut
SoftTriggerIsDue == ~softTrigger /\ startTimedOut
CrankSoftTrigger ==
  /\ needParameters = {} /\ ~firstTime
  /\ Active
  /\ SoftTriggerIsDue
  /\ softTrigger' = TRUE
  /\ UNCHANGED <<phase, reload, tag>>
  /\ UNCHANGED <<parameters, taken, firstTime, wasStarted, timers, buffer, wave>>

(* Found inactive: the 5 seconds begin.                                    *)
CrankFinished ==
  /\ needParameters = {} /\ ~firstTime
  /\ ~Active
  /\ wasStarted
  /\ wasStarted' = FALSE
  /\ finishTimedOut' = FALSE
  /\ UNCHANGED <<parameters, taken, firstTime, startTimedOut, recorder, buffer, wave>>

(* Not read out in 5 seconds: the waveform is given up.                    *)
CancelIsDueWhenStarted == wasStarted /\ finishTimedOut
CancelIsDue == ~wasStarted /\ finishTimedOut
CrankCancel ==
  /\ needParameters = {} /\ ~firstTime
  /\ ~Active
  /\ CancelIsDue
  /\ acquisitionStart
  /\ wave' = [wave EXCEPT !.cancelled = wave # NoWave]
  /\ UNCHANGED <<parameters, firstTime, finishTimedOut, buffer>>

acquisitionCrank ==
  CrankFirstTime \/ CrankSoftTrigger \/ CrankFinished \/ CrankCancel

----------------------------------------------------------------------------
(* acquisitionFetch of the packet at an offset, while inactive.            *)
Offset == Len(wave.samples)
LastOfPacket == Min({Offset + Chunk, acqSize})
scaleByRequested == passCount
scaleBy == acqPassCount
SampleAt(p) ==
  [tag |-> buffer[p].tag, passes |-> buffer[p].passes, scale |-> scaleBy]
Packet == [k \in 1 .. LastOfPacket - Offset |-> SampleAt(Offset + k - 1)]

Header ==
  [NoWave EXCEPT !.tag = tag, !.acqSize = acqSize, !.wanted = size]
WaveBefore == IF Offset = 0 THEN Header ELSE wave

ReadsLastEarly == Offset + 2 * Chunk >= acqSize
ReadsLast == Max({Offset, LastOfPacket}) = acqSize

(* Clients read once they have set the parameters and these are in use.    *)
ClientReady == ~firstTime
Complete == wave # NoWave /\ Offset >= wave.wanted

(* The reply reaches the client, or the client gives up on it.  Replies to *)
(* resent requests come from the command server's cache, so each packet is *)
(* read from the buffer once.                                              *)
FetchPacket ==
  /\ ClientReady /\ ~Complete
  /\ ~Active
  /\ \/ wave' = [WaveBefore EXCEPT !.samples = @ \o Packet]
     \/ wave' = NoWave
  /\ IF ReadsLast
     THEN acquisitionStart
     ELSE TakeNothing /\ UNCHANGED <<recorder, wasStarted, startTimedOut>>
  /\ UNCHANGED <<parameters, firstTime, finishTimedOut, buffer>>

(* An empty reply while active: the client asks again or starts over.      *)
FetchNothing ==
  /\ ClientReady /\ ~Complete
  /\ Active
  /\ wave' \in {wave, NoWave}
  /\ UNCHANGED <<parameters, taken, firstTime, wasStarted, timers, recorder, buffer>>

TakeWaveform ==
  /\ Complete
  /\ wave' = NoWave
  /\ UNCHANGED <<parameters, taken, firstTime, wasStarted, timers, recorder, buffer>>

clampFromBelow(n) == Max({n, MinSize})
clampSize(n) == Min({Max({n, MinSize}), DefaultSize})
acquisitionSetSize(n) ==
  /\ size' = clampSize(n)
  /\ needParameters' = needParameters \ {"size"}
  /\ UNCHANGED <<passCount, taken, firstTime, wasStarted, timers, recorder, buffer, wave>>

clampPassCount(n) == IF n = 0 THEN 1 ELSE Min({n, DefaultPasses})
acquisitionSetPassCount(n) ==
  /\ passCount' = clampPassCount(n)
  /\ needParameters' = needParameters \ {"passCount"}
  /\ UNCHANGED <<size, taken, firstTime, wasStarted, timers, recorder, buffer, wave>>

----------------------------------------------------------------------------
(* The recorder.  An armed recorder starts on the rising edge of the event *)
(* trigger or of the soft trigger bit, whichever it sees first.            *)
Trigger(by) ==
  /\ phase = "armed"
  /\ by = "soft" => softTrigger
  /\ phase' = "acquiring"
  /\ tag' = (tag + 1) % Tags
  /\ UNCHANGED <<softTrigger, reload>>
  /\ UNCHANGED <<parameters, taken, firstTime, wasStarted, timers, buffer, wave>>

(* Only whole words are recorded.                                          *)
Recorded == {p \in Positions : p \div SamplesPerWord < reload.size \div SamplesPerWord}
Finish ==
  /\ phase = "acquiring"
  /\ phase' = "idle"
  /\ buffer' = [p \in Positions |->
       IF p \in Recorded THEN [tag |-> tag, passes |-> reload.passes] ELSE buffer[p]]
  /\ UNCHANGED <<softTrigger, reload, tag>>
  /\ UNCHANGED <<parameters, taken, firstTime, wasStarted, timers, wave>>

(* The passage of time.                                                    *)
StartTimeout ==
  /\ ~startTimedOut /\ startTimedOut' = TRUE
  /\ UNCHANGED <<parameters, taken, firstTime, wasStarted, finishTimedOut, recorder, buffer,
                 wave>>
FinishTimeout ==
  /\ ~finishTimedOut /\ finishTimedOut' = TRUE
  /\ UNCHANGED <<parameters, taken, firstTime, wasStarted, startTimedOut, recorder, buffer,
                 wave>>

Next ==
  \/ acquisitionCrank
  \/ FetchPacket \/ FetchNothing \/ TakeWaveform
  \/ \E n \in Sizes : acquisitionSetSize(n)
  \/ \E n \in PassCounts : acquisitionSetPassCount(n)
  \/ \E by \in {"event", "soft"} : Trigger(by)
  \/ Finish
  \/ StartTimeout \/ FinishTimeout

Spec == Init /\ [][Next]_vars

(* The main loop keeps calling acquisitionCrank, time passes, and the      *)
(* recorder answers a soft trigger and finishes what it started.  Nothing  *)
(* is assumed of event triggers or of the client.                          *)
Fairness ==
  /\ WF_vars(CrankFirstTime) /\ WF_vars(CrankSoftTrigger)
  /\ WF_vars(CrankFinished) /\ WF_vars(CrankCancel)
  /\ WF_vars(StartTimeout) /\ WF_vars(FinishTimeout)
  /\ WF_vars(Trigger("soft")) /\ WF_vars(Finish)
FairSpec == Spec /\ Fairness

----------------------------------------------------------------------------
TypeOK ==
  /\ size \in MinSize .. DefaultSize /\ passCount \in 1 .. DefaultPasses
  /\ acqSize \in 0 .. DefaultSize /\ acqPassCount \in 0 .. DefaultPasses
  /\ needParameters \subseteq {"size", "passCount"}
  /\ firstTime \in BOOLEAN /\ wasStarted \in BOOLEAN
  /\ startTimedOut \in BOOLEAN /\ finishTimedOut \in BOOLEAN
  /\ phase \in {"idle", "armed", "acquiring"}
  /\ softTrigger \in BOOLEAN
  /\ reload \in [size : 0 .. DefaultSize, passes : 0 .. DefaultPasses]
  /\ tag \in 0 .. Tags - 1
  /\ buffer \in [Positions -> Cell]
  /\ wave \in [tag : 0 .. Tags, acqSize : 0 .. DefaultSize, wanted : 0 .. DefaultSize,
               samples : Seq(Sample), cancelled : BOOLEAN]

(* A sample is divided by the number of passes that were added up in it,   *)
(* also when clients change the pass count between the acquisition and its *)
(* readout.                                                                *)
ScaledByItsPasses ==
  \A k \in DOMAIN wave.samples : wave.samples[k].scale = wave.samples[k].passes

(* A complete waveform holds samples of a single acquisition, the one its  *)
(* header describes, unless the 5 second rule struck in the middle of the  *)
(* readout or the client wanted more than was acquired.                    *)
OneAcquisition ==
  Complete /\ ~wave.cancelled /\ wave.wanted = wave.acqSize =>
    \A k \in DOMAIN wave.samples : wave.samples[k].tag = wave.tag

(* With the parameters in place, an acquisition ends whether or not an     *)
(* event trigger ever comes.                                               *)
Ready == needParameters = {}
AcquisitionCompletes == Ready /\ Active ~> ~Active

(* With the parameters in place, the recorder is armed again and again,    *)
(* even for a client that never reads or stops reading in the middle.      *)
RecorderIsRearmed == Ready /\ ~Active ~> Active

(* A waveform that a client reads is sound in all of its parts.            *)
ReadoutIsSound == TypeOK /\ ScaledByItsPasses /\ OneAcquisition
=============================================================================
