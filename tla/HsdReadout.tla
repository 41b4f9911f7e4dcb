----------------------------- MODULE HsdReadout -----------------------------
(***************************************************************************)
(* Reading the waveforms of the high speed digitizer out, packet by packet *)
(* (software/src/acquisition.c, lines 58 to 500): channels of a bonded     *)
(* group record under the control of the first of them.                    *)
(*                                                                         *)
(* A memory holds samples of one acquisition, which is represented by its  *)
(* number, or is torn; where a sample is in it is the subject of           *)
(* HsdRecorder.  A client sees the status, reads a channel that is full    *)
(* and arms again; others may set modes and arm at any time.               *)
(***************************************************************************)
EXTENDS Integers, Sequences, FiniteSetsExt

CONSTANTS
  Recorders,       \* channel numbers: 0 .. n
  GroupSize,       \* CFG_ADCS_PER_BONDED_GROUP
  PacketWords,     \* words of a reply: capacity
  SamplesPerWord,  \* 32 divided by the width of a sample
  WholeSamples,    \* CONTINUOUS_ACQUISITION_SAMPLES
  SegmentSamples,  \* samples of a segment
  SegmentCount,
  MaxAcquisitions  \* bound: acquisitions, of all channels

HeaderWords == 6
Torn == -1

(* A packet has room for the header and more.                              *)
ASSUME ReadoutAssumption ==
  /\ Recorders \subseteq Nat /\ \A c \in Recorders : 0 .. c \subseteq Recorders
  /\ GroupSize \in Nat \ {0} /\ SamplesPerWord \in Nat \ {0}
  /\ PacketWords \in Nat /\ PacketWords > HeaderWords
  /\ WholeSamples \in Nat /\ SegmentSamples \in Nat /\ SegmentCount \in Nat

VARIABLE ro  \* configuration, recorders, memories, and the client

Member(c) == c % GroupSize # 0
BaseOf(c) == c - (c % GroupSize)
AlwaysItself(c) == c
triggerChannel(c) == IF ro.cfg[c].bonded THEN BaseOf(c) ELSE c
WrittenBy(t) == {c \in Recorders : triggerChannel(c) = t}
Recording(t) == ro.rec[t].active
NotReading == [channel |-> -1, offset |-> 0, samples |-> <<>>, dated |-> 0, mean |-> FALSE]

ReadoutInit ==
  ro = [cfg |-> [c \in Recorders |-> [bonded |-> FALSE, segmented |-> FALSE, mean |-> FALSE]],
        rec |-> [c \in Recorders |-> [active |-> FALSE, full |-> FALSE, tag |-> 0]],
        mem |-> [c \in Recorders |-> 0], count |-> 0, seen |-> {}, steady |-> {},
        words |-> 0, client |-> NotReading]
----------------------------------------------------------------------------
(* acquisitionArm, and the end of the acquisition.  The memories of the    *)
(* channels that a recorder writes are torn from the moment it is armed.   *)
(* History: steady channels have kept their settings since then.           *)
acquisitionArm(t) ==
  /\ ro.count < MaxAcquisitions
  /\ ro' = [ro EXCEPT
       !.count = @ + 1,
       !.rec[t] = [active |-> TRUE, full |-> FALSE, tag |-> ro.count + 1],
       !.mem = [c \in Recorders |-> IF c \in WrittenBy(t) THEN Torn ELSE @[c]],
       !.steady = IF ro.client.channel \in WrittenBy(t) THEN @ \ WrittenBy(t)
                  ELSE @ \cup WrittenBy(t)]
acquisitionDisarm(t) ==
  ro' = [ro EXCEPT !.rec[t].active = FALSE, !.rec[t].full = FALSE,
                   !.steady = IF Recording(t) THEN @ \ WrittenBy(t) ELSE @]
Complete(t) ==
  /\ Recording(t)
  /\ ro' = [ro EXCEPT
       !.rec[t].active = FALSE, !.rec[t].full = TRUE,
       !.mem = [c \in Recorders |-> IF c \in WrittenBy(t) THEN ro.rec[t].tag ELSE @[c]]]

(* Setters of the trigger register and of the modes.  A channel that joins *)
(* or leaves its group under a running recorder has a torn memory.         *)
Unsteady(c) == [ro EXCEPT !.steady = @ \ WrittenBy(c)]
SetBonding(c, b) ==
  /\ Member(c) /\ b # ro.cfg[c].bonded
  /\ ro' = [Unsteady(c) EXCEPT
              !.cfg[c].bonded = b, !.steady = @ \ {c},
              !.mem[c] = IF Recording(BaseOf(c)) \/ Recording(c) THEN Torn ELSE @]
SetSegmented(c, s) ==
  s # ro.cfg[c].segmented /\ ro' = [Unsteady(c) EXCEPT !.cfg[c].segmented = s]
SetMean(c, m) ==
  m # ro.cfg[c].mean /\ ro' = [Unsteady(c) EXCEPT !.cfg[c].mean = m]

(* acquisitionStatus: the FULL bits.                                       *)
StatusOf(c) == ro.rec[IF Member(c) THEN triggerChannel(c) ELSE c]
acquisitionStatus ==
  /\ ro.client = NotReading
  /\ ro' = [ro EXCEPT !.seen = {c \in Recorders : StatusOf(c).full}]

----------------------------------------------------------------------------
(* How many words of a reply are for samples.  The header is put before    *)
(* the room that is left is looked at again.                               *)
RoomAnyhow(offset) == PacketWords
Room(offset) == IF offset = 0 THEN Max({1, PacketWords - HeaderWords}) ELSE PacketWords
Limit(t) == IF ro.cfg[t].segmented THEN SegmentSamples * SegmentCount ELSE WholeSamples

(* acquisitionNormalFetch, acquisitionMeanFetch: samples, or means of the  *)
(* segments, from offset on.  A contiguous waveform is longer than the     *)
(* buffer of the mean and has none.                                        *)
NormalCount(t, offset) == Max({0, Min({Room(offset) * SamplesPerWord, Limit(t) - offset})})
MeanCount(t, offset) ==
  IF ro.cfg[t].segmented THEN Max({0, Min({Room(offset), SegmentCount - offset})}) ELSE 0
NeverActive(t) == FALSE
ChannelIsActive(t) == Recording(t)
acquisitionFetchCount(t, offset) ==
  IF ChannelIsActive(t) THEN 0
  ELSE IF ro.cfg[t].mean THEN MeanCount(t, offset) ELSE NormalCount(t, offset)
WordsOf(t, n) == IF ro.cfg[t].mean THEN n ELSE (n + SamplesPerWord - 1) \div SamplesPerWord
Read(c, first, n) == [k \in 1 .. n |-> [tag |-> ro.mem[c], of |-> first + k - 1]]

(* Reading samples writes to the CSR of the channel they are read from,    *)
(* and it is neither full nor armed any more: also when they are read for  *)
(* the mean of a contiguous waveform, which is then not returned.          *)
ForNoMean(t, offset) ==
  ~ChannelIsActive(t) /\ ro.cfg[t].mean /\ ~ro.cfg[t].segmented /\ offset = 0
AfterReading(c, offset, n) ==
  IF n = 0 /\ ~ForNoMean(triggerChannel(c), offset) THEN ro.rec
  ELSE [ro.rec EXCEPT ![c].active = FALSE, ![c].full = FALSE]
Packet(c, w) ==
  LET t == triggerChannel(c)
      n == acquisitionFetchCount(t, w.offset)
  IN  ro' = [ro EXCEPT
        !.rec = AfterReading(c, w.offset, n),
        !.words = IF n = 0 THEN 0
                  ELSE WordsOf(t, n) + (IF w.offset = 0 THEN HeaderWords ELSE 0),
        !.seen = @ \ {c},
        !.client = IF n = 0 THEN NotReading
                   ELSE [w EXCEPT !.offset = @ + n, !.samples = @ \o Read(c, w.offset, n),
                                  !.dated = IF w.offset = 0 THEN ro.rec[t].tag ELSE @,
                                  !.mean = ro.cfg[t].mean]]
acquisitionFetch ==
  \/ \E c \in ro.seen : ro.client = NotReading /\ Packet(c, [NotReading EXCEPT !.channel = c])
  \/ ro.client # NotReading /\ Packet(ro.client.channel, ro.client)

ReadoutNext ==
  \/ \E c \in Recorders :
       \/ acquisitionArm(c) \/ acquisitionDisarm(c) \/ Complete(c)
       \/ \E b \in BOOLEAN : \/ SetBonding(c, b)
                             \/ SetSegmented(c, b)
                             \/ SetMean(c, b)
  \/ acquisitionStatus \/ acquisitionFetch
ReadoutSpec == ReadoutInit /\ [][ReadoutNext]_ro
----------------------------------------------------------------------------
(* What is read of a channel, first packet to last, is one acquisition in  *)
(* order: that of the date in the header, of whichever channel controls    *)
(* it; unless somebody changed a setting or armed since it was recorded.   *)
AsRecorded ==
  ro.client.channel \in ro.steady =>
    \A k \in DOMAIN ro.client.samples :
      ro.client.samples[k] = [tag |-> ro.client.dated, of |-> k - 1]

(* A reply is not longer than there is room for.                           *)
RepliesFit == ro.words <= PacketWords

(* The packets of a readout fit and are of one acquisition.                *)
PacketsAreSound == AsRecorded /\ RepliesFit
=============================================================================
