------------------------ MODULE BcmAcquisitionProofs ------------------------
(***************************************************************************)
(* A waveform that a client reads from the bunch current monitor is of one *)
(* acquisition and rightly scaled, for buffers, packets and words of any   *)
(* size, and whatever the clients set and when.                            *)
(***************************************************************************)
EXTENDS BcmAcquisition, SequenceTheorems, TLAPS

(* Only whole words are recorded.  The processor does not round what a     *)
(* client asks for, and the samples of a word in part are left from an     *)
(* earlier acquisition: clients have to ask for whole words.               *)
WordSize(n) == n % SamplesPerWord = 0
WholeWords == \A n \in Sizes : WordSize(clampSize(n))

(* Nothing is recorded or read before the first crank; after it, what the  *)
(* processor took over is what the recorder was armed with.                *)
FirstInv == firstTime => phase = "idle" /\ wave = NoWave
ReloadInv ==
  ~firstTime => /\ reload = [size |-> acqSize, passes |-> acqPassCount]
                /\ acqSize >= MinSize
WordsInv == WordSize(size) /\ (~firstTime => WordSize(acqSize))

(* An inactive recorder has recorded all that it was asked for.            *)
RecordedInv ==
  ~firstTime /\ phase = "idle" =>
    \A p \in Recorded : buffer[p].tag = tag /\ buffer[p].passes = acqPassCount

(* A waveform that will be complete is of one acquisition so far, and of   *)
(* the latest one as long as samples are missing: the recorder stays       *)
(* inactive until the last one has been handed out.                        *)
Sound(w) == w # NoWave /\ ~w.cancelled /\ w.wanted = w.acqSize
WaveInv ==
  Sound(wave) =>
    /\ \A k \in DOMAIN wave.samples : wave.samples[k].tag = wave.tag
    /\ Offset < wave.wanted => /\ ~firstTime /\ phase = "idle"
                               /\ wave.tag = tag /\ wave.acqSize = acqSize

ReadoutInv ==
  /\ TypeOK /\ FirstInv /\ ReloadInv /\ WordsInv /\ RecordedInv /\ WaveInv
  /\ ScaledByItsPasses

----------------------------------------------------------------------------
LEMMA MinOfTwo ==
  ASSUME NEW a \in Int, NEW b \in Int
  PROVE  Min({a, b}) = IF a <= b THEN a ELSE b
BY DEF Min

LEMMA MaxOfTwo ==
  ASSUME NEW a \in Int, NEW b \in Int
  PROVE  Max({a, b}) = IF a >= b THEN a ELSE b
BY DEF Max

(* A sample of whole words is in one of these words.                       *)
LEMMA InWholeWord ==
  ASSUME NEW n \in Nat, NEW w \in Nat \ {0}, NEW p \in Nat, n % w = 0, p < n
  PROVE  p \div w < n \div w
<1>1. n = w * (n \div w) /\ n \div w \in Int
  OBVIOUS
<1>2. p = w * (p \div w) + (p % w) /\ p \div w \in Int /\ p % w >= 0
  OBVIOUS
<1>3. SUFFICES ASSUME p \div w >= n \div w PROVE FALSE
  BY <1>1, <1>2
<1>4. w * (p \div w) >= w * (n \div w)
  BY <1>1, <1>2, <1>3
<1> QED BY <1>1, <1>2, <1>4

LEMMA ClampedSize ==
  ASSUME NEW n \in Sizes
  PROVE  clampSize(n) \in MinSize .. DefaultSize
BY SizesAssumption, MinOfTwo, MaxOfTwo DEF clampSize

LEMMA ClampedPasses ==
  ASSUME NEW n \in PassCounts
  PROVE  clampPassCount(n) \in 1 .. DefaultPasses
BY PassesAssumption, MinOfTwo DEF clampPassCount

----------------------------------------------------------------------------
(* What a fetch reads, and what the reader then holds.                     *)
Waves ==
  [tag : 0 .. Tags, acqSize : 0 .. DefaultSize, wanted : 0 .. DefaultSize,
   samples : Seq(Sample), cancelled : BOOLEAN]

LEMMA PacketIs ==
  ASSUME TypeOK
  PROVE  /\ Packet \in Seq(Sample) /\ Offset \in Nat /\ LastOfPacket \in Int
         /\ Offset + Len(Packet) = Max({Offset, LastOfPacket})
         /\ \A k \in 1 .. Len(Packet) : /\ Offset + k - 1 \in 0 .. acqSize - 1
                                       /\ Packet[k] = SampleAt(Offset + k - 1)
<1> DEFINE n == IF Offset < LastOfPacket THEN LastOfPacket - Offset ELSE 0
<1>1. Offset \in Nat
  BY DEF TypeOK, Offset
<1>2. LastOfPacket = IF Offset + Chunk <= acqSize THEN Offset + Chunk ELSE acqSize
  BY <1>1, MinOfTwo, SizesAssumption, SMTT(20) DEF TypeOK, LastOfPacket
<1>3. LastOfPacket \in Int /\ LastOfPacket <= acqSize /\ n \in Nat
  BY <1>1, <1>2, SizesAssumption DEF TypeOK
<1>4. 1 .. LastOfPacket - Offset = 1 .. n
  BY <1>1, <1>3
<1>5. \A k \in 1 .. n : Offset + k - 1 \in 0 .. acqSize - 1
  BY <1>1, <1>3 DEF TypeOK
<1>6. \A k \in 1 .. n : SampleAt(Offset + k - 1) \in Sample
  <2>1. ASSUME NEW p \in Positions PROVE SampleAt(p) \in Sample
    <3>1. buffer[p] \in Cell /\ acqPassCount \in 0 .. DefaultPasses
      BY <2>1 DEF TypeOK
    <3> QED BY <3>1 DEF Cell, Sample, SampleAt, scaleBy
  <2>2. \A k \in 1 .. n : Offset + k - 1 \in Positions
    BY <1>5, SizesAssumption DEF TypeOK, Positions
  <2> QED BY <2>1, <2>2
<1>7. Packet = [k \in 1 .. n |-> SampleAt(Offset + k - 1)]
  BY <1>4 DEF Packet
<1>8. Packet \in Seq(Sample) /\ Len(Packet) = n
  <2> HIDE DEF n
  <2> QED BY <1>3, <1>6, <1>7
<1>9. Offset + n = Max({Offset, LastOfPacket})
  BY <1>1, <1>3, MaxOfTwo
<1>10. \A k \in 1 .. n : Packet[k] = SampleAt(Offset + k - 1)
  BY <1>7
<1> HIDE DEF n
<1> QED BY <1>1, <1>3, <1>5, <1>8, <1>9, <1>10

(* Every sample that is read was added up in as many passes as it is       *)
(* scaled by, and is of the latest acquisition.                            *)
LEMMA ReadSamples ==
  ASSUME ReadoutInv, ~firstTime, ~Active, NEW k \in 1 .. Len(Packet)
  PROVE  /\ Packet[k].scale = Packet[k].passes
         /\ Packet[k].tag = tag
<1> DEFINE p == Offset + k - 1
<1>1. p \in 0 .. acqSize - 1 /\ Packet[k] = SampleAt(p)
  BY PacketIs DEF ReadoutInv
<1>2. acqSize \in 0 .. DefaultSize /\ acqSize % SamplesPerWord = 0 /\ reload.size = acqSize
  BY DEF ReadoutInv, TypeOK, WordsInv, WordSize, ReloadInv
<1>3. p \div SamplesPerWord < acqSize \div SamplesPerWord
  <2>1. p \in Nat /\ acqSize \in Nat /\ p < acqSize /\ SamplesPerWord \in Nat \ {0}
    BY <1>1, <1>2, SizesAssumption
  <2> HIDE DEF p
  <2> QED BY <1>2, <2>1, InWholeWord
<1>4. p \in Recorded
  <2>1. p \in Positions
    BY <1>1, <1>2, SizesAssumption DEF Positions
  <2> QED BY <1>2, <1>3, <2>1 DEF Recorded
<1>5. buffer[p].tag = tag /\ buffer[p].passes = acqPassCount
  BY <1>4 DEF ReadoutInv, RecordedInv, Active
<1> HIDE DEF p
<1> QED BY <1>1, <1>5 DEF SampleAt, scaleBy

(* The reader's waveform with one more packet.                             *)
LEMMA OnePacketMore ==
  ASSUME TypeOK
  PROVE  LET w == [WaveBefore EXCEPT !.samples = @ \o Packet]
         IN  /\ w \in Waves
             /\ w.samples = wave.samples \o Packet
             /\ \/ /\ Offset = 0 /\ w.tag = tag /\ w.acqSize = acqSize
                   /\ w.wanted = size /\ w.cancelled = FALSE
                \/ /\ Offset # 0 /\ w.tag = wave.tag /\ w.acqSize = wave.acqSize
                   /\ w.wanted = wave.wanted /\ w.cancelled = wave.cancelled
<1>1. wave \in Waves
  BY DEF TypeOK, Waves
<1>2. Packet \in Seq(Sample)
  BY PacketIs
<1>3. CASE Offset = 0
  <2>1. wave.samples = <<>>
    BY <1>1, <1>3 DEF Waves, Offset
  <2>2. NoWave \in Waves /\ NoWave.samples = <<>> /\ NoWave.cancelled = FALSE
    BY SizesAssumption, TagsAssumption DEF NoWave, NoTag, Waves
  <2>3. tag \in 0 .. Tags /\ acqSize \in 0 .. DefaultSize /\ size \in 0 .. DefaultSize
    BY SizesAssumption, TagsAssumption DEF TypeOK
  <2>4. WaveBefore = [NoWave EXCEPT !.tag = tag, !.acqSize = acqSize, !.wanted = size]
    BY <1>3 DEF WaveBefore, Header
  <2>5. /\ WaveBefore \in Waves /\ WaveBefore.samples = <<>>
        /\ WaveBefore.tag = tag /\ WaveBefore.acqSize = acqSize /\ WaveBefore.wanted = size
        /\ WaveBefore.cancelled = FALSE
    BY <2>2, <2>3, <2>4 DEF Waves
  <2> QED BY <1>2, <1>3, <2>1, <2>5 DEF Waves
<1>4. CASE Offset # 0
  <2>1. WaveBefore = wave
    BY <1>4 DEF WaveBefore
  <2>2. wave.samples \o Packet \in Seq(Sample)
    BY <1>1, <1>2 DEF Waves
  <2> QED BY <1>1, <1>4, <2>1, <2>2 DEF Waves
<1> QED BY <1>3, <1>4

----------------------------------------------------------------------------
LEMMA Initial == ASSUME Init, WholeWords PROVE ReadoutInv
<1>1. TypeOK
  <2>1. NoWave \in Waves
    BY SizesAssumption, TagsAssumption DEF NoWave, NoTag, Waves
  <2>2. buffer \in [Positions -> Cell] /\ tag \in 0 .. Tags - 1
    BY PassesAssumption, TagsAssumption DEF Init, Cell, NoTag
  <2>3. /\ size \in MinSize .. DefaultSize /\ passCount \in 1 .. DefaultPasses
        /\ acqSize \in 0 .. DefaultSize /\ acqPassCount \in 0 .. DefaultPasses
        /\ reload \in [size : 0 .. DefaultSize, passes : 0 .. DefaultPasses]
    BY SizesAssumption, PassesAssumption DEF Init
  <2> QED BY <2>1, <2>2, <2>3 DEF Init, TypeOK, Waves
<1>2. FirstInv /\ ReloadInv /\ WordsInv /\ RecordedInv
  BY SizesAssumption DEF Init, FirstInv, ReloadInv, WordsInv, WordSize, RecordedInv
<1>3. WaveInv
  BY DEF Init, WaveInv, Sound
<1>4. ScaledByItsPasses
  BY DEF Init, ScaledByItsPasses, NoWave
<1> QED BY <1>1, <1>2, <1>3, <1>4 DEF ReadoutInv

(* The recorder is armed with what the clients asked for last.             *)
LEMMA Arms ==
  ASSUME ReadoutInv, ~Active, TakeParameters, Arm, firstTime' = FALSE,
         UNCHANGED <<parameters, finishTimedOut, buffer>>
  PROVE  /\ FirstInv' /\ ReloadInv' /\ WordsInv' /\ RecordedInv'
         /\ wave' \in Waves => TypeOK'
<1>1. TypeOK /\ WordsInv
  BY DEF ReadoutInv
<1>2. /\ size' = size /\ passCount' = passCount /\ needParameters' = needParameters
      /\ acqSize' = size /\ acqPassCount' = passCount /\ firstTime' = FALSE
      /\ phase' = "armed" /\ softTrigger' = FALSE /\ wasStarted' = TRUE
      /\ reload' = [size |-> size, passes |-> passCount]
      /\ startTimedOut' = FALSE /\ finishTimedOut' = finishTimedOut
      /\ tag' = tag /\ buffer' = buffer
  BY DEF TakeParameters, Arm, parameters
<1>3. FirstInv' /\ RecordedInv'
  BY <1>2 DEF FirstInv, RecordedInv
<1>4. ReloadInv' /\ WordsInv'
  BY <1>1, <1>2, SizesAssumption DEF TypeOK, WordsInv, WordSize, ReloadInv
<1>5. /\ acqSize' \in 0 .. DefaultSize /\ acqPassCount' \in 0 .. DefaultPasses
      /\ reload' \in [size : 0 .. DefaultSize, passes : 0 .. DefaultPasses]
  BY <1>1, <1>2, SizesAssumption DEF TypeOK
<1>6. ASSUME wave' \in Waves PROVE TypeOK'
  BY <1>1, <1>2, <1>5, <1>6 DEF TypeOK, Waves
<1> QED BY <1>3, <1>4, <1>6

LEMMA FirstTimePreserves == ASSUME ReadoutInv, CrankFirstTime PROVE ReadoutInv'
<1>1. ~Active /\ wave = NoWave /\ wave \in Waves /\ wave' = wave
  BY DEF ReadoutInv, FirstInv, CrankFirstTime, Active, TypeOK, Waves
<1>2. TakeParameters /\ Arm
  BY <1>1 DEF CrankFirstTime
<1>3. FirstInv' /\ ReloadInv' /\ WordsInv' /\ RecordedInv' /\ TypeOK'
  BY <1>1, <1>2, Arms DEF CrankFirstTime
<1>4. WaveInv' /\ ScaledByItsPasses'
  BY <1>1 DEF WaveInv, Sound, ScaledByItsPasses, ReadoutInv
<1> QED BY <1>3, <1>4 DEF ReadoutInv

LEMMA CancelPreserves == ASSUME ReadoutInv, CrankCancel PROVE ReadoutInv'
<1>1. ~Active /\ wave \in Waves /\ wave' = [wave EXCEPT !.cancelled = wave # NoWave]
  BY DEF ReadoutInv, CrankCancel, TypeOK, Waves
<1>2. TakeParameters /\ Arm
  BY <1>1 DEF CrankCancel, acquisitionStart
<1>3. wave' \in Waves /\ wave'.samples = wave.samples
  BY <1>1 DEF Waves
<1>4. FirstInv' /\ ReloadInv' /\ WordsInv' /\ RecordedInv' /\ TypeOK'
  <2>1. firstTime' = FALSE
    BY DEF CrankCancel, ReadoutInv, TypeOK
  <2> QED BY <1>1, <1>2, <1>3, <2>1, Arms DEF CrankCancel
<1>5. ~Sound(wave')
  <2>1. CASE wave = NoWave
    <3>1. NoWave.wanted = 0 /\ NoWave.acqSize = 0 /\ NoWave.cancelled = FALSE
      BY DEF NoWave
    <3>2. wave' = NoWave
      BY <1>1, <2>1, <3>1 DEF NoWave
    <3> QED BY <3>2 DEF Sound
  <2>2. CASE wave # NoWave
    BY <1>1, <2>2 DEF Sound, Waves
  <2> QED BY <2>1, <2>2
<1>6. WaveInv'
  BY <1>5 DEF WaveInv
<1>7. ScaledByItsPasses'
  BY <1>3 DEF ScaledByItsPasses, ReadoutInv
<1> QED BY <1>4, <1>6, <1>7 DEF ReadoutInv

(* A step of the processor or of the clients that touches neither the      *)
(* recorder nor what was taken over.                                       *)
LEMMA LeavesRecorder ==
  ASSUME ReadoutInv, UNCHANGED <<taken, firstTime, phase, reload, tag, buffer>>,
         wave' \in {wave, NoWave},
         size' \in MinSize .. DefaultSize, WordSize(size'),
         passCount' \in 1 .. DefaultPasses, needParameters' \subseteq needParameters,
         wasStarted' \in BOOLEAN, softTrigger' \in BOOLEAN,
         startTimedOut' \in BOOLEAN, finishTimedOut' \in BOOLEAN
  PROVE  ReadoutInv'
<1>1. /\ acqSize' = acqSize /\ acqPassCount' = acqPassCount /\ firstTime' = firstTime
      /\ phase' = phase /\ reload' = reload /\ tag' = tag /\ buffer' = buffer
  BY DEF taken
<1>2. FirstInv' /\ ReloadInv' /\ WordsInv'
  BY <1>1 DEF ReadoutInv, FirstInv, ReloadInv, WordsInv, WordSize
<1>3. Recorded' = Recorded
  BY <1>1 DEF Recorded
<1>4. RecordedInv'
  BY <1>1, <1>3 DEF ReadoutInv, RecordedInv
<1>5. wave \in Waves /\ NoWave \in Waves
  BY SizesAssumption, TagsAssumption DEF ReadoutInv, TypeOK, Waves, NoWave, NoTag
<1>6. TypeOK'
  BY <1>1, <1>5 DEF ReadoutInv, TypeOK, Waves
<1>7. WaveInv' /\ ScaledByItsPasses'
  <2>1. CASE wave' = wave
    BY <1>1, <2>1 DEF ReadoutInv, WaveInv, Offset, ScaledByItsPasses
  <2>2. CASE wave' = NoWave
    BY <2>2 DEF WaveInv, Sound, ScaledByItsPasses, NoWave
  <2> QED BY <2>1, <2>2
<1> QED BY <1>2, <1>4, <1>6, <1>7 DEF ReadoutInv

LEMMA QuietPreserves ==
  ASSUME ReadoutInv,
         \/ CrankSoftTrigger \/ CrankFinished \/ FetchNothing \/ TakeWaveform
         \/ StartTimeout \/ FinishTimeout
  PROVE  ReadoutInv'
<1>1. /\ size \in MinSize .. DefaultSize /\ WordSize(size) /\ passCount \in 1 .. DefaultPasses
      /\ wasStarted \in BOOLEAN /\ softTrigger \in BOOLEAN
      /\ startTimedOut \in BOOLEAN /\ finishTimedOut \in BOOLEAN
  BY DEF ReadoutInv, TypeOK, WordsInv
<1>2. /\ UNCHANGED <<taken, firstTime, phase, reload, tag, buffer, parameters>>
      /\ wave' \in {wave, NoWave}
      /\ wasStarted' \in BOOLEAN /\ softTrigger' \in BOOLEAN
      /\ startTimedOut' \in BOOLEAN /\ finishTimedOut' \in BOOLEAN
  BY <1>1 DEF CrankSoftTrigger, CrankFinished, FetchNothing, TakeWaveform, StartTimeout,
     FinishTimeout, timers, recorder
<1> QED BY <1>1, <1>2, LeavesRecorder DEF parameters

LEMMA SettersPreserve ==
  ASSUME ReadoutInv, WholeWords,
         \/ \E n \in Sizes : acquisitionSetSize(n)
         \/ \E n \in PassCounts : acquisitionSetPassCount(n)
  PROVE  ReadoutInv'
<1>1. /\ size \in MinSize .. DefaultSize /\ WordSize(size) /\ passCount \in 1 .. DefaultPasses
      /\ wasStarted \in BOOLEAN /\ softTrigger \in BOOLEAN
      /\ startTimedOut \in BOOLEAN /\ finishTimedOut \in BOOLEAN
  BY DEF ReadoutInv, TypeOK, WordsInv
<1>2. /\ UNCHANGED <<taken, firstTime, phase, reload, tag, buffer, wave, wasStarted, timers,
                     softTrigger>>
      /\ needParameters' \subseteq needParameters
  BY DEF acquisitionSetSize, acquisitionSetPassCount, recorder
<1>3. size' \in MinSize .. DefaultSize /\ WordSize(size') /\ passCount' \in 1 .. DefaultPasses
  BY <1>1, ClampedSize, ClampedPasses DEF WholeWords, acquisitionSetSize, acquisitionSetPassCount
<1> QED BY <1>1, <1>2, <1>3, LeavesRecorder DEF timers

LEMMA TriggerPreserves ==
  ASSUME ReadoutInv, NEW by \in {"event", "soft"}, Trigger(by) PROVE ReadoutInv'
<1>1. /\ size' = size /\ passCount' = passCount /\ needParameters' = needParameters
      /\ acqSize' = acqSize /\ acqPassCount' = acqPassCount /\ firstTime' = firstTime
      /\ phase' = "acquiring" /\ reload' = reload /\ buffer' = buffer /\ wave' = wave
      /\ wasStarted' = wasStarted /\ softTrigger' = softTrigger
      /\ startTimedOut' = startTimedOut /\ finishTimedOut' = finishTimedOut
      /\ phase = "armed" /\ tag' = (tag + 1) % Tags
  BY DEF Trigger, parameters, taken, timers
<1>2. tag' \in 0 .. Tags - 1
  BY <1>1, TagsAssumption DEF ReadoutInv, TypeOK
<1>3. TypeOK'
  BY <1>1, <1>2 DEF ReadoutInv, TypeOK
<1>4. FirstInv' /\ ReloadInv' /\ WordsInv' /\ RecordedInv'
  BY <1>1 DEF ReadoutInv, FirstInv, ReloadInv, WordsInv, WordSize, RecordedInv
<1>5. WaveInv' /\ ScaledByItsPasses'
  BY <1>1 DEF ReadoutInv, WaveInv, Sound, Offset, ScaledByItsPasses
<1> QED BY <1>3, <1>4, <1>5 DEF ReadoutInv

LEMMA FinishPreserves == ASSUME ReadoutInv, Finish PROVE ReadoutInv'
<1>1. /\ size' = size /\ passCount' = passCount /\ needParameters' = needParameters
      /\ acqSize' = acqSize /\ acqPassCount' = acqPassCount /\ firstTime' = firstTime
      /\ phase' = "idle" /\ reload' = reload /\ wave' = wave
      /\ wasStarted' = wasStarted /\ softTrigger' = softTrigger
      /\ startTimedOut' = startTimedOut /\ finishTimedOut' = finishTimedOut
      /\ phase = "acquiring" /\ tag' = tag
  BY DEF Finish, parameters, taken, timers
<1>2. ~firstTime
  BY <1>1 DEF ReadoutInv, FirstInv
<1>3. reload \in [size : 0 .. DefaultSize, passes : 0 .. DefaultPasses]
      /\ reload.passes = acqPassCount /\ tag \in 0 .. Tags
  BY <1>2, TagsAssumption DEF ReadoutInv, TypeOK, ReloadInv
<1>4. [tag |-> tag, passes |-> reload.passes] \in Cell
  BY <1>3 DEF Cell
<1>5. buffer' \in [Positions -> Cell]
  BY <1>4 DEF Finish, ReadoutInv, TypeOK
<1>6. TypeOK'
  BY <1>1, <1>5 DEF ReadoutInv, TypeOK
<1>7. RecordedInv'
  <2>1. Recorded' = Recorded /\ Recorded \subseteq Positions
    BY <1>1 DEF Recorded
  <2>2. \A p \in Recorded : buffer'[p] = [tag |-> tag, passes |-> reload.passes]
    BY <2>1 DEF Finish
  <2> QED BY <1>1, <1>3, <2>1, <2>2 DEF RecordedInv
<1>8. FirstInv' /\ ReloadInv' /\ WordsInv'
  BY <1>1, <1>2 DEF ReadoutInv, FirstInv, ReloadInv, WordsInv, WordSize
<1>9. WaveInv' /\ ScaledByItsPasses'
  BY <1>1 DEF ReadoutInv, WaveInv, Sound, Offset, ScaledByItsPasses
<1> QED BY <1>6, <1>7, <1>8, <1>9 DEF ReadoutInv

LEMMA InConcat ==
  ASSUME NEW S, NEW s \in Seq(S), NEW t \in Seq(S), NEW k \in DOMAIN (s \o t)
  PROVE  \/ k \in DOMAIN s /\ (s \o t)[k] = s[k]
         \/ \E j \in 1 .. Len(t) : (s \o t)[k] = t[j]
<1>1. k \in 1 .. Len(s) + Len(t) /\ Len(s) \in Nat /\ Len(t) \in Nat
  OBVIOUS
<1>2. CASE k <= Len(s)
  BY <1>1, <1>2
<1>3. CASE k > Len(s)
  <2>1. k - Len(s) \in 1 .. Len(t) /\ (s \o t)[k] = t[k - Len(s)]
    BY <1>1, <1>3
  <2> QED BY <2>1
<1> QED BY <1>1, <1>2, <1>3

LEMMA PacketPreserves ==
  ASSUME ReadoutInv, ~firstTime, ~Active, ~Complete,
         NEW w, w = [WaveBefore EXCEPT !.samples = @ \o Packet]
  PROVE  /\ w \in Waves /\ Len(w.samples) = Max({Offset, LastOfPacket})
         /\ \A k \in DOMAIN w.samples : w.samples[k].scale = w.samples[k].passes
         /\ Sound(w) => /\ w.tag = tag /\ w.acqSize = acqSize
                        /\ \A k \in DOMAIN w.samples : w.samples[k].tag = w.tag
<1>1. TypeOK /\ wave.samples \in Seq(Sample) /\ Offset = Len(wave.samples)
  BY DEF ReadoutInv, TypeOK, Offset
<1>2. /\ Packet \in Seq(Sample)
      /\ Offset + Len(Packet) = Max({Offset, LastOfPacket})
  BY <1>1, PacketIs
<1>3. /\ w \in Waves /\ w.samples = wave.samples \o Packet
      /\ \/ Offset = 0 /\ w.tag = tag /\ w.acqSize = acqSize
         \/ /\ Offset # 0 /\ w.tag = wave.tag /\ w.acqSize = wave.acqSize
            /\ w.wanted = wave.wanted /\ w.cancelled = wave.cancelled
  BY <1>1, OnePacketMore
<1>4. Len(w.samples) = Max({Offset, LastOfPacket})
  BY <1>1, <1>2, <1>3
<1>5. \A k \in DOMAIN w.samples : \/ k \in DOMAIN wave.samples /\ w.samples[k] = wave.samples[k]
                                 \/ \E j \in 1 .. Len(Packet) : w.samples[k] = Packet[j]
  <2>1. ASSUME NEW k \in DOMAIN (wave.samples \o Packet)
        PROVE  \/ k \in DOMAIN wave.samples /\ (wave.samples \o Packet)[k] = wave.samples[k]
               \/ \E j \in 1 .. Len(Packet) : (wave.samples \o Packet)[k] = Packet[j]
    <3>1. wave.samples \in Seq(Sample) /\ Packet \in Seq(Sample)
      BY <1>1, <1>2
    <3> QED BY <2>1, <3>1, InConcat
  <2> QED BY <1>3, <2>1, ZenonT(30)
<1>6. \A k \in DOMAIN w.samples : w.samples[k].scale = w.samples[k].passes
  BY <1>5, ReadSamples DEF ReadoutInv, ScaledByItsPasses
<1>7. ASSUME Sound(w)
      PROVE  /\ w.tag = tag /\ w.acqSize = acqSize
             /\ \A k \in DOMAIN wave.samples : wave.samples[k].tag = tag
  <2>1. CASE Offset = 0
    <3>1. wave.samples \in Seq(Sample) /\ Len(wave.samples) = 0
      BY <1>1, <2>1
    <3>2. DOMAIN wave.samples = 1 .. 0
      BY <3>1, LenProperties
    <3> QED BY <1>3, <2>1, <3>2
  <2>2. CASE Offset # 0
    <3>1. wave # NoWave
      BY <1>1, <2>2 DEF NoWave
    <3>2. Sound(wave) /\ Offset < wave.wanted
      BY <1>1, <1>3, <1>7, <2>2, <3>1 DEF Sound, Complete, ReadoutInv, TypeOK
    <3> QED BY <1>3, <2>2, <3>2 DEF ReadoutInv, WaveInv
  <2> QED BY <2>1, <2>2
<1>8. ASSUME Sound(w), NEW k \in DOMAIN w.samples PROVE w.samples[k].tag = tag
  <2>1. CASE k \in DOMAIN wave.samples /\ w.samples[k] = wave.samples[k]
    BY <1>7, <1>8, <2>1
  <2>2. CASE \E j \in 1 .. Len(Packet) : w.samples[k] = Packet[j]
    BY <2>2, ReadSamples
  <2> QED BY <1>5, <1>8, <2>1, <2>2
<1> QED BY <1>3, <1>4, <1>6, <1>7, <1>8

LEMMA FetchPreserves == ASSUME ReadoutInv, FetchPacket PROVE ReadoutInv'
<1>1. /\ ~firstTime /\ firstTime' = FALSE /\ ~Active /\ ~Complete
      /\ UNCHANGED <<parameters, finishTimedOut, buffer>>
  BY DEF FetchPacket, ClientReady, ReadoutInv, TypeOK
<1>2. CASE wave' = NoWave
  <2>1. NoWave \in Waves
    BY SizesAssumption, TagsAssumption DEF Waves, NoWave, NoTag
  <2>2. WaveInv' /\ ScaledByItsPasses'
    BY <1>2 DEF WaveInv, Sound, ScaledByItsPasses, NoWave
  <2>3. CASE ReadsLast
    <3>1. TakeParameters /\ Arm
      BY <1>1, <2>3 DEF FetchPacket, acquisitionStart
    <3> QED BY <1>1, <1>2, <2>1, <2>2, <3>1, Arms DEF ReadoutInv
  <2>4. CASE ~ReadsLast
    <3>1. UNCHANGED <<taken, firstTime, phase, reload, tag, buffer, parameters, wasStarted,
                      softTrigger, startTimedOut, finishTimedOut>>
      BY <1>1, <2>4 DEF FetchPacket, TakeNothing, recorder
    <3> QED BY <1>2, <3>1, LeavesRecorder DEF parameters, ReadoutInv, TypeOK, WordsInv
  <2> QED BY <2>3, <2>4
<1>3. CASE wave' = [WaveBefore EXCEPT !.samples = @ \o Packet]
  <2>1. /\ wave' \in Waves /\ Offset' = Max({Offset, LastOfPacket})
        /\ \A k \in DOMAIN wave'.samples : wave'.samples[k].scale = wave'.samples[k].passes
        /\ Sound(wave') => /\ wave'.tag = tag /\ wave'.acqSize = acqSize
                           /\ \A k \in DOMAIN wave'.samples : wave'.samples[k].tag = wave'.tag
    BY <1>1, <1>3, PacketPreserves DEF Offset
  <2>2. ScaledByItsPasses'
    BY <2>1 DEF ScaledByItsPasses
  <2>3. CASE ReadsLast
    <3>1. TakeParameters /\ Arm
      BY <1>1, <2>3 DEF FetchPacket, acquisitionStart
    <3>2. Sound(wave') => Offset' = wave'.wanted
      BY <2>1, <2>3 DEF ReadsLast, Sound
    <3>3. WaveInv'
      BY <2>1, <3>2 DEF WaveInv, Waves
    <3> QED BY <1>1, <2>1, <2>2, <3>1, <3>3, Arms DEF ReadoutInv
  <2>4. CASE ~ReadsLast
    <3>1. UNCHANGED <<taken, firstTime, phase, reload, tag, buffer, parameters, wasStarted,
                      softTrigger, startTimedOut, finishTimedOut>>
      BY <1>1, <2>4 DEF FetchPacket, TakeNothing, recorder
    <3>2. UNCHANGED <<acqSize, acqPassCount, size, passCount, needParameters>>
      BY <3>1 DEF taken, parameters
    <3>3. TypeOK'
      BY <2>1, <3>1, <3>2 DEF ReadoutInv, TypeOK, Waves
    <3>4. FirstInv' /\ ReloadInv' /\ WordsInv'
      BY <1>1, <3>1, <3>2 DEF ReadoutInv, FirstInv, ReloadInv, WordsInv, WordSize
    <3>5. Recorded' = Recorded
      BY <3>1 DEF Recorded
    <3>6. RecordedInv'
      BY <3>1, <3>2, <3>5 DEF ReadoutInv, RecordedInv
    <3>7. WaveInv'
      BY <1>1, <2>1, <3>1, <3>2 DEF WaveInv, Active
    <3> QED BY <2>2, <3>3, <3>4, <3>6, <3>7 DEF ReadoutInv
  <2> QED BY <2>3, <2>4
<1> QED BY <1>2, <1>3 DEF FetchPacket

LEMMA StepPreserves == ASSUME ReadoutInv, [Next]_vars, WholeWords PROVE ReadoutInv'
<1>1. CASE acquisitionCrank
  BY <1>1, FirstTimePreserves, QuietPreserves, CancelPreserves DEF acquisitionCrank
<1>2. CASE FetchPacket
  BY <1>2, FetchPreserves
<1>3. CASE FetchNothing \/ TakeWaveform \/ StartTimeout \/ FinishTimeout
  BY <1>3, QuietPreserves
<1>4. CASE \/ \E n \in Sizes : acquisitionSetSize(n)
           \/ \E n \in PassCounts : acquisitionSetPassCount(n)
  BY <1>4, SettersPreserve
<1>5. CASE \E by \in {"event", "soft"} : Trigger(by)
  BY <1>5, TriggerPreserves
<1>6. CASE Finish
  BY <1>6, FinishPreserves
<1>7. CASE UNCHANGED vars
  <2>1. UNCHANGED <<taken, firstTime, phase, reload, tag, buffer, parameters, wave, wasStarted,
                    softTrigger, startTimedOut, finishTimedOut>>
    BY <1>7 DEF vars, recorder, timers
  <2> QED BY <2>1, LeavesRecorder DEF parameters, ReadoutInv, TypeOK, WordsInv
<1> QED BY <1>1, <1>2, <1>3, <1>4, <1>5, <1>6, <1>7 DEF Next

(* Every sample that was read is scaled by the passes that were added up   *)
(* in it, and a complete waveform that was not cancelled, of the size that *)
(* was acquired, is of the one acquisition its header tells of, if clients *)
(* ask for whole words.                                                    *)
THEOREM ReadoutSound == ASSUME WholeWords PROVE Spec => []ReadoutIsSound
<1>1. Init => ReadoutInv
  BY Initial
<1>2. ReadoutInv /\ [Next]_vars => ReadoutInv'
  BY StepPreserves
<1>3. ReadoutInv => ReadoutIsSound
  <2>1. ASSUME ReadoutInv PROVE OneAcquisition
    BY <2>1 DEF ReadoutInv, WaveInv, Sound, OneAcquisition, Complete
  <2> QED BY <2>1 DEF ReadoutInv, ReadoutIsSound
<1> QED BY <1>1, <1>2, <1>3, PTL DEF Spec
=============================================================================
