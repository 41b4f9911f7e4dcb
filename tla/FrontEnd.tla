------------------------------ MODULE FrontEnd ------------------------------
(***************************************************************************)
(* The analogue front end (software/src/afe.c): for each ADC channel an    *)
(* amplifier and a switch that couples its input, one calibration DAC for  *)
(* all, a training tone, and the trigger levels of the recorders that are  *)
(* set in volts and compared in counts (software/src/acquisition.c).       *)
(*                                                                         *)
(* A reading of the ADC is represented by what was applied to its input.   *)
(***************************************************************************)
EXTENDS Transfers, FiniteSetsExt

CONSTANTS
  ChannelCount, \* channels of the converters; two share a port of the expander
  Gains,        \* gain codes that a client may ask for
  DacValues,    \* calibration voltages that a client may ask for
  Levels,       \* trigger levels that a client may ask for
  FileChunks,   \* lengths of the file for the EEPROM, in chunks of 16 bytes
  FeMaxFaults,  \* bound: transfers, readings and commands to converters that fail
  Oldest        \* bound: ages of copies to the EEPROM that are told apart

ASSUME FrontEndAssumption ==
  /\ ChannelCount \in Nat \ {0} /\ FeMaxFaults \in Nat /\ Oldest \in Nat
  /\ Gains \subseteq 0 .. 255 /\ DacValues \subseteq Int /\ Levels \subseteq Int /\ FileChunks \subseteq Nat

Channels == 0 .. ChannelCount - 1
InOrder == [n \in 1 .. ChannelCount |-> n - 1]
MinimumGain == 32
TrainingGain == 15
GainCodes == Gains \cup {MinimumGain}
Couplings == {"DC", "AC", "CAL", "TRAIN", "OPEN"}
EepromBytes == 256
ChunkBytes == 16
EepromChunks == EepromBytes \div ChunkBytes

VARIABLES
  fe,    \* registers of the front end and what the software keeps of them
  feOp   \* the channel whose gain the last command set, or NoChannel
feVars == <<fe, feOp>>
NoChannel == -1

----------------------------------------------------------------------------
Mates(c) == {d \in Channels : d \div 2 = c \div 2}

(* afeSetCoupling: a byte has the switches of two channels.                *)
PortByteOfOne(s, c, k) == [d \in Mates(c) |-> IF d = c THEN k ELSE "OPEN"]
PortByte(s, c, k) == [d \in Mates(c) |-> IF d = c THEN k ELSE s.shadow[d]]
afeSetCoupling(s, c, k) ==
  LET written == PortByte(s, c, k)
      heard == [s EXCEPT !.switch = [d \in Channels |-> IF d \in Mates(c) THEN written[d] ELSE @[d]]]
      Noted(t) == [t EXCEPT !.shadow[c] = k, !.coupling[c] = k, !.doubt = @ \ Mates(c)]
      Doubted(t) == [t EXCEPT !.doubt = @ \cup Mates(c)]
  IN  {[s |-> IF o.ok THEN Noted(o.s) ELSE Doubted(o.s), ok |-> o.ok] : o \in Send(s, heard)}

(* afeSetDAC: returns the value before, or -1, which a caller may restore. *)
AnyDACValue(v) == v
DACMaximum == 65535
InDACRange(v) == IF v < 0 THEN 0 ELSE IF v > DACMaximum THEN DACMaximum ELSE v
afeSetDAC(s, v) ==
  LET value == InDACRange(v)
      Noted(t) == [t EXCEPT !.ret = s.oldDAC, !.oldDAC = value]
  IN  {[s |-> IF o.ok THEN Noted(o.s) ELSE [o.s EXCEPT !.ret = -1], ok |-> o.ok] :
         o \in Send(s, [s EXCEPT !.dac = value])}

(* setPGA: the calibration voltage that suits a gain is named by the gain. *)
DacFor(gain) == 100 + gain
setPGA(s, c, gain) == [s EXCEPT !.pga[c] = gain, !.calDAC[c] = DacFor(gain)]

rfADCfreezeCalibration(s, c, on) == Send(s, [s EXCEPT !.frozen[c] = on])

(* getCalibrationReading: after a time-out the result before is returned,  *)
(* or what has been accumulated of the next (calibration.v).               *)
Applied(s) == [to |-> s.tone.chan, coupling |-> s.switch[s.tone.chan], pga |-> s.pga[s.tone.chan],
               dac |-> IF s.switch[s.tone.chan] = "CAL" THEN s.dac ELSE 0]
Partly(s) == [Applied(s) EXCEPT !.coupling = "PARTLY"]
getCalibrationReading(s) ==
  {[s |-> [s EXCEPT !.result = Applied(s)], ok |-> TRUE]} \cup
    {[s |-> Failing([s EXCEPT !.result = r]), ok |-> FALSE] :
       r \in IF s.faults > 0 THEN {s.result, Partly(s)} ELSE {}}

(* afeMicrovoltsToCounts, acquisitionSetTriggerLevel: what the counts were *)
(* computed from.                                                          *)
CountsFor(s, c, level) ==
  [level |-> level, dac |-> s.calDAC[c], gnd |-> s.gnd[c], cal |-> s.cal[c],
   offset |-> IF s.coupling[c] = "AC" THEN s.open[c] ELSE s.gnd[c]]
acquisitionSetTriggerLevel(s, c, level) ==
  [s EXCEPT !.level[c] = level, !.counts[c] = CountsFor(s, c, level)]
ScaleNotChanged(s, c) == s
acquisitionScaleChanged(s, c) == acquisitionSetTriggerLevel(s, c, s.level[c])

----------------------------------------------------------------------------
(* calibrate, in its three parts.                                          *)
Tone(s, c, on) == [s EXCEPT !.tone = [chan |-> c, on |-> on]]
Trained(s, c) ==
  Regardless(afeSetCoupling(setPGA(s, c, MinimumGain), c, "TRAIN"), LAMBDA t :
    Regardless(rfADCfreezeCalibration(Tone(setPGA(t, c, TrainingGain), c, TRUE), c, FALSE), LAMBDA u :
      Regardless(getCalibrationReading(u), LAMBDA v :
        Regardless(rfADCfreezeCalibration(v, c, TRUE), LAMBDA w : Done(Tone(w, c, FALSE))))))

TrainingGainKept(s, c) == TrainingGain
CalibrationGain(s, c) == s.gain[c]
Measured(s, c) ==
  Regardless(afeSetCoupling(s, c, "CAL"), LAMBDA t :
    Regardless(getCalibrationReading(setPGA(t, c, CalibrationGain(s, c))), LAMBDA u :
      Regardless(afeSetDAC([u EXCEPT !.gnd[c] = u.result], u.calDAC[c]), LAMBDA v :
        Regardless(getCalibrationReading(v), LAMBDA w :
          Regardless(afeSetDAC([w EXCEPT !.cal[c] = w.result], 0), LAMBDA x :
            Regardless(afeSetCoupling(x, c, "OPEN"), LAMBDA y :
              Regardless(getCalibrationReading(y), LAMBDA z :
                Done(acquisitionScaleChanged([z EXCEPT !.open[c] = z.result], c)))))))))

DacLeftAtZero(old) == 0
RestoredDAC(old) == old
calibrate(s, c) ==
  Regardless(Trained(s, c), LAMBDA t :
    Regardless(afeSetDAC(t, 0), LAMBDA u :
      Regardless(Measured(u, c), LAMBDA v :
        LET toned == IF s.tone.on THEN Tone(v, c, TRUE) ELSE v
        IN  Regardless(afeSetDAC(toned, RestoredDAC(u.ret)), LAMBDA w :
              afeSetCoupling(w, c, s.coupling[c])))))
afeSetGain(s, c, gain) == calibrate([s EXCEPT !.gain[c] = gain], c)

(* afeADCrestart: all inputs at 0 V while the converters restart.          *)
afeADCrestart(s) ==
  LET grounded == Regardless(afeSetDAC(s, 0), LAMBDA t :
        InTurn(t, InOrder, LAMBDA u, c : afeSetCoupling(setPGA(u, c, MinimumGain), c, "CAL")))
      running == Regardless(grounded, LAMBDA t :
        InTurn(t, InOrder, LAMBDA u, c : rfADCfreezeCalibration(u, c, FALSE)))
      uncoupled == Regardless(running, LAMBDA t :
        InTurn(t, InOrder, LAMBDA u, c : afeSetCoupling(u, c, "OPEN")))
  IN  Regardless(uncoupled, LAMBDA t : InTurn(t, InOrder, calibrate))

(* afeStashEEPROM: the file is read chunk by chunk until a read fails or a *)
(* chunk is given up, after 13 attempts; then the rest is left.  The       *)
(* address is sent in one byte and counts on without bound.                *)
NotAdvanced(address) == address
Advanced(address) == address + ChunkBytes
PlaceOf(address) == (address % EepromBytes) \div ChunkBytes
WriteChunk(t, i) ==
  Send(t, [t EXCEPT !.eeprom.cell[PlaceOf(t.eeprom.address)] = [age |-> 0, chunk |-> i],
                    !.eeprom.address = Advanced(@)])
CopyChunk(t, i) ==
  IF t.eeprom.ended THEN Done(t)
  ELSE {[o EXCEPT !.s.eeprom.ended = ~o.ok] : o \in Then(Send(t, t), LAMBDA u : WriteChunk(u, i))}
Aged(cell) == [cell EXCEPT !.age = IF @ < Oldest THEN @ + 1 ELSE @]
Older(e) == [cell |-> [a \in DOMAIN e.cell |-> Aged(e.cell[a])],
             address |-> 0, ended |-> FALSE, whole |-> 0]
afeStashEEPROM(s, n) ==
  {[o EXCEPT !.s.eeprom.whole = IF o.s.eeprom.ended THEN 0 ELSE n] :
     o \in InTurn([s EXCEPT !.eeprom = Older(s.eeprom)], [i \in 1 .. n |-> i], CopyChunk)}

----------------------------------------------------------------------------
(* afeInit, afeStart: every channel open, at minimum gain, calibrated.     *)
Fresh(c) == [to |-> c, coupling |-> "OPEN", pga |-> MinimumGain, dac |-> 0]
Cold ==
  LET each(v) == [c \in Channels |-> v]
      none == Fresh(0)
  IN  [switch |-> each("OPEN"), shadow |-> each("OPEN"), coupling |-> each("OPEN"),
       gain |-> each(MinimumGain), pga |-> each(MinimumGain),
       calDAC |-> each(DacFor(MinimumGain)), gnd |-> each(none), cal |-> each(none),
       open |-> each(none), level |-> each(10), counts |-> each(<<>>),
       dac |-> 0, oldDAC |-> 0, ret |-> 0, tone |-> [chan |-> 0, on |-> FALSE],
       result |-> none, frozen |-> each(FALSE), doubt |-> {},
       eeprom |-> [cell |-> [a \in 0 .. EepromChunks - 1 |-> [age |-> Oldest, chunk |-> 0]],
                   address |-> 0, ended |-> FALSE, whole |-> 0],
       faults |-> 0]
FeInit ==
  \E o \in InTurn(Cold, InOrder, LAMBDA s, c : afeSetGain(s, c, MinimumGain)) :
    /\ fe = [o.s EXCEPT !.faults = FeMaxFaults, !.ret = 0]
    /\ feOp = NoChannel

(* Commands of the EPICS server and of the console.  An old result matters *)
(* only while a reading may fail.                                          *)
Command(op, arg, Outcomes) ==
  \E o \in Outcomes :
    /\ fe' = [o.s EXCEPT !.ret = 0, !.result = IF o.s.faults = 0 THEN Fresh(0) ELSE @]
    /\ feOp' = IF op = "gain" THEN arg ELSE NoChannel

SetGain == \E c \in Channels, g \in Gains : Command("gain", c, afeSetGain(fe, c, g))
SetCoupling ==
  \E c \in Channels, k \in {"DC", "AC"} : Command("coupling", c, afeSetCoupling(fe, c, k))
SetDAC == \E v \in DacValues : Command("dac", v, afeSetDAC(fe, v))
EnableTone == \E on \in BOOLEAN : Command("tone", 0, Done([fe EXCEPT !.tone.on = on]))
SetLevel ==
  \E c \in Channels, v \in Levels : Command("level", c, Done(acquisitionSetTriggerLevel(fe, c, v)))
RestartConverters == Command("restart", 0, afeADCrestart(fe))
StashEEPROM == \E n \in FileChunks : Command("stash", n, afeStashEEPROM(fe, n))

FeNext == SetGain \/ SetCoupling \/ SetDAC \/ EnableTone \/ SetLevel \/ RestartConverters \/ StashEEPROM
FeSpec == FeInit /\ [][FeNext]_feVars
----------------------------------------------------------------------------
FaultFree == fe.faults = FeMaxFaults

(* The kinds of what is kept; the voltages are those of a gain, of a client *)
(* or zero.                                                                *)
FeTypeOK ==
  /\ fe.coupling \in [Channels -> Couplings] /\ fe.switch \in [Channels -> Couplings]
  /\ {fe.dac, fe.oldDAC} \subseteq DacValues \cup {0, DACMaximum} \cup {DacFor(g) : g \in GainCodes}
  /\ \A c \in Channels : fe.calDAC[c] \in {DacFor(g) : g \in GainCodes}

(* The two channels of a port are coupled as the software believes, unless *)
(* the last write of their common byte failed: setting one channel never   *)
(* moves the switch of the other (the shadow of afeSetCoupling).           *)
PortAsBelieved == \A c \in Channels \ fe.doubt : fe.switch[c] = fe.coupling[c]

(* As long as nothing failed, the readings of a channel, from which volts  *)
(* are computed, were taken of that channel with its present gain and the  *)
(* voltage that goes with it, and its background calibration is frozen.    *)
ReadingsFitTheGain ==
  FaultFree => \A c \in Channels :
    LET At(k, v) == [to |-> c, coupling |-> k, pga |-> fe.gain[c], dac |-> v]
    IN  /\ fe.pga[c] = fe.gain[c] /\ fe.frozen[c]
        /\ fe.gnd[c] = At("CAL", 0) /\ fe.open[c] = At("OPEN", 0)
        /\ fe.cal[c] = At("CAL", fe.calDAC[c])

(* The trigger level in counts follows every calibration, failed readings  *)
(* included: the scale it was converted with is the one in force.          *)
TriggerScaleIsCurrent ==
  \A c \in Channels : /\ fe.counts[c].level = fe.level[c] /\ fe.counts[c].dac = fe.calDAC[c]
                       /\ fe.counts[c].gnd = fe.gnd[c] /\ fe.counts[c].cal = fe.cal[c]

(* A gain command without a fault leaves the couplings, the calibration    *)
(* voltage, the tone and the readings of the other channels as they were.  *)
GainKeepsTheRest ==
  [][feOp' # NoChannel /\ FaultFree' =>
       /\ fe'.switch = fe.switch /\ fe'.dac = fe.dac /\ fe'.tone.on = fe.tone.on
       /\ \A d \in Channels \ {feOp'} : fe'.gnd[d] = fe.gnd[d] /\ fe'.counts[d] = fe.counts[d]]_feVars

(* After any number of copies, cut short anywhere: the EEPROM begins with   *)
(* the newest one and goes on with older ones; a chunk is at the place it   *)
(* has in its file, counted modulo the EEPROM; and a copy that was not cut  *)
(* short of a file that fits is there whole.  A longer file (FileChunks) is *)
(* written over its own beginning, without an error.                        *)
ChunksInPlace ==
  LET cell == fe.eeprom.cell
      whole == fe.eeprom.whole
  IN  /\ \A a, b \in DOMAIN cell : a < b => cell[a].age <= cell[b].age
      /\ \A a \in DOMAIN cell : cell[a].chunk # 0 => (cell[a].chunk - 1) % EepromChunks = a
      /\ whole <= EepromChunks =>
           \A a \in 0 .. whole - 1 : cell[a] = [age |-> 0, chunk |-> a + 1]

(* What the software believes of the front end after any sequence of       *)
(* commands and failures: its kinds, its switches, its readings, its scale. *)
CalibrationIsCurrent ==
  FeTypeOK /\ PortAsBelieved /\ ReadingsFitTheGain /\ TriggerScaleIsCurrent
=============================================================================
