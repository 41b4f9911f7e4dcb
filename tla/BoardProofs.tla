---------------------------- MODULE BoardProofs ----------------------------
(***************************************************************************)
(* What parts of the board guarantee, each for itself.                     *)
(*                                                                         *)
(* The analogue front end: what the software takes for the gains and the   *)
(* offsets of the channels is what the board is set to, setting a gain     *)
(* leaves the other channels alone, and the chunks of the EEPROM are in    *)
(* place, for any number of channels and whatever transfers fail.          *)
(*                                                                         *)
(* The event receiver: the converters are in step when the aligner is      *)
(* content, unless the last synchronization failed, a time that was read   *)
(* was the time, and the actions of events are those that were left there, *)
(* for any set of events, any length of a second and any number of losses. *)
(*                                                                         *)
(* The receiver of the time of day: it is right again after two seconds,   *)
(* for registers of any width and any disturbances.                        *)
(***************************************************************************)
EXTENDS FrontEnd, Receiver, TimeForward, TodReceiver,
        SequenceTheorems, WellFoundedInduction, TLAPS

----------------------------------------------------------------------------
(* The analogue front end.                                                 *)

Volts == {InDACRange(v) : v \in DacValues} \cup {0} \cup {DacFor(g) : g \in GainCodes}
PgaCodes == GainCodes \cup {TrainingGain}
CalVolts == {DacFor(g) : g \in PgaCodes}
ReadingKind == [to : Channels, coupling : Couplings \cup {"PARTLY"}, pga : PgaCodes, dac : Volts]
CountsKind ==
  {<<>>} \cup [level : Int, dac : Int, gnd : ReadingKind, cal : ReadingKind, offset : ReadingKind]
Places == 0 .. EepromChunks - 1
Cell == [age : 0 .. Oldest, chunk : Nat]
Cells == [Places -> Cell]
Eeprom == [cell : Cells, address : Nat, ended : BOOLEAN, whole : Nat]
Each(S) == [Channels -> S]
FeState ==
  [switch : Each(Couplings), shadow : Each(Couplings), coupling : Each(Couplings),
   gain : Each(GainCodes), pga : Each(PgaCodes), calDAC : Each(CalVolts),
   gnd : Each(ReadingKind), cal : Each(ReadingKind), open : Each(ReadingKind),
   level : Each(Int), counts : Each(CountsKind),
   dac : Volts, oldDAC : Volts, ret : Volts \cup {-1},
   tone : [chan : Channels, on : BOOLEAN], result : ReadingKind, frozen : Each(BOOLEAN),
   doubt : SUBSET Channels,
   eeprom : Eeprom, faults : Nat]

(* Parts of the state.                                                     *)
Amplifiers(s) == <<s.gain, s.pga, s.calDAC>>
Scales(s) == <<s.gnd, s.cal, s.open, s.level, s.counts>>
Ports(s) == <<s.switch, s.shadow, s.coupling, s.doubt>>
Voltage(s) == <<s.dac, s.oldDAC, s.ret>>
ConverterOf(s) == <<s.tone, s.frozen, s.result, s.eeprom>>

(* What is believed of the switches, and that it and the voltage are known. *)
Believed(s) == s.shadow = s.coupling /\ \A d \in Channels \ s.doubt : s.switch[d] = s.coupling[d]
Steady(s) == Believed(s) /\ s.doubt = {} /\ s.oldDAC = s.dac

(* The EEPROM: no older copy before a newer one, each chunk at its place in *)
(* its file, and what ChunksInPlace says of a copy that was not cut short. *)
Layers(e) == \A a, b \in Places : a < b => e.cell[a].age <= e.cell[b].age
Placed(e) == \A a \in Places : e.cell[a].chunk # 0 => (e.cell[a].chunk - 1) % EepromChunks = a
Stored(e) ==
  /\ Layers(e) /\ Placed(e)
  /\ e.whole <= EepromChunks =>
       \A a \in 0 .. e.whole - 1 : e.cell[a] = [age |-> 0, chunk |-> a + 1]

(* A function that is about channel c leaves the others as they were.      *)
OfChannel(s, d) ==
  <<s.pga[d], s.calDAC[d], s.gnd[d], s.cal[d], s.open[d], s.counts[d], s.frozen[d]>>
Elsewhere(s, t, c) ==
  /\ t \in FeState /\ t.faults <= s.faults
  /\ t.gain = s.gain /\ t.level = s.level /\ t.eeprom = s.eeprom
  /\ \A d \in Channels \ {c} : OfChannel(t, d) = OfChannel(s, d)
  /\ Believed(s) => Believed(t)
  /\ t.faults = s.faults /\ Steady(s) => Steady(t)

(* Two functions about the same channel make one; a fault in either is a   *)
(* fault of both.                                                          *)
LEMMA ThenElsewhere ==
  ASSUME NEW s \in FeState, NEW t, NEW u, NEW c, Elsewhere(s, t, c), Elsewhere(t, u, c)
  PROVE  /\ Elsewhere(s, u, c)
         /\ u.faults = s.faults => t.faults = s.faults /\ u.faults = t.faults
<1>1. s.faults \in Nat /\ t.faults \in Nat /\ u.faults \in Nat
  BY DEF Elsewhere, FeState
<1>2. u.faults <= s.faults /\ (u.faults = s.faults => t.faults = s.faults /\ u.faults = t.faults)
  BY <1>1 DEF Elsewhere
<1> QED BY <1>2 DEF Elsewhere

LEMMA ElsewhereIs ==
  \A s, t, c : Elsewhere(s, t, c) => t \in FeState
BY DEF Elsewhere

(* A transfer succeeds or, with a fault, is heard or not.                  *)
LEMMA SendIs ==
  ASSUME NEW s, NEW t, NEW o \in Send(s, t)
  PROVE  \/ o = [s |-> t, ok |-> TRUE]
         \/ s.faults > 0 /\ \E x \in {s, t} : o = [s |-> Failing(x), ok |-> FALSE]
BY DEF Send

(* A fault changes nothing but the number of faults.                       *)
LEMMA FailingIs ==
  ASSUME NEW s \in FeState, s.faults > 0, NEW t, t = Failing(s)
  PROVE  /\ t \in FeState /\ t.faults = s.faults - 1
         /\ Amplifiers(t) = Amplifiers(s) /\ Scales(t) = Scales(s) /\ Ports(t) = Ports(s)
         /\ Voltage(t) = Voltage(s) /\ ConverterOf(t) = ConverterOf(s)
<1>1. t = [s EXCEPT !.faults = s.faults - 1]
  BY DEF Failing
<1>2. s.faults - 1 \in Nat
  BY DEF FeState
<1> QED BY <1>1, <1>2 DEF FeState, Amplifiers, Scales, Ports, Voltage, ConverterOf

(* A channel is one of those that share its port.                          *)
LEMMA MatesIs ==
  ASSUME NEW c \in Channels
  PROVE  c \in Mates(c) /\ Mates(c) \subseteq Channels
BY DEF Mates

(* afeSetCoupling: only the switches change, and without a fault they are  *)
(* as asked.                                                               *)
LEMMA CouplingSet ==
  ASSUME NEW s \in FeState, NEW c \in Channels, NEW k \in Couplings, NEW o \in afeSetCoupling(s, c, k)
  PROVE  /\ Elsewhere(s, o.s, c)
         /\ Amplifiers(o.s) = Amplifiers(s) /\ Scales(o.s) = Scales(s)
         /\ Voltage(o.s) = Voltage(s) /\ ConverterOf(o.s) = ConverterOf(s)
         /\ o.s.faults = s.faults /\ Steady(s) => o.s.coupling = [s.coupling EXCEPT ![c] = k]
<1>1. PICK M \in SUBSET Channels : M = Mates(c) /\ c \in M
  BY MatesIs
<1>2. PICK w : w = [d \in Channels |-> IF d \in M THEN PortByte(s, c, k)[d] ELSE s.switch[d]]
  OBVIOUS
<1>3. w \in Each(Couplings) /\ \A d \in Channels : w[d] = IF d = c THEN k ELSE IF d \in M THEN s.shadow[d] ELSE s.switch[d]
  <2>1. s.shadow \in Each(Couplings) /\ s.switch \in Each(Couplings)
    BY DEF FeState
  <2> QED BY <1>1, <1>2, <2>1 DEF PortByte, Each
<1>4. PICK heard : heard = [s EXCEPT !.switch = w]
  OBVIOUS
<1>5. /\ heard \in FeState /\ heard.switch = w /\ heard.shadow = s.shadow /\ heard.coupling = s.coupling
      /\ heard.doubt = s.doubt /\ heard.faults = s.faults
      /\ Amplifiers(heard) = Amplifiers(s) /\ Scales(heard) = Scales(s)
      /\ Voltage(heard) = Voltage(s) /\ ConverterOf(heard) = ConverterOf(s)
  BY <1>3, <1>4 DEF FeState, Amplifiers, Scales, Voltage, ConverterOf
<1>6. PICK p \in Send(s, heard) :
        o = [s |-> IF p.ok THEN [p.s EXCEPT !.shadow[c] = k, !.coupling[c] = k, !.doubt = @ \ M]
                   ELSE [p.s EXCEPT !.doubt = @ \cup M], ok |-> p.ok]
  <2>1. heard = [s EXCEPT !.switch = [d \in Channels |-> IF d \in Mates(c) THEN PortByte(s, c, k)[d] ELSE @[d]]]
    BY <1>1, <1>2, <1>4
  <2>2. \E p \in Send(s, heard) :
           o = [s |-> IF p.ok THEN [p.s EXCEPT !.shadow[c] = k, !.coupling[c] = k, !.doubt = @ \ Mates(c)]
                      ELSE [p.s EXCEPT !.doubt = @ \cup Mates(c)], ok |-> p.ok]
    BY <2>1, Zenon DEF afeSetCoupling
  <2> QED BY <1>1, <2>2, Zenon
<1>7. CASE p = [s |-> heard, ok |-> TRUE]
  <2>1. o.s = [heard EXCEPT !.shadow[c] = k, !.coupling[c] = k, !.doubt = @ \ M]
    BY <1>6, <1>7
  <2>2. /\ o.s \in FeState /\ o.s.faults = s.faults /\ o.s.switch = w
        /\ o.s.shadow = [s.shadow EXCEPT ![c] = k] /\ o.s.coupling = [s.coupling EXCEPT ![c] = k]
        /\ o.s.doubt = s.doubt \ M
        /\ Amplifiers(o.s) = Amplifiers(s) /\ Scales(o.s) = Scales(s)
        /\ Voltage(o.s) = Voltage(s) /\ ConverterOf(o.s) = ConverterOf(s)
    <3>1. PICK t : t = o.s
      OBVIOUS
    <3>2. t \in FeState
      <4>1. heard \in FeState /\ t = [heard EXCEPT !.shadow[c] = k, !.coupling[c] = k, !.doubt = @ \ M]
        BY <1>5, <2>1, <3>1
      <4> QED BY <4>1 DEF FeState, Each
    <3>3. /\ t.faults = heard.faults /\ t.switch = heard.switch
          /\ t.shadow = [heard.shadow EXCEPT ![c] = k] /\ t.coupling = [heard.coupling EXCEPT ![c] = k]
          /\ t.doubt = heard.doubt \ M
          /\ Amplifiers(t) = Amplifiers(heard) /\ Scales(t) = Scales(heard)
          /\ Voltage(t) = Voltage(heard) /\ ConverterOf(t) = ConverterOf(heard)
      BY <1>5, <2>1, <3>1 DEF FeState, Amplifiers, Scales, Voltage, ConverterOf
    <3> QED BY <1>5, <3>1, <3>2, <3>3
  <2>3. s.shadow \in Each(Couplings) /\ s.coupling \in Each(Couplings) /\ s.doubt \subseteq Channels
    BY DEF FeState
  <2>4. Believed(s) => Believed(o.s)
    BY <1>1, <1>3, <2>2, <2>3 DEF Believed, Each
  <2>5. Steady(s) => Steady(o.s)
    BY <2>2, <2>4 DEF Steady, Voltage
  <2>6. s.faults \in Nat
    BY DEF FeState
  <2> QED BY <2>2, <2>4, <2>5, <2>6 DEF Elsewhere, Amplifiers, Scales, ConverterOf, OfChannel
<1>8. CASE s.faults > 0 /\ \E x \in {s, heard} : p = [s |-> Failing(x), ok |-> FALSE]
  <2>1. PICK x \in {s, heard} : p = [s |-> Failing(x), ok |-> FALSE]
    BY <1>8
  <2>2. PICK y : y = Failing(x)
    OBVIOUS
  <2>3. /\ x \in FeState /\ x.faults = s.faults /\ x.shadow = s.shadow /\ x.coupling = s.coupling
        /\ x.doubt = s.doubt /\ x.switch \in {s.switch, w}
        /\ Amplifiers(x) = Amplifiers(s) /\ Scales(x) = Scales(s)
        /\ Voltage(x) = Voltage(s) /\ ConverterOf(x) = ConverterOf(s)
    BY <1>5, <2>1
  <2>4. /\ y \in FeState /\ y.faults = s.faults - 1 /\ Ports(y) = Ports(x)
        /\ Amplifiers(y) = Amplifiers(s) /\ Scales(y) = Scales(s)
        /\ Voltage(y) = Voltage(s) /\ ConverterOf(y) = ConverterOf(s)
    BY <1>8, <2>2, <2>3, FailingIs
  <2>5. PICK t : t = o.s
    OBVIOUS
  <2>6. t = [y EXCEPT !.doubt = @ \cup M]
    BY <1>6, <2>1, <2>2, <2>5
  <2>7. t \in FeState
    BY <1>1, <2>4, <2>6 DEF FeState
  <2>8. /\ t.faults = y.faults /\ t.switch = y.switch /\ t.shadow = y.shadow
        /\ t.coupling = y.coupling /\ t.doubt = y.doubt \cup M
        /\ Amplifiers(t) = Amplifiers(y) /\ Scales(t) = Scales(y)
        /\ Voltage(t) = Voltage(y) /\ ConverterOf(t) = ConverterOf(y)
    BY <2>4, <2>6 DEF FeState, Amplifiers, Scales, Voltage, ConverterOf
  <2>9. /\ t.shadow = s.shadow /\ t.coupling = s.coupling /\ t.switch \in {s.switch, w}
        /\ t.doubt = s.doubt \cup M /\ t.faults = s.faults - 1
    BY <2>3, <2>4, <2>8 DEF Ports
  <2>10. s.faults \in Nat /\ s.faults - 1 < s.faults
    BY DEF FeState
  <2>11. Believed(s) => Believed(t)
    BY <1>1, <1>3, <2>9 DEF Believed
  <2> QED BY <2>4, <2>5, <2>7, <2>8, <2>9, <2>10, <2>11 DEF Elsewhere, Amplifiers, Scales, ConverterOf, OfChannel
<1> QED BY <1>6, <1>7, <1>8, SendIs

(* afeSetDAC: only the voltage changes, and without a fault it is as asked *)
(* and the one before is returned.                                         *)
LEMMA DACSet ==
  ASSUME NEW s \in FeState, NEW v, InDACRange(v) \in Volts, NEW o \in afeSetDAC(s, v), NEW c
  PROVE  /\ Elsewhere(s, o.s, c)
         /\ Amplifiers(o.s) = Amplifiers(s) /\ Scales(o.s) = Scales(s)
         /\ Ports(o.s) = Ports(s) /\ ConverterOf(o.s) = ConverterOf(s)
         /\ o.s.faults = s.faults => o.s.dac = InDACRange(v) /\ o.s.ret = s.oldDAC
<1>1. PICK x \in Volts : x = InDACRange(v)
  OBVIOUS
<1>2. PICK heard : heard = [s EXCEPT !.dac = x]
  OBVIOUS
<1>3. /\ heard \in FeState /\ heard.dac = x /\ heard.oldDAC = s.oldDAC /\ heard.faults = s.faults
      /\ Amplifiers(heard) = Amplifiers(s) /\ Scales(heard) = Scales(s)
      /\ Ports(heard) = Ports(s) /\ ConverterOf(heard) = ConverterOf(s)
  BY <1>1, <1>2 DEF FeState, Amplifiers, Scales, Ports, ConverterOf
<1>4. PICK p \in Send(s, heard) :
        o = [s |-> IF p.ok THEN [p.s EXCEPT !.ret = s.oldDAC, !.oldDAC = x]
                   ELSE [p.s EXCEPT !.ret = -1], ok |-> p.ok]
  <2>1. heard = [s EXCEPT !.dac = InDACRange(v)]
    BY <1>1, <1>2
  <2> QED BY <1>1, <2>1, Zenon DEF afeSetDAC
<1>5. PICK t : t = o.s
  OBVIOUS
<1>6. s.faults \in Nat /\ s.oldDAC \in Volts
  BY DEF FeState
<1>7. CASE p = [s |-> heard, ok |-> TRUE]
  <2>1. t = [heard EXCEPT !.ret = s.oldDAC, !.oldDAC = x]
    BY <1>4, <1>5, <1>7
  <2>2. t \in FeState
    BY <1>1, <1>3, <1>6, <2>1 DEF FeState
  <2>3. /\ t.faults = s.faults /\ t.oldDAC = x /\ t.dac = x /\ t.ret = s.oldDAC
        /\ Amplifiers(t) = Amplifiers(heard) /\ Scales(t) = Scales(heard)
        /\ Ports(t) = Ports(heard) /\ ConverterOf(t) = ConverterOf(heard)
    BY <1>3, <2>1 DEF FeState, Amplifiers, Scales, Ports, ConverterOf
  <2> QED BY <1>1, <1>3, <1>5, <1>6, <2>2, <2>3
       DEF Elsewhere, OfChannel, Believed, Steady, Amplifiers, Scales, Ports, ConverterOf
<1>8. CASE s.faults > 0 /\ \E x_ \in {s, heard} : p = [s |-> Failing(x_), ok |-> FALSE]
  <2>1. PICK h \in {s, heard} : p = [s |-> Failing(h), ok |-> FALSE]
    BY <1>8
  <2>2. PICK y : y = Failing(h)
    OBVIOUS
  <2>3. /\ h \in FeState /\ h.faults = s.faults
        /\ Amplifiers(h) = Amplifiers(s) /\ Scales(h) = Scales(s)
        /\ Ports(h) = Ports(s) /\ ConverterOf(h) = ConverterOf(s)
    BY <1>3, <2>1
  <2>4. /\ y \in FeState /\ y.faults = s.faults - 1
        /\ Amplifiers(y) = Amplifiers(s) /\ Scales(y) = Scales(s)
        /\ Ports(y) = Ports(s) /\ ConverterOf(y) = ConverterOf(s)
    BY <1>8, <2>2, <2>3, FailingIs
  <2>5. t = [y EXCEPT !.ret = -1]
    BY <1>4, <1>5, <2>1, <2>2
  <2>6. t \in FeState
    BY <2>4, <2>5 DEF FeState
  <2>7. /\ t.faults = y.faults
        /\ Amplifiers(t) = Amplifiers(y) /\ Scales(t) = Scales(y)
        /\ Ports(t) = Ports(y) /\ ConverterOf(t) = ConverterOf(y)
    BY <2>4, <2>5 DEF FeState, Amplifiers, Scales, Ports, ConverterOf
  <2>8. t.faults < s.faults
    BY <1>6, <2>4, <2>7
  <2> QED BY <1>5, <1>6, <2>4, <2>6, <2>7, <2>8
       DEF Elsewhere, OfChannel, Believed, Steady, Amplifiers, Scales, Ports, ConverterOf
<1> QED BY <1>4, <1>7, <1>8, SendIs

(* setPGA: the amplifier has the gain and the calibration voltage that     *)
(* goes with it.                                                           *)
LEMMA PGASet ==
  ASSUME NEW s \in FeState, NEW c \in Channels, NEW g \in PgaCodes, NEW t, t = setPGA(s, c, g)
  PROVE  /\ Elsewhere(s, t, c) /\ t.faults = s.faults
         /\ t.pga[c] = g /\ t.calDAC[c] = DacFor(g)
         /\ Scales(t) = Scales(s) /\ Ports(t) = Ports(s)
         /\ Voltage(t) = Voltage(s) /\ ConverterOf(t) = ConverterOf(s)
<1>1. PICK v \in CalVolts : v = DacFor(g)
  BY DEF CalVolts
<1>2. t = [s EXCEPT !.pga[c] = g, !.calDAC[c] = v]
  BY <1>1, Zenon DEF setPGA
<1>3. t \in FeState
  <2>1. PICK p \in Each(PgaCodes), q \in Each(CalVolts) :
          p = [s.pga EXCEPT ![c] = g] /\ q = [s.calDAC EXCEPT ![c] = v]
    BY DEF FeState, Each
  <2>2. t = [s EXCEPT !.pga = p, !.calDAC = q]
    BY <1>2, <2>1
  <2> QED BY <2>2, ZenonT(40) DEF FeState
<1>4. /\ t.faults = s.faults /\ t.gain = s.gain
      /\ t.pga = [s.pga EXCEPT ![c] = g] /\ t.calDAC = [s.calDAC EXCEPT ![c] = v]
      /\ Scales(t) = Scales(s) /\ Ports(t) = Ports(s)
      /\ Voltage(t) = Voltage(s) /\ ConverterOf(t) = ConverterOf(s)
  BY <1>2 DEF FeState, Scales, Ports, Voltage, ConverterOf
<1>5. DOMAIN s.pga = Channels /\ DOMAIN s.calDAC = Channels /\ s.faults \in Nat
  BY DEF FeState, Each
<1> QED BY <1>1, <1>3, <1>4, <1>5
     DEF Elsewhere, OfChannel, Believed, Steady, Scales, Ports, Voltage, ConverterOf

(* rfADCfreezeCalibration: nothing changes but the converter of the        *)
(* channel.                                                                *)
LEMMA CalibrationFrozen ==
  ASSUME NEW s \in FeState, NEW c \in Channels, NEW on \in BOOLEAN,
         NEW o \in rfADCfreezeCalibration(s, c, on)
  PROVE  /\ Elsewhere(s, o.s, c)
         /\ Amplifiers(o.s) = Amplifiers(s) /\ Scales(o.s) = Scales(s) /\ Ports(o.s) = Ports(s)
         /\ Voltage(o.s) = Voltage(s) /\ o.s.tone = s.tone /\ o.s.result = s.result
         /\ o.s.faults = s.faults => o.s.frozen[c] = on
<1>1. PICK heard : heard = [s EXCEPT !.frozen[c] = on]
  OBVIOUS
<1>2. heard \in FeState
  BY <1>1 DEF FeState, Each
<1>3. /\ heard.frozen = [s.frozen EXCEPT ![c] = on] /\ heard.faults = s.faults
      /\ heard.tone = s.tone /\ heard.result = s.result /\ heard.eeprom = s.eeprom
      /\ Amplifiers(heard) = Amplifiers(s) /\ Scales(heard) = Scales(s)
      /\ Ports(heard) = Ports(s) /\ Voltage(heard) = Voltage(s)
  BY <1>1 DEF FeState, Amplifiers, Scales, Ports, Voltage
<1>4. s.faults \in Nat /\ DOMAIN s.frozen = Channels
  BY DEF FeState, Each
<1>5. o \in Send(s, heard)
  BY <1>1, Zenon DEF rfADCfreezeCalibration
<1>6. CASE o = [s |-> heard, ok |-> TRUE]
  BY <1>2, <1>3, <1>4, <1>6
  DEF Elsewhere, OfChannel, Believed, Steady, Amplifiers, Scales, Ports, Voltage
<1>7. CASE s.faults > 0 /\ \E h \in {s, heard} : o = [s |-> Failing(h), ok |-> FALSE]
  <2>1. PICK h \in {s, heard} : o = [s |-> Failing(h), ok |-> FALSE]
    BY <1>7
  <2>2. PICK y : y = Failing(h)
    OBVIOUS
  <2>3. /\ h \in FeState /\ h.faults = s.faults
        /\ h.tone = s.tone /\ h.result = s.result /\ h.eeprom = s.eeprom
        /\ \A d \in Channels \ {c} : h.frozen[d] = s.frozen[d]
        /\ Amplifiers(h) = Amplifiers(s) /\ Scales(h) = Scales(s)
        /\ Ports(h) = Ports(s) /\ Voltage(h) = Voltage(s)
    BY <1>2, <1>3, <1>4, <2>1
  <2>4. /\ y \in FeState /\ y.faults = s.faults - 1 /\ ConverterOf(y) = ConverterOf(h)
        /\ Amplifiers(y) = Amplifiers(s) /\ Scales(y) = Scales(s)
        /\ Ports(y) = Ports(s) /\ Voltage(y) = Voltage(s)
    BY <1>7, <2>2, <2>3, FailingIs
  <2>5. o.s = y /\ y.faults < s.faults
    BY <1>4, <2>1, <2>2, <2>4
  <2> QED BY <1>4, <2>3, <2>4, <2>5
       DEF Elsewhere, OfChannel, Believed, Steady, Amplifiers, Scales, Ports, Voltage, ConverterOf
<1> QED BY <1>5, <1>6, <1>7, SendIs

(* getCalibrationReading: without a fault the reading is what is applied.  *)
LEMMA ReadingTaken ==
  ASSUME NEW s \in FeState, NEW o \in getCalibrationReading(s), NEW c
  PROVE  /\ Elsewhere(s, o.s, c)
         /\ Amplifiers(o.s) = Amplifiers(s) /\ Scales(o.s) = Scales(s) /\ Ports(o.s) = Ports(s)
         /\ Voltage(o.s) = Voltage(s) /\ o.s.tone = s.tone /\ o.s.frozen = s.frozen
         /\ o.s.faults = s.faults => o.s.result = Applied(s)
<1>1. PICK r : r = Applied(s)
  OBVIOUS
<1>2. r \in ReadingKind /\ Partly(s) \in ReadingKind
  <2>1. /\ s.tone.chan \in Channels /\ s.switch \in Each(Couplings) /\ s.pga \in Each(PgaCodes)
        /\ s.dac \in Volts /\ 0 \in Volts
    BY DEF FeState, Volts
  <2>2. r \in ReadingKind
    BY <1>1, <2>1 DEF Applied, ReadingKind, Each
  <2>3. Partly(s) = [r EXCEPT !.coupling = "PARTLY"]
    BY <1>1 DEF Partly
  <2> QED BY <2>2, <2>3 DEF ReadingKind
<1>3. \A x \in ReadingKind : \A read : read = [s EXCEPT !.result = x] =>
        /\ read \in FeState /\ read.result = x /\ read.faults = s.faults
        /\ read.tone = s.tone /\ read.frozen = s.frozen /\ read.eeprom = s.eeprom
        /\ Amplifiers(read) = Amplifiers(s) /\ Scales(read) = Scales(s)
        /\ Ports(read) = Ports(s) /\ Voltage(read) = Voltage(s)
  BY DEF FeState, Amplifiers, Scales, Ports, Voltage
<1>4. \E x \in ReadingKind : \E read :
        /\ read = [s EXCEPT !.result = x]
        /\ \/ x = r /\ o = [s |-> read, ok |-> TRUE]
           \/ s.faults > 0 /\ o = [s |-> Failing(read), ok |-> FALSE]
  <2>1. s.result \in ReadingKind
    BY DEF FeState
  <2>2. \/ o = [s |-> [s EXCEPT !.result = r], ok |-> TRUE]
        \/ s.faults > 0 /\ \E x \in {s.result, Partly(s)} :
             o = [s |-> Failing([s EXCEPT !.result = x]), ok |-> FALSE]
    BY <1>1 DEF getCalibrationReading
  <2> QED BY <1>2, <2>1, <2>2
<1>5. PICK x \in ReadingKind : \E read :
        /\ read = [s EXCEPT !.result = x]
        /\ \/ x = r /\ o = [s |-> read, ok |-> TRUE]
           \/ s.faults > 0 /\ o = [s |-> Failing(read), ok |-> FALSE]
  BY <1>4
<1>6. PICK read :
        /\ read = [s EXCEPT !.result = x]
        /\ \/ x = r /\ o = [s |-> read, ok |-> TRUE]
           \/ s.faults > 0 /\ o = [s |-> Failing(read), ok |-> FALSE]
  BY <1>5
<1>7. /\ read \in FeState /\ read.result = x /\ read.faults = s.faults
      /\ read.tone = s.tone /\ read.frozen = s.frozen /\ read.eeprom = s.eeprom
      /\ Amplifiers(read) = Amplifiers(s) /\ Scales(read) = Scales(s)
      /\ Ports(read) = Ports(s) /\ Voltage(read) = Voltage(s)
  BY <1>3, <1>6
<1>8. s.faults \in Nat
  BY DEF FeState
<1>9. CASE x = r /\ o = [s |-> read, ok |-> TRUE]
  BY <1>1, <1>7, <1>8, <1>9
  DEF Elsewhere, OfChannel, Believed, Steady, Amplifiers, Scales, Ports, Voltage
<1>10. CASE s.faults > 0 /\ o = [s |-> Failing(read), ok |-> FALSE]
  <2>1. PICK y : y = Failing(read)
    OBVIOUS
  <2>2. /\ y \in FeState /\ y.faults = s.faults - 1 /\ ConverterOf(y) = ConverterOf(read)
        /\ Amplifiers(y) = Amplifiers(s) /\ Scales(y) = Scales(s)
        /\ Ports(y) = Ports(s) /\ Voltage(y) = Voltage(s)
    BY <1>7, <1>10, <2>1, FailingIs
  <2>3. y.tone = s.tone /\ y.frozen = s.frozen /\ y.eeprom = s.eeprom
    BY <1>7, <2>2 DEF ConverterOf
  <2>4. o.s = y /\ y.faults < s.faults
    BY <1>8, <1>10, <2>1, <2>2
  <2> QED BY <1>8, <2>2, <2>3, <2>4
       DEF Elsewhere, OfChannel, Believed, Steady, Amplifiers, Scales, Ports, Voltage
<1> QED BY <1>6, <1>9, <1>10

(* The training tone goes to a channel, or is turned off.                  *)
LEMMA ToneSet ==
  ASSUME NEW s \in FeState, NEW c \in Channels, NEW on \in BOOLEAN, NEW t, t = Tone(s, c, on)
  PROVE  /\ Elsewhere(s, t, c) /\ t.faults = s.faults /\ t.tone = [chan |-> c, on |-> on]
         /\ Amplifiers(t) = Amplifiers(s) /\ Scales(t) = Scales(s) /\ Ports(t) = Ports(s)
         /\ Voltage(t) = Voltage(s) /\ t.frozen = s.frozen /\ t.result = s.result
<1>1. PICK r : r = [chan |-> c, on |-> on]
  OBVIOUS
<1>2. t = [s EXCEPT !.tone = r] /\ r \in [chan : Channels, on : BOOLEAN]
  BY <1>1 DEF Tone
<1>3. /\ t \in FeState /\ t.faults = s.faults /\ t.tone = r /\ t.frozen = s.frozen
      /\ t.result = s.result /\ t.eeprom = s.eeprom
      /\ Amplifiers(t) = Amplifiers(s) /\ Scales(t) = Scales(s)
      /\ Ports(t) = Ports(s) /\ Voltage(t) = Voltage(s)
  BY <1>2 DEF FeState, Amplifiers, Scales, Ports, Voltage
<1>4. s.faults \in Nat
  BY DEF FeState
<1> QED BY <1>1, <1>3, <1>4
     DEF Elsewhere, OfChannel, Believed, Steady, Amplifiers, Scales, Ports, Voltage

(* What a command leaves of channel c: its amplifier, whatever happened,   *)
(* its scale and, when nothing failed, its readings.                       *)
Tuned(s, c) == s.pga[c] = s.gain[c] /\ s.calDAC[c] = DacFor(s.gain[c])
Scaled(s, c) ==
  /\ s.counts[c].level = s.level[c] /\ s.counts[c].dac = s.calDAC[c]
  /\ s.counts[c].gnd = s.gnd[c] /\ s.counts[c].cal = s.cal[c]
ReadingAt(s, c, k, v) == [to |-> c, coupling |-> k, pga |-> s.gain[c], dac |-> v]
Read(s, c) ==
  /\ s.gnd[c] = ReadingAt(s, c, "CAL", 0) /\ s.open[c] = ReadingAt(s, c, "OPEN", 0)
  /\ s.cal[c] = ReadingAt(s, c, "CAL", s.calDAC[c])

(* The voltages in use are within the range of the converter.              *)
LEMMA VoltsAre ==
  /\ \A g \in GainCodes : DacFor(g) \in Volts /\ InDACRange(DacFor(g)) = DacFor(g)
  /\ \A v \in Volts : InDACRange(v) \in Volts /\ InDACRange(v) = v
  /\ \A v \in DacValues : InDACRange(v) \in Volts /\ InDACRange(v) \in {v, 0, DACMaximum}
  /\ InDACRange(0) = 0 /\ InDACRange(-1) = 0 /\ 0 \in Volts
  /\ GainCodes \subseteq PgaCodes /\ MinimumGain \in GainCodes /\ TrainingGain \in PgaCodes
<1>1. GainCodes \subseteq 0 .. 255
  BY FrontEndAssumption DEF GainCodes, MinimumGain
<1>2. \A g \in GainCodes : DacFor(g) \in 0 .. DACMaximum
  BY <1>1 DEF DacFor, DACMaximum
<1>3. ASSUME NEW v \in Int
      PROVE  InDACRange(v) \in 0 .. DACMaximum /\ InDACRange(v) \in {v, 0, DACMaximum}
  <2>1. PICK m \in Nat : m = DACMaximum
    BY DEF DACMaximum
  <2>2. InDACRange(v) = IF v < 0 THEN 0 ELSE IF v > m THEN m ELSE v
    BY <2>1 DEF InDACRange
  <2>3. InDACRange(v) \in 0 .. m /\ (InDACRange(v) = v \/ InDACRange(v) = 0 \/ InDACRange(v) = m)
    BY <2>2
  <2> QED BY <2>1, <2>3
<1>4. \A v \in DacValues : InDACRange(v) \in 0 .. DACMaximum /\ InDACRange(v) \in {v, 0, DACMaximum}
  BY <1>3, FrontEndAssumption
<1>5. Volts \subseteq 0 .. DACMaximum
  <2>1. 0 \in 0 .. DACMaximum
    BY DEF DACMaximum
  <2> QED BY <1>2, <1>4, <2>1 DEF Volts
<1>6. \A v \in 0 .. DACMaximum : InDACRange(v) = v
  BY DEF InDACRange, DACMaximum
<1>7. 0 \in Volts /\ (\A g \in GainCodes : DacFor(g) \in Volts) /\ \A v \in DacValues : InDACRange(v) \in Volts
  BY DEF Volts
<1>8. InDACRange(0) = 0 /\ InDACRange(-1) = 0
  BY DEF InDACRange, DACMaximum
<1> QED BY <1>2, <1>4, <1>5, <1>6, <1>7, <1>8 DEF PgaCodes, GainCodes

(* acquisitionSetTriggerLevel: the level in counts is converted with the   *)
(* scale in force, whichever channel it is of.                             *)
LEMMA ScaleFollows ==
  ASSUME NEW s \in FeState, NEW c \in Channels, NEW v \in Int,
         NEW t, t = acquisitionSetTriggerLevel(s, c, v)
  PROVE  /\ t \in FeState /\ t.faults = s.faults /\ t.level = [s.level EXCEPT ![c] = v]
         /\ Scaled(t, c) /\ \A d \in Channels \ {c} : t.counts[d] = s.counts[d]
         /\ t.gnd = s.gnd /\ t.cal = s.cal /\ t.open = s.open
         /\ Amplifiers(t) = Amplifiers(s) /\ Ports(t) = Ports(s)
         /\ Voltage(t) = Voltage(s) /\ ConverterOf(t) = ConverterOf(s)
<1>1. PICK n : n = CountsFor(s, c, v)
  OBVIOUS
<1>2. /\ n.level = v /\ n.dac = s.calDAC[c] /\ n.gnd = s.gnd[c] /\ n.cal = s.cal[c]
      /\ n \in CountsKind
  <2>1. s.calDAC[c] \in Int
    <3>1. s.calDAC[c] \in CalVolts
      BY DEF FeState, Each
    <3>2. PgaCodes \subseteq Int
      BY FrontEndAssumption DEF PgaCodes, GainCodes, MinimumGain, TrainingGain
    <3> QED BY <3>1, <3>2 DEF CalVolts, DacFor
  <2>2. s.gnd[c] \in ReadingKind /\ s.cal[c] \in ReadingKind /\ s.open[c] \in ReadingKind
    BY DEF FeState, Each
  <2> QED BY <1>1, <2>1, <2>2 DEF CountsFor, CountsKind
<1>3. PICK l \in Each(Int), m \in Each(CountsKind) :
        l = [s.level EXCEPT ![c] = v] /\ m = [s.counts EXCEPT ![c] = n]
  BY <1>2 DEF FeState, Each
<1>4. t = [s EXCEPT !.level = l, !.counts = m]
  BY <1>1, <1>3, Zenon DEF acquisitionSetTriggerLevel
<1>5. t \in FeState
  BY <1>3, <1>4, ZenonT(40) DEF FeState
<1>6. /\ t.faults = s.faults /\ t.level = l /\ t.counts = m
      /\ t.gnd = s.gnd /\ t.cal = s.cal /\ t.open = s.open
      /\ Amplifiers(t) = Amplifiers(s) /\ Ports(t) = Ports(s)
      /\ Voltage(t) = Voltage(s) /\ ConverterOf(t) = ConverterOf(s)
  BY <1>4 DEF FeState, Amplifiers, Ports, Voltage, ConverterOf
<1>7. l[c] = v /\ m[c] = n /\ \A d \in Channels \ {c} : m[d] = s.counts[d]
  BY <1>3 DEF FeState, Each
<1>8. Scaled(t, c)
  BY <1>2, <1>6, <1>7 DEF Scaled, Amplifiers
<1> QED BY <1>3, <1>5, <1>6, <1>7, <1>8

(* A reading is kept in the settings of its channel.                       *)
GndKept(s, c) == [s EXCEPT !.gnd[c] = s.result]
CalKept(s, c) == [s EXCEPT !.cal[c] = s.result]
OpenKept(s, c) == [s EXCEPT !.open[c] = s.result]

LEMMA GndRecorded ==
  ASSUME NEW s \in FeState, NEW c \in Channels, NEW t, t = GndKept(s, c)
  PROVE  /\ Elsewhere(s, t, c) /\ t.faults = s.faults
         /\ t.gnd[c] = s.result /\ t.cal = s.cal /\ t.open = s.open /\ t.counts = s.counts
         /\ Amplifiers(t) = Amplifiers(s) /\ Ports(t) = Ports(s)
         /\ Voltage(t) = Voltage(s) /\ ConverterOf(t) = ConverterOf(s)
<1>1. s.result \in ReadingKind /\ s.faults \in Nat
  BY DEF FeState
<1>2. PICK x : x = [s.gnd EXCEPT ![c] = s.result]
  OBVIOUS
<1>3. x \in Each(ReadingKind) /\ x[c] = s.result /\ \A d \in Channels \ {c} : x[d] = s.gnd[d]
  <2>1. s.gnd \in Each(ReadingKind)
    BY DEF FeState
  <2> QED BY <1>1, <1>2, <2>1 DEF Each
<1>4. /\ t \in FeState /\ t.faults = s.faults /\ t.gnd = x /\ t.cal = s.cal /\ t.open = s.open
      /\ t.level = s.level /\ t.counts = s.counts
      /\ Amplifiers(t) = Amplifiers(s) /\ Ports(t) = Ports(s)
      /\ Voltage(t) = Voltage(s) /\ ConverterOf(t) = ConverterOf(s)
  BY <1>2, <1>3 DEF GndKept, FeState, Amplifiers, Ports, Voltage, ConverterOf
<1> QED BY <1>1, <1>3, <1>4
     DEF Elsewhere, OfChannel, Believed, Steady, Amplifiers, Ports, Voltage, ConverterOf

LEMMA CalRecorded ==
  ASSUME NEW s \in FeState, NEW c \in Channels, NEW t, t = CalKept(s, c)
  PROVE  /\ Elsewhere(s, t, c) /\ t.faults = s.faults
         /\ t.cal[c] = s.result /\ t.gnd = s.gnd /\ t.open = s.open /\ t.counts = s.counts
         /\ Amplifiers(t) = Amplifiers(s) /\ Ports(t) = Ports(s)
         /\ Voltage(t) = Voltage(s) /\ ConverterOf(t) = ConverterOf(s)
<1>1. s.result \in ReadingKind /\ s.faults \in Nat
  BY DEF FeState
<1>2. PICK x : x = [s.cal EXCEPT ![c] = s.result]
  OBVIOUS
<1>3. x \in Each(ReadingKind) /\ x[c] = s.result /\ \A d \in Channels \ {c} : x[d] = s.cal[d]
  <2>1. s.cal \in Each(ReadingKind)
    BY DEF FeState
  <2> QED BY <1>1, <1>2, <2>1 DEF Each
<1>4. /\ t \in FeState /\ t.faults = s.faults /\ t.cal = x /\ t.gnd = s.gnd /\ t.open = s.open
      /\ t.level = s.level /\ t.counts = s.counts
      /\ Amplifiers(t) = Amplifiers(s) /\ Ports(t) = Ports(s)
      /\ Voltage(t) = Voltage(s) /\ ConverterOf(t) = ConverterOf(s)
  BY <1>2, <1>3 DEF CalKept, FeState, Amplifiers, Ports, Voltage, ConverterOf
<1> QED BY <1>1, <1>3, <1>4
     DEF Elsewhere, OfChannel, Believed, Steady, Amplifiers, Ports, Voltage, ConverterOf

LEMMA OpenRecorded ==
  ASSUME NEW s \in FeState, NEW c \in Channels, NEW t, t = OpenKept(s, c)
  PROVE  /\ Elsewhere(s, t, c) /\ t.faults = s.faults
         /\ t.open[c] = s.result /\ t.gnd = s.gnd /\ t.cal = s.cal /\ t.counts = s.counts
         /\ Amplifiers(t) = Amplifiers(s) /\ Ports(t) = Ports(s)
         /\ Voltage(t) = Voltage(s) /\ ConverterOf(t) = ConverterOf(s)
<1>1. s.result \in ReadingKind /\ s.faults \in Nat
  BY DEF FeState
<1>2. PICK x : x = [s.open EXCEPT ![c] = s.result]
  OBVIOUS
<1>3. x \in Each(ReadingKind) /\ x[c] = s.result /\ \A d \in Channels \ {c} : x[d] = s.open[d]
  <2>1. s.open \in Each(ReadingKind)
    BY DEF FeState
  <2> QED BY <1>1, <1>2, <2>1 DEF Each
<1>4. /\ t \in FeState /\ t.faults = s.faults /\ t.open = x /\ t.gnd = s.gnd /\ t.cal = s.cal
      /\ t.level = s.level /\ t.counts = s.counts
      /\ Amplifiers(t) = Amplifiers(s) /\ Ports(t) = Ports(s)
      /\ Voltage(t) = Voltage(s) /\ ConverterOf(t) = ConverterOf(s)
  BY <1>2, <1>3 DEF OpenKept, FeState, Amplifiers, Ports, Voltage, ConverterOf
<1> QED BY <1>1, <1>3, <1>4
     DEF Elsewhere, OfChannel, Believed, Steady, Amplifiers, Ports, Voltage, ConverterOf

(* The first half of a calibration: the tone is on until the converter has *)
(* settled, and its calibration is then frozen.                            *)
LEMMA TrainedChannel ==
  ASSUME NEW s \in FeState, NEW c \in Channels, NEW o \in Trained(s, c)
  PROVE  /\ Elsewhere(s, o.s, c)
         /\ Scales(o.s) = Scales(s) /\ o.s.tone = [chan |-> c, on |-> FALSE]
         /\ o.s.faults = s.faults /\ Steady(s) =>
              /\ o.s.coupling = [s.coupling EXCEPT ![c] = "TRAIN"]
              /\ o.s.dac = s.dac /\ o.s.frozen[c]
<1>1. PICK t \in afeSetCoupling(setPGA(s, c, MinimumGain), c, "TRAIN") :
        o \in Regardless(rfADCfreezeCalibration(Tone(setPGA(t.s, c, TrainingGain), c, TRUE), c, FALSE), LAMBDA u_ :
          Regardless(getCalibrationReading(u_), LAMBDA v_ :
            Regardless(rfADCfreezeCalibration(v_, c, TRUE), LAMBDA w_ : Done(Tone(w_, c, FALSE)))))
  BY DEF Trained, Regardless
<1>2. PICK u \in rfADCfreezeCalibration(Tone(setPGA(t.s, c, TrainingGain), c, TRUE), c, FALSE) :
        o \in Regardless(getCalibrationReading(u.s), LAMBDA v_ :
          Regardless(rfADCfreezeCalibration(v_, c, TRUE), LAMBDA w_ : Done(Tone(w_, c, FALSE))))
  BY <1>1 DEF Regardless
<1>3. PICK v \in getCalibrationReading(u.s) :
       o \in Regardless(rfADCfreezeCalibration(v.s, c, TRUE), LAMBDA w_ : Done(Tone(w_, c, FALSE)))
  BY <1>2 DEF Regardless
<1>4. PICK w \in rfADCfreezeCalibration(v.s, c, TRUE) : o = [s |-> Tone(w.s, c, FALSE), ok |-> TRUE]
  BY <1>3 DEF Regardless, Done
<1>5. PICK s1 : s1 = setPGA(s, c, MinimumGain)
  OBVIOUS
<1>6. /\ Elsewhere(s, s1, c) /\ s1.faults = s.faults /\ s1 \in FeState
      /\ Scales(s1) = Scales(s) /\ Ports(s1) = Ports(s) /\ Voltage(s1) = Voltage(s)
  BY <1>5, PGASet, VoltsAre, ElsewhereIs
<1>7. /\ Elsewhere(s1, t.s, c) /\ t.s \in FeState
      /\ Scales(t.s) = Scales(s1) /\ Voltage(t.s) = Voltage(s1)
      /\ t.s.faults = s1.faults /\ Steady(s1) => t.s.coupling = [s1.coupling EXCEPT ![c] = "TRAIN"]
  <2>1. t \in afeSetCoupling(s1, c, "TRAIN") /\ "TRAIN" \in Couplings
    BY <1>1, <1>5 DEF Couplings
  <2>2. PICK k \in Couplings : k = "TRAIN"
    BY <2>1
  <2> QED BY <1>6, <2>1, <2>2, CouplingSet, ElsewhereIs
<1>8. PICK s2 : s2 = setPGA(t.s, c, TrainingGain)
  OBVIOUS
<1>9. /\ Elsewhere(t.s, s2, c) /\ s2.faults = t.s.faults /\ s2 \in FeState
      /\ Scales(s2) = Scales(t.s) /\ Ports(s2) = Ports(t.s) /\ Voltage(s2) = Voltage(t.s)
  BY <1>7, <1>8, PGASet, VoltsAre, ElsewhereIs
<1>10. PICK s3 : s3 = Tone(s2, c, TRUE)
  OBVIOUS
<1>11. /\ Elsewhere(s2, s3, c) /\ s3.faults = s2.faults /\ s3 \in FeState
       /\ Scales(s3) = Scales(s2) /\ Ports(s3) = Ports(s2) /\ Voltage(s3) = Voltage(s2)
  <2>1. /\ Elsewhere(s2, s3, c) /\ s3.faults = s2.faults /\ s3.tone = [chan |-> c, on |-> TRUE]
        /\ Amplifiers(s3) = Amplifiers(s2) /\ Scales(s3) = Scales(s2) /\ Ports(s3) = Ports(s2)
        /\ Voltage(s3) = Voltage(s2) /\ s3.frozen = s2.frozen /\ s3.result = s2.result
    <3>1. s2 \in FeState /\ s3 = Tone(s2, c, TRUE)
      BY <1>9, <1>10
    <3> QED BY <3>1, ToneSet, ZenonT(40)
  <2> QED BY <2>1, ElsewhereIs
<1>12. /\ Elsewhere(s3, u.s, c) /\ u.s \in FeState
       /\ Scales(u.s) = Scales(s3) /\ Ports(u.s) = Ports(s3) /\ Voltage(u.s) = Voltage(s3)
  <2>1. u \in rfADCfreezeCalibration(s3, c, FALSE)
    BY <1>2, <1>8, <1>10
  <2>2. /\ Elsewhere(s3, u.s, c)
        /\ Amplifiers(u.s) = Amplifiers(s3) /\ Scales(u.s) = Scales(s3) /\ Ports(u.s) = Ports(s3)
        /\ Voltage(u.s) = Voltage(s3) /\ u.s.tone = s3.tone /\ u.s.result = s3.result
        /\ u.s.faults = s3.faults => u.s.frozen[c] = FALSE
    BY <1>11, <2>1, CalibrationFrozen, ZenonT(40)
  <2> QED BY <2>2, ElsewhereIs
<1>13. /\ Elsewhere(u.s, v.s, c) /\ v.s \in FeState
       /\ Scales(v.s) = Scales(u.s) /\ Ports(v.s) = Ports(u.s) /\ Voltage(v.s) = Voltage(u.s)
  BY <1>12, <1>3, ReadingTaken, ElsewhereIs
<1>14. /\ Elsewhere(v.s, w.s, c) /\ w.s \in FeState
       /\ Scales(w.s) = Scales(v.s) /\ Ports(w.s) = Ports(v.s) /\ Voltage(w.s) = Voltage(v.s)
       /\ w.s.faults = v.s.faults => w.s.frozen[c]
  <2>1. w \in rfADCfreezeCalibration(v.s, c, TRUE)
    BY <1>4
  <2>2. /\ Elsewhere(v.s, w.s, c)
        /\ Amplifiers(w.s) = Amplifiers(v.s) /\ Scales(w.s) = Scales(v.s) /\ Ports(w.s) = Ports(v.s)
        /\ Voltage(w.s) = Voltage(v.s) /\ w.s.tone = v.s.tone /\ w.s.result = v.s.result
        /\ w.s.faults = v.s.faults => w.s.frozen[c] = TRUE
    BY <1>13, <2>1, CalibrationFrozen, Zenon
  <2> QED BY <2>2, ElsewhereIs
<1>15. PICK s4 : s4 = Tone(w.s, c, FALSE)
  OBVIOUS
<1>16. /\ Elsewhere(w.s, s4, c) /\ s4.faults = w.s.faults /\ s4 \in FeState
       /\ Scales(s4) = Scales(w.s) /\ Ports(s4) = Ports(w.s) /\ Voltage(s4) = Voltage(w.s)
       /\ s4.frozen = w.s.frozen /\ s4.tone = [chan |-> c, on |-> FALSE]
  <2>1. /\ Elsewhere(w.s, s4, c) /\ s4.faults = w.s.faults /\ s4.tone = [chan |-> c, on |-> FALSE]
        /\ Amplifiers(s4) = Amplifiers(w.s) /\ Scales(s4) = Scales(w.s) /\ Ports(s4) = Ports(w.s)
        /\ Voltage(s4) = Voltage(w.s) /\ s4.frozen = w.s.frozen /\ s4.result = w.s.result
    <3>1. PICK x : x = w.s
      OBVIOUS
    <3>2. x \in FeState /\ s4 = Tone(x, c, FALSE)
      BY <1>14, <1>15, <3>1
    <3>3. /\ Elsewhere(x, s4, c) /\ s4.faults = x.faults /\ s4.tone = [chan |-> c, on |-> FALSE]
          /\ Amplifiers(s4) = Amplifiers(x) /\ Scales(s4) = Scales(x) /\ Ports(s4) = Ports(x)
          /\ Voltage(s4) = Voltage(x) /\ s4.frozen = x.frozen /\ s4.result = x.result
      BY <3>2, ToneSet, ZenonT(40)
    <3> QED BY <3>1, <3>3
  <2> QED BY <2>1, ElsewhereIs
<1>17. Elsewhere(s, t.s, c) /\ (t.s.faults = s.faults => t.s.faults = s1.faults)
  BY <1>6, <1>7, ThenElsewhere
<1>18. Elsewhere(s, s3, c) /\ (s3.faults = s.faults => t.s.faults = s.faults)
  BY <1>7, <1>9, <1>11, <1>17, ThenElsewhere
<1>19. Elsewhere(s, v.s, c) /\ (v.s.faults = s.faults => s3.faults = s.faults)
  BY <1>12, <1>13, <1>18, ThenElsewhere
<1>20. Elsewhere(s, s4, c) /\ (s4.faults = s.faults => v.s.faults = s.faults /\ w.s.faults = s.faults)
  BY <1>14, <1>16, <1>19, ThenElsewhere
<1>21. o.s = s4
  BY <1>4, <1>15
<1>22. ASSUME s4.faults = s.faults, Steady(s)
       PROVE  /\ s4.coupling = [s.coupling EXCEPT ![c] = "TRAIN"] /\ s4.dac = s.dac /\ s4.frozen[c]
  <2>1. /\ t.s.faults = s1.faults /\ w.s.faults = v.s.faults /\ Steady(s1)
    BY <1>6, <1>17, <1>18, <1>19, <1>20, <1>22 DEF Elsewhere
  <2>2. s4.coupling = t.s.coupling /\ s1.coupling = s.coupling
    BY <1>6, <1>9, <1>11, <1>12, <1>13, <1>14, <1>16 DEF Ports
  <2>3. s4.dac = s.dac
    BY <1>6, <1>7, <1>9, <1>11, <1>12, <1>13, <1>14, <1>16 DEF Voltage
  <2> QED BY <1>7, <1>14, <1>16, <2>1, <2>2, <2>3
<1> QED BY <1>6, <1>7, <1>9, <1>11, <1>12, <1>13, <1>14, <1>16, <1>20, <1>21, <1>22

(* acquisitionScaleChanged: only the counts of the channel change, to its  *)
(* present scale.                                                          *)
LEMMA ScaleKept ==
  ASSUME NEW s \in FeState, NEW c \in Channels, NEW t, t = acquisitionScaleChanged(s, c)
  PROVE  /\ Elsewhere(s, t, c) /\ t.faults = s.faults /\ Scaled(t, c)
         /\ t.gnd = s.gnd /\ t.cal = s.cal /\ t.open = s.open
         /\ Amplifiers(t) = Amplifiers(s) /\ Ports(t) = Ports(s)
         /\ Voltage(t) = Voltage(s) /\ ConverterOf(t) = ConverterOf(s)
<1>1. s.level \in Each(Int) /\ s.faults \in Nat
  BY DEF FeState
<1>2. PICK v \in Int : v = s.level[c]
  BY <1>1 DEF Each
<1>3. t = acquisitionSetTriggerLevel(s, c, v)
  BY <1>2 DEF acquisitionScaleChanged
<1>4. /\ t \in FeState /\ t.faults = s.faults /\ t.level = [s.level EXCEPT ![c] = v]
      /\ Scaled(t, c) /\ \A d \in Channels \ {c} : t.counts[d] = s.counts[d]
      /\ t.gnd = s.gnd /\ t.cal = s.cal /\ t.open = s.open
      /\ Amplifiers(t) = Amplifiers(s) /\ Ports(t) = Ports(s)
      /\ Voltage(t) = Voltage(s) /\ ConverterOf(t) = ConverterOf(s)
  BY <1>3, ScaleFollows
<1>5. t.level = s.level
  BY <1>1, <1>2, <1>4 DEF Each
<1> QED BY <1>1, <1>4, <1>5
     DEF Elsewhere, OfChannel, Believed, Steady, Amplifiers, Ports, Voltage, ConverterOf

(* What a reading is of, when the switches are as believed.                *)
LEMMA AppliedIs ==
  ASSUME NEW s \in FeState, NEW c \in Channels, NEW k \in {"CAL", "OPEN"}, Steady(s),
         s.tone.chan = c, s.coupling[c] = k
  PROVE  Applied(s) = [to |-> c, coupling |-> k, pga |-> s.pga[c], dac |-> IF k = "CAL" THEN s.dac ELSE 0]
<1>1. s.switch[c] = k
  BY DEF Steady, Believed
<1> QED BY <1>1 DEF Applied

(* The second half: three readings, each with the coupling and the voltage *)
(* it is for when nothing fails; the scale follows whatever fails.         *)
LEMMA MeasuredChannel ==
  ASSUME NEW s \in FeState, NEW c \in Channels, NEW o \in Measured(s, c)
  PROVE  /\ Elsewhere(s, o.s, c) /\ Tuned(o.s, c) /\ Scaled(o.s, c) /\ o.s.tone = s.tone
         /\ o.s.faults = s.faults /\ Steady(s) /\ s.dac = 0 /\ s.tone.chan = c =>
              /\ o.s.coupling = [s.coupling EXCEPT ![c] = "OPEN"]
              /\ o.s.dac = 0 /\ Read(o.s, c) /\ o.s.frozen[c] = s.frozen[c]
<1>1. PICK t \in afeSetCoupling(s, c, "CAL") : 
      o \in Regardless(getCalibrationReading(setPGA(t.s, c, CalibrationGain(s, c))), LAMBDA u_ :
        Regardless(afeSetDAC(GndKept(u_, c), u_.calDAC[c]), LAMBDA v_ :
        Regardless(getCalibrationReading(v_), LAMBDA w_ :
          Regardless(afeSetDAC(CalKept(w_, c), 0), LAMBDA x_ :
            Regardless(afeSetCoupling(x_, c, "OPEN"), LAMBDA y_ :
              Regardless(getCalibrationReading(y_), LAMBDA z_ :
                Done(acquisitionScaleChanged(OpenKept(z_, c), c))))))))
  BY DEF Measured, Regardless, GndKept, CalKept, OpenKept
<1>2. PICK u \in getCalibrationReading(setPGA(t.s, c, CalibrationGain(s, c))) :
      o \in Regardless(afeSetDAC(GndKept(u.s, c), u.s.calDAC[c]), LAMBDA v_ :
        Regardless(getCalibrationReading(v_), LAMBDA w_ :
          Regardless(afeSetDAC(CalKept(w_, c), 0), LAMBDA x_ :
            Regardless(afeSetCoupling(x_, c, "OPEN"), LAMBDA y_ :
              Regardless(getCalibrationReading(y_), LAMBDA z_ :
                Done(acquisitionScaleChanged(OpenKept(z_, c), c)))))))
  BY <1>1 DEF Regardless
<1>3. PICK v \in afeSetDAC(GndKept(u.s, c), u.s.calDAC[c]) :
      o \in Regardless(getCalibrationReading(v.s), LAMBDA w_ :
          Regardless(afeSetDAC(CalKept(w_, c), 0), LAMBDA x_ :
            Regardless(afeSetCoupling(x_, c, "OPEN"), LAMBDA y_ :
              Regardless(getCalibrationReading(y_), LAMBDA z_ :
                Done(acquisitionScaleChanged(OpenKept(z_, c), c))))))
  BY <1>2 DEF Regardless
<1>4. PICK w \in getCalibrationReading(v.s) :
      o \in Regardless(afeSetDAC(CalKept(w.s, c), 0), LAMBDA x_ :
            Regardless(afeSetCoupling(x_, c, "OPEN"), LAMBDA y_ :
              Regardless(getCalibrationReading(y_), LAMBDA z_ :
                Done(acquisitionScaleChanged(OpenKept(z_, c), c)))))
  BY <1>3 DEF Regardless
<1>5. PICK x \in afeSetDAC(CalKept(w.s, c), 0) :
      o \in Regardless(afeSetCoupling(x.s, c, "OPEN"), LAMBDA y_ :
              Regardless(getCalibrationReading(y_), LAMBDA z_ :
                Done(acquisitionScaleChanged(OpenKept(z_, c), c))))
  BY <1>4 DEF Regardless
<1>6. PICK y \in afeSetCoupling(x.s, c, "OPEN") :
      o \in Regardless(getCalibrationReading(y.s), LAMBDA z_ :
                Done(acquisitionScaleChanged(OpenKept(z_, c), c)))
  BY <1>5 DEF Regardless
<1>7. PICK z \in getCalibrationReading(y.s) :
        o = [s |-> acquisitionScaleChanged(OpenKept(z.s, c), c), ok |-> TRUE]
  BY <1>6 DEF Regardless, Done
<1>8. PICK s1, s2, s3, s4, s5, s6, s7, s8, s9, s10, s11, s12, g :
        /\ s1 = t.s /\ s2 = setPGA(t.s, c, CalibrationGain(s, c)) /\ s3 = u.s
        /\ s4 = GndKept(u.s, c) /\ s5 = v.s /\ s6 = w.s /\ s7 = CalKept(w.s, c) /\ s8 = x.s
        /\ s9 = y.s /\ s10 = z.s /\ s11 = OpenKept(z.s, c) /\ s12 = o.s /\ g = s.gain[c]
  OBVIOUS
<1>9. /\ g \in GainCodes /\ g \in PgaCodes
  BY <1>8, VoltsAre DEF FeState, Each
<1>10. /\ Elsewhere(s, s1, c)
       /\ Scales(s1) = Scales(s) /\ Voltage(s1) = Voltage(s) /\ ConverterOf(s1) = ConverterOf(s)
       /\ s1.faults = s.faults /\ Steady(s) => s1.coupling = [s.coupling EXCEPT ![c] = "CAL"]
  <2>1. PICK k \in Couplings : k = "CAL"
    BY DEF Couplings
  <2>2. t \in afeSetCoupling(s, c, k)
    BY <1>1, <2>1
  <2> QED BY <1>8, <2>1, <2>2, CouplingSet
<1>11. s1 \in FeState /\ s1.gain = s.gain
  BY <1>10 DEF Elsewhere
<1>12. /\ Elsewhere(s1, s2, c) /\ s2.faults = s1.faults
       /\ s2.pga[c] = g /\ s2.calDAC[c] = DacFor(g)
       /\ Scales(s2) = Scales(s1) /\ Ports(s2) = Ports(s1)
       /\ Voltage(s2) = Voltage(s1) /\ ConverterOf(s2) = ConverterOf(s1)
  <2>1. s2 = setPGA(s1, c, g)
    BY <1>8 DEF CalibrationGain
  <2> QED BY <1>9, <1>11, <2>1, PGASet
<1>13. s2 \in FeState
  BY <1>12, ElsewhereIs
<1>14. /\ Elsewhere(s2, s3, c)
       /\ Amplifiers(s3) = Amplifiers(s2) /\ Scales(s3) = Scales(s2) /\ Ports(s3) = Ports(s2)
       /\ Voltage(s3) = Voltage(s2) /\ s3.tone = s2.tone /\ s3.frozen = s2.frozen
       /\ s3.faults = s2.faults => s3.result = Applied(s2)
  <2>1. u \in getCalibrationReading(s2)
    BY <1>2, <1>8
  <2> QED BY <1>8, <1>13, <2>1, ReadingTaken
<1>15. s3 \in FeState
  BY <1>14, ElsewhereIs
<1>16. /\ Elsewhere(s3, s4, c) /\ s4.faults = s3.faults /\ s4.gnd[c] = s3.result
       /\ Amplifiers(s4) = Amplifiers(s3) /\ Ports(s4) = Ports(s3)
       /\ Voltage(s4) = Voltage(s3) /\ ConverterOf(s4) = ConverterOf(s3)
  <2>1. s4 = GndKept(s3, c)
    BY <1>8
  <2> QED BY <1>15, <2>1, GndRecorded
<1>17. s4 \in FeState
  BY <1>16, ElsewhereIs
<1>18. s3.calDAC[c] = DacFor(g) /\ InDACRange(s3.calDAC[c]) \in Volts /\ InDACRange(s3.calDAC[c]) = DacFor(g)
  <2>1. s3.calDAC = s2.calDAC
    BY <1>14 DEF Amplifiers
  <2> QED BY <1>9, <1>12, <2>1, VoltsAre
<1>19. /\ Elsewhere(s4, s5, c)
       /\ Amplifiers(s5) = Amplifiers(s4) /\ Scales(s5) = Scales(s4)
       /\ Ports(s5) = Ports(s4) /\ ConverterOf(s5) = ConverterOf(s4)
       /\ s5.faults = s4.faults => s5.dac = DacFor(g)
  <2>1. PICK v0 : v0 = s3.calDAC[c]
    OBVIOUS
  <2>2. v \in afeSetDAC(s4, v0)
    BY <1>3, <1>8, <2>1
  <2>3. InDACRange(v0) \in Volts /\ InDACRange(v0) = DacFor(g)
    BY <1>18, <2>1
  <2> QED BY <1>8, <1>17, <2>2, <2>3, DACSet
<1>20. s5 \in FeState
  BY <1>19, ElsewhereIs
<1>21. /\ Elsewhere(s5, s6, c)
       /\ Amplifiers(s6) = Amplifiers(s5) /\ Scales(s6) = Scales(s5) /\ Ports(s6) = Ports(s5)
       /\ Voltage(s6) = Voltage(s5) /\ s6.tone = s5.tone /\ s6.frozen = s5.frozen
       /\ s6.faults = s5.faults => s6.result = Applied(s5)
  <2>1. w \in getCalibrationReading(s5)
    BY <1>4, <1>8
  <2> QED BY <1>8, <1>20, <2>1, ReadingTaken
<1>22. s6 \in FeState
  BY <1>21, ElsewhereIs
<1>23. /\ Elsewhere(s6, s7, c) /\ s7.faults = s6.faults /\ s7.cal[c] = s6.result /\ s7.gnd = s6.gnd
       /\ Amplifiers(s7) = Amplifiers(s6) /\ Ports(s7) = Ports(s6)
       /\ Voltage(s7) = Voltage(s6) /\ ConverterOf(s7) = ConverterOf(s6)
  <2>1. s7 = CalKept(s6, c)
    BY <1>8
  <2> QED BY <1>22, <2>1, CalRecorded
<1>24. s7 \in FeState
  BY <1>23, ElsewhereIs
<1>25. /\ Elsewhere(s7, s8, c)
       /\ Amplifiers(s8) = Amplifiers(s7) /\ Scales(s8) = Scales(s7)
       /\ Ports(s8) = Ports(s7) /\ ConverterOf(s8) = ConverterOf(s7)
       /\ s8.faults = s7.faults => s8.dac = 0
  <2>1. x \in afeSetDAC(s7, 0)
    BY <1>5, <1>8
  <2> QED BY <1>8, <1>24, <2>1, DACSet, VoltsAre
<1>26. s8 \in FeState
  BY <1>25, ElsewhereIs
<1>27. /\ Elsewhere(s8, s9, c)
       /\ Amplifiers(s9) = Amplifiers(s8) /\ Scales(s9) = Scales(s8)
       /\ Voltage(s9) = Voltage(s8) /\ ConverterOf(s9) = ConverterOf(s8)
       /\ s9.faults = s8.faults /\ Steady(s8) => s9.coupling = [s8.coupling EXCEPT ![c] = "OPEN"]
  <2>1. PICK k \in Couplings : k = "OPEN"
    BY DEF Couplings
  <2>2. y \in afeSetCoupling(s8, c, k)
    BY <1>6, <1>8, <2>1
  <2> QED BY <1>8, <1>26, <2>1, <2>2, CouplingSet
<1>28. s9 \in FeState
  BY <1>27, ElsewhereIs
<1>29. /\ Elsewhere(s9, s10, c)
       /\ Amplifiers(s10) = Amplifiers(s9) /\ Scales(s10) = Scales(s9) /\ Ports(s10) = Ports(s9)
       /\ Voltage(s10) = Voltage(s9) /\ s10.tone = s9.tone /\ s10.frozen = s9.frozen
       /\ s10.faults = s9.faults => s10.result = Applied(s9)
  <2>1. z \in getCalibrationReading(s9)
    BY <1>7, <1>8
  <2> QED BY <1>8, <1>28, <2>1, ReadingTaken
<1>30. s10 \in FeState
  BY <1>29, ElsewhereIs
<1>31. /\ Elsewhere(s10, s11, c) /\ s11.faults = s10.faults /\ s11.open[c] = s10.result
       /\ s11.gnd = s10.gnd /\ s11.cal = s10.cal
       /\ Amplifiers(s11) = Amplifiers(s10) /\ Ports(s11) = Ports(s10)
       /\ Voltage(s11) = Voltage(s10) /\ ConverterOf(s11) = ConverterOf(s10)
  <2>1. s11 = OpenKept(s10, c)
    BY <1>8
  <2> QED BY <1>30, <2>1, OpenRecorded
<1>32. s11 \in FeState
  BY <1>31, ElsewhereIs
<1>33. /\ Elsewhere(s11, s12, c) /\ s12.faults = s11.faults /\ Scaled(s12, c)
       /\ s12.gnd = s11.gnd /\ s12.cal = s11.cal /\ s12.open = s11.open
       /\ Amplifiers(s12) = Amplifiers(s11) /\ Ports(s12) = Ports(s11)
       /\ Voltage(s12) = Voltage(s11) /\ ConverterOf(s12) = ConverterOf(s11)
  <2>1. s12 = acquisitionScaleChanged(s11, c)
    BY <1>7, <1>8
  <2> QED BY <1>32, <2>1, ScaleKept
<1>34. /\ Elsewhere(s, s4, c)
       /\ s4.faults = s.faults => s1.faults = s.faults /\ s2.faults = s1.faults
                                  /\ s3.faults = s2.faults /\ s4.faults = s3.faults
  <2>1. Elsewhere(s, s2, c) /\ (s2.faults = s.faults => s1.faults = s.faults /\ s2.faults = s1.faults)
    BY <1>10, <1>12, ThenElsewhere
  <2>2. Elsewhere(s, s3, c) /\ (s3.faults = s.faults => s2.faults = s.faults /\ s3.faults = s2.faults)
    BY <1>14, <2>1, ThenElsewhere
  <2>3. Elsewhere(s, s4, c) /\ (s4.faults = s.faults => s3.faults = s.faults /\ s4.faults = s3.faults)
    BY <1>16, <2>2, ThenElsewhere
  <2> QED BY <2>1, <2>2, <2>3
<1>35. /\ Elsewhere(s, s8, c)
       /\ s8.faults = s.faults => s4.faults = s.faults /\ s5.faults = s4.faults
             /\ s6.faults = s5.faults /\ s7.faults = s6.faults /\ s8.faults = s7.faults
  <2>1. Elsewhere(s, s5, c) /\ (s5.faults = s.faults => s4.faults = s.faults /\ s5.faults = s4.faults)
    BY <1>19, <1>34, ThenElsewhere
  <2>2. Elsewhere(s, s6, c) /\ (s6.faults = s.faults => s5.faults = s.faults /\ s6.faults = s5.faults)
    BY <1>21, <2>1, ThenElsewhere
  <2>3. Elsewhere(s, s7, c) /\ (s7.faults = s.faults => s6.faults = s.faults /\ s7.faults = s6.faults)
    BY <1>23, <2>2, ThenElsewhere
  <2>4. Elsewhere(s, s8, c) /\ (s8.faults = s.faults => s7.faults = s.faults /\ s8.faults = s7.faults)
    BY <1>25, <2>3, ThenElsewhere
  <2> QED BY <2>1, <2>2, <2>3, <2>4
<1>36. /\ Elsewhere(s, s12, c)
       /\ s12.faults = s.faults => s8.faults = s.faults /\ s9.faults = s8.faults
             /\ s10.faults = s9.faults /\ s11.faults = s10.faults
  <2>1. Elsewhere(s, s9, c) /\ (s9.faults = s.faults => s8.faults = s.faults /\ s9.faults = s8.faults)
    BY <1>27, <1>35, ThenElsewhere
  <2>2. Elsewhere(s, s10, c) /\ (s10.faults = s.faults => s9.faults = s.faults /\ s10.faults = s9.faults)
    BY <1>29, <2>1, ThenElsewhere
  <2>3. Elsewhere(s, s11, c) /\ (s11.faults = s.faults => s10.faults = s.faults /\ s11.faults = s10.faults)
    BY <1>31, <2>2, ThenElsewhere
  <2>4. Elsewhere(s, s12, c) /\ (s12.faults = s.faults => s11.faults = s.faults /\ s12.faults = s11.faults)
    BY <1>33, <2>3, ThenElsewhere
  <2> QED BY <2>1, <2>2, <2>3, <2>4
<1>37. s12.pga[c] = g /\ s12.calDAC[c] = DacFor(g) /\ s12.gain = s.gain
  <2>1. Amplifiers(s12) = Amplifiers(s2)
    BY <1>14, <1>16, <1>19, <1>21, <1>23, <1>25, <1>27, <1>29, <1>31, <1>33
  <2> QED BY <1>12, <1>36, <2>1 DEF Amplifiers, Elsewhere
<1>38. Tuned(s12, c)
  BY <1>8, <1>37 DEF Tuned
<1>39. s12.tone = s.tone
  BY <1>10, <1>12, <1>14, <1>16, <1>19, <1>21, <1>23, <1>25, <1>27, <1>29, <1>31, <1>33 DEF ConverterOf
<1>40. ASSUME s12.faults = s.faults, Steady(s), s.dac = 0, s.tone.chan = c
       PROVE  /\ s12.coupling = [s.coupling EXCEPT ![c] = "OPEN"]
              /\ s12.dac = 0 /\ Read(s12, c) /\ s12.frozen[c] = s.frozen[c]
  <2>1. /\ Steady(s1) /\ Steady(s2) /\ Steady(s4) /\ Steady(s5) /\ Steady(s8) /\ Steady(s9)
    <3>1. Steady(s1) /\ Steady(s2) /\ Steady(s3) /\ Steady(s4)
      BY <1>10, <1>12, <1>14, <1>16, <1>34, <1>35, <1>36, <1>40 DEF Elsewhere
    <3>2. Steady(s5) /\ Steady(s6) /\ Steady(s7) /\ Steady(s8)
      BY <1>19, <1>21, <1>23, <1>25, <1>35, <1>36, <1>40, <3>1 DEF Elsewhere
    <3> QED BY <1>27, <1>36, <1>40, <3>1, <3>2 DEF Elsewhere
  <2>2. s1.coupling = [s.coupling EXCEPT ![c] = "CAL"] /\ s9.coupling = [s8.coupling EXCEPT ![c] = "OPEN"]
    BY <1>10, <1>27, <1>34, <1>35, <1>36, <1>40, <2>1
  <2>3. /\ s2.coupling = s1.coupling /\ s5.coupling = s1.coupling /\ s8.coupling = s1.coupling
        /\ s12.coupling = s9.coupling
    BY <1>12, <1>14, <1>16, <1>19, <1>21, <1>23, <1>25, <1>29, <1>31, <1>33 DEF Ports
  <2>4. s.coupling \in Each(Couplings)
    BY DEF FeState
  <2>5. /\ s2.coupling[c] = "CAL" /\ s5.coupling[c] = "CAL" /\ s9.coupling[c] = "OPEN"
        /\ s12.coupling = [s.coupling EXCEPT ![c] = "OPEN"]
    BY <2>2, <2>3, <2>4 DEF Each
  <2>6. /\ s2.tone.chan = c /\ s5.tone.chan = c /\ s9.tone.chan = c
    BY <1>10, <1>12, <1>14, <1>16, <1>19, <1>21, <1>23, <1>25, <1>27, <1>40 DEF ConverterOf
  <2>7. s2.dac = 0 /\ s5.dac = DacFor(g) /\ s12.dac = 0
    BY <1>10, <1>12, <1>19, <1>25, <1>27, <1>29, <1>31, <1>33, <1>34, <1>35, <1>36, <1>40 DEF Voltage
  <2>8. s2.pga[c] = g /\ s5.pga[c] = g /\ s9.pga[c] = g
    BY <1>12, <1>14, <1>16, <1>19, <1>21, <1>23, <1>25, <1>27 DEF Amplifiers
  <2>9. /\ Applied(s2) = [to |-> c, coupling |-> "CAL", pga |-> g, dac |-> 0]
        /\ Applied(s5) = [to |-> c, coupling |-> "CAL", pga |-> g, dac |-> DacFor(g)]
        /\ Applied(s9) = [to |-> c, coupling |-> "OPEN", pga |-> g, dac |-> 0]
    <3>1. Applied(s2) = [to |-> c, coupling |-> "CAL", pga |-> g, dac |-> 0]
      BY <1>13, <2>1, <2>5, <2>6, <2>7, <2>8, AppliedIs
    <3>2. Applied(s5) = [to |-> c, coupling |-> "CAL", pga |-> g, dac |-> DacFor(g)]
      BY <1>20, <2>1, <2>5, <2>6, <2>7, <2>8, AppliedIs
    <3>3. Applied(s9) = [to |-> c, coupling |-> "OPEN", pga |-> g, dac |-> 0]
      BY <1>28, <2>1, <2>5, <2>6, <2>8, AppliedIs
    <3> QED BY <3>1, <3>2, <3>3
  <2>10. /\ s4.gnd[c] = Applied(s2) /\ s7.cal[c] = Applied(s5) /\ s11.open[c] = Applied(s9)
    BY <1>14, <1>16, <1>21, <1>23, <1>29, <1>31, <1>34, <1>35, <1>36, <1>40
  <2>11. s12.gnd = s4.gnd
    BY <1>19, <1>21, <1>23, <1>25, <1>27, <1>29, <1>31, <1>33 DEF Scales
  <2>12. s12.cal = s7.cal /\ s12.open = s11.open
    BY <1>25, <1>27, <1>29, <1>31, <1>33 DEF Scales
  <2>13. Read(s12, c)
    BY <1>8, <1>37, <2>9, <2>10, <2>11, <2>12 DEF Read, ReadingAt
  <2>14. s12.frozen = s.frozen
    BY <1>10, <1>12, <1>14, <1>16, <1>19, <1>21, <1>23, <1>25, <1>27, <1>29, <1>31, <1>33 DEF ConverterOf
  <2> QED BY <2>5, <2>7, <2>13, <2>14
<1> QED BY <1>8, <1>33, <1>36, <1>38, <1>39, <1>40

(* A calibration leaves its channel consistent, the others alone, and the  *)
(* coupling, voltage and tone as they were when nothing fails.             *)
LEMMA CalibratedChannel ==
  ASSUME NEW s \in FeState, NEW c \in Channels, NEW o \in calibrate(s, c)
  PROVE  /\ Elsewhere(s, o.s, c) /\ Tuned(o.s, c) /\ Scaled(o.s, c)
         /\ o.s.faults = s.faults /\ Steady(s) =>
              /\ o.s.coupling = s.coupling /\ o.s.dac = s.dac /\ o.s.tone.on = s.tone.on
              /\ Read(o.s, c) /\ o.s.frozen[c]
<1>1. PICK t \in Trained(s, c) :
      o \in Regardless(afeSetDAC(t.s, 0), LAMBDA u_ :
        Regardless(Measured(u_, c), LAMBDA v_ :
          Regardless(afeSetDAC(IF s.tone.on THEN Tone(v_, c, TRUE) ELSE v_, RestoredDAC(u_.ret)), LAMBDA w_ :
            afeSetCoupling(w_, c, s.coupling[c]))))
  BY DEF calibrate, Regardless
<1>2. PICK u \in afeSetDAC(t.s, 0) :
      o \in Regardless(Measured(u.s, c), LAMBDA v_ :
        Regardless(afeSetDAC(IF s.tone.on THEN Tone(v_, c, TRUE) ELSE v_, RestoredDAC(u.s.ret)), LAMBDA w_ :
          afeSetCoupling(w_, c, s.coupling[c])))
  BY <1>1 DEF Regardless
<1>3. PICK v \in Measured(u.s, c) :
      o \in Regardless(afeSetDAC(IF s.tone.on THEN Tone(v.s, c, TRUE) ELSE v.s, RestoredDAC(u.s.ret)), LAMBDA w_ :
        afeSetCoupling(w_, c, s.coupling[c]))
  BY <1>2 DEF Regardless
<1>4. PICK w \in afeSetDAC(IF s.tone.on THEN Tone(v.s, c, TRUE) ELSE v.s, RestoredDAC(u.s.ret)) :
        o \in afeSetCoupling(w.s, c, s.coupling[c])
  BY <1>3 DEF Regardless
<1>5. PICK s1, s2, s3, s4, s5, s6, k, old :
        /\ s1 = t.s /\ s2 = u.s /\ s3 = v.s /\ s4 = (IF s.tone.on THEN Tone(v.s, c, TRUE) ELSE v.s)
        /\ s5 = w.s /\ s6 = o.s /\ k = s.coupling[c] /\ old = u.s.ret
  OBVIOUS
<1>6. s.coupling \in Each(Couplings) /\ k \in Couplings /\ s.dac \in Volts
  BY <1>5 DEF FeState, Each
<1>7. /\ Elsewhere(s, s1, c)
      /\ Scales(s1) = Scales(s) /\ s1.tone = [chan |-> c, on |-> FALSE]
      /\ s1.faults = s.faults /\ Steady(s) =>
           /\ s1.coupling = [s.coupling EXCEPT ![c] = "TRAIN"]
           /\ s1.dac = s.dac /\ s1.frozen[c]
  BY <1>1, <1>5, TrainedChannel
<1>8. s1 \in FeState
  BY <1>7, ElsewhereIs
<1>9. /\ Elsewhere(s1, s2, c)
      /\ Amplifiers(s2) = Amplifiers(s1) /\ Scales(s2) = Scales(s1)
      /\ Ports(s2) = Ports(s1) /\ ConverterOf(s2) = ConverterOf(s1)
      /\ s2.faults = s1.faults => s2.dac = 0 /\ s2.ret = s1.oldDAC
  <2>1. u \in afeSetDAC(s1, 0)
    BY <1>2, <1>5
  <2> QED BY <1>5, <1>8, <2>1, DACSet, VoltsAre
<1>10. s2 \in FeState
  BY <1>9, ElsewhereIs
<1>11. /\ Elsewhere(s2, s3, c) /\ Tuned(s3, c) /\ Scaled(s3, c) /\ s3.tone = s2.tone
       /\ s3.faults = s2.faults /\ Steady(s2) /\ s2.dac = 0 /\ s2.tone.chan = c =>
            /\ s3.coupling = [s2.coupling EXCEPT ![c] = "OPEN"]
            /\ s3.dac = 0 /\ Read(s3, c) /\ s3.frozen[c] = s2.frozen[c]
  <2>1. v \in Measured(s2, c)
    BY <1>3, <1>5
  <2> QED BY <1>5, <1>10, <2>1, MeasuredChannel
<1>12. s3 \in FeState
  BY <1>11, ElsewhereIs
<1>13. /\ Elsewhere(s3, s4, c) /\ s4.faults = s3.faults
       /\ s4.tone = [chan |-> c, on |-> TRUE] \/ (~s.tone.on /\ s4 = s3)
       /\ Amplifiers(s4) = Amplifiers(s3) /\ Scales(s4) = Scales(s3) /\ Ports(s4) = Ports(s3)
       /\ Voltage(s4) = Voltage(s3) /\ s4.frozen = s3.frozen
       /\ ~s.tone.on => s4 = s3
  <2>1. CASE s.tone.on
    <3>1. s4 = Tone(s3, c, TRUE)
      BY <1>5, <2>1
    <3>2. /\ Elsewhere(s3, s4, c) /\ s4.faults = s3.faults /\ s4.tone = [chan |-> c, on |-> TRUE]
          /\ Amplifiers(s4) = Amplifiers(s3) /\ Scales(s4) = Scales(s3) /\ Ports(s4) = Ports(s3)
          /\ Voltage(s4) = Voltage(s3) /\ s4.frozen = s3.frozen /\ s4.result = s3.result
      BY <1>12, <3>1, ToneSet, ZenonT(40)
    <3> QED BY <2>1, <3>2
  <2>2. CASE ~s.tone.on
    <3>1. s4 = s3
      BY <1>5, <2>2
    <3>2. s3.faults \in Nat
      BY <1>12 DEF FeState
    <3> QED BY <1>12, <2>2, <3>1, <3>2 DEF Elsewhere
  <2> QED BY <2>1, <2>2
<1>14. s4 \in FeState
  BY <1>13, ElsewhereIs
<1>15. /\ Elsewhere(s4, s5, c)
       /\ Amplifiers(s5) = Amplifiers(s4) /\ Scales(s5) = Scales(s4)
       /\ Ports(s5) = Ports(s4) /\ ConverterOf(s5) = ConverterOf(s4)
       /\ s5.faults = s4.faults => s5.dac = InDACRange(old)
  <2>1. w \in afeSetDAC(s4, old)
    BY <1>4, <1>5 DEF RestoredDAC
  <2>2. old \in Volts \cup {-1}
    BY <1>5, <1>10 DEF FeState
  <2>3. InDACRange(old) \in Volts
    BY <2>2, VoltsAre
  <2> QED BY <1>5, <1>14, <2>1, <2>3, DACSet, ZenonT(40)
<1>16. s5 \in FeState
  BY <1>15, ElsewhereIs
<1>17. /\ Elsewhere(s5, s6, c)
       /\ Amplifiers(s6) = Amplifiers(s5) /\ Scales(s6) = Scales(s5)
       /\ Voltage(s6) = Voltage(s5) /\ ConverterOf(s6) = ConverterOf(s5)
       /\ s6.faults = s5.faults /\ Steady(s5) => s6.coupling = [s5.coupling EXCEPT ![c] = k]
  <2>1. o \in afeSetCoupling(s5, c, k)
    BY <1>4, <1>5
  <2> QED BY <1>5, <1>6, <1>16, <2>1, CouplingSet
<1>18. Elsewhere(s, s2, c) /\ (s2.faults = s.faults => s1.faults = s.faults /\ s2.faults = s1.faults)
  BY <1>7, <1>9, ThenElsewhere
<1>19. Elsewhere(s, s3, c) /\ (s3.faults = s.faults => s2.faults = s.faults /\ s3.faults = s2.faults)
  BY <1>11, <1>18, ThenElsewhere
<1>20. Elsewhere(s, s4, c) /\ (s4.faults = s.faults => s3.faults = s.faults /\ s4.faults = s3.faults)
  BY <1>13, <1>19, ThenElsewhere
<1>21. Elsewhere(s, s5, c) /\ (s5.faults = s.faults => s4.faults = s.faults /\ s5.faults = s4.faults)
  BY <1>15, <1>20, ThenElsewhere
<1>22. Elsewhere(s, s6, c) /\ (s6.faults = s.faults => s5.faults = s.faults /\ s6.faults = s5.faults)
  BY <1>17, <1>21, ThenElsewhere
<1>23. Amplifiers(s6) = Amplifiers(s3) /\ Scales(s6) = Scales(s3)
  BY <1>13, <1>15, <1>17
<1>24. Tuned(s6, c) /\ Scaled(s6, c)
  BY <1>11, <1>23 DEF Tuned, Scaled, Amplifiers, Scales
<1>25. ASSUME s6.faults = s.faults, Steady(s)
       PROVE  /\ s6.coupling = s.coupling /\ s6.dac = s.dac /\ s6.tone.on = s.tone.on
              /\ Read(s6, c) /\ s6.frozen[c]
  <2>1. Steady(s1) /\ Steady(s2) /\ Steady(s5)
    BY <1>7, <1>18, <1>19, <1>20, <1>21, <1>22, <1>25 DEF Elsewhere
  <2>2. /\ s1.coupling = [s.coupling EXCEPT ![c] = "TRAIN"] /\ s1.dac = s.dac /\ s1.frozen[c]
    BY <1>7, <1>18, <1>19, <1>20, <1>21, <1>22, <1>25
  <2>3. s2.dac = 0 /\ old = s1.dac
    BY <1>5, <1>9, <1>18, <1>19, <1>20, <1>21, <1>22, <1>25, <2>1 DEF Steady
  <2>4. s2.tone.chan = c /\ s2.frozen = s1.frozen /\ s2.coupling = s1.coupling
    BY <1>7, <1>9 DEF ConverterOf, Ports
  <2>5. /\ s3.coupling = [s2.coupling EXCEPT ![c] = "OPEN"] /\ Read(s3, c) /\ s3.frozen[c] = s2.frozen[c]
    BY <1>11, <1>19, <1>20, <1>21, <1>22, <1>25, <2>1, <2>3, <2>4
  <2>6. s5.dac = s.dac /\ s6.dac = s5.dac
    BY <1>6, <1>15, <1>17, <1>21, <1>22, <1>25, <2>2, <2>3, VoltsAre DEF Voltage
  <2>7. s6.coupling = [s5.coupling EXCEPT ![c] = k] /\ s5.coupling = s3.coupling
    BY <1>13, <1>15, <1>17, <1>22, <1>25, <2>1 DEF Ports
  <2>8. s6.coupling = s.coupling
    BY <1>5, <1>6, <2>2, <2>4, <2>5, <2>7 DEF Each
  <2>9. Read(s6, c)
    BY <1>23, <2>5 DEF Read, ReadingAt, Amplifiers, Scales
  <2>10. s6.frozen[c]
    <3>1. s6.frozen = s3.frozen
      BY <1>13, <1>15, <1>17 DEF ConverterOf
    <3>2. s1.frozen[c] /\ s3.frozen[c] = s1.frozen[c]
      BY <2>2, <2>4, <2>5
    <3> QED BY <3>1, <3>2
  <2>11. s6.tone.on = s.tone.on
    <3>1. s6.tone = s4.tone /\ s3.tone = [chan |-> c, on |-> FALSE]
      BY <1>7, <1>9, <1>11, <1>15, <1>17 DEF ConverterOf
    <3>2. s.tone.on \in BOOLEAN
      BY DEF FeState
    <3>3. CASE s.tone.on
      <4>1. s6.tone = [chan |-> c, on |-> TRUE]
        BY <1>13, <3>1, <3>3
      <4>2. s6.tone.on = TRUE
        BY <4>1
      <4>3. s.tone.on = TRUE
        BY <3>2, <3>3
      <4> QED BY <4>2, <4>3, Zenon
    <3>4. CASE ~s.tone.on
      <4>1. s6.tone = [chan |-> c, on |-> FALSE]
        BY <1>13, <3>1, <3>4
      <4>2. s6.tone.on = FALSE
        BY <4>1
      <4>3. s.tone.on = FALSE
        BY <3>2, <3>4
      <4> QED BY <4>2, <4>3, Zenon
    <3> QED BY <3>3, <3>4
  <2> QED BY <2>2, <2>6, <2>8, <2>9, <2>10, <2>11
<1> QED BY <1>5, <1>22, <1>24, <1>25

(* What is true between commands.                                          *)
Calibrated(s) == \A c \in Channels : Tuned(s, c) /\ Scaled(s, c)
Fresher(s) == Steady(s) /\ \A c \in Channels : Read(s, c) /\ s.frozen[c]
FeInv ==
  /\ fe \in FeState /\ fe.faults <= FeMaxFaults /\ Believed(fe) /\ Calibrated(fe)
  /\ (FaultFree => Fresher(fe)) /\ Stored(fe.eeprom)

(* What is true of a channel stays true while another one is calibrated.   *)
LEMMA OthersKept ==
  ASSUME NEW s, NEW t, NEW c, Elsewhere(s, t, c), NEW d \in Channels, d # c
  PROVE  /\ t.gain[d] = s.gain[d] /\ t.gnd[d] = s.gnd[d] /\ t.counts[d] = s.counts[d]
         /\ t.frozen[d] = s.frozen[d]
         /\ Tuned(t, d) <=> Tuned(s, d)
         /\ Scaled(t, d) <=> Scaled(s, d)
         /\ Read(t, d) <=> Read(s, d)
<1>1. /\ t.gain = s.gain /\ t.level = s.level /\ t.pga[d] = s.pga[d] /\ t.calDAC[d] = s.calDAC[d]
      /\ t.gnd[d] = s.gnd[d] /\ t.cal[d] = s.cal[d] /\ t.open[d] = s.open[d]
      /\ t.counts[d] = s.counts[d] /\ t.frozen[d] = s.frozen[d]
  BY DEF Elsewhere, OfChannel
<1> QED BY <1>1 DEF Tuned, Scaled, Read, ReadingAt

(* afeSetGain.                                                             *)
GainNoted(s, c, g) == [s EXCEPT !.gain[c] = g]
(* A gain is noted before it is set.                                       *)
LEMMA GainIsNoted ==
  ASSUME NEW s \in FeState, NEW c \in Channels, NEW g \in GainCodes, NEW t, t = GainNoted(s, c, g)
  PROVE  /\ t \in FeState /\ t.faults = s.faults /\ t.gain = [s.gain EXCEPT ![c] = g]
         /\ t.pga = s.pga /\ t.calDAC = s.calDAC /\ Scales(t) = Scales(s)
         /\ Ports(t) = Ports(s) /\ Voltage(t) = Voltage(s) /\ ConverterOf(t) = ConverterOf(s)
<1>1. PICK x : x = [s.gain EXCEPT ![c] = g]
  OBVIOUS
<1>2. x \in Each(GainCodes)
  <2>1. s.gain \in Each(GainCodes)
    BY DEF FeState
  <2> QED BY <1>1, <2>1 DEF Each
<1>3. t = [s EXCEPT !.gain = x]
  BY <1>1 DEF GainNoted
<1> QED BY <1>1, <1>2, <1>3 DEF FeState, Scales, Ports, Voltage, ConverterOf

(* The whole of a gain command.                                            *)
LEMMA GainSet ==
  ASSUME NEW s \in FeState, NEW c \in Channels, NEW g \in GainCodes, NEW o \in afeSetGain(s, c, g)
  PROVE  /\ o.s \in FeState /\ o.s.faults <= s.faults /\ o.s.eeprom = s.eeprom
         /\ Believed(s) => Believed(o.s)
         /\ Tuned(o.s, c) /\ Scaled(o.s, c)
         /\ \A d \in Channels \ {c} :
              /\ o.s.gnd[d] = s.gnd[d] /\ o.s.counts[d] = s.counts[d] /\ o.s.frozen[d] = s.frozen[d]
              /\ Tuned(s, d) => Tuned(o.s, d)
              /\ Scaled(s, d) => Scaled(o.s, d)
              /\ Read(s, d) => Read(o.s, d)
         /\ o.s.faults = s.faults /\ Steady(s) =>
              /\ Steady(o.s) /\ o.s.coupling = s.coupling /\ o.s.dac = s.dac
              /\ o.s.tone.on = s.tone.on /\ Read(o.s, c) /\ o.s.frozen[c]
<1>1. PICK t : t = GainNoted(s, c, g)
  OBVIOUS
<1>2. /\ t \in FeState /\ t.faults = s.faults /\ t.gain = [s.gain EXCEPT ![c] = g]
      /\ t.pga = s.pga /\ t.calDAC = s.calDAC /\ Scales(t) = Scales(s)
      /\ Ports(t) = Ports(s) /\ Voltage(t) = Voltage(s) /\ ConverterOf(t) = ConverterOf(s)
  BY <1>1, GainIsNoted
<1>3. o \in calibrate(t, c)
  BY <1>1 DEF afeSetGain, GainNoted
<1>4. /\ Elsewhere(t, o.s, c) /\ Tuned(o.s, c) /\ Scaled(o.s, c)
      /\ o.s.faults = t.faults /\ Steady(t) =>
           /\ o.s.coupling = t.coupling /\ o.s.dac = t.dac /\ o.s.tone.on = t.tone.on
           /\ Read(o.s, c) /\ o.s.frozen[c]
  BY <1>2, <1>3, CalibratedChannel
<1>5. Believed(t) = Believed(s) /\ Steady(t) = Steady(s)
  BY <1>2 DEF Believed, Steady, Ports, Voltage
<1>6. ASSUME NEW d \in Channels \ {c}
      PROVE  /\ o.s.gnd[d] = s.gnd[d] /\ o.s.counts[d] = s.counts[d] /\ o.s.frozen[d] = s.frozen[d]
             /\ Tuned(s, d) => Tuned(o.s, d)
             /\ Scaled(s, d) => Scaled(o.s, d)
             /\ Read(s, d) => Read(o.s, d)
  <2>1. t.gain[d] = s.gain[d]
    BY <1>2 DEF FeState, Each
  <2>2. /\ t.gnd = s.gnd /\ t.cal = s.cal /\ t.open = s.open /\ t.counts = s.counts
        /\ t.level = s.level /\ t.frozen = s.frozen
    BY <1>2 DEF Scales, ConverterOf
  <2>3. /\ Tuned(t, d) <=> Tuned(s, d)
        /\ Scaled(t, d) <=> Scaled(s, d)
        /\ Read(t, d) <=> Read(s, d)
    BY <1>2, <2>1, <2>2 DEF Tuned, Scaled, Read, ReadingAt
  <2>4. /\ o.s.gnd[d] = t.gnd[d] /\ o.s.counts[d] = t.counts[d] /\ o.s.frozen[d] = t.frozen[d]
        /\ Tuned(o.s, d) <=> Tuned(t, d)
        /\ Scaled(o.s, d) <=> Scaled(t, d)
        /\ Read(o.s, d) <=> Read(t, d)
    BY <1>4, OthersKept
  <2> QED BY <2>2, <2>3, <2>4
<1>7. /\ o.s \in FeState /\ o.s.faults <= t.faults /\ o.s.eeprom = t.eeprom
      /\ Believed(t) => Believed(o.s)
      /\ o.s.faults = t.faults /\ Steady(t) => Steady(o.s)
  BY <1>4 DEF Elsewhere
<1>8. t.eeprom = s.eeprom /\ t.coupling = s.coupling /\ t.dac = s.dac /\ t.tone = s.tone
  BY <1>2 DEF Ports, Voltage, ConverterOf
<1>9. o.s.faults <= s.faults /\ o.s.eeprom = s.eeprom /\ (Believed(s) => Believed(o.s))
  BY <1>2, <1>5, <1>7, <1>8
<1>10. ASSUME o.s.faults = s.faults, Steady(s)
       PROVE  /\ Steady(o.s) /\ o.s.coupling = s.coupling /\ o.s.dac = s.dac
              /\ o.s.tone.on = s.tone.on /\ Read(o.s, c) /\ o.s.frozen[c]
  BY <1>2, <1>4, <1>5, <1>7, <1>8, <1>10
<1> QED BY <1>4, <1>6, <1>7, <1>9, <1>10

(* What any number of functions about channels leaves of the state.        *)
AfterAll(s, t) ==
  /\ t \in FeState /\ t.faults <= s.faults /\ t.eeprom = s.eeprom
  /\ Believed(s) => Believed(t)
  /\ t.faults = s.faults /\ Steady(s) => Steady(t)

(* A function about one channel more.                                      *)
LEMMA ThenAfterAll ==
  ASSUME NEW s \in FeState, NEW t, NEW u, NEW c, AfterAll(s, t), Elsewhere(t, u, c)
  PROVE  AfterAll(s, u) /\ (u.faults = s.faults => t.faults = s.faults /\ u.faults = t.faults)
<1>1. s.faults \in Nat /\ t.faults \in Nat /\ u.faults \in Nat
  BY DEF Elsewhere, AfterAll, FeState
<1>2. u.faults <= s.faults /\ (u.faults = s.faults => t.faults = s.faults /\ u.faults = t.faults)
  BY <1>1 DEF Elsewhere, AfterAll
<1> QED BY <1>2 DEF Elsewhere, AfterAll

(* The sequence of the channels is all of them, from 0.                    *)
LEMMA ChannelsInOrder ==
  /\ Len(InOrder) = ChannelCount /\ Len(InOrder) \in Nat
  /\ \A n \in 1 .. Len(InOrder) : InOrder[n] = n - 1 /\ InOrder[n] \in Channels
  /\ \A c \in Channels : c + 1 \in 1 .. Len(InOrder) /\ InOrder[c + 1] = c
<1>1. ChannelCount \in Nat
  BY FrontEndAssumption
<1>2. InOrder \in Seq(Channels) /\ Len(InOrder) = ChannelCount
  BY <1>1 DEF InOrder, Channels
<1> QED BY <1>1, <1>2 DEF InOrder, Channels

(* The loops over the channels.                                            *)
GroundOne(t, c, p) == afeSetCoupling(setPGA(t, c, MinimumGain), c, "CAL")
ThawOne(t, c, p) == rfADCfreezeCalibration(t, c, FALSE)
UncoupleOne(t, c, p) == afeSetCoupling(t, c, "OPEN")
CalibrateOne(t, c, p) == calibrate(t, c)
DefaultOne(t, c, p) == afeSetGain(t, c, MinimumGain)
Ground == INSTANCE InTurnRule WITH F <- GroundOne
Thaw == INSTANCE InTurnRule WITH F <- ThawOne
Uncouple == INSTANCE InTurnRule WITH F <- UncoupleOne
Calibrate == INSTANCE InTurnRule WITH F <- CalibrateOne
Default == INSTANCE InTurnRule WITH F <- DefaultOne

(* afeADCrestart, its first loop: all channels at the lowest gain, coupled *)
(* to the calibration voltage.                                             *)
LEMMA Grounded ==
  ASSUME NEW s \in FeState, NEW o \in Ground!Outcomes(s, InOrder, 0)
  PROVE  AfterAll(s, o.s)
<1> DEFINE I == {x \in Nat \X FeState : AfterAll(s, x[2])}
<1>1. <<0, s>> \in I
  <2>1. s.faults \in Nat
    BY DEF FeState
  <2>2. AfterAll(s, s)
    BY <2>1 DEF AfterAll
  <2> QED BY <2>2
<1>2. ASSUME NEW n \in 1 .. Len(InOrder), NEW t, <<n - 1, t>> \in I, NEW q \in GroundOne(t, InOrder[n], 0)
      PROVE  <<n, q.s>> \in I
  <2>1. PICK c \in Channels : c = InOrder[n]
    BY ChannelsInOrder
  <2>2. t \in FeState /\ AfterAll(s, t)
    BY <1>2
  <2>3. PICK u, k : u = setPGA(t, c, MinimumGain) /\ k = "CAL" /\ k \in Couplings
    BY DEF Couplings
  <2>4. Elsewhere(t, u, c) /\ u \in FeState
    BY <2>2, <2>3, PGASet, VoltsAre, ElsewhereIs
  <2>5. q \in afeSetCoupling(u, c, k)
    BY <2>1, <2>3 DEF GroundOne
  <2>6. Elsewhere(u, q.s, c)
    BY <2>3, <2>4, <2>5, CouplingSet
  <2>7. AfterAll(s, q.s)
    BY <2>2, <2>4, <2>6, ThenAfterAll
  <2>8. q.s \in FeState /\ n \in Nat
    BY <2>7, ChannelsInOrder DEF AfterAll
  <2> QED BY <2>7, <2>8
<1> HIDE DEF I
<1>3. <<Len(InOrder), o.s>> \in I
  BY <1>1, <1>2, ChannelsInOrder, Ground!InTurnRule
<1> QED BY <1>3 DEF I

LEMMA Thawed ==
  ASSUME NEW s \in FeState, NEW o \in Thaw!Outcomes(s, InOrder, 0)
  PROVE  AfterAll(s, o.s)
<1> DEFINE I == {x \in Nat \X FeState : AfterAll(s, x[2])}
<1>1. <<0, s>> \in I
  <2>1. s.faults \in Nat
    BY DEF FeState
  <2>2. AfterAll(s, s)
    BY <2>1 DEF AfterAll
  <2> QED BY <2>2
<1>2. ASSUME NEW n \in 1 .. Len(InOrder), NEW t, <<n - 1, t>> \in I, NEW q \in ThawOne(t, InOrder[n], 0)
      PROVE  <<n, q.s>> \in I
  <2>1. PICK c \in Channels : c = InOrder[n]
    BY ChannelsInOrder
  <2>2. t \in FeState /\ AfterAll(s, t)
    BY <1>2
  <2>3. q \in rfADCfreezeCalibration(t, c, FALSE)
    BY <2>1 DEF ThawOne
  <2>4. Elsewhere(t, q.s, c)
    <3>1. /\ Elsewhere(t, q.s, c)
          /\ Amplifiers(q.s) = Amplifiers(t) /\ Scales(q.s) = Scales(t) /\ Ports(q.s) = Ports(t)
          /\ Voltage(q.s) = Voltage(t) /\ q.s.tone = t.tone /\ q.s.result = t.result
          /\ q.s.faults = t.faults => q.s.frozen[c] = FALSE
      BY <2>2, <2>3, CalibrationFrozen, ZenonT(40)
    <3> QED BY <3>1
  <2>5. AfterAll(s, q.s)
    BY <2>2, <2>4, ThenAfterAll
  <2>6. q.s \in FeState /\ n \in Nat
    BY <2>5, ChannelsInOrder DEF AfterAll
  <2> QED BY <2>5, <2>6
<1> HIDE DEF I
<1>3. <<Len(InOrder), o.s>> \in I
  BY <1>1, <1>2, ChannelsInOrder, Thaw!InTurnRule
<1> QED BY <1>3 DEF I

LEMMA Uncoupled ==
  ASSUME NEW s \in FeState, NEW o \in Uncouple!Outcomes(s, InOrder, 0)
  PROVE  AfterAll(s, o.s)
<1> DEFINE I == {x \in Nat \X FeState : AfterAll(s, x[2])}
<1>1. <<0, s>> \in I
  <2>1. s.faults \in Nat
    BY DEF FeState
  <2>2. AfterAll(s, s)
    BY <2>1 DEF AfterAll
  <2> QED BY <2>2
<1>2. ASSUME NEW n \in 1 .. Len(InOrder), NEW t, <<n - 1, t>> \in I, NEW q \in UncoupleOne(t, InOrder[n], 0)
      PROVE  <<n, q.s>> \in I
  <2>1. PICK c \in Channels : c = InOrder[n]
    BY ChannelsInOrder
  <2>2. t \in FeState /\ AfterAll(s, t)
    BY <1>2
  <2>3. PICK k \in Couplings : k = "OPEN"
    BY DEF Couplings
  <2>4. q \in afeSetCoupling(t, c, k)
    BY <2>1, <2>3 DEF UncoupleOne
  <2>5. Elsewhere(t, q.s, c)
    BY <2>2, <2>3, <2>4, CouplingSet
  <2>6. AfterAll(s, q.s)
    BY <2>2, <2>5, ThenAfterAll
  <2>7. q.s \in FeState /\ n \in Nat
    BY <2>6, ChannelsInOrder DEF AfterAll
  <2> QED BY <2>6, <2>7
<1> HIDE DEF I
<1>3. <<Len(InOrder), o.s>> \in I
  BY <1>1, <1>2, ChannelsInOrder, Uncouple!InTurnRule
<1> QED BY <1>3 DEF I

(* afeADCrestart, its last loop. Loop invariant: the channels passed are   *)
(* consistent and, without a fault, freshly read and frozen.               *)
LEMMA AllCalibrated ==
  ASSUME NEW s \in FeState, NEW o \in Calibrate!Outcomes(s, InOrder, 0)
  PROVE  /\ AfterAll(s, o.s) /\ Calibrated(o.s)
         /\ o.s.faults = s.faults /\ Steady(s) => Fresher(o.s)
<1> DEFINE I == {x \in Nat \X FeState :
                  /\ AfterAll(s, x[2])
                  /\ \A c \in Channels : c < x[1] =>
                       /\ Tuned(x[2], c) /\ Scaled(x[2], c)
                       /\ x[2].faults = s.faults /\ Steady(s) => Read(x[2], c) /\ x[2].frozen[c]}
<1>1. <<0, s>> \in I
  <2>1. s.faults \in Nat
    BY DEF FeState
  <2>2. AfterAll(s, s)
    BY <2>1 DEF AfterAll
  <2>3. \A c \in Channels : ~(c < 0)
    BY DEF Channels
  <2> QED BY <2>2, <2>3
<1>2. ASSUME NEW n \in 1 .. Len(InOrder), NEW t, <<n - 1, t>> \in I, NEW q \in CalibrateOne(t, InOrder[n], 0)
      PROVE  <<n, q.s>> \in I
  <2>1. PICK c \in Channels : c = InOrder[n] /\ c = n - 1
    BY ChannelsInOrder
  <2>2. /\ t \in FeState /\ AfterAll(s, t)
        /\ \A d \in Channels : d < n - 1 =>
             /\ Tuned(t, d) /\ Scaled(t, d)
             /\ t.faults = s.faults /\ Steady(s) => Read(t, d) /\ t.frozen[d]
    BY <1>2
  <2>3. q \in calibrate(t, c)
    BY <2>1 DEF CalibrateOne
  <2>4. PICK u : u = q.s
    OBVIOUS
  <2>5. /\ Elsewhere(t, u, c) /\ Tuned(u, c) /\ Scaled(u, c)
        /\ u.faults = t.faults /\ Steady(t) => Read(u, c) /\ u.frozen[c]
    BY <2>2, <2>3, <2>4, CalibratedChannel
  <2>6. AfterAll(s, u) /\ (u.faults = s.faults => t.faults = s.faults /\ u.faults = t.faults)
    BY <2>2, <2>5, ThenAfterAll
  <2>7. t.faults = s.faults /\ Steady(s) => Steady(t)
    BY <2>2 DEF AfterAll
  <2>8. ASSUME NEW d \in Channels, d < n
        PROVE  /\ Tuned(u, d) /\ Scaled(u, d)
               /\ u.faults = s.faults /\ Steady(s) => Read(u, d) /\ u.frozen[d]
    <3>1. CASE d = c
      BY <2>5, <2>6, <2>7, <3>1
    <3>2. CASE d # c
      <4>1. d < n - 1
        BY <2>1, <2>8, <3>2, ChannelsInOrder DEF Channels
      <4>2. /\ u.frozen[d] = t.frozen[d]
            /\ Tuned(u, d) <=> Tuned(t, d)
            /\ Scaled(u, d) <=> Scaled(t, d)
            /\ Read(u, d) <=> Read(t, d)
        BY <2>5, <3>2, OthersKept
      <4> QED BY <2>2, <2>6, <4>1, <4>2
    <3> QED BY <3>1, <3>2
  <2>9. u \in FeState /\ n \in Nat
    BY <2>6, ChannelsInOrder DEF AfterAll
  <2>10. <<n, u>> \in I
    BY <2>6, <2>8, <2>9
  <2> QED BY <2>4, <2>10
<1> HIDE DEF I
<1>3. PICK t : t = o.s
  OBVIOUS
<1>4. <<Len(InOrder), t>> \in I
  BY <1>1, <1>2, <1>3, ChannelsInOrder, Calibrate!InTurnRule
<1>5. /\ AfterAll(s, t)
      /\ \A c \in Channels : c < ChannelCount =>
            /\ Tuned(t, c) /\ Scaled(t, c)
            /\ t.faults = s.faults /\ Steady(s) => Read(t, c) /\ t.frozen[c]
  BY <1>4, ChannelsInOrder DEF I
<1>6. \A c \in Channels : c < ChannelCount
  BY FrontEndAssumption DEF Channels
<1>7. Calibrated(t)
  BY <1>5, <1>6 DEF Calibrated
<1>8. t.faults = s.faults /\ Steady(s) => Fresher(t)
  BY <1>5, <1>6 DEF Fresher, AfterAll
<1> QED BY <1>3, <1>5, <1>7, <1>8

(* afeADCrestart leaves every channel as a gain command leaves one.        *)
LEMMA Restarted ==
  ASSUME NEW s \in FeState, NEW o \in afeADCrestart(s)
  PROVE  /\ AfterAll(s, o.s) /\ Calibrated(o.s)
         /\ o.s.faults = s.faults /\ Steady(s) => Fresher(o.s)
<1>1. afeADCrestart(s) =
        UNION {Calibrate!Outcomes(x.s, InOrder, 0) :
          x \in UNION {Uncouple!Outcomes(y.s, InOrder, 0) :
            y \in UNION {Thaw!Outcomes(z.s, InOrder, 0) :
              z \in UNION {Ground!Outcomes(w.s, InOrder, 0) : w \in afeSetDAC(s, 0)}}}}
  BY DEF afeADCrestart, InTurn, Regardless, Done,
         Ground!Outcomes, Ground!InTurn, Ground!Regardless, Ground!Done, GroundOne,
         Thaw!Outcomes, Thaw!InTurn, Thaw!Regardless, Thaw!Done, ThawOne,
         Uncouple!Outcomes, Uncouple!InTurn, Uncouple!Regardless, Uncouple!Done, UncoupleOne,
         Calibrate!Outcomes, Calibrate!InTurn, Calibrate!Regardless, Calibrate!Done, CalibrateOne
<1>2. PICK w \in afeSetDAC(s, 0) : \E z \in Ground!Outcomes(w.s, InOrder, 0) :
        \E y \in Thaw!Outcomes(z.s, InOrder, 0) : \E x \in Uncouple!Outcomes(y.s, InOrder, 0) :
          o \in Calibrate!Outcomes(x.s, InOrder, 0)
  BY <1>1
<1>3. PICK z \in Ground!Outcomes(w.s, InOrder, 0) :
        \E y \in Thaw!Outcomes(z.s, InOrder, 0) : \E x \in Uncouple!Outcomes(y.s, InOrder, 0) :
          o \in Calibrate!Outcomes(x.s, InOrder, 0)
  BY <1>2
<1>4. PICK y \in Thaw!Outcomes(z.s, InOrder, 0) : \E x \in Uncouple!Outcomes(y.s, InOrder, 0) :
        o \in Calibrate!Outcomes(x.s, InOrder, 0)
  BY <1>3
<1>5. PICK x \in Uncouple!Outcomes(y.s, InOrder, 0) : o \in Calibrate!Outcomes(x.s, InOrder, 0)
  BY <1>4
<1>6. w.s \in FeState /\ AfterAll(s, w.s)
  <2>1. Elsewhere(s, w.s, 0)
    BY <1>2, DACSet, VoltsAre
  <2> QED BY <2>1 DEF Elsewhere, AfterAll
<1>7. z.s \in FeState /\ AfterAll(w.s, z.s)
  BY <1>3, <1>6, Grounded DEF AfterAll
<1>8. y.s \in FeState /\ AfterAll(z.s, y.s)
  BY <1>4, <1>7, Thawed DEF AfterAll
<1>9. x.s \in FeState /\ AfterAll(y.s, x.s)
  BY <1>5, <1>8, Uncoupled DEF AfterAll
<1>10. /\ AfterAll(x.s, o.s) /\ Calibrated(o.s)
       /\ o.s.faults = x.s.faults /\ Steady(x.s) => Fresher(o.s)
  BY <1>5, <1>9, AllCalibrated
<1>11. /\ s.faults \in Nat /\ w.s.faults \in Nat /\ z.s.faults \in Nat /\ y.s.faults \in Nat
       /\ x.s.faults \in Nat /\ o.s.faults \in Nat
  BY <1>6, <1>7, <1>8, <1>9, <1>10 DEF AfterAll, FeState
<1>12. /\ o.s.faults <= s.faults
       /\ o.s.faults = s.faults => /\ w.s.faults = s.faults /\ z.s.faults = w.s.faults
                                   /\ y.s.faults = z.s.faults /\ x.s.faults = y.s.faults
                                   /\ o.s.faults = x.s.faults
  BY <1>6, <1>7, <1>8, <1>9, <1>10, <1>11 DEF AfterAll
<1>13. AfterAll(s, o.s)
  BY <1>6, <1>7, <1>8, <1>9, <1>10, <1>12 DEF AfterAll
<1>14. o.s.faults = s.faults /\ Steady(s) => Steady(x.s)
  BY <1>6, <1>7, <1>8, <1>9, <1>12 DEF AfterAll
<1> QED BY <1>10, <1>12, <1>13, <1>14

(* The first boot.                                                         *)
LEMMA ColdIs ==
  Cold \in FeState /\ Steady(Cold) /\ Cold.faults = 0 /\ Stored(Cold.eeprom)
<1>1. 0 \in Channels /\ MinimumGain \in GainCodes /\ MinimumGain \in PgaCodes /\ 0 \in Volts
  BY FrontEndAssumption, VoltsAre DEF Channels
<1>2. Fresh(0) \in ReadingKind
  BY <1>1 DEF Fresh, ReadingKind, Couplings
<1>3. DacFor(MinimumGain) \in CalVolts /\ "OPEN" \in Couplings /\ 10 \in Int
  BY <1>1 DEF CalVolts, Couplings
<1>4. <<>> \in CountsKind
  BY DEF CountsKind
<1>5. PICK c, g, d, r : c = "OPEN" /\ g = MinimumGain /\ d = DacFor(MinimumGain) /\ r = Fresh(0)
  OBVIOUS
<1>6. PICK e1, e2, e3, e4, e5, e6, e7, t, ee :
        /\ e1 = [x \in Channels |-> c] /\ e2 = [x \in Channels |-> g] /\ e3 = [x \in Channels |-> d]
        /\ e4 = [x \in Channels |-> r] /\ e5 = [x \in Channels |-> 10] /\ e6 = [x \in Channels |-> <<>>]
        /\ e7 = [x \in Channels |-> FALSE] /\ t = [chan |-> 0, on |-> FALSE]
        /\ ee = [cell |-> [a \in Places |-> [age |-> Oldest, chunk |-> 0]],
                  address |-> 0, ended |-> FALSE, whole |-> 0]
  OBVIOUS
<1>7. /\ e1 \in Each(Couplings) /\ e2 \in Each(GainCodes) /\ e2 \in Each(PgaCodes) /\ e3 \in Each(CalVolts)
      /\ e4 \in Each(ReadingKind) /\ e5 \in Each(Int) /\ e6 \in Each(CountsKind) /\ e7 \in Each(BOOLEAN)
  BY <1>1, <1>2, <1>3, <1>4, <1>5, <1>6 DEF Each
<1>8. t \in [chan : Channels, on : BOOLEAN] /\ ee \in Eeprom /\ Stored(ee)
  <2>1. [age |-> Oldest, chunk |-> 0] \in Cell
    BY FrontEndAssumption DEF Cell
  <2>2. t \in [chan : Channels, on : BOOLEAN] /\ ee \in Eeprom
    BY <1>1, <1>6, <2>1 DEF Eeprom, Cells
  <2>3. Layers(ee) /\ Placed(ee) /\ ee.whole = 0
    BY <1>6, FrontEndAssumption DEF Layers, Placed
  <2> QED BY <2>2, <2>3 DEF Stored
<1>9. Cold = [switch |-> e1, shadow |-> e1, coupling |-> e1, gain |-> e2, pga |-> e2, calDAC |-> e3,
              gnd |-> e4, cal |-> e4, open |-> e4, level |-> e5, counts |-> e6,
              dac |-> 0, oldDAC |-> 0, ret |-> 0, tone |-> t, result |-> r, frozen |-> e7, doubt |-> {},
              eeprom |-> ee, faults |-> 0]
  BY <1>5, <1>6, Zenon DEF Cold, Places
<1>10. Cold \in FeState
  BY <1>1, <1>2, <1>5, <1>7, <1>8, <1>9 DEF FeState
<1>11. Steady(Cold)
  BY <1>9 DEF Steady, Believed
<1> QED BY <1>8, <1>9, <1>10, <1>11

(* The first boot calibrates every channel at the default gain.            *)
LEMMA FirstBoot ==
  ASSUME NEW o \in Default!Outcomes(Cold, InOrder, 0)
  PROVE  o.s \in FeState /\ Fresher(o.s) /\ Calibrated(o.s) /\ o.s.eeprom = Cold.eeprom
<1> DEFINE I == {x \in Nat \X FeState :
                  /\ x[2].faults = 0 /\ Steady(x[2]) /\ x[2].eeprom = Cold.eeprom
                  /\ \A c \in Channels : c < x[1] =>
                       /\ Tuned(x[2], c) /\ Scaled(x[2], c) /\ Read(x[2], c) /\ x[2].frozen[c]}
<1>1. <<0, Cold>> \in I
  <2>1. \A c \in Channels : ~(c < 0)
    BY DEF Channels
  <2> QED BY <2>1, ColdIs
<1>2. ASSUME NEW n \in 1 .. Len(InOrder), NEW t, <<n - 1, t>> \in I, NEW q \in DefaultOne(t, InOrder[n], 0)
      PROVE  <<n, q.s>> \in I
  <2>1. PICK c \in Channels : c = InOrder[n] /\ c = n - 1
    BY ChannelsInOrder
  <2>2. /\ t \in FeState /\ t.faults = 0 /\ Steady(t) /\ t.eeprom = Cold.eeprom
        /\ \A d \in Channels : d < n - 1 => Tuned(t, d) /\ Scaled(t, d) /\ Read(t, d) /\ t.frozen[d]
    BY <1>2
  <2>3. q \in afeSetGain(t, c, MinimumGain)
    BY <2>1 DEF DefaultOne
  <2>4. PICK u : u = q.s
    OBVIOUS
  <2>5. /\ u \in FeState /\ u.faults <= t.faults /\ u.eeprom = t.eeprom
        /\ Tuned(u, c) /\ Scaled(u, c)
        /\ \A d \in Channels \ {c} :
             /\ u.gnd[d] = t.gnd[d] /\ u.counts[d] = t.counts[d] /\ u.frozen[d] = t.frozen[d]
             /\ Tuned(t, d) => Tuned(u, d)
             /\ Scaled(t, d) => Scaled(u, d)
             /\ Read(t, d) => Read(u, d)
        /\ u.faults = t.faults /\ Steady(t) => Steady(u) /\ Read(u, c) /\ u.frozen[c]
    BY <2>2, <2>3, <2>4, GainSet, VoltsAre
  <2>6. u.faults = 0
    BY <2>2, <2>5 DEF FeState
  <2>7. Steady(u) /\ Read(u, c) /\ u.frozen[c]
    BY <2>2, <2>5, <2>6
  <2>8. ASSUME NEW d \in Channels, d < n
        PROVE  Tuned(u, d) /\ Scaled(u, d) /\ Read(u, d) /\ u.frozen[d]
    <3>1. CASE d = c
      BY <2>5, <2>7, <3>1
    <3>2. CASE d # c
      <4>1. d < n - 1
        BY <2>1, <2>8, <3>2, ChannelsInOrder DEF Channels
      <4> QED BY <2>2, <2>5, <3>2, <4>1
    <3> QED BY <3>1, <3>2
  <2>9. n \in Nat
    BY ChannelsInOrder
  <2>10. <<n, u>> \in I
    BY <2>2, <2>5, <2>6, <2>7, <2>8, <2>9
  <2> QED BY <2>4, <2>10
<1> HIDE DEF I
<1>3. PICK t : t = o.s
  OBVIOUS
<1>4. <<Len(InOrder), t>> \in I
  BY <1>1, <1>2, <1>3, ChannelsInOrder, Default!InTurnRule
<1>5. /\ t \in FeState /\ Steady(t) /\ t.eeprom = Cold.eeprom
      /\ \A c \in Channels : c < ChannelCount => Tuned(t, c) /\ Scaled(t, c) /\ Read(t, c) /\ t.frozen[c]
  BY <1>4, ChannelsInOrder DEF I
<1>6. \A c \in Channels : c < ChannelCount
  BY FrontEndAssumption DEF Channels
<1> QED BY <1>3, <1>5, <1>6 DEF Calibrated, Fresher

(* The end of a command, and a boot, do not touch what is calibrated.      *)
SameState(s, t) ==
  /\ Amplifiers(t) = Amplifiers(s) /\ Scales(t) = Scales(s) /\ Ports(t) = Ports(s)
  /\ t.dac = s.dac /\ t.oldDAC = s.oldDAC /\ t.tone = s.tone /\ t.frozen = s.frozen
  /\ t.eeprom = s.eeprom
LEMMA SameStateIs ==
  ASSUME NEW s, NEW t, SameState(s, t)
  PROVE  /\ Believed(s) => Believed(t)
         /\ Calibrated(s) => Calibrated(t)
         /\ Fresher(s) => Fresher(t)
BY DEF SameState, Amplifiers, Scales, Ports, Believed, Steady, Calibrated, Fresher, Tuned, Scaled, Read, ReadingAt

LEMMA FreshIs == Fresh(0) \in ReadingKind
<1>1. 0 \in Channels /\ MinimumGain \in PgaCodes /\ 0 \in Volts
  BY FrontEndAssumption, VoltsAre DEF Channels
<1> QED BY <1>1 DEF Fresh, ReadingKind, Couplings

Ended(s) == [s EXCEPT !.ret = 0, !.result = IF s.faults = 0 THEN Fresh(0) ELSE @]
LEMMA EndedIs ==
  ASSUME NEW s \in FeState, NEW t, t = Ended(s)
  PROVE  t \in FeState /\ t.faults = s.faults /\ SameState(s, t)
<1>1. PICK r \in ReadingKind : r = IF s.faults = 0 THEN Fresh(0) ELSE s.result
  BY FreshIs DEF FeState
<1>2. t = [s EXCEPT !.ret = 0, !.result = r]
  BY <1>1 DEF Ended
<1>3. 0 \in Volts
  BY VoltsAre
<1>4. t \in FeState
  BY <1>1, <1>2, <1>3, ZenonT(40) DEF FeState
<1> QED BY <1>2, <1>4 DEF FeState, SameState, Amplifiers, Scales, Ports

LEMMA BootedIs ==
  ASSUME NEW s \in FeState, NEW t, t = [s EXCEPT !.faults = FeMaxFaults, !.ret = 0]
  PROVE  t \in FeState /\ t.faults = FeMaxFaults /\ SameState(s, t)
<1>1. 0 \in Volts /\ FeMaxFaults \in Nat
  BY VoltsAre, FrontEndAssumption
<1> QED BY <1>1 DEF FeState, SameState, Amplifiers, Scales, Ports

(* The invariant holds after the first boot.                               *)
LEMMA InvInit == FeInit => FeInv
<1> SUFFICES ASSUME FeInit PROVE FeInv
  OBVIOUS
<1>1. PICK o \in Default!Outcomes(Cold, InOrder, 0) : fe = [o.s EXCEPT !.faults = FeMaxFaults, !.ret = 0]
  <2>1. Default!Outcomes(Cold, InOrder, 0) = InTurn(Cold, InOrder, LAMBDA s, c : afeSetGain(s, c, MinimumGain))
    BY DEF InTurn, Regardless, Done, Default!Outcomes, Default!InTurn, Default!Regardless, Default!Done, DefaultOne
  <2> QED BY <2>1 DEF FeInit
<1>2. PICK s : s = o.s
  OBVIOUS
<1>3. s \in FeState /\ Fresher(s) /\ Calibrated(s) /\ s.eeprom = Cold.eeprom
  BY <1>2, FirstBoot
<1>4. fe \in FeState /\ fe.faults = FeMaxFaults /\ SameState(s, fe)
  BY <1>1, <1>2, <1>3, BootedIs
<1>5. Fresher(fe) /\ Calibrated(fe)
  BY <1>3, <1>4, SameStateIs
<1>6. FeMaxFaults \in Nat
  BY FrontEndAssumption
<1>7. Stored(fe.eeprom)
  BY <1>3, <1>4, ColdIs DEF SameState
<1> QED BY <1>3, <1>4, <1>5, <1>6, <1>7 DEF FeInv, Fresher, Steady, SameState

(* What a command keeps of what is true between commands.                  *)
Sound(s, t) ==
  /\ t \in FeState /\ t.faults <= s.faults
  /\ Believed(s) /\ Calibrated(s) => Believed(t) /\ Calibrated(t)
  /\ t.faults = s.faults /\ Fresher(s) => Fresher(t)

LEMMA CommandIs ==
  ASSUME NEW op, NEW arg, NEW Out, Command(op, arg, Out)
  PROVE  \E o \in Out : fe' = Ended(o.s)
BY DEF Command, Ended

(* A command that is sound keeps the invariant.                            *)
LEMMA CommandKeeps ==
  ASSUME FeInv, NEW op, NEW arg, NEW Out, Command(op, arg, Out),
         \A o \in Out : Sound(fe, o.s) /\ Stored(o.s.eeprom)
  PROVE  FeInv'
<1>1. PICK o \in Out : fe' = Ended(o.s)
  BY CommandIs
<1>2. PICK t : t = o.s
  OBVIOUS
<1>3. Sound(fe, t) /\ Stored(t.eeprom)
  BY <1>2
<1>4. t \in FeState /\ t.faults <= fe.faults /\ Believed(t) /\ Calibrated(t)
  BY <1>3 DEF Sound, FeInv
<1>5. fe' \in FeState /\ (fe').faults = t.faults /\ SameState(t, fe')
  BY <1>1, <1>2, <1>4, EndedIs
<1>6. Believed(fe') /\ Calibrated(fe') /\ (Fresher(t) => Fresher(fe'))
  BY <1>4, <1>5, SameStateIs
<1>7. fe.faults \in Nat /\ t.faults \in Nat /\ FeMaxFaults \in Nat /\ fe.faults <= FeMaxFaults
  BY <1>4, FrontEndAssumption DEF FeInv, FeState
<1>8. (fe').faults <= FeMaxFaults
  BY <1>4, <1>5, <1>7
<1>9. ASSUME (fe').faults = FeMaxFaults PROVE Fresher(fe')
  <2>1. fe.faults = FeMaxFaults /\ t.faults = fe.faults
    BY <1>4, <1>5, <1>7, <1>9
  <2>2. Fresher(fe)
    BY <2>1 DEF FeInv, FaultFree
  <2> QED BY <1>3, <1>6, <2>1, <2>2 DEF Sound
<1>10. Stored((fe').eeprom)
  BY <1>3, <1>5 DEF SameState
<1> QED BY <1>5, <1>6, <1>8, <1>9, <1>10 DEF FeInv, FaultFree

(* Each command is sound: SetGain, then the others.                        *)
LEMMA GainSound ==
  ASSUME NEW s \in FeState, NEW c \in Channels, NEW g \in GainCodes, NEW o \in afeSetGain(s, c, g)
  PROVE  Sound(s, o.s) /\ o.s.eeprom = s.eeprom
<1>1. PICK u : u = o.s
  OBVIOUS
<1>2. /\ u \in FeState /\ u.faults <= s.faults /\ u.eeprom = s.eeprom
      /\ Believed(s) => Believed(u)
      /\ Tuned(u, c) /\ Scaled(u, c)
      /\ \A d \in Channels \ {c} :
           /\ u.frozen[d] = s.frozen[d]
           /\ Tuned(s, d) => Tuned(u, d)
           /\ Scaled(s, d) => Scaled(u, d)
           /\ Read(s, d) => Read(u, d)
      /\ u.faults = s.faults /\ Steady(s) => Steady(u) /\ Read(u, c) /\ u.frozen[c]
  BY <1>1, GainSet
<1>3. Calibrated(s) => Calibrated(u)
  BY <1>2 DEF Calibrated
<1>4. u.faults = s.faults /\ Fresher(s) => Fresher(u)
  BY <1>2 DEF Fresher
<1> QED BY <1>1, <1>2, <1>3, <1>4 DEF Sound

(* What leaves amplifiers and scales alone leaves them consistent.         *)
LEMMA AmplifiersScalesKeep ==
  ASSUME NEW s, NEW t, Amplifiers(t) = Amplifiers(s), Scales(t) = Scales(s)
  PROVE  /\ Calibrated(s) <=> Calibrated(t)
         /\ \A c \in Channels : Read(s, c) <=> Read(t, c)
BY DEF Amplifiers, Scales, Calibrated, Tuned, Scaled, Read, ReadingAt

LEMMA CouplingSound ==
  ASSUME NEW s \in FeState, NEW c \in Channels, NEW k \in Couplings, NEW o \in afeSetCoupling(s, c, k)
  PROVE  Sound(s, o.s) /\ o.s.eeprom = s.eeprom
<1>1. PICK u : u = o.s
  OBVIOUS
<1>2. /\ Elsewhere(s, u, c) /\ Amplifiers(u) = Amplifiers(s) /\ Scales(u) = Scales(s)
      /\ ConverterOf(u) = ConverterOf(s)
  <2>1. /\ Elsewhere(s, o.s, c) /\ Amplifiers(o.s) = Amplifiers(s) /\ Scales(o.s) = Scales(s)
        /\ ConverterOf(o.s) = ConverterOf(s)
    <3>1. s \in FeState /\ c \in Channels /\ k \in Couplings /\ o \in afeSetCoupling(s, c, k)
      OBVIOUS
    <3>2. /\ Elsewhere(s, o.s, c)
          /\ Amplifiers(o.s) = Amplifiers(s) /\ Scales(o.s) = Scales(s)
          /\ Voltage(o.s) = Voltage(s) /\ ConverterOf(o.s) = ConverterOf(s)
          /\ o.s.faults = s.faults /\ Steady(s) => o.s.coupling = [s.coupling EXCEPT ![c] = k]
      BY <3>1, CouplingSet, SMTT(30)
    <3> QED BY <3>2
  <2> QED BY <1>1, <2>1
<1>3. (Calibrated(s) <=> Calibrated(u)) /\ \A d \in Channels : Read(s, d) <=> Read(u, d)
  BY <1>2, AmplifiersScalesKeep
<1>4. u.frozen = s.frozen /\ u.eeprom = s.eeprom
  BY <1>2 DEF ConverterOf
<1> QED BY <1>1, <1>2, <1>3, <1>4 DEF Sound, Fresher, Elsewhere

LEMMA DACSound ==
  ASSUME NEW s \in FeState, NEW v \in DacValues, NEW o \in afeSetDAC(s, v)
  PROVE  Sound(s, o.s) /\ o.s.eeprom = s.eeprom
<1>1. PICK u : u = o.s
  OBVIOUS
<1>2. /\ Elsewhere(s, u, 0) /\ Amplifiers(u) = Amplifiers(s) /\ Scales(u) = Scales(s)
      /\ ConverterOf(u) = ConverterOf(s)
  <2>1. InDACRange(v) \in Volts
    BY VoltsAre
  <2> QED BY <1>1, <2>1, DACSet
<1>3. (Calibrated(s) <=> Calibrated(u)) /\ \A d \in Channels : Read(s, d) <=> Read(u, d)
  BY <1>2, AmplifiersScalesKeep
<1>4. u.frozen = s.frozen /\ u.eeprom = s.eeprom
  BY <1>2 DEF ConverterOf
<1> QED BY <1>1, <1>2, <1>3, <1>4 DEF Sound, Fresher, Elsewhere

ToneEnabled(s, on) == [s EXCEPT !.tone.on = on]
LEMMA ToneSound ==
  ASSUME NEW s \in FeState, NEW on \in BOOLEAN, NEW t, t = ToneEnabled(s, on)
  PROVE  Sound(s, t) /\ t.eeprom = s.eeprom
<1>1. PICK r : r = [s.tone EXCEPT !.on = on]
  OBVIOUS
<1>2. r \in [chan : Channels, on : BOOLEAN]
  <2>1. s.tone \in [chan : Channels, on : BOOLEAN]
    BY DEF FeState
  <2> QED BY <1>1, <2>1
<1>3. t = [s EXCEPT !.tone = r]
  BY <1>1 DEF ToneEnabled
<1>4. /\ t \in FeState /\ t.faults = s.faults /\ Amplifiers(t) = Amplifiers(s) /\ Scales(t) = Scales(s)
      /\ Ports(t) = Ports(s) /\ Voltage(t) = Voltage(s) /\ t.frozen = s.frozen /\ t.eeprom = s.eeprom
  BY <1>2, <1>3 DEF FeState, Amplifiers, Scales, Ports, Voltage
<1>5. (Calibrated(s) <=> Calibrated(t)) /\ \A d \in Channels : Read(s, d) <=> Read(t, d)
  BY <1>4, AmplifiersScalesKeep
<1>6. (Believed(s) <=> Believed(t)) /\ (Steady(s) <=> Steady(t)) /\ s.faults \in Nat
  BY <1>4 DEF Believed, Steady, Ports, Voltage, FeState
<1> QED BY <1>4, <1>5, <1>6 DEF Sound, Fresher

LEMMA LevelSound ==
  ASSUME NEW s \in FeState, NEW c \in Channels, NEW v \in Int, NEW t, t = acquisitionSetTriggerLevel(s, c, v)
  PROVE  Sound(s, t) /\ t.eeprom = s.eeprom
<1>1. /\ t \in FeState /\ t.faults = s.faults /\ t.level = [s.level EXCEPT ![c] = v]
      /\ Scaled(t, c) /\ \A d \in Channels \ {c} : t.counts[d] = s.counts[d]
      /\ t.gnd = s.gnd /\ t.cal = s.cal /\ t.open = s.open
      /\ Amplifiers(t) = Amplifiers(s) /\ Ports(t) = Ports(s)
      /\ Voltage(t) = Voltage(s) /\ ConverterOf(t) = ConverterOf(s)
  BY ScaleFollows
<1>2. (Believed(s) <=> Believed(t)) /\ (Steady(s) <=> Steady(t)) /\ s.faults \in Nat
  BY <1>1 DEF Believed, Steady, Ports, Voltage, FeState
<1>3. /\ t.gain = s.gain /\ t.pga = s.pga /\ t.calDAC = s.calDAC /\ t.frozen = s.frozen /\ t.eeprom = s.eeprom
      /\ \A d \in Channels \ {c} : t.level[d] = s.level[d]
  BY <1>1 DEF Amplifiers, ConverterOf, FeState, Each
<1>4. \A d \in Channels : (Tuned(s, d) <=> Tuned(t, d)) /\ (Read(s, d) <=> Read(t, d))
  BY <1>1, <1>3 DEF Tuned, Read, ReadingAt
<1>5. \A d \in Channels : Scaled(s, d) => Scaled(t, d)
  BY <1>1, <1>3 DEF Scaled
<1> QED BY <1>1, <1>2, <1>3, <1>4, <1>5 DEF Sound, Fresher, Calibrated

LEMMA RestartSound ==
  ASSUME NEW s \in FeState, NEW o \in afeADCrestart(s)
  PROVE  Sound(s, o.s) /\ o.s.eeprom = s.eeprom
BY Restarted DEF Sound, AfterAll, Fresher

(* After k chunks of a copy: as long as none failed, they are the newest,   *)
(* and the next goes to the place that follows.                            *)
Copied(e, k) ==
  /\ e \in Eeprom /\ Layers(e) /\ Placed(e) /\ e.whole = 0
  /\ ~e.ended =>
       /\ e.address = ChunkBytes * k
       /\ \A a \in Places : a < k =>
            e.cell[a].age = 0 /\ (k <= EepromChunks => e.cell[a].chunk = a + 1)

LEMMA Sixteen == EepromChunks = 16 /\ ChunkBytes = 16 /\ Places = 0 .. 15
BY DEF EepromBytes, EepromChunks, ChunkBytes, Places

(* The running address of the copy, in a byte.                             *)
LEMMA PlaceFollows ==
  ASSUME NEW k \in Nat
  PROVE  /\ PlaceOf(ChunkBytes * k) = k % EepromChunks /\ PlaceOf(ChunkBytes * k) \in Places
         /\ Advanced(ChunkBytes * k) = ChunkBytes * (k + 1)
<1>1. PICK q, r : q = k \div 16 /\ r = k % 16
  OBVIOUS
<1>2. q \in Nat /\ r \in 0 .. 15 /\ k = 16 * q + r
  BY <1>1
<1>3. (16 * k) % 256 = 16 * r
  BY <1>2
<1>4. (16 * r) \div 16 = r
  BY <1>2
<1> QED BY <1>1, <1>2, <1>3, <1>4 DEF PlaceOf, Advanced, EepromBytes, EepromChunks, ChunkBytes, Places

(* A chunk more.                                                           *)
NextChunk(e, i) ==
  [e EXCEPT !.cell = [e.cell EXCEPT ![PlaceOf(e.address)] = [age |-> 0, chunk |-> i]],
            !.address = Advanced(e.address)]
LEMMA OneMoreCopied ==
  ASSUME NEW k \in Nat, NEW e, Copied(e, k), ~e.ended, NEW f, f = NextChunk(e, k + 1)
  PROVE  Copied(f, k + 1) /\ ~f.ended
<1>1. PICK p \in Places : p = PlaceOf(e.address) /\ p = k % EepromChunks
  BY PlaceFollows DEF Copied
<1>2. PICK c : c = [e.cell EXCEPT ![p] = [age |-> 0, chunk |-> k + 1]]
  OBVIOUS
<1>3. Advanced(e.address) = ChunkBytes * (k + 1)
  BY PlaceFollows DEF Copied
<1>4. PICK ad \in Nat : ad = ChunkBytes * (k + 1)
  BY DEF ChunkBytes
<1>5. f = [e EXCEPT !.cell = c, !.address = ad]
  BY <1>1, <1>2, <1>3, <1>4 DEF NextChunk
<1>6. e.cell \in Cells /\ [age |-> 0, chunk |-> k + 1] \in Cell
  BY FrontEndAssumption DEF Copied, Eeprom, Cell
<1>7. c \in Cells /\ c[p].age = 0 /\ c[p].chunk = k + 1 /\ \A a \in Places \ {p} : c[a] = e.cell[a]
  BY <1>2, <1>6 DEF Cells
<1>8. f \in Eeprom /\ f.cell = c /\ f.address = ad /\ f.ended = FALSE /\ f.whole = 0
  BY <1>4, <1>5, <1>7 DEF Copied, Eeprom
<1>9. \A a \in Places : a \in 0 .. 15 /\ e.cell[a].age \in 0 .. Oldest /\ c[a].age \in 0 .. Oldest
  BY <1>6, <1>7, Sixteen DEF Cells, Cell
<1>10. p <= k /\ (k < EepromChunks => p = k)
  BY <1>1, Sixteen
<1>11. \A a \in Places : a < k => e.cell[a].age = 0 /\ (k <= EepromChunks => e.cell[a].chunk = a + 1)
  BY DEF Copied
<1>12. \A a \in Places : a < p => c[a].age = 0
  BY <1>7, <1>9, <1>10, <1>11
<1>13. Layers(f)
  <2> SUFFICES ASSUME NEW a \in Places, NEW b \in Places, a < b PROVE c[a].age <= c[b].age
    BY <1>8 DEF Layers
  <2>1. CASE a <= p
    <3>1. c[a].age = 0
      BY <1>7, <1>9, <1>12, <2>1
    <3> QED BY <1>9, <3>1
  <2>2. CASE a > p
    <3>1. c[a] = e.cell[a] /\ c[b] = e.cell[b] /\ e.cell[a].age <= e.cell[b].age
      BY <1>7, <1>9, <2>2 DEF Copied, Layers
    <3> QED BY <3>1
  <2> QED BY <1>9, <2>1, <2>2
<1>14. Placed(f)
  <2>1. (k + 1) - 1 = k
    OBVIOUS
  <2> QED BY <1>1, <1>7, <1>8, <2>1 DEF Copied, Placed
<1>15. ASSUME NEW a \in Places, a < k + 1
       PROVE  c[a].age = 0 /\ (k + 1 <= EepromChunks => c[a].chunk = a + 1)
  <2>1. CASE a = p
    BY <1>7, <1>10, <2>1, Sixteen
  <2>2. CASE a # p
    <3>1. a < k
      <4>1. CASE k < EepromChunks
        BY <1>9, <1>10, <1>15, <2>2, <4>1
      <4>2. CASE k >= EepromChunks
        BY <1>9, <4>2, Sixteen
      <4> QED BY <4>1, <4>2, Sixteen
    <3> QED BY <1>7, <1>11, <2>2, <3>1, Sixteen
  <2> QED BY <2>1, <2>2
<1> QED BY <1>4, <1>8, <1>13, <1>14, <1>15 DEF Copied

(* A copy that ended, at whatever chunk.                                   *)
LEMMA CutShort ==
  ASSUME NEW k, NEW e, Copied(e, k), NEW f, f = [e EXCEPT !.ended = TRUE], NEW m
  PROVE  Copied(f, m)
BY DEF Copied, Eeprom, Layers, Placed

(* What the EEPROM does not concern.                                       *)
Rest(s) == <<s.tone, s.frozen, s.result, Amplifiers(s), Scales(s), Ports(s), Voltage(s)>>
LEMMA EepromIs ==
  ASSUME NEW s \in FeState, NEW e \in Eeprom, NEW t, t = [s EXCEPT !.eeprom = e]
  PROVE  t \in FeState /\ t.eeprom = e /\ t.faults = s.faults /\ Rest(t) = Rest(s)
BY DEF FeState, Rest, Amplifiers, Scales, Ports, Voltage

LEMMA FailingRest ==
  ASSUME NEW s \in FeState, s.faults > 0, NEW t, t = Failing(s)
  PROVE  t \in FeState /\ t.faults < s.faults /\ t.eeprom = s.eeprom /\ Rest(t) = Rest(s)
<1>1. s.faults \in Nat
  BY DEF FeState
<1> QED BY <1>1, FailingIs DEF ConverterOf, Rest

(* afeStashEEPROM: what one turn of its loop may do.                       *)
Turned(t, i, v) ==
  \E w, x : \E b \in BOOLEAN :
    /\ w = [t EXCEPT !.eeprom = NextChunk(t.eeprom, i)] /\ v = [x EXCEPT !.eeprom.ended = b]
    /\ \/ x = w /\ b = FALSE
       \/ t.faults > 0 /\ b = TRUE /\ \E y \in {t, w} : x = Failing(y)
LEMMA TurnIs ==
  ASSUME NEW t \in FeState, ~t.eeprom.ended, NEW i, NEW q \in CopyChunk(t, i)
  PROVE  Turned(t, i, q.s)
<1>1. PICK w : w = [t EXCEPT !.eeprom = NextChunk(t.eeprom, i)]
  OBVIOUS
<1>2. WriteChunk(t, i) = Send(t, w)
  <2>1. w = [t EXCEPT !.eeprom.cell[PlaceOf(t.eeprom.address)] = [age |-> 0, chunk |-> i],
                      !.eeprom.address = Advanced(@)]
    BY <1>1 DEF NextChunk, FeState, Eeprom
  <2> QED BY <2>1 DEF WriteChunk
<1>3. PICK o \in Then(Send(t, t), LAMBDA u : WriteChunk(u, i)) : q = [o EXCEPT !.s.eeprom.ended = ~o.ok]
  BY DEF CopyChunk
<1>4. \/ o \in Send(t, w)
      \/ t.faults > 0 /\ o = [s |-> Failing(t), ok |-> FALSE]
  <2>1. PICK v \in Send(t, t) : o \in IF v.ok THEN WriteChunk(v.s, i) ELSE {v}
    BY <1>3 DEF Then
  <2>2. \/ v = [s |-> t, ok |-> TRUE]
        \/ t.faults > 0 /\ v = [s |-> Failing(t), ok |-> FALSE]
    BY <2>1, SendIs
  <2> QED BY <1>2, <2>1, <2>2
<1>5. \/ o = [s |-> w, ok |-> TRUE]
      \/ t.faults > 0 /\ \E y \in {t, w} : o = [s |-> Failing(y), ok |-> FALSE]
  BY <1>4, SendIs
<1>6. CASE o = [s |-> w, ok |-> TRUE]
  <2>1. q.s = [w EXCEPT !.eeprom.ended = FALSE]
    BY <1>3, <1>6
  <2> QED BY <1>1, <2>1 DEF Turned
<1>7. CASE t.faults > 0 /\ \E y \in {t, w} : o = [s |-> Failing(y), ok |-> FALSE]
  <2>1. PICK y \in {t, w} : o = [s |-> Failing(y), ok |-> FALSE]
    BY <1>7
  <2>2. PICK x : x = Failing(y)
    OBVIOUS
  <2>3. q.s = [x EXCEPT !.eeprom.ended = TRUE]
    BY <1>3, <2>1, <2>2
  <2> QED BY <1>1, <1>7, <2>1, <2>2, <2>3 DEF Turned
<1> QED BY <1>5, <1>6, <1>7

(* The loop, chunk by chunk.                                               *)
CopyOne(t, i, p) == CopyChunk(t, i)
Copy == INSTANCE InTurnRule WITH F <- CopyOne

LEMMA TurnKeeps ==
  ASSUME NEW t \in FeState, NEW k \in Nat, Copied(t.eeprom, k), NEW q \in CopyChunk(t, k + 1)
  PROVE  /\ q.s \in FeState /\ q.s.faults <= t.faults /\ Rest(q.s) = Rest(t)
         /\ Copied(q.s.eeprom, k + 1)
<1>1. t.faults \in Nat /\ t.eeprom \in Eeprom
  BY DEF FeState
<1>2. CASE t.eeprom.ended
  <2>1. q.s = t
    BY <1>2 DEF CopyChunk, Done
  <2> QED BY <1>1, <1>2, <2>1 DEF Copied
<1>3. CASE ~t.eeprom.ended
  <2>0. Turned(t, k + 1, q.s)
    BY <1>3, TurnIs
  <2>1. PICK w, x : \E b \in BOOLEAN :
           /\ w = [t EXCEPT !.eeprom = NextChunk(t.eeprom, k + 1)] /\ q.s = [x EXCEPT !.eeprom.ended = b]
           /\ \/ x = w /\ b = FALSE
              \/ t.faults > 0 /\ b = TRUE /\ \E y \in {t, w} : x = Failing(y)
    BY <2>0 DEF Turned
  <2>2. PICK b \in BOOLEAN :
           /\ w = [t EXCEPT !.eeprom = NextChunk(t.eeprom, k + 1)] /\ q.s = [x EXCEPT !.eeprom.ended = b]
           /\ \/ x = w /\ b = FALSE
              \/ t.faults > 0 /\ b = TRUE /\ \E y \in {t, w} : x = Failing(y)
    BY <2>1
  <2>3. PICK e : e = NextChunk(t.eeprom, k + 1)
    OBVIOUS
  <2>4. Copied(e, k + 1) /\ ~e.ended /\ e \in Eeprom
    BY <1>3, <2>3, OneMoreCopied DEF Copied
  <2>5. w \in FeState /\ w.eeprom = e /\ w.faults = t.faults /\ Rest(w) = Rest(t)
    BY <2>2, <2>3, <2>4, EepromIs
  <2>6. /\ x \in FeState /\ x.faults <= t.faults /\ Rest(x) = Rest(t)
        /\ IF b THEN x.eeprom \in {t.eeprom, e} ELSE x.eeprom = e
    <3>1. CASE x = w /\ b = FALSE
      BY <1>1, <2>5, <3>1
    <3>2. CASE t.faults > 0 /\ b = TRUE /\ \E y \in {t, w} : x = Failing(y)
      <4>1. PICK y \in {t, w} : x = Failing(y)
        BY <3>2
      <4>2. y \in FeState /\ y.faults = t.faults /\ y.eeprom \in {t.eeprom, e} /\ Rest(y) = Rest(t)
        BY <2>5, <4>1
      <4>3. x \in FeState /\ x.faults < y.faults /\ x.eeprom = y.eeprom /\ Rest(x) = Rest(y)
        BY <3>2, <4>1, <4>2, FailingRest
      <4>4. x.faults \in Nat
        BY <4>3 DEF FeState
      <4> QED BY <1>1, <3>2, <4>2, <4>3, <4>4
    <3> QED BY <2>2, <3>1, <3>2
  <2>7. PICK f : f = [x.eeprom EXCEPT !.ended = b]
    OBVIOUS
  <2>8. Copied(f, k + 1)
    <3>1. CASE b = TRUE
      BY <2>4, <2>6, <2>7, <3>1, CutShort
    <3>2. CASE b = FALSE
      <4>1. f = e
        BY <2>4, <2>6, <2>7, <3>2 DEF Eeprom
      <4> QED BY <2>4, <4>1
    <3> QED BY <2>2, <3>1, <3>2
  <2>9. q.s = [x EXCEPT !.eeprom = f] /\ f \in Eeprom
    BY <2>2, <2>7, <2>8 DEF Copied
  <2>10. PICK z : z = q.s
    OBVIOUS
  <2>11. z \in FeState /\ z.eeprom = f /\ z.faults = x.faults /\ Rest(z) = Rest(x)
    BY <2>6, <2>9, <2>10, EepromIs
  <2> QED BY <2>6, <2>8, <2>10, <2>11
<1> QED BY <1>2, <1>3

LEMMA CopyRuns ==
  ASSUME NEW s \in FeState, Copied(s.eeprom, 0), NEW n \in Nat,
         NEW o \in Copy!Outcomes(s, [i \in 1 .. n |-> i], 0)
  PROVE  o.s \in FeState /\ o.s.faults <= s.faults /\ Rest(o.s) = Rest(s) /\ Copied(o.s.eeprom, n)
<1> DEFINE I == {x \in Nat \X FeState :
                  x[2].faults <= s.faults /\ Rest(x[2]) = Rest(s) /\ Copied(x[2].eeprom, x[1])}
<1>1. <<0, s>> \in I
  <2>1. s.faults \in Nat
    BY DEF FeState
  <2> QED BY <2>1
<1>2. PICK seq : seq = [i \in 1 .. n |-> i]
  OBVIOUS
<1>3. Len(seq) = n /\ \A i \in 1 .. n : seq[i] = i
  BY <1>2
<1>4. ASSUME NEW m \in 1 .. n, NEW t, <<m - 1, t>> \in I, NEW q \in CopyOne(t, m, 0)
      PROVE  <<m, q.s>> \in I
  <2>1. t \in FeState /\ t.faults <= s.faults /\ Rest(t) = Rest(s) /\ Copied(t.eeprom, m - 1)
    BY <1>4
  <2>2. q \in CopyChunk(t, (m - 1) + 1) /\ m - 1 \in Nat /\ (m - 1) + 1 = m
    BY <1>4 DEF CopyOne
  <2>3. /\ q.s \in FeState /\ q.s.faults <= t.faults /\ Rest(q.s) = Rest(t)
        /\ Copied(q.s.eeprom, m)
    BY <2>1, <2>2, TurnKeeps
  <2>4. q.s.faults <= s.faults /\ m \in Nat
    <3>1. q.s.faults \in Nat /\ t.faults \in Nat /\ s.faults \in Nat
      BY <2>1, <2>3 DEF FeState
    <3> QED BY <2>1, <2>3, <3>1
  <2> QED BY <2>1, <2>3, <2>4
<1> HIDE DEF I
<1>5. <<n, o.s>> \in I
  <2>1. o \in Copy!Outcomes(s, seq, 0)
    BY <1>2
  <2>2. \A m \in 1 .. Len(seq) : \A t :
          <<m - 1, t>> \in I => \A q \in CopyOne(t, seq[m], 0) : <<m, q.s>> \in I
    BY <1>3, <1>4
  <2>3. \A x \in Copy!Outcomes(s, seq, 0) : <<Len(seq), x.s>> \in I
    BY <1>1, <1>3, <2>2, Copy!InTurnRule
  <2> QED BY <1>3, <2>1, <2>3
<1> QED BY <1>5 DEF I

(* A copy begins: what is there is one copy older.                         *)
LEMMA OlderIs ==
  ASSUME NEW e \in Eeprom, NEW f, f = Older(e)
  PROVE  f \in Eeprom /\ (Layers(e) /\ Placed(e) => Copied(f, 0))
<1>1. PICK c : c = [a \in Places |-> Aged(e.cell[a])]
  OBVIOUS
<1>2. e.cell \in Cells /\ Oldest \in Nat /\ DOMAIN e.cell = Places
  BY FrontEndAssumption DEF Eeprom, Cells
<1>3. f = [cell |-> c, address |-> 0, ended |-> FALSE, whole |-> 0]
  BY <1>1, <1>2 DEF Older
<1>4. \A a \in Places :
        /\ e.cell[a].age \in 0 .. Oldest /\ c[a] \in Cell /\ c[a].chunk = e.cell[a].chunk
        /\ c[a].age = IF e.cell[a].age < Oldest THEN e.cell[a].age + 1 ELSE e.cell[a].age
  BY <1>1, <1>2 DEF Cells, Cell, Aged
<1>5. f \in Eeprom
  BY <1>1, <1>3, <1>4 DEF Eeprom, Cells
<1>6. Layers(e) => Layers(f)
  BY <1>2, <1>3, <1>4 DEF Layers
<1>7. Placed(e) => Placed(f)
  BY <1>3, <1>4 DEF Placed
<1>8. \A a \in Places : ~(a < 0)
  BY DEF Places
<1> QED BY <1>3, <1>5, <1>6, <1>7, <1>8 DEF Copied, ChunkBytes

LEMMA WholeIs ==
  ASSUME NEW n \in Nat, NEW e, Copied(e, n), NEW f, f = [e EXCEPT !.whole = IF e.ended THEN 0 ELSE n]
  PROVE  f \in Eeprom /\ Stored(f)
<1>1. PICK w \in Nat : w = IF e.ended THEN 0 ELSE n
  OBVIOUS
<1>2. f \in Eeprom /\ f.cell = e.cell /\ f.whole = w
  BY <1>1 DEF Copied, Eeprom
<1>3. Layers(f) /\ Placed(f)
  BY <1>2 DEF Copied, Layers, Placed
<1>4. ASSUME w <= EepromChunks, NEW a \in 0 .. w - 1
      PROVE  e.cell[a] = [age |-> 0, chunk |-> a + 1]
  <2>1. ~e.ended /\ w = n /\ a \in Places /\ a < n
    BY <1>1, <1>4, Sixteen
  <2>2. e.cell[a].age = 0 /\ e.cell[a].chunk = a + 1 /\ e.cell[a] \in Cell
    BY <1>4, <2>1 DEF Copied, Eeprom, Cells
  <2> QED BY <2>2 DEF Cell
<1> QED BY <1>2, <1>3, <1>4 DEF Stored

LEMMA StashSound ==
  ASSUME NEW s \in FeState, NEW n \in FileChunks, NEW o \in afeStashEEPROM(s, n), Stored(s.eeprom)
  PROVE  Sound(s, o.s) /\ Stored(o.s.eeprom)
<1>1. n \in Nat /\ s.faults \in Nat /\ s.eeprom \in Eeprom
  BY FrontEndAssumption DEF FeState
<1>2. PICK b : b = [s EXCEPT !.eeprom = Older(s.eeprom)]
  OBVIOUS
<1>3. PICK x \in Copy!Outcomes(b, [i \in 1 .. n |-> i], 0) :
        o = [x EXCEPT !.s.eeprom.whole = IF x.s.eeprom.ended THEN 0 ELSE n]
  <2>1. Copy!Outcomes(b, [i \in 1 .. n |-> i], 0) = InTurn(b, [i \in 1 .. n |-> i], CopyChunk)
    BY DEF InTurn, Regardless, Done, Copy!Outcomes, Copy!InTurn, Copy!Regardless, Copy!Done, CopyOne
  <2> QED BY <1>2, <2>1 DEF afeStashEEPROM
<1>4. PICK e : e = Older(s.eeprom)
  OBVIOUS
<1>5. e \in Eeprom /\ Copied(e, 0)
  BY <1>1, <1>4, OlderIs DEF Stored
<1>6. b \in FeState /\ b.eeprom = e /\ b.faults = s.faults /\ Rest(b) = Rest(s)
  BY <1>2, <1>4, <1>5, EepromIs
<1>7. PICK y : y = x.s
  OBVIOUS
<1>8. y \in FeState /\ y.faults <= s.faults /\ Rest(y) = Rest(s) /\ Copied(y.eeprom, n)
  BY <1>1, <1>3, <1>5, <1>6, <1>7, CopyRuns
<1>9. PICK f : f = [y.eeprom EXCEPT !.whole = IF y.eeprom.ended THEN 0 ELSE n]
  OBVIOUS
<1>10. f \in Eeprom /\ Stored(f)
  BY <1>1, <1>8, <1>9, WholeIs
<1>11. PICK t : t = o.s
  OBVIOUS
<1>12. t = [y EXCEPT !.eeprom = f]
  BY <1>3, <1>7, <1>8, <1>9, <1>11 DEF FeState
<1>13. t \in FeState /\ t.eeprom = f /\ t.faults = y.faults /\ Rest(t) = Rest(s)
  BY <1>8, <1>10, <1>12, EepromIs
<1>14. /\ Amplifiers(t) = Amplifiers(s) /\ Scales(t) = Scales(s) /\ Ports(t) = Ports(s)
       /\ Voltage(t) = Voltage(s) /\ t.frozen = s.frozen
  BY <1>13 DEF Rest
<1>15. (Calibrated(s) <=> Calibrated(t)) /\ \A d \in Channels : Read(s, d) <=> Read(t, d)
  BY <1>14, AmplifiersScalesKeep
<1>16. (Believed(s) <=> Believed(t)) /\ (Steady(s) <=> Steady(t))
  BY <1>14 DEF Believed, Steady, Ports, Voltage
<1> QED BY <1>8, <1>10, <1>11, <1>13, <1>14, <1>15, <1>16 DEF Sound, Fresher

(* Every command.                                                          *)
LEMMA CommandsAre ==
  ASSUME FeInv, FeNext
  PROVE  \E op, arg, Out :
           /\ Command(op, arg, Out)
           /\ \A o \in Out : Sound(fe, o.s) /\ Stored(o.s.eeprom)
<1> DEFINE Good(Out) == \A o \in Out : Sound(fe, o.s) /\ Stored(o.s.eeprom)
<1>1. fe \in FeState /\ Stored(fe.eeprom)
  BY DEF FeInv
<1>2. CASE SetGain
  <2>1. PICK c \in Channels, g \in Gains : Command("gain", c, afeSetGain(fe, c, g))
    BY <1>2 DEF SetGain
  <2>2. g \in GainCodes
    BY DEF GainCodes
  <2>3. Good(afeSetGain(fe, c, g))
    BY <1>1, <2>2, GainSound
  <2> QED BY <2>1, <2>3
<1>3. CASE SetCoupling
  <2>1. PICK c \in Channels, k \in {"DC", "AC"} : Command("coupling", c, afeSetCoupling(fe, c, k))
    BY <1>3 DEF SetCoupling
  <2>2. k \in Couplings
    BY DEF Couplings
  <2>3. Good(afeSetCoupling(fe, c, k))
    BY <1>1, <2>2, CouplingSound
  <2> QED BY <2>1, <2>3
<1>4. CASE SetDAC
  <2>1. PICK v \in DacValues : Command("dac", v, afeSetDAC(fe, v))
    BY <1>4 DEF SetDAC
  <2>2. Good(afeSetDAC(fe, v))
    BY <1>1, DACSound
  <2> QED BY <2>1, <2>2
<1>5. CASE EnableTone
  <2>1. PICK on \in BOOLEAN : Command("tone", 0, {[s |-> ToneEnabled(fe, on), ok |-> TRUE]})
    BY <1>5, Zenon DEF EnableTone, ToneEnabled, Done
  <2>2. PICK t : t = ToneEnabled(fe, on)
    OBVIOUS
  <2>3. Sound(fe, t) /\ t.eeprom = fe.eeprom
    BY <1>1, <2>2, ToneSound
  <2>4. Good({[s |-> t, ok |-> TRUE]})
    BY <1>1, <2>3
  <2>5. Command("tone", 0, {[s |-> t, ok |-> TRUE]})
    BY <2>1, <2>2, Zenon
  <2> QED BY <2>4, <2>5
<1>6. CASE SetLevel
  <2>1. PICK c \in Channels, v \in Levels : Command("level", c, {[s |-> acquisitionSetTriggerLevel(fe, c, v), ok |-> TRUE]})
    BY <1>6, Zenon DEF SetLevel, Done
  <2>2. PICK t : t = acquisitionSetTriggerLevel(fe, c, v)
    OBVIOUS
  <2>3. Sound(fe, t) /\ t.eeprom = fe.eeprom
    <3>1. v \in Int
      BY FrontEndAssumption
    <3> QED BY <1>1, <2>2, <3>1, LevelSound
  <2>4. Good({[s |-> t, ok |-> TRUE]})
    BY <1>1, <2>3
  <2>5. Command("level", c, {[s |-> t, ok |-> TRUE]})
    BY <2>1, <2>2, Zenon
  <2> QED BY <2>4, <2>5
<1>7. CASE RestartConverters
  <2>1. Command("restart", 0, afeADCrestart(fe))
    BY <1>7 DEF RestartConverters
  <2>2. Good(afeADCrestart(fe))
    BY <1>1, RestartSound
  <2> QED BY <2>1, <2>2
<1>8. CASE StashEEPROM
  <2>1. PICK n \in FileChunks : Command("stash", n, afeStashEEPROM(fe, n))
    BY <1>8 DEF StashEEPROM
  <2>2. Good(afeStashEEPROM(fe, n))
    BY <1>1, StashSound
  <2> QED BY <2>1, <2>2
<1> HIDE DEF Good
<1> QED BY <1>2, <1>3, <1>4, <1>5, <1>6, <1>7, <1>8 DEF FeNext

(* The invariant is inductive.                                             *)
LEMMA FeInvStep == FeInv /\ [FeNext]_feVars => FeInv'
<1> SUFFICES ASSUME FeInv, [FeNext]_feVars PROVE FeInv'
  OBVIOUS
<1>1. CASE FeNext
  <2>1. PICK op, arg, Out : Command(op, arg, Out) /\ \A o \in Out : Sound(fe, o.s) /\ Stored(o.s.eeprom)
    BY <1>1, CommandsAre
  <2> QED BY <2>1, CommandKeeps
<1>2. CASE UNCHANGED feVars
  BY <1>2 DEF feVars, FeInv, FaultFree
<1> QED BY <1>1, <1>2

(* The inductive invariant: state in kind, coupling as believed but where  *)
(* a transfer failed, amplifier and scale of every channel consistent and, *)
(* without a fault, all of them freshly read with their converters frozen. *)
THEOREM FrontEndInvariant == FeSpec => []FeInv
<1>1. FeInit => FeInv
  BY InvInit
<1> QED BY <1>1, FeInvStep, PTL DEF FeSpec

(* Whatever commands ran and failed, for any number of channels: the       *)
(* software believes of the front end what it is.                          *)
THEOREM SoftwareKnowsTheFrontEnd == FeSpec => []CalibrationIsCurrent
<1>1. FeInv => CalibrationIsCurrent
  <2> SUFFICES ASSUME FeInv PROVE CalibrationIsCurrent
    OBVIOUS
  <2>1. fe \in FeState /\ Believed(fe) /\ Calibrated(fe) /\ (FaultFree => Fresher(fe))
    BY DEF FeInv
  <2>2. FeTypeOK
    <3>1. fe.coupling \in Each(Couplings) /\ fe.switch \in Each(Couplings) /\ fe.dac \in Volts /\ fe.oldDAC \in Volts
      BY <2>1 DEF FeState
    <3>2. Volts \subseteq DacValues \cup {0, DACMaximum} \cup {DacFor(g) : g \in GainCodes}
      BY VoltsAre DEF Volts
    <3>3. \A c \in Channels : fe.gain[c] \in GainCodes
      BY <2>1 DEF FeState, Each
    <3>4. \A c \in Channels : fe.calDAC[c] \in {DacFor(g) : g \in GainCodes}
      BY <2>1, <3>3 DEF Calibrated, Tuned
    <3> QED BY <3>1, <3>2, <3>4 DEF FeTypeOK, Each
  <2>3. PortAsBelieved
    BY <2>1 DEF PortAsBelieved, Believed
  <2>4. ReadingsFitTheGain
    BY <2>1 DEF ReadingsFitTheGain, Fresher, Calibrated, Tuned, Read, ReadingAt
  <2>5. TriggerScaleIsCurrent
    BY <2>1 DEF TriggerScaleIsCurrent, Calibrated, Scaled
  <2> QED BY <2>2, <2>3, <2>4, <2>5 DEF CalibrationIsCurrent
<1> QED BY <1>1, FrontEndInvariant, PTL

(* A gain command in which nothing fails leaves the rest as it was.        *)
THEOREM GainLeavesTheRest == FeSpec => GainKeepsTheRest
<1> DEFINE Kept == feOp' # NoChannel /\ FaultFree' =>
              /\ fe'.switch = fe.switch /\ fe'.dac = fe.dac /\ fe'.tone.on = fe.tone.on
              /\ \A d \in Channels \ {feOp'} : fe'.gnd[d] = fe.gnd[d] /\ fe'.counts[d] = fe.counts[d]
<1>1. FeInv /\ [FeNext]_feVars => [Kept]_feVars
  <2> SUFFICES ASSUME FeInv, FeNext, feOp' # NoChannel, FaultFree' PROVE Kept
    BY SMTT(40)
  <2>1. PICK c \in Channels, g \in Gains : Command("gain", c, afeSetGain(fe, c, g))
    BY DEF FeNext, SetGain, SetCoupling, SetDAC, EnableTone, SetLevel, RestartConverters, StashEEPROM, Command
  <2>2. PICK o \in afeSetGain(fe, c, g) : fe' = Ended(o.s) /\ feOp' = c
    BY <2>1 DEF Command, Ended
  <2>3. PICK u : u = o.s
    OBVIOUS
  <2>4. /\ u \in FeState /\ u.faults <= fe.faults
        /\ \A d \in Channels \ {c} : u.gnd[d] = fe.gnd[d] /\ u.counts[d] = fe.counts[d]
        /\ u.faults = fe.faults /\ Steady(fe) =>
             /\ Steady(u) /\ u.coupling = fe.coupling /\ u.dac = fe.dac /\ u.tone.on = fe.tone.on
    <3>1. fe \in FeState /\ g \in GainCodes
      BY DEF FeInv, GainCodes
    <3> QED BY <2>2, <2>3, <3>1, GainSet
  <2>5. (fe').faults = u.faults /\ SameState(u, fe')
    BY <2>2, <2>3, <2>4, EndedIs
  <2>6. fe.faults = FeMaxFaults /\ u.faults = fe.faults
    <3>1. u.faults \in Nat /\ fe.faults \in Nat /\ fe.faults <= FeMaxFaults /\ FeMaxFaults \in Nat
      BY <2>4, FrontEndAssumption DEF FeInv, FeState
    <3>2. u.faults = FeMaxFaults
      BY <2>5 DEF FaultFree
    <3> QED BY <2>4, <3>1, <3>2
  <2>7. Steady(fe)
    BY <2>6 DEF FeInv, FaultFree, Fresher
  <2>8. Steady(u) /\ u.coupling = fe.coupling /\ u.dac = fe.dac /\ u.tone.on = fe.tone.on
    BY <2>4, <2>6, <2>7
  <2>9. u.switch = fe.switch
    <3>1. u.switch \in Each(Couplings) /\ fe.switch \in Each(Couplings)
      BY <2>4 DEF FeInv, FeState
    <3>2. \A d \in Channels : u.switch[d] = fe.switch[d]
      BY <2>7, <2>8 DEF Steady, Believed
    <3> QED BY <3>1, <3>2 DEF Each
  <2>10. /\ fe'.switch = u.switch /\ fe'.dac = u.dac /\ fe'.tone = u.tone
         /\ fe'.gnd = u.gnd /\ fe'.counts = u.counts
    BY <2>5 DEF SameState, Ports, Scales
  <2>11. fe'.tone.on = fe.tone.on
    BY <2>8, <2>10
  <2> QED BY <2>2, <2>4, <2>8, <2>9, <2>10, <2>11, SMTT(40)
<1> QED BY <1>1, FrontEndInvariant, PTL DEF FeSpec, GainKeepsTheRest

(* Whatever copies failed half way and however long the files were: no     *)
(* older chunk stands before a newer one, each at the place its number     *)
(* says, and a file that fits and was copied to its end is there.          *)
THEOREM ChunksStayInPlace == FeSpec => []ChunksInPlace
<1>1. FeInv => ChunksInPlace
  <2> SUFFICES ASSUME FeInv PROVE ChunksInPlace
    OBVIOUS
  <2>1. fe.eeprom \in Eeprom /\ Stored(fe.eeprom)
    BY DEF FeInv, FeState
  <2>2. DOMAIN fe.eeprom.cell = Places
    BY <2>1 DEF Eeprom, Cells
  <2> QED BY <2>1, <2>2 DEF ChunksInPlace, Stored, Layers, Placed
<1> QED BY <1>1, FrontEndInvariant, PTL

----------------------------------------------------------------------------
(* The aligner.  The invariant: once main is in its loop, the converters    *)
(* have been started and a synchronization that did not fail is in force.  *)
AlignerStates == {"apply", "hold", "await", "delay", "confirm", "achieved", "aligned"}
Boots == {"reset", "align", "converters", "loop"}
Aligner == [boot : Boots, state : AlignerStates, age : 0 .. Limit + 1, reset : BOOLEAN, done : BOOLEAN,
            stuck : BOOLEAN, right : BOOLEAN, aligned : BOOLEAN, losses : Nat, initDone : BOOLEAN,
            synced : BOOLEAN, sysref : BOOLEAN, failed : BOOLEAN, faults : Nat]
InForce(s) == ~s.sysref /\ (s.state = "aligned" => s.synced)
Aligning(s) ==
  /\ s \in Aligner /\ s.reset = (s.state = "hold") /\ s.initDone = (s.boot = "loop")
  /\ s.boot = "loop" /\ ~s.failed => InForce(s)
MgtInv == Aligning(mgt)

(* What a call to the driver of the converters leaves alone.               *)
SameCourse(s, t) ==
  /\ t \in Aligner /\ t.boot = s.boot /\ t.state = s.state /\ t.reset = s.reset
  /\ t.initDone = s.initDone

LEMMA DriverCalled ==
  ASSUME NEW s \in Aligner, NEW t, SameCourse(s, t), t.faults = s.faults, NEW o \in Send(s, t)
  PROVE  SameCourse(s, o.s) /\ o.ok \in BOOLEAN /\ (o.ok => o.s = t)
<1>1. CASE o = [s |-> t, ok |-> TRUE]
  BY <1>1
<1>2. CASE s.faults > 0 /\ \E x \in {s, t} : o = [s |-> Failing(x), ok |-> FALSE]
  <2>1. PICK x \in {s, t} : o = [s |-> Failing(x), ok |-> FALSE]
    BY <1>2
  <2>2. SameCourse(s, x) /\ x.faults = s.faults
    BY <2>1 DEF SameCourse
  <2>3. PICK y : y = Failing(x)
    OBVIOUS
  <2>4. PICK f \in Nat : f = x.faults - 1
    BY <1>2, <2>2 DEF SameCourse, Aligner
  <2>5. y = [x EXCEPT !.faults = f]
    BY <2>3, <2>4 DEF Failing
  <2>6. SameCourse(s, y)
    BY <2>2, <2>5 DEF SameCourse, Aligner
  <2>7. o.s = y /\ o.ok = FALSE
    BY <2>1, <2>3
  <2> QED BY <2>6, <2>7
<1> QED BY <1>1, <1>2, SendIs

(* rfADCsync, once the converters are started: it fails, or the converters *)
(* are in step and SYSREF is off.                                          *)
LEMMA SyncIs ==
  ASSUME NEW s \in Aligner, s.initDone, NEW o \in rfADCsync(s)
  PROVE  SameCourse(s, o.s) /\ (~o.s.failed => o.s.synced /\ ~o.s.sysref)
<1> DEFINE G(u) == Then(Synchronized(u), LAMBDA v : SetSysref(v, FALSE))
           F(t) == Then(SetSysref(t, TRUE), G)
<1>1. PICK p \in Then(Send(s, s), F) : o = [p EXCEPT !.s.failed = ~p.ok]
  BY DEF rfADCsync
<1>2. PICK q \in Send(s, s) : p \in IF q.ok THEN F(q.s) ELSE {q}
  BY <1>1 DEF Then
<1>3. SameCourse(s, q.s) /\ q.ok \in BOOLEAN /\ (q.ok => q.s = s)
  BY <1>2, DriverCalled DEF SameCourse
<1>4. ASSUME NEW u \in Aligner, NEW x \in G(u)
      PROVE  SameCourse(u, x.s) /\ x.ok \in BOOLEAN /\ (x.ok => x.s.synced /\ ~x.s.sysref)
  <2>1. PICK a, b : a = [u EXCEPT !.synced = FALSE] /\ b = [u EXCEPT !.synced = TRUE]
    OBVIOUS
  <2>2. /\ a \in Aligner /\ SameCourse(u, a) /\ SameCourse(a, b)
        /\ b \in Aligner /\ b.faults = a.faults /\ b.synced
    BY <2>1 DEF SameCourse, Aligner
  <2>3. PICK v \in Send(a, b) : x \in IF v.ok THEN SetSysref(v.s, FALSE) ELSE {v}
    BY <1>4, <2>1 DEF Then, Synchronized
  <2>4. SameCourse(a, v.s) /\ v.ok \in BOOLEAN /\ (v.ok => v.s = b)
    BY <2>2, <2>3, DriverCalled
  <2>5. CASE ~v.ok
    <3>1. x = v
      BY <2>3, <2>5
    <3> QED BY <2>2, <2>4, <2>5, <3>1 DEF SameCourse
  <2>6. CASE v.ok
    <3>1. PICK c : c = [b EXCEPT !.sysref = FALSE]
      OBVIOUS
    <3>2. x \in Send(b, c)
      BY <2>3, <2>4, <2>6, <3>1 DEF SetSysref
    <3>3. SameCourse(b, c) /\ c.faults = b.faults /\ c.synced /\ ~c.sysref
      BY <2>2, <3>1 DEF SameCourse, Aligner
    <3>4. SameCourse(b, x.s) /\ x.ok \in BOOLEAN /\ (x.ok => x.s = c)
      BY <2>2, <3>2, <3>3, DriverCalled
    <3> QED BY <2>2, <3>3, <3>4 DEF SameCourse
  <2> QED BY <2>4, <2>5, <2>6
<1>5. SameCourse(s, p.s) /\ p.ok \in BOOLEAN /\ (p.ok => p.s.synced /\ ~p.s.sysref)
  <2>1. CASE ~q.ok
    BY <1>2, <1>3, <2>1
  <2>2. CASE q.ok
    <3>1. PICK a : a = [s EXCEPT !.sysref = TRUE]
      OBVIOUS
    <3>2. PICK u \in Send(s, a) : p \in IF u.ok THEN G(u.s) ELSE {u}
      BY <1>2, <1>3, <2>2, <3>1 DEF Then, SetSysref
    <3>3. SameCourse(s, a) /\ a.faults = s.faults
      BY <3>1 DEF SameCourse, Aligner
    <3>4. SameCourse(s, u.s) /\ u.ok \in BOOLEAN
      BY <3>2, <3>3, DriverCalled
    <3> HIDE DEF G
    <3>5. CASE u.ok
      BY <1>4, <3>2, <3>4, <3>5 DEF SameCourse
    <3>6. CASE ~u.ok
      BY <3>2, <3>4, <3>6
    <3> QED BY <3>4, <3>5, <3>6
  <2> QED BY <1>3, <2>1, <2>2
<1>6. PICK t, r : t = o.s /\ r = p.s
  OBVIOUS
<1>7. PICK b \in BOOLEAN : b = ~p.ok
  BY <1>5
<1>8. t = [r EXCEPT !.failed = b]
  BY <1>1, <1>6, <1>7
<1>9. SameCourse(s, t) /\ t.failed = b /\ t.synced = r.synced /\ t.sysref = r.sysref
  <2>1. /\ r \in Aligner /\ r.boot = s.boot /\ r.state = s.state /\ r.reset = s.reset
        /\ r.initDone = s.initDone
    BY <1>5, <1>6 DEF SameCourse
  <2>2. /\ t \in Aligner /\ t.boot = r.boot /\ t.state = r.state /\ t.reset = r.reset
        /\ t.initDone = r.initDone /\ t.failed = b /\ t.synced = r.synced /\ t.sysref = r.sysref
    BY <1>8, <2>1 DEF Aligner
  <2> QED BY <2>1, <2>2 DEF SameCourse
<1> QED BY <1>5, <1>6, <1>7, <1>9

(* A restart, and the synchronization after it.                            *)
LEMMA RestartIs ==
  ASSUME NEW s \in Aligner, s.initDone, NEW o \in RestartThenSync(s)
  PROVE  SameCourse(s, o.s) /\ (~o.s.failed => o.s.synced /\ ~o.s.sysref)
<1>1. PICK t : t = [s EXCEPT !.synced = FALSE]
  OBVIOUS
<1>2. PICK p \in Send(s, t) : o \in rfADCsync(p.s)
  BY <1>1 DEF RestartThenSync, Regardless, rfADCrestart
<1>3. SameCourse(s, t) /\ t.faults = s.faults
  BY <1>1 DEF SameCourse, Aligner
<1>4. SameCourse(s, p.s)
  BY <1>2, <1>3, DriverCalled
<1>5. PICK u : u = p.s
  OBVIOUS
<1>6. SameCourse(u, o.s) /\ (~o.s.failed => o.s.synced /\ ~o.s.sysref)
  BY <1>2, <1>4, <1>5, SyncIs DEF SameCourse
<1> QED BY <1>4, <1>5, <1>6 DEF SameCourse

LEMMA SyncKeeps ==
  ASSUME NEW s, Aligning(s), NEW t, SameCourse(s, t), ~t.failed => t.synced /\ ~t.sysref
  PROVE  Aligning(t)
BY DEF Aligning, SameCourse, InForce

(* A change of state that is neither into nor out of the reset.            *)
LEMMA EnterKeeps ==
  ASSUME NEW s, Aligning(s), s.state # "hold", NEW st \in AlignerStates \ {"hold", "aligned"},
         NEW t, t = Enter(s, st)
  PROVE  Aligning(t) /\ t.boot = s.boot
<1>1. 0 \in 0 .. Limit + 1
  BY DEF Limit
<1>2. /\ t \in Aligner /\ t.boot = s.boot /\ t.state = st /\ t.reset = s.reset
      /\ t.initDone = s.initDone /\ t.failed = s.failed /\ t.sysref = s.sysref
  BY <1>1 DEF Enter, Aligning, Aligner
<1> QED BY <1>2 DEF Aligning, InForce

(* Into the reset, or out of it.                                           *)
LEMMA ResetKeeps ==
  ASSUME NEW s, Aligning(s), NEW st \in AlignerStates \ {"aligned"}, NEW on \in BOOLEAN,
         on = (st = "hold"), NEW t, t = Reset(Enter(s, st), on)
  PROVE  Aligning(t) /\ t.boot = s.boot
<1>1. 0 \in 0 .. Limit + 1
  BY DEF Limit
<1>2. PICK e : e = Enter(s, st)
  OBVIOUS
<1>3. /\ e \in Aligner /\ e.boot = s.boot /\ e.state = st
      /\ e.initDone = s.initDone /\ e.failed = s.failed /\ e.sysref = s.sysref
  BY <1>1, <1>2 DEF Enter, Aligning, Aligner
<1>4. t = [e EXCEPT !.reset = on, !.done = FALSE, !.right = FALSE, !.aligned = FALSE,
                    !.stuck = FALSE, !.synced = FALSE]
  BY <1>2 DEF Reset
<1>5. /\ t \in Aligner /\ t.boot = s.boot /\ t.state = st /\ t.reset = on
      /\ t.initDone = s.initDone /\ t.failed = s.failed /\ t.sysref = s.sysref
  BY <1>3, <1>4 DEF Aligner
<1> QED BY <1>5 DEF Aligning, InForce

LEMMA CrankKeeps ==
  ASSUME NEW s, Aligning(s), NEW o \in Crank(s)
  PROVE  Aligning(o.s) /\ o.s.boot = s.boot
<1>1. CASE s.state = "apply"
  <2>1. PICK t : t = Reset(Enter(s, "hold"), TRUE)
    OBVIOUS
  <2>2. Crank(s) = Done(t)
    BY <1>1, <2>1 DEF Crank
  <2>3. o.s = t
    BY <2>2 DEF Done
  <2>4. "hold" \in AlignerStates \ {"aligned"} /\ TRUE = ("hold" = "hold")
    BY DEF AlignerStates
  <2>5. Aligning(t) /\ t.boot = s.boot
    BY <2>1, <2>4, ResetKeeps, Zenon
  <2> QED BY <2>3, <2>5
<1>2. CASE s.state = "hold" /\ s.age > HoldTime
  <2>1. PICK t : t = Reset(Enter(s, "await"), FALSE)
    OBVIOUS
  <2>2. Crank(s) = Done(t)
    BY <1>2, <2>1 DEF Crank
  <2>3. o.s = t
    BY <2>2 DEF Done
  <2>4. "await" \in AlignerStates \ {"aligned"} /\ FALSE = ("await" = "hold")
    BY DEF AlignerStates
  <2>5. Aligning(t) /\ t.boot = s.boot
    BY <2>1, <2>4, ResetKeeps, Zenon
  <2> QED BY <2>3, <2>5
<1>3. CASE s.state = "await"
  <2>1. o.s \in {s, Enter(s, "delay"), Enter(s, "apply")}
    BY <1>3 DEF Crank, Done, CrankAwait, TimedOut
  <2> QED BY <1>3, <2>1, EnterKeeps DEF AlignerStates
<1>4. CASE s.state \in {"delay", "confirm"}
  <2>1. o.s \in {s, Enter(s, "confirm"), Enter(s, "apply"), Enter(s, "achieved")}
    <3>1. Crank(s) = Done(CrankDelay(s)) \/ Crank(s) = Done(CrankConfirm(s, s))
      BY <1>4 DEF Crank
    <3> QED BY <3>1 DEF Done, CrankDelay, CrankConfirm
  <2> QED BY <1>4, <2>1, EnterKeeps DEF AlignerStates
<1>5. CASE s.state = "achieved"
  <2>1. PICK e : e = Enter(s, "aligned")
    OBVIOUS
  <2>2. o \in rfADCsync(e)
    BY <1>5, <2>1 DEF Crank
  <2>3. 0 \in 0 .. Limit + 1 /\ "aligned" \in AlignerStates
    BY DEF Limit, AlignerStates
  <2>4. /\ e \in Aligner /\ e.boot = s.boot /\ e.state = "aligned" /\ e.reset = FALSE
        /\ e.initDone = (s.boot = "loop")
    BY <1>5, <2>1, <2>3 DEF Enter, Aligning, Aligner
  <2>5. CASE ~e.initDone
    <3>1. o.s = e
      BY <2>2, <2>5 DEF rfADCsync, Done
    <3> QED BY <2>4, <2>5, <3>1 DEF Aligning
  <2>6. CASE e.initDone
    <3>1. SameCourse(e, o.s) /\ (~o.s.failed => o.s.synced /\ ~o.s.sysref)
      BY <2>2, <2>4, <2>6, SyncIs
    <3> QED BY <2>4, <3>1 DEF Aligning, SameCourse, InForce
  <2> QED BY <2>5, <2>6
<1>6. CASE s.state = "aligned"
  <2>1. o.s \in {s, Enter(s, "apply")}
    BY <1>6 DEF Crank, Done, CrankAligned
  <2> QED BY <1>6, <2>1, EnterKeeps DEF AlignerStates
<1>7. CASE s.state = "hold" /\ ~(s.age > HoldTime)
  <2>1. Crank(s) = Done(s)
    BY <1>7 DEF Crank
  <2>2. o.s = s
    BY <2>1 DEF Done
  <2> QED BY <2>2
<1> QED BY <1>1, <1>2, <1>3, <1>4, <1>5, <1>6, <1>7 DEF Aligning, Aligner, AlignerStates

LEMMA MgtInitial == MgtInit => MgtInv
<1> SUFFICES ASSUME MgtInit PROVE MgtInv
  OBVIOUS
<1>1. 0 \in 0 .. Limit + 1 /\ "aligned" \in AlignerStates /\ "reset" \in Boots /\ MaxSyncFaults \in Nat
  BY ReceiverAssumption DEF Limit, AlignerStates, Boots
<1>2. mgt \in Aligner
  BY <1>1 DEF MgtInit, Aligner
<1> QED BY <1>2 DEF MgtInit, MgtInv, Aligning

(* The main program before its loop is left alone by the aligner.          *)
LEMMA Further ==
  ASSUME NEW s, Aligning(s), s.boot # "loop", NEW b \in Boots \ {"loop"}, NEW t, t = [s EXCEPT !.boot = b]
  PROVE  Aligning(t)
<1>1. /\ t \in Aligner /\ t.boot = b /\ t.state = s.state /\ t.reset = s.reset
      /\ t.initDone = s.initDone
  BY DEF Aligning, Aligner
<1> QED BY <1>1 DEF Aligning

LEMMA ProcessorKeeps == ASSUME MgtInv, Processor PROVE MgtInv'
<1>1. Aligning(mgt)
  BY DEF MgtInv
<1>2. CASE AwaitReset
  BY <1>1, <1>2, Further DEF AwaitReset, Boots, MgtInv
<1>3. CASE AlignAtBoot
  <2>1. PICK o \in Crank(mgt) :
          mgt' = IF o.s.state = "aligned" THEN [o.s EXCEPT !.boot = "converters"] ELSE o.s
    BY <1>3 DEF AlignAtBoot
  <2>2. PICK t : t = o.s
    OBVIOUS
  <2>3. Aligning(t) /\ t.boot = "align"
    BY <1>1, <1>3, <2>2, CrankKeeps DEF AlignAtBoot
  <2>4. mgt' = [t EXCEPT !.boot = "converters"] \/ mgt' = t
    BY <2>1, <2>2
  <2> QED BY <2>3, <2>4, Further DEF Boots, MgtInv
<1>4. CASE GiveUp
  BY <1>1, <1>4, Further DEF GiveUp, Boots, MgtInv
<1>5. CASE StartConverters
  <2>1. PICK s : s = [mgt EXCEPT !.initDone = TRUE]
    OBVIOUS
  <2>2. s \in Aligner /\ s.initDone /\ s.reset = (s.state = "hold")
    BY <1>1, <2>1 DEF Aligning, Aligner
  <2>3. PICK o \in RestartThenSync(s) : mgt' = [o.s EXCEPT !.boot = "loop"]
    BY <1>5, <2>1 DEF StartConverters
  <2>4. PICK t : t = o.s
    OBVIOUS
  <2>5. SameCourse(s, t) /\ (~t.failed => t.synced /\ ~t.sysref)
    BY <2>2, <2>3, <2>4, RestartIs
  <2>6. PICK u : u = mgt'
    OBVIOUS
  <2>7. u = [t EXCEPT !.boot = "loop"] /\ "loop" \in Boots
    BY <2>3, <2>4, <2>6 DEF Boots
  <2>8. /\ u \in Aligner /\ u.boot = "loop" /\ u.state = t.state /\ u.reset = t.reset
        /\ u.initDone = t.initDone /\ u.failed = t.failed /\ u.synced = t.synced /\ u.sysref = t.sysref
    BY <2>5, <2>7 DEF SameCourse, Aligner
  <2>9. Aligning(u)
    BY <2>2, <2>5, <2>8 DEF Aligning, SameCourse, InForce
  <2> QED BY <2>6, <2>9 DEF MgtInv
<1>6. CASE mgtCrankRxAligner
  <2>1. PICK o \in Crank(mgt) : mgt' = o.s
    BY <1>6 DEF mgtCrankRxAligner
  <2> QED BY <1>1, <2>1, CrankKeeps DEF MgtInv
<1> QED BY <1>2, <1>3, <1>4, <1>5, <1>6 DEF Processor

(* The debug command restarts and synchronizes the converters.             *)
LEMMA DebugKeeps == ASSUME MgtInv, DebugRestart \/ DebugResync PROVE MgtInv'
<1>1. Aligning(mgt) /\ mgt.boot = "loop"
  BY DEF MgtInv, DebugRestart, DebugResync
<1>2. mgt \in Aligner /\ mgt.initDone
  BY <1>1 DEF Aligning
<1>3. \E o : /\ o \in RestartThenSync(mgt) \cup rfADCsync(mgt)
             /\ mgt' = o.s
  BY DEF DebugRestart, DebugResync
<1>4. PICK o \in RestartThenSync(mgt) \cup rfADCsync(mgt) : mgt' = o.s
  BY <1>3
<1>5. SameCourse(mgt, o.s) /\ (~o.s.failed => o.s.synced /\ ~o.s.sysref)
  BY <1>2, <1>4, RestartIs, SyncIs
<1> QED BY <1>1, <1>4, <1>5, SyncKeeps DEF MgtInv

(* The transceiver and the time touch neither the course nor the converters. *)
LEMMA MgtKeeps == ASSUME MgtInv, MgtNext PROVE MgtInv'
<1>1. ASSUME SameCourse(mgt, mgt'), mgt'.failed = mgt.failed, mgt'.synced = mgt.synced,
             mgt'.sysref = mgt.sysref
      PROVE  MgtInv'
  BY <1>1 DEF MgtInv, Aligning, SameCourse, InForce
<1> DEFINE Kept == /\ SameCourse(mgt, mgt') /\ mgt'.failed = mgt.failed
                   /\ mgt'.synced = mgt.synced /\ mgt'.sysref = mgt.sysref
<1>2. mgt \in Aligner
  BY DEF MgtInv, Aligning
<1>3. ASSUME NEW right \in BOOLEAN, NEW aligned \in BOOLEAN, ComeOut(right, aligned) PROVE Kept
  BY <1>2, <1>3 DEF ComeOut, SameCourse, Aligner
<1>4. ASSUME NEW right \in BOOLEAN, LoseAlignment(right) PROVE Kept
  <2>1. mgt.losses + 1 \in Nat
    BY <1>2 DEF Aligner
  <2> QED BY <1>2, <1>4, <2>1 DEF LoseAlignment, SameCourse, Aligner
<1>5. CASE GetStuck
  <2>1. Kept
    BY <1>2, <1>5 DEF GetStuck, SameCourse, Aligner
  <2> QED BY <2>1, <1>1
<1>6. CASE CountCommas
  <2>1. Kept
    BY <1>2, <1>6 DEF CountCommas, SameCourse, Aligner
  <2> QED BY <2>1, <1>1
<1>7. CASE MgtTime
  <2>1. mgt.age + 1 \in 0 .. Limit + 1
    BY <1>2, <1>7 DEF MgtTime, Aligner, Limit
  <2>2. Kept
    BY <1>2, <1>7, <2>1 DEF MgtTime, SameCourse, Aligner
  <2> QED BY <2>2, <1>1
<1> QED BY <1>1, <1>3, <1>4, <1>5, <1>6, <1>7, ProcessorKeeps, DebugKeeps DEF MgtNext

----------------------------------------------------------------------------
(* The reading of the time.  Once the fraction is read, there was a moment *)
(* in the call with that fraction, and a second no earlier than the one    *)
(* read before and no later than now: when these agree, it was that one.   *)
Times == [sec : 0 .. MaxSeconds, fraction : 0 .. Fractions - 1]
Readers == [now : Times, pc : {"idle", "fraction", "again"}, got : Times, during : SUBSET Times]
TodInv ==
  /\ tod \in Readers
  /\ tod.pc = "idle" => tod.got \in tod.during
  /\ tod.pc # "idle" => tod.now \in tod.during /\ tod.got.sec <= tod.now.sec
  /\ tod.pc = "again" =>
       \E t \in tod.during : /\ t.fraction = tod.got.fraction
                             /\ tod.got.sec <= t.sec /\ t.sec <= tod.now.sec

LEMMA TodInitial == TodInit => TodInv
BY ReceiverAssumption DEF TodInit, TodInv, Times, Readers

LEMMA ClockKeeps == ASSUME TodInv, ClockTicks PROVE TodInv'
<1> DEFINE next == After(tod.now)
<1>1. next \in Times /\ tod.now.sec <= next.sec
  BY ReceiverAssumption DEF TodInv, Readers, Times, ClockTicks, After
<1>2. tod' = [tod EXCEPT !.now = next, !.during = @ \cup {next}]
  BY DEF ClockTicks
<1> HIDE DEF next
<1>3. tod' \in Readers
  BY <1>1, <1>2 DEF TodInv, Readers
<1>4. tod'.now = next /\ tod'.pc = tod.pc /\ tod'.got = tod.got /\ tod'.during = tod.during \cup {next}
  BY <1>2 DEF TodInv, Readers
<1>5. /\ tod.got.sec \in Int /\ tod.now.sec \in Int /\ next.sec \in Int
      /\ \A t \in tod.during : t.sec \in Int
  BY <1>1 DEF TodInv, Readers, Times
<1>6. tod'.pc # "idle" => tod'.now \in tod'.during /\ tod'.got.sec <= tod'.now.sec
  BY <1>1, <1>4, <1>5 DEF TodInv
<1>7. ASSUME tod'.pc = "again"
      PROVE \E t \in tod'.during : /\ t.fraction = tod'.got.fraction
                                   /\ tod'.got.sec <= t.sec /\ t.sec <= tod'.now.sec
  <2>1. PICK t \in tod.during : /\ t.fraction = tod.got.fraction
                                /\ tod.got.sec <= t.sec /\ t.sec <= tod.now.sec
    BY <1>4, <1>7 DEF TodInv
  <2>2. t \in tod'.during /\ t.sec <= next.sec
    BY <1>1, <1>4, <1>5, <2>1
  <2> QED BY <1>4, <2>1, <2>2
<1> QED BY <1>3, <1>4, <1>6, <1>7 DEF TodInv

LEMMA TodKeeps == ASSUME TodInv, TodNext PROVE TodInv'
<1> DEFINE seconds == [tod.got EXCEPT !.sec = tod.now.sec]
           fraction == [tod.got EXCEPT !.fraction = tod.now.fraction]
<1>1. /\ tod \in Readers /\ tod.now \in Times /\ tod.got \in Times
      /\ tod.now.sec \in Int /\ tod.got.sec \in Int
  BY DEF TodInv, Readers, Times
<1>2. /\ seconds \in Times /\ seconds.sec = tod.now.sec
      /\ fraction \in Times /\ fraction.sec = tod.got.sec
      /\ fraction.fraction = tod.now.fraction
  BY <1>1 DEF Times
<1>3. CASE ReadStart
  <2>1. tod' = [tod EXCEPT !.pc = "fraction", !.got = seconds, !.during = {tod.now}]
    BY <1>3 DEF ReadStart
  <2>2. /\ tod' \in Readers /\ tod'.pc = "fraction" /\ tod'.now = tod.now
        /\ tod'.got = seconds /\ tod'.during = {tod.now}
    <3> HIDE DEF seconds, fraction
    <3> QED BY <1>1, <1>2, <2>1 DEF Readers
  <2> HIDE DEF seconds, fraction
  <2> QED BY <1>1, <1>2, <2>2 DEF TodInv
<1>4. CASE ReadFraction
  <2>1. tod' = [tod EXCEPT !.pc = "again", !.got = fraction]
    BY <1>4 DEF ReadFraction
  <2> HIDE DEF seconds, fraction
  <2>2. /\ tod' \in Readers /\ tod'.pc = "again" /\ tod'.now = tod.now
        /\ tod'.got = fraction /\ tod'.during = tod.during
    BY <1>1, <1>2, <2>1 DEF Readers
  <2>3. tod.now \in tod.during /\ tod.got.sec <= tod.now.sec
    BY <1>4 DEF ReadFraction, TodInv
  <2>4. \E t \in tod.during : /\ t.fraction = fraction.fraction
                              /\ fraction.sec <= t.sec /\ t.sec <= tod.now.sec
    BY <1>1, <1>2, <2>3
  <2> QED BY <1>1, <1>2, <2>2, <2>3, <2>4 DEF TodInv
<1>5. CASE ReadAgain /\ SecondsAgree(tod.now.sec)
  <2>1. PICK t \in tod.during : /\ t.fraction = tod.got.fraction
                                /\ tod.got.sec <= t.sec /\ t.sec <= tod.now.sec
    BY <1>5 DEF ReadAgain, TodInv
  <2>2. t = tod.got
    BY <1>5, <2>1 DEF SecondsAgree, TodInv, Readers, Times
  <2> QED BY <1>5, <2>1, <2>2 DEF ReadAgain, TodInv, Readers
<1>6. CASE ReadAgain /\ ~SecondsAgree(tod.now.sec)
  <2>1. tod' = [tod EXCEPT !.pc = "fraction", !.got = seconds]
    BY <1>6 DEF ReadAgain, NextSeconds
  <2> HIDE DEF seconds, fraction
  <2>2. /\ tod' \in Readers /\ tod'.pc = "fraction" /\ tod'.now = tod.now
        /\ tod'.got = seconds /\ tod'.during = tod.during
    BY <1>1, <1>2, <2>1 DEF Readers
  <2>3. tod.now \in tod.during
    BY <1>6 DEF ReadAgain, TodInv
  <2> QED BY <1>1, <1>2, <2>2, <2>3 DEF TodInv
<1> QED BY <1>3, <1>4, <1>5, <1>6, ClockKeeps DEF TodNext

----------------------------------------------------------------------------
(* The map of events.                                                      *)
Outputs == {"T0", "T1"} \cup EventTriggers
EventMaps == [action : [Events -> SUBSET Outputs], old : [EventTriggers -> Events \cup {0}],
              mapped : BOOLEAN]
EvInv == evmap \in EventMaps /\ EventActionsStand

LEMMA EvInitial == EvInit => EvInv
<1> SUFFICES ASSUME EvInit PROVE EvInv
  OBVIOUS
<1>1. \A e \in Events : evmap.action[e] = CASE e = Heartbeat -> {"T0"} [] e = PPS -> {"T1"} [] OTHER -> {}
  BY DEF EvInit
<1>2. evmap \in EventMaps
  BY DEF EvInit, EventMaps, Outputs, EventTriggers
<1>3. MarkersKept
  BY <1>1 DEF MarkersKept, Heartbeat, PPS
<1>4. OneTriggerEvent
  BY <1>1, ReceiverAssumption DEF EvInit, OneTriggerEvent, EventTriggers, Heartbeat, PPS
<1> QED BY <1>2, <1>3, <1>4 DEF EvInv, EventActionsStand

LEMMA MappingKeeps == ASSUME EvInv, setEventAction PROVE EvInv'
<1>1. PICK e \in Events, actions \in SUBSET ({"T0"} \cup EventTriggers) :
        evmap' = [evmap EXCEPT !.action[e] = (@ \ Replaceable(@)) \cup Replaceable(actions),
                               !.mapped = TRUE]
  BY DEF setEventAction
<1>2. evmap'.mapped /\ evmap'.old = evmap.old /\ DOMAIN evmap'.action = Events
  BY <1>1 DEF EvInv, EventMaps
<1>3. \A x \in Events : evmap'.action[x] =
        IF x = e THEN (evmap.action[e] \ Replaceable(evmap.action[e])) \cup Replaceable(actions)
        ELSE evmap.action[x]
  BY <1>1 DEF EvInv, EventMaps
<1>4. evmap' \in EventMaps
  BY <1>1 DEF EvInv, EventMaps, Outputs, Replaceable
<1>5. \A x \in Events : /\ "T0" \in evmap'.action[x] <=> "T0" \in evmap.action[x]
                        /\ "T1" \in evmap'.action[x] <=> "T1" \in evmap.action[x]
  BY <1>3 DEF Replaceable
<1>6. MarkersKept'
  BY <1>5 DEF EvInv, EventActionsStand, MarkersKept
<1> QED BY <1>2, <1>4, <1>6 DEF EvInv, EventActionsStand, OneTriggerEvent

LEMMA SelectingKeeps == ASSUME EvInv, selectTriggerEventAction PROVE EvInv'
<1> DEFINE gone(t) == IF evmap.old[t] = 0 THEN evmap ELSE Unselected(evmap, evmap.old[t], t)
           none(t) == [gone(t) EXCEPT !.old[t] = 0]
<1>1. PICK t \in EventTriggers, e \in Events \cup {0} :
        evmap' = IF e = 0 THEN none(t) ELSE [evrAddEventAction(none(t), e, t) EXCEPT !.old[t] = e]
  BY DEF selectTriggerEventAction
<1>2. /\ none(t) \in EventMaps
      /\ none(t).mapped = evmap.mapped /\ none(t).old = [evmap.old EXCEPT ![t] = 0]
      /\ \A x \in Events : none(t).action[x] =
           IF x = evmap.old[t] THEN evmap.action[x] \ {t} ELSE evmap.action[x]
  <2>1. CASE evmap.old[t] = 0
    BY <2>1, ReceiverAssumption DEF EvInv, EventMaps
  <2>2. CASE evmap.old[t] # 0
    BY <2>2, ReceiverAssumption DEF EvInv, EventMaps, Unselected, evrRemoveEventAction
  <2> QED BY <2>1, <2>2
<1>3. /\ evmap' \in EventMaps
      /\ evmap'.mapped = evmap.mapped /\ evmap'.old = [evmap.old EXCEPT ![t] = e]
      /\ \A x \in Events : evmap'.action[x] =
           (IF x = evmap.old[t] THEN evmap.action[x] \ {t} ELSE evmap.action[x])
             \cup (IF x = e THEN {t} ELSE {})
  <2> HIDE DEF none
  <2>1. CASE e = 0
    BY <1>1, <1>2, <2>1, ReceiverAssumption DEF EventMaps
  <2>2. CASE e # 0
    <3> DEFINE added == evrAddEventAction(none(t), e, t)
    <3>1. /\ added \in EventMaps
          /\ added.mapped = none(t).mapped /\ added.old = none(t).old
          /\ \A x \in Events : added.action[x] =
               none(t).action[x] \cup (IF x = e THEN {t} ELSE {})
      BY <1>2, <2>2 DEF EventMaps, Outputs, evrAddEventAction
    <3>2. evmap' = [added EXCEPT !.old[t] = e]
      BY <1>1, <2>2
    <3> HIDE DEF added
    <3>3. /\ evmap' \in EventMaps /\ evmap'.mapped = added.mapped
          /\ evmap'.old = [added.old EXCEPT ![t] = e] /\ evmap'.action = added.action
      BY <3>1, <3>2 DEF EventMaps
    <3>4. evmap'.old = [evmap.old EXCEPT ![t] = e]
      BY <1>2, <3>1, <3>3 DEF EvInv, EventMaps
    <3>5. evmap'.mapped = evmap.mapped
      BY <1>2, <3>1, <3>3
    <3>6. \A x \in Events : evmap'.action[x] =
            (IF x = evmap.old[t] THEN evmap.action[x] \ {t} ELSE evmap.action[x])
              \cup (IF x = e THEN {t} ELSE {})
      <4> SUFFICES ASSUME NEW x \in Events
                   PROVE  evmap'.action[x] =
            (IF x = evmap.old[t] THEN evmap.action[x] \ {t} ELSE evmap.action[x])
              \cup (IF x = e THEN {t} ELSE {})
        OBVIOUS
      <4>1. evmap'.action[x] = none(t).action[x] \cup (IF x = e THEN {t} ELSE {})
        BY <3>1, <3>3
      <4>2. none(t).action[x] = IF x = evmap.old[t] THEN evmap.action[x] \ {t} ELSE evmap.action[x]
        BY <1>2
      <4> QED BY <4>1, <4>2
    <3> QED BY <3>3, <3>4, <3>5, <3>6
  <2> QED BY <2>1, <2>2
<1>4. t # "T0" /\ t # "T1"
  BY DEF EventTriggers
<1>5. MarkersKept'
  BY <1>3, <1>4 DEF EvInv, EventActionsStand, MarkersKept
<1>6. ASSUME ~evmap'.mapped, NEW u \in EventTriggers, NEW x \in Events
      PROVE  (u \in evmap'.action[x]) = (evmap'.old[u] = x)
  <2>1. u \in evmap.action[x] <=> evmap.old[u] = x
    BY <1>3, <1>6 DEF EvInv, EventActionsStand, OneTriggerEvent
  <2>2. evmap'.old[u] = IF u = t THEN e ELSE evmap.old[u]
    BY <1>3 DEF EvInv, EventMaps
  <2>3. u \in evmap'.action[x] <=> evmap'.old[u] = x
    BY <1>3, <2>1, <2>2
  <2> QED BY <2>3
<1> QED BY <1>3, <1>5, <1>6 DEF EvInv, EventActionsStand, OneTriggerEvent

LEMMA EvKeeps == ASSUME EvInv, EvNext PROVE EvInv'
BY MappingKeeps, SelectingKeeps DEF EvNext

----------------------------------------------------------------------------
ReceiverInv == MgtInv /\ TodInv /\ EvInv

LEMMA ReceiverInvariant == ReceiverSpec => []ReceiverInv
<1>1. ReceiverInit => ReceiverInv
  BY MgtInitial, TodInitial, EvInitial DEF ReceiverInit, ReceiverInv
<1>2. ReceiverInv /\ [ReceiverNext]_receiverVars => ReceiverInv'
  <2> SUFFICES ASSUME ReceiverInv, [ReceiverNext]_receiverVars PROVE ReceiverInv'
    OBVIOUS
  <2>1. CASE UNCHANGED receiverVars
    BY <2>1 DEF receiverVars, ReceiverInv, MgtInv, TodInv, EvInv,
         EventActionsStand, MarkersKept, OneTriggerEvent
  <2>2. MgtInv' \/ UNCHANGED mgt
    BY <2>1, MgtKeeps DEF ReceiverInv, ReceiverNext, receiverVars
  <2>3. TodInv' \/ UNCHANGED tod
    BY <2>1, TodKeeps DEF ReceiverInv, ReceiverNext, receiverVars
  <2>4. EvInv' \/ UNCHANGED evmap
    BY <2>1, EvKeeps DEF ReceiverInv, ReceiverNext, receiverVars
  <2>5. MgtInv'
    BY <2>2 DEF ReceiverInv, MgtInv
  <2>6. TodInv'
    BY <2>3 DEF ReceiverInv, TodInv
  <2>7. EvInv'
    BY <2>4 DEF ReceiverInv, EvInv, EventActionsStand, MarkersKept, OneTriggerEvent
  <2> QED BY <2>5, <2>6, <2>7 DEF ReceiverInv
<1> QED BY <1>1, <1>2, PTL DEF ReceiverSpec

(* However resets, losses and calls to the driver of the converters fell:  *)
(* unless the last synchronization failed, SYSREF is off and, whenever the *)
(* aligner is content, the converters have been synchronized since the     *)
(* last reset of the receiver and their last restart (mgt.c, rfadc.c).     *)
THEOREM AlignerSynchronizes == ReceiverSpec => []AlignedInStep
<1>1. ReceiverInv => AlignedInStep
  <2> SUFFICES ASSUME ReceiverInv PROVE AlignedInStep
    OBVIOUS
  <2>1. mgt \in Aligner /\ mgt.reset = (mgt.state = "hold") /\ InStep
    BY DEF ReceiverInv, MgtInv, Aligning, InStep, InForce
  <2>2. ReceiverTypeOK
    BY <2>1 DEF ReceiverInv, Aligner, AlignerStates, Boots, TodInv, Readers, Times, ReceiverTypeOK
  <2> QED BY <2>1, <2>2 DEF AlignedInStep
<1> QED BY <1>1, ReceiverInvariant, PTL

(* What evrCurrentTime returns was the time at some moment of the call,    *)
(* however many seconds begin during it and however short they are.        *)
THEOREM TimeIsReal == ReceiverSpec => []TimeWasReal
<1>1. ReceiverInv => TimeWasReal
  BY DEF ReceiverInv, TodInv, TimeWasReal
<1> QED BY <1>1, ReceiverInvariant, PTL

(* The markers keep their outputs and the event last selected starts an    *)
(* acquisition, for every set of events and any sequence of commands.      *)
THEOREM EventActionsAreKept == ReceiverSpec => []EventActionsStand
<1>1. ReceiverInv => EventActionsStand
  BY DEF ReceiverInv, EvInv
<1> QED BY <1>1, ReceiverInvariant, PTL

----------------------------------------------------------------------------
(* A time that crosses from one clock to the other is never torn and never *)
(* goes back, whatever the phase and the ratio of the clocks, and for any  *)
(* length of time.                                                         *)
ForwardTimes ==
  /\ timestamp_in \in Nat /\ timestamp_in_latched \in Nat /\ timestamp_out \in Nat
  /\ timestamp_out <= timestamp_in_latched /\ timestamp_in_latched <= timestamp_in

ForwardToggles ==
  /\ req_in \in BOOLEAN /\ ack_in \in BOOLEAN /\ req_out \in BOOLEAN /\ req_d_out \in BOOLEAN
  /\ inMoves \in BOOLEAN /\ outMoves \in BOOLEAN

(* Going round from req_in to req_out, req_d_out and ack_in, there is at   *)
(* most one change, and what moves is where it is.                         *)
OneChange ==
  /\ req_in # req_out => req_d_out = req_out /\ ack_in = req_d_out
  /\ req_out # req_d_out => ack_in = req_d_out
  /\ inMoves => req_in # req_out
  /\ outMoves => ack_in # req_d_out

ForwardInv == ForwardTimes /\ ForwardToggles /\ OneChange

LEMMA ForwardInitial == ForwardInit => ForwardInv
<1> SUFFICES ASSUME ForwardInit PROVE ForwardInv
  OBVIOUS
<1>1. ForwardTimes
  BY DEF ForwardInit, ForwardTimes
<1>2. ForwardToggles /\ OneChange
  BY Zenon DEF ForwardInit, ForwardToggles, OneChange
<1> QED BY <1>1, <1>2 DEF ForwardInv

(* A request under way cannot be latched over: that is what acknowledging  *)
(* the toggle after the word was taken is for.                             *)
LEMMA TakenWhenStill == ASSUME ForwardInv, Requested PROVE ~inMoves /\ ~MayLatch
BY DEF ForwardInv, ForwardToggles, OneChange, Requested, MayLatch

LEMMA InTimes ==
  ASSUME ForwardInv, InEdge
  PROVE  ForwardTimes' /\ timestamp_out' = timestamp_out /\ timestamp_in <= timestamp_in'
BY ForwardAssumption DEF ForwardInv, ForwardTimes, InEdge

LEMMA InToggles == ASSUME ForwardInv, InEdge PROVE ForwardToggles' /\ OneChange'
<1>1. /\ req_in' = IF MayLatch THEN ~req_in ELSE req_in
      /\ inMoves' = MayLatch /\ outMoves' = FALSE
      /\ req_out' = req_out /\ req_d_out' = req_d_out
  BY DEF InEdge
<1>2. ack_in' \in BOOLEAN /\ (ack_in' = req_d_out \/ (outMoves /\ ack_in' = ~req_d_out))
  BY DEF InEdge, Seen, Acknowledged, ForwardInv, ForwardToggles
<1>3. ForwardToggles'
  BY <1>1, <1>2 DEF ForwardInv, ForwardToggles, MayLatch
<1>4. CASE MayLatch
  <2>1. ~outMoves /\ req_in = req_out /\ req_out = req_d_out
    BY <1>4 DEF ForwardInv, ForwardToggles, OneChange, MayLatch
  <2>2. /\ req_in' = ~req_in /\ req_out' = req_in /\ req_d_out' = req_in /\ ack_in' = req_in
        /\ outMoves' = FALSE
    BY <1>1, <1>2, <1>4, <2>1
  <2>3. req_in' # req_out'
    BY <2>2 DEF ForwardInv, ForwardToggles
  <2> QED BY <1>3, <2>2, <2>3 DEF OneChange
<1>5. CASE ~MayLatch
  BY <1>1, <1>2, <1>3, <1>5 DEF ForwardInv, ForwardToggles, OneChange, MayLatch
<1> QED BY <1>3, <1>4, <1>5

LEMMA OutTimes ==
  ASSUME ForwardInv, OutEdge
  PROVE  ForwardTimes' /\ timestamp_out <= timestamp_out' /\ timestamp_in' = timestamp_in
BY TakenWhenStill DEF ForwardInv, ForwardTimes, OutEdge

LEMMA OutToggles == ASSUME ForwardInv, OutEdge PROVE ForwardToggles' /\ OneChange'
<1>1. /\ req_d_out' = req_out /\ outMoves' = Requested /\ inMoves' = FALSE
      /\ req_in' = req_in /\ ack_in' = ack_in
  BY DEF OutEdge
<1>2. req_out' \in BOOLEAN /\ (req_out' = req_in \/ (inMoves /\ req_out' = ~req_in))
  BY DEF OutEdge, Seen, ForwardInv, ForwardToggles
<1>3. ForwardToggles'
  BY <1>1, <1>2 DEF ForwardInv, ForwardToggles, Requested
<1>4. CASE Requested
  <2>1. ~inMoves /\ req_out' = req_in /\ req_in = req_out /\ ack_in # req_out
    BY <1>2, <1>4, TakenWhenStill DEF ForwardInv, ForwardToggles, OneChange, Requested
  <2> QED BY <1>1, <1>3, <1>4, <2>1 DEF OneChange
<1>5. CASE ~Requested
  BY <1>1, <1>2, <1>3, <1>5 DEF ForwardInv, ForwardToggles, OneChange, Requested
<1> QED BY <1>3, <1>4, <1>5

(* One edge of either clock: the invariant stands, and the time on the bus *)
(* is the one before or a later one that was at the input.                 *)
LEMMA ForwardStep ==
  ASSUME ForwardInv, [ForwardNext]_forwardVars
  PROVE  ForwardInv' /\ [timestamp_out' \in timestamp_out .. timestamp_in']_forwardVars
<1>1. CASE InEdge
  BY <1>1, InTimes, InToggles DEF ForwardInv, ForwardTimes
<1>2. CASE OutEdge
  BY <1>2, OutTimes, OutToggles DEF ForwardInv, ForwardTimes
<1>3. CASE UNCHANGED forwardVars
  BY <1>3 DEF forwardVars, ForwardInv, ForwardTimes, ForwardToggles, OneChange
<1> QED BY <1>1, <1>2, <1>3 DEF ForwardNext

(* The time on the bus, which the processor reads in two words, is never   *)
(* torn and never goes back, for clocks of any phase and ratio.            *)
THEOREM ForwardedInOrder == ForwardSpec => TimeGoesForward
<1>1. ForwardInit => ForwardInv
  BY ForwardInitial
<1>2. ForwardInv /\ [ForwardNext]_forwardVars => ForwardInv'
  BY ForwardStep
<1>3. ForwardInv /\ [ForwardNext]_forwardVars
        => [timestamp_out' \in timestamp_out .. timestamp_in']_forwardVars
  BY ForwardStep
<1> QED BY <1>1, <1>2, <1>3, PTL DEF ForwardSpec, TimeGoesForward

----------------------------------------------------------------------------
(* The receiver of the time of day.                                        *)
(*                                                                         *)
(* Powers of two, as the recursive function gives them.                    *)
Powers(g) == g = [n \in 0 .. Width |-> IF n = 0 THEN 1 ELSE 2 * g[n - 1]]
PowersTo(m, g) == g = [n \in 0 .. m |-> IF n = 0 THEN 1 ELSE 2 * g[n - 1]]

(* Powers up to any one exist.                                             *)
LEMMA PowersExist == \E g : Powers(g)
<1> DEFINE G == {m \in Nat : \E g : PowersTo(m, g)}
<1>1. 0 \in G
  <2>1. PICK g : g = [n \in 0 .. 0 |-> 1]
    OBVIOUS
  <2>2. PowersTo(0, g)
    BY <2>1 DEF PowersTo
  <2> QED BY <2>2
<1>2. ASSUME NEW m \in Nat, m \in G
      PROVE  m + 1 \in G
  <2>1. PICK g : PowersTo(m, g)
    BY <1>2
  <2>2. PICK h : h = [n \in 0 .. m + 1 |-> IF n = m + 1 THEN 2 * g[m] ELSE g[n]]
    OBVIOUS
  <2>3. \A n \in 0 .. m + 1 : h[n] = IF n = 0 THEN 1 ELSE 2 * h[n - 1]
    <3> TAKE n \in 0 .. m + 1
    <3>1. CASE n = m + 1
      <4>1. h[n - 1] = g[m] /\ h[n] = 2 * g[m] /\ n # 0
        BY <2>2, <3>1
      <4> QED BY <4>1
    <3>2. CASE n # m + 1
      <4>1. n \in 0 .. m /\ h[n] = g[n] /\ (n # 0 => h[n - 1] = g[n - 1])
        BY <2>2, <3>2
      <4>2. g[n] = IF n = 0 THEN 1 ELSE 2 * g[n - 1]
        BY <2>1, <4>1 DEF PowersTo
      <4> QED BY <4>1, <4>2
    <3> QED BY <3>1, <3>2
  <2>4. PowersTo(m + 1, h)
    BY <2>2, <2>3 DEF PowersTo
  <2> QED BY <2>4
<1> HIDE DEF G
<1>3. Width \in Nat
  BY TodAssumption
<1>4. Width \in G
  BY <1>1, <1>2, <1>3, Ground!SetInduction
<1> QED BY <1>4 DEF G, Powers, PowersTo

LEMMA PowerIs ==
  \A n \in 0 .. Width : Power[n] = IF n = 0 THEN 1 ELSE 2 * Power[n - 1]
<1>1. Powers(Power)
  BY PowersExist DEF Power, Powers
<1> QED BY <1>1 DEF Powers

LEMMA PowersAre ==
  /\ Width \in Nat \ {0} /\ Power[0] = 1
  /\ \A n \in 0 .. Width : Power[n] \in Nat \ {0}
  /\ \A n \in 0 .. Width - 1 : Power[n + 1] = 2 * Power[n]
<1>1. Width \in Nat \ {0}
  BY TodAssumption
<1>2. Power[0] = 1
  BY <1>1, PowerIs
<1>3. \A n \in 0 .. Width - 1 : Power[n + 1] = 2 * Power[n]
  <2> TAKE n \in 0 .. Width - 1
  <2>1. n + 1 \in 0 .. Width /\ n + 1 # 0 /\ (n + 1) - 1 = n
    BY <1>1
  <2> QED BY <2>1, PowerIs
<1> DEFINE G == {n \in Nat : n \in 0 .. Width => Power[n] \in Nat \ {0}}
<1>4. 0 \in G
  BY <1>2
<1>5. ASSUME NEW m \in Nat, m \in G
      PROVE  m + 1 \in G
  <2> SUFFICES ASSUME m + 1 \in 0 .. Width PROVE Power[m + 1] \in Nat \ {0}
    OBVIOUS
  <2>1. m \in 0 .. Width - 1 /\ Power[m] \in Nat \ {0}
    BY <1>1, <1>5
  <2> QED BY <1>3, <2>1
<1> HIDE DEF G
<1>6. Nat \subseteq G
  BY <1>4, <1>5, Ground!SetInduction
<1>7. \A n \in 0 .. Width : Power[n] \in Nat \ {0}
  BY <1>6 DEF G
<1> QED BY <1>1, <1>2, <1>3, <1>7

LEMMA PowersMultiply ==
  \A n \in 0 .. Width : Power[n] * Power[Width - n] = Modulus
<1> DEFINE G == {n \in Nat : n \in 0 .. Width => Power[n] * Power[Width - n] = Modulus}
<1>1. 0 \in G
  BY PowersAre DEF Modulus
<1>2. ASSUME NEW m \in Nat, m \in G
      PROVE  m + 1 \in G
  <2> SUFFICES ASSUME m + 1 \in 0 .. Width PROVE Power[m + 1] * Power[Width - (m + 1)] = Modulus
    OBVIOUS
  <2>1. m \in 0 .. Width - 1 /\ Width - (m + 1) \in 0 .. Width - 1 /\ (Width - (m + 1)) + 1 = Width - m
    BY PowersAre
  <2>2. Power[m + 1] = 2 * Power[m] /\ Power[Width - m] = 2 * Power[Width - (m + 1)]
    BY <2>1, PowersAre
  <2>3. PICK a \in Nat, b \in Nat : a = Power[m] /\ b = Power[Width - (m + 1)]
    BY <2>1, PowersAre
  <2>4. a * (2 * b) = Modulus
    <3>1. m \in 0 .. Width
      BY <2>1, PowersAre
    <3>2. Power[m] * Power[Width - m] = Modulus
      BY <1>2, <3>1
    <3> QED BY <2>2, <2>3, <3>2
  <2>5. (2 * a) * b = a * (2 * b)
    OBVIOUS
  <2> QED BY <2>2, <2>3, <2>4, <2>5
<1> HIDE DEF G
<1>3. Nat \subseteq G
  BY <1>1, <1>2, Ground!SetInduction
<1> QED BY <1>3 DEF G

(* Division has one quotient and one rest.                                 *)
LEMMA QuotientRest ==
  ASSUME NEW r \in Nat \ {0}, NEW a \in Int
  PROVE  a = r * (a \div r) + (a % r) /\ a % r \in 0 .. r - 1 /\ a \div r \in Int
OBVIOUS

LEMMA OneQuotient ==
  ASSUME NEW r \in Nat \ {0}, NEW a \in Int, NEW q \in Int, NEW s \in 0 .. r - 1, a = r * q + s
  PROVE  a \div r = q /\ a % r = s
<1>1. a = r * (a \div r) + (a % r) /\ a % r \in 0 .. r - 1 /\ a \div r \in Int
  OBVIOUS
<1>2. PICK d \in Int, t \in 0 .. r - 1 : d = a \div r /\ t = a % r
  BY <1>1
<1>3. r * q + s = r * d + t
  BY <1>1, <1>2
<1>4. r * (q - d) = t - s
  BY <1>3
<1>5. q - d = 0
  <2>1. CASE q - d >= 1
    <3>1. r * (q - d) >= r
      BY <2>1
    <3> QED BY <1>4, <3>1
  <2>2. CASE q - d <= -1
    <3>1. r * (q - d) <= -r
      BY <2>2
    <3> QED BY <1>4, <2>2, <3>1
  <2> QED BY <2>1, <2>2
<1>6. q = d /\ s = t
  BY <1>3, <1>5
<1> QED BY <1>2, <1>6

(* One more bit: what has been shifted in is what has been sent.           *)
HasSent(x, m, n, k) == x % m = n \div k
WithNext(x, n, k, w) == (2 * x + ((n \div k) % 2)) % w
LEMMA ShiftStep ==
  ASSUME NEW m \in Nat \ {0}, NEW k \in Nat \ {0}, NEW w \in Nat \ {0}, w = (2 * m) * k,
         NEW x \in Nat, NEW n \in 0 .. w - 1,
         HasSent(x, m, n, 2 * k)
  PROVE  HasSent(WithNext(x, n, k, w), 2 * m, n, k)
<1>1. PICK q \in Int, a \in 0 .. m - 1 : x = m * q + a /\ a = x % m
  <2>1. x \in Int
    OBVIOUS
  <2>2. x = m * (x \div m) + (x % m) /\ x % m \in 0 .. m - 1 /\ x \div m \in Int
    BY <2>1, QuotientRest, Zenon
  <2> QED BY <2>2, Zenon
<1>2. PICK g \in Nat \ {0}, h \in Nat \ {0} : g = 2 * k /\ h = 2 * m
  OBVIOUS
<1>3. PICK c \in 0 .. g - 1 : n = g * a + c
  <2>1. n \in Int /\ n \div g = a
    BY <1>1, <1>2 DEF HasSent
  <2> QED BY <2>1, QuotientRest
<1>4. PICK e \in 0 .. 1, f \in 0 .. k - 1 : c = k * e + f
  <2>1. CASE c < k
    BY <2>1
  <2>2. CASE c >= k
    <3>1. c - k \in 0 .. k - 1 /\ c = k * 1 + (c - k)
      BY <1>2, <2>2
    <3> QED BY <3>1
  <2> QED BY <2>1, <2>2
<1>5. PICK b \in 0 .. h - 1 : b = 2 * a + e
  BY <1>2
<1>6. n = k * b + f
  <2>1. g * a = k * (2 * a)
    BY <1>2
  <2>2. k * (2 * a + e) = k * (2 * a) + k * e
    OBVIOUS
  <2> QED BY <1>3, <1>4, <1>5, <2>1, <2>2
<1>7. n \div k = b
  <2>1. n \in Int /\ b \in Int
    OBVIOUS
  <2> QED BY <1>6, <2>1, OneQuotient
<1>8. b % 2 = e
  BY <1>5, OneQuotient
<1>9. PICK z \in Int : z = 2 * x + e
  OBVIOUS
<1>10. PICK p \in Int, y \in Int : z = w * p + y /\ y = z % w
  <2>1. z = w * (z \div w) + (z % w) /\ z % w \in 0 .. w - 1 /\ z \div w \in Int
    BY QuotientRest, Zenon
  <2>2. z % w \in Int
    BY <2>1
  <2> QED BY <2>1, <2>2, Zenon
<1>11. y = h * (q - k * p) + b
  <2>1. w * p = h * (k * p)
    BY <1>2
  <2>2. z = h * q + b
    <3>1. PICK i \in Int : i = m * q
      OBVIOUS
    <3>2. h * q = 2 * i
      BY <1>2, <3>1
    <3>3. z = 2 * (i + a) + e
      BY <1>1, <1>9, <3>1
    <3> QED BY <1>5, <3>2, <3>3
  <2>3. h * (q - k * p) = h * q - h * (k * p)
    <3>1. PICK i \in Int : i = k * p
      OBVIOUS
    <3>2. h * (q - i) = h * q - h * i
      OBVIOUS
    <3> QED BY <3>1, <3>2
  <2> QED BY <1>10, <2>1, <2>2, <2>3
<1>12. y % h = b
  <2>1. q - k * p \in Int
    OBVIOUS
  <2> QED BY <1>11, <2>1, OneQuotient
<1>13. (2 * x + ((n \div k) % 2)) % w = y
  <2>1. 2 * x + ((n \div k) % 2) = z
    BY <1>7, <1>8, <1>9, Zenon
  <2> QED BY <1>10, <2>1
<1> QED BY <1>2, <1>7, <1>12, <1>13 DEF HasSent, WithNext

(* The registers are of their kinds, whatever happens.                     *)
Seconds == 0 .. Modulus - 1
RxKind == [seconds : Seconds, expectSeconds : Seconds, shiftReg : Seconds, bitsLeft : 0 .. Width - 1,
           enoughBits : BOOLEAN, tooManyBits : BOOLEAN, secondsValid : BOOLEAN]
TxKind == [sec : Seconds, sent : 0 .. Width, clean : BOOLEAN, whole : 0 .. 2, overdue : BOOLEAN,
           disturbed : Nat]
Typed == rx \in RxKind /\ tx \in TxKind

(* The register holds the bits sent, of the next second.                   *)
Follows(r, t) ==
  /\ r.shiftReg % Power[t.sent] = Next1(t.sec) \div Power[Width - t.sent]
  /\ r.bitsLeft = (Width - 1 - t.sent) % Width

(* What undisturbed seconds leave.                                         *)
Clean(r, t) ==
  /\ t.clean => Follows(r, t) /\ r.enoughBits = (t.sent = Width) /\ ~r.tooManyBits
  /\ t.whole > 0 => t.clean /\ r.expectSeconds = Next1(t.sec)
  /\ t.whole = 2 => r.seconds = t.sec

(* What is left when no marker was lost: a register that has missed a bit  *)
(* of this second is not full.                                             *)
Marked(r, t) ==
  /\ ~t.overdue
  /\ \/ Follows(r, t) /\ (r.enoughBits => t.sent = Width)
     \/ ~r.enoughBits /\ r.bitsLeft > Width - 1 - t.sent
  /\ r.secondsValid => r.seconds = t.sec

LEMMA ModulusIs == Modulus \in Nat \ {0} /\ Width \in Nat \ {0}
BY PowersAre DEF Modulus

LEMMA NextIs == \A s \in Seconds : Next1(s) \in Seconds
<1> SUFFICES ASSUME NEW s \in Seconds PROVE Next1(s) \in Seconds
  OBVIOUS
<1>1. s + 1 \in Int
  BY ModulusIs DEF Seconds
<1>2. (s + 1) % Modulus \in 0 .. Modulus - 1
  BY <1>1, ModulusIs, QuotientRest
<1> QED BY <1>2 DEF Next1, Seconds

LEMMA HalfIs == Modulus \div 2 \in Nat /\ StartSeconds \subseteq Seconds
<1>1. Modulus \div 2 \in Nat
  BY ModulusIs
<1>2. StartSeconds \subseteq Modulus \div 2 .. Modulus - 1
  BY TodAssumption
<1> QED BY <1>1, <1>2, ModulusIs DEF Seconds

(* The bit that is sent, and what is shifted in.                           *)
LEMMA ShiftedIs ==
  ASSUME NEW r \in RxKind, NEW bit \in 0 .. 1, NEW q, q = ShiftIn(r, bit)
  PROVE  /\ q \in RxKind
         /\ q.shiftReg = (2 * r.shiftReg + bit) % Modulus /\ q.bitsLeft = (r.bitsLeft - 1) % Width
         /\ q.enoughBits = (r.enoughBits \/ r.bitsLeft = 0)
         /\ q.tooManyBits = (r.tooManyBits \/ r.enoughBits)
         /\ q.seconds = r.seconds /\ q.expectSeconds = r.expectSeconds
         /\ q.secondsValid = r.secondsValid
<1>1. r.shiftReg \in Nat /\ r.bitsLeft \in Int
  BY ModulusIs DEF RxKind, Seconds
<1>2. 2 * r.shiftReg + bit \in Int /\ r.bitsLeft - 1 \in Int
  BY <1>1
<1>3. PICK x : x = (2 * r.shiftReg + bit) % Modulus
  OBVIOUS
<1>4. PICK y : y = (r.bitsLeft - 1) % Width
  OBVIOUS
<1>5. x \in Seconds
  BY <1>2, <1>3, ModulusIs, QuotientRest DEF Seconds
<1>6. y \in 0 .. Width - 1
  BY <1>2, <1>4, ModulusIs, QuotientRest
<1>7. PICK e \in BOOLEAN : e = (r.enoughBits \/ r.bitsLeft = 0)
  OBVIOUS
<1>8. PICK m \in BOOLEAN : m = (r.tooManyBits \/ r.enoughBits)
  OBVIOUS
<1>9. q = [r EXCEPT !.bitsLeft = y, !.tooManyBits = m, !.enoughBits = e, !.shiftReg = x]
  BY <1>3, <1>4, <1>7, <1>8 DEF ShiftIn, OneTooMany
<1>10. /\ q \in RxKind /\ q.shiftReg = x /\ q.bitsLeft = y /\ q.enoughBits = e /\ q.tooManyBits = m
       /\ q.seconds = r.seconds /\ q.expectSeconds = r.expectSeconds
       /\ q.secondsValid = r.secondsValid
  BY <1>5, <1>6, <1>9 DEF RxKind
<1> QED BY <1>3, <1>4, <1>7, <1>8, <1>10

LEMMA BitsFollow ==
  ASSUME NEW r \in RxKind, NEW t \in TxKind, t.sent < Width, Follows(r, t),
         NEW bit, bit = (Next1(t.sec) \div Power[Width - 1 - t.sent]) % 2,
         NEW q, q = ShiftIn(r, bit), NEW u, u.sec = t.sec, u.sent = t.sent + 1
  PROVE  Follows(q, u) /\ r.bitsLeft = Width - 1 - t.sent
<1>1. PICK k \in 0 .. Width - 1 : k = t.sent
  BY ModulusIs DEF TxKind
<1>2. PICK n \in Seconds : n = Next1(t.sec)
  BY NextIs DEF TxKind
<1>3. PICK j \in 0 .. Width - 1 : j = Width - 1 - k
  BY ModulusIs
<1>4. PICK a \in Nat \ {0}, b \in Nat \ {0} : a = Power[k] /\ b = Power[j]
  BY PowersAre
<1>5. Power[k + 1] = 2 * a /\ Power[Width - k] = 2 * b /\ Power[Width - (k + 1)] = b
  <2>1. Width - k = j + 1 /\ Width - (k + 1) = j
    BY <1>3, ModulusIs
  <2> QED BY <1>4, <2>1, PowersAre
<1>6. Modulus = (2 * a) * b
  <2>1. k + 1 \in 0 .. Width
    BY ModulusIs
  <2> QED BY <1>5, <2>1, PowersMultiply
<1>7. PICK x \in Nat : x = r.shiftReg
  BY ModulusIs DEF RxKind, Seconds
<1>8. x % a = n \div (2 * b)
  BY <1>1, <1>2, <1>4, <1>5, <1>7 DEF Follows
<1>9. PICK w \in Nat \ {0} : w = Modulus
  BY ModulusIs
<1>10. n \in 0 .. w - 1
  BY <1>9 DEF Seconds
<1>11. ((2 * x + ((n \div b) % 2)) % w) % (2 * a) = n \div b
  <2>1. w = (2 * a) * b
    BY <1>6, <1>9
  <2>2. HasSent(x, a, n, 2 * b)
    BY <1>8 DEF HasSent
  <2>3. HasSent(WithNext(x, n, b, w), 2 * a, n, b)
    BY <1>10, <2>1, <2>2, ShiftStep
  <2> QED BY <2>3 DEF HasSent, WithNext
<1>12. bit = (n \div b) % 2 /\ bit \in 0 .. 1
  <2>1. bit = (n \div b) % 2
    BY <1>1, <1>2, <1>3, <1>4
  <2>2. n \div b \in Int
    BY <1>10, QuotientRest
  <2>3. (n \div b) % 2 \in 0 .. 1
    BY <2>2
  <2> QED BY <2>1, <2>3
<1>13. q.shiftReg = (2 * x + ((n \div b) % 2)) % w /\ q.bitsLeft = (r.bitsLeft - 1) % Width
  BY <1>7, <1>9, <1>12, ShiftedIs
<1>14. r.bitsLeft = j
  <2>1. j % Width = j
    BY ModulusIs
  <2> QED BY <1>1, <1>3, <2>1 DEF Follows
<1>15. u.sent = k + 1 /\ u.sec = t.sec
  BY <1>1
<1>16. q.shiftReg % Power[u.sent] = Next1(u.sec) \div Power[Width - u.sent]
  BY <1>2, <1>5, <1>11, <1>13, <1>15
<1>17. q.bitsLeft = (Width - 1 - u.sent) % Width
  <2>1. j - 1 = Width - 1 - (k + 1)
    BY <1>3, ModulusIs
  <2> QED BY <1>13, <1>14, <1>15, <2>1
<1> QED BY <1>1, <1>3, <1>14, <1>16, <1>17 DEF Follows

(* A register with all the bits holds the next second.                     *)
LEMMA AllFollowed ==
  ASSUME NEW r \in RxKind, NEW t \in TxKind, t.sent = Width, Follows(r, t)
  PROVE  r.shiftReg = Next1(t.sec)
<1>1. Power[Width - Width] = 1 /\ Power[Width] = Modulus
  BY PowersAre DEF Modulus
<1>2. r.shiftReg \in Seconds /\ Next1(t.sec) \in Seconds
  BY NextIs DEF RxKind, TxKind
<1>3. r.shiftReg % Modulus = Next1(t.sec) \div 1
  BY <1>1 DEF Follows
<1>4. \A x \in Seconds : x % Modulus = x /\ x \div 1 = x
  BY ModulusIs DEF Seconds
<1> QED BY <1>2, <1>3, <1>4

(* A second begins with no bit sent, and none is asked of the register.    *)
LEMMA NothingFollows ==
  ASSUME NEW r \in RxKind, NEW t, t.sent = 0, t.sec \in Seconds, r.bitsLeft = Width - 1
  PROVE  Follows(r, t)
<1>1. Power[0] = 1 /\ Power[Width] = Modulus
  BY PowersAre DEF Modulus
<1>2. PICK n \in Seconds : n = Next1(t.sec)
  BY NextIs
<1>3. n \div Modulus = 0
  BY ModulusIs DEF Seconds
<1>4. r.shiftReg % 1 = 0
  <2>1. r.shiftReg \in Int
    BY ModulusIs DEF RxKind, Seconds
  <2> QED BY <2>1
<1>5. (Width - 1 - 0) % Width = Width - 1 /\ Width - 0 = Width
  BY ModulusIs
<1> QED BY <1>1, <1>2, <1>3, <1>4, <1>5 DEF Follows

LEMMA BitIs == tx \in TxKind /\ tx.sent < Width => NextBit \in 0 .. 1
<1> SUFFICES ASSUME tx \in TxKind, tx.sent < Width PROVE NextBit \in 0 .. 1
  OBVIOUS
<1>1. Width - 1 - tx.sent \in 0 .. Width
  BY ModulusIs DEF TxKind
<1>2. PICK p \in Nat \ {0} : p = Power[Width - 1 - tx.sent]
  BY <1>1, PowersAre
<1>3. PICK n \in Int : n = Next1(tx.sec)
  BY NextIs, ModulusIs DEF TxKind, Seconds
<1>4. n \div p \in Int
  BY QuotientRest
<1>5. (n \div p) % 2 \in 0 .. 1
  BY <1>4
<1> QED BY <1>2, <1>3, <1>5 DEF NextBit

LEMMA DisturbedIs ==
  ASSUME NEW t \in TxKind, NEW u, u = Disturbed(t)
  PROVE  /\ u \in TxKind /\ u.clean = FALSE /\ u.whole = 0
         /\ u.sec = t.sec /\ u.sent = t.sent /\ u.overdue = t.overdue
<1>1. PICK n \in Nat : n = t.disturbed + 1
  BY DEF TxKind
<1>2. PICK f \in BOOLEAN : f = FALSE
  OBVIOUS
<1>3. PICK a : a = [t EXCEPT !.disturbed = n]
  OBVIOUS
<1>4. a \in TxKind /\ a.sec = t.sec /\ a.sent = t.sent /\ a.overdue = t.overdue
  BY <1>3 DEF TxKind
<1>5. PICK b : b = [a EXCEPT !.clean = f]
  OBVIOUS
<1>6. b \in TxKind /\ b.clean = f /\ b.sec = t.sec /\ b.sent = t.sent /\ b.overdue = t.overdue
  BY <1>4, <1>5 DEF TxKind
<1>7. u = [b EXCEPT !.whole = 0]
  BY <1>1, <1>2, <1>3, <1>5 DEF Disturbed, TxKind
<1>8. /\ u \in TxKind /\ u.clean = f /\ u.whole = 0
      /\ u.sec = t.sec /\ u.sent = t.sent /\ u.overdue = t.overdue
  BY <1>6, <1>7 DEF TxKind
<1> QED BY <1>2, <1>8

(* The marker: a whole register goes over to the seconds when it is the    *)
(* one that was expected.                                                  *)
LEMMA StrobeIs ==
  ASSUME NEW r \in RxKind, NEW q, q = ppsStrobe(r)
  PROVE  /\ q \in RxKind /\ q.bitsLeft = Width - 1 /\ q.enoughBits = FALSE /\ q.tooManyBits = FALSE
         /\ q.shiftReg = r.shiftReg
         /\ Whole(r) => q.expectSeconds = Next1(r.shiftReg)
         /\ Taken(r) => q.seconds = r.shiftReg
         /\ ~Taken(r) /\ r.secondsValid => q.seconds = Next1(r.seconds)
         /\ q.secondsValid => r.secondsValid \/ Taken(r)
<1>1. PICK e \in Seconds : /\ e = IF Whole(r) THEN Next1(r.shiftReg) ELSE r.expectSeconds
  BY NextIs DEF RxKind
<1>2. PICK s \in Seconds : s = SecondsAfter(r)
  BY NextIs DEF RxKind, SecondsAfter
<1>3. PICK v \in BOOLEAN : v = (r.secondsValid \/ Taken(r))
  OBVIOUS
<1>4. q = [r EXCEPT !.expectSeconds = e, !.seconds = s, !.secondsValid = v,
                    !.bitsLeft = Width - 1, !.enoughBits = FALSE, !.tooManyBits = FALSE]
  BY <1>1, <1>2, <1>3 DEF ppsStrobe
<1>5. Width - 1 \in 0 .. Width - 1
  BY ModulusIs
<1>6. /\ q \in RxKind /\ q.bitsLeft = Width - 1 /\ q.enoughBits = FALSE /\ q.tooManyBits = FALSE
      /\ q.shiftReg = r.shiftReg /\ q.expectSeconds = e /\ q.seconds = s /\ q.secondsValid = v
  BY <1>4, <1>5 DEF RxKind
<1> QED BY <1>1, <1>2, <1>3, <1>6 DEF SecondsAfter

(* What begins a second, in tx.                                            *)
LEMMA BegunIs ==
  ASSUME NEW t \in TxKind, NEW u, u = Begun(t)
  PROVE  /\ u \in TxKind /\ u.sec = Next1(t.sec) /\ u.sent = 0
         /\ u.clean = t.clean /\ u.whole = t.whole /\ u.overdue = t.overdue
<1>1. PICK n \in Seconds : n = Next1(t.sec)
  BY NextIs DEF TxKind
<1>2. u = [t EXCEPT !.sec = n, !.sent = 0] /\ 0 \in 0 .. Width
  BY <1>1, ModulusIs DEF Begun
<1> QED BY <1>1, <1>2 DEF TxKind

----------------------------------------------------------------------------
(* Every step, of the kinds and of what undisturbed seconds leave.         *)
RxInv == Typed /\ Clean(rx, tx)

LEMMA RxInitial == RxInit => RxInv /\ Marked(rx, tx)
<1> SUFFICES ASSUME NEW sec \in StartSeconds, NEW bits \in 0 .. Modulus - 1, NEW sent \in 0 .. Width,
                    rx = [seconds |-> 0, expectSeconds |-> 0, shiftReg |-> bits,
                          bitsLeft |-> Width - 1, enoughBits |-> FALSE, tooManyBits |-> FALSE,
                          secondsValid |-> FALSE],
                    tx = [sec |-> sec, sent |-> sent, clean |-> FALSE, whole |-> 0,
                          overdue |-> FALSE, disturbed |-> 0]
             PROVE  RxInv /\ Marked(rx, tx)
  BY DEF RxInit
<1>1. sec \in Seconds /\ bits \in Seconds /\ 0 \in Seconds /\ Width - 1 \in 0 .. Width - 1
  BY HalfIs, ModulusIs DEF Seconds
<1>2. rx \in RxKind /\ tx \in TxKind
  BY <1>1 DEF RxKind, TxKind
<1>3. Clean(rx, tx)
  BY DEF Clean
<1>4. Marked(rx, tx)
  <2>1. CASE sent = 0
    <3>1. Follows(rx, tx)
      BY <1>1, <1>2, <2>1, NothingFollows
    <3> QED BY <3>1 DEF Marked
  <2>2. CASE sent # 0
    <3>1. Width - 1 > Width - 1 - sent
      BY <2>2, ModulusIs
    <3> QED BY <3>1 DEF Marked
  <2> QED BY <2>1, <2>2
<1> QED BY <1>2, <1>3, <1>4 DEF RxInv, Typed

(* One bit more is sent.                                                   *)
LEMMA SentIs ==
  ASSUME NEW t \in TxKind, t.sent < Width, NEW u, u = [t EXCEPT !.sent = @ + 1]
  PROVE  /\ u \in TxKind /\ u.sent = t.sent + 1 /\ u.sec = t.sec
         /\ u.clean = t.clean /\ u.whole = t.whole /\ u.overdue = t.overdue
<1>1. PICK n \in 0 .. Width : n = t.sent + 1
  BY ModulusIs DEF TxKind
<1>2. u = [t EXCEPT !.sent = n]
  BY <1>1
<1> QED BY <1>1, <1>2 DEF TxKind

LEMMA BitKeeps ==
  ASSUME Typed, Bit
  PROVE  /\ Typed' /\ (Clean(rx, tx) => Clean(rx', tx'))
         /\ Marked(rx, tx) => Marked(rx', tx')
<1>1. rx \in RxKind /\ tx \in TxKind /\ tx.sent < Width
  BY DEF Typed, Bit
<1>2. PICK b \in 0 .. 1 : b = NextBit
  BY <1>1, BitIs
<1>3. PICK q : q = ShiftIn(rx, b)
  OBVIOUS
<1>4. PICK u : u = [tx EXCEPT !.sent = @ + 1]
  OBVIOUS
<1>5. rx' = q /\ tx' = u
  BY <1>2, <1>3, <1>4 DEF Bit
<1>6. /\ q \in RxKind /\ q.bitsLeft = (rx.bitsLeft - 1) % Width
      /\ q.enoughBits = (rx.enoughBits \/ rx.bitsLeft = 0)
      /\ q.tooManyBits = (rx.tooManyBits \/ rx.enoughBits)
      /\ q.seconds = rx.seconds /\ q.expectSeconds = rx.expectSeconds
      /\ q.secondsValid = rx.secondsValid
  BY <1>1, <1>3, ShiftedIs
<1>7. /\ u \in TxKind /\ u.sent = tx.sent + 1 /\ u.sec = tx.sec
      /\ u.clean = tx.clean /\ u.whole = tx.whole /\ u.overdue = tx.overdue
  BY <1>1, <1>4, SentIs
<1>8. tx.sent \in 0 .. Width /\ Width \in Nat \ {0}
  BY <1>1, ModulusIs DEF TxKind
<1>9. Follows(rx, tx) => Follows(q, u) /\ rx.bitsLeft = Width - 1 - tx.sent
  BY <1>1, <1>2, <1>3, <1>7, BitsFollow DEF NextBit
<1>10. Clean(rx, tx) => Clean(q, u)
  <2> SUFFICES ASSUME Clean(rx, tx) PROVE Clean(q, u)
    OBVIOUS
  <2>1. u.clean => Follows(q, u) /\ q.enoughBits = (u.sent = Width) /\ ~q.tooManyBits
    <3> SUFFICES ASSUME u.clean
                 PROVE  Follows(q, u) /\ q.enoughBits = (u.sent = Width) /\ ~q.tooManyBits
      OBVIOUS
    <3>1. Follows(rx, tx) /\ rx.enoughBits = (tx.sent = Width) /\ ~rx.tooManyBits
      BY <1>7 DEF Clean
    <3>2. ~rx.enoughBits
      <4>1. tx.sent # Width
        BY <1>1, <1>8
      <4> QED BY <3>1, <4>1, Zenon
    <3>3. Follows(q, u) /\ rx.bitsLeft = Width - 1 - tx.sent
      BY <1>9, <3>1
    <3>4. rx.bitsLeft = 0 <=> u.sent = Width
      BY <1>7, <1>8, <3>3
    <3>5. q.enoughBits = (u.sent = Width)
      BY <1>6, <3>2, <3>4
    <3>6. ~q.tooManyBits
      BY <1>6, <3>1, <3>2
    <3> QED BY <3>3, <3>5, <3>6
  <2>2. u.whole > 0 => u.clean /\ q.expectSeconds = Next1(u.sec)
    BY <1>6, <1>7 DEF Clean
  <2>3. u.whole = 2 => q.seconds = u.sec
    BY <1>6, <1>7 DEF Clean
  <2> QED BY <2>1, <2>2, <2>3 DEF Clean
<1>11. Marked(rx, tx) => Marked(q, u)
  <2> SUFFICES ASSUME Marked(rx, tx) PROVE Marked(q, u)
    OBVIOUS
  <2>1. \/ Follows(q, u) /\ (q.enoughBits => u.sent = Width)
        \/ ~q.enoughBits /\ q.bitsLeft > Width - 1 - u.sent
    <3>1. CASE Follows(rx, tx) /\ (rx.enoughBits => tx.sent = Width)
      <4>1. Follows(q, u) /\ rx.bitsLeft = Width - 1 - tx.sent
        BY <1>9, <3>1
      <4>2. ~rx.enoughBits
        BY <1>1, <1>8, <3>1
      <4>3. rx.bitsLeft = 0 => u.sent = Width
        BY <1>7, <1>8, <4>1
      <4>4. q.enoughBits => u.sent = Width
        BY <1>6, <4>2, <4>3, Zenon
      <4> QED BY <4>1, <4>4
    <3>2. CASE ~rx.enoughBits /\ rx.bitsLeft > Width - 1 - tx.sent
      <4>1. rx.bitsLeft \in 1 .. Width - 1
        BY <1>1, <1>8, <3>2 DEF RxKind
      <4>2. (rx.bitsLeft - 1) % Width = rx.bitsLeft - 1
        BY <1>8, <4>1
      <4>3. ~q.enoughBits
        <5>1. rx.bitsLeft # 0
          BY <4>1
        <5> QED BY <1>6, <3>2, <5>1, Zenon
      <4>4. q.bitsLeft > Width - 1 - u.sent
        BY <1>6, <1>7, <1>8, <3>2, <4>1, <4>2
      <4> QED BY <4>3, <4>4
    <3> QED BY <3>1, <3>2 DEF Marked
  <2>2. ~u.overdue /\ (q.secondsValid => q.seconds = u.sec)
    BY <1>6, <1>7 DEF Marked
  <2> QED BY <2>1, <2>2 DEF Marked
<1> QED BY <1>5, <1>6, <1>7, <1>10, <1>11 DEF Typed

LEMMA BitLostKeeps ==
  ASSUME Typed, BitLost
  PROVE  /\ Typed' /\ (Clean(rx, tx) => Clean(rx', tx'))
         /\ Marked(rx, tx) => Marked(rx', tx')
<1>1. rx \in RxKind /\ tx \in TxKind /\ tx.sent < Width
  BY DEF Typed, BitLost
<1>2. PICK u : u = [tx EXCEPT !.sent = @ + 1]
  OBVIOUS
<1>3. PICK v : v = Disturbed(u)
  OBVIOUS
<1>4. rx' = rx /\ tx' = v
  BY <1>2, <1>3 DEF BitLost
<1>5. u \in TxKind /\ u.sent = tx.sent + 1 /\ u.sec = tx.sec /\ u.overdue = tx.overdue
  BY <1>1, <1>2, SentIs
<1>6. /\ v \in TxKind /\ v.clean = FALSE /\ v.whole = 0
      /\ v.sec = tx.sec /\ v.sent = tx.sent + 1 /\ v.overdue = tx.overdue
  BY <1>3, <1>5, DisturbedIs
<1>7. Clean(rx, v)
  BY <1>6 DEF Clean
<1>8. tx.sent \in 0 .. Width /\ Width \in Nat \ {0}
  BY <1>1, ModulusIs DEF TxKind
<1>9. Marked(rx, tx) => Marked(rx, v)
  <2> SUFFICES ASSUME Marked(rx, tx) PROVE Marked(rx, v)
    OBVIOUS
  <2>1. ~rx.enoughBits /\ rx.bitsLeft > Width - 1 - v.sent
    <3>1. CASE Follows(rx, tx) /\ (rx.enoughBits => tx.sent = Width)
      <4>1. ~rx.enoughBits
        BY <1>1, <1>8, <3>1
      <4>2. (Width - 1 - tx.sent) % Width = Width - 1 - tx.sent
        BY <1>1, <1>8
      <4>3. rx.bitsLeft = Width - 1 - tx.sent
        BY <3>1, <4>2 DEF Follows
      <4> QED BY <1>6, <1>8, <4>1, <4>3
    <3>2. CASE ~rx.enoughBits /\ rx.bitsLeft > Width - 1 - tx.sent
      <4>1. rx.bitsLeft \in Int
        BY <1>1 DEF RxKind
      <4> QED BY <1>6, <1>8, <3>2, <4>1
    <3> QED BY <3>1, <3>2 DEF Marked
  <2> QED BY <1>6, <2>1 DEF Marked
<1> QED BY <1>1, <1>4, <1>6, <1>7, <1>9 DEF Typed

LEMMA MarkerKeeps ==
  ASSUME Typed, Marker
  PROVE  /\ Typed' /\ (Clean(rx, tx) => Clean(rx', tx'))
         /\ Marked(rx, tx) => Marked(rx', tx')
<1>1. rx \in RxKind /\ tx \in TxKind /\ tx.sent = Width /\ ~tx.overdue
  BY DEF Typed, Marker
<1>2. PICK q : q = ppsStrobe(rx)
  OBVIOUS
<1>3. PICK u : u = Begun(tx)
  OBVIOUS
<1>4. PICK w : w = IF ~tx.clean THEN 0 ELSE IF tx.whole < 2 THEN tx.whole + 1 ELSE tx.whole
  OBVIOUS
<1>5. PICK f \in BOOLEAN : f = TRUE
  OBVIOUS
<1>6. /\ u \in TxKind /\ u.sec = Next1(tx.sec) /\ u.sent = 0
      /\ u.whole = tx.whole /\ u.overdue = tx.overdue
  BY <1>1, <1>3, BegunIs
<1>7. PICK a : a = [u EXCEPT !.clean = f]
  OBVIOUS
<1>8. /\ a \in TxKind /\ a.clean = f /\ a.sec = Next1(tx.sec) /\ a.sent = 0
      /\ a.whole = tx.whole /\ a.overdue = tx.overdue
  BY <1>6, <1>7 DEF TxKind
<1>9. w \in 0 .. 2
  <2>1. tx.whole \in 0 .. 2
    BY <1>1 DEF TxKind
  <2> QED BY <1>4, <2>1
<1>10. PICK v : v = [a EXCEPT !.whole = w]
  OBVIOUS
<1>11. /\ v \in TxKind /\ v.clean = TRUE /\ v.sec = Next1(tx.sec) /\ v.sent = 0
       /\ v.whole = w /\ v.overdue = tx.overdue
  BY <1>5, <1>8, <1>9, <1>10 DEF TxKind
<1>12. rx' = q /\ tx' = v
  <2>1. tx' = [u EXCEPT !.clean = TRUE,
                        !.whole = IF ~tx.clean THEN 0 ELSE IF u.whole < 2 THEN u.whole + 1 ELSE u.whole]
    BY <1>3 DEF Marker
  <2>2. v = [u EXCEPT !.clean = f, !.whole = w]
    BY <1>7, <1>10, <1>6 DEF TxKind
  <2> QED BY <1>2, <1>4, <1>5, <1>6, <2>1, <2>2 DEF Marker
<1>13. /\ q \in RxKind /\ q.bitsLeft = Width - 1 /\ q.enoughBits = FALSE /\ q.tooManyBits = FALSE
       /\ Whole(rx) => q.expectSeconds = Next1(rx.shiftReg)
       /\ Taken(rx) => q.seconds = rx.shiftReg
       /\ ~Taken(rx) /\ rx.secondsValid => q.seconds = Next1(rx.seconds)
       /\ q.secondsValid => rx.secondsValid \/ Taken(rx)
  BY <1>1, <1>2, StrobeIs
<1>14. Follows(q, v)
  <2>1. v.sec \in Seconds
    BY <1>11 DEF TxKind
  <2> QED BY <1>11, <1>13, <2>1, NothingFollows
<1>15. Follows(rx, tx) => rx.shiftReg = v.sec
  BY <1>1, <1>11, AllFollowed
<1>16. 0 # Width
  BY ModulusIs
<1>17. Clean(rx, tx) => Clean(q, v)
  <2> SUFFICES ASSUME Clean(rx, tx) PROVE Clean(q, v)
    OBVIOUS
  <2>1. tx.clean => rx.shiftReg = v.sec /\ Whole(rx)
    BY <1>1, <1>15 DEF Clean, Whole
  <2>2. v.whole > 0 => tx.clean
    BY <1>4, <1>11
  <2>3. v.whole > 0 => q.expectSeconds = Next1(v.sec)
    BY <1>13, <2>1, <2>2
  <2>4. v.whole = 2 => q.seconds = v.sec
    <3> SUFFICES ASSUME v.whole = 2 PROVE q.seconds = v.sec
      OBVIOUS
    <3>1. tx.clean /\ tx.whole > 0
      <4>1. tx.whole \in 0 .. 2
        BY <1>1 DEF TxKind
      <4> QED BY <1>4, <1>11, <2>2, <4>1
    <3>2. rx.expectSeconds = v.sec
      BY <1>11, <3>1 DEF Clean
    <3>3. Taken(rx)
      BY <2>1, <3>1, <3>2 DEF Taken, InSequence
    <3> QED BY <1>13, <2>1, <3>1, <3>3
  <2>5. q.enoughBits = (v.sent = Width) /\ ~q.tooManyBits
    BY <1>11, <1>13, <1>16
  <2> QED BY <1>11, <1>14, <2>3, <2>4, <2>5 DEF Clean
<1>18. Marked(rx, tx) => Marked(q, v)
  <2> SUFFICES ASSUME Marked(rx, tx) PROVE Marked(q, v)
    OBVIOUS
  <2>1. Taken(rx) => rx.shiftReg = v.sec
    BY <1>15 DEF Marked, Taken, Whole
  <2>2. rx.secondsValid => Next1(rx.seconds) = v.sec
    BY <1>11 DEF Marked
  <2>3. q.secondsValid => q.seconds = v.sec
    BY <1>13, <2>1, <2>2
  <2>4. ~v.overdue /\ (q.enoughBits => v.sent = Width)
    BY <1>1, <1>11, <1>13
  <2> QED BY <1>14, <2>3, <2>4 DEF Marked
<1> QED BY <1>11, <1>12, <1>13, <1>17, <1>18 DEF Typed

LEMMA MarkerLostKeeps ==
  ASSUME Typed, MarkerLost
  PROVE  Typed' /\ (Clean(rx, tx) => Clean(rx', tx'))
<1>1. rx \in RxKind /\ tx \in TxKind
  BY DEF Typed
<1>2. PICK f \in BOOLEAN : f = TRUE
  OBVIOUS
<1>3. PICK u : u = Begun(tx)
  OBVIOUS
<1>4. PICK a : a = [u EXCEPT !.overdue = f]
  OBVIOUS
<1>5. PICK v : v = Disturbed(a)
  OBVIOUS
<1>6. u \in TxKind
  BY <1>1, <1>3, BegunIs
<1>7. a \in TxKind
  BY <1>4, <1>6 DEF TxKind
<1>8. v \in TxKind /\ v.clean = FALSE /\ v.whole = 0
  BY <1>5, <1>7, DisturbedIs
<1>9. rx' = rx /\ tx' = v
  BY <1>2, <1>3, <1>4, <1>5 DEF MarkerLost
<1>10. Clean(rx, v)
  BY <1>8 DEF Clean
<1> QED BY <1>1, <1>8, <1>9, <1>10 DEF Typed

LEMMA OverflowKeeps ==
  ASSUME Typed, Overflow
  PROVE  /\ Typed' /\ (Clean(rx, tx) => Clean(rx', tx'))
         /\ Marked(rx, tx) => Marked(rx', tx')
<1>1. rx \in RxKind /\ tx \in TxKind
  BY DEF Typed
<1>2. PICK f \in BOOLEAN : f = FALSE
  OBVIOUS
<1>3. PICK q : q = [rx EXCEPT !.secondsValid = f]
  OBVIOUS
<1>4. PICK v : v = [tx EXCEPT !.overdue = f]
  OBVIOUS
<1>5. rx' = q /\ tx' = v
  BY <1>2, <1>3, <1>4 DEF Overflow, fractionOverflow
<1>6. /\ q \in RxKind /\ q.secondsValid = f /\ q.seconds = rx.seconds
      /\ q.expectSeconds = rx.expectSeconds /\ q.shiftReg = rx.shiftReg /\ q.bitsLeft = rx.bitsLeft
      /\ q.enoughBits = rx.enoughBits /\ q.tooManyBits = rx.tooManyBits
  BY <1>1, <1>3 DEF RxKind
<1>7. /\ v \in TxKind /\ v.overdue = f /\ v.sec = tx.sec /\ v.sent = tx.sent
      /\ v.clean = tx.clean /\ v.whole = tx.whole
  BY <1>1, <1>4 DEF TxKind
<1>8. Follows(rx, tx) <=> Follows(q, v)
  BY <1>6, <1>7 DEF Follows
<1>9. Clean(rx, tx) => Clean(q, v)
  BY <1>6, <1>7, <1>8 DEF Clean
<1>10. Marked(rx, tx) => Marked(q, v)
  BY <1>2, <1>6, <1>7, <1>8 DEF Marked
<1> QED BY <1>5, <1>6, <1>7, <1>9, <1>10 DEF Typed

LEMMA LocalResetKeeps ==
  ASSUME Typed, LocalReset
  PROVE  /\ Typed' /\ (Clean(rx, tx) => Clean(rx', tx'))
         /\ Marked(rx, tx) => Marked(rx', tx')
<1>1. rx \in RxKind /\ tx \in TxKind
  BY DEF Typed
<1>2. PICK f \in BOOLEAN : f = FALSE
  OBVIOUS
<1>3. PICK q : q = [rx EXCEPT !.seconds = 0, !.secondsValid = f, !.enoughBits = f, !.tooManyBits = f]
  OBVIOUS
<1>4. PICK v : v = Disturbed(tx)
  OBVIOUS
<1>5. rx' = q /\ tx' = v
  BY <1>2, <1>3, <1>4 DEF LocalReset, rst
<1>6. /\ q \in RxKind /\ q.secondsValid = f /\ q.shiftReg = rx.shiftReg /\ q.bitsLeft = rx.bitsLeft
      /\ q.enoughBits = f
  <2>1. 0 \in Seconds
    BY ModulusIs DEF Seconds
  <2> QED BY <1>1, <1>3, <2>1 DEF RxKind
<1>7. /\ v \in TxKind /\ v.clean = FALSE /\ v.whole = 0
      /\ v.sec = tx.sec /\ v.sent = tx.sent /\ v.overdue = tx.overdue
  BY <1>1, <1>4, DisturbedIs
<1>8. Follows(rx, tx) => Follows(q, v)
  BY <1>6, <1>7 DEF Follows
<1>9. Clean(q, v)
  BY <1>7 DEF Clean
<1>10. Marked(rx, tx) => Marked(q, v)
  BY <1>2, <1>6, <1>7, <1>8 DEF Marked
<1> QED BY <1>5, <1>6, <1>7, <1>9, <1>10 DEF Typed

LEMMA RxInvStep == RxInv /\ [RxNext]_todVars => RxInv'
<1> SUFFICES ASSUME RxInv, [RxNext]_todVars PROVE RxInv'
  OBVIOUS
<1>1. Typed /\ Clean(rx, tx)
  BY DEF RxInv
<1>2. CASE Bit
  BY <1>1, <1>2, BitKeeps DEF RxInv
<1>3. CASE BitLost
  BY <1>1, <1>3, BitLostKeeps DEF RxInv
<1>4. CASE Marker
  BY <1>1, <1>4, MarkerKeeps DEF RxInv
<1>5. CASE MarkerLost
  BY <1>1, <1>5, MarkerLostKeeps DEF RxInv
<1>6. CASE Overflow
  BY <1>1, <1>6, OverflowKeeps DEF RxInv
<1>7. CASE LocalReset
  BY <1>1, <1>7, LocalResetKeeps DEF RxInv
<1>8. CASE UNCHANGED todVars
  <2>1. rx' = rx /\ tx' = tx
    BY <1>8 DEF todVars
  <2> QED BY <1>1, <2>1 DEF RxInv, Typed
<1> QED BY <1>2, <1>3, <1>4, <1>5, <1>6, <1>7, <1>8 DEF RxNext

(* todReceiver.v: two whole seconds that come undisturbed set the seconds  *)
(* right, after any number of lost bits, lost markers and resets, for any  *)
(* width of the seconds.                                                   *)
THEOREM ReceiverRecovers == RxSpec => []RightAfterTwo
<1>1. RxInv => RightAfterTwo
  BY DEF RxInv, Clean, RightAfterTwo
<1> QED BY <1>1, RxInitial, RxInvStep, PTL DEF RxSpec

(* No marker is lost, whatever bits are.                                   *)
MarkersArrive == [][~MarkerLost]_todVars

LEMMA MarkedStep == RxInv /\ Marked(rx, tx) /\ [RxNext]_todVars /\ [~MarkerLost]_todVars => Marked(rx, tx)'
<1> SUFFICES ASSUME RxInv, Marked(rx, tx), [RxNext]_todVars, [~MarkerLost]_todVars
             PROVE  Marked(rx', tx')
  OBVIOUS
<1>1. Typed
  BY DEF RxInv
<1>2. CASE Bit
  BY <1>1, <1>2, BitKeeps
<1>3. CASE BitLost
  BY <1>1, <1>3, BitLostKeeps
<1>4. CASE Marker
  BY <1>1, <1>4, MarkerKeeps
<1>5. CASE Overflow
  BY <1>1, <1>5, OverflowKeeps
<1>6. CASE LocalReset
  BY <1>1, <1>6, LocalResetKeeps
<1>7. CASE UNCHANGED todVars
  <2>1. rx' = rx /\ tx' = tx
    BY <1>7 DEF todVars
  <2> QED BY <2>1
<1> QED BY <1>2, <1>3, <1>4, <1>5, <1>6, <1>7 DEF RxNext

(* As long as no marker is lost, the seconds that the receiver counts on   *)
(* are those that are at every moment, whatever bits are lost and however  *)
(* often it is reset.                                                      *)
THEOREM SecondsStayTrue == RxSpec /\ MarkersArrive => []SecondsAreTrue
<1>1. RxInv /\ Marked(rx, tx) => SecondsAreTrue
  BY DEF RxInv, Clean, Marked, SecondsAreTrue, CountedInStep, RightAfterTwo
<1> QED BY <1>1, RxInitial, RxInvStep, MarkedStep, PTL DEF RxSpec, MarkersArrive
============================================================================
