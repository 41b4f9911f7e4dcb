------------------------------- MODULE IicBus -------------------------------
(***************************************************************************)
(* The I2C buses of the board (software/target/*/iic.c): two controllers,  *)
(* multiplexers whose setting the software remembers, power controllers    *)
(* with pages, and a bridge to the SPI bus of the RF synthesizers          *)
(* (rfclk.c), with the reference clock of the transceivers                 *)
(* (user_mgt_refclk.c).                                                    *)
(*                                                                         *)
(* Any transfer (iicSend, iicRecv: Send of Transfers) may fail.            *)
(***************************************************************************)
EXTENDS Transfers, FiniteSets, Functions

CONSTANTS
  Targets,    \* boards: "zcu111", "zcu208"
  Device,     \* deviceTable: a record of controller, port, address for each name
  Pages,      \* pages that a power controller has (bound)
  lmx2594MuxSel, \* for each board, the SPI channels of its synthesizers, in order
  Tables,     \* register tables a client may send for the synthesizers
  Lacking,    \* those of them that have no word for register 0
  RegistersRead, \* bound: registers read of a synthesizer that is shown
  Supplies,   \* sequence of the supply monitors
  Controllers,\* sequence of the power controllers with a temperature
  Offsets,    \* offsets of the reference clock, in ppm
  MaxFaults   \* bound: transfers that fail within one operation

NoPort == 126       \* MUXPORT_NONE
UnknownPort == 127  \* MUXPORT_UNKNOWN
NoPage == 255
NoChip == 4
Synthesizers(s) == lmx2594MuxSel[s.target]
Slots(s) == 0 .. Len(Synthesizers(s)) - 1 \* entries of lmx2594v0InitValues
Chips == UNION {Range(lmx2594MuxSel[target]) : target \in Targets}
Mux == 0 .. 2       \* 0: of controller 0; 1 and 2: of controller 1
Irps == {"IrpsA", "IrpsB", "IrpsC"} \cap DOMAIN Device

(* deviceTable: no two devices that share an address are behind the same   *)
(* port, and none of them is in front of the multiplexers.                 *)
ASSUME BusAssumption ==
  /\ \A d \in DOMAIN Device :
       \/ Device[d].ctl = 0 /\ Device[d].port \in 0 .. 7 \cup {NoPort}
       \/ Device[d].ctl = 1 /\ Device[d].port \in 0 .. 15
  /\ \A d, e \in DOMAIN Device :
       d # e /\ Device[d].ctl = Device[e].ctl /\ Device[d].addr = Device[e].addr =>
         Device[d].port \notin {NoPort, Device[e].port}
  /\ {"Expander", "IrpsB", "Bridge", "MgtClk", "Sfp0"} \subseteq DOMAIN Device
  /\ Supplies \in Seq(DOMAIN Device) /\ Controllers \in Seq(DOMAIN Device)
  /\ Offsets \subseteq Int /\ MaxFaults \in Nat
  /\ lmx2594MuxSel \in [Targets -> Seq(0 .. 3)]
  /\ \A target \in Targets : /\ lmx2594MuxSel[target] # <<>>
                             /\ lmx2594MuxSel[target][1] < Len(lmx2594MuxSel[target])
  /\ Lacking \subseteq Tables \ {"default"} /\ RegistersRead \in Nat
  /\ Tables \cap {"none", "reset", "stray", "elsewhere"} = {}

VARIABLES
  bus,   \* what the devices hold and what the software remembers of them
  busOp  \* the last operation: its name, argument and result
busVars == <<bus, busOp>>

----------------------------------------------------------------------------
(* Multiplexers *)
MuxOf(d) == IF Device[d].ctl = 0 THEN 0 ELSE 1 + Device[d].port \div 8
Connected(s, d) == Device[d].port \in {NoPort, s.port[MuxOf(d)]}

RememberTried(p, ok) == p
Remember(p, ok) == IF ok THEN p ELSE UnknownPort
Select(s, m, p) ==
  {[o EXCEPT !.s.cache[m] = Remember(p, o.ok)] : o \in Send(s, [s EXCEPT !.port[m] = p])}

setMux(s, d) ==
  LET p == Device[d].port
      new == MuxOf(d)
      other == 3 - new
      Open(t) == IF t.cache[new] = p THEN Done(t) ELSE Select(t, new, p)
  IN  IF Device[d].ctl = 0
      THEN IF p = NoPort THEN Done(s) ELSE Open(s)
      ELSE Then(IF s.cache[other] = NoPort THEN Done(s) ELSE Select(s, other, NoPort),
                Open)

(* A message for d, which changes s to t: who hears it is noted.           *)
Hearers(s, d) ==
  {e \in DOMAIN Device : /\ Device[e].ctl = Device[d].ctl
                         /\ Device[e].addr = Device[d].addr
                         /\ Connected(s, e)}
Message(s, d, t) ==
  LET heard(x) == [x EXCEPT !.strayed = @ \/ Hearers(s, d) # {d}]
  IN  Send(heard(s), heard(t))

iicWrite(s, d, Effect(_)) == Then(setMux(s, d), LAMBDA t : Message(t, d, Effect(t)))
iicRead(s, d, Heard(_)) ==
  Then(iicWrite(s, d, LAMBDA t : t), LAMBDA t : Message(t, d, Heard(t)))

----------------------------------------------------------------------------
(* pmbusRead: the page is written to IRPS5401_B, whichever is read.  A     *)
(* value that comes from another page than asked for is noted.             *)
RememberPageTried(page, ok) == page
RememberPage(page, ok) == IF ok THEN page ELSE NoPage
pmbusRead(s, d, page) ==
  LET paged == d \in Irps /\ page <= 3
      selected == iicWrite(s, "IrpsB", LAMBDA t : [t EXCEPT !.page["IrpsB"] = page])
      remembered == {[o EXCEPT !.s.pageCache[d] = RememberPage(page, o.ok)] : o \in selected}
      Heard(t) == [t EXCEPT !.offPage = @ \/ (paged /\ t.page[d] # page)]
  IN  Then(IF paged /\ page # s.pageCache[d] THEN remembered ELSE Done(s),
           LAMBDA t : iicRead(t, d, Heard))

(* sysmonFetch: supplies, board voltages and currents, the transceiver and *)
(* the temperatures of the power controllers, whatever fails.              *)
Plain(t, d) == iicRead(t, d, LAMBDA u : u)
sfpGetStatus(t) == Plain(t, "Sfp0")
Temperature(t, d) == pmbusRead(t, d, NoPage)
sysmonFetch(s) ==
  LET boardSupply(t, i) == pmbusRead(t, "IrpsB", 0)
      supplies == InTurn(s, Supplies \o Supplies, Plain)
      boards == Regardless(supplies, LAMBDA t : InTurn(t, <<1, 2, 3>>, boardSupply))
      optics == Regardless(boards, sfpGetStatus)
  IN  Regardless(optics, LAMBDA t : InTurn(t, Controllers, Temperature))

----------------------------------------------------------------------------
(* Register 0 of a synthesizer: whose settings it has, and whether its      *)
(* status pin shows the lock detector.                                     *)
R0(cfg, ld) == [cfg |-> cfg, ld |-> ld]
Nobodys == R0("none", FALSE)

(* The SPI bridge shifts in what the selected output line carries: the     *)
(* register 0 of that chip, or the level of its lock detector, which is    *)
(* nobody's setting.                                                       *)
OnLine(s) ==
  IF s.miso \in Chips /\ ~s.r0[s.miso].ld THEN [chip |-> s.miso, r0 |-> s.r0[s.miso]]
  ELSE [chip |-> s.miso, r0 |-> Nobodys]
spiSend(s, c, Effect(_)) ==
  iicWrite(s, "Bridge", LAMBDA t : [Effect(t) EXCEPT !.reply = OnLine(t)])

SelectedAnyhow(c, ok) == c
SelectedAfter(c, ok) == IF ok THEN c ELSE NoChip
SelectByExpander(s, c) ==
  IF s.selected = c THEN Done(s)
  ELSE {[o EXCEPT !.s.selected = SelectedAfter(c, o.ok)] :
          o \in iicWrite(s, "Expander", LAMBDA t : [t EXCEPT !.miso = c])}
spiSDOMuxSelect(s, c) == Done([s EXCEPT !.miso = c])
SelectMiso(s, c) == IF s.target = "zcu208" THEN spiSDOMuxSelect(s, c) ELSE SelectByExpander(s, c)
spiTransfer(s, c) ==
  Then(SelectMiso(s, c), LAMBDA t :
    Then(spiSend(t, c, LAMBDA u : u), LAMBDA u :
      Then(setMux(u, "Bridge"), LAMBDA v :
        Message(v, "Bridge", v))))

StillReadback(v) == v
LockDetect(v) == [v EXCEPT !.ld = TRUE]
Written(t, c, v) == IF v.cfg = "elsewhere" THEN t ELSE [t EXCEPT !.r0[c] = v]
lmx2594write(s, c, v) == spiSend(s, c, LAMBDA t : Written(t, c, v))

(* lmx2594read answers 0 when it fails.  What it takes from another chip   *)
(* is noted.                                                               *)
lmx2594read(s, c) ==
  {[o EXCEPT !.s.reply = IF o.ok THEN o.s.reply ELSE [chip |-> c, r0 |-> Nobodys],
             !.s.misread = @ \/ (o.ok /\ o.s.reply.chip # c)] : o \in spiTransfer(s, c)}

(* Later writes go on whatever became of the ones before.  The words of a  *)
(* table for the other registers stand for one.  Only a word for register  *)
(* 0 is kept, with its bits that force the readback.                       *)
OtherRegister == R0("elsewhere", FALSE)
WriteTable(s, c, cfg) ==
  Regardless(lmx2594write(s, c, OtherRegister), LAMBDA t :
    IF cfg \in Lacking THEN Done(t)
    ELSE lmx2594write([t EXCEPT !.init[c] = R0(cfg, FALSE)], c, R0(cfg, FALSE)))
init2594(s, c, cfg) ==
  Regardless(lmx2594write(s, c, R0("reset", FALSE)), LAMBDA t :
    Regardless(lmx2594write(t, c, R0("reset", FALSE)), LAMBDA u : WriteTable(u, c, cfg)))
start2594(s, c) ==
  Regardless(lmx2594read(s, c), LAMBDA t :
    Regardless(lmx2594write(t, c, t.reply.r0), LAMBDA u :
      Regardless(lmx2594read(u, c), LAMBDA v :
        lmx2594write(v, c, LockDetect(t.reply.r0)))))
lmx2594Config(s, c, cfg) == Regardless(init2594(s, c, cfg), LAMBDA t : start2594(t, c))
lmx2594ConfigAllSame(s, cfg) ==
  InTurn(s, Synthesizers(s), LAMBDA t, c : lmx2594Config(t, c, cfg))
rfClkInit(s) == lmx2594ConfigAllSame(s, "default")

(* lmx2594v0InitValues has an entry for each synthesizer of the board, and *)
(* is indexed by its channel.  A channel beyond its end reads what others  *)
(* may have written there since: any word, for register 0 or another.      *)
InitValues(s, c) ==
  IF c \in Slots(s) THEN {s.init[c]} ELSE {s.init[c], R0("stray", FALSE), OtherRegister}

(* The body of lmx2594Status, rfClkShow and lmx2594Readback: the pin is    *)
(* turned to readback, n registers are read, and it is turned back.        *)
Inspect(s, c, n) ==
  UNION {Regardless(lmx2594write(s, c, v0), LAMBDA t :
           Regardless(InTurn(t, [i \in 1 .. n |-> c], lmx2594read), LAMBDA u :
             lmx2594write(u, c, LockDetect(v0)))) : v0 \in InitValues(s, c)}
InspectAll(s, n) == InTurn(s, Synthesizers(s), LAMBDA t, c : Inspect(t, c, n))
lmx2594Status(s) == InspectAll(s, 1)
rfClkShow(s) == InspectAll(s, RegistersRead)
lmx2594ReadbackFirst(s) == Inspect(s, Synthesizers(s)[1], RegistersRead)

----------------------------------------------------------------------------
(* userMGTrefClkAdjust: recall the factory frequency, read it, freeze the  *)
(* oscillator, write the new one, unfreeze.                                *)
writeReg(s, Effect(_)) == iicWrite(s, "MgtClk", Effect)
NotRecalled(clk) == clk
Recalled(clk) == [clk EXCEPT !.ppm = 0]
AnyOffset(ppm) == ppm
Ppm == -3500 .. 3500
Clamp(ppm) == IF ppm > 3500 THEN 3500 ELSE IF ppm < -3500 THEN -3500 ELSE ppm
userMGTrefClkAdjust(s, ppm) ==
  Then(writeReg(s, LAMBDA t : [t EXCEPT !.clk = Recalled(@)]), LAMBDA t :
    Then(iicRead(t, "MgtClk", LAMBDA u : [u EXCEPT !.got = u.clk.ppm]), LAMBDA u :
      Then(writeReg(u, LAMBDA v : [v EXCEPT !.clk.frozen = TRUE]), LAMBDA v :
        Then(writeReg(v, LAMBDA w : [w EXCEPT !.clk.ppm = u.got + Clamp(ppm)]), LAMBDA w :
          Then(writeReg(w, LAMBDA x : [x EXCEPT !.clk.frozen = FALSE]), LAMBDA x :
            writeReg(x, LAMBDA y : y))))))

----------------------------------------------------------------------------
(* iicInit: a new boot forgets what was remembered, while the devices keep *)
(* what they hold; the port expander is driven low, which selects line 0.  *)
iicInit(s) ==
  [s EXCEPT !.cache = [m \in Mux |-> IF m = 0 THEN NoPort ELSE UnknownPort],
            !.pageCache = [d \in Irps |-> NoPage],
            !.selected = NoChip, !.miso = 0,
            !.init = [c \in Chips |-> Nobodys], !.asked = "default"]

(* The main loop runs one of these to its end before the next.             *)
Ready(s) == [s EXCEPT !.faults = MaxFaults]
Idle(s) == [s EXCEPT !.faults = 0, !.got = 0, !.reply = [chip |-> 0, r0 |-> Nobodys]]
Result(op, arg, o) ==
  [op |-> op, arg |-> arg, ok |-> o.ok, clean |-> o.s.faults = MaxFaults]
Perform(op, arg, Outcomes) ==
  \E o \in Outcomes : bus' = Idle(o.s) /\ busOp' = Result(op, arg, o)

(* Kept as history: the last table that had a word for register 0.         *)
AskedFor(s, cfg) == IF cfg \in Lacking THEN s ELSE [s EXCEPT !.asked = cfg]
Configure ==
  \E cfg \in Tables :
    Perform("config", cfg, lmx2594ConfigAllSame(AskedFor(Ready(bus), cfg), cfg))
GetStatus == Perform("status", 0, lmx2594Status(Ready(bus)))
ShowClocks == Perform("status", 0, rfClkShow(Ready(bus)))
GetFirst == Perform("readback", 0, lmx2594ReadbackFirst(Ready(bus)))
FetchMonitors == Perform("sysmon", 0, sysmonFetch(Ready(bus)))
Adjust == \E ppm \in Offsets : Perform("adjust", ppm, userMGTrefClkAdjust(Ready(bus), ppm))

(* main starts the synthesizers and shows them.                            *)
StartClocks(s) == Regardless(rfClkInit(s), rfClkShow)
BusRestart == Perform("boot", 0, StartClocks(Ready(iicInit(bus))))

(* The first boot, without faults.                                         *)
ColdBoard(target, page) ==
  [target |-> target, port |-> [m \in Mux |-> NoPort],
   cache |-> [m \in Mux |-> NoPort], page |-> page, pageCache |-> [d \in Irps |-> NoPage],
   miso |-> 0, selected |-> NoChip,
   r0 |-> [c \in Chips |-> Nobodys], init |-> [c \in Chips |-> Nobodys],
   clk |-> [ppm |-> 0, frozen |-> FALSE], got |-> 0, reply |-> [chip |-> 0, r0 |-> Nobodys],
   strayed |-> FALSE, offPage |-> FALSE, misread |-> FALSE, asked |-> "default",
   faults |-> 0]
Boards == {ColdBoard(target, page) : target \in Targets, page \in [Irps -> Pages]}
BusInit ==
  \E board \in Boards : \E o \in StartClocks(iicInit(board)) :
    bus = Idle(o.s) /\ busOp = Result("boot", 0, o)

BusNext == \/ Configure \/ GetStatus \/ ShowClocks \/ GetFirst
           \/ FetchMonitors \/ Adjust \/ BusRestart
BusSpec == BusInit /\ [][BusNext]_busVars
----------------------------------------------------------------------------
(* The remembered ports and pages are of the kinds the code stores, the    *)
(* oscillator stays within the limits of the code.                         *)
BusTypeOK ==
  /\ bus.port \in [Mux -> 0 .. 15 \cup {NoPort}]
  /\ bus.cache \in [Mux -> 0 .. 15 \cup {NoPort, UnknownPort}]
  /\ bus.pageCache \in [Irps -> 0 .. 3 \cup {NoPage}]
  /\ bus.selected \in 0 .. NoChip /\ bus.miso \in 0 .. 3
  /\ bus.clk.ppm \in Ppm /\ bus.faults = 0

(* A message reaches the device it is meant for and no other, whatever     *)
(* transfers failed before (setMux): devices behind different ports of the *)
(* multiplexers share addresses.                                           *)
NothingStrays == ~bus.strayed

(* A value that pmbusRead returns comes from the page it was asked for,    *)
(* also when the selection of a page once failed.                          *)
PageAsAsked == ~bus.offPage

(* lmx2594read returns what the chip it names has shifted out, or zero.    *)
FromTheChipAsked == ~bus.misread

(* An operation on the synthesizers with no failed transfer leaves the     *)
(* lock detector on their pins, and the settings that were asked for: of   *)
(* the table just sent, or, when they are inspected, of the last one that  *)
(* had a register 0, whatever failed when it was sent and whatever came    *)
(* between.  A channel that has no entry in lmx2594v0InitValues is beyond  *)
(* what the code promises once it is inspected.                            *)
AsAsked(chips, cfg) == \A c \in chips : bus.r0[c] = R0(cfg, TRUE)
StatusPinShowsLock ==
  busOp.clean =>
    LET present == Range(Synthesizers(bus))
    IN  /\ busOp.op = "config" =>
             AsAsked(present, IF busOp.arg \in Lacking THEN "reset" ELSE busOp.arg)
        /\ busOp.op \in {"boot", "status"} => AsAsked(present \cap Slots(bus), bus.asked)
        /\ busOp.op = "readback" => AsAsked({Synthesizers(bus)[1]}, bus.asked)

(* userMGTrefClkAdjust that succeeds leaves the oscillator running at the  *)
(* offset asked for from the factory frequency, not from the last one.     *)
AdjustedFromFactory ==
  busOp.op = "adjust" /\ busOp.ok => bus.clk = [ppm |-> Clamp(busOp.arg), frozen |-> FALSE]

(* Every message, page and register access reaches what it is for,         *)
(* whatever failed before, and what the software remembers stays in kind.  *)
AccessesReach == BusTypeOK /\ NothingStrays /\ PageAsAsked /\ FromTheChipAsked
=============================================================================
