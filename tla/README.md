# Formal models of the LBNL digitizers

TLA+ models of the software and gateware of the high speed digitizer (HSD) and
the bunch current monitor (BCM), checked with TLC on small instances and, for
most components, proved with TLAPS for all values of the constants.

Paths below are relative to the repository; `epics.c` is short for
`software/src/epics.c`, `iic.c` for `software/target/*/iic.c`,
`acquisitionHSD.v` for `gateware/modules/acquisitionHSD.v`, and so on.

## The system

An RFSoC carries a processor that runs one bare-metal loop (`main.c:228-236`:
reset button, acquisition, receiver alignment, network, console, card,
display) and programmable logic that records samples in the clock domain of
the ADC. An IOC talks to the processor over UDP. There is no operating system
and no thread: handlers never interleave with each other. What is concurrent is
the gateware, the hardware, the network, the people and the clients, and what
is hard to test is their order, and what a failed transfer leaves behind.

| Component | State | Operations | Interacts with | What makes it hard, what makes it correct |
|---|---|---|---|---|
| EPICS command server (`epics.c`, `epicsApplicationCommands.c`) | static command, reply, `lastNonce`, reply size, position in the reboot sequence | a datagram in, at most one out | IOCs by UDP, all components by register and setter | lost, repeated, late datagrams; shared reply cache; restart. At most once, answers to the right command |
| HSD recorder (`acquisitionHSD.v`, `acquisition.c` to line 530) | trigger watch, state machine and counters in the ADC domain; active, full in the system domain; settings in C | arm, disarm, configure, trigger, status, fetch | event receiver, command server | two clock domains, off-by-one counter loads, a disarm at any moment, bonded channels. A fetched waveform is whole, of one acquisition, its trigger in place |
| BCM acquisition (`acquisitionBCM.v`, `acquisition.c` from 635) | requested and taken settings, time stamps, `wasStarted`; state machine and accumulator memory | start, crank, fetch, set | event trigger, command server | readout in packets against cancellation, settings and triggers. One acquisition per waveform, right scale, never stuck |
| TFTP server (`tftp.c`) | one transfer in static variables, the block last sent, an open file | a packet in, at most a few out | clients by UDP, card, the owners of the files | loss, repetition, transfers given up, failing card. Files whole and in order |
| System parameters (`systemParameters.c`, `serdes.c`) | running values, candidate, checksum, `visited`, file on the card | parse, commit, save, read at boot | TFTP, console, boot | a refused table, a save between uploads, a restart. Nothing half applied, a restart changes nothing |
| Console (`console.c`) | mode and the addresses of its questions, line buffer, output and start-up buffers | a datagram in, a key in, one crank | parameters, eye scan, event log, reference clock | several people, one line buffer; cranked commands hold up input. Only what was confirmed is changed, nothing waits for ever |
| Eye scan (`eyescan.c`) | point, border, time; registers of a lane | start, one crank | console, transceiver | a count left running is read for another point |
| Event logger (`evrLogger.v`, `console.c:422-516`) | circular memory, addresses | log, start, stop, print | event receiver, console | reading while it is written |
| MGT receiver aligner (`mgt.c`) | state, time in it | one crank per loop | transceiver, converters | resets that hang, alignment lost, a state that falls into the next |
| Event receiver (`evr.c`, `gateware/modules/evr_axi`), time of day (`todReceiver.v`, `timestamp_forward.v`) | event map; bits, seconds, fraction; toggles between two clocks | set action, select trigger; shift, mark, overflow; forward, read time | recorders' triggers, time stamps | two commands for one map; lost codes; two clocks; two reads of a moving time. The time is right, in one piece, and later each time |
| I2C and PMBus (`iic.c`), monitoring (`sysmon.c`) | remembered multiplexer ports and pages | read, write, fetch monitors | sensors, clocks, SFP | what is remembered after a failed transfer |
| RF clocks (`rfclk.c`, `user_mgt_refclk.c`) | register images, selected line of the bridge | configure, inspect, adjust | I2C, boot, command server, console | settings taken away for a reading and put back, relative frequencies |
| Analogue front end (`afe.c`) | gains, couplings and shadow, DAC, readings, trigger levels, EEPROM | gain, coupling, DAC, tone, level, restart, stash | command server, recorders | what calibration leaves behind, readings that time out |
| Front panel (`display.c`, `sysmon.c:234-341`, `util.c`) | mode, page, line being drawn, warnings kept, time drawn, button and switch | refresh, warn, fatal, status line, reset switch | all | drawing in pieces under changes of page, mode and clock |
| Card and file system (`ffs.c`) | mount state | check each loop, mount, unmount | TFTP, parameters | a card pulled with a file open |
| Boot and network address (`main.c`, `platform_zynqmp.c`) | lease, counters | DHCP wait, static address | parameters | order of initialisation, time-out |
| Clock domain crossings (`forwardData.v`, `adcRangeCheck.v`, `sysrefSync.v`, `evrSROC.v`) | toggles and synchronisers | latch, acknowledge | everything in gateware | every phase of two clocks |
| Converters (`rfadc.c`, `mmcm.c`, `sysref.c`) | vendor registers | initialise, synchronise, freeze | boot, aligner, front end | vendor hardware |

`PROJECT.json` lists every component with its status and the hazards with
their lines and the properties that cover them, or why none does.

## Modules

| Module | Models | Extends |
|---|---|---|
| `AtMostOnceRpc` | what an IOC relies on: abstract at-most-once execution | |
| `EpicsServer` | `epics_callback`, `sendReply`, `crankRebootStateMachine`, `resetFPGA` | |
| `EpicsLink` | the server with its clients and the network; properties | `EpicsServer`; instance of `AtMostOnceRpc` |
| `BcmAcquisition` | `acquisitionStart`, `acquisitionCrank`, `acquisitionFetch`, the setters; `acquisitionBCM.v`; a reader | |
| `HsdRecorder` | `acquisitionHSD.v` clock by clock; `acquisitionArm`, the setters, where a sample is fetched | |
| `HsdReadout` | `acquisitionStatus`, `acquisitionFetch` of bonded and single channels, normal and mean; the setters of modes | |
| `TftpServer` | `tftp_recv_callback`, `sendBlock`, replies; a client and a network | |
| `SystemParameters` | `parseTable`, `systemParametersSetTable`, `..Commit`, `..FetchEEPROM`, `..StashEEPROM`; boot | |
| `OperatorSettings` | what an operator relies on: an address changes as a question showed it | |
| `EyeScan` | `eyescanCommand`, `eyescanSync`, the crank, the registers of a lane | |
| `EventLog` | `evrLogger.v`, `cmdTLOG` | |
| `Console` | `consoleCheck`, `console_callback`, `handleLine`, its modes and commands, `outbyte` | `EyeScan`, `EventLog`; instance of `OperatorSettings` |
| `Transfers` | functions that talk to a device which may fail | |
| `IicBus` | `setMux`, `iicRead`, `iicWrite`, `pmbusRead`, the SPI bridge; `rfclk.c`, `user_mgt_refclk.c`, `sysmonFetch` | `Transfers` |
| `FrontEnd` | `afe.c`, `acquisitionSetTriggerLevel`, the freezing of background calibration | `Transfers` |
| `Receiver` | `mgtCrankRxAligner`, `evrCurrentTime`, the event map | |
| `FrontPanel` | `displayRefresh`, `drawTime`, `sysmonDraw`, `displayShowWarning`, `fatal`, `warn`, `checkForReset` | |
| `TodReceiver` | `todReceiver.v`: the seconds, with codes lost and resets; the event generator | |
| `TimeForward` | `timestamp_forward.v`: the time crosses to the clock of the bus | |
| `MCBoard`, `MCDigitizer`, `MCOperator` | compositions that TLC checks in one run, see below | the modules above |
| `MCEpicsLink`, `MCHsdRecorder`, `MCSystemParameters` | nonces, memories, tables for TLC | |
| `EpicsLinkProofs`, `BcmAcquisitionProofs`, `TftpServerProofs`, `IicBusProofs` | theorems | the component, `TLAPS` |
| `DigitizerProofs` | theorems about the recorder, the readout and the front panel | `MCDigitizer`, `TLAPS` |
| `OperatorProofs` | theorems about parameters, console, event log and eye scan | `MCOperator`, `TLAPS` |
| `BoardProofs` | theorems about the front end, the receiver, the crossing of its time and the time of day | `FrontEnd`, `Receiver`, `TimeForward`, `TodReceiver`, `TLAPS` |
| `InTurnRule` | the rule for loops over devices or channels, instantiated for each loop body | `Transfers`, `TLAPS` |

Names follow the code. An operator that is used only by a mutation test
(`IsNewAlways`, `clampFromBelow`, ...) stands just before the definition it is
an alternative to.

`MCBoard`, `MCDigitizer` and `MCOperator` put together parts that share no
state, each with its own bounds. A variable `focus`, chosen once, says which
part takes steps; the others keep one initial state. The composition is of
questions, not of components: no part's behaviour is cut by another's.

### Command server

`Execute`, `Reject`, `Replay` and `ForcedReset` are the four ways through
`epics_callback`: a new nonce and a handler that accepts, a new nonce that both
handlers refuse, the nonce of the last execution, and the last write of the
reboot sequence, after which `resetFPGA` does not return. `Restart` forgets all
static variables, the button and a power failure included. A packet that cannot
be allocated is lost in `SendReply`. A refusal leaves the header of the refused
command in the reply and the old arguments behind it (`epics.c:279-285`): this
is in the model, because a retry is answered from that buffer. Commands are
kinds: one that always succeeds, one that may be refused (a transfer to a DAC
that fails), one unknown, and the three reboot values. The network keeps every
datagram for ever, so a datagram may be delivered any number of times or never.
`Overtaking` tells whether an old command may arrive after a newer one of the
same client. What a command does is modelled with the component it reaches.

### BCM acquisition

The processor's functions are atomic, as in the code; the recorder and the two
time-outs take their steps between them. An acquisition has a tag, and each
word in memory the tag and the number of passes it was made of. `wave` is what
the reader has assembled. Arithmetic on samples is reduced to which divisor was
used for a sum of how many passes. Clients fetch only after the first crank,
which is after they have set size and pass count.

### HSD recorder and readout

In `HsdRecorder` one `Tick` is one clock of the ADC with the whole of the
gateware's pipeline: trigger flags, write address, enable, counters that end at
minus one. A word in memory is abstracted to its age. `WholeWaveform` compares
the ages of the words that the software's address arithmetic (`base`,
`dataLocation`, and the correction of `sysDpramRdAddr` by the latency) reads
with the time each sample was due. Abstractions: the ADC delivers a word every
clock; a software write settles across the clock domains before the next; an
edge detector in front of the watch is reduced to an event strobe and a level
crossing at one of the samples of a word; one channel, since bonded channels
follow the same write addresses.

`HsdReadout` takes the other half: which channel's registers and memory a
request for a bonded channel uses (`acquisition.c:110-147`, `363-393`), how many
samples fit a reply, what reading does to the CSR, and what settings and arms
that come between packets do. A memory holds the number of an acquisition, or
is torn. `AsRecorded` holds a waveform to the date in its header; it is about
channels that nobody armed or set since (`steady`), because the code does not
keep the settings of an acquisition: a readout whose settings change mixes them.

### TFTP server

Actions are the branches of `tftp_recv_callback`, with a failing open, read,
write, close or packet allocation where the code may meet one. The client side
follows the protocol: it resends after a time-out, gives up if `GivesUp`, and
acknowledges repeated blocks. A file is a sequence of blocks, each tagged with
its transfer; the last is short. A failed write is taken to have stored nothing.
The manual allows one active transfer at a time
(`documentation/hsd/Firmware.html:485`): clients begin one after another, but
datagrams of one that gave up may still arrive.

### System parameters

A table gives each parameter a value, an invalid text, or nothing. Parsing
writes the candidate line by line until the first invalid line; `visited`
survives from one call to the next, as `conv[].visited` does. The checksum is
represented by the values it was computed over. `kept` is a history variable:
the last upload was accepted or the last save succeeded. Not represented: the
text of a value, so a text that `parseInt` silently ignores (`serdes.c:126-136`)
and the bytes an invalid MAC address leaves behind (`serdes.c:22-41`).

### Console, eye scan and event log

`consoleCheck` is one action with the order of the code: the replay of the
start-up output, else the scan, else one key from the serial port or, if there
is none, from the datagram, else the log. A step of the scan is taken even when
a key is read after it, as in the code. `EyeScan` and `EventLog` are operators
on their record, which `Console` calls, and actions of the hardware. The text
of a whole command is one key. A point's count is represented by the offset at
which it was counted; an event by its number, so that an entry of the ring that
was overwritten under the reader, or left by an earlier log, shows.
`OperatorSettings` has settings and an open question; `ChangedAsConfirmed` says
that `Console` implements it (`kept <- settings`, `asked <- OpenQuestion`).

### Buses, clocks and front end

A function that makes transfers is an operator that gives the set of its
outcomes: state after it and success. `Then` stops at a failure, as a caller
that returns does; `Regardless` goes on, as one that ignores the result does;
`InTurn` is a loop of the latter kind over a sequence of devices or channels.
Which of the two each call uses is read from the code. A failed transfer may or
may not have been heard, and at most `MaxFaults` fail within an operation. In
`IicBus` a device is where the tables of `iic.c` put it: controller, port and
address; `strayed` notes a message that another device also heard, `offPage` a
value from a page that was not asked for. Of the registers of a synthesizer only
number 0 is told apart, with whose settings it has (those of the reset, of a table,
nobody's) and the bit of its status pin; all others stand for one, which is written
and read with the same transfers. A table may lack register 0 (`Lacking`): nothing
is remembered of it then (`rfclk.c:61`) and a later inspection writes the one of an
older table. `lmx2594v0InitValues` has as many entries as the board has
synthesizers but is indexed by their channels (`Slots`): of a channel beyond, the
third of the ZCU111, the model reads what was written there or anything else; what
a write there may overwrite is not modelled.

In `FrontEnd` a reading is what was applied to the input when it was taken, and
counts are what they were computed from, so that a stale scale shows. A reading
that times out is the one before or a part of the next one, which is of nothing. The
copy to the EEPROM is the loop of `afe.c:531-551`: each chunk is read, written at
the low byte of an address that counts on, and any of these transfers may end it.
A cell keeps the chunk that was written there and how many copies ago.

### Receiver

The aligner with its transceiver, whose reset may hang and which may come out
unaligned; times keep only their order. `mgtInit` waits for the first reset and
cranks the aligner until it is content or the code is tired of it; main starts the
converters either way, and from then on cranks once per loop, while the console may
restart or resynchronize the converters. Each call to their driver may fail:
`rfADCsync` then returns where it is (`rfadc.c:222-251`), `rfADCrestart` goes on.
`synced` means that the converters were synchronized since the last reset of the
receiver, whose clock they share, and since their last restart; `failed` that the
last synchronization was cut short. The reading of the time is three steps with the
clock between any two of them. The event map has both commands that write it.

### Time of day

The time takes three modules on its way to the processor. `TodReceiver` has the
bits and markers that an event generator sends, of which some are lost, and the
receiver's reset, which is the aligner's (`EventReceiverTop.v:366`). The width of
the seconds is 4 instead of 32. The fraction is only whether it has run over: a
lost marker makes it do so before the next marker, and rounding may make it do so
just before a marker that comes. `TimeForward` takes each edge of the two clocks
as a step; what an edge has just changed, the next edge of the other clock sees
before or after the change, a word in part. Words that stay undecided for longer
than a period (metastability beyond one flip-flop) are not in the model. A time is
the number of the cycle in which it was at the input, so that `TimeGoesForward` is
about the order of times, whatever they say: after a reset they begin again at
zero. `Receiver` reads what `TimeForward` delivers, two words at different
moments; that it is one time at each moment, and never an earlier one, is what
`TimeGoesForward` adds to `TimeWasReal`.

### Front panel

One call of `displayRefresh` is one action: button, mode, page, time, one line.
The screen keeps what was drawn, so that what is left of an earlier page, time
or colour shows. `fatal`, `warn` and the status line come from anywhere in the
program before and in the loop. `checkForReset` has the switch that also selects
recovery mode at power up.

## Runs

All runs finish with two workers in under four minutes each.

| Run | Question | Bounds and why they suffice |
|---|---|---|
| `EpicsLinkRetry` | Does one IOC that retries get at-most-once execution, truthful answers, an answer in the end, and no forced reset it did not write three values for? Does the server implement `AtMostOnceRpc`? | three commands of four kinds, three boots: a full reboot sequence, a reset, and a retry of each of its writes after it; nonces 2, 0, 1 pass the wrap and the 0 that a booted server starts from (347608 states) |
| `EpicsLinkShared` | What is left when two IOCs of different byte order share the reply buffer and datagrams overtake? | two commands each, accepted and refused: each may overwrite the buffer under the other (226930) |
| `BcmReadout` | Is a complete waveform of one acquisition and rightly scaled? Does the recorder always go on? | sizes of one packet and beyond the limit, pass counts 0 and 2, two tags (145572) |
| `HsdDisarm` | Is a waveform whole when the recorder is disarmed and armed at every clock; and does it finish? | two arms: the second meets every state the first can leave (382299) |
| `Digitizer` | recorder: whole, trigger in place, in each mode. readout: are packets of one acquisition? pages, clock, switch: is what the screen shows so? | recorder: 32 words, segments of 32, 16 and 8, early and later gaps, real latencies and samples per word; pretrigger counts at both limits and off the boundary of a word; the memory wraps before the trigger. readout: a bonded pair, two acquisitions, waveforms of two packets, a reply of seven words, which the header all but fills. panel: pages of one and two lines, warnings that run out of bytes, rows and entries at different times, three seconds (356062) |
| `HsdStaleTrigger` | (violation) the trigger is in place after a disarm | |
| `TftpSequence` | Are files whole and in order, whatever is lost and wherever a client gives up? Does a get end? | four blocks and three block numbers: numbers wrap within a transfer; two transfers: the second meets what the first left (29366) |
| `TftpFaults` | Is no block stored twice when uploads are given up, datagrams overtake each other and an open or a write fails? | two uploads or refused requests of three blocks (329937) |
| `TftpWriteError` | (violation) a put that succeeds is stored although a write failed | |
| `Operator` | parameters: is what runs what a restart would bring, is an upload all or nothing? console: are addresses changed as confirmed, points and events shown where and when they happened, does nothing wait for ever? | three parameters: first, middle, last line. Console: a serial port and a client, keys for each of settings, commands, scan, log; a line of two keys, so that it overflows; a scan of nine points in two formats; a ring of three and five events, so that it wraps (138221) |
| `Board` | clocks, monitors: does every access reach its device, are settings put back? analogue, eeprom: are calibrations current, chunks in place? aligner, events: are the converters in step with the receiver, do actions stand? seconds, forward, time: is the time right, does it cross in order, was what is read the time? | two channels that share a port, trigger levels set for one; three synthesizers, one beyond its table, on the ZCU111 and two on the ZCU208, a table with register 0 and one without; two multiplexers and the devices that share an address, read on the ZCU208, whose tables are those of the other board; one failure within an operation of the buses, one altogether in the front end; an offset and a calibration voltage beyond their limits; files of 2 chunks, of all 16 and of one more, three generations of copies told apart; one loss of a stable alignment, two calls to the converters that fail; four seconds of three fractions; sixteen seconds of four bits, two disturbances, so that a second lacks bits and runs into the next one; five cycles of forwarding, three round trips (39259) |
| `ParametersPartial` | (violation) an upload is all or nothing, for tables that lack lines | |

Three runs show disagreements between the code and what it says of itself:

- `HsdStaleTrigger`: going inactive clears neither `watchForTrigger` nor
  `triggered` (`acquisitionHSD.v:254-260`), so a trigger around a disarm is the
  trigger of the next arm.
- `TftpWriteError`: `lastBlock` is set before the write (`tftp.c:296`), so the
  repetition of a block that could not be written is acknowledged.
- `ParametersPartial`: `visited` is never cleared (`systemParameters.c:316`), so
  the check for missing parameters is good for one table per boot.

### Further departures and limits

Found while modelling. A property that would not hold with them leaves them out
by a condition in its text or by the bounds of its run, as said here.

Recorders:

- Minimum segment interval: the manual's minimum of one more than the segment
  length makes a counter load of minus one (`acquisition.c:92-95`): `Digitizer`
  with `Intervals <- IntervalsMinimum` violates `WholeWaveform` (here and in the
  next one, once `UseAssumption` of `MCHsdRecorder`, which excludes both, is
  taken out).
- Maximum pretrigger count: the limit is that of the contiguous mode in every
  mode (`acquisition.c:455-460`): `MaxPretrigger <- Unlimited32` and 216 among
  the counts violates `WholeWaveform`.
- Settings of an armed recorder are used at once (`acquisition.c:404`) although
  the manual says they wait for the next arm: `ConfigWhileActive = TRUE`.
- BCM: five seconds after an acquisition ended its readout is cleared, idle or
  not (`acquisition.c:770-781`); the soft-trigger flag may stand on an
  acquisition an event started (`761-763`); a fetch before the first crank
  starts an acquisition whose pass count the first crank then replaces
  (`754-756`, `834`). A size that is not a multiple of the samples of a word is
  taken as it is (`721-722`), and the recorder stops within a word: the last
  samples read are from another acquisition. `BcmReadout` has whole words, and
  `ReadoutSound` assumes them.

TFTP and files:

- A failed read leaves the previous block in `cbuf`, which an acknowledgment of
  another block sends again (`tftp.c:134-143`, `353`): `TftpSequence` with
  `MaxFailures = 1` violates `GetCompletes`.
- When the ACK of the last block of a put is lost, the server ignores the
  repeated block (`tftp.c:289`, `335`): the put never ends for its client
  although the file is stored.
- A late duplicate of a write request truncates a file that was accepted
  (`tftp.c:264`); a read request whose `preTransmit` fails resets `lastBlock` and
  leaves the upload's file open for writing (`tftp.c:253`). `TftpFaults` has
  uploads and refused requests only, and its property is about order.
- A file for the EEPROM of more than 256 bytes is written over its own beginning,
  without an error (`afe.c:541`); one that cannot be read on ends the copy with a
  success (`afe.c:533`). `ChunksInPlace` says what is where after that.

Command server, console and panel:

- 1, 1, 100, 10000 forces no reset: after the mismatch the value is not tried as
  the first of the sequence (`epics.c:72-80`).
- `cmdUMGT` adjusts the clock to the offset kept so far and then keeps the new
  one (`console.c:527`): it takes effect at the next restart or command.
- A key at the serial port clears the client's port while output for it is
  buffered (`console.c:670`): `NothingWaits` says that it leaves, not to
  whom.
- A log left off because it could not keep up leaves the logger enabled, so the
  next one prints what the ring has kept (`console.c:441`): `EventsInOrder`
  leaves such logs out, and readers behind by a whole ring, who cannot tell.
- The first point of an eye scan shows the count at the centre
  (`eyescan.c:337`), as `eyescanSync` leaves RUN set.
- A long press replaces even a fatal message by the first page, and a dark screen
  stays dark when a fatal message is shown (`display.c:377`). When the time is
  not good, an uninitialized string is drawn in its place (`display.c:241`).

Time of day:

- `secondsValid` and `ppsValid` are connected to nothing
  (`EventReceiverTop.v:641-643`). The display takes any seconds but 0 for the time
  as long as markers come at all (`display.c:227-232`), a waveform's time stamp asks
  for nothing: after a lost marker old seconds are read until two whole seconds
  have come. `SecondsAreTrue` says how long that lasts.
- Of the counters of short and long seconds a reset clears one twice and the
  other never (`todReceiver.v:202-203`). `evCodeValid` guards only one of the two codes
  of bits (`todReceiver.v:268`); no control character has the value of the other.
- Forwarding has one flip-flop in each direction (`timestamp_forward.v:29`, `34`),
  where `forwardData.v`, which is used nowhere, has two.

Board:

- `selectTriggerEventAction` removes a trigger from the event it chose before,
  also when `setEventAction` has mapped it since: `OneTriggerEvent` is about
  boards without the latter command.
- The PMBus page is written to IRPS5401_B whichever controller is read
  (`iic.c:302`); only that one is ever read with a page.
- An adjustment that fails half way leaves the oscillator frozen
  (`user_mgt_refclk.c:56`); a status pin whose write failed stays wrong until the
  next inspection (`rfclk.c:245`).
- Trigger levels are converted while the coupling reads OPEN and not again when
  it is put back or changed (`afe.c:310`): the offset of an AC coupled channel is
  that of DC. `CalibrationIsCurrent` is about gain, voltage and readings.
- `afeADCrestart` loses couplings and calibration voltage (`afe.c:360`): the
  calibration takes OPEN for what the user had. A DAC write that fails answers
  -1, and -1 restored later means 0 V (`afe.c:295`).
- A table without register 0 is taken as any other (`epics.c:200-201`): the
  synthesizers run on with the settings of the reset, and the next inspection gives
  them register 0 of an older table (`rfclk.c:61`, `244`). On the ZCU111 the third
  synthesizer has no entry in the array at all (`rfclk.c:43`, `67`, with
  `iic.c:13-17` and `iic.h:54-56`): its configuration writes beyond it.
  `StatusPinShowsLock` says the first, and nothing of that channel after an
  inspection.
- A synchronization that fails returns with SYSREF enabled and is not tried
  again, although the aligner is content (`rfadc.c:248`, `mgt.c:142-144`): the
  property is about the time from the next one that succeeds. That the synthesizers
  are configured anew under running converters, which are not synchronized after
  it (`epics.c:200`), is not in `synced`.

### Fairness

- `EpicsLinkRetry`: weak fairness of an answer to the current command and of its
  acceptance. The client resends until it is answered, and not every datagram
  and every packet allocation fails.
- `BcmReadout`: weak fairness of each crank, of the time-outs, of a soft trigger
  and of the end of an acquisition. The main loop calls `acquisitionCrank` each
  turn and clocks run. Nothing is assumed of events or of the reader.
- `HsdDisarm`: weak fairness of the two clocks.
- `TftpSequence`: strong fairness of reception at each end, weak fairness of the
  time-out. The network does not lose everything.
- `Operator`: weak fairness of `consoleCheck`, which the main loop calls each
  turn, and of the times of the output and of the scan. Nothing is assumed of
  the transceiver's counts, of events, or of people.
- `Board`: weak fairness of what main does with the aligner (it waits, cranks,
  starts the converters and cranks on) and of its time; strong fairness
  of coming out of a reset aligned, since without it the receiver may never be
  aligned whatever the code does; weak fairness of the edges of both clocks. The
  steps of a reading of the time are weakly fair, while the clock may always come
  between them, for a bounded number of seconds. Each is stated for the part in
  focus, in `MCBoard`.

Deadlock is not checked where clients stop after a bounded number of commands,
transfers or arms, in `Digitizer` for the same reason, and in `BcmReadout`,
whose reader and settings may rest.

## Proofs

Checked by `tlapm` for every value of the constants that satisfies the assumptions
of the modules: any number of clients, commands, boots, parameters, values and
tables, acquisitions, samples, transfers, blocks, warnings, events, seconds, cycles,
addresses, keys, devices, failures and channels. A hypothesis of a theorem is named,
and true of the constants of the run that checks the same property; the one
exception is `MarkersArrive`, which is about behaviours and is explained where it is
used. Every safety property of the passing runs is the conclusion of a theorem.

Command server (`EpicsLinkProofs`):

- `TypeCorrect`: `[]TypeOK`, by one lemma per action.
- `AtMostOnceExecution`, `TruthfulAnswers`, `RpcRefinement`: `[]AtMostOnce`,
  `[]AnswersOwnCommand` and the implementation of `AtMostOnceRpc` (whose `repeated`
  stays empty and whose answers carry the run of their own command), under
  `SoleOrderedClient`: a single client whose datagrams arrive in order. Neither
  property is inductive. `IInv` adds what makes them so: what ran in this boot is
  older than the newest arrival, or is that arrival and its nonce is the one
  remembered (`RanBeforeNewest`); the cache is the truthful answer to an earlier
  arrival as long as nothing newer came (`CacheIsTruthful`); every packet on the
  network is a truthful answer (`RepliesAreTruthful`). Without `SoleOrderedClient`
  they do not hold: another client, or an older command, changes `lastNonce` between
  a command and its repetition.
- `SharedAnswers`: `[]AnswersOwnAccepted`, what is left for any number of clients on
  any network, when no two use the same nonce (`NoncesDiffer`). The invariant
  (`SharedInv`) is about the reply buffer and every packet in flight: whoever would
  take it for its own, by nonce and byte order, is told of its own command if it is
  told of a success.
- `ResetsPaid`: `[]ResetsArePaidFor` under `SoleOrderedClient`. The property counts
  three kinds of commands against resets and says nothing of a sequence half done;
  `ResetInv` counts, for each position of `rebootIndex`, the commands of each kind
  up to the newest arrival, and that no command was sent twice anew.

BCM (`BcmAcquisitionProofs`):

- `ReadoutSound`: `[]ReadoutIsSound` under `WholeWords` (sizes of whole words, as
  above). `ReadoutInv` adds what the recorder holds when it is inactive
  (`RecordedInv`), what the processor took over of its settings (`ReloadInv`), and,
  for a waveform that is not finished, that the words still to be read are the ones
  of its acquisition or that it is already known to be unsound (`WaveInv`).

HSD recorder (`DigitizerProofs`):

- `TypeCorrect`: `[]TypeOK`, whatever is set and whenever. The counters end a little
  below zero; how far below depends on the state (`CountersAbove`).
- `WaveformIsWhole`: `[]WholeWaveform` under `DocumentedUse`: settings of a recorder
  in use are left alone, a pretrigger time is at most six clocks less than a
  segment, a gap has at least two clocks and fits its field, and enough samples are
  discarded. The first three are the limits noted under "Recorders" above;
  disarming, at any moment, is not excluded. TLC evaluates `DocumentedUse` for the
  instances of its runs (`UseAssumption` in `MCHsdRecorder`). `RecorderInv` says for
  each state of the machine how many words of the waveform the memory holds, and
  counts time from its first word: `Held` gives the age of each word as it should
  be, `HeldOrWritten` allows that the last one is being written. A clock adds one to
  the time and to all ages, so that only the word written has to be looked at
  (`NextHeld`); that it is none of those already held is arithmetic modulo the
  memory (`PlacesDiffer`). Before the trigger the first word is not known yet:
  `Recent` holds of the words behind the write address, as many as the pretrigger
  counter has let pass, and the trigger makes the last ones of them the first ones
  of the waveform. When the machine is done, the processor's arithmetic leads to the
  same words (`WhenFull`): its rounding to clocks and the latency it corrects for
  fit in the samples it discards.
- `TriggerStays`: `[]TriggerInPlace` under `DocumentedUse` and `~DisarmWhileActive`;
  `HsdStaleTrigger` refutes it otherwise. `TriggerInv` adds that a trigger is
  remembered only while its own acquisition is active (`TriggerSeen`) and has, from
  then on, the age of the first word less the pretrigger clocks (`TriggerFollows`).
- The provers know nothing of powers: that two to the width of a field is positive,
  and that the wider field has the larger range, is `FieldsAssumption`, which TLC
  evaluates.

HSD readout and front panel (`DigitizerProofs`):

- `PacketsSound`: `[]PacketsAreSound`. `PacketsInv` ties a channel's memory to the
  channel whose registers are used for it: only members of a group are bonded
  (`OnlyMembersAreBonded`), a steady channel's memory is dated by its controller
  unless that is recording (`SteadyIsDated`), and the samples in the client's hands
  are in order and, while it reads, still those in memory (`InOrder`,
  `StillInMemory`). That a packet fits (`RepliesFit`) is the arithmetic of words and
  samples of any width; a reply must have room for more than its header
  (`ReadoutAssumption`), which `acquisition.c:370` refuses otherwise.
- `PanelIsTrue`, `RecoveryIsHeld`, `PanelHolds`: `[]ScreenIsTrue`, `RecoveryHolds`,
  `[]PanelTypeOK`. `PanelInv` says how far the drawing of a page has come: the lines
  named are the first ones of this page, and there are values only when all are
  (`PageInv`); the characters on the screen are those of the string that `drawTime`
  remembers, or a status line erased them (`TimeInv`); a switch seen open, or pushed
  anew, has been let go (`ResetInv`). `displayRefresh` is proved part by part: each
  lemma says what a part of it leaves alone (`SameTime`, `SameDrawing`, ...).
- `KindsAndSizes`: `[]DigitizerTypeOK` of the composition `MCDigitizer`, from the
  types of the three parts; each step is a step of one of them.

TFTP (`TftpServerProofs`):

- `UploadsStoredOnce`: `[]StoredOnce` under `ShortUploads`: uploads and refused
  requests, and block numbers that do not wrap. The network may reorder and repeat
  and the card fail. `UploadInv` says that the file holds blocks up to `lastBlock`
  only. Neither condition can be dropped: a late ACK of a download advances
  `lastBlock` while a file is open for writing, and a block number that wraps lets
  an old block pass for a new one.
- `PutsKept`: the action property `PutsAreKept` under `InOrderNetwork`: nothing is
  reordered and nothing fails, while clients give up and datagrams are lost, for
  transfers of any kind and size, block numbers that wrap included. `SequenceInv`
  says which transfer the server is at (`AtTransfer`) and, of an upload, that the
  client is at most one block ahead (`UploadingAt`) and what is on the network in
  each direction is at most two kinds of packet, the older before the newer
  (`AtMostTwo`): a number modulo two blocks or more then tells which.

System parameters (`OperatorProofs`):

- `TypeCorrect`: `[]TypeOK`.
- `RestartSafe`: `[]RestartChangesNothing` under `OnlyWholeTables`, with
  `KeptIsRunning`: the file is whole, and if it was kept it is the running values.
  The invariant alone says what a boot would compute and is not inductive: it does
  not follow from it what the next save writes.
- `UploadsAreAtomic`: the action property `AllOrNothing` under `OnlyWholeTables`,
  from `TypeOK`.

Receiver and its time (`BoardProofs`):

- `TimeIsReal`: `[]TimeWasReal`. The invariant of the reader is that once the
  fraction is read there was a moment of the call with that fraction and a second
  between the one read before and now; when those agree, it was that second. The
  property alone says nothing of a reading under way.
- `AlignerSynchronizes`: `[]AlignedInStep`, for any number of lost alignments and of
  failing calls. The invariant (`Aligning`) adds that the reset line is tied to one
  state and that the driver is initialized exactly when main is in its loop, so that
  no crank of the boot counts for a synchronization. No state but `achieved` enters
  `aligned`, and what a call in it, or a restart before it, can leave behind is
  followed through each failure (`DriverCalled`, `SyncIs`, `RestartIs`).
- `EventActionsAreKept`: `[]EventActionsStand`, with the types of the map; event 0 is not an event
  (`ReceiverAssumption`), or "none chosen" would be one.
- `ForwardedInOrder`: `TimeGoesForward`, for clocks of any phase and ratio. The
  invariant is that going round from `req_in` to `req_out`, `req_d_out` and `ack_in`
  there is at most one change, and that what is still moving is where the change is:
  so nothing moves when the word is taken, and it is not latched again before
  (`TakenWhenStill`).
- `ReceiverRecovers`: `[]RightAfterTwo`, whatever codes are lost and whenever the
  receiver is reset: after two whole undisturbed seconds its seconds are right, for
  a register of any width. `RxInv` says how: while a second comes whole, the bits
  shifted in are the topmost bits of the second that is sent, the bits still to come
  are counted, and after one marker the register holds a whole second (`Clean`). The
  shift register is the remainder of its contents modulo a power of two; the power
  is a recursive function (`Power`), whose values are shown to be those of the usual
  equations by an induction over a set.
- `SecondsStayTrue`: `[]SecondsAreTrue` under `MarkersArrive`, the only disturbances
  being lost bits and resets. A lost marker makes the bits of two seconds run into
  one word: with four seconds of four bits, TLC finds no false second that is
  counted on after at most four disturbances (the run has two), and one after five,
  four lost bits and a marker. `ReceiverRecovers` is the part that needs no bound.

Front end (`BoardProofs`):

- `SoftwareKnowsTheFrontEnd`: `[]CalibrationIsCurrent`, for any number of channels,
  any gains, voltages and levels, any number of failing transfers and any order of
  commands and restarts.
- `GainLeavesTheRest`: the action property `GainKeepsTheRest`.
- `ChunksStayInPlace`: `[]ChunksInPlace`, for files of any length and copies cut
  short anywhere. The loop of the copy has its own invariant (`Copied`): after `k`
  chunks the address is what they add up to, and the first `k` places, or all of them
  when the file has gone round, are of this copy.
- All from `FrontEndInvariant`: `[]FeInv`. Its parts are the kinds of the state;
  that the shadow register is the coupling asked for and every switch not in doubt
  stands there (`Believed`); that gain, amplifier, calibration voltage and scale of
  each channel belong together (`Calibrated`); and, as long as nothing failed, that
  readings are of the present state and the converters frozen (`Fresher`). The
  property alone is not inductive: a calibration goes through `CAL` and `OPEN`, with
  a gain and a voltage of its own, and puts back what it found, so what it found
  must be right. Each operation is proved for the channel it is about
  (`CalibratedChannel`) and shown to leave the others alone (`Elsewhere`); the loops
  over channels are uses of `InTurnRule`. Writing it showed that the type of the
  remembered voltage was too narrow: a calibration puts back the one of the gain it
  was called with.

Buses and clocks (`IicBusProofs`):

- `AccessesReachTheirDevice`: `[]AccessesReach`. No message reaches a device that it
  was not meant for, and a successful reading is of the page asked for.
- `PinsShowTheLock`: `[]StatusPinShowsLock`, for any channels, tables and number of
  synthesizers: what the configuration has stored for register 0 of each synthesizer
  is of the last table that had one, whatever transfers failed when it was sent.
- `OffsetsDoNotAddUp`: `[]AdjustedFromFactory`.
- All from `BusInvariant`: `[]BusInv`, for any devices, supplies, controllers,
  tables and offsets, and any number of failures. The properties say nothing of what
  the software remembers after a transfer failed, and everything depends on that:
  what is remembered of a multiplexer is its setting, or is known to be unknown,
  since a failed setting may have been heard (`Wired`; a boot takes the first
  multiplexer to be closed, `iic.c:134`, and sets it anew for any port); what is
  remembered of a page or of the line of the bridge is right or nothing (`Paged`,
  `Picked`).
- `BusAssumption` is the wiring that makes it true: two devices of one controller
  with the same address are behind different ports, and neither is in front of the
  multiplexers. The tables of `iic.c` are so on every target.

Loops (`InTurnRule`):

- `InTurnRule`: what holds of the state before the first element and is kept by the
  body for each element in its turn holds of every outcome of the loop (`InTurn`),
  ten loops of the code. The induction is over the length of the sequence; since the
  library's induction theorems take an operator, it is done for a set of numbers
  (`SetInduction`), from well-foundedness. The loop body is a constant operator of
  the module, so that each loop instantiates it `WITH` its own.

Console (`OperatorProofs`):

- `QuestionsAreHonoured`: `ChangedAsConfirmed`, the refinement of
  `OperatorSettings`, for any input whose commands carry addresses (`ProperInput`).
  The invariant adds that a mode that asks has an address to ask about, and that the
  line and what is still to be read are keys. Each step of the console is one of
  `Ask`, `Confirm`, `Forget`, `SetOffset`, or a stutter.
- `BuffersHold`: `[]ConsoleTypeOK`, the console's half of `OperatorTypeOK` (the
  other is `TypeCorrect` above): indices and counts of the output, start-up and line
  buffers stay within them.
- `KindsAndSizes`: `[]OperatorTypeOK` of the composition `MCOperator`, under
  `OperatorInput`: the addresses that the run's keys carry are among the constants.
- `LogInOrder`: `[]EventsInOrder`, with the invariant (`LogInv`) that the reader's
  address is that of the next event to be printed modulo the ring, unless it was
  lapped or started again on old entries.
- `ScanShowsItsCounts`: `[]CountedWhereShown`. `ScanInv` follows the position in the
  raster, the offsets in the registers and what the next count will be of, through
  the crank's states.

What is not proved, and why:

- All liveness and fairness: the prover has no rules for them. `EventuallyAnswered`,
  `AcquisitionCompletes`, `RecorderIsRearmed`, `GetCompletes`, `NothingWaits` and
  `MCProgress` stay with TLC.
- `SecondsAreTrue` when markers are lost: it holds for a bounded number of
  disturbances, not for any (see `SecondsStayTrue`); two are TLC's.
- `MCBoard` as a composition: its parts share no state and each has its theorems.
- `TftpServer` with everything at once (downloads that are reordered, failing
  reads): `StoredOnce` does not hold there, see above.

## Not modelled

- Clock domain crossings other than that of the time (`forwardData.v`,
  `adcRangeCheck.v`, `sysrefSync.v`, `evrSROC.v`): the first is used nowhere, the
  second is right if an access to the bus takes longer than a toggle, the others
  synchronize clocks. How the fraction of a second is computed (`todReceiver.v`), and
  the gateware of the event receiver beyond its map and its time.
- The card's mounting and removal (`ffs.c:76-111`), beyond files that fail.
- DHCP and the network drivers; the timers of the network stack run in an
  interrupt (`platform_zynqmp.c:75`) between any two instructions of the loop,
  which calls the same stack: that race is inside a library.
- What the driver does within a call that restarts or synchronizes the converters,
  their defaults, MMCMs, the divider of SYSREF, frequency counters.
- The BRAM variant of the acquisition for the BPM; the edge detector of the
  trigger; the arithmetic of means and volts.
- Commands that write one register and are read by nothing, `powerUpStatus`,
  and console commands that only print.
- Pixels and fonts of the screen and the fill of its FIFO; register blocks and
  wiring.

## Plan

The card (`ffs.c`) composed with `TftpServer` and `SystemParameters`: a mount that
fails between an upload's blocks, or between two saves.
