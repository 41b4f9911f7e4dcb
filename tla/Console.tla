------------------------------ MODULE Console ------------------------------
(***************************************************************************)
(* The command console (software/src/console.c): one interpreter with one  *)
(* line buffer for the serial port and for the clients of a UDP port.  The *)
(* main loop calls consoleCheck, which reads at most one character; an eye *)
(* scan, the replay of the start-up output and the event log are cranked   *)
(* by it.  Datagrams arrive between two calls.                             *)
(*                                                                         *)
(* The text of a whole command is one key, and a line with two of them is  *)
(* no command.  Output is counted in pieces, not characters.  Restarts     *)
(* keep the settings: see SystemParameters.                                *)
(***************************************************************************)
EXTENDS EyeScan, EventLog

CONSTANTS
  Addresses,    \* the values that an IP or Ethernet address may have
  Adjustments,  \* the values of the offset of the reference clock
  Clients,      \* clients of the UDP port
  Datagrams,    \* what they send: sequences of keys
  SerialKeys,   \* keys typed at the serial port
  MaxLine,      \* keys that the line buffer holds
  ObufSize,     \* pieces that the output buffer holds
  StartSize,    \* pieces that the start-up buffer holds
  NoAddress, NoClient, NoQuestion

Key(word, arg) == [word |-> word, arg |-> arg]
DrainLimit == 1  \* 100 ms

ASSUME ConsoleAssumption ==
  /\ NoAddress \notin Addresses
  /\ NoQuestion \notin [of : {"net", "mac"}, value : Addresses]
  /\ MaxLine \in Nat /\ ObufSize \in Nat \ {0} /\ StartSize \in Nat \ {0}

VARIABLES
  mode,      \* consoleMode
  ipv4,      \* the address a question is about
  macBuf,    \* the Ethernet address a question is about
  settings,  \* the system parameters that commands change
  clock,     \* the offset that the reference clock has been adjusted to
  line,      \* the line buffer
  input,     \* characters received at the serial port, and pbufIn
  out        \* output buffered for UDP and recorded at start-up
consoleVars == <<mode, ipv4, macBuf, settings, clock, line, input, out, es, tl>>
question == <<mode, ipv4, macBuf>>
stored == <<settings, clock>>
----------------------------------------------------------------------------
(* outbyte, udpConsoleDrain.                                               *)
DrainToClient(o) == IF o.to = NoClient THEN o ELSE [o EXCEPT !.n = 0]
Drain(o) == [o EXCEPT !.n = 0]
Recorded(o) == IF o.startup /\ o.logged < StartSize THEN [o EXCEPT !.logged = @ + 1] ELSE o
Buffered(o) ==
  LET more == [o EXCEPT !.n = @ + 1, !.age = IF o.n = 0 THEN 0 ELSE @]
  IN  IF o.to = NoClient THEN o ELSE IF more.n >= ObufSize THEN Drain(more) ELSE more
outbyte(o) == Buffered(Recorded(o))
DrainIfOld(o) == IF o.n # 0 /\ o.age > DrainLimit THEN Drain(o) ELSE o
OutputTime == /\ out.n # 0 /\ out.age <= DrainLimit
              /\ out' = [out EXCEPT !.age = @ + 1]
              /\ UNCHANGED <<question, stored, line, input, es, tl>>

(* console_callback: empty datagrams and overruns are ignored.             *)
console_callback(client, p) ==
  /\ p # <<>> /\ input.pbuf = <<>>
  /\ input' = [input EXCEPT !.pbuf = p]
  /\ out' = [out EXCEPT !.to = client]
  /\ UNCHANGED <<question, stored, line, es, tl>>
Typed(key) == /\ input.serial = <<>>
              /\ input' = [input EXCEPT !.serial = <<key>>]
              /\ UNCHANGED <<question, stored, line, out, es, tl>>

----------------------------------------------------------------------------
(* Commands.  Those left out only print, or are actions of other modules.  *)
(* A replay that has ended has made the mode that of commands.             *)
Mode == IF mode = "log" THEN "command" ELSE mode
Stay == mode' = Mode /\ UNCHANGED <<ipv4, macBuf, stored>>
Answered == mode' = "command" /\ UNCHANGED <<ipv4, macBuf, clock>>
AskIf(new, query) == mode' = IF new THEN query ELSE "command"

(* cmdNET and cmdMAC: the new address goes to static storage, and there is *)
(* a question when it is not the present one; a bad one is stored as well. *)
cmdNET(k) == /\ ipv4' = k.arg /\ UNCHANGED <<macBuf, stored>>
             /\ AskIf(k.word = "net" /\ settings.net # k.arg, "net")
cmdMAC(k) == /\ macBuf' = k.arg /\ UNCHANGED <<ipv4, stored>>
             /\ AskIf(k.word = "mac" /\ settings.mac # k.arg, "mac")

(* cmdUMGT: the clock is adjusted to the offset that was kept and then the *)
(* new one is, unless the adjustment failed.                               *)
cmdUMGT(k) ==
  /\ mode' = "command" /\ UNCHANGED <<ipv4, macBuf>>
  /\ \/ settings' = [settings EXCEPT !.offset = k.arg] /\ clock' = settings.offset
     \/ UNCHANGED stored
cmdBOOTorLOG(k) == mode' = k.word /\ UNCHANGED <<ipv4, macBuf, stored>>

commandCallback(k) ==
  \/ k.word \in {"net", "netBad"} /\ cmdNET(k)
  \/ k.word \in {"mac", "macBad"} /\ cmdMAC(k)
  \/ k.word = "userMGT" /\ cmdUMGT(k)
  \/ k.word \in {"boot", "log"} /\ cmdBOOTorLOG(k)
  \/ k.word \in {"tlog", "xcvr", "yes", "no", "none"} /\ Stay

(* netQueryCallback, macQueryCallback: yes stores the address, no does not *)
(* and anything else asks again.                                           *)
ConfirmedNet(of) == [settings EXCEPT !.net = ipv4]
Confirmed(of) ==
  IF of = "net" THEN [settings EXCEPT !.net = ipv4] ELSE [settings EXCEPT !.mac = macBuf]
netQueryCallback(k) ==
  \/ k.word = "yes" /\ settings' = Confirmed("net") /\ Answered
  \/ k.word = "no" /\ UNCHANGED settings /\ Answered
  \/ k.word \notin {"yes", "no"} /\ Stay
macQueryCallback(k) ==
  \/ k.word = "yes" /\ settings' = Confirmed("mac") /\ Answered
  \/ k.word = "no" /\ UNCHANGED settings /\ Answered
  \/ k.word \notin {"yes", "no"} /\ Stay
bootQueryCallback(k) ==
  /\ k.word # "yes" /\ UNCHANGED <<ipv4, macBuf, stored>>
  /\ mode' = IF k.word = "no" THEN "command" ELSE "boot"

(* handleLine; the scan and the log are started from where they were left. *)
handleLine(k) ==
  \/ Mode = "command" /\ commandCallback(k)
  \/ Mode = "boot" /\ bootQueryCallback(k)
  \/ Mode = "net" /\ netQueryCallback(k)
  \/ Mode = "mac" /\ macQueryCallback(k)
Starts(k, word) == Mode = "command" /\ k.word = word
ScansAfter(k, s) == IF Starts(k, "xcvr") THEN eyescanCommand(s) ELSE {s}
LogAfter(k, t) == IF Starts(k, "tlog") THEN tlogStart(t) ELSE t

NoInput == [serial |-> <<>>, pbuf |-> <<>>]
OutAtBoot == [n |-> 0, age |-> 0, to |-> NoClient, startup |-> TRUE, logged |-> 1, replayed |-> 0]
resetFPGA ==
  /\ mode' = "command" /\ ipv4' = NoAddress /\ macBuf' = NoAddress
  /\ line' = <<>> /\ input' = NoInput /\ out' = OutAtBoot
  /\ es' = ScanAtBoot /\ tl' = LogAtBoot
  /\ clock' = settings.offset /\ UNCHANGED settings

----------------------------------------------------------------------------
(* A character that was read.  o, s, t: the output, the scan and the log.  *)
Word(l) == IF Len(l) = 1 THEN l[1] ELSE Key("none", NoAddress)
EndOfLine(o, s, t) ==
  LET ended == outbyte([o EXCEPT !.startup = FALSE])
  IN  /\ ~(mode = "boot" /\ Word(line).word = "yes")
      /\ handleLine(Word(line))
      /\ es' \in ScansAfter(Word(line), s) /\ tl' = LogAfter(Word(line), t)
      /\ line' = <<>> /\ out' \in {ended, outbyte(ended)}
Erased(l) == IF l = <<>> THEN l ELSE SubSeq(l, 1, Len(l) - 1)
ExtendedAnyhow(l, key) == Append(l, key)
Extended(l, key) == IF Len(l) < MaxLine THEN Append(l, key) ELSE l
Edit(key, o, s, t) ==
  /\ line' = IF key.word = "backspace" THEN Erased(line) ELSE Extended(line, key)
  /\ out' = IF line' = line THEN o ELSE outbyte(o)
  /\ Stay /\ es' = s /\ tl' = t
ReadKey(key, o, unread) ==
  LET s == eyescanStep(es)
      t == tlogStop(tl)
  IN  \/ /\ input' = unread
         /\ IF key.word = "newline" THEN EndOfLine(o, s, t) ELSE Edit(key, o, s, t)
      \/ /\ key.word = "newline" /\ mode = "boot" /\ Word(line).word = "yes"
         /\ resetFPGA

(* The buffer of a datagram is freed with its last character.              *)
LastIsKept(p) == IF Len(p) = 1 THEN p ELSE Tail(p)
RestOf(p) == Tail(p)

(* consoleCheck: the replay, else the scan, else a character from the      *)
(* serial port or the datagram, else the log.                              *)
Replayed(o) == [o EXCEPT !.replayed = 0]
Current == Replayed(DrainIfOld(out))
Replay ==
  /\ mode = "log" /\ out.replayed < out.logged
  /\ out' = [outbyte(DrainIfOld(out)) EXCEPT !.replayed = @ + 1]
  /\ UNCHANGED <<question, stored, line, input, es, tl>>
Attentive == mode # "log" \/ out.replayed >= out.logged
Scan ==
  /\ Attentive /\ Busy(es) /\ es' = eyescanStep(es)
  /\ out' \in {Current, outbyte(Current)}
  /\ Stay /\ UNCHANGED <<line, input, tl>>
ReadSerial ==
  /\ Attentive /\ ~Busy(es) /\ input.serial # <<>>
  /\ ReadKey(Head(input.serial), [Current EXCEPT !.to = NoClient],
             [input EXCEPT !.serial = <<>>])
ReadDatagram ==
  /\ Attentive /\ ~Busy(es) /\ input.serial = <<>> /\ input.pbuf # <<>>
  /\ ReadKey(Head(input.pbuf), Current, [input EXCEPT !.pbuf = RestOf(@)])
Idle ==
  /\ Attentive /\ ~Busy(es) /\ input.serial = <<>> /\ input.pbuf = <<>>
  /\ es' = eyescanStep(es) /\ tl' \in tlogCrank(tl)
  /\ out' = IF tl.active THEN outbyte(Current) ELSE Current
  /\ Stay /\ UNCHANGED <<line, input>>
consoleCheck == Replay \/ Scan \/ ReadSerial \/ ReadDatagram \/ Idle

Hardware ==
  /\ UNCHANGED <<question, stored, line, input, out>>
  /\ \/ ScanEnvironment /\ UNCHANGED tl
     \/ LogEvent /\ UNCHANGED es

ConsoleInit ==
  /\ settings \in [net : Addresses, mac : Addresses, offset : Adjustments]
  /\ mode = "command" /\ ipv4 = NoAddress /\ macBuf = NoAddress
  /\ line = <<>> /\ input = NoInput /\ out = OutAtBoot
  /\ es = ScanAtBoot /\ tl = LogAtBoot /\ clock = settings.offset
ConsoleNext ==
  \/ \E client \in Clients, p \in Datagrams : console_callback(client, p)
  \/ \E key \in SerialKeys : Typed(key)
  \/ consoleCheck \/ OutputTime \/ Hardware \/ resetFPGA
ConsoleSpec == ConsoleInit /\ [][ConsoleNext]_consoleVars
ConsoleFairness ==
  WF_consoleVars(consoleCheck) /\ WF_consoleVars(OutputTime) /\ WF_consoleVars(ScanTime /\ Hardware)
----------------------------------------------------------------------------
(* The line and the output stay within their buffers.                      *)
ConsoleTypeOK ==
  /\ mode \in {"command", "log", "boot", "net", "mac"}
  /\ Len(line) <= MaxLine /\ out.n < ObufSize /\ out.logged <= StartSize
  /\ ipv4 \in Addresses \cup {NoAddress} /\ macBuf \in Addresses \cup {NoAddress}

(* Whoever types between a question and its answer, an address is changed  *)
(* by yes only, to the address that was shown.                             *)
OpenQuestion ==
  CASE mode = "net" -> [of |-> "net", value |-> ipv4]
    [] mode = "mac" -> [of |-> "mac", value |-> macBuf]
    [] OTHER -> NoQuestion
Operator == INSTANCE OperatorSettings WITH
  Addresses <- Addresses, Adjustments <- Adjustments, NoQuestion <- NoQuestion,
  kept <- settings, asked <- OpenQuestion
ChangedAsConfirmed == Operator!AbsSpec

(* A key that was typed is read in the end, whatever is being replayed or  *)
(* scanned; a scan whose counts never finish included.                     *)
KeysAreRead == input.serial # <<>> ~> input.serial = <<>>

(* A datagram is read to its end, unless keys are typed all the time: the  *)
(* serial port is asked first.                                             *)
DatagramsAreRead == input.pbuf # <<>> ~> input.pbuf = <<>> \/ input.serial # <<>>

(* What has been in the output buffer for 100 ms leaves it, though its     *)
(* client is replaced by another one or by the serial port.                *)
Overdue == out.n # 0 /\ out.age > DrainLimit
OutputLeaves == Overdue ~> ~Overdue

(* Nothing that is sent to the console waits for ever.                     *)
InputIsRead == KeysAreRead /\ DatagramsAreRead
=============================================================================
