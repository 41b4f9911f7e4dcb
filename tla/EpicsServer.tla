---------------------------- MODULE EpicsServer ----------------------------
(***************************************************************************)
(* The UDP command server of the digitizer (software/src/epics.c).         *)
(*                                                                         *)
(* A client (the IOC) sends a command datagram carrying a nonce.  The      *)
(* server remembers the nonce of the last command it executed and the      *)
(* reply it sent: a datagram with that nonce is taken for a retry and      *)
(* answered from the cache, any other datagram is executed.  All of this   *)
(* memory is static storage, so it is lost when the FPGA restarts.         *)
(*                                                                         *)
(* A datagram of a wrong size or with a wrong magic number is dropped      *)
(* before it touches any of this state: those are stuttering steps.        *)
(***************************************************************************)
EXTENDS Naturals, FiniteSets

CONSTANTS
  Clients,        \* senders of commands (UDP address and port)
  SwappedClients, \* those whose byte order is not the processor's
  MaxId,          \* bound: each client issues the commands 0 .. MaxId
  NonceOf,        \* NonceOf[c][i]: the nonce client c puts in its command i
  Kinds,          \* the kinds of command clients issue
  MaxBoots        \* bound: the FPGA boots at most this many times

Ids == 0 .. MaxId

ASSUME IdsAssumption == MaxId \in Nat
ASSUME BootsAssumption == MaxBoots \in Nat \ {0}

(* A client numbers its commands so that none of those it has in flight   *)
(* share a nonce.                                                          *)
ASSUME NonceAssumption ==
  /\ NonceOf \in [Clients -> [Ids -> Nat]]
  /\ \A c \in Clients : \A i, j \in Ids : NonceOf[c][i] = NonceOf[c][j] => i = j

(* "plain": a command that always succeeds; "clear": CLEAR_POWERUP_STATUS; *)
(* "dac": one that fails when the I2C transfer behind it fails; "bad": an  *)
(* unknown command or argument count; the last three: a REBOOT write of    *)
(* that value.                                                             *)
CommandKinds == {"plain", "clear", "dac", "bad", "reboot1", "reboot100", "reboot10000"}
ASSUME KindsAssumption == Kinds \subseteq CommandKinds

Command == [client : Clients, id : Ids, kind : CommandKinds]

VARIABLES
  lastNonce,       \* nonce of the command last executed
  replySize,       \* "empty" until a command has been executed
  reply,           \* the static reply packet: header nonce, byte order, body
  powerUpStatus,   \* set at boot until a client clears it
  rebootIndex,     \* crankRebootStateMachine's i
  replies,         \* datagrams handed to the network
  boots,           \* number of times the FPGA has booted
  resets,          \* number of those that a command sequence forced
  executed,        \* history: which command ran in which boot
  repeated         \* history: those of them that ran more than once

memory == <<lastNonce, replySize, reply, powerUpStatus, rebootIndex>>
history == <<boots, resets, executed, repeated>>

(* The body is the command whose execution filled in the arguments.        *)
NoBody == [boot |-> 0]
Executions == [boot : 1 .. MaxBoots, client : Clients, id : Ids]
Reply == [nonce : Nat, order : BOOLEAN, body : Executions \cup {NoBody}]
Datagram == [to : Clients, size : {"empty", "packet"}, packet : Reply]

ZeroedReply == [nonce |-> 0, order |-> FALSE, body |-> NoBody]

ServerInit ==
  /\ lastNonce = 0
  /\ replySize = "empty"
  /\ reply = ZeroedReply
  /\ powerUpStatus = TRUE
  /\ rebootIndex = 0
  /\ replies = {}
  /\ boots = 1
  /\ resets = 0
  /\ executed = {}
  /\ repeated = {}

----------------------------------------------------------------------------
Nonce(m) == NonceOf[m.client][m.id]
Swapped(m) == m.client \in SwappedClients

(* sendReply: the packet is lost when no buffer can be allocated.          *)
SendReply(m, size, packet) ==
  \/ replies' = replies \cup {[to |-> m.client, size |-> size, packet |-> packet]}
  \/ UNCHANGED replies

(* crankRebootStateMachine: position in the sequence 1, 100, 10000 after a *)
(* write; a value out of sequence always goes back to position 0.          *)
Match == <<"reboot1", "reboot100", "reboot10000">>
IsReboot(m) == m.kind \in {"reboot1", "reboot100", "reboot10000"}
RebootIndexAfter(m) ==
  IF m.kind = Match[rebootIndex + 1] THEN rebootIndex + 1 ELSE 0
CompletesRebootLate(m) == IsReboot(m) /\ RebootIndexAfter(m) > 3
CompletesReboot(m) == IsReboot(m) /\ RebootIndexAfter(m) = 3

(* Whether a datagram is a new command rather than a retry of the last.    *)
IsNewAlways(m) == TRUE
IsNewIfNotOlder(m) == Nonce(m) >= lastNonce
IsNew(m) == Nonce(m) # lastNonce

Run(m) == [boot |-> boots, client |-> m.client, id |-> m.id]

(* The header is a copy of the command's, in the client's byte order; the  *)
(* handler fills in the body.                                              *)
ReplyWithOldBody(m) == [nonce |-> Nonce(m), order |-> Swapped(m), body |-> reply.body]
ReplyTo(m) == [nonce |-> Nonce(m), order |-> Swapped(m), body |-> Run(m)]

(* A new command that the handlers accept.                                 *)
Execute(m) ==
  /\ IsNew(m)
  /\ m.kind # "bad"
  /\ ~CompletesReboot(m)
  /\ lastNonce' = Nonce(m)
  /\ replySize' = "packet"
  /\ reply' = ReplyTo(m)
  /\ powerUpStatus' = (powerUpStatus /\ m.kind # "clear")
  /\ rebootIndex' = IF IsReboot(m) THEN RebootIndexAfter(m) ELSE rebootIndex
  /\ executed' = executed \cup {Run(m)}
  /\ repeated' = repeated \cup ({Run(m)} \cap executed)
  /\ SendReply(m, "packet", ReplyTo(m))
  /\ UNCHANGED <<boots, resets>>

(* A new command that both handlers refuse: no answer and the nonce is not *)
(* remembered, but the header of the cached reply has been overwritten.    *)
RefusedNonceRemembered(m) == Nonce(m)
NonceAfterRefusal(m) == lastNonce
Reject(m) ==
  /\ IsNew(m)
  /\ m.kind \in {"bad", "dac"}
  /\ lastNonce' = NonceAfterRefusal(m)
  /\ reply' = [reply EXCEPT !.nonce = Nonce(m), !.order = FALSE]
  /\ UNCHANGED <<replySize, powerUpStatus, rebootIndex, replies>>
  /\ UNCHANGED history

(* A datagram with the nonce of the last executed command: the cache.      *)
ReplayIgnored(m) == ~IsNew(m) /\ UNCHANGED <<memory, replies, history>>
Replay(m) ==
  /\ ~IsNew(m)
  /\ SendReply(m, replySize, reply)
  /\ UNCHANGED <<memory, history>>

(* What a restart leaves: every static variable at its initial value.      *)
RebootIndexKept == rebootIndex
RebootIndexAtBoot == 0
Restart ==
  /\ boots < MaxBoots
  /\ boots' = boots + 1
  /\ lastNonce' = 0
  /\ replySize' = "empty"
  /\ reply' = ZeroedReply
  /\ powerUpStatus' = TRUE
  /\ rebootIndex' = RebootIndexAtBoot
  /\ UNCHANGED <<replies, executed, repeated>>

(* The last write of the reboot sequence: resetFPGA does not return.       *)
ForcedReset(m) ==
  /\ IsNew(m)
  /\ CompletesReboot(m)
  /\ Restart
  /\ resets' = resets + 1

Receive(m) == Execute(m) \/ Reject(m) \/ Replay(m) \/ ForcedReset(m)

(* Power cycle, reset button or fatal error.                               *)
PowerCycle == Restart /\ UNCHANGED resets
=============================================================================
