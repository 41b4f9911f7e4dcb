----------------------------- MODULE EpicsLink -----------------------------
(***************************************************************************)
(* The command server together with its clients and the network.           *)
(*                                                                         *)
(* A client has one command outstanding; it sends and resends it until a   *)
(* reply with the command's nonce and its own byte order arrives or it     *)
(* gives up.  A datagram once sent may arrive any number of times (copies  *)
(* made by the network and resends by the client are not distinguished)    *)
(* or never.  Unless Overtaking is set, datagrams of a client arrive in    *)
(* the order it sent them.                                                 *)
(***************************************************************************)
EXTENDS EpicsServer

CONSTANT Overtaking  \* whether an old datagram may arrive after a newer one
ASSUME OvertakingAssumption == Overtaking \in BOOLEAN

VARIABLES
  requests,   \* command datagrams sent
  newest,     \* newest[c]: the latest command of c that has arrived
  current,    \* current[c]: the command c works on (MaxId + 1: none left)
  waiting,    \* waiting[c]: whether c has sent it and awaits the reply
  acked       \* history: the replies accepted, with the command they answered

network == <<requests, newest>>
client == <<current, waiting, acked>>
vars == <<memory, replies, history, network, client>>

Init ==
  /\ ServerInit
  /\ requests = {}
  /\ newest = [c \in Clients |-> 0]
  /\ current = [c \in Clients |-> 0]
  /\ waiting = [c \in Clients |-> FALSE]
  /\ acked = {}

Issue(c) ==
  /\ ~waiting[c]
  /\ current[c] \in Ids
  /\ \E k \in Kinds :
       requests' = requests \cup {[client |-> c, id |-> current[c], kind |-> k]}
  /\ waiting' = [waiting EXCEPT ![c] = TRUE]
  /\ UNCHANGED <<memory, replies, history, newest, current, acked>>

CanArrive(m) == Overtaking \/ m.id >= newest[m.client]

Arrive(m) ==
  /\ CanArrive(m)
  /\ newest' = [newest EXCEPT ![m.client] = IF m.id > @ THEN m.id ELSE @]
  /\ Receive(m)
  /\ UNCHANGED <<requests, client>>

Restarts ==
  /\ PowerCycle
  /\ UNCHANGED <<network, client>>

Advance(c) ==
  /\ current' = [current EXCEPT ![c] = @ + 1]
  /\ waiting' = [waiting EXCEPT ![c] = FALSE]

Matches(c, d) ==
  /\ d.to = c
  /\ d.size = "packet"
  /\ d.packet.nonce = NonceOf[c][current[c]]
  /\ d.packet.order = (c \in SwappedClients)

Accept(c) ==
  /\ waiting[c]
  /\ \E d \in replies :
       /\ Matches(c, d)
       /\ acked' = acked \cup
            {[client |-> c, id |-> current[c], body |-> d.packet.body]}
  /\ Advance(c)
  /\ UNCHANGED <<memory, replies, history, network>>

GiveUp(c) ==
  /\ waiting[c]
  /\ Advance(c)
  /\ UNCHANGED <<memory, replies, history, network, acked>>

Next ==
  \/ \E c \in Clients : Issue(c) \/ Accept(c) \/ GiveUp(c)
  \/ \E m \in requests : Arrive(m)
  \/ Restarts

Spec == Init /\ [][Next]_vars

(* A command sent again and again does arrive, and one answer in the end   *)
(* reaches the network; the client processes the answers it receives.      *)
AnswerCurrent(c) ==
  \E m \in requests :
    m.client = c /\ m.id = current[c] /\ Arrive(m) /\ replies' # replies
Fairness == \A c \in Clients : WF_vars(AnswerCurrent(c)) /\ WF_vars(Accept(c))
FairSpec == Spec /\ Fairness

----------------------------------------------------------------------------
TypeOK ==
  /\ lastNonce \in Nat
  /\ replySize \in {"empty", "packet"}
  /\ reply \in Reply
  /\ powerUpStatus \in BOOLEAN
  /\ rebootIndex \in 0 .. 2
  /\ replies \subseteq Datagram
  /\ boots \in 1 .. MaxBoots
  /\ resets \in Nat
  /\ executed \subseteq Executions
  /\ repeated \subseteq Executions
  /\ requests \subseteq Command
  /\ newest \in [Clients -> Ids]
  /\ current \in [Clients -> 0 .. MaxId + 1]
  /\ waiting \in [Clients -> BOOLEAN]
  /\ acked \subseteq [client : Clients, id : Ids, body : Executions \cup {NoBody}]

(* Retries never make a command run twice in one boot of the FPGA, however *)
(* often it is resent and whichever replies are lost (epics_callback's     *)
(* comparison with lastNonce, and its update after the handlers).          *)
AtMostOnce == repeated = {}

(* An answer that a client accepts for a command reports an execution of   *)
(* that very command: the cached reply is never taken for the answer to    *)
(* another command, nor for the answer to one that was refused and so      *)
(* overwrote the header of the cache.                                      *)
AnswersOwnCommand ==
  \A a \in acked :
    a.body \in executed /\ a.body.client = a.client /\ a.body.id = a.id

(* The same for commands the handlers do not refuse: this much remains     *)
(* when datagrams overtake each other and clients share the one cache.     *)
MayBeRefused(c, i) ==
  \E m \in requests : m.client = c /\ m.id = i /\ m.kind \in {"bad", "dac"}
AnswersOwnAccepted ==
  \A a \in acked : ~MayBeRefused(a.client, a.id) =>
    a.body \in executed /\ a.body.client = a.client /\ a.body.id = a.id

(* Every reset forced through the network is paid for with a 1, a 100 and  *)
(* a 10000 of its own: resends, which are answered after the reset by a    *)
(* server that forgot everything, never force another one.                 *)
IssuedOf(k) == {m \in requests : m.kind = k}
ResetsArePaidFor ==
  \A n \in 1 .. 3 : resets <= Cardinality(IssuedOf(Match[n]))

(* What an observer of executions and accepted answers sees is at-most-once *)
(* execution in the order of issue, each answer being to its own command.  *)
Rpc == INSTANCE AtMostOnceRpc WITH
  Clients <- Clients, Ids <- Ids, boots <- boots,
  executed <- executed, repeated <- repeated, acked <- acked
RefinesAtMostOnceRpc == Rpc!Spec

(* A command that always succeeds does not stay unanswered while its       *)
(* client keeps resending it.  A command with nonce 0 is excepted: a       *)
(* server that has just booted takes it for a retry and sends its empty    *)
(* cache.                                                                  *)
Pending(c, i) ==
  /\ waiting[c]
  /\ current[c] = i
  /\ \E k \in {"plain", "reboot1"} : [client |-> c, id |-> i, kind |-> k] \in requests
  /\ NonceOf[c][i] # 0
EventuallyAnswered ==
  \A c \in Clients, i \in Ids : Pending(c, i) ~> ~Pending(c, i)
=============================================================================
