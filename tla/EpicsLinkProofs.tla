-------------------------- MODULE EpicsLinkProofs --------------------------
(***************************************************************************)
(* Proofs about EpicsLink, for every number of commands and boots: type    *)
(* correctness always, and at-most-once execution with truthful answers    *)
(* for a single client whose datagrams do not overtake each other.         *)
(***************************************************************************)
EXTENDS EpicsLink, FiniteSetTheorems, TLAPS

(* A client that waits for an answer has a command.                        *)
TypeInv ==
  /\ TypeOK
  /\ \A c \in Clients : waiting[c] => current[c] \in Ids

USE IdsAssumption, BootsAssumption, NonceAssumption, KindsAssumption,
    OvertakingAssumption

LEMMA InitTypes == Init => TypeInv
  BY SMT DEF Init, ServerInit, TypeInv, TypeOK, Ids, Reply, Datagram, ZeroedReply,
         Executions, NoBody, Command

LEMMA NonceType == ASSUME NEW m \in Command PROVE Nonce(m) \in Nat
  BY DEF Nonce, Command

LEMMA ReceiveTypes ==
  ASSUME TypeInv, NEW m \in Command, Receive(m)
  PROVE  /\ lastNonce' \in Nat
         /\ replySize' \in {"empty", "packet"}
         /\ reply' \in Reply
         /\ powerUpStatus' \in BOOLEAN
         /\ rebootIndex' \in 0 .. 2
         /\ replies' \subseteq Datagram
         /\ boots' \in 1 .. MaxBoots
         /\ resets' \in Nat
         /\ executed' \subseteq Executions
         /\ repeated' \subseteq Executions
<1> USE DEF TypeInv, TypeOK, memory, history
<1>1. Nonce(m) \in Nat
  BY NonceType
<1>2. Swapped(m) \in BOOLEAN /\ m.client \in Clients /\ m.id \in Ids
  BY DEF Swapped, Command
<1>3. Run(m) \in Executions
  BY <1>2 DEF Run, Executions
<1>4. ReplyTo(m) \in Reply
  BY <1>1, <1>2, <1>3 DEF ReplyTo, Reply
<1>5. ASSUME NEW size \in {"empty", "packet"}, NEW p \in Reply, SendReply(m, size, p)
      PROVE  replies' \subseteq Datagram
  BY <1>2, <1>5 DEF SendReply, Datagram
<1>6. CASE Execute(m)
  <2>1. rebootIndex' \in 0 .. 2
    BY <1>6 DEF Execute, CompletesReboot, RebootIndexAfter
  <2>2. replies' \subseteq Datagram
    BY <1>4, <1>5, <1>6 DEF Execute
  <2>3. QED
    BY <1>1, <1>3, <1>4, <1>6, <2>1, <2>2 DEF Execute
<1>7. CASE Reject(m)
  <2>1. reply' \in Reply
    BY <1>1, <1>7 DEF Reject, Reply
  <2>2. QED
    BY <1>7, <2>1 DEF Reject, NonceAfterRefusal
<1>8. CASE Replay(m)
  <2>1. replies' \subseteq Datagram
    BY <1>5, <1>8 DEF Replay
  <2>2. QED
    BY <1>8, <2>1 DEF Replay
<1>9. CASE ForcedReset(m)
  BY <1>9 DEF ForcedReset, Restart, ZeroedReply, Reply, RebootIndexAtBoot
<1>10. QED
  BY <1>6, <1>7, <1>8, <1>9 DEF Receive

LEMMA StepTypes == TypeInv /\ [Next]_vars => TypeInv'
<1> SUFFICES ASSUME TypeInv, [Next]_vars PROVE TypeInv'
  OBVIOUS
<1> USE DEF TypeInv, TypeOK
<1>1. ASSUME NEW c \in Clients, Issue(c) PROVE TypeInv'
  <2>1. requests' \subseteq Command
    BY <1>1 DEF Issue, Command
  <2>2. QED
    BY <1>1, <2>1 DEF Issue, memory, history
<1>2. ASSUME NEW m \in requests, Arrive(m) PROVE TypeInv'
  <2>1. m \in Command
    OBVIOUS
  <2>2. newest' \in [Clients -> Ids]
    BY <1>2, <2>1 DEF Arrive, Command
  <2>3. Receive(m) /\ UNCHANGED <<requests, current, waiting, acked>>
    BY <1>2 DEF Arrive, client
  <2>4. QED
    BY <2>1, <2>2, <2>3, ReceiveTypes
<1>3. CASE Restarts
  BY <1>3 DEF Restarts, PowerCycle, Restart, ZeroedReply, Reply, RebootIndexAtBoot,
         network, client
<1>4. ASSUME NEW c \in Clients, waiting[c], Advance(c)
      PROVE  /\ current' \in [Clients -> 0 .. MaxId + 1]
             /\ waiting' \in [Clients -> BOOLEAN]
             /\ \A d \in Clients : waiting'[d] => current'[d] \in Ids
  BY <1>4 DEF Advance, Ids
<1>5. ASSUME NEW c \in Clients, Accept(c) PROVE TypeInv'
  <2>1. acked' \subseteq [client : Clients, id : Ids, body : Executions \cup {NoBody}]
    BY <1>5 DEF Accept, Datagram, Reply
  <2>2. QED
    BY <1>4, <1>5, <2>1 DEF Accept, memory, history, network
<1>6. ASSUME NEW c \in Clients, GiveUp(c) PROVE TypeInv'
  BY <1>4, <1>6 DEF GiveUp, memory, history, network
<1>7. CASE UNCHANGED vars
  BY <1>7 DEF vars, memory, history, network, client
<1>8. QED
  BY <1>1, <1>2, <1>3, <1>5, <1>6, <1>7 DEF Next

(* Every variable of the server, its clients and the network keeps its     *)
(* type, whatever the number of clients and the order of arrival.          *)
THEOREM TypeCorrect == Spec => []TypeOK
<1>1. Spec => []TypeInv
  BY InitTypes, StepTypes, PTL DEF Spec
<1>2. TypeInv => TypeOK
  BY DEF TypeInv
<1>3. QED
  BY <1>1, <1>2, PTL

----------------------------------------------------------------------------
(* The induction hypothesis of at-most-once.  What ran in this boot came   *)
(* no later than the newest arrival, and if it was the newest arrival then *)
(* its nonce is the one remembered.                                        *)
RanBeforeNewest ==
  \A e \in executed :
    /\ e.boot <= boots
    /\ e.boot = boots =>
         \/ e.id < newest[e.client]
         \/ e.id = newest[e.client] /\ lastNonce = NonceOf[e.client][e.id]

(* r is the truthful answer to command i of client c, one of the runs.      *)
Truthful(r, c, i, runs) ==
  /\ r.nonce = NonceOf[c][i]
  /\ r.body \in runs
  /\ r.body.client = c
  /\ r.body.id = i

(* The remembered nonce is that of an earlier arrival; as long as nothing  *)
(* newer has arrived, the cached reply is its truthful answer.             *)
CacheIsTruthful ==
  replySize = "packet" =>
    \E c \in Clients, i \in Ids :
      /\ lastNonce = NonceOf[c][i]
      /\ i <= newest[c]
      /\ i = newest[c] => Truthful(reply, c, i, executed)

RepliesAreTruthful ==
  \A d \in replies :
    d.size = "packet" => \E i \in Ids : Truthful(d.packet, d.to, i, executed)

IInv ==
  /\ TypeInv
  /\ RanBeforeNewest
  /\ CacheIsTruthful
  /\ RepliesAreTruthful
  /\ AtMostOnce
  /\ AnswersOwnCommand

(* One client, and no datagram arrives after one sent later.               *)
SoleOrderedClient ==
  /\ ~Overtaking
  /\ \A c, d \in Clients : c = d

LEMMA InitIInv == Init => IInv
<1> SUFFICES ASSUME Init PROVE IInv
  OBVIOUS
<1>1. TypeInv
  BY InitTypes
<1>2. QED
  BY <1>1 DEF Init, ServerInit, IInv, RanBeforeNewest, CacheIsTruthful,
       RepliesAreTruthful, AtMostOnce, AnswersOwnCommand

(* A datagram that carries a nonce other than the one remembered is of a   *)
(* command that has not run in this boot, nor has any later one.           *)
LEMMA NewHasNotRun ==
  ASSUME SoleOrderedClient, IInv, NEW m \in Command, CanArrive(m), IsNew(m)
  PROVE  \A e \in executed : e.boot = boots /\ e.client = m.client => e.id < m.id
<1> SUFFICES ASSUME NEW e \in executed, e.boot = boots, e.client = m.client
             PROVE  e.id < m.id
  OBVIOUS
<1>1. m.id \in Ids /\ e.id \in Ids /\ m.client \in Clients /\ newest[m.client] \in Ids
  BY DEF IInv, TypeInv, TypeOK, Command, Executions
<1>2. m.id >= newest[m.client]
  BY DEF CanArrive, SoleOrderedClient
<1>3. CASE e.id < newest[m.client]
  BY <1>1, <1>2, <1>3 DEF Ids
<1>4. CASE e.id = newest[m.client] /\ lastNonce = NonceOf[m.client][e.id]
  <2>1. e.id # m.id
    BY <1>4 DEF IsNew, Nonce
  <2>2. QED
    BY <1>1, <1>2, <1>4, <2>1 DEF Ids
<1>5. QED
  BY <1>3, <1>4 DEF IInv, RanBeforeNewest

(* A retry comes from the command the cached reply answers.                *)
LEMMA RetryHasTruthfulCache ==
  ASSUME SoleOrderedClient, IInv, NEW m \in Command, CanArrive(m), ~IsNew(m),
         replySize = "packet"
  PROVE  newest[m.client] = m.id /\ Truthful(reply, m.client, m.id, executed)
<1>1. PICK c \in Clients, i \in Ids :
        /\ lastNonce = NonceOf[c][i]
        /\ i <= newest[c]
        /\ i = newest[c] => Truthful(reply, c, i, executed)
  BY DEF IInv, CacheIsTruthful
<1>2. m.client \in Clients /\ m.id \in Ids /\ newest[m.client] \in Ids
  BY DEF Command, IInv, TypeInv, TypeOK
<1>3. c = m.client
  BY <1>2 DEF SoleOrderedClient
<1>4. i = m.id
  BY <1>1, <1>2, <1>3 DEF IsNew, Nonce
<1>5. m.id >= newest[m.client]
  BY DEF CanArrive, SoleOrderedClient
<1>6. QED
  BY <1>1, <1>2, <1>3, <1>4, <1>5 DEF Ids

LEMMA ArriveIInv ==
  ASSUME SoleOrderedClient, IInv, TypeInv', NEW m \in requests, Arrive(m)
  PROVE  IInv'
<1>1. m \in Command /\ CanArrive(m) /\ Receive(m)
  BY DEF IInv, TypeInv, TypeOK, Arrive
<1>2. m.client \in Clients /\ m.id \in Ids /\ Nonce(m) = NonceOf[m.client][m.id]
  BY <1>1 DEF Command, Nonce
<1>3. /\ newest \in [Clients -> Ids]
      /\ boots \in Nat
      /\ \A e \in executed : e.client \in Clients /\ e.id \in Ids /\ e.boot \in Nat
  BY DEF IInv, TypeInv, TypeOK, Executions
<1>4. /\ newest' = [newest EXCEPT ![m.client] = m.id]
      /\ m.id >= newest[m.client]
  <2>1. m.id >= newest[m.client]
    BY <1>1 DEF CanArrive, SoleOrderedClient
  <2>2. (IF m.id > newest[m.client] THEN m.id ELSE newest[m.client]) = m.id
    BY <1>2, <1>3, <2>1 DEF Ids
  <2>3. QED
    BY <2>1, <2>2 DEF Arrive
<1>5. \A c \in Clients : c = m.client /\ newest'[c] = m.id /\ newest[c] <= m.id
  BY <1>2, <1>3, <1>4 DEF SoleOrderedClient, Ids
<1>6. UNCHANGED <<requests, current, waiting, acked>>
  BY DEF Arrive, client
<1>7. executed \subseteq executed'
  BY <1>1 DEF Receive, Execute, Reject, Replay, ForcedReset, Restart, history
<1>8. AnswersOwnCommand'
  BY <1>6, <1>7 DEF IInv, AnswersOwnCommand
<1>9. ASSUME replies' = replies
      PROVE  RepliesAreTruthful'
  BY <1>7, <1>9 DEF IInv, RepliesAreTruthful, Truthful
<1>10. ASSUME NEW size, NEW r, SendReply(m, size, r),
              size = "packet" => Truthful(r, m.client, m.id, executed')
       PROVE  RepliesAreTruthful'
  <2> SUFFICES ASSUME NEW d \in replies', d.size = "packet"
               PROVE  \E i \in Ids : Truthful(d.packet, d.to, i, executed')
    BY DEF RepliesAreTruthful
  <2>1. CASE d \in replies
    BY <1>7, <2>1 DEF IInv, RepliesAreTruthful, Truthful
  <2>2. CASE d = [to |-> m.client, size |-> size, packet |-> r]
    BY <1>2, <1>10, <2>2
  <2>3. QED
    BY <1>10, <2>1, <2>2 DEF SendReply
<1>11. CASE Execute(m)
  <2> USE <1>11 DEF Execute
  <2>1. Run(m) = [boot |-> boots, client |-> m.client, id |-> m.id]
    BY DEF Run
  <2>2. Run(m) \notin executed
    <3>1. ~(m.id < m.id)
      BY <1>2 DEF Ids
    <3>2. QED
      BY <1>1, <2>1, <3>1, NewHasNotRun
  <2>3. AtMostOnce'
    BY <2>2 DEF IInv, AtMostOnce
  <2>4. RanBeforeNewest'
    <3> SUFFICES ASSUME NEW e \in executed'
                 PROVE  /\ e.boot <= boots
                        /\ e.boot = boots =>
                             \/ e.id < newest'[e.client]
                             \/ /\ e.id = newest'[e.client]
                                /\ Nonce(m) = NonceOf[e.client][e.id]
      BY DEF RanBeforeNewest
    <3>1. CASE e \in executed
      <4>1. e.boot <= boots /\ e.client = m.client
        BY <1>3, <1>5, <3>1 DEF IInv, RanBeforeNewest
      <4>2. e.boot = boots => e.id < m.id
        BY <1>1, <3>1, <4>1, NewHasNotRun
      <4>3. QED
        BY <1>3, <1>5, <3>1, <4>1, <4>2
    <3>2. CASE e = Run(m)
      BY <1>2, <1>3, <1>5, <2>1, <3>2
    <3>3. QED
      BY <3>1, <3>2
  <2>5. Truthful(ReplyTo(m), m.client, m.id, executed')
    BY <1>2, <2>1 DEF Truthful, ReplyTo
  <2>6. CacheIsTruthful'
    BY <1>2, <1>4, <1>5, <2>5 DEF CacheIsTruthful, Truthful, Ids
  <2>7. RepliesAreTruthful'
    BY <1>10, <2>5
  <2>8. QED
    BY <1>8, <2>3, <2>4, <2>6, <2>7 DEF IInv
<1>12. CASE Reject(m)
  <2> USE <1>12 DEF Reject
  <2>1. lastNonce' = lastNonce /\ executed' = executed /\ repeated' = repeated
        /\ boots' = boots
    BY DEF NonceAfterRefusal, history
  <2>2. RanBeforeNewest'
    <3> SUFFICES ASSUME NEW e \in executed
                 PROVE  /\ e.boot <= boots
                        /\ e.boot = boots => e.id < newest'[e.client]
      BY <2>1 DEF RanBeforeNewest
    <3>1. e.boot = boots => e.id < m.id
      BY <1>1, <1>3, <1>5, NewHasNotRun
    <3>2. QED
      BY <1>3, <1>5, <3>1 DEF IInv, RanBeforeNewest
  <2>3. CacheIsTruthful'
    <3> SUFFICES ASSUME replySize = "packet"
                 PROVE  CacheIsTruthful'
      BY DEF CacheIsTruthful
    <3>1. PICK c \in Clients, i \in Ids : lastNonce = NonceOf[c][i] /\ i <= newest[c]
      BY DEF IInv, CacheIsTruthful
    <3>2. i # m.id
      BY <1>2, <1>5, <3>1 DEF IsNew
    <3>3. i <= newest'[c] /\ i # newest'[c]
      BY <1>2, <1>3, <1>5, <3>1, <3>2 DEF Ids
    <3>4. QED
      BY <2>1, <3>1, <3>3 DEF CacheIsTruthful
  <2>4. QED
    BY <1>8, <1>9, <2>1, <2>2, <2>3 DEF IInv, AtMostOnce
<1>13. CASE Replay(m)
  <2> USE <1>13 DEF Replay, memory, history
  <2>1. RanBeforeNewest'
    <3> SUFFICES ASSUME NEW e \in executed
                 PROVE  /\ e.boot <= boots
                        /\ e.boot = boots =>
                             \/ e.id < newest'[e.client]
                             \/ /\ e.id = newest'[e.client]
                                /\ lastNonce = NonceOf[e.client][e.id]
      BY DEF RanBeforeNewest
    <3>1. e.client = m.client /\ newest[e.client] <= m.id /\ newest'[e.client] = m.id
      BY <1>3, <1>5
    <3>2. Nonce(m) = lastNonce
      BY DEF IsNew
    <3>3. QED
      BY <1>2, <1>3, <3>1, <3>2 DEF IInv, RanBeforeNewest, Ids
  <2>2. CacheIsTruthful'
    <3>1. ASSUME replySize = "packet"
          PROVE  Truthful(reply, m.client, m.id, executed)
      BY <1>1, <3>1, RetryHasTruthfulCache
    <3>2. lastNonce = NonceOf[m.client][m.id] /\ m.id <= newest'[m.client]
      BY <1>2, <1>5 DEF IsNew, Ids
    <3>3. lastNonce' = lastNonce /\ replySize' = replySize /\ reply' = reply
          /\ executed' = executed
      OBVIOUS
    <3>4. QED
      BY <1>2, <3>1, <3>2, <3>3 DEF CacheIsTruthful
  <2>3. RepliesAreTruthful'
    <3>1. ASSUME replySize = "packet"
          PROVE  Truthful(reply, m.client, m.id, executed')
      BY <1>1, <3>1, RetryHasTruthfulCache DEF Truthful
    <3>2. QED
      BY <1>10, <3>1
  <2>4. QED
    BY <1>8, <2>1, <2>2, <2>3 DEF IInv, AtMostOnce
<1>14. CASE ForcedReset(m)
  <2> USE <1>14 DEF ForcedReset, Restart
  <2>1. RanBeforeNewest'
    BY <1>3 DEF IInv, RanBeforeNewest
  <2>2. QED
    BY <1>8, <1>9, <2>1 DEF IInv, AtMostOnce, CacheIsTruthful
<1>15. QED
  BY <1>1, <1>11, <1>12, <1>13, <1>14 DEF Receive

LEMMA AcceptIInv ==
  ASSUME IInv, TypeInv', NEW c \in Clients, Accept(c)
  PROVE  IInv'
<1>1. UNCHANGED <<memory, replies, history, network>>
  BY DEF Accept
<1>2. PICK d \in replies :
        /\ Matches(c, d)
        /\ acked' = acked \cup {[client |-> c, id |-> current[c], body |-> d.packet.body]}
  BY DEF Accept
<1>3. PICK i \in Ids : Truthful(d.packet, c, i, executed)
  BY <1>2 DEF IInv, RepliesAreTruthful, Matches
<1>4. i = current[c]
  BY <1>2, <1>3 DEF IInv, TypeInv, Accept, Matches, Truthful
<1>5. AnswersOwnCommand'
  BY <1>1, <1>2, <1>3, <1>4 DEF IInv, AnswersOwnCommand, Truthful, history
<1>6. QED
  BY <1>1, <1>5 DEF IInv, RanBeforeNewest, CacheIsTruthful, RepliesAreTruthful,
       Truthful, AtMostOnce, memory, history, network

LEMMA StepIInv == SoleOrderedClient /\ IInv /\ [Next]_vars => IInv'
<1> SUFFICES ASSUME SoleOrderedClient, IInv, [Next]_vars PROVE IInv'
  OBVIOUS
<1>1. TypeInv'
  BY StepTypes DEF IInv
<1>2. ASSUME UNCHANGED <<memory, replies, history, network, acked>>
      PROVE  IInv'
  BY <1>1, <1>2 DEF IInv, RanBeforeNewest, CacheIsTruthful, RepliesAreTruthful,
       Truthful, AtMostOnce, AnswersOwnCommand, memory, history, network
<1>3. ASSUME NEW c \in Clients, Issue(c) PROVE IInv'
  BY <1>1, <1>3 DEF IInv, Issue, RanBeforeNewest, CacheIsTruthful, RepliesAreTruthful,
       Truthful, AtMostOnce, AnswersOwnCommand, memory, history
<1>4. ASSUME NEW c \in Clients, Accept(c) PROVE IInv'
  BY <1>1, <1>4, AcceptIInv
<1>5. ASSUME NEW c \in Clients, GiveUp(c) PROVE IInv'
  BY <1>2, <1>5 DEF GiveUp
<1>6. ASSUME NEW m \in requests, Arrive(m) PROVE IInv'
  BY <1>1, <1>6, ArriveIInv
<1>7. CASE Restarts
  <2>1. RanBeforeNewest'
    BY <1>7 DEF Restarts, PowerCycle, Restart, IInv, TypeInv, TypeOK, Executions,
         RanBeforeNewest
  <2>2. QED
    BY <1>1, <1>7, <2>1 DEF Restarts, PowerCycle, Restart, network, client, IInv,
         CacheIsTruthful, RepliesAreTruthful, Truthful, AtMostOnce, AnswersOwnCommand
<1>8. CASE UNCHANGED vars
  BY <1>2, <1>8 DEF vars, client
<1>9. QED
  BY <1>3, <1>4, <1>5, <1>6, <1>7, <1>8 DEF Next

THEOREM Induction == SoleOrderedClient /\ Spec => []IInv
<1> SUFFICES ASSUME SoleOrderedClient PROVE Spec => []IInv
  OBVIOUS
<1>1. Init => IInv
  BY InitIInv
<1>2. IInv /\ [Next]_vars => IInv'
  BY StepIInv
<1>3. QED
  BY <1>1, <1>2, PTL DEF Spec

(* The sole client of the command server, whose datagrams stay in order,   *)
(* has each of its commands executed at most once in a boot, however often *)
(* it resends and whichever replies are lost (epics_callback's nonce).     *)
THEOREM AtMostOnceExecution == SoleOrderedClient => (Spec => []AtMostOnce)
  BY Induction, PTL DEF IInv

(* Such a client is told of the execution of exactly the command it asked  *)
(* for: the cache that answers retries never answers for another command.  *)
THEOREM TruthfulAnswers == SoleOrderedClient => (Spec => []AnswersOwnCommand)
  BY Induction, PTL DEF IInv

----------------------------------------------------------------------------
LEMMA ArriveRefines ==
  ASSUME SoleOrderedClient, IInv, IInv', NEW m \in requests, Arrive(m)
  PROVE  Rpc!Next \/ UNCHANGED Rpc!vars
<1>1. m \in Command /\ CanArrive(m) /\ Receive(m) /\ acked' = acked
  BY DEF IInv, TypeInv, TypeOK, Arrive, client
<1>2. m.client \in Clients /\ m.id \in Ids
  BY <1>1 DEF Command
<1>3. CASE Execute(m)
  <2>1. \A e \in executed : e.boot = boots /\ e.client = m.client => e.id < m.id
    BY <1>1, <1>3, NewHasNotRun DEF Execute
  <2>2. repeated' = repeated
    BY DEF IInv, AtMostOnce
  <2>3. Rpc!Execute(m.client, m.id)
    BY <1>1, <1>3, <2>1, <2>2 DEF Execute, Run, Rpc!Execute
  <2>4. QED
    BY <1>2, <2>3 DEF Rpc!Next
<1>4. CASE Reject(m) \/ Replay(m)
  BY <1>1, <1>4 DEF Reject, Replay, history, Rpc!vars
<1>5. CASE ForcedReset(m)
  BY <1>1, <1>5 DEF ForcedReset, Restart, Rpc!Next, Rpc!Boot
<1>6. QED
  BY <1>1, <1>3, <1>4, <1>5 DEF Receive

LEMMA AcceptRefines ==
  ASSUME IInv, IInv', NEW c \in Clients, Accept(c)
  PROVE  Rpc!Next
<1>1. PICK d \in replies :
        acked' = acked \cup {[client |-> c, id |-> current[c], body |-> d.packet.body]}
  BY DEF Accept
<1>2. boots' = boots /\ executed' = executed /\ repeated' = repeated
  BY DEF Accept, history
<1> DEFINE e == d.packet.body
<1>3. [client |-> c, id |-> current[c], body |-> e] \in acked'
  BY <1>1
<1>4. e \in executed /\ e.client = c /\ e.id = current[c]
  BY <1>2, <1>3 DEF IInv, AnswersOwnCommand
<1>5. Rpc!Acknowledge(e)
  BY <1>1, <1>2, <1>4 DEF Rpc!Acknowledge
<1>6. QED
  BY <1>4, <1>5 DEF Rpc!Next

(* To a sole client whose datagrams stay in order the command server is    *)
(* an at-most-once remote procedure call: its executions, in the order of  *)
(* issue, and the answers accepted for them are those of AtMostOnceRpc.    *)
THEOREM RpcRefinement == SoleOrderedClient => (Spec => RefinesAtMostOnceRpc)
<1> SUFFICES ASSUME SoleOrderedClient PROVE Spec => Rpc!Spec
  BY DEF RefinesAtMostOnceRpc
<1>1. Init => Rpc!Init
  BY DEF Init, ServerInit, Rpc!Init
<1>2. IInv /\ IInv' /\ [Next]_vars => [Rpc!Next]_Rpc!vars
  <2> SUFFICES ASSUME IInv, IInv', [Next]_vars PROVE Rpc!Next \/ UNCHANGED Rpc!vars
    OBVIOUS
  <2>1. ASSUME NEW m \in requests, Arrive(m) PROVE Rpc!Next \/ UNCHANGED Rpc!vars
    BY <2>1, ArriveRefines
  <2>2. ASSUME NEW c \in Clients, Accept(c) PROVE Rpc!Next
    BY <2>2, AcceptRefines
  <2>3. CASE Restarts
    BY <2>3 DEF Restarts, PowerCycle, Restart, client, Rpc!Next, Rpc!Boot
  <2>4. ASSUME NEW c \in Clients, Issue(c) \/ GiveUp(c) PROVE UNCHANGED Rpc!vars
    BY <2>4 DEF Issue, GiveUp, history, Rpc!vars
  <2>5. CASE UNCHANGED vars
    BY <2>5 DEF vars, history, client, Rpc!vars
  <2>6. QED
    BY <2>1, <2>2, <2>3, <2>4, <2>5 DEF Next
<1>3. Spec => []IInv
  BY Induction
<1>4. QED
  BY <1>1, <1>2, <1>3, PTL DEF Spec, Rpc!Spec
----------------------------------------------------------------------------
(* No two clients use the same nonce.                                      *)
NoncesDiffer ==
  \A c, d \in Clients : \A i, j \in Ids : NonceOf[c][i] = NonceOf[d][j] => c = d

(* A reply in the cache or on the network is truthful to every command     *)
(* with its nonce, unless it is one that the handlers may refuse: then the *)
(* header may be of the refusal and the body of an older execution.        *)
FairTo(r, runs) ==
  \A c \in Clients, i \in Ids :
    r.nonce = NonceOf[c][i] /\ ~MayBeRefused(c, i) => Truthful(r, c, i, runs)
SharedInv ==
  /\ TypeInv
  /\ replySize = "packet" => FairTo(reply, executed)
  /\ \A d \in replies : d.size = "packet" => FairTo(d.packet, executed)
  /\ AnswersOwnAccepted

LEMMA ArriveShared ==
  ASSUME NoncesDiffer, SharedInv, TypeInv', NEW m \in requests, Arrive(m)
  PROVE  SharedInv'
<1>1. m \in Command /\ Receive(m) /\ requests' = requests /\ acked' = acked
  BY DEF SharedInv, TypeInv, TypeOK, Arrive, client
<1>2. m.client \in Clients /\ m.id \in Ids /\ Nonce(m) = NonceOf[m.client][m.id]
  BY <1>1 DEF Command, Nonce
<1>3. executed \subseteq executed'
  BY <1>1 DEF Receive, Execute, Reject, Replay, ForcedReset, Restart, history
<1>4. ASSUME NEW r, FairTo(r, executed) PROVE FairTo(r, executed')
  BY <1>3, <1>4 DEF FairTo, Truthful
<1>5. AnswersOwnAccepted'
  BY <1>1, <1>3 DEF SharedInv, AnswersOwnAccepted, MayBeRefused
<1>6. ASSUME NEW c \in Clients, NEW i \in Ids, Nonce(m) = NonceOf[c][i]
      PROVE  c = m.client /\ i = m.id
  BY <1>2, <1>6 DEF NoncesDiffer
<1>7. ASSUME replySize' = "packet" => FairTo(reply', executed'),
             \A d \in replies' : d.size = "packet" => FairTo(d.packet, executed')
      PROVE  SharedInv'
  BY <1>1, <1>5, <1>7 DEF SharedInv, FairTo, MayBeRefused
<1>8. ASSUME NEW d \in replies, d.size = "packet" PROVE FairTo(d.packet, executed')
  BY <1>4, <1>8 DEF SharedInv
<1>9. ASSUME NEW size, NEW r, SendReply(m, size, r), size = "packet" => FairTo(r, executed')
      PROVE  \A d \in replies' : d.size = "packet" => FairTo(d.packet, executed')
  BY <1>8, <1>9 DEF SendReply
<1>10. CASE Execute(m)
  <2>1. FairTo(ReplyTo(m), executed')
    BY <1>2, <1>6, <1>10 DEF FairTo, Truthful, ReplyTo, Run, Execute
  <2>2. reply' = ReplyTo(m) /\ SendReply(m, "packet", ReplyTo(m))
    BY <1>10 DEF Execute
  <2> QED BY <1>7, <1>9, <2>1, <2>2
<1>11. CASE Reject(m)
  <2>1. MayBeRefused(m.client, m.id) /\ replies' = replies
    BY <1>11 DEF Reject, MayBeRefused
  <2>2. reply'.nonce = Nonce(m)
    BY <1>11 DEF Reject, SharedInv, TypeInv, TypeOK, Reply
  <2>3. FairTo(reply', executed')
    BY <1>6, <2>1, <2>2 DEF FairTo
  <2> QED BY <1>7, <1>8, <2>1, <2>3
<1>12. CASE Replay(m)
  <2>1. replySize' = replySize /\ reply' = reply /\ SendReply(m, replySize, reply)
    BY <1>12 DEF Replay, memory
  <2>2. replySize = "packet" => FairTo(reply, executed')
    BY <1>4 DEF SharedInv
  <2> QED BY <1>7, <1>9, <2>1, <2>2
<1>13. CASE ForcedReset(m)
  BY <1>7, <1>8, <1>13 DEF ForcedReset, Restart
<1> QED BY <1>1, <1>10, <1>11, <1>12, <1>13 DEF Receive

LEMMA StepShared == ASSUME NoncesDiffer, SharedInv, [Next]_vars PROVE SharedInv'
<1>1. TypeInv'
  BY StepTypes DEF SharedInv
<1>2. ASSUME UNCHANGED <<memory, replies, history, requests>>
      PROVE  /\ replySize' = "packet" => FairTo(reply, executed)'
             /\ \A d \in replies' : d.size = "packet" => FairTo(d.packet, executed)'
  BY <1>2 DEF SharedInv, FairTo, MayBeRefused, Truthful, memory, history
<1>3. ASSUME UNCHANGED <<memory, replies, history, requests, acked>> PROVE SharedInv'
  BY <1>1, <1>2, <1>3 DEF SharedInv, AnswersOwnAccepted, MayBeRefused, history
<1>4. ASSUME NEW c \in Clients, Issue(c) PROVE SharedInv'
  BY <1>1, <1>4 DEF SharedInv, Issue, FairTo, MayBeRefused, Truthful, AnswersOwnAccepted,
       memory, history
<1>5. ASSUME NEW c \in Clients, Accept(c) PROVE SharedInv'
  <2>1. UNCHANGED <<memory, replies, history, requests>>
    BY <1>5 DEF Accept, network
  <2>2. PICK d \in replies :
          /\ Matches(c, d)
          /\ acked' = acked \cup {[client |-> c, id |-> current[c], body |-> d.packet.body]}
    BY <1>5 DEF Accept
  <2>3. current[c] \in Ids /\ FairTo(d.packet, executed)
    BY <1>5, <2>2 DEF SharedInv, TypeInv, Accept, Matches
  <2>4. ~MayBeRefused(c, current[c]) => Truthful(d.packet, c, current[c], executed)
    BY <2>2, <2>3 DEF FairTo, Matches
  <2>5. AnswersOwnAccepted'
    BY <2>1, <2>2, <2>4 DEF SharedInv, AnswersOwnAccepted, MayBeRefused, Truthful, history
  <2> QED BY <1>1, <1>2, <2>1, <2>5 DEF SharedInv
<1>6. ASSUME NEW c \in Clients, GiveUp(c) PROVE SharedInv'
  BY <1>3, <1>6 DEF GiveUp, network
<1>7. ASSUME NEW m \in requests, Arrive(m) PROVE SharedInv'
  BY <1>1, <1>7, ArriveShared
<1>8. CASE Restarts
  BY <1>1, <1>8 DEF Restarts, PowerCycle, Restart, network, client, SharedInv, FairTo,
       MayBeRefused, Truthful, AnswersOwnAccepted
<1>9. CASE UNCHANGED vars
  BY <1>3, <1>9 DEF vars, network, client
<1> QED BY <1>4, <1>5, <1>6, <1>7, <1>8, <1>9 DEF Next

(* Whatever the number of clients that share the one reply buffer, and in  *)
(* whatever order their datagrams arrive, a client whose command the       *)
(* handlers do not refuse is told of the execution of that very command.   *)
THEOREM SharedAnswers == NoncesDiffer => (Spec => []AnswersOwnAccepted)
<1> SUFFICES ASSUME NoncesDiffer PROVE Spec => []AnswersOwnAccepted
  OBVIOUS
<1>1. Init => SharedInv
  BY InitTypes DEF Init, ServerInit, SharedInv, AnswersOwnAccepted
<1>2. SharedInv /\ [Next]_vars => SharedInv'
  BY StepShared
<1>3. SharedInv => AnswersOwnAccepted
  BY DEF SharedInv
<1> QED BY <1>1, <1>2, <1>3, PTL DEF Spec

----------------------------------------------------------------------------
(* A client issues each of its commands once.                              *)
IssuedOnce ==
  /\ IsFiniteSet(requests)
  /\ \A m \in requests : \/ m.id < current[m.client]
                         \/ m.id = current[m.client] /\ waiting[m.client]
  /\ \A m1, m2 \in requests : m1.client = m2.client /\ m1.id = m2.id => m1 = m2

(* The writes of the n-th value of the reboot sequence that are not newer, *)
(* and those that are older, than what has arrived of their client.        *)
UpToNewest(n) == {m \in requests : m.kind = Match[n] /\ m.id <= newest[m.client]}
BeforeNewest(n) == {m \in requests : m.kind = Match[n] /\ m.id < newest[m.client]}

(* Each reset so far is paid for, and the sequence under way has paid for  *)
(* the next one as far as it has come.  What is still to come cannot be    *)
(* the newest arrival again: that is what BeforeNewest is for.             *)
PaidInv ==
  /\ IF rebootIndex >= 1 THEN resets + 1 <= Cardinality(UpToNewest(1))
                         ELSE resets <= Cardinality(BeforeNewest(1))
  /\ IF rebootIndex >= 2 THEN resets + 1 <= Cardinality(UpToNewest(2))
                         ELSE resets <= Cardinality(BeforeNewest(2))
  /\ IF rebootIndex >= 1 THEN resets <= Cardinality(BeforeNewest(3))
                         ELSE resets <= Cardinality(UpToNewest(3))
ResetInv == TypeInv /\ IssuedOnce /\ PaidInv

LEMMA StepIssuedOnce == ASSUME TypeInv, IssuedOnce, [Next]_vars PROVE IssuedOnce'
<1> USE DEF TypeInv, TypeOK
<1>1. ASSUME NEW c \in Clients, Issue(c) PROVE IssuedOnce'
  <2>1. PICK k \in Kinds :
          requests' = requests \cup {[client |-> c, id |-> current[c], kind |-> k]}
    BY <1>1 DEF Issue
  <2> DEFINE n == [client |-> c, id |-> current[c], kind |-> k]
  <2>2. IsFiniteSet(requests')
    BY <2>1, FS_AddElement DEF IssuedOnce
  <2>3. \A m \in requests : m.client \in Clients /\ m.id \in Ids
    BY DEF Command
  <2>4. current' = current /\ waiting' = [waiting EXCEPT ![c] = TRUE] /\ ~waiting[c]
    BY <1>1 DEF Issue
  <2>5. ASSUME NEW m \in requests'
        PROVE  \/ m.id < current'[m.client]
               \/ m.id = current'[m.client] /\ waiting'[m.client]
    BY <2>1, <2>3, <2>4 DEF IssuedOnce
  <2>6. \A m \in requests : m.client = c => m.id # current[c]
    BY <2>3, <2>4, SMTT(20) DEF IssuedOnce, Ids
  <2>7. \A m1, m2 \in requests' : m1.client = m2.client /\ m1.id = m2.id => m1 = m2
    BY <2>1, <2>6 DEF IssuedOnce
  <2> QED BY <2>2, <2>5, <2>7 DEF IssuedOnce
<1>2. ASSUME NEW c \in Clients, Advance(c), waiting[c], requests' = requests
      PROVE  IssuedOnce'
  <2>1. \A m \in requests : m.client \in Clients /\ m.id \in Ids
    BY DEF Command
  <2>2. ASSUME NEW m \in requests
        PROVE  \/ m.id < current'[m.client]
               \/ m.id = current'[m.client] /\ waiting'[m.client]
    <3>1. CASE m.client = c
      <4>1. current'[c] = current[c] + 1 /\ current[c] \in Nat
        BY <1>2 DEF Advance
      <4>2. m.id < current[c] \/ m.id = current[c]
        BY <3>1 DEF IssuedOnce
      <4>3. m.id \in Nat
        BY <2>1 DEF Ids
      <4> QED BY <3>1, <4>1, <4>2, <4>3
    <3>2. CASE m.client # c
      <4>1. current'[m.client] = current[m.client] /\ waiting'[m.client] = waiting[m.client]
        BY <1>2, <2>1, <3>2 DEF Advance
      <4> QED BY <4>1 DEF IssuedOnce
    <3> QED BY <3>1, <3>2
  <2> QED BY <1>2, <2>2 DEF IssuedOnce
<1>3. ASSUME UNCHANGED <<requests, current, waiting>> PROVE IssuedOnce'
  BY <1>3 DEF IssuedOnce
<1>4. ASSUME NEW c \in Clients, Accept(c) \/ GiveUp(c) PROVE IssuedOnce'
  BY <1>2, <1>4 DEF Accept, GiveUp, network
<1>5. ASSUME NEW m \in requests, Arrive(m) PROVE IssuedOnce'
  BY <1>3, <1>5 DEF Arrive, client
<1>6. CASE Restarts \/ UNCHANGED vars
  BY <1>3, <1>6 DEF Restarts, vars, network, client
<1> QED BY <1>1, <1>4, <1>5, <1>6 DEF Next

(* Of one value at most one write is the newest arrival of its client.     *)
LEMMA WritesCounted ==
  ASSUME IssuedOnce, NEW n
  PROVE  /\ IsFiniteSet(UpToNewest(n)) /\ IsFiniteSet(BeforeNewest(n))
         /\ Cardinality(UpToNewest(n)) \in Nat /\ Cardinality(BeforeNewest(n)) \in Nat
         /\ Cardinality(UpToNewest(n)) <= Cardinality(IssuedOf(Match[n]))
<1>1. /\ UpToNewest(n) \subseteq IssuedOf(Match[n]) /\ IssuedOf(Match[n]) \subseteq requests
      /\ BeforeNewest(n) \subseteq requests /\ IsFiniteSet(requests)
  BY DEF UpToNewest, BeforeNewest, IssuedOf, IssuedOnce
<1>2. IsFiniteSet(IssuedOf(Match[n])) /\ IsFiniteSet(BeforeNewest(n))
  BY <1>1, FS_Subset
<1> QED BY <1>1, <1>2, FS_Subset, FS_CardinalityType

LEMMA OneIsNewest ==
  ASSUME SoleOrderedClient, TypeInv, IssuedOnce, NEW n
  PROVE  /\ Cardinality(UpToNewest(n)) <= Cardinality(BeforeNewest(n)) + 1
         /\ Cardinality(BeforeNewest(n)) <= Cardinality(UpToNewest(n))
<1>1. \A m \in requests : m.client \in Clients /\ m.id \in Nat /\ newest[m.client] \in Nat
  BY DEF TypeInv, TypeOK, Command, Ids
<1>2. BeforeNewest(n) \subseteq UpToNewest(n)
  BY <1>1 DEF UpToNewest, BeforeNewest
<1>3. CASE \E m \in UpToNewest(n) : m.id = newest[m.client]
  <2>1. PICK m \in UpToNewest(n) : m.id = newest[m.client]
    BY <1>3
  <2>2. UpToNewest(n) \subseteq BeforeNewest(n) \cup {m}
    <3>1. ASSUME NEW x \in UpToNewest(n), x.id = newest[x.client] PROVE x = m
      BY <1>1, <2>1, <3>1 DEF IssuedOnce, SoleOrderedClient, UpToNewest
    <3>2. ASSUME NEW x \in UpToNewest(n), x.id # newest[x.client] PROVE x \in BeforeNewest(n)
      <4>1. x \in requests /\ x.kind = Match[n] /\ x.id <= newest[x.client]
        BY <3>2 DEF UpToNewest
      <4>2. x.id \in Nat /\ newest[x.client] \in Nat
        BY <1>1, <4>1
      <4>3. x.id < newest[x.client]
        BY <3>2, <4>1, <4>2
      <4> QED BY <4>1, <4>3 DEF BeforeNewest
    <3> QED BY <3>1, <3>2
  <2>3. /\ IsFiniteSet(BeforeNewest(n) \cup {m})
        /\ Cardinality(BeforeNewest(n) \cup {m}) <= Cardinality(BeforeNewest(n)) + 1
    <3> DEFINE B == BeforeNewest(n)
    <3>1. IsFiniteSet(B) /\ Cardinality(B) \in Nat
      BY WritesCounted
    <3>2. IsFiniteSet(B \cup {m})
          /\ Cardinality(B \cup {m}) = IF m \in B THEN Cardinality(B) ELSE Cardinality(B) + 1
      <4> HIDE DEF B
      <4> QED BY <3>1, FS_AddElement, Zenon
    <3> HIDE DEF B
    <3>3. Cardinality(B \cup {m}) <= Cardinality(B) + 1
      BY <3>1, <3>2
    <3> QED BY <3>2, <3>3 DEF B
  <2> QED BY <1>2, <2>2, <2>3, WritesCounted, FS_Subset, FS_CardinalityType
<1>4. CASE ~ \E m \in UpToNewest(n) : m.id = newest[m.client]
  <2>1. UpToNewest(n) = BeforeNewest(n)
    <3>1. ASSUME NEW x \in UpToNewest(n) PROVE x \in BeforeNewest(n)
      BY <1>1, <1>4 DEF UpToNewest, BeforeNewest
    <3> QED BY <1>2, <3>1
  <2> QED BY <2>1, WritesCounted
<1> QED BY <1>3, <1>4

(* An arrival moves what came before it out of the newest; if it is a      *)
(* write of the value it adds to what has come.                            *)
LEMMA ArrivalCounts ==
  ASSUME SoleOrderedClient, TypeInv, IssuedOnce, NEW m \in requests, Arrive(m), NEW n
  PROVE  /\ Cardinality(UpToNewest(n)) <= Cardinality(UpToNewest(n)')
         /\ Cardinality(BeforeNewest(n)) <= Cardinality(BeforeNewest(n)')
         /\ m.kind = Match[n] =>
              Cardinality(BeforeNewest(n)') + 1 <= Cardinality(UpToNewest(n)')
         /\ m.kind # Match[n] =>
              Cardinality(UpToNewest(n)) <= Cardinality(BeforeNewest(n)')
         /\ Cardinality(UpToNewest(n)') \in Nat /\ Cardinality(BeforeNewest(n)') \in Nat
<1>1. /\ requests' = requests /\ IsFiniteSet(requests)
      /\ m.client \in Clients /\ m.id \in Nat /\ newest[m.client] \in Nat
      /\ m.id >= newest[m.client]
  BY DEF Arrive, CanArrive, SoleOrderedClient, TypeInv, TypeOK, Command, Ids, IssuedOnce
<1>2. newest'[m.client] = m.id
  <2>1. newest'[m.client] = IF m.id > newest[m.client] THEN m.id ELSE newest[m.client]
    BY <1>1 DEF Arrive, TypeInv, TypeOK
  <2>2. m.id > newest[m.client] \/ m.id = newest[m.client]
    BY <1>1
  <2> QED BY <2>1, <2>2
<1>3. ASSUME NEW x \in requests
      PROVE  /\ x.client = m.client /\ x.id \in Nat
             /\ x.id = m.id => x = m
  BY <1>1 DEF SoleOrderedClient, TypeInv, TypeOK, Command, Ids, IssuedOnce
<1> DEFINE Up == {x \in requests : x.kind = Match[n] /\ x.id <= m.id}
           Before == {x \in requests : x.kind = Match[n] /\ x.id < m.id}
<1>4. UpToNewest(n)' = Up /\ BeforeNewest(n)' = Before
  BY <1>1, <1>2, <1>3 DEF UpToNewest, BeforeNewest
<1>5. /\ IsFiniteSet(Up) /\ IsFiniteSet(Before)
      /\ Cardinality(Up) \in Nat /\ Cardinality(Before) \in Nat
  <2>1. Up \subseteq requests /\ Before \subseteq requests
    OBVIOUS
  <2> HIDE DEF Up, Before
  <2> QED BY <1>1, <2>1, FS_Subset, FS_CardinalityType
<1>6. UpToNewest(n) \subseteq Up /\ BeforeNewest(n) \subseteq Before
  <2>1. ASSUME NEW x \in requests PROVE newest[x.client] = newest[m.client] /\ x.id \in Nat
    BY <1>3
  <2> QED BY <1>1, <2>1 DEF UpToNewest, BeforeNewest
<1>7. ASSUME m.kind = Match[n] PROVE Cardinality(Before) + 1 <= Cardinality(Up)
  <2>1. Before \cup {m} \subseteq Up /\ m \notin Before
    BY <1>1, <1>3, <1>7
  <2> HIDE DEF Up, Before
  <2>2. Cardinality(Before \cup {m}) = Cardinality(Before) + 1
    BY <1>5, <2>1, FS_AddElement
  <2> QED BY <1>5, <2>1, <2>2, FS_Subset
<1>8. ASSUME m.kind # Match[n] PROVE UpToNewest(n) \subseteq Before
  <2> SUFFICES ASSUME NEW x \in UpToNewest(n) PROVE x \in Before
    OBVIOUS
  <2>1. x \in requests /\ x.kind = Match[n] /\ x.id <= newest[x.client]
    BY DEF UpToNewest
  <2>2. x # m /\ x.id \in Nat /\ x.id <= m.id
    BY <1>1, <1>3, <1>8, <2>1
  <2>3. x.id # m.id /\ m.id \in Nat
    BY <1>1, <1>3, <2>1, <2>2
  <2>4. x.id < m.id
    BY <2>2, <2>3
  <2> QED BY <2>1, <2>4
<1> HIDE DEF Up, Before
<1> QED BY <1>4, <1>5, <1>6, <1>7, <1>8, FS_Subset

LEMMA ArrivePaid ==
  ASSUME SoleOrderedClient, ResetInv, NEW m \in requests, Arrive(m) PROVE PaidInv'
<1> DEFINE u == [n \in 1 .. 3 |-> Cardinality(UpToNewest(n))]
           b == [n \in 1 .. 3 |-> Cardinality(BeforeNewest(n))]
           v == [n \in 1 .. 3 |-> Cardinality(UpToNewest(n)')]
           c == [n \in 1 .. 3 |-> Cardinality(BeforeNewest(n)')]
<1>1. ASSUME NEW n \in 1 .. 3
      PROVE  /\ u[n] \in Nat /\ b[n] \in Nat /\ v[n] \in Nat /\ c[n] \in Nat
             /\ u[n] <= v[n] /\ b[n] <= c[n] /\ u[n] <= b[n] + 1 /\ b[n] <= u[n]
             /\ m.kind = Match[n] => c[n] + 1 <= v[n]
             /\ m.kind # Match[n] => u[n] <= c[n]
  BY WritesCounted, OneIsNewest, ArrivalCounts DEF ResetInv
<1>2. rebootIndex \in 0 .. 2 /\ resets \in Nat /\ Receive(m)
  BY DEF ResetInv, TypeInv, TypeOK, Arrive
<1>3. /\ IF rebootIndex >= 1 THEN resets + 1 <= u[1] ELSE resets <= b[1]
      /\ IF rebootIndex >= 2 THEN resets + 1 <= u[2] ELSE resets <= b[2]
      /\ IF rebootIndex >= 1 THEN resets <= b[3] ELSE resets <= u[3]
  BY DEF ResetInv, PaidInv
<1>4. /\ Match[1] = "reboot1" /\ Match[2] = "reboot100" /\ Match[3] = "reboot10000"
  BY DEF Match
<1>5. SUFFICES /\ IF rebootIndex' >= 1 THEN resets' + 1 <= v[1] ELSE resets' <= c[1]
               /\ IF rebootIndex' >= 2 THEN resets' + 1 <= v[2] ELSE resets' <= c[2]
               /\ IF rebootIndex' >= 1 THEN resets' <= c[3] ELSE resets' <= v[3]
  BY DEF PaidInv
<1> HIDE DEF u, b, v, c
<1>6. CASE rebootIndex' = rebootIndex /\ resets' = resets
  BY <1>1, <1>2, <1>3, <1>6
<1>7. CASE rebootIndex' = 0 /\ resets' = resets
  BY <1>1, <1>2, <1>3, <1>7
<1>8. CASE rebootIndex = 0 /\ rebootIndex' = 1 /\ resets' = resets /\ m.kind = "reboot1"
  BY <1>1, <1>2, <1>3, <1>4, <1>8
<1>9. CASE rebootIndex = 1 /\ rebootIndex' = 2 /\ resets' = resets /\ m.kind = "reboot100"
  BY <1>1, <1>2, <1>3, <1>4, <1>9
<1>10. CASE /\ rebootIndex = 2 /\ rebootIndex' = 0 /\ resets' = resets + 1
            /\ m.kind = "reboot10000"
  BY <1>1, <1>2, <1>3, <1>4, <1>10
<1>11. CASE Execute(m)
  <2>1. resets' = resets
    BY <1>11 DEF Execute
  <2>2. \/ rebootIndex' = rebootIndex \/ rebootIndex' = 0
        \/ rebootIndex = 0 /\ rebootIndex' = 1 /\ m.kind = "reboot1"
        \/ rebootIndex = 1 /\ rebootIndex' = 2 /\ m.kind = "reboot100"
    BY <1>2, <1>4, <1>11 DEF Execute, RebootIndexAfter, CompletesReboot
  <2> QED BY <1>6, <1>7, <1>8, <1>9, <2>1, <2>2
<1>12. CASE Reject(m) \/ Replay(m)
  BY <1>6, <1>12 DEF Reject, Replay, memory, history
<1>13. CASE ForcedReset(m)
  <2>1. rebootIndex' = 0 /\ resets' = resets + 1
    BY <1>13 DEF ForcedReset, Restart, RebootIndexAtBoot
  <2>2. rebootIndex = 2 /\ m.kind = "reboot10000"
    BY <1>2, <1>4, <1>13 DEF ForcedReset, CompletesReboot, RebootIndexAfter
  <2> QED BY <1>10, <2>1, <2>2
<1> QED BY <1>2, <1>11, <1>12, <1>13 DEF Receive

LEMMA StepPaid == ASSUME SoleOrderedClient, ResetInv, [Next]_vars PROVE ResetInv'
<1>1. TypeInv' /\ IssuedOnce'
  BY StepTypes, StepIssuedOnce DEF ResetInv
<1>2. ASSUME NEW m \in requests, Arrive(m) PROVE PaidInv'
  BY <1>2, ArrivePaid
<1>3. ASSUME requests \subseteq requests', newest' = newest, resets' = resets,
             rebootIndex' = rebootIndex \/ rebootIndex' = 0
      PROVE  PaidInv'
  <2> DEFINE u == [n \in 1 .. 3 |-> Cardinality(UpToNewest(n))]
             b == [n \in 1 .. 3 |-> Cardinality(BeforeNewest(n))]
             v == [n \in 1 .. 3 |-> Cardinality(UpToNewest(n)')]
             c == [n \in 1 .. 3 |-> Cardinality(BeforeNewest(n)')]
  <2>1. ASSUME NEW n \in 1 .. 3
        PROVE  v[n] \in Nat /\ c[n] \in Nat /\ u[n] <= v[n] /\ b[n] <= c[n]
    <3>1. UpToNewest(n) \subseteq UpToNewest(n)' /\ BeforeNewest(n) \subseteq BeforeNewest(n)'
      BY <1>3 DEF UpToNewest, BeforeNewest
    <3>2. UpToNewest(n)' \subseteq requests' /\ BeforeNewest(n)' \subseteq requests'
          /\ IsFiniteSet(requests')
      BY <1>1 DEF UpToNewest, BeforeNewest, IssuedOnce
    <3>3. IsFiniteSet(UpToNewest(n)') /\ IsFiniteSet(BeforeNewest(n)')
      BY <3>2, FS_Subset
    <3> QED BY <3>1, <3>3, FS_Subset, FS_CardinalityType
  <2>2. \A n \in 1 .. 3 : u[n] \in Nat /\ b[n] \in Nat /\ u[n] <= b[n] + 1 /\ b[n] <= u[n]
    BY WritesCounted, OneIsNewest DEF ResetInv
  <2>3. rebootIndex \in 0 .. 2 /\ resets \in Nat
    BY DEF ResetInv, TypeInv, TypeOK
  <2>4. /\ IF rebootIndex >= 1 THEN resets + 1 <= u[1] ELSE resets <= b[1]
        /\ IF rebootIndex >= 2 THEN resets + 1 <= u[2] ELSE resets <= b[2]
        /\ IF rebootIndex >= 1 THEN resets <= b[3] ELSE resets <= u[3]
    BY DEF ResetInv, PaidInv
  <2>5. SUFFICES /\ IF rebootIndex' >= 1 THEN resets' + 1 <= v[1] ELSE resets' <= c[1]
                 /\ IF rebootIndex' >= 2 THEN resets' + 1 <= v[2] ELSE resets' <= c[2]
                 /\ IF rebootIndex' >= 1 THEN resets' <= c[3] ELSE resets' <= v[3]
    BY DEF PaidInv
  <2> HIDE DEF u, b, v, c
  <2> QED BY <1>3, <2>1, <2>2, <2>3, <2>4
<1>4. ASSUME NEW c \in Clients, Issue(c) PROVE PaidInv'
  BY <1>3, <1>4 DEF Issue, memory, history
<1>5. ASSUME NEW c \in Clients, Accept(c) \/ GiveUp(c) PROVE PaidInv'
  BY <1>3, <1>5 DEF Accept, GiveUp, memory, history, network
<1>6. ASSUME Restarts PROVE PaidInv'
  BY <1>3, <1>6 DEF Restarts, PowerCycle, Restart, RebootIndexAtBoot, network
<1>7. ASSUME UNCHANGED vars PROVE PaidInv'
  BY <1>3, <1>7 DEF vars, memory, history, network
<1>8. PaidInv'
  BY <1>2, <1>4, <1>5, <1>6, <1>7 DEF Next
<1> QED BY <1>1, <1>8 DEF ResetInv

(* However often the writes of the reboot sequence are resent, and however *)
(* often the processor restarts between them, each reset that a client     *)
(* forces has a 1, a 100 and a 10000 of its own (crankRebootStateMachine). *)
THEOREM ResetsPaid == SoleOrderedClient => (Spec => []ResetsArePaidFor)
<1> SUFFICES ASSUME SoleOrderedClient PROVE Spec => []ResetsArePaidFor
  OBVIOUS
<1>1. Init => ResetInv
  <2> SUFFICES ASSUME Init PROVE ResetInv
    OBVIOUS
  <2>1. TypeInv
    BY InitTypes
  <2>2. IssuedOnce
    BY FS_EmptySet DEF Init, IssuedOnce
  <2>3. UpToNewest(3) = {} /\ BeforeNewest(1) = {} /\ BeforeNewest(2) = {}
    BY DEF Init, UpToNewest, BeforeNewest
  <2>4. PaidInv
    BY <2>3, FS_EmptySet DEF Init, ServerInit, PaidInv
  <2> QED BY <2>1, <2>2, <2>4 DEF ResetInv
<1>2. ResetInv /\ [Next]_vars => ResetInv'
  BY StepPaid
<1>3. ResetInv => ResetsArePaidFor
  <2> SUFFICES ASSUME ResetInv, NEW n \in 1 .. 3
               PROVE  resets <= Cardinality(IssuedOf(Match[n]))
    BY DEF ResetsArePaidFor
  <2>1. /\ rebootIndex \in 0 .. 2 /\ resets \in Nat
        /\ \A k \in 1 .. 3 : /\ Cardinality(UpToNewest(k)) \in Nat
                            /\ Cardinality(BeforeNewest(k)) \in Nat
                            /\ Cardinality(BeforeNewest(k)) <= Cardinality(UpToNewest(k))
    BY WritesCounted, OneIsNewest DEF ResetInv, TypeInv, TypeOK
  <2>2. resets <= Cardinality(UpToNewest(n))
    BY <2>1 DEF ResetInv, PaidInv
  <2>3. /\ Cardinality(UpToNewest(n)) <= Cardinality(IssuedOf(Match[n]))
        /\ IsFiniteSet(IssuedOf(Match[n]))
    <3>1. IssuedOf(Match[n]) \subseteq requests /\ IsFiniteSet(requests)
      BY DEF IssuedOf, ResetInv, IssuedOnce
    <3> QED BY <3>1, WritesCounted, FS_Subset DEF ResetInv
  <2>4. Cardinality(IssuedOf(Match[n])) \in Nat
    BY <2>3, FS_CardinalityType
  <2> QED BY <2>1, <2>2, <2>3, <2>4
<1> QED BY <1>1, <1>2, <1>3, PTL DEF Spec
=============================================================================
