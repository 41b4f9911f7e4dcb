----------------------------- MODULE TftpServer -----------------------------
(***************************************************************************)
(* The TFTP server of the digitizer (software/src/tftp.c): its packet      *)
(* handler, the file it reads and writes, a lossy network, and clients.    *)
(*                                                                         *)
(* Each transfer has a client port of its own, which is all the server     *)
(* sees of the client; the server has one transfer's state, in static      *)
(* variables, and takes a packet of any client for a packet of that        *)
(* transfer.  A file is a sequence of blocks, of which the one numbered    *)
(* FileBlocks is shorter than the others and therefore the last.  Block    *)
(* numbers are in 16 bits on the wire: in BlockMod values here.            *)
(***************************************************************************)
EXTENDS Integers, Sequences, SequencesExt

CONSTANTS
  Transfers,        \* bound: transfers 1 .. Transfers take place
  Kinds,            \* kinds of transfers: "get", "put", "bad"
  FileBlocks,       \* blocks of a file
  BlockMod,         \* number of block numbers on the wire
  MaxInFlight,      \* bound: packets in flight in one direction
  Reordering,       \* whether the network reorders and duplicates packets
  MaxFailures,      \* bound: failures of card operations and packet allocations
  GivesUp           \* whether clients give up

ASSUME TransfersAssumption ==
  Transfers \in Nat \ {0} /\ Kinds \subseteq {"get", "put", "bad"}
ASSUME BlocksAssumption == FileBlocks \in Nat \ {0} /\ BlockMod \in Nat \ {0, 1, 2}
ASSUME NetworkAssumption ==
  MaxInFlight \in Nat \ {0} /\ MaxFailures \in Nat /\ {Reordering, GivesUp} \subseteq BOOLEAN

VARIABLES
  (* static variables of tftp_recv_callback and of sendBlock *)
  lastBlock, lastSend, fileIndex, fp, cbuf,
  file,             \* the file on the card
  position,         \* where fp reads next
  (* outside of the server *)
  toServer, toClient,  \* packets in flight
  client,              \* each client's state
  failures             \* number of operations that have failed

transfer == <<lastBlock, lastSend, fileIndex, fp, cbuf, file, position>>
server == <<transfer, failures>>
vars == <<server, toServer, toClient, client>>

Ports == 1 .. Transfers
Block == [of : 0 .. Transfers, n : 1 .. FileBlocks]
NoBlock == [of |-> 0, n |-> 0]    \* zero bytes, past the end of a file
IsFull(b) == b.n \in 1 .. FileBlocks - 1
Data(t) == [n \in 1 .. FileBlocks |-> [of |-> t, n |-> n]]

WireUnbounded(n) == n
Wire(n) == n % BlockMod
Packet(opcode, port, block, data) ==
  [opcode |-> opcode, port |-> port, block |-> block, data |-> data]
RRQ(t) == Packet("RRQ", t, 0, NoBlock)
WRQ(t) == Packet("WRQ", t, 0, NoBlock)
BadRQ(t) == Packet("BAD", t, 0, NoBlock)  \* unknown file name or not octet mode
DATA(t, n, b) == Packet("DATA", t, Wire(n), b)
ACK(t, n) == Packet("ACK", t, Wire(n), NoBlock)
ERROR(t) == Packet("ERROR", t, 0, NoBlock)

Init ==
  /\ lastBlock = 0 /\ lastSend = FALSE /\ fileIndex = FALSE /\ fp = "none"
  /\ cbuf = NoBlock
  /\ file = Data(0) /\ position = 0
  /\ toServer = <<>> /\ toClient = <<>>
  /\ client = [t \in Ports |-> [op |-> "idle", next |-> 0, got |-> <<>>]]
  /\ failures = 0

----------------------------------------------------------------------------
(* The network.  Packets that find a direction full are lost.              *)
Sent(channel, packets) ==
  LET all == channel \o packets IN
  IF Len(all) <= MaxInFlight THEN all ELSE SubSeq(all, 1, MaxInFlight)
Arrivals(channel) == IF Reordering THEN DOMAIN channel ELSE DOMAIN channel \cap {1}
(* What is in flight after the arrival of the packet at i.                 *)
After(channel, i) ==
  {RemoveAt(channel, i)} \cup (IF Reordering THEN {channel} ELSE {})
Reply(packets) == toClient' = Sent(toClient, packets)

LoseToServer ==
  /\ \E i \in DOMAIN toServer : toServer' = RemoveAt(toServer, i)
  /\ UNCHANGED <<server, toClient, client>>
LoseToClient ==
  /\ \E i \in DOMAIN toClient : toClient' = RemoveAt(toClient, i)
  /\ UNCHANGED <<server, toServer, client>>

----------------------------------------------------------------------------
(* sendBlock: the next block of the file, or with no file the cached one.  *)
SomethingFails == failures < MaxFailures /\ failures' = failures + 1
NothingFails == UNCHANGED failures

NextBlock == IF position < Len(file) THEN file[position + 1] ELSE NoBlock
SendNext(p, n, from) ==
  /\ cbuf' = from
  /\ \/ NothingFails /\ lastSend' = IsFull(from) /\ Reply(<<DATA(p.port, n, from)>>)
     \/ SomethingFails /\ lastSend' = FALSE /\ UNCHANGED toClient
SendError(p) ==
  lastSend' = FALSE /\ Reply(<<ERROR(p.port)>>) /\ UNCHANGED <<cbuf, position>>
ResendAsNext(p) == SendNext(p, lastBlock + 1, cbuf)
ResendForgets(p) ==
  /\ lastSend' = FALSE /\ Reply(<<DATA(p.port, lastBlock, cbuf)>>)
  /\ UNCHANGED <<cbuf, failures>>
Resend(p) == SendNext(p, lastBlock, cbuf)

(* A request abandons the transfer in progress.  One that is refused, and  *)
(* one whose preTransmit function fails, leaves that transfer's file open. *)
BadRequest(p) ==
  /\ p.opcode = "BAD"
  /\ lastBlock' = 0 /\ fileIndex' = FALSE
  /\ Reply(<<ERROR(p.port)>>)
  /\ NothingFails
  /\ UNCHANGED <<lastSend, fp, cbuf, file, position>>
RequestFails(p) ==
  /\ SomethingFails
  /\ p.opcode \in {"RRQ", "WRQ"}
  /\ lastBlock' = 0 /\ fileIndex' = TRUE
  /\ fp' = "none" \/ (p.opcode = "RRQ" /\ UNCHANGED fp)
  /\ Reply(<<ERROR(p.port)>>)
  /\ UNCHANGED <<lastSend, cbuf, file, position>>
ReadRequest(p) ==
  /\ p.opcode = "RRQ"
  /\ lastBlock' = 1
  /\ fileIndex' = TRUE /\ fp' = "read"
  /\ \/ /\ SendNext(p, 1, IF file = <<>> THEN NoBlock ELSE file[1])
        /\ position' = 1
     \/ SomethingFails /\ SendError(p)
  /\ UNCHANGED file
OpenedForAppending == file
OpenedForWriting == <<>>
WriteRequest(p) ==
  /\ p.opcode = "WRQ"
  /\ lastBlock' = 0
  /\ fileIndex' = TRUE /\ fp' = "write"
  /\ file' = OpenedForWriting /\ position' = 0
  /\ Reply(<<ACK(p.port, 0)>>)
  /\ NothingFails
  /\ UNCHANGED <<lastSend, cbuf>>

(* DATA.  A failed write has advanced lastBlock all the same; after the    *)
(* last block the file is closed and handed to the postReceive function,   *)
(* whose failure is reported by an error that precedes the ACK.            *)
IsRepeat(p) == p.block = lastBlock
IsAnyBlock(p) == TRUE
IsNextBlock(p) == p.block = Wire(lastBlock + 1)
Closes(p) == fp # "none" /\ ~IsFull(p.data)
CloseAfter(p) ==
  IF Closes(p) THEN fp' = "none" /\ fileIndex' = FALSE ELSE UNCHANGED <<fp, fileIndex>>
RepeatedData(p) ==
  /\ p.opcode = "DATA" /\ fileIndex
  /\ IsRepeat(p)
  /\ Reply(<<ACK(p.port, p.block)>>)
  /\ UNCHANGED server
WriteData(p) ==
  /\ p.opcode = "DATA" /\ fileIndex
  /\ ~IsRepeat(p) /\ IsNextBlock(p)
  /\ fp = "write"
  /\ lastBlock' = p.block
  /\ file' = Append(file, p.data)
  /\ \/ NothingFails /\ Reply(<<ACK(p.port, p.block)>>)
     \/ SomethingFails /\ Closes(p) /\ Reply(<<ERROR(p.port), ACK(p.port, p.block)>>)
     \/ SomethingFails /\ Closes(p) /\ Reply(<<ERROR(p.port)>>)
  /\ CloseAfter(p)
  /\ UNCHANGED <<lastSend, cbuf, position>>
WriteFails(p) ==
  /\ p.opcode = "DATA" /\ fileIndex
  /\ ~IsRepeat(p) /\ IsNextBlock(p)
  /\ SomethingFails \/ (fp # "write" /\ NothingFails)
  /\ lastBlock' = p.block
  /\ Reply(<<ERROR(p.port)>>)
  /\ CloseAfter(p)
  /\ UNCHANGED <<lastSend, cbuf, file, position>>
IgnoredData(p) ==
  /\ p.opcode = "DATA"
  /\ ~fileIndex \/ (~IsRepeat(p) /\ ~IsNextBlock(p))
  /\ UNCHANGED <<server, toClient>>

(* ACK: of the last block sent, or of another one, which asks for the last *)
(* block again.                                                            *)
AckedLast(p) == p.opcode = "ACK" /\ fileIndex /\ p.block = lastBlock
AckNext(p) ==
  /\ AckedLast(p) /\ lastSend
  /\ lastBlock' = Wire(lastBlock + 1)
  /\ \/ /\ fp # "write"
        /\ SendNext(p, lastBlock + 1, IF fp = "read" THEN NextBlock ELSE cbuf)
        /\ position' = IF fp = "read" THEN position + 1 ELSE position
     \/ /\ SomethingFails \/ (fp = "write" /\ NothingFails)
        /\ SendError(p)
  /\ UNCHANGED <<fileIndex, fp, file>>
AckEnd(p) ==
  /\ AckedLast(p) /\ ~lastSend
  /\ lastBlock' = Wire(lastBlock + 1)
  /\ fp' = "none" /\ fileIndex' = FALSE
  /\ UNCHANGED <<lastSend, cbuf, file, position, toClient, failures>>
AckOther(p) ==
  /\ p.opcode = "ACK" /\ fileIndex /\ p.block # lastBlock
  /\ Resend(p)
  /\ UNCHANGED <<lastBlock, fileIndex, fp, file, position>>
IgnoredAck(p) ==
  /\ p.opcode = "ACK" /\ ~fileIndex
  /\ UNCHANGED <<server, toClient>>

tftp_recv_callback(p) ==
  \/ BadRequest(p) \/ RequestFails(p) \/ ReadRequest(p) \/ WriteRequest(p)
  \/ RepeatedData(p) \/ WriteData(p) \/ WriteFails(p) \/ IgnoredData(p)
  \/ AckNext(p) \/ AckEnd(p) \/ AckOther(p) \/ IgnoredAck(p)

ServerReceives(p) ==
  \E i \in Arrivals(toServer) :
    /\ toServer[i] = p
    /\ toServer' \in After(toServer, i)
    /\ tftp_recv_callback(p)
    /\ UNCHANGED client

----------------------------------------------------------------------------
(* The clients: one transfer at a time, as the documentation asks.         *)
Ended(t) == client[t].op \in {"done", "failed"}
Send(p) == toServer' = Sent(toServer, <<p>>)

Request(t, kind) ==
  CASE kind = "get" -> RRQ(t) [] kind = "put" -> WRQ(t) [] kind = "bad" -> BadRQ(t)
Begin(t, kind) ==
  /\ client[t].op = "idle"
  /\ \A u \in 1 .. t - 1 : Ended(u)
  /\ client' = [client EXCEPT ![t].op = kind, ![t].next = IF kind = "get" THEN 1 ELSE 0]
  /\ Send(Request(t, kind))
  /\ UNCHANGED <<server, toClient>>

(* What the client sent last.                                              *)
LastPacket(t) ==
  LET n == client[t].next IN
  CASE client[t].op = "get" /\ n = 1 -> RRQ(t)
    [] client[t].op = "get" /\ n > 1 -> ACK(t, n - 1)
    [] client[t].op = "put" /\ n = 0 -> WRQ(t)
    [] client[t].op = "bad" -> BadRQ(t)
    [] client[t].op = "put" /\ n > 0 -> DATA(t, n, Data(t)[n])
Timeout(t) ==
  /\ client[t].op \in {"get", "put", "bad"}
  /\ Send(LastPacket(t))
  /\ UNCHANGED <<server, toClient, client>>
GiveUp(t) ==
  /\ GivesUp
  /\ client[t].op \in {"get", "put", "bad"}
  /\ client' = [client EXCEPT ![t].op = "failed"]
  /\ UNCHANGED <<server, toServer, toClient>>

ExpectedData(p) ==
  client[p.port].op = "get" /\ p.opcode = "DATA" /\ p.block = Wire(client[p.port].next)
OldData(p) ==
  client[p.port].op = "get" /\ p.opcode = "DATA" /\ p.block = Wire(client[p.port].next - 1)
ExpectedACK(p) ==
  client[p.port].op = "put" /\ p.opcode = "ACK" /\ p.block = Wire(client[p.port].next)
Refusal(p) == ~Ended(p.port) /\ p.opcode = "ERROR"

GetBlock(p) ==
  /\ ExpectedData(p)
  /\ client' = [client EXCEPT
       ![p.port].got = IF p.data = NoBlock THEN @ ELSE Append(@, p.data),
       ![p.port].next = @ + 1,
       ![p.port].op = IF IsFull(p.data) THEN "get" ELSE "done"]
  /\ Send(ACK(p.port, p.block))
AckAgain(p) ==
  /\ OldData(p)
  /\ Send(ACK(p.port, p.block))
  /\ UNCHANGED client
PutNext(p) ==
  /\ ExpectedACK(p)
  /\ client[p.port].next < FileBlocks
  /\ client' = [client EXCEPT ![p.port].next = @ + 1]
  /\ LET n == client[p.port].next + 1 IN Send(DATA(p.port, n, Data(p.port)[n]))
PutDone(p) ==
  /\ ExpectedACK(p)
  /\ client[p.port].next = FileBlocks
  /\ client' = [client EXCEPT ![p.port].op = "done"]
  /\ UNCHANGED toServer
Fail(p) ==
  /\ Refusal(p)
  /\ client' = [client EXCEPT ![p.port].op = "failed"]
  /\ UNCHANGED toServer
Discard(p) ==
  /\ ~(ExpectedData(p) \/ OldData(p) \/ ExpectedACK(p) \/ Refusal(p))
  /\ UNCHANGED <<client, toServer>>

ClientReceives(p) ==
  \E i \in Arrivals(toClient) :
    /\ toClient[i] = p
    /\ toClient' \in After(toClient, i)
    /\ GetBlock(p) \/ AckAgain(p) \/ PutNext(p) \/ PutDone(p) \/ Fail(p) \/ Discard(p)
    /\ UNCHANGED server

Next ==
  \/ \E p \in ToSet(toServer) : ServerReceives(p)
  \/ \E p \in ToSet(toClient) : ClientReceives(p)
  \/ \E t \in Ports, kind \in Kinds : Begin(t, kind)
  \/ \E t \in Ports : Timeout(t) \/ GiveUp(t)
  \/ LoseToServer \/ LoseToClient

Spec == Init /\ [][Next]_vars

(* The network does not lose everything for ever, and a client without an  *)
(* answer sends again.                                                     *)
ServerReceivesOne == \E p \in ToSet(toServer) : ServerReceives(p)
ClientReceivesOne == \E p \in ToSet(toClient) : ClientReceives(p)
FairSpec ==
  /\ Spec
  /\ SF_vars(ServerReceivesOne) /\ SF_vars(ClientReceivesOne)
  /\ \A t \in Ports : WF_vars(Timeout(t))

----------------------------------------------------------------------------
Packets ==
  [opcode : {"RRQ", "WRQ", "BAD", "DATA", "ACK", "ERROR"}, port : Ports,
   block : 0 .. BlockMod - 1, data : Block \cup {NoBlock}]
TypeOK ==
  /\ lastBlock \in 0 .. BlockMod - 1
  /\ {lastSend, fileIndex} \subseteq BOOLEAN
  /\ fp \in {"none", "read", "write"}
  /\ cbuf \in Block \cup {NoBlock}
  /\ file \in Seq(Block)
  /\ position \in 0 .. FileBlocks + 1 /\ failures \in 0 .. MaxFailures
  /\ {toServer, toClient} \subseteq Seq(Packets)
  /\ client \in [Ports -> [op : {"idle", "get", "put", "bad", "done", "failed"},
                           next : 0 .. FileBlocks + MaxFailures + 2, got : Seq(Block)]]

(* When a client takes its upload for successful, the card holds the file  *)
(* it sent, every block once and in order, and the file is closed.         *)
Succeeds(t, kind) == client[t].op = kind /\ client'[t].op = "done"
SuccessIsStored == \A t \in Ports : Succeeds(t, "put") => file = Data(t) /\ fp # "write"
PutIsStored == [][SuccessIsStored]_vars

(* At every moment the file is a prefix of a single upload, its blocks in  *)
(* their order: a transfer given up leaves nothing in the next one.        *)
StoredInOrder == \E t \in 0 .. Transfers : IsPrefix(file, Data(t))

(* Whether datagrams of an upload given up arrive late and overtake each   *)
(* other, or an open or a write fails: no block is stored twice or after a *)
(* later one.  This is about uploads and refused requests: nothing is read. *)
NoBlockTwice == \A i, j \in DOMAIN file : i < j => file[i].n < file[j].n

(* When a client takes its download for complete, it has the whole file.   *)
GetIsWhole ==
  [][\A t \in Ports : Succeeds(t, "get") => client'[t].got = file]_vars

(* A download ends for a client that does not give up, however many        *)
(* packets are lost on the way.                                            *)
GetEnds == \A t \in Ports : client[t].op = "get" ~> client[t].op # "get"

(* No step spoils the order of the file, and what a client takes for       *)
(* stored is.                                                              *)
PutsAreKept == [][StoredInOrder' /\ SuccessIsStored]_vars

(* What a client takes for complete is, and it is told so.                 *)
GetCompletes == GetIsWhole /\ GetEnds

(* No reordering, repetition or failure duplicates a block of an upload or *)
(* spoils the state of the server.                                         *)
StoredOnce == TypeOK /\ NoBlockTwice
=============================================================================
