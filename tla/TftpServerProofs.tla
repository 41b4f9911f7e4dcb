-------------------------- MODULE TftpServerProofs --------------------------
(***************************************************************************)
(* Transfers of any number and size.  Over a network that loses,           *)
(* duplicates and reorders packets, with operations that fail, no block of *)
(* a short upload is stored twice or after a later one (UploadInv).  Over  *)
(* a network that only loses packets, with no failing operation, the file  *)
(* is always the start of one upload, and all of it when the client takes  *)
(* it for stored, whatever else is transferred (SequenceInv).              *)
(***************************************************************************)
EXTENDS TftpServer, SequenceTheorems, TLAPS

(* A download would move the block number on while a file is open for      *)
(* writing, and a longer file uses its numbers again.                      *)
ShortUploads == Kinds \subseteq {"put", "bad"} /\ FileBlocks < BlockMod

(* What clients that upload send: a block's number is its own.             *)
ToServer ==
  {p \in Packets : /\ p.opcode \in {"WRQ", "BAD", "DATA"}
                   /\ p.opcode = "DATA" => p.data \in Block /\ p.block = p.data.n}
ChannelInv == toServer \in Seq(ToServer) /\ toClient \in Seq(Packets)
ClientInv ==
  client \in [Ports -> [op : {"idle", "put", "bad", "done", "failed"},
                        next : 0 .. FileBlocks, got : Seq(Block)]]
ServerInv ==
  /\ lastBlock \in 0 .. BlockMod - 1 /\ fileIndex \in BOOLEAN /\ fp \in {"none", "read", "write"}
  /\ file \in Seq(Block) /\ lastSend = FALSE /\ cbuf = NoBlock /\ position = 0
  /\ failures \in 0 .. MaxFailures

(* The number of the last block is that of the last one stored, or of one  *)
(* after it that could not be.  After a request that was refused it is     *)
(* not, and nothing can be stored until another request is accepted.       *)
StoredSoFar == fileIndex /\ fp = "write" => \A i \in DOMAIN file : file[i].n <= lastBlock
UploadInv == ChannelInv /\ ClientInv /\ ServerInv /\ StoredSoFar /\ NoBlockTwice

----------------------------------------------------------------------------
(* The network.                                                            *)
LEMMA SentStays ==
  ASSUME NEW S, NEW ch \in Seq(S), NEW ps \in Seq(S) PROVE Sent(ch, ps) \in Seq(S)
<1>1. ch \o ps \in Seq(S) /\ Len(ch \o ps) \in Nat
  BY ConcatProperties
<1>2. Len(ch \o ps) > MaxInFlight => SubSeq(ch \o ps, 1, MaxInFlight) \in Seq(S)
  BY <1>1, SubSeqProperties, NetworkAssumption
<1> QED BY <1>1, <1>2, NetworkAssumption DEF Sent

LEMMA RemovedStays ==
  ASSUME NEW S, NEW ch \in Seq(S), NEW i \in DOMAIN ch
  PROVE  RemoveAt(ch, i) \in Seq(S) /\ ch[i] \in S
<1>1. DOMAIN ch = 1 .. Len(ch) /\ Len(ch) \in Nat /\ i \in 1 .. Len(ch)
  BY LenProperties
<1>2. SubSeq(ch, 1, i - 1) \in Seq(S)
  BY <1>1
<1>3. SubSeq(ch, i + 1, Len(ch)) \in Seq(S)
  BY <1>1
<1>4. RemoveAt(ch, i) \in Seq(S)
  BY <1>2, <1>3, ConcatProperties DEF RemoveAt
<1> QED BY <1>1, <1>4, ElementOfSeq

LEMMA AfterStays ==
  ASSUME NEW S, NEW ch \in Seq(S), NEW i \in Arrivals(ch), NEW rest \in After(ch, i)
  PROVE  rest \in Seq(S) /\ ch[i] \in S
<1>1. i \in DOMAIN ch
  BY DEF Arrivals
<1> QED BY <1>1, RemovedStays DEF After

(* Packets are of their kinds.                                             *)
LEMMA BlocksFit ==
  ASSUME NEW t \in Ports, NEW n \in 1 .. FileBlocks
  PROVE  /\ Data(t)[n] \in Block /\ Data(t)[n].n = n
         /\ ShortUploads => Wire(n) = n
<1>1. Data(t)[n] = [of |-> t, n |-> n]
  BY DEF Data
<1>2. t \in 0 .. Transfers /\ n \in Int
  BY TransfersAssumption, BlocksAssumption DEF Ports
<1>3. ShortUploads => n % BlockMod = n
  BY BlocksAssumption DEF ShortUploads
<1> QED BY <1>1, <1>2, <1>3 DEF Block, Wire

LEMMA PacketsFit ==
  ASSUME ShortUploads, NEW t \in Ports
  PROVE  /\ WRQ(t) \in ToServer /\ BadRQ(t) \in ToServer /\ ERROR(t) \in Packets
         /\ \A n \in 1 .. FileBlocks : DATA(t, n, Data(t)[n]) \in ToServer
         /\ \A b \in 0 .. BlockMod - 1 : ACK(t, b) \in Packets
<1>1. 0 \in 0 .. BlockMod - 1
  BY BlocksAssumption
<1>2. WRQ(t) \in ToServer /\ BadRQ(t) \in ToServer /\ ERROR(t) \in Packets
  BY <1>1 DEF WRQ, BadRQ, ERROR, Packet, ToServer, Packets
<1>3. ASSUME NEW n \in 1 .. FileBlocks PROVE DATA(t, n, Data(t)[n]) \in ToServer
  <2>1. n \in 0 .. BlockMod - 1
    BY BlocksAssumption DEF ShortUploads
  <2> QED BY <2>1, BlocksFit DEF DATA, Packet, ToServer, Packets
<1>4. ASSUME NEW b \in 0 .. BlockMod - 1 PROVE ACK(t, b) \in Packets
  <2>1. b % BlockMod = b
    BY BlocksAssumption
  <2> QED BY <2>1 DEF ACK, Wire, Packet, Packets
<1> QED BY <1>2, <1>3, <1>4

LEMMA RepliesFit ==
  ASSUME ChannelInv, NEW ps \in Seq(Packets), Reply(ps) PROVE toClient' \in Seq(Packets)
BY SentStays DEF ChannelInv, Reply

LEMMA SendFits ==
  ASSUME ChannelInv, NEW p \in ToServer, Send(p) PROVE toServer' \in Seq(ToServer)
<1>1. <<p>> \in Seq(ToServer)
  OBVIOUS
<1> QED BY <1>1, SentStays DEF ChannelInv, Send

----------------------------------------------------------------------------
(* The packets of an upload, and what the server does with each.           *)
LEMMA RequestKeeps ==
  ASSUME ShortUploads, UploadInv, NEW p \in ToServer,
         BadRequest(p) \/ RequestFails(p) \/ ReadRequest(p) \/ WriteRequest(p)
  PROVE  ServerInv' /\ StoredSoFar' /\ NoBlockTwice' /\ toClient' \in Seq(Packets)
<1>1. p.port \in Ports /\ p.opcode # "RRQ" /\ 0 \in 0 .. BlockMod - 1
  BY BlocksAssumption DEF ToServer, Packets
<1>2. <<ERROR(p.port)>> \in Seq(Packets) /\ <<ACK(p.port, 0)>> \in Seq(Packets)
  BY <1>1, PacketsFit
<1>3. ServerInv /\ NoBlockTwice /\ ChannelInv
  BY DEF UploadInv
<1>4. CASE BadRequest(p)
  BY <1>1, <1>2, <1>3, <1>4, RepliesFit
     DEF BadRequest, NothingFails, ServerInv, StoredSoFar, NoBlockTwice
<1>5. CASE RequestFails(p)
  <2>1. failures' \in 0 .. MaxFailures
    BY <1>3, <1>5, NetworkAssumption DEF RequestFails, SomethingFails, ServerInv
  <2> QED BY <1>1, <1>2, <1>3, <1>5, <2>1, RepliesFit
          DEF RequestFails, ServerInv, StoredSoFar, NoBlockTwice
<1>6. CASE WriteRequest(p)
  <2>1. /\ lastBlock' = 0 /\ fileIndex' = TRUE /\ fp' = "write" /\ file' = <<>> /\ position' = 0
        /\ lastSend' = lastSend /\ cbuf' = cbuf /\ failures' = failures
        /\ Reply(<<ACK(p.port, 0)>>)
    BY <1>6 DEF WriteRequest, OpenedForWriting, NothingFails
  <2>2. <<>> \in Seq(Block) /\ DOMAIN <<>> = {}
    OBVIOUS
  <2> QED BY <1>1, <1>2, <1>3, <2>1, <2>2, RepliesFit DEF ServerInv, StoredSoFar, NoBlockTwice
<1>7. CASE ReadRequest(p)
  BY <1>1, <1>7 DEF ReadRequest
<1> QED BY <1>4, <1>5, <1>6, <1>7

(* The block that is stored is after the ones before it.                   *)
LEMMA NextIsLater ==
  ASSUME ShortUploads, UploadInv, NEW p \in ToServer, p.opcode = "DATA",
         ~IsRepeat(p), IsNextBlock(p)
  PROVE  p.block = lastBlock + 1 /\ p.block \in 0 .. BlockMod - 1 /\ p.data \in Block
         /\ p.data.n = p.block
<1>1. /\ p.block = p.data.n /\ p.data \in Block /\ lastBlock \in 0 .. BlockMod - 1
      /\ p.block \in 0 .. BlockMod - 1
  BY DEF ToServer, Packets, UploadInv, ServerInv
<1>2. p.block \in 1 .. BlockMod - 1
  BY <1>1, BlocksAssumption DEF Block
<1>3. p.block = (lastBlock + 1) % BlockMod
  BY DEF IsNextBlock, Wire
<1>4. CASE lastBlock + 1 < BlockMod
  <2>1. lastBlock + 1 \in Nat /\ (lastBlock + 1) % BlockMod = lastBlock + 1
    BY <1>1, <1>4, BlocksAssumption
  <2> QED BY <1>1, <1>3, <2>1
<1>5. CASE lastBlock + 1 = BlockMod
  <2>1. BlockMod % BlockMod = 0
    BY BlocksAssumption
  <2> QED BY <1>2, <1>3, <1>5, <2>1
<1> QED BY <1>1, <1>4, <1>5, BlocksAssumption

LEMMA DataKeeps ==
  ASSUME ShortUploads, UploadInv, NEW p \in ToServer,
         RepeatedData(p) \/ WriteData(p) \/ WriteFails(p) \/ IgnoredData(p)
  PROVE  ServerInv' /\ StoredSoFar' /\ NoBlockTwice' /\ toClient' \in Seq(Packets)
<1>1. p.port \in Ports /\ p.block \in 0 .. BlockMod - 1
  BY DEF ToServer, Packets
<1>2. ERROR(p.port) \in Packets /\ ACK(p.port, p.block) \in Packets
  BY <1>1, PacketsFit
<1>3. /\ <<ERROR(p.port)>> \in Seq(Packets) /\ <<ACK(p.port, p.block)>> \in Seq(Packets)
      /\ <<ERROR(p.port), ACK(p.port, p.block)>> \in Seq(Packets)
  BY <1>2
<1>4. ServerInv /\ StoredSoFar /\ NoBlockTwice /\ ChannelInv
  BY DEF UploadInv
<1>5. failures' = failures \/ SomethingFails => failures' \in 0 .. MaxFailures
  BY <1>4, NetworkAssumption DEF SomethingFails, ServerInv
<1>6. CloseAfter(p) => /\ fp' \in {"none", "read", "write"} /\ fileIndex' \in BOOLEAN
                       /\ fileIndex' /\ fp' = "write" => fileIndex /\ fp = "write"
  BY <1>4 DEF CloseAfter, ServerInv
<1>7. CASE RepeatedData(p)
  BY <1>3, <1>4, <1>7, RepliesFit
     DEF RepeatedData, server, transfer, ServerInv, StoredSoFar, NoBlockTwice
<1>8. CASE IgnoredData(p)
  BY <1>4, <1>8
     DEF IgnoredData, server, transfer, ServerInv, StoredSoFar, NoBlockTwice, ChannelInv
<1>9. CASE WriteFails(p)
  <2>1. /\ lastBlock' = lastBlock + 1 /\ lastBlock' \in 0 .. BlockMod - 1
        /\ file' = file /\ lastSend' = lastSend /\ cbuf' = cbuf /\ position' = position
        /\ CloseAfter(p) /\ Reply(<<ERROR(p.port)>>) /\ (failures' = failures \/ SomethingFails)
    BY <1>9, NextIsLater DEF WriteFails, NothingFails
  <2>2. ServerInv'
    BY <1>4, <1>5, <1>6, <2>1 DEF ServerInv
  <2>3. StoredSoFar'
    <3>1. ASSUME NEW i \in DOMAIN file PROVE file[i].n \in Int
      <4>1. i \in 1 .. Len(file) /\ file \in Seq(Block)
        BY <1>4, LenProperties DEF ServerInv
      <4>2. file[i] \in Block
        BY <4>1, ElementOfSeq
      <4> QED BY <4>2, BlocksAssumption DEF Block
    <3> QED BY <1>4, <1>6, <2>1, <3>1, BlocksAssumption DEF StoredSoFar, ServerInv
  <2> QED BY <1>3, <1>4, <2>1, <2>2, <2>3, RepliesFit DEF NoBlockTwice
<1>10. CASE WriteData(p)
  <2>1. /\ lastBlock' = lastBlock + 1 /\ lastBlock' \in 0 .. BlockMod - 1
        /\ p.data \in Block /\ p.data.n = lastBlock + 1
        /\ fileIndex /\ fp = "write" /\ file' = Append(file, p.data)
        /\ lastSend' = lastSend /\ cbuf' = cbuf /\ position' = position
        /\ CloseAfter(p) /\ (failures' = failures \/ SomethingFails)
    BY <1>10, NextIsLater DEF WriteData, NothingFails
  <2>2. /\ file' \in Seq(Block) /\ Len(file) \in Nat /\ DOMAIN file = 1 .. Len(file)
        /\ DOMAIN file' = 1 .. Len(file) + 1
        /\ \A i \in 1 .. Len(file) : file'[i] = file[i] /\ file[i] \in Block
        /\ file'[Len(file) + 1] = p.data
    BY <1>4, <2>1, AppendProperties, ElementOfSeq DEF ServerInv
  <2>3. ServerInv'
    BY <1>4, <1>5, <1>6, <2>1, <2>2 DEF ServerInv
  <2>4. \A i \in 1 .. Len(file) : file'[i].n <= lastBlock /\ file'[i].n \in Int
    <3> SUFFICES ASSUME NEW i \in 1 .. Len(file)
                 PROVE  file'[i].n <= lastBlock /\ file'[i].n \in Int
      OBVIOUS
    <3>1. file'[i] = file[i] /\ file[i] \in Block /\ i \in DOMAIN file
      BY <2>2
    <3>2. file[i].n <= lastBlock
      BY <1>4, <2>1, <3>1 DEF StoredSoFar
    <3>3. file[i].n \in 1 .. FileBlocks
      BY <3>1 DEF Block
    <3> QED BY <3>1, <3>2, <3>3, BlocksAssumption
  <2>5. lastBlock \in Int
    BY <1>4, BlocksAssumption DEF ServerInv
  <2>6. StoredSoFar'
    <3>1. ASSUME NEW i \in DOMAIN file' PROVE file'[i].n <= lastBlock + 1
      <4>1. CASE i \in 1 .. Len(file)
        BY <2>4, <2>5, <4>1
      <4>2. CASE i = Len(file) + 1
        BY <2>1, <2>2, <2>5, <4>2
      <4> QED BY <2>2, <3>1, <4>1, <4>2
    <3> QED BY <2>1, <3>1 DEF StoredSoFar
  <2>7. NoBlockTwice'
    <3>1. ASSUME NEW i \in DOMAIN file', NEW j \in DOMAIN file', i < j
          PROVE  file'[i].n < file'[j].n
      <4>1. i \in 1 .. Len(file)
        BY <2>2, <3>1
      <4>2. CASE j \in 1 .. Len(file)
        BY <1>4, <2>2, <3>1, <4>1, <4>2 DEF NoBlockTwice
      <4>3. CASE j = Len(file) + 1
        BY <2>1, <2>2, <2>4, <2>5, <4>1, <4>3
      <4> QED BY <2>2, <3>1, <4>2, <4>3
    <3> QED BY <3>1 DEF NoBlockTwice
  <2>8. toClient' \in Seq(Packets)
    BY <1>3, <1>4, <1>10, RepliesFit DEF WriteData
  <2> QED BY <2>3, <2>6, <2>7, <2>8
<1> QED BY <1>7, <1>8, <1>9, <1>10

LEMMA ServerKeeps ==
  ASSUME ShortUploads, UploadInv, NEW p, ServerReceives(p) PROVE UploadInv'
<1>1. PICK i \in Arrivals(toServer) :
        toServer[i] = p /\ toServer' \in After(toServer, i) /\ tftp_recv_callback(p)
  BY DEF ServerReceives
<1>2. toServer' \in Seq(ToServer) /\ p \in ToServer /\ client' = client
  BY <1>1, AfterStays DEF ServerReceives, UploadInv, ChannelInv
<1>3. ~(AckNext(p) \/ AckEnd(p) \/ AckOther(p) \/ IgnoredAck(p))
  BY <1>2 DEF ToServer, AckNext, AckedLast, AckEnd, AckOther, IgnoredAck
<1>4. ServerInv' /\ StoredSoFar' /\ NoBlockTwice' /\ toClient' \in Seq(Packets)
  BY <1>1, <1>2, <1>3, RequestKeeps, DataKeeps DEF tftp_recv_callback
<1> QED BY <1>2, <1>4 DEF UploadInv, ChannelInv, ClientInv

----------------------------------------------------------------------------
(* The clients leave the server alone.                                     *)
Aside == UNCHANGED server
LEMMA AsideKeeps ==
  ASSUME UploadInv, Aside, ChannelInv', ClientInv' PROVE UploadInv'
BY DEF UploadInv, Aside, server, transfer, ServerInv, StoredSoFar, NoBlockTwice

LEMMA BeginKeeps ==
  ASSUME ShortUploads, UploadInv, NEW t \in Ports, NEW kind \in Kinds, Begin(t, kind)
  PROVE  UploadInv'
<1>1. kind \in {"put", "bad"}
  BY DEF ShortUploads
<1>2. Request(t, kind) \in ToServer
  BY <1>1, PacketsFit DEF Request
<1>3. toServer' \in Seq(ToServer) /\ toClient' = toClient /\ Aside
  BY <1>2, SendFits DEF Begin, UploadInv, Aside
<1>4. client' = [client EXCEPT ![t].op = kind, ![t].next = 0]
  BY <1>1 DEF Begin
<1>5. 0 \in 0 .. FileBlocks
  BY BlocksAssumption
<1>6. ClientInv'
  BY <1>1, <1>4, <1>5 DEF UploadInv, ClientInv
<1> QED BY <1>3, <1>6, AsideKeeps DEF UploadInv, ChannelInv

LEMMA LastPacketFits ==
  ASSUME ShortUploads, UploadInv, NEW t \in Ports, client[t].op \in {"get", "put", "bad"}
  PROVE  LastPacket(t) \in ToServer
<1>1. client[t].op \in {"put", "bad"} /\ client[t].next \in 0 .. FileBlocks
  BY DEF UploadInv, ClientInv
<1>2. CASE client[t].op = "bad"
  BY <1>2, PacketsFit DEF LastPacket
<1>3. CASE client[t].op = "put" /\ client[t].next = 0
  BY <1>3, PacketsFit DEF LastPacket
<1>4. CASE client[t].op = "put" /\ client[t].next > 0
  <2>1. client[t].next \in 1 .. FileBlocks /\ client[t].next # 0
    BY <1>1, <1>4, BlocksAssumption
  <2>2. LastPacket(t) = DATA(t, client[t].next, Data(t)[client[t].next])
    BY <1>4, <2>1 DEF LastPacket
  <2> QED BY <2>1, <2>2, PacketsFit
<1> QED BY <1>1, <1>2, <1>3, <1>4, BlocksAssumption

LEMMA ClientKeeps ==
  ASSUME ShortUploads, UploadInv, NEW p, ClientReceives(p) PROVE UploadInv'
<1>1. PICK i \in Arrivals(toClient) :
        /\ toClient[i] = p /\ toClient' \in After(toClient, i)
        /\ GetBlock(p) \/ AckAgain(p) \/ PutNext(p) \/ PutDone(p) \/ Fail(p) \/ Discard(p)
        /\ Aside
  BY DEF ClientReceives, Aside
<1>2. toClient' \in Seq(Packets) /\ p \in Packets
  BY <1>1, AfterStays DEF UploadInv, ChannelInv
<1>3. /\ p.port \in Ports /\ client[p.port].next \in 0 .. FileBlocks
      /\ client[p.port].op # "get" /\ ClientInv /\ toServer \in Seq(ToServer)
  BY <1>2 DEF Packets, UploadInv, ClientInv, ChannelInv
<1>4. CASE PutNext(p)
  <2> DEFINE n == client[p.port].next + 1
  <2>1. n \in 1 .. FileBlocks /\ n \in 0 .. FileBlocks
    BY <1>3, <1>4, BlocksAssumption DEF PutNext
  <2>2. client' = [client EXCEPT ![p.port].next = n] /\ Send(DATA(p.port, n, Data(p.port)[n]))
    BY <1>4 DEF PutNext
  <2> HIDE DEF n
  <2>3. ClientInv'
    BY <1>3, <2>1, <2>2 DEF ClientInv
  <2>4. toServer' \in Seq(ToServer)
    BY <1>3, <2>1, <2>2, PacketsFit, SendFits DEF UploadInv
  <2> QED BY <1>1, <1>2, <2>3, <2>4, AsideKeeps DEF ChannelInv
<1>5. CASE PutDone(p) \/ Fail(p)
  <2>1. ClientInv' /\ toServer' = toServer
    BY <1>3, <1>5, ZenonT(30) DEF PutDone, Fail, ClientInv
  <2> QED BY <1>1, <1>2, <1>3, <2>1, AsideKeeps DEF ChannelInv
<1>6. CASE Discard(p)
  BY <1>1, <1>2, <1>3, <1>6, AsideKeeps DEF Discard, ChannelInv, ClientInv
<1>7. ~GetBlock(p) /\ ~AckAgain(p)
  BY <1>3 DEF GetBlock, AckAgain, ExpectedData, OldData
<1> QED BY <1>1, <1>4, <1>5, <1>6, <1>7

LEMMA UploadStep == ASSUME ShortUploads, UploadInv, [Next]_vars PROVE UploadInv'
<1>1. ASSUME NEW p \in ToSet(toServer), ServerReceives(p) PROVE UploadInv'
  BY <1>1, ServerKeeps
<1>2. ASSUME NEW p \in ToSet(toClient), ClientReceives(p) PROVE UploadInv'
  BY <1>2, ClientKeeps
<1>3. ASSUME NEW t \in Ports, NEW kind \in Kinds, Begin(t, kind) PROVE UploadInv'
  BY <1>3, BeginKeeps
<1>4. ASSUME NEW t \in Ports, Timeout(t) PROVE UploadInv'
  <2>1. toServer' \in Seq(ToServer)
    BY <1>4, LastPacketFits, SendFits DEF Timeout, UploadInv
  <2> QED BY <1>4, <2>1, AsideKeeps DEF Timeout, Aside, UploadInv, ChannelInv, ClientInv
<1>5. ASSUME NEW t \in Ports, GiveUp(t) PROVE UploadInv'
  <2>1. ClientInv'
    BY <1>5 DEF GiveUp, UploadInv, ClientInv
  <2> QED BY <1>5, <2>1, AsideKeeps DEF GiveUp, Aside, UploadInv, ChannelInv
<1>6. ASSUME LoseToServer PROVE UploadInv'
  <2>1. toServer' \in Seq(ToServer)
    BY <1>6, RemovedStays DEF LoseToServer, UploadInv, ChannelInv
  <2> QED BY <1>6, <2>1, AsideKeeps DEF LoseToServer, Aside, UploadInv, ChannelInv, ClientInv
<1>7. ASSUME LoseToClient PROVE UploadInv'
  <2>1. toClient' \in Seq(Packets)
    BY <1>7, RemovedStays DEF LoseToClient, UploadInv, ChannelInv
  <2> QED BY <1>7, <2>1, AsideKeeps DEF LoseToClient, Aside, UploadInv, ChannelInv, ClientInv
<1>8. ASSUME UNCHANGED vars PROVE UploadInv'
  BY <1>8, AsideKeeps DEF vars, Aside, UploadInv, ChannelInv, ClientInv
<1> QED BY <1>1, <1>2, <1>3, <1>4, <1>5, <1>6, <1>7, <1>8 DEF Next

LEMMA UploadStart == Init => UploadInv
<1> SUFFICES ASSUME Init PROVE UploadInv
  OBVIOUS
<1>1. /\ \A n \in 1 .. FileBlocks : Data(0)[n] \in Block /\ Data(0)[n].n = n
      /\ FileBlocks \in Nat /\ DOMAIN Data(0) = 1 .. FileBlocks
  BY TransfersAssumption, BlocksAssumption DEF Data, Block
<1>2. Data(0) \in Seq(Block)
  <2>1. Data(0) \in [1 .. FileBlocks -> Block]
    BY <1>1 DEF Data
  <2> QED BY <1>1, <2>1
<1>3. ServerInv
  <2>1. 0 \in 0 .. BlockMod - 1 /\ 0 \in 0 .. MaxFailures
    BY BlocksAssumption, NetworkAssumption
  <2> QED BY <1>2, <2>1 DEF Init, ServerInv
<1>4. StoredSoFar /\ ChannelInv
  BY DEF Init, StoredSoFar, ChannelInv
<1>5. NoBlockTwice
  BY <1>1 DEF Init, NoBlockTwice
<1>6. ClientInv
  <2>1. <<>> \in Seq(Block) /\ 0 \in 0 .. FileBlocks
    BY BlocksAssumption
  <2> QED BY <2>1 DEF Init, ClientInv
<1> QED BY <1>3, <1>4, <1>5, <1>6 DEF UploadInv

(* Whether datagrams of an upload given up arrive late, arrive twice or    *)
(* overtake each other, and whether opens, writes and the postReceive      *)
(* function fail: no block is stored twice or after a later one, and the   *)
(* server's state is of its kind (tftp_recv_callback).                     *)
THEOREM UploadsStoredOnce == ASSUME ShortUploads PROVE Spec => []StoredOnce
<1>1. UploadInv => StoredOnce
  <2> SUFFICES ASSUME UploadInv PROVE StoredOnce
    OBVIOUS
  <2>1. ToServer \subseteq Packets
    BY DEF ToServer
  <2>2. toServer \in Seq(Packets) /\ toClient \in Seq(Packets)
    BY <2>1, SeqMonotonic DEF UploadInv, ChannelInv
  <2>3. client \in [Ports -> [op : {"idle", "get", "put", "bad", "done", "failed"},
                              next : 0 .. FileBlocks + MaxFailures + 2, got : Seq(Block)]]
    <3>1. 0 .. FileBlocks \subseteq 0 .. FileBlocks + MaxFailures + 2
      BY BlocksAssumption, NetworkAssumption
    <3> QED BY <3>1 DEF UploadInv, ClientInv
  <2>4. 0 \in 0 .. FileBlocks + 1
    BY BlocksAssumption
  <2> QED BY <2>2, <2>3, <2>4 DEF UploadInv, ServerInv, StoredOnce, TypeOK
<1> QED BY <1>1, UploadStart, UploadStep, PTL DEF Spec

----------------------------------------------------------------------------
(* A network that keeps the order, and nothing that fails.                 *)
InOrderNetwork == ~Reordering /\ MaxFailures = 0

(* What is in flight of an upload when its client has sent block m last,   *)
(* or the request, which counts as block 0: that and the one before.       *)
Before(m) == IF m = 0 THEN 0 ELSE m - 1
Upload(t, k) == IF k = 0 THEN WRQ(t) ELSE DATA(t, k, Data(t)[k])
Of(channel, t) == {i \in DOMAIN channel : channel[i].port = t}
Only(channel, t, a) == \A i \in Of(channel, t) : channel[i] = a
AtMostTwo(channel, t, a, b) ==
  /\ \A i \in Of(channel, t) : channel[i] \in {a, b}
  /\ \A i, j \in Of(channel, t) : i < j /\ channel[i] = a => channel[j] = a

Stored(t, n) == [k \in 1 .. n |-> [of |-> t, n |-> k]]
UploadingAt(t, m, n) ==
  /\ client[t].op \in {"put", "failed", "done"}
  /\ m = client[t].next /\ (n = m \/ n = m - 1)
  /\ file = Stored(t, n) /\ lastBlock = Wire(n)
  /\ IF n < FileBlocks THEN fileIndex /\ fp = "write" ELSE ~fileIndex /\ fp = "none"
  /\ AtMostTwo(toServer, t, Upload(t, m), Upload(t, Before(m)))
  /\ AtMostTwo(toClient, t, ACK(t, m), ACK(t, Before(m)))
  /\ n = m => Only(toServer, t, Upload(t, m))
  /\ n # m => Only(toClient, t, ACK(t, Before(m)))
Uploading(t) == \E m, n \in 0 .. FileBlocks : UploadingAt(t, m, n)
Downloading(t) ==
  /\ client[t].op \in {"get", "failed", "done"} /\ fp \in {"none", "read"}
  /\ \A i \in Of(toServer, t) : toServer[i].opcode \in {"RRQ", "ACK"}
Refused(t) ==
  /\ client[t].op \in {"bad", "failed"} /\ ~fileIndex
  /\ \A i \in Of(toServer, t) : toServer[i] = BadRQ(t)
Phase(t) == Uploading(t) \/ Downloading(t) \/ Refused(t)

(* A client that the server has not heard of has sent its request only.    *)
Asking(t, kind) ==
  /\ client[t].op \in {kind, "failed"} /\ client[t].next = IF kind = "get" THEN 1 ELSE 0
  /\ Only(toServer, t, Request(t, kind))
Unheard(t) ==
  /\ Of(toClient, t) = {}
  /\ \/ client[t].op = "idle" /\ Of(toServer, t) = {}
     \/ \E kind \in {"get", "put", "bad"} : Asking(t, kind)

(* The server is at transfer s, the last whose request it has heard.       *)
AtTransfer(s) ==
  /\ \A i \in DOMAIN toServer : toServer[i].port >= s
  /\ \A t \in s + 1 .. Transfers : Unheard(t)
  /\ s > 0 => client[s].op # "idle" /\ Phase(s)
Sorted(ch) == \A i, j \in DOMAIN ch : i < j => ch[i].port <= ch[j].port
InTurn ==
  /\ \A t, u \in Ports : t < u /\ client[u].op # "idle" => Ended(t)
  /\ Sorted(toServer)
SequenceInv == failures = 0 /\ InTurn /\ StoredInOrder /\ \E s \in 0 .. Transfers : AtTransfer(s)

----------------------------------------------------------------------------
(* Remainders.                                                             *)
LEMMA Quotient ==
  ASSUME NEW a \in Int, NEW r \in Nat \ {0}
  PROVE  a = r * (a \div r) + (a % r) /\ a % r \in 0 .. r - 1 /\ a \div r \in Int
OBVIOUS

LEMMA Closer ==
  ASSUME NEW r \in Nat \ {0}, NEW a \in Int, NEW b \in Int, NEW d \in Int,
         a - b = r * d, a - b < r, b - a < r
  PROVE  a = b /\ d = 0
<1>1. CASE d >= 1
  <2>1. r * d >= r
    BY <1>1
  <2> QED BY <2>1
<1>2. CASE d <= -1
  <2>1. r * d <= -r
    BY <1>2
  <2> QED BY <2>1
<1>3. CASE d = 0
  BY <1>3
<1> QED BY <1>1, <1>2, <1>3

LEMMA RemainderIs ==
  ASSUME NEW r \in Nat \ {0}, NEW a \in Int, NEW d \in Int, NEW b \in 0 .. r - 1, a = r * d + b
  PROVE  a % r = b /\ a \div r = d
<1>1. a = r * (a \div r) + (a % r) /\ a \div r \in Int /\ a % r \in 0 .. r - 1
  BY Quotient
<1>2. (a % r) - b = r * (d - (a \div r)) /\ d - (a \div r) \in Int
  BY <1>1
<1>3. (a % r) = b /\ d - (a \div r) = 0
  BY <1>1, <1>2, Closer
<1> QED BY <1>1, <1>3

(* Block numbers on the wire tell a block from the one before it.          *)
LEMMA NumbersDiffer ==
  ASSUME NEW n \in Nat
  PROVE  /\ Wire(n) \in 0 .. BlockMod - 1 /\ Wire(Wire(n)) = Wire(n)
         /\ Wire(Wire(n) + 1) = Wire(n + 1) /\ Wire(n + 1) # Wire(n)
<1>1. BlockMod \in Nat \ {0} /\ BlockMod > 2
  BY BlocksAssumption
<1>2. PICK q \in Int, r \in 0 .. BlockMod - 1 : n = BlockMod * q + r /\ r = n % BlockMod
  <2>1. n = BlockMod * (n \div BlockMod) + (n % BlockMod) /\ n % BlockMod \in 0 .. BlockMod - 1
    BY <1>1
  <2> QED BY <1>1, <2>1
<1>3. r % BlockMod = r
  BY <1>1
<1>4. CASE r + 1 < BlockMod
  <2>1. (r + 1) % BlockMod = r + 1
    BY <1>1, <1>4
  <2>2. n + 1 = BlockMod * q + (r + 1) /\ r + 1 \in 0 .. BlockMod - 1
    BY <1>1, <1>2, <1>4
  <2>3. (n + 1) % BlockMod = r + 1
    <3>1. n + 1 \in Int /\ q \in Int
      BY <1>2
    <3> QED BY <1>1, <2>2, <3>1, RemainderIs, Zenon
  <2> QED BY <1>1, <1>2, <1>3, <2>1, <2>3 DEF Wire
<1>5. CASE r + 1 = BlockMod
  <2>1. (r + 1) % BlockMod = 0
    BY <1>1, <1>5
  <2>2. n + 1 = BlockMod * (q + 1) + 0 /\ q + 1 \in Int /\ n + 1 \in Int
        /\ 0 \in 0 .. BlockMod - 1
    BY <1>1, <1>2, <1>5
  <2>3. (n + 1) % BlockMod = 0
    BY <1>1, <2>2, RemainderIs, Zenon
  <2> QED BY <1>1, <1>2, <1>3, <1>5, <2>1, <2>3 DEF Wire
<1> QED BY <1>1, <1>4, <1>5

(* The file that holds the first n blocks of transfer t.                   *)
LEMMA StoredBlocks ==
  ASSUME NEW t \in 0 .. Transfers, NEW n \in 0 .. FileBlocks
  PROVE  /\ Stored(t, n) \in Seq(Block) /\ Len(Stored(t, n)) = n
         /\ IsPrefix(Stored(t, n), Data(t))
         /\ n < FileBlocks => Append(Stored(t, n), Data(t)[n + 1]) = Stored(t, n + 1)
<1>1. FileBlocks \in Nat /\ n \in Nat /\ n <= FileBlocks
  BY BlocksAssumption
<1>2. ASSUME NEW m \in 0 .. FileBlocks
      PROVE  /\ Stored(t, m) \in Seq(Block) /\ Len(Stored(t, m)) = m
             /\ \A k \in 1 .. m : Stored(t, m)[k] = [of |-> t, n |-> k]
  <2>1. m \in Nat /\ \A k \in 1 .. m : k \in 1 .. FileBlocks
    BY <1>1
  <2>2. \A k \in 1 .. m : [of |-> t, n |-> k] \in Block
    BY <2>1 DEF Block
  <2>3. Stored(t, m) \in [1 .. m -> Block]
    BY <2>2 DEF Stored
  <2> QED BY <2>1, <2>3 DEF Stored
<1>3. Data(t) = Stored(t, FileBlocks)
  BY DEF Data, Stored
<1>4. IsPrefix(Stored(t, n), Data(t))
  <2>1. /\ Data(t) \in Seq(Block) /\ Len(Data(t)) = FileBlocks
        /\ Stored(t, n) \in Seq(Block) /\ Len(Stored(t, n)) = n
        /\ \A i \in 1 .. n : Stored(t, n)[i] = Data(t)[i]
    <3>1. FileBlocks \in 0 .. FileBlocks /\ \A i \in 1 .. n : i \in 1 .. FileBlocks
      BY <1>1
    <3>2. /\ Stored(t, n) \in Seq(Block) /\ Len(Stored(t, n)) = n
          /\ \A k \in 1 .. n : Stored(t, n)[k] = [of |-> t, n |-> k]
      BY <1>2
    <3>3. /\ Data(t) \in Seq(Block) /\ Len(Data(t)) = FileBlocks
          /\ \A k \in 1 .. FileBlocks : Data(t)[k] = [of |-> t, n |-> k]
      BY <1>2, <1>3, <3>1
    <3> QED BY <3>1, <3>2, <3>3
  <2>2. /\ SubSeq(Stored(t, n), 1, n) \in Seq(Block) /\ Len(SubSeq(Stored(t, n), 1, n)) = n
        /\ \A i \in 1 .. n : SubSeq(Stored(t, n), 1, n)[i] = Stored(t, n)[i]
    BY <1>1, <2>1
  <2>3. /\ SubSeq(Data(t), 1, n) \in Seq(Block) /\ Len(SubSeq(Data(t), 1, n)) = n
        /\ \A i \in 1 .. n : SubSeq(Data(t), 1, n)[i] = Data(t)[i]
    BY <1>1, <2>1
  <2>4. SubSeq(Stored(t, n), 1, n) = SubSeq(Data(t), 1, n)
    BY <2>1, <2>2, <2>3, SeqEqual
  <2> QED BY <1>1, <2>1, <2>4 DEF IsPrefix
<1>5. ASSUME n < FileBlocks PROVE Append(Stored(t, n), Data(t)[n + 1]) = Stored(t, n + 1)
  <2>1. n + 1 \in 0 .. FileBlocks /\ n + 1 \in 1 .. FileBlocks
    BY <1>1, <1>5
  <2>2. Data(t)[n + 1] = [of |-> t, n |-> n + 1] /\ Data(t)[n + 1] \in Block
    BY <2>1 DEF Data, Block
  <2>3. /\ Stored(t, n + 1) \in Seq(Block) /\ Len(Stored(t, n + 1)) = n + 1
        /\ \A k \in 1 .. n + 1 : Stored(t, n + 1)[k] = [of |-> t, n |-> k]
    BY <1>2, <2>1
  <2>4. /\ Append(Stored(t, n), Data(t)[n + 1]) \in Seq(Block)
        /\ Len(Append(Stored(t, n), Data(t)[n + 1])) = n + 1
        /\ \A k \in 1 .. n : Append(Stored(t, n), Data(t)[n + 1])[k] = [of |-> t, n |-> k]
        /\ Append(Stored(t, n), Data(t)[n + 1])[n + 1] = [of |-> t, n |-> n + 1]
    BY <1>1, <1>2, <2>2, AppendProperties
  <2>5. \A k \in 1 .. n + 1 : k \in 1 .. n \/ k = n + 1
    BY <1>1
  <2> QED BY <2>3, <2>4, <2>5, SeqEqual
<1> QED BY <1>2, <1>4, <1>5

(* A channel after a packet was taken out of it, and after one was sent.   *)
Drawn(new, old, from) ==
  \E e \in [DOMAIN new -> from .. Len(old)] :
    /\ \A j \in DOMAIN new : new[j] = old[e[j]]
    /\ \A i, j \in DOMAIN new : i < j => e[i] < e[j]
Added(new, old, p) ==
  \A j \in DOMAIN new :
    (j \in DOMAIN old /\ new[j] = old[j]) \/ (j = Len(old) + 1 /\ new[j] = p)

LEMMA InConcat ==
  ASSUME NEW S, NEW s \in Seq(S), NEW u \in Seq(S)
  PROVE  /\ s \o u \in Seq(S) /\ Len(s \o u) = Len(s) + Len(u)
         /\ DOMAIN (s \o u) = 1 .. Len(s) + Len(u) /\ Len(s) \in Nat /\ Len(u) \in Nat
         /\ \A i \in 1 .. Len(s) : (s \o u)[i] = s[i]
         /\ \A i \in 1 .. Len(u) : (s \o u)[Len(s) + i] = u[i]
<1>1. Len(s) \in Nat /\ Len(u) \in Nat
  BY LenProperties
<1>2. /\ s \o u \in Seq(S) /\ Len(s \o u) = Len(s) + Len(u)
  BY ConcatProperties
<1>3. DOMAIN (s \o u) = 1 .. Len(s) + Len(u)
  BY <1>2, LenProperties
<1> QED BY <1>1, <1>2, <1>3

LEMMA RemovedIsDrawn ==
  ASSUME NEW S, NEW ch \in Seq(S), NEW i \in DOMAIN ch
  PROVE  /\ Drawn(RemoveAt(ch, i), ch, 1)
         /\ i = 1 => Drawn(RemoveAt(ch, i), ch, 2)
<1> DEFINE rest == RemoveAt(ch, i)
<1>1. DOMAIN ch = 1 .. Len(ch) /\ Len(ch) \in Nat /\ i \in 1 .. Len(ch)
  BY LenProperties
<1>2. /\ SubSeq(ch, 1, i - 1) \in Seq(S) /\ Len(SubSeq(ch, 1, i - 1)) = i - 1
      /\ \A k \in 1 .. i - 1 : SubSeq(ch, 1, i - 1)[k] = ch[k]
  BY <1>1
<1>3. /\ SubSeq(ch, i + 1, Len(ch)) \in Seq(S) /\ Len(SubSeq(ch, i + 1, Len(ch))) = Len(ch) - i
      /\ \A k \in 1 .. Len(ch) - i : SubSeq(ch, i + 1, Len(ch))[k] = ch[k + i]
  BY <1>1
<1>4. /\ DOMAIN rest = 1 .. Len(ch) - 1
      /\ \A k \in 1 .. Len(ch) - 1 : rest[k] = IF k < i THEN ch[k] ELSE ch[k + 1]
  <2>1. PICK s \in Seq(S), u \in Seq(S) :
          s = SubSeq(ch, 1, i - 1) /\ u = SubSeq(ch, i + 1, Len(ch)) /\ rest = s \o u
    BY <1>2, <1>3 DEF RemoveAt
  <2> HIDE DEF rest
  <2>2. /\ DOMAIN rest = 1 .. Len(s) + Len(u)
        /\ \A k \in 1 .. Len(s) : rest[k] = s[k]
        /\ \A k \in 1 .. Len(u) : rest[Len(s) + k] = u[k]
    <3>1. /\ DOMAIN (s \o u) = 1 .. Len(s) + Len(u)
          /\ \A k \in 1 .. Len(s) : (s \o u)[k] = s[k]
          /\ \A k \in 1 .. Len(u) : (s \o u)[Len(s) + k] = u[k]
      BY InConcat
    <3>2. rest = s \o u
      BY <2>1
    <3> QED BY <3>1, <3>2, Zenon
  <2>5. Len(s) = i - 1 /\ Len(u) = Len(ch) - i
    BY <1>2, <1>3, <2>1, Zenon
  <2>3. Len(s) = i - 1 /\ Len(u) = Len(ch) - i /\ Len(s) + Len(u) = Len(ch) - 1
    BY <1>1, <2>5
  <2>4. ASSUME NEW k \in 1 .. Len(ch) - 1
        PROVE  rest[k] = IF k < i THEN ch[k] ELSE ch[k + 1]
    <3>1. CASE k < i
      <4>1. k \in 1 .. i - 1
        BY <1>1, <3>1
      <4>2. rest[k] = s[k] /\ s[k] = ch[k]
        BY <1>2, <2>1, <2>2, <2>3, <4>1
      <4> QED BY <3>1, <4>2
    <3>2. CASE ~(k < i)
      <4>1. k - (i - 1) \in 1 .. Len(ch) - i /\ (k - (i - 1)) + i = k + 1
            /\ (i - 1) + (k - (i - 1)) = k
        BY <1>1, <3>2
      <4>2. PICK l \in 1 .. Len(ch) - i : l + i = k + 1 /\ (i - 1) + l = k
        BY <4>1
      <4>3. rest[Len(s) + l] = u[l]
        BY <2>2, <2>3
      <4>4. u[l] = ch[l + i]
        BY <1>3, <2>1
      <4> QED BY <2>3, <3>2, <4>2, <4>3, <4>4
    <3> QED BY <3>1, <3>2
  <2> QED BY <2>2, <2>3, <2>4
<1> DEFINE e == [k \in 1 .. Len(ch) - 1 |-> IF k < i THEN k ELSE k + 1]
<1> HIDE DEF rest
<1>5. /\ \A k \in DOMAIN rest : rest[k] = ch[e[k]]
      /\ \A j, k \in DOMAIN rest : j < k => e[j] < e[k]
  BY <1>1, <1>4
<1>6. e \in [DOMAIN rest -> 1 .. Len(ch)] /\ (i = 1 => e \in [DOMAIN rest -> 2 .. Len(ch)])
  BY <1>1, <1>4
<1> HIDE DEF e
<1> QED BY <1>5, <1>6 DEF Drawn, rest

LEMMA SentIsAdded ==
  ASSUME NEW S, NEW ch \in Seq(S), NEW p \in S PROVE Added(Sent(ch, <<p>>), ch, p)
<1>1. <<p>> \in Seq(S) /\ Len(<<p>>) = 1 /\ <<p>>[1] = p
  OBVIOUS
<1> DEFINE all == ch \o <<p>>
<1>2. /\ all \in Seq(S) /\ Len(all) = Len(ch) + 1 /\ Len(ch) \in Nat
      /\ DOMAIN ch = 1 .. Len(ch) /\ all[Len(ch) + 1] = p
      /\ \A j \in 1 .. Len(ch) : all[j] = ch[j]
  BY <1>1, InConcat
<1> HIDE DEF all
<1>3. Added(all, ch, p)
  <2>1. DOMAIN all = 1 .. Len(ch) + 1
    BY <1>2
  <2>2. ASSUME NEW j \in DOMAIN all
        PROVE  (j \in DOMAIN ch /\ all[j] = ch[j]) \/ (j = Len(ch) + 1 /\ all[j] = p)
    <3>1. CASE j = Len(ch) + 1
      BY <1>2, <3>1
    <3>2. CASE j # Len(ch) + 1
      <4>1. j \in 1 .. Len(ch)
        BY <1>2, <2>1, <3>2
      <4> QED BY <1>2, <4>1
    <3> QED BY <3>1, <3>2
  <2> QED BY <2>2 DEF Added
<1>4. CASE Len(all) <= MaxInFlight
  BY <1>3, <1>4 DEF Sent, all
<1>5. CASE ~(Len(all) <= MaxInFlight)
  <2>1. MaxInFlight \in Nat /\ MaxInFlight < Len(all)
    BY <1>2, <1>5, NetworkAssumption
  <2>2. /\ DOMAIN SubSeq(all, 1, MaxInFlight) = 1 .. MaxInFlight
        /\ \A j \in 1 .. MaxInFlight : SubSeq(all, 1, MaxInFlight)[j] = all[j]
    BY <1>2, <2>1
  <2>3. Added(SubSeq(all, 1, MaxInFlight), ch, p)
    BY <1>2, <1>3, <2>1, <2>2 DEF Added
  <2> QED BY <1>5, <2>3 DEF Sent, all
<1> QED BY <1>4, <1>5

(* Nothing of transfer t was put into the channel.                         *)
Keeps(new, old, t) ==
  /\ \A j \in Of(new, t) : \E i \in Of(old, t) : new[j] = old[i]
  /\ \A a, b : AtMostTwo(old, t, a, b) => AtMostTwo(new, t, a, b)

LEMMA KeepsOnly ==
  ASSUME NEW new, NEW old, NEW t, Keeps(new, old, t)
  PROVE  /\ \A a : Only(old, t, a) => Only(new, t, a)
         /\ Of(old, t) = {} => Of(new, t) = {}
BY DEF Keeps, Only

LEMMA OnlyIsAtMostTwo ==
  ASSUME NEW ch, NEW t, NEW a, NEW b, Only(ch, t, a) \/ Only(ch, t, b)
  PROVE  AtMostTwo(ch, t, a, b)
BY DEF Only, AtMostTwo

LEMMA DrawnKeeps ==
  ASSUME NEW S, NEW old \in Seq(S), NEW new, NEW from \in {1, 2}, Drawn(new, old, from)
  PROVE  /\ \A t : Keeps(new, old, t)
         /\ \A j \in DOMAIN new : \E i \in DOMAIN old : new[j] = old[i]
         /\ \A t, a, b : AtMostTwo(old, t, a, b) /\ from = 2 /\ 1 \in Of(old, t) /\ old[1] = a
                           => Only(new, t, a)
<1>1. DOMAIN old = 1 .. Len(old) /\ Len(old) \in Nat
  BY LenProperties
<1>2. PICK e \in [DOMAIN new -> from .. Len(old)] :
        /\ \A j \in DOMAIN new : new[j] = old[e[j]]
        /\ \A i, j \in DOMAIN new : i < j => e[i] < e[j]
  BY DEF Drawn
<1>3. \A j \in DOMAIN new : e[j] \in DOMAIN old /\ e[j] >= from /\ e[j] \in Nat
  BY <1>1, <1>2
<1>4. \A t : \A j \in Of(new, t) : j \in DOMAIN new /\ e[j] \in Of(old, t)
  BY <1>2, <1>3 DEF Of
<1>5. ASSUME NEW t PROVE Keeps(new, old, t)
  BY <1>2, <1>4 DEF AtMostTwo, Keeps
<1>6. ASSUME NEW t, NEW a, NEW b,
             AtMostTwo(old, t, a, b), from = 2, 1 \in Of(old, t), old[1] = a
      PROVE  Only(new, t, a)
  <2>1. \A j \in Of(new, t) : 1 < e[j]
    BY <1>3, <1>4, <1>6
  <2> QED BY <1>2, <1>4, <1>6, <2>1 DEF AtMostTwo, Only
<1> QED BY <1>2, <1>3, <1>5, <1>6

LEMMA AddedKeeps ==
  ASSUME NEW S, NEW old \in Seq(S), NEW new, NEW p, Added(new, old, p)
  PROVE  /\ \A t : p.port # t => Keeps(new, old, t)
         /\ \A j \in DOMAIN new : new[j] = p \/ \E i \in DOMAIN old : new[j] = old[i]
         /\ \A t, b : AtMostTwo(old, t, p, b) => AtMostTwo(new, t, p, b)
         /\ \A t : Only(old, t, p) => Only(new, t, p)
         /\ \A t, b : Only(old, t, b) => AtMostTwo(new, t, p, b)
<1>1. DOMAIN old = 1 .. Len(old) /\ Len(old) \in Nat
  BY LenProperties
<1>2. \A t : \A j \in Of(new, t) : \/ j \in Of(old, t) /\ new[j] = old[j]
                                   \/ j = Len(old) + 1 /\ new[j] = p /\ p.port = t
  BY DEF Added, Of
<1>3. \A t : \A j \in Of(old, t) : j \in 1 .. Len(old)
  BY <1>1 DEF Of
<1>4. ASSUME NEW t, p.port # t PROVE Keeps(new, old, t)
  <2>1. \A j \in Of(new, t) : j \in Of(old, t) /\ new[j] = old[j]
    BY <1>2, <1>4
  <2> QED BY <2>1 DEF AtMostTwo, Keeps
<1>5. ASSUME NEW t, NEW b, AtMostTwo(old, t, p, b) PROVE AtMostTwo(new, t, p, b)
  <2>1. \A j \in Of(new, t) : new[j] \in {p, b}
    BY <1>2, <1>5 DEF AtMostTwo
  <2>2. ASSUME NEW i \in Of(new, t), NEW j \in Of(new, t), i < j, new[i] = p PROVE new[j] = p
    <3>1. CASE j \in Of(old, t) /\ new[j] = old[j]
      <4>1. i \in Of(old, t) /\ new[i] = old[i]
        BY <1>1, <1>2, <1>3, <2>2, <3>1
      <4> QED BY <1>5, <2>2, <3>1, <4>1 DEF AtMostTwo
    <3> QED BY <1>2, <3>1
  <2> QED BY <2>1, <2>2 DEF AtMostTwo
<1>6. \A t : Only(old, t, p) => Only(new, t, p)
  BY <1>2 DEF Only
<1>7. \A t, b : Only(old, t, b) => AtMostTwo(new, t, p, b)
  BY <1>5, OnlyIsAtMostTwo
<1>8. \A j \in DOMAIN new : new[j] = p \/ \E i \in DOMAIN old : new[j] = old[i]
  BY DEF Added
<1> QED BY <1>4, <1>5, <1>6, <1>7, <1>8

LEMMA SameKeeps == ASSUME NEW ch, NEW t PROVE Keeps(ch, ch, t)
BY DEF Keeps

(* The order of the ports.                                                 *)
LEMMA DrawnSorted ==
  ASSUME NEW S, NEW old \in Seq(S), NEW new, NEW from \in {1, 2}, Drawn(new, old, from), Sorted(old)
  PROVE  /\ Sorted(new)
         /\ from = 2 /\ old # <<>> => \A j \in DOMAIN new : new[j].port >= old[1].port
<1>1. DOMAIN old = 1 .. Len(old) /\ Len(old) \in Nat /\ (old # <<>> => Len(old) > 0)
  BY LenProperties, EmptySeq
<1>2. PICK e \in [DOMAIN new -> from .. Len(old)] :
        /\ \A j \in DOMAIN new : new[j] = old[e[j]]
        /\ \A i, j \in DOMAIN new : i < j => e[i] < e[j]
  BY DEF Drawn
<1>3. \A j \in DOMAIN new : e[j] \in DOMAIN old /\ e[j] >= from /\ e[j] \in Nat
  BY <1>1, <1>2
<1>4. Sorted(new)
  BY <1>2, <1>3 DEF Sorted
<1>5. ASSUME from = 2, old # <<>>, NEW j \in DOMAIN new PROVE old[1].port <= new[j].port
  <2>1. 1 \in DOMAIN old /\ 1 < e[j] /\ e[j] \in DOMAIN old
    BY <1>1, <1>3, <1>5
  <2> QED BY <1>2, <1>5, <2>1 DEF Sorted
<1> QED BY <1>4, <1>5

LEMMA AddedSorted ==
  ASSUME NEW S, NEW old \in Seq(S), NEW new, NEW p, Added(new, old, p), Sorted(old),
         \A i \in DOMAIN old : old[i].port <= p.port, p.port \in Int, DOMAIN new \subseteq Nat
  PROVE  Sorted(new)
<1>1. DOMAIN old = 1 .. Len(old) /\ Len(old) \in Nat
  BY LenProperties
<1> SUFFICES ASSUME NEW i \in DOMAIN new, NEW j \in DOMAIN new, i < j
             PROVE  new[i].port <= new[j].port
  BY DEF Sorted
<1>2. CASE j \in DOMAIN old /\ new[j] = old[j]
  <2>1. i \in DOMAIN old /\ new[i] = old[i]
    BY <1>1, <1>2 DEF Added
  <2> QED BY <1>2, <2>1 DEF Sorted
<1>3. CASE j = Len(old) + 1 /\ new[j] = p
  <2>1. i \in DOMAIN old /\ new[i] = old[i]
    BY <1>1, <1>3 DEF Added
  <2> QED BY <1>3, <2>1
<1> QED BY <1>2, <1>3 DEF Added

----------------------------------------------------------------------------
(* The kinds of values, whatever is transferred.                           *)
Ops == {"idle", "get", "put", "bad", "done", "failed"}
FromClient == {p \in Packets : p.opcode = "DATA" => p.data \in Block}
KindsInv ==
  /\ toServer \in Seq(FromClient) /\ toClient \in Seq(Packets)
  /\ lastBlock \in 0 .. BlockMod - 1 /\ cbuf \in Block \cup {NoBlock}
  /\ file \in Seq(Block) /\ position \in Nat
  /\ client \in [Ports -> [op : Ops, next : Nat, got : Seq(Block)]]
  /\ \A t \in Ports : /\ client[t].op = "put" => client[t].next <= FileBlocks
                      /\ client[t].op = "get" => client[t].next > 0

LEMMA PacketIs ==
  ASSUME NEW t \in Ports
  PROVE  /\ RRQ(t) \in Packets /\ WRQ(t) \in Packets /\ BadRQ(t) \in Packets /\ ERROR(t) \in Packets
         /\ \A n \in Nat : ACK(t, n) \in Packets
         /\ \A n \in Nat, b \in Block \cup {NoBlock} : DATA(t, n, b) \in Packets
         /\ RRQ(t) \in FromClient /\ WRQ(t) \in FromClient /\ BadRQ(t) \in FromClient
         /\ \A n \in Nat : ACK(t, n) \in FromClient
         /\ \A n \in Nat, b \in Block : DATA(t, n, b) \in FromClient
<1>1. 0 \in 0 .. BlockMod - 1
  BY BlocksAssumption
<1>2. \A n \in Nat : Wire(n) \in 0 .. BlockMod - 1
  BY NumbersDiffer
<1> QED BY <1>1, <1>2 DEF RRQ, WRQ, BadRQ, ERROR, ACK, DATA, Packet, Packets, FromClient

LEMMA SendNextKinds ==
  ASSUME KindsInv, NEW p \in Packets, NEW n \in Nat, NEW from \in Block \cup {NoBlock},
         SendNext(p, n, from)
  PROVE  toClient' \in Seq(Packets) /\ cbuf' \in Block \cup {NoBlock}
<1>1. p.port \in Ports
  BY DEF Packets
<1>2. <<DATA(p.port, n, from)>> \in Seq(Packets)
  BY <1>1, PacketIs
<1> QED BY <1>2, SentStays, ZenonT(30) DEF SendNext, Reply, KindsInv

LEMMA NextBlockKind == ASSUME KindsInv PROVE NextBlock \in Block \cup {NoBlock}
<1>1. CASE position < Len(file)
  <2>1. position + 1 \in 1 .. Len(file) /\ file \in Seq(Block)
    BY <1>1 DEF KindsInv
  <2> QED BY <1>1, <2>1, ElementOfSeq DEF NextBlock
<1> QED BY <1>1 DEF NextBlock

LEMMA CallbackKinds ==
  ASSUME KindsInv, NEW p \in FromClient, tftp_recv_callback(p)
  PROVE  /\ toClient' \in Seq(Packets) /\ lastBlock' \in 0 .. BlockMod - 1
         /\ cbuf' \in Block \cup {NoBlock} /\ file' \in Seq(Block) /\ position' \in Nat
<1>1. /\ p.port \in Ports /\ p.block \in 0 .. BlockMod - 1 /\ p.block \in Nat
      /\ lastBlock \in Nat /\ lastBlock + 1 \in Nat /\ p \in Packets
  BY BlocksAssumption DEF FromClient, Packets, KindsInv
<1>2. Wire(lastBlock + 1) \in 0 .. BlockMod - 1 /\ 0 \in 0 .. BlockMod - 1 /\ 1 \in 0 .. BlockMod - 1
  BY <1>1, NumbersDiffer, BlocksAssumption
<1>3. ACK(p.port, 0) \in Packets /\ ACK(p.port, p.block) \in Packets /\ ERROR(p.port) \in Packets
  BY <1>1, PacketIs
<1>4. /\ <<ACK(p.port, 0)>> \in Seq(Packets) /\ <<ACK(p.port, p.block)>> \in Seq(Packets)
      /\ <<ERROR(p.port)>> \in Seq(Packets)
      /\ <<ERROR(p.port), ACK(p.port, p.block)>> \in Seq(Packets)
  BY <1>3
<1>5. \A ps \in Seq(Packets) : Reply(ps) => toClient' \in Seq(Packets)
  BY SentStays DEF Reply, KindsInv
<1>6. CASE BadRequest(p)
  BY <1>2, <1>4, <1>5, <1>6 DEF BadRequest, KindsInv
<1>7. CASE RequestFails(p)
  BY <1>2, <1>4, <1>5, <1>7 DEF RequestFails, KindsInv
<1>8. CASE ReadRequest(p)
  <2> DEFINE first == IF file = <<>> THEN NoBlock ELSE file[1]
  <2>1. first \in Block \cup {NoBlock}
    <3>1. file # <<>> => 1 \in 1 .. Len(file)
      BY EmptySeq DEF KindsInv
    <3> QED BY <3>1, ElementOfSeq DEF KindsInv
  <2> HIDE DEF first
  <2>2. lastBlock' = 1 /\ file' = file
    BY <1>8 DEF ReadRequest
  <2>3. CASE SendNext(p, 1, first) /\ position' = 1
    <3>1. toClient' \in Seq(Packets) /\ cbuf' \in Block \cup {NoBlock}
      BY <1>1, <2>1, <2>3, SendNextKinds
    <3> QED BY <1>2, <2>2, <2>3, <3>1 DEF KindsInv
  <2>4. CASE SendError(p)
    BY <1>2, <1>4, <1>5, <2>2, <2>4 DEF SendError, KindsInv
  <2> QED BY <1>8, <2>3, <2>4 DEF ReadRequest, first
<1>9. CASE WriteRequest(p)
  <2>1. <<>> \in Seq(Block)
    OBVIOUS
  <2> QED BY <1>2, <1>4, <1>5, <1>9, <2>1 DEF WriteRequest, OpenedForWriting, KindsInv
<1>10. CASE RepeatedData(p) \/ IgnoredData(p) \/ IgnoredAck(p)
  BY <1>4, <1>5, <1>10 DEF RepeatedData, IgnoredData, IgnoredAck, server, transfer, KindsInv
<1>11. CASE WriteData(p)
  <2>1. p.data \in Block
    BY <1>11 DEF WriteData, FromClient
  <2>2. Append(file, p.data) \in Seq(Block)
    BY <2>1 DEF KindsInv
  <2> QED BY <1>1, <1>4, <1>5, <1>11, <2>2 DEF WriteData, KindsInv
<1>12. CASE WriteFails(p)
  BY <1>1, <1>4, <1>5, <1>12 DEF WriteFails, KindsInv
<1>13. CASE AckNext(p)
  <2> DEFINE from == IF fp = "read" THEN NextBlock ELSE cbuf
  <2>1. from \in Block \cup {NoBlock}
    BY NextBlockKind DEF KindsInv
  <2> HIDE DEF from
  <2>2. lastBlock' = Wire(lastBlock + 1) /\ file' = file
    BY <1>13 DEF AckNext
  <2>3. CASE SendNext(p, lastBlock + 1, from)
             /\ position' = IF fp = "read" THEN position + 1 ELSE position
    <3>1. toClient' \in Seq(Packets) /\ cbuf' \in Block \cup {NoBlock}
      BY <1>1, <2>1, <2>3, SendNextKinds
    <3> QED BY <1>2, <2>2, <2>3, <3>1 DEF KindsInv
  <2>4. CASE SendError(p)
    BY <1>2, <1>4, <1>5, <2>2, <2>4 DEF SendError, KindsInv
  <2> QED BY <1>13, <2>3, <2>4 DEF AckNext, from
<1>14. CASE AckEnd(p)
  BY <1>2, <1>14 DEF AckEnd, KindsInv
<1>15. CASE AckOther(p)
  <2>1. toClient' \in Seq(Packets) /\ cbuf' \in Block \cup {NoBlock}
    BY <1>1, <1>15, SendNextKinds DEF AckOther, Resend, KindsInv
  <2> QED BY <1>15, <2>1 DEF AckOther, KindsInv
<1> QED BY <1>6, <1>7, <1>8, <1>9, <1>10, <1>11, <1>12, <1>13, <1>14, <1>15 DEF tftp_recv_callback

LEMMA LastPacketKind ==
  ASSUME KindsInv, NEW t \in Ports, client[t].op \in {"get", "put", "bad"}
  PROVE  LastPacket(t) \in FromClient
<1> DEFINE n == client[t].next
<1>1. n \in Nat /\ (client[t].op = "put" => n <= FileBlocks) /\ (client[t].op = "get" => n > 0)
  BY DEF KindsInv
<1>2. CASE client[t].op = "put" /\ n > 0
  <2>1. n \in 1 .. FileBlocks
    BY <1>1, <1>2, BlocksAssumption
  <2>2. DATA(t, n, Data(t)[n]) \in FromClient
    BY <1>1, <2>1, BlocksFit, PacketIs
  <2>3. n # 0
    BY <1>2
  <2> QED BY <1>2, <2>2, <2>3 DEF LastPacket
<1>3. CASE client[t].op = "put" /\ n = 0
  BY <1>3, PacketIs DEF LastPacket
<1>4. CASE client[t].op = "get" /\ n > 1
  <2>1. n - 1 \in Nat /\ n # 1
    BY <1>1, <1>4
  <2>2. ACK(t, n - 1) \in FromClient
    BY <2>1, PacketIs
  <2> QED BY <1>4, <2>1, <2>2 DEF LastPacket
<1>5. CASE client[t].op = "get" /\ n = 1
  BY <1>5, PacketIs DEF LastPacket
<1>6. CASE client[t].op = "bad"
  BY <1>6, PacketIs DEF LastPacket
<1>7. (n = 0 \/ n > 0) /\ (n > 0 => n = 1 \/ n > 1)
  BY <1>1
<1> QED BY <1>1, <1>2, <1>3, <1>4, <1>5, <1>6, <1>7

LEMMA SendKinds == ASSUME KindsInv, NEW p \in FromClient, Send(p) PROVE toServer' \in Seq(FromClient)
<1>1. <<p>> \in Seq(FromClient)
  OBVIOUS
<1> QED BY <1>1, SentStays DEF Send, KindsInv

(* One client's state changes.                                             *)
LEMMA ClientKinds ==
  ASSUME KindsInv, NEW t \in Ports, NEW op \in Ops, NEW next \in Nat, NEW got \in Seq(Block),
         client' = [client EXCEPT ![t] = [op |-> op, next |-> next, got |-> got]],
         op = "put" => next <= FileBlocks, op = "get" => next > 0
  PROVE  /\ client' \in [Ports -> [op : Ops, next : Nat, got : Seq(Block)]]
         /\ \A u \in Ports : /\ client'[u].op = "put" => client'[u].next <= FileBlocks
                             /\ client'[u].op = "get" => client'[u].next > 0
<1>1. client \in [Ports -> [op : Ops, next : Nat, got : Seq(Block)]]
  BY DEF KindsInv
<1>2. [op |-> op, next |-> next, got |-> got] \in [op : Ops, next : Nat, got : Seq(Block)]
  OBVIOUS
<1>3. /\ client'[t] = [op |-> op, next |-> next, got |-> got]
      /\ \A u \in Ports : u # t => client'[u] = client[u]
  BY <1>1
<1>4. client' \in [Ports -> [op : Ops, next : Nat, got : Seq(Block)]]
  BY <1>1, <1>2
<1> QED BY <1>3, <1>4 DEF KindsInv

(* What a step does to a client, spelled out field by field.               *)
LEMMA ClientFields ==
  ASSUME KindsInv, NEW t \in Ports, NEW op \in Ops, NEW next \in Nat
  PROVE  /\ client[t].op \in Ops /\ client[t].next \in Nat /\ client[t].got \in Seq(Block)
         /\ [client EXCEPT ![t].op = op]
              = [client EXCEPT ![t] = [op |-> op, next |-> client[t].next, got |-> client[t].got]]
         /\ [client EXCEPT ![t].next = next]
              = [client EXCEPT ![t] = [op |-> client[t].op, next |-> next, got |-> client[t].got]]
<1>1. client \in [Ports -> [op : Ops, next : Nat, got : Seq(Block)]]
  BY DEF KindsInv
<1>2. client[t] \in [op : Ops, next : Nat, got : Seq(Block)]
  BY <1>1
<1>3. [client[t] EXCEPT !.op = op] = [op |-> op, next |-> client[t].next, got |-> client[t].got]
  BY <1>2
<1>4. [client[t] EXCEPT !.next = next] = [op |-> client[t].op, next |-> next, got |-> client[t].got]
  BY <1>2
<1>5. client[t].op \in Ops /\ client[t].next \in Nat /\ client[t].got \in Seq(Block)
  BY <1>2
<1>6. [client EXCEPT ![t].op = op]
        = [client EXCEPT ![t] = [op |-> op, next |-> client[t].next, got |-> client[t].got]]
  BY <1>1, <1>3
<1>7. [client EXCEPT ![t].next = next]
        = [client EXCEPT ![t] = [op |-> client[t].op, next |-> next, got |-> client[t].got]]
  BY <1>1, <1>4
<1> QED BY <1>5, <1>6, <1>7

LEMMA ServerKinds ==
  ASSUME KindsInv, NEW p, ServerReceives(p) PROVE KindsInv' /\ p \in FromClient
<1>1. PICK i \in Arrivals(toServer) :
        /\ toServer[i] = p /\ toServer' \in After(toServer, i)
        /\ tftp_recv_callback(p) /\ UNCHANGED client
  BY DEF ServerReceives
<1>2. toServer' \in Seq(FromClient) /\ p \in FromClient
  BY <1>1, AfterStays DEF KindsInv
<1> QED BY <1>1, <1>2, CallbackKinds DEF KindsInv

LEMMA ClientReceivesKinds ==
  ASSUME KindsInv, NEW p, ClientReceives(p) PROVE KindsInv' /\ p \in Packets
<1>1. PICK i \in Arrivals(toClient) :
        /\ toClient[i] = p /\ toClient' \in After(toClient, i)
        /\ (GetBlock(p) \/ AckAgain(p) \/ PutNext(p) \/ PutDone(p) \/ Fail(p) \/ Discard(p))
        /\ UNCHANGED server
  BY DEF ClientReceives
<1>2. toClient' \in Seq(Packets) /\ p \in Packets
  BY <1>1, AfterStays DEF KindsInv
<1> DEFINE t == p.port
           now == client[t]
<1>3. /\ t \in Ports /\ p.block \in Nat /\ p.data \in Block \cup {NoBlock}
  BY <1>2, BlocksAssumption DEF Packets
<1>4. now.op \in Ops /\ now.next \in Nat /\ now.got \in Seq(Block)
  <2>1. "done" \in Ops /\ 0 \in Nat
    BY DEF Ops
  <2> QED BY <1>3, <2>1, ClientFields
<1>5. /\ now.op = "put" => now.next <= FileBlocks
      /\ now.op = "get" => now.next > 0
  BY <1>3 DEF KindsInv
<1> DEFINE ClientIsOK ==
      /\ client' \in [Ports -> [op : Ops, next : Nat, got : Seq(Block)]]
      /\ \A u \in Ports : /\ client'[u].op = "put" => client'[u].next <= FileBlocks
                          /\ client'[u].op = "get" => client'[u].next > 0
<1>6. toServer' \in Seq(FromClient) /\ ClientIsOK
  <2>1. CASE GetBlock(p)
    <3>1. ACK(t, p.block) \in FromClient /\ toServer' \in Seq(FromClient)
      BY <1>3, <2>1, PacketIs, SendKinds DEF GetBlock
    <3>2. PICK op \in {"get", "done"}, got \in Seq(Block) :
            client' = [client EXCEPT ![t] = [op |-> op, next |-> now.next + 1, got |-> got]]
      <4> DEFINE op == IF IsFull(p.data) THEN "get" ELSE "done"
                 got == IF p.data = NoBlock THEN now.got ELSE Append(now.got, p.data)
      <4>1. op \in {"get", "done"} /\ got \in Seq(Block)
        BY <1>3, <1>4
      <4>2. client' = [client EXCEPT ![t].got = got, ![t].next = @ + 1, ![t].op = op]
        BY <2>1 DEF GetBlock
      <4> HIDE DEF op, got
      <4>3. client \in [Ports -> [op : Ops, next : Nat, got : Seq(Block)]]
        BY DEF KindsInv
      <4>4. client' = [client EXCEPT ![t] = [op |-> op, next |-> now.next + 1, got |-> got]]
        BY <1>3, <4>2, <4>3
      <4> QED BY <4>1, <4>4
    <3>3. PICK next \in Nat : next = now.next + 1 /\ next > 0
      BY <1>4
    <3>4. op \in Ops /\ (op = "put" => next <= FileBlocks) /\ (op = "get" => next > 0)
      BY <3>3 DEF Ops
    <3>5. client' = [client EXCEPT ![t] = [op |-> op, next |-> next, got |-> got]]
      BY <3>2, <3>3
    <3> HIDE DEF t, now
    <3>6. ClientIsOK
      BY <1>3, <3>4, <3>5, ClientKinds
    <3> QED BY <3>1, <3>6
  <2>2. CASE AckAgain(p)
    <3>1. ACK(t, p.block) \in FromClient /\ toServer' \in Seq(FromClient)
      BY <1>3, <2>2, PacketIs, SendKinds DEF AckAgain
    <3> QED BY <2>2, <3>1 DEF AckAgain, KindsInv
  <2>3. CASE PutNext(p)
    <3>1. now.op = "put" /\ now.next < FileBlocks
      BY <2>3 DEF PutNext, ExpectedACK
    <3>2. now.next + 1 \in 1 .. FileBlocks /\ now.next + 1 \in Nat /\ now.next + 1 <= FileBlocks
      BY <1>4, <3>1, BlocksAssumption
    <3>3. DATA(t, now.next + 1, Data(t)[now.next + 1]) \in FromClient
      BY <1>3, <3>2, BlocksFit, PacketIs
    <3>4. toServer' \in Seq(FromClient)
      BY <2>3, <3>3, SendKinds DEF PutNext
    <3>5. client' = [client EXCEPT ![t].next = now.next + 1]
      BY <2>3 DEF PutNext
    <3>6. client' = [client EXCEPT ![t] = [op |-> now.op, next |-> now.next + 1, got |-> now.got]]
      BY <1>3, <1>4, <3>2, <3>5, ClientFields
    <3> QED BY <1>3, <1>4, <3>1, <3>2, <3>4, <3>6, ClientKinds, ZenonT(30)
  <2>4. CASE PutDone(p) \/ Fail(p)
    <3>1. PICK op \in {"done", "failed"} :
            client' = [client EXCEPT ![t] = [op |-> op, next |-> now.next, got |-> now.got]]
      <4>1. client' = [client EXCEPT ![t].op = "done"] \/ client' = [client EXCEPT ![t].op = "failed"]
        BY <2>4 DEF PutDone, Fail
      <4> QED BY <1>3, <1>4, <4>1, ClientFields DEF Ops
    <3>2. op \in Ops /\ op # "put" /\ op # "get"
      BY DEF Ops
    <3>3. toServer' \in Seq(FromClient)
      BY <2>4 DEF PutDone, Fail, KindsInv
    <3> QED BY <1>3, <1>4, <3>1, <3>2, <3>3, ClientKinds
  <2>5. CASE Discard(p)
    BY <2>5 DEF Discard, KindsInv
  <2> HIDE DEF ClientIsOK
  <2>6. GetBlock(p) \/ AckAgain(p) \/ PutNext(p) \/ (PutDone(p) \/ Fail(p)) \/ Discard(p)
    BY <1>1
  <2> QED BY <2>1, <2>2, <2>3, <2>4, <2>5, <2>6
<1> QED BY <1>1, <1>2, <1>6 DEF KindsInv, server, transfer

LEMMA RequestKind ==
  ASSUME NEW t \in Ports, NEW kind \in Kinds
  PROVE  Request(t, kind) \in FromClient /\ Request(t, kind).port = t /\ kind \in {"get", "put", "bad"}
<1>1. kind \in {"get", "put", "bad"}
  BY TransfersAssumption
<1> QED BY <1>1, PacketIs DEF Request, RRQ, WRQ, BadRQ, Packet

LEMMA KindsStep == ASSUME KindsInv, [Next]_vars PROVE KindsInv'
<1>1. ASSUME NEW t \in Ports, NEW kind \in Kinds, Begin(t, kind) PROVE KindsInv'
  <2>1. kind \in Ops /\ Request(t, kind) \in FromClient
    BY RequestKind DEF Ops
  <2>2. toServer' \in Seq(FromClient)
    BY <1>1, <2>1, SendKinds DEF Begin
  <2>3. PICK n \in {0, 1} : n = IF kind = "get" THEN 1 ELSE 0
    OBVIOUS
  <2>4. client' = [client EXCEPT ![t] = [op |-> kind, next |-> n, got |-> client[t].got]]
    <3>1. client' = [client EXCEPT ![t].op = kind, ![t].next = n]
      BY <1>1, <2>3 DEF Begin
    <3>2. client \in [Ports -> [op : Ops, next : Nat, got : Seq(Block)]]
      BY DEF KindsInv
    <3>3. client' = [client EXCEPT ![t] = [client[t] EXCEPT !.op = kind, !.next = n]]
      BY <3>1, <3>2
    <3>4. PICK o \in Ops, m \in Nat, g \in Seq(Block) : client[t] = [op |-> o, next |-> m, got |-> g]
      BY <3>2
    <3>5. [client[t] EXCEPT !.op = kind, !.next = n] = [op |-> kind, next |-> n, got |-> g]
      <4>1. PICK r : r = [client[t] EXCEPT !.op = kind]
        OBVIOUS
      <4>2. r = [op |-> kind, next |-> m, got |-> g]
        BY <3>4, <4>1
      <4>3. [r EXCEPT !.next = n] = [op |-> kind, next |-> n, got |-> g]
        BY <4>2
      <4> QED BY <4>1, <4>3
    <3> QED BY <3>3, <3>4, <3>5
  <2>5. /\ n \in Nat /\ (kind = "put" => n <= FileBlocks) /\ (kind = "get" => n > 0)
        /\ client[t].got \in Seq(Block)
    <3>1. n \in Nat /\ (kind = "get" => n > 0) /\ (kind # "get" => n = 0)
      BY <2>3
    <3>2. 0 <= FileBlocks
      BY BlocksAssumption
    <3> QED BY <2>1, <3>1, <3>2, ClientFields
  <2>6. /\ client' \in [Ports -> [op : Ops, next : Nat, got : Seq(Block)]]
        /\ \A u \in Ports : /\ client'[u].op = "put" => client'[u].next <= FileBlocks
                            /\ client'[u].op = "get" => client'[u].next > 0
    BY <2>1, <2>4, <2>5, ClientKinds
  <2> QED BY <1>1, <2>2, <2>6 DEF Begin, KindsInv, server, transfer
<1>2. ASSUME NEW t \in Ports, Timeout(t) PROVE KindsInv'
  <2>1. toServer' \in Seq(FromClient)
    BY <1>2, LastPacketKind, SendKinds DEF Timeout
  <2> QED BY <1>2, <2>1 DEF Timeout, KindsInv, server, transfer
<1>3. ASSUME NEW t \in Ports, GiveUp(t) PROVE KindsInv'
  <2>1. client' = [client EXCEPT ![t] = [op |-> "failed", next |-> client[t].next,
                                         got |-> client[t].got]]
    BY <1>3, ClientFields DEF GiveUp, Ops
  <2>2. "failed" \in Ops /\ client[t].next \in Nat /\ client[t].got \in Seq(Block)
    <3>1. "failed" \in Ops /\ 0 \in Nat
      BY DEF Ops
    <3> QED BY <3>1, ClientFields
  <2>3. /\ client' \in [Ports -> [op : Ops, next : Nat, got : Seq(Block)]]
        /\ \A u \in Ports : /\ client'[u].op = "put" => client'[u].next <= FileBlocks
                            /\ client'[u].op = "get" => client'[u].next > 0
    BY <2>1, <2>2, ClientKinds
  <2> QED BY <1>3, <2>3 DEF GiveUp, KindsInv, server, transfer
<1>4. ASSUME LoseToServer \/ LoseToClient PROVE KindsInv'
  BY <1>4, RemovedStays DEF LoseToServer, LoseToClient, KindsInv, server, transfer
<1>5. CASE UNCHANGED vars
  BY <1>5 DEF KindsInv, vars, server, transfer
<1> QED BY <1>1, <1>2, <1>3, <1>4, <1>5, ServerKinds, ClientReceivesKinds DEF Next

----------------------------------------------------------------------------
(* What the server does with a packet of the transfer that it is at.       *)
LEMMA NothingFailed ==
  ASSUME InOrderNetwork, failures = 0 PROVE ~SomethingFails
BY DEF InOrderNetwork, SomethingFails

LEMMA NoFailures ==
  ASSUME InOrderNetwork, failures = 0, NEW p, tftp_recv_callback(p) PROVE failures' = 0
BY NothingFailed
   DEF tftp_recv_callback, BadRequest, RequestFails, ReadRequest, WriteRequest, RepeatedData,
       WriteData, WriteFails, IgnoredData, AckNext, AckEnd, AckOther, IgnoredAck, SendNext,
       SendError, Resend, NothingFails, server

LEMMA UploadServed ==
  ASSUME InOrderNetwork, failures = 0, KindsInv, NEW s \in Ports, Uploading(s),
         client' = client, NEW p, 1 \in Of(toServer, s), toServer[1] = p,
         Drawn(toServer', toServer, 2), tftp_recv_callback(p)
  PROVE  Uploading(s)' /\ StoredInOrder' /\ \A t : t # s => Keeps(toClient', toClient, t)
<1>1. PICK m \in 0 .. FileBlocks, n \in 0 .. FileBlocks : UploadingAt(s, m, n)
  BY DEF Uploading
<1>2. /\ client[s].op \in {"put", "failed", "done"} /\ m = client[s].next
      /\ (n = m \/ n = m - 1) /\ file = Stored(s, n) /\ lastBlock = Wire(n)
      /\ IF n < FileBlocks THEN fileIndex /\ fp = "write" ELSE ~fileIndex /\ fp = "none"
      /\ AtMostTwo(toServer, s, Upload(s, m), Upload(s, Before(m)))
      /\ AtMostTwo(toClient, s, ACK(s, m), ACK(s, Before(m)))
      /\ n = m => Only(toServer, s, Upload(s, m))
      /\ n # m => Only(toClient, s, ACK(s, Before(m)))
  BY <1>1 DEF UploadingAt
<1>3. FileBlocks \in Nat \ {0} /\ m \in Nat /\ n \in Nat /\ s \in 0 .. Transfers /\ s \in Ports
  BY BlocksAssumption, TransfersAssumption DEF Ports
<1>4. /\ p.port = s /\ ~SomethingFails
      /\ toServer \in Seq(FromClient) /\ toClient \in Seq(Packets)
  BY NothingFailed DEF Of, KindsInv
<1>5. /\ AtMostTwo(toServer', s, Upload(s, m), Upload(s, Before(m)))
      /\ n = m => Only(toServer', s, Upload(s, m))
      /\ p = Upload(s, m) => Only(toServer', s, Upload(s, m))
  <2>1. Keeps(toServer', toServer, s)
    BY <1>4, DrawnKeeps
  <2>2. \A a, b : AtMostTwo(toServer, s, a, b) /\ toServer[1] = a => Only(toServer', s, a)
    BY <1>4, DrawnKeeps
  <2>3. AtMostTwo(toServer', s, Upload(s, m), Upload(s, Before(m)))
    BY <1>2, <2>1 DEF Keeps
  <2>4. n = m => Only(toServer', s, Upload(s, m))
    BY <1>2, <2>1, KeepsOnly
  <2> QED BY <1>2, <2>2, <2>3, <2>4
<1>6. PICK k \in {m, Before(m)} : p = Upload(s, k) /\ (n = m => k = m)
  <2>1. p \in {Upload(s, m), Upload(s, Before(m))} /\ (n = m => p = Upload(s, m))
    BY <1>2 DEF AtMostTwo, Only
  <2> QED BY <2>1
<1>7. \A j \in 0 .. FileBlocks : ACK(s, j) \in Packets /\ ACK(s, j).port = s
  BY <1>3, PacketIs DEF ACK, Packet
<1>8. ASSUME NEW j \in 0 .. FileBlocks, Reply(<<ACK(s, j)>>) PROVE Added(toClient', toClient, ACK(s, j))
  BY <1>4, <1>7, <1>8, SentIsAdded DEF Reply
<1>9. \A j \in 0 .. FileBlocks : Stored(s, j) \in Seq(Block) /\ IsPrefix(Stored(s, j), Data(s))
  BY <1>3, StoredBlocks
<1>10. 0 \in 0 .. FileBlocks /\ Wire(0) = 0 /\ Stored(s, 0) = <<>>
  <2>1. 0 % BlockMod = 0
    BY BlocksAssumption
  <2> QED BY <1>3, <2>1 DEF Wire, Stored
<1>11. CASE k = 0
  <2>1. n = 0 /\ (m = 0 \/ m = 1) /\ Before(m) = 0
    BY <1>2, <1>3, <1>6, <1>11 DEF Before
  <2>2. p = WRQ(s) /\ p.opcode = "WRQ"
    BY <1>6, <1>11 DEF Upload, WRQ, Packet
  <2>3. WriteRequest(p)
    BY <1>4, <2>2
       DEF tftp_recv_callback, BadRequest, RequestFails, ReadRequest, RepeatedData, WriteData,
           WriteFails, IgnoredData, AckNext, AckedLast, AckEnd, AckOther, IgnoredAck
  <2>4. /\ lastBlock' = 0 /\ fileIndex' = TRUE /\ fp' = "write" /\ file' = <<>>
        /\ Reply(<<ACK(s, 0)>>)
    BY <1>4, <2>3 DEF WriteRequest, OpenedForWriting
  <2>5. Added(toClient', toClient, ACK(s, 0))
    BY <1>8, <1>10, <2>4
  <2>6. /\ AtMostTwo(toClient', s, ACK(s, m), ACK(s, Before(m)))
        /\ m # 0 => Only(toClient', s, ACK(s, 0))
        /\ \A t : t # s => Keeps(toClient', toClient, t)
    <3>1. \A t : t # s => Keeps(toClient', toClient, t)
      BY <1>4, <1>7, <1>10, <2>5, AddedKeeps
    <3>2. CASE m = 0
      BY <1>2, <1>4, <2>1, <2>5, <3>1, <3>2, AddedKeeps
    <3>3. CASE m = 1
      <4>1. Only(toClient', s, ACK(s, 0))
        BY <1>2, <1>4, <2>1, <2>5, <3>3, AddedKeeps
      <4> QED BY <2>1, <3>1, <3>3, <4>1, OnlyIsAtMostTwo
    <3> QED BY <2>1, <3>2, <3>3
  <2>7. UploadingAt(s, m, 0)'
    BY <1>2, <1>3, <1>5, <1>10, <2>1, <2>4, <2>6 DEF UploadingAt
  <2> QED BY <1>3, <1>9, <1>10, <2>4, <2>6, <2>7 DEF Uploading, StoredInOrder
<1>12. CASE k # 0
  <2>1. k \in 1 .. FileBlocks /\ k \in 0 .. FileBlocks
    BY <1>3, <1>6, <1>12 DEF Before
  <2>2. /\ p.opcode = "DATA" /\ p.block = Wire(k) /\ p.data = Data(s)[k]
        /\ p.data.n = k
    BY <1>6, <1>12, <2>1 DEF Upload, DATA, Packet, Data
  <2>3. ACK(s, p.block) = ACK(s, k)
    BY <2>1, <2>2, <1>3, NumbersDiffer DEF ACK
  <2>4. RepeatedData(p) \/ WriteData(p) \/ WriteFails(p) \/ IgnoredData(p)
    BY <2>2 DEF tftp_recv_callback, BadRequest, RequestFails, ReadRequest, WriteRequest,
                AckNext, AckedLast, AckEnd, AckOther, IgnoredAck
  <2>5. CASE k = n
    <3>1. IsRepeat(p)
      BY <1>2, <2>2, <2>5 DEF IsRepeat
    <3>2. RepeatedData(p) \/ (IgnoredData(p) /\ ~fileIndex)
      BY <2>4, <3>1 DEF WriteData, WriteFails, IgnoredData
    <3>3. /\ lastBlock' = lastBlock /\ fileIndex' = fileIndex /\ fp' = fp /\ file' = file
      BY <3>2 DEF RepeatedData, IgnoredData, server, transfer
    <3>4. /\ AtMostTwo(toClient', s, ACK(s, m), ACK(s, Before(m)))
          /\ n # m => Only(toClient', s, ACK(s, Before(m)))
          /\ \A t : t # s => Keeps(toClient', toClient, t)
      <4>1. CASE toClient' = toClient
        BY <1>2, <4>1, SameKeeps
      <4>2. CASE Reply(<<ACK(s, k)>>)
        <5>1. Added(toClient', toClient, ACK(s, k))
          BY <1>8, <2>1, <4>2
        <5>2. \A t : t # s => Keeps(toClient', toClient, t)
          BY <1>4, <1>7, <2>1, <5>1, AddedKeeps
        <5>3. CASE k = m
          BY <1>2, <1>4, <2>5, <5>1, <5>2, <5>3, AddedKeeps
        <5>4. CASE k # m
          <6>1. Only(toClient', s, ACK(s, k)) /\ k = Before(m)
            BY <1>2, <1>4, <1>6, <2>5, <5>1, <5>4, AddedKeeps
          <6> QED BY <2>5, <5>2, <5>4, <6>1, OnlyIsAtMostTwo
        <5> QED BY <5>3, <5>4
      <4> QED BY <1>4, <2>3, <3>2, <4>1, <4>2 DEF RepeatedData, IgnoredData
    <3>5. UploadingAt(s, m, n)'
      BY <1>2, <1>5, <3>3, <3>4 DEF UploadingAt
    <3> QED BY <1>2, <1>3, <1>9, <3>3, <3>4, <3>5 DEF Uploading, StoredInOrder
  <2>6. CASE k # n
    <3>1. k = m /\ n = m - 1 /\ m = n + 1 /\ n < FileBlocks /\ n # m /\ Before(m) = n
      BY <1>2, <1>3, <1>6, <2>6, <1>12 DEF Before
    <3>2. fileIndex /\ fp = "write" /\ p.block = Wire(lastBlock + 1) /\ p.block # lastBlock
      BY <1>2, <1>3, <2>2, <3>1, NumbersDiffer
    <3>3. WriteData(p)
      BY <1>4, <2>4, <3>2 DEF RepeatedData, IgnoredData, WriteFails, IsRepeat, IsNextBlock
    <3>4. /\ lastBlock' = Wire(m) /\ file' = Append(file, Data(s)[m]) /\ CloseAfter(p)
          /\ Reply(<<ACK(s, m)>>)
      BY <1>4, <2>2, <2>3, <3>1, <3>3 DEF WriteData
    <3>5. file' = Stored(s, m)
      BY <1>2, <1>3, <3>1, <3>4, StoredBlocks
    <3>6. IF m < FileBlocks THEN fileIndex' /\ fp' = "write" ELSE ~fileIndex' /\ fp' = "none"
      <4>1. IsFull(p.data) <=> m < FileBlocks
        BY <1>3, <2>1, <2>2, <3>1 DEF IsFull
      <4> QED BY <3>2, <3>4, <4>1 DEF CloseAfter, Closes
    <3>7. Added(toClient', toClient, ACK(s, m))
      BY <1>8, <3>4
    <3>8. /\ AtMostTwo(toClient', s, ACK(s, m), ACK(s, Before(m)))
          /\ \A t : t # s => Keeps(toClient', toClient, t)
      BY <1>2, <1>4, <1>7, <3>1, <3>7, AddedKeeps
    <3>9. Only(toServer', s, Upload(s, m))
      BY <1>5, <1>6, <3>1
    <3>10. UploadingAt(s, m, m)'
      BY <1>2, <1>5, <3>4, <3>5, <3>6, <3>8, <3>9 DEF UploadingAt
    <3> QED BY <1>3, <1>9, <3>5, <3>8, <3>10 DEF Uploading, StoredInOrder
  <2> QED BY <2>5, <2>6
<1> QED BY <1>11, <1>12

LEMMA DownloadServed ==
  ASSUME InOrderNetwork, failures = 0, NEW s \in Ports, Downloading(s),
         client' = client, NEW p, 1 \in Of(toServer, s), toServer[1] = p,
         Keeps(toServer', toServer, s), tftp_recv_callback(p)
  PROVE  Downloading(s)' /\ file' = file
<1>1. p.opcode \in {"RRQ", "ACK"} /\ fp # "write" /\ fp \in {"none", "read"} /\ ~SomethingFails
  BY NothingFailed DEF Downloading
<1>2. ReadRequest(p) \/ AckNext(p) \/ AckEnd(p) \/ AckOther(p) \/ IgnoredAck(p)
  BY <1>1 DEF tftp_recv_callback, BadRequest, RequestFails, WriteRequest, RepeatedData, WriteData,
              WriteFails, IgnoredData
<1>3. fp' \in {"none", "read"} /\ file' = file
  BY <1>1, <1>2 DEF ReadRequest, AckNext, AckEnd, AckOther, IgnoredAck, server, transfer
<1>4. \A j \in Of(toServer', s) : toServer'[j].opcode \in {"RRQ", "ACK"}
  BY DEF Downloading, Keeps
<1> QED BY <1>3, <1>4 DEF Downloading

LEMMA RefusedServed ==
  ASSUME NEW s \in Ports, Refused(s),
         client' = client, NEW p, 1 \in Of(toServer, s), toServer[1] = p,
         Keeps(toServer', toServer, s), tftp_recv_callback(p)
  PROVE  Refused(s)' /\ file' = file
<1>1. p = BadRQ(s) /\ p.opcode = "BAD"
  BY DEF Refused, BadRQ, Packet
<1>2. BadRequest(p)
  BY <1>1 DEF tftp_recv_callback, RequestFails, ReadRequest, WriteRequest, RepeatedData, WriteData,
              WriteFails, IgnoredData, AckNext, AckedLast, AckEnd, AckOther, IgnoredAck
<1>3. \A j \in Of(toServer', s) : toServer'[j] = BadRQ(s)
  BY DEF Refused, Keeps
<1> QED BY <1>2, <1>3 DEF BadRequest, Refused

(* What it answers, it answers to the sender.                              *)
LEMMA RepliesToSender ==
  ASSUME InOrderNetwork, failures = 0, KindsInv, NEW p \in FromClient, tftp_recv_callback(p)
  PROVE  toClient' = toClient \/ \E q \in Packets : q.port = p.port /\ Added(toClient', toClient, q)
<1>1. /\ p.port \in Ports /\ p.block \in Nat /\ lastBlock \in Nat /\ lastBlock + 1 \in Nat
      /\ ~SomethingFails /\ toClient \in Seq(Packets)
  BY NothingFailed, BlocksAssumption DEF FromClient, Packets, KindsInv
<1>2. ASSUME NEW q \in Packets, q.port = p.port, Reply(<<q>>)
      PROVE  \E r \in Packets : r.port = p.port /\ Added(toClient', toClient, r)
  <2>1. Added(toClient', toClient, q)
    BY <1>1, <1>2, SentIsAdded DEF Reply
  <2> QED BY <1>2, <2>1
<1>3. ASSUME NEW n \in Nat PROVE ACK(p.port, n) \in Packets /\ ACK(p.port, n).port = p.port
  BY <1>1, PacketIs DEF ACK, Packet
<1>4. ERROR(p.port) \in Packets /\ ERROR(p.port).port = p.port
  BY <1>1, PacketIs DEF ERROR, Packet
<1>5. ASSUME NEW n \in Nat, NEW from \in Block \cup {NoBlock}, SendNext(p, n, from)
      PROVE  \E q \in Packets : q.port = p.port /\ Added(toClient', toClient, q)
  <2>1. DATA(p.port, n, from) \in Packets /\ DATA(p.port, n, from).port = p.port
    BY <1>1, PacketIs DEF DATA, Packet
  <2>2. Reply(<<DATA(p.port, n, from)>>)
    BY <1>1, <1>5 DEF SendNext
  <2> QED BY <1>2, <2>1, <2>2
<1>6. CASE Reply(<<ERROR(p.port)>>)
  BY <1>2, <1>4, <1>6
<1>7. ASSUME NEW n \in Nat, Reply(<<ACK(p.port, n)>>)
      PROVE  \E q \in Packets : q.port = p.port /\ Added(toClient', toClient, q)
  BY <1>2, <1>3, <1>7
<1>8. CASE ReadRequest(p)
  <2> DEFINE first == IF file = <<>> THEN NoBlock ELSE file[1]
  <2>1. first \in Block \cup {NoBlock}
    <3>1. file # <<>> => 1 \in 1 .. Len(file)
      BY EmptySeq DEF KindsInv
    <3> QED BY <3>1, ElementOfSeq DEF KindsInv
  <2> HIDE DEF first
  <2>2. SendNext(p, 1, first)
    BY <1>1, <1>8 DEF ReadRequest, first
  <2> QED BY <1>5, <2>1, <2>2
<1>9. CASE AckNext(p)
  <2> DEFINE from == IF fp = "read" THEN NextBlock ELSE cbuf
  <2>1. from \in Block \cup {NoBlock}
    BY NextBlockKind DEF KindsInv
  <2> HIDE DEF from
  <2>2. SendNext(p, lastBlock + 1, from) \/ Reply(<<ERROR(p.port)>>)
    BY <1>9 DEF AckNext, SendError, from
  <2> QED BY <1>1, <1>5, <1>6, <2>1, <2>2
<1>10. CASE AckOther(p)
  <2>1. SendNext(p, lastBlock, cbuf) /\ cbuf \in Block \cup {NoBlock}
    BY <1>10 DEF AckOther, Resend, KindsInv
  <2> QED BY <1>1, <1>5, <2>1
<1>11. CASE BadRequest(p) \/ RequestFails(p) \/ WriteFails(p)
  BY <1>6, <1>11 DEF BadRequest, RequestFails, WriteFails
<1>12. CASE WriteRequest(p)
  BY <1>7, <1>12 DEF WriteRequest
<1>13. CASE RepeatedData(p)
  BY <1>1, <1>7, <1>13 DEF RepeatedData
<1>14. CASE WriteData(p)
  BY <1>1, <1>7, <1>14 DEF WriteData
<1>15. CASE IgnoredData(p) \/ AckEnd(p) \/ IgnoredAck(p)
  BY <1>15 DEF IgnoredData, AckEnd, IgnoredAck
<1> QED BY <1>8, <1>9, <1>10, <1>11, <1>12, <1>13, <1>14, <1>15 DEF tftp_recv_callback

(* A request of a transfer that the server has not heard of.               *)
LEMMA RequestHeard ==
  ASSUME InOrderNetwork, failures = 0, KindsInv, StoredInOrder, NEW t \in Ports, Unheard(t),
         client' = client, NEW p \in FromClient, 1 \in Of(toServer, t), toServer[1] = p,
         Keeps(toServer', toServer, t), tftp_recv_callback(p)
  PROVE  Phase(t)' /\ client'[t].op # "idle" /\ StoredInOrder'
<1>1. PICK kind \in {"get", "put", "bad"} : Asking(t, kind)
  BY DEF Unheard
<1>2. /\ Of(toClient, t) = {} /\ ~SomethingFails /\ p.port = t /\ client[t].op \in {kind, "failed"}
      /\ Only(toServer, t, Request(t, kind)) /\ p = Request(t, kind)
      /\ Only(toServer', t, Request(t, kind))
      /\ client[t].next = IF kind = "get" THEN 1 ELSE 0
  <2>1. Only(toServer', t, Request(t, kind))
    BY <1>1, KeepsOnly DEF Asking
  <2> QED BY <1>1, <2>1, NothingFailed DEF Unheard, Asking, Only, Of
<1>3. client[t].op # "idle" /\ client'[t] = client[t]
  BY <1>2
<1>4. CASE kind = "put"
  <2>1. p = WRQ(t) /\ p.opcode = "WRQ" /\ Only(toServer', t, WRQ(t))
    BY <1>2, <1>4 DEF Request, WRQ, Packet
  <2>2. WriteRequest(p)
    BY <1>2, <2>1
       DEF tftp_recv_callback, BadRequest, RequestFails, ReadRequest, RepeatedData, WriteData,
           WriteFails, IgnoredData, AckNext, AckedLast, AckEnd, AckOther, IgnoredAck
  <2>3. /\ lastBlock' = 0 /\ fileIndex' = TRUE /\ fp' = "write" /\ file' = <<>>
        /\ Reply(<<ACK(t, 0)>>)
    BY <1>2, <2>2 DEF WriteRequest, OpenedForWriting
  <2>4. Only(toClient', t, ACK(t, 0))
    <3>1. ACK(t, 0) \in Packets
      BY PacketIs
    <3>2. Added(toClient', toClient, ACK(t, 0))
      BY <2>3, <3>1, SentIsAdded DEF Reply, KindsInv
    <3>3. Only(toClient, t, ACK(t, 0))
      BY <1>2 DEF Only
    <3> QED BY <3>2, <3>3, AddedKeeps DEF KindsInv
  <2>5. Stored(t, 0) = <<>> /\ Wire(0) = 0 /\ 0 \in 0 .. FileBlocks /\ 0 < FileBlocks
    <3>1. 0 % BlockMod = 0
      BY BlocksAssumption
    <3> QED BY <3>1, BlocksAssumption DEF Wire, Stored
  <2>6. /\ AtMostTwo(toServer', t, Upload(t, 0), Upload(t, Before(0)))
        /\ AtMostTwo(toClient', t, ACK(t, 0), ACK(t, Before(0)))
        /\ Only(toServer', t, Upload(t, 0))
    BY <2>1, <2>4, OnlyIsAtMostTwo DEF Upload
  <2>7. UploadingAt(t, 0, 0)'
    BY <1>2, <1>3, <1>4, <2>3, <2>5, <2>6 DEF UploadingAt
  <2>8. IsPrefix(<<>>, Data(t)) /\ t \in 0 .. Transfers
    BY <2>5, StoredBlocks, TransfersAssumption DEF Ports
  <2> QED BY <1>3, <2>3, <2>5, <2>7, <2>8 DEF Phase, Uploading, StoredInOrder
<1>5. CASE kind = "get"
  <2>1. p = RRQ(t) /\ p.opcode = "RRQ" /\ Only(toServer', t, RRQ(t)) /\ RRQ(t).opcode = "RRQ"
    BY <1>2, <1>5 DEF Request, RRQ, Packet
  <2>2. ReadRequest(p)
    BY <1>2, <2>1
       DEF tftp_recv_callback, BadRequest, RequestFails, WriteRequest, RepeatedData, WriteData,
           WriteFails, IgnoredData, AckNext, AckedLast, AckEnd, AckOther, IgnoredAck
  <2>3. fp' = "read" /\ file' = file
    BY <2>2 DEF ReadRequest
  <2>4. Downloading(t)'
    BY <1>2, <1>3, <1>5, <2>1, <2>3 DEF Downloading, Only
  <2> QED BY <1>3, <2>3, <2>4 DEF Phase, StoredInOrder
<1>6. CASE kind = "bad"
  <2>1. p = BadRQ(t) /\ p.opcode = "BAD" /\ Only(toServer', t, BadRQ(t))
    BY <1>2, <1>6 DEF Request, BadRQ, Packet
  <2>2. BadRequest(p)
    BY <2>1 DEF tftp_recv_callback, RequestFails, ReadRequest, WriteRequest, RepeatedData,
                WriteData, WriteFails, IgnoredData, AckNext, AckedLast, AckEnd, AckOther, IgnoredAck
  <2>3. fileIndex' = FALSE /\ file' = file
    BY <2>2 DEF BadRequest
  <2>4. Refused(t)'
    BY <1>2, <1>3, <1>6, <2>1, <2>3 DEF Refused, Only
  <2> QED BY <1>3, <2>3, <2>4 DEF Phase, StoredInOrder
<1> QED BY <1>4, <1>5, <1>6

(* A transfer to which nothing happens but that packets are lost, or its   *)
(* client gives up.                                                        *)
GivenUp(t) ==
  client'[t].next = client[t].next /\
  (client'[t].op = client[t].op \/ (client[t].op # "idle" /\ client'[t].op = "failed"))

LEMMA UnheardStays ==
  ASSUME NEW t, Unheard(t), GivenUp(t),
         Keeps(toServer', toServer, t), Keeps(toClient', toClient, t)
  PROVE  Unheard(t)'
<1>1. Of(toClient', t) = {} /\ (Of(toServer, t) = {} => Of(toServer', t) = {})
  BY KeepsOnly DEF Unheard
<1>2. ASSUME NEW kind \in {"get", "put", "bad"}, Asking(t, kind) PROVE Asking(t, kind)'
  <2>1. Only(toServer', t, Request(t, kind))
    BY <1>2, KeepsOnly DEF Asking
  <2> QED BY <1>2, <2>1 DEF Asking, GivenUp
<1> QED BY <1>1, <1>2 DEF Unheard, GivenUp

LEMMA PhaseStays ==
  ASSUME NEW s, Phase(s), GivenUp(s), UNCHANGED <<file, lastBlock, fileIndex, fp>>,
         Keeps(toServer', toServer, s), Keeps(toClient', toClient, s)
  PROVE  Phase(s)'
<1>1. ASSUME NEW m \in 0 .. FileBlocks, NEW n \in 0 .. FileBlocks, UploadingAt(s, m, n)
      PROVE  UploadingAt(s, m, n)'
  <2>1. /\ AtMostTwo(toServer', s, Upload(s, m), Upload(s, Before(m)))
        /\ AtMostTwo(toClient', s, ACK(s, m), ACK(s, Before(m)))
    BY <1>1 DEF UploadingAt, Keeps
  <2>2. /\ n = m => Only(toServer', s, Upload(s, m))
        /\ n # m => Only(toClient', s, ACK(s, Before(m)))
    BY <1>1, KeepsOnly DEF UploadingAt
  <2> QED BY <1>1, <2>1, <2>2 DEF UploadingAt, GivenUp
<1>2. ASSUME Downloading(s) PROVE Downloading(s)'
  BY <1>2 DEF Downloading, GivenUp, Keeps
<1>3. ASSUME Refused(s) PROVE Refused(s)'
  BY <1>3 DEF Refused, GivenUp, Keeps
<1> QED BY <1>1, <1>2, <1>3 DEF Phase, Uploading

----------------------------------------------------------------------------
(* Every step keeps the invariant.                                         *)
LEMMA RepliesAside ==
  ASSUME InOrderNetwork, failures = 0, KindsInv, NEW p \in FromClient, tftp_recv_callback(p),
         NEW u, u # p.port
  PROVE  Keeps(toClient', toClient, u)
<1>1. CASE toClient' = toClient
  BY <1>1, SameKeeps
<1>2. ASSUME NEW q \in Packets, q.port = p.port, Added(toClient', toClient, q)
      PROVE  Keeps(toClient', toClient, u)
  BY <1>2, AddedKeeps DEF KindsInv
<1> QED BY <1>1, <1>2, RepliesToSender

LEMMA ServerKeepsOrder ==
  ASSUME InOrderNetwork, KindsInv, SequenceInv, NEW p, ServerReceives(p)
  PROVE  SequenceInv'
<1>1. /\ 1 \in DOMAIN toServer /\ toServer[1] = p /\ toServer' = RemoveAt(toServer, 1)
      /\ tftp_recv_callback(p) /\ client' = client
  BY DEF ServerReceives, InOrderNetwork, Arrivals, After
<1>2. p \in FromClient /\ p.port \in Ports /\ toServer \in Seq(FromClient) /\ failures = 0
  BY ServerKinds DEF FromClient, Packets, KindsInv, SequenceInv
<1>3. Drawn(toServer', toServer, 2)
  BY <1>1, <1>2, RemovedIsDrawn
<1>4. /\ \A t : Keeps(toServer', toServer, t)
      /\ \A j \in DOMAIN toServer' : \E i \in DOMAIN toServer : toServer'[j] = toServer[i]
  BY <1>2, <1>3, DrawnKeeps
<1>5. Sorted(toServer') /\ \A j \in DOMAIN toServer' : toServer'[j].port >= p.port
  <2>1. toServer # <<>>
    BY <1>1
  <2> QED BY <1>1, <1>2, <1>3, <2>1, DrawnSorted DEF SequenceInv, InTurn
<1>6. InTurn'
  BY <1>1, <1>5 DEF SequenceInv, InTurn, Ended
<1>7. failures' = 0
  BY <1>1, <1>2, NoFailures
<1>8. PICK s \in 0 .. Transfers : AtTransfer(s)
  BY DEF SequenceInv
<1>9. \A t \in Ports : t \in 0 .. Transfers /\ t > 0 /\ t \in Int
  BY TransfersAssumption DEF Ports
<1>10. p.port >= s /\ s \in Int
  BY <1>1, <1>8, TransfersAssumption DEF AtTransfer
<1>11. ASSUME NEW u \in s + 1 .. Transfers, u # p.port PROVE Unheard(u)'
  <2>1. Unheard(u) /\ GivenUp(u)
    BY <1>1, <1>8 DEF AtTransfer, GivenUp
  <2>2. Keeps(toClient', toClient, u)
    BY <1>1, <1>2, <1>11, RepliesAside
  <2> QED BY <1>4, <2>1, <2>2, UnheardStays
<1>12. CASE p.port = s
  <2>1. s \in Ports /\ s > 0 /\ client[s].op # "idle" /\ Phase(s) /\ 1 \in Of(toServer, s)
    BY <1>1, <1>2, <1>8, <1>9, <1>12 DEF AtTransfer, Of
  <2>2. Phase(s)' /\ StoredInOrder'
    <3>1. CASE Uploading(s)
      BY <1>1, <1>2, <1>3, <2>1, <3>1, UploadServed DEF Phase
    <3>2. CASE Downloading(s)
      <4>1. Downloading(s)' /\ file' = file
        BY <1>1, <1>2, <1>4, <2>1, <3>2, DownloadServed
      <4> QED BY <4>1 DEF Phase, SequenceInv, StoredInOrder
    <3>3. CASE Refused(s)
      <4>1. Refused(s)' /\ file' = file
        BY <1>1, <1>2, <1>4, <2>1, <3>3, RefusedServed
      <4> QED BY <4>1 DEF Phase, SequenceInv, StoredInOrder
    <3> QED BY <2>1, <3>1, <3>2, <3>3 DEF Phase
  <2>3. \A u \in s + 1 .. Transfers : Unheard(u)'
    BY <1>10, <1>11, <1>12, TransfersAssumption
  <2>4. AtTransfer(s)'
    BY <1>1, <1>5, <1>12, <2>1, <2>2, <2>3 DEF AtTransfer
  <2> QED BY <1>6, <1>7, <1>8, <2>2, <2>4 DEF SequenceInv
<1>13. CASE p.port # s
  <2> DEFINE t == p.port
  <2>1. t \in s + 1 .. Transfers /\ t \in Ports /\ t \in 0 .. Transfers /\ t > 0
    BY <1>2, <1>9, <1>10, <1>13, TransfersAssumption DEF Ports
  <2>2. 1 \in Of(toServer, t) /\ Unheard(t)
    BY <1>1, <1>8, <2>1 DEF Of, AtTransfer
  <2>3. Phase(t)' /\ client'[t].op # "idle" /\ StoredInOrder'
    BY <1>1, <1>2, <1>4, <2>1, <2>2, RequestHeard DEF SequenceInv
  <2>4. \A u \in t + 1 .. Transfers : u \in s + 1 .. Transfers /\ u # t
    BY <1>10, <2>1, TransfersAssumption
  <2>5. AtTransfer(t)'
    BY <1>5, <1>11, <2>1, <2>3, <2>4 DEF AtTransfer
  <2> QED BY <1>6, <1>7, <2>1, <2>3, <2>5 DEF SequenceInv
<1> QED BY <1>12, <1>13

(* While a transfer is under way, no packet of a later one is in flight.   *)
LEMMA ActiveIsLast ==
  ASSUME KindsInv, InTurn, NEW s \in 0 .. Transfers, AtTransfer(s), NEW t \in Ports, t >= s,
         \A u \in Ports : u > t => client[u].op = "idle"
  PROVE  \A i \in DOMAIN toServer : toServer[i].port <= t
<1> SUFFICES ASSUME NEW i \in DOMAIN toServer PROVE toServer[i].port <= t
  OBVIOUS
<1> DEFINE u == toServer[i].port
<1>1. u \in Ports
  <2>1. toServer[i] \in FromClient
    BY RemovedStays DEF KindsInv
  <2> QED BY <2>1 DEF FromClient, Packets
<1>2. CASE u > t
  <2>1. u \in s + 1 .. Transfers /\ client[u].op = "idle"
    BY <1>1, <1>2, TransfersAssumption DEF Ports
  <2>2. Unheard(u)
    BY <2>1 DEF AtTransfer
  <2>3. Of(toServer, u) = {}
    BY <2>1, <2>2 DEF Unheard, Asking
  <2> QED BY <2>3 DEF Of
<1> QED BY <1>1, <1>2, TransfersAssumption DEF Ports

(* A client that receives a packet sends one, if any, of its own.          *)
Acts(p) == GetBlock(p) \/ AckAgain(p) \/ PutNext(p) \/ PutDone(p) \/ Fail(p) \/ Discard(p)

LEMMA ClientSends ==
  ASSUME KindsInv, NEW p \in Packets, Acts(p)
  PROVE  /\ p.port \in Ports /\ \A u \in Ports : u # p.port => client'[u] = client[u]
         /\ Ended(p.port) => client' = client /\ toServer' = toServer
         /\ \/ toServer' = toServer
            \/ \E q \in FromClient : q.port = p.port /\ Added(toServer', toServer, q)
         /\ client[p.port].op # "idle" => client'[p.port].op # "idle"
<1> DEFINE t == p.port
<1>1. t \in Ports /\ p.block \in Nat
  BY BlocksAssumption DEF Packets
<1>2. client \in [Ports -> [op : Ops, next : Nat, got : Seq(Block)]] /\ toServer \in Seq(FromClient)
  BY DEF KindsInv
<1>3. \A u \in Ports : u # t => client'[u] = client[u]
  BY <1>1, <1>2 DEF Acts, GetBlock, AckAgain, PutNext, PutDone, Fail, Discard
<1>4. Ended(t) => client' = client /\ toServer' = toServer
  BY DEF Acts, GetBlock, AckAgain, PutNext, PutDone, Fail, Discard, ExpectedData, OldData,
         ExpectedACK, Refusal, Ended
<1>5. ASSUME NEW q \in FromClient, q.port = t, Send(q)
      PROVE  \E r \in FromClient : r.port = t /\ Added(toServer', toServer, r)
  <2>1. Added(toServer', toServer, q)
    BY <1>2, <1>5, SentIsAdded DEF Send
  <2> QED BY <1>5, <2>1
<1>6. \/ toServer' = toServer
      \/ \E q \in FromClient : q.port = t /\ Added(toServer', toServer, q)
  <2>1. ACK(t, p.block) \in FromClient /\ ACK(t, p.block).port = t
    BY <1>1, PacketIs DEF ACK, Packet
  <2>2. CASE GetBlock(p) \/ AckAgain(p)
    BY <1>5, <2>1, <2>2 DEF GetBlock, AckAgain
  <2>3. CASE PutNext(p)
    <3>1. client[t].next + 1 \in 1 .. FileBlocks
      BY <1>1, <1>2, <2>3, BlocksAssumption DEF PutNext
    <3>2. PICK n \in 1 .. FileBlocks : n = client[t].next + 1 /\ n \in Nat
      BY <3>1, BlocksAssumption
    <3>3. DATA(t, n, Data(t)[n]) \in FromClient /\ DATA(t, n, Data(t)[n]).port = t
      BY <1>1, <3>2, BlocksFit, PacketIs DEF DATA, Packet
    <3>4. Send(DATA(t, n, Data(t)[n]))
      BY <2>3, <3>2 DEF PutNext
    <3> QED BY <1>5, <3>3, <3>4
  <2>4. CASE PutDone(p) \/ Fail(p) \/ Discard(p)
    BY <2>4 DEF PutDone, Fail, Discard
  <2> QED BY <2>2, <2>3, <2>4 DEF Acts
<1>7. ASSUME client[t].op # "idle" PROVE client'[t].op # "idle"
  <2>1. CASE GetBlock(p)
    BY <1>1, <1>2, <2>1 DEF GetBlock
  <2>2. CASE PutNext(p)
    BY <1>1, <1>2, <1>7, <2>2 DEF PutNext
  <2>3. CASE PutDone(p) \/ Fail(p)
    BY <1>1, <1>2, <2>3 DEF PutDone, Fail
  <2>4. CASE AckAgain(p) \/ Discard(p)
    BY <1>7, <2>4 DEF AckAgain, Discard
  <2> QED BY <2>1, <2>2, <2>3, <2>4 DEF Acts
<1> QED BY <1>1, <1>3, <1>4, <1>6, <1>7

(* An answer to a download, or to a request that was refused.              *)
LEMMA OthersAnswered ==
  ASSUME KindsInv, NEW p \in Packets, Acts(p), Downloading(p.port) \/ Refused(p.port), UNCHANGED server
  PROVE  Phase(p.port)' /\ ~(client[p.port].op = "put" /\ client'[p.port].op = "done")
<1> DEFINE t == p.port
<1>1. /\ t \in Ports /\ p.block \in Nat /\ ACK(t, p.block) \in Packets
      /\ ACK(t, p.block).port = t /\ ACK(t, p.block).opcode = "ACK"
  <2>1. t \in Ports /\ p.block \in Nat
    BY BlocksAssumption DEF Packets
  <2> QED BY <2>1, PacketIs DEF ACK, Packet
<1>2. /\ client \in [Ports -> [op : Ops, next : Nat, got : Seq(Block)]] /\ toServer \in Seq(FromClient)
      /\ fileIndex' = fileIndex /\ fp' = fp
  BY DEF KindsInv, server, transfer
<1>3. client[t].op # "put"
  BY DEF Downloading, Refused
<1>4. CASE Downloading(t)
  <2>1. ASSUME Send(ACK(t, p.block))
        PROVE  \A i \in Of(toServer', t) : toServer'[i].opcode \in {"RRQ", "ACK"}
    <3>1. ACK(t, p.block) \in FromClient
      BY <1>1, PacketIs
    <3>2. Added(toServer', toServer, ACK(t, p.block))
      BY <1>2, <2>1, <3>1, SentIsAdded DEF Send
    <3>3. \A j \in DOMAIN toServer' :
            toServer'[j] = ACK(t, p.block) \/ \E i \in DOMAIN toServer : toServer'[j] = toServer[i]
      BY <1>2, <3>2, AddedKeeps
    <3> QED BY <1>1, <1>4, <3>3 DEF Downloading, Of
  <2>2. Downloading(t)'
    <3>1. CASE GetBlock(p)
      <4>1. client'[t].op \in {"get", "done"}
        BY <1>1, <1>2, <3>1 DEF GetBlock
      <4> QED BY <1>2, <1>4, <2>1, <3>1, <4>1 DEF GetBlock, Downloading
    <3>2. CASE AckAgain(p)
      BY <1>2, <1>4, <2>1, <3>2 DEF AckAgain, Downloading
    <3>3. CASE Fail(p)
      <4>1. client'[t].op = "failed" /\ toServer' = toServer
        BY <1>1, <1>2, <3>3 DEF Fail
      <4> QED BY <1>2, <1>4, <4>1 DEF Downloading
    <3>4. CASE Discard(p)
      BY <1>2, <1>4, <3>4 DEF Discard, Downloading
    <3>5. ~PutNext(p) /\ ~PutDone(p)
      BY <1>3 DEF PutNext, PutDone, ExpectedACK
    <3> QED BY <3>1, <3>2, <3>3, <3>4, <3>5 DEF Acts
  <2> QED BY <1>3, <2>2 DEF Phase
<1>5. CASE Refused(t)
  <2>1. client[t].op # "get"
    BY <1>5 DEF Refused
  <2>2. Fail(p) \/ Discard(p)
    BY <1>3, <2>1 DEF Acts, GetBlock, AckAgain, PutNext, PutDone, ExpectedData, OldData, ExpectedACK
  <2>3. toServer' = toServer /\ client'[t].op \in {client[t].op, "failed"}
    BY <1>1, <1>2, <2>2 DEF Fail, Discard
  <2>4. Refused(t)'
    BY <1>2, <1>5, <2>3 DEF Refused
  <2> QED BY <1>3, <2>4 DEF Phase
<1> QED BY <1>3, <1>4, <1>5

(* An answer to an upload.                                                 *)
LEMMA UploadAnswered ==
  ASSUME InOrderNetwork, KindsInv, NEW s \in Ports, Uploading(s), NEW p \in Packets, p.port = s,
         1 \in DOMAIN toClient, toClient[1] = p, Drawn(toClient', toClient, 2),
         Acts(p), UNCHANGED server
  PROVE  /\ Phase(s)'
         /\ client[s].op = "put" /\ client'[s].op = "done" => file = Data(s) /\ fp # "write"
<1>1. PICK m \in 0 .. FileBlocks, n \in 0 .. FileBlocks : UploadingAt(s, m, n)
  BY DEF Uploading
<1>2. /\ client[s].op \in {"put", "failed", "done"} /\ m = client[s].next
      /\ (n = m \/ n = m - 1) /\ file = Stored(s, n) /\ lastBlock = Wire(n)
      /\ IF n < FileBlocks THEN fileIndex /\ fp = "write" ELSE ~fileIndex /\ fp = "none"
      /\ AtMostTwo(toServer, s, Upload(s, m), Upload(s, Before(m)))
      /\ AtMostTwo(toClient, s, ACK(s, m), ACK(s, Before(m)))
      /\ n = m => Only(toServer, s, Upload(s, m))
      /\ n # m => Only(toClient, s, ACK(s, Before(m)))
  BY <1>1 DEF UploadingAt
<1>3. FileBlocks \in Nat \ {0} /\ m \in Nat /\ n \in Nat /\ m <= FileBlocks
  BY BlocksAssumption
<1>4. /\ client \in [Ports -> [op : Ops, next : Nat, got : Seq(Block)]]
      /\ toServer \in Seq(FromClient) /\ toClient \in Seq(Packets) /\ 1 \in Of(toClient, s)
      /\ UNCHANGED <<file, lastBlock, fileIndex, fp>>
  BY DEF KindsInv, Of, server, transfer
<1>5. \A t : Keeps(toClient', toClient, t)
  BY <1>4, DrawnKeeps
<1>6. p \in {ACK(s, m), ACK(s, Before(m))} /\ p.opcode = "ACK" /\ (n # m => p = ACK(s, Before(m)))
  BY <1>2, <1>4 DEF AtMostTwo, Only, ACK, Packet
<1>7. PutNext(p) \/ PutDone(p) \/ Discard(p)
  BY <1>6 DEF Acts, GetBlock, AckAgain, Fail, ExpectedData, OldData, Refusal
<1>8. CASE Discard(p)
  <2>1. GivenUp(s) /\ toServer' = toServer /\ client' = client
    BY <1>8 DEF Discard, GivenUp
  <2>2. Phase(s)'
    BY <1>4, <1>5, <2>1, SameKeeps, PhaseStays DEF Phase
  <2> QED BY <2>1, <2>2
<1>9. ASSUME ExpectedACK(p) PROVE n = m /\ p = ACK(s, m) /\ client[s].op = "put"
  <2>1. p.block = Wire(m)
    BY <1>2, <1>9 DEF ExpectedACK
  <2>2. CASE m = 0
    <3>1. n = m
      BY <1>2, <1>3, <2>2
    <3> QED BY <1>6, <1>9, <2>2, <3>1 DEF Before, ExpectedACK
  <2>3. CASE m # 0
    <3>1. Before(m) \in Nat /\ Before(m) + 1 = m
      BY <1>3, <2>3 DEF Before
    <3>2. Wire(Before(m)) # Wire(m)
      BY <3>1, NumbersDiffer
    <3>3. ACK(s, Before(m)).block = Wire(Before(m))
      BY DEF ACK, Packet
    <3> QED BY <1>6, <1>9, <2>1, <3>2, <3>3 DEF ExpectedACK
  <2> QED BY <2>2, <2>3
<1>10. CASE PutNext(p)
  <2>1. n = m /\ p = ACK(s, m) /\ client[s].op = "put" /\ m < FileBlocks
    BY <1>2, <1>9, <1>10 DEF PutNext
  <2>2. m + 1 \in 0 .. FileBlocks /\ m + 1 \in 1 .. FileBlocks /\ Before(m + 1) = m /\ m + 1 # 0
        /\ m = (m + 1) - 1 /\ m + 1 # m /\ m + 1 \in Nat
    BY <1>3, <2>1 DEF Before
  <2>3. client'[s].op = "put" /\ client'[s].next = m + 1
    BY <1>2, <1>4, <1>10, <2>1 DEF PutNext
  <2>4. Send(Upload(s, m + 1)) /\ Upload(s, m + 1) \in FromClient
    <3>1. Send(DATA(s, m + 1, Data(s)[m + 1]))
      BY <1>2, <1>10 DEF PutNext
    <3>2. DATA(s, m + 1, Data(s)[m + 1]) \in FromClient
      BY <2>2, BlocksFit, PacketIs
    <3> QED BY <2>2, <3>1, <3>2 DEF Upload
  <2>5. Added(toServer', toServer, Upload(s, m + 1))
    BY <1>4, <2>4, SentIsAdded DEF Send
  <2>6. AtMostTwo(toServer', s, Upload(s, m + 1), Upload(s, m))
    BY <1>2, <1>4, <2>1, <2>5, AddedKeeps
  <2>7. Only(toClient', s, ACK(s, m))
    BY <1>2, <1>4, <2>1, DrawnKeeps
  <2>8. AtMostTwo(toClient', s, ACK(s, m + 1), ACK(s, m))
    BY <2>7, OnlyIsAtMostTwo
  <2>9. UploadingAt(s, m + 1, m)'
    BY <1>2, <1>4, <2>1, <2>2, <2>3, <2>6, <2>7, <2>8 DEF UploadingAt
  <2> QED BY <2>2, <2>3, <2>9 DEF Phase, Uploading
<1>11. CASE PutDone(p)
  <2>1. n = m /\ m = FileBlocks
    BY <1>2, <1>9, <1>11 DEF PutDone
  <2>2. file = Data(s) /\ fp # "write"
    BY <1>2, <1>3, <2>1 DEF Data, Stored
  <2>3. client'[s].op = "done" /\ client'[s].next = m /\ toServer' = toServer
    BY <1>2, <1>4, <1>11 DEF PutDone
  <2>4. /\ AtMostTwo(toClient', s, ACK(s, m), ACK(s, Before(m)))
        /\ n # m => Only(toClient', s, ACK(s, Before(m)))
    BY <1>2, <1>5, <2>1 DEF Keeps
  <2>5. UploadingAt(s, m, n)'
    BY <1>2, <1>4, <2>3, <2>4 DEF UploadingAt
  <2> QED BY <2>2, <2>5 DEF Phase, Uploading
<1> QED BY <1>7, <1>8, <1>10, <1>11

LEMMA ClientKeepsOrder ==
  ASSUME InOrderNetwork, KindsInv, SequenceInv, NEW p, ClientReceives(p)
  PROVE  SequenceInv' /\ SuccessIsStored
<1>1. /\ 1 \in DOMAIN toClient /\ toClient[1] = p /\ toClient' = RemoveAt(toClient, 1)
      /\ Acts(p) /\ UNCHANGED server
  BY DEF ClientReceives, InOrderNetwork, Arrivals, After, Acts
<1>2. /\ p \in Packets /\ toServer \in Seq(FromClient) /\ toClient \in Seq(Packets)
      /\ failures' = 0 /\ UNCHANGED <<file, lastBlock, fileIndex, fp>>
  BY <1>1, ClientReceivesKinds DEF KindsInv, SequenceInv, server, transfer
<1>3. Drawn(toClient', toClient, 2)
  BY <1>1, <1>2, RemovedIsDrawn
<1>4. \A t : Keeps(toClient', toClient, t)
  BY <1>2, <1>3, DrawnKeeps
<1>5. PICK s \in 0 .. Transfers : AtTransfer(s)
  BY DEF SequenceInv
<1>6. StoredInOrder' /\ InTurn
  BY <1>2 DEF SequenceInv, StoredInOrder
<1> DEFINE t == p.port
<1>7. /\ t \in Ports /\ \A u \in Ports : u # t => client'[u] = client[u]
      /\ Ended(t) => client' = client /\ toServer' = toServer
      /\ \/ toServer' = toServer
         \/ \E q \in FromClient : q.port = t /\ Added(toServer', toServer, q)
      /\ client[t].op # "idle" => client'[t].op # "idle"
  BY <1>1, <1>2, ClientSends
<1>8. t <= s /\ s \in Ports /\ s > 0 /\ client[s].op # "idle" /\ Phase(s) /\ s \in Int /\ t \in Int
  <2>1. s \in Int /\ t \in Int /\ t > 0 /\ t <= Transfers /\ Transfers \in Nat
    BY <1>7, TransfersAssumption DEF Ports
  <2>2. CASE t > s
    <3>1. t \in s + 1 .. Transfers
      BY <2>1, <2>2
    <3>2. Of(toClient, t) = {}
      BY <1>5, <3>1 DEF AtTransfer, Unheard
    <3> QED BY <1>1, <3>2 DEF Of
  <2>3. CASE ~(t > s)
    <3>1. t <= s /\ s > 0 /\ s \in Ports
      BY <2>1, <2>3 DEF Ports
    <3> QED BY <1>5, <2>1, <3>1 DEF AtTransfer
  <2> QED BY <2>2, <2>3
<1>9. CASE Ended(t)
  <2>1. client' = client /\ toServer' = toServer
    BY <1>7, <1>9
  <2>2. InTurn'
    BY <1>6, <2>1 DEF InTurn, Ended
  <2>3. \A u : GivenUp(u) /\ Keeps(toServer', toServer, u)
    BY <2>1, SameKeeps DEF GivenUp
  <2>4. Phase(s)'
    BY <1>2, <1>4, <1>8, <2>3, PhaseStays
  <2>5. \A u \in s + 1 .. Transfers : Unheard(u)'
    BY <1>4, <1>5, <2>3, UnheardStays DEF AtTransfer
  <2>6. AtTransfer(s)'
    BY <1>5, <1>8, <2>1, <2>4, <2>5 DEF AtTransfer
  <2>7. SuccessIsStored
    BY <2>1 DEF SuccessIsStored, Succeeds
  <2> QED BY <1>2, <1>6, <2>2, <2>6, <2>7 DEF SequenceInv
<1>10. CASE ~Ended(t)
  <2>1. t = s
    BY <1>6, <1>7, <1>8, <1>10 DEF InTurn
  <2>2. \A u \in Ports : u > s => client[u].op = "idle"
    BY <1>6, <1>8, <1>10, <2>1 DEF InTurn
  <2>3. \A i \in DOMAIN toServer : toServer[i].port <= s
    BY <1>5, <1>6, <1>8, <2>2, ActiveIsLast
  <2>4. /\ Phase(s)'
        /\ client[s].op = "put" /\ client'[s].op = "done" => file = Data(s) /\ fp # "write"
    <3>1. CASE Uploading(s)
      BY <1>1, <1>2, <1>3, <1>8, <2>1, <3>1, UploadAnswered
    <3>2. CASE Downloading(s) \/ Refused(s)
      BY <1>1, <1>2, <2>1, <3>2, OthersAnswered
    <3> QED BY <1>8, <3>1, <3>2 DEF Phase
  <2>5. /\ \A u : u # s => Keeps(toServer', toServer, u)
        /\ Sorted(toServer') /\ \A i \in DOMAIN toServer' : toServer'[i].port >= s
    <3>1. CASE toServer' = toServer
      BY <1>5, <1>6, <3>1, SameKeeps DEF AtTransfer, InTurn
    <3>2. ASSUME NEW q \in FromClient, q.port = s, Added(toServer', toServer, q)
          PROVE  /\ \A u : u # s => Keeps(toServer', toServer, u)
                 /\ Sorted(toServer') /\ \A i \in DOMAIN toServer' : toServer'[i].port >= s
      <4>1. /\ \A u : u # s => Keeps(toServer', toServer, u)
            /\ \A j \in DOMAIN toServer' :
                 toServer'[j] = q \/ \E i \in DOMAIN toServer : toServer'[j] = toServer[i]
        BY <1>2, <3>2, AddedKeeps
      <4>2. DOMAIN toServer' \subseteq Nat
        BY <1>1, ClientReceivesKinds DEF KindsInv
      <4>3. Sorted(toServer')
        BY <1>2, <1>6, <1>8, <2>3, <3>2, <4>2, AddedSorted DEF InTurn
      <4>4. \A i \in DOMAIN toServer' : toServer'[i].port >= s
        BY <1>5, <1>8, <3>2, <4>1 DEF AtTransfer
      <4> QED BY <4>1, <4>3, <4>4
    <3> QED BY <1>7, <2>1, <3>1, <3>2
  <2>6. InTurn'
    <3>1. ASSUME NEW v \in Ports, NEW u \in Ports, v < u, client'[u].op # "idle" PROVE Ended(v)'
      <4>1. client[u].op # "idle"
        BY <1>7, <1>8, <2>1, <3>1
      <4>2. Ended(v)
        BY <1>6, <3>1, <4>1 DEF InTurn
      <4>3. v # s
        BY <1>10, <2>1, <4>2
      <4> QED BY <1>7, <2>1, <4>2, <4>3 DEF Ended
    <3> QED BY <2>5, <3>1 DEF InTurn
  <2>7. ASSUME NEW u \in s + 1 .. Transfers PROVE Unheard(u)'
    <3>1. u \in Ports /\ u # s
      BY <1>8 DEF Ports
    <3>2. Unheard(u) /\ GivenUp(u)
      BY <1>5, <1>7, <2>1, <3>1 DEF AtTransfer, GivenUp
    <3> QED BY <1>4, <2>5, <3>1, <3>2, UnheardStays
  <2>8. AtTransfer(s)'
    BY <1>7, <1>8, <2>1, <2>4, <2>5, <2>7 DEF AtTransfer
  <2>9. SuccessIsStored
    BY <1>7, <2>1, <2>4 DEF SuccessIsStored, Succeeds
  <2> QED BY <1>2, <1>6, <2>6, <2>8, <2>9 DEF SequenceInv
<1> QED BY <1>9, <1>10

(* Packets are lost, or a client gives up.                                 *)
LEMMA AsideKeepsOrder ==
  ASSUME SequenceInv, \A t \in Ports : GivenUp(t) /\ (Ended(t) => Ended(t)'),
         UNCHANGED server, Sorted(toServer'),
         \A j \in DOMAIN toServer' : \E i \in DOMAIN toServer : toServer'[j] = toServer[i],
         \A t : Keeps(toServer', toServer, t) /\ Keeps(toClient', toClient, t)
  PROVE  SequenceInv' /\ SuccessIsStored
<1>1. PICK s \in 0 .. Transfers : AtTransfer(s)
  BY DEF SequenceInv
<1>2. failures' = 0 /\ StoredInOrder' /\ UNCHANGED <<file, lastBlock, fileIndex, fp>>
  BY DEF SequenceInv, StoredInOrder, server, transfer
<1>3. \A t \in Ports : client'[t].op = "idle" <=> client[t].op = "idle"
  BY DEF GivenUp
<1>4. InTurn'
  BY <1>3 DEF SequenceInv, InTurn
<1>5. \A u \in s + 1 .. Transfers : u \in Ports
  BY TransfersAssumption DEF Ports
<1>6. \A u \in s + 1 .. Transfers : Unheard(u)'
  BY <1>1, <1>5, UnheardStays DEF AtTransfer
<1>7. ASSUME s > 0 PROVE client'[s].op # "idle" /\ Phase(s)'
  <2>1. s \in Ports /\ client[s].op # "idle" /\ Phase(s)
    BY <1>1, <1>7, TransfersAssumption DEF AtTransfer, Ports
  <2> QED BY <1>2, <1>3, <2>1, PhaseStays
<1>8. AtTransfer(s)'
  BY <1>1, <1>6, <1>7 DEF AtTransfer
<1>9. SuccessIsStored
  BY DEF SuccessIsStored, Succeeds, GivenUp
<1> QED BY <1>2, <1>4, <1>8, <1>9 DEF SequenceInv

LEMMA BeginKeepsOrder ==
  ASSUME KindsInv, SequenceInv, NEW t \in Ports, NEW kind \in Kinds, Begin(t, kind)
  PROVE  SequenceInv' /\ SuccessIsStored
<1>1. PICK s \in 0 .. Transfers : AtTransfer(s)
  BY DEF SequenceInv
<1>2. /\ failures' = 0 /\ StoredInOrder' /\ UNCHANGED <<file, lastBlock, fileIndex, fp, toClient>>
      /\ InTurn /\ client[t].op = "idle" /\ \A u \in 1 .. t - 1 : Ended(u)
      /\ toServer \in Seq(FromClient)
  BY DEF Begin, SequenceInv, StoredInOrder, server, transfer, KindsInv
<1>3. /\ Request(t, kind) \in FromClient /\ Request(t, kind).port = t
      /\ kind \in {"get", "put", "bad"}
  BY RequestKind
<1>4. /\ client'[t].op = kind /\ client'[t].next = IF kind = "get" THEN 1 ELSE 0
      /\ \A u \in Ports : u # t => client'[u] = client[u]
  <2>1. client \in [Ports -> [op : Ops, next : Nat, got : Seq(Block)]]
    BY DEF KindsInv
  <2> QED BY <2>1 DEF Begin
<1>5. /\ s \in Int /\ t \in Int /\ Transfers \in Nat
      /\ \A u \in Ports : u \in Int /\ (u < t => u \in 1 .. t - 1)
      /\ \A u \in s + 1 .. Transfers : u \in Ports
      /\ (s > 0 => s \in Ports)
  BY TransfersAssumption DEF Ports
<1>6. t > s
  <2>1. CASE t < s
    <3>1. Ended(t)
      BY <1>1, <1>2, <1>5, <2>1 DEF AtTransfer, InTurn, Ports
    <3> QED BY <1>2, <3>1 DEF Ended
  <2>2. CASE t = s
    BY <1>1, <1>2, <2>2 DEF AtTransfer, Ports
  <2> QED BY <1>5, <2>1, <2>2
<1>7. \A u \in Ports : u > t => client[u].op = "idle"
  <2>1. \A u \in Ports : u > t /\ client[u].op # "idle" => Ended(t)
    BY <1>2, <1>5 DEF InTurn
  <2> QED BY <1>2, <2>1 DEF Ended
<1>8. \A i \in DOMAIN toServer : toServer[i].port <= t
  BY <1>1, <1>2, <1>5, <1>6, <1>7, ActiveIsLast
<1>9. Added(toServer', toServer, Request(t, kind))
  BY <1>2, <1>3, SentIsAdded DEF Begin, Send
<1>10. /\ \A u : u # t => Keeps(toServer', toServer, u)
       /\ \A j \in DOMAIN toServer' :
            toServer'[j] = Request(t, kind) \/ \E i \in DOMAIN toServer : toServer'[j] = toServer[i]
       /\ Only(toServer, t, Request(t, kind)) => Only(toServer', t, Request(t, kind))
  BY <1>2, <1>3, <1>9, AddedKeeps
<1>11. Sorted(toServer')
  <2>1. DOMAIN toServer' \subseteq Nat
    BY KindsStep, SMTT(20) DEF KindsInv, Next
  <2> QED BY <1>2, <1>3, <1>5, <1>8, <1>9, <2>1, AddedSorted DEF InTurn
<1>12. \A i \in DOMAIN toServer' : toServer'[i].port >= s
  BY <1>1, <1>3, <1>5, <1>6, <1>10 DEF AtTransfer
<1>13. InTurn'
  <2>1. ASSUME NEW v \in Ports, NEW u \in Ports, v < u, client'[u].op # "idle" PROVE Ended(v)'
    <3>1. CASE u = t
      BY <1>2, <1>4, <1>5, <2>1, <3>1 DEF Ended
    <3>2. CASE u # t
      <4>1. client[u].op # "idle" /\ Ended(v)
        BY <1>2, <1>4, <2>1, <3>2 DEF InTurn
      <4>2. v # t
        BY <1>2, <4>1 DEF Ended
      <4> QED BY <1>4, <4>1, <4>2 DEF Ended
    <3> QED BY <3>1, <3>2
  <2> QED BY <1>11, <2>1 DEF InTurn
<1>14. ASSUME NEW u \in s + 1 .. Transfers PROVE Unheard(u)'
  <2>1. Unheard(u) /\ u \in Ports
    BY <1>1, <1>5 DEF AtTransfer
  <2>2. CASE u = t
    <3>1. Of(toServer, t) = {} /\ Of(toClient', t) = {}
      BY <1>2, <2>1, <2>2 DEF Unheard, Asking
    <3>2. Only(toServer', t, Request(t, kind))
      BY <1>10, <3>1 DEF Only
    <3> QED BY <1>3, <1>4, <2>2, <3>1, <3>2 DEF Unheard, Asking
  <2>3. CASE u # t
    <3>1. GivenUp(u) /\ Keeps(toClient', toClient, u) /\ Keeps(toServer', toServer, u)
      BY <1>2, <1>4, <1>10, <2>1, <2>3, SameKeeps DEF GivenUp
    <3> QED BY <2>1, <3>1, UnheardStays
  <2> QED BY <2>2, <2>3
<1>15. ASSUME s > 0 PROVE client'[s].op # "idle" /\ Phase(s)'
  <2>1. s \in Ports /\ s # t /\ client[s].op # "idle" /\ Phase(s)
    BY <1>1, <1>5, <1>6, <1>15 DEF AtTransfer
  <2>2. GivenUp(s) /\ Keeps(toClient', toClient, s) /\ Keeps(toServer', toServer, s)
    BY <1>2, <1>4, <1>10, <2>1, SameKeeps DEF GivenUp
  <2> QED BY <1>2, <1>4, <2>1, <2>2, PhaseStays
<1>16. AtTransfer(s)'
  BY <1>12, <1>14, <1>15 DEF AtTransfer
<1>17. SuccessIsStored
  BY <1>3, <1>4 DEF SuccessIsStored, Succeeds
<1> QED BY <1>2, <1>13, <1>16, <1>17 DEF SequenceInv

(* What a client sends again is what it sent last.                         *)
LEMMA TimeoutKeepsOrder ==
  ASSUME KindsInv, SequenceInv, NEW t \in Ports, Timeout(t)
  PROVE  SequenceInv' /\ SuccessIsStored
<1>1. PICK s \in 0 .. Transfers : AtTransfer(s)
  BY DEF SequenceInv
<1>2. /\ failures' = 0 /\ StoredInOrder'
      /\ UNCHANGED <<file, lastBlock, fileIndex, fp, toClient, client>>
      /\ InTurn /\ client[t].op \in {"get", "put", "bad"}
      /\ toServer \in Seq(FromClient)
  BY DEF Timeout, SequenceInv, StoredInOrder, server, transfer, KindsInv
<1>3. /\ s \in Int /\ t \in Int /\ Transfers \in Nat
      /\ \A u \in s + 1 .. Transfers : u \in Ports
      /\ (s > 0 => s \in Ports)
  BY TransfersAssumption DEF Ports
<1>4. t >= s
  <2>1. CASE t < s
    <3>1. Ended(t)
      BY <1>1, <1>2, <1>3, <2>1 DEF AtTransfer, InTurn, Ports
    <3> QED BY <1>2, <3>1 DEF Ended
  <2> QED BY <1>3, <2>1
<1>5. \A u \in Ports : u > t => client[u].op = "idle"
  <2>1. \A u \in Ports : u > t /\ client[u].op # "idle" => Ended(t)
    BY <1>2, <1>3 DEF InTurn, Ports
  <2> QED BY <1>2, <2>1 DEF Ended
<1>6. \A i \in DOMAIN toServer : toServer[i].port <= t
  BY <1>1, <1>2, <1>4, <1>5, ActiveIsLast
<1> DEFINE q == LastPacket(t)
<1>7. q \in FromClient /\ q.port = t
  <2>1. q.port = t
    BY <1>2 DEF LastPacket, RRQ, WRQ, BadRQ, ACK, DATA, Packet, KindsInv
  <2> QED BY <1>2, <2>1, LastPacketKind
<1>8. Added(toServer', toServer, q)
  BY <1>2, <1>7, SentIsAdded DEF Timeout, Send
<1>9. client[t].next \in Nat /\ (client[t].op = "get" => client[t].next > 0)
  BY DEF KindsInv
<1> HIDE DEF q
<1>10. /\ \A u : u # t => Keeps(toServer', toServer, u)
       /\ \A j \in DOMAIN toServer' :
            toServer'[j] = q \/ \E i \in DOMAIN toServer : toServer'[j] = toServer[i]
       /\ \A b : AtMostTwo(toServer, t, q, b) => AtMostTwo(toServer', t, q, b)
       /\ Only(toServer, t, q) => Only(toServer', t, q)
  BY <1>2, <1>7, <1>8, AddedKeeps
<1>11. Sorted(toServer')
  <2>1. DOMAIN toServer' \subseteq Nat
    BY KindsStep, SMTT(20) DEF KindsInv, Next
  <2> QED BY <1>2, <1>3, <1>6, <1>7, <1>8, <2>1, AddedSorted DEF InTurn
<1>12. \A i \in DOMAIN toServer' : toServer'[i].port >= s
  BY <1>1, <1>3, <1>4, <1>7, <1>10 DEF AtTransfer
<1>13. InTurn'
  BY <1>2, <1>11 DEF InTurn, Ended
<1>14. ASSUME NEW u \in s + 1 .. Transfers PROVE Unheard(u)'
  <2>1. Unheard(u) /\ u \in Ports
    BY <1>1, <1>3 DEF AtTransfer
  <2>2. CASE u = t
    <3>1. PICK kind \in {"get", "put", "bad"} : Asking(t, kind)
      BY <1>2, <2>1, <2>2 DEF Unheard
    <3>2. q = Request(t, kind)
      BY <1>2, <3>1 DEF q, LastPacket, Asking, Request
    <3>3. Asking(t, kind)'
      BY <1>2, <1>10, <3>1, <3>2 DEF Asking
    <3> QED BY <1>2, <2>1, <2>2, <3>3 DEF Unheard
  <2>3. CASE u # t
    <3>1. GivenUp(u) /\ Keeps(toClient', toClient, u) /\ Keeps(toServer', toServer, u)
      BY <1>2, <1>10, <2>3, SameKeeps DEF GivenUp
    <3> QED BY <2>1, <3>1, UnheardStays
  <2> QED BY <2>2, <2>3
<1>15. ASSUME s > 0 PROVE client'[s].op # "idle" /\ Phase(s)'
  <2>1. s \in Ports /\ client'[s].op # "idle" /\ Phase(s)
    BY <1>1, <1>2, <1>3, <1>15 DEF AtTransfer
  <2>2. CASE s # t
    <3>1. GivenUp(s) /\ Keeps(toClient', toClient, s) /\ Keeps(toServer', toServer, s)
      BY <1>2, <1>10, <2>2, SameKeeps DEF GivenUp
    <3> QED BY <1>2, <2>1, <3>1, PhaseStays
  <2>3. CASE s = t
    <3>1. ASSUME NEW m \in 0 .. FileBlocks, NEW n \in 0 .. FileBlocks, UploadingAt(s, m, n)
          PROVE  UploadingAt(s, m, n)'
      <4>1. client[t].op = "put" /\ client[t].next = m /\ m \in Nat
        BY <1>2, <2>3, <3>1, BlocksAssumption DEF UploadingAt
      <4>2. q = Upload(s, m)
        BY <2>3, <4>1 DEF q, LastPacket, Upload
      <4>3. /\ AtMostTwo(toServer', s, Upload(s, m), Upload(s, Before(m)))
            /\ n = m => Only(toServer', s, Upload(s, m))
        BY <1>10, <2>3, <3>1, <4>2 DEF UploadingAt
      <4> QED BY <1>2, <3>1, <4>3 DEF UploadingAt
    <3>2. ASSUME Downloading(s) PROVE Downloading(s)'
      <4>1. client[t].op = "get"
        BY <1>2, <2>3, <3>2 DEF Downloading
      <4>2. q.opcode \in {"RRQ", "ACK"}
        BY <1>9, <4>1 DEF q, LastPacket, RRQ, ACK, Packet
      <4> QED BY <1>2, <1>10, <3>2, <4>2 DEF Downloading, Of
    <3>3. ASSUME Refused(s) PROVE Refused(s)'
      <4>1. q = BadRQ(s)
        BY <1>2, <2>3, <3>3 DEF Refused, q, LastPacket
      <4> QED BY <1>2, <1>10, <3>3, <4>1 DEF Refused, Of
    <3> QED BY <2>1, <3>1, <3>2, <3>3 DEF Phase, Uploading
  <2> QED BY <2>1, <2>2, <2>3
<1>16. AtTransfer(s)'
  BY <1>12, <1>14, <1>15 DEF AtTransfer
<1>17. SuccessIsStored
  BY <1>2 DEF SuccessIsStored, Succeeds
<1> QED BY <1>2, <1>13, <1>16, <1>17 DEF SequenceInv

LEMMA SequenceStep ==
  ASSUME InOrderNetwork, KindsInv, SequenceInv, [Next]_vars
  PROVE  SequenceInv' /\ SuccessIsStored
<1>1. ASSUME NEW p, ServerReceives(p) PROVE SequenceInv' /\ SuccessIsStored
  BY <1>1, ServerKeepsOrder DEF ServerReceives, SuccessIsStored, Succeeds
<1>2. toServer \in Seq(FromClient) /\ toClient \in Seq(Packets) /\ Sorted(toServer)
  BY DEF KindsInv, SequenceInv, InTurn
<1>3. ASSUME NEW t \in Ports, GiveUp(t) PROVE SequenceInv' /\ SuccessIsStored
  <2>1. client \in [Ports -> [op : Ops, next : Nat, got : Seq(Block)]]
    BY DEF KindsInv
  <2>2. \A u \in Ports : GivenUp(u) /\ (Ended(u) => Ended(u)')
    BY <1>3, <2>1 DEF GiveUp, GivenUp, Ended
  <2>3. UNCHANGED server /\ toServer' = toServer /\ toClient' = toClient
    BY <1>3 DEF GiveUp
  <2> QED BY <1>2, <2>2, <2>3, SameKeeps, AsideKeepsOrder
<1>4. ASSUME LoseToServer PROVE SequenceInv' /\ SuccessIsStored
  <2>1. PICK i \in DOMAIN toServer : toServer' = RemoveAt(toServer, i)
    BY <1>4 DEF LoseToServer
  <2>2. Drawn(toServer', toServer, 1)
    BY <1>2, <2>1, RemovedIsDrawn
  <2>3. /\ Sorted(toServer') /\ \A t : Keeps(toServer', toServer, t)
        /\ \A j \in DOMAIN toServer' : \E k \in DOMAIN toServer : toServer'[j] = toServer[k]
    BY <1>2, <2>2, DrawnKeeps, DrawnSorted
  <2>4. UNCHANGED server /\ client' = client /\ toClient' = toClient
    BY <1>4 DEF LoseToServer
  <2>5. \A t \in Ports : GivenUp(t) /\ (Ended(t) => Ended(t)')
    BY <2>4 DEF GivenUp, Ended
  <2> QED BY <2>3, <2>4, <2>5, SameKeeps, AsideKeepsOrder
<1>5. ASSUME LoseToClient PROVE SequenceInv' /\ SuccessIsStored
  <2>1. PICK i \in DOMAIN toClient : toClient' = RemoveAt(toClient, i)
    BY <1>5 DEF LoseToClient
  <2>2. Drawn(toClient', toClient, 1)
    BY <1>2, <2>1, RemovedIsDrawn
  <2>3. \A t : Keeps(toClient', toClient, t)
    BY <1>2, <2>2, DrawnKeeps
  <2>4. UNCHANGED server /\ client' = client /\ toServer' = toServer
    BY <1>5 DEF LoseToClient
  <2>5. \A t \in Ports : GivenUp(t) /\ (Ended(t) => Ended(t)')
    BY <2>4 DEF GivenUp, Ended
  <2> QED BY <1>2, <2>3, <2>4, <2>5, SameKeeps, AsideKeepsOrder
<1>6. CASE UNCHANGED vars
  <2>1. UNCHANGED server /\ client' = client /\ toServer' = toServer /\ toClient' = toClient
    BY <1>6 DEF vars
  <2>2. \A t \in Ports : GivenUp(t) /\ (Ended(t) => Ended(t)')
    BY <2>1 DEF GivenUp, Ended
  <2> QED BY <1>2, <2>1, <2>2, SameKeeps, AsideKeepsOrder
<1> QED BY <1>1, <1>3, <1>4, <1>5, <1>6, ClientKeepsOrder, BeginKeepsOrder, TimeoutKeepsOrder DEF Next

LEMMA SequenceStart == Init => KindsInv /\ SequenceInv
<1> SUFFICES ASSUME Init PROVE KindsInv /\ SequenceInv
  OBVIOUS
<1>1. /\ toServer = <<>> /\ toClient = <<>> /\ lastBlock = 0 /\ cbuf = NoBlock /\ file = Data(0)
      /\ position = 0 /\ client = [t \in Ports |-> [op |-> "idle", next |-> 0, got |-> <<>>]]
      /\ failures = 0
  BY DEF Init
<1>2. Data(0) = Stored(0, FileBlocks) /\ 0 \in 0 .. Transfers /\ FileBlocks \in 0 .. FileBlocks
  BY TransfersAssumption, BlocksAssumption DEF Data, Stored
<1>3. Data(0) \in Seq(Block) /\ IsPrefix(Data(0), Data(0))
  BY <1>2, StoredBlocks
<1>4. \A t \in Ports : client[t] = [op |-> "idle", next |-> 0, got |-> <<>>]
  BY <1>1
<1>5. KindsInv
  <2>1. <<>> \in Seq(FromClient) /\ <<>> \in Seq(Packets) /\ <<>> \in Seq(Block)
        /\ 0 \in 0 .. BlockMod - 1 /\ "idle" \in Ops
    BY BlocksAssumption DEF Ops
  <2>2. [op |-> "idle", next |-> 0, got |-> <<>>] \in [op : Ops, next : Nat, got : Seq(Block)]
    BY <2>1
  <2>3. client \in [Ports -> [op : Ops, next : Nat, got : Seq(Block)]]
    BY <1>1, <2>2
  <2> QED BY <1>1, <1>3, <1>4, <2>1, <2>3 DEF KindsInv
<1>6. DOMAIN toServer = {} /\ DOMAIN toClient = {}
  BY <1>1
<1>7. InTurn
  BY <1>4, <1>6 DEF InTurn, Sorted
<1>8. AtTransfer(0)
  <2>1. \A t \in 0 + 1 .. Transfers : Unheard(t)
    BY <1>4, <1>6 DEF Unheard, Of, Ports
  <2> QED BY <1>6, <2>1 DEF AtTransfer
<1> QED BY <1>1, <1>2, <1>3, <1>5, <1>7, <1>8 DEF SequenceInv, StoredInOrder

(* Over a network that keeps the order of packets, whatever it loses, and  *)
(* with no failing operation, transfers of every kind, given up or not,    *)
(* however many and of whatever size: the file is always the blocks of one *)
(* upload in their order, and when a client takes its upload for           *)
(* successful the file is whole and closed (tftp_recv_callback).           *)
THEOREM PutsKept == ASSUME InOrderNetwork PROVE Spec => PutsAreKept
<1>1. Init => KindsInv /\ SequenceInv
  BY SequenceStart
<1>2. (KindsInv /\ SequenceInv) /\ [Next]_vars => (KindsInv /\ SequenceInv)'
  BY KindsStep, SequenceStep
<1>3. (KindsInv /\ SequenceInv) /\ [Next]_vars => [StoredInOrder' /\ SuccessIsStored]_vars
  BY SequenceStep DEF SequenceInv
<1> QED BY <1>1, <1>2, <1>3, PTL DEF Spec, PutsAreKept
=============================================================================
