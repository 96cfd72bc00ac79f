------------------------- MODULE FileTransferProofs -------------------------
(***************************************************************************)
(* Proofs about FileTransfer, for any number of clients, proxies, binders, *)
(* pieces and requests: what is uploaded stays in the memory of its proxy, *)
(* binders are neither lost nor given twice, and the file of a client that *)
(* was not given up is received as one, from its first piece on.           *)
(***************************************************************************)
EXTENDS FileTransfer, SequenceTheorems, TLAPS

\* Whose files client c may be sent.
Sources(c) == {s \in Clients : <<c, s>> \in Pairs}

DataOf(S) == [command : {"receive_data"}, src : S, total : Sizes, pieces : Seq(Pieces)]

\* The packets of the two links of client c.
ToServer(c) ==
    DataOf({c}) \union [command : {"abort_receive"}, src : {None}]
        \union [command : {"receive_rejected"}, src : Sources(c)]

ToClient(c) ==
    DataOf(Sources(c)) \union [command : {"abort_receive", "e_response"}, src : Sources(c)]
        \union [command : {"receive_rejected"}, src : {None}]
        \union [command : {"GAME_EVENT_MAKE_DATA"}, kind : Kinds]

Up(links) ==
    /\ links = [c \in Clients |-> links[c]]
    /\ \A c \in Clients : links[c] \in Seq(ToServer(c))

Down(links) ==
    /\ links = [c \in Clients |-> links[c]]
    /\ \A c \in Clients : links[c] \in Seq(ToClient(c))

\* A proxy that receives was asked for it, and knows the size with the first piece.
Asked ==
    \A c \in Clients : receivers[c] /= None =>
        LET proxy == proxies[receivers[c].proxy]
        IN /\ <<proxy.admin, c>> \in Pairs
           /\ proxy.file /= <<>> => receivers[c].total \in Nat

\* The parts of the invariant: about the server, the clients, and the rest.
ServerPart ==
    /\ proxies \in [1..Proxies -> Proxy]
    /\ receivers \in [Clients -> Receiver \union {None}]
    /\ uploads \in [Pairs -> Upload \union {None}]
    /\ SourceKept
    /\ Asked

Rest ==
    /\ connected \subseteq Clients /\ cut \subseteq Clients
    /\ collecting \in [Clients -> SUBSET Kinds]
    /\ memory \in [Clients -> Nat]
    /\ sending \in [Clients -> (0..(FileSize - 1)) \union {None}]

BinderPart ==
    /\ downloads \in [Pairs -> Download \union {None}]
    /\ active \in [Clients -> SUBSET (1..Binders)]
    /\ BindersServe

IInv == ServerPart /\ BinderPart /\ Rest /\ Up(toServer) /\ Down(toClient)

-----------------------------------------------------------------------------
(* What the helpers return.                                                *)

LEMMA PairParts ==
  ASSUME NEW p \in Pairs
  PROVE  p[1] \in Clients /\ p[2] \in Clients /\ p = <<p[1], p[2]>>
BY TransferAssumption

LEMMA DataType ==
  ASSUME NEW S, S \subseteq Clients, NEW packet \in DataOf(S)
  PROVE  packet \in DataOf(Clients)
BY DEF DataOf

LEMMA ReceivedType ==
  ASSUME NEW file \in Seq(Pieces), NEW packet \in DataOf(Clients)
  PROVE  /\ Received(file, packet) \in Seq(Pieces)
         /\ Len(Received(file, packet)) >= Len(file)
<1> DEFINE head == IF packet.total /= None /\ file /= <<>> THEN <<Header>> ELSE <<>>
<1>1. Header \in Pieces
  BY DEF Header, Pieces
<1>2. head \in Seq(Pieces)
  BY <1>1
<1> HIDE DEF head
<1>3. packet.pieces \in Seq(Pieces)
  BY DEF DataOf
<1>4. file \o head \in Seq(Pieces) /\ Len(file \o head) = Len(file) + Len(head)
  BY <1>2, ConcatProperties
<1>5. /\ (file \o head) \o packet.pieces \in Seq(Pieces)
      /\ Len((file \o head) \o packet.pieces) = Len(file \o head) + Len(packet.pieces)
  BY <1>3, <1>4, ConcatProperties
<1>6. Len(file) \in Nat /\ Len(head) \in Nat /\ Len(packet.pieces) \in Nat
  BY <1>2, <1>3, LenProperties
<1>7. Received(file, packet) = (file \o head) \o packet.pieces
  BY DEF Received, head
<1>8. \A k, m, n \in Nat : (k + m) + n >= k
  OBVIOUS
<1> QED BY <1>4, <1>5, <1>6, <1>7, <1>8

LEMMA SizesReadType ==
  ASSUME NEW file \in Seq(Pieces), NEW total \in Sizes, NEW packet \in DataOf(Clients)
  PROVE  /\ SizesRead(file, total, packet) \subseteq Sizes
         /\ file = <<>> \/ total \in Nat => SizesRead(file, total, packet) \subseteq Nat
BY TransferAssumption DEF SizesRead, DataOf, Sizes

LEMMA ChunkType ==
  ASSUME NEW file \in Seq(Pieces), NEW sent \in Nat, sent < Len(file), NEW n \in 1..MaxChunk
  PROVE  /\ Chunk(file, sent, n) \in Seq(Pieces)
         /\ Len(Chunk(file, sent, n)) \in Nat
         /\ sent + Len(Chunk(file, sent, n)) <= Len(file)
<1> DEFINE last == IF sent + n < Len(file) THEN sent + n ELSE Len(file)
<1>1. Len(file) \in Nat /\ n \in Nat \ {0} /\ \A i \in 1..Len(file) : file[i] \in Pieces
  BY TransferAssumption, LenProperties, ElementOfSeq
<1>2. last \in Int /\ sent + 1 \in Int /\ sent + 1 <= last /\ last <= Len(file)
  BY <1>1
<1>3. \A i \in (sent + 1)..last : file[i] \in Pieces
  BY <1>1, <1>2
<1>4. /\ SubSeq(file, sent + 1, last) \in Seq(Pieces)
      /\ Len(SubSeq(file, sent + 1, last)) = last - (sent + 1) + 1
  BY <1>2, <1>3, SubSeqProperties
<1> QED BY <1>1, <1>2, <1>4 DEF Chunk

LEMMA SendToDown ==
  ASSUME NEW links, Down(links), NEW c \in Clients, NEW packet \in ToClient(c)
  PROVE  Down(SendTo(links, c, packet))
BY AppendProperties DEF Down, SendTo

LEMMA RemoveAtType ==
  ASSUME NEW S, NEW s \in Seq(S), NEW i \in DOMAIN s
  PROVE  RemoveAt(s, i) \in Seq(S) /\ s[i] \in S
<1>1. i \in 1..Len(s) /\ Len(s) \in Nat /\ \A j \in 1..Len(s) : s[j] \in S
  BY LenProperties, ElementOfSeq
<1>2. SubSeq(s, 1, i - 1) \in Seq(S) /\ SubSeq(s, i + 1, Len(s)) \in Seq(S)
  <2>1. \A j \in 1..(i - 1) : s[j] \in S
    BY <1>1
  <2>2. \A j \in (i + 1)..Len(s) : s[j] \in S
    BY <1>1
  <2> QED BY <1>1, <2>1, <2>2, SubSeqProperties
<1> QED BY <1>1, <1>2, ConcatProperties DEF RemoveAt

-----------------------------------------------------------------------------
(* The packets are what their links carry.                                 *)

LEMMA ClientPackets ==
  ASSUME NEW c \in Clients
  PROVE  /\ \A kind \in Kinds : Request(kind) \in ToClient(c)
         /\ Reject(None) \in ToClient(c)
         /\ \A src \in Sources(c) : Abort(src) \in ToClient(c) /\ Response(src) \in ToClient(c)
         /\ \A src \in Sources(c), total \in Sizes, pieces \in Seq(Pieces) :
               Data(src, total, pieces) \in ToClient(c)
BY DEF Request, Reject, Abort, Response, Data, ToClient, DataOf

LEMMA ServerPackets ==
  ASSUME NEW c \in Clients
  PROVE  /\ \A src \in Sources(c) : Reject(src) \in ToServer(c)
         /\ Abort(None) \in ToServer(c)
         /\ \A total \in Sizes, pieces \in Seq(Pieces) : Data(c, total, pieces) \in ToServer(c)
BY DEF Reject, Abort, Data, ToServer, DataOf

LEMMA FromServer ==
  ASSUME NEW c \in Clients, NEW packet \in ToClient(c)
  PROVE  /\ packet.command = "receive_data" => packet \in DataOf(Clients)
         /\ packet.command \in {"receive_data", "abort_receive", "e_response"} =>
               packet.src \in Sources(c)
         /\ packet.command = "GAME_EVENT_MAKE_DATA" => packet.kind \in Kinds
BY DEF ToClient, DataOf, Sources

LEMMA FromClient ==
  ASSUME NEW c \in Clients, NEW packet \in ToServer(c)
  PROVE  /\ packet.command = "receive_data" => packet \in DataOf(Clients)
         /\ packet.command = "receive_rejected" => packet.src \in Sources(c)
BY DEF ToServer, DataOf, Sources

LEMMA SendUp ==
  ASSUME Up(toServer), NEW c \in Clients, NEW packet \in ToServer(c), Send(c, packet)
  PROVE  Up(toServer')
BY AppendProperties DEF Up, Send

-----------------------------------------------------------------------------
(* The server.                                                             *)

LEMMA MakeDataStep ==
  ASSUME ServerPart, Down(toClient), NEW p \in Pairs, NEW kind \in Kinds, MakeData(p, kind)
  PROVE  ServerPart' /\ Down(toClient')
<1>1. p[1] \in Clients /\ p[2] \in Clients /\ p = <<p[1], p[2]>>
  BY PairParts
<1>2. PICK i \in 1..Proxies :
        /\ i \in Free
        /\ \/ /\ proxies' = [proxies EXCEPT ![i].admin = p[1], ![i].suspect = p[2]]
              /\ UNCHANGED <<receivers, toClient>>
           \/ /\ proxies' = [proxies EXCEPT ![i] = [admin |-> p[1], suspect |-> p[2],
                                                    first |-> TRUE, file |-> <<>>]]
              /\ receivers' = [receivers EXCEPT ![p[2]] = [proxy |-> i, total |-> None]]
              /\ toClient' = SendTo(toClient, p[2], Request(kind))
  BY DEF MakeData, IsLeast
<1>3. uploads' = uploads
  BY DEF MakeData
<1>4. \A c \in Clients : receivers[c] /= None => receivers[c].proxy /= i
  BY <1>2 DEF Free, Active, Receives, ServerPart, SourceKept
<1>5. \A q \in Pairs : uploads[q] /= None => uploads[q].proxy /= i
  BY <1>2 DEF Free, Active, Uploads, ServerPart, SourceKept
<1>6. CASE UNCHANGED <<receivers, toClient>>
            /\ proxies' = [proxies EXCEPT ![i].admin = p[1], ![i].suspect = p[2]]
  <2>1. proxies' \in [1..Proxies -> Proxy]
    <3>1. proxies' = [proxies EXCEPT ![i] = [proxies[i] EXCEPT !.admin = p[1], !.suspect = p[2]]]
      BY <1>6 DEF ServerPart
    <3>2. [proxies[i] EXCEPT !.admin = p[1], !.suspect = p[2]] \in Proxy
      BY <1>1 DEF ServerPart, Proxy
    <3> QED BY <3>1, <3>2 DEF ServerPart
  <2>2. \A j \in 1..Proxies : j /= i => proxies'[j] = proxies[j]
    BY <1>6 DEF ServerPart
  <2>3. SourceKept'
    BY <1>3, <1>4, <1>5, <1>6, <2>2 DEF ServerPart, SourceKept, Receiver, Upload
  <2>4. Asked'
    BY <1>4, <1>6, <2>2 DEF ServerPart, Asked, Receiver
  <2> QED BY <1>3, <1>6, <2>1, <2>3, <2>4 DEF ServerPart
<1>7. CASE /\ proxies' = [proxies EXCEPT ![i] = [admin |-> p[1], suspect |-> p[2],
                                                 first |-> TRUE, file |-> <<>>]]
           /\ receivers' = [receivers EXCEPT ![p[2]] = [proxy |-> i, total |-> None]]
           /\ toClient' = SendTo(toClient, p[2], Request(kind))
  <2>1. proxies' \in [1..Proxies -> Proxy]
    <3>1. [admin |-> p[1], suspect |-> p[2], first |-> TRUE, file |-> <<>>] \in Proxy
      BY <1>1 DEF Proxy
    <3> QED BY <1>7, <3>1 DEF ServerPart
  <2>2. receivers' \in [Clients -> Receiver \union {None}]
    <3>1. [proxy |-> i, total |-> None] \in Receiver
      BY DEF Receiver, Sizes
    <3> QED BY <1>1, <1>7, <3>1 DEF ServerPart
  <2>3. \A j \in 1..Proxies : j /= i => proxies'[j] = proxies[j]
    BY <1>7 DEF ServerPart
  <2>4. /\ proxies'[i].admin = p[1] /\ proxies'[i].suspect = p[2] /\ proxies'[i].file = <<>>
        /\ receivers'[p[2]].proxy = i
        /\ \A c \in Clients : c /= p[2] => receivers'[c] = receivers[c]
    BY <1>1, <1>7 DEF ServerPart
  <2>5. SourceKept'
    BY <1>3, <1>4, <1>5, <2>3, <2>4 DEF ServerPart, SourceKept, Receiver, Upload
  <2>6. Asked'
    BY <1>1, <1>4, <2>3, <2>4 DEF ServerPart, Asked, Receiver
  <2>7. Down(toClient')
    BY <1>1, <1>7, SendToDown, ClientPackets
  <2> QED BY <1>3, <2>1, <2>2, <2>5, <2>6, <2>7 DEF ServerPart
<1> QED BY <1>2, <1>6, <1>7

LEMMA ServerDataStep ==
  ASSUME ServerPart, Down(toClient), cut \subseteq Clients, NEW c \in Clients,
         NEW packet \in DataOf(Clients), ServerData(c, packet)
  PROVE  ServerPart' /\ Down(toClient') /\ cut' \subseteq Clients
<1>1. CASE receivers[c] = None
  <2>1. UNCHANGED server /\ toClient' = SendTo(toClient, c, Reject(None)) /\ cut' = cut \union {c}
    BY <1>1 DEF ServerData
  <2>2. ServerPart'
    BY <2>1 DEF server, ServerPart, SourceKept, Asked
  <2> QED BY <2>1, <2>2, SendToDown, ClientPackets
<1>2. CASE receivers[c] /= None
  <2> DEFINE i == receivers[c].proxy
             p == <<proxies[i].admin, c>>
             file == Received(proxies[i].file, packet)
  <2>1. PICK total \in SizesRead(proxies[i].file, receivers[c].total, packet) :
          /\ receivers' = [receivers EXCEPT
                ![c] = IF Len(file) = total THEN None ELSE [@ EXCEPT !.total = total]]
          /\ proxies' = [proxies EXCEPT ![i].file = file, ![i].first = FALSE]
          /\ toClient' = IF proxies[i].first THEN SendTo(toClient, p[1], Response(c))
                         ELSE toClient
          /\ uploads' = IF proxies[i].first /\ uploads[p] = None
                        THEN [uploads EXCEPT ![p] = [proxy |-> i, sent |-> 0, max |-> total]]
                        ELSE uploads
    BY <1>2 DEF ServerData
  <2>2. cut' = cut
    BY <1>2 DEF ServerData
  <2>3. /\ receivers[c] \in Receiver /\ i \in 1..Proxies /\ receivers[c].total \in Sizes
        /\ proxies[i] \in Proxy /\ proxies[i].file \in Seq(Pieces)
        /\ proxies[i].suspect = c /\ p \in Pairs /\ p[1] \in Clients
        /\ proxies[i].file = <<>> \/ receivers[c].total \in Nat
    BY <1>2, PairParts DEF ServerPart, SourceKept, Asked, Receiver, Proxy
  <2>4. total \in Nat
    BY <2>1, <2>3, SizesReadType
  <2>5. file \in Seq(Pieces) /\ Len(file) >= Len(proxies[i].file)
    BY <2>3, ReceivedType
  <2> HIDE DEF file, p
  <2>6. proxies' \in [1..Proxies -> Proxy]
    BY <2>1, <2>3, <2>5 DEF ServerPart, Proxy
  <2>7. /\ \A j \in 1..Proxies : j /= i => proxies'[j] = proxies[j]
        /\ proxies'[i].file = file
        /\ proxies'[i].admin = proxies[i].admin /\ proxies'[i].suspect = c
    BY <2>1, <2>3 DEF ServerPart, Proxy
  <2>8. /\ receivers' \in [Clients -> Receiver \union {None}]
        /\ \A d \in Clients : d /= c => receivers'[d] = receivers[d]
        /\ receivers'[c] /= None => receivers'[c].proxy = i /\ receivers'[c].total = total
    BY <2>1, <2>3, <2>4 DEF ServerPart, Receiver, Sizes
  <2>9. /\ uploads' \in [Pairs -> Upload \union {None}]
        /\ \A q \in Pairs : \/ uploads'[q] = uploads[q]
                            \/ q = p /\ uploads'[q] = [proxy |-> i, sent |-> 0, max |-> total]
    BY <2>1, <2>3, <2>4 DEF ServerPart, Upload
  <2>10. \A d \in Clients : d /= c /\ receivers[d] /= None => receivers[d].proxy /= i
    BY <2>3 DEF ServerPart, SourceKept
  <2>11. SourceKept'
    <3>1. ASSUME NEW d \in Clients, receivers'[d] /= None
          PROVE  proxies'[receivers'[d].proxy].suspect = d
      BY <2>7, <2>8, <2>10, <3>1 DEF ServerPart, SourceKept, Receiver
    <3>2. ASSUME NEW q \in Pairs, uploads'[q] /= None
          PROVE  /\ q = <<proxies'[uploads'[q].proxy].admin, proxies'[uploads'[q].proxy].suspect>>
                 /\ uploads'[q].sent <= Len(proxies'[uploads'[q].proxy].file)
      <4>1. CASE uploads'[q] = uploads[q]
        <5>1. uploads[q] \in Upload /\ uploads[q].proxy \in 1..Proxies /\ uploads[q].sent \in Nat
          BY <3>2, <4>1 DEF ServerPart, Upload
        <5>2. /\ q = <<proxies[uploads[q].proxy].admin, proxies[uploads[q].proxy].suspect>>
              /\ uploads[q].sent <= Len(proxies[uploads[q].proxy].file)
          BY <3>2, <4>1 DEF ServerPart, SourceKept
        <5>3. Len(proxies[i].file) \in Nat /\ Len(file) \in Nat
          BY <2>3, <2>5, LenProperties
        <5>4. CASE uploads[q].proxy = i
          <6>1. uploads[q].sent <= Len(file)
            BY <2>5, <5>1, <5>2, <5>3, <5>4
          <6> QED BY <2>3, <2>7, <4>1, <5>2, <5>4, <6>1
        <5>5. CASE uploads[q].proxy /= i
          BY <2>7, <4>1, <5>1, <5>2, <5>5
        <5> QED BY <5>4, <5>5
      <4>2. CASE q = p /\ uploads'[q] = [proxy |-> i, sent |-> 0, max |-> total]
        <5>1. Len(file) \in Nat
          BY <2>5, LenProperties
        <5> QED BY <2>7, <4>2, <5>1 DEF p
      <4> QED BY <2>9, <4>1, <4>2
    <3> QED BY <3>1, <3>2 DEF SourceKept
  <2>12. Asked'
    <3> SUFFICES ASSUME NEW d \in Clients, receivers'[d] /= None
                 PROVE  /\ <<proxies'[receivers'[d].proxy].admin, d>> \in Pairs
                        /\ proxies'[receivers'[d].proxy].file /= <<>> => receivers'[d].total \in Nat
      BY DEF Asked
    <3>1. CASE d = c
      BY <2>3, <2>4, <2>7, <2>8, <3>1 DEF p
    <3>2. CASE d /= c
      <4>1. receivers'[d] = receivers[d] /\ receivers[d] /= None  BY <2>8, <3>2
      <4>2. receivers[d].proxy \in 1..Proxies /\ receivers[d].proxy /= i
        BY <2>10, <3>2, <4>1 DEF ServerPart, Receiver
      <4>3. proxies'[receivers[d].proxy] = proxies[receivers[d].proxy]  BY <2>7, <4>2
      <4> QED BY <4>1, <4>3 DEF ServerPart, Asked
    <3> QED BY <3>1, <3>2
  <2>13. Down(toClient')
    <3>1. Response(c) \in ToClient(p[1])
      BY <2>3, ClientPackets DEF Sources, p
    <3> QED BY <2>1, <2>3, <3>1, SendToDown
  <2> QED BY <2>2, <2>6, <2>8, <2>9, <2>11, <2>12, <2>13 DEF ServerPart
<1> QED BY <1>1, <1>2

LEMMA StopReceiveStep ==
  ASSUME ServerPart, Down(toClient), cut \subseteq Clients, NEW c \in Clients,
         StopReceive(c)
  PROVE  ServerPart' /\ Down(toClient') /\ cut' \subseteq Clients
<1>1. /\ receivers' = [receivers EXCEPT ![c] = None]
      /\ UNCHANGED <<proxies, uploads>>
      /\ toClient' \in {toClient, SendTo(toClient, c, Reject(None))}
      /\ cut' = cut \union {c}
  BY DEF StopReceive
<1>2. /\ receivers' \in [Clients -> Receiver \union {None}]
      /\ \A d \in Clients : receivers'[d] /= None => receivers'[d] = receivers[d]
  BY <1>1 DEF ServerPart
<1>3. ServerPart'
  BY <1>1, <1>2 DEF ServerPart, SourceKept, Asked
<1> QED BY <1>1, <1>3, SendToDown, ClientPackets

LEMMA ServerRejectStep ==
  ASSUME ServerPart, Down(toClient), cut \subseteq Clients, NEW c \in Clients,
         NEW packet \in ToServer(c), packet.src \in Sources(c), ServerReject(c, packet)
  PROVE  ServerPart' /\ Down(toClient') /\ cut' \subseteq Clients
<1> DEFINE p == <<c, packet.src>>
<1>1. CASE p \in Pairs /\ uploads[p] /= None
  <2>1. /\ uploads' = [uploads EXCEPT ![p] = None]
        /\ UNCHANGED <<proxies, receivers>>
        /\ toClient' \in {toClient, SendTo(toClient, c, Abort(packet.src))}
        /\ cut' = cut \union {packet.src}
    BY <1>1 DEF ServerReject
  <2>2. /\ uploads' \in [Pairs -> Upload \union {None}]
        /\ \A q \in Pairs : uploads'[q] /= None => uploads'[q] = uploads[q]
    BY <1>1, <2>1 DEF ServerPart
  <2>3. ServerPart'
    BY <2>1, <2>2 DEF ServerPart, SourceKept, Asked
  <2> QED BY <2>1, <2>3, SendToDown, ClientPackets DEF Sources
<1>2. CASE ~ (p \in Pairs /\ uploads[p] /= None)
  <2>1. UNCHANGED <<server, toClient, cut>>
    BY <1>2 DEF ServerReject
  <2> QED BY <2>1 DEF server, ServerPart, SourceKept, Asked
<1> QED BY <1>1, <1>2

LEMMA ServerUpdateStep ==
  ASSUME ServerPart, Down(toClient), NEW p \in Pairs, ServerUpdate(p)
  PROVE  ServerPart' /\ Down(toClient')
<1>1. UNCHANGED <<proxies, receivers>> /\ uploads[p] /= None
  BY DEF ServerUpdate
<1>2. CASE p[1] \notin connected
  <2>1. uploads' = [uploads EXCEPT ![p] = None] /\ toClient' = toClient
    BY <1>2 DEF ServerUpdate
  <2>2. /\ uploads' \in [Pairs -> Upload \union {None}]
        /\ \A q \in Pairs : uploads'[q] /= None => uploads'[q] = uploads[q]
    BY <2>1 DEF ServerPart
  <2> QED BY <1>1, <2>1, <2>2 DEF ServerPart, SourceKept, Asked
<1>3. CASE p[1] \in connected
  <2> DEFINE u == uploads[p]
             file == proxies[u.proxy].file
  <2>1. PICK n \in 1..MaxChunk :
          LET part == Chunk(file, u.sent, n)
              sent == u.sent + Len(part)
          IN /\ toClient' = SendTo(toClient, p[1],
                   Data(p[2], IF u.sent = 0 THEN u.max ELSE None, part))
             /\ uploads' = [uploads EXCEPT
                   ![p] = IF sent = u.max THEN None ELSE [@ EXCEPT !.sent = sent]]
    BY <1>3 DEF ServerUpdate
  <2>2. /\ u \in Upload /\ u.proxy \in 1..Proxies /\ u.sent \in Nat /\ u.max \in Nat
        /\ file \in Seq(Pieces) /\ u.sent < Len(file)
    BY <1>1, <1>3 DEF ServerUpdate, ReadyToSend, ServerPart, Upload, Proxy
  <2> DEFINE part == Chunk(file, u.sent, n)
             sent == u.sent + Len(part)
  <2>3. part \in Seq(Pieces) /\ sent \in Nat /\ sent <= Len(file)
    <3> HIDE DEF u, file
    <3>1. part \in Seq(Pieces) /\ Len(part) \in Nat /\ u.sent + Len(part) <= Len(file)
      BY <2>2, ChunkType
    <3> QED BY <2>2, <3>1
  <2>4. Down(toClient')
    <3>1. p[1] \in Clients /\ p[2] \in Sources(p[1])
      BY PairParts DEF Sources
    <3>2. (IF u.sent = 0 THEN u.max ELSE None) \in Sizes
      BY <2>2 DEF Sizes
    <3> QED BY <2>1, <2>3, <3>1, <3>2, ClientPackets, SendToDown
  <2>5. /\ uploads' \in [Pairs -> Upload \union {None}]
        /\ \A q \in Pairs : q /= p => uploads'[q] = uploads[q]
        /\ uploads'[p] /= None => uploads'[p].proxy = u.proxy /\ uploads'[p].sent = sent
    <3> HIDE DEF sent, part
    <3>1. /\ uploads' = [uploads EXCEPT
                   ![p] = IF sent = u.max THEN None ELSE [@ EXCEPT !.sent = sent]]
      BY <2>1 DEF sent, part
    <3> QED BY <2>2, <2>3, <3>1 DEF ServerPart, Upload
  <2>6. SourceKept'
    <3> HIDE DEF sent
    <3>1. ASSUME NEW q \in Pairs, uploads'[q] /= None
          PROVE  /\ q = <<proxies[uploads'[q].proxy].admin, proxies[uploads'[q].proxy].suspect>>
                 /\ uploads'[q].sent <= Len(proxies[uploads'[q].proxy].file)
      <4>1. CASE q = p
        <5>1. p = <<proxies[u.proxy].admin, proxies[u.proxy].suspect>>
          BY <1>1 DEF ServerPart, SourceKept
        <5> QED BY <2>3, <2>5, <3>1, <4>1, <5>1
      <4>2. CASE q /= p
        BY <2>5, <3>1, <4>2 DEF ServerPart, SourceKept
      <4> QED BY <4>1, <4>2
    <3> QED BY <1>1, <3>1 DEF ServerPart, SourceKept
  <2>7. Asked'
    BY <1>1 DEF ServerPart, Asked
  <2> QED BY <1>1, <2>4, <2>5, <2>6, <2>7 DEF ServerPart
<1> QED BY <1>2, <1>3

-----------------------------------------------------------------------------
(* The clients.                                                            *)

\* A receiver that ends releases its binder, and no other one.
LEMMA ReleaseBinder ==
  ASSUME BinderPart, NEW p \in Pairs, downloads[p] /= None,
         active' = [active EXCEPT ![p[1]] = @ \ {downloads[p].binder}],
         downloads' = [downloads EXCEPT ![p] = None]
  PROVE  BinderPart'
<1>1. p[1] \in Clients
  BY PairParts
<1>2. /\ downloads' \in [Pairs -> Download \union {None}]
      /\ active' \in [Clients -> SUBSET (1..Binders)]
      /\ downloads'[p] = None
      /\ \A q \in Pairs : q /= p => downloads'[q] = downloads[q]
  BY DEF BinderPart
<1>3. ASSUME NEW c \in Clients
      PROVE  active'[c] =
               {downloads'[q].binder : q \in {r \in Pairs : r[1] = c /\ downloads'[r] /= None}}
  <2>1. CASE c = p[1]
    <3>1. active'[c] = active[c] \ {downloads[p].binder}
      BY <1>1, <2>1 DEF BinderPart
    <3>2. \A q \in Pairs : q /= p /\ q[1] = c /\ downloads[q] /= None =>
             downloads[q].binder /= downloads[p].binder
      BY <2>1 DEF BinderPart, BindersServe
    <3>3. active[c] = {downloads[q].binder : q \in {r \in Pairs : r[1] = c /\ downloads[r] /= None}}
      BY DEF BinderPart, BindersServe
    <3> QED BY <1>2, <3>1, <3>2, <3>3
  <2>2. CASE c /= p[1]
    <3>1. active'[c] = active[c]
      BY <1>1, <2>2 DEF BinderPart
    <3>2. active[c] = {downloads[q].binder : q \in {r \in Pairs : r[1] = c /\ downloads[r] /= None}}
      BY DEF BinderPart, BindersServe
    <3> QED BY <1>2, <2>2, <3>1, <3>2
  <2> QED BY <2>1, <2>2
<1>4. BindersServe'
  BY <1>2, <1>3 DEF BinderPart, BindersServe
<1> QED BY <1>2, <1>4 DEF BinderPart

LEMMA StopDownloadStep ==
  ASSUME BinderPart, Up(toServer), cut \subseteq Clients, NEW p \in Pairs,
         downloads[p] /= None, StopDownload(p)
  PROVE  BinderPart' /\ Up(toServer') /\ cut' \subseteq Clients
<1>1. /\ active' = [active EXCEPT ![p[1]] = @ \ {downloads[p].binder}]
      /\ downloads' = [downloads EXCEPT ![p] = None]
      /\ toServer' = toServer \/ Send(p[1], Reject(p[2]))
      /\ cut' = cut \union {p[2]}
  BY DEF StopDownload
<1>2. p[1] \in Clients /\ p[2] \in Clients /\ p[2] \in Sources(p[1])
  BY PairParts DEF Sources
<1>3. BinderPart'
  BY <1>1, ReleaseBinder
<1> QED BY <1>1, <1>2, <1>3, SendUp, ServerPackets

LEMMA OnResponseStep ==
  ASSUME BinderPart, NEW c \in Clients, NEW packet \in ToClient(c),
         packet.src \in Sources(c), OnResponse(c, packet)
  PROVE  BinderPart' /\ UNCHANGED toServer /\ UNCHANGED cut
<1> DEFINE p == <<c, packet.src>>
           free == (1..Binders) \ active[c]
<1>1. p \in Pairs /\ p[1] = c
  BY DEF Sources
<1>2. UNCHANGED <<toServer, cut>>
  BY DEF OnResponse
<1>3. CASE free = {} \/ downloads[p] /= None
  <2>1. UNCHANGED <<downloads, active>>
    BY <1>3 DEF OnResponse
  <2> QED BY <1>2, <2>1 DEF BinderPart, BindersServe
<1>4. CASE ~ (free = {} \/ downloads[p] /= None)
  <2>1. PICK i \in free :
          /\ active' = [active EXCEPT ![c] = @ \union {i}]
          /\ downloads' = [downloads EXCEPT ![p] = [binder |-> i, file |-> <<>>, total |-> None]]
    BY <1>4 DEF OnResponse
  <2>2. downloads[p] = None
    BY <1>4
  <2> HIDE DEF p
  <2>3. /\ [binder |-> i, file |-> <<>>, total |-> None] \in Download
        /\ [binder |-> i, file |-> <<>>, total |-> None] /= None
    <3>1. [binder |-> i, file |-> <<>>, total |-> None] \in Download
      BY DEF Download, Sizes
    <3> QED BY <3>1, NoneAssumption
  <2>4. /\ downloads' \in [Pairs -> Download \union {None}]
        /\ active' \in [Clients -> SUBSET (1..Binders)]
        /\ downloads'[p] /= None /\ downloads'[p].binder = i
        /\ \A q \in Pairs : q /= p => downloads'[q] = downloads[q]
    BY <1>1, <2>1, <2>3 DEF BinderPart
  <2>5. \A q \in Pairs : q[1] = c /\ downloads[q] /= None => downloads[q].binder /= i
    <3>1. i \notin active[c]
      OBVIOUS
    <3> QED BY <3>1 DEF BinderPart, BindersServe
  <2>6. ASSUME NEW d \in Clients
        PROVE  active'[d] =
                 {downloads'[q].binder : q \in {r \in Pairs : r[1] = d /\ downloads'[r] /= None}}
    <3>1. active[d] = {downloads[q].binder : q \in {r \in Pairs : r[1] = d /\ downloads[r] /= None}}
      BY DEF BinderPart, BindersServe
    <3>2. active'[d] = IF d = c THEN active[d] \union {i} ELSE active[d]
      BY <2>1 DEF BinderPart
    <3> QED BY <1>1, <2>2, <2>4, <3>1, <3>2
  <2>7. BindersServe'
    BY <1>1, <2>4, <2>5, <2>6 DEF BinderPart, BindersServe
  <2> QED BY <1>2, <2>4, <2>7 DEF BinderPart
<1> QED BY <1>3, <1>4

LEMMA OnDataStep ==
  ASSUME BinderPart, Up(toServer), cut \subseteq Clients, NEW c \in Clients,
         NEW packet \in DataOf(Clients), packet.src \in Sources(c), OnData(c, packet)
  PROVE  BinderPart' /\ Up(toServer') /\ cut' \subseteq Clients
<1> DEFINE p == <<c, packet.src>>
           d == downloads[p]
<1>1. p \in Pairs /\ p[1] = c /\ packet.src \in Clients
  BY DEF Sources
<1>2. CASE d = None
  <2>1. Send(c, Reject(packet.src)) /\ cut' = cut \union {packet.src} /\ UNCHANGED <<downloads, active>>
    BY <1>2 DEF OnData
  <2> QED BY <1>1, <2>1, SendUp, ServerPackets DEF BinderPart, BindersServe
<1>3. CASE d /= None
  <2>1. UNCHANGED <<toServer, cut>>
    BY <1>3 DEF OnData
  <2>2. d \in Download /\ d.file \in Seq(Pieces) /\ d.total \in Sizes
    BY <1>1, <1>3 DEF BinderPart, Download
  <2> DEFINE file == Received(d.file, packet)
  <2>3. PICK total \in SizesRead(d.file, d.total, packet) :
          \/ /\ downloads' = [downloads EXCEPT ![p] = None]
             /\ active' = [active EXCEPT ![c] = @ \ {d.binder}]
          \/ /\ downloads' = [downloads EXCEPT ![p].file = file, ![p].total = total]
             /\ active' = active
    BY <1>3 DEF OnData
  <2>4. total \in Sizes /\ file \in Seq(Pieces)
    BY <2>2, <2>3, SizesReadType, ReceivedType
  <2> HIDE DEF p, file
  <2>5. CASE /\ downloads' = [downloads EXCEPT ![p] = None]
             /\ active' = [active EXCEPT ![c] = @ \ {d.binder}]
    BY <1>1, <1>3, <2>1, <2>5, ReleaseBinder
  <2>6. CASE /\ downloads' = [downloads EXCEPT ![p].file = file, ![p].total = total]
             /\ active' = active
    <3>1. downloads' = [downloads EXCEPT ![p] = [d EXCEPT !.file = file, !.total = total]]
      BY <1>1, <2>6 DEF BinderPart
    <3> DEFINE more == [d EXCEPT !.file = file, !.total = total]
    <3>2. more \in Download /\ more.binder = d.binder
      BY <2>2, <2>4 DEF Download
    <3>3. more /= None
      BY <3>2, NoneAssumption
    <3> HIDE DEF more
    <3>4. /\ downloads' \in [Pairs -> Download \union {None}]
          /\ \A q \in Pairs : /\ downloads'[q] = None <=> downloads[q] = None
                              /\ downloads'[q] /= None => downloads'[q].binder = downloads[q].binder
      <4>1. downloads' = [downloads EXCEPT ![p] = more]
        BY <3>1 DEF more
      <4> QED BY <1>1, <1>3, <3>2, <3>3, <4>1 DEF BinderPart
    <3>5. BindersServe'
      <4>1. ASSUME NEW e \in Clients
            PROVE  {downloads'[q].binder : q \in {r \in Pairs : r[1] = e /\ downloads'[r] /= None}}
                   = {downloads[q].binder : q \in {r \in Pairs : r[1] = e /\ downloads[r] /= None}}
        BY <3>4
      <4> QED BY <2>6, <3>4, <4>1 DEF BinderPart, BindersServe
    <3> QED BY <2>1, <2>6, <3>4, <3>5 DEF BinderPart
  <2> QED BY <2>3, <2>5, <2>6
<1> QED BY <1>2, <1>3

LEMMA ClientUpdateStep ==
  ASSUME Rest, Up(toServer), NEW c \in Clients, ClientUpdate(c)
  PROVE  Rest' /\ Up(toServer')
<1> DEFINE file == [i \in 1..FileSize |-> <<memory[c], i>>]
<1>1. file \in Seq(Pieces) /\ Len(file) = FileSize /\ FileSize \in Nat
  <2>1. memory[c] \in Nat /\ FileSize \in Nat
    BY TransferAssumption DEF Rest
  <2>2. \A i \in 1..FileSize : <<memory[c], i>> \in Pieces
    BY <2>1 DEF Pieces
  <2> QED BY <2>1, <2>2
<1>2. sending[c] \in 0..(FileSize - 1)
  BY DEF ClientUpdate, Rest
<1> HIDE DEF file
<1>3. PICK n \in 1..MaxChunk :
        LET part == Chunk(file, sending[c], n)
            sent == sending[c] + Len(part)
        IN /\ Send(c, Data(c, IF sending[c] = 0 THEN FileSize ELSE None, part))
           /\ sending' = [sending EXCEPT ![c] = IF sent = FileSize THEN None ELSE sent]
  BY DEF ClientUpdate, file
<1> DEFINE part == Chunk(file, sending[c], n)
           sent == sending[c] + Len(part)
<1>4. part \in Seq(Pieces) /\ sent \in Nat /\ sent <= FileSize
  <2>1. sending[c] \in Nat /\ sending[c] < Len(file)  BY <1>1, <1>2
  <2>2. part \in Seq(Pieces) /\ Len(part) \in Nat /\ sending[c] + Len(part) <= Len(file)
    BY <1>1, <2>1, ChunkType
  <2> QED BY <1>1, <2>1, <2>2
<1>5. (IF sending[c] = 0 THEN FileSize ELSE None) \in Sizes
  BY <1>1 DEF Sizes
<1>6. Up(toServer')
  BY <1>3, <1>4, <1>5, SendUp, ServerPackets
<1>7. sending' \in [Clients -> (0..(FileSize - 1)) \union {None}]
  <2> HIDE DEF sent
  <2>1. sending' = [sending EXCEPT ![c] = IF sent = FileSize THEN None ELSE sent]
    BY <1>3 DEF sent
  <2>2. sent /= FileSize => sent \in 0..(FileSize - 1)
    BY <1>1, <1>4
  <2> QED BY <2>1, <2>2 DEF Rest
<1>8. UNCHANGED <<connected, cut, collecting, memory>>
  BY DEF ClientUpdate
<1> QED BY <1>6, <1>7, <1>8 DEF Rest

LEMMA DisconnectStep ==
  ASSUME IInv, NEW c \in Clients, Disconnect(c)
  PROVE  IInv'
<1>1. /\ UNCHANGED server /\ UNCHANGED memory
      /\ connected' = connected \ {c} /\ cut' = cut \union {c}
      /\ collecting' = [collecting EXCEPT ![c] = {}]
      /\ sending' = [sending EXCEPT ![c] = None]
      /\ downloads' = [p \in Pairs |-> IF p[1] = c THEN None ELSE downloads[p]]
      /\ active' = [active EXCEPT ![c] = {}]
      /\ toServer' = [toServer EXCEPT ![c] = <<>>]
      /\ toClient' = [toClient EXCEPT ![c] = <<>>]
  BY DEF Disconnect
<1>2. ServerPart'
  BY <1>1 DEF IInv, server, ServerPart, SourceKept, Asked
<1>3. Rest'
  BY <1>1 DEF IInv, Rest
<1>4. Up(toServer') /\ Down(toClient')
  <2>1. <<>> \in Seq(ToServer(c)) /\ <<>> \in Seq(ToClient(c))
    OBVIOUS
  <2>2. toServer' = [d \in Clients |-> IF d = c THEN <<>> ELSE toServer[d]]
    BY <1>1 DEF IInv, Up
  <2>3. toClient' = [d \in Clients |-> IF d = c THEN <<>> ELSE toClient[d]]
    BY <1>1 DEF IInv, Down
  <2>4. \A d \in Clients : /\ toServer'[d] \in Seq(ToServer(d))
                          /\ toClient'[d] \in Seq(ToClient(d))
    BY <2>1, <2>2, <2>3 DEF IInv, Up, Down
  <2> QED BY <2>2, <2>3, <2>4 DEF Up, Down
<1>5. /\ downloads' \in [Pairs -> Download \union {None}]
      /\ active' \in [Clients -> SUBSET (1..Binders)]
  BY <1>1 DEF IInv, BinderPart
<1>6. ASSUME NEW d \in Clients
      PROVE  active'[d] =
               {downloads'[q].binder : q \in {r \in Pairs : r[1] = d /\ downloads'[r] /= None}}
  <2>1. CASE d = c
    <3>1. {r \in Pairs : r[1] = d /\ downloads'[r] /= None} = {}
      BY <1>1, <2>1
    <3> QED BY <1>1, <2>1, <3>1 DEF IInv, BinderPart
  <2>2. CASE d /= c
    <3>1. active'[d] = active[d]
      BY <1>1, <2>2 DEF IInv, BinderPart
    <3>2. \A r \in Pairs : r[1] = d => downloads'[r] = downloads[r]
      BY <1>1, <2>2
    <3>3. active[d] = {downloads[q].binder : q \in {r \in Pairs : r[1] = d /\ downloads[r] /= None}}
      BY DEF IInv, BinderPart, BindersServe
    <3> QED BY <3>1, <3>2, <3>3
  <2> QED BY <2>1, <2>2
<1>7. BindersServe'
  BY <1>1, <1>6 DEF IInv, BinderPart, BindersServe
<1> QED BY <1>2, <1>3, <1>4, <1>5, <1>7 DEF IInv, BinderPart

-----------------------------------------------------------------------------
(* The invariant.                                                          *)

LEMMA InitIInv == Init => IInv
<1> SUFFICES ASSUME Init PROVE IInv
  OBVIOUS
<1>1. ServerPart
  <2>1. [admin |-> None, suspect |-> None, first |-> FALSE, file |-> <<>>] \in Proxy
    BY DEF Proxy
  <2> QED BY <2>1 DEF Init, ServerPart, SourceKept, Asked
<1>2. BinderPart
  <2>1. \A c \in Clients :
          active[c] = {downloads[q].binder : q \in {r \in Pairs : r[1] = c /\ downloads[r] /= None}}
    BY DEF Init
  <2> QED BY <2>1 DEF Init, BinderPart, BindersServe
<1>3. Rest /\ Up(toServer) /\ Down(toClient)
  BY DEF Init, Rest, Up, Down
<1> QED BY <1>1, <1>2, <1>3 DEF IInv

\* What a step does not touch stays as it is.
LEMMA ServerSame == ServerPart /\ UNCHANGED server => ServerPart'
BY DEF server, ServerPart, SourceKept, Asked

LEMMA BinderSame == BinderPart /\ UNCHANGED <<downloads, active>> => BinderPart'
BY DEF BinderPart, BindersServe

LEMMA ServerDeliverStep ==
  ASSUME IInv, NEW c \in Clients, ServerDeliver(c)
  PROVE  IInv'
<1> DEFINE packet == Head(toServer[c])
<1>1. packet \in ToServer(c) /\ Tail(toServer[c]) \in Seq(ToServer(c))
  BY HeadTailProperties DEF IInv, Up, ServerDeliver
<1>2. Up(toServer')
  BY <1>1 DEF ServerDeliver, IInv, Up
<1>3. UNCHANGED <<connected, collecting, memory, sending, downloads, active>>
  BY DEF ServerDeliver, client
<1>4. /\ packet.command = "receive_data" => packet \in DataOf(Clients)
      /\ packet.command = "receive_rejected" => packet.src \in Sources(c)
  BY <1>1, FromClient
<1>5. ServerPart' /\ Down(toClient') /\ cut' \subseteq Clients
  <2>1. ServerPart /\ Down(toClient) /\ cut \subseteq Clients
    BY DEF IInv, Rest
  <2>2. CASE packet.command = "receive_data" /\ ServerData(c, packet)
    BY <1>4, <2>1, <2>2, ServerDataStep
  <2>3. CASE packet.command = "abort_receive" /\ ServerAbort(c)
    BY <2>1, <2>3, StopReceiveStep, ServerSame DEF ServerAbort
  <2>4. CASE packet.command = "receive_rejected" /\ ServerReject(c, packet)
    BY <1>1, <1>4, <2>1, <2>4, ServerRejectStep
  <2> QED BY <2>2, <2>3, <2>4 DEF ServerDeliver
<1>6. BinderPart'
  BY <1>3, BinderSame DEF IInv
<1>7. Rest'
  BY <1>3, <1>5 DEF IInv, Rest
<1> QED BY <1>2, <1>5, <1>6, <1>7 DEF IInv

LEMMA ClientDeliverStep ==
  ASSUME IInv, NEW c \in Clients, ClientDeliver(c)
  PROVE  IInv'
<1>1. PICK i \in Arriving(toClient[c]) :
        LET packet == toClient[c][i]
        IN /\ toClient' = [toClient EXCEPT ![c] = RemoveAt(@, i)]
           /\ \/ packet.command = "GAME_EVENT_MAKE_DATA" /\ OnRequest(c, packet)
              \/ packet.command = "e_response" /\ OnResponse(c, packet)
              \/ packet.command = "receive_data" /\ OnData(c, packet)
              \/ packet.command = "abort_receive" /\ OnAbort(c, packet)
              \/ packet.command = "receive_rejected" /\ OnReject(c)
  BY DEF ClientDeliver
<1> DEFINE packet == toClient[c][i]
<1>2. i \in DOMAIN toClient[c] /\ toClient[c] \in Seq(ToClient(c))
  BY DEF Arriving, IInv, Down
<1>3. packet \in ToClient(c) /\ RemoveAt(toClient[c], i) \in Seq(ToClient(c))
  BY <1>2, RemoveAtType
<1>4. Down(toClient')
  BY <1>1, <1>3 DEF IInv, Down
<1>5. UNCHANGED server /\ UNCHANGED connected
  BY DEF ClientDeliver
<1>6. /\ packet.command = "receive_data" => packet \in DataOf(Clients)
      /\ packet.command \in {"receive_data", "abort_receive", "e_response"} =>
            packet.src \in Sources(c)
      /\ packet.command = "GAME_EVENT_MAKE_DATA" => packet.kind \in Kinds
  BY <1>3, FromServer
<1>7. BinderPart /\ Up(toServer) /\ cut \subseteq Clients
  BY DEF IInv, Rest
<1>8. BinderPart' /\ Up(toServer') /\ Rest'
  <2>1. CASE packet.command = "GAME_EVENT_MAKE_DATA" /\ OnRequest(c, packet)
    <3>1. /\ UNCHANGED <<memory, sending, downloads, active, toServer, cut>>
          /\ collecting' = [collecting EXCEPT ![c] = @ \union {packet.kind}]
      BY <2>1 DEF OnRequest
    <3>2. Rest'
      BY <1>5, <1>6, <2>1, <3>1 DEF IInv, Rest
    <3> QED BY <1>7, <3>1, <3>2, BinderSame
  <2>2. CASE packet.command = "e_response" /\ OnResponse(c, packet)
    <3>1. BinderPart' /\ UNCHANGED toServer /\ UNCHANGED cut
      BY <1>3, <1>6, <1>7, <2>2, OnResponseStep
    <3>2. UNCHANGED <<collecting, memory, sending>>
      BY <2>2 DEF OnResponse
    <3> QED BY <1>5, <1>7, <3>1, <3>2 DEF IInv, Rest
  <2>3. CASE packet.command = "receive_data" /\ OnData(c, packet)
    <3>1. BinderPart' /\ Up(toServer') /\ cut' \subseteq Clients
      BY <1>6, <1>7, <2>3, OnDataStep
    <3>2. UNCHANGED <<collecting, memory, sending>>
      BY <2>3 DEF OnData
    <3> QED BY <1>5, <3>1, <3>2 DEF IInv, Rest
  <2>4. CASE packet.command = "abort_receive" /\ OnAbort(c, packet)
    <3> DEFINE p == <<c, packet.src>>
    <3>1. p \in Pairs
      BY <1>6, <2>4 DEF Sources
    <3>2. \/ downloads[p] /= None /\ StopDownload(p)
          \/ UNCHANGED <<downloads, active, toServer, cut>>
      BY <2>4 DEF OnAbort
    <3>3. BinderPart' /\ Up(toServer') /\ cut' \subseteq Clients
      BY <1>7, <3>1, <3>2, StopDownloadStep, BinderSame
    <3>4. UNCHANGED <<collecting, memory, sending>>
      BY <2>4 DEF OnAbort
    <3> QED BY <1>5, <3>3, <3>4 DEF IInv, Rest
  <2>5. CASE packet.command = "receive_rejected" /\ OnReject(c)
    <3>1. /\ UNCHANGED <<collecting, memory, downloads, active>>
          /\ cut' = cut \union {c}
          /\ \/ UNCHANGED <<sending, toServer>>
             \/ sending' = [sending EXCEPT ![c] = None] /\ Send(c, Abort(None))
      BY <2>5 DEF OnReject
    <3>2. Up(toServer')
      BY <1>7, <3>1, SendUp, ServerPackets
    <3>3. Rest'
      BY <1>5, <3>1 DEF IInv, Rest
    <3> QED BY <1>7, <3>1, <3>2, <3>3, BinderSame
  <2> QED BY <1>1, <2>1, <2>2, <2>3, <2>4, <2>5
<1>9. ServerPart'
  BY <1>5, ServerSame DEF IInv
<1> QED BY <1>4, <1>8, <1>9 DEF IInv

LEMMA Step == IInv /\ [Next]_vars => IInv'
<1> SUFFICES ASSUME IInv, [Next]_vars PROVE IInv'
  OBVIOUS
<1>1. CASE \E p \in Pairs, kind \in Kinds : MakeData(p, kind)
  <2>1. PICK p \in Pairs, kind \in Kinds : MakeData(p, kind)
    BY <1>1
  <2>2. ServerPart' /\ Down(toClient')
    BY <2>1, MakeDataStep DEF IInv
  <2>3. UNCHANGED <<connected, client, toServer, cut>>
    BY <2>1 DEF MakeData
  <2> QED BY <2>2, <2>3, BinderSame DEF IInv, client, Rest, Up
<1>2. CASE \E p \in Pairs : ServerUpdate(p)
  <2>1. PICK p \in Pairs : ServerUpdate(p)
    BY <1>2
  <2>2. ServerPart' /\ Down(toClient')
    BY <2>1, ServerUpdateStep DEF IInv
  <2>3. UNCHANGED <<connected, client, toServer, cut>>
    BY <2>1 DEF ServerUpdate
  <2> QED BY <2>2, <2>3, BinderSame DEF IInv, client, Rest, Up
<1>3. CASE \E p \in Pairs : ClientTimeout(p)
  <2>1. PICK p \in Pairs : ClientTimeout(p)
    BY <1>3
  <2>2. BinderPart' /\ Up(toServer') /\ cut' \subseteq Clients
    BY <2>1, StopDownloadStep DEF ClientTimeout, IInv, Rest
  <2>3. UNCHANGED <<server, connected, collecting, memory, sending, toClient>>
    BY <2>1 DEF ClientTimeout
  <2> QED BY <2>2, <2>3, ServerSame DEF IInv, Rest, Down
<1>4. ASSUME NEW c \in Clients, ServerTimeout(c)
      PROVE  IInv'
  <2>1. ServerPart' /\ Down(toClient') /\ cut' \subseteq Clients
    BY <1>4, StopReceiveStep DEF ServerTimeout, IInv, Rest
  <2>2. UNCHANGED <<connected, client, toServer>>
    BY <1>4 DEF ServerTimeout
  <2> QED BY <2>1, <2>2, BinderSame DEF IInv, client, Rest, Up
<1>5. ASSUME NEW c \in Clients, ClientUpdate(c)
      PROVE  IInv'
  <2>1. Rest' /\ Up(toServer')
    BY <1>5, ClientUpdateStep DEF IInv
  <2>2. UNCHANGED <<server, downloads, active, toClient>>
    BY <1>5 DEF ClientUpdate
  <2> QED BY <2>1, <2>2, ServerSame, BinderSame DEF IInv, Down
<1>6. ASSUME NEW c \in Clients, NEW kind \in Kinds, SendCollectedData(c, kind)
      PROVE  IInv'
  <2>1. /\ collecting' = [collecting EXCEPT ![c] = @ \ {kind}]
        /\ \/ /\ memory' = [memory EXCEPT ![c] = @ + 1]
              /\ sending' = [sending EXCEPT ![c] = IF @ = None THEN 0 ELSE @]
              /\ UNCHANGED cut
           \/ cut' = cut \union {c} /\ UNCHANGED <<memory, sending>>
        /\ UNCHANGED <<server, connected, downloads, active, toServer, toClient>>
    BY <1>6 DEF SendCollectedData
  <2>2. Rest'
    <3>1. CASE cut' = cut \union {c} /\ UNCHANGED <<memory, sending>>
      BY <2>1, <3>1, TransferAssumption DEF IInv, Rest
    <3>2. CASE /\ memory' = [memory EXCEPT ![c] = @ + 1]
               /\ sending' = [sending EXCEPT ![c] = IF @ = None THEN 0 ELSE @]
               /\ UNCHANGED cut
      BY <2>1, <3>2, TransferAssumption DEF IInv, Rest
    <3> QED BY <2>1, <3>1, <3>2
  <2> QED BY <2>1, <2>2, ServerSame, BinderSame DEF IInv, Up, Down
<1>7. CASE UNCHANGED vars
  BY <1>7, ServerSame, BinderSame DEF vars, client, IInv, Rest, Up, Down
<1> QED BY <1>1, <1>2, <1>3, <1>4, <1>5, <1>6, <1>7, ServerDeliverStep, ClientDeliverStep,
           DisconnectStep DEF Next

THEOREM Invariance == Spec => []IInv
<1> QED BY InitIInv, Step, PTL DEF Spec

\* The variables keep their types, whatever the number of requests.
THEOREM TypeCorrect == Spec => []TypeOK
<1>1. IInv => TypeOK
  BY DEF IInv, ServerPart, BinderPart, Rest, TypeOK
<1> QED BY <1>1, Invariance, PTL

\* No request takes the memory of a proxy that is received or uploaded, and an
\* upload is never ahead of what was received.
THEOREM SourceIsKept == Spec => []SourceKept
<1>1. IInv => SourceKept
  BY DEF IInv, ServerPart
<1> QED BY <1>1, Invariance, PTL

\* The active binders of a client are those of its receivers, one each.
THEOREM BindersAreKept == Spec => []BindersServe
<1>1. IInv => BindersServe
  BY DEF IInv, BinderPart
<1> QED BY <1>1, Invariance, PTL

-----------------------------------------------------------------------------
(* What is on its way of a file.                                           *)

\* A packet of data is a part of a file, and the first one has its size.
FileOf(packet) == packet.pieces[1][1]
StartOf(packet) == packet.pieces[1][2] - 1
EndOf(packet) ==
    LET last == StartOf(packet) + Len(packet.pieces)
    IN IF last = FileSize THEN 0 ELSE last

PartOK(packet) ==
    /\ packet.pieces /= <<>>
    /\ StartOf(packet) >= 0 /\ StartOf(packet) + Len(packet.pieces) <= FileSize
    /\ \A i \in DOMAIN packet.pieces : packet.pieces[i] = <<FileOf(packet), StartOf(packet) + i>>
    /\ packet.total = IF StartOf(packet) = 0 THEN FileSize ELSE None

\* Which packets of a link are data of client s.
DataAt(link, s) == {i \in DOMAIN link : link[i].command = "receive_data" /\ link[i].src = s}

\* After n pieces of file f the packet goes on with that file, or begins one.
Follows(packet, f, n) == StartOf(packet) = n /\ (n /= 0 => FileOf(packet) = f)

\* The data of s on the link go from place n of file f to place m of file g.
Stream(link, s, f, n, g, m) ==
    LET data == DataAt(link, s)
    IN /\ \A i \in data : PartOK(link[i])
       /\ \A i \in data : (\A j \in data : i <= j) => Follows(link[i], f, n)
       /\ \A i, j \in data : (i < j /\ \A k \in data : k <= i \/ j <= k) =>
             Follows(link[j], FileOf(link[i]), EndOf(link[i]))
       /\ \A i \in data : (\A j \in data : j <= i) =>
             EndOf(link[i]) = m /\ (m /= 0 => FileOf(link[i]) = g)
       /\ data = {} => n = m /\ (m /= 0 => f = g)

\* The data of s on the link are of one file at most: none follow its end.
OneFile(link, s) ==
    \A i \in DataAt(link, s) : EndOf(link[i]) = 0 => \A j \in DataAt(link, s) : j <= i

\* The first pieces of file f.
Prefix(file, f) == \A i \in DOMAIN file : file[i] = <<f, i>>

FirstOf(file) == IF file = <<>> THEN 0 ELSE file[1][1]

RequestsOn(link) == {i \in DOMAIN link : link[i].command = "GAME_EVENT_MAKE_DATA"}

OneRequest(link) == \E i \in RequestsOn(link) : \A j \in RequestsOn(link) : j = i

\* What the server does not receive from a client is not on its way either.
Nothing(c) ==
    /\ RequestsOn(toClient[c]) = {} /\ collecting[c] = {}
    /\ sending[c] = None /\ DataAt(toServer[c], c) = {}

\* The client is asked for a file, or collects it.
Waiting(c, file) ==
    /\ file = <<>> /\ sending[c] = None /\ DataAt(toServer[c], c) = {}
    /\ \/ collecting[c] = {} /\ OneRequest(toClient[c])
       \/ RequestsOn(toClient[c]) = {} /\ \E kind \in Kinds : collecting[c] = {kind}

\* One file is on its way: what was received, what is on the link and what is
\* to be sent of it follow each other.
Underway(c, file, total) ==
    /\ RequestsOn(toClient[c]) = {} /\ collecting[c] = {}
    /\ Beginning(file, total)
    /\ Stream(toServer[c], c, FirstOf(file), Len(file), memory[c],
              IF sending[c] = None THEN 0 ELSE sending[c])
    /\ OneFile(toServer[c], c)
    /\ sending[c] = 0 => DataAt(toServer[c], c) = {}
    /\ sending[c] = None => DataAt(toServer[c], c) /= {}

Incoming(c) ==
    /\ receivers[c] = None => Nothing(c)
    /\ receivers[c] /= None =>
          LET file == proxies[receivers[c].proxy].file
          IN Waiting(c, file) \/ Underway(c, file, receivers[c].total)

\* An upload is of one file, and what the administrator has, what is on the link
\* and what is to be uploaded follow each other.
Outgoing(p) ==
    LET u == uploads[p]
        d == downloads[p]
        file == proxies[u.proxy].file
        f == IF d = None THEN 0 ELSE FirstOf(d.file)
        n == IF d = None THEN 0 ELSE Len(d.file)
    IN /\ u /= None =>
             /\ u.max = FileSize /\ u.sent < FileSize
             /\ file /= <<>> /\ Prefix(file, FirstOf(file)) /\ Len(file) <= FileSize
       /\ d /= None => Beginning(d.file, d.total)
       /\ p[1] \in connected =>
             Stream(toClient[p[1]], p[2], f, n,
                    IF u = None THEN 0 ELSE FirstOf(file), IF u = None THEN 0 ELSE u.sent)

Carried ==
    /\ Clients \ connected \subseteq cut
    /\ \A c \in Clients \ cut : Incoming(c)
    /\ \A p \in Pairs : p[2] \notin cut => Outgoing(p)
    /\ \A p \in Pairs : p[1] \notin connected => downloads[p] = None /\ toClient[p[1]] = <<>>

-----------------------------------------------------------------------------
(* Links and the data on them.                                             *)

\* The link l is link without its place i, or with one packet more.
Removed(l, link, i) ==
    /\ Len(link) \in Nat /\ i \in 1..Len(link) /\ Len(l) = Len(link) - 1
    /\ DOMAIN l = 1..Len(l) /\ DOMAIN link = 1..Len(link)
    /\ \A k \in 1..Len(l) : l[k] = IF k < i THEN link[k] ELSE link[k + 1]

Added(l, link, packet) ==
    /\ Len(link) \in Nat /\ Len(l) = Len(link) + 1
    /\ DOMAIN l = 1..Len(l) /\ DOMAIN link = 1..Len(link)
    /\ \A k \in 1..Len(link) : l[k] = link[k]
    /\ l[Len(l)] = packet

LEMMA RemoveAtRemoves ==
  ASSUME NEW S, NEW s \in Seq(S), NEW i \in DOMAIN s
  PROVE  Removed(RemoveAt(s, i), s, i)
<1>1. i \in 1..Len(s) /\ Len(s) \in Nat /\ DOMAIN s = 1..Len(s) /\ \A j \in 1..Len(s) : s[j] \in S
  BY LenProperties, ElementOfSeq
<1> DEFINE a == SubSeq(s, 1, i - 1)
           b == SubSeq(s, i + 1, Len(s))
<1>2. /\ a \in Seq(S) /\ Len(a) = i - 1
      /\ \A k \in 1..(i - 1) : a[k] = s[k]
  <2>1. \A j \in 1..(i - 1) : s[j] \in S  BY <1>1
  <2>2. \A k \in 1..((i - 1) - 1 + 1) : SubSeq(s, 1, i - 1)[k] = s[1 + k - 1]
    BY <1>1, <2>1, SubSeqProperties
  <2>3. a \in Seq(S) /\ Len(a) = IF 1 <= i - 1 THEN (i - 1) - 1 + 1 ELSE 0
    BY <1>1, <2>1, SubSeqProperties
  <2> QED  BY <1>1, <2>2, <2>3
<1>3. /\ b \in Seq(S) /\ Len(b) = Len(s) - i
      /\ \A k \in 1..(Len(s) - i) : b[k] = s[k + i]
  <2>1. \A j \in (i + 1)..Len(s) : s[j] \in S  BY <1>1
  <2>2. \A k \in 1..(Len(s) - (i + 1) + 1) : SubSeq(s, i + 1, Len(s))[k] = s[(i + 1) + k - 1]
    BY <1>1, <2>1, SubSeqProperties
  <2>3. b \in Seq(S) /\ Len(b) = IF i + 1 <= Len(s) THEN Len(s) - (i + 1) + 1 ELSE 0
    BY <1>1, <2>1, SubSeqProperties
  <2> QED  BY <1>1, <2>2, <2>3
<1> HIDE DEF a, b
<1>4. RemoveAt(s, i) = a \o b  BY DEF RemoveAt, a, b
<1>5. /\ a \o b \in Seq(S) /\ Len(a \o b) = Len(a) + Len(b)
      /\ \A k \in 1..(Len(a) + Len(b)) : (a \o b)[k] = IF k <= Len(a) THEN a[k] ELSE b[k - Len(a)]
  BY <1>2, <1>3, ConcatProperties
<1>6. Len(a \o b) = Len(s) - 1 /\ DOMAIN (a \o b) = 1..Len(a \o b)
  BY <1>1, <1>2, <1>3, <1>5, LenProperties
<1>7. ASSUME NEW k \in 1..(Len(s) - 1)
      PROVE  (a \o b)[k] = IF k < i THEN s[k] ELSE s[k + 1]
  <2>1. k \in 1..(Len(a) + Len(b))  BY <1>1, <1>2, <1>3
  <2>2. CASE k < i
    <3>1. k <= Len(a) /\ k \in 1..(i - 1)  BY <1>1, <1>2, <2>2
    <3> QED  BY <1>2, <1>5, <2>1, <2>2, <3>1
  <2>3. CASE ~ k < i
    <3>1. ~ k <= Len(a) /\ k - Len(a) \in 1..(Len(s) - i) /\ (k - Len(a)) + i = k + 1
      BY <1>1, <1>2, <2>3
    <3> QED  BY <1>3, <1>5, <2>1, <2>3, <3>1
  <2> QED  BY <2>2, <2>3
<1> QED  BY <1>1, <1>4, <1>6, <1>7 DEF Removed

LEMMA TailRemoves ==
  ASSUME NEW S, NEW s \in Seq(S), s /= <<>>
  PROVE  Removed(Tail(s), s, 1) /\ Head(s) = s[1] /\ 1 \in DOMAIN s
<1>1. /\ Tail(s) \in Seq(S) /\ Len(Tail(s)) = Len(s) - 1
      /\ \A k \in 1..Len(Tail(s)) : Tail(s)[k] = s[k + 1]
  BY HeadTailProperties
<1>2. Len(s) \in Nat /\ Len(s) >= 1 /\ DOMAIN s = 1..Len(s) /\ DOMAIN Tail(s) = 1..Len(Tail(s))
  BY <1>1, EmptySeq, LenProperties
<1>3. Head(s) = s[1]  OBVIOUS
<1> QED  BY <1>1, <1>2, <1>3 DEF Removed

LEMMA AppendAdds ==
  ASSUME NEW S, NEW s \in Seq(S), NEW packet \in S
  PROVE  Added(Append(s, packet), s, packet)
BY AppendProperties, LenProperties DEF Added

\* The same data of src are on both links, in the same order.
SameData(link, l, src) ==
    \E h \in [DataAt(link, src) -> DataAt(l, src)] :
        /\ \A k \in DataAt(l, src) : \E i \in DataAt(link, src) : h[i] = k
        /\ \A i \in DataAt(link, src) : l[h[i]] = link[i]
        /\ \A i, j \in DataAt(link, src) : i <= j <=> h[i] <= h[j]
        /\ \A i, j \in DataAt(link, src) : i < j <=> h[i] < h[j]

OfData(packet, src) == packet.command = "receive_data" /\ packet.src = src

LEMMA EqualSame == ASSUME NEW link, NEW src PROVE SameData(link, link, src)
<1> DEFINE h == [i \in DataAt(link, src) |-> i]
<1>1. h \in [DataAt(link, src) -> DataAt(link, src)]  OBVIOUS
<1>2. \A i \in DataAt(link, src) : h[i] = i  OBVIOUS
<1> QED  BY <1>1, <1>2 DEF SameData

LEMMA AddedSame ==
  ASSUME NEW link, NEW l, NEW packet, NEW src, Added(l, link, packet), ~ OfData(packet, src)
  PROVE  SameData(link, l, src)
<1>1. DataAt(l, src) = DataAt(link, src)
  BY DEF Added, OfData, DataAt
<1>2. \A i \in DataAt(link, src) : l[i] = link[i]
  BY DEF Added, DataAt
<1> DEFINE h == [i \in DataAt(link, src) |-> i]
<1>3. h \in [DataAt(link, src) -> DataAt(l, src)]  BY <1>1
<1>4. \A i \in DataAt(link, src) : h[i] = i  OBVIOUS
<1> QED  BY <1>1, <1>2, <1>3, <1>4 DEF SameData

LEMMA RemovedSame ==
  ASSUME NEW link, NEW l, NEW i, NEW src, Removed(l, link, i), ~ OfData(link[i], src)
  PROVE  SameData(link, l, src)
<1> DEFINE h == [j \in DataAt(link, src) |-> IF j < i THEN j ELSE j - 1]
<1>1. ASSUME NEW j \in DataAt(link, src)
      PROVE  /\ j \in Int /\ j /= i
             /\ h[j] = (IF j < i THEN j ELSE j - 1) /\ h[j] \in DataAt(l, src) /\ l[h[j]] = link[j]
  <2>1. j \in 1..Len(link) /\ j /= i /\ OfData(link[j], src)
    BY DEF DataAt, OfData, Removed
  <2>2. CASE j < i
    <3>1. j \in 1..Len(l) /\ l[j] = link[j]  BY <2>1, <2>2 DEF Removed
    <3> QED  BY <2>1, <2>2, <3>1 DEF DataAt, OfData, Removed
  <2>3. CASE ~ j < i
    <3>1. j - 1 \in 1..Len(l) /\ ~ j - 1 < i /\ (j - 1) + 1 = j  BY <2>1, <2>3 DEF Removed
    <3>2. l[j - 1] = link[j]  BY <3>1 DEF Removed
    <3> QED  BY <2>1, <2>3, <3>1, <3>2 DEF DataAt, OfData, Removed
  <2> QED  BY <2>2, <2>3
<1>2. ASSUME NEW k \in DataAt(l, src) PROVE \E j \in DataAt(link, src) : h[j] = k
  <2>1. k \in 1..Len(l) /\ OfData(l[k], src)  BY DEF DataAt, OfData, Removed
  <2>2. CASE k < i
    <3>1. k \in DataAt(link, src)  BY <2>1, <2>2 DEF DataAt, OfData, Removed
    <3> QED  BY <2>2, <3>1
  <2>3. CASE ~ k < i
    <3>1. k + 1 \in DOMAIN link /\ ~ k + 1 < i /\ (k + 1) - 1 = k  BY <2>1, <2>3 DEF Removed
    <3>2. l[k] = link[k + 1]  BY <2>1, <2>3 DEF Removed
    <3>3. k + 1 \in DataAt(link, src)  BY <2>1, <3>1, <3>2 DEF DataAt, OfData
    <3> QED  BY <3>1, <3>3
  <2> QED  BY <2>2, <2>3
<1>3. h \in [DataAt(link, src) -> DataAt(l, src)]
  BY <1>1
<1> HIDE DEF h
<1>4. i \in Int  BY DEF Removed
<1>5. \A j, k \in DataAt(link, src) : (j <= k <=> h[j] <= h[k]) /\ (j < k <=> h[j] < h[k])
  BY <1>1, <1>4
<1> QED  BY <1>1, <1>2, <1>3, <1>5 DEF SameData

LEMMA SameEmpty ==
  ASSUME NEW link, NEW l, NEW src, SameData(link, l, src)
  PROVE  DataAt(link, src) = {} <=> DataAt(l, src) = {}
BY DEF SameData

LEMMA SameStream ==
  ASSUME NEW link, NEW l, NEW src, SameData(link, l, src),
         NEW f, NEW n, NEW g, NEW m, Stream(link, src, f, n, g, m)
  PROVE  Stream(l, src, f, n, g, m)
<1> DEFINE D == DataAt(link, src)
           E == DataAt(l, src)
<1>1. PICK h \in [D -> E] :
        /\ \A k \in E : \E i \in D : h[i] = k
        /\ \A i \in D : l[h[i]] = link[i]
        /\ \A i, j \in D : i <= j <=> h[i] <= h[j]
        /\ \A i, j \in D : i < j <=> h[i] < h[j]
  BY DEF SameData
<1>2. /\ \A i \in D : PartOK(link[i])
      /\ \A i \in D : (\A j \in D : i <= j) => Follows(link[i], f, n)
      /\ \A i, j \in D : (i < j /\ \A k \in D : k <= i \/ j <= k) =>
             Follows(link[j], FileOf(link[i]), EndOf(link[i]))
      /\ \A i \in D : (\A j \in D : j <= i) => EndOf(link[i]) = m /\ (m /= 0 => FileOf(link[i]) = g)
      /\ D = {} => n = m /\ (m /= 0 => f = g)
  BY DEF Stream
<1> HIDE DEF D, E
<1>3. \A k \in E : PartOK(l[k])
  BY <1>1, <1>2
<1>4. ASSUME NEW k \in E, \A j \in E : k <= j PROVE Follows(l[k], f, n)
  <2>1. PICK i \in D : h[i] = k  BY <1>1
  <2>2. \A j \in D : i <= j  BY <1>1, <1>4, <2>1
  <2> QED  BY <1>1, <1>2, <2>1, <2>2
<1>5. ASSUME NEW a \in E, NEW b \in E, a < b, \A k \in E : k <= a \/ b <= k
      PROVE  Follows(l[b], FileOf(l[a]), EndOf(l[a]))
  <2>1. PICK i \in D : h[i] = a  BY <1>1
  <2>2. PICK j \in D : h[j] = b  BY <1>1
  <2>3. i < j /\ \A k \in D : k <= i \/ j <= k  BY <1>1, <1>5, <2>1, <2>2
  <2>4. Follows(link[j], FileOf(link[i]), EndOf(link[i]))  BY <1>2, <2>3
  <2>5. l[a] = link[i] /\ l[b] = link[j]  BY <1>1, <2>1, <2>2
  <2> QED  BY <2>4, <2>5
<1>6. ASSUME NEW k \in E, \A j \in E : j <= k
      PROVE  EndOf(l[k]) = m /\ (m /= 0 => FileOf(l[k]) = g)
  <2>1. PICK i \in D : h[i] = k  BY <1>1
  <2>2. \A j \in D : j <= i  BY <1>1, <1>6, <2>1
  <2> QED  BY <1>1, <1>2, <2>1, <2>2
<1>7. E = {} => D = {}
  BY <1>1
<1> QED  BY <1>2, <1>3, <1>4, <1>5, <1>6, <1>7 DEF Stream, D, E

\* A packet of data is put on the link, where the stream ends.
LEMMA AddedStream ==
  ASSUME NEW link, NEW l, NEW packet, NEW src, Added(l, link, packet), OfData(packet, src),
         NEW f, NEW n, NEW g, NEW m, Stream(link, src, f, n, g, m),
         PartOK(packet), Follows(packet, g, m)
  PROVE  Stream(l, src, f, n, FileOf(packet), EndOf(packet))
<1> DEFINE D == DataAt(link, src)
           E == DataAt(l, src)
           z == Len(l)
<1>1. /\ E = D \union {z} /\ l[z] = packet
      /\ \A i \in D : l[i] = link[i] /\ i < z /\ i \in Int
      /\ z \in Int
  <2>1. /\ z \in 1..Len(l) /\ DOMAIN l = DOMAIN link \union {z} /\ l[z] = packet
        /\ \A i \in DOMAIN link : l[i] = link[i] /\ i < z /\ i \in Int
        /\ z \in Int
    BY DEF Added
  <2> QED  BY <2>1 DEF DataAt, OfData
<1>2. /\ \A i \in D : PartOK(link[i])
      /\ \A i \in D : (\A j \in D : i <= j) => Follows(link[i], f, n)
      /\ \A i, j \in D : (i < j /\ \A k \in D : k <= i \/ j <= k) =>
             Follows(link[j], FileOf(link[i]), EndOf(link[i]))
      /\ \A i \in D : (\A j \in D : j <= i) => EndOf(link[i]) = m /\ (m /= 0 => FileOf(link[i]) = g)
      /\ D = {} => n = m /\ (m /= 0 => f = g)
  BY DEF Stream
<1> HIDE DEF D, E, z
<1>3. \A k \in E : PartOK(l[k])
  BY <1>1, <1>2
<1>4. ASSUME NEW k \in E, \A j \in E : k <= j PROVE Follows(l[k], f, n)
  <2>1. CASE k \in D
    <3>1. \A j \in D : k <= j  BY <1>1, <1>4
    <3> QED  BY <1>1, <1>2, <2>1, <3>1
  <2>2. CASE k = z
    <3>1. D = {}  BY <1>1, <1>4, <2>2
    <3> QED  BY <1>1, <1>2, <2>2, <3>1 DEF Follows
  <2> QED  BY <1>1, <2>1, <2>2
<1>5. ASSUME NEW a \in E, NEW b \in E, a < b, \A k \in E : k <= a \/ b <= k
      PROVE  Follows(l[b], FileOf(l[a]), EndOf(l[a]))
  <2>1. a \in D  BY <1>1, <1>5
  <2>2. CASE b \in D
    <3>1. \A k \in D : k <= a \/ b <= k  BY <1>1, <1>5
    <3> QED  BY <1>1, <1>2, <1>5, <2>1, <2>2, <3>1
  <2>3. CASE b = z
    <3>1. \A k \in D : k <= a  BY <1>1, <1>5, <2>3
    <3>2. EndOf(link[a]) = m /\ (m /= 0 => FileOf(link[a]) = g)  BY <1>2, <2>1, <3>1
    <3> QED  BY <1>1, <2>1, <2>3, <3>2 DEF Follows
  <2> QED  BY <1>1, <2>2, <2>3
<1>6. ASSUME NEW k \in E, \A j \in E : j <= k
      PROVE  l[k] = packet
  BY <1>1, <1>6
<1> QED  BY <1>1, <1>3, <1>4, <1>5, <1>6 DEF Stream, D, E

\* The first packet of data is taken from the link, where the stream begins.
LEMMA RemovedStream ==
  ASSUME NEW link, NEW l, NEW i, NEW src, Removed(l, link, i), OfData(link[i], src),
         \A j \in DataAt(link, src) : i <= j,
         NEW f, NEW n, NEW g, NEW m, Stream(link, src, f, n, g, m)
  PROVE  /\ PartOK(link[i]) /\ Follows(link[i], f, n)
         /\ Stream(l, src, FileOf(link[i]), EndOf(link[i]), g, m)
         /\ \A k \in DataAt(l, src) : l[k] = link[k + 1] /\ k + 1 \in DataAt(link, src) /\ k + 1 > i
<1> DEFINE D == DataAt(link, src)
           E == DataAt(l, src)
<1>1. i \in D /\ i \in Int  BY DEF DataAt, OfData, Removed
<1>2. ASSUME NEW j \in D PROVE j \in Int /\ (j /= i => j - 1 \in E /\ l[j - 1] = link[j])
  <2>1. j \in 1..Len(link) /\ i <= j /\ OfData(link[j], src)  BY DEF DataAt, OfData, Removed
  <2>2. ASSUME j /= i PROVE j - 1 \in E /\ l[j - 1] = link[j]
    <3>1. j - 1 \in 1..Len(l) /\ ~ j - 1 < i /\ (j - 1) + 1 = j  BY <1>1, <2>1, <2>2 DEF Removed
    <3>2. l[j - 1] = link[j]  BY <3>1 DEF Removed
    <3> QED  BY <2>1, <3>1, <3>2 DEF DataAt, OfData, Removed
  <2> QED  BY <2>1, <2>2
<1>3. ASSUME NEW k \in E PROVE k \in Int /\ l[k] = link[k + 1] /\ k + 1 \in D /\ k + 1 > i
  <2>1. k \in 1..Len(l) /\ OfData(l[k], src)  BY DEF DataAt, OfData, Removed
  <2>2. ~ k < i
    <3>1. SUFFICES ASSUME k < i PROVE FALSE  OBVIOUS
    <3>2. k \in D  BY <2>1, <3>1 DEF DataAt, OfData, Removed
    <3> QED  BY <1>1, <2>1, <3>1, <3>2
  <2>3. k + 1 \in DOMAIN link /\ k + 1 > i  BY <1>1, <2>1, <2>2 DEF Removed
  <2>4. l[k] = link[k + 1]  BY <2>1, <2>2 DEF Removed
  <2> QED  BY <2>1, <2>3, <2>4 DEF DataAt, OfData
<1>4. /\ \A j \in D : PartOK(link[j])
      /\ \A j \in D : (\A k \in D : j <= k) => Follows(link[j], f, n)
      /\ \A j, k \in D : (j < k /\ \A a \in D : a <= j \/ k <= a) =>
             Follows(link[k], FileOf(link[j]), EndOf(link[j]))
      /\ \A j \in D : (\A k \in D : k <= j) => EndOf(link[j]) = m /\ (m /= 0 => FileOf(link[j]) = g)
  BY DEF Stream
<1> HIDE DEF D, E
<1>5. \A j \in D : i <= j  BY DEF D
<1>6. PartOK(link[i]) /\ Follows(link[i], f, n)  BY <1>1, <1>4, <1>5
<1>7. \A k \in E : PartOK(l[k])  BY <1>3, <1>4
<1>8. ASSUME NEW k \in E, \A j \in E : k <= j
      PROVE  Follows(l[k], FileOf(link[i]), EndOf(link[i]))
  <2>1. \A a \in D : a <= i \/ k + 1 <= a  BY <1>1, <1>2, <1>3, <1>8
  <2>2. i < k + 1 /\ k + 1 \in D  BY <1>1, <1>3
  <2> QED  BY <1>1, <1>3, <1>4, <2>1, <2>2
<1>9. ASSUME NEW a \in E, NEW b \in E, a < b, \A k \in E : k <= a \/ b <= k
      PROVE  Follows(l[b], FileOf(l[a]), EndOf(l[a]))
  <2>1. a + 1 \in D /\ b + 1 \in D /\ a + 1 < b + 1  BY <1>3, <1>9
  <2>2. \A k \in D : k <= a + 1 \/ b + 1 <= k  BY <1>1, <1>2, <1>3, <1>5, <1>9
  <2>3. l[a] = link[a + 1] /\ l[b] = link[b + 1]  BY <1>3
  <2>4. Follows(link[b + 1], FileOf(link[a + 1]), EndOf(link[a + 1]))  BY <1>4, <2>1, <2>2
  <2> QED  BY <2>3, <2>4
<1>10. ASSUME NEW k \in E, \A j \in E : j <= k
       PROVE  EndOf(l[k]) = m /\ (m /= 0 => FileOf(l[k]) = g)
  <2>1. \A j \in D : j <= k + 1  BY <1>1, <1>2, <1>3, <1>5, <1>10
  <2>2. EndOf(link[k + 1]) = m /\ (m /= 0 => FileOf(link[k + 1]) = g)  BY <1>3, <1>4, <2>1
  <2> QED  BY <1>3, <2>2
<1>11. ASSUME E = {} PROVE EndOf(link[i]) = m /\ (m /= 0 => FileOf(link[i]) = g)
  <2>1. \A j \in D : j <= i  BY <1>1, <1>2, <1>11
  <2> QED  BY <1>1, <1>4, <2>1
<1>12. Stream(l, src, FileOf(link[i]), EndOf(link[i]), g, m)
  <2>1. Stream(l, src, FileOf(link[i]), EndOf(link[i]), g, m) <=>
           /\ \A k \in E : PartOK(l[k])
           /\ \A k \in E : (\A j \in E : k <= j) => Follows(l[k], FileOf(link[i]), EndOf(link[i]))
           /\ \A a, b \in E : (a < b /\ \A k \in E : k <= a \/ b <= k) =>
                 Follows(l[b], FileOf(l[a]), EndOf(l[a]))
           /\ \A k \in E : (\A j \in E : j <= k) =>
                 EndOf(l[k]) = m /\ (m /= 0 => FileOf(l[k]) = g)
           /\ E = {} => EndOf(link[i]) = m /\ (m /= 0 => FileOf(link[i]) = g)
    BY DEF Stream, E
  <2> QED  BY <1>7, <1>8, <1>9, <1>10, <1>11, <2>1
<1> QED  BY <1>3, <1>6, <1>12 DEF D, E

\* Requests come and go one by one.
LEMMA AddedRequests ==
  ASSUME NEW link, NEW l, NEW packet, Added(l, link, packet)
  PROVE  /\ packet.command /= "GAME_EVENT_MAKE_DATA" => RequestsOn(l) = RequestsOn(link)
         /\ packet.command = "GAME_EVENT_MAKE_DATA" /\ RequestsOn(link) = {} => OneRequest(l)
<1>1. /\ Len(l) \in 1..Len(l) /\ DOMAIN l = DOMAIN link \union {Len(l)} /\ l[Len(l)] = packet
      /\ \A i \in DOMAIN link : l[i] = link[i] /\ i /= Len(l)
  BY DEF Added
<1> QED  BY <1>1 DEF RequestsOn, OneRequest

LEMMA RemovedRequests ==
  ASSUME NEW link, NEW l, NEW i, Removed(l, link, i)
  PROVE  /\ RequestsOn(link) = {} => RequestsOn(l) = {}
         /\ link[i].command /= "GAME_EVENT_MAKE_DATA" /\ OneRequest(link) => OneRequest(l)
         /\ link[i].command = "GAME_EVENT_MAKE_DATA" /\ OneRequest(link) => RequestsOn(l) = {}
<1>1. ASSUME NEW k \in RequestsOn(l)
      PROVE  /\ k \in Int
             /\ k < i => k \in RequestsOn(link)
             /\ ~ k < i => k + 1 \in RequestsOn(link) /\ k + 1 /= i
  <2>1. k \in 1..Len(l) /\ i \in Int /\ Len(link) \in Nat  BY DEF RequestsOn, Removed
  <2>2. k \in DOMAIN link /\ k + 1 \in DOMAIN link  BY <2>1 DEF Removed
  <2>3. l[k] = IF k < i THEN link[k] ELSE link[k + 1]  BY <2>1 DEF Removed
  <2> QED  BY <2>1, <2>2, <2>3 DEF RequestsOn
<1>2. ASSUME NEW k \in RequestsOn(link), k /= i
      PROVE  IF k < i THEN k \in RequestsOn(l) ELSE k - 1 \in RequestsOn(l)
  <2>1. k \in 1..Len(link) /\ i \in 1..Len(link)  BY DEF RequestsOn, Removed
  <2>2. CASE k < i
    <3>1. k \in DOMAIN l /\ l[k] = link[k]  BY <2>1, <2>2 DEF Removed
    <3> QED  BY <2>2, <3>1 DEF RequestsOn
  <2>3. CASE ~ k < i
    <3>1. k - 1 \in 1..Len(l) /\ ~ k - 1 < i /\ (k - 1) + 1 = k  BY <1>2, <2>1, <2>3 DEF Removed
    <3>2. k - 1 \in DOMAIN l /\ l[k - 1] = link[k]  BY <3>1 DEF Removed
    <3> QED  BY <2>3, <3>2 DEF RequestsOn
  <2> QED  BY <2>2, <2>3
<1>3. i \in DOMAIN link /\ i \in Int  BY DEF Removed
<1>4. RequestsOn(link) = {} => RequestsOn(l) = {}
  BY <1>1
<1>5. ASSUME link[i].command /= "GAME_EVENT_MAKE_DATA", OneRequest(link) PROVE OneRequest(l)
  <2>1. PICK k \in RequestsOn(link) : \A j \in RequestsOn(link) : j = k  BY <1>5 DEF OneRequest
  <2>2. k /= i /\ k \in Int  BY <1>3, <1>5 DEF RequestsOn, Removed
  <2>3. ASSUME NEW j \in RequestsOn(l) PROVE j = IF k < i THEN k ELSE k - 1
    BY <1>1, <1>3, <2>1, <2>2, <2>3
  <2> QED  BY <1>2, <2>2, <2>3 DEF OneRequest
<1>6. ASSUME link[i].command = "GAME_EVENT_MAKE_DATA", OneRequest(link) PROVE RequestsOn(l) = {}
  <2>1. i \in RequestsOn(link)  BY <1>3, <1>6 DEF RequestsOn
  <2>2. \A j \in RequestsOn(link) : j = i  BY <1>6, <2>1 DEF OneRequest
  <2> QED  BY <1>1, <1>3, <2>2
<1> QED  BY <1>4, <1>5, <1>6

-----------------------------------------------------------------------------
(* Parts of files.                                                         *)

LEMMA FileSizeType == FileSize \in Nat /\ FileSize >= 1 /\ FileSize /= None /\ None \notin Nat
BY TransferAssumption, NoneAssumption

LEMMA PartType ==
  ASSUME NEW packet \in DataOf(Clients), PartOK(packet)
  PROVE  /\ packet.pieces \in Seq(Pieces) /\ Len(packet.pieces) \in Nat /\ Len(packet.pieces) >= 1
         /\ StartOf(packet) \in Nat /\ StartOf(packet) + Len(packet.pieces) <= FileSize
         /\ EndOf(packet) \in 0..(FileSize - 1)
         /\ EndOf(packet) = 0 <=> StartOf(packet) + Len(packet.pieces) = FileSize
         /\ EndOf(packet) /= 0 => EndOf(packet) = StartOf(packet) + Len(packet.pieces)
<1>1. packet.pieces \in Seq(Pieces)  BY DEF DataOf
<1>2. Len(packet.pieces) \in Nat /\ Len(packet.pieces) >= 1 /\ packet.pieces[1] \in Pieces
  <2>1. Len(packet.pieces) \in Nat /\ Len(packet.pieces) /= 0
    BY <1>1, EmptySeq, LenProperties DEF PartOK
  <2> QED  BY <1>1, <2>1, ElementOfSeq
<1>3. packet.pieces[1][2] \in Nat  BY <1>2 DEF Pieces
<1>4. StartOf(packet) \in Nat /\ StartOf(packet) + Len(packet.pieces) <= FileSize
  BY <1>3 DEF StartOf, PartOK
<1>5. EndOf(packet) = IF StartOf(packet) + Len(packet.pieces) = FileSize
                      THEN 0 ELSE StartOf(packet) + Len(packet.pieces)
  BY DEF EndOf
<1> HIDE DEF StartOf
<1> QED  BY <1>1, <1>2, <1>4, <1>5, FileSizeType

\* The prefix of a file becomes longer by the part that follows it.
LEMMA ReceivedPart ==
  ASSUME NEW file \in Seq(Pieces), NEW f, Prefix(file, f), Len(file) < FileSize,
         NEW total, file /= <<>> => total = FileSize,
         NEW packet \in DataOf(Clients), PartOK(packet), Follows(packet, f, Len(file)),
         NEW file2, file2 = Received(file, packet)
  PROVE  /\ file2 \in Seq(Pieces) /\ file2 /= <<>> /\ Len(file2) \in Nat
         /\ Len(file2) = Len(file) + Len(packet.pieces) /\ Len(file2) <= FileSize
         /\ Prefix(file2, FileOf(packet)) /\ FirstOf(file2) = FileOf(packet)
         /\ file /= <<>> => FileOf(packet) = f
         /\ EndOf(packet) = IF Len(file2) = FileSize THEN 0 ELSE Len(file2)
         /\ \A size \in SizesRead(file, total, packet) : size = FileSize
<1> DEFINE pieces == packet.pieces
<1>1. /\ pieces \in Seq(Pieces) /\ Len(pieces) \in Nat /\ Len(pieces) >= 1
      /\ StartOf(packet) + Len(pieces) <= FileSize
      /\ EndOf(packet) = 0 <=> StartOf(packet) + Len(pieces) = FileSize
      /\ EndOf(packet) /= 0 => EndOf(packet) = StartOf(packet) + Len(pieces)
      /\ DOMAIN pieces = 1..Len(pieces)
  BY PartType, LenProperties
<1>2. /\ StartOf(packet) = Len(file) /\ Len(file) \in Nat /\ DOMAIN file = 1..Len(file)
      /\ Len(file) /= 0 => FileOf(packet) = f
      /\ file = <<>> <=> Len(file) = 0
  BY LenProperties, EmptySeq DEF Follows
<1>3. /\ file /= <<>> => packet.total = None
      /\ file = <<>> => packet.total = FileSize
      /\ \A i \in DOMAIN pieces : pieces[i] = <<FileOf(packet), Len(file) + i>>
  BY <1>2 DEF PartOK
<1>4. file2 = file \o pieces
  <2>1. (IF packet.total /= None /\ file /= <<>> THEN <<Header>> ELSE <<>>) = <<>>
    BY <1>3
  <2>2. file \o <<>> = file  BY ConcatEmptySeq
  <2> QED  BY <2>1, <2>2 DEF Received
<1>5. /\ file2 \in Seq(Pieces) /\ Len(file2) = Len(file) + Len(pieces)
      /\ \A i \in 1..(Len(file) + Len(pieces)) :
            file2[i] = IF i <= Len(file) THEN file[i] ELSE pieces[i - Len(file)]
  BY <1>1, <1>4, ConcatProperties
<1>6. Len(file2) \in Nat /\ Len(file2) >= 1 /\ DOMAIN file2 = 1..Len(file2) /\ file2 /= <<>>
  BY <1>1, <1>2, <1>5, LenProperties, EmptySeq
<1> HIDE DEF pieces
<1>7. ASSUME NEW i \in DOMAIN file2 PROVE file2[i] = <<FileOf(packet), i>>
  <2>1. i \in 1..(Len(file) + Len(pieces))  BY <1>5, <1>6
  <2>2. CASE i <= Len(file)
    <3>1. i \in DOMAIN file /\ Len(file) /= 0  BY <1>2, <2>1, <2>2
    <3>2. file[i] = <<f, i>>  BY <3>1 DEF Prefix
    <3> QED  BY <1>2, <1>5, <2>1, <2>2, <3>1, <3>2
  <2>3. CASE ~ i <= Len(file)
    <3>1. i - Len(file) \in DOMAIN pieces /\ Len(file) + (i - Len(file)) = i
      BY <1>1, <1>2, <2>1, <2>3
    <3> QED  BY <1>3, <1>5, <2>1, <2>3, <3>1
  <2> QED  BY <2>2, <2>3
<1>8. Prefix(file2, FileOf(packet)) /\ FirstOf(file2) = FileOf(packet)
  <2>1. file2[1] = <<FileOf(packet), 1>>  BY <1>6, <1>7
  <2> QED  BY <1>6, <1>7, <2>1 DEF Prefix, FirstOf
<1>9. \A size \in SizesRead(file, total, packet) : size = FileSize
  BY <1>3, FileSizeType DEF SizesRead
<1>10. /\ Len(file2) <= FileSize
       /\ EndOf(packet) = IF Len(file2) = FileSize THEN 0 ELSE Len(file2)
  BY <1>1, <1>2, <1>5
<1> QED  BY <1>2, <1>5, <1>6, <1>8, <1>9, <1>10 DEF pieces

\* A chunk of the prefix of a file is a part of it, and ends where sent is next.
ChunkOf(packet, f, sent, next) ==
    /\ PartOK(packet) /\ StartOf(packet) = sent /\ FileOf(packet) = f
    /\ EndOf(packet) = IF next = FileSize THEN 0 ELSE next

LEMMA ChunkPart ==
  ASSUME NEW file \in Seq(Pieces), NEW f, Prefix(file, f), Len(file) <= FileSize,
         NEW sent \in Nat, sent < Len(file), NEW n \in 1..MaxChunk, NEW src,
         NEW part, part = Chunk(file, sent, n),
         NEW packet, packet = Data(src, IF sent = 0 THEN FileSize ELSE None, part)
  PROVE  /\ ChunkOf(packet, f, sent, sent + Len(part)) /\ OfData(packet, src)
         /\ Len(part) \in Nat /\ Len(part) >= 1 /\ sent + Len(part) <= Len(file)
<1> DEFINE last == IF sent + n < Len(file) THEN sent + n ELSE Len(file)
<1>1. /\ Len(file) \in Nat /\ n \in Nat \ {0} /\ DOMAIN file = 1..Len(file)
      /\ \A i \in 1..Len(file) : file[i] \in Pieces
  BY TransferAssumption, LenProperties, ElementOfSeq
<1>2. last \in Int /\ sent + 1 \in Int /\ sent + 1 <= last /\ last <= Len(file)
  BY <1>1
<1>3. \A i \in (sent + 1)..last : file[i] \in Pieces
  BY <1>1, <1>2
<1> HIDE DEF last
<1>4. part = SubSeq(file, sent + 1, last)  BY DEF Chunk, last
<1>5. /\ part \in Seq(Pieces) /\ Len(part) = last - sent
      /\ \A i \in 1..(last - sent) : part[i] = file[sent + i]
  <2>1. /\ SubSeq(file, sent + 1, last) \in Seq(Pieces)
        /\ Len(SubSeq(file, sent + 1, last)) = IF sent + 1 <= last THEN last - (sent + 1) + 1 ELSE 0
        /\ \A i \in 1..(last - (sent + 1) + 1) :
              SubSeq(file, sent + 1, last)[i] = file[(sent + 1) + i - 1]
    BY <1>2, <1>3, SubSeqProperties
  <2>2. last - (sent + 1) + 1 = last - sent /\ \A i \in Int : (sent + 1) + i - 1 = sent + i
    BY <1>2
  <2> QED  BY <1>2, <1>4, <2>1, <2>2
<1>6. Len(part) \in Nat /\ Len(part) >= 1 /\ sent + Len(part) = last /\ DOMAIN part = 1..Len(part)
  BY <1>2, <1>5, LenProperties
<1>7. \A i \in DOMAIN part : part[i] = <<f, sent + i>>
  <2> SUFFICES ASSUME NEW i \in DOMAIN part PROVE part[i] = <<f, sent + i>>
    OBVIOUS
  <2>1. i \in 1..(last - sent) /\ sent + i \in DOMAIN file  BY <1>1, <1>2, <1>5, <1>6
  <2> QED  BY <1>5, <2>1 DEF Prefix
<1>8. packet.command = "receive_data" /\ packet.src = src /\ packet.pieces = part
      /\ packet.total = IF sent = 0 THEN FileSize ELSE None
  BY DEF Data
<1>9. part[1] = <<f, sent + 1>>  BY <1>6, <1>7
<1>10. StartOf(packet) = sent /\ FileOf(packet) = f
  BY <1>8, <1>9 DEF StartOf, FileOf
<1>11. part /= <<>>  BY <1>5, <1>6, EmptySeq
<1>12. EndOf(packet) = IF sent + Len(part) = FileSize THEN 0 ELSE sent + Len(part)
  BY <1>8, <1>10 DEF EndOf
<1>13. sent + Len(part) <= Len(file) /\ sent + Len(part) <= FileSize  BY <1>1, <1>2, <1>6, FileSizeType
<1>14. PartOK(packet)  BY <1>7, <1>8, <1>10, <1>11, <1>13 DEF PartOK
<1> QED  BY <1>6, <1>8, <1>10, <1>12, <1>13, <1>14 DEF OfData, ChunkOf

-----------------------------------------------------------------------------
(* What a step does not disturb.                                           *)

LEMMA SameOneFile ==
  ASSUME NEW link, NEW l, NEW src, SameData(link, l, src), OneFile(link, src)
  PROVE  OneFile(l, src)
<1>1. PICK h \in [DataAt(link, src) -> DataAt(l, src)] :
        /\ \A k \in DataAt(l, src) : \E i \in DataAt(link, src) : h[i] = k
        /\ \A i \in DataAt(link, src) : l[h[i]] = link[i]
        /\ \A i, j \in DataAt(link, src) : i <= j <=> h[i] <= h[j]
  BY DEF SameData
<1> SUFFICES ASSUME NEW k \in DataAt(l, src), EndOf(l[k]) = 0
             PROVE  \A j \in DataAt(l, src) : j <= k
  BY DEF OneFile
<1>2. PICK i \in DataAt(link, src) : h[i] = k  BY <1>1
<1>3. EndOf(link[i]) = 0  BY <1>1, <1>2
<1>4. \A j \in DataAt(link, src) : j <= i  BY <1>3 DEF OneFile
<1> QED  BY <1>1, <1>2, <1>4

KeptIn(c) ==
    /\ receivers'[c] = receivers[c] /\ collecting'[c] = collecting[c]
    /\ memory'[c] = memory[c] /\ sending'[c] = sending[c]
    /\ receivers[c] /= None =>
          proxies'[receivers[c].proxy].file = proxies[receivers[c].proxy].file
    /\ SameData(toServer[c], toServer'[c], c)
    /\ RequestsOn(toClient[c]) = {} => RequestsOn(toClient'[c]) = {}
    /\ OneRequest(toClient[c]) => OneRequest(toClient'[c])

LEMMA KeptIncoming ==
  ASSUME NEW c \in Clients, Incoming(c), KeptIn(c)
  PROVE  Incoming(c)'
<1>1. DataAt(toServer[c], c) = {} <=> DataAt(toServer'[c], c) = {}
  BY SameEmpty DEF KeptIn
<1>2. CASE receivers[c] = None
  BY <1>1, <1>2 DEF KeptIn, Incoming, Nothing
<1>3. CASE receivers[c] /= None
  <2> DEFINE file == proxies[receivers[c].proxy].file
  <2>1. receivers'[c] = receivers[c] /\ proxies'[receivers[c].proxy].file = file
    BY <1>3 DEF KeptIn
  <2>2. CASE Waiting(c, file)
    <3>1. Waiting(c, file)'  BY <1>1, <2>1, <2>2 DEF KeptIn, Waiting
    <3> QED  BY <1>3, <2>1, <3>1 DEF Incoming
  <2>3. CASE Underway(c, file, receivers[c].total)
    <3> DEFINE m == IF sending[c] = None THEN 0 ELSE sending[c]
    <3>1. Stream(toServer'[c], c, FirstOf(file), Len(file), memory[c], m)
      BY <2>3, SameStream DEF KeptIn, Underway
    <3>2. OneFile(toServer'[c], c)
      BY <2>3, SameOneFile DEF KeptIn, Underway
    <3>3. /\ RequestsOn(toClient'[c]) = {} /\ collecting'[c] = {}
          /\ memory'[c] = memory[c] /\ sending'[c] = sending[c]
      BY <2>3 DEF KeptIn, Underway
    <3> HIDE DEF file
    <3>4. /\ Beginning(file, receivers[c].total)
          /\ sending[c] = 0 => DataAt(toServer[c], c) = {}
          /\ sending[c] = None => DataAt(toServer[c], c) /= {}
      BY <2>3 DEF Underway
    <3>5. Underway(c, file, receivers[c].total)'
      <4>1. file' = file  BY <2>1 DEF file
      <4>2. Stream(toServer[c], c, FirstOf(file), Len(file), memory[c], m)'
        BY <3>1, <3>3, <4>1
      <4>3. OneFile(toServer[c], c)'
        BY <3>2
      <4> QED  BY <1>1, <2>1, <3>3, <3>4, <4>1, <4>2, <4>3 DEF Underway
    <3> QED  BY <1>3, <2>1, <3>5 DEF Incoming, file
  <2> QED  BY <1>3, <2>2, <2>3 DEF Incoming
<1> QED  BY <1>2, <1>3

KeptOut(p) ==
    /\ uploads'[p] = uploads[p] /\ downloads'[p] = downloads[p]
    /\ uploads[p] /= None =>
          proxies'[uploads[p].proxy].file = proxies[uploads[p].proxy].file
    /\ p[1] \in connected' => p[1] \in connected
    /\ SameData(toClient[p[1]], toClient'[p[1]], p[2])

LEMMA KeptOutgoing ==
  ASSUME NEW p \in Pairs, Outgoing(p), KeptOut(p)
  PROVE  Outgoing(p)'
<1> DEFINE u == uploads[p]
           d == downloads[p]
           file == proxies[u.proxy].file
           f == IF d = None THEN 0 ELSE FirstOf(d.file)
           n == IF d = None THEN 0 ELSE Len(d.file)
           g == IF u = None THEN 0 ELSE FirstOf(file)
           m == IF u = None THEN 0 ELSE u.sent
<1>1. u' = u /\ d' = d /\ (u /= None => file' = file)
  BY DEF KeptOut
<1>2. f' = f /\ n' = n /\ g' = g /\ m' = m
  BY <1>1
<1>3. p[1] \in connected => Stream(toClient[p[1]], p[2], f, n, g, m)
  BY DEF Outgoing
<1> HIDE DEF f, n, g, m
<1>4. p[1] \in connected' => Stream(toClient[p[1]], p[2], f, n, g, m)'
  BY <1>2, <1>3, SameStream DEF KeptOut
<1> QED  BY <1>1, <1>4 DEF Outgoing, f, n, g, m

LEMMA CarriedBy ==
  ASSUME Carried, connected' = connected, cut \subseteq cut',
         \A c \in Clients : c \notin cut' => KeptIn(c) \/ Incoming(c)',
         \A p \in Pairs : p[2] \notin cut' => KeptOut(p) \/ Outgoing(p)',
         \A p \in Pairs : p[1] \notin connected => downloads'[p] = None /\ toClient'[p[1]] = <<>>
  PROVE  Carried'
<1>1. \A c \in Clients \ cut' : Incoming(c)'
  BY KeptIncoming DEF Carried
<1>2. \A p \in Pairs : p[2] \notin cut' => Outgoing(p)'
  BY KeptOutgoing DEF Carried
<1> QED  BY <1>1, <1>2 DEF Carried

\* Packets that are neither data nor requests.
Other(packet) == packet.command \notin {"receive_data", "GAME_EVENT_MAKE_DATA"}

\* The links to the clients carry the same data and the same requests.
Quiet ==
    \A c \in Clients :
        /\ \A s : SameData(toClient[c], toClient'[c], s)
        /\ RequestsOn(toClient[c]) = {} => RequestsOn(toClient'[c]) = {}
        /\ OneRequest(toClient[c]) => OneRequest(toClient'[c])
        /\ c \notin connected => (toClient[c] = <<>> => toClient'[c] = <<>>)

LEMMA QuietSame == toClient' = toClient => Quiet
BY EqualSame DEF Quiet

LEMMA QuietSend ==
  ASSUME IInv, NEW c \in Clients, NEW packet \in ToClient(c), Other(packet),
         toClient' = SendTo(toClient, c, packet)
  PROVE  Quiet
<1>1. CASE c \notin connected
  BY <1>1, QuietSame DEF SendTo
<1>2. CASE c \in connected
  <2>1. /\ toClient'[c] = Append(toClient[c], packet)
        /\ \A d \in Clients : d /= c => toClient'[d] = toClient[d]
    BY <1>2 DEF SendTo, IInv, Down
  <2>2. Added(toClient'[c], toClient[c], packet)
    BY <2>1, AppendAdds DEF IInv, Down
  <2>3. RequestsOn(toClient'[c]) = RequestsOn(toClient[c]) /\ \A s : SameData(toClient[c], toClient'[c], s)
    BY <2>2, AddedSame, AddedRequests DEF Other, OfData
  <2>4. OneRequest(toClient[c]) => OneRequest(toClient'[c])
    <3>1. \A i \in RequestsOn(toClient[c]) : i \in RequestsOn(toClient'[c])  BY <2>3
    <3> QED  BY <2>3, <3>1 DEF OneRequest
  <2> QED  BY <1>2, <2>1, <2>3, <2>4, EqualSame DEF Quiet
<1> QED  BY <1>1, <1>2

\* A step of which the clients and their links hear no more than that.
LEMMA KeptInQuiet ==
  ASSUME Quiet, NEW c \in Clients, SameData(toServer[c], toServer'[c], c),
         UNCHANGED <<collecting, memory, sending>>,
         receivers'[c] = receivers[c],
         receivers[c] /= None =>
             proxies'[receivers[c].proxy].file = proxies[receivers[c].proxy].file
  PROVE  KeptIn(c)
BY DEF Quiet, KeptIn

LEMMA KeptOutQuiet ==
  ASSUME Quiet, NEW p \in Pairs, UNCHANGED <<downloads, connected>>,
         uploads'[p] = uploads[p],
         uploads[p] /= None => proxies'[uploads[p].proxy].file = proxies[uploads[p].proxy].file
  PROVE  KeptOut(p)
BY PairParts DEF Quiet, KeptOut

LEMMA GoneQuiet ==
  ASSUME Carried, Quiet, UNCHANGED downloads
  PROVE  \A p \in Pairs : p[1] \notin connected => downloads'[p] = None /\ toClient'[p[1]] = <<>>
BY PairParts DEF Quiet, Carried

-----------------------------------------------------------------------------
(* The server carries on.                                                  *)

LEMMA ServerTypes ==
  ASSUME IInv
  PROVE  /\ \A c \in Clients : receivers[c] /= None =>
               /\ receivers[c].proxy \in 1..Proxies
               /\ proxies[receivers[c].proxy].suspect = c
               /\ proxies[receivers[c].proxy].file \in Seq(Pieces)
               /\ <<proxies[receivers[c].proxy].admin, c>> \in Pairs
         /\ \A p \in Pairs : uploads[p] /= None =>
               /\ uploads[p].proxy \in 1..Proxies
               /\ p = <<proxies[uploads[p].proxy].admin, proxies[uploads[p].proxy].suspect>>
               /\ proxies[uploads[p].proxy].file \in Seq(Pieces)
               /\ uploads[p].sent \in Nat /\ uploads[p].max \in Nat
BY DEF IInv, ServerPart, SourceKept, Asked, Receiver, Upload, Proxy

LEMMA MakeDataCarried ==
  ASSUME IInv, Carried, NEW p \in Pairs, NEW kind \in Kinds, MakeData(p, kind)
  PROVE  Carried'
<1>1. p[1] \in Clients /\ p[2] \in Clients /\ p = <<p[1], p[2]>>
  BY PairParts
<1>2. PICK i \in 1..Proxies :
        /\ i \in Free
        /\ \/ /\ proxies' = [proxies EXCEPT ![i].admin = p[1], ![i].suspect = p[2]]
              /\ UNCHANGED <<receivers, toClient>>
           \/ /\ p[2] \in connected /\ receivers[p[2]] = None
              /\ proxies' = [proxies EXCEPT ![i] = [admin |-> p[1], suspect |-> p[2],
                                                    first |-> TRUE, file |-> <<>>]]
              /\ receivers' = [receivers EXCEPT ![p[2]] = [proxy |-> i, total |-> None]]
              /\ toClient' = SendTo(toClient, p[2], Request(kind))
  BY DEF MakeData, IsLeast
<1>3. UNCHANGED <<uploads, connected, collecting, memory, sending, downloads, toServer, cut>>
  BY DEF MakeData, client
<1>4. \A c \in Clients : receivers[c] /= None => receivers[c].proxy /= i
  BY <1>2 DEF Free, Active, Receives, IInv, ServerPart, SourceKept
<1>5. \A q \in Pairs : uploads[q] /= None => uploads[q].proxy /= i
  BY <1>2 DEF Free, Active, Uploads, IInv, ServerPart, SourceKept
<1>6. CASE UNCHANGED <<receivers, toClient>>
            /\ proxies' = [proxies EXCEPT ![i].admin = p[1], ![i].suspect = p[2]]
  <2>1. \A j \in 1..Proxies : j /= i => proxies'[j] = proxies[j]
    BY <1>6 DEF IInv, ServerPart
  <2>2. Quiet  BY <1>6, QuietSame
  <2>3. \A c \in Clients : KeptIn(c)
    BY <1>3, <1>4, <1>6, <2>1, <2>2, KeptInQuiet, EqualSame, ServerTypes
  <2>4. \A q \in Pairs : KeptOut(q)
    BY <1>3, <1>5, <2>1, <2>2, KeptOutQuiet, ServerTypes
  <2> QED  BY <1>3, <2>2, <2>3, <2>4, GoneQuiet, CarriedBy
<1>7. CASE /\ p[2] \in connected /\ receivers[p[2]] = None
           /\ proxies' = [proxies EXCEPT ![i] = [admin |-> p[1], suspect |-> p[2],
                                                 first |-> TRUE, file |-> <<>>]]
           /\ receivers' = [receivers EXCEPT ![p[2]] = [proxy |-> i, total |-> None]]
           /\ toClient' = SendTo(toClient, p[2], Request(kind))
  <2>1. /\ \A j \in 1..Proxies : j /= i => proxies'[j] = proxies[j]
        /\ proxies'[i].file = <<>>
        /\ receivers'[p[2]] = [proxy |-> i, total |-> None]
        /\ \A c \in Clients : c /= p[2] => receivers'[c] = receivers[c]
    BY <1>1, <1>7 DEF IInv, ServerPart
  <2>2. /\ toClient'[p[2]] = Append(toClient[p[2]], Request(kind))
        /\ \A c \in Clients : c /= p[2] => toClient'[c] = toClient[c]
    BY <1>1, <1>7 DEF SendTo, IInv, Down
  <2>3. Added(toClient'[p[2]], toClient[p[2]], Request(kind))
    BY <1>1, <2>2, AppendAdds, ClientPackets DEF IInv, Down
  <2>4. Request(kind).command = "GAME_EVENT_MAKE_DATA"  BY DEF Request
  <2>5. \A c \in Clients : \A s : SameData(toClient[c], toClient'[c], s)
    BY <2>2, <2>3, <2>4, AddedSame, EqualSame DEF OfData
  <2>6. ASSUME NEW c \in Clients, c \notin cut' PROVE KeptIn(c) \/ Incoming(c)'
    <3>1. CASE c /= p[2]
      BY <1>3, <1>4, <2>1, <2>2, <3>1, EqualSame, ServerTypes DEF KeptIn
    <3>2. CASE c = p[2]
      <4>1. Nothing(c)  BY <1>3, <1>7, <2>6, <3>2 DEF Carried, Incoming
      <4>2. OneRequest(toClient'[c])
        BY <2>3, <2>4, <3>2, <4>1, AddedRequests DEF Nothing
      <4>3. Waiting(c, <<>>)'
        BY <1>3, <4>1, <4>2 DEF Nothing, Waiting
      <4>4. receivers'[c].proxy = i /\ receivers'[c] /= None /\ proxies'[receivers'[c].proxy].file = <<>>
        <5>1. [proxy |-> i, total |-> None] \in Receiver  BY DEF Receiver, Sizes
        <5> QED  BY <2>1, <3>2, <5>1, NoneAssumption
      <4> QED  BY <4>3, <4>4 DEF Incoming
    <3> QED  BY <3>1, <3>2
  <2>7. \A q \in Pairs : KeptOut(q)
    BY <1>3, <1>5, <2>1, <2>5, ServerTypes, PairParts DEF KeptOut
  <2>8. \A q \in Pairs : q[1] \notin connected => downloads'[q] = None /\ toClient'[q[1]] = <<>>
    BY <1>3, <1>7, <2>2, PairParts DEF Carried
  <2> QED  BY <1>3, <2>6, <2>7, <2>8, CarriedBy
<1> QED  BY <1>2, <1>6, <1>7

LEMMA StopReceiveCarried ==
  ASSUME IInv, Carried, NEW c \in Clients, StopReceive(c),
         UNCHANGED <<connected, collecting, memory, sending, downloads>>,
         \A d \in Clients : SameData(toServer[d], toServer'[d], d) \/ d = c
  PROVE  Carried'
<1>1. /\ \A d \in Clients : d /= c => receivers'[d] = receivers[d]
      /\ UNCHANGED <<proxies, uploads>> /\ cut' = cut \union {c}
      /\ toClient' = toClient \/ toClient' = SendTo(toClient, c, Reject(None))
  BY DEF StopReceive, IInv, ServerPart
<1>2. Reject(None) \in ToClient(c) /\ Other(Reject(None))
  BY ClientPackets DEF Other, Reject
<1>3. Quiet
  BY <1>1, <1>2, QuietSame, QuietSend
<1>4. ASSUME NEW d \in Clients, d \notin cut' PROVE KeptIn(d)
  BY <1>1, <1>3, <1>4, KeptInQuiet
<1>5. \A q \in Pairs : KeptOut(q)
  BY <1>1, <1>3, KeptOutQuiet
<1> QED  BY <1>1, <1>3, <1>4, <1>5, GoneQuiet, CarriedBy

LEMMA ServerRejectCarried ==
  ASSUME IInv, Carried, NEW c \in Clients, NEW packet, ServerReject(c, packet),
         packet.src \in Sources(c),
         UNCHANGED <<connected, collecting, memory, sending, downloads>>,
         \A d \in Clients : SameData(toServer[d], toServer'[d], d)
  PROVE  Carried'
<1> DEFINE p == <<c, packet.src>>
<1>1. p \in Pairs /\ p[2] = packet.src  BY DEF Sources
<1>2. CASE uploads[p] /= None
  <2>1. /\ UNCHANGED <<proxies, receivers>> /\ cut' = cut \union {packet.src}
        /\ \A q \in Pairs : q /= p => uploads'[q] = uploads[q]
        /\ toClient' = toClient \/ toClient' = SendTo(toClient, c, Abort(packet.src))
    BY <1>1, <1>2 DEF ServerReject, IInv, ServerPart
  <2>2. Abort(packet.src) \in ToClient(c) /\ Other(Abort(packet.src))
    BY ClientPackets DEF Other, Abort
  <2>3. Quiet  BY <2>1, <2>2, QuietSame, QuietSend
  <2>4. \A d \in Clients : KeptIn(d)
    BY <2>1, <2>3, KeptInQuiet
  <2>5. \A q \in Pairs : q[2] \notin cut' => KeptOut(q)
    BY <1>1, <2>1, <2>3, KeptOutQuiet
  <2> QED  BY <2>1, <2>3, <2>4, <2>5, GoneQuiet, CarriedBy
<1>3. CASE uploads[p] = None
  <2>1. UNCHANGED <<proxies, receivers, uploads, toClient, cut>>
    BY <1>1, <1>3 DEF ServerReject, server
  <2>2. Quiet  BY <2>1, QuietSame
  <2>3. \A d \in Clients : KeptIn(d)
    BY <2>1, <2>2, KeptInQuiet
  <2>4. \A q \in Pairs : KeptOut(q)
    BY <2>1, <2>2, KeptOutQuiet
  <2> QED  BY <2>1, <2>2, <2>3, <2>4, GoneQuiet, CarriedBy
<1> QED  BY <1>2, <1>3

-----------------------------------------------------------------------------
(* A packet of data is received.                                           *)

\* A stream that begins a file, or ends with one, may be of any.
LEMMA StreamEnds ==
  ASSUME NEW link, NEW src, NEW f, NEW n, NEW g, NEW m, Stream(link, src, f, n, g, m)
  PROVE  /\ n = 0 => \A e : Stream(link, src, e, n, g, m)
         /\ m = 0 => \A e : Stream(link, src, f, n, e, m)
<1>1. ASSUME n = 0, NEW e PROVE Stream(link, src, e, n, g, m)
  BY <1>1 DEF Stream, Follows
<1>2. ASSUME m = 0, NEW e PROVE Stream(link, src, f, n, e, m)
  BY <1>2 DEF Stream
<1> QED  BY <1>1, <1>2

\* The packet is the first data of src on the link, and the rest is l.
Takes(l, link, packet, src) ==
    \E i \in DOMAIN link :
       /\ Removed(l, link, i) /\ packet = link[i] /\ OfData(packet, src)
       /\ \A j \in DataAt(link, src) : i <= j

\* Together with the rest of the link the file remains the beginning of one, or
\* is complete and the rest begins another.
\* file2 is the file with the packet: the beginning of one, or a whole one.
Grown(file, file2, packet) ==
    /\ file2 \in Seq(Pieces) /\ file2 /= <<>> /\ Len(file2) \in Nat /\ Len(file2) <= FileSize
    /\ Prefix(file2, FirstOf(file2)) /\ FirstOf(file2) = FileOf(packet)
    /\ file /= <<>> => FirstOf(file2) = FirstOf(file)
    /\ EndOf(packet) = IF Len(file2) = FileSize THEN 0 ELSE Len(file2)

\* The data on the link go on after the file, or begin another.
Onward(l, src, file2, g, m) ==
    /\ Len(file2) = FileSize => Stream(l, src, 0, 0, g, m)
    /\ Len(file2) /= FileSize =>
          Beginning(file2, FileSize) /\ Stream(l, src, FirstOf(file2), Len(file2), g, m)

LEMMA TakenFile ==
  ASSUME NEW file \in Seq(Pieces), NEW total, Beginning(file, total),
         NEW link, NEW l, NEW packet \in DataOf(Clients), NEW src, Takes(l, link, packet, src),
         NEW g, NEW m, Stream(link, src, FirstOf(file), Len(file), g, m),
         NEW file2, file2 = Received(file, packet)
  PROVE  (\A size \in SizesRead(file, total, packet) : size = FileSize) /\ Grown(file, file2, packet)
<1> DEFINE f == FirstOf(file)
<1>1. PartOK(packet) /\ Follows(packet, f, Len(file))
  BY RemovedStream DEF Takes
<1>2. Prefix(file, f) /\ Len(file) < FileSize /\ (file /= <<>> => total = FileSize)
  <2>1. CASE file = <<>>
    BY <2>1, FileSizeType, LenProperties DEF Prefix
  <2>2. CASE file /= <<>>
    BY <2>2 DEF Beginning, Prefix, FirstOf
  <2> QED  BY <2>1, <2>2
<1> HIDE DEF f
<1>3. /\ file2 \in Seq(Pieces) /\ file2 /= <<>> /\ Len(file2) \in Nat /\ Len(file2) <= FileSize
      /\ Prefix(file2, FileOf(packet)) /\ FirstOf(file2) = FileOf(packet)
      /\ file /= <<>> => FileOf(packet) = f
      /\ EndOf(packet) = IF Len(file2) = FileSize THEN 0 ELSE Len(file2)
      /\ \A size \in SizesRead(file, total, packet) : size = FileSize
  BY <1>1, <1>2, ReceivedPart
<1> QED  BY <1>3 DEF f, Grown

LEMMA TakenStream ==
  ASSUME NEW file \in Seq(Pieces), NEW total, Beginning(file, total),
         NEW link, NEW l, NEW packet \in DataOf(Clients), NEW src, Takes(l, link, packet, src),
         NEW g, NEW m, Stream(link, src, FirstOf(file), Len(file), g, m),
         NEW file2, file2 = Received(file, packet)
  PROVE  Onward(l, src, file2, g, m)
<1>1. Stream(l, src, FileOf(packet), EndOf(packet), g, m)
  BY RemovedStream DEF Takes
<1>2. /\ file2 \in Seq(Pieces) /\ file2 /= <<>> /\ Len(file2) \in Nat /\ Len(file2) <= FileSize
      /\ Prefix(file2, FirstOf(file2)) /\ FirstOf(file2) = FileOf(packet)
      /\ EndOf(packet) = IF Len(file2) = FileSize THEN 0 ELSE Len(file2)
  <2>1. Grown(file, file2, packet)  BY TakenFile
  <2> QED  BY <2>1 DEF Grown
<1>3. ASSUME Len(file2) = FileSize PROVE Stream(l, src, 0, 0, g, m)
  <2>1. Stream(l, src, FileOf(packet), 0, g, m)  BY <1>1, <1>2, <1>3
  <2> QED  BY <2>1, StreamEnds
<1>4. ASSUME Len(file2) /= FileSize
      PROVE  Beginning(file2, FileSize) /\ Stream(l, src, FirstOf(file2), Len(file2), g, m)
  <2>1. Len(file2) < FileSize  BY <1>2, <1>4, FileSizeType
  <2>2. Beginning(file2, FileSize)  BY <1>2, <2>1 DEF Beginning, Prefix, FirstOf
  <2>3. EndOf(packet) = Len(file2)  BY <1>2, <1>4
  <2> QED  BY <1>1, <1>2, <2>2, <2>3
<1> QED  BY <1>3, <1>4 DEF Onward

LEMMA RemovedOneFile ==
  ASSUME NEW link, NEW l, NEW packet, NEW src, Takes(l, link, packet, src), OneFile(link, src),
         NEW f, NEW n, NEW g, NEW m, Stream(link, src, f, n, g, m)
  PROVE  OneFile(l, src) /\ (EndOf(packet) = 0 => DataAt(l, src) = {})
<1>0. PICK i \in DOMAIN link : /\ Removed(l, link, i) /\ packet = link[i] /\ OfData(packet, src)
                               /\ \A j \in DataAt(link, src) : i <= j
  BY DEF Takes
<1>1. \A k \in DataAt(l, src) : l[k] = link[k + 1] /\ k + 1 \in DataAt(link, src) /\ k + 1 > i
  BY <1>0, RemovedStream
<1>2. i \in DataAt(link, src) /\ i \in Int  BY <1>0 DEF DataAt, OfData, Removed
<1>3. \A k \in DataAt(l, src) : k \in Int  BY <1>0 DEF DataAt, Removed
<1>4. OneFile(l, src)
  <2> SUFFICES ASSUME NEW k \in DataAt(l, src), EndOf(l[k]) = 0, NEW j \in DataAt(l, src)
               PROVE  j <= k
    BY DEF OneFile
  <2>1. j + 1 <= k + 1  BY <1>1 DEF OneFile
  <2> QED  BY <1>3, <2>1
<1>5. ASSUME EndOf(packet) = 0, NEW k \in DataAt(l, src) PROVE FALSE
  <2>1. k + 1 <= i  BY <1>0, <1>1, <1>2, <1>5 DEF OneFile
  <2> QED  BY <1>1, <1>2, <1>3, <2>1
<1> QED  BY <1>4, <1>5

LEMMA ServerDataCarried ==
  ASSUME IInv, Carried, NEW c \in Clients, toServer[c] /= <<>>,
         NEW packet, packet = toServer[c][1], packet.command = "receive_data", ServerData(c, packet),
         toServer' = [toServer EXCEPT ![c] = Tail(@)],
         UNCHANGED <<connected, collecting, memory, sending, downloads>>
  PROVE  Carried'
<1>1. /\ Removed(toServer'[c], toServer[c], 1) /\ 1 \in DOMAIN toServer[c]
      /\ \A d \in Clients : d /= c => toServer'[d] = toServer[d]
  BY TailRemoves DEF IInv, Up
<1>2. packet \in DataOf({c}) /\ packet \in DataOf(Clients) /\ OfData(packet, c)
  <2>1. packet \in ToServer(c)  BY <1>1, ElementOfSeq, LenProperties DEF IInv, Up
  <2>2. packet \in DataOf({c})  BY <2>1 DEF ToServer
  <2> QED  BY <2>2 DEF DataOf, OfData
<1>3. 1 \in DataAt(toServer[c], c) /\ Takes(toServer'[c], toServer[c], packet, c)
  <2>1. 1 \in DataAt(toServer[c], c) /\ \A j \in DataAt(toServer[c], c) : 1 <= j
    BY <1>1, <1>2 DEF DataAt, OfData, Removed
  <2> QED  BY <1>1, <1>2, <2>1 DEF Takes
<1>4. CASE receivers[c] = None
  <2>1. /\ UNCHANGED <<proxies, receivers, uploads>> /\ cut' = cut \union {c}
        /\ toClient' = SendTo(toClient, c, Reject(None))
    BY <1>4 DEF ServerData, server
  <2>2. Reject(None) \in ToClient(c) /\ Other(Reject(None))
    BY ClientPackets DEF Other, Reject
  <2>3. Quiet  BY <2>1, <2>2, QuietSend
  <2>4. \A d \in Clients : d \notin cut' => KeptIn(d)
    BY <1>1, <2>1, <2>3, KeptInQuiet, EqualSame
  <2>5. \A q \in Pairs : KeptOut(q)
    BY <2>1, <2>3, KeptOutQuiet
  <2> QED  BY <2>1, <2>3, <2>4, <2>5, GoneQuiet, CarriedBy
<1>5. CASE receivers[c] /= None
  <2>0. PICK i, p, old, file :
          /\ i = receivers[c].proxy /\ p = <<proxies[i].admin, c>>
          /\ old = proxies[i].file /\ file = Received(old, packet)
    OBVIOUS
  <2>1. PICK total \in SizesRead(old, receivers[c].total, packet) :
          /\ receivers' = [receivers EXCEPT
                ![c] = IF Len(file) = total THEN None ELSE [@ EXCEPT !.total = total]]
          /\ proxies' = [proxies EXCEPT ![i].file = file, ![i].first = FALSE]
          /\ toClient' = IF proxies[i].first THEN SendTo(toClient, p[1], Response(c))
                         ELSE toClient
          /\ uploads' = IF proxies[i].first /\ uploads[p] = None
                        THEN [uploads EXCEPT ![p] = [proxy |-> i, sent |-> 0, max |-> total]]
                        ELSE uploads
    <3>1. PICK total \in SizesRead(proxies[receivers[c].proxy].file, receivers[c].total, packet) :
            /\ receivers' = [receivers EXCEPT
                  ![c] = IF Len(Received(proxies[receivers[c].proxy].file, packet)) = total
                         THEN None ELSE [@ EXCEPT !.total = total]]
            /\ proxies' = [proxies EXCEPT
                  ![receivers[c].proxy].file = Received(proxies[receivers[c].proxy].file, packet),
                  ![receivers[c].proxy].first = FALSE]
            /\ toClient' = IF proxies[receivers[c].proxy].first
                           THEN SendTo(toClient, proxies[receivers[c].proxy].admin, Response(c))
                           ELSE toClient
            /\ uploads' =
                 IF proxies[receivers[c].proxy].first
                    /\ uploads[<<proxies[receivers[c].proxy].admin, c>>] = None
                 THEN [uploads EXCEPT ![<<proxies[receivers[c].proxy].admin, c>>] =
                          [proxy |-> receivers[c].proxy, sent |-> 0, max |-> total]]
                 ELSE uploads
      BY <1>5 DEF ServerData
    <3>2. p[1] = proxies[receivers[c].proxy].admin  BY <2>0
    <3> QED  BY <2>0, <3>1, <3>2, Zenon
  <2>2. cut' = cut  BY <1>5 DEF ServerData
  <2>3. /\ i \in 1..Proxies /\ proxies[i].suspect = c /\ old \in Seq(Pieces) /\ p \in Pairs
        /\ p[1] \in Clients /\ p[2] = c /\ receivers[c] \in Receiver /\ proxies[i] \in Proxy
    BY <1>5, <2>0, ServerTypes, PairParts DEF IInv, ServerPart
  <2>4. /\ \A j \in 1..Proxies : j /= i => proxies'[j] = proxies[j]
        /\ proxies'[i].file = file
    BY <2>1, <2>3 DEF IInv, ServerPart, Proxy
  <2>5. /\ \A d \in Clients : d /= c => receivers'[d] = receivers[d]
        /\ receivers'[c] = IF Len(file) = total THEN None ELSE [receivers[c] EXCEPT !.total = total]
        /\ \A q \in Pairs : q /= p => uploads'[q] = uploads[q]
    BY <2>1, <2>3 DEF IInv, ServerPart
  <2>6. Quiet
    <3>1. Response(c) \in ToClient(p[1]) /\ Other(Response(c))
      BY <2>0, <2>3, ClientPackets DEF Sources, Other, Response
    <3> QED  BY <2>1, <2>3, <3>1, QuietSame, QuietSend
  <2>7. \A d \in Clients : d /= c /\ receivers[d] /= None => receivers[d].proxy /= i
    BY <2>3, ServerTypes
  <2>8. \A q \in Pairs : q /= p /\ uploads[q] /= None => uploads[q].proxy /= i
    BY <2>0, <2>3, ServerTypes
  <2>9. ASSUME NEW d \in Clients, d /= c PROVE KeptIn(d)
    BY <1>1, <2>4, <2>5, <2>6, <2>7, <2>9, KeptInQuiet, EqualSame, ServerTypes
  <2>10. ASSUME NEW q \in Pairs, q /= p PROVE KeptOut(q)
    BY <2>4, <2>5, <2>6, <2>8, <2>10, KeptOutQuiet, ServerTypes
  <2>11. ASSUME c \notin cut PROVE Incoming(c)' /\ (KeptOut(p) \/ Outgoing(p)')
    <3>0. PICK g, m : g = memory[c] /\ m = IF sending[c] = None THEN 0 ELSE sending[c]
      OBVIOUS
    <3>1. Underway(c, old, receivers[c].total)
      <4>1. Incoming(c)  BY <2>11 DEF Carried
      <4> QED  BY <1>3, <1>5, <2>0, <4>1 DEF Incoming, Waiting
    <3>2. /\ Beginning(old, receivers[c].total)
          /\ Stream(toServer[c], c, FirstOf(old), Len(old), g, m)
          /\ OneFile(toServer[c], c)
          /\ sending[c] /= 0 /\ RequestsOn(toClient[c]) = {} /\ collecting[c] = {}
      BY <1>3, <3>0, <3>1 DEF Underway
    <3>3. /\ \A size \in SizesRead(old, receivers[c].total, packet) : size = FileSize
          /\ file \in Seq(Pieces) /\ file /= <<>> /\ Len(file) \in Nat /\ Len(file) <= FileSize
          /\ Prefix(file, FirstOf(file))
          /\ old /= <<>> => FirstOf(file) = FirstOf(old)
          /\ Len(file) = FileSize => Stream(toServer'[c], c, 0, 0, g, m)
          /\ Len(file) /= FileSize =>
                Beginning(file, FileSize)
                /\ Stream(toServer'[c], c, FirstOf(file), Len(file), g, m)
          /\ EndOf(packet) = IF Len(file) = FileSize THEN 0 ELSE Len(file)
      <4>1. Onward(toServer'[c], c, file, g, m)
        BY <1>2, <1>3, <2>0, <2>3, <3>2, TakenStream
      <4>2. Grown(old, file, packet)
            /\ \A size \in SizesRead(old, receivers[c].total, packet) : size = FileSize
        BY <1>2, <1>3, <2>0, <2>3, <3>2, TakenFile
      <4> QED  BY <4>1, <4>2 DEF Onward, Grown
    <3>4. OneFile(toServer'[c], c) /\ (EndOf(packet) = 0 => DataAt(toServer'[c], c) = {})
      BY <1>3, <3>2, RemovedOneFile
    <3>5. total = FileSize  BY <2>1, <3>3
    <3>6. RequestsOn(toClient'[c]) = {} /\ collecting'[c] = {} /\ sending'[c] = sending[c]
          /\ memory'[c] = memory[c]
      BY <2>6, <3>2 DEF Quiet
    <3>7. Incoming(c)'
      <4>1. CASE Len(file) = FileSize
        <5>1. DataAt(toServer'[c], c) = {}  BY <3>3, <3>4, <4>1
        <5>2. m = 0  BY <3>3, <4>1, <5>1 DEF Stream
        <5>3. sending[c] = None  BY <3>0, <3>2, <5>2
        <5> QED  BY <2>5, <3>5, <3>6, <4>1, <5>1, <5>3 DEF Incoming, Nothing
      <4>2. CASE Len(file) /= FileSize
        <5>1. receivers'[c] = [receivers[c] EXCEPT !.total = FileSize]  BY <2>5, <3>5, <4>2
        <5>2. receivers'[c] /= None /\ receivers'[c].proxy = i /\ receivers'[c].total = FileSize
          BY <2>0, <2>3, <5>1, FileSizeType, NoneAssumption DEF Receiver, Sizes
        <5>3. sending[c] = None => DataAt(toServer'[c], c) /= {}
          <6> SUFFICES ASSUME sending[c] = None, DataAt(toServer'[c], c) = {} PROVE FALSE
            OBVIOUS
          <6>1. Len(file) = m /\ m = 0  BY <3>0, <3>3, <4>2 DEF Stream
          <6> QED  BY <3>3, <6>1, EmptySeq
        <5>4. Underway(c, file, FileSize)'
          <6>1. Stream(toServer'[c], c, FirstOf(file), Len(file), memory[c],
                       IF sending[c] = None THEN 0 ELSE sending[c])
            BY <3>0, <3>3, <4>2
          <6>2. Stream(toServer'[c], c, FirstOf(file), Len(file), memory'[c],
                       IF sending'[c] = None THEN 0 ELSE sending'[c])
            BY <3>6, <6>1
          <6> QED  BY <3>2, <3>3, <3>4, <3>6, <4>2, <5>3, <6>2 DEF Underway
        <5> QED  BY <2>4, <5>2, <5>4 DEF Incoming
      <4> QED  BY <4>1, <4>2
    <3>8. KeptOut(p) \/ Outgoing(p)'
      <4>0. PICK d, f, n :
              /\ d = downloads[p]
              /\ f = IF d = None THEN 0 ELSE FirstOf(d.file)
              /\ n = IF d = None THEN 0 ELSE Len(d.file)
        OBVIOUS
      <4>1. Outgoing(p)  BY <2>3, <2>11 DEF Carried
      <4>2. (d /= None => Beginning(d.file, d.total)) /\ downloads'[p] = d
        BY <4>0, <4>1 DEF Outgoing
      <4>3. CASE uploads[p] = None /\ proxies[i].first
        <5>1. uploads'[p] = [proxy |-> i, sent |-> 0, max |-> FileSize]
          BY <2>1, <2>3, <3>5, <4>3 DEF IInv, ServerPart
        <5>2. uploads'[p] /= None
          <6>1. [proxy |-> i, sent |-> 0, max |-> FileSize] \in Upload
            BY <2>3, FileSizeType DEF Upload
          <6> QED  BY <5>1, <6>1, NoneAssumption
        <5>3. p[1] \in connected => Stream(toClient[p[1]], p[2], f, n, 0, 0)
          BY <4>0, <4>1, <4>3 DEF Outgoing
        <5>4. p[1] \in connected => Stream(toClient'[p[1]], p[2], f, n, FirstOf(file), 0)
          <6>1. SameData(toClient[p[1]], toClient'[p[1]], p[2])  BY <2>3, <2>6 DEF Quiet
          <6>2. p[1] \in connected => Stream(toClient'[p[1]], p[2], f, n, 0, 0)
            BY <5>3, <6>1, SameStream
          <6> QED  BY <6>2, StreamEnds
        <5>5. uploads'[p].proxy = i /\ uploads'[p].sent = 0 /\ uploads'[p].max = FileSize
          BY <5>1
        <5>6. Outgoing(p)'
          <6>1. FileSize > 0  BY FileSizeType
          <6>2. proxies'[uploads'[p].proxy].file = file  BY <2>4, <5>5
          <6> QED  BY <3>3, <4>0, <4>2, <5>2, <5>4, <5>5, <6>1, <6>2 DEF Outgoing
        <5> QED  BY <5>6
      <4>4. CASE ~ (uploads[p] = None /\ proxies[i].first)
        <5>1. uploads'[p] = uploads[p]  BY <2>1, <4>4
        <5>2. CASE uploads[p] = None \/ uploads[p].proxy /= i
          BY <2>3, <2>4, <2>6, <5>1, <5>2, KeptOutQuiet, ServerTypes
        <5>3. CASE uploads[p] /= None /\ uploads[p].proxy = i
          <6>1. /\ uploads[p].max = FileSize /\ uploads[p].sent < FileSize /\ old /= <<>>
                /\ p[1] \in connected =>
                      Stream(toClient[p[1]], p[2], f, n, FirstOf(old), uploads[p].sent)
            BY <2>0, <4>0, <4>1, <5>3 DEF Outgoing
          <6>2. p[1] \in connected =>
                      Stream(toClient'[p[1]], p[2], f, n, FirstOf(file), uploads[p].sent)
            <7>1. SameData(toClient[p[1]], toClient'[p[1]], p[2])  BY <2>3, <2>6 DEF Quiet
            <7>2. FirstOf(file) = FirstOf(old)  BY <3>3, <6>1
            <7> QED  BY <6>1, <7>1, <7>2, SameStream
          <6>3. proxies'[uploads'[p].proxy].file = file  BY <2>4, <5>1, <5>3
          <6> QED  BY <3>3, <4>0, <4>2, <5>1, <5>3, <6>1, <6>2, <6>3 DEF Outgoing
        <5> QED  BY <5>2, <5>3
      <4> QED  BY <4>3, <4>4
    <3> QED  BY <3>7, <3>8
  <2>12. \A q \in Pairs : q[2] \notin cut' => KeptOut(q) \/ Outgoing(q)'
    BY <2>2, <2>3, <2>10, <2>11
  <2>13. \A d \in Clients : d \notin cut' => KeptIn(d) \/ Incoming(d)'
    BY <2>2, <2>9, <2>11
  <2> QED  BY <2>2, <2>6, <2>12, <2>13, GoneQuiet, CarriedBy
<1> QED  BY <1>4, <1>5

LEMMA ServerDeliverCarried ==
  ASSUME IInv, Carried, NEW c \in Clients, ServerDeliver(c)
  PROVE  Carried'
<1>1. PICK packet : packet = toServer[c][1]
  OBVIOUS
<1>2. /\ toServer[c] /= <<>> /\ toServer' = [toServer EXCEPT ![c] = Tail(@)]
      /\ UNCHANGED <<connected, collecting, memory, sending, downloads>>
      /\ \/ packet.command = "receive_data" /\ ServerData(c, packet)
         \/ packet.command = "abort_receive" /\ ServerAbort(c)
         \/ packet.command = "receive_rejected" /\ ServerReject(c, packet)
  <2>1. toServer[c] /= <<>>  BY DEF ServerDeliver
  <2>2. Head(toServer[c]) = packet  BY <1>1, <2>1, TailRemoves DEF IInv, Up
  <2> QED  BY <2>1, <2>2 DEF ServerDeliver, client
<1>3. /\ Removed(toServer'[c], toServer[c], 1) /\ packet \in ToServer(c)
      /\ \A d \in Clients : d /= c => toServer'[d] = toServer[d]
  <2>1. /\ Removed(toServer'[c], toServer[c], 1) /\ 1 \in DOMAIN toServer[c]
        /\ \A d \in Clients : d /= c => toServer'[d] = toServer[d]
    BY <1>2, TailRemoves DEF IInv, Up
  <2>2. packet \in ToServer(c)  BY <1>1, <2>1, ElementOfSeq, LenProperties DEF IInv, Up
  <2> QED  BY <2>1, <2>2
<1>4. ASSUME packet.command /= "receive_data", NEW d \in Clients
      PROVE  SameData(toServer[d], toServer'[d], d)
  <2>1. ~ OfData(toServer[c][1], c)  BY <1>1, <1>4 DEF OfData
  <2>2. SameData(toServer[c], toServer'[c], c)  BY <1>3, <2>1, RemovedSame
  <2> QED  BY <1>3, <2>2, EqualSame
<1>5. CASE packet.command = "receive_data" /\ ServerData(c, packet)
  BY <1>1, <1>2, <1>5, ServerDataCarried
<1>6. CASE packet.command = "abort_receive" /\ ServerAbort(c)
  <2>1. \A d \in Clients : SameData(toServer[d], toServer'[d], d)  BY <1>4, <1>6
  <2>2. CASE receivers[c] /= None
    BY <1>2, <1>6, <2>1, <2>2, StopReceiveCarried DEF ServerAbort
  <2>3. CASE receivers[c] = None
    <3>1. UNCHANGED <<proxies, receivers, uploads, toClient, cut>>
      BY <1>6, <2>3 DEF ServerAbort, server
    <3>2. Quiet  BY <3>1, QuietSame
    <3>3. \A d \in Clients : KeptIn(d)  BY <1>2, <2>1, <3>1, <3>2, KeptInQuiet
    <3>4. \A q \in Pairs : KeptOut(q)  BY <1>2, <3>1, <3>2, KeptOutQuiet
    <3> QED  BY <1>2, <3>1, <3>2, <3>3, <3>4, GoneQuiet, CarriedBy
  <2> QED  BY <2>2, <2>3
<1>7. CASE packet.command = "receive_rejected" /\ ServerReject(c, packet)
  <2>1. \A d \in Clients : SameData(toServer[d], toServer'[d], d)  BY <1>4, <1>7
  <2> QED  BY <1>2, <1>3, <1>7, <2>1, FromClient, ServerRejectCarried
<1> QED  BY <1>2, <1>5, <1>6, <1>7

LEMMA ServerTimeoutCarried ==
  ASSUME IInv, Carried, NEW c \in Clients, ServerTimeout(c)
  PROVE  Carried'
<1>1. /\ StopReceive(c) /\ toServer' = toServer
      /\ UNCHANGED <<connected, collecting, memory, sending, downloads>>
  BY DEF ServerTimeout, client
<1> QED  BY <1>1, EqualSame, StopReceiveCarried

LEMMA ServerUpdateCarried ==
  ASSUME IInv, Carried, NEW p \in Pairs, ServerUpdate(p)
  PROVE  Carried'
<1>1. p[1] \in Clients /\ p[2] \in Clients /\ p = <<p[1], p[2]>>
  BY PairParts
<1>2. /\ uploads[p] /= None
      /\ UNCHANGED <<proxies, receivers, connected, collecting, memory, sending, downloads,
                     toServer, cut>>
  BY DEF ServerUpdate, client
<1>3. PICK d, f, n :
        /\ d = downloads[p]
        /\ f = IF d = None THEN 0 ELSE FirstOf(d.file)
        /\ n = IF d = None THEN 0 ELSE Len(d.file)
  OBVIOUS
<1>4. CASE p[1] \notin connected
  <2>1. uploads' = [uploads EXCEPT ![p] = None] /\ toClient' = toClient
    BY <1>4 DEF ServerUpdate
  <2>2. uploads'[p] = None /\ \A q \in Pairs : q /= p => uploads'[q] = uploads[q]
    BY <2>1 DEF IInv, ServerPart
  <2>3. Quiet  BY <2>1, QuietSame
  <2>4. \A c \in Clients : KeptIn(c)  BY <1>2, <2>3, EqualSame, KeptInQuiet
  <2>5. \A q \in Pairs : q /= p => KeptOut(q)  BY <1>2, <2>2, <2>3, KeptOutQuiet
  <2>6. ASSUME p[2] \notin cut PROVE Outgoing(p)'
    <3>1. Outgoing(p)  BY <2>6 DEF Carried
    <3> QED  BY <1>2, <1>4, <2>2, <3>1 DEF Outgoing
  <2> QED  BY <1>2, <2>3, <2>4, <2>5, <2>6, GoneQuiet, CarriedBy
<1>5. CASE p[1] \in connected
  <2>1. PICK u, file : u = uploads[p] /\ file = proxies[u.proxy].file
    OBVIOUS
  <2>2. PICK k \in 1..MaxChunk :
          LET part == Chunk(proxies[uploads[p].proxy].file, uploads[p].sent, k)
              sent == uploads[p].sent + Len(part)
          IN /\ toClient' = SendTo(toClient, p[1],
                   Data(p[2], IF uploads[p].sent = 0 THEN uploads[p].max ELSE None, part))
             /\ uploads' = [uploads EXCEPT
                   ![p] = IF sent = uploads[p].max THEN None ELSE [@ EXCEPT !.sent = sent]]
    BY <1>5 DEF ServerUpdate
  <2>3. PICK part, sent, packet :
          /\ part = Chunk(file, u.sent, k) /\ sent = u.sent + Len(part)
          /\ packet = Data(p[2], IF u.sent = 0 THEN u.max ELSE None, part)
          /\ toClient' = SendTo(toClient, p[1], packet)
          /\ uploads' = [uploads EXCEPT ![p] = IF sent = u.max THEN None ELSE [u EXCEPT !.sent = sent]]
    BY <2>1, <2>2
  <2>4. /\ u \in Upload /\ u.proxy \in 1..Proxies /\ u.sent \in Nat /\ u.max \in Nat
        /\ file \in Seq(Pieces) /\ u.sent < Len(file)
    BY <1>2, <1>5, <2>1 DEF ServerUpdate, ReadyToSend, IInv, ServerPart, Upload, Proxy
  <2>5. part \in Seq(Pieces) /\ Len(part) \in Nat
    BY <2>3, <2>4, ChunkType
  <2>6. packet \in ToClient(p[1]) /\ packet.command = "receive_data" /\ packet.src = p[2]
    <3>1. p[2] \in Sources(p[1])  BY <1>1 DEF Sources
    <3>2. (IF u.sent = 0 THEN u.max ELSE None) \in Sizes  BY <2>4 DEF Sizes
    <3> QED  BY <1>1, <2>3, <2>5, <3>1, <3>2, ClientPackets DEF Data
  <2>7. /\ toClient'[p[1]] = Append(toClient[p[1]], packet)
        /\ \A c \in Clients : c /= p[1] => toClient'[c] = toClient[c]
    BY <1>1, <1>5, <2>3 DEF SendTo, IInv, Down
  <2>8. Added(toClient'[p[1]], toClient[p[1]], packet)
    BY <1>1, <2>6, <2>7, AppendAdds DEF IInv, Down
  <2>9. /\ \A q \in Pairs : q /= p => uploads'[q] = uploads[q]
        /\ uploads'[p] = IF sent = u.max THEN None ELSE [u EXCEPT !.sent = sent]
    BY <2>3 DEF IInv, ServerPart
  <2>10. ASSUME NEW c \in Clients PROVE KeptIn(c)
    <3>1. CASE c = p[1]
      <4>1. RequestsOn(toClient'[c]) = RequestsOn(toClient[c])
        BY <2>6, <2>8, <3>1, AddedRequests
      <4>2. OneRequest(toClient[c]) => OneRequest(toClient'[c])
        <5>1. \A i \in RequestsOn(toClient[c]) : i \in RequestsOn(toClient'[c])  BY <4>1
        <5> QED  BY <4>1, <5>1 DEF OneRequest
      <4> QED  BY <1>2, <4>1, <4>2, EqualSame DEF KeptIn
    <3>2. CASE c /= p[1]
      BY <1>2, <2>7, <3>2, EqualSame DEF KeptIn
    <3> QED  BY <3>1, <3>2
  <2>11. ASSUME NEW q \in Pairs, q /= p PROVE KeptOut(q)
    <3>1. q[1] \in Clients /\ q = <<q[1], q[2]>>  BY PairParts
    <3>2. SameData(toClient[q[1]], toClient'[q[1]], q[2])
      <4>1. CASE q[1] = p[1]
        <5>1. q[2] /= p[2]  BY <1>1, <2>11, <3>1, <4>1
        <5>2. ~ OfData(packet, q[2])  BY <2>6, <5>1 DEF OfData
        <5> QED  BY <2>8, <4>1, <5>2, AddedSame
      <4>2. CASE q[1] /= p[1]
        BY <2>7, <3>1, <4>2, EqualSame
      <4> QED  BY <4>1, <4>2
    <3> QED  BY <1>2, <2>9, <2>11, <3>2 DEF KeptOut
  <2>12. ASSUME p[2] \notin cut PROVE Outgoing(p)'
    <3>1. Outgoing(p)  BY <2>12 DEF Carried
    <3>2. /\ u.max = FileSize /\ u.sent < FileSize
          /\ file /= <<>> /\ Prefix(file, FirstOf(file)) /\ Len(file) <= FileSize
          /\ d /= None => Beginning(d.file, d.total)
          /\ Stream(toClient[p[1]], p[2], f, n, FirstOf(file), u.sent)
      BY <1>2, <1>3, <1>5, <2>1, <3>1 DEF Outgoing
    <3>3. /\ PartOK(packet) /\ OfData(packet, p[2])
          /\ StartOf(packet) = u.sent /\ FileOf(packet) = FirstOf(file)
          /\ Len(part) >= 1 /\ sent <= Len(file)
          /\ EndOf(packet) = IF sent = FileSize THEN 0 ELSE sent
      <4>1. packet = Data(p[2], IF u.sent = 0 THEN FileSize ELSE None, part)  BY <2>3, <3>2
      <4>2. ChunkOf(packet, FirstOf(file), u.sent, u.sent + Len(part)) /\ OfData(packet, p[2])
            /\ Len(part) >= 1 /\ u.sent + Len(part) <= Len(file)
        BY <2>3, <2>4, <3>2, <4>1, ChunkPart
      <4> QED  BY <2>3, <4>2 DEF ChunkOf
    <3>4. Follows(packet, FirstOf(file), u.sent)  BY <3>3 DEF Follows
    <3>5. Stream(toClient'[p[1]], p[2], f, n, FirstOf(file), EndOf(packet))
      BY <2>8, <3>2, <3>3, <3>4, AddedStream
    <3>6. proxies'[u.proxy].file = file /\ downloads'[p] = d
      BY <1>2, <1>3, <2>1
    <3>7. CASE sent = FileSize
      <4>1. uploads'[p] = None  BY <2>9, <3>2, <3>7
      <4>2. Stream(toClient'[p[1]], p[2], f, n, FirstOf(file), 0)  BY <3>3, <3>5, <3>7
      <4>3. Stream(toClient'[p[1]], p[2], f, n, 0, 0)  BY <4>2, StreamEnds
      <4> QED  BY <1>3, <3>2, <3>6, <4>1, <4>3 DEF Outgoing
    <3>8. CASE sent /= FileSize
      <4>1. uploads'[p] = [u EXCEPT !.sent = sent]  BY <2>9, <3>2, <3>8
      <4>2. sent \in Nat /\ sent < FileSize
        <5>1. Len(file) \in Nat /\ sent \in Nat  BY <2>3, <2>4, <2>5, LenProperties
        <5> QED  BY <3>2, <3>3, <3>8, <5>1, FileSizeType
      <4>3. /\ uploads'[p] \in Upload /\ uploads'[p].proxy = u.proxy
            /\ uploads'[p].max = FileSize /\ uploads'[p].sent = sent
        BY <2>4, <3>2, <4>1, <4>2 DEF Upload
      <4>4. uploads'[p] /= None  BY <4>3, NoneAssumption
      <4>5. Stream(toClient'[p[1]], p[2], f, n, FirstOf(file), sent)  BY <3>3, <3>5, <3>8
      <4>6. proxies'[uploads'[p].proxy].file = file  BY <3>6, <4>3
      <4> QED  BY <1>3, <3>2, <3>6, <4>2, <4>3, <4>4, <4>5, <4>6 DEF Outgoing
    <3> QED  BY <3>7, <3>8
  <2>13. \A q \in Pairs : q[1] \notin connected => downloads'[q] = None /\ toClient'[q[1]] = <<>>
    BY <1>2, <1>5, <2>7, PairParts DEF Carried
  <2> QED  BY <1>2, <2>10, <2>11, <2>12, <2>13, CarriedBy
<1> QED  BY <1>4, <1>5

-----------------------------------------------------------------------------
(* The clients carry on.                                                   *)

LEMMA QuietRemove ==
  ASSUME IInv, NEW c \in Clients, NEW i \in DOMAIN toClient[c], Other(toClient[c][i]),
         toClient' = [toClient EXCEPT ![c] = RemoveAt(@, i)]
  PROVE  Quiet
<1>1. Removed(toClient'[c], toClient[c], i) /\ \A d \in Clients : d /= c => toClient'[d] = toClient[d]
  BY RemoveAtRemoves DEF IInv, Down
<1>2. /\ toClient[c][i].command /= "GAME_EVENT_MAKE_DATA"
      /\ \A s : ~ OfData(toClient[c][i], s)
  BY DEF Other, OfData
<1>3. \A s : SameData(toClient[c], toClient'[c], s)  BY <1>1, <1>2, RemovedSame
<1>4. /\ RequestsOn(toClient[c]) = {} => RequestsOn(toClient'[c]) = {}
      /\ OneRequest(toClient[c]) => OneRequest(toClient'[c])
  BY <1>1, <1>2, RemovedRequests
<1>5. toClient[c] /= <<>>  OBVIOUS
<1> QED  BY <1>1, <1>3, <1>4, <1>5, EqualSame DEF Quiet

LEMMA SendAdds ==
  ASSUME IInv, NEW c \in Clients, NEW packet \in ToServer(c), Send(c, packet)
  PROVE  /\ Added(toServer'[c], toServer[c], packet)
         /\ \A d \in Clients : d /= c => toServer'[d] = toServer[d]
BY AppendAdds DEF Send, IInv, Up

\* Nobody receives less for a packet that is no data.
LEMMA SendOther ==
  ASSUME IInv, NEW c \in Clients, NEW packet \in ToServer(c), Send(c, packet),
         packet.command /= "receive_data", NEW d \in Clients
  PROVE  SameData(toServer[d], toServer'[d], d)
<1>1. ~ OfData(packet, d)  BY DEF OfData
<1>2. CASE d = c  BY <1>1, <1>2, SendAdds, AddedSame
<1>3. CASE d /= c
  <2>1. toServer'[d] = toServer[d]  BY <1>3, SendAdds
  <2> QED  BY <2>1, EqualSame
<1> QED  BY <1>2, <1>3

LEMMA StopDownloadCarried ==
  ASSUME IInv, Carried, NEW p \in Pairs, downloads[p] /= None, StopDownload(p), Quiet,
         UNCHANGED <<proxies, receivers, uploads, connected, collecting, memory, sending>>
  PROVE  Carried'
<1>1. p[1] \in Clients /\ p[2] \in Clients /\ p = <<p[1], p[2]>>
  BY PairParts
<1>2. /\ \A q \in Pairs : q /= p => downloads'[q] = downloads[q]
      /\ downloads'[p] = None /\ cut' = cut \union {p[2]}
      /\ toServer' = toServer \/ Send(p[1], Reject(p[2]))
  BY DEF StopDownload, IInv, BinderPart
<1>3. Reject(p[2]) \in ToServer(p[1]) /\ Reject(p[2]).command /= "receive_data"
  BY <1>1, ServerPackets DEF Sources, Reject
<1>4. \A d \in Clients : SameData(toServer[d], toServer'[d], d)
  BY <1>1, <1>2, <1>3, SendOther, EqualSame
<1>5. \A d \in Clients : KeptIn(d)
  BY <1>4, KeptInQuiet
<1>6. ASSUME NEW q \in Pairs, q /= p PROVE KeptOut(q)
  BY <1>2, <1>6, PairParts DEF Quiet, KeptOut
<1>7. \A q \in Pairs : q[1] \notin connected => downloads'[q] = None /\ toClient'[q[1]] = <<>>
  BY <1>2, PairParts DEF Quiet, Carried
<1> QED  BY <1>2, <1>5, <1>6, <1>7, CarriedBy

LEMMA ClientTimeoutCarried ==
  ASSUME IInv, Carried, NEW p \in Pairs, ClientTimeout(p)
  PROVE  Carried'
<1>1. /\ downloads[p] /= None /\ StopDownload(p) /\ toClient' = toClient
      /\ UNCHANGED <<proxies, receivers, uploads, connected, collecting, memory, sending>>
  BY DEF ClientTimeout, server
<1> QED  BY <1>1, QuietSame, StopDownloadCarried

LEMMA RequestCarried ==
  ASSUME IInv, Carried, NEW c \in Clients, NEW i \in DOMAIN toClient[c],
         NEW packet, packet = toClient[c][i], packet.command = "GAME_EVENT_MAKE_DATA",
         packet.kind \in Kinds, OnRequest(c, packet),
         toClient' = [toClient EXCEPT ![c] = RemoveAt(@, i)],
         UNCHANGED <<proxies, receivers, uploads, connected>>
  PROVE  Carried'
<1>1. /\ collecting' = [collecting EXCEPT ![c] = @ \union {packet.kind}]
      /\ UNCHANGED <<memory, sending, downloads, toServer, cut>>
  BY DEF OnRequest
<1>2. Removed(toClient'[c], toClient[c], i) /\ \A d \in Clients : d /= c => toClient'[d] = toClient[d]
  BY RemoveAtRemoves DEF IInv, Down
<1>3. \A d \in Clients : \A s : SameData(toClient[d], toClient'[d], s)
  <2>1. \A s : ~ OfData(toClient[c][i], s)  BY DEF OfData
  <2> QED  BY <1>2, <2>1, RemovedSame, EqualSame
<1>4. \A q \in Pairs : KeptOut(q)
  BY <1>1, <1>3, PairParts DEF KeptOut
<1>5. ASSUME NEW d \in Clients, d /= c PROVE KeptIn(d)
  BY <1>1, <1>2, <1>5, EqualSame DEF KeptIn, IInv, Rest
<1>6. ASSUME c \notin cut PROVE Incoming(c)'
  <2>1. i \in RequestsOn(toClient[c])  BY DEF RequestsOn
  <2>2. Incoming(c)  BY <1>6 DEF Carried
  <2>3. receivers[c] /= None  BY <2>1, <2>2 DEF Incoming, Nothing
  <2>4. Waiting(c, proxies[receivers[c].proxy].file) /\ collecting[c] = {} /\ OneRequest(toClient[c])
    BY <2>1, <2>2, <2>3 DEF Incoming, Waiting, Underway
  <2>5. RequestsOn(toClient'[c]) = {}  BY <1>2, <2>4, RemovedRequests
  <2>6. collecting'[c] = {packet.kind}  BY <1>1, <2>4 DEF IInv, Rest
  <2>7. Waiting(c, proxies[receivers[c].proxy].file)'
    BY <1>1, <2>4, <2>5, <2>6 DEF Waiting
  <2> QED  BY <2>3, <2>7 DEF Incoming
<1>7. \A q \in Pairs : q[1] \notin connected => downloads'[q] = None /\ toClient'[q[1]] = <<>>
  <2>1. toClient[c] /= <<>>  OBVIOUS
  <2> QED  BY <1>1, <1>2, <2>1, PairParts DEF Carried
<1> QED  BY <1>1, <1>4, <1>5, <1>6, <1>7, CarriedBy

LEMMA ResponseCarried ==
  ASSUME IInv, Carried, Quiet, NEW c \in Clients, NEW packet, packet.src \in Sources(c),
         OnResponse(c, packet), UNCHANGED <<proxies, receivers, uploads, connected>>,
         c \in connected
  PROVE  Carried'
<1>1. PICK p : p = <<c, packet.src>>
  OBVIOUS
<1>2. p \in Pairs /\ p[1] = c  BY <1>1 DEF Sources
<1>3. /\ UNCHANGED <<collecting, memory, sending, toServer, cut>>
      /\ \/ UNCHANGED downloads
         \/ /\ downloads[p] = None
            /\ \E i \in 1..Binders :
                  downloads' = [downloads EXCEPT ![p] = [binder |-> i, file |-> <<>>, total |-> None]]
  BY <1>1 DEF OnResponse
<1>4. \A d \in Clients : KeptIn(d)
  BY <1>3, KeptInQuiet, EqualSame
<1>5. CASE UNCHANGED downloads
  <2>1. \A q \in Pairs : KeptOut(q)  BY <1>5, KeptOutQuiet
  <2> QED  BY <1>3, <1>4, <1>5, <2>1, GoneQuiet, CarriedBy
<1>6. ASSUME downloads[p] = None, NEW i \in 1..Binders,
             downloads' = [downloads EXCEPT ![p] = [binder |-> i, file |-> <<>>, total |-> None]]
      PROVE  Carried'
  <2>1. /\ downloads'[p].file = <<>>
        /\ \A q \in Pairs : q /= p => downloads'[q] = downloads[q]
    BY <1>2, <1>6 DEF IInv, BinderPart
  <2>2. ASSUME NEW q \in Pairs, q /= p PROVE KeptOut(q)
    BY <2>1, <2>2, PairParts DEF Quiet, KeptOut
  <2>3. ASSUME p[2] \notin cut PROVE Outgoing(p)'
    <3>1. Outgoing(p)  BY <1>2, <2>3 DEF Carried
    <3>2. PICK g, m : /\ g = IF uploads[p] = None THEN 0 ELSE FirstOf(proxies[uploads[p].proxy].file)
                      /\ m = IF uploads[p] = None THEN 0 ELSE uploads[p].sent
      OBVIOUS
    <3>3. p[1] \in connected => Stream(toClient[p[1]], p[2], 0, 0, g, m)
      BY <1>6, <3>1, <3>2 DEF Outgoing
    <3>4. SameData(toClient[p[1]], toClient'[p[1]], p[2])  BY <1>2 DEF Quiet
    <3>5. p[1] \in connected => Stream(toClient'[p[1]], p[2], 0, 0, g, m)
      BY <3>3, <3>4, SameStream
    <3>6. FirstOf(<<>>) = 0 /\ Len(<<>>) = 0  BY DEF FirstOf
    <3>7. Beginning(<<>>, downloads'[p].total)  BY DEF Beginning
    <3> QED  BY <2>1, <3>1, <3>2, <3>5, <3>6, <3>7 DEF Outgoing
  <2>4. \A q \in Pairs : q[1] \notin connected => downloads'[q] = None /\ toClient'[q[1]] = <<>>
    BY <1>2, <2>1, PairParts DEF Quiet, Carried
  <2> QED  BY <1>3, <1>4, <2>2, <2>3, <2>4, CarriedBy
<1> QED  BY <1>3, <1>5, <1>6

LEMMA DataCarried ==
  ASSUME IInv, Carried, NEW c \in Clients, NEW i \in Arriving(toClient[c]),
         NEW packet, packet = toClient[c][i], packet.command = "receive_data",
         packet \in DataOf(Clients), packet.src \in Sources(c), OnData(c, packet),
         toClient' = [toClient EXCEPT ![c] = RemoveAt(@, i)],
         UNCHANGED <<proxies, receivers, uploads, connected>>
  PROVE  Carried'
<1>1. PICK p, d : p = <<c, packet.src>> /\ d = downloads[p]
  OBVIOUS
<1>2. p \in Pairs /\ p[1] = c /\ p[2] = packet.src  BY <1>1 DEF Sources
<1>3. i \in DOMAIN toClient[c] /\ toClient[c] /= <<>>
  BY DEF Arriving
<1>4. Removed(toClient'[c], toClient[c], i) /\ \A e \in Clients : e /= c => toClient'[e] = toClient[e]
  BY <1>3, RemoveAtRemoves DEF IInv, Down
<1>5. UNCHANGED <<collecting, memory, sending>>
  BY DEF OnData
<1>6. ASSUME NEW e \in Clients, SameData(toServer[e], toServer'[e], e) PROVE KeptIn(e)
  <2>1. /\ RequestsOn(toClient[e]) = {} => RequestsOn(toClient'[e]) = {}
        /\ OneRequest(toClient[e]) => OneRequest(toClient'[e])
    <3>1. CASE e = c
      <4>1. toClient[c][i].command /= "GAME_EVENT_MAKE_DATA"  OBVIOUS
      <4> QED  BY <1>4, <3>1, <4>1, RemovedRequests
    <3>2. CASE e /= c  BY <1>4, <3>2
    <3> QED  BY <3>1, <3>2
  <2> QED  BY <1>5, <1>6, <2>1 DEF KeptIn
<1>7. ASSUME NEW q \in Pairs, q /= p PROVE SameData(toClient[q[1]], toClient'[q[1]], q[2])
  <2>1. q[1] \in Clients /\ q = <<q[1], q[2]>>  BY PairParts
  <2>2. CASE q[1] = c
    <3>1. q[2] /= packet.src  BY <1>1, <1>7, <2>1, <2>2
    <3>2. ~ OfData(toClient[c][i], q[2])  BY <3>1 DEF OfData
    <3> QED  BY <1>4, <2>2, <3>2, RemovedSame
  <2>3. CASE q[1] /= c
    BY <1>4, <2>1, <2>3, EqualSame
  <2> QED  BY <2>2, <2>3
<1>8. CASE d = None
  <2>1. Send(c, Reject(packet.src)) /\ cut' = cut \union {packet.src} /\ downloads' = downloads
    BY <1>1, <1>8 DEF OnData
  <2>2. Reject(packet.src) \in ToServer(c) /\ Reject(packet.src).command /= "receive_data"
    BY ServerPackets DEF Reject
  <2>3. \A e \in Clients : KeptIn(e)  BY <1>6, <2>1, <2>2, SendOther
  <2>4. \A q \in Pairs : q /= p => KeptOut(q)  BY <1>7, <2>1 DEF KeptOut
  <2>5. \A q \in Pairs : q[1] \notin connected => downloads'[q] = None /\ toClient'[q[1]] = <<>>
    BY <1>3, <1>4, <2>1, PairParts DEF Carried
  <2> QED  BY <1>2, <2>1, <2>3, <2>4, <2>5, CarriedBy
<1>9. CASE d /= None
  <2>1. PICK file : file = Received(d.file, packet)
    OBVIOUS
  <2>2. PICK total \in SizesRead(d.file, d.total, packet) :
          IF Len(file) = total
          THEN downloads' = [downloads EXCEPT ![p] = None]
          ELSE downloads' = [downloads EXCEPT ![p].file = file, ![p].total = total]
    <3>1. downloads[<<c, packet.src>>] /= None  BY <1>1, <1>9
    <3>2. PICK total \in SizesRead(downloads[<<c, packet.src>>].file,
                                   downloads[<<c, packet.src>>].total, packet) :
            IF Len(Received(downloads[<<c, packet.src>>].file, packet)) = total
            THEN downloads' = [downloads EXCEPT ![<<c, packet.src>>] = None]
            ELSE downloads' = [downloads EXCEPT
                    ![<<c, packet.src>>].file = Received(downloads[<<c, packet.src>>].file, packet),
                    ![<<c, packet.src>>].total = total]
      BY <3>1 DEF OnData
    <3> QED  BY <1>1, <2>1, <3>2, Zenon
  <2>3. UNCHANGED <<toServer, cut>>  BY <1>1, <1>9 DEF OnData
  <2>4. \A q \in Pairs : q /= p => downloads'[q] = downloads[q]
    BY <2>2 DEF IInv, BinderPart
  <2>5. \A e \in Clients : KeptIn(e)  BY <1>6, <2>3, EqualSame
  <2>6. \A q \in Pairs : q /= p => KeptOut(q)  BY <1>7, <2>4 DEF KeptOut
  <2>7. p[1] \in connected  BY <1>1, <1>2, <1>9 DEF Carried
  <2>8. ASSUME p[2] \notin cut PROVE Outgoing(p)'
    <3>1. Outgoing(p)  BY <1>2, <2>8 DEF Carried
    <3>2. PICK g, m : /\ g = IF uploads[p] = None THEN 0 ELSE FirstOf(proxies[uploads[p].proxy].file)
                      /\ m = IF uploads[p] = None THEN 0 ELSE uploads[p].sent
      OBVIOUS
    <3>3. /\ Beginning(d.file, d.total)
          /\ Stream(toClient[p[1]], p[2], FirstOf(d.file), Len(d.file), g, m)
      BY <1>1, <1>9, <2>7, <3>1, <3>2 DEF Outgoing
    <3>4. d \in Download /\ d.file \in Seq(Pieces)
      BY <1>1, <1>2, <1>9 DEF IInv, BinderPart, Download
    <3>5. Takes(toClient'[c], toClient[c], packet, p[2])
      <4>1. OfData(packet, p[2])  BY <1>2 DEF OfData
      <4>2. OfFile(toClient[c][i])  BY DEF OfFile
      <4>3. ASSUME NEW j \in DataAt(toClient[c], p[2]) PROVE i <= j
        <5>1. j \in DOMAIN toClient[c] /\ OfFile(toClient[c][j])  BY DEF DataAt, OfFile
        <5>2. i \in 1..Len(toClient[c]) /\ j \in 1..Len(toClient[c]) /\ Len(toClient[c]) \in Nat
          BY <1>3, <1>4, <5>1 DEF Removed
        <5>3. j \notin 1..(i - 1)  BY <5>1, <5>2 DEF Arriving
        <5> QED  BY <5>2, <5>3
      <4> QED  BY <1>3, <1>4, <4>1, <4>3 DEF Takes
    <3>6. Grown(d.file, file, packet) /\ \A size \in SizesRead(d.file, d.total, packet) : size = FileSize
      BY <1>2, <2>1, <3>3, <3>4, <3>5, TakenFile
    <3>7. Onward(toClient'[c], p[2], file, g, m)
      BY <1>2, <2>1, <3>3, <3>4, <3>5, TakenStream
    <3>8. total = FileSize  BY <2>2, <3>6
    <3>9. CASE Len(file) = FileSize
      <4>1. downloads'[p] = None  BY <1>2, <2>2, <3>8, <3>9 DEF IInv, BinderPart
      <4>2. Stream(toClient'[p[1]], p[2], 0, 0, g, m)  BY <1>2, <3>7, <3>9 DEF Onward
      <4> QED  BY <3>1, <3>2, <4>1, <4>2 DEF Outgoing
    <3>10. CASE Len(file) /= FileSize
      <4>1. downloads'[p] = [d EXCEPT !.file = file, !.total = FileSize]
        BY <1>1, <1>2, <2>2, <3>8, <3>10 DEF IInv, BinderPart
      <4>2. downloads'[p].file = file /\ downloads'[p].total = FileSize /\ downloads'[p] \in Download
        BY <3>4, <3>6, <4>1, FileSizeType DEF Download, Sizes, Grown
      <4>3. downloads'[p] /= None  BY <4>2, NoneAssumption
      <4>4. Beginning(file, FileSize) /\ Stream(toClient'[p[1]], p[2], FirstOf(file), Len(file), g, m)
        BY <1>2, <3>7, <3>10 DEF Onward
      <4> QED  BY <3>1, <3>2, <4>2, <4>3, <4>4 DEF Outgoing
    <3> QED  BY <3>9, <3>10
  <2>9. \A q \in Pairs : q[1] \notin connected => downloads'[q] = None /\ toClient'[q[1]] = <<>>
    BY <1>2, <1>3, <1>4, <2>4, <2>7, PairParts DEF Carried
  <2> QED  BY <2>3, <2>5, <2>6, <2>8, <2>9, CarriedBy
<1> QED  BY <1>8, <1>9

LEMMA ClientDeliverCarried ==
  ASSUME IInv, Carried, NEW c \in Clients, ClientDeliver(c)
  PROVE  Carried'
<1>1. PICK i \in Arriving(toClient[c]) :
        LET packet == toClient[c][i]
        IN /\ toClient' = [toClient EXCEPT ![c] = RemoveAt(@, i)]
           /\ \/ packet.command = "GAME_EVENT_MAKE_DATA" /\ OnRequest(c, packet)
              \/ packet.command = "e_response" /\ OnResponse(c, packet)
              \/ packet.command = "receive_data" /\ OnData(c, packet)
              \/ packet.command = "abort_receive" /\ OnAbort(c, packet)
              \/ packet.command = "receive_rejected" /\ OnReject(c)
  BY DEF ClientDeliver
<1>2. PICK packet : packet = toClient[c][i]
  OBVIOUS
<1>3. /\ i \in DOMAIN toClient[c] /\ packet \in ToClient(c)
      /\ packet.command = "receive_data" => packet \in DataOf(Clients)
      /\ packet.command \in {"receive_data", "abort_receive", "e_response"} =>
            packet.src \in Sources(c)
      /\ packet.command = "GAME_EVENT_MAKE_DATA" => packet.kind \in Kinds
  <2>1. i \in DOMAIN toClient[c] /\ toClient[c] \in Seq(ToClient(c))
    BY DEF Arriving, IInv, Down
  <2>2. packet \in ToClient(c)  BY <1>2, <2>1, RemoveAtType
  <2> QED  BY <2>1, <2>2, FromServer
<1>4. UNCHANGED <<proxies, receivers, uploads, connected>>
      /\ toClient' = [toClient EXCEPT ![c] = RemoveAt(@, i)]
  BY <1>1 DEF ClientDeliver, server
<1>5. CASE packet.command = "GAME_EVENT_MAKE_DATA" /\ OnRequest(c, packet)
  BY <1>2, <1>3, <1>4, <1>5, RequestCarried
<1>6. CASE packet.command = "receive_data" /\ OnData(c, packet)
  BY <1>2, <1>3, <1>4, <1>6, DataCarried
<1>7. ASSUME Other(packet) PROVE Quiet
  BY <1>2, <1>3, <1>4, <1>7, QuietRemove
<1>8. CASE packet.command = "e_response" /\ OnResponse(c, packet)
  <2>1. Quiet  BY <1>7, <1>8 DEF Other
  <2>2. packet.src \in Sources(c)  BY <1>3, <1>8
  <2>3. c \in connected
    <3>1. <<c, packet.src>> \in Pairs /\ <<c, packet.src>>[1] = c  BY <2>2 DEF Sources
    <3>2. toClient[c] /= <<>>  BY <1>3
    <3> QED  BY <3>1, <3>2 DEF Carried
  <2> QED  BY <1>4, <1>8, <2>1, <2>2, <2>3, ResponseCarried
<1>9. CASE packet.command = "abort_receive" /\ OnAbort(c, packet)
  <2>1. Quiet  BY <1>7, <1>9 DEF Other
  <2>2. <<c, packet.src>> \in Pairs  BY <1>3, <1>9 DEF Sources
  <2>3. UNCHANGED <<collecting, memory, sending>>  BY <1>9 DEF OnAbort
  <2>4. CASE downloads[<<c, packet.src>>] /= None
    <3>1. StopDownload(<<c, packet.src>>)  BY <1>9, <2>4 DEF OnAbort
    <3> QED  BY <1>4, <2>1, <2>2, <2>3, <2>4, <3>1, StopDownloadCarried
  <2>5. CASE downloads[<<c, packet.src>>] = None
    <3>1. UNCHANGED <<downloads, toServer, cut>>  BY <1>9, <2>5 DEF OnAbort
    <3>2. \A d \in Clients : KeptIn(d)
      BY <1>4, <2>1, <2>3, <3>1, EqualSame, KeptInQuiet
    <3>3. \A q \in Pairs : KeptOut(q)  BY <1>4, <2>1, <3>1, KeptOutQuiet
    <3> QED  BY <1>4, <2>1, <3>1, <3>2, <3>3, GoneQuiet, CarriedBy
  <2> QED  BY <2>4, <2>5
<1>10. CASE packet.command = "receive_rejected" /\ OnReject(c)
  <2>1. Quiet  BY <1>7, <1>10 DEF Other
  <2>2. /\ UNCHANGED <<collecting, memory, downloads>> /\ cut' = cut \union {c}
        /\ \/ UNCHANGED <<sending, toServer>>
           \/ sending' = [sending EXCEPT ![c] = None] /\ Send(c, Abort(None))
    BY <1>10 DEF OnReject
  <2>3. Abort(None) \in ToServer(c) /\ Abort(None).command /= "receive_data"
    BY ServerPackets DEF Abort
  <2>4. \A d \in Clients : SameData(toServer[d], toServer'[d], d)
    BY <2>2, <2>3, SendOther, EqualSame
  <2>5. ASSUME NEW d \in Clients, d /= c PROVE KeptIn(d)
    <3>1. sending'[d] = sending[d]  BY <2>2, <2>5 DEF IInv, Rest
    <3> QED  BY <1>4, <2>1, <2>2, <2>4, <3>1 DEF Quiet, KeptIn
  <2>6. \A q \in Pairs : KeptOut(q)  BY <1>4, <2>1, <2>2, KeptOutQuiet
  <2> QED  BY <1>4, <2>1, <2>2, <2>5, <2>6, GoneQuiet, CarriedBy
<1> QED  BY <1>1, <1>2, <1>5, <1>6, <1>8, <1>9, <1>10

\* A packet more does not follow the end of a file.
LEMMA AddedOneFile ==
  ASSUME NEW link, NEW l, NEW packet, NEW src, Added(l, link, packet), OneFile(link, src),
         NEW f, NEW n, NEW g, NEW m, Stream(link, src, f, n, g, m),
         m = 0 => DataAt(link, src) = {}
  PROVE  OneFile(l, src)
<1>1. /\ Len(l) \in Int /\ DOMAIN l = DOMAIN link \union {Len(l)}
      /\ \A i \in DOMAIN link : l[i] = link[i] /\ i < Len(l) /\ i \in Int
  BY DEF Added
<1> SUFFICES ASSUME NEW i \in DataAt(l, src), EndOf(l[i]) = 0, NEW j \in DataAt(l, src)
             PROVE  j <= i
  BY DEF OneFile
<1>2. j \in DOMAIN l /\ i \in DOMAIN l  BY DEF DataAt
<1>3. CASE i = Len(l)
  <2>1. CASE j = Len(l)  BY <1>1, <1>3, <2>1
  <2>2. CASE j \in DOMAIN link
    <3>1. j < Len(l) /\ j \in Int  BY <1>1, <2>2
    <3> QED  BY <1>1, <1>3, <3>1
  <2> QED  BY <1>1, <1>2, <2>1, <2>2
<1>4. CASE i /= Len(l)
  <2>1. i \in DataAt(link, src) /\ EndOf(link[i]) = 0  BY <1>1, <1>4 DEF DataAt
  <2>2. \A k \in DataAt(link, src) : k <= i  BY <2>1 DEF OneFile
  <2>3. m = 0  BY <2>1, <2>2 DEF Stream
  <2> QED  BY <2>1, <2>3
<1> QED  BY <1>3, <1>4

LEMMA ClientUpdateCarried ==
  ASSUME IInv, Carried, NEW c \in Clients, ClientUpdate(c)
  PROVE  Carried'
<1>1. PICK file, s : file = [i \in 1..FileSize |-> <<memory[c], i>>] /\ s = sending[c]
  OBVIOUS
<1>2. PICK n \in 1..MaxChunk :
        LET part == Chunk([i \in 1..FileSize |-> <<memory[c], i>>], sending[c], n)
            sent == sending[c] + Len(part)
        IN /\ Send(c, Data(c, IF sending[c] = 0 THEN FileSize ELSE None, part))
           /\ sending' = [sending EXCEPT ![c] = IF sent = FileSize THEN None ELSE sent]
  BY DEF ClientUpdate
<1>3. PICK part, next, packet :
        /\ part = Chunk(file, s, n) /\ next = s + Len(part)
        /\ packet = Data(c, IF s = 0 THEN FileSize ELSE None, part)
        /\ Send(c, packet)
        /\ sending' = [sending EXCEPT ![c] = IF next = FileSize THEN None ELSE next]
  BY <1>1, <1>2
<1>4. UNCHANGED <<proxies, receivers, uploads, connected, collecting, memory, downloads,
                  toClient, cut>> /\ s /= None
  BY <1>1 DEF ClientUpdate, server
<1>5. /\ file \in Seq(Pieces) /\ Len(file) = FileSize /\ Prefix(file, memory[c])
      /\ s \in Nat /\ s < Len(file)
  <2>1. memory[c] \in Nat /\ FileSize \in Nat /\ s \in 0..(FileSize - 1)
    BY <1>1, <1>4, TransferAssumption DEF IInv, Rest
  <2>2. \A i \in 1..FileSize : <<memory[c], i>> \in Pieces  BY <2>1 DEF Pieces
  <2>3. DOMAIN file = 1..FileSize /\ \A i \in 1..FileSize : file[i] = <<memory[c], i>>
    BY <1>1
  <2>4. file \in Seq(Pieces) /\ Len(file) = FileSize  BY <1>1, <2>1, <2>2
  <2> QED  BY <2>1, <2>3, <2>4 DEF Prefix
<1>6. /\ ChunkOf(packet, memory[c], s, next) /\ OfData(packet, c)
      /\ Len(part) \in Nat /\ Len(part) >= 1 /\ next <= FileSize /\ next \in Nat /\ next >= 1
  <2>1. ChunkOf(packet, memory[c], s, s + Len(part)) /\ OfData(packet, c)
        /\ Len(part) \in Nat /\ Len(part) >= 1 /\ s + Len(part) <= Len(file)
    <3>1. Len(file) <= FileSize  BY <1>5, FileSizeType
    <3> QED  BY <1>3, <1>5, <3>1, ChunkPart
  <2> QED  BY <1>3, <1>5, <2>1
<1>7. packet \in ToServer(c)
  <2>1. part \in Seq(Pieces)  BY <1>3, <1>5, ChunkType
  <2>2. (IF s = 0 THEN FileSize ELSE None) \in Sizes  BY FileSizeType DEF Sizes
  <2> QED  BY <1>3, <2>1, <2>2, ServerPackets
<1>8. /\ Added(toServer'[c], toServer[c], packet)
      /\ \A d \in Clients : d /= c => toServer'[d] = toServer[d]
  BY <1>3, <1>7, SendAdds
<1>9. /\ sending'[c] = IF next = FileSize THEN None ELSE next
      /\ \A d \in Clients : d /= c => sending'[d] = sending[d]
  BY <1>3 DEF IInv, Rest
<1>10. Quiet  BY <1>4, QuietSame
<1>11. ASSUME NEW d \in Clients, d /= c PROVE KeptIn(d)
  BY <1>4, <1>8, <1>9, <1>11, EqualSame DEF KeptIn
<1>12. \A q \in Pairs : KeptOut(q)  BY <1>4, <1>10, KeptOutQuiet
<1>13. ASSUME c \notin cut PROVE Incoming(c)'
  <2>1. Incoming(c)  BY <1>13 DEF Carried
  <2>2. receivers[c] /= None  BY <1>1, <1>4, <2>1 DEF Incoming, Nothing
  <2>3. PICK old, total : old = proxies[receivers[c].proxy].file /\ total = receivers[c].total
    OBVIOUS
  <2>4. /\ RequestsOn(toClient[c]) = {} /\ collecting[c] = {} /\ Beginning(old, total)
        /\ Stream(toServer[c], c, FirstOf(old), Len(old), memory[c], s)
        /\ OneFile(toServer[c], c) /\ (s = 0 => DataAt(toServer[c], c) = {})
    BY <1>1, <1>4, <2>1, <2>2, <2>3 DEF Incoming, Waiting, Underway
  <2>5. Stream(toServer'[c], c, FirstOf(old), Len(old), memory[c],
               IF next = FileSize THEN 0 ELSE next)
    <3>1. PartOK(packet) /\ Follows(packet, memory[c], s)
          /\ FileOf(packet) = memory[c] /\ EndOf(packet) = IF next = FileSize THEN 0 ELSE next
      BY <1>6 DEF ChunkOf, Follows
    <3>2. Stream(toServer'[c], c, FirstOf(old), Len(old), FileOf(packet), EndOf(packet))
      BY <1>6, <1>8, <2>4, <3>1, AddedStream
    <3> QED  BY <3>1, <3>2
  <2>6. OneFile(toServer'[c], c)  BY <1>8, <2>4, AddedOneFile
  <2>7. DataAt(toServer'[c], c) /= {}
    <3>1. Len(toServer'[c]) \in DataAt(toServer'[c], c)  BY <1>6, <1>8 DEF DataAt, Added, OfData
    <3> QED  BY <3>1
  <2>8. PICK t : t = IF next = FileSize THEN None ELSE next
    OBVIOUS
  <2>9. sending'[c] = t /\ t /= 0
        /\ (IF t = None THEN 0 ELSE t) = IF next = FileSize THEN 0 ELSE next
    <3>1. CASE next = FileSize  BY <1>9, <2>8, <3>1, FileSizeType
    <3>2. CASE next /= FileSize
      <4>1. t = next /\ t \in Nat /\ t /= 0  BY <1>6, <2>8, <3>2
      <4>2. t /= None  BY <4>1, FileSizeType
      <4> QED  BY <1>9, <2>8, <3>2, <4>1, <4>2
    <3> QED  BY <3>1, <3>2
  <2>10. Underway(c, proxies[receivers[c].proxy].file, receivers[c].total)'
    BY <1>4, <2>3, <2>4, <2>5, <2>6, <2>7, <2>9 DEF Underway
  <2> QED  BY <1>4, <2>2, <2>10 DEF Incoming
<1> QED  BY <1>4, <1>10, <1>11, <1>12, <1>13, GoneQuiet, CarriedBy

LEMMA SendCollectedCarried ==
  ASSUME IInv, Carried, NEW c \in Clients, NEW kind \in Kinds, SendCollectedData(c, kind)
  PROVE  Carried'
<1>1. /\ kind \in collecting[c]
      /\ collecting' = [collecting EXCEPT ![c] = @ \ {kind}]
      /\ \/ /\ memory' = [memory EXCEPT ![c] = @ + 1]
            /\ sending' = [sending EXCEPT ![c] = IF @ = None THEN 0 ELSE @]
            /\ UNCHANGED cut
         \/ cut' = cut \union {c} /\ UNCHANGED <<memory, sending>>
      /\ UNCHANGED <<proxies, receivers, uploads, connected, downloads, toServer, toClient>>
  BY DEF SendCollectedData, server
<1>2. Quiet  BY <1>1, QuietSame
<1>3. ASSUME NEW d \in Clients, d /= c PROVE KeptIn(d)
  <2>1. /\ collecting'[d] = collecting[d] /\ memory'[d] = memory[d]
        /\ sending'[d] = sending[d]
    BY <1>1, <1>3 DEF IInv, Rest
  <2> QED  BY <1>1, <1>2, <2>1, EqualSame DEF KeptIn, Quiet
<1>4. \A q \in Pairs : KeptOut(q)  BY <1>1, <1>2, KeptOutQuiet
<1>5. ASSUME c \notin cut' PROVE Incoming(c)'
  <2> /\ memory' = [memory EXCEPT ![c] = @ + 1]
      /\ sending' = [sending EXCEPT ![c] = IF @ = None THEN 0 ELSE @]
      /\ UNCHANGED cut
    BY <1>1, <1>5
  <2>1. Incoming(c)  BY <1>5 DEF Carried
  <2>2. receivers[c] /= None  BY <1>1, <2>1 DEF Incoming, Nothing
  <2>3. PICK old : old = proxies[receivers[c].proxy].file
    OBVIOUS
  <2>4. /\ old = <<>> /\ sending[c] = None /\ DataAt(toServer[c], c) = {}
        /\ RequestsOn(toClient[c]) = {} /\ collecting[c] = {kind}
    BY <1>1, <2>1, <2>2, <2>3 DEF Incoming, Waiting, Underway
  <2>5. sending'[c] = 0 /\ collecting'[c] = {}
    BY <1>1, <2>4 DEF IInv, Rest
  <2>6. Beginning(old, receivers[c].total) /\ FirstOf(old) = 0 /\ Len(old) = 0
    BY <2>4 DEF Beginning, FirstOf
  <2>7. OneFile(toServer[c], c) /\ Stream(toServer[c], c, 0, 0, memory'[c], 0)
    BY <2>4 DEF OneFile, Stream
  <2>8. 0 /= None  BY FileSizeType
  <2>9. Underway(c, proxies[receivers[c].proxy].file, receivers[c].total)'
    BY <1>1, <2>3, <2>4, <2>5, <2>6, <2>7, <2>8 DEF Underway
  <2> QED  BY <1>1, <2>2, <2>9 DEF Incoming
<1> QED  BY <1>1, <1>2, <1>3, <1>4, <1>5, GoneQuiet, CarriedBy

LEMMA DisconnectCarried ==
  ASSUME IInv, Carried, NEW c \in Clients, Disconnect(c)
  PROVE  Carried'
<1>1. /\ UNCHANGED <<proxies, receivers, uploads, memory>>
      /\ connected' = connected \ {c} /\ cut' = cut \union {c}
      /\ \A d \in Clients : d /= c =>
            /\ collecting'[d] = collecting[d] /\ sending'[d] = sending[d]
            /\ toServer'[d] = toServer[d] /\ toClient'[d] = toClient[d]
      /\ toClient'[c] = <<>>
      /\ \A q \in Pairs : downloads'[q] = IF q[1] = c THEN None ELSE downloads[q]
  BY DEF Disconnect, server, IInv, Rest, Up, Down
<1>2. ASSUME NEW d \in Clients, d /= c PROVE KeptIn(d)
  BY <1>1, <1>2, EqualSame DEF KeptIn
<1>3. ASSUME NEW q \in Pairs, q[1] /= c PROVE KeptOut(q)
  BY <1>1, <1>3, EqualSame, PairParts DEF KeptOut
<1>4. ASSUME NEW q \in Pairs, q[1] = c, Outgoing(q) PROVE Outgoing(q)'
  BY <1>1, <1>4 DEF Outgoing
<1>5. \A d \in Clients \ cut' : Incoming(d)'
  BY <1>1, <1>2, KeptIncoming DEF Carried
<1>6. \A q \in Pairs : q[2] \notin cut' => Outgoing(q)'
  BY <1>1, <1>3, <1>4, KeptOutgoing DEF Carried
<1>7. \A q \in Pairs : q[1] \notin connected' => downloads'[q] = None /\ toClient'[q[1]] = <<>>
  BY <1>1, PairParts DEF Carried
<1>8. Clients \ connected' \subseteq cut'  BY <1>1 DEF Carried
<1> QED  BY <1>5, <1>6, <1>7, <1>8 DEF Carried

-----------------------------------------------------------------------------
(* Files are whole.                                                        *)

LEMMA InitCarried == Init => Carried
<1> SUFFICES ASSUME Init PROVE Carried
  OBVIOUS
<1>1. ASSUME NEW c \in Clients PROVE Incoming(c)
  BY DEF Init, Incoming, Nothing, RequestsOn, DataAt
<1>2. ASSUME NEW p \in Pairs PROVE Outgoing(p)
  <2>1. p[1] \in Clients  BY PairParts
  <2>2. uploads[p] = None /\ downloads[p] = None /\ toClient[p[1]] = <<>>
    BY <2>1 DEF Init
  <2>3. Stream(<<>>, p[2], 0, 0, 0, 0)  BY DEF Stream, DataAt
  <2> QED  BY <2>2, <2>3 DEF Outgoing
<1> QED  BY <1>1, <1>2, PairParts DEF Init, Carried

LEMMA StepCarried == IInv /\ Carried /\ [Next]_vars => Carried'
<1> SUFFICES ASSUME IInv, Carried, [Next]_vars PROVE Carried'
  OBVIOUS
<1>1. CASE UNCHANGED vars
  <2>1. UNCHANGED <<proxies, receivers, uploads, connected, collecting, memory, sending,
                    downloads, toServer, toClient, cut>>
    BY <1>1 DEF vars, server, client
  <2>2. Quiet  BY <2>1, QuietSame
  <2>3. \A c \in Clients : KeptIn(c)  BY <2>1, <2>2, EqualSame, KeptInQuiet
  <2>4. \A q \in Pairs : KeptOut(q)  BY <2>1, <2>2, KeptOutQuiet
  <2> QED  BY <2>1, <2>2, <2>3, <2>4, GoneQuiet, CarriedBy
<1> QED  BY <1>1, MakeDataCarried, ServerUpdateCarried, ClientTimeoutCarried,
           ServerDeliverCarried, ServerTimeoutCarried, ClientDeliverCarried,
           ClientUpdateCarried, SendCollectedCarried, DisconnectCarried DEF Next

\* What is received of a client of which no file was given up is the beginning
\* of one file, at the server and at every administrator, with its size.
THEOREM FilesAreWhole == Spec => []Whole
<1>1. Spec => [](IInv /\ Carried)
  <2>1. Init => IInv /\ Carried
    BY InitIInv, InitCarried
  <2>2. IInv /\ Carried /\ [Next]_vars => (IInv /\ Carried)'
    BY Step, StepCarried
  <2> QED  BY <2>1, <2>2, PTL DEF Spec
<1>2. IInv /\ Carried => Whole
  <2> SUFFICES ASSUME IInv, Carried PROVE Whole
    OBVIOUS
  <2>1. ASSUME NEW c \in Clients \ cut, receivers[c] /= None
        PROVE  Beginning(proxies[receivers[c].proxy].file, receivers[c].total)
    <3>1. Incoming(c)  BY DEF Carried
    <3> QED  BY <2>1, <3>1 DEF Incoming, Waiting, Underway, Beginning
  <2>2. ASSUME NEW p \in Pairs, p[2] \notin cut, downloads[p] /= None
        PROVE  Beginning(downloads[p].file, downloads[p].total)
    BY <2>2 DEF Carried, Outgoing
  <2> QED  BY <2>1, <2>2 DEF Whole
<1> QED  BY <1>1, <1>2, PTL
=============================================================================
