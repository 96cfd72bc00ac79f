---------------------------- MODULE FileTransfer ----------------------------
(***************************************************************************)
(* Screenshots and configurations that an administrator asks of a client   *)
(* (xrGame/screenshot_server.cpp, file_transfer.cpp, game_cl_mp.cpp).  The *)
(* server picks a free proxy, asks the client, receives its file in pieces *)
(* into the memory of the proxy and, from the first piece on, uploads that *)
(* memory to the administrator while it grows.                             *)
(*                                                                         *)
(* Both ends give up a file that does not go on; a piece that nobody waits *)
(* for is answered with a reject, an end that stops early with an abort or *)
(* a reject, and these cross each other and the next request on the way.   *)
(* DirectPlay is external: packets of a link arrive in order, but those of *)
(* files have a high priority and may overtake the others.                 *)
(***************************************************************************)
EXTENDS Integers, Sequences, FiniteSets, SequencesExt

CONSTANTS
    Clients,
    Pairs,          \* <<administrator, client>> that requests are made for
    Kinds,          \* screenshot and configuration, each with its own worker
    Proxies,        \* number of m_screenshot_proxies
    Binders,        \* number of m_client_receiver_cbs
    FileSize,       \* pieces of a file
    MaxChunk,       \* pieces in a packet
    Garbage,        \* what memory that was not written, or is no size, may hold
    MaxRequests,    \* bound on the requests
    MaxLeaves,      \* bound on the clients that leave
    None

ASSUME TransferAssumption ==
    /\ Pairs \subseteq Clients \X Clients
    /\ Proxies \in Nat \ {0} /\ Binders \in Nat \ {0}
    /\ FileSize \in Nat \ {0} /\ MaxChunk \in Nat \ {0}
    /\ Garbage \subseteq Nat
    /\ MaxRequests \in Nat /\ MaxLeaves \in Nat

\* A piece is <<file of the client, number>>.
Pieces == (Nat \union {None}) \X Nat
Sizes == Nat \union {None}

Proxy == [admin : Clients \union {None}, suspect : Clients \union {None},
          first : BOOLEAN, file : Seq(Pieces)]
Receiver == [proxy : 1..Proxies, total : Sizes]
Upload == [proxy : 1..Proxies, sent : Nat, max : Nat]
Download == [binder : 1..Binders, file : Seq(Pieces), total : Sizes]

ASSUME NoneAssumption == None \notin Clients \union Nat \union Receiver \union Upload \union Download

VARIABLES
    proxies,        \* m_screenshot_proxies: ids, m_first_receive, the memory file
    receivers,      \* server_site::m_receivers
    uploads,        \* server_site::m_transfers
    connected,      \* clients with a connection
    collecting,     \* workers of a client that collect data
    memory,         \* upload_memory_writer: which file of the client it holds
    sending,        \* client_site::m_transfering: pieces sent
    downloads,      \* client_site::m_receivers
    active,         \* the m_active binders
    toServer, toClient,
    requests,       \* number of requests made
    cut,            \* clients of which a file was not carried to its end
    met             \* whether something was as long as a size that is none

server == <<proxies, receivers, uploads>>
client == <<collecting, memory, sending, downloads, active>>
vars == <<server, client, connected, toServer, toClient, requests, cut, met>>

-----------------------------------------------------------------------------
(* Packets.  A packet of data carries the size of the file if it is the    *)
(* first one of its sender.                                                *)

Data(src, total, pieces) ==
    [command |-> "receive_data", src |-> src, total |-> total, pieces |-> pieces]
Abort(src) == [command |-> "abort_receive", src |-> src]
Reject(src) == [command |-> "receive_rejected", src |-> src]
Request(kind) == [command |-> "GAME_EVENT_MAKE_DATA", kind |-> kind]
Response(src) == [command |-> "e_response", src |-> src]

OfFile(packet) == packet.command \in {"receive_data", "abort_receive", "receive_rejected"}

\* The packets of a link that may arrive next.
Arriving(link) ==
    {i \in DOMAIN link : i = 1 \/ (OfFile(link[i]) /\ \A j \in 1..(i - 1) : ~ OfFile(link[j]))}

\* A header that is taken for data is some more of it.
Header == <<None, 0>>

\* filereceiver_node::receive_packet: what is in the writer after it, and the
\* size, which is read from the first packet whatever that is.
Received(file, packet) ==
    file \o (IF packet.total /= None /\ file /= <<>> THEN <<Header>> ELSE <<>>) \o packet.pieces
SizesRead(file, total, packet) ==
    IF file /= <<>> THEN {total}
    ELSE IF packet.total /= None THEN {packet.total} ELSE Garbage

IsLeast(i, S) == i \in S /\ \A j \in S : i <= j

-----------------------------------------------------------------------------
(* The server.                                                             *)

Receives(i) == \E c \in Clients : proxies[i].suspect = c /\ receivers[c] /= None
Uploads(i) ==
    \E p \in Pairs : p = <<proxies[i].admin, proxies[i].suspect>> /\ uploads[p] /= None

\* clientdata_proxy::is_active
Active(i) == Receives(i) \/ Uploads(i)

Free == {i \in 1..Proxies : ~ Active(i)}

SendTo(links, c, packet) ==
    IF c \in connected THEN [links EXCEPT ![c] = Append(@, packet)] ELSE links

Init ==
    /\ proxies = [i \in 1..Proxies |->
                    [admin |-> None, suspect |-> None, first |-> FALSE, file |-> <<>>]]
    /\ receivers = [c \in Clients |-> None]
    /\ uploads = [p \in Pairs |-> None]
    /\ connected = Clients
    /\ collecting = [c \in Clients |-> {}]
    /\ memory = [c \in Clients |-> 0]
    /\ sending = [c \in Clients |-> None]
    /\ downloads = [p \in Pairs |-> None]
    /\ active = [c \in Clients |-> {}]
    /\ toServer = [c \in Clients |-> <<>>]
    /\ toClient = [c \in Clients |-> <<>>]
    /\ requests = 0
    /\ cut = {}
    /\ met = FALSE

\* A fault: the first proxy that is not receiving is taken.
MakeDataWhileUploading(p, kind) ==
    \E i \in 1..Proxies :
       /\ requests < MaxRequests /\ p[1] \in connected
       /\ requests' = requests + 1
       /\ IsLeast(i, {j \in 1..Proxies : ~ Receives(j)})
       /\ p[2] \in connected /\ receivers[p[2]] = None
       /\ proxies' = [proxies EXCEPT ![i] = [admin |-> p[1], suspect |-> p[2],
                                            first |-> TRUE, file |-> <<>>]]
       /\ receivers' = [receivers EXCEPT ![p[2]] = [proxy |-> i, total |-> None]]
       /\ toClient' = SendTo(toClient, p[2], Request(kind))
       /\ UNCHANGED <<uploads, connected, client, toServer, cut, met>>

\* xrServer::MakeScreenshot and MakeConfigDump.  A proxy takes the ids also
\* when it gives up.
MakeData(p, kind) ==
    \E i \in 1..Proxies :
       /\ requests < MaxRequests /\ p[1] \in connected
       /\ requests' = requests + 1
       /\ IsLeast(i, Free)
       /\ IF p[2] \notin connected \/ receivers[p[2]] /= None
          THEN /\ proxies' = [proxies EXCEPT ![i].admin = p[1], ![i].suspect = p[2]]
               /\ UNCHANGED <<receivers, toClient>>
          ELSE /\ proxies' = [proxies EXCEPT ![i] = [admin |-> p[1], suspect |-> p[2],
                                                    first |-> TRUE, file |-> <<>>]]
               /\ receivers' = [receivers EXCEPT ![p[2]] = [proxy |-> i, total |-> None]]
               /\ toClient' = SendTo(toClient, p[2], Request(kind))
       /\ UNCHANGED <<uploads, connected, client, toServer, cut, met>>

\* on_message of the server: data.  The first packet, which may be the last one
\* too, is announced to the administrator and starts the upload, unless one of
\* the same two clients is going on.
ServerData(c, packet) ==
    \/ /\ receivers[c] = None
       /\ toClient' = SendTo(toClient, c, Reject(None))
       /\ cut' = cut \union {c}
       /\ UNCHANGED <<server, met>>
    \/ /\ receivers[c] /= None
       /\ LET i == receivers[c].proxy
              p == <<proxies[i].admin, c>>
              file == Received(proxies[i].file, packet)
          IN \E total \in SizesRead(proxies[i].file, receivers[c].total, packet) :
                /\ receivers' = [receivers EXCEPT
                      ![c] = IF Len(file) = total THEN None ELSE [@ EXCEPT !.total = total]]
                /\ proxies' = [proxies EXCEPT ![i].file = file, ![i].first = FALSE]
                /\ toClient' = IF proxies[i].first THEN SendTo(toClient, p[1], Response(c))
                               ELSE toClient
                /\ uploads' = IF proxies[i].first /\ uploads[p] = None
                              THEN [uploads EXCEPT ![p] = [proxy |-> i, sent |-> 0, max |-> total]]
                              ELSE uploads
                /\ met' = (met \/ (Len(file) = total /\ total /= FileSize))
       /\ UNCHANGED cut

\* The sizes that is_complete may compare with: m_data_size_to_receive is not
\* written before the first packet.
SizesCompared(file, total) == IF file = <<>> THEN Garbage ELSE {total}

\* server_site::stop_receive_file
StopReceive(c) ==
    /\ receivers' = [receivers EXCEPT ![c] = None]
    /\ LET file == proxies[receivers[c].proxy].file
       IN \E size \in SizesCompared(file, receivers[c].total) :
             /\ toClient' = IF Len(file) = size THEN toClient ELSE SendTo(toClient, c, Reject(None))
             /\ met' = (met \/ Len(file) = size)
    /\ cut' = cut \union {c}
    /\ UNCHANGED <<proxies, uploads>>

ServerAbort(c) ==
    IF receivers[c] /= None THEN StopReceive(c)
    ELSE UNCHANGED <<server, toClient, cut, met>>

\* A fault: the administrator is told, and the upload is kept.
ServerRejectKeeping(c, packet) ==
    /\ toClient' = SendTo(toClient, c, Abort(packet.src))
    /\ cut' = cut \union {packet.src}
    /\ UNCHANGED <<proxies, receivers, uploads, met>>

\* server_site::stop_transfer_file, when the administrator gave up.
ServerReject(c, packet) ==
    LET p == <<c, packet.src>>
    IN IF p \in Pairs /\ uploads[p] /= None
       THEN /\ uploads' = [uploads EXCEPT ![p] = None]
            /\ toClient' = IF uploads[p].sent /= uploads[p].max
                           THEN SendTo(toClient, c, Abort(packet.src)) ELSE toClient
            /\ cut' = cut \union {packet.src}
            /\ UNCHANGED <<proxies, receivers, met>>
       ELSE UNCHANGED <<server, toClient, cut, met>>

\* A packet of a client was delayed and is handled by the main loop.
ServerDeliver(c) ==
    /\ toServer[c] /= <<>>
    /\ toServer' = [toServer EXCEPT ![c] = Tail(@)]
    /\ LET packet == Head(toServer[c])
       IN \/ packet.command = "receive_data" /\ ServerData(c, packet)
          \/ packet.command = "abort_receive" /\ ServerAbort(c)
          \/ packet.command = "receive_rejected" /\ ServerReject(c, packet)
    /\ UNCHANGED <<connected, client, requests>>

\* filetransfer_node::is_ready_to_send
ReadyToSend(p) ==
    /\ uploads[p] /= None
    /\ uploads[p].sent /= uploads[p].max
    /\ uploads[p].sent < Len(proxies[uploads[p].proxy].file)

Chunk(file, sent, n) ==
    SubSeq(file, sent + 1, IF sent + n < Len(file) THEN sent + n ELSE Len(file))

\* The turn of one upload in server_site::update_transfer.
ServerUpdate(p) ==
    /\ uploads[p] /= None
    /\ \/ /\ p[1] \notin connected
          /\ uploads' = [uploads EXCEPT ![p] = None]
          /\ UNCHANGED toClient
       \/ /\ p[1] \in connected
          /\ ReadyToSend(p)
          /\ \E n \in 1..MaxChunk :
                LET u == uploads[p]
                    part == Chunk(proxies[u.proxy].file, u.sent, n)
                    sent == u.sent + Len(part)
                IN /\ toClient' = SendTo(toClient, p[1],
                         Data(p[2], IF u.sent = 0 THEN u.max ELSE None, part))
                   /\ uploads' = [uploads EXCEPT
                         ![p] = IF sent = u.max THEN None ELSE [@ EXCEPT !.sent = sent]]
    /\ UNCHANGED <<proxies, receivers, connected, client, toServer, requests, cut, met>>

\* The turn of one receiver in server_site::stop_obsolete_receivers, some time
\* after its last packet.
ServerTimeout(c) ==
    /\ receivers[c] /= None
    /\ StopReceive(c)
    /\ UNCHANGED <<connected, client, toServer, requests>>

-----------------------------------------------------------------------------
(* A client.                                                               *)

Send(c, packet) == toServer' = [toServer EXCEPT ![c] = Append(@, packet)]

\* screenshot_manager::make_screenshot and configs_dumper::dump_config.
OnRequest(c, packet) ==
    /\ collecting' = [collecting EXCEPT ![c] = @ \union {packet.kind}]
    /\ UNCHANGED <<memory, sending, downloads, active, toServer, cut, met>>

\* A fault: the first binder is taken, whether or not it is active.
OnResponseActive(c, packet) ==
    LET p == <<c, packet.src>>
    IN /\ downloads[p] = None
       /\ active' = [active EXCEPT ![c] = @ \union {1}]
       /\ downloads' = [downloads EXCEPT ![p] = [binder |-> 1, file |-> <<>>, total |-> None]]
       /\ UNCHANGED <<collecting, memory, sending, toServer, cut, met>>

\* game_cl_mp::PrepareToReceiveFile, with the first binder that is not active.
OnResponse(c, packet) ==
    LET p == <<c, packet.src>>
        free == (1..Binders) \ active[c]
    IN /\ IF free = {} \/ downloads[p] /= None THEN UNCHANGED <<downloads, active>>
          ELSE \E i \in free :
               /\ IsLeast(i, free)
               /\ active' = [active EXCEPT ![c] = @ \union {i}]
               /\ downloads' = [downloads EXCEPT
                     ![p] = [binder |-> i, file |-> <<>>, total |-> None]]
       /\ UNCHANGED <<collecting, memory, sending, toServer, cut, met>>

\* client_site::stop_receive_file, after receiving_file_callback has made the
\* binder inactive.
StopDownload(p) ==
    /\ active' = [active EXCEPT ![p[1]] = @ \ {downloads[p].binder}]
    /\ downloads' = [downloads EXCEPT ![p] = None]
    /\ \E size \in SizesCompared(downloads[p].file, downloads[p].total) :
          /\ IF Len(downloads[p].file) = size THEN UNCHANGED toServer
             ELSE Send(p[1], Reject(p[2]))
          /\ met' = (met \/ Len(downloads[p].file) = size)
    /\ cut' = cut \union {p[2]}

\* on_message of the client: data.
OnData(c, packet) ==
    LET p == <<c, packet.src>>
        d == downloads[p]
    IN /\ \/ /\ d = None
             /\ Send(c, Reject(packet.src))
             /\ cut' = cut \union {packet.src}
             /\ UNCHANGED <<downloads, active, met>>
          \/ /\ d /= None
             /\ \E total \in SizesRead(d.file, d.total, packet) :
                   LET file == Received(d.file, packet)
                   IN /\ met' = (met \/ (Len(file) = total /\ total /= FileSize))
                      /\ IF Len(file) = total
                         THEN /\ downloads' = [downloads EXCEPT ![p] = None]
                              /\ active' = [active EXCEPT ![c] = @ \ {d.binder}]
                         ELSE /\ downloads' = [downloads EXCEPT
                                    ![p].file = file, ![p].total = total]
                              /\ UNCHANGED active
             /\ UNCHANGED <<toServer, cut>>
       /\ UNCHANGED <<collecting, memory, sending>>

OnAbort(c, packet) ==
    /\ IF downloads[<<c, packet.src>>] /= None THEN StopDownload(<<c, packet.src>>)
       ELSE UNCHANGED <<downloads, active, toServer, cut, met>>
    /\ UNCHANGED <<collecting, memory, sending>>

\* on_message of the client: reject, and stop_transfer_file.
OnReject(c) ==
    /\ IF sending[c] /= None
       THEN sending' = [sending EXCEPT ![c] = None] /\ Send(c, Abort(None))
       ELSE UNCHANGED <<sending, toServer>>
    /\ cut' = cut \union {c}
    /\ UNCHANGED <<collecting, memory, downloads, active, met>>

ClientDeliver(c) ==
    /\ \E i \in Arriving(toClient[c]) :
          LET packet == toClient[c][i]
          IN /\ toClient' = [toClient EXCEPT ![c] = RemoveAt(@, i)]
             /\ \/ packet.command = "GAME_EVENT_MAKE_DATA" /\ OnRequest(c, packet)
                \/ packet.command = "e_response" /\ OnResponse(c, packet)
                \/ packet.command = "receive_data" /\ OnData(c, packet)
                \/ packet.command = "abort_receive" /\ OnAbort(c, packet)
                \/ packet.command = "receive_rejected" /\ OnReject(c)
    /\ UNCHANGED <<server, connected, requests>>

\* game_cl_mp::SendCollectedData: the data of a worker goes to the memory of the
\* upload, whether or not one is going on; a worker may come without any.
SendCollectedData(c, kind) ==
    /\ kind \in collecting[c]
    /\ collecting' = [collecting EXCEPT ![c] = @ \ {kind}]
    /\ \/ /\ memory' = [memory EXCEPT ![c] = @ + 1]
          /\ sending' = [sending EXCEPT ![c] = IF @ = None THEN 0 ELSE @]
          /\ UNCHANGED cut
       \/ /\ cut' = cut \union {c}
          /\ UNCHANGED <<memory, sending>>
    /\ UNCHANGED <<server, connected, downloads, active, toServer, toClient, requests, met>>

\* A fault: the transfer of a complete file is not erased.
ClientUpdateKeeping(c) ==
    /\ sending[c] /= None
    /\ \E n \in 1..MaxChunk :
          LET part == Chunk([i \in 1..FileSize |-> <<memory[c], i>>], sending[c], n)
          IN /\ Send(c, Data(c, IF sending[c] = 0 THEN FileSize ELSE None, part))
             /\ sending' = [sending EXCEPT ![c] = @ + Len(part)]
    /\ UNCHANGED <<server, connected, collecting, memory, downloads, active, toClient,
                   requests, cut, met>>

\* A fault: every packet carries the size of the file.
ClientUpdateHeaders(c) ==
    /\ sending[c] /= None
    /\ \E n \in 1..MaxChunk :
          LET part == Chunk([i \in 1..FileSize |-> <<memory[c], i>>], sending[c], n)
              sent == sending[c] + Len(part)
          IN /\ Send(c, Data(c, FileSize, part))
             /\ sending' = [sending EXCEPT ![c] = IF sent = FileSize THEN None ELSE sent]
    /\ UNCHANGED <<server, connected, collecting, memory, downloads, active, toClient,
                   requests, cut, met>>

\* client_site::update_transfer
ClientUpdate(c) ==
    /\ sending[c] /= None
    /\ \E n \in 1..MaxChunk :
          LET file == [i \in 1..FileSize |-> <<memory[c], i>>]
              part == Chunk(file, sending[c], n)
              sent == sending[c] + Len(part)
          IN /\ Send(c, Data(c, IF sending[c] = 0 THEN FileSize ELSE None, part))
             /\ sending' = [sending EXCEPT ![c] = IF sent = FileSize THEN None ELSE sent]
    /\ UNCHANGED <<server, connected, collecting, memory, downloads, active, toClient,
                   requests, cut, met>>

\* The turn of one receiver in client_site::stop_obsolete_receivers.
ClientTimeout(p) ==
    /\ downloads[p] /= None
    /\ StopDownload(p)
    /\ UNCHANGED <<server, connected, collecting, memory, sending, toClient, requests>>

\* A client leaves; what it sent and was to get is lost.
Disconnect(c) ==
    /\ c \in connected
    /\ Cardinality(Clients \ connected) < MaxLeaves
    /\ connected' = connected \ {c}
    /\ collecting' = [collecting EXCEPT ![c] = {}]
    /\ sending' = [sending EXCEPT ![c] = None]
    /\ downloads' = [p \in Pairs |-> IF p[1] = c THEN None ELSE downloads[p]]
    /\ active' = [active EXCEPT ![c] = {}]
    /\ toServer' = [toServer EXCEPT ![c] = <<>>]
    /\ toClient' = [toClient EXCEPT ![c] = <<>>]
    /\ cut' = cut \union {c}
    /\ UNCHANGED <<server, memory, requests, met>>

Next ==
    \/ \E p \in Pairs :
          \/ \E kind \in Kinds : MakeData(p, kind)
          \/ ServerUpdate(p)
          \/ ClientTimeout(p)
    \/ \E c \in Clients :
          \/ ServerDeliver(c) \/ ServerTimeout(c)
          \/ ClientDeliver(c) \/ ClientUpdate(c)
          \/ \E kind \in Kinds : SendCollectedData(c, kind)
          \/ Disconnect(c)

Spec == Init /\ [][Next]_vars

\* Frames go on, packets arrive, workers finish, and what waits gives up.
FairSpec ==
    /\ Spec
    /\ \A p \in Pairs : WF_vars(ServerUpdate(p)) /\ WF_vars(ClientTimeout(p))
    /\ \A c \in Clients :
          /\ WF_vars(ServerDeliver(c)) /\ WF_vars(ServerTimeout(c))
          /\ WF_vars(ClientDeliver(c)) /\ WF_vars(ClientUpdate(c))
          /\ \A kind \in Kinds : WF_vars(SendCollectedData(c, kind))

-----------------------------------------------------------------------------
TypeOK ==
    /\ proxies \in [1..Proxies -> Proxy]
    /\ receivers \in [Clients -> Receiver \union {None}]
    /\ uploads \in [Pairs -> Upload \union {None}]
    /\ connected \subseteq Clients /\ cut \subseteq Clients
    /\ collecting \in [Clients -> SUBSET Kinds]
    /\ memory \in [Clients -> Nat]
    /\ sending \in [Clients -> (0..(FileSize - 1)) \union {None}]
    /\ downloads \in [Pairs -> Download \union {None}]
    /\ active \in [Clients -> SUBSET (1..Binders)]

\* What a proxy receives and what is uploaded from it are of its two clients:
\* no request takes its memory while either goes on, and no more is uploaded
\* than was received, or elapsed (file_transfer.cpp:133) would be negative.
SourceKept ==
    /\ \A c \in Clients : receivers[c] /= None => proxies[receivers[c].proxy].suspect = c
    /\ \A p \in Pairs : uploads[p] /= None =>
          LET proxy == proxies[uploads[p].proxy]
          IN /\ p = <<proxy.admin, proxy.suspect>>
             /\ uploads[p].sent <= Len(proxy.file)

\* A binder is active as long as a receiver calls it: none is lost, and none is
\* given to a second receiver.
BindersServe ==
    /\ \A c \in Clients :
          active[c] = {downloads[p].binder : p \in {q \in Pairs : q[1] = c /\ downloads[q] /= None}}
    /\ \A p, q \in Pairs :
          (downloads[p] /= None /\ downloads[q] /= None /\ p[1] = q[1]
             /\ downloads[p].binder = downloads[q].binder) => p = q

\* As long as no file of a client was given up, what is received of it is the
\* beginning of one file, at the server and at every administrator, and it is
\* complete when that file is.
Beginning(file, total) ==
    file /= <<>> =>
        /\ total = FileSize
        /\ Len(file) < FileSize
        /\ \A i \in DOMAIN file : file[i] = <<file[1][1], i>>

Whole ==
    /\ \A c \in Clients \ cut : receivers[c] /= None =>
          Beginning(proxies[receivers[c].proxy].file, receivers[c].total)
    /\ \A p \in Pairs : p[2] \notin cut /\ downloads[p] /= None =>
          Beginning(downloads[p].file, downloads[p].total)

\* Every proxy becomes free again, whatever crosses on the way, unless a file
\* that is not there is as long as a size that was not read.
Released == []~met => \A i \in 1..Proxies : []<>(~ Active(i))
=============================================================================
