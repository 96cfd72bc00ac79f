----------------------------- MODULE ServerLocks -----------------------------
(***************************************************************************)
(* The critical sections of the server and the order in which its threads  *)
(* take them: csMessage (xrNetServer/NET_Server.cpp), csPlayers            *)
(* (NET_PlayersMonitor.h), DelayedPackestCS (xrGame/xrServer.cpp) and the  *)
(* section of the packets for the local client, net_Queue.cs               *)
(* (NET_Client.cpp).  The main loop and the callbacks of DirectPlay run    *)
(* the same handlers.                                                      *)
(*                                                                         *)
(* A function that holds a section while it calls others is a scope.  For  *)
(* every scope this module says which section it holds and which scopes    *)
(* may be entered from within it; functions between two scopes appear as   *)
(* the set of scopes they lead to.  A thread is the stack of the scopes it *)
(* is in.  The sections are those of Windows: a thread that is in one may  *)
(* enter it again.                                                         *)
(***************************************************************************)
EXTENDS Integers, Sequences, FiniteSets

CONSTANTS
    Main,           \* the thread of the frame loop
    Callbacks,      \* the threads of DirectPlay that call the server
    Clients,        \* clients that come and go
    None,           \* no scope
    MaxDepth,       \* bound on the scopes a thread is in
    MaxPackets      \* bound on the delayed packets

ASSUME LocksAssumption ==
    /\ Main \notin Callbacks
    /\ MaxDepth \in Nat
    /\ MaxPackets \in Nat

Threads == Callbacks \union {Main}

VARIABLES
    stack,          \* the scopes a thread is in, the outermost one first
    next,           \* the scope a thread is about to enter
    players,        \* net_Players
    delayed         \* m_aDelayedPackets, the types

vars == <<stack, next, players, delayed>>

\* The packets that OnMessage keeps for the main loop.
Connecting == "M_CLIENT_REQUEST_CONNECTION_DATA"
Command == "M_REMOTE_CONTROL_CMD"
File == "M_FILE_TRANSFER"
PacketTypes == {Connecting, Command, File}

-----------------------------------------------------------------------------
(* The scopes.  OnRequestSync is OnMessageSync with a packet that is only   *)
(* delayed: what the console of the server and file transfers of its own   *)
(* client send, while OnMessageSync is called with the events of objects.  *)

Sections == {"csMessage", "DelayedPackestCS", "csPlayers", "net_Queue"}

ScopesOf(section) ==
    CASE section = "csMessage" ->
            {"_Recieve", "OnMessageSync", "OnRequestSync", "ForEachClientDoSender"}
      [] section = "DelayedPackestCS" -> {"ProceedDelayedPackets", "AddDelayedPacket"}
      [] section = "csPlayers" ->
            {"SenderFunctor", "ForFoundClientsDo", "GetFoundClient", "AddNewClient",
             "FindAndEraseClient"}
      [] section = "net_Queue" -> {"ClientReceive", "IPureClient_OnMessage"}

Scopes == UNION {ScopesOf(c) : c \in Sections}

ASSUME NoneAssumption == None \notin Scopes

\* xrServer::SendTo_LL: to the local client through its queue, to others after
\* looking them up.
SendTo == {"IPureClient_OnMessage", "GetFoundClient"}

\* xrServer::SendBroadcast
SendBroadcast == {"ForFoundClientsDo"}

\* What an event or the rules of the game may do: send to clients, to every
\* one of them, and, through Level().Send(), to the server itself.
Handlers == SendTo \union SendBroadcast
                \union {"OnMessageSync", "ForEachClientDoSender"}

\* A fault: a functor that walks without csMessage sends to the server.
FunctorSends == SendTo \union {"OnMessageSync"}

\* The functors of ForEachClientDo and ForFoundClientsDo send only to clients.
Functor == SendTo

\* A fault: a file transfer reports to the rules of the game.
OnDelayedMessageNotifies(type) ==
    IF type = Command THEN Handlers \union {"OnRequestSync"} ELSE Handlers

\* xrServer::OnDelayedMessage.  OnCL_Connected exports the game to all clients
\* and processes the delayed events; the console executes any command.
OnDelayedMessage(type) ==
    CASE type = Connecting -> Handlers
      [] type = Command -> Handlers \union {"OnRequestSync"}
      [] type = File -> SendTo

\* The scopes that are entered from within a scope.  ClientReceive stores what it
\* gets; with -debug_ge (g_bDebugEvents) it would process it, which is left out.
Inside(scope, packets) ==
    CASE scope = "_Recieve" -> Handlers \union {"AddDelayedPacket"}
      [] scope = "OnMessageSync" -> Handlers
      [] scope = "OnRequestSync" -> {"GetFoundClient", "AddDelayedPacket"}
      [] scope = "ForEachClientDoSender" -> {"SenderFunctor"}
      [] scope = "SenderFunctor" -> Handlers
      [] scope = "ForFoundClientsDo" -> Functor
      [] scope = "ProceedDelayedPackets" ->
            IF packets = <<>> THEN {} ELSE OnDelayedMessage(Head(packets))
      [] OTHER -> {}

\* What the frame loop calls: CLevel::ClientReceive, game events that send to
\* the server, xrServer::Update.
MainLoop == Handlers
    \union {"ClientReceive", "OnRequestSync", "ProceedDelayedPackets",
            "AddNewClient", "FindAndEraseClient"}

\* IPureServer::net_Handler.
NetHandler == SendBroadcast
    \union {"_Recieve", "AddNewClient", "GetFoundClient", "FindAndEraseClient"}

-----------------------------------------------------------------------------
Top(t) == stack[t][Len(stack[t])]
Holds(t, c) == \E i \in 1..Len(stack[t]) : stack[t][i] \in ScopesOf(c)
WalksOverPlayers(t) ==
    \E i \in 1..Len(stack[t]) : stack[t][i] \in {"SenderFunctor", "ForFoundClientsDo"}

Callable(t) ==
    IF stack[t] /= <<>> THEN Inside(Top(t), delayed)
    ELSE IF t = Main THEN MainLoop ELSE NetHandler

Init ==
    /\ stack = [t \in Threads |-> <<>>]
    /\ next = [t \in Threads |-> None]
    /\ players = {}
    /\ delayed = <<>>

\* A thread calls a function that wants a section ...
Call(t) ==
    /\ next[t] = None
    /\ Len(stack[t]) < MaxDepth
    /\ \E scope \in Callable(t) :
          /\ scope = "AddDelayedPacket" => Len(delayed) < MaxPackets
          /\ next' = [next EXCEPT ![t] = scope]
    /\ UNCHANGED <<stack, players, delayed>>

\* A fault: the player is erased without the section.
EnterUnlessErasing(t) ==
    /\ next[t] /= None
    /\ \A c \in Sections, u \in Threads \ {t} :
          next[t] \in ScopesOf(c) \ {"FindAndEraseClient"} => ~ Holds(u, c)
    /\ stack' = [stack EXCEPT ![t] = Append(@, next[t])]
    /\ next' = [next EXCEPT ![t] = None]
    /\ UNCHANGED <<players, delayed>>

\* ... and gets it when no other thread is in it.
Enter(t) ==
    /\ next[t] /= None
    /\ \A c \in Sections, u \in Threads \ {t} : next[t] \in ScopesOf(c) => ~ Holds(u, c)
    /\ stack' = [stack EXCEPT ![t] = Append(@, next[t])]
    /\ next' = [next EXCEPT ![t] = None]
    /\ UNCHANGED <<players, delayed>>

Left(t) == stack' = [stack EXCEPT ![t] = SubSeq(@, 1, Len(@) - 1)]

\* The end of a scope that changes nothing itself.
Leave(t) ==
    /\ next[t] = None
    /\ stack[t] /= <<>>
    /\ Top(t) \notin {"AddNewClient", "FindAndEraseClient", "AddDelayedPacket"}
    /\ Top(t) = "ProceedDelayedPackets" => delayed = <<>>
    /\ Left(t)
    /\ UNCHANGED <<next, players, delayed>>

Ends(t, scope) ==
    /\ next[t] = None
    /\ stack[t] /= <<>>
    /\ Top(t) = scope

\* A fault: a client that could not be created is added.
AddNewClientNull(t, client) ==
    /\ Ends(t, "AddNewClient")
    /\ players' = players \union {client, None}
    /\ Left(t)
    /\ UNCHANGED <<next, delayed>>

AddNewClient(t, client) ==
    /\ Ends(t, "AddNewClient")
    /\ players' = players \union {client}
    /\ Left(t)
    /\ UNCHANGED <<next, delayed>>

FindAndEraseClient(t, client) ==
    /\ Ends(t, "FindAndEraseClient")
    /\ players' = players \ {client}
    /\ Left(t)
    /\ UNCHANGED <<next, delayed>>

\* The local client is connected already when it may send directly.
AddDelayedPacket(t, type) ==
    /\ Ends(t, "AddDelayedPacket")
    /\ t = Main => type /= Connecting
    /\ delayed' = Append(delayed, type)
    /\ Left(t)
    /\ UNCHANGED <<next, players>>

\* The loop of ProceedDelayedPackets goes on to the next packet.
PopDelayedPacket(t) ==
    /\ Ends(t, "ProceedDelayedPackets")
    /\ delayed /= <<>>
    /\ delayed' = Tail(delayed)
    /\ UNCHANGED <<stack, next, players>>

Next ==
    \E t \in Threads :
        \/ Call(t) \/ Enter(t) \/ Leave(t)
        \/ \E client \in Clients : AddNewClient(t, client) \/ FindAndEraseClient(t, client)
        \/ \E type \in PacketTypes : AddDelayedPacket(t, type)
        \/ PopDelayedPacket(t)

Spec == Init /\ [][Next]_vars

-----------------------------------------------------------------------------
\* Threads are in scopes, the list holds clients only (VERIFY2(*i != NULL) in
\* NET_PlayersMonitor.h:57), and only packets that OnMessage delays are delayed.
TypeOK ==
    /\ stack \in [Threads -> Seq(Scopes)]
    /\ next \in [Threads -> Scopes \union {None}]
    /\ players \subseteq Clients
    /\ delayed \in Seq(PacketTypes)

Rank(section) ==
    CASE section = "csMessage" -> 1
      [] section = "DelayedPackestCS" -> 2
      [] section = "csPlayers" -> 3
      [] section = "net_Queue" -> 4

\* t is about to enter c, in which it is not yet.
Wants(t, c) == next[t] /= None /\ next[t] \in ScopesOf(c) /\ ~ Holds(t, c)

\* A delayed packet other than a piece of a file is being handled.
Breaks(t, c, d) ==
    /\ c = "DelayedPackestCS" /\ d = "csMessage"
    /\ t = Main
    /\ delayed /= <<>> /\ Head(delayed) /= File

\* The sections are taken in one order, but for one place: handlers of delayed
\* packets (xrServer.cpp:1080).
LockOrder ==
    \A t \in Threads, c, d \in Sections :
        Holds(t, c) /\ Wants(t, d) => Rank(c) < Rank(d) \/ Breaks(t, c, d)

\* csMessage is wanted neither with csPlayers ("potential deadlock detected",
\* Level_network.cpp:280) nor with the packets of the local client ("deadlock
\* detected!", :282), however deep the handlers call each other.
SendsUnderNeither ==
    \A t \in Threads :
        Wants(t, "csMessage") => ~ Holds(t, "csPlayers") /\ ~ Holds(t, "net_Queue")

\* Threads each of which waits for one of the others.
Stuck(waiting) ==
    /\ waiting /= {}
    /\ \A t \in waiting : \E c \in Sections :
          Wants(t, c) /\ \E u \in waiting \ {t} : Holds(u, c)

\* The threads do not wait for each other.
NoDeadlock == \A waiting \in SUBSET Threads : ~ Stuck(waiting)

\* If they do, the main loop is one of them, which handles a delayed packet and
\* wants csMessage: the pieces of files and everything else that the server
\* does are safe.
OnlyDelayedDeadlock ==
    \A waiting \in SUBSET Threads :
        Stuck(waiting) =>
            /\ Main \in waiting
            /\ Breaks(Main, "DelayedPackestCS", "csMessage")
            /\ Holds(Main, "DelayedPackestCS") /\ Wants(Main, "csMessage")

\* No list of clients changes while it is walked over, by another thread or by
\* the one that walks: VERIFY(!now_iterating_in_net_players), which cannot see
\* a walk within which another one has ended (NET_PlayersMonitor.h:122, 178).
PlayersKept == [][players' /= players => \A t \in Threads : ~ WalksOverPlayers(t)]_vars

\* The packet that is being handled stays the first until it is taken off: the
\* loop keeps a reference to it and pops the front (xrServer.cpp:1079-1082).
FrontKept ==
    [][\A t \in Threads :
          (Holds(t, "DelayedPackestCS") /\ stack[t][1] = "ProceedDelayedPackets" /\ delayed /= <<>>)
             => \/ PopDelayedPacket(t)
                \/ delayed' /= <<>> /\ Head(delayed') = Head(delayed)]_vars
=============================================================================
