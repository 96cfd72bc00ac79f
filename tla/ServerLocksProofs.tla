-------------------------- MODULE ServerLocksProofs --------------------------
(***************************************************************************)
(* Proofs about ServerLocks, for any number of callback threads, clients   *)
(* and packets, and handlers nested to any depth.                          *)
(***************************************************************************)
EXTENDS ServerLocks, TLAPS

\* What may be entered from within a scope, whatever packet is handled.
Below(scope) ==
    IF scope = "ProceedDelayedPackets" THEN Handlers \union {"OnRequestSync"}
    ELSE Inside(scope, <<>>)

Entries(t) == IF t = Main THEN MainLoop ELSE NetHandler

\* Each scope of a stack was entered from the one before, the first one from
\* the loop of the thread.
Nested ==
    \A t \in Threads :
        /\ stack[t] /= <<>> => stack[t][1] \in Entries(t)
        /\ \A i \in 1..(Len(stack[t]) - 1) : stack[t][i + 1] \in Below(stack[t][i])

\* What a thread is about to enter is something it may enter still, though
\* packets were added since it was called.
NextCallable == \A t \in Threads : next[t] /= None => next[t] \in Callable(t)

\* A section has one owner.
Exclusive ==
    \A c \in Sections, t, u \in Threads : Holds(t, c) /\ Holds(u, c) => t = u

IInv == TypeOK /\ Nested /\ NextCallable /\ Exclusive

USE DEF Sections

LEMMA ScopeNames ==
    Scopes = {"_Recieve", "OnMessageSync", "OnRequestSync", "ForEachClientDoSender",
              "ProceedDelayedPackets", "AddDelayedPacket", "SenderFunctor",
              "ForFoundClientsDo", "GetFoundClient", "AddNewClient",
              "FindAndEraseClient", "ClientReceive", "IPureClient_OnMessage"}
  BY DEF Scopes, ScopesOf

\* Whatever the first packet is, a scope leads to what Below says.
LEMMA InsideIsBelow ==
    ASSUME NEW scope \in Scopes, NEW packets \in Seq(PacketTypes)
    PROVE  Inside(scope, packets) \subseteq Below(scope)
  <1>1. CASE scope = "ProceedDelayedPackets"
    <2>1. CASE packets = <<>>
      BY <1>1, <2>1 DEF Inside, Below
    <2>2. CASE packets /= <<>>
      <3>1. Head(packets) \in PacketTypes
        BY <2>2
      <3>2. OnDelayedMessage(Head(packets)) \subseteq Handlers \union {"OnRequestSync"}
        BY <3>1 DEF OnDelayedMessage, PacketTypes, Connecting, Command, File, Handlers
      <3> QED BY <1>1, <2>2, <3>2 DEF Inside, Below
    <2> QED BY <2>1, <2>2
  <1>2. CASE scope /= "ProceedDelayedPackets"
    BY <1>2, ScopeNames DEF Inside, Below
  <1> QED BY <1>1, <1>2

\* Functions that call nothing are at the end of a stack, and what they lead to
\* is empty.
LEMMA BelowScopes ==
    /\ \A scope \in Scopes : Below(scope) \subseteq Scopes
    /\ Below("ForFoundClientsDo") = {"IPureClient_OnMessage", "GetFoundClient"}
    /\ \A scope \in {"GetFoundClient", "AddNewClient", "FindAndEraseClient",
                     "AddDelayedPacket", "ClientReceive", "IPureClient_OnMessage"} :
          Below(scope) = {}
  BY ScopeNames DEF Below, Inside, Handlers, SendTo, SendBroadcast, Functor

LEMMA EntryScopes == \A t \in Threads : Entries(t) \subseteq Scopes
  BY ScopeNames DEF Entries, MainLoop, NetHandler, Handlers, SendTo, SendBroadcast

LEMMA Positive ==
    ASSUME NEW n \in Nat, n >= 1
    PROVE  /\ n = 1 \/ n > 1
           /\ n - 1 = 1 => \A i \in 1..n : i = 1 \/ i = n
  OBVIOUS

\* Where a scope of csMessage, or one that delays a packet, can be entered.
LEMMA Deeper ==
    ASSUME NEW t \in Threads, TypeOK, Nested, NextCallable,
           next[t] /= None, stack[t] /= <<>>
    PROVE  /\ Top(t) \in Scopes
           /\ next[t] \in Below(Top(t))
           /\ next[t] \in Scopes
  <1>1. Top(t) \in Scopes
    BY DEF TypeOK, Top
  <1>2. next[t] \in Below(Top(t))
    BY <1>1, InsideIsBelow DEF NextCallable, Callable, TypeOK
  <1> QED BY <1>1, <1>2, BelowScopes

\* The loops and the callbacks start at the bottom of a stack, and what calls
\* nothing ends it.
LEMMA Places ==
    ASSUME NEW t \in Threads, TypeOK, Nested, NEW i \in 1..Len(stack[t])
    PROVE  /\ stack[t][i] \in Scopes
           /\ i > 1 => stack[t][i] \in Below(stack[t][i - 1]) /\ stack[t][i - 1] \in Scopes
           /\ stack[t][i] \in {"_Recieve", "ProceedDelayedPackets", "ClientReceive",
                              "AddNewClient", "FindAndEraseClient"} => i = 1
           /\ stack[t][i] = "ProceedDelayedPackets" => t = Main
           /\ i < Len(stack[t]) => Below(stack[t][i]) /= {}
  <1>1. \A j \in 1..Len(stack[t]) : stack[t][j] \in Scopes
    BY DEF TypeOK
  <1>2. i > 1 => stack[t][i] \in Below(stack[t][i - 1])
    <2>1. SUFFICES ASSUME i > 1 PROVE stack[t][i] \in Below(stack[t][i - 1])
      OBVIOUS
    <2>2. i - 1 \in 1..(Len(stack[t]) - 1) /\ (i - 1) + 1 = i
      BY <2>1 DEF TypeOK
    <2> QED BY <2>2 DEF Nested
  <1>3. \A scope \in Scopes :
           Below(scope) \intersect {"_Recieve", "ProceedDelayedPackets", "ClientReceive",
                                   "AddNewClient", "FindAndEraseClient"} = {}
    BY ScopeNames DEF Below, Inside, Handlers, SendTo, SendBroadcast, Functor
  <1>4. stack[t][i] \in {"_Recieve", "ProceedDelayedPackets", "ClientReceive",
                        "AddNewClient", "FindAndEraseClient"} => i = 1
    BY <1>1, <1>2, <1>3
  <1>5. stack[t][i] = "ProceedDelayedPackets" => t = Main
    <2>1. "ProceedDelayedPackets" \notin NetHandler
      BY DEF NetHandler, SendBroadcast
    <2>2. stack[t] /= <<>>
      BY DEF TypeOK
    <2> QED BY <1>4, <2>1, <2>2 DEF Nested, Entries
  <1>6. i < Len(stack[t]) => Below(stack[t][i]) /= {}
    BY DEF Nested, TypeOK
  <1> QED BY <1>1, <1>2, <1>4, <1>5, <1>6

\* A section is held by the scopes named for it.
LEMMA Holding ==
    ASSUME NEW t \in Threads
    PROVE  /\ Holds(t, "csMessage") <=> \E i \in 1..Len(stack[t]) : stack[t][i] \in
                  {"_Recieve", "OnMessageSync", "OnRequestSync", "ForEachClientDoSender"}
           /\ Holds(t, "DelayedPackestCS") <=> \E i \in 1..Len(stack[t]) : stack[t][i] \in
                  {"ProceedDelayedPackets", "AddDelayedPacket"}
           /\ Holds(t, "csPlayers") <=> \E i \in 1..Len(stack[t]) : stack[t][i] \in
                  {"SenderFunctor", "ForFoundClientsDo", "GetFoundClient", "AddNewClient",
                   "FindAndEraseClient"}
           /\ Holds(t, "net_Queue") <=> \E i \in 1..Len(stack[t]) : stack[t][i] \in
                  {"ClientReceive", "IPureClient_OnMessage"}
  BY DEF Holds, ScopesOf

\* The packets of the local client are left alone by what calls others.
LEMMA QueueIsLast ==
    ASSUME NEW t \in Threads, TypeOK, Nested, NextCallable, next[t] /= None
    PROVE  ~ Holds(t, "net_Queue")
  <1> SUFFICES ASSUME NEW i \in 1..Len(stack[t]),
                      stack[t][i] \in {"ClientReceive", "IPureClient_OnMessage"}
               PROVE  FALSE
    BY Holding
  <1>1. i = Len(stack[t])
    BY Places, BelowScopes DEF TypeOK
  <1>2. stack[t] /= <<>> /\ Top(t) = stack[t][i]
    BY <1>1 DEF Top, TypeOK
  <1> QED BY <1>2, Deeper, BelowScopes

\* A packet is delayed with csMessage and perhaps a packet that is handled.
LEMMA DelaysEarly ==
    ASSUME NEW t \in Threads, TypeOK, Nested, NextCallable,
           next[t] \in {"ProceedDelayedPackets", "AddDelayedPacket"}
    PROVE  ~ Holds(t, "csPlayers")
  <1>0. next[t] /= None
    BY NoneAssumption, ScopeNames
  <1>1. CASE stack[t] = <<>>
    BY <1>1 DEF Holds
  <1>2. CASE stack[t] /= <<>>
    <2> DEFINE n == Len(stack[t])
    <2>1. n \in Nat /\ n >= 1 /\ n \in 1..n
      BY <1>2 DEF TypeOK
    <2>2. Top(t) \in {"_Recieve", "OnRequestSync"}
      <3>1. \A scope \in Scopes : "ProceedDelayedPackets" \notin Below(scope)
                /\ ("AddDelayedPacket" \in Below(scope) => scope \in {"_Recieve", "OnRequestSync"})
        BY ScopeNames DEF Below, Inside, Handlers, SendTo, SendBroadcast, Functor
      <3> QED BY <1>0, <1>2, <3>1, Deeper
    <2>3. CASE stack[t][n] = "_Recieve"
      BY <2>1, <2>3, Places, Holding
    <2>4. CASE stack[t][n] = "OnRequestSync"
      <3>1. CASE n = 1
        BY <2>1, <2>4, <3>1, Holding
      <3>2. CASE n > 1
        <4>1. \A scope \in Scopes :
                 "OnRequestSync" \in Below(scope) => scope = "ProceedDelayedPackets"
          BY ScopeNames DEF Below, Inside, Handlers, SendTo, SendBroadcast, Functor
        <4>2. stack[t][n - 1] = "ProceedDelayedPackets"
          BY <2>1, <2>4, <3>2, <4>1, Places
        <4>3. n - 1 \in 1..n
          BY <2>1, <3>2
        <4>4. n - 1 = 1
          BY <4>2, <4>3, Places
        <4>5. \A i \in 1..n : i = 1 \/ i = n
          BY <2>1, <4>4, Positive
        <4> QED BY <2>1, <2>4, <4>2, <4>4, <4>5, Holding
      <3>3. n = 1 \/ n > 1
        BY <2>1, Positive
      <3> QED BY <3>1, <3>2, <3>3
    <2> QED BY <2>2, <2>3, <2>4 DEF Top
  <1> QED BY <1>1, <1>2

\* csMessage is wanted, but not held, by a thread that holds nothing, or by the
\* main loop in the handler of a delayed packet.
LEMMA SendsEarly ==
    ASSUME NEW t \in Threads, TypeOK, Nested, NextCallable, Wants(t, "csMessage")
    PROVE  \/ stack[t] = <<>>
           \/ /\ t = Main
              /\ stack[t] = <<"ProceedDelayedPackets">>
              /\ delayed /= <<>> /\ Head(delayed) /= File
  <1>0. /\ next[t] /= None
        /\ next[t] \in {"_Recieve", "OnMessageSync", "OnRequestSync", "ForEachClientDoSender"}
        /\ ~ Holds(t, "csMessage")
    BY DEF Wants, ScopesOf
  <1> DEFINE n == Len(stack[t])
  <1> SUFFICES ASSUME stack[t] /= <<>>
               PROVE  /\ t = Main
                      /\ stack[t] = <<"ProceedDelayedPackets">>
                      /\ delayed /= <<>> /\ Head(delayed) /= File
    OBVIOUS
  <1>1. n \in Nat /\ n >= 1 /\ n \in 1..n
    BY DEF TypeOK
  <1>2. \A scope \in Scopes :
           Below(scope) \intersect {"_Recieve", "OnMessageSync", "OnRequestSync",
                                   "ForEachClientDoSender"} /= {}
              => scope \in {"_Recieve", "OnMessageSync", "SenderFunctor", "ProceedDelayedPackets"}
    BY ScopeNames DEF Below, Inside, Handlers, SendTo, SendBroadcast, Functor
  <1>3. Top(t) \in {"SenderFunctor", "ProceedDelayedPackets"}
    BY <1>0, <1>1, <1>2, Deeper, Holding DEF Top
  <1>4. Top(t) /= "SenderFunctor"
    <2> SUFFICES ASSUME Top(t) = "SenderFunctor" PROVE FALSE
      OBVIOUS
    <2>1. \A scope \in Scopes :
             "SenderFunctor" \in Below(scope) => scope = "ForEachClientDoSender"
      BY ScopeNames DEF Below, Inside, Handlers, SendTo, SendBroadcast, Functor
    <2>2. CASE n = 1
      <3>1. "SenderFunctor" \notin MainLoop \union NetHandler
        BY DEF MainLoop, NetHandler, Handlers, SendTo, SendBroadcast
      <3> QED BY <2>2, <3>1 DEF Nested, Entries, Top
    <2>3. CASE n > 1
      <3>1. stack[t][n - 1] = "ForEachClientDoSender"
        BY <1>1, <2>1, <2>3, Places DEF Top
      <3>2. n - 1 \in 1..n
        BY <1>1, <2>3
      <3> QED BY <1>0, <3>1, <3>2, Holding
    <2>4. n = 1 \/ n > 1
      BY <1>1, Positive
    <2> QED BY <2>2, <2>3, <2>4
  <1>5. n = 1 /\ stack[t][1] = "ProceedDelayedPackets" /\ t = Main
    BY <1>1, <1>3, <1>4, Places DEF Top
  <1>6. stack[t] = <<"ProceedDelayedPackets">>
    BY <1>5 DEF TypeOK
  <1>7. next[t] \in Inside("ProceedDelayedPackets", delayed)
    BY <1>0, <1>5 DEF NextCallable, Callable, Top
  <1>8. delayed /= <<>> /\ next[t] \in OnDelayedMessage(Head(delayed))
    BY <1>7 DEF Inside
  <1>9. Head(delayed) /= File
    BY <1>0, <1>8 DEF OnDelayedMessage, File, Connecting, Command, SendTo
  <1> QED BY <1>5, <1>6, <1>8, <1>9

\* The sections are taken in the order of their ranks.
LEMMA Ordered ==
    ASSUME TypeOK, Nested, NextCallable
    PROVE  LockOrder
  <1> SUFFICES ASSUME NEW t \in Threads, NEW c \in Sections, NEW d \in Sections,
                      Holds(t, c), Wants(t, d)
               PROVE  Rank(c) < Rank(d) \/ Breaks(t, c, d)
    BY DEF LockOrder
  <1>0. next[t] /= None /\ c /= d /\ next[t] \in ScopesOf(d) /\ ~ Holds(t, d)
    BY DEF Wants
  <1>1. CASE d = "net_Queue"
    BY <1>0, <1>1 DEF Rank
  <1>2. CASE d = "csPlayers"
    BY <1>0, <1>2, QueueIsLast DEF Rank
  <1>3. CASE d = "DelayedPackestCS"
    <2>1. next[t] \in {"ProceedDelayedPackets", "AddDelayedPacket"}
      BY <1>0, <1>3 DEF ScopesOf
    <2>2. c \notin {"net_Queue", "csPlayers"}
      BY <1>0, <2>1, QueueIsLast, DelaysEarly
    <2> QED BY <1>0, <1>3, <2>2 DEF Rank
  <1>4. CASE d = "csMessage"
    <2>1. stack[t] /= <<>>
      BY DEF Holds
    <2>2. /\ t = Main
          /\ stack[t] = <<"ProceedDelayedPackets">>
          /\ delayed /= <<>> /\ Head(delayed) /= File
      BY <1>4, <2>1, SendsEarly
    <2>3. c = "DelayedPackestCS"
      BY <2>2 DEF Holds, ScopesOf
    <2> QED BY <1>4, <2>2, <2>3 DEF Breaks
  <1> QED BY <1>1, <1>2, <1>3, <1>4

-----------------------------------------------------------------------------
(* The invariant.                                                          *)

LEMMA CallableScopes ==
    ASSUME NEW t \in Threads, TypeOK
    PROVE  Callable(t) \subseteq Scopes
  <1>1. CASE stack[t] = <<>>
    BY <1>1, EntryScopes DEF Callable, Entries
  <1>2. CASE stack[t] /= <<>>
    <2>1. Top(t) \in Scopes
      BY <1>2 DEF Top, TypeOK
    <2> QED BY <1>2, <2>1, InsideIsBelow, BelowScopes DEF Callable, TypeOK
  <1> QED BY <1>1, <1>2

\* A packet that is added takes no handler from a thread.
LEMMA InsideGrows ==
    ASSUME NEW scope \in Scopes, NEW packets \in Seq(PacketTypes), NEW type \in PacketTypes
    PROVE  Inside(scope, packets) \subseteq Inside(scope, Append(packets, type))
  <1>1. CASE scope = "ProceedDelayedPackets"
    <2>1. CASE packets = <<>>
      BY <1>1, <2>1 DEF Inside
    <2>2. CASE packets /= <<>>
      <3>1. Head(Append(packets, type)) = Head(packets) /\ Append(packets, type) /= <<>>
        BY <2>2
      <3> QED BY <1>1, <2>2, <3>1 DEF Inside
    <2> QED BY <2>1, <2>2
  <1>2. CASE scope /= "ProceedDelayedPackets"
    BY <1>2, ScopeNames DEF Inside
  <1> QED BY <1>1, <1>2

LEMMA InsideOthers ==
    ASSUME NEW scope \in Scopes \ {"ProceedDelayedPackets"}, NEW p, NEW q
    PROVE  Inside(scope, p) = Inside(scope, q)
  BY ScopeNames DEF Inside

LEMMA Initially == Init => IInv
  <1> SUFFICES ASSUME Init PROVE IInv
    OBVIOUS
  <1>1. TypeOK
    BY DEF Init, TypeOK
  <1>2. \A t \in Threads : stack[t] = <<>> /\ next[t] = None
    BY DEF Init
  <1>3. Nested /\ NextCallable /\ Exclusive
    BY <1>2 DEF Nested, NextCallable, Exclusive, Holds
  <1> QED BY <1>1, <1>3 DEF IInv

LEMMA CallKeeps ==
    ASSUME NEW t \in Threads, IInv, Call(t)
    PROVE  IInv'
  <1>1. PICK scope \in Callable(t) : next' = [next EXCEPT ![t] = scope]
    BY DEF Call
  <1>2. stack' = stack /\ players' = players /\ delayed' = delayed
    BY DEF Call
  <1>3. TypeOK'
    BY <1>1, <1>2, CallableScopes DEF TypeOK, IInv
  <1>4. Nested'
    BY <1>2 DEF Nested, IInv
  <1>5. NextCallable'
    BY <1>1, <1>2 DEF NextCallable, Callable, Top, IInv, TypeOK
  <1>6. Exclusive'
    BY <1>2 DEF Exclusive, Holds, IInv
  <1> QED BY <1>3, <1>4, <1>5, <1>6 DEF IInv

LEMMA EnterKeeps ==
    ASSUME NEW t \in Threads, IInv, Enter(t)
    PROVE  IInv'
  <1> DEFINE s == stack[t]
  <1>1. /\ next[t] /= None /\ next[t] \in Scopes
        /\ stack' = [stack EXCEPT ![t] = Append(s, next[t])]
        /\ next' = [next EXCEPT ![t] = None]
        /\ players' = players /\ delayed' = delayed
    BY DEF Enter, IInv, TypeOK
  <1>2. s \in Seq(Scopes) /\ stack'[t] = Append(s, next[t])
    BY <1>1 DEF IInv, TypeOK
  <1>3. TypeOK'
    BY <1>1, <1>2 DEF IInv, TypeOK
  <1>4. \A u \in Threads \ {t} : stack'[u] = stack[u] /\ next'[u] = next[u]
    BY <1>1 DEF IInv, TypeOK
  <1>5. Nested'
    <2>1. next[t] \in Callable(t)
      BY <1>1 DEF IInv, NextCallable
    <2>2. stack'[t][1] \in Entries(t)
      <3>1. CASE s = <<>>
        BY <1>2, <2>1, <3>1 DEF Callable, Entries
      <3>2. CASE s /= <<>>
        <4>1. s[1] \in Entries(t)
          BY <3>2 DEF IInv, Nested
        <4>2. stack'[t][1] = s[1]
          BY <1>2, <3>2
        <4> QED BY <4>1, <4>2
      <3> QED BY <3>1, <3>2
    <2>3. ASSUME NEW i \in 1..(Len(stack'[t]) - 1)
          PROVE  stack'[t][i + 1] \in Below(stack'[t][i])
      <3>1. i \in 1..Len(s) /\ stack'[t][i] = s[i]
        BY <1>2
      <3>2. CASE i = Len(s)
        <4>1. stack'[t][i + 1] = next[t] /\ s /= <<>> /\ Top(t) = s[i]
          BY <1>2, <3>1, <3>2 DEF Top
        <4> QED BY <1>1, <3>1, <4>1, Deeper DEF IInv
      <3>3. CASE i /= Len(s)
        <4>1. i \in 1..(Len(s) - 1) /\ stack'[t][i + 1] = s[i + 1]
          BY <1>2, <3>1, <3>3
        <4> QED BY <3>1, <4>1 DEF IInv, Nested
      <3> QED BY <3>2, <3>3
    <2>4. ASSUME NEW u \in Threads \ {t}
          PROVE  /\ stack'[u] /= <<>> => stack'[u][1] \in Entries(u)
                 /\ \A i \in 1..(Len(stack'[u]) - 1) : stack'[u][i + 1] \in Below(stack'[u][i])
      BY <1>4 DEF IInv, Nested
    <2> QED BY <2>2, <2>3, <2>4 DEF Nested
  <1>6. NextCallable'
    BY <1>1, <1>4 DEF IInv, NextCallable, Callable, Top, TypeOK
  <1>7. Exclusive'
    <2>1. ASSUME NEW c \in Sections, NEW u \in Threads \ {t}
          PROVE  Holds(u, c)' <=> Holds(u, c)
      BY <1>4, <2>1 DEF Holds
    <2>2. ASSUME NEW c \in Sections, Holds(t, c)'
          PROVE  Holds(t, c) \/ next[t] \in ScopesOf(c)
      BY <1>2, <2>2 DEF Holds
    <2>3. \A c \in Sections, u \in Threads \ {t} : next[t] \in ScopesOf(c) => ~ Holds(u, c)
      BY DEF Enter
    <2> QED BY <2>1, <2>2, <2>3 DEF IInv, Exclusive
  <1> QED BY <1>3, <1>5, <1>6, <1>7 DEF IInv

\* A thread that leaves its innermost scope.
LEMMA LeftKeeps ==
    ASSUME NEW t \in Threads, IInv, Left(t), stack[t] /= <<>>,
           next[t] = None, next' = next,
           players' \subseteq Clients,
           \/ delayed' = delayed
           \/ \E type \in PacketTypes : delayed' = Append(delayed, type)
    PROVE  IInv'
  <1> DEFINE s == stack[t]
  <1> DEFINE r == SubSeq(s, 1, Len(s) - 1)
  <1>1. s \in Seq(Scopes) /\ Len(s) \in Nat /\ Len(s) >= 1
    BY DEF IInv, TypeOK
  <1>2. /\ r \in Seq(Scopes) /\ Len(r) = Len(s) - 1
        /\ \A i \in 1..Len(r) : r[i] = s[i] /\ i \in 1..Len(s)
    BY <1>1
  <1>3. /\ stack' = [stack EXCEPT ![t] = r]
        /\ stack'[t] = r
        /\ \A u \in Threads \ {t} : stack'[u] = stack[u]
    BY DEF Left, IInv, TypeOK
  <1>4. TypeOK'
    <2>1. stack' \in [Threads -> Seq(Scopes)]
      BY <1>2, <1>3 DEF IInv, TypeOK
    <2>2. delayed' \in Seq(PacketTypes)
      <3>1. delayed \in Seq(PacketTypes)
        BY DEF IInv, TypeOK
      <3>2. ASSUME NEW type \in PacketTypes
            PROVE  Append(delayed, type) \in Seq(PacketTypes)
        BY <3>1
      <3> QED BY <3>1, <3>2
    <2>3. next' \in [Threads -> Scopes \union {None}]
      BY DEF IInv, TypeOK
    <2> QED BY <2>1, <2>2, <2>3 DEF TypeOK
  <1>5. Nested'
    <2>1. r /= <<>> => r[1] \in Entries(t)
      <3>1. r /= <<>> => 1 \in 1..Len(r) /\ s /= <<>>
        BY <1>1, <1>2
      <3> QED BY <1>2, <3>1 DEF IInv, Nested
    <2>2. ASSUME NEW i \in 1..(Len(r) - 1)
          PROVE  r[i + 1] \in Below(r[i])
      <3>1. i \in 1..(Len(s) - 1) /\ r[i] = s[i] /\ r[i + 1] = s[i + 1]
        BY <1>1, <1>2
      <3> QED BY <3>1 DEF IInv, Nested
    <2>3. ASSUME NEW u \in Threads \ {t}
          PROVE  /\ stack'[u] /= <<>> => stack'[u][1] \in Entries(u)
                 /\ \A i \in 1..(Len(stack'[u]) - 1) : stack'[u][i + 1] \in Below(stack'[u][i])
      BY <1>3 DEF IInv, Nested
    <2> QED BY <1>3, <2>1, <2>2, <2>3 DEF Nested
  <1>6. NextCallable'
    <2> SUFFICES ASSUME NEW u \in Threads \ {t}, next[u] /= None
                 PROVE  next[u] \in Callable(u)'
      BY DEF NextCallable
    <2>1. next[u] \in Callable(u)
      BY DEF IInv, NextCallable
    <2>2. CASE stack[u] = <<>>
      BY <1>3, <2>1, <2>2 DEF Callable
    <2>3. CASE stack[u] /= <<>>
      <3>1. Top(u) \in Scopes /\ Top(u)' = Top(u)
        BY <1>3, <2>3 DEF Top, IInv, TypeOK
      <3>2. Inside(Top(u), delayed) \subseteq Inside(Top(u), delayed')
        BY <3>1, InsideGrows DEF IInv, TypeOK
      <3> QED BY <1>3, <2>1, <2>3, <3>1, <3>2 DEF Callable
    <2> QED BY <2>2, <2>3
  <1>7. Exclusive'
    <2>1. ASSUME NEW c \in Sections, NEW u \in Threads, Holds(u, c)'
          PROVE  Holds(u, c)
      <3>1. CASE u = t
        BY <1>2, <1>3, <2>1, <3>1 DEF Holds
      <3>2. CASE u /= t
        BY <1>3, <2>1, <3>2 DEF Holds
      <3> QED BY <3>1, <3>2
    <2> QED BY <2>1 DEF IInv, Exclusive
  <1> QED BY <1>4, <1>5, <1>6, <1>7 DEF IInv

LEMMA PopKeeps ==
    ASSUME NEW t \in Threads, IInv, PopDelayedPacket(t)
    PROVE  IInv'
  <1>1. /\ stack' = stack /\ next' = next /\ players' = players
        /\ delayed' = Tail(delayed) /\ delayed /= <<>>
        /\ next[t] = None /\ stack[t] /= <<>> /\ Top(t) = "ProceedDelayedPackets"
    BY DEF PopDelayedPacket, Ends
  <1>2. TypeOK'
    BY <1>1 DEF IInv, TypeOK
  <1>3. Nested' /\ Exclusive'
    BY <1>1 DEF IInv, Nested, Exclusive, Holds
  <1>4. NextCallable'
    <2> SUFFICES ASSUME NEW u \in Threads, next[u] /= None
                 PROVE  next[u] \in Callable(u)'
      BY <1>1 DEF NextCallable
    <2>1. next[u] \in Callable(u)
      BY DEF IInv, NextCallable
    <2>2. CASE stack[u] = <<>>
      BY <1>1, <2>1, <2>2 DEF Callable
    <2>3. CASE stack[u] /= <<>>
      <3>1. \A v \in Threads : stack[v] /= <<>> =>
               Top(v) \in Scopes /\ (Top(v) = "ProceedDelayedPackets" => v = Main)
        <4> SUFFICES ASSUME NEW v \in Threads, stack[v] /= <<>>
                     PROVE  Top(v) \in Scopes
                            /\ (Top(v) = "ProceedDelayedPackets" => v = Main)
          OBVIOUS
        <4>1. Len(stack[v]) \in 1..Len(stack[v])
          BY DEF IInv, TypeOK
        <4> QED BY <4>1, Places DEF IInv, Top
      <3>2. Top(u) \in Scopes \ {"ProceedDelayedPackets"}
        BY <1>1, <2>3, <3>1
      <3> QED BY <1>1, <2>1, <2>3, <3>2, InsideOthers DEF Callable, Top
    <2> QED BY <2>2, <2>3
  <1> QED BY <1>2, <1>3, <1>4 DEF IInv

LEMMA Inductive == IInv /\ [Next]_vars => IInv'
  <1> SUFFICES ASSUME IInv, [Next]_vars PROVE IInv'
    OBVIOUS
  <1>1. CASE UNCHANGED vars
    BY <1>1 DEF vars, IInv, TypeOK, Nested, NextCallable, Callable, Top, Exclusive, Holds
  <1>2. ASSUME NEW t \in Threads, Call(t)
        PROVE  IInv'
    BY <1>2, CallKeeps
  <1>3. ASSUME NEW t \in Threads, Enter(t)
        PROVE  IInv'
    BY <1>3, EnterKeeps
  <1>4. ASSUME NEW t \in Threads, Leave(t)
        PROVE  IInv'
    BY <1>4, LeftKeeps DEF Leave, IInv, TypeOK
  <1>5. ASSUME NEW t \in Threads, NEW client \in Clients,
               AddNewClient(t, client) \/ FindAndEraseClient(t, client)
        PROVE  IInv'
    BY <1>5, LeftKeeps DEF AddNewClient, FindAndEraseClient, Ends, IInv, TypeOK
  <1>6. ASSUME NEW t \in Threads, NEW type \in PacketTypes, AddDelayedPacket(t, type)
        PROVE  IInv'
    BY <1>6, LeftKeeps DEF AddDelayedPacket, Ends, IInv, TypeOK
  <1>7. ASSUME NEW t \in Threads, PopDelayedPacket(t)
        PROVE  IInv'
    BY <1>7, PopKeeps
  <1> QED BY <1>1, <1>2, <1>3, <1>4, <1>5, <1>6, <1>7 DEF Next

-----------------------------------------------------------------------------
(* What the order excludes.                                                *)

LEMMA NoSendsUnder == LockOrder => SendsUnderNeither
  <1> SUFFICES ASSUME LockOrder, NEW t \in Threads, Wants(t, "csMessage")
               PROVE  ~ Holds(t, "csPlayers") /\ ~ Holds(t, "net_Queue")
    BY DEF SendsUnderNeither
  <1>1. \A c \in Sections : Holds(t, c) => Rank(c) < 1 \/ Breaks(t, c, "csMessage")
    BY DEF LockOrder, Rank
  <1> QED BY <1>1 DEF Rank, Breaks

\* Threads that wait for each other: a section wanted by one of them is held by
\* another, which wants one that comes later, and there is a last section.
LEMMA OnlyBreaking ==
    ASSUME LockOrder, NEW waiting \in SUBSET Threads, Stuck(waiting)
    PROVE  \E t \in waiting : Breaks(t, "DelayedPackestCS", "csMessage")
                              /\ Holds(t, "DelayedPackestCS") /\ Wants(t, "csMessage")
  <1> SUFFICES ASSUME \A t \in waiting : \A c, d \in Sections :
                         Holds(t, c) /\ Wants(t, d) => Rank(c) < Rank(d)
               PROVE  FALSE
    BY DEF LockOrder, Breaks
  <1> DEFINE Wanted(c) == \E t \in waiting : Wants(t, c)
  <1>1. ASSUME NEW c \in Sections, Wanted(c)
        PROVE  \E d \in Sections : Wanted(d) /\ Rank(c) < Rank(d)
    <2>1. PICK t \in waiting : Wants(t, c)
      BY <1>1
    <2>2. PICK e \in Sections, u \in waiting : Wants(t, e) /\ Holds(u, e)
      BY DEF Stuck
    <2>3. e = c
      BY <2>1, <2>2 DEF Wants, ScopesOf
    <2>4. PICK d \in Sections : Wants(u, d)
      BY <2>2 DEF Stuck
    <2> QED BY <2>2, <2>3, <2>4
  <1>2. ~ Wanted("net_Queue")
    BY <1>1 DEF Rank
  <1>3. ~ Wanted("csPlayers")
    BY <1>1, <1>2 DEF Rank
  <1>4. ~ Wanted("DelayedPackestCS")
    BY <1>1, <1>2, <1>3 DEF Rank
  <1>5. ~ Wanted("csMessage")
    BY <1>1, <1>2, <1>3, <1>4 DEF Rank
  <1> QED BY <1>2, <1>3, <1>4, <1>5 DEF Stuck

LEMMA OnlyMainBreaks == LockOrder => OnlyDelayedDeadlock
  <1> SUFFICES ASSUME LockOrder, NEW waiting \in SUBSET Threads, Stuck(waiting)
               PROVE  /\ Main \in waiting
                      /\ Breaks(Main, "DelayedPackestCS", "csMessage")
                      /\ Holds(Main, "DelayedPackestCS") /\ Wants(Main, "csMessage")
    BY DEF OnlyDelayedDeadlock
  <1>1. PICK t \in waiting : Breaks(t, "DelayedPackestCS", "csMessage")
                             /\ Holds(t, "DelayedPackestCS") /\ Wants(t, "csMessage")
    BY OnlyBreaking
  <1>2. t = Main
    BY <1>1 DEF Breaks
  <1> QED BY <1>1, <1>2

\* A thread that changes the list is in no other scope.
LEMMA ChangesAlone ==
    ASSUME IInv, NEW t \in Threads,
           Ends(t, "AddNewClient") \/ Ends(t, "FindAndEraseClient")
    PROVE  \A u \in Threads : ~ WalksOverPlayers(u)
  <1> DEFINE n == Len(stack[t])
  <1>1. n \in Nat /\ n \in 1..n /\ stack[t][n] \in {"AddNewClient", "FindAndEraseClient"}
    BY DEF Ends, Top, IInv, TypeOK
  <1>2. n = 1
    BY <1>1, Places DEF IInv
  <1>3. ~ WalksOverPlayers(t)
    BY <1>1, <1>2 DEF WalksOverPlayers
  <1>4. Holds(t, "csPlayers")
    BY <1>1, Holding
  <1>5. ASSUME NEW u \in Threads, WalksOverPlayers(u)
        PROVE  Holds(u, "csPlayers")
    BY <1>5, Holding DEF WalksOverPlayers
  <1> QED BY <1>3, <1>4, <1>5 DEF IInv, Exclusive

PlayersStep ==
    players' /= players => \A t \in Threads : ~ WalksOverPlayers(t)

LEMMA PlayersStays == IInv /\ [Next]_vars => PlayersStep
  <1> SUFFICES ASSUME IInv, [Next]_vars, players' /= players
               PROVE  \A t \in Threads : ~ WalksOverPlayers(t)
    BY DEF PlayersStep
  <1>1. PICK t \in Threads : Ends(t, "AddNewClient") \/ Ends(t, "FindAndEraseClient")
    BY DEF Next, vars, Call, Enter, Leave, AddNewClient, FindAndEraseClient,
           AddDelayedPacket, PopDelayedPacket
  <1> QED BY <1>1, ChangesAlone

FrontStep ==
    \A t \in Threads :
        (Holds(t, "DelayedPackestCS") /\ stack[t][1] = "ProceedDelayedPackets" /\ delayed /= <<>>)
           => \/ PopDelayedPacket(t)
              \/ delayed' /= <<>> /\ Head(delayed') = Head(delayed)

LEMMA FrontStays == IInv /\ [Next]_vars => FrontStep
  <1> SUFFICES ASSUME IInv, [Next]_vars, NEW t \in Threads,
                      Holds(t, "DelayedPackestCS"), stack[t][1] = "ProceedDelayedPackets",
                      delayed /= <<>>
               PROVE  \/ PopDelayedPacket(t)
                      \/ delayed' /= <<>> /\ Head(delayed') = Head(delayed)
    BY DEF FrontStep
  <1>1. \A u \in Threads :
           stack[u] /= <<>> /\ stack[u][1] = "ProceedDelayedPackets" => u = Main
    <2> SUFFICES ASSUME NEW u \in Threads, stack[u] /= <<>>,
                        stack[u][1] = "ProceedDelayedPackets"
                 PROVE  u = Main
      OBVIOUS
    <2>1. 1 \in 1..Len(stack[u])
      BY DEF IInv, TypeOK
    <2> QED BY <2>1, Places DEF IInv
  <1>2. t = Main
    BY <1>1 DEF Holds
  <1>3. CASE delayed' = delayed
    BY <1>3
  <1>4. CASE \E u \in Threads : PopDelayedPacket(u)
    <2>1. PICK u \in Threads : PopDelayedPacket(u)
      BY <1>4
    <2>2. stack[u] /= <<>> /\ Top(u) = "ProceedDelayedPackets"
      BY <2>1 DEF PopDelayedPacket, Ends
    <2>3. Len(stack[u]) \in 1..Len(stack[u])
      BY <2>2 DEF IInv, TypeOK
    <2>4. u = Main
      BY <2>2, <2>3, Places DEF IInv, Top
    <2> QED BY <1>2, <2>1, <2>4
  <1>5. CASE \E type \in PacketTypes : delayed' = Append(delayed, type)
    <2>1. delayed \in Seq(PacketTypes)
      BY DEF IInv, TypeOK
    <2> QED BY <1>5, <2>1
  <1> QED BY <1>3, <1>4, <1>5 DEF Next, vars, Call, Enter, Leave, AddNewClient,
             FindAndEraseClient, AddDelayedPacket

-----------------------------------------------------------------------------
THEOREM Invariance == Spec => []IInv
  BY Initially, Inductive, PTL DEF Spec

\* A thread is in scopes, a client is a client and a delayed packet has a type
\* that OnMessage delays.
THEOREM TypeCorrect == Spec => []TypeOK
  <1>1. IInv => TypeOK
    BY DEF IInv
  <1> QED BY <1>1, Invariance, PTL

\* The sections of the server are taken in one order, but for csMessage in the
\* handler of a delayed packet (xrServer.cpp:1080).
THEOREM OrderOfSections == Spec => []LockOrder
  <1>1. IInv => LockOrder
    BY Ordered DEF IInv
  <1> QED BY <1>1, Invariance, PTL

\* Nothing is sent to the server with the list of clients or the packets of the
\* local client held, the two deadlocks that Level_network.cpp reports.
THEOREM NothingSentUnder == Spec => []SendsUnderNeither
  <1>1. IInv => SendsUnderNeither
    BY Ordered, NoSendsUnder DEF IInv
  <1> QED BY <1>1, Invariance, PTL

\* Threads wait for each other only when the main loop handles a delayed packet
\* that is not a piece of a file.
THEOREM DeadlockOfDelayed == Spec => []OnlyDelayedDeadlock
  <1>1. IInv => OnlyDelayedDeadlock
    BY Ordered, OnlyMainBreaks DEF IInv
  <1> QED BY <1>1, Invariance, PTL

\* The list of clients stays as it is while anything walks over it.
THEOREM ListKept == Spec => PlayersKept
  <1>1. IInv /\ [Next]_vars => [PlayersStep]_vars
    BY PlayersStays
  <1>2. Spec => [][PlayersStep]_vars
    BY <1>1, Invariance, PTL DEF Spec
  <1> QED BY <1>2 DEF PlayersKept, PlayersStep

\* The delayed packet that is handled is the one that is taken off afterwards.
THEOREM PacketKept == Spec => FrontKept
  <1>1. IInv /\ [Next]_vars => [FrontStep]_vars
    BY FrontStays
  <1>2. Spec => [][FrontStep]_vars
    BY <1>1, Invariance, PTL DEF Spec
  <1> QED BY <1>2 DEF FrontKept, FrontStep
=============================================================================
