--------------------------- MODULE GameEventQueue ---------------------------
(***************************************************************************)
(* GameEventQueue of xrGame/game_sv_event_queue.cpp and its two users: the *)
(* threads that post events (AddDelayedEvent) and the main loop that       *)
(* handles them (ProcessDelayedEvent) and sometimes erases them            *)
(* (CleanDelayedEvents).  Event objects are recycled: "ready" holds those  *)
(* with an event, "unused" those without, and the main loop works on an    *)
(* object that it leaves in "ready".                                       *)
(*                                                                         *)
(* Every operation holds the critical section cs and is one step, except   *)
(* EraseEvents, whose loop is one step per event while "erasing" stands    *)
(* for the section being held.                                             *)
(***************************************************************************)
EXTENDS Integers, Sequences, FiniteSets

CONSTANTS
    Objects,        \* GameEvent objects: the heap
    NoObject,       \* the null pointer
    Clients,        \* senders
    Types,          \* kinds of events; a kill or hit of each victim is one
    AlwaysTypes,    \* the kinds that are accepted of ignored senders too
    NoEvent,        \* not an event
    Initial,        \* objects the constructor makes, 16
    Keep            \* more unused ones than this may be deleted, 32

ASSUME QueueAssumption ==
    /\ NoObject \notin Objects
    /\ AlwaysTypes \subseteq Types
    /\ Initial \in Nat /\ Keep \in Nat /\ Initial <= Keep
    /\ IsFiniteSet(Objects) /\ Initial <= Cardinality(Objects)

Events == [type : Types, sender : Clients]

\* What EventDeleterPredicate selects: everything, or what happened to a victim.
Predicates == {Events} \union {{e \in Events : e.type = t} : t \in Types \ AlwaysTypes}

ASSUME EventAssumption == NoEvent \notin Events

VARIABLES
    ready,          \* objects with an event, in order
    unused,         \* objects without one; used as a stack
    event,          \* what is in an object
    blocked,        \* m_blocked_clients
    checked,        \* the event that CreateSafe let pass and did not post yet
    held,           \* the object ProcessDelayedEvent works on
    erasing         \* the events EraseEvents looks for, {} when it is not running

vars == <<ready, unused, event, blocked, checked, held, erasing>>

Elements(s) == {s[i] : i \in 1..Len(s)}
Allocated == Elements(ready) \union Elements(unused)
Popped(s) == [j \in 1..(Len(s) - 1) |-> s[j]]
WithoutPlace(s, i) == [j \in 1..(Len(s) - 1) |-> IF j < i THEN s[j] ELSE s[j + 1]]

-----------------------------------------------------------------------------
Init ==
    /\ ready = <<>>
    /\ unused \in [1..Initial -> Objects]
    /\ \A i, j \in 1..Initial : unused[i] = unused[j] => i = j
    /\ event = [o \in Objects |-> NoEvent]
    /\ blocked = {}
    /\ checked = NoEvent
    /\ held = NoObject
    /\ erasing = {}

\* The object Create fills: the top of unused, or a new one.
Takes(o) ==
    IF unused = <<>> THEN o \in Objects \ Allocated ELSE o = unused[Len(unused)]

\* Faults: an object that stays in unused, a queue that serves the latest first.
StoreUnpopped(e) ==
    /\ erasing = {}
    /\ \E o \in Objects :
          /\ Takes(o)
          /\ ready' = Append(ready, o)
          /\ event' = [event EXCEPT ![o] = e]
    /\ UNCHANGED <<unused, blocked, held, erasing>>

StoreFirst(e) ==
    /\ erasing = {}
    /\ \E o \in Objects :
          /\ Takes(o)
          /\ ready' = IF held = NoObject THEN <<o>> \o ready ELSE Append(ready, o)
          /\ event' = [event EXCEPT ![o] = e]
    /\ unused' = Popped(unused)
    /\ UNCHANGED <<blocked, held, erasing>>

\* GameEventQueue::Create
Store(e) ==
    /\ erasing = {}
    /\ \E o \in Objects :
          /\ Takes(o)
          /\ ready' = Append(ready, o)
          /\ event' = [event EXCEPT ![o] = e]
    /\ unused' = Popped(unused)
    /\ UNCHANGED <<blocked, held, erasing>>

\* AddDelayedEvent of a kind that is always accepted.
Create(e) ==
    /\ e.type \in AlwaysTypes
    /\ Store(e)
    /\ UNCHANGED checked

\* CreateSafe looks the sender up without entering cs, and then calls Create.
\* csMessage keeps two callers from being in between at once.
CheckSender(e) ==
    /\ e.type \notin AlwaysTypes
    /\ checked = NoEvent
    /\ e.sender \notin blocked
    /\ checked' = e
    /\ UNCHANGED <<ready, unused, event, blocked, held, erasing>>

CreateChecked ==
    /\ checked /= NoEvent
    /\ Store(checked)
    /\ checked' = NoEvent

\* SetIgnoreEventsFor, on the main thread: the end of a round ignores clients,
\* the handler of a client's PLAYER_STARTED accepts it again.
SetIgnoreEventsFor(ignore, c) ==
    /\ erasing = {}
    /\ \/ ignore /\ held = NoObject
       \/ ~ ignore /\ held /= NoObject /\ event[held].type \in AlwaysTypes
                   /\ event[held].sender = c
    /\ blocked' = IF ignore THEN blocked \union {c} ELSE blocked \ {c}
    /\ UNCHANGED <<ready, unused, event, checked, held, erasing>>

\* A fault: xr_delete without the "else" leaves a null pointer behind.
RecycledNull(o, stale) ==
    IF stale /\ Len(unused) > Keep THEN Append(unused, NoObject) ELSE Append(unused, o)

\* An object that becomes free is recycled, or deleted when there are many and
\* none was made for a minute ("stale": LastTimeCreate against GetTickCount).
Recycled(o, stale) ==
    IF stale /\ Len(unused) > Keep THEN unused ELSE Append(unused, o)

\* Retreive, by the loop of ProcessDelayedEvent.
Retreive ==
    /\ erasing = {} /\ held = NoObject
    /\ ready /= <<>>
    /\ held' = Head(ready)
    /\ UNCHANGED <<ready, unused, event, blocked, checked, erasing>>

\* Retreive of nothing may delete an unused object.
RetreiveNothing(stale) ==
    /\ erasing = {} /\ held = NoObject
    /\ ready = <<>>
    /\ stale /\ Len(unused) > Keep
    /\ unused' = Popped(unused)
    /\ UNCHANGED <<ready, event, blocked, checked, held, erasing>>

\* Release, when OnEvent has returned.
Release(stale) ==
    /\ held /= NoObject
    /\ unused' = Recycled(Head(ready), stale)
    /\ ready' = Tail(ready)
    /\ held' = NoObject
    /\ UNCHANGED <<event, blocked, checked, erasing>>

\* EraseEvents.  Its callers (the start and the end of a round, from Update or
\* a console command) run outside ProcessDelayedEvent.
EraseEvents(to_del) ==
    /\ erasing = {} /\ held = NoObject
    /\ to_del /= {}
    /\ erasing' = to_del
    /\ UNCHANGED <<ready, unused, event, blocked, checked, held>>

Matches(i) == event[ready[i]] \in erasing

EraseNext(stale) ==
    /\ \E i \in 1..Len(ready) :
          /\ Matches(i)
          /\ \A j \in 1..(i - 1) : ~ Matches(j)
          /\ ready' = WithoutPlace(ready, i)
          /\ unused' = Recycled(ready[i], stale)
    /\ UNCHANGED <<event, blocked, checked, held, erasing>>

EraseDone ==
    /\ erasing /= {}
    /\ \A i \in 1..Len(ready) : ~ Matches(i)
    /\ erasing' = {}
    /\ UNCHANGED <<ready, unused, event, blocked, checked, held>>

Next ==
    \/ \E e \in Events : Create(e)
    \/ \E e \in Events : CheckSender(e)
    \/ CreateChecked
    \/ \E ignore \in BOOLEAN, c \in Clients : SetIgnoreEventsFor(ignore, c)
    \/ Retreive
    \/ \E stale \in BOOLEAN : RetreiveNothing(stale)
    \/ \E stale \in BOOLEAN : Release(stale)
    \/ \E to_del \in Predicates : EraseEvents(to_del)
    \/ \E stale \in BOOLEAN : EraseNext(stale)
    \/ EraseDone

Spec == Init /\ [][Next]_vars

\* The main loop calls ProcessDelayedEvent every frame, whatever it erases in
\* between; handlers return, and the loop of EraseEvents goes on.
Fairness ==
    /\ SF_vars(Retreive)
    /\ WF_vars(\E stale \in BOOLEAN : Release(stale))
    /\ WF_vars(\E stale \in BOOLEAN : EraseNext(stale))
    /\ WF_vars(EraseDone)

FairSpec == Spec /\ Fairness

-----------------------------------------------------------------------------
TypeOK ==
    /\ ready \in Seq(Objects)
    /\ unused \in Seq(Objects)
    /\ event \in [Objects -> Events \union {NoEvent}]
    /\ blocked \subseteq Clients
    /\ checked \in Events \union {NoEvent}
    /\ held \in Objects \union {NoObject}
    /\ erasing \subseteq Events

\* An object is in one place only, and once: two events in one object would
\* be one event handled twice and another lost.
OneOwner ==
    /\ \A i, j \in 1..Len(ready) : ready[i] = ready[j] => i = j
    /\ \A i, j \in 1..Len(unused) : unused[i] = unused[j] => i = j
    /\ \A i \in 1..Len(ready), j \in 1..Len(unused) : ready[i] /= unused[j]

\* What ProcessDelayedEvent works on stays at the front until it is released:
\* Release frees the event that was handled and no other one, and its
\* R_ASSERT(!ready.empty()) holds (game_sv_event_queue.cpp:117, 131).
HeldIsFront ==
    held /= NoObject => ready /= <<>> /\ held = Head(ready) /\ erasing = {}

\* No object is lost or leaks: the pool never has fewer than the constructor
\* made, however often objects are deleted
\* (game_sv_event_queue.cpp:100-107, 121-129, 171-180).
PoolKept == Len(ready) + Len(unused) >= Initial

\* Every object in "ready" holds an event that was posted (a part of the
\* inductive invariant of GameEventQueueProofs).
ReadyHoldEvents == \A i \in 1..Len(ready) : event[ready[i]] \in Events

Queue == INSTANCE EventQueue WITH
    pending <- [i \in 1..Len(ready) |-> event[ready[i]]],
    current <- IF held = NoObject THEN NoEvent ELSE event[held]

\* The queue with its recycled objects implements EventQueue: events are
\* handled in order and once, and the one in progress is not overwritten.
ImplementsEventQueue == Queue!Spec

\* An event that is posted is handled or erased, whatever is posted after it
\* (ProcessDelayedEvent, game_sv_base.cpp:890-897).
EventuallyServed ==
    \A o \in Objects : (o \in Elements(ready)) ~> (o \notin Elements(ready))
=============================================================================
