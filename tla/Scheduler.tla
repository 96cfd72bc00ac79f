------------------------------ MODULE Scheduler ------------------------------
(***************************************************************************)
(* CSheduler of xrEngine/xrSheduler.cpp.  Once per frame Update calls      *)
(* shedule_Update of every real-time object, and of the other objects in   *)
(* the order of the time they are due, until the frame's share of time is  *)
(* used up.  What is called may register and unregister objects, itself    *)
(* too: most of that is queued in Registration and done before and after   *)
(* the calls, but objects that are unregistered meanwhile are removed from *)
(* the lists at once, under the loops that walk over them.                 *)
(*                                                                         *)
(* Times are relative to the present (Device.dwTimeGlobal): "due" is       *)
(* dwTimeForExecute minus it, "elapsed" is it minus dwTimeOfLastExecute.   *)
(* Items is a heap in the code; here the order of its items is irrelevant  *)
(* and the top is one that is due first.                                   *)
(***************************************************************************)
EXTENDS Integers, Sequences, SequencesExt

CONSTANTS
    Objects,        \* what can be scheduled
    NoObject,       \* the null pointer
    Kinds,          \* the kinds an object is registered as: real-time is TRUE
    MaxRequests,    \* bound on the length of Registration
    MaxUpdate       \* bound on dwUpdate, in frames

ASSUME SchedulerAssumption ==
    /\ NoObject \notin Objects
    /\ Kinds \in [Objects -> SUBSET BOOLEAN]
    /\ MaxRequests \in Nat
    /\ MaxUpdate \in Nat \ {0}

VARIABLES
    itemsRT,        \* ItemsRT: [object, elapsed]
    items,          \* Items: [object, due]
    processed,      \* ItemsProcessed: [object, due]
    registration,   \* Registration: [op, rt, object]
    rt,             \* shedule.b_RT of an object
    phase,          \* where Update is; "frame" is outside of it
    it,             \* the place in ItemsRT that the loop looks at
    round,          \* i % 3 of ProcessStep
    updating,       \* the object whose shedule_Update runs
    wanted,         \* history: the objects whose last call was Register
    since,          \* history: frames since an object's call or registration
    served          \* history: the objects called in this frame

lists == <<itemsRT, items, processed>>
loops == <<phase, it, round, updating>>
history == <<wanted, since, served>>
vars == <<lists, registration, rt, loops, history>>

ObjectsIn(s) == {s[i].object : i \in 1..Len(s)}

\* The place that a loop from the front finds.
IsFirstOf(s, o, i) == s[i].object = o /\ \A j \in 1..(i - 1) : s[j].object /= o

Processing == phase \in {"realtime", "normal"}      \* m_processing_now

-----------------------------------------------------------------------------
Init ==
    /\ itemsRT = <<>> /\ items = <<>> /\ processed = <<>> /\ registration = <<>>
    /\ rt = [o \in Objects |-> FALSE]
    /\ phase = "frame" /\ it = 1 /\ round = 0 /\ updating = NoObject
    /\ wanted = {} /\ served = {}
    /\ since = [o \in Objects |-> 0]

\* Other code runs: between the calls of Update or in a shedule_Update.  A
\* real-time object may unregister itself in its own (configs_dumper.cpp:52,
\* screenshot_manager.cpp:190); no other object does, and VERIFY rejects it.
Callable(o) ==
    /\ phase = "frame" \/ updating /= NoObject
    /\ phase = "normal" => o /= updating

Queue(op, realtime, o) ==
    /\ Len(registration) < MaxRequests
    /\ registration' =
           Append(registration, [op |-> op, rt |-> realtime, object |-> o])

Register(o, realtime) ==
    /\ Callable(o)
    /\ o \notin wanted
    /\ Queue(TRUE, realtime, o)
    /\ rt' = [rt EXCEPT ![o] = realtime]
    /\ wanted' = wanted \union {o}
    /\ UNCHANGED <<lists, loops, since, served>>

\* A fault: a real-time item only loses its object, too.
UnlistNull(o, realtime) ==
    IF realtime
    THEN /\ \E i \in 1..Len(itemsRT) :
               IsFirstOf(itemsRT, o, i) /\ itemsRT' = [itemsRT EXCEPT ![i].object = NoObject]
         /\ UNCHANGED <<items, processed>>
    ELSE /\ \E i \in 1..Len(items) :
               IsFirstOf(items, o, i) /\ items' = [items EXCEPT ![i].object = NoObject]
         /\ UNCHANGED <<itemsRT, processed>>

\* internal_Unregister finds o: a real-time item is erased, another one only
\* loses its object and is dropped when it is due.
Unlist(o, realtime) ==
    IF realtime
    THEN /\ \E i \in 1..Len(itemsRT) :
               IsFirstOf(itemsRT, o, i) /\ itemsRT' = RemoveAt(itemsRT, i)
         /\ UNCHANGED <<items, processed>>
    ELSE /\ \E i \in 1..Len(items) :
               IsFirstOf(items, o, i) /\ items' = [items EXCEPT ![i].object = NoObject]
         /\ UNCHANGED <<itemsRT, processed>>

Listed(o, realtime) == o \in ObjectsIn(IF realtime THEN itemsRT ELSE items)

\* Faults (IdGenerator says what they are): the kind of the object is not looked
\* at; the loops are not thought of.
UnregisterAsNormal(o) ==
    /\ Callable(o)
    /\ o \in wanted
    /\ IF Processing /\ Listed(o, rt[o])
       THEN Unlist(o, rt[o]) /\ UNCHANGED registration
       ELSE Queue(FALSE, FALSE, o) /\ UNCHANGED lists
    /\ wanted' = wanted \ {o}
    /\ UNCHANGED <<rt, loops, since, served>>

UnregisterLater(o) ==
    /\ Callable(o)
    /\ o \in wanted
    /\ Queue(FALSE, rt[o], o)
    /\ wanted' = wanted \ {o}
    /\ UNCHANGED <<lists, rt, loops, since, served>>

Unregister(o) ==
    /\ Callable(o)
    /\ o \in wanted
    /\ IF Processing /\ Listed(o, rt[o])
       THEN Unlist(o, rt[o]) /\ UNCHANGED registration
       ELSE Queue(FALSE, rt[o], o) /\ UNCHANGED lists
    /\ wanted' = wanted \ {o}
    /\ UNCHANGED <<rt, loops, since, served>>

-----------------------------------------------------------------------------
\* A fault: the time that the items are compared with is not read again.
BeginTimeless ==
    /\ phase = "frame"
    /\ phase' = "before"
    /\ itemsRT' = [i \in 1..Len(itemsRT) |-> [itemsRT[i] EXCEPT !.elapsed = @ + 1]]
    /\ since' = [o \in Objects |->
                    IF o \in ObjectsIn(itemsRT) THEN since[o] + 1 ELSE 0]
    /\ UNCHANGED <<items, processed, registration, rt, it, round, updating, wanted, served>>

\* Update begins, a frame later than the one before.
Begin ==
    /\ phase = "frame"
    /\ phase' = "before"
    /\ itemsRT' = [i \in 1..Len(itemsRT) |-> [itemsRT[i] EXCEPT !.elapsed = @ + 1]]
    /\ items' = [i \in 1..Len(items) |-> [items[i] EXCEPT !.due = @ - 1]]
    /\ since' = [o \in Objects |->
                    IF o \in ObjectsIn(itemsRT) THEN since[o] + 1 ELSE 0]
    /\ UNCHANGED <<processed, registration, rt, it, round, updating, wanted, served>>

\* internal_Registration, one request per step; nothing else runs meanwhile.
Registering == phase \in {"before", "after"} /\ registration /= <<>>

IsPair(i) ==
    /\ ~ registration[i].op
    /\ registration[i].object = Head(registration).object

\* A registration that a later request takes back: both are skipped.
SkipPair ==
    /\ Registering /\ Head(registration).op
    /\ \E i \in 2..Len(registration) :
          /\ IsPair(i) /\ \A j \in 2..(i - 1) : ~ IsPair(j)
          /\ registration' = Tail(RemoveAt(registration, i))
    /\ UNCHANGED <<lists, rt, loops, history>>

\* internal_Register
InternalRegister ==
    LET request == Head(registration) IN
    /\ Registering /\ request.op
    /\ \A i \in 2..Len(registration) : ~ IsPair(i)
    /\ IF request.rt
       THEN /\ itemsRT' = Append(itemsRT, [object |-> request.object, elapsed |-> 0])
            /\ UNCHANGED <<items, processed>>
       ELSE /\ items' = Append(items, [object |-> request.object, due |-> 0])
            /\ UNCHANGED <<itemsRT, processed>>
    /\ rt' = [rt EXCEPT ![request.object] = request.rt]
    /\ since' = [since EXCEPT ![request.object] = 0]
    /\ registration' = Tail(registration)
    /\ UNCHANGED <<loops, wanted, served>>

InternalUnregister ==
    LET request == Head(registration) IN
    /\ Registering /\ ~ request.op
    /\ IF Listed(request.object, request.rt)
       THEN Unlist(request.object, request.rt)
       ELSE UNCHANGED lists
    /\ registration' = Tail(registration)
    /\ UNCHANGED <<rt, loops, history>>

RegistrationDone ==
    /\ phase \in {"before", "after"} /\ registration = <<>>
    /\ phase' = IF phase = "before" THEN "realtime" ELSE "frame"
    /\ served' = {}
    /\ UNCHANGED <<lists, registration, rt, it, round, updating, wanted, since>>

-----------------------------------------------------------------------------
\* The real-time loop calls the object at its place ...
CallRT ==
    /\ phase = "realtime" /\ updating = NoObject
    /\ it <= Len(itemsRT)
    /\ updating' = itemsRT[it].object
    /\ served' = served \union {itemsRT[it].object}
    /\ UNCHANGED <<lists, registration, rt, phase, it, round, wanted, since>>

\* A fault: the loop starts over when its place changed.
ReturnRTAgain ==
    /\ phase = "realtime" /\ updating /= NoObject
    /\ IF it <= Len(itemsRT) /\ itemsRT[it].object = updating
       THEN itemsRT' = [itemsRT EXCEPT ![it].elapsed = 0] /\ it' = it + 1
       ELSE itemsRT' = itemsRT /\ it' = 1
    /\ since' = [since EXCEPT ![updating] = 0]
    /\ updating' = NoObject
    /\ UNCHANGED <<items, processed, registration, rt, phase, round, wanted, served>>

\* ... and then notes the time in the reference it took before the call: in
\* what is at that place by now, or past the end.
ReturnRT ==
    /\ phase = "realtime" /\ updating /= NoObject
    /\ itemsRT' = IF it <= Len(itemsRT) THEN [itemsRT EXCEPT ![it].elapsed = 0] ELSE itemsRT
    /\ since' = [since EXCEPT ![updating] = 0]
    /\ it' = it + 1
    /\ updating' = NoObject
    /\ UNCHANGED <<items, processed, registration, rt, phase, round, wanted, served>>

EndRT ==
    /\ phase = "realtime" /\ updating = NoObject
    /\ it > Len(itemsRT)
    /\ phase' = "normal"
    /\ it' = 1 /\ round' = 0
    /\ UNCHANGED <<lists, registration, rt, updating, history>>

-----------------------------------------------------------------------------
\* Top(), when it is due.
IsDue(i) == items[i].due < 0 /\ \A j \in 1..Len(items) : items[i].due <= items[j].due

\* ProcessStep drops an item without object.  (shedule_Needed is FALSE of
\* objects that wait for destruction, and those are gone before the next
\* Update: IGame_Level.cpp:145.)
Drop ==
    /\ phase = "normal" /\ updating = NoObject
    /\ \E i \in 1..Len(items) :
          /\ IsDue(i) /\ items[i].object = NoObject
          /\ items' = RemoveAt(items, i)
    /\ round' = (round + 1) % 3
    /\ UNCHANGED <<itemsRT, processed, registration, rt, phase, it, updating, history>>

CallNormal ==
    /\ phase = "normal" /\ updating = NoObject
    /\ \E i \in 1..Len(items) :
          /\ IsDue(i) /\ items[i].object /= NoObject
          /\ items' = RemoveAt(items, i)
          /\ updating' = items[i].object
          /\ served' = served \union {items[i].object}
    /\ UNCHANGED <<itemsRT, processed, registration, rt, phase, it, round, wanted, since>>

\* A fault: the loop is left without what comes after it.
ReturnNormalLosing(dwUpdate, late) ==
    LET done == Append(processed, [object |-> updating, due |-> dwUpdate]) IN
    /\ phase = "normal" /\ updating /= NoObject
    /\ late => round = 2
    /\ IF late
       THEN processed' = <<>> /\ phase' = "after" /\ UNCHANGED items
       ELSE processed' = done /\ UNCHANGED <<items, phase>>
    /\ round' = IF late THEN 0 ELSE (round + 1) % 3
    /\ updating' = NoObject
    /\ UNCHANGED <<itemsRT, registration, rt, it, history>>

\* The item waits for dwUpdate; every third time the loop looks at the clock.
ReturnNormal(dwUpdate, late) ==
    LET done == Append(processed, [object |-> updating, due |-> dwUpdate]) IN
    /\ phase = "normal" /\ updating /= NoObject
    /\ late => round = 2
    /\ IF late
       THEN items' = items \o done /\ processed' = <<>> /\ phase' = "after"
       ELSE processed' = done /\ UNCHANGED <<items, phase>>
    /\ round' = IF late THEN 0 ELSE (round + 1) % 3
    /\ updating' = NoObject
    /\ UNCHANGED <<itemsRT, registration, rt, it, history>>

EndNormal ==
    /\ phase = "normal" /\ updating = NoObject
    /\ \A i \in 1..Len(items) : items[i].due >= 0
    /\ items' = items \o processed /\ processed' = <<>>
    /\ phase' = "after" /\ round' = 0
    /\ UNCHANGED <<itemsRT, registration, rt, it, updating, history>>

Update ==
    \/ Begin
    \/ SkipPair \/ InternalRegister \/ InternalUnregister \/ RegistrationDone
    \/ CallRT \/ ReturnRT \/ EndRT
    \/ Drop \/ CallNormal \/ EndNormal
    \/ \E dwUpdate \in 1..MaxUpdate, late \in BOOLEAN : ReturnNormal(dwUpdate, late)

Next ==
    \/ \E o \in Objects : \E realtime \in Kinds[o] : Register(o, realtime)
    \/ \E o \in Objects : Unregister(o)
    \/ Update

Spec == Init /\ [][Next]_vars

\* The frame loop goes on and what it calls returns.
FairSpec == Spec /\ WF_vars(Update)

-----------------------------------------------------------------------------
Scheduled == ObjectsIn(itemsRT) \union ObjectsIn(items) \union ObjectsIn(processed)

ItemRT == [object : Objects, elapsed : Nat]
Item == [object : Objects \union {NoObject}, due : Int]
Done == [object : Objects, due : 1..MaxUpdate]
Request == [op : BOOLEAN, rt : BOOLEAN, object : Objects]

\* R_ASSERT(T.Object) included: an item of ItemsRT always has an object.
TypeOK ==
    /\ itemsRT \in Seq(ItemRT) /\ items \in Seq(Item) /\ processed \in Seq(Done)
    /\ registration \in Seq(Request)
    /\ rt \in [Objects -> BOOLEAN]
    /\ phase \in {"frame", "before", "realtime", "normal", "after"}
    /\ it \in Nat \ {0} /\ round \in 0..2
    /\ updating \in Objects \union {NoObject}
    /\ wanted \subseteq Objects /\ served \subseteq Objects
    /\ since \in [Objects -> Nat]

\* What has an item, that of the object which is called from Items included.
Present == Scheduled \union (IF phase = "normal" THEN {updating} ELSE {})

Distinct(s) ==
    \A i, j \in 1..Len(s) : s[i].object = s[j].object /\ s[i].object \in Objects => i = j

\* An object has one item at most.
OneItem ==
    /\ Distinct(itemsRT) /\ Distinct(items) /\ Distinct(processed)
    /\ \A o \in ObjectsIn(itemsRT) : o \notin ObjectsIn(items) \union ObjectsIn(processed)
    /\ \A o \in ObjectsIn(processed) : o \notin ObjectsIn(items)
    /\ phase = "normal" /\ updating /= NoObject => updating \notin Scheduled

IsLastOf(s, o, i) == s[i].object = o /\ \A j \in (i + 1)..Len(s) : s[j].object /= o

IsNextOf(s, o, i, j) ==
    /\ s[i].object = o /\ s[j].object = o
    /\ i < j /\ \A k \in (i + 1)..(j - 1) : s[k].object /= o

\* The requests for an object in s are by turns to register and to unregister
\* it, and lead from whether it is in "from" to whether it is in "to".
Leads(s, o, from, to) ==
    /\ o \notin ObjectsIn(s) => (o \in from <=> o \in to)
    /\ \A i \in 1..Len(s) : IsFirstOf(s, o, i) => (s[i].op <=> o \notin from)
    /\ \A i \in 1..Len(s) : IsLastOf(s, o, i) => (s[i].op <=> o \in to)
    /\ \A i, j \in 1..Len(s) : IsNextOf(s, o, i, j) => (s[i].op <=> ~ s[j].op)

\* Registered(), which VERIFY checks at every Register and Unregister
\* (xrSheduler.cpp:152-210, 215, 232): an object has at most one item, its
\* requests undo each other in turn, and their outcome is what the callers asked
\* for last, however they mixed with the loops.
RegisteredAgrees == OneItem /\ \A o \in Objects : Leads(registration, o, Present, wanted)

Names(realtime, o) ==
    /\ o \in ObjectsIn(itemsRT) => realtime
    /\ o \in Present \ ObjectsIn(itemsRT) => ~ realtime

SoughtRight(o) ==
    /\ o \notin ObjectsIn(registration) => Names(rt[o], o)
    /\ \A i \in 1..Len(registration) :
          IsFirstOf(registration, o, i) => Names(registration[i].rt, o)

\* internal_Unregister looks into the list that the request names, and b_RT was
\* perhaps overwritten since: the first request to remove an item, and b_RT if
\* there is none, name the list the item is in (xrSheduler.cpp:113-135, 242).
FoundWhereSought == \A o \in Objects : SoughtRight(o)

\* An object that was unregistered is not called: it may be gone
\* (xrSheduler.cpp:115, 236-239).
NeverAfterUnregister ==
    [][updating' \notin {updating, NoObject} => updating' \in wanted]_vars

\* "'shedule_Update' called twice per frame" never happens (ISheduled.cpp:48,
\* xrSheduler.cpp:422), however the lists change during the loops.
OncePerFrame ==
    [][updating' \notin {updating, NoObject} => updating' \notin served]_vars

\* A registered object is called again and again, whatever the others do and
\* however often the frame's time runs out (xrSheduler.cpp:283, 358-369).
EventuallyCalled ==
    \A o \in Objects : (o \in wanted) ~> (updating = o \/ o \notin wanted)

\* dwTimeOfLastExecute of a real-time item is the time its object was last
\* called, so that Elapsed misses nothing (xrSheduler.h:12, xrSheduler.cpp:419).
ElapsedIsTrue ==
    \A i \in 1..Len(itemsRT) :
        itemsRT[i].object /= updating => itemsRT[i].elapsed = since[itemsRT[i].object]
=============================================================================
