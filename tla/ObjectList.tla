----------------------------- MODULE ObjectList -----------------------------
(***************************************************************************)
(* The objects of a level (CObjectList, CObject): which are updated, which *)
(* sleep, which were seen or moved and are to be updated in the next frame *)
(* ("crows"), and which wait to be destroyed.                              *)
(*                                                                         *)
(* The main thread changes them alone while it goes through FrameMove      *)
(* (module DeviceFrames).  While it renders, what is rendered becomes a    *)
(* crow, and the second thread steps the physics (mtPhysics), which        *)
(* activates what was hit: both write the flags and the active counter of  *)
(* an object, which share a word and are neither locked nor atomic, so     *)
(* that reading and writing them are two steps and a write may be lost.    *)
(* The events of a level come from the server in an order in which nothing *)
(* is put into what was destroyed.                                         *)
(***************************************************************************)
EXTENDS Integers, Sequences, SequencesExt

CONSTANTS
    Objects,        \* addresses of objects
    NoObject,
    Physical,       \* those with a shell, which the physics activates
    MaxUses,        \* bounds on how often an object is activated at a time
    AsCrows         \* TRUE: only crows are updated, FALSE: all active objects

ASSUME ObjectsAssumption ==
    /\ IsFiniteSet(Objects) /\ NoObject \notin Objects
    /\ Physical \subseteq Objects
    /\ MaxUses \in [Objects -> 1..255]
    /\ AsCrows \subseteq BOOLEAN

VARIABLES
    objects,        \* those that exist
    active, sleeping,
    props,          \* of each object, the fields of its word that change here
    uses,           \* history: activations that were not taken back
    asCrow,         \* objects whose dwFrame_AsCrow is the current frame
    crows,          \* of each thread, how often it listed each object
    parent,
    queue,          \* destroy_queue
    turn,           \* where the frame is
    call,           \* of each thread, the call it is in
    torn,           \* history: objects one of whose writes was lost
    lost            \* history: crows of a list that Destroy has cleared

lists == <<objects, active, sleeping>>
words == <<props, uses, torn>>
marks == <<asCrow, crows, lost>>
tree == <<parent, queue>>
vars == <<lists, words, marks, tree, turn, call>>

Main == "main"
Second == "second"
Threads == {Main, Second}

Width == 256        \* bActiveCounter : 8
Fresh == [counter |-> 0, crow |-> FALSE]
Idle == [step |-> "idle", act |-> "none", object |-> NoObject, read |-> Fresh]
None == [o \in Objects |-> 0]

Alone == {"events", "update", "rest", "late"}   \* the second thread waits
Free(t) == call[t] = Idle
Queued == ToSet(queue)
Begun(act, o) ==
    [step |-> IF act = "crow" THEN "check" ELSE "load", act |-> act, object |-> o, read |-> Fresh]
Goes(t, c) == call' = [call EXCEPT ![t] = c]
At(t, step) == Goes(t, [call[t] EXCEPT !.step = step])

-----------------------------------------------------------------------------
(* Calls.                                                                  *)

\* processing_activate: of the game in FrameMove, of the physics meanwhile
Activate(t, o) ==
    /\ Free(t) /\ o \in objects
    /\ \/ t = Main /\ turn \in Alone
       \/ t = Second /\ turn = "render" /\ o \in Physical \ torn
    /\ uses[o] < MaxUses[o]
    /\ uses' = [uses EXCEPT ![o] = @ + 1]
    /\ Goes(t, Begun("activate", o))
    /\ UNCHANGED <<lists, props, torn, marks, tree, turn>>

\* processing_deactivate, by who has activated: what the physics put to sleep is
\* deactivated by the main thread too (PHShell.cpp:1603).
Deactivate(o) ==
    /\ Free(Main) /\ o \in objects /\ turn \in Alone
    /\ uses[o] > 0
    /\ uses' = [uses EXCEPT ![o] = @ - 1]
    /\ Goes(Main, Begun("deactivate", o))
    /\ UNCHANGED <<lists, props, torn, marks, tree, turn>>

\* shedule_Update, UpdateCL and renderable_Render call MakeMeCrow.
Notice(o) ==
    /\ Free(Main) /\ o \in objects /\ turn \in Alone \union {"render"}
    /\ Goes(Main, Begun("crow", o))
    /\ UNCHANGED <<lists, words, marks, tree, turn>>

\* Props is read, and written as a whole.
Load(t) ==
    /\ call[t].step = "load"
    /\ Goes(t, [call[t] EXCEPT !.step = "store", !.read = props[call[t].object]])
    /\ UNCHANGED <<lists, words, marks, tree, turn>>

\* A fault (IdGenerator says what that is): the counter has no width.
WrittenUnbounded(c) ==
    CASE c.act = "activate" -> [c.read EXCEPT !.counter = @ + 1]
      [] c.act = "deactivate" -> [c.read EXCEPT !.counter = @ - 1]
      [] OTHER -> [c.read EXCEPT !.crow = TRUE]

Written(c) ==
    CASE c.act = "activate" -> [c.read EXCEPT !.counter = (@ + 1) % Width]
      [] c.act = "deactivate" -> [c.read EXCEPT !.counter = (@ - 1) % Width]
      [] OTHER -> [c.read EXCEPT !.crow = TRUE]

\* Does the call go on with the lists?
Moves(c) ==
    \/ c.act = "activate" /\ c.read.counter = 0
    \/ c.act = "deactivate" /\ Written(c).counter = 0

Store(t) ==
    LET c == call[t]
    IN  /\ c.step = "store"
        /\ props' = [props EXCEPT ![c.object] = Written(c)]
        /\ torn' = IF props[c.object] = c.read THEN torn ELSE torn \union {c.object}
        /\ Goes(t, IF c.act = "crow" THEN [c EXCEPT !.step = "push"]
                   ELSE IF Moves(c) THEN [c EXCEPT !.step = "list"]
                   ELSE Idle)
        /\ UNCHANGED <<lists, uses, marks, tree, turn>>

\* o_activate, o_sleep
List(t) ==
    LET o == call[t].object
    IN  /\ call[t].step = "list"
        /\ IF call[t].act = "activate"
           THEN active' = active \union {o} /\ sleeping' = sleeping \ {o}
           ELSE active' = active \ {o} /\ sleeping' = sleeping \union {o}
        /\ Goes(t, Begun("crow", o))
        /\ UNCHANGED <<objects, words, marks, tree, turn>>

\* MakeMeCrow: its early returns ...
Check(t) ==
    LET o == call[t].object
    IN  /\ call[t].step = "check"
        /\ IF props[o].crow \/ props[o].counter = 0 THEN Goes(t, Idle) ELSE At(t, "swap")
        /\ UNCHANGED <<lists, words, marks, tree, turn>>

\* A fault: the frame is compared here and written by o_crow only.
SwapLater(t) ==
    LET o == call[t].object
    IN  /\ call[t].step = "swap"
        /\ IF o \in asCrow THEN Goes(t, Idle) ELSE At(t, "load")
        /\ UNCHANGED <<lists, words, marks, tree, turn>>

\* ... _InterlockedCompareExchange, which returns the frame to who is late ...
Swap(t) ==
    LET o == call[t].object
    IN  /\ call[t].step = "swap"
        /\ asCrow' = asCrow \union {o}
        /\ IF o \in asCrow THEN Goes(t, Idle) ELSE At(t, "load")
        /\ UNCHANGED <<lists, words, crows, lost, tree, turn>>

\* ... and o_crow, into the list of the thread.  Twice stands for more often.
Push(t) ==
    LET o == call[t].object
    IN  /\ call[t].step = "push"
        /\ crows' = [crows EXCEPT ![t][o] = IF @ = 0 THEN 1 ELSE 2]
        /\ asCrow' = asCrow \union {o}
        /\ Goes(t, Idle)
        /\ UNCHANGED <<lists, words, lost, tree, turn>>

-----------------------------------------------------------------------------
(* Events of the server, in ProcessGameEvents.                             *)

\* Create and net_Spawn
Spawn(o) ==
    /\ turn = "events" /\ Free(Main) /\ o \notin objects
    /\ objects' = objects \union {o}
    /\ sleeping' = sleeping \union {o}
    /\ uses' = [uses EXCEPT ![o] = 1]
    /\ Goes(Main, Begun("activate", o))
    /\ UNCHANGED <<active, props, torn, marks, tree, turn>>

Cleared == {o \in Objects : crows[Second][o] > 0}

\* The object that net_Spawn failed for is destroyed at once, and the list of
\* the second thread, which Update has not merged yet, is cleared.
SpawnFails ==
    /\ turn = "events" /\ Free(Main)
    /\ \E o \in Objects : o \notin objects
    /\ crows' = [crows EXCEPT ![Second] = None]
    /\ lost' = lost \union Cleared
    /\ UNCHANGED <<lists, words, asCrow, tree, turn, call>>

Children(o) == {c \in objects : parent[c] = o}
Inside(o) == Children(o) \union UNION {Children(c) : c \in Children(o)}

\* GE_OWNERSHIP_TAKE and H_SetParent: what is in the weapon of an actor has
\* nothing in it.
Take(o, p) ==
    /\ turn = "events" /\ Free(Main)
    /\ o \in objects \ Queued /\ p \in objects \ Queued /\ o /= p
    /\ parent[o] = NoObject
    /\ \/ parent[p] = NoObject /\ \A c \in Children(o) : Children(c) = {}
       \/ /\ parent[p] /= NoObject /\ parent[parent[p]] = NoObject
          /\ Children(o) = {}
    /\ parent' = [parent EXCEPT ![o] = p]
    /\ Goes(Main, Begun("crow", o))
    /\ UNCHANGED <<lists, words, marks, queue, turn>>

\* GE_OWNERSHIP_REJECT
Reject(o) ==
    /\ turn = "events" /\ Free(Main)
    /\ o \in objects \ Queued /\ parent[o] /= NoObject
    /\ parent' = [parent EXCEPT ![o] = NoObject]
    /\ Goes(Main, Begun("crow", o))
    /\ UNCHANGED <<lists, words, marks, queue, turn>>

\* What register_object_to_destroy queues: an object, and by its recursion each
\* of its children with what is in it.
Orders(S) ==
    {s \in [1..Cardinality(S) -> S] :
        /\ \A o \in S : \E i \in DOMAIN s : s[i] = o
        /\ \A i, j \in DOMAIN s : parent[s[j]] = s[i] =>
              i < j /\ \A k \in i..j : s[k] \in Inside(s[i]) \union {s[i]}}

\* GE_DESTROY and setDestroy
SetDestroy(o) ==
    /\ turn = "events" /\ Free(Main)
    /\ o \in objects \ Queued /\ parent[o] = NoObject
    /\ \E s \in Orders(Inside(o) \union {o}) : queue' = queue \o s
    /\ UNCHANGED <<lists, words, marks, parent, turn, call>>

-----------------------------------------------------------------------------
(* The frame.                                                              *)

Listed == {o \in Objects : \E t \in Threads : crows[t][o] > 0}

\* Update: the lists of both threads become the workload and are cleared, and
\* who is in it may become a crow again.  What UpdateCL does, object by object,
\* are the calls of this turn.
Update(crowsOnly) ==
    LET workload == IF crowsOnly THEN Listed ELSE active
        noCrows == Listed \union workload
    IN  /\ turn = "events" /\ Free(Main)
        /\ turn' = "update"
        /\ crows' = [t \in Threads |-> None]
        /\ props' = [o \in Objects |->
                        IF o \in noCrows THEN [props[o] EXCEPT !.crow = FALSE] ELSE props[o]]
        /\ asCrow' = asCrow \ workload
        /\ lost' = lost \ noCrows
        /\ UNCHANGED <<lists, uses, torn, tree, call>>

\* Update while the game is paused, or no time has passed
Paused ==
    /\ turn = "events" /\ Free(Main)
    /\ turn' = "destroy"
    /\ UNCHANGED <<lists, words, marks, tree, call>>

Updated ==
    /\ turn = "update" /\ Free(Main)
    /\ turn' = "destroy"
    /\ UNCHANGED <<lists, words, marks, tree, call>>

Gone(o) ==
    /\ objects' = objects \ {o}
    /\ active' = active \ {o} /\ sleeping' = sleeping \ {o}
    /\ props' = [props EXCEPT ![o] = Fresh]
    /\ uses' = [uses EXCEPT ![o] = 0]
    /\ asCrow' = asCrow \ {o}
    /\ parent' = [parent EXCEPT ![o] = NoObject]
    /\ crows' = [crows EXCEPT ![Main][o] = IF @ = 0 THEN 0 ELSE @ - 1, ![Second] = None]
    /\ lost' = (lost \union Cleared) \ {o}

\* A fault: the queue is worked off in its order.
DestroyFirst ==
    /\ turn = "destroy" /\ queue /= <<>>
    /\ queue' = Tail(queue)
    /\ Gone(Head(queue))
    /\ UNCHANGED <<turn, call, torn>>

\* The end of Update, and Destroy: from the end of the queue.  The list of the
\* second thread is cleared, although it was not merged if the game is paused.
Destroy ==
    /\ turn = "destroy" /\ queue /= <<>>
    /\ queue' = Front(queue)
    /\ Gone(Last(queue))
    /\ UNCHANGED <<turn, call, torn>>


\* The frame goes on: the scheduler and other handlers, rendering, and what the
\* second thread did not get to, which the main thread does itself (on_idle).
GoOn ==
    /\ Free(Main) /\ Free(Second)
    /\ \/ turn = "destroy" /\ queue = <<>> /\ turn' = "rest"
       \/ turn = "rest" /\ turn' = "render"
       \/ turn = "render" /\ turn' = "late"
    /\ UNCHANGED <<lists, words, marks, tree, call>>

NextFrame ==
    /\ turn = "late" /\ Free(Main)
    /\ turn' = "events"
    /\ asCrow' = {}
    /\ UNCHANGED <<lists, words, crows, lost, tree, call>>

Init ==
    /\ objects = {} /\ active = {} /\ sleeping = {}
    /\ props = [o \in Objects |-> Fresh]
    /\ uses = None
    /\ asCrow = {}
    /\ crows = [t \in Threads |-> None]
    /\ parent = [o \in Objects |-> NoObject]
    /\ queue = <<>>
    /\ turn = "events"
    /\ call = [t \in Threads |-> Idle]
    /\ torn = {} /\ lost = {}

Next ==
    \/ \E t \in Threads, o \in Objects : Activate(t, o)
    \/ \E o \in Objects : Deactivate(o) \/ Notice(o) \/ Spawn(o) \/ Reject(o) \/ SetDestroy(o)
    \/ \E o, p \in Objects : Take(o, p)
    \/ \E t \in Threads :
          Load(t) \/ Store(t) \/ List(t) \/ Check(t) \/ Swap(t) \/ Push(t)
    \/ \E crowsOnly \in AsCrows : Update(crowsOnly)
    \/ SpawnFails \/ Paused \/ Updated \/ Destroy \/ GoOn \/ NextFrame

Spec == Init /\ [][Next]_vars

-----------------------------------------------------------------------------
Props == [counter : 0..(Width - 1), crow : BOOLEAN]
Call == [step : {"idle", "load", "store", "list", "check", "swap", "push"},
         act : {"none", "activate", "deactivate", "crow"},
         object : Objects \union {NoObject},
         read : Props]

TypeOK ==
    /\ objects \subseteq Objects /\ active \subseteq Objects /\ sleeping \subseteq Objects
    /\ props \in [Objects -> Props]
    /\ uses \in [Objects -> 0..255]
    /\ asCrow \subseteq Objects
    /\ crows \in [Threads -> [Objects -> 0..2]]
    /\ parent \in [Objects -> Objects \union {NoObject}]
    /\ queue \in Seq(Objects)
    /\ turn \in Alone \union {"destroy", "render"}
    /\ call \in [Threads -> Call]
    /\ torn \subseteq Objects /\ lost \subseteq Objects

\* The thread is in processing_activate or processing_deactivate of o.
Switches(t, o) == call[t].object = o /\ call[t].act \in {"activate", "deactivate"}

Pushes(t, o) == call[t].object = o /\ call[t].step = "push"

ListedOnce(o) ==
    /\ \A t \in Threads : crows[t][o] <= 1
    /\ \A t, u \in Threads : t /= u => crows[t][o] = 0 \/ crows[u][o] = 0
    /\ o \in Listed => o \in objects /\ props[o].crow
    /\ props[o].crow => o \in Listed \union lost \/ \E t \in Threads : Pushes(t, o)

\* An object that lost no write is listed as a crow at most once, by either
\* thread, so that it is updated once (VERIFYs at xr_object.cpp:31 and
\* xr_object_list.cpp:218); what is listed exists; and an object that says it
\* is a crow, and so will not be listed again, is listed or about to be, unless
\* Destroy has cleared the list it was in.
CrowListed == \A o \in Objects \ torn : ListedOnce(o)

\* An object's parent exists as long as it does, and what is queued to be
\* destroyed is there, once, before what is in it: its destruction is over when
\* that of its parent begins ("incorrect destroy sequence", xr_object_list.cpp:131;
\* VERIFY(!registered_object_to_destroy), :539).
ParentsOutlive ==
    /\ \A o \in objects : parent[o] \in objects \union {NoObject}
    /\ \A i, j \in DOMAIN queue : queue[i] = queue[j] => i = j
    /\ \A i \in DOMAIN queue :
          /\ queue[i] \in objects
          /\ \A c \in Children(queue[i]) : \E j \in DOMAIN queue : queue[j] = c /\ i < j

=============================================================================
