-------------------------- MODULE ObjectListProofs --------------------------
(***************************************************************************)
(* Proofs about the object list of a level (module ObjectList), for any    *)
(* number of objects, activations and levels of nesting up to three.       *)
(*                                                                         *)
(* The argument: the two threads are in calls at once only while the main  *)
(* one renders, and then it only makes crows (Calls).  So an object has at *)
(* most one thread between its counter and the lists, and what is half     *)
(* done is known from that thread's step (Counted).  Of the threads that   *)
(* make it a crow one wins the exchange, and the frame stays exchanged     *)
(* until both are idle (Crowned).  Parents are queued before what is in    *)
(* them, together with all of it (Rooted, ParentsOutlive).                 *)
(***************************************************************************)
EXTENDS ObjectList, FiniteSetTheorems, SequenceTheorems, TLAPS

-----------------------------------------------------------------------------
(* The inductive invariant.                                                *)

\* A step is one of the act's.
CallOK(c) ==
    /\ c.step = "idle" => c = Idle
    /\ c.step /= "idle" => c.act /= "none"
    /\ c.step \in {"check", "swap", "push"} => c.act = "crow"
    /\ c.step = "list" => c.act /= "crow"

\* Who is in which call, in which turn of the frame.
Calls ==
    /\ call[Second].step /= "idle" => turn = "render"
    /\ call[Main].step /= "idle" => turn /= "destroy"
    /\ turn = "render" => call[Main].act \in {"none", "crow"}
    /\ call[Second].act /= "deactivate"
    /\ \A t \in Threads :
          CallOK(call[t]) /\ (call[t].step /= "idle" => call[t].object \in objects)

\* The counter of an object that nobody switches, and of one in between.
Settled(o) ==
    /\ props[o].counter = uses[o]
    /\ o \in active <=> uses[o] > 0

Half(t, o) ==
    \/ /\ call[t].step \in {"load", "store"} /\ call[t].act = "activate"
       /\ props[o].counter = uses[o] - 1
       /\ o \in active <=> props[o].counter > 0
    \/ /\ call[t].step \in {"load", "store"} /\ call[t].act = "deactivate"
       /\ props[o].counter = uses[o] + 1
       /\ o \in active
    \/ /\ call[t].step = "list" /\ call[t].act = "activate"
       /\ props[o].counter = uses[o] /\ uses[o] > 0
       /\ o \in sleeping
    \/ /\ call[t].step = "list" /\ call[t].act = "deactivate"
       /\ props[o].counter = uses[o] /\ uses[o] = 0
       /\ o \in active

Counted ==
    /\ objects = active \union sleeping /\ active \intersect sleeping = {}
    /\ \A o \in Objects : uses[o] <= MaxUses[o]
    /\ \A o \in Objects \ objects : props[o] = Fresh /\ uses[o] = 0
    /\ \A o \in objects \ torn :
          /\ \A t \in Threads : Switches(t, o) => Half(t, o)
          /\ (\A t \in Threads : ~ Switches(t, o)) => Settled(o)

\* The thread is making o a crow, after it has won the exchange.
Wins(t, o) ==
    /\ call[t].object = o /\ call[t].act = "crow"
    /\ call[t].step \in {"load", "store", "push"}

\* The thread is at the exchange.
Swaps(t, o) == call[t].object = o /\ call[t].step = "swap"

CrownOK(o) ==
    /\ \A t \in Threads : Wins(t, o) => o \in asCrow
    /\ \A t, u \in Threads : Wins(t, o) /\ Wins(u, o) => t = u
    /\ o \notin torn =>
          /\ ListedOnce(o)
          /\ \A t \in Threads :
                /\ Wins(t, o) => o \notin Listed
                /\ Pushes(t, o) => props[o].crow
                /\ Swaps(t, o) /\ props[o].crow => o \in asCrow

Crowned == \A o \in Objects : CrownOK(o)

\* Parents and children are two deep, and who is queued with its parent.
Rooted ==
    /\ \A o \in Objects \ objects : parent[o] = NoObject
    /\ \A o, p, q \in objects :
          parent[o] = p /\ parent[p] = q => parent[q] = NoObject
    /\ \A i \in DOMAIN queue :
          parent[queue[i]] = NoObject \/ \E j \in DOMAIN queue : queue[j] = parent[queue[i]]

IInv == TypeOK /\ Calls /\ Counted /\ Crowned /\ Rooted /\ ParentsOutlive

-----------------------------------------------------------------------------
(* Types.                                                                  *)

LEMMA Constants ==
    /\ NoObject \notin Objects /\ IsFiniteSet(Objects)
    /\ \A o \in Objects : MaxUses[o] \in 1..255
  BY ObjectsAssumption

LEMMA TwoThreads ==
    /\ Main \in Threads /\ Second \in Threads /\ Main /= Second
    /\ \A t \in Threads : t = Main \/ t = Second
  BY DEF Main, Second, Threads

\* What the groups of variables stand for.
LEMMA Groups ==
    /\ UNCHANGED lists => objects' = objects /\ active' = active /\ sleeping' = sleeping
    /\ UNCHANGED words => props' = props /\ uses' = uses /\ torn' = torn
    /\ UNCHANGED marks => asCrow' = asCrow /\ crows' = crows /\ lost' = lost
    /\ UNCHANGED tree => parent' = parent /\ queue' = queue
  BY DEF lists, words, marks, tree

\* A word that is read is written as a word, whatever the call.
LEMMA WrittenType == ASSUME NEW c \in Call PROVE Written(c) \in Props
<1>1. CASE c.act = "activate"
  BY <1>1 DEF Call, Props, Written, Width
<1>2. CASE c.act = "deactivate"
  BY <1>2 DEF Call, Props, Written, Width
<1>3. CASE c.act \notin {"activate", "deactivate"}
  BY <1>3 DEF Call, Props, Written, Width
<1> QED  BY <1>1, <1>2, <1>3

\* The call of a thread changes, and that of the other one does not.
LEMMA GoesOne ==
  ASSUME TypeOK, NEW t \in Threads, NEW c, Goes(t, c)
  PROVE  /\ call'[t] = c
         /\ \A u \in Threads : u /= t => call'[u] = call[u]
         /\ c \in Call => call' \in [Threads -> Call]
  BY DEF TypeOK, Goes

LEMMA BegunType ==
  ASSUME NEW o \in Objects, NEW act \in {"activate", "deactivate", "crow"}
  PROVE  /\ Begun(act, o) \in Call
         /\ Begun(act, o).object = o /\ Begun(act, o).act = act
         /\ Begun(act, o).step = IF act = "crow" THEN "check" ELSE "load"
  BY DEF Begun, Call, Props, Fresh, Width

LEMMA IdleType == Idle \in Call /\ Idle.step = "idle" /\ Idle.act = "none" /\ Idle.object = NoObject
  BY DEF Idle, Call, Props, Fresh, Width

LEMMA MovedType ==
  ASSUME NEW c \in Call, NEW s \in {"idle", "load", "store", "list", "check", "swap", "push"},
         NEW w \in Props
  PROVE  /\ [c EXCEPT !.step = s] \in Call
         /\ [c EXCEPT !.step = s, !.read = w] \in Call
  BY DEF Call

LEMMA OrderType ==
  ASSUME NEW S \in SUBSET Objects, NEW s \in Orders(S)
  PROVE  s \in Seq(S) /\ Len(s) = Cardinality(S) /\ Len(s) \in Nat
<1>1. IsFiniteSet(S)  BY Constants, FS_Subset
<1>2. Cardinality(S) \in Nat  BY <1>1, FS_CardinalityType
<1> QED  BY <1>2 DEF Orders

\* The type invariant by groups of variables.
ListsOK == objects \subseteq Objects /\ active \subseteq Objects /\ sleeping \subseteq Objects

WordsOK ==
    /\ props \in [Objects -> Props]
    /\ uses \in [Objects -> 0..255]
    /\ torn \subseteq Objects

MarksOK ==
    /\ asCrow \subseteq Objects
    /\ crows \in [Threads -> [Objects -> 0..2]]
    /\ lost \subseteq Objects

TreeOK == parent \in [Objects -> Objects \union {NoObject}] /\ queue \in Seq(Objects)

TurnOK == turn \in Alone \union {"destroy", "render"}

CallTypeOK == call \in [Threads -> Call]

\* A counter that is right but for one step within its width.
LEMMA Modulo ==
  ASSUME NEW n \in 0..255
  PROVE  /\ (n - 1) + 1 = n /\ n % 256 = n
         /\ (n + 1) - 1 = n
         /\ n - 1 \in 0..255 => n > 0
         /\ n /= 0 => n > 0
  OBVIOUS

LEMMA WordCounter == \A w \in Props : w.counter \in 0..255
  BY DEF Props, Width

LEMMA TypeParts ==
    /\ TypeOK <=> ListsOK /\ WordsOK /\ MarksOK /\ TreeOK /\ TurnOK /\ CallTypeOK
    /\ TypeOK' <=> ListsOK' /\ WordsOK' /\ MarksOK' /\ TreeOK' /\ TurnOK' /\ CallTypeOK'
  BY DEF TypeOK, ListsOK, WordsOK, MarksOK, TreeOK, TurnOK, CallTypeOK

LEMMA KeptTypes ==
    /\ ListsOK /\ UNCHANGED lists => ListsOK'
    /\ WordsOK /\ UNCHANGED words => WordsOK'
    /\ MarksOK /\ UNCHANGED marks => MarksOK'
    /\ TreeOK /\ UNCHANGED tree => TreeOK'
    /\ TurnOK /\ UNCHANGED turn => TurnOK'
    /\ CallTypeOK /\ UNCHANGED call => CallTypeOK'
<1>1. ListsOK /\ UNCHANGED lists => ListsOK'  BY Groups DEF ListsOK
<1>2. WordsOK /\ UNCHANGED words => WordsOK'  BY Groups DEF WordsOK
<1>3. MarksOK /\ UNCHANGED marks => MarksOK'  BY Groups DEF MarksOK
<1>4. TreeOK /\ UNCHANGED tree => TreeOK'  BY Groups DEF TreeOK
<1>5. TurnOK /\ UNCHANGED turn => TurnOK'  BY DEF TurnOK
<1>6. CallTypeOK /\ UNCHANGED call => CallTypeOK'  BY DEF CallTypeOK
<1> QED  BY <1>1, <1>2, <1>3, <1>4, <1>5, <1>6

\* What the types say of one object and of one thread.
LEMMA TypesOfOne ==
  ASSUME TypeOK
  PROVE  /\ \A o \in Objects :
               /\ props[o] \in Props /\ uses[o] \in 0..255
               /\ uses[o] < MaxUses[o] => uses[o] + 1 \in 0..255
               /\ uses[o] > 0 => uses[o] - 1 \in 0..255
         /\ \A t \in Threads :
               /\ call[t] \in Call /\ call[t].read \in Props
               /\ crows[t] \in [Objects -> 0..2]
<1>1. ASSUME NEW o \in Objects
      PROVE  /\ props[o] \in Props /\ uses[o] \in 0..255
             /\ uses[o] < MaxUses[o] => uses[o] + 1 \in 0..255
             /\ uses[o] > 0 => uses[o] - 1 \in 0..255
  <2>1. uses[o] \in 0..255 /\ props[o] \in Props  BY TypeParts DEF WordsOK
  <2>2. MaxUses[o] \in 1..255  BY Constants
  <2> QED  BY <2>1, <2>2
<1>2. ASSUME NEW t \in Threads
      PROVE  call[t] \in Call /\ call[t].read \in Props /\ crows[t] \in [Objects -> 0..2]
  <2>1. call[t] \in Call  BY TypeParts DEF CallTypeOK
  <2>2. call[t].read \in Props  BY <2>1 DEF Call
  <2>3. crows[t] \in [Objects -> 0..2]  BY TypeParts DEF MarksOK
  <2> QED  BY <2>1, <2>2, <2>3
<1> QED  BY <1>1, <1>2

LEMMA CallGoes ==
  ASSUME TypeOK, NEW t \in Threads, NEW c \in Call, Goes(t, c)
  PROVE  CallTypeOK'
  BY GoesOne DEF CallTypeOK

LEMMA BegunGoes ==
  ASSUME TypeOK, NEW t \in Threads, NEW o \in Objects,
         NEW act \in {"activate", "deactivate", "crow"}, Goes(t, Begun(act, o))
  PROVE  CallTypeOK'
  BY BegunType, CallGoes

LEMMA TypeStep == ASSUME TypeOK, Calls, Counted, [Next]_vars PROVE TypeOK'
<1> USE KeptTypes, TypeParts
<1>1. ASSUME NEW t \in Threads, NEW o \in Objects, Activate(t, o) PROVE TypeOK'
  <2>1. uses' = [uses EXCEPT ![o] = uses[o] + 1] /\ props' = props /\ torn' = torn
        /\ uses[o] + 1 \in 0..255
    BY <1>1, TypesOfOne DEF Activate
  <2>2. WordsOK'  BY <2>1 DEF WordsOK
  <2>3. CallTypeOK'  BY <1>1, BegunGoes DEF Activate
  <2> QED  BY <1>1, <2>2, <2>3 DEF Activate
<1>2. ASSUME NEW o \in Objects, Deactivate(o) PROVE TypeOK'
  <2>1. uses' = [uses EXCEPT ![o] = uses[o] - 1] /\ props' = props /\ torn' = torn
        /\ uses[o] - 1 \in 0..255
    BY <1>2, TypesOfOne DEF Deactivate
  <2>2. WordsOK'  BY <2>1 DEF WordsOK
  <2>3. CallTypeOK'  BY <1>2, TwoThreads, BegunGoes DEF Deactivate
  <2> QED  BY <1>2, <2>2, <2>3 DEF Deactivate
<1>3. ASSUME NEW o \in Objects, Notice(o) PROVE TypeOK'
  <2>1. CallTypeOK'  BY <1>3, TwoThreads, BegunGoes DEF Notice
  <2> QED  BY <1>3, <2>1 DEF Notice
<1>4. ASSUME NEW o \in Objects, Spawn(o) PROVE TypeOK'
  <2>1. CallTypeOK'  BY <1>4, TwoThreads, BegunGoes DEF Spawn
  <2>2. ListsOK'  BY <1>4 DEF Spawn, ListsOK
  <2>3. WordsOK'  BY <1>4 DEF Spawn, WordsOK
  <2> QED  BY <1>4, <2>1, <2>2, <2>3 DEF Spawn
<1>5. ASSUME NEW o \in Objects, Reject(o) PROVE TypeOK'
  <2>1. CallTypeOK'  BY <1>5, TwoThreads, BegunGoes DEF Reject
  <2>2. TreeOK'  BY <1>5 DEF Reject, TreeOK
  <2> QED  BY <1>5, <2>1, <2>2 DEF Reject
<1>6. ASSUME NEW o \in Objects, SetDestroy(o) PROVE TypeOK'
  <2> DEFINE S == Inside(o) \union {o}
  <2>1. S \in SUBSET Objects  BY DEF Inside, Children, ListsOK
  <2>2. PICK s \in Orders(S) : queue' = queue \o s  BY <1>6 DEF SetDestroy
  <2>3. s \in Seq(Objects)
    <3> HIDE DEF S
    <3>1. s \in Seq(S)  BY <2>1, <2>2, OrderType
    <3> QED  BY <2>1, <3>1
  <2>4. TreeOK'  BY <1>6, <2>2, <2>3 DEF SetDestroy, TreeOK
  <2> QED  BY <1>6, <2>4 DEF SetDestroy
<1>7. ASSUME NEW o \in Objects, NEW p \in Objects, Take(o, p) PROVE TypeOK'
  <2>1. CallTypeOK'  BY <1>7, TwoThreads, BegunGoes DEF Take
  <2>2. TreeOK'  BY <1>7 DEF Take, TreeOK
  <2> QED  BY <1>7, <2>1, <2>2 DEF Take
<1>8. ASSUME NEW t \in Threads, Load(t) PROVE TypeOK'
  <2>1. call[t].object \in Objects  BY <1>8 DEF Load, Calls, ListsOK
  <2>2. call[t] \in Call /\ props[call[t].object] \in Props  BY <2>1, TypesOfOne
  <2>3. [call[t] EXCEPT !.step = "store", !.read = props[call[t].object]] \in Call
    BY <2>2, MovedType
  <2>4. CallTypeOK'  BY <1>8, <2>3, CallGoes DEF Load
  <2> QED  BY <1>8, <2>4 DEF Load
<1>9. ASSUME NEW t \in Threads, Store(t) PROVE TypeOK'
  <2>1. call[t].object \in Objects /\ call[t] \in Call  BY <1>9, TypesOfOne DEF Store, Calls, ListsOK
  <2>2. WordsOK'  BY <1>9, <2>1, WrittenType DEF Store, WordsOK
  <2>3. /\ [call[t] EXCEPT !.step = "push"] \in Call
        /\ [call[t] EXCEPT !.step = "list"] \in Call
    BY <2>1 DEF Call
  <2>4. CallTypeOK'
    BY <1>9, <2>3, CallGoes, IdleType DEF Store
  <2> QED  BY <1>9, <2>2, <2>4 DEF Store
<1>10. ASSUME NEW t \in Threads, List(t) PROVE TypeOK'
  <2>1. call[t].object \in Objects  BY <1>10 DEF List, Calls, ListsOK
  <2>2. ListsOK'  BY <1>10, <2>1 DEF List, ListsOK
  <2>3. CallTypeOK'  BY <1>10, <2>1, BegunGoes DEF List
  <2> QED  BY <1>10, <2>2, <2>3 DEF List
<1>11. ASSUME NEW t \in Threads, Check(t) PROVE TypeOK'
  <2>1. [call[t] EXCEPT !.step = "swap"] \in Call  BY TypesOfOne, MovedType
  <2>2. CallTypeOK'  BY <1>11, <2>1, CallGoes, IdleType DEF Check, At
  <2> QED  BY <1>11, <2>2 DEF Check
<1>12. ASSUME NEW t \in Threads, Swap(t) PROVE TypeOK'
  <2>1. call[t].object \in Objects  BY <1>12 DEF Swap, Calls, ListsOK
  <2>2. [call[t] EXCEPT !.step = "load"] \in Call  BY TypesOfOne, MovedType
  <2>3. CallTypeOK'  BY <1>12, <2>2, CallGoes, IdleType DEF Swap, At
  <2>4. MarksOK'  BY <1>12, <2>1 DEF Swap, MarksOK
  <2> QED  BY <1>12, <2>3, <2>4 DEF Swap
<1>13. ASSUME NEW t \in Threads, Push(t) PROVE TypeOK'
  <2>1. call[t].object \in Objects  BY <1>13 DEF Push, Calls, ListsOK
  <2>2. MarksOK'  BY <1>13, <2>1 DEF Push, MarksOK
  <2>3. CallTypeOK'  BY <1>13, CallGoes, IdleType DEF Push
  <2> QED  BY <1>13, <2>2, <2>3 DEF Push
<1>14. ASSUME NEW crowsOnly \in AsCrows, Update(crowsOnly) PROVE TypeOK'
  <2>1. \A w \in Props : [w EXCEPT !.crow = FALSE] \in Props  BY DEF Props
  <2>2. WordsOK'
    <3>1. \A o \in Objects : props[o] \in Props  BY TypesOfOne
    <3>2. props' \in [Objects -> Props]  BY <1>14, <2>1, <3>1 DEF Update
    <3> QED  BY <1>14, <3>2 DEF Update, WordsOK
  <2>3. MarksOK'  BY <1>14 DEF Update, MarksOK, None
  <2>4. TurnOK'  BY <1>14 DEF Update, TurnOK, Alone
  <2> QED  BY <1>14, <2>2, <2>3, <2>4 DEF Update
<1>15. ASSUME Destroy PROVE TypeOK'
  <2>1. Last(queue) \in Objects /\ Front(queue) \in Seq(Objects)
    BY <1>15 DEF Destroy, TreeOK, Last, Front
  <2>2. crows' \in [Threads -> [Objects -> 0..2]]
    <3>1. crows[Main][Last(queue)] \in 0..2  BY <2>1, TwoThreads, TypesOfOne
    <3>2. (IF crows[Main][Last(queue)] = 0 THEN 0 ELSE crows[Main][Last(queue)] - 1) \in 0..2
      BY <3>1
    <3>3. None \in [Objects -> 0..2]  BY DEF None
    <3> QED  BY <1>15, <3>2, <3>3, TwoThreads DEF Destroy, Gone, MarksOK
  <2>3. WordsOK'  BY <1>15, <2>1 DEF Destroy, Gone, WordsOK, Props, Fresh, Width
  <2>4. TreeOK'  BY <1>15, <2>1 DEF Destroy, Gone, TreeOK
  <2>5. MarksOK'  BY <1>15, <2>2 DEF Destroy, Gone, MarksOK, Cleared
  <2>6. ListsOK'  BY <1>15 DEF Destroy, Gone, ListsOK
  <2> QED  BY <1>15, <2>3, <2>4, <2>5, <2>6 DEF Destroy
<1>16. CASE SpawnFails
  <2>1. None \in [Objects -> 0..2]  BY DEF None
  <2>2. Cleared \subseteq Objects  BY DEF Cleared
  <2>3. MarksOK'  BY <1>16, <2>1, <2>2, TwoThreads DEF SpawnFails, MarksOK
  <2> QED  BY <1>16, <2>3 DEF SpawnFails
<1>17. CASE Paused \/ Updated
  <2>1. TurnOK'  BY <1>17 DEF Paused, Updated, TurnOK
  <2> QED  BY <1>17, <2>1 DEF Paused, Updated
<1>18. CASE GoOn
  <2>1. TurnOK'  BY <1>18 DEF GoOn, TurnOK, Alone
  <2> QED  BY <1>18, <2>1 DEF GoOn
<1>19. CASE NextFrame
  <2>1. TurnOK' /\ MarksOK'  BY <1>19 DEF NextFrame, TurnOK, Alone, MarksOK
  <2> QED  BY <1>19, <2>1 DEF NextFrame
<1>20. CASE UNCHANGED vars
  BY <1>20 DEF vars
<1> QED
  BY <1>1, <1>2, <1>3, <1>4, <1>5, <1>6, <1>7, <1>8, <1>9, <1>10, <1>11, <1>12, <1>13,
     <1>14, <1>15, <1>16, <1>17, <1>18, <1>19, <1>20 DEF Next

-----------------------------------------------------------------------------
(* Calls.                                                                  *)

LEMMA BegunOK ==
  ASSUME NEW o \in Objects, NEW act \in {"activate", "deactivate", "crow"}
  PROVE  /\ CallOK(Begun(act, o))
         /\ Begun(act, o).act = act /\ Begun(act, o).step /= "idle"
  BY DEF Begun, CallOK

LEMMA IdleOK == CallOK(Idle) /\ Idle.step = "idle" /\ Idle.act = "none"
  BY DEF Idle, CallOK

LEMMA Moved ==
  ASSUME NEW c \in Call, NEW s, NEW w
  PROVE  /\ [c EXCEPT !.step = s].step = s
         /\ [c EXCEPT !.step = s].act = c.act
         /\ [c EXCEPT !.step = s].object = c.object
         /\ [c EXCEPT !.step = s, !.read = w].step = s
         /\ [c EXCEPT !.step = s, !.read = w].act = c.act
         /\ [c EXCEPT !.step = s, !.read = w].object = c.object
         /\ [c EXCEPT !.step = s, !.read = w].read = w
  BY DEF Call

\* One thread goes on with its call, or ends it, in the same turn.
LEMMA CallsGoOn ==
  ASSUME TypeOK, Calls, turn' = turn, objects \subseteq objects',
         NEW t \in Threads, NEW c, Goes(t, c), CallOK(c),
         c.step /= "idle" => c.object \in objects',
         t = Second => (c.step = "idle" \/ turn = "render") /\ c.act /= "deactivate",
         t = Main => /\ c.step = "idle" \/ turn /= "destroy"
                     /\ turn = "render" => c.act \in {"none", "crow"}
  PROVE  Calls'
<1>1. call'[t] = c /\ \A u \in Threads : u /= t => call'[u] = call[u]
  BY GoesOne
<1>2. \A u \in Threads : CallOK(call'[u]) /\ (call'[u].step /= "idle" => call'[u].object \in objects')
  BY <1>1 DEF Calls
<1> QED  BY <1>1, <1>2, TwoThreads DEF Calls

LEMMA CallsStep == ASSUME TypeOK, Calls, [Next]_vars PROVE Calls'
<1> USE Groups
<1>1. ASSUME NEW t \in Threads, NEW o \in Objects, Activate(t, o) PROVE Calls'
  <2>1. /\ t = Second => turn = "render"
        /\ t = Main => turn /= "destroy" /\ turn /= "render"
    BY <1>1 DEF Activate, Alone, Main, Second
  <2> QED  BY <1>1, <2>1, CallsGoOn, BegunType, BegunOK DEF Activate
<1>2. ASSUME NEW o \in Objects, Deactivate(o) PROVE Calls'
  <2>1. turn /= "destroy" /\ turn /= "render"
    BY <1>2 DEF Deactivate, Alone
  <2> QED  BY <1>2, <2>1, TwoThreads, CallsGoOn, BegunType, BegunOK DEF Deactivate
<1>3. ASSUME NEW o \in Objects, Notice(o) PROVE Calls'
  <2>1. turn /= "destroy"
    BY <1>3 DEF Notice, Alone
  <2> QED  BY <1>3, <2>1, TwoThreads, CallsGoOn, BegunType, BegunOK DEF Notice
<1>4. ASSUME NEW o \in Objects, Spawn(o) PROVE Calls'
  BY <1>4, TwoThreads, CallsGoOn, BegunType, BegunOK DEF Spawn
<1>5. ASSUME NEW o \in Objects, Reject(o) PROVE Calls'
  BY <1>5, TwoThreads, CallsGoOn, BegunType, BegunOK DEF Reject
<1>6. ASSUME NEW o \in Objects, SetDestroy(o) PROVE Calls'
  BY <1>6 DEF SetDestroy, Calls
<1>7. ASSUME NEW o \in Objects, NEW p \in Objects, Take(o, p) PROVE Calls'
  BY <1>7, TwoThreads, CallsGoOn, BegunType, BegunOK DEF Take
<1>8. ASSUME NEW t \in Threads, Load(t) PROVE Calls'
  <2> DEFINE c == [call[t] EXCEPT !.step = "store", !.read = props[call[t].object]]
  <2>1. c.step = "store" /\ c.act = call[t].act /\ c.object = call[t].object
    BY Moved DEF TypeOK
  <2>2. Goes(t, c) /\ turn' = turn /\ objects' = objects /\ call[t].step = "load"  BY <1>8 DEF Load
  <2>3. CallOK(c)  BY <2>1, <2>2 DEF Calls, CallOK
  <2> HIDE DEF c
  <2> QED  BY <2>1, <2>2, <2>3, CallsGoOn, TwoThreads DEF Calls
<1>9. ASSUME NEW t \in Threads, Store(t) PROVE Calls'
  <2> DEFINE p == [call[t] EXCEPT !.step = "push"]
             l == [call[t] EXCEPT !.step = "list"]
  <2>1. /\ p.step = "push" /\ p.act = call[t].act /\ p.object = call[t].object
        /\ l.step = "list" /\ l.act = call[t].act /\ l.object = call[t].object
    BY Moved DEF TypeOK
  <2>2. /\ turn' = turn /\ objects' = objects /\ call[t].step = "store"
        /\ \/ call[t].act = "crow" /\ Goes(t, p)
           \/ call[t].act /= "crow" /\ Goes(t, l)
           \/ Goes(t, Idle)
    BY <1>9 DEF Store
  <2>3. /\ call[t].act = "crow" => CallOK(p)
        /\ call[t].act /= "crow" => CallOK(l)
    BY <2>1, <2>2 DEF Calls, CallOK
  <2> HIDE DEF p, l
  <2> QED  BY <2>1, <2>2, <2>3, IdleOK, CallsGoOn, TwoThreads DEF Calls
<1>10. ASSUME NEW t \in Threads, List(t) PROVE Calls'
  <2>1. call[t].object \in Objects  BY <1>10 DEF List, Calls, TypeOK
  <2> QED  BY <1>10, <2>1, CallsGoOn, BegunType, BegunOK, TwoThreads DEF List, Calls
<1>11. ASSUME NEW t \in Threads, Check(t) PROVE Calls'
  <2> DEFINE c == [call[t] EXCEPT !.step = "swap"]
  <2>1. c.step = "swap" /\ c.act = call[t].act /\ c.object = call[t].object
    BY Moved DEF TypeOK
  <2>2. /\ turn' = turn /\ objects' = objects /\ call[t].step = "check"
        /\ Goes(t, c) \/ Goes(t, Idle)
    BY <1>11 DEF Check, At
  <2>3. CallOK(c)  BY <2>1, <2>2 DEF Calls, CallOK
  <2> HIDE DEF c
  <2> QED  BY <2>1, <2>2, <2>3, IdleOK, CallsGoOn, TwoThreads DEF Calls
<1>12. ASSUME NEW t \in Threads, Swap(t) PROVE Calls'
  <2> DEFINE c == [call[t] EXCEPT !.step = "load"]
  <2>1. c.step = "load" /\ c.act = call[t].act /\ c.object = call[t].object
    BY Moved DEF TypeOK
  <2>2. /\ turn' = turn /\ objects' = objects /\ call[t].step = "swap"
        /\ Goes(t, c) \/ Goes(t, Idle)
    BY <1>12 DEF Swap, At
  <2>3. CallOK(c)  BY <2>1, <2>2 DEF Calls, CallOK
  <2> HIDE DEF c
  <2> QED  BY <2>1, <2>2, <2>3, IdleOK, CallsGoOn, TwoThreads DEF Calls
<1>13. ASSUME NEW t \in Threads, Push(t) PROVE Calls'
  BY <1>13, IdleOK, CallsGoOn DEF Push
<1>14. ASSUME NEW crowsOnly \in AsCrows, Update(crowsOnly) PROVE Calls'
  BY <1>14, IdleOK DEF Update, Calls, Free
<1>15. ASSUME Destroy PROVE Calls'
  <2>1. \A t \in Threads : call[t] = Idle
    BY <1>15, TwoThreads DEF Destroy, Calls, CallOK
  <2> QED  BY <1>15, <2>1, IdleOK, TwoThreads DEF Destroy, Gone, Calls
<1>16. CASE SpawnFails
  BY <1>16 DEF SpawnFails, Calls
<1>17. CASE Paused \/ Updated
  BY <1>17, IdleOK DEF Paused, Updated, Calls, Free
<1>18. CASE GoOn
  BY <1>18, IdleOK DEF GoOn, Calls, Free
<1>19. CASE NextFrame
  BY <1>19, IdleOK DEF NextFrame, Calls, Free
<1>20. CASE UNCHANGED vars
  BY <1>20 DEF vars, Calls
<1> QED
  BY <1>1, <1>2, <1>3, <1>4, <1>5, <1>6, <1>7, <1>8, <1>9, <1>10, <1>11, <1>12, <1>13,
     <1>14, <1>15, <1>16, <1>17, <1>18, <1>19, <1>20 DEF Next

-----------------------------------------------------------------------------
(* Counters.                                                               *)

LEMMA WrittenWord ==
  ASSUME NEW c \in Call
  PROVE  /\ c.act = "activate" => Written(c).counter = (c.read.counter + 1) % 256
         /\ c.act = "deactivate" => Written(c).counter = (c.read.counter - 1) % 256
         /\ c.act \in {"activate", "deactivate"} => Written(c).crow = c.read.crow
         /\ c.act = "crow" => Written(c).counter = c.read.counter /\ Written(c).crow
<1>1. CASE c.act = "activate"
  BY <1>1 DEF Call, Props, Written, Width
<1>2. CASE c.act = "deactivate"
  BY <1>2 DEF Call, Props, Written, Width
<1>3. CASE c.act \notin {"activate", "deactivate"}
  BY <1>3 DEF Call, Props, Written, Width
<1> QED  BY <1>1, <1>2, <1>3

LEMMA FreshWord ==
    /\ \A w \in Props : w.counter = 0 /\ w.crow = FALSE => w = Fresh
    /\ [Fresh EXCEPT !.crow = FALSE] = Fresh
<1>1. ASSUME NEW w \in Props, w.counter = 0, w.crow = FALSE PROVE w = Fresh
  BY <1>1 DEF Props, Fresh
<1>2. Fresh \in Props /\ Fresh.counter = 0 /\ Fresh.crow = FALSE  BY DEF Props, Fresh, Width
<1>3. /\ [Fresh EXCEPT !.crow = FALSE] \in Props
      /\ [Fresh EXCEPT !.crow = FALSE].counter = 0 /\ [Fresh EXCEPT !.crow = FALSE].crow = FALSE
  BY <1>2 DEF Props
<1> QED  BY <1>1, <1>3

\* What a write does to a word that no other write came between.
LEMMA Stored ==
  ASSUME TypeOK, Calls, NEW t \in Threads, Store(t)
  PROVE  LET o == call[t].object
         IN  /\ o \in Objects
             /\ torn \subseteq torn' /\ torn' \subseteq torn \union {o}
             /\ \A p \in Objects \ {o} : props'[p] = props[p]
             /\ props'[o] \in Props
             /\ o \notin torn' =>
                   /\ call[t].act = "activate" => props'[o].counter = (props[o].counter + 1) % 256
                   /\ call[t].act = "deactivate" => props'[o].counter = (props[o].counter - 1) % 256
                   /\ call[t].act \in {"activate", "deactivate"} => props'[o].crow = props[o].crow
                   /\ call[t].act = "crow" => props'[o].counter = props[o].counter /\ props'[o].crow
                   /\ call[t].read = props[o]
<1> DEFINE o == call[t].object
<1>1. o \in Objects /\ call[t] \in Call  BY DEF Store, Calls, CallOK, TypeOK
<1>2. props' = [props EXCEPT ![o] = Written(call[t])]  BY DEF Store
<1>3. torn' = IF props[o] = call[t].read THEN torn ELSE torn \union {o}  BY DEF Store
<1>4. props'[o] = Written(call[t]) /\ Written(call[t]) \in Props
    /\ \A p \in Objects \ {o} : props'[p] = props[p]
  BY <1>1, <1>2, WrittenType DEF TypeOK
<1>5. o \notin torn' => call[t].read = props[o]  BY <1>3
<1> QED  BY <1>1, <1>3, <1>4, <1>5, WrittenWord

\* Nobody goes on with an activation or its opposite but to read.
SameSwitches ==
    \A t \in Threads :
        call[t].act \in {"activate", "deactivate"} \/ call'[t].act \in {"activate", "deactivate"} =>
            /\ call'[t].act = call[t].act /\ call'[t].object = call[t].object
            /\ \/ call'[t].step = call[t].step
               \/ call[t].step \in {"load", "store"} /\ call'[t].step \in {"load", "store"}

LEMMA CountedSame ==
  ASSUME TypeOK, Counted, UNCHANGED lists, uses' = uses, torn' = torn, SameSwitches,
         \A o \in Objects : props'[o].counter = props[o].counter,
         \A o \in Objects \ objects : props'[o] = props[o]
  PROVE  Counted'
<1> USE Groups
<1>1. ASSUME NEW t \in Threads, NEW o \in Objects PROVE Switches(t, o)' <=> Switches(t, o)
  BY DEF SameSwitches, Switches
<1>2. ASSUME NEW t \in Threads, NEW o \in Objects, Switches(t, o), Half(t, o) PROVE Half(t, o)'
  BY <1>2 DEF SameSwitches, Switches, Half
<1>3. ASSUME NEW o \in Objects, Settled(o) PROVE Settled(o)'
  BY <1>3 DEF Settled
<1>4. objects \subseteq Objects  BY DEF TypeOK
<1>5. \A o \in objects' \ torn' :
        /\ \A t \in Threads : Switches(t, o)' => Half(t, o)'
        /\ (\A t \in Threads : ~ Switches(t, o)') => Settled(o)'
  BY <1>1, <1>2, <1>3, <1>4 DEF Counted
<1>6. /\ objects' = active' \union sleeping' /\ active' \intersect sleeping' = {}
      /\ \A o \in Objects : uses'[o] <= MaxUses[o]
      /\ \A o \in Objects \ objects' : props'[o] = Fresh /\ uses'[o] = 0
  BY DEF Counted
<1> QED  BY <1>5, <1>6 DEF Counted

\* Only one thread switches objects, and the second one only while rendering.
LEMMA OneSwitches ==
  ASSUME TypeOK, Calls, NEW t \in Threads, NEW u \in Threads, NEW o, NEW p,
         Switches(t, o), Switches(u, p)
  PROVE  t = u
  BY TwoThreads DEF Calls, CallOK, Switches, Idle

\* A step of one thread that leaves what the counters of other objects are
\* about: what is left to show is about one object.
LEMMA CountedOther ==
  ASSUME TypeOK, Counted, NEW t \in Threads, NEW o \in Objects, NEW c, Goes(t, c),
         call[t].act \in {"activate", "deactivate"} => call[t].object = o,
         c.act \in {"activate", "deactivate"} => c.object = o,
         torn \subseteq torn',
         \A p \in Objects \ {o} :
            /\ props'[p] = props[p] /\ uses'[p] = uses[p]
            /\ p \in objects' <=> p \in objects
            /\ p \in active' <=> p \in active
            /\ p \in sleeping' <=> p \in sleeping
  PROVE  \A p \in objects' \ (torn' \union {o}) : p \in Objects =>
            /\ \A u \in Threads : Switches(u, p)' => Half(u, p)'
            /\ (\A u \in Threads : ~ Switches(u, p)') => Settled(p)'
<1> SUFFICES ASSUME NEW p \in objects' \ (torn' \union {o}), p \in Objects
             PROVE  /\ \A u \in Threads : Switches(u, p)' => Half(u, p)'
                    /\ (\A u \in Threads : ~ Switches(u, p)') => Settled(p)'
  OBVIOUS
<1>1. call'[t] = c /\ \A u \in Threads : u /= t => call'[u] = call[u]  BY GoesOne
<1>2. p \in objects \ torn  OBVIOUS
<1>3. ASSUME NEW u \in Threads PROVE (Switches(u, p)' <=> Switches(u, p)) /\ (Switches(u, p) => u /= t)
  BY <1>1 DEF Switches
<1>4. ASSUME NEW u \in Threads, Switches(u, p)' PROVE Half(u, p)'
  <2>1. Switches(u, p) /\ call'[u] = call[u]  BY <1>1, <1>3, <1>4
  <2>2. Half(u, p)  BY <1>2, <2>1 DEF Counted
  <2> QED  BY <2>1, <2>2 DEF Half
<1>5. ASSUME \A u \in Threads : ~ Switches(u, p)' PROVE Settled(p)'
  <2>1. Settled(p)  BY <1>2, <1>3, <1>5 DEF Counted
  <2> QED  BY <2>1 DEF Settled
<1> QED  BY <1>4, <1>5

\* What is left to show of a step after CountedOther.
LEMMA CountedBoth ==
  ASSUME NEW o \in Objects, objects' \subseteq Objects,
         \A p \in objects' \ (torn' \union {o}) : p \in Objects =>
            /\ \A u \in Threads : Switches(u, p)' => Half(u, p)'
            /\ (\A u \in Threads : ~ Switches(u, p)') => Settled(p)',
         o \in objects' \ torn' =>
            /\ \A u \in Threads : Switches(u, o)' => Half(u, o)'
            /\ (\A u \in Threads : ~ Switches(u, o)') => Settled(o)',
         objects' = active' \union sleeping' /\ active' \intersect sleeping' = {},
         \A p \in Objects : uses'[p] <= MaxUses[p],
         \A p \in Objects \ objects' : props'[p] = Fresh /\ uses'[p] = 0
  PROVE  Counted'
  BY DEF Counted

LEMMA CountedActivate ==
  ASSUME TypeOK, Calls, Counted, NEW t \in Threads, NEW o \in Objects, Activate(t, o)
  PROVE  Counted'
<1> USE Groups
<1> DEFINE c == Begun("activate", o)
<1>1. /\ Goes(t, c) /\ call[t] = Idle /\ o \in objects
      /\ uses' = [uses EXCEPT ![o] = @ + 1] /\ uses[o] < MaxUses[o]
      /\ objects' = objects /\ active' = active /\ sleeping' = sleeping
      /\ props' = props /\ torn' = torn
  BY DEF Activate, Free
<1>2. c.act = "activate" /\ c.object = o /\ c.step = "load"  BY BegunType
<1>3. call'[t] = c /\ \A u \in Threads : u /= t => call'[u] = call[u]  BY <1>1, GoesOne
<1>4. uses[o] \in Nat /\ MaxUses[o] \in Nat /\ uses'[o] = uses[o] + 1
      /\ \A p \in Objects \ {o} : uses'[p] = uses[p]
  <2>1. uses[o] \in 0..255 /\ uses'[o] = uses[o] + 1 /\ \A p \in Objects \ {o} : uses'[p] = uses[p]
    BY <1>1 DEF TypeOK
  <2> QED  BY <2>1, Constants
<1>5. \A u \in Threads : ~ Switches(u, o)
  <2>1. t = Main => turn /= "render"  BY DEF Activate, Alone, Main, Second
  <2>2. t = Second => turn = "render"  BY DEF Activate, Main, Second
  <2> QED  BY <1>1, <2>1, <2>2, IdleType, TwoThreads DEF Calls, CallOK, Switches
<1>6. o \notin torn => Settled(o)  BY <1>1, <1>5 DEF Counted
<1>7. o \notin torn' => Half(t, o)' /\ Switches(t, o)' /\ \A u \in Threads : Switches(u, o)' => u = t
  <2>1. ASSUME o \notin torn' PROVE Half(t, o)'
    BY <1>1, <1>2, <1>3, <1>4, <1>6, <2>1 DEF Half, Settled
  <2>2. Switches(t, o)'  BY <1>2, <1>3 DEF Switches
  <2>3. \A u \in Threads : Switches(u, o)' => u = t  BY <1>3, <1>5 DEF Switches
  <2> QED  BY <2>1, <2>2, <2>3
<1>8. /\ \A p \in Objects : uses'[p] <= MaxUses[p]
      /\ \A p \in Objects \ objects' : props'[p] = Fresh /\ uses'[p] = 0
  BY <1>1, <1>4 DEF Counted
<1> HIDE DEF c
<1>9. \A p \in objects' \ (torn' \union {o}) : p \in Objects =>
            /\ \A u \in Threads : Switches(u, p)' => Half(u, p)'
            /\ (\A u \in Threads : ~ Switches(u, p)') => Settled(p)'
  BY <1>1, <1>2, <1>4, IdleType, CountedOther
<1>10. objects' \subseteq Objects /\ objects' = active' \union sleeping' /\ active' \intersect sleeping' = {}
  BY <1>1 DEF TypeOK, Counted
<1> QED  BY <1>7, <1>8, <1>9, <1>10, CountedBoth

LEMMA CountedDeactivate ==
  ASSUME TypeOK, Calls, Counted, NEW o \in Objects, Deactivate(o)
  PROVE  Counted'
<1> USE Groups
<1> DEFINE c == Begun("deactivate", o)
<1>1. /\ Goes(Main, c) /\ call[Main] = Idle /\ o \in objects
      /\ uses' = [uses EXCEPT ![o] = @ - 1] /\ uses[o] > 0
      /\ objects' = objects /\ active' = active /\ sleeping' = sleeping
      /\ props' = props /\ torn' = torn
  BY DEF Deactivate, Free
<1>2. c.act = "deactivate" /\ c.object = o /\ c.step = "load"  BY BegunType
<1>3. call'[Main] = c /\ \A u \in Threads : u /= Main => call'[u] = call[u]
  BY <1>1, GoesOne, TwoThreads
<1>4. uses[o] \in Nat /\ uses'[o] = uses[o] - 1 /\ \A p \in Objects \ {o} : uses'[p] = uses[p]
  <2>1. uses[o] \in 0..255  BY DEF TypeOK
  <2>2. uses'[o] = uses[o] - 1 /\ \A p \in Objects \ {o} : uses'[p] = uses[p]
    BY <1>1 DEF TypeOK
  <2> QED  BY <2>1, <2>2
<1>5. \A u \in Threads : ~ Switches(u, o)
  <2>1. turn /= "render"  BY DEF Deactivate, Alone
  <2> QED  BY <1>1, <2>1, IdleType, TwoThreads DEF Calls, CallOK, Switches
<1>6. o \notin torn => Settled(o)  BY <1>1, <1>5 DEF Counted
<1>7. o \notin torn' => Half(Main, o)' /\ Switches(Main, o)' /\ \A u \in Threads : Switches(u, o)' => u = Main
  <2>1. ASSUME o \notin torn' PROVE Half(Main, o)'
    BY <1>1, <1>2, <1>3, <1>4, <1>6, <2>1 DEF Half, Settled
  <2>2. Switches(Main, o)'  BY <1>2, <1>3 DEF Switches
  <2>3. \A u \in Threads : Switches(u, o)' => u = Main  BY <1>3, <1>5 DEF Switches
  <2> QED  BY <2>1, <2>2, <2>3
<1>8. /\ \A p \in Objects : uses'[p] <= MaxUses[p]
      /\ \A p \in Objects \ objects' : props'[p] = Fresh /\ uses'[p] = 0
  <2>1. uses'[o] <= MaxUses[o]
    <3>1. uses[o] <= MaxUses[o] /\ MaxUses[o] \in 1..255  BY Constants DEF Counted
    <3> QED  BY <1>4, <3>1
  <2> QED  BY <1>1, <1>4, <2>1 DEF Counted
<1> HIDE DEF c
<1>9. \A p \in objects' \ (torn' \union {o}) : p \in Objects =>
            /\ \A u \in Threads : Switches(u, p)' => Half(u, p)'
            /\ (\A u \in Threads : ~ Switches(u, p)') => Settled(p)'
  BY <1>1, <1>2, <1>4, IdleType, TwoThreads, CountedOther
<1>10. objects' \subseteq Objects /\ objects' = active' \union sleeping' /\ active' \intersect sleeping' = {}
  BY <1>1 DEF TypeOK, Counted
<1> QED  BY <1>7, <1>8, <1>9, <1>10, TwoThreads, CountedBoth

LEMMA CountedSpawn ==
  ASSUME TypeOK, Calls, Counted, NEW o \in Objects, Spawn(o)
  PROVE  Counted'
<1> USE Groups
<1> DEFINE c == Begun("activate", o)
<1>1. /\ Goes(Main, c) /\ call[Main] = Idle /\ o \notin objects
      /\ uses' = [uses EXCEPT ![o] = 1] /\ objects' = objects \union {o}
      /\ active' = active /\ sleeping' = sleeping \union {o}
      /\ props' = props /\ torn' = torn
  BY DEF Spawn, Free
<1>2. c.act = "activate" /\ c.object = o /\ c.step = "load"  BY BegunType
<1>3. call'[Main] = c /\ \A u \in Threads : u /= Main => call'[u] = call[u]
  BY <1>1, GoesOne, TwoThreads
<1>4. uses'[o] = 1 /\ \A p \in Objects \ {o} : uses'[p] = uses[p]
  BY <1>1 DEF TypeOK
<1>5. \A u \in Threads : ~ Switches(u, o)
  BY <1>1 DEF Calls, CallOK, Switches, Idle
<1>6. props'[o].counter = 0 /\ o \notin active'  BY <1>1 DEF Counted, Fresh
<1>7. Half(Main, o)' /\ Switches(Main, o)' /\ \A u \in Threads : Switches(u, o)' => u = Main
  <2>1. Half(Main, o)'
    BY <1>2, <1>3, <1>4, <1>6 DEF Half
  <2>2. Switches(Main, o)'  BY <1>2, <1>3 DEF Switches
  <2>3. \A u \in Threads : Switches(u, o)' => u = Main  BY <1>3, <1>5 DEF Switches
  <2> QED  BY <2>1, <2>2, <2>3
<1>8. /\ \A p \in Objects : uses'[p] <= MaxUses[p]
      /\ \A p \in Objects \ objects' : props'[p] = Fresh /\ uses'[p] = 0
  <2>1. uses'[o] <= MaxUses[o]
    <3>1. MaxUses[o] \in 1..255  BY Constants
    <3> QED  BY <1>4, <3>1
  <2> QED  BY <1>1, <1>4, <2>1 DEF Counted
<1> HIDE DEF c
<1>9. \A p \in objects' \ (torn' \union {o}) : p \in Objects =>
            /\ \A u \in Threads : Switches(u, p)' => Half(u, p)'
            /\ (\A u \in Threads : ~ Switches(u, p)') => Settled(p)'
  BY <1>1, <1>2, <1>4, IdleType, TwoThreads, CountedOther
<1>10. objects' \subseteq Objects /\ objects' = active' \union sleeping' /\ active' \intersect sleeping' = {}
  BY <1>1 DEF TypeOK, Counted
<1> QED  BY <1>7, <1>8, <1>9, <1>10, TwoThreads, CountedBoth

LEMMA CountedList ==
  ASSUME TypeOK, Calls, Counted, NEW t \in Threads, List(t), NEW o \in Objects, o = call[t].object
  PROVE  Counted'
<1> USE Groups
<1> DEFINE c == Begun("crow", o)
<1>1. /\ Goes(t, c) /\ call[t].step = "list"
      /\ objects' = objects /\ props' = props /\ uses' = uses /\ torn' = torn
      /\ \/ /\ call[t].act = "activate"
            /\ active' = active \union {o} /\ sleeping' = sleeping \ {o}
         \/ /\ call[t].act /= "activate"
            /\ active' = active \ {o} /\ sleeping' = sleeping \union {o}
  BY DEF List
<1>2. o \in Objects /\ o \in objects /\ call[t].act \in {"activate", "deactivate"}
  <2>1. o \in objects /\ call[t].act \notin {"none", "crow"}  BY <1>1 DEF Calls, CallOK
  <2>2. call[t].act \in {"none", "activate", "deactivate", "crow"}  BY DEF TypeOK, Call
  <2> QED  BY <2>1, <2>2
<1>3. c.act = "crow" /\ c.object = o  BY <1>2, BegunType
<1>4. call'[t] = c /\ \A u \in Threads : u /= t => call'[u] = call[u]  BY <1>1, GoesOne
<1>5. o \notin torn => Half(t, o)  BY <1>2 DEF Counted, Switches
<1>6. \A u \in Threads : ~ Switches(u, o)'
  <2>1. Switches(t, o)  BY <1>2 DEF Switches
  <2>2. ASSUME NEW u \in Threads, Switches(u, o)' PROVE FALSE
    <3>1. u /= t /\ call'[u] = call[u]  BY <1>3, <1>4, <2>2 DEF Switches
    <3>2. Switches(u, o)  BY <2>2, <3>1, <1>4 DEF Switches
    <3> QED  BY <2>1, <3>1, <3>2, OneSwitches
  <2> QED  BY <2>2
<1>7. o \notin torn' => Settled(o)'
  BY <1>1, <1>2, <1>5 DEF Half, Settled
<1> HIDE DEF c
<1>8. \A p \in objects' \ (torn' \union {o}) : p \in Objects =>
            /\ \A u \in Threads : Switches(u, p)' => Half(u, p)'
            /\ (\A u \in Threads : ~ Switches(u, p)') => Settled(p)'
  BY <1>1, <1>2, <1>3, CountedOther
<1>9. objects' \subseteq Objects /\ objects' = active' \union sleeping' /\ active' \intersect sleeping' = {}
  BY <1>1, <1>2 DEF TypeOK, Counted
<1>10. /\ \A p \in Objects : uses'[p] <= MaxUses[p]
       /\ \A p \in Objects \ objects' : props'[p] = Fresh /\ uses'[p] = 0
  BY <1>1 DEF Counted
<1> QED  BY <1>2, <1>6, <1>7, <1>8, <1>9, <1>10, CountedBoth

LEMMA CountedDestroy ==
  ASSUME TypeOK, Calls, Counted, Destroy
  PROVE  Counted'
<1> DEFINE o == Last(queue)
<1>1. o \in Objects  BY DEF Destroy, TypeOK, Last
<1>2. /\ objects' = objects \ {o} /\ active' = active \ {o} /\ sleeping' = sleeping \ {o}
      /\ props' = [props EXCEPT ![o] = Fresh] /\ uses' = [uses EXCEPT ![o] = 0]
      /\ call' = call /\ torn' = torn
  BY DEF Destroy, Gone
<1>3. /\ props'[o] = Fresh /\ uses'[o] = 0
      /\ \A p \in Objects \ {o} : props'[p] = props[p] /\ uses'[p] = uses[p]
  BY <1>1, <1>2 DEF TypeOK
<1>4. call[Main] = Idle  BY TwoThreads DEF Destroy, Calls, CallOK
<1>5. Goes(Main, Idle)  BY <1>2, <1>4, TwoThreads DEF Goes, TypeOK
<1> HIDE DEF o
<1>6. \A p \in objects' \ (torn' \union {o}) : p \in Objects =>
            /\ \A u \in Threads : Switches(u, p)' => Half(u, p)'
            /\ (\A u \in Threads : ~ Switches(u, p)') => Settled(p)'
  BY <1>1, <1>2, <1>3, <1>4, <1>5, IdleType, TwoThreads, CountedOther
<1>7. objects' \subseteq Objects /\ objects' = active' \union sleeping' /\ active' \intersect sleeping' = {}
  BY <1>2 DEF TypeOK, Counted
<1>8. \A p \in Objects : uses'[p] <= MaxUses[p]
  <2>1. uses'[o] <= MaxUses[o]
    <3>1. MaxUses[o] \in 1..255  BY <1>1, Constants
    <3> QED  BY <1>3, <3>1
  <2> QED  BY <1>3, <2>1 DEF Counted
<1>9. \A p \in Objects \ objects' : props'[p] = Fresh /\ uses'[p] = 0
  BY <1>2, <1>3 DEF Counted
<1> QED  BY <1>1, <1>2, <1>6, <1>7, <1>8, <1>9, CountedBoth

LEMMA CountedStore ==
  ASSUME TypeOK, Calls, Counted, NEW t \in Threads, Store(t), NEW o \in Objects, o = call[t].object
  PROVE  Counted'
<1> USE Groups
<1> DEFINE p == [call[t] EXCEPT !.step = "push"]
           l == [call[t] EXCEPT !.step = "list"]
           c == IF call[t].act = "crow" THEN p ELSE IF Moves(call[t]) THEN l ELSE Idle
<1>1. /\ Goes(t, c) /\ call[t].step = "store"
      /\ objects' = objects /\ active' = active /\ sleeping' = sleeping /\ uses' = uses
  BY DEF Store
<1>2. /\ p.step = "push" /\ p.act = call[t].act /\ p.object = o
      /\ l.step = "list" /\ l.act = call[t].act /\ l.object = o
  BY Moved DEF TypeOK
<1>3. o \in objects /\ call[t].act \in {"activate", "deactivate", "crow"}
  <2>1. o \in objects /\ call[t].act /= "none"  BY <1>1 DEF Calls, CallOK
  <2>2. call[t].act \in {"none", "activate", "deactivate", "crow"}  BY DEF TypeOK, Call
  <2> QED  BY <2>1, <2>2
<1>4. /\ c.act \in {"activate", "deactivate"} => c.object = o
      /\ call[t].act = "crow" => c.act = "crow"
      /\ call[t].act /= "crow" /\ Moves(call[t]) => c.act = call[t].act /\ c.object = o /\ c.step = "list"
      /\ call[t].act /= "crow" /\ ~ Moves(call[t]) => c.act = "none"
  BY <1>2, IdleType
<1> HIDE DEF c, p, l
<1>5. call'[t] = c /\ \A u \in Threads : u /= t => call'[u] = call[u]  BY <1>1, GoesOne
<1>6. /\ torn \subseteq torn' /\ torn' \subseteq torn \union {o}
      /\ \A q \in Objects \ {o} : props'[q] = props[q]
      /\ o \notin torn' =>
            /\ call[t].act = "activate" => props'[o].counter = (props[o].counter + 1) % 256
            /\ call[t].act = "deactivate" => props'[o].counter = (props[o].counter - 1) % 256
            /\ call[t].act = "crow" => props'[o].counter = props[o].counter /\ props'[o].crow
            /\ call[t].read = props[o]
  BY Stored
<1>7. uses[o] \in 0..255 /\ props[o].counter \in 0..255 /\ uses[o] <= MaxUses[o] /\ MaxUses[o] \in 1..255
  <2>1. uses[o] \in 0..255 /\ props[o] \in Props  BY TypesOfOne
  <2>2. props[o].counter \in 0..255  BY <2>1, WordCounter
  <2>3. uses[o] <= MaxUses[o]  BY DEF Counted
  <2>4. MaxUses[o] \in 1..255  BY Constants
  <2> QED  BY <2>1, <2>2, <2>3, <2>4
<1>8. ASSUME o \notin torn'
      PROVE  /\ \A u \in Threads : Switches(u, o)' => Half(u, o)'
             /\ (\A u \in Threads : ~ Switches(u, o)') => Settled(o)'
  <2>1. o \in objects \ torn  BY <1>3, <1>6, <1>8
  <2>2. CASE call[t].act = "crow"
    <3>1. props'[o].counter = props[o].counter  BY <1>6, <1>8, <2>2
    <3>2. ASSUME NEW u \in Threads
          PROVE  /\ Switches(u, o)' <=> Switches(u, o)
                 /\ Switches(u, o) => call'[u] = call[u]
      BY <1>4, <1>5, <2>2 DEF Switches
    <3>3. ASSUME NEW u \in Threads, Switches(u, o)' PROVE Half(u, o)'
      <4>1. Half(u, o) /\ call'[u] = call[u]  BY <2>1, <3>2, <3>3 DEF Counted
      <4> QED  BY <1>1, <3>1, <4>1 DEF Half
    <3>4. ASSUME \A u \in Threads : ~ Switches(u, o)' PROVE Settled(o)'
      <4>1. Settled(o)  BY <2>1, <3>2, <3>4 DEF Counted
      <4> QED  BY <1>1, <3>1, <4>1 DEF Settled
    <3> QED  BY <3>3, <3>4
  <2>3. CASE call[t].act /= "crow"
    <3>1. Switches(t, o)  BY <1>3, <2>3 DEF Switches
    <3>2. Half(t, o)  BY <2>1, <3>1 DEF Counted
    <3>3. ASSUME NEW u \in Threads, u /= t PROVE ~ Switches(u, o)'
      <4>1. ~ Switches(u, o)  BY <3>1, <3>3, OneSwitches
      <4> QED  BY <1>5, <3>3, <4>1 DEF Switches
    <3>4. /\ call[t].act = "activate" => props'[o].counter = uses[o] /\ uses[o] > 0
          /\ call[t].act = "deactivate" => props'[o].counter = uses[o]
      <4>1. CASE call[t].act = "activate"
        <5>1. props[o].counter = uses[o] - 1  BY <1>1, <3>2, <4>1 DEF Half
        <5>2. props'[o].counter = (props[o].counter + 1) % 256  BY <1>6, <1>8, <4>1
        <5>3. props'[o].counter = uses[o]
          <6>1. (uses[o] - 1) + 1 = uses[o] /\ uses[o] % 256 = uses[o]  BY <1>7, Modulo
          <6> QED  BY <5>1, <5>2, <6>1
        <5>4. uses[o] > 0
          <6>1. uses[o] - 1 \in 0..255  BY <1>7, <5>1
          <6> QED  BY <1>7, <6>1, Modulo
        <5> QED  BY <4>1, <5>3, <5>4
      <4>2. CASE call[t].act = "deactivate"
        <5>1. props[o].counter = uses[o] + 1  BY <1>1, <3>2, <4>2 DEF Half
        <5>2. props'[o].counter = (props[o].counter - 1) % 256  BY <1>6, <1>8, <4>2
        <5>3. (uses[o] + 1) - 1 = uses[o] /\ uses[o] % 256 = uses[o]  BY <1>7, Modulo
        <5>4. props'[o].counter = uses[o]  BY <5>1, <5>2, <5>3
        <5> QED  BY <4>2, <5>4
      <4> QED  BY <1>3, <2>3, <4>1, <4>2
    <3>5. Moves(call[t]) <=>
            \/ call[t].act = "activate" /\ props[o].counter = 0
            \/ call[t].act = "deactivate" /\ props'[o].counter = 0
      <4>1. call[t].read = props[o] /\ call[t] \in Call  BY <1>6, <1>8 DEF TypeOK
      <4>2. call[t].act = "deactivate" => Written(call[t]).counter = props'[o].counter
        BY <1>6, <1>8, <4>1, WrittenWord
      <4> QED  BY <4>1, <4>2 DEF Moves
    <3>6. CASE Moves(call[t])
      <4>1. /\ call'[t].act = call[t].act /\ call'[t].object = o /\ call'[t].step = "list"
        BY <1>4, <1>5, <2>3, <3>6
      <4>2. Half(t, o)'
        <5>1. CASE call[t].act = "activate"
          <6>1. o \in sleeping  BY <1>1, <2>1, <3>2, <3>5, <3>6, <5>1 DEF Half, Counted
          <6> QED  BY <1>1, <3>4, <4>1, <5>1, <6>1 DEF Half
        <5>2. CASE call[t].act = "deactivate"
          <6>1. o \in active /\ props'[o].counter = 0  BY <1>1, <3>2, <3>5, <3>6, <5>2 DEF Half
          <6> QED  BY <1>1, <3>4, <4>1, <5>2, <6>1 DEF Half
        <5> QED  BY <1>3, <2>3, <5>1, <5>2
      <4>3. Switches(t, o)'  BY <1>3, <2>3, <4>1 DEF Switches
      <4> QED  BY <3>3, <4>2, <4>3
    <3>7. CASE ~ Moves(call[t])
      <4>1. ~ Switches(t, o)'  BY <1>4, <1>5, <2>3, <3>7 DEF Switches
      <4>2. Settled(o)'
        <5>1. CASE call[t].act = "activate"
          <6>1. o \in active
            <7>1. props[o].counter /= 0  BY <3>5, <3>7, <5>1
            <7>2. props[o].counter > 0  BY <1>7, <7>1, Modulo
            <7> QED  BY <1>1, <3>2, <5>1, <7>2 DEF Half
          <6> QED  BY <1>1, <3>4, <5>1, <6>1 DEF Settled
        <5>2. CASE call[t].act = "deactivate"
          <6>1. o \in active  BY <1>1, <3>2, <5>2 DEF Half
          <6>2. uses[o] > 0
            <7>1. uses[o] /= 0  BY <3>4, <3>5, <3>7, <5>2
            <7> QED  BY <1>7, <7>1, Modulo
          <6> QED  BY <1>1, <3>4, <5>2, <6>1, <6>2 DEF Settled
        <5> QED  BY <1>3, <2>3, <5>1, <5>2
      <4> QED  BY <3>3, <4>1, <4>2
    <3> QED  BY <3>6, <3>7
  <2> QED  BY <2>2, <2>3
<1>9. \A q \in objects' \ (torn' \union {o}) : q \in Objects =>
            /\ \A u \in Threads : Switches(u, q)' => Half(u, q)'
            /\ (\A u \in Threads : ~ Switches(u, q)') => Settled(q)'
  BY <1>1, <1>4, <1>6, CountedOther
<1>10. objects' \subseteq Objects /\ objects' = active' \union sleeping' /\ active' \intersect sleeping' = {}
  BY <1>1 DEF TypeOK, Counted
<1>11. /\ \A q \in Objects : uses'[q] <= MaxUses[q]
       /\ \A q \in Objects \ objects' : props'[q] = Fresh /\ uses'[q] = 0
  BY <1>1, <1>3, <1>6 DEF Counted
<1> QED  BY <1>8, <1>9, <1>10, <1>11, CountedBoth

\* Who goes on with a call that switches nothing.
LEMMA SwitchesNothing ==
  ASSUME TypeOK, NEW t \in Threads, NEW c, Goes(t, c),
         call[t].act \notin {"activate", "deactivate"}, c.act \notin {"activate", "deactivate"}
  PROVE  SameSwitches
  BY GoesOne DEF SameSwitches

LEMMA CountedStep == ASSUME TypeOK, Calls, Counted, [Next]_vars PROVE Counted'
<1> USE Groups
<1>1. ASSUME NEW t \in Threads, NEW o \in Objects, Activate(t, o) PROVE Counted'
  BY <1>1, CountedActivate
<1>2. ASSUME NEW o \in Objects, Deactivate(o) PROVE Counted'
  BY <1>2, CountedDeactivate
<1>3. ASSUME NEW o \in Objects, Notice(o) PROVE Counted'
  <2>1. SameSwitches  BY <1>3, SwitchesNothing, BegunType, IdleType, TwoThreads DEF Notice, Free
  <2> QED  BY <1>3, <2>1, CountedSame DEF Notice
<1>4. ASSUME NEW o \in Objects, Spawn(o) PROVE Counted'
  BY <1>4, CountedSpawn
<1>5. ASSUME NEW o \in Objects, Reject(o) PROVE Counted'
  <2>1. SameSwitches  BY <1>5, SwitchesNothing, BegunType, IdleType, TwoThreads DEF Reject, Free
  <2> QED  BY <1>5, <2>1, CountedSame DEF Reject
<1>6. ASSUME NEW o \in Objects, SetDestroy(o) PROVE Counted'
  <2>1. SameSwitches  BY <1>6 DEF SetDestroy, SameSwitches
  <2> QED  BY <1>6, <2>1, CountedSame DEF SetDestroy
<1>7. ASSUME NEW o \in Objects, NEW p \in Objects, Take(o, p) PROVE Counted'
  <2>1. SameSwitches  BY <1>7, SwitchesNothing, BegunType, IdleType, TwoThreads DEF Take, Free
  <2> QED  BY <1>7, <2>1, CountedSame DEF Take
<1>8. ASSUME NEW t \in Threads, Load(t) PROVE Counted'
  <2> DEFINE c == [call[t] EXCEPT !.step = "store", !.read = props[call[t].object]]
  <2>1. c.step = "store" /\ c.act = call[t].act /\ c.object = call[t].object
    BY Moved DEF TypeOK
  <2>2. Goes(t, c) /\ call[t].step = "load"  BY <1>8 DEF Load
  <2> HIDE DEF c
  <2>3. SameSwitches  BY <2>1, <2>2, GoesOne DEF SameSwitches
  <2> QED  BY <1>8, <2>3, CountedSame DEF Load
<1>9. ASSUME NEW t \in Threads, Store(t) PROVE Counted'
  BY <1>9, Stored, CountedStore
<1>10. ASSUME NEW t \in Threads, List(t) PROVE Counted'
  <2>1. call[t].object \in Objects  BY <1>10 DEF List, Calls, CallOK, TypeOK
  <2> QED  BY <1>10, <2>1, CountedList
<1>11. ASSUME NEW t \in Threads, Check(t) PROVE Counted'
  <2>1. call[t].act = "crow"  BY <1>11 DEF Check, Calls, CallOK
  <2>2. [call[t] EXCEPT !.step = "swap"].act = "crow"  BY <2>1, Moved DEF TypeOK
  <2>3. SameSwitches  BY <1>11, <2>1, <2>2, SwitchesNothing, IdleType DEF Check, At
  <2> QED  BY <1>11, <2>3, CountedSame DEF Check
<1>12. ASSUME NEW t \in Threads, Swap(t) PROVE Counted'
  <2>1. call[t].act = "crow"  BY <1>12 DEF Swap, Calls, CallOK
  <2>2. [call[t] EXCEPT !.step = "load"].act = "crow"  BY <2>1, Moved DEF TypeOK
  <2>3. SameSwitches  BY <1>12, <2>1, <2>2, SwitchesNothing, IdleType DEF Swap, At
  <2> QED  BY <1>12, <2>3, CountedSame DEF Swap
<1>13. ASSUME NEW t \in Threads, Push(t) PROVE Counted'
  <2>1. call[t].act = "crow"  BY <1>13 DEF Push, Calls, CallOK
  <2>2. SameSwitches  BY <1>13, <2>1, SwitchesNothing, IdleType DEF Push
  <2> QED  BY <1>13, <2>2, CountedSame DEF Push
<1>14. ASSUME NEW crowsOnly \in AsCrows, Update(crowsOnly) PROVE Counted'
  <2>1. SameSwitches  BY <1>14 DEF Update, SameSwitches
  <2>2. \A o \in Objects : props'[o].counter = props[o].counter
    BY <1>14 DEF Update, TypeOK, Props
  <2>3. \A o \in Objects \ objects : props'[o] = props[o]
    <3>1. ASSUME NEW o \in Objects \ objects PROVE props'[o] = props[o]
      <4>1. props[o] = Fresh  BY DEF Counted
      <4>2. [Fresh EXCEPT !.crow = FALSE] = Fresh  BY FreshWord
      <4> QED  BY <1>14, <4>1, <4>2 DEF Update
    <3> QED  BY <3>1
  <2> QED  BY <1>14, <2>1, <2>2, <2>3, CountedSame DEF Update
<1>15. ASSUME Destroy PROVE Counted'
  BY <1>15, CountedDestroy
<1>16. CASE SpawnFails
  <2>1. SameSwitches  BY <1>16 DEF SpawnFails, SameSwitches
  <2> QED  BY <1>16, <2>1, CountedSame DEF SpawnFails
<1>17. CASE Paused \/ Updated
  <2>1. SameSwitches  BY <1>17 DEF Paused, Updated, SameSwitches
  <2> QED  BY <1>17, <2>1, CountedSame DEF Paused, Updated
<1>18. CASE GoOn
  <2>1. SameSwitches  BY <1>18 DEF GoOn, SameSwitches
  <2> QED  BY <1>18, <2>1, CountedSame DEF GoOn
<1>19. CASE NextFrame
  <2>1. SameSwitches  BY <1>19 DEF NextFrame, SameSwitches
  <2> QED  BY <1>19, <2>1, CountedSame DEF NextFrame
<1>20. CASE UNCHANGED vars
  <2>1. SameSwitches  BY <1>20 DEF vars, SameSwitches
  <2> QED  BY <1>20, <2>1, CountedSame DEF vars
<1> QED
  BY <1>1, <1>2, <1>3, <1>4, <1>5, <1>6, <1>7, <1>8, <1>9, <1>10, <1>11, <1>12, <1>13,
     <1>14, <1>15, <1>16, <1>17, <1>18, <1>19, <1>20 DEF Next

-----------------------------------------------------------------------------
(* Crows.                                                                  *)

\* An object whose flags, lists and calls that make it a crow stay the same.
LEMMA CrownSame ==
  ASSUME NEW o \in Objects, CrownOK(o), torn \subseteq torn',
         o \in asCrow => o \in asCrow', o \in objects => o \in objects',
         o \in lost => o \in lost',
         \A t \in Threads : crows'[t][o] = crows[t][o],
         o \notin torn' => props'[o].crow = props[o].crow,
         \A t \in Threads :
            /\ Wins(t, o)' => Wins(t, o)
            /\ Pushes(t, o)' <=> Pushes(t, o)
            /\ Swaps(t, o)' => Swaps(t, o)
  PROVE  CrownOK(o)'
<1>1. (o \in Listed)' <=> o \in Listed  BY DEF Listed
<1>2. ASSUME o \notin torn', ListedOnce(o) PROVE ListedOnce(o)'
  BY <1>1, <1>2 DEF ListedOnce
<1>3. o \notin torn' => o \notin torn  OBVIOUS
<1> QED  BY <1>1, <1>2, <1>3 DEF CrownOK

\* A thread begins a call, or ends one that made nothing a crow.
LEMMA CrownsBegin ==
  ASSUME TypeOK, NEW t \in Threads, NEW c, Goes(t, c),
         call[t] = Idle \/ call[t].step \in {"list", "check", "swap"}, c = Idle \/ c.step = "check" \/ c.act /= "crow",
         c.step \notin {"push", "swap"}
  PROVE  \A o \in Objects, u \in Threads :
            /\ Wins(u, o)' => Wins(u, o)
            /\ Pushes(u, o)' <=> Pushes(u, o)
            /\ Swaps(u, o)' => Swaps(u, o)
<1> USE GoesOne, IdleType
<1>1. \A o \in Objects, u \in Threads : Wins(u, o)' => Wins(u, o)  BY DEF Wins
<1>2. \A o \in Objects, u \in Threads : Pushes(u, o)' <=> Pushes(u, o)  BY DEF Pushes
<1>3. \A o \in Objects, u \in Threads : Swaps(u, o)' => Swaps(u, o)  BY DEF Swaps
<1> QED  BY <1>1, <1>2, <1>3

\* A thread goes on with a call on one object: others are not concerned.
LEMMA CrownsOther ==
  ASSUME TypeOK, NEW t \in Threads, NEW o \in Objects, call[t].object = o, NEW c, Goes(t, c),
         c = Idle \/ c.object = o
  PROVE  /\ \A p \in Objects \ {o}, u \in Threads :
               /\ Wins(u, p)' => Wins(u, p)
               /\ Pushes(u, p)' <=> Pushes(u, p)
               /\ Swaps(u, p)' => Swaps(u, p)
         /\ \A u \in Threads \ {t} :
               /\ Wins(u, o)' <=> Wins(u, o)
               /\ Pushes(u, o)' <=> Pushes(u, o)
               /\ Swaps(u, o)' <=> Swaps(u, o)
<1> USE GoesOne, IdleType, Constants
<1>1. \A p \in Objects \ {o}, u \in Threads :
        (Wins(u, p)' => Wins(u, p)) /\ (Swaps(u, p)' => Swaps(u, p))
  BY DEF Wins, Swaps
<1>2. \A p \in Objects \ {o}, u \in Threads : Pushes(u, p)' <=> Pushes(u, p)
  BY DEF Pushes
<1>3. \A u \in Threads \ {t} :
        /\ Wins(u, o)' <=> Wins(u, o)
        /\ Pushes(u, o)' <=> Pushes(u, o)
        /\ Swaps(u, o)' <=> Swaps(u, o)
  BY DEF Wins, Swaps, Pushes
<1> QED  BY <1>1, <1>2, <1>3

\* While the threads are idle nobody makes a crow.
LEMMA NobodyCrowns ==
  ASSUME \A t \in Threads : call[t] = Idle
  PROVE  \A t \in Threads, o \in Objects : ~ Wins(t, o) /\ ~ Pushes(t, o) /\ ~ Swaps(t, o)
  BY IdleType DEF Wins, Pushes, Swaps

LEMMA CrownedCheck ==
  ASSUME TypeOK, Calls, Crowned, NEW t \in Threads, Check(t), NEW o \in Objects, o = call[t].object
  PROVE  Crowned'
<1> USE Groups
<1> DEFINE c == [call[t] EXCEPT !.step = "swap"]
<1>1. /\ call[t].step = "check"
      /\ objects' = objects /\ props' = props /\ torn' = torn
      /\ asCrow' = asCrow /\ crows' = crows /\ lost' = lost
      /\ \/ Goes(t, Idle)
         \/ Goes(t, c) /\ ~ props[o].crow
  BY DEF Check, At
<1>2. c.object = o /\ c.step = "swap"  BY Moved DEF TypeOK
<1> HIDE DEF c
<1>3. CASE Goes(t, Idle)
  BY <1>1, <1>3, CrownsBegin, IdleType, CrownSame DEF Crowned
<1>4. CASE Goes(t, c) /\ ~ props[o].crow
  <2>1. \A p \in Objects \ {o} : CrownOK(p)'
    BY <1>1, <1>2, <1>4, CrownsOther, CrownSame DEF Crowned
  <2>2. \A u \in Threads : (Wins(u, o)' => Wins(u, o)) /\ (Pushes(u, o)' <=> Pushes(u, o))
    <3>1. ~ Wins(t, o)' /\ ~ Pushes(t, o)' /\ ~ Pushes(t, o)
      BY <1>1, <1>2, <1>4, GoesOne DEF Wins, Pushes
    <3> QED  BY <1>2, <1>4, <3>1, CrownsOther
  <2>3. (o \in Listed)' <=> o \in Listed  BY <1>1 DEF Listed
  <2>4. ListedOnce(o) => ListedOnce(o)'
    BY <1>1, <2>2, <2>3 DEF ListedOnce
  <2>5. CrownOK(o)'  BY <1>1, <1>4, <2>2, <2>3, <2>4 DEF CrownOK, Crowned
  <2> QED  BY <2>1, <2>5 DEF Crowned
<1> QED  BY <1>1, <1>3, <1>4

LEMMA CrownedSwap ==
  ASSUME TypeOK, Calls, Crowned, NEW t \in Threads, Swap(t), NEW o \in Objects, o = call[t].object
  PROVE  Crowned'
<1> USE Groups
<1> DEFINE c == [call[t] EXCEPT !.step = "load"]
<1>1. /\ call[t].step = "swap"
      /\ objects' = objects /\ props' = props /\ torn' = torn
      /\ asCrow' = asCrow \union {o} /\ crows' = crows /\ lost' = lost
      /\ \/ Goes(t, Idle)
         \/ Goes(t, c) /\ o \notin asCrow
  BY DEF Swap, At
<1>2. c.object = o /\ c.step = "load"  BY Moved DEF TypeOK
<1> HIDE DEF c
<1>3. CASE Goes(t, Idle)
  BY <1>1, <1>3, CrownsBegin, IdleType, CrownSame DEF Crowned
<1>4. CASE Goes(t, c) /\ o \notin asCrow
  <2>1. \A p \in Objects \ {o} : CrownOK(p)'
    BY <1>1, <1>2, <1>4, CrownsOther, CrownSame DEF Crowned
  <2>2. \A u \in Threads : Wins(u, o)' => u = t
    BY <1>2, <1>4, CrownsOther DEF Crowned, CrownOK
  <2>3. \A u \in Threads : Pushes(u, o)' <=> Pushes(u, o)
    <3>1. ~ Pushes(t, o)' /\ ~ Pushes(t, o)
      BY <1>1, <1>2, <1>4, GoesOne DEF Pushes
    <3> QED  BY <1>2, <1>4, <3>1, CrownsOther
  <2>4. (o \in Listed)' <=> o \in Listed  BY <1>1 DEF Listed
  <2>5. ListedOnce(o) => ListedOnce(o)'
    BY <1>1, <2>3, <2>4 DEF ListedOnce
  <2>6. o \notin torn => o \notin Listed
    <3>1. Swaps(t, o)  BY <1>1 DEF Swaps
    <3> QED  BY <1>4, <3>1 DEF Crowned, CrownOK, ListedOnce
  <2>7. CrownOK(o)'  BY <1>1, <2>2, <2>3, <2>4, <2>5, <2>6 DEF CrownOK, Crowned
  <2> QED  BY <2>1, <2>7 DEF Crowned
<1> QED  BY <1>1, <1>3, <1>4

LEMMA CrownedLoad ==
  ASSUME TypeOK, Calls, Crowned, NEW t \in Threads, Load(t), NEW o \in Objects, o = call[t].object
  PROVE  Crowned'
<1> USE Groups
<1> DEFINE c == [call[t] EXCEPT !.step = "store", !.read = props[call[t].object]]
<1>1. /\ call[t].step = "load" /\ Goes(t, c)
      /\ objects' = objects /\ props' = props /\ torn' = torn
      /\ asCrow' = asCrow /\ crows' = crows /\ lost' = lost
  BY DEF Load
<1>2. c.object = o /\ c.step = "store" /\ c.act = call[t].act  BY Moved DEF TypeOK
<1> HIDE DEF c
<1>3. \A u \in Threads : /\ Wins(u, o)' => Wins(u, o)
                         /\ Pushes(u, o)' <=> Pushes(u, o)
                         /\ Swaps(u, o)' => Swaps(u, o)
  <2>1. /\ Wins(t, o)' => Wins(t, o)
        /\ ~ Pushes(t, o)' /\ ~ Pushes(t, o) /\ ~ Swaps(t, o)'
    BY <1>1, <1>2, GoesOne DEF Wins, Pushes, Swaps
  <2> QED  BY <1>1, <1>2, <2>1, CrownsOther
<1> QED  BY <1>1, <1>2, <1>3, CrownsOther, CrownSame DEF Crowned

LEMMA CrownedStore ==
  ASSUME TypeOK, Calls, Crowned, NEW t \in Threads, Store(t), NEW o \in Objects, o = call[t].object
  PROVE  Crowned'
<1> USE Groups
<1> DEFINE p == [call[t] EXCEPT !.step = "push"]
           l == [call[t] EXCEPT !.step = "list"]
<1>1. /\ call[t].step = "store" /\ objects' = objects
      /\ asCrow' = asCrow /\ crows' = crows /\ lost' = lost
      /\ \/ call[t].act = "crow" /\ Goes(t, p)
         \/ call[t].act /= "crow" /\ (Goes(t, l) \/ Goes(t, Idle))
  BY DEF Store
<1>2. /\ p.step = "push" /\ p.act = call[t].act /\ p.object = o
      /\ l.step = "list" /\ l.act = call[t].act /\ l.object = o
  BY Moved DEF TypeOK
<1> HIDE DEF p, l
<1>3. /\ torn \subseteq torn'
      /\ \A q \in Objects \ {o} : props'[q] = props[q]
      /\ o \notin torn' =>
            /\ call[t].act \in {"activate", "deactivate"} => props'[o].crow = props[o].crow
            /\ call[t].act = "crow" => props'[o].crow
  BY Stored
<1>4. CASE call[t].act = "crow" /\ Goes(t, p)
  <2>1. \A q \in Objects \ {o} : CrownOK(q)'
    BY <1>1, <1>2, <1>3, <1>4, CrownsOther, CrownSame DEF Crowned
  <2>2. Wins(t, o) /\ Pushes(t, o)'
    BY <1>1, <1>2, <1>4, GoesOne DEF Wins, Pushes
  <2>3. \A u \in Threads : Wins(u, o)' => Wins(u, o)
    BY <1>2, <1>4, <2>2, CrownsOther
  <2>4. (o \in Listed)' <=> o \in Listed  BY <1>1 DEF Listed
  <2>5. o \notin torn' => o \notin Listed /\ ListedOnce(o)
    BY <1>3, <2>2 DEF Crowned, CrownOK
  <2>6. o \notin torn' => ListedOnce(o)'
    BY <1>1, <2>2, <2>4, <2>5 DEF ListedOnce
  <2>7. o \in asCrow  BY <2>2 DEF Crowned, CrownOK
  <2>8. CrownOK(o)'
    BY <1>1, <1>3, <1>4, <2>3, <2>4, <2>5, <2>6, <2>7 DEF CrownOK, Crowned
  <2> QED  BY <2>1, <2>8 DEF Crowned
<1>5. CASE call[t].act /= "crow" /\ (Goes(t, l) \/ Goes(t, Idle))
  <2>1. call[t].act \in {"activate", "deactivate"}
    <3>1. call[t].act /= "none"  BY <1>1 DEF Calls, CallOK
    <3>2. call[t].act \in {"none", "activate", "deactivate", "crow"}  BY DEF TypeOK, Call
    <3> QED  BY <1>5, <3>1, <3>2
  <2>2. \A u \in Threads : /\ Wins(u, o)' => Wins(u, o)
                           /\ Pushes(u, o)' <=> Pushes(u, o)
                           /\ Swaps(u, o)' => Swaps(u, o)
    <3>1. ~ Wins(t, o)' /\ ~ Pushes(t, o)' /\ ~ Pushes(t, o) /\ ~ Swaps(t, o)'
      BY <1>1, <1>2, <1>5, GoesOne, IdleType DEF Wins, Pushes, Swaps
    <3> QED  BY <1>2, <1>5, <3>1, CrownsOther
  <2>3. \A q \in Objects \ {o} : CrownOK(q)'
    BY <1>1, <1>2, <1>3, <1>5, CrownsOther, CrownSame DEF Crowned
  <2>4. CrownOK(o)'
    BY <1>1, <1>3, <2>1, <2>2, CrownSame DEF Crowned
  <2> QED  BY <2>3, <2>4 DEF Crowned
<1> QED  BY <1>1, <1>4, <1>5

LEMMA CrownedPush ==
  ASSUME TypeOK, Calls, Crowned, NEW t \in Threads, Push(t), NEW o \in Objects, o = call[t].object
  PROVE  Crowned'
<1> USE Groups
<1>1. /\ call[t].step = "push" /\ Goes(t, Idle)
      /\ objects' = objects /\ props' = props /\ torn' = torn
      /\ asCrow' = asCrow \union {o} /\ lost' = lost
      /\ crows' = [crows EXCEPT ![t][o] = IF @ = 0 THEN 1 ELSE 2]
  BY DEF Push
<1>2. /\ \A q \in Objects \ {o}, u \in Threads : crows'[u][q] = crows[u][q]
      /\ \A u \in Threads \ {t} : crows'[u][o] = crows[u][o]
      /\ crows[t][o] = 0 => crows'[t][o] = 1
      /\ \A u \in Threads : crows[u][o] \in 0..2
  BY <1>1 DEF TypeOK
<1>3. \A q \in Objects \ {o} : CrownOK(q)'
  BY <1>1, <1>2, CrownsOther, CrownSame DEF Crowned
<1>4. Wins(t, o) /\ Pushes(t, o) /\ o \in objects
  BY <1>1 DEF Calls, CallOK, Wins, Pushes
<1>5. \A u \in Threads : ~ Wins(u, o)' /\ ~ Pushes(u, o)'
  <2>1. ~ Wins(t, o)' /\ ~ Pushes(t, o)'  BY <1>1, GoesOne, IdleType DEF Wins, Pushes
  <2>2. ASSUME NEW u \in Threads, u /= t PROVE ~ Wins(u, o) /\ ~ Pushes(u, o)
    <3>1. ~ Wins(u, o)  BY <1>4, <2>2 DEF Crowned, CrownOK
    <3> QED  BY <3>1 DEF Pushes, Wins, Calls, CallOK
  <2> QED  BY <1>1, <2>1, <2>2, CrownsOther
<1>6. ASSUME o \notin torn' PROVE ListedOnce(o)'
  <2>1. o \notin Listed /\ props[o].crow  BY <1>1, <1>4, <1>6 DEF Crowned, CrownOK
  <2>2. \A u \in Threads : crows[u][o] = 0  BY <1>2, <2>1 DEF Listed
  <2>3. crows'[t][o] = 1 /\ \A u \in Threads \ {t} : crows'[u][o] = 0  BY <1>2, <2>2
  <2>4. (o \in Listed)'  BY <2>3 DEF Listed
  <2> QED  BY <1>1, <1>4, <2>1, <2>3, <2>4 DEF ListedOnce
<1>7. CrownOK(o)'  BY <1>1, <1>5, <1>6 DEF CrownOK
<1> QED  BY <1>3, <1>7 DEF Crowned

\* In the turns that the main thread has to itself, or when it waits as well.
LEMMA AllIdle ==
  ASSUME Calls, Free(Main) \/ turn = "destroy", turn /= "render"
  PROVE  \A t \in Threads : call[t] = Idle
  BY TwoThreads DEF Calls, CallOK, Free

LEMMA CrownedUpdate ==
  ASSUME TypeOK, Calls, Crowned, NEW crowsOnly \in AsCrows, Update(crowsOnly)
  PROVE  Crowned'
<1> USE Groups
<1> DEFINE noCrows == Listed \union (IF crowsOnly THEN Listed ELSE active)
<1>1. /\ turn = "events" /\ Free(Main)
      /\ crows' = [t \in Threads |-> None]
      /\ props' = [o \in Objects |->
                     IF o \in noCrows THEN [props[o] EXCEPT !.crow = FALSE] ELSE props[o]]
      /\ lost' = lost \ noCrows
      /\ torn' = torn /\ call' = call /\ objects' = objects
  BY DEF Update
<1>2. \A t \in Threads : call[t] = Idle /\ call'[t] = Idle  BY <1>1, AllIdle
<1>3. \A t \in Threads, o \in Objects : ~ Wins(t, o)' /\ ~ Pushes(t, o)' /\ ~ Swaps(t, o)'
  BY <1>2, IdleType DEF Wins, Pushes, Swaps
<1>4. \A t \in Threads, o \in Objects : crows'[t][o] = 0  BY <1>1 DEF None
<1>5. \A o \in Objects : (o \notin Listed)'  BY <1>4 DEF Listed
<1> SUFFICES ASSUME NEW o \in Objects, o \notin torn' PROVE ListedOnce(o)'
  BY <1>3, <1>5 DEF Crowned, CrownOK
<1> HIDE DEF noCrows
<1>6. CASE o \in noCrows
  <2>1. ~ props'[o].crow  BY <1>1, <1>6 DEF TypeOK, Props
  <2> QED  BY <1>4, <1>5, <2>1 DEF ListedOnce
<1>7. CASE o \notin noCrows
  <2>1. props'[o] = props[o]  BY <1>1, <1>7
  <2>2. o \notin Listed  BY <1>7 DEF noCrows
  <2>3. ListedOnce(o)  BY <1>1 DEF Crowned, CrownOK
  <2>4. \A t \in Threads : ~ Pushes(t, o)  BY <1>2, NobodyCrowns
  <2>5. props[o].crow => o \in lost'  BY <1>1, <1>7, <2>2, <2>3, <2>4 DEF ListedOnce
  <2> QED  BY <1>4, <1>5, <2>1, <2>5 DEF ListedOnce
<1> QED  BY <1>6, <1>7

LEMMA CrownedSpawnFails ==
  ASSUME TypeOK, Calls, Crowned, SpawnFails
  PROVE  Crowned'
<1> USE Groups
<1>1. /\ turn = "events" /\ Free(Main)
      /\ crows' = [crows EXCEPT ![Second] = None] /\ lost' = lost \union Cleared
      /\ torn' = torn /\ call' = call /\ objects' = objects /\ props' = props
  BY DEF SpawnFails
<1>2. \A t \in Threads : call[t] = Idle /\ call'[t] = Idle  BY <1>1, AllIdle
<1>3. \A t \in Threads, o \in Objects :
        ~ Wins(t, o)' /\ ~ Pushes(t, o)' /\ ~ Swaps(t, o)' /\ ~ Pushes(t, o)
  BY <1>2, IdleType DEF Wins, Pushes, Swaps
<1>4. \A o \in Objects : crows'[Second][o] = 0 /\ crows'[Main][o] = crows[Main][o]
  BY <1>1, TwoThreads DEF TypeOK, None
<1> SUFFICES ASSUME NEW o \in Objects, o \notin torn' PROVE ListedOnce(o)'
  BY <1>3 DEF Crowned, CrownOK
<1>5. ListedOnce(o)  BY <1>1 DEF Crowned, CrownOK
<1>6. /\ (o \in Listed)' => o \in Listed
      /\ o \in Listed => (o \in Listed)' \/ o \in lost'
  <2>1. (o \in Listed)' <=> crows'[Main][o] > 0  BY <1>4, TwoThreads DEF Listed
  <2>2. o \in Listed <=> crows[Main][o] > 0 \/ crows[Second][o] > 0  BY TwoThreads DEF Listed
  <2> QED  BY <1>1, <1>4, <2>1, <2>2 DEF Cleared
<1>7. /\ \A t \in Threads : crows'[t][o] <= 1
      /\ \A t, u \in Threads : t /= u => crows'[t][o] = 0 \/ crows'[u][o] = 0
  BY <1>4, <1>5, TwoThreads DEF ListedOnce
<1> QED  BY <1>1, <1>3, <1>5, <1>6, <1>7 DEF ListedOnce

LEMMA CrownedDestroy ==
  ASSUME TypeOK, Calls, Crowned, Destroy
  PROVE  Crowned'
<1> DEFINE d == Last(queue)
<1>1. d \in Objects  BY DEF Destroy, TypeOK, Last
<1>2. /\ turn = "destroy" /\ call' = call /\ torn' = torn /\ objects' = objects \ {d}
      /\ props' = [props EXCEPT ![d] = Fresh] /\ lost' = (lost \union Cleared) \ {d}
      /\ crows' = [crows EXCEPT ![Main][d] = IF @ = 0 THEN 0 ELSE @ - 1, ![Second] = None]
  BY DEF Destroy, Gone
<1> HIDE DEF d
<1>3. \A t \in Threads : call[t] = Idle /\ call'[t] = Idle  BY <1>2, AllIdle
<1>4. \A t \in Threads, o \in Objects :
        ~ Wins(t, o)' /\ ~ Pushes(t, o)' /\ ~ Swaps(t, o)' /\ ~ Pushes(t, o)
  BY <1>3, IdleType DEF Wins, Pushes, Swaps
<1>5. /\ \A o \in Objects : crows'[Second][o] = 0 /\ crows[Main][o] \in 0..2
      /\ \A o \in Objects \ {d} : crows'[Main][o] = crows[Main][o]
      /\ crows'[Main][d] = IF crows[Main][d] = 0 THEN 0 ELSE crows[Main][d] - 1
  BY <1>1, <1>2, TwoThreads DEF TypeOK, None
<1>6. props'[d].crow = FALSE /\ \A o \in Objects \ {d} : props'[o] = props[o]
  BY <1>1, <1>2 DEF TypeOK, Fresh
<1> SUFFICES ASSUME NEW o \in Objects, o \notin torn' PROVE ListedOnce(o)'
  BY <1>4 DEF Crowned, CrownOK
<1>7. ListedOnce(o)  BY <1>2 DEF Crowned, CrownOK
<1>8. (o \in Listed)' <=> crows'[Main][o] > 0  BY <1>5, TwoThreads DEF Listed
<1>9. o \in Listed <=> crows[Main][o] > 0 \/ crows[Second][o] > 0  BY TwoThreads DEF Listed
<1>10. crows[Main][o] <= 1  BY <1>7, TwoThreads DEF ListedOnce
<1>11. CASE o = d
  <2>1. crows'[Main][o] = 0  BY <1>5, <1>10, <1>11
  <2>2. \A t \in Threads : crows'[t][o] = 0  BY <1>5, <2>1, TwoThreads
  <2> QED  BY <1>6, <1>8, <1>11, <2>1, <2>2 DEF ListedOnce
<1>12. CASE o /= d
  <2>1. crows'[Main][o] = crows[Main][o] /\ crows'[Second][o] = 0  BY <1>5, <1>12
  <2>2. o \in Listed => (o \in Listed)' \/ o \in lost'
    BY <1>2, <1>8, <1>9, <1>12, <2>1 DEF Cleared
  <2>3. (o \in Listed)' => o \in Listed  BY <1>8, <1>9, <2>1
  <2>4. \A t \in Threads : crows'[t][o] <= 1  BY <1>10, <2>1, TwoThreads
  <2>5. \A t, u \in Threads : t /= u => crows'[t][o] = 0 \/ crows'[u][o] = 0  BY <2>1, TwoThreads
  <2>6. props'[o] = props[o] /\ (o \in objects => o \in objects') /\ (o \in lost => o \in lost')
    BY <1>2, <1>6, <1>12
  <2> QED  BY <1>4, <1>7, <2>2, <2>3, <2>4, <2>5, <2>6 DEF ListedOnce
<1> QED  BY <1>11, <1>12

LEMMA CrownedStep == ASSUME TypeOK, Calls, Counted, Crowned, [Next]_vars PROVE Crowned'
<1> USE Groups
<1>1. ASSUME NEW t \in Threads, NEW o \in Objects, Activate(t, o) PROVE Crowned'
  BY <1>1, CrownsBegin, BegunType, CrownSame DEF Activate, Free, Crowned
<1>2. ASSUME NEW o \in Objects, Deactivate(o) PROVE Crowned'
  BY <1>2, CrownsBegin, BegunType, TwoThreads, CrownSame DEF Deactivate, Free, Crowned
<1>3. ASSUME NEW o \in Objects, Notice(o) PROVE Crowned'
  BY <1>3, CrownsBegin, BegunType, TwoThreads, CrownSame DEF Notice, Free, Crowned
<1>4. ASSUME NEW o \in Objects, Spawn(o) PROVE Crowned'
  BY <1>4, CrownsBegin, BegunType, TwoThreads, CrownSame DEF Spawn, Free, Crowned
<1>5. ASSUME NEW o \in Objects, Reject(o) PROVE Crowned'
  BY <1>5, CrownsBegin, BegunType, TwoThreads, CrownSame DEF Reject, Free, Crowned
<1>6. ASSUME NEW o \in Objects, NEW p \in Objects, Take(o, p) PROVE Crowned'
  BY <1>6, CrownsBegin, BegunType, TwoThreads, CrownSame DEF Take, Free, Crowned
<1>7. ASSUME NEW t \in Threads, List(t) PROVE Crowned'
  <2>1. call[t].object \in Objects  BY <1>7 DEF List, Calls, CallOK, TypeOK
  <2> QED  BY <1>7, <2>1, CrownsBegin, BegunType, CrownSame DEF List, Crowned
<1>8. ASSUME NEW t \in Threads, call[t].step \in {"load", "store", "check", "swap", "push"}
      PROVE call[t].object \in Objects
  BY <1>8 DEF Calls, CallOK, TypeOK
<1>9. ASSUME NEW t \in Threads, Load(t) PROVE Crowned'
  BY <1>8, <1>9, CrownedLoad DEF Load
<1>10. ASSUME NEW t \in Threads, Store(t) PROVE Crowned'
  BY <1>8, <1>10, CrownedStore DEF Store
<1>11. ASSUME NEW t \in Threads, Check(t) PROVE Crowned'
  BY <1>8, <1>11, CrownedCheck DEF Check
<1>12. ASSUME NEW t \in Threads, Swap(t) PROVE Crowned'
  BY <1>8, <1>12, CrownedSwap DEF Swap
<1>13. ASSUME NEW t \in Threads, Push(t) PROVE Crowned'
  BY <1>8, <1>13, CrownedPush DEF Push
<1>14. ASSUME NEW crowsOnly \in AsCrows, Update(crowsOnly) PROVE Crowned'
  BY <1>14, CrownedUpdate
<1>15. CASE SpawnFails \/ Destroy
  BY <1>15, CrownedSpawnFails, CrownedDestroy
<1>16. ASSUME call' = call
       PROVE  \A t \in Threads, o \in Objects :
                /\ Wins(t, o)' <=> Wins(t, o)
                /\ Pushes(t, o)' <=> Pushes(t, o)
                /\ Swaps(t, o)' <=> Swaps(t, o)
  BY <1>16 DEF Wins, Pushes, Swaps
<1>17. ASSUME NEW o \in Objects, SetDestroy(o) PROVE Crowned'
  BY <1>16, <1>17, CrownSame DEF SetDestroy, Crowned
<1>18. CASE Paused \/ Updated \/ GoOn
  BY <1>16, <1>18, CrownSame DEF Paused, Updated, GoOn, Crowned
<1>19. CASE NextFrame
  <2>1. \A t \in Threads, o \in Objects : ~ Wins(t, o)' /\ ~ Swaps(t, o)' /\ (Pushes(t, o)' <=> Pushes(t, o))
    <3>1. \A t \in Threads : call[t] = Idle  BY <1>19, AllIdle DEF NextFrame
    <3> QED  BY <1>16, <1>19, <3>1, NobodyCrowns DEF NextFrame
  <2>2. \A o \in Objects : (o \in Listed)' <=> o \in Listed  BY <1>19 DEF NextFrame, Listed
  <2>3. \A o \in Objects \ torn' : ListedOnce(o)'
    <3>1. ASSUME NEW o \in Objects \ torn' PROVE ListedOnce(o)'
      <4>1. ListedOnce(o)  BY <1>19 DEF NextFrame, Crowned, CrownOK
      <4> QED  BY <1>19, <2>1, <2>2, <4>1 DEF NextFrame, ListedOnce
    <3> QED  BY <3>1
  <2>4. \A o \in Objects, t \in Threads : ~ Pushes(t, o)'
    <3>1. \A t \in Threads : call[t] = Idle  BY <1>19, AllIdle DEF NextFrame
    <3> QED  BY <2>1, <3>1, NobodyCrowns
  <2> QED  BY <2>1, <2>3, <2>4 DEF Crowned, CrownOK
<1>20. CASE UNCHANGED vars
  BY <1>16, <1>20, CrownSame DEF vars, Crowned
<1> QED
  BY <1>1, <1>2, <1>3, <1>4, <1>5, <1>6, <1>7, <1>9, <1>10, <1>11, <1>12, <1>13,
     <1>14, <1>15, <1>17, <1>18, <1>19, <1>20 DEF Next

-----------------------------------------------------------------------------
(* Parents and the queue of objects to destroy.                            *)

\* An order lists each object once.
LEMMA OrderOnce ==
  ASSUME NEW S \in SUBSET Objects, NEW s \in Orders(S)
  PROVE  /\ s \in Seq(S)
         /\ \A o \in S : \E i \in DOMAIN s : s[i] = o
         /\ \A i, j \in DOMAIN s : s[i] = s[j] => i = j
         /\ \A i, j \in DOMAIN s : parent[s[j]] = s[i] => i < j
<1> DEFINE n == Cardinality(S)
<1>1. IsFiniteSet(S)  BY Constants, FS_Subset
<1>2. n \in Nat  BY <1>1, FS_CardinalityType
<1>3. /\ s \in [1..n -> S]
      /\ \A o \in S : \E i \in DOMAIN s : s[i] = o
      /\ \A i, j \in DOMAIN s : parent[s[j]] = s[i] => i < j
  BY DEF Orders
<1>4. IsFiniteSet(1..n) /\ Cardinality(1..n) = n
  BY <1>2, FS_Interval
<1> HIDE DEF n
<1>5. s \in Surjection(1..n, S)  BY <1>3 DEF Surjection
<1>6. s \in Injection(1..n, S)
  BY <1>4, <1>5, FS_SurjSameCardinalityImpliesInj DEF n
<1>7. \A i, j \in DOMAIN s : s[i] = s[j] => i = j
  BY <1>3, <1>6 DEF Injection, IsInjective
<1>8. s \in Seq(S)  BY <1>2, <1>3
<1> QED  BY <1>3, <1>7, <1>8

LEMMA RootedSame ==
  ASSUME Rooted, ParentsOutlive, UNCHANGED tree, objects' = objects
  PROVE  Rooted' /\ ParentsOutlive'
<1>1. \A o \in Objects : Children(o)' = Children(o)  BY Groups DEF Children
<1>2. Rooted'  BY Groups DEF Rooted
<1>3. ParentsOutlive'  BY Groups DEF ParentsOutlive, Children
<1> QED  BY <1>2, <1>3

LEMMA RootedSpawn ==
  ASSUME TypeOK, Rooted, ParentsOutlive, NEW o \in Objects, Spawn(o)
  PROVE  Rooted' /\ ParentsOutlive'
<1>1. o \notin objects /\ objects' = objects \union {o} /\ parent' = parent /\ queue' = queue
  BY Groups DEF Spawn
<1>2. parent[o] = NoObject /\ NoObject \notin Objects /\ objects \subseteq Objects
  BY <1>1, Constants DEF Rooted, TypeOK
<1>3. \A p \in objects : parent[p] /= o
  BY <1>1, <1>2 DEF ParentsOutlive
<1>4. Rooted'
  <2>1. ASSUME NEW p \in objects', NEW q \in objects', NEW r \in objects',
               parent'[p] = q, parent'[q] = r
        PROVE  parent'[r] = NoObject
    <3>1. p \in objects /\ q \in objects /\ r \in objects  BY <1>1, <1>2, <1>3, <2>1
    <3> QED  BY <1>1, <2>1, <3>1 DEF Rooted
  <2>2. \A p \in Objects \ objects' : parent'[p] = NoObject  BY <1>1 DEF Rooted
  <2>3. \A i \in DOMAIN queue' :
          parent'[queue'[i]] = NoObject \/ \E j \in DOMAIN queue' : queue'[j] = parent'[queue'[i]]
    BY <1>1 DEF Rooted
  <2> QED  BY <2>1, <2>2, <2>3 DEF Rooted
<1>5. ParentsOutlive'
  <2>1. \A p \in objects : Children(p)' = Children(p)  BY <1>1, <1>2 DEF Children
  <2>2. \A p \in objects' : parent'[p] \in objects' \union {NoObject}  BY <1>1, <1>2 DEF ParentsOutlive
  <2> QED  BY <1>1, <2>1, <2>2 DEF ParentsOutlive
<1> QED  BY <1>4, <1>5

LEMMA RootedReject ==
  ASSUME TypeOK, Rooted, ParentsOutlive, NEW o \in Objects, Reject(o)
  PROVE  Rooted' /\ ParentsOutlive'
<1>1. /\ objects' = objects /\ queue' = queue /\ parent' = [parent EXCEPT ![o] = NoObject]
      /\ o \in objects /\ \A i \in DOMAIN queue : queue[i] /= o
  BY Groups DEF Reject, Queued, ToSet
<1>2. /\ parent'[o] = NoObject /\ \A p \in Objects \ {o} : parent'[p] = parent[p]
      /\ NoObject \notin Objects /\ objects \subseteq Objects
      /\ \A i \in DOMAIN queue : queue[i] \in Objects
  BY <1>1, Constants DEF TypeOK
<1>3. Rooted'
  <2>1. ASSUME NEW p \in objects', NEW q \in objects', NEW r \in objects',
               parent'[p] = q, parent'[q] = r
        PROVE  parent'[r] = NoObject
    <3>1. parent[p] = q /\ parent[q] = r  BY <1>1, <1>2, <2>1
    <3>2. parent[r] = NoObject  BY <1>1, <2>1, <3>1 DEF Rooted
    <3> QED  BY <1>1, <1>2, <2>1, <3>2
  <2>2. \A p \in Objects \ objects' : parent'[p] = NoObject  BY <1>1, <1>2 DEF Rooted
  <2>3. \A i \in DOMAIN queue' :
          parent'[queue'[i]] = NoObject \/ \E j \in DOMAIN queue' : queue'[j] = parent'[queue'[i]]
    BY <1>1, <1>2 DEF Rooted
  <2> QED  BY <2>1, <2>2, <2>3 DEF Rooted
<1>4. ParentsOutlive'
  <2>1. \A p \in Objects : Children(p)' \subseteq Children(p)
    BY <1>1, <1>2 DEF Children
  <2>2. \A p \in objects' : parent'[p] \in objects' \union {NoObject}  BY <1>1, <1>2 DEF ParentsOutlive
  <2> QED  BY <1>1, <1>2, <2>1, <2>2 DEF ParentsOutlive
<1> QED  BY <1>3, <1>4

LEMMA RootedTake ==
  ASSUME TypeOK, Rooted, ParentsOutlive, NEW o \in Objects, NEW p \in Objects, Take(o, p)
  PROVE  Rooted' /\ ParentsOutlive'
<1>1. /\ objects' = objects /\ queue' = queue /\ parent' = [parent EXCEPT ![o] = p]
      /\ o \in objects /\ p \in objects /\ o /= p /\ parent[o] = NoObject
      /\ \A i \in DOMAIN queue : queue[i] /= o /\ queue[i] /= p
  BY Groups DEF Take, Queued, ToSet
<1>2. /\ parent'[o] = p /\ \A x \in Objects \ {o} : parent'[x] = parent[x]
      /\ NoObject \notin Objects /\ objects \subseteq Objects
      /\ \A i \in DOMAIN queue : queue[i] \in Objects
  BY <1>1, Constants DEF TypeOK
<1>3. ASSUME NEW x \in objects', NEW y \in objects', NEW z \in objects',
             parent'[x] = y, parent'[y] = z
      PROVE  parent'[z] = NoObject
  <2>1. CASE parent[p] = NoObject /\ \A c \in Children(o) : Children(c) = {}
    <3>1. CASE x = o
      BY <1>1, <1>2, <1>3, <2>1, <3>1
    <3>2. CASE x /= o /\ y = o
      BY <1>1, <1>2, <1>3, <2>1, <3>2
    <3>3. CASE x /= o /\ y /= o
      <4>1. parent[x] = y /\ parent[y] = z  BY <1>1, <1>2, <1>3, <3>3
      <4>2. z /= o
        <5>1. z = o => y \in Children(o) /\ x \in Children(y)  BY <1>1, <1>3, <4>1 DEF Children
        <5> QED  BY <2>1, <5>1
      <4>3. parent[z] = NoObject  BY <1>1, <1>3, <4>1 DEF Rooted
      <4> QED  BY <1>1, <1>2, <1>3, <4>2, <4>3
    <3> QED  BY <3>1, <3>2, <3>3
  <2>2. CASE parent[p] /= NoObject /\ parent[parent[p]] = NoObject /\ Children(o) = {}
    <3>1. \A c \in objects : parent[c] /= o  BY <2>2 DEF Children
    <3>2. CASE x = o
      <4>1. y = p /\ z = parent[p]  BY <1>1, <1>2, <1>3, <3>2
      <4>2. z /= o  BY <1>1, <3>1, <4>1
      <4> QED  BY <1>1, <1>2, <1>3, <2>2, <4>1, <4>2
    <3>3. CASE x /= o
      <4>1. parent[x] = y /\ y /= o  BY <1>1, <1>2, <1>3, <3>1, <3>3
      <4>2. parent[y] = z /\ z /= o  BY <1>1, <1>2, <1>3, <3>1, <4>1
      <4>3. parent[z] = NoObject  BY <1>1, <1>3, <4>1, <4>2 DEF Rooted
      <4> QED  BY <1>1, <1>2, <1>3, <4>2, <4>3
    <3> QED  BY <3>2, <3>3
  <2> QED  BY <2>1, <2>2 DEF Take
<1>4. Rooted'
  <2>1. \A x \in Objects \ objects' : parent'[x] = NoObject  BY <1>1, <1>2 DEF Rooted
  <2>2. \A i \in DOMAIN queue' :
          parent'[queue'[i]] = NoObject \/ \E j \in DOMAIN queue' : queue'[j] = parent'[queue'[i]]
    BY <1>1, <1>2 DEF Rooted
  <2> QED  BY <1>3, <2>1, <2>2 DEF Rooted
<1>5. ParentsOutlive'
  <2>1. \A i \in DOMAIN queue : Children(queue[i])' \subseteq Children(queue[i])
    BY <1>1, <1>2 DEF Children
  <2>2. \A x \in objects' : parent'[x] \in objects' \union {NoObject}  BY <1>1, <1>2 DEF ParentsOutlive
  <2> QED  BY <1>1, <2>1, <2>2 DEF ParentsOutlive
<1> QED  BY <1>4, <1>5

LEMMA RootedSetDestroy ==
  ASSUME TypeOK, Rooted, ParentsOutlive, NEW o \in Objects, SetDestroy(o)
  PROVE  Rooted' /\ ParentsOutlive'
<1> DEFINE S == Inside(o) \union {o}
<1>1. /\ objects' = objects /\ parent' = parent /\ o \in objects /\ parent[o] = NoObject
      /\ \A i \in DOMAIN queue : queue[i] /= o
  BY Groups DEF SetDestroy, Queued, ToSet
<1>2. NoObject \notin Objects /\ objects \subseteq Objects /\ queue \in Seq(Objects)
  BY Constants DEF TypeOK
<1>3. S \subseteq objects  BY <1>1 DEF Inside, Children
<1>4. PICK s \in Orders(S) : queue' = queue \o s  BY DEF SetDestroy
<1>5. /\ s \in Seq(S)
      /\ \A x \in S : \E i \in DOMAIN s : s[i] = x
      /\ \A i, j \in DOMAIN s : s[i] = s[j] => i = j
      /\ \A i, j \in DOMAIN s : parent[s[j]] = s[i] => i < j
  BY <1>2, <1>3, OrderOnce
<1>6. ASSUME NEW x \in S, NEW i \in DOMAIN queue PROVE queue[i] /= x
  <2>1. ASSUME NEW c \in objects, NEW q \in objects, parent[c] = q,
               \A j \in DOMAIN queue : queue[j] /= q, NEW j \in DOMAIN queue
        PROVE  queue[j] /= c
    BY <1>2, <2>1 DEF Rooted
  <2>2. \A c \in Children(o), j \in DOMAIN queue : queue[j] /= c
    BY <1>1, <2>1 DEF Children
  <2>3. \A c \in Children(o) : \A d \in Children(c), j \in DOMAIN queue : queue[j] /= d
    <3>1. ASSUME NEW c \in Children(o), NEW d \in Children(c), NEW j \in DOMAIN queue
          PROVE  queue[j] /= d
      <4>1. c \in objects /\ d \in objects /\ parent[d] = c  BY DEF Children
      <4> QED  BY <2>1, <2>2, <4>1
    <3> QED  BY <3>1
  <2> QED  BY <1>1, <2>2, <2>3 DEF Inside
<1>7. ASSUME NEW x \in S, NEW c \in Children(x) PROVE c \in S
  <2>1. CASE x = o
    BY <2>1 DEF Inside
  <2>2. CASE x \in Children(o)
    BY <2>2 DEF Inside
  <2>3. ASSUME NEW b \in Children(o), x \in Children(b) PROVE FALSE
    <3>1. parent[c] = x /\ parent[x] = b /\ parent[b] = o /\ c \in objects /\ x \in objects /\ b \in objects
      BY <2>3 DEF Children
    <3>2. parent[b] = NoObject  BY <3>1 DEF Rooted
    <3> QED  BY <1>2, <3>1, <3>2
  <2> QED  BY <2>1, <2>2, <2>3 DEF Inside
<1>8. ASSUME NEW x \in S PROVE parent[x] \in S \union {NoObject}
  <2>1. CASE x = o
    BY <1>1, <2>1
  <2>2. CASE x \in Children(o)
    BY <2>2 DEF Children
  <2>3. ASSUME NEW b \in Children(o), x \in Children(b) PROVE parent[x] \in S
    BY <2>3 DEF Children, Inside
  <2> QED  BY <2>1, <2>2, <2>3 DEF Inside
<1> HIDE DEF S
<1> DEFINE n == Len(queue)
<1>9. /\ n \in Nat /\ Len(s) \in Nat /\ queue' \in Seq(Objects) /\ Len(queue') = n + Len(s)
      /\ \A i \in DOMAIN queue : i \in DOMAIN queue' /\ queue'[i] = queue[i] /\ i \in 1..n
      /\ \A i \in DOMAIN s : i \in Nat /\ n + i \in DOMAIN queue' /\ queue'[n + i] = s[i]
      /\ \A i \in DOMAIN queue' :
            \/ i \in DOMAIN queue
            \/ i > n /\ i - n \in DOMAIN s
  <2>1. s \in Seq(Objects)  BY <1>2, <1>3, <1>5
  <2>2. /\ n \in Nat /\ Len(s) \in Nat /\ DOMAIN queue = 1..n /\ DOMAIN s = 1..Len(s)
        /\ queue' \in Seq(Objects) /\ Len(queue') = n + Len(s) /\ DOMAIN queue' = 1..(n + Len(s))
        /\ \A i \in 1..(n + Len(s)) : queue'[i] = IF i <= n THEN queue[i] ELSE s[i - n]
    BY <1>2, <1>4, <2>1
  <2> QED  BY <2>2
<1> HIDE DEF n
<1>10. \A i \in DOMAIN queue' :
         \/ i \in DOMAIN queue /\ queue'[i] = queue[i]
         \/ i - n \in DOMAIN s /\ queue'[i] = s[i - n] /\ i = n + (i - n) /\ i > n
  <2>1. ASSUME NEW i \in DOMAIN queue', i \notin DOMAIN queue
        PROVE  i - n \in DOMAIN s /\ queue'[i] = s[i - n] /\ i = n + (i - n) /\ i > n
    <3>1. i > n /\ i - n \in DOMAIN s /\ i \in Nat  BY <1>9, <2>1
    <3>2. n + (i - n) = i  BY <1>9, <3>1
    <3>3. queue'[n + (i - n)] = s[i - n]  BY <1>9, <3>1
    <3> QED  BY <3>1, <3>2, <3>3
  <2> QED  BY <1>9, <2>1
<1>11. \A i \in DOMAIN s : s[i] \in S  BY <1>5
<1>12. Rooted'
  <2>1. ASSUME NEW i \in DOMAIN queue'
        PROVE  parent'[queue'[i]] = NoObject \/ \E j \in DOMAIN queue' : queue'[j] = parent'[queue'[i]]
    <3>1. CASE i \in DOMAIN queue /\ queue'[i] = queue[i]
      BY <1>1, <1>9, <3>1 DEF Rooted
    <3>2. CASE i - n \in DOMAIN s /\ queue'[i] = s[i - n]
      <4>1. parent[s[i - n]] \in S \union {NoObject}  BY <1>8, <1>11, <3>2
      <4>2. CASE parent[s[i - n]] = NoObject  BY <1>1, <3>2, <4>2
      <4>3. CASE parent[s[i - n]] \in S
        <5>1. PICK j \in DOMAIN s : s[j] = parent[s[i - n]]  BY <1>5, <4>3
        <5>2. n + j \in DOMAIN queue' /\ queue'[n + j] = s[j]  BY <1>9, <5>1
        <5>3. parent'[queue'[i]] = queue'[n + j]  BY <1>1, <3>2, <5>1, <5>2
        <5> QED  BY <5>2, <5>3
      <4> QED  BY <4>1, <4>2, <4>3
    <3> QED  BY <1>10, <3>1, <3>2
  <2> QED  BY <1>1, <2>1 DEF Rooted
<1>13. ParentsOutlive'
  <2>1. ASSUME NEW i \in DOMAIN queue', NEW j \in DOMAIN queue', queue'[i] = queue'[j]
        PROVE  i = j
    <3>1. CASE i \in DOMAIN queue /\ j \in DOMAIN queue
      BY <1>9, <2>1, <3>1 DEF ParentsOutlive
    <3>2. CASE i \notin DOMAIN queue /\ j \notin DOMAIN queue
      <4>1. i - n \in DOMAIN s /\ j - n \in DOMAIN s /\ s[i - n] = s[j - n]
        BY <1>10, <2>1, <3>2
      <4>2. i - n = j - n /\ i = n + (i - n) /\ j = n + (j - n)  BY <1>5, <1>10, <3>2, <4>1
      <4> QED  BY <4>2
    <3>3. CASE i \in DOMAIN queue /\ j \notin DOMAIN queue
      BY <1>6, <1>9, <1>10, <1>11, <2>1, <3>3
    <3>4. CASE i \notin DOMAIN queue /\ j \in DOMAIN queue
      BY <1>6, <1>9, <1>10, <1>11, <2>1, <3>4
    <3> QED  BY <3>1, <3>2, <3>3, <3>4
  <2>2. ASSUME NEW i \in DOMAIN queue'
        PROVE  /\ queue'[i] \in objects'
               /\ \A c \in objects' : parent'[c] = queue'[i] =>
                     \E j \in DOMAIN queue' : queue'[j] = c /\ i < j
    <3>1. CASE i \in DOMAIN queue /\ queue'[i] = queue[i]
      BY <1>1, <1>9, <3>1 DEF ParentsOutlive, Children
    <3>2. CASE i - n \in DOMAIN s /\ queue'[i] = s[i - n] /\ i = n + (i - n)
      <4>1. s[i - n] \in S /\ s[i - n] \in objects  BY <1>3, <1>11, <3>2
      <4>2. ASSUME NEW c \in Children(s[i - n]) PROVE \E j \in DOMAIN queue' : queue'[j] = c /\ i < j
        <5>1. c \in S /\ parent[c] = s[i - n]  BY <1>7, <4>1 DEF Children
        <5>2. PICK k \in DOMAIN s : s[k] = c  BY <1>5, <5>1
        <5>3. i - n < k  BY <1>5, <3>2, <5>1, <5>2
        <5>4. n + k \in DOMAIN queue' /\ queue'[n + k] = c /\ k \in Nat  BY <1>9, <5>2
        <5>5. i < n + k
          <6>1. i \in Int /\ n \in Nat /\ k \in Nat  BY <1>9, <5>4
          <6> QED  BY <5>3, <6>1
        <5> QED  BY <5>4, <5>5
      <4> QED  BY <1>1, <3>2, <4>1, <4>2 DEF Children
    <3> QED  BY <1>10, <3>1, <3>2
  <2>3. \A x \in objects' : parent'[x] \in objects' \union {NoObject}  BY <1>1 DEF ParentsOutlive
  <2> QED  BY <2>1, <2>2, <2>3 DEF ParentsOutlive, Children
<1> QED  BY <1>12, <1>13

LEMMA RootedDestroy ==
  ASSUME TypeOK, Rooted, ParentsOutlive, Destroy
  PROVE  Rooted' /\ ParentsOutlive'
<1> DEFINE n == Len(queue)
           d == queue[n]
<1>1. /\ queue \in Seq(Objects) /\ n \in Nat /\ n > 0 /\ DOMAIN queue = 1..n /\ d \in Objects
      /\ objects \subseteq Objects
  BY DEF Destroy, TypeOK
<1>2. /\ objects' = objects \ {d} /\ parent' = [parent EXCEPT ![d] = NoObject]
      /\ DOMAIN queue' = 1..(n - 1) /\ \A i \in 1..(n - 1) : queue'[i] = queue[i]
  <2>1. queue' = SubSeq(queue, 1, n - 1)  BY DEF Destroy, Front
  <2>2. DOMAIN queue' = 1..(n - 1) /\ \A i \in 1..(n - 1) : queue'[i] = queue[i]
    BY <1>1, <2>1, SubSeqProperties
  <2>3. objects' = objects \ {d} /\ parent' = [parent EXCEPT ![d] = NoObject]
    BY DEF Destroy, Gone, Last
  <2> QED  BY <2>2, <2>3
<1>3. parent'[d] = NoObject /\ \A x \in Objects \ {d} : parent'[x] = parent[x]
  BY <1>1, <1>2 DEF TypeOK
<1>4. \A c \in objects : parent[c] /= d
  <2>1. \A c \in Children(d) : \E j \in DOMAIN queue : n < j
    BY <1>1 DEF ParentsOutlive
  <2>2. ~ \E j \in DOMAIN queue : n < j  BY <1>1
  <2> QED  BY <2>1, <2>2 DEF Children
<1>5. \A i \in 1..(n - 1) : queue[i] /= d
  BY <1>1 DEF ParentsOutlive
<1>6. NoObject \notin Objects  BY Constants
<1> HIDE DEF d, n
<1>7. \A i \in DOMAIN queue : i \in 1..(n - 1) \/ queue[i] = d
  BY <1>1 DEF d
<1>8. Rooted'
  <2>1. ASSUME NEW x \in objects', NEW y \in objects', NEW z \in objects',
               parent'[x] = y, parent'[y] = z
        PROVE  parent'[z] = NoObject
    <3>1. /\ x \in objects /\ y \in objects /\ z \in objects
          /\ parent[x] = y /\ parent[y] = z /\ parent'[z] = parent[z]
      BY <1>1, <1>2, <1>3, <2>1
    <3> QED  BY <3>1 DEF Rooted
  <2>2. \A x \in Objects \ objects' : parent'[x] = NoObject  BY <1>1, <1>2, <1>3 DEF Rooted
  <2>3. ASSUME NEW i \in DOMAIN queue'
        PROVE  parent'[queue'[i]] = NoObject \/ \E j \in DOMAIN queue' : queue'[j] = parent'[queue'[i]]
    <3>1. i \in DOMAIN queue /\ queue'[i] = queue[i] /\ queue[i] /= d /\ queue[i] \in objects
      BY <1>1, <1>2, <1>5 DEF ParentsOutlive
    <3>2. parent'[queue'[i]] = parent[queue[i]]  BY <1>1, <1>3, <3>1
    <3>3. CASE parent[queue[i]] = NoObject
      BY <3>2, <3>3
    <3>4. ASSUME NEW j \in DOMAIN queue, queue[j] = parent[queue[i]]
          PROVE  j \in DOMAIN queue' /\ queue'[j] = parent[queue[i]]
      BY <1>2, <1>4, <1>7, <3>1, <3>4
    <3> QED  BY <3>1, <3>2, <3>3, <3>4 DEF Rooted
  <2> QED  BY <2>1, <2>2, <2>3 DEF Rooted
<1>9. ParentsOutlive'
  <2>1. \A x \in objects' : parent'[x] \in objects' \union {NoObject}
    BY <1>1, <1>2, <1>3, <1>4 DEF ParentsOutlive
  <2>2. \A i, j \in DOMAIN queue' : queue'[i] = queue'[j] => i = j
    <3>1. \A i \in DOMAIN queue' : i \in DOMAIN queue /\ queue'[i] = queue[i]  BY <1>1, <1>2
    <3> QED  BY <3>1 DEF ParentsOutlive
  <2>3. ASSUME NEW i \in DOMAIN queue'
        PROVE  /\ queue'[i] \in objects'
               /\ \A c \in objects' : parent'[c] = queue'[i] =>
                     \E j \in DOMAIN queue' : queue'[j] = c /\ i < j
    <3>1. i \in DOMAIN queue /\ queue'[i] = queue[i] /\ queue[i] /= d /\ queue[i] \in objects
      BY <1>1, <1>2, <1>5 DEF ParentsOutlive
    <3>2. ASSUME NEW c \in objects', parent'[c] = queue'[i]
          PROVE  \E j \in DOMAIN queue' : queue'[j] = c /\ i < j
      <4>1. c \in objects /\ c /= d /\ parent[c] = queue[i]  BY <1>1, <1>2, <1>3, <3>1, <3>2
      <4>2. c \in Children(queue[i])  BY <4>1 DEF Children
      <4>3. PICK j \in DOMAIN queue : queue[j] = c /\ i < j  BY <3>1, <4>2 DEF ParentsOutlive
      <4>4. j \in DOMAIN queue' /\ queue'[j] = c  BY <1>2, <1>7, <4>1, <4>3
      <4> QED  BY <4>3, <4>4
    <3> QED  BY <1>2, <3>1, <3>2
  <2> QED  BY <2>1, <2>2, <2>3 DEF ParentsOutlive, Children
<1> QED  BY <1>8, <1>9

LEMMA RootedStep ==
  ASSUME TypeOK, Rooted, ParentsOutlive, [Next]_vars
  PROVE  Rooted' /\ ParentsOutlive'
<1> USE Groups
<1>1. ASSUME NEW o \in Objects, NEW t \in Threads, Activate(t, o) PROVE Rooted' /\ ParentsOutlive'
  BY <1>1, RootedSame DEF Activate
<1>2. ASSUME NEW o \in Objects, Deactivate(o) \/ Notice(o) PROVE Rooted' /\ ParentsOutlive'
  BY <1>2, RootedSame DEF Deactivate, Notice
<1>3. ASSUME NEW t \in Threads, Load(t) \/ Store(t) \/ List(t) PROVE Rooted' /\ ParentsOutlive'
  BY <1>3, RootedSame DEF Load, Store, List
<1>4. ASSUME NEW t \in Threads, Check(t) \/ Swap(t) \/ Push(t) PROVE Rooted' /\ ParentsOutlive'
  BY <1>4, RootedSame DEF Check, Swap, Push
<1>5. ASSUME NEW crowsOnly \in AsCrows, Update(crowsOnly) PROVE Rooted' /\ ParentsOutlive'
  BY <1>5, RootedSame DEF Update
<1>6. CASE SpawnFails \/ Paused \/ Updated
  BY <1>6, RootedSame DEF SpawnFails, Paused, Updated
<1>7. CASE GoOn \/ NextFrame
  BY <1>7, RootedSame DEF GoOn, NextFrame
<1>8. CASE UNCHANGED vars
  BY <1>8, RootedSame DEF vars
<1> QED
  BY <1>1, <1>2, <1>3, <1>4, <1>5, <1>6, <1>7, <1>8, RootedSpawn, RootedReject, RootedTake,
     RootedSetDestroy, RootedDestroy DEF Next

-----------------------------------------------------------------------------
(* The theorems.                                                           *)

LEMMA InitIInv == Init => IInv
<1> SUFFICES ASSUME Init PROVE IInv
  OBVIOUS
<1>1. \A t \in Threads : call[t] = Idle  BY DEF Init
<1>2. TypeOK
  <2>1. \A o \in Objects : Fresh \in Props  BY DEF Fresh, Props, Width
  <2>2. None \in [Objects -> 0..2] /\ None \in [Objects -> 0..255]  BY DEF None
  <2>3. call \in [Threads -> Call]  BY IdleType DEF Init
  <2> QED  BY <2>1, <2>2, <2>3 DEF Init, TypeOK, Alone
<1>3. Calls  BY <1>1, IdleOK, TwoThreads DEF Calls, Init
<1>4. Counted
  <2>1. ASSUME NEW o \in Objects PROVE uses[o] = 0 /\ uses[o] <= MaxUses[o]
    <3>1. uses[o] = 0  BY DEF Init, None
    <3>2. MaxUses[o] \in 1..255  BY Constants
    <3> QED  BY <3>1, <3>2
  <2> QED  BY <2>1 DEF Init, Counted
<1>5. Crowned
  <2>1. \A o \in Objects : o \notin Listed /\ ~ props[o].crow  BY DEF Init, Listed, None, Fresh
  <2>2. \A o \in Objects, t \in Threads : crows[t][o] = 0  BY DEF Init, None
  <2>3. \A o \in Objects : ListedOnce(o)  BY <2>1, <2>2 DEF ListedOnce
  <2> QED  BY <1>1, <2>3, NobodyCrowns DEF Crowned, CrownOK
<1>6. Rooted /\ ParentsOutlive  BY DEF Init, Rooted, ParentsOutlive
<1> QED  BY <1>2, <1>3, <1>4, <1>5, <1>6 DEF IInv

LEMMA NextIInv == IInv /\ [Next]_vars => IInv'
  BY TypeStep, CallsStep, CountedStep, CrownedStep, RootedStep DEF IInv

\* The lists, words and calls of all objects keep their types, whatever the
\* number of objects, and no counter leaves its eight bits.
THEOREM TypeCorrect == Spec => []TypeOK
<1>1. IInv => TypeOK  BY DEF IInv
<1> QED  BY <1>1, InitIInv, NextIInv, PTL DEF Spec

\* What LossBounded says of objects that lost no write: one is among the active
\* exactly while somebody has activated it, and o_activate and o_sleep find it in
\* the list that it leaves.
Sorted ==
    /\ objects = active \union sleeping /\ active \intersect sleeping = {}
    /\ \A o \in objects \ torn :
          /\ \A t \in Threads : call[t].step = "list" /\ call[t].object = o =>
                o \in IF call[t].act = "activate" THEN sleeping ELSE active
          /\ (\A t \in Threads : ~ Switches(t, o)) =>
                /\ props[o].counter = uses[o]
                /\ o \in active <=> uses[o] > 0

\* For any number of objects and activations, an object is in the list that its
\* counter asks for, and the counter is exact, unless one of the two threads has
\* overwritten what the other wrote.
THEOREM ListsAreSorted == Spec => []Sorted
<1>1. IInv => Sorted
  <2> SUFFICES ASSUME IInv PROVE Sorted
    OBVIOUS
  <2>1. ASSUME NEW o \in objects \ torn, NEW t \in Threads, call[t].step = "list", call[t].object = o
        PROVE  o \in IF call[t].act = "activate" THEN sleeping ELSE active
    <3>1. call[t].act \in {"activate", "deactivate"}
      <4>1. call[t].act \notin {"none", "crow"}  BY <2>1 DEF IInv, Calls, CallOK
      <4>2. call[t].act \in {"none", "activate", "deactivate", "crow"}  BY DEF IInv, TypeOK, Call
      <4> QED  BY <4>1, <4>2
    <3>2. Half(t, o)  BY <2>1, <3>1 DEF IInv, Counted, Switches
    <3> QED  BY <2>1, <3>1, <3>2 DEF Half
  <2>2. ASSUME NEW o \in objects \ torn, \A t \in Threads : ~ Switches(t, o)
        PROVE  props[o].counter = uses[o] /\ (o \in active <=> uses[o] > 0)
    BY <2>2 DEF IInv, Counted, Settled
  <2> QED  BY <2>1, <2>2 DEF IInv, Counted, Sorted
<1> QED  BY <1>1, InitIInv, NextIInv, PTL DEF Spec

\* Both threads make crows at once, and an object is in one list, once, as long
\* as it says that it is one, but for lost writes and the list that Destroy
\* clears.
THEOREM CrowsAreListed == Spec => []CrowListed
<1>1. IInv => CrowListed  BY DEF IInv, Crowned, CrownOK, CrowListed
<1> QED  BY <1>1, InitIInv, NextIInv, PTL DEF Spec

\* What is in an object is destroyed before it, for any number of objects.
THEOREM ParentsAreLast == Spec => []ParentsOutlive
<1>1. IInv => ParentsOutlive  BY DEF IInv
<1> QED  BY <1>1, InitIInv, NextIInv, PTL DEF Spec
=============================================================================
