-------------------------- MODULE DeviceFramesProofs -------------------------
(***************************************************************************)
(* The threads of a frame, for every set of tasks and any number of        *)
(* frames: objects are updated while nothing else runs, and the tasks and  *)
(* the handlers of a frame are executed once before the next one.          *)
(***************************************************************************)
EXTENDS DeviceFrames, SequenceTheorems, TLAPS

-----------------------------------------------------------------------------
\* The inductive invariant.

Busy == {"tasks", "frameMT", "done"}

\* Who is where in its cycle owns which section.
Locks ==
    /\ enter = Main <=> pc[Main] \notin {"render", "join", "stopped"}
    /\ enter = Second <=> pc[Second] \in Busy \union {"check", "exit"}
    /\ leave = Main <=> pc[Main] \in {"release", "render", "unlock"}
    /\ leave = Second <=> pc[Second] = "pass"

\* The second thread works in a frame that is rendered, and once: afterwards
\* it waits at the barrier until the main thread has taken mt_csEnter back.
Turn ==
    /\ marker <= frame
    /\ pc[Main] \in {"move", "release"} => marker < frame
    /\ pc[Second] \in Busy => marker = frame /\ pc[Main] = "render"
    /\ (pc[Main] \in {"render", "unlock"} /\ marker = frame) =>
           pc[Second] \in Busy \union {"barrier"}

\* mt_bMustExit is read by nobody but the second thread at the end.
Ending ==
    /\ mustExit => pc[Main] \in {"quit", "join"}
    /\ pc[Main] = "quit" => mustExit
    /\ pc[Main] = "join" => mustExit \/ pc[Second] \in {"exit", "stopped"}
    /\ pc[Main] = "stopped" => pc[Second] \in {"exit", "stopped"}
    /\ pc[Second] \in {"exit", "stopped"} => pc[Main] \in {"join", "stopped"}

\* mt_Thread_marker tells the main thread whether the handlers were called.
ServedByMarker ==
    /\ pc[Main] \in {"render", "unlock", "ensure"} =>
           served = IF marker = frame /\ pc[Second] \notin {"tasks", "frameMT"}
                    THEN 1 ELSE 0
    /\ pc[Main] \in {"tasks", "frameMT"} => served = 0
    /\ pc[Main] = "end" => served = 1

Control == Locks /\ Turn /\ Ending /\ ServedByMarker

\* ... and so whether the tasks were executed; they are, before a frame begins.
Emptied ==
    /\ (pc[Main] \in {"render", "unlock", "ensure"} /\ marker = frame
            /\ pc[Second] /= "tasks") => parallel = <<>>
    /\ pc[Main] \in {"frameMT", "end", "messages", "quit", "join", "stopped"} =>
           parallel = <<>>

\* A loop over seqParallel starts at its beginning and never leaves it.
Loops ==
    \A t \in Threads :
        /\ pit[t] <= Len(parallel)
        /\ pc[t] /= "tasks" => pit[t] = 0

\* What is in seqParallel while objects are updated was asked for in this frame.
OfThisFrame ==
    pc[Main] = "move" => \A i \in 1..Len(parallel) : parallel[i] \in asked

Data == Emptied /\ Loops /\ OfThisFrame /\ QueuedOnce

IInv == TypeOK /\ Control /\ Data

-----------------------------------------------------------------------------
\* The control part does not depend on what the tasks are.
LEMMA InitControl == Init => Control
  BY FramesAssumption DEF Init, Control, Locks, Turn, Ending, ServedByMarker, Busy,
     Threads, Main, Second, Nobody

\* The steps of the main thread.
LEMMA MainControl ==
    ASSUME TypeOK, Control, Quit \/ MainSteps
    PROVE  Control'
<1> USE DEF Goes, TypeOK, Control, Threads, Main, Second, Nobody
<1>1. CASE Move
  BY <1>1 DEF Move, Locks, Turn, Ending, ServedByMarker, Busy
<1>2. CASE Capture
  BY <1>2 DEF Capture, Locks, Turn, Ending, ServedByMarker, Busy
<1>3. CASE Release
  BY <1>3 DEF Release, Locks, Turn, Ending, ServedByMarker, Busy
<1>4. CASE Suspend
  BY <1>4 DEF Suspend, Locks, Turn, Ending, ServedByMarker, Busy
<1>5. CASE Unlock
  BY <1>5 DEF Unlock, Locks, Turn, Ending, ServedByMarker, Busy
<1>6. CASE Ensure
  BY <1>6 DEF Ensure, Locks, Turn, Ending, ServedByMarker, Busy
<1>7. CASE End
  BY <1>7 DEF End, Locks, Turn, Ending, ServedByMarker, Busy
<1>8. CASE Execute(Main)
  BY <1>8 DEF Execute, Locks, Turn, Ending, ServedByMarker, Busy
<1>9. CASE Clear(Main)
  BY <1>9 DEF Clear, Locks, Turn, Ending, ServedByMarker, Busy
<1>10. CASE Serve(Main)
  BY <1>10 DEF Serve, Locks, Turn, Ending, ServedByMarker, Busy
<1>11. CASE Quit
  BY <1>11 DEF Quit, Locks, Turn, Ending, ServedByMarker, Busy
<1>12. CASE Stop
  BY <1>12 DEF Stop, Locks, Turn, Ending, ServedByMarker, Busy
<1>13. CASE Join
  BY <1>13 DEF Join, Locks, Turn, Ending, ServedByMarker, Busy
<1> QED BY <1>1, <1>2, <1>3, <1>4, <1>5, <1>6, <1>7, <1>8, <1>9, <1>10, <1>11,
           <1>12, <1>13 DEF MainSteps, Work

\* The steps of the second thread.
LEMMA SecondControl ==
    ASSUME TypeOK, Control, SecondSteps
    PROVE  Control'
<1> USE DEF Goes, TypeOK, Control, Threads, Main, Second, Nobody
<1>1. CASE Wait
  BY <1>1 DEF Wait, Locks, Turn, Ending, ServedByMarker, Busy
<1>2. CASE Permitted
  BY <1>2 DEF Permitted, Locks, Turn, Ending, ServedByMarker, Busy
<1>3. CASE MustExit
  BY <1>3 DEF MustExit, Locks, Turn, Ending, ServedByMarker, Busy
<1>4. CASE Exit
  BY <1>4 DEF Exit, Locks, Turn, Ending, ServedByMarker, Busy
<1>5. CASE Execute(Second)
  BY <1>5 DEF Execute, Locks, Turn, Ending, ServedByMarker, Busy
<1>6. CASE Clear(Second)
  BY <1>6 DEF Clear, Locks, Turn, Ending, ServedByMarker, Busy
<1>7. CASE Serve(Second)
  BY <1>7 DEF Serve, Locks, Turn, Ending, ServedByMarker, Busy
<1>8. CASE Signal
  BY <1>8 DEF Signal, Locks, Turn, Ending, ServedByMarker, Busy
<1>9. CASE Barrier
  BY <1>9 DEF Barrier, Locks, Turn, Ending, ServedByMarker, Busy
<1>10. CASE Pass
  BY <1>10 DEF Pass, Locks, Turn, Ending, ServedByMarker, Busy
<1> QED BY <1>1, <1>2, <1>3, <1>4, <1>5, <1>6, <1>7, <1>8, <1>9, <1>10
        DEF SecondSteps, Work

LEMMA PushControl ==
    ASSUME TypeOK, Control, NEW t \in Tasks, Push(t)
    PROVE  Control'
  BY DEF Push, TypeOK, Control, Locks, Turn, Ending, ServedByMarker, Busy

LEMMA RemoveControl ==
    ASSUME TypeOK, Control, NEW i \in 1..Len(parallel), Remove(i)
    PROVE  Control'
  BY DEF Remove, TypeOK, Control, Locks, Turn, Ending, ServedByMarker, Busy

LEMMA StutterControl ==
    ASSUME TypeOK, Control, UNCHANGED vars
    PROVE  Control'
  BY DEF vars, TypeOK, Control, Locks, Turn, Ending, ServedByMarker, Busy

-----------------------------------------------------------------------------
\* A sequence without the element at a place.
LEMMA WithoutPlaceSeq ==
    ASSUME NEW S, NEW s \in Seq(S), NEW i \in 1..Len(s)
    PROVE  /\ WithoutPlace(s, i) \in Seq(S)
           /\ Len(WithoutPlace(s, i)) = Len(s) - 1
           /\ \A j \in 1..(Len(s) - 1) :
                 WithoutPlace(s, i)[j] = IF j < i THEN s[j] ELSE s[j + 1]
  BY DEF WithoutPlace

\* While objects are updated no loop runs over seqParallel.
LEMMA NoLoop ==
    ASSUME TypeOK, Control, Data, pc[Main] = "move"
    PROVE  pit[Main] = 0 /\ pit[Second] = 0
  BY DEF TypeOK, Control, Turn, Busy, Data, Loops, Threads, Main, Second

LEMMA InitTypeData == Init => TypeOK /\ Data
<1> SUFFICES ASSUME Init
             PROVE  TypeOK /\ Data
  OBVIOUS
<1>1. parallel = <<>> /\ Len(parallel) = 0
  BY DEF Init
<1>2. TypeOK
  <2>1. pc \in [Threads -> MainPlaces \union SecondPlaces]
    BY DEF Init, MainPlaces, SecondPlaces
  <2>2. pc[Main] \in MainPlaces /\ pc[Second] \in SecondPlaces
    BY DEF Init, MainPlaces, SecondPlaces, Threads, Main, Second
  <2>3. parallel \in Seq(Tasks)
    BY <1>1
  <2>4. pit \in [Threads -> Nat]
    BY DEF Init
  <2> QED BY <2>1, <2>2, <2>3, <2>4 DEF Init, TypeOK, Threads
<1>3. Data
  BY <1>1 DEF Init, Data, Emptied, Loops, OfThisFrame, QueuedOnce, Threads, Main, Second
<1> QED BY <1>2, <1>3

LEMMA PushData ==
    ASSUME IInv, NEW t \in Tasks, Push(t)
    PROVE  TypeOK' /\ Data'
<1>1. /\ parallel \in Seq(Tasks) /\ Len(parallel) \in Nat
      /\ parallel' \in Seq(Tasks) /\ Len(parallel') = Len(parallel) + 1
      /\ \A j \in 1..(Len(parallel) + 1) :
            parallel'[j] = IF j <= Len(parallel) THEN parallel[j] ELSE t
  BY DEF Push, IInv, TypeOK
<1>2. TypeOK'
  BY <1>1 DEF Push, IInv, TypeOK
<1>3. \A i \in 1..Len(parallel) : parallel[i] \in asked
  BY DEF Push, IInv, Data, OfThisFrame
<1>4. QueuedOnce'
  BY <1>1, <1>3 DEF Push, IInv, Data, QueuedOnce
<1>5. OfThisFrame'
  BY <1>1, <1>3 DEF Push, OfThisFrame
<1>6. Loops'
  BY <1>1, NoLoop DEF Push, IInv, Loops, Threads
<1>7. Emptied'
  BY DEF Push, Emptied
<1> QED BY <1>2, <1>4, <1>5, <1>6, <1>7 DEF Data

LEMMA RemoveData ==
    ASSUME IInv, NEW i \in 1..Len(parallel), Remove(i)
    PROVE  TypeOK' /\ Data'
<1>1. /\ parallel \in Seq(Tasks) /\ Len(parallel) \in Nat
      /\ parallel' \in Seq(Tasks) /\ Len(parallel') = Len(parallel) - 1
      /\ \A j \in 1..(Len(parallel) - 1) :
            parallel'[j] = IF j < i THEN parallel[j] ELSE parallel[j + 1]
  <2>1. parallel \in Seq(Tasks) /\ Len(parallel) \in Nat
    BY DEF IInv, TypeOK
  <2>2. parallel' = WithoutPlace(parallel, i)
    BY DEF Remove
  <2> QED BY <2>1, <2>2, WithoutPlaceSeq
<1>2. TypeOK'
  <2>1. UNCHANGED <<pc, enter, leave, mustExit, frame, marker, pit, asked, served>>
    BY DEF Remove
  <2> QED BY <1>1, <2>1 DEF IInv, TypeOK
<1>3. \A j \in 1..Len(parallel) : parallel[j] \in asked
  BY DEF Remove, IInv, Data, OfThisFrame
<1>4. QueuedOnce'
  <2> SUFFICES ASSUME NEW a \in 1..(Len(parallel) - 1), NEW b \in 1..(Len(parallel) - 1),
                      parallel' [a] = parallel' [b]
               PROVE  a = b
    BY <1>1 DEF QueuedOnce
  <2> DEFINE p == IF a < i THEN a ELSE a + 1
             q == IF b < i THEN b ELSE b + 1
  <2>1. p \in 1..Len(parallel) /\ q \in 1..Len(parallel)
    BY <1>1
  <2>2. parallel[p] = parallel[q]
    BY <1>1
  <2>3. p = q
    BY <2>1, <2>2 DEF IInv, Data, QueuedOnce
  <2> QED BY <1>1, <2>3
<1>5. OfThisFrame'
  BY <1>1, <1>3 DEF Remove, OfThisFrame
<1>6. Loops'
  BY <1>1, NoLoop DEF Remove, IInv, Loops, Threads
<1>7. Emptied'
  BY DEF Remove, Emptied
<1> QED BY <1>2, <1>4, <1>5, <1>6, <1>7 DEF Data

\* The steps that leave seqParallel and the loops over it alone.
LEMMA OtherMainData ==
    ASSUME IInv,
           \/ Move \/ Capture \/ Release \/ Suspend \/ Unlock \/ Ensure \/ End
           \/ Serve(Main) \/ Quit \/ Stop \/ Join
    PROVE  TypeOK' /\ Data'
<1>1. parallel' = parallel /\ pit' = pit
  BY DEF Move, Capture, Release, Suspend, Unlock, Ensure, End, Serve, Quit, Stop, Join
<1>2. parallel \in Seq(Tasks) /\ Len(parallel) \in Nat
  BY DEF IInv, TypeOK
<1>3. TypeOK'
  <2>1. \E to \in MainPlaces : pc' = [pc EXCEPT ![Main] = to]
    BY DEF Move, Capture, Release, Suspend, Unlock, Ensure, End, Serve, Quit, Stop,
       Join, Goes, MainPlaces
  <2>2. /\ pc' \in [Threads -> MainPlaces \union SecondPlaces]
        /\ pc' [Main] \in MainPlaces /\ pc' [Second] \in SecondPlaces
    BY <2>1 DEF IInv, TypeOK, Threads, Main, Second
  <2>3. /\ enter' \in Threads \union {Nobody}
        /\ leave' \in Threads \union {Nobody}
        /\ mustExit' \in BOOLEAN
    BY DEF Move, Capture, Release, Suspend, Unlock, Ensure, End, Serve, Quit, Stop,
       Join, IInv, TypeOK, Threads
  <2>4. frame' \in Nat /\ marker' = marker /\ asked' \subseteq Tasks /\ served' \in Nat
    BY DEF Move, Capture, Release, Suspend, Unlock, Ensure, End, Serve, Quit, Stop,
       Join, IInv, TypeOK
  <2> QED BY <1>1, <2>2, <2>3, <2>4 DEF IInv, TypeOK
<1>4. QueuedOnce'
  BY <1>1 DEF IInv, Data, QueuedOnce
<1>5. OfThisFrame'
  <2>1. CASE Move
    BY <1>1, <1>2, <2>1 DEF Move, Goes, IInv, Data, Emptied, OfThisFrame
  <2>2. CASE ~ Move
    <3>1. pc' [Main] /= "move"
      BY <2>2 DEF Capture, Release, Suspend, Unlock, Ensure, End, Serve, Quit, Stop,
         Join, Goes, IInv, TypeOK, Threads, Main, Second
    <3> QED BY <3>1 DEF OfThisFrame
  <2> QED BY <2>1, <2>2
<1>6. Loops'
  <2>1. /\ pc[Main] /= "tasks"
        /\ pc' [Second] = pc[Second]
    BY DEF Move, Capture, Release, Suspend, Unlock, Ensure, End, Serve, Quit, Stop,
       Join, Goes, IInv, TypeOK, Threads, Main, Second
  <2> QED BY <1>1, <2>1 DEF IInv, Data, Loops, Threads
<1>7. Emptied'
  BY <1>1 DEF Move, Capture, Release, Suspend, Unlock, Ensure, End, Serve, Quit, Stop,
     Join, Goes, IInv, TypeOK, Control, Locks, Turn, Data, Emptied, Threads, Main, Second,
     Nobody, Busy
<1> QED BY <1>3, <1>4, <1>5, <1>6, <1>7 DEF Data

LEMMA OtherSecondData ==
    ASSUME IInv,
           \/ Wait \/ Permitted \/ MustExit \/ Exit
           \/ Serve(Second) \/ Signal \/ Barrier \/ Pass
    PROVE  TypeOK' /\ Data'
<1>1. parallel' = parallel /\ pit' = pit /\ asked' = asked
  BY DEF Wait, Permitted, MustExit, Exit, Serve, Signal, Barrier, Pass
<1>2. parallel \in Seq(Tasks) /\ Len(parallel) \in Nat
  BY DEF IInv, TypeOK
<1>3. TypeOK'
  <2>1. \E to \in SecondPlaces : pc' = [pc EXCEPT ![Second] = to]
    BY DEF Wait, Permitted, MustExit, Exit, Serve, Signal, Barrier, Pass, Goes,
       SecondPlaces, Main, Second
  <2>2. /\ pc' \in [Threads -> MainPlaces \union SecondPlaces]
        /\ pc' [Main] \in MainPlaces /\ pc' [Second] \in SecondPlaces
    BY <2>1 DEF IInv, TypeOK, Threads, Main, Second
  <2>3. /\ enter' \in Threads \union {Nobody}
        /\ leave' \in Threads \union {Nobody}
        /\ mustExit' \in BOOLEAN
    BY DEF Wait, Permitted, MustExit, Exit, Serve, Signal, Barrier, Pass, IInv, TypeOK,
       Threads
  <2>4. frame' = frame /\ marker' \in Nat \union {-1} /\ served' \in Nat
    BY DEF Wait, Permitted, MustExit, Exit, Serve, Signal, Barrier, Pass, IInv, TypeOK
  <2> QED BY <1>1, <2>2, <2>3, <2>4 DEF IInv, TypeOK
<1>4. pc' [Main] = pc[Main] /\ pc[Second] /= "tasks"
  BY DEF Wait, Permitted, MustExit, Exit, Serve, Signal, Barrier, Pass, Goes, IInv,
     TypeOK, Threads, Main, Second
<1>5. QueuedOnce' /\ OfThisFrame' /\ Loops'
  BY <1>1, <1>4 DEF IInv, Data, QueuedOnce, OfThisFrame, Loops, Threads
<1>6. Emptied'
  BY <1>1, <1>4 DEF Wait, Permitted, MustExit, Exit, Serve, Signal, Barrier, Pass, Goes,
     IInv, TypeOK, Control, Locks, Turn, Ending, Data, Emptied, Threads, Main, Second,
     Nobody, Busy
<1> QED BY <1>3, <1>5, <1>6 DEF Data

\* The loop, by either thread.
LEMMA ExecuteData ==
    ASSUME IInv, NEW thread \in Threads, Execute(thread)
    PROVE  TypeOK' /\ Data'
<1>1. parallel \in Seq(Tasks) /\ Len(parallel) \in Nat
  BY DEF IInv, TypeOK
<1>2. TypeOK'
  BY DEF Execute, IInv, TypeOK
<1>3. Loops'
  BY <1>1 DEF Execute, IInv, TypeOK, Data, Loops
<1>4. Emptied' /\ OfThisFrame' /\ QueuedOnce'
  BY DEF Execute, IInv, Data, Emptied, OfThisFrame, QueuedOnce
<1> QED BY <1>2, <1>3, <1>4 DEF Data

LEMMA ClearData ==
    ASSUME IInv, NEW thread \in Threads, Clear(thread)
    PROVE  TypeOK' /\ Data'
<1>1. parallel' = <<>> /\ Len(parallel') = 0
  BY DEF Clear
<1>2. TypeOK'
  BY <1>1 DEF Clear, Goes, IInv, TypeOK, MainPlaces, SecondPlaces, Threads, Main, Second
<1>3. \A t \in Threads : t /= thread => pc[t] /= "tasks"
  BY DEF Clear, Goes, IInv, Control, Turn, Busy, Threads, Main, Second
<1>4. Loops'
  BY <1>1, <1>3 DEF Clear, Goes, IInv, TypeOK, Data, Loops
<1>5. Emptied' /\ OfThisFrame' /\ QueuedOnce'
  BY <1>1 DEF Emptied, OfThisFrame, QueuedOnce
<1> QED BY <1>2, <1>4, <1>5 DEF Data

LEMMA StutterData ==
    ASSUME IInv, UNCHANGED vars
    PROVE  TypeOK' /\ Data'
  BY DEF vars, IInv, TypeOK, Data, Emptied, Loops, OfThisFrame, QueuedOnce

-----------------------------------------------------------------------------
\* The invariant holds in every execution.
LEMMA NextIInv ==
    ASSUME IInv, [Next]_vars
    PROVE  IInv'
<1>1. CASE \E t \in Tasks : Push(t)
  BY <1>1, PushControl, PushData DEF IInv
<1>2. CASE \E i \in 1..Len(parallel) : Remove(i)
  BY <1>2, RemoveControl, RemoveData DEF IInv
<1>3. CASE Quit \/ MainSteps
  <2>1. Control'
    BY <1>3, MainControl DEF IInv
  <2>2. TypeOK' /\ Data'
    BY <1>3, OtherMainData, ExecuteData, ClearData DEF MainSteps, Work, Threads
  <2> QED BY <2>1, <2>2 DEF IInv
<1>4. CASE SecondSteps
  <2>1. Control'
    BY <1>4, SecondControl DEF IInv
  <2>2. TypeOK' /\ Data'
    BY <1>4, OtherSecondData, ExecuteData, ClearData DEF SecondSteps, Work, Threads
  <2> QED BY <2>1, <2>2 DEF IInv
<1>5. CASE Stopped \/ UNCHANGED vars
  <2>1. UNCHANGED vars
    BY <1>5 DEF Stopped
  <2> QED BY <2>1, StutterControl, StutterData DEF IInv
<1> QED BY <1>1, <1>2, <1>3, <1>4, <1>5 DEF Next

\* The inductive invariant: sections, marker and tasks agree at every place.
THEOREM Invariance == Spec => []IInv
<1>1. Init => IInv
  BY InitControl, InitTypeData DEF IInv
<1>2. IInv /\ [Next]_vars => IInv'
  BY NextIInv
<1> QED BY <1>1, <1>2, PTL DEF Spec

\* The owners of the sections, the places of the threads, the marker and the
\* tasks keep their types (device.cpp:226-258).
THEOREM TypeCorrect == Spec => []TypeOK
<1>1. IInv => TypeOK
  BY DEF IInv
<1> QED BY <1>1, Invariance, PTL

\* While the main thread updates objects or does the other one's work, the
\* second thread does nothing but wait (device.cpp:239-252, 332, 389-398).
THEOREM UpdatesAlone == Spec => []NeverTogether
<1>1. IInv => NeverTogether
  BY DEF IInv, Control, Locks, Turn, NeverTogether, Busy, Main, Second
<1> QED BY <1>1, Invariance, PTL

\* No task is in seqParallel twice: remove_from_seq_parallel takes out all
\* that an object asked for (device.h:205-214).
THEOREM TasksQueuedOnce == Spec => []QueuedOnce
<1>1. IInv => QueuedOnce
  BY DEF IInv, Data
<1> QED BY <1>1, Invariance, PTL

-----------------------------------------------------------------------------
\* The steps as FrameWork sees them.
LEMMA ParallelWhenNoLoop ==
    ASSUME TypeOK, Place = 0
    PROVE  Todo = parallel
  BY DEF TypeOK, Todo

LEMMA NobodyLoops ==
    ASSUME IInv, pc[Main] /= "tasks", pc[Second] /= "tasks"
    PROVE  Place = 0 /\ Todo = parallel
  BY ParallelWhenNoLoop DEF IInv, Place

LEMMA InitFrames == Init => Frames!Init
<1> SUFFICES ASSUME Init
             PROVE  Frames!Init
  OBVIOUS
<1>1. Todo = <<>>
  BY DEF Init, Todo, Place, Threads, Main, Second
<1>2. Exclusive /\ served = 0
  BY DEF Init, Exclusive, Threads, Main
<1> QED BY <1>1, <1>2 DEF Frames!Init

\* The main thread asks for a task, or takes one back.
LEMMA PushFrames ==
    ASSUME IInv, NEW t \in Tasks, Push(t)
    PROVE  Frames!Push(t)
<1>1. pc[Main] = "move" /\ pc' = pc /\ parallel' = Append(parallel, t)
      /\ served' = served
  BY DEF Push
<1>2. pc[Second] /= "tasks"
  BY <1>1 DEF IInv, Control, Turn, Busy
<1>3. Todo = parallel /\ Todo' = parallel'
  <2>1. Todo = parallel
    BY <1>1, <1>2, NobodyLoops
  <2>2. Place' = 0 /\ TypeOK'
    BY <1>1, <1>2, PushData DEF Place
  <2>3. parallel' \in Seq(Tasks)
    BY <2>2 DEF TypeOK
  <2> QED BY <2>1, <2>2, <2>3 DEF Todo
<1>4. Exclusive /\ Exclusive'
  BY <1>1 DEF Exclusive
<1> QED BY <1>1, <1>3, <1>4 DEF Frames!Push

LEMMA RemoveFrames ==
    ASSUME IInv, NEW i \in 1..Len(parallel), Remove(i)
    PROVE  \E j \in 1..Len(Todo) : Frames!Cancel(j)
<1>1. pc[Main] = "move" /\ pc' = pc /\ parallel' = WithoutPlace(parallel, i)
      /\ served' = served
  BY DEF Remove
<1>2. pc[Second] /= "tasks"
  BY <1>1 DEF IInv, Control, Turn, Busy
<1>3. Todo = parallel /\ Todo' = parallel'
  <2>1. Todo = parallel
    BY <1>1, <1>2, NobodyLoops
  <2>2. Place' = 0 /\ TypeOK'
    BY <1>1, <1>2, RemoveData DEF Place
  <2>3. parallel' \in Seq(Tasks)
    BY <2>2 DEF TypeOK
  <2> QED BY <2>1, <2>2, <2>3 DEF Todo
<1>4. Exclusive /\ Exclusive'
  BY <1>1 DEF Exclusive
<1>5. Frames!WithoutPlace(parallel, i) = WithoutPlace(parallel, i)
  BY DEF WithoutPlace, Frames!WithoutPlace
<1>6. Frames!Cancel(i)
  BY <1>1, <1>3, <1>4, <1>5 DEF Frames!Cancel
<1> QED BY <1>3, <1>6

\* The sections change hands: a frame is released to be worked on, and the
\* main thread goes on when the work is done.
LEMMA ReleaseFrames ==
    ASSUME IInv, Release
    PROVE  Frames!Release
<1>1. /\ pc[Main] = "release" /\ pc' [Main] = "render" /\ pc' [Second] = pc[Second]
      /\ parallel' = parallel /\ pit' = pit /\ served' = 0
  BY DEF Release, Goes, IInv, TypeOK, Threads, Main, Second
<1>2. pc[Second] /= "tasks"
  BY <1>1 DEF IInv, Control, Turn, Busy
<1>3. Todo' = Todo
  BY <1>1, <1>2 DEF Todo, Place
<1>4. Exclusive /\ ~ Exclusive'
  BY <1>1 DEF Exclusive
<1> QED BY <1>1, <1>3, <1>4 DEF Frames!Release

LEMMA EndFrames ==
    ASSUME IInv, End
    PROVE  Frames!Return
<1>1. /\ pc[Main] = "end" /\ pc' [Main] = "messages" /\ pc' [Second] = pc[Second]
      /\ parallel' = parallel /\ pit' = pit /\ served' = served
  BY DEF End, Goes, IInv, TypeOK, Threads, Main, Second
<1>2. pc[Second] /= "tasks" /\ served = 1 /\ parallel = <<>>
  BY <1>1 DEF IInv, Control, Turn, Busy, ServedByMarker, Data, Emptied
<1>3. Todo = <<>> /\ Todo' = Todo
  BY <1>1, <1>2, NobodyLoops DEF Todo, Place
<1>4. ~ Exclusive /\ Exclusive'
  BY <1>1 DEF Exclusive
<1> QED BY <1>1, <1>2, <1>3, <1>4 DEF Frames!Return

\* The work, by either thread, is done while objects are not updated, and by
\* one thread only.
LEMMA WorkerAlone ==
    ASSUME IInv, NEW thread \in Threads, pc[thread] \in {"tasks", "frameMT"}
    PROVE  /\ ~ Exclusive
           /\ \A t \in Threads : t /= thread => pc[t] /= "tasks"
           /\ pc[thread] = "tasks" => Place = pit[thread]
           /\ served = 0
           /\ pc[thread] = "frameMT" => parallel = <<>>
  BY DEF IInv, TypeOK, Control, Turn, ServedByMarker, Busy, Data, Emptied, Exclusive,
     Place, Threads, Main, Second

\* What is left of a sequence after its first k elements.
LEMMA RestSeq ==
    ASSUME NEW S, NEW s \in Seq(S), NEW k \in Nat, k < Len(s)
    PROVE  LET Rest(n) == [j \in 1..(Len(s) - n) |-> s[j + n]]
           IN  Rest(k) /= <<>> /\ Rest(k + 1) = Tail(Rest(k))
<1> DEFINE Rest(n) == [j \in 1..(Len(s) - n) |-> s[j + n]]
           r == Rest(k)
<1>1. r \in Seq(S) /\ Len(r) = Len(s) - k /\ r /= <<>>
  <2>1. Len(s) - k \in Nat \ {0}
    OBVIOUS
  <2>2. r \in Seq(S) /\ Len(r) = Len(s) - k
    BY <2>1
  <2>3. r /= <<>>
    BY <2>1, <2>2, EmptySeq
  <2> QED BY <2>2, <2>3
<1>2. /\ Tail(r) \in Seq(S) /\ Len(Tail(r)) = Len(s) - k - 1
      /\ \A j \in 1..(Len(s) - k - 1) : Tail(r)[j] = r[j + 1]
  BY <1>1, HeadTailProperties
<1>3. \A j \in 1..(Len(s) - k - 1) : r[j + 1] = s[j + (k + 1)]
  OBVIOUS
<1>4. Rest(k + 1) \in Seq(S) /\ Len(Rest(k + 1)) = Len(s) - k - 1
  OBVIOUS
<1>5. \A j \in 1..(Len(s) - k - 1) : Rest(k + 1)[j] = s[j + (k + 1)]
  OBVIOUS
<1> HIDE DEF Rest, r
<1>6. Rest(k + 1) = Tail(r)
  BY <1>2, <1>3, <1>4, <1>5, SeqEqual
<1> QED BY <1>1, <1>6 DEF r, Rest

LEMMA ExecuteFrames ==
    ASSUME IInv, NEW thread \in Threads, Execute(thread)
    PROVE  Frames!Execute
<1>1. /\ pc[thread] = "tasks" /\ pc' = pc /\ parallel' = parallel /\ served' = served
      /\ pit[thread] < Len(parallel) /\ pit' [thread] = pit[thread] + 1
      /\ pit[thread] \in Nat
      /\ parallel \in Seq(Tasks)
  BY DEF Execute, IInv, TypeOK
<1>2. ~ Exclusive /\ ~ Exclusive'
  BY <1>1, WorkerAlone DEF Exclusive
<1>3. Place = pit[thread] /\ Place' = pit[thread] + 1
  BY <1>1, WorkerAlone DEF Place, Threads, Main, Second
<1>4. Todo /= <<>> /\ Todo' = Tail(Todo)
  <2> DEFINE Rest(n) == [j \in 1..(Len(parallel) - n) |-> parallel[j + n]]
  <2>1. Todo = Rest(pit[thread]) /\ Todo' = Rest(pit[thread] + 1)
    BY <1>1, <1>3 DEF Todo
  <2>2. Rest(pit[thread]) /= <<>> /\ Rest(pit[thread] + 1) = Tail(Rest(pit[thread]))
    BY <1>1, RestSeq
  <2> HIDE DEF Rest
  <2> QED BY <2>1, <2>2
<1>5. (served = 1)' = (served = 1) /\ Exclusive' = Exclusive
  BY <1>1 DEF Exclusive
<1> QED BY <1>2, <1>4, <1>5 DEF Frames!Execute

LEMMA ClearFrames ==
    ASSUME IInv, NEW thread \in Threads, Clear(thread)
    PROVE  UNCHANGED Frames!vars
<1>1. /\ pc[thread] = "tasks" /\ pc' [thread] = "frameMT"
      /\ \A t \in Threads : t /= thread => pc' [t] = pc[t]
      /\ parallel' = <<>> /\ served' = served
      /\ pit[thread] = Len(parallel) /\ parallel \in Seq(Tasks)
  BY DEF Clear, Goes, IInv, TypeOK
<1>2. ~ Exclusive /\ ~ Exclusive'
  <2>1. CASE thread = Main
    BY <1>1, <2>1 DEF Exclusive
  <2>2. CASE thread = Second
    <3>1. ~ Exclusive /\ pc' [Main] = pc[Main]
      BY <1>1, <2>2, WorkerAlone DEF Threads, Main, Second
    <3> QED BY <3>1 DEF Exclusive
  <2> QED BY <2>1, <2>2 DEF Threads
<1>3. Todo = <<>> /\ Todo' = <<>>
  <2>1. Place = Len(parallel)
    BY <1>1, WorkerAlone
  <2>2. Place' = 0
    BY <1>1, WorkerAlone DEF Place, Threads, Main, Second
  <2> QED BY <1>1, <2>1, <2>2 DEF Todo
<1>4. (served = 1)' = (served = 1) /\ Exclusive' = Exclusive /\ Todo' = Todo
  BY <1>1, <1>2, <1>3 DEF Exclusive
<1> QED BY <1>4 DEF Frames!vars

LEMMA ServeFrames ==
    ASSUME IInv, NEW thread \in Threads, Serve(thread)
    PROVE  Frames!Serve
<1>1. /\ pc[thread] = "frameMT" /\ pc' [thread] \in {"end", "done"}
      /\ \A t \in Threads : t /= thread => pc' [t] = pc[t]
      /\ parallel' = parallel /\ pit' = pit /\ served' = served + 1
  BY DEF Serve, Goes, IInv, TypeOK
<1>2. /\ served = 0 /\ parallel = <<>>
      /\ pc[Main] /= "tasks" /\ pc[Second] /= "tasks"
      /\ pc' [Main] /= "tasks" /\ pc' [Second] /= "tasks"
  BY <1>1, WorkerAlone DEF Threads, Main, Second
<1>3. Todo = <<>> /\ Todo' = Todo
  BY <1>1, <1>2, NobodyLoops DEF Todo, Place
<1>4. ~ Exclusive /\ ~ Exclusive'
  <2>1. CASE thread = Main
    BY <1>1, <2>1 DEF Exclusive
  <2>2. CASE thread = Second
    <3>1. ~ Exclusive /\ pc' [Main] = pc[Main]
      BY <1>1, <2>2, WorkerAlone DEF Threads, Main, Second
    <3> QED BY <3>1 DEF Exclusive
  <2> QED BY <2>1, <2>2 DEF Threads
<1>5. ~ (served = 1) /\ (served = 1)' = TRUE
  BY <1>1, <1>2
<1>6. Exclusive' = Exclusive
  BY <1>4 DEF Exclusive
<1> QED BY <1>2, <1>3, <1>4, <1>5, <1>6 DEF Frames!Serve

\* Everything else is invisible to FrameWork: the threads pass the sections.
LEMMA SilentFrames ==
    ASSUME IInv,
           \/ Move \/ Capture \/ Suspend \/ Unlock \/ Ensure \/ Quit \/ Stop \/ Join
           \/ Wait \/ Permitted \/ MustExit \/ Exit \/ Signal \/ Barrier \/ Pass
    PROVE  UNCHANGED Frames!vars
<1>1. parallel' = parallel /\ pit' = pit /\ served' = served
  BY DEF Move, Capture, Suspend, Unlock, Ensure, Quit, Stop, Join, Wait, Permitted,
     MustExit, Exit, Signal, Barrier, Pass
<1>2. Exclusive' = Exclusive
  BY DEF Move, Capture, Suspend, Unlock, Ensure, Quit, Stop, Join, Wait, Permitted,
     MustExit, Exit, Signal, Barrier, Pass, Goes, IInv, TypeOK, Threads, Main, Second,
     Exclusive
<1>3. /\ pc[Main] /= "tasks" /\ pc' [Main] = "tasks" => pit[Main] = 0
      /\ pc[Main] = "tasks" => pc' [Main] = "tasks"
      /\ pc[Second] /= "tasks" /\ pc' [Second] = "tasks" => pit[Second] = 0
      /\ pc[Second] = "tasks" => pc' [Second] = "tasks"
  BY DEF Move, Capture, Suspend, Unlock, Ensure, Quit, Stop, Join, Wait, Permitted,
     MustExit, Exit, Signal, Barrier, Pass, Goes, IInv, TypeOK, Data, Loops, Threads,
     Main, Second
<1>4. Todo' = Todo
  <2>1. pc[Main] = "tasks" => pc[Second] /= "tasks" /\ pc' [Second] /= "tasks"
    BY DEF Move, Capture, Suspend, Unlock, Ensure, Quit, Stop, Join, Wait, Permitted,
       MustExit, Exit, Signal, Barrier, Pass, Goes, IInv, TypeOK, Control, Locks, Turn,
       Ending, Busy, Threads, Main, Second, Nobody
  <2>2. pc[Second] = "tasks" => pc' [Main] /= "tasks"
    BY DEF Move, Capture, Suspend, Unlock, Ensure, Quit, Stop, Join, Wait, Permitted,
       MustExit, Exit, Signal, Barrier, Pass, Goes, IInv, TypeOK, Control, Turn, Busy,
       Threads, Main, Second
  <2>3. Place' = Place
    BY <1>1, <1>3, <2>1, <2>2 DEF Place
  <2> QED BY <1>1, <2>3 DEF Todo
<1> QED BY <1>1, <1>2, <1>4 DEF Frames!vars

LEMMA NextFrames ==
    ASSUME IInv, [Next]_vars
    PROVE  [Frames!Next]_(Frames!vars)
<1>1. CASE \E t \in Tasks : Push(t)
  BY <1>1, PushFrames DEF Frames!Next
<1>2. CASE \E i \in 1..Len(parallel) : Remove(i)
  BY <1>2, RemoveFrames DEF Frames!Next
<1>3. CASE Release
  BY <1>3, ReleaseFrames DEF Frames!Next
<1>4. CASE End
  BY <1>4, EndFrames DEF Frames!Next
<1>5. ASSUME NEW thread \in Threads, Work(thread)
      PROVE  [Frames!Next]_(Frames!vars)
  BY <1>5, ExecuteFrames, ClearFrames, ServeFrames DEF Work, Frames!Next
<1>6. CASE \/ Move \/ Capture \/ Suspend \/ Unlock \/ Ensure \/ Quit \/ Stop \/ Join
           \/ Wait \/ Permitted \/ MustExit \/ Exit \/ Signal \/ Barrier \/ Pass
  BY <1>6, SilentFrames
<1>7. CASE Stopped \/ UNCHANGED vars
  <2>1. UNCHANGED vars
    BY <1>7 DEF Stopped
  <2>2. UNCHANGED <<Exclusive, Todo, served>>
    BY <2>1 DEF vars, Exclusive, Todo, Place
  <2> QED BY <2>2 DEF Frames!vars
<1> QED BY <1>1, <1>2, <1>3, <1>4, <1>5, <1>6, <1>7
        DEF Next, MainSteps, SecondSteps, Threads

\* The two threads do the work of a frame once, in order, and before the next
\* frame, whichever of them gets to it: they implement FrameWork
\* (device.cpp:226-258, 353-398).
THEOREM Refinement == Spec => ImplementsFrameWork
<1>1. IInv /\ [Next]_vars => [Frames!Next]_(Frames!vars)
  BY NextFrames
<1> QED BY <1>1, InitFrames, Invariance, PTL DEF Spec, ImplementsFrameWork, Frames!Spec
=============================================================================
