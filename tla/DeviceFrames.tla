---------------------------- MODULE DeviceFrames ----------------------------
(***************************************************************************)
(* The two threads of CRenderDevice (xrEngine/device.cpp) and the two      *)
(* critical sections that let them take turns.  In FrameMove the main      *)
(* thread updates everything and puts tasks into seqParallel; while it     *)
(* renders, the second thread executes them and then the handlers of       *)
(* seqFrameMT: sound, physics, and the client and the server of a network  *)
(* game.  The sections are not fair: when the second thread does not get   *)
(* its turn in a frame the main thread does the work itself.               *)
(***************************************************************************)
EXTENDS Integers, Sequences

CONSTANTS
    Tasks,          \* what can be put into seqParallel
    MaxFrames       \* bound on dwFrame; the program ends then at the latest

ASSUME FramesAssumption == MaxFrames \in Nat

Main == "main"
Second == "second"
Nobody == "nobody"
Threads == {Main, Second}

VARIABLES
    pc,             \* where every thread is
    enter,          \* the owner of mt_csEnter
    leave,          \* the owner of mt_csLeave
    mustExit,       \* mt_bMustExit
    frame,          \* dwFrame
    marker,         \* mt_Thread_marker
    parallel,       \* seqParallel
    pit,            \* the place of the loop over it, of every thread
    asked,          \* history: the tasks that were put into it in this frame
    served          \* history: how often seqFrameMT was processed in this frame

vars == <<pc, enter, leave, mustExit, frame, marker, parallel, pit, asked, served>>

Goes(thread, from, to) ==
    /\ pc[thread] = from
    /\ pc' = [pc EXCEPT ![thread] = to]

WithoutPlace(s, i) == [j \in 1..(Len(s) - 1) |-> IF j < i THEN s[j] ELSE s[j + 1]]

MainPlaces == {"messages", "move", "release", "render", "unlock", "ensure",
               "tasks", "frameMT", "end", "quit", "join", "stopped"}
SecondPlaces == {"wait", "check", "tasks", "frameMT", "done", "barrier", "pass",
                 "exit", "stopped"}

-----------------------------------------------------------------------------
\* A definition explained as a fault is not used; it is an error that a change
\* of the code could bring in, and one the properties notice.

\* Run takes mt_csEnter before it starts the second thread.
Init ==
    /\ pc = [t \in Threads |-> IF t = Main THEN "messages" ELSE "wait"]
    /\ enter = Main /\ leave = Nobody
    /\ mustExit = FALSE
    /\ frame = 0 /\ marker = -1
    /\ parallel = <<>> /\ pit = [t \in Threads |-> 0]
    /\ asked = {} /\ served = 0

\* FrameMove begins ...
Move ==
    /\ frame < MaxFrames
    /\ Goes(Main, "messages", "move")
    /\ frame' = frame + 1
    /\ asked' = {}
    /\ UNCHANGED <<enter, leave, mustExit, marker, parallel, pit, served>>

\* ... an object that is updated puts its task into seqParallel, ...
Push(t) ==
    /\ pc[Main] = "move"
    /\ t \notin asked
    /\ parallel' = Append(parallel, t)
    /\ asked' = asked \union {t}
    /\ UNCHANGED <<pc, enter, leave, mustExit, frame, marker, pit, served>>

\* ... and takes it out again when it is destroyed (remove_from_seq_parallel).
Remove(i) ==
    /\ pc[Main] = "move"
    /\ i \in 1..Len(parallel)
    /\ \A j \in 1..(i - 1) : parallel[j] /= parallel[i]
    /\ parallel' = WithoutPlace(parallel, i)
    /\ UNCHANGED <<pc, enter, leave, mustExit, frame, marker, pit, asked, served>>

\* "Capture end point", "Release start point"
Capture ==
    /\ leave = Nobody
    /\ Goes(Main, "move", "release")
    /\ leave' = Main
    /\ UNCHANGED <<enter, mustExit, frame, marker, parallel, pit, asked, served>>

Release ==
    /\ Goes(Main, "release", "render")
    /\ enter' = Nobody
    /\ served' = 0
    /\ UNCHANGED <<leave, mustExit, frame, marker, parallel, pit, asked>>

\* A fault: the main thread does not wait for the second one to end its work.
SuspendAtOnce ==
    /\ Goes(Main, "render", "unlock")
    /\ enter' = Main
    /\ UNCHANGED <<leave, mustExit, frame, marker, parallel, pit, asked, served>>

\* The frame is rendered.  "Capture startup point", "Release end point"
Suspend ==
    /\ enter = Nobody
    /\ Goes(Main, "render", "unlock")
    /\ enter' = Main
    /\ UNCHANGED <<leave, mustExit, frame, marker, parallel, pit, asked, served>>

Unlock ==
    /\ Goes(Main, "unlock", "ensure")
    /\ leave' = Nobody
    /\ UNCHANGED <<enter, mustExit, frame, marker, parallel, pit, asked, served>>

\* A fault: the main thread relies on the second one.
EnsureNothing ==
    /\ Goes(Main, "ensure", "end")
    /\ UNCHANGED <<enter, leave, mustExit, frame, marker, parallel, pit, asked, served>>

\* "Ensure, that second thread gets chance to execute anyway"
Ensure ==
    /\ Goes(Main, "ensure", IF frame = marker THEN "end" ELSE "tasks")
    /\ UNCHANGED <<enter, leave, mustExit, frame, marker, parallel, pit, asked, served>>

End ==
    /\ Goes(Main, "end", "messages")
    /\ UNCHANGED <<enter, leave, mustExit, frame, marker, parallel, pit, asked, served>>

-----------------------------------------------------------------------------
\* The work, which either thread may do: a task, ...
Execute(thread) ==
    /\ pc[thread] = "tasks"
    /\ pit[thread] < Len(parallel)
    /\ pit' = [pit EXCEPT ![thread] = @ + 1]
    /\ UNCHANGED <<pc, enter, leave, mustExit, frame, marker, parallel, asked, served>>

\* A fault: the tasks stay in seqParallel.
ClearNothing(thread) ==
    /\ Goes(thread, "tasks", "frameMT")
    /\ pit[thread] = Len(parallel)
    /\ pit' = [pit EXCEPT ![thread] = 0]
    /\ UNCHANGED <<enter, leave, mustExit, frame, marker, parallel, asked, served>>

\* ... clear_not_free, when all were executed, ...
Clear(thread) ==
    /\ Goes(thread, "tasks", "frameMT")
    /\ pit[thread] = Len(parallel)
    /\ parallel' = <<>>
    /\ pit' = [pit EXCEPT ![thread] = 0]
    /\ UNCHANGED <<enter, leave, mustExit, frame, marker, asked, served>>

\* A fault: the main thread, too, goes on as if it had to signal.
ServeAndSignal(thread) ==
    /\ Goes(thread, "frameMT", "done")
    /\ served' = served + 1
    /\ UNCHANGED <<enter, leave, mustExit, frame, marker, parallel, pit, asked>>

\* ... and the handlers of seqFrameMT.
Serve(thread) ==
    /\ Goes(thread, "frameMT", IF thread = Main THEN "end" ELSE "done")
    /\ served' = served + 1
    /\ UNCHANGED <<enter, leave, mustExit, frame, marker, parallel, pit, asked>>

-----------------------------------------------------------------------------
\* The second thread: "waiting for Device permission to execute"
Wait ==
    /\ enter = Nobody
    /\ Goes(Second, "wait", "check")
    /\ enter' = Second
    /\ UNCHANGED <<leave, mustExit, frame, marker, parallel, pit, asked, served>>

Permitted ==
    /\ ~ mustExit
    /\ Goes(Second, "check", "tasks")
    /\ marker' = frame
    /\ UNCHANGED <<enter, leave, mustExit, frame, parallel, pit, asked, served>>

MustExit ==
    /\ mustExit
    /\ Goes(Second, "check", "exit")
    /\ mustExit' = FALSE
    /\ UNCHANGED <<enter, leave, frame, marker, parallel, pit, asked, served>>

Exit ==
    /\ Goes(Second, "exit", "stopped")
    /\ enter' = Nobody
    /\ UNCHANGED <<leave, mustExit, frame, marker, parallel, pit, asked, served>>

\* "signals that we are ended our work"
Signal ==
    /\ Goes(Second, "done", "barrier")
    /\ enter' = Nobody
    /\ UNCHANGED <<leave, mustExit, frame, marker, parallel, pit, asked, served>>

\* "Waits for device signal to continue", "Returns sync signal to device"
Barrier ==
    /\ leave = Nobody
    /\ Goes(Second, "barrier", "pass")
    /\ leave' = Second
    /\ UNCHANGED <<enter, mustExit, frame, marker, parallel, pit, asked, served>>

\* A fault: the end point is not given back.
PassKeeping ==
    /\ Goes(Second, "pass", "wait")
    /\ UNCHANGED <<enter, leave, mustExit, frame, marker, parallel, pit, asked, served>>

Pass ==
    /\ Goes(Second, "pass", "wait")
    /\ leave' = Nobody
    /\ UNCHANGED <<enter, mustExit, frame, marker, parallel, pit, asked, served>>

-----------------------------------------------------------------------------
\* WM_QUIT ends message_loop; Run stops the second thread and waits for it.
Quit ==
    /\ Goes(Main, "messages", "quit")
    /\ mustExit' = TRUE
    /\ UNCHANGED <<enter, leave, frame, marker, parallel, pit, asked, served>>

\* A fault: Run waits for the second thread without letting it in.
StopKeeping ==
    /\ Goes(Main, "quit", "join")
    /\ UNCHANGED <<enter, leave, mustExit, frame, marker, parallel, pit, asked, served>>

Stop ==
    /\ Goes(Main, "quit", "join")
    /\ enter' = Nobody
    /\ UNCHANGED <<leave, mustExit, frame, marker, parallel, pit, asked, served>>

Join ==
    /\ ~ mustExit
    /\ Goes(Main, "join", "stopped")
    /\ UNCHANGED <<enter, leave, mustExit, frame, marker, parallel, pit, asked, served>>

Stopped ==
    /\ \A t \in Threads : pc[t] = "stopped"
    /\ UNCHANGED vars

-----------------------------------------------------------------------------
Work(thread) == Execute(thread) \/ Clear(thread) \/ Serve(thread)

MainSteps ==
    \/ Move \/ Capture \/ Release \/ Suspend \/ Unlock \/ Ensure \/ End
    \/ Work(Main)
    \/ Stop \/ Join

SecondSteps ==
    \/ Wait \/ Permitted \/ MustExit \/ Exit
    \/ Work(Second)
    \/ Signal \/ Barrier \/ Pass

Next ==
    \/ \E t \in Tasks : Push(t)
    \/ \E i \in 1..Len(parallel) : Remove(i)
    \/ Quit
    \/ MainSteps
    \/ SecondSteps
    \/ Stopped

Spec == Init /\ [][Next]_vars

\* Both threads run on.  A section that stays free is entered at last, but one
\* that is only free from time to time may be missed every time.
FairSpec == Spec /\ WF_vars(MainSteps) /\ WF_vars(SecondSteps)

-----------------------------------------------------------------------------
TypeOK ==
    /\ pc \in [Threads -> MainPlaces \union SecondPlaces]
    /\ pc[Main] \in MainPlaces /\ pc[Second] \in SecondPlaces
    /\ enter \in Threads \union {Nobody}
    /\ leave \in Threads \union {Nobody}
    /\ mustExit \in BOOLEAN
    /\ frame \in Nat /\ marker \in Nat \union {-1}
    /\ parallel \in Seq(Tasks)
    /\ pit \in [Threads -> Nat]
    /\ asked \subseteq Tasks
    /\ served \in Nat

\* While the main thread updates objects, or does the work of the second
\* thread, the second thread does nothing but wait: seqParallel and everything
\* that FrameMove and the tasks touch have no lock of their own
\* (device.cpp:239-252, 332, 389-398).
NeverTogether ==
    pc[Main] \in {"messages", "move", "tasks", "frameMT"} =>
        pc[Second] \notin {"check", "tasks", "frameMT", "done"}

\* "VERIFY(I == Device.seqParallel.end())" before a task is pushed
\* (ai_stalker.cpp:662): nothing is left over from an earlier frame, so that
\* remove_from_seq_parallel, which takes out one, takes out all.
QueuedOnce ==
    \A i, j \in 1..Len(parallel) : parallel[i] = parallel[j] => i = j

\* What is still to be executed of seqParallel.
Place == IF pc[Main] = "tasks" THEN pit[Main]
         ELSE IF pc[Second] = "tasks" THEN pit[Second] ELSE 0

Todo == [i \in 1..(Len(parallel) - Place) |-> parallel[i + Place]]

Exclusive == pc[Main] \in {"messages", "move", "release", "quit", "join", "stopped"}

Frames == INSTANCE FrameWork WITH
    exclusive <- Exclusive, todo <- Todo, served <- served = 1

\* Every task is executed once, in its frame and after the updates; so are the
\* handlers of seqFrameMT, by whichever thread: this implements FrameWork.
ImplementsFrameWork == Frames!Spec

\* A frame that was begun ends, whether or not the second thread gets its turn
\* (device.cpp:353-398).
FrameEnds == pc[Main] = "move" ~> pc[Main] = "messages"

\* Run ends: "while (mt_bMustExit) Sleep(0)" does not wait forever, and the
\* second thread ends too (device.cpp:516-522).
ExitsAtLast == (pc[Main] = "quit") ~> (\A t \in Threads : pc[t] = "stopped")
=============================================================================
