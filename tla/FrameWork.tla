------------------------------ MODULE FrameWork ------------------------------
(***************************************************************************)
(* What the engine expects of its two threads in a frame: while objects    *)
(* are updated nothing else runs; the tasks they asked for and the frame   *)
(* handlers of the second thread are executed afterwards, each once and    *)
(* the tasks in their order, and all of that is over when the next frame   *)
(* begins.                                                                 *)
(***************************************************************************)
EXTENDS Integers, Sequences

CONSTANT Tasks

VARIABLES
    exclusive,      \* objects are updated, or the program is between frames
    todo,           \* tasks that were asked for and not executed yet
    served          \* were the handlers called in this frame?

vars == <<exclusive, todo, served>>

Init == exclusive = TRUE /\ todo = <<>> /\ served = FALSE

Push(t) ==
    /\ exclusive
    /\ todo' = Append(todo, t)
    /\ UNCHANGED <<exclusive, served>>

WithoutPlace(s, i) == [j \in 1..(Len(s) - 1) |-> IF j < i THEN s[j] ELSE s[j + 1]]

Cancel(i) ==
    /\ exclusive
    /\ todo' = WithoutPlace(todo, i)
    /\ UNCHANGED <<exclusive, served>>

Release ==
    /\ exclusive
    /\ exclusive' = FALSE /\ served' = FALSE
    /\ UNCHANGED todo

Execute ==
    /\ ~ exclusive
    /\ todo /= <<>>
    /\ todo' = Tail(todo)
    /\ UNCHANGED <<exclusive, served>>

Serve ==
    /\ ~ exclusive /\ ~ served
    /\ todo = <<>>
    /\ served' = TRUE
    /\ UNCHANGED <<exclusive, todo>>

Return ==
    /\ ~ exclusive /\ served
    /\ todo = <<>>
    /\ exclusive' = TRUE
    /\ UNCHANGED <<todo, served>>

Next ==
    \/ \E t \in Tasks : Push(t)
    \/ \E i \in 1..Len(todo) : Cancel(i)
    \/ Release
    \/ Execute
    \/ Serve
    \/ Return

Spec == Init /\ [][Next]_vars
=============================================================================
