----------------------------- MODULE EventQueue -----------------------------
(***************************************************************************)
(* What the game rules expect of the queue of delayed events: events are   *)
(* handled one at a time in the order they were posted, each once; while   *)
(* one is handled it does not change and none is discarded.                *)
(***************************************************************************)
EXTENDS Integers, Sequences

CONSTANTS
    Events,         \* what can be posted
    NoEvent         \* "current" when nothing is handled

VARIABLES
    pending,        \* posted and not done with; the head may be in progress
    current         \* the event that is being handled

vars == <<pending, current>>

Init == pending = <<>> /\ current = NoEvent

Post(e) ==
    /\ pending' = Append(pending, e)
    /\ UNCHANGED current

Begin ==
    /\ current = NoEvent
    /\ pending /= <<>>
    /\ current' = Head(pending)
    /\ UNCHANGED pending

End ==
    /\ current /= NoEvent
    /\ pending' = Tail(pending)
    /\ current' = NoEvent

WithoutPlace(s, i) == [j \in 1..(Len(s) - 1) |-> IF j < i THEN s[j] ELSE s[j + 1]]

Discard(i) ==
    /\ current = NoEvent
    /\ pending' = WithoutPlace(pending, i)
    /\ UNCHANGED current

Next ==
    \/ \E e \in Events : Post(e)
    \/ Begin
    \/ End
    \/ \E i \in 1..Len(pending) : Discard(i)

Spec == Init /\ [][Next]_vars
=============================================================================
