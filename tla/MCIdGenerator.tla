--------------------------- MODULE MCIdGenerator ---------------------------
(***************************************************************************)
(* IdGenerator with a clock that callers read (Device.TimerAsync), the     *)
(* memory of when every identifier was given back, and of the blocks whose *)
(* last identifier was given back with the time it really was: the life    *)
(* simulator's script call gives one back with the time 0                  *)
(* (xrGame/alife_simulator_script.cpp:187).                                *)
(***************************************************************************)
EXTENDS IdGenerator

VARIABLES
    clock,          \* the time of the next call
    freedAt,        \* when every identifier was last freed, -1 for never
    timely          \* the blocks last given one back at the time it was

clockVars == <<vars, clock, freedAt, timely>>

ClockedInit ==
    /\ Init
    /\ clock = 1
    /\ freedAt = [v \in Values |-> -1]
    /\ timely = Blocks

ClockedFree(v, t) ==
    /\ t \in {0, clock}
    /\ FreeID(v, t)
    /\ freedAt' = [freedAt EXCEPT ![v] = clock]
    /\ timely' = IF t = clock
                 THEN timely \union {BlockOf(v)} ELSE timely \ {BlockOf(v)}
    /\ UNCHANGED clock

Tick ==
    /\ clock < MaxTime
    /\ clock' = clock + 1
    /\ UNCHANGED <<vars, freedAt, timely>>

ClockedRequest ==
    /\ Generate \/ \E v \in Values : Reserve(v)
    /\ UNCHANGED <<clock, freedAt, timely>>

ClockedNext ==
    \/ ClockedRequest
    \/ \E v \in Values, t \in 0..MaxTime : ClockedFree(v, t)
    \/ Tick

ClockedSpec == ClockedInit /\ [][ClockedNext]_clockVars

\* An identifier given back later than everything in some block that has a
\* free identifier is not the one a request returns: messages about the old
\* owner of an identifier get as much time as possible to drain before it is
\* reused (id_generator.h:31-34, 93-95, 115).  An identifier given back with
\* the time 0 loses this rest to its block alone: between the other blocks
\* the order stays that of their returns.
RestsLongest ==
    [][\A v \in Values :
          (Generate /\ got' = v /\ freedAt[v] >= 0 /\ BlockOf(v) \in timely)
             => \A c \in NonEmpty \intersect timely :
                   \E w \in Values : BlockOf(w) = c /\ freedAt[w] >= freedAt[v]
      ]_clockVars
=============================================================================
