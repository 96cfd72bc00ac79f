----------------------------- MODULE MCScheduler -----------------------------
(***************************************************************************)
(* The scheduler with a real-time object, another one, and one that is     *)
(* registered now as this and now as that.                                 *)
(***************************************************************************)
EXTENDS Scheduler

CONSTANTS Changing, RealTime, Other

MCObjects == {Changing, RealTime, Other}
MCKinds == [o \in MCObjects |-> CASE o = Changing -> BOOLEAN
                                 [] o = RealTime -> {TRUE}
                                 [] o = Other -> {FALSE}]
=============================================================================
