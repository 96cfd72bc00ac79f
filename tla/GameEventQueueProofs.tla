------------------------ MODULE GameEventQueueProofs ------------------------
(***************************************************************************)
(* The queue of delayed events, for every number of objects, every set of  *)
(* clients and kinds, and every pool size: no object is in two places, the *)
(* handler's object stays in front, and events are handled once and in the *)
(* order they were posted.                                                 *)
(***************************************************************************)
EXTENDS GameEventQueue, SequenceTheorems, TLAPS

\* The inductive invariant.  The parts need each other: Release keeps OneOwner
\* because the object it frees is in front, and what is handled is not
\* overwritten because Store takes an object that is in no other place.
IInv == TypeOK /\ OneOwner /\ HeldIsFront /\ ReadyHoldEvents /\ PoolKept

\* What the abstract queue sees.
View == [i \in 1..Len(ready) |-> event[ready[i]]]
Current == IF held = NoObject THEN NoEvent ELSE event[held]

-----------------------------------------------------------------------------
\* Sequences without their last element, and without the one at a place.
LEMMA PoppedSeq ==
    ASSUME NEW S, NEW s \in Seq(S), s /= <<>>
    PROVE  /\ Popped(s) \in Seq(S)
           /\ Len(Popped(s)) = Len(s) - 1
           /\ \A j \in 1..(Len(s) - 1) : Popped(s)[j] = s[j]
  BY DEF Popped

LEMMA WithoutPlaceSeq ==
    ASSUME NEW S, NEW s \in Seq(S), NEW i \in 1..Len(s)
    PROVE  /\ WithoutPlace(s, i) \in Seq(S)
           /\ Len(WithoutPlace(s, i)) = Len(s) - 1
           /\ \A j \in 1..(Len(s) - 1) :
                 WithoutPlace(s, i)[j] = IF j < i THEN s[j] ELSE s[j + 1]
  BY DEF WithoutPlace

LEMMA AppendSeq ==
    ASSUME NEW S, NEW s \in Seq(S), NEW e \in S
    PROVE  /\ Append(s, e) \in Seq(S)
           /\ Len(Append(s, e)) = Len(s) + 1
           /\ \A j \in 1..(Len(s) + 1) :
                 Append(s, e)[j] = IF j <= Len(s) THEN s[j] ELSE e
  OBVIOUS

LEMMA TailSeq ==
    ASSUME NEW S, NEW s \in Seq(S), s /= <<>>
    PROVE  /\ Len(s) \in Nat \ {0}
           /\ Head(s) = s[1] /\ Head(s) \in S
           /\ Tail(s) \in Seq(S)
           /\ Len(Tail(s)) = Len(s) - 1
           /\ \A j \in 1..(Len(s) - 1) : Tail(s)[j] = s[j + 1]
  BY HeadTailProperties, EmptySeq

\* An object that is freed is put on top of "unused", or the pool had more
\* than Keep.
LEMMA RecycledSeq ==
    ASSUME NEW o \in Objects, NEW stale \in BOOLEAN, unused \in Seq(Objects)
    PROVE  \/ Recycled(o, stale) = unused /\ Len(unused) > Keep
           \/ Recycled(o, stale) = Append(unused, o)
  BY DEF Recycled

LEMMA InitIInv == Init => IInv /\ View = <<>> /\ Current = NoEvent
<1> SUFFICES ASSUME Init
             PROVE  IInv /\ View = <<>> /\ Current = NoEvent
  OBVIOUS
<1>1. unused \in Seq(Objects) /\ Len(unused) = Initial
  BY QueueAssumption DEF Init
<1>2. ready = <<>> /\ Len(ready) = 0
  BY DEF Init
<1>3. TypeOK
  BY <1>1, <1>2 DEF Init, TypeOK
<1>4. OneOwner
  BY <1>1, <1>2, QueueAssumption DEF Init, OneOwner
<1>5. HeldIsFront /\ ReadyHoldEvents /\ PoolKept
  BY <1>1, <1>2, QueueAssumption DEF Init, HeldIsFront, ReadyHoldEvents, PoolKept
<1>6. View = <<>> /\ Current = NoEvent
  BY <1>2 DEF Init, View, Current
<1> QED BY <1>3, <1>4, <1>5, <1>6 DEF IInv

-----------------------------------------------------------------------------
\* Create: the object that is taken holds no event and is not being handled,
\* so that the rest of the queue stays as it was.
LEMMA StoreStep ==
    ASSUME IInv, NEW e \in Events, Store(e),
           checked' \in Events \union {NoEvent}
    PROVE  IInv' /\ View' = Append(View, e) /\ Current' = Current
<1> PICK o \in Objects :
        Takes(o) /\ ready' = Append(ready, o) /\ event' = [event EXCEPT ![o] = e]
  BY DEF Store
<1> DEFINE n == Len(ready)
           m == Len(unused)
<1>1. /\ ready \in Seq(Objects) /\ n \in Nat
      /\ unused \in Seq(Objects) /\ m \in Nat
      /\ event \in [Objects -> Events \union {NoEvent}]
  BY DEF IInv, TypeOK
<1>2. /\ ready' \in Seq(Objects) /\ Len(ready') = n + 1
      /\ \A j \in 1..(n + 1) : ready'[j] = IF j <= n THEN ready[j] ELSE o
  BY <1>1, AppendSeq
<1>3. /\ unused' \in Seq(Objects)
      /\ \A j \in 1..Len(unused') : unused'[j] = unused[j]
      /\ Len(unused') = IF m = 0 THEN 0 ELSE m - 1
  <2>1. unused' = Popped(unused)
    BY DEF Store
  <2>2. CASE unused = <<>>
    <3>1. Popped(<<>>) = <<>>
      BY DEF Popped
    <3>2. m = 0 /\ unused' = <<>>
      BY <2>1, <2>2, <3>1
    <3> QED BY <1>1, <2>2, <3>2
  <2>3. CASE unused /= <<>>
    <3>1. m > 0
      BY <1>1, <2>3, EmptySeq
    <3>2. /\ unused' \in Seq(Objects) /\ Len(unused') = m - 1
          /\ \A j \in 1..(m - 1) : unused'[j] = unused[j]
      BY <1>1, <2>1, <2>3, PoppedSeq
    <3> HIDE DEF m
    <3> QED BY <1>1, <3>1, <3>2
  <2> QED BY <2>2, <2>3
<1>4. \A i \in 1..n : ready[i] /= o
  BY <1>1 DEF Takes, Allocated, Elements, IInv, OneOwner
<1>5. \A i \in 1..Len(unused') : unused'[i] /= o
  <2>1. CASE unused = <<>>
    BY <2>1, <1>3
  <2>2. CASE unused /= <<>>
    <3>1. o = unused[m] /\ m \in 1..m
      BY <1>1, <2>2 DEF Takes
    <3>2. \A i, j \in 1..m : unused[i] = unused[j] => i = j
      BY DEF IInv, OneOwner
    <3> QED BY <1>1, <1>3, <2>2, <3>1, <3>2
  <2> QED BY <2>1, <2>2
<1>6. \A p \in Objects : event'[p] = IF p = o THEN e ELSE event[p]
  BY <1>1
<1>7. TypeOK'
  BY <1>1, <1>2, <1>3 DEF Store, IInv, TypeOK
<1>8. OneOwner'
  <2>1. \A i, j \in 1..Len(ready') : ready'[i] = ready'[j] => i = j
    BY <1>1, <1>2, <1>4 DEF IInv, OneOwner
  <2>2. \A i, j \in 1..Len(unused') : unused'[i] = unused'[j] => i = j
    BY <1>1, <1>3 DEF IInv, OneOwner
  <2>3. \A i \in 1..Len(ready'), j \in 1..Len(unused') : ready'[i] /= unused'[j]
    BY <1>1, <1>2, <1>3, <1>5 DEF IInv, OneOwner
  <2> QED BY <2>1, <2>2, <2>3 DEF OneOwner
<1>9. held' = held /\ erasing' = {}
  BY DEF Store
<1>10. HeldIsFront' /\ Current' = Current
  <2>1. CASE held = NoObject
    BY <2>1, <1>9 DEF HeldIsFront, Current
  <2>2. CASE held /= NoObject
    <3>1. ready /= <<>> /\ held = ready[1] /\ 1 \in 1..n /\ held \in Objects
      BY <1>1, <2>2, TailSeq DEF IInv, HeldIsFront
    <3>2. ready' /= <<>> /\ Head(ready') = ready[1] /\ held /= o
      BY <1>1, <1>2, <1>4, <3>1, TailSeq
    <3> QED BY <1>6, <1>9, <2>2, <3>1, <3>2 DEF HeldIsFront, Current
  <2> QED BY <2>1, <2>2
<1>11. ReadyHoldEvents'
  BY <1>1, <1>2, <1>6 DEF IInv, ReadyHoldEvents
<1>12. PoolKept'
  <2>1. n + m >= Initial
    BY DEF IInv, PoolKept
  <2>2. Len(unused') \in Nat /\ Len(unused') >= m - 1 /\ Initial \in Nat
    BY <1>1, <1>3, QueueAssumption
  <2>3. n + 1 + Len(unused') >= Initial
    <3> HIDE DEF n, m
    <3> QED BY <2>1, <2>2, <1>1
  <2> QED BY <2>3, <1>2 DEF PoolKept
<1>13. View' = Append(View, e)
  <2>1. View \in Seq(Events) /\ Len(View) = n
    BY <1>1 DEF View, IInv, ReadyHoldEvents
  <2>2. View' \in Seq(Events) /\ Len(View') = n + 1
    BY <1>1, <1>2, <1>11 DEF View, ReadyHoldEvents
  <2>3. /\ Append(View, e) \in Seq(Events) /\ Len(Append(View, e)) = n + 1
        /\ \A j \in 1..(n + 1) :
              Append(View, e)[j] = IF j <= n THEN View[j] ELSE e
    BY <2>1, AppendSeq
  <2>4. \A j \in 1..(n + 1) : View'[j] = Append(View, e)[j]
    <3> TAKE j \in 1..(n + 1)
    <3>1. View'[j] = event'[ready'[j]]
      BY <1>1, <1>2 DEF View
    <3>2. CASE j = n + 1
      BY <1>1, <1>2, <1>6, <2>3, <3>1, <3>2
    <3>3. CASE j \in 1..n
      BY <1>1, <1>2, <1>4, <1>6, <2>3, <3>1, <3>3 DEF View
    <3>4. j = n + 1 \/ j \in 1..n
      BY <1>1
    <3> QED BY <3>2, <3>3, <3>4
  <2> QED BY <2>2, <2>3, <2>4, SeqEqual
<1> QED BY <1>7, <1>8, <1>10, <1>11, <1>12, <1>13 DEF IInv

\* Taking an object out of "ready" and recycling it, as Release and
\* EraseEvents do, leaves the rest of the queue in order.
LEMMA FreeStep ==
    ASSUME IInv, NEW i \in 1..Len(ready), NEW stale \in BOOLEAN,
           ready' = WithoutPlace(ready, i),
           unused' = Recycled(ready[i], stale),
           event' = event
    PROVE  /\ ready' \in Seq(Objects) /\ unused' \in Seq(Objects)
           /\ OneOwner' /\ ReadyHoldEvents' /\ PoolKept'
           /\ View' = WithoutPlace(View, i)
<1> DEFINE n == Len(ready)
           m == Len(unused)
           o == ready[i]
<1>1. /\ ready \in Seq(Objects) /\ n \in Nat
      /\ unused \in Seq(Objects) /\ m \in Nat
      /\ event \in [Objects -> Events \union {NoEvent}]
      /\ o \in Objects
  BY ElementOfSeq DEF IInv, TypeOK
<1>2. /\ ready' \in Seq(Objects) /\ Len(ready') = n - 1
      /\ \A j \in 1..(n - 1) : ready'[j] = IF j < i THEN ready[j] ELSE ready[j + 1]
  BY <1>1, WithoutPlaceSeq
<1>3. /\ \A j \in 1..n : ready[j] = o => j = i
      /\ \A j, k \in 1..n : ready[j] = ready[k] => j = k
      /\ \A j, k \in 1..m : unused[j] = unused[k] => j = k
      /\ \A j \in 1..n, k \in 1..m : ready[j] /= unused[k]
  BY DEF IInv, OneOwner
<1>4. \/ unused' = unused /\ m > Keep
      \/ unused' = Append(unused, o)
  BY <1>1, RecycledSeq
<1>5. ASSUME NEW j \in 1..(n - 1)
      PROVE  /\ ready'[j] /= o
             /\ \E k \in 1..n : ready'[j] = ready[k] /\ k = IF j < i THEN j ELSE j + 1
  BY <1>1, <1>2, <1>3
<1>6. \A j, k \in 1..(n - 1) : ready'[j] = ready'[k] => j = k
  BY <1>1, <1>3, <1>5
<1>7. \A j \in 1..(n - 1), k \in 1..m : ready'[j] /= unused[k]
  BY <1>3, <1>5
<1>8. ReadyHoldEvents'
  BY <1>2, <1>5 DEF IInv, ReadyHoldEvents
<1>9. View' = WithoutPlace(View, i)
  <2>1. View \in Seq(Events) /\ Len(View) = n
    BY <1>1 DEF View, IInv, ReadyHoldEvents
  <2>2. View' \in Seq(Events) /\ Len(View') = n - 1
    BY <1>1, <1>2, <1>8 DEF View, ReadyHoldEvents
  <2>3. /\ WithoutPlace(View, i) \in Seq(Events)
        /\ Len(WithoutPlace(View, i)) = n - 1
        /\ \A j \in 1..(n - 1) :
              WithoutPlace(View, i)[j] = IF j < i THEN View[j] ELSE View[j + 1]
    BY <2>1, WithoutPlaceSeq
  <2>4. \A j \in 1..(n - 1) : View'[j] = event[ready'[j]]
    BY <1>2 DEF View
  <2>5. \A j \in 1..n : View[j] = event[ready[j]]
    BY DEF View
  <2>6. \A j \in 1..(n - 1) : View'[j] = WithoutPlace(View, i)[j]
    <3> TAKE j \in 1..(n - 1)
    <3>1. j \in 1..n /\ j + 1 \in 1..n
      BY <1>1
    <3>2. CASE j < i
      BY <3>1, <3>2, <1>2, <2>3, <2>4, <2>5
    <3>3. CASE ~(j < i)
      BY <3>1, <3>3, <1>2, <2>3, <2>4, <2>5
    <3> QED BY <3>2, <3>3
  <2> QED BY <2>2, <2>3, <2>6, SeqEqual
<1>10. CASE unused' = unused /\ m > Keep
  <2>1. OneOwner'
    BY <1>10, <1>2, <1>3, <1>6, <1>7 DEF OneOwner
  <2>2. PoolKept'
    <3>1. Initial \in Nat /\ Keep \in Nat /\ Initial <= Keep
      BY QueueAssumption
    <3>2. n - 1 \in Nat
      BY <1>1
    <3> QED BY <1>1, <1>2, <1>10, <3>1, <3>2 DEF PoolKept
  <2> QED BY <1>1, <1>2, <1>8, <1>9, <1>10, <2>1, <2>2
<1>11. CASE unused' = Append(unused, o)
  <2>1. /\ unused' \in Seq(Objects) /\ Len(unused') = m + 1
        /\ \A j \in 1..(m + 1) : unused'[j] = IF j <= m THEN unused[j] ELSE o
    BY <1>1, <1>11, AppendSeq
  <2>2. \A j, k \in 1..(m + 1) : unused'[j] = unused'[k] => j = k
    BY <1>1, <1>3, <2>1
  <2>3. \A j \in 1..(n - 1), k \in 1..(m + 1) : ready'[j] /= unused'[k]
    BY <1>1, <1>5, <1>7, <2>1
  <2>4. OneOwner'
    BY <1>2, <1>6, <2>1, <2>2, <2>3 DEF OneOwner
  <2>5. PoolKept'
    BY <1>1, <1>2, <2>1 DEF IInv, PoolKept
  <2> QED BY <1>2, <1>8, <1>9, <2>1, <2>4, <2>5
<1> QED BY <1>4, <1>10, <1>11

\* Release frees the object that was handled and ends its handling.
LEMMA ReleaseStep ==
    ASSUME IInv, NEW stale \in BOOLEAN, Release(stale)
    PROVE  /\ IInv'
           /\ Current /= NoEvent /\ Current' = NoEvent
           /\ View /= <<>> /\ View' = Tail(View)
<1>1. /\ ready \in Seq(Objects) /\ ready /= <<>> /\ held = Head(ready)
      /\ held \in Objects /\ held /= NoObject
  BY DEF Release, IInv, TypeOK, HeldIsFront
<1>2. 1 \in 1..Len(ready) /\ Head(ready) = ready[1]
  BY <1>1, TailSeq
<1>3. \A S : \A s \in Seq(S) : s /= <<>> => Tail(s) = WithoutPlace(s, 1)
  <2> TAKE S
  <2> TAKE s \in Seq(S)
  <2> HAVE s /= <<>>
  <2>1. Len(s) \in Nat \ {0} /\ 1 \in 1..Len(s)
    BY TailSeq
  <2>2. /\ WithoutPlace(s, 1) \in Seq(S) /\ Len(WithoutPlace(s, 1)) = Len(s) - 1
        /\ \A j \in 1..(Len(s) - 1) : WithoutPlace(s, 1)[j] = s[j + 1]
    BY <2>1, WithoutPlaceSeq
  <2>3. /\ Tail(s) \in Seq(S) /\ Len(Tail(s)) = Len(s) - 1
        /\ \A j \in 1..(Len(s) - 1) : Tail(s)[j] = s[j + 1]
    BY TailSeq
  <2> QED BY <2>2, <2>3, SeqEqual
<1>4. /\ ready' = WithoutPlace(ready, 1)
      /\ unused' = Recycled(ready[1], stale)
      /\ event' = event
  BY <1>1, <1>2, <1>3 DEF Release
<1>5. /\ ready' \in Seq(Objects) /\ unused' \in Seq(Objects)
      /\ OneOwner' /\ ReadyHoldEvents' /\ PoolKept'
      /\ View' = WithoutPlace(View, 1)
  BY <1>2, <1>4, FreeStep
<1>6. TypeOK' /\ HeldIsFront'
  BY <1>5 DEF Release, IInv, TypeOK, HeldIsFront
<1>7. View \in Seq(Events) /\ Len(View) = Len(ready) /\ View /= <<>>
  <2>1. View \in Seq(Events) /\ Len(View) = Len(ready)
    BY <1>1 DEF View, IInv, ReadyHoldEvents
  <2> QED BY <2>1, <1>2, EmptySeq
<1>8. Current /= NoEvent /\ Current' = NoEvent
  BY <1>1, <1>2, EventAssumption DEF Current, Release, IInv, ReadyHoldEvents
<1> QED BY <1>3, <1>5, <1>6, <1>7, <1>8 DEF IInv

\* EraseEvents takes out an event anywhere in the queue, while none is handled.
LEMMA EraseStep ==
    ASSUME IInv, NEW stale \in BOOLEAN, EraseNext(stale)
    PROVE  /\ IInv'
           /\ Current = NoEvent /\ Current' = NoEvent
           /\ \E i \in 1..Len(View) : View' = WithoutPlace(View, i)
<1> PICK i \in 1..Len(ready) :
        /\ Matches(i)
        /\ ready' = WithoutPlace(ready, i)
        /\ unused' = Recycled(ready[i], stale)
  BY DEF EraseNext
<1>1. erasing /= {} /\ held = NoObject /\ event' = event
  BY DEF Matches, EraseNext, IInv, HeldIsFront
<1>2. /\ ready' \in Seq(Objects) /\ unused' \in Seq(Objects)
      /\ OneOwner' /\ ReadyHoldEvents' /\ PoolKept'
      /\ View' = WithoutPlace(View, i)
  BY <1>1, FreeStep
<1>3. TypeOK' /\ HeldIsFront'
  BY <1>1, <1>2 DEF EraseNext, IInv, TypeOK, HeldIsFront
<1>4. Len(View) = Len(ready)
  BY DEF View, IInv, TypeOK
<1>5. Current = NoEvent /\ Current' = NoEvent
  BY <1>1 DEF Current, EraseNext
<1> QED BY <1>2, <1>3, <1>4, <1>5 DEF IInv

-----------------------------------------------------------------------------
\* The other steps: none of them changes the queue the game rules see, except
\* that Retreive begins with its first event.
LEMMA RetreiveStep ==
    ASSUME IInv, Retreive
    PROVE  /\ IInv'
           /\ Current = NoEvent
           /\ View /= <<>> /\ View' = View
           /\ Current' = Head(View)
<1>1. /\ ready \in Seq(Objects) /\ ready /= <<>> /\ Len(ready) \in Nat \ {0}
      /\ held' = ready[1] /\ ready[1] \in Objects /\ Head(ready) = ready[1]
  BY TailSeq DEF Retreive, IInv, TypeOK
<1>2. IInv'
  BY <1>1 DEF Retreive, IInv, TypeOK, OneOwner, HeldIsFront, ReadyHoldEvents, PoolKept
<1>3. View \in Seq(Events) /\ Len(View) = Len(ready)
  BY <1>1 DEF View, IInv, ReadyHoldEvents
<1>4. View /= <<>> /\ Head(View) = event[ready[1]]
  <2>1. View /= <<>>
    BY <1>1, <1>3, EmptySeq
  <2>2. Head(View) = View[1]
    BY <1>3, <2>1, TailSeq
  <2> QED BY <1>1, <2>1, <2>2 DEF View
<1>5. View' = View /\ Current = NoEvent /\ Current' = event[ready[1]]
  BY <1>1, QueueAssumption DEF Retreive, View, Current
<1> QED BY <1>2, <1>4, <1>5

LEMMA OtherSteps ==
    ASSUME IInv,
           \/ \E e \in Events : CheckSender(e)
           \/ \E ignore \in BOOLEAN, c \in Clients : SetIgnoreEventsFor(ignore, c)
           \/ \E stale \in BOOLEAN : RetreiveNothing(stale)
           \/ \E to_del \in Predicates : EraseEvents(to_del)
           \/ EraseDone
           \/ UNCHANGED vars
    PROVE  IInv' /\ View' = View /\ Current' = Current
<1>1. ASSUME NEW e \in Events, CheckSender(e)
      PROVE  IInv' /\ View' = View /\ Current' = Current
  BY <1>1 DEF CheckSender, IInv, TypeOK, OneOwner, HeldIsFront, ReadyHoldEvents,
              PoolKept, View, Current
<1>2. ASSUME NEW ignore \in BOOLEAN, NEW c \in Clients, SetIgnoreEventsFor(ignore, c)
      PROVE  IInv' /\ View' = View /\ Current' = Current
  BY <1>2 DEF SetIgnoreEventsFor, IInv, TypeOK, OneOwner, HeldIsFront,
              ReadyHoldEvents, PoolKept, View, Current
<1>3. ASSUME NEW stale \in BOOLEAN, RetreiveNothing(stale)
      PROVE  IInv' /\ View' = View /\ Current' = Current
  <2>1. /\ unused \in Seq(Objects) /\ Len(unused) \in Nat /\ Len(unused) > Keep
        /\ ready = <<>> /\ ready' = <<>> /\ unused' = Popped(unused)
    BY <1>3 DEF RetreiveNothing, IInv, TypeOK
  <2>2. Initial \in Nat /\ Keep \in Nat /\ Initial <= Keep
    BY QueueAssumption
  <2>3. unused /= <<>>
    BY <2>1, <2>2, EmptySeq
  <2>4. /\ unused' \in Seq(Objects) /\ Len(unused') = Len(unused) - 1
        /\ \A j \in 1..(Len(unused) - 1) : unused'[j] = unused[j]
    BY <2>1, <2>3, PoppedSeq
  <2>5. PoolKept'
    BY <2>1, <2>2, <2>4 DEF PoolKept
  <2>6. OneOwner'
    <3>1. \A i \in 1..Len(unused') : i \in 1..Len(unused) /\ unused'[i] = unused[i]
      BY <2>1, <2>4
    <3>2. 1..Len(ready') = {}
      BY <2>1, EmptySeq
    <3> QED BY <3>1, <3>2 DEF IInv, OneOwner
  <2> QED BY <1>3, <2>1, <2>4, <2>5, <2>6
          DEF RetreiveNothing, IInv, TypeOK, HeldIsFront, ReadyHoldEvents, View, Current
<1>4. ASSUME NEW to_del \in Predicates, EraseEvents(to_del)
      PROVE  IInv' /\ View' = View /\ Current' = Current
  <2>1. to_del \subseteq Events
    BY DEF Predicates
  <2> QED BY <1>4, <2>1 DEF EraseEvents, IInv, TypeOK, OneOwner, HeldIsFront,
                            ReadyHoldEvents, PoolKept, View, Current
<1>5. CASE EraseDone \/ UNCHANGED vars
  BY <1>5 DEF EraseDone, vars, IInv, TypeOK, OneOwner, HeldIsFront,
              ReadyHoldEvents, PoolKept, View, Current
<1> QED BY <1>1, <1>2, <1>3, <1>4, <1>5

-----------------------------------------------------------------------------
\* Every step keeps the invariant and is a step of EventQueue or no step of it.
LEMMA Step == IInv /\ [Next]_vars => IInv' /\ [Queue!Next]_(Queue!vars)
<1> SUFFICES ASSUME IInv, [Next]_vars
             PROVE  IInv' /\ [Queue!Next]_(Queue!vars)
  OBVIOUS
<1> USE DEF View, Current
<1>1. ASSUME NEW e \in Events, Create(e)
      PROVE  IInv' /\ Queue!Post(e)
  <2>1. Store(e) /\ checked' \in Events \union {NoEvent}
    BY <1>1 DEF Create, IInv, TypeOK
  <2> QED BY <2>1, StoreStep DEF Queue!Post
<1>2. CASE CreateChecked
  <2>1. Store(checked) /\ checked \in Events /\ checked' \in Events \union {NoEvent}
    BY <1>2 DEF CreateChecked, IInv, TypeOK
  <2>2. IInv' /\ Queue!Post(checked)
    BY <2>1, StoreStep DEF Queue!Post
  <2> QED BY <2>1, <2>2 DEF Queue!Next, Queue!Post
<1>3. CASE Retreive
  BY <1>3, RetreiveStep DEF Queue!Next, Queue!Begin
<1>4. ASSUME NEW stale \in BOOLEAN, Release(stale)
      PROVE  IInv' /\ Queue!End
  BY <1>4, ReleaseStep DEF Queue!End
<1>5. ASSUME NEW stale \in BOOLEAN, EraseNext(stale)
      PROVE  IInv' /\ Queue!Next
  <2>1. PICK i \in 1..Len(View) : View' = WithoutPlace(View, i)
    BY <1>5, EraseStep
  <2>2. IInv' /\ Queue!Discard(i)
    BY <1>5, <2>1, EraseStep DEF Queue!Discard, Queue!WithoutPlace, WithoutPlace
  <2> QED BY <2>1, <2>2 DEF Queue!Next
<1>6. CASE \/ \E e \in Events : CheckSender(e)
           \/ \E ignore \in BOOLEAN, c \in Clients : SetIgnoreEventsFor(ignore, c)
           \/ \E stale \in BOOLEAN : RetreiveNothing(stale)
           \/ \E to_del \in Predicates : EraseEvents(to_del)
           \/ EraseDone
           \/ UNCHANGED vars
  BY <1>6, OtherSteps DEF Queue!vars
<1> QED BY <1>1, <1>2, <1>3, <1>4, <1>5, <1>6 DEF Next, Queue!Next

\* The invariant holds in every state that posting, handling and erasing reach.
THEOREM Invariance == Spec => []IInv
<1>1. Init => IInv
  BY InitIInv
<1>2. IInv /\ [Next]_vars => IInv'
  BY Step
<1> QED BY <1>1, <1>2, PTL DEF Spec

\* The objects, the event of each, the queue, the unused ones and the one that
\* is handled keep their types (game_sv_event_queue.h:11-16).
THEOREM TypeCorrect == Spec => []TypeOK
<1>1. IInv => TypeOK
  BY DEF IInv
<1> QED BY <1>1, Invariance, PTL

\* No event object is in two places: no event is handled twice or overwritten.
THEOREM ObjectsHaveOneOwner == Spec => []OneOwner
<1>1. IInv => OneOwner
  BY DEF IInv
<1> QED BY <1>1, Invariance, PTL

\* Release frees the event that was handled: nothing changes the front of the
\* queue between Retreive and Release.
THEOREM ReleaseFreesTheHandled == Spec => []HeldIsFront
<1>1. IInv => HeldIsFront
  BY DEF IInv
<1> QED BY <1>1, Invariance, PTL

\* The pool never shrinks below what the constructor made.
THEOREM PoolIsKept == Spec => []PoolKept
<1>1. IInv => PoolKept
  BY DEF IInv
<1> QED BY <1>1, Invariance, PTL

\* The recycled objects implement the queue the game rules expect.
THEOREM Refinement == Spec => ImplementsEventQueue
<1>1. Init => Queue!Init
  BY InitIInv DEF Queue!Init, View, Current
<1>2. IInv /\ [Next]_vars => [Queue!Next]_(Queue!vars)
  BY Step
<1> QED BY <1>1, <1>2, Invariance, PTL DEF Spec, Queue!Spec, ImplementsEventQueue
=============================================================================
