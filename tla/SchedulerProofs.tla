--------------------------- MODULE SchedulerProofs ---------------------------
(***************************************************************************)
(* Proofs about Scheduler, for any objects, kinds and bounds: the lists    *)
(* and the queued requests agree with what was asked for, and the loops    *)
(* call what is registered, once.                                          *)
(***************************************************************************)
EXTENDS Scheduler, SequenceTheorems, WellFoundedInduction, TLAPS

\* t is s without its place k.
Drops(t, s, k) ==
    /\ Len(s) \in Nat /\ k \in 1..Len(s) /\ Len(t) = Len(s) - 1
    /\ \A j \in 1..Len(t) : t[j] = IF j < k THEN s[j] ELSE s[j + 1]

\* t is s with one more at its end.
Adds(t, s, e) ==
    /\ Len(s) \in Nat /\ Len(t) = Len(s) + 1
    /\ \A j \in 1..Len(s) : t[j] = s[j]
    /\ t[Len(t)] = e

Agree == \A o \in Objects : Leads(registration, o, Present, wanted)

\* Outside of the loops nothing is called or done; Update clears ItemsProcessed.
Phases ==
    /\ phase /= "normal" => processed = <<>>
    /\ ~ Processing => updating = NoObject

\* While the loops run, requests are queued for what they cannot find only.
Settled ==
    Processing =>
        \A o \in Objects \intersect ObjectsIn(registration) :
            /\ o \notin ObjectsIn(itemsRT) \union ObjectsIn(items)
            /\ phase = "normal" => o /= updating

\* What the loops have yet to reach was not called in this frame.
Unserved ==
    /\ phase = "realtime" =>
          \A i \in 1..Len(itemsRT) :
              i > it \/ (i = it /\ updating = NoObject) => itemsRT[i].object \notin served
    /\ Processing => \A o \in Objects \intersect ObjectsIn(items) : o \notin served

IInv == TypeOK /\ Phases /\ OneItem /\ Agree /\ FoundWhereSought /\ Settled /\ Unserved

-----------------------------------------------------------------------------
(* Sequences.                                                              *)

LEMMA RemoveAtDrops ==
  ASSUME NEW S, NEW s \in Seq(S), NEW i \in 1..Len(s)
  PROVE  RemoveAt(s, i) \in Seq(S) /\ Drops(RemoveAt(s, i), s, i)
<1> DEFINE front == SubSeq(s, 1, i - 1)
           back == SubSeq(s, i + 1, Len(s))
<1>1. Len(s) \in Nat /\ \A j \in 1..Len(s) : s[j] \in S
  BY LenProperties, ElementOfSeq
<1>2. /\ front \in Seq(S) /\ Len(front) = i - 1
      /\ \A j \in 1..(i - 1) : front[j] = s[j]
  <2>1. \A j \in 1..(i - 1) : s[j] \in S
    BY <1>1
  <2>2. 1 \in Int /\ i - 1 \in Int
    BY <1>1
  <2>3. /\ front \in Seq(S)
        /\ Len(front) = IF 1 <= i - 1 THEN (i - 1) - 1 + 1 ELSE 0
        /\ \A j \in 1..((i - 1) - 1 + 1) : front[j] = s[1 + j - 1]
    BY <2>1, <2>2, SubSeqProperties
  <2> QED BY <1>1, <2>3
<1>3. /\ back \in Seq(S) /\ Len(back) = Len(s) - i
      /\ \A j \in 1..(Len(s) - i) : back[j] = s[i + j]
  <2>1. \A j \in (i + 1)..Len(s) : s[j] \in S
    BY <1>1
  <2>2. i + 1 \in Int /\ Len(s) \in Int
    BY <1>1
  <2>3. /\ back \in Seq(S)
        /\ Len(back) = IF i + 1 <= Len(s) THEN Len(s) - (i + 1) + 1 ELSE 0
        /\ \A j \in 1..(Len(s) - (i + 1) + 1) : back[j] = s[i + 1 + j - 1]
    BY <2>1, <2>2, SubSeqProperties
  <2> QED BY <1>1, <2>3
<1> HIDE DEF front, back
<1>4. /\ front \o back \in Seq(S) /\ Len(front \o back) = Len(front) + Len(back)
      /\ \A j \in 1..(Len(front) + Len(back)) :
            (front \o back)[j] = IF j <= Len(front) THEN front[j] ELSE back[j - Len(front)]
  BY <1>2, <1>3, ConcatProperties
<1>5. \A j \in 1..(Len(s) - 1) : (front \o back)[j] = IF j < i THEN s[j] ELSE s[j + 1]
  <2> SUFFICES ASSUME NEW j \in 1..(Len(s) - 1)
               PROVE  (front \o back)[j] = IF j < i THEN s[j] ELSE s[j + 1]
    OBVIOUS
  <2>1. CASE j < i
    BY <1>1, <1>2, <1>3, <1>4, <2>1
  <2>2. CASE j >= i
    <3>1. j - (i - 1) \in 1..(Len(s) - i) /\ i + (j - (i - 1)) = j + 1
      BY <1>1, <2>2
    <3>2. (front \o back)[j] = back[j - (i - 1)]
      BY <1>1, <1>2, <1>3, <1>4, <2>2
    <3>3. back[j - (i - 1)] = s[i + (j - (i - 1))]
      BY <1>3, <3>1
    <3>4. ~ (j < i) /\ i \in Int /\ j \in Int
      BY <1>1, <2>2
    <3>5. (front \o back)[j] = s[j + 1]
      BY <3>1, <3>2, <3>3
    <3> QED BY <3>4, <3>5
  <2>3. j < i \/ j >= i
    BY <1>1
  <2> QED BY <2>1, <2>2, <2>3
<1>6. RemoveAt(s, i) = front \o back
  BY DEF RemoveAt, front, back
<1>7. Len(front \o back) = Len(s) - 1
  BY <1>1, <1>2, <1>3, <1>4
<1> HIDE DEF Drops
<1>8. Drops(front \o back, s, i)
  BY <1>1, <1>5, <1>7 DEF Drops
<1> QED BY <1>4, <1>6, <1>8

LEMMA TailDrops ==
  ASSUME NEW S, NEW s \in Seq(S), s /= <<>>
  PROVE  Tail(s) \in Seq(S) /\ Drops(Tail(s), s, 1) /\ Head(s) = s[1] /\ s[1] \in S
<1>1. Len(s) \in Nat \ {0}
  BY EmptySeq
<1> QED BY <1>1, HeadTailProperties, ElementOfSeq DEF Drops

LEMMA AppendAdds ==
  ASSUME NEW S, NEW s \in Seq(S), NEW e \in S
  PROVE  Append(s, e) \in Seq(S) /\ Adds(Append(s, e), s, e)
BY AppendProperties, LenProperties DEF Adds

\* The least of a set of numbers.
LEMMA Least ==
  ASSUME NEW T, T \subseteq Nat, T /= {}
  PROVE  \E x \in T : \A y \in T : x <= y
<1>1. PICK x \in T : \A y \in T : ~ (<<y, x>> \in OpToRel(<, Nat))
  BY NatLessThanWellFounded, WFMin
<1>2. ASSUME NEW y \in T PROVE x <= y
  <2>1. ~ (y < x)
    BY <1>1 DEF OpToRel
  <2>2. x \in Nat /\ y \in Nat
    OBVIOUS
  <2> QED BY <2>1, <2>2
<1> QED BY <1>2

\* The place where Drops moves place i of s to.
LEMMA DropsMoves ==
  ASSUME NEW t, NEW s, NEW k, Drops(t, s, k), NEW i \in 1..Len(s), i /= k
  PROVE  LET j == IF i < k THEN i ELSE i - 1 IN j \in 1..Len(t) /\ t[j] = s[i]
BY DEF Drops

-----------------------------------------------------------------------------
(* What is in a list.                                                      *)

LEMMA DropsObjects ==
  ASSUME NEW t, NEW s, NEW k, Drops(t, s, k), Distinct(s)
  PROVE  /\ Distinct(t)
         /\ ObjectsIn(t) \subseteq ObjectsIn(s)
         /\ s[k].object \in ObjectsIn(s)
         /\ \A o \in Objects : o \in ObjectsIn(t) <=> o \in ObjectsIn(s) /\ o /= s[k].object
<1>1. \A i \in 1..Len(s) : i /= k =>
          \E j \in 1..Len(t) : t[j] = s[i]
  BY DropsMoves
<1>2. \A j \in 1..Len(t) : \E i \in 1..Len(s) : i /= k /\ t[j] = s[i]
  <2> TAKE j \in 1..Len(t)
  <2>1. CASE j < k
    BY <2>1 DEF Drops
  <2>2. CASE j >= k
    BY <2>2 DEF Drops
  <2> QED BY <2>1, <2>2 DEF Drops
<1>3. Distinct(t)
  BY DEF Distinct, Drops
<1>4. ObjectsIn(t) \subseteq ObjectsIn(s)
  BY <1>2 DEF ObjectsIn
<1>5. s[k].object \in ObjectsIn(s)
  BY DEF ObjectsIn, Drops
<1>6. \A o \in Objects : o \in ObjectsIn(t) => o /= s[k].object
  BY <1>2 DEF ObjectsIn, Drops, Distinct
<1>7. \A o \in ObjectsIn(s) : o /= s[k].object => o \in ObjectsIn(t)
  BY <1>1 DEF ObjectsIn
<1> QED BY <1>3, <1>4, <1>5, <1>6, <1>7

LEMMA AddsObjects ==
  ASSUME NEW t, NEW s, NEW e, Adds(t, s, e), Distinct(s), e.object \notin ObjectsIn(s)
  PROVE  Distinct(t) /\ ObjectsIn(t) = ObjectsIn(s) \union {e.object}
<1>1. \A j \in 1..Len(t) : (j \in 1..Len(s) /\ t[j] = s[j]) \/ (j = Len(t) /\ t[j] = e)
  BY DEF Adds
<1>2. \A j \in 1..Len(s) : j \in 1..Len(t) /\ t[j] = s[j]
  BY DEF Adds
<1>3. Len(t) \in 1..Len(t) /\ t[Len(t)] = e
  BY DEF Adds
<1>4. \A j \in 1..Len(s) : s[j].object /= e.object
  BY DEF ObjectsIn
<1>5. Distinct(t)
  BY <1>1, <1>4 DEF Distinct
<1>6. ObjectsIn(t) = ObjectsIn(s) \union {e.object}
  BY <1>1, <1>2, <1>3 DEF ObjectsIn
<1> QED BY <1>5, <1>6

LEMMA ConcatObjects ==
  ASSUME NEW S, NEW s \in Seq(S), NEW t \in Seq(S), Distinct(s), Distinct(t),
         \A o \in ObjectsIn(t) : o \notin ObjectsIn(s)
  PROVE  Distinct(s \o t) /\ ObjectsIn(s \o t) = ObjectsIn(s) \union ObjectsIn(t)
<1> DEFINE u == s \o t
<1>1. /\ Len(s) \in Nat /\ Len(t) \in Nat /\ Len(u) = Len(s) + Len(t)
      /\ \A i \in 1..(Len(s) + Len(t)) : u[i] = IF i <= Len(s) THEN s[i] ELSE t[i - Len(s)]
  BY ConcatProperties, LenProperties
<1> HIDE DEF u
<1>2. \A i \in 1..Len(u) :
          \/ i \in 1..Len(s) /\ u[i] = s[i]
          \/ i > Len(s) /\ i - Len(s) \in 1..Len(t) /\ u[i] = t[i - Len(s)]
  BY <1>1
<1>3. \A i \in 1..Len(s) : i \in 1..Len(u) /\ u[i] = s[i]
  BY <1>1
<1>4. \A i \in 1..Len(t) : i + Len(s) \in 1..Len(u) /\ u[i + Len(s)] = t[i]
  BY <1>1
<1>5. \A i \in 1..Len(s), j \in 1..Len(t) : s[i].object /= t[j].object
  BY DEF ObjectsIn
<1>6. Distinct(u)
  <2> SUFFICES ASSUME NEW i \in 1..Len(u), NEW j \in 1..Len(u),
                      u[i].object = u[j].object, u[i].object \in Objects
               PROVE  i = j
    BY DEF Distinct
  <2>1. CASE i \in 1..Len(s) /\ j \in 1..Len(s)
    BY <1>1, <2>1 DEF Distinct
  <2>2. CASE i > Len(s) /\ j > Len(s)
    <3>1. i - Len(s) = j - Len(s)
      BY <1>1, <1>2, <2>2 DEF Distinct
    <3> QED BY <1>1, <3>1
  <2> QED BY <1>1, <1>2, <1>5, <2>1, <2>2
<1>7. ObjectsIn(u) = ObjectsIn(s) \union ObjectsIn(t)
  <2>1. ObjectsIn(u) \subseteq ObjectsIn(s) \union ObjectsIn(t)
    BY <1>2 DEF ObjectsIn
  <2>2. ObjectsIn(s) \subseteq ObjectsIn(u)
    BY <1>3 DEF ObjectsIn
  <2>3. ObjectsIn(t) \subseteq ObjectsIn(u)
    BY <1>4 DEF ObjectsIn
  <2> QED BY <2>1, <2>2, <2>3
<1> QED BY <1>6, <1>7 DEF u

\* An item loses its object.
LEMMA NullObjects ==
  ASSUME NEW s \in Seq(Item), NEW k \in 1..Len(s), Distinct(s), s[k].object \in Objects
  PROVE  LET t == [s EXCEPT ![k].object = NoObject] IN
         /\ t \in Seq(Item) /\ Distinct(t)
         /\ \A o \in Objects : o \in ObjectsIn(t) <=> o \in ObjectsIn(s) /\ o /= s[k].object
<1> DEFINE t == [s EXCEPT ![k].object = NoObject]
           e == [s[k] EXCEPT !.object = NoObject]
<1>1. s[k] \in Item /\ Len(s) \in Nat /\ s \in [1..Len(s) -> Item]
  BY ElementOfSeq, LenProperties
<1>2. e \in Item /\ e.object = NoObject
  BY <1>1 DEF Item
<1>3. t = [s EXCEPT ![k] = e]
  BY <1>1
<1> HIDE DEF t, e
<1>4. /\ t \in Seq(Item) /\ Len(t) = Len(s)
      /\ \A j \in 1..Len(s) : t[j] = IF j = k THEN e ELSE s[j]
  BY <1>2, <1>3, ExceptSeq
<1>5. NoObject \notin Objects
  BY SchedulerAssumption
<1>6. Distinct(t)
  BY <1>2, <1>4, <1>5 DEF Distinct
<1>7. ASSUME NEW o \in Objects
      PROVE  o \in ObjectsIn(t) <=> o \in ObjectsIn(s) /\ o /= s[k].object
  <2>1. o \in ObjectsIn(t) => o \in ObjectsIn(s) /\ o /= s[k].object
    BY <1>2, <1>4, <1>5 DEF ObjectsIn, Distinct
  <2>2. o \in ObjectsIn(s) /\ o /= s[k].object => o \in ObjectsIn(t)
    BY <1>4 DEF ObjectsIn
  <2> QED BY <2>1, <2>2
<1> QED BY <1>4, <1>6, <1>7 DEF t

-----------------------------------------------------------------------------
(* The requests for an object.                                             *)

LEMMA LeadsDropsOther ==
  ASSUME NEW t, NEW s, NEW k, Drops(t, s, k), NEW o, s[k].object /= o
  PROVE  /\ o \notin ObjectsIn(t) <=> o \notin ObjectsIn(s)
         /\ \A j \in 1..Len(t) : IsFirstOf(t, o, j) =>
               \E i \in 1..Len(s) : IsFirstOf(s, o, i) /\ t[j] = s[i]
         /\ \A from, to : Leads(s, o, from, to) => Leads(t, o, from, to)
<1> DEFINE Up(j) == IF j < k THEN j ELSE j + 1
           Down(i) == IF i < k THEN i ELSE i - 1
<1>1. \A j \in 1..Len(t) : Up(j) \in 1..Len(s) /\ t[j] = s[Up(j)]
  BY DEF Drops
<1>2. \A i \in 1..Len(s) : i /= k => Down(i) \in 1..Len(t) /\ t[Down(i)] = s[i]
  BY DropsMoves
<1>3. k \in 1..Len(s) /\ Len(s) \in Nat /\ Len(t) = Len(s) - 1
  BY DEF Drops
<1>4. o \notin ObjectsIn(t) <=> o \notin ObjectsIn(s)
  <2>1. o \in ObjectsIn(t) => o \in ObjectsIn(s)
    BY <1>1 DEF ObjectsIn
  <2>2. o \in ObjectsIn(s) => o \in ObjectsIn(t)
    BY <1>2 DEF ObjectsIn
  <2> QED BY <2>1, <2>2
<1>5. ASSUME NEW j \in 1..Len(t), IsFirstOf(t, o, j)
      PROVE  IsFirstOf(s, o, Up(j))
  <2>1. \A i \in 1..(Up(j) - 1) : i /= k => Down(i) \in 1..(j - 1)
    BY <1>3
  <2>2. t[j].object = o /\ \A i \in 1..(j - 1) : t[i].object /= o
    BY <1>5 DEF IsFirstOf
  <2>3. ASSUME NEW i \in 1..(Up(j) - 1), i /= k PROVE s[i].object /= o
    <3>1. Down(i) \in 1..(j - 1) /\ i \in 1..Len(s)
      BY <1>1, <1>3, <2>1, <2>3
    <3> HIDE DEF Up, Down
    <3> QED BY <1>2, <2>2, <2>3, <3>1
  <2> HIDE DEF Up
  <2> QED BY <1>1, <2>2, <2>3 DEF IsFirstOf
<1>6. ASSUME NEW j \in 1..Len(t), IsLastOf(t, o, j)
      PROVE  IsLastOf(s, o, Up(j))
  <2>1. \A i \in (Up(j) + 1)..Len(s) : i /= k => Down(i) \in (j + 1)..Len(t)
    BY <1>3
  <2> QED BY <1>1, <1>2, <1>3, <1>6, <2>1 DEF IsLastOf
<1>7. ASSUME NEW j \in 1..Len(t), NEW l \in 1..Len(t), IsNextOf(t, o, j, l)
      PROVE  IsNextOf(s, o, Up(j), Up(l))
  <2>1. \A i \in (Up(j) + 1)..(Up(l) - 1) : i /= k => Down(i) \in (j + 1)..(l - 1)
    BY <1>3
  <2>2. Up(j) < Up(l)
    BY <1>3, <1>7 DEF IsNextOf
  <2>3. /\ t[j].object = o /\ t[l].object = o
        /\ \A i \in (j + 1)..(l - 1) : t[i].object /= o
    BY <1>7 DEF IsNextOf
  <2>4. ASSUME NEW i \in (Up(j) + 1)..(Up(l) - 1), i /= k PROVE s[i].object /= o
    <3>1. Down(i) \in (j + 1)..(l - 1) /\ i \in 1..Len(s)
      BY <1>1, <1>3, <2>1, <2>4
    <3> HIDE DEF Up, Down
    <3> QED BY <1>2, <2>3, <2>4, <3>1
  <2> HIDE DEF Up
  <2> QED BY <1>1, <2>2, <2>3, <2>4 DEF IsNextOf
<1>8. ASSUME NEW from, NEW to, Leads(s, o, from, to)
      PROVE  Leads(t, o, from, to)
  BY <1>1, <1>4, <1>5, <1>6, <1>7, <1>8 DEF Leads, ObjectsIn
<1> QED BY <1>1, <1>4, <1>5, <1>8

LEMMA LeadsDropsOwn ==
  ASSUME NEW t, NEW s, NEW k, Drops(t, s, k), NEW o, IsFirstOf(s, o, k),
         NEW from, NEW to, Leads(s, o, from, to),
         NEW then, s[k].op <=> o \in then
  PROVE  Leads(t, o, then, to)
<1>1. /\ k \in 1..Len(s) /\ Len(s) \in Nat /\ Len(t) = Len(s) - 1
      /\ s[k].object = o /\ \A i \in 1..(k - 1) : s[i].object /= o
  BY DEF Drops, IsFirstOf
<1>2. \A j \in 1..(k - 1) : j \in 1..Len(t) /\ t[j] = s[j] /\ t[j].object /= o
  BY <1>1 DEF Drops
<1>3. \A j \in k..Len(t) : t[j] = s[j + 1] /\ j + 1 \in 1..Len(s)
  BY <1>1 DEF Drops
<1>4. \A i \in (k + 1)..Len(s) : i - 1 \in 1..Len(t) /\ t[i - 1] = s[i]
  BY <1>1 DEF Drops
<1>5. o \notin ObjectsIn(t) => (o \in then <=> o \in to)
  <2> HAVE o \notin ObjectsIn(t)
  <2>1. IsLastOf(s, o, k)
    BY <1>1, <1>4 DEF IsLastOf, ObjectsIn
  <2> QED BY <1>1, <2>1 DEF Leads
<1>6. ASSUME NEW j \in 1..Len(t), IsFirstOf(t, o, j)
      PROVE  t[j].op <=> o \notin then
  <2>1. j >= k /\ t[j] = s[j + 1] /\ j + 1 \in 1..Len(s)
    BY <1>1, <1>2, <1>3, <1>6 DEF IsFirstOf
  <2>2. \A i \in (k + 1)..j : i - 1 \in 1..(j - 1) /\ s[i].object /= o
    BY <1>1, <1>4, <1>6, <2>1 DEF IsFirstOf
  <2>3. IsNextOf(s, o, k, j + 1)
    BY <1>1, <1>6, <2>1, <2>2 DEF IsNextOf, IsFirstOf
  <2> QED BY <1>1, <2>1, <2>3 DEF Leads
<1>7. ASSUME NEW j \in 1..Len(t), IsLastOf(t, o, j)
      PROVE  t[j].op <=> o \in to
  <2>1. j >= k /\ t[j] = s[j + 1] /\ j + 1 \in 1..Len(s)
    BY <1>1, <1>2, <1>3, <1>7 DEF IsLastOf
  <2>2. \A i \in (j + 2)..Len(s) : i - 1 \in (j + 1)..Len(t) /\ s[i].object /= o
    <3>1. \A m \in (j + 1)..Len(t) : t[m].object /= o
      BY <1>7 DEF IsLastOf
    <3>2. \A i \in (j + 2)..Len(s) :
              i - 1 \in (j + 1)..Len(t) /\ i \in (k + 1)..Len(s)
      BY <1>1, <2>1
    <3> QED BY <1>4, <3>1, <3>2
  <2>3. IsLastOf(s, o, j + 1)
    BY <1>1, <1>7, <2>1, <2>2 DEF IsLastOf
  <2> QED BY <1>1, <2>1, <2>3 DEF Leads
<1>8. ASSUME NEW j \in 1..Len(t), NEW l \in 1..Len(t), IsNextOf(t, o, j, l)
      PROVE  t[j].op <=> ~ t[l].op
  <2>1. /\ j >= k /\ t[j] = s[j + 1] /\ j + 1 \in 1..Len(s)
        /\ l >= k /\ t[l] = s[l + 1] /\ l + 1 \in 1..Len(s)
    BY <1>1, <1>2, <1>3, <1>8 DEF IsNextOf
  <2>2. \A i \in (j + 2)..l : i - 1 \in (j + 1)..(l - 1) /\ s[i].object /= o
    <3>1. \A m \in (j + 1)..(l - 1) : t[m].object /= o
      BY <1>8 DEF IsNextOf
    <3>2. \A i \in (j + 2)..l : i - 1 \in (j + 1)..(l - 1) /\ i \in (k + 1)..Len(s)
      BY <1>1, <2>1
    <3> QED BY <1>4, <3>1, <3>2
  <2>3. IsNextOf(s, o, j + 1, l + 1)
    BY <1>1, <1>8, <2>1, <2>2 DEF IsNextOf
  <2> QED BY <1>1, <2>1, <2>3 DEF Leads
<1> QED BY <1>5, <1>6, <1>7, <1>8 DEF Leads, ObjectsIn

LEMMA LeadsAddsOther ==
  ASSUME NEW t, NEW s, NEW e, Adds(t, s, e), NEW o, e.object /= o
  PROVE  /\ o \notin ObjectsIn(t) <=> o \notin ObjectsIn(s)
         /\ \A j \in 1..Len(t) : IsFirstOf(t, o, j) =>
               j \in 1..Len(s) /\ IsFirstOf(s, o, j) /\ t[j] = s[j]
         /\ \A from, to : Leads(s, o, from, to) => Leads(t, o, from, to)
<1>1. /\ Len(s) \in Nat /\ Len(t) = Len(s) + 1
      /\ \A j \in 1..Len(s) : j \in 1..Len(t) /\ t[j] = s[j]
      /\ t[Len(t)].object /= o
  BY DEF Adds
<1>2. \A j \in 1..Len(t) : t[j].object = o => j \in 1..Len(s)
  BY <1>1
<1>3. o \notin ObjectsIn(t) <=> o \notin ObjectsIn(s)
  BY <1>1, <1>2 DEF ObjectsIn
<1>4. ASSUME NEW j \in 1..Len(t), IsFirstOf(t, o, j)
      PROVE  j \in 1..Len(s) /\ IsFirstOf(s, o, j) /\ t[j] = s[j]
  BY <1>1, <1>2, <1>4 DEF IsFirstOf
<1>5. ASSUME NEW j \in 1..Len(t), IsLastOf(t, o, j)
      PROVE  j \in 1..Len(s) /\ IsLastOf(s, o, j) /\ t[j] = s[j]
  BY <1>1, <1>2, <1>5 DEF IsLastOf
<1>6. ASSUME NEW j \in 1..Len(t), NEW l \in 1..Len(t), IsNextOf(t, o, j, l)
      PROVE  /\ j \in 1..Len(s) /\ l \in 1..Len(s) /\ IsNextOf(s, o, j, l)
             /\ t[j] = s[j] /\ t[l] = s[l]
  BY <1>1, <1>2, <1>6 DEF IsNextOf
<1>7. ASSUME NEW from, NEW to, Leads(s, o, from, to)
      PROVE  Leads(t, o, from, to)
  BY <1>3, <1>4, <1>5, <1>6, <1>7 DEF Leads, ObjectsIn
<1> QED BY <1>3, <1>4, <1>7

\* The last request for o, if there is one, tells what it leads to.
LEMMA LastExists ==
  ASSUME NEW s, Len(s) \in Nat, NEW o, o \in ObjectsIn(s)
  PROVE  \E i \in 1..Len(s) : IsLastOf(s, o, i)
<1> DEFINE T == {n \in Nat : n <= Len(s) /\ Len(s) - n \in 1..Len(s) /\ s[Len(s) - n].object = o}
<1>1. T /= {}
  <2>1. PICK i \in 1..Len(s) : s[i].object = o
    BY DEF ObjectsIn
  <2>2. Len(s) - i \in Nat /\ Len(s) - (Len(s) - i) = i
    OBVIOUS
  <2>3. Len(s) - i \in T
    BY <2>1, <2>2
  <2> QED BY <2>3
<1>2. T \subseteq Nat
  OBVIOUS
<1> HIDE DEF T
<1>3. PICK n \in T : \A m \in T : n <= m
  BY <1>1, <1>2, Least
<1>4. n \in Nat /\ Len(s) - n \in 1..Len(s) /\ s[Len(s) - n].object = o
  BY <1>3 DEF T
<1>5. ASSUME NEW j \in ((Len(s) - n) + 1)..Len(s), s[j].object = o
      PROVE  FALSE
  <2>1. Len(s) - j \in Nat /\ Len(s) - (Len(s) - j) = j /\ j \in 1..Len(s) /\ Len(s) - j < n
    BY <1>4
  <2>2. Len(s) - j \in T
    BY <1>5, <2>1 DEF T
  <2> QED BY <1>3, <1>4, <2>1, <2>2
<1> QED BY <1>4, <1>5 DEF IsLastOf

\* And the first, what it leads from.
LEMMA FirstExists ==
  ASSUME NEW s, Len(s) \in Nat, NEW o, o \in ObjectsIn(s)
  PROVE  \E i \in 1..Len(s) : IsFirstOf(s, o, i)
<1> DEFINE T == {n \in 1..Len(s) : s[n].object = o}
<1>1. T /= {} /\ T \subseteq Nat
  BY DEF ObjectsIn
<1>2. PICK n \in T : \A m \in T : n <= m
  BY <1>1, Least
<1> QED BY <1>2 DEF IsFirstOf

LEMMA LeadsAddsOwn ==
  ASSUME NEW t, NEW s, NEW e, Adds(t, s, e), NEW from, NEW to,
         Leads(s, e.object, from, to), e.op <=> e.object \notin to,
         NEW then, e.op <=> e.object \in then
  PROVE  Leads(t, e.object, from, then)
<1> DEFINE o == e.object
<1>1. /\ Len(s) \in Nat /\ Len(t) = Len(s) + 1
      /\ \A j \in 1..Len(s) : j \in 1..Len(t) /\ t[j] = s[j]
      /\ t[Len(t)] = e /\ t[Len(t)].object = o /\ Len(t) \in 1..Len(t)
  BY DEF Adds
<1>2. ASSUME NEW j \in 1..Len(t), IsFirstOf(t, o, j)
      PROVE  t[j].op <=> o \notin from
  <2>1. CASE j \in 1..Len(s)
    BY <1>1, <1>2, <2>1 DEF Leads, IsFirstOf
  <2>2. CASE j = Len(t)
    <3>1. o \notin ObjectsIn(s)
      BY <1>1, <1>2, <2>2 DEF ObjectsIn, IsFirstOf
    <3> QED BY <1>1, <2>2, <3>1 DEF Leads, ObjectsIn
  <2> QED BY <1>1, <2>1, <2>2
<1>3. ASSUME NEW j \in 1..Len(t), IsLastOf(t, o, j)
      PROVE  t[j].op <=> o \in then
  <2>1. j = Len(t)
    BY <1>1, <1>3 DEF IsLastOf
  <2> QED BY <1>1, <2>1
<1>4. ASSUME NEW j \in 1..Len(t), NEW l \in 1..Len(t), IsNextOf(t, o, j, l)
      PROVE  t[j].op <=> ~ t[l].op
  <2>1. j \in 1..Len(s) /\ t[j] = s[j]
    BY <1>1, <1>4 DEF IsNextOf
  <2>2. CASE l \in 1..Len(s)
    <3>1. IsNextOf(s, o, j, l) /\ t[l] = s[l]
      BY <1>1, <1>4, <2>1, <2>2 DEF IsNextOf
    <3> QED BY <2>1, <2>2, <3>1 DEF Leads
  <2>3. CASE l = Len(t)
    <3>1. IsLastOf(s, o, j)
      BY <1>1, <1>4, <2>1, <2>3 DEF IsNextOf, IsLastOf
    <3> QED BY <1>1, <2>1, <2>3, <3>1 DEF Leads
  <2> QED BY <1>1, <2>2, <2>3
<1>5. o \in ObjectsIn(t)
  BY <1>1 DEF ObjectsIn
<1> QED BY <1>2, <1>3, <1>4, <1>5 DEF Leads, ObjectsIn

\* When nothing takes a registration back, it is the only request for its object;
\* when place i does, it is the next one.
LEMMA AfterHead ==
  ASSUME NEW s, Len(s) \in Nat, NEW o, NEW from, NEW to, Leads(s, o, from, to),
         Len(s) >= 1, s[1].object = o, s[1].op,
         NEW j \in 2..Len(s), s[j].object = o
  PROVE  \E i \in 2..j : IsNextOf(s, o, 1, i) /\ ~ s[i].op
<1> DEFINE T == {n \in 2..j : s[n].object = o}
<1>1. T /= {} /\ T \subseteq Nat
  OBVIOUS
<1>2. PICK n \in T : \A m \in T : n <= m
  BY <1>1, Least
<1>3. \A k \in 2..(n - 1) : k \notin T
  BY <1>2
<1>4. IsNextOf(s, o, 1, n)
  BY <1>2, <1>3 DEF IsNextOf
<1> QED BY <1>2, <1>4 DEF Leads

LEMMA LeadsAbsent ==
  ASSUME NEW s, NEW o, o \notin ObjectsIn(s), NEW from, NEW to, o \in from <=> o \in to
  PROVE  Leads(s, o, from, to)
BY DEF Leads, ObjectsIn, IsFirstOf, IsLastOf, IsNextOf

LEMMA LeadsSame ==
  ASSUME NEW s, NEW o, NEW from, NEW to, Leads(s, o, from, to),
         NEW from2, o \in from2 <=> o \in from, NEW to2, o \in to2 <=> o \in to
  PROVE  Leads(s, o, from2, to2)
BY DEF Leads

LEMMA FirstAdds ==
  ASSUME NEW t, NEW s, NEW e, Adds(t, s, e), NEW j \in 1..Len(t), IsFirstOf(t, e.object, j)
  PROVE  \/ j \in 1..Len(s) /\ IsFirstOf(s, e.object, j) /\ t[j] = s[j]
         \/ e.object \notin ObjectsIn(s) /\ t[j] = e
<1>1. CASE j \in 1..Len(s)
  BY <1>1 DEF Adds, IsFirstOf
<1>2. CASE j = Len(t)
  BY <1>2 DEF Adds, IsFirstOf, ObjectsIn
<1> QED BY <1>1, <1>2 DEF Adds

\* A loop renews the items of a list.
LEMMA Renewed ==
  ASSUME NEW S, NEW T, NEW s \in Seq(S), NEW t \in [1..Len(s) -> T],
         \A i \in 1..Len(s) : t[i].object = s[i].object
  PROVE  /\ t \in Seq(T) /\ Len(t) = Len(s)
         /\ ObjectsIn(t) = ObjectsIn(s) /\ (Distinct(s) => Distinct(t))
<1>1. Len(s) \in Nat
  BY LenProperties
<1>2. t \in Seq(T)
  BY <1>1, SeqDef
<1>3. Len(t) = Len(s)
  BY <1>1, <1>2, LenProperties
<1> QED BY <1>2, <1>3 DEF ObjectsIn, Distinct

LEMMA ListedObjects ==
  ASSUME TypeOK
  PROVE  /\ ObjectsIn(itemsRT) \subseteq Objects /\ ObjectsIn(processed) \subseteq Objects
         /\ ObjectsIn(items) \subseteq Objects \union {NoObject}
         /\ ObjectsIn(registration) \subseteq Objects
         /\ NoObject \notin Objects
<1>1. \A i \in 1..Len(itemsRT) : itemsRT[i] \in ItemRT
  BY ElementOfSeq DEF TypeOK
<1>2. \A i \in 1..Len(processed) : processed[i] \in Done
  BY ElementOfSeq DEF TypeOK
<1>3. \A i \in 1..Len(items) : items[i] \in Item
  BY ElementOfSeq DEF TypeOK
<1>4. \A i \in 1..Len(registration) : registration[i] \in Request
  BY ElementOfSeq DEF TypeOK
<1>5. ObjectsIn(itemsRT) \subseteq Objects
  BY <1>1 DEF ObjectsIn, ItemRT
<1>6. ObjectsIn(processed) \subseteq Objects
  BY <1>2 DEF ObjectsIn, Done
<1>7. ObjectsIn(items) \subseteq Objects \union {NoObject}
  BY <1>3 DEF ObjectsIn, Item
<1>8. ObjectsIn(registration) \subseteq Objects
  BY <1>4 DEF ObjectsIn, Request
<1> QED BY <1>5, <1>6, <1>7, <1>8, SchedulerAssumption

-----------------------------------------------------------------------------
(* What changes the lists, and what changes the requests.                  *)

LEMMA SameRequests ==
  ASSUME Agree, FoundWhereSought,
         registration' = registration, wanted' = wanted, rt' = rt,
         \A o \in Objects : /\ o \in Present' <=> o \in Present
                            /\ o \in ObjectsIn(itemsRT') <=> o \in ObjectsIn(itemsRT)
  PROVE  Agree' /\ FoundWhereSought'
<1>1. ASSUME NEW o \in Objects
      PROVE  Leads(registration', o, Present', wanted')
  <2>1. Leads(registration, o, Present, wanted)
    BY DEF Agree
  <2> QED BY <2>1, LeadsSame
<1>2. \A o \in Objects : \A realtime : Names(realtime, o) => Names(realtime, o)'
  BY DEF Names
<1>3. FoundWhereSought'
  BY <1>2 DEF FoundWhereSought, SoughtRight
<1> QED BY <1>1, <1>3 DEF Agree

LEMMA QueueEffect ==
  ASSUME TypeOK, Agree, FoundWhereSought,
         NEW o \in Objects, NEW op \in BOOLEAN, NEW realtime \in BOOLEAN,
         Queue(op, realtime, o), UNCHANGED <<lists, phase, updating>>,
         op <=> o \notin wanted,
         wanted' = IF op THEN wanted \union {o} ELSE wanted \ {o},
         \A p \in Objects : p /= o => rt'[p] = rt[p],
         o \notin ObjectsIn(registration) => Names(realtime, o)
  PROVE  /\ registration' \in Seq(Request) /\ Agree' /\ FoundWhereSought'
         /\ ObjectsIn(registration') \subseteq ObjectsIn(registration) \union {o}
<1> DEFINE e == [op |-> op, rt |-> realtime, object |-> o]
<1>1. e \in Request
  BY DEF Request
<1>2. registration' \in Seq(Request) /\ Adds(registration', registration, e)
  BY <1>1, AppendAdds DEF Queue, TypeOK
<1>3. e.object = o /\ e.op = op /\ e.rt = realtime
  OBVIOUS
<1> HIDE DEF e
<1>4. Present' = Present
  BY DEF Present, Scheduled, lists
<1>5. ASSUME NEW p \in Objects
      PROVE  Leads(registration', p, Present', wanted')
  <2>1. Leads(registration, p, Present, wanted)
    BY DEF Agree
  <2>2. CASE p = o
    <3>1. e.op <=> e.object \in wanted'
      BY <1>3
    <3>2. e.op <=> e.object \notin wanted
      BY <1>3
    <3> QED BY <1>2, <1>3, <1>4, <2>1, <2>2, <3>1, <3>2, LeadsAddsOwn
  <2>3. CASE p /= o
    <3>1. Leads(registration', p, Present, wanted)
      BY <1>2, <1>3, <2>1, <2>3, LeadsAddsOther
    <3> QED BY <1>4, <2>3, <3>1, LeadsSame
  <2> QED BY <2>2, <2>3
<1>6. \A p \in Objects : \A b : Names(b, p)' <=> Names(b, p)
  BY <1>4 DEF Names, lists
<1>7. ASSUME NEW p \in Objects
      PROVE  /\ p \notin ObjectsIn(registration') => Names(rt'[p], p)
             /\ \A i \in 1..Len(registration') :
                   IsFirstOf(registration', p, i) => Names(registration'[i].rt, p)
  <2>1. CASE p = o
    <3>1. p \in ObjectsIn(registration')
      BY <1>2, <1>3, <2>1 DEF Adds, ObjectsIn
    <3>2. ASSUME NEW i \in 1..Len(registration'), IsFirstOf(registration', p, i)
          PROVE  Names(registration'[i].rt, p)
      BY <1>2, <1>3, <2>1, <3>2, FirstAdds DEF FoundWhereSought, SoughtRight
    <3> QED BY <3>1, <3>2
  <2>2. CASE p /= o
    <3>1. /\ p \notin ObjectsIn(registration') <=> p \notin ObjectsIn(registration)
          /\ \A i \in 1..Len(registration') : IsFirstOf(registration', p, i) =>
                /\ i \in 1..Len(registration) /\ IsFirstOf(registration, p, i)
                /\ registration'[i] = registration[i]
      BY <1>2, <1>3, <2>2, LeadsAddsOther
    <3>2. rt'[p] = rt[p]
      BY <2>2
    <3> QED BY <3>1, <3>2 DEF FoundWhereSought, SoughtRight
  <2> QED BY <2>1, <2>2
<1>8. FoundWhereSought'
  BY <1>6, <1>7 DEF FoundWhereSought, SoughtRight
<1>9. ObjectsIn(registration') \subseteq ObjectsIn(registration) \union {o}
  <2>1. \A i \in 1..Len(registration') :
            \/ i \in 1..Len(registration) /\ registration'[i] = registration[i]
            \/ registration'[i] = e
    BY <1>2 DEF Adds
  <2> QED BY <1>3, <2>1 DEF ObjectsIn
<1> QED BY <1>2, <1>5, <1>8, <1>9 DEF Agree

LEMMA UnlistEffect ==
  ASSUME TypeOK, OneItem, NEW o \in Objects, NEW realtime \in BOOLEAN,
         Listed(o, realtime), Unlist(o, realtime)
  PROVE  /\ itemsRT' \in Seq(ItemRT) /\ items' \in Seq(Item) /\ processed' = processed
         /\ Distinct(itemsRT') /\ Distinct(items')
         /\ \A p \in Objects :
               /\ p \in ObjectsIn(itemsRT') <=> p \in ObjectsIn(itemsRT) /\ p /= o
               /\ p \in ObjectsIn(items') <=> p \in ObjectsIn(items) /\ p /= o
         /\ \A i \in 1..Len(itemsRT') :
               \E j \in 1..Len(itemsRT) : j >= i /\ itemsRT'[i] = itemsRT[j]
<1>1. itemsRT \in Seq(ItemRT) /\ items \in Seq(Item) /\ Distinct(itemsRT) /\ Distinct(items)
  BY DEF TypeOK, OneItem
<1>2. CASE realtime
  <2>1. PICK k \in 1..Len(itemsRT) :
            IsFirstOf(itemsRT, o, k) /\ itemsRT' = RemoveAt(itemsRT, k)
    BY <1>2 DEF Unlist
  <2>2. itemsRT' \in Seq(ItemRT) /\ Drops(itemsRT', itemsRT, k)
    BY <1>1, <2>1, RemoveAtDrops
  <2>3. itemsRT[k].object = o
    BY <2>1 DEF IsFirstOf
  <2>4. \A i \in 1..Len(itemsRT') :
            \E j \in 1..Len(itemsRT) : j >= i /\ itemsRT'[i] = itemsRT[j]
    <3> TAKE i \in 1..Len(itemsRT')
    <3>1. CASE i < k
      BY <2>2, <3>1 DEF Drops
    <3>2. CASE i >= k
      <4>1. i + 1 \in 1..Len(itemsRT) /\ i + 1 >= i /\ itemsRT'[i] = itemsRT[i + 1]
        BY <2>2, <3>2 DEF Drops
      <4> QED BY <4>1
    <3> QED BY <2>2, <3>1, <3>2 DEF Drops
  <2>5. items' = items /\ processed' = processed
    BY <1>2 DEF Unlist
  <2>6. o \in ObjectsIn(itemsRT) /\ o \notin ObjectsIn(items)
    BY <1>2 DEF Listed, OneItem
  <2> QED BY <1>1, <2>2, <2>3, <2>4, <2>5, <2>6, DropsObjects
<1>3. CASE ~ realtime
  <2>1. PICK k \in 1..Len(items) :
            IsFirstOf(items, o, k) /\ items' = [items EXCEPT ![k].object = NoObject]
    BY <1>3 DEF Unlist
  <2>2. items[k].object = o
    BY <2>1 DEF IsFirstOf
  <2>3. /\ items' \in Seq(Item) /\ Distinct(items')
        /\ \A p \in Objects : p \in ObjectsIn(items') <=> p \in ObjectsIn(items) /\ p /= o
    BY <1>1, <2>1, <2>2, NullObjects
  <2>4. itemsRT' = itemsRT /\ processed' = processed
    BY <1>3 DEF Unlist
  <2>5. o \notin ObjectsIn(itemsRT)
    BY <1>3 DEF Listed, OneItem
  <2>6. Len(itemsRT) \in Nat
    BY <1>1, LenProperties
  <2> QED BY <1>1, <2>3, <2>4, <2>5, <2>6
<1> QED BY <1>2, <1>3

-----------------------------------------------------------------------------
(* Each step keeps the invariant: the callers'.                            *)

LEMMA RegisterStep ==
  ASSUME IInv, NEW o \in Objects, NEW realtime \in Kinds[o], Register(o, realtime)
  PROVE  IInv'
<1> USE DEF IInv
<1>1. realtime \in BOOLEAN
  BY SchedulerAssumption
<1>2. /\ Callable(o) /\ o \notin wanted /\ Queue(TRUE, realtime, o)
      /\ rt' = [rt EXCEPT ![o] = realtime] /\ wanted' = wanted \union {o}
      /\ UNCHANGED <<lists, loops, since, served>>
  BY DEF Register
<1>3. UNCHANGED <<itemsRT, items, processed, phase, it, round, updating, since, served>>
  BY <1>2 DEF lists, loops
<1>4. Leads(registration, o, Present, wanted)
  BY DEF Agree
<1>5. o \notin ObjectsIn(registration) => o \notin Present
  BY <1>2, <1>4 DEF Leads
<1>6. o \notin ObjectsIn(registration) => Names(realtime, o)
  BY <1>5 DEF Names, Present, Scheduled
<1>7. rt' \in [Objects -> BOOLEAN] /\ \A p \in Objects : p /= o => rt'[p] = rt[p]
  BY <1>1, <1>2 DEF TypeOK
<1>8. /\ registration' \in Seq(Request) /\ Agree' /\ FoundWhereSought'
      /\ ObjectsIn(registration') \subseteq ObjectsIn(registration) \union {o}
  BY <1>1, <1>2, <1>3, <1>6, <1>7, QueueEffect DEF lists
<1>9. TypeOK'
  BY <1>2, <1>3, <1>7, <1>8 DEF TypeOK
<1>10. Phases' /\ OneItem' /\ Unserved'
  BY <1>3 DEF Phases, OneItem, Unserved, Processing, Scheduled
<1>11. Settled'
  <2>1. Processing => o \notin ObjectsIn(itemsRT) \union ObjectsIn(items)
                      /\ (phase = "normal" => o /= updating)
    BY <1>2, <1>5 DEF Settled, Present, Scheduled, Callable
  <2> QED BY <1>3, <1>8, <2>1 DEF Settled, Processing
<1> QED BY <1>8, <1>9, <1>10, <1>11

LEMMA UnregisterStep ==
  ASSUME IInv, NEW o \in Objects, Unregister(o)
  PROVE  IInv'
<1> USE DEF IInv
<1>1. /\ Callable(o) /\ o \in wanted /\ wanted' = wanted \ {o}
      /\ UNCHANGED <<rt, loops, since, served>>
  BY DEF Unregister
<1>2. UNCHANGED <<rt, phase, it, round, updating, since, served>>
  BY <1>1 DEF loops
<1>3. Leads(registration, o, Present, wanted)
  BY DEF Agree
<1>4. o \notin ObjectsIn(registration) => o \in Present /\ Names(rt[o], o)
  BY <1>1, <1>3 DEF Leads, FoundWhereSought, SoughtRight
<1>5. phase = "normal" => o /= updating
  BY <1>1 DEF Callable
<1>6. rt[o] \in BOOLEAN /\ \A p \in Objects : rt'[p] = rt[p]
  BY <1>2 DEF TypeOK
<1>7. CASE Processing /\ Listed(o, rt[o])
  <2>1. Unlist(o, rt[o]) /\ registration' = registration
    BY <1>7 DEF Unregister
  <2>2. /\ itemsRT' \in Seq(ItemRT) /\ items' \in Seq(Item) /\ processed' = processed
        /\ Distinct(itemsRT') /\ Distinct(items')
        /\ \A p \in Objects :
              /\ p \in ObjectsIn(itemsRT') <=> p \in ObjectsIn(itemsRT) /\ p /= o
              /\ p \in ObjectsIn(items') <=> p \in ObjectsIn(items) /\ p /= o
        /\ \A i \in 1..Len(itemsRT') :
              \E j \in 1..Len(itemsRT) : j >= i /\ itemsRT'[i] = itemsRT[j]
    BY <1>6, <1>7, <2>1, UnlistEffect
  <2>3. TypeOK'
    BY <1>1, <1>2, <2>1, <2>2 DEF TypeOK
  <2>4. /\ ObjectsIn(itemsRT') \subseteq Objects /\ ObjectsIn(processed) \subseteq Objects
        /\ NoObject \notin Objects
    BY <2>2, ListedObjects DEF ObjectsIn
  <2>5. OneItem'
    BY <1>2, <2>2, <2>3, <2>4 DEF OneItem, Scheduled, TypeOK
  <2>6. o \in ObjectsIn(itemsRT) \union ObjectsIn(items)
    BY <1>7 DEF Listed
  <2>7. o \notin ObjectsIn(registration) /\ o \notin ObjectsIn(processed)
    BY <1>7, <2>6 DEF Settled, OneItem
  <2>8. \A p \in Objects : p \in Present' <=> p \in Present /\ p /= o
    BY <1>2, <1>5, <2>2, <2>7 DEF Present, Scheduled
  <2>9. Agree'
    <3>1. ASSUME NEW p \in Objects
          PROVE  Leads(registration', p, Present', wanted')
      <4>1. CASE p = o
        <5>1. p \notin Present' /\ p \notin wanted'
          BY <1>1, <2>8, <4>1
        <5> QED BY <2>1, <2>7, <4>1, <5>1, LeadsAbsent
      <4>2. CASE p /= o
        <5>1. p \in Present' <=> p \in Present
          BY <2>8, <4>2
        <5>2. p \in wanted' <=> p \in wanted
          BY <1>1, <4>2
        <5>3. Leads(registration, p, Present, wanted)
          BY DEF Agree
        <5> QED BY <2>1, <5>1, <5>2, <5>3, LeadsSame
      <4> QED BY <4>1, <4>2
    <3> QED BY <3>1 DEF Agree
  <2>10. FoundWhereSought'
    <3>1. \A p \in Objects : \A b : Names(b, p) => Names(b, p)'
      BY <2>2, <2>8 DEF Names
    <3> QED BY <1>6, <2>1, <3>1 DEF FoundWhereSought, SoughtRight
  <2>11. Phases' /\ Settled'
    BY <1>2, <2>1, <2>2 DEF Phases, Settled, Processing
  <2>12. Unserved'
    <3>1. ASSUME phase = "realtime", NEW i \in 1..Len(itemsRT'),
                 i > it \/ (i = it /\ updating = NoObject)
          PROVE  itemsRT'[i].object \notin served
      <4>1. PICK j \in 1..Len(itemsRT) : j >= i /\ itemsRT'[i] = itemsRT[j]
        BY <2>2
      <4>2. Len(itemsRT) \in Nat /\ Len(itemsRT') \in Nat /\ it \in Nat
        BY <2>2, LenProperties DEF TypeOK
      <4>3. j > it \/ (j = it /\ updating = NoObject)
        BY <3>1, <4>1, <4>2
      <4> QED BY <3>1, <4>1, <4>3 DEF Unserved
    <3> QED BY <1>2, <2>2, <3>1 DEF Unserved, Processing
  <2> QED BY <2>3, <2>5, <2>9, <2>10, <2>11, <2>12
<1>8. CASE ~ (Processing /\ Listed(o, rt[o]))
  <2>1. Queue(FALSE, rt[o], o) /\ UNCHANGED lists
    BY <1>8 DEF Unregister
  <2>2. UNCHANGED <<itemsRT, items, processed>>
    BY <2>1 DEF lists
  <2>3. /\ registration' \in Seq(Request) /\ Agree' /\ FoundWhereSought'
        /\ ObjectsIn(registration') \subseteq ObjectsIn(registration) \union {o}
    BY <1>1, <1>2, <1>4, <1>6, <2>1, QueueEffect
  <2>4. TypeOK'
    BY <1>1, <1>2, <2>2, <2>3 DEF TypeOK
  <2>5. Phases' /\ OneItem' /\ Unserved'
    BY <1>2, <2>2 DEF Phases, OneItem, Unserved, Processing, Scheduled
  <2>6. Settled'
    <3>1. Processing => o \notin ObjectsIn(itemsRT) \union ObjectsIn(items)
      BY <1>4, <1>8 DEF Settled, Listed, Names, Present, Scheduled, OneItem
    <3> QED BY <1>2, <1>5, <2>2, <2>3, <3>1 DEF Settled, Processing
  <2> QED BY <2>3, <2>4, <2>5, <2>6
<1> QED BY <1>7, <1>8

-----------------------------------------------------------------------------
(* The requests are done.                                                  *)

LEMMA HeadRequest ==
  ASSUME TypeOK, registration /= <<>>
  PROVE  /\ Tail(registration) \in Seq(Request) /\ Drops(Tail(registration), registration, 1)
         /\ Head(registration) = registration[1]
         /\ registration[1] \in Request /\ registration[1].object \in Objects
         /\ IsFirstOf(registration, registration[1].object, 1)
         /\ Len(registration) \in Nat \ {0} /\ 1 \in 1..Len(registration)
<1>1. /\ Tail(registration) \in Seq(Request) /\ Drops(Tail(registration), registration, 1)
      /\ Head(registration) = registration[1] /\ registration[1] \in Request
  BY TailDrops DEF TypeOK
<1>2. Len(registration) \in Nat \ {0}
  BY EmptySeq DEF TypeOK
<1>3. registration[1].object \in Objects
  BY <1>1 DEF Request
<1>4. IsFirstOf(registration, registration[1].object, 1)
  BY DEF IsFirstOf
<1> QED BY <1>1, <1>2, <1>3, <1>4

\* What the requests for the other objects say does not change with the first.
LEMMA OthersSame ==
  ASSUME Agree, FoundWhereSought, NEW p \in Objects,
         NEW t, registration' = t,
         p \notin ObjectsIn(t) <=> p \notin ObjectsIn(registration),
         \A j \in 1..Len(t) : IsFirstOf(t, p, j) =>
             \E i \in 1..Len(registration) :
                 IsFirstOf(registration, p, i) /\ t[j] = registration[i],
         \A from, to : Leads(registration, p, from, to) => Leads(t, p, from, to),
         p \in Present' <=> p \in Present, wanted' = wanted, rt'[p] = rt[p],
         p \in ObjectsIn(itemsRT') <=> p \in ObjectsIn(itemsRT)
  PROVE  Leads(registration', p, Present', wanted') /\ SoughtRight(p)'
<1>1. Leads(t, p, Present, wanted)
  BY DEF Agree
<1>2. Leads(registration', p, Present', wanted')
  BY <1>1, LeadsSame
<1>3. SoughtRight(p)
  BY DEF FoundWhereSought
<1>4. p \notin ObjectsIn(registration') => Names(rt[p], p)
  BY <1>3 DEF SoughtRight
<1>5. ASSUME NEW i \in 1..Len(registration'), IsFirstOf(registration', p, i)
      PROVE  Names(registration'[i].rt, p)
  BY <1>3, <1>5 DEF SoughtRight
<1>6. \A b : Names(b, p) => Names(b, p)'
  BY DEF Names
<1>7. SoughtRight(p)'
  BY <1>4, <1>5, <1>6 DEF SoughtRight
<1> QED BY <1>2, <1>7

LEMMA SkipPairStep ==
  ASSUME IInv, SkipPair
  PROVE  IInv'
<1> USE DEF IInv
<1> DEFINE rest == Tail(registration)
<1>1. PICK i \in 2..Len(registration) :
          /\ IsPair(i) /\ \A j \in 2..(i - 1) : ~ IsPair(j)
          /\ registration' = Tail(RemoveAt(registration, i))
  BY DEF SkipPair
<1>2. /\ Registering /\ Head(registration).op /\ registration /= <<>>
      /\ UNCHANGED <<itemsRT, items, processed, rt, phase, it, round, updating>>
      /\ UNCHANGED <<wanted, since, served>>
  BY DEF SkipPair, Registering, lists, loops, history
<1>3. PICK o \in Objects :
          /\ rest \in Seq(Request) /\ Drops(rest, registration, 1)
          /\ Head(registration) = registration[1] /\ registration[1].object = o
          /\ registration[1] \in Request
          /\ IsFirstOf(registration, o, 1)
          /\ Len(registration) \in Nat \ {0} /\ 1 \in 1..Len(registration)
  BY <1>2, HeadRequest
<1> HIDE DEF rest
<1>4. registration' \in Seq(Request) /\ Drops(registration', rest, i - 1)
  <2>1. /\ RemoveAt(registration, i) \in Seq(Request)
        /\ Drops(RemoveAt(registration, i), registration, i)
    BY <1>1, <1>3, RemoveAtDrops DEF TypeOK
  <2>2. RemoveAt(registration, i) /= <<>>
    BY <1>1, <1>3, <2>1 DEF Drops
  <2>3. /\ registration' \in Seq(Request)
        /\ Drops(registration', RemoveAt(registration, i), 1)
    BY <1>1, <2>1, <2>2, TailDrops
  <2>4. /\ Len(RemoveAt(registration, i)) = Len(registration) - 1
        /\ Len(rest) = Len(registration) - 1 /\ Len(registration') = Len(rest) - 1
        /\ Len(rest) \in Nat /\ i - 1 \in 1..Len(rest)
    BY <1>1, <1>3, <2>1, <2>3 DEF Drops
  <2>5. ASSUME NEW j \in 1..Len(registration')
        PROVE  registration'[j] = IF j < i - 1 THEN rest[j] ELSE rest[j + 1]
    <3>1. registration'[j] = RemoveAt(registration, i)[j + 1]
      BY <2>3 DEF Drops
    <3>2. RemoveAt(registration, i)[j + 1] =
              IF j + 1 < i THEN registration[j + 1] ELSE registration[j + 2]
      BY <2>1, <2>4 DEF Drops
    <3>3. rest[j] = registration[j + 1] /\ rest[j + 1] = registration[j + 2]
      BY <1>3, <2>4 DEF Drops
    <3>4. j + 1 < i <=> j < i - 1
      BY <2>4
    <3> QED BY <3>1, <3>2, <3>3, <3>4
  <2> QED BY <2>3, <2>4, <2>5 DEF Drops
<1>5. Leads(registration, o, Present, wanted)
  BY <1>3 DEF Agree
<1>6. registration[i].object = o /\ ~ registration[i].op /\ i \in 1..Len(registration)
  BY <1>1, <1>3 DEF IsPair
<1>7. IsNextOf(registration, o, 1, i)
  <2>1. PICK n \in 2..i : IsNextOf(registration, o, 1, n) /\ ~ registration[n].op
    <3>1. Len(registration) >= 1 /\ registration[1].op /\ registration[1].object = o
      BY <1>2, <1>3
    <3>2. i \in 2..Len(registration) /\ registration[i].object = o /\ Len(registration) \in Nat
      BY <1>3, <1>6
    <3> QED BY <1>5, <3>1, <3>2, AfterHead
  <2>2. IsPair(n)
    BY <1>3, <2>1 DEF IsPair, IsNextOf
  <2>3. n = i
    BY <1>1, <2>1, <2>2
  <2> QED BY <2>1, <2>3
<1>8. rest[i - 1] = registration[i] /\ IsFirstOf(rest, o, i - 1)
  BY <1>1, <1>3, <1>6, <1>7 DEF Drops, IsFirstOf, IsNextOf
<1>9. o \notin Present
  BY <1>2, <1>3, <1>5 DEF Leads
<1>10. Present' = Present
  BY <1>2 DEF Present, Scheduled
<1>11. Leads(registration', o, Present', wanted')
  <2>1. Leads(rest, o, {o}, wanted)
    BY <1>2, <1>3, <1>5, LeadsDropsOwn
  <2>2. Leads(registration', o, {}, wanted)
    BY <1>4, <1>6, <1>8, <2>1, LeadsDropsOwn
  <2> QED BY <1>2, <1>9, <1>10, <2>2, LeadsSame
<1>12. SoughtRight(o)'
  <2>1. o \notin ObjectsIn(itemsRT') /\ o \notin Present'
    BY <1>2, <1>9, <1>10 DEF Present, Scheduled
  <2>2. \A b : Names(b, o)'
    BY <2>1 DEF Names
  <2> QED BY <2>2 DEF SoughtRight
<1>13. ASSUME NEW p \in Objects, p /= o
       PROVE  /\ Leads(registration', p, Present', wanted')
              /\ SoughtRight(p)'
  <2>1. registration[1].object /= p /\ rest[i - 1].object /= p
    BY <1>3, <1>6, <1>8, <1>13
  <2>2. /\ p \notin ObjectsIn(rest) <=> p \notin ObjectsIn(registration)
        /\ \A j \in 1..Len(rest) : IsFirstOf(rest, p, j) =>
               \E k \in 1..Len(registration) :
                   IsFirstOf(registration, p, k) /\ rest[j] = registration[k]
        /\ \A from, to : Leads(registration, p, from, to) => Leads(rest, p, from, to)
    BY <1>3, <2>1, LeadsDropsOther
  <2>3. /\ p \notin ObjectsIn(registration') <=> p \notin ObjectsIn(rest)
        /\ \A j \in 1..Len(registration') : IsFirstOf(registration', p, j) =>
               \E k \in 1..Len(rest) : IsFirstOf(rest, p, k) /\ registration'[j] = rest[k]
        /\ \A from, to : Leads(rest, p, from, to) => Leads(registration', p, from, to)
    BY <1>4, <2>1, LeadsDropsOther
  <2>4. /\ p \notin ObjectsIn(registration') <=> p \notin ObjectsIn(registration)
        /\ \A j \in 1..Len(registration') : IsFirstOf(registration', p, j) =>
               \E k \in 1..Len(registration) :
                   IsFirstOf(registration, p, k) /\ registration'[j] = registration[k]
        /\ \A from, to : Leads(registration, p, from, to) => Leads(registration', p, from, to)
    BY <2>2, <2>3
  <2> QED BY <1>2, <1>10, <2>4, OthersSame
<1>14. Agree' /\ FoundWhereSought'
  BY <1>11, <1>12, <1>13 DEF Agree, FoundWhereSought
<1>15. TypeOK' /\ Phases' /\ OneItem'
  BY <1>2, <1>4 DEF TypeOK, Phases, OneItem, Processing, Scheduled
<1>16. Settled' /\ Unserved'
  BY <1>2 DEF Settled, Unserved, Processing, Registering
<1> QED BY <1>14, <1>15, <1>16

LEMMA InternalRegisterStep ==
  ASSUME IInv, InternalRegister
  PROVE  IInv'
<1> USE DEF IInv
<1> DEFINE request == registration[1]
<1>1. registration /= <<>> /\ phase \in {"before", "after"}
  BY DEF InternalRegister, Registering
<1>2. PICK o \in Objects :
          /\ Tail(registration) \in Seq(Request)
          /\ Drops(Tail(registration), registration, 1)
          /\ Head(registration) = request /\ request \in Request
          /\ registration[1] = request /\ registration[1].object = o /\ request.object = o
          /\ IsFirstOf(registration, o, 1)
          /\ Len(registration) \in Nat \ {0} /\ 1 \in 1..Len(registration)
  BY <1>1, HeadRequest
<1>3. /\ request.op /\ request.rt \in BOOLEAN
      /\ \A i \in 2..Len(registration) : ~ IsPair(i)
      /\ registration' = Tail(registration)
      /\ rt' = [rt EXCEPT ![o] = request.rt]
      /\ since' = [since EXCEPT ![o] = 0]
      /\ UNCHANGED <<processed, phase, it, round, updating, wanted, served>>
  BY <1>2 DEF InternalRegister, loops, Request
<1> HIDE DEF request
<1>4. processed = <<>> /\ updating = NoObject /\ ObjectsIn(processed) = {}
  BY <1>1 DEF Phases, Processing, ObjectsIn
<1>5. Leads(registration, o, Present, wanted)
  BY <1>2 DEF Agree
<1>6. o \notin Present
  BY <1>2, <1>3, <1>5 DEF Leads
<1>7. o \notin ObjectsIn(registration')
  <2>1. ASSUME NEW j \in 2..Len(registration), registration[j].object = o
        PROVE  FALSE
    <3>1. PICK n \in 2..j : IsNextOf(registration, o, 1, n) /\ ~ registration[n].op
      <4>1. Len(registration) >= 1 /\ registration[1].op /\ registration[1].object = o
        BY <1>2, <1>3
      <4>2. Len(registration) \in Nat /\ j \in 2..Len(registration)
        BY <1>2
      <4> QED BY <1>5, <2>1, <4>1, <4>2, AfterHead
    <3>2. IsPair(n) /\ n \in 2..Len(registration)
      BY <1>2, <2>1, <3>1 DEF IsPair, IsNextOf
    <3> QED BY <1>3, <3>2
  <2> QED BY <1>2, <1>3, <2>1 DEF Drops, ObjectsIn
<1>8. o \in wanted
  <2>1. Leads(registration', o, {o}, wanted)
    BY <1>2, <1>3, <1>5, LeadsDropsOwn
  <2> QED BY <1>7, <2>1 DEF Leads
<1>9. o \notin ObjectsIn(itemsRT) /\ o \notin ObjectsIn(items)
  BY <1>6 DEF Present, Scheduled
<1>10. /\ itemsRT' \in Seq(ItemRT) /\ items' \in Seq(Item)
       /\ Distinct(itemsRT') /\ Distinct(items')
       /\ ObjectsIn(itemsRT') =
             ObjectsIn(itemsRT) \union (IF request.rt THEN {o} ELSE {})
       /\ ObjectsIn(items') =
             ObjectsIn(items) \union (IF request.rt THEN {} ELSE {o})
  <2> DEFINE new == [object |-> o, elapsed |-> 0]
             due == [object |-> o, due |-> 0]
  <2>1. new \in ItemRT /\ due \in Item /\ new.object = o /\ due.object = o
    BY <1>2 DEF ItemRT, Item
  <2>2. CASE request.rt
    <3>1. itemsRT' = Append(itemsRT, new) /\ items' = items
      BY <1>2, <2>2 DEF InternalRegister
    <3> HIDE DEF new
    <3>2. itemsRT' \in Seq(ItemRT) /\ Adds(itemsRT', itemsRT, new)
      BY <2>1, <3>1, AppendAdds DEF TypeOK
    <3>3. Distinct(itemsRT') /\ ObjectsIn(itemsRT') = ObjectsIn(itemsRT) \union {o}
      BY <1>9, <2>1, <3>2, AddsObjects DEF OneItem
    <3> QED BY <2>2, <3>1, <3>2, <3>3 DEF TypeOK, OneItem
  <2>3. CASE ~ request.rt
    <3>1. items' = Append(items, due) /\ itemsRT' = itemsRT
      BY <1>2, <2>3 DEF InternalRegister
    <3> HIDE DEF due
    <3>2. items' \in Seq(Item) /\ Adds(items', items, due)
      BY <2>1, <3>1, AppendAdds DEF TypeOK
    <3>3. Distinct(items') /\ ObjectsIn(items') = ObjectsIn(items) \union {o}
      BY <1>9, <2>1, <3>2, AddsObjects DEF OneItem
    <3> QED BY <2>3, <3>1, <3>2, <3>3 DEF TypeOK, OneItem
  <2> QED BY <2>2, <2>3
<1>11. TypeOK'
  BY <1>2, <1>3, <1>10 DEF TypeOK
<1>12. Phases' /\ Settled' /\ Unserved'
  BY <1>1, <1>3 DEF Phases, Settled, Unserved, Processing
<1>13. OneItem'
  BY <1>1, <1>3, <1>4, <1>9, <1>10 DEF OneItem
<1>14. Present' = Present \union {o}
  BY <1>1, <1>3, <1>10 DEF Present, Scheduled
<1>15. Leads(registration', o, Present', wanted')
  BY <1>3, <1>7, <1>8, <1>14, LeadsAbsent
<1>16. SoughtRight(o)'
  <2>1. rt'[o] = request.rt
    BY <1>2, <1>3 DEF TypeOK
  <2>2. o \in ObjectsIn(itemsRT') <=> request.rt
    BY <1>3, <1>9, <1>10
  <2>3. (o \in ObjectsIn(itemsRT') => rt'[o]) /\ (o \notin ObjectsIn(itemsRT') => ~ rt'[o])
    BY <2>1, <2>2
  <2>4. \A j \in 1..Len(registration') : ~ IsFirstOf(registration', o, j)
    BY <1>7 DEF IsFirstOf, ObjectsIn
  <2>5. \A b : b = rt'[o] => Names(b, o)'
    BY <2>3 DEF Names
  <2> QED BY <2>4, <2>5 DEF SoughtRight
<1>17. ASSUME NEW p \in Objects, p /= o
       PROVE  /\ Leads(registration', p, Present', wanted')
              /\ SoughtRight(p)'
  <2>1. /\ p \notin ObjectsIn(registration') <=> p \notin ObjectsIn(registration)
        /\ \A j \in 1..Len(registration') : IsFirstOf(registration', p, j) =>
               \E k \in 1..Len(registration) :
                   IsFirstOf(registration, p, k) /\ registration'[j] = registration[k]
        /\ \A from, to : Leads(registration, p, from, to) => Leads(registration', p, from, to)
    <3>1. Drops(registration', registration, 1) /\ registration[1].object /= p
      BY <1>2, <1>3, <1>17
    <3> QED BY <3>1, LeadsDropsOther
  <2>2. (p \in Present' <=> p \in Present) /\ wanted' = wanted /\ rt'[p] = rt[p]
    BY <1>3, <1>14, <1>17 DEF TypeOK
  <2>3. p \in ObjectsIn(itemsRT') <=> p \in ObjectsIn(itemsRT)
    BY <1>10, <1>17
  <2> QED BY <2>1, <2>2, <2>3, OthersSame
<1>18. Agree' /\ FoundWhereSought'
  BY <1>15, <1>16, <1>17 DEF Agree, FoundWhereSought
<1> QED BY <1>11, <1>12, <1>13, <1>18

LEMMA InternalUnregisterStep ==
  ASSUME IInv, InternalUnregister
  PROVE  IInv'
<1> USE DEF IInv
<1> DEFINE request == registration[1]
<1>1. registration /= <<>> /\ phase \in {"before", "after"}
  BY DEF InternalUnregister, Registering
<1>2. PICK o \in Objects :
          /\ Tail(registration) \in Seq(Request)
          /\ Drops(Tail(registration), registration, 1)
          /\ Head(registration) = request /\ request \in Request
          /\ registration[1] = request /\ registration[1].object = o /\ request.object = o
          /\ IsFirstOf(registration, o, 1)
          /\ Len(registration) \in Nat \ {0} /\ 1 \in 1..Len(registration)
  BY <1>1, HeadRequest
<1>3. /\ ~ request.op /\ request.rt \in BOOLEAN
      /\ registration' = Tail(registration)
      /\ UNCHANGED <<rt, phase, it, round, updating, wanted, since, served>>
      /\ IF Listed(o, request.rt) THEN Unlist(o, request.rt) ELSE UNCHANGED lists
  BY <1>2 DEF InternalUnregister, loops, history, Request
<1> HIDE DEF request
<1>4. processed = <<>> /\ updating = NoObject /\ ObjectsIn(processed) = {}
  BY <1>1 DEF Phases, Processing, ObjectsIn
<1>5. Leads(registration, o, Present, wanted)
  BY DEF Agree
<1>6. o \in ObjectsIn(itemsRT) \union ObjectsIn(items) /\ o \in Present
  BY <1>1, <1>2, <1>3, <1>4, <1>5 DEF Leads, Present, Scheduled
<1>7. Listed(o, request.rt)
  <2>1. Names(request.rt, o)
    BY <1>2 DEF FoundWhereSought, SoughtRight
  <2> QED BY <1>6, <2>1 DEF Listed, Names
<1>8. /\ itemsRT' \in Seq(ItemRT) /\ items' \in Seq(Item) /\ processed' = processed
      /\ Distinct(itemsRT') /\ Distinct(items')
      /\ \A p \in Objects :
            /\ p \in ObjectsIn(itemsRT') <=> p \in ObjectsIn(itemsRT) /\ p /= o
            /\ p \in ObjectsIn(items') <=> p \in ObjectsIn(items) /\ p /= o
      /\ \A i \in 1..Len(itemsRT') :
            \E j \in 1..Len(itemsRT) : j >= i /\ itemsRT'[i] = itemsRT[j]
  BY <1>3, <1>7, UnlistEffect
<1>9. TypeOK'
  BY <1>2, <1>3, <1>8 DEF TypeOK
<1>10. ObjectsIn(itemsRT') \subseteq Objects
  BY <1>8, ListedObjects DEF ObjectsIn
<1>11. Phases' /\ Settled' /\ Unserved'
  BY <1>1, <1>3, <1>8 DEF Phases, Settled, Unserved, Processing
<1>12. OneItem'
  BY <1>1, <1>3, <1>4, <1>8, <1>10 DEF OneItem
<1>13. \A p \in Objects : p \in Present' <=> p \in Present /\ p /= o
  BY <1>1, <1>3, <1>4, <1>8 DEF Present, Scheduled
<1>14. Leads(registration', o, Present', wanted')
  <2>1. Leads(registration', o, {}, wanted)
    BY <1>2, <1>3, <1>5, LeadsDropsOwn
  <2> QED BY <1>3, <1>13, <2>1, LeadsSame
<1>15. SoughtRight(o)'
  <2>1. o \notin ObjectsIn(itemsRT') /\ o \notin Present'
    BY <1>8, <1>13
  <2>2. \A b : Names(b, o)'
    BY <2>1 DEF Names
  <2> QED BY <2>2 DEF SoughtRight
<1>16. ASSUME NEW p \in Objects, p /= o
       PROVE  Leads(registration', p, Present', wanted') /\ SoughtRight(p)'
  <2>1. /\ p \notin ObjectsIn(registration') <=> p \notin ObjectsIn(registration)
        /\ \A j \in 1..Len(registration') : IsFirstOf(registration', p, j) =>
               \E k \in 1..Len(registration) :
                   IsFirstOf(registration, p, k) /\ registration'[j] = registration[k]
        /\ \A from, to : Leads(registration, p, from, to) => Leads(registration', p, from, to)
    <3>1. Drops(registration', registration, 1) /\ registration[1].object /= p
      BY <1>2, <1>3, <1>16
    <3> QED BY <3>1, LeadsDropsOther
  <2>2. (p \in Present' <=> p \in Present) /\ wanted' = wanted /\ rt'[p] = rt[p]
    BY <1>3, <1>13, <1>16
  <2>3. p \in ObjectsIn(itemsRT') <=> p \in ObjectsIn(itemsRT)
    BY <1>8, <1>16
  <2> QED BY <2>1, <2>2, <2>3, OthersSame
<1>17. Agree' /\ FoundWhereSought'
  BY <1>14, <1>15, <1>16 DEF Agree, FoundWhereSought
<1> QED BY <1>9, <1>11, <1>12, <1>17

LEMMA RegistrationDoneStep ==
  ASSUME IInv, RegistrationDone
  PROVE  IInv'
<1> USE DEF IInv
<1>1. /\ phase \in {"before", "after"} /\ registration = <<>>
      /\ phase' = IF phase = "before" THEN "realtime" ELSE "frame"
      /\ served' = {}
      /\ UNCHANGED <<itemsRT, items, processed, registration, rt, it, round, updating>>
      /\ UNCHANGED <<wanted, since>>
  BY DEF RegistrationDone, lists
<1>2. processed = <<>> /\ updating = NoObject
  BY <1>1 DEF Phases, Processing
<1>3. Present' = Present
  BY <1>1 DEF Present, Scheduled
<1>4. Agree' /\ FoundWhereSought'
  BY <1>1, <1>3, SameRequests
<1>5. TypeOK'
  BY <1>1 DEF TypeOK
<1>6. Phases' /\ OneItem'
  BY <1>1, <1>2 DEF Phases, OneItem, Scheduled
<1>7. ObjectsIn(registration') = {}
  BY <1>1 DEF ObjectsIn
<1>8. Settled' /\ Unserved'
  BY <1>1, <1>7 DEF Settled, Unserved
<1> QED BY <1>4, <1>5, <1>6, <1>8

-----------------------------------------------------------------------------
(* The loops.                                                              *)

LEMMA BeginStep ==
  ASSUME IInv, Begin
  PROVE  IInv'
<1> USE DEF IInv
<1>1. /\ phase = "frame" /\ phase' = "before"
      /\ itemsRT' = [i \in 1..Len(itemsRT) |-> [itemsRT[i] EXCEPT !.elapsed = @ + 1]]
      /\ items' = [i \in 1..Len(items) |-> [items[i] EXCEPT !.due = @ - 1]]
      /\ UNCHANGED <<processed, registration, rt, it, round, updating, wanted, served>>
  BY DEF Begin
<1>2. since' \in [Objects -> Nat]
  BY DEF Begin, TypeOK
<1>3. \A i \in 1..Len(itemsRT) : itemsRT[i] \in ItemRT
  BY ElementOfSeq DEF TypeOK
<1>4. \A i \in 1..Len(items) : items[i] \in Item
  BY ElementOfSeq DEF TypeOK
<1>5. /\ itemsRT' \in Seq(ItemRT) /\ ObjectsIn(itemsRT') = ObjectsIn(itemsRT)
      /\ Distinct(itemsRT')
  <2>1. /\ itemsRT' \in [1..Len(itemsRT) -> ItemRT]
        /\ \A i \in 1..Len(itemsRT) : itemsRT'[i].object = itemsRT[i].object
    BY <1>1, <1>3 DEF ItemRT
  <2>2. itemsRT \in Seq(ItemRT) /\ Distinct(itemsRT)
    BY DEF TypeOK, OneItem
  <2> QED BY <2>1, <2>2, Renewed
<1>6. /\ items' \in Seq(Item) /\ ObjectsIn(items') = ObjectsIn(items)
      /\ Distinct(items')
  <2>1. /\ items' \in [1..Len(items) -> Item]
        /\ \A i \in 1..Len(items) : items'[i].object = items[i].object
    <3>1. \A item \in Item : /\ [item EXCEPT !.due = @ - 1] \in Item
                             /\ [item EXCEPT !.due = @ - 1].object = item.object
      BY DEF Item
    <3> QED BY <1>1, <1>4, <3>1
  <2>2. items \in Seq(Item) /\ Distinct(items)
    BY DEF TypeOK, OneItem
  <2> QED BY <2>1, <2>2, Renewed
<1>7. TypeOK'
  BY <1>1, <1>2, <1>5, <1>6 DEF TypeOK
<1>8. Phases' /\ Settled' /\ Unserved'
  BY <1>1 DEF Phases, Settled, Unserved, Processing
<1>9. OneItem'
  BY <1>1, <1>5, <1>6 DEF OneItem
<1>10. Present' = Present
  BY <1>1, <1>5, <1>6 DEF Present, Scheduled
<1>11. Agree' /\ FoundWhereSought'
  BY <1>1, <1>5, <1>10, SameRequests
<1> QED BY <1>7, <1>8, <1>9, <1>11

\* CallRT: what is called is registered, and was not called in this frame.
LEMMA CallRTStep ==
  ASSUME IInv, CallRT
  PROVE  IInv' /\ updating' \in wanted /\ updating' \notin served
<1> USE DEF IInv
<1> DEFINE o == itemsRT[it].object
<1>1. /\ phase = "realtime" /\ updating = NoObject /\ it <= Len(itemsRT)
      /\ updating' = o /\ served' = served \union {o}
      /\ UNCHANGED <<itemsRT, items, processed, registration, rt, phase, it, round>>
      /\ UNCHANGED <<wanted, since>>
  BY DEF CallRT, lists
<1>2. it \in 1..Len(itemsRT)
  BY <1>1, LenProperties DEF TypeOK
<1>3. o \in ObjectsIn(itemsRT) /\ o \in Objects /\ o /= NoObject
  BY <1>2, ListedObjects DEF ObjectsIn
<1>4. o \notin served
  BY <1>1, <1>2 DEF Unserved
<1>5. o \in wanted
  <2>1. Leads(registration, o, Present, wanted) /\ o \in Present
    BY <1>3 DEF Agree, Present, Scheduled
  <2>2. o \notin ObjectsIn(registration)
    BY <1>1, <1>3 DEF Settled, Processing
  <2> QED BY <2>1, <2>2 DEF Leads
<1>6. TypeOK' /\ Phases' /\ OneItem' /\ Settled'
  BY <1>1, <1>3 DEF TypeOK, Phases, OneItem, Settled, Processing, Scheduled
<1>7. Present' = Present
  BY <1>1 DEF Present, Scheduled
<1>8. Agree' /\ FoundWhereSought'
  BY <1>1, <1>7, SameRequests
<1>9. Unserved'
  <2>1. \A i \in 1..Len(itemsRT) : i > it => itemsRT[i].object /= o
    BY <1>2, <1>3 DEF OneItem, Distinct, TypeOK
  <2>2. o \notin ObjectsIn(items)
    BY <1>3 DEF OneItem
  <2>3. Processing /\ updating' /= NoObject
    BY <1>1, <1>3 DEF Processing
  <2> HIDE DEF o
  <2> QED BY <1>1, <2>1, <2>2, <2>3 DEF Unserved
<1> QED BY <1>1, <1>4, <1>5, <1>6, <1>8, <1>9

LEMMA ReturnRTStep ==
  ASSUME IInv, ReturnRT
  PROVE  IInv'
<1> USE DEF IInv
<1>1. /\ phase = "realtime" /\ updating /= NoObject /\ updating' = NoObject
      /\ itemsRT' = IF it <= Len(itemsRT) THEN [itemsRT EXCEPT ![it].elapsed = 0] ELSE itemsRT
      /\ it' = it + 1
      /\ UNCHANGED <<items, processed, registration, rt, phase, round, wanted, served>>
  BY DEF ReturnRT
<1>2. since' \in [Objects -> Nat]
  BY DEF ReturnRT, TypeOK
<1>3. itemsRT \in Seq(ItemRT) /\ Distinct(itemsRT) /\ it \in Nat \ {0}
  BY DEF TypeOK, OneItem
<1>4. \A i \in 1..Len(itemsRT) : itemsRT[i] \in ItemRT
  BY <1>3, ElementOfSeq
<1>5. itemsRT \in [1..Len(itemsRT) -> ItemRT]
  BY <1>3, LenProperties
<1>6. /\ itemsRT' \in [1..Len(itemsRT) -> ItemRT]
      /\ \A i \in 1..Len(itemsRT) : itemsRT'[i].object = itemsRT[i].object
  BY <1>1, <1>4, <1>5 DEF ItemRT
<1>7. /\ itemsRT' \in Seq(ItemRT) /\ ObjectsIn(itemsRT') = ObjectsIn(itemsRT)
      /\ Distinct(itemsRT') /\ Len(itemsRT') = Len(itemsRT)
  BY <1>3, <1>6, Renewed
<1>8. TypeOK'
  BY <1>1, <1>2, <1>7 DEF TypeOK
<1>9. Phases' /\ OneItem' /\ Settled'
  BY <1>1, <1>7 DEF Phases, OneItem, Settled, Processing
<1>10. Present' = Present
  BY <1>1, <1>7 DEF Present, Scheduled
<1>11. Agree' /\ FoundWhereSought'
  BY <1>1, <1>7, <1>10, SameRequests
<1>12. Unserved'
  BY <1>1, <1>3, <1>6, <1>7 DEF Unserved, Processing
<1> QED BY <1>8, <1>9, <1>11, <1>12

LEMMA EndRTStep ==
  ASSUME IInv, EndRT
  PROVE  IInv'
<1> USE DEF IInv
<1>1. /\ phase = "realtime" /\ updating = NoObject /\ phase' = "normal"
      /\ it' = 1 /\ round' = 0
      /\ UNCHANGED <<itemsRT, items, processed, registration, rt, updating>>
      /\ UNCHANGED <<wanted, since, served>>
  BY DEF EndRT, lists, history
<1>2. \A o \in Objects : o /= updating /\ (o \in Present' <=> o \in Present)
  BY <1>1, SchedulerAssumption DEF Present, Scheduled
<1>3. Agree' /\ FoundWhereSought'
  BY <1>1, <1>2, SameRequests
<1>4. TypeOK' /\ Phases' /\ OneItem'
  BY <1>1 DEF TypeOK, Phases, OneItem, Processing
<1>5. Settled' /\ Unserved'
  BY <1>1, <1>2 DEF Settled, Unserved, Processing
<1> QED BY <1>3, <1>4, <1>5

\* ProcessStep takes the item at place i of Items.
LEMMA TakenItem ==
  ASSUME IInv, NEW i \in 1..Len(items), items' = RemoveAt(items, i)
  PROVE  /\ items' \in Seq(Item) /\ Distinct(items')
         /\ items[i] \in Item /\ items[i].object \in ObjectsIn(items)
         /\ ObjectsIn(items') \subseteq ObjectsIn(items)
         /\ \A o \in Objects :
               o \in ObjectsIn(items') <=> o \in ObjectsIn(items) /\ o /= items[i].object
<1>1. items \in Seq(Item) /\ Distinct(items)
  BY DEF IInv, TypeOK, OneItem
<1>2. items' \in Seq(Item) /\ Drops(items', items, i)
  BY <1>1, RemoveAtDrops
<1>3. items[i] \in Item
  BY <1>1, ElementOfSeq
<1> QED BY <1>1, <1>2, <1>3, DropsObjects

LEMMA DropStep ==
  ASSUME IInv, Drop
  PROVE  IInv'
<1> USE DEF IInv
<1>1. PICK i \in 1..Len(items) :
          items[i].object = NoObject /\ items' = RemoveAt(items, i)
  BY DEF Drop
<1>2. /\ phase = "normal" /\ updating = NoObject /\ round' = (round + 1) % 3
      /\ UNCHANGED <<itemsRT, processed, registration, rt, phase, it, updating>>
      /\ UNCHANGED <<wanted, since, served>>
  BY DEF Drop, history
<1>3. /\ items' \in Seq(Item) /\ Distinct(items')
      /\ ObjectsIn(items') \subseteq ObjectsIn(items)
      /\ \A o \in Objects : o \in ObjectsIn(items') <=> o \in ObjectsIn(items)
  BY <1>1, TakenItem, SchedulerAssumption
<1>4. round' \in 0..2
  BY <1>2 DEF TypeOK
<1>5. TypeOK'
  BY <1>2, <1>3, <1>4 DEF TypeOK
<1>6. Phases' /\ OneItem' /\ Settled' /\ Unserved'
  BY <1>2, <1>3 DEF Phases, OneItem, Settled, Unserved, Processing
<1>7. \A o \in Objects : o \in Present' <=> o \in Present
  BY <1>2, <1>3 DEF Present, Scheduled
<1>8. Agree' /\ FoundWhereSought'
  BY <1>2, <1>7, SameRequests
<1> QED BY <1>5, <1>6, <1>8

\* CallNormal: as CallRT.
LEMMA CallNormalStep ==
  ASSUME IInv, CallNormal
  PROVE  IInv' /\ updating' \in wanted /\ updating' \notin served
<1> USE DEF IInv
<1>1. PICK i \in 1..Len(items) :
          /\ items[i].object /= NoObject /\ items' = RemoveAt(items, i)
          /\ updating' = items[i].object /\ served' = served \union {items[i].object}
  BY DEF CallNormal
<1>2. /\ phase = "normal" /\ updating = NoObject
      /\ UNCHANGED <<itemsRT, processed, registration, rt, phase, it, round, wanted, since>>
  BY DEF CallNormal
<1>3. PICK o \in Objects : o = items[i].object
  BY <1>1, TakenItem DEF Item
<1>4. /\ items' \in Seq(Item) /\ Distinct(items') /\ o \in ObjectsIn(items)
      /\ ObjectsIn(items') \subseteq ObjectsIn(items)
      /\ \A p \in Objects : p \in ObjectsIn(items') <=> p \in ObjectsIn(items) /\ p /= o
  BY <1>1, <1>3, TakenItem
<1>5. updating' = o /\ served' = served \union {o} /\ o /= NoObject
  BY <1>1, <1>3
<1>6. o \notin served /\ o \notin ObjectsIn(registration)
  BY <1>2, <1>4 DEF Unserved, Settled, Processing
<1>7. o \in wanted
  <2>1. Leads(registration, o, Present, wanted) /\ o \in Present
    BY <1>4 DEF Agree, Present, Scheduled
  <2> QED BY <1>6, <2>1 DEF Leads
<1>8. o \notin ObjectsIn(itemsRT) /\ o \notin ObjectsIn(processed) /\ o \notin ObjectsIn(items')
  BY <1>4 DEF OneItem
<1>9. TypeOK' /\ Phases'
  BY <1>2, <1>4, <1>5 DEF TypeOK, Phases, Processing
<1>10. OneItem'
  BY <1>2, <1>4, <1>5, <1>8 DEF OneItem, Scheduled
<1>11. Settled' /\ Unserved'
  BY <1>2, <1>4, <1>5, <1>6 DEF Settled, Unserved, Processing
<1>12. \A p \in Objects : p \in Present' <=> p \in Present
  BY <1>2, <1>4, <1>5, SchedulerAssumption DEF Present, Scheduled
<1>13. Agree' /\ FoundWhereSought'
  BY <1>2, <1>12, SameRequests
<1> QED BY <1>2, <1>5, <1>6, <1>7, <1>9, <1>10, <1>11, <1>13

LEMMA ReturnNormalStep ==
  ASSUME IInv, NEW dwUpdate \in 1..MaxUpdate, NEW late \in BOOLEAN,
         ReturnNormal(dwUpdate, late)
  PROVE  IInv'
<1> USE DEF IInv
<1> DEFINE e == [object |-> updating, due |-> dwUpdate]
           done == Append(processed, e)
<1>1. /\ phase = "normal" /\ updating /= NoObject /\ updating' = NoObject
      /\ IF late
         THEN items' = items \o done /\ processed' = <<>> /\ phase' = "after"
         ELSE processed' = done /\ UNCHANGED <<items, phase>>
      /\ round' = IF late THEN 0 ELSE (round + 1) % 3
      /\ UNCHANGED <<itemsRT, registration, rt, it, wanted, since, served>>
  BY DEF ReturnNormal, history
<1>2. PICK o \in Objects : o = updating
  BY <1>1 DEF TypeOK
<1>3. /\ o \notin ObjectsIn(itemsRT) /\ o \notin ObjectsIn(items)
      /\ o \notin ObjectsIn(processed) /\ NoObject \notin Objects
  BY <1>1, <1>2, SchedulerAssumption DEF OneItem, Scheduled
<1>4. e \in Done /\ e.object = o
  BY <1>2 DEF Done
<1>5. done \in Seq(Done) /\ Adds(done, processed, e)
  BY <1>4, AppendAdds DEF TypeOK
<1> HIDE DEF e, done
<1>6. Distinct(done) /\ ObjectsIn(done) = ObjectsIn(processed) \union {o}
  BY <1>3, <1>4, <1>5, AddsObjects DEF OneItem
<1>7. round' \in 0..2
  BY <1>1 DEF TypeOK
<1>8. CASE late
  <2>1. done \in Seq(Item) /\ items \in Seq(Item)
    <3>1. Done \subseteq Item
      BY SchedulerAssumption DEF Done, Item
    <3> QED BY <1>5, <3>1, SeqMonotonic DEF TypeOK
  <2>2. items' \in Seq(Item)
    BY <1>1, <1>8, <2>1, ConcatProperties
  <2>3. Distinct(items') /\ ObjectsIn(items') = ObjectsIn(items) \union ObjectsIn(done)
    <3>1. Distinct(items) /\ \A p \in ObjectsIn(done) : p \notin ObjectsIn(items)
      BY <1>3, <1>6 DEF OneItem
    <3>2. items' = items \o done
      BY <1>1, <1>8
    <3> QED BY <1>6, <2>1, <3>1, <3>2, ConcatObjects
  <2>4. /\ processed' = <<>> /\ phase' = "after" /\ ObjectsIn(processed') = {}
        /\ Distinct(processed')
    BY <1>1, <1>8 DEF ObjectsIn, Distinct
  <2>5. TypeOK'
    BY <1>1, <1>7, <2>2, <2>4 DEF TypeOK
  <2>6. Phases' /\ Settled' /\ Unserved'
    BY <1>1, <2>4 DEF Phases, Settled, Unserved, Processing
  <2>7. OneItem'
    BY <1>1, <1>3, <1>6, <2>3, <2>4 DEF OneItem
  <2>8. \A p \in Objects : p \in Present' <=> p \in Present
    BY <1>1, <1>2, <1>6, <2>3, <2>4 DEF Present, Scheduled
  <2>9. Agree' /\ FoundWhereSought'
    BY <1>1, <2>8, SameRequests
  <2> QED BY <2>5, <2>6, <2>7, <2>9
<1>9. CASE ~ late
  <2>1. processed' = done /\ UNCHANGED <<items, phase>>
    BY <1>1, <1>9
  <2>2. TypeOK'
    BY <1>1, <1>5, <1>7, <2>1 DEF TypeOK
  <2>3. Phases' /\ Settled' /\ Unserved'
    BY <1>1, <1>3, <2>1, ListedObjects DEF Phases, Settled, Unserved, Processing
  <2>4. OneItem'
    BY <1>1, <1>3, <1>6, <2>1 DEF OneItem
  <2>5. \A p \in Objects : p \in Present' <=> p \in Present
    BY <1>1, <1>2, <1>3, <1>6, <2>1 DEF Present, Scheduled
  <2>6. Agree' /\ FoundWhereSought'
    BY <1>1, <2>5, SameRequests
  <2> QED BY <2>2, <2>3, <2>4, <2>6
<1> QED BY <1>8, <1>9

LEMMA EndNormalStep ==
  ASSUME IInv, EndNormal
  PROVE  IInv'
<1> USE DEF IInv
<1>1. /\ phase = "normal" /\ updating = NoObject /\ phase' = "after" /\ round' = 0
      /\ items' = items \o processed /\ processed' = <<>>
      /\ UNCHANGED <<itemsRT, registration, rt, it, updating, wanted, since, served>>
  BY DEF EndNormal, history
<1>2. processed \in Seq(Item) /\ items \in Seq(Item)
  <2>1. Done \subseteq Item
    BY SchedulerAssumption DEF Done, Item
  <2> QED BY <2>1, SeqMonotonic DEF TypeOK
<1>3. items' \in Seq(Item)
  BY <1>1, <1>2, ConcatProperties
<1>4. Distinct(items') /\ ObjectsIn(items') = ObjectsIn(items) \union ObjectsIn(processed)
  BY <1>1, <1>2, ConcatObjects DEF OneItem
<1>5. ObjectsIn(processed') = {} /\ Distinct(processed')
  BY <1>1 DEF ObjectsIn, Distinct
<1>6. TypeOK'
  BY <1>1, <1>3 DEF TypeOK
<1>7. Phases' /\ Settled' /\ Unserved'
  BY <1>1 DEF Phases, Settled, Unserved, Processing
<1>8. OneItem'
  BY <1>1, <1>4, <1>5 DEF OneItem
<1>9. \A p \in Objects : p \in Present' <=> p \in Present
  BY <1>1, <1>4, <1>5, SchedulerAssumption DEF Present, Scheduled
<1>10. Agree' /\ FoundWhereSought'
  BY <1>1, <1>9, SameRequests
<1> QED BY <1>6, <1>7, <1>8, <1>10

-----------------------------------------------------------------------------
(* The theorems.                                                           *)

LEMMA InitInvariant == Init => IInv
<1> SUFFICES ASSUME Init PROVE IInv
  OBVIOUS
<1>1. TypeOK
  BY EmptySeq DEF Init, TypeOK
<1>2. Phases /\ Settled /\ Unserved
  BY DEF Init, Phases, Settled, Unserved, Processing
<1>3. /\ ObjectsIn(itemsRT) = {} /\ ObjectsIn(items) = {} /\ ObjectsIn(processed) = {}
      /\ ObjectsIn(registration) = {} /\ phase /= "normal" /\ wanted = {}
  BY DEF Init, ObjectsIn
<1>4. OneItem
  BY <1>3 DEF Init, OneItem, Distinct
<1>5. Present = {}
  BY <1>3 DEF Present, Scheduled
<1>6. Agree
  BY <1>3, <1>5, LeadsAbsent DEF Agree
<1>7. FoundWhereSought
  BY <1>3, <1>5 DEF Init, FoundWhereSought, SoughtRight, Names
<1> QED BY <1>1, <1>2, <1>4, <1>6, <1>7 DEF IInv

\* Every step keeps the invariant.
LEMMA StepInvariant == IInv /\ [Next]_vars => IInv'
<1> SUFFICES ASSUME IInv, [Next]_vars PROVE IInv'
  OBVIOUS
<1>1. CASE UNCHANGED vars
  <2>1. UNCHANGED <<itemsRT, items, processed, registration, rt, phase, it, round, updating>>
        /\ UNCHANGED <<wanted, since, served>>
    BY <1>1 DEF vars, lists, loops, history
  <2>2. TypeOK' /\ Phases' /\ OneItem' /\ Settled' /\ Unserved'
    BY <2>1 DEF IInv, TypeOK, Phases, OneItem, Settled, Unserved, Processing, Scheduled
  <2>3. Present' = Present
    BY <2>1 DEF Present, Scheduled
  <2>4. Agree' /\ FoundWhereSought'
    BY <2>1, <2>3, SameRequests DEF IInv
  <2> QED BY <2>2, <2>4 DEF IInv
<1>2. ASSUME NEW o \in Objects, NEW realtime \in Kinds[o], Register(o, realtime) PROVE IInv'
  BY <1>2, RegisterStep
<1>3. ASSUME NEW o \in Objects, Unregister(o) PROVE IInv'
  BY <1>3, UnregisterStep
<1>4. CASE Update
  <2>1. ASSUME NEW dwUpdate \in 1..MaxUpdate, NEW late \in BOOLEAN,
               ReturnNormal(dwUpdate, late)
        PROVE  IInv'
    BY <2>1, ReturnNormalStep
  <2> QED BY <1>4, <2>1, BeginStep, SkipPairStep, InternalRegisterStep,
             InternalUnregisterStep, RegistrationDoneStep, CallRTStep, ReturnRTStep,
             EndRTStep, DropStep, CallNormalStep, EndNormalStep DEF Update
<1> QED BY <1>1, <1>2, <1>3, <1>4 DEF Next

\* The invariant of every behaviour, however the callers mix with the loops.
THEOREM Invariance == Spec => []IInv
<1> QED BY InitInvariant, StepInvariant, PTL DEF Spec

\* The lists hold what they are declared to hold: an item of ItemsRT always has
\* an object (R_ASSERT(T.Object), xrSheduler.cpp:408).
THEOREM TypeCorrect == Spec => []TypeOK
<1>1. IInv => TypeOK
  BY DEF IInv
<1> QED BY <1>1, Invariance, PTL

\* Registered() never disagrees with a caller (xrSheduler.cpp:152-210).
THEOREM AgreesAlways == Spec => []RegisteredAgrees
<1>1. IInv => RegisteredAgrees
  BY DEF IInv, RegisteredAgrees, Agree
<1> QED BY <1>1, Invariance, PTL

\* internal_Unregister never looks into the wrong list (xrSheduler.cpp:113-135).
THEOREM FoundAlways == Spec => []FoundWhereSought
<1>1. IInv => FoundWhereSought
  BY DEF IInv
<1> QED BY <1>1, Invariance, PTL

\* Only the two calls change what is called to something.
LEMMA CallSteps ==
  ASSUME IInv, [Next]_vars, updating' \notin {updating, NoObject}
  PROVE  updating' \in wanted /\ updating' \notin served
<1>1. ~ UNCHANGED vars /\ updating' /= updating /\ updating' /= NoObject
  BY DEF vars, loops
<1>2. CallRT \/ CallNormal
  BY <1>1 DEF Next, Update, Register, Unregister, Begin, SkipPair, InternalRegister,
              InternalUnregister, RegistrationDone, ReturnRT, EndRT, Drop, EndNormal,
              ReturnNormal, loops
<1> QED BY <1>2, CallRTStep, CallNormalStep

\* What was unregistered is not called (xrSheduler.cpp:115, 236-239).
THEOREM UnregisteredRest == Spec => NeverAfterUnregister
<1>1. IInv /\ [Next]_vars => [updating' \notin {updating, NoObject} => updating' \in wanted]_vars
  BY CallSteps
<1> QED BY <1>1, Invariance, PTL DEF Spec, NeverAfterUnregister

\* Nothing is called twice in a frame (ISheduled.cpp:48, xrSheduler.cpp:422).
THEOREM CalledOnce == Spec => OncePerFrame
<1>1. IInv /\ [Next]_vars => [updating' \notin {updating, NoObject} => updating' \notin served]_vars
  BY CallSteps
<1> QED BY <1>1, Invariance, PTL DEF Spec, OncePerFrame
=============================================================================
