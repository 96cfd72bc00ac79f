------------------------ MODULE ServerEntitiesProofs ------------------------
(***************************************************************************)
(* The entities of the server, for every number of clients, identifiers    *)
(* and loadouts: the handlers keep parents, children, owners, avatars and  *)
(* bodies consistent and no R_ASSERT fails, as long as a dead actor drops  *)
(* its bag before it is destroyed.                                         *)
(*                                                                         *)
(* A handler changes a world, and an action applies one to World; so the   *)
(* invariant is stated of worlds, and most lemmas say what an operator     *)
(* from worlds to worlds keeps.                                            *)
(***************************************************************************)
EXTENDS ServerEntities, SequenceTheorems, FiniteSetTheorems,
        WellFoundedInduction, TLAPS

Players == {"actor", "spectator"}
Holders == {"actor", "bag"}

Entity == [kind : Kinds, parent : Ids \union {NoId}, children : Seq(Ids),
           owner : Clients, alive : BOOLEAN]
Trees == UNION {[D -> Entity] : D \in SUBSET Ids}
Worlds == [entities : Trees,
           avatar : [Clients -> Ids \union {NoId}],
           gameId : [Clients -> Ids \union {NoId}],
           dead : [Clients -> BOOLEAN],
           corpses : Seq(Ids),
           stopped : BOOLEAN,
           phase : {"inprogress", "scores", "pending"},
           active : Ids \union {NoId},
           shortens : BOOLEAN]

Distinct(s) == \A i, j \in 1..Len(s) : s[i] = s[j] => i = j

\* What is behind the first place of a sequence.
Rest(s) == {s[i] : i \in 2..Len(s)}

\* Parents and children agree.  While a bag is filled it is still in the
\* hands of the actor: X are the entities that may be inside another one and
\* have something inside.
Tree(w, X) ==
    \A id \in DOMAIN w.entities :
        /\ w.entities[id].parent /= id
        /\ w.entities[id].parent /= NoId =>
              /\ Alive(w, w.entities[id].parent)
              /\ id \in ToSet(w.entities[w.entities[id].parent].children)
        /\ \A i \in ToSet(w.entities[id].children) :
              /\ Alive(w, i)
              /\ w.entities[i].parent = id
              /\ w.entities[i].kind \in Items
        /\ Distinct(w.entities[id].children)
        /\ w.entities[id].children /= <<>> =>
              /\ w.entities[id].kind \in Holders
              /\ w.entities[id].parent = NoId \/ id \in X

\* Items belong to the server, whoever carries them.
Owned(w) == \A id \in DOMAIN w.entities :
    w.entities[id].kind \in Items => w.entities[id].owner = Server

\* The bag of an actor is its first child.
Bags(w) == \A id \in DOMAIN w.entities : w.entities[id].kind = "actor" =>
    \A i \in Rest(w.entities[id].children) : w.entities[i].kind /= "bag"

\* A loadout has one weapon of a slot at most.
OneOfASlot == \A l \in Loadouts : \A i, j \in 1..Len(l) :
    l[i] = l[j] /\ l[i] \in Weapons => i = j

Slots(w) == OneOfASlot => \A id \in DOMAIN w.entities :
    w.entities[id].kind = "actor" =>
        \A i, j \in ToSet(w.entities[id].children) :
            /\ w.entities[i].kind = w.entities[j].kind
            /\ w.entities[i].kind \in Weapons
            => i = j

\* What holds of the entities alone, between any two steps of a handler.
Sound(w, X) == w \in Worlds /\ Tree(w, X) /\ Owned(w) /\ Bags(w) /\ Slots(w)

\* Each client of C plays an entity of its own.
Playing(w, C) == \A c \in C :
    /\ Alive(w, w.avatar[c])
    /\ w.entities[w.avatar[c]].kind \in Players
    /\ w.entities[w.avatar[c]].owner = c
    /\ w.gameId[c] = w.avatar[c]

\* Bodies on the list are the server's and nobody of C plays them.
Bodies(w, C) ==
    /\ Distinct(w.corpses)
    /\ \A id \in ToSet(w.corpses) :
          /\ Alive(w, id)
          /\ w.entities[id].kind \in Players
          /\ w.entities[id].owner = Server
          /\ \A c \in C : w.avatar[c] /= id

\* What a client of G that left played is still there when its delayed event,
\* one of L, comes.
Away(w, L, G) == \A id \in L :
    /\ Alive(w, id)
    /\ w.entities[id].kind \in Players
    /\ w.entities[id].owner \in G

\* Clients outside C play nothing.
Idle(w, C) == \A c \in Clients \ C : w.avatar[c] = NoId /\ w.gameId[c] = NoId

Consistent(w, C, L, G) ==
    /\ Sound(w, {}) /\ ~ w.stopped
    /\ Playing(w, C) /\ Bodies(w, C) /\ Away(w, L, G)

SessionsOK(C, L, G) ==
    /\ C \subseteq Clients
    /\ G \subseteq Clients \ {Server}
    /\ C \intersect G = {}
    /\ C /= {} => Server \in C
    /\ L \subseteq Ids

IInv ==
    /\ Consistent(World, connected, leaving, gone)
    /\ Idle(World, connected)
    /\ SessionsOK(connected, leaving, gone)
    /\ phase = "pending" => connected /= {}

-----------------------------------------------------------------------------
(* Sequences without repetitions, and sets of numbers.                     *)

\* The least of a set of numbers.
LEMMA Least ==
  ASSUME NEW T, T \subseteq Nat, T /= {}
  PROVE  \E x \in T : \A y \in T : x <= y
<1>1. PICK x \in T : \A y \in T : ~ (<<y, x>> \in OpToRel(<, Nat))
  BY NatLessThanWellFounded, WFMin
<1>2. ASSUME NEW y \in T PROVE x <= y
  <2>1. ~ (y < x)
    BY <1>1 DEF OpToRel
  <2>2. x \in Nat /\ y \in Nat
    OBVIOUS
  <2> QED BY <2>1, <2>2
<1> QED BY <1>2

\* Min of a set of numbers is its least.
LEMMA MinIsLeast ==
  ASSUME NEW T, T \subseteq Nat, T /= {}
  PROVE  Min(T) \in T /\ \A y \in T : Min(T) <= y
BY Least DEF Min

\* A member that no other exceeds is the Max of its set.
LEMMA MaxIsGreatest ==
  ASSUME NEW T, T \subseteq Nat, NEW m \in T, \A x \in T : x <= m
  PROVE  Max(T) = m
<1>1. \A x \in T : m >= x
  BY SMT
<1>2. \E z \in T : \A x \in T : z >= x
  BY <1>1
<1>3. Max(T) \in T /\ \A x \in T : Max(T) >= x
  BY <1>2 DEF Max
<1>4. Max(T) >= m /\ m >= Max(T) /\ Max(T) \in Nat /\ m \in Nat
  BY <1>1, <1>3
<1> QED BY <1>4

\* Induction on the natural numbers, for sets.
LEMMA Induction ==
  ASSUME NEW T, 0 \in T, \A n \in Nat : n \in T => n + 1 \in T
  PROVE  Nat \subseteq T
<1> DEFINE F == Nat \ T
<1>1. ASSUME F /= {} PROVE FALSE
  <2>1. PICK x \in F : \A y \in F : x <= y
    BY <1>1, Least
  <2>2. x \in Nat /\ x /= 0
    OBVIOUS
  <2>3. x - 1 \in Nat /\ x - 1 \notin F
    BY <2>1, <2>2
  <2> QED BY <2>2, <2>3
<1> QED BY <1>1

\* The set of a sequence, by its places; only the empty sequence has none.
LEMMA ToSetOf ==
  ASSUME NEW S, NEW s \in Seq(S)
  PROVE  /\ ToSet(s) = {s[i] : i \in 1..Len(s)}
         /\ ToSet(s) \subseteq S
         /\ (s = <<>>) <=> (ToSet(s) = {})
         /\ (s = <<>>) <=> (Len(s) = 0)
         /\ Len(s) \in Nat
<1>1. DOMAIN s = 1..Len(s) /\ Len(s) \in Nat /\ s \in [1..Len(s) -> S]
  BY LenProperties
<1>2. ToSet(s) = {s[i] : i \in 1..Len(s)}
  BY <1>1 DEF ToSet
<1>3. s /= <<>> => Len(s) \in Nat \ {0}
  BY EmptySeq
<1>4. s = <<>> => Len(s) = 0
  BY EmptySeq
<1>5. ToSet(s) \subseteq S
  BY <1>1, <1>2
<1>6. Len(s) = 0 => ToSet(s) = {}
  <2>1. Len(s) = 0 => 1..Len(s) = {}
    OBVIOUS
  <2> QED BY <2>1, <1>2
<1>7. Len(s) \in Nat \ {0} => ToSet(s) /= {}
  <2>1. Len(s) \in Nat \ {0} => 1 \in 1..Len(s)
    OBVIOUS
  <2> QED BY <2>1, <1>2
<1>8. (s = <<>>) <=> (Len(s) = 0)
  BY <1>3, <1>4
<1>9. (Len(s) = 0) <=> (ToSet(s) = {})
  BY <1>1, <1>6, <1>7
<1> QED BY <1>1, <1>2, <1>5, <1>8, <1>9

\* What the empty sequence is.
LEMMA EmptyFacts ==
  /\ ToSet(<<>>) = {} /\ Rest(<<>>) = {} /\ Distinct(<<>>) /\ Len(<<>>) = 0
  /\ \A S : <<>> \in Seq(S)
<1>1. \A S : <<>> \in Seq(S) /\ Len(<<>>) = 0
  BY EmptySeq
<1>2. ToSet(<<>>) = {}
  BY <1>1, ToSetOf
<1> QED BY <1>1, <1>2 DEF Rest, Distinct

\* The first and the last of a sequence are in it.
LEMMA EndsOf ==
  ASSUME NEW S, NEW s \in Seq(S), s /= <<>>
  PROVE  /\ Head(s) \in ToSet(s) /\ Head(s) = s[1]
         /\ Last(s) \in ToSet(s) /\ Last(s) = s[Len(s)]
         /\ Len(s) \in Nat \ {0}
<1>1. Len(s) \in Nat \ {0}
  BY EmptySeq
<1>2. Head(s) = s[1] /\ Last(s) = s[Len(s)]
  BY DEF Last
<1>3. 1 \in 1..Len(s) /\ Len(s) \in 1..Len(s)
  BY <1>1
<1> QED BY <1>1, <1>2, <1>3, ToSetOf

\* One more at the end: the first stays, and a new one is no repetition.
LEMMA AppendFacts ==
  ASSUME NEW S, NEW s \in Seq(S), NEW x \in S
  PROVE  LET t == Append(s, x)
         IN  /\ t \in Seq(S) /\ t /= <<>> /\ Len(t) = Len(s) + 1
             /\ ToSet(t) = ToSet(s) \union {x}
             /\ Rest(t) \subseteq Rest(s) \union {x}
             /\ s = <<>> => Rest(t) = {}
             /\ s /= <<>> => t[1] = s[1]
             /\ Distinct(s) /\ x \notin ToSet(s) => Distinct(t)
<1> DEFINE t == Append(s, x)
<1>1. /\ t \in Seq(S) /\ t /= <<>> /\ Len(t) = Len(s) + 1
      /\ \A i \in 1..Len(s) : t[i] = s[i]
      /\ t[Len(s) + 1] = x
  BY AppendProperties
<1>2. Len(s) \in Nat /\ (s = <<>> <=> Len(s) = 0)
  BY ToSetOf
<1> HIDE DEF t
<1>3. ToSet(t) = ToSet(s) \union {x}
  <2>1. ToSet(t) = {t[i] : i \in 1..(Len(s) + 1)} /\ ToSet(s) = {s[i] : i \in 1..Len(s)}
    BY <1>1, ToSetOf
  <2>2. 1..(Len(s) + 1) = 1..Len(s) \union {Len(s) + 1}
    BY <1>2
  <2> QED BY <2>1, <2>2, <1>1
<1>4. Rest(t) \subseteq Rest(s) \union {x}
  <2>1. ASSUME NEW i \in 2..Len(t) PROVE t[i] \in Rest(s) \union {x}
    <3>1. i = Len(s) + 1 \/ i \in 2..Len(s)
      BY <1>1, <1>2
    <3> QED BY <3>1, <1>1, <1>2 DEF Rest
  <2> QED BY <2>1 DEF Rest
<1>5. s = <<>> => Rest(t) = {}
  BY <1>1, <1>2 DEF Rest
<1>6. s /= <<>> => t[1] = s[1]
  BY <1>1, <1>2
<1>7. Distinct(s) /\ x \notin ToSet(s) => Distinct(t)
  <2> SUFFICES ASSUME Distinct(s), x \notin ToSet(s), NEW i \in 1..Len(t), NEW j \in 1..Len(t),
                      t[i] = t[j]
               PROVE  i = j
    BY DEF Distinct
  <2>1. \A k \in 1..Len(s) : s[k] /= x
    BY ToSetOf
  <2>2. (i = Len(s) + 1 \/ i \in 1..Len(s)) /\ (j = Len(s) + 1 \/ j \in 1..Len(s))
    BY <1>1, <1>2
  <2> QED BY <2>1, <2>2, <1>1 DEF Distinct
<1> QED BY <1>1, <1>3, <1>4, <1>5, <1>6, <1>7 DEF t

\* RemoveAt leaves out one place and shifts what is behind it.
LEMMA RemoveAtFacts ==
  ASSUME NEW S, NEW s \in Seq(S), NEW k \in 1..Len(s)
  PROVE  LET t == RemoveAt(s, k)
         IN  /\ t \in Seq(S) /\ Len(t) = Len(s) - 1
             /\ \A i \in 1..Len(t) : t[i] = IF i < k THEN s[i] ELSE s[i + 1]
<1>1. Len(s) \in Nat /\ s \in [1..Len(s) -> S]
  BY LenProperties
<1> DEFINE a == SubSeq(s, 1, k - 1)
           b == SubSeq(s, k + 1, Len(s))
<1>2. a \in Seq(S) /\ Len(a) = k - 1 /\ \A i \in 1..(k - 1) : a[i] = s[i]
  <2>1. \A i \in 1..(k - 1) : s[i] \in S
    BY <1>1
  <2>2. 1 \in Int /\ k - 1 \in Int /\ k >= 1
    BY <1>1
  <2>3. /\ a \in Seq(S)
        /\ Len(a) = IF 1 <= k - 1 THEN k - 1 - 1 + 1 ELSE 0
        /\ \A i \in 1..(k - 1 - 1 + 1) : a[i] = s[1 + i - 1]
    BY <2>1, <2>2, SubSeqProperties
  <2> HIDE DEF a
  <2>4. \A i \in 1..(k - 1) : i \in 1..(k - 1 - 1 + 1) /\ 1 + i - 1 = i
    BY <1>1
  <2> QED BY <2>2, <2>3, <2>4
<1>3. b \in Seq(S) /\ Len(b) = Len(s) - k /\ \A i \in 1..(Len(s) - k) : b[i] = s[k + i]
  <2>1. \A i \in (k + 1)..Len(s) : s[i] \in S
    BY <1>1
  <2>2. k + 1 \in Int /\ Len(s) \in Int
    BY <1>1
  <2>3. /\ b \in Seq(S)
        /\ Len(b) = IF k + 1 <= Len(s) THEN Len(s) - (k + 1) + 1 ELSE 0
        /\ \A i \in 1..(Len(s) - (k + 1) + 1) : b[i] = s[k + 1 + i - 1]
    BY <2>1, <2>2, SubSeqProperties
  <2> HIDE DEF b
  <2>4. \A i \in 1..(Len(s) - k) : i \in 1..(Len(s) - (k + 1) + 1) /\ k + 1 + i - 1 = k + i
    BY <1>1
  <2>5. Len(b) = Len(s) - k
    <3>1. k \in Int /\ k <= Len(s) /\ Len(s) \in Int
      BY <1>1
    <3>2. (IF k + 1 <= Len(s) THEN Len(s) - (k + 1) + 1 ELSE 0) = Len(s) - k
      BY <3>1
    <3> QED BY <2>3, <3>2
  <2> QED BY <2>3, <2>4, <2>5
<1> HIDE DEF a, b
<1>4. /\ a \o b \in Seq(S) /\ Len(a \o b) = Len(a) + Len(b)
      /\ \A i \in 1..(Len(a) + Len(b)) :
            (a \o b)[i] = IF i <= Len(a) THEN a[i] ELSE b[i - Len(a)]
  BY <1>2, <1>3, ConcatProperties
<1>5. Len(a \o b) = Len(s) - 1
  BY <1>1, <1>2, <1>3, <1>4
<1>6. ASSUME NEW i \in 1..(Len(s) - 1)
      PROVE  (a \o b)[i] = IF i < k THEN s[i] ELSE s[i + 1]
  <2>1. CASE i < k
    <3>1. i \in 1..(k - 1) /\ i <= Len(a) /\ i \in 1..(Len(a) + Len(b))
      BY <2>1, <1>1, <1>2, <1>3
    <3> QED BY <2>1, <3>1, <1>2, <1>4
  <2>2. CASE ~ (i < k)
    <3>1. i - (k - 1) \in 1..(Len(s) - k) /\ ~ (i <= Len(a)) /\ i \in 1..(Len(a) + Len(b))
          /\ k + (i - (k - 1)) = i + 1
      BY <2>2, <1>1, <1>2, <1>3
    <3> QED BY <2>2, <3>1, <1>2, <1>3, <1>4
  <2> QED BY <2>1, <2>2
<1>7. RemoveAt(s, k) = a \o b
  BY DEF RemoveAt, a, b
<1> QED BY <1>4, <1>5, <1>6, <1>7

\* RemoveFirst removes what it is asked to at one place, the first if it is
\* there.
LEMMA PlaceOf ==
  ASSUME NEW S, NEW s \in Seq(S), NEW x \in ToSet(s)
  PROVE  \E k \in 1..Len(s) :
            /\ k = SelectInSeq(s, LAMBDA i : i = x)
            /\ s[k] = x
            /\ s[1] = x => k = 1
            /\ RemoveFirst(s, x) = RemoveAt(s, k)
<1> DEFINE I == {i \in 1..Len(s) : s[i] = x}
<1>1. I /= {} /\ I \subseteq Nat
  BY ToSetOf
<1>2. Min(I) \in I /\ \A y \in I : Min(I) <= y
  BY <1>1, MinIsLeast
<1>3. SelectInSeq(s, LAMBDA i : i = x) = Min(I)
  BY <1>1, Zenon DEF SelectInSeq
<1>4. s[1] = x => Min(I) = 1
  <2>1. Len(s) \in Nat /\ Len(s) >= 1
    BY <1>1, ToSetOf
  <2> QED BY <1>1, <1>2, <2>1
<1>5. \E i \in 1..Len(s) : s[i] = x
  BY <1>1
<1>6. RemoveFirst(s, x) = RemoveAt(s, SelectInSeq(s, LAMBDA i : i = x))
  BY <1>5, Zenon DEF RemoveFirst
<1>7. Min(I) \in 1..Len(s) /\ s[Min(I)] = x
  BY <1>2
<1> QED BY <1>3, <1>4, <1>6, <1>7, Zenon

\* What is left without the place k of a sequence without repetitions.
LEMMA RemovedFacts ==
  ASSUME NEW S, NEW s \in Seq(S), Distinct(s), NEW k \in 1..Len(s)
  PROVE  LET t == RemoveAt(s, k)
         IN  /\ t \in Seq(S) /\ Len(t) = Len(s) - 1
             /\ ToSet(t) = ToSet(s) \ {s[k]}
             /\ Rest(t) \subseteq Rest(s)
             /\ k /= 1 => t /= <<>> /\ t[1] = s[1]
             /\ Distinct(t)
<1> DEFINE t == RemoveAt(s, k)
<1>1. /\ t \in Seq(S) /\ Len(t) = Len(s) - 1
      /\ \A i \in 1..Len(t) : t[i] = IF i < k THEN s[i] ELSE s[i + 1]
  BY RemoveAtFacts
<1>2. Len(s) \in Nat /\ Len(t) \in Nat /\ Len(s) = Len(t) + 1
  BY <1>1, LenProperties
<1> HIDE DEF t
<1>3. ToSet(t) = {t[i] : i \in 1..Len(t)} /\ ToSet(s) = {s[i] : i \in 1..Len(s)}
  BY <1>1, ToSetOf
<1>4. ASSUME NEW i \in 1..Len(t)
      PROVE  \E j \in 1..Len(s) : j /= k /\ t[i] = s[j] /\ (i >= 2 => j >= 2)
                                  /\ j = IF i < k THEN i ELSE i + 1
  BY <1>1, <1>2
<1>5. ASSUME NEW j \in 1..Len(s), j /= k
      PROVE  \E i \in 1..Len(t) : t[i] = s[j]
  <2>1. CASE j < k
    <3>1. j \in 1..Len(t)
      BY <2>1, <1>2
    <3> QED BY <2>1, <3>1, <1>1
  <2>2. CASE j > k
    <3>1. j - 1 \in 1..Len(t) /\ ~ (j - 1 < k) /\ j - 1 + 1 = j
      BY <2>2, <1>2
    <3> QED BY <3>1, <1>1
  <2> QED BY <2>1, <2>2, <1>5
<1>6. ToSet(t) = ToSet(s) \ {s[k]}
  <2>1. ToSet(t) \subseteq ToSet(s) \ {s[k]}
    BY <1>3, <1>4 DEF Distinct
  <2>2. ToSet(s) \ {s[k]} \subseteq ToSet(t)
    BY <1>3, <1>5
  <2> QED BY <2>1, <2>2
<1>7. Rest(t) \subseteq Rest(s)
  BY <1>2, <1>4 DEF Rest
<1>8. k /= 1 => t /= <<>> /\ t[1] = s[1]
  <2>1. k /= 1 => Len(t) \in Nat \ {0} /\ 1 < k
    BY <1>2
  <2> QED BY <2>1, <1>1, EmptySeq
<1>9. Distinct(t)
  <2> SUFFICES ASSUME NEW i \in 1..Len(t), NEW j \in 1..Len(t), t[i] = t[j]
               PROVE  i = j
    BY DEF Distinct
  <2>1. PICK a \in 1..Len(s) : t[i] = s[a] /\ a = IF i < k THEN i ELSE i + 1
    BY <1>4
  <2>2. PICK b \in 1..Len(s) : t[j] = s[b] /\ b = IF j < k THEN j ELSE j + 1
    BY <1>4
  <2>3. a = b
    BY <2>1, <2>2 DEF Distinct
  <2> QED BY <2>1, <2>2, <2>3
<1> QED BY <1>1, <1>6, <1>7, <1>8, <1>9 DEF t

\* Without repetitions RemoveFirst leaves out just that one, and the first
\* stays first.
LEMMA RemoveFirstFacts ==
  ASSUME NEW S, NEW s \in Seq(S), Distinct(s), NEW x \in ToSet(s)
  PROVE  LET t == RemoveFirst(s, x)
         IN  /\ t \in Seq(S) /\ Len(t) = Len(s) - 1
             /\ ToSet(t) = ToSet(s) \ {x}
             /\ Rest(t) \subseteq Rest(s)
             /\ s[1] /= x => t /= <<>> /\ t[1] = s[1]
             /\ Distinct(t)
<1>1. PICK k \in 1..Len(s) : s[k] = x /\ RemoveFirst(s, x) = RemoveAt(s, k)
  BY PlaceOf, Zenon
<1>2. s[1] /= x => k /= 1
  BY <1>1
<1> QED BY <1>1, <1>2, RemovedFacts

-----------------------------------------------------------------------------
(* Loops.  FoldLeft(Op, w, q) is a recursive function of the set of the     *)
(* places that were visited: it exists, and it takes one step per place.   *)

\* Max of places of a sequence is one of them.
LEMMA GreatestOf ==
  ASSUME NEW n \in Nat, NEW s \in SUBSET (1..n), s /= {}
  PROVE  Max(s) \in s /\ Max(s) \in 1..n
<1> DEFINE T == {n - x : x \in s}
<1>1. T \subseteq Nat /\ T /= {}
  OBVIOUS
<1>2. PICK y \in T : \A z \in T : y <= z
  BY <1>1, Least
<1>3. PICK m \in s : y = n - m
  OBVIOUS
<1>4. ASSUME NEW x \in s PROVE x <= m
  <2>1. n - m <= n - x
    BY <1>2, <1>3
  <2>2. x \in Int /\ m \in Int
    OBVIOUS
  <2> QED BY <2>1, <2>2
<1>5. s \subseteq Nat
  OBVIOUS
<1>6. Max(s) = m
  BY <1>4, <1>5, MaxIsGreatest
<1> QED BY <1>6

\* The sets of places of a sequence of n.
Visits(n) == SUBSET (1..n)

\* The bodies of a loop over them that stays in W.
Steps(W, n) == [W \X (1..n) -> W]

Loops(W, w, n, step) ==
    {it \in [Visits(n) -> W] : \A s \in Visits(n) :
        it[s] = IF s = {} THEN w ELSE step[<<it[s \ {Max(s)}], Max(s)>>]}

\* "it" is one as far as its values are known to be in W.
LoopIn(W, w, n, step, it) ==
    /\ it[{}] = w
    /\ \A s \in Visits(n) : s /= {} /\ it[s \ {Max(s)}] \in W =>
          it[s] = step[<<it[s \ {Max(s)}], Max(s)>>]

\* The states that the loop goes through.
Runs(W, w, n, step) ==
    {r \in [0..n -> W] : r[0] = w /\ \A k \in 1..n : r[k] = step[<<r[k - 1], k>>]}

\* A loop whose body is a function of a set runs n times: each state is chosen
\* from the one before, by induction over the set of lengths that can be
\* reached.
LEMMA LoopExists ==
  ASSUME NEW W, NEW w \in W, NEW n \in Nat, NEW step \in Steps(W, n)
  PROVE  Loops(W, w, n, step) /= {}
<1> DEFINE Upto(k) == {it \in [SUBSET (1..k) -> W] : \A s \in SUBSET (1..k) :
              it[s] = IF s = {} THEN w ELSE step[<<it[s \ {Max(s)}], Max(s)>>]}
           T == {k \in Nat : k <= n => Upto(k) /= {}}
<1>1. 0 \in T
  <2> DEFINE it == [s \in SUBSET (1..0) |-> w]
  <2>1. SUBSET (1..0) = {{}}
    OBVIOUS
  <2>2. it \in Upto(0)
    BY <2>1
  <2> HIDE DEF it
  <2> QED BY <2>2
<1> HIDE DEF Upto
<1>2. ASSUME NEW k \in Nat, k \in T PROVE k + 1 \in T
  <2> SUFFICES ASSUME k + 1 <= n PROVE Upto(k + 1) /= {}
    OBVIOUS
  <2>1. Upto(k) /= {}
    BY <1>2
  <2> PICK it \in Upto(k) : TRUE
    BY <2>1
  <2>2. it \in [SUBSET (1..k) -> W]
    BY DEF Upto
  <2>3. ASSUME NEW s \in SUBSET (1..k)
        PROVE  it[s] = IF s = {} THEN w ELSE step[<<it[s \ {Max(s)}], Max(s)>>]
    BY Zenon DEF Upto
  <2> DEFINE m == k + 1
             val(s) == IF m \in s THEN step[<<it[s \ {m}], m>>] ELSE it[s]
             jt == [s \in SUBSET (1..m) |-> val(s)]
  <2>4. 1..m = (1..k) \union {m} /\ m \notin 1..k /\ m \in 1..n
    OBVIOUS
  <2> HIDE DEF m
  <2>5. ASSUME NEW s \in SUBSET (1..m)
        PROVE  /\ m \notin s => s \in SUBSET (1..k)
               /\ s \ {m} \in SUBSET (1..k)
    BY <2>4
  <2>6. jt \in [SUBSET (1..m) -> W]
    <3>1. ASSUME NEW s \in SUBSET (1..m) PROVE val(s) \in W
      <4>1. CASE m \in s
        <5>1. it[s \ {m}] \in W
          BY <2>2, <2>5
        <5>2. <<it[s \ {m}], m>> \in W \X (1..n)
          BY <5>1, <2>4
        <5> QED BY <4>1, <5>2 DEF Steps
      <4>2. CASE m \notin s
        BY <4>2, <2>2, <2>5
      <4> QED BY <4>1, <4>2
    <3> HIDE DEF val
    <3> QED BY <3>1
  <2>7. ASSUME NEW s \in SUBSET (1..m)
        PROVE  jt[s] = IF s = {} THEN w ELSE step[<<jt[s \ {Max(s)}], Max(s)>>]
    <3>1. CASE m \in s
      <4>1. s \subseteq Nat /\ \A x \in s : x <= m
        BY <2>4 DEF m
      <4>2. Max(s) = m
        BY <3>1, <4>1, MaxIsGreatest
      <4>3. jt[s \ {m}] = it[s \ {m}]
        BY <2>5, <2>4
      <4>4. s /= {}
        BY <3>1
      <4> QED BY <3>1, <4>2, <4>3, <4>4
    <3>2. CASE m \notin s
      <4>1. s \in SUBSET (1..k) /\ jt[s] = it[s]
        BY <3>2, <2>5
      <4>2. CASE s = {}
        BY <4>1, <4>2, <2>3
      <4>3. CASE s /= {}
        <5>1. s \ {Max(s)} \in SUBSET (1..m) /\ m \notin s \ {Max(s)}
          BY <3>2
        <5>2. jt[s \ {Max(s)}] = it[s \ {Max(s)}]
          BY <5>1
        <5> QED BY <4>1, <4>3, <5>2, <2>3
      <4> QED BY <4>2, <4>3
    <3> QED BY <3>1, <3>2 DEF Visits
  <2> HIDE DEF jt, val
  <2>8. jt \in Upto(m)
    BY <2>6, <2>7 DEF Upto
  <2> QED BY <2>8 DEF m
<1> HIDE DEF T
<1>3. n \in T
  BY <1>1, <1>2, Induction
<1>4. Upto(n) /= {}
  BY <1>3 DEF T
<1> QED BY <1>4 DEF Upto, Visits, Loops

\* A function like the one above, of which the equation is known only where
\* its values are in W, runs from w through W.
LEMMA LoopRuns ==
  ASSUME NEW W, NEW w \in W, NEW n \in Nat, NEW step \in Steps(W, n), NEW it,
         LoopIn(W, w, n, step, it)
  PROVE  \E r \in Runs(W, w, n, step) : it[1..n] = r[n]
<1> USE DEF LoopIn
<1> DEFINE T == {k \in Nat : k <= n => it[1..k] \in W}
<1>1. ASSUME NEW k \in Nat
      PROVE  (1..(k + 1)) \ {Max(1..(k + 1))} = 1..k /\ Max(1..(k + 1)) = k + 1
  <2>1. 1..(k + 1) \subseteq Nat /\ k + 1 \in 1..(k + 1) /\ \A x \in 1..(k + 1) : x <= k + 1
    OBVIOUS
  <2>2. Max(1..(k + 1)) = k + 1
    BY <2>1, MaxIsGreatest
  <2> QED BY <2>2
<1>2. ASSUME NEW k \in Nat, k + 1 <= n, it[1..k] \in W
      PROVE  it[1..(k + 1)] = step[<<it[1..k], k + 1>>] /\ it[1..(k + 1)] \in W
  <2>1. 1..(k + 1) \in Visits(n) /\ 1..(k + 1) /= {}
    <3>1. \A x \in 1..(k + 1) : x \in 1..n
      BY <1>2
    <3>2. 1 \in 1..(k + 1)
      OBVIOUS
    <3> QED BY <3>1, <3>2 DEF Visits
  <2>2. it[1..(k + 1)] = step[<<it[1..k], k + 1>>]
    BY <1>1, <1>2, <2>1
  <2>3. <<it[1..k], k + 1>> \in W \X (1..n)
    BY <1>2
  <2> QED BY <2>2, <2>3 DEF Steps
<1>3. 0 \in T
  <2>1. 1..0 = {}
    OBVIOUS
  <2> QED BY <2>1
<1>4. ASSUME NEW k \in Nat, k \in T PROVE k + 1 \in T
  <2> SUFFICES ASSUME k + 1 <= n PROVE it[1..(k + 1)] \in W
    OBVIOUS
  <2>1. it[1..k] \in W
    BY <1>4
  <2> QED BY <2>1, <1>2
<1>5. \A k \in 0..n : it[1..k] \in W
  <2> HIDE DEF T
  <2>1. Nat \subseteq T
    BY <1>3, <1>4, Induction
  <2> QED BY <2>1 DEF T
<1> DEFINE r == [k \in 0..n |-> it[1..k]]
<1>6. r \in [0..n -> W] /\ it[1..n] = r[n]
  BY <1>5
<1>7. r[0] = w
  <2>1. 1..0 = {} /\ 0 \in 0..n
    OBVIOUS
  <2> QED BY <2>1
<1>8. ASSUME NEW k \in 1..n PROVE r[k] = step[<<r[k - 1], k>>]
  <2>1. k - 1 \in Nat /\ k - 1 + 1 = k /\ k <= n /\ k - 1 \in 0..n /\ k \in 0..n
    OBVIOUS
  <2>2. it[1..(k - 1)] \in W
    BY <2>1, <1>5
  <2>3. it[1..(k - 1 + 1)] = step[<<it[1..(k - 1)], k - 1 + 1>>]
    BY <2>1, <2>2, <1>2
  <2> QED BY <2>1, <2>3
<1> HIDE DEF r, LoopIn
<1>9. r \in Runs(W, w, n, step)
  BY <1>6, <1>7, <1>8 DEF Runs
<1> QED BY <1>6, <1>9

-----------------------------------------------------------------------------

\* The loop of OnDetach is what the fold over the items computes.
LEMMA TransfersRun ==
  ASSUME NEW from, NEW to, NEW items, NEW n \in Nat, DOMAIN items = 1..n,
         NEW W, NEW w \in W, NEW step \in Steps(W, n),
         \A v \in W, k \in 1..n : step[<<v, k>>] = Transferred(v, items[k], from, to)
  PROVE  \E r \in Runs(W, w, n, step) : r[n] = TransferAll(w, items, from, to)
<1>1. Loops(W, w, n, step) /= {}
  BY LoopExists
<1>2. PICK it \in Loops(W, w, n, step) : TRUE
  BY <1>1
<1>3. \A s \in Visits(n) : s /= {} => Max(s) \in 1..n /\ s \ {Max(s)} \in Visits(n)
  BY GreatestOf DEF Visits
<1>4. it = [s \in SUBSET DOMAIN items |-> IF s = {} THEN w
               ELSE Transferred(it[s \ {Max(s)}], items[Max(s)], from, to)]
  BY <1>2, <1>3 DEF Visits, Loops
<1>5. PICK iter :
         /\ iter = [s \in SUBSET DOMAIN items |-> IF s = {} THEN w
                       ELSE Transferred(iter[s \ {Max(s)}], items[Max(s)], from, to)]
         /\ TransferAll(w, items, from, to) = iter[DOMAIN items]
  BY <1>4, Zenon DEF TransferAll, FoldLeft, MapThenFoldSet
<1>6. LoopIn(W, w, n, step, iter)
  BY <1>3, <1>5 DEF Visits, LoopIn
<1>7. PICK r \in Runs(W, w, n, step) : iter[1..n] = r[n]
  BY <1>6, LoopRuns
<1> QED BY <1>5, <1>7

\* The loop of Destroyed.
DestroyTimes(w, id, sender, n) == Repeat(n, LAMBDA v : DestroyFirst(v, id, sender), w)

\* The loop that destroys the children is what Repeat computes.
LEMMA RepeatRuns ==
  ASSUME NEW id, NEW sender, NEW n \in Nat,
         NEW W, NEW w \in W, NEW step \in Steps(W, n),
         \A v \in W, k \in 1..n : step[<<v, k>>] = DestroyFirst(v, id, sender)
  PROVE  \E r \in Runs(W, w, n, step) : r[n] = DestroyTimes(w, id, sender, n)
<1>1. Loops(W, w, n, step) /= {}
  BY LoopExists
<1>2. PICK it \in Loops(W, w, n, step) : TRUE
  BY <1>1
<1>3. \A s \in Visits(n) : s /= {} => Max(s) \in 1..n /\ s \ {Max(s)} \in Visits(n)
  BY GreatestOf DEF Visits
<1> DEFINE places == [i \in 1..n |-> i]
<1>4. it = [s \in SUBSET DOMAIN places |-> IF s = {} THEN w
               ELSE DestroyFirst(it[s \ {Max(s)}], id, sender)]
  BY <1>2, <1>3 DEF Visits, Loops
<1>5. PICK iter :
         /\ iter = [s \in SUBSET DOMAIN places |-> IF s = {} THEN w
                       ELSE DestroyFirst(iter[s \ {Max(s)}], id, sender)]
         /\ DestroyTimes(w, id, sender, n) = iter[DOMAIN places]
  BY <1>4, Zenon DEF DestroyTimes, Repeat, FoldLeft, MapThenFoldSet
<1>6. LoopIn(W, w, n, step, iter)
  BY <1>3, <1>5 DEF Visits, LoopIn
<1>7. PICK r \in Runs(W, w, n, step) : iter[1..n] = r[n]
  BY <1>6, LoopRuns
<1> QED BY <1>5, <1>7

-----------------------------------------------------------------------------
(* One entity changes its place in the tree.                               *)

\* Nothing but parents and children differs, and only what was inside one of
\* P has another parent.
Regrouped(w, v, P) ==
    /\ v \in Worlds
    /\ DOMAIN v.entities = DOMAIN w.entities
    /\ \A i \in DOMAIN w.entities :
          /\ v.entities[i].kind = w.entities[i].kind
          /\ v.entities[i].owner = w.entities[i].owner
          /\ v.entities[i].alive = w.entities[i].alive
          /\ v.entities[i].parent = w.entities[i].parent \/ w.entities[i].parent \in P
    /\ v.avatar = w.avatar /\ v.gameId = w.gameId /\ v.dead = w.dead
    /\ v.corpses = w.corpses /\ v.phase = w.phase
    /\ v.active = w.active /\ v.shortens = w.shortens

\* id went from its parent into q, or is on its own when q is NoId.
MovedTo(w, v, id, q) ==
    /\ Regrouped(w, v, {w.entities[id].parent})
    /\ v.stopped = w.stopped
    /\ v.entities[id].parent = q
    /\ \A i \in DOMAIN w.entities \ {id} :
          v.entities[i].parent = w.entities[i].parent
    /\ \A i \in DOMAIN w.entities : v.entities[i].children =
          IF i = w.entities[id].parent THEN RemoveFirst(w.entities[i].children, id)
          ELSE IF i = q THEN Append(w.entities[i].children, id)
          ELSE w.entities[i].children

MayHold(w, q, id) == w.entities[q].kind = "actor" =>
    /\ w.entities[id].kind /= "bag" \/ w.entities[q].children = <<>>
    /\ OneOfASlot /\ w.entities[id].kind \in Weapons =>
          \A i \in ToSet(w.entities[q].children) : w.entities[i].kind /= w.entities[id].kind

MayMove(w, id, q, X) ==
    /\ Alive(w, id) /\ q /= id /\ q /= w.entities[id].parent
    /\ q /= NoId =>
          /\ Alive(w, q) /\ w.entities[q].kind \in Holders
          /\ w.entities[q].parent = NoId \/ q \in X
          /\ w.entities[id].children = <<>> \/ id \in X
          /\ w.entities[id].kind \in Items
          /\ MayHold(w, q, id)

\* What the entities of a world are.
LEMMA EntityTypes ==
  ASSUME NEW w \in Worlds
  PROVE  /\ DOMAIN w.entities \subseteq Ids
         /\ \A i \in DOMAIN w.entities :
               /\ w.entities[i] \in Entity
               /\ w.entities[i].kind \in Kinds
               /\ w.entities[i].parent \in Ids \union {NoId}
               /\ w.entities[i].children \in Seq(Ids)
               /\ w.entities[i].owner \in Clients
               /\ w.entities[i].alive \in BOOLEAN
<1>1. w.entities \in Trees
  BY DEF Worlds
<1>2. PICK D \in SUBSET Ids : w.entities \in [D -> Entity]
  BY <1>1 DEF Trees
<1>3. DOMAIN w.entities = D /\ \A i \in D : w.entities[i] \in Entity
  BY <1>2
<1> QED BY <1>3 DEF Entity

\* What that does to the children of i.
ChildrenMoved(w, v, id, q, i) ==
    LET c == w.entities[i].children
        d == v.entities[i].children
    IN  /\ d \in Seq(Ids) /\ Distinct(d)
        /\ i = w.entities[id].parent =>
              /\ ToSet(d) = ToSet(c) \ {id} /\ Len(d) = Len(c) - 1
              /\ Rest(d) \subseteq Rest(c)
              /\ c[1] /= id => d /= <<>> /\ d[1] = c[1]
        /\ i /= w.entities[id].parent /\ i = q =>
              /\ ToSet(d) = ToSet(c) \union {id}
              /\ Rest(d) \subseteq Rest(c) \union {id}
              /\ c = <<>> => Rest(d) = {}
        /\ i /= w.entities[id].parent /\ i /= q => d = c

\* A move takes the one entity out of the children of one and puts it last in
\* those of the other.
LEMMA MovedChildren ==
  ASSUME NEW w, NEW X, Sound(w, X), NEW v, NEW id, NEW q,
         MayMove(w, id, q, X), MovedTo(w, v, id, q),
         NEW i \in DOMAIN w.entities
  PROVE  ChildrenMoved(w, v, id, q, i)
<1> DEFINE c == w.entities[i].children
           d == v.entities[i].children
           p == w.entities[id].parent
<1>1. w \in Worlds /\ c \in Seq(Ids) /\ Distinct(c) /\ id \in Ids /\ id \in DOMAIN w.entities
  BY EntityTypes DEF Sound, Tree, MayMove, Alive
<1>2. d = IF i = p THEN RemoveFirst(c, id) ELSE IF i = q THEN Append(c, id) ELSE c
  BY DEF MovedTo
<1> HIDE DEF d
<1>3. CASE i = p
  <2>1. id \in ToSet(c)
    <3>1. p /= NoId
      BY <1>1, <1>3, EntityTypes, ServerAssumption
    <3> QED BY <1>1, <1>3, <3>1 DEF Sound, Tree
  <2> HIDE DEF c
  <2>2. d = RemoveFirst(c, id)
    BY <1>2, <1>3
  <2>3. /\ d \in Seq(Ids) /\ Distinct(d) /\ ToSet(d) = ToSet(c) \ {id} /\ Len(d) = Len(c) - 1
        /\ Rest(d) \subseteq Rest(c)
        /\ c[1] /= id => d /= <<>> /\ d[1] = c[1]
    BY <1>1, <2>1, <2>2, RemoveFirstFacts
  <2> QED BY <1>3, <2>3 DEF c, d, p, ChildrenMoved
<1>4. CASE i /= p /\ i = q
  <2>1. id \notin ToSet(c)
    BY <1>1, <1>4 DEF Sound, Tree
  <2> HIDE DEF c
  <2> QED BY <1>1, <1>2, <1>4, <2>1, AppendFacts DEF c, d, p, ChildrenMoved
<1>5. CASE i /= p /\ i /= q
  BY <1>1, <1>2, <1>5 DEF d, ChildrenMoved
<1> QED BY <1>3, <1>4, <1>5

\* A move like that keeps the entities sound.
LEMMA MoveSound ==
  ASSUME NEW w, NEW X, Sound(w, X), NEW v, NEW id, NEW q,
         MayMove(w, id, q, X), MovedTo(w, v, id, q)
  PROVE  Sound(v, X)
<1> DEFINE e == w.entities
           f == v.entities
           p == e[id].parent
           D == DOMAIN e
           C(i) == ToSet(e[i].children)
           C1(i) == ToSet(f[i].children)
<1>1. /\ w \in Worlds /\ v \in Worlds /\ id \in D /\ id \in Ids /\ DOMAIN f = D
      /\ q /= id /\ q /= p
  BY EntityTypes DEF Sound, MayMove, Alive, MovedTo, Regrouped
<1>2. \A i \in D : f[i].kind = e[i].kind /\ f[i].owner = e[i].owner
  BY DEF MovedTo, Regrouped
<1>3. f[id].parent = q /\ \A i \in D \ {id} : f[i].parent = e[i].parent
  BY DEF MovedTo
<1>4. ASSUME NEW i \in D
      PROVE  /\ Distinct(f[i].children)
             /\ C1(i) = IF i = p THEN C(i) \ {id} ELSE IF i = q THEN C(i) \union {id} ELSE C(i)
             /\ i /= q => Rest(f[i].children) \subseteq Rest(e[i].children)
             /\ i = q => /\ Rest(f[i].children) \subseteq Rest(e[i].children) \union {id}
                         /\ e[i].children = <<>> => Rest(f[i].children) = {}
             /\ f[i].children \in Seq(Ids) /\ e[i].children \in Seq(Ids)
             /\ i /= p /\ i /= q => f[i].children = e[i].children
  <2> DEFINE c == e[i].children
             d == f[i].children
  <2>1. /\ d \in Seq(Ids) /\ Distinct(d)
        /\ i = p => ToSet(d) = ToSet(c) \ {id} /\ Rest(d) \subseteq Rest(c)
        /\ i /= p /\ i = q =>
              /\ ToSet(d) = ToSet(c) \union {id}
              /\ Rest(d) \subseteq Rest(c) \union {id}
              /\ c = <<>> => Rest(d) = {}
        /\ i /= p /\ i /= q => d = c
    <3>1. ChildrenMoved(w, v, id, q, i)
      BY MovedChildren
    <3> QED BY <3>1 DEF ChildrenMoved
  <2>2. c \in Seq(Ids)
    BY <1>1, EntityTypes
  <2> HIDE DEF c, d, p
  <2> QED BY <2>1, <2>2, <1>1 DEF c, d
<1>5. \A i \in D : /\ e[i].parent /= i
                   /\ e[i].parent /= NoId => e[i].parent \in D /\ i \in C(e[i].parent)
                   /\ \A j \in C(i) : j \in D /\ e[j].parent = i /\ e[j].kind \in Items
                   /\ e[i].children /= <<>> =>
                        e[i].kind \in Holders /\ (e[i].parent = NoId \/ i \in X)
  BY DEF Sound, Tree, Alive
<1>6. q /= NoId => /\ q \in D /\ e[q].kind \in Holders /\ (e[q].parent = NoId \/ q \in X)
                   /\ e[id].children = <<>> \/ id \in X
                   /\ e[id].kind \in Items
                   /\ MayHold(w, q, id)
  BY DEF MayMove, Alive
<1>7. NoId \notin D
  BY <1>1, EntityTypes, ServerAssumption
<1>8. p /= NoId => id \in C(p) /\ p \in D
  BY <1>1, <1>5
<1>9. \A i \in D : (e[i].children = <<>> <=> C(i) = {}) /\ (f[i].children = <<>> <=> C1(i) = {})
  <2> SUFFICES ASSUME NEW i \in D
               PROVE  (e[i].children = <<>> <=> C(i) = {}) /\ (f[i].children = <<>> <=> C1(i) = {})
    OBVIOUS
  <2>1. e[i].children \in Seq(Ids) /\ f[i].children \in Seq(Ids)
    BY <1>4
  <2> QED BY <2>1, ToSetOf
<1> HIDE DEF e, f, D, C, C1, p
<1>10. Tree(v, X)
  <2> SUFFICES ASSUME NEW i \in D
               PROVE  /\ f[i].parent /= i
                      /\ f[i].parent /= NoId =>
                            f[i].parent \in D /\ i \in C1(f[i].parent)
                      /\ \A j \in C1(i) : j \in D /\ f[j].parent = i /\ f[j].kind \in Items
                      /\ Distinct(f[i].children)
                      /\ f[i].children /= <<>> =>
                            f[i].kind \in Holders /\ (f[i].parent = NoId \/ i \in X)
    BY <1>1 DEF Tree, Alive, f, C1, D
  <2>1. f[i].parent /= i
    BY <1>1, <1>3, <1>5
  <2>2. f[i].parent /= NoId => f[i].parent \in D /\ i \in C1(f[i].parent)
    <3>1. CASE i = id
      BY <3>1, <1>1, <1>3, <1>4, <1>6
    <3>2. CASE i /= id
      BY <3>2, <1>3, <1>4, <1>5
    <3> QED BY <3>1, <3>2
  <2>3. ASSUME NEW j \in C1(i)
        PROVE  j \in D /\ f[j].parent = i /\ f[j].kind \in Items
    <3>1. CASE j = id
      <4>1. i = q
        BY <3>1, <1>1, <1>4, <1>5 DEF p
      <4> QED BY <3>1, <4>1, <1>1, <1>2, <1>3, <1>6, <1>7
    <3>2. CASE j /= id
      <4>1. j \in C(i)
        BY <3>2, <2>3, <1>4
      <4> QED BY <3>2, <4>1, <1>2, <1>3, <1>5
    <3> QED BY <3>1, <3>2
  <2>4. f[i].children /= <<>> => f[i].kind \in Holders /\ (f[i].parent = NoId \/ i \in X)
    <3> SUFFICES ASSUME C1(i) /= {}
                 PROVE  f[i].kind \in Holders /\ (f[i].parent = NoId \/ i \in X)
      BY <1>9
    <3>1. CASE i = q
      BY <3>1, <1>1, <1>2, <1>3, <1>6, <1>7
    <3>2. CASE i /= q
      <4>1. C(i) /= {}
        BY <3>2, <1>4
      <4>2. e[i].children /= <<>>
        BY <4>1, <1>9
      <4>3. e[i].kind \in Holders /\ (e[i].parent = NoId \/ i \in X)
        BY <4>2, <1>5
      <4>4. CASE i = id
        BY <4>2, <4>3, <4>4, <1>2, <1>3, <1>6
      <4>5. CASE i /= id
        BY <4>3, <4>5, <1>2, <1>3
      <4> QED BY <4>4, <4>5
    <3> QED BY <3>1, <3>2
  <2> QED BY <2>1, <2>2, <2>3, <2>4, <1>4
<1>11. Owned(v)
  BY <1>1, <1>2 DEF Owned, Sound, e, f, D
<1>12. Bags(v)
  <2> SUFFICES ASSUME NEW i \in D, f[i].kind = "actor", NEW j \in Rest(f[i].children)
               PROVE  f[j].kind /= "bag"
    BY <1>1 DEF Bags, f, D
  <2>1. \A k \in D : \A l \in Rest(e[k].children) : e[k].kind = "actor" => e[l].kind /= "bag"
    BY DEF Sound, Bags, e, D
  <2>2. \A k \in Rest(e[i].children) : k \in D
    <3>1. Rest(e[i].children) \subseteq C(i)
      <4>1. e[i].children \in Seq(Ids)
        BY <1>4
      <4>2. Len(e[i].children) \in Nat /\ C(i) = {e[i].children[k] : k \in 1..Len(e[i].children)}
        BY <4>1, ToSetOf DEF C
      <4> QED BY <4>2 DEF Rest
    <3> QED BY <3>1, <1>5
  <2>3. CASE j \in Rest(e[i].children)
    BY <2>1, <2>2, <2>3, <1>2
  <2>4. CASE j \notin Rest(e[i].children)
    <3>1. i = q /\ j = id /\ e[i].children /= <<>>
      BY <2>4, <1>4
    <3> QED BY <3>1, <1>1, <1>2, <1>6, <1>7 DEF MayHold, e
  <2> QED BY <2>3, <2>4
<1>13. Slots(v)
  <2> SUFFICES ASSUME OneOfASlot, NEW i \in D, f[i].kind = "actor",
                      NEW j \in C1(i), NEW k \in C1(i),
                      f[j].kind = f[k].kind, f[j].kind \in Weapons
               PROVE  j = k
    BY <1>1 DEF Slots, f, C1, D
  <2>1. \A m \in D : \A l, o \in C(m) :
            e[m].kind = "actor" /\ e[l].kind = e[o].kind /\ e[l].kind \in Weapons => l = o
    BY DEF Sound, Slots, e, D, C
  <2>2. CASE j \in C(i) /\ k \in C(i)
    BY <2>1, <2>2, <1>2, <1>5
  <2>3. CASE ~ (j \in C(i) /\ k \in C(i))
    <3>1. i = q /\ (j = id \/ k = id) /\ j \in C(q) \union {id} /\ k \in C(q) \union {id}
      BY <2>3, <1>4
    <3>2. \A l \in C(q) : l \in D /\ (e[id].kind \in Weapons => e[l].kind /= e[id].kind)
      BY <3>1, <1>2, <1>5, <1>6, <1>7 DEF MayHold, e, C
    <3> QED BY <3>1, <3>2, <1>1, <1>2
  <2> QED BY <2>2, <2>3
<1> QED BY <1>1, <1>10, <1>11, <1>12, <1>13 DEF Sound

\* Other entities in a world leave its remaining fields alone.
LEMMA WithEntities ==
  ASSUME NEW w \in Worlds, NEW D \in SUBSET Ids, NEW f \in [D -> Entity]
  PROVE  LET v == [w EXCEPT !.entities = f]
         IN  /\ v \in Worlds /\ v.entities = f /\ v.stopped = w.stopped
             /\ v.avatar = w.avatar /\ v.gameId = w.gameId /\ v.dead = w.dead
             /\ v.corpses = w.corpses /\ v.phase = w.phase
             /\ v.active = w.active /\ v.shortens = w.shortens
<1>1. f \in Trees
  BY DEF Trees
<1> QED BY <1>1 DEF Worlds

\* EXCEPT at two places.
LEMMA TwoChanged ==
  ASSUME NEW D, NEW S, NEW e \in [D -> S], NEW i \in D, NEW j \in D, i /= j,
         NEW a \in S, NEW b \in S
  PROVE  LET f == [e EXCEPT ![i] = a, ![j] = b]
         IN  /\ f \in [D -> S] /\ f[i] = a /\ f[j] = b
             /\ \A k \in D \ {i, j} : f[k] = e[k]
OBVIOUS

\* Contains of a list is membership.
LEMMA InChildren ==
  ASSUME NEW S, NEW s \in Seq(S), NEW x
  PROVE  Contains(s, x) <=> x \in ToSet(s)
BY ToSetOf DEF Contains

\* What a sound world says of something inside another entity.
LEMMA ChildOf ==
  ASSUME NEW w, NEW X, Sound(w, X), NEW p \in DOMAIN w.entities,
         NEW id \in ToSet(w.entities[p].children)
  PROVE  /\ id \in DOMAIN w.entities /\ id \in Ids /\ p \in Ids
         /\ w.entities[id].parent = p /\ id /= p /\ p /= NoId
         /\ w.entities[id].kind \in Items
         /\ Contains(w.entities[p].children, id)
         /\ w.entities[p].children \in Seq(Ids) /\ w.entities[p].children /= <<>>
         /\ RemoveFirst(w.entities[p].children, id) \in Seq(Ids)
<1>1. w \in Worlds /\ p \in DOMAIN w.entities
  BY DEF Sound
<1>2. w.entities[p].children \in Seq(Ids) /\ Distinct(w.entities[p].children)
  BY <1>1, EntityTypes DEF Sound, Tree
<1>3. Contains(w.entities[p].children, id) /\ w.entities[p].children /= <<>>
  BY <1>2, InChildren, ToSetOf
<1>4. RemoveFirst(w.entities[p].children, id) \in Seq(Ids)
  BY <1>2, RemoveFirstFacts
<1>5. id \in DOMAIN w.entities /\ w.entities[id].parent = p /\ w.entities[id].kind \in Items
  BY DEF Sound, Tree, Alive
<1>6. id /= p
  BY <1>5 DEF Sound, Tree
<1>7. id \in Ids /\ p \in Ids /\ p /= NoId
  BY <1>1, <1>5, EntityTypes, ServerAssumption
<1> QED BY <1>2, <1>3, <1>4, <1>5, <1>6, <1>7

\* Dropping is a move out of the parent.
LEMMA DroppedMoves ==
  ASSUME NEW w, NEW X, Sound(w, X), NEW p \in DOMAIN w.entities,
         NEW id \in ToSet(w.entities[p].children)
  PROVE  /\ MayReject(w, p, id)
         /\ MayMove(w, id, NoId, X)
         /\ MovedTo(w, Dropped(w, p, id), id, NoId)
         /\ w.entities[id].parent = p
<1> DEFINE e == w.entities
           D == DOMAIN e
           c == RemoveFirst(e[p].children, id)
           f == [e EXCEPT ![id].parent = NoId, ![p].children = RemoveFirst(@, id)]
           v == Dropped(w, p, id)
<1>1. /\ w \in Worlds /\ D \in SUBSET Ids /\ e \in [D -> Entity]
      /\ NoId \notin Ids
  BY EntityTypes, ServerAssumption DEF Sound, Worlds, Trees
<1>2. /\ id \in D /\ p \in D /\ id \in Ids /\ p \in Ids /\ e[id].parent = p /\ id /= p /\ p /= NoId
      /\ Contains(e[p].children, id) /\ c \in Seq(Ids)
  BY ChildOf
<1>3. MayReject(w, p, id)
  BY <1>2 DEF MayReject, Alive
<1>4. MayMove(w, id, NoId, X)
  BY <1>1, <1>2 DEF MayMove, Alive
<1>5. v = [w EXCEPT !.entities = f]
  BY <1>3 DEF Dropped
<1>6. /\ f \in [D -> Entity]
      /\ f[id] = [e[id] EXCEPT !.parent = NoId]
      /\ f[p] = [e[p] EXCEPT !.children = c]
      /\ \A i \in D \ {id, p} : f[i] = e[i]
  <2> DEFINE a == [e[id] EXCEPT !.parent = NoId]
             b == [e[p] EXCEPT !.children = c]
  <2>1. f = [e EXCEPT ![id] = a, ![p] = b]
    BY <1>2
  <2>2. e[id] \in Entity /\ e[p] \in Entity
    BY <1>1, <1>2
  <2>3. a \in Entity
    BY <2>2 DEF Entity
  <2> HIDE DEF c, e
  <2>4. b \in Entity
    BY <1>2, <2>2 DEF Entity
  <2> HIDE DEF a, b, f, D
  <2>5. /\ f \in [D -> Entity] /\ f[id] = a /\ f[p] = b
        /\ \A i \in D \ {id, p} : f[i] = e[i]
    BY <1>1, <1>2, <2>1, <2>3, <2>4, TwoChanged
  <2> QED BY <2>5 DEF a, b
<1> HIDE DEF f, c, D, e, v
<1>7. /\ v \in Worlds /\ v.entities = f /\ v.stopped = w.stopped
      /\ v.avatar = w.avatar /\ v.gameId = w.gameId /\ v.dead = w.dead
      /\ v.corpses = w.corpses /\ v.phase = w.phase
      /\ v.active = w.active /\ v.shortens = w.shortens
  BY <1>1, <1>5, <1>6, WithEntities
<1>8. \A i \in D : e[i] \in Entity
  BY <1>1
<1>9. DOMAIN f = D
  BY <1>6
<1>10. \A i \in D :
          /\ f[i].kind = e[i].kind /\ f[i].owner = e[i].owner /\ f[i].alive = e[i].alive
          /\ f[i].parent = IF i = id THEN NoId ELSE e[i].parent
          /\ f[i].children = IF i = p THEN c ELSE e[i].children
  BY <1>2, <1>6, <1>8 DEF Entity
<1>11. MovedTo(w, v, id, NoId)
  BY <1>1, <1>2, <1>7, <1>9, <1>10 DEF MovedTo, Regrouped, e, D, c
<1> QED BY <1>2, <1>3, <1>4, <1>11 DEF e, v

\* EXCEPT at three places.
LEMMA ThreeChanged ==
  ASSUME NEW D, NEW S, NEW e \in [D -> S], NEW i \in D, NEW j \in D, NEW k \in D,
         i /= j, i /= k, j /= k,
         NEW a \in S, NEW b \in S, NEW c \in S
  PROVE  LET f == [e EXCEPT ![i] = a, ![j] = b, ![k] = c]
         IN  /\ f \in [D -> S] /\ f[i] = a /\ f[j] = b /\ f[k] = c
             /\ \A l \in D \ {i, j, k} : f[l] = e[l]
OBVIOUS

\* Transferring an item is one move from the actor into the bag.
LEMMA TransferredMoves ==
  ASSUME NEW w, NEW X, Sound(w, X), NEW from \in DOMAIN w.entities,
         NEW what \in ToSet(w.entities[from].children), NEW to,
         MayMove(w, what, to, X), to /= NoId
  PROVE  /\ MovedTo(w, Transferred(w, what, from, to), what, to)
         /\ w.entities[what].parent = from
<1> DEFINE e == w.entities
           D == DOMAIN e
           c == RemoveFirst(e[from].children, what)
           d == Append(e[to].children, what)
           f == [e EXCEPT ![from].children = RemoveFirst(@, what), ![what].parent = to,
                          ![to].children = Append(@, what)]
           v == Transferred(w, what, from, to)
<1>1. /\ w \in Worlds /\ D \in SUBSET Ids /\ e \in [D -> Entity]
  BY EntityTypes DEF Sound, Worlds, Trees
<1>2. /\ what \in D /\ from \in D /\ what \in Ids /\ from \in Ids
      /\ e[what].parent = from /\ what /= from /\ from /= NoId
      /\ Contains(e[from].children, what) /\ c \in Seq(Ids)
  BY ChildOf
<1>3. to \in D /\ to \in Ids /\ to /= what /\ to /= from
  BY <1>1, <1>2 DEF MayMove, Alive
<1>4. v = [w EXCEPT !.entities = f]
  BY <1>2, <1>3 DEF Transferred, WithChild, Alive
<1>5. /\ f \in [D -> Entity]
      /\ f[from] = [e[from] EXCEPT !.children = c]
      /\ f[what] = [e[what] EXCEPT !.parent = to]
      /\ f[to] = [e[to] EXCEPT !.children = d]
      /\ \A i \in D \ {from, what, to} : f[i] = e[i]
  <2> DEFINE x == [e[from] EXCEPT !.children = c]
             y == [e[what] EXCEPT !.parent = to]
             z == [e[to] EXCEPT !.children = d]
  <2>1. f = [e EXCEPT ![from] = x, ![what] = y, ![to] = z]
    BY <1>2, <1>3
  <2>2. e[from] \in Entity /\ e[what] \in Entity /\ e[to] \in Entity
    BY <1>1, <1>2, <1>3
  <2>3. y \in Entity
    BY <1>3, <2>2 DEF Entity
  <2>4. d \in Seq(Ids)
    <3>1. e[to].children \in Seq(Ids)
      BY <2>2 DEF Entity
    <3> HIDE DEF e
    <3> QED BY <1>2, <3>1, AppendFacts
  <2> HIDE DEF c, d, e
  <2>5. x \in Entity /\ z \in Entity
    BY <1>2, <2>2, <2>4 DEF Entity
  <2> HIDE DEF x, y, z, f, D
  <2>6. /\ f \in [D -> Entity] /\ f[from] = x /\ f[what] = y /\ f[to] = z
        /\ \A i \in D \ {from, what, to} : f[i] = e[i]
    BY <1>1, <1>2, <1>3, <2>1, <2>3, <2>5, ThreeChanged
  <2> QED BY <2>6 DEF x, y, z
<1> HIDE DEF f, c, d, D, e, v
<1>6. /\ v \in Worlds /\ v.entities = f /\ v.stopped = w.stopped
      /\ v.avatar = w.avatar /\ v.gameId = w.gameId /\ v.dead = w.dead
      /\ v.corpses = w.corpses /\ v.phase = w.phase
      /\ v.active = w.active /\ v.shortens = w.shortens
  BY <1>1, <1>4, <1>5, WithEntities
<1>7. \A i \in D : e[i] \in Entity
  BY <1>1
<1>8. DOMAIN f = D
  BY <1>5
<1>9. \A i \in D :
          /\ f[i].kind = e[i].kind /\ f[i].owner = e[i].owner /\ f[i].alive = e[i].alive
          /\ f[i].parent = IF i = what THEN to ELSE e[i].parent
          /\ f[i].children = IF i = from THEN c ELSE IF i = to THEN d ELSE e[i].children
  BY <1>2, <1>3, <1>5, <1>7 DEF Entity
<1>10. MovedTo(w, v, what, to)
  BY <1>1, <1>2, <1>6, <1>8, <1>9 DEF MovedTo, Regrouped, e, D, c, d
<1> QED BY <1>2, <1>10 DEF e, v

\* Attaching what is on its own is a move into the new parent.
LEMMA AttachedMoves ==
  ASSUME NEW w, NEW X, Sound(w, X), NEW id, NEW q,
         MayMove(w, id, q, X), q /= NoId, w.entities[id].parent = NoId
  PROVE  MovedTo(w, Attached(w, q, id), id, q)
<1> DEFINE e == w.entities
           D == DOMAIN e
           d == Append(e[q].children, id)
           f == [e EXCEPT ![id].parent = q, ![q].children = Append(@, id)]
           v == Attached(w, q, id)
<1>1. /\ w \in Worlds /\ D \in SUBSET Ids /\ e \in [D -> Entity] /\ NoId \notin Ids
  BY EntityTypes, ServerAssumption DEF Sound, Worlds, Trees
<1>2. q \in D /\ q \in Ids /\ q /= id /\ id \in D /\ id \in Ids
  BY <1>1 DEF MayMove, Alive
<1>3. v = [w EXCEPT !.entities = f]
  BY <1>2 DEF Attached, WithChild
<1>4. /\ f \in [D -> Entity]
      /\ f[id] = [e[id] EXCEPT !.parent = q]
      /\ f[q] = [e[q] EXCEPT !.children = d]
      /\ \A i \in D \ {id, q} : f[i] = e[i]
  <2> DEFINE y == [e[id] EXCEPT !.parent = q]
             z == [e[q] EXCEPT !.children = d]
  <2>1. f = [e EXCEPT ![id] = y, ![q] = z]
    BY <1>2
  <2>2. e[id] \in Entity /\ e[q] \in Entity
    BY <1>1, <1>2
  <2>3. y \in Entity
    BY <1>2, <2>2 DEF Entity
  <2>4. d \in Seq(Ids)
    <3>1. e[q].children \in Seq(Ids)
      BY <2>2 DEF Entity
    <3> HIDE DEF e
    <3> QED BY <1>2, <3>1, AppendFacts
  <2> HIDE DEF d, e
  <2>5. z \in Entity
    BY <2>2, <2>4 DEF Entity
  <2> HIDE DEF y, z, f, D
  <2>6. /\ f \in [D -> Entity] /\ f[id] = y /\ f[q] = z
        /\ \A i \in D \ {id, q} : f[i] = e[i]
    BY <1>1, <1>2, <2>1, <2>3, <2>5, TwoChanged
  <2> QED BY <2>6 DEF y, z
<1> HIDE DEF f, d, D, e, v
<1>5. /\ v \in Worlds /\ v.entities = f /\ v.stopped = w.stopped
      /\ v.avatar = w.avatar /\ v.gameId = w.gameId /\ v.dead = w.dead
      /\ v.corpses = w.corpses /\ v.phase = w.phase
      /\ v.active = w.active /\ v.shortens = w.shortens
  BY <1>1, <1>3, <1>4, WithEntities
<1>6. \A i \in D : e[i] \in Entity
  BY <1>1
<1>7. DOMAIN f = D
  BY <1>4
<1>8. \A i \in D :
          /\ f[i].kind = e[i].kind /\ f[i].owner = e[i].owner /\ f[i].alive = e[i].alive
          /\ f[i].parent = IF i = id THEN q ELSE e[i].parent
          /\ f[i].children = IF i = q THEN d ELSE e[i].children
  BY <1>2, <1>4, <1>6 DEF Entity
<1>9. NoId \notin D
  BY <1>1
<1>10. MovedTo(w, v, id, q)
  BY <1>1, <1>2, <1>5, <1>7, <1>8, <1>9 DEF MovedTo, Regrouped, e, D, d
<1> QED BY <1>10 DEF v

\* The body of the loop leads from V[k - 1] to V[k].
Leads(W, n, step, V) ==
    \A k \in 1..n : \A v \in W : v \in V[k - 1] => step[<<v, k>>] \in V[k]

\* What is kept all along the loop holds of its result.
LEMMA RunsTo ==
  ASSUME NEW W, NEW w, NEW n \in Nat, NEW step, NEW r \in Runs(W, w, n, step), NEW V,
         w \in V[0], Leads(W, n, step, V)
  PROVE  r[n] \in V[n] /\ r[n] \in W
<1> DEFINE T == {k \in Nat : k <= n => r[k] \in V[k]}
<1>1. r \in [0..n -> W] /\ r[0] = w /\ \A k \in 1..n : r[k] = step[<<r[k - 1], k>>]
  BY DEF Runs
<1>2. 0 \in T
  BY <1>1
<1>3. ASSUME NEW k \in Nat, k \in T PROVE k + 1 \in T
  <2> SUFFICES ASSUME k + 1 <= n PROVE r[k + 1] \in V[k + 1]
    OBVIOUS
  <2>1. r[k] \in V[k] /\ k \in 0..n /\ k + 1 \in 1..n /\ k + 1 - 1 = k
    BY <1>3
  <2>2. r[k] \in W /\ r[k + 1] = step[<<r[k], k + 1>>]
    BY <1>1, <2>1
  <2>3. step[<<r[k], k + 1>>] \in V[k + 1]
    BY <2>1, <2>2 DEF Leads
  <2> QED BY <2>2, <2>3
<1> HIDE DEF T
<1>4. n \in T
  BY <1>2, <1>3, Induction
<1> QED BY <1>1, <1>4 DEF T

\* Filtering a list is what its fold computes.
LEMMA KeptRuns ==
  ASSUME NEW s, NEW R, NEW n \in Nat, DOMAIN s = 1..n,
         NEW W, <<>> \in W, NEW step \in Steps(W, n),
         \A t \in W, k \in 1..n :
             step[<<t, k>>] = IF s[k] \in R THEN Append(t, s[k]) ELSE t
  PROVE  \E r \in Runs(W, <<>>, n, step) : r[n] = Kept(s, R)
<1>1. Loops(W, <<>>, n, step) /= {}
  BY LoopExists
<1>2. PICK it \in Loops(W, <<>>, n, step) : TRUE
  BY <1>1
<1>3. \A v \in Visits(n) : v /= {} => Max(v) \in 1..n /\ v \ {Max(v)} \in Visits(n)
  BY GreatestOf DEF Visits
<1>4. it = [v \in SUBSET DOMAIN s |-> IF v = {} THEN <<>>
               ELSE IF s[Max(v)] \in R THEN Append(it[v \ {Max(v)}], s[Max(v)])
                    ELSE it[v \ {Max(v)}]]
  BY <1>2, <1>3 DEF Visits, Loops
<1>5. PICK iter :
         /\ iter = [v \in SUBSET DOMAIN s |-> IF v = {} THEN <<>>
               ELSE IF s[Max(v)] \in R THEN Append(iter[v \ {Max(v)}], s[Max(v)])
                    ELSE iter[v \ {Max(v)}]]
         /\ Kept(s, R) = iter[DOMAIN s]
  BY <1>4, Zenon DEF Kept, FoldLeft, MapThenFoldSet
<1>6. LoopIn(W, <<>>, n, step, iter)
  BY <1>3, <1>5 DEF Visits, LoopIn
<1>7. PICK r \in Runs(W, <<>>, n, step) : iter[1..n] = r[n]
  BY <1>6, LoopRuns
<1> QED BY <1>5, <1>7

\* Kept leaves the members of R, in their order and without repetitions.
LEMMA KeptFacts ==
  ASSUME NEW S, NEW s \in Seq(S), Distinct(s), NEW R
  PROVE  LET t == Kept(s, R)
         IN  t \in Seq(S) /\ ToSet(t) = ToSet(s) \intersect R /\ Distinct(t)
<1> DEFINE n == Len(s)
           W == Seq(S)
           body(t, k) == IF s[k] \in R THEN Append(t, s[k]) ELSE t
           step == [x \in W \X (1..n) |-> body(x[1], x[2])]
           good(k) == {t \in W : Distinct(t) /\ ToSet(t) = {s[i] : i \in 1..k} \intersect R}
           V == [k \in 0..n |-> good(k)]
<1>1. n \in Nat /\ DOMAIN s = 1..n /\ \A k \in 1..n : s[k] \in S
  BY LenProperties
<1>2. \A t \in W, k \in 1..n : body(t, k) \in W
  BY <1>1, AppendFacts
<1>3. step \in Steps(W, n)
  <2> HIDE DEF W, body
  <2> QED BY <1>2 DEF Steps
<1>4. \A t \in W, k \in 1..n : step[<<t, k>>] = body(t, k)
  OBVIOUS
<1>5. <<>> \in W
  OBVIOUS
<1> HIDE DEF step, W
<1>6. PICK r \in Runs(W, <<>>, n, step) : r[n] = Kept(s, R)
  BY <1>1, <1>3, <1>4, <1>5, KeptRuns
<1>7. <<>> \in V[0]
  <2>1. {s[i] : i \in 1..0} = {}
    OBVIOUS
  <2>2. <<>> \in good(0)
    BY <1>5, <2>1, EmptyFacts
  <2> QED BY <1>1, <2>2
<1>8. ASSUME NEW k \in 1..n, NEW t \in W, t \in V[k - 1]
      PROVE  step[<<t, k>>] \in V[k]
  <2>1. k - 1 \in 0..n /\ k \in 0..n /\ 1..k = (1..(k - 1)) \union {k} /\ k \notin 1..(k - 1)
    BY <1>1
  <2>2. t \in good(k - 1)
    BY <2>1, <1>8
  <2>3. Distinct(t) /\ ToSet(t) = {s[i] : i \in 1..(k - 1)} \intersect R
    BY <2>2
  <2>4. \A i \in 1..(k - 1) : s[i] /= s[k]
    BY <1>1, <2>1 DEF Distinct
  <2>5. {s[i] : i \in 1..k} = {s[i] : i \in 1..(k - 1)} \union {s[k]}
    BY <2>1
  <2>6. CASE s[k] \in R
    <3>1. s[k] \notin ToSet(t)
      BY <2>3, <2>4
    <3>2. Distinct(Append(t, s[k])) /\ ToSet(Append(t, s[k])) = ToSet(t) \union {s[k]}
      BY <3>1, <2>3, <1>1, AppendFacts DEF W
    <3>3. body(t, k) \in good(k)
      BY <2>3, <2>5, <2>6, <3>2, <1>2
    <3> QED BY <3>3, <2>1, <1>4
  <2>7. CASE s[k] \notin R
    <3>1. body(t, k) \in good(k)
      BY <2>3, <2>5, <2>7
    <3> QED BY <3>1, <2>1, <1>4
  <2> QED BY <2>6, <2>7
<1> HIDE DEF V
<1>9. r[n] \in V[n]
  <2>1. Leads(W, n, step, V)
    BY <1>8 DEF Leads
  <2> QED BY <1>1, <1>7, <2>1, RunsTo
<1>10. Kept(s, R) \in good(n)
  BY <1>1, <1>6, <1>9 DEF V
<1>11. ToSet(s) = {s[i] : i \in 1..n}
  BY ToSetOf
<1> QED BY <1>10, <1>11 DEF W

-----------------------------------------------------------------------------
(* Rejecting.                                                              *)

\* Two regroupings in a row are one.
LEMMA RegroupedOn ==
  ASSUME NEW w, NEW v, NEW u, NEW P, Regrouped(w, v, P), Regrouped(v, u, P)
  PROVE  Regrouped(w, u, P)
<1>1. DOMAIN v.entities = DOMAIN w.entities /\ DOMAIN u.entities = DOMAIN w.entities
  BY DEF Regrouped
<1> QED BY <1>1 DEF Regrouped

\* Nothing done is a regrouping.
LEMMA RegroupedSelf ==
  ASSUME NEW w \in Worlds, NEW P
  PROVE  Regrouped(w, w, P)
BY DEF Regrouped

\* A regrouping among P is one among more.
LEMMA RegroupedMore ==
  ASSUME NEW w, NEW v, NEW P, NEW Q, Regrouped(w, v, P), P \subseteq Q
  PROVE  Regrouped(w, v, Q)
BY DEF Regrouped

\* A failed R_ASSERT changes nothing but stopped.
LEMMA Stopped ==
  ASSUME NEW w \in Worlds
  PROVE  LET v == Stop(w)
         IN  /\ v \in Worlds /\ v.entities = w.entities /\ v.stopped
             /\ v.avatar = w.avatar /\ v.gameId = w.gameId /\ v.dead = w.dead
             /\ v.corpses = w.corpses /\ v.phase = w.phase
             /\ v.active = w.active /\ v.shortens = w.shortens
             /\ \A X : Sound(w, X) => Sound(v, X)
             /\ \A P : Regrouped(w, v, P)
<1> DEFINE v == Stop(w)
<1>1. /\ v \in Worlds /\ v.entities = w.entities /\ v.stopped
      /\ v.avatar = w.avatar /\ v.gameId = w.gameId /\ v.dead = w.dead
      /\ v.corpses = w.corpses /\ v.phase = w.phase
      /\ v.active = w.active /\ v.shortens = w.shortens
  BY DEF Stop, Worlds
<1> HIDE DEF v
<1>2. ASSUME NEW X, Sound(w, X) PROVE Sound(v, X)
  <2>1. Tree(v, X)
    BY <1>1, <1>2 DEF Sound, Tree, Alive
  <2>2. Owned(v) /\ Bags(v)
    BY <1>1, <1>2 DEF Sound, Owned, Bags
  <2>3. Slots(v)
    BY <1>1, <1>2 DEF Sound, Slots
  <2> QED BY <1>1, <2>1, <2>2, <2>3 DEF Sound
<1>3. \A P : Regrouped(w, v, P)
  BY <1>1 DEF Regrouped
<1> QED BY <1>1, <1>2, <1>3 DEF v

\* The bag id of the actor p while the actor dies: it comes first.
Filled(w, v, p, id, P) ==
    /\ Sound(v, {id}) /\ Regrouped(w, v, P)
    /\ v.entities[id].parent = p
    /\ v.entities[p].children /= <<>> /\ v.entities[p].children[1] = id
    /\ Len(v.entities[p].children) <= Len(w.entities[p].children)

\* Something else leaves the hands of the actor, or of another one.
LEMMA FilledMore ==
  ASSUME NEW w, NEW v, NEW p, NEW id, NEW P, Filled(w, v, p, id, P),
         Alive(w, p), Alive(w, id), w.entities[id].kind = "bag", Sound(w, {}),
         NEW q \in P, Alive(w, q), NEW what \in ToSet(v.entities[q].children), what /= id
  PROVE  /\ Filled(w, Dropped(v, q, what), p, id, P)
         /\ Dropped(v, q, what).stopped = v.stopped
         /\ q = p =>
              /\ Filled(w, Transferred(v, what, p, id), p, id, P)
              /\ Transferred(v, what, p, id).stopped = v.stopped
              /\ ToSet(Transferred(v, what, p, id).entities[p].children)
                   = ToSet(v.entities[p].children) \ {what}
<1>1. /\ Sound(v, {id}) /\ Regrouped(w, v, P) /\ v \in Worlds
      /\ DOMAIN v.entities = DOMAIN w.entities
      /\ p \in DOMAIN v.entities /\ id \in DOMAIN v.entities /\ q \in DOMAIN v.entities
      /\ v.entities[id].kind = "bag" /\ v.entities[id].parent = p
      /\ v.entities[p].children /= <<>> /\ v.entities[p].children[1] = id
      /\ Len(v.entities[p].children) <= Len(w.entities[p].children)
  BY DEF Filled, Regrouped, Alive, Sound
<1>2. /\ Len(v.entities[p].children) \in Nat /\ Len(w.entities[p].children) \in Nat
      /\ v.entities[p].children \in Seq(Ids)
  BY <1>1, EntityTypes, ToSetOf DEF Sound
<1>3. /\ what \in DOMAIN v.entities /\ v.entities[what].parent = q
      /\ v.entities[what].kind \in Items /\ q /= NoId /\ what /= q
  BY <1>1, ChildOf
<1>4. ASSUME NEW t, NEW u, MayMove(v, what, t, {id}), MovedTo(v, u, what, t), t /= p
      PROVE  /\ Filled(w, u, p, id, P) /\ u.stopped = v.stopped
             /\ q = p => ToSet(u.entities[p].children) = ToSet(v.entities[p].children) \ {what}
  <2>1. Sound(u, {id})
    BY <1>1, <1>4, MoveSound
  <2>2. Regrouped(v, u, {q}) /\ u.stopped = v.stopped
    BY <1>3, <1>4 DEF MovedTo
  <2>3. Regrouped(v, u, P)
    BY <2>2, RegroupedMore
  <2>4. Regrouped(w, u, P)
    BY <1>1, <2>3, RegroupedOn
  <2>5. u.entities[id].parent = p
    BY <1>1, <1>4 DEF MovedTo
  <2>6. ChildrenMoved(v, u, what, t, p)
    BY <1>1, <1>4, MovedChildren
  <2>7. /\ u.entities[p].children /= <<>> /\ u.entities[p].children[1] = id
        /\ Len(u.entities[p].children) <= Len(w.entities[p].children)
        /\ q = p => ToSet(u.entities[p].children) = ToSet(v.entities[p].children) \ {what}
    <3>1. CASE q = p
      BY <3>1, <2>6, <1>1, <1>2, <1>3 DEF ChildrenMoved
    <3>2. CASE q /= p
      BY <3>2, <2>6, <1>1, <1>3, <1>4 DEF ChildrenMoved
    <3> QED BY <3>1, <3>2
  <2> QED BY <2>1, <2>2, <2>4, <2>5, <2>7 DEF Filled
<1>5. Filled(w, Dropped(v, q, what), p, id, P) /\ Dropped(v, q, what).stopped = v.stopped
  <2>1. MayMove(v, what, NoId, {id}) /\ MovedTo(v, Dropped(v, q, what), what, NoId)
    BY <1>1, DroppedMoves
  <2>2. NoId /= p
    BY <1>1, EntityTypes, ServerAssumption
  <2> QED BY <2>1, <2>2, <1>4
<1>6. ASSUME q = p
      PROVE  /\ Filled(w, Transferred(v, what, p, id), p, id, P)
             /\ Transferred(v, what, p, id).stopped = v.stopped
             /\ ToSet(Transferred(v, what, p, id).entities[p].children)
                  = ToSet(v.entities[p].children) \ {what}
  <2>1. v.entities[what].children = <<>>
    BY <1>1, <1>3 DEF Sound, Tree
  <2>2. id /= p /\ id /= NoId
    BY <1>1, EntityTypes, ServerAssumption DEF Sound, Tree
  <2>3. MayMove(v, what, id, {id})
    BY <1>1, <1>3, <1>6, <2>1, <2>2 DEF MayMove, MayHold, Alive, Holders
  <2>4. MovedTo(v, Transferred(v, what, p, id), what, id)
    BY <1>1, <1>6, <2>2, <2>3, TransferredMoves
  <2> QED BY <1>4, <1>6, <2>2, <2>3, <2>4
<1> QED BY <1>5, <1>6

\* What is listed goes from the actor into its bag, all of it.
LEMMA AllFilled ==
  ASSUME NEW w, Sound(w, {}), ~ w.stopped, NEW p, NEW id, NEW P, p \in P, Filled(w, w, p, id, P),
         Alive(w, p), Alive(w, id), w.entities[id].kind = "bag",
         NEW items \in Seq(Ids), Distinct(items),
         ToSet(items) \subseteq ToSet(w.entities[p].children) \ {id}
  PROVE  LET v == TransferAll(w, items, p, id)
         IN  Filled(w, v, p, id, P) /\ ~ v.stopped
<1> DEFINE n == Len(items)
           W == {v \in Worlds : Filled(w, v, p, id, P)}
           body(v, k) == Transferred(v, items[k], p, id)
           step == [x \in W \X (1..n) |-> body(x[1], x[2])]
           good(k) == {v \in W : /\ ~ v.stopped
                                 /\ \A j \in (k + 1)..n : items[j] \in ToSet(v.entities[p].children)}
           V == [k \in 0..n |-> good(k)]
<1>1. /\ n \in Nat /\ DOMAIN items = 1..n /\ w \in Worlds
      /\ \A k \in 1..n : items[k] \in ToSet(w.entities[p].children) \ {id}
  BY ToSetOf, LenProperties DEF Sound
<1>2. ASSUME NEW v \in W, NEW k \in 1..n, items[k] \in ToSet(v.entities[p].children)
      PROVE  /\ Filled(w, body(v, k), p, id, P)
             /\ body(v, k).stopped = v.stopped
             /\ ToSet(body(v, k).entities[p].children)
                  = ToSet(v.entities[p].children) \ {items[k]}
  <2>1. Filled(w, v, p, id, P) /\ items[k] /= id
    BY <1>1
  <2> HIDE DEF n, W
  <2> QED BY <1>2, <2>1, FilledMore
<1>3. ASSUME NEW v \in W, NEW k \in 1..n PROVE body(v, k) \in W
  <2>1. CASE items[k] \in ToSet(v.entities[p].children)
    <3>1. Filled(w, body(v, k), p, id, P)
      BY <1>2, <2>1
    <3> QED BY <3>1 DEF Filled, Sound
  <2>2. CASE items[k] \notin ToSet(v.entities[p].children)
    <3>1. v \in Worlds /\ p \in DOMAIN v.entities
      BY DEF Filled, Regrouped, Alive
    <3>2. v.entities[p].children \in Seq(Ids)
      BY <3>1, EntityTypes
    <3>3. ~ Contains(v.entities[p].children, items[k])
      BY <3>2, <2>2, InChildren
    <3>4. body(v, k) = Stop(v)
      BY <3>3 DEF Transferred
    <3>5. Filled(w, Stop(v), p, id, P) /\ Stop(v) \in Worlds
      BY <3>1, Stopped, RegroupedOn DEF Filled
    <3> QED BY <3>4, <3>5
  <2> QED BY <2>1, <2>2
<1>4. step \in Steps(W, n)
  <2> HIDE DEF W, body
  <2> QED BY <1>3 DEF Steps
<1>5. \A v \in W, k \in 1..n : step[<<v, k>>] = Transferred(v, items[k], p, id)
  OBVIOUS
<1>6. w \in W /\ \A v \in W : v \in Worlds /\ Filled(w, v, p, id, P)
  BY <1>1
<1> HIDE DEF step, W
<1>7. PICK r \in Runs(W, w, n, step) : r[n] = TransferAll(w, items, p, id)
  BY <1>1, <1>4, <1>5, <1>6, TransfersRun
<1>8. w \in V[0]
  <2>1. w \in good(0)
    BY <1>1, <1>6
  <2> QED BY <1>1, <2>1
<1>9. ASSUME NEW k \in 1..n, NEW v \in W, v \in V[k - 1]
      PROVE  step[<<v, k>>] \in V[k]
  <2>1. k - 1 \in 0..n /\ k \in 0..n /\ k \in (k - 1 + 1)..n
    BY <1>1
  <2>2. v \in good(k - 1)
    BY <2>1, <1>9
  <2>3. ~ v.stopped /\ items[k] \in ToSet(v.entities[p].children)
    BY <2>1, <2>2
  <2>4. ASSUME NEW j \in (k + 1)..n
        PROVE  items[j] \in ToSet(body(v, k).entities[p].children)
    <3>1. j \in 1..n /\ j /= k /\ j \in (k - 1 + 1)..n
      BY <1>1
    <3>2. items[j] /= items[k]
      BY <3>1, <1>1 DEF Distinct
    <3>3. items[j] \in ToSet(v.entities[p].children)
      BY <2>2, <3>1
    <3> QED BY <3>2, <3>3, <2>3, <1>2
  <2>5. body(v, k) \in W /\ body(v, k).stopped = v.stopped
    BY <2>3, <1>2, <1>3
  <2>6. body(v, k) \in good(k)
    BY <2>3, <2>4, <2>5
  <2> QED BY <2>1, <2>6, <1>5
<1> HIDE DEF V, n
<1>10. r[n] \in V[n]
  <2>1. Leads(W, n, step, V)
    BY <1>9 DEF Leads
  <2> QED BY <1>1, <1>8, <2>1, RunsTo
<1>11. r[n] \in good(n)
  BY <1>1, <1>10 DEF V
<1> QED BY <1>6, <1>7, <1>11

\* What somebody has in the hands is a weapon.
Hands(w) == Alive(w, w.active) => w.entities[w.active].kind \in Weapons

\* A dying actor fills its bag with what it carries, and no R_ASSERT of
\* OnDetach fails.
LEMMA OnDetachFacts ==
  ASSUME NEW w, Sound(w, {}), ~ w.stopped, Hands(w), NEW p, Alive(w, p),
         w.entities[p].kind = "actor", NEW id \in ToSet(w.entities[p].children),
         w.entities[id].kind = "bag",
         NEW P, p \in P, Alive(w, w.active) => w.entities[w.active].parent \in P
  PROVE  LET v == OnDetach(w, p, id)
         IN  Filled(w, v, p, id, P) /\ ~ v.stopped
<1> DEFINE c == w.entities[p].children
           R == {i \in ToSet(c) : i /= w.active /\ w.entities[i].kind \in {"weapon", "ammo"}}
           items == Kept(c, R)
           moved == TransferAll(w, items, p, id)
<1>1. /\ w \in Worlds /\ c \in Seq(Ids) /\ Distinct(c) /\ c /= <<>>
      /\ id \in DOMAIN w.entities /\ w.entities[id].parent = p /\ p /= NoId
  BY ChildOf DEF Sound, Tree, Alive
<1>2. c[1] = id
  <2>1. PICK k \in 1..Len(c) : c[k] = id
    BY <1>1, ToSetOf
  <2>2. Len(c) \in Nat
    BY <1>1, ToSetOf
  <2>3. k \notin 2..Len(c)
    BY <2>1 DEF Sound, Bags, Rest, Alive
  <2>4. k = 1
    BY <2>2, <2>3
  <2> QED BY <2>1, <2>4
<1>3. Filled(w, w, p, id, P)
  <2>1. Sound(w, {id})
    BY DEF Sound, Tree
  <2>2. Len(c) <= Len(c)
    <3>1. Len(c) \in Nat
      BY <1>1, ToSetOf
    <3> QED BY <3>1
  <2> QED BY <1>1, <1>2, <2>1, <2>2, RegroupedSelf DEF Filled
<1>4. items \in Seq(Ids) /\ Distinct(items) /\ ToSet(items) = ToSet(c) \intersect R
  <2> HIDE DEF c, R
  <2> QED BY <1>1, KeptFacts
<1>5. id \notin R
  BY DEF Weapons
<1>6. Filled(w, moved, p, id, P) /\ ~ moved.stopped
  <2> HIDE DEF c, R, items
  <2> QED BY <1>1, <1>3, <1>4, <1>5, AllFilled DEF Alive, c
<1>7. \A i \in ToSet(c) : Alive(w, i) /\ w.entities[i].parent = p
  BY DEF Sound, Tree, Alive
<1>8. OnDetach(w, p, id)
        = IF ~ Alive(w, w.active) THEN moved ELSE Dropped(moved, w.entities[w.active].parent, w.active)
  BY <1>7 DEF OnDetach, Require
<1> HIDE DEF moved
<1>9. ASSUME Alive(w, w.active)
      PROVE  LET v == Dropped(moved, w.entities[w.active].parent, w.active)
             IN  Filled(w, v, p, id, P) /\ v.stopped = moved.stopped
  <2> DEFINE a == w.active
             q == w.entities[a].parent
  <2>1. CASE ~ MayReject(moved, q, a)
    BY <2>1, <1>6 DEF Dropped
  <2>2. CASE MayReject(moved, q, a)
    <3>1. Alive(w, q) /\ q \in P
      BY <2>2, <1>6, <1>9 DEF MayReject, Alive, Filled, Regrouped
    <3>2. a /= id
      BY <1>9 DEF Hands, Weapons
    <3>3. moved.entities[q].children \in Seq(Ids)
      BY <3>1, <1>6, EntityTypes DEF Filled, Regrouped, Alive
    <3>4. a \in ToSet(moved.entities[q].children)
      BY <2>2, <3>3, InChildren DEF MayReject
    <3> HIDE DEF a, q
    <3>5. Alive(w, id)
      BY <1>1 DEF Alive
    <3>6. Filled(w, Dropped(moved, q, a), p, id, P) /\ Dropped(moved, q, a).stopped = moved.stopped
      BY <3>1, <3>2, <3>4, <3>5, <1>6, FilledMore
    <3> QED BY <3>6 DEF a, q
  <2> QED BY <2>1, <2>2
<1> QED BY <1>6, <1>8, <1>9

\* Anything but the bag of an actor is just dropped.
LEMMA RejectedPlain ==
  ASSUME NEW w, NEW X, Sound(w, X), NEW p, Alive(w, p), NEW id \in ToSet(w.entities[p].children),
         ~ (w.entities[id].kind = "bag" /\ w.entities[p].kind = "actor")
  PROVE  Rejected(w, p, id) = Dropped(w, p, id)
<1> DEFINE c == w.entities[p].children
<1>1. c \in Seq(Ids) /\ MayReject(w, p, id)
  BY ChildOf, DroppedMoves DEF Alive
<1>2. PICK k \in 1..Len(c) : k = SelectInSeq(c, LAMBDA i : i = id)
                             /\ RemoveFirst(c, id) = RemoveAt(c, k)
  BY <1>1, PlaceOf, Zenon
<1>3. OnDetach(w, p, id) = w
  BY DEF OnDetach
<1>4. Len(c) \in Nat
  BY <1>1, LenProperties
<1>5. k <= Len(c)
  BY <1>4
<1>6. Erased(w, c, k) = RemoveFirst(c, id)
  BY <1>2, <1>5 DEF Erased
<1>7. id /= p
  BY ChildOf DEF Alive
<1>8. Rejected(w, p, id) = [w EXCEPT !.entities[id].parent = NoId,
                                     !.entities[p].children = Erased(w, @, k)]
  BY <1>1, <1>2, <1>3, Zenon DEF Rejected
<1> QED BY <1>1, <1>6, <1>7, <1>8 DEF Dropped

\* What Rejected does to the world.
Out(w, v, p, id, P) ==
    /\ Sound(v, {}) /\ Regrouped(w, v, P) /\ v.stopped = w.stopped
    /\ v.entities[id].parent = NoId
    /\ Len(v.entities[p].children) < Len(w.entities[p].children)

\* id is one of the children of p no longer, and all the others stay.
OneLess(w, v, p, id) ==
    /\ \A i \in DOMAIN w.entities \ {p} : v.entities[i].children = w.entities[i].children
    /\ ToSet(v.entities[p].children) = ToSet(w.entities[p].children) \ {id}
    /\ Len(v.entities[p].children) = Len(w.entities[p].children) - 1
    /\ v.entities[p].kind = w.entities[p].kind

\* What is dropped is in nothing afterwards, and all else stays.
LEMMA DroppedOut ==
  ASSUME NEW w, NEW X, Sound(w, X), NEW p, Alive(w, p), NEW id \in ToSet(w.entities[p].children),
         X \subseteq {id}
  PROVE  /\ Out(w, Dropped(w, p, id), p, id, {p})
         /\ OneLess(w, Dropped(w, p, id), p, id)
<1> DEFINE v == Dropped(w, p, id)
<1>1. MayMove(w, id, NoId, X) /\ MovedTo(w, v, id, NoId) /\ w.entities[id].parent = p
  BY DroppedMoves DEF Alive
<1> HIDE DEF v
<1>2. Sound(v, X)
  BY <1>1, MoveSound
<1>3. p \in DOMAIN w.entities /\ p /= NoId /\ w \in Worlds /\ w.entities[p].children \in Seq(Ids)
  BY ChildOf DEF Alive, Sound
<1>4. ChildrenMoved(w, v, id, NoId, p)
  BY <1>1, <1>3, MovedChildren
<1>5. Len(w.entities[p].children) \in Nat
  BY <1>3, LenProperties
<1>6. /\ Len(v.entities[p].children) = Len(w.entities[p].children) - 1
      /\ ToSet(v.entities[p].children) = ToSet(w.entities[p].children) \ {id}
  BY <1>1, <1>4 DEF ChildrenMoved
<1>7. v.entities[id].parent = NoId /\ Regrouped(w, v, {p}) /\ v.stopped = w.stopped
  BY <1>1 DEF MovedTo
<1>8. Sound(v, {})
  BY <1>2, <1>7 DEF Sound, Tree
<1>9. \A i \in DOMAIN w.entities \ {p} : v.entities[i].children = w.entities[i].children
  <2>1. NoId \notin DOMAIN w.entities
    BY <1>3, EntityTypes, ServerAssumption
  <2> QED BY <1>1, <2>1 DEF MovedTo
<1>10. v.entities[p].kind = w.entities[p].kind
  BY <1>3, <1>7 DEF Regrouped
<1>11. Out(w, v, p, id, {p})
  BY <1>5, <1>6, <1>7, <1>8 DEF Out
<1>12. OneLess(w, v, p, id)
  BY <1>6, <1>9, <1>10 DEF OneLess
<1> QED BY <1>11, <1>12 DEF v

\* The bag of a dying actor is filled and then let go.
LEMMA RejectedBag ==
  ASSUME NEW w, Sound(w, {}), ~ w.stopped, Hands(w), NEW p, Alive(w, p),
         w.entities[p].kind = "actor", NEW id \in ToSet(w.entities[p].children),
         w.entities[id].kind = "bag",
         NEW P, p \in P, Alive(w, w.active) => w.entities[w.active].parent \in P
  PROVE  Out(w, Rejected(w, p, id), p, id, P)
<1> DEFINE c == w.entities[p].children
           v == OnDetach(w, p, id)
           d == v.entities[p].children
<1>1. /\ c \in Seq(Ids) /\ MayReject(w, p, id) /\ id /= p /\ c /= <<>>
      /\ p \in DOMAIN w.entities /\ id \in DOMAIN w.entities /\ p /= NoId
  BY ChildOf, DroppedMoves DEF Alive
<1>2. Filled(w, v, p, id, P) /\ ~ v.stopped
  BY OnDetachFacts
<1> HIDE DEF v
<1>3. /\ Sound(v, {id}) /\ Regrouped(w, v, P) /\ v \in Worlds /\ v.entities[id].parent = p
      /\ p \in DOMAIN v.entities /\ id \in DOMAIN v.entities
      /\ d \in Seq(Ids) /\ d /= <<>> /\ d[1] = id /\ Len(d) <= Len(c)
      /\ Len(d) \in Nat /\ Len(c) \in Nat
  <2>1. Sound(v, {id}) /\ Regrouped(w, v, P) /\ v \in Worlds
    BY <1>2 DEF Filled, Sound
  <2>2. p \in DOMAIN v.entities /\ id \in DOMAIN v.entities
    BY <1>1, <2>1 DEF Regrouped
  <2>3. d \in Seq(Ids)
    BY <2>1, <2>2, EntityTypes
  <2>4. Len(d) \in Nat /\ Len(c) \in Nat
    BY <1>1, <2>3, LenProperties
  <2> QED BY <1>2, <2>1, <2>2, <2>3, <2>4 DEF Filled
<1>4. id \in ToSet(d)
  BY <1>3, EndsOf
<1>5. PICK j \in 1..Len(d) : RemoveFirst(d, id) = RemoveAt(d, j) /\ j = 1
  BY <1>3, <1>4, PlaceOf, Zenon
<1>6. Erased(w, d, 1) = RemoveFirst(d, id)
  BY <1>3, <1>5 DEF Erased
<1>7. c[1] = id
  <2>1. PICK i \in 1..Len(c) : c[i] = id
    BY <1>1, ToSetOf
  <2>2. i \notin 2..Len(c)
    BY <1>1, <2>1 DEF Sound, Bags, Rest, Alive
  <2>3. i = 1
    BY <1>3, <2>2
  <2> QED BY <2>1, <2>3
<1>8. PICK k \in 1..Len(c) : k = SelectInSeq(c, LAMBDA i : i = id) /\ k = 1
  BY <1>1, <1>7, PlaceOf, Zenon
<1>9. Rejected(w, p, id) = [v EXCEPT !.entities[id].parent = NoId,
                                     !.entities[p].children = Erased(w, @, 1)]
  BY <1>1, <1>8, Zenon DEF Rejected, v
<1>10. MayReject(v, p, id)
  BY <1>3, <1>4, DroppedMoves
<1>11. Rejected(w, p, id) = Dropped(v, p, id)
  BY <1>1, <1>6, <1>9, <1>10 DEF Dropped
<1>12. Out(v, Dropped(v, p, id), p, id, {p})
  BY <1>3, <1>4, DroppedOut DEF Alive
<1>13. Regrouped(w, Dropped(v, p, id), P)
  <2>1. Regrouped(v, Dropped(v, p, id), {p}) /\ {p} \subseteq P
    BY <1>12 DEF Out
  <2>2. Regrouped(v, Dropped(v, p, id), P)
    BY <2>1, RegroupedMore
  <2> QED BY <1>3, <2>2, RegroupedOn
<1>14. Len(Dropped(v, p, id).entities[p].children) \in Nat
  <2>1. Sound(Dropped(v, p, id), {}) /\ Regrouped(v, Dropped(v, p, id), {p})
    BY <1>12 DEF Out
  <2>2. p \in DOMAIN Dropped(v, p, id).entities /\ Dropped(v, p, id) \in Worlds
    BY <1>3, <2>1 DEF Regrouped
  <2> QED BY <2>2, EntityTypes, LenProperties
<1> DEFINE u == Dropped(v, p, id)
<1>15. /\ Sound(u, {}) /\ u.stopped = v.stopped /\ u.entities[id].parent = NoId
       /\ Len(u.entities[p].children) < Len(d)
  BY <1>12 DEF Out
<1>16. Len(u.entities[p].children) < Len(c) /\ u.stopped = w.stopped
  <2>1. v.stopped \in BOOLEAN /\ w.stopped \in BOOLEAN
    BY <1>3 DEF Sound, Worlds
  <2>2. v.stopped = w.stopped
    BY <1>2, <2>1
  <2> DEFINE l == Len(u.entities[p].children)
  <2>3. l \in Nat /\ l < Len(d) /\ Len(d) <= Len(c) /\ Len(d) \in Nat /\ Len(c) \in Nat
    BY <1>3, <1>14, <1>15
  <2>4. u.stopped = v.stopped
    BY <1>15
  <2>5. l < Len(c)
    <3> HIDE DEF l, c, d
    <3> QED BY <2>3
  <2> QED BY <2>2, <2>4, <2>5
<1> HIDE DEF u
<1> QED BY <1>11, <1>13, <1>15, <1>16 DEF Out, u

-----------------------------------------------------------------------------
(* Destroying.                                                             *)

\* The entities of D are gone, and nothing else but parents and children.
Reduced(w, v, D) ==
    /\ v \in Worlds /\ v.stopped = w.stopped
    /\ DOMAIN v.entities = DOMAIN w.entities \ D
    /\ \A i \in DOMAIN v.entities :
          /\ v.entities[i].kind = w.entities[i].kind
          /\ v.entities[i].owner = w.entities[i].owner
          /\ v.entities[i].alive = w.entities[i].alive
    /\ v.gameId = w.gameId /\ v.dead = w.dead /\ v.phase = w.phase
    /\ v.active = w.active /\ v.shortens = w.shortens
    /\ \A c \in Clients : v.avatar[c] = w.avatar[c] \/ w.avatar[c] \in D
    /\ ToSet(v.corpses) = ToSet(w.corpses) \ D
    /\ Distinct(v.corpses)

\* Two removals in a row remove both sets.
LEMMA ReducedOn ==
  ASSUME NEW w, NEW v, NEW u, NEW D, NEW E, Reduced(w, v, D), Reduced(v, u, E)
  PROVE  Reduced(w, u, D \union E)
<1>1. /\ u \in Worlds /\ u.stopped = w.stopped
      /\ u.gameId = w.gameId /\ u.dead = w.dead /\ u.phase = w.phase
      /\ u.active = w.active /\ u.shortens = w.shortens /\ Distinct(u.corpses)
  BY DEF Reduced
<1>2. DOMAIN u.entities = DOMAIN w.entities \ (D \union E)
  BY DEF Reduced
<1>3. ToSet(u.corpses) = ToSet(w.corpses) \ (D \union E)
  BY DEF Reduced
<1>4. ASSUME NEW i \in DOMAIN u.entities
      PROVE  /\ u.entities[i].kind = w.entities[i].kind
             /\ u.entities[i].owner = w.entities[i].owner
             /\ u.entities[i].alive = w.entities[i].alive
  <2>1. i \in DOMAIN v.entities
    BY DEF Reduced
  <2> QED BY <2>1 DEF Reduced
<1>5. ASSUME NEW c \in Clients PROVE u.avatar[c] = w.avatar[c] \/ w.avatar[c] \in D \union E
  BY DEF Reduced
<1> QED BY <1>1, <1>2, <1>3, <1>4, <1>5 DEF Reduced

\* A regrouping removes nothing.
LEMMA RegroupedReduced ==
  ASSUME NEW w, NEW v, NEW P, Regrouped(w, v, P), v.stopped = w.stopped, Distinct(w.corpses)
  PROVE  Reduced(w, v, {})
BY DEF Regrouped, Reduced

\* Dropping out of a sound world.
LEMMA PlainOut ==
  ASSUME NEW w, Sound(w, {}), NEW p, Alive(w, p), NEW id \in ToSet(w.entities[p].children)
  PROVE  /\ Out(w, Dropped(w, p, id), p, id, {p})
         /\ OneLess(w, Dropped(w, p, id), p, id)
<1> SUFFICES ASSUME NEW X, X = {}
             PROVE  /\ Out(w, Dropped(w, p, id), p, id, {p})
                    /\ OneLess(w, Dropped(w, p, id), p, id)
  OBVIOUS
<1>1. Sound(w, X) /\ X \subseteq {id}
  OBVIOUS
<1> QED BY <1>1, DroppedOut

\* An entity that is alone and on no list goes, and every other one is as
\* before.
LEMMA EntityDestroyedFacts ==
  ASSUME NEW w, Sound(w, {}), Distinct(w.corpses), NEW id, Alive(w, id),
         w.entities[id].parent = NoId, w.entities[id].children = <<>>,
         id \notin ToSet(w.corpses)
  PROVE  LET v == EntityDestroyed(w, id)
         IN  /\ Sound(v, {}) /\ Reduced(w, v, {id})
             /\ \A i \in DOMAIN v.entities : v.entities[i] = w.entities[i]
<1> DEFINE e == w.entities
           f == [i \in DOMAIN e \ {id} |-> e[i]]
           o == e[id].owner
           a == [w.avatar EXCEPT ![o] = IF w.avatar[o] = id THEN NoId ELSE w.avatar[o]]
           v == EntityDestroyed(w, id)
<1>1. /\ w \in Worlds /\ e \in Trees /\ DOMAIN e \subseteq Ids /\ id \in DOMAIN e
      /\ o \in Clients /\ w.avatar \in [Clients -> Ids \union {NoId}]
      /\ \A i \in DOMAIN e : e[i] \in Entity
  BY EntityTypes DEF Sound, Worlds, Alive
<1>2. v = [w EXCEPT !.entities = f, !.avatar = a]
  BY DEF EntityDestroyed
<1>3. f \in Trees
  <2>1. f \in [DOMAIN e \ {id} -> Entity] /\ DOMAIN e \ {id} \in SUBSET Ids
    BY <1>1
  <2> QED BY <2>1 DEF Trees
<1>4. /\ a \in [Clients -> Ids \union {NoId}]
      /\ \A c \in Clients : a[c] = w.avatar[c] \/ w.avatar[c] \in {id}
  BY <1>1
<1> HIDE DEF a, v
<1>6. /\ v \in Worlds /\ v.entities = f /\ v.avatar = a /\ v.stopped = w.stopped
      /\ v.gameId = w.gameId /\ v.dead = w.dead /\ v.phase = w.phase
      /\ v.active = w.active /\ v.shortens = w.shortens /\ v.corpses = w.corpses
  <2> HIDE DEF f, e
  <2> QED BY <1>1, <1>2, <1>3, <1>4 DEF Worlds
<1>7. DOMAIN v.entities = DOMAIN e \ {id} /\ \A i \in DOMAIN v.entities : v.entities[i] = e[i]
  BY <1>6
<1>8. ToSet(v.corpses) = ToSet(w.corpses) \ {id} /\ Distinct(v.corpses)
  BY <1>6
<1>9. Reduced(w, v, {id})
  BY <1>4, <1>6, <1>7, <1>8 DEF Reduced
<1> HIDE DEF f
<1>10. Tree(v, {})
  <2>1. \A i \in DOMAIN e : e[i].parent /= id
    BY <1>1, EmptyFacts, EntityTypes, ServerAssumption DEF Sound, Tree, Alive
  <2>2. \A i \in DOMAIN e : id \notin ToSet(e[i].children)
    <3>1. NoId \notin DOMAIN e
      BY <1>1, ServerAssumption
    <3> QED BY <3>1 DEF Sound, Tree
  <2> QED BY <1>1, <1>7, <2>1, <2>2 DEF Sound, Tree, Alive
<1>11. \A i \in DOMAIN e : \A j \in ToSet(e[i].children) : j \in DOMAIN v.entities
  <2>1. NoId \notin DOMAIN e
    BY <1>1, ServerAssumption
  <2> QED BY <1>7, <2>1 DEF Sound, Tree, Alive
<1>12. Owned(v)
  BY <1>7 DEF Sound, Owned
<1>13. Bags(v)
  <2> SUFFICES ASSUME NEW i \in DOMAIN v.entities, e[i].kind = "actor",
                      NEW j \in Rest(e[i].children)
               PROVE  v.entities[j].kind /= "bag"
    BY <1>7 DEF Bags
  <2>1. e[i].children \in Seq(Ids)
    BY <1>1, <1>7, EntityTypes
  <2>2. j \in ToSet(e[i].children)
    <3>1. ToSet(e[i].children) = {e[i].children[k] : k \in 1..Len(e[i].children)}
      BY <2>1, ToSetOf
    <3>2. Len(e[i].children) \in Nat
      BY <2>1, ToSetOf
    <3> QED BY <3>1, <3>2 DEF Rest
  <2> QED BY <1>7, <1>11, <2>2 DEF Sound, Bags
<1>14. Slots(v)
  BY <1>7, <1>11 DEF Sound, Slots
<1>15. Sound(v, {})
  BY <1>6, <1>10, <1>12, <1>13, <1>14 DEF Sound
<1> QED BY <1>7, <1>9, <1>15 DEF v

\* id is gone, and p, if it is not NoId, has it no longer.
LeafRemoved(w, v, id, p) ==
    /\ Sound(v, {}) /\ Reduced(w, v, {id})
    /\ p /= NoId =>
          /\ ToSet(v.entities[p].children) = ToSet(w.entities[p].children) \ {id}
          /\ Len(v.entities[p].children) = Len(w.entities[p].children) - 1
    /\ \A i \in DOMAIN v.entities \ {p} : v.entities[i].children = w.entities[i].children

\* An entity with nothing inside goes, and leaves what it is in.
LEMMA RemovedLeaves ==
  ASSUME NEW w, Sound(w, {}), Distinct(w.corpses), NEW id, Alive(w, id),
         w.entities[id].children = <<>>,
         w.entities[id].kind = "actor" => w.gameId[w.entities[id].owner] /= id,
         NEW p, p = w.entities[id].parent,
         p /= NoId => ~ (w.entities[id].kind = "bag" /\ w.entities[p].kind = "actor")
  PROVE  LeafRemoved(w, Removed(w, id), id, p)
<1> DEFINE r == IF p = NoId THEN w ELSE Rejected(w, p, id)
           u == [r EXCEPT !.corpses = Kept(@, Ids \ {id})]
           v == EntityDestroyed(u, id)
<1>1. w \in Worlds /\ id \in DOMAIN w.entities /\ id \in Ids
  BY EntityTypes DEF Sound, Alive
<1>2. /\ Sound(r, {}) /\ Regrouped(w, r, {p}) /\ r.stopped = w.stopped
      /\ r.entities[id].parent = NoId /\ r.entities[id].children = <<>>
      /\ p /= NoId =>
            /\ ToSet(r.entities[p].children) = ToSet(w.entities[p].children) \ {id}
            /\ Len(r.entities[p].children) = Len(w.entities[p].children) - 1
            /\ p \in DOMAIN w.entities /\ p /= id
      /\ \A i \in DOMAIN w.entities \ {p} : r.entities[i].children = w.entities[i].children
  <2>1. CASE p = NoId
    BY <1>1, <2>1, RegroupedSelf
  <2>2. CASE p /= NoId
    <3>1. Alive(w, p) /\ id \in ToSet(w.entities[p].children) /\ p /= id
      BY <1>1, <2>2 DEF Sound, Tree
    <3>2. r = Dropped(w, p, id)
      BY <2>2, <3>1, RejectedPlain
    <3>6. /\ Out(w, Dropped(w, p, id), p, id, {p})
          /\ OneLess(w, Dropped(w, p, id), p, id)
      BY <3>1, PlainOut
    <3> HIDE DEF r
    <3>3. /\ Out(w, r, p, id, {p})
          /\ \A i \in DOMAIN w.entities \ {p} : r.entities[i].children = w.entities[i].children
          /\ ToSet(r.entities[p].children) = ToSet(w.entities[p].children) \ {id}
          /\ Len(r.entities[p].children) = Len(w.entities[p].children) - 1
      BY <3>2, <3>6 DEF OneLess
    <3>4. r.entities[id].children = <<>>
      BY <1>1, <3>1, <3>3
    <3> QED BY <3>1, <3>3, <3>4 DEF Out, Alive
  <2> QED BY <2>1, <2>2
<1>3. Removed(w, id) = EntityDestroyed(OnDestroyObject(r, id), id)
  BY DEF Removed
<1> HIDE DEF r
<1>4. /\ r \in Worlds /\ r.corpses = w.corpses /\ r.corpses \in Seq(Ids)
      /\ DOMAIN r.entities = DOMAIN w.entities
      /\ r.entities[id].kind = w.entities[id].kind
      /\ r.entities[id].owner = w.entities[id].owner /\ r.gameId = w.gameId
  BY <1>1, <1>2 DEF Regrouped, Worlds
<1>5. OnDestroyObject(r, id) = u
  BY <1>4 DEF OnDestroyObject
<1>6. /\ u \in Worlds /\ u.entities = r.entities /\ u.stopped = r.stopped
      /\ u.avatar = r.avatar /\ u.gameId = r.gameId /\ u.dead = r.dead /\ u.phase = r.phase
      /\ u.active = r.active /\ u.shortens = r.shortens
      /\ ToSet(u.corpses) = ToSet(w.corpses) \ {id} /\ Distinct(u.corpses)
  <2> DEFINE k == Kept(r.corpses, Ids \ {id})
  <2>1. k \in Seq(Ids) /\ ToSet(k) = ToSet(w.corpses) \intersect (Ids \ {id}) /\ Distinct(k)
    BY <1>4, KeptFacts
  <2>2. ToSet(w.corpses) \subseteq Ids
    BY <1>4, ToSetOf
  <2>3. u = [r EXCEPT !.corpses = k]
    OBVIOUS
  <2> HIDE DEF k, u
  <2>4. /\ u \in Worlds /\ u.entities = r.entities /\ u.stopped = r.stopped
        /\ u.avatar = r.avatar /\ u.gameId = r.gameId /\ u.dead = r.dead /\ u.phase = r.phase
        /\ u.active = r.active /\ u.shortens = r.shortens /\ u.corpses = k
    BY <1>4, <2>1, <2>3 DEF Worlds
  <2> QED BY <2>1, <2>2, <2>4
<1> HIDE DEF u
<1>7. Sound(u, {})
  <2>1. Tree(u, {})
    BY <1>2, <1>6 DEF Sound, Tree, Alive
  <2>2. Owned(u) /\ Bags(u)
    BY <1>2, <1>6 DEF Sound, Owned, Bags
  <2>3. Slots(u)
    BY <1>2, <1>6 DEF Sound, Slots
  <2> QED BY <1>6, <2>1, <2>2, <2>3 DEF Sound
<1>8. /\ Sound(v, {}) /\ Reduced(u, v, {id})
      /\ \A i \in DOMAIN v.entities : v.entities[i] = u.entities[i]
  BY <1>1, <1>2, <1>4, <1>6, <1>7, EntityDestroyedFacts DEF Alive
<1> HIDE DEF v
<1>9. DOMAIN v.entities = DOMAIN w.entities \ {id}
  BY <1>4, <1>6, <1>8 DEF Reduced
<1>10. Reduced(w, v, {id})
  <2>1. /\ v \in Worlds /\ v.stopped = w.stopped
        /\ v.gameId = w.gameId /\ v.dead = w.dead /\ v.phase = w.phase
        /\ v.active = w.active /\ v.shortens = w.shortens /\ Distinct(v.corpses)
        /\ \A c \in Clients : v.avatar[c] = w.avatar[c] \/ w.avatar[c] \in {id}
        /\ ToSet(v.corpses) = ToSet(w.corpses) \ {id}
    BY <1>2, <1>6, <1>8 DEF Reduced, Regrouped
  <2>2. \A i \in DOMAIN v.entities :
            /\ v.entities[i].kind = w.entities[i].kind
            /\ v.entities[i].owner = w.entities[i].owner
            /\ v.entities[i].alive = w.entities[i].alive
    BY <1>2, <1>6, <1>8, <1>9 DEF Regrouped
  <2> QED BY <1>9, <2>1, <2>2 DEF Reduced
<1>11. p /= NoId => p \in DOMAIN v.entities
  BY <1>2, <1>9
<1>12. Removed(w, id) = v
  BY <1>3, <1>5 DEF v
<1> HIDE DEF v
<1>13. p /= NoId =>
          /\ ToSet(v.entities[p].children) = ToSet(w.entities[p].children) \ {id}
          /\ Len(v.entities[p].children) = Len(w.entities[p].children) - 1
  BY <1>2, <1>6, <1>8, <1>11
<1>14. \A i \in DOMAIN v.entities \ {p} : v.entities[i].children = w.entities[i].children
  BY <1>2, <1>6, <1>8, <1>9
<1>15. Sound(v, {})
  BY <1>8
<1> QED BY <1>10, <1>12, <1>13, <1>14, <1>15 DEF LeafRemoved

\* The children of id are going.
Emptied(w, v, id) ==
    /\ Sound(v, {}) /\ Alive(v, id)
    /\ v.entities[id].parent = w.entities[id].parent
    /\ ToSet(v.entities[id].children) \subseteq ToSet(w.entities[id].children)
    /\ Reduced(w, v, ToSet(w.entities[id].children) \ ToSet(v.entities[id].children))

\* One more child is destroyed: the entity has one fewer and all else stays.
LEMMA EmptiedMore ==
  ASSUME NEW w, NEW id, Alive(w, id), id \notin ToSet(w.entities[id].children),
         NEW v, Emptied(w, v, id), NEW i \in ToSet(v.entities[id].children),
         w.entities[i].kind /= "bag" \/ w.entities[id].kind /= "actor"
  PROVE  /\ Emptied(w, Removed(v, i), id)
         /\ Len(Removed(v, i).entities[id].children) = Len(v.entities[id].children) - 1
<1> DEFINE C == ToSet(w.entities[id].children)
           D == ToSet(v.entities[id].children)
           u == Removed(v, i)
<1>1. /\ Sound(v, {}) /\ id \in DOMAIN v.entities /\ D \subseteq C /\ Reduced(w, v, C \ D)
      /\ v.entities[id].parent = w.entities[id].parent
  BY DEF Emptied, Alive
<1>2. /\ i \in DOMAIN v.entities /\ v.entities[i].parent = id /\ id /= NoId /\ i /= id
      /\ v.entities[i].kind \in Items /\ v.entities[id].children /= <<>>
  BY <1>1, ChildOf
<1>3. v.entities[i].children = <<>> /\ v.entities[id].parent = NoId
  BY <1>1, <1>2 DEF Sound, Tree
<1>4. v.entities[i].kind /= "actor"
  BY <1>2 DEF Items, Weapons
<1>5. ~ (v.entities[i].kind = "bag" /\ v.entities[id].kind = "actor")
  BY <1>1, <1>2 DEF Reduced
<1>6. Distinct(v.corpses)
  BY <1>1 DEF Reduced
<1>7. /\ Sound(u, {}) /\ Reduced(v, u, {i})
      /\ ToSet(u.entities[id].children) = D \ {i}
      /\ Len(u.entities[id].children) = Len(v.entities[id].children) - 1
      /\ \A j \in DOMAIN u.entities \ {id} : u.entities[j].children = v.entities[j].children
  <2> HIDE DEF u, D
  <2>1. LeafRemoved(v, Removed(v, i), i, id)
    BY <1>1, <1>2, <1>3, <1>4, <1>5, <1>6, RemovedLeaves DEF Alive
  <2> QED BY <1>2, <2>1 DEF LeafRemoved, u, D
<1> HIDE DEF u
<1>8. id \in DOMAIN u.entities
  BY <1>1, <1>2, <1>7 DEF Reduced
<1>9. u.entities[id].parent = NoId
  <2> DEFINE q == u.entities[id].parent
  <2>1. SUFFICES ASSUME q /= NoId PROVE FALSE
    OBVIOUS
  <2>2. q \in DOMAIN u.entities /\ q /= id /\ id \in ToSet(u.entities[q].children)
    BY <1>7, <1>8, <2>1 DEF Sound, Tree, Alive
  <2>3. id \in ToSet(v.entities[q].children) /\ q \in DOMAIN v.entities
    BY <2>2, <1>7 DEF Reduced
  <2> QED BY <1>1, <1>3, <2>1, <2>3 DEF Sound, Tree
<1>10. Reduced(w, u, (C \ D) \union {i})
  BY <1>1, <1>7, ReducedOn
<1>11. (C \ D) \union {i} = C \ (D \ {i})
  BY <1>1
<1>12. Reduced(w, u, C \ (D \ {i}))
  BY <1>10, <1>11
<1>13. Emptied(w, u, id)
  BY <1>1, <1>3, <1>7, <1>8, <1>9, <1>12 DEF Emptied, Alive
<1> QED BY <1>7, <1>13 DEF u

\* What the server may destroy: what is its own, but no bag in the hands of an
\* actor, and no actor that has one or that it plays itself.
Destroyable(w, id) ==
    /\ Sound(w, {}) /\ ~ w.stopped /\ Distinct(w.corpses) /\ Alive(w, id)
    /\ w.entities[id].owner = Server
    /\ w.entities[id].kind = "actor" =>
          /\ w.gameId[Server] /= id
          /\ \A i \in ToSet(w.entities[id].children) : w.entities[i].kind /= "bag"
    /\ w.entities[id].parent /= NoId =>
          ~ (w.entities[id].kind = "bag" /\ w.entities[w.entities[id].parent].kind = "actor")

\* The entities of D are gone.
Without(w, v, D) == Sound(v, {}) /\ Reduced(w, v, D)

\* After as many rounds as it had children an entity has none left.
LEMMA EmptiedLoop ==
  ASSUME NEW w, NEW id, Destroyable(w, id)
  PROVE  LET v == DestroyTimes(w, id, Server, Len(w.entities[id].children))
         IN  Emptied(w, v, id) /\ v.entities[id].children = <<>>
<1> DEFINE n == Len(w.entities[id].children)
           W == {v \in Worlds : Emptied(w, v, id)}
           body(v) == DestroyFirst(v, id, Server)
           step == [x \in W \X (1..n) |-> body(x[1])]
           good(k) == {v \in W : Len(v.entities[id].children) = n - k}
           V == [k \in 0..n |-> good(k)]
<1>1. /\ w \in Worlds /\ Sound(w, {}) /\ ~ w.stopped /\ Distinct(w.corpses) /\ Alive(w, id)
      /\ id \in DOMAIN w.entities /\ w.entities[id].children \in Seq(Ids) /\ n \in Nat
  <2>1. w \in Worlds /\ id \in DOMAIN w.entities
    BY DEF Destroyable, Sound, Alive
  <2>2. w.entities[id].children \in Seq(Ids)
    BY <2>1, EntityTypes
  <2> QED BY <2>1, <2>2, LenProperties DEF Destroyable
<1>2. Emptied(w, w, id)
  <2>1. Reduced(w, w, {})
    BY <1>1 DEF Reduced
  <2>2. ToSet(w.entities[id].children) \ ToSet(w.entities[id].children) = {}
    OBVIOUS
  <2> QED BY <1>1, <2>1, <2>2 DEF Emptied
<1>3. id \notin ToSet(w.entities[id].children)
  BY <1>1 DEF Sound, Tree
<1>4. \A i \in ToSet(w.entities[id].children) :
          w.entities[i].kind /= "bag" \/ w.entities[id].kind /= "actor"
  BY DEF Destroyable
<1>5. ASSUME NEW v \in W
      PROVE  LET d == v.entities[id].children
             IN  /\ d \in Seq(Ids) /\ ~ v.stopped
                 /\ d = <<>> => body(v) = v
                 /\ d /= <<>> => /\ Emptied(w, body(v), id)
                                 /\ Len(body(v).entities[id].children) = Len(d) - 1
  <2> DEFINE d == v.entities[id].children
  <2>1. Sound(v, {}) /\ v \in Worlds /\ id \in DOMAIN v.entities /\ Emptied(w, v, id)
    BY DEF Emptied, Alive, Sound
  <2>2. d \in Seq(Ids)
    BY <2>1, EntityTypes
  <2>3. ~ v.stopped
    BY <1>1, <2>1 DEF Emptied, Reduced
  <2>4. d = <<>> => body(v) = v
    BY DEF DestroyFirst
  <2>5. ASSUME d /= <<>>
        PROVE  /\ Emptied(w, body(v), id)
               /\ Len(body(v).entities[id].children) = Len(d) - 1
    <3>1. Head(d) \in ToSet(d)
      BY <2>2, <2>5, EndsOf
    <3>2. Head(d) \in DOMAIN v.entities /\ v.entities[Head(d)].kind \in Items
      BY <2>1, <3>1, ChildOf
    <3>3. v.entities[Head(d)].owner = Server
      BY <2>1, <3>2 DEF Sound, Owned
    <3>4. body(v) = Removed(v, Head(d))
      BY <2>3, <2>5, <3>2, <3>3 DEF DestroyFirst, OwnedBy, Alive
    <3>5. Head(d) \in ToSet(w.entities[id].children)
      BY <2>1, <3>1 DEF Emptied
    <3>6. w.entities[Head(d)].kind /= "bag" \/ w.entities[id].kind /= "actor"
      BY <1>4, <3>5
    <3> HIDE DEF body
    <3>7. /\ Emptied(w, Removed(v, Head(d)), id)
          /\ Len(Removed(v, Head(d)).entities[id].children) = Len(d) - 1
      BY <1>1, <1>3, <2>1, <3>1, <3>6, EmptiedMore
    <3> QED BY <3>4, <3>7
  <2> QED BY <2>2, <2>3, <2>4, <2>5
<1>6. ASSUME NEW v \in W PROVE body(v) \in W
  <2>1. CASE v.entities[id].children = <<>>
    BY <1>5, <2>1
  <2>2. CASE v.entities[id].children /= <<>>
    <3>1. Emptied(w, body(v), id)
      BY <1>5, <2>2
    <3> QED BY <3>1 DEF Emptied, Sound
  <2> QED BY <2>1, <2>2
<1>7. step \in Steps(W, n)
  <2> HIDE DEF W, body
  <2> QED BY <1>6 DEF Steps
<1>8. \A v \in W, k \in 1..n : step[<<v, k>>] = DestroyFirst(v, id, Server)
  OBVIOUS
<1>9. w \in W /\ \A v \in W : Emptied(w, v, id)
  BY <1>1, <1>2
<1> HIDE DEF step, W
<1>10. PICK r \in Runs(W, w, n, step) :
          r[n] = DestroyTimes(w, id, Server, n)
  BY <1>1, <1>7, <1>8, <1>9, RepeatRuns
<1>11. w \in V[0]
  BY <1>1, <1>9
<1>12. ASSUME NEW k \in 1..n, NEW v \in W, v \in V[k - 1]
       PROVE  step[<<v, k>>] \in V[k]
  <2>1. k - 1 \in 0..n /\ k \in 0..n
    BY <1>1
  <2>2. Len(v.entities[id].children) = n - (k - 1)
    BY <2>1, <1>12
  <2>3. v.entities[id].children /= <<>>
    <3>1. n - (k - 1) /= 0
      BY <1>1
    <3> QED BY <2>2, <3>1, <1>5, ToSetOf
  <2>4. Len(body(v).entities[id].children) = Len(v.entities[id].children) - 1
    BY <2>3, <1>5
  <2>5. n - (k - 1) - 1 = n - k
    BY <1>1
  <2>6. body(v) \in good(k)
    BY <2>2, <2>4, <2>5, <1>6
  <2> QED BY <2>1, <2>6, <1>8
<1> HIDE DEF V
<1>13. r[n] \in V[n]
  <2>1. Leads(W, n, step, V)
    BY <1>12 DEF Leads
  <2> QED BY <1>1, <1>11, <2>1, RunsTo
<1>14. r[n] \in W /\ Len(r[n].entities[id].children) = 0
  BY <1>1, <1>13 DEF V
<1>15. r[n].entities[id].children = <<>>
  BY <1>14, <1>5, ToSetOf
<1> QED BY <1>9, <1>10, <1>14, <1>15

\* Destroying an entity takes what is inside with it and leaves the others
\* sound.
LEMMA DestroyedFacts ==
  ASSUME NEW w, NEW id, Destroyable(w, id)
  PROVE  Without(w, Destroyed(w, id, Server), {id} \union ToSet(w.entities[id].children))
<1> DEFINE v == DestroyTimes(w, id, Server, Len(w.entities[id].children))
           C == ToSet(w.entities[id].children)
           p == w.entities[id].parent
<1>1. /\ Alive(w, id) /\ w.entities[id].owner = Server /\ Sound(w, {}) /\ ~ w.stopped
      /\ w.entities[id].kind = "actor" => w.gameId[Server] /= id
      /\ p /= NoId => ~ (w.entities[id].kind = "bag" /\ w.entities[p].kind = "actor")
  BY DEF Destroyable
<1>2. Emptied(w, v, id) /\ v.entities[id].children = <<>>
  BY EmptiedLoop
<1>3. Destroyed(w, id, Server) = IF v.stopped THEN v ELSE Removed(v, id)
  BY <1>1 DEF Destroyed, OwnedBy, DestroyTimes
<1> HIDE DEF v
<1>4. /\ Sound(v, {}) /\ Alive(v, id) /\ v.entities[id].parent = p
  BY <1>2 DEF Emptied
<1>5. Reduced(w, v, C)
  <2>1. ToSet(v.entities[id].children) = {}
    BY <1>2, EmptyFacts
  <2>2. C \ {} = C
    OBVIOUS
  <2> QED BY <1>2, <2>1, <2>2 DEF Emptied
<1>6. /\ Distinct(v.corpses) /\ ~ v.stopped /\ v.gameId = w.gameId
      /\ v.entities[id].kind = w.entities[id].kind /\ v.entities[id].owner = Server
  BY <1>1, <1>4, <1>5 DEF Reduced, Alive
<1>7. p /= NoId => p \in DOMAIN v.entities /\ v.entities[p].kind = w.entities[p].kind
  <2>1. p /= NoId => p \in DOMAIN v.entities
    BY <1>4 DEF Sound, Tree, Alive
  <2> QED BY <2>1, <1>5 DEF Reduced
<1> HIDE DEF p
<1>8. Sound(Removed(v, id), {}) /\ Reduced(v, Removed(v, id), {id})
  <2>1. LeafRemoved(v, Removed(v, id), id, p)
    BY <1>1, <1>2, <1>4, <1>6, <1>7, RemovedLeaves
  <2> QED BY <2>1 DEF LeafRemoved
<1>9. Reduced(w, Removed(v, id), C \union {id})
  BY <1>5, <1>8, ReducedOn
<1>10. C \union {id} = {id} \union C
  OBVIOUS
<1> QED BY <1>3, <1>6, <1>8, <1>9, <1>10 DEF Without

-----------------------------------------------------------------------------
(* Taking.                                                                 *)

\* What is allowed keeps bags and slots in order.
LEMMA AllowedMoves ==
  ASSUME NEW w, Sound(w, {}), NEW who, NEW what, Alive(w, who), Alive(w, what),
         Allowed(w, who, what), w.entities[what].parent /= who
  PROVE  MayMove(w, what, who, {}) /\ who /= NoId
<1> DEFINE e == w.entities
<1>1. who \in DOMAIN e /\ what \in DOMAIN e /\ w \in Worlds /\ who \in Ids /\ who /= NoId
  BY EntityTypes, ServerAssumption DEF Alive, Sound
<1>2. e[who].kind = "actor" /\ e[what].kind \in Items \ {"bag"}
  BY DEF Allowed, Items, Weapons
<1>3. what /= who
  BY <1>2 DEF Items, Weapons
<1>4. e[who].parent = NoId
  <2>1. "actor" \notin Items
    BY DEF Items, Weapons
  <2> QED BY <1>1, <1>2, <2>1 DEF Sound, Tree, Alive
<1>5. e[what].children = <<>>
  <2>1. e[what].kind \notin Holders
    BY <1>2 DEF Items, Weapons, Holders
  <2> QED BY <1>1, <2>1 DEF Sound, Tree
<1>6. MayHold(w, who, what)
  <2>1. ASSUME e[what].kind \in Weapons, NEW i \in ToSet(e[who].children)
        PROVE  e[i].kind /= e[what].kind
    <3>1. ~ SlotTaken(w, who, e[what].kind)
      BY <2>1 DEF Allowed, Weapons
    <3>2. Alive(w, i)
      BY <1>1 DEF Sound, Tree
    <3> QED BY <3>1, <3>2 DEF SlotTaken
  <2> QED BY <1>2, <2>1 DEF MayHold
<1> QED BY <1>1, <1>2, <1>3, <1>4, <1>5, <1>6 DEF MayMove, Alive, Holders

\* The entities are still sound, and only what was inside one of P moved.
Shuffled(w, v, P) ==
    Sound(v, {}) /\ Regrouped(w, v, P) /\ v.stopped = w.stopped

\* Two shuffles in a row are one.
LEMMA ShuffledOn ==
  ASSUME NEW w, NEW v, NEW u, NEW P, NEW Q, NEW R, Shuffled(w, v, P), Shuffled(v, u, Q),
         P \subseteq R, Q \subseteq R
  PROVE  Shuffled(w, u, R)
<1>1. Regrouped(w, v, R) /\ Regrouped(v, u, R)
  BY RegroupedMore DEF Shuffled
<1> QED BY <1>1, RegroupedOn DEF Shuffled

\* Attaching what is allowed to one that may have it keeps bags and slots in
\* order.
LEMMA AttachedFacts ==
  ASSUME NEW w, Sound(w, {}), NEW who, NEW what, Alive(w, who), Alive(w, what),
         Allowed(w, who, what), w.entities[what].parent = NoId
  PROVE  Shuffled(w, Attached(w, who, what), {NoId})
<1> SUFFICES ASSUME NEW X, X = {} PROVE Shuffled(w, Attached(w, who, what), {NoId})
  OBVIOUS
<1>1. Sound(w, X)
  OBVIOUS
<1>2. who /= NoId
  BY EntityTypes, ServerAssumption DEF Sound, Alive
<1>3. MayMove(w, what, who, X)
  BY <1>2, AllowedMoves
<1>4. MovedTo(w, Attached(w, who, what), what, who)
  BY <1>1, <1>2, <1>3, AttachedMoves
<1>5. Sound(Attached(w, who, what), X)
  BY <1>1, <1>3, <1>4, MoveSound
<1> QED BY <1>4, <1>5 DEF MovedTo, Shuffled

\* One round of taking a bag up: its last item goes to the actor or to the
\* ground.
LEMMA MoveLastFacts ==
  ASSUME NEW w, Sound(w, {}), ~ w.stopped, NEW who, NEW bag, Alive(w, who), Alive(w, bag),
         w.entities[who].kind = "actor", w.entities[bag].kind = "bag",
         w.entities[bag].children /= <<>>
  PROVE  /\ Shuffled(w, MoveLast(w, who, bag), {bag})
         /\ Len(MoveLast(w, who, bag).entities[bag].children)
              = Len(w.entities[bag].children) - 1
<1> SUFFICES ASSUME NEW X, X = {}
             PROVE  /\ Shuffled(w, MoveLast(w, who, bag), {bag})
                    /\ Len(MoveLast(w, who, bag).entities[bag].children)
                         = Len(w.entities[bag].children) - 1
  OBVIOUS
<1> DEFINE c == w.entities[bag].children
           item == Last(c)
<1>1. w \in Worlds /\ bag \in DOMAIN w.entities /\ c \in Seq(Ids) /\ bag /= who
  BY EntityTypes DEF Sound, Alive
<1>2. item \in ToSet(c)
  BY <1>1, EndsOf
<1> HIDE DEF item
<1>3. /\ item \in DOMAIN w.entities /\ w.entities[item].parent = bag
      /\ item /= bag /\ bag /= NoId
  BY <1>1, <1>2, ChildOf
<1>4. MoveLast(w, who, bag) = IF Allowed(w, who, item) THEN Transferred(w, item, bag, who)
                              ELSE Rejected(w, bag, item)
  BY <1>3 DEF MoveLast, Alive, item
<1>5. CASE Allowed(w, who, item)
  <2> DEFINE v == Transferred(w, item, bag, who)
  <2>1. MayMove(w, item, who, X) /\ who /= NoId
    BY <1>1, <1>3, <1>5, AllowedMoves DEF Alive
  <2>2. MovedTo(w, v, item, who)
    BY <1>1, <1>2, <2>1, TransferredMoves
  <2> HIDE DEF v
  <2>3. Sound(v, X)
    BY <2>1, <2>2, MoveSound
  <2>4. ChildrenMoved(w, v, item, who, bag)
    BY <1>1, <2>1, <2>2, MovedChildren
  <2>5. Len(v.entities[bag].children) = Len(c) - 1
    BY <1>3, <2>4 DEF ChildrenMoved
  <2>6. Shuffled(w, v, {bag})
    BY <1>3, <2>2, <2>3 DEF MovedTo, Shuffled
  <2> QED BY <1>4, <1>5, <2>5, <2>6 DEF v
<1>6. CASE ~ Allowed(w, who, item)
  <2>1. Rejected(w, bag, item) = Dropped(w, bag, item)
    BY <1>2, RejectedPlain
  <2>2. Out(w, Dropped(w, bag, item), bag, item, {bag}) /\ OneLess(w, Dropped(w, bag, item), bag, item)
    BY <1>2, PlainOut
  <2> QED BY <1>4, <1>6, <2>1, <2>2 DEF Out, OneLess, Shuffled
<1> QED BY <1>5, <1>6

\* The loop of BagTouched.
MoveTimes(w, who, bag, n) == Repeat(n, LAMBDA v : MoveLast(v, who, bag), w)

\* The loop that empties a bag is what Repeat computes.
LEMMA MovesRun ==
  ASSUME NEW who, NEW bag, NEW n \in Nat,
         NEW W, NEW w \in W, NEW step \in Steps(W, n),
         \A v \in W, k \in 1..n : step[<<v, k>>] = MoveLast(v, who, bag)
  PROVE  \E r \in Runs(W, w, n, step) : r[n] = MoveTimes(w, who, bag, n)
<1>1. Loops(W, w, n, step) /= {}
  BY LoopExists
<1>2. PICK it \in Loops(W, w, n, step) : TRUE
  BY <1>1
<1>3. \A s \in Visits(n) : s /= {} => Max(s) \in 1..n /\ s \ {Max(s)} \in Visits(n)
  BY GreatestOf DEF Visits
<1> DEFINE places == [i \in 1..n |-> i]
<1>4. it = [s \in SUBSET DOMAIN places |-> IF s = {} THEN w
               ELSE MoveLast(it[s \ {Max(s)}], who, bag)]
  BY <1>2, <1>3 DEF Visits, Loops
<1>5. PICK iter :
         /\ iter = [s \in SUBSET DOMAIN places |-> IF s = {} THEN w
                       ELSE MoveLast(iter[s \ {Max(s)}], who, bag)]
         /\ MoveTimes(w, who, bag, n) = iter[DOMAIN places]
  BY <1>4, Zenon DEF MoveTimes, Repeat, FoldLeft, MapThenFoldSet
<1>6. LoopIn(W, w, n, step, iter)
  BY <1>3, <1>5 DEF Visits, LoopIn
<1>7. PICK r \in Runs(W, w, n, step) : iter[1..n] = r[n]
  BY <1>6, LoopRuns
<1> QED BY <1>5, <1>7

\* After as many rounds as it had items a bag is empty.
LEMMA MoveLoop ==
  ASSUME NEW w, Sound(w, {}), ~ w.stopped, NEW who, NEW bag, Alive(w, who), Alive(w, bag),
         w.entities[who].kind = "actor", w.entities[bag].kind = "bag"
  PROVE  LET v == MoveTimes(w, who, bag, Len(w.entities[bag].children))
         IN  Shuffled(w, v, {bag}) /\ v.entities[bag].children = <<>>
<1> DEFINE n == Len(w.entities[bag].children)
           W == {v \in Worlds : Shuffled(w, v, {bag})}
           body(v) == MoveLast(v, who, bag)
           step == [x \in W \X (1..n) |-> body(x[1])]
           good(k) == {v \in W : Len(v.entities[bag].children) = n - k}
           V == [k \in 0..n |-> good(k)]
<1>1. w \in Worlds /\ bag \in DOMAIN w.entities /\ n \in Nat
  <2>1. w \in Worlds /\ bag \in DOMAIN w.entities
    BY DEF Sound, Alive
  <2> QED BY <2>1, EntityTypes, LenProperties
<1>2. Shuffled(w, w, {bag})
  BY <1>1, RegroupedSelf DEF Shuffled
<1>3. ASSUME NEW v \in W
      PROVE  LET d == v.entities[bag].children
             IN  /\ d \in Seq(Ids)
                 /\ d = <<>> => body(v) = v
                 /\ d /= <<>> => /\ Shuffled(w, body(v), {bag})
                                 /\ Len(body(v).entities[bag].children) = Len(d) - 1
  <2> DEFINE d == v.entities[bag].children
  <2>1. /\ Sound(v, {}) /\ v \in Worlds /\ bag \in DOMAIN v.entities /\ ~ v.stopped
        /\ Alive(v, who) /\ Alive(v, bag) /\ Shuffled(w, v, {bag})
        /\ v.entities[who].kind = "actor" /\ v.entities[bag].kind = "bag"
    BY DEF Shuffled, Regrouped, Alive
  <2>2. d \in Seq(Ids)
    BY <2>1, EntityTypes
  <2>3. d = <<>> => body(v) = v
    BY DEF MoveLast
  <2>4. ASSUME d /= <<>>
        PROVE  /\ Shuffled(w, body(v), {bag})
               /\ Len(body(v).entities[bag].children) = Len(d) - 1
    <3>1. /\ Shuffled(v, body(v), {bag})
          /\ Len(body(v).entities[bag].children) = Len(d) - 1
      BY <2>1, <2>4, MoveLastFacts
    <3> QED BY <2>1, <3>1, ShuffledOn
  <2> QED BY <2>2, <2>3, <2>4
<1>4. ASSUME NEW v \in W PROVE body(v) \in W
  <2>1. CASE v.entities[bag].children = <<>>
    BY <1>3, <2>1
  <2>2. CASE v.entities[bag].children /= <<>>
    <3>1. Shuffled(w, body(v), {bag})
      BY <1>3, <2>2
    <3> QED BY <3>1 DEF Shuffled, Sound
  <2> QED BY <2>1, <2>2
<1>5. step \in Steps(W, n)
  <2> HIDE DEF W, body
  <2> QED BY <1>4 DEF Steps
<1>6. \A v \in W, k \in 1..n : step[<<v, k>>] = MoveLast(v, who, bag)
  OBVIOUS
<1>7. w \in W /\ \A v \in W : Shuffled(w, v, {bag})
  BY <1>1, <1>2
<1> HIDE DEF step, W
<1>8. PICK r \in Runs(W, w, n, step) : r[n] = MoveTimes(w, who, bag, n)
  BY <1>1, <1>5, <1>6, <1>7, MovesRun
<1>9. w \in V[0]
  BY <1>1, <1>7
<1>10. ASSUME NEW k \in 1..n, NEW v \in W, v \in V[k - 1]
       PROVE  step[<<v, k>>] \in V[k]
  <2>1. k - 1 \in 0..n /\ k \in 0..n
    BY <1>1
  <2>2. Len(v.entities[bag].children) = n - (k - 1)
    BY <2>1, <1>10
  <2>3. v.entities[bag].children /= <<>>
    <3>1. n - (k - 1) /= 0
      BY <1>1
    <3> QED BY <2>2, <3>1, <1>3, ToSetOf
  <2>4. Len(body(v).entities[bag].children) = Len(v.entities[bag].children) - 1
    BY <2>3, <1>3
  <2>5. n - (k - 1) - 1 = n - k
    BY <1>1
  <2>6. body(v) \in good(k)
    BY <2>2, <2>4, <2>5, <1>4
  <2> QED BY <2>1, <2>6, <1>6
<1> HIDE DEF V
<1>11. r[n] \in V[n]
  <2>1. Leads(W, n, step, V)
    BY <1>10 DEF Leads
  <2> QED BY <1>1, <1>9, <2>1, RunsTo
<1>12. r[n] \in W /\ Len(r[n].entities[bag].children) = 0
  BY <1>1, <1>11 DEF V
<1>13. r[n].entities[bag].children = <<>>
  BY <1>12, <1>3, ToSetOf
<1> QED BY <1>7, <1>8, <1>12, <1>13

\* A bag that is taken up is emptied and destroyed, and no more.
LEMMA BagTouchedFacts ==
  ASSUME NEW w, Sound(w, {}), ~ w.stopped, Distinct(w.corpses),
         NEW who, NEW bag, Alive(w, who), Alive(w, bag),
         w.entities[who].kind = "actor", w.entities[bag].kind = "bag",
         w.entities[bag].parent = NoId
  PROVE  Without(w, BagTouched(w, who, bag), {bag})
<1> DEFINE v == MoveTimes(w, who, bag, Len(w.entities[bag].children))
<1>1. Shuffled(w, v, {bag}) /\ v.entities[bag].children = <<>>
  BY MoveLoop
<1>2. BagTouched(w, who, bag) = IF v.stopped THEN v ELSE Destroyed(v, bag, Server)
  BY DEF BagTouched, MoveTimes
<1> HIDE DEF v
<1>3. bag \in Ids /\ bag /= NoId
  BY EntityTypes, ServerAssumption DEF Sound, Alive
<1>4. /\ Sound(v, {}) /\ ~ v.stopped /\ Distinct(v.corpses) /\ Alive(v, bag)
      /\ v.entities[bag].kind = "bag" /\ v.entities[bag].parent = NoId
      /\ v.entities[bag].owner = w.entities[bag].owner
  BY <1>1, <1>3 DEF Shuffled, Regrouped, Alive
<1>5. w.entities[bag].owner = Server
  BY DEF Sound, Owned, Alive, Items
<1>6. Destroyable(v, bag)
  BY <1>4, <1>5 DEF Destroyable
<1>7. Without(v, Destroyed(v, bag, Server), {bag})
  <2>1. {bag} \union ToSet(v.entities[bag].children) = {bag}
    BY <1>1, EmptyFacts
  <2>2. Without(v, Destroyed(v, bag, Server), {bag} \union ToSet(v.entities[bag].children))
    BY <1>6, DestroyedFacts
  <2> QED BY <2>1, <2>2
<1>8. Reduced(w, v, {})
  BY <1>1, RegroupedReduced DEF Shuffled
<1>9. Reduced(w, Destroyed(v, bag, Server), {} \union {bag})
  BY <1>7, <1>8, ReducedOn DEF Without
<1>10. {} \union {bag} = {bag}
  OBVIOUS
<1> QED BY <1>2, <1>4, <1>7, <1>9, <1>10 DEF Without

\* A weapon of a slot that is taken replaces the one that was there.
LEMMA SwappedFacts ==
  ASSUME NEW w, Sound(w, {}), NEW who, NEW what, Alive(w, who), Alive(w, what),
         w.entities[who].kind = "actor", w.entities[what].kind \in Weapons,
         SlotTaken(w, who, w.entities[what].kind),
         w.entities[what].parent = NoId
  PROVE  Shuffled(w, Swapped(w, who, what), {who, NoId})
<1> DEFINE c == w.entities[who].children
           Places == {i \in 1..Len(c) : Alive(w, c[i]) /\ w.entities[c[i]].kind = w.entities[what].kind}
           k == SelectInSeq(c, LAMBDA i : Alive(w, i) /\ w.entities[i].kind = w.entities[what].kind)
           x == c[k]
           v == Rejected(w, who, x)
<1>1. w \in Worlds /\ who \in DOMAIN w.entities /\ c \in Seq(Ids)
  BY EntityTypes DEF Sound, Alive
<1>2. Places /= {} /\ Places \subseteq Nat
  <2>1. ToSet(c) = {c[i] : i \in 1..Len(c)}
    BY <1>1, ToSetOf
  <2> QED BY <2>1 DEF SlotTaken
<1>3. k = Min(Places)
  BY <1>2, Zenon DEF SelectInSeq
<1> HIDE DEF k
<1>4. k \in Places
  BY <1>2, <1>3, MinIsLeast
<1>5. x \in ToSet(c) /\ w.entities[x].kind \in Weapons
  BY <1>1, <1>4, ToSetOf
<1>6. Swapped(w, who, what) = IF Allowed(v, who, what) THEN Attached(v, who, what) ELSE v
  BY DEF Swapped, k
<1> HIDE DEF x
<1>7. v = Dropped(w, who, x)
  <2>1. w.entities[x].kind /= "bag"
    BY <1>5 DEF Weapons
  <2> QED BY <1>5, <2>1, RejectedPlain
<1> HIDE DEF v
<1>8. Shuffled(w, v, {who})
  <2>1. Out(w, Dropped(w, who, x), who, x, {who})
    BY <1>5, PlainOut
  <2> QED BY <1>7, <2>1 DEF Out, Shuffled
<1>9. who /= NoId
  BY <1>1, EntityTypes, ServerAssumption
<1>10. Sound(v, {}) /\ Alive(v, who) /\ Alive(v, what) /\ v.entities[what].parent = NoId
  BY <1>8, <1>9 DEF Shuffled, Regrouped, Alive
<1>11. CASE Allowed(v, who, what)
  <2>1. Shuffled(v, Attached(v, who, what), {NoId})
    BY <1>10, <1>11, AttachedFacts
  <2> QED BY <1>6, <1>8, <1>11, <2>1, ShuffledOn
<1>12. CASE ~ Allowed(v, who, what)
  <2>1. Regrouped(w, v, {who, NoId})
    BY <1>8, RegroupedMore DEF Shuffled
  <2> QED BY <1>6, <1>8, <1>12, <2>1 DEF Shuffled
<1> QED BY <1>11, <1>12

\* Taking moves entities, and a bag that is taken up is gone.
LEMMA TakenFacts ==
  ASSUME NEW w, Sound(w, {}), ~ w.stopped, Distinct(w.corpses), NEW who, NEW what, NEW c,
         MayTake(w, who, what, c), NEW forced
  PROVE  \/ Without(w, Taken(w, who, what, forced), {})
         \/ w.entities[what].kind = "bag" /\ Without(w, Taken(w, who, what, forced), {what})
<1>1. /\ Alive(w, who) /\ Alive(w, what) /\ w.entities[what].parent = NoId
      /\ w.entities[who].kind = "actor" /\ w \in Worlds
  BY DEF MayTake, Sound
<1>2. ASSUME NEW v, NEW P, Shuffled(w, v, P) PROVE Without(w, v, {})
  BY <1>2, RegroupedReduced DEF Shuffled, Without
<1>3. CASE Allowed(w, who, what)
  <2>1. Shuffled(w, Attached(w, who, what), {NoId})
    BY <1>1, <1>3, AttachedFacts
  <2> QED BY <1>2, <1>3, <2>1 DEF Taken
<1>4. CASE ~ Allowed(w, who, what) /\ w.entities[what].kind = "bag"
  <2>1. Without(w, BagTouched(w, who, what), {what})
    BY <1>1, <1>4, BagTouchedFacts
  <2> QED BY <1>4, <2>1 DEF Taken
<1>5. CASE ~ Allowed(w, who, what) /\ w.entities[what].kind /= "bag"
           /\ w.entities[what].kind \in Weapons /\ forced
  <2>1. SlotTaken(w, who, w.entities[what].kind)
    BY <1>1, <1>5 DEF Allowed
  <2>2. Shuffled(w, Swapped(w, who, what), {who, NoId})
    BY <1>1, <1>5, <2>1, SwappedFacts
  <2> QED BY <1>2, <1>5, <2>2 DEF Taken
<1>6. CASE ~ Allowed(w, who, what) /\ w.entities[what].kind /= "bag"
           /\ ~ (w.entities[what].kind \in Weapons /\ forced)
  <2>1. Taken(w, who, what, forced) = w
    BY <1>6 DEF Taken
  <2>2. Shuffled(w, w, {})
    BY <1>1, RegroupedSelf DEF Shuffled
  <2> QED BY <1>2, <2>1, <2>2
<1> QED BY <1>3, <1>4, <1>5, <1>6

-----------------------------------------------------------------------------
(* Spawning.                                                               *)

\* A new identifier is one nobody has.
LEMMA NewIdIsFree ==
  ASSUME NEW w, FreeIds(w) /= {}
  PROVE  NewId(w) \in Ids \ DOMAIN w.entities
<1>1. FreeIds(w) \subseteq Nat
  BY ServerAssumption DEF FreeIds
<1>2. \E id \in FreeIds(w) : \A other \in FreeIds(w) : id <= other
  BY <1>1, Least
<1>3. NewId(w) \in FreeIds(w)
  BY <1>2 DEF NewId
<1> QED BY <1>3 DEF FreeIds

\* id is new and on its own, and nothing else changed but the avatar of its
\* owner.
Added(w, v, id, kind, owner, asPlayer) ==
    /\ v \in Worlds /\ v.stopped = w.stopped
    /\ id \in Ids \ DOMAIN w.entities
    /\ DOMAIN v.entities = DOMAIN w.entities \union {id}
    /\ v.entities[id] = [kind |-> kind, parent |-> NoId, children |-> <<>>,
                         owner |-> owner, alive |-> TRUE]
    /\ \A i \in DOMAIN w.entities : v.entities[i] = w.entities[i]
    /\ v.avatar = [w.avatar EXCEPT ![owner] = IF asPlayer THEN id ELSE w.avatar[owner]]
    /\ v.gameId = w.gameId /\ v.dead = w.dead /\ v.corpses = w.corpses
    /\ v.phase = w.phase /\ v.active = w.active /\ v.shortens = w.shortens

\* An entity that is added on its own keeps the others sound.
LEMMA AddedSound ==
  ASSUME NEW w, Sound(w, {}), NEW v, NEW id, NEW kind, NEW owner, NEW asPlayer,
         Added(w, v, id, kind, owner, asPlayer), kind \in Items => owner = Server
  PROVE  Sound(v, {})
<1> DEFINE e == w.entities
           f == v.entities
<1>1. /\ w \in Worlds /\ v \in Worlds /\ DOMAIN f = DOMAIN e \union {id}
      /\ \A i \in DOMAIN e : f[i] = e[i]
      /\ id \in Ids /\ id \notin DOMAIN e /\ NoId \notin DOMAIN f
      /\ f[id].kind = kind /\ f[id].parent = NoId /\ f[id].children = <<>>
      /\ f[id].owner = owner
  <2>1. NoId \notin DOMAIN f
    BY EntityTypes, ServerAssumption DEF Added
  <2> QED BY <2>1 DEF Added, Sound
<1>2. \A i \in DOMAIN e : \A j \in ToSet(e[i].children) : j \in DOMAIN e
  BY DEF Sound, Tree, Alive
<1> HIDE DEF f
<1>3. Tree(v, {})
  <2>1. \A i \in DOMAIN e :
            /\ e[i].parent /= NoId => e[i].parent \in DOMAIN e
    BY DEF Sound, Tree, Alive
  <2> SUFFICES ASSUME NEW i \in DOMAIN f
               PROVE  /\ f[i].parent /= i
                      /\ f[i].parent /= NoId =>
                            f[i].parent \in DOMAIN f /\ i \in ToSet(f[f[i].parent].children)
                      /\ \A j \in ToSet(f[i].children) :
                            j \in DOMAIN f /\ f[j].parent = i /\ f[j].kind \in Items
                      /\ Distinct(f[i].children)
                      /\ f[i].children /= <<>> =>
                            f[i].kind \in Holders /\ (f[i].parent = NoId \/ i \in {})
    BY DEF Tree, Alive, f
  <2>2. CASE i = id
    BY <2>2, <1>1, EmptyFacts, ServerAssumption
  <2>3. CASE i \in DOMAIN e
    BY <2>1, <2>3, <1>1, <1>2 DEF Sound, Tree, Alive
  <2> QED BY <2>2, <2>3, <1>1
<1>4. Owned(v)
  BY <1>1 DEF Sound, Owned, f
<1>5. \A i \in DOMAIN e : Rest(e[i].children) \subseteq ToSet(e[i].children)
  <2> SUFFICES ASSUME NEW i \in DOMAIN e
               PROVE  Rest(e[i].children) \subseteq ToSet(e[i].children)
    OBVIOUS
  <2>1. e[i].children \in Seq(Ids)
    BY <1>1, EntityTypes
  <2>2. Len(e[i].children) \in Nat
        /\ ToSet(e[i].children) = {e[i].children[k] : k \in 1..Len(e[i].children)}
    BY <2>1, ToSetOf
  <2> QED BY <2>2 DEF Rest
<1>6. Bags(v)
  <2> SUFFICES ASSUME NEW i \in DOMAIN f, f[i].kind = "actor", NEW j \in Rest(f[i].children)
               PROVE  f[j].kind /= "bag"
    BY DEF Bags, f
  <2>1. i /= id
    BY <1>1, EmptyFacts
  <2>2. i \in DOMAIN e /\ j \in Rest(e[i].children) /\ j \in DOMAIN e
    BY <2>1, <1>1, <1>2, <1>5
  <2>3. e[j].kind /= "bag"
    BY <2>2, <1>1 DEF Sound, Bags
  <2> QED BY <2>2, <2>3, <1>1
<1>7. Slots(v)
  <2> SUFFICES ASSUME OneOfASlot, NEW i \in DOMAIN f, f[i].kind = "actor",
                      NEW j \in ToSet(f[i].children), NEW k \in ToSet(f[i].children),
                      f[j].kind = f[k].kind, f[j].kind \in Weapons
               PROVE  j = k
    BY DEF Slots, f
  <2>1. i /= id
    BY <1>1, EmptyFacts
  <2>2. /\ i \in DOMAIN e /\ j \in ToSet(e[i].children) /\ k \in ToSet(e[i].children)
        /\ j \in DOMAIN e /\ k \in DOMAIN e
    BY <2>1, <1>1, <1>2
  <2>3. e[i].kind = "actor" /\ e[j].kind = e[k].kind /\ e[j].kind \in Weapons
    BY <2>2, <1>1
  <2> QED BY <2>2, <2>3 DEF Sound, Slots
<1> QED BY <1>1, <1>3, <1>4, <1>6, <1>7 DEF Sound

\* What Spawned does for an entity that is in no other.
LEMMA SpawnedAlone ==
  ASSUME NEW w, w \in Worlds, FreeIds(w) /= {}, NEW kind \in Kinds, NEW owner \in Clients,
         NEW asPlayer \in BOOLEAN
  PROVE  Added(w, Spawned(w, kind, NoId, owner, asPlayer), NewId(w), kind, owner, asPlayer)
<1> DEFINE id == NewId(w)
           D == DOMAIN w.entities
           x == [kind |-> kind, parent |-> NoId, children |-> <<>>,
                 owner |-> owner, alive |-> TRUE]
           f == [i \in D \union {id} |-> IF i = id THEN x ELSE w.entities[i]]
           a == [w.avatar EXCEPT ![owner] = IF asPlayer THEN id ELSE w.avatar[owner]]
           v == Spawned(w, kind, NoId, owner, asPlayer)
<1>1. id \in Ids \ D
  BY NewIdIsFree
<1>2. v = [w EXCEPT !.entities = f, !.avatar = a]
  BY DEF Spawned
<1> HIDE DEF id, v
<1>3. D \subseteq Ids /\ \A i \in D : w.entities[i] \in Entity
  BY EntityTypes
<1>4. x \in Entity
  <2>1. <<>> \in Seq(Ids)
    OBVIOUS
  <2> QED BY <2>1 DEF Entity
<1> HIDE DEF x
<1>5. f \in [D \union {id} -> Entity] /\ D \union {id} \in SUBSET Ids
  BY <1>1, <1>3, <1>4
<1>6. f \in Trees
  BY <1>5 DEF Trees
<1>7. a \in [Clients -> Ids \union {NoId}]
  <2>1. w.avatar \in [Clients -> Ids \union {NoId}]
    BY DEF Worlds
  <2> QED BY <2>1, <1>1
<1>8. DOMAIN f = D \union {id} /\ f[id] = x /\ \A i \in D : f[i] = w.entities[i]
  BY <1>1
<1> HIDE DEF f, a, D
<1>9. /\ v \in Worlds /\ v.entities = f /\ v.avatar = a /\ v.stopped = w.stopped
      /\ v.gameId = w.gameId /\ v.dead = w.dead /\ v.phase = w.phase
      /\ v.active = w.active /\ v.shortens = w.shortens /\ v.corpses = w.corpses
  BY <1>2, <1>6, <1>7 DEF Worlds
<1>10. Added(w, v, id, kind, owner, asPlayer)
  BY <1>1, <1>8, <1>9 DEF Added, x, a, D
<1> QED BY <1>10 DEF id, v

-----------------------------------------------------------------------------
(* Who plays what.                                                         *)

\* C are the clients that play something, I those that may: only while a round
\* is cleared or a player changes what it plays is C smaller.
Good(w, C, I, L, G) ==
    /\ Consistent(w, C, L, G) /\ Idle(w, I)
    /\ C \subseteq I /\ I \subseteq Clients
    /\ G \subseteq Clients \ {Server} /\ I \intersect G = {}

\* Soundness is about the entities only.
LEMMA SoundSame ==
  ASSUME NEW w, NEW X, Sound(w, X), NEW v \in Worlds, v.entities = w.entities
  PROVE  Sound(v, X)
<1>1. Tree(v, X)
  BY DEF Sound, Tree, Alive
<1>2. Owned(v) /\ Bags(v)
  BY DEF Sound, Owned, Bags
<1>3. Slots(v)
  BY DEF Sound, Slots
<1> QED BY <1>1, <1>2, <1>3 DEF Sound

\* What hands, death and phase are does not matter to Good.
LEMMA SameGood ==
  ASSUME NEW w, NEW C, NEW I, NEW L, NEW G, Good(w, C, I, L, G), NEW v \in Worlds,
         v.entities = w.entities, v.avatar = w.avatar, v.gameId = w.gameId,
         v.corpses = w.corpses, v.stopped = w.stopped
  PROVE  Good(v, C, I, L, G)
<1>1. Sound(v, {})
  BY SoundSame DEF Good, Consistent
<1>2. Playing(v, C)
  BY DEF Good, Consistent, Playing, Alive
<1>3. Bodies(v, C) /\ Away(v, L, G)
  BY DEF Good, Consistent, Bodies, Away, Alive
<1>4. Idle(v, I)
  BY DEF Good, Idle
<1> QED BY <1>1, <1>2, <1>3, <1>4 DEF Good, Consistent

\* Moving items about does not change who plays what.
LEMMA ShuffledGood ==
  ASSUME NEW w, NEW C, NEW I, NEW L, NEW G, Good(w, C, I, L, G),
         NEW v, NEW P, Shuffled(w, v, P)
  PROVE  Good(v, C, I, L, G)
<1>1. Sound(v, {}) /\ ~ v.stopped
  BY DEF Shuffled, Good, Consistent
<1>2. /\ DOMAIN v.entities = DOMAIN w.entities
      /\ \A i \in DOMAIN w.entities :
            /\ v.entities[i].kind = w.entities[i].kind
            /\ v.entities[i].owner = w.entities[i].owner
      /\ v.avatar = w.avatar /\ v.gameId = w.gameId /\ v.corpses = w.corpses
  BY DEF Shuffled, Regrouped
<1>3. Playing(v, C)
  BY <1>2 DEF Good, Consistent, Playing, Alive
<1>4. Bodies(v, C) /\ Away(v, L, G)
  BY <1>2 DEF Good, Consistent, Bodies, Away, Alive
<1>5. Idle(v, I)
  BY <1>2 DEF Good, Idle
<1> QED BY <1>1, <1>3, <1>4, <1>5 DEF Good, Consistent

\* Nobody plays what is gone, and nobody left it behind.
LEMMA WithoutGood ==
  ASSUME NEW w, NEW C, NEW I, NEW L, NEW G, Good(w, C, I, L, G),
         NEW v, NEW D, Without(w, v, D), D \subseteq Ids,
         \A c \in C : w.avatar[c] \notin D, L \intersect D = {}
  PROVE  Good(v, C, I, L, G)
<1>1. Sound(v, {}) /\ ~ v.stopped
  BY DEF Without, Reduced, Good, Consistent
<1>2. /\ DOMAIN v.entities = DOMAIN w.entities \ D
      /\ \A i \in DOMAIN v.entities :
            /\ v.entities[i].kind = w.entities[i].kind
            /\ v.entities[i].owner = w.entities[i].owner
      /\ \A c \in Clients : v.avatar[c] = w.avatar[c] \/ w.avatar[c] \in D
      /\ v.gameId = w.gameId
      /\ ToSet(v.corpses) = ToSet(w.corpses) \ D /\ Distinct(v.corpses)
  BY DEF Without, Reduced
<1>3. C \subseteq Clients /\ I \subseteq Clients /\ NoId \notin D
  BY ServerAssumption DEF Good
<1>4. \A c \in C : v.avatar[c] = w.avatar[c]
  BY <1>2, <1>3
<1>5. Playing(v, C)
  BY <1>2, <1>4 DEF Good, Consistent, Playing, Alive
<1>6. Bodies(v, C)
  BY <1>2, <1>4 DEF Good, Consistent, Bodies, Alive
<1>7. Away(v, L, G)
  BY <1>2 DEF Good, Consistent, Away, Alive
<1>8. Idle(v, I)
  BY <1>2, <1>3 DEF Good, Idle
<1> QED BY <1>1, <1>5, <1>6, <1>7, <1>8 DEF Good, Consistent

\* A client starts to play a new entity.
Joined(w, v, id, c, kind) ==
    /\ v \in Worlds /\ v.stopped = w.stopped
    /\ id \in Ids \ DOMAIN w.entities
    /\ DOMAIN v.entities = DOMAIN w.entities \union {id}
    /\ v.entities[id] = [kind |-> kind, parent |-> NoId, children |-> <<>>,
                         owner |-> c, alive |-> TRUE]
    /\ \A i \in DOMAIN w.entities : v.entities[i] = w.entities[i]
    /\ v.avatar = [w.avatar EXCEPT ![c] = id] /\ v.gameId = [w.gameId EXCEPT ![c] = id]
    /\ v.corpses = w.corpses
    /\ v.phase = w.phase /\ v.active = w.active /\ v.shortens = w.shortens

\* A client that gets a new entity plays it, and the world stays sound.
LEMMA SpawnPlayerFacts ==
  ASSUME NEW w, Sound(w, {}), FreeIds(w) /= {}, NEW c \in Clients, NEW kind \in Players
  PROVE  /\ Joined(w, SpawnPlayer(w, c, kind), NewId(w), c, kind)
         /\ Sound(SpawnPlayer(w, c, kind), {})
<1> DEFINE id == NewId(w)
           u == Spawned(w, kind, NoId, c, TRUE)
           v == SpawnPlayer(w, c, kind)
           d == [u.dead EXCEPT ![c] = kind /= "actor"]
           g == [u.gameId EXCEPT ![c] = u.avatar[c]]
<1>1. kind \in Kinds /\ w \in Worlds /\ kind \notin Items
  BY DEF Players, Kinds, Items, Weapons, Sound
<1>2. Added(w, u, id, kind, c, TRUE)
  BY <1>1, SpawnedAlone
<1>3. v = [u EXCEPT !.dead = d, !.gameId = g]
  BY DEF SpawnPlayer
<1> HIDE DEF u, v, id
<1>4. Sound(u, {})
  BY <1>1, <1>2, AddedSound
<1>5. /\ u \in Worlds /\ w.avatar \in [Clients -> Ids \union {NoId}]
      /\ u.avatar = [w.avatar EXCEPT ![c] = id] /\ u.gameId = w.gameId
  BY <1>1, <1>2 DEF Added, Worlds
<1>6. u.avatar[c] = id
  BY <1>5
<1>7. /\ g \in [Clients -> Ids \union {NoId}] /\ g = [w.gameId EXCEPT ![c] = id]
      /\ d \in [Clients -> BOOLEAN]
  <2>1. /\ u.gameId \in [Clients -> Ids \union {NoId}] /\ u.dead \in [Clients -> BOOLEAN]
        /\ id \in Ids
    BY <1>2, <1>5 DEF Added, Worlds
  <2>2. (kind /= "actor") \in BOOLEAN
    OBVIOUS
  <2>3. d \in [Clients -> BOOLEAN]
    BY <2>1, <2>2
  <2> QED BY <1>5, <1>6, <2>1, <2>3
<1> HIDE DEF g, d
<1>8. /\ v \in Worlds /\ v.entities = u.entities /\ v.avatar = u.avatar /\ v.gameId = g
      /\ v.stopped = u.stopped /\ v.corpses = u.corpses
      /\ v.phase = u.phase /\ v.active = u.active /\ v.shortens = u.shortens
  BY <1>3, <1>5, <1>7 DEF Worlds
<1>9. Joined(w, v, id, c, kind)
  BY <1>2, <1>5, <1>7, <1>8 DEF Added, Joined
<1>10. Sound(v, {})
  BY <1>4, <1>8, SoundSame
<1> QED BY <1>9, <1>10 DEF v, id

\* With its new entity the client is one of those that play.
LEMMA JoinedGood ==
  ASSUME NEW w, NEW C, NEW I, NEW L, NEW G, NEW c \in I, Good(w, C \ {c}, I, L, G),
         NEW v, NEW id, NEW kind \in Players, Joined(w, v, id, c, kind), Sound(v, {})
  PROVE  Good(v, C \union {c}, I, L, G)
<1>1. /\ C \union {c} \subseteq I /\ I \subseteq Clients /\ c \in Clients
      /\ w.avatar \in [Clients -> Ids \union {NoId}]
      /\ w.gameId \in [Clients -> Ids \union {NoId}]
  BY DEF Good, Consistent, Sound, Worlds
<1>2. /\ v.avatar[c] = id /\ v.gameId[c] = id
      /\ \A d \in Clients \ {c} : v.avatar[d] = w.avatar[d] /\ v.gameId[d] = w.gameId[d]
  BY <1>1 DEF Joined
<1>3. Playing(v, C \union {c})
  <2> SUFFICES ASSUME NEW d \in C \union {c}
               PROVE  /\ Alive(v, v.avatar[d])
                      /\ v.entities[v.avatar[d]].kind \in Players
                      /\ v.entities[v.avatar[d]].owner = d
                      /\ v.gameId[d] = v.avatar[d]
    BY DEF Playing
  <2>1. CASE d = c
    BY <2>1, <1>2 DEF Joined, Alive
  <2>2. CASE d /= c
    <3>1. d \in C \ {c} /\ d \in Clients \ {c}
      BY <2>2, <1>1
    <3> QED BY <3>1, <1>2 DEF Good, Consistent, Playing, Joined, Alive
  <2> QED BY <2>1, <2>2
<1>4. Bodies(v, C \union {c})
  <2> SUFFICES ASSUME NEW i \in ToSet(v.corpses)
               PROVE  /\ Alive(v, i)
                      /\ v.entities[i].kind \in Players
                      /\ v.entities[i].owner = Server
                      /\ \A d \in C \union {c} : v.avatar[d] /= i
    BY DEF Bodies, Good, Consistent, Joined
  <2>1. /\ i \in DOMAIN w.entities /\ w.entities[i].kind \in Players
        /\ w.entities[i].owner = Server /\ \A d \in C \ {c} : w.avatar[d] /= i
    BY DEF Bodies, Good, Consistent, Joined, Alive
  <2>2. i /= id /\ v.entities[i] = w.entities[i] /\ i \in DOMAIN v.entities
    BY <2>1 DEF Joined
  <2> QED BY <2>1, <2>2, <1>1, <1>2 DEF Alive
<1>5. Away(v, L, G)
  <2> SUFFICES ASSUME NEW i \in L
               PROVE  Alive(v, i) /\ v.entities[i].kind \in Players /\ v.entities[i].owner \in G
    BY DEF Away
  <2>1. /\ i \in DOMAIN w.entities /\ w.entities[i].kind \in Players
        /\ w.entities[i].owner \in G
    BY DEF Away, Good, Consistent, Alive
  <2> QED BY <2>1 DEF Joined, Alive
<1>6. Idle(v, I)
  BY <1>2 DEF Good, Idle
<1>7. ~ v.stopped
  BY DEF Good, Consistent, Joined
<1> QED BY <1>1, <1>3, <1>4, <1>5, <1>6, <1>7 DEF Good, Consistent

\* An item that is spawned is nobody's.
LEMMA AddedGood ==
  ASSUME NEW w, NEW C, NEW I, NEW L, NEW G, Good(w, C, I, L, G),
         NEW v, NEW id, NEW kind \in Items, Added(w, v, id, kind, Server, FALSE)
  PROVE  Good(v, C, I, L, G)
<1>1. Sound(v, {}) /\ ~ v.stopped
  BY AddedSound DEF Good, Consistent, Added
<1>2. /\ DOMAIN v.entities = DOMAIN w.entities \union {id}
      /\ \A i \in DOMAIN w.entities : v.entities[i] = w.entities[i]
      /\ v.gameId = w.gameId /\ v.corpses = w.corpses
  BY DEF Added
<1>3. v.avatar = w.avatar
  <2>1. w.avatar \in [Clients -> Ids \union {NoId}] /\ Server \in Clients
    BY ServerAssumption DEF Good, Consistent, Sound, Worlds
  <2>2. v.avatar = [w.avatar EXCEPT ![Server] = w.avatar[Server]]
    BY DEF Added
  <2> QED BY <2>1, <2>2
<1>4. Playing(v, C)
  BY <1>2, <1>3 DEF Good, Consistent, Playing, Alive
<1>5. Bodies(v, C)
  BY <1>2, <1>3 DEF Good, Consistent, Bodies, Alive
<1>6. Away(v, L, G)
  BY <1>2 DEF Good, Consistent, Away, Alive
<1>7. Idle(v, I)
  BY <1>2, <1>3 DEF Good, Idle
<1> QED BY <1>1, <1>4, <1>5, <1>6, <1>7 DEF Good, Consistent

-----------------------------------------------------------------------------
(* Bodies and respawning.                                                  *)

\* Good of some clients and delayed events is good of fewer.
LEMMA FewerGood ==
  ASSUME NEW w, NEW C, NEW I, NEW L, NEW G, Good(w, C, I, L, G),
         NEW D, D \subseteq C, NEW M, M \subseteq L
  PROVE  Good(w, D, I, M, G)
BY DEF Good, Consistent, Playing, Bodies, Away

\* id is the server's now.
Freed(w, v, id) ==
    /\ v \in Worlds
    /\ DOMAIN v.entities = DOMAIN w.entities
    /\ \A i \in DOMAIN w.entities :
          /\ v.entities[i].kind = w.entities[i].kind
          /\ v.entities[i].parent = w.entities[i].parent
          /\ v.entities[i].children = w.entities[i].children
          /\ v.entities[i].owner = IF i = id THEN Server ELSE w.entities[i].owner
    /\ v.avatar = w.avatar /\ v.gameId = w.gameId /\ v.corpses = w.corpses
    /\ v.stopped = w.stopped

\* Giving an entity to the server changes its owner only.
LEMMA FreedFacts ==
  ASSUME NEW w \in Worlds, NEW id, Alive(w, id)
  PROVE  Freed(w, GivenToServer(w, id), id)
<1> DEFINE D == DOMAIN w.entities
           x == [w.entities[id] EXCEPT !.owner = Server]
           f == [w.entities EXCEPT ![id] = x]
           v == GivenToServer(w, id)
<1>1. D \in SUBSET Ids /\ id \in D /\ \A i \in D : w.entities[i] \in Entity
  BY EntityTypes DEF Alive
<1>2. w.entities \in [D -> Entity]
  BY <1>1 DEF Worlds, Trees
<1>3. v = [w EXCEPT !.entities = f]
  BY <1>1 DEF GivenToServer
<1>4. x \in Entity
  BY <1>1, ServerAssumption DEF Entity
<1>5. /\ x.kind = w.entities[id].kind /\ x.parent = w.entities[id].parent
      /\ x.children = w.entities[id].children /\ x.owner = Server
  BY <1>1 DEF Entity
<1> HIDE DEF x, v
<1>6. f \in [D -> Entity] /\ f[id] = x /\ \A i \in D \ {id} : f[i] = w.entities[i]
  BY <1>1, <1>2, <1>4
<1> HIDE DEF f, D
<1>7. /\ v \in Worlds /\ v.entities = f /\ v.stopped = w.stopped
      /\ v.avatar = w.avatar /\ v.gameId = w.gameId /\ v.corpses = w.corpses
  BY <1>1, <1>3, <1>6, WithEntities
<1>8. DOMAIN f = D
  BY <1>6
<1> QED BY <1>5, <1>6, <1>7, <1>8 DEF Freed, D, v

\* What nobody plays may be given to the server.
LEMMA FreedGood ==
  ASSUME NEW w, NEW C, NEW I, NEW L, NEW G, Good(w, C, I, L, G),
         NEW v, NEW id, Freed(w, v, id), Alive(w, id), w.entities[id].kind \in Players,
         \A c \in C : w.avatar[c] /= id, id \notin L
  PROVE  Good(v, C, I, L, G)
<1> DEFINE e == w.entities
           f == v.entities
<1>1. /\ DOMAIN f = DOMAIN e
      /\ \A i \in DOMAIN e :
            /\ f[i].kind = e[i].kind /\ f[i].parent = e[i].parent
            /\ f[i].children = e[i].children
            /\ f[i].owner = IF i = id THEN Server ELSE e[i].owner
      /\ v.avatar = w.avatar /\ v.gameId = w.gameId /\ v.corpses = w.corpses
      /\ v.stopped = w.stopped /\ v \in Worlds
      /\ e[id].kind \notin Items
  BY DEF Freed, Players, Items, Weapons
<1>2. Sound(w, {}) /\ w \in Worlds
  BY DEF Good, Consistent, Sound
<1>3. \A i \in DOMAIN e : \A j \in ToSet(e[i].children) : j \in DOMAIN e
  BY <1>2 DEF Sound, Tree, Alive
<1>4. \A i \in DOMAIN e : e[i].parent /= NoId => e[i].parent \in DOMAIN e
  BY <1>2 DEF Sound, Tree, Alive
<1> HIDE DEF f
<1>5. Tree(v, {})
  <2> SUFFICES ASSUME NEW i \in DOMAIN e
               PROVE  /\ f[i].parent /= i
                      /\ f[i].parent /= NoId =>
                            f[i].parent \in DOMAIN f /\ i \in ToSet(f[f[i].parent].children)
                      /\ \A j \in ToSet(f[i].children) :
                            j \in DOMAIN f /\ f[j].parent = i /\ f[j].kind \in Items
                      /\ Distinct(f[i].children)
                      /\ f[i].children /= <<>> =>
                            f[i].kind \in Holders /\ (f[i].parent = NoId \/ i \in {})
    BY <1>1 DEF Tree, Alive, f
  <2> QED BY <1>1, <1>2, <1>3, <1>4 DEF Sound, Tree, Alive
<1>6. Owned(v)
  BY <1>1, <1>2 DEF Sound, Owned, f
<1>7. Bags(v)
  <2> SUFFICES ASSUME NEW i \in DOMAIN e, e[i].kind = "actor", NEW j \in Rest(e[i].children)
               PROVE  f[j].kind /= "bag"
    BY <1>1 DEF Bags, f
  <2>1. e[i].children \in Seq(Ids)
    BY <1>2, EntityTypes
  <2>2. Len(e[i].children) \in Nat
        /\ ToSet(e[i].children) = {e[i].children[k] : k \in 1..Len(e[i].children)}
    BY <2>1, ToSetOf
  <2>3. j \in DOMAIN e
    BY <2>2, <1>3 DEF Rest
  <2> QED BY <2>3, <1>1, <1>2 DEF Sound, Bags
<1>8. Slots(v)
  <2> SUFFICES ASSUME OneOfASlot, NEW i \in DOMAIN e, e[i].kind = "actor",
                      NEW j \in ToSet(e[i].children), NEW k \in ToSet(e[i].children),
                      f[j].kind = f[k].kind, f[j].kind \in Weapons
               PROVE  j = k
    BY <1>1 DEF Slots, f
  <2>1. e[j].kind = e[k].kind /\ e[j].kind \in Weapons
    BY <1>1, <1>3
  <2> QED BY <2>1, <1>2 DEF Sound, Slots
<1>9. Playing(v, C)
  BY <1>1 DEF Good, Consistent, Playing, Alive, f
<1>10. Bodies(v, C)
  BY <1>1 DEF Good, Consistent, Bodies, Alive, f
<1>11. Away(v, L, G)
  BY <1>1 DEF Good, Consistent, Away, Alive, f
<1>12. Idle(v, I) /\ ~ v.stopped
  BY <1>1 DEF Good, Consistent, Idle
<1> QED BY <1>1, <1>5, <1>6, <1>7, <1>8, <1>9, <1>10, <1>11, <1>12 DEF Good, Consistent, Sound

\* An entity of the server that nobody plays may go on the list of bodies.
LEMMA ListedGood ==
  ASSUME NEW w, NEW C, NEW I, NEW L, NEW G, Good(w, C, I, L, G), NEW id, Alive(w, id),
         w.entities[id].kind \in Players, w.entities[id].owner = Server,
         id \notin ToSet(w.corpses), \A c \in C : w.avatar[c] /= id
  PROVE  LET v == [w EXCEPT !.corpses = Append(@, id)]
         IN  Good(v, C, I, L, G) /\ v.entities = w.entities /\ v.avatar = w.avatar
<1> DEFINE q == Append(w.corpses, id)
           v == [w EXCEPT !.corpses = Append(@, id)]
<1>1. w \in Worlds /\ w.corpses \in Seq(Ids) /\ id \in Ids /\ Distinct(w.corpses)
      /\ Sound(w, {})
  BY EntityTypes DEF Good, Consistent, Sound, Worlds, Bodies, Alive
<1>2. q \in Seq(Ids) /\ ToSet(q) = ToSet(w.corpses) \union {id} /\ Distinct(q)
  BY <1>1, AppendFacts
<1>3. v = [w EXCEPT !.corpses = q]
  OBVIOUS
<1> HIDE DEF v, q
<1>4. /\ v \in Worlds /\ v.entities = w.entities /\ v.avatar = w.avatar
      /\ v.gameId = w.gameId /\ v.corpses = q /\ v.stopped = w.stopped
  BY <1>1, <1>2, <1>3 DEF Worlds
<1>5. Sound(v, {})
  BY <1>1, <1>4, SoundSame
<1>6. Playing(v, C)
  BY <1>4 DEF Good, Consistent, Playing, Alive
<1>7. Bodies(v, C)
  BY <1>2, <1>4 DEF Good, Consistent, Bodies, Alive
<1>8. Away(v, L, G) /\ Idle(v, I) /\ ~ v.stopped
  BY <1>4 DEF Good, Consistent, Away, Idle, Alive
<1>9. Good(v, C, I, L, G)
  BY <1>5, <1>6, <1>7, <1>8 DEF Good, Consistent
<1> QED BY <1>4, <1>9 DEF v

\* What nobody plays any longer becomes a body of the server.
Body(w, id) == [AllowDeadBodyRemove(w, id) EXCEPT !.corpses = Append(@, id)]

\* What nobody plays becomes a body that is on the list once.
LEMMA BodyGood ==
  ASSUME NEW w, NEW C, NEW I, NEW L, NEW G, Good(w, C, I, L, G), NEW id, Alive(w, id),
         w.entities[id].kind \in Players, id \notin ToSet(w.corpses),
         \A c \in C : w.avatar[c] /= id, id \notin L
  PROVE  /\ Good(Body(w, id), C, I, L, G)
         /\ DOMAIN Body(w, id).entities = DOMAIN w.entities
         /\ Body(w, id).entities[id].kind = w.entities[id].kind
         /\ Body(w, id).entities[id].owner = Server
         /\ Body(w, id).avatar = w.avatar
<1> DEFINE u == AllowDeadBodyRemove(w, id)
<1>1. w \in Worlds
  BY DEF Good, Consistent, Sound
<1>2. Freed(w, u, id)
  BY <1>1, FreedFacts DEF AllowDeadBodyRemove
<1> HIDE DEF u
<1>3. Good(u, C, I, L, G)
  BY <1>2, FreedGood
<1>4. /\ Alive(u, id) /\ u.entities[id].kind = w.entities[id].kind
      /\ u.entities[id].owner = Server /\ u.corpses = w.corpses /\ u.avatar = w.avatar
      /\ DOMAIN u.entities = DOMAIN w.entities
  BY <1>2 DEF Freed, Alive
<1>5. Body(w, id) = [u EXCEPT !.corpses = Append(@, id)]
  BY DEF Body, u
<1>6. /\ Good([u EXCEPT !.corpses = Append(@, id)], C, I, L, G)
      /\ [u EXCEPT !.corpses = Append(@, id)].entities = u.entities
      /\ [u EXCEPT !.corpses = Append(@, id)].avatar = u.avatar
  BY <1>3, <1>4, ListedGood
<1> QED BY <1>4, <1>5, <1>6

-----------------------------------------------------------------------------
(* What a new actor is given.                                              *)

\* How many identifiers are free.
Spare(w) == Cardinality(FreeIds(w))

\* The identifiers that are free are counted, and 0 says there is none.
LEMMA SpareFacts ==
  ASSUME NEW w
  PROVE  Spare(w) \in Nat /\ (FreeIds(w) = {} <=> Spare(w) = 0)
<1>1. IsFiniteSet(FreeIds(w))
  BY ServerAssumption, FS_Subset DEF FreeIds
<1> QED BY <1>1, FS_CardinalityType, FS_EmptySet DEF Spare

\* A new entity takes one of the free identifiers.
LEMMA SpareOfOneMore ==
  ASSUME NEW w, NEW v, NEW id \in Ids \ DOMAIN w.entities,
         DOMAIN v.entities = DOMAIN w.entities \union {id}
  PROVE  Spare(v) = Spare(w) - 1
<1>1. IsFiniteSet(FreeIds(w))
  BY ServerAssumption, FS_Subset DEF FreeIds
<1>2. FreeIds(v) = FreeIds(w) \ {id} /\ id \in FreeIds(w)
  BY DEF FreeIds
<1> QED BY <1>1, <1>2, FS_RemoveElement DEF Spare

\* An entity that goes frees its identifier.
LEMMA SpareOfOneLess ==
  ASSUME NEW w, NEW v, NEW id \in DOMAIN w.entities, DOMAIN w.entities \subseteq Ids,
         DOMAIN v.entities = DOMAIN w.entities \ {id}
  PROVE  Spare(v) = Spare(w) + 1
<1>1. IsFiniteSet(FreeIds(w))
  BY ServerAssumption, FS_Subset DEF FreeIds
<1>2. FreeIds(v) = FreeIds(w) \union {id} /\ id \notin FreeIds(w)
  BY DEF FreeIds
<1> QED BY <1>1, <1>2, FS_AddElement DEF Spare

\* What actor has is of a kind in S.
KindsIn(w, actor, S) ==
    \A i \in ToSet(w.entities[actor].children) : w.entities[i].kind \in S

\* One identifier is taken, for something of that kind that the actor has now.
Given(w, v, actor, kind) ==
    /\ Spare(v) = Spare(w) - 1
    /\ Alive(v, actor) /\ v.entities[actor].kind = w.entities[actor].kind
    /\ \A S : KindsIn(w, actor, S) => KindsIn(v, actor, S \union {kind})
    /\ v.avatar = w.avatar

\* A new entity with its parent filled in.
LEMMA WithParent ==
  ASSUME NEW k, NEW o, NEW q
  PROVE  [[kind |-> k, parent |-> NoId, children |-> <<>>, owner |-> o, alive |-> TRUE]
              EXCEPT !.parent = q]
           = [kind |-> k, parent |-> q, children |-> <<>>, owner |-> o, alive |-> TRUE]
<1>1. \A a :
        [[kind |-> k, parent |-> NoId, children |-> <<>>, owner |-> o, alive |-> a]
              EXCEPT !.parent = q]
           = [kind |-> k, parent |-> q, children |-> <<>>, owner |-> o, alive |-> a]
  OBVIOUS
<1> QED BY <1>1

\* To spawn inside another one is to spawn alone and to attach.
LEMMA SpawnedInside ==
  ASSUME NEW w \in Worlds, FreeIds(w) /= {}, NEW kind \in Kinds, NEW actor, Alive(w, actor)
  PROVE  Spawned(w, kind, actor, Server, FALSE)
           = Attached(Spawned(w, kind, NoId, Server, FALSE), actor, NewId(w))
<1> DEFINE id == NewId(w)
           D == DOMAIN w.entities
           x == [kind |-> kind, parent |-> NoId, children |-> <<>>,
                 owner |-> Server, alive |-> TRUE]
           y == [kind |-> kind, parent |-> actor, children |-> <<>>,
                 owner |-> Server, alive |-> TRUE]
           f == [i \in D \union {id} |-> IF i = id THEN x ELSE w.entities[i]]
           g == [i \in D \union {id} |-> IF i = id THEN y ELSE w.entities[i]]
           a == [w.avatar EXCEPT ![Server] = IF FALSE THEN id ELSE w.avatar[Server]]
           u == Spawned(w, kind, NoId, Server, FALSE)
<1>1. actor /= NoId
  BY EntityTypes, ServerAssumption DEF Alive
<1>2. u = [w EXCEPT !.entities = f, !.avatar = a]
  BY DEF Spawned
<1>3. Spawned(w, kind, actor, Server, FALSE)
        = WithChild([w EXCEPT !.entities = g, !.avatar = a], actor, id)
  BY <1>1 DEF Spawned
<1>4. [f EXCEPT ![id].parent = actor] = g
  <2>1. [x EXCEPT !.parent = actor] = y
    BY WithParent
  <2> HIDE DEF x, y
  <2> QED BY <2>1
<1> HIDE DEF f, g, a, id, u
<1>5. [u EXCEPT !.entities[id].parent = actor] = [w EXCEPT !.entities = g, !.avatar = a]
  <2>1. u.entities = f
    BY <1>2 DEF Worlds
  <2>2. [u EXCEPT !.entities[id].parent = actor] = [u EXCEPT !.entities = g]
    BY <1>4, <2>1
  <2> QED BY <1>2, <2>2 DEF Worlds
<1> QED BY <1>3, <1>5 DEF Attached, id, u

\* An item given to an actor keeps all in order when the bag comes first and
\* the slot is free.
LEMMA SpawnWeaponFacts ==
  ASSUME NEW w, NEW C, NEW I, NEW L, NEW G, Good(w, C, I, L, G), FreeIds(w) /= {},
         NEW actor, Alive(w, actor), w.entities[actor].kind = "actor", NEW kind \in Items,
         kind /= "bag" \/ w.entities[actor].children = <<>>,
         OneOfASlot /\ kind \in Weapons =>
            \A i \in ToSet(w.entities[actor].children) : w.entities[i].kind /= kind
  PROVE  /\ Good(SpawnWeapon4Actor(w, actor, kind), C, I, L, G)
         /\ Given(w, SpawnWeapon4Actor(w, actor, kind), actor, kind)
<1> SUFFICES ASSUME NEW X, X = {}
             PROVE  /\ Good(SpawnWeapon4Actor(w, actor, kind), C, I, L, G)
                    /\ Given(w, SpawnWeapon4Actor(w, actor, kind), actor, kind)
  OBVIOUS
<1> DEFINE id == NewId(w)
           u == Spawned(w, kind, NoId, Server, FALSE)
           v == SpawnWeapon4Actor(w, actor, kind)
<1>1. w \in Worlds /\ kind \in Kinds /\ actor /= NoId /\ actor \in DOMAIN w.entities
      /\ Sound(w, {})
  <2>1. w \in Worlds /\ actor \in DOMAIN w.entities /\ Sound(w, {})
    BY DEF Good, Consistent, Sound, Alive
  <2> QED BY <2>1, EntityTypes, ServerAssumption DEF Kinds
<1>2. Added(w, u, id, kind, Server, FALSE)
  BY <1>1, SpawnedAlone, ServerAssumption
<1>3. v = Attached(u, actor, id)
  BY <1>1, SpawnedInside DEF SpawnWeapon4Actor
<1> HIDE DEF u, v, id
<1>4. Good(u, C, I, L, G)
  BY <1>2, AddedGood
<1>5. Sound(u, X)
  BY <1>4 DEF Good, Consistent
<1>6. /\ u.entities[actor] = w.entities[actor] /\ actor \in DOMAIN u.entities
      /\ id \in DOMAIN u.entities /\ id \notin DOMAIN w.entities
      /\ u.entities[id].parent = NoId /\ u.entities[id].children = <<>>
      /\ u.entities[id].kind = kind
      /\ \A i \in DOMAIN w.entities : u.entities[i] = w.entities[i]
  BY <1>1, <1>2 DEF Added
<1>7. \A i \in ToSet(w.entities[actor].children) :
          i \in DOMAIN w.entities /\ u.entities[i] = w.entities[i]
  BY <1>1, <1>6 DEF Sound, Tree, Alive
<1>8. w.entities[actor].parent = NoId
  <2>1. "actor" \notin Items
    BY DEF Items, Weapons
  <2> QED BY <1>1, <2>1 DEF Sound, Tree, Alive
<1>9. MayHold(u, actor, id)
  BY <1>6, <1>7 DEF MayHold
<1>10. MayMove(u, id, actor, X)
  BY <1>1, <1>6, <1>8, <1>9 DEF MayMove, Alive, Holders
<1>11. MovedTo(u, v, id, actor)
  BY <1>1, <1>3, <1>5, <1>6, <1>10, AttachedMoves
<1>12. Sound(v, X)
  BY <1>5, <1>10, <1>11, MoveSound
<1>13. Shuffled(u, v, {NoId})
  BY <1>6, <1>11, <1>12 DEF MovedTo, Shuffled
<1>14. Good(v, C, I, L, G)
  BY <1>4, <1>13, ShuffledGood
<1>15. DOMAIN v.entities = DOMAIN u.entities /\ v.avatar = u.avatar
       /\ \A i \in DOMAIN u.entities : v.entities[i].kind = u.entities[i].kind
  BY <1>13 DEF Shuffled, Regrouped
<1>16. ChildrenMoved(u, v, id, actor, actor)
  BY <1>5, <1>6, <1>10, <1>11, MovedChildren
<1>17. ToSet(v.entities[actor].children) = ToSet(w.entities[actor].children) \union {id}
  BY <1>1, <1>6, <1>16 DEF ChildrenMoved
<1>18. Spare(v) = Spare(w) - 1
  <2>1. id \in Ids \ DOMAIN w.entities /\ DOMAIN v.entities = DOMAIN w.entities \union {id}
    BY <1>2, <1>15 DEF Added
  <2> QED BY <2>1, SpareOfOneMore
<1>19. v.avatar = w.avatar
  <2>1. w.avatar \in [Clients -> Ids \union {NoId}] /\ Server \in Clients
    BY <1>1, ServerAssumption DEF Worlds
  <2>2. u.avatar = [w.avatar EXCEPT ![Server] = w.avatar[Server]]
    BY <1>2 DEF Added
  <2> QED BY <1>15, <2>1, <2>2
<1>20. ASSUME NEW S, KindsIn(w, actor, S) PROVE KindsIn(v, actor, S \union {kind})
  <2> SUFFICES ASSUME NEW i \in ToSet(v.entities[actor].children)
               PROVE  v.entities[i].kind \in S \union {kind}
    BY DEF KindsIn
  <2>1. CASE i = id
    BY <2>1, <1>6, <1>15
  <2>2. CASE i /= id
    <3>1. i \in ToSet(w.entities[actor].children)
      BY <2>2, <1>17
    <3>2. w.entities[i].kind \in S
      BY <3>1, <1>20 DEF KindsIn
    <3>3. i \in DOMAIN u.entities /\ u.entities[i] = w.entities[i]
      BY <3>1, <1>2, <1>7 DEF Added
    <3> QED BY <3>2, <3>3, <1>15
  <2> QED BY <2>1, <2>2
<1>21. Given(w, v, actor, kind)
  BY <1>6, <1>15, <1>18, <1>19, <1>20 DEF Given, Alive
<1> QED BY <1>14, <1>21 DEF v

\* The loop over a loadout is what the fold computes.
LEMMA WeaponsRun ==
  ASSUME NEW actor, NEW loadout, NEW n \in Nat, DOMAIN loadout = 1..n,
         NEW W, NEW w \in W, NEW step \in Steps(W, n),
         \A v \in W, k \in 1..n : step[<<v, k>>] = SpawnWeapon4Actor(v, actor, loadout[k])
  PROVE  \E r \in Runs(W, w, n, step) : r[n] = SpawnWeaponsForActor(w, actor, loadout)
<1>1. Loops(W, w, n, step) /= {}
  BY LoopExists
<1>2. PICK it \in Loops(W, w, n, step) : TRUE
  BY <1>1
<1>3. \A s \in Visits(n) : s /= {} => Max(s) \in 1..n /\ s \ {Max(s)} \in Visits(n)
  BY GreatestOf DEF Visits
<1>4. it = [s \in SUBSET DOMAIN loadout |-> IF s = {} THEN w
               ELSE SpawnWeapon4Actor(it[s \ {Max(s)}], actor, loadout[Max(s)])]
  BY <1>2, <1>3 DEF Visits, Loops
<1>5. PICK iter :
         /\ iter = [s \in SUBSET DOMAIN loadout |-> IF s = {} THEN w
                       ELSE SpawnWeapon4Actor(iter[s \ {Max(s)}], actor, loadout[Max(s)])]
         /\ SpawnWeaponsForActor(w, actor, loadout) = iter[DOMAIN loadout]
  BY <1>4, Zenon DEF SpawnWeaponsForActor, FoldLeft, MapThenFoldSet
<1>6. LoopIn(W, w, n, step, iter)
  BY <1>3, <1>5 DEF Visits, LoopIn
<1>7. PICK r \in Runs(W, w, n, step) : iter[1..n] = r[n]
  BY <1>6, LoopRuns
<1> QED BY <1>5, <1>7

\* Attaching keeps the types, allowed or not.
LEMMA AttachedTyped ==
  ASSUME NEW w \in Worlds, NEW id \in DOMAIN w.entities, NEW q \in DOMAIN w.entities, q /= id
  PROVE  /\ Attached(w, q, id) \in Worlds
         /\ DOMAIN Attached(w, q, id).entities = DOMAIN w.entities
<1> DEFINE e == w.entities
           D == DOMAIN e
           y == [e[id] EXCEPT !.parent = q]
           d == Append(e[q].children, id)
           z == [e[q] EXCEPT !.children = d]
           f == [e EXCEPT ![id].parent = q, ![q].children = Append(@, id)]
           v == Attached(w, q, id)
<1>1. D \in SUBSET Ids /\ e \in [D -> Entity] /\ e[id] \in Entity /\ e[q] \in Entity
      /\ id \in Ids /\ q \in Ids
  BY EntityTypes DEF Worlds, Trees
<1>2. v = [w EXCEPT !.entities = f]
  BY DEF Attached, WithChild
<1>3. f = [e EXCEPT ![id] = y, ![q] = z]
  BY <1>1
<1>4. y \in Entity
  BY <1>1 DEF Entity
<1>5. d \in Seq(Ids)
  <2>1. e[q].children \in Seq(Ids)
    BY <1>1 DEF Entity
  <2> HIDE DEF e
  <2> QED BY <1>1, <2>1, AppendFacts
<1> HIDE DEF d, e
<1>6. z \in Entity
  BY <1>1, <1>5 DEF Entity
<1> HIDE DEF y, z, f, D, v
<1>7. f \in [D -> Entity]
  <2>1. id \in D /\ q \in D
    BY DEF D, e
  <2> QED BY <2>1, <1>1, <1>3, <1>4, <1>6, TwoChanged
<1>8. v \in Worlds /\ v.entities = f
  BY <1>1, <1>2, <1>7, WithEntities
<1> QED BY <1>7, <1>8 DEF v, D, e

\* Giving an item keeps the types, allowed or not, and the actor.
LEMMA SpawnWeaponTyped ==
  ASSUME NEW w \in Worlds, NEW actor, Alive(w, actor), NEW kind \in Kinds
  PROVE  /\ SpawnWeapon4Actor(w, actor, kind) \in Worlds
         /\ Alive(SpawnWeapon4Actor(w, actor, kind), actor)
<1> DEFINE u == Spawned(w, kind, NoId, Server, FALSE)
           id == NewId(w)
<1>1. CASE FreeIds(w) = {}
  <2>1. SpawnWeapon4Actor(w, actor, kind) = Stop(w)
    BY <1>1 DEF SpawnWeapon4Actor, Spawned
  <2> QED BY <2>1, Stopped DEF Alive
<1>2. CASE FreeIds(w) /= {}
  <2>1. SpawnWeapon4Actor(w, actor, kind) = Attached(u, actor, id)
    BY <1>2, SpawnedInside DEF SpawnWeapon4Actor
  <2>2. Added(w, u, id, kind, Server, FALSE)
    BY <1>2, SpawnedAlone, ServerAssumption
  <2> HIDE DEF u, id
  <2>3. u \in Worlds /\ id \in DOMAIN u.entities /\ actor \in DOMAIN u.entities /\ actor /= id
    BY <2>2 DEF Added, Alive
  <2> QED BY <2>1, <2>3, AttachedTyped DEF Alive
<1> QED BY <1>1, <1>2

\* A whole loadout is given while the identifiers last.
LEMMA WeaponsGood ==
  ASSUME NEW w, NEW C, NEW I, NEW L, NEW G, Good(w, C, I, L, G),
         NEW actor, Alive(w, actor), w.entities[actor].kind = "actor",
         KindsIn(w, actor, {"bag"}),
         NEW loadout \in Loadouts, Spare(w) >= Len(loadout)
  PROVE  Good(SpawnWeaponsForActor(w, actor, loadout), C, I, L, G)
<1> DEFINE n == Len(loadout)
           W == {v \in Worlds : Alive(v, actor)}
           body(v, k) == SpawnWeapon4Actor(v, actor, loadout[k])
           step == [x \in W \X (1..n) |-> body(x[1], x[2])]
           kinds(k) == {"bag"} \union {loadout[j] : j \in 1..k}
           good(k) == {v \in W : /\ Good(v, C, I, L, G)
                                 /\ v.entities[actor].kind = "actor"
                                 /\ Spare(v) >= n - k
                                 /\ KindsIn(v, actor, kinds(k))}
           V == [k \in 0..n |-> good(k)]
<1>1. /\ n \in Nat /\ DOMAIN loadout = 1..n /\ w \in Worlds
      /\ \A k \in 1..n : loadout[k] \in Items \ {"bag"}
  <2>1. loadout \in Seq(Items \ {"bag"})
    BY ServerAssumption
  <2>2. w \in Worlds
    BY DEF Good, Consistent, Sound
  <2> QED BY <2>1, <2>2, LenProperties
<1>2. ASSUME NEW v \in W, NEW k \in 1..n PROVE body(v, k) \in W
  <2>1. loadout[k] \in Kinds
    BY <1>1 DEF Kinds
  <2> QED BY <2>1, SpawnWeaponTyped
<1>3. step \in Steps(W, n)
  <2> HIDE DEF W, body
  <2> QED BY <1>2 DEF Steps
<1>4. \A v \in W, k \in 1..n : step[<<v, k>>] = SpawnWeapon4Actor(v, actor, loadout[k])
  OBVIOUS
<1>5. w \in W /\ \A v \in W : Alive(v, actor)
  BY <1>1
<1> HIDE DEF step, W
<1>6. PICK r \in Runs(W, w, n, step) : r[n] = SpawnWeaponsForActor(w, actor, loadout)
  BY <1>1, <1>3, <1>4, <1>5, WeaponsRun
<1>7. w \in V[0]
  <2>1. KindsIn(w, actor, kinds(0))
    BY DEF KindsIn
  <2>2. n - 0 = n
    BY <1>1
  <2>3. w \in good(0)
    BY <1>5, <2>1, <2>2
  <2> QED BY <1>1, <2>3
<1>8. ASSUME NEW k \in 1..n, NEW v \in W, v \in V[k - 1]
      PROVE  step[<<v, k>>] \in V[k]
  <2>1. k - 1 \in 0..n /\ k \in 0..n /\ 1..k = (1..(k - 1)) \union {k} /\ k \notin 1..(k - 1)
    BY <1>1
  <2>2. v \in good(k - 1)
    BY <2>1, <1>8
  <2>3. /\ Good(v, C, I, L, G) /\ v.entities[actor].kind = "actor"
        /\ Spare(v) >= n - (k - 1) /\ KindsIn(v, actor, kinds(k - 1)) /\ Alive(v, actor)
    BY <1>5, <2>2
  <2>4. FreeIds(v) /= {}
    <3>1. Spare(v) /= 0
      BY <1>1, <2>3, SpareFacts
    <3> QED BY <3>1, SpareFacts
  <2>5. ASSUME OneOfASlot, loadout[k] \in Weapons,
               NEW i \in ToSet(v.entities[actor].children)
        PROVE  v.entities[i].kind /= loadout[k]
    <3>1. v.entities[i].kind \in kinds(k - 1)
      BY <2>3 DEF KindsIn
    <3>2. \A j \in 1..(k - 1) : loadout[j] /= loadout[k]
      BY <1>1, <2>1, <2>5 DEF OneOfASlot
    <3> QED BY <3>1, <3>2, <2>5 DEF Weapons
  <2>6. loadout[k] \in Items /\ loadout[k] /= "bag"
    BY <1>1
  <2> HIDE DEF good, kinds
  <2>7. /\ Good(body(v, k), C, I, L, G)
        /\ Given(v, body(v, k), actor, loadout[k])
    BY <2>3, <2>4, <2>5, <2>6, SpawnWeaponFacts
  <2>8. KindsIn(body(v, k), actor, kinds(k - 1) \union {loadout[k]})
    BY <2>3, <2>7 DEF Given
  <2>9. kinds(k - 1) \union {loadout[k]} = kinds(k)
    BY <2>1 DEF kinds
  <2>10. KindsIn(body(v, k), actor, kinds(k))
    BY <2>8, <2>9
  <2>11. Spare(body(v, k)) >= n - k
    <3>1. Spare(body(v, k)) = Spare(v) - 1
      BY <2>7 DEF Given
    <3>2. Spare(v) \in Nat
      BY SpareFacts
    <3> QED BY <3>1, <3>2, <2>3, <1>1
  <2>12. body(v, k).entities[actor].kind = "actor"
    BY <2>3, <2>7 DEF Given
  <2>13. body(v, k) \in good(k)
    BY <1>2, <2>7, <2>10, <2>11, <2>12 DEF good
  <2> QED BY <2>1, <2>13, <1>4
<1> HIDE DEF V
<1>9. r[n] \in V[n]
  <2>1. Leads(W, n, step, V)
    BY <1>8 DEF Leads
  <2> QED BY <1>1, <1>7, <2>1, RunsTo
<1>10. r[n] \in good(n)
  BY <1>1, <1>9 DEF V
<1> QED BY <1>6, <1>10

\* What a client that plays has.
LEMMA PlaysOwn ==
  ASSUME NEW w, NEW C, NEW I, NEW L, NEW G, Good(w, C, I, L, G), NEW c \in C
  PROVE  /\ Alive(w, w.avatar[c]) /\ w.avatar[c] \in Ids
         /\ w.entities[w.avatar[c]].kind \in Players
         /\ w.entities[w.avatar[c]].owner = c /\ w.gameId[c] = w.avatar[c]
         /\ w.avatar[c] \notin ToSet(w.corpses) /\ w.avatar[c] \notin L
         /\ \A d \in C \ {c} : w.avatar[d] /= w.avatar[c]
         /\ c \in Clients /\ c \notin G
<1>1. /\ Alive(w, w.avatar[c]) /\ w.entities[w.avatar[c]].kind \in Players
      /\ w.entities[w.avatar[c]].owner = c /\ w.gameId[c] = w.avatar[c]
  BY DEF Good, Consistent, Playing
<1>2. w.avatar[c] \in Ids
  BY <1>1, EntityTypes DEF Good, Consistent, Sound, Alive
<1>3. w.avatar[c] \notin ToSet(w.corpses)
  BY DEF Good, Consistent, Bodies
<1>4. c \in Clients /\ c \notin G
  BY DEF Good
<1>5. w.avatar[c] \notin L
  BY <1>1, <1>4 DEF Good, Consistent, Away
<1>6. \A d \in C \ {c} : w.avatar[d] /= w.avatar[c]
  BY <1>1 DEF Good, Consistent, Playing
<1> QED BY <1>1, <1>2, <1>3, <1>4, <1>5, <1>6

\* v is w in which c came to play something new.
Plays(w, v, C, I, L, G, c, kind) ==
    /\ Good(v, C, I, L, G) /\ Spare(v) = Spare(w) - 1
    /\ v.avatar[c] \in DOMAIN v.entities
    /\ v.entities[v.avatar[c]].kind = kind
    /\ v.entities[v.avatar[c]].children = <<>>

\* A client that plays nothing gets an entity of its own.
LEMMA PlayerGood ==
  ASSUME NEW w, NEW C, NEW I, NEW L, NEW G, NEW c \in I, c \in C,
         Good(w, C \ {c}, I, L, G), FreeIds(w) /= {}, NEW kind \in Players
  PROVE  Plays(w, SpawnPlayer(w, c, kind), C, I, L, G, c, kind)
<1> DEFINE v == SpawnPlayer(w, c, kind)
           id == NewId(w)
<1>1. Sound(w, {}) /\ c \in Clients /\ w.avatar \in [Clients -> Ids \union {NoId}]
  BY DEF Good, Consistent, Sound, Worlds
<1>2. Joined(w, v, id, c, kind) /\ Sound(v, {})
  BY <1>1, SpawnPlayerFacts
<1> HIDE DEF v, id
<1>3. Good(v, C \union {c}, I, L, G)
  BY <1>2, JoinedGood
<1>4. Spare(v) = Spare(w) - 1
  BY <1>2, SpareOfOneMore DEF Joined
<1>5. v.avatar[c] = id
  BY <1>1, <1>2 DEF Joined
<1>6. id \in DOMAIN v.entities /\ v.entities[id].kind = kind /\ v.entities[id].children = <<>>
  BY <1>2 DEF Joined
<1>7. C \union {c} = C
  OBVIOUS
<1>8. Plays(w, v, C, I, L, G, c, kind)
  BY <1>3, <1>4, <1>5, <1>6, <1>7 DEF Plays
<1> QED BY <1>8 DEF v

\* A new actor has its bag, and m items can still be spawned.
Equipped(v, C, I, L, G, c, m) ==
    /\ Good(v, C, I, L, G) /\ Spare(v) >= m
    /\ KindsIn(v, v.avatar[c], {"bag"})

\* A client that plays nothing gets an actor and its bag.
LEMMA ActorGood ==
  ASSUME NEW w, NEW C, NEW I, NEW L, NEW G, NEW c \in I, c \in C,
         Good(w, C \ {c}, I, L, G), NEW m \in Nat, Spare(w) >= 2 + m
  PROVE  LET u == SpawnPlayer(w, c, "actor")
         IN  /\ u.entities[u.avatar[c]].kind = "actor"
             /\ Equipped(SpawnWeapon4Actor(u, u.avatar[c], "bag"), C, I, L, G, c, m)
<1> DEFINE u == SpawnPlayer(w, c, "actor")
           a == u.avatar[c]
           v == SpawnWeapon4Actor(u, a, "bag")
<1>1. FreeIds(w) /= {} /\ Spare(w) \in Nat
  BY SpareFacts
<1>2. "actor" \in Players /\ "bag" \in Items
  BY DEF Players, Items
<1>3. Plays(w, u, C, I, L, G, c, "actor")
  BY <1>1, <1>2, PlayerGood
<1> HIDE DEF u, v
<1>5. /\ Good(u, C, I, L, G) /\ Spare(u) = Spare(w) - 1
      /\ a \in DOMAIN u.entities
      /\ u.entities[a].kind = "actor" /\ u.entities[a].children = <<>>
  BY <1>3 DEF Plays
<1>6. FreeIds(u) /= {}
  <2>1. Spare(u) \in Nat /\ Spare(u) >= 1
    BY <1>1, <1>5, SpareFacts
  <2>2. Spare(u) /= 0
    BY <2>1
  <2> QED BY <2>2, SpareFacts
<1>7. Good(v, C, I, L, G) /\ Given(u, v, a, "bag")
  BY <1>2, <1>5, <1>6, EmptyFacts, SpawnWeaponFacts DEF Alive, v, Weapons
<1>8. Spare(v) >= m
  BY <1>1, <1>5, <1>7 DEF Given
<1>9. KindsIn(u, a, {})
  BY <1>5, EmptyFacts DEF KindsIn
<1>10. KindsIn(v, a, {} \union {"bag"})
  BY <1>7, <1>9 DEF Given
<1>11. {} \union {"bag"} = {"bag"}
  OBVIOUS
<1>12. v.avatar[c] = a
  BY <1>7 DEF Given
<1>13. Equipped(v, C, I, L, G, c, m)
  BY <1>7, <1>8, <1>10, <1>11, <1>12 DEF Equipped
<1> QED BY <1>5, <1>13 DEF u, v

\* RespawnPlayer leaves the client with one entity of its own: the old one is
\* a body or gone.
LEMMA RespawnFacts ==
  ASSUME NEW w, NEW C, NEW L, NEW G, Good(w, C, C, L, G), NEW c \in C, NEW noSpectator,
         NEW m \in Nat,
         Spare(w) >= IF w.entities[w.avatar[c]].kind /= "actor" THEN 1 + m
                     ELSE IF noSpectator THEN 2 + m ELSE 1
  PROVE  LET v == RespawnPlayer(w, c, noSpectator)
         IN  /\ Good(v, C, C, L, G)
             /\ v.entities[v.avatar[c]].kind = "actor" =>
                   Equipped(v, C, C, L, G, c, m)
<1> DEFINE old == w.avatar[c]
           v == RespawnPlayer(w, c, noSpectator)
<1>1. /\ Alive(w, old) /\ old \in Ids /\ w.entities[old].kind \in Players
      /\ w.gameId[c] = old /\ old \notin ToSet(w.corpses) /\ old \notin L
      /\ \A d \in C \ {c} : w.avatar[d] /= old
      /\ c \in Clients
  BY PlaysOwn
<1>2. Good(w, C \ {c}, C, L, G)
  BY FewerGood
<1>3. w \in Worlds /\ Sound(w, {}) /\ ~ w.stopped /\ Distinct(w.corpses)
      /\ DOMAIN w.entities \subseteq Ids
  BY EntityTypes DEF Good, Consistent, Sound, Bodies
<1>4. CASE w.entities[old].kind = "actor"
  <2> DEFINE body == Body(w, old)
  <2>1. /\ Good(body, C \ {c}, C, L, G) /\ DOMAIN body.entities = DOMAIN w.entities
        /\ body.entities[old].kind = w.entities[old].kind
    BY <1>1, <1>2, BodyGood
  <2>2. Spare(body) = Spare(w)
    BY <2>1 DEF Spare, FreeIds
  <2>3. body = [AllowDeadBodyRemove(w, w.gameId[c]) EXCEPT !.corpses = Append(@, old)]
    BY <1>1 DEF Body
  <2> HIDE DEF body
  <2>4. CASE ~ noSpectator
    <3> DEFINE player == SpawnPlayer(body, c, "spectator")
    <3>1. v = IF player.entities[player.avatar[c]].kind /= "actor" THEN player
              ELSE SpawnWeapon4Actor(player, player.avatar[c], "bag")
      BY <1>4, <2>3, <2>4 DEF RespawnPlayer
    <3>2. FreeIds(body) /= {}
      <4>1. Spare(body) \in Nat /\ Spare(body) >= 1
        BY <1>4, <2>2, <2>4, SpareFacts
      <4>2. Spare(body) /= 0
        BY <4>1
      <4> QED BY <4>2, SpareFacts
    <3>3. "spectator" \in Players
      BY DEF Players
    <3>4. Plays(body, player, C, C, L, G, c, "spectator")
      BY <2>1, <3>2, <3>3, PlayerGood
    <3> HIDE DEF player, v
    <3>5. Good(player, C, C, L, G) /\ player.entities[player.avatar[c]].kind = "spectator"
      BY <3>4 DEF Plays
    <3>6. v = player
      BY <3>1, <3>5
    <3> QED BY <3>5, <3>6 DEF v
  <2>5. CASE noSpectator
    <3> DEFINE freed == GivenToServer(body, old)
               player == SpawnPlayer(freed, c, "actor")
    <3>1. v = IF player.entities[player.avatar[c]].kind /= "actor" THEN player
              ELSE SpawnWeapon4Actor(player, player.avatar[c], "bag")
      BY <1>4, <2>3, <2>5 DEF RespawnPlayer
    <3>2. body \in Worlds /\ Alive(body, old)
      BY <1>1, <2>1 DEF Good, Consistent, Sound, Alive
    <3>3. Freed(body, freed, old)
      BY <3>2, FreedFacts
    <3> HIDE DEF freed
    <3>4. body.avatar = w.avatar
      BY <1>1, <1>2, BodyGood DEF body
    <3>5. Good(freed, C \ {c}, C, L, G)
      BY <1>1, <2>1, <3>2, <3>3, <3>4, FreedGood
    <3>6. Spare(freed) = Spare(w)
      BY <2>1, <3>3 DEF Freed, Spare, FreeIds
    <3>7. Spare(freed) >= 2 + m
      BY <1>4, <2>5, <3>6
    <3> DEFINE last == SpawnWeapon4Actor(player, player.avatar[c], "bag")
    <3>8. /\ player.entities[player.avatar[c]].kind = "actor"
          /\ Equipped(last, C, C, L, G, c, m)
      BY <3>5, <3>7, ActorGood
    <3> HIDE DEF player, last, v
    <3>9. v = last
      BY <3>1, <3>8 DEF last
    <3> QED BY <3>8, <3>9 DEF v, Equipped
  <2> QED BY <2>4, <2>5
<1>5. CASE w.entities[old].kind /= "actor"
  <2> DEFINE freed == GivenToServer(w, old)
             cleared == Destroyed(freed, old, Server)
             player == SpawnPlayer(cleared, c, "actor")
             last == SpawnWeapon4Actor(player, player.avatar[c], "bag")
  <2>1. v = IF player.entities[player.avatar[c]].kind /= "actor" THEN player ELSE last
    BY <1>5 DEF RespawnPlayer
  <2>2. Freed(w, freed, old)
    BY <1>1, <1>3, FreedFacts
  <2> HIDE DEF freed
  <2>3. Good(freed, C \ {c}, C, L, G)
    BY <1>1, <1>2, <2>2, FreedGood
  <2>4. /\ Alive(freed, old) /\ freed.entities[old].kind = w.entities[old].kind
        /\ freed.entities[old].owner = Server /\ freed.avatar = w.avatar
        /\ DOMAIN freed.entities = DOMAIN w.entities
    BY <1>1, <2>2 DEF Freed, Alive
  <2>5. freed.entities[old].children = <<>>
    <3>1. freed.entities[old].kind \notin Holders
      BY <1>1, <1>5, <2>4 DEF Players, Holders
    <3> QED BY <2>3, <2>4, <3>1 DEF Good, Consistent, Sound, Tree, Alive
  <2>6. freed.entities[old].kind /= "bag"
    BY <1>1, <2>4 DEF Players
  <2>7. Destroyable(freed, old)
    BY <1>5, <2>3, <2>4, <2>6 DEF Destroyable, Good, Consistent, Bodies
  <2>8. Without(freed, cleared, {old})
    <3>1. {old} \union ToSet(freed.entities[old].children) = {old}
      BY <2>5, EmptyFacts
    <3>2. Without(freed, cleared, {old} \union ToSet(freed.entities[old].children))
      BY <2>7, DestroyedFacts
    <3> QED BY <3>1, <3>2
  <2> HIDE DEF cleared
  <2>9. Good(cleared, C \ {c}, C, L, G)
    <3>1. {old} \subseteq Ids /\ L \intersect {old} = {}
          /\ \A d \in C \ {c} : freed.avatar[d] \notin {old}
      BY <1>1, <2>4
    <3> HIDE DEF old
    <3> QED BY <2>3, <2>8, <3>1, WithoutGood
  <2>10. Spare(cleared) >= 2 + m
    <3>1. DOMAIN cleared.entities = DOMAIN w.entities \ {old} /\ old \in DOMAIN w.entities
      BY <1>1, <2>4, <2>8 DEF Without, Reduced, Alive
    <3>2. Spare(cleared) = Spare(w) + 1
      BY <1>3, <3>1, SpareOfOneLess
    <3>3. Spare(w) \in Nat /\ Spare(w) >= 1 + m
      BY <1>5, SpareFacts
    <3> QED BY <3>2, <3>3
  <2>11. /\ player.entities[player.avatar[c]].kind = "actor"
         /\ Equipped(last, C, C, L, G, c, m)
    BY <2>9, <2>10, ActorGood
  <2> HIDE DEF player, last, v
  <2>12. v = last
    BY <2>1, <2>11
  <2> QED BY <2>11, <2>12 DEF v, Equipped
<1> QED BY <1>4, <1>5

\* Buying a loadout, or nothing for a spectator.
LEMMA ArmedFacts ==
  ASSUME NEW w, NEW C, NEW L, NEW G, Good(w, C, C, L, G), NEW c \in C, NEW loadout \in Loadouts,
         w.entities[w.avatar[c]].kind = "actor" =>
            Spare(w) >= Len(loadout) /\ KindsIn(w, w.avatar[c], {"bag"})
  PROVE  Good(Armed(w, c, loadout), C, C, L, G)
<1>1. Alive(w, w.avatar[c])
  BY PlaysOwn
<1>2. CASE w.entities[w.avatar[c]].kind = "actor"
  BY <1>1, <1>2, WeaponsGood DEF Armed
<1>3. CASE w.entities[w.avatar[c]].kind /= "actor"
  BY <1>3 DEF Armed
<1> QED BY <1>2, <1>3

-----------------------------------------------------------------------------
(* Steps.                                                                  *)

\* Before a step ...
LEMMA Now ==
  ASSUME IInv
  PROVE  /\ Good(World, connected, connected, leaving, gone)
         /\ SessionsOK(connected, leaving, gone)
         /\ World \in Worlds /\ phase \in {"inprogress", "scores", "pending"}
         /\ ~ stopped
<1>1. Consistent(World, connected, leaving, gone) /\ Idle(World, connected)
      /\ SessionsOK(connected, leaving, gone)
  BY DEF IInv
<1>2. World \in Worlds
  BY <1>1 DEF Consistent, Sound
<1>3. World.phase \in {"inprogress", "scores", "pending"}
  BY <1>2 DEF Worlds
<1>4. phase \in {"inprogress", "scores", "pending"}
  BY <1>3 DEF World
<1>5. ~ World.stopped
  BY <1>1 DEF Consistent
<1>6. ~ stopped
  BY <1>5 DEF World
<1> QED BY <1>1, <1>2, <1>4, <1>6 DEF Good, SessionsOK

\* ... and after it.
LEMMA After ==
  ASSUME NEW v, Becomes(v), Good(v, connected', connected', leaving', gone'),
         SessionsOK(connected', leaving', gone'), phase' \in {"inprogress", "scores", "pending"},
         phase' = "pending" => connected' /= {}
  PROVE  IInv'
<1> DEFINE u == [entities |-> entities', avatar |-> avatar', gameId |-> gameId',
                 dead |-> dead', corpses |-> corpses', stopped |-> stopped',
                 phase |-> phase', active |-> NoId, shortens |-> FALSE]
<1>1. v \in Worlds
  BY DEF Good, Consistent, Sound
<1>2. /\ u.entities = v.entities /\ u.avatar = v.avatar /\ u.gameId = v.gameId
      /\ u.corpses = v.corpses /\ u.stopped = v.stopped
  BY DEF Becomes
<1>3. u \in Worlds
  BY <1>1 DEF Becomes, Worlds
<1> HIDE DEF u
<1>4. Good(u, connected', connected', leaving', gone')
  BY <1>2, <1>3, SameGood
<1>5. World' = u
  BY DEF World, u
<1>6. Consistent(u, connected', leaving', gone') /\ Idle(u, connected')
  BY <1>4 DEF Good
<1> QED BY <1>5, <1>6 DEF IInv

\* One more client that plays nothing.
LEMMA IdleMore ==
  ASSUME NEW w, NEW C, NEW I, NEW L, NEW G, Good(w, C, I, L, G), NEW c \in Clients \ G
  PROVE  Good(w, C, I \union {c}, L, G)
BY DEF Good, Idle

\* A client that connects plays a spectator.
LEMMA ConnectKeeps ==
  ASSUME IInv, NEW c \in Clients, Connect(c)
  PROVE  IInv'
<1> DEFINE w == World
           C == connected \union {c}
           v == SpawnPlayer(w, c, "spectator")
<1>1. /\ Good(w, connected, connected, leaving, gone)
      /\ SessionsOK(connected, leaving, gone) /\ phase \in {"inprogress", "scores", "pending"}
  BY Now
<1>2. /\ c \notin connected \union gone
      /\ c = Server \/ Server \in connected
      /\ EnoughIds(1) /\ Becomes(v) /\ connected' = C
      /\ gone' = gone /\ leaving' = leaving /\ phase' = phase
  BY DEF Connect
<1>3. FreeIds(w) /= {}
  BY <1>2, SpareFacts DEF EnoughIds, Spare
<1> HIDE DEF w, v
<1>4. C \ {c} = connected /\ c \in C
  BY <1>2
<1>5. Good(w, C \ {c}, C, leaving, gone)
  BY <1>1, <1>2, <1>4, IdleMore
<1>6. Plays(w, v, C, C, leaving, gone, c, "spectator")
  <2>1. "spectator" \in Players
    BY DEF Players
  <2> HIDE DEF C
  <2> QED BY <1>3, <1>4, <1>5, <2>1, PlayerGood DEF v
<1>7. Good(v, C, C, leaving, gone)
  BY <1>6 DEF Plays
<1>8. SessionsOK(C, leaving, gone)
  BY <1>1, <1>2 DEF SessionsOK
<1>9. C /= {}
  OBVIOUS
<1> HIDE DEF C
<1> QED BY <1>1, <1>2, <1>7, <1>8, <1>9, After

\* Choosing to watch keeps the invariant.
LEMMA SelectSpectatorKeeps ==
  ASSUME IInv, NEW c \in Clients, SelectSpectator(c)
  PROVE  IInv'
<1> DEFINE w == World
           C == connected
           id == avatar[c]
           u == Body(w, id)
           v == SpawnPlayer(u, c, "spectator")
<1>1. /\ Good(w, C, C, leaving, gone)
      /\ SessionsOK(C, leaving, gone) /\ phase \in {"inprogress", "scores", "pending"}
      /\ phase = "pending" => C /= {}
  BY Now DEF IInv
<1>2. /\ c \in C /\ id = w.avatar[c] /\ EnoughIds(1)
      /\ Becomes(SpawnPlayer([AllowDeadBodyRemove(w, w.gameId[c]) EXCEPT
                               !.corpses = Append(@, w.gameId[c])], c, "spectator"))
      /\ C' = C /\ gone' = gone /\ leaving' = leaving /\ phase' = phase
  BY DEF SelectSpectator, Sessions, World
<1>3. FreeIds(w) /= {}
  BY <1>2, SpareFacts DEF EnoughIds, Spare
<1> HIDE DEF w, id
<1>4. /\ Alive(w, id) /\ w.entities[id].kind \in Players /\ w.gameId[c] = id
      /\ id \notin ToSet(w.corpses) /\ id \notin leaving
      /\ \A d \in C \ {c} : w.avatar[d] /= id
  BY <1>1, <1>2, PlaysOwn
<1>5. Becomes(v)
  BY <1>2, <1>4 DEF Body
<1>6. Good(w, C \ {c}, C, leaving, gone)
  BY <1>1, FewerGood
<1>7. Good(u, C \ {c}, C, leaving, gone) /\ DOMAIN u.entities = DOMAIN w.entities
  BY <1>4, <1>6, BodyGood
<1>8. FreeIds(u) /= {}
  BY <1>3, <1>7 DEF FreeIds
<1> HIDE DEF u
<1>9. Plays(u, v, C, C, leaving, gone, c, "spectator")
  <2>1. "spectator" \in Players
    BY DEF Players
  <2> QED BY <1>2, <1>7, <1>8, <2>1, PlayerGood
<1>10. Good(v, C, C, leaving, gone)
  BY <1>9 DEF Plays
<1> HIDE DEF v
<1> QED BY <1>1, <1>2, <1>5, <1>10, After

\* Only who is alive differs.
Similar(w, v) ==
    /\ v \in Worlds
    /\ DOMAIN v.entities = DOMAIN w.entities
    /\ \A i \in DOMAIN w.entities :
          /\ v.entities[i].kind = w.entities[i].kind
          /\ v.entities[i].parent = w.entities[i].parent
          /\ v.entities[i].children = w.entities[i].children
          /\ v.entities[i].owner = w.entities[i].owner
    /\ v.avatar = w.avatar /\ v.gameId = w.gameId /\ v.corpses = w.corpses
    /\ v.stopped = w.stopped

\* What differs in the lives and the hands only is as good.
LEMMA SimilarGood ==
  ASSUME NEW w, NEW C, NEW I, NEW L, NEW G, Good(w, C, I, L, G), NEW v, Similar(w, v)
  PROVE  Good(v, C, I, L, G)
<1> DEFINE e == w.entities
           f == v.entities
<1>1. /\ DOMAIN f = DOMAIN e
      /\ \A i \in DOMAIN e :
            /\ f[i].kind = e[i].kind /\ f[i].parent = e[i].parent
            /\ f[i].children = e[i].children /\ f[i].owner = e[i].owner
      /\ v.avatar = w.avatar /\ v.gameId = w.gameId /\ v.corpses = w.corpses
      /\ v.stopped = w.stopped /\ v \in Worlds
  BY DEF Similar
<1>2. Sound(w, {}) /\ w \in Worlds
  BY DEF Good, Consistent, Sound
<1>3. \A i \in DOMAIN e : \A j \in ToSet(e[i].children) : j \in DOMAIN e
  BY <1>2 DEF Sound, Tree, Alive
<1>4. \A i \in DOMAIN e : e[i].parent /= NoId => e[i].parent \in DOMAIN e
  BY <1>2 DEF Sound, Tree, Alive
<1> HIDE DEF f
<1>5. Tree(v, {})
  <2> SUFFICES ASSUME NEW i \in DOMAIN e
               PROVE  /\ f[i].parent /= i
                      /\ f[i].parent /= NoId =>
                            f[i].parent \in DOMAIN f /\ i \in ToSet(f[f[i].parent].children)
                      /\ \A j \in ToSet(f[i].children) :
                            j \in DOMAIN f /\ f[j].parent = i /\ f[j].kind \in Items
                      /\ Distinct(f[i].children)
                      /\ f[i].children /= <<>> =>
                            f[i].kind \in Holders /\ (f[i].parent = NoId \/ i \in {})
    BY <1>1 DEF Tree, Alive, f
  <2> QED BY <1>1, <1>2, <1>3, <1>4 DEF Sound, Tree, Alive
<1>6. Owned(v)
  BY <1>1, <1>2 DEF Sound, Owned, f
<1>7. Bags(v)
  <2> SUFFICES ASSUME NEW i \in DOMAIN e, e[i].kind = "actor", NEW j \in Rest(e[i].children)
               PROVE  f[j].kind /= "bag"
    BY <1>1 DEF Bags, f
  <2>1. e[i].children \in Seq(Ids)
    BY <1>2, EntityTypes
  <2>2. Len(e[i].children) \in Nat
        /\ ToSet(e[i].children) = {e[i].children[k] : k \in 1..Len(e[i].children)}
    BY <2>1, ToSetOf
  <2>3. j \in DOMAIN e
    BY <2>2, <1>3 DEF Rest
  <2> QED BY <2>3, <1>1, <1>2 DEF Sound, Bags
<1>8. Slots(v)
  <2> SUFFICES ASSUME OneOfASlot, NEW i \in DOMAIN e, e[i].kind = "actor",
                      NEW j \in ToSet(e[i].children), NEW k \in ToSet(e[i].children),
                      f[j].kind = f[k].kind, f[j].kind \in Weapons
               PROVE  j = k
    BY <1>1 DEF Slots, f
  <2>1. e[j].kind = e[k].kind /\ e[j].kind \in Weapons
    BY <1>1, <1>3
  <2> QED BY <2>1, <1>2 DEF Sound, Slots
<1>9. Playing(v, C)
  BY <1>1 DEF Good, Consistent, Playing, Alive, f
<1>10. Bodies(v, C)
  BY <1>1 DEF Good, Consistent, Bodies, Alive, f
<1>11. Away(v, L, G)
  BY <1>1 DEF Good, Consistent, Away, Alive, f
<1>12. Idle(v, I) /\ ~ v.stopped
  BY <1>1 DEF Good, Consistent, Idle
<1> QED BY <1>1, <1>5, <1>6, <1>7, <1>8, <1>9, <1>10, <1>11, <1>12 DEF Good, Consistent, Sound

\* A death keeps the invariant.
LEMMA DieKeeps ==
  ASSUME IInv, NEW id \in Ids, Die(id)
  PROVE  IInv'
<1> DEFINE w == World
           C == connected
           D == DOMAIN w.entities
           x == [w.entities[id] EXCEPT !.alive = FALSE]
           f == [w.entities EXCEPT ![id] = x]
           v == [w EXCEPT !.entities[id].alive = FALSE]
<1>1. /\ Good(w, C, C, leaving, gone) /\ w \in Worlds
      /\ SessionsOK(C, leaving, gone) /\ phase \in {"inprogress", "scores", "pending"}
      /\ phase = "pending" => C /= {}
  BY Now DEF IInv
<1>2. /\ id \in D /\ Becomes(v)
      /\ C' = C /\ gone' = gone /\ leaving' = leaving /\ phase' = phase
  BY DEF Die, Sessions, World
<1> HIDE DEF w
<1>3. D \in SUBSET Ids /\ w.entities \in [D -> Entity] /\ w.entities[id] \in Entity
  BY <1>1, <1>2, EntityTypes DEF Worlds, Trees
<1>4. v = [w EXCEPT !.entities = f]
  BY <1>3
<1>5. x \in Entity
  <2>1. FALSE \in BOOLEAN
    OBVIOUS
  <2>2. \A b \in BOOLEAN : [w.entities[id] EXCEPT !.alive = b] \in Entity
    BY <1>3 DEF Entity
  <2> QED BY <2>1, <2>2
<1>6. /\ x.kind = w.entities[id].kind /\ x.parent = w.entities[id].parent
      /\ x.children = w.entities[id].children /\ x.owner = w.entities[id].owner
  BY <1>3 DEF Entity
<1> HIDE DEF x, v
<1>7. f \in [D -> Entity] /\ f[id] = x /\ \A i \in D \ {id} : f[i] = w.entities[i]
  BY <1>2, <1>3, <1>5
<1> HIDE DEF f, D
<1>8. /\ v \in Worlds /\ v.entities = f /\ v.stopped = w.stopped
      /\ v.avatar = w.avatar /\ v.gameId = w.gameId /\ v.corpses = w.corpses
  BY <1>1, <1>3, <1>4, <1>7, WithEntities
<1>9. DOMAIN f = D
  BY <1>7
<1>10. Similar(w, v)
  BY <1>6, <1>7, <1>8, <1>9 DEF Similar, D
<1>11. Good(v, C, C, leaving, gone)
  BY <1>1, <1>10, SimilarGood
<1> QED BY <1>1, <1>2, <1>11, After

\* A client learning of its death keeps the invariant.
LEMMA KilledKeeps ==
  ASSUME IInv, NEW c \in Clients, Killed(c)
  PROVE  IInv'
<1> DEFINE w == World
           C == connected
           d == [w.dead EXCEPT ![c] = TRUE]
           v == [w EXCEPT !.dead = d]
<1>1. /\ Good(w, C, C, leaving, gone) /\ w \in Worlds
      /\ SessionsOK(C, leaving, gone) /\ phase \in {"inprogress", "scores", "pending"}
      /\ phase = "pending" => C /= {}
  BY Now DEF IInv
<1>2. /\ Becomes(v)
      /\ C' = C /\ gone' = gone /\ leaving' = leaving /\ phase' = phase
  BY DEF Killed, Sessions
<1>3. d \in [Clients -> BOOLEAN]
  <2>1. w.dead \in [Clients -> BOOLEAN]
    BY <1>1 DEF Worlds
  <2> HIDE DEF w
  <2> QED BY <2>1
<1> HIDE DEF w, d
<1>4. /\ v \in Worlds /\ v.entities = w.entities /\ v.avatar = w.avatar
      /\ v.gameId = w.gameId /\ v.corpses = w.corpses /\ v.stopped = w.stopped
  BY <1>1, <1>3 DEF Worlds
<1> HIDE DEF v
<1>5. Good(v, C, C, leaving, gone)
  BY <1>1, <1>4, SameGood
<1> QED BY <1>1, <1>2, <1>5, After

\* A GE_OWNERSHIP_TAKE of any client keeps the invariant, whatever it asks
\* for.
LEMMA TakeKeeps ==
  ASSUME IInv, NEW parent \in Ids, NEW id \in Ids, Take(parent, id)
  PROVE  IInv'
<1>0. PICK c \in connected, forced \in BOOLEAN :
         MayTake(World, parent, id, c) /\ Becomes(Taken(World, parent, id, forced))
  BY DEF Take
<1> DEFINE w == World
           C == connected
           v == Taken(w, parent, id, forced)
<1>1. /\ Good(w, C, C, leaving, gone) /\ w \in Worlds
      /\ SessionsOK(C, leaving, gone) /\ phase \in {"inprogress", "scores", "pending"}
      /\ phase = "pending" => C /= {}
  BY Now DEF IInv
<1>2. /\ MayTake(w, parent, id, c) /\ Becomes(v)
      /\ C' = C /\ gone' = gone /\ leaving' = leaving /\ phase' = phase
  BY <1>0 DEF Take, Sessions
<1> HIDE DEF w
<1>3. Sound(w, {}) /\ ~ w.stopped /\ Distinct(w.corpses)
  BY <1>1 DEF Good, Consistent, Bodies
<1>4. \/ Without(w, v, {})
      \/ w.entities[id].kind = "bag" /\ Without(w, v, {id})
  BY <1>2, <1>3, TakenFacts
<1> HIDE DEF v
<1>5. CASE Without(w, v, {})
  <2>1. Good(v, C, C, leaving, gone)
    BY <1>1, <1>5, WithoutGood
  <2> QED BY <2>1, <1>1, <1>2, After
<1>6. CASE w.entities[id].kind = "bag" /\ Without(w, v, {id})
  <2>1. "bag" \notin Players
    BY DEF Players
  <2>2. \A d \in C : w.avatar[d] \notin {id}
    BY <1>1, <1>6, <2>1, PlaysOwn
  <2>3. leaving \intersect {id} = {}
    BY <1>1, <1>6, <2>1 DEF Good, Consistent, Away
  <2>4. Good(v, C, C, leaving, gone)
    BY <1>1, <1>6, <2>2, <2>3, WithoutGood
  <2> QED BY <2>4, <1>1, <1>2, After
<1> QED BY <1>4, <1>5, <1>6

\* A step of a handler that has "active" from the server's own client.
LEMMA RejectKeeps ==
  ASSUME IInv, NEW parent \in Ids, NEW id \in Ids, Reject(parent, id)
  PROVE  IInv'
<1>0. PICK active \in Ids \union {NoId} :
         /\ active /= NoId => Alive(World, active) /\ entities[active].kind \in Weapons
         /\ Becomes(Rejected([World EXCEPT !.active = active], parent, id))
  BY DEF Reject
<1> DEFINE w == World
           C == connected
           u == [w EXCEPT !.active = active]
           v == Rejected(u, parent, id)
           P == {parent, u.entities[active].parent}
<1>1. /\ Good(w, C, C, leaving, gone) /\ w \in Worlds
      /\ SessionsOK(C, leaving, gone) /\ phase \in {"inprogress", "scores", "pending"}
      /\ phase = "pending" => C /= {}
  BY Now DEF IInv
<1>2. /\ MayReject(w, parent, id) /\ Becomes(v)
      /\ active /= NoId => Alive(w, active) /\ w.entities[active].kind \in Weapons
      /\ C' = C /\ gone' = gone /\ leaving' = leaving /\ phase' = phase
  BY <1>0 DEF Reject, Sessions, World
<1> HIDE DEF w
<1>3. /\ u \in Worlds /\ u.entities = w.entities /\ u.avatar = w.avatar
      /\ u.gameId = w.gameId /\ u.corpses = w.corpses /\ u.stopped = w.stopped
      /\ u.active = active
  BY <1>1 DEF Worlds
<1> HIDE DEF u
<1>4. Good(u, C, C, leaving, gone)
  BY <1>1, <1>3, SameGood
<1>5. Sound(u, {}) /\ ~ u.stopped
  BY <1>4 DEF Good, Consistent
<1>6. /\ Alive(u, parent) /\ Alive(u, id) /\ id \in ToSet(u.entities[parent].children)
  <2>1. Alive(u, parent) /\ Alive(u, id) /\ Contains(u.entities[parent].children, id)
    BY <1>2, <1>3 DEF MayReject, Alive
  <2>2. u.entities[parent].children \in Seq(Ids)
    BY <1>3, <2>1, EntityTypes DEF Alive
  <2>3. id \in ToSet(u.entities[parent].children)
    BY <2>1, <2>2, ToSetOf DEF Contains
  <2> QED BY <2>1, <2>3
<1>7. CASE u.entities[id].kind = "bag" /\ u.entities[parent].kind = "actor"
  <2>1. Hands(u)
    <3>1. Alive(u, active) => active /= NoId
      BY <1>3, EntityTypes, ServerAssumption DEF Alive
    <3> QED BY <3>1, <1>2, <1>3 DEF Hands
  <2>2. Out(u, v, parent, id, P)
    BY <1>3, <1>5, <1>6, <1>7, <2>1, RejectedBag
  <2> HIDE DEF v, P
  <2>3. Shuffled(u, v, P)
    BY <2>2 DEF Out, Shuffled
  <2>4. Good(v, C, C, leaving, gone)
    BY <1>4, <2>3, ShuffledGood
  <2> QED BY <2>4, <1>1, <1>2, After
<1>8. CASE ~ (u.entities[id].kind = "bag" /\ u.entities[parent].kind = "actor")
  <2>1. v = Dropped(u, parent, id)
    <3> SUFFICES ASSUME NEW X, X = {} PROVE v = Dropped(u, parent, id)
      OBVIOUS
    <3>1. Sound(u, X)
      BY <1>5
    <3> QED BY <3>1, <1>6, <1>8, RejectedPlain
  <2>2. Out(u, Dropped(u, parent, id), parent, id, {parent})
    BY <1>5, <1>6, PlainOut
  <2> HIDE DEF v
  <2>3. Shuffled(u, v, {parent})
    BY <2>1, <2>2 DEF Out, Shuffled
  <2>4. Good(v, C, C, leaving, gone)
    BY <1>4, <2>3, ShuffledGood
  <2> QED BY <2>4, <1>1, <1>2, After
<1> QED BY <1>7, <1>8

\* A GE_DESTROY keeps the invariant; a dead actor still holding its bag is
\* what the hypothesis excludes.
LEMMA DestroyKeeps ==
  ASSUME BagDropsFirst, IInv, NEW id \in Ids, Destroy(id)
  PROVE  IInv'
<1> DEFINE w == World
           C == connected
           v == Destroyed(w, id, Server)
           D == {id} \union ToSet(w.entities[id].children)
<1>1. /\ Good(w, C, C, leaving, gone) /\ w \in Worlds
      /\ SessionsOK(C, leaving, gone) /\ phase \in {"inprogress", "scores", "pending"}
      /\ phase = "pending" => C /= {}
  BY Now DEF IInv
<1>2. /\ Alive(w, id) /\ w.entities[id].owner = Server /\ Becomes(v)
      /\ \/ w.entities[id].kind \in Items \ {"bag"}
         \/ w.entities[id].kind = "bag" /\ w.entities[id].parent = NoId
         \/ /\ w.entities[id].kind = "actor"
            /\ \A c \in C : w.avatar[c] /= id
            /\ \A i \in ToSet(w.entities[id].children) :
                  ~ (Alive(w, i) /\ w.entities[i].kind = "bag")
      /\ C' = C /\ gone' = gone /\ leaving' = leaving /\ phase' = phase
  BY DEF Destroy, HasBag, Sessions, World, Alive
<1> HIDE DEF w
<1>3. /\ Sound(w, {}) /\ ~ w.stopped /\ Distinct(w.corpses)
      /\ \A i \in ToSet(w.entities[id].children) : Alive(w, i) /\ w.entities[i].kind \in Items
  BY <1>1, <1>2 DEF Good, Consistent, Bodies, Sound, Tree, Alive
<1>4. w.entities[id].kind = "actor" => w.gameId[Server] /= id
  <2> SUFFICES ASSUME w.entities[id].kind = "actor" PROVE w.gameId[Server] /= id
    OBVIOUS
  <2>1. \A c \in C : w.avatar[c] /= id
    BY <1>2 DEF Items, Weapons
  <2>2. CASE Server \in C
    BY <1>1, <2>1, <2>2, PlaysOwn
  <2>3. CASE Server \notin C
    BY <1>1, <1>2, <2>3, EntityTypes, ServerAssumption DEF Good, Idle, Alive
  <2> QED BY <2>2, <2>3
<1>5. Destroyable(w, id)
  <2>1. w.entities[id].kind = "actor" =>
          \A i \in ToSet(w.entities[id].children) : w.entities[i].kind /= "bag"
    BY <1>2, <1>3 DEF Items, Weapons
  <2>2. w.entities[id].parent /= NoId => w.entities[id].kind /= "bag"
    BY <1>2
  <2> QED BY <1>2, <1>3, <1>4, <2>1, <2>2 DEF Destroyable
<1>6. Without(w, v, D)
  BY <1>5, DestroyedFacts
<1>7. \A i \in ToSet(w.entities[id].children) : w.entities[i].kind \notin Players
  BY <1>3 DEF Players, Items, Weapons
<1>8. \A c \in C : w.avatar[c] /= id
  <2>1. w.entities[id].kind = "actor" \/ w.entities[id].kind \notin Players
    BY <1>2 DEF Players, Items, Weapons
  <2> QED BY <2>1, <1>1, <1>2, PlaysOwn DEF Items, Weapons
<1>9. \A c \in C : w.avatar[c] \notin D
  BY <1>1, <1>7, <1>8, PlaysOwn
<1>10. leaving \intersect D = {}
  <2>1. id \notin leaving
    BY <1>1, <1>2 DEF Good, Consistent, Away
  <2>2. \A i \in ToSet(w.entities[id].children) : i \notin leaving
    BY <1>1, <1>7 DEF Good, Consistent, Away
  <2> QED BY <2>1, <2>2
<1>11. D \subseteq Ids
  BY <1>1, <1>2, <1>3, EntityTypes DEF Alive
<1> HIDE DEF v, D
<1>12. Good(v, C, C, leaving, gone)
  BY <1>1, <1>6, <1>9, <1>10, <1>11, WithoutGood
<1> QED BY <1>1, <1>2, <1>12, After

\* Respawning keeps the invariant, for any loadout.
LEMMA RespawnKeeps ==
  ASSUME IInv, NEW c \in Clients, NEW force \in BOOLEAN, NEW loadout \in Loadouts,
         Respawn(c, force, loadout)
  PROVE  IInv'
<1> DEFINE w == World
           C == connected
           old == w.avatar[c]
           m == Len(loadout)
           u == RespawnPlayer(w, c, force)
           v == Armed(u, c, loadout)
<1>1. /\ Good(w, C, C, leaving, gone) /\ w \in Worlds
      /\ SessionsOK(C, leaving, gone) /\ phase \in {"inprogress", "scores", "pending"}
      /\ phase = "pending" => C /= {}
  BY Now DEF IInv
<1>2. /\ c \in C /\ Becomes(v)
      /\ Spare(w) >= IF w.entities[old].kind = "spectator" THEN 1 + m
                     ELSE IF force THEN 2 + m ELSE 1
      /\ C' = C /\ gone' = gone /\ leaving' = leaving /\ phase' = phase
  BY DEF Respawn, EnoughIds, Spare, Sessions, World
<1> HIDE DEF w
<1>3. w.entities[old].kind = "actor" \/ w.entities[old].kind = "spectator"
  BY <1>1, <1>2, PlaysOwn DEF Players
<1>4. Spare(w) >= IF w.entities[old].kind /= "actor" THEN 1 + m
                  ELSE IF force THEN 2 + m ELSE 1
  <2>1. CASE w.entities[old].kind = "spectator"
    BY <2>1, <1>2
  <2>2. CASE w.entities[old].kind = "actor" /\ force
    BY <2>2, <1>2
  <2>3. CASE w.entities[old].kind = "actor" /\ ~ force
    BY <2>3, <1>2
  <2> QED BY <1>3, <2>1, <2>2, <2>3
<1>5. m \in Nat
  BY ServerAssumption, LenProperties
<1>6. /\ Good(u, C, C, leaving, gone)
      /\ u.entities[u.avatar[c]].kind = "actor" => Equipped(u, C, C, leaving, gone, c, m)
  BY <1>1, <1>2, <1>4, <1>5, RespawnFacts
<1> HIDE DEF u
<1>7. u.entities[u.avatar[c]].kind = "actor" =>
         Spare(u) >= Len(loadout) /\ KindsIn(u, u.avatar[c], {"bag"})
  BY <1>6 DEF Equipped
<1>8. Good(v, C, C, leaving, gone)
  BY <1>2, <1>6, <1>7, ArmedFacts
<1> HIDE DEF v
<1> QED BY <1>1, <1>2, <1>8, After

\* A client that leaves keeps its entity until the delayed event.
LEMMA DisconnectKeeps ==
  ASSUME IInv, NEW c \in Clients, Disconnect(c)
  PROVE  IInv'
<1> DEFINE w == World
           C == connected
           a == [w.avatar EXCEPT ![c] = NoId]
           g == [w.gameId EXCEPT ![c] = NoId]
           v == [w EXCEPT !.avatar = a, !.gameId = g]
           L == leaving \union {w.gameId[c]}
           G == gone \union {c}
<1>1. /\ Good(w, C, C, leaving, gone) /\ w \in Worlds
      /\ SessionsOK(C, leaving, gone) /\ phase \in {"inprogress", "scores", "pending"}
      /\ phase = "pending" => C /= {}
  BY Now DEF IInv
<1>2. /\ c \in C \ {Server} /\ Becomes(v) /\ C' = C \ {c}
      /\ gone' = G /\ leaving' = L /\ phase' = phase
  BY DEF Disconnect, Becomes, World
<1> HIDE DEF w
<1>3. /\ w.avatar \in [Clients -> Ids \union {NoId}] /\ w.gameId \in [Clients -> Ids \union {NoId}]
  BY <1>1 DEF Worlds
<1>4. /\ a \in [Clients -> Ids \union {NoId}] /\ g \in [Clients -> Ids \union {NoId}]
      /\ a[c] = NoId /\ g[c] = NoId
      /\ \A d \in Clients \ {c} : a[d] = w.avatar[d] /\ g[d] = w.gameId[d]
  BY <1>3
<1> HIDE DEF a, g
<1>5. /\ v \in Worlds /\ v.entities = w.entities /\ v.avatar = a
      /\ v.gameId = g /\ v.corpses = w.corpses /\ v.stopped = w.stopped
  BY <1>1, <1>4 DEF Worlds
<1> HIDE DEF v
<1>6. /\ Alive(w, w.avatar[c]) /\ w.avatar[c] \in Ids
      /\ w.entities[w.avatar[c]].kind \in Players
      /\ w.entities[w.avatar[c]].owner = c /\ w.gameId[c] = w.avatar[c] /\ c \in Clients
  BY <1>1, <1>2, PlaysOwn
<1>7. SessionsOK(C \ {c}, L, G)
  BY <1>1, <1>2, <1>6 DEF SessionsOK
<1>8. phase = "pending" => C \ {c} /= {}
  BY <1>1, <1>2 DEF SessionsOK
<1>9. Good(w, C \ {c}, C, leaving, gone)
  BY <1>1, FewerGood
<1>10. Sound(v, {})
  BY <1>1, <1>5, SoundSame DEF Good, Consistent
<1>11. C \ {c} \subseteq Clients \ {c}
  BY <1>7 DEF SessionsOK
<1>12. Playing(v, C \ {c})
  BY <1>4, <1>5, <1>9, <1>11 DEF Good, Consistent, Playing, Alive
<1>13. Bodies(v, C \ {c})
  BY <1>4, <1>5, <1>9, <1>11 DEF Good, Consistent, Bodies, Alive
<1>14. Away(v, L, G)
  BY <1>5, <1>6, <1>1 DEF Good, Consistent, Away, Alive
<1>15. Idle(v, C \ {c})
  BY <1>1, <1>4, <1>5 DEF Good, Idle
<1>16. Good(v, C \ {c}, C \ {c}, L, G)
  BY <1>5, <1>7, <1>1, <1>10, <1>12, <1>13, <1>14, <1>15 DEF Good, Consistent, SessionsOK
<1> HIDE DEF L, G
<1> QED BY <1>1, <1>2, <1>7, <1>8, <1>16, After

\* The delayed event makes a body of what is still there.
LEMMA PlayerDisconnectedKeeps ==
  ASSUME IInv, NEW id \in Ids, PlayerDisconnected(id)
  PROVE  IInv'
<1> DEFINE w == World
           C == connected
           M == leaving \ {id}
           u == AllowDeadBodyRemove(w, id)
           v == IF Alive(u, id) THEN [u EXCEPT !.corpses = Append(@, id)] ELSE u
<1>1. /\ Good(w, C, C, leaving, gone) /\ w \in Worlds
      /\ SessionsOK(C, leaving, gone) /\ phase \in {"inprogress", "scores", "pending"}
      /\ phase = "pending" => C /= {}
  BY Now DEF IInv
<1>2. /\ id \in leaving /\ Becomes(v) /\ C' = C
      /\ gone' = gone /\ leaving' = M /\ phase' = phase
  BY DEF PlayerDisconnected
<1> HIDE DEF w
<1>3. /\ Alive(w, id) /\ w.entities[id].kind \in Players /\ w.entities[id].owner \in gone
  BY <1>1, <1>2 DEF Good, Consistent, Away
<1>4. id \notin ToSet(w.corpses)
  BY <1>1, <1>3 DEF Good, Consistent, Bodies
<1>5. \A d \in C : w.avatar[d] /= id
  BY <1>1, <1>2, PlaysOwn
<1>6. Good(w, C, C, M, gone)
  BY <1>1, FewerGood
<1>7. id \notin M
  OBVIOUS
<1> HIDE DEF M
<1>8. Good(Body(w, id), C, C, M, gone) /\ DOMAIN Body(w, id).entities = DOMAIN w.entities
  BY <1>3, <1>4, <1>5, <1>6, <1>7, BodyGood
<1>9. Body(w, id) = [u EXCEPT !.corpses = Append(@, id)]
  BY DEF Body
<1>10. Alive(u, id)
  <2>1. Freed(w, u, id)
    BY <1>1, <1>3, FreedFacts DEF AllowDeadBodyRemove
  <2> HIDE DEF u
  <2> QED BY <2>1, <1>3 DEF Freed, Alive
<1>11. v = Body(w, id)
  BY <1>9, <1>10
<1> HIDE DEF u, v
<1>12. Good(v, C, C, M, gone)
  BY <1>8, <1>11
<1>13. SessionsOK(C, M, gone)
  BY <1>1 DEF SessionsOK, M
<1> QED BY <1>1, <1>2, <1>12, <1>13, After

-----------------------------------------------------------------------------
(* The list of bodies.                                                     *)

\* The loop of CorpsesUpdated.
VisitTimes(x, n) == Repeat(n, VisitCorpse, x)

\* The loop over the bodies is what Repeat computes.
LEMMA VisitsRun ==
  ASSUME NEW n \in Nat, NEW W, NEW w \in W, NEW step \in Steps(W, n),
         \A v \in W, k \in 1..n : step[<<v, k>>] = VisitCorpse(v)
  PROVE  \E r \in Runs(W, w, n, step) : r[n] = VisitTimes(w, n)
<1>1. Loops(W, w, n, step) /= {}
  BY LoopExists
<1>2. PICK it \in Loops(W, w, n, step) : TRUE
  BY <1>1
<1>3. \A s \in Visits(n) : s /= {} => Max(s) \in 1..n /\ s \ {Max(s)} \in Visits(n)
  BY GreatestOf DEF Visits
<1> DEFINE places == [i \in 1..n |-> i]
<1>4. it = [s \in SUBSET DOMAIN places |-> IF s = {} THEN w
               ELSE VisitCorpse(it[s \ {Max(s)}])]
  BY <1>2, <1>3 DEF Visits, Loops
<1>5. PICK iter :
         /\ iter = [s \in SUBSET DOMAIN places |-> IF s = {} THEN w
                       ELSE VisitCorpse(iter[s \ {Max(s)}])]
         /\ VisitTimes(w, n) = iter[DOMAIN places]
  BY <1>4, Zenon DEF VisitTimes, Repeat, FoldLeft, MapThenFoldSet
<1>6. LoopIn(W, w, n, step, iter)
  BY <1>3, <1>5 DEF Visits, LoopIn
<1>7. PICK r \in Runs(W, w, n, step) : iter[1..n] = r[n]
  BY <1>6, LoopRuns
<1> QED BY <1>5, <1>7

\* The list loses some of its bodies.
LEMMA UnlistedGood ==
  ASSUME NEW w, NEW C, NEW I, NEW L, NEW G, Good(w, C, I, L, G),
         NEW q \in Seq(Ids), ToSet(q) \subseteq ToSet(w.corpses), Distinct(q)
  PROVE  Good([w EXCEPT !.corpses = q], C, I, L, G)
<1> DEFINE v == [w EXCEPT !.corpses = q]
<1>1. w \in Worlds /\ Sound(w, {})
  BY DEF Good, Consistent, Sound
<1>2. /\ v \in Worlds /\ v.entities = w.entities /\ v.avatar = w.avatar
      /\ v.gameId = w.gameId /\ v.corpses = q /\ v.stopped = w.stopped
  BY <1>1 DEF Worlds
<1> HIDE DEF v
<1>3. Sound(v, {})
  BY <1>1, <1>2, SoundSame
<1>4. Playing(v, C) /\ Idle(v, I) /\ ~ v.stopped
  BY <1>2 DEF Good, Consistent, Playing, Idle, Alive
<1>5. Bodies(v, C) /\ Away(v, L, G)
  BY <1>2 DEF Good, Consistent, Bodies, Away, Alive
<1>6. Good(v, C, I, L, G)
  BY <1>3, <1>4, <1>5 DEF Good, Consistent
<1> QED BY <1>6 DEF v

\* A list without its last member.
LEMMA FrontFacts ==
  ASSUME NEW S, NEW s \in Seq(S), s /= <<>>, Distinct(s)
  PROVE  Front(s) \in Seq(S) /\ ToSet(Front(s)) \subseteq ToSet(s) /\ Distinct(Front(s))
<1> DEFINE n == Len(s)
           t == Front(s)
<1>1. n \in Nat \ {0} /\ s \in [1..n -> S]
  BY EndsOf, LenProperties
<1>2. t = SubSeq(s, 1, n - 1)
  BY DEF Front
<1>3. /\ t \in Seq(S) /\ Len(t) = n - 1 /\ \A i \in 1..(n - 1) : t[i] = s[i]
  BY <1>1, <1>2, SubSeqProperties
<1> HIDE DEF t, n
<1>4. ToSet(t) = {t[i] : i \in 1..(n - 1)} /\ ToSet(s) = {s[i] : i \in 1..n}
  BY <1>3, ToSetOf DEF n
<1>5. 1..(n - 1) \subseteq 1..n
  BY <1>1
<1>6. ToSet(t) \subseteq ToSet(s)
  BY <1>3, <1>4, <1>5
<1>7. Distinct(t)
  BY <1>3, <1>5 DEF Distinct, n
<1> QED BY <1>3, <1>6, <1>7 DEF t

\* Erasing from the list of bodies brings in nobody new and none twice.
LEMMA ErasedFacts ==
  ASSUME NEW w, NEW S, NEW s \in Seq(S), Distinct(s), NEW i \in Nat \ {0}
  PROVE  Erased(w, s, i) \in Seq(S) /\ ToSet(Erased(w, s, i)) \subseteq ToSet(s)
         /\ Distinct(Erased(w, s, i))
<1>1. CASE i <= Len(s)
  <2>1. Len(s) \in Nat
    BY LenProperties
  <2>2. i \in 1..Len(s)
    BY <2>1, <1>1
  <2> QED BY <2>2, <1>1, RemovedFacts DEF Erased
<1>2. CASE ~ (i <= Len(s)) /\ w.shortens /\ s /= <<>>
  BY <1>2, FrontFacts DEF Erased
<1>3. CASE ~ (i <= Len(s)) /\ ~ (w.shortens /\ s /= <<>>)
  BY <1>3 DEF Erased
<1> QED BY <1>1, <1>2, <1>3

\* A body with nothing inside can be destroyed.
LEMMA BodyDestroyed ==
  ASSUME NEW w, NEW C, NEW I, NEW L, NEW G, Good(w, C, I, L, G), C = I,
         NEW id \in ToSet(w.corpses), w.entities[id].children = <<>>
  PROVE  Good(Destroyed(w, id, Server), C, I, L, G)
<1>1. /\ Sound(w, {}) /\ ~ w.stopped /\ Distinct(w.corpses) /\ Alive(w, id)
      /\ w.entities[id].kind \in Players /\ w.entities[id].owner = Server
      /\ \A c \in C : w.avatar[c] /= id
  BY DEF Good, Consistent, Bodies
<1>2. id \in Ids /\ id /= NoId
  BY <1>1, EntityTypes, ServerAssumption DEF Sound, Alive
<1>3. w.gameId[Server] /= id
  <2>1. CASE Server \in C
    BY <1>1, <2>1, PlaysOwn
  <2>2. CASE Server \notin C
    BY <1>2, <2>2, ServerAssumption DEF Good, Idle
  <2> QED BY <2>1, <2>2
<1>4. ToSet(w.entities[id].children) = {}
  BY EmptyFacts
<1>5. w.entities[id].kind /= "bag"
  BY <1>1 DEF Players
<1>6. Destroyable(w, id)
  BY <1>1, <1>3, <1>4, <1>5 DEF Destroyable
<1>7. {id} \union {} = {id}
  OBVIOUS
<1>8. Without(w, Destroyed(w, id, Server), {id})
  BY <1>4, <1>6, <1>7, DestroyedFacts
<1>9. L \intersect {id} = {}
  BY <1>1 DEF Good, Consistent, Away
<1>10. {id} \subseteq Ids /\ \A c \in C : w.avatar[c] \notin {id}
  BY <1>1, <1>2
<1> QED BY <1>8, <1>9, <1>10, WithoutGood

\* One round over the bodies.
LEMMA VisitGood ==
  ASSUME NEW C, NEW L, NEW G,
         NEW x \in [world : Worlds, i : Nat \ {0}], Good(x.world, C, C, L, G)
  PROVE  /\ VisitCorpse(x) \in [world : Worlds, i : Nat \ {0}]
         /\ Good(VisitCorpse(x).world, C, C, L, G)
<1> DEFINE w == x.world
           k == x.i
           id == w.corpses[k]
           d == Destroyed(w, id, Server)
           q == Erased(w, d.corpses, k)
           u == [d EXCEPT !.corpses = q]
<1>1. w \in Worlds /\ k \in Nat \ {0} /\ w.corpses \in Seq(Ids) /\ Len(w.corpses) \in Nat
  <2>1. w \in Worlds /\ k \in Nat \ {0}
    OBVIOUS
  <2>2. w.corpses \in Seq(Ids)
    BY <2>1 DEF Worlds
  <2> QED BY <2>1, <2>2, LenProperties
<1>2. CASE k > Len(w.corpses) \/ Len(w.corpses) <= MaxCorpses \/ w.stopped
  BY <1>2 DEF VisitCorpse
<1>3. CASE ~ (k > Len(w.corpses) \/ Len(w.corpses) <= MaxCorpses \/ w.stopped)
  <2>1. id \in ToSet(w.corpses)
    <3>1. k \in 1..Len(w.corpses)
      BY <1>1, <1>3
    <3> QED BY <3>1, <1>1, ToSetOf
  <2>2. Alive(w, id)
    BY <2>1 DEF Good, Consistent, Bodies
  <2>3. CASE w.entities[id].children /= <<>>
    <3>1. VisitCorpse(x) = [x EXCEPT !.i = @ + 1]
      BY <1>3, <2>2, <2>3 DEF VisitCorpse
    <3>2. [x EXCEPT !.i = @ + 1] \in [world : Worlds, i : Nat \ {0}]
          /\ [x EXCEPT !.i = @ + 1].world = w
      BY <1>1
    <3> QED BY <3>1, <3>2
  <2>4. CASE w.entities[id].children = <<>>
    <3>1. VisitCorpse(x) = [x EXCEPT !.world = u]
      BY <1>3, <2>2, <2>4 DEF VisitCorpse
    <3>2. Good(d, C, C, L, G)
      BY <2>1, <2>4, BodyDestroyed
    <3>3. d.corpses \in Seq(Ids) /\ Distinct(d.corpses)
      BY <3>2 DEF Good, Consistent, Sound, Bodies, Worlds
    <3>4. q \in Seq(Ids) /\ ToSet(q) \subseteq ToSet(d.corpses) /\ Distinct(q)
      BY <1>1, <3>3, ErasedFacts
    <3> HIDE DEF q, d, w
    <3>5. Good(u, C, C, L, G)
      BY <3>2, <3>4, UnlistedGood
    <3>6. u \in Worlds
      BY <3>5 DEF Good, Consistent, Sound
    <3> HIDE DEF u
    <3>7. [x EXCEPT !.world = u] \in [world : Worlds, i : Nat \ {0}]
          /\ [x EXCEPT !.world = u].world = u
      BY <3>6
    <3> QED BY <3>1, <3>5, <3>7
  <2> QED BY <2>3, <2>4
<1> QED BY <1>2, <1>3

\* The whole loop over the bodies.
LEMMA CorpsesUpdatedGood ==
  ASSUME NEW w, NEW C, NEW L, NEW G, Good(w, C, C, L, G)
  PROVE  Good(CorpsesUpdated(w), C, C, L, G)
<1> DEFINE n == Len(w.corpses)
           W == {x \in [world : Worlds, i : Nat \ {0}] : Good(x.world, C, C, L, G)}
           s == [world |-> w, i |-> 1]
           step == [x \in W \X (1..n) |-> VisitCorpse(x[1])]
           V == [k \in 0..n |-> W]
<1>1. w \in Worlds /\ n \in Nat
  <2>1. w \in Worlds
    BY DEF Good, Consistent, Sound
  <2>2. w.corpses \in Seq(Ids)
    BY <2>1 DEF Worlds
  <2> QED BY <2>1, <2>2, LenProperties
<1>2. s \in W
  BY <1>1
<1>3. \A x \in W : VisitCorpse(x) \in W
  BY VisitGood
<1>4. \A x \in W : Good(x.world, C, C, L, G)
  OBVIOUS
<1> HIDE DEF W
<1>5. step \in Steps(W, n) /\ \A v \in W, k \in 1..n : step[<<v, k>>] = VisitCorpse(v)
  BY <1>3 DEF Steps
<1> HIDE DEF step, s
<1>6. PICK r \in Runs(W, s, n, step) : r[n] = VisitTimes(s, n)
  BY <1>1, <1>2, <1>5, VisitsRun
<1>7. r[n] \in W
  <2>1. r \in [0..n -> W] /\ n \in 0..n
    BY <1>1 DEF Runs
  <2> QED BY <2>1
<1>8. CorpsesUpdated(w) = VisitTimes(s, n).world
  BY DEF CorpsesUpdated, VisitTimes, s
<1> QED BY <1>4, <1>6, <1>7, <1>8

\* Cleaning the bodies up keeps the invariant.
LEMMA UpdateCorpsesKeeps ==
  ASSUME IInv, NEW shortens \in BOOLEAN, UpdateCorpses(shortens)
  PROVE  IInv'
<1> DEFINE w == World
           C == connected
           u == [w EXCEPT !.shortens = shortens]
           v == CorpsesUpdated(u)
<1>1. /\ Good(w, C, C, leaving, gone) /\ w \in Worlds
      /\ SessionsOK(C, leaving, gone) /\ phase \in {"inprogress", "scores", "pending"}
      /\ phase = "pending" => C /= {}
  BY Now DEF IInv
<1>2. /\ Becomes(v)
      /\ C' = C /\ gone' = gone /\ leaving' = leaving /\ phase' = phase
  BY DEF UpdateCorpses, Sessions
<1> HIDE DEF w
<1>3. /\ u \in Worlds /\ u.entities = w.entities /\ u.avatar = w.avatar
      /\ u.gameId = w.gameId /\ u.corpses = w.corpses /\ u.stopped = w.stopped
  BY <1>1 DEF Worlds
<1> HIDE DEF u
<1>4. Good(u, C, C, leaving, gone)
  BY <1>1, <1>3, SameGood
<1>5. Good(v, C, C, leaving, gone)
  BY <1>4, CorpsesUpdatedGood
<1> HIDE DEF v
<1> QED BY <1>1, <1>2, <1>5, After

-----------------------------------------------------------------------------
(* Everybody becomes a spectator.                                          *)

\* Spawning a player keeps the types.
LEMMA SpawnPlayerTyped ==
  ASSUME NEW w \in Worlds, NEW c \in Clients, NEW kind \in Players
  PROVE  SpawnPlayer(w, c, kind) \in Worlds
<1> DEFINE u == Spawned(w, kind, NoId, c, TRUE)
           d == [u.dead EXCEPT ![c] = kind /= "actor"]
           g == [u.gameId EXCEPT ![c] = u.avatar[c]]
           v == SpawnPlayer(w, c, kind)
<1>1. u \in Worlds
  <2>1. CASE FreeIds(w) = {}
    <3>1. u = Stop(w)
      BY <2>1 DEF Spawned
    <3> QED BY <3>1, Stopped
  <2>2. CASE FreeIds(w) /= {}
    <3>1. kind \in Kinds
      BY DEF Players, Kinds
    <3> QED BY <2>2, <3>1, SpawnedAlone DEF Added
  <2> QED BY <2>1, <2>2
<1>2. v = [u EXCEPT !.dead = d, !.gameId = g]
  BY DEF SpawnPlayer
<1> HIDE DEF u, v
<1>3. /\ u.avatar \in [Clients -> Ids \union {NoId}]
      /\ u.gameId \in [Clients -> Ids \union {NoId}]
      /\ u.dead \in [Clients -> BOOLEAN]
  BY <1>1 DEF Worlds
<1>4. g \in [Clients -> Ids \union {NoId}]
  BY <1>3
<1>5. d \in [Clients -> BOOLEAN]
  <2>1. (kind /= "actor") \in BOOLEAN
    OBVIOUS
  <2> QED BY <1>3, <2>1
<1> HIDE DEF g, d
<1>6. v \in Worlds
  BY <1>1, <1>2, <1>4, <1>5 DEF Worlds
<1> QED BY <1>6 DEF v

\* The clients in the order of net_players.
Order == <<Server>> \o SetToSeq(connected \ {Server})

\* The order in which all clients respawn has each of them once.
LEMMA OrderFacts ==
  ASSUME IsFiniteSet(connected), Server \in connected
  PROVE  /\ Len(Order) = Cardinality(connected) /\ Len(Order) \in Nat
         /\ DOMAIN Order = 1..Len(Order)
         /\ {Order[i] : i \in 1..Len(Order)} = connected
<1> DEFINE S == connected \ {Server}
           m == Cardinality(S)
           f == SetToSeq(S)
           q == Order
<1>1. IsFiniteSet(S) /\ m \in Nat /\ Cardinality(connected) = m + 1
  <2>1. IsFiniteSet(S) /\ m = Cardinality(connected) - 1
    BY FS_RemoveElement
  <2>2. Cardinality(connected) \in Nat /\ m \in Nat
    BY <2>1, FS_CardinalityType
  <2> QED BY <2>1, <2>2
<1>2. ExistsBijection(1..m, S)
  BY <1>1, FS_CardinalityType
<1>3. PICK b \in Bijection(1..m, S) : TRUE
  BY <1>2 DEF ExistsBijection
<1> HIDE DEF S, m
<1>4. b \in [1..m -> S] /\ IsInjective(b)
  BY <1>3 DEF Bijection, Injection, IsInjective
<1>5. f \in [1..m -> S] /\ IsInjective(f)
  BY <1>4 DEF SetToSeq, m
<1> HIDE DEF f
<1>6. f \in Injection(1..m, S)
  BY <1>5 DEF Injection, IsInjective
<1>7. Cardinality(1..m) = m
  BY <1>1, FS_Interval
<1>8. f \in Surjection(1..m, S)
  BY <1>1, <1>6, <1>7, FS_Injection DEF m
<1>9. S = {f[i] : i \in 1..m}
  BY <1>5, <1>8 DEF Surjection
<1>10. f \in Seq(S) /\ Len(f) = m
  BY <1>1, <1>5, SeqDef, LenProperties
<1>11. <<Server>> \in Seq(connected) /\ f \in Seq(connected)
  BY <1>10 DEF S
<1>12. /\ q \in Seq(connected) /\ Len(q) = m + 1
       /\ q[1] = Server /\ \A i \in 1..m : q[i + 1] = f[i]
  <2>1. q = <<Server>> \o f
    BY DEF Order, f, S
  <2>2. Len(<<Server>>) = 1 /\ <<Server>>[1] = Server
    OBVIOUS
  <2>3. /\ <<Server>> \o f \in Seq(connected) /\ Len(<<Server>> \o f) = 1 + m
        /\ \A i \in 1..(1 + m) :
              (<<Server>> \o f)[i] = IF i <= 1 THEN <<Server>>[i] ELSE f[i - 1]
    BY <1>10, <1>11, <2>2, ConcatProperties
  <2> HIDE DEF q
  <2>4. q[1] = Server
    BY <2>1, <2>2, <2>3, <1>1
  <2>5. ASSUME NEW i \in 1..m PROVE q[i + 1] = f[i]
    <3>1. i + 1 \in 1..(1 + m) /\ ~ (i + 1 <= 1) /\ i + 1 - 1 = i
      BY <1>1
    <3> QED BY <2>1, <2>3, <3>1
  <2> QED BY <1>1, <2>1, <2>3, <2>4, <2>5
<1> HIDE DEF q
<1>13. DOMAIN q = 1..(m + 1)
  BY <1>12, LenProperties
<1>14. {q[i] : i \in 1..(m + 1)} = connected
  <2>1. ASSUME NEW i \in 1..(m + 1) PROVE q[i] \in connected
    BY <1>12, <1>13
  <2>2. ASSUME NEW c \in connected PROVE \E i \in 1..(m + 1) : q[i] = c
    <3>1. CASE c = Server
      BY <3>1, <1>1, <1>12
    <3>2. CASE c /= Server
      <4>1. PICK i \in 1..m : f[i] = c
        BY <3>2, <1>9 DEF S
      <4>2. i + 1 \in 1..(m + 1)
        BY <1>1
      <4> QED BY <4>1, <4>2, <1>12
    <3> QED BY <3>1, <3>2
  <2> QED BY <2>1, <2>2
<1> QED BY <1>1, <1>12, <1>13, <1>14 DEF q

\* The loop over all clients is what the fold computes.
LEMMA AllRun ==
  ASSUME NEW n \in Nat, DOMAIN Order = 1..n,
         NEW W, NEW w \in W, NEW step \in Steps(W, n),
         \A v \in W, k \in 1..n : step[<<v, k>>] = SpawnPlayer(v, Order[k], "spectator")
  PROVE  \E r \in Runs(W, w, n, step) : r[n] = AllRespawned(w)
<1>1. Loops(W, w, n, step) /= {}
  BY LoopExists
<1>2. PICK it \in Loops(W, w, n, step) : TRUE
  BY <1>1
<1>3. \A s \in Visits(n) : s /= {} => Max(s) \in 1..n /\ s \ {Max(s)} \in Visits(n)
  BY GreatestOf DEF Visits
<1>4. it = [s \in SUBSET DOMAIN Order |-> IF s = {} THEN w
               ELSE SpawnPlayer(it[s \ {Max(s)}], Order[Max(s)], "spectator")]
  BY <1>2, <1>3 DEF Visits, Loops
<1>5. PICK iter :
         /\ iter = [s \in SUBSET DOMAIN Order |-> IF s = {} THEN w
                       ELSE SpawnPlayer(iter[s \ {Max(s)}], Order[Max(s)], "spectator")]
         /\ AllRespawned(w) = iter[DOMAIN Order]
  BY <1>4, Zenon DEF AllRespawned, FoldLeft, MapThenFoldSet, Order
<1>6. LoopIn(W, w, n, step, iter)
  BY <1>3, <1>5 DEF Visits, LoopIn
<1>7. PICK r \in Runs(W, w, n, step) : iter[1..n] = r[n]
  BY <1>6, LoopRuns
<1> QED BY <1>5, <1>7

\* After it every client plays a spectator of its own.
LEMMA AllRespawnedGood ==
  ASSUME NEW w, NEW C, NEW G, Good(w, C, connected, {}, G), Server \in connected,
         IsFiniteSet(connected), Spare(w) >= Cardinality(connected)
  PROVE  Good(AllRespawned(w), connected, connected, {}, G)
<1> DEFINE n == Len(Order)
           q == Order
           step == [x \in Worlds \X (1..n) |-> SpawnPlayer(x[1], q[x[2]], "spectator")]
           playing(k) == C \union {q[j] : j \in 1..k}
           good(k) == {v \in Worlds : /\ Good(v, playing(k), connected, {}, G)
                                      /\ Spare(v) >= n - k}
           V == [k \in 0..n |-> good(k)]
<1>1. /\ n = Cardinality(connected) /\ n \in Nat /\ DOMAIN q = 1..n
      /\ {q[i] : i \in 1..n} = connected
  BY OrderFacts
<1>2. w \in Worlds /\ C \subseteq connected /\ connected \subseteq Clients
  BY DEF Good, Consistent, Sound
<1>3. \A k \in 1..n : q[k] \in connected
  BY <1>1
<1>4. "spectator" \in Players
  BY DEF Players
<1>5. step \in Steps(Worlds, n)
  <2>1. \A v \in Worlds, k \in 1..n : SpawnPlayer(v, q[k], "spectator") \in Worlds
    BY <1>2, <1>3, <1>4, SpawnPlayerTyped
  <2> HIDE DEF q
  <2> QED BY <2>1 DEF Steps
<1>6. \A v \in Worlds, k \in 1..n : step[<<v, k>>] = SpawnPlayer(v, Order[k], "spectator")
  OBVIOUS
<1> HIDE DEF step, q, n
<1>7. PICK r \in Runs(Worlds, w, n, step) : r[n] = AllRespawned(w)
  BY <1>1, <1>2, <1>5, <1>6, AllRun DEF q
<1>8. w \in V[0]
  <2>1. playing(0) = C
    OBVIOUS
  <2>2. Spare(w) >= n - 0
    BY <1>1
  <2>3. Good(w, playing(0), connected, {}, G)
    BY <2>1
  <2> HIDE DEF playing
  <2>4. w \in good(0)
    BY <1>2, <2>2, <2>3
  <2>5. 0 \in 0..n
    BY <1>1
  <2> HIDE DEF good
  <2> QED BY <2>4, <2>5
<1>9. ASSUME NEW k \in 1..n, NEW v \in Worlds, v \in V[k - 1]
      PROVE  step[<<v, k>>] \in V[k]
  <2> DEFINE u == SpawnPlayer(v, q[k], "spectator")
  <2>1. k - 1 \in 0..n /\ k \in 0..n /\ 1..k = (1..(k - 1)) \union {k} /\ n - (k - 1) >= 1
    BY <1>1
  <2>2. Good(v, playing(k - 1), connected, {}, G) /\ Spare(v) >= n - (k - 1)
    BY <2>1, <1>9
  <2>3. FreeIds(v) /= {} /\ Spare(v) \in Nat
    <3>1. Spare(v) \in Nat
      BY SpareFacts
    <3>2. Spare(v) /= 0
      BY <2>1, <2>2, <1>1, <3>1
    <3> QED BY <3>1, <3>2, SpareFacts
  <2>4. playing(k) \ {q[k]} \subseteq playing(k - 1) /\ q[k] \in playing(k)
    BY <2>1
  <2> HIDE DEF playing
  <2>5. Good(v, playing(k) \ {q[k]}, connected, {}, G)
    BY <2>2, <2>4, FewerGood
  <2>6. Plays(v, u, playing(k), connected, {}, G, q[k], "spectator")
    BY <1>3, <1>4, <2>3, <2>4, <2>5, PlayerGood
  <2> HIDE DEF u
  <2>7. Good(u, playing(k), connected, {}, G) /\ Spare(u) = Spare(v) - 1
    BY <2>6 DEF Plays
  <2>8. Spare(u) >= n - k
    BY <1>1, <2>2, <2>3, <2>7
  <2>9. u \in good(k)
    BY <2>7, <2>8 DEF Good, Consistent, Sound
  <2> HIDE DEF good
  <2>10. step[<<v, k>>] = u
    BY <1>6 DEF u, q
  <2> QED BY <2>1, <2>9, <2>10
<1> HIDE DEF V
<1>10. r[n] \in V[n]
  <2>1. Leads(Worlds, n, step, V)
    BY <1>9 DEF Leads
  <2> QED BY <1>1, <1>8, <2>1, RunsTo
<1>11. Good(r[n], playing(n), connected, {}, G)
  BY <1>1, <1>10 DEF V
<1>12. playing(n) = connected
  BY <1>1, <1>2
<1> HIDE DEF playing
<1> QED BY <1>7, <1>11, <1>12

\* As many clients play as there are identifiers at most.
LEMMA PlayersFit ==
  ASSUME NEW w, NEW C, NEW I, NEW L, NEW G, Good(w, C, I, L, G)
  PROVE  IsFiniteSet(C) /\ Cardinality(C) <= Cardinality(Ids)
<1> DEFINE f == [c \in C |-> w.avatar[c]]
<1>1. \A c \in C : w.avatar[c] \in Ids /\ \A d \in C \ {c} : w.avatar[d] /= w.avatar[c]
  BY PlaysOwn
<1>2. f \in [C -> Ids] /\ IsInjective(f)
  BY <1>1 DEF IsInjective
<1> HIDE DEF f
<1>3. f \in Injection(C, Ids)
  BY <1>2 DEF Injection
<1> QED BY <1>3, ServerAssumption, FS_Injection

\* The end of a round keeps the invariant.
LEMMA RoundEndKeeps ==
  ASSUME IInv, RoundEnd
  PROVE  IInv'
<1> DEFINE w == World
           C == connected
           v == AllRespawned(w)
<1>1. /\ Good(w, C, C, leaving, gone) /\ w \in Worlds
      /\ SessionsOK(C, leaving, gone)
  BY Now
<1>2. /\ C /= {}
      /\ phase = "inprogress" => Spare(w) >= Cardinality(C)
      /\ Becomes(IF phase = "inprogress" THEN v ELSE w)
      /\ C' = C /\ gone' = gone /\ leaving' = {} /\ phase' = "pending"
  BY DEF RoundEnd, EnoughIds, Spare
<1> HIDE DEF w
<1>3. Good(w, C, C, {}, gone)
  BY <1>1, FewerGood
<1>4. Server \in C /\ SessionsOK(C, {}, gone)
  BY <1>1, <1>2 DEF SessionsOK
<1>5. IsFiniteSet(C)
  BY <1>1, PlayersFit
<1>6. phase = "inprogress" => Good(v, C, C, {}, gone)
  BY <1>2, <1>3, <1>4, <1>5, AllRespawnedGood
<1> HIDE DEF v
<1>7. CASE phase = "inprogress"
  BY <1>2, <1>4, <1>6, <1>7, After
<1>8. CASE phase /= "inprogress"
  BY <1>2, <1>3, <1>4, <1>8, After
<1> QED BY <1>7, <1>8

\* A limit that is exceeded changes the phase only.
LEMMA PlayerScoresKeeps ==
  ASSUME IInv, PlayerScores
  PROVE  IInv'
<1> DEFINE w == World
<1>1. Good(w, connected, connected, leaving, gone) /\ SessionsOK(connected, leaving, gone)
  BY Now
<1>2. /\ Becomes(w) /\ phase' = "scores"
      /\ connected' = connected /\ gone' = gone /\ leaving' = leaving
  BY DEF PlayerScores
<1> HIDE DEF w
<1> QED BY <1>1, <1>2, After

-----------------------------------------------------------------------------
(* The end of a round.                                                     *)

\* What holds while everything is destroyed; clients outside I play nothing.
Clearing(w, I) ==
    /\ Sound(w, {}) /\ ~ w.stopped
    /\ w.corpses = <<>> /\ w.active = NoId /\ Idle(w, I)

\* While the server is cleared, entities may go.
LEMMA ClearingLess ==
  ASSUME NEW w, NEW I, Clearing(w, I), NEW v, NEW D, Sound(v, {}), Reduced(w, v, D),
         NoId \notin D
  PROVE  Clearing(v, I)
<1>1. v \in Worlds /\ v.corpses \in Seq(Ids)
  BY DEF Sound, Worlds
<1>2. v.corpses = <<>>
  <2>1. ToSet(v.corpses) = ToSet(<<>>) \ D
    BY DEF Reduced, Clearing
  <2>2. ToSet(v.corpses) = {}
    BY <2>1, EmptyFacts
  <2> QED BY <1>1, <2>2, ToSetOf
<1>3. Idle(v, I)
  BY DEF Reduced, Clearing, Idle
<1> QED BY <1>2, <1>3 DEF Reduced, Clearing

\* While the server is cleared, entities may move.
LEMMA ClearingShuffled ==
  ASSUME NEW w, NEW I, Clearing(w, I), NEW v, NEW P, Shuffled(w, v, P)
  PROVE  Clearing(v, I)
BY DEF Shuffled, Regrouped, Clearing, Idle

\* The loops of ClearedWith.
InnerLast(v, id) == ClearLast(v, id, EntityDestroyed)
InnerTimes(w, id, n) == Repeat(n, LAMBDA v : ClearLast(v, id, EntityDestroyed), w)
RootLast(v, id) == ClearLast(v, id, InsideDestroyed)
RootTimes(w, id, n) == Repeat(n, LAMBDA v : ClearLast(v, id, InsideDestroyed), w)

\* The inner loop of a clearing is what Repeat computes.
LEMMA InnerRun ==
  ASSUME NEW id, NEW n \in Nat, NEW W, NEW w \in W, NEW step \in Steps(W, n),
         \A v \in W, k \in 1..n : step[<<v, k>>] = InnerLast(v, id)
  PROVE  \E r \in Runs(W, w, n, step) : r[n] = InnerTimes(w, id, n)
<1>1. Loops(W, w, n, step) /= {}
  BY LoopExists
<1>2. PICK it \in Loops(W, w, n, step) : TRUE
  BY <1>1
<1>3. \A s \in Visits(n) : s /= {} => Max(s) \in 1..n /\ s \ {Max(s)} \in Visits(n)
  BY GreatestOf DEF Visits
<1> DEFINE places == [i \in 1..n |-> i]
<1>4. it = [s \in SUBSET DOMAIN places |-> IF s = {} THEN w
               ELSE InnerLast(it[s \ {Max(s)}], id)]
  BY <1>2, <1>3 DEF Visits, Loops
<1>5. PICK iter :
         /\ iter = [s \in SUBSET DOMAIN places |-> IF s = {} THEN w
                       ELSE InnerLast(iter[s \ {Max(s)}], id)]
         /\ InnerTimes(w, id, n) = iter[DOMAIN places]
  BY <1>4, Zenon DEF InnerTimes, InnerLast, Repeat, FoldLeft, MapThenFoldSet
<1>6. LoopIn(W, w, n, step, iter)
  BY <1>3, <1>5 DEF Visits, LoopIn
<1>7. PICK r \in Runs(W, w, n, step) : iter[1..n] = r[n]
  BY <1>6, LoopRuns
<1> QED BY <1>5, <1>7

\* The loop over the children of a root is what Repeat computes.
LEMMA RootRun ==
  ASSUME NEW id, NEW n \in Nat, NEW W, NEW w \in W, NEW step \in Steps(W, n),
         \A v \in W, k \in 1..n : step[<<v, k>>] = RootLast(v, id)
  PROVE  \E r \in Runs(W, w, n, step) : r[n] = RootTimes(w, id, n)
<1>1. Loops(W, w, n, step) /= {}
  BY LoopExists
<1>2. PICK it \in Loops(W, w, n, step) : TRUE
  BY <1>1
<1>3. \A s \in Visits(n) : s /= {} => Max(s) \in 1..n /\ s \ {Max(s)} \in Visits(n)
  BY GreatestOf DEF Visits
<1> DEFINE places == [i \in 1..n |-> i]
<1>4. it = [s \in SUBSET DOMAIN places |-> IF s = {} THEN w
               ELSE RootLast(it[s \ {Max(s)}], id)]
  BY <1>2, <1>3 DEF Visits, Loops
<1>5. PICK iter :
         /\ iter = [s \in SUBSET DOMAIN places |-> IF s = {} THEN w
                       ELSE RootLast(iter[s \ {Max(s)}], id)]
         /\ RootTimes(w, id, n) = iter[DOMAIN places]
  BY <1>4, Zenon DEF RootTimes, RootLast, Repeat, FoldLeft, MapThenFoldSet
<1>6. LoopIn(W, w, n, step, iter)
  BY <1>3, <1>5 DEF Visits, LoopIn
<1>7. PICK r \in Runs(W, w, n, step) : iter[1..n] = r[n]
  BY <1>6, LoopRuns
<1> QED BY <1>5, <1>7

\* An item has nothing inside.
LEMMA InsideDestroyedLeaf ==
  ASSUME NEW w, NEW id, w.entities[id].children = <<>>, ~ w.stopped
  PROVE  InsideDestroyed(w, id) = EntityDestroyed(w, id)
<1> DEFINE v == InnerTimes(w, id, Len(w.entities[id].children))
           step == [x \in {w} \X (1..0) |-> x[1]]
<1>1. InsideDestroyed(w, id) = IF v.stopped THEN v ELSE EntityDestroyed(v, id)
  BY DEF InsideDestroyed, ClearedWith, InnerTimes
<1>2. v = InnerTimes(w, id, 0)
  BY EmptyFacts
<1> HIDE DEF v
<1>3. step \in Steps({w}, 0) /\ \A x \in {w}, k \in 1..0 : step[<<x, k>>] = InnerLast(x, id)
  BY DEF Steps
<1> HIDE DEF step
<1>4. PICK r \in Runs({w}, w, 0, step) : r[0] = InnerTimes(w, id, 0)
  BY <1>3, InnerRun
<1>5. r[0] = w
  BY DEF Runs
<1> QED BY <1>1, <1>2, <1>4, <1>5

\* The last child comes out with nothing inside ...
LEMMA LastOut ==
  ASSUME NEW w, NEW I, Clearing(w, I), NEW id, Alive(w, id), w.entities[id].parent = NoId,
         NEW child, child = Last(w.entities[id].children), w.entities[id].children /= <<>>
  PROVE  LET v == Rejected(w, id, child)
         IN  /\ Shuffled(w, v, {id}) /\ Clearing(v, I)
             /\ v.entities[child].parent = NoId /\ v.entities[child].children = <<>>
             /\ Len(v.entities[id].children) < Len(w.entities[id].children)
<1> DEFINE v == Rejected(w, id, child)
           c == w.entities[id].children
<1>1. /\ Sound(w, {}) /\ ~ w.stopped /\ w \in Worlds /\ id \in DOMAIN w.entities
      /\ c \in Seq(Ids) /\ DOMAIN w.entities \subseteq Ids
  BY EntityTypes DEF Clearing, Sound, Alive
<1>2. child \in ToSet(c) /\ child = c[Len(c)] /\ Len(c) \in Nat \ {0}
  BY <1>1, EndsOf
<1>3. /\ Alive(w, child) /\ w.entities[child].parent = id
      /\ w.entities[child].kind \in Items /\ id /= NoId /\ child /= id
  BY <1>1, <1>2, ServerAssumption DEF Sound, Tree
<1>4. w.entities[child].children = <<>>
  BY <1>1, <1>3 DEF Sound, Tree, Alive
<1>5. CASE w.entities[child].kind = "bag" /\ w.entities[id].kind = "actor"
  <2>1. Len(c) = 1
    <3> SUFFICES ASSUME Len(c) /= 1 PROVE FALSE
      OBVIOUS
    <3>1. Len(c) \in 2..Len(c)
      <4>1. \A m \in Nat \ {0} : m /= 1 => m \in 2..m
        OBVIOUS
      <4> HIDE DEF c
      <4> QED BY <4>1, <1>2
    <3>2. child \in Rest(c)
      BY <1>2, <3>1 DEF Rest
    <3> QED BY <1>1, <1>5, <3>2 DEF Sound, Bags
  <2>2. ToSet(c) = {child}
    <3>1. ToSet(c) = {c[i] : i \in 1..1}
      BY <1>1, <2>1, ToSetOf
    <3> QED BY <3>1, <1>2, <2>1
  <2>3. ~ Alive(w, w.active)
    BY <1>1, ServerAssumption DEF Clearing, Alive
  <2>4. Hands(w)
    BY <2>3 DEF Hands
  <2>5. Out(w, v, id, child, {id})
    BY <1>1, <1>2, <1>5, <2>3, <2>4, RejectedBag
  <2> HIDE DEF v
  <2>6. /\ Sound(v, {}) /\ Regrouped(w, v, {id}) /\ v.entities[child].parent = NoId
        /\ Len(v.entities[id].children) < Len(c)
    BY <2>5 DEF Out
  <2>7. child \in DOMAIN v.entities /\ v.entities[child].children \in Seq(Ids)
    BY <1>3, <2>6, EntityTypes DEF Regrouped, Alive
  <2>8. ASSUME NEW i \in ToSet(v.entities[child].children) PROVE FALSE
    <3>1. i \in DOMAIN w.entities /\ v.entities[i].parent = child
      BY <2>6, <2>7 DEF Sound, Tree, Alive, Regrouped
    <3>2. w.entities[i].parent = child \/ w.entities[i].parent = id
      BY <2>6, <3>1 DEF Regrouped
    <3>3. CASE w.entities[i].parent = child
      <4>1. child /= NoId
        BY <1>1, <1>3, ServerAssumption DEF Alive
      <4>2. i \in ToSet(w.entities[child].children)
        BY <1>1, <3>1, <3>3, <4>1 DEF Sound, Tree
      <4> QED BY <4>2, <1>4, EmptyFacts
    <3>4. CASE w.entities[i].parent = id
      <4>1. i \in ToSet(c)
        BY <1>1, <1>3, <3>1, <3>4 DEF Sound, Tree
      <4>2. i = child
        BY <4>1, <2>2
      <4> QED BY <4>2, <3>1, <2>6, <1>1, <1>3, ServerAssumption DEF Alive
    <3> QED BY <3>2, <3>3, <3>4
  <2>9. v.entities[child].children = <<>>
    BY <2>7, <2>8, ToSetOf
  <2>10. Shuffled(w, v, {id})
    BY <2>5 DEF Out, Shuffled
  <2>11. Clearing(v, I)
    BY <2>10, ClearingShuffled
  <2> QED BY <2>6, <2>9, <2>10, <2>11 DEF v
<1>6. CASE ~ (w.entities[child].kind = "bag" /\ w.entities[id].kind = "actor")
  <2>1. v = Dropped(w, id, child)
    <3> SUFFICES ASSUME NEW X, X = {} PROVE v = Dropped(w, id, child)
      OBVIOUS
    <3>1. Sound(w, X)
      BY <1>1
    <3> QED BY <3>1, <1>2, <1>6, RejectedPlain
  <2>2. Out(w, Dropped(w, id, child), id, child, {id}) /\ OneLess(w, Dropped(w, id, child), id, child)
    BY <1>1, <1>2, PlainOut
  <2> HIDE DEF v
  <2>3. Out(w, v, id, child, {id}) /\ OneLess(w, v, id, child)
    BY <2>1, <2>2
  <2>4. v.entities[child].children = <<>>
    BY <1>3, <1>4, <2>3 DEF OneLess, Alive
  <2>5. Shuffled(w, v, {id})
    BY <2>3 DEF Out, Shuffled
  <2>6. Clearing(v, I)
    BY <2>5, ClearingShuffled
  <2> QED BY <2>3, <2>4, <2>5, <2>6 DEF Out, v
<1> QED BY <1>5, <1>6

\* ... and is destroyed.
LEMMA RootLastFacts ==
  ASSUME NEW w, NEW I, Clearing(w, I), NEW id, Alive(w, id), w.entities[id].parent = NoId,
         w.entities[id].children /= <<>>
  PROVE  LET v == RootLast(w, id)
         IN  /\ Clearing(v, I) /\ Alive(v, id) /\ v.entities[id].parent = NoId
             /\ Len(v.entities[id].children) < Len(w.entities[id].children)
             /\ DOMAIN v.entities \subseteq DOMAIN w.entities
<1> DEFINE c == w.entities[id].children
           child == Last(c)
           u == Rejected(w, id, child)
           v == EntityDestroyed(u, child)
<1>1. /\ Sound(w, {}) /\ ~ w.stopped /\ w \in Worlds /\ id \in DOMAIN w.entities
      /\ c \in Seq(Ids) /\ DOMAIN w.entities \subseteq Ids
  BY EntityTypes DEF Clearing, Sound, Alive
<1>2. child \in ToSet(c)
  BY <1>1, EndsOf
<1>3. Alive(w, child) /\ w.entities[child].parent = id /\ id /= NoId /\ child /= id
  BY <1>1, <1>2, ServerAssumption DEF Sound, Tree
<1>4. /\ Shuffled(w, u, {id}) /\ Clearing(u, I)
      /\ u.entities[child].parent = NoId /\ u.entities[child].children = <<>>
      /\ Len(u.entities[id].children) < Len(c)
  BY LastOut
<1>5. RootLast(w, id) = InsideDestroyed(u, child)
  BY <1>1, <1>3 DEF RootLast, ClearLast
<1> HIDE DEF u, child
<1>6. RootLast(w, id) = v
  BY <1>4, <1>5, InsideDestroyedLeaf DEF Clearing
<1>7. /\ DOMAIN u.entities = DOMAIN w.entities /\ u.entities[id].parent = NoId
      /\ Alive(u, child)
  BY <1>1, <1>3, <1>4 DEF Shuffled, Regrouped, Alive
<1>8. /\ Sound(v, {}) /\ Reduced(u, v, {child})
      /\ \A i \in DOMAIN v.entities : v.entities[i] = u.entities[i]
  <2>1. Sound(u, {}) /\ Distinct(u.corpses) /\ child \notin ToSet(u.corpses)
    BY <1>4, EmptyFacts DEF Clearing
  <2> QED BY <2>1, <1>4, <1>7, EntityDestroyedFacts
<1> HIDE DEF v
<1>9. Clearing(v, I)
  BY <1>1, <1>3, <1>4, <1>8, ClearingLess, ServerAssumption DEF Alive
<1>10. DOMAIN v.entities = DOMAIN w.entities \ {child}
  BY <1>7, <1>8 DEF Reduced
<1>11. v.entities[id] = u.entities[id] /\ Alive(v, id)
  BY <1>1, <1>3, <1>8, <1>10 DEF Alive
<1> QED BY <1>4, <1>6, <1>7, <1>9, <1>10, <1>11

\* What a root has inside is gone before it is.
LEMMA RootLoop ==
  ASSUME NEW w, NEW I, Clearing(w, I), NEW id, Alive(w, id), w.entities[id].parent = NoId
  PROVE  LET v == RootTimes(w, id, Len(w.entities[id].children))
         IN  /\ Clearing(v, I) /\ Alive(v, id) /\ v.entities[id].parent = NoId
             /\ v.entities[id].children = <<>>
             /\ DOMAIN v.entities \subseteq DOMAIN w.entities
<1> DEFINE n == Len(w.entities[id].children)
           W == {v \in Worlds : /\ Clearing(v, I) /\ Alive(v, id)
                                /\ v.entities[id].parent = NoId
                                /\ DOMAIN v.entities \subseteq DOMAIN w.entities}
           step == [x \in W \X (1..n) |-> RootLast(x[1], id)]
           good(k) == {v \in W : Len(v.entities[id].children) <= n - k}
           V == [k \in 0..n |-> good(k)]
<1>1. /\ w \in Worlds /\ n \in Nat
  <2>1. w \in Worlds /\ id \in DOMAIN w.entities
    BY DEF Clearing, Sound, Alive
  <2> QED BY <2>1, EntityTypes, LenProperties
<1>2. w \in W
  BY <1>1
<1>3. ASSUME NEW v \in W
      PROVE  LET d == v.entities[id].children
             IN  /\ Len(d) \in Nat /\ (d = <<>> <=> Len(d) = 0)
                 /\ d = <<>> => RootLast(v, id) = v
                 /\ d /= <<>> => /\ RootLast(v, id) \in W
                                 /\ Len(RootLast(v, id).entities[id].children) < Len(d)
                                 /\ Len(RootLast(v, id).entities[id].children) \in Nat
  <2> DEFINE d == v.entities[id].children
             u == RootLast(v, id)
  <2>1. Clearing(v, I) /\ Alive(v, id) /\ v.entities[id].parent = NoId /\ v \in Worlds
        /\ DOMAIN v.entities \subseteq DOMAIN w.entities
    OBVIOUS
  <2>2. d \in Seq(Ids)
    BY <2>1, EntityTypes DEF Alive
  <2>3. d = <<>> => u = v
    BY DEF RootLast, ClearLast
  <2>4. ASSUME d /= <<>>
        PROVE  u \in W /\ Len(u.entities[id].children) < Len(d)
               /\ Len(u.entities[id].children) \in Nat
    <3>1. /\ Clearing(u, I) /\ Alive(u, id) /\ u.entities[id].parent = NoId
          /\ Len(u.entities[id].children) < Len(d)
          /\ DOMAIN u.entities \subseteq DOMAIN v.entities
      BY <2>1, <2>4, RootLastFacts
    <3> HIDE DEF u, d
    <3>2. u \in Worlds
      BY <3>1 DEF Clearing, Sound
    <3>3. u.entities[id].children \in Seq(Ids)
      BY <3>1, <3>2, EntityTypes DEF Alive
    <3> QED BY <2>1, <3>1, <3>2, <3>3, LenProperties
  <2> HIDE DEF u, W
  <2>5. Len(d) \in Nat /\ (d = <<>> <=> Len(d) = 0)
    BY <2>2, ToSetOf
  <2> QED BY <2>3, <2>4, <2>5 DEF u
<1>4. \A v \in W : RootLast(v, id) \in W
  <2> HIDE DEF W
  <2> QED BY <1>3
<1>5. step \in Steps(W, n)
  <2> HIDE DEF W
  <2> QED BY <1>4 DEF Steps
<1>6. \A v \in W, k \in 1..n : step[<<v, k>>] = RootLast(v, id)
  OBVIOUS
<1>7. \A v \in W : /\ Clearing(v, I) /\ Alive(v, id) /\ v.entities[id].parent = NoId
                   /\ DOMAIN v.entities \subseteq DOMAIN w.entities
  OBVIOUS
<1> HIDE DEF step, W
<1>8. PICK r \in Runs(W, w, n, step) : r[n] = RootTimes(w, id, n)
  BY <1>1, <1>2, <1>5, <1>6, RootRun
<1>9. w \in V[0]
  <2>1. n <= n - 0 /\ 0 \in 0..n
    BY <1>1
  <2> QED BY <1>2, <2>1
<1>10. ASSUME NEW k \in 1..n, NEW v \in W, v \in V[k - 1]
       PROVE  step[<<v, k>>] \in V[k]
  <2> DEFINE u == RootLast(v, id)
  <2>1. k - 1 \in 0..n /\ k \in 0..n
    BY <1>1
  <2>2. Len(v.entities[id].children) <= n - (k - 1)
    BY <2>1, <1>10
  <2>3. Len(u.entities[id].children) <= n - k
    <3>1. CASE v.entities[id].children = <<>>
      <4>1. Len(u.entities[id].children) = 0
        BY <3>1, <1>3
      <4> QED BY <4>1, <1>1
    <3>2. CASE v.entities[id].children /= <<>>
      <4> DEFINE a == Len(u.entities[id].children)
                 b == Len(v.entities[id].children)
      <4>1. a \in Nat /\ b \in Nat /\ a < b /\ b <= n - (k - 1)
        BY <3>2, <1>3, <2>2
      <4> HIDE DEF a, b
      <4>2. a <= n - k
        BY <4>1, <1>1
      <4> QED BY <4>2 DEF a
    <3> QED BY <3>1, <3>2
  <2>4. u \in good(k)
    BY <1>4, <2>3
  <2> HIDE DEF good, u
  <2>5. step[<<v, k>>] = u
    BY <1>6 DEF u
  <2> QED BY <2>1, <2>4, <2>5
<1> HIDE DEF V
<1>11. r[n] \in V[n] /\ r[n] \in W
  <2>1. Leads(W, n, step, V)
    BY <1>10 DEF Leads
  <2> QED BY <1>1, <1>9, <2>1, RunsTo
<1>12. r[n] \in W /\ Len(r[n].entities[id].children) <= n - n
  <2> HIDE DEF n
  <2>1. n \in 0..n
    BY <1>1
  <2> QED BY <2>1, <1>11 DEF V
<1>13. r[n].entities[id].children = <<>>
  <2> DEFINE a == Len(r[n].entities[id].children)
  <2>1. a \in Nat /\ a <= n - n
    BY <1>3, <1>12
  <2> HIDE DEF a
  <2>2. a = 0
    BY <2>1, <1>1
  <2> QED BY <2>2, <1>3, <1>12 DEF a
<1>14. LET v == r[n] IN
         /\ Clearing(v, I) /\ Alive(v, id) /\ v.entities[id].parent = NoId
         /\ v.entities[id].children = <<>>
         /\ DOMAIN v.entities \subseteq DOMAIN w.entities
  BY <1>7, <1>12, <1>13
<1> QED BY <1>8, <1>14

\* Perform_destroy removes an entity that is in no other.
LEMMA PerformDestroyFacts ==
  ASSUME NEW w, NEW I, Clearing(w, I), NEW id, Alive(w, id), w.entities[id].parent = NoId
  PROVE  /\ Clearing(PerformDestroy(w, id), I)
         /\ DOMAIN PerformDestroy(w, id).entities \subseteq DOMAIN w.entities \ {id}
<1> DEFINE u == RootTimes(w, id, Len(w.entities[id].children))
           v == EntityDestroyed(u, id)
<1>1. PerformDestroy(w, id) = IF u.stopped THEN u ELSE v
  BY DEF PerformDestroy, ClearedWith, RootTimes
<1>2. /\ Clearing(u, I) /\ Alive(u, id) /\ u.entities[id].parent = NoId
      /\ u.entities[id].children = <<>>
      /\ DOMAIN u.entities \subseteq DOMAIN w.entities
  BY RootLoop
<1> HIDE DEF u
<1>3. PerformDestroy(w, id) = v
  BY <1>1, <1>2 DEF Clearing
<1>4. Sound(u, {}) /\ Distinct(u.corpses) /\ id \notin ToSet(u.corpses)
  BY <1>2, EmptyFacts DEF Clearing
<1>5. Sound(v, {}) /\ Reduced(u, v, {id})
  BY <1>2, <1>4, EntityDestroyedFacts
<1> HIDE DEF v
<1>6. NoId \notin {id}
  BY <1>2, <1>4, EntityTypes, ServerAssumption DEF Sound, Alive
<1>7. Clearing(v, I)
  BY <1>2, <1>5, <1>6, ClearingLess
<1>8. DOMAIN v.entities = DOMAIN u.entities \ {id}
  BY <1>5 DEF Reduced
<1> QED BY <1>2, <1>3, <1>7, <1>8

\* One round of SLS_Clear removes at least the root it finds.
LEMMA ClearRootFacts ==
  ASSUME NEW w, NEW I, Clearing(w, I), DOMAIN w.entities /= {}
  PROVE  /\ Clearing(ClearRoot(w), I)
         /\ \E id \in DOMAIN w.entities :
               DOMAIN ClearRoot(w).entities \subseteq DOMAIN w.entities \ {id}
<1> DEFINE roots == {id \in DOMAIN w.entities : w.entities[id].parent = NoId}
           root == CHOOSE id \in roots : \A r \in roots : id <= r
<1>1. Sound(w, {}) /\ ~ w.stopped /\ DOMAIN w.entities \subseteq Ids /\ w \in Worlds
  BY EntityTypes DEF Clearing, Sound
<1>2. roots /= {}
  <2>1. PICK id \in DOMAIN w.entities : TRUE
    OBVIOUS
  <2>2. CASE w.entities[id].parent = NoId
    BY <2>2
  <2>3. CASE w.entities[id].parent /= NoId
    <3> DEFINE p == w.entities[id].parent
    <3>1. p \in DOMAIN w.entities /\ id \in ToSet(w.entities[p].children)
      BY <1>1, <2>3 DEF Sound, Tree, Alive
    <3>2. w.entities[p].children /= <<>>
      BY <3>1, EmptyFacts
    <3>3. w.entities[p].parent = NoId
      BY <1>1, <3>1, <3>2 DEF Sound, Tree
    <3> QED BY <3>1, <3>3
  <2> QED BY <2>2, <2>3
<1>3. roots \subseteq Nat
  BY <1>1, ServerAssumption
<1> HIDE DEF roots
<1>4. \E id \in roots : \A r \in roots : id <= r
  BY <1>2, <1>3, Least
<1>5. root \in roots
  BY <1>4
<1>6. ClearRoot(w) = PerformDestroy(w, root)
  BY <1>1, <1>2 DEF ClearRoot, roots
<1> HIDE DEF root
<1>7. Alive(w, root) /\ w.entities[root].parent = NoId /\ root \in DOMAIN w.entities
  BY <1>5 DEF roots, Alive
<1> QED BY <1>6, <1>7, PerformDestroyFacts

\* The loop of SLSClear.
ClearTimes(w, n) == Repeat(n, ClearRoot, w)

\* The loop of SLS_Clear is what Repeat computes.
LEMMA ClearsRun ==
  ASSUME NEW n \in Nat, NEW W, NEW w \in W, NEW step \in Steps(W, n),
         \A v \in W, k \in 1..n : step[<<v, k>>] = ClearRoot(v)
  PROVE  \E r \in Runs(W, w, n, step) : r[n] = ClearTimes(w, n)
<1>1. Loops(W, w, n, step) /= {}
  BY LoopExists
<1>2. PICK it \in Loops(W, w, n, step) : TRUE
  BY <1>1
<1>3. \A s \in Visits(n) : s /= {} => Max(s) \in 1..n /\ s \ {Max(s)} \in Visits(n)
  BY GreatestOf DEF Visits
<1> DEFINE places == [i \in 1..n |-> i]
<1>4. it = [s \in SUBSET DOMAIN places |-> IF s = {} THEN w
               ELSE ClearRoot(it[s \ {Max(s)}])]
  BY <1>2, <1>3 DEF Visits, Loops
<1>5. PICK iter :
         /\ iter = [s \in SUBSET DOMAIN places |-> IF s = {} THEN w
                       ELSE ClearRoot(iter[s \ {Max(s)}])]
         /\ ClearTimes(w, n) = iter[DOMAIN places]
  BY <1>4, Zenon DEF ClearTimes, Repeat, FoldLeft, MapThenFoldSet
<1>6. LoopIn(W, w, n, step, iter)
  BY <1>3, <1>5 DEF Visits, LoopIn
<1>7. PICK r \in Runs(W, w, n, step) : iter[1..n] = r[n]
  BY <1>6, LoopRuns
<1> QED BY <1>5, <1>7

\* SLS_Clear leaves no entity.
LEMMA SLSClearFacts ==
  ASSUME NEW w, NEW I, Clearing(w, I)
  PROVE  Clearing(SLSClear(w), I) /\ DOMAIN SLSClear(w).entities = {}
<1> DEFINE n == Cardinality(DOMAIN w.entities)
           W == {v \in Worlds : Clearing(v, I)}
           step == [x \in W \X (1..n) |-> ClearRoot(x[1])]
           size(v) == Cardinality(DOMAIN v.entities)
           good(k) == {v \in W : size(v) <= n - k}
           V == [k \in 0..n |-> good(k)]
<1>1. ASSUME NEW v \in W
      PROVE  IsFiniteSet(DOMAIN v.entities) /\ size(v) \in Nat
             /\ (size(v) = 0 <=> DOMAIN v.entities = {})
  <2>1. DOMAIN v.entities \subseteq Ids
    BY EntityTypes
  <2>2. IsFiniteSet(DOMAIN v.entities)
    BY <2>1, ServerAssumption, FS_Subset
  <2> QED BY <2>2, FS_CardinalityType, FS_EmptySet
<1>2. w \in W
  BY DEF Clearing, Sound
<1>3. n \in Nat
  BY <1>1, <1>2
<1>4. ASSUME NEW v \in W
      PROVE  /\ DOMAIN v.entities = {} => ClearRoot(v) = v
             /\ DOMAIN v.entities /= {} => ClearRoot(v) \in W /\ size(ClearRoot(v)) <= size(v) - 1
  <2> DEFINE u == ClearRoot(v)
  <2>1. DOMAIN v.entities = {} => u = v
    BY DEF ClearRoot
  <2>2. ASSUME DOMAIN v.entities /= {}
        PROVE  u \in W /\ size(u) <= size(v) - 1
    <3>1. Clearing(v, I)
      OBVIOUS
    <3>2. /\ Clearing(u, I)
          /\ \E id \in DOMAIN v.entities : DOMAIN u.entities \subseteq DOMAIN v.entities \ {id}
      BY <2>2, <3>1, ClearRootFacts
    <3> HIDE DEF u
    <3>3. PICK id \in DOMAIN v.entities : DOMAIN u.entities \subseteq DOMAIN v.entities \ {id}
      BY <3>2
    <3>4. u \in W
      BY <3>2 DEF Clearing, Sound
    <3> HIDE DEF W
    <3>5. /\ IsFiniteSet(DOMAIN v.entities \ {id})
          /\ Cardinality(DOMAIN v.entities \ {id}) = size(v) - 1
      BY <1>1, FS_RemoveElement
    <3>6. size(u) <= Cardinality(DOMAIN v.entities \ {id})
      BY <3>3, <3>5, FS_Subset
    <3> QED BY <3>4, <3>5, <3>6
  <2> HIDE DEF u
  <2> QED BY <2>1, <2>2 DEF u
<1>5. \A v \in W : ClearRoot(v) \in W
  <2> HIDE DEF W
  <2> QED BY <1>4
<1>6. \A v \in W : Clearing(v, I)
  OBVIOUS
<1> HIDE DEF W
<1>7. step \in Steps(W, n) /\ \A v \in W, k \in 1..n : step[<<v, k>>] = ClearRoot(v)
  BY <1>5 DEF Steps
<1> HIDE DEF step
<1>8. PICK r \in Runs(W, w, n, step) : r[n] = ClearTimes(w, n)
  BY <1>2, <1>3, <1>7, ClearsRun
<1>9. w \in V[0]
  <2>1. n <= n - 0 /\ 0 \in 0..n
    BY <1>3
  <2>2. size(w) = n
    OBVIOUS
  <2> QED BY <1>2, <2>1, <2>2
<1> HIDE DEF size, n
<1>10. ASSUME NEW k \in 1..n, NEW v \in W, v \in V[k - 1]
       PROVE  step[<<v, k>>] \in V[k]
  <2> DEFINE u == ClearRoot(v)
  <2>1. k - 1 \in 0..n /\ k \in 0..n
    BY <1>3
  <2>2. size(v) <= n - (k - 1)
    BY <2>1, <1>10
  <2>3. size(u) <= n - k
    <3>1. CASE DOMAIN v.entities = {}
      <4>1. size(u) = 0
        BY <3>1, <1>1, <1>4
      <4> QED BY <4>1, <1>3
    <3>2. CASE DOMAIN v.entities /= {}
      <4>1. size(u) \in Nat /\ size(v) \in Nat /\ size(u) <= size(v) - 1
        BY <3>2, <1>1, <1>4, <1>5
      <4> HIDE DEF u
      <4> QED BY <4>1, <2>2, <1>3
    <3> QED BY <3>1, <3>2
  <2>4. u \in good(k)
    BY <1>5, <2>3
  <2> HIDE DEF good, u
  <2>5. step[<<v, k>>] = u
    BY <1>7 DEF u
  <2> QED BY <2>1, <2>4, <2>5
<1> HIDE DEF V
<1>11. r[n] \in V[n] /\ r[n] \in W
  <2>1. Leads(W, n, step, V)
    BY <1>10 DEF Leads
  <2> QED BY <1>3, <1>9, <2>1, RunsTo
<1>12. size(r[n]) <= n - n
  <2>1. n \in 0..n
    BY <1>3
  <2> QED BY <2>1, <1>11 DEF V
<1>13. DOMAIN r[n].entities = {}
  <2>1. size(r[n]) \in Nat
    BY <1>1, <1>11
  <2>2. size(r[n]) = 0
    BY <2>1, <1>12, <1>3
  <2> QED BY <2>2, <1>1, <1>11
<1>14. SLSClear(w) = r[n]
  BY <1>8 DEF SLSClear, ClearTimes, n
<1> QED BY <1>6, <1>11, <1>13, <1>14

\* The start of a round keeps the invariant: all is cleared and everybody
\* respawns.
LEMMA RoundStartKeeps ==
  ASSUME IInv, RoundStart
  PROVE  IInv'
<1> DEFINE w == World
           C == connected
           u == [w EXCEPT !.corpses = <<>>]
           d == SLSClear(u)
           v == AllRespawned(d)
<1>1. /\ Good(w, C, C, leaving, gone) /\ w \in Worlds
      /\ SessionsOK(C, leaving, gone)
      /\ phase = "pending" => C /= {}
      /\ w.active = NoId
  BY Now DEF IInv, World
<1>2. /\ C /= {} /\ Becomes(IF d.stopped THEN d ELSE v)
      /\ C' = C /\ gone' = gone /\ leaving' = {} /\ phase' = "inprogress"
  BY <1>1 DEF RoundStart
<1> HIDE DEF w
<1>3. Server \in C /\ SessionsOK(C, {}, gone) /\ C \subseteq Clients
  BY <1>1, <1>2 DEF SessionsOK
<1>4. IsFiniteSet(C) /\ Cardinality(C) <= Cardinality(Ids)
  BY <1>1, PlayersFit
<1>5. <<>> \in Seq(Ids) /\ ToSet(<<>>) \subseteq ToSet(w.corpses) /\ Distinct(<<>>)
  BY EmptyFacts
<1>6. Good(u, C, C, leaving, gone)
  BY <1>1, <1>5, UnlistedGood
<1>7. u.corpses = <<>> /\ u.active = NoId
  BY <1>1 DEF Worlds
<1> HIDE DEF u
<1>8. Clearing(u, C)
  BY <1>6, <1>7 DEF Good, Consistent, Clearing
<1>9. Clearing(d, C) /\ DOMAIN d.entities = {}
  BY <1>8, SLSClearFacts
<1> HIDE DEF d
<1>10. Good(d, {}, C, {}, gone)
  <2>1. Playing(d, {}) /\ Away(d, {}, gone)
    BY DEF Playing, Away
  <2>2. Bodies(d, {})
    BY <1>9, EmptyFacts DEF Clearing, Bodies
  <2> QED BY <1>1, <1>9, <2>1, <2>2 DEF Good, Consistent, Clearing
<1>11. Spare(d) = Cardinality(Ids)
  <2>1. FreeIds(d) = Ids
    BY <1>9 DEF FreeIds
  <2> QED BY <2>1 DEF Spare
<1>12. Spare(d) >= Cardinality(C)
  <2>1. Cardinality(C) \in Nat /\ Cardinality(Ids) \in Nat
    BY <1>4, FS_CardinalityType, ServerAssumption
  <2> QED BY <2>1, <1>4, <1>11
<1>13. Good(v, C, C, {}, gone)
  BY <1>3, <1>4, <1>10, <1>12, AllRespawnedGood
<1>14. Becomes(v)
  BY <1>2, <1>9 DEF Clearing
<1> HIDE DEF v
<1> QED BY <1>2, <1>3, <1>13, <1>14, After

-----------------------------------------------------------------------------
(* The theorems.                                                           *)

\* A server that starts has no entities and no clients.
LEMMA InitKeeps ==
  ASSUME Init
  PROVE  IInv
<1> DEFINE w == World
           none == [c \in Clients |-> NoId]
<1>1. /\ w.entities = <<>> /\ w.avatar = none /\ w.gameId = none
      /\ w.dead = [c \in Clients |-> FALSE] /\ w.corpses = <<>> /\ w.stopped = FALSE
      /\ w.phase = "inprogress" /\ w.active = NoId /\ w.shortens = FALSE
      /\ w = [entities |-> w.entities, avatar |-> w.avatar, gameId |-> w.gameId,
              dead |-> w.dead, corpses |-> w.corpses, stopped |-> w.stopped,
              phase |-> w.phase, active |-> w.active, shortens |-> w.shortens]
      /\ connected = {} /\ gone = {} /\ leaving = {} /\ phase = "inprogress"
  BY DEF Init, World
<1>2. /\ DOMAIN <<>> = {} /\ <<>> \in [{} -> Entity] /\ <<>> \in Seq(Ids)
  <2>1. <<>> \in Seq(Entity) /\ Len(<<>>) = 0 /\ <<>> \in Seq(Ids)
    BY EmptyFacts
  <2>2. DOMAIN <<>> = 1..0 /\ <<>> \in [1..0 -> Entity]
    BY <2>1, LenProperties
  <2>3. 1..0 = {}
    OBVIOUS
  <2> QED BY <2>1, <2>2, <2>3
<1>3. <<>> \in Trees
  <2>1. {} \in SUBSET Ids
    OBVIOUS
  <2> QED BY <2>1, <1>2 DEF Trees
<1>4. none \in [Clients -> Ids \union {NoId}]
  OBVIOUS
<1>5. [c \in Clients |-> FALSE] \in [Clients -> BOOLEAN]
  BY Zenon
<1> HIDE DEF w
<1>6. w \in Worlds
  <2> DEFINE phases == {"inprogress", "scores", "pending"}
  <2>1. \A e \in Trees, a \in [Clients -> Ids \union {NoId}], d \in [Clients -> BOOLEAN],
           q \in Seq(Ids), p \in phases, x \in Ids \union {NoId},
           s, t \in BOOLEAN :
           [entities |-> e, avatar |-> a, gameId |-> a, dead |-> d, corpses |-> q,
            stopped |-> s, phase |-> p, active |-> x, shortens |-> t] \in Worlds
    BY DEF Worlds
  <2>2. w.stopped \in BOOLEAN /\ w.shortens \in BOOLEAN
    BY <1>1
  <2>3. /\ w.entities \in Trees /\ w.avatar \in [Clients -> Ids \union {NoId}]
        /\ w.gameId = w.avatar /\ w.dead \in [Clients -> BOOLEAN]
        /\ w.corpses \in Seq(Ids) /\ w.phase \in phases
        /\ w.active \in Ids \union {NoId}
    BY <1>1, <1>2, <1>3, <1>4, <1>5
  <2> HIDE DEF none, phases
  <2>6. \A s, t \in BOOLEAN :
           [entities |-> w.entities, avatar |-> w.avatar, gameId |-> w.avatar,
            dead |-> w.dead, corpses |-> w.corpses,
            stopped |-> s, phase |-> w.phase, active |-> w.active, shortens |-> t] \in Worlds
    <3>1. PICK e \in Trees, a \in [Clients -> Ids \union {NoId}], d \in [Clients -> BOOLEAN],
               q \in Seq(Ids), p \in phases, x \in Ids \union {NoId} :
               /\ e = w.entities /\ a = w.avatar /\ d = w.dead /\ q = w.corpses
               /\ p = w.phase /\ x = w.active
      BY <2>3
    <3>2. \A s, t \in BOOLEAN :
             [entities |-> e, avatar |-> a, gameId |-> a, dead |-> d, corpses |-> q,
              stopped |-> s, phase |-> p, active |-> x, shortens |-> t] \in Worlds
      BY <2>1
    <3> QED BY <3>1, <3>2, Zenon
  <2>4. [entities |-> w.entities, avatar |-> w.avatar, gameId |-> w.avatar,
         dead |-> w.dead, corpses |-> w.corpses, stopped |-> w.stopped,
         phase |-> w.phase, active |-> w.active, shortens |-> w.shortens] \in Worlds
    BY <2>6, <2>2, Zenon
  <2>5. w = [entities |-> w.entities, avatar |-> w.avatar, gameId |-> w.avatar,
             dead |-> w.dead, corpses |-> w.corpses, stopped |-> w.stopped,
             phase |-> w.phase, active |-> w.active, shortens |-> w.shortens]
    BY <1>1, <2>3
  <2> QED BY <2>4, <2>5
<1>7. DOMAIN w.entities = {}
  BY <1>1, <1>2
<1>8. Sound(w, {})
  BY <1>6, <1>7 DEF Sound, Tree, Owned, Bags, Slots
<1>9. Playing(w, {}) /\ Away(w, {}, {}) /\ Bodies(w, {})
  BY <1>1, EmptyFacts DEF Playing, Away, Bodies
<1>10. Idle(w, {})
  BY <1>1 DEF Idle
<1>11. ~ w.stopped
  BY <1>1
<1>12. Consistent(w, {}, {}, {})
  BY <1>8, <1>9, <1>11 DEF Consistent
<1>13. SessionsOK({}, {}, {})
  BY DEF SessionsOK
<1> QED BY <1>1, <1>10, <1>12, <1>13 DEF IInv, w

\* Every action keeps the invariant.
LEMMA NextKeeps ==
  ASSUME BagDropsFirst, IInv, [Next]_vars
  PROVE  IInv'
<1>1. CASE UNCHANGED vars
  <2>1. World' = World /\ connected' = connected /\ leaving' = leaving /\ gone' = gone
        /\ phase' = phase
    BY <1>1 DEF vars, World
  <2> QED BY <2>1 DEF IInv
<1>2. ASSUME NEW c \in Clients, Connect(c) PROVE IInv'
  BY <1>2, ConnectKeeps
<1>3. ASSUME NEW c \in Clients, NEW force \in BOOLEAN, NEW loadout \in Loadouts,
             Respawn(c, force, loadout)
      PROVE  IInv'
  BY <1>3, RespawnKeeps
<1>4. ASSUME NEW c \in Clients, SelectSpectator(c) PROVE IInv'
  BY <1>4, SelectSpectatorKeeps
<1>5. ASSUME NEW id \in Ids, Die(id) PROVE IInv'
  BY <1>5, DieKeeps
<1>6. ASSUME NEW c \in Clients, Killed(c) PROVE IInv'
  BY <1>6, KilledKeeps
<1>7. ASSUME NEW parent \in Ids, NEW id \in Ids, Take(parent, id) PROVE IInv'
  BY <1>7, TakeKeeps
<1>8. ASSUME NEW parent \in Ids, NEW id \in Ids, Reject(parent, id) PROVE IInv'
  BY <1>8, RejectKeeps
<1>9. ASSUME NEW id \in Ids, Destroy(id) PROVE IInv'
  BY <1>9, DestroyKeeps
<1>10. ASSUME NEW shortens \in BOOLEAN, UpdateCorpses(shortens) PROVE IInv'
  BY <1>10, UpdateCorpsesKeeps
<1>11. ASSUME NEW c \in Clients, Disconnect(c) PROVE IInv'
  BY <1>11, DisconnectKeeps
<1>12. ASSUME NEW id \in Ids, PlayerDisconnected(id) PROVE IInv'
  BY <1>12, PlayerDisconnectedKeeps
<1>13. CASE RoundEnd
  BY <1>13, RoundEndKeeps
<1>14. CASE RoundStart
  BY <1>14, RoundStartKeeps
<1>15. CASE PlayerScores
  BY <1>15, PlayerScoresKeeps
<1>16. CASE Next
  BY <1>2, <1>3, <1>4, <1>5, <1>6, <1>7, <1>8, <1>9, <1>10, <1>11, <1>12, <1>13, <1>14,
     <1>15, <1>16 DEF Next
<1> QED BY <1>1, <1>16

\* The invariant of the server: between two handlers of xrServer and
\* game_sv_Deathmatch entities, avatars, bodies and delayed events agree.
THEOREM ServerConsistent ==
  ASSUME BagDropsFirst
  PROVE  Spec => []IInv
<1>1. Init => IInv
  BY InitKeeps
<1>2. IInv /\ [Next]_vars => IInv'
  BY NextKeeps
<1> QED BY <1>1, <1>2, PTL DEF Spec

\* The invariant gives the types.
LEMMA InvTyped ==
  ASSUME IInv
  PROVE  TypeOK
<1>1. World \in Worlds /\ SessionsOK(connected, leaving, gone)
  BY Now
<1>2. /\ entities = World.entities /\ avatar = World.avatar /\ gameId = World.gameId
      /\ dead = World.dead /\ corpses = World.corpses /\ stopped = World.stopped
      /\ phase = World.phase
  BY DEF World
<1>3. /\ avatar \in [Clients -> Ids \union {NoId}] /\ gameId \in [Clients -> Ids \union {NoId}]
      /\ dead \in [Clients -> BOOLEAN] /\ corpses \in Seq(Ids) /\ stopped \in BOOLEAN
      /\ phase \in {"inprogress", "scores", "pending"}
  BY <1>1, <1>2 DEF Worlds
<1>4. DOMAIN entities \subseteq Ids /\ \A id \in DOMAIN entities : entities[id] \in Entity
  BY <1>1, <1>2, EntityTypes
<1>5. \A id \in DOMAIN entities :
          /\ entities[id].kind \in Kinds
          /\ entities[id].parent \in Ids \union {NoId}
          /\ entities[id].children \in Seq(Ids)
          /\ entities[id].owner \in Clients
          /\ entities[id].alive \in BOOLEAN
  BY <1>4 DEF Entity
<1> QED BY <1>1, <1>3, <1>4, <1>5 DEF TypeOK, SessionsOK

\* As many elements as places.
LEMMA DistinctLength ==
  ASSUME NEW S, NEW s \in Seq(S), Distinct(s)
  PROVE  Cardinality(ToSet(s)) = Len(s)
<1> DEFINE n == Len(s)
<1>1. n \in Nat /\ s \in [1..n -> S] /\ ToSet(s) = {s[i] : i \in 1..n} /\ DOMAIN s = 1..n
  BY ToSetOf, LenProperties
<1>2. s \in [1..n -> ToSet(s)]
  BY <1>1, Zenon
<1>3. IsInjective(s) /\ \A x \in ToSet(s) : \E i \in 1..n : s[i] = x
  BY <1>1 DEF Distinct, IsInjective
<1>4. s \in Bijection(1..n, ToSet(s))
  BY <1>2, <1>3 DEF Bijection, Injection, Surjection
<1>5. IsFiniteSet(1..n) /\ Cardinality(1..n) = n
  BY <1>1, FS_Interval
<1>6. ExistsBijection(1..n, ToSet(s))
  BY <1>4 DEF ExistsBijection
<1> HIDE DEF n
<1>7. Cardinality(ToSet(s)) = Cardinality(1..n)
  BY <1>5, <1>6, FS_Bijection
<1> QED BY <1>5, <1>7 DEF n

\* The invariant gives the tree, and counts the children.
LEMMA InvLinked ==
  ASSUME IInv
  PROVE  Linked
<1> DEFINE w == World
<1>1. Sound(w, {}) /\ w \in Worlds /\ w.entities = entities
  BY Now DEF Good, Consistent, World
<1>2. Tree(w, {})
  BY <1>1 DEF Sound
<1> HIDE DEF w
<1> SUFFICES ASSUME NEW id \in DOMAIN entities
             PROVE  /\ entities[id].parent /= NoId =>
                          Alive(w, entities[id].parent) /\ id \in Children(entities[id].parent)
                    /\ \A i \in Children(id) : Alive(w, i) /\ entities[i].parent = id
                    /\ Cardinality(Children(id)) = Len(entities[id].children)
                    /\ entities[id].children /= <<>> =>
                          /\ entities[id].kind \in {"actor", "bag"} /\ entities[id].parent = NoId
                          /\ \A i \in Children(id) : entities[i].kind \in Items
  BY DEF Linked, w
<1>3. entities[id].children \in Seq(Ids)
  BY <1>1, EntityTypes
<1>4. Distinct(entities[id].children)
  BY <1>1, <1>2 DEF Tree
<1>5. Cardinality(Children(id)) = Len(entities[id].children)
  BY <1>3, <1>4, DistinctLength DEF Children
<1>6. entities[id].parent /= NoId =>
          Alive(w, entities[id].parent) /\ id \in Children(entities[id].parent)
  BY <1>1, <1>2 DEF Tree, Children
<1>7. \A i \in Children(id) : /\ Alive(w, i) /\ entities[i].parent = id
                              /\ entities[i].kind \in Items
  BY <1>1, <1>2 DEF Tree, Children
<1>8. entities[id].children /= <<>> =>
          entities[id].kind \in {"actor", "bag"} /\ entities[id].parent = NoId
  BY <1>1, <1>2 DEF Tree, Holders
<1> QED BY <1>5, <1>6, <1>7, <1>8

\* The invariant gives the place of the bag.
LEMMA InvBagFirst ==
  ASSUME IInv
  PROVE  BagFirst
<1>1. Bags(World) /\ World.entities = entities
  BY Now DEF Good, Consistent, Sound, World
<1> SUFFICES ASSUME NEW id \in DOMAIN entities, NEW i \in 2..Len(entities[id].children),
                    entities[id].kind = "actor"
             PROVE  entities[entities[id].children[i]].kind /= "bag"
  BY DEF BagFirst
<1>2. entities[id].children[i] \in Rest(entities[id].children)
  BY DEF Rest
<1> QED BY <1>1, <1>2 DEF Bags

\* The invariant gives one weapon of a slot, if loadouts have one.
LEMMA InvSlotExclusive ==
  ASSUME IInv, OneOfASlot
  PROVE  SlotExclusive
<1>1. Slots(World) /\ World.entities = entities
  BY Now DEF Good, Consistent, Sound, World
<1> QED BY <1>1 DEF Slots, SlotExclusive, Children

\* The invariant gives what clients play.
LEMMA InvAvatarsLive ==
  ASSUME IInv
  PROVE  AvatarsLive
<1> DEFINE w == World
<1>1. Playing(w, connected)
  BY Now DEF Good, Consistent
<1>2. w.entities = entities /\ w.avatar = avatar /\ w.gameId = gameId
  BY DEF World
<1> HIDE DEF w
<1>3. \A c \in connected :
          /\ Alive(w, avatar[c])
          /\ entities[avatar[c]].kind \in {"actor", "spectator"}
          /\ entities[avatar[c]].owner = c
          /\ gameId[c] = avatar[c]
  BY <1>1, <1>2 DEF Playing, Players
<1> QED BY <1>3 DEF AvatarsLive, w

\* The invariant gives the bodies.
LEMMA InvCorpsesOfServer ==
  ASSUME IInv
  PROVE  CorpsesOfServer
<1> DEFINE w == World
<1>1. Bodies(w, connected) /\ w \in Worlds
  BY Now DEF Good, Consistent
<1>2. w.entities = entities /\ w.avatar = avatar /\ w.corpses = corpses
  BY DEF World
<1> HIDE DEF w
<1>3. corpses \in Seq(Ids)
  BY <1>1, <1>2 DEF Worlds
<1>4. \A i \in 1..Len(corpses) : corpses[i] \in ToSet(corpses)
  BY <1>3, ToSetOf
<1>5. \A i \in 1..Len(corpses) :
          /\ Alive(w, corpses[i])
          /\ entities[corpses[i]].owner = Server
          /\ \A c \in connected : avatar[c] /= corpses[i]
          /\ \A j \in 1..Len(corpses) : corpses[i] = corpses[j] => i = j
  BY <1>1, <1>2, <1>4 DEF Bodies, Distinct
<1> QED BY <1>5 DEF CorpsesOfServer, w

\* The handlers keep every field of the server in its type.
THEOREM TypeCorrect ==
  ASSUME BagDropsFirst
  PROVE  Spec => []TypeOK
BY ServerConsistent, InvTyped, PTL

\* ID_Parent and children always agree after OnTouch, OnDetach, transfers,
\* spawns and destructions: nobody is inside two entities, listed twice, or
\* inside one that is gone.
THEOREM AlwaysLinked ==
  ASSUME BagDropsFirst
  PROVE  Spec => []Linked
BY ServerConsistent, InvLinked, PTL

\* The bag of an actor is the first of its children, where
\* Process_event_reject and OnDetach look for it.
THEOREM BagStaysFirst ==
  ASSUME BagDropsFirst
  PROVE  Spec => []BagFirst
BY ServerConsistent, InvBagFirst, PTL

\* OnTouch never lets an actor have two weapons of one slot, provided no
\* client buys two: the server does not check what it buys.
THEOREM SlotsStayExclusive ==
  ASSUME BagDropsFirst, OneOfASlot
  PROVE  Spec => []SlotExclusive
<1>1. IInv => SlotExclusive
  BY InvSlotExclusive
<1> QED BY <1>1, ServerConsistent, PTL

\* A connected client always plays an entity that exists and is its own, in
\* the server (avatar) and in the game state (gameId), through deaths,
\* respawns and rounds.
THEOREM AvatarsStayLive ==
  ASSUME BagDropsFirst
  PROVE  Spec => []AvatarsLive
BY ServerConsistent, InvAvatarsLive, PTL

\* What m_CorpseList holds is the server's, is listed once, and nobody plays
\* it.
THEOREM CorpsesStayOfServer ==
  ASSUME BagDropsFirst
  PROVE  Spec => []CorpsesOfServer
BY ServerConsistent, InvCorpsesOfServer, PTL

\* No R_ASSERT of the handlers fails, as long as a dead actor drops its bag
\* before it is destroyed.
THEOREM ServerNeverStops ==
  ASSUME BagDropsFirst
  PROVE  Spec => []NeverStops
<1>1. IInv => NeverStops
  BY Now DEF NeverStops
<1> QED BY <1>1, ServerConsistent, PTL

=============================================================================
