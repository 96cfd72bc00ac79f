------------------------- MODULE IdGeneratorProofs -------------------------
(***************************************************************************)
(* The identifier generator, for every range of values and every block     *)
(* size: no identifier is free twice, m_available_count is exact, and the  *)
(* generator implements IdPool.  With a clock: what a request returns has  *)
(* rested as long as the blocks allow.                                     *)
(***************************************************************************)
EXTENDS MCIdGenerator, FiniteSetTheorems, TLAPS

\* The inductive invariant.  FreeListsDistinct alone would not be inductive:
\* the length of a stack that Reserve and FreeID rely on comes from TypeOK.
IInv == TypeOK /\ FreeListsDistinct /\ AvailableIsExact

-----------------------------------------------------------------------------
\* Division with remainder, as tfGetBlockByValue and tfGetFromBlock use it.
LEMMA DivMod ==
    ASSUME NEW a \in Nat, NEW n \in Nat \ {0}
    PROVE  /\ a \div n \in Nat
           /\ a % n \in 0..(n - 1)
           /\ a = (a \div n) * n + (a % n)
  BY Z3

\* A block and an offset are recovered from the number they make up.
LEMMA DivModUnique ==
    ASSUME NEW b \in Nat, NEW n \in Nat \ {0}, NEW o \in 0..(n - 1)
    PROVE  /\ (b * n + o) \div n = b
           /\ (b * n + o) % n = o
  BY Z3

LEMMA BlockCountPositive == BlockCount \in Nat /\ BlockCount > 0
<1>1. MaxValue - MinValue \in Nat
  BY GeneratorAssumption
<1>2. (MaxValue - MinValue) \div BlockSize \in Nat
  BY <1>1, DivMod, GeneratorAssumption
<1> QED
  BY <1>2 DEF BlockCount

\* Every value has a block and an offset in it, and is recovered from them.
LEMMA ValuesDecompose ==
    ASSUME NEW v \in Values
    PROVE  /\ BlockOf(v) \in Blocks
           /\ OffsetOf(v) \in Offsets
           /\ ValueOf(BlockOf(v), OffsetOf(v)) = v
<1> DEFINE q == (v - MinValue) \div BlockSize
           r == (v - MinValue) % BlockSize
           Q == (MaxValue - MinValue) \div BlockSize
           R == (MaxValue - MinValue) % BlockSize
<1>1. v \in Nat /\ v - MinValue \in Nat /\ v <= MaxValue
  BY GeneratorAssumption DEF Values
<1>2. q \in Nat /\ r \in 0..(BlockSize - 1) /\ v - MinValue = q * BlockSize + r
  BY <1>1, DivMod, GeneratorAssumption
<1>3. MaxValue - MinValue \in Nat
  BY GeneratorAssumption
<1>4. Q \in Nat /\ R \in 0..(BlockSize - 1) /\ MaxValue - MinValue = Q * BlockSize + R
  BY <1>3, DivMod, GeneratorAssumption
<1>5. q <= Q
  <2> HIDE DEF q, r, Q, R
  <2>1. q * BlockSize + r <= Q * BlockSize + R
    BY <1>1, <1>2, <1>4, GeneratorAssumption
  <2>2. CASE q >= Q + 1
    <3>1. q * BlockSize >= (Q + 1) * BlockSize
      BY <2>2, <1>2, <1>4, GeneratorAssumption, Z3
    <3>2. (Q + 1) * BlockSize = Q * BlockSize + BlockSize
      BY <1>4, GeneratorAssumption, Z3
    <3> QED BY <3>1, <3>2, <2>1, <1>2, <1>4, GeneratorAssumption, Z3
  <2> QED BY <2>2, <1>2, <1>4
<1>6. BlockOf(v) \in Blocks
  BY <1>2, <1>4, <1>5 DEF BlockOf, Blocks, BlockCount
<1>7. OffsetOf(v) \in Offsets
  BY <1>2 DEF OffsetOf, Offsets
<1>8. ValueOf(BlockOf(v), OffsetOf(v)) = v
  BY <1>1, <1>2, GeneratorAssumption DEF ValueOf, BlockOf, OffsetOf
<1> QED BY <1>6, <1>7, <1>8

LEMMA ValuesRecompose ==
    ASSUME NEW b \in Blocks, NEW o \in Offsets
    PROVE  /\ BlockOf(ValueOf(b, o)) = b
           /\ OffsetOf(ValueOf(b, o)) = o
           /\ ValueOf(b, o) \in Nat
<1>1. b \in Nat /\ o \in 0..(BlockSize - 1)
  BY BlockCountPositive DEF Blocks, Offsets
<1>2. b * BlockSize + o \in Nat
  BY <1>1, GeneratorAssumption, Z3
<1>3. ValueOf(b, o) - MinValue = b * BlockSize + o
  BY <1>2, GeneratorAssumption DEF ValueOf
<1>4. ValueOf(b, o) \in Nat
  BY <1>2, GeneratorAssumption DEF ValueOf
<1> QED
  BY <1>1, <1>3, <1>4, DivModUnique, GeneratorAssumption DEF BlockOf, OffsetOf

\* A block other than the last lies below MaxValue entirely, the last one
\* as far as BlockLength says.
LEMMA BlockLengths ==
    ASSUME NEW b \in Blocks
    PROVE  /\ BlockLength(b) \in 1..BlockSize
           /\ \A o \in Offsets : ValueOf(b, o) \in Values <=> o < BlockLength(b)
<1> DEFINE Q == (MaxValue - MinValue) \div BlockSize
           R == (MaxValue - MinValue) % BlockSize
<1>1. MaxValue - MinValue \in Nat
  BY GeneratorAssumption
<1>2. Q \in Nat /\ R \in 0..(BlockSize - 1) /\ MaxValue - MinValue = Q * BlockSize + R
  BY <1>1, DivMod, GeneratorAssumption
<1>3. BlockLength(b) = IF b = Q THEN R + 1 ELSE BlockSize
  BY <1>2 DEF BlockLength, BlockCount, OffsetOf
<1>4. b \in 0..Q
  BY <1>2 DEF Blocks, BlockCount
<1>5. BlockLength(b) \in 1..BlockSize
  BY <1>2, <1>3, GeneratorAssumption
<1>6. ASSUME NEW o \in Offsets
      PROVE  ValueOf(b, o) \in Values <=> o < BlockLength(b)
  <2> HIDE DEF Q, R
  <2>1. o \in 0..(BlockSize - 1)
    BY DEF Offsets
  <2>2. b * BlockSize + o \in Nat
    BY <1>4, <1>2, <2>1, GeneratorAssumption, Z3
  <2>3. ValueOf(b, o) \in Values <=> b * BlockSize + o <= Q * BlockSize + R
    BY <1>2, <2>2, GeneratorAssumption DEF ValueOf, Values
  <2>4. CASE b = Q
    BY <2>4, <2>1, <2>3, <1>2, <1>3, GeneratorAssumption, Z3
  <2>5. CASE b < Q
    <3>1. (b + 1) * BlockSize <= Q * BlockSize
      BY <2>5, <1>2, <1>4, GeneratorAssumption, Z3
    <3>2. (b + 1) * BlockSize = b * BlockSize + BlockSize
      BY <1>4, <1>2, GeneratorAssumption, Z3
    <3>3. b * BlockSize + o <= Q * BlockSize + R
      BY <3>1, <3>2, <2>1, <1>2, <1>4, GeneratorAssumption, Z3
    <3> QED BY <3>3, <2>1, <2>3, <2>5, <1>2, <1>3, <1>4, GeneratorAssumption
  <2> QED BY <2>4, <2>5, <1>2, <1>4
<1> QED BY <1>5, <1>6

-----------------------------------------------------------------------------
\* The set of blocks is finite, and so is the set of those that have a free
\* identifier; there are at most BlockCount of them.
LEMMA BlocksFinite ==
    /\ IsFiniteSet(Blocks)
    /\ IsFiniteSet(NonEmpty)
    /\ Cardinality(NonEmpty) \in 0..BlockCount
<1>1. IsFiniteSet(Blocks) /\ Cardinality(Blocks) = BlockCount
  BY BlockCountPositive, FS_Interval DEF Blocks
<1>2. NonEmpty \subseteq Blocks
  BY DEF NonEmpty
<1>3. IsFiniteSet(NonEmpty) /\ Cardinality(NonEmpty) <= BlockCount
  BY <1>1, <1>2, FS_Subset
<1>4. Cardinality(NonEmpty) \in Nat
  BY <1>3, FS_CardinalityType
<1> QED
  BY <1>1, <1>3, <1>4, BlockCountPositive

\* While m_available_count is positive std::min_element finds a block with a
\* free identifier: an empty block is older than none.
LEMMA FirstBlock ==
    IInv => FirstIsNonEmpty
<1> SUFFICES ASSUME IInv, available > 0, NEW b \in Blocks, IsFirst(b)
             PROVE  ids[b] /= <<>>
  BY DEF FirstIsNonEmpty
<1>1. NonEmpty /= {}
  BY FS_EmptySet DEF IInv, AvailableIsExact
<1>2. PICK c \in Blocks : ids[c] /= <<>>
  BY <1>1 DEF NonEmpty
<1> QED
  BY <1>2 DEF IsFirst, Older

\* Taking the offset o out of block b: the stack of b loses o and nothing
\* else, so exactly one value stops being free.
LEMMA TakeOffset ==
    ASSUME TypeOK, FreeListsDistinct, ids' \in [Blocks -> Seq(Offsets)],
           NEW b \in Blocks, NEW o \in Members(ids[b]),
           \A c \in Blocks \ {b} : ids'[c] = ids[c],
           Members(ids'[b]) = Members(ids[b]) \ {o}
    PROVE  /\ ValueOf(b, o) \in Values \ Used
           /\ Used' = Used \union {ValueOf(b, o)}
<1>1. o \in Offsets /\ ValueOf(b, o) \in Values
  BY DEF TypeOK, Members, FreeListsDistinct
<1>2. BlockOf(ValueOf(b, o)) = b /\ OffsetOf(ValueOf(b, o)) = o
  BY <1>1, ValuesRecompose
<1>3. ValueOf(b, o) \notin Used
  BY <1>2 DEF Used, IsFree
<1>4. ASSUME NEW v \in Values
      PROVE  ~ IsFree(v)' <=> ~ IsFree(v) \/ v = ValueOf(b, o)
  <2>1. BlockOf(v) \in Blocks /\ ValueOf(BlockOf(v), OffsetOf(v)) = v
    BY ValuesDecompose
  <2>2. CASE BlockOf(v) = b
    BY <2>1, <2>2, <1>2 DEF IsFree
  <2>3. CASE BlockOf(v) /= b
    BY <2>1, <2>3, <1>2 DEF IsFree, Members
  <2> QED BY <2>2, <2>3
<1>5. Used' = {v \in Values : ~ IsFree(v)'}
  BY DEF Used
<1> QED
  BY <1>1, <1>3, <1>4, <1>5 DEF Used

\* tfGetFromBlock keeps m_available_count exact: a stack of one becomes
\* empty, any other stays as it was.
LEMMA TakeCount ==
    ASSUME IInv, ids' \in [Blocks -> Seq(Offsets)],
           NEW b \in Blocks, ids[b] /= <<>>, TakenFrom(b),
           \A c \in Blocks \ {b} : ids'[c] = ids[c],
           Len(ids'[b]) = Len(ids[b]) - 1
    PROVE  AvailableIsExact'
<1>1. ids[b] \in Seq(Offsets) /\ ids'[b] \in Seq(Offsets)
  BY DEF IInv, TypeOK
<1>2. Len(ids[b]) \in Nat \ {0}
  BY <1>1
<1>3. NonEmpty' = {c \in Blocks : ids'[c] /= <<>>}
  BY DEF NonEmpty
<1>4. b \in NonEmpty
  BY DEF NonEmpty
<1>5. CASE Len(ids[b]) = 1
  <2>1. ids'[b] = <<>>
    BY <1>1, <1>5
  <2>2. NonEmpty' = NonEmpty \ {b}
    BY <2>1, <1>3 DEF NonEmpty
  <2>3. Cardinality(NonEmpty \ {b}) = Cardinality(NonEmpty) - 1
    BY <1>4, BlocksFinite, FS_RemoveElement
  <2> QED
    BY <1>5, <2>2, <2>3 DEF TakenFrom, IInv, AvailableIsExact
<1>6. CASE Len(ids[b]) /= 1
  <2>1. ids'[b] /= <<>>
    <3>1. Len(ids'[b]) /= 0
      BY <1>2, <1>6
    <3>2. Len(<<>>) = 0
      OBVIOUS
    <3> QED BY <3>1, <3>2, Zenon
  <2>2. NonEmpty' = NonEmpty
    BY <2>1, <1>3 DEF NonEmpty
  <2> QED
    BY <1>6, <2>2 DEF TakenFrom, IInv, AvailableIsExact
<1> QED BY <1>5, <1>6

-----------------------------------------------------------------------------
\* The constructor leaves every value free, each listed once.
LEMMA InitIInv == Init => IInv /\ Used = {}
<1> SUFFICES ASSUME Init PROVE IInv /\ Used = {}
  OBVIOUS
<1>1. ASSUME NEW b \in Blocks
      PROVE  /\ ids[b] \in Seq(Offsets)
             /\ Len(ids[b]) = BlockLength(b)
             /\ \A i \in 1..Len(ids[b]) : ids[b][i] = BlockLength(b) - i
  <2>1. BlockLength(b) \in 1..BlockSize
    BY BlockLengths
  <2>2. ids[b] = [i \in 1..BlockLength(b) |-> BlockLength(b) - i]
    BY DEF Init
  <2>3. \A i \in 1..BlockLength(b) : BlockLength(b) - i \in Offsets
    BY <2>1, GeneratorAssumption DEF Offsets
  <2> QED BY <2>1, <2>2, <2>3
<1>2. TypeOK
  BY <1>1, BlockCountPositive, GeneratorAssumption DEF Init, TypeOK
<1>3. FreeListsDistinct
  <2> SUFFICES ASSUME NEW b \in Blocks
               PROVE  /\ \A i, j \in 1..Len(ids[b]) : ids[b][i] = ids[b][j] => i = j
                      /\ \A i \in 1..Len(ids[b]) : ValueOf(b, ids[b][i]) \in Values
    BY DEF FreeListsDistinct
  <2>1. BlockLength(b) \in 1..BlockSize
    BY BlockLengths
  <2>2. ASSUME NEW i \in 1..Len(ids[b])
        PROVE  ids[b][i] \in Offsets /\ ids[b][i] < BlockLength(b)
    BY <1>1, <2>1, GeneratorAssumption DEF Offsets
  <2>3. \A i \in 1..Len(ids[b]) : ValueOf(b, ids[b][i]) \in Values
    BY <2>2, BlockLengths
  <2>4. \A i, j \in 1..Len(ids[b]) : ids[b][i] = ids[b][j] => i = j
    BY <1>1, <2>1, GeneratorAssumption
  <2> QED BY <2>3, <2>4
<1>4. AvailableIsExact
  <2>1. ASSUME NEW b \in Blocks PROVE ids[b] /= <<>>
    <3>1. Len(ids[b]) /= 0
      BY <1>1, BlockLengths
    <3> QED BY <3>1
  <2>2. NonEmpty = Blocks
    BY <2>1 DEF NonEmpty
  <2>3. Cardinality(Blocks) = BlockCount
    BY BlockCountPositive, FS_Interval DEF Blocks
  <2> QED BY <2>2, <2>3 DEF AvailableIsExact, Init
<1>5. ASSUME NEW v \in Values PROVE IsFree(v)
  <2> DEFINE b == BlockOf(v)
             o == OffsetOf(v)
  <2>1. b \in Blocks /\ o \in Offsets /\ ValueOf(b, o) = v
    BY ValuesDecompose
  <2>2. BlockLength(b) \in 1..BlockSize /\ o < BlockLength(b)
    BY <2>1, BlockLengths
  <2>3. BlockLength(b) - o \in 1..Len(ids[b])
    BY <1>1, <2>1, <2>2, GeneratorAssumption DEF Offsets
  <2>4. ids[b][BlockLength(b) - o] = o
    BY <1>1, <2>1, <2>2, <2>3, GeneratorAssumption DEF Offsets
  <2> QED BY <2>3, <2>4 DEF IsFree, Members
<1> QED BY <1>2, <1>3, <1>4, <1>5 DEF IInv, Used

\* What both ways of picking an offset share: given the new stack of the
\* block, the invariant holds again and the value taken was free.
LEMMA TakeStep ==
    ASSUME IInv,
           NEW b \in Blocks, NEW k \in 1..Len(ids[b]),
           TakenFrom(b), timeId' = timeId, got' = ValueOf(b, ids[b][k]),
           ids' = [ids EXCEPT ![b] = [j \in 1..(Len(ids[b]) - 1) |->
                      IF j = k THEN ids[b][Len(ids[b])] ELSE ids[b][j]]]
    PROVE  IInv' /\ Pool!Get(got')
<1> DEFINE s == ids[b]
           t == ids'[b]
           n == Len(ids[b])
<1>1. s \in Seq(Offsets) /\ n \in Nat /\ n > 0 /\ k \in 1..n /\ ids \in [Blocks -> Seq(Offsets)]
  BY DEF IInv, TypeOK
<1>2. t = [j \in 1..(n - 1) |-> IF j = k THEN s[n] ELSE s[j]]
  BY <1>1
<1>3. t \in Seq(Offsets) /\ Len(t) = n - 1
  BY <1>1, <1>2
<1>4. \A c \in Blocks \ {b} : ids'[c] = ids[c]
  BY <1>1
<1>5. ids' \in [Blocks -> Seq(Offsets)]
  BY <1>1, <1>3
<1>6. \A i, j \in 1..n : s[i] = s[j] => i = j
  BY DEF IInv, FreeListsDistinct
<1>7. \A j \in 1..(n - 1) : t[j] = s[IF j = k THEN n ELSE j]
  BY <1>1, <1>2
<1>8. \A i, j \in 1..(n - 1) : t[i] = t[j] => i = j
  <2> HIDE DEF s, t, n
  <2> TAKE i, j \in 1..(n - 1)
  <2> HAVE t[i] = t[j]
  <2>1. (IF i = k THEN n ELSE i) \in 1..n /\ (IF j = k THEN n ELSE j) \in 1..n
    BY <1>1
  <2>2. (IF i = k THEN n ELSE i) = (IF j = k THEN n ELSE j)
    BY <2>1, <1>6, <1>7
  <2> QED BY <2>2, <1>1
<1>9. Members(t) = Members(s) \ {s[k]}
  <2>1. Members(t) = {t[j] : j \in 1..(n - 1)} /\ Members(s) = {s[j] : j \in 1..n}
    BY <1>3 DEF Members
  <2> HIDE DEF s, t, n
  <2>2. ASSUME NEW x \in Members(t) PROVE x \in Members(s) \ {s[k]}
    <3>1. PICK j \in 1..(n - 1) : x = t[j]
      BY <2>1
    <3>2. (IF j = k THEN n ELSE j) \in 1..n /\ (IF j = k THEN n ELSE j) /= k
      BY <1>1
    <3> QED BY <3>1, <3>2, <1>1, <1>6, <1>7, <2>1
  <2>3. ASSUME NEW x \in Members(s) \ {s[k]} PROVE x \in Members(t)
    <3>1. PICK i \in 1..n : x = s[i] /\ i /= k
      BY <2>1
    <3>2. CASE i = n
      <4>1. k \in 1..(n - 1) /\ t[k] = s[n]
        BY <3>1, <3>2, <1>1, <1>7
      <4> QED BY <4>1, <3>1, <3>2, <2>1
    <3>3. CASE i /= n
      <4>1. i \in 1..(n - 1) /\ t[i] = s[i]
        BY <3>1, <3>3, <1>1, <1>7
      <4> QED BY <4>1, <3>1, <2>1
    <3> QED BY <3>2, <3>3
  <2> QED BY <2>2, <2>3
<1>10. s[k] \in Members(s) /\ s[k] \in Offsets /\ ValueOf(b, s[k]) \in Values
  BY <1>1 DEF Members, IInv, FreeListsDistinct
<1>11. FreeListsDistinct'
  <2> SUFFICES ASSUME NEW c \in Blocks
               PROVE  /\ \A i, j \in 1..Len(ids'[c]) : ids'[c][i] = ids'[c][j] => i = j
                      /\ \A i \in 1..Len(ids'[c]) : ValueOf(c, ids'[c][i]) \in Values
    BY DEF FreeListsDistinct
  <2>1. CASE c = b
    <3>1. \A i \in 1..(n - 1) : t[i] \in Members(s)
      BY <1>9, <1>3 DEF Members
    <3>2. \A x \in Members(s) : ValueOf(b, x) \in Values
      BY DEF Members, IInv, FreeListsDistinct
    <3>3. \A i \in 1..(n - 1) : ValueOf(b, t[i]) \in Values
      BY <3>1, <3>2
    <3>4. ids'[c] = t /\ Len(ids'[c]) = n - 1
      BY <2>1, <1>3
    <3> HIDE DEF s, t, n
    <3> QED BY <2>1, <3>3, <3>4, <1>8
  <2>2. CASE c /= b
    BY <2>2, <1>4 DEF IInv, FreeListsDistinct
  <2> QED BY <2>1, <2>2
<1>12. AvailableIsExact'
  <2>1. ids[b] /= <<>>
    BY <1>1
  <2> QED BY <2>1, <1>3, <1>4, <1>5, TakeCount
<1>13. available' \in 0..BlockCount
  <2>1. (Cardinality(NonEmpty) \in 0..BlockCount)'
    BY BlocksFinite, PTL
  <2> QED BY <2>1, <1>12 DEF AvailableIsExact
<1>14. TypeOK'
  BY <1>5, <1>10, <1>13 DEF IInv, TypeOK
<1>15. ValueOf(b, s[k]) \in Values \ Used /\ Used' = Used \union {ValueOf(b, s[k])}
  BY <1>4, <1>5, <1>9, <1>10, TakeOffset DEF IInv
<1> QED
  BY <1>11, <1>12, <1>14, <1>15 DEF IInv, Pool!Get

-----------------------------------------------------------------------------
\* tfGetID() takes the top of a stack that is not empty.
LEMMA GenerateStep == ASSUME IInv, Generate PROVE IInv' /\ Pool!Get(got')
<1>1. PICK b \in Blocks :
         /\ IsFirst(b)
         /\ TakenFrom(b)
         /\ got' = ValueOf(b, ids[b][Len(ids[b])])
         /\ ids' = [ids EXCEPT ![b] = SubSeq(@, 1, Len(@) - 1)]
  BY DEF Generate
<1>2. ids[b] /= <<>>
  BY <1>1, FirstBlock DEF FirstIsNonEmpty, Generate
<1>3. ids \in [Blocks -> Seq(Offsets)] /\ ids[b] \in Seq(Offsets)
  BY DEF IInv, TypeOK
<1>4. Len(ids[b]) \in Nat \ {0}
  BY <1>2, <1>3
<1>5. SubSeq(ids[b], 1, Len(ids[b]) - 1) =
         [j \in 1..(Len(ids[b]) - 1) |->
            IF j = Len(ids[b]) THEN ids[b][Len(ids[b])] ELSE ids[b][j]]
  BY <1>3, <1>4
<1>6. Len(ids[b]) \in 1..Len(ids[b])
  BY <1>4
<1> QED
  BY <1>1, <1>3, <1>5, <1>6, TakeStep DEF Generate

\* tfGetID(v) moves the top of the stack to the place of v's offset.
LEMMA ReserveStep ==
    ASSUME IInv, NEW v \in Values, Reserve(v) PROVE IInv' /\ Pool!Get(got')
<1> DEFINE b == BlockOf(v)
<1>1. PICK i \in 1..Len(ids[b]) :
         /\ ids[b][i] = OffsetOf(v)
         /\ ids' = [ids EXCEPT ![b] =
                      [j \in 1..(Len(ids[b]) - 1) |->
                         IF j = i THEN @[Len(ids[b])] ELSE @[j]]]
  BY DEF Reserve
<1>2. b \in Blocks /\ ValueOf(b, ids[b][i]) = v
  BY <1>1, ValuesDecompose
<1>3. ids' = [ids EXCEPT ![b] =
                [j \in 1..(Len(ids[b]) - 1) |->
                   IF j = i THEN ids[b][Len(ids[b])] ELSE ids[b][j]]]
  BY <1>1
<1>4. TakenFrom(b) /\ timeId' = timeId /\ got' = ValueOf(b, ids[b][i])
  BY <1>2 DEF Reserve
<1> HIDE DEF b
<1> QED
  BY <1>2, <1>3, <1>4, TakeStep

\* vfFreeID puts back an offset that is not on the stack.
LEMMA FreeStep ==
    ASSUME IInv, NEW v \in Values, NEW tm \in 0..MaxTime, FreeID(v, tm)
    PROVE  IInv' /\ Pool!Release(v)
<1> DEFINE b == BlockOf(v)
           o == OffsetOf(v)
           s == ids[b]
           n == Len(ids[b])
<1>1. b \in Blocks /\ o \in Offsets /\ ValueOf(b, o) = v
  BY ValuesDecompose
<1>2. s \in Seq(Offsets) /\ n \in Nat /\ ids \in [Blocks -> Seq(Offsets)]
  BY <1>1 DEF IInv, TypeOK
<1>3. ids'[b] = Append(s, o) /\ \A c \in Blocks \ {b} : ids'[c] = ids[c]
  BY <1>1, <1>2 DEF FreeID
<1>4. /\ ids' \in [Blocks -> Seq(Offsets)]
      /\ Len(ids'[b]) = n + 1
      /\ ids'[b][n + 1] = o
      /\ \A i \in 1..n : ids'[b][i] = s[i]
  BY <1>1, <1>2, <1>3 DEF FreeID
<1>5. \A i \in 1..n : s[i] /= o
  BY DEF FreeID, IsFree, Members
<1>6. FreeListsDistinct'
  <2> SUFFICES ASSUME NEW c \in Blocks
               PROVE  /\ \A i, j \in 1..Len(ids'[c]) : ids'[c][i] = ids'[c][j] => i = j
                      /\ \A i \in 1..Len(ids'[c]) : ValueOf(c, ids'[c][i]) \in Values
    BY DEF FreeListsDistinct
  <2>1. CASE c = b
    <3>1. \A i, j \in 1..n : s[i] = s[j] => i = j
      BY <1>1 DEF IInv, FreeListsDistinct
    <3>2. \A i \in 1..n : ValueOf(b, s[i]) \in Values
      BY <1>1 DEF IInv, FreeListsDistinct
    <3> HIDE DEF b, o, s, n
    <3>3. \A i \in 1..(n + 1) : i \in 1..n \/ i = n + 1
      BY <1>2
    <3>4. \A i, j \in 1..(n + 1) : ids'[b][i] = ids'[b][j] => i = j
      BY <3>1, <3>3, <1>4, <1>5
    <3>5. \A i \in 1..(n + 1) : ValueOf(b, ids'[b][i]) \in Values
      BY <3>2, <3>3, <1>1, <1>4
    <3> QED BY <2>1, <3>4, <3>5, <1>4
  <2>2. CASE c /= b
    BY <2>2, <1>3 DEF IInv, FreeListsDistinct
  <2> QED BY <2>1, <2>2
<1>7. AvailableIsExact'
  <2>1. ids'[b] /= <<>>
    <3>1. Len(ids'[b]) /= 0 /\ Len(<<>>) = 0
      BY <1>2, <1>4
    <3> QED BY <3>1, Zenon
  <2>2. NonEmpty' = NonEmpty \union {b}
    BY <1>1, <1>3, <2>1 DEF NonEmpty
  <2>3. Cardinality(NonEmpty \union {b}) =
           IF b \in NonEmpty THEN Cardinality(NonEmpty) ELSE Cardinality(NonEmpty) + 1
    BY BlocksFinite, FS_AddElement
  <2>4. b \in NonEmpty <=> ids[b] /= <<>>
    BY <1>1 DEF NonEmpty
  <2> QED BY <2>2, <2>3, <2>4 DEF FreeID, IInv, AvailableIsExact
<1>8. TypeOK'
  <2>1. (Cardinality(NonEmpty) \in 0..BlockCount)'
    BY BlocksFinite, PTL
  <2>2. available' \in 0..BlockCount
    BY <2>1, <1>7 DEF AvailableIsExact
  <2> QED BY <1>1, <1>4, <2>2 DEF FreeID, IInv, TypeOK
<1>9. v \in Used
  BY DEF Used, FreeID
<1>10. ASSUME NEW w \in Values
       PROVE  ~ IsFree(w)' <=> ~ IsFree(w) /\ w /= v
  <2>1. BlockOf(w) \in Blocks /\ ValueOf(BlockOf(w), OffsetOf(w)) = w
    BY ValuesDecompose
  <2>2. CASE BlockOf(w) = b
    <3>1. Members(ids'[b]) = Members(s) \union {o}
      <4> HIDE DEF b, o, s, n
      <4>1. 1..(n + 1) = (1..n) \union {n + 1}
        BY <1>2
      <4>2. Members(s) = {s[i] : i \in 1..Len(s)}
        BY DEF Members
      <4>3. Len(s) = n
        BY DEF s, n
      <4>4. Members(ids'[b]) = {ids'[b][i] : i \in 1..(n + 1)}
        BY <1>4 DEF Members
      <4>5. Members(ids'[b]) = {ids'[b][i] : i \in 1..n} \union {ids'[b][n + 1]}
        BY <4>1, <4>4
      <4>6. {ids'[b][i] : i \in 1..n} = {s[i] : i \in 1..n}
        BY <1>4
      <4>7. Members(s) = {s[i] : i \in 1..n}
        BY <4>2, <4>3
      <4> QED BY <4>5, <4>6, <4>7, <1>4
    <3>2. OffsetOf(w) = o <=> w = v
      BY <1>1, <2>1, <2>2
    <3> QED BY <2>2, <3>1, <3>2, <2>1 DEF IsFree
  <2>3. CASE BlockOf(w) /= b
    BY <2>1, <2>3, <1>3 DEF IsFree
  <2> QED BY <2>2, <2>3
<1>11. Used' = Used \ {v}
  <2>1. Used' = {w \in Values : ~ IsFree(w)'}
    BY DEF Used
  <2> QED BY <2>1, <1>10 DEF Used
<1> QED
  BY <1>6, <1>7, <1>8, <1>9, <1>11 DEF IInv, Pool!Release, FreeID

-----------------------------------------------------------------------------
\* Every step of the generator keeps the invariant and is, seen from the
\* callers, a step of IdPool or no step at all.
LEMMA Step == IInv /\ [Next]_vars => IInv' /\ [Pool!Next]_(Pool!vars)
<1> SUFFICES ASSUME IInv, [Next]_vars
             PROVE  IInv' /\ [Pool!Next]_(Pool!vars)
  OBVIOUS
<1>1. CASE Generate
  <2>1. IInv' /\ Pool!Get(got')
    BY <1>1, GenerateStep
  <2>2. got' \in Values
    BY <2>1, ValuesDecompose, ValuesRecompose DEF IInv, TypeOK, Pool!Get, Used
  <2> QED BY <2>1, <2>2 DEF Pool!Next
<1>2. ASSUME NEW v \in Values, Reserve(v)
      PROVE  IInv' /\ Pool!Next
  <2>1. IInv' /\ Pool!Get(got') /\ got' = v
    BY <1>2, ReserveStep DEF Reserve
  <2> QED BY <2>1 DEF Pool!Next
<1>3. ASSUME NEW v \in Values, NEW tm \in 0..MaxTime, FreeID(v, tm)
      PROVE  IInv' /\ Pool!Next
  BY <1>3, FreeStep DEF Pool!Next
<1>4. CASE UNCHANGED vars
  <2>1. ids' = ids /\ timeId' = timeId /\ available' = available /\ got' = got
    BY <1>4 DEF vars
  <2>2. IInv'
    BY <2>1 DEF IInv, TypeOK, FreeListsDistinct, AvailableIsExact, NonEmpty
  <2>3. Used' = Used
    BY <2>1 DEF Used, IsFree
  <2> QED BY <2>1, <2>2, <2>3 DEF Pool!vars
<1> QED BY <1>1, <1>2, <1>3, <1>4 DEF Next

\* The invariant holds in every state the generator reaches.
THEOREM Invariance == Spec => []IInv
<1>1. Init => IInv
  BY InitIInv
<1>2. IInv /\ [Next]_vars => IInv'
  BY Step
<1> QED BY <1>1, <1>2, PTL DEF Spec

\* Type correctness, for every range of values and block size.
THEOREM TypeCorrectness == Spec => []TypeOK
<1>1. IInv => TypeOK
  BY DEF IInv
<1> QED BY <1>1, Invariance, PTL

\* No identifier is ever free twice, so none is handed out to two entities.
THEOREM NeverFreeTwice == Spec => []FreeListsDistinct
<1>1. IInv => FreeListsDistinct
  BY DEF IInv
<1> QED BY <1>1, Invariance, PTL

\* m_available_count is the number of blocks with a free identifier.
THEOREM CountIsExact == Spec => []AvailableIsExact
<1>1. IInv => AvailableIsExact
  BY DEF IInv
<1> QED BY <1>1, Invariance, PTL

\* std::min_element never yields an exhausted block to tfGetFromBlock.
THEOREM NeverUnderflows == Spec => []FirstIsNonEmpty
<1> QED BY FirstBlock, Invariance, PTL

\* The generator implements IdPool: an identifier it hands out is unused,
\* and stays in use until it is freed.
THEOREM Refinement == Spec => ImplementsIdPool
<1>1. Init => Pool!Init
  BY InitIInv DEF Init, Pool!Init
<1>2. IInv /\ [Next]_vars => [Pool!Next]_(Pool!vars)
  BY Step
<1> QED BY <1>1, <1>2, Invariance, PTL DEF Spec, Pool!Spec, ImplementsIdPool

-----------------------------------------------------------------------------
(* With the clock and the callers of MCIdGenerator.                        *)

\* A block's time is that of the last of its identifiers to be given back, as
\* long as that one was given back with the time it was.
TimeOfBlock(b) ==
    /\ \A v \in Values : BlockOf(v) = b => freedAt[v] <= timeId[b]
    /\ \/ timeId[b] = 0
       \/ \E v \in Values : BlockOf(v) = b /\ freedAt[v] = timeId[b]

ClockInv ==
    /\ IInv
    /\ clock \in 1..MaxTime \/ clock = 1
    /\ freedAt \in [Values -> {-1} \union 1..clock]
    /\ timely \subseteq Blocks
    /\ \A b \in timely : TimeOfBlock(b)

LEMMA ClockInit == ClockedInit => ClockInv
<1> SUFFICES ASSUME ClockedInit PROVE ClockInv
  OBVIOUS
<1>1. IInv
  BY InitIInv DEF ClockedInit
<1>2. \A b \in Blocks : timeId[b] = 0
  BY DEF ClockedInit, Init
<1>3. \A b \in Blocks : TimeOfBlock(b)
  BY <1>2 DEF ClockedInit, TimeOfBlock
<1> QED BY <1>1, <1>3 DEF ClockInv, ClockedInit

LEMMA RequestClock ==
  ASSUME ClockInv, ClockedRequest
  PROVE  ClockInv'
<1>1. UNCHANGED <<timeId, clock, freedAt, timely>>
  BY DEF ClockedRequest, Generate, Reserve
<1>2. IInv'
  BY GenerateStep, ReserveStep DEF ClockedRequest, ClockInv
<1>3. \A b \in timely : TimeOfBlock(b)'
  BY <1>1 DEF ClockInv, TimeOfBlock
<1> QED BY <1>1, <1>2, <1>3 DEF ClockInv

LEMMA FreeClock ==
  ASSUME ClockInv, NEW v \in Values, NEW t \in 0..MaxTime, ClockedFree(v, t)
  PROVE  ClockInv'
<1>1. /\ t \in {0, clock} /\ FreeID(v, t) /\ clock' = clock
      /\ freedAt' = [freedAt EXCEPT ![v] = clock]
      /\ timely' = IF t = clock THEN timely \union {BlockOf(v)} ELSE timely \ {BlockOf(v)}
  BY DEF ClockedFree
<1>2. IInv'
  BY <1>1, FreeStep DEF ClockInv
<1>3. BlockOf(v) \in Blocks
  BY ValuesDecompose
<1>4. clock \in Nat \ {0} /\ freedAt \in [Values -> {-1} \union 1..clock]
  BY DEF ClockInv
<1>5. /\ freedAt' \in [Values -> {-1} \union 1..clock]
      /\ freedAt'[v] = clock /\ \A w \in Values : w /= v => freedAt'[w] = freedAt[w]
  BY <1>1, <1>4
<1>6. /\ timeId'[BlockOf(v)] = t
      /\ \A b \in Blocks : b /= BlockOf(v) => timeId'[b] = timeId[b]
  BY <1>1, <1>3 DEF FreeID, ClockInv, IInv, TypeOK
<1>7. ASSUME NEW b \in timely' PROVE TimeOfBlock(b)'
  <2>1. CASE b = BlockOf(v)
    <3>1. timeId'[b] = clock
      BY <1>1, <1>6, <1>7, <2>1
    <3>2. \A w \in Values : freedAt'[w] <= clock
      BY <1>4, <1>5
    <3> QED BY <1>5, <2>1, <3>1, <3>2 DEF TimeOfBlock
  <2>2. CASE b /= BlockOf(v)
    <3>1. b \in timely /\ b \in Blocks /\ TimeOfBlock(b)
      BY <1>1, <1>7, <2>2 DEF ClockInv
    <3>2. timeId'[b] = timeId[b] /\ \A w \in Values : BlockOf(w) = b => freedAt'[w] = freedAt[w]
      BY <1>5, <1>6, <2>2, <3>1
    <3> QED BY <3>1, <3>2 DEF TimeOfBlock
  <2> QED BY <2>1, <2>2
<1>8. timely' \subseteq Blocks
  BY <1>1, <1>3 DEF ClockInv
<1> QED BY <1>1, <1>2, <1>5, <1>7, <1>8 DEF ClockInv

LEMMA TickClock ==
  ASSUME ClockInv, Tick
  PROVE  ClockInv'
<1>1. /\ clock < MaxTime /\ clock' = clock + 1
      /\ UNCHANGED <<ids, timeId, available, got, freedAt, timely>>
  BY DEF Tick, vars
<1>2. IInv'
  BY <1>1 DEF ClockInv, IInv, TypeOK, FreeListsDistinct, AvailableIsExact, NonEmpty
<1>3. clock' \in 1..MaxTime
  BY <1>1, GeneratorAssumption DEF ClockInv
<1>4. freedAt' \in [Values -> {-1} \union 1..clock']
  <2>1. clock \in Nat /\ freedAt \in [Values -> {-1} \union 1..clock]
    BY DEF ClockInv
  <2>2. {-1} \union 1..clock \subseteq {-1} \union 1..clock'
    BY <1>1, <2>1
  <2> QED BY <1>1, <2>1, <2>2
<1>5. \A b \in timely : TimeOfBlock(b)'
  BY <1>1 DEF ClockInv, TimeOfBlock
<1> QED BY <1>1, <1>2, <1>3, <1>4, <1>5 DEF ClockInv

THEOREM ClockInvariance == ClockedSpec => []ClockInv
<1>1. ASSUME ClockInv, UNCHANGED clockVars PROVE ClockInv'
  BY <1>1 DEF clockVars, vars, ClockInv, IInv, TypeOK, FreeListsDistinct,
              AvailableIsExact, NonEmpty, TimeOfBlock
<1>2. ClockInv /\ [ClockedNext]_clockVars => ClockInv'
  BY <1>1, RequestClock, FreeClock, TickClock DEF ClockedNext
<1> QED BY <1>2, ClockInit, PTL DEF ClockedSpec

\* What Generate returns of a block was given back no later than the time of
\* that block, and no other block has an earlier time.
LEMMA OldestFirst ==
  ASSUME ClockInv, Generate, NEW v \in Values, got' = v, freedAt[v] >= 0,
         BlockOf(v) \in timely, NEW c \in NonEmpty \intersect timely
  PROVE  \E w \in Values : BlockOf(w) = c /\ freedAt[w] >= freedAt[v]
<1>1. PICK b \in Blocks : IsFirst(b) /\ got' = ValueOf(b, ids[b][Len(ids[b])])
  BY DEF Generate
<1>2. ids[b] /= <<>>
  BY <1>1, FirstBlock DEF ClockInv, Generate, FirstIsNonEmpty
<1>3. b = BlockOf(v)
  <2>1. Len(ids[b]) \in 1..Len(ids[b]) /\ ids[b] \in Seq(Offsets)
    BY <1>2 DEF ClockInv, IInv, TypeOK
  <2>2. ids[b][Len(ids[b])] \in Offsets
    BY <2>1
  <2> QED BY <1>1, <2>2, ValuesRecompose
<1>4. c \in Blocks /\ ids[c] /= <<>>
  BY DEF NonEmpty
<1>5. timeId[c] >= timeId[b] /\ timeId[b] \in Nat /\ timeId[c] \in Nat
  <2>1. timeId[b] \in Nat /\ timeId[c] \in Nat
    BY <1>4, GeneratorAssumption DEF ClockInv, IInv, TypeOK
  <2>2. ~ Older(c, b)
    BY <1>1, <1>4 DEF IsFirst
  <2> QED BY <1>4, <2>1, <2>2 DEF Older
<1>6. freedAt[v] <= timeId[b] /\ freedAt[v] \in Nat \ {0}
  BY <1>3 DEF ClockInv, TimeOfBlock
<1>7. PICK w \in Values : BlockOf(w) = c /\ freedAt[w] = timeId[c]
  BY <1>5, <1>6 DEF ClockInv, TimeOfBlock
<1> QED BY <1>5, <1>6, <1>7

\* The identifier that a request returns rested as long as the blocks allow,
\* whatever was given back with the time 0 meanwhile (id_generator.h:31-34,
\* 93-95, 115).
THEOREM RestsAsLongAsPossible == ClockedSpec => RestsLongest
<1> DEFINE Rest ==
      \A v \in Values :
          (Generate /\ got' = v /\ freedAt[v] >= 0 /\ BlockOf(v) \in timely)
             => \A c \in NonEmpty \intersect timely :
                   \E w \in Values : BlockOf(w) = c /\ freedAt[w] >= freedAt[v]
<1>1. ClockInv => Rest
  BY OldestFirst
<1>2. ClockInv => [Rest]_clockVars
  BY <1>1
<1> HIDE DEF Rest
<1>3. ClockedSpec => [][Rest]_clockVars
  BY <1>2, ClockInvariance, PTL
<1> QED BY <1>3 DEF RestsLongest, Rest
=============================================================================
