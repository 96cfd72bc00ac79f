---------------------------- MODULE IdGenerator ----------------------------
(***************************************************************************)
(* CID_Generator of xrGame/id_generator.h, the allocator of the 16-bit     *)
(* identifiers of server entities.  The values MinValue..MaxValue are cut  *)
(* into blocks of BlockSize; a block is a stack of the offsets that are    *)
(* free in it and the time it was last given one back.  A request takes    *)
(* the top of the stack of the block that has been left alone the longest, *)
(* so that an identifier that was just freed is not reused at once: a      *)
(* message about the dead entity may still be on its way.                  *)
(***************************************************************************)
EXTENDS Integers, Sequences, FiniteSets

CONSTANTS
    MinValue,       \* tMinValue
    MaxValue,       \* tMaxValue
    BlockSize,      \* tBlockSize
    InvalidValue,   \* tInvalidValueID, "any identifier will do"
    MaxTime         \* the largest time a caller passes to vfFreeID

ASSUME GeneratorAssumption ==
    /\ MinValue \in Nat
    /\ MaxValue \in Nat
    /\ MinValue <= MaxValue
    /\ BlockSize \in Nat \ {0}
    /\ InvalidValue \in Nat
    /\ InvalidValue \notin MinValue..MaxValue
    /\ MaxTime \in Nat

Values == MinValue..MaxValue
BlockCount == (MaxValue - MinValue) \div BlockSize + 1
Blocks == 0..(BlockCount - 1)
Offsets == 0..(BlockSize - 1)

VARIABLES
    ids,            \* m_tpIDs[0 .. m_tCount - 1] of every block
    timeId,         \* m_tTimeID of every block
    available,      \* m_available_count
    got             \* what the last tfGetID returned

vars == <<ids, timeId, available, got>>

BlockOf(v) == (v - MinValue) \div BlockSize
OffsetOf(v) == (v - MinValue) % BlockSize
ValueOf(b, o) == b * BlockSize + o + MinValue

Members(s) == {s[i] : i \in 1..Len(s)}
IsFree(v) == OffsetOf(v) \in Members(ids[BlockOf(v)])

\* Faults: a definition explained as a fault is not used.  It is an error a
\* change of the code could bring in, and one the properties notice.  Here
\* the youngest block comes first.
Younger(b, c) == ids[b] /= <<>> /\ (timeId[b] > timeId[c] \/ ids[c] = <<>>)

\* SID_Block::operator<
Older(b, c) ==
    /\ ids[b] /= <<>>
    /\ timeId[b] < timeId[c] \/ ids[c] = <<>>

\* std::min_element: the first of the blocks that no other one precedes.
IsFirst(b) ==
    /\ \A c \in Blocks : ~ Older(c, b)
    /\ \A c \in Blocks : c < b => Older(b, c)

-----------------------------------------------------------------------------
\* The constructor frees every value in turn and reverses every block, so
\* that the smallest value of a block is on top.
BlockLength(b) ==
    IF b = BlockCount - 1 THEN OffsetOf(MaxValue) + 1 ELSE BlockSize

Init ==
    /\ ids = [b \in Blocks |->
                 [i \in 1..BlockLength(b) |-> BlockLength(b) - i]]
    /\ timeId = [b \in Blocks |-> 0]
    /\ available = BlockCount
    /\ got = InvalidValue

\* A fault: the last identifier of a block is taken without counting it out.
TakenUncounted(b) == available' = available

\* The part of tfGetFromBlock before the two ways of picking the offset.
TakenFrom(b) ==
    available' = IF Len(ids[b]) = 1 THEN available - 1 ELSE available

\* A fault: the offset in the range is returned, not the value.
GenerateOffset ==
    /\ available > 0
    /\ \E b \in Blocks :
          /\ IsFirst(b)
          /\ TakenFrom(b)
          /\ got' = b * BlockSize + ids[b][Len(ids[b])]
          /\ ids' = [ids EXCEPT ![b] = SubSeq(@, 1, Len(@) - 1)]
    /\ UNCHANGED timeId

\* tfGetID(): the top of the oldest block.
Generate ==
    /\ available > 0
    /\ \E b \in Blocks :
          /\ IsFirst(b)
          /\ TakenFrom(b)
          /\ got' = ValueOf(b, ids[b][Len(ids[b])])
          /\ ids' = [ids EXCEPT ![b] = SubSeq(@, 1, Len(@) - 1)]
    /\ UNCHANGED timeId

\* A fault: the stack is shortened, and the top takes nobody's place.
ReserveTop(v) ==
    LET b == BlockOf(v)
    IN  /\ IsFree(v)
        /\ ids' = [ids EXCEPT ![b] = SubSeq(@, 1, Len(@) - 1)]
        /\ TakenFrom(b)
        /\ got' = v
        /\ UNCHANGED timeId

\* tfGetID(v): the offset of v is overwritten by the top of its block.  A v
\* that is in use stops the program ("Requesting ID has already been used!").
Reserve(v) ==
    LET b == BlockOf(v)
        n == Len(ids[b])
    IN  /\ \E i \in 1..n :
              /\ ids[b][i] = OffsetOf(v)
              /\ ids' = [ids EXCEPT ![b] =
                            [j \in 1..(n - 1) |-> IF j = i THEN @[n] ELSE @[j]]]
        /\ TakenFrom(b)
        /\ got' = v
        /\ UNCHANGED timeId

\* vfFreeID(v, t), of an identifier that was handed out.
FreeID(v, t) ==
    LET b == BlockOf(v)
    IN  /\ ~ IsFree(v)
        /\ available' = IF ids[b] = <<>> THEN available + 1 ELSE available
        /\ ids' = [ids EXCEPT ![b] = Append(@, OffsetOf(v))]
        /\ timeId' = [timeId EXCEPT ![b] = t]
        /\ UNCHANGED got

Next ==
    \/ Generate
    \/ \E v \in Values : Reserve(v)
    \/ \E v \in Values, t \in 0..MaxTime : FreeID(v, t)

Spec == Init /\ [][Next]_vars

-----------------------------------------------------------------------------
TypeOK ==
    /\ ids \in [Blocks -> Seq(Offsets)]
    /\ timeId \in [Blocks -> 0..MaxTime]
    /\ available \in 0..BlockCount
    /\ got \in Values \union {InvalidValue}

\* No identifier is listed as free twice, and none beyond MaxValue is: two
\* entities would otherwise be given one identifier
\* (the DEBUG-only search of vfFreeID, id_generator.h:110-113).
FreeListsDistinct ==
    \A b \in Blocks :
        /\ \A i, j \in 1..Len(ids[b]) : ids[b][i] = ids[b][j] => i = j
        /\ \A i \in 1..Len(ids[b]) : ValueOf(b, ids[b][i]) \in Values

NonEmpty == {b \in Blocks : ids[b] /= <<>>}

\* m_available_count, which is kept incrementally by three functions, is the
\* number of blocks that have a free identifier: "Not enough IDs" is raised
\* when there is none, and never while there is one.
AvailableIsExact == available = Cardinality(NonEmpty)

\* The block Generate takes from always has an identifier
\* (the VERIFY(m_tCount) of tfGetFromBlock; m_tCount is unsigned); it follows
\* from AvailableIsExact and the order of the blocks (IdGeneratorProofs).
FirstIsNonEmpty ==
    available > 0 => \A b \in Blocks : IsFirst(b) => ids[b] /= <<>>

Used == {v \in Values : ~ IsFree(v)}

Pool == INSTANCE IdPool WITH used <- Used, NoValue <- InvalidValue

\* The generator hands out only unused identifiers, and keeps them in use
\* until they are freed: it implements IdPool.
ImplementsIdPool == Pool!Spec
=============================================================================
