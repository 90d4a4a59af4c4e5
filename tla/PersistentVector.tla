------------------------- MODULE PersistentVector --------------------------
(***************************************************************************)
(* The persistent vector of vector.cc: a radix tree of arrays with at most *)
(* Width entries (32 in the code) and a tail of the newest elements.       *)
(* Arrays are cells of a heap that vectors share, so that a write to a     *)
(* cell another version can reach shows. Levels are counted in units of    *)
(* the code's 5 bits. A behaviour makes versions from earlier versions;    *)
(* contents holds what each of them is meant to be.                        *)
(***************************************************************************)
EXTENDS Integers, Sequences, SequencesExt

CONSTANTS
    Width,       \* entries of an array
    MaxLength,   \* bound: elements of a vector
    MaxForks     \* bound: versions not made by conj from the newest one

ASSUME VectorAssumption ==
    Width \in Nat \ {0, 1} /\ MaxLength \in Nat /\ MaxForks \in Nat

VARIABLES
    arrays,    \* the arrays: sequences of elements or of indices of arrays
    versions,  \* the vectors made so far
    contents,  \* the elements each of them should have
    forks      \* versions that were not made from the newest one

vectorVars == <<arrays, versions, contents, forks>>

NoArray == 0        \* no array
EmptyArray == 1     \* the cell of ArrayImpl::EMPTY
OutOfBounds == -1   \* nth throws

EmptyVector == [cnt |-> 0, shift |-> 1, root |-> EmptyArray, tail |-> EmptyArray]

\* A new array with the entries a: all the arrays after it and its cell.
NewArray(h, a) == [arrays |-> Append(h, a), node |-> Len(h) + 1]

TailOffset(h, v) == v.cnt - Len(h[v.tail])

\* i shifted right by so many levels.
Right(i, levels) ==
    LET shifted[n \in 0 .. levels] == IF n = 0 THEN i ELSE shifted[n - 1] \div Width
    IN shifted[levels]

\* The entry for index i in an array of the given level.
Digit(i, level) == 1 + (Right(i, level) % Width)

\* Element i, for an index that is not negative.
Nth(h, v, i) ==
    LET array[n \in 0 .. v.shift] ==
            IF n = 0 THEN v.root ELSE h[array[n - 1]][Digit(i, v.shift - n + 1)]
    IN IF i >= v.cnt THEN OutOfBounds
       ELSE IF i >= TailOffset(h, v) THEN h[v.tail][Digit(i, 0)]
       ELSE h[array[v.shift]][Digit(i, 0)]

FaultGrow(h, array, child) ==
    IF Len(h[array]) = Width
    THEN [arrays |-> Append(h, <<child>>), node |-> array, expansion |-> Len(h) + 1]
    ELSE [arrays |-> [h EXCEPT ![array] = Append(@, child)], node |-> array,
          expansion |-> NoArray]

\* One more child for an array, or, if it is full, a new array beside it.
Grow(h, array, child) ==
    IF Len(h[array]) = Width
    THEN [arrays |-> Append(h, <<child>>), node |-> array, expansion |-> Len(h) + 1]
    ELSE [arrays |-> Append(h, Append(h[array], child)), node |-> Len(h) + 1,
          expansion |-> NoArray]

\* A copy of the last child of the array that was copied before.
LastCopied(copy) == NewArray(copy.arrays, copy.arrays[Last(copy.arrays[copy.node])])

\* A copy of an array with what its last child has become, or its expansion.
WithChild(array, sub) ==
    LET fresh == NewArray(sub.arrays, sub.arrays[array])
    IN IF sub.expansion # NoArray THEN Grow(sub.arrays, array, sub.expansion)
       ELSE [arrays |-> [fresh.arrays EXCEPT ![fresh.node][Len(sub.arrays[array])] = sub.node],
             node |-> fresh.node, expansion |-> NoArray]

\* The array with the tail as a new leaf: on the way down the last child of each
\* array is copied and handed on, on the way back each is copied with its child.
PushTail(h, level, array, tail) ==
    LET copies[n \in 0 .. level] ==
            IF n = 0 THEN [arrays |-> h, node |-> array] ELSE LastCopied(copies[n - 1])
        pushed[n \in 0 .. level] ==
            IF n = 0 THEN Grow(copies[level].arrays, copies[level].node, tail)
            ELSE WithChild(copies[level - n].node, pushed[n - 1])
    IN pushed[level]

\* conj: the arrays after it and the new vector.
ConjOf(h, v, x) ==
    IF Len(h[v.tail]) < Width
    THEN LET t == NewArray(h, Append(h[v.tail], x))
         IN [arrays |-> t.arrays,
             vector |-> [cnt |-> v.cnt + 1, shift |-> v.shift, root |-> v.root, tail |-> t.node]]
    ELSE LET p == PushTail(h, v.shift - 1, v.root, v.tail)
             top == IF p.expansion = NoArray THEN [arrays |-> p.arrays, node |-> p.node]
                    ELSE NewArray(p.arrays, <<p.node, p.expansion>>)
             t == NewArray(top.arrays, <<x>>)
         IN [arrays |-> t.arrays,
             vector |-> [cnt |-> v.cnt + 1,
                         shift |-> IF p.expansion = NoArray THEN v.shift ELSE v.shift + 1,
                         root |-> top.node, tail |-> t.node]]

-----------------------------------------------------------------------------
FaultIteratorTrue(v, start) == start + 1 < v.cnt

\* An iterator is a vector and a start; its size is unsigned in the code, so
\* that it is truthy everywhere but at the end, past the end too.
IteratorTrue(v, start) == start # v.cnt

\* What a program sees that takes first while the rest is true.
Visited(h, v) ==
    LET rest[start \in 0 .. v.cnt + 1] ==
            IF start > v.cnt THEN <<OutOfBounds>>
            ELSE IF ~IteratorTrue(v, start) THEN << >>
            ELSE <<Nth(h, v, start)>> \o rest[start + 1]
    IN IF v.cnt # 0 THEN <<Nth(h, v, 0)>> \o rest[1] ELSE << >>

\* add: conj of the elements of the iterator, one by one.
AddOf(h, v, w, start) ==
    LET added[n \in 0 .. w.cnt - start] ==
            IF n = 0 THEN [arrays |-> h, vector |-> v]
            ELSE ConjOf(added[n - 1].arrays, added[n - 1].vector,
                        Nth(added[n - 1].arrays, w, start + n - 1))
    IN added[w.cnt - start]

-----------------------------------------------------------------------------
VectorInit ==
    /\ arrays = <<<< >>>>
    /\ versions = <<EmptyVector>>
    /\ contents = <<<< >>>>
    /\ forks = 0

\* A version was made: it is the newest one now.
Made(made, elements) ==
    /\ arrays' = made.arrays
    /\ versions' = Append(versions, made.vector)
    /\ contents' = Append(contents, elements)

\* conj to any version; elements are numbered, so that no two are equal.
Conj(k) ==
    /\ versions[k].cnt < MaxLength
    /\ forks' = forks + (IF k = Len(versions) THEN 0 ELSE 1)
    /\ forks' <= MaxForks
    /\ Made(ConjOf(arrays, versions[k], Len(versions)), Append(contents[k], Len(versions)))

\* add of a vector (start is 0) or of an iterator over one. An iterator past
\* the end, which next of an empty vector is, makes nth throw.
Add(k, j, start) ==
    /\ start <= versions[j].cnt
    /\ versions[k].cnt + versions[j].cnt - start <= MaxLength
    /\ forks < MaxForks
    /\ forks' = forks + 1
    /\ Made(AddOf(arrays, versions[k], versions[j], start),
            contents[k] \o SubSeq(contents[j], start + 1, versions[j].cnt))

VectorNext ==
    \/ \E k \in DOMAIN versions : Conj(k)
    \/ \E k, j \in DOMAIN versions, start \in 0 .. 2 : Add(k, j, start)

VectorSpec == VectorInit /\ [][VectorNext]_vectorVars

-----------------------------------------------------------------------------
\* Every version ever made still is the sequence it was made as, whatever was
\* made from it since, across the sizes at which the tail is pushed and the
\* root grows; an index past the end throws (nth, conj, pushTail).
VersionsKeepContents ==
    \A k \in DOMAIN versions :
        LET v == versions[k] IN
        /\ v.cnt = Len(contents[k])
        /\ \A i \in 0 .. v.cnt + Width :
               Nth(arrays, v, i) = IF i < v.cnt THEN contents[k][i + 1] ELSE OutOfBounds

\* A loop over first and next visits each element of the newest version once,
\* in order, and ends before nth throws (VectorImpl::_next, VectorIteratorImpl).
IterationVisitsAll == Visited(arrays, Last(versions)) = Last(contents)
=============================================================================
