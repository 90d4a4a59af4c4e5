------------------------- MODULE CollectionsProofs --------------------------
(***************************************************************************)
(* Proofs about the collections. The vector, for any width and any length: *)
(* a version stays the sequence it was made as, and iteration visits it    *)
(* once. The map, for any hashes of any width and number of levels: it is  *)
(* a function, and assoc throws exactly on a hash that is taken.           *)
(***************************************************************************)
EXTENDS PersistentVector, PersistentMap, FiniteSetTheorems, SequenceTheorems, WellFoundedInduction, TLAPS

(* Induction over the naturals is by the least number.                     *)

Below == {r \in Nat \X Nat : r[1] < r[2]}

LEMMA Least == ASSUME NEW S \in SUBSET Nat, S # {}
               PROVE  \E n \in S : \A m \in S : n <= m
<1>1. IsWellFoundedOn(Below, Nat)
  BY Zenon, NatLessThanWellFounded DEF OpToRel, Below
<1>2. PICK n \in S : \A m \in S : <<m, n>> \notin Below
  BY <1>1, WFMin, Zenon
<1>3. ASSUME NEW m \in S
      PROVE  n <= m
  <2>1. <<m, n>> \in Nat \X Nat /\ <<m, n>> \notin Below
    BY <1>2
  <2>2. ~(m < n)
    BY <2>1 DEF Below
  <2>3. QED BY <2>2
<1>4. QED BY <1>3

-----------------------------------------------------------------------------
(* The recursive functions of the model are all of one kind: from a value  *)
(* on, a step for each number. e is what else a step depends on.           *)

Step(kind, e, x, n) ==
    CASE kind = "right" -> x \div Width
      [] kind = "nth" -> e.h[x][Digit(e.i, e.shift - n + 1)]
      [] kind = "copies" -> LastCopied(x)
      [] kind = "pushed" -> WithChild(e.copies[e.level - n].node, x)
      [] kind = "added" -> ConjOf(x.arrays, x.vector, Nth(x.arrays, e.w, e.start + n - 1))
      [] kind = "way" -> Child(x, e)
      [] kind = "down" -> Opened(Child(x, Hash[e]), n, e)
      [] kind = "up" -> Renewed(e.down[Levels - n], e.key, e.val, x)
      [] kind = "row" -> NextLevel(x)
      [] kind = "flatten" -> x \o e[n + 1]

Running(f, n, kind, e, a) == f = [l \in 0 .. n |-> IF l = 0 THEN a ELSE Step(kind, e, f[l - 1], l)]

LEMMA RunningIs ==
    ASSUME NEW f, NEW n \in Nat, NEW kind, NEW e, NEW a, Running(f, n, kind, e, a)
    PROVE  f[0] = a /\ \A l \in 1 .. n : f[l] = Step(kind, e, f[l - 1], l)
<1> HIDE DEF Step
<1>1. QED BY DEF Running

LEMMA RunningExists ==
    ASSUME NEW kind, NEW e, NEW a, NEW n \in Nat
    PROVE  \E f : Running(f, n, kind, e, a)
<1> DEFINE Failing == {m \in Nat : ~\E f : Running(f, m, kind, e, a)}
<1>1. SUFFICES ASSUME Failing # {} PROVE FALSE
  OBVIOUS
<1>2. PICK m \in Failing : \A k \in Failing : m <= k
  BY <1>1, Least
<1>3. m # 0
  <2> DEFINE g == [l \in 0 .. 0 |-> a]
  <2>1. Running(g, 0, kind, e, a)
    BY DEF Running
  <2>2. QED BY <1>2, <2>1
<1>4. m \in Nat /\ m - 1 \in Nat /\ m - 1 \notin Failing
  BY <1>2, <1>3
<1>5. PICK g : Running(g, m - 1, kind, e, a)
  BY <1>4
<1> DEFINE h == [l \in 0 .. m |-> IF l < m THEN g[l] ELSE Step(kind, e, g[m - 1], m)]
<1>6. Running(h, m, kind, e, a)
  <2> HIDE DEF Step
  <2>1. g[0] = a /\ \A l \in 1 .. m - 1 : g[l] = Step(kind, e, g[l - 1], l)
    BY <1>4, <1>5, RunningIs
  <2>2. ASSUME NEW l \in 0 .. m
        PROVE  h[l] = IF l = 0 THEN a ELSE Step(kind, e, h[l - 1], l)
    <3>1. CASE l = 0
      BY <1>3, <1>4, <2>1, <3>1
    <3>2. CASE l \in 1 .. m - 1
      <4>1. h[l] = g[l] /\ h[l - 1] = g[l - 1] /\ l # 0
        BY <1>4, <3>2
      <4>2. QED BY <2>1, <3>2, <4>1
    <3>3. CASE l = m
      <4>1. h[l] = Step(kind, e, g[m - 1], m) /\ h[l - 1] = g[m - 1] /\ l # 0
        BY <1>3, <1>4, <3>3
      <4>2. QED BY <3>3, <4>1
    <3>4. QED BY <1>4, <3>1, <3>2, <3>3
  <2>3. h = [l \in 0 .. m |-> h[l]]
    OBVIOUS
  <2> HIDE DEF h
  <2>4. QED BY <2>2, <2>3 DEF Running
<1>7. QED BY <1>2, <1>6

\* Two of them with the same start and the same steps agree.
LEMMA RunningAgree ==
    ASSUME NEW kind, NEW e, NEW a, NEW n \in Nat, NEW m \in Nat,
           NEW f, Running(f, n, kind, e, a), NEW g, Running(g, m, kind, e, a),
           NEW l \in Nat, l <= n, l <= m
    PROVE  f[l] = g[l]
<1> DEFINE Failing == {k \in Nat : k <= n /\ k <= m /\ f[k] # g[k]}
<1>1. SUFFICES ASSUME Failing # {} PROVE FALSE
  OBVIOUS
<1>2. PICK k \in Failing : \A j \in Failing : k <= j
  <2>1. Failing \in SUBSET Nat
    OBVIOUS
  <2> HIDE DEF Failing
  <2>2. QED BY <1>1, <2>1, Least
<1> HIDE DEF Step
<1>3. /\ f[0] = a /\ \A j \in 1 .. n : f[j] = Step(kind, e, f[j - 1], j)
      /\ g[0] = a /\ \A j \in 1 .. m : g[j] = Step(kind, e, g[j - 1], j)
  BY RunningIs
<1>4. k # 0
  BY <1>2, <1>3
<1>5. k - 1 \in Nat /\ k - 1 <= n /\ k - 1 <= m /\ k - 1 \notin Failing /\ k \in 1 .. n /\ k \in 1 .. m
  BY <1>2, <1>4
<1>6. f[k - 1] = g[k - 1]
  BY <1>5
<1>7. f[k] = g[k]
  BY <1>3, <1>5, <1>6
<1>8. QED BY <1>2, <1>7

LEMMA StepRight == ASSUME NEW e, NEW x, NEW n PROVE Step("right", e, x, n) = x \div Width
BY DEF Step

LEMMA StepNth == ASSUME NEW e, NEW x, NEW n
                 PROVE  Step("nth", e, x, n) = e.h[x][Digit(e.i, e.shift - n + 1)]
BY DEF Step

LEMMA StepCopies == ASSUME NEW e, NEW x, NEW n PROVE Step("copies", e, x, n) = LastCopied(x)
BY DEF Step

LEMMA StepPushed == ASSUME NEW e, NEW x, NEW n
                    PROVE  Step("pushed", e, x, n) = WithChild(e.copies[e.level - n].node, x)
BY DEF Step

LEMMA StepAdded == ASSUME NEW e, NEW x, NEW n
                   PROVE  Step("added", e, x, n) =
                              ConjOf(x.arrays, x.vector, Nth(x.arrays, e.w, e.start + n - 1))
BY DEF Step

LEMMA StepWay == ASSUME NEW e, NEW x, NEW n PROVE Step("way", e, x, n) = Child(x, e)
BY DEF Step

LEMMA StepDown == ASSUME NEW e, NEW x, NEW n PROVE Step("down", e, x, n) = Opened(Child(x, Hash[e]), n, e)
BY DEF Step

LEMMA StepUp == ASSUME NEW e, NEW x, NEW n
                PROVE  Step("up", e, x, n) = Renewed(e.down[Levels - n], e.key, e.val, x)
BY DEF Step

LEMMA StepRow == ASSUME NEW e, NEW x, NEW n PROVE Step("row", e, x, n) = NextLevel(x)
BY DEF Step

LEMMA StepFlatten == ASSUME NEW e, NEW x, NEW n PROVE Step("flatten", e, x, n) = x \o e[n + 1]
BY DEF Step

-----------------------------------------------------------------------------
(* Indices shifted to the right.                                           *)

LEMMA RightIs ==
    ASSUME NEW i, NEW n \in Nat
    PROVE  \E f : Running(f, n, "right", 0, i) /\ Right(i, n) = f[n]
<1> DEFINE Body(g) == [l \in 0 .. n |-> IF l = 0 THEN i ELSE g[l - 1] \div Width]
           f == CHOOSE g : g = Body(g)
<1>1. ASSUME NEW g
      PROVE  Running(g, n, "right", 0, i) <=> g = Body(g)
  <2> DEFINE Run == [l \in 0 .. n |-> IF l = 0 THEN i ELSE Step("right", 0, g[l - 1], l)]
  <2>1. Run = Body(g)
    <3> HIDE DEF Step
    <3>1. \A x, l : Step("right", 0, x, l) = x \div Width
      BY StepRight
    <3>2. QED BY <3>1
  <2>2. QED BY <2>1 DEF Running
<1>2. f = Body(f)
  <2>1. PICK g : Running(g, n, "right", 0, i)
    BY RunningExists
  <2>2. g = Body(g)
    BY <1>1, <2>1
  <2> HIDE DEF Body
  <2>3. QED BY <2>2, Zenon
<1>3. Right(i, n) = f[n]
  BY Zenon DEF Right
<1> HIDE DEF f, Body
<1>4. QED BY <1>1, <1>2, <1>3, Zenon

LEMMA RightNone == ASSUME NEW i PROVE Right(i, 0) = i
<1>1. PICK f : Running(f, 0, "right", 0, i) /\ Right(i, 0) = f[0]
  BY RightIs
<1>2. QED BY <1>1, RunningIs

LEMMA RightMore == ASSUME NEW i, NEW n \in Nat
                   PROVE  Right(i, n + 1) = Right(i, n) \div Width
<1>1. PICK f : Running(f, n, "right", 0, i) /\ Right(i, n) = f[n]
  BY RightIs
<1>2. PICK g : Running(g, n + 1, "right", 0, i) /\ Right(i, n + 1) = g[n + 1]
  BY RightIs
<1>3. g[n] = f[n]
  BY <1>1, <1>2, RunningAgree
<1>4. g[n + 1] = Step("right", 0, g[n], n + 1)
  <2>1. \A l \in 1 .. n + 1 : g[l] = Step("right", 0, g[l - 1], l)
    BY <1>2, RunningIs
  <2> HIDE DEF Step
  <2>2. QED BY <2>1
<1>5. QED BY <1>1, <1>2, <1>3, <1>4, StepRight

LEMMA RightNat == ASSUME NEW i \in Nat, NEW n \in Nat
                  PROVE  Right(i, n) \in Nat
<1> DEFINE Failing == {m \in Nat : Right(i, m) \notin Nat}
<1>1. SUFFICES ASSUME Failing # {} PROVE FALSE
  OBVIOUS
<1>2. PICK m \in Failing : \A k \in Failing : m <= k
  BY <1>1, Least
<1>3. m # 0
  BY <1>2, RightNone
<1>4. m - 1 \in Nat /\ Right(i, m - 1) \in Nat
  BY <1>2, <1>3
<1>5. Right(i, m) = Right(i, m - 1) \div Width
  BY <1>4, RightMore
<1>6. Right(i, m) \in Nat
  BY <1>4, <1>5, VectorAssumption
<1>7. QED BY <1>2, <1>6

\* Shifting first by one level and then by n.
LEMMA RightFirst == ASSUME NEW i \in Nat, NEW n \in Nat
                    PROVE  Right(i \div Width, n) = Right(i, n + 1)
<1> DEFINE Failing == {m \in Nat : Right(i \div Width, m) # Right(i, m + 1)}
<1>1. SUFFICES ASSUME Failing # {} PROVE FALSE
  OBVIOUS
<1>2. PICK m \in Failing : \A k \in Failing : m <= k
  BY <1>1, Least
<1>3. m # 0
  BY <1>2, RightNone, RightMore
<1>4. m - 1 \in Nat /\ Right(i \div Width, m - 1) = Right(i, m)
  BY <1>2, <1>3
<1>5. Right(i \div Width, m) = Right(i \div Width, m - 1) \div Width
  BY <1>4, RightMore
<1>6. Right(i, m + 1) = Right(i, m) \div Width
  BY <1>2, RightMore
<1>7. QED BY <1>2, <1>4, <1>5, <1>6

LEMMA RightUp == ASSUME NEW i \in Nat, NEW j \in Nat, i <= j, NEW n \in Nat
                 PROVE  Right(i, n) <= Right(j, n)
<1> DEFINE Failing == {m \in Nat : ~(Right(i, m) <= Right(j, m))}
<1>1. SUFFICES ASSUME Failing # {} PROVE FALSE
  OBVIOUS
<1>2. PICK m \in Failing : \A k \in Failing : m <= k
  BY <1>1, Least
<1>3. m # 0
  BY <1>2, RightNone
<1>4. m - 1 \in Nat /\ Right(i, m - 1) <= Right(j, m - 1)
  BY <1>2, <1>3
<1>5. Right(i, m) = Right(i, m - 1) \div Width /\ Right(j, m) = Right(j, m - 1) \div Width
  BY <1>4, RightMore
<1>6. Right(i, m - 1) \in Nat /\ Right(j, m - 1) \in Nat
  BY <1>4, RightNat
<1>7. Right(i, m) <= Right(j, m)
  BY <1>4, <1>5, <1>6, VectorAssumption
<1>8. QED BY <1>2, <1>7

\* Whether the next number shifted by n is one more: where it is at n + 1, it
\* is at n, and the digit there turns from the last one to zero.
Carries(i, n) == Right(i + 1, n) = Right(i, n) + 1

LEMMA RightNext ==
    ASSUME NEW i \in Nat, NEW n \in Nat
    PROVE  /\ Carries(i, n) \/ Right(i + 1, n) = Right(i, n)
           /\ Carries(i, n + 1) <=> Carries(i, n) /\ Right(i, n) % Width = Width - 1
           /\ Carries(i, n) /\ Right(i, n) % Width = Width - 1 => Right(i + 1, n) % Width = 0
           /\ Carries(i, n) /\ Right(i, n) % Width # Width - 1 =>
                  Right(i + 1, n) % Width = (Right(i, n) % Width) + 1
<1> DEFINE Same(m) == Carries(i, m) \/ Right(i + 1, m) = Right(i, m)
<1>1. ASSUME NEW m \in Nat, Same(m)
      PROVE  /\ Carries(i, m + 1) \/ Right(i + 1, m + 1) = Right(i, m + 1)
             /\ Carries(i, m + 1) <=> Carries(i, m) /\ Right(i, m) % Width = Width - 1
             /\ Carries(i, m) /\ Right(i, m) % Width = Width - 1 => Right(i + 1, m) % Width = 0
             /\ Carries(i, m) /\ Right(i, m) % Width # Width - 1 =>
                    Right(i + 1, m) % Width = (Right(i, m) % Width) + 1
  <2>1. Right(i, m) \in Nat /\ Right(i + 1, m) \in Nat
    <3>1. i + 1 \in Nat
      OBVIOUS
    <3>2. QED BY <3>1, RightNat
  <2>2. /\ Right(i + 1, m + 1) = Right(i + 1, m) \div Width
        /\ Right(i, m + 1) = Right(i, m) \div Width
    BY RightMore
  <2>3. ASSUME NEW x \in Nat
        PROVE  /\ x % Width = Width - 1 => (x + 1) \div Width = x \div Width + 1
                                           /\ (x + 1) % Width = 0
               /\ x % Width # Width - 1 => (x + 1) \div Width = x \div Width
                                           /\ (x + 1) % Width = (x % Width) + 1
               /\ x \div Width \in Nat
    BY VectorAssumption
  <2>4. QED BY <1>1, <2>1, <2>2, <2>3 DEF Carries
<1> DEFINE Failing == {m \in Nat : ~Same(m)}
<1>2. Failing = {}
  <2>1. SUFFICES ASSUME Failing # {} PROVE FALSE
    OBVIOUS
  <2>2. PICK m \in Failing : \A k \in Failing : m <= k
    BY <2>1, Least
  <2>3. m # 0
    BY <2>2, RightNone DEF Carries
  <2>4. m - 1 \in Nat /\ Same(m - 1)
    BY <2>2, <2>3
  <2>5. Same(m)
    <3> HIDE DEF Carries
    <3>1. Same((m - 1) + 1)
      BY <1>1, <2>4
    <3>2. (m - 1) + 1 = m
      BY <2>2
    <3>3. QED BY <3>1, <3>2
  <2>6. QED BY <2>2, <2>5
<1>3. Same(n)
  BY <1>2
<1>4. QED BY <1>1, <1>3

-----------------------------------------------------------------------------
(* The heap only grows.                                                    *)

Arrays == Seq(Nat)
Heaps == Seq(Arrays)

Cells(h) == 1 .. Len(h)

Grown(h, g) == Cells(h) \subseteq Cells(g) /\ \A c \in Cells(h) : g[c] = h[c]

LEMMA GrownTwice == ASSUME NEW h, NEW g, NEW k, Grown(h, g), Grown(g, k)
                    PROVE  Grown(h, k)
BY DEF Grown

LEMMA GrownSelf == ASSUME NEW h PROVE Grown(h, h)
BY DEF Grown

LEMMA NewArrayIs ==
    ASSUME NEW h \in Heaps, NEW a \in Arrays, NEW new, new = NewArray(h, a)
    PROVE  /\ new.arrays \in Heaps /\ Grown(h, new.arrays)
           /\ new.node \in Cells(new.arrays) /\ new.arrays[new.node] = a
           /\ new.node = Len(h) + 1 /\ new.arrays = Append(h, a)
BY DEF NewArray, Heaps, Grown, Cells

\* The array in cell x: n entries, child the last of them and before it those of old.
Ends(h, x, old, child, n) ==
    /\ x \in Cells(h)
    /\ Len(h[x]) = n
    /\ h[x][n] = child
    /\ \A j \in 1 .. n - 1 : h[x][j] = old[j]

\* What pushing made of an array: the array with the new child in its cell.
Fresh(s) == IF s.expansion # NoArray THEN s.expansion ELSE s.node

\* Pushing child below an array, which becomes one with n entries or, where
\* this carries, stays and has one beside it.
Pushed(s, h, array, child, n, carries) ==
    /\ s.arrays \in Heaps
    /\ Grown(h, s.arrays)
    /\ s.expansion # NoArray <=> carries
    /\ carries => s.node = array
    /\ Ends(s.arrays, Fresh(s), h[array], child, n)

LEMMA GrowIs ==
    ASSUME NEW h \in Heaps, NEW array \in Cells(h), NEW child \in Nat, NEW s,
           s = Grow(h, array, child)
    PROVE  /\ Len(h[array]) = Width => Pushed(s, h, array, child, 1, TRUE)
           /\ Len(h[array]) # Width => Pushed(s, h, array, child, Len(h[array]) + 1, FALSE)
<1>1. h[array] \in Arrays
  BY DEF Heaps, Cells
<1>2. ASSUME Len(h[array]) = Width
      PROVE  Pushed(s, h, array, child, 1, TRUE)
  <2> DEFINE one == <<child>>
  <2>1. one \in Arrays /\ Len(one) = 1 /\ one[1] = child
    BY DEF Arrays
  <2>2. s = [arrays |-> Append(h, one), node |-> array, expansion |-> Len(h) + 1]
    BY <1>2 DEF Grow
  <2> HIDE DEF one
  <2>3. s.arrays = Append(h, one) /\ s.node = array /\ s.expansion = Len(h) + 1
    BY <2>2
  <2>4. NewArray(h, one) = [arrays |-> s.arrays, node |-> s.expansion]
    BY <2>3 DEF NewArray
  <2>5. /\ s.arrays \in Heaps /\ Grown(h, s.arrays)
        /\ s.expansion \in Cells(s.arrays) /\ s.arrays[s.expansion] = one
    BY <2>1, <2>4, NewArrayIs
  <2>6. s.expansion # NoArray
    BY <2>3 DEF Heaps, NoArray
  <2>7. Fresh(s) = s.expansion
    BY <2>6 DEF Fresh
  <2>8. Ends(s.arrays, Fresh(s), h[array], child, 1)
    BY <2>1, <2>5, <2>7 DEF Ends
  <2>9. QED BY <2>3, <2>5, <2>6, <2>8 DEF Pushed
<1>3. ASSUME Len(h[array]) # Width
      PROVE  Pushed(s, h, array, child, Len(h[array]) + 1, FALSE)
  <2> DEFINE more == Append(h[array], child)
             n == Len(h[array])
  <2>1. /\ more \in Arrays /\ n \in Nat /\ Len(more) = n + 1 /\ more[n + 1] = child
        /\ \A j \in 1 .. n : more[j] = h[array][j]
    BY <1>1 DEF Arrays
  <2>2. s = [arrays |-> Append(h, more), node |-> Len(h) + 1, expansion |-> NoArray]
    BY <1>3 DEF Grow
  <2> HIDE DEF more
  <2>3. s.arrays = Append(h, more) /\ s.node = Len(h) + 1 /\ s.expansion = NoArray
    BY <2>2
  <2>4. NewArray(h, more) = [arrays |-> s.arrays, node |-> s.node]
    BY <2>3 DEF NewArray
  <2>5. /\ s.arrays \in Heaps /\ Grown(h, s.arrays)
        /\ s.node \in Cells(s.arrays) /\ s.arrays[s.node] = more
    BY <2>1, <2>4, NewArrayIs
  <2>7. Fresh(s) = s.node
    BY <2>3 DEF Fresh
  <2> HIDE DEF n
  <2>8. Ends(s.arrays, Fresh(s), h[array], child, n + 1)
    BY <2>1, <2>5, <2>7 DEF Ends
  <2>9. Pushed(s, h, array, child, n + 1, FALSE)
    BY <2>3, <2>5, <2>8 DEF Pushed
  <2>10. QED BY <2>9 DEF n
<1>4. QED BY <1>2, <1>3

LEMMA WithChildIs ==
    ASSUME NEW sub, sub.arrays \in Heaps, NEW array \in Cells(sub.arrays),
           Fresh(sub) \in Cells(sub.arrays), Len(sub.arrays[array]) > 0,
           NEW s, s = WithChild(array, sub), NEW n, n = Len(sub.arrays[array])
    PROVE  /\ sub.expansion = NoArray => Pushed(s, sub.arrays, array, Fresh(sub), n, FALSE)
           /\ sub.expansion # NoArray /\ n = Width => Pushed(s, sub.arrays, array, Fresh(sub), 1, TRUE)
           /\ sub.expansion # NoArray /\ n # Width =>
                  Pushed(s, sub.arrays, array, Fresh(sub), n + 1, FALSE)
<1> DEFINE h == sub.arrays
<1>1. h[array] \in Arrays
  BY DEF Heaps, Cells
<1>2. Fresh(sub) \in Nat
  BY DEF Cells
<1>3. ASSUME sub.expansion # NoArray
      PROVE  /\ n = Width => Pushed(s, h, array, Fresh(sub), 1, TRUE)
             /\ n # Width => Pushed(s, h, array, Fresh(sub), n + 1, FALSE)
  <2>1. s = Grow(h, array, Fresh(sub))
    BY <1>3 DEF WithChild, Fresh
  <2>2. QED BY <1>2, <2>1, GrowIs
<1>4. ASSUME sub.expansion = NoArray
      PROVE  Pushed(s, h, array, Fresh(sub), n, FALSE)
  <2> DEFINE new == NewArray(h, h[array])
             filled == [h[array] EXCEPT ![n] = Fresh(sub)]
  <2>1. /\ new.arrays \in Heaps /\ Grown(h, new.arrays)
        /\ new.node \in Cells(new.arrays) /\ new.arrays[new.node] = h[array]
        /\ new.node = Len(h) + 1
    BY <1>1, NewArrayIs
  <2> HIDE DEF new
  <2>2. s = [arrays |-> [new.arrays EXCEPT ![new.node][n] = Fresh(sub)], node |-> new.node,
             expansion |-> NoArray]
    BY <1>4 DEF WithChild, Fresh, new
  <2>3. s.arrays = [new.arrays EXCEPT ![new.node] = filled] /\ s.node = new.node /\ s.expansion = NoArray
    BY <2>1, <2>2
  <2>4. /\ n \in Nat \ {0} /\ filled \in Arrays /\ Len(filled) = n /\ filled[n] = Fresh(sub)
        /\ \A j \in 1 .. n - 1 : filled[j] = h[array][j]
    BY <1>1, <1>2 DEF Arrays
  <2> HIDE DEF filled
  <2>5. s.arrays \in Heaps /\ Len(s.arrays) = Len(new.arrays)
    BY <2>1, <2>3, <2>4 DEF Heaps, Cells
  <2>6. s.arrays[s.node] = filled /\ s.node \in Cells(s.arrays)
    BY <2>1, <2>3, <2>5 DEF Heaps, Cells
  <2>7. Grown(h, s.arrays)
    <3>1. \A c \in Cells(h) : c # new.node
      BY <2>1 DEF Heaps, Cells
    <3>2. Cells(s.arrays) = Cells(new.arrays) /\ Cells(h) \subseteq Cells(new.arrays)
      BY <2>1, <2>5 DEF Cells, Grown
    <3>3. \A c \in Cells(h) : s.arrays[c] = new.arrays[c]
      BY <2>1, <2>3, <3>1, <3>2 DEF Heaps, Cells
    <3>4. QED BY <2>1, <3>2, <3>3 DEF Grown
  <2>8. Fresh(s) = s.node
    BY <2>3 DEF Fresh
  <2>9. Ends(s.arrays, Fresh(s), h[array], Fresh(sub), n)
    <3> HIDE DEF Fresh
    <3>1. QED BY <2>4, <2>6, <2>8 DEF Ends
  <2>10. QED BY <2>3, <2>5, <2>7, <2>9 DEF Pushed
<1>5. QED BY <1>3, <1>4

-----------------------------------------------------------------------------
(* The tree. Arrays of a level are numbered from the left, and P[l][x] is  *)
(* the cell of array x at level l; level 0 has the leaves, 0 to t, and the *)
(* highest level has the root alone.                                       *)

\* The last array of a level.
Edge(h, P, t, l) == h[P[l][Right(t, l)]]

Tree(h, root, shift, t, P) ==
    /\ shift \in Nat \ {0} /\ t \in Nat
    /\ Right(t, shift) = 0 /\ P[shift][0] = root
    /\ P \in [0 .. shift -> [Nat -> Nat]]
    /\ \A l \in 0 .. shift, x \in Nat : x <= Right(t, l) => P[l][x] \in Cells(h)
    /\ \A l \in 1 .. shift : Len(Edge(h, P, t, l)) = 1 + (Right(t, l - 1) % Width)
    /\ \A l \in 1 .. shift, x \in Nat :
           x <= Right(t, l - 1) => h[P[l][x \div Width]][1 + (x % Width)] = P[l - 1][x]

LEMMA EdgeIs ==
    ASSUME NEW h \in Heaps, NEW root, NEW shift, NEW t, NEW P, Tree(h, root, shift, t, P),
           NEW l \in 0 .. shift
    PROVE  /\ P[l][Right(t, l)] \in Cells(h)
           /\ Edge(h, P, t, l) \in Arrays
           /\ l > 0 => Last(Edge(h, P, t, l)) = P[l - 1][Right(t, l - 1)]
<1>1. l \in Nat /\ t \in Nat
  BY DEF Tree
<1>2. Right(t, l) \in Nat
  BY <1>1, RightNat
<1>3. P[l][Right(t, l)] \in Cells(h)
  <2>1. \A m \in 0 .. shift, x \in Nat : x <= Right(t, m) => P[m][x] \in Cells(h)
    BY Zenon DEF Tree
  <2>2. Right(t, l) <= Right(t, l)
    BY <1>2
  <2>3. QED BY <1>2, <2>1, <2>2, Zenon
<1>4. Edge(h, P, t, l) \in Arrays
  BY <1>3 DEF Edge, Heaps, Cells
<1>5. ASSUME l > 0
      PROVE  Last(Edge(h, P, t, l)) = P[l - 1][Right(t, l - 1)]
  <2>1. l - 1 \in Nat /\ l \in 1 .. shift
    BY <1>1, <1>5
  <2>2. Right(t, l - 1) \in Nat /\ Right(t, (l - 1) + 1) = Right(t, l - 1) \div Width
    BY <1>1, <2>1, RightNat, RightMore
  <2>3. Right(t, l) = Right(t, l - 1) \div Width
    <3>1. (l - 1) + 1 = l
      BY <1>1
    <3>2. QED BY <2>2, <3>1
  <2>4. h[P[l][Right(t, l - 1) \div Width]][1 + (Right(t, l - 1) % Width)] = P[l - 1][Right(t, l - 1)]
    <3>1. \A m \in 1 .. shift, x \in Nat :
              x <= Right(t, m - 1) => h[P[m][x \div Width]][1 + (x % Width)] = P[m - 1][x]
      BY Zenon DEF Tree
    <3>2. Right(t, l - 1) <= Right(t, l - 1)
      BY <2>2
    <3>3. QED BY <2>1, <2>2, <3>1, <3>2, Zenon
  <2>5. Len(Edge(h, P, t, l)) = 1 + (Right(t, l - 1) % Width)
    BY <2>1 DEF Tree
  <2>6. QED BY <2>3, <2>4, <2>5 DEF Edge, Last
<1>6. QED BY <1>3, <1>4, <1>5

\* Going down, the last array of each level is copied.
Copied(c, h, shift, t, P, d) ==
    /\ c[d].arrays \in Heaps
    /\ Grown(h, c[d].arrays)
    /\ c[d].node \in Cells(c[d].arrays)
    /\ c[d].arrays[c[d].node] = Edge(h, P, t, shift - d)
    /\ \A j \in 0 .. d : Grown(c[j].arrays, c[d].arrays)

LEMMA CopiedAll ==
    ASSUME NEW h \in Heaps, NEW root, NEW shift, NEW t, NEW P, Tree(h, root, shift, t, P),
           NEW c, NEW e, Running(c, shift - 1, "copies", e, [arrays |-> h, node |-> root]),
           NEW d \in 0 .. shift - 1
    PROVE  Copied(c, h, shift, t, P, d)
<1>1. shift \in Nat \ {0} /\ shift - 1 \in Nat
  <2>1. shift \in Nat \ {0}
    BY Zenon DEF Tree
  <2>2. QED BY <2>1
<1>2. c[0].arrays = h /\ c[0].node = root /\ \A k \in 1 .. shift - 1 : c[k] = LastCopied(c[k - 1])
  <2>1. /\ c[0] = [arrays |-> h, node |-> root]
        /\ \A k \in 1 .. shift - 1 : c[k] = Step("copies", e, c[k - 1], k)
    BY <1>1, RunningIs
  <2> HIDE DEF Step
  <2>2. c[0].arrays = h /\ c[0].node = root
    BY <2>1
  <2>3. ASSUME NEW k \in 1 .. shift - 1
        PROVE  c[k] = LastCopied(c[k - 1])
    <3>1. c[k] = Step("copies", e, c[k - 1], k)
      BY <2>1
    <3>2. QED BY <3>1, StepCopies, Zenon
  <2>4. QED BY <2>2, <2>3
<1> DEFINE Failing == {k \in Nat : k <= shift - 1 /\ ~Copied(c, h, shift, t, P, k)}
<1>3. SUFFICES ASSUME Failing # {} PROVE FALSE
  BY <1>1
<1>4. PICK k \in Failing : \A j \in Failing : k <= j
  <2>1. Failing \in SUBSET Nat
    OBVIOUS
  <2> HIDE DEF Failing
  <2>2. QED BY <1>3, <2>1, Least
<1>5. Copied(c, h, shift, t, P, 0)
  <2>1. root \in Cells(h) /\ h[root] = Edge(h, P, t, shift)
    <3>1. Right(t, shift) = 0 /\ P[shift][0] = root
      BY DEF Tree
    <3>2. QED BY <1>1, <3>1, EdgeIs DEF Edge
  <2>2. QED BY <1>1, <1>2, <2>1, GrownSelf DEF Copied
<1>6. k # 0
  BY <1>4, <1>5
<1>7. k - 1 \in Nat /\ k \in 1 .. shift - 1 /\ Copied(c, h, shift, t, P, k - 1)
  BY <1>1, <1>4, <1>6
<1> DEFINE b == c[k - 1]
           l == shift - k + 1
<1>8. c[k] = LastCopied(b)
  BY <1>2, <1>7
<1>9. l \in 1 .. shift /\ l - 1 = shift - k /\ l = shift - (k - 1) /\ l - 1 \in 0 .. shift
  BY <1>1, <1>7
<1> HIDE DEF l
<1>10. /\ b.arrays \in Heaps /\ Grown(h, b.arrays) /\ b.node \in Cells(b.arrays)
       /\ b.arrays[b.node] = Edge(h, P, t, l)
       /\ \A j \in 0 .. k - 1 : Grown(c[j].arrays, b.arrays)
  BY <1>7, <1>9 DEF Copied
<1>11. Last(b.arrays[b.node]) = P[l - 1][Right(t, l - 1)]
  BY <1>9, <1>10, EdgeIs
<1>12. b.arrays[Last(b.arrays[b.node])] = Edge(h, P, t, l - 1) /\ Edge(h, P, t, l - 1) \in Arrays
  <2>1. P[l - 1][Right(t, l - 1)] \in Cells(h) /\ Edge(h, P, t, l - 1) \in Arrays
    BY <1>9, EdgeIs
  <2>2. QED BY <1>10, <1>11, <2>1 DEF Grown, Edge
<1> HIDE DEF b
<1>13. /\ c[k].arrays \in Heaps /\ Grown(b.arrays, c[k].arrays)
       /\ c[k].node \in Cells(c[k].arrays) /\ c[k].arrays[c[k].node] = Edge(h, P, t, l - 1)
  BY <1>8, <1>10, <1>12, NewArrayIs DEF LastCopied
<1>14. \A j \in 0 .. k : Grown(c[j].arrays, c[k].arrays)
  <2>1. ASSUME NEW j \in 0 .. k
        PROVE  Grown(c[j].arrays, c[k].arrays)
    <3>1. CASE j = k
      BY <3>1, GrownSelf
    <3>2. CASE j # k
      <4>1. Grown(c[j].arrays, b.arrays)
        BY <1>7, <1>10, <3>2
      <4>2. QED BY <1>13, <4>1, GrownTwice
    <3>3. QED BY <3>1, <3>2
  <2>2. QED BY <2>1
<1>15. Grown(h, c[k].arrays)
  BY <1>10, <1>13, GrownTwice
<1>16. Copied(c, h, shift, t, P, k)
  BY <1>9, <1>13, <1>14, <1>15 DEF Copied
<1>17. QED BY <1>4, <1>16

\* What pushing a leaf after leaf t does to the last array of a level: sized
\* by the digit of t, it gets the size of the digit of t + 1.
LEMMA PushedFirst ==
    ASSUME NEW t \in Nat, NEW h \in Heaps, NEW array \in Cells(h), NEW child \in Nat,
           Len(h[array]) = 1 + (Right(t, 0) % Width), NEW s, s = Grow(h, array, child)
    PROVE  Pushed(s, h, array, child, 1 + (Right(t + 1, 0) % Width), Carries(t, 1))
<1>1. Carries(t, 0)
  BY RightNone DEF Carries
<1>2. /\ Carries(t, 0 + 1) <=> Carries(t, 0) /\ Right(t, 0) % Width = Width - 1
      /\ Carries(t, 0) /\ Right(t, 0) % Width = Width - 1 => Right(t + 1, 0) % Width = 0
      /\ Carries(t, 0) /\ Right(t, 0) % Width # Width - 1 =>
             Right(t + 1, 0) % Width = (Right(t, 0) % Width) + 1
  BY RightNext, Zenon, 0 \in Nat
<1>3. 0 + 1 = 1
  OBVIOUS
<1>4. Width \in Nat /\ Right(t, 0) % Width \in Nat
  BY RightNone, VectorAssumption
<1> DEFINE x == Right(t, 0) % Width
           y == Right(t + 1, 0) % Width
           n == Len(h[array])
<1>5. /\ n = Width => Pushed(s, h, array, child, 1, TRUE)
      /\ n # Width => Pushed(s, h, array, child, n + 1, FALSE)
  BY GrowIs
<1>6. /\ Carries(t, 1) <=> x = Width - 1
      /\ x = Width - 1 => y = 0
      /\ x # Width - 1 => y = x + 1
  BY <1>1, <1>2, <1>3
<1>7. n = 1 + x /\ Width \in Nat /\ x \in Nat
  BY <1>4
<1> HIDE DEF x, y, n
<1>8. CASE x = Width - 1
  <2>1. n = Width /\ 1 + y = 1 /\ Carries(t, 1)
    BY <1>6, <1>7, <1>8
  <2>2. Pushed(s, h, array, child, 1 + y, TRUE)
    BY <1>5, <2>1
  <2>3. QED BY <2>1, <2>2 DEF Pushed, Carries, y
<1>9. CASE x # Width - 1
  <2>1. n # Width /\ 1 + y = n + 1 /\ ~Carries(t, 1)
    BY <1>6, <1>7, <1>9
  <2>2. Pushed(s, h, array, child, 1 + y, FALSE)
    BY <1>5, <2>1
  <2>3. QED BY <2>1, <2>2 DEF Pushed, Carries, y
<1>10. QED BY <1>8, <1>9

LEMMA PushedNext ==
    ASSUME NEW t \in Nat, NEW k \in Nat, NEW sub, sub.arrays \in Heaps,
           NEW array \in Cells(sub.arrays), Fresh(sub) \in Cells(sub.arrays),
           sub.expansion # NoArray <=> Carries(t, k),
           Len(sub.arrays[array]) = 1 + (Right(t, k) % Width), NEW s, s = WithChild(array, sub)
    PROVE  Pushed(s, sub.arrays, array, Fresh(sub), 1 + (Right(t + 1, k) % Width), Carries(t, k + 1))
<1> DEFINE x == Right(t, k) % Width
           y == Right(t + 1, k) % Width
           n == Len(sub.arrays[array])
<1>1. /\ Carries(t, k) \/ y = x
      /\ Carries(t, k + 1) <=> Carries(t, k) /\ x = Width - 1
      /\ Carries(t, k) /\ x = Width - 1 => y = 0
      /\ Carries(t, k) /\ x # Width - 1 => y = x + 1
  <2>1. Carries(t, k) \/ Right(t + 1, k) = Right(t, k)
    BY RightNext, Zenon
  <2>2. QED BY <2>1, RightNext, Zenon
<1>2. n = 1 + x /\ Width \in Nat /\ x \in Nat
  <2>1. Right(t, k) \in Nat
    BY RightNat
  <2>2. QED BY <2>1, VectorAssumption
<1>3. /\ sub.expansion = NoArray => Pushed(s, sub.arrays, array, Fresh(sub), n, FALSE)
      /\ sub.expansion # NoArray /\ n = Width => Pushed(s, sub.arrays, array, Fresh(sub), 1, TRUE)
      /\ sub.expansion # NoArray /\ n # Width => Pushed(s, sub.arrays, array, Fresh(sub), n + 1, FALSE)
  <2>1. n > 0
    BY <1>2
  <2>2. QED BY <2>1, WithChildIs
<1> HIDE DEF x, y, n
<1>4. CASE ~Carries(t, k)
  <2>1. sub.expansion = NoArray /\ 1 + y = n /\ ~Carries(t, k + 1)
    BY <1>1, <1>2, <1>4
  <2>2. Pushed(s, sub.arrays, array, Fresh(sub), 1 + y, FALSE)
    BY <1>3, <2>1
  <2>3. QED BY <2>1, <2>2 DEF Pushed, Carries, y
<1>5. CASE Carries(t, k) /\ x = Width - 1
  <2>1. sub.expansion # NoArray /\ n = Width /\ 1 + y = 1 /\ Carries(t, k + 1)
    BY <1>1, <1>2, <1>5
  <2>2. Pushed(s, sub.arrays, array, Fresh(sub), 1 + y, TRUE)
    BY <1>3, <2>1
  <2>3. QED BY <2>1, <2>2 DEF Pushed, Carries, y
<1>6. CASE Carries(t, k) /\ x # Width - 1
  <2>1. sub.expansion # NoArray /\ n # Width /\ 1 + y = n + 1 /\ ~Carries(t, k + 1)
    BY <1>1, <1>2, <1>6
  <2>2. Pushed(s, sub.arrays, array, Fresh(sub), 1 + y, FALSE)
    BY <1>3, <2>1
  <2>3. QED BY <2>1, <2>2 DEF Pushed, Carries, y
<1>7. QED BY <1>4, <1>5, <1>6

\* What is new at a level: the tail, and above it what the pushes made.
New(p, tail, l) == IF l = 0 THEN tail ELSE Fresh(p[l - 1])

\* The pushes up to number k, each into the copy of the last array of its level.
Raised(p, c, h, shift, t, P, tail, k) ==
    /\ p[k].arrays \in Heaps
    /\ Grown(c[shift - 1].arrays, p[k].arrays)
    /\ p[k].expansion # NoArray <=> Carries(t, k + 1)
    /\ Carries(t, k + 1) => p[k].node = c[shift - 1 - k].node
    /\ Ends(p[k].arrays, Fresh(p[k]), Edge(h, P, t, k + 1), New(p, tail, k),
            1 + (Right(t + 1, k) % Width))
    /\ \A j \in 0 .. k : Grown(p[j].arrays, p[k].arrays)

LEMMA RaisedAll ==
    ASSUME NEW h \in Heaps, NEW root, NEW shift, NEW t, NEW P, Tree(h, root, shift, t, P),
           NEW tail \in Cells(h), NEW c, NEW e,
           Running(c, shift - 1, "copies", e, [arrays |-> h, node |-> root]),
           NEW p, Running(p, shift - 1, "pushed", [copies |-> c, level |-> shift - 1],
                          Grow(c[shift - 1].arrays, c[shift - 1].node, tail)),
           NEW d \in 0 .. shift - 1
    PROVE  Raised(p, c, h, shift, t, P, tail, d)
<1>1. shift \in Nat \ {0} /\ shift - 1 \in Nat /\ t \in Nat
  <2>1. shift \in Nat \ {0} /\ t \in Nat
    BY Zenon DEF Tree
  <2>2. QED BY <2>1
<1> DEFINE m == shift - 1
<1>2. /\ p[0] = Grow(c[m].arrays, c[m].node, tail)
      /\ \A k \in 1 .. m : p[k] = WithChild(c[m - k].node, p[k - 1])
  <2> DEFINE r == [copies |-> c, level |-> m]
             a == Grow(c[m].arrays, c[m].node, tail)
  <2>1. p[0] = a /\ \A k \in 1 .. m : p[k] = Step("pushed", r, p[k - 1], k)
    <3>1. m \in Nat /\ Running(p, m, "pushed", r, a)
      BY <1>1
    <3> HIDE DEF Step, a, r, m
    <3>2. QED BY <3>1, RunningIs
  <2>2. r.copies = c /\ r.level = m
    OBVIOUS
  <2> HIDE DEF Step, r
  <2>3. ASSUME NEW k \in 1 .. m
        PROVE  p[k] = WithChild(c[m - k].node, p[k - 1])
    <3>1. p[k] = Step("pushed", r, p[k - 1], k)
      BY <2>1
    <3>2. p[k] = WithChild(r.copies[r.level - k].node, p[k - 1])
      BY <3>1, StepPushed, Zenon
    <3>3. QED BY <2>2, <3>2
  <2>4. QED BY <2>1, <2>3
<1>3. \A k \in 0 .. m : Copied(c, h, shift, t, P, k)
  BY CopiedAll
<1>4. ASSUME NEW k \in 0 .. m, NEW g \in Heaps, Grown(c[m].arrays, g)
      PROVE  /\ c[m - k].node \in Cells(g)
             /\ g[c[m - k].node] = Edge(h, P, t, k + 1)
             /\ Len(g[c[m - k].node]) = 1 + (Right(t, k) % Width)
  <2>1. m - k \in 0 .. m /\ shift - (m - k) = k + 1 /\ m \in 0 .. m
    BY <1>1
  <2>2. Copied(c, h, shift, t, P, m - k) /\ Copied(c, h, shift, t, P, m)
    BY <1>3, <2>1
  <2>3. /\ c[m - k].node \in Cells(c[m - k].arrays)
        /\ c[m - k].arrays[c[m - k].node] = Edge(h, P, t, k + 1)
        /\ Grown(c[m - k].arrays, c[m].arrays)
    BY <2>1, <2>2 DEF Copied
  <2>4. Grown(c[m - k].arrays, g)
    BY <1>4, <2>3, GrownTwice
  <2>5. c[m - k].node \in Cells(g) /\ g[c[m - k].node] = Edge(h, P, t, k + 1)
    BY <2>3, <2>4 DEF Grown
  <2>6. Len(Edge(h, P, t, k + 1)) = 1 + (Right(t, (k + 1) - 1) % Width)
    <3>1. k + 1 \in 1 .. shift
      BY <1>1
    <3>2. \A l \in 1 .. shift : Len(Edge(h, P, t, l)) = 1 + (Right(t, l - 1) % Width)
      BY Zenon DEF Tree
    <3>3. QED BY <3>1, <3>2
  <2>7. (k + 1) - 1 = k
    BY <1>1
  <2>8. QED BY <2>5, <2>6, <2>7
<1>5. c[m].arrays \in Heaps /\ c[m].node \in Cells(c[m].arrays) /\ Grown(h, c[m].arrays)
  BY <1>1, <1>3 DEF Copied
<1>6. Raised(p, c, h, shift, t, P, tail, 0)
  <2>1. 0 \in 0 .. m /\ m - 0 = m /\ m = shift - 1 /\ 0 + 1 = 1
    BY <1>1
  <2>2. /\ Len(c[m].arrays[c[m].node]) = 1 + (Right(t, 0) % Width)
        /\ c[m].arrays[c[m].node] = Edge(h, P, t, 1)
    <3>1. Grown(c[m].arrays, c[m].arrays)
      BY GrownSelf
    <3>2. /\ c[m - 0].arrays[c[m - 0].node] = Edge(h, P, t, 0 + 1)
          /\ Len(c[m - 0].arrays[c[m - 0].node]) = 1 + (Right(t, 0) % Width)
      <4> HIDE DEF m
      <4>1. QED BY <1>4, <1>5, <2>1, <3>1
    <3>3. QED BY <2>1, <3>2
  <2>3. tail \in Nat
    BY DEF Cells
  <2>4. Pushed(p[0], c[m].arrays, c[m].node, tail, 1 + (Right(t + 1, 0) % Width), Carries(t, 1))
    <3> HIDE DEF m
    <3>1. QED BY <1>1, <1>2, <1>5, <2>2, <2>3, PushedFirst
  <2>5. New(p, tail, 0) = tail
    BY DEF New
  <2>6. \A j \in 0 .. 0 : Grown(p[j].arrays, p[0].arrays)
    BY GrownSelf
  <2> HIDE DEF m
  <2>7. QED BY <2>1, <2>2, <2>4, <2>5, <2>6 DEF Pushed, Raised
<1>7. ASSUME NEW k \in 1 .. m, Raised(p, c, h, shift, t, P, tail, k - 1)
      PROVE  Raised(p, c, h, shift, t, P, tail, k)
  <2> DEFINE sub == p[k - 1]
             array == c[m - k].node
  <2>1. k - 1 \in Nat /\ (k - 1) + 1 = k /\ k \in Nat \ {0} /\ k \in 0 .. m
    BY <1>1
  <2>2. /\ sub.arrays \in Heaps /\ Grown(c[m].arrays, sub.arrays)
        /\ sub.expansion # NoArray <=> Carries(t, k)
        /\ Fresh(sub) \in Cells(sub.arrays)
        /\ \A j \in 0 .. k - 1 : Grown(p[j].arrays, sub.arrays)
    BY <1>7, <2>1 DEF Raised, Ends
  <2>3. p[k] = WithChild(array, sub)
    BY <1>2
  <2> HIDE DEF sub
  <2>4. /\ array \in Cells(sub.arrays) /\ sub.arrays[array] = Edge(h, P, t, k + 1)
        /\ Len(sub.arrays[array]) = 1 + (Right(t, k) % Width)
    <3> HIDE DEF m
    <3>1. QED BY <1>4, <2>1, <2>2
  <2> HIDE DEF array
  <2>5. Pushed(p[k], sub.arrays, array, Fresh(sub), 1 + (Right(t + 1, k) % Width), Carries(t, k + 1))
    BY <1>1, <2>1, <2>2, <2>3, <2>4, PushedNext
  <2>6. p[k].arrays \in Heaps /\ Grown(sub.arrays, p[k].arrays)
    BY <2>5 DEF Pushed
  <2>7. Grown(c[m].arrays, p[k].arrays)
    BY <2>2, <2>6, GrownTwice
  <2>8. ASSUME NEW j \in 0 .. k
        PROVE  Grown(p[j].arrays, p[k].arrays)
    <3>1. CASE j = k
      BY <3>1, GrownSelf
    <3>2. CASE j # k
      <4>1. Grown(p[j].arrays, sub.arrays)
        BY <2>1, <2>2, <3>2
      <4>2. QED BY <2>6, <4>1, GrownTwice
    <3>3. QED BY <3>1, <3>2
  <2>9. New(p, tail, k) = Fresh(sub)
    BY <2>1 DEF New, sub
  <2>10. /\ p[k].expansion # NoArray <=> Carries(t, k + 1)
         /\ Carries(t, k + 1) => p[k].node = array
         /\ Ends(p[k].arrays, Fresh(p[k]), Edge(h, P, t, k + 1), New(p, tail, k),
                 1 + (Right(t + 1, k) % Width))
    BY <2>4, <2>5, <2>9 DEF Pushed
  <2>11. QED BY <2>6, <2>7, <2>8, <2>10, Zenon DEF Raised, array, m
<1> DEFINE Failing == {k \in Nat : k <= m /\ ~Raised(p, c, h, shift, t, P, tail, k)}
<1>8. Failing = {}
  <2>1. SUFFICES ASSUME Failing # {} PROVE FALSE
    OBVIOUS
  <2>2. PICK k \in Failing : \A j \in Failing : k <= j
    <3>1. Failing \in SUBSET Nat
      OBVIOUS
    <3> HIDE DEF Failing
    <3>2. QED BY <2>1, <3>1, Least
  <2>3. k # 0
    BY <1>6, <2>2
  <2>4. k - 1 \in Nat /\ k \in 1 .. m /\ Raised(p, c, h, shift, t, P, tail, k - 1)
    BY <1>1, <2>2, <2>3
  <2>5. QED BY <1>7, <2>2, <2>4
<1>9. QED BY <1>1, <1>8

LEMMA PushTailIs ==
    ASSUME NEW h, NEW level \in Nat, NEW array, NEW tail
    PROVE  \E c, p : /\ Running(c, level, "copies", 0, [arrays |-> h, node |-> array])
                     /\ Running(p, level, "pushed", [copies |-> c, level |-> level],
                                Grow(c[level].arrays, c[level].node, tail))
                     /\ PushTail(h, level, array, tail) = p[level]
<1> DEFINE a == [arrays |-> h, node |-> array]
           CBody(f) == [n \in 0 .. level |-> IF n = 0 THEN [arrays |-> h, node |-> array]
                                             ELSE LastCopied(f[n - 1])]
           c == CHOOSE f : f = CBody(f)
           b == Grow(c[level].arrays, c[level].node, tail)
           r == [copies |-> c, level |-> level]
           PBody(f) == [n \in 0 .. level |-> IF n = 0 THEN Grow(c[level].arrays, c[level].node, tail)
                                             ELSE WithChild(c[level - n].node, f[n - 1])]
           p == CHOOSE f : f = PBody(f)
<1>1. ASSUME NEW f
      PROVE  Running(f, level, "copies", 0, a) <=> f = CBody(f)
  <2> DEFINE Run == [l \in 0 .. level |-> IF l = 0 THEN a ELSE Step("copies", 0, f[l - 1], l)]
  <2>1. Run = CBody(f)
    <3> HIDE DEF Step
    <3>1. \A x, l : Step("copies", 0, x, l) = LastCopied(x)
      BY StepCopies
    <3>2. QED BY <3>1, Zenon
  <2>2. QED BY <2>1 DEF Running
<1>2. c = CBody(c)
  <2>1. PICK f : Running(f, level, "copies", 0, a)
    BY RunningExists
  <2>2. f = CBody(f)
    BY <1>1, <2>1
  <2> HIDE DEF CBody
  <2>3. QED BY <2>2, Zenon
<1>3. ASSUME NEW f
      PROVE  Running(f, level, "pushed", r, b) <=> f = PBody(f)
  <2> DEFINE Run == [l \in 0 .. level |-> IF l = 0 THEN b ELSE Step("pushed", r, f[l - 1], l)]
  <2>1. Run = PBody(f)
    <3>1. r.copies = c /\ r.level = level
      <4> HIDE DEF c
      <4>1. QED OBVIOUS
    <3> HIDE DEF Step, r, c
    <3>2. \A x, l : Step("pushed", r, x, l) = WithChild(c[level - l].node, x)
      BY <3>1, StepPushed
    <3>3. QED BY <3>2, Zenon
  <2>2. QED BY <2>1 DEF Running
<1>4. p = PBody(p)
  <2>1. PICK f : Running(f, level, "pushed", r, b)
    <3> HIDE DEF r, b
    <3>1. QED BY RunningExists
  <2>2. f = PBody(f)
    BY <1>3, <2>1
  <2> HIDE DEF PBody
  <2>3. QED BY <2>2, Zenon
<1>5. PushTail(h, level, array, tail) = p[level]
  BY Zenon DEF PushTail
<1>6. Running(c, level, "copies", 0, a) /\ Running(p, level, "pushed", r, b)
  BY <1>1, <1>2, <1>3, <1>4, Zenon
<1> HIDE DEF c, p
<1>7. QED BY <1>5, <1>6, Zenon

\* What is new at each level, seen in the heap after all of it.
Lifted(X, h, shift, t, P, tail, g) ==
    /\ X \in [0 .. shift -> Nat]
    /\ X[0] = tail
    /\ \A l \in 0 .. shift : X[l] \in Cells(g)
    /\ \A l \in 1 .. shift :
           Ends(g, X[l], Edge(h, P, t, l), X[l - 1], 1 + (Right(t + 1, l - 1) % Width))

LEMMA PushedTree ==
    ASSUME NEW h \in Heaps, NEW root, NEW shift, NEW t, NEW P, Tree(h, root, shift, t, P),
           NEW tail \in Cells(h), NEW s, s = PushTail(h, shift - 1, root, tail)
    PROVE  /\ s.arrays \in Heaps
           /\ Grown(h, s.arrays)
           /\ s.expansion # NoArray <=> Carries(t, shift)
           /\ Carries(t, shift) => s.node = root
           /\ \E X : Lifted(X, h, shift, t, P, tail, s.arrays) /\ X[shift] = Fresh(s)
<1> DEFINE m == shift - 1
<1>1. shift \in Nat \ {0} /\ m \in Nat /\ t \in Nat
  <2>1. shift \in Nat \ {0} /\ t \in Nat
    BY Zenon DEF Tree
  <2>2. QED BY <2>1
<1>2. PICK c, p : /\ Running(c, m, "copies", 0, [arrays |-> h, node |-> root])
                  /\ Running(p, m, "pushed", [copies |-> c, level |-> m],
                             Grow(c[m].arrays, c[m].node, tail))
                  /\ s = p[m]
  <2>1. s = PushTail(h, m, root, tail) /\ m \in Nat
    BY <1>1
  <2> HIDE DEF m
  <2>2. \E c, p : /\ Running(c, m, "copies", 0, [arrays |-> h, node |-> root])
                  /\ Running(p, m, "pushed", [copies |-> c, level |-> m],
                             Grow(c[m].arrays, c[m].node, tail))
                  /\ PushTail(h, m, root, tail) = p[m]
    BY <2>1, PushTailIs, Zenon
  <2>3. QED BY <2>1, <2>2, Zenon
<1>3. ASSUME NEW k \in 0 .. m
      PROVE  Raised(p, c, h, shift, t, P, tail, k) /\ Copied(c, h, shift, t, P, k)
  BY <1>2, RaisedAll, CopiedAll, Zenon
<1>4. 0 \in 0 .. m /\ m \in 0 .. m /\ m + 1 = shift /\ m - m = 0 /\ m = shift - 1
  BY <1>1
<1> HIDE DEF m
<1>5. /\ s.arrays \in Heaps
      /\ Grown(c[m].arrays, s.arrays)
      /\ s.expansion # NoArray <=> Carries(t, shift)
      /\ Carries(t, shift) => s.node = c[0].node
      /\ Ends(s.arrays, Fresh(s), Edge(h, P, t, shift), New(p, tail, m), 1 + (Right(t + 1, m) % Width))
      /\ \A j \in 0 .. m : Grown(p[j].arrays, s.arrays)
  <2>1. Raised(p, c, h, shift, t, P, tail, m)
    BY <1>3, <1>4
  <2>2. QED BY <1>2, <1>4, <2>1 DEF Raised
<1>6. c[0].node = root
  <2> DEFINE a == [arrays |-> h, node |-> root]
  <2>1. c[0] = a
    <3> HIDE DEF a
    <3>1. Running(c, m, "copies", 0, a)
      BY <1>2 DEF a
    <3>2. m \in Nat
      BY <1>1
    <3>3. QED BY <3>1, <3>2, RunningIs
  <2>2. QED BY <2>1
<1>7. Grown(h, s.arrays)
  <2>1. Grown(h, c[m].arrays)
    BY <1>3, <1>4 DEF Copied
  <2>2. QED BY <1>5, <2>1, GrownTwice
<1> DEFINE X == [l \in 0 .. shift |-> New(p, tail, l)]
<1>8. X[0] = tail /\ X[shift] = Fresh(s) /\ \A l \in 1 .. shift : X[l] = Fresh(p[l - 1])
  BY <1>1, <1>2, <1>4 DEF New
<1>9. ASSUME NEW l \in 1 .. shift
      PROVE  /\ X[l] \in Cells(s.arrays)
             /\ Ends(s.arrays, X[l], Edge(h, P, t, l), X[l - 1], 1 + (Right(t + 1, l - 1) % Width))
  <2> DEFINE k == l - 1
             u == p[k]
  <2>1. k \in 0 .. m /\ k + 1 = l /\ l \in 0 .. shift /\ k \in 0 .. shift
    BY <1>1, <1>4
  <2> HIDE DEF k
  <2>2. Raised(p, c, h, shift, t, P, tail, k)
    BY <1>3, <2>1
  <2>3. Ends(u.arrays, Fresh(u), Edge(h, P, t, l), New(p, tail, k), 1 + (Right(t + 1, k) % Width))
    BY <2>1, <2>2 DEF Raised
  <2>4. Grown(u.arrays, s.arrays)
    BY <1>5, <2>1
  <2>5. X[l] = Fresh(u) /\ X[k] = New(p, tail, k)
    BY <2>1, <1>8 DEF k
  <2> HIDE DEF u, X
  <2>6. Ends(s.arrays, X[l], Edge(h, P, t, l), X[k], 1 + (Right(t + 1, k) % Width))
    BY <2>3, <2>4, <2>5 DEF Ends, Grown
  <2>7. X[l] \in Cells(s.arrays)
    BY <2>6 DEF Ends
  <2>8. QED BY <2>6, <2>7 DEF k
<1>10. tail \in Cells(s.arrays)
  BY <1>7 DEF Grown
<1>11. Lifted(X, h, shift, t, P, tail, s.arrays)
  <2>1. \A l \in 0 .. shift : X[l] \in Cells(s.arrays)
    <3> HIDE DEF X
    <3>1. QED BY <1>1, <1>8, <1>9, <1>10
  <2>2. X \in [0 .. shift -> Nat]
    BY <2>1 DEF Cells
  <2> HIDE DEF X
  <2>3. QED BY <1>8, <1>9, <2>1, <2>2 DEF Lifted
<1> HIDE DEF X
<1>12. QED BY <1>5, <1>6, <1>7, <1>8, <1>11

\* At each level the new array is the last one, as the next array or in its place.
Onto(Q, P, X, shift, t) ==
    \A l \in 0 .. shift, x \in Nat : Q[l][x] = IF x = Right(t + 1, l) THEN X[l] ELSE P[l][x]

LEMMA RightStays ==
    ASSUME NEW t \in Nat, NEW l \in Nat
    PROVE  /\ Right(t, l) \in Nat /\ Right(t + 1, l) \in Nat
           /\ Right(t + 1, l) \in {Right(t, l), Right(t, l) + 1}
           /\ Right(t, l + 1) = Right(t, l) \div Width
           /\ Right(t + 1, l + 1) = Right(t + 1, l) \div Width
           /\ Right(t + 1, l + 1) # Right(t, l + 1) => Right(t + 1, l) % Width = 0
<1>1. t + 1 \in Nat
  OBVIOUS
<1>2. Right(t, l) \in Nat /\ Right(t + 1, l) \in Nat
  BY <1>1, RightNat
<1>3. Right(t, l + 1) = Right(t, l) \div Width /\ Right(t + 1, l + 1) = Right(t + 1, l) \div Width
  BY RightMore
<1>4. Right(t + 1, l) \in {Right(t, l), Right(t, l) + 1}
  BY RightNext DEF Carries
<1>5. ASSUME Right(t + 1, l + 1) # Right(t, l + 1)
      PROVE  Right(t + 1, l) % Width = 0
  <2>1. Carries(t, l + 1)
    <3>1. Carries(t, l + 1) \/ Right(t + 1, l + 1) = Right(t, l + 1)
      <4>1. l + 1 \in Nat
        OBVIOUS
      <4>2. QED BY <4>1, RightNext, Zenon
    <3>2. QED BY <1>5, <3>1
  <2>2. Carries(t, l) /\ Right(t, l) % Width = Width - 1
    BY <2>1, RightNext, Zenon
  <2>3. QED BY <2>2, RightNext, Zenon
<1>6. QED BY <1>2, <1>3, <1>4, <1>5

LEMMA LevelCells ==
    ASSUME NEW h \in Heaps, NEW root, NEW shift, NEW t, NEW P, Tree(h, root, shift, t, P),
           NEW g, Grown(h, g), NEW tail, NEW X, Lifted(X, h, shift, t, P, tail, g),
           NEW Q, Onto(Q, P, X, shift, t), NEW l \in 0 .. shift, NEW x \in Nat, x <= Right(t + 1, l)
    PROVE  Q[l][x] \in Cells(g)
<1>1. t \in Nat /\ l \in Nat
  <2>1. shift \in Nat /\ t \in Nat
    BY Zenon DEF Tree
  <2>2. QED BY <2>1
<1>2. CASE x = Right(t + 1, l)
  BY <1>2 DEF Onto, Lifted
<1>3. CASE x # Right(t + 1, l)
  <2>1. Q[l][x] = P[l][x]
    BY <1>3 DEF Onto
  <2>2. x <= Right(t, l)
    <3>1. /\ Right(t, l) \in Nat /\ Right(t + 1, l) \in Nat
          /\ Right(t + 1, l) \in {Right(t, l), Right(t, l) + 1}
      BY <1>1, RightStays, Zenon
    <3>2. QED BY <1>3, <3>1
  <2>3. P[l][x] \in Cells(h)
    <3>1. \A m \in 0 .. shift, y \in Nat : y <= Right(t, m) => P[m][y] \in Cells(h)
      BY Zenon DEF Tree
    <3>2. QED BY <2>2, <3>1, Zenon
  <2>4. QED BY <2>1, <2>3 DEF Grown
<1>4. QED BY <1>2, <1>3

LEMMA LevelLast ==
    ASSUME NEW h \in Heaps, NEW shift \in Nat, NEW t \in Nat, NEW P,
           NEW g, NEW tail, NEW X, Lifted(X, h, shift, t, P, tail, g),
           NEW Q, Onto(Q, P, X, shift, t), NEW l \in 0 .. shift
    PROVE  Edge(g, Q, t + 1, l) = g[X[l]]
<1>1. t + 1 \in Nat /\ l \in Nat
  OBVIOUS
<1>2. Right(t + 1, l) \in Nat
  BY <1>1, RightNat
<1>3. QED BY <1>2 DEF Onto, Edge

LEMMA LevelChildren ==
    ASSUME NEW h \in Heaps, NEW root, NEW shift, NEW t, NEW P, Tree(h, root, shift, t, P),
           NEW g, Grown(h, g), NEW tail, NEW X, Lifted(X, h, shift, t, P, tail, g),
           NEW Q, Onto(Q, P, X, shift, t),
           NEW l \in 1 .. shift, NEW x \in Nat, x <= Right(t + 1, l - 1)
    PROVE  g[Q[l][x \div Width]][1 + (x % Width)] = Q[l - 1][x]
<1>1. t \in Nat /\ shift \in Nat
  BY Zenon DEF Tree
<1> DEFINE k == l - 1
           q == x \div Width
           d == x % Width
           r == Right(t, k)
           r2 == Right(t + 1, k)
           e == Right(t, l)
           e2 == Right(t + 1, l)
<1>2. k \in Nat /\ k + 1 = l /\ l \in 0 .. shift /\ k \in 0 .. shift
  BY <1>1
<1>3. /\ r \in Nat /\ r2 \in Nat /\ r2 \in {r, r + 1}
      /\ e = r \div Width /\ e2 = r2 \div Width
      /\ e2 # e => r2 % Width = 0
  <2>1. /\ Right(t, k) \in Nat /\ Right(t + 1, k) \in Nat
        /\ Right(t + 1, k) \in {Right(t, k), Right(t, k) + 1}
        /\ Right(t, k + 1) = Right(t, k) \div Width
        /\ Right(t + 1, k + 1) = Right(t + 1, k) \div Width
        /\ Right(t + 1, k + 1) # Right(t, k + 1) => Right(t + 1, k) % Width = 0
    <3> HIDE DEF k
    <3>1. QED BY <1>1, <1>2, RightStays, Zenon
  <2>2. QED BY <1>2, <2>1
<1>4. q \in Nat /\ d \in Nat /\ x <= r2
  BY <1>2, VectorAssumption
<1>5. Q[k][x] = (IF x = r2 THEN X[k] ELSE P[k][x]) /\ Q[l][q] = (IF q = e2 THEN X[l] ELSE P[l][q])
  <2>1. \A m \in 0 .. shift, y \in Nat : Q[m][y] = IF y = Right(t + 1, m) THEN X[m] ELSE P[m][y]
    BY Zenon DEF Onto
  <2> HIDE DEF q, k
  <2>2. QED BY <1>2, <1>4, <2>1, Zenon
<1>6. Ends(g, X[l], Edge(h, P, t, l), X[k], 1 + (r2 % Width))
  BY Zenon DEF Lifted
<1>7. /\ \A y \in Nat : y <= r => h[P[l][y \div Width]][1 + (y % Width)] = P[k][y]
      /\ \A y \in Nat : y <= e => P[l][y] \in Cells(h)
  <2>1. /\ \A m \in 0 .. shift, y \in Nat : y <= Right(t, m) => P[m][y] \in Cells(h)
        /\ \A m \in 1 .. shift, y \in Nat :
               y <= Right(t, m - 1) => h[P[m][y \div Width]][1 + (y % Width)] = P[m - 1][y]
    BY Zenon DEF Tree
  <2>2. QED BY <1>2, <2>1, Zenon
<1> HIDE DEF k, r, r2, e, e2
<1>8. CASE x = r2
  <2>1. q = e2
    BY <1>3, <1>8
  <2>2. g[X[l]][1 + (r2 % Width)] = X[k]
    BY <1>6 DEF Ends
  <2>3. g[Q[l][q]][1 + d] = Q[k][x]
    BY <1>5, <1>8, <2>1, <2>2
  <2>4. QED BY <2>3 DEF k
<1>9. CASE x # r2
  <2>1. x <= r /\ Q[k][x] = P[k][x]
    <3> HIDE DEF q, d
    <3>1. QED BY <1>3, <1>4, <1>5, <1>9
  <2>2. h[P[l][q]][1 + d] = P[k][x]
    BY <1>7, <2>1
  <2>3. q <= e
    BY <1>3, <2>1, VectorAssumption
  <2>4. P[l][q] \in Cells(h)
    <3> HIDE DEF q
    <3>1. QED BY <1>4, <1>7, <2>3
  <2>5. g[P[l][q]] = h[P[l][q]]
    BY <2>4 DEF Grown
  <2>6. CASE q # e2
    <3>1. g[Q[l][q]][1 + d] = Q[k][x]
      <4> HIDE DEF q, d
      <4>1. QED BY <1>5, <2>1, <2>2, <2>5, <2>6
    <3>2. QED BY <3>1 DEF k
  <2>7. CASE q = e2
    <3>1. d < r2 % Width
      BY <1>3, <1>4, <1>9, <2>7, VectorAssumption
    <3>2. e2 = e
      <4> HIDE DEF d, q
      <4>1. QED BY <1>3, <1>4, <3>1
    <3>3. 1 + d \in 1 .. (1 + (r2 % Width)) - 1
      <4>1. r2 % Width \in Nat
        BY <1>3, VectorAssumption
      <4> HIDE DEF d
      <4>2. QED BY <1>4, <3>1, <4>1
    <3>4. g[X[l]][1 + d] = Edge(h, P, t, l)[1 + d]
      <4> HIDE DEF d
      <4>1. QED BY <1>6, <3>3 DEF Ends
    <3>5. Edge(h, P, t, l) = h[P[l][q]]
      <4> HIDE DEF q
      <4>1. QED BY <2>7, <3>2 DEF Edge, e
    <3>6. g[Q[l][q]][1 + d] = Q[k][x]
      <4> HIDE DEF q, d
      <4>1. QED BY <1>5, <2>1, <2>2, <2>7, <3>4, <3>5
    <3>7. QED BY <3>6 DEF k
  <2>8. QED BY <2>6, <2>7
<1>10. QED BY <1>8, <1>9

LEMMA LiftedKept ==
    ASSUME NEW h, NEW shift, NEW t, NEW P, NEW tail, NEW X, NEW g, NEW k,
           Lifted(X, h, shift, t, P, tail, g), Grown(g, k)
    PROVE  Lifted(X, h, shift, t, P, tail, k)
<1>1. \A l \in 0 .. shift : X[l] \in Cells(k)
  BY DEF Lifted, Grown
<1>2. ASSUME NEW l \in 1 .. shift
      PROVE  Ends(k, X[l], Edge(h, P, t, l), X[l - 1], 1 + (Right(t + 1, l - 1) % Width))
  <2>1. Ends(g, X[l], Edge(h, P, t, l), X[l - 1], 1 + (Right(t + 1, l - 1) % Width))
    BY DEF Lifted
  <2>2. QED BY <2>1 DEF Ends, Grown
<1>3. QED BY <1>1, <1>2 DEF Lifted

LEMMA TreeKept ==
    ASSUME NEW h, NEW root, NEW shift, NEW t, NEW P, Tree(h, root, shift, t, P), NEW g, Grown(h, g)
    PROVE  Tree(g, root, shift, t, P)
<1>1. shift \in Nat \ {0} /\ t \in Nat
  BY Zenon DEF Tree
<1>2. \A l \in 0 .. shift, x \in Nat : x <= Right(t, l) => P[l][x] \in Cells(h) /\ g[P[l][x]] = h[P[l][x]]
  <2>1. \A l \in 0 .. shift, x \in Nat : x <= Right(t, l) => P[l][x] \in Cells(h)
    BY Zenon DEF Tree
  <2>2. QED BY <2>1, Zenon DEF Grown
<1>3. \A l \in 0 .. shift, x \in Nat : x <= Right(t, l) => P[l][x] \in Cells(g)
  BY <1>2, Zenon DEF Grown
<1>4. ASSUME NEW l \in 1 .. shift
      PROVE  /\ Len(Edge(g, P, t, l)) = 1 + (Right(t, l - 1) % Width)
             /\ \A x \in Nat : x <= Right(t, l - 1) =>
                    g[P[l][x \div Width]][1 + (x % Width)] = P[l - 1][x]
  <2>1. l \in 0 .. shift /\ l \in Nat /\ l - 1 \in Nat /\ (l - 1) + 1 = l
    BY <1>1
  <2>2. Right(t, l) \in Nat /\ Right(t, l) <= Right(t, l)
    <3>1. Right(t, l) \in Nat
      BY <1>1, <2>1, RightNat
    <3>2. QED BY <3>1
  <2>3. Edge(g, P, t, l) = Edge(h, P, t, l)
    BY <1>2, <2>1, <2>2, Zenon DEF Edge
  <2>4. Len(Edge(h, P, t, l)) = 1 + (Right(t, l - 1) % Width)
    BY Zenon DEF Tree
  <2>5. ASSUME NEW x \in Nat, x <= Right(t, l - 1)
        PROVE  g[P[l][x \div Width]][1 + (x % Width)] = P[l - 1][x]
    <3>1. h[P[l][x \div Width]][1 + (x % Width)] = P[l - 1][x]
      <4>1. \A m \in 1 .. shift, y \in Nat :
                y <= Right(t, m - 1) => h[P[m][y \div Width]][1 + (y % Width)] = P[m - 1][y]
        BY Zenon DEF Tree
      <4>2. QED BY <2>5, <4>1, Zenon
    <3>2. Right(t, l - 1) \in Nat /\ Right(t, l) = Right(t, l - 1) \div Width
      <4>1. Right(t, l - 1) \in Nat /\ Right(t, (l - 1) + 1) = Right(t, l - 1) \div Width
        BY <1>1, <2>1, RightNat, RightMore, Zenon
      <4>2. QED BY <2>1, <4>1
    <3>3. x \div Width \in Nat /\ x \div Width <= Right(t, l)
      BY <2>5, <3>2, VectorAssumption
    <3> DEFINE q == x \div Width
    <3>4. g[P[l][q]] = h[P[l][q]]
      <4> HIDE DEF q
      <4>1. QED BY <1>2, <2>1, <3>3, Zenon DEF q
    <3>5. QED BY <3>1, <3>4
  <2>6. QED BY <2>3, <2>4, <2>5
<1>5. /\ Right(t, shift) = 0 /\ P[shift][0] = root
      /\ P \in [0 .. shift -> [Nat -> Nat]]
  BY Zenon DEF Tree
<1>6. QED BY <1>1, <1>3, <1>4, <1>5, Zenon DEF Tree

\* The leaves of a tree with one leaf more.
Leaves(Q, P, t, tail) == Q[0][t + 1] = tail /\ \A x \in 0 .. t : Q[0][x] = P[0][x]

LEMMA LeavesOnto ==
    ASSUME NEW Q, NEW P, NEW X, NEW shift \in Nat, NEW t \in Nat, Onto(Q, P, X, shift, t)
    PROVE  Leaves(Q, P, t, X[0])
<1>1. Right(t + 1, 0) = t + 1
  BY RightNone
<1>2. QED BY <1>1 DEF Onto, Leaves

LEMMA TreeAsHigh ==
    ASSUME NEW h \in Heaps, NEW root, NEW shift, NEW t, NEW P, Tree(h, root, shift, t, P),
           NEW g, Grown(h, g), NEW tail, NEW X, Lifted(X, h, shift, t, P, tail, g),
           ~Carries(t, shift)
    PROVE  \E Q : Tree(g, X[shift], shift, t + 1, Q) /\ Leaves(Q, P, t, tail)
<1> DEFINE Q == [l \in 0 .. shift |-> [x \in Nat |-> IF x = Right(t + 1, l) THEN X[l] ELSE P[l][x]]]
<1>1. shift \in Nat \ {0} /\ t \in Nat /\ t + 1 \in Nat /\ shift \in 0 .. shift
  <2>1. shift \in Nat \ {0} /\ t \in Nat
    BY Zenon DEF Tree
  <2>2. QED BY <2>1
<1>2. Q \in [0 .. shift -> [Nat -> Nat]]
  <2>1. P \in [0 .. shift -> [Nat -> Nat]]
    BY Zenon DEF Tree
  <2>2. X \in [0 .. shift -> Nat]
    BY DEF Lifted
  <2>3. QED BY <2>1, <2>2
<1>3. Onto(Q, P, X, shift, t)
  BY DEF Onto
<1>4. Right(t + 1, shift) = 0
  <2>1. Right(t, shift) = 0
    BY Zenon DEF Tree
  <2>2. Carries(t, shift) \/ Right(t + 1, shift) = Right(t, shift)
    BY <1>1, RightNext, Zenon
  <2>3. QED BY <2>1, <2>2
<1> HIDE DEF Q
<1>5. Q[shift][0] = X[shift]
  BY <1>1, <1>3, <1>4 DEF Onto
<1>6. \A l \in 0 .. shift, x \in Nat : x <= Right(t + 1, l) => Q[l][x] \in Cells(g)
  BY <1>3, LevelCells
<1>7. ASSUME NEW l \in 1 .. shift
      PROVE  Len(Edge(g, Q, t + 1, l)) = 1 + (Right(t + 1, l - 1) % Width)
  <2>1. Edge(g, Q, t + 1, l) = g[X[l]]
    <3>1. l \in 0 .. shift /\ shift \in Nat /\ t \in Nat
      BY <1>1
    <3>2. QED BY <1>3, <3>1, LevelLast
  <2>2. QED BY <2>1 DEF Lifted, Ends
<1>8. \A l \in 1 .. shift, x \in Nat : x <= Right(t + 1, l - 1) =>
          g[Q[l][x \div Width]][1 + (x % Width)] = Q[l - 1][x]
  BY <1>3, LevelChildren
<1>9. Tree(g, X[shift], shift, t + 1, Q)
  BY <1>1, <1>2, <1>4, <1>5, <1>6, <1>7, <1>8, Zenon DEF Tree
<1>10. Leaves(Q, P, t, tail)
  <2>1. X[0] = tail /\ shift \in Nat
    BY <1>1 DEF Lifted
  <2>2. QED BY <1>1, <1>3, <2>1, LeavesOnto
<1>11. QED BY <1>9, <1>10

LEMMA TreeHigher ==
    ASSUME NEW h \in Heaps, NEW root, NEW shift, NEW t, NEW P, Tree(h, root, shift, t, P),
           NEW g, Grown(h, g), NEW tail, NEW X, Lifted(X, h, shift, t, P, tail, g),
           Carries(t, shift), NEW top \in Cells(g),
           Len(g[top]) = 2, g[top][1] = root, g[top][2] = X[shift]
    PROVE  \E Q : Tree(g, top, shift + 1, t + 1, Q) /\ Leaves(Q, P, t, tail)
<1> DEFINE z == shift + 1
           Q == [l \in 0 .. z |-> [x \in Nat |-> IF l = z THEN top
                                                 ELSE IF x = Right(t + 1, l) THEN X[l] ELSE P[l][x]]]
<1>1. /\ shift \in Nat \ {0} /\ t \in Nat /\ t + 1 \in Nat /\ shift \in 0 .. shift
      /\ z \in Nat \ {0} /\ z - 1 = shift /\ z \in 0 .. z
  <2>1. shift \in Nat \ {0} /\ t \in Nat
    BY Zenon DEF Tree
  <2>2. QED BY <2>1
<1>2. Q \in [0 .. z -> [Nat -> Nat]]
  <2>1. P \in [0 .. shift -> [Nat -> Nat]]
    BY Zenon DEF Tree
  <2>2. X \in [0 .. shift -> Nat]
    BY DEF Lifted
  <2>3. top \in Nat
    BY DEF Cells
  <2>4. \A l \in 0 .. z : l # z => l \in 0 .. shift
    BY <1>1
  <2> HIDE DEF z
  <2>5. QED BY <2>1, <2>2, <2>3, <2>4
<1>3. Onto(Q, P, X, shift, t)
  BY <1>1 DEF Onto
<1>4. Right(t, shift) = 0 /\ P[shift][0] = root
  BY Zenon DEF Tree
<1>5. Right(t + 1, shift) = 1 /\ Right(t + 1, z) = 0
  <2>1. Right(t + 1, shift) = 1
    BY <1>4 DEF Carries
  <2>2. Right(t + 1, shift + 1) = 1 \div Width
    BY <1>1, <2>1, RightMore
  <2>3. 1 \div Width = 0
    BY VectorAssumption
  <2>4. QED BY <2>1, <2>2, <2>3
<1>6. \A x \in Nat : Q[z][x] = top
  BY <1>1
<1>7. Q[shift][0] = root /\ Q[shift][1] = X[shift]
  <2> HIDE DEF Q
  <2>1. \A x \in Nat : Q[shift][x] = IF x = Right(t + 1, shift) THEN X[shift] ELSE P[shift][x]
    BY <1>1, <1>3, Zenon DEF Onto
  <2>2. Q[shift][0] = P[shift][0] /\ Q[shift][1] = X[shift]
    BY <1>5, <2>1
  <2>3. QED BY <1>4, <2>2
<1> HIDE DEF Q, z
<1>8. \A l \in 0 .. z, x \in Nat : x <= Right(t + 1, l) => Q[l][x] \in Cells(g)
  <2>1. ASSUME NEW l \in 0 .. z, NEW x \in Nat, x <= Right(t + 1, l)
        PROVE  Q[l][x] \in Cells(g)
    <3>1. CASE l = z
      BY <1>6, <3>1
    <3>2. CASE l # z
      <4>1. l \in 0 .. shift
        BY <1>1, <3>2 DEF z
      <4>2. QED BY <1>3, <2>1, <4>1, LevelCells
    <3>3. QED BY <3>1, <3>2
  <2>2. QED BY <2>1
<1>9. ASSUME NEW l \in 1 .. z
      PROVE  Len(Edge(g, Q, t + 1, l)) = 1 + (Right(t + 1, l - 1) % Width)
  <2>1. CASE l = z
    <3>1. Edge(g, Q, t + 1, z) = g[top]
      BY <1>5, <1>6 DEF Edge
    <3>2. Right(t + 1, z - 1) = 1
      BY <1>1, <1>5
    <3>3. 1 % Width = 1
      BY VectorAssumption
    <3>4. 1 + (Right(t + 1, z - 1) % Width) = 2
      BY <3>2, <3>3
    <3>5. QED BY <2>1, <3>1, <3>4
  <2>2. CASE l # z
    <3>1. l \in 1 .. shift /\ l \in 0 .. shift /\ shift \in Nat /\ t \in Nat
      BY <1>1, <2>2 DEF z
    <3>2. Edge(g, Q, t + 1, l) = g[X[l]]
      BY <1>3, <3>1, LevelLast
    <3>3. QED BY <3>1, <3>2 DEF Lifted, Ends
  <2>3. QED BY <2>1, <2>2
<1>10. \A l \in 1 .. z, x \in Nat : x <= Right(t + 1, l - 1) =>
           g[Q[l][x \div Width]][1 + (x % Width)] = Q[l - 1][x]
  <2>1. ASSUME NEW l \in 1 .. z, NEW x \in Nat, x <= Right(t + 1, l - 1)
        PROVE  g[Q[l][x \div Width]][1 + (x % Width)] = Q[l - 1][x]
    <3>1. CASE l = z
      <4>1. x \in {0, 1}
        <5>1. Right(t + 1, l - 1) = 1
          BY <1>1, <1>5, <3>1
        <5>2. QED BY <2>1, <5>1
      <4>2. /\ 0 \div Width = 0 /\ 1 \div Width = 0
            /\ 0 % Width = 0 /\ 1 % Width = 1
        BY VectorAssumption
      <4>3. x \div Width = 0 /\ x % Width = x
        BY <4>1, <4>2
      <4>4. g[Q[l][0]][1 + x] = Q[l - 1][x]
        <5>1. Q[l][0] = top /\ l - 1 = shift
          BY <1>1, <1>6, <3>1
        <5>2. CASE x = 0
          BY <1>7, <5>1, <5>2
        <5>3. CASE x = 1
          BY <1>7, <5>1, <5>3
        <5>4. QED BY <4>1, <5>2, <5>3
      <4>5. QED BY <4>3, <4>4
    <3>2. CASE l # z
      <4>1. l \in 1 .. shift
        BY <1>1, <3>2 DEF z
      <4>2. QED BY <1>3, <2>1, <4>1, LevelChildren
    <3>3. QED BY <3>1, <3>2
  <2>2. QED BY <2>1
<1>11. Tree(g, top, z, t + 1, Q)
  <2>1. Q[z][0] = top
    BY <1>6
  <2>2. QED BY <1>1, <1>2, <1>5, <1>8, <1>9, <1>10, <2>1, Zenon DEF Tree
<1>12. Leaves(Q, P, t, tail)
  <2>1. X[0] = tail /\ shift \in Nat
    BY <1>1 DEF Lifted
  <2>2. QED BY <1>1, <1>3, <2>1, LeavesOnto
<1>13. QED BY <1>11, <1>12 DEF z

\* The first leaf.
LEMMA TreeFirst ==
    ASSUME NEW h \in Heaps, NEW root \in Cells(h), Len(h[root]) = 0,
           NEW tail \in Cells(h), NEW s, s = PushTail(h, 0, root, tail)
    PROVE  /\ s.arrays \in Heaps /\ Grown(h, s.arrays) /\ s.expansion = NoArray
           /\ \E Q : Tree(s.arrays, s.node, 1, 0, Q) /\ Q[0][0] = tail
<1>1. s = Grow(h, root, tail)
  <2> DEFINE a == [arrays |-> h, node |-> root]
             m == 0
  <2>1. m \in Nat /\ m = 0
    OBVIOUS
  <2> HIDE DEF m
  <2>2. PICK c, p : /\ Running(c, m, "copies", 0, [arrays |-> h, node |-> root])
                    /\ Running(p, m, "pushed", [copies |-> c, level |-> m],
                               Grow(c[m].arrays, c[m].node, tail))
                    /\ s = p[m]
    <3>1. \E c, p : /\ Running(c, m, "copies", 0, [arrays |-> h, node |-> root])
                    /\ Running(p, m, "pushed", [copies |-> c, level |-> m],
                               Grow(c[m].arrays, c[m].node, tail))
                    /\ PushTail(h, m, root, tail) = p[m]
      <4>1. m \in Nat
        BY <2>1
      <4>2. QED BY <4>1, PushTailIs, Zenon
    <3>2. s = PushTail(h, m, root, tail)
      BY <2>1
    <3>3. QED BY <3>1, <3>2, Zenon
  <2>3. c[0] = a
    <3>1. Running(c, m, "copies", 0, a)
      BY <2>2
    <3> HIDE DEF a
    <3>2. QED BY <2>1, <3>1, RunningIs
  <2>4. p[0] = Grow(c[m].arrays, c[m].node, tail)
    <3> DEFINE b == Grow(c[m].arrays, c[m].node, tail)
               r == [copies |-> c, level |-> m]
    <3>1. Running(p, m, "pushed", r, b)
      BY <2>2
    <3> HIDE DEF b, r
    <3>2. p[0] = b
      BY <2>1, <3>1, RunningIs
    <3>3. QED BY <3>2 DEF b
  <2>5. c[0].arrays = h /\ c[0].node = root
    BY <2>3
  <2>6. QED BY <2>1, <2>2, <2>4, <2>5
<1>2. Len(h[root]) # Width /\ tail \in Nat /\ Len(h[root]) + 1 = 1
  BY VectorAssumption DEF Cells
<1>3. Pushed(s, h, root, tail, 1, FALSE)
  <2>1. Pushed(s, h, root, tail, Len(h[root]) + 1, FALSE)
    BY <1>1, <1>2, GrowIs
  <2>2. QED BY <1>2, <2>1
<1>4. s.expansion = NoArray /\ s.arrays \in Heaps /\ Grown(h, s.arrays) /\ Fresh(s) = s.node
  BY <1>3 DEF Pushed, Fresh
<1> DEFINE g == s.arrays
           Q == [l \in 0 .. 1 |-> [x \in Nat |-> IF l = 0 THEN tail ELSE s.node]]
<1>5. s.node \in Cells(g) /\ Len(g[s.node]) = 1 /\ g[s.node][1] = tail /\ tail \in Cells(g)
  BY <1>3, <1>4 DEF Pushed, Ends, Grown
<1>6. Q \in [0 .. 1 -> [Nat -> Nat]] /\ (\A x \in Nat : Q[0][x] = tail /\ Q[1][x] = s.node)
      /\ Q[0][0] = tail /\ Q[1][0] = s.node
  BY <1>2, <1>5 DEF Cells
<1>7. Right(0, 0) = 0 /\ Right(0, 1) = 0
  <2>1. Right(0, 0) = 0
    BY RightNone
  <2>2. Right(0, 0 + 1) = 0 \div Width
    BY <2>1, RightMore, 0 \in Nat
  <2>3. 0 \div Width = 0 /\ 0 + 1 = 1
    BY VectorAssumption
  <2>4. QED BY <2>1, <2>2, <2>3
<1>8. 0 % Width = 0 /\ 0 \div Width = 0
  BY VectorAssumption
<1> HIDE DEF g, Q
<1>9. \A l \in 0 .. 1, x \in Nat : x <= Right(0, l) => Q[l][x] \in Cells(g)
  <2>1. \A l \in 0 .. 1 : l = 0 \/ l = 1
    OBVIOUS
  <2>2. QED BY <1>5, <1>6, <2>1
<1>10. \A l \in 1 .. 1 : Len(Edge(g, Q, 0, l)) = 1 + (Right(0, l - 1) % Width)
  <2>1. Edge(g, Q, 0, 1) = g[s.node]
    BY <1>6, <1>7 DEF Edge
  <2>2. \A l \in 1 .. 1 : l = 1 /\ l - 1 = 0
    OBVIOUS
  <2>3. 1 + (Right(0, 0) % Width) = 1
    BY <1>7, <1>8
  <2>4. Len(Edge(g, Q, 0, 1)) = 1 + (Right(0, 0) % Width)
    BY <1>5, <2>1, <2>3
  <2>5. QED BY <2>2, <2>4
<1>11. \A l \in 1 .. 1, x \in Nat : x <= Right(0, l - 1) =>
           g[Q[l][x \div Width]][1 + (x % Width)] = Q[l - 1][x]
  <2>1. g[Q[1][0 \div Width]][1 + (0 % Width)] = Q[0][0]
    <3>1. g[Q[1][0]][1] = Q[0][0]
      BY <1>5, <1>6
    <3>2. 1 + (0 % Width) = 1
      BY <1>8
    <3>3. QED BY <1>8, <3>1, <3>2, Zenon
  <2>2. ASSUME NEW l \in 1 .. 1, NEW x \in Nat, x <= Right(0, l - 1)
        PROVE  l = 1 /\ l - 1 = 0 /\ x = 0
    <3>1. l = 1 /\ l - 1 = 0
      OBVIOUS
    <3>2. QED BY <1>7, <2>2, <3>1
  <2>3. QED BY <2>1, <2>2, Zenon
<1>12. Tree(g, s.node, 1, 0, Q)
  <2>1. 1 \in Nat \ {0} /\ 0 \in Nat /\ Q[1][0] = s.node
    BY <1>6
  <2>2. QED BY <1>6, <1>7, <1>9, <1>10, <1>11, <2>1, Zenon DEF Tree
<1>13. Q[0][0] = tail
  BY <1>6
<1>14. QED BY <1>4, <1>12, <1>13 DEF g

\* The root after a push: an array over the old root and the one beside it, if
\* there is one.
Top(s) == IF s.expansion = NoArray THEN [arrays |-> s.arrays, node |-> s.node]
          ELSE NewArray(s.arrays, <<s.node, s.expansion>>)

Height(s, shift) == IF s.expansion = NoArray THEN shift ELSE shift + 1

LEMMA TreePushed ==
    ASSUME NEW h \in Heaps, NEW root, NEW shift, NEW t, NEW P, Tree(h, root, shift, t, P),
           NEW tail \in Cells(h), NEW s, s = PushTail(h, shift - 1, root, tail)
    PROVE  /\ Top(s).arrays \in Heaps /\ Grown(h, Top(s).arrays)
           /\ \E Q : /\ Tree(Top(s).arrays, Top(s).node, Height(s, shift), t + 1, Q)
                     /\ Leaves(Q, P, t, tail)
<1>1. /\ s.arrays \in Heaps
      /\ Grown(h, s.arrays)
      /\ s.expansion # NoArray <=> Carries(t, shift)
      /\ Carries(t, shift) => s.node = root
  BY PushedTree
<1>2. PICK X : Lifted(X, h, shift, t, P, tail, s.arrays) /\ X[shift] = Fresh(s)
  BY PushedTree
<1>3. CASE ~Carries(t, shift)
  <2>1. s.expansion = NoArray
    BY <1>1, <1>3
  <2>2. Top(s).arrays = s.arrays /\ Top(s).node = s.node /\ Height(s, shift) = shift /\ Fresh(s) = s.node
    BY <2>1 DEF Top, Height, Fresh
  <2>3. PICK Q : Tree(s.arrays, X[shift], shift, t + 1, Q) /\ Leaves(Q, P, t, tail)
    BY <1>1, <1>2, <1>3, TreeAsHigh
  <2>4. QED BY <1>1, <1>2, <2>2, <2>3
<1>4. CASE Carries(t, shift)
  <2>1. s.expansion # NoArray /\ s.node = root /\ X[shift] = s.expansion
    BY <1>1, <1>2, <1>4 DEF Fresh
  <2> DEFINE two == <<s.node, s.expansion>>
             top == NewArray(s.arrays, two)
  <2>2. Top(s) = top /\ Height(s, shift) = shift + 1
    BY <2>1 DEF Top, Height
  <2>3. root \in Nat /\ X[shift] \in Nat
    <3>1. shift \in Nat \ {0} /\ Right(t, shift) = 0 /\ P[shift][0] = root
      BY Zenon DEF Tree
    <3>2. P \in [0 .. shift -> [Nat -> Nat]]
      BY Zenon DEF Tree
    <3>3. shift \in 0 .. shift
      BY <3>1
    <3>4. X \in [0 .. shift -> Nat]
      BY <1>2 DEF Lifted
    <3>5. P[shift] \in [Nat -> Nat] /\ X[shift] \in Nat
      BY <3>2, <3>3, <3>4
    <3>6. P[shift][0] \in Nat
      BY <3>5
    <3>7. QED BY <3>1, <3>5, <3>6
  <2>4. two \in Arrays /\ Len(two) = 2 /\ two[1] = root /\ two[2] = X[shift]
    BY <2>1, <2>3 DEF Arrays
  <2> HIDE DEF two
  <2>5. /\ top.arrays \in Heaps /\ Grown(s.arrays, top.arrays)
        /\ top.node \in Cells(top.arrays) /\ top.arrays[top.node] = two
    BY <1>1, <2>4, NewArrayIs
  <2> HIDE DEF top
  <2>6. Grown(h, top.arrays)
    BY <1>1, <2>5, GrownTwice
  <2>7. Lifted(X, h, shift, t, P, tail, top.arrays)
    BY <1>2, <2>5, LiftedKept
  <2>8. PICK Q : Tree(top.arrays, top.node, shift + 1, t + 1, Q) /\ Leaves(Q, P, t, tail)
    BY <1>4, <2>4, <2>5, <2>6, <2>7, TreeHigher
  <2>9. QED BY <2>2, <2>5, <2>6, <2>8
<1>5. QED BY <1>3, <1>4

-----------------------------------------------------------------------------
(* A vector and the sequence it is: o elements are in the leaves and the   *)
(* rest in the tail.                                                       *)

Vectors == [cnt : Nat, shift : Nat \ {0}, root : Nat, tail : Nat]

IsAt(h, v, c, o, P) ==
    /\ v \in Vectors /\ v.root \in Cells(h) /\ v.tail \in Cells(h)
    /\ v.cnt = Len(c) /\ v.cnt = o + Len(h[v.tail])
    /\ Len(h[v.tail]) <= Width /\ o % Width = 0
    /\ \A j \in 1 .. Len(h[v.tail]) : h[v.tail][j] = c[o + j]
    /\ o = 0 => Len(h[v.root]) = 0 /\ v.shift = 1
    /\ o > 0 => /\ Tree(h, v.root, v.shift, (o \div Width) - 1, P)
                /\ \A i \in 0 .. o - 1 : h[P[0][i \div Width]][1 + (i % Width)] = c[i + 1]

Is(h, v, c) == c \in Seq(Nat) /\ \E o \in Nat : \E P : IsAt(h, v, c, o, P)

LEMMA Division == ASSUME NEW q \in Nat, NEW r \in Nat, r < Width
                  PROVE  (Width * q + r) \div Width = q /\ (Width * q + r) % Width = r
BY VectorAssumption

\* The leaf of an element and its place there.
LEMMA Places ==
    ASSUME NEW o \in Nat, o % Width = 0
    PROVE  /\ o \div Width \in Nat /\ (o > 0 => (o \div Width) - 1 \in Nat)
           /\ (o + Width) % Width = 0 /\ (o + Width) \div Width = (o \div Width) + 1
           /\ \A i \in Nat : i < o => i \div Width < o \div Width
           /\ \A i \in Nat : o <= i /\ i < o + Width => i \div Width = o \div Width /\ i % Width = i - o
           /\ \A i \in Nat : i \div Width \in Nat /\ i % Width \in 0 .. Width - 1
<1>1. o \div Width \in Nat /\ (o + Width) % Width = 0 /\ (o + Width) \div Width = (o \div Width) + 1
  <2> DEFINE q == o \div Width
  <2>1. q \in Nat /\ o = Width * q
    BY VectorAssumption
  <2> HIDE DEF q
  <2>2. q + 1 \in Nat /\ 0 \in Nat /\ 0 < Width
    BY <2>1, VectorAssumption
  <2>3. o + Width = Width * (q + 1) + 0
    BY <2>1, VectorAssumption
  <2>4. (o + Width) \div Width = q + 1 /\ (o + Width) % Width = 0
    BY <2>2, <2>3, Division
  <2>5. QED BY <2>1, <2>4 DEF q
<1>2. ASSUME NEW i \in Nat
      PROVE  i \div Width \in Nat /\ i % Width \in 0 .. Width - 1
  BY VectorAssumption
<1>3. ASSUME NEW i \in Nat, i < o
      PROVE  i \div Width < o \div Width
  BY <1>3, VectorAssumption
<1>4. ASSUME NEW i \in Nat, o <= i, i < o + Width
      PROVE  i \div Width = o \div Width /\ i % Width = i - o
  BY <1>4, VectorAssumption
<1>5. ASSUME o > 0
      PROVE  (o \div Width) - 1 \in Nat
  <2>1. 0 \div Width = 0
    BY VectorAssumption
  <2>2. 0 < o \div Width
    BY <1>3, <1>5, <2>1
  <2>3. QED BY <1>1, <2>2
<1>6. QED BY <1>1, <1>2, <1>3, <1>4, <1>5

LEMMA LeafOf ==
    ASSUME NEW h, NEW root, NEW shift, NEW t, NEW P, Tree(h, root, shift, t, P),
           NEW x \in Nat, x <= t
    PROVE  P[0][x] \in Cells(h)
<1>1. shift \in Nat \ {0}
  BY Zenon DEF Tree
<1>2. 0 \in 0 .. shift /\ Right(t, 0) = t
  BY <1>1, RightNone
<1>3. QED BY <1>2 DEF Tree

LEMMA IsAtKept ==
    ASSUME NEW h, NEW v, NEW c, NEW o \in Nat, NEW P, IsAt(h, v, c, o, P), NEW g, Grown(h, g)
    PROVE  IsAt(g, v, c, o, P)
<1>2. /\ v \in Vectors /\ v.root \in Cells(h) /\ v.tail \in Cells(h)
      /\ v.cnt = Len(c) /\ v.cnt = o + Len(h[v.tail])
      /\ Len(h[v.tail]) <= Width /\ o % Width = 0
      /\ \A j \in 1 .. Len(h[v.tail]) : h[v.tail][j] = c[o + j]
      /\ o = 0 => Len(h[v.root]) = 0 /\ v.shift = 1
      /\ o > 0 => /\ Tree(h, v.root, v.shift, (o \div Width) - 1, P)
                  /\ \A i \in 0 .. o - 1 : h[P[0][i \div Width]][1 + (i % Width)] = c[i + 1]
  BY Zenon DEF IsAt
<1>3. /\ v.root \in Cells(g) /\ v.tail \in Cells(g)
      /\ g[v.root] = h[v.root] /\ g[v.tail] = h[v.tail]
  BY <1>2, Zenon DEF Grown
<1>4. ASSUME o > 0
      PROVE  /\ Tree(g, v.root, v.shift, (o \div Width) - 1, P)
             /\ \A i \in 0 .. o - 1 : g[P[0][i \div Width]][1 + (i % Width)] = c[i + 1]
  <2>1. Tree(h, v.root, v.shift, (o \div Width) - 1, P)
    BY <1>2, <1>4
  <2>2. Tree(g, v.root, v.shift, (o \div Width) - 1, P)
    BY <2>1, TreeKept
  <2>3. ASSUME NEW i \in 0 .. o - 1
        PROVE  g[P[0][i \div Width]][1 + (i % Width)] = c[i + 1]
    <3> DEFINE q == i \div Width
    <3>1. q \in Nat /\ q <= (o \div Width) - 1
      <4>1. i \in Nat /\ i < o
        OBVIOUS
      <4>2. q \in Nat /\ q < o \div Width /\ o \div Width \in Nat
        BY <1>2, <4>1, Places
      <4> HIDE DEF q
      <4>3. QED BY <4>2
    <3>2. h[P[0][q]][1 + (i % Width)] = c[i + 1]
      BY <1>2, <1>4
    <3> HIDE DEF q
    <3>3. P[0][q] \in Cells(h)
      BY <2>1, <3>1, LeafOf
    <3>4. g[P[0][q]][1 + (i % Width)] = c[i + 1]
      BY <3>2, <3>3 DEF Grown
    <3>5. QED BY <3>4 DEF q
  <2>4. QED BY <2>2, <2>3
<1>5. QED BY <1>2, <1>3, <1>4, Zenon DEF IsAt

LEMMA IsKept ==
    ASSUME NEW h, NEW v, NEW c, Is(h, v, c), NEW g, Grown(h, g)
    PROVE  Is(g, v, c)
<1>0. PICK o \in Nat : \E P : IsAt(h, v, c, o, P)
  BY Zenon DEF Is
<1>1. PICK P : IsAt(h, v, c, o, P)
  BY <1>0
<1>2. IsAt(g, v, c, o, P)
  BY <1>1, IsAtKept, Zenon
<1>3. QED BY <1>2, Zenon DEF Is

LEMMA NthRuns ==
    ASSUME NEW h, NEW v, v.shift \in Nat, NEW i
    PROVE  \E f : /\ Running(f, v.shift, "nth", [h |-> h, i |-> i, shift |-> v.shift], v.root)
                  /\ Nth(h, v, i) = IF i >= v.cnt THEN OutOfBounds
                                    ELSE IF i >= TailOffset(h, v) THEN h[v.tail][Digit(i, 0)]
                                    ELSE h[f[v.shift]][Digit(i, 0)]
<1> DEFINE r == [h |-> h, i |-> i, shift |-> v.shift]
           Body(g) == [n \in 0 .. v.shift |-> IF n = 0 THEN v.root
                                              ELSE h[g[n - 1]][Digit(i, v.shift - n + 1)]]
           f == CHOOSE g : g = Body(g)
<1>1. ASSUME NEW g
      PROVE  Running(g, v.shift, "nth", r, v.root) <=> g = Body(g)
  <2> DEFINE Run == [l \in 0 .. v.shift |-> IF l = 0 THEN v.root ELSE Step("nth", r, g[l - 1], l)]
  <2>1. Run = Body(g)
    <3>1. r.h = h /\ r.i = i /\ r.shift = v.shift
      OBVIOUS
    <3> HIDE DEF Step, r
    <3>2. \A x, l : Step("nth", r, x, l) = h[x][Digit(i, v.shift - l + 1)]
      BY <3>1, StepNth
    <3>3. QED BY <3>2, Zenon
  <2>2. QED BY <2>1 DEF Running
<1>2. f = Body(f)
  <2>1. PICK g : Running(g, v.shift, "nth", r, v.root)
    <3> HIDE DEF r
    <3>1. QED BY RunningExists
  <2>2. g = Body(g)
    BY <1>1, <2>1
  <2> HIDE DEF Body
  <2>3. QED BY <2>2, Zenon
<1>3. Nth(h, v, i) = IF i >= v.cnt THEN OutOfBounds
                     ELSE IF i >= TailOffset(h, v) THEN h[v.tail][Digit(i, 0)]
                     ELSE h[f[v.shift]][Digit(i, 0)]
  BY Zenon DEF Nth
<1>4. Running(f, v.shift, "nth", r, v.root)
  BY <1>1, <1>2, Zenon
<1> HIDE DEF f
<1>5. QED BY <1>3, <1>4, Zenon

\* The way down to an element of the tree ends at its leaf.
LEMMA NthDown ==
    ASSUME NEW h, NEW root, NEW shift, NEW t, NEW P, Tree(h, root, shift, t, P),
           NEW i \in Nat, NEW q, q = i \div Width, q <= t,
           NEW f, Running(f, shift, "nth", [h |-> h, i |-> i, shift |-> shift], root)
    PROVE  f[shift] = P[0][q]
<1>1. shift \in Nat \ {0} /\ t \in Nat
  BY Zenon DEF Tree
<1>2. q \in Nat
  BY VectorAssumption
<1>3. f[0] = root /\ \A n \in 1 .. shift : f[n] = h[f[n - 1]][Digit(i, shift - n + 1)]
  <2> DEFINE r == [h |-> h, i |-> i, shift |-> shift]
  <2>1. r.h = h /\ r.i = i /\ r.shift = shift
    OBVIOUS
  <2> HIDE DEF Step, r
  <2>2. f[0] = root /\ \A n \in 1 .. shift : f[n] = Step("nth", r, f[n - 1], n)
    <3>1. Running(f, shift, "nth", r, root)
      BY DEF r
    <3>2. QED BY <1>1, <3>1, RunningIs
  <2>3. ASSUME NEW n \in 1 .. shift
        PROVE  f[n] = h[f[n - 1]][Digit(i, shift - n + 1)]
    <3>1. f[n] = Step("nth", r, f[n - 1], n)
      BY <2>2
    <3>2. f[n] = r.h[f[n - 1]][Digit(r.i, r.shift - n + 1)]
      BY <3>1, StepNth, Zenon
    <3>3. QED BY <2>1, <3>2
  <2>4. QED BY <2>2, <2>3
<1> DEFINE Failing == {n \in Nat : n <= shift /\ f[n] # P[shift - n][Right(q, shift - n)]}
<1>4. Failing = {}
  <2>1. SUFFICES ASSUME Failing # {} PROVE FALSE
    OBVIOUS
  <2>2. PICK n \in Failing : \A k \in Failing : n <= k
    <3>1. Failing \in SUBSET Nat
      OBVIOUS
    <3> HIDE DEF Failing
    <3>2. QED BY <2>1, <3>1, Least
  <2>3. n # 0
    <3>1. Right(q, shift) = 0
      <4>1. Right(q, shift) \in Nat /\ Right(q, shift) <= Right(t, shift)
        BY <1>1, <1>2, RightNat, RightUp
      <4>2. Right(t, shift) = 0
        BY Zenon DEF Tree
      <4>3. QED BY <4>1, <4>2
    <3>2. P[shift][0] = root
      BY Zenon DEF Tree
    <3>3. f[0] = P[shift - 0][Right(q, shift - 0)]
      BY <1>1, <1>3, <3>1, <3>2
    <3>4. QED BY <2>2, <3>3
  <2> DEFINE k == shift - n
             l == k + 1
             x == Right(q, k)
  <2>4. /\ n \in 1 .. shift /\ k \in Nat /\ l \in 1 .. shift /\ l - 1 = k
        /\ n - 1 \in Nat /\ n - 1 <= shift /\ shift - (n - 1) = l /\ shift - n + 1 = l
    BY <1>1, <2>2, <2>3
  <2>5. f[n - 1] = P[l][Right(q, l)]
    <3>1. n - 1 \notin Failing
      BY <2>2, <2>4
    <3> HIDE DEF l, k
    <3>2. QED BY <2>4, <3>1
  <2>6. f[n] = h[P[l][Right(q, l)]][Digit(i, l)]
    <3> HIDE DEF l, k
    <3>1. QED BY <1>3, <2>4, <2>5
  <2>7. x \in Nat /\ x <= Right(t, k) /\ Right(q, l) = x \div Width /\ Right(i, l) = x
    <3>1. Right(i \div Width, k) = Right(i, k + 1)
      <4> HIDE DEF k
      <4>1. QED BY <2>4, RightFirst
    <3> HIDE DEF k
    <3>2. Right(q, k) \in Nat /\ Right(q, k) <= Right(t, k) /\ Right(q, k + 1) = Right(q, k) \div Width
      BY <1>1, <1>2, <2>4, RightNat, RightUp, RightMore
    <3>3. QED BY <3>1, <3>2
  <2>8. h[P[l][x \div Width]][1 + (x % Width)] = P[k][x]
    <3>1. \A m \in 1 .. shift, y \in Nat :
              y <= Right(t, m - 1) => h[P[m][y \div Width]][1 + (y % Width)] = P[m - 1][y]
      BY Zenon DEF Tree
    <3> HIDE DEF l, k, x
    <3>2. h[P[l][x \div Width]][1 + (x % Width)] = P[l - 1][x]
      <4>1. x <= Right(t, l - 1)
        BY <2>4, <2>7
      <4>2. QED BY <2>4, <2>7, <3>1, <4>1, Zenon
    <3>3. QED BY <2>4, <3>2
  <2>9. Digit(i, l) = 1 + (x % Width)
    <3> HIDE DEF l, x
    <3>1. QED BY <2>7 DEF Digit
  <2>10. f[n] = P[k][x]
    <3> HIDE DEF l, k, x
    <3>1. QED BY <2>6, <2>7, <2>8, <2>9
  <2>11. QED BY <2>2, <2>10
<1>5. f[shift] = P[shift - shift][Right(q, shift - shift)]
  BY <1>1, <1>4
<1>6. shift - shift = 0 /\ Right(q, 0) = q
  BY <1>1, RightNone
<1>7. QED BY <1>5, <1>6

\* nth gives each element of the sequence and throws after the last one.
LEMMA NthIs ==
    ASSUME NEW h \in Heaps, NEW v, NEW c, Is(h, v, c), NEW i \in Nat
    PROVE  Nth(h, v, i) = IF i < v.cnt THEN c[i + 1] ELSE OutOfBounds
<1>0. PICK o \in Nat : \E P : IsAt(h, v, c, o, P)
  BY Zenon DEF Is
<1>1. PICK P : IsAt(h, v, c, o, P)
  BY <1>0
<1>2. /\ v \in Vectors /\ v.tail \in Cells(h)
      /\ v.cnt = o + Len(h[v.tail])
      /\ Len(h[v.tail]) <= Width /\ o % Width = 0
      /\ \A j \in 1 .. Len(h[v.tail]) : h[v.tail][j] = c[o + j]
      /\ o > 0 => /\ Tree(h, v.root, v.shift, (o \div Width) - 1, P)
                  /\ \A k \in 0 .. o - 1 : h[P[0][k \div Width]][1 + (k % Width)] = c[k + 1]
  BY <1>1, Zenon DEF IsAt
<1> DEFINE shift == v.shift
           n == Len(h[v.tail])
<1>3. shift \in Nat \ {0} /\ n \in Nat
  BY <1>2 DEF Vectors, Heaps, Arrays, Cells
<1>4. PICK f : /\ Running(f, v.shift, "nth", [h |-> h, i |-> i, shift |-> v.shift], v.root)
               /\ Nth(h, v, i) = IF i >= v.cnt THEN OutOfBounds
                                 ELSE IF i >= TailOffset(h, v) THEN h[v.tail][Digit(i, 0)]
                                 ELSE h[f[v.shift]][Digit(i, 0)]
  <2>1. v.shift \in Nat
    BY <1>3
  <2>2. QED BY <2>1, NthRuns, Zenon
<1>5. Digit(i, 0) = 1 + (i % Width) /\ TailOffset(h, v) = o
  <2>1. Right(i, 0) = i
    BY RightNone
  <2> HIDE DEF n
  <2>2. TailOffset(h, v) = o
    BY <1>2, <1>3 DEF TailOffset, n
  <2>3. QED BY <2>1, <2>2 DEF Digit
<1>6. CASE i >= v.cnt
  BY <1>2, <1>3, <1>4, <1>6
<1>7. CASE i < v.cnt /\ i >= o
  <2>1. i % Width = i - o
    <3>1. o <= i /\ i < o + Width
      BY <1>2, <1>3, <1>7, VectorAssumption
    <3>2. QED BY <1>2, <3>1, Places
  <2>2. Digit(i, 0) = i - o + 1
    BY <1>5, <2>1
  <2>3. i - o + 1 \in 1 .. n /\ o + (i - o + 1) = i + 1
    BY <1>2, <1>3, <1>7
  <2>4. h[v.tail][i - o + 1] = c[i + 1]
    BY <1>2, <2>3
  <2>5. ~(i >= v.cnt)
    BY <1>2, <1>3, <1>7
  <2>6. QED BY <1>4, <1>5, <1>7, <2>2, <2>4, <2>5
<1>8. CASE i < v.cnt /\ i < o
  <2> DEFINE t == (o \div Width) - 1
             q == i \div Width
  <2>1. o > 0 /\ i \in 0 .. o - 1 /\ ~(i >= v.cnt) /\ ~(i >= o)
    BY <1>2, <1>3, <1>8
  <2>2. q \in Nat /\ q <= t
    <3>1. q \in Nat /\ q < o \div Width /\ o \div Width \in Nat
      BY <1>2, <1>8, Places
    <3> HIDE DEF q
    <3>2. QED BY <3>1
  <2>3. Tree(h, v.root, shift, t, P) /\ h[P[0][q]][1 + (i % Width)] = c[i + 1]
    BY <1>2, <2>1
  <2> HIDE DEF t
  <2>4. f[shift] = P[0][q]
    BY <1>4, <2>2, <2>3, NthDown
  <2> HIDE DEF q
  <2>5. Nth(h, v, i) = h[f[shift]][1 + (i % Width)]
    BY <1>4, <1>5, <2>1
  <2>6. QED BY <1>8, <2>3, <2>4, <2>5
<1>9. QED
  <2>1. v.cnt \in Nat
    BY <1>2 DEF Vectors
  <2>2. QED BY <1>6, <1>7, <1>8, <2>1

\* Q is the tree at the top of s, with the tail as the leaf after the others.
LeafNext(Q, s, P, v, o) ==
    /\ Tree(Top(s).arrays, Top(s).node, Height(s, v.shift), o \div Width, Q)
    /\ Q[0][o \div Width] = v.tail
    /\ \A i \in Nat : i < o => Q[0][i \div Width] = P[0][i \div Width]

\* Whether or not there was a tree: pushing the full tail gives one with it as
\* the last leaf.
LEMMA TreeNext ==
    ASSUME NEW h \in Heaps, NEW v, NEW c, NEW o \in Nat, NEW P, IsAt(h, v, c, o, P),
           NEW s, s = PushTail(h, v.shift - 1, v.root, v.tail)
    PROVE  /\ Top(s).arrays \in Heaps /\ Grown(h, Top(s).arrays)
           /\ \E Q : LeafNext(Q, s, P, v, o)
<1>1. /\ v \in Vectors /\ v.root \in Cells(h) /\ v.tail \in Cells(h) /\ o % Width = 0
      /\ o = 0 => Len(h[v.root]) = 0 /\ v.shift = 1
      /\ o > 0 => Tree(h, v.root, v.shift, (o \div Width) - 1, P)
  BY Zenon DEF IsAt
<1>2. CASE o = 0
  <2>1. Len(h[v.root]) = 0 /\ s = PushTail(h, 0, v.root, v.tail) /\ v.shift = 1
    BY <1>1, <1>2
  <2>2. /\ s.arrays \in Heaps /\ Grown(h, s.arrays) /\ s.expansion = NoArray
        /\ \E Q : Tree(s.arrays, s.node, 1, 0, Q) /\ Q[0][0] = v.tail
    BY <1>1, <2>1, TreeFirst
  <2>3. o \div Width = 0
    BY <1>2, VectorAssumption
  <2>4. Top(s).arrays = s.arrays /\ Top(s).node = s.node /\ Height(s, v.shift) = 1
    BY <2>1, <2>2 DEF Top, Height
  <2>5. \A i \in Nat : ~(i < o)
    BY <1>2
  <2>6. QED BY <2>2, <2>3, <2>4, <2>5 DEF LeafNext
<1>3. CASE o > 0
  <2> DEFINE q == o \div Width
             t == q - 1
  <2>1. /\ q \in Nat /\ t \in Nat /\ t + 1 = q
        /\ \A i \in Nat : i < o => i \div Width \in Nat /\ i \div Width < q
    <3>1. q \in Nat /\ q - 1 \in Nat
      BY <1>1, <1>3, Places
    <3>2. \A i \in Nat : i < o => i \div Width \in Nat /\ i \div Width < q
      BY <1>1, Places
    <3> HIDE DEF q
    <3>3. QED BY <3>1, <3>2
  <2>2. Tree(h, v.root, v.shift, t, P)
    BY <1>1, <1>3
  <2> HIDE DEF t, q
  <2>3. /\ Top(s).arrays \in Heaps /\ Grown(h, Top(s).arrays)
        /\ \E Q : /\ Tree(Top(s).arrays, Top(s).node, Height(s, v.shift), t + 1, Q)
                  /\ Leaves(Q, P, t, v.tail)
    BY <1>1, <2>2, TreePushed
  <2>4. PICK Q : /\ Tree(Top(s).arrays, Top(s).node, Height(s, v.shift), q, Q)
                 /\ Leaves(Q, P, t, v.tail)
    BY <2>1, <2>3
  <2>5. Q[0][q] = v.tail
    BY <2>1, <2>4 DEF Leaves
  <2>6. ASSUME NEW i \in Nat, i < o
        PROVE  Q[0][i \div Width] = P[0][i \div Width]
    <3> DEFINE y == i \div Width
    <3>1. y \in Nat /\ y < q
      BY <2>1, <2>6
    <3> HIDE DEF y
    <3>2. y \in 0 .. t
      BY <2>1, <3>1
    <3>3. Q[0][y] = P[0][y]
      BY <2>4, <3>2 DEF Leaves
    <3>4. QED BY <3>3 DEF y
  <2>7. QED BY <2>3, <2>4, <2>5, <2>6 DEF q, LeafNext
<1>4. QED BY <1>2, <1>3

\* conj makes the sequence with the element at its end.
LEMMA MoreIs ==
    ASSUME NEW S, NEW c \in Seq(S), NEW x \in S, NEW d, d = Append(c, x)
    PROVE  /\ d \in Seq(S) /\ Len(c) \in Nat /\ Len(d) = Len(c) + 1 /\ d[Len(c) + 1] = x
           /\ \A i \in 1 .. Len(c) : d[i] = c[i]
OBVIOUS

LEMMA ConjIs ==
    ASSUME NEW h \in Heaps, NEW v, NEW c, Is(h, v, c), NEW x \in Nat,
           NEW made, made = ConjOf(h, v, x)
    PROVE  made.arrays \in Heaps /\ Grown(h, made.arrays) /\ Is(made.arrays, made.vector, Append(c, x))
<1>0. PICK o \in Nat : \E P : IsAt(h, v, c, o, P)
  BY Zenon DEF Is
<1>1. PICK P : IsAt(h, v, c, o, P)
  BY <1>0
<1>2. /\ v \in Vectors /\ v.root \in Cells(h) /\ v.tail \in Cells(h)
      /\ v.cnt = Len(c) /\ v.cnt = o + Len(h[v.tail])
      /\ Len(h[v.tail]) <= Width /\ o % Width = 0
      /\ \A j \in 1 .. Len(h[v.tail]) : h[v.tail][j] = c[o + j]
      /\ o > 0 => \A i \in 0 .. o - 1 : h[P[0][i \div Width]][1 + (i % Width)] = c[i + 1]
  BY <1>1, Zenon DEF IsAt
<1> DEFINE n == Len(h[v.tail])
           d == Append(c, x)
<1>3. h[v.tail] \in Arrays /\ n \in Nat
  BY <1>2 DEF Heaps, Arrays, Cells
<1>4. /\ d \in Seq(Nat) /\ Len(d) = v.cnt + 1 /\ v.cnt \in Nat /\ d[v.cnt + 1] = x
      /\ \A i \in 1 .. v.cnt : d[i] = c[i]
  <2>1. c \in Seq(Nat)
    BY Zenon DEF Is
  <2>2. /\ d \in Seq(Nat) /\ Len(c) \in Nat /\ Len(d) = Len(c) + 1 /\ d[Len(c) + 1] = x
        /\ \A i \in 1 .. Len(c) : d[i] = c[i]
    BY <2>1, MoreIs
  <2> HIDE DEF d
  <2>3. v.cnt = Len(c)
    BY <1>2
  <2>4. QED BY <2>2, <2>3
<1> HIDE DEF d
<1>5. CASE n < Width
  <2> DEFINE more == Append(h[v.tail], x)
             new == NewArray(h, more)
             g == new.arrays
             w == made.vector
  <2>1. /\ more \in Arrays /\ Len(more) = n + 1 /\ more[n + 1] = x
        /\ \A j \in 1 .. n : more[j] = h[v.tail][j]
    BY <1>3 DEF Arrays
  <2>2. made = [arrays |-> g,
                vector |-> [cnt |-> v.cnt + 1, shift |-> v.shift, root |-> v.root,
                            tail |-> new.node]]
    BY <1>5 DEF ConjOf
  <2> HIDE DEF more
  <2>3. g \in Heaps /\ Grown(h, g) /\ new.node \in Cells(g) /\ g[new.node] = more
    BY <2>1, NewArrayIs
  <2> HIDE DEF new
  <2>4. new.node \in Nat
    BY <2>3 DEF Cells
  <2>5. /\ made.arrays = g /\ w \in Vectors
        /\ w.cnt = v.cnt + 1 /\ w.tail = new.node /\ w.root = v.root /\ w.shift = v.shift
    BY <1>2, <1>4, <2>2, <2>4 DEF Vectors
  <2>6. IsAt(g, v, c, o, P)
    BY <1>1, <2>3, IsAtKept
  <2> HIDE DEF w, g
  <2>7. /\ o = 0 => Len(g[v.root]) = 0 /\ v.shift = 1
        /\ v.root \in Cells(g)
        /\ o > 0 => Tree(g, v.root, v.shift, (o \div Width) - 1, P)
    BY <2>6, Zenon DEF IsAt
  <2>8. ASSUME o > 0, NEW i \in 0 .. o - 1
        PROVE  g[P[0][i \div Width]][1 + (i % Width)] = d[i + 1]
    <3>1. g[P[0][i \div Width]][1 + (i % Width)] = c[i + 1]
      BY <2>6, <2>8, Zenon DEF IsAt
    <3>2. i + 1 \in 1 .. v.cnt
      BY <1>2, <1>3
    <3>3. QED BY <1>4, <3>1, <3>2
  <2>9. ASSUME NEW j \in 1 .. n + 1
        PROVE  more[j] = d[o + j]
    <3>1. CASE j = n + 1
      BY <1>2, <1>3, <1>4, <2>1, <3>1, SMTT(30)
    <3>2. CASE j \in 1 .. n
      <4>1. o + j \in 1 .. v.cnt
        BY <1>2, <1>3, <3>2
      <4>2. QED BY <1>2, <1>4, <2>1, <3>2, <4>1
    <3>3. QED BY <1>3, <3>1, <3>2
  <2>10. Len(g[w.tail]) = n + 1 /\ g[w.tail] = more /\ w.tail \in Cells(g)
    BY <2>1, <2>3, <2>5
  <2>11. w.cnt = o + (n + 1) /\ n + 1 <= Width /\ w.cnt = Len(d)
    BY <1>2, <1>3, <1>4, <1>5, <2>5, VectorAssumption
  <2> HIDE DEF n
  <2>12. IsAt(g, w, d, o, P)
    BY <1>2, <2>5, <2>7, <2>8, <2>9, <2>10, <2>11, Zenon DEF IsAt
  <2>13. Is(g, w, d)
    BY <1>4, <2>12, Zenon DEF Is
  <2>14. QED BY <2>3, <2>5, <2>13, Zenon DEF w, d
<1>6. CASE ~(n < Width)
  <2> DEFINE s == PushTail(h, v.shift - 1, v.root, v.tail)
             top == Top(s)
             one == <<x>>
             new == NewArray(top.arrays, one)
             g == new.arrays
             w == made.vector
             q == o \div Width
             z == o + Width
  <2>1. n = Width
    BY <1>2, <1>3, <1>6, VectorAssumption
  <2>2. made = [arrays |-> g,
                vector |-> [cnt |-> v.cnt + 1, shift |-> Height(s, v.shift),
                            root |-> top.node, tail |-> new.node]]
    BY <1>6 DEF ConjOf, Top, Height
  <2>3. top.arrays \in Heaps /\ Grown(h, top.arrays)
    BY <1>1, TreeNext
  <2>4. PICK Q : /\ Tree(top.arrays, top.node, Height(s, v.shift), q, Q)
                 /\ Q[0][q] = v.tail
                 /\ \A i \in Nat : i < o => Q[0][i \div Width] = P[0][i \div Width]
    <3>1. s = PushTail(h, v.shift - 1, v.root, v.tail)
      OBVIOUS
    <3> HIDE DEF s
    <3>2. \E Q : LeafNext(Q, s, P, v, o)
      BY <1>1, <3>1, TreeNext
    <3>3. QED BY <3>2 DEF LeafNext
  <2>5. one \in Arrays /\ Len(one) = 1 /\ one[1] = x
    BY DEF Arrays
  <2> HIDE DEF s, top, one
  <2>6. g \in Heaps /\ Grown(top.arrays, g) /\ new.node \in Cells(g) /\ g[new.node] = one
    BY <2>3, <2>5, NewArrayIs
  <2> HIDE DEF new
  <2>7. Grown(h, g) /\ IsAt(g, v, c, o, P) /\ Tree(g, top.node, Height(s, v.shift), q, Q)
    <3>1. Grown(h, g)
      BY <2>3, <2>6, GrownTwice
    <3>2. IsAt(g, v, c, o, P)
      BY <1>1, <3>1, IsAtKept
    <3>3. Tree(g, top.node, Height(s, v.shift), q, Q)
      BY <2>4, <2>6, TreeKept
    <3>4. QED BY <3>1, <3>2, <3>3
  <2> HIDE DEF q, g
  <2>8. Height(s, v.shift) \in Nat \ {0} /\ top.node \in Cells(g) /\ top.node \in Nat /\ new.node \in Nat
    <3> DEFINE k == Height(s, v.shift)
    <3> HIDE DEF k
    <3>1. /\ k \in Nat \ {0} /\ Right(q, k) = 0 /\ Q[k][0] = top.node
          /\ \A l \in 0 .. k, y \in Nat : y <= Right(q, l) => Q[l][y] \in Cells(g)
      BY <2>7, Zenon DEF Tree, k
    <3>2. k \in 0 .. k /\ 0 <= Right(q, k) /\ 0 \in Nat
      BY <3>1
    <3>3. top.node \in Cells(g)
      BY <3>1, <3>2, Zenon
    <3>4. k \in Nat \ {0} /\ top.node \in Cells(g) /\ top.node \in Nat /\ new.node \in Nat
      BY <2>6, <3>1, <3>3 DEF Cells
    <3>5. QED BY <3>4 DEF k
  <2>9. /\ made.arrays = g /\ w \in Vectors
        /\ w.cnt = v.cnt + 1 /\ w.tail = new.node /\ w.root = top.node
        /\ w.shift = Height(s, v.shift)
    BY <1>4, <2>2, <2>8 DEF Vectors
  <2> HIDE DEF w
  <2>10. /\ z \in Nat /\ z > 0 /\ ~(z = 0) /\ z % Width = 0 /\ (z \div Width) - 1 = q
         /\ v.cnt = z /\ w.cnt = z + 1 /\ w.cnt = Len(d)
    <3>1. /\ (o + Width) % Width = 0 /\ (o + Width) \div Width = (o \div Width) + 1
          /\ o \div Width \in Nat
      BY <1>2, Places
    <3>2. Width \in Nat \ {0, 1}
      BY VectorAssumption
    <3>3. (z \div Width) - 1 = q
      BY <3>1 DEF q
    <3>4. z \in Nat /\ z > 0 /\ ~(z = 0) /\ z % Width = 0
      BY <3>1, <3>2
    <3>5. v.cnt = z
      BY <1>2, <2>1
    <3>6. w.cnt = z + 1 /\ w.cnt = Len(d)
      BY <1>4, <2>9, <3>5
    <3>7. QED BY <3>3, <3>4, <3>5, <3>6
  <2>11. ASSUME NEW i \in 0 .. z - 1
         PROVE  g[Q[0][i \div Width]][1 + (i % Width)] = d[i + 1]
    <3>1. d[i + 1] = c[i + 1] /\ i \in Nat
      <4>1. i + 1 \in 1 .. v.cnt
        BY <2>10
      <4>2. QED BY <1>4, <2>10, <4>1
    <3>2. CASE i < o
      <4>1. i \in 0 .. o - 1 /\ o > 0
        BY <3>1, <3>2
      <4>2. g[P[0][i \div Width]][1 + (i % Width)] = c[i + 1]
        BY <2>7, <4>1, Zenon DEF IsAt
      <4>3. Q[0][i \div Width] = P[0][i \div Width]
        BY <2>4, <3>1, <3>2
      <4>4. QED BY <3>1, <4>2, <4>3
    <3>3. CASE ~(i < o)
      <4>1. i \div Width = q /\ i % Width = i - o
        <5>1. o <= i /\ i < o + Width
          <6>1. Width \in Nat
            BY VectorAssumption
          <6>2. QED BY <3>1, <3>3, <6>1
        <5>2. QED BY <1>2, <3>1, <5>1, Places DEF q
      <4>2. i - o + 1 \in 1 .. n /\ o + (i - o + 1) = i + 1
        <5>1. Width \in Nat
          BY VectorAssumption
        <5>2. QED BY <2>1, <3>1, <3>3, <5>1
      <4>3. h[v.tail][i - o + 1] = c[i + 1]
        BY <1>2, <4>2
      <4>4. g[v.tail] = h[v.tail]
        BY <1>2, <2>7 DEF Grown
      <4>5. Q[0][i \div Width] = v.tail /\ 1 + (i % Width) = i - o + 1
        BY <2>4, <3>1, <4>1
      <4>6. QED BY <3>1, <4>3, <4>4, <4>5
    <3>4. QED BY <3>2, <3>3
  <2>12. Len(g[w.tail]) = 1 /\ w.tail \in Cells(g)
         /\ \A j \in 1 .. 1 : g[w.tail][j] = d[z + j]
    <3>1. g[w.tail] = one /\ w.tail \in Cells(g)
      BY <2>6, <2>9
    <3>2. one[1] = d[z + 1]
      BY <1>4, <2>5, <2>10
    <3>3. \A j \in 1 .. 1 : j = 1
      OBVIOUS
    <3>4. QED BY <2>5, <3>1, <3>2, <3>3
  <2>13. IsAt(g, w, d, z, Q)
    <3>1. 1 <= Width
      BY VectorAssumption
    <3> HIDE DEF z
    <3>2. QED BY <2>7, <2>8, <2>9, <2>10, <2>11, <2>12, <3>1, Zenon DEF IsAt
  <2>14. Is(g, w, d)
    <3> HIDE DEF z
    <3>1. QED BY <1>4, <2>10, <2>13, Zenon DEF Is
  <2>15. QED BY <2>6, <2>7, <2>9, <2>14, Zenon DEF w, d, g
<1>7. QED BY <1>5, <1>6

-----------------------------------------------------------------------------
(* Parts of sequences.                                                     *)

LEMMA SameSequence == ASSUME NEW S, NEW x \in Seq(S), NEW y \in Seq(S), Len(x) = Len(y),
                             \A i \in 1 .. Len(x) : x[i] = y[i]
                      PROVE  x = y
<1>1. /\ x = [i \in 1 .. Len(x) |-> x[i]]
      /\ y = [i \in 1 .. Len(y) |-> y[i]]
  OBVIOUS
<1>2. QED BY <1>1

Part(d, start, n) == SubSeq(d, start + 1, start + n)

LEMMA PartIs ==
    ASSUME NEW d \in Seq(Nat), NEW start \in Nat, NEW n \in Nat, start + n <= Len(d)
    PROVE  /\ Part(d, start, n) \in Seq(Nat) /\ Len(Part(d, start, n)) = n
           /\ \A i \in 1 .. n : Part(d, start, n)[i] = d[start + i]
<1>1. n = 0 => SubSeq(d, start + 1, start + n) = << >>
  BY DEF Part
<1>2. QED BY <1>1 DEF Part

\* c and the first n elements of d after start.
Joined(c, d, start, n) == c \o Part(d, start, n)

LEMMA JoinIs ==
    ASSUME NEW S, NEW c \in Seq(S), NEW p \in Seq(S), NEW w, w = c \o p
    PROVE  /\ w \in Seq(S) /\ Len(w) = Len(c) + Len(p) /\ Len(c) \in Nat
           /\ \A i \in 1 .. Len(c) + Len(p) : w[i] = IF i <= Len(c) THEN c[i] ELSE p[i - Len(c)]
OBVIOUS

Extends(w, c, d, start, n) ==
    /\ w \in Seq(Nat) /\ Len(w) = Len(c) + n
    /\ \A i \in 1 .. Len(c) : w[i] = c[i]
    /\ \A i \in 1 .. n : w[Len(c) + i] = d[start + i]

LEMMA JoinedIs ==
    ASSUME NEW c \in Seq(Nat), NEW d \in Seq(Nat), NEW start \in Nat, NEW n \in Nat,
           start + n <= Len(d)
    PROVE  Extends(Joined(c, d, start, n), c, d, start, n)
<1> DEFINE p == Part(d, start, n)
<1>1. /\ p \in Seq(Nat) /\ Len(p) = n
      /\ \A i \in 1 .. n : p[i] = d[start + i]
  BY PartIs
<1> HIDE DEF p
<1> DEFINE w == c \o p
<1>2. w \in Seq(Nat) /\ Len(w) = Len(c) + Len(p) /\ Len(c) \in Nat
  <2>1. p \in Seq(Nat)
    BY <1>1
  <2>2. QED BY <2>1
<1>3. \A i \in 1 .. Len(c) + Len(p) : w[i] = IF i <= Len(c) THEN c[i] ELSE p[i - Len(c)]
  <2>1. p \in Seq(Nat)
    BY <1>1
  <2>2. QED BY <2>1, JoinIs
<1> HIDE DEF w
<1>4. \A i \in 1 .. Len(c) : w[i] = c[i]
  BY <1>1, <1>2, <1>3
<1>5. ASSUME NEW i \in 1 .. n
      PROVE  w[Len(c) + i] = d[start + i]
  <2>1. /\ Len(c) + i \in 1 .. Len(c) + Len(p) /\ ~(Len(c) + i <= Len(c))
        /\ (Len(c) + i) - Len(c) = i
    BY <1>1, <1>2, SMTT(30)
  <2>2. w[Len(c) + i] = p[(Len(c) + i) - Len(c)]
    BY <1>3, <2>1
  <2>3. QED BY <1>1, <2>1, <2>2
<1>6. Extends(w, c, d, start, n)
  BY <1>1, <1>2, <1>4, <1>5 DEF Extends
<1>7. QED BY <1>6 DEF Joined, w, p

LEMMA JoinedNone == ASSUME NEW c \in Seq(Nat), NEW d \in Seq(Nat), NEW start \in Nat, start <= Len(d)
                  PROVE  Joined(c, d, start, 0) = c
<1> DEFINE w == Joined(c, d, start, 0)
<1>1. /\ w \in Seq(Nat) /\ Len(w) = Len(c) + 0
      /\ \A i \in 1 .. Len(c) : w[i] = c[i]
  <2>1. start + 0 <= Len(d) /\ 0 \in Nat
    OBVIOUS
  <2>2. Extends(w, c, d, start, 0)
    BY <2>1, JoinedIs, Zenon
  <2> HIDE DEF w
  <2>3. QED BY <2>2 DEF Extends
<1> HIDE DEF w
<1>2. Len(w) = Len(c)
  BY <1>1
<1>3. w = c
  BY <1>1, <1>2, SameSequence
<1>4. QED BY <1>3 DEF w

LEMMA JoinedMore ==
    ASSUME NEW c \in Seq(Nat), NEW d \in Seq(Nat), NEW start \in Nat, NEW n \in Nat,
           start + n + 1 <= Len(d)
    PROVE  Append(Joined(c, d, start, n), d[start + n + 1]) = Joined(c, d, start, n + 1)
<1> DEFINE w == Joined(c, d, start, n)
           z == Joined(c, d, start, n + 1)
           x == d[start + n + 1]
           y == Append(w, x)
<1>1. start + n <= Len(d) /\ start + (n + 1) <= Len(d) /\ n + 1 \in Nat /\ Len(d) \in Nat /\ Len(c) \in Nat
  OBVIOUS
<1>2. /\ w \in Seq(Nat) /\ Len(w) = Len(c) + n
      /\ \A i \in 1 .. Len(c) : w[i] = c[i]
      /\ \A i \in 1 .. n : w[Len(c) + i] = d[start + i]
  <2>1. Extends(w, c, d, start, n)
    BY <1>1, JoinedIs, Zenon
  <2> HIDE DEF w
  <2>2. QED BY <2>1 DEF Extends
<1>3. /\ z \in Seq(Nat) /\ Len(z) = Len(c) + (n + 1)
      /\ \A i \in 1 .. Len(c) : z[i] = c[i]
      /\ \A i \in 1 .. n + 1 : z[Len(c) + i] = d[start + i]
  <2>1. Extends(z, c, d, start, n + 1)
    BY <1>1, JoinedIs, Zenon
  <2> HIDE DEF z
  <2>2. QED BY <2>1 DEF Extends
<1>4. x \in Nat
  BY <1>1
<1> HIDE DEF w, z, x
<1>5. /\ y \in Seq(Nat) /\ Len(y) = Len(w) + 1 /\ y[Len(w) + 1] = x
      /\ \A i \in 1 .. Len(w) : y[i] = w[i]
  <2>1. w \in Seq(Nat) /\ x \in Nat
    BY <1>2, <1>4
  <2>2. QED BY <2>1
<1> HIDE DEF y
<1>6. ASSUME NEW i \in 1 .. Len(y)
      PROVE  y[i] = z[i]
  <2>1. CASE i \in 1 .. Len(c)
    <3>1. i \in 1 .. Len(w)
      BY <1>1, <1>2, <2>1
    <3>2. QED BY <1>2, <1>3, <1>5, <2>1, <3>1
  <2>2. CASE i \in Len(c) + 1 .. Len(c) + n
    <3> DEFINE j == i - Len(c)
    <3>1. j \in 1 .. n /\ j \in 1 .. n + 1 /\ Len(c) + j = i /\ i \in 1 .. Len(w)
      BY <1>1, <1>2, <2>2
    <3> HIDE DEF j
    <3>2. w[Len(c) + j] = d[start + j] /\ z[Len(c) + j] = d[start + j]
      BY <1>2, <1>3, <3>1
    <3>3. QED BY <1>5, <3>1, <3>2
  <2>3. CASE i = Len(c) + (n + 1)
    <3>1. n + 1 \in 1 .. n + 1 /\ i = Len(w) + 1 /\ start + (n + 1) = start + n + 1
      BY <1>1, <1>2, <2>3
    <3>2. z[Len(c) + (n + 1)] = d[start + (n + 1)]
      BY <1>3, <3>1
    <3>3. QED BY <1>5, <2>3, <3>1, <3>2 DEF x
  <2>4. i \in 1 .. Len(c) \/ i \in Len(c) + 1 .. Len(c) + n \/ i = Len(c) + (n + 1)
    BY <1>1, <1>2, <1>5, SMTT(30)
  <2>5. QED BY <2>1, <2>2, <2>3, <2>4
<1>7. Len(y) = Len(z)
  BY <1>1, <1>2, <1>3, <1>5
<1>8. y = z
  BY <1>3, <1>5, <1>6, <1>7, SameSequence
<1>9. QED BY <1>8 DEF w, x, y, z

-----------------------------------------------------------------------------
(* add.                                                                    *)

LEMMA AddRuns ==
    ASSUME NEW h, NEW v, NEW w, NEW start, w.cnt - start \in Nat
    PROVE  \E f : /\ Running(f, w.cnt - start, "added", [w |-> w, start |-> start],
                             [arrays |-> h, vector |-> v])
                  /\ AddOf(h, v, w, start) = f[w.cnt - start]
<1> DEFINE m == w.cnt - start
           r == [w |-> w, start |-> start]
           a == [arrays |-> h, vector |-> v]
           Body(g) == [n \in 0 .. w.cnt - start |->
                          IF n = 0 THEN [arrays |-> h, vector |-> v]
                          ELSE ConjOf(g[n - 1].arrays, g[n - 1].vector,
                                      Nth(g[n - 1].arrays, w, start + n - 1))]
           f == CHOOSE g : g = Body(g)
<1>1. ASSUME NEW g
      PROVE  Running(g, m, "added", r, a) <=> g = Body(g)
  <2> DEFINE Run == [l \in 0 .. m |-> IF l = 0 THEN a ELSE Step("added", r, g[l - 1], l)]
  <2>1. Run = Body(g)
    <3>1. r.w = w /\ r.start = start
      OBVIOUS
    <3> HIDE DEF Step, r
    <3>2. \A x, l : Step("added", r, x, l)
                      = ConjOf(x.arrays, x.vector, Nth(x.arrays, w, start + l - 1))
      BY <3>1, StepAdded
    <3>3. QED BY <3>2, Zenon
  <2>2. QED BY <2>1 DEF Running
<1>2. f = Body(f)
  <2>1. PICK g : Running(g, m, "added", r, a)
    <3> HIDE DEF r, a
    <3>1. QED BY RunningExists
  <2>2. g = Body(g)
    BY <1>1, <2>1
  <2> HIDE DEF Body
  <2>3. QED BY <2>2, Zenon
<1>3. AddOf(h, v, w, start) = f[m]
  BY Zenon DEF AddOf
<1>4. Running(f, m, "added", r, a)
  BY <1>1, <1>2, Zenon
<1> HIDE DEF f
<1>5. QED BY <1>3, <1>4, Zenon

\* The vector after n elements were added.
Added(f, h, c, d, start, n) ==
    /\ f[n].arrays \in Heaps
    /\ Grown(h, f[n].arrays)
    /\ Is(f[n].arrays, f[n].vector, Joined(c, d, start, n))

\* add makes the sequence with the other one's elements from start at its end.
LEMMA AddIs ==
    ASSUME NEW h \in Heaps, NEW v, NEW c, Is(h, v, c), NEW w, NEW d, Is(h, w, d),
           NEW start \in Nat, start <= w.cnt, NEW made, made = AddOf(h, v, w, start)
    PROVE  /\ made.arrays \in Heaps /\ Grown(h, made.arrays)
           /\ Is(made.arrays, made.vector, c \o SubSeq(d, start + 1, w.cnt))
<1> DEFINE m == w.cnt - start
<1>1. c \in Seq(Nat) /\ d \in Seq(Nat)
  BY Zenon DEF Is
<1>2. w.cnt = Len(d)
  BY Zenon DEF Is, IsAt
<1>3. w.cnt \in Nat /\ m \in Nat /\ start + m = w.cnt
  BY <1>1, <1>2
<1>4. PICK f : /\ Running(f, m, "added", [w |-> w, start |-> start], [arrays |-> h, vector |-> v])
               /\ made = f[m]
  <2>1. \E f : /\ Running(f, m, "added", [w |-> w, start |-> start], [arrays |-> h, vector |-> v])
               /\ AddOf(h, v, w, start) = f[m]
    <3>1. w.cnt - start \in Nat
      BY <1>3
    <3>2. QED BY <3>1, AddRuns
  <2>2. QED BY <2>1, Zenon
<1>5. /\ f[0].arrays = h /\ f[0].vector = v
      /\ \A n \in 1 .. m : f[n] = ConjOf(f[n - 1].arrays, f[n - 1].vector,
                                         Nth(f[n - 1].arrays, w, start + n - 1))
  <2> DEFINE r == [w |-> w, start |-> start]
             a == [arrays |-> h, vector |-> v]
  <2>1. Running(f, m, "added", r, a) /\ r.w = w /\ r.start = start /\ a.arrays = h /\ a.vector = v
    BY <1>4
  <2> HIDE DEF Step, r, a, m
  <2>2. f[0] = a /\ \A n \in 1 .. m : f[n] = Step("added", r, f[n - 1], n)
    BY <1>3, <2>1, RunningIs
  <2>3. ASSUME NEW n \in 1 .. m
        PROVE  f[n] = ConjOf(f[n - 1].arrays, f[n - 1].vector, Nth(f[n - 1].arrays, w, start + n - 1))
    <3>1. f[n] = Step("added", r, f[n - 1], n)
      BY <2>2
    <3>2. f[n] = ConjOf(f[n - 1].arrays, f[n - 1].vector, Nth(f[n - 1].arrays, r.w, r.start + n - 1))
      BY <3>1, StepAdded, Zenon
    <3>3. QED BY <2>1, <3>2
  <2>4. QED BY <2>1, <2>2, <2>3
<1> HIDE DEF m
<1>6. Added(f, h, c, d, start, 0)
  BY <1>1, <1>2, <1>5, JoinedNone, GrownSelf DEF Added
<1>7. ASSUME NEW n \in 1 .. m, Added(f, h, c, d, start, n - 1)
      PROVE  Added(f, h, c, d, start, n)
  <2> DEFINE k == n - 1
             g == f[k].arrays
             u == f[k].vector
             i == start + n - 1
             x == Nth(g, w, i)
             e == Joined(c, d, start, k)
  <2>1. /\ k \in Nat /\ i \in Nat /\ i < w.cnt /\ i + 1 = start + k + 1
        /\ start + k + 1 <= Len(d) /\ k + 1 = n /\ start + k + 1 \in 1 .. Len(d)
    BY <1>2, <1>3
  <2>2. g \in Heaps /\ Grown(h, g) /\ Is(g, u, e)
    BY <1>7 DEF Added
  <2>3. f[n] = ConjOf(g, u, x)
    BY <1>5
  <2> HIDE DEF k, g, u, i, e
  <2>4. x = d[start + k + 1] /\ x \in Nat
    <3>1. Is(g, w, d)
      BY <2>2, IsKept
    <3>2. x = d[i + 1]
      BY <2>1, <2>2, <3>1, NthIs
    <3> HIDE DEF x
    <3>3. QED BY <1>1, <2>1, <3>2
  <2> HIDE DEF x
  <2>5. f[n].arrays \in Heaps /\ Grown(g, f[n].arrays) /\ Is(f[n].arrays, f[n].vector, Append(e, x))
    BY <2>2, <2>3, <2>4, ConjIs
  <2>6. Append(e, x) = Joined(c, d, start, n)
    <3>1. Append(Joined(c, d, start, k), d[start + k + 1]) = Joined(c, d, start, k + 1)
      BY <1>1, <2>1, JoinedMore
    <3>2. QED BY <2>1, <2>4, <3>1 DEF e
  <2>7. Grown(h, f[n].arrays)
    BY <2>2, <2>5, GrownTwice
  <2>8. QED BY <2>5, <2>6, <2>7 DEF Added
<1> DEFINE Failing == {n \in Nat : n <= m /\ ~Added(f, h, c, d, start, n)}
<1>8. Failing = {}
  <2>1. SUFFICES ASSUME Failing # {} PROVE FALSE
    OBVIOUS
  <2>2. PICK n \in Failing : \A k \in Failing : n <= k
    <3>1. Failing \in SUBSET Nat
      OBVIOUS
    <3> HIDE DEF Failing
    <3>2. QED BY <2>1, <3>1, Least
  <2>3. n # 0
    BY <1>6, <2>2
  <2>4. n - 1 \in Nat /\ n \in 1 .. m /\ Added(f, h, c, d, start, n - 1)
    BY <1>3, <2>2, <2>3
  <2>5. QED BY <1>7, <2>2, <2>4
<1>9. Added(f, h, c, d, start, m)
  BY <1>3, <1>8
<1>10. Joined(c, d, start, m) = c \o SubSeq(d, start + 1, w.cnt)
  BY <1>3 DEF Joined, Part
<1>11. QED BY <1>4, <1>9, <1>10 DEF Added

-----------------------------------------------------------------------------
(* Iteration.                                                              *)

RestOf(c, start) == Part(c, start, Len(c) - start)

LEMMA RestNone == ASSUME NEW c \in Seq(Nat) PROVE RestOf(c, Len(c)) = << >>
<1>1. Len(c) \in Nat /\ Len(c) - Len(c) = 0 /\ Len(c) + 0 <= Len(c) /\ 0 \in Nat
  OBVIOUS
<1> DEFINE p == Part(c, Len(c), 0)
<1>2. p \in Seq(Nat) /\ Len(p) = 0
  BY <1>1, PartIs
<1> HIDE DEF p
<1>3. p = << >>
  BY <1>2
<1>4. QED BY <1>1, <1>3 DEF RestOf, p

LEMMA RestAll == ASSUME NEW c \in Seq(Nat) PROVE RestOf(c, 0) = c
<1> DEFINE p == Part(c, 0, Len(c))
<1>1. Len(c) \in Nat /\ 0 + Len(c) <= Len(c) /\ 0 \in Nat /\ Len(c) - 0 = Len(c)
  OBVIOUS
<1>2. /\ p \in Seq(Nat) /\ Len(p) = Len(c)
      /\ \A i \in 1 .. Len(c) : p[i] = c[0 + i]
  BY <1>1, PartIs
<1> HIDE DEF p
<1>3. ASSUME NEW i \in 1 .. Len(p)
      PROVE  p[i] = c[i]
  <2>1. i \in 1 .. Len(c) /\ 0 + i = i
    BY <1>1, <1>2
  <2>2. QED BY <1>2, <2>1
<1>4. p = c
  BY <1>2, <1>3, SameSequence
<1>5. QED BY <1>1, <1>4 DEF RestOf, p

LEMMA RestFirst ==
    ASSUME NEW c \in Seq(Nat), NEW start \in Nat, start < Len(c), NEW one, one = <<c[start + 1]>>
    PROVE  one \o RestOf(c, start + 1) = RestOf(c, start)
<1> DEFINE n == Len(c) - start
           m == Len(c) - (start + 1)
           p == RestOf(c, start + 1)
           q == RestOf(c, start)
           w == one \o p
<1>1. /\ n \in Nat /\ m \in Nat /\ n = m + 1 /\ start + 1 \in Nat
      /\ start + n <= Len(c) /\ (start + 1) + m <= Len(c)
  OBVIOUS
<1>2. one \in Seq(Nat) /\ Len(one) = 1 /\ one[1] = c[start + 1]
  OBVIOUS
<1> HIDE DEF n, m
<1>3. /\ p \in Seq(Nat) /\ Len(p) = m
      /\ \A i \in 1 .. m : p[i] = c[(start + 1) + i]
  BY <1>1, PartIs DEF RestOf, m
<1>4. /\ q \in Seq(Nat) /\ Len(q) = n
      /\ \A i \in 1 .. n : q[i] = c[start + i]
  BY <1>1, PartIs DEF RestOf, n
<1> HIDE DEF p, q
<1>5. /\ w \in Seq(Nat) /\ Len(w) = Len(one) + Len(p)
      /\ \A i \in 1 .. Len(one) + Len(p) : w[i] = IF i <= Len(one) THEN one[i] ELSE p[i - Len(one)]
  <2>1. one \in Seq(Nat) /\ p \in Seq(Nat)
    BY <1>2, <1>3
  <2>2. QED BY <2>1, JoinIs
<1> HIDE DEF w
<1>6. Len(w) = Len(q)
  BY <1>1, <1>2, <1>3, <1>4, <1>5
<1>7. ASSUME NEW i \in 1 .. Len(w)
      PROVE  w[i] = q[i]
  <2>1. i \in 1 .. Len(one) + Len(p) /\ i \in 1 .. n
    BY <1>4, <1>5, <1>6
  <2>2. CASE i = 1
    <3>1. w[1] = one[1] /\ q[1] = c[start + 1]
      BY <1>2, <1>4, <1>5, <2>1, <2>2
    <3>2. QED BY <1>2, <2>2, <3>1
  <2>3. CASE i # 1
    <3>1. i - 1 \in 1 .. m /\ (start + 1) + (i - 1) = start + i /\ ~(i <= Len(one))
      BY <1>1, <1>2, <2>1, <2>3
    <3>2. w[i] = p[i - 1]
      BY <1>2, <1>5, <2>1, <3>1
    <3>3. p[i - 1] = c[(start + 1) + (i - 1)]
      BY <1>3, <3>1
    <3>4. QED BY <1>4, <2>1, <3>1, <3>2, <3>3
  <2>4. QED BY <2>2, <2>3
<1>8. w = q
  BY <1>4, <1>5, <1>6, <1>7, SameSequence
<1>9. QED BY <1>8 DEF w, p, q

\* A loop over first and next sees the elements, in order, and nothing else.
LEMMA VisitedIs ==
    ASSUME NEW h \in Heaps, NEW v, NEW c, Is(h, v, c)
    PROVE  Visited(h, v) = c
<1> DEFINE n == v.cnt
           Body(f) == [start \in 0 .. v.cnt + 1 |->
                          IF start > v.cnt THEN <<OutOfBounds>>
                          ELSE IF ~IteratorTrue(v, start) THEN << >>
                          ELSE <<Nth(h, v, start)>> \o f[start + 1]]
           r == CHOOSE f : f = Body(f)
           g == [start \in 0 .. n + 1 |-> IF start > n THEN <<OutOfBounds>> ELSE RestOf(c, start)]
<1>1. c \in Seq(Nat) /\ n = Len(c) /\ n \in Nat
  <2>1. c \in Seq(Nat)
    BY Zenon DEF Is
  <2>2. n = Len(c)
    BY Zenon DEF Is, IsAt
  <2>3. QED BY <2>1, <2>2
<1>2. ASSUME NEW start \in 0 .. n
      PROVE  /\ ~(start > n) /\ start \in 0 .. n + 1
             /\ start = n => ~IteratorTrue(v, start) /\ RestOf(c, start) = << >>
             /\ start # n => /\ IteratorTrue(v, start) /\ start + 1 \in 0 .. n
                             /\ <<Nth(h, v, start)>> \o RestOf(c, start + 1) = RestOf(c, start)
  <2>1. ~(start > n) /\ start \in 0 .. n + 1 /\ start \in Nat
    BY <1>1
  <2>2. ASSUME start = n
        PROVE  ~IteratorTrue(v, start) /\ RestOf(c, start) = << >>
    BY <1>1, <2>2, RestNone DEF IteratorTrue
  <2>3. ASSUME start # n
        PROVE  /\ IteratorTrue(v, start) /\ start + 1 \in 0 .. n
               /\ <<Nth(h, v, start)>> \o RestOf(c, start + 1) = RestOf(c, start)
    <3>1. IteratorTrue(v, start)
      BY <2>3 DEF IteratorTrue
    <3>2. start + 1 \in 0 .. n /\ start < Len(c) /\ start < v.cnt
      BY <1>1, <2>3
    <3> DEFINE x == Nth(h, v, start)
               one == <<x>>
    <3>3. x = c[start + 1]
      BY <2>1, <3>2, NthIs
    <3> HIDE DEF x
    <3>4. one = <<c[start + 1]>>
      BY <3>3
    <3> HIDE DEF one
    <3>5. one \o RestOf(c, start + 1) = RestOf(c, start)
      BY <1>1, <2>1, <3>2, <3>4, RestFirst
    <3>6. QED BY <3>1, <3>2, <3>5 DEF one, x
  <2>4. QED BY <2>1, <2>2, <2>3
<1>3. g = Body(g)
  <2> DEFINE b == Body(g)
  <2>1. ASSUME NEW start \in 0 .. n + 1
        PROVE  g[start] = b[start]
    <3>1. CASE start > n
      BY <3>1
    <3>2. CASE start \in 0 .. n /\ start = n
      <4>1. g[start] = << >> /\ b[start] = << >>
        BY <1>2, <3>2
      <4>2. QED BY <4>1
    <3>3. CASE start \in 0 .. n /\ start # n
      <4>1. g[start] = RestOf(c, start) /\ start + 1 \in 0 .. n
        BY <1>2, <3>3
      <4>2. start + 1 \in 0 .. n + 1 /\ ~(start + 1 > n)
        BY <1>2, <4>1
      <4>3. g[start + 1] = RestOf(c, start + 1)
        BY <4>2
      <4> HIDE DEF g
      <4>4. b[start] = <<Nth(h, v, start)>> \o g[start + 1]
        BY <1>2, <3>3
      <4>5. QED BY <1>2, <3>3, <4>1, <4>3, <4>4
    <3>4. QED BY <1>1, <3>1, <3>2, <3>3
  <2>2. g = [start \in 0 .. n + 1 |-> g[start]] /\ b = [start \in 0 .. n + 1 |-> b[start]]
    OBVIOUS
  <2> HIDE DEF g, b
  <2>3. g = b
    BY <2>1, <2>2
  <2>4. QED BY <2>3 DEF b
<1>4. r = Body(r)
  <2> HIDE DEF Body, g
  <2>1. QED BY <1>3, Zenon
<1>5. Visited(h, v) = IF v.cnt # 0 THEN <<Nth(h, v, 0)>> \o r[1] ELSE << >>
  BY Zenon DEF Visited
<1> HIDE DEF r, g
<1>6. ASSUME NEW start \in 0 .. n
      PROVE  /\ start = n => r[start] = RestOf(c, start)
             /\ start # n /\ r[start + 1] = RestOf(c, start + 1) => r[start] = RestOf(c, start)
  <2>1. r[start] = IF start > v.cnt THEN <<OutOfBounds>>
                   ELSE IF ~IteratorTrue(v, start) THEN << >>
                   ELSE <<Nth(h, v, start)>> \o r[start + 1]
    <3>1. start \in 0 .. v.cnt + 1
      BY <1>2
    <3> DEFINE b == Body(r)
    <3>2. r = b
      BY <1>4
    <3>3. b[start] = IF start > v.cnt THEN <<OutOfBounds>>
                     ELSE IF ~IteratorTrue(v, start) THEN << >>
                     ELSE <<Nth(h, v, start)>> \o r[start + 1]
      BY <3>1, Zenon
    <3> HIDE DEF b
    <3>4. QED BY <3>2, <3>3
  <2>2. QED BY <1>2, <2>1
<1> DEFINE Failing == {k \in Nat : k <= n /\ r[n - k] # RestOf(c, n - k)}
<1>7. Failing = {}
  <2>1. SUFFICES ASSUME Failing # {} PROVE FALSE
    OBVIOUS
  <2>2. PICK k \in Failing : \A j \in Failing : k <= j
    <3>1. Failing \in SUBSET Nat
      OBVIOUS
    <3> HIDE DEF Failing
    <3>2. QED BY <2>1, <3>1, Least
  <2> DEFINE start == n - k
  <2>3. start \in 0 .. n /\ k \in Nat /\ k <= n /\ r[start] # RestOf(c, start)
    BY <1>1, <2>2
  <2>4. CASE k = 0
    <3>1. start = n
      BY <1>1, <2>4
    <3> HIDE DEF start
    <3>2. QED BY <1>6, <2>3, <3>1
  <2>5. CASE k # 0
    <3>1. k - 1 \in Nat /\ k - 1 <= n /\ n - (k - 1) = start + 1 /\ start # n /\ ~(k <= k - 1)
      BY <1>1, <2>3, <2>5
    <3>4. k - 1 \notin Failing
      <4> HIDE DEF Failing
      <4>1. QED BY <2>2, <3>1
    <3>2. r[start + 1] = RestOf(c, start + 1)
      <4> DEFINE i == n - (k - 1)
      <4>1. r[i] = RestOf(c, i)
        BY <3>1, <3>4
      <4>2. i = start + 1
        BY <3>1
      <4> HIDE DEF i, start
      <4>3. QED BY <4>1, <4>2
    <3> HIDE DEF start
    <3>3. QED BY <1>6, <2>3, <3>1, <3>2
  <2>6. QED BY <2>4, <2>5
<1>8. CASE n = 0
  <2>1. Visited(h, v) = << >>
    BY <1>5, <1>8
  <2>2. c \in Seq(Nat) /\ Len(c) = 0
    BY <1>1, <1>8
  <2>3. c = << >>
    BY ONLY <2>2
  <2>4. QED BY <2>1, <2>3
<1>9. CASE n # 0
  <2>1. n - 1 \in Nat /\ n - 1 <= n /\ n - (n - 1) = 1 /\ 0 \in 0 .. n /\ 0 + 1 = 1
    BY <1>1, <1>9
  <2>2. r[1] = RestOf(c, 1)
    <3>1. n - 1 \notin Failing
      BY <1>7
    <3>2. QED BY <2>1, <3>1
  <2>3. <<Nth(h, v, 0)>> \o RestOf(c, 1) = RestOf(c, 0)
    <3>1. <<Nth(h, v, 0)>> \o RestOf(c, 0 + 1) = RestOf(c, 0)
      BY <1>2, <1>9, <2>1
    <3>2. QED BY <2>1, <3>1
  <2>4. Visited(h, v) = <<Nth(h, v, 0)>> \o RestOf(c, 1)
    BY <1>5, <1>9, <2>2
  <2>5. QED BY <1>1, <2>3, <2>4, RestAll
<1>10. QED BY <1>8, <1>9

-----------------------------------------------------------------------------
\* The inductive invariant: every version is the vector of its contents.
VectorInv ==
    /\ arrays \in Heaps
    /\ versions \in Seq(Vectors) /\ contents \in Seq(Seq(Nat))
    /\ Len(versions) # 0 /\ Len(contents) = Len(versions)
    /\ \A k \in 1 .. Len(versions) : Is(arrays, versions[k], contents[k])

LEMMA InitVectorInv == ASSUME VectorInit PROVE VectorInv
<1> DEFINE none == << >>
           h == <<none>>
<1>1. arrays = h /\ versions = <<EmptyVector>> /\ contents = <<none>>
  BY DEF VectorInit
<1>2. none \in Arrays /\ none \in Seq(Nat) /\ Len(none) = 0
  BY VectorAssumption DEF Arrays
<1> HIDE DEF none
<1>3. h \in Heaps /\ Len(h) = 1 /\ h[1] = none
  BY <1>2 DEF Heaps
<1>4. EmptyVector \in Vectors
  BY DEF EmptyVector, Vectors, EmptyArray
<1> DEFINE e == EmptyVector
<1>5. e.root = 1 /\ e.tail = 1 /\ e.cnt = 0 /\ e.shift = 1
  BY DEF EmptyVector, EmptyArray
<1> HIDE DEF e, h
<1>6. 1 \in Cells(h) /\ 0 % Width = 0
  BY <1>3, VectorAssumption DEF Cells
<1>7. Is(h, e, none)
  <2>1. IsAt(h, e, none, 0, none)
    <3>1. e \in Vectors
      BY <1>4 DEF e
    <3>2. e.root \in Cells(h) /\ e.tail \in Cells(h)
      BY <1>5, <1>6
    <3>3. /\ e.cnt = Len(none) /\ e.cnt = 0 + Len(h[e.tail]) /\ Len(h[e.tail]) <= Width
          /\ Len(h[e.root]) = 0 /\ e.shift = 1
          /\ \A j \in 1 .. Len(h[e.tail]) : h[e.tail][j] = none[0 + j]
      BY <1>2, <1>3, <1>5, VectorAssumption
    <3>4. ~(0 > 0)
      OBVIOUS
    <3>5. QED BY <1>6, <3>1, <3>2, <3>3, <3>4 DEF IsAt
  <2>2. QED BY <1>2, <2>1 DEF Is
<1>8. versions \in Seq(Vectors) /\ contents \in Seq(Seq(Nat)) /\ Len(versions) = 1 /\ Len(contents) = 1
  BY <1>1, <1>2, <1>4
<1>9. versions[1] = e /\ contents[1] = none
  BY <1>1 DEF e
<1>10. \A k \in 1 .. Len(versions) : Is(arrays, versions[k], contents[k])
  <2>1. ASSUME NEW k \in 1 .. Len(versions)
        PROVE  Is(arrays, versions[k], contents[k])
    <3>1. k = 1
      BY <1>8
    <3>2. QED BY <1>1, <1>7, <1>9, <3>1
  <2>2. QED BY <2>1
<1>11. QED BY <1>1, <1>3, <1>8, <1>10 DEF VectorInv

\* A version joins the others on a heap that has grown.
LEMMA MadeKeeps ==
    ASSUME VectorInv, NEW made, NEW c, made.arrays \in Heaps, Grown(arrays, made.arrays),
           Is(made.arrays, made.vector, c), Made(made, c)
    PROVE  VectorInv'
<1>1. /\ arrays' = made.arrays
      /\ versions' = Append(versions, made.vector)
      /\ contents' = Append(contents, c)
  BY Zenon DEF Made
<1>2. made.vector \in Vectors /\ c \in Seq(Nat)
  BY Zenon DEF Is, IsAt
<1>3. /\ versions \in Seq(Vectors) /\ contents \in Seq(Seq(Nat))
      /\ Len(versions) \in Nat /\ Len(contents) = Len(versions)
  BY DEF VectorInv
<1> DEFINE vector == made.vector
           n == Len(versions)
<1> HIDE DEF vector
<1>4. /\ versions' \in Seq(Vectors) /\ contents' \in Seq(Seq(Nat))
      /\ Len(versions') = n + 1 /\ Len(contents') = n + 1
      /\ versions'[n + 1] = vector /\ contents'[n + 1] = c
      /\ \A k \in 1 .. n : versions'[k] = versions[k] /\ contents'[k] = contents[k]
  BY <1>1, <1>2, <1>3 DEF vector
<1>5. ASSUME NEW k \in 1 .. n + 1
      PROVE  Is(arrays', versions'[k], contents'[k])
  <2>1. CASE k \in 1 .. n
    <3>1. Is(arrays, versions[k], contents[k])
      BY <2>1 DEF VectorInv
    <3>2. Is(made.arrays, versions[k], contents[k])
      BY <3>1, IsKept, Zenon
    <3>3. QED BY <1>1, <1>4, <2>1, <3>2
  <2>2. CASE k = n + 1
    BY <1>1, <1>4, <2>2 DEF vector
  <2>3. QED BY <1>3, <2>1, <2>2
<1>6. QED BY <1>1, <1>3, <1>4, <1>5 DEF VectorInv

LEMMA ConjKeeps ==
    ASSUME VectorInv, NEW k \in DOMAIN versions, Conj(k)
    PROVE  VectorInv' /\ Grown(arrays, arrays')
<1> DEFINE x == Len(versions)
           made == ConjOf(arrays, versions[k], x)
<1>1. /\ arrays \in Heaps /\ x \in Nat
      /\ Is(arrays, versions[k], contents[k])
  BY DEF VectorInv
<1>2. Made(made, Append(contents[k], x))
  BY Zenon DEF Conj
<1> HIDE DEF made, x
<1>3. made.arrays \in Heaps /\ Grown(arrays, made.arrays) /\ Is(made.arrays, made.vector, Append(contents[k], x))
  BY <1>1, ConjIs DEF made
<1>4. VectorInv'
  BY <1>2, <1>3, MadeKeeps, Zenon
<1>5. arrays' = made.arrays
  BY <1>2, Zenon DEF Made
<1>6. QED BY <1>3, <1>4, <1>5

LEMMA AddKeeps ==
    ASSUME VectorInv, NEW k \in DOMAIN versions, NEW j \in DOMAIN versions, NEW start \in 0 .. 2,
           Add(k, j, start)
    PROVE  VectorInv' /\ Grown(arrays, arrays')
<1> DEFINE made == AddOf(arrays, versions[k], versions[j], start)
           c == contents[k] \o SubSeq(contents[j], start + 1, versions[j].cnt)
<1>1. /\ arrays \in Heaps /\ start \in Nat
      /\ Is(arrays, versions[k], contents[k]) /\ Is(arrays, versions[j], contents[j])
  BY DEF VectorInv
<1>2. Made(made, c) /\ start <= versions[j].cnt
  BY Zenon DEF Add
<1> HIDE DEF made
<1>3. made.arrays \in Heaps /\ Grown(arrays, made.arrays) /\ Is(made.arrays, made.vector, c)
  BY <1>1, <1>2, AddIs DEF made
<1> HIDE DEF c
<1>4. VectorInv'
  BY <1>2, <1>3, MadeKeeps, Zenon
<1>5. arrays' = made.arrays
  BY <1>2, Zenon DEF Made
<1>6. QED BY <1>3, <1>4, <1>5

LEMMA NextKeeps ==
    ASSUME VectorInv, [VectorNext]_vectorVars
    PROVE  VectorInv' /\ Grown(arrays, arrays')
<1>1. CASE VectorNext
  BY <1>1, ConjKeeps, AddKeeps, Zenon DEF VectorNext
<1>2. CASE UNCHANGED vectorVars
  <2>1. arrays' = arrays /\ versions' = versions /\ contents' = contents
    BY <1>2 DEF vectorVars
  <2>2. VectorInv'
    BY <2>1 DEF VectorInv
  <2>3. QED BY <2>1, <2>2, GrownSelf
<1>3. QED BY <1>1, <1>2

LEMMA VectorInvariant == VectorSpec => []VectorInv
<1>1. VectorInit => VectorInv
  BY InitVectorInv
<1>2. VectorInv /\ [VectorNext]_vectorVars => VectorInv'
  BY NextKeeps
<1>3. QED BY <1>1, <1>2, PTL DEF VectorSpec

\* Arrays are written only while they are new: no operation on a vector changes
\* an array that was there before it, which is what lets versions share them
\* (the copies of growArray and pushTail, ImmutableArray::copy in conj).
THEOREM ArraysAreFinal == VectorSpec => [][Grown(arrays, arrays')]_vectorVars
<1>1. VectorInv /\ [VectorNext]_vectorVars => [Grown(arrays, arrays')]_vectorVars
  BY NextKeeps
<1>2. QED BY <1>1, VectorInvariant, PTL DEF VectorSpec

\* For every width of an array, every length and any number of versions: conj and
\* add leave each version the sequence it was made as, nth gives its elements and
\* throws past its end.
THEOREM VersionsKeep == VectorSpec => []VersionsKeepContents
<1>1. VectorInv => VersionsKeepContents
  <2>1. SUFFICES ASSUME VectorInv, NEW k \in DOMAIN versions
                 PROVE  /\ versions[k].cnt = Len(contents[k])
                        /\ \A i \in 0 .. versions[k].cnt + Width :
                               Nth(arrays, versions[k], i) =
                                   IF i < versions[k].cnt THEN contents[k][i + 1] ELSE OutOfBounds
    BY Zenon DEF VersionsKeepContents
  <2> DEFINE v == versions[k]
             c == contents[k]
  <2>2. arrays \in Heaps /\ Is(arrays, v, c)
    BY <2>1 DEF VectorInv
  <2> HIDE DEF v, c
  <2>3. v.cnt = Len(c)
    BY <2>2, Zenon DEF Is, IsAt
  <2>4. ASSUME NEW i \in 0 .. v.cnt + Width
        PROVE  Nth(arrays, v, i) = IF i < v.cnt THEN c[i + 1] ELSE OutOfBounds
    <3>1. i \in Nat
      OBVIOUS
    <3>2. QED BY <2>2, <3>1, NthIs
  <2>5. QED BY <2>3, <2>4, Zenon DEF v, c
<1>2. QED BY <1>1, VectorInvariant, PTL

\* For every width and length: the loop over first and next sees the elements of
\* the newest version, each once and in order, and nothing after them.
THEOREM IterationVisits == VectorSpec => []IterationVisitsAll
<1>1. VectorInv => IterationVisitsAll
  <2>1. SUFFICES ASSUME VectorInv
                 PROVE  Visited(arrays, Last(versions)) = Last(contents)
    BY DEF IterationVisitsAll
  <2> DEFINE n == Len(versions)
  <2>2. n \in 1 .. n /\ Last(versions) = versions[n] /\ Last(contents) = contents[n]
    BY <2>1 DEF VectorInv, Last
  <2>3. arrays \in Heaps /\ Is(arrays, versions[n], contents[n])
    BY <2>1, <2>2 DEF VectorInv
  <2>4. QED BY <2>2, <2>3, VisitedIs
<1>2. QED BY <1>1, VectorInvariant, PTL

-----------------------------------------------------------------------------
(* The bits of a node and the places of its children.                      *)

Bits == 0 .. MapWidth - 1

LEMMA BitsFinite ==
    ASSUME NEW B \in SUBSET Bits
    PROVE  /\ IsFiniteSet(B) /\ Cardinality(B) \in Nat
           /\ Cardinality(B) = MapWidth <=> B = Bits
<1>1. MapWidth - 1 \in Nat /\ MapWidth \in Nat
  BY MapAssumption
<1>2. IsFiniteSet(Bits) /\ Cardinality(Bits) = MapWidth
  BY <1>1, FS_Interval DEF Bits
<1>3. IsFiniteSet(B) /\ (Cardinality(B) = Cardinality(Bits) => B = Bits)
  BY <1>2, FS_Subset
<1>4. Cardinality(B) \in Nat
  BY <1>3, FS_CardinalityType
<1>5. QED BY <1>2, <1>3, <1>4

Lower(B, b) == {a \in B : a < b}

LEMMA IndexLower == ASSUME NEW B, NEW b PROVE Index(B, b) = 1 + Cardinality(Lower(B, b))
BY Zenon DEF Index, Lower

LEMMA LowerFinite ==
    ASSUME NEW B \in SUBSET Bits, NEW b
    PROVE  /\ IsFiniteSet(Lower(B, b)) /\ Cardinality(Lower(B, b)) \in Nat
           /\ Cardinality(Lower(B, b)) <= Cardinality(B)
<1>1. Lower(B, b) \in SUBSET B /\ Lower(B, b) \in SUBSET Bits
  BY DEF Lower
<1>2. QED BY <1>1, BitsFinite, FS_Subset

LEMMA IndexGrows ==
    ASSUME NEW B \in SUBSET Bits, NEW a \in B, NEW b \in Bits, a < b
    PROVE  Index(B, a) < Index(B, b)
<1> DEFINE L == Lower(B, a)
           M == Lower(B, b)
<1>1. IsFiniteSet(L) /\ IsFiniteSet(M) /\ Cardinality(L) \in Nat /\ Cardinality(M) \in Nat
  BY LowerFinite
<1>2. a \notin L /\ L \cup {a} \in SUBSET M
  <2>1. MapWidth \in Nat
    BY MapAssumption
  <2>2. a \in Nat /\ b \in Nat /\ \A x \in B : x \in Nat
    BY <2>1 DEF Bits
  <2>3. ASSUME NEW x \in L \cup {a}
        PROVE  x \in M
    BY <2>2 DEF Lower
  <2>4. a \notin L
    BY <2>2 DEF Lower
  <2>5. QED BY <2>3, <2>4
<1>3. Index(B, a) = 1 + Cardinality(L) /\ Index(B, b) = 1 + Cardinality(M)
  BY IndexLower
<1> HIDE DEF L, M
<1>4. Cardinality(L \cup {a}) = Cardinality(L) + 1 /\ Cardinality(L \cup {a}) <= Cardinality(M)
  BY <1>1, <1>2, FS_AddElement, FS_Subset
<1>5. QED BY <1>1, <1>3, <1>4

LEMMA IndexOnce ==
    ASSUME NEW B \in SUBSET Bits, NEW a \in B, NEW b \in B, Index(B, a) = Index(B, b)
    PROVE  a = b
<1>1. MapWidth \in Nat
  BY MapAssumption
<1>2. a \in Nat /\ b \in Nat /\ a \in Bits /\ b \in Bits
  BY <1>1 DEF Bits
<1>3. Index(B, a) \in Nat /\ Index(B, b) \in Nat
  BY IndexLower, LowerFinite
<1>4. QED BY <1>2, <1>3, IndexGrows

LEMMA IndexRange ==
    ASSUME NEW B \in SUBSET Bits, NEW b \in Bits
    PROVE  /\ Index(B, b) \in 1 .. Cardinality(B) + 1
           /\ b \in B => Index(B, b) \in 1 .. Cardinality(B)
<1>1. Cardinality(B) \in Nat /\ IsFiniteSet(B)
  BY BitsFinite
<1> DEFINE L == Lower(B, b)
<1>2. Index(B, b) = 1 + Cardinality(L) /\ Cardinality(L) \in Nat /\ Cardinality(L) <= Cardinality(B)
  BY IndexLower, LowerFinite
<1>3. ASSUME b \in B
      PROVE  Cardinality(L) # Cardinality(B)
  <2>1. L \in SUBSET B /\ b \notin L
    <3>1. MapWidth \in Nat
      BY MapAssumption
    <3>2. b \in Nat
      BY <3>1 DEF Bits
    <3>3. QED BY <3>2 DEF Lower
  <2> HIDE DEF L
  <2>2. QED BY <1>1, <1>3, <2>1, FS_Subset
<1> HIDE DEF L
<1>4. QED BY <1>1, <1>2, <1>3

\* Each child is for one of the bits.
LEMMA IndexOnto ==
    ASSUME NEW B \in SUBSET Bits, NEW i \in 1 .. Cardinality(B)
    PROVE  \E b \in B : Index(B, b) = i
<1> DEFINE N == 1 .. Cardinality(B)
           f == [b \in B |-> Index(B, b)]
<1>1. IsFiniteSet(B) /\ Cardinality(B) \in Nat /\ IsFiniteSet(N) /\ Cardinality(N) = Cardinality(B)
  <2>1. IsFiniteSet(B) /\ Cardinality(B) \in Nat
    BY BitsFinite
  <2>2. QED BY <2>1, FS_Interval
<1>2. f \in Injection(B, N)
  <2>1. f \in [B -> N]
    BY IndexRange
  <2>2. \A a, b \in B : f[a] = f[b] => a = b
    BY IndexOnce
  <2> HIDE DEF f, N
  <2>3. QED BY <2>1, <2>2 DEF Injection, IsInjective
<1> HIDE DEF f
<1>3. f \in Surjection(B, N)
  <2> HIDE DEF N
  <2>1. QED BY <1>1, <1>2, FS_Injection
<1>4. PICK b \in B : f[b] = i
  BY <1>3 DEF Surjection
<1>5. QED BY <1>4 DEF f

\* What one more bit does to the place of another.
MoreBit(B, b, a) ==
    /\ Index(B \cup {b}, a) = IF b < a THEN Index(B, a) + 1 ELSE Index(B, a)
    /\ IF b < a THEN Index(B, b) <= Index(B, a) ELSE Index(B, a) < Index(B, b)

LEMMA IndexMore ==
    ASSUME NEW B \in SUBSET Bits, NEW b \in Bits, b \notin B, NEW a \in B
    PROVE  MoreBit(B, b, a)
<1>1. MapWidth \in Nat
  BY MapAssumption
<1>2. a \in Nat /\ b \in Nat /\ a \in Bits /\ (\A x \in B : x \in Nat) /\ a # b
  BY <1>1 DEF Bits
<1> DEFINE C == B \cup {b}
<1>3. C \in SUBSET Bits
  OBVIOUS
<1>5. Lower(C, a) = IF b < a THEN Lower(B, a) \cup {b} ELSE Lower(B, a)
  BY <1>2 DEF Lower
<1>6. b \notin Lower(B, a)
  BY DEF Lower
<1>7. IsFiniteSet(Lower(B, a)) /\ Cardinality(Lower(B, a)) \in Nat
  BY LowerFinite
<1>8. Cardinality(Lower(B, a) \cup {b}) = Cardinality(Lower(B, a)) + 1
  BY <1>6, <1>7, FS_AddElement
<1>10. IF b < a THEN Index(B, b) <= Index(B, a) ELSE Index(B, a) < Index(B, b)
  <2>1. CASE b < a
    <3>1. Lower(B, b) \in SUBSET Lower(B, a)
      <4>1. ASSUME NEW x \in Lower(B, b)
            PROVE  x \in Lower(B, a)
        BY <1>2, <2>1 DEF Lower
      <4>2. QED BY <4>1
    <3>2. Cardinality(Lower(B, b)) <= Cardinality(Lower(B, a)) /\ Cardinality(Lower(B, b)) \in Nat
      BY <1>7, <3>1, LowerFinite, FS_Subset
    <3>3. QED BY <1>7, <2>1, <3>2, IndexLower
  <2>2. CASE a < b
    BY <1>2, <2>2, IndexGrows
  <2>3. QED BY <1>2, <2>1, <2>2
<1>11. Index(C, a) = 1 + Cardinality(Lower(C, a)) /\ Index(B, a) = 1 + Cardinality(Lower(B, a))
  BY IndexLower
<1>12. Index(C, a) = IF b < a THEN Index(B, a) + 1 ELSE Index(B, a)
  <2>1. CASE b < a
    BY <1>5, <1>7, <1>8, <1>11, <2>1
  <2>2. CASE ~(b < a)
    BY <1>5, <1>11, <2>2
  <2>3. QED BY <2>1, <2>2
<1>13. QED BY <1>10, <1>12 DEF MoreBit

LEMMA IndexAll == ASSUME NEW b \in Bits PROVE Index(Bits, b) = b + 1
<1>1. MapWidth \in Nat /\ b \in Nat
  <2>1. MapWidth \in Nat
    BY MapAssumption
  <2>2. QED BY <2>1 DEF Bits
<1>2. Lower(Bits, b) = 0 .. b - 1
  BY <1>1 DEF Lower, Bits
<1>3. Cardinality(0 .. b - 1) = b
  <2>1. 0 \in Int /\ b - 1 \in Int
    BY <1>1
  <2>2. Cardinality(0 .. b - 1) = IF 0 > b - 1 THEN 0 ELSE b - 1 - 0 + 1
    BY <2>1, FS_Interval
  <2>3. QED BY <1>1, <2>2
<1>4. QED BY <1>1, <1>2, <1>3, IndexLower

-----------------------------------------------------------------------------
(* Inner nodes.                                                            *)

Hashes == [0 .. Levels - 1 -> Bits]

Entries(s) == {s[i] : i \in DOMAIN s}

\* x is a node of level n with children for the bits B.
Inner(x, n, B) ==
    /\ B \in SUBSET Bits /\ n \in 0 .. Levels - 1
    /\ x = Branch(B, x.nodes, n)
    /\ x.nodes \in Seq(Entries(x.nodes)) /\ Len(x.nodes) = Cardinality(B)

LEMMA HashOf == ASSUME NEW key \in Keys PROVE Hash[key] \in Hashes
BY MapAssumption DEF Hashes, Bits

LEMMA EntriesAre == ASSUME NEW S, NEW s \in Seq(S) PROVE s \in Seq(Entries(s))
<1>1. Len(s) \in Nat /\ DOMAIN s = 1 .. Len(s) /\ s = [i \in 1 .. Len(s) |-> s[i]]
  OBVIOUS
<1>2. s \in [1 .. Len(s) -> Entries(s)]
  <2>1. \A i \in 1 .. Len(s) : s[i] \in Entries(s)
    BY <1>1 DEF Entries
  <2>2. QED BY <1>1, <2>1
<1>3. QED BY <1>1, <1>2, SeqDef

LEMMA InnerFields ==
    ASSUME NEW x, NEW n, NEW B, Inner(x, n, B)
    PROVE  /\ x.level = n
           /\ x.kind \in {"bitmap", "full"}
           /\ x.kind = "full" => B = Bits
           /\ x.kind = "bitmap" => x.bitmap = B /\ B # Bits
<1> DEFINE s == x.nodes
<1>1. B \in SUBSET Bits /\ x = Branch(B, s, n)
  BY Zenon DEF Inner
<1>2. Cardinality(B) = MapWidth <=> B = Bits
  BY <1>1, BitsFinite
<1> HIDE DEF s
<1>3. x = IF B = Bits THEN [kind |-> "full", nodes |-> s, level |-> n]
          ELSE [kind |-> "bitmap", bitmap |-> B, nodes |-> s, level |-> n]
  BY <1>1, <1>2, Zenon DEF Branch
<1>4. QED BY <1>3

LEMMA InnerSlot ==
    ASSUME NEW x, NEW n, NEW B, Inner(x, n, B), NEW h \in Hashes
    PROVE  /\ h[n] \in Bits
           /\ Occupied(x, h) <=> h[n] \in B
           /\ h[n] \in B => Slot(x, h) = Index(B, h[n])
<1>1. n \in 0 .. Levels - 1 /\ B \in SUBSET Bits
  BY Zenon DEF Inner
<1>2. h[n] \in Bits
  BY <1>1 DEF Hashes
<1>3. /\ x.level = n /\ x.kind \in {"bitmap", "full"}
      /\ x.kind = "full" => B = Bits
      /\ x.kind = "bitmap" => x.bitmap = B /\ B # Bits
  BY InnerFields
<1>4. Mask(h, x.level) = h[n]
  BY <1>3 DEF Mask
<1>5. CASE x.kind = "full"
  <2>1. Slot(x, h) = h[n] + 1 /\ Occupied(x, h)
    BY <1>4, <1>5 DEF Slot, Occupied
  <2>2. Index(Bits, h[n]) = h[n] + 1
    BY <1>2, IndexAll
  <2>3. QED BY <1>2, <1>3, <1>5, <2>1, <2>2, Zenon
<1>6. CASE x.kind = "bitmap"
  <2>1. Slot(x, h) = Index(B, h[n])
    <3>1. Slot(x, h) = Index(x.bitmap, Mask(h, x.level))
      BY <1>6 DEF Slot
    <3>2. QED BY <1>3, <1>4, <1>6, <3>1, Zenon
  <2>2. Occupied(x, h) <=> h[n] \in B
    BY <1>3, <1>4, <1>6 DEF Occupied
  <2>3. QED BY <1>2, <2>1, <2>2
<1>7. QED BY <1>3, <1>5, <1>6

LEMMA InnerChild ==
    ASSUME NEW x, NEW n, NEW B, Inner(x, n, B), NEW h \in Hashes
    PROVE  Child(x, h) = IF h[n] \in B THEN x.nodes[Index(B, h[n])] ELSE Empty
<1>1. x.kind \in {"bitmap", "full"}
  BY InnerFields
<1>2. /\ Occupied(x, h) <=> h[n] \in B
      /\ h[n] \in B => Slot(x, h) = Index(B, h[n])
  BY InnerSlot
<1>3. Child(x, h) = IF Occupied(x, h) THEN x.nodes[Slot(x, h)] ELSE Empty
  BY <1>1 DEF Child
<1>4. QED BY <1>2, <1>3, Zenon

LEMMA BranchIs ==
    ASSUME NEW B \in SUBSET Bits, NEW n \in 0 .. Levels - 1, NEW S, NEW s \in Seq(S), Len(s) = Cardinality(B)
    PROVE  Inner(Branch(B, s, n), n, B) /\ Branch(B, s, n).nodes = s
<1>1. Branch(B, s, n).nodes = s
  BY DEF Branch
<1>2. s \in Seq(Entries(s))
  BY EntriesAre
<1>3. QED BY <1>1, <1>2, Zenon DEF Inner

LEMMA LoneIs ==
    ASSUME NEW d \in Bits, NEW n \in 0 .. Levels - 1, NEW x
    PROVE  Inner(Branch({d}, <<x>>, n), n, {d}) /\ Branch({d}, <<x>>, n).nodes[Index({d}, d)] = x
<1> DEFINE s == <<x>>
<1>1. s \in Seq({x}) /\ Len(s) = 1 /\ s[1] = x
  OBVIOUS
<1>2. Cardinality({d}) = 1
  BY FS_Singleton
<1> HIDE DEF s
<1>3. Inner(Branch({d}, s, n), n, {d}) /\ Branch({d}, s, n).nodes = s
  <2>1. {d} \in SUBSET Bits /\ Len(s) = Cardinality({d})
    BY <1>1, <1>2
  <2>2. QED BY <1>1, <2>1, BranchIs, Zenon
<1>4. Index({d}, d) = 1
  <2>1. Index({d}, d) \in 1 .. Cardinality({d})
    BY IndexRange
  <2>2. QED BY <1>2, <2>1
<1>5. Branch({d}, s, n).nodes[Index({d}, d)] = x
  BY <1>1, <1>3, <1>4
<1>6. QED BY <1>3, <1>5, Zenon DEF s

Joint(w, c, p, S) ==
    /\ w \in Seq(S) /\ Len(w) = Len(c) + Len(p) /\ Len(c) \in Nat
    /\ \A i \in 1 .. Len(c) + Len(p) : w[i] = IF i <= Len(c) THEN c[i] ELSE p[i - Len(c)]

LEMMA JointIs ==
    ASSUME NEW S, NEW c \in Seq(S), NEW p \in Seq(S), NEW w, w = c \o p
    PROVE  Joint(w, c, p, S)
BY DEF Joint

\* t is s with e at i.
Inserted(t, s, S, i, e) ==
    /\ t \in Seq(S \cup {e}) /\ Len(t) = Len(s) + 1 /\ t[i] = e
    /\ \A j \in 1 .. Len(s) : j < i => t[j] = s[j]
    /\ \A j \in 1 .. Len(s) : i <= j => t[j + 1] = s[j]

LEMMA InsertAtIs ==
    ASSUME NEW S, NEW s \in Seq(S), NEW e, NEW i \in 1 .. Len(s) + 1
    PROVE  Inserted(InsertAt(s, i, e), s, S, i, e)
<1> DEFINE T == S \cup {e}
           a == SubSeq(s, 1, i - 1)
           b == SubSeq(s, i, Len(s))
           m == <<e>>
<1>1. s \in Seq(T) /\ Len(s) \in Nat
  <2>1. S \in SUBSET T
    OBVIOUS
  <2>2. QED BY <2>1
<1>2. a \in Seq(T) /\ Len(a) = i - 1 /\ \A j \in 1 .. i - 1 : a[j] = s[j]
  BY <1>1
<1>3. b \in Seq(T) /\ Len(b) = Len(s) - i + 1 /\ \A j \in 1 .. Len(s) - i + 1 : b[j] = s[i + j - 1]
  BY <1>1
<1>4. m \in Seq(T) /\ Len(m) = 1 /\ m[1] = e
  OBVIOUS
<1>5. InsertAt(s, i, e) = a \o m \o b
  BY DEF InsertAt
<1> HIDE DEF a, b, m, T
<1> DEFINE c == a \o m
<1>6. /\ c \in Seq(T) /\ Len(c) = Len(a) + Len(m)
      /\ \A j \in 1 .. Len(a) + Len(m) : c[j] = IF j <= Len(a) THEN a[j] ELSE m[j - Len(a)]
  <2>1. Joint(c, a, m, T)
    BY <1>2, <1>4, JointIs
  <2> HIDE DEF c
  <2>2. QED BY <2>1, Zenon DEF Joint
<1> HIDE DEF c
<1>7. Len(c) = i /\ c[i] = e /\ \A j \in 1 .. i - 1 : c[j] = s[j]
  BY <1>2, <1>4, <1>6
<1> DEFINE r == c \o b
<1>8. /\ r \in Seq(T) /\ Len(r) = Len(c) + Len(b)
      /\ \A j \in 1 .. Len(c) + Len(b) : r[j] = IF j <= Len(c) THEN c[j] ELSE b[j - Len(c)]
  <2>1. Joint(r, c, b, T)
    BY <1>3, <1>6, JointIs
  <2> HIDE DEF r
  <2>2. QED BY <2>1, Zenon DEF Joint
<1>9. InsertAt(s, i, e) = r
  BY <1>5 DEF c
<1> HIDE DEF r
<1>10. Len(r) = Len(s) + 1 /\ r[i] = e /\ \A j \in 1 .. Len(s) : j < i => r[j] = s[j]
  BY <1>1, <1>3, <1>7, <1>8
<1>11. ASSUME NEW j \in 1 .. Len(s), i <= j
       PROVE  r[j + 1] = s[j]
  <2> DEFINE k == j + 1
             l == j - i + 1
  <2>1. /\ l \in 1 .. Len(b) /\ k - Len(c) = l /\ ~(k <= Len(c)) /\ k \in 1 .. Len(c) + Len(b)
        /\ i + l - 1 = j
    BY <1>1, <1>3, <1>7, <1>11
  <2> HIDE DEF k, l
  <2>2. r[k] = b[l]
    BY <1>8, <2>1
  <2>3. b[l] = s[i + l - 1]
    BY <1>3, <2>1
  <2>4. QED BY <2>1, <2>2, <2>3 DEF k
<1>12. Inserted(r, s, S, i, e)
  BY <1>8, <1>10, <1>11 DEF T, Inserted
<1>13. QED BY <1>9, <1>12

LEMMA InsertIs ==
    ASSUME NEW x, NEW n, NEW B, Inner(x, n, B), NEW key \in Keys, NEW val, Hash[key][n] \notin B,
           NEW C, C = B \cup {Hash[key][n]}, NEW y, y = InsertLeaf(x, key, val)
    PROVE  /\ Inner(y, n, C)
           /\ y.nodes[Index(C, Hash[key][n])] = Leaf(key, val)
           /\ \A b \in B : y.nodes[Index(C, b)] = x.nodes[Index(B, b)]
<1> DEFINE d == Hash[key][n]
           i == Index(B, d)
           e == Leaf(key, val)
           s == x.nodes
           S == Entries(s)
           t == InsertAt(s, i, e)
<1>1. Hash[key] \in Hashes /\ d \in Bits
  BY HashOf, InnerSlot
<1>2. B \in SUBSET Bits /\ n \in 0 .. Levels - 1 /\ s \in Seq(S) /\ Len(s) = Cardinality(B)
  BY Zenon DEF Inner
<1>3. x.kind = "bitmap" /\ x.bitmap = B /\ x.level = n
  <2>1. B # Bits
    BY <1>1
  <2>2. QED BY <2>1, InnerFields
<1>4. C \in SUBSET Bits /\ C = B \cup {d} /\ d \notin B
  BY <1>1, <1>2
<1>5. y = Branch(C, t, n)
  <2>1. Mask(Hash[key], x.level) = d
    BY <1>3 DEF Mask
  <2>2. y = Branch(B \cup {d}, InsertAt(x.nodes, Index(B, d), Leaf(key, val)), x.level)
    BY <1>3, <2>1, Zenon DEF InsertLeaf
  <2>3. QED BY <1>3, <1>4, <2>2, Zenon
<1>6. i \in 1 .. Len(s) + 1
  BY <1>1, <1>2, IndexRange
<1> HIDE DEF d, i, e, s, S
<1>7. /\ t \in Seq(S \cup {e}) /\ Len(t) = Len(s) + 1 /\ t[i] = e
      /\ \A j \in 1 .. Len(s) : j < i => t[j] = s[j]
      /\ \A j \in 1 .. Len(s) : i <= j => t[j + 1] = s[j]
  <2>1. Inserted(t, s, S, i, e)
    BY <1>2, <1>6, InsertAtIs
  <2> HIDE DEF t
  <2>2. QED BY <2>1, Zenon DEF Inserted
<1> HIDE DEF t
<1>8. Cardinality(C) = Cardinality(B) + 1
  BY <1>1, <1>2, <1>4, BitsFinite, FS_AddElement
<1>9. Inner(y, n, C) /\ y.nodes = t
  BY <1>2, <1>4, <1>5, <1>7, <1>8, BranchIs
<1>10. Index(C, d) = i
  <2>1. Lower(C, d) = Lower(B, d)
    <3>1. ~(d < d)
      <4>1. MapWidth \in Nat
        BY MapAssumption
      <4>2. d \in Nat
        BY <1>1, <4>1 DEF Bits
      <4>3. QED BY <4>2
    <3>2. QED BY <1>4, <3>1 DEF Lower
  <2>2. QED BY <2>1, IndexLower DEF i
<1>11. ASSUME NEW b \in B
       PROVE  t[Index(C, b)] = s[Index(B, b)]
  <2>1. /\ Index(C, b) = IF d < b THEN Index(B, b) + 1 ELSE Index(B, b)
        /\ IF d < b THEN i <= Index(B, b) ELSE Index(B, b) < i
    <3>1. /\ Index(B \cup {d}, b) = IF d < b THEN Index(B, b) + 1 ELSE Index(B, b)
          /\ IF d < b THEN Index(B, d) <= Index(B, b) ELSE Index(B, b) < Index(B, d)
      <4>1. MoreBit(B, d, b)
        BY <1>1, <1>2, <1>4, IndexMore, Zenon
      <4>2. QED BY <4>1, Zenon DEF MoreBit
    <3>2. QED BY <1>4, <3>1, Zenon DEF i
  <2>2. Index(B, b) \in 1 .. Len(s)
    BY <1>2, IndexRange
  <2>3. QED BY <1>7, <2>1, <2>2
<1>12. QED BY <1>7, <1>9, <1>10, <1>11 DEF d, e, s

\* y is x with the child z for the bit d.
NewChild(y, x, n, B, d, z) ==
    /\ Inner(y, n, B)
    /\ y.nodes[Index(B, d)] = z
    /\ \A b \in B : b # d => y.nodes[Index(B, b)] = x.nodes[Index(B, b)]

Replaced(x, h, z) == [x EXCEPT !.nodes[Slot(x, h)] = z]

LEMMA ReplaceIs ==
    ASSUME NEW x, NEW n, NEW B, Inner(x, n, B), NEW h \in Hashes, h[n] \in B, NEW z,
           NEW y, y = Replaced(x, h, z)
    PROVE  NewChild(y, x, n, B, h[n], z)
<1> DEFINE d == h[n]
           i == Index(B, d)
           s == x.nodes
           S == Entries(s)
           t == [s EXCEPT ![i] = z]
<1>1. Slot(x, h) = i
  BY InnerSlot
<1>2. B \in SUBSET Bits /\ n \in 0 .. Levels - 1 /\ x = Branch(B, s, n) /\ s \in Seq(S) /\ Len(s) = Cardinality(B)
  BY Zenon DEF Inner
<1>3. i \in 1 .. Len(s)
  BY <1>2, IndexRange
<1>4. y = [x EXCEPT !.nodes = t]
  <2> HIDE DEF i
  <2>1. y = [x EXCEPT !.nodes[i] = z]
    BY <1>1, Zenon DEF Replaced
  <2>2. QED BY <2>1
<1>5. y = Branch(B, t, n)
  <2> HIDE DEF t, s
  <2>1. CASE Cardinality(B) = MapWidth
    <3>1. x = [kind |-> "full", nodes |-> s, level |-> n]
      BY <1>2, <2>1 DEF Branch
    <3>2. Branch(B, t, n) = [kind |-> "full", nodes |-> t, level |-> n]
      BY <2>1 DEF Branch
    <3>3. QED BY <1>4, <3>1, <3>2
  <2>2. CASE Cardinality(B) # MapWidth
    <3>1. x = [kind |-> "bitmap", bitmap |-> B, nodes |-> s, level |-> n]
      BY <1>2, <2>2 DEF Branch
    <3>2. Branch(B, t, n) = [kind |-> "bitmap", bitmap |-> B, nodes |-> t, level |-> n]
      BY <2>2 DEF Branch
    <3>3. QED BY <1>4, <3>1, <3>2
  <2>3. QED BY <2>1, <2>2
<1> HIDE DEF i, s, S
<1>6. t \in Seq(S \cup {z}) /\ Len(t) = Len(s) /\ t[i] = z /\ \A j \in 1 .. Len(s) : j # i => t[j] = s[j]
  <2>1. s \in Seq(S \cup {z})
    <3>1. S \in SUBSET (S \cup {z})
      OBVIOUS
    <3>2. QED BY <1>2, <3>1
  <2>2. QED BY <1>3, <2>1
<1> HIDE DEF t
<1>7. Inner(y, n, B) /\ y.nodes = t
  <2> DEFINE T == S \cup {z}
  <2>1. t \in Seq(T) /\ Len(t) = Cardinality(B)
    BY <1>2, <1>6
  <2> HIDE DEF T
  <2>2. Inner(Branch(B, t, n), n, B) /\ Branch(B, t, n).nodes = t
    BY <1>2, <2>1, BranchIs, Zenon
  <2>3. QED BY <1>5, <2>2, Zenon
<1>8. ASSUME NEW b \in B, b # d
      PROVE  t[Index(B, b)] = s[Index(B, b)]
  <2>1. Index(B, b) \in 1 .. Len(s) /\ Index(B, b) # i
    BY <1>2, <1>8, IndexRange, IndexOnce DEF i
  <2>2. QED BY <1>6, <2>1
<1>9. QED BY <1>6, <1>7, <1>8 DEF i, s, NewChild

-----------------------------------------------------------------------------
(* What the trie of a function c is: at each level n and for each hash h,  *)
(* nothing, a leaf or an inner node, as there are no keys of c whose hash  *)
(* agrees with h in n digits, one, or several.                             *)

\* g and h have the same first n digits.
Agree(n, g, h) == \A i \in 0 .. n - 1 : g[i] = h[i]

\* The keys of c whose hashes agree with h in n digits.
Under(c, n, h) == {k \in DOMAIN c : Agree(n, Hash[k], h)}

BitsUnder(c, n, h) == {Hash[k][n] : k \in Under(c, n, h)}

Several(U) == U # {} /\ \A k \in U : U # {k}

\* Keys that a map can hold: no two of them have the same hash.
Apart(c) == DOMAIN c \in SUBSET Keys /\ \A j, k \in DOMAIN c : Hash[j] = Hash[k] => j = k

\* x is an inner node for level n and the first n digits of h; T has its children.
Branching(T, x, n, h, B) ==
    /\ Inner(x, n, B)
    /\ \A g \in Hashes : Agree(n, g, h) /\ g[n] \in B => x.nodes[Index(B, g[n])] = T[n + 1][g]

\* T[n][h] is what belongs at level n on the way of h.
Place(T, c, n, h) ==
    /\ Under(c, n, h) = {} => T[n][h] = Empty
    /\ \A k \in Under(c, n, h) : Under(c, n, h) = {k} => T[n][h] = Leaf(k, c[k])
    /\ Several(Under(c, n, h)) => Branching(T, T[n][h], n, h, BitsUnder(c, n, h))

Trie(T, c) ==
    \A n \in 0 .. Levels, h \in Hashes :
        Place(T, c, n, h) /\ \A g \in Hashes : Agree(n, g, h) => T[n][g] = T[n][h]

LEMMA AgreeSame == ASSUME NEW n, NEW g PROVE Agree(n, g, g)
BY DEF Agree

LEMMA AgreeBack == ASSUME NEW n, NEW g, NEW h, Agree(n, g, h) PROVE Agree(n, h, g)
BY Zenon DEF Agree

LEMMA AgreeOn == ASSUME NEW n, NEW f, NEW g, NEW h, Agree(n, f, g), Agree(n, g, h) PROVE Agree(n, f, h)
BY Zenon DEF Agree

LEMMA AgreeNone == ASSUME NEW g, NEW h PROVE Agree(0, g, h)
BY DEF Agree

LEMMA AgreeNext ==
    ASSUME NEW n \in Nat, NEW g, NEW h
    PROVE  Agree(n + 1, g, h) <=> Agree(n, g, h) /\ g[n] = h[n]
<1>1. \A i : i \in 0 .. (n + 1) - 1 <=> i \in 0 .. n - 1 \/ i = n
  OBVIOUS
<1>2. QED BY <1>1, Zenon DEF Agree

LEMMA AgreeAll == ASSUME NEW g \in Hashes, NEW h \in Hashes, Agree(Levels, g, h) PROVE g = h
<1>1. g = [i \in 0 .. Levels - 1 |-> g[i]] /\ h = [i \in 0 .. Levels - 1 |-> h[i]]
  BY DEF Hashes
<1>2. QED BY <1>1 DEF Agree

LEMMA UnderNext ==
    ASSUME NEW c, NEW n \in Nat, NEW h
    PROVE  Under(c, n + 1, h) = {k \in Under(c, n, h) : Hash[k][n] = h[n]}
BY AgreeNext, Zenon DEF Under

\* All but the key itself have left the way of a key at the last level.
LEMMA UnderLast ==
    ASSUME NEW c, Apart(c), NEW h \in Hashes, NEW k \in Under(c, Levels, h)
    PROVE  Hash[k] = h /\ Under(c, Levels, h) = {k}
<1>1. ASSUME NEW j \in Under(c, Levels, h)
      PROVE  j \in DOMAIN c /\ Hash[j] = h
  <2>1. j \in DOMAIN c /\ Agree(Levels, Hash[j], h)
    BY Zenon DEF Under
  <2>2. Hash[j] \in Hashes
    BY <2>1, HashOf DEF Apart
  <2>3. QED BY <2>1, <2>2, AgreeAll
<1>2. \A j \in Under(c, Levels, h) : j = k
  BY <1>1 DEF Apart
<1>3. QED BY <1>1, <1>2

LEMMA UnderAgree ==
    ASSUME NEW c, NEW n, NEW g, NEW h, Agree(n, g, h)
    PROVE  Under(c, n, g) = Under(c, n, h)
BY AgreeBack, AgreeOn, Zenon DEF Under

LEMMA PlaceIs ==
    ASSUME NEW T, NEW c, Trie(T, c), NEW n \in 0 .. Levels, NEW h \in Hashes
    PROVE  /\ Under(c, n, h) = {} => T[n][h] = Empty
           /\ \A k \in Under(c, n, h) : Under(c, n, h) = {k} => T[n][h] = Leaf(k, c[k])
           /\ Several(Under(c, n, h)) => Branching(T, T[n][h], n, h, BitsUnder(c, n, h))
           /\ \A g \in Hashes : Agree(n, g, h) => T[n][g] = T[n][h]
BY Zenon DEF Trie, Place

LEMMA Cases == ASSUME NEW U PROVE U = {} \/ (\E k \in U : U = {k}) \/ Several(U)
BY Zenon DEF Several

LEMMA LevelsNat == Levels \in Nat /\ \A n \in 0 .. Levels - 1 : n \in Nat /\ n \in 0 .. Levels /\ n + 1 \in 0 .. Levels
BY MapAssumption

LEMMA BranchChild ==
    ASSUME NEW T, NEW c, Trie(T, c), NEW n \in 0 .. Levels - 1, NEW h \in Hashes, NEW x,
           Branching(T, x, n, h, BitsUnder(c, n, h))
    PROVE  Child(x, h) = T[n + 1][h]
<1> DEFINE B == BitsUnder(c, n, h)
<1>1. Child(x, h) = IF h[n] \in B THEN x.nodes[Index(B, h[n])] ELSE Empty
  BY InnerChild, Zenon DEF Branching
<1>2. n \in Nat /\ n + 1 \in 0 .. Levels
  BY LevelsNat
<1>3. CASE h[n] \in B
  <2>1. x.nodes[Index(B, h[n])] = T[n + 1][h]
    BY <1>3, AgreeSame, Zenon DEF Branching
  <2>2. QED BY <1>1, <1>3, <2>1
<1>4. CASE h[n] \notin B
  <2>1. Under(c, n + 1, h) = {}
    BY <1>2, <1>4, UnderNext DEF BitsUnder
  <2>2. T[n + 1][h] = Empty
    BY <1>2, <2>1, PlaceIs
  <2>3. QED BY <1>1, <1>4, <2>2
<1>5. QED BY <1>3, <1>4

LEMMA Kinds == /\ Empty.kind = "empty"
               /\ \A k, v : Leaf(k, v).kind = "leaf" /\ Leaf(k, v).key = k /\ Leaf(k, v).val = v
               /\ \A h : Child(Empty, h) = Empty
               /\ \A k, v, h : Child(Leaf(k, v), h) = Leaf(k, v)
BY DEF Empty, Leaf, Child

-----------------------------------------------------------------------------
(* find                                                                    *)

LEMMA FindRuns ==
    ASSUME NEW root, NEW key
    PROVE  \E f : /\ Running(f, Levels, "way", Hash[key], root)
                  /\ Find(root, key) =
                         IF f[Levels].kind = "leaf" /\ Hash[f[Levels].key] = Hash[key] /\ f[Levels].key = key
                         THEN f[Levels] ELSE Empty
<1> DEFINE h == Hash[key]
           Body(g) == [n \in 0 .. Levels |-> IF n = 0 THEN root ELSE Child(g[n - 1], Hash[key])]
           f == CHOOSE g : g = Body(g)
<1>1. ASSUME NEW g
      PROVE  Running(g, Levels, "way", h, root) <=> g = Body(g)
  <2> DEFINE Run == [l \in 0 .. Levels |-> IF l = 0 THEN root ELSE Step("way", h, g[l - 1], l)]
  <2>1. Run = Body(g)
    <3> HIDE DEF Step
    <3>1. \A x, l : Step("way", h, x, l) = Child(x, Hash[key])
      BY StepWay
    <3>2. QED BY <3>1
  <2>2. QED BY <2>1 DEF Running
<1>2. f = Body(f)
  <2>1. PICK g : Running(g, Levels, "way", h, root)
    BY LevelsNat, RunningExists
  <2>2. g = Body(g)
    BY <1>1, <2>1
  <2> HIDE DEF Body
  <2>3. QED BY <2>2, Zenon
<1>3. Find(root, key) = IF f[Levels].kind = "leaf" /\ Hash[f[Levels].key] = Hash[key] /\ f[Levels].key = key
                        THEN f[Levels] ELSE Empty
  BY Zenon DEF Find
<1> HIDE DEF f, Body
<1>4. QED BY <1>1, <1>2, <1>3, Zenon DEF h

\* On the way: the node for this level, or a leaf that is not for the hash.
OnWay(T, c, n, h, x) ==
    \/ x = T[n][h]
    \/ Under(c, n, h) = {} /\ \E k \in DOMAIN c : x = Leaf(k, c[k]) /\ ~Agree(n, Hash[k], h)

LEMMA WayNext ==
    ASSUME NEW T, NEW c, Trie(T, c), NEW n \in 0 .. Levels - 1, NEW h \in Hashes, NEW x,
           OnWay(T, c, n, h, x)
    PROVE  OnWay(T, c, n + 1, h, Child(x, h))
<1> DEFINE U == Under(c, n, h)
<1>1. n \in Nat /\ n \in 0 .. Levels /\ n + 1 \in 0 .. Levels
  BY LevelsNat
<1>2. Under(c, n + 1, h) = {k \in U : Hash[k][n] = h[n]}
  BY <1>1, UnderNext
<1>3. CASE U = {} /\ x = T[n][h]
  BY <1>1, <1>2, <1>3, PlaceIs, Kinds DEF OnWay
<1>4. CASE U = {} /\ x # T[n][h]
  <2>1. PICK k \in DOMAIN c : x = Leaf(k, c[k]) /\ ~Agree(n, Hash[k], h)
    BY <1>4, Zenon DEF OnWay
  <2>2. Child(x, h) = x /\ ~Agree(n + 1, Hash[k], h)
    BY <1>1, <2>1, Kinds, AgreeNext
  <2>3. QED BY <1>2, <1>4, <2>1, <2>2 DEF OnWay
<1>5. CASE U # {}
  <2>1. x = T[n][h]
    BY <1>5 DEF OnWay
  <2>2. CASE Several(U)
    <3>1. Child(x, h) = T[n + 1][h]
      <4>1. Branching(T, T[n][h], n, h, BitsUnder(c, n, h))
        BY <1>1, <2>2, PlaceIs
      <4>2. Child(T[n][h], h) = T[n + 1][h]
        BY <4>1, BranchChild, Zenon
      <4>3. QED BY <2>1, <4>2
    <3>2. QED BY <3>1 DEF OnWay
  <2>3. ASSUME NEW k \in U, U = {k}
        PROVE  OnWay(T, c, n + 1, h, Child(x, h))
    <3>1. x = Leaf(k, c[k])
      BY <1>1, <2>1, <2>3, PlaceIs
    <3>2. Child(x, h) = Leaf(k, c[k])
      BY <3>1, Kinds
    <3>3. CASE Hash[k][n] = h[n]
      <4>1. Under(c, n + 1, h) = {k}
        BY <1>2, <2>3, <3>3
      <4>2. T[n + 1][h] = Leaf(k, c[k])
        BY <1>1, <4>1, PlaceIs
      <4>3. QED BY <3>2, <4>2 DEF OnWay
    <3>4. CASE Hash[k][n] # h[n]
      <4>1. Under(c, n + 1, h) = {} /\ k \in DOMAIN c
        BY <1>2, <2>3, <3>4 DEF Under
      <4>2. ~Agree(n + 1, Hash[k], h)
        BY <1>1, <3>4, AgreeNext
      <4>3. QED BY <3>2, <4>1, <4>2 DEF OnWay
    <3>5. QED BY <3>3, <3>4
  <2>4. QED BY <1>5, <2>2, <2>3, Cases
<1>6. QED BY <1>3, <1>4, <1>5

LEMMA WayAll ==
    ASSUME NEW T, NEW c, Trie(T, c), NEW h \in Hashes, NEW f,
           Running(f, Levels, "way", h, T[0][h])
    PROVE  OnWay(T, c, Levels, h, f[Levels])
<1> DEFINE Failing == {n \in 0 .. Levels : ~OnWay(T, c, n, h, f[n])}
<1>1. SUFFICES ASSUME Failing # {} PROVE FALSE
  <2>1. Levels \in 0 .. Levels
    BY LevelsNat
  <2>2. QED BY <2>1
<1>2. PICK m \in Failing : \A j \in Failing : m <= j
  <2>1. Failing \in SUBSET Nat
    BY LevelsNat
  <2> HIDE DEF Failing
  <2>2. QED BY <1>1, <2>1, Least
<1>3. f[0] = T[0][h] /\ \A l \in 1 .. Levels : f[l] = Child(f[l - 1], h)
  <2>1. f[0] = T[0][h] /\ \A l \in 1 .. Levels : f[l] = Step("way", h, f[l - 1], l)
    BY LevelsNat, RunningIs
  <2>2. QED BY <2>1, StepWay
<1>4. m # 0
  BY <1>2, <1>3 DEF OnWay
<1> DEFINE l == m - 1
<1>5. l \in 0 .. Levels - 1 /\ l \notin Failing /\ l \in 0 .. Levels /\ m \in 1 .. Levels /\ l + 1 = m
  <2>1. l \in 0 .. Levels - 1 /\ l \in 0 .. Levels /\ m \in 1 .. Levels /\ l + 1 = m /\ ~(m <= l)
    BY <1>2, <1>4, LevelsNat
  <2> HIDE DEF l
  <2>2. QED BY <1>2, <2>1
<1>6. OnWay(T, c, l, h, f[l])
  BY <1>5
<1>7. f[m] = Child(f[l], h)
  BY <1>3, <1>5
<1> HIDE DEF l
<1>8. OnWay(T, c, l + 1, h, f[m])
  BY <1>5, <1>6, <1>7, WayNext
<1>9. QED BY <1>2, <1>5, <1>8

LEMMA FindIs ==
    ASSUME NEW T, NEW c, Trie(T, c), Apart(c), NEW key \in Keys, NEW root, root = T[0][Hash[key]]
    PROVE  Find(root, key) = IF key \in DOMAIN c THEN Leaf(key, c[key]) ELSE Empty
<1> DEFINE h == Hash[key]
<1>1. h \in Hashes
  BY HashOf
<1>2. PICK f : /\ Running(f, Levels, "way", h, root)
               /\ Find(root, key) =
                      IF f[Levels].kind = "leaf" /\ Hash[f[Levels].key] = Hash[key] /\ f[Levels].key = key
                      THEN f[Levels] ELSE Empty
  BY FindRuns
<1> DEFINE x == f[Levels]
<1>3. OnWay(T, c, Levels, h, x)
  BY <1>1, <1>2, WayAll
<1> HIDE DEF x
<1>4. Find(root, key) = IF x.kind = "leaf" /\ Hash[x.key] = Hash[key] /\ x.key = key THEN x ELSE Empty
  BY <1>2 DEF x
<1>5. Levels \in 0 .. Levels
  BY LevelsNat
<1>6. CASE key \in DOMAIN c
  <2>1. key \in Under(c, Levels, h)
    BY <1>6, AgreeSame DEF Under
  <2>2. Under(c, Levels, h) = {key}
    BY <1>1, <2>1, UnderLast
  <2>3. x = Leaf(key, c[key])
    <3>1. T[Levels][h] = Leaf(key, c[key])
      BY <1>1, <1>5, <2>1, <2>2, PlaceIs
    <3>2. QED BY <1>3, <2>1, <3>1 DEF OnWay
  <2>4. QED BY <1>4, <1>6, <2>3, Kinds
<1>7. CASE key \notin DOMAIN c
  <2>1. x.kind = "leaf" => x.key \in DOMAIN c
    <3>1. ASSUME NEW k \in DOMAIN c, x = Leaf(k, c[k])
          PROVE  x.key \in DOMAIN c
      BY <3>1, Kinds
    <3>2. CASE x = T[Levels][h] /\ Under(c, Levels, h) = {}
      BY <1>1, <1>5, <3>2, PlaceIs, Kinds
    <3>3. CASE x = T[Levels][h] /\ Under(c, Levels, h) # {}
      <4>1. PICK k \in Under(c, Levels, h) : TRUE
        BY <3>3
      <4>2. Under(c, Levels, h) = {k} /\ k \in DOMAIN c
        BY <1>1, <4>1, UnderLast DEF Under
      <4>3. x = Leaf(k, c[k])
        BY <1>1, <1>5, <3>3, <4>2, PlaceIs
      <4>4. QED BY <3>1, <4>2, <4>3
    <3>4. QED BY <1>3, <3>1, <3>2, <3>3 DEF OnWay
  <2>2. QED BY <1>4, <1>7, <2>1
<1>8. QED BY <1>6, <1>7

-----------------------------------------------------------------------------
(* assoc                                                                   *)

\* d is the way down and u the way back of a call of assoc.
Assocs(d, u, root, key, val) ==
    /\ Running(d, Levels, "down", key, Opened(root, 0, key))
    /\ Running(u, Levels, "up", [down |-> d, key |-> key, val |-> val], Leaf(key, val))
    /\ AssocNode(root, key, val) =
           [node |-> u[Levels], added |-> d[Levels].kind = "empty",
            ok |-> d[Levels].kind = "leaf" => d[Levels].key = key]

LEMMA AssocRuns ==
    ASSUME NEW root, NEW key, NEW val
    PROVE  \E d, u : Assocs(d, u, root, key, val)
<1> DEFINE a == Opened(root, 0, key)
           DBody(f) == [n \in 0 .. Levels |-> IF n = 0 THEN Opened(root, 0, key)
                                              ELSE Opened(Child(f[n - 1], Hash[key]), n, key)]
           d == CHOOSE f : f = DBody(f)
           b == Leaf(key, val)
           r == [down |-> d, key |-> key, val |-> val]
           UBody(f) == [n \in 0 .. Levels |-> IF n = 0 THEN Leaf(key, val)
                                              ELSE Renewed(d[Levels - n], key, val, f[n - 1])]
           u == CHOOSE f : f = UBody(f)
<1>1. ASSUME NEW f
      PROVE  Running(f, Levels, "down", key, a) <=> f = DBody(f)
  <2> DEFINE Run == [l \in 0 .. Levels |-> IF l = 0 THEN a ELSE Step("down", key, f[l - 1], l)]
  <2>1. Run = DBody(f)
    <3> HIDE DEF Step
    <3>1. \A x, l : Step("down", key, x, l) = Opened(Child(x, Hash[key]), l, key)
      BY StepDown
    <3>2. QED BY <3>1, Zenon
  <2>2. QED BY <2>1 DEF Running
<1>2. d = DBody(d)
  <2>1. PICK f : Running(f, Levels, "down", key, a)
    BY LevelsNat, RunningExists
  <2>2. f = DBody(f)
    BY <1>1, <2>1
  <2> HIDE DEF DBody
  <2>3. QED BY <2>2, Zenon
<1>3. ASSUME NEW f
      PROVE  Running(f, Levels, "up", r, b) <=> f = UBody(f)
  <2> DEFINE Run == [l \in 0 .. Levels |-> IF l = 0 THEN b ELSE Step("up", r, f[l - 1], l)]
  <2>1. Run = UBody(f)
    <3>1. r.down = d /\ r.key = key /\ r.val = val
      <4> HIDE DEF d
      <4>1. QED OBVIOUS
    <3> HIDE DEF Step, r, d
    <3>2. \A x, l : Step("up", r, x, l) = Renewed(d[Levels - l], key, val, x)
      BY <3>1, StepUp
    <3>3. QED BY <3>2, Zenon
  <2>2. QED BY <2>1 DEF Running
<1>4. u = UBody(u)
  <2>1. PICK f : Running(f, Levels, "up", r, b)
    <3> HIDE DEF r, b
    <3>1. QED BY LevelsNat, RunningExists
  <2>2. f = UBody(f)
    BY <1>3, <2>1
  <2> HIDE DEF UBody
  <2>3. QED BY <2>2, Zenon
<1>5. AssocNode(root, key, val) = [node |-> u[Levels], added |-> d[Levels].kind = "empty",
                                   ok |-> d[Levels].kind = "leaf" => d[Levels].key = key]
  BY Zenon DEF AssocNode
<1>6. Running(d, Levels, "down", key, a) /\ Running(u, Levels, "up", r, b)
  BY <1>1, <1>2, <1>3, <1>4, Zenon
<1> HIDE DEF d, u
<1>7. Assocs(d, u, root, key, val)
  BY <1>5, <1>6, Zenon DEF Assocs
<1>8. QED BY <1>7, Zenon

LEMMA OpenedInner ==
    ASSUME NEW x, x.kind \in {"bitmap", "full", "empty"}, NEW n, NEW key
    PROVE  Opened(x, n, key) = x
BY DEF Opened

\* What the call finds at a level that several keys reach, or a key with another hash.
LEMMA OpenedIs ==
    ASSUME NEW T, NEW c, Trie(T, c), Apart(c), NEW key \in Keys, NEW n \in 0 .. Levels - 1,
           Under(c, n, Hash[key]) # {},
           \A k \in Under(c, n, Hash[key]) : Under(c, n, Hash[key]) = {k} => Hash[k] # Hash[key]
    PROVE  Branching(T, Opened(T[n][Hash[key]], n, key), n, Hash[key], BitsUnder(c, n, Hash[key]))
<1> DEFINE h == Hash[key]
           U == Under(c, n, h)
           B == BitsUnder(c, n, h)
           x == T[n][h]
<1>1. n \in Nat /\ n \in 0 .. Levels /\ n + 1 \in 0 .. Levels /\ h \in Hashes
  BY LevelsNat, HashOf
<1>2. CASE Several(U)
  <2>1. Branching(T, x, n, h, B)
    BY <1>1, <1>2, PlaceIs
  <2>2. x.kind \in {"bitmap", "full", "empty"}
    <3> HIDE DEF x, B
    <3>1. QED BY <2>1, InnerFields DEF Branching
  <2>3. Opened(x, n, key) = x
    <3> HIDE DEF x
    <3>1. QED BY <2>2, OpenedInner
  <2>4. QED BY <2>1, <2>3, Zenon
<1>3. ASSUME NEW k \in U, U = {k}
      PROVE  Branching(T, Opened(x, n, key), n, h, B)
  <2> DEFINE e == Leaf(k, c[k])
             bit == Hash[k][n]
             y == Branch({bit}, <<e>>, n)
  <2>1. x = e
    BY <1>1, <1>3, PlaceIs
  <2>2. k \in Keys /\ Hash[k] # h /\ k \in DOMAIN c
    BY <1>3 DEF Under, Apart
  <2>3. bit \in Bits /\ B = {bit}
    <3>1. Hash[k] \in Hashes
      BY <2>2, HashOf
    <3>2. bit \in Bits
      BY <3>1 DEF Hashes
    <3>3. QED BY <1>3, <3>2 DEF BitsUnder
  <2>4. Opened(x, n, key) = y
    <3>1. e.kind = "leaf" /\ e.key = k
      BY Kinds
    <3>2. Mask(Hash[e.key], n) = bit
      BY <3>1 DEF Mask
    <3> HIDE DEF e, bit
    <3>3. QED BY <2>1, <2>2, <3>1, <3>2 DEF Opened
  <2>5. Inner(y, n, {bit}) /\ y.nodes[Index({bit}, bit)] = e
    <3> HIDE DEF e, bit
    <3>1. QED BY <2>3, LoneIs
  <2>6. ASSUME NEW g \in Hashes, Agree(n, g, h), g[n] = bit
        PROVE  T[n + 1][g] = e
    <3>1. Under(c, n, g) = {k}
      BY <1>3, <2>6, UnderAgree
    <3>2. Under(c, n + 1, g) = {k}
      <4>1. Under(c, n + 1, g) = {j \in Under(c, n, g) : Hash[j][n] = g[n]}
        BY <1>1, UnderNext
      <4>2. QED BY <2>6, <3>1, <4>1
    <3>3. QED BY <1>1, <3>2, PlaceIs
  <2> HIDE DEF e, bit, y
  <2>7. Branching(T, y, n, h, {bit})
    BY <2>5, <2>6, Zenon DEF Branching
  <2>8. QED BY <2>3, <2>4, <2>7
<1>4. QED BY <1>2, <1>3, Cases

\* The place of a key, and the leaf that the last level finds.
DownAt(T, n, key) == Opened(T[n][Hash[key]], n, key)

LEMMA DownNext ==
    ASSUME NEW T, NEW c, Trie(T, c), Apart(c), NEW key \in Keys, NEW n \in 0 .. Levels - 1
    PROVE  Child(DownAt(T, n, key), Hash[key]) = T[n + 1][Hash[key]]
<1> DEFINE h == Hash[key]
           U == Under(c, n, h)
<1>1. n \in Nat /\ n \in 0 .. Levels /\ n + 1 \in 0 .. Levels /\ h \in Hashes
  BY LevelsNat, HashOf
<1>2. Under(c, n + 1, h) = {k \in U : Hash[k][n] = h[n]}
  BY <1>1, UnderNext
<1>3. CASE U = {}
  <2>1. T[n][h] = Empty /\ T[n + 1][h] = Empty
    BY <1>1, <1>2, <1>3, PlaceIs
  <2>2. Opened(Empty, n, key) = Empty
    BY Kinds, OpenedInner
  <2>3. QED BY <2>1, <2>2, Kinds DEF DownAt
<1>4. ASSUME NEW k \in U, U = {k}, Hash[k] = h
      PROVE  Child(DownAt(T, n, key), h) = T[n + 1][h]
  <2>1. T[n][h] = Leaf(k, c[k])
    BY <1>1, <1>4, PlaceIs
  <2>2. Under(c, n + 1, h) = {k}
    BY <1>2, <1>4
  <2>3. T[n + 1][h] = Leaf(k, c[k])
    BY <1>1, <2>2, PlaceIs
  <2>4. Opened(Leaf(k, c[k]), n, key) = Leaf(k, c[k])
    BY <1>4, Kinds DEF Opened
  <2>5. QED BY <2>1, <2>3, <2>4, Kinds DEF DownAt
<1>5. CASE U # {} /\ \A k \in U : U = {k} => Hash[k] # h
  <2>1. Branching(T, DownAt(T, n, key), n, h, BitsUnder(c, n, h))
    BY <1>5, OpenedIs DEF DownAt
  <2>2. QED BY <1>1, <2>1, BranchChild, Zenon
<1>6. QED BY <1>3, <1>4, <1>5

LEMMA DownAll ==
    ASSUME NEW T, NEW c, Trie(T, c), Apart(c), NEW key \in Keys, NEW d,
           Running(d, Levels, "down", key, DownAt(T, 0, key)), NEW n \in 0 .. Levels
    PROVE  d[n] = DownAt(T, n, key)
<1> DEFINE Failing == {i \in 0 .. Levels : d[i] # DownAt(T, i, key)}
<1>1. SUFFICES ASSUME Failing # {} PROVE FALSE
  OBVIOUS
<1>2. PICK m \in Failing : \A j \in Failing : m <= j
  <2>1. Failing \in SUBSET Nat
    BY LevelsNat
  <2> HIDE DEF Failing
  <2>2. QED BY <1>1, <2>1, Least
<1>3. d[0] = DownAt(T, 0, key) /\ \A l \in 1 .. Levels : d[l] = Opened(Child(d[l - 1], Hash[key]), l, key)
  <2>1. d[0] = DownAt(T, 0, key) /\ \A l \in 1 .. Levels : d[l] = Step("down", key, d[l - 1], l)
    BY LevelsNat, RunningIs
  <2>2. QED BY <2>1, StepDown
<1>4. m # 0
  BY <1>2, <1>3
<1> DEFINE l == m - 1
<1>5. l \in 0 .. Levels - 1 /\ l \notin Failing /\ l \in 0 .. Levels /\ m \in 1 .. Levels /\ l + 1 = m
  <2>1. l \in 0 .. Levels - 1 /\ l \in 0 .. Levels /\ m \in 1 .. Levels /\ l + 1 = m /\ ~(m <= l)
    BY <1>2, <1>4, LevelsNat
  <2> HIDE DEF l
  <2>2. QED BY <1>2, <2>1
<1>6. d[l] = DownAt(T, l, key)
  BY <1>5
<1>7. d[m] = Opened(Child(d[l], Hash[key]), m, key)
  BY <1>3, <1>5
<1> HIDE DEF l
<1>8. Child(d[l], Hash[key]) = T[l + 1][Hash[key]]
  BY <1>5, <1>6, DownNext
<1>9. QED BY <1>2, <1>5, <1>7, <1>8 DEF DownAt

\* Where the call ends.
LEMMA DownLast ==
    ASSUME NEW T, NEW c, Trie(T, c), Apart(c), NEW key \in Keys
    PROVE  LET h == Hash[key] x == DownAt(T, Levels, key)
           IN /\ (\A k \in DOMAIN c : Hash[k] # h) => x = Empty
              /\ \A k \in DOMAIN c : Hash[k] = h => x = Leaf(k, c[k])
<1> DEFINE h == Hash[key]
           x == DownAt(T, Levels, key)
           U == Under(c, Levels, h)
<1>1. Levels \in 0 .. Levels /\ h \in Hashes
  BY LevelsNat, HashOf
<1>2. ASSUME \A k \in DOMAIN c : Hash[k] # h
      PROVE  x = Empty
  <2>1. U = {}
    BY <1>1, <1>2, UnderLast DEF Under
  <2>2. T[Levels][h] = Empty
    BY <1>1, <2>1, PlaceIs
  <2>3. QED BY <2>2, Kinds, OpenedInner DEF DownAt
<1>3. ASSUME NEW k \in DOMAIN c, Hash[k] = h
      PROVE  x = Leaf(k, c[k])
  <2>1. k \in U
    BY <1>3, AgreeSame DEF Under
  <2>2. U = {k}
    BY <1>1, <2>1, UnderLast
  <2>3. T[Levels][h] = Leaf(k, c[k])
    BY <1>1, <2>1, <2>2, PlaceIs
  <2>4. Opened(Leaf(k, c[k]), Levels, key) = Leaf(k, c[k])
    BY <1>3, Kinds DEF Opened
  <2>5. QED BY <2>3, <2>4 DEF DownAt
<1>4. QED BY <1>2, <1>3

LEMMA UpIs ==
    ASSUME NEW d, NEW key, NEW val, NEW u,
           Running(u, Levels, "up", [down |-> d, key |-> key, val |-> val], Leaf(key, val))
    PROVE  /\ u[0] = Leaf(key, val)
           /\ \A n \in 0 .. Levels - 1 : u[Levels - n] = Renewed(d[n], key, val, u[Levels - (n + 1)])
<1> DEFINE r == [down |-> d, key |-> key, val |-> val]
<1>1. r.down = d /\ r.key = key /\ r.val = val
  OBVIOUS
<1> HIDE DEF r
<1>2. u[0] = Leaf(key, val) /\ \A l \in 1 .. Levels : u[l] = Step("up", r, u[l - 1], l)
  BY LevelsNat, RunningIs DEF r
<1>3. \A l \in 1 .. Levels : u[l] = Renewed(d[Levels - l], key, val, u[l - 1])
  BY <1>1, <1>2, StepUp
<1>4. ASSUME NEW n \in 0 .. Levels - 1
      PROVE  u[Levels - n] = Renewed(d[n], key, val, u[Levels - (n + 1)])
  <2> DEFINE l == Levels - n
  <2>1. l \in 1 .. Levels /\ Levels - l = n /\ l - 1 = Levels - (n + 1)
    BY LevelsNat
  <2> HIDE DEF l
  <2>2. u[l] = Renewed(d[Levels - l], key, val, u[l - 1])
    BY <1>3, <2>1
  <2>3. u[l] = Renewed(d[n], key, val, u[Levels - (n + 1)])
    BY <2>1, <2>2
  <2>4. QED BY <2>3 DEF l
<1>5. QED BY <1>2, <1>4

\* The nodes of the new trie: those of the call on the way of the key.
Grafted(T, h, u) ==
    [n \in 0 .. Levels |-> [g \in Hashes |-> IF Agree(n, g, h) THEN u[Levels - n] ELSE T[n][g]]]

LEMMA WithDomain == ASSUME NEW c, NEW key, NEW val PROVE DOMAIN With(c, key, val) = DOMAIN c \cup {key}
BY DEF With

LEMMA WithNew == ASSUME NEW c, NEW key, NEW val PROVE With(c, key, val)[key] = val
BY DEF With

LEMMA WithOld == ASSUME NEW c, NEW key, NEW val, NEW k \in DOMAIN c, k # key PROVE With(c, key, val)[k] = c[k]
BY DEF With

LEMMA WithUnder ==
    ASSUME NEW c, NEW key, NEW val, NEW n, NEW g
    PROVE  Under(With(c, key, val), n, g) =
               IF Agree(n, Hash[key], g) THEN Under(c, n, g) \cup {key} ELSE Under(c, n, g)
<1> DEFINE e == With(c, key, val)
<1>1. DOMAIN e = DOMAIN c \cup {key}
  BY WithDomain
<1> HIDE DEF e
<1>2. Under(e, n, g) = {k \in DOMAIN c \cup {key} : Agree(n, Hash[k], g)}
  BY <1>1 DEF Under
<1>3. QED BY <1>2 DEF Under, e

\* Off the way of the key nothing changes.
LEMMA PlaceOff ==
    ASSUME NEW T, NEW c, Trie(T, c), NEW key \in Keys, NEW val, NEW u, NEW n \in 0 .. Levels,
           NEW g \in Hashes, ~Agree(n, g, Hash[key])
    PROVE  Place(Grafted(T, Hash[key], u), With(c, key, val), n, g)
<1> DEFINE h == Hash[key]
           e == With(c, key, val)
           R == Grafted(T, h, u)
           U == Under(c, n, g)
<1>1. Under(e, n, g) = U /\ key \notin U
  <2>1. ~Agree(n, h, g)
    BY AgreeBack, Zenon
  <2>2. Under(e, n, g) = U
    BY <2>1, WithUnder
  <2>3. QED BY <2>1, <2>2 DEF Under
<1>2. \A k \in U : e[k] = c[k]
  <2>1. \A k \in DOMAIN c : k # key => e[k] = c[k]
    BY WithOld, Zenon
  <2>2. \A k \in U : k \in DOMAIN c
    BY DEF Under
  <2> HIDE DEF e, U
  <2>3. QED BY <1>1, <2>1, <2>2
<1>3. R[n][g] = T[n][g]
  BY DEF Grafted
<1>4. BitsUnder(e, n, g) = BitsUnder(c, n, g)
  BY <1>1, Zenon DEF BitsUnder
<1>5. ASSUME Several(U)
      PROVE  Branching(R, R[n][g], n, g, BitsUnder(e, n, g))
  <2> DEFINE B == BitsUnder(c, n, g)
             x == T[n][g]
  <2>1. Branching(T, x, n, g, B)
    BY <1>5, PlaceIs
  <2> HIDE DEF x, B
  <2>2. n \in 0 .. Levels - 1
    BY <2>1, Zenon DEF Branching, Inner
  <2>3. ASSUME NEW f \in Hashes, Agree(n, f, g)
        PROVE  R[n + 1][f] = T[n + 1][f]
    <3>1. n \in Nat /\ n + 1 \in 0 .. Levels
      BY <2>2, LevelsNat
    <3>2. ~Agree(n + 1, f, h)
      <4>1. Agree(n, g, f)
        BY <2>3, AgreeBack
      <4>2. ~Agree(n, f, h)
        BY <4>1, AgreeOn
      <4>3. QED BY <3>1, <4>2, AgreeNext
    <3>3. QED BY <3>1, <3>2 DEF Grafted
  <2> HIDE DEF R
  <2>4. Branching(R, x, n, g, B)
    BY <2>1, <2>3, Zenon DEF Branching
  <2>5. QED BY <1>3, <1>4, <2>4 DEF x, B
<1>6. /\ U = {} => T[n][g] = Empty
      /\ \A k \in U : U = {k} => T[n][g] = Leaf(k, c[k])
  BY PlaceIs
<1> HIDE DEF R, e, U
<1>7. /\ Under(e, n, g) = {} => R[n][g] = Empty
      /\ \A k \in Under(e, n, g) : Under(e, n, g) = {k} => R[n][g] = Leaf(k, e[k])
      /\ Several(Under(e, n, g)) => Branching(R, R[n][g], n, g, BitsUnder(e, n, g))
  BY <1>1, <1>2, <1>3, <1>5, <1>6
<1>8. Place(R, e, n, g)
  BY <1>7, Zenon DEF Place
<1>9. QED BY <1>8, Zenon DEF R, e

\* On its way: the node that the call makes for each level.
LEMMA PlaceOn ==
    ASSUME NEW T, NEW c, Trie(T, c), Apart(c), NEW key \in Keys, NEW val,
           \A k \in DOMAIN c : Hash[k] = Hash[key] => k = key,
           NEW d, \A n \in 0 .. Levels : d[n] = DownAt(T, n, key), NEW u,
           Running(u, Levels, "up", [down |-> d, key |-> key, val |-> val], Leaf(key, val)),
           NEW n \in 0 .. Levels
    PROVE  Place(Grafted(T, Hash[key], u), With(c, key, val), n, Hash[key])
<1> DEFINE h == Hash[key]
           e == With(c, key, val)
           R == Grafted(T, h, u)
           U == Under(c, n, h)
           V == Under(e, n, h)
           y == u[Levels - n]
<1>1. h \in Hashes /\ Agree(n, h, h) /\ n \in Nat
  BY HashOf, AgreeSame, LevelsNat
<1>2. V = U \cup {key} /\ e[key] = val
  <2>1. Agree(n, Hash[key], h)
    BY <1>1
  <2>2. V = U \cup {key}
    BY <2>1, WithUnder, Zenon
  <2>3. e[key] = val
    BY WithNew
  <2>4. QED BY <2>2, <2>3, Zenon
<1>3. R[n][h] = y
  BY <1>1 DEF Grafted
<1>4. u[0] = Leaf(key, val)
  BY UpIs
<1>5. ASSUME NEW m \in 0 .. Levels, d[m].kind \in {"empty", "leaf"} \/ m = Levels
      PROVE  u[Levels - m] = Leaf(key, val)
  <2>1. CASE m = Levels
    <3>1. Levels - m = 0
      BY <2>1, LevelsNat
    <3>2. QED BY <1>4, <3>1
  <2>2. CASE m # Levels
    <3>1. m \in 0 .. Levels - 1
      BY <2>2, LevelsNat
    <3>2. u[Levels - m] = Renewed(d[m], key, val, u[Levels - (m + 1)])
      BY <3>1, UpIs
    <3> DEFINE z == u[Levels - (m + 1)]
    <3> HIDE DEF z
    <3>3. Renewed(d[m], key, val, z) = Leaf(key, val)
      BY <1>5, <2>2 DEF Renewed
    <3>4. QED BY <3>2, <3>3 DEF z
  <2>3. QED BY <2>1, <2>2
<1>6. CASE V = {key}
  <2>1. d[n].kind \in {"empty", "leaf"} \/ n = Levels
    <3>1. CASE U = {}
      <4>1. T[n][h] = Empty
        BY <1>1, <3>1, PlaceIs
      <4>2. QED BY <4>1, Kinds, OpenedInner DEF DownAt
    <3>2. CASE U = {key}
      <4>1. T[n][h] = Leaf(key, c[key])
        BY <1>1, <3>2, PlaceIs
      <4>2. Opened(Leaf(key, c[key]), n, key) = Leaf(key, c[key])
        BY Kinds DEF Opened
      <4>3. QED BY <4>1, <4>2, Kinds DEF DownAt
    <3>3. QED BY <1>2, <1>6, <3>1, <3>2
  <2>2. y = Leaf(key, val)
    BY <1>5, <2>1
  <2> HIDE DEF R, e, V, y
  <2>3. Place(R, e, n, h)
    <3>1. Under(e, n, h) = {key} /\ R[n][h] = Leaf(key, e[key])
      BY <1>2, <1>3, <1>6, <2>2 DEF V
    <3>2. QED BY <3>1 DEF Place, Several
  <2>4. QED BY <2>3, Zenon DEF R, e
<1>7. CASE V # {key}
  <2> DEFINE B == BitsUnder(c, n, h)
             C == BitsUnder(e, n, h)
             x == d[n]
             z == u[Levels - (n + 1)]
  <2>1. U # {} /\ \A k \in U : U = {k} => Hash[k] # h
    BY <1>2, <1>7 DEF Under
  <2>2. n \in 0 .. Levels - 1 /\ n + 1 \in 0 .. Levels
    <3>1. n # Levels
      BY <1>1, <2>1, UnderLast
    <3>2. QED BY <3>1, LevelsNat
  <2>3. Branching(T, x, n, h, B)
    <3>1. Branching(T, Opened(T[n][h], n, key), n, h, B)
      BY <2>1, <2>2, OpenedIs
    <3>2. x = Opened(T[n][h], n, key)
      BY DEF DownAt
    <3>3. QED BY <3>1, <3>2, Zenon
  <2>4. y = Renewed(x, key, val, z)
    BY <2>2, UpIs
  <2>5. C = B \cup {h[n]}
    BY <1>2 DEF BitsUnder
  <2>6. \A g \in Hashes : Agree(n, g, h) => R[n + 1][g] = IF g[n] = h[n] THEN z ELSE T[n + 1][g]
    BY <1>1, <2>2, AgreeNext DEF Grafted
  <2> HIDE DEF x, z, B, C, y, R, e, U, V
  <2>7. x.kind \in {"bitmap", "full"} /\ Inner(x, n, B)
    BY <2>3, InnerFields DEF Branching
  <2>8. /\ h[n] \in Bits
        /\ Occupied(x, h) <=> h[n] \in B
    BY <1>1, <2>7, InnerSlot
  <2>9. ASSUME h[n] \notin B
        PROVE  Branching(R, y, n, h, C)
    <3>1. y = InsertLeaf(x, key, val)
      BY <2>4, <2>7, <2>8, <2>9 DEF Renewed
    <3>2. /\ Inner(y, n, C)
          /\ y.nodes[Index(C, h[n])] = Leaf(key, val)
          /\ \A b \in B : y.nodes[Index(C, b)] = x.nodes[Index(B, b)]
      BY <2>5, <2>7, <2>9, <3>1, InsertIs
    <3>3. z = Leaf(key, val)
      <4>1. Under(c, n + 1, h) = {}
        BY <1>1, <2>9, UnderNext DEF B, BitsUnder
      <4>2. T[n + 1][h] = Empty
        BY <1>1, <2>2, <4>1, PlaceIs
      <4>3. d[n + 1].kind = "empty"
        BY <2>2, <4>2, Kinds, OpenedInner DEF DownAt
      <4>4. QED BY <1>5, <2>2, <4>3 DEF z
    <3>4. ASSUME NEW g \in Hashes, Agree(n, g, h), g[n] \in C
          PROVE  y.nodes[Index(C, g[n])] = R[n + 1][g]
      <4>1. CASE g[n] = h[n]
        BY <2>6, <3>2, <3>3, <3>4, <4>1
      <4>2. CASE g[n] # h[n]
        <5>1. g[n] \in B
          BY <2>5, <3>4, <4>2
        <5>2. x.nodes[Index(B, g[n])] = T[n + 1][g]
          BY <2>3, <3>4, <5>1, Zenon DEF Branching
        <5>3. QED BY <2>6, <3>2, <3>4, <4>2, <5>1, <5>2
      <4>3. QED BY <4>1, <4>2
    <3>5. QED BY <3>2, <3>4, Zenon DEF Branching
  <2>10. ASSUME h[n] \in B
         PROVE  Branching(R, y, n, h, C)
    <3>1. y = Replaced(x, h, z)
      BY <2>4, <2>7, <2>8, <2>10 DEF Renewed, Replaced
    <3>2. C = B
      BY <2>5, <2>10
    <3>3. /\ Inner(y, n, B)
          /\ y.nodes[Index(B, h[n])] = z
          /\ \A b \in B : b # h[n] => y.nodes[Index(B, b)] = x.nodes[Index(B, b)]
      <4>1. NewChild(y, x, n, B, h[n], z)
        BY <1>1, <2>7, <2>10, <3>1, ReplaceIs
      <4>2. QED BY <4>1, Zenon DEF NewChild
    <3>4. ASSUME NEW g \in Hashes, Agree(n, g, h), g[n] \in B
          PROVE  y.nodes[Index(B, g[n])] = R[n + 1][g]
      <4>1. CASE g[n] = h[n]
        BY <2>6, <3>3, <3>4, <4>1
      <4>2. CASE g[n] # h[n]
        <5>1. x.nodes[Index(B, g[n])] = T[n + 1][g]
          BY <2>3, <3>4, Zenon DEF Branching
        <5>2. QED BY <2>6, <3>3, <3>4, <4>2, <5>1
      <4>3. QED BY <4>1, <4>2
    <3>5. QED BY <3>2, <3>3, <3>4, Zenon DEF Branching
  <2>11. Branching(R, y, n, h, C)
    BY <2>9, <2>10
  <2>12. Several(V)
    BY <1>2, <1>7, <2>1 DEF Several, Under, U
  <2>13. V # {} /\ \A k \in V : V # {k}
    BY <2>12 DEF Several
  <2>14. Place(R, e, n, h)
    <3>1. /\ Under(e, n, h) # {} /\ \A k \in Under(e, n, h) : Under(e, n, h) # {k}
          /\ Branching(R, R[n][h], n, h, BitsUnder(e, n, h))
      BY <1>3, <2>11, <2>13, Zenon DEF V, C
    <3>2. QED BY <3>1, Zenon DEF Place
  <2>15. QED BY <2>14, Zenon DEF R, e
<1>8. QED BY <1>6, <1>7

LEMMA PlaceAgree ==
    ASSUME NEW R, NEW c, NEW n, NEW h, NEW g, Agree(n, g, h), R[n][g] = R[n][h], Place(R, c, n, h)
    PROVE  Place(R, c, n, g)
<1>1. Under(c, n, g) = Under(c, n, h)
  BY UnderAgree, Zenon
<1>2. BitsUnder(c, n, g) = BitsUnder(c, n, h)
  BY <1>1, Zenon DEF BitsUnder
<1>3. ASSUME NEW x, NEW B, Branching(R, x, n, h, B)
      PROVE  Branching(R, x, n, g, B)
  <2>1. \A f : Agree(n, f, g) => Agree(n, f, h)
    BY AgreeOn
  <2>2. QED BY <1>3, <2>1, Zenon DEF Branching
<1>4. /\ Under(c, n, h) = {} => R[n][h] = Empty
      /\ \A k \in Under(c, n, h) : Under(c, n, h) = {k} => R[n][h] = Leaf(k, c[k])
      /\ Several(Under(c, n, h)) => Branching(R, R[n][h], n, h, BitsUnder(c, n, h))
  BY Zenon DEF Place
<1>5. /\ Under(c, n, g) = {} => R[n][g] = Empty
      /\ \A k \in Under(c, n, g) : Under(c, n, g) = {k} => R[n][g] = Leaf(k, c[k])
      /\ Several(Under(c, n, g)) => Branching(R, R[n][g], n, g, BitsUnder(c, n, g))
  BY <1>1, <1>2, <1>3, <1>4
<1>6. QED BY <1>5, Zenon DEF Place

\* The new trie is that of the function with the new key.
LEMMA GraftedIs ==
    ASSUME NEW T, NEW c, Trie(T, c), Apart(c), NEW key \in Keys, NEW val,
           \A k \in DOMAIN c : Hash[k] = Hash[key] => k = key,
           NEW d, \A n \in 0 .. Levels : d[n] = DownAt(T, n, key), NEW u,
           Running(u, Levels, "up", [down |-> d, key |-> key, val |-> val], Leaf(key, val))
    PROVE  Trie(Grafted(T, Hash[key], u), With(c, key, val))
<1> DEFINE h == Hash[key]
           R == Grafted(T, h, u)
           e == With(c, key, val)
<1>1. h \in Hashes
  BY HashOf
<1>2. \A n \in 0 .. Levels, g \in Hashes : R[n][g] = IF Agree(n, g, h) THEN u[Levels - n] ELSE T[n][g]
  BY DEF Grafted
<1>3. \A n \in 0 .. Levels : Place(R, e, n, h)
  BY PlaceOn, Zenon
<1>4. \A n \in 0 .. Levels, g \in Hashes : ~Agree(n, g, h) => Place(R, e, n, g)
  BY PlaceOff, Zenon
<1> HIDE DEF R, e
<1>5. ASSUME NEW n \in 0 .. Levels, NEW g \in Hashes
      PROVE  Place(R, e, n, g) /\ \A f \in Hashes : Agree(n, f, g) => R[n][f] = R[n][g]
  <2>1. CASE Agree(n, g, h)
    <3>1. R[n][g] = u[Levels - n]
      BY <1>2, <2>1
    <3>2. R[n][h] = u[Levels - n]
      BY <1>1, <1>2, AgreeSame
    <3>3. Place(R, e, n, g)
      BY <1>3, <2>1, <3>1, <3>2, PlaceAgree
    <3>4. \A f \in Hashes : Agree(n, f, g) => R[n][f] = R[n][g]
      BY <1>2, <2>1, <3>1, AgreeOn
    <3>5. QED BY <3>3, <3>4
  <2>2. CASE ~Agree(n, g, h)
    <3>1. Place(R, e, n, g)
      BY <1>4, <2>2
    <3>2. ASSUME NEW f \in Hashes, Agree(n, f, g)
          PROVE  R[n][f] = R[n][g]
      <4>1. ~Agree(n, f, h)
        BY <2>2, <3>2, AgreeOn, AgreeBack
      <4>2. T[n][f] = T[n][g]
        BY <3>2, PlaceIs
      <4>3. QED BY <1>2, <2>2, <4>1, <4>2
    <3>3. QED BY <3>1, <3>2
  <2>3. QED BY <2>1, <2>2
<1>6. Trie(R, e)
  BY <1>5, Zenon DEF Trie
<1>7. QED BY <1>6, Zenon DEF R, e

\* root is the trie of c.
Holds(root, c) == \E T : Trie(T, c) /\ \A h \in Hashes : T[0][h] = root

Collides(c, key) == \E k \in DOMAIN c \ {key} : Hash[k] = Hash[key]

\* assoc throws if the hash is taken, and otherwise makes the trie of the
\* function with the new key.
LEMMA AssocIs ==
    ASSUME NEW root, NEW c, Holds(root, c), Apart(c), NEW key \in Keys, NEW val
    PROVE  /\ AssocNode(root, key, val).ok <=> ~Collides(c, key)
           /\ ~Collides(c, key) =>
                  /\ AssocNode(root, key, val).added <=> key \notin DOMAIN c
                  /\ Holds(AssocNode(root, key, val).node, With(c, key, val))
<1> DEFINE h == Hash[key]
           r == AssocNode(root, key, val)
<1>1. PICK T : Trie(T, c) /\ \A g \in Hashes : T[0][g] = root
  BY Zenon DEF Holds
<1>2. h \in Hashes /\ T[0][h] = root
  BY <1>1, HashOf
<1>0. PICK d, u : Assocs(d, u, root, key, val)
  BY AssocRuns, Zenon
<1>3. /\ Running(d, Levels, "down", key, Opened(root, 0, key))
      /\ Running(u, Levels, "up", [down |-> d, key |-> key, val |-> val], Leaf(key, val))
      /\ r = [node |-> u[Levels], added |-> d[Levels].kind = "empty",
              ok |-> d[Levels].kind = "leaf" => d[Levels].key = key]
  BY <1>0, Zenon DEF Assocs
<1>4. \A n \in 0 .. Levels : d[n] = DownAt(T, n, key)
  <2>1. Running(d, Levels, "down", key, DownAt(T, 0, key))
    BY <1>2, <1>3, Zenon DEF DownAt
  <2>2. QED BY <1>1, <2>1, DownAll, Zenon
<1> DEFINE x == d[Levels]
<1>5. /\ (\A k \in DOMAIN c : Hash[k] # h) => x = Empty
      /\ \A k \in DOMAIN c : Hash[k] = h => x = Leaf(k, c[k])
  <2>1. x = DownAt(T, Levels, key)
    BY <1>4, LevelsNat
  <2>2. QED BY <1>1, <2>1, DownLast
<1> HIDE DEF r
<1>6. r.ok = (x.kind = "leaf" => x.key = key) /\ r.added = (x.kind = "empty") /\ r.node = u[Levels]
  BY <1>3
<1> HIDE DEF x
<1>7. r.ok <=> ~Collides(c, key)
  <2>1. CASE \E k \in DOMAIN c : Hash[k] = h
    <3>1. PICK k \in DOMAIN c : Hash[k] = h
      BY <2>1
    <3>2. x.kind = "leaf" /\ x.key = k
      BY <1>5, <3>1, Kinds
    <3>3. Collides(c, key) <=> k # key
      BY <3>1 DEF Collides, Apart
    <3>4. QED BY <1>6, <3>2, <3>3
  <2>2. CASE \A k \in DOMAIN c : Hash[k] # h
    <3>1. x.kind = "empty" /\ ~Collides(c, key)
      BY <1>5, <2>2, Kinds DEF Collides
    <3>2. QED BY <1>6, <3>1
  <2>3. QED BY <2>1, <2>2
<1>8. ASSUME ~Collides(c, key)
      PROVE  r.added <=> key \notin DOMAIN c
  <2>1. CASE key \in DOMAIN c
    <3>1. x.kind = "leaf"
      BY <1>5, <2>1, Kinds
    <3>2. QED BY <1>6, <2>1, <3>1
  <2>2. CASE key \notin DOMAIN c
    <3>1. \A k \in DOMAIN c : Hash[k] # h
      BY <1>8, <2>2 DEF Collides
    <3>2. x.kind = "empty"
      BY <1>5, <3>1, Kinds
    <3>3. QED BY <1>6, <2>2, <3>2
  <2>3. QED BY <2>1, <2>2
<1>9. ASSUME ~Collides(c, key)
      PROVE  Holds(r.node, With(c, key, val))
  <2> DEFINE R == Grafted(T, h, u)
  <2>1. \A k \in DOMAIN c : Hash[k] = Hash[key] => k = key
    BY <1>9 DEF Collides
  <2>2. Trie(R, With(c, key, val))
    BY <1>1, <1>3, <1>4, <2>1, GraftedIs, Zenon
  <2>3. \A g \in Hashes : R[0][g] = u[Levels]
    <3>1. 0 \in 0 .. Levels /\ Levels - 0 = Levels
      BY LevelsNat
    <3>2. QED BY <3>1, AgreeNone DEF Grafted
  <2> HIDE DEF R
  <2>4. QED BY <1>6, <2>2, <2>3, Zenon DEF Holds
<1>10. QED BY <1>7, <1>8, <1>9, Zenon DEF r

-----------------------------------------------------------------------------
(* iterate                                                                 *)

LEMMA KeysRun ==
    ASSUME NEW root
    PROVE  \E f : /\ Running(f, Levels, "row", 0, IF root.kind = "empty" THEN << >> ELSE <<root>>)
                  /\ KeysOf(root) = [i \in DOMAIN f[Levels] |-> f[Levels][i].key]
<1> DEFINE a == IF root.kind = "empty" THEN << >> ELSE <<root>>
           Body(g) == [n \in 0 .. Levels |->
                           IF n = 0 THEN IF root.kind = "empty" THEN << >> ELSE <<root>> ELSE NextLevel(g[n - 1])]
           f == CHOOSE g : g = Body(g)
<1>1. ASSUME NEW g
      PROVE  Running(g, Levels, "row", 0, a) <=> g = Body(g)
  <2> DEFINE Run == [l \in 0 .. Levels |-> IF l = 0 THEN a ELSE Step("row", 0, g[l - 1], l)]
  <2>1. Run = Body(g)
    <3> HIDE DEF Step
    <3>1. \A x, l : Step("row", 0, x, l) = NextLevel(x)
      BY StepRow
    <3>2. QED BY <3>1, Zenon
  <2>2. QED BY <2>1 DEF Running
<1>2. f = Body(f)
  <2>1. PICK g : Running(g, Levels, "row", 0, a)
    <3> HIDE DEF a
    <3>1. QED BY LevelsNat, RunningExists
  <2>2. g = Body(g)
    BY <1>1, <2>1
  <2> HIDE DEF Body
  <2>3. QED BY <2>2, Zenon
<1>3. KeysOf(root) = [i \in DOMAIN f[Levels] |-> f[Levels][i].key]
  BY Zenon DEF KeysOf
<1> HIDE DEF f, Body
<1>4. QED BY <1>1, <1>2, <1>3, Zenon DEF a

\* r is the first m sequences of ps one after the other: w says where each entry is from.
Flat(r, w, ps, m) ==
    /\ r \in Seq(Entries(r))
    /\ w \in [1 .. Len(r) -> Nat \X Nat]
    /\ \A p \in 1 .. Len(r) :
           /\ w[p][1] \in 1 .. m /\ w[p][2] \in 1 .. Len(ps[w[p][1]])
           /\ r[p] = ps[w[p][1]][w[p][2]]
    /\ \A p, q \in 1 .. Len(r) : w[p] = w[q] => p = q
    /\ \A i \in 1 .. m : \A j \in 1 .. Len(ps[i]) : \E p \in 1 .. Len(r) : w[p] = <<i, j>>

LEMMA FlatNext ==
    ASSUME NEW S, NEW ps, NEW m \in Nat, ps[m + 1] \in Seq(S), NEW r \in Seq(S), NEW w, Flat(r, w, ps, m),
           NEW y, y = r \o ps[m + 1]
    PROVE  y \in Seq(S) /\ \E v : Flat(y, v, ps, m + 1)
<1> DEFINE t == ps[m + 1]
           l == Len(r)
           v == [p \in 1 .. Len(y) |-> IF p <= l THEN w[p] ELSE <<m + 1, p - l>>]
<1>1. t \in Seq(S) /\ l \in Nat /\ Len(t) \in Nat
  OBVIOUS
<1>2. /\ y \in Seq(S) /\ Len(y) = l + Len(t)
      /\ \A i \in 1 .. l + Len(t) : y[i] = IF i <= l THEN r[i] ELSE t[i - l]
  <2>1. Joint(y, r, t, S)
    BY JointIs
  <2> HIDE DEF t
  <2>2. QED BY <2>1, Zenon DEF Joint
<1>3. /\ w \in [1 .. l -> Nat \X Nat]
      /\ \A p \in 1 .. l : /\ w[p][1] \in 1 .. m /\ w[p][2] \in 1 .. Len(ps[w[p][1]])
                           /\ r[p] = ps[w[p][1]][w[p][2]]
      /\ \A p, q \in 1 .. l : w[p] = w[q] => p = q
      /\ \A i \in 1 .. m : \A j \in 1 .. Len(ps[i]) : \E p \in 1 .. l : w[p] = <<i, j>>
  BY Zenon DEF Flat
<1> HIDE DEF t, l
<1>4. ASSUME NEW p \in 1 .. Len(y), p <= l
      PROVE  v[p] = w[p] /\ p \in 1 .. l /\ y[p] = r[p]
  BY <1>1, <1>2, <1>4
<1>5. ASSUME NEW p \in 1 .. Len(y), ~(p <= l)
      PROVE  v[p] = <<m + 1, p - l>> /\ p - l \in 1 .. Len(t) /\ y[p] = t[p - l]
  BY <1>1, <1>2, <1>5
<1>6. v \in [1 .. Len(y) -> Nat \X Nat]
  <2>1. ASSUME NEW p \in 1 .. Len(y)
        PROVE  (IF p <= l THEN w[p] ELSE <<m + 1, p - l>>) \in Nat \X Nat
    <3>1. CASE p <= l
      BY <1>3, <1>4, <3>1
    <3>2. CASE ~(p <= l)
      <4>1. m + 1 \in Nat /\ p - l \in Nat
        BY <1>1, <1>5, <3>2
      <4>2. QED BY <3>2, <4>1
    <3>3. QED BY <3>1, <3>2
  <2>2. QED BY <2>1
<1> HIDE DEF v
<1>7. ASSUME NEW p \in 1 .. Len(y)
      PROVE  /\ v[p][1] \in 1 .. m + 1 /\ v[p][2] \in 1 .. Len(ps[v[p][1]])
             /\ y[p] = ps[v[p][1]][v[p][2]]
  <2>1. CASE p <= l
    <3>1. v[p] = w[p] /\ p \in 1 .. l /\ y[p] = r[p]
      BY <1>4, <2>1
    <3>2. w[p][1] \in 1 .. m + 1
      BY <1>3, <3>1
    <3>3. QED BY <1>3, <3>1, <3>2
  <2>2. CASE ~(p <= l)
    <3>1. v[p] = <<m + 1, p - l>> /\ p - l \in 1 .. Len(t) /\ y[p] = t[p - l]
      BY <1>5, <2>2
    <3>2. v[p][1] = m + 1 /\ v[p][2] = p - l
      BY <3>1
    <3>3. m + 1 \in 1 .. m + 1
      OBVIOUS
    <3>4. QED BY <3>1, <3>2, <3>3 DEF t
  <2>3. QED BY <2>1, <2>2
<1>8. ASSUME NEW p \in 1 .. Len(y), NEW q \in 1 .. Len(y), v[p] = v[q]
      PROVE  p = q
  <2>1. ASSUME NEW i \in 1 .. Len(y), i <= l, NEW j \in 1 .. Len(y), ~(j <= l)
        PROVE  v[i] # v[j]
    <3>1. v[i][1] \in 1 .. m
      BY <1>3, <1>4, <2>1
    <3>2. v[j][1] = m + 1
      BY <1>5, <2>1
    <3>3. QED BY <3>1, <3>2
  <2>2. CASE p <= l /\ q <= l
    BY <1>3, <1>4, <1>8, <2>2
  <2>3. CASE ~(p <= l) /\ ~(q <= l)
    <3>1. v[p][2] = p - l /\ v[q][2] = q - l
      BY <1>5, <2>3
    <3>2. p \in Nat /\ q \in Nat
      BY <1>1, <1>2
    <3>3. QED BY <1>1, <1>8, <3>1, <3>2
  <2>4. QED BY <1>8, <2>1, <2>2, <2>3
<1>9. ASSUME NEW i \in 1 .. m + 1, NEW j \in 1 .. Len(ps[i])
      PROVE  \E p \in 1 .. Len(y) : v[p] = <<i, j>>
  <2>1. CASE i \in 1 .. m
    <3>1. PICK p \in 1 .. l : w[p] = <<i, j>>
      BY <1>3, <2>1
    <3>2. p \in 1 .. Len(y) /\ p <= l
      BY <1>1, <1>2
    <3>3. QED BY <1>4, <3>1, <3>2
  <2>2. CASE i = m + 1
    <3>1. j \in 1 .. Len(t)
      BY <2>2 DEF t
    <3>2. l + j \in 1 .. Len(y) /\ ~(l + j <= l) /\ (l + j) - l = j
      BY <1>1, <1>2, <3>1
    <3>3. v[l + j] = <<m + 1, j>>
      BY <1>5, <3>2
    <3>4. QED BY <2>2, <3>2, <3>3
  <2>3. QED BY <2>1, <2>2
<1>10. y \in Seq(Entries(y))
  BY <1>2, EntriesAre
<1>11. Flat(y, v, ps, m + 1)
  BY <1>6, <1>7, <1>8, <1>9, <1>10, Zenon DEF Flat
<1>12. QED BY <1>2, <1>11

LEMMA FlatFirst ==
    ASSUME NEW S, NEW ps, ps[1] \in Seq(S)
    PROVE  \E v : Flat(ps[1], v, ps, 1)
<1> DEFINE r == << >>
           w == << >>
<1>1. r \in Seq(S) /\ Len(r) = 0 /\ w \in [1 .. Len(r) -> Nat \X Nat] /\ r \in Seq(Entries(r))
  OBVIOUS
<1> HIDE DEF r, w
<1>2. Flat(r, w, ps, 0)
  BY <1>1 DEF Flat
<1>3. ps[0 + 1] \in Seq(S) /\ ps[1] = r \o ps[0 + 1]
  <2> DEFINE t == ps[1]
  <2>1. t \in Seq(S)
    OBVIOUS
  <2> HIDE DEF t
  <2>2. r \o t = t
    BY <2>1 DEF r
  <2>3. QED BY <2>1, <2>2 DEF t
<1> DEFINE y == ps[1]
           o == 0 + 1
           Z == 0
<1>4. o = 1 /\ Z \in Nat /\ Z + 1 = o /\ ps[Z + 1] \in Seq(S) /\ y = r \o ps[Z + 1] /\ Flat(r, w, ps, Z)
  BY <1>2, <1>3
<1> HIDE DEF y, o, Z
<1>5. \E v : Flat(y, v, ps, Z + 1)
  BY <1>1, <1>4, FlatNext
<1>6. QED BY <1>4, <1>5 DEF y

LEMMA FlattenRuns ==
    ASSUME NEW ps, NEW m \in Nat \ {0}, Len(ps) = m
    PROVE  \E f : /\ f[1] = ps[1] /\ \A i \in 1 .. m - 1 : f[i + 1] = f[i] \o ps[i + 1]
                  /\ FlattenSeq(ps) = f[m]
<1> DEFINE Body(g) == [i \in 1 .. Len(ps) |-> IF i = 1 THEN ps[i] ELSE g[i - 1] \o ps[i]]
           f == CHOOSE g : g = Body(g)
<1>1. \E g : g = Body(g)
  <2>1. PICK u : Running(u, m - 1, "flatten", ps, ps[1])
    <3>1. m - 1 \in Nat
      OBVIOUS
    <3>2. QED BY <3>1, RunningExists
  <2>2. u[0] = ps[1] /\ \A l \in 1 .. m - 1 : u[l] = u[l - 1] \o ps[l + 1]
    <3>1. m - 1 \in Nat
      OBVIOUS
    <3>2. u[0] = ps[1] /\ \A l \in 1 .. m - 1 : u[l] = Step("flatten", ps, u[l - 1], l)
      BY <2>1, <3>1, RunningIs
    <3>3. QED BY <3>2, StepFlatten
  <2> DEFINE g == [i \in 1 .. m |-> u[i - 1]]
  <2>3. ASSUME NEW i \in 1 .. m
        PROVE  u[i - 1] = IF i = 1 THEN ps[i] ELSE g[i - 1] \o ps[i]
    <3>1. CASE i = 1
      BY <2>2, <3>1
    <3>2. CASE i # 1
      <4>1. i - 1 \in 1 .. m - 1 /\ i - 1 \in 1 .. m /\ (i - 1) + 1 = i
        BY <3>2
      <4>2. u[i - 1] = u[(i - 1) - 1] \o ps[i]
        BY <2>2, <4>1
      <4>3. g[i - 1] = u[(i - 1) - 1]
        BY <4>1
      <4> HIDE DEF g
      <4>4. QED BY <3>2, <4>2, <4>3
    <3>3. QED BY <3>1, <3>2
  <2>4. g = Body(g)
    BY <2>3
  <2> HIDE DEF g, Body
  <2>5. QED BY <2>4
<1>2. f = Body(f)
  <2> HIDE DEF Body
  <2>1. QED BY <1>1, Zenon
<1>3. FlattenSeq(ps) = f[m]
  <2>1. Len(ps) # 0
    OBVIOUS
  <2>2. FlattenSeq(ps) = f[Len(ps)]
    BY <2>1, Zenon DEF FlattenSeq
  <2>3. QED BY <2>2, Zenon
<1> HIDE DEF f
<1>4. \A i \in 1 .. m : f[i] = IF i = 1 THEN ps[i] ELSE f[i - 1] \o ps[i]
  BY <1>2
<1>5. f[1] = ps[1]
  BY <1>4
<1>6. ASSUME NEW i \in 1 .. m - 1
      PROVE  f[i + 1] = f[i] \o ps[i + 1]
  <2>1. i + 1 \in 1 .. m /\ i + 1 # 1 /\ (i + 1) - 1 = i
    OBVIOUS
  <2>2. QED BY <1>4, <2>1
<1>7. QED BY <1>3, <1>5, <1>6, Zenon

LEMMA FlattenIs ==
    ASSUME NEW S, NEW ps, NEW m \in Nat, Len(ps) = m, ps \in [1 .. m -> Seq(S)]
    PROVE  \E w : Flat(FlattenSeq(ps), w, ps, m)
<1>1. CASE m = 0
  <2>1. FlattenSeq(ps) = ps
    BY <1>1, Zenon DEF FlattenSeq
  <2> DEFINE w == << >>
  <2>2. ps \in Seq(Entries(ps)) /\ w \in [1 .. Len(ps) -> Nat \X Nat]
    <3>1. ps = << >>
      BY <1>1
    <3>2. QED BY <1>1, <3>1
  <2> HIDE DEF w
  <2>3. Flat(ps, w, ps, m)
    BY <1>1, <2>2 DEF Flat
  <2>4. QED BY <2>1, <2>3
<1>2. CASE m # 0
  <2>1. PICK f : /\ f[1] = ps[1] /\ \A i \in 1 .. m - 1 : f[i + 1] = f[i] \o ps[i + 1]
                 /\ FlattenSeq(ps) = f[m]
    <3>1. m \in Nat \ {0}
      BY <1>2
    <3>2. QED BY <3>1, FlattenRuns, Zenon
  <2> DEFINE Good(i) == f[i] \in Seq(S) /\ \E w : Flat(f[i], w, ps, i)
             Failing == {i \in 1 .. m : ~Good(i)}
  <2>2. SUFFICES ASSUME Failing # {} PROVE FALSE
    <3>1. m \in 1 .. m
      BY <1>2
    <3>2. Good(m)
      BY <2>2, <3>1
    <3>3. QED BY <2>1, <3>2, Zenon
  <2> HIDE DEF Good
  <2>3. PICK i \in Failing : \A j \in Failing : i <= j
    <3>1. Failing \in SUBSET Nat
      OBVIOUS
    <3> HIDE DEF Failing
    <3>2. QED BY <2>2, <3>1, Least
  <2>4. i # 1
    <3>1. ps[1] \in Seq(S)
      BY <1>2
    <3>2. Good(1)
      BY <2>1, <3>1, FlatFirst DEF Good
    <3>3. QED BY <2>3, <3>2
  <2> DEFINE l == i - 1
  <2>5. l \in 1 .. m - 1 /\ l \in Nat /\ l + 1 = i /\ l + 1 \in 1 .. m /\ l \in 1 .. m /\ ~(i <= l)
    BY <2>3, <2>4
  <2> HIDE DEF l
  <2>6. Good(l)
    BY <2>3, <2>5
  <2>7. PICK w : Flat(f[l], w, ps, l)
    BY <2>6 DEF Good
  <2>8. f[l] \in Seq(S) /\ ps[l + 1] \in Seq(S) /\ f[l + 1] = f[l] \o ps[l + 1]
    BY <2>1, <2>5, <2>6 DEF Good
  <2>9. f[l + 1] \in Seq(S) /\ \E v : Flat(f[l + 1], v, ps, l + 1)
    BY <2>5, <2>7, <2>8, FlatNext
  <2>10. Good(l + 1)
    BY <2>9 DEF Good
  <2>11. QED BY <2>3, <2>5, <2>10
<1>3. QED BY <1>1, <1>2

-----------------------------------------------------------------------------
(* iterate: the nodes of a level stand for the keys, each key under one.    *)

\* t has the nodes of the next level for the keys under h, and q a key for each of them.
Listed(t, q, T, c, n, h) ==
    /\ q \in [1 .. Len(t) -> Under(c, n, h)]
    /\ \A j \in 1 .. Len(t) : t[j] = T[n + 1][Hash[q[j]]]
    /\ \A i, j \in 1 .. Len(t) : Hash[q[i]][n] = Hash[q[j]][n] => i = j
    /\ \A k \in Under(c, n, h) : \E j \in 1 .. Len(t) : Hash[q[j]][n] = Hash[k][n]

\* What NextLevel puts in the place of a node.
Parts(x) == IF x.kind = "leaf" THEN <<x>> ELSE x.nodes

LEMMA PartsOfLeaf ==
    ASSUME NEW T, NEW c, Trie(T, c), Apart(c), NEW n \in 0 .. Levels - 1, NEW key \in DOMAIN c,
           Under(c, n, Hash[key]) = {key}
    PROVE  LET t == Parts(T[n][Hash[key]])
           IN t \in Seq(Entries(t)) /\ \E q : Listed(t, q, T, c, n, Hash[key])
<1> DEFINE h == Hash[key]
           x == T[n][h]
           t == Parts(x)
           q == [j \in 1 .. 1 |-> key]
<1>1. n \in Nat /\ n \in 0 .. Levels /\ n + 1 \in 0 .. Levels /\ h \in Hashes
  BY LevelsNat, HashOf DEF Apart
<1>2. x = Leaf(key, c[key]) /\ x.kind = "leaf"
  BY <1>1, PlaceIs, Kinds
<1>3. T[n + 1][h] = x
  <2>1. Under(c, n + 1, h) = {key}
    BY <1>1, UnderNext
  <2>2. QED BY <1>1, <1>2, <2>1, PlaceIs
<1>4. t = <<x>>
  BY <1>2 DEF Parts
<1> HIDE DEF x
<1>5. t \in Seq({x}) /\ Len(t) = 1 /\ t[1] = x
  BY <1>4
<1>6. t \in Seq(Entries(t))
  BY <1>5, EntriesAre
<1> HIDE DEF t
<1>7. Listed(t, q, T, c, n, h)
  BY <1>3, <1>5 DEF Listed
<1>8. QED BY <1>6, <1>7 DEF t, x

LEMMA PartsOfInner ==
    ASSUME NEW T, NEW c, Trie(T, c), Apart(c), NEW n \in 0 .. Levels - 1, NEW key \in DOMAIN c,
           Several(Under(c, n, Hash[key]))
    PROVE  LET t == Parts(T[n][Hash[key]])
           IN t \in Seq(Entries(t)) /\ \E q : Listed(t, q, T, c, n, Hash[key])
<1> DEFINE h == Hash[key]
           U == Under(c, n, h)
           B == BitsUnder(c, n, h)
           x == T[n][h]
           t == Parts(x)
           q == [j \in 1 .. Len(t) |-> CHOOSE k \in U : Index(B, Hash[k][n]) = j]
<1>1. n \in Nat /\ n \in 0 .. Levels /\ n + 1 \in 0 .. Levels /\ h \in Hashes
  BY LevelsNat, HashOf DEF Apart
<1>2. Branching(T, x, n, h, B)
  BY <1>1, PlaceIs
<1>3. Inner(x, n, B)
  BY <1>2, Zenon DEF Branching
<1>4. t = x.nodes
  BY <1>3, InnerFields DEF Parts
<1>5. B \in SUBSET Bits /\ t \in Seq(Entries(t)) /\ Len(t) = Cardinality(B)
  BY <1>3, <1>4, Zenon DEF Inner
<1> HIDE DEF t
<1>6. ASSUME NEW k \in U
      PROVE  /\ Hash[k] \in Hashes /\ Hash[k][n] \in B
             /\ Index(B, Hash[k][n]) \in 1 .. Len(t)
             /\ t[Index(B, Hash[k][n])] = T[n + 1][Hash[k]]
  <2>1. k \in DOMAIN c /\ Agree(n, Hash[k], h)
    BY Zenon DEF Under
  <2>2. Hash[k] \in Hashes
    BY <2>1, HashOf DEF Apart
  <2>3. Hash[k][n] \in B
    BY DEF BitsUnder
  <2>4. Index(B, Hash[k][n]) \in 1 .. Cardinality(B)
    BY <1>5, <2>3, IndexRange
  <2>5. x.nodes[Index(B, Hash[k][n])] = T[n + 1][Hash[k]]
    BY <1>2, <2>1, <2>2, <2>3, Zenon DEF Branching
  <2>6. QED BY <1>4, <1>5, <2>2, <2>3, <2>4, <2>5
<1>7. ASSUME NEW j \in 1 .. Len(t)
      PROVE  q[j] \in U /\ Index(B, Hash[q[j]][n]) = j
  <2>1. \E b \in B : Index(B, b) = j
    BY <1>5, IndexOnto
  <2>2. \E k \in U : Index(B, Hash[k][n]) = j
    BY <2>1, Zenon DEF BitsUnder
  <2>3. q[j] = CHOOSE k \in U : Index(B, Hash[k][n]) = j
    OBVIOUS
  <2>4. QED BY <2>2, <2>3, Zenon
<1>8. q \in [1 .. Len(t) -> U]
  BY <1>7
<1> HIDE DEF q
<1>9. \A j \in 1 .. Len(t) : t[j] = T[n + 1][Hash[q[j]]]
  BY <1>6, <1>7
<1>10. \A i, j \in 1 .. Len(t) : Hash[q[i]][n] = Hash[q[j]][n] => i = j
  BY <1>7, Zenon
<1>11. ASSUME NEW k \in U
       PROVE  \E j \in 1 .. Len(t) : Hash[q[j]][n] = Hash[k][n]
  <2> DEFINE j == Index(B, Hash[k][n])
  <2>1. j \in 1 .. Len(t) /\ Hash[k][n] \in B
    BY <1>6
  <2>2. q[j] \in U /\ Index(B, Hash[q[j]][n]) = j
    BY <1>7, <2>1
  <2>3. Hash[q[j]][n] \in B
    BY <1>6, <2>2
  <2>4. Hash[q[j]][n] = Hash[k][n]
    BY <1>5, <2>1, <2>2, <2>3, IndexOnce
  <2>5. QED BY <2>1, <2>4
<1>12. Listed(t, q, T, c, n, h)
  BY <1>8, <1>9, <1>10, <1>11, Zenon DEF Listed
<1>13. QED BY <1>5, <1>12 DEF t

\* s has the nodes of level n: one for each way that keys of c take to there.
RowIs(s, T, c, n) ==
    /\ s \in Seq(Entries(s))
    /\ \E q \in [1 .. Len(s) -> DOMAIN c] :
           /\ \A i \in 1 .. Len(s) : s[i] = T[n][Hash[q[i]]]
           /\ \A i, j \in 1 .. Len(s) : Agree(n, Hash[q[i]], Hash[q[j]]) => i = j
           /\ \A k \in DOMAIN c : \E i \in 1 .. Len(s) : Agree(n, Hash[k], Hash[q[i]])

LEMMA RowNext ==
    ASSUME NEW T, NEW c, Trie(T, c), Apart(c), NEW n \in 0 .. Levels - 1, NEW s, RowIs(s, T, c, n)
    PROVE  RowIs(NextLevel(s), T, c, n + 1)
<1> DEFINE m == Len(s)
           ps == [i \in DOMAIN s |-> Parts(s[i])]
           r == NextLevel(s)
<1>1. s \in Seq(Entries(s)) /\ m \in Nat /\ DOMAIN s = 1 .. m /\ n \in Nat
  BY LevelsNat DEF RowIs
<1>2. PICK q \in [1 .. m -> DOMAIN c] :
           /\ \A i \in 1 .. m : s[i] = T[n][Hash[q[i]]]
           /\ \A i, j \in 1 .. m : Agree(n, Hash[q[i]], Hash[q[j]]) => i = j
           /\ \A k \in DOMAIN c : \E i \in 1 .. m : Agree(n, Hash[k], Hash[q[i]])
  BY Zenon DEF RowIs
<1>3. r = FlattenSeq(ps)
  BY Zenon DEF NextLevel, Parts
<1>4. Len(ps) = m /\ ps = [i \in 1 .. m |-> Parts(s[i])]
  BY <1>1
<1> DEFINE K == [i \in 1 .. m |-> CHOOSE f : Listed(ps[i], f, T, c, n, Hash[q[i]])]
<1>5. ASSUME NEW i \in 1 .. m
      PROVE  ps[i] \in Seq(Entries(ps[i])) /\ Listed(ps[i], K[i], T, c, n, Hash[q[i]])
  <2>1. ps[i] = Parts(T[n][Hash[q[i]]]) /\ q[i] \in DOMAIN c
    BY <1>2, <1>4
  <2>2. q[i] \in Under(c, n, Hash[q[i]])
    BY <2>1, AgreeSame DEF Under
  <2>3. ps[i] \in Seq(Entries(ps[i])) /\ \E f : Listed(ps[i], f, T, c, n, Hash[q[i]])
    <3> HIDE DEF ps
    <3>1. CASE Under(c, n, Hash[q[i]]) = {q[i]}
      BY <2>1, <3>1, PartsOfLeaf
    <3>2. CASE Several(Under(c, n, Hash[q[i]]))
      BY <2>1, <3>2, PartsOfInner
    <3>3. QED BY <2>2, <3>1, <3>2, Cases
  <2>4. K[i] = CHOOSE f : Listed(ps[i], f, T, c, n, Hash[q[i]])
    OBVIOUS
  <2>5. QED BY <2>3, <2>4, Zenon
<1> DEFINE S == UNION {Entries(ps[i]) : i \in 1 .. m}
<1>6. ps \in [1 .. m -> Seq(S)]
  <2>1. ASSUME NEW i \in 1 .. m
        PROVE  ps[i] \in Seq(S)
    <3> DEFINE t == ps[i]
               E == Entries(ps[i])
    <3>1. t \in Seq(E) /\ E \subseteq S
      BY <1>5
    <3> HIDE DEF t, E, S
    <3>2. t \in Seq(S)
      BY <3>1
    <3>3. QED BY <3>2 DEF t
  <2> HIDE DEF S, K
  <2>2. QED BY <1>4, <2>1
<1> HIDE DEF K, ps, S
<1> HIDE DEF r
<1>7. PICK w : Flat(r, w, ps, m)
  <2>1. \E w : Flat(FlattenSeq(ps), w, ps, m)
    BY <1>1, <1>4, <1>6, FlattenIs
  <2>2. QED BY <1>3, <2>1
<1>8. /\ r \in Seq(Entries(r)) /\ Len(r) \in Nat
      /\ w \in [1 .. Len(r) -> Nat \X Nat]
      /\ \A p \in 1 .. Len(r) :
             /\ w[p][1] \in 1 .. m /\ w[p][2] \in 1 .. Len(ps[w[p][1]])
             /\ r[p] = ps[w[p][1]][w[p][2]]
      /\ \A p, o \in 1 .. Len(r) : w[p] = w[o] => p = o
      /\ \A i \in 1 .. m : \A j \in 1 .. Len(ps[i]) : \E p \in 1 .. Len(r) : w[p] = <<i, j>>
  <2>1. r \in Seq(Entries(r))
    BY <1>7, Zenon DEF Flat
  <2>2. Len(r) \in Nat
    BY <2>1
  <2>3. QED BY <1>7, <2>2, Zenon DEF Flat
<1>9. ASSUME NEW i \in 1 .. m, NEW j \in 1 .. Len(ps[i])
      PROVE  /\ K[i][j] \in DOMAIN c /\ Agree(n, Hash[K[i][j]], Hash[q[i]])
             /\ ps[i][j] = T[n + 1][Hash[K[i][j]]]
             /\ \A l \in 1 .. Len(ps[i]) : Hash[K[i][j]][n] = Hash[K[i][l]][n] => j = l
  <2>1. Listed(ps[i], K[i], T, c, n, Hash[q[i]])
    BY <1>5
  <2>2. /\ K[i] \in [1 .. Len(ps[i]) -> Under(c, n, Hash[q[i]])]
        /\ ps[i][j] = T[n + 1][Hash[K[i][j]]]
        /\ \A l \in 1 .. Len(ps[i]) : Hash[K[i][j]][n] = Hash[K[i][l]][n] => j = l
    BY <2>1, Zenon DEF Listed
  <2>3. K[i][j] \in Under(c, n, Hash[q[i]])
    BY <2>2
  <2>4. QED BY <2>2, <2>3 DEF Under
<1> DEFINE v == [p \in 1 .. Len(r) |-> K[w[p][1]][w[p][2]]]
<1>10. v \in [1 .. Len(r) -> DOMAIN c]
  BY <1>8, <1>9
<1>11. ASSUME NEW p \in 1 .. Len(r)
       PROVE  r[p] = T[n + 1][Hash[v[p]]]
  <2> DEFINE i == w[p][1]
             j == w[p][2]
  <2>1. i \in 1 .. m /\ j \in 1 .. Len(ps[i]) /\ r[p] = ps[i][j] /\ v[p] = K[i][j]
    BY <1>8
  <2> HIDE DEF i, j, v
  <2>2. QED BY <1>9, <2>1
<1>12. ASSUME NEW p \in 1 .. Len(r), NEW o \in 1 .. Len(r), Agree(n + 1, Hash[v[p]], Hash[v[o]])
       PROVE  p = o
  <2> DEFINE i == w[p][1]
             j == w[p][2]
             a == w[o][1]
             b == w[o][2]
             H == Hash[v[p]]
             G == Hash[v[o]]
  <2>1. i \in 1 .. m /\ j \in 1 .. Len(ps[i]) /\ a \in 1 .. m /\ b \in 1 .. Len(ps[a])
    BY <1>8
  <2>2. v[p] = K[i][j] /\ v[o] = K[a][b]
    OBVIOUS
  <2>3. w[p] = <<i, j>> /\ w[o] = <<a, b>>
    <3>1. w[p] \in Nat \X Nat /\ w[o] \in Nat \X Nat
      BY <1>8
    <3>2. QED BY <3>1
  <2> HIDE DEF i, j, a, b, v
  <2>4. Agree(n + 1, H, G)
    BY <1>12
  <2>5. Agree(n, H, Hash[q[i]]) /\ Agree(n, G, Hash[q[a]])
    BY <1>9, <2>1, <2>2
  <2> HIDE DEF H, G
  <2>6. Agree(n, H, G) /\ H[n] = G[n]
    BY <1>1, <2>4, AgreeNext
  <2>7. Agree(n, Hash[q[i]], Hash[q[a]])
    <3>1. Agree(n, Hash[q[i]], H)
      BY <2>5, AgreeBack
    <3>2. Agree(n, Hash[q[i]], G)
      BY <2>6, <3>1, AgreeOn
    <3>3. QED BY <2>5, <3>2, AgreeOn
  <2>8. i = a
    BY <1>2, <2>1, <2>7
  <2>9. j = b
    BY <1>9, <2>1, <2>2, <2>6, <2>8 DEF H, G
  <2>10. w[p] = w[o]
    BY <2>3, <2>8, <2>9
  <2>11. QED BY <1>8, <2>10
<1>13. ASSUME NEW k \in DOMAIN c
       PROVE  \E p \in 1 .. Len(r) : Agree(n + 1, Hash[k], Hash[v[p]])
  <2>1. PICK i \in 1 .. m : Agree(n, Hash[k], Hash[q[i]])
    BY <1>2
  <2>2. k \in Under(c, n, Hash[q[i]])
    BY <2>1 DEF Under
  <2>3. Listed(ps[i], K[i], T, c, n, Hash[q[i]])
    BY <1>5
  <2>4. PICK j \in 1 .. Len(ps[i]) : Hash[K[i][j]][n] = Hash[k][n]
    BY <2>2, <2>3, Zenon DEF Listed
  <2>5. PICK p \in 1 .. Len(r) : w[p] = <<i, j>>
    BY <1>8
  <2>6. v[p] = K[i][j]
    BY <2>5
  <2> DEFINE H == Hash[K[i][j]]
             G == Hash[q[i]]
             F == Hash[k]
  <2>7. Agree(n, H, G) /\ Agree(n, F, G) /\ F[n] = H[n]
    BY <1>9, <2>1, <2>4
  <2> HIDE DEF H, G, F, v
  <2>8. Agree(n, G, H)
    BY <2>7, AgreeBack
  <2>9. Agree(n, F, H)
    BY <2>7, <2>8, AgreeOn
  <2>10. Agree(n + 1, F, H)
    BY <1>1, <2>7, <2>9, AgreeNext
  <2>11. QED BY <2>6, <2>10 DEF F, H
<1> HIDE DEF v
<1>14. \A p, o \in 1 .. Len(r) : Agree(n + 1, Hash[v[p]], Hash[v[o]]) => p = o
  BY <1>12
<1>15. RowIs(r, T, c, n + 1)
  BY <1>8, <1>10, <1>11, <1>13, <1>14, Zenon DEF RowIs
<1>16. QED BY <1>15 DEF r

LEMMA RowFirst ==
    ASSUME NEW T, NEW c, Trie(T, c), Apart(c), NEW root, \A h \in Hashes : T[0][h] = root
    PROVE  RowIs(IF root.kind = "empty" THEN << >> ELSE <<root>>, T, c, 0)
<1> DEFINE s == IF root.kind = "empty" THEN << >> ELSE <<root>>
<1>1. 0 \in 0 .. Levels
  BY LevelsNat
<1>2. \A k \in DOMAIN c : Hash[k] \in Hashes
  BY HashOf DEF Apart
<1>3. CASE DOMAIN c = {}
  <2>1. PICK h \in Hashes : TRUE
    <3>1. [i \in 0 .. Levels - 1 |-> 0] \in Hashes
      BY MapAssumption DEF Hashes, Bits
    <3>2. QED BY <3>1
  <2>2. Under(c, 0, h) = {}
    BY <1>3 DEF Under
  <2>3. root.kind = "empty"
    BY <1>1, <2>1, <2>2, PlaceIs, Kinds
  <2>4. s = << >>
    BY <2>3
  <2> HIDE DEF s
  <2> DEFINE q == [i \in 1 .. Len(s) |-> 0]
  <2>5. s \in Seq(Entries(s)) /\ Len(s) = 0 /\ q \in [1 .. Len(s) -> DOMAIN c]
    BY <2>4
  <2> HIDE DEF q
  <2>6. RowIs(s, T, c, 0)
    BY <1>3, <2>5 DEF RowIs
  <2>7. QED BY <2>6 DEF s
<1>4. CASE DOMAIN c # {}
  <2>1. PICK key \in DOMAIN c : TRUE
    BY <1>4
  <2> DEFINE h == Hash[key]
             U == Under(c, 0, h)
  <2>2. key \in U /\ h \in Hashes
    BY <1>2, AgreeNone DEF Under
  <2>3. root = T[0][h]
    BY <2>2
  <2>4. root.kind # "empty"
    <3>1. CASE U = {key}
      BY <1>1, <2>2, <2>3, <3>1, PlaceIs, Kinds
    <3>2. CASE Several(U)
      <4>1. Branching(T, root, 0, h, BitsUnder(c, 0, h))
        BY <1>1, <2>2, <2>3, <3>2, PlaceIs
      <4>2. Inner(root, 0, BitsUnder(c, 0, h))
        BY <4>1, Zenon DEF Branching
      <4>3. QED BY <4>2, InnerFields
    <3>3. QED BY <2>2, <3>1, <3>2, Cases
  <2>5. s = <<root>>
    BY <2>4
  <2> HIDE DEF s, h, U
  <2> DEFINE q == [i \in 1 .. 1 |-> key]
  <2>6. s \in Seq({root}) /\ Len(s) = 1 /\ s[1] = root
    BY <2>5
  <2>7. s \in Seq(Entries(s))
    BY <2>6, EntriesAre
  <2>8. RowIs(s, T, c, 0)
    <3>1. q \in [1 .. Len(s) -> DOMAIN c]
      BY <2>6
    <3>2. \A i \in 1 .. Len(s) : s[i] = T[0][Hash[q[i]]]
      BY <1>2, <2>6
    <3>3. \A i, j \in 1 .. Len(s) : Agree(0, Hash[q[i]], Hash[q[j]]) => i = j
      BY <2>6
    <3>4. \A k \in DOMAIN c : \E i \in 1 .. Len(s) : Agree(0, Hash[k], Hash[q[i]])
      BY <2>6, AgreeNone
    <3> HIDE DEF q
    <3>5. QED BY <2>7, <3>1, <3>2, <3>3, <3>4, Zenon DEF RowIs
  <2>9. QED BY <2>8 DEF s
<1>5. QED BY <1>3, <1>4

LEMMA RowAll ==
    ASSUME NEW T, NEW c, Trie(T, c), Apart(c), NEW f, NEW a, Running(f, Levels, "row", 0, a), RowIs(a, T, c, 0)
    PROVE  RowIs(f[Levels], T, c, Levels)
<1> DEFINE Failing == {n \in 0 .. Levels : ~RowIs(f[n], T, c, n)}
<1>1. SUFFICES ASSUME Failing # {} PROVE FALSE
  <2>1. Levels \in 0 .. Levels
    BY LevelsNat
  <2>2. QED BY <2>1
<1>2. PICK m \in Failing : \A j \in Failing : m <= j
  <2>1. Failing \in SUBSET Nat
    BY LevelsNat
  <2> HIDE DEF Failing
  <2>2. QED BY <1>1, <2>1, Least
<1>3. f[0] = a /\ \A l \in 1 .. Levels : f[l] = NextLevel(f[l - 1])
  <2>1. f[0] = a /\ \A l \in 1 .. Levels : f[l] = Step("row", 0, f[l - 1], l)
    BY LevelsNat, RunningIs
  <2>2. QED BY <2>1, StepRow
<1>4. m # 0
  BY <1>2, <1>3
<1> DEFINE l == m - 1
<1>5. l \in 0 .. Levels - 1 /\ l \notin Failing /\ l \in 0 .. Levels /\ m \in 1 .. Levels /\ l + 1 = m
  <2>1. l \in 0 .. Levels - 1 /\ l \in 0 .. Levels /\ m \in 1 .. Levels /\ l + 1 = m /\ ~(m <= l)
    BY <1>2, <1>4, LevelsNat
  <2> HIDE DEF l
  <2>2. QED BY <1>2, <2>1
<1>6. RowIs(f[l], T, c, l)
  BY <1>5
<1>7. f[m] = NextLevel(f[l])
  BY <1>3, <1>5
<1> HIDE DEF l
<1>8. RowIs(f[m], T, c, l + 1)
  BY <1>5, <1>6, <1>7, RowNext
<1>9. QED BY <1>2, <1>5, <1>8

\* iterator lists each key once.
LEMMA KeysIs ==
    ASSUME NEW c, Apart(c), NEW root, Holds(root, c)
    PROVE  /\ ToSet(KeysOf(root)) = DOMAIN c
           /\ IsFiniteSet(DOMAIN c) /\ Len(KeysOf(root)) = Cardinality(DOMAIN c)
<1>1. PICK T : Trie(T, c) /\ \A h \in Hashes : T[0][h] = root
  BY Zenon DEF Holds
<1> DEFINE a == IF root.kind = "empty" THEN << >> ELSE <<root>>
           keys == KeysOf(root)
<1>2. PICK f : Running(f, Levels, "row", 0, a) /\ keys = [i \in DOMAIN f[Levels] |-> f[Levels][i].key]
  BY KeysRun
<1> DEFINE s == f[Levels]
<1>3. RowIs(a, T, c, 0)
  BY <1>1, RowFirst
<1> HIDE DEF a, keys
<1>4. RowIs(s, T, c, Levels)
  BY <1>1, <1>2, <1>3, RowAll
<1>5. keys = [i \in DOMAIN s |-> s[i].key]
  BY <1>2
<1> HIDE DEF s
<1>6. s \in Seq(Entries(s))
  BY <1>4, Zenon DEF RowIs
<1>7. Len(s) \in Nat /\ DOMAIN s = 1 .. Len(s)
  BY <1>6
<1>8. PICK q \in [1 .. Len(s) -> DOMAIN c] :
           /\ \A i \in 1 .. Len(s) : s[i] = T[Levels][Hash[q[i]]]
           /\ \A i, j \in 1 .. Len(s) : Agree(Levels, Hash[q[i]], Hash[q[j]]) => i = j
           /\ \A k \in DOMAIN c : \E i \in 1 .. Len(s) : Agree(Levels, Hash[k], Hash[q[i]])
  BY <1>4, Zenon DEF RowIs
<1>9. \A k \in DOMAIN c : Hash[k] \in Hashes
  BY HashOf DEF Apart
<1>10. ASSUME NEW i \in 1 .. Len(s)
       PROVE  s[i].key = q[i]
  <2> DEFINE h == Hash[q[i]]
  <2>1. q[i] \in DOMAIN c /\ h \in Hashes
    BY <1>9
  <2>2. q[i] \in Under(c, Levels, h)
    BY <2>1, AgreeSame DEF Under
  <2>3. Under(c, Levels, h) = {q[i]}
    BY <2>1, <2>2, UnderLast
  <2>4. s[i] = Leaf(q[i], c[q[i]])
    <3>1. Levels \in 0 .. Levels
      BY LevelsNat
    <3>2. QED BY <1>1, <1>8, <2>1, <2>2, <2>3, <3>1, PlaceIs
  <2>5. QED BY <2>4, Kinds
<1>11. keys = [i \in 1 .. Len(s) |-> q[i]]
  BY <1>5, <1>7, <1>10
<1>12. ASSUME NEW k \in DOMAIN c
       PROVE  \E i \in 1 .. Len(s) : q[i] = k
  <2>1. PICK i \in 1 .. Len(s) : Agree(Levels, Hash[k], Hash[q[i]])
    BY <1>8
  <2>2. q[i] \in DOMAIN c
    OBVIOUS
  <2>3. Hash[k] = Hash[q[i]]
    BY <1>9, <2>1, <2>2, AgreeAll
  <2>4. QED BY <2>2, <2>3 DEF Apart
<1>13. \A i, j \in 1 .. Len(s) : q[i] = q[j] => i = j
  BY <1>8, AgreeSame
<1>14. keys \in Seq(DOMAIN c) /\ Len(keys) = Len(s)
  BY <1>7, <1>11
<1>15. ToSet(keys) = DOMAIN c
  <2>1. ToSet(keys) = {q[i] : i \in 1 .. Len(s)}
    BY <1>7, <1>11 DEF ToSet
  <2>2. QED BY <1>12, <2>1
<1>16. IsFiniteSet(DOMAIN c) /\ Cardinality(DOMAIN c) = Len(s)
  <2> DEFINE N == 1 .. Len(s)
             D == DOMAIN c
  <2>1. IsFiniteSet(N) /\ Cardinality(N) = Len(s)
    <3> DEFINE m == Len(s)
    <3>1. m \in Nat /\ m \in Int /\ 1 \in Int
      BY <1>7
    <3> HIDE DEF m
    <3>2. IsFiniteSet(1 .. m) /\ Cardinality(1 .. m) = IF 1 > m THEN 0 ELSE m - 1 + 1
      BY <3>1, FS_Interval
    <3>3. IsFiniteSet(1 .. m) /\ Cardinality(1 .. m) = m
      BY <3>1, <3>2
    <3>4. QED BY <3>3 DEF m
  <2>2. q \in [N -> D] /\ (\A i, j \in N : q[i] = q[j] => i = j) /\ \A k \in D : \E i \in N : q[i] = k
    BY <1>12, <1>13
  <2> HIDE DEF N, D
  <2>3. q \in Bijection(N, D)
    <3>1. q \in Injection(N, D)
      BY <2>2 DEF Injection, IsInjective
    <3>2. q \in Surjection(N, D)
      BY <2>2 DEF Surjection
    <3>3. QED BY <3>1, <3>2 DEF Bijection
  <2>4. ExistsBijection(N, D)
    BY <2>3 DEF ExistsBijection
  <2>5. IsFiniteSet(D) /\ Cardinality(D) = Cardinality(N)
    BY <2>1, <2>4, FS_Bijection
  <2>6. QED BY <2>1, <2>5 DEF D
<1>17. QED BY <1>14, <1>15, <1>16 DEF keys

-----------------------------------------------------------------------------
(* The specification.                                                      *)

\* The nodes are the trie of the function, and no two of its keys have the same hash.
MapInv ==
    /\ map = [count |-> Cardinality(DOMAIN content), root |-> map.root]
    /\ Apart(content)
    /\ Holds(map.root, content)

LEMMA MapInitInv == MapInit => MapInv
<1> SUFFICES ASSUME MapInit PROVE MapInv
  OBVIOUS
<1>1. map = [count |-> 0, root |-> Empty] /\ content = [k \in {} |-> Missing] /\ DOMAIN content = {}
  BY DEF MapInit
<1>2. Apart(content)
  BY <1>1 DEF Apart
<1> DEFINE T == [n \in 0 .. Levels |-> [h \in Hashes |-> Empty]]
<1>3. Trie(T, content)
  <2>1. ASSUME NEW n \in 0 .. Levels, NEW h \in Hashes
        PROVE  Place(T, content, n, h) /\ \A g \in Hashes : Agree(n, g, h) => T[n][g] = T[n][h]
    <3>1. Under(content, n, h) = {}
      BY <1>1 DEF Under
    <3>2. T[n][h] = Empty /\ \A g \in Hashes : T[n][g] = Empty
      OBVIOUS
    <3> HIDE DEF T
    <3>3. QED BY <3>1, <3>2 DEF Place, Several
  <2> HIDE DEF T
  <2>2. QED BY <2>1, Zenon DEF Trie
<1>4. \A h \in Hashes : T[0][h] = map.root
  BY <1>1, LevelsNat
<1>5. Holds(map.root, content)
  <2> HIDE DEF T
  <2>1. QED BY <1>3, <1>4, Zenon DEF Holds
<1>6. Cardinality(DOMAIN content) = 0
  BY <1>1, FS_EmptySet
<1>7. QED BY <1>1, <1>2, <1>5, <1>6 DEF MapInv

LEMMA MapNextInv == MapInv /\ [MapNext]_mapVars => MapInv'
<1> SUFFICES ASSUME MapInv, [MapNext]_mapVars PROVE MapInv'
  OBVIOUS
<1>1. CASE UNCHANGED mapVars
  BY <1>1 DEF MapInv, mapVars
<1>2. ASSUME NEW key \in Keys, NEW val \in Values, Assoc(key, val)
      PROVE  MapInv'
  <2> DEFINE c == content
             e == With(content, key, val)
             r == AssocNode(map.root, key, val)
  <2>1. r.ok /\ map' = [count |-> map.count + (IF r.added THEN 1 ELSE 0), root |-> r.node] /\ content' = e
    BY <1>2, Zenon DEF Assoc
  <2>2. map.count = Cardinality(DOMAIN c) /\ Apart(c) /\ Holds(map.root, c)
    BY DEF MapInv
  <2>3. ~Collides(c, key) /\ (r.added <=> key \notin DOMAIN c) /\ Holds(r.node, e)
    BY <2>1, <2>2, AssocIs
  <2>4. IsFiniteSet(DOMAIN c)
    BY <2>2, KeysIs
  <2>5. DOMAIN e = DOMAIN c \cup {key}
    BY WithDomain
  <2>6. Cardinality(DOMAIN e) = Cardinality(DOMAIN c) + (IF r.added THEN 1 ELSE 0)
    <3>1. Cardinality(DOMAIN c) \in Nat
      BY <2>4, FS_CardinalityType
    <3>2. CASE key \in DOMAIN c
      <4>1. DOMAIN e = DOMAIN c
        BY <2>5, <3>2
      <4>2. QED BY <2>3, <3>1, <3>2, <4>1
    <3>3. CASE key \notin DOMAIN c
      <4>1. Cardinality(DOMAIN c \cup {key}) = Cardinality(DOMAIN c) + 1
        BY <2>4, <3>3, FS_AddElement
      <4>2. QED BY <2>3, <2>5, <3>3, <4>1
    <3>4. QED BY <3>2, <3>3
  <2>7. Apart(e)
    BY <2>2, <2>3, <2>5 DEF Apart, Collides
  <2> HIDE DEF c, e, r
  <2>8. map' = [count |-> Cardinality(DOMAIN e), root |-> r.node] /\ map'.root = r.node
    BY <2>1, <2>2, <2>6
  <2>9. QED BY <2>1, <2>3, <2>7, <2>8 DEF MapInv
<1>3. QED BY <1>1, <1>2 DEF MapNext

LEMMA MapInvariant == MapSpec => []MapInv
BY MapInitInv, MapNextInv, PTL DEF MapSpec

\* For every width, number of levels and hash of the keys: get, contains and length
\* of the trie agree with the function, and iterator lists each key once (map.cc).
THEOREM MapIsAFunction == MapSpec => []MapIsFunction
<1>1. MapInv => MapIsFunction
  <2> SUFFICES ASSUME MapInv PROVE MapIsFunction
    OBVIOUS
  <2>1. map.count = Cardinality(DOMAIN content) /\ Apart(content) /\ Holds(map.root, content)
    BY DEF MapInv
  <2>2. PICK T : Trie(T, content) /\ \A h \in Hashes : T[0][h] = map.root
    BY <2>1, Zenon DEF Holds
  <2>3. ASSUME NEW k \in Keys
        PROVE  /\ HasKey(map, k) <=> k \in DOMAIN content
               /\ Get(map, k) = IF k \in DOMAIN content THEN content[k] ELSE Missing
    <3>1. Hash[k] \in Hashes
      BY HashOf
    <3>2. Find(map.root, k) = IF k \in DOMAIN content THEN Leaf(k, content[k]) ELSE Empty
      BY <2>1, <2>2, <3>1, FindIs
    <3>3. Leaf(k, content[k]) # Empty /\ Leaf(k, content[k]).val = content[k]
      BY DEF Leaf, Empty
    <3>4. QED BY <3>2, <3>3 DEF HasKey, Get
  <2>4. ToSet(KeysOf(map.root)) = DOMAIN content /\ Len(KeysOf(map.root)) = map.count
    BY <2>1, KeysIs
  <2>5. QED BY <2>1, <2>3, <2>4, Zenon DEF MapIsFunction
<1>2. QED BY <1>1, MapInvariant, PTL

\* For all of them too: assoc throws exactly when another key of the map has the
\* same hash, so that it hides or loses none (LeafNode::assoc in map.cc).
THEOREM CollisionsThrow == MapSpec => []ThrowsOnCollision
<1>1. MapInv => ThrowsOnCollision
  <2> SUFFICES ASSUME MapInv, NEW key \in Keys, NEW val \in Values
               PROVE  AssocNode(map.root, key, val).ok
                          <=> ~ \E k \in DOMAIN content \ {key} : Hash[k] = Hash[key]
    BY Zenon DEF ThrowsOnCollision
  <2>1. Apart(content) /\ Holds(map.root, content)
    BY DEF MapInv
  <2>2. AssocNode(map.root, key, val).ok <=> ~Collides(content, key)
    BY <2>1, AssocIs
  <2>3. QED BY <2>2 DEF Collides
<1>2. QED BY <1>1, MapInvariant, PTL
=============================================================================
