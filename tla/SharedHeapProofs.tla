-------------------------- MODULE SharedHeapProofs --------------------------
(***************************************************************************)
(* SweptAlone, for any number of blocks and any capacity: no block is      *)
(* swept while the mutator may allocate from it.  LiveKept, MarksCleared   *)
(* and NewHeadHasRoom, up to the first step that frees an object in use:   *)
(* such a step is a sweep of a block that an earlier sweep has left out,   *)
(* or of an object whose mark an allocation has overwritten, and no other. *)
(***************************************************************************)
EXTENDS SharedHeap, SequenceTheorems, WellFoundedInduction, TLAPS

(***************************************************************************)
(* The parts of the state, and that a block is in one place at most.       *)
(***************************************************************************)
Typed ==
  /\ gpc \in {"idle", "mark", "start", "visit", "sweeping", "step"}
  /\ cur \in IF gpc \in {"visit", "sweeping", "step"} THEN Blocks ELSE {None}
  /\ pass \in {"rest", "full"}
  /\ todo \in SUBSET Objects
  /\ mask \in BOOLEAN
  /\ dirty \in [Blocks -> BOOLEAN]
  /\ used \in [Blocks -> SUBSET Slots]
  /\ mark \in [Blocks -> SUBSET Slots]
  /\ mpc \in {"run", "sweep", "alloc", "mark"}
  /\ pending \in IF mpc = "mark" THEN [slot : Slots, marks : SUBSET Slots] ELSE {None}
  /\ kept \in SUBSET Objects
  /\ missed \in SUBSET Blocks
  /\ overwritten \in SUBSET Objects

Placed ==
  /\ rest \in Seq(Blocks) /\ full \in Seq(Blocks) /\ empty \in Seq(Blocks)
  /\ IsInjective(rest) /\ IsInjective(full) /\ IsInjective(empty)
  /\ ToSet(rest) \cap ToSet(full) = {}
  /\ ToSet(rest) \cap ToSet(empty) = {}
  /\ ToSet(full) \cap ToSet(empty) = {}
  /\ head \in Blocks \cup {None}
  /\ head \notin ToSet(rest) \cup ToSet(full) \cup ToSet(empty)
  /\ mpc # "run" => head # None

(***************************************************************************)
(* A head the mutator allocates from is clean for this cycle, so that the  *)
(* collector passes it by.                                                 *)
(***************************************************************************)
HeadClean == mpc # "sweep" /\ head # None => dirty[head] = mask

(***************************************************************************)
(* The collector walks blocks that are in use, and has set dirty_ of the   *)
(* block that it sweeps.                                                   *)
(***************************************************************************)
InUse == ToSet(rest) \cup ToSet(full) \cup ({head} \ {None})

Walked ==
  /\ gpc \in {"visit", "sweeping", "step"} => cur \in InUse
  /\ gpc = "sweeping" => dirty[cur] = mask

(***************************************************************************)
(* Between the read and the write of a word of marks the collector marks,  *)
(* the slot is taken, and marks are only added.                            *)
(***************************************************************************)
Reading ==
  mpc = "mark" =>
    /\ gpc = "mark"
    /\ pending.slot \in used[head]
    /\ pending.marks \subseteq mark[head]

(***************************************************************************)
(* What holds of a block no sweep has left out.  A sweep of it is owed     *)
(* from the flip of the mask to block_t::sweep: until then what is in use  *)
(* in it has its mark, or the mark was overwritten, and after that no mark *)
(* is left.                                                                *)
(***************************************************************************)
Blank(b) ==
  /\ used[b] = {} /\ mark[b] = {}
  /\ \A s \in Slots : <<b, s>> \notin kept /\ <<b, s>> \notin todo

Owed(b) == dirty[b] # mask \/ (gpc = "sweeping" /\ cur = b)

Kept(b) ==
  /\ b \in ToSet(rest) \cup ToSet(full) \cup {head} \/ Blank(b)
  /\ \A s \in Slots : <<b, s>> \in kept => s \in used[b] \/ <<b, s>> \in overwritten

Collected(b) ==
  /\ gpc = "mark" =>
       \A s \in Slots : <<b, s>> \in kept \ overwritten => s \in mark[b] \/ <<b, s>> \in todo
  /\ gpc # "mark" /\ Owed(b) => \A s \in Slots : <<b, s>> \in kept \ overwritten => s \in mark[b]
  /\ gpc # "mark" /\ ~Owed(b) => mark[b] = {}
  /\ gpc \in {"idle", "mark"} /\ b \in ToSet(rest) \cup ToSet(full) => dirty[b] = mask
  /\ gpc = "mark" /\ b = head /\ dirty[b] # mask => Blank(b)

Sweeping ==
  /\ gpc # "mark" => todo = {}
  /\ \A b \in Blocks \ missed : Kept(b) /\ Collected(b)

Framed == Typed /\ Placed /\ HeadClean /\ Walked /\ SweptAlone /\ Reading

IInv == Framed /\ Sweeping

\* The steps up to the first that frees an object in use.
UpToALoss == Init /\ [][Intact /\ Next]_vars
-----------------------------------------------------------------------------
(***************************************************************************)
(* Lists.                                                                  *)
(***************************************************************************)

\* A set of naturals that is not empty has a least element.
Below == {pair \in Nat \X Nat : pair[1] < pair[2]}

LEMMA Least == ASSUME NEW S \in SUBSET Nat, S # {}
               PROVE  \E n \in S : \A m \in S : n <= m
<1>1. IsWellFoundedOn(Below, Nat)
  BY Zenon, NatLessThanWellFounded DEF OpToRel, Below
<1>2. PICK n \in S : \A m \in S : <<m, n>> \notin Below
  BY Zenon, <1>1, WFMin
<1>3. ASSUME NEW m \in S
      PROVE  n <= m
  <2>1. <<m, n>> \in Nat \X Nat /\ <<m, n>> \notin Below
    BY <1>2
  <2>2. ~(m < n)
    BY <2>1 DEF Below
  <2>3. QED BY <2>2
<1>4. QED BY <1>3

LEMMA Members == ASSUME NEW s \in Seq(Blocks)
                 PROVE  /\ \A b : b \in ToSet(s) <=> \E i \in 1..Len(s) : s[i] = b
                        /\ ToSet(s) \subseteq Blocks
                        /\ IsInjective(s) <=> \A i, j \in 1..Len(s) : s[i] = s[j] => i = j
<1>1. DOMAIN s = 1..Len(s) /\ \A i \in 1..Len(s) : s[i] \in Blocks
  OBVIOUS
<1>2. \A b : b \in ToSet(s) <=> \E i \in 1..Len(s) : s[i] = b
  BY Zenon, <1>1 DEF ToSet
<1>3. IsInjective(s) <=> \A i, j \in 1..Len(s) : s[i] = s[j] => i = j
  BY Zenon, <1>1 DEF IsInjective
<1>4. QED BY <1>1, <1>2, <1>3

\* The first block with room, if there is any.
LEMMA FirstIsIndex == ASSUME NEW s \in Seq(Blocks)
                      PROVE  /\ SelectInSeq(s, HasRoom) \in 0..Len(s)
                             /\ SelectInSeq(s, HasRoom) # 0 => HasRoom(s[SelectInSeq(s, HasRoom)])
<1> DEFINE I == {i \in 1..Len(s) : HasRoom(s[i])}
<1>1. CASE I = {}
  BY <1>1 DEF SelectInSeq
<1>2. CASE I # {}
  <2>1. \E n \in I : \A m \in I : n <= m
    <3> HIDE DEF I
    <3>1. I \in SUBSET Nat
      BY DEF I
    <3>2. QED BY <1>2, <3>1, Least
  <2>2. Min(I) \in I
    BY Zenon, <2>1 DEF Min
  <2>3. SelectInSeq(s, HasRoom) = Min(I)
    BY <1>2 DEF SelectInSeq
  <2>4. QED BY <2>2, <2>3
<1>3. QED BY <1>1, <1>2

\* A block put in front of a list.
LEMMA Pushed == ASSUME NEW s \in Seq(Blocks), NEW b \in Blocks
                PROVE  /\ <<b>> \o s \in Seq(Blocks)
                       /\ ToSet(<<b>> \o s) = ToSet(s) \cup {b}
                       /\ IsInjective(s) /\ b \notin ToSet(s) => IsInjective(<<b>> \o s)
<1> DEFINE t == <<b>> \o s
<1>1. /\ t \in Seq(Blocks) /\ Len(t) = Len(s) + 1 /\ t[1] = b
      /\ \A i \in 1..Len(s) : t[i + 1] = s[i]
  OBVIOUS
<1>2. \A i \in 1..Len(t) : i = 1 \/ (i - 1 \in 1..Len(s) /\ t[i] = s[i - 1])
  BY <1>1
<1> HIDE DEF t
<1>3. ToSet(t) = ToSet(s) \cup {b}
  <2>1. ASSUME NEW c \in ToSet(t)
        PROVE  c \in ToSet(s) \cup {b}
    <3>1. PICK i \in 1..Len(t) : t[i] = c
      BY <1>1, Members
    <3>2. QED BY <1>1, <1>2, <3>1, Members
  <2>2. ASSUME NEW c \in ToSet(s)
        PROVE  c \in ToSet(t)
    <3>1. PICK i \in 1..Len(s) : s[i] = c
      BY Members
    <3>2. i + 1 \in 1..Len(t) /\ t[i + 1] = c
      BY <1>1, <3>1
    <3>3. QED BY <1>1, <3>2, Members
  <2>3. b \in ToSet(t)
    <3>1. 1 \in 1..Len(t) /\ t[1] = b
      BY <1>1
    <3>2. QED BY <1>1, <3>1, Members
  <2>4. QED BY <2>1, <2>2, <2>3
<1>4. ASSUME IsInjective(s), b \notin ToSet(s)
      PROVE  IsInjective(t)
  <2>1. /\ \A i, j \in 1..Len(s) : s[i] = s[j] => i = j
        /\ \A i \in 1..Len(s) : s[i] # b
    BY <1>4, Members
  <2>2. ASSUME NEW i \in 1..Len(t), NEW j \in 1..Len(t), t[i] = t[j]
        PROVE  i = j
    <3>1. CASE i = 1
      BY <1>1, <1>2, <2>1, <2>2, <3>1
    <3>2. CASE i # 1
      <4>1. i - 1 \in 1..Len(s) /\ t[i] = s[i - 1]
        BY <1>2, <3>2
      <4>2. j # 1
        BY <1>1, <2>1, <2>2, <4>1
      <4>3. j - 1 \in 1..Len(s) /\ t[j] = s[j - 1]
        BY <1>2, <4>2
      <4>4. i - 1 = j - 1
        BY <2>1, <2>2, <4>1, <4>3
      <4>5. QED BY <4>4
    <3>3. QED BY <3>1, <3>2
  <2>3. QED BY <1>1, <2>2, Members
<1>5. QED BY Zenon, <1>1, <1>3, <1>4 DEF t

\* What is left of a list without its first block.
LEMMA Popped == ASSUME NEW s \in Seq(Blocks), s # <<>>, IsInjective(s)
                PROVE  /\ Head(s) \in Blocks /\ Tail(s) \in Seq(Blocks)
                       /\ ToSet(s) = ToSet(Tail(s)) \cup {Head(s)}
                       /\ Head(s) \notin ToSet(Tail(s))
                       /\ IsInjective(Tail(s))
<1> DEFINE t == Tail(s)
<1>1. /\ Head(s) = s[1] /\ Head(s) \in Blocks /\ t \in Seq(Blocks)
      /\ Len(s) \in Nat \ {0} /\ Len(t) = Len(s) - 1
      /\ \A i \in 1..Len(t) : t[i] = s[i + 1]
  OBVIOUS
<1>2. \A i \in 1..Len(s) : i = 1 \/ (i - 1 \in 1..Len(t) /\ s[i] = t[i - 1])
  BY <1>1
<1> HIDE DEF t
<1>3. \A i, j \in 1..Len(s) : s[i] = s[j] => i = j
  BY Members
<1>4. ToSet(s) = ToSet(t) \cup {Head(s)}
  <2>1. ASSUME NEW b \in ToSet(s)
        PROVE  b \in ToSet(t) \cup {Head(s)}
    <3>1. PICK i \in 1..Len(s) : s[i] = b
      BY Members
    <3>2. QED BY <1>1, <1>2, <3>1, Members
  <2>2. ASSUME NEW b \in ToSet(t)
        PROVE  b \in ToSet(s)
    <3>1. PICK i \in 1..Len(t) : t[i] = b
      BY <1>1, Members
    <3>2. i + 1 \in 1..Len(s) /\ s[i + 1] = b
      BY <1>1, <3>1
    <3>3. QED BY <3>2, Members
  <2>3. Head(s) \in ToSet(s)
    <3>1. 1 \in 1..Len(s)
      BY <1>1
    <3>2. QED BY <1>1, <3>1, Members
  <2>4. QED BY <2>1, <2>2, <2>3
<1>5. Head(s) \notin ToSet(t)
  BY <1>1, <1>3, Members
<1>6. \A i, j \in 1..Len(t) : t[i] = t[j] => i = j
  BY <1>1, <1>3
<1>7. IsInjective(t)
  BY <1>1, <1>6, Members
<1>8. QED BY Zenon, <1>1, <1>4, <1>5, <1>7 DEF t

\* A list cut at one of its blocks.
LEMMA Cut == ASSUME NEW s \in Seq(Blocks), IsInjective(s), NEW i \in 1..Len(s)
             PROVE  LET p == SubSeq(s, 1, i - 1)
                        q == SubSeq(s, i + 1, Len(s))
                    IN /\ p \in Seq(Blocks) /\ q \in Seq(Blocks) /\ s[i] \in Blocks
                       /\ IsInjective(p) /\ IsInjective(q)
                       /\ ToSet(s) = ToSet(p) \cup ToSet(q) \cup {s[i]}
                       /\ ToSet(p) \cap ToSet(q) = {}
                       /\ s[i] \notin ToSet(p) \cup ToSet(q)
<1> DEFINE p == SubSeq(s, 1, i - 1)
           q == SubSeq(s, i + 1, Len(s))
<1>1. /\ p \in Seq(Blocks) /\ Len(p) = i - 1
      /\ \A j \in 1..Len(p) : p[j] = s[j]
  OBVIOUS
<1>2. /\ q \in Seq(Blocks) /\ Len(q) = Len(s) - i
      /\ \A j \in 1..Len(q) : q[j] = s[i + j]
  OBVIOUS
<1>3. \A j \in 1..Len(s) : \/ j \in 1..Len(p) /\ s[j] = p[j]
                           \/ j = i
                           \/ j - i \in 1..Len(q) /\ s[j] = q[j - i]
  BY <1>1, <1>2
<1> HIDE DEF p, q
<1>4. \A j, k \in 1..Len(s) : s[j] = s[k] => j = k
  BY Members
<1>5. IsInjective(p) /\ IsInjective(q)
  <2>1. \A j, k \in 1..Len(p) : p[j] = p[k] => j = k
    BY <1>1, <1>4
  <2>2. \A j, k \in 1..Len(q) : q[j] = q[k] => j = k
    BY <1>2, <1>4
  <2>3. QED BY <1>1, <1>2, <2>1, <2>2, Members
<1>6. \A b : b \in ToSet(s) <=> b \in ToSet(p) \cup ToSet(q) \cup {s[i]}
  <2>1. \A b : b \in ToSet(p) => b \in ToSet(s)
    BY <1>1, Members
  <2>2. \A b : b \in ToSet(q) => b \in ToSet(s)
    BY <1>2, Members
  <2>3. ASSUME NEW b \in ToSet(s)
        PROVE  b \in ToSet(p) \cup ToSet(q) \cup {s[i]}
    <3>1. PICK j \in 1..Len(s) : s[j] = b
      BY Members
    <3>2. CASE j \in 1..Len(p) /\ s[j] = p[j]
      BY <1>1, <3>1, <3>2, Members
    <3>3. CASE j - i \in 1..Len(q) /\ s[j] = q[j - i]
      BY <1>2, <3>1, <3>3, Members
    <3>4. QED BY <1>3, <3>1, <3>2, <3>3
  <2>4. s[i] \in ToSet(s)
    BY Members
  <2>5. QED BY <2>1, <2>2, <2>3, <2>4
<1>7. ASSUME NEW b \in ToSet(p)
      PROVE  b # s[i] /\ b \notin ToSet(q)
  <2>1. PICK j \in 1..Len(p) : p[j] = b
    BY <1>1, Members
  <2>2. j \in 1..Len(s) /\ j < i /\ s[j] = b
    BY <1>1, <2>1
  <2>3. b # s[i]
    BY <1>4, <2>2
  <2>4. ASSUME NEW k \in 1..Len(q)
        PROVE  q[k] # b
    BY <1>2, <1>4, <2>2
  <2>5. QED BY <1>2, <2>3, <2>4, Members
<1>8. s[i] \notin ToSet(q)
  <2>1. ASSUME NEW k \in 1..Len(q)
        PROVE  q[k] # s[i]
    BY <1>2, <1>4
  <2>2. QED BY <1>2, <2>1, Members
<1>9. s[i] \in Blocks
  OBVIOUS
<1>10. QED BY Zenon, <1>1, <1>2, <1>5, <1>6, <1>7, <1>8, <1>9 DEF p, q

(***************************************************************************)
(* Moved.  The function it is defined by exists, and what its values have  *)
(* in common, up to each block of the list.                                *)
(***************************************************************************)
Moving(f, n, s, S, onto) ==
  f = [i \in 0..n |-> IF i = 0 THEN onto
                      ELSE IF s[i] \in S THEN <<s[i]>> \o f[i - 1] ELSE f[i - 1]]

LEMMA MovingExists == ASSUME NEW s \in Seq(Blocks), NEW S, NEW onto, NEW n \in Nat
                      PROVE  \E f : Moving(f, n, s, S, onto)
<1> DEFINE Failing == {m \in Nat : ~ \E f : Moving(f, m, s, S, onto)}
<1>1. SUFFICES ASSUME Failing # {} PROVE FALSE
  OBVIOUS
<1>2. PICK m \in Failing : \A k \in Failing : m <= k
  <2> HIDE DEF Failing
  <2>1. Failing \in SUBSET Nat
    BY DEF Failing
  <2>2. QED BY <1>1, <2>1, Least
<1>3. m # 0
  <2>1. Moving([i \in 0..0 |-> onto], 0, s, S, onto)
    BY DEF Moving
  <2>2. QED BY <2>1
<1>4. m \in Nat /\ m - 1 \in Nat /\ m - 1 \notin Failing
  BY <1>2, <1>3
<1>5. PICK g : Moving(g, m - 1, s, S, onto)
  BY <1>4
<1> DEFINE h == [i \in 0..m |-> IF i < m THEN g[i]
                                ELSE IF s[m] \in S THEN <<s[m]>> \o g[m - 1] ELSE g[m - 1]]
<1>6. \A i \in 0..m : h[i] = IF i = 0 THEN onto
                             ELSE IF s[i] \in S THEN <<s[i]>> \o h[i - 1] ELSE h[i - 1]
  <2>1. \A i \in 0..(m - 1) : g[i] = IF i = 0 THEN onto
                                     ELSE IF s[i] \in S THEN <<s[i]>> \o g[i - 1] ELSE g[i - 1]
    BY Zenon, <1>5 DEF Moving
  <2>2. \A i \in 0..(m - 1) : h[i] = g[i]
    BY <1>4
  <2>3. h[m] = IF s[m] \in S THEN <<s[m]>> \o g[m - 1] ELSE g[m - 1]
    BY <1>4
  <2> HIDE DEF h
  <2>4. ASSUME NEW i \in 0..m
        PROVE  h[i] = IF i = 0 THEN onto
                      ELSE IF s[i] \in S THEN <<s[i]>> \o h[i - 1] ELSE h[i - 1]
    <3>1. CASE i = m
      BY <1>3, <1>4, <2>2, <2>3, <3>1
    <3>2. CASE i # m
      <4>1. i \in 0..(m - 1) /\ (i # 0 => i - 1 \in 0..(m - 1))
        BY <1>4, <3>2
      <4>2. QED BY <2>1, <2>2, <4>1
    <3>3. QED BY <3>1, <3>2
  <2>5. QED BY <2>4
<1>7. Moving(h, m, s, S, onto)
  BY Zenon, <1>6 DEF Moving
<1>8. QED BY <1>2, <1>7

LEMMA MovedIs == ASSUME NEW s \in Seq(Blocks), NEW S, NEW onto
                 PROVE  \E f : /\ Moved(s, S, onto) = f[Len(s)]
                               /\ f[0] = onto
                               /\ \A i \in 1..Len(s) :
                                    f[i] = IF s[i] \in S THEN <<s[i]>> \o f[i - 1] ELSE f[i - 1]
<1> DEFINE f == CHOOSE g : Moving(g, Len(s), s, S, onto)
<1>1. Moving(f, Len(s), s, S, onto)
  <2>1. Len(s) \in Nat
    OBVIOUS
  <2>2. QED BY Zenon, <2>1, MovingExists
<1>2. Moved(s, S, onto) = f[Len(s)]
  BY Zenon DEF Moved, Moving
<1> HIDE DEF f
<1>3. \A i \in 0..Len(s) : f[i] = IF i = 0 THEN onto
                           ELSE IF s[i] \in S THEN <<s[i]>> \o f[i - 1] ELSE f[i - 1]
  BY Zenon, <1>1 DEF Moving
<1>4. f[0] = onto
  <2>1. 0 \in 0..Len(s)
    OBVIOUS
  <2>2. QED BY Zenon, <1>3, <2>1
<1>5. \A i \in 1..Len(s) : f[i] = IF s[i] \in S THEN <<s[i]>> \o f[i - 1] ELSE f[i - 1]
  BY <1>3
<1>6. QED BY Zenon, <1>2, <1>4, <1>5

\* Blocks are moved, none is lost and none is there twice.
LEMMA MovedList == ASSUME NEW s \in Seq(Blocks), IsInjective(s), NEW S,
                          NEW onto \in Seq(Blocks), IsInjective(onto),
                          ToSet(s) \cap ToSet(onto) = {}
                   PROVE  /\ Moved(s, S, onto) \in Seq(Blocks)
                          /\ ToSet(Moved(s, S, onto)) = ToSet(onto) \cup (ToSet(s) \cap S)
                          /\ IsInjective(Moved(s, S, onto))
<1>1. PICK f : /\ Moved(s, S, onto) = f[Len(s)]
               /\ f[0] = onto
               /\ \A i \in 1..Len(s) :
                    f[i] = IF s[i] \in S THEN <<s[i]>> \o f[i - 1] ELSE f[i - 1]
  BY MovedIs
<1> DEFINE First(n) == {s[i] : i \in 1..n}
           Good(n) == /\ f[n] \in Seq(Blocks) /\ IsInjective(f[n])
                      /\ ToSet(f[n]) = ToSet(onto) \cup (First(n) \cap S)
           Failing == {n \in 0..Len(s) : ~ Good(n)}
<1>2. \A i, j \in 1..Len(s) : s[i] = s[j] => i = j
  BY Members
<1>3. \A i \in 1..Len(s) : s[i] \in Blocks /\ s[i] \in ToSet(s)
  BY Members
<1>4. Good(0)
  <2>1. First(0) = {}
    OBVIOUS
  <2>2. QED BY <1>1, <2>1
<1>5. ASSUME NEW n \in 1..Len(s), Good(n - 1)
      PROVE  Good(n)
  <2>1. First(n) = First(n - 1) \cup {s[n]}
    <3>1. 1..n = (1..(n - 1)) \cup {n}
      OBVIOUS
    <3>2. QED BY Zenon, <3>1
  <2>2. s[n] \notin First(n - 1)
    BY <1>2
  <2>3. f[n] = IF s[n] \in S THEN <<s[n]>> \o f[n - 1] ELSE f[n - 1]
    BY <1>1
  <2>4. s[n] \in Blocks /\ s[n] \in ToSet(s)
    BY <1>3
  <2> HIDE DEF First
  <2>5. CASE s[n] \in S
    <3> DEFINE g == f[n - 1]
    <3>1. g \in Seq(Blocks) /\ IsInjective(g) /\ ToSet(g) = ToSet(onto) \cup (First(n - 1) \cap S)
      BY <1>5
    <3>2. f[n] = <<s[n]>> \o g
      BY <2>3, <2>5
    <3> HIDE DEF g
    <3>3. s[n] \notin ToSet(g)
      BY <2>2, <2>4, <3>1
    <3>4. /\ <<s[n]>> \o g \in Seq(Blocks)
          /\ ToSet(<<s[n]>> \o g) = ToSet(g) \cup {s[n]}
          /\ IsInjective(<<s[n]>> \o g)
      BY Zenon, <2>4, <3>1, <3>3, Pushed
    <3>5. ToSet(f[n]) = ToSet(onto) \cup (First(n) \cap S)
      BY <2>1, <2>5, <3>1, <3>2, <3>4
    <3>6. QED BY Zenon, <3>2, <3>4, <3>5
  <2>6. CASE s[n] \notin S
    <3>1. f[n] = f[n - 1]
      BY <2>3, <2>6
    <3>2. First(n) \cap S = First(n - 1) \cap S
      BY <2>1, <2>6
    <3>3. QED BY Zenon, <1>5, <3>1, <3>2
  <2>7. QED BY <2>5, <2>6
<1>6. Good(Len(s))
  <2> SUFFICES ASSUME Failing # {} PROVE FALSE
    OBVIOUS
  <2>1. PICK n \in Failing : \A m \in Failing : n <= m
    <3> HIDE DEF Failing, Good
    <3>1. Failing \in SUBSET Nat
      BY DEF Failing
    <3>2. QED BY <3>1, Least
  <2> HIDE DEF Good
  <2>2. n # 0 /\ n \in 0..Len(s) /\ ~ Good(n)
    BY <1>4, <2>1
  <2>3. n \in 1..Len(s) /\ n - 1 \in 0..Len(s) /\ n - 1 \notin Failing
    BY <2>1, <2>2
  <2>4. Good(n - 1)
    BY <2>3
  <2>5. QED BY <1>5, <2>2, <2>3, <2>4
<1>7. First(Len(s)) = ToSet(s)
  <2>1. DOMAIN s = 1..Len(s)
    OBVIOUS
  <2>2. QED BY <2>1 DEF ToSet
<1>8. QED BY Zenon, <1>1, <1>6, <1>7
-----------------------------------------------------------------------------
(***************************************************************************)
(* The lists after the steps that change them: no step but EndSweep takes  *)
(* a block out of those in use.                                            *)
(***************************************************************************)
Headed(h) == IF h = None THEN <<>> ELSE <<h>>

LEMMA EmptyList == /\ <<>> \in Seq(Blocks)
                   /\ ToSet(<<>>) = {}
                   /\ IsInjective(<<>>)
<1>1. <<>> \in Seq(Blocks) /\ Len(<<>>) = 0
  OBVIOUS
<1>2. ASSUME NEW s \in Seq(Blocks), Len(s) = 0
      PROVE  ToSet(s) = {} /\ IsInjective(s)
  <2>1. 1..Len(s) = {}
    BY <1>2
  <2>2. QED BY Zenon, <2>1, Members
<1>3. QED BY Zenon, <1>1, <1>2

LEMMA HeadedList == ASSUME NEW h \in Blocks \cup {None}, NEW s \in Seq(Blocks), IsInjective(s),
                           h \notin ToSet(s)
                    PROVE  /\ Headed(h) \o s \in Seq(Blocks)
                           /\ ToSet(Headed(h) \o s) = ToSet(s) \cup ({h} \ {None})
                           /\ IsInjective(Headed(h) \o s)
<1>1. CASE h = None
  <2>1. Headed(h) \o s = s
    BY <1>1 DEF Headed
  <2>2. QED BY <1>1, <2>1
<1>2. CASE h # None
  <2>1. h \in Blocks /\ Headed(h) = <<h>> /\ {h} \ {None} = {h}
    BY <1>2 DEF Headed
  <2>2. QED BY <2>1, Pushed
<1>3. QED BY <1>1, <1>2

LEMMA NextHeadLists == ASSUME Placed, NextHead
                       PROVE  /\ Placed'
                              /\ InUse' = InUse \cup {head'}
                              /\ head' \in Blocks
                              /\ head' \in ToSet(rest) \/ head' \notin InUse
                              /\ ToSet(rest') \subseteq ToSet(rest)
                              /\ ToSet(full') \subseteq InUse
                              /\ ToSet(empty') \subseteq ToSet(empty)
                              /\ head' \in Allocated => UNCHANGED dirty
                              /\ head' \notin Allocated => dirty' = [dirty EXCEPT ![head'] = FALSE]
<1> DEFINE i == SelectInSeq(rest, HasRoom)
           skipped == IF i = 0 THEN rest ELSE SubSeq(rest, 1, i - 1)
           left == IF i = 0 THEN <<>> ELSE SubSeq(rest, i + 1, Len(rest))
           behind == Headed(head) \o full
<1>1. i \in 0..Len(rest)
  BY FirstIsIndex DEF Placed
<1>2. /\ skipped \in Seq(Blocks) /\ IsInjective(skipped)
      /\ left \in Seq(Blocks) /\ IsInjective(left)
      /\ ToSet(skipped) \cap ToSet(left) = {}
      /\ i = 0 => ToSet(rest) = ToSet(skipped) \cup ToSet(left)
      /\ i # 0 => /\ ToSet(rest) = ToSet(skipped) \cup ToSet(left) \cup {rest[i]}
                  /\ rest[i] \notin ToSet(skipped) \cup ToSet(left)
                  /\ rest[i] \in Blocks
  <2>1. CASE i = 0
    <3>1. skipped = rest /\ left = <<>>
      BY <2>1
    <3> HIDE DEF skipped, left
    <3>2. QED BY <2>1, <3>1, EmptyList DEF Placed
  <2>2. CASE i # 0
    <3>1. skipped = SubSeq(rest, 1, i - 1) /\ left = SubSeq(rest, i + 1, Len(rest))
      BY Zenon, <2>2
    <3>2. i \in 1..Len(rest)
      <4> HIDE DEF i
      <4>1. QED BY <1>1, <2>2
    <3> HIDE DEF skipped, left, i
    <3>3. QED BY <2>2, <3>1, <3>2, Cut DEF Placed
  <2>3. QED BY Zenon, <2>1, <2>2
<1>3. /\ behind \in Seq(Blocks) /\ IsInjective(behind)
      /\ ToSet(behind) = ToSet(full) \cup ({head} \ {None})
  BY HeadedList DEF Placed
<1>4. /\ full' = Moved(skipped, Blocks, behind) /\ rest' = left /\ mpc' = "sweep"
      /\ \/ i # 0 /\ head' = rest[i] /\ UNCHANGED <<empty, dirty>>
         \/ i = 0 /\ empty # <<>> /\ head' = Head(empty) /\ empty' = Tail(empty) /\ UNCHANGED dirty
         \/ /\ i = 0 /\ empty = <<>> /\ head' \in Blocks \ Allocated
            /\ dirty' = [dirty EXCEPT ![head'] = FALSE]
            /\ UNCHANGED empty
  BY Zenon DEF NextHead, Headed
<1> HIDE DEF skipped, left, behind, i
<1>5. ToSet(skipped) \subseteq ToSet(rest) /\ ToSet(left) \subseteq ToSet(rest) /\ ToSet(skipped) \subseteq Blocks
  BY <1>2, Members
<1>6. ToSet(skipped) \cap ToSet(behind) = {}
  BY <1>3, <1>5 DEF Placed
<1>7. /\ full' \in Seq(Blocks) /\ IsInjective(full')
      /\ ToSet(full') = ToSet(skipped) \cup ToSet(full) \cup ({head} \ {None})
  <2>1. /\ Moved(skipped, Blocks, behind) \in Seq(Blocks)
        /\ ToSet(Moved(skipped, Blocks, behind)) = ToSet(behind) \cup (ToSet(skipped) \cap Blocks)
        /\ IsInjective(Moved(skipped, Blocks, behind))
    BY <1>2, <1>3, <1>6, MovedList
  <2>2. QED BY <1>3, <1>4, <1>5, <2>1
<1>8. rest' \in Seq(Blocks) /\ IsInjective(rest') /\ ToSet(rest') = ToSet(left)
  BY <1>2, <1>4
<1>9. CASE i # 0 /\ head' = rest[i] /\ UNCHANGED <<empty, dirty>>
  BY <1>2, <1>4, <1>5, <1>7, <1>8, <1>9, SharedHeapAssumption DEF Placed, InUse, Allocated
<1>10. CASE i = 0 /\ empty # <<>> /\ head' = Head(empty) /\ empty' = Tail(empty) /\ UNCHANGED dirty
  <2>1. /\ head' \in Blocks /\ empty' \in Seq(Blocks) /\ IsInjective(empty')
        /\ ToSet(empty) = ToSet(empty') \cup {head'} /\ head' \notin ToSet(empty')
    BY <1>10, Popped DEF Placed
  <2>2. QED BY <1>2, <1>4, <1>5, <1>7, <1>8, <1>10, <2>1, SharedHeapAssumption DEF Placed, InUse, Allocated
<1>11. CASE i = 0 /\ empty = <<>> /\ head' \in Blocks \ Allocated
            /\ dirty' = [dirty EXCEPT ![head'] = FALSE] /\ UNCHANGED empty
  BY <1>2, <1>4, <1>5, <1>7, <1>8, <1>11, SharedHeapAssumption DEF Placed, InUse, Allocated
<1>12. QED BY Zenon, <1>4, <1>9, <1>10, <1>11

LEMMA EndSweepLists == ASSUME Placed, EndSweep, UNCHANGED mpc
                       PROVE  /\ Placed'
                              /\ ToSet(rest') \cup ToSet(full') \subseteq ToSet(rest) \cup ToSet(full)
                              /\ ToSet(empty') = ToSet(empty) \cup {b \in ToSet(full) : used[b] = {}}
                              /\ InUse \subseteq InUse' \cup ToSet(empty')
<1> DEFINE F == {b \in Blocks : Full(b)}
           E == {b \in Blocks : used[b] = {}}
           R == {b \in Blocks : HasRoom(b) /\ used[b] # {}}
<1>1. F \cap E = {} /\ F \cap R = {} /\ E \cap R = {} /\ F \cup E \cup R = Blocks
  <2>1. 1 \in Slots
    BY SharedHeapAssumption DEF Slots
  <2>2. QED BY <2>1 DEF Full, HasRoom
<1>2. /\ full' = Moved(full, F, <<>>) /\ empty' = Moved(full, E, empty) /\ rest' = Moved(full, R, rest)
      /\ head' = head
  BY Zenon DEF EndSweep
<1>3. {b \in ToSet(full) : used[b] = {}} = ToSet(full) \cap E
  BY Members DEF Placed
<1> HIDE DEF F, E, R
<1>4. ToSet(full) \subseteq Blocks
  BY Members DEF Placed
<1>5. full' \in Seq(Blocks) /\ ToSet(full') = ToSet(full) \cap F /\ IsInjective(full')
  <2>1. ToSet(full) \cap ToSet(<<>>) = {}
    BY EmptyList
  <2>2. /\ Moved(full, F, <<>>) \in Seq(Blocks) /\ IsInjective(Moved(full, F, <<>>))
        /\ ToSet(Moved(full, F, <<>>)) = ToSet(<<>>) \cup (ToSet(full) \cap F)
    BY <2>1, EmptyList, MovedList DEF Placed
  <2>3. QED BY <1>2, <2>2, EmptyList
<1>6. empty' \in Seq(Blocks) /\ ToSet(empty') = ToSet(empty) \cup (ToSet(full) \cap E) /\ IsInjective(empty')
  BY <1>2, MovedList DEF Placed
<1>7. rest' \in Seq(Blocks) /\ ToSet(rest') = ToSet(rest) \cup (ToSet(full) \cap R) /\ IsInjective(rest')
  <2>1. ToSet(full) \cap ToSet(rest) = {}
    BY DEF Placed
  <2>2. QED BY <1>2, <2>1, MovedList DEF Placed
<1>8. Placed'
  BY <1>1, <1>2, <1>4, <1>5, <1>6, <1>7 DEF Placed
<1>9. QED BY <1>1, <1>2, <1>3, <1>4, <1>5, <1>6, <1>7, <1>8 DEF InUse

LEMMA FinishMarkingLists == ASSUME Placed, FinishMarking
                            PROVE  /\ Placed'
                                   /\ ToSet(rest') = ToSet(rest) \cup ({head} \ {None})
<1>1. rest' = Headed(head) \o rest /\ head' = None /\ UNCHANGED <<full, empty>> /\ mpc' = "run"
  BY DEF FinishMarking, Headed
<1>2. /\ rest' \in Seq(Blocks) /\ IsInjective(rest')
      /\ ToSet(rest') = ToSet(rest) \cup ({head} \ {None})
  <2>1. head \notin ToSet(rest)
    BY DEF Placed
  <2>2. QED BY <1>1, <2>1, HeadedList DEF Placed
<1>3. None \notin ToSet(rest') \cup ToSet(full) \cup ToSet(empty)
  <2>1. ToSet(rest') \cup ToSet(full) \cup ToSet(empty) \subseteq Blocks
    BY <1>2, Members DEF Placed
  <2>2. QED BY <2>1, SharedHeapAssumption
<1>4. QED BY <1>1, <1>2, <1>3 DEF Placed
-----------------------------------------------------------------------------
(***************************************************************************)
(* The steps keep the parts of the invariant, one after the other.         *)
(***************************************************************************)
LEMMA Begins == ASSUME Placed, NEW p \in {"rest", "full"}, BeginPass(p)
                PROVE  \/ EndSweep
                       \/ /\ cur' \in ToSet(rest) \cup ToSet(full) /\ pass' \in {"rest", "full"} /\ gpc' = "visit"
                          /\ UNCHANGED <<lists, missed>>
<1>1. rest # <<>> => Head(rest) \in ToSet(rest)
  BY Popped DEF Placed
<1>2. full # <<>> => Head(full) \in ToSet(full)
  BY Popped DEF Placed
<1>3. QED BY <1>1, <1>2 DEF BeginPass

LEMMA Steps == ASSUME Typed, Placed, Step \/ StartSweep
               PROVE  /\ gpc \in {"step", "start"} /\ UNCHANGED <<todo, mask, bits, mpc, pending, kept, overwritten>>
                      /\ \/ EndSweep
                         \/ /\ cur' \in ToSet(rest) \cup ToSet(full) /\ pass' \in {"rest", "full"} /\ gpc' = "visit"
                            /\ UNCHANGED <<lists, missed>>
<1>1. CASE StartSweep
  BY <1>1, Begins DEF StartSweep
<1>2. CASE Step
  <2>1. Successors(cur) \subseteq ToSet(rest) \cup ToSet(full)
    <3>1. ASSUME NEW next \in Successors(cur)
          PROVE  next \in ToSet(rest) \cup ToSet(full)
      <4>1. PICK list \in {rest, full} : \E i \in 1..(Len(list) - 1) : list[i] = cur /\ list[i + 1] = next
        BY DEF Successors
      <4>2. PICK i \in 1..(Len(list) - 1) : list[i + 1] = next
        BY <4>1
      <4>3. list \in Seq(Blocks) /\ i + 1 \in 1..Len(list)
        BY <4>2 DEF Placed
      <4>4. next \in ToSet(list)
        BY <4>2, <4>3, Members
      <4>5. QED BY <4>1, <4>4
    <3>2. QED BY <3>1
  <2>2. BeginPass("full") => \/ EndSweep
                             \/ /\ cur' \in ToSet(rest) \cup ToSet(full) /\ pass' \in {"rest", "full"} /\ gpc' = "visit"
                                /\ UNCHANGED <<lists, missed>>
    BY Begins
  <2>3. QED BY <1>2, <2>1, <2>2 DEF Step, Typed
<1>3. QED BY <1>1, <1>2

LEMMA NextTyped == ASSUME Typed, Placed, [Next]_vars
                   PROVE  Typed'
<1> USE DEF Typed
<1>1. ASSUME NEW b \in Blocks, Alloc(b)
      PROVE  /\ used' \in [Blocks -> SUBSET Slots] /\ mark' \in [Blocks -> SUBSET Slots]
             /\ kept' \in SUBSET Objects /\ mpc' \in {"run", "mark"}
             /\ pending' \in IF mpc' = "mark" THEN [slot : Slots, marks : SUBSET Slots] ELSE {None}
             /\ UNCHANGED <<walk, todo, mask, lists, dirty, missed, overwritten>>
  BY <1>1 DEF Alloc, Take, Done, Objects
<1>2. CASE AllocFast
  BY <1>1, <1>2 DEF AllocFast, walk, Placed
<1>3. CASE NextHead
  <2>1. head' \in Blocks /\ dirty' \in [Blocks -> BOOLEAN]
    BY <1>3, NextHeadLists
  <2>2. QED BY <1>3, <2>1 DEF NextHead, walk
<1>4. CASE SweepHead
  BY <1>4 DEF SweepHead, Swept, Placed, walk, bits
<1>5. CASE AllocSlow
  BY <1>1, <1>5 DEF AllocSlow, walk, Placed
<1>6. CASE \E o \in Objects : Drop(o)
  BY <1>6 DEF Drop, walk, bits
<1>7. CASE StartMarking
  BY <1>7 DEF StartMarking
<1>8. CASE FinishMarking
  BY <1>8 DEF FinishMarking, bits
<1>9. CASE StartSweep \/ Step
  <2>1. CASE EndSweep
    <3>1. missed' \in SUBSET Blocks
      BY <2>1, Members DEF EndSweep, Placed
    <3>2. QED BY <1>9, <2>1, <3>1, Steps DEF EndSweep, bits
  <2>2. CASE ~ EndSweep
    <3>1. cur' \in Blocks
      BY <1>9, <2>2, Steps, Members DEF Placed
    <3>2. QED BY <1>9, <2>2, <3>1, Steps DEF bits
  <2>3. QED BY <2>1, <2>2
<1>10. CASE Visit
  BY <1>10 DEF Visit
<1>11. CASE SweepBlock
  BY <1>11 DEF SweepBlock, Swept
<1>12. CASE \E o \in Objects : Mark(o)
  BY <1>12 DEF Mark, walk, Objects
<1>13. CASE UNCHANGED vars
  BY <1>13 DEF vars, walk, bits
<1>14. CASE SetMark
  <2>1. head \in Blocks /\ pending.slot \in Slots /\ pending.marks \subseteq Slots
    BY <1>14 DEF SetMark, Placed
  <2>2. QED BY <1>14, <2>1 DEF SetMark, Done, walk, Objects
<1>15. QED BY <1>2, <1>3, <1>4, <1>5, <1>6, <1>7, <1>8, <1>9, <1>10, <1>11, <1>12, <1>13, <1>14
         DEF Next, Mutator, Collector

LEMMA NextPlaced == ASSUME Typed, Placed, [Next]_vars
                    PROVE  Placed'
<1>1. CASE UNCHANGED <<lists, mpc>>
  BY <1>1 DEF Placed, lists
<1>2. CASE AllocFast \/ AllocSlow
  BY <1>2 DEF AllocFast, AllocSlow, Alloc, Done, Placed, lists
<1>3. CASE NextHead
  BY <1>3, NextHeadLists
<1>4. CASE SweepHead
  BY <1>4 DEF SweepHead, Placed, lists
<1>5. CASE \E o \in Objects : Drop(o) \/ Mark(o)
  BY <1>1, <1>5 DEF Drop, Mark
<1>6. CASE StartMarking
  BY <1>6, EmptyList DEF StartMarking, Placed
<1>7. CASE FinishMarking
  BY <1>7, FinishMarkingLists
<1>8. CASE StartSweep \/ Step
  BY <1>1, <1>8, Steps, EndSweepLists
<1>9. CASE Visit \/ SweepBlock
  BY <1>1, <1>9 DEF Visit, SweepBlock
<1>10. CASE SetMark
  BY <1>10 DEF SetMark, Done, Placed, lists
<1>11. QED BY <1>1, <1>2, <1>3, <1>4, <1>5, <1>6, <1>7, <1>8, <1>9, <1>10
         DEF Next, Mutator, Collector, vars

LEMMA NextClean == ASSUME Typed, Placed, HeadClean, SweptAlone, [Next]_vars
                   PROVE  HeadClean' /\ SweptAlone'
<1> USE DEF HeadClean, SweptAlone
<1>1. CASE UNCHANGED <<gpc, cur, mask, head, dirty, mpc>>
  BY <1>1
<1>2. CASE AllocFast \/ AllocSlow
  BY <1>2 DEF AllocFast, AllocSlow, Alloc, Done, walk, lists
<1>3. CASE NextHead
  BY <1>3 DEF NextHead, walk
<1>4. CASE SweepHead
  BY <1>4 DEF SweepHead, Typed, Placed, walk, lists, bits
<1>5. CASE \E o \in Objects : Drop(o) \/ Mark(o)
  BY <1>1, <1>5 DEF Drop, Mark, walk, lists, bits
<1>6. CASE StartMarking
  BY <1>6 DEF StartMarking, Typed, Placed
<1>7. CASE FinishMarking
  BY <1>7 DEF FinishMarking
<1>8. CASE StartSweep \/ Step
  BY <1>8, Steps DEF EndSweep, lists, bits
<1>9. CASE Visit
  BY <1>9, SharedHeapAssumption DEF Visit, Typed, Placed, lists
<1>10. CASE SweepBlock
  BY <1>10 DEF SweepBlock, lists
<1>11. CASE SetMark
  BY <1>11 DEF SetMark, Done, walk, lists
<1>12. QED BY <1>1, <1>2, <1>3, <1>4, <1>5, <1>6, <1>7, <1>8, <1>9, <1>10, <1>11
          DEF Next, Mutator, Collector, vars, walk, lists, bits

LEMMA NextWalked == ASSUME Typed, Placed, Walked, [Next]_vars
                    PROVE  Walked'
<1> USE DEF Typed, Walked
<1>1. CASE UNCHANGED <<gpc, cur, mask, dirty, head, rest, full>>
  BY <1>1 DEF InUse
<1>2. CASE AllocFast \/ AllocSlow \/ SetMark
  BY <1>1, <1>2 DEF AllocFast, AllocSlow, Alloc, SetMark, walk, lists
<1>3. CASE NextHead
  <2>1. InUse' = InUse \cup {head'} /\ UNCHANGED <<gpc, cur, mask>>
    BY <1>3, NextHeadLists DEF NextHead, walk
  <2>2. gpc = "sweeping" => dirty'[cur] = dirty[cur]
    BY <1>3, NextHeadLists DEF InUse, Allocated
  <2>3. QED BY <2>1, <2>2
<1>4. CASE SweepHead
  <2>1. UNCHANGED <<gpc, cur, mask, InUse>>
    BY <1>4 DEF SweepHead, InUse, walk, lists
  <2>2. gpc = "sweeping" => dirty'[cur] = mask
    BY <1>4 DEF SweepHead, Placed, bits
  <2>3. QED BY <2>1, <2>2
<1>5. CASE \E o \in Objects : Drop(o) \/ Mark(o)
  BY <1>1, <1>5 DEF Drop, Mark, walk, lists, bits
<1>6. CASE StartMarking \/ FinishMarking
  BY <1>6 DEF StartMarking, FinishMarking
<1>7. CASE StartSweep \/ Step
  <2>1. CASE EndSweep
    BY <2>1 DEF EndSweep
  <2>2. CASE ~ EndSweep
    BY <1>7, <2>2, Steps DEF lists, InUse
  <2>3. QED BY <2>1, <2>2
<1>8. CASE Visit
  BY <1>8 DEF Visit, lists, InUse
<1>9. CASE SweepBlock
  BY <1>9 DEF SweepBlock, lists, InUse
<1>10. QED BY <1>1, <1>2, <1>3, <1>4, <1>5, <1>6, <1>7, <1>8, <1>9
          DEF Next, Mutator, Collector, vars, walk, lists, bits

LEMMA NextReading == ASSUME Typed, Placed, Reading, [Next]_vars
                     PROVE  Reading'
<1> USE DEF Typed, Reading
<1>1. CASE UNCHANGED <<gpc, mpc, pending, used, mark, head>>
  BY <1>1
<1>2. CASE AllocFast \/ AllocSlow
  <2>1. head \in Blocks /\ Alloc(head)
    BY <1>2 DEF AllocFast, AllocSlow, Placed
  <2>2. QED BY <2>1 DEF Alloc, Take, Done, walk, lists
<1>3. CASE NextHead \/ SweepHead \/ StartMarking \/ FinishMarking \/ SetMark
  BY <1>3 DEF NextHead, SweepHead, StartMarking, FinishMarking, SetMark, Done
<1>4. CASE \E o \in Objects : Drop(o)
  BY <1>1, <1>4 DEF Drop, walk, lists, bits
<1>5. CASE \E o \in Objects : Mark(o)
  <2>1. PICK o \in Objects : Mark(o)
    BY <1>5
  <2>2. \A b \in Blocks : mark[b] \subseteq mark'[b]
    BY <2>1 DEF Mark
  <2>3. mpc = "mark" => head \in Blocks
    BY DEF Placed
  <2>4. QED BY <2>1, <2>2, <2>3 DEF Mark, walk, lists
<1>6. CASE StartSweep \/ Step \/ Visit \/ SweepBlock
  <2>1. gpc # "mark" /\ UNCHANGED mpc
    BY <1>6 DEF StartSweep, Step, Visit, SweepBlock
  <2>2. QED BY <2>1
<1>7. QED BY <1>1, <1>2, <1>3, <1>4, <1>5, <1>6
         DEF Next, Mutator, Collector, vars, walk, lists, bits

-----------------------------------------------------------------------------
(***************************************************************************)
(* The heart: what each step does to the blocks that no sweep left out.    *)
(***************************************************************************)
LEMMA AllocSweeping == ASSUME IInv, mpc # "sweep", head \in Blocks, Alloc(head)
                       PROVE  Sweeping'
<1> USE DEF IInv, Framed, Typed, Placed
<1>1. /\ UNCHANGED <<gpc, cur, todo, mask, head, rest, full, empty, dirty, mark, missed, overwritten>>
      /\ dirty[head] = mask /\ ~ Owed(head)
  BY SharedHeapAssumption DEF Alloc, walk, lists, HeadClean, SweptAlone, Owed
<1>2. PICK s \in Slots : /\ used' = [used EXCEPT ![head] = @ \cup {s}]
                         /\ kept' = kept \/ (gpc # "mark" /\ kept' = kept \cup {<<head, s>>})
  BY DEF Alloc, Take, Done
<1>3. ASSUME NEW b \in Blocks \ missed
      PROVE  Kept(b)' /\ Collected(b)'
  <2>1. Kept(b) /\ Collected(b)
    BY DEF Sweeping
  <2>2. CASE b = head
    BY <1>1, <1>2, <2>1, <2>2 DEF Kept, Collected, Owed, Blank
  <2>3. CASE b # head
    BY <1>1, <1>2, <2>1, <2>3 DEF Kept, Collected, Owed, Blank
  <2>4. QED BY <2>2, <2>3
<1>4. QED BY <1>1, <1>3 DEF Sweeping

\* The marks that go are those of the objects in overwritten.
LEMMA SetMarkSweeping == ASSUME IInv, SetMark
                         PROVE  Sweeping'
<1> USE DEF IInv, Framed, Typed, Placed
<1>1. /\ UNCHANGED <<gpc, cur, todo, mask, head, rest, full, empty, dirty, used, missed>>
      /\ gpc = "mark" /\ head \in Blocks /\ dirty[head] = mask
  BY SharedHeapAssumption DEF SetMark, walk, lists, HeadClean, Reading
<1>2. PICK s \in Slots : /\ s \in used[head] /\ s \in mark'[head]
                         /\ kept' = kept \cup {<<head, s>>}
  <2>1. pending.slot \in Slots /\ pending.slot \in used[head]
    BY <1>1 DEF SetMark, Reading
  <2>2. pending.slot \in mark'[head] /\ kept' = kept \cup {<<head, pending.slot>>}
    BY <1>1 DEF SetMark, Done
  <2>3. QED BY <2>1, <2>2
<1>3. \A b \in Blocks : b # head => mark'[b] = mark[b]
  BY DEF SetMark
<1>4. /\ overwritten \subseteq overwritten'
      /\ \A t \in Slots : <<head, t>> \in kept /\ t \in mark[head] =>
           t \in mark'[head] \/ <<head, t>> \in overwritten'
  BY DEF SetMark
<1>5. ASSUME NEW b \in Blocks \ missed
      PROVE  Kept(b)' /\ Collected(b)'
  <2>1. Kept(b) /\ Collected(b)
    BY DEF Sweeping
  <2>2. CASE b = head
    <3>1. Kept(b)'
      BY <1>1, <1>2, <1>4, <2>1, <2>2 DEF Kept
    <3>2. ASSUME NEW t \in Slots, <<b, t>> \in kept' \ overwritten'
          PROVE  t \in mark'[b] \/ <<b, t>> \in todo
      BY <1>1, <1>2, <1>4, <2>1, <2>2, <3>2 DEF Collected
    <3>3. QED BY <1>1, <2>2, <3>1, <3>2 DEF Collected
  <2>3. CASE b # head
    BY <1>1, <1>2, <1>3, <1>4, <2>1, <2>3 DEF Kept, Collected, Blank
  <2>4. QED BY <2>2, <2>3
<1>6. QED BY <1>1, <1>5 DEF Sweeping

LEMMA NextHeadSweeping == ASSUME IInv, NextHead
                          PROVE  Sweeping'
<1> USE DEF IInv, Framed, Typed
<1>1. /\ UNCHANGED <<gpc, cur, pass, todo, mask, used, mark, kept, missed, overwritten>>
      /\ mpc = "run" /\ mpc' = "sweep"
  BY DEF NextHead, walk
<1>2. /\ InUse' = InUse \cup {head'} /\ head' \in Blocks
      /\ head' \in ToSet(rest) \/ head' \notin InUse
      /\ ToSet(rest') \subseteq ToSet(rest) /\ ToSet(full') \subseteq InUse
      /\ head' \in Allocated => UNCHANGED dirty
      /\ head' \notin Allocated => dirty' = [dirty EXCEPT ![head'] = FALSE]
  BY NextHeadLists
<1>3. ASSUME NEW b \in Blocks \ missed
      PROVE  Kept(b)' /\ Collected(b)'
  <2>1. Kept(b) /\ Collected(b)
    BY DEF Sweeping
  <2>2. b # head' => dirty'[b] = dirty[b]
    BY <1>2
  <2>3. b \in InUse <=> b \in ToSet(rest) \cup ToSet(full) \cup {head}
    BY SharedHeapAssumption DEF InUse
  <2>4. b \in InUse' <=> b \in ToSet(rest') \cup ToSet(full') \cup {head'}
    BY SharedHeapAssumption DEF InUse
  <2>5. gpc \in {"idle", "mark"} /\ b \in InUse => dirty[b] = mask
    BY <1>1, <2>1, <2>3, SharedHeapAssumption DEF Collected, HeadClean
  <2>6. Blank(b)' <=> Blank(b)
    BY <1>1 DEF Blank
  <2>7. CASE b = head'
    <3>1. CASE b \in InUse
      <4>1. b \in Allocated
        BY <3>1 DEF InUse, Allocated
      <4>2. dirty' = dirty
        BY <1>2, <2>7, <4>1
      <4>3. QED BY <1>1, <1>2, <2>1, <2>4, <2>5, <2>6, <2>7, <3>1, <4>2 DEF Kept, Collected, Owed
    <3>2. CASE b \notin InUse
      <4>1. Blank(b)
        BY <2>1, <2>3, <3>2 DEF Kept
      <4>2. b \notin ToSet(rest') \cup ToSet(full')
        BY <1>2, <3>2 DEF InUse
      <4>3. QED BY <1>1, <1>2, <2>1, <2>4, <2>6, <2>7, <4>1, <4>2 DEF Kept, Collected, Owed, Blank
    <3>3. QED BY <3>1, <3>2
  <2>8. CASE b # head'
    <3>1. b \in InUse <=> b \in InUse'
      BY <1>2, <2>8
    <3>2. Kept(b)'
      BY <1>1, <2>1, <2>3, <2>4, <2>6, <3>1 DEF Kept
    <3>3. Owed(b)' <=> Owed(b)
      BY <1>1, <2>2, <2>8 DEF Owed
    <3>4. QED BY <1>1, <2>1, <2>2, <2>4, <2>5, <2>6, <2>8, <3>1, <3>2, <3>3 DEF Collected
  <2>9. QED BY <2>7, <2>8
<1>4. QED BY <1>1, <1>3 DEF Sweeping

LEMMA SweepHeadSweeping == ASSUME IInv, SweepHead
                           PROVE  Sweeping'
<1> USE DEF IInv, Framed, Typed
<1>1. /\ UNCHANGED <<gpc, cur, todo, mask, head, rest, full, kept, missed, overwritten>>
      /\ head \in Blocks /\ ~(gpc = "sweeping" /\ cur = head)
  BY DEF SweepHead, walk, lists, Placed
<1>2. ASSUME NEW b \in Blocks \ missed
      PROVE  Kept(b)' /\ Collected(b)'
  <2>1. Kept(b) /\ Collected(b)
    BY DEF Sweeping
  <2>2. CASE b # head \/ dirty[head] = mask
    <3>1. dirty'[b] = dirty[b] /\ used'[b] = used[b] /\ mark'[b] = mark[b]
      BY <1>1, <2>2 DEF SweepHead, Swept, bits
    <3>2. QED BY <1>1, <2>1, <3>1 DEF Kept, Collected, Owed, Blank
  <2>3. CASE b = head /\ dirty[head] # mask
    <3>1. dirty'[b] = mask /\ used'[b] = mark[b] /\ mark'[b] = {}
      BY <1>1, <2>3 DEF SweepHead, Swept
    <3>2. CASE gpc = "mark"
      <4>1. Blank(b)
        BY <2>1, <2>3, <3>2 DEF Collected
      <4>2. QED BY <1>1, <2>1, <3>1, <3>2, <4>1 DEF Kept, Collected, Owed, Blank
    <3>3. CASE gpc # "mark"
      BY <1>1, <2>1, <2>3, <3>1, <3>3 DEF Kept, Collected, Owed, Blank
    <3>4. QED BY <3>2, <3>3
  <2>4. QED BY <2>2, <2>3
<1>3. QED BY <1>1, <1>2 DEF Sweeping

LEMMA DropSweeping == ASSUME IInv, NEW o \in Objects, Drop(o)
                      PROVE  Sweeping'
<1>1. /\ UNCHANGED <<gpc, cur, todo, mask, head, rest, full, dirty, used, mark, missed>>
      /\ kept' \subseteq kept
      /\ \A p \in kept' : p \in overwritten => p \in overwritten'
  BY DEF Drop, walk, lists, bits
<1>2. QED BY <1>1 DEF IInv, Sweeping, Kept, Collected, Owed, Blank

LEMMA StartMarkingSweeping == ASSUME IInv, StartMarking
                              PROVE  Sweeping'
<1> USE DEF IInv, Framed, Typed
<1>1. /\ gpc = "idle" /\ mpc = "run" /\ gpc' = "mark" /\ todo' = kept
      /\ UNCHANGED <<cur, mask, head, rest, full, kept, missed, overwritten>>
  BY DEF StartMarking
<1>2. ASSUME NEW b \in Blocks \ missed
      PROVE  Kept(b)' /\ Collected(b)'
  <2>1. Kept(b) /\ Collected(b)
    BY DEF Sweeping
  <2>2. CASE b \in ToSet(empty)
    <3>1. b \notin ToSet(rest) \cup ToSet(full) \cup {head}
      BY <2>2 DEF Placed
    <3>2. Blank(b)
      BY <2>1, <3>1 DEF Kept
    <3>3. used'[b] = {} /\ mark'[b] = {}
      BY <2>2 DEF StartMarking
    <3>4. QED BY <1>1, <3>1, <3>2, <3>3 DEF Kept, Collected, Blank
  <2>3. CASE b \notin ToSet(empty)
    <3>1. used'[b] = used[b] /\ mark'[b] = mark[b] /\ dirty'[b] = dirty[b]
      BY <2>3 DEF StartMarking
    <3>2. b = head => dirty[b] = mask
      BY <1>1, SharedHeapAssumption DEF HeadClean
    <3>3. QED BY <1>1, <2>1, <3>1, <3>2 DEF Kept, Collected, Blank
  <2>4. QED BY <2>2, <2>3
<1>3. QED BY <1>1, <1>2 DEF Sweeping

LEMMA MarkSweeping == ASSUME IInv, Intact, NEW o \in Objects, Mark(o)
                      PROVE  Sweeping'
<1> USE DEF IInv, Framed, Typed
<1>1. /\ UNCHANGED <<gpc, cur, mask, head, rest, full, dirty, used, kept, missed>>
      /\ gpc = "mark" /\ o \in todo /\ todo' \in {todo, todo \ {o}}
      /\ mark' = [mark EXCEPT ![o[1]] = @ \cup {o[2]}]
      /\ overwritten' = overwritten \ {o}
      /\ o = <<o[1], o[2]>> /\ o[1] \in Blocks /\ o[2] \in Slots
  BY DEF Mark, walk, lists, Objects
<1>2. ASSUME NEW b \in Blocks \ missed
      PROVE  Kept(b)' /\ Collected(b)'
  <2>1. Kept(b) /\ Collected(b)
    BY DEF Sweeping
  <2>2. Blank(b) => b # o[1]
    BY <1>1 DEF Blank
  <2>3. mark[b] \subseteq mark'[b] /\ (b # o[1] => mark'[b] = mark[b])
    BY <1>1
  <2>4. Blank(b) => Blank(b)'
    BY <1>1, <2>2, <2>3 DEF Blank
  <2>5. Kept(b)'
    <3>1. ASSUME NEW s \in Slots, <<b, s>> \in kept
          PROVE  s \in used[b]
      BY <3>1 DEF Intact
    <3>2. QED BY <1>1, <2>1, <2>4, <3>1 DEF Kept
  <2>6. ASSUME NEW s \in Slots, <<b, s>> \in kept \ overwritten'
        PROVE  s \in mark'[b] \/ <<b, s>> \in todo'
    <3>1. CASE <<b, s>> = o
      BY <1>1, <3>1
    <3>2. CASE <<b, s>> # o
      BY <1>1, <2>1, <2>3, <2>6, <3>2 DEF Collected
    <3>3. QED BY <3>1, <3>2
  <2>7. QED BY <1>1, <2>1, <2>4, <2>5, <2>6 DEF Collected
<1>3. QED BY <1>1, <1>2 DEF Sweeping

LEMMA FinishMarkingSweeping == ASSUME IInv, FinishMarking
                               PROVE  Sweeping'
<1> USE DEF IInv, Framed, Typed
<1>1. /\ gpc = "mark" /\ todo = {} /\ mpc = "run" /\ gpc' = "start" /\ mask' = ~mask /\ head' = None
      /\ UNCHANGED <<todo, full, dirty, used, mark, kept, missed, overwritten>>
  BY DEF FinishMarking, bits
<1>2. ToSet(rest') = ToSet(rest) \cup ({head} \ {None})
  BY FinishMarkingLists
<1>3. ASSUME NEW b \in Blocks \ missed
      PROVE  Kept(b)' /\ Collected(b)'
  <2>1. Kept(b) /\ Collected(b)
    BY DEF Sweeping
  <2>2. Blank(b)' <=> Blank(b)
    BY <1>1 DEF Blank
  <2>3. b # None
    BY SharedHeapAssumption
  <2>4. Kept(b)'
    BY <1>1, <1>2, <2>1, <2>2, <2>3 DEF Kept
  <2>5. \A s \in Slots : <<b, s>> \in kept \ overwritten => s \in mark[b]
    BY <1>1, <2>1 DEF Collected
  <2>6. Blank(b) \/ dirty[b] = mask
    BY <1>1, <2>1, <2>3 DEF Kept, Collected, HeadClean
  <2>7. ~ Owed(b)' => Blank(b)
    BY <1>1, <2>6 DEF Owed
  <2>8. QED BY <1>1, <2>4, <2>5, <2>7 DEF Collected, Blank
<1>4. QED BY <1>1, <1>3 DEF Sweeping

LEMMA StepSweeping == ASSUME IInv, Intact, Step \/ StartSweep
                      PROVE  Sweeping'
<1> USE DEF IInv, Framed, Typed
<1>1. /\ gpc \in {"step", "start"} /\ gpc' \in {"idle", "visit"}
      /\ UNCHANGED <<todo, mask, head, dirty, used, mark, mpc, kept, overwritten>>
      /\ missed \subseteq missed'
  BY Steps DEF EndSweep, lists, bits
<1>2. ASSUME NEW b \in Blocks \ missed'
      PROVE  Kept(b)' /\ Collected(b)'
  <2>1. Kept(b) /\ Collected(b)
    BY <1>1 DEF Sweeping
  <2>2. Owed(b)' <=> Owed(b)
    BY <1>1 DEF Owed
  <2>3. Blank(b)' <=> Blank(b)
    BY <1>1 DEF Blank
  <2>4. CASE gpc' = "visit" /\ UNCHANGED lists
    BY <1>1, <2>1, <2>2, <2>3, <2>4 DEF Kept, Collected, lists
  <2>5. CASE EndSweep
    <3>1. /\ ToSet(rest') \cup ToSet(full') \subseteq ToSet(rest) \cup ToSet(full)
          /\ ToSet(empty') = ToSet(empty) \cup {c \in ToSet(full) : used[c] = {}}
          /\ InUse \subseteq InUse' \cup ToSet(empty')
      BY <1>1, <2>5, EndSweepLists
    <3>2. b \in ToSet(rest) \cup ToSet(full) => dirty[b] = mask
      BY <2>5 DEF EndSweep
    <3>3. b # None
      BY SharedHeapAssumption
    <3>4. b \in ToSet(rest') \cup ToSet(full') \cup {head} \/ Blank(b)
      <4>1. CASE b \in ToSet(rest) \cup ToSet(full) \cup {head}
        <5>1. b \in InUse
          BY <3>3, <4>1 DEF InUse
        <5>2. CASE b \in InUse'
          BY <1>1, <5>2 DEF InUse
        <5>3. CASE b \notin InUse'
          <6>1. b \in ToSet(empty')
            BY <3>1, <5>1, <5>3
          <6>2. b \notin ToSet(empty)
            BY <4>1 DEF Placed
          <6>3. b \in ToSet(full) /\ used[b] = {}
            BY <3>1, <6>1, <6>2
          <6>4. mark[b] = {}
            BY <1>1, <2>1, <3>2, <6>3 DEF Collected, Owed
          <6>5. \A s \in Slots : <<b, s>> \notin kept
            BY <6>3 DEF Intact
          <6>6. QED BY <1>1, <6>3, <6>4, <6>5 DEF Blank, Sweeping
        <5>4. QED BY <5>2, <5>3
      <4>2. QED BY <2>1, <4>1 DEF Kept
    <3>5. gpc' = "idle"
      BY <2>5 DEF EndSweep
    <3>6. QED BY <1>1, <2>1, <2>2, <2>3, <3>1, <3>2, <3>4, <3>5 DEF Kept, Collected
  <2>6. QED BY <2>4, <2>5, Steps
<1>3. QED BY <1>1, <1>2 DEF Sweeping

LEMMA VisitSweeping == ASSUME IInv, Visit
                       PROVE  Sweeping'
<1> USE DEF IInv, Framed, Typed
<1>1. /\ gpc = "visit" /\ gpc' = (IF dirty[cur] # mask THEN "sweeping" ELSE "step")
      /\ dirty' = [dirty EXCEPT ![cur] = mask] /\ cur \in Blocks
      /\ UNCHANGED <<cur, todo, mask, head, rest, full, used, mark, kept, missed, overwritten>>
  BY DEF Visit, lists
<1>2. ASSUME NEW b \in Blocks \ missed
      PROVE  Kept(b)' /\ Collected(b)'
  <2>1. Kept(b) /\ Collected(b)
    BY DEF Sweeping
  <2>2. Owed(b)' <=> Owed(b)
    BY <1>1 DEF Owed
  <2>3. QED BY <1>1, <2>1, <2>2 DEF Kept, Collected, Blank
<1>3. QED BY <1>1, <1>2 DEF Sweeping

LEMMA SweepBlockSweeping == ASSUME IInv, SweepBlock
                            PROVE  Sweeping'
<1> USE DEF IInv, Framed, Typed
<1>1. /\ gpc = "sweeping" /\ gpc' = "step" /\ cur \in Blocks
      /\ used' = [used EXCEPT ![cur] = mark[cur]] /\ mark' = [mark EXCEPT ![cur] = {}]
      /\ UNCHANGED <<cur, todo, mask, head, rest, full, dirty, kept, missed, overwritten>>
  BY DEF SweepBlock, Swept, lists
<1>2. ASSUME NEW b \in Blocks \ missed
      PROVE  Kept(b)' /\ Collected(b)'
  <2>1. Kept(b) /\ Collected(b)
    BY DEF Sweeping
  <2>2. CASE b = cur
    <3>1. Owed(b)
      BY <1>1, <2>2 DEF Owed
    <3>2. used'[b] = mark[b] /\ mark'[b] = {}
      BY <1>1, <2>2
    <3>3. \A s \in Slots : <<b, s>> \in kept \ overwritten => s \in mark[b]
      BY <1>1, <2>1, <3>1 DEF Collected
    <3>4. Blank(b) => Blank(b)'
      BY <1>1, <3>2 DEF Blank
    <3>5. Kept(b)'
      BY <1>1, <2>1, <3>2, <3>3, <3>4 DEF Kept
    <3>6. ~ Owed(b)'
      BY <1>1, <2>2 DEF Owed, Walked
    <3>7. QED BY <1>1, <2>1, <3>2, <3>3, <3>5, <3>6 DEF Collected
  <2>3. CASE b # cur
    BY <1>1, <2>1, <2>3 DEF Kept, Collected, Owed, Blank
  <2>4. QED BY <2>2, <2>3
<1>3. QED BY <1>1, <1>2 DEF Sweeping

LEMMA NextSweeping == ASSUME IInv, [Intact /\ Next]_vars
                      PROVE  Sweeping'
<1>1. CASE UNCHANGED vars
  BY <1>1 DEF IInv, Sweeping, Kept, Collected, Owed, Blank, vars, walk, lists, bits
<1>2. CASE AllocFast \/ AllocSlow
  <2>1. mpc # "sweep" /\ head \in Blocks /\ Alloc(head)
    BY <1>2 DEF AllocFast, AllocSlow, IInv, Framed, Placed
  <2>2. QED BY <2>1, AllocSweeping
<1>3. QED
  BY <1>1, <1>2, SetMarkSweeping, NextHeadSweeping, SweepHeadSweeping, DropSweeping,
     StartMarkingSweeping, MarkSweeping, FinishMarkingSweeping, StepSweeping, VisitSweeping,
     SweepBlockSweeping
  DEF Next, Mutator, Collector

-----------------------------------------------------------------------------
LEMMA InitIInv == Init => IInv
<1> SUFFICES ASSUME Init PROVE IInv
  OBVIOUS
<1>1. Typed
  BY DEF Init, Typed
<1>2. Placed
  BY EmptyList DEF Init, Placed
<1>3. HeadClean /\ Walked /\ SweptAlone /\ Reading
  BY DEF Init, HeadClean, Walked, SweptAlone, Reading
<1>4. Sweeping
  BY DEF Init, Sweeping, Kept, Collected, Owed, Blank
<1>5. QED BY <1>1, <1>2, <1>3, <1>4 DEF IInv, Framed

LEMMA NextFramed == ASSUME Framed, [Next]_vars
                    PROVE  Framed'
<1>1. QED BY NextTyped, NextPlaced, NextClean, NextWalked, NextReading DEF Framed

LEMMA Frame == Spec => []Framed
<1>1. Init => Framed
  BY InitIInv DEF IInv
<1>2. QED BY <1>1, NextFramed, PTL DEF Spec

LEMMA Invariant == UpToALoss => []IInv
<1>1. ASSUME IInv, [Intact /\ Next]_vars
      PROVE  IInv'
  <2>1. [Next]_vars
    BY <1>1
  <2>2. Framed'
    BY <1>1, <2>1, NextFramed DEF IInv
  <2>3. QED BY <1>1, <2>2, NextSweeping DEF IInv
<1>2. QED BY InitIInv, <1>1, PTL DEF UpToALoss

(***************************************************************************)
(* The collector is never inside the sweep of a block that alloc, which    *)
(* takes no lock, is free to allocate from.                                *)
(***************************************************************************)
THEOREM NeverSweptUnderAlloc == Spec => []SweptAlone
<1>1. Framed => SweptAlone
  BY DEF Framed
<1>2. QED BY Frame, <1>1, PTL

(***************************************************************************)
(* The first step that frees an object in use frees one of a block that a  *)
(* sweep has left out or one whose mark an allocation has overwritten: the *)
(* two faults of the code are the only ways to lose an object.             *)
(***************************************************************************)
THEOREM LiveObjectsKept == UpToALoss => []LiveKept
<1>1. IInv => LiveKept
  <2> SUFFICES ASSUME IInv, NEW o \in kept, o[1] \notin missed
               PROVE  o[2] \in used[o[1]] \/ o \in overwritten
    BY DEF LiveKept
  <2>1. o = <<o[1], o[2]>> /\ o[1] \in Blocks /\ o[2] \in Slots
    BY DEF IInv, Framed, Typed, Objects
  <2>2. QED BY <2>1 DEF IInv, Sweeping, Kept
<1>2. QED BY Invariant, <1>1, PTL

(***************************************************************************)
(* When the next marking can begin, no mark is left from the last one, in  *)
(* a block that no sweep has left out, as long as no object in use was     *)
(* freed.                                                                  *)
(***************************************************************************)
THEOREM NoMarkLeft == UpToALoss => []MarksCleared
<1>1. IInv => MarksCleared
  <2> SUFFICES ASSUME IInv, gpc = "idle", mpc = "run", NEW b \in Blocks \ missed
               PROVE  mark[b] = {}
    BY DEF MarksCleared
  <2>1. Kept(b) /\ Collected(b)
    BY DEF IInv, Sweeping
  <2>2. Blank(b) \/ dirty[b] = mask
    BY <2>1, SharedHeapAssumption DEF IInv, Framed, HeadClean, Kept, Collected
  <2>3. QED BY <2>1, <2>2 DEF Blank, Collected, Owed
<1>2. QED BY Invariant, <1>1, PTL

(***************************************************************************)
(* Types, and that a block is in one list, or the head, and there once.    *)
(***************************************************************************)
LEMMA Joined == ASSUME NEW s \in Seq(Blocks), NEW t \in Seq(Blocks),
                       IsInjective(s), IsInjective(t), ToSet(s) \cap ToSet(t) = {}
                PROVE  /\ s \o t \in Seq(Blocks) /\ IsInjective(s \o t)
                       /\ ToSet(s \o t) \subseteq ToSet(s) \cup ToSet(t)
<1> DEFINE u == s \o t
<1>1. /\ u \in Seq(Blocks) /\ Len(u) = Len(s) + Len(t)
      /\ \A i \in 1..Len(s) : u[i] = s[i]
      /\ \A i \in 1..Len(t) : u[Len(s) + i] = t[i]
  OBVIOUS
<1> HIDE DEF u
<1>2. ASSUME NEW i \in 1..Len(u)
      PROVE  \/ i \in 1..Len(s) /\ u[i] = s[i] /\ u[i] \in ToSet(s)
             \/ i - Len(s) \in 1..Len(t) /\ u[i] = t[i - Len(s)] /\ u[i] \in ToSet(t)
  <2>1. CASE i \in 1..Len(s)
    BY <1>1, <2>1, Members
  <2>2. CASE i \notin 1..Len(s)
    <3>1. i - Len(s) \in 1..Len(t) /\ i = Len(s) + (i - Len(s))
      BY <1>1, <2>2
    <3>2. u[i] = t[i - Len(s)]
      BY <1>1, <3>1
    <3>3. t[i - Len(s)] \in ToSet(t)
      BY <3>1, Members
    <3>4. QED BY <3>1, <3>2, <3>3
  <2>3. QED BY <2>1, <2>2
<1>3. ToSet(u) \subseteq ToSet(s) \cup ToSet(t)
  <2>1. ASSUME NEW b \in ToSet(u)
        PROVE  b \in ToSet(s) \cup ToSet(t)
    <3>1. PICK i \in 1..Len(u) : u[i] = b
      BY <1>1, Members
    <3>2. QED BY <1>2, <3>1
  <2>2. QED BY <2>1
<1>4. \A i, j \in 1..Len(s) : s[i] = s[j] => i = j
  BY Members
<1>5. \A i, j \in 1..Len(t) : t[i] = t[j] => i = j
  BY Members
<1>6. ASSUME NEW i \in 1..Len(u), NEW j \in 1..Len(u), u[i] = u[j]
      PROVE  i = j
  <2>1. CASE u[i] \in ToSet(s)
    <3>1. i \in 1..Len(s) /\ u[i] = s[i] /\ j \in 1..Len(s) /\ u[j] = s[j]
      BY <1>2, <1>6, <2>1
    <3>2. QED BY <1>4, <1>6, <3>1
  <2>2. CASE u[i] \notin ToSet(s)
    <3>1. /\ i - Len(s) \in 1..Len(t) /\ u[i] = t[i - Len(s)]
          /\ j - Len(s) \in 1..Len(t) /\ u[j] = t[j - Len(s)]
      BY <1>2, <1>6, <2>2
    <3>2. i - Len(s) = j - Len(s)
      BY <1>5, <1>6, <3>1
    <3>3. QED BY <3>2
  <2>3. QED BY <2>1, <2>2
<1>7. IsInjective(u)
  BY <1>1, <1>6, Members
<1>8. QED BY Zenon, <1>1, <1>3, <1>7 DEF u

(* Every variable has the values it can have; above all no block is on the  *)
(* lists of the heap twice, nor on a list while it is the head.             *)
THEOREM TypeCorrect == Spec => []TypeOK
<1>1. ASSUME Typed, Placed
      PROVE  TypeOK
  <2> DEFINE one == full \o (empty \o Headed(head))
  <2>1. /\ Headed(head) \in Seq(Blocks) /\ IsInjective(Headed(head))
        /\ ToSet(Headed(head)) = {head} \ {None}
    <3>1. Headed(head) = Headed(head) \o <<>>
      BY <1>1 DEF Headed, Placed
    <3>2. QED BY ZenonT(30), <1>1, <3>1, EmptyList, HeadedList DEF Placed
  <2>2. /\ empty \o Headed(head) \in Seq(Blocks) /\ IsInjective(empty \o Headed(head))
        /\ ToSet(empty \o Headed(head)) \subseteq ToSet(empty) \cup {head}
    BY <1>1, <2>1, Joined DEF Placed
  <2>3. /\ full \o (empty \o Headed(head)) \in Seq(Blocks)
        /\ IsInjective(full \o (empty \o Headed(head)))
        /\ ToSet(full \o (empty \o Headed(head))) \subseteq ToSet(full) \cup ToSet(empty) \cup {head}
    <3>1. ToSet(full) \cap ToSet(empty \o Headed(head)) = {}
      BY <1>1, <2>2 DEF Placed
    <3>2. QED BY ZenonT(30), <1>1, <2>2, <3>1, Joined DEF Placed
  <2>4. IsInjective(rest \o (full \o (empty \o Headed(head))))
    <3>1. ToSet(rest) \cap ToSet(full \o (empty \o Headed(head))) = {}
      BY <1>1, <2>3 DEF Placed
    <3>2. QED BY <1>1, <2>3, <3>1, Joined DEF Placed
  <2>5. rest \o (full \o (empty \o Headed(head))) = rest \o full \o empty \o Headed(head)
    <3>1. rest \o full \in Seq(Blocks)
      BY <1>1 DEF Placed
    <3>2. \A s, t, u \in Seq(Blocks) : (s \o t) \o u = s \o (t \o u)
      BY ConcatAssociative
    <3>3. rest \in Seq(Blocks) /\ full \in Seq(Blocks) /\ empty \in Seq(Blocks)
      BY <1>1 DEF Placed
    <3>4. (rest \o full) \o (empty \o Headed(head)) = rest \o (full \o (empty \o Headed(head)))
      BY Zenon, <2>2, <3>2, <3>3
    <3>5. ((rest \o full) \o empty) \o Headed(head) = (rest \o full) \o (empty \o Headed(head))
      BY Zenon, <2>1, <3>1, <3>2, <3>3
    <3>6. QED BY Zenon, <3>4, <3>5
  <2>6. IsInjective(rest \o full \o empty \o IF head = None THEN <<>> ELSE <<head>>)
    BY Zenon, <2>4, <2>5 DEF Headed
  <2>7. QED BY <1>1, <2>6 DEF Typed, Placed, TypeOK
<1>2. Framed => TypeOK
  BY <1>1 DEF Framed
<1>3. QED BY Frame, <1>2, PTL
-----------------------------------------------------------------------------
(***************************************************************************)
(* The room in a new head.  A block that was left out may be swept while   *)
(* the collector marks, which clears marks that were set, so that what is  *)
(* in use in it is at risk.  The order of the lists says that this cycle's *)
(* sweep comes to such a block, or the mutator takes it for its head: then *)
(* an object in use is freed, and what the program does from there on is   *)
(* undefined.  Until then the marked slots of a block are in use, and a    *)
(* sweep takes no room away.                                               *)
(***************************************************************************)

\* Block c is behind b in the list s.
Behind(s, b, c) == \E i, j \in 1..Len(s) : i < j /\ s[i] = b /\ s[j] = c

Agreeing ==
  /\ \A b \in Blocks : mark[b] \subseteq used[b]
  /\ \A o \in todo : o[2] \in used[o[1]]
  /\ \A b \in Blocks \ InUse : used[b] = {}

\* The next sweep of b frees an object in use.
AtRisk(b) == dirty[b] # mask /\ \E s \in Slots : <<b, s>> \in kept /\ s \notin mark[b]

\* The walk is yet to come to b, or the mutator is about to sweep it.
Ahead(b) ==
  \/ b = head /\ mpc = "sweep"
  \/ gpc = "start" /\ (b \in ToSet(full) \/ (rest # <<>> /\ b = rest[1]))
  \/ gpc = "visit" /\ b = cur
  \/ gpc \in {"visit", "sweeping", "step"} /\ pass = "rest" /\ b \in ToSet(full)
  \/ gpc \in {"visit", "sweeping", "step"} /\ pass = "full" /\ Behind(full, cur, b)

Marking ==
  \A b \in Blocks, s \in Slots :
    /\ <<b, s>> \in kept => s \in mark[b] \/ <<b, s>> \in todo \/ b = head \/ b \in ToSet(full)
    /\ <<b, s>> \in todo /\ dirty[b] # mask => s \in mark[b]

Risks ==
  /\ gpc = "mark" => Marking
  /\ gpc # "mark" => \A b \in Blocks : AtRisk(b) => Ahead(b)

Roomy == mpc \in {"sweep", "alloc"} => HasRoom(head)

LEMMA PushedBehind == ASSUME NEW s \in Seq(Blocks), NEW d \in Blocks, NEW b, NEW c, Behind(s, b, c)
                      PROVE  Behind(<<d>> \o s, b, c)
<1> DEFINE t == <<d>> \o s
<1>1. Len(t) = Len(s) + 1 /\ \A i \in 1..Len(s) : t[i + 1] = s[i]
  OBVIOUS
<1>2. PICK i, j \in 1..Len(s) : i < j /\ s[i] = b /\ s[j] = c
  BY DEF Behind
<1> HIDE DEF t
<1>3. /\ i + 1 \in 1..Len(t) /\ j + 1 \in 1..Len(t) /\ i + 1 < j + 1
      /\ t[i + 1] = b /\ t[j + 1] = c
  BY <1>1, <1>2
<1>4. Behind(t, b, c)
  BY Zenon, <1>3 DEF Behind
<1>5. QED BY <1>4 DEF t

\* The order of the blocks that others are moved in front of stays.
LEMMA MovedBehind == ASSUME NEW s \in Seq(Blocks), NEW S, NEW onto \in Seq(Blocks),
                            NEW b, NEW c, Behind(onto, b, c)
                     PROVE  Behind(Moved(s, S, onto), b, c)
<1>1. PICK f : /\ Moved(s, S, onto) = f[Len(s)]
               /\ f[0] = onto
               /\ \A i \in 1..Len(s) :
                    f[i] = IF s[i] \in S THEN <<s[i]>> \o f[i - 1] ELSE f[i - 1]
  BY MovedIs
<1> DEFINE Good(n) == f[n] \in Seq(Blocks) /\ Behind(f[n], b, c)
           Failing == {n \in 0..Len(s) : ~ Good(n)}
<1>2. Good(0)
  BY <1>1
<1>3. ASSUME NEW n \in 1..Len(s), Good(n - 1)
      PROVE  Good(n)
  <2> DEFINE g == f[n - 1]
  <2>1. g \in Seq(Blocks) /\ Behind(g, b, c) /\ s[n] \in Blocks
    BY <1>3
  <2>2. f[n] = IF s[n] \in S THEN <<s[n]>> \o g ELSE g
    BY <1>1
  <2> HIDE DEF g
  <2>3. <<s[n]>> \o g \in Seq(Blocks)
    BY <2>1
  <2>4. Behind(<<s[n]>> \o g, b, c)
    BY <2>1, PushedBehind
  <2>5. QED BY Zenon, <2>1, <2>2, <2>3, <2>4
<1>4. Good(Len(s))
  <2> SUFFICES ASSUME Failing # {} PROVE FALSE
    OBVIOUS
  <2>1. PICK n \in Failing : \A m \in Failing : n <= m
    <3> HIDE DEF Failing, Good
    <3>1. Failing \in SUBSET Nat
      BY DEF Failing
    <3>2. QED BY <3>1, Least
  <2> HIDE DEF Good
  <2>2. n # 0 /\ n \in 0..Len(s) /\ ~ Good(n)
    BY <1>2, <2>1
  <2>3. n \in 1..Len(s) /\ n - 1 \in 0..Len(s) /\ n - 1 \notin Failing
    BY <2>1, <2>2
  <2>4. Good(n - 1)
    BY <2>3
  <2>5. QED BY <1>3, <2>2, <2>3, <2>4
<1>5. QED BY Zenon, <1>1, <1>4

\* What next_head leaves of the order, and the room in what it takes from rest.
LEMMA NextHeadOrder == ASSUME Placed, NextHead
                       PROVE  /\ head' \in ToSet(rest) => HasRoom(head')
                              /\ ToSet(full) \cup ({head} \ {None}) \subseteq ToSet(full')
                              /\ rest # <<>> => rest[1] \notin ToSet(rest')
                              /\ \A b, c : Behind(full, b, c) => Behind(full', b, c)
<1> DEFINE i == SelectInSeq(rest, HasRoom)
           skipped == IF i = 0 THEN rest ELSE SubSeq(rest, 1, i - 1)
           left == IF i = 0 THEN <<>> ELSE SubSeq(rest, i + 1, Len(rest))
           behind == Headed(head) \o full
<1>1. i \in 0..Len(rest) /\ (i # 0 => HasRoom(rest[i]))
  BY FirstIsIndex DEF Placed
<1>2. /\ full' = Moved(skipped, Blocks, behind) /\ rest' = left
      /\ \/ i # 0 /\ head' = rest[i]
         \/ i = 0 /\ empty # <<>> /\ head' = Head(empty)
         \/ i = 0 /\ head' \in Blocks \ Allocated
  BY Zenon DEF NextHead, Headed
<1>3. /\ skipped \in Seq(Blocks) /\ IsInjective(skipped)
      /\ ToSet(skipped) \subseteq ToSet(rest) /\ ToSet(skipped) \subseteq Blocks
      /\ rest # <<>> => rest[1] \notin ToSet(left)
  <2>1. CASE i = 0
    <3>1. skipped = rest /\ left = <<>>
      BY <2>1
    <3> HIDE DEF skipped, left
    <3>2. QED BY <3>1, EmptyList, Members DEF Placed
  <2>2. CASE i # 0
    <3>1. skipped = SubSeq(rest, 1, i - 1) /\ left = SubSeq(rest, i + 1, Len(rest))
      BY Zenon, <2>2
    <3>2. i \in 1..Len(rest)
      <4> HIDE DEF i
      <4>1. QED BY <1>1, <2>2
    <3> HIDE DEF skipped, left, i
    <3>3. /\ skipped \in Seq(Blocks) /\ IsInjective(skipped)
          /\ ToSet(rest) = ToSet(skipped) \cup ToSet(left) \cup {rest[i]}
      BY <3>1, <3>2, Cut DEF Placed
    <3>4. rest[1] \notin ToSet(left)
      <4>1. left \in Seq(Blocks) /\ \A k \in 1..Len(left) : k + i \in 1..Len(rest) /\ left[k] = rest[k + i]
        BY <3>1, <3>2 DEF Placed
      <4>2. \A k, m \in 1..Len(rest) : rest[k] = rest[m] => k = m
        BY Members DEF Placed
      <4>3. ASSUME NEW k \in 1..Len(left)
            PROVE  left[k] # rest[1]
        <5>1. k + i \in 1..Len(rest) /\ 1 \in 1..Len(rest) /\ k + i # 1 /\ left[k] = rest[k + i]
          BY <3>2, <4>1
        <5>2. QED BY <4>2, <5>1
      <4>4. QED BY <4>1, <4>3, Members
    <3>5. ToSet(rest) \subseteq Blocks
      BY Members DEF Placed
    <3>6. QED BY <3>3, <3>4, <3>5
  <2>3. QED BY Zenon, <2>1, <2>2
<1>4. /\ behind \in Seq(Blocks) /\ IsInjective(behind)
      /\ ToSet(behind) = ToSet(full) \cup ({head} \ {None})
  BY HeadedList DEF Placed
<1>5. ASSUME NEW b, NEW c, Behind(full, b, c)
      PROVE  Behind(behind, b, c)
  <2>1. CASE head = None
    <3>1. behind = full
      BY <2>1 DEF Headed, Placed
    <3> HIDE DEF behind
    <3>2. QED BY <1>5, <3>1
  <2>2. CASE head # None
    <3>1. head \in Blocks /\ behind = <<head>> \o full
      BY <2>2 DEF Headed, Placed
    <3> HIDE DEF behind
    <3>2. QED BY <1>5, <3>1, PushedBehind DEF Placed
  <2>3. QED BY <2>1, <2>2
<1> HIDE DEF skipped, left, behind
<1>6. head' \in ToSet(rest) => HasRoom(head')
  <2> HIDE DEF i
  <2>1. empty # <<>> => Head(empty) \in ToSet(empty)
    BY Popped DEF Placed
  <2>2. i = 0 => head' \notin ToSet(rest)
    BY <1>2, <2>1 DEF Placed, Allocated
  <2>3. QED BY <1>1, <1>2, <2>2
<1>7. ToSet(skipped) \cap ToSet(behind) = {}
  BY <1>3, <1>4 DEF Placed
<1>8. ToSet(Moved(skipped, Blocks, behind)) = ToSet(behind) \cup (ToSet(skipped) \cap Blocks)
  BY <1>3, <1>4, <1>7, MovedList
<1>9. \A b, c : Behind(full, b, c) => Behind(full', b, c)
  <2>1. ASSUME NEW b, NEW c, Behind(full, b, c)
        PROVE  Behind(full', b, c)
    <3>1. Behind(Moved(skipped, Blocks, behind), b, c)
      BY <1>3, <1>4, <1>5, <2>1, MovedBehind
    <3>2. QED BY <1>2, <3>1
  <2>2. QED BY <2>1
<1>10. QED BY <1>2, <1>3, <1>4, <1>6, <1>8, <1>9

(***************************************************************************)
(* What each step does to the marks and to the risks.                      *)
(***************************************************************************)
Sound == Agreeing /\ Risks

LEMMA NothingUnused == ASSUME Typed, Agreeing, Intact, NEW b \in Blocks, b \notin InUse, NEW s \in Slots
                       PROVE  <<b, s>> \notin kept /\ <<b, s>> \notin todo
<1>1. used[b] = {}
  BY DEF Agreeing
<1>2. \A o \in kept \cup todo : o[2] \in used[o[1]]
  BY DEF Agreeing, Intact
<1>3. QED BY <1>1, <1>2

LEMMA AllocSound == ASSUME IInv, Sound, mpc # "sweep", head \in Blocks, Alloc(head), mpc' # "sweep"
                    PROVE  Sound'
<1> USE DEF IInv, Framed, Typed, Placed
<1>1. /\ UNCHANGED <<gpc, cur, pass, todo, mask, head, rest, full, empty, dirty, mark>>
      /\ dirty[head] = mask
  BY SharedHeapAssumption DEF Alloc, walk, lists, HeadClean
<1>2. PICK s \in Slots : /\ used' = [used EXCEPT ![head] = @ \cup {s}]
                         /\ kept' = kept \/ kept' = kept \cup {<<head, s>>}
  BY DEF Alloc, Take, Done
<1>3. Agreeing'
  <2>1. head \in InUse /\ InUse' = InUse
    BY <1>1, SharedHeapAssumption DEF InUse
  <2>2. ASSUME NEW b \in Blocks
        PROVE  mark'[b] \subseteq used'[b] /\ (b \notin InUse => used'[b] = {})
    BY <1>1, <1>2, <2>1 DEF Sound, Agreeing
  <2>3. ASSUME NEW o \in todo
        PROVE  o[2] \in used'[o[1]]
    <3>1. o[2] \in used[o[1]] /\ o[1] \in Blocks
      BY DEF Sound, Agreeing, Objects
    <3>2. QED BY <1>2, <3>1
  <2>4. QED BY <1>1, <2>1, <2>2, <2>3 DEF Agreeing
<1>4. ASSUME gpc = "mark"
      PROVE  Marking'
  <2>1. Marking
    BY <1>4 DEF Sound, Risks
  <2>2. \A b \in Blocks, i \in Slots : <<b, i>> \in kept' => <<b, i>> \in kept \/ b = head
    BY <1>2
  <2>3. QED BY <1>1, <2>1, <2>2 DEF Marking
<1>5. ASSUME gpc # "mark", NEW b \in Blocks, AtRisk(b)'
      PROVE  Ahead(b)'
  <2>1. b # head
    BY <1>1, <1>5 DEF AtRisk
  <2>2. AtRisk(b)
    <3>1. \A i \in Slots : <<b, i>> \in kept' <=> <<b, i>> \in kept
      BY <1>2, <2>1
    <3>2. QED BY <1>1, <1>5, <3>1 DEF AtRisk
  <2>3. Ahead(b)
    BY <1>5, <2>2 DEF Sound, Risks
  <2>4. QED BY <1>1, <2>1, <2>3 DEF Ahead
<1>6. QED BY <1>1, <1>3, <1>4, <1>5 DEF Sound, Risks

\* The marks that go are marks of the head, which is clean.
LEMMA SetMarkSound == ASSUME IInv, Sound, SetMark
                      PROVE  Sound'
<1> USE DEF IInv, Framed, Typed, Placed
<1>1. /\ UNCHANGED <<gpc, cur, pass, todo, mask, head, rest, full, empty, dirty, used>>
      /\ gpc = "mark" /\ head \in Blocks /\ dirty[head] = mask
  BY SharedHeapAssumption DEF SetMark, walk, lists, HeadClean, Reading
<1>2. /\ pending.slot \in used[head] /\ pending.marks \subseteq mark[head]
      /\ kept' = kept \cup {<<head, pending.slot>>}
  BY DEF SetMark, Done, Reading
<1>3. /\ mark'[head] \subseteq mark[head] \cup {pending.slot}
      /\ \A b \in Blocks : b # head => mark'[b] = mark[b]
  BY <1>1, <1>2 DEF SetMark
<1>4. Agreeing'
  <2>1. InUse' = InUse
    BY <1>1 DEF InUse
  <2>2. \A b \in Blocks : mark'[b] \subseteq used[b]
    BY <1>1, <1>2, <1>3 DEF Sound, Agreeing
  <2>3. QED BY <1>1, <2>1, <2>2 DEF Sound, Agreeing
<1>5. Marking'
  <2>1. Marking
    BY <1>1 DEF Sound, Risks
  <2>2. QED BY <1>1, <1>2, <1>3, <2>1 DEF Marking
<1>6. QED BY <1>1, <1>4, <1>5 DEF Sound, Risks

LEMMA NextHeadSound == ASSUME IInv, Sound, Intact, NextHead
                       PROVE  Sound' /\ HasRoom(head)'
<1> USE DEF IInv, Framed, Typed
<1>1. /\ UNCHANGED <<gpc, cur, pass, todo, mask, used, mark, kept>>
      /\ mpc = "run" /\ mpc' = "sweep"
  BY DEF NextHead, walk
<1>2. /\ InUse' = InUse \cup {head'} /\ head' \in Blocks
      /\ head' \in ToSet(rest) \/ head' \notin InUse
      /\ ToSet(rest') \subseteq ToSet(rest)
      /\ head' \in Allocated => UNCHANGED dirty
      /\ head' \notin Allocated => dirty' = [dirty EXCEPT ![head'] = FALSE]
  BY NextHeadLists
<1>3. /\ head' \in ToSet(rest) => HasRoom(head')
      /\ ToSet(full) \cup ({head} \ {None}) \subseteq ToSet(full')
      /\ rest # <<>> => rest[1] \notin ToSet(rest')
      /\ \A b, c : Behind(full, b, c) => Behind(full', b, c)
  BY NextHeadOrder
<1>4. HasRoom(head)'
  <2>1. head' \notin InUse => used[head'] = {}
    BY <1>2 DEF Sound, Agreeing
  <2>2. 1 \in Slots
    BY SharedHeapAssumption DEF Slots
  <2>3. QED BY <1>1, <1>2, <1>3, <2>1, <2>2 DEF HasRoom, Full
<1>5. Agreeing'
  BY <1>1, <1>2 DEF Sound, Agreeing
<1>6. ASSUME NEW b \in Blocks, dirty'[b] # dirty[b], NEW s \in Slots
      PROVE  <<b, s>> \notin kept /\ <<b, s>> \notin todo
  <2>1. b \notin InUse
    BY <1>2, <1>6 DEF InUse, Allocated
  <2>2. QED BY <2>1, NothingUnused DEF Sound
<1>7. ASSUME gpc = "mark"
      PROVE  Marking'
  <2>1. Marking
    BY <1>7 DEF Sound, Risks
  <2>2. ASSUME NEW b \in Blocks, b = head \/ b \in ToSet(full)
        PROVE  b \in ToSet(full')
    BY <1>3, <2>2, SharedHeapAssumption
  <2>3. QED BY <1>1, <1>6, <2>1, <2>2 DEF Marking
<1>8. ASSUME gpc # "mark", NEW b \in Blocks, AtRisk(b)'
      PROVE  Ahead(b)'
  <2>1. AtRisk(b)
    BY <1>1, <1>6, <1>8 DEF AtRisk
  <2>2. Ahead(b) /\ mpc = "run"
    BY <1>1, <1>8, <2>1 DEF Sound, Risks
  <2>3. CASE rest # <<>> /\ b = rest[1]
    <3>1. b \in InUse'
      <4>1. rest[1] \in ToSet(rest)
        BY SMTT(30), <2>3, Members DEF Placed
      <4>2. QED BY <1>2, <2>3, <4>1 DEF InUse
    <3>2. b = head' \/ b \in ToSet(full')
      BY <1>3, <2>3, <3>1 DEF InUse
    <3>3. CASE gpc = "start"
      BY <1>1, <3>2, <3>3 DEF Ahead
    <3>4. CASE gpc # "start"
      BY <1>1, <1>3, <2>2, <3>4 DEF Ahead
    <3>5. QED BY <3>3, <3>4
  <2>4. CASE ~(rest # <<>> /\ b = rest[1])
    BY <1>1, <1>3, <2>2, <2>4 DEF Ahead
  <2>5. QED BY <2>3, <2>4
<1>9. QED BY <1>1, <1>4, <1>5, <1>7, <1>8 DEF Sound, Risks

\* A head at risk loses an object here, and is at risk no longer.
LEMMA SweepHeadSound == ASSUME IInv, Sound, HasRoom(head), SweepHead
                        PROVE  Sound' /\ HasRoom(head)'
<1> USE DEF IInv, Framed, Typed
<1>1. /\ UNCHANGED <<gpc, cur, pass, todo, mask, head, rest, full, empty, kept>>
      /\ head \in Blocks
  BY DEF SweepHead, walk, lists, Placed
<1>2. CASE dirty[head] = mask
  <2>1. UNCHANGED <<dirty, used, mark>>
    BY <1>2 DEF SweepHead, bits
  <2>2. ASSUME NEW b \in Blocks, AtRisk(b)', gpc # "mark"
        PROVE  Ahead(b)'
    <3>1. AtRisk(b) /\ b # head
      BY <1>1, <1>2, <2>1, <2>2 DEF AtRisk
    <3>2. Ahead(b)
      BY <2>2, <3>1 DEF Sound, Risks
    <3>3. QED BY <1>1, <3>1, <3>2 DEF Ahead
  <2>3. QED BY <1>1, <2>1, <2>2 DEF Sound, Agreeing, Risks, Marking, HasRoom, Full, InUse
<1>3. CASE dirty[head] # mask
  <2>1. /\ dirty' = [dirty EXCEPT ![head] = mask]
        /\ used' = [used EXCEPT ![head] = mark[head]] /\ mark' = [mark EXCEPT ![head] = {}]
    BY <1>3 DEF SweepHead, Swept
  <2>2. mark[head] \subseteq used[head] /\ used[head] \subseteq Slots /\ used[head] # Slots
    BY <1>1 DEF Sound, Agreeing, HasRoom, Full
  <2>3. HasRoom(head)'
    BY <1>1, <2>1, <2>2 DEF HasRoom, Full
  <2>4. Agreeing'
    <3>1. head \in InUse /\ InUse' = InUse
      BY <1>1, SharedHeapAssumption DEF InUse
    <3>2. ASSUME NEW b \in Blocks
          PROVE  mark'[b] \subseteq used'[b] /\ (b \notin InUse => used'[b] = {})
      BY <2>1, <3>1 DEF Sound, Agreeing
    <3>3. ASSUME NEW o \in todo
          PROVE  o[2] \in used'[o[1]]
      <4>1. o[2] \in used[o[1]] /\ o[1] \in Blocks /\ o[2] \in Slots /\ o = <<o[1], o[2]>> /\ gpc = "mark"
        BY DEF Sound, Agreeing, Objects, Sweeping
      <4>2. CASE o[1] = head
        <5>1. o[2] \in mark[head]
          BY <1>3, <4>1, <4>2 DEF Sound, Risks, Marking
        <5>2. QED BY <1>1, <2>1, <4>2, <5>1
      <4>3. CASE o[1] # head
        BY <2>1, <4>1, <4>3
      <4>4. QED BY <4>2, <4>3
    <3>4. QED BY <1>1, <3>1, <3>2, <3>3 DEF Agreeing
  <2>5. ASSUME gpc = "mark"
        PROVE  Marking'
    <3>1. Marking
      BY <2>5 DEF Sound, Risks
    <3>2. QED BY <1>1, <2>1, <3>1 DEF Marking
  <2>6. ASSUME gpc # "mark", NEW b \in Blocks, AtRisk(b)'
        PROVE  Ahead(b)'
    <3>1. b # head
      BY <1>1, <2>1, <2>6 DEF AtRisk
    <3>2. AtRisk(b)
      BY <1>1, <2>1, <2>6, <3>1 DEF AtRisk
    <3>3. Ahead(b)
      BY <2>6, <3>2 DEF Sound, Risks
    <3>4. QED BY <1>1, <3>1, <3>3 DEF Ahead
  <2>7. QED BY <1>1, <2>3, <2>4, <2>5, <2>6 DEF Sound, Risks
<1>4. QED BY <1>2, <1>3

LEMMA DropSound == ASSUME IInv, Sound, NEW o \in Objects, Drop(o)
                   PROVE  Sound'
<1>1. /\ UNCHANGED <<gpc, cur, pass, todo, mask, head, rest, full, dirty, used, mark, mpc>>
      /\ kept' \subseteq kept
  BY DEF Drop, walk, lists, bits
<1>2. QED BY <1>1 DEF Sound, Agreeing, Risks, Marking, AtRisk, Ahead, InUse

LEMMA StartMarkingSound == ASSUME IInv, Sound, Intact, StartMarking
                           PROVE  Sound'
<1> USE DEF IInv, Framed, Typed, Placed
<1>1. /\ gpc = "idle" /\ mpc = "run" /\ gpc' = "mark" /\ todo' = kept
      /\ UNCHANGED <<cur, mask, head, rest, full, kept>>
  BY DEF StartMarking
<1>2. InUse' = InUse /\ ToSet(empty) \cap InUse = {}
  BY <1>1 DEF InUse
<1>3. \A b \in Blocks : \/ b \notin InUse /\ used'[b] = {} /\ mark'[b] = {}
                        \/ used'[b] = used[b] /\ mark'[b] = mark[b] /\ dirty'[b] = dirty[b]
  BY <1>2 DEF StartMarking
<1>4. \A o \in kept : o[2] \in used[o[1]] /\ o[1] \in InUse /\ o[1] \in Blocks
  <2>1. ASSUME NEW o \in kept
        PROVE  o[2] \in used[o[1]] /\ o[1] \in InUse /\ o[1] \in Blocks
    BY DEF Objects, Intact, Sound, Agreeing
  <2>2. QED BY <2>1
<1>5. Agreeing'
  BY <1>1, <1>2, <1>3, <1>4 DEF Sound, Agreeing
<1>6. ASSUME NEW b \in Blocks, NEW s \in Slots, <<b, s>> \in kept, dirty'[b] # mask
      PROVE  s \in mark'[b]
  <2>1. b \in InUse
    BY <1>4, <1>6
  <2>2. mark'[b] = mark[b] /\ dirty[b] # mask
    BY <1>3, <1>6, <2>1
  <2>3. ~ Ahead(b)
    BY <1>1 DEF Ahead
  <2>4. ~ AtRisk(b)
    BY <1>1, <2>3 DEF Sound, Risks
  <2>5. QED BY <1>6, <2>2, <2>4 DEF AtRisk
<1>7. Marking'
  BY <1>1, <1>6 DEF Marking
<1>8. QED BY <1>1, <1>5, <1>7 DEF Sound, Risks

LEMMA MarkSound == ASSUME IInv, Sound, NEW o \in Objects, Mark(o)
                   PROVE  Sound'
<1> USE DEF IInv, Framed, Typed
<1>1. /\ UNCHANGED <<gpc, cur, mask, head, rest, full, dirty, used, kept>>
      /\ gpc = "mark" /\ o \in todo /\ todo' \in {todo, todo \ {o}}
      /\ mark' = [mark EXCEPT ![o[1]] = @ \cup {o[2]}]
      /\ o = <<o[1], o[2]>> /\ o[1] \in Blocks /\ o[2] \in Slots
  BY DEF Mark, walk, lists, Objects
<1>2. Agreeing /\ Marking
  BY <1>1 DEF Sound, Risks
<1>3. Agreeing'
  <2>1. o[2] \in used[o[1]]
    BY <1>1, <1>2 DEF Agreeing
  <2>2. QED BY <1>1, <1>2, <2>1 DEF Agreeing, InUse
<1>4. ASSUME NEW b \in Blocks, NEW s \in Slots
      PROVE  /\ s \in mark[b] => s \in mark'[b]
             /\ <<b, s>> \in todo => s \in mark'[b] \/ <<b, s>> \in todo'
  BY <1>1
<1>5. Marking'
  BY <1>1, <1>2, <1>4 DEF Marking
<1>6. QED BY <1>1, <1>3, <1>5 DEF Sound, Risks

LEMMA FinishMarkingSound == ASSUME IInv, Sound, FinishMarking
                            PROVE  Sound'
<1> USE DEF IInv, Framed, Typed
<1>1. /\ gpc = "mark" /\ todo = {} /\ mpc = "run" /\ gpc' = "start" /\ head' = None
      /\ rest' = Headed(head) \o rest
      /\ UNCHANGED <<todo, full, used, mark, kept>>
  BY DEF FinishMarking, bits, Headed
<1>2. ToSet(rest') = ToSet(rest) \cup ({head} \ {None}) /\ rest' \in Seq(Blocks)
  BY FinishMarkingLists DEF Placed
<1>3. Agreeing'
  BY <1>1, <1>2 DEF Sound, Agreeing, InUse
<1>4. ASSUME NEW b \in Blocks, AtRisk(b)'
      PROVE  Ahead(b)'
  <2>1. b = head \/ b \in ToSet(full)
    BY <1>1, <1>4 DEF Sound, Risks, Marking, AtRisk
  <2>2. b = head => rest' # <<>> /\ b = rest'[1]
    <3>1. b = head => rest' = <<b>> \o rest /\ rest \in Seq(Blocks)
      BY <1>1, SharedHeapAssumption DEF Headed, Placed
    <3>2. QED BY <3>1
  <2>3. QED BY <1>1, <2>1, <2>2 DEF Ahead
<1>5. QED BY <1>1, <1>3, <1>4 DEF Sound, Risks

\* Where the walk goes next: on behind cur, to the front of full, or to its end.
LEMMA WalkOn == ASSUME IInv, Sound, Step \/ StartSweep, ~ EndSweep, NEW b \in Blocks, Ahead(b)
                PROVE  Ahead(b)'
<1> USE DEF IInv, Framed, Typed
<1>1. /\ gpc \in {"step", "start"} /\ gpc' = "visit"
      /\ UNCHANGED <<head, rest, full, mpc>>
  BY Steps DEF lists
<1>2. CASE b = head /\ mpc = "sweep"
  BY <1>1, <1>2 DEF Ahead
<1>3. CASE b \in ToSet(full) /\ pass' = "rest"
  BY <1>1, <1>3 DEF Ahead
<1>4. CASE b = cur'
  BY <1>1, <1>4 DEF Ahead
<1>5. CASE b \in ToSet(full) /\ cur' = Head(full) /\ pass' = "full"
  <2>1. PICK j \in 1..Len(full) : full[j] = b
    BY <1>5, Members DEF Placed
  <2>2. 1 \in 1..Len(full) /\ full[1] = cur'
    BY <1>5, <2>1 DEF Placed
  <2>3. CASE j = 1
    BY <1>4, <2>1, <2>2, <2>3
  <2>4. CASE j # 1
    <3>1. 1 < j
      BY <2>1, <2>4
    <3>2. Behind(full, cur', b)
      BY <2>1, <2>2, <3>1 DEF Behind
    <3>3. QED BY <1>1, <1>5, <3>2 DEF Ahead
  <2>5. QED BY <2>3, <2>4
<1>6. CASE StartSweep
  <2>1. BeginPass("rest") /\ gpc = "start"
    BY <1>6 DEF StartSweep
  <2>2. \/ rest # <<>> /\ cur' = Head(rest) /\ pass' = "rest"
        \/ rest = <<>> /\ cur' = Head(full) /\ pass' = "full"
    BY <2>1 DEF BeginPass
  <2>3. rest # <<>> => Head(rest) = rest[1]
    BY DEF Placed
  <2>4. QED BY <1>2, <1>3, <1>4, <1>5, <2>1, <2>2, <2>3 DEF Ahead
<1>7. CASE Step /\ pass = "rest"
  <2>1. \/ UNCHANGED pass
        \/ cur' = Head(full) /\ pass' = "full"
    BY <1>7 DEF Step, BeginPass
  <2>2. gpc = "step"
    BY <1>7 DEF Step
  <2>3. QED BY <1>2, <1>3, <1>5, <1>7, <2>1, <2>2 DEF Ahead
<1>8. CASE Step /\ pass # "rest" /\ ~(b = head /\ mpc = "sweep")
  <2>1. cur' \in Successors(cur) /\ UNCHANGED pass /\ pass = "full" /\ gpc = "step"
    BY <1>8 DEF Step
  <2>2. PICK i, j \in 1..Len(full) : i < j /\ full[i] = cur /\ full[j] = b
    BY <1>8, <2>1 DEF Ahead, Behind
  <2>3. \A k \in 1..Len(rest) : rest[k] # cur
    BY <2>2, Members DEF Placed
  <2>4. \A k \in 1..Len(full) : full[k] = cur => k = i
    BY <2>2, Members DEF Placed
  <2>5. cur' = full[i + 1]
    <3>1. PICK list \in {rest, full} : \E k \in 1..(Len(list) - 1) : list[k] = cur /\ list[k + 1] = cur'
      BY <2>1 DEF Successors
    <3>2. PICK k \in 1..(Len(list) - 1) : list[k] = cur /\ list[k + 1] = cur'
      BY <3>1
    <3>3. k \in 1..Len(list)
      BY <3>2 DEF Placed
    <3>4. list = full
      BY <2>3, <3>1, <3>2, <3>3
    <3>5. QED BY <2>4, <3>2, <3>3, <3>4
  <2>6. CASE j = i + 1
    BY <1>4, <2>2, <2>5, <2>6
  <2>7. CASE j # i + 1
    <3>1. i + 1 \in 1..Len(full) /\ i + 1 < j
      BY <2>2, <2>7 DEF Placed
    <3>2. Behind(full, cur', b)
      BY <2>2, <2>5, <3>1 DEF Behind
    <3>3. QED BY <1>1, <2>1, <3>2 DEF Ahead
  <2>8. QED BY <2>6, <2>7
<1>9. QED BY <1>2, <1>6, <1>7, <1>8

\* When the walk ends nothing is behind it.
LEMMA WalkEnds == ASSUME IInv, Step \/ StartSweep, EndSweep, NEW b \in Blocks, Ahead(b)
                  PROVE  b = head /\ mpc = "sweep"
<1> USE DEF IInv, Framed, Typed
<1>1. SUFFICES ASSUME ~(b = head /\ mpc = "sweep")
               PROVE  FALSE
  OBVIOUS
<1>2. gpc' = "idle"
  BY DEF EndSweep
<1>3. full = <<>> => b \notin ToSet(full)
  BY EmptyList
<1>4. CASE StartSweep
  <2>1. rest = <<>> /\ full = <<>> /\ gpc = "start"
    BY <1>2, <1>4 DEF StartSweep, BeginPass
  <2>2. QED BY <1>1, <1>3, <2>1 DEF Ahead
<1>5. CASE Step /\ pass = "rest"
  <2>1. full = <<>> /\ gpc = "step"
    BY <1>2, <1>5 DEF Step, BeginPass
  <2>2. QED BY <1>1, <1>3, <1>5, <2>1 DEF Ahead
<1>6. CASE Step /\ pass # "rest"
  <2>1. Successors(cur) = {} /\ pass = "full" /\ gpc = "step"
    BY <1>2, <1>6 DEF Step
  <2>2. PICK i, j \in 1..Len(full) : i < j /\ full[i] = cur /\ full[j] = b
    BY <1>1, <2>1 DEF Ahead, Behind
  <2>3. i \in 1..(Len(full) - 1) /\ i + 1 \in 1..Len(full)
    BY <2>2 DEF Placed
  <2>4. full[i + 1] \in Blocks
    BY <2>3 DEF Placed
  <2>5. full[i + 1] \in Successors(cur)
    BY <2>2, <2>3, <2>4 DEF Successors
  <2>6. QED BY <2>1, <2>5
<1>7. QED BY <1>4, <1>5, <1>6

LEMMA StepSound == ASSUME IInv, Sound, Step \/ StartSweep
                   PROVE  Sound'
<1> USE DEF IInv, Framed, Typed
<1>1. /\ gpc \in {"step", "start"} /\ gpc' \in {"idle", "visit"}
      /\ UNCHANGED <<todo, mask, head, dirty, used, mark, mpc, kept>>
  BY Steps DEF EndSweep, lists, bits
<1>2. Agreeing'
  <2>1. CASE EndSweep
    <3>1. /\ ToSet(empty') = ToSet(empty) \cup {b \in ToSet(full) : used[b] = {}}
          /\ InUse \subseteq InUse' \cup ToSet(empty')
      BY <1>1, <2>1, EndSweepLists
    <3>2. ToSet(empty) \cap InUse = {}
      BY DEF Placed, InUse
    <3>3. ASSUME NEW b \in Blocks \ InUse'
          PROVE  used[b] = {}
      BY <3>1, <3>2 DEF Sound, Agreeing
    <3>4. QED BY <1>1, <3>3 DEF Sound, Agreeing
  <2>2. CASE ~ EndSweep
    <3>1. UNCHANGED lists
      BY <2>2, Steps
    <3>2. InUse' = InUse
      BY <3>1 DEF InUse, lists
    <3>3. QED BY <1>1, <3>2 DEF Sound, Agreeing
  <2>3. QED BY <2>1, <2>2
<1>3. ASSUME NEW b \in Blocks, AtRisk(b)'
      PROVE  Ahead(b)'
  <2>1. AtRisk(b)
    BY <1>1, <1>3 DEF AtRisk
  <2>2. Ahead(b)
    BY <1>1, <2>1 DEF Sound, Risks
  <2>3. CASE EndSweep
    BY <1>1, <2>2, <2>3, WalkEnds DEF Ahead
  <2>4. CASE ~ EndSweep
    BY <2>2, <2>4, WalkOn
  <2>5. QED BY <2>3, <2>4
<1>4. QED BY <1>1, <1>2, <1>3 DEF Sound, Risks

LEMMA VisitSound == ASSUME IInv, Sound, Visit
                    PROVE  Sound'
<1> USE DEF IInv, Framed, Typed
<1>1. /\ gpc = "visit" /\ gpc' \in {"sweeping", "step"}
      /\ dirty' = [dirty EXCEPT ![cur] = mask] /\ cur \in Blocks
      /\ UNCHANGED <<cur, pass, todo, mask, head, rest, full, used, mark, mpc, kept>>
  BY DEF Visit, lists
<1>2. Agreeing'
  BY <1>1 DEF Sound, Agreeing, InUse
<1>3. ASSUME NEW b \in Blocks, AtRisk(b)'
      PROVE  Ahead(b)'
  <2>1. b # cur /\ AtRisk(b)
    BY <1>1, <1>3 DEF AtRisk
  <2>2. Ahead(b)
    BY <1>1, <2>1 DEF Sound, Risks
  <2>3. QED BY <1>1, <2>1, <2>2 DEF Ahead
<1>4. QED BY <1>1, <1>2, <1>3 DEF Sound, Risks

LEMMA SweepBlockSound == ASSUME IInv, Sound, SweepBlock
                         PROVE  Sound' /\ (head \in Blocks /\ HasRoom(head) => HasRoom(head)')
<1> USE DEF IInv, Framed, Typed
<1>1. /\ gpc = "sweeping" /\ gpc' = "step" /\ cur \in Blocks /\ dirty[cur] = mask
      /\ used' = [used EXCEPT ![cur] = mark[cur]] /\ mark' = [mark EXCEPT ![cur] = {}]
      /\ UNCHANGED <<cur, pass, todo, mask, head, rest, full, dirty, mpc, kept>>
  BY DEF SweepBlock, Swept, lists, Walked
<1>2. todo = {}
  BY <1>1 DEF Sweeping
<1>3. mark[cur] \subseteq used[cur] /\ cur \in InUse
  BY <1>1 DEF Sound, Agreeing, Walked
<1>4. Agreeing'
  <2>1. InUse' = InUse
    BY <1>1 DEF InUse
  <2>2. ASSUME NEW b \in Blocks
        PROVE  mark'[b] \subseteq used'[b] /\ (b \notin InUse => used'[b] = {})
    BY <1>1, <1>3 DEF Sound, Agreeing
  <2>3. QED BY <1>1, <1>2, <2>1, <2>2 DEF Agreeing
<1>5. ASSUME NEW b \in Blocks, AtRisk(b)'
      PROVE  Ahead(b)'
  <2>1. b # cur
    BY <1>1, <1>5 DEF AtRisk
  <2>2. AtRisk(b)
    BY <1>1, <1>5, <2>1 DEF AtRisk
  <2>3. Ahead(b)
    BY <1>1, <2>2 DEF Sound, Risks
  <2>4. QED BY <1>1, <2>1, <2>3 DEF Ahead
<1>6. ASSUME head \in Blocks, HasRoom(head)
      PROVE  HasRoom(head)'
  <2>1. used'[head] \subseteq used[head]
    BY <1>1, <1>3, <1>6
  <2>2. used[head] \subseteq Slots /\ used[head] # Slots
    BY <1>6 DEF HasRoom, Full
  <2>3. QED BY <1>1, <2>1, <2>2 DEF HasRoom, Full
<1>7. QED BY <1>1, <1>4, <1>5, <1>6 DEF Sound, Risks

LEMMA NextSound == ASSUME IInv, Sound, Roomy, [Intact /\ Next]_vars
                   PROVE  Sound' /\ Roomy'
<1>1. CASE UNCHANGED vars
  BY <1>1 DEF Sound, Agreeing, Risks, Marking, AtRisk, Ahead, InUse, Roomy, HasRoom, Full,
              vars, walk, lists, bits
<1>2. CASE AllocFast \/ AllocSlow
  <2>1. mpc # "sweep" /\ head \in Blocks /\ Alloc(head) /\ mpc' \in {"run", "mark"}
    BY <1>2 DEF AllocFast, AllocSlow, Alloc, Done, IInv, Framed, Placed
  <2>2. QED BY <2>1, AllocSound DEF Roomy
<1>3. CASE Intact /\ NextHead
  BY <1>3, NextHeadSound DEF Roomy
<1>4. CASE SweepHead
  <2>1. HasRoom(head)
    BY <1>4 DEF SweepHead, Roomy
  <2>2. QED BY <1>4, <2>1, SweepHeadSound DEF Roomy
<1>5. CASE SweepBlock
  <2>1. UNCHANGED <<head, mpc>> /\ (mpc # "run" => head \in Blocks)
    BY <1>5 DEF SweepBlock, lists, IInv, Framed, Placed
  <2>2. QED BY <1>5, <2>1, SweepBlockSound DEF Roomy
<1>6. CASE \E o \in Objects : Drop(o) \/ Mark(o)
  <2>1. UNCHANGED <<head, mpc, used>>
    BY <1>6 DEF Drop, Mark, lists, bits
  <2>2. QED BY <1>6, <2>1, DropSound, MarkSound DEF Roomy, HasRoom, Full
<1>7. CASE Intact /\ (StartMarking \/ FinishMarking)
  <2>1. mpc' = "run"
    BY <1>7 DEF StartMarking, FinishMarking
  <2>2. QED BY <1>7, <2>1, StartMarkingSound, FinishMarkingSound DEF Roomy
<1>8. CASE StartSweep \/ Step
  <2>1. UNCHANGED <<head, mpc, used>>
    BY <1>8, Steps DEF IInv, Framed, EndSweep, lists, bits
  <2>2. QED BY <1>8, <2>1, StepSound DEF Roomy, HasRoom, Full
<1>9. CASE Visit
  <2>1. UNCHANGED <<head, mpc, used>>
    BY <1>9 DEF Visit, lists
  <2>2. QED BY <1>9, <2>1, VisitSound DEF Roomy, HasRoom, Full
<1>10. CASE SetMark
  <2>1. mpc' = "run"
    BY <1>10 DEF SetMark, Done
  <2>2. QED BY <1>10, <2>1, SetMarkSound DEF Roomy
<1>11. QED
  BY <1>1, <1>2, <1>3, <1>4, <1>5, <1>6, <1>7, <1>8, <1>9, <1>10 DEF Next, Mutator, Collector

(***************************************************************************)
(* What block_t::alloc asserts: the new head has room, although it was     *)
(* chosen before it was swept, as long as no object in use was freed.      *)
(***************************************************************************)
THEOREM NewHeadsHaveRoom == UpToALoss => []NewHeadHasRoom
<1>1. Init => IInv /\ Sound /\ Roomy
  <2> SUFFICES ASSUME Init PROVE Sound /\ Roomy
    BY InitIInv
  <2>1. QED BY DEF Init, Sound, Agreeing, Risks, AtRisk, Roomy
<1>2. ASSUME IInv, Sound, Roomy, [Intact /\ Next]_vars
      PROVE  Sound' /\ Roomy'
  BY <1>2, NextSound
<1>3. Roomy => NewHeadHasRoom
  BY DEF Roomy, NewHeadHasRoom
<1>4. QED BY Invariant, <1>1, <1>2, <1>3, PTL DEF UpToALoss
=============================================================================
