-------------------------- MODULE LocalHeapProofs ---------------------------
(***************************************************************************)
(* GraphKept, for any memory, any objects and any threshold: neither the   *)
(* copying collection nor share changes the graph the program made, also   *)
(* where many references lead to one object and while the shared heap is   *)
(* swept in between.                                                       *)
(***************************************************************************)
EXTENDS LocalHeap, SequenceTheorems, FiniteSetTheorems, WellFoundedInduction, TLAPS

Cell == [id : Ids, kids : Seq(Addresses), space : {"private", "new", "shared"},
         forward : Addresses \cup {None}]

Place == ({"stack"} \X Nat \X {0}) \cup ({"cell"} \X Addresses \X Nat)
            \cup ({"value"} \X Nat \X {0})

Typed ==
    /\ mode \in {"run", "collect", "share"}
    /\ DOMAIN cells \subseteq Addresses
    /\ \A a \in DOMAIN cells : cells[a] \in Cell
    /\ stack \in Seq(Addresses) /\ origin \in Seq(Ids) /\ Len(stack) = Len(origin)
    /\ born \in [Ids -> Seq(Ids)]
    /\ todo \in Seq(Place)

\* The heap is the graph that was made, at every step of the copies too.
Graph ==
    /\ \A a \in DOMAIN cells :
        /\ DOMAIN cells[a].kids = DOMAIN born[cells[a].id]
        /\ \A k \in DOMAIN cells[a].kids :
            /\ cells[a].kids[k] \in DOMAIN cells
            /\ cells[cells[a].kids[k]].id = born[cells[a].id][k]
    /\ \A i \in DOMAIN stack : stack[i] \in DOMAIN cells /\ cells[stack[i]].id = origin[i]
    /\ mode = "share" => value \in DOMAIN cells

\* What is to be followed is a place there is, in a copy that this collection
\* or share has made; every other place has been followed.
Pending == ToSet(todo)

Valid(r) ==
    \/ mode = "collect" /\ \E i \in DOMAIN stack : r = <<"stack", i, 0>>
    \/ mode = "collect" /\ \E a \in Copies : \E k \in DOMAIN cells[a].kids : r = <<"cell", a, k>>
    \/ mode = "share" /\ \E a \in Shared : \E k \in DOMAIN cells[a].kids : r = <<"cell", a, k>>
    \/ mode = "share" /\ \E i \in DOMAIN stack : r = <<"value", i, 0>>

Followed ==
    /\ mode = "run" => todo = << >>
    /\ \A r \in Pending : Valid(r)
    /\ mode = "collect" =>
        /\ \A i \in DOMAIN stack : <<"stack", i, 0>> \in Pending \/ stack[i] \in Copies \cup Shared
        /\ \A a \in Copies : \A k \in DOMAIN cells[a].kids :
            <<"cell", a, k>> \in Pending \/ cells[a].kids[k] \in Copies \cup Shared
    /\ \A a \in Shared : \A k \in DOMAIN cells[a].kids :
        <<"cell", a, k>> \in Pending \/ cells[a].kids[k] \in Shared
    /\ mode = "share" => value \in Shared \/ \E i \in DOMAIN stack : <<"value", i, 0>> \in Pending

\* A private object is there once and has one copy at most, which no other has.
Forwarding ==
    /\ mode # "collect" => Copies = {}
    /\ \A a, b \in Private : cells[a].id = cells[b].id => a = b
    /\ \A a \in Private : cells[a].forward # None =>
        /\ cells[a].forward \in Copies
        /\ cells[cells[a].forward].id = cells[a].id
    /\ \A c \in Copies : cells[c].forward = None /\ \E a \in Private : cells[a].forward = c

Counted == mode # "collect" => used = Cardinality(Private)

Inv == Typed /\ Graph /\ Followed /\ Forwarding /\ Counted

-----------------------------------------------------------------------------
(* Lists and least elements. *)

Below == {pair \in Nat \X Nat : pair[1] < pair[2]}

LEMMA Least == ASSUME NEW S \in SUBSET Nat, S # {}
               PROVE  \E n \in S : \A m \in S : n <= m
<1>1. IsWellFoundedOn(Below, Nat)
  BY Zenon, NatLessThanWellFounded DEF OpToRel, Below
<1>2. PICK n \in S : \A m \in S : <<m, n>> \notin Below
  BY Zenon, <1>1, WFMin
<1>3. ASSUME NEW m \in S
      PROVE  n <= m
  <2>1. <<m, n>> \in Nat \X Nat /\ <<m, n>> \notin Below
    BY <1>2
  <2>2. ~(m < n)
    BY <2>1 DEF Below
  <2>3. QED BY <2>2
<1>4. QED BY <1>3

LEMMA MinIs == ASSUME NEW S \in SUBSET Nat, S # {}
               PROVE  Min(S) \in S
<1>1. \E n \in S : \A m \in S : n <= m
  BY Least
<1>2. QED BY Zenon, <1>1 DEF Min

LEMMA Fresh == ASSUME Typed
               PROVE  /\ HasSpace => Free \in Addresses \ DOMAIN cells
                      /\ Births # Ids => Unborn \in Ids \ Births
<1>1. HasSpace => Free \in Addresses \ DOMAIN cells
  BY MinIs, LocalHeapAssumption DEF HasSpace, Free
<1>2. Births \subseteq Ids
  BY DEF Births, Typed, Cell
<1>3. Births # Ids => Unborn \in Ids \ Births
  BY <1>2, MinIs, LocalHeapAssumption DEF Unborn
<1>4. QED BY <1>1, <1>3

-----------------------------------------------------------------------------
(* LeadsTo. *)

Near(S) == S \cup UNION {ToSet(cells[a].kids) : a \in S \cap DOMAIN cells}

Reaching(f, n, roots) == f = [i \in 0..n |-> IF i = 0 THEN roots ELSE Near(f[i - 1])]

LEMMA ReachingExists == ASSUME NEW roots, NEW n \in Nat
                        PROVE  \E f : Reaching(f, n, roots)
<1> DEFINE Failing == {m \in Nat : ~ \E f : Reaching(f, m, roots)}
<1>1. SUFFICES ASSUME Failing # {} PROVE FALSE
  OBVIOUS
<1>2. PICK m \in Failing : \A k \in Failing : m <= k
  <2> HIDE DEF Failing
  <2>1. Failing \in SUBSET Nat
    BY DEF Failing
  <2>2. QED BY <1>1, <2>1, Least
<1>3. m # 0
  <2>1. Reaching([i \in 0..0 |-> roots], 0, roots)
    BY DEF Reaching
  <2>2. QED BY <2>1
<1>4. m \in Nat /\ m - 1 \in Nat /\ m - 1 \notin Failing
  BY <1>2, <1>3
<1>5. PICK g : Reaching(g, m - 1, roots)
  BY <1>4
<1> DEFINE h == [i \in 0..m |-> IF i < m THEN g[i] ELSE Near(g[m - 1])]
<1>6. \A i \in 0..m : h[i] = IF i = 0 THEN roots ELSE Near(h[i - 1])
  <2>1. \A i \in 0..(m - 1) : g[i] = IF i = 0 THEN roots ELSE Near(g[i - 1])
    BY Zenon, <1>5 DEF Reaching
  <2>2. \A i \in 0..(m - 1) : h[i] = g[i]
    BY <1>4
  <2>3. h[m] = Near(g[m - 1])
    BY <1>4
  <2> HIDE DEF h
  <2>4. ASSUME NEW i \in 0..m
        PROVE  h[i] = IF i = 0 THEN roots ELSE Near(h[i - 1])
    <3>1. CASE i = m
      <4>1. m - 1 \in 0..(m - 1)
        BY <1>4
      <4>2. h[i - 1] = g[m - 1]
        BY <2>2, <3>1, <4>1
      <4>3. QED BY <1>3, <2>3, <3>1, <4>2
    <3>2. CASE i # m
      <4>1. i \in 0..(m - 1) /\ (i # 0 => i - 1 \in 0..(m - 1))
        BY <1>4, <3>2
      <4>2. QED BY <2>1, <2>2, <4>1
    <3>3. QED BY <3>1, <3>2
  <2>5. QED BY <2>4
<1>7. Reaching(h, m, roots)
  BY Zenon, <1>6 DEF Reaching
<1>8. QED BY <1>2, <1>7

LEMMA LeadsToIs == ASSUME NEW roots
                   PROVE  /\ Cardinality(Addresses) \in Nat
                          /\ \E f : /\ LeadsTo(roots) = f[Cardinality(Addresses)]
                                    /\ f[0] = roots
                                    /\ \A i \in 1..Cardinality(Addresses) : f[i] = Near(f[i - 1])
<1> DEFINE N == Cardinality(Addresses)
           f == CHOOSE g : Reaching(g, N, roots)
<1>1. N \in Nat
  BY LocalHeapAssumption, FS_CardinalityType
<1>2. Reaching(f, N, roots)
  BY Zenon, <1>1, ReachingExists
<1>3. LeadsTo(roots) = f[N]
  BY Zenon DEF LeadsTo, Reaching, Near
<1> HIDE DEF f, N
<1>4. \A i \in 0..N : f[i] = IF i = 0 THEN roots ELSE Near(f[i - 1])
  BY Zenon, <1>2 DEF Reaching
<1>5. f[0] = roots
  <2>1. 0 \in 0..N
    BY <1>1
  <2>2. QED BY Zenon, <1>4, <2>1
<1>6. \A i \in 1..N : f[i] = Near(f[i - 1])
  BY <1>1, <1>4
<1>7. QED BY Zenon, <1>1, <1>3, <1>5, <1>6 DEF N

\* What holds of the roots, and of the next references, holds of all.
LEMMA LeadsToWithin == ASSUME NEW roots, NEW S, roots \subseteq S,
                              \A a \in S \cap DOMAIN cells : ToSet(cells[a].kids) \subseteq S
                       PROVE  LeadsTo(roots) \subseteq S
<1> DEFINE N == Cardinality(Addresses)
<1>1. N \in Nat
  BY LeadsToIs
<1>2. PICK f : /\ LeadsTo(roots) = f[N]
               /\ f[0] = roots
               /\ \A i \in 1..N : f[i] = Near(f[i - 1])
  BY LeadsToIs
<1> HIDE DEF N
<1> DEFINE Failing == {n \in 0..N : ~ (f[n] \subseteq S)}
<1>3. ASSUME Failing # {} PROVE FALSE
  <2>1. PICK n \in Failing : \A m \in Failing : n <= m
    <3>1. Failing \in SUBSET Nat
      OBVIOUS
    <3> HIDE DEF Failing
    <3>2. QED BY <1>3, <3>1, Least
  <2>2. n \in 0..N /\ n # 0
    BY <1>2, <2>1
  <2>3. n \in 1..N /\ n - 1 \in 0..N
    BY <1>1, <2>2
  <2>4. f[n - 1] \subseteq S
    BY <1>1, <2>1, <2>3
  <2>5. Near(f[n - 1]) \subseteq S
    BY <2>4 DEF Near
  <2>6. QED BY <1>2, <2>1, <2>3, <2>5
<1>4. f[N] \subseteq S
  BY <1>1, <1>3
<1>5. QED BY <1>2, <1>4

LEMMA LeadsToRoots == ASSUME NEW roots
                      PROVE  roots \subseteq LeadsTo(roots)
<1> DEFINE N == Cardinality(Addresses)
<1>1. N \in Nat
  BY LeadsToIs
<1>2. PICK f : /\ LeadsTo(roots) = f[N]
               /\ f[0] = roots
               /\ \A i \in 1..N : f[i] = Near(f[i - 1])
  BY LeadsToIs
<1> HIDE DEF N
<1> DEFINE Failing == {n \in 0..N : ~ (roots \subseteq f[n])}
<1>3. ASSUME Failing # {} PROVE FALSE
  <2>1. PICK n \in Failing : \A m \in Failing : n <= m
    <3>1. Failing \in SUBSET Nat
      OBVIOUS
    <3> HIDE DEF Failing
    <3>2. QED BY <1>3, <3>1, Least
  <2>2. n \in 0..N /\ n # 0
    BY <1>2, <2>1
  <2>3. n \in 1..N /\ n - 1 \in 0..N
    BY <1>1, <2>2
  <2>4. roots \subseteq f[n - 1]
    BY <1>1, <2>1, <2>3
  <2>5. roots \subseteq Near(f[n - 1])
    BY <2>4 DEF Near
  <2>6. QED BY <1>2, <2>1, <2>3, <2>5
<1>4. QED BY <1>1, <1>2, <1>3

\* The references of what is led to are followed: each round finds another
\* address or is the last, and there are no more rounds than addresses.
LEMMA LeadsToClosed == ASSUME NEW roots \in SUBSET Addresses,
                              \A a \in DOMAIN cells : ToSet(cells[a].kids) \subseteq Addresses
                       PROVE  \A a \in LeadsTo(roots) \cap DOMAIN cells :
                                ToSet(cells[a].kids) \subseteq LeadsTo(roots)
<1> DEFINE N == Cardinality(Addresses)
<1>1. N \in Nat
  BY LeadsToIs
<1>2. PICK f : /\ LeadsTo(roots) = f[N]
               /\ f[0] = roots
               /\ \A i \in 1..N : f[i] = Near(f[i - 1])
  BY LeadsToIs
<1>3. \A S \in SUBSET Addresses : /\ Near(S) \in SUBSET Addresses /\ S \subseteq Near(S)
                                  /\ IsFiniteSet(S) /\ Cardinality(S) \in Nat
                                  /\ Cardinality(S) = N => S = Addresses
                                  /\ Cardinality(S) <= N
  <2> SUFFICES ASSUME NEW S \in SUBSET Addresses
               PROVE  /\ Near(S) \in SUBSET Addresses /\ S \subseteq Near(S)
                      /\ IsFiniteSet(S) /\ Cardinality(S) \in Nat
                      /\ Cardinality(S) = N => S = Addresses
                      /\ Cardinality(S) <= N
    OBVIOUS
  <2>1. Near(S) \in SUBSET Addresses /\ S \subseteq Near(S)
    BY DEF Near
  <2>2. IsFiniteSet(Addresses)
    BY LocalHeapAssumption
  <2>3. /\ IsFiniteSet(S) /\ Cardinality(S) <= N
        /\ N = Cardinality(S) => Addresses = S
    BY <2>2, FS_Subset
  <2>4. Cardinality(S) \in Nat
    BY <2>3, FS_CardinalityType
  <2>5. QED BY <2>1, <2>3, <2>4
<1> DEFINE Good(n) == f[n] \in SUBSET Addresses /\ (Near(f[n]) = f[n] \/ Cardinality(f[n]) >= n)
           Failing == {n \in 0..N : ~ Good(n)}
<1> HIDE DEF N
<1>4. Good(0)
  BY <1>2, <1>3
<1>5. ASSUME NEW n \in 1..N, Good(n - 1)
      PROVE  Good(n)
  <2>1. f[n] = Near(f[n - 1])
    BY <1>2
  <2>2. CASE Near(f[n - 1]) = f[n - 1]
    BY <1>5, <2>1, <2>2
  <2>3. CASE Near(f[n - 1]) # f[n - 1]
    <3> DEFINE S == f[n - 1]
               T == f[n]
    <3>1. /\ S \in SUBSET Addresses /\ T \in SUBSET Addresses /\ S \subseteq T /\ S # T
          /\ Cardinality(S) >= n - 1
      BY <1>3, <1>5, <2>1, <2>3
    <3> HIDE DEF S, T
    <3>2. /\ IsFiniteSet(T) /\ Cardinality(T) \in Nat /\ Cardinality(S) \in Nat
      BY <1>3, <3>1
    <3>3. Cardinality(S) <= Cardinality(T) /\ Cardinality(T) # Cardinality(S)
      BY <3>1, <3>2, FS_Subset
    <3>4. Cardinality(T) >= n
      BY <3>1, <3>2, <3>3
    <3>5. QED BY <3>1, <3>4 DEF T
  <2>4. QED BY <2>2, <2>3
<1>6. Good(N)
  <2> SUFFICES ASSUME Failing # {} PROVE FALSE
    BY <1>1
  <2>1. PICK n \in Failing : \A m \in Failing : n <= m
    <3>1. Failing \in SUBSET Nat
      OBVIOUS
    <3> HIDE DEF Failing
    <3>2. QED BY <3>1, Least
  <2> HIDE DEF Good
  <2>2. n # 0 /\ n \in 0..N /\ ~ Good(n)
    BY <1>4, <2>1
  <2>3. n \in 1..N /\ n - 1 \in 0..N /\ n - 1 \notin Failing
    BY <1>1, <2>1, <2>2
  <2>4. Good(n - 1)
    BY <2>3
  <2>5. QED BY <1>5, <2>2, <2>3, <2>4
<1>7. Near(f[N]) = f[N]
  <2>1. CASE Cardinality(f[N]) >= N
    <3>1. f[N] = Addresses
      BY <1>1, <1>3, <1>6, <2>1
    <3>2. Near(Addresses) = Addresses
      BY <1>3
    <3>3. QED BY <3>1, <3>2
  <2>2. QED BY <1>6, <2>1
<1>8. QED BY <1>2, <1>7 DEF Near

-----------------------------------------------------------------------------
(* The places that are still to be followed. *)

LEMMA Members == ASSUME NEW S, NEW s \in Seq(S)
                 PROVE  \A x : x \in ToSet(s) <=> \E i \in 1..Len(s) : s[i] = x
<1>1. DOMAIN s = 1..Len(s)
  OBVIOUS
<1>2. QED BY Zenon, <1>1 DEF ToSet

LEMMA First == ASSUME Typed, todo # << >>
               PROVE  /\ Head(todo) \in Pending /\ Tail(todo) \in Seq(Place)
                      /\ Pending = {Head(todo)} \cup ToSet(Tail(todo))
<1> DEFINE t == Tail(todo)
<1>1. /\ todo \in Seq(Place) /\ t \in Seq(Place) /\ Len(todo) \in Nat \ {0} /\ Len(t) = Len(todo) - 1
      /\ Head(todo) = todo[1] /\ \A i \in 1..Len(t) : t[i] = todo[i + 1]
  BY DEF Typed
<1>2. \A i \in 1..Len(todo) : i = 1 \/ (i - 1 \in 1..Len(t) /\ todo[i] = t[i - 1])
  BY <1>1
<1> HIDE DEF t
<1>3. Head(todo) \in Pending
  <2>1. 1 \in 1..Len(todo)
    BY <1>1
  <2>2. QED BY <1>1, <2>1, Members DEF Pending
<1>4. ASSUME NEW r \in Pending
      PROVE  r = Head(todo) \/ r \in ToSet(t)
  <2>1. PICK i \in 1..Len(todo) : todo[i] = r
    BY <1>1, Members DEF Pending
  <2>2. QED BY <1>1, <1>2, <2>1, Members
<1>5. ASSUME NEW r \in ToSet(t)
      PROVE  r \in Pending
  <2>1. PICK i \in 1..Len(t) : t[i] = r
    BY <1>1, Members
  <2>2. i + 1 \in 1..Len(todo) /\ todo[i + 1] = r
    BY <1>1, <2>1
  <2>3. QED BY <1>1, <2>2, Members DEF Pending
<1>6. QED BY Zenon, <1>1, <1>3, <1>4, <1>5 DEF t

PlacesIn(a, kids) == {<<"cell", a, k>> : k \in DOMAIN kids}

LEMMA PlacesAdded == ASSUME NEW kids \in Seq(Addresses), NEW a \in Addresses, NEW t \in Seq(Place)
                     PROVE  LET u == [k \in DOMAIN kids |-> <<"cell", a, k>>] \o t
                            IN u \in Seq(Place) /\ ToSet(u) = PlacesIn(a, kids) \cup ToSet(t)
<1> DEFINE s == [k \in DOMAIN kids |-> <<"cell", a, k>>]
           u == s \o t
<1>1. DOMAIN kids = 1..Len(kids) /\ Len(kids) \in Nat
  OBVIOUS
<1>2. s \in Seq(Place) /\ Len(s) = Len(kids) /\ \A k \in 1..Len(kids) : s[k] = <<"cell", a, k>>
  BY <1>1 DEF Place
<1> HIDE DEF s
<1>3. /\ u \in Seq(Place) /\ Len(u) = Len(s) + Len(t)
      /\ \A i \in 1..Len(s) : u[i] = s[i]
      /\ \A i \in 1..Len(t) : u[Len(s) + i] = t[i]
  <2>1. s \in Seq(Place) /\ t \in Seq(Place)
    BY <1>2
  <2>2. u \in Seq(Place) /\ Len(u) = Len(s) + Len(t)
    BY <2>1
  <2>3. \A i \in 1..Len(s) : u[i] = s[i]
    BY <2>1
  <2>4. \A i \in 1..Len(t) : u[Len(s) + i] = t[i]
    BY <2>1
  <2>5. QED BY <2>2, <2>3, <2>4
<1> HIDE DEF u
<1>4. ASSUME NEW r \in ToSet(u)
      PROVE  r \in PlacesIn(a, kids) \cup ToSet(t)
  <2>1. PICK i \in 1..Len(u) : u[i] = r
    BY <1>3, Members
  <2>2. CASE i \in 1..Len(s)
    BY <1>1, <1>2, <1>3, <2>1, <2>2 DEF PlacesIn
  <2>3. CASE i \notin 1..Len(s)
    <3>1. i - Len(s) \in 1..Len(t) /\ i = Len(s) + (i - Len(s))
      BY <1>2, <1>3, <2>3
    <3>2. t[i - Len(s)] = r
      BY <1>3, <2>1, <3>1
    <3>3. QED BY <3>1, <3>2, Members
  <2>4. QED BY <2>2, <2>3
<1>5. ASSUME NEW r \in PlacesIn(a, kids)
      PROVE  r \in ToSet(u)
  <2>1. PICK k \in DOMAIN kids : r = <<"cell", a, k>>
    BY DEF PlacesIn
  <2>2. k \in 1..Len(u) /\ u[k] = r
    BY <1>1, <1>2, <1>3, <2>1
  <2>3. QED BY <1>3, <2>2, Members
<1>6. ASSUME NEW r \in ToSet(t)
      PROVE  r \in ToSet(u)
  <2>1. PICK i \in 1..Len(t) : t[i] = r
    BY Members
  <2>2. Len(s) + i \in 1..Len(u) /\ u[Len(s) + i] = r
    BY <1>2, <1>3, <2>1
  <2>3. QED BY <1>3, <2>2, Members
<1>7. QED BY Zenon, <1>3, <1>4, <1>5, <1>6 DEF u, s

\* A place in the heap that has become heap refers to t from now on.
Redirected(r, t, heap) ==
    /\ DOMAIN cells' = DOMAIN heap
    /\ \A a \in DOMAIN heap :
        /\ cells'[a] \in Cell
        /\ cells'[a].id = heap[a].id /\ cells'[a].space = heap[a].space
        /\ cells'[a].forward = heap[a].forward
        /\ DOMAIN cells'[a].kids = DOMAIN heap[a].kids
        /\ \A k \in DOMAIN heap[a].kids :
            cells'[a].kids[k] = IF r = <<"cell", a, k>> THEN t ELSE heap[a].kids[k]
    /\ stack' \in Seq(Addresses) /\ Len(stack') = Len(stack) /\ DOMAIN stack' = DOMAIN stack
    /\ \A i \in DOMAIN stack : stack'[i] = IF r = <<"stack", i, 0>> THEN t ELSE stack[i]
    /\ value' = IF r[1] = "value" THEN t ELSE value

LEMMA BecomesIs == ASSUME Typed, NEW r, Valid(r), NEW t, NEW heap, Becomes(r, t, heap),
                          DOMAIN cells \subseteq DOMAIN heap, DOMAIN heap \subseteq Addresses,
                          t \in DOMAIN heap,
                          \A a \in DOMAIN heap : heap[a] \in Cell,
                          \A a \in DOMAIN cells : heap[a].kids = cells[a].kids
                   PROVE  Redirected(r, t, heap)
<1>1. CASE \E i \in DOMAIN stack : r = <<"stack", i, 0>>
  <2>1. PICK i \in DOMAIN stack : r = <<"stack", i, 0>>
    BY <1>1
  <2>2. stack' = [stack EXCEPT ![i] = t] /\ cells' = heap /\ value' = value
    BY <2>1 DEF Becomes
  <2>3. QED BY <2>1, <2>2 DEF Redirected, Typed
<1>2. CASE \E i \in DOMAIN stack : r = <<"value", i, 0>>
  <2>1. r[1] = "value" /\ stack' = stack /\ cells' = heap /\ value' = t
    BY <1>2 DEF Becomes
  <2>2. \A a, k : r # <<"cell", a, k>> /\ r # <<"stack", a, 0>>
    BY <2>1
  <2>3. QED BY <2>1, <2>2 DEF Redirected, Typed
<1>3. CASE \E b \in DOMAIN cells : \E j \in DOMAIN cells[b].kids : r = <<"cell", b, j>>
  <2>0. PICK b \in DOMAIN cells : \E j \in DOMAIN cells[b].kids : r = <<"cell", b, j>>
    BY <1>3
  <2>1. PICK j \in DOMAIN cells[b].kids : r = <<"cell", b, j>>
    BY <2>0
  <2>2. stack' = stack /\ value' = value /\ cells' = [heap EXCEPT ![b].kids[j] = t]
    BY <2>1 DEF Becomes
  <2>3. \A a \in DOMAIN heap \ {b} : cells'[a] = heap[a]
    BY <2>2
  <2>4. cells'[b] = [heap[b] EXCEPT !.kids = [heap[b].kids EXCEPT ![j] = t]]
    BY <2>2
  <2>5. j \in DOMAIN heap[b].kids /\ heap[b].kids \in Seq(Addresses)
    BY <2>1 DEF Cell
  <2>6. [heap[b].kids EXCEPT ![j] = t] \in Seq(Addresses)
    BY <2>5
  <2>7. /\ cells'[b] \in Cell /\ cells'[b].kids = [heap[b].kids EXCEPT ![j] = t]
        /\ cells'[b].id = heap[b].id /\ cells'[b].space = heap[b].space
        /\ cells'[b].forward = heap[b].forward
    BY <2>4, <2>6 DEF Cell
  <2>8. DOMAIN cells' = DOMAIN heap
    BY <2>2
  <2>9. ASSUME NEW a \in DOMAIN heap
        PROVE  /\ cells'[a] \in Cell
               /\ cells'[a].id = heap[a].id /\ cells'[a].space = heap[a].space
               /\ cells'[a].forward = heap[a].forward
               /\ DOMAIN cells'[a].kids = DOMAIN heap[a].kids
               /\ \A k \in DOMAIN heap[a].kids :
                    cells'[a].kids[k] = IF r = <<"cell", a, k>> THEN t ELSE heap[a].kids[k]
    <3>1. CASE a = b
      BY <2>1, <2>5, <2>7, <3>1
    <3>2. CASE a # b
      BY <2>1, <2>3, <3>2
    <3>3. QED BY <3>1, <3>2
  <2>10. stack' = stack /\ stack \in Seq(Addresses) /\ value' = value /\ r[1] # "value"
         /\ \A i : r # <<"stack", i, 0>>
    BY <2>1, <2>2 DEF Typed
  <2>11. QED BY <2>8, <2>9, <2>10 DEF Redirected
<1>4. Copies \subseteq DOMAIN cells /\ Shared \subseteq DOMAIN cells
  BY DEF Copies, Shared
<1>5. \/ \E i \in DOMAIN stack : r = <<"stack", i, 0>>
      \/ \E i \in DOMAIN stack : r = <<"value", i, 0>>
      \/ \E b \in DOMAIN cells : \E j \in DOMAIN cells[b].kids : r = <<"cell", b, j>>
  BY Zenon, <1>4 DEF Valid
<1>6. QED BY Zenon, <1>1, <1>2, <1>3, <1>5

-----------------------------------------------------------------------------
(* One step of either copy: the reference at r becomes t. *)

Step(r, t, heap) ==
    /\ Redirected(r, t, heap)
    /\ UNCHANGED <<origin, mode, born>>
    /\ DOMAIN cells \subseteq DOMAIN heap /\ DOMAIN heap \subseteq Addresses
    /\ \A a \in DOMAIN cells : /\ heap[a].id = cells[a].id /\ heap[a].kids = cells[a].kids
                               /\ heap[a].space = cells[a].space
    /\ \A a \in DOMAIN heap \ DOMAIN cells :
        /\ heap[a].id = cells[At(r)].id /\ heap[a].kids = cells[At(r)].kids
        /\ heap[a].space = IF mode = "collect" THEN "new" ELSE "shared"
        /\ PlacesIn(a, heap[a].kids) \subseteq Pending'
    /\ t \in DOMAIN heap /\ heap[t].id = cells[At(r)].id
    /\ heap[t].space = "shared" \/ (mode = "collect" /\ heap[t].space = "new")
    /\ todo' \in Seq(Place) /\ ToSet(Tail(todo)) \subseteq Pending'
    /\ \A q \in Pending' : \/ q \in ToSet(Tail(todo))
                           \/ \E a \in DOMAIN heap \ DOMAIN cells : q \in PlacesIn(a, heap[a].kids)

\* What is next to be followed is a place there is, and refers to an object.
LEMMA Current == ASSUME Inv, mode # "run", todo # << >>
                 PROVE  /\ Valid(Head(todo)) /\ At(Head(todo)) \in DOMAIN cells
                        /\ mode \in {"collect", "share"}
<1> DEFINE r == Head(todo)
<1>1. Valid(r)
  BY First DEF Inv, Followed
<1>2. mode \in {"collect", "share"}
  BY DEF Inv, Typed
<1>3. Copies \subseteq DOMAIN cells /\ Shared \subseteq DOMAIN cells
  BY DEF Copies, Shared
<1> HIDE DEF r
<1>4. ASSUME \E i \in DOMAIN stack : r = <<"stack", i, 0>>
      PROVE  At(r) \in DOMAIN cells
  <2>1. PICK i \in DOMAIN stack : r = <<"stack", i, 0>>
    BY <1>4
  <2>2. At(r) = stack[i]
    BY <2>1 DEF At
  <2>3. QED BY <2>2 DEF Inv, Graph
<1>5. ASSUME mode = "share", \E i \in DOMAIN stack : r = <<"value", i, 0>>
      PROVE  At(r) \in DOMAIN cells
  <2>1. At(r) = value
    BY <1>5 DEF At
  <2>2. QED BY <1>5, <2>1 DEF Inv, Graph
<1>6. ASSUME \E b \in DOMAIN cells : \E j \in DOMAIN cells[b].kids : r = <<"cell", b, j>>
      PROVE  At(r) \in DOMAIN cells
  <2>1. PICK b \in DOMAIN cells : \E j \in DOMAIN cells[b].kids : r = <<"cell", b, j>>
    BY <1>6
  <2>2. PICK j \in DOMAIN cells[b].kids : r = <<"cell", b, j>>
    BY <2>1
  <2>3. At(r) = cells[b].kids[j]
    BY <2>2 DEF At
  <2>4. QED BY <2>3 DEF Inv, Graph
<1>7. \/ \E i \in DOMAIN stack : r = <<"stack", i, 0>>
      \/ mode = "share" /\ \E i \in DOMAIN stack : r = <<"value", i, 0>>
      \/ \E b \in DOMAIN cells : \E j \in DOMAIN cells[b].kids : r = <<"cell", b, j>>
  BY Zenon, <1>1, <1>3 DEF Valid
<1>8. At(r) \in DOMAIN cells
  BY Zenon, <1>4, <1>5, <1>6, <1>7
<1>9. QED BY <1>1, <1>2, <1>8 DEF r

\* The spaces after a step: the copies or the shared objects are more, by those
\* that are new.
LEMMA StepSpaces == ASSUME Inv, NEW r, NEW t, NEW heap, Step(r, t, heap), mode \in {"collect", "share"}
                    PROVE  /\ DOMAIN cells' = DOMAIN heap
                           /\ Private' = Private
                           /\ Copies' = IF mode = "collect" THEN Copies \cup (DOMAIN heap \ DOMAIN cells)
                                        ELSE Copies
                           /\ Shared' = IF mode = "share" THEN Shared \cup (DOMAIN heap \ DOMAIN cells)
                                        ELSE Shared
<1>1. /\ DOMAIN cells' = DOMAIN heap /\ DOMAIN cells \subseteq DOMAIN heap
      /\ \A a \in DOMAIN cells : cells'[a].space = cells[a].space
      /\ \A a \in DOMAIN heap \ DOMAIN cells :
            cells'[a].space = IF mode = "collect" THEN "new" ELSE "shared"
  BY DEF Step, Redirected
<1>2. QED BY <1>1 DEF Private, Copies, Shared

LEMMA StepTyped == ASSUME Inv, NEW r, NEW t, NEW heap, Step(r, t, heap)
                   PROVE  Typed'
<1>1. /\ DOMAIN cells' \subseteq Addresses /\ \A a \in DOMAIN cells' : cells'[a] \in Cell
      /\ stack' \in Seq(Addresses) /\ Len(stack') = Len(stack)
  BY DEF Step, Redirected
<1>2. UNCHANGED <<origin, mode, born>> /\ todo' \in Seq(Place)
  BY DEF Step
<1>3. QED BY <1>1, <1>2 DEF Inv, Typed

LEMMA StepGraph == ASSUME Inv, NEW r, NEW t, NEW heap, Step(r, t, heap),
                          Valid(r), At(r) \in DOMAIN cells
                   PROVE  Graph'
<1>1. /\ DOMAIN cells' = DOMAIN heap /\ DOMAIN cells \subseteq DOMAIN heap
      /\ DOMAIN stack' = DOMAIN stack /\ origin' = origin /\ mode' = mode /\ born' = born
      /\ t \in DOMAIN heap /\ cells'[t].id = cells[At(r)].id
  BY DEF Step, Redirected
<1>2. \A a \in DOMAIN cells : cells'[a].id = cells[a].id
  BY DEF Step, Redirected
<1>3. ASSUME NEW a \in DOMAIN heap
      PROVE  /\ DOMAIN cells'[a].kids = DOMAIN born[cells'[a].id]
             /\ \A k \in DOMAIN cells'[a].kids :
                 /\ cells'[a].kids[k] \in DOMAIN heap
                 /\ cells'[cells'[a].kids[k]].id = born[cells'[a].id][k]
  <2>1. /\ cells'[a].id = heap[a].id /\ DOMAIN cells'[a].kids = DOMAIN heap[a].kids
        /\ \A k \in DOMAIN heap[a].kids :
            cells'[a].kids[k] = IF r = <<"cell", a, k>> THEN t ELSE heap[a].kids[k]
    BY DEF Step, Redirected
  <2>2. \E b \in DOMAIN cells : /\ heap[a].id = cells[b].id /\ heap[a].kids = cells[b].kids
                                /\ a \in DOMAIN cells => b = a
    BY DEF Step
  <2>3. PICK b \in DOMAIN cells : /\ heap[a].id = cells[b].id /\ heap[a].kids = cells[b].kids
                                  /\ a \in DOMAIN cells => b = a
    BY <2>2
  <2>4. /\ DOMAIN cells[b].kids = DOMAIN born[cells[b].id]
        /\ \A k \in DOMAIN cells[b].kids :
            /\ cells[b].kids[k] \in DOMAIN cells
            /\ cells[cells[b].kids[k]].id = born[cells[b].id][k]
    BY DEF Inv, Graph
  <2>5. ASSUME NEW k \in DOMAIN cells'[a].kids
        PROVE  /\ cells'[a].kids[k] \in DOMAIN heap
               /\ cells'[cells'[a].kids[k]].id = born[cells'[a].id][k]
    <3>1. k \in DOMAIN heap[a].kids /\ k \in DOMAIN cells[b].kids
      BY <2>1, <2>3
    <3>2. CASE r = <<"cell", a, k>>
      <4>1. a \in Copies \/ a \in Shared
        BY <3>2 DEF Valid
      <4>2. a \in DOMAIN cells
        BY <4>1 DEF Copies, Shared
      <4>3. At(r) = cells[a].kids[k] /\ b = a
        BY <2>3, <3>2, <4>2 DEF At
      <4>4. cells'[a].kids[k] = t
        BY <2>1, <3>1, <3>2
      <4>5. QED BY <1>1, <2>1, <2>3, <2>4, <3>1, <4>3, <4>4
    <3>3. CASE r # <<"cell", a, k>>
      <4>1. cells'[a].kids[k] = cells[b].kids[k]
        BY <2>1, <2>3, <3>1, <3>3
      <4>2. QED BY <1>1, <1>2, <2>1, <2>3, <2>4, <3>1, <4>1
    <3>4. QED BY <3>2, <3>3
  <2>6. QED BY <2>1, <2>3, <2>4, <2>5
<1>4. ASSUME NEW i \in DOMAIN stack
      PROVE  stack'[i] \in DOMAIN heap /\ cells'[stack'[i]].id = origin[i]
  <2>1. stack'[i] = IF r = <<"stack", i, 0>> THEN t ELSE stack[i]
    BY DEF Step, Redirected
  <2>2. stack[i] \in DOMAIN cells /\ cells[stack[i]].id = origin[i]
    BY DEF Inv, Graph
  <2>3. CASE r = <<"stack", i, 0>>
    <3>1. At(r) = stack[i]
      BY <2>3 DEF At
    <3>2. QED BY <1>1, <2>1, <2>2, <2>3, <3>1
  <2>4. CASE r # <<"stack", i, 0>>
    BY <1>1, <1>2, <2>1, <2>2, <2>4
  <2>5. QED BY <2>3, <2>4
<1>5. mode = "share" => value' \in DOMAIN heap
  <2>1. value' = t \/ value' = value
    BY DEF Step, Redirected
  <2>2. QED BY <1>1, <2>1 DEF Inv, Graph
<1>6. QED BY <1>1, <1>3, <1>4, <1>5 DEF Graph

LEMMA StepFollowed == ASSUME Inv, NEW t, NEW heap, Step(Head(todo), t, heap),
                             mode # "run", todo # << >>
                      PROVE  Followed'
<1> DEFINE r == Head(todo)
           added == DOMAIN heap \ DOMAIN cells
<1>1. /\ Valid(r) /\ At(r) \in DOMAIN cells /\ mode \in {"collect", "share"} /\ mode' = mode
      /\ Pending = {r} \cup ToSet(Tail(todo))
  BY Current, First DEF Step, Inv
<1>2. /\ DOMAIN cells' = DOMAIN heap
      /\ Copies' = IF mode = "collect" THEN Copies \cup added ELSE Copies
      /\ Shared' = IF mode = "share" THEN Shared \cup added ELSE Shared
  BY <1>1, StepSpaces
<1>3. /\ DOMAIN stack' = DOMAIN stack
      /\ \A i \in DOMAIN stack : stack'[i] = IF r = <<"stack", i, 0>> THEN t ELSE stack[i]
      /\ value' = IF r[1] = "value" THEN t ELSE value
      /\ t \in Shared' \/ (mode = "collect" /\ t \in Copies')
      /\ \A q \in Pending : q = r \/ q \in Pending'
  BY <1>1 DEF Step, Redirected, Copies, Shared
<1>4. \A a \in DOMAIN cells :
        /\ DOMAIN cells'[a].kids = DOMAIN cells[a].kids
        /\ \A k \in DOMAIN cells[a].kids :
            cells'[a].kids[k] = IF r = <<"cell", a, k>> THEN t ELSE cells[a].kids[k]
  BY DEF Step, Redirected
<1>5. \A a \in added : \A k \in DOMAIN cells'[a].kids : <<"cell", a, k>> \in Pending'
  <2>1. \A a \in added : /\ DOMAIN cells'[a].kids = DOMAIN heap[a].kids
                         /\ PlacesIn(a, heap[a].kids) \subseteq Pending'
    BY DEF Step, Redirected
  <2>2. QED BY <2>1 DEF PlacesIn
<1>6. Copies \subseteq DOMAIN cells /\ Shared \subseteq DOMAIN cells
  BY DEF Copies, Shared
<1>7. ASSUME NEW q \in Pending'
      PROVE  Valid(q)'
  <2>1. CASE q \in ToSet(Tail(todo))
    <3>1. Valid(q)
      BY <1>1, <2>1 DEF Inv, Followed
    <3>2. Copies \subseteq Copies' /\ Shared \subseteq Shared'
      BY <1>2
    <3>3. /\ \A a \in Copies : DOMAIN cells'[a].kids = DOMAIN cells[a].kids
          /\ \A a \in Shared : DOMAIN cells'[a].kids = DOMAIN cells[a].kids
      BY <1>4, <1>6
    <3>4. CASE mode = "collect" /\ \E i \in DOMAIN stack : q = <<"stack", i, 0>>
      BY <1>1, <1>3, <3>4 DEF Valid
    <3>5. CASE mode = "share" /\ \E i \in DOMAIN stack : q = <<"value", i, 0>>
      BY <1>1, <1>3, <3>5 DEF Valid
    <3>6. CASE mode = "collect" /\ \E a \in Copies : \E k \in DOMAIN cells[a].kids : q = <<"cell", a, k>>
      BY <1>1, <3>2, <3>3, <3>6 DEF Valid
    <3>7. CASE mode = "share" /\ \E a \in Shared : \E k \in DOMAIN cells[a].kids : q = <<"cell", a, k>>
      BY <1>1, <3>2, <3>3, <3>7 DEF Valid
    <3>8. QED BY Zenon, <3>1, <3>4, <3>5, <3>6, <3>7 DEF Valid
  <2>2. CASE \E a \in added : q \in PlacesIn(a, heap[a].kids)
    <3>1. PICK a \in added : q \in PlacesIn(a, heap[a].kids)
      BY <2>2
    <3>2. PICK k \in DOMAIN heap[a].kids : q = <<"cell", a, k>>
      BY <3>1 DEF PlacesIn
    <3>3. DOMAIN cells'[a].kids = DOMAIN heap[a].kids
      BY DEF Step, Redirected
    <3>4. QED BY <1>1, <1>2, <3>2, <3>3 DEF Valid
  <2>3. QED BY <2>1, <2>2 DEF Step
<1> HIDE DEF r, added
<1>8. ASSUME mode = "collect"
      PROVE  /\ \A i \in DOMAIN stack' : <<"stack", i, 0>> \in Pending' \/ stack'[i] \in Copies' \cup Shared'
             /\ \A a \in Copies' : \A k \in DOMAIN cells'[a].kids :
                 <<"cell", a, k>> \in Pending' \/ cells'[a].kids[k] \in Copies' \cup Shared'
  <2>1. ASSUME NEW i \in DOMAIN stack
        PROVE  <<"stack", i, 0>> \in Pending' \/ stack'[i] \in Copies' \cup Shared'
    <3>1. <<"stack", i, 0>> \in Pending \/ stack[i] \in Copies \cup Shared
      BY <1>8 DEF Inv, Followed
    <3>2. QED BY <1>2, <1>3, <1>8, <3>1
  <2>2. ASSUME NEW a \in Copies, NEW k \in DOMAIN cells[a].kids
        PROVE  <<"cell", a, k>> \in Pending' \/ cells'[a].kids[k] \in Copies' \cup Shared'
    <3>1. <<"cell", a, k>> \in Pending \/ cells[a].kids[k] \in Copies \cup Shared
      BY <1>8 DEF Inv, Followed
    <3>2. QED BY <1>2, <1>3, <1>4, <1>6, <1>8, <3>1
  <2>3. QED BY <1>2, <1>3, <1>4, <1>5, <1>6, <1>8, <2>1, <2>2
<1>9. ASSUME NEW a \in Shared', NEW k \in DOMAIN cells'[a].kids
      PROVE  <<"cell", a, k>> \in Pending' \/ cells'[a].kids[k] \in Shared'
  <2>1. CASE a \in Shared
    <3>1. k \in DOMAIN cells[a].kids
      BY <1>4, <1>6, <2>1
    <3>2. <<"cell", a, k>> \in Pending \/ cells[a].kids[k] \in Shared
      BY <2>1, <3>1 DEF Inv, Followed
    <3>3. CASE r = <<"cell", a, k>>
      <4>1. mode # "collect"
        <5>1. a \notin Copies
          BY <2>1 DEF Copies, Shared
        <5>2. QED BY <1>1, <3>3, <5>1 DEF Valid
      <4>2. cells'[a].kids[k] = t
        BY <1>4, <1>6, <2>1, <3>1, <3>3
      <4>3. QED BY <1>3, <4>1, <4>2
    <3>4. CASE r # <<"cell", a, k>>
      BY <1>2, <1>3, <1>4, <1>6, <2>1, <3>1, <3>2, <3>4
    <3>5. QED BY <3>3, <3>4
  <2>2. CASE a \in added
    BY <1>5, <2>2
  <2>3. QED BY <1>2, <2>1, <2>2
<1>10. ASSUME mode = "share"
       PROVE  value' \in Shared' \/ \E i \in DOMAIN stack' : <<"value", i, 0>> \in Pending'
  <2>1. CASE \E i \in DOMAIN stack : r = <<"value", i, 0>>
    <3>1. value' = t
      BY <1>3, <2>1
    <3>2. QED BY <1>3, <1>10, <3>1
  <2>2. CASE value \in Shared
    <3>1. value' = t \/ value' = value
      BY <1>3
    <3>2. QED BY <1>2, <1>3, <1>10, <2>2, <3>1
  <2>3. CASE \E i \in DOMAIN stack : <<"value", i, 0>> \in Pending /\ <<"value", i, 0>> # r
    BY <1>3, <2>3
  <2>4. value \in Shared \/ \E i \in DOMAIN stack : <<"value", i, 0>> \in Pending
    BY <1>10 DEF Inv, Followed
  <2>5. QED BY <2>1, <2>2, <2>3, <2>4
<1>11. QED
  <2>1. mode' # "run"
    BY <1>1
  <2>2. \A q \in Pending' : Valid(q)'
    BY <1>7
  <2>3. QED BY Zenon, <1>1, <1>8, <1>9, <1>10, <2>1, <2>2 DEF Followed

-----------------------------------------------------------------------------
(* The actions of the copies. *)

LEMMA CopyKept == ASSUME Inv, Copy
                  PROVE  Inv'
<1> DEFINE r == Head(todo)
           old == At(r)
           c == [cells[old] EXCEPT !.space = "new"]
           marked == [cells EXCEPT ![old].forward = Free]
           heap == Stored(c, marked)
<1>1. /\ mode = "collect" /\ todo # << >> /\ HasSpace
      /\ cells[old].space = "private" /\ cells[old].forward = None
      /\ Becomes(r, Free, heap)
      /\ todo' = [k \in DOMAIN cells[old].kids |-> <<"cell", Free, k>>] \o Tail(todo)
      /\ UNCHANGED <<origin, mode, used, born>>
  BY DEF Copy
<1>2. /\ Valid(r) /\ old \in DOMAIN cells
      /\ Free \in Addresses /\ Free \notin DOMAIN cells
      /\ Tail(todo) \in Seq(Place)
  BY <1>1, Current, First, Fresh DEF Inv
<1>3. /\ DOMAIN marked = DOMAIN cells
      /\ \A a \in DOMAIN cells : a # old => marked[a] = cells[a]
      /\ marked[old] = [cells[old] EXCEPT !.forward = Free]
  BY <1>2
<1>4. /\ cells[old] \in Cell /\ cells[old].kids \in Seq(Addresses)
      /\ DOMAIN cells \subseteq Addresses
      /\ \A a \in DOMAIN cells : cells[a] \in Cell
  BY <1>2 DEF Inv, Typed, Cell
<1>5. /\ marked[old] \in Cell /\ marked[old].id = cells[old].id /\ marked[old].kids = cells[old].kids
      /\ marked[old].space = cells[old].space /\ marked[old].forward = Free
  BY <1>2, <1>3, <1>4 DEF Cell
<1>6. /\ c \in Cell /\ c.id = cells[old].id /\ c.kids = cells[old].kids
      /\ c.space = "new" /\ c.forward = None
  BY <1>1, <1>4 DEF Cell
<1> HIDE DEF marked, c
<1>7. /\ DOMAIN heap = DOMAIN cells \cup {Free} /\ heap[Free] = c
      /\ \A a \in DOMAIN cells : heap[a] = marked[a]
  <2>1. Free \notin DOMAIN marked /\ DOMAIN marked = DOMAIN cells
    BY <1>2, <1>3
  <2>2. QED BY <2>1 DEF Stored
<1> HIDE DEF heap, r, old
<1>8. \A a \in DOMAIN cells :
        /\ heap[a] \in Cell /\ heap[a].id = cells[a].id /\ heap[a].kids = cells[a].kids
        /\ heap[a].space = cells[a].space
        /\ heap[a].forward = IF a = old THEN Free ELSE cells[a].forward
  BY <1>3, <1>4, <1>5, <1>7
<1>9. \A a \in DOMAIN heap : heap[a] \in Cell
  BY <1>6, <1>7, <1>8
<1>10. Redirected(r, Free, heap)
  <2>1. /\ DOMAIN cells \subseteq DOMAIN heap /\ DOMAIN heap \subseteq Addresses
        /\ Free \in DOMAIN heap /\ \A a \in DOMAIN cells : heap[a].kids = cells[a].kids
    BY <1>2, <1>4, <1>7, <1>8
  <2>2. QED BY Zenon, <1>1, <1>2, <1>9, <2>1, BecomesIs DEF Inv
<1>11. /\ todo' \in Seq(Place)
       /\ Pending' = PlacesIn(Free, cells[old].kids) \cup ToSet(Tail(todo))
  BY <1>1, <1>2, <1>4, PlacesAdded DEF Pending
<1>12. Step(r, Free, heap)
  <2>1. DOMAIN heap \ DOMAIN cells = {Free}
    BY <1>2, <1>7
  <2>2. /\ DOMAIN cells \subseteq DOMAIN heap /\ DOMAIN heap \subseteq Addresses
        /\ Free \in DOMAIN heap
    BY <1>2, <1>4, <1>7
  <2>3. /\ heap[Free].id = cells[old].id /\ heap[Free].kids = cells[old].kids
        /\ heap[Free].space = "new"
    BY <1>6, <1>7
  <2>4. \A a \in DOMAIN heap \ DOMAIN cells :
            /\ heap[a].id = cells[At(r)].id /\ heap[a].kids = cells[At(r)].kids
            /\ heap[a].space = IF mode = "collect" THEN "new" ELSE "shared"
            /\ PlacesIn(a, heap[a].kids) \subseteq Pending'
    BY <1>1, <1>11, <2>1, <2>3 DEF old
  <2>5. \A q \in Pending' : \/ q \in ToSet(Tail(todo))
                            \/ \E a \in DOMAIN heap \ DOMAIN cells : q \in PlacesIn(a, heap[a].kids)
    BY <1>11, <2>1, <2>3
  <2>6. QED BY <1>1, <1>8, <1>10, <1>11, <2>2, <2>3, <2>4, <2>5 DEF Step, old
<1>13. Typed' /\ Graph' /\ Followed'
  BY Zenon, <1>1, <1>2, <1>12, StepTyped, StepGraph, StepFollowed DEF r, old
<1>14. /\ DOMAIN cells' = DOMAIN heap /\ Private' = Private /\ Copies' = Copies \cup {Free}
  <2>1. DOMAIN heap \ DOMAIN cells = {Free}
    BY <1>2, <1>7
  <2>2. QED BY <1>1, <1>12, <2>1, StepSpaces
<1>15. /\ \A a \in DOMAIN heap : cells'[a].id = heap[a].id /\ cells'[a].forward = heap[a].forward
  BY <1>10 DEF Redirected
<1>16. Private \subseteq DOMAIN cells /\ Copies \subseteq DOMAIN cells /\ old \in Private /\ old \notin Copies
  BY <1>1, <1>2 DEF Private, Copies
<1>17. /\ \A a \in DOMAIN cells : /\ cells'[a].id = cells[a].id
                                  /\ cells'[a].forward = IF a = old THEN Free ELSE cells[a].forward
       /\ cells'[Free].id = cells[old].id /\ cells'[Free].forward = None
  BY <1>6, <1>7, <1>8, <1>15
<1>18. Forwarding'
  <2>1. mode' = "collect"
    BY <1>1
  <2>2. \A a, b \in Private' : cells'[a].id = cells'[b].id => a = b
    BY <1>14, <1>16, <1>17 DEF Inv, Forwarding
  <2>3. ASSUME NEW a \in Private, cells'[a].forward # None
        PROVE  cells'[a].forward \in Copies' /\ cells'[cells'[a].forward].id = cells'[a].id
    <3>1. CASE a = old
      BY <1>14, <1>16, <1>17, <3>1
    <3>2. CASE a # old
      <4>1. cells[a].forward \in Copies /\ cells[cells[a].forward].id = cells[a].id
        BY <1>16, <1>17, <2>3, <3>2 DEF Inv, Forwarding
      <4>2. QED BY <1>14, <1>16, <1>17, <3>2, <4>1
    <3>3. QED BY <3>1, <3>2
  <2>4. ASSUME NEW d \in Copies'
        PROVE  cells'[d].forward = None /\ \E a \in Private : cells'[a].forward = d
    <3>1. CASE d = Free
      BY <1>16, <1>17, <3>1
    <3>2. CASE d \in Copies
      <4>1. cells[d].forward = None /\ \E a \in Private : cells[a].forward = d
        BY <3>2 DEF Inv, Forwarding
      <4>2. d # None
        BY <1>4, <1>16, <3>2, LocalHeapAssumption
      <4>3. QED BY <1>1, <1>16, <1>17, <3>2, <4>1, <4>2
    <3>3. QED BY <1>14, <3>1, <3>2
  <2>5. QED BY <1>14, <2>1, <2>2, <2>3, <2>4 DEF Forwarding
<1>19. QED BY <1>1, <1>13, <1>18 DEF Inv, Counted

LEMMA ForwardKept == ASSUME Inv, Forward
                     PROVE  Inv'
<1> DEFINE r == Head(todo)
           old == At(r)
           t == cells[old].forward
<1>1. /\ mode = "collect" /\ todo # << >>
      /\ cells[old].space = "private" /\ t # None
      /\ Becomes(r, t, cells)
      /\ todo' = Tail(todo)
      /\ UNCHANGED <<origin, mode, used, born>>
  BY DEF Forward
<1>2. /\ Valid(r) /\ old \in DOMAIN cells /\ Tail(todo) \in Seq(Place)
  BY <1>1, Current, First DEF Inv
<1>3. old \in Private
  BY <1>1, <1>2 DEF Private
<1>4. t \in Copies /\ cells[t].id = cells[old].id
  BY <1>1, <1>3 DEF Inv, Forwarding
<1>5. t \in DOMAIN cells /\ cells[t].space = "new"
  BY <1>4 DEF Copies
<1>6. DOMAIN cells \subseteq Addresses /\ \A a \in DOMAIN cells : cells[a] \in Cell
  BY DEF Inv, Typed
<1> HIDE DEF t, old, r
<1>7. Redirected(r, t, cells)
  BY <1>1, <1>2, <1>5, <1>6, BecomesIs DEF Inv
<1>8. Step(r, t, cells)
  <2>1. Pending' = ToSet(Tail(todo)) /\ todo' \in Seq(Place)
    BY <1>1, <1>2 DEF Pending
  <2>2. QED BY <1>1, <1>4, <1>5, <1>6, <1>7, <2>1 DEF Step, old
<1>9. Typed' /\ Graph' /\ Followed'
  BY Zenon, <1>1, <1>2, <1>8, StepTyped, StepGraph, StepFollowed DEF r, old
<1>10. /\ Private' = Private /\ Copies' = Copies
       /\ \A a \in DOMAIN cells : cells'[a].id = cells[a].id /\ cells'[a].forward = cells[a].forward
  <2>1. DOMAIN cells \ DOMAIN cells = {}
    OBVIOUS
  <2>2. QED BY <1>1, <1>7, <1>8, <2>1, StepSpaces DEF Redirected
<1>11. Private \subseteq DOMAIN cells /\ Copies \subseteq DOMAIN cells
  BY DEF Private, Copies
<1>12. Forwarding'
  BY <1>1, <1>10, <1>11 DEF Inv, Forwarding
<1>13. QED BY <1>1, <1>9, <1>12 DEF Inv, Counted

LEMMA SkipSharedKept == ASSUME Inv, SkipShared
                        PROVE  Inv'
<1> DEFINE r == Head(todo)
           t == At(r)
<1>1. /\ mode # "run" /\ todo # << >> /\ cells[t].space = "shared"
      /\ todo' = Tail(todo)
      /\ UNCHANGED <<cells, stack, origin, value, mode, used, born>>
  BY DEF SkipShared
<1>2. /\ Valid(r) /\ t \in DOMAIN cells /\ Tail(todo) \in Seq(Place)
      /\ mode \in {"collect", "share"}
  BY <1>1, Current, First DEF Inv
<1>3. DOMAIN cells \subseteq Addresses /\ \A a \in DOMAIN cells : cells[a] \in Cell
  BY DEF Inv, Typed
<1>4. Redirected(r, t, cells)
  <2>1. \A i \in DOMAIN stack : r = <<"stack", i, 0>> => t = stack[i]
    BY DEF At
  <2>2. \A a, k : r = <<"cell", a, k>> => t = cells[a].kids[k]
    BY DEF At
  <2>3. r[1] = "value" => t = value
    BY DEF At
  <2> HIDE DEF t, r
  <2>4. stack \in Seq(Addresses)
    BY DEF Inv, Typed
  <2>5. QED BY <1>1, <1>3, <2>1, <2>2, <2>3, <2>4 DEF Redirected
<1> HIDE DEF t, r
<1>5. Step(r, t, cells)
  <2>1. Pending' = ToSet(Tail(todo)) /\ todo' \in Seq(Place)
    BY <1>1, <1>2 DEF Pending
  <2>2. QED BY <1>1, <1>2, <1>3, <1>4, <2>1 DEF Step, t
<1>6. Typed' /\ Graph' /\ Followed'
  BY Zenon, <1>1, <1>2, <1>5, StepTyped, StepGraph, StepFollowed DEF r, t
<1>7. Forwarding' /\ Counted'
  BY <1>1 DEF Inv, Forwarding, Counted, Private, Copies
<1>8. QED BY <1>6, <1>7 DEF Inv

LEMMA ShareCopyKept == ASSUME Inv, ShareCopy
                       PROVE  Inv'
<1> DEFINE r == Head(todo)
           old == At(r)
           c == [cells[old] EXCEPT !.space = "shared"]
           heap == Stored(c, cells)
<1>1. /\ mode = "share" /\ todo # << >> /\ HasSpace
      /\ cells[old].space = "private"
      /\ Becomes(r, Free, heap)
      /\ todo' = [k \in DOMAIN cells[old].kids |-> <<"cell", Free, k>>] \o Tail(todo)
      /\ UNCHANGED <<origin, mode, used, born>>
  BY DEF ShareCopy
<1>2. /\ Valid(r) /\ old \in DOMAIN cells
      /\ Free \in Addresses /\ Free \notin DOMAIN cells
      /\ Tail(todo) \in Seq(Place)
  BY <1>1, Current, First, Fresh DEF Inv
<1>3. /\ cells[old] \in Cell /\ cells[old].kids \in Seq(Addresses)
      /\ DOMAIN cells \subseteq Addresses
      /\ \A a \in DOMAIN cells : cells[a] \in Cell
  BY <1>2 DEF Inv, Typed, Cell
<1>4. /\ c \in Cell /\ c.id = cells[old].id /\ c.kids = cells[old].kids
      /\ c.space = "shared"
  BY <1>3 DEF Cell
<1> HIDE DEF c
<1>5. /\ DOMAIN heap = DOMAIN cells \cup {Free} /\ heap[Free] = c
      /\ \A a \in DOMAIN cells : heap[a] = cells[a]
  BY <1>2 DEF Stored
<1> HIDE DEF heap, r, old
<1>6. \A a \in DOMAIN heap : heap[a] \in Cell
  BY <1>3, <1>4, <1>5
<1>7. Redirected(r, Free, heap)
  <2>1. /\ DOMAIN cells \subseteq DOMAIN heap /\ DOMAIN heap \subseteq Addresses
        /\ Free \in DOMAIN heap /\ \A a \in DOMAIN cells : heap[a].kids = cells[a].kids
    BY <1>2, <1>3, <1>5
  <2>2. QED BY Zenon, <1>1, <1>2, <1>6, <2>1, BecomesIs DEF Inv
<1>8. /\ todo' \in Seq(Place)
      /\ Pending' = PlacesIn(Free, cells[old].kids) \cup ToSet(Tail(todo))
  BY <1>1, <1>2, <1>3, PlacesAdded DEF Pending
<1>9. DOMAIN heap \ DOMAIN cells = {Free}
  BY <1>2, <1>5
<1>10. Step(r, Free, heap)
  <2>1. /\ DOMAIN cells \subseteq DOMAIN heap /\ DOMAIN heap \subseteq Addresses
        /\ Free \in DOMAIN heap
    BY <1>2, <1>3, <1>5
  <2>2. /\ heap[Free].id = cells[old].id /\ heap[Free].kids = cells[old].kids
        /\ heap[Free].space = "shared"
    BY <1>4, <1>5
  <2>3. \A a \in DOMAIN heap \ DOMAIN cells :
            /\ heap[a].id = cells[At(r)].id /\ heap[a].kids = cells[At(r)].kids
            /\ heap[a].space = IF mode = "collect" THEN "new" ELSE "shared"
            /\ PlacesIn(a, heap[a].kids) \subseteq Pending'
    BY <1>1, <1>8, <1>9, <2>2 DEF old
  <2>4. \A q \in Pending' : \/ q \in ToSet(Tail(todo))
                            \/ \E a \in DOMAIN heap \ DOMAIN cells : q \in PlacesIn(a, heap[a].kids)
    BY <1>8, <1>9, <2>2
  <2>5. QED BY <1>1, <1>5, <1>7, <1>8, <2>1, <2>2, <2>3, <2>4 DEF Step, old
<1>11. Typed' /\ Graph' /\ Followed'
  BY Zenon, <1>1, <1>2, <1>10, StepTyped, StepGraph, StepFollowed DEF r, old
<1>12. Private' = Private /\ Copies' = Copies
  BY <1>1, <1>10, StepSpaces
<1>13. /\ \A a \in DOMAIN cells : cells'[a].id = cells[a].id /\ cells'[a].forward = cells[a].forward
  BY <1>5, <1>7 DEF Redirected
<1>14. Private \subseteq DOMAIN cells /\ Copies = {}
  BY <1>1 DEF Private, Inv, Forwarding
<1>15. Forwarding' /\ Counted'
  BY <1>1, <1>12, <1>13, <1>14 DEF Inv, Forwarding, Counted
<1>16. QED BY <1>11, <1>15 DEF Inv

-----------------------------------------------------------------------------
(* The program. *)

\* What Inv says of a heap the program runs on, and all that has to be shown of
\* a step after which it runs.
Running ==
    /\ mode = "run" /\ todo = << >> /\ Copies = {}
    /\ \A a \in Shared : \A k \in DOMAIN cells[a].kids : cells[a].kids[k] \in Shared
    /\ \A a, b \in Private : cells[a].id = cells[b].id => a = b
    /\ \A a \in Private : cells[a].forward = None
    /\ used = Cardinality(Private)

LEMMA RunningIs == ASSUME Inv, mode = "run"
                   PROVE  Typed /\ Graph /\ Running
<1>1. todo = << >> /\ Copies = {} /\ used = Cardinality(Private)
  BY DEF Inv, Followed, Forwarding, Counted
<1>2. Pending = {}
  BY <1>1 DEF Pending, ToSet
<1>3. QED BY <1>1, <1>2 DEF Inv, Followed, Forwarding, Running

LEMMA RunningEnough == ASSUME Typed', Graph', Running'
                       PROVE  Inv'
<1>1. Pending' = {}
  BY DEF Pending, ToSet, Running
<1>2. QED BY <1>1 DEF Inv, Followed, Forwarding, Counted, Running

LEMMA MakeRefKept == ASSUME Inv, NEW kids \in BoundedSeq(DOMAIN stack, MaxKids), MakeRef(kids)
                     PROVE  Inv'
<1> DEFINE object == [id |-> Unborn, kids |-> [i \in DOMAIN kids |-> stack[kids[i]]],
                      space |-> "private", forward |-> None]
           births == [i \in DOMAIN kids |-> origin[kids[i]]]
           a == Free
           id == Unborn
<1>1. /\ mode = "run" /\ HasSpace /\ Births # Ids
      /\ cells' = Stored(object, cells) /\ stack' = Append(stack, a) /\ origin' = Append(origin, id)
      /\ born' = [born EXCEPT ![id] = births] /\ used' = used + 1
      /\ UNCHANGED <<value, mode, todo>>
  BY DEF MakeRef
<1>2. a \in Addresses /\ a \notin DOMAIN cells /\ id \in Ids /\ id \notin Births
  BY <1>1, Fresh DEF Inv
<1>3. Typed /\ Graph /\ Running
  BY <1>1, RunningIs
<1>4. PICK n \in Nat : kids \in [1..n -> DOMAIN stack]
  BY LocalHeapAssumption DEF BoundedSeq, SeqOf
<1>5. /\ stack \in Seq(Addresses) /\ origin \in Seq(Ids) /\ DOMAIN stack = DOMAIN origin
      /\ born \in [Ids -> Seq(Ids)] /\ DOMAIN cells \subseteq Addresses
      /\ \A b \in DOMAIN cells : cells[b] \in Cell
  BY <1>3 DEF Typed
<1>6. /\ object \in Cell /\ DOMAIN object.kids = DOMAIN kids
      /\ \A i \in DOMAIN kids : object.kids[i] = stack[kids[i]]
  <2>1. [i \in DOMAIN kids |-> stack[kids[i]]] \in Seq(Addresses)
    BY <1>4, <1>5
  <2>2. QED BY <1>2, <2>1 DEF Cell
<1>7. births \in Seq(Ids) /\ DOMAIN births = DOMAIN kids
  BY <1>4, <1>5
<1>8. object.id = id /\ object.space = "private" /\ object.forward = None
  OBVIOUS
<1> HIDE DEF object
<1>9. /\ DOMAIN cells' = DOMAIN cells \cup {a} /\ cells'[a] = object
      /\ \A b \in DOMAIN cells : cells'[b] = cells[b]
  BY <1>1, <1>2 DEF Stored
<1>10. /\ born'[id] = births /\ \A b \in DOMAIN cells : born'[cells[b].id] = born[cells[b].id]
  BY <1>1, <1>2, <1>5 DEF Births
<1>11. \A i \in DOMAIN kids : births[i] = origin[kids[i]] /\ kids[i] \in DOMAIN stack
  BY <1>4
<1> HIDE DEF births
<1>12. born' \in [Ids -> Seq(Ids)]
  BY <1>1, <1>5, <1>7
<1> HIDE DEF a, id
<1>13. /\ stack' \in Seq(Addresses) /\ origin' \in Seq(Ids) /\ Len(stack') = Len(origin')
       /\ \A i \in DOMAIN stack' : \/ i \in DOMAIN stack /\ stack'[i] = stack[i] /\ origin'[i] = origin[i]
                                   \/ stack'[i] = a /\ origin'[i] = id
  BY <1>1, <1>2, <1>5
<1>14. Typed'
  BY <1>1, <1>2, <1>3, <1>5, <1>6, <1>9, <1>12, <1>13 DEF Typed
<1>15. Graph'
  <2>1. ASSUME NEW b \in DOMAIN cells'
        PROVE  /\ DOMAIN cells'[b].kids = DOMAIN born'[cells'[b].id]
               /\ \A k \in DOMAIN cells'[b].kids :
                    /\ cells'[b].kids[k] \in DOMAIN cells'
                    /\ cells'[cells'[b].kids[k]].id = born'[cells'[b].id][k]
    <3>1. CASE b = a
      BY <1>3, <1>6, <1>7, <1>8, <1>9, <1>10, <1>11, <3>1 DEF Graph
    <3>2. CASE b \in DOMAIN cells
      BY <1>3, <1>9, <1>10, <3>2 DEF Graph
    <3>3. QED BY <1>9, <3>1, <3>2
  <2>2. \A i \in DOMAIN stack' : stack'[i] \in DOMAIN cells' /\ cells'[stack'[i]].id = origin'[i]
    BY <1>3, <1>8, <1>9, <1>13 DEF Graph
  <2>3. mode' = "run"
    BY <1>1
  <2>4. QED BY <2>1, <2>2, <2>3 DEF Graph
<1>16. Private' = Private \cup {a} /\ Shared' = Shared /\ Copies' = Copies
  BY <1>2, <1>8, <1>9 DEF Private, Shared, Copies
<1>17. IsFiniteSet(Private) /\ a \notin Private
  <2>1. Private \subseteq Addresses /\ a \notin Private /\ IsFiniteSet(Addresses)
    BY <1>2, <1>5, LocalHeapAssumption DEF Private
  <2>2. QED BY <2>1, FS_Subset
<1>18. used' = Cardinality(Private')
  BY <1>1, <1>3, <1>16, <1>17, FS_AddElement DEF Running
<1>19. Running'
  <2>1. \A b \in DOMAIN cells : cells[b].id # id
    BY <1>2 DEF Births, id
  <2>2. Private \subseteq DOMAIN cells /\ Shared \subseteq DOMAIN cells
    BY DEF Private, Shared
  <2>3. /\ \A b \in Shared' : \A k \in DOMAIN cells'[b].kids : cells'[b].kids[k] \in Shared'
        /\ \A b, c \in Private' : cells'[b].id = cells'[c].id => b = c
        /\ \A b \in Private' : cells'[b].forward = None
    BY <1>3, <1>8, <1>9, <1>16, <2>1, <2>2 DEF Running
  <2>4. QED BY <1>1, <1>3, <1>16, <1>18, <2>3 DEF Running
<1>20. QED BY <1>14, <1>15, <1>19, RunningEnough

\* The program moves references, the heap stays.
LEMMA StackKept == ASSUME Typed, Graph, Running, UNCHANGED <<cells, mode, todo, used, born>>,
                          stack' \in Seq(Addresses), origin' \in Seq(Ids), Len(stack') = Len(origin'),
                          \A i \in DOMAIN stack' : stack'[i] \in DOMAIN cells /\ cells[stack'[i]].id = origin'[i]
                   PROVE  Inv'
<1>1. Typed'
  BY DEF Typed
<1>2. Graph'
  BY DEF Graph, Running
<1>3. Running'
  BY DEF Running, Shared, Private, Copies
<1>4. QED BY <1>1, <1>2, <1>3, RunningEnough

LEMMA PartKept == ASSUME Inv, NEW i \in DOMAIN stack, NEW k \in DOMAIN cells[stack[i]].kids, Part(i, k)
                  PROVE  Inv'
<1> DEFINE x == cells[stack[i]].kids[k]
           y == born[origin[i]][k]
<1>1. /\ mode = "run" /\ stack' = Append(stack, x) /\ origin' = Append(origin, y)
      /\ UNCHANGED <<cells, mode, todo, used, born>>
  BY DEF Part
<1>2. Typed /\ Graph /\ Running
  BY <1>1, RunningIs
<1>3. stack[i] \in DOMAIN cells /\ cells[stack[i]].id = origin[i]
  BY <1>2 DEF Graph
<1>4. x \in DOMAIN cells /\ cells[x].id = y
  BY <1>2, <1>3 DEF Graph
<1>5. x \in Addresses /\ y \in Ids
  BY <1>2, <1>4 DEF Typed, Cell
<1> HIDE DEF x, y
<1>6. /\ stack \in Seq(Addresses) /\ origin \in Seq(Ids) /\ Len(stack) = Len(origin)
  BY <1>2 DEF Typed
<1>7. /\ stack' \in Seq(Addresses) /\ origin' \in Seq(Ids) /\ Len(stack') = Len(origin')
      /\ \A j \in DOMAIN stack' : \/ j \in DOMAIN stack /\ stack'[j] = stack[j] /\ origin'[j] = origin[j]
                                  \/ stack'[j] = x /\ origin'[j] = y
  BY <1>1, <1>5, <1>6
<1>8. \A j \in DOMAIN stack' : stack'[j] \in DOMAIN cells /\ cells[stack'[j]].id = origin'[j]
  BY <1>2, <1>4, <1>7 DEF Graph
<1>9. QED BY <1>1, <1>2, <1>7, <1>8, StackKept

LEMMA Removed == ASSUME NEW S, NEW s \in Seq(S), NEW i \in 1..Len(s)
                 PROVE  /\ RemoveAt(s, i) \in Seq(S) /\ Len(RemoveAt(s, i)) = Len(s) - 1
                        /\ \A j \in 1..(Len(s) - 1) :
                            RemoveAt(s, i)[j] = IF j < i THEN s[j] ELSE s[j + 1]
<1> DEFINE u == SubSeq(s, 1, i - 1)
           v == SubSeq(s, i + 1, Len(s))
<1>1. Len(s) \in Nat /\ \A j \in 1..Len(s) : s[j] \in S
  OBVIOUS
<1>2. u \in Seq(S) /\ Len(u) = i - 1 /\ \A j \in 1..(i - 1) : u[j] = s[j]
  BY <1>1
<1>3. v \in Seq(S) /\ Len(v) = Len(s) - i /\ \A j \in 1..(Len(s) - i) : v[j] = s[i + j]
  BY <1>1
<1> HIDE DEF u, v
<1>4. u \o v \in Seq(S) /\ Len(u \o v) = Len(s) - 1
  <2>1. u \in Seq(S) /\ v \in Seq(S)
    BY <1>2, <1>3
  <2>2. u \o v \in Seq(S) /\ Len(u \o v) = Len(u) + Len(v)
    BY <2>1
  <2>3. QED BY <1>1, <1>2, <1>3, <2>2
<1>5. ASSUME NEW j \in 1..(Len(s) - 1)
      PROVE  (u \o v)[j] = IF j < i THEN s[j] ELSE s[j + 1]
  <2>1. CASE j < i
    BY <1>2, <1>3, <1>4, <2>1
  <2>2. CASE ~ (j < i)
    <3>1. (u \o v)[j] = v[j - (i - 1)]
      BY <1>2, <1>3, <1>4, <2>2
    <3>2. j - (i - 1) \in 1..(Len(s) - i) /\ i + (j - (i - 1)) = j + 1
      BY <1>1, <2>2
    <3>3. QED BY <1>3, <2>2, <3>1, <3>2
  <2>3. QED BY <2>1, <2>2
<1>6. RemoveAt(s, i) = u \o v
  BY DEF RemoveAt, u, v
<1>7. QED BY <1>4, <1>5, <1>6

LEMMA PopKept == ASSUME Inv, NEW i \in DOMAIN stack, Pop(i)
                 PROVE  Inv'
<1>1. /\ mode = "run" /\ stack' = RemoveAt(stack, i) /\ origin' = RemoveAt(origin, i)
      /\ UNCHANGED <<cells, mode, todo, used, born>>
  BY DEF Pop
<1>2. Typed /\ Graph /\ Running
  BY <1>1, RunningIs
<1>3. /\ stack \in Seq(Addresses) /\ origin \in Seq(Ids) /\ Len(stack) = Len(origin)
      /\ i \in 1..Len(stack) /\ DOMAIN stack = 1..Len(stack) /\ Len(stack) \in Nat
  BY <1>2 DEF Typed
<1>4. /\ stack' \in Seq(Addresses) /\ Len(stack') = Len(stack) - 1
      /\ \A j \in 1..(Len(stack) - 1) : stack'[j] = IF j < i THEN stack[j] ELSE stack[j + 1]
  BY <1>1, <1>3, Removed
<1>5. /\ origin' \in Seq(Ids) /\ Len(origin') = Len(stack) - 1
      /\ \A j \in 1..(Len(stack) - 1) : origin'[j] = IF j < i THEN origin[j] ELSE origin[j + 1]
  BY <1>1, <1>3, Removed
<1>6. ASSUME NEW j \in DOMAIN stack'
      PROVE  stack'[j] \in DOMAIN cells /\ cells[stack'[j]].id = origin'[j]
  <2>1. j \in 1..(Len(stack) - 1) /\ j \in DOMAIN stack /\ j + 1 \in DOMAIN stack
    BY <1>3, <1>4
  <2>2. QED BY <1>2, <1>4, <1>5, <2>1 DEF Graph
<1>7. QED BY <1>1, <1>2, <1>4, <1>5, <1>6, StackKept

LEMMA EndShareKept == ASSUME Inv, NEW i \in DOMAIN stack, EndShare(i)
                      PROVE  Inv'
<1>1. /\ mode = "share" /\ todo = << >> /\ cells[stack[i]].id = cells[value].id
      /\ stack' = [stack EXCEPT ![i] = value] /\ mode' = "run"
      /\ UNCHANGED <<cells, origin, todo, used, born>>
  BY DEF EndShare
<1>2. value \in DOMAIN cells /\ stack \in Seq(Addresses) /\ value \in Addresses
  BY <1>1 DEF Inv, Graph, Typed
<1>3. /\ stack' \in Seq(Addresses) /\ Len(stack') = Len(stack) /\ DOMAIN stack' = DOMAIN stack
      /\ \A j \in DOMAIN stack : stack'[j] = IF j = i THEN value ELSE stack[j]
  BY <1>1, <1>2
<1>4. Typed'
  BY <1>1, <1>3 DEF Inv, Typed
<1>5. Graph'
  <2>1. \A j \in DOMAIN stack' : stack'[j] \in DOMAIN cells /\ cells[stack'[j]].id = origin[j]
    BY <1>1, <1>2, <1>3 DEF Inv, Graph
  <2>2. QED BY <1>1, <2>1 DEF Inv, Graph
<1>6. Running'
  <2>1. Pending = {}
    BY <1>1 DEF Pending, ToSet
  <2>2. Private' = Private /\ Copies' = Copies /\ Shared' = Shared
    BY <1>1 DEF Private, Copies, Shared
  <2>3. QED BY <1>1, <2>1, <2>2 DEF Inv, Followed, Forwarding, Counted, Running
<1>7. QED BY <1>4, <1>5, <1>6, RunningEnough

LEMMA StartShareKept == ASSUME Inv, NEW i \in DOMAIN stack, StartShare(i)
                        PROVE  Inv'
<1> DEFINE place == <<"value", i, 0>>
<1>1. /\ mode = "run" /\ value' = stack[i] /\ mode' = "share" /\ todo' = <<place>>
      /\ UNCHANGED <<cells, stack, origin, used, born>>
  BY DEF StartShare
<1>2. Typed /\ Graph /\ Running
  BY <1>1, RunningIs
<1>3. place \in Place
  <2>1. i \in Nat
    BY <1>2 DEF Typed
  <2>2. QED BY <2>1 DEF Place
<1> HIDE DEF place
<1>4. todo' \in Seq(Place) /\ Pending' = {place}
  BY <1>1, <1>3 DEF Pending, ToSet
<1>5. Typed' /\ Graph'
  BY <1>1, <1>2, <1>4 DEF Typed, Graph
<1>6. Private' = Private /\ Copies' = Copies /\ Shared' = Shared
  BY <1>1 DEF Private, Copies, Shared
<1>7. Followed'
  <2>1. Valid(place)'
    BY <1>1 DEF Valid, place
  <2>2. \E j \in DOMAIN stack' : <<"value", j, 0>> \in Pending'
    BY <1>1, <1>4 DEF place
  <2>3. QED BY <1>1, <1>2, <1>4, <1>6, <2>1, <2>2 DEF Followed, Running
<1>8. Forwarding' /\ Counted'
  BY <1>1, <1>2, <1>6 DEF Forwarding, Counted, Running
<1>9. QED BY <1>5, <1>7, <1>8 DEF Inv

LEMMA StartCollectKept == ASSUME Inv, StartCollect
                          PROVE  Inv'
<1>1. /\ mode = "run" /\ mode' = "collect" /\ todo' = [i \in DOMAIN stack |-> <<"stack", i, 0>>]
      /\ UNCHANGED <<cells, stack, origin, value, used, born>>
  BY DEF StartCollect, Roots
<1>2. Typed /\ Graph /\ Running
  BY <1>1, RunningIs
<1>3. stack \in Seq(Addresses)
  BY <1>2 DEF Typed
<1>4. todo' \in Seq(Place) /\ Len(todo') = Len(stack) /\ \A i \in 1..Len(stack) : todo'[i] = <<"stack", i, 0>>
  <2>1. DOMAIN stack = 1..Len(stack) /\ Len(stack) \in Nat
    BY <1>3
  <2>2. \A i \in 1..Len(stack) : <<"stack", i, 0>> \in Place
    BY <2>1 DEF Place
  <2>3. todo' = [i \in 1..Len(stack) |-> <<"stack", i, 0>>]
    BY <1>1, <2>1
  <2>4. QED BY <2>1, <2>2, <2>3
<1>5. \A r : r \in Pending' <=> \E i \in DOMAIN stack : r = <<"stack", i, 0>>
  <2>1. DOMAIN stack = 1..Len(stack)
    BY <1>3
  <2>2. \A r : r \in ToSet(todo') <=> \E i \in 1..Len(todo') : todo'[i] = r
    BY Zenon, <1>4, Members
  <2>3. QED BY <1>4, <2>1, <2>2 DEF Pending
<1>6. Typed' /\ Graph'
  BY <1>1, <1>2, <1>4 DEF Typed, Graph
<1>7. Private' = Private /\ Copies' = Copies /\ Shared' = Shared
  BY <1>1 DEF Private, Copies, Shared
<1>8. Followed'
  <2>1. ASSUME NEW r \in Pending'
        PROVE  Valid(r)'
    BY <1>1, <1>5, <2>1 DEF Valid
  <2>2. \A i \in DOMAIN stack' : <<"stack", i, 0>> \in Pending'
    BY <1>1, <1>5
  <2>3. QED BY <1>1, <1>2, <1>7, <2>1, <2>2 DEF Followed, Running
<1>9. Forwarding' /\ Counted'
  BY <1>1, <1>2, <1>7 DEF Forwarding, Counted, Running
<1>10. QED BY <1>6, <1>8, <1>9 DEF Inv

\* A part of the heap that holds what its objects and the stack refer to
\* becomes the heap.
Keeps(kept) ==
    /\ kept \subseteq DOMAIN cells /\ DOMAIN cells' = kept
    /\ \A a \in kept : /\ cells'[a] \in Cell
                       /\ cells'[a].id = cells[a].id /\ cells'[a].kids = cells[a].kids
                       /\ \A k \in DOMAIN cells[a].kids : cells[a].kids[k] \in kept
    /\ \A i \in DOMAIN stack : stack[i] \in kept
    /\ born' = Remembered(cells') /\ UNCHANGED <<stack, origin, todo>> /\ mode' = "run"

LEMMA KeptGraph == ASSUME Inv, NEW kept, Keeps(kept)
                   PROVE  Typed' /\ Graph'
<1>1. /\ born \in [Ids -> Seq(Ids)] /\ DOMAIN cells \subseteq Addresses
      /\ \A a \in DOMAIN cells : cells[a] \in Cell
  BY DEF Inv, Typed
<1>2. /\ kept \subseteq DOMAIN cells /\ DOMAIN cells' = kept
      /\ \A a \in kept : /\ cells'[a] \in Cell
                         /\ cells'[a].id = cells[a].id /\ cells'[a].kids = cells[a].kids
                         /\ \A k \in DOMAIN cells[a].kids : cells[a].kids[k] \in kept
      /\ \A i \in DOMAIN stack : stack[i] \in kept
      /\ UNCHANGED <<stack, origin, todo>> /\ mode' = "run"
  BY DEF Keeps
<1>3. born' = [id \in Ids |-> IF \E a \in kept : cells'[a].id = id THEN born[id] ELSE << >>]
  BY <1>2 DEF Keeps, Remembered
<1>4. born' \in [Ids -> Seq(Ids)]
  BY <1>1, <1>3
<1>5. \A a \in kept : born'[cells[a].id] = born[cells[a].id]
  BY <1>1, <1>2, <1>3 DEF Cell
<1>6. Typed'
  BY <1>1, <1>2, <1>4 DEF Inv, Typed
<1>7. Graph'
  BY <1>2, <1>5 DEF Inv, Graph
<1>8. QED BY <1>6, <1>7

LEMMA EndCollectKept == ASSUME Inv, EndCollect
                        PROVE  Inv'
<1> DEFINE kept == Copies \cup Shared
<1>1. /\ mode = "collect" /\ todo = << >> /\ mode' = "run" /\ used' = Cardinality(Copies)
      /\ cells' = [a \in kept |-> IF a \in Copies THEN [cells[a] EXCEPT !.space = "private"] ELSE cells[a]]
      /\ born' = Remembered(cells')
      /\ UNCHANGED <<stack, origin, value, todo>>
  BY DEF EndCollect
<1>2. Pending = {}
  BY <1>1 DEF Pending, ToSet
<1>3. /\ \A i \in DOMAIN stack : stack[i] \in kept
      /\ \A a \in Copies : \A k \in DOMAIN cells[a].kids : cells[a].kids[k] \in kept
      /\ \A a \in Shared : \A k \in DOMAIN cells[a].kids : cells[a].kids[k] \in Shared
  BY <1>1, <1>2 DEF Inv, Followed
<1>4. kept \subseteq DOMAIN cells /\ \A a \in Copies : cells[a].space = "new" /\ a \notin Shared
  BY DEF Copies, Shared
<1>5. \A a \in DOMAIN cells : cells[a] \in Cell
  BY DEF Inv, Typed
<1>6. \A a \in kept :
        /\ cells'[a] \in Cell
        /\ cells'[a].id = cells[a].id /\ cells'[a].kids = cells[a].kids
        /\ cells'[a].forward = cells[a].forward
        /\ cells'[a].space = IF a \in Copies THEN "private" ELSE cells[a].space
  BY <1>1, <1>4, <1>5 DEF Cell
<1>7. DOMAIN cells' = kept
  BY <1>1
<1>8. Keeps(kept)
  BY <1>1, <1>3, <1>4, <1>6, <1>7 DEF Keeps
<1>9. Typed' /\ Graph'
  BY <1>8, KeptGraph
<1>10. Private' = Copies /\ Copies' = {} /\ Shared' = Shared
  BY <1>4, <1>6, <1>7 DEF Private, Copies, Shared
<1>11. ASSUME NEW a \in Copies, NEW b \in Copies, cells'[a].id = cells'[b].id
       PROVE  a = b
  <2>1. PICK x \in Private : cells[x].forward = a
    BY DEF Inv, Forwarding
  <2>2. PICK y \in Private : cells[y].forward = b
    BY DEF Inv, Forwarding
  <2>3. a # None /\ b # None
    BY <1>4, LocalHeapAssumption DEF Inv, Typed
  <2>4. cells[x].id = cells[a].id /\ cells[y].id = cells[b].id
    BY <2>1, <2>2, <2>3 DEF Inv, Forwarding
  <2>5. cells[a].id = cells[b].id
    BY <1>6, <1>11
  <2>6. x = y
    BY <2>4, <2>5 DEF Inv, Forwarding
  <2>7. QED BY <2>1, <2>2, <2>6
<1>12. Running'
  <2>1. \A a \in Copies : cells'[a].forward = None
    BY <1>6 DEF Inv, Forwarding
  <2>2. \A a \in Shared : \A k \in DOMAIN cells'[a].kids : cells'[a].kids[k] \in Shared
    BY <1>3, <1>6
  <2>3. QED BY <1>1, <1>10, <1>11, <2>1, <2>2 DEF Running
<1>13. QED BY <1>9, <1>12, RunningEnough

LEMMA SharedSweptKept == ASSUME Inv, SharedSwept
                         PROVE  Inv'
<1> DEFINE roots == Private \cup ToSet(stack)
           kept == Private \cup LeadsTo(roots)
<1>1. /\ mode = "run" /\ cells' = [a \in kept |-> cells[a]] /\ born' = Remembered(cells')
      /\ UNCHANGED <<stack, origin, value, mode, todo, used>>
  BY DEF SharedSwept
<1>2. Typed /\ Graph /\ Running
  BY <1>1, RunningIs
<1>3. stack \in Seq(Addresses) /\ DOMAIN cells \subseteq Addresses /\ \A a \in DOMAIN cells : cells[a] \in Cell
  BY <1>2 DEF Typed
<1>4. \A a : a \in ToSet(stack) <=> \E i \in DOMAIN stack : stack[i] = a
  BY <1>3 DEF ToSet
<1>5. roots \subseteq DOMAIN cells /\ roots \in SUBSET Addresses
  BY <1>2, <1>3, <1>4 DEF Private, Graph
<1>6. \A a \in DOMAIN cells : /\ ToSet(cells[a].kids) \subseteq DOMAIN cells
                              /\ \A k \in DOMAIN cells[a].kids : cells[a].kids[k] \in ToSet(cells[a].kids)
  BY <1>2, <1>3 DEF Graph, Cell, ToSet
<1> HIDE DEF roots
<1>7. LeadsTo(roots) \subseteq DOMAIN cells
  BY <1>5, <1>6, LeadsToWithin
<1>8. roots \subseteq LeadsTo(roots)
  BY LeadsToRoots
<1>9. \A a \in LeadsTo(roots) : ToSet(cells[a].kids) \subseteq LeadsTo(roots)
  BY <1>3, <1>5, <1>6, <1>7, LeadsToClosed
<1>10. kept = LeadsTo(roots)
  BY <1>8 DEF roots
<1>11. \A i \in DOMAIN stack : stack[i] \in kept
  BY <1>4, <1>8 DEF roots
<1> HIDE DEF kept
<1>12. Keeps(kept)
  <2>1. DOMAIN cells' = kept /\ \A a \in kept : cells'[a] = cells[a]
    BY <1>1
  <2>2. QED BY <1>1, <1>3, <1>6, <1>7, <1>9, <1>10, <1>11, <2>1 DEF Keeps
<1>13. Typed' /\ Graph'
  BY <1>12, KeptGraph
<1>14. DOMAIN cells' = kept /\ (\A a \in kept : cells'[a] = cells[a]) /\ Private \subseteq kept
       /\ kept \subseteq DOMAIN cells
  BY <1>1, <1>7, <1>10 DEF kept
<1>15. Private' = Private /\ Copies' = {} /\ Shared' = Shared \cap kept
  BY <1>2, <1>14 DEF Private, Copies, Shared, Running
<1>16. Running'
  <2>1. \A a \in kept : \A k \in DOMAIN cells[a].kids : cells[a].kids[k] \in kept
    BY <1>12 DEF Keeps
  <2>2. \A a \in Shared' : \A k \in DOMAIN cells'[a].kids : cells'[a].kids[k] \in Shared'
    BY <1>2, <1>14, <1>15, <2>1 DEF Running
  <2>3. QED BY <1>1, <1>2, <1>14, <1>15, <2>2 DEF Running
<1>17. QED BY <1>13, <1>16, RunningEnough

-----------------------------------------------------------------------------
(* GraphKept. *)

LEMMA InitInv == Init => Inv
<1> SUFFICES ASSUME Init PROVE Inv
  OBVIOUS
<1>1. /\ cells = << >> /\ stack = << >> /\ origin = << >> /\ mode = "run" /\ todo = << >> /\ used = 0
      /\ born = [id \in Ids |-> << >>]
  BY DEF Init
<1>2. DOMAIN cells = {} /\ DOMAIN stack = {}
  BY <1>1
<1>3. Private = {} /\ Copies = {} /\ Shared = {} /\ Pending = {}
  BY <1>1, <1>2 DEF Private, Copies, Shared, Pending, ToSet
<1>4. Typed
  BY <1>1, <1>2 DEF Typed
<1>5. Graph /\ Followed /\ Forwarding
  BY <1>1, <1>2, <1>3 DEF Graph, Followed, Forwarding
<1>6. Counted
  BY <1>1, <1>3, FS_EmptySet DEF Counted
<1>7. QED BY <1>4, <1>5, <1>6 DEF Inv

LEMMA Preserved == Inv /\ [Next]_vars => Inv'
<1> SUFFICES ASSUME Inv, [Next]_vars PROVE Inv'
  OBVIOUS
<1>1. ASSUME NEW kids \in BoundedSeq(DOMAIN stack, MaxKids), MakeRef(kids) PROVE Inv'
  BY <1>1, MakeRefKept
<1>2. ASSUME NEW i \in DOMAIN stack, NEW k \in DOMAIN cells[stack[i]].kids, Part(i, k) PROVE Inv'
  BY <1>2, PartKept
<1>3. ASSUME NEW i \in DOMAIN stack, Pop(i) PROVE Inv'
  BY <1>3, PopKept
<1>4. ASSUME NEW i \in DOMAIN stack, StartShare(i) PROVE Inv'
  BY <1>4, StartShareKept
<1>5. ASSUME NEW i \in DOMAIN stack, EndShare(i) PROVE Inv'
  BY <1>5, EndShareKept
<1>6. CASE SharedSwept
  BY <1>6, SharedSweptKept
<1>7. CASE StartCollect
  BY <1>7, StartCollectKept
<1>8. CASE Copy
  BY <1>8, CopyKept
<1>9. CASE Forward
  BY <1>9, ForwardKept
<1>10. CASE SkipShared
  BY <1>10, SkipSharedKept
<1>11. CASE EndCollect
  BY <1>11, EndCollectKept
<1>12. CASE ShareCopy
  BY <1>12, ShareCopyKept
<1>13. CASE UNCHANGED vars
  <2>1. UNCHANGED <<cells, stack, origin, value, mode, todo, used, born>>
    BY <1>13 DEF vars
  <2>2. Typed' /\ Graph' /\ Forwarding' /\ Counted'
    BY <2>1 DEF Inv, Typed, Graph, Forwarding, Counted, Private, Copies
  <2>3. Followed'
    BY SMTT(30), <2>1 DEF Inv, Followed, Valid, Pending, Copies, Shared
  <2>4. QED BY <2>2, <2>3 DEF Inv
<1>14. QED
  BY <1>1, <1>2, <1>3, <1>4, <1>5, <1>6, <1>7, <1>8, <1>9, <1>10, <1>11, <1>12, <1>13 DEF Next

\* What the program made is what it finds, after any number of collections and
\* shares: the copies (gc.cc:541-728) keep each object, its references and the
\* references to it, and the count the next collection is decided by is right.
THEOREM HeapKept == Spec => []GraphKept
<1>1. ASSUME Inv
      PROVE  GraphKept
  <2> SUFFICES ASSUME mode = "run"
               PROVE  /\ LeadsTo(ToSet(stack)) \subseteq DOMAIN cells
                      /\ \A i \in DOMAIN stack : cells[stack[i]].id = origin[i]
                      /\ \A a \in LeadsTo(ToSet(stack)) :
                          /\ [k \in DOMAIN cells[a].kids |-> cells[cells[a].kids[k]].id] = born[cells[a].id]
                          /\ cells[a].space = "shared" => ToSet(cells[a].kids) \subseteq Shared
                      /\ \A a, b \in Private : cells[a].id = cells[b].id => a = b
                      /\ used = Cardinality(Private)
    BY Zenon DEF GraphKept
  <2>1. Typed /\ Graph /\ Running
    BY <1>1, RunningIs
  <2>2. LeadsTo(ToSet(stack)) \subseteq DOMAIN cells
    <3>1. ToSet(stack) \subseteq DOMAIN cells
      BY <2>1 DEF ToSet, Graph
    <3>2. \A a \in DOMAIN cells : ToSet(cells[a].kids) \subseteq DOMAIN cells
      BY <2>1 DEF ToSet, Graph
    <3>3. QED BY <3>1, <3>2, LeadsToWithin
  <2>3. ASSUME NEW a \in DOMAIN cells
        PROVE  /\ [k \in DOMAIN cells[a].kids |-> cells[cells[a].kids[k]].id] = born[cells[a].id]
               /\ cells[a].space = "shared" => ToSet(cells[a].kids) \subseteq Shared
    <3>1. born[cells[a].id] \in Seq(Ids)
      BY <2>1 DEF Typed, Cell
    <3>2. /\ DOMAIN cells[a].kids = DOMAIN born[cells[a].id]
          /\ \A k \in DOMAIN cells[a].kids : cells[cells[a].kids[k]].id = born[cells[a].id][k]
      BY <2>1 DEF Graph
    <3>3. [k \in DOMAIN cells[a].kids |-> cells[cells[a].kids[k]].id] = born[cells[a].id]
      BY <3>1, <3>2
    <3>4. cells[a].space = "shared" => ToSet(cells[a].kids) \subseteq Shared
      BY <2>1 DEF Running, Shared, ToSet
    <3>5. QED BY <3>3, <3>4
  <2>4. QED BY <2>1, <2>2, <2>3 DEF Graph, Running
<1>2. QED BY <1>1, InitInv, Preserved, PTL DEF Spec
=============================================================================
