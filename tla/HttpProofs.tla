----------------------------- MODULE HttpProofs -----------------------------
(***************************************************************************)
(* Proofs about the HTTP parser and the server. Parser: for any text in    *)
(* any reads, the receiver of the callbacks is told the same as by one     *)
(* read of the same text, and a parser that is kept between two requests   *)
(* tells what a new one tells. Server: for any number of connections and   *)
(* any requests, no buffer of the pool is lost, handed out twice or kept   *)
(* by a connection that has nothing to read; for scripts that ScriptsRead  *)
(* allows, a connection has the headers of the request it has read, and    *)
(* the process ends for the known reasons only.                            *)
(***************************************************************************)
EXTENDS HttpStream, HttpConnection, FiniteSetTheorems, WellFoundedInduction, TLAPS

RunFields == {"p", "mark", "text", "calls", "stop", "whole"}
ParserFields == {"state", "header", "flags", "length", "major", "minor", "index", "upgrade", "error"}

Kinds == {"message_begin", "headers_complete", "message_complete"} \cup Texts

Calls(S) == Kinds \X Seq(S)

IsRun(S, a) ==
    /\ DOMAIN a = RunFields /\ DOMAIN a.p = ParserFields
    /\ a.mark \in {"none"} \cup Texts /\ a.text \in Seq(S) /\ a.calls \in Seq(Calls(S))
    /\ a.mark = "none" => a.text = << >>

\* What a receiver that was told t before knows once the marked text is handed out.
Full(t, a) ==
    IF a.mark = "none" THEN Joined(t, a.calls) ELSE Join(Joined(t, a.calls), <<a.mark, a.text>>)

Same(a, b) == a.p = b.p /\ (a.stop <=> b.stop) /\ (a.whole <=> b.whole)

Going(a) == ~a.p.error /\ ~a.stop /\ a.whole

\* Two runs after the same text in different reads: t and u were told before.
Together(S, K, t, a, u, b) ==
    /\ IsRun(S, a) /\ IsRun(S, b) /\ t \in Seq(Calls(S)) /\ u \in Seq(Calls(S))
    /\ Same(a, b) /\ Going(a) /\ a.mark \in K /\ b.mark \in K /\ a.mark \in {"none", b.mark}
    /\ Full(t, a) = Full(u, b)

\* The texts that may be marked in a state.
MarksOf(s) ==
    IF s \in {"header_field", "header_value"} THEN {s}
    ELSE IF s \in UrlStates THEN {"url"}
    ELSE IF s \in {"body_identity", "chunk_data", "chunk_data_almost_done"} THEN {"none", "body"}
    ELSE {"none"}

Settled(a) ==
    /\ a.p.error => a.stop /\ ~a.whole
    /\ a.stop => a.p.error \/ a.p.upgrade
    /\ a.stop \/ a.whole

Alike(S, t, a, u, b) ==
    /\ IsRun(S, a) /\ IsRun(S, b) /\ t \in Seq(Calls(S)) /\ u \in Seq(Calls(S))
    /\ Same(a, b) /\ Settled(a)
    /\ ~a.p.error => a.mark \in MarksOf(a.p.state) /\ b.mark \in MarksOf(a.p.state)
    /\ a.mark \in {"none", b.mark} /\ Full(t, a) = Full(u, b)

-----------------------------------------------------------------------------
(* Induction over the places of a sequence is by the least place.          *)

Below == {r \in Nat \X Nat : r[1] < r[2]}

LEMMA Least == ASSUME NEW S \in SUBSET Nat, S # {}
               PROVE  \E n \in S : \A m \in S : n <= m
<1>1. IsWellFoundedOn(Below, Nat)
  BY Zenon, NatLessThanWellFounded DEF OpToRel, Below
<1>2. PICK n \in S : \A m \in S : <<m, n>> \notin Below
  BY Zenon, <1>1, WFMin
<1>3. ASSUME NEW m \in S
      PROVE  n <= m
  <2>1. <<m, n>> \in Nat \X Nat /\ <<m, n>> \notin Below
    BY <1>2
  <2>2. ~(m < n)
    BY <2>1 DEF Below
  <2>3. QED BY <2>2
<1>4. QED BY <1>3

LEMMA Replaced == ASSUME NEW C, NEW t \in Seq(C), NEW n \in 1 .. Len(t), NEW d
                  PROVE  /\ DOMAIN [t EXCEPT ![n] = d] = 1 .. Len(t)
                         /\ [t EXCEPT ![n] = d][n] = d
                         /\ \A i \in 1 .. Len(t) : i # n => [t EXCEPT ![n] = d][i] = t[i]
  OBVIOUS

\* Joining one callback.
LEMMA JoinIs == ASSUME NEW S, NEW t \in Seq(Calls(S)), NEW e \in Calls(S)
                PROVE  /\ Join(t, e) \in Seq(Calls(S)) /\ Join(t, e) # << >>
                       /\ Last(Join(t, e))[1] = e[1]
<1> DEFINE joined == t # << >> /\ e[1] \in Texts /\ Last(t)[1] = e[1]
           d == <<e[1], Last(t)[2] \o e[2]>>
<1>1. e[1] \in Kinds /\ e[2] \in Seq(S)
  BY DEF Calls
<1>2. CASE joined
  <2>1. Len(t) \in Nat \ {0} /\ Last(t) \in Calls(S)
    BY <1>2 DEF Last
  <2>2. d \in Calls(S) /\ d[1] = e[1]
    <3>1. Last(t)[2] \in Seq(S)
      BY <2>1 DEF Calls
    <3>2. Last(t)[2] \o e[2] \in Seq(S)
      BY <1>1, <3>1
    <3>3. QED BY <1>1, <3>2 DEF Calls
  <2>3. Join(t, e) = [t EXCEPT ![Len(t)] = d]
    BY <1>2 DEF Join
  <2> HIDE DEF d
  <2>4. [t EXCEPT ![Len(t)] = d] \in Seq(Calls(S))
    BY <2>1, <2>2
  <2>5. Len(Join(t, e)) = Len(t) /\ Join(t, e)[Len(t)] = d
    BY <2>1, <2>3
  <2>6. QED BY <2>1, <2>2, <2>3, <2>4, <2>5 DEF Last
<1>3. CASE ~joined
  <2>1. Join(t, e) = Append(t, e)
    BY <1>3 DEF Join
  <2>2. QED BY <2>1 DEF Last
<1>4. QED BY <1>2, <1>3

Both(x, y) == x \o y

\* Two pieces of a text are joined as the whole of it.
LEMMA JoinJoin == ASSUME NEW S, NEW t \in Seq(Calls(S)), NEW e \in Calls(S), NEW f \in Calls(S),
                         e[1] \in Texts, f[1] = e[1]
                  PROVE  Join(Join(t, e), f) = Join(t, <<e[1], Both(e[2], f[2])>>)
<1> DEFINE k == e[1]
           x == e[2]
           y == f[2]
           g == <<k, x \o y>>
           v == Join(t, e)
<1>1. k \in Kinds /\ x \in Seq(S) /\ y \in Seq(S) /\ k \in Texts /\ f[1] = k
  BY DEF Calls
<1> HIDE DEF k, x, y
<1>2. g \in Calls(S) /\ g[1] = k /\ g[2] = x \o y
  <2>1. x \o y \in Seq(S)
    BY <1>1
  <2>2. QED BY <1>1, <2>1 DEF Calls
<1> HIDE DEF g
<1>3. v \in Seq(Calls(S)) /\ v # << >> /\ Last(v)[1] = k
  BY JoinIs DEF k
<1> HIDE DEF v
<1>4. Join(v, f) = [v EXCEPT ![Len(v)] = <<k, Last(v)[2] \o y>>]
  BY <1>1, <1>3 DEF Join, y
<1>5. CASE t # << >> /\ Last(t)[1] = k
  <2> DEFINE z == Last(t)[2]
             d == <<k, z \o (x \o y)>>
  <2>1. Len(t) \in Nat \ {0} /\ z \in Seq(S)
    BY <1>5 DEF Last, Calls
  <2>2. v = [t EXCEPT ![Len(t)] = <<k, z \o x>>]
    BY <1>1, <1>5 DEF v, Join, k, x
  <2>3. Join(t, g) = [t EXCEPT ![Len(t)] = d]
    BY <1>1, <1>2, <1>5 DEF Join
  <2> HIDE DEF z
  <2>4. Len(v) = Len(t) /\ v[Len(t)] = <<k, z \o x>>
    <3>1. DOMAIN v = 1 .. Len(t) /\ v[Len(t)] = <<k, z \o x>>
      <4>1. Len(t) \in 1 .. Len(t)
        BY <2>1
      <4>2. QED BY <2>2, <4>1, Replaced
    <3>2. QED BY <1>3, <2>1, <3>1
  <2>5. Last(v)[2] = z \o x
    BY <2>4 DEF Last
  <2>6. (z \o x) \o y = z \o (x \o y)
    BY <1>1, <2>1
  <2>7. Join(v, f) = [v EXCEPT ![Len(t)] = d]
    BY <1>4, <2>4, <2>5, <2>6
  <2> HIDE DEF d
  <2>8. [v EXCEPT ![Len(t)] = d] = [t EXCEPT ![Len(t)] = d]
    BY <2>1, <2>2
  <2>9. QED BY <2>3, <2>7, <2>8 DEF v, g, k, x, y, Both
<1>6. CASE ~(t # << >> /\ Last(t)[1] = k)
  <2>1. v = Append(t, e) /\ Join(t, g) = Append(t, g)
    BY <1>1, <1>2, <1>6 DEF v, Join, k
  <2>2. Len(v) = Len(t) + 1 /\ v[Len(t) + 1] = e /\ Len(t) \in Nat
    BY <2>1
  <2>3. Last(v)[2] = x
    BY <2>2 DEF Last, x
  <2>4. Join(v, f) = [Append(t, e) EXCEPT ![Len(t) + 1] = g]
    BY <1>4, <2>1, <2>2, <2>3 DEF g
  <2>5. [Append(t, e) EXCEPT ![Len(t) + 1] = g] = Append(t, g)
    <3> DEFINE l == [Append(t, e) EXCEPT ![Len(t) + 1] = g]
    <3>1. DOMAIN l = 1 .. Len(t) + 1 /\ DOMAIN Append(t, g) = 1 .. Len(t) + 1
      BY <1>2, <2>2
    <3>2. ASSUME NEW i \in 1 .. Len(t) + 1 PROVE l[i] = Append(t, g)[i]
      <4>1. CASE i = Len(t) + 1
        BY <1>2, <2>2, <4>1
      <4>2. CASE i # Len(t) + 1
        <5>1. i \in 1 .. Len(t) /\ Append(t, g)[i] = t[i] /\ Append(t, e)[i] = t[i]
          BY <1>2, <2>2, <4>2
        <5>2. /\ Append(t, e) \in Seq(Calls(S)) /\ Len(t) + 1 \in 1 .. Len(Append(t, e))
              /\ i \in 1 .. Len(Append(t, e))
          BY <2>2
        <5>3. l[i] = Append(t, e)[i]
          BY <4>2, <5>2, Replaced
        <5>4. QED BY <5>1, <5>3
      <4>3. QED BY <4>1, <4>2
    <3>3. l \in Seq(Calls(S)) /\ Append(t, g) \in Seq(Calls(S))
      BY <1>2, <2>2
    <3> HIDE DEF l
    <3>4. Len(l) = Len(Append(t, g))
      BY <3>1, <3>3, <2>2
    <3>5. l = Append(t, g)
      BY <3>1, <3>2, <3>3, <3>4
    <3>6. QED BY <3>5 DEF l
  <2>6. QED BY <2>1, <2>4, <2>5 DEF v, g, k, x, y, Both
<1>7. QED BY <1>5, <1>6

\* Nothing more of the text that was told last.
LEMMA JoinNothing == ASSUME NEW S, NEW t \in Seq(Calls(S)), NEW k \in Texts,
                            t # << >>, Last(t)[1] = k
                     PROVE  Join(t, <<k, << >>>>) = t
<1>1. Len(t) \in Nat \ {0} /\ Last(t) \in Calls(S) /\ Last(t) = t[Len(t)]
  BY DEF Last
<1>2. Last(t)[2] \o << >> = Last(t)[2] /\ Last(t) = <<k, Last(t)[2]>>
  BY <1>1 DEF Calls
<1>3. Join(t, <<k, << >>>>) = [t EXCEPT ![Len(t)] = Last(t)]
  BY <1>2 DEF Join
<1>4. QED BY <1>1, <1>3

-----------------------------------------------------------------------------
(* The recursive functions of the model exist and obey their equations.    *)

Joining(f, n, t, s) == f = [i \in 0 .. n |-> IF i = 0 THEN t ELSE Join(f[i - 1], s[i])]

LEMMA JoiningExists == ASSUME NEW t, NEW s, NEW n \in Nat
                   PROVE  \E f : Joining(f, n, t, s)
<1> DEFINE Failing == {m \in Nat : ~ \E f : Joining(f, m, t, s)}
<1>1. SUFFICES ASSUME Failing # {} PROVE FALSE
  OBVIOUS
<1>2. PICK m \in Failing : \A k \in Failing : m <= k
  <2> HIDE DEF Failing
  <2>1. Failing \in SUBSET Nat
    BY DEF Failing
  <2>2. QED BY <1>1, <2>1, Least
<1>3. m # 0
  <2>1. Joining([i \in 0 .. 0 |-> t], 0, t, s)
    BY DEF Joining
  <2>2. QED BY <1>2, <2>1
<1>4. m \in Nat /\ m - 1 \in Nat /\ m - 1 \notin Failing
  BY <1>2, <1>3
<1>5. PICK g : Joining(g, m - 1, t, s)
  BY <1>4
<1> DEFINE h == [i \in 0 .. m |-> IF i < m THEN g[i] ELSE Join(g[m - 1], s[m])]
<1>6. \A i \in 0 .. m : h[i] = IF i = 0 THEN t ELSE Join(h[i - 1], s[i])
  <2>1. \A i \in 0 .. (m - 1) : g[i] = IF i = 0 THEN t ELSE Join(g[i - 1], s[i])
    BY <1>5, Zenon DEF Joining
  <2>2. \A i \in 0 .. (m - 1) : h[i] = g[i]
    BY <1>4
  <2>3. h[m] = Join(g[m - 1], s[m])
    BY <1>4
  <2> HIDE DEF h
  <2>4. ASSUME NEW i \in 0 .. m
        PROVE  h[i] = IF i = 0 THEN t ELSE Join(h[i - 1], s[i])
    <3>1. CASE i = m
      <4>1. m - 1 \in 0 .. (m - 1)
        BY <1>4
      <4>2. h[i - 1] = g[m - 1]
        BY <2>2, <3>1, <4>1
      <4>3. QED BY <1>3, <2>3, <3>1, <4>2
    <3>2. CASE i # m
      <4>1. i \in 0 .. (m - 1) /\ (i # 0 => i - 1 \in 0 .. (m - 1))
        BY <1>4, <3>2
      <4>2. QED BY <2>1, <2>2, <4>1
    <3>3. QED BY <3>1, <3>2
  <2>5. QED BY <2>4
<1>7. Joining(h, m, t, s)
  BY <1>6, Zenon DEF Joining
<1> HIDE DEF h
<1>8. QED BY <1>2, <1>7

JoinsTo(f, t, calls) ==
    /\ Joined(t, calls) = f[Len(calls)] /\ f[0] = t
    /\ \A i \in 1 .. Len(calls) : f[i] = Join(f[i - 1], calls[i])

LEMMA JoinedIs == ASSUME NEW t, NEW S, NEW calls \in Seq(S) PROVE \E f : JoinsTo(f, t, calls)
<1> DEFINE n == Len(calls)
           f == CHOOSE g : Joining(g, n, t, calls)
<1>1. n \in Nat
  OBVIOUS
<1>2. Joining(f, n, t, calls)
  <2> HIDE DEF n
  <2>1. QED BY <1>1, JoiningExists, Zenon
<1>3. Joined(t, calls) = f[n]
  BY Zenon DEF Joined, Joining
<1> HIDE DEF f, n
<1>4. \A i \in 0 .. n : f[i] = IF i = 0 THEN t ELSE Join(f[i - 1], calls[i])
  BY <1>2, Zenon DEF Joining
<1>5. f[0] = t
  <2>1. 0 \in 0 .. n
    BY <1>1
  <2>2. QED BY <1>4, <2>1, Zenon
<1>6. \A i \in 1 .. n : f[i] = Join(f[i - 1], calls[i])
  BY <1>1, <1>4
<1>7. JoinsTo(f, t, calls)
  BY <1>3, <1>5, <1>6, Zenon DEF n, JoinsTo
<1>8. QED BY <1>7

Progressing(f, n, a, s) == f = [i \in 0 .. n |-> IF i = 0 THEN a ELSE Eat(f[i - 1], s[i])]

LEMMA ProgressExists == ASSUME NEW a, NEW s, NEW n \in Nat
                   PROVE  \E f : Progressing(f, n, a, s)
<1> DEFINE Failing == {m \in Nat : ~ \E f : Progressing(f, m, a, s)}
<1>1. SUFFICES ASSUME Failing # {} PROVE FALSE
  OBVIOUS
<1>2. PICK m \in Failing : \A k \in Failing : m <= k
  <2> HIDE DEF Failing
  <2>1. Failing \in SUBSET Nat
    BY DEF Failing
  <2>2. QED BY <1>1, <2>1, Least
<1>3. m # 0
  <2>1. Progressing([i \in 0 .. 0 |-> a], 0, a, s)
    BY DEF Progressing
  <2>2. QED BY <1>2, <2>1
<1>4. m \in Nat /\ m - 1 \in Nat /\ m - 1 \notin Failing
  BY <1>2, <1>3
<1>5. PICK g : Progressing(g, m - 1, a, s)
  BY <1>4
<1> DEFINE h == [i \in 0 .. m |-> IF i < m THEN g[i] ELSE Eat(g[m - 1], s[m])]
<1>6. \A i \in 0 .. m : h[i] = IF i = 0 THEN a ELSE Eat(h[i - 1], s[i])
  <2>1. \A i \in 0 .. (m - 1) : g[i] = IF i = 0 THEN a ELSE Eat(g[i - 1], s[i])
    BY <1>5, Zenon DEF Progressing
  <2>2. \A i \in 0 .. (m - 1) : h[i] = g[i]
    BY <1>4
  <2>3. h[m] = Eat(g[m - 1], s[m])
    BY <1>4
  <2> HIDE DEF h
  <2>4. ASSUME NEW i \in 0 .. m
        PROVE  h[i] = IF i = 0 THEN a ELSE Eat(h[i - 1], s[i])
    <3>1. CASE i = m
      <4>1. m - 1 \in 0 .. (m - 1)
        BY <1>4
      <4>2. h[i - 1] = g[m - 1]
        BY <2>2, <3>1, <4>1
      <4>3. QED BY <1>3, <2>3, <3>1, <4>2
    <3>2. CASE i # m
      <4>1. i \in 0 .. (m - 1) /\ (i # 0 => i - 1 \in 0 .. (m - 1))
        BY <1>4, <3>2
      <4>2. QED BY <2>1, <2>2, <4>1
    <3>3. QED BY <3>1, <3>2
  <2>5. QED BY <2>4
<1>7. Progressing(h, m, a, s)
  BY <1>6, Zenon DEF Progressing
<1> HIDE DEF h
<1>8. QED BY <1>2, <1>7

LEMMA ProgressIs == ASSUME NEW a, NEW S, NEW data \in Seq(S)
                    PROVE  /\ Progress(a, data)[0] = a
                           /\ \A i \in 1 .. Len(data) :
                                  Progress(a, data)[i] = Eat(Progress(a, data)[i - 1], data[i])
<1> DEFINE n == Len(data)
           f == CHOOSE g : Progressing(g, n, a, data)
<1>1. n \in Nat
  OBVIOUS
<1>2. Progressing(f, n, a, data)
  <2> HIDE DEF n
  <2>1. QED BY <1>1, ProgressExists, Zenon
<1>3. Progress(a, data) = f
  BY Zenon DEF Progress, Progressing
<1> HIDE DEF f, n
<1>4. \A i \in 0 .. n : f[i] = IF i = 0 THEN a ELSE Eat(f[i - 1], data[i])
  BY <1>2, Zenon DEF Progressing
<1>5. f[0] = a
  <2>1. 0 \in 0 .. n
    BY <1>1
  <2>2. QED BY <1>4, <2>1, Zenon
<1>6. \A i \in 1 .. n : f[i] = Eat(f[i - 1], data[i])
  BY <1>1, <1>4
<1>7. QED BY <1>3, <1>5, <1>6, Zenon DEF n

LEMMA JoinedNothing == ASSUME NEW t PROVE Joined(t, << >>) = t
<1>1. << >> \in Seq({}) /\ Len(<< >>) = 0
  OBVIOUS
<1>2. PICK f : JoinsTo(f, t, << >>)
  BY <1>1, JoinedIs
<1>3. QED BY <1>1, <1>2 DEF JoinsTo

LEMMA JoinedAppend == ASSUME NEW t, NEW S, NEW calls \in Seq(S), NEW e \in S
                      PROVE  Joined(t, Append(calls, e)) = Join(Joined(t, calls), e)
<1> DEFINE n == Len(calls)
           longer == Append(calls, e)
<1>1. /\ n \in Nat /\ longer \in Seq(S) /\ Len(longer) = n + 1 /\ longer[n + 1] = e
      /\ \A i \in 1 .. n : longer[i] = calls[i]
  OBVIOUS
<1> HIDE DEF longer
<1>2. PICK f : JoinsTo(f, t, calls)
  BY JoinedIs
<1>3. PICK g : JoinsTo(g, t, longer)
  BY <1>1, JoinedIs
<1>4. /\ Joined(t, calls) = f[n] /\ f[0] = t
      /\ \A i \in 1 .. n : f[i] = Join(f[i - 1], calls[i])
  BY <1>2 DEF JoinsTo
<1>5. /\ Joined(t, longer) = g[n + 1] /\ g[0] = t
      /\ \A i \in 1 .. n + 1 : g[i] = Join(g[i - 1], longer[i])
  BY <1>1, <1>3 DEF JoinsTo
<1> HIDE DEF n
<1>6. f[n] = g[n]
  <2> DEFINE Failing == {i \in 0 .. n : f[i] # g[i]}
  <2>1. ASSUME Failing # {} PROVE FALSE
    <3>1. PICK i \in Failing : \A j \in Failing : i <= j
      <4>1. Failing \in SUBSET Nat
        BY <1>1
      <4> HIDE DEF Failing
      <4>2. QED BY <2>1, <4>1, Least
    <3>2. i \in 1 .. n /\ i - 1 \in 0 .. n /\ i \in 1 .. n + 1
      BY <1>1, <1>4, <1>5, <3>1
    <3>3. f[i - 1] = g[i - 1]
      BY <3>1, <3>2
    <3>4. QED BY <1>1, <1>4, <1>5, <3>1, <3>2, <3>3
  <2>2. n \in 0 .. n
    BY <1>1
  <2>3. QED BY <2>1, <2>2
<1>7. n + 1 \in 1 .. n + 1 /\ (n + 1) - 1 = n
  BY <1>1
<1>8. g[n + 1] = Join(g[n], e)
  BY <1>1, <1>5, <1>7
<1>9. QED BY <1>4, <1>5, <1>6, <1>8 DEF longer

LEMMA JoinedIn == ASSUME NEW S, NEW t \in Seq(Calls(S)), NEW calls \in Seq(Calls(S))
                  PROVE  Joined(t, calls) \in Seq(Calls(S))
<1> DEFINE n == Len(calls)
<1>1. n \in Nat /\ \A i \in 1 .. n : calls[i] \in Calls(S)
  OBVIOUS
<1>2. PICK f : JoinsTo(f, t, calls)
  BY JoinedIs
<1>3. /\ Joined(t, calls) = f[n] /\ f[0] = t
      /\ \A i \in 1 .. n : f[i] = Join(f[i - 1], calls[i])
  BY <1>2 DEF JoinsTo
<1> HIDE DEF n
<1> DEFINE Failing == {i \in 0 .. n : f[i] \notin Seq(Calls(S))}
<1>4. ASSUME Failing # {} PROVE FALSE
  <2>1. PICK i \in Failing : \A j \in Failing : i <= j
    <3>1. Failing \in SUBSET Nat
      BY <1>1
    <3> HIDE DEF Failing
    <3>2. QED BY <1>4, <3>1, Least
  <2>2. i \in 1 .. n /\ i - 1 \in 0 .. n
    BY <1>1, <1>3, <2>1
  <2>3. f[i - 1] \in Seq(Calls(S))
    BY <2>1, <2>2
  <2>4. f[i] \in Seq(Calls(S))
    BY ZenonT(30), <1>1, <1>3, <2>2, <2>3, JoinIs
  <2>5. QED BY <2>1, <2>4
<1>5. n \in 0 .. n
  BY <1>1
<1>6. QED BY <1>3, <1>4, <1>5

-----------------------------------------------------------------------------
(* What the pieces of the parser do to a run.                              *)

Keeps(a, b) ==
    /\ DOMAIN b = RunFields /\ DOMAIN b.p = ParserFields
    /\ b.mark = a.mark /\ b.text = a.text /\ b.calls = a.calls

LEMMA KeepsFull == ASSUME NEW S, NEW t, NEW a, NEW b, IsRun(S, a), Keeps(a, b)
                   PROVE  IsRun(S, b) /\ Full(t, b) = Full(t, a)
  BY DEF IsRun, Keeps, Full

LEMMA TextsAre == \A k \in Texts : k \in Kinds /\ k # "none"
  BY DEF Texts, Kinds

LEMMA EmitFull == ASSUME NEW S, NEW t \in Seq(Calls(S)), NEW a, IsRun(S, a), NEW k \in Texts,
                         a.mark \in {"none", k}
                  PROVE  /\ IsRun(S, Emit(a, k)) /\ Same(Emit(a, k), a) /\ Emit(a, k).mark = "none"
                         /\ Full(t, Emit(a, k)) = Full(t, a)
<1>1. CASE a.mark = k
  <2> DEFINE e == <<k, a.text>>
             b == [a EXCEPT !.calls = Append(@, e), !.mark = "none", !.text = << >>]
  <2>1. e \in Calls(S) /\ a.calls \in Seq(Calls(S))
    BY TextsAre DEF IsRun, Calls
  <2>2. Emit(a, k) = b
    BY <1>1 DEF Emit
  <2> HIDE DEF e
  <2>3. /\ DOMAIN b = RunFields /\ b.p = a.p /\ b.stop = a.stop /\ b.whole = a.whole
        /\ b.mark = "none" /\ b.text = << >> /\ b.calls = Append(a.calls, e)
    BY DEF IsRun, RunFields
  <2> HIDE DEF b
  <2>4. b.calls \in Seq(Calls(S)) /\ b.text \in Seq(S)
    BY <2>1, <2>3
  <2>5. Joined(t, b.calls) = Join(Joined(t, a.calls), e)
    BY <2>1, <2>3, JoinedAppend
  <2>6. Full(t, a) = Join(Joined(t, a.calls), e)
    BY <1>1, TextsAre DEF Full, e
  <2>7. QED BY <2>2, <2>3, <2>4, <2>5, <2>6 DEF IsRun, Same, Full
<1>2. CASE a.mark = "none"
  BY <1>2, TextsAre DEF Emit, Same
<1>3. QED BY <1>1, <1>2

LEMMA TakeFull == ASSUME NEW S, NEW t \in Seq(Calls(S)), NEW a, IsRun(S, a), NEW k \in Texts,
                         a.mark = k, NEW c \in S
                  PROVE  /\ IsRun(S, Take(a, c)) /\ Same(Take(a, c), a) /\ Take(a, c).mark = k
                         /\ Full(t, Take(a, c)) = Join(Full(t, a), <<k, <<c>>>>)
<1> DEFINE b == [a EXCEPT !.text = Append(@, c)]
<1>1. Take(a, c) = b
  BY DEF Take
<1>2. /\ DOMAIN b = RunFields /\ b.p = a.p /\ b.stop = a.stop /\ b.whole = a.whole
      /\ b.mark = k /\ b.calls = a.calls /\ b.text = Append(a.text, c)
  BY DEF IsRun, RunFields
<1>3. a.text \in Seq(S) /\ <<c>> \in Seq(S) /\ Append(a.text, c) = a.text \o <<c>>
  BY DEF IsRun
<1> HIDE DEF b
<1>4. Joined(t, a.calls) \in Seq(Calls(S)) /\ k \in Kinds
  BY JoinedIn, TextsAre DEF IsRun
<1>5. Join(Join(Joined(t, a.calls), <<k, a.text>>), <<k, <<c>>>>)
        = Join(Joined(t, a.calls), <<k, Append(a.text, c)>>)
  <2> DEFINE e == <<k, a.text>>
             f == <<k, <<c>>>>
  <2>1. e \in Calls(S) /\ f \in Calls(S) /\ e[1] = k /\ f[1] = k /\ e[2] = a.text /\ f[2] = <<c>>
    BY <1>3, <1>4 DEF Calls
  <2> HIDE DEF e, f
  <2> DEFINE v == Joined(t, a.calls)
  <2>2. v \in Seq(Calls(S)) /\ e[1] \in Texts /\ f[1] = e[1]
    BY <1>4, <2>1
  <2> HIDE DEF v
  <2>3. Join(Join(v, e), f) = Join(v, <<e[1], Both(e[2], f[2])>>)
    BY <2>1, <2>2, JoinJoin
  <2>4. <<e[1], Both(e[2], f[2])>> = <<k, Append(a.text, c)>>
    BY <1>3, <2>1 DEF Both
  <2>5. QED BY <2>3, <2>4 DEF e, f, v
<1>6. Append(a.text, c) \in Seq(S)
  BY <1>3
<1>7. QED BY <1>1, <1>2, <1>5, <1>6, TextsAre DEF Full, IsRun, Same

LEMMA MarkFull == ASSUME NEW S, NEW t \in Seq(Calls(S)), NEW a, IsRun(S, a), NEW k \in Texts,
                         a.mark \in {"none", k}, NEW c \in S
                  PROVE  /\ IsRun(S, Mark(a, k, c)) /\ Same(Mark(a, k, c), a)
                         /\ Mark(a, k, c).mark = k
                         /\ Full(t, Mark(a, k, c)) = Join(Full(t, a), <<k, <<c>>>>)
<1>1. CASE a.mark = k
  BY <1>1, TakeFull DEF Mark
<1>2. CASE a.mark = "none"
  <2> DEFINE b == [a EXCEPT !.mark = k, !.text = <<c>>]
  <2>1. Mark(a, k, c) = b
    BY <1>2, TextsAre DEF Mark
  <2>2. /\ DOMAIN b = RunFields /\ b.p = a.p /\ b.stop = a.stop /\ b.whole = a.whole
        /\ b.mark = k /\ b.calls = a.calls /\ b.text = <<c>>
    BY DEF IsRun, RunFields
  <2>3. <<c>> \in Seq(S)
    OBVIOUS
  <2> HIDE DEF b
  <2>4. QED BY <1>2, <2>1, <2>2, <2>3, TextsAre DEF Full, IsRun, Same
<1>3. QED BY <1>1, <1>2

Bare(k) == <<k, << >>>>

LEMMA NotifyFull == ASSUME NEW S, NEW t, NEW a, IsRun(S, a), a.mark = "none", NEW k \in Kinds
                    PROVE  /\ IsRun(S, Notify(a, k)) /\ Same(Notify(a, k), a)
                           /\ Notify(a, k).mark = "none"
                           /\ Full(t, Notify(a, k)) = Join(Full(t, a), Bare(k))
<1> DEFINE e == <<k, << >>>>
           b == [a EXCEPT !.calls = Append(@, e)]
<1>1. Notify(a, k) = b
  BY DEF Notify
<1>2. e \in Calls(S) /\ a.calls \in Seq(Calls(S))
  <2>1. << >> \in Seq(S)
    OBVIOUS
  <2>2. QED BY <2>1 DEF IsRun, Calls
<1> HIDE DEF e
<1>3. /\ DOMAIN b = RunFields /\ b.p = a.p /\ b.stop = a.stop /\ b.whole = a.whole
      /\ b.mark = "none" /\ b.text = a.text /\ b.calls = Append(a.calls, e)
  BY DEF IsRun, RunFields
<1> HIDE DEF b
<1>4. Joined(t, b.calls) = Join(Joined(t, a.calls), e) /\ b.calls \in Seq(Calls(S))
  BY <1>2, <1>3, JoinedAppend
<1>5. QED BY <1>1, <1>3, <1>4 DEF IsRun, Same, Full, e, Bare

-----------------------------------------------------------------------------
(* The same, of two runs at once.                                          *)

LEMMA Wider == ASSUME NEW S, NEW K, NEW L, K \subseteq L, NEW t, NEW u, NEW a, NEW b,
                      Together(S, K, t, a, u, b)
               PROVE  Together(S, L, t, a, u, b)
  BY DEF Together

LEMMA KeepsTogether == ASSUME NEW S, NEW K, NEW t, NEW u, NEW a, NEW b, NEW d, NEW e,
                              Together(S, K, t, a, u, b), Keeps(a, d), Keeps(b, e),
                              Same(d, e), Going(d)
                       PROVE  Together(S, K, t, d, u, e)
<1>1. IsRun(S, d) /\ IsRun(S, e) /\ Full(t, d) = Full(u, e)
  BY KeepsFull DEF Together
<1>2. d.mark \in K /\ e.mark \in K /\ d.mark \in {"none", e.mark}
  BY DEF Together, Keeps
<1>3. QED BY <1>1, <1>2 DEF Together

LEMMA GotoTogether == ASSUME NEW S, NEW K, NEW t, NEW u, NEW a, NEW b,
                             Together(S, K, t, a, u, b), NEW s
                      PROVE  /\ Together(S, K, t, Goto(a, s), u, Goto(b, s))
                             /\ Goto(a, s).p.state = s
<1> DEFINE d == [a EXCEPT !.p.state = s]
           e == [b EXCEPT !.p.state = s]
<1>1. Goto(a, s) = d /\ Goto(b, s) = e
  BY DEF Goto
<1>2. /\ Keeps(a, d) /\ Keeps(b, e) /\ Same(d, e) /\ Going(d) /\ d.p.state = s
  BY DEF Together, IsRun, RunFields, ParserFields, Keeps, Same, Going
<1> HIDE DEF d, e
<1>3. QED BY <1>1, <1>2, KeepsTogether

LEMMA EmitTogether == ASSUME NEW S, NEW t, NEW u, NEW a, NEW b, NEW k \in Texts,
                             Together(S, {"none", k}, t, a, u, b)
                      PROVE  /\ Together(S, {"none"}, t, Emit(a, k), u, Emit(b, k))
                             /\ Emit(a, k).p = a.p
<1>1. /\ IsRun(S, a) /\ IsRun(S, b) /\ t \in Seq(Calls(S)) /\ u \in Seq(Calls(S))
      /\ a.mark \in {"none", k} /\ b.mark \in {"none", k}
  BY DEF Together
<1>2. /\ IsRun(S, Emit(a, k)) /\ Same(Emit(a, k), a) /\ Emit(a, k).mark = "none"
      /\ Full(t, Emit(a, k)) = Full(t, a)
  BY <1>1, EmitFull
<1>3. /\ IsRun(S, Emit(b, k)) /\ Same(Emit(b, k), b) /\ Emit(b, k).mark = "none"
      /\ Full(u, Emit(b, k)) = Full(u, b)
  BY <1>1, EmitFull
<1>4. QED BY <1>2, <1>3 DEF Together, Same, Going

LEMMA TakeTogether == ASSUME NEW S, NEW t, NEW u, NEW a, NEW b, NEW k \in Texts, NEW c \in S,
                             Together(S, {k}, t, a, u, b)
                      PROVE  /\ Together(S, {k}, t, Take(a, c), u, Take(b, c))
                             /\ Take(a, c).p = a.p
<1>1. /\ IsRun(S, a) /\ IsRun(S, b) /\ t \in Seq(Calls(S)) /\ u \in Seq(Calls(S))
      /\ a.mark = k /\ b.mark = k
  BY DEF Together
<1>2. /\ IsRun(S, Take(a, c)) /\ Same(Take(a, c), a) /\ Take(a, c).mark = k
      /\ Full(t, Take(a, c)) = Join(Full(t, a), <<k, <<c>>>>)
  BY <1>1, TakeFull
<1>3. /\ IsRun(S, Take(b, c)) /\ Same(Take(b, c), b) /\ Take(b, c).mark = k
      /\ Full(u, Take(b, c)) = Join(Full(u, b), <<k, <<c>>>>)
  BY <1>1, TakeFull
<1>4. QED BY <1>2, <1>3 DEF Together, Same, Going

LEMMA MarkTogether == ASSUME NEW S, NEW t, NEW u, NEW a, NEW b, NEW k \in Texts, NEW c \in S,
                             Together(S, {"none", k}, t, a, u, b)
                      PROVE  /\ Together(S, {k}, t, Mark(a, k, c), u, Mark(b, k, c))
                             /\ Mark(a, k, c).p = a.p
<1>1. /\ IsRun(S, a) /\ IsRun(S, b) /\ t \in Seq(Calls(S)) /\ u \in Seq(Calls(S))
      /\ a.mark \in {"none", k} /\ b.mark \in {"none", k}
  BY DEF Together
<1>2. /\ IsRun(S, Mark(a, k, c)) /\ Same(Mark(a, k, c), a) /\ Mark(a, k, c).mark = k
      /\ Full(t, Mark(a, k, c)) = Join(Full(t, a), <<k, <<c>>>>)
  BY <1>1, MarkFull
<1>3. /\ IsRun(S, Mark(b, k, c)) /\ Same(Mark(b, k, c), b) /\ Mark(b, k, c).mark = k
      /\ Full(u, Mark(b, k, c)) = Join(Full(u, b), <<k, <<c>>>>)
  BY <1>1, MarkFull
<1>4. QED BY <1>2, <1>3 DEF Together, Same, Going

LEMMA NotifyTogether == ASSUME NEW S, NEW t, NEW u, NEW a, NEW b, NEW k \in Kinds,
                               Together(S, {"none"}, t, a, u, b)
                        PROVE  /\ Together(S, {"none"}, t, Notify(a, k), u, Notify(b, k))
                               /\ Notify(a, k).p = a.p
<1>1. IsRun(S, a) /\ IsRun(S, b) /\ a.mark = "none" /\ b.mark = "none"
  BY DEF Together
<1>2. /\ IsRun(S, Notify(a, k)) /\ Same(Notify(a, k), a) /\ Notify(a, k).mark = "none"
      /\ Full(t, Notify(a, k)) = Join(Full(t, a), Bare(k))
  BY <1>1, NotifyFull
<1>3. /\ IsRun(S, Notify(b, k)) /\ Same(Notify(b, k), b) /\ Notify(b, k).mark = "none"
      /\ Full(u, Notify(b, k)) = Join(Full(u, b), Bare(k))
  BY <1>1, NotifyFull
<1>4. QED BY <1>2, <1>3 DEF Together, Same, Going

\* How a character ends: in a state, with the marks that fit it, or in an error.
LEMMA Settles == ASSUME NEW S, NEW K, NEW t, NEW u, NEW a, NEW b,
                        Together(S, K, t, a, u, b), K \subseteq MarksOf(a.p.state)
                 PROVE  Alike(S, t, a, u, b)
  BY DEF Together, Alike, Going, Settled

LEMMA FailAlike == ASSUME NEW S, NEW K, NEW t, NEW u, NEW a, NEW b, Together(S, K, t, a, u, b)
                   PROVE  Alike(S, t, Fail(a), u, Fail(b))
<1> DEFINE d == [a EXCEPT !.p.error = TRUE, !.stop = TRUE, !.whole = FALSE]
           e == [b EXCEPT !.p.error = TRUE, !.stop = TRUE, !.whole = FALSE]
<1>1. Fail(a) = d /\ Fail(b) = e
  BY DEF Fail
<1>2. Keeps(a, d) /\ Keeps(b, e) /\ Same(d, e) /\ d.p.error /\ d.stop /\ ~d.whole
  BY DEF Together, IsRun, RunFields, ParserFields, Keeps, Same
<1> HIDE DEF d, e
<1>3. IsRun(S, d) /\ IsRun(S, e) /\ Full(t, d) = Full(u, e)
  BY <1>2, KeepsFull DEF Together
<1>4. d.mark \in {"none", e.mark}
  BY <1>2 DEF Together, Keeps
<1>5. QED BY <1>1, <1>2, <1>3, <1>4 DEF Alike, Settled, Together

LEMMA UrlStatesAre ==
    UrlStates \subseteq {"path", "schema", "schema_slash", "schema_slash_slash", "server_start",
                         "server", "server_with_at", "query", "fragment"}
  BY DEF UrlStates, UrlMoves

LEMMA MoveUrl == ASSUME NEW s, NEW c
                 PROVE  Move(UrlMoves, s, c, "dead") \in UrlStates \cup {"dead"}
  BY DEF Move, UrlStates

\* The marks of the states.
LEMMA MarksAre ==
    /\ \A s \in {"start_req", "dead", "req_method", "spaces_before_url", "http_start",
                 "first_http_major", "http_major", "first_http_minor", "http_minor",
                 "line_almost_done", "header_field_start", "header_value_discard_ws",
                 "header_value_discard_ws_almost_done", "header_value_discard_lws",
                 "header_almost_done", "header_value_lws", "headers_almost_done", "headers_done",
                 "chunk_size_start", "chunk_size", "chunk_parameters", "chunk_size_almost_done",
                 "chunk_data_done"} : MarksOf(s) = {"none"}
    /\ \A s \in {"header_field", "header_value"} : MarksOf(s) = {s}
    /\ \A s \in UrlStates : MarksOf(s) = {"url"}
    /\ \A s \in {"body_identity", "chunk_data", "chunk_data_almost_done"} :
           MarksOf(s) = {"none", "body"}
  BY UrlStatesAre DEF MarksOf

-----------------------------------------------------------------------------
(* The states, each with every character.                                  *)

LEMMA GotoAlike == ASSUME NEW S, NEW K, NEW t, NEW u, NEW a, NEW b, Together(S, K, t, a, u, b),
                          NEW s, K \subseteq MarksOf(s)
                   PROVE  Alike(S, t, Goto(a, s), u, Goto(b, s))
<1>1. Together(S, K, t, Goto(a, s), u, Goto(b, s)) /\ Goto(a, s).p.state = s
  BY GotoTogether
<1>2. QED BY <1>1, Settles

LEMMA ExpectAlike == ASSUME NEW S, NEW K, NEW t, NEW u, NEW a, NEW b, Together(S, K, t, a, u, b),
                            NEW c, NEW wanted, NEW s, K \subseteq MarksOf(s)
                     PROVE  Alike(S, t, Expect(a, c, wanted, s), u, Expect(b, c, wanted, s))
  BY GotoAlike, FailAlike DEF Expect

LEMMA StartReqAlike == ASSUME NEW S, NEW t, NEW u, NEW a, NEW b, NEW c,
                              Together(S, {"none"}, t, a, u, b), a.p.state = "start_req"
                       PROVE  Alike(S, t, StartReq(a, c), u, StartReq(b, c))
<1> DEFINE fresh(x) == [x EXCEPT !.p.flags = {}, !.p.length = None]
           begun(x) == [fresh(x) EXCEPT !.p.state = "req_method", !.p.index = 1]
<1>1. /\ Keeps(a, fresh(a)) /\ Keeps(b, fresh(b)) /\ Same(fresh(a), fresh(b)) /\ Going(fresh(a))
      /\ Keeps(a, begun(a)) /\ Keeps(b, begun(b)) /\ Same(begun(a), begun(b)) /\ Going(begun(a))
      /\ begun(a).p.state = "req_method"
  BY DEF Together, IsRun, RunFields, ParserFields, Keeps, Same, Going
<1>2. /\ StartReq(a, c) = IF c \in {"\r", "\n"} THEN a
                          ELSE IF c # "G" THEN Fail(fresh(a)) ELSE Notify(begun(a), "message_begin")
      /\ StartReq(b, c) = IF c \in {"\r", "\n"} THEN b
                          ELSE IF c # "G" THEN Fail(fresh(b)) ELSE Notify(begun(b), "message_begin")
  BY DEF StartReq
<1> HIDE DEF fresh, begun
<1>3. CASE c \in {"\r", "\n"}
  BY <1>2, <1>3, Settles, MarksAre
<1>4. CASE c \notin {"\r", "\n"} /\ c # "G"
  <2>1. Together(S, {"none"}, t, fresh(a), u, fresh(b))
    BY <1>1, KeepsTogether
  <2>2. QED BY <1>2, <1>4, <2>1, FailAlike
<1>5. CASE c = "G"
  <2>1. Together(S, {"none"}, t, begun(a), u, begun(b))
    BY <1>1, KeepsTogether
  <2>2. /\ Together(S, {"none"}, t, Notify(begun(a), "message_begin"),
                                  u, Notify(begun(b), "message_begin"))
        /\ Notify(begun(a), "message_begin").p = begun(a).p
    BY <2>1, NotifyTogether DEF Kinds
  <2>3. MarksOf("req_method") = {"none"}
    BY MarksAre
  <2>4. QED BY <1>1, <1>2, <1>5, <2>2, <2>3, Settles
<1>6. QED BY <1>3, <1>4, <1>5

LEMMA ReqMethodAlike == ASSUME NEW S, NEW t, NEW u, NEW a, NEW b, NEW c,
                               Together(S, {"none"}, t, a, u, b), a.p.state = "req_method"
                        PROVE  Alike(S, t, ReqMethod(a, c), u, ReqMethod(b, c))
<1> DEFINE more(x) == [x EXCEPT !.p.index = 3]
<1>1. /\ Keeps(a, more(a)) /\ Keeps(b, more(b)) /\ Same(more(a), more(b)) /\ Going(more(a))
      /\ more(a).p.state = "req_method" /\ a.p.index = b.p.index
  BY DEF Together, IsRun, RunFields, ParserFields, Keeps, Same, Going
<1>2. /\ ReqMethod(a, c) = IF c = " " /\ a.p.index = 3 THEN Goto(a, "spaces_before_url")
                           ELSE IF c = "ET" /\ a.p.index = 1 THEN more(a) ELSE Fail(a)
      /\ ReqMethod(b, c) = IF c = " " /\ a.p.index = 3 THEN Goto(b, "spaces_before_url")
                           ELSE IF c = "ET" /\ a.p.index = 1 THEN more(b) ELSE Fail(b)
  BY <1>1 DEF ReqMethod
<1> HIDE DEF more
<1>3. Together(S, {"none"}, t, more(a), u, more(b))
  BY <1>1, KeepsTogether
<1>4. MarksOf("req_method") = {"none"} /\ MarksOf("spaces_before_url") = {"none"}
  BY MarksAre
<1>5. Alike(S, t, more(a), u, more(b))
  BY <1>1, <1>3, <1>4, Settles
<1>6. Alike(S, t, Goto(a, "spaces_before_url"), u, Goto(b, "spaces_before_url"))
  BY <1>4, GotoAlike
<1>7. Alike(S, t, Fail(a), u, Fail(b))
  BY FailAlike
<1>8. QED BY <1>2, <1>5, <1>6, <1>7

LEMMA UrlAlike == ASSUME NEW S, NEW t, NEW u, NEW a, NEW b, NEW c \in S,
                         \/ Together(S, {"url"}, t, a, u, b) /\ a.p.state \in UrlStates
                         \/ Together(S, {"none"}, t, a, u, b) /\ a.p.state = "spaces_before_url"
                  PROVE  Alike(S, t, Url(a, c), u, Url(b, c))
<1> DEFINE s == a.p.state
           next == Move(UrlMoves, s, c, "dead")
           strict == s \notin {"path", "query", "fragment", "server", "server_with_at"}
           old(x) == [x EXCEPT !.p.major = 0, !.p.minor = 9,
                               !.p.state = IF c = "\r" THEN "line_almost_done"
                                           ELSE "header_field_start"]
<1>1. PICK K \in {{"url"}, {"none"}} : Together(S, K, t, a, u, b)
  BY Zenon
<1>2. /\ Keeps(a, old(a)) /\ Keeps(b, old(b)) /\ Same(old(a), old(b)) /\ Going(old(a))
      /\ old(a).p.state \in {"line_almost_done", "header_field_start"} /\ b.p.state = s
  BY <1>1 DEF Together, IsRun, RunFields, ParserFields, Keeps, Same, Going
<1>3. /\ Url(a, c) = IF s = "spaces_before_url" /\ c = " " THEN a
                     ELSE IF c = " " /\ ~strict THEN Emit(Goto(a, "http_start"), "url")
                     ELSE IF c \in {"\r", "\n"} /\ ~strict THEN Emit(old(a), "url")
                     ELSE IF next = "dead" THEN Fail(Goto(a, next))
                     ELSE IF s = "spaces_before_url" THEN Mark(Goto(a, next), "url", c)
                     ELSE Take(Goto(a, next), c)
      /\ Url(b, c) = IF s = "spaces_before_url" /\ c = " " THEN b
                     ELSE IF c = " " /\ ~strict THEN Emit(Goto(b, "http_start"), "url")
                     ELSE IF c \in {"\r", "\n"} /\ ~strict THEN Emit(old(b), "url")
                     ELSE IF next = "dead" THEN Fail(Goto(b, next))
                     ELSE IF s = "spaces_before_url" THEN Mark(Goto(b, next), "url", c)
                     ELSE Take(Goto(b, next), c)
  BY <1>2 DEF Url
<1>4. next \in UrlStates \cup {"dead"}
  BY MoveUrl
<1>5. "url" \in Texts /\ "spaces_before_url" \notin UrlStates
  BY UrlStatesAre DEF Texts
<1> HIDE DEF old, next, strict
<1>6. Together(S, {"none", "url"}, t, a, u, b)
  BY <1>1, Wider
<1>7. CASE s = "spaces_before_url" /\ c = " "
  <2>1. Together(S, {"none"}, t, a, u, b)
    BY <1>5, <1>7
  <2>2. MarksOf("spaces_before_url") = {"none"}
    BY MarksAre
  <2>3. Alike(S, t, a, u, b)
    BY <1>7, <2>1, <2>2, Settles
  <2>4. QED BY <1>3, <1>7, <2>3
<1>8. CASE c = " " /\ ~strict /\ s # "spaces_before_url"
  <2> DEFINE d == Goto(a, "http_start")
             e == Goto(b, "http_start")
  <2>1. Together(S, {"none", "url"}, t, d, u, e) /\ d.p.state = "http_start"
    BY <1>6, GotoTogether
  <2> HIDE DEF d, e
  <2>2. Together(S, {"none"}, t, Emit(d, "url"), u, Emit(e, "url")) /\ Emit(d, "url").p = d.p
    BY <1>5, <2>1, EmitTogether
  <2>3. Alike(S, t, Emit(d, "url"), u, Emit(e, "url"))
    BY <2>1, <2>2, Settles, MarksAre
  <2>4. QED BY <1>3, <1>8, <2>3 DEF d, e
<1>9. CASE c \in {"\r", "\n"} /\ ~strict
  <2>1. Together(S, {"none", "url"}, t, old(a), u, old(b))
    BY <1>2, <1>6, KeepsTogether
  <2>2. /\ Together(S, {"none"}, t, Emit(old(a), "url"), u, Emit(old(b), "url"))
        /\ Emit(old(a), "url").p = old(a).p
    BY <1>5, <2>1, EmitTogether
  <2>3. Alike(S, t, Emit(old(a), "url"), u, Emit(old(b), "url"))
    BY <1>2, <2>2, Settles, MarksAre
  <2>4. QED BY <1>3, <1>9, <2>3
<1>10. CASE /\ ~(s = "spaces_before_url" /\ c = " ") /\ ~(c = " " /\ ~strict)
            /\ ~(c \in {"\r", "\n"} /\ ~strict)
  <2> DEFINE d == Goto(a, next)
             e == Goto(b, next)
  <2>1. Together(S, K, t, d, u, e) /\ d.p.state = next
    BY <1>1, GotoTogether
  <2>2. s = "spaces_before_url" => Together(S, {"none", "url"}, t, d, u, e)
    BY <2>1, Wider, <1>1
  <2>3. s # "spaces_before_url" => Together(S, {"url"}, t, d, u, e)
    BY GotoTogether
  <2> HIDE DEF d, e
  <2>4. CASE next = "dead"
    <3>1. Alike(S, t, Fail(d), u, Fail(e))
      BY <2>1, FailAlike
    <3>2. QED BY <1>3, <1>10, <2>4, <3>1 DEF d, e
  <2>5. CASE next # "dead" /\ s = "spaces_before_url"
    <3>1. /\ Together(S, {"url"}, t, Mark(d, "url", c), u, Mark(e, "url", c))
          /\ Mark(d, "url", c).p = d.p
      BY <1>5, <2>2, <2>5, MarkTogether
    <3>2. MarksOf(next) = {"url"}
      BY <1>4, <2>5, MarksAre
    <3>3. Alike(S, t, Mark(d, "url", c), u, Mark(e, "url", c))
      BY <2>1, <3>1, <3>2, Settles
    <3>4. QED BY <1>3, <1>10, <2>5, <3>3 DEF d, e
  <2>6. CASE next # "dead" /\ s # "spaces_before_url"
    <3>1. Together(S, {"url"}, t, Take(d, c), u, Take(e, c)) /\ Take(d, c).p = d.p
      BY <1>5, <2>3, <2>6, TakeTogether
    <3>2. MarksOf(next) = {"url"}
      BY <1>4, <2>6, MarksAre
    <3>3. Alike(S, t, Take(d, c), u, Take(e, c))
      BY <2>1, <3>1, <3>2, Settles
    <3>4. QED BY <1>3, <1>10, <2>6, <3>3 DEF d, e
  <2>7. QED BY <2>4, <2>5, <2>6
<1>11. QED BY <1>7, <1>8, <1>9, <1>10

\* Most characters only change the parser.
With(a, q) == [a EXCEPT !.p = q]

LEMMA WithTogether == ASSUME NEW S, NEW K, NEW t, NEW u, NEW a, NEW b, Together(S, K, t, a, u, b),
                             NEW q, DOMAIN q = ParserFields, ~q.error
                      PROVE  Together(S, K, t, With(a, q), u, With(b, q)) /\ With(a, q).p = q
<1> DEFINE d == [a EXCEPT !.p = q]
           e == [b EXCEPT !.p = q]
<1>1. With(a, q) = d /\ With(b, q) = e
  BY DEF With
<1>2. /\ Keeps(a, d) /\ Keeps(b, e) /\ Same(d, e) /\ Going(d) /\ d.p = q
  BY DEF Together, IsRun, RunFields, Keeps, Same, Going
<1> HIDE DEF d, e
<1>3. QED BY <1>1, <1>2, KeepsTogether

LEMMA WithAlike == ASSUME NEW S, NEW K, NEW t, NEW u, NEW a, NEW b, Together(S, K, t, a, u, b),
                          NEW q, DOMAIN q = ParserFields, ~q.error, K \subseteq MarksOf(q.state)
                   PROVE  Alike(S, t, With(a, q), u, With(b, q))
  BY WithTogether, Settles

VersionStates == {"http_start", "first_http_major", "http_major", "first_http_minor", "http_minor"}

LEMMA VersionAlike == ASSUME NEW S, NEW t, NEW u, NEW a, NEW b, NEW c,
                             Together(S, {"none"}, t, a, u, b), a.p.state \in VersionStates
                      PROVE  Alike(S, t, Version(a, c), u, Version(b, c))
<1> DEFINE p == a.p
           first == [p EXCEPT !.state = "http_major", !.major = Digits[c]]
           major == [p EXCEPT !.major = 10 * @ + Digits[c]]
           second == [p EXCEPT !.state = "http_minor", !.minor = Digits[c]]
           minor == [p EXCEPT !.minor = 10 * @ + Digits[c]]
           States == VersionStates \cup {"line_almost_done", "header_field_start"}
<1>1. b.p = p /\ DOMAIN p = ParserFields /\ ~p.error /\ "http_start" \in States
      /\ p.state \in States
  BY DEF Together, IsRun, Same, Going, VersionStates
<1>2. \A s \in States : MarksOf(s) = {"none"}
  BY MarksAre DEF VersionStates
<1>3. \A q \in {first, major, second, minor} :
          DOMAIN q = ParserFields /\ ~q.error /\ q.state \in States
  BY <1>1 DEF ParserFields, VersionStates
<1>4. \A q \in {first, major, second, minor} : Alike(S, t, With(a, q), u, With(b, q))
  <2> HIDE DEF first, major, second, minor, States
  <2>1. QED BY <1>2, <1>3, WithAlike
<1>5. \A s \in States : Alike(S, t, Goto(a, s), u, Goto(b, s))
  BY <1>2, GotoAlike
<1>6. Alike(S, t, Fail(a), u, Fail(b)) /\ Alike(S, t, a, u, b)
  BY <1>1, <1>2, FailAlike, Settles
<1> DEFINE Is(v, w) == v = Version(a, c) /\ w = Version(b, c)
<1>7. \/ Is(a, b) \/ Is(Fail(a), Fail(b))
      \/ \E s \in States : Is(Goto(a, s), Goto(b, s))
      \/ \E q \in {first, major, second, minor} : Is(With(a, q), With(b, q))
  <2>1. p.state = "http_start" =>
          \/ Is(a, b) \/ Is(Fail(a), Fail(b))
          \/ Is(Goto(a, "first_http_major"), Goto(b, "first_http_major"))
    BY <1>1 DEF Version
  <2>2. p.state = "first_http_major" => Is(With(a, first), With(b, first)) \/ Is(Fail(a), Fail(b))
    BY <1>1 DEF Version, With
  <2>3. p.state = "http_major" =>
          \/ Is(With(a, major), With(b, major)) \/ Is(Fail(a), Fail(b))
          \/ Is(Goto(a, "first_http_minor"), Goto(b, "first_http_minor"))
    BY <1>1 DEF Version, With
  <2>4. p.state = "first_http_minor" => Is(With(a, second), With(b, second)) \/ Is(Fail(a), Fail(b))
    BY <1>1 DEF Version, With
  <2>5. p.state = "http_minor" =>
          \/ Is(With(a, minor), With(b, minor)) \/ Is(Fail(a), Fail(b))
          \/ Is(Goto(a, "line_almost_done"), Goto(b, "line_almost_done"))
          \/ Is(Goto(a, "header_field_start"), Goto(b, "header_field_start"))
    BY <1>1 DEF Version, With, Digits
  <2> HIDE DEF Is, first, major, second, minor
  <2>6. {"first_http_major", "first_http_minor", "line_almost_done",
         "header_field_start"} \subseteq States
    BY DEF VersionStates
  <2> HIDE DEF States
  <2>7. QED BY <2>1, <2>2, <2>3, <2>4, <2>5, <2>6 DEF VersionStates
<1> HIDE DEF first, major, second, minor, States
<1>8. QED BY <1>4, <1>5, <1>6, <1>7

LEMMA ChunkSizeAlike == ASSUME NEW S, NEW t, NEW u, NEW a, NEW b, NEW c,
                               Together(S, {"none"}, t, a, u, b)
                        PROVE  /\ Alike(S, t, ChunkSizeStart(a, c), u, ChunkSizeStart(b, c))
                               /\ a.p.state = "chunk_size" =>
                                      Alike(S, t, ChunkSize(a, c), u, ChunkSize(b, c))
                               /\ Alike(S, t, ChunkSizeAlmostDone(a, c), u, ChunkSizeAlmostDone(b, c))
<1> DEFINE p == a.p
           first == [p EXCEPT !.length = Digits[c], !.state = "chunk_size"]
           next == [p EXCEPT !.length = 16 * @ + Digits[c]]
           final == [p EXCEPT !.flags = @ \cup {"trailing"}, !.state = "header_field_start"]
<1>1. b.p = p /\ DOMAIN p = ParserFields /\ ~p.error
  BY DEF Together, IsRun, Same, Going
<1>2. /\ \A s \in {"chunk_size", "header_field_start", "chunk_size_almost_done", "chunk_parameters"} :
             MarksOf(s) = {"none"}
      /\ MarksOf("chunk_data") = {"none", "body"}
  BY MarksAre
<1>3. /\ DOMAIN first = ParserFields /\ ~first.error /\ first.state = "chunk_size"
      /\ DOMAIN next = ParserFields /\ ~next.error /\ next.state = p.state
      /\ DOMAIN final = ParserFields /\ ~final.error /\ final.state = "header_field_start"
  BY <1>1 DEF ParserFields
<1>4. /\ ChunkSizeStart(a, c) = IF c \in DOMAIN Digits THEN With(a, first) ELSE Fail(a)
      /\ ChunkSizeStart(b, c) = IF c \in DOMAIN Digits THEN With(b, first) ELSE Fail(b)
  BY <1>1 DEF ChunkSizeStart, With
<1>5. /\ ChunkSize(a, c) = IF c = "\r" THEN Goto(a, "chunk_size_almost_done")
                           ELSE IF c \in DOMAIN Digits THEN With(a, next)
                           ELSE IF c = " " THEN Goto(a, "chunk_parameters") ELSE Fail(a)
      /\ ChunkSize(b, c) = IF c = "\r" THEN Goto(b, "chunk_size_almost_done")
                           ELSE IF c \in DOMAIN Digits THEN With(b, next)
                           ELSE IF c = " " THEN Goto(b, "chunk_parameters") ELSE Fail(b)
  BY <1>1 DEF ChunkSize, With, Digits
<1>6. /\ ChunkSizeAlmostDone(a, c) = IF c # "\n" THEN Fail(a)
                                     ELSE IF p.length = 0 THEN With(a, final) ELSE Goto(a, "chunk_data")
      /\ ChunkSizeAlmostDone(b, c) = IF c # "\n" THEN Fail(b)
                                     ELSE IF p.length = 0 THEN With(b, final) ELSE Goto(b, "chunk_data")
  BY <1>1 DEF ChunkSizeAlmostDone, With
<1> HIDE DEF first, next, final
<1>7. /\ Alike(S, t, With(a, first), u, With(b, first))
      /\ p.state = "chunk_size" => Alike(S, t, With(a, next), u, With(b, next))
      /\ Alike(S, t, With(a, final), u, With(b, final))
  BY <1>2, <1>3, WithAlike
<1>8. /\ \A s \in {"chunk_size_almost_done", "chunk_parameters", "chunk_data"} :
             Alike(S, t, Goto(a, s), u, Goto(b, s))
      /\ Alike(S, t, Fail(a), u, Fail(b))
  BY <1>2, GotoAlike, FailAlike
<1>9. QED BY <1>4, <1>5, <1>6, <1>7, <1>8

LEMMA MessageDoneAlike == ASSUME NEW S, NEW t, NEW u, NEW a, NEW b, Together(S, {"none"}, t, a, u, b)
                          PROVE  Alike(S, t, MessageDone(a), u, MessageDone(b))
<1> DEFINE next == NewMessage(a.p)
           d == Notify(Goto(a, next), "message_complete")
           e == Notify(Goto(b, next), "message_complete")
<1>1. a.p = b.p
  BY DEF Together, Same
<1>2. Together(S, {"none"}, t, Goto(a, next), u, Goto(b, next)) /\ Goto(a, next).p.state = next
  BY GotoTogether
<1>3. Together(S, {"none"}, t, d, u, e) /\ d.p = Goto(a, next).p
  <2> HIDE DEF next
  <2>1. QED BY <1>2, NotifyTogether DEF Kinds
<1>4. MarksOf(next) = {"none"}
  BY MarksAre DEF NewMessage
<1>5. Goto(a, next).p.upgrade = a.p.upgrade
  BY DEF Goto, Together, IsRun, RunFields, ParserFields
<1>6. /\ MessageDone(a) = IF a.p.upgrade THEN [d EXCEPT !.stop = TRUE] ELSE d
      /\ MessageDone(b) = IF a.p.upgrade THEN [e EXCEPT !.stop = TRUE] ELSE e
  BY <1>1 DEF MessageDone
<1> HIDE DEF next, d, e
<1>7. Alike(S, t, d, u, e)
  BY <1>2, <1>3, <1>4, Settles
<1>8. CASE a.p.upgrade
  <2> DEFINE f == [d EXCEPT !.stop = TRUE]
             g == [e EXCEPT !.stop = TRUE]
  <2>1. /\ Keeps(d, f) /\ Keeps(e, g) /\ Same(f, g) /\ f.p = d.p /\ f.stop
    BY <1>3 DEF Together, IsRun, RunFields, Keeps, Same
  <2> HIDE DEF f, g
  <2>2. IsRun(S, f) /\ IsRun(S, g) /\ Full(t, f) = Full(u, g)
    BY <1>3, <2>1, KeepsFull DEF Together
  <2>3. f.mark = "none" /\ g.mark = "none" /\ f.p.upgrade /\ ~f.p.error
    BY <1>2, <1>3, <1>5, <1>8, <2>1 DEF Together, Keeps, Going
  <2>4. Alike(S, t, f, u, g)
    BY <1>2, <1>3, <1>4, <2>1, <2>2, <2>3 DEF Alike, Settled, Together
  <2>5. QED BY <1>6, <1>8, <2>4 DEF f, g
<1>9. CASE ~a.p.upgrade
  BY <1>6, <1>7, <1>9
<1>10. QED BY <1>8, <1>9

LEMMA HeadersDoneAlike == ASSUME NEW S, NEW t, NEW u, NEW a, NEW b, NEW c,
                                 Together(S, {"none"}, t, a, u, b)
                          PROVE  Alike(S, t, HeadersDone(a, c), u, HeadersDone(b, c))
<1> DEFINE chunked == "chunked" \in a.p.flags
           hasBody == chunked \/ a.p.length > 0
           next == IF chunked THEN "chunk_size_start" ELSE "body_identity"
<1>1. a.p = b.p
  BY DEF Together, Same
<1>2. /\ HeadersDone(a, c) = IF c # "\n" THEN Fail(a)
                             ELSE IF ~hasBody THEN MessageDone(a) ELSE Goto(a, next)
      /\ HeadersDone(b, c) = IF c # "\n" THEN Fail(b)
                             ELSE IF ~hasBody THEN MessageDone(b) ELSE Goto(b, next)
  BY <1>1 DEF HeadersDone
<1>3. {"none"} \subseteq MarksOf(next)
  BY MarksAre
<1> HIDE DEF hasBody, next
<1>4. Alike(S, t, Goto(a, next), u, Goto(b, next))
  BY <1>3, GotoAlike
<1>5. Alike(S, t, Fail(a), u, Fail(b)) /\ Alike(S, t, MessageDone(a), u, MessageDone(b))
  BY FailAlike, MessageDoneAlike
<1>6. QED BY <1>2, <1>4, <1>5

LEMMA HeadersAlmostDoneAlike ==
    ASSUME NEW S, NEW t, NEW u, NEW a, NEW b, NEW c, Together(S, {"none"}, t, a, u, b)
    PROVE  Alike(S, t, HeadersAlmostDone(a, c), u, HeadersAlmostDone(b, c))
<1> DEFINE q == [a.p EXCEPT !.state = "headers_done",
                            !.upgrade = {"upgrade", "connection_upgrade"} \subseteq a.p.flags]
           k == "headers_complete"
<1>1. a.p = b.p /\ DOMAIN a.p = ParserFields /\ ~a.p.error
  BY DEF Together, Same, IsRun, Going
<1> DEFINE done(x) == [x EXCEPT !.p.state = "headers_done",
                                !.p.upgrade = {"upgrade", "connection_upgrade"} \subseteq x.p.flags]
<1>2. done(a) = With(a, q) /\ done(b) = With(b, q)
  BY <1>1 DEF With
<1>3. /\ HeadersAlmostDone(a, c) =
             IF c # "\n" THEN Fail(a)
             ELSE IF "trailing" \in a.p.flags THEN MessageDone(a)
             ELSE IF {"chunked", "content_length"} \subseteq a.p.flags THEN Fail(a)
             ELSE HeadersDone(Notify(done(a), k), c)
      /\ HeadersAlmostDone(b, c) =
             IF c # "\n" THEN Fail(b)
             ELSE IF "trailing" \in b.p.flags THEN MessageDone(b)
             ELSE IF {"chunked", "content_length"} \subseteq b.p.flags THEN Fail(b)
             ELSE HeadersDone(Notify(done(b), k), c)
  BY Zenon DEF HeadersAlmostDone
<1>4. /\ HeadersAlmostDone(a, c) =
             IF c # "\n" THEN Fail(a)
             ELSE IF "trailing" \in a.p.flags THEN MessageDone(a)
             ELSE IF {"chunked", "content_length"} \subseteq a.p.flags THEN Fail(a)
             ELSE HeadersDone(Notify(With(a, q), k), c)
      /\ HeadersAlmostDone(b, c) =
             IF c # "\n" THEN Fail(b)
             ELSE IF "trailing" \in a.p.flags THEN MessageDone(b)
             ELSE IF {"chunked", "content_length"} \subseteq a.p.flags THEN Fail(b)
             ELSE HeadersDone(Notify(With(b, q), k), c)
  BY <1>1, <1>2, <1>3
<1>5. DOMAIN q = ParserFields /\ ~q.error
  BY <1>1 DEF ParserFields
<1> HIDE DEF q
<1>6. Together(S, {"none"}, t, With(a, q), u, With(b, q))
  BY <1>5, WithTogether
<1>7. Together(S, {"none"}, t, Notify(With(a, q), k), u, Notify(With(b, q), k))
  BY <1>6, NotifyTogether DEF Kinds
<1>8. Alike(S, t, HeadersDone(Notify(With(a, q), k), c), u, HeadersDone(Notify(With(b, q), k), c))
  <2> HIDE DEF k
  <2>1. QED BY <1>7, HeadersDoneAlike
<1>9. Alike(S, t, Fail(a), u, Fail(b)) /\ Alike(S, t, MessageDone(a), u, MessageDone(b))
  BY FailAlike, MessageDoneAlike
<1>10. QED BY <1>4, <1>8, <1>9

LEMMA HeaderFieldStartAlike ==
    ASSUME NEW S, NEW t, NEW u, NEW a, NEW b, NEW c \in S, Together(S, {"none"}, t, a, u, b)
    PROVE  Alike(S, t, HeaderFieldStart(a, c), u, HeaderFieldStart(b, c))
<1> DEFINE q == [a.p EXCEPT !.state = "header_field",
                            !.header = Move(NameMoves, "start", c, "general")]
           k == "header_field"
           done == "headers_almost_done"
<1>1. a.p = b.p /\ DOMAIN a.p = ParserFields /\ ~a.p.error
  BY DEF Together, Same, IsRun, Going
<1>2. DOMAIN q = ParserFields /\ ~q.error /\ q.state = k
  BY <1>1 DEF ParserFields
<1>3. /\ HeaderFieldStart(a, c) = IF c = "\r" THEN Goto(a, done)
                                  ELSE IF c = "\n" THEN HeadersAlmostDone(Goto(a, done), c)
                                  ELSE IF c \in Punctuation THEN Fail(a) ELSE Mark(With(a, q), k, c)
      /\ HeaderFieldStart(b, c) = IF c = "\r" THEN Goto(b, done)
                                  ELSE IF c = "\n" THEN HeadersAlmostDone(Goto(b, done), c)
                                  ELSE IF c \in Punctuation THEN Fail(b) ELSE Mark(With(b, q), k, c)
  <2>1. /\ With(a, q) = [a EXCEPT !.p.state = k, !.p.header = Move(NameMoves, "start", c, "general")]
        /\ With(b, q) = [b EXCEPT !.p.state = k, !.p.header = Move(NameMoves, "start", c, "general")]
    BY <1>1 DEF With
  <2> HIDE DEF q
  <2>2. CASE c = "\r"
    BY <2>2 DEF HeaderFieldStart
  <2>3. CASE c = "\n"
    BY <2>3 DEF HeaderFieldStart
  <2>4. CASE c \notin {"\r", "\n"} /\ c \in Punctuation
    BY <2>4 DEF HeaderFieldStart
  <2>5. CASE c \notin {"\r", "\n"} /\ c \notin Punctuation
    BY <2>1, <2>5 DEF HeaderFieldStart
  <2>6. QED BY <2>2, <2>3, <2>4, <2>5
<1> HIDE DEF q
<1>4. Alike(S, t, Mark(With(a, q), k, c), u, Mark(With(b, q), k, c))
  <2>1. Together(S, {"none"}, t, With(a, q), u, With(b, q)) /\ With(a, q).p = q
    BY <1>2, WithTogether
  <2>2. Together(S, {"none", k}, t, With(a, q), u, With(b, q)) /\ k \in Texts
    BY <2>1, Wider DEF Texts
  <2>3. MarksOf(q.state) = {k}
    BY <1>2, MarksAre
  <2> DEFINE d == With(a, q)
             e == With(b, q)
  <2>4. Together(S, {"none", k}, t, d, u, e) /\ d.p = q
    BY <2>1, <2>2
  <2>5. k \in Texts
    BY <2>2
  <2> HIDE DEF d, e
  <2>6. Together(S, {k}, t, Mark(d, k, c), u, Mark(e, k, c)) /\ Mark(d, k, c).p = d.p
    BY <2>4, <2>5, MarkTogether
  <2>7. Alike(S, t, Mark(d, k, c), u, Mark(e, k, c))
    BY <2>3, <2>4, <2>6, Settles
  <2>8. QED BY <2>7 DEF d, e
<1>5. Together(S, {"none"}, t, Goto(a, done), u, Goto(b, done)) /\ MarksOf(done) = {"none"}
  BY GotoTogether, MarksAre
<1> HIDE DEF k, done
<1>6. /\ Alike(S, t, Goto(a, done), u, Goto(b, done)) /\ Alike(S, t, Fail(a), u, Fail(b))
      /\ Alike(S, t, HeadersAlmostDone(Goto(a, done), c), u, HeadersAlmostDone(Goto(b, done), c))
  BY <1>5, GotoAlike, FailAlike, HeadersAlmostDoneAlike
<1>7. QED BY <1>3, <1>4, <1>6

LEMMA HeaderFieldAlike ==
    ASSUME NEW S, NEW t, NEW u, NEW a, NEW b, NEW c \in S,
           Together(S, {"header_field"}, t, a, u, b), a.p.state = "header_field"
    PROVE  Alike(S, t, HeaderField(a, c), u, HeaderField(b, c))
<1> DEFINE q == [a.p EXCEPT !.header = Move(NameMoves, a.p.header, c, "general")]
           k == "header_field"
           next == "header_value_discard_ws"
<1>1. a.p = b.p /\ DOMAIN a.p = ParserFields /\ ~a.p.error
  BY DEF Together, Same, IsRun, Going
<1>2. DOMAIN q = ParserFields /\ ~q.error /\ q.state = k
  BY <1>1 DEF ParserFields
<1>3. /\ HeaderField(a, c) = IF c = ":" THEN Emit(Goto(a, next), k)
                             ELSE IF c \in Punctuation THEN Fail(a) ELSE Take(With(a, q), c)
      /\ HeaderField(b, c) = IF c = ":" THEN Emit(Goto(b, next), k)
                             ELSE IF c \in Punctuation THEN Fail(b) ELSE Take(With(b, q), c)
  BY <1>1 DEF HeaderField, With
<1>4. k \in Texts /\ MarksOf(k) = {k} /\ MarksOf(next) = {"none"}
  BY MarksAre DEF Texts
<1> HIDE DEF q, next, k
<1>5. Alike(S, t, Take(With(a, q), c), u, Take(With(b, q), c))
  <2>1. Together(S, {k}, t, With(a, q), u, With(b, q)) /\ With(a, q).p = q
    BY <1>2, WithTogether DEF k
  <2>2. QED BY <1>2, <1>4, <2>1, TakeTogether, Settles
<1>6. Alike(S, t, Emit(Goto(a, next), k), u, Emit(Goto(b, next), k))
  <2>1. Together(S, {"none", k}, t, Goto(a, next), u, Goto(b, next)) /\ Goto(a, next).p.state = next
    BY GotoTogether, Wider DEF k
  <2>2. QED BY <1>4, <2>1, EmitTogether, Settles
<1>7. Alike(S, t, Fail(a), u, Fail(b))
  BY FailAlike
<1>8. QED BY <1>3, <1>5, <1>6, <1>7

\* A body of known length, and the data of a chunk.
LEMMA BodyAlike ==
    ASSUME NEW S, NEW t, NEW u, NEW a, NEW b, NEW c \in S, Together(S, {"none", "body"}, t, a, u, b),
           a.p.state \in {"body_identity", "chunk_data"}
    PROVE  /\ Alike(S, t, BodyIdentity(a, c), u, BodyIdentity(b, c))
           /\ Alike(S, t, ChunkData(a, c), u, ChunkData(b, c))
<1> DEFINE q == [a.p EXCEPT !.length = @ - 1]
           d == With(Mark(a, "body", c), q)
           e == With(Mark(b, "body", c), q)
           k == "body"
<1>1. a.p = b.p /\ DOMAIN a.p = ParserFields /\ ~a.p.error
  BY DEF Together, Same, IsRun, Going
<1>2. DOMAIN q = ParserFields /\ ~q.error /\ q.state = a.p.state
  BY <1>1 DEF ParserFields
<1>3. /\ Together(S, {"body"}, t, Mark(a, "body", c), u, Mark(b, "body", c))
      /\ Mark(a, "body", c).p = a.p
  BY MarkTogether DEF Texts
<1>4. Mark(b, "body", c).p = a.p
  BY <1>3 DEF Together, Same
<1>5. /\ [Mark(a, "body", c) EXCEPT !.p.length = @ - 1] = d
      /\ [Mark(b, "body", c) EXCEPT !.p.length = @ - 1] = e
  BY <1>3, <1>4 DEF With
<1>6. Together(S, {"body"}, t, d, u, e) /\ d.p = q /\ e.p = q
  <2> HIDE DEF q
  <2>1. Together(S, {"body"}, t, d, u, e) /\ d.p = q
    BY <1>2, <1>3, WithTogether
  <2>2. QED BY <2>1 DEF Together, Same
<1> HIDE DEF d, e
<1>7. /\ BodyIdentity(a, c) = IF q.length = 0 THEN MessageDone(Emit(d, "body")) ELSE d
      /\ BodyIdentity(b, c) = IF q.length = 0 THEN MessageDone(Emit(e, "body")) ELSE e
      /\ ChunkData(a, c) = IF q.length = 0 THEN Goto(d, "chunk_data_almost_done") ELSE d
      /\ ChunkData(b, c) = IF q.length = 0 THEN Goto(e, "chunk_data_almost_done") ELSE e
  BY <1>5, <1>6 DEF BodyIdentity, ChunkData
<1>8. Together(S, {"none", "body"}, t, d, u, e)
  BY <1>6, Wider
<1>9. \A s \in {"body_identity", "chunk_data", "chunk_data_almost_done"} :
          MarksOf(s) = {"none", "body"}
  BY MarksAre
<1> HIDE DEF q
<1>10. Alike(S, t, d, u, e)
  BY <1>2, <1>6, <1>8, <1>9, Settles
<1>11. Alike(S, t, Goto(d, "chunk_data_almost_done"), u, Goto(e, "chunk_data_almost_done"))
  BY <1>8, <1>9, GotoAlike
<1>12. Alike(S, t, MessageDone(Emit(d, "body")), u, MessageDone(Emit(e, "body")))
  <2>1. "body" \in Texts
    BY DEF Texts
  <2>2. Together(S, {"none"}, t, Emit(d, "body"), u, Emit(e, "body"))
    BY <1>8, <2>1, EmitTogether
  <2>3. QED BY <2>2, MessageDoneAlike
<1>13. QED BY <1>7, <1>10, <1>11, <1>12

\* The value of a header begins, or goes on after a line end.
LEMMA HeaderValueStartAlike ==
    ASSUME NEW S, NEW t, NEW u, NEW a, NEW b, NEW c \in S, Together(S, {"none"}, t, a, u, b)
    PROVE  Alike(S, t, HeaderValueStart(a, c), u, HeaderValueStart(b, c))
<1> DEFINE h == a.p.header
           d == Mark(Goto(a, "header_value"), "header_value", c)
           e == Mark(Goto(b, "header_value"), "header_value", c)
           p == d.p
           upgrade == [p EXCEPT !.flags = @ \cup {"upgrade"}, !.header = "general"]
           length == [p EXCEPT !.flags = @ \cup {"content_length"}, !.length = Digits[c]]
           token == [p EXCEPT !.header = Move(ValueStartMoves, h, c, "token")]
           other == [p EXCEPT !.header = Move(ValueStartMoves, h, c, "general")]
           All == {upgrade, length, token, other}
           Is(v, w) == v = HeaderValueStart(a, c) /\ w = HeaderValueStart(b, c)
<1>1. /\ Together(S, {"none"}, t, Goto(a, "header_value"), u, Goto(b, "header_value"))
      /\ Goto(a, "header_value").p.state = "header_value"
  BY GotoTogether
<1>2. Together(S, {"none", "header_value"}, t, Goto(a, "header_value"), u, Goto(b, "header_value"))
  BY <1>1, Wider
<1>3. Together(S, {"header_value"}, t, d, u, e) /\ p = Goto(a, "header_value").p
  BY <1>2, MarkTogether DEF Texts
<1>4. a.p = b.p /\ DOMAIN p = ParserFields /\ ~p.error /\ p.state = "header_value" /\ e.p = p
  BY <1>1, <1>3 DEF Together, Same, IsRun, Going
<1>5. \A q \in All : DOMAIN q = ParserFields /\ ~q.error /\ q.state = "header_value"
  BY <1>4 DEF ParserFields
<1>6. \/ Is(d, e) \/ Is(Fail(d), Fail(e)) \/ \E q \in All : Is(With(d, q), With(e, q))
  <2> DEFINE wrong == c \notin DOMAIN Digits \/ "content_length" \in a.p.flags
  <2>1. CASE h = "upgrade"
    <3>1. Is([d EXCEPT !.p.flags = @ \cup {"upgrade"}, !.p.header = "general"],
             [e EXCEPT !.p.flags = @ \cup {"upgrade"}, !.p.header = "general"])
      <4> HIDE DEF d, e
      <4>1. QED BY <1>4, <2>1 DEF HeaderValueStart, d, e
    <3>2. Is(With(d, upgrade), With(e, upgrade))
      <4> HIDE DEF d, e
      <4>1. QED BY <1>4, <3>1 DEF With
    <3>3. QED BY <3>2
  <2>2. CASE h = "content_length"
    <3>1. CASE wrong
      BY <1>4, <2>2, <3>1 DEF HeaderValueStart
    <3>2. CASE ~wrong
      <4>1. Is([d EXCEPT !.p.flags = @ \cup {"content_length"}, !.p.length = Digits[c]],
               [e EXCEPT !.p.flags = @ \cup {"content_length"}, !.p.length = Digits[c]])
        BY <1>4, <2>2, <3>2 DEF HeaderValueStart
      <4>2. Is(With(d, length), With(e, length))
        <5> HIDE DEF d, e
        <5>1. QED BY <1>4, <4>1 DEF With
      <4>3. QED BY <4>2
    <3>3. QED BY <3>1, <3>2
  <2>3. CASE h = "connection"
    <3>1. Is(With(d, token), With(e, token))
      BY <1>4, <2>3 DEF HeaderValueStart, With
    <3>2. QED BY <3>1
  <2>4. CASE h = "token_start"
    BY <1>4, <2>4 DEF HeaderValueStart
  <2>5. CASE h \notin {"upgrade", "content_length", "connection", "token_start"}
    <3>1. Is(With(d, other), With(e, other))
      BY <1>4, <2>5 DEF HeaderValueStart, With
    <3>2. QED BY <3>1
  <2>6. QED BY <2>1, <2>2, <2>3, <2>4, <2>5
<1>7. MarksOf("header_value") = {"header_value"}
  BY MarksAre
<1>8. \A q \in All : Alike(S, t, With(d, q), u, With(e, q))
  <2> HIDE DEF All, d, e
  <2>1. QED BY <1>3, <1>5, <1>7, WithAlike
<1>9. Alike(S, t, d, u, e) /\ Alike(S, t, Fail(d), u, Fail(e))
  <2> HIDE DEF d, e
  <2>1. QED BY <1>3, <1>4, <1>7, FailAlike, Settles
<1> HIDE DEF All, d, e
<1>10. QED BY <1>6, <1>8, <1>9

LEMMA DiscardWsAlike ==
    ASSUME NEW S, NEW t, NEW u, NEW a, NEW b, NEW c \in S, Together(S, {"none"}, t, a, u, b),
           a.p.state = "header_value_discard_ws"
    PROVE  Alike(S, t, HeaderValueDiscardWs(a, c), u, HeaderValueDiscardWs(b, c))
<1> DEFINE cr == "header_value_discard_ws_almost_done"
           lf == "header_value_discard_lws"
<1>1. /\ HeaderValueDiscardWs(a, c) = IF c = " " THEN a ELSE IF c = "\r" THEN Goto(a, cr)
                                      ELSE IF c = "\n" THEN Goto(a, lf) ELSE HeaderValueStart(a, c)
      /\ HeaderValueDiscardWs(b, c) = IF c = " " THEN b ELSE IF c = "\r" THEN Goto(b, cr)
                                      ELSE IF c = "\n" THEN Goto(b, lf) ELSE HeaderValueStart(b, c)
  BY DEF HeaderValueDiscardWs
<1>2. /\ MarksOf("header_value_discard_ws") = {"none"}
      /\ MarksOf(cr) = {"none"} /\ MarksOf(lf) = {"none"}
  BY MarksAre
<1> HIDE DEF cr, lf
<1>3. /\ Alike(S, t, Goto(a, cr), u, Goto(b, cr)) /\ Alike(S, t, Goto(a, lf), u, Goto(b, lf))
      /\ Alike(S, t, a, u, b)
  BY <1>2, GotoAlike, Settles
<1>4. Alike(S, t, HeaderValueStart(a, c), u, HeaderValueStart(b, c))
  BY HeaderValueStartAlike
<1>5. QED BY <1>1, <1>3, <1>4

\* An empty value is told as a bare callback.
LEMMA EmptyValue ==
    ASSUME NEW S, NEW a, IsRun(S, a), a.mark = "none", NEW q
    PROVE  Emit([With(a, q) EXCEPT !.mark = "header_value"], "header_value")
             = Notify(With(a, q), "header_value")
<1> DEFINE d == With(a, q)
           e == [d EXCEPT !.mark = "header_value"]
<1>1. /\ DOMAIN d = RunFields /\ d.mark = "none" /\ d.text = << >>
      /\ d \in [RunFields -> {d[x] : x \in RunFields}]
  BY DEF With, IsRun, RunFields
<1> HIDE DEF d
<1>2. e.mark = "header_value" /\ e.text = << >> /\ e.calls = d.calls
  BY <1>1 DEF RunFields
<1>3. Emit(e, "header_value")
        = [e EXCEPT !.calls = Append(@, <<"header_value", << >>>>), !.mark = "none", !.text = << >>]
  BY <1>2 DEF Emit
<1>4. QED BY <1>1, <1>3 DEF Notify, RunFields, d

LEMMA DiscardLwsAlike ==
    ASSUME NEW S, NEW t, NEW u, NEW a, NEW b, NEW c \in S, Together(S, {"none"}, t, a, u, b)
    PROVE  Alike(S, t, HeaderValueDiscardLws(a, c), u, HeaderValueDiscardLws(b, c))
<1> DEFINE q == [a.p EXCEPT !.flags = @ \cup FlagOf(a.p.header), !.state = "header_field_start"]
           k == "header_value"
<1>1. a.p = b.p /\ DOMAIN a.p = ParserFields /\ ~a.p.error /\ IsRun(S, a) /\ IsRun(S, b)
      /\ a.mark = "none" /\ b.mark = "none"
  BY DEF Together, Same, IsRun, Going
<1>2. DOMAIN q = ParserFields /\ ~q.error
  BY <1>1 DEF ParserFields
<1>3. /\ [a EXCEPT !.p.flags = @ \cup FlagOf(a.p.header), !.mark = k,
                   !.p.state = "header_field_start"]
           = [With(a, q) EXCEPT !.mark = k]
      /\ [b EXCEPT !.p.flags = @ \cup FlagOf(b.p.header), !.mark = k,
                   !.p.state = "header_field_start"]
           = [With(b, q) EXCEPT !.mark = k]
  BY <1>1 DEF With, IsRun, RunFields
<1> HIDE DEF q
<1>4. /\ HeaderValueDiscardLws(a, c) =
             IF c = " " THEN Goto(a, "header_value_discard_ws")
             ELSE HeaderFieldStart(Notify(With(a, q), k), c)
      /\ HeaderValueDiscardLws(b, c) =
             IF c = " " THEN Goto(b, "header_value_discard_ws")
             ELSE HeaderFieldStart(Notify(With(b, q), k), c)
  <2>1. /\ Emit([With(a, q) EXCEPT !.mark = k], k) = Notify(With(a, q), k)
        /\ Emit([With(b, q) EXCEPT !.mark = k], k) = Notify(With(b, q), k)
    BY <1>1, EmptyValue
  <2>2. CASE c = " "
    BY <2>2 DEF HeaderValueDiscardLws
  <2>3. CASE c # " "
    <3>1. /\ HeaderValueDiscardLws(a, c) = HeaderFieldStart(Emit(
                 [a EXCEPT !.p.flags = @ \cup FlagOf(a.p.header), !.mark = k,
                   !.p.state = "header_field_start"], k), c)
          /\ HeaderValueDiscardLws(b, c) = HeaderFieldStart(Emit(
                 [b EXCEPT !.p.flags = @ \cup FlagOf(b.p.header), !.mark = k,
                   !.p.state = "header_field_start"], k), c)
      BY <2>3, Zenon DEF HeaderValueDiscardLws
    <3>2. QED BY <1>3, <2>1, <2>3, <3>1
  <2>4. QED BY <2>2, <2>3
<1>5. Together(S, {"none"}, t, Notify(With(a, q), k), u, Notify(With(b, q), k))
  <2>1. Together(S, {"none"}, t, With(a, q), u, With(b, q)) /\ k \in Kinds
    BY <1>2, WithTogether DEF Kinds, Texts
  <2>2. QED BY <2>1, NotifyTogether
<1> HIDE DEF k
<1>6. Alike(S, t, HeaderFieldStart(Notify(With(a, q), k), c),
               u, HeaderFieldStart(Notify(With(b, q), k), c))
  BY <1>5, HeaderFieldStartAlike
<1>7. MarksOf("header_value_discard_ws") = {"none"}
  BY MarksAre
<1>8. Alike(S, t, Goto(a, "header_value_discard_ws"), u, Goto(b, "header_value_discard_ws"))
  BY <1>7, GotoAlike
<1>9. QED BY <1>4, <1>6, <1>8

LEMMA HeaderValueLwsAlike ==
    ASSUME NEW S, NEW t, NEW u, NEW a, NEW b, NEW c \in S, Together(S, {"none"}, t, a, u, b)
    PROVE  Alike(S, t, HeaderValueLws(a, c), u, HeaderValueLws(b, c))
<1> DEFINE q == [a.p EXCEPT !.flags = @ \cup FlagOf(a.p.header), !.state = "header_field_start"]
<1>1. a.p = b.p /\ DOMAIN a.p = ParserFields /\ ~a.p.error
  BY DEF Together, Same, IsRun, Going
<1>2. DOMAIN q = ParserFields /\ ~q.error
  BY <1>1 DEF ParserFields
<1>3. /\ [a EXCEPT !.p.flags = @ \cup FlagOf(a.p.header), !.p.state = "header_field_start"] = With(a, q)
      /\ [b EXCEPT !.p.flags = @ \cup FlagOf(b.p.header), !.p.state = "header_field_start"] = With(b, q)
  BY <1>1 DEF With
<1> HIDE DEF q
<1>4. /\ HeaderValueLws(a, c) = IF c = " " THEN HeaderValueStart(a, c)
                                ELSE HeaderFieldStart(With(a, q), c)
      /\ HeaderValueLws(b, c) = IF c = " " THEN HeaderValueStart(b, c)
                                ELSE HeaderFieldStart(With(b, q), c)
  BY <1>3 DEF HeaderValueLws
<1>5. Together(S, {"none"}, t, With(a, q), u, With(b, q))
  BY <1>2, WithTogether
<1>6. Alike(S, t, HeaderFieldStart(With(a, q), c), u, HeaderFieldStart(With(b, q), c))
  BY <1>5, HeaderFieldStartAlike
<1>7. Alike(S, t, HeaderValueStart(a, c), u, HeaderValueStart(b, c))
  BY HeaderValueStartAlike
<1>8. QED BY <1>4, <1>6, <1>7

LEMMA HeaderValueAlike ==
    ASSUME NEW S, NEW t, NEW u, NEW a, NEW b, NEW c \in S,
           Together(S, {"header_value"}, t, a, u, b), a.p.state = "header_value"
    PROVE  Alike(S, t, HeaderValue(a, c), u, HeaderValue(b, c))
<1> DEFINE h == a.p.header
           d == Take(a, c)
           e == Take(b, c)
           p == a.p
           length == [p EXCEPT !.length = 10 * @ + Digits[c]]
           chunked == [p EXCEPT !.header = IF c = "nked" THEN "chunked" ELSE "general"]
           still == [p EXCEPT !.header = IF c = " " THEN "chunked" ELSE "general"]
           token == [p EXCEPT !.flags = @ \cup FlagOf(h), !.header = "token_start"]
           other == [p EXCEPT !.header = IF h = "general" THEN h ELSE Move(TokenMoves, h, c, "token")]
           All == {length, chunked, still, token, other}
           cr == "header_almost_done"
           lf == "header_value_lws"
           Is(v, w) == v = HeaderValue(a, c) /\ w = HeaderValue(b, c)
<1>1. Together(S, {"header_value"}, t, d, u, e) /\ d.p = p
  BY TakeTogether DEF Texts
<1>2. b.p = p /\ DOMAIN p = ParserFields /\ ~p.error /\ e.p = p
  BY <1>1 DEF Together, Same, IsRun, Going
<1>3. \A q \in All : DOMAIN q = ParserFields /\ ~q.error /\ q.state = "header_value"
  BY <1>2 DEF ParserFields
<1>4. c \notin {"\r", "\n"} =>
          \/ Is(d, e) \/ Is(Fail(d), Fail(e)) \/ \E q \in All : Is(With(d, q), With(e, q))
  <2> SUFFICES ASSUME c \notin {"\r", "\n"}
               PROVE  \/ Is(d, e) \/ Is(Fail(d), Fail(e)) \/ \E q \in All : Is(With(d, q), With(e, q))
    OBVIOUS
  <2>1. CASE h = "content_length"
    <3>1. \/ Is(d, e) \/ Is(Fail(d), Fail(e))
          \/ Is([d EXCEPT !.p.length = 10 * @ + Digits[c]], [e EXCEPT !.p.length = 10 * @ + Digits[c]])
      BY <1>2, <2>1 DEF HeaderValue, Tokens
    <3>2. /\ [d EXCEPT !.p.length = 10 * @ + Digits[c]] = With(d, length)
          /\ [e EXCEPT !.p.length = 10 * @ + Digits[c]] = With(e, length)
      <4> HIDE DEF d, e
      <4>1. QED BY <1>1, <1>2 DEF With
    <3>3. QED BY <3>1, <3>2
  <2>2. CASE h = "matching_chunked"
    <3>1. Is(With(d, chunked), With(e, chunked))
      BY <1>1, <1>2, <2>2 DEF HeaderValue, With, Tokens
    <3>2. QED BY <3>1
  <2>3. CASE h = "chunked"
    <3>1. Is(With(d, still), With(e, still))
      BY <1>1, <1>2, <2>3 DEF HeaderValue, With, Tokens
    <3>2. QED BY <3>1
  <2>4. CASE h \in Tokens /\ c = ","
    <3>1. Is(With(d, token), With(e, token))
      BY <1>1, <1>2, <2>4 DEF HeaderValue, With, Tokens
    <3>2. QED BY <3>1
  <2>5. CASE ~(h \in Tokens /\ c = ",") /\ h \notin {"content_length", "matching_chunked", "chunked"}
    <3>1. Is(With(d, other), With(e, other))
      BY <1>1, <1>2, <2>5 DEF HeaderValue, With
    <3>2. QED BY <3>1
  <2>6. QED BY <2>1, <2>2, <2>3, <2>4, <2>5
<1>5. /\ c = "\r" => Is(Emit(Goto(a, cr), "header_value"), Emit(Goto(b, cr), "header_value"))
      /\ c = "\n" => Is(Emit(Goto(a, lf), "header_value"), Emit(Goto(b, lf), "header_value"))
  BY DEF HeaderValue
<1>6. /\ MarksOf("header_value") = {"header_value"} /\ MarksOf(cr) = {"none"} /\ MarksOf(lf) = {"none"}
      /\ "header_value" \in Texts
  BY MarksAre DEF Texts
<1>7. \A q \in All : Alike(S, t, With(d, q), u, With(e, q))
  <2> HIDE DEF All, d, e
  <2>1. QED BY <1>1, <1>3, <1>6, WithAlike
<1>8. Alike(S, t, d, u, e) /\ Alike(S, t, Fail(d), u, Fail(e))
  <2> HIDE DEF d, e
  <2>1. QED BY <1>1, <1>2, <1>6, FailAlike, Settles
<1>9. ASSUME NEW s, MarksOf(s) = {"none"}
      PROVE  Alike(S, t, Emit(Goto(a, s), "header_value"), u, Emit(Goto(b, s), "header_value"))
  <2>1. Together(S, {"header_value"}, t, Goto(a, s), u, Goto(b, s)) /\ Goto(a, s).p.state = s
    BY GotoTogether
  <2>2. Together(S, {"none", "header_value"}, t, Goto(a, s), u, Goto(b, s))
    BY <2>1, Wider
  <2>3. /\ Together(S, {"none"}, t, Emit(Goto(a, s), "header_value"),
                                  u, Emit(Goto(b, s), "header_value"))
        /\ Emit(Goto(a, s), "header_value").p = Goto(a, s).p
    BY <1>6, <2>2, EmitTogether
  <2>4. QED BY <1>9, <2>1, <2>3, Settles
<1> HIDE DEF All, d, e
<1>10. /\ Alike(S, t, Emit(Goto(a, cr), "header_value"), u, Emit(Goto(b, cr), "header_value"))
       /\ Alike(S, t, Emit(Goto(a, lf), "header_value"), u, Emit(Goto(b, lf), "header_value"))
  BY <1>6, <1>9
<1> HIDE DEF cr, lf
<1>11. QED BY <1>4, <1>5, <1>7, <1>8, <1>10

LEMMA StepAlike ==
    ASSUME NEW S, NEW t, NEW u, NEW a, NEW b, NEW c \in S,
           Together(S, MarksOf(a.p.state), t, a, u, b)
    PROVE  Alike(S, t, Step(a, c), u, Step(b, c))
<1> DEFINE s == a.p.state
           Is(v, w) == v = Step(a, c) /\ w = Step(b, c)
<1>1. b.p.state = s /\ "spaces_before_url" \notin UrlStates /\ Alike(S, t, Fail(a), u, Fail(b))
      /\ Alike(S, t, a, u, b)
  BY UrlStatesAre, FailAlike, Settles DEF Together, Same
<1>2. CASE s \in UrlStates \cup {"spaces_before_url"}
  <2>1. Is(Url(a, c), Url(b, c))
    BY <1>1, <1>2, UrlStatesAre DEF Step
  <2>2. QED BY <1>2, <2>1, MarksAre, UrlAlike
<1>3. CASE s \in VersionStates
  <2>1. Is(Version(a, c), Version(b, c))
    BY <1>1, <1>3, UrlStatesAre DEF Step, VersionStates
  <2>2. QED BY <1>3, <2>1, MarksAre, VersionAlike DEF VersionStates
<1>4. CASE s = "start_req"
  <2>1. Is(StartReq(a, c), StartReq(b, c))
    BY <1>1, <1>4, UrlStatesAre DEF Step
  <2>2. MarksOf(s) = {"none"}
    BY <1>4, MarksAre
  <2>3. QED BY <1>4, <2>1, <2>2, StartReqAlike
<1>5. CASE s = "req_method"
  <2>1. Is(ReqMethod(a, c), ReqMethod(b, c))
    BY <1>1, <1>5, UrlStatesAre DEF Step
  <2>2. MarksOf(s) = {"none"}
    BY <1>5, MarksAre
  <2>3. QED BY <1>5, <2>1, <2>2, ReqMethodAlike
<1>6. CASE s = "line_almost_done"
  <2>1. Is(Expect(a, c, "\n", "header_field_start"), Expect(b, c, "\n", "header_field_start"))
    BY <1>1, <1>6, UrlStatesAre DEF Step
  <2>2. MarksOf(s) = {"none"} /\ MarksOf("header_field_start") = {"none"}
    BY <1>6, MarksAre
  <2>3. QED BY <1>6, <2>1, <2>2, ExpectAlike
<1>7. CASE s = "header_field_start"
  <2>1. Is(HeaderFieldStart(a, c), HeaderFieldStart(b, c))
    BY <1>1, <1>7, UrlStatesAre DEF Step
  <2>2. MarksOf(s) = {"none"}
    BY <1>7, MarksAre
  <2>3. QED BY <1>7, <2>1, <2>2, HeaderFieldStartAlike
<1>8. CASE s = "header_field"
  <2>1. Is(HeaderField(a, c), HeaderField(b, c))
    BY <1>1, <1>8, UrlStatesAre DEF Step
  <2>2. MarksOf(s) = {"header_field"}
    BY <1>8, MarksAre
  <2>3. QED BY <1>8, <2>1, <2>2, HeaderFieldAlike
<1>9. CASE s = "header_value_discard_ws"
  <2>1. Is(HeaderValueDiscardWs(a, c), HeaderValueDiscardWs(b, c))
    BY <1>1, <1>9, UrlStatesAre DEF Step
  <2>2. MarksOf(s) = {"none"}
    BY <1>9, MarksAre
  <2>3. QED BY <1>9, <2>1, <2>2, DiscardWsAlike
<1>10. CASE s = "header_value_discard_ws_almost_done"
  <2>1. Is(Expect(a, c, "\n", "header_value_discard_lws"),
           Expect(b, c, "\n", "header_value_discard_lws"))
    BY <1>1, <1>10, UrlStatesAre DEF Step
  <2>2. MarksOf(s) = {"none"} /\ MarksOf("header_value_discard_lws") = {"none"}
    BY <1>10, MarksAre
  <2>3. QED BY <1>10, <2>1, <2>2, ExpectAlike
<1>11. CASE s = "header_value_discard_lws"
  <2>1. Is(HeaderValueDiscardLws(a, c), HeaderValueDiscardLws(b, c))
    BY <1>1, <1>11, UrlStatesAre DEF Step
  <2>2. MarksOf(s) = {"none"}
    BY <1>11, MarksAre
  <2>3. QED BY <1>11, <2>1, <2>2, DiscardLwsAlike
<1>12. CASE s = "header_value"
  <2>1. Is(HeaderValue(a, c), HeaderValue(b, c))
    BY <1>1, <1>12, UrlStatesAre DEF Step
  <2>2. MarksOf(s) = {"header_value"}
    BY <1>12, MarksAre
  <2>3. QED BY <1>12, <2>1, <2>2, HeaderValueAlike
<1>13. CASE s = "header_almost_done"
  <2>1. Is(Expect(a, c, "\n", "header_value_lws"), Expect(b, c, "\n", "header_value_lws"))
    BY <1>1, <1>13, UrlStatesAre DEF Step
  <2>2. MarksOf(s) = {"none"} /\ MarksOf("header_value_lws") = {"none"}
    BY <1>13, MarksAre
  <2>3. QED BY <1>13, <2>1, <2>2, ExpectAlike
<1>14. CASE s = "header_value_lws"
  <2>1. Is(HeaderValueLws(a, c), HeaderValueLws(b, c))
    BY <1>1, <1>14, UrlStatesAre DEF Step
  <2>2. MarksOf(s) = {"none"}
    BY <1>14, MarksAre
  <2>3. QED BY <1>14, <2>1, <2>2, HeaderValueLwsAlike
<1>15. CASE s = "headers_almost_done"
  <2>1. Is(HeadersAlmostDone(a, c), HeadersAlmostDone(b, c))
    BY <1>1, <1>15, UrlStatesAre DEF Step
  <2>2. MarksOf(s) = {"none"}
    BY <1>15, MarksAre
  <2>3. QED BY <1>15, <2>1, <2>2, HeadersAlmostDoneAlike
<1>16. CASE s = "body_identity"
  <2>1. Is(BodyIdentity(a, c), BodyIdentity(b, c))
    BY <1>1, <1>16, UrlStatesAre DEF Step
  <2>2. MarksOf(s) = {"none", "body"}
    BY <1>16, MarksAre
  <2>3. QED BY <1>16, <2>1, <2>2, BodyAlike
<1>17. CASE s = "chunk_size_start"
  <2>1. Is(ChunkSizeStart(a, c), ChunkSizeStart(b, c))
    BY <1>1, <1>17, UrlStatesAre DEF Step
  <2>2. MarksOf(s) = {"none"}
    BY <1>17, MarksAre
  <2>3. QED BY <1>17, <2>1, <2>2, ChunkSizeAlike
<1>18. CASE s = "chunk_size"
  <2>1. Is(ChunkSize(a, c), ChunkSize(b, c))
    BY <1>1, <1>18, UrlStatesAre DEF Step
  <2>2. MarksOf(s) = {"none"}
    BY <1>18, MarksAre
  <2>3. QED BY <1>18, <2>1, <2>2, ChunkSizeAlike
<1>19. CASE s = "chunk_size_almost_done"
  <2>1. Is(ChunkSizeAlmostDone(a, c), ChunkSizeAlmostDone(b, c))
    BY <1>1, <1>19, UrlStatesAre DEF Step
  <2>2. MarksOf(s) = {"none"}
    BY <1>19, MarksAre
  <2>3. QED BY <1>19, <2>1, <2>2, ChunkSizeAlike
<1>20. CASE s = "chunk_data"
  <2>1. Is(ChunkData(a, c), ChunkData(b, c))
    BY <1>1, <1>20, UrlStatesAre DEF Step
  <2>2. MarksOf(s) = {"none", "body"}
    BY <1>20, MarksAre
  <2>3. QED BY <1>20, <2>1, <2>2, BodyAlike
<1>21. CASE s = "chunk_data_done"
  <2>1. Is(Expect(a, c, "\n", "chunk_size_start"), Expect(b, c, "\n", "chunk_size_start"))
    BY <1>1, <1>21, UrlStatesAre DEF Step
  <2>2. MarksOf(s) = {"none"} /\ MarksOf("chunk_size_start") = {"none"}
    BY <1>21, MarksAre
  <2>3. QED BY <1>21, <2>1, <2>2, ExpectAlike
<1>22. CASE s = "dead"
  <2>1. Is(a, b) \/ Is(Fail(a), Fail(b))
    BY <1>1, <1>22, UrlStatesAre DEF Step
  <2>2. QED BY <1>1, <2>1
<1>23. CASE s = "chunk_parameters"
  <2>1. Is(a, b) \/ Is(Goto(a, "chunk_size_almost_done"), Goto(b, "chunk_size_almost_done"))
    BY <1>1, <1>23, UrlStatesAre DEF Step
  <2>2. MarksOf(s) = {"none"} /\ MarksOf("chunk_size_almost_done") = {"none"}
    BY <1>23, MarksAre
  <2>3. Alike(S, t, Goto(a, "chunk_size_almost_done"), u, Goto(b, "chunk_size_almost_done"))
    BY <2>2, GotoAlike
  <2>4. QED BY <1>1, <2>1, <2>3
<1>24. CASE s = "chunk_data_almost_done"
  <2> DEFINE d == Goto(a, "chunk_data_done")
             e == Goto(b, "chunk_data_done")
  <2>1. Is(Emit(d, "body"), Emit(e, "body")) \/ Is(Fail(a), Fail(b))
    BY <1>1, <1>24, UrlStatesAre DEF Step
  <2>2. MarksOf(s) = {"none", "body"} /\ MarksOf("chunk_data_done") = {"none"} /\ "body" \in Texts
    BY <1>24, MarksAre DEF Texts
  <2>3. Together(S, {"none", "body"}, t, d, u, e) /\ d.p.state = "chunk_data_done"
    BY <2>2, GotoTogether
  <2> HIDE DEF d, e
  <2>4. Together(S, {"none"}, t, Emit(d, "body"), u, Emit(e, "body")) /\ Emit(d, "body").p = d.p
    BY <2>2, <2>3, EmitTogether
  <2>5. Alike(S, t, Emit(d, "body"), u, Emit(e, "body"))
    BY <2>2, <2>3, <2>4, Settles
  <2>6. QED BY <1>1, <2>1, <2>5
<1> DEFINE Others ==
          {"start_req", "req_method", "line_almost_done", "header_field_start",
           "header_field", "header_value_discard_ws",
           "header_value_discard_ws_almost_done", "header_value_discard_lws",
           "header_value", "header_almost_done", "header_value_lws",
           "headers_almost_done", "body_identity", "chunk_size_start", "chunk_size",
           "chunk_size_almost_done", "chunk_data", "chunk_data_done", "dead",
           "chunk_parameters", "chunk_data_almost_done"}
<1>25. CASE s \notin UrlStates \cup {"spaces_before_url"} /\ s \notin VersionStates /\ s \notin Others
  <2>1. Is(Fail(a), Fail(b))
    BY <1>1, <1>25 DEF Step, VersionStates
  <2>2. QED BY <1>1, <2>1
<1>26. QED
  <2> HIDE DEF Is
  <2>1. QED BY <1>2, <1>3, <1>4, <1>5, <1>6, <1>7, <1>8, <1>9, <1>10, <1>11, <1>12,
               <1>13, <1>14, <1>15, <1>16, <1>17, <1>18, <1>19, <1>20, <1>21, <1>22, <1>23, <1>24, <1>25

LEMMA EatAlike == ASSUME NEW S, NEW t, NEW u, NEW a, NEW b, NEW c \in S, Alike(S, t, a, u, b)
                  PROVE  Alike(S, t, Eat(a, c), u, Eat(b, c))
<1>1. a.p = b.p /\ (a.stop <=> b.stop)
  BY DEF Alike, Same
<1>2. CASE a.stop
  <2> DEFINE d == [a EXCEPT !.whole = FALSE]
             e == [b EXCEPT !.whole = FALSE]
  <2>1. Eat(a, c) = d /\ Eat(b, c) = e
    BY <1>1, <1>2 DEF Eat
  <2>2. /\ Keeps(a, d) /\ Keeps(b, e) /\ d.p = a.p /\ e.p = b.p /\ d.stop = a.stop
        /\ e.stop = b.stop /\ ~d.whole /\ d.whole = e.whole
    BY DEF Alike, IsRun, RunFields, ParserFields, Keeps
  <2> HIDE DEF d, e
  <2>3. /\ IsRun(S, d) /\ IsRun(S, e) /\ Full(t, d) = Full(t, a) /\ Full(u, e) = Full(u, b)
        /\ d.mark = a.mark /\ e.mark = b.mark
    <3>1. IsRun(S, a) /\ IsRun(S, b)
      BY DEF Alike
    <3>2. IsRun(S, d) /\ Full(t, d) = Full(t, a)
      BY <2>2, <3>1, KeepsFull
    <3>3. IsRun(S, e) /\ Full(u, e) = Full(u, b)
      BY <2>2, <3>1, KeepsFull
    <3>4. QED BY <2>2, <3>2, <3>3 DEF Keeps
  <2>4. Alike(S, t, d, u, e)
    BY <1>1, <1>2, <2>2, <2>3 DEF Alike, Same, Settled
  <2>5. QED BY <2>1, <2>4
<1>3. CASE ~a.stop
  <2>1. Together(S, MarksOf(a.p.state), t, a, u, b)
    BY <1>3 DEF Alike, Settled, Together, Going
  <2>2. Eat(a, c) = Step(a, c) /\ Eat(b, c) = Step(b, c)
    BY <1>1, <1>3 DEF Eat
  <2>3. QED BY <2>1, <2>2, StepAlike
<1>4. QED BY <1>2, <1>3

-----------------------------------------------------------------------------
(* The same text after the same text, in a read of its own or in the one   *)
(* read that began earlier.                                                *)

LEMMA ReadsAlike ==
    ASSUME NEW S, NEW t, NEW u, NEW a, NEW b, NEW data \in Seq(S), NEW text \in Seq(S), NEW n \in Nat,
           n + Len(data) <= Len(text), \A i \in 1 .. Len(data) : data[i] = text[n + i],
           Alike(S, t, a, u, Progress(b, text)[n])
    PROVE  Alike(S, t, Progress(a, data)[Len(data)], u, Progress(b, text)[n + Len(data)])
<1> DEFINE l == Len(data)
           f == Progress(a, data)
           g == Progress(b, text)
           Failing == {i \in 0 .. l : ~Alike(S, t, f[i], u, g[n + i])}
<1>1. l \in Nat /\ Len(text) \in Nat /\ n + l <= Len(text)
  OBVIOUS
<1>2. f[0] = a /\ \A i \in 1 .. l : f[i] = Eat(f[i - 1], data[i])
  BY ProgressIs
<1>3. \A i \in 1 .. Len(text) : g[i] = Eat(g[i - 1], text[i])
  BY ProgressIs
<1>4. \A i \in 1 .. l : data[i] = text[n + i] /\ data[i] \in S
  OBVIOUS
<1>5. Alike(S, t, a, u, g[n])
  OBVIOUS
<1> HIDE DEF f, g, l
<1>6. ASSUME Failing # {} PROVE FALSE
  <2>1. PICK i \in Failing : \A j \in Failing : i <= j
    <3>1. Failing \in SUBSET Nat
      BY <1>1
    <3> HIDE DEF Failing
    <3>2. QED BY <1>6, <3>1, Least
  <2>2. i # 0
    BY <1>1, <1>2, <1>5, <2>1
  <2>3. /\ i \in 1 .. l /\ i - 1 \in 0 .. l /\ n + i \in 1 .. Len(text)
        /\ (n + i) - 1 = n + (i - 1)
    BY <1>1, <2>1, <2>2
  <2>4. Alike(S, t, f[i - 1], u, g[n + (i - 1)])
    BY <2>1, <2>3
  <2>5. f[i] = Eat(f[i - 1], data[i]) /\ g[n + i] = Eat(g[n + (i - 1)], data[i])
    BY <1>2, <1>3, <1>4, <2>3
  <2>6. Alike(S, t, f[i], u, g[n + i])
    BY <1>4, <2>3, <2>4, <2>5, EatAlike
  <2>7. QED BY <2>1, <2>6
<1>7. l \in 0 .. l
  BY <1>1
<1>8. QED BY <1>6, <1>7 DEF f, g, l

\* A read of the beginning of a text ends as the read of the text is there.
LEMMA PrefixRun ==
    ASSUME NEW S, NEW a, NEW text \in Seq(S), NEW n \in 0 .. Len(text)
    PROVE  Progress(a, SubSeq(text, 1, n))[n] = Progress(a, text)[n]
<1> DEFINE data == SubSeq(text, 1, n)
           f == Progress(a, data)
           g == Progress(a, text)
           Failing == {i \in 0 .. n : f[i] # g[i]}
<1>1. n \in Nat /\ Len(text) \in Nat /\ n <= Len(text) /\ data \in Seq(S) /\ Len(data) = n
  OBVIOUS
<1>2. \A i \in 1 .. n : data[i] = text[i] /\ i \in 1 .. Len(text)
  OBVIOUS
<1> HIDE DEF data
<1>3. f[0] = a /\ \A i \in 1 .. n : f[i] = Eat(f[i - 1], data[i])
  BY <1>1, ProgressIs
<1>4. g[0] = a /\ \A i \in 1 .. Len(text) : g[i] = Eat(g[i - 1], text[i])
  BY ProgressIs
<1> HIDE DEF f, g
<1>5. ASSUME Failing # {} PROVE FALSE
  <2>1. PICK i \in Failing : \A j \in Failing : i <= j
    <3>1. Failing \in SUBSET Nat
      BY <1>1
    <3> HIDE DEF Failing
    <3>2. QED BY <1>5, <3>1, Least
  <2>2. i \in 1 .. n /\ i - 1 \in 0 .. n
    BY <1>1, <1>3, <1>4, <2>1
  <2>3. f[i - 1] = g[i - 1]
    BY <2>1, <2>2
  <2>4. QED BY <1>2, <1>3, <1>4, <2>1, <2>2, <2>3
<1>6. n \in 0 .. n
  BY <1>1
<1>7. QED BY <1>5, <1>6 DEF f, g, data

\* A run that has stopped takes nothing more.
LEMMA StoppedRun ==
    ASSUME NEW S, NEW a, NEW text \in Seq(S), NEW m \in 0 .. Len(text), NEW n \in m + 1 .. Len(text),
           Progress(a, text)[m].stop, IsRun(S, Progress(a, text)[m])
    PROVE  ~Progress(a, text)[n].whole /\ Progress(a, text)[n].p = Progress(a, text)[m].p
<1> DEFINE g == Progress(a, text)
           Kept(i) == /\ DOMAIN g[i] = RunFields /\ g[i].stop /\ g[i].p = g[m].p
                      /\ i > m => ~g[i].whole
           Failing == {i \in m .. n : ~Kept(i)}
<1>1. m \in Nat /\ n \in Nat /\ m < n /\ n <= Len(text) /\ Len(text) \in Nat
  OBVIOUS
<1>2. \A i \in 1 .. Len(text) : g[i] = Eat(g[i - 1], text[i])
  BY ProgressIs
<1>3. Kept(m)
  BY <1>1 DEF IsRun
<1> HIDE DEF g
<1>4. ASSUME Failing # {} PROVE FALSE
  <2>1. PICK i \in Failing : \A j \in Failing : i <= j
    <3>1. Failing \in SUBSET Nat
      BY <1>1
    <3> HIDE DEF Failing
    <3>2. QED BY <1>4, <3>1, Least
  <2>2. i \in 1 .. Len(text) /\ i - 1 \in m .. n /\ i > m
    BY <1>1, <1>3, <2>1
  <2>3. Kept(i - 1)
    BY <2>1, <2>2
  <2>4. g[i] = [g[i - 1] EXCEPT !.whole = FALSE]
    BY <1>2, <2>2, <2>3 DEF Eat
  <2>5. Kept(i)
    BY <2>3, <2>4 DEF RunFields
  <2>6. QED BY <2>1, <2>5
<1>5. n \in m .. n
  BY <1>1
<1>6. QED BY <1>1, <1>4, <1>5 DEF g

\* A run that fails with no text in hand keeps nothing back.
Clear(a) == a.p.error => a.mark = "none"

LEMMA EndIs == ASSUME NEW S, NEW t \in Seq(Calls(S)), NEW a, IsRun(S, a)
               PROVE  /\ End(a).p = a.p /\ (End(a).whole <=> a.whole)
                      /\ Clear(a) => Joined(t, End(a).calls) = Full(t, a)
<1>1. CASE a.p.error
  BY <1>1 DEF End, Clear, Full
<1>2. CASE ~a.p.error /\ a.mark = "none"
  BY <1>2 DEF End, Full
<1>3. CASE ~a.p.error /\ a.mark # "none"
  <2>1. a.mark \in Texts
    BY <1>3 DEF IsRun
  <2>2. /\ Same(Emit(a, a.mark), a) /\ Emit(a, a.mark).mark = "none"
        /\ Full(t, Emit(a, a.mark)) = Full(t, a)
    BY <2>1, EmitFull
  <2>3. End(a) = Emit(a, a.mark)
    BY <1>3 DEF End
  <2>4. QED BY <2>2, <2>3 DEF Same, Full
<1>4. QED BY <1>1, <1>2, <1>3

\* Where the text is between two reads, the next read takes it up.
LEMMA BeginTogether ==
    ASSUME NEW S, NEW u \in Seq(Calls(S)), NEW b, IsRun(S, b), Going(b),
           b.mark \in MarksOf(b.p.state)
    PROVE  Together(S, MarksOf(b.p.state), Full(u, b), Begin(b.p), u, b)
<1> DEFINE a == Begin(b.p)
           k == Pending(b.p)
           t == Full(u, b)
           s == b.p.state
<1>1. /\ a.p = b.p /\ a.mark = k /\ a.text = << >> /\ a.calls = << >>
      /\ a.stop = b.p.error /\ a.whole = ~b.p.error
      /\ DOMAIN a = RunFields
  BY DEF Begin, RunFields
<1>2. k \in {"none"} \cup Texts /\ k \in MarksOf(s) /\ (k # "none" => MarksOf(s) = {k})
  BY UrlStatesAre DEF Pending, MarksOf, Texts
<1>3. << >> \in Seq(S) /\ << >> \in Seq(Calls(S))
  OBVIOUS
<1>4. DOMAIN b.p = ParserFields /\ b.text \in Seq(S) /\ b.calls \in Seq(Calls(S))
      /\ b.mark \in {"none"} \cup Texts
  BY DEF IsRun
<1> DEFINE v == Joined(u, b.calls)
           e == <<b.mark, b.text>>
<1>5. v \in Seq(Calls(S))
  BY <1>4, JoinedIn
<1>6. t = IF b.mark = "none" THEN v ELSE Join(v, e)
  BY DEF Full
<1> HIDE DEF v, t, k, a
<1>7. b.mark # "none" => e \in Calls(S)
  BY <1>4, TextsAre DEF Calls
<1>8. t \in Seq(Calls(S)) /\ (b.mark # "none" => t # << >> /\ Last(t)[1] = b.mark)
  BY <1>5, <1>6, <1>7, JoinIs
<1>9. Full(t, a) = t
  <2>1. Joined(t, a.calls) = t
    BY <1>1, JoinedNothing
  <2>2. CASE k = "none"
    BY <1>1, <2>1, <2>2 DEF Full
  <2>3. CASE k # "none"
    <3>1. b.mark = k /\ k \in Texts
      BY <1>2, <2>3
    <3>2. Join(t, <<k, << >>>>) = t
      BY <1>8, <2>3, <3>1, JoinNothing
    <3>3. QED BY <1>1, <2>1, <2>3, <3>2 DEF Full
  <2>4. QED BY <2>2, <2>3
<1>10. IsRun(S, a)
  BY <1>1, <1>2, <1>3, <1>4 DEF IsRun
<1>11. Same(a, b) /\ Going(a)
  BY <1>1 DEF Same, Going
<1>12. Together(S, MarksOf(s), t, a, u, b)
  <2>1. Full(t, a) = Full(u, b)
    BY <1>9 DEF t
  <2>2. QED BY <1>1, <1>2, <1>8, <1>10, <1>11, <2>1 DEF Together
<1>13. QED BY <1>12 DEF a, t

LEMMA FirstRun == ASSUME NEW S
                  PROVE  Alike(S, << >>, Begin(NewParser), << >>, Begin(NewParser))
<1> DEFINE a == Begin(NewParser)
<1>1. /\ a.p = NewParser /\ a.mark = Pending(NewParser) /\ a.text = << >> /\ a.calls = << >>
      /\ ~a.stop /\ a.whole /\ DOMAIN a = RunFields
  BY DEF Begin, RunFields, NewParser
<1>2. Pending(NewParser) = "none" /\ MarksOf("start_req") = {"none"}
  BY UrlStatesAre DEF Pending, NewParser, MarksOf
<1>3. DOMAIN NewParser = ParserFields /\ NewParser.state = "start_req" /\ ~NewParser.error
  BY DEF NewParser, ParserFields
<1>4. << >> \in Seq(S) /\ << >> \in Seq(Calls(S))
  OBVIOUS
<1> HIDE DEF a
<1>5. IsRun(S, a)
  BY <1>1, <1>2, <1>3, <1>4 DEF IsRun
<1>6. QED BY <1>1, <1>2, <1>3, <1>4, <1>5 DEF Alike, Same, Settled, a

LEMMA WholeAlike == ASSUME NEW S, NEW text \in Seq(S), NEW n \in 0 .. Len(text)
                    PROVE  Alike(S, << >>, Whole(text)[n], << >>, Whole(text)[n])
<1> DEFINE data == SubSeq(text, 1, n)
           b == Begin(NewParser)
<1>1. /\ n \in Nat /\ data \in Seq(S) /\ Len(data) = n /\ 0 + Len(data) <= Len(text)
      /\ \A i \in 1 .. Len(data) : data[i] = text[0 + i]
  OBVIOUS
<1>2. Alike(S, << >>, b, << >>, Progress(b, text)[0])
  <2>1. Progress(b, text)[0] = b
    BY ProgressIs
  <2>2. QED BY <2>1, FirstRun
<1> HIDE DEF data, b
<1>3. Alike(S, << >>, Progress(b, data)[Len(data)], << >>, Progress(b, text)[0 + Len(data)])
  BY <1>1, <1>2, ReadsAlike
<1>4. Progress(b, data)[n] = Progress(b, text)[n]
  BY PrefixRun DEF data
<1>5. 0 + Len(data) = n
  BY <1>1
<1>6. QED BY <1>1, <1>3, <1>4, <1>5 DEF Whole, b

\* After n characters of the text: the parser, what was told, and what is left.
Follows(text, p, t, left, n) ==
    LET run == Whole(text)[n] IN
    /\ p = run.p
    /\ Clear(run) => t = Full(<< >>, run)
    /\ left = IF run.whole THEN SubSeq(text, n + 1, Len(text)) ELSE << >>
    /\ run.stop => left = << >>

LEMMA WholeIs ==
    ASSUME NEW S, NEW text \in Seq(S), NEW n \in 0 .. Len(text)
    PROVE  LET run == Execute(NewParser, SubSeq(text, 1, n)) IN
           /\ run.p = Whole(text)[n].p /\ (run.whole <=> Whole(text)[n].whole)
           /\ Clear(Whole(text)[n]) => Joined(<< >>, run.calls) = Full(<< >>, Whole(text)[n])
<1> DEFINE data == SubSeq(text, 1, n)
           a == Whole(text)[n]
           run == Execute(NewParser, data)
<1>1. Len(data) = n
  OBVIOUS
<1>2. Progress(Begin(NewParser), data)[n] = a
  BY PrefixRun DEF Whole
<1> HIDE DEF data
<1>3. run.p = End(a).p /\ run.calls = End(a).calls /\ run.whole = End(a).whole
  BY <1>1, <1>2 DEF Execute
<1>4. IsRun(S, a) /\ << >> \in Seq(Calls(S))
  <2>1. IsRun(S, a)
    BY WholeAlike DEF Alike
  <2>2. QED BY <2>1
<1> HIDE DEF run, a
<1>5. /\ End(a).p = a.p /\ (End(a).whole <=> a.whole)
      /\ Clear(a) => Joined(<< >>, End(a).calls) = Full(<< >>, a)
  <2> DEFINE t == << >>
  <2>1. t \in Seq(Calls(S))
    BY <1>4
  <2> HIDE DEF t
  <2>2. /\ End(a).p = a.p /\ (End(a).whole <=> a.whole)
        /\ Clear(a) => Joined(t, End(a).calls) = Full(t, a)
    BY <1>4, <2>1, EndIs
  <2>3. QED BY <2>2 DEF t
<1>6. /\ run.p = a.p /\ (run.whole <=> a.whole)
      /\ Clear(a) => Joined(<< >>, run.calls) = Full(<< >>, a)
  BY <1>3, <1>5
<1>7. QED BY <1>6 DEF run, a, data

\* If it is not, then no part of it is.
LEMMA NotCut ==
    ASSUME NEW S, NEW text \in Seq(S), Uncut(text), NEW n \in 0 .. Len(text) - 1,
           Whole(text)[n].stop
    PROVE  Whole(text)[n].p.error
<1> DEFINE l == Len(text)
           a == Whole(text)[n]
           b == Whole(text)[l]
<1>1. l \in Nat /\ n \in 0 .. Len(text) /\ l \in n + 1 .. Len(text) /\ l \in 0 .. Len(text)
      /\ SubSeq(text, 1, l) = text
  OBVIOUS
<1>2. IsRun(S, a)
  BY <1>1, WholeAlike DEF Alike
<1>3. ~b.whole /\ b.p = a.p
  BY <1>1, <1>2, StoppedRun DEF Whole
<1>4. LET run == Execute(NewParser, text) IN run.p = b.p /\ (run.whole <=> b.whole)
  BY <1>1, WholeIs
<1>5. b.whole \/ b.p.error
  BY <1>4 DEF Uncut
<1>6. QED BY <1>3, <1>5

LEMMA SameText == ASSUME NEW S, NEW x \in Seq(S), NEW y \in Seq(S), Len(x) = Len(y),
                         \A i \in 1 .. Len(x) : x[i] = y[i]
                  PROVE  x = y
<1>1. /\ x = [i \in 1 .. Len(x) |-> x[i]]
      /\ y = [i \in 1 .. Len(y) |-> y[i]]
  OBVIOUS
<1>2. QED BY <1>1

LEMMA ReadFollows ==
    ASSUME NEW S, NEW text \in Seq(S), Uncut(text), NEW n \in 0 .. Len(text), NEW p, NEW t, NEW left,
           Follows(text, p, t, left, n), NEW k \in Nat \ {0}, left # << >>, k <= Len(left)
    PROVE  LET run == Execute(p, SubSeq(left, 1, k)) IN
           /\ n + k \in 0 .. Len(text)
           /\ Follows(text, run.p, Joined(t, run.calls),
                      IF run.whole THEN SubSeq(left, k + 1, Len(left)) ELSE << >>, n + k)
<1> DEFINE b == Whole(text)[n]
           d == Whole(text)[n + k]
           data == SubSeq(left, 1, k)
           run == Execute(p, data)
           a == Progress(Begin(p), data)[k]
           rest == SubSeq(text, n + 1, Len(text))
<1>1. /\ p = b.p /\ (Clear(b) => t = Full(<< >>, b)) /\ ~b.stop
      /\ left = rest /\ b.whole
  BY DEF Follows
<1>2. Alike(S, << >>, b, << >>, b)
  BY WholeAlike
<1>3. IsRun(S, b) /\ Going(b) /\ b.mark \in MarksOf(b.p.state) /\ Clear(b)
  BY <1>1, <1>2 DEF Alike, Settled, Going, Clear
<1>4. /\ rest \in Seq(S) /\ Len(rest) = Len(text) - n
      /\ \A i \in 1 .. Len(rest) : rest[i] = text[n + i]
  BY SMTT(30)
<1>5. /\ data \in Seq(S) /\ Len(data) = k /\ \A i \in 1 .. Len(data) : data[i] = left[i]
      /\ n \in Nat /\ k \in Nat /\ n + k <= Len(text) /\ n + k \in 0 .. Len(text)
  <2> HIDE DEF rest
  <2>1. left \in Seq(S) /\ Len(left) = Len(text) - n
    BY <1>1, <1>4
  <2>2. QED BY <2>1
<1>6. \A i \in 1 .. Len(data) : data[i] = text[n + i]
  <2> HIDE DEF rest, data
  <2>1. ASSUME NEW i \in 1 .. Len(data) PROVE data[i] = text[n + i]
    <3>1. i \in 1 .. Len(rest) /\ data[i] = rest[i]
      BY <1>1, <1>4, <1>5
    <3>2. QED BY <1>4, <3>1
  <2>2. QED BY <2>1
<1>7. SubSeq(left, k + 1, Len(left)) = SubSeq(text, n + k + 1, Len(text))
  <2> DEFINE l == Len(text)
             x == SubSeq(left, k + 1, Len(left))
             y == SubSeq(text, n + k + 1, l)
  <2>1. l \in Nat /\ Len(left) = l - n /\ left \in Seq(S)
    <3> HIDE DEF rest
    <3>1. QED BY <1>1, <1>4
  <2>2. /\ x \in Seq(S) /\ y \in Seq(S) /\ Len(x) = l - (n + k) /\ Len(y) = l - (n + k)
    BY <1>5, <2>1
  <2>3. ASSUME NEW i \in 1 .. l - (n + k) PROVE x[i] = y[i]
    <3>1. x[i] = left[k + i] /\ y[i] = text[(n + k) + i]
      BY <1>5, <2>1, <2>2
    <3>2. k + i \in 1 .. Len(rest) /\ n + (k + i) = (n + k) + i
      <4> HIDE DEF rest
      <4>1. QED BY <1>4, <1>5, <2>1
    <3>3. left[k + i] = text[n + (k + i)]
      <4> HIDE DEF rest
      <4>1. QED BY <1>1, <1>4, <3>2
    <3>4. QED BY <3>1, <3>2, <3>3
  <2> HIDE DEF x, y
  <2>4. x = y
    BY <2>2, <2>3, SameText
  <2>5. QED BY <2>4 DEF x, y
<1> HIDE DEF b, d, data, run, rest
<1>8. Together(S, MarksOf(b.p.state), t, Begin(p), << >>, b)
  <2>1. << >> \in Seq(Calls(S))
    OBVIOUS
  <2>2. QED BY <1>1, <1>3, <2>1, BeginTogether DEF Going
<1>9. Alike(S, t, Begin(p), << >>, b)
  <2>1. Begin(p).p.state = b.p.state
    BY <1>8 DEF Together, Same
  <2>2. QED BY <1>8, <2>1, Settles
<1>10. Alike(S, t, a, << >>, d)
  <2>1. n + Len(data) <= Len(text) /\ n + Len(data) = n + k
    BY <1>5
  <2>2. Alike(S, t, Begin(p), << >>, Progress(Begin(NewParser), text)[n])
    BY <1>9 DEF b, Whole
  <2>3. Alike(S, t, Progress(Begin(p), data)[Len(data)], << >>,
              Progress(Begin(NewParser), text)[n + Len(data)])
    BY <1>5, <1>6, <2>1, <2>2, ReadsAlike
  <2>4. QED BY <1>5, <2>3 DEF d, Whole
<1>11. run.p = End(a).p /\ run.calls = End(a).calls /\ run.whole = End(a).whole
  BY <1>5 DEF Execute, run
<1> HIDE DEF a
<1>12. IsRun(S, a) /\ t \in Seq(Calls(S)) /\ a.p = d.p /\ (a.whole <=> d.whole) /\ (a.stop <=> d.stop)
       /\ Settled(a) /\ Full(t, a) = Full(<< >>, d) /\ (Clear(d) => Clear(a))
  BY <1>10 DEF Alike, Same, Clear
<1>13. /\ End(a).p = a.p /\ (End(a).whole <=> a.whole)
       /\ Clear(a) => Joined(t, End(a).calls) = Full(t, a)
  BY <1>12, EndIs
<1>14. /\ run.p = d.p /\ (run.whole <=> d.whole)
       /\ Clear(d) => Joined(t, run.calls) = Full(<< >>, d)
  BY <1>11, <1>12, <1>13
<1> DEFINE after == IF run.whole THEN SubSeq(left, k + 1, Len(left)) ELSE << >>
<1>15. after = IF d.whole THEN SubSeq(text, n + k + 1, Len(text)) ELSE << >>
  BY <1>7, <1>14
<1>16. d.stop => after = << >>
  <2> SUFFICES ASSUME d.stop, d.whole PROVE after = << >>
    BY <1>15
  <2>1. ~d.p.error
    BY <1>12 DEF Settled
  <2>2. n + k = Len(text)
    <3>1. n + k \notin 0 .. Len(text) - 1
      BY <2>1, NotCut DEF d
    <3>2. QED BY <1>5, <3>1
  <2>3. SubSeq(text, n + k + 1, Len(text)) = << >>
    BY <2>2, <1>5
  <2>4. QED BY <1>15, <2>3
<1>17. Follows(text, run.p, Joined(t, run.calls), after, n + k)
  <2> HIDE DEF after
  <2>1. QED BY <1>14, <1>15, <1>16 DEF Follows, d
<1>18. QED BY <1>5, <1>17 DEF run, data

-----------------------------------------------------------------------------
\* Whatever the client wrote and however its bytes are split over reads, the
\* parser is where one read of the first n characters leaves it, the receiver
\* was told what that read tells (a read that fails may keep back the text it
\* was in), and no character is lost or taken twice: the rest is unread, or is
\* dropped because the parser has refused. Only for text that goes on after an
\* upgrade is nothing said (HTTPConnectionImpl::parse_some, http_parser_execute).
OneRead ==
    LET text == Written(stream) IN
    Uncut(text) =>
        \E n \in 0 .. Len(text) :
            LET run == Execute(NewParser, SubSeq(text, 1, n)) IN
            /\ parser = run.p
            /\ Clear(Whole(text)[n]) => told = Joined(<< >>, run.calls)
            /\ unread = IF run.whole THEN SubSeq(text, n + 1, Len(text)) ELSE << >>

Following ==
    /\ stream \in Streams
    /\ Uncut(Written(stream)) =>
           \E n \in 0 .. Len(Written(stream)) : Follows(Written(stream), parser, told, unread, n)

LEMMA FollowsFirst == ASSUME NEW S, NEW text \in Seq(S)
                      PROVE  Follows(text, NewParser, << >>, text, 0)
<1> DEFINE a == Begin(NewParser)
           t == << >>
<1>1. Whole(text)[0] = a
  BY ProgressIs DEF Whole
<1>2. a.p = NewParser /\ a.whole /\ ~a.stop /\ a.mark = "none" /\ a.calls = << >>
  BY UrlStatesAre DEF Begin, NewParser, Pending
<1>3. SubSeq(text, 0 + 1, Len(text)) = text
  OBVIOUS
<1> HIDE DEF a
<1>4. Full(t, a) = t
  <2> HIDE DEF t
  <2>1. QED BY <1>2, JoinedNothing DEF Full
<1>5. QED BY <1>1, <1>2, <1>3, <1>4 DEF Follows

LEMMA FollowingHolds == Spec => []Following
<1>1. Init => Following
  <2> SUFFICES ASSUME Init PROVE Following
    OBVIOUS
  <2> DEFINE text == Written(stream)
  <2>1. /\ stream \in Streams /\ unread = text /\ parser = NewParser /\ told = << >>
        /\ text \in Seq(ToSet(text)) /\ 0 \in 0 .. Len(text)
    BY StreamAssumption DEF Init
  <2> HIDE DEF text
  <2>2. Follows(text, NewParser, << >>, text, 0)
    BY <2>1, FollowsFirst
  <2>3. QED BY <2>1, <2>2 DEF Following, text
<1>2. Following /\ [Next]_vars => Following'
  <2> SUFFICES ASSUME Following, [Next]_vars PROVE Following'
    OBVIOUS
  <2>1. CASE UNCHANGED vars
    BY <2>1 DEF Following, vars
  <2>2. ASSUME NEW k \in 1 .. MaxRead \cup {Len(unread)}, k > 0, Read(k) PROVE Following'
    <3> DEFINE text == Written(stream)
               run == Execute(parser, SubSeq(unread, 1, k))
    <3>1. /\ k <= Len(unread) /\ stream' = stream /\ parser' = run.p
          /\ told' = Joined(told, run.calls)
          /\ unread' = IF run.whole THEN SubSeq(unread, k + 1, Len(unread)) ELSE << >>
      BY <2>2 DEF Read
    <3>2. stream \in Streams /\ text \in Seq(ToSet(text))
      BY StreamAssumption DEF Following
    <3>3. ASSUME Uncut(text), NEW n \in 0 .. Len(text), Follows(text, parser, told, unread, n)
          PROVE  n + k \in 0 .. Len(text) /\ Follows(text, parser', told', unread', n + k)
      <4> HIDE DEF text, run
      <4>1. k \in Nat \ {0} /\ unread # << >>
        <5>1. CASE k \in 1 .. MaxRead
          BY <3>1, <5>1, StreamAssumption
        <5>2. CASE k = Len(unread)
          <6>1. CASE Whole(text)[n].whole
            <7>1. unread = SubSeq(text, n + 1, Len(text))
              BY <3>3, <6>1 DEF Follows
            <7> DEFINE S == ToSet(text)
            <7>2. text \in Seq(S)
              BY <3>2
            <7> HIDE DEF S
            <7>3. unread \in Seq(S)
              BY <7>1, <7>2
            <7>4. QED BY <2>2, <5>2, <7>3
          <6>2. CASE ~Whole(text)[n].whole
            BY <2>2, <3>3, <5>2, <6>2 DEF Follows
          <6>3. QED BY <6>1, <6>2
        <5>3. QED BY <5>1, <5>2
      <4>2. /\ n + k \in 0 .. Len(text)
            /\ Follows(text, run.p, Joined(told, run.calls),
                       IF run.whole THEN SubSeq(unread, k + 1, Len(unread)) ELSE << >>, n + k)
        BY <3>1, <3>2, <3>3, <4>1, ReadFollows DEF run
      <4>3. QED BY <3>1, <4>2
    <3>4. stream' \in Streams /\ Written(stream') = text
      BY <3>1, <3>2
    <3>5. Uncut(text) => \E n \in 0 .. Len(text) : Follows(text, parser', told', unread', n)
      <4> HIDE DEF text
      <4>1. Uncut(text) => \E n \in 0 .. Len(text) : Follows(text, parser, told, unread, n)
        BY DEF Following, text
      <4>2. QED BY <3>3, <4>1
    <3>6. QED BY <3>4, <3>5 DEF Following
  <2>3. QED BY <2>1, <2>2 DEF Next
<1>3. QED BY <1>1, <1>2, PTL DEF Spec

LEMMA FollowingIs == Following => OneRead
<1> SUFFICES ASSUME Following, Uncut(Written(stream)) PROVE OneRead
  BY DEF OneRead
<1> DEFINE text == Written(stream)
<1>1. PICK n \in 0 .. Len(text) : Follows(text, parser, told, unread, n)
  BY DEF Following
<1>2. text \in Seq(ToSet(text))
  BY StreamAssumption DEF Following
<1> DEFINE run == Execute(NewParser, SubSeq(text, 1, n))
<1> HIDE DEF text
<1>3. /\ run.p = Whole(text)[n].p /\ (run.whole <=> Whole(text)[n].whole)
      /\ Clear(Whole(text)[n]) => Joined(<< >>, run.calls) = Full(<< >>, Whole(text)[n])
  BY <1>2, WholeIs
<1> HIDE DEF run
<1>4. /\ parser = run.p
      /\ Clear(Whole(text)[n]) => told = Joined(<< >>, run.calls)
      /\ unread = IF run.whole THEN SubSeq(text, n + 1, Len(text)) ELSE << >>
  BY <1>1, <1>3 DEF Follows
<1>5. QED BY <1>4 DEF OneRead, run, text

(* However the client's bytes are split over the reads of the parser, the   *)
(* parser and the callbacks are those of one read of all that was read.     *)
THEOREM ReadsAsOne == Spec => []OneRead
  BY FollowingHolds, FollowingIs, PTL

\* What one read tells, any reads tell.
LEMMA TellsTheSame ==
    ASSUME OneReadTells, stream \in Streams, OneRead
    PROVE  SplitsDoNotMatter /\ KeepAliveAsAsked
<1> DEFINE text == Written(stream)
           Run(n) == Execute(NewParser, SubSeq(text, 1, n))
           Said(n) == Joined(<< >>, Run(n).calls)
<1>1. text \in Seq(ToSet(text))
  BY StreamAssumption
<1>2. /\ Uncut(text)
      /\ \A n \in 0 .. Len(text) :
             /\ Tells(stream, Said(n), n = Len(text) \/ ~Run(n).whole, Run(n).p.error)
             /\ Answers(stream, Said(n), Run(n).p)
             /\ Run(n).p.error => Whole(text)[n].mark = "none"
  BY DEF OneReadTells
<1>3. PICK n \in 0 .. Len(text) :
          /\ parser = Run(n).p
          /\ Clear(Whole(text)[n]) => told = Said(n)
          /\ unread = IF Run(n).whole THEN SubSeq(text, n + 1, Len(text)) ELSE << >>
  BY <1>2 DEF OneRead
<1> HIDE DEF text
<1>4. Run(n).p = Whole(text)[n].p
  BY <1>1, WholeIs
<1> HIDE DEF Run
<1>5. told = Said(n)
  BY <1>2, <1>3, <1>4 DEF Clear
<1>6. unread = << >> <=> n = Len(text) \/ ~Run(n).whole
  <2> DEFINE S == ToSet(text)
             l == Len(text)
             rest == SubSeq(text, n + 1, l)
  <2>1. text \in Seq(S)
    BY <1>1
  <2> HIDE DEF S
  <2>2. l \in Nat /\ rest \in Seq(S) /\ Len(rest) = l - n
    BY <2>1, SMTT(30)
  <2> HIDE DEF rest
  <2>3. rest = << >> <=> n = l
    BY <2>2
  <2>4. QED BY <1>3, <2>3 DEF rest
<1> HIDE DEF Said
<1>7. Tells(stream, told, unread = << >>, parser.error)
  <2>1. Tells(stream, told, n = Len(text) \/ ~Run(n).whole, parser.error)
    BY <1>2, <1>3, <1>5
  <2>2. QED BY <1>6, <2>1 DEF Tells
<1>8. Answers(stream, told, parser)
  BY <1>2, <1>3, <1>5
<1>9. QED BY <1>7, <1>8 DEF SplitsDoNotMatter, KeepAliveAsAsked

\* If one read of the beginning of any of the streams tells what the messages say,
\* then so do any reads of it: where the client's bytes are cut changes neither
\* what the receiver is told nor when the parser fails (http_parser_execute).
THEOREM SplitsTellTheSame == ASSUME OneReadTells PROVE Spec => []SplitsDoNotMatter
<1>1. Following /\ OneRead => SplitsDoNotMatter
  BY TellsTheSame DEF Following
<1>2. QED BY <1>1, FollowingHolds, ReadsAsOne, PTL

\* Under the same, the connection is kept as the messages ask, wherever a
\* Connection header is cut (http_should_keep_alive).
THEOREM SplitsKeepAliveTheSame == ASSUME OneReadTells PROVE Spec => []KeepAliveAsAsked
<1>1. Following /\ OneRead => KeepAliveAsAsked
  BY TellsTheSame DEF Following
<1>2. QED BY <1>1, FollowingHolds, ReadsAsOne, PTL

-----------------------------------------------------------------------------
(* A parser that is kept between requests.                                *)

\* What a parser between messages holds of the last one does not matter for the
\* next: each field is set before it is read.
LineStates == {"start_req", "req_method", "spaces_before_url", "http_start", "first_http_major"}
                  \cup UrlStates
ValueStates == {"header_field", "header_value_discard_ws", "header_value_discard_ws_almost_done",
                "header_value_discard_lws", "header_value", "header_almost_done", "header_value_lws"}
BodyStates == {"body_identity", "chunk_size_start", "chunk_size", "chunk_parameters",
               "chunk_size_almost_done", "chunk_data", "chunk_data_almost_done", "chunk_data_done",
               "headers_done"}

\* Two parsers that tell the same of any text, of which q may have read before.
Kept(p, q) ==
    LET s == p.state IN
    /\ DOMAIN p = ParserFields /\ DOMAIN q = ParserFields
    /\ q.state = s /\ ~p.error /\ ~q.error
    /\ s # "start_req" => p.flags = q.flags /\ p.length = q.length /\ p.index = q.index
    /\ s \notin LineStates => p.major = q.major
    /\ s \notin LineStates \cup {"http_major", "first_http_minor"} => p.minor = q.minor
    /\ s \in ValueStates => p.header = q.header
    /\ s \in BodyStates \/ (s # "start_req" /\ "trailing" \in p.flags) => (p.upgrade <=> q.upgrade)

\* Runs that have told the same.
Beside(a, b) ==
    /\ DOMAIN a = RunFields /\ DOMAIN b = RunFields
    /\ a.mark = b.mark /\ a.text = b.text /\ a.calls = b.calls
    /\ (a.stop <=> b.stop) /\ (a.whole <=> b.whole)

Broken(a) == DOMAIN a = RunFields /\ DOMAIN a.p = ParserFields /\ a.p.error /\ a.stop /\ ~a.whole

Carried(a, b) == (Broken(a) /\ Broken(b)) \/ (Beside(a, b) /\ Kept(a.p, b.p))

-----------------------------------------------------------------------------
LEMMA FailCarried == ASSUME NEW a, NEW b, Beside(a, b), DOMAIN a.p = ParserFields,
                            DOMAIN b.p = ParserFields
                     PROVE  Carried(Fail(a), Fail(b))
  BY DEF Fail, Carried, Broken, Beside, RunFields, ParserFields

LEMMA WithBeside == ASSUME NEW a, NEW b, Beside(a, b), NEW p, NEW q
                    PROVE  Beside(With(a, p), With(b, q)) /\ With(a, p).p = p /\ With(b, q).p = q
  BY DEF With, Beside, RunFields

LEMMA WithCarried == ASSUME NEW a, NEW b, Beside(a, b), NEW p, NEW q, Kept(p, q)
                     PROVE  Carried(With(a, p), With(b, q))
  BY WithBeside DEF Carried

LEMMA EmitBeside == ASSUME NEW a, NEW b, Beside(a, b), NEW k
                    PROVE  Beside(Emit(a, k), Emit(b, k)) /\ Emit(a, k).p = a.p /\ Emit(b, k).p = b.p
  BY DEF Emit, Beside, RunFields

LEMMA TakeBeside == ASSUME NEW a, NEW b, Beside(a, b), NEW c
                    PROVE  Beside(Take(a, c), Take(b, c)) /\ Take(a, c).p = a.p /\ Take(b, c).p = b.p
  BY DEF Take, Beside, RunFields

LEMMA MarkBeside == ASSUME NEW a, NEW b, Beside(a, b), NEW k, NEW c
                    PROVE  /\ Beside(Mark(a, k, c), Mark(b, k, c))
                           /\ Mark(a, k, c).p = a.p /\ Mark(b, k, c).p = b.p
<1>1. CASE a.mark = k
  <2>1. Mark(a, k, c) = Take(a, c) /\ Mark(b, k, c) = Take(b, c)
    BY <1>1 DEF Mark, Beside
  <2>2. QED BY <2>1, TakeBeside
<1>2. CASE a.mark # k
  BY <1>2 DEF Mark, Beside, RunFields
<1>3. QED BY <1>1, <1>2

LEMMA NotifyBeside == ASSUME NEW a, NEW b, Beside(a, b), NEW k
                      PROVE  /\ Beside(Notify(a, k), Notify(b, k))
                             /\ Notify(a, k).p = a.p /\ Notify(b, k).p = b.p
  BY DEF Notify, Beside, RunFields

LEMMA GotoIs == ASSUME NEW a, NEW s
                PROVE  Goto(a, s) = With(a, [a.p EXCEPT !.state = s])
  BY DEF Goto, With

LEMMA GotoCarried == ASSUME NEW a, NEW b, Beside(a, b), NEW s,
                            Kept([a.p EXCEPT !.state = s], [b.p EXCEPT !.state = s])
                     PROVE  Carried(Goto(a, s), Goto(b, s))
  BY GotoIs, WithCarried

\* The result of a character is that of the same change of two runs side by side.
LEMMA StartReqCarried == ASSUME NEW a, NEW b, Beside(a, b), Kept(a.p, b.p), NEW c,
                                a.p.state = "start_req"
                         PROVE  Carried(StartReq(a, c), StartReq(b, c))
<1> DEFINE fresh(p) == [p EXCEPT !.flags = {}, !.length = None]
           begun(p) == [p EXCEPT !.flags = {}, !.length = None, !.state = "req_method", !.index = 1]
<1>1. /\ StartReq(a, c) = IF c \in {"\r", "\n"} THEN a
                          ELSE IF c # "G" THEN Fail(With(a, fresh(a.p)))
                          ELSE Notify(With(a, begun(a.p)), "message_begin")
      /\ StartReq(b, c) = IF c \in {"\r", "\n"} THEN b
                          ELSE IF c # "G" THEN Fail(With(b, fresh(b.p)))
                          ELSE Notify(With(b, begun(b.p)), "message_begin")
  BY DEF StartReq, With, Beside, Kept, RunFields, ParserFields
<1>2. /\ DOMAIN fresh(a.p) = ParserFields /\ DOMAIN fresh(b.p) = ParserFields
      /\ Kept(begun(a.p), begun(b.p))
  BY UrlStatesAre DEF Kept, ParserFields, LineStates, ValueStates, BodyStates
<1> HIDE DEF fresh, begun
<1>3. Carried(Fail(With(a, fresh(a.p))), Fail(With(b, fresh(b.p))))
  BY <1>2, WithBeside, FailCarried
<1>4. Carried(Notify(With(a, begun(a.p)), "message_begin"), Notify(With(b, begun(b.p)), "message_begin"))
  BY <1>2, WithBeside, NotifyBeside DEF Carried
<1>5. QED BY <1>1, <1>3, <1>4 DEF Carried

LEMMA ReqMethodCarried == ASSUME NEW a, NEW b, Beside(a, b), Kept(a.p, b.p), NEW c,
                                 a.p.state = "req_method"
                          PROVE  Carried(ReqMethod(a, c), ReqMethod(b, c))
<1> DEFINE next(p) == [p EXCEPT !.index = 3]
           to(p) == [p EXCEPT !.state = "spaces_before_url"]
<1>1. /\ ReqMethod(a, c) = IF c = " " /\ a.p.index = 3 THEN With(a, to(a.p))
                           ELSE IF c = "ET" /\ a.p.index = 1 THEN With(a, next(a.p)) ELSE Fail(a)
      /\ ReqMethod(b, c) = IF c = " " /\ b.p.index = 3 THEN With(b, to(b.p))
                           ELSE IF c = "ET" /\ b.p.index = 1 THEN With(b, next(b.p)) ELSE Fail(b)
  BY DEF ReqMethod, Goto, With
<1>2. /\ Kept(next(a.p), next(b.p)) /\ Kept(to(a.p), to(b.p)) /\ a.p.index = b.p.index
      /\ DOMAIN a.p = ParserFields /\ DOMAIN b.p = ParserFields
  BY UrlStatesAre DEF Kept, ParserFields, LineStates, ValueStates, BodyStates
<1> HIDE DEF next, to
<1>3. QED BY <1>1, <1>2, WithCarried, FailCarried

LEMMA UrlCarried == ASSUME NEW a, NEW b, Beside(a, b), Kept(a.p, b.p), NEW c,
                           a.p.state \in UrlStates \cup {"spaces_before_url"}
                    PROVE  Carried(Url(a, c), Url(b, c))
<1> DEFINE s == a.p.state
           next == Move(UrlMoves, s, c, "dead")
           strict == s \notin {"path", "query", "fragment", "server", "server_with_at"}
           to == IF c = "\r" THEN "line_almost_done" ELSE "header_field_start"
           line(p) == [p EXCEPT !.major = 0, !.minor = 9, !.state = to]
           version(p) == [p EXCEPT !.state = "http_start"]
           on(p) == [p EXCEPT !.state = next]
           Is(x) == Url(x, c) = IF s = "spaces_before_url" /\ c = " " THEN x
                                ELSE IF c = " " /\ ~strict THEN Emit(With(x, version(x.p)), "url")
                                ELSE IF c \in {"\r", "\n"} /\ ~strict THEN Emit(With(x, line(x.p)), "url")
                                ELSE IF next = "dead" THEN Fail(With(x, on(x.p)))
                                ELSE IF s = "spaces_before_url" THEN Mark(With(x, on(x.p)), "url", c)
                                ELSE Take(With(x, on(x.p)), c)
<1>1. b.p.state = s
  BY DEF Kept
<1>2. Is(a) /\ Is(b)
  <2> DEFINE lined(x) == [x EXCEPT !.p.major = 0, !.p.minor = 9,
                                   !.p.state = IF c = "\r" THEN "line_almost_done"
                                               ELSE "header_field_start"]
             loose(r) == r \in {"path", "query", "fragment", "server", "server_with_at"}
             Was(x, r, n) ==
                 Url(x, c) = IF r = "spaces_before_url" /\ c = " " THEN x
                             ELSE IF c = " " /\ loose(r) THEN Emit(Goto(x, "http_start"), "url")
                             ELSE IF c \in {"\r", "\n"} /\ loose(r) THEN Emit(lined(x), "url")
                             ELSE IF n = "dead" THEN Fail(Goto(x, n))
                             ELSE IF r = "spaces_before_url" THEN Mark(Goto(x, n), "url", c)
                             ELSE Take(Goto(x, n), c)
  <2>1. lined(a) = With(a, line(a.p)) /\ lined(b) = With(b, line(b.p))
    BY DEF With, Beside, Kept, RunFields, ParserFields
  <2>2. /\ Goto(a, "http_start") = With(a, version(a.p)) /\ Goto(b, "http_start") = With(b, version(b.p))
        /\ Goto(a, next) = With(a, on(a.p)) /\ Goto(b, next) = With(b, on(b.p))
    BY GotoIs
  <2>3. Was(a, s, next) /\ Was(b, b.p.state, Move(UrlMoves, b.p.state, c, "dead"))
    <3> HIDE DEF lined
    <3>1. QED BY DEF Url, lined
  <2>4. Was(a, s, next) /\ Was(b, s, next)
    BY <1>1, <2>3
  <2>5. loose(s) <=> ~strict
    OBVIOUS
  <2> HIDE DEF lined, line, version, on, next, strict, loose
  <2>6. QED BY <2>1, <2>2, <2>4, <2>5
<1>3. /\ Kept(line(a.p), line(b.p)) /\ Kept(version(a.p), version(b.p))
      /\ next # "dead" => Kept(on(a.p), on(b.p))
      /\ DOMAIN on(a.p) = ParserFields /\ DOMAIN on(b.p) = ParserFields
  <2>1. next \in UrlStates \cup {"dead"}
    BY MoveUrl
  <2>2. to \in {"line_almost_done", "header_field_start"}
    OBVIOUS
  <2> HIDE DEF next, to
  <2>3. QED BY <2>1, <2>2, UrlStatesAre DEF Kept, ParserFields, LineStates, ValueStates, BodyStates
<1> HIDE DEF next, line, version, on, strict
<1>4. /\ Beside(With(a, line(a.p)), With(b, line(b.p)))
      /\ Beside(With(a, version(a.p)), With(b, version(b.p)))
      /\ Beside(With(a, on(a.p)), With(b, on(b.p)))
  BY WithBeside
<1>5. Carried(Emit(With(a, line(a.p)), "url"), Emit(With(b, line(b.p)), "url"))
  BY <1>3, <1>4, WithBeside, EmitBeside DEF Carried
<1>6. Carried(Emit(With(a, version(a.p)), "url"), Emit(With(b, version(b.p)), "url"))
  BY <1>3, <1>4, WithBeside, EmitBeside DEF Carried
<1>7. Carried(Fail(With(a, on(a.p))), Fail(With(b, on(b.p))))
  BY <1>3, <1>4, WithBeside, FailCarried
<1>8. next # "dead" => Carried(Mark(With(a, on(a.p)), "url", c), Mark(With(b, on(b.p)), "url", c))
  BY <1>3, <1>4, WithBeside, MarkBeside DEF Carried
<1>9. next # "dead" => Carried(Take(With(a, on(a.p)), c), Take(With(b, on(b.p)), c))
  BY <1>3, <1>4, WithBeside, TakeBeside DEF Carried
<1>10. Carried(a, b)
  BY DEF Carried
<1>11. QED BY <1>2, <1>5, <1>6, <1>7, <1>8, <1>9, <1>10

LEMMA VersionCarried == ASSUME NEW a, NEW b, Beside(a, b), Kept(a.p, b.p), NEW c,
                               a.p.state \in VersionStates
                        PROVE  Carried(Version(a, c), Version(b, c))
<1> DEFINE s == a.p.state
           to(p, x) == [p EXCEPT !.state = x]
           first(p) == [p EXCEPT !.state = "http_major", !.major = Digits[c]]
           major(p) == [p EXCEPT !.major = 10 * @ + Digits[c]]
           second(p) == [p EXCEPT !.state = "http_minor", !.minor = Digits[c]]
           minor(p) == [p EXCEPT !.minor = 10 * @ + Digits[c]]
           Is(v, w) == v = Version(a, c) /\ w = Version(b, c)
           Goes(x) == Is(With(a, to(a.p, x)), With(b, to(b.p, x)))
<1>1. b.p.state = s /\ DOMAIN a.p = ParserFields /\ DOMAIN b.p = ParserFields
  BY DEF Kept
<1>2. Carried(a, b) /\ Carried(Fail(a), Fail(b))
  BY <1>1, FailCarried DEF Carried
<1>3. CASE s = "http_start"
  <2>1. Is(a, b) \/ Is(Fail(a), Fail(b)) \/ Goes("first_http_major")
    BY <1>1, <1>3 DEF Version, Goto, With
  <2>2. Kept(to(a.p, "first_http_major"), to(b.p, "first_http_major"))
    BY <1>3, UrlStatesAre DEF Kept, ParserFields, LineStates, ValueStates, BodyStates
  <2> HIDE DEF to
  <2>3. QED BY <1>2, <2>1, <2>2, WithCarried
<1>4. CASE s = "first_http_major"
  <2>1. Is(Fail(a), Fail(b)) \/ Is(With(a, first(a.p)), With(b, first(b.p)))
    BY <1>1, <1>4 DEF Version, With
  <2>2. Kept(first(a.p), first(b.p))
    BY <1>4, UrlStatesAre DEF Kept, ParserFields, LineStates, ValueStates, BodyStates
  <2> HIDE DEF first
  <2>3. QED BY <1>2, <2>1, <2>2, WithCarried
<1>5. CASE s = "http_major"
  <2>1. Is(Fail(a), Fail(b)) \/ Is(With(a, major(a.p)), With(b, major(b.p))) \/ Goes("first_http_minor")
    BY <1>1, <1>5 DEF Version, Goto, With
  <2>2. Kept(major(a.p), major(b.p)) /\ Kept(to(a.p, "first_http_minor"), to(b.p, "first_http_minor"))
    BY <1>5, UrlStatesAre DEF Kept, ParserFields, LineStates, ValueStates, BodyStates
  <2> HIDE DEF major, to
  <2>3. QED BY <1>2, <2>1, <2>2, WithCarried
<1>6. CASE s = "first_http_minor"
  <2>1. Is(Fail(a), Fail(b)) \/ Is(With(a, second(a.p)), With(b, second(b.p)))
    BY <1>1, <1>6 DEF Version, With
  <2>2. Kept(second(a.p), second(b.p))
    BY <1>6, UrlStatesAre DEF Kept, ParserFields, LineStates, ValueStates, BodyStates
  <2> HIDE DEF second
  <2>3. QED BY <1>2, <2>1, <2>2, WithCarried
<1>7. CASE s = "http_minor"
  <2>1. \/ Is(Fail(a), Fail(b)) \/ Is(With(a, minor(a.p)), With(b, minor(b.p)))
        \/ Goes("line_almost_done") \/ Goes("header_field_start")
    BY <1>1, <1>7 DEF Version, Goto, With, Digits
  <2>2. /\ Kept(minor(a.p), minor(b.p))
        /\ Kept(to(a.p, "line_almost_done"), to(b.p, "line_almost_done"))
        /\ Kept(to(a.p, "header_field_start"), to(b.p, "header_field_start"))
    BY <1>7, UrlStatesAre DEF Kept, ParserFields, LineStates, ValueStates, BodyStates
  <2> HIDE DEF minor, to
  <2>3. QED BY <1>2, <2>1, <2>2, WithCarried
<1>8. QED BY <1>3, <1>4, <1>5, <1>6, <1>7 DEF VersionStates

LEMMA MessageDoneCarried ==
    ASSUME NEW a, NEW b, Beside(a, b), Kept(a.p, b.p),
           a.p.state \in BodyStates \cup {"headers_almost_done"}, a.p.upgrade <=> b.p.upgrade
    PROVE  Carried(MessageDone(a), MessageDone(b))
<1> DEFINE to(p) == [p EXCEPT !.state = NewMessage(p)]
           done(x) == Notify(With(x, to(x.p)), "message_complete")
           Is(x) == MessageDone(x) = IF x.p.upgrade THEN [done(x) EXCEPT !.stop = TRUE] ELSE done(x)
<1>1. Is(a) /\ Is(b)
  BY DEF MessageDone, Goto, With
<1>2. Kept(to(a.p), to(b.p))
  <2>1. NewMessage(a.p) = NewMessage(b.p) /\ NewMessage(a.p) \in {"start_req", "dead"}
    BY UrlStatesAre DEF Kept, LineStates, BodyStates, NewMessage, ShouldKeepAlive
  <2>2. QED BY <2>1, UrlStatesAre DEF Kept, ParserFields, LineStates, ValueStates, BodyStates
<1> HIDE DEF to
<1>3. Beside(done(a), done(b)) /\ done(a).p = to(a.p) /\ done(b).p = to(b.p)
  BY WithBeside, NotifyBeside
<1> HIDE DEF done
<1>4. CASE a.p.upgrade
  <2> DEFINE f == [done(a) EXCEPT !.stop = TRUE]
             g == [done(b) EXCEPT !.stop = TRUE]
  <2>1. Beside(f, g) /\ f.p = to(a.p) /\ g.p = to(b.p)
    BY <1>3 DEF Beside, RunFields
  <2>2. MessageDone(a) = f /\ MessageDone(b) = g
    BY <1>1, <1>4
  <2> HIDE DEF f, g
  <2>3. QED BY <1>2, <2>1, <2>2 DEF Carried
<1>5. CASE ~a.p.upgrade
  BY <1>1, <1>2, <1>3, <1>5 DEF Carried
<1>6. QED BY <1>4, <1>5

LEMMA HeadersDoneCarried ==
    ASSUME NEW a, NEW b, Beside(a, b), Kept(a.p, b.p), NEW c, a.p.state = "headers_done"
    PROVE  Carried(HeadersDone(a, c), HeadersDone(b, c))
<1> DEFINE chunked == "chunked" \in a.p.flags
           hasBody == chunked \/ a.p.length > 0
           next == IF chunked THEN "chunk_size_start" ELSE "body_identity"
           to(p) == [p EXCEPT !.state = next]
           Is(x) == HeadersDone(x, c) = IF c # "\n" THEN Fail(x)
                                        ELSE IF ~hasBody THEN MessageDone(x) ELSE With(x, to(x.p))
<1>1. a.p.flags = b.p.flags /\ a.p.length = b.p.length /\ (a.p.upgrade <=> b.p.upgrade)
  BY UrlStatesAre DEF Kept, LineStates, BodyStates
<1>2. Is(a) /\ Is(b)
  BY <1>1 DEF HeadersDone, Goto, With
<1>3. Kept(to(a.p), to(b.p))
  BY UrlStatesAre DEF Kept, ParserFields, LineStates, ValueStates, BodyStates
<1> HIDE DEF to, hasBody
<1>4. Carried(With(a, to(a.p)), With(b, to(b.p)))
  BY <1>3, WithCarried
<1>5. Carried(MessageDone(a), MessageDone(b))
  BY <1>1, MessageDoneCarried DEF BodyStates
<1>6. Carried(Fail(a), Fail(b))
  BY FailCarried DEF Kept
<1>7. QED BY <1>2, <1>4, <1>5, <1>6

LEMMA HeadersAlmostDoneCarried ==
    ASSUME NEW a, NEW b, Beside(a, b), Kept(a.p, b.p), NEW c, a.p.state = "headers_almost_done"
    PROVE  Carried(HeadersAlmostDone(a, c), HeadersAlmostDone(b, c))
<1> DEFINE k == "headers_complete"
           up(p) == [p EXCEPT !.state = "headers_done",
                              !.upgrade = {"upgrade", "connection_upgrade"} \subseteq p.flags]
           Is(x) == HeadersAlmostDone(x, c) =
                        IF c # "\n" THEN Fail(x)
                        ELSE IF "trailing" \in a.p.flags THEN MessageDone(x)
                        ELSE IF {"chunked", "content_length"} \subseteq a.p.flags THEN Fail(x)
                        ELSE HeadersDone(Notify(With(x, up(x.p)), k), c)
<1>1. a.p.flags = b.p.flags /\ ("trailing" \in a.p.flags => (a.p.upgrade <=> b.p.upgrade))
  BY UrlStatesAre DEF Kept, LineStates, BodyStates
<1>2. Is(a) /\ Is(b)
  <2> DEFINE done(x) == [x EXCEPT !.p.state = "headers_done",
                                  !.p.upgrade = {"upgrade", "connection_upgrade"} \subseteq x.p.flags]
             Was(x) == HeadersAlmostDone(x, c) =
                           IF c # "\n" THEN Fail(x)
                           ELSE IF "trailing" \in x.p.flags THEN MessageDone(x)
                           ELSE IF {"chunked", "content_length"} \subseteq x.p.flags THEN Fail(x)
                           ELSE HeadersDone(Notify(done(x), k), c)
  <2>1. done(a) = With(a, up(a.p)) /\ done(b) = With(b, up(b.p))
    BY DEF With, Beside, Kept, RunFields, ParserFields
  <2>2. Was(a) /\ Was(b)
    BY Zenon DEF HeadersAlmostDone
  <2> HIDE DEF done, up
  <2>3. QED BY <1>1, <2>1, <2>2
<1>3. Kept(up(a.p), up(b.p)) /\ up(a.p).state = "headers_done"
  BY <1>1, UrlStatesAre DEF Kept, ParserFields, LineStates, ValueStates, BodyStates
<1> HIDE DEF up, k
<1> DEFINE d == Notify(With(a, up(a.p)), k)
           e == Notify(With(b, up(b.p)), k)
<1>4. Beside(d, e) /\ d.p = up(a.p) /\ e.p = up(b.p)
  BY WithBeside, NotifyBeside
<1>5. Carried(HeadersDone(d, c), HeadersDone(e, c))
  <2> HIDE DEF d, e
  <2>1. QED BY <1>3, <1>4, HeadersDoneCarried
<1>6. "trailing" \in a.p.flags => Carried(MessageDone(a), MessageDone(b))
  BY <1>1, MessageDoneCarried
<1>7. Carried(Fail(a), Fail(b))
  BY FailCarried DEF Kept
<1>8. QED BY <1>2, <1>5, <1>6, <1>7

LEMMA HeaderFieldStartCarried ==
    ASSUME NEW a, NEW b, Beside(a, b), Kept(a.p, b.p), NEW c, a.p.state = "header_field_start"
    PROVE  Carried(HeaderFieldStart(a, c), HeaderFieldStart(b, c))
<1> DEFINE to(p) == [p EXCEPT !.state = "headers_almost_done"]
           name(p) == [p EXCEPT !.state = "header_field", !.header = Move(NameMoves, "start", c, "general")]
           Is(x) == HeaderFieldStart(x, c) =
                        IF c = "\r" THEN With(x, to(x.p))
                        ELSE IF c = "\n" THEN HeadersAlmostDone(With(x, to(x.p)), c)
                        ELSE IF c \in Punctuation THEN Fail(x)
                        ELSE Mark(With(x, name(x.p)), "header_field", c)
<1>1. Is(a) /\ Is(b)
  <2> DEFINE named(x) == [x EXCEPT !.p.state = "header_field",
                                   !.p.header = Move(NameMoves, "start", c, "general")]
             Was(x) == HeaderFieldStart(x, c) =
                           CASE c = "\r" -> Goto(x, "headers_almost_done")
                             [] c = "\n" -> HeadersAlmostDone(Goto(x, "headers_almost_done"), c)
                             [] c \in Punctuation \ {"\r", "\n"} -> Fail(x)
                             [] OTHER -> Mark(named(x), "header_field", c)
  <2>1. named(a) = With(a, name(a.p)) /\ named(b) = With(b, name(b.p))
    BY DEF With, Beside, Kept, RunFields, ParserFields
  <2>2. Goto(a, "headers_almost_done") = With(a, to(a.p)) /\ Goto(b, "headers_almost_done") = With(b, to(b.p))
    BY GotoIs
  <2>3. Was(a) /\ Was(b)
    BY Zenon DEF HeaderFieldStart
  <2> HIDE DEF named, name, to
  <2>4. QED BY <2>1, <2>2, <2>3 DEF Punctuation
<1>2. Kept(to(a.p), to(b.p)) /\ to(a.p).state = "headers_almost_done" /\ Kept(name(a.p), name(b.p))
  BY UrlStatesAre DEF Kept, ParserFields, LineStates, ValueStates, BodyStates
<1> HIDE DEF to, name
<1>3. /\ Beside(With(a, to(a.p)), With(b, to(b.p))) /\ With(a, to(a.p)).p = to(a.p)
      /\ With(b, to(b.p)).p = to(b.p)
  BY WithBeside
<1>4. Carried(HeadersAlmostDone(With(a, to(a.p)), c), HeadersAlmostDone(With(b, to(b.p)), c))
  BY <1>2, <1>3, HeadersAlmostDoneCarried
<1>5. Carried(With(a, to(a.p)), With(b, to(b.p)))
  BY <1>2, WithCarried
<1>6. Carried(Mark(With(a, name(a.p)), "header_field", c), Mark(With(b, name(b.p)), "header_field", c))
  BY <1>2, WithBeside, MarkBeside DEF Carried
<1>7. Carried(Fail(a), Fail(b))
  BY FailCarried DEF Kept
<1>8. QED BY <1>1, <1>4, <1>5, <1>6, <1>7

LEMMA HeaderFieldCarried ==
    ASSUME NEW a, NEW b, Beside(a, b), Kept(a.p, b.p), NEW c, a.p.state = "header_field"
    PROVE  Carried(HeaderField(a, c), HeaderField(b, c))
<1> DEFINE to(p) == [p EXCEPT !.state = "header_value_discard_ws"]
           name(p) == [p EXCEPT !.header = Move(NameMoves, p.header, c, "general")]
           Is(x) == HeaderField(x, c) =
                        IF c = ":" THEN Emit(With(x, to(x.p)), "header_field")
                        ELSE IF c \in Punctuation THEN Fail(x) ELSE Take(With(x, name(x.p)), c)
<1>1. Is(a) /\ Is(b)
  BY DEF HeaderField, Goto, With, Punctuation
<1>2. Kept(to(a.p), to(b.p)) /\ Kept(name(a.p), name(b.p))
  BY UrlStatesAre DEF Kept, ParserFields, LineStates, ValueStates, BodyStates
<1> HIDE DEF to, name
<1>3. Carried(Emit(With(a, to(a.p)), "header_field"), Emit(With(b, to(b.p)), "header_field"))
  BY <1>2, WithBeside, EmitBeside DEF Carried
<1>4. Carried(Take(With(a, name(a.p)), c), Take(With(b, name(b.p)), c))
  BY <1>2, WithBeside, TakeBeside DEF Carried
<1>5. Carried(Fail(a), Fail(b))
  BY FailCarried DEF Kept
<1>6. QED BY <1>1, <1>3, <1>4, <1>5

LEMMA HeaderValueStartCarried ==
    ASSUME NEW a, NEW b, Beside(a, b), Kept(a.p, b.p), NEW c, a.p.state \in ValueStates
    PROVE  Carried(HeaderValueStart(a, c), HeaderValueStart(b, c))
<1> DEFINE h == a.p.header
           to(p) == [p EXCEPT !.state = "header_value"]
           d == Mark(With(a, to(a.p)), "header_value", c)
           e == Mark(With(b, to(b.p)), "header_value", c)
           up(p) == [p EXCEPT !.flags = @ \cup {"upgrade"}, !.header = "general"]
           len(p) == [p EXCEPT !.flags = @ \cup {"content_length"}, !.length = Digits[c]]
           tok(p, o) == [p EXCEPT !.header = Move(ValueStartMoves, h, c, o)]
           Is(x, y) == HeaderValueStart(x, c) =
                           CASE h = "upgrade" -> With(y, up(y.p))
                             [] h = "content_length" ->
                                    IF c \notin DOMAIN Digits \/ "content_length" \in x.p.flags THEN Fail(y)
                                    ELSE With(y, len(y.p))
                             [] h = "connection" -> With(y, tok(y.p, "token"))
                             [] h = "token_start" -> y
                             [] OTHER -> With(y, tok(y.p, "general"))
<1>1. b.p.header = h /\ a.p.flags = b.p.flags /\ DOMAIN a.p = ParserFields /\ DOMAIN b.p = ParserFields
  BY UrlStatesAre DEF Kept, LineStates, ValueStates
<1>2. /\ Beside(d, e) /\ d.p = to(a.p) /\ e.p = to(b.p)
      /\ Mark(Goto(a, "header_value"), "header_value", c) = d
      /\ Mark(Goto(b, "header_value"), "header_value", c) = e
  <2>1. Goto(a, "header_value") = With(a, to(a.p)) /\ Goto(b, "header_value") = With(b, to(b.p))
    BY GotoIs
  <2> HIDE DEF to
  <2>2. QED BY <2>1, WithBeside, MarkBeside
<1>3. Kept(to(a.p), to(b.p)) /\ to(a.p).state = "header_value" /\ to(a.p).header = h
  BY UrlStatesAre DEF Kept, ParserFields, LineStates, ValueStates, BodyStates
<1>4. DOMAIN d.p = ParserFields /\ DOMAIN e.p = ParserFields
  BY <1>2, <1>3 DEF Kept
<1> HIDE DEF d, e, to
<1>5. Is(a, d) /\ Is(b, e)
  <2> DEFINE upped(x) == [x EXCEPT !.p.flags = @ \cup {"upgrade"}, !.p.header = "general"]
             lenned(x) == [x EXCEPT !.p.flags = @ \cup {"content_length"}, !.p.length = Digits[c]]
             tokked(x, i, o) == [x EXCEPT !.p.header = Move(ValueStartMoves, i, c, o)]
             Was(x, y, i) == HeaderValueStart(x, c) =
                           CASE i = "upgrade" -> upped(y)
                             [] i = "content_length" ->
                                    IF c \notin DOMAIN Digits \/ "content_length" \in x.p.flags THEN Fail(y)
                                    ELSE lenned(y)
                             [] i = "connection" -> tokked(y, i, "token")
                             [] i = "token_start" -> y
                             [] OTHER -> tokked(y, i, "general")
  <2>1. /\ Was(a, Mark(Goto(a, "header_value"), "header_value", c), a.p.header)
        /\ Was(b, Mark(Goto(b, "header_value"), "header_value", c), b.p.header)
    BY Zenon DEF HeaderValueStart
  <2>2. Was(a, d, h) /\ Was(b, e, h)
    BY <1>1, <1>2, <2>1
  <2>3. /\ upped(d) = With(d, up(d.p)) /\ upped(e) = With(e, up(e.p))
        /\ lenned(d) = With(d, len(d.p)) /\ lenned(e) = With(e, len(e.p))
    BY <1>2, <1>4 DEF With, Beside, RunFields, ParserFields
  <2>4. \A o : tokked(d, h, o) = With(d, tok(d.p, o)) /\ tokked(e, h, o) = With(e, tok(e.p, o))
    BY <1>2, <1>4 DEF With, Beside, RunFields, ParserFields
  <2> HIDE DEF upped, lenned, tokked, up, len, tok
  <2>5. QED BY <2>2, <2>3, <2>4
<1>6. /\ Kept(up(d.p), up(e.p)) /\ Kept(len(d.p), len(e.p)) /\ Kept(d.p, e.p)
      /\ Kept(tok(d.p, "token"), tok(e.p, "token")) /\ Kept(tok(d.p, "general"), tok(e.p, "general"))
  <2>1. Kept(d.p, e.p) /\ d.p.state = "header_value"
    BY <1>2, <1>3
  <2> DEFINE t == Move(ValueStartMoves, h, c, "token")
             g == Move(ValueStartMoves, h, c, "general")
  <2> HIDE DEF t, g
  <2>2. /\ Kept([d.p EXCEPT !.header = t], [e.p EXCEPT !.header = t])
        /\ Kept([d.p EXCEPT !.header = g], [e.p EXCEPT !.header = g])
    BY <2>1, UrlStatesAre DEF Kept, ParserFields, LineStates, ValueStates, BodyStates
  <2>3. Kept(up(d.p), up(e.p)) /\ Kept(len(d.p), len(e.p))
    BY <2>1, UrlStatesAre DEF Kept, ParserFields, LineStates, ValueStates, BodyStates
  <2>4. QED BY <2>1, <2>2, <2>3 DEF t, g
<1> HIDE DEF up, len, tok
<1>7. Carried(Fail(d), Fail(e)) /\ Carried(d, e)
  BY <1>2, <1>4, <1>6, FailCarried DEF Carried
<1>8. /\ Carried(With(d, up(d.p)), With(e, up(e.p))) /\ Carried(With(d, len(d.p)), With(e, len(e.p)))
      /\ Carried(With(d, tok(d.p, "token")), With(e, tok(e.p, "token")))
      /\ Carried(With(d, tok(d.p, "general")), With(e, tok(e.p, "general")))
  BY <1>2, <1>6, WithCarried
<1>9. QED BY <1>1, <1>5, <1>7, <1>8

LEMMA DiscardWsCarried ==
    ASSUME NEW a, NEW b, Beside(a, b), Kept(a.p, b.p), NEW c, a.p.state = "header_value_discard_ws"
    PROVE  Carried(HeaderValueDiscardWs(a, c), HeaderValueDiscardWs(b, c))
<1> DEFINE almost(p) == [p EXCEPT !.state = "header_value_discard_ws_almost_done"]
           lws(p) == [p EXCEPT !.state = "header_value_discard_lws"]
           Is(x) == HeaderValueDiscardWs(x, c) =
                        IF c = " " THEN x ELSE IF c = "\r" THEN With(x, almost(x.p))
                        ELSE IF c = "\n" THEN With(x, lws(x.p)) ELSE HeaderValueStart(x, c)
<1>1. Is(a) /\ Is(b)
  BY DEF HeaderValueDiscardWs, Goto, With
<1>2. Kept(almost(a.p), almost(b.p)) /\ Kept(lws(a.p), lws(b.p))
  BY UrlStatesAre DEF Kept, ParserFields, LineStates, ValueStates, BodyStates
<1> HIDE DEF almost, lws
<1>3. Carried(With(a, almost(a.p)), With(b, almost(b.p))) /\ Carried(With(a, lws(a.p)), With(b, lws(b.p)))
  BY <1>2, WithCarried
<1>4. Carried(HeaderValueStart(a, c), HeaderValueStart(b, c)) /\ Carried(a, b)
  BY HeaderValueStartCarried DEF ValueStates, Carried
<1>5. QED BY <1>1, <1>3, <1>4

LEMMA FlagsAre == \A h : "trailing" \notin FlagOf(h)
  BY DEF FlagOf, Tokens

LEMMA DiscardLwsCarried ==
    ASSUME NEW a, NEW b, Beside(a, b), Kept(a.p, b.p), NEW c, a.p.state = "header_value_discard_lws"
    PROVE  Carried(HeaderValueDiscardLws(a, c), HeaderValueDiscardLws(b, c))
<1> DEFINE back(p) == [p EXCEPT !.state = "header_value_discard_ws"]
           to(p) == [p EXCEPT !.flags = @ \cup FlagOf(p.header), !.state = "header_field_start"]
           marked(x) == [x EXCEPT !.p.flags = @ \cup FlagOf(x.p.header), !.mark = "header_value",
                                  !.p.state = "header_field_start"]
           d == Emit(marked(a), "header_value")
           e == Emit(marked(b), "header_value")
<1>1. /\ HeaderValueDiscardLws(a, c) = IF c = " " THEN Goto(a, "header_value_discard_ws")
                                       ELSE HeaderFieldStart(d, c)
      /\ HeaderValueDiscardLws(b, c) = IF c = " " THEN Goto(b, "header_value_discard_ws")
                                       ELSE HeaderFieldStart(e, c)
  BY Zenon DEF HeaderValueDiscardLws
<1>2. Kept(back(a.p), back(b.p)) /\ Kept(to(a.p), to(b.p)) /\ to(a.p).state = "header_field_start"
  BY UrlStatesAre, FlagsAre DEF Kept, ParserFields, LineStates, ValueStates, BodyStates
<1>3. Carried(Goto(a, "header_value_discard_ws"), Goto(b, "header_value_discard_ws"))
  BY <1>2, GotoCarried
<1>4. Beside(marked(a), marked(b)) /\ marked(a).p = to(a.p) /\ marked(b).p = to(b.p)
  <2>1. ASSUME NEW x, DOMAIN x = RunFields, DOMAIN x.p = ParserFields
        PROVE  marked(x) = [With(x, to(x.p)) EXCEPT !.mark = "header_value"]
    <3> DEFINE g == x.p.flags \cup FlagOf(x.p.header)
    <3>1. marked(x) = [x EXCEPT !.p.flags = g, !.mark = "header_value", !.p.state = "header_field_start"]
      OBVIOUS
    <3>2. to(x.p) = [x.p EXCEPT !.flags = g, !.state = "header_field_start"]
      OBVIOUS
    <3> HIDE DEF g, marked, to
    <3>3. QED BY <2>1, <3>1, <3>2 DEF With, RunFields, ParserFields
  <2> HIDE DEF marked, to
  <2>2. /\ Beside(With(a, to(a.p)), With(b, to(b.p))) /\ With(a, to(a.p)).p = to(a.p)
        /\ With(b, to(b.p)).p = to(b.p)
    BY WithBeside
  <2>3. /\ marked(a) = [With(a, to(a.p)) EXCEPT !.mark = "header_value"]
        /\ marked(b) = [With(b, to(b.p)) EXCEPT !.mark = "header_value"]
    BY <2>1 DEF Beside, Kept
  <2>4. QED BY <2>2, <2>3 DEF Beside, RunFields
<1> HIDE DEF marked, to
<1>5. Beside(d, e) /\ d.p = to(a.p) /\ e.p = to(b.p)
  BY <1>4, EmitBeside
<1> HIDE DEF d, e
<1>6. Carried(HeaderFieldStart(d, c), HeaderFieldStart(e, c))
  BY <1>2, <1>5, HeaderFieldStartCarried
<1>7. QED BY <1>1, <1>3, <1>6

LEMMA HeaderValueLwsCarried ==
    ASSUME NEW a, NEW b, Beside(a, b), Kept(a.p, b.p), NEW c, a.p.state = "header_value_lws"
    PROVE  Carried(HeaderValueLws(a, c), HeaderValueLws(b, c))
<1> DEFINE to(p) == [p EXCEPT !.flags = @ \cup FlagOf(p.header), !.state = "header_field_start"]
           ended(x) == [x EXCEPT !.p.flags = @ \cup FlagOf(x.p.header), !.p.state = "header_field_start"]
<1>1. /\ HeaderValueLws(a, c) = IF c = " " THEN HeaderValueStart(a, c) ELSE HeaderFieldStart(ended(a), c)
      /\ HeaderValueLws(b, c) = IF c = " " THEN HeaderValueStart(b, c) ELSE HeaderFieldStart(ended(b), c)
  BY Zenon DEF HeaderValueLws
<1>2. Kept(to(a.p), to(b.p)) /\ to(a.p).state = "header_field_start"
  BY UrlStatesAre, FlagsAre DEF Kept, ParserFields, LineStates, ValueStates, BodyStates
<1>3. Beside(ended(a), ended(b)) /\ ended(a).p = to(a.p) /\ ended(b).p = to(b.p)
  <2>1. ASSUME NEW x, DOMAIN x = RunFields, DOMAIN x.p = ParserFields
        PROVE  ended(x) = With(x, to(x.p))
    <3> DEFINE g == x.p.flags \cup FlagOf(x.p.header)
    <3>1. ended(x) = [x EXCEPT !.p.flags = g, !.p.state = "header_field_start"]
      OBVIOUS
    <3>2. to(x.p) = [x.p EXCEPT !.flags = g, !.state = "header_field_start"]
      OBVIOUS
    <3> HIDE DEF g, ended, to
    <3>3. QED BY <2>1, <3>1, <3>2 DEF With, RunFields, ParserFields
  <2> HIDE DEF ended, to
  <2>2. QED BY <2>1, WithBeside DEF Beside, Kept
<1> HIDE DEF ended, to
<1>4. Carried(HeaderFieldStart(ended(a), c), HeaderFieldStart(ended(b), c))
  BY <1>2, <1>3, HeaderFieldStartCarried
<1>5. Carried(HeaderValueStart(a, c), HeaderValueStart(b, c))
  BY HeaderValueStartCarried DEF ValueStates
<1>6. QED BY <1>1, <1>4, <1>5

LEMMA HeaderValueCarried ==
    ASSUME NEW a, NEW b, Beside(a, b), Kept(a.p, b.p), NEW c, a.p.state = "header_value"
    PROVE  Carried(HeaderValue(a, c), HeaderValue(b, c))
<1> DEFINE h == a.p.header
           almost(p) == [p EXCEPT !.state = "header_almost_done"]
           lws(p) == [p EXCEPT !.state = "header_value_lws"]
           digit(p) == [p EXCEPT !.length = 10 * @ + Digits[c]]
           name(p, i) == [p EXCEPT !.header = i]
           listed(p) == [p EXCEPT !.flags = @ \cup FlagOf(h), !.header = "token_start"]
           d == Take(a, c)
           e == Take(b, c)
           Is(x, y) == HeaderValue(x, c) =
               CASE c = "\r" -> Emit(With(x, almost(x.p)), "header_value")
                 [] c = "\n" -> Emit(With(x, lws(x.p)), "header_value")
                 [] c \notin {"\r", "\n"} /\ h = "content_length" ->
                        IF c = " " THEN y
                        ELSE IF c \notin DOMAIN Digits THEN Fail(y) ELSE With(y, digit(y.p))
                 [] c \notin {"\r", "\n"} /\ h = "matching_chunked" ->
                        With(y, name(y.p, IF c = "nked" THEN "chunked" ELSE "general"))
                 [] c \notin {"\r", "\n"} /\ h = "chunked" ->
                        With(y, name(y.p, IF c = " " THEN "chunked" ELSE "general"))
                 [] c \notin {"\r", "\n"} /\ h \in Tokens /\ c = "," -> With(y, listed(y.p))
                 [] OTHER -> With(y, name(y.p, IF h = "general" THEN h
                                               ELSE Move(TokenMoves, h, c, "token")))
<1>1. b.p.header = h /\ DOMAIN a.p = ParserFields /\ DOMAIN b.p = ParserFields
  BY UrlStatesAre DEF Kept, LineStates, ValueStates
<1>2. Beside(d, e) /\ d.p = a.p /\ e.p = b.p
  BY TakeBeside
<1>3. Is(a, d) /\ Is(b, e)
  <2> DEFINE listing(y, i) == [y EXCEPT !.p.flags = @ \cup FlagOf(i), !.p.header = "token_start"]
             digits(y) == [y EXCEPT !.p.length = 10 * @ + Digits[c]]
             named(y, i) == [y EXCEPT !.p.header = i]
             Was(x, y, i) == HeaderValue(x, c) =
               CASE c = "\r" -> Emit(Goto(x, "header_almost_done"), "header_value")
                 [] c = "\n" -> Emit(Goto(x, "header_value_lws"), "header_value")
                 [] c \notin {"\r", "\n"} /\ i = "content_length" ->
                        IF c = " " THEN y
                        ELSE IF c \notin DOMAIN Digits THEN Fail(y) ELSE digits(y)
                 [] c \notin {"\r", "\n"} /\ i = "matching_chunked" ->
                        named(y, IF c = "nked" THEN "chunked" ELSE "general")
                 [] c \notin {"\r", "\n"} /\ i = "chunked" ->
                        named(y, IF c = " " THEN "chunked" ELSE "general")
                 [] c \notin {"\r", "\n"} /\ i \in Tokens /\ c = "," -> listing(y, i)
                 [] OTHER -> named(y, IF i = "general" THEN i ELSE Move(TokenMoves, i, c, "token"))
  <2>1. Was(a, Take(a, c), a.p.header) /\ Was(b, Take(b, c), b.p.header)
    BY Zenon DEF HeaderValue
  <2>2. Was(a, d, h) /\ Was(b, e, h)
    BY <1>1, <2>1
  <2>3. /\ Goto(a, "header_almost_done") = With(a, almost(a.p))
        /\ Goto(b, "header_almost_done") = With(b, almost(b.p))
        /\ Goto(a, "header_value_lws") = With(a, lws(a.p)) /\ Goto(b, "header_value_lws") = With(b, lws(b.p))
    BY GotoIs
  <2> HIDE DEF d, e
  <2>4. /\ digits(d) = With(d, digit(d.p)) /\ digits(e) = With(e, digit(e.p))
        /\ \A i : named(d, i) = With(d, name(d.p, i)) /\ named(e, i) = With(e, name(e.p, i))
    BY DEF With
  <2>5. listing(d, h) = With(d, listed(d.p)) /\ listing(e, h) = With(e, listed(e.p))
    BY <1>1, <1>2 DEF With, Beside, RunFields, ParserFields
  <2> HIDE DEF listing, digits, named, almost, lws, digit, name, listed, h
  <2>6. QED BY <2>2, <2>3, <2>4, <2>5
<1>4. /\ Kept(almost(a.p), almost(b.p)) /\ Kept(lws(a.p), lws(b.p)) /\ Kept(digit(a.p), digit(b.p))
      /\ Kept(listed(a.p), listed(b.p)) /\ \A i : Kept(name(a.p, i), name(b.p, i))
  BY FlagsAre, UrlStatesAre DEF Kept, ParserFields, LineStates, ValueStates, BodyStates
<1> HIDE DEF almost, lws, digit, name, listed, d, e
<1>5. /\ Carried(Emit(With(a, almost(a.p)), "header_value"), Emit(With(b, almost(b.p)), "header_value"))
      /\ Carried(Emit(With(a, lws(a.p)), "header_value"), Emit(With(b, lws(b.p)), "header_value"))
  BY <1>4, WithBeside, EmitBeside DEF Carried
<1>6. Carried(Fail(d), Fail(e)) /\ Carried(d, e)
  BY <1>1, <1>2, FailCarried DEF Carried
<1>7. /\ Carried(With(d, digit(d.p)), With(e, digit(e.p)))
      /\ Carried(With(d, listed(d.p)), With(e, listed(e.p)))
      /\ \A i : Carried(With(d, name(d.p, i)), With(e, name(e.p, i)))
  BY <1>2, <1>4, WithCarried
<1> HIDE DEF h
<1> DEFINE Comes(v, w) == HeaderValue(a, c) = v /\ HeaderValue(b, c) = w
<1>8. \/ Comes(Emit(With(a, almost(a.p)), "header_value"), Emit(With(b, almost(b.p)), "header_value"))
      \/ Comes(Emit(With(a, lws(a.p)), "header_value"), Emit(With(b, lws(b.p)), "header_value"))
      \/ Comes(d, e) \/ Comes(Fail(d), Fail(e))
      \/ Comes(With(d, digit(d.p)), With(e, digit(e.p))) \/ Comes(With(d, listed(d.p)), With(e, listed(e.p)))
      \/ \E i : Comes(With(d, name(d.p, i)), With(e, name(e.p, i)))
  <2>1. CASE c = "\r"
    BY <1>3, <2>1
  <2>2. CASE c = "\n"
    BY <1>3, <2>2
  <2>3. CASE c \notin {"\r", "\n"} /\ h = "content_length"
    BY <1>3, <2>3 DEF Tokens
  <2>4. CASE c \notin {"\r", "\n"} /\ h = "matching_chunked"
    BY <1>3, <2>4 DEF Tokens
  <2>5. CASE c \notin {"\r", "\n"} /\ h = "chunked"
    BY <1>3, <2>5 DEF Tokens
  <2>6. CASE c \notin {"\r", "\n"} /\ h \in Tokens /\ c = ","
    BY <1>3, <2>6 DEF Tokens
  <2>7. CASE /\ c \notin {"\r", "\n"} /\ h \notin {"content_length", "matching_chunked", "chunked"}
             /\ ~(h \in Tokens /\ c = ",")
    BY <1>3, <2>7
  <2>8. QED BY <2>1, <2>2, <2>3, <2>4, <2>5, <2>6, <2>7
<1>9. QED BY <1>5, <1>6, <1>7, <1>8

LEMMA BodyIdentityCarried ==
    ASSUME NEW a, NEW b, Beside(a, b), Kept(a.p, b.p), NEW c, a.p.state = "body_identity"
    PROVE  Carried(BodyIdentity(a, c), BodyIdentity(b, c))
<1> DEFINE down(p) == [p EXCEPT !.length = @ - 1]
           d == With(Mark(a, "body", c), down(a.p))
           e == With(Mark(b, "body", c), down(b.p))
           n == a.p.length - 1
<1>1. /\ Beside(Mark(a, "body", c), Mark(b, "body", c))
      /\ Mark(a, "body", c).p = a.p /\ Mark(b, "body", c).p = b.p
  BY MarkBeside
<1>2. /\ BodyIdentity(a, c) = IF d.p.length = 0 THEN MessageDone(Emit(d, "body")) ELSE d
      /\ BodyIdentity(b, c) = IF e.p.length = 0 THEN MessageDone(Emit(e, "body")) ELSE e
  <2> DEFINE less(x) == [x EXCEPT !.p.length = @ - 1]
  <2>1. less(Mark(a, "body", c)) = d /\ less(Mark(b, "body", c)) = e
    BY <1>1 DEF With
  <2>2. /\ BodyIdentity(a, c) = IF less(Mark(a, "body", c)).p.length = 0
                                THEN MessageDone(Emit(less(Mark(a, "body", c)), "body"))
                                ELSE less(Mark(a, "body", c))
        /\ BodyIdentity(b, c) = IF less(Mark(b, "body", c)).p.length = 0
                                THEN MessageDone(Emit(less(Mark(b, "body", c)), "body"))
                                ELSE less(Mark(b, "body", c))
    BY Zenon DEF BodyIdentity
  <2> HIDE DEF less, d, e
  <2>3. QED BY <2>1, <2>2
<1>3. /\ Kept(down(a.p), down(b.p)) /\ down(a.p).state = "body_identity"
      /\ down(a.p).length = down(b.p).length /\ (down(a.p).upgrade <=> down(b.p).upgrade)
  BY UrlStatesAre DEF Kept, ParserFields, LineStates, ValueStates, BodyStates
<1> HIDE DEF down
<1>4. Beside(d, e) /\ d.p = down(a.p) /\ e.p = down(b.p)
  BY <1>1, WithBeside
<1> HIDE DEF d, e
<1>5. Beside(Emit(d, "body"), Emit(e, "body")) /\ Emit(d, "body").p = d.p /\ Emit(e, "body").p = e.p
  BY <1>4, EmitBeside
<1>6. Carried(MessageDone(Emit(d, "body")), MessageDone(Emit(e, "body")))
  BY <1>3, <1>4, <1>5, MessageDoneCarried DEF BodyStates
<1>7. Carried(d, e)
  BY <1>3, <1>4 DEF Carried
<1>8. QED BY <1>2, <1>3, <1>4, <1>6, <1>7

LEMMA ChunkDataCarried ==
    ASSUME NEW a, NEW b, Beside(a, b), Kept(a.p, b.p), NEW c, a.p.state = "chunk_data"
    PROVE  Carried(ChunkData(a, c), ChunkData(b, c))
<1> DEFINE down(p) == [p EXCEPT !.length = @ - 1]
           ending(p) == [p EXCEPT !.state = "chunk_data_almost_done"]
           d == With(Mark(a, "body", c), down(a.p))
           e == With(Mark(b, "body", c), down(b.p))
<1>1. /\ Beside(Mark(a, "body", c), Mark(b, "body", c))
      /\ Mark(a, "body", c).p = a.p /\ Mark(b, "body", c).p = b.p
  BY MarkBeside
<1>2. /\ ChunkData(a, c) = IF d.p.length = 0 THEN Goto(d, "chunk_data_almost_done") ELSE d
      /\ ChunkData(b, c) = IF e.p.length = 0 THEN Goto(e, "chunk_data_almost_done") ELSE e
  <2> DEFINE less(x) == [x EXCEPT !.p.length = @ - 1]
  <2>1. less(Mark(a, "body", c)) = d /\ less(Mark(b, "body", c)) = e
    BY <1>1 DEF With
  <2>2. /\ ChunkData(a, c) = IF less(Mark(a, "body", c)).p.length = 0
                             THEN Goto(less(Mark(a, "body", c)), "chunk_data_almost_done")
                             ELSE less(Mark(a, "body", c))
        /\ ChunkData(b, c) = IF less(Mark(b, "body", c)).p.length = 0
                             THEN Goto(less(Mark(b, "body", c)), "chunk_data_almost_done")
                             ELSE less(Mark(b, "body", c))
    BY Zenon DEF ChunkData
  <2> HIDE DEF less, d, e
  <2>3. QED BY <2>1, <2>2
<1>3. /\ Kept(down(a.p), down(b.p)) /\ down(a.p).length = down(b.p).length
      /\ Kept(ending(down(a.p)), ending(down(b.p)))
  BY UrlStatesAre DEF Kept, ParserFields, LineStates, ValueStates, BodyStates
<1> HIDE DEF down
<1>4. Beside(d, e) /\ d.p = down(a.p) /\ e.p = down(b.p)
  BY <1>1, WithBeside
<1> HIDE DEF d, e
<1>5. Carried(Goto(d, "chunk_data_almost_done"), Goto(e, "chunk_data_almost_done"))
  BY <1>3, <1>4, GotoCarried
<1>6. Carried(d, e)
  BY <1>3, <1>4 DEF Carried
<1>7. QED BY <1>2, <1>3, <1>4, <1>5, <1>6

LEMMA ChunkSizeCarried ==
    ASSUME NEW a, NEW b, Beside(a, b), Kept(a.p, b.p), NEW c
    PROVE  /\ a.p.state = "chunk_size_start" => Carried(ChunkSizeStart(a, c), ChunkSizeStart(b, c))
           /\ a.p.state = "chunk_size" => Carried(ChunkSize(a, c), ChunkSize(b, c))
           /\ a.p.state = "chunk_size_almost_done" =>
                  Carried(ChunkSizeAlmostDone(a, c), ChunkSizeAlmostDone(b, c))
<1> DEFINE first(p) == [p EXCEPT !.length = Digits[c], !.state = "chunk_size"]
           next(p) == [p EXCEPT !.length = 16 * @ + Digits[c]]
           final(p) == [p EXCEPT !.flags = @ \cup {"trailing"}, !.state = "header_field_start"]
           to(p, s) == [p EXCEPT !.state = s]
<1>1. Carried(Fail(a), Fail(b)) /\ DOMAIN a.p = ParserFields /\ DOMAIN b.p = ParserFields
  BY FailCarried DEF Kept
<1>2. CASE a.p.state = "chunk_size_start"
  <2> DEFINE Is(x) == ChunkSizeStart(x, c) = IF c \in DOMAIN Digits THEN With(x, first(x.p)) ELSE Fail(x)
  <2>1. Is(a) /\ Is(b)
    BY <1>1 DEF ChunkSizeStart, With, Beside, RunFields, ParserFields
  <2>2. Kept(first(a.p), first(b.p))
    BY <1>2, UrlStatesAre DEF Kept, ParserFields, LineStates, ValueStates, BodyStates
  <2> HIDE DEF first
  <2>3. Carried(With(a, first(a.p)), With(b, first(b.p)))
    BY <2>2, WithCarried
  <2>4. QED BY <1>1, <1>2, <2>1, <2>3
<1>3. CASE a.p.state = "chunk_size"
  <2> DEFINE Is(x) == ChunkSize(x, c) = IF c = "\r" THEN Goto(x, "chunk_size_almost_done")
                                        ELSE IF c \in DOMAIN Digits THEN With(x, next(x.p))
                                        ELSE IF c = " " THEN Goto(x, "chunk_parameters") ELSE Fail(x)
  <2>1. Is(a) /\ Is(b)
    BY DEF ChunkSize, With, Digits
  <2>2. /\ Kept(next(a.p), next(b.p)) /\ Kept(to(a.p, "chunk_parameters"), to(b.p, "chunk_parameters"))
        /\ Kept(to(a.p, "chunk_size_almost_done"), to(b.p, "chunk_size_almost_done"))
    BY <1>3, UrlStatesAre DEF Kept, ParserFields, LineStates, ValueStates, BodyStates
  <2> HIDE DEF next
  <2>3. Carried(With(a, next(a.p)), With(b, next(b.p)))
    BY <2>2, WithCarried
  <2>4. /\ Carried(Goto(a, "chunk_parameters"), Goto(b, "chunk_parameters"))
        /\ Carried(Goto(a, "chunk_size_almost_done"), Goto(b, "chunk_size_almost_done"))
    BY <2>2, GotoCarried
  <2>5. QED BY <1>1, <1>3, <2>1, <2>3, <2>4
<1>4. CASE a.p.state = "chunk_size_almost_done"
  <2> DEFINE Is(x) == ChunkSizeAlmostDone(x, c) =
                          IF c # "\n" THEN Fail(x)
                          ELSE IF a.p.length = 0 THEN With(x, final(x.p)) ELSE Goto(x, "chunk_data")
  <2>1. a.p.length = b.p.length
    BY <1>4 DEF Kept
  <2>2. Is(a) /\ Is(b)
    BY <1>1, <2>1 DEF ChunkSizeAlmostDone, With, Beside, RunFields, ParserFields
  <2>3. Kept(final(a.p), final(b.p)) /\ Kept(to(a.p, "chunk_data"), to(b.p, "chunk_data"))
    BY <1>4, UrlStatesAre DEF Kept, ParserFields, LineStates, ValueStates, BodyStates
  <2> HIDE DEF final
  <2>4. Carried(With(a, final(a.p)), With(b, final(b.p))) /\ Carried(Goto(a, "chunk_data"), Goto(b, "chunk_data"))
    BY <2>3, WithCarried, GotoCarried
  <2>5. QED BY <1>1, <1>4, <2>2, <2>4
<1>5. QED BY <1>2, <1>3, <1>4

LEMMA ExpectCarried == ASSUME NEW a, NEW b, Beside(a, b), Kept(a.p, b.p), NEW c, NEW wanted, NEW s,
                              Kept([a.p EXCEPT !.state = s], [b.p EXCEPT !.state = s])
                       PROVE  Carried(Expect(a, c, wanted, s), Expect(b, c, wanted, s))
<1>1. Carried(Goto(a, s), Goto(b, s)) /\ Carried(Fail(a), Fail(b))
  BY GotoCarried, FailCarried DEF Kept
<1>2. QED BY <1>1 DEF Expect

LEMMA StepCarried == ASSUME NEW a, NEW b, Beside(a, b), Kept(a.p, b.p), NEW c
                     PROVE  Carried(Step(a, c), Step(b, c))
<1> DEFINE s == a.p.state
           Is(v, w) == v = Step(a, c) /\ w = Step(b, c)
           to(p, x) == [p EXCEPT !.state = x]
<1>1. b.p.state = s /\ "spaces_before_url" \notin UrlStates /\ Carried(Fail(a), Fail(b)) /\ Carried(a, b)
  BY UrlStatesAre, FailCarried DEF Kept, Carried
<1>2. CASE s \in UrlStates \cup {"spaces_before_url"}
  <2>1. Is(Url(a, c), Url(b, c))
    BY <1>1, <1>2, UrlStatesAre DEF Step
  <2>2. QED BY <1>2, <2>1, UrlCarried
<1>3. CASE s \in VersionStates
  <2>1. Is(Version(a, c), Version(b, c))
    BY <1>1, <1>3, UrlStatesAre DEF Step, VersionStates
  <2>2. QED BY <1>3, <2>1, VersionCarried
<1>4. CASE s = "start_req"
  <2>1. Is(StartReq(a, c), StartReq(b, c))
    BY <1>1, <1>4, UrlStatesAre DEF Step
  <2>2. QED BY <1>4, <2>1, StartReqCarried
<1>5. CASE s = "req_method"
  <2>1. Is(ReqMethod(a, c), ReqMethod(b, c))
    BY <1>1, <1>5, UrlStatesAre DEF Step
  <2>2. QED BY <1>5, <2>1, ReqMethodCarried
<1>6. CASE s = "header_field_start"
  <2>1. Is(HeaderFieldStart(a, c), HeaderFieldStart(b, c))
    BY <1>1, <1>6, UrlStatesAre DEF Step
  <2>2. QED BY <1>6, <2>1, HeaderFieldStartCarried
<1>7. CASE s = "header_field"
  <2>1. Is(HeaderField(a, c), HeaderField(b, c))
    BY <1>1, <1>7, UrlStatesAre DEF Step
  <2>2. QED BY <1>7, <2>1, HeaderFieldCarried
<1>8. CASE s = "header_value_discard_ws"
  <2>1. Is(HeaderValueDiscardWs(a, c), HeaderValueDiscardWs(b, c))
    BY <1>1, <1>8, UrlStatesAre DEF Step
  <2>2. QED BY <1>8, <2>1, DiscardWsCarried
<1>9. CASE s = "header_value_discard_lws"
  <2>1. Is(HeaderValueDiscardLws(a, c), HeaderValueDiscardLws(b, c))
    BY <1>1, <1>9, UrlStatesAre DEF Step
  <2>2. QED BY <1>9, <2>1, DiscardLwsCarried
<1>10. CASE s = "header_value"
  <2>1. Is(HeaderValue(a, c), HeaderValue(b, c))
    BY <1>1, <1>10, UrlStatesAre DEF Step
  <2>2. QED BY <1>10, <2>1, HeaderValueCarried
<1>11. CASE s = "header_value_lws"
  <2>1. Is(HeaderValueLws(a, c), HeaderValueLws(b, c))
    BY <1>1, <1>11, UrlStatesAre DEF Step
  <2>2. QED BY <1>11, <2>1, HeaderValueLwsCarried
<1>12. CASE s = "headers_almost_done"
  <2>1. Is(HeadersAlmostDone(a, c), HeadersAlmostDone(b, c))
    BY <1>1, <1>12, UrlStatesAre DEF Step
  <2>2. QED BY <1>12, <2>1, HeadersAlmostDoneCarried
<1>13. CASE s = "body_identity"
  <2>1. Is(BodyIdentity(a, c), BodyIdentity(b, c))
    BY <1>1, <1>13, UrlStatesAre DEF Step
  <2>2. QED BY <1>13, <2>1, BodyIdentityCarried
<1>14. CASE s = "chunk_data"
  <2>1. Is(ChunkData(a, c), ChunkData(b, c))
    BY <1>1, <1>14, UrlStatesAre DEF Step
  <2>2. QED BY <1>14, <2>1, ChunkDataCarried
<1>15. CASE s = "chunk_size_start"
  <2>1. Is(ChunkSizeStart(a, c), ChunkSizeStart(b, c))
    BY <1>1, <1>15, UrlStatesAre DEF Step
  <2>2. QED BY <1>15, <2>1, ChunkSizeCarried
<1>16. CASE s = "chunk_size"
  <2>1. Is(ChunkSize(a, c), ChunkSize(b, c))
    BY <1>1, <1>16, UrlStatesAre DEF Step
  <2>2. QED BY <1>16, <2>1, ChunkSizeCarried
<1>17. CASE s = "chunk_size_almost_done"
  <2>1. Is(ChunkSizeAlmostDone(a, c), ChunkSizeAlmostDone(b, c))
    BY <1>1, <1>17, UrlStatesAre DEF Step
  <2>2. QED BY <1>17, <2>1, ChunkSizeCarried
<1>18. CASE s = "line_almost_done"
  <2>1. Is(Expect(a, c, "\n", "header_field_start"), Expect(b, c, "\n", "header_field_start"))
    BY <1>1, <1>18, UrlStatesAre DEF Step
  <2>2. Kept(to(a.p, "header_field_start"), to(b.p, "header_field_start"))
    BY <1>18, UrlStatesAre DEF Kept, ParserFields, LineStates, ValueStates, BodyStates
  <2>3. QED BY <2>1, <2>2, ExpectCarried
<1>19. CASE s = "header_value_discard_ws_almost_done"
  <2>1. Is(Expect(a, c, "\n", "header_value_discard_lws"), Expect(b, c, "\n", "header_value_discard_lws"))
    BY <1>1, <1>19, UrlStatesAre DEF Step
  <2>2. Kept(to(a.p, "header_value_discard_lws"), to(b.p, "header_value_discard_lws"))
    BY <1>19, UrlStatesAre DEF Kept, ParserFields, LineStates, ValueStates, BodyStates
  <2>3. QED BY <2>1, <2>2, ExpectCarried
<1>20. CASE s = "header_almost_done"
  <2>1. Is(Expect(a, c, "\n", "header_value_lws"), Expect(b, c, "\n", "header_value_lws"))
    BY <1>1, <1>20, UrlStatesAre DEF Step
  <2>2. Kept(to(a.p, "header_value_lws"), to(b.p, "header_value_lws"))
    BY <1>20, UrlStatesAre DEF Kept, ParserFields, LineStates, ValueStates, BodyStates
  <2>3. QED BY <2>1, <2>2, ExpectCarried
<1>21. CASE s = "chunk_data_done"
  <2>1. Is(Expect(a, c, "\n", "chunk_size_start"), Expect(b, c, "\n", "chunk_size_start"))
    BY <1>1, <1>21, UrlStatesAre DEF Step
  <2>2. Kept(to(a.p, "chunk_size_start"), to(b.p, "chunk_size_start"))
    BY <1>21, UrlStatesAre DEF Kept, ParserFields, LineStates, ValueStates, BodyStates
  <2>3. QED BY <2>1, <2>2, ExpectCarried
<1>22. CASE s = "dead"
  <2>1. Is(a, b) \/ Is(Fail(a), Fail(b))
    BY <1>1, <1>22, UrlStatesAre DEF Step
  <2>2. QED BY <1>1, <2>1
<1>23. CASE s = "chunk_parameters"
  <2>1. Is(a, b) \/ Is(Goto(a, "chunk_size_almost_done"), Goto(b, "chunk_size_almost_done"))
    BY <1>1, <1>23, UrlStatesAre DEF Step
  <2>2. Kept(to(a.p, "chunk_size_almost_done"), to(b.p, "chunk_size_almost_done"))
    BY <1>23, UrlStatesAre DEF Kept, ParserFields, LineStates, ValueStates, BodyStates
  <2>3. QED BY <1>1, <2>1, <2>2, GotoCarried
<1>24. CASE s = "chunk_data_almost_done"
  <2> DEFINE d == With(a, to(a.p, "chunk_data_done"))
             e == With(b, to(b.p, "chunk_data_done"))
  <2>1. Is(Emit(d, "body"), Emit(e, "body")) \/ Is(Fail(a), Fail(b))
    <3>1. Goto(a, "chunk_data_done") = d /\ Goto(b, "chunk_data_done") = e
      BY GotoIs
    <3> HIDE DEF d, e
    <3>2. QED BY <1>1, <1>24, <3>1, UrlStatesAre DEF Step
  <2>2. Kept(to(a.p, "chunk_data_done"), to(b.p, "chunk_data_done"))
    BY <1>24, UrlStatesAre DEF Kept, ParserFields, LineStates, ValueStates, BodyStates
  <2>3. Beside(d, e) /\ Kept(d.p, e.p)
    BY <2>2, WithBeside
  <2> HIDE DEF d, e
  <2>4. Carried(Emit(d, "body"), Emit(e, "body"))
    BY <2>3, EmitBeside DEF Carried
  <2>5. QED BY <1>1, <2>1, <2>4
<1> DEFINE Others ==
          {"start_req", "req_method", "header_field_start", "header_field", "header_value_discard_ws",
           "header_value_discard_lws", "header_value", "header_value_lws", "headers_almost_done",
           "body_identity", "chunk_data", "chunk_size_start", "chunk_size", "chunk_size_almost_done",
           "line_almost_done", "header_value_discard_ws_almost_done", "header_almost_done",
           "chunk_data_done", "dead", "chunk_parameters", "chunk_data_almost_done"}
<1>25. CASE s \notin UrlStates \cup {"spaces_before_url"} /\ s \notin VersionStates /\ s \notin Others
  <2>1. Is(Fail(a), Fail(b))
    BY <1>1, <1>25 DEF Step, VersionStates
  <2>2. QED BY <1>1, <2>1
<1>26. QED
  <2> HIDE DEF Is
  <2>1. QED BY <1>2, <1>3, <1>4, <1>5, <1>6, <1>7, <1>8, <1>9, <1>10, <1>11,
              <1>12, <1>13, <1>14, <1>15, <1>16, <1>17, <1>18, <1>19, <1>20, <1>21, <1>22, <1>23, <1>24, <1>25

LEMMA EatCarried == ASSUME NEW a, NEW b, Carried(a, b), NEW c
                    PROVE  Carried(Eat(a, c), Eat(b, c))
<1>1. CASE Broken(a) /\ Broken(b)
  BY <1>1 DEF Broken, Carried, Eat, RunFields
<1>2. CASE Beside(a, b) /\ Kept(a.p, b.p) /\ a.stop
  BY <1>2 DEF Beside, Carried, Eat, RunFields
<1>3. CASE Beside(a, b) /\ Kept(a.p, b.p) /\ ~a.stop
  <2>1. Eat(a, c) = Step(a, c) /\ Eat(b, c) = Step(b, c)
    BY <1>3 DEF Beside, Eat
  <2>2. QED BY <1>3, <2>1, StepCarried
<1>4. QED BY <1>1, <1>2, <1>3 DEF Carried

LEMMA RunsCarried == ASSUME NEW a, NEW b, Carried(a, b), NEW S, NEW data \in Seq(S)
                     PROVE  Carried(Progress(a, data)[Len(data)], Progress(b, data)[Len(data)])
<1> DEFINE n == Len(data)
           f == Progress(a, data)
           g == Progress(b, data)
           Failing == {i \in 0 .. n : ~Carried(f[i], g[i])}
<1>1. n \in Nat
  OBVIOUS
<1>2. /\ f[0] = a /\ \A i \in 1 .. n : f[i] = Eat(f[i - 1], data[i])
      /\ g[0] = b /\ \A i \in 1 .. n : g[i] = Eat(g[i - 1], data[i])
  BY ProgressIs
<1> HIDE DEF f, g, n
<1>3. ASSUME Failing # {} PROVE FALSE
  <2>1. PICK i \in Failing : \A j \in Failing : i <= j
    <3>1. Failing \in SUBSET Nat
      BY <1>1
    <3> HIDE DEF Failing
    <3>2. QED BY <1>3, <3>1, Least
  <2>2. i # 0
    BY <1>2, <2>1
  <2>3. i \in 1 .. n /\ i - 1 \in 0 .. n
    BY <1>1, <2>1, <2>2
  <2>4. Carried(f[i - 1], g[i - 1])
    BY <2>1, <2>3
  <2>5. Carried(f[i], g[i])
    BY <1>2, <2>3, <2>4, EatCarried
  <2>6. QED BY <2>1, <2>5
<1>4. n \in 0 .. n
  BY <1>1
<1>5. QED BY <1>3, <1>4 DEF f, g, n

\* Between two messages, with nothing in hand.
Waiting(p) == DOMAIN p = ParserFields /\ p.state = "start_req" /\ ~p.error

\* It tells the same of a text as a new parser, and is left like it.
KeptReads(p, data) ==
    LET r == Execute(NewParser, data)
        q == Execute(p, data)
    IN (r.whole <=> q.whole) /\ (r.whole => r.calls = q.calls /\ Kept(r.p, q.p))

\* A parser that waits for the next request takes any text as a new parser does,
\* with the same callbacks in the same order, whatever it keeps of the request
\* before: http_parser_execute sets each of its fields before it reads it.
THEOREM WaitingReads == ASSUME NEW p, Waiting(p), NEW S, NEW data \in Seq(S)
                        PROVE  KeptReads(p, data)
<1>1. Kept(NewParser, p)
  BY UrlStatesAre DEF Waiting, Kept, NewParser, ParserFields, LineStates, ValueStates, BodyStates
<1>2. Beside(Begin(NewParser), Begin(p)) /\ Begin(NewParser).p = NewParser /\ Begin(p).p = p
  <2>1. Pending(NewParser) = Pending(p)
    BY <1>1 DEF Pending, Kept
  <2>2. (NewParser.error <=> p.error)
    BY <1>1 DEF Kept
  <2>3. QED BY <2>1, <2>2 DEF Begin, Beside, RunFields
<1>3. Carried(Begin(NewParser), Begin(p))
  BY <1>1, <1>2 DEF Carried
<1> DEFINE a == Progress(Begin(NewParser), data)[Len(data)]
           b == Progress(Begin(p), data)[Len(data)]
<1>4. Carried(a, b)
  BY <1>3, RunsCarried
<1> DEFINE r == Execute(NewParser, data)
           q == Execute(p, data)
<1>5. /\ r.p = End(a).p /\ r.calls = End(a).calls /\ r.whole = End(a).whole
      /\ q.p = End(b).p /\ q.calls = End(b).calls /\ q.whole = End(b).whole
  BY DEF Execute
<1> HIDE DEF a, b, r, q
<1>6. CASE Broken(a) /\ Broken(b)
  <2>1. ~r.whole /\ ~q.whole
    BY <1>5, <1>6 DEF Broken, End
  <2>2. QED BY <2>1 DEF KeptReads, r, q
<1>7. CASE Beside(a, b) /\ Kept(a.p, b.p)
  <2>1. (a.p.error <=> b.p.error) /\ a.mark = b.mark
    BY <1>7 DEF Beside, Kept
  <2>2. Beside(End(a), End(b)) /\ End(a).p = a.p /\ End(b).p = b.p
    BY <1>7, <2>1, EmitBeside DEF End
  <2>3. (r.whole <=> q.whole) /\ r.calls = q.calls /\ Kept(r.p, q.p)
    BY <1>5, <1>7, <2>2 DEF Beside
  <2>4. QED BY <2>3 DEF KeptReads, r, q
<1>8. QED BY <1>4, <1>6, <1>7 DEF Carried

-----------------------------------------------------------------------------
Fields == {"pc", "state", "open", "parser", "prev", "field", "value", "headers", "buffer", "bad"}

Shaped ==
    /\ DOMAIN conn = Connections
    /\ \A c \in Connections : DOMAIN conn[c] = Fields /\ conn[c].buffer \in Nat
    /\ made \in Nat /\ pool \in Seq(Nat)

\* A connection has a buffer while it reads, and has it alone; the others are
\* in the pool, each once.
Held == \A c \in Connections : conn[c].buffer # NoBuffer <=> conn[c].pc \in {"reading", "failed"}
OneHolder ==
    \A c, d \in Connections : conn[c].buffer = conn[d].buffer => conn[c].buffer = NoBuffer \/ c = d
PooledOnce == \A i, j \in DOMAIN pool : pool[i] = pool[j] => i = j
PooledFree == \A i \in DOMAIN pool : pool[i] # NoBuffer /\ \A c \in Connections : conn[c].buffer # pool[i]
Known ==
    /\ \A c \in Connections : conn[c].buffer <= made
    /\ \A i \in DOMAIN pool : pool[i] <= made
    /\ \A b \in 1 .. made : \/ \E c \in Connections : conn[c].buffer = b
                            \/ \E i \in DOMAIN pool : pool[i] = b

Accounted == Held /\ OneHolder /\ PooledOnce /\ PooledFree /\ Known

Buffers == Shaped /\ (~crashed => Accounted)

-----------------------------------------------------------------------------
\* The parser has no part in it.
LEMMA ParsedShape ==
    ASSUME NEW k, DOMAIN k = Fields, NEW data
    PROVE  DOMAIN ParseSome(k, data) = Fields /\ ParseSome(k, data).buffer = k.buffer
<1> DEFINE run == Execute(k.parser, data)
           f == Notified([k EXCEPT !.parser = run.p], run.calls)
           g == [k EXCEPT !.parser = f.parser, !.state = f.state, !.prev = f.prev, !.field = f.field,
                          !.value = f.value, !.headers = f.headers, !.bad = f.bad]
<1>1. ParseSome(k, data) = Judged(g, run.whole)
  BY DEF ParseSome, AfterCalls
<1> HIDE DEF f, run
<1>2. DOMAIN g = Fields /\ g.buffer = k.buffer
  BY DEF Fields
<1> HIDE DEF g
<1>3. QED BY <1>1, <1>2 DEF Judged, Fields

\* A connection that read has no buffer, if all went well.
LEMMA TransferredShape ==
    ASSUME NEW c \in Connections, NEW k, NEW n, Transferred(c, k, n),
           DOMAIN k = Fields, k.buffer \in Nat
    PROVE  \E b : /\ Become(c, b) /\ DOMAIN b = Fields /\ b.buffer \in Nat
                  /\ ~b.bad => b.buffer = NoBuffer /\ b.pc = "write"
<1> DEFINE p == ParseSome(k, Bytes(SubSeq(inbox[c], 1, n)))
           b == IF p.bad THEN p ELSE [ReleaseBuffer(p) EXCEPT !.pc = "write"]
<1>1. Become(c, b)
  BY DEF Transferred
<1>2. DOMAIN p = Fields /\ p.buffer = k.buffer
  BY ParsedShape
<1> HIDE DEF p
<1>3. /\ DOMAIN b = Fields /\ b.buffer \in Nat
      /\ ~p.bad => b.bad = p.bad /\ b.buffer = NoBuffer /\ b.pc = "write"
      /\ p.bad => b.bad = p.bad
  BY <1>2 DEF ReleaseBuffer, Fields, NoBuffer
<1> HIDE DEF b
<1>4. ~b.bad => b.buffer = NoBuffer /\ b.pc = "write"
  BY <1>3
<1>5. QED BY <1>1, <1>3, <1>4

-----------------------------------------------------------------------------
(* What may happen to a connection that becomes k.                         *)

LEMMA BecomeShape ==
    ASSUME Shaped, NEW c \in Connections, NEW k, DOMAIN k = Fields, k.buffer \in Nat,
           conn' = [conn EXCEPT ![c] = k], made' \in Nat, pool' \in Seq(Nat)
    PROVE  Shaped' /\ conn'[c] = k /\ \A d \in Connections \ {c} : conn'[d] = conn[d]
  BY DEF Shaped

\* It keeps what it has, or has nothing.
LEMMA KeepsBuffer ==
    ASSUME Shaped, Accounted, NEW c \in Connections, NEW k, DOMAIN k = Fields,
           k.buffer = conn[c].buffer, k.buffer # NoBuffer <=> k.pc \in {"reading", "failed"},
           conn' = [conn EXCEPT ![c] = k], UNCHANGED <<made, pool>>
    PROVE  Shaped' /\ Accounted'
<1>1. Shaped' /\ conn'[c] = k /\ \A d \in Connections \ {c} : conn'[d] = conn[d]
  BY BecomeShape DEF Shaped
<1>2. \A d \in Connections : conn'[d].buffer = conn[d].buffer
  BY <1>1
<1>3. Held'
  BY <1>1 DEF Accounted, Held
<1>4. OneHolder' /\ PooledOnce' /\ PooledFree' /\ Known'
  BY <1>2 DEF Accounted, OneHolder, PooledOnce, PooledFree, Known
<1>5. QED BY <1>1, <1>3, <1>4 DEF Accounted

\* Its buffer goes to the pool, which held it never.
LEMMA GivesBuffer ==
    ASSUME Shaped, Accounted, NEW c \in Connections, NEW k, DOMAIN k = Fields,
           conn[c].buffer # NoBuffer, k.buffer = NoBuffer, k.pc \notin {"reading", "failed"},
           conn' = [conn EXCEPT ![c] = k],
           pool' = Append(pool, conn[c].buffer), UNCHANGED made
    PROVE  Shaped' /\ Accounted'
<1> DEFINE b == conn[c].buffer
<1>1. b \in Nat /\ pool \in Seq(Nat) /\ made \in Nat
  BY DEF Shaped
<1>2. pool' \in Seq(Nat) /\ k.buffer \in Nat
  BY <1>1 DEF NoBuffer
<1>3. Shaped' /\ conn'[c] = k /\ \A d \in Connections \ {c} : conn'[d] = conn[d]
  BY <1>1, <1>2, BecomeShape
<1>4. /\ \A i \in DOMAIN pool : i \in DOMAIN pool' /\ pool'[i] = pool[i]
      /\ Len(pool) + 1 \in DOMAIN pool' /\ pool'[Len(pool) + 1] = b
      /\ \A i \in DOMAIN pool' : i \in DOMAIN pool \/ i = Len(pool) + 1
  BY <1>1
<1> HIDE DEF b
<1>5. /\ conn'[c].buffer = NoBuffer
      /\ \A d \in Connections \ {c} : conn'[d].buffer = conn[d].buffer /\ conn[d].buffer # b
  BY <1>3 DEF Accounted, OneHolder, b
<1>6. Held'
  BY <1>3 DEF Accounted, Held
<1>7. OneHolder'
  BY <1>5 DEF Accounted, OneHolder
<1>8. \A i \in DOMAIN pool : pool[i] # b
  BY DEF Accounted, PooledFree, b
<1>9. PooledOnce'
  BY <1>4, <1>8 DEF Accounted, PooledOnce
<1>10. PooledFree'
  BY <1>4, <1>5 DEF Accounted, PooledFree, b
<1>11. Known'
  <2>1. b <= made /\ made' = made
    BY DEF Accounted, Known, b
  <2>2. \A d \in Connections : conn'[d].buffer <= made
    BY <1>1, <1>5 DEF Accounted, Known, NoBuffer
  <2>3. \A i \in DOMAIN pool' : pool'[i] <= made
    BY <1>4, <2>1 DEF Accounted, Known
  <2>4. ASSUME NEW x \in 1 .. made
        PROVE  (\E d \in Connections : conn'[d].buffer = x) \/ \E i \in DOMAIN pool' : pool'[i] = x
    <3>1. CASE x = b
      BY <1>4, <3>1
    <3>2. CASE \E d \in Connections : conn[d].buffer = x /\ x # b
      <4>1. PICK d \in Connections : conn[d].buffer = x /\ x # b
        BY <3>2
      <4>2. d # c
        BY <4>1 DEF b
      <4>3. QED BY <1>5, <4>1, <4>2
    <3>3. CASE \E i \in DOMAIN pool : pool[i] = x
      BY <1>4, <3>3
    <3>4. QED BY <3>1, <3>2, <3>3 DEF Accounted, Known
  <2>5. QED BY <2>1, <2>2, <2>3, <2>4 DEF Known
<1>12. QED BY <1>3, <1>6, <1>7, <1>9, <1>10, <1>11 DEF Accounted

\* It takes a buffer: the last of the pool, or a new one.
LEMMA TakesPooled ==
    ASSUME Shaped, Accounted, NEW c \in Connections, NEW k, DOMAIN k = Fields,
           conn[c].buffer = NoBuffer, pool # << >>, k.buffer = Last(pool),
           k.pc \in {"reading", "failed"}, conn' = [conn EXCEPT ![c] = k],
           pool' = Front(pool), UNCHANGED made
    PROVE  Shaped' /\ Accounted'
<1> DEFINE b == k.buffer
<1>1. pool \in Seq(Nat) /\ Len(pool) \in Nat \ {0} /\ made \in Nat
  BY DEF Shaped
<1>2. b = pool[Len(pool)] /\ Len(pool) \in DOMAIN pool /\ b \in Nat
  BY <1>1 DEF Last
<1>3. /\ pool' \in Seq(Nat)
      /\ \A i \in DOMAIN pool' : i \in DOMAIN pool /\ i # Len(pool) /\ pool'[i] = pool[i]
      /\ \A i \in DOMAIN pool : i = Len(pool) \/ (i \in DOMAIN pool' /\ pool'[i] = pool[i])
  BY SMTT(30), <1>1 DEF Front
<1>4. Shaped' /\ conn'[c] = k /\ \A d \in Connections \ {c} : conn'[d] = conn[d]
  BY <1>1, <1>2, <1>3, BecomeShape
<1> HIDE DEF b
<1>5. b # NoBuffer /\ \A d \in Connections : conn[d].buffer # b
  BY <1>2 DEF Accounted, PooledFree
<1>6. conn'[c].buffer = b /\ \A d \in Connections \ {c} : conn'[d].buffer = conn[d].buffer
  BY <1>4 DEF b
<1>7. Held'
  BY <1>4, <1>5 DEF Accounted, Held, b
<1>8. OneHolder'
  BY <1>5, <1>6 DEF Accounted, OneHolder
<1>9. \A i \in DOMAIN pool' : pool'[i] # b
  BY <1>2, <1>3 DEF Accounted, PooledOnce
<1>10. PooledOnce' /\ PooledFree'
  BY <1>3, <1>6, <1>9 DEF Accounted, PooledOnce, PooledFree
<1>11. Known'
  <2>1. made' = made /\ b <= made
    BY <1>2 DEF Accounted, Known
  <2>2. /\ \A d \in Connections : conn'[d].buffer <= made
        /\ \A i \in DOMAIN pool' : pool'[i] <= made
    BY <1>3, <1>6, <2>1 DEF Accounted, Known
  <2>3. ASSUME NEW x \in 1 .. made
        PROVE  (\E d \in Connections : conn'[d].buffer = x) \/ \E i \in DOMAIN pool' : pool'[i] = x
    <3>1. CASE \E d \in Connections : conn[d].buffer = x
      <4>1. PICK d \in Connections : conn[d].buffer = x
        BY <3>1
      <4>2. d # c
        BY <4>1 DEF NoBuffer
      <4>3. QED BY <1>6, <4>1, <4>2
    <3>2. CASE \E i \in DOMAIN pool : pool[i] = x
      BY <1>2, <1>3, <1>6, <3>2
    <3>3. QED BY <3>1, <3>2 DEF Accounted, Known
  <2>4. QED BY <2>1, <2>2, <2>3 DEF Known
<1>12. QED BY <1>4, <1>7, <1>8, <1>10, <1>11 DEF Accounted

LEMMA MakesBuffer ==
    ASSUME Shaped, Accounted, NEW c \in Connections, NEW k, DOMAIN k = Fields,
           conn[c].buffer = NoBuffer, pool = << >>, made' = made + 1,
           conn' = [conn EXCEPT ![c] = k],
           \/ k.buffer = made + 1 /\ k.pc \in {"reading", "failed"} /\ pool' = << >>
           \/ k.buffer = NoBuffer /\ k.pc \notin {"reading", "failed"} /\ pool' = <<made + 1>>
    PROVE  Shaped' /\ Accounted'
<1>1. made \in Nat /\ made' \in Nat /\ pool' \in Seq(Nat) /\ k.buffer \in Nat
  <2>1. made \in Nat /\ made + 1 \in Nat
    BY DEF Shaped
  <2>2. << >> \in Seq(Nat) /\ <<made + 1>> \in Seq(Nat)
    BY <2>1
  <2>3. pool' = << >> \/ pool' = <<made + 1>>
    OBVIOUS
  <2>4. pool' \in Seq(Nat)
    BY <2>2, <2>3, Zenon
  <2>5. k.buffer \in Nat
    BY <2>1 DEF NoBuffer
  <2>6. QED BY <2>1, <2>4, <2>5
<1>2. Shaped' /\ conn'[c] = k /\ \A d \in Connections \ {c} : conn'[d] = conn[d]
  BY <1>1, BecomeShape
<1>3. \A d \in Connections : conn[d].buffer \in Nat /\ conn[d].buffer <= made
  BY DEF Shaped, Accounted, Known
<1>4. Held'
  BY <1>1, <1>2 DEF Accounted, Held, NoBuffer
<1>5. OneHolder'
  BY <1>1, <1>2, <1>3 DEF Accounted, OneHolder, NoBuffer
<1>6. PooledOnce'
  BY <1>1 DEF PooledOnce
<1>7. PooledFree'
  BY <1>1, <1>2, <1>3 DEF PooledFree, NoBuffer
<1>8. Known'
  <2>1. /\ \A d \in Connections : conn'[d].buffer <= made'
        /\ \A i \in DOMAIN pool' : pool'[i] <= made'
    BY <1>1, <1>2, <1>3 DEF NoBuffer
  <2>2. ASSUME NEW x \in 1 .. made'
        PROVE  (\E d \in Connections : conn'[d].buffer = x) \/ \E i \in DOMAIN pool' : pool'[i] = x
    <3>1. CASE x = made + 1
      <4>1. CASE k.buffer = x
        BY <1>2, <4>1
      <4>2. CASE pool' = <<x>>
        <5>1. 1 \in DOMAIN pool' /\ pool'[1] = x
          BY <4>2
        <5>2. QED BY <5>1
      <4>3. QED BY <3>1, <4>1, <4>2
    <3>2. CASE x # made + 1
      <4>1. x \in 1 .. made /\ x # NoBuffer
        BY <1>1, <3>2 DEF NoBuffer
      <4>2. PICK d \in Connections : conn[d].buffer = x
        BY <4>1 DEF Accounted, Known
      <4>3. d # c
        BY <4>1, <4>2
      <4>4. QED BY <1>2, <4>2, <4>3
    <3>3. QED BY <3>1, <3>2
  <2>3. QED BY <2>1, <2>2 DEF Known
<1>9. QED BY <1>2, <1>4, <1>5, <1>6, <1>7, <1>8 DEF Accounted

-----------------------------------------------------------------------------
(* The actions.                                                            *)

LEMMA ReadRequestKept == ASSUME Buffers, NEW c \in Connections, ReadRequest(c)
                         PROVE  Buffers'
<1> DEFINE k == ResetHeaders(Require(conn[c], conn[c].state = "INITIAL"))
           reused == k.buffer = NoBuffer /\ pool # << >>
           new == k.buffer = NoBuffer /\ pool = << >>
           b == IF reused THEN [k EXCEPT !.buffer = Last(pool)]
                ELSE IF new THEN [k EXCEPT !.buffer = made + 1] ELSE k
           left == IF reused THEN Front(pool) ELSE pool
           e == [b EXCEPT !.pc = IF client[c].gone THEN "failed" ELSE "reading"]
<1>1. /\ ~crashed /\ conn[c].pc = "read"
      /\ made' = IF new THEN made + 1 ELSE made
      /\ \/ /\ \E n \in 1 .. Len(inbox[c]) : Transferred(c, b, n)
            /\ pool' = IF crashed' THEN left ELSE Append(left, b.buffer)
         \/ /\ Become(c, e) /\ pool' = left
  BY DEF ReadRequest
<1>2. Shaped /\ Accounted
  BY <1>1 DEF Buffers
<1>3. DOMAIN k = Fields /\ k.buffer = conn[c].buffer /\ k.pc = "read"
  BY <1>1, <1>2 DEF ResetHeaders, Require, Shaped, Fields
<1> HIDE DEF k
<1>4. /\ conn[c].buffer = NoBuffer /\ made \in Nat /\ pool \in Seq(Nat)
  BY <1>1, <1>2 DEF Accounted, Held, Shaped
<1>5. /\ DOMAIN b = Fields /\ b.buffer = (IF new THEN made + 1 ELSE Last(pool))
      /\ reused <=> ~new
  BY <1>3, <1>4 DEF Fields
<1>6. /\ pool # << >> => /\ Last(pool) \in Nat /\ Front(pool) \in Seq(Nat)
                         /\ Append(Front(pool), Last(pool)) = pool
  BY <1>4 DEF Last, Front
<1>7. left \in Seq(Nat) /\ b.buffer \in Nat
  BY <1>3, <1>4, <1>5, <1>6
<1>8. (left = IF new THEN pool ELSE Front(pool)) /\ (new <=> pool = << >>)
  BY <1>3, <1>4
<1> HIDE DEF b, left, reused, new
<1>9. CASE Become(c, e) /\ pool' = left
  <2>1. DOMAIN e = Fields /\ e.buffer = b.buffer /\ e.pc \in {"reading", "failed"}
    BY <1>5 DEF Fields
  <2> HIDE DEF e
  <2>2. conn' = [conn EXCEPT ![c] = e]
    BY <1>9 DEF Become
  <2>3. CASE new
    BY <1>1, <1>2, <1>4, <1>5, <1>8, <1>9, <2>1, <2>2, <2>3, MakesBuffer DEF Buffers
  <2>4. CASE ~new
    <3>1. made' = made /\ pool # << >> /\ e.buffer = Last(pool) /\ pool' = Front(pool)
      BY <1>1, <1>5, <1>8, <1>9, <2>1, <2>4
    <3>2. QED BY <1>2, <1>4, <2>1, <2>2, <3>1, TakesPooled DEF Buffers
  <2>5. QED BY <2>3, <2>4
<1>10. CASE /\ \E n \in 1 .. Len(inbox[c]) : Transferred(c, b, n)
            /\ pool' = IF crashed' THEN left ELSE Append(left, b.buffer)
  <2>1. PICK n \in 1 .. Len(inbox[c]) : Transferred(c, b, n)
    BY <1>10
  <2>2. PICK d : /\ Become(c, d) /\ DOMAIN d = Fields /\ d.buffer \in Nat
                 /\ ~d.bad => d.buffer = NoBuffer /\ d.pc = "write"
    BY <1>5, <1>7, <2>1, TransferredShape
  <2>3. conn' = [conn EXCEPT ![c] = d] /\ (crashed' <=> d.bad)
    BY <2>2 DEF Become
  <2>4. CASE crashed'
    <3>1. made' \in Nat /\ pool' \in Seq(Nat)
      BY <1>1, <1>4, <1>7, <1>10, <2>4
    <3>2. Shaped'
      BY <1>2, <2>2, <2>3, <3>1, BecomeShape
    <3>3. QED BY <2>4, <3>2 DEF Buffers
  <2>5. CASE ~crashed'
    <3>1. pool' = Append(left, b.buffer) /\ d.buffer = NoBuffer /\ d.pc = "write"
      BY <1>10, <2>2, <2>3, <2>5
    <3>2. CASE new
      <4>1. pool = << >> /\ made' = made + 1 /\ pool' = <<made + 1>>
        BY <1>1, <1>5, <1>8, <3>1, <3>2
      <4>2. QED BY <1>2, <1>4, <2>2, <2>3, <3>1, <4>1, MakesBuffer DEF Buffers
    <3>3. CASE ~new
      <4>1. pool' = pool /\ made' = made
        BY <1>1, <1>5, <1>6, <1>8, <3>1, <3>3
      <4>2. QED BY <1>2, <1>4, <2>2, <2>3, <3>1, <4>1, KeepsBuffer DEF Buffers
    <3>4. QED BY <3>2, <3>3
  <2>6. QED BY <2>4, <2>5
<1>11. QED BY <1>1, <1>9, <1>10

LEMMA ReadCompletedKept == ASSUME Buffers, NEW c \in Connections, ReadCompleted(c)
                           PROVE  Buffers'
<1> DEFINE e == [conn[c] EXCEPT !.pc = "failed"]
<1>1. /\ ~crashed /\ conn[c].pc = "reading" /\ made' = made
      /\ \/ /\ \E n \in 1 .. Len(inbox[c]) : Transferred(c, conn[c], n)
            /\ pool' = IF crashed' THEN pool ELSE Append(pool, conn[c].buffer)
         \/ Become(c, e) /\ pool' = pool
  BY DEF ReadCompleted
<1>2. Shaped /\ Accounted
  BY <1>1 DEF Buffers
<1>3. /\ DOMAIN conn[c] = Fields /\ conn[c].buffer # NoBuffer /\ conn[c].buffer \in Nat
      /\ pool \in Seq(Nat) /\ made \in Nat
  BY <1>1, <1>2 DEF Accounted, Held, Shaped
<1>4. CASE Become(c, e) /\ pool' = pool
  <2>1. DOMAIN e = Fields /\ e.buffer = conn[c].buffer /\ e.pc = "failed"
    BY <1>3 DEF Fields
  <2> HIDE DEF e
  <2>2. conn' = [conn EXCEPT ![c] = e]
    BY <1>4 DEF Become
  <2>3. QED BY <1>1, <1>2, <1>3, <1>4, <2>1, <2>2, KeepsBuffer DEF Buffers
<1>5. CASE /\ \E n \in 1 .. Len(inbox[c]) : Transferred(c, conn[c], n)
           /\ pool' = IF crashed' THEN pool ELSE Append(pool, conn[c].buffer)
  <2>1. PICK n \in 1 .. Len(inbox[c]) : Transferred(c, conn[c], n)
    BY <1>5
  <2>2. PICK d : /\ Become(c, d) /\ DOMAIN d = Fields /\ d.buffer \in Nat
                 /\ ~d.bad => d.buffer = NoBuffer /\ d.pc = "write"
    BY <1>3, <2>1, TransferredShape
  <2>3. conn' = [conn EXCEPT ![c] = d] /\ (crashed' <=> d.bad)
    BY <2>2 DEF Become
  <2>4. CASE crashed'
    <3>1. Shaped'
      BY <1>1, <1>2, <1>3, <1>5, <2>2, <2>3, <2>4, BecomeShape
    <3>2. QED BY <2>4, <3>1 DEF Buffers
  <2>5. CASE ~crashed'
    <3>1. d.buffer = NoBuffer /\ d.pc = "write" /\ pool' = Append(pool, conn[c].buffer)
      BY <1>5, <2>2, <2>3, <2>5
    <3>2. QED BY <1>1, <1>2, <1>3, <2>2, <2>3, <3>1, GivesBuffer DEF Buffers
  <2>6. QED BY <2>4, <2>5
<1>6. QED BY <1>1, <1>4, <1>5

LEMMA DestroyKept == ASSUME Buffers, NEW c \in Connections, Destroy(c)
                     PROVE  Buffers'
<1> DEFINE e == [ReleaseBuffer(conn[c]) EXCEPT !.pc = "swept", !.open = FALSE]
<1>1. /\ ~crashed /\ conn' = [conn EXCEPT ![c] = e]
      /\ pool' = IF conn[c].buffer = NoBuffer THEN pool ELSE Append(pool, conn[c].buffer)
      /\ UNCHANGED <<crashed, made>>
  BY DEF Destroy
<1>2. Shaped /\ Accounted
  BY <1>1 DEF Buffers
<1>3. DOMAIN conn[c] = Fields
  BY <1>2 DEF Shaped
<1>4. DOMAIN e = Fields /\ e.buffer = NoBuffer /\ e.pc = "swept"
  BY <1>3 DEF Fields, ReleaseBuffer
<1> HIDE DEF e
<1>5. CASE conn[c].buffer = NoBuffer
  BY <1>1, <1>2, <1>4, <1>5, KeepsBuffer DEF Buffers
<1>6. CASE conn[c].buffer # NoBuffer
  BY <1>1, <1>2, <1>4, <1>6, GivesBuffer DEF Buffers
<1>7. QED BY <1>5, <1>6

\* The steps in between keep the buffer that the connection has, or has not.
LEMMA FiberStepKept == ASSUME Buffers, NEW c \in Connections, FiberStep(c)
                       PROVE  Buffers'
<1>1. /\ ~crashed /\ conn[c].pc \in {"write", "finish", "keepalive", "close"}
      /\ UNCHANGED <<made, pool>>
  BY DEF FiberStep, Write, ResponseFinish, KeepAlive, Close
<1>2. Shaped /\ Accounted
  BY <1>1 DEF Buffers
<1>3. /\ DOMAIN conn[c] = Fields /\ c \in DOMAIN conn
      /\ conn[c].buffer = NoBuffer
  BY <1>1, <1>2 DEF Shaped, Accounted, Held
<1>4. \E k : /\ conn' = [conn EXCEPT ![c] = k] /\ DOMAIN k = Fields
             /\ k.buffer = conn[c].buffer /\ k.pc \in {"finish", "keepalive", "read", "close", "done"}
  <2>1. ASSUME NEW failed, Become(c, [conn[c] EXCEPT !.bad = failed, !.pc = "finish"])
        PROVE  \E k : /\ conn' = [conn EXCEPT ![c] = k] /\ DOMAIN k = Fields
                      /\ k.buffer = conn[c].buffer /\ k.pc = "finish"
    <3> DEFINE k == [conn[c] EXCEPT !.bad = failed, !.pc = "finish"]
    <3>1. DOMAIN k = Fields /\ k.buffer = conn[c].buffer /\ k.pc = "finish"
      BY <1>3 DEF Fields
    <3>2. conn' = [conn EXCEPT ![c] = k]
      BY <2>1 DEF Become
    <3>3. QED BY <3>1, <3>2
  <2>2. CASE Write(c)
    BY <2>1, <2>2 DEF Write
  <2>3. CASE ResponseFinish(c)
    <3> DEFINE k == [conn[c] EXCEPT !.pc = "keepalive", !.state = "INITIAL"]
    <3>1. DOMAIN k = Fields /\ k.buffer = conn[c].buffer /\ k.pc = "keepalive"
      BY <1>3 DEF Fields
    <3>2. conn' = [conn EXCEPT ![c] = k]
      BY <1>3, <2>3 DEF ResponseFinish
    <3>3. QED BY <3>1, <3>2
  <2>4. CASE KeepAlive(c)
    <3> DEFINE next == IF ShouldKeepAlive(conn[c].parser) /\ conn[c].open THEN "read" ELSE "close"
               k == [conn[c] EXCEPT !.pc = next]
    <3>1. DOMAIN k = Fields /\ k.buffer = conn[c].buffer /\ k.pc \in {"read", "close"}
      BY <1>3 DEF Fields
    <3>2. conn' = [conn EXCEPT ![c] = k]
      BY <1>3, <2>4 DEF KeepAlive
    <3>3. QED BY <3>1, <3>2
  <2>5. CASE Close(c)
    <3> DEFINE k == [conn[c] EXCEPT !.pc = "done", !.open = FALSE]
    <3>1. DOMAIN k = Fields /\ k.buffer = conn[c].buffer /\ k.pc = "done"
      BY <1>3 DEF Fields
    <3>2. conn' = [conn EXCEPT ![c] = k]
      BY <1>3, <2>5 DEF Close
    <3>3. QED BY <3>1, <3>2
  <2>6. QED BY <2>2, <2>3, <2>4, <2>5 DEF FiberStep
<1>5. PICK k : /\ conn' = [conn EXCEPT ![c] = k] /\ DOMAIN k = Fields
               /\ k.buffer = conn[c].buffer /\ k.pc \in {"finish", "keepalive", "read", "close", "done"}
  BY <1>4
<1>6. QED BY <1>1, <1>2, <1>3, <1>5, KeepsBuffer DEF Buffers

LEMMA AcceptKept == ASSUME Buffers, NEW f \in Acceptors, NEW c \in Connections,
                           conn[c].pc = "unborn", AcceptConnection(f, c)
                    PROVE  Buffers'
<1>1. /\ ~crashed /\ conn' = [conn EXCEPT ![c] = NewConnection] /\ UNCHANGED <<crashed, made, pool>>
  BY DEF AcceptConnection
<1>2. Shaped /\ Accounted
  BY <1>1 DEF Buffers
<1>3. conn[c].buffer = NoBuffer
  BY <1>2 DEF Accounted, Held
<1>4. DOMAIN NewConnection = Fields /\ NewConnection.buffer = NoBuffer /\ NewConnection.pc = "read"
  BY DEF NewConnection, Fields
<1>5. QED BY <1>1, <1>2, <1>3, <1>4, KeepsBuffer DEF Buffers

-----------------------------------------------------------------------------
\* No connection that waits to be accepted has a fiber.
Unborn == \A c \in backlog : c \in Connections => conn[c].pc = "unborn"

Inv == Buffers /\ Unborn

LEMMA InitInv == ServerInit => Inv
<1> SUFFICES ASSUME ServerInit PROVE Inv
  OBVIOUS
<1> DEFINE k == [NewConnection EXCEPT !.pc = "unborn"]
<1>1. DOMAIN k = Fields /\ k.buffer = NoBuffer /\ k.pc = "unborn"
  BY DEF NewConnection, Fields
<1>2. conn = [c \in Connections |-> k] /\ pool = << >> /\ made = 0 /\ backlog = Connections
  BY DEF ServerInit
<1> HIDE DEF k
<1>3. \A c \in Connections : conn[c] = k
  BY <1>2
<1>4. pool \in Seq(Nat) /\ \A i \in DOMAIN pool : FALSE
  BY <1>2
<1>5. Shaped
  BY <1>1, <1>2, <1>3, <1>4 DEF Shaped, NoBuffer
<1>6. Accounted
  BY <1>1, <1>2, <1>3, <1>4 DEF Accounted, Held, OneHolder, PooledOnce, PooledFree, Known, NoBuffer
<1>7. QED BY <1>1, <1>3, <1>5, <1>6 DEF Inv, Buffers, Unborn

LEMMA UnbornKept == ASSUME Inv, [ServerNext]_serverVars PROVE Unborn'
<1>1. DOMAIN conn = Connections
  BY DEF Inv, Buffers, Shaped
<1>2. ASSUME NEW c \in Connections, conn[c].pc # "unborn", UNCHANGED backlog,
             \E k : conn' = [conn EXCEPT ![c] = k]
      PROVE  Unborn'
  <2>1. PICK k : conn' = [conn EXCEPT ![c] = k]
    BY <1>2
  <2>2. \A d \in Connections : d = c \/ conn'[d] = conn[d]
    BY <1>1, <2>1
  <2>3. QED BY <1>2, <2>2 DEF Inv, Unborn
<1>3. ASSUME NEW f \in Acceptors, AcceptConnectionAsync(f) PROVE Unborn'
  BY <1>3 DEF AcceptConnectionAsync, Inv, Unborn
<1>4. ASSUME NEW f \in Acceptors, NEW c \in Connections, AcceptConnection(f, c) PROVE Unborn'
  BY <1>1, <1>4 DEF AcceptConnection, Inv, Unborn
<1>5. ASSUME NEW c \in Connections, Send(c) \/ Leave(c) PROVE Unborn'
  BY <1>5 DEF Send, Leave, Inv, Unborn
<1>6. ASSUME NEW c \in Connections, Destroy(c) PROVE Unborn'
  BY <1>2, <1>6 DEF Destroy
<1>7. ASSUME NEW c \in Connections, ReadRequest(c) PROVE Unborn'
  <2>1. conn[c].pc = "read" /\ UNCHANGED backlog
    BY <1>7 DEF ReadRequest
  <2>2. \E k : conn' = [conn EXCEPT ![c] = k]
    BY <1>7 DEF ReadRequest, Transferred, Become
  <2>3. QED BY <1>2, <2>1, <2>2
<1>8. ASSUME NEW c \in Connections, ReadCompleted(c) PROVE Unborn'
  <2>1. conn[c].pc = "reading" /\ UNCHANGED backlog
    BY <1>8 DEF ReadCompleted
  <2>2. \E k : conn' = [conn EXCEPT ![c] = k]
    BY <1>8 DEF ReadCompleted, Transferred, Become
  <2>3. QED BY <1>2, <2>1, <2>2
<1>9. ASSUME NEW c \in Connections, FiberStep(c) PROVE Unborn'
  <2>1. conn[c].pc # "unborn" /\ UNCHANGED backlog
    BY <1>9 DEF FiberStep, Write, ResponseFinish, KeepAlive, Close
  <2>2. CASE Write(c)
    <3>1. \E k : conn' = [conn EXCEPT ![c] = k]
      BY <2>2 DEF Write, Become
    <3>2. QED BY <1>2, <2>1, <3>1
  <2>3. CASE ResponseFinish(c) \/ KeepAlive(c) \/ Close(c)
    <3>1. \A d \in Connections : d = c \/ conn'[d] = conn[d]
      BY <1>1, <2>3 DEF ResponseFinish, KeepAlive, Close
    <3>2. QED BY <2>1, <3>1 DEF Inv, Unborn
  <2>4. QED BY <1>9, <2>2, <2>3 DEF FiberStep
<1>10. CASE UNCHANGED serverVars
  BY <1>10 DEF serverVars, Inv, Unborn
<1>11. QED BY <1>3, <1>4, <1>5, <1>6, <1>7, <1>8, <1>9, <1>10 DEF ServerNext

LEMMA NextInv == ASSUME Inv, [ServerNext]_serverVars PROVE Inv'
<1>1. Unborn'
  BY UnbornKept
<1>2. ASSUME UNCHANGED <<conn, pool, made>>, crashed => crashed' PROVE Buffers'
  BY <1>2 DEF Inv, Buffers, Shaped, Accounted, Held, OneHolder, PooledOnce, PooledFree, Known
<1>3. ASSUME NEW f \in Acceptors, AcceptConnectionAsync(f) PROVE Buffers'
  BY <1>2, <1>3 DEF AcceptConnectionAsync
<1>4. ASSUME NEW f \in Acceptors, NEW c \in Connections, AcceptConnection(f, c) PROVE Buffers'
  <2>1. conn[c].pc = "unborn"
    BY <1>4 DEF AcceptConnection, Inv, Unborn
  <2>2. QED BY <1>4, <2>1, AcceptKept DEF Inv
<1>5. ASSUME NEW c \in Connections, Send(c) \/ Leave(c) PROVE Buffers'
  BY <1>2, <1>5 DEF Send, Leave
<1>6. ASSUME NEW c \in Connections, Destroy(c) PROVE Buffers'
  BY <1>6, DestroyKept DEF Inv
<1>7. ASSUME NEW c \in Connections, ReadRequest(c) PROVE Buffers'
  BY <1>7, ReadRequestKept DEF Inv
<1>8. ASSUME NEW c \in Connections, ReadCompleted(c) PROVE Buffers'
  BY <1>8, ReadCompletedKept DEF Inv
<1>9. ASSUME NEW c \in Connections, FiberStep(c) PROVE Buffers'
  BY <1>9, FiberStepKept DEF Inv
<1>10. ASSUME UNCHANGED serverVars PROVE Buffers'
  BY <1>2, <1>10 DEF serverVars
<1>11. ASSUME NEW c \in Connections,
              Send(c) \/ Leave(c) \/ Destroy(c) \/ ReadRequest(c) \/ ReadCompleted(c) \/ FiberStep(c)
       PROVE  Buffers'
  BY <1>5, <1>6, <1>7, <1>8, <1>9, <1>11, Zenon
<1>12. Buffers'
  BY <1>3, <1>4, <1>10, <1>11, Zenon DEF ServerNext
<1>13. QED BY <1>1, <1>12 DEF Inv

\* A buffer with one holder or one place is counted once.
LEMMA CountedOnce == ASSUME Inv PROVE BuffersAccounted
<1> SUFFICES ASSUME ~crashed
             PROVE  /\ \A b \in 1 .. made : Cardinality(Holders(b)) + Cardinality(Places(b)) = 1
                    /\ Held
  BY DEF BuffersAccounted, Held
<1>1. Shaped /\ Accounted
  BY DEF Inv, Buffers
<1>2. ASSUME NEW b \in 1 .. made
      PROVE  Cardinality(Holders(b)) + Cardinality(Places(b)) = 1
  <2>1. b # NoBuffer
    BY <1>1 DEF Shaped, NoBuffer
  <2>2. CASE \E c \in Connections : conn[c].buffer = b
    <3>1. PICK c \in Connections : conn[c].buffer = b
      BY <2>2
    <3>2. Holders(b) = {c}
      BY <1>1, <2>1, <3>1 DEF Holders, Accounted, OneHolder
    <3>3. Places(b) = {}
      BY <1>1, <3>1 DEF Places, Accounted, PooledFree
    <3>4. Cardinality({c}) = 1 /\ Cardinality({}) = 0
      BY FS_Singleton, FS_EmptySet
    <3>5. QED BY <3>2, <3>3, <3>4
  <2>3. CASE ~ \E c \in Connections : conn[c].buffer = b
    <3>1. PICK i \in DOMAIN pool : pool[i] = b
      BY <1>1, <2>3 DEF Accounted, Known
    <3>2. Places(b) = {i}
      BY <1>1, <3>1 DEF Places, Accounted, PooledOnce
    <3>3. Holders(b) = {}
      BY <2>3 DEF Holders
    <3>4. Cardinality({i}) = 1 /\ Cardinality({}) = 0
      BY FS_Singleton, FS_EmptySet
    <3>5. QED BY <3>2, <3>3, <3>4
  <2>4. QED BY <2>2, <2>3
<1>3. QED BY <1>1, <1>2 DEF Accounted

\* BuffersAccounted, for any connections and whatever their clients send: every
\* buffer that was allocated is in the pool once or with one connection, and a
\* connection has one just while it reads or after its read failed.
THEOREM BuffersKept == ServerSpec => []BuffersAccounted
<1>1. Inv /\ [ServerNext]_serverVars => Inv'
  BY NextInv
<1>2. ServerSpec => []Inv
  BY <1>1, InitInv, PTL DEF ServerSpec
<1>3. Inv => BuffersAccounted
  BY CountedOnce
<1>4. QED BY <1>2, <1>3, PTL

-----------------------------------------------------------------------------
(* The callbacks of a read, one after the other.                          *)

Notifying(f, n, k, s) == f = [i \in 0 .. n |-> IF i = 0 THEN k ELSE Callback(f[i - 1], s[i])]

LEMMA NotifyingExists == ASSUME NEW k, NEW s, NEW n \in Nat
                         PROVE  \E f : Notifying(f, n, k, s)
<1> DEFINE Failing == {m \in Nat : ~ \E f : Notifying(f, m, k, s)}
<1>1. SUFFICES ASSUME Failing # {} PROVE FALSE
  OBVIOUS
<1>2. PICK m \in Failing : \A l \in Failing : m <= l
  <2> HIDE DEF Failing
  <2>1. Failing \in SUBSET Nat
    BY DEF Failing
  <2>2. QED BY <1>1, <2>1, Least
<1>3. m # 0
  <2>1. Notifying([i \in 0 .. 0 |-> k], 0, k, s)
    BY DEF Notifying
  <2>2. QED BY <1>2, <2>1
<1>4. m \in Nat /\ m - 1 \in Nat /\ m - 1 \notin Failing
  BY <1>2, <1>3
<1>5. PICK g : Notifying(g, m - 1, k, s)
  BY <1>4
<1> DEFINE h == [i \in 0 .. m |-> IF i < m THEN g[i] ELSE Callback(g[m - 1], s[m])]
<1>6. \A i \in 0 .. m : h[i] = IF i = 0 THEN k ELSE Callback(h[i - 1], s[i])
  <2>1. \A i \in 0 .. (m - 1) : g[i] = IF i = 0 THEN k ELSE Callback(g[i - 1], s[i])
    BY <1>5, Zenon DEF Notifying
  <2>2. \A i \in 0 .. (m - 1) : h[i] = g[i]
    BY <1>4
  <2>3. h[m] = Callback(g[m - 1], s[m])
    BY <1>4
  <2> HIDE DEF h
  <2>4. ASSUME NEW i \in 0 .. m
        PROVE  h[i] = IF i = 0 THEN k ELSE Callback(h[i - 1], s[i])
    <3>1. CASE i = m
      <4>1. m - 1 \in 0 .. (m - 1)
        BY <1>4
      <4>2. h[i - 1] = g[m - 1]
        BY <2>2, <3>1, <4>1
      <4>3. QED BY <1>3, <2>3, <3>1, <4>2
    <3>2. CASE i # m
      <4>1. i \in 0 .. (m - 1) /\ (i # 0 => i - 1 \in 0 .. (m - 1))
        BY <1>4, <3>2
      <4>2. QED BY <2>1, <2>2, <4>1
    <3>3. QED BY <3>1, <3>2
  <2>5. QED BY <2>4
<1>7. Notifying(h, m, k, s)
  BY <1>6, Zenon DEF Notifying
<1> HIDE DEF h
<1>8. QED BY <1>2, <1>7

NotifiesTo(f, k, calls) ==
    /\ Notified(k, calls) = f[Len(calls)] /\ f[0] = k
    /\ \A i \in 1 .. Len(calls) : f[i] = Callback(f[i - 1], calls[i])

LEMMA NotifiedIs == ASSUME NEW k, NEW calls, Len(calls) \in Nat
                    PROVE  \E f : NotifiesTo(f, k, calls)
<1> DEFINE n == Len(calls)
           f == CHOOSE g : Notifying(g, n, k, calls)
<1>1. n \in Nat
  OBVIOUS
<1>2. Notifying(f, n, k, calls)
  <2> HIDE DEF n
  <2>1. QED BY <1>1, NotifyingExists, Zenon
<1>3. Notified(k, calls) = f[n]
  BY Zenon DEF Notified, Notifying
<1> HIDE DEF f, n
<1>4. \A i \in 0 .. n : f[i] = IF i = 0 THEN k ELSE Callback(f[i - 1], calls[i])
  BY <1>2, Zenon DEF Notifying
<1>5. f[0] = k
  <2>1. 0 \in 0 .. n
    BY <1>1
  <2>2. QED BY <1>4, <2>1, Zenon
<1>6. \A i \in 1 .. n : f[i] = Callback(f[i - 1], calls[i])
  BY <1>1, <1>4
<1>7. NotifiesTo(f, k, calls)
  BY <1>3, <1>5, <1>6, Zenon DEF n, NotifiesTo
<1>8. QED BY <1>7

-----------------------------------------------------------------------------
Prevs == {"none", "field", "value"}

\* What a callback does at all.
Notes(k, b, call) ==
    /\ DOMAIN b = Fields /\ b.parser = k.parser
    /\ b.state = k.state \/ (b.state = "HEADERS_COMPLETE" /\ call[1] = "headers_complete")
    /\ b.prev \in Prevs
    /\ ~b.bad => ~k.bad
    /\ ~b.bad /\ b.prev = "field" =>
           call[1] = "header_field" \/ (call[1] # "header_value" /\ k.prev = "field")
    /\ ~b.bad /\ call[1] = "header_field" /\ k.prev # "field" => b.prev = "field" /\ b.field = call[2]
    /\ ~b.bad /\ call[1] = "header_value" /\ k.prev = "field" =>
           b.prev = "value" /\ b.field = k.field /\ b.value = call[2]
    /\ ~b.bad /\ call[1] \notin {"header_field", "header_value"} =>
           b.prev = k.prev /\ b.field = k.field /\ b.value = k.value

LEMMA RequireIs == ASSUME NEW k, DOMAIN k = Fields, NEW ok
                   PROVE  Require(k, ok) = k \/ Require(k, ok) = [k EXCEPT !.bad = TRUE]
  BY DEF Require

Untouched(k, b) == /\ DOMAIN b = Fields /\ b.parser = k.parser /\ b.state = k.state
                   /\ b.prev = k.prev /\ b.field = k.field /\ b.value = k.value
                   /\ (~b.bad => ~k.bad)

LEMMA RequireTold == ASSUME NEW k, DOMAIN k = Fields, NEW ok PROVE Untouched(k, Require(k, ok))
<1>1. Untouched(k, k)
  BY DEF Untouched
<1>2. Untouched(k, [k EXCEPT !.bad = TRUE])
  BY DEF Untouched, Fields
<1>3. QED BY <1>1, <1>2, RequireIs

LEMMA AppendTold == ASSUME NEW k, DOMAIN k = Fields PROVE Untouched(k, AppendHeader(k))
<1> DEFINE m == [k EXCEPT !.headers = Append(@, <<k.field, k.value>>)]
<1>1. DOMAIN m = Fields /\ Untouched(k, m)
  BY DEF Untouched, Fields
<1>2. AppendHeader(k) = Require(m, k.state = "INITIAL")
  BY DEF AppendHeader
<1> HIDE DEF m
<1>3. Untouched(m, AppendHeader(k))
  BY <1>1, <1>2, RequireTold
<1>4. QED BY <1>1, <1>3 DEF Untouched

LEMMA FieldIs == ASSUME NEW k, DOMAIN k = Fields, k.prev \in Prevs, NEW text
                 PROVE  LET b == OnHeaderField(k, text) IN
                        /\ DOMAIN b = Fields /\ b.parser = k.parser /\ b.state = k.state
                        /\ b.prev = "field" /\ (~b.bad => ~k.bad)
                        /\ k.prev # "field" => b.field = text
<1> DEFINE r == Require(k, k.state = "INITIAL" /\ k.prev # "field")
           a == AppendHeader(r)
           c == CASE k.prev = "none" -> [r EXCEPT !.field = text]
                  [] k.prev = "value" -> [a EXCEPT !.field = text]
                  [] k.prev = "field" -> r
<1>1. OnHeaderField(k, text) = [c EXCEPT !.prev = "field"]
  BY Zenon DEF OnHeaderField
<1>2. Untouched(k, r)
  BY RequireTold, Zenon
<1>3. Untouched(k, a)
  <2> HIDE DEF r
  <2>1. Untouched(r, a)
    BY <1>2, AppendTold DEF Untouched
  <2>2. QED BY <1>2, <2>1 DEF Untouched
<1> HIDE DEF r, a
<1>4. /\ DOMAIN c = Fields /\ c.parser = k.parser /\ c.state = k.state /\ (~c.bad => ~k.bad)
      /\ k.prev # "field" => c.field = text
  <2>1. CASE k.prev = "none"
    <3>1. c = [r EXCEPT !.field = text]
      BY <2>1
    <3>2. QED BY <1>2, <3>1 DEF Untouched, Fields
  <2>2. CASE k.prev = "value"
    <3>1. c = [a EXCEPT !.field = text]
      BY <2>2
    <3>2. QED BY <1>3, <3>1 DEF Untouched, Fields
  <2>3. CASE k.prev = "field"
    <3>1. c = r
      BY <2>3
    <3>2. QED BY <1>2, <2>3, <3>1 DEF Untouched
  <2>4. QED BY <2>1, <2>2, <2>3 DEF Prevs
<1> HIDE DEF c
<1>5. QED BY <1>1, <1>4 DEF Fields

LEMMA ValueIs == ASSUME NEW k, DOMAIN k = Fields, k.prev \in Prevs, NEW text
                 PROVE  LET b == OnHeaderValue(k, text) IN
                        /\ DOMAIN b = Fields /\ b.parser = k.parser /\ b.state = k.state
                        /\ b.prev = "value" /\ (~b.bad => ~k.bad)
                        /\ k.prev = "field" => b.field = k.field /\ b.value = text
<1> DEFINE r == Require(k, k.state = "INITIAL" /\ k.prev # "value")
           c == CASE k.prev = "none" -> [r EXCEPT !.bad = TRUE]
                  [] k.prev = "field" -> [r EXCEPT !.value = text]
                  [] k.prev = "value" -> r
<1>1. OnHeaderValue(k, text) = [c EXCEPT !.prev = "value"]
  BY Zenon DEF OnHeaderValue
<1>2. Untouched(k, r)
  BY RequireTold, Zenon
<1> HIDE DEF r
<1>4. /\ DOMAIN c = Fields /\ c.parser = k.parser /\ c.state = k.state /\ (~c.bad => ~k.bad)
      /\ k.prev = "field" => c.field = k.field /\ c.value = text
  <2>1. CASE k.prev = "none"
    <3>1. c = [r EXCEPT !.bad = TRUE]
      BY <2>1
    <3>2. QED BY <1>2, <3>1 DEF Untouched, Fields
  <2>2. CASE k.prev = "value"
    <3>1. c = r
      BY <2>2
    <3>2. QED BY <1>2, <2>2, <3>1 DEF Untouched
  <2>3. CASE k.prev = "field"
    <3>1. c = [r EXCEPT !.value = text]
      BY <2>3
    <3>2. QED BY <1>2, <3>1 DEF Untouched, Fields
  <2>4. QED BY <2>1, <2>2, <2>3 DEF Prevs
<1> HIDE DEF c
<1>5. QED BY <1>1, <1>4 DEF Fields

LEMMA CallbackIs == ASSUME NEW k, DOMAIN k = Fields, k.prev \in Prevs, NEW call
                    PROVE  Notes(k, Callback(k, call), call)
<1>1. CASE k.bad
  <2>1. Callback(k, call) = k
    BY <1>1 DEF Callback
  <2>2. QED BY <1>1, <2>1 DEF Notes
<1>2. CASE ~k.bad /\ call[1] = "header_field"
  <2>1. Callback(k, call) = OnHeaderField(k, call[2])
    BY <1>2 DEF Callback
  <2> HIDE DEF OnHeaderField
  <2>2. QED BY <1>2, <2>1, FieldIs DEF Notes, Prevs
<1>3. CASE ~k.bad /\ call[1] = "header_value"
  <2>1. Callback(k, call) = OnHeaderValue(k, call[2])
    BY <1>3 DEF Callback
  <2>2. QED BY <1>3, <2>1, ValueIs DEF Notes, Prevs
<1>4. CASE ~k.bad /\ call[1] = "headers_complete"
  <2>1. Callback(k, call) = [AppendHeader(k) EXCEPT !.state = "HEADERS_COMPLETE"]
    BY <1>4 DEF Callback, OnHeadersComplete
  <2>2. QED BY <1>4, <2>1, AppendTold DEF Untouched, Notes, Fields
<1>5. CASE ~k.bad /\ call[1] = "body"
  <2>1. Callback(k, call) = Require(k, FALSE)
    BY <1>5 DEF Callback
  <2>2. QED BY <1>5, <2>1, RequireTold DEF Untouched, Notes
<1>6. CASE ~k.bad /\ call[1] \notin {"header_field", "header_value", "headers_complete", "body"}
  <2>1. Callback(k, call) = k
    BY <1>6 DEF Callback
  <2>2. QED BY <1>6, <2>1 DEF Notes
<1>7. QED BY <1>1, <1>2, <1>3, <1>4, <1>5, <1>6

\* What it does at the head of a request.
Heading(k, prev, field, value, headers) ==
    /\ DOMAIN k = Fields /\ k.state = "INITIAL" /\ ~k.bad /\ k.prev = prev
    /\ k.field = field /\ k.value = value /\ k.headers = headers

LEMMA FirstField ==
    ASSUME NEW k, NEW f, NEW v, NEW hs, Heading(k, "none", f, v, hs), NEW call, call[1] = "header_field"
    PROVE  Heading(Callback(k, call), "field", call[2], v, hs)
<1>1. Callback(k, call) = OnHeaderField(k, call[2])
  BY DEF Callback, Heading
<1>2. QED BY <1>1 DEF OnHeaderField, Require, Heading, Fields

LEMMA NextField ==
    ASSUME NEW k, NEW f, NEW v, NEW hs, Heading(k, "value", f, v, hs), NEW call, call[1] = "header_field"
    PROVE  Heading(Callback(k, call), "field", call[2], v, Append(hs, <<f, v>>))
<1>1. Callback(k, call) = OnHeaderField(k, call[2])
  BY DEF Callback, Heading
<1>2. QED BY <1>1 DEF OnHeaderField, AppendHeader, Require, Heading, Fields

LEMMA ItsValue ==
    ASSUME NEW k, NEW f, NEW v, NEW hs, Heading(k, "field", f, v, hs), NEW call, call[1] = "header_value"
    PROVE  Heading(Callback(k, call), "value", f, call[2], hs)
<1>1. Callback(k, call) = OnHeaderValue(k, call[2])
  BY DEF Callback, Heading
<1>2. QED BY <1>1 DEF OnHeaderValue, Require, Heading, Fields

Ended(b, headers) == ~b.bad /\ b.state = "HEADERS_COMPLETE" /\ b.headers = headers

LEMMA HeadEnds ==
    ASSUME NEW k, NEW prev, NEW f, NEW v, NEW hs, Heading(k, prev, f, v, hs), NEW call,
           call[1] = "headers_complete"
    PROVE  Ended(Callback(k, call), Append(hs, <<f, v>>))
<1>1. Callback(k, call) = OnHeadersComplete(k)
  BY DEF Callback, Heading
<1>2. QED BY <1>1 DEF OnHeadersComplete, AppendHeader, Require, Heading, Fields, Ended

LEMMA NotTold == ASSUME NEW k, NEW call, call[1] \in {"message_begin", "url", "message_complete"}
                 PROVE  Callback(k, call) = k
  BY DEF Callback

LEMMA OneMore == ASSUME NEW T, NEW lead \in Seq(T), NEW hs \in Seq(T), NEW i \in 1 .. Len(hs)
                 PROVE  Append(lead \o SubSeq(hs, 1, i - 1), hs[i]) = lead \o SubSeq(hs, 1, i)
<1>1. SubSeq(hs, 1, i - 1) \in Seq(T) /\ SubSeq(hs, 1, i) \in Seq(T) /\ hs[i] \in T
  OBVIOUS
<1>2. Append(SubSeq(hs, 1, i - 1), hs[i]) = SubSeq(hs, 1, i)
  <2> DEFINE x == Append(SubSeq(hs, 1, i - 1), hs[i])
             y == SubSeq(hs, 1, i)
  <2>1. x \in Seq(T) /\ y \in Seq(T) /\ Len(x) = i /\ Len(y) = i
    OBVIOUS
  <2>2. \A j \in 1 .. i : x[j] = y[j]
    OBVIOUS
  <2> HIDE DEF x, y
  <2>3. x = y
    BY <2>1, <2>2, SameText
  <2>4. QED BY <2>3 DEF x, y
<1>3. ASSUME NEW x \in Seq(T), NEW e \in T PROVE Append(lead \o x, e) = lead \o Append(x, e)
  <2> DEFINE u == Append(lead \o x, e)
             v == lead \o Append(x, e)
  <2>1. u \in Seq(T) /\ v \in Seq(T) /\ Len(u) = Len(lead) + Len(x) + 1 /\ Len(v) = Len(u)
    OBVIOUS
  <2>2. \A j \in 1 .. Len(u) : u[j] = v[j]
    <3> SUFFICES ASSUME NEW j \in 1 .. Len(lead) + Len(x) + 1 PROVE u[j] = v[j]
      BY <2>1
    <3>1. CASE j \in 1 .. Len(lead)
      BY <3>1
    <3>2. CASE j \in Len(lead) + 1 .. Len(lead) + Len(x)
      <4>1. u[j] = x[j - Len(lead)] /\ v[j] = Append(x, e)[j - Len(lead)]
        BY <3>2
      <4>2. QED BY <3>2, <4>1
    <3>3. CASE j = Len(lead) + Len(x) + 1
      <4>1. u[j] = e /\ v[j] = Append(x, e)[Len(x) + 1]
        BY <3>3
      <4>2. QED BY <4>1
    <3>4. Len(lead) \in Nat /\ Len(x) \in Nat
      OBVIOUS
    <3> HIDE DEF u, v
    <3>5. QED BY <3>1, <3>2, <3>3, <3>4
  <2> HIDE DEF u, v
  <2>3. u = v
    BY <2>1, <2>2, SameText
  <2>4. QED BY <2>3 DEF u, v
<1>4. QED BY <1>1, <1>2, <1>3

\* A connection after the calls for one request.
LEMMA HeadTold ==
    ASSUME NEW k, NEW prev \in {"none", "value"}, NEW f0, NEW v0, Heading(k, prev, f0, v0, << >>),
           NEW calls, Len(calls) \in Nat, NEW headers, CallsOf(calls, headers)
    PROVE  LET b == Notified(k, calls) IN
           /\ ~b.bad /\ b.state = "HEADERS_COMPLETE"
           /\ b.headers \in {headers, <<<<f0, v0>>>> \o headers}
<1>1. PICK n \in 0 .. Len(calls) :
          /\ Len(calls) = 2 * n + 4
          /\ headers = [i \in 1 .. n |-> <<calls[2 * i + 1][2], calls[2 * i + 2][2]>>]
          /\ calls[1][1] = "message_begin" /\ calls[2][1] = "url"
          /\ \A i \in 1 .. n : /\ calls[2 * i + 1][1] = "header_field"
                               /\ calls[2 * i + 2][1] = "header_value"
          /\ calls[2 * n + 3][1] = "headers_complete"
          /\ calls[2 * n + 4][1] = "message_complete"
  BY Zenon DEF CallsOf
<1>2. PICK f : NotifiesTo(f, k, calls)
  BY NotifiedIs
<1>3. n \in Nat
  BY <1>1
<1>4. /\ f[0] = k /\ Notified(k, calls) = f[2 * n + 4]
      /\ \A i \in 1 .. 2 * n + 4 : f[i] = Callback(f[i - 1], calls[i])
  BY <1>1, <1>2 DEF NotifiesTo
<1>5. f[2] = k
  <2>1. 1 \in 1 .. 2 * n + 4 /\ 2 \in 1 .. 2 * n + 4
    BY <1>3
  <2>2. f[1] = Callback(f[1 - 1], calls[1]) /\ f[2] = Callback(f[2 - 1], calls[2])
    BY <1>4, <2>1, Zenon
  <2>3. f[1] = Callback(k, calls[1]) /\ f[2] = Callback(f[1], calls[2])
    BY <1>4, <2>2
  <2>4. QED BY <1>1, <2>3, NotTold
<1> DEFINE Blanks == <<<<f0, v0>>>>
           lead == IF prev = "value" THEN Blanks ELSE << >>
           T == {Blanks[1]} \cup {headers[i] : i \in 1 .. n}
           Upto(i) == lead \o SubSeq(headers, 1, i - 1)
           Good(i) == Heading(f[2 * i + 2], "value", calls[2 * i + 1][2], calls[2 * i + 2][2], Upto(i))
<1>6. /\ lead \in Seq(T) /\ headers \in Seq(T) /\ Len(headers) = n
      /\ \A i \in 1 .. n : headers[i] = <<calls[2 * i + 1][2], calls[2 * i + 2][2]>>
  <2>1. Blanks \in Seq(T) /\ << >> \in Seq(T)
    OBVIOUS
  <2>2. lead \in Seq(T)
    BY <2>1
  <2>3. DOMAIN headers = 1 .. n /\ \A i \in 1 .. n : headers[i] \in T
    BY <1>1
  <2> HIDE DEF T, lead
  <2>4. headers = [i \in 1 .. n |-> headers[i]]
    BY <1>1, <2>3
  <2>5. headers \in Seq(T) /\ Len(headers) = n
    BY <1>3, <2>3, <2>4
  <2>6. QED BY <1>1, <2>2, <2>5
<1>7. ASSUME n = 0
      PROVE  /\ Heading(f[2], prev, f0, v0, << >>)
             /\ Append(<< >>, <<f0, v0>>) = Blanks \o headers
  <2>1. headers = << >>
    BY <1>6, <1>7
  <2>2. Append(<< >>, <<f0, v0>>) = Blanks /\ Blanks \o << >> = Blanks
    OBVIOUS
  <2>3. QED BY <1>5, <2>1, <2>2
<1> HIDE DEF lead, T, Blanks
<1>8. ASSUME NEW i \in 1 .. n, i = 1 \/ Good(i - 1) PROVE Good(i)
  <2>1. /\ 2 * i + 1 \in 1 .. 2 * n + 4 /\ 2 * i + 2 \in 1 .. 2 * n + 4
        /\ 2 * i + 1 - 1 = 2 * i /\ 2 * i + 2 - 1 = 2 * i + 1
    BY <1>3
  <2>2. /\ f[2 * i + 1] = Callback(f[2 * i], calls[2 * i + 1])
        /\ f[2 * i + 2] = Callback(f[2 * i + 1], calls[2 * i + 2])
    BY <1>4, <2>1
  <2>3. calls[2 * i + 1][1] = "header_field" /\ calls[2 * i + 2][1] = "header_value"
    BY <1>1
  <2>4. \E v : Heading(f[2 * i + 1], "field", calls[2 * i + 1][2], v, Upto(i))
    <3>1. CASE i = 1
      <4>1. f[2 * i] = k
        BY <1>5, <3>1
      <4>2. Upto(i) = lead
        BY <1>6, <3>1
      <4>3. CASE prev = "none"
        <5>1. Upto(i) = << >>
          BY <4>2, <4>3 DEF lead
        <5>2. Heading(f[2 * i], "none", f0, v0, << >>)
          BY <4>1, <4>3
        <5>3. QED BY <2>2, <2>3, <5>1, <5>2, FirstField
      <4>4. CASE prev = "value"
        <5>1. Upto(i) = Append(<< >>, <<f0, v0>>)
          BY <4>2, <4>4 DEF lead, Blanks
        <5>2. Heading(f[2 * i], "value", f0, v0, << >>)
          BY <4>1, <4>4
        <5> HIDE DEF Upto
        <5>3. QED BY <2>2, <2>3, <5>1, <5>2, NextField, Zenon
      <4>5. QED BY <4>3, <4>4
    <3>2. CASE i # 1
      <4>1. i - 1 \in 1 .. n /\ 2 * (i - 1) + 2 = 2 * i /\ 2 * (i - 1) + 1 = 2 * i - 1
        BY <1>3, <3>2
      <4>2. Heading(f[2 * i], "value", calls[2 * i - 1][2], calls[2 * i][2], Upto(i - 1))
        BY <1>8, <3>2, <4>1
      <4>3. headers[i - 1] = <<calls[2 * i - 1][2], calls[2 * i][2]>>
        BY <1>6, <4>1
      <4>4. Append(Upto(i - 1), headers[i - 1]) = Upto(i)
        <5>1. i - 1 \in 1 .. Len(headers)
          BY <1>6, <4>1
        <5>2. QED BY <1>6, <5>1, OneMore
      <4> HIDE DEF Upto
      <4>5. Heading(f[2 * i + 1], "field", calls[2 * i + 1][2], calls[2 * i][2],
                    Append(Upto(i - 1), <<calls[2 * i - 1][2], calls[2 * i][2]>>))
        BY <2>2, <2>3, <4>2, NextField, Zenon
      <4>6. QED BY <4>3, <4>4, <4>5
    <3>3. QED BY <3>1, <3>2
  <2> HIDE DEF Upto
  <2>5. QED BY <2>2, <2>3, <2>4, ItsValue, Zenon
<1>9. n = 0 \/ Good(n)
  <2> DEFINE Failing == {i \in 1 .. n : ~Good(i)}
  <2> HIDE DEF Good
  <2>1. ASSUME Failing # {} PROVE FALSE
    <3>1. PICK i \in Failing : \A j \in Failing : i <= j
      <4>1. Failing \in SUBSET Nat
        BY <1>3
      <4> HIDE DEF Failing
      <4>2. QED BY <2>1, <4>1, Least
    <3>2. i = 1 \/ (i - 1 \in 1 .. n /\ i - 1 \notin Failing)
      BY <1>3, <3>1
    <3>3. QED BY <1>8, <3>1, <3>2
  <2>2. QED BY <1>3, <2>1
<1>10. /\ f[2 * n + 3] = Callback(f[2 * n + 2], calls[2 * n + 3])
       /\ f[2 * n + 4] = Callback(f[2 * n + 3], calls[2 * n + 4])
  <2>1. /\ 2 * n + 3 \in 1 .. 2 * n + 4 /\ 2 * n + 4 \in 1 .. 2 * n + 4
        /\ 2 * n + 3 - 1 = 2 * n + 2 /\ 2 * n + 4 - 1 = 2 * n + 3
    BY <1>3
  <2>2. QED BY <1>4, <2>1
<1>11. f[2 * n + 4] = f[2 * n + 3]
  BY <1>1, <1>10, NotTold
<1> DEFINE b == f[2 * n + 3]
<1>12. /\ ~b.bad /\ b.state = "HEADERS_COMPLETE" /\ b.headers \in {headers, Blanks \o headers}
  <2> HIDE DEF b, Good
  <2>1. CASE n = 0
    <3>1. f[2 * n + 2] = f[2]
      BY <2>1
    <3>2. b = Callback(f[2], calls[2 * n + 3])
      BY <1>10, <3>1 DEF b
    <3>3. Heading(f[2], prev, f0, v0, << >>)
      BY <1>7, <2>1
    <3>4. Ended(b, Append(<< >>, <<f0, v0>>))
      BY <1>1, <3>2, <3>3, HeadEnds
    <3>5. QED BY <1>7, <2>1, <3>4 DEF Ended
  <2>2. CASE n # 0
    <3>1. Heading(f[2 * n + 2], "value", calls[2 * n + 1][2], calls[2 * n + 2][2], Upto(n))
      BY <1>9, <2>2 DEF Good
    <3>2. n \in 1 .. n /\ n \in 1 .. Len(headers)
      BY <1>3, <1>6, <2>2
    <3>3. headers[n] = <<calls[2 * n + 1][2], calls[2 * n + 2][2]>>
      BY <1>6, <3>2
    <3>4. Append(Upto(n), headers[n]) = lead \o headers
      <4>1. Append(Upto(n), headers[n]) = lead \o SubSeq(headers, 1, n)
        BY <1>6, <3>2, OneMore
      <4>2. SubSeq(headers, 1, n) = headers
        BY <1>6
      <4>3. QED BY <4>1, <4>2
    <3> HIDE DEF Upto
    <3>5. Ended(b, Append(Upto(n), <<calls[2 * n + 1][2], calls[2 * n + 2][2]>>))
      BY <1>1, <1>10, <3>1, HeadEnds DEF b
    <3>6. Ended(b, lead \o headers)
      BY <3>3, <3>4, <3>5
    <3>7. lead \o headers \in {headers, Blanks \o headers}
      <4>1. << >> \o headers = headers
        BY <1>6
      <4>2. QED BY <4>1 DEF lead
    <3>8. QED BY <3>6, <3>7 DEF Ended
  <2>3. QED BY <2>1, <2>2
<1>13. QED BY <1>4, <1>11, <1>12 DEF Blanks

\* A connection after any calls.
Followed(k, calls, b, m) ==
    /\ DOMAIN b = Fields /\ b.parser = k.parser /\ b.prev \in Prevs
    /\ b.state = k.state \/ \E i \in 1 .. m : calls[i][1] = "headers_complete"
    /\ ~b.bad /\ b.prev = "field" =>
           \E i \in 1 .. m : /\ calls[i][1] = "header_field"
                             /\ \A j \in i + 1 .. m : calls[j][1] # "header_value"

LEMMA CallFollowed == ASSUME NEW k, NEW calls, NEW b, NEW m \in Nat, Followed(k, calls, b, m)
                      PROVE  Followed(k, calls, Callback(b, calls[m + 1]), m + 1)
<1> DEFINE d == Callback(b, calls[m + 1])
<1>1. Notes(b, d, calls[m + 1])
  BY CallbackIs DEF Followed
<1> HIDE DEF d
<1>2. DOMAIN d = Fields /\ d.parser = k.parser /\ d.prev \in Prevs
  BY <1>1 DEF Followed, Notes
<1>3. d.state = k.state \/ \E i \in 1 .. m + 1 : calls[i][1] = "headers_complete"
  <2>1. m + 1 \in 1 .. m + 1 /\ \A i \in 1 .. m : i \in 1 .. m + 1
    OBVIOUS
  <2>2. QED BY <1>1, <2>1, Zenon DEF Followed, Notes
<1>4. ASSUME ~d.bad, d.prev = "field"
      PROVE  \E i \in 1 .. m + 1 : /\ calls[i][1] = "header_field"
                                   /\ \A j \in i + 1 .. m + 1 : calls[j][1] # "header_value"
  <2>1. CASE calls[m + 1][1] = "header_field"
    <3>1. m + 1 \in 1 .. m + 1 /\ \A j \in (m + 1) + 1 .. m + 1 : FALSE
      OBVIOUS
    <3>2. QED BY <2>1, <3>1
  <2>2. CASE calls[m + 1][1] # "header_value" /\ ~b.bad /\ b.prev = "field"
    <3>1. PICK i \in 1 .. m : /\ calls[i][1] = "header_field"
                             /\ \A j \in i + 1 .. m : calls[j][1] # "header_value"
      BY <2>2 DEF Followed
    <3>2. i \in 1 .. m + 1 /\ \A j \in i + 1 .. m + 1 : j = m + 1 \/ j \in i + 1 .. m
      OBVIOUS
    <3>3. QED BY <2>2, <3>1, <3>2
  <2>3. QED BY <1>1, <1>4, <2>1, <2>2 DEF Notes
<1>5. QED BY <1>2, <1>3, <1>4 DEF Followed, d

LEMMA AllFollowed == ASSUME NEW k, DOMAIN k = Fields, k.prev \in {"none", "value"},
                            NEW calls, Len(calls) \in Nat
                     PROVE  Followed(k, calls, Notified(k, calls), Len(calls))
<1>1. PICK f : NotifiesTo(f, k, calls)
  BY NotifiedIs
<1> DEFINE n == Len(calls)
           Failing == {m \in 0 .. n : ~Followed(k, calls, f[m], m)}
<1>2. /\ f[0] = k /\ Notified(k, calls) = f[n]
      /\ \A i \in 1 .. n : f[i] = Callback(f[i - 1], calls[i])
  BY <1>1 DEF NotifiesTo
<1>3. Followed(k, calls, k, 0)
  BY DEF Followed, Prevs
<1> HIDE DEF n
<1>4. n \in Nat
  BY DEF n
<1>5. ASSUME Failing # {} PROVE FALSE
  <2>1. PICK m \in Failing : \A j \in Failing : m <= j
    <3>1. Failing \in SUBSET Nat
      BY <1>4
    <3> HIDE DEF Failing
    <3>2. QED BY <1>5, <3>1, Least
  <2>2. m # 0
    BY <1>2, <1>3, <2>1
  <2>3. m \in 1 .. n /\ m - 1 \in 0 .. n /\ m - 1 \in Nat /\ (m - 1) + 1 = m
    BY <1>4, <2>1, <2>2
  <2>4. Followed(k, calls, f[m - 1], m - 1)
    BY <2>1, <2>3
  <2>5. Followed(k, calls, Callback(f[m - 1], calls[m]), m)
    BY <2>3, <2>4, CallFollowed
  <2>6. QED BY <1>2, <2>1, <2>3, <2>5
<1>6. n \in 0 .. n
  BY <1>4
<1>7. QED BY <1>2, <1>5, <1>6 DEF n

\* The header that a connection has in hand after m calls, when each name comes
\* with its value: one that it was told, or the one it had.
Alternate(calls) ==
    \A i \in DOMAIN calls :
        /\ calls[i][1] = "header_field" => i + 1 \in DOMAIN calls /\ calls[i + 1][1] = "header_value"
        /\ calls[i][1] = "header_value" => i - 1 \in DOMAIN calls /\ calls[i - 1][1] = "header_field"

PairsOf(calls) ==
    {<<calls[i][2], calls[i + 1][2]>> : i \in {l \in DOMAIN calls : calls[l][1] = "header_field"}}

InHand(k, calls, b, m) ==
    /\ DOMAIN b = Fields /\ b.prev \in Prevs
    /\ ~b.bad => IF m # 0 /\ calls[m][1] = "header_field"
                 THEN b.prev = "field" /\ b.field = calls[m][2]
                 ELSE b.prev # "field" /\ <<b.field, b.value>> \in {<<k.field, k.value>>} \cup PairsOf(calls)

LEMMA CallInHand ==
    ASSUME NEW k, NEW calls, Len(calls) \in Nat, DOMAIN calls = 1 .. Len(calls), Alternate(calls), NEW b,
           NEW m \in 0 .. Len(calls) - 1, InHand(k, calls, b, m)
    PROVE  InHand(k, calls, Callback(b, calls[m + 1]), m + 1)
<1> DEFINE d == Callback(b, calls[m + 1])
           call == calls[m + 1]
           All == {<<k.field, k.value>>} \cup PairsOf(calls)
<1>1. Notes(b, d, call)
  BY CallbackIs DEF InHand
<1> HIDE DEF d
<1>2. DOMAIN d = Fields /\ d.prev \in Prevs /\ (~d.bad => ~b.bad)
  BY <1>1 DEF Notes
<1>3. m + 1 \in DOMAIN calls /\ m + 1 # 0 /\ (m + 1) - 1 = m /\ (m # 0 => m \in DOMAIN calls)
  OBVIOUS
<1>4. call[1] # "header_value" => ~(m # 0 /\ calls[m][1] = "header_field")
  BY <1>3 DEF Alternate
<1>5. call[1] = "header_value" => m \in DOMAIN calls /\ m # 0 /\ calls[m][1] = "header_field"
  <2>1. call[1] = "header_value" => (m + 1) - 1 \in DOMAIN calls /\ calls[(m + 1) - 1][1] = "header_field"
    BY <1>3 DEF Alternate
  <2>2. m \in DOMAIN calls => m # 0
    OBVIOUS
  <2>3. QED BY <1>3, <2>1, <2>2
<1>6. ASSUME ~d.bad, call[1] = "header_field" PROVE d.prev = "field" /\ d.field = call[2]
  BY <1>1, <1>2, <1>4, <1>6 DEF InHand, Notes
<1>7. ASSUME ~d.bad, call[1] = "header_value"
      PROVE  d.prev # "field" /\ <<d.field, d.value>> \in All
  <2>1. b.prev = "field" /\ b.field = calls[m][2]
    BY <1>2, <1>5, <1>7 DEF InHand
  <2>2. d.prev = "value" /\ d.field = calls[m][2] /\ d.value = calls[m + 1][2]
    BY <1>1, <1>7, <2>1 DEF Notes
  <2>3. <<calls[m][2], calls[m + 1][2]>> \in PairsOf(calls)
    BY <1>5, <1>7 DEF PairsOf
  <2>4. QED BY <2>2, <2>3
<1>8. ASSUME ~d.bad, call[1] \notin {"header_field", "header_value"}
      PROVE  d.prev # "field" /\ <<d.field, d.value>> \in All
  <2>1. b.prev # "field" /\ <<b.field, b.value>> \in All
    BY <1>2, <1>4, <1>8 DEF InHand
  <2>2. d.prev = b.prev /\ d.field = b.field /\ d.value = b.value
    BY <1>1, <1>8 DEF Notes
  <2>3. QED BY <2>1, <2>2
<1>9. QED BY <1>2, <1>3, <1>6, <1>7, <1>8 DEF InHand, d

LEMMA AllInHand ==
    ASSUME NEW k, DOMAIN k = Fields, k.prev \in {"none", "value"}, NEW calls,
           Len(calls) \in Nat, DOMAIN calls = 1 .. Len(calls), Alternate(calls)
    PROVE  InHand(k, calls, Notified(k, calls), Len(calls))
<1>1. PICK f : NotifiesTo(f, k, calls)
  BY NotifiedIs
<1> DEFINE n == Len(calls)
           Failing == {m \in 0 .. n : ~InHand(k, calls, f[m], m)}
<1>2. /\ f[0] = k /\ Notified(k, calls) = f[n]
      /\ \A i \in 1 .. n : f[i] = Callback(f[i - 1], calls[i])
  BY <1>1 DEF NotifiesTo
<1>3. InHand(k, calls, k, 0)
  BY DEF InHand, Prevs
<1> HIDE DEF n
<1>4. n \in Nat
  BY DEF n
<1>5. ASSUME Failing # {} PROVE FALSE
  <2>1. PICK m \in Failing : \A j \in Failing : m <= j
    <3>1. Failing \in SUBSET Nat
      BY <1>4
    <3> HIDE DEF Failing
    <3>2. QED BY <1>5, <3>1, Least
  <2>2. m # 0
    BY <1>2, <1>3, <2>1
  <2>3. m \in 1 .. n /\ m - 1 \in 0 .. n /\ m - 1 \in 0 .. Len(calls) - 1 /\ (m - 1) + 1 = m
    BY <1>4, <2>1, <2>2 DEF n
  <2>4. InHand(k, calls, f[m - 1], m - 1)
    BY <2>1, <2>3
  <2>5. InHand(k, calls, Callback(f[m - 1], calls[m]), m)
    BY <2>3, <2>4, CallInHand
  <2>6. QED BY <1>2, <2>1, <2>3, <2>5
<1>6. n \in 0 .. n
  BY <1>4
<1>7. QED BY <1>2, <1>5, <1>6 DEF n

LEMMA RunCalls == ASSUME NEW S, NEW text \in Seq(S)
                  PROVE  Execute(NewParser, text).calls \in Seq(Calls(S))
<1> DEFINE a == Whole(text)[Len(text)]
<1>1. IsRun(S, a)
  <2>1. Len(text) \in 0 .. Len(text)
    OBVIOUS
  <2>2. QED BY <2>1, WholeAlike DEF Alike
<1>2. Execute(NewParser, text).calls = End(a).calls
  BY DEF Execute, Whole
<1> HIDE DEF a
<1>3. CASE a.p.error \/ a.mark = "none"
  BY <1>1, <1>2, <1>3 DEF End, IsRun
<1>4. CASE ~(a.p.error \/ a.mark = "none")
  <2>1. a.mark \in Texts
    BY <1>1, <1>4 DEF IsRun
  <2> DEFINE t == << >>
  <2>2. t \in Seq(Calls(S))
    OBVIOUS
  <2> HIDE DEF t
  <2>3. IsRun(S, Emit(a, a.mark))
    BY <1>1, <2>1, <2>2, EmitFull
  <2>4. QED BY <1>2, <1>4, <2>3 DEF End, IsRun
<1>5. QED BY <1>3, <1>4

-----------------------------------------------------------------------------
(* A connection between two requests, and after one.                       *)

Ready(k) ==
    /\ DOMAIN k = Fields /\ k.state = "INITIAL" /\ ~k.bad /\ k.prev \in {"none", "value"}
    /\ Waiting(k.parser)

Blank(k) == k.headers = << >>

\* A parser after a message: it waits for the next one, or takes no other.
Rested(p) ==
    /\ DOMAIN p = ParserFields /\ ~p.error
    /\ p.state = "start_req" \/ (p.state = "dead" /\ ~ShouldKeepAlive(p))

Answered(k) ==
    /\ DOMAIN k = Fields /\ ~k.bad /\ k.prev \in {"none", "value"} /\ Rested(k.parser)

\* What a connection that is ready does with a text that ends at the end of a
\* request, if it has the head of one.
Takes(k, b, run) ==
    /\ DOMAIN b = Fields
    /\ ~b.bad => /\ HasHead(run) /\ Answered(b) /\ b.state = "HEADERS_COMPLETE"
                 /\ <<b.field, b.value>> \in {<<k.field, k.value>>} \cup PairsOf(run.calls)
    /\ \A headers : run.whole /\ CallsOf(run.calls, headers) =>
                        ~b.bad /\ b.headers \in {headers, <<<<k.field, k.value>>>> \o headers}

LEMMA RestedAfter == ASSUME NEW p, NEW q, Kept(p, q), p.state = NewMessage(p)
                     PROVE  Rested(q)
  BY UrlStatesAre DEF Kept, NewMessage, Rested, ShouldKeepAlive, LineStates, ValueStates, BodyStates

LEMMA ReadTold ==
    ASSUME NEW k, Ready(k), Blank(k), NEW S, NEW text \in Seq(S),
           HasHead(Execute(NewParser, text)) => AtEnd(Execute(NewParser, text))
    PROVE  Takes(k, ParseSome(k, text), Execute(NewParser, text))
<1> DEFINE r == Execute(NewParser, text)
           q == Execute(k.parser, text)
           m == [k EXCEPT !.parser = q.p]
           f == Notified(m, q.calls)
           g == [k EXCEPT !.parser = f.parser, !.state = f.state, !.prev = f.prev, !.field = f.field,
                          !.value = f.value, !.headers = f.headers, !.bad = f.bad]
           b == ParseSome(k, text)
<1>1. (r.whole <=> q.whole) /\ (r.whole => r.calls = q.calls /\ Kept(r.p, q.p))
  BY WaitingReads DEF Ready, KeptReads
<1>2. r.calls \in Seq(Calls(S))
  BY RunCalls
<1>3. b = Judged(g, q.whole)
  BY DEF ParseSome, AfterCalls
<1>4. DOMAIN b = Fields
  BY ParsedShape DEF Ready
<1>5. HasHead(r) => AtEnd(r)
  OBVIOUS
<1>6. /\ DOMAIN m = Fields /\ m.parser = q.p /\ m.prev = k.prev /\ m.state = "INITIAL"
      /\ ~m.bad /\ m.field = k.field /\ m.value = k.value /\ m.headers = << >>
  BY DEF Ready, Blank, Fields
<1> HIDE DEF r, q, f, m
<1>7. /\ (b.bad <=> f.bad \/ ~q.whole \/ f.state # "HEADERS_COMPLETE")
      /\ b.parser = f.parser /\ b.state = f.state /\ b.prev = f.prev /\ b.headers = f.headers
      /\ b.field = f.field /\ b.value = f.value
  <2>1. /\ DOMAIN g = Fields /\ g.bad = f.bad /\ g.parser = f.parser /\ g.state = f.state
        /\ g.prev = f.prev /\ g.headers = f.headers
        /\ g.field = f.field /\ g.value = f.value
    BY DEF Ready, Fields
  <2> HIDE DEF g, b
  <2>2. QED BY <1>3, <2>1 DEF Judged, Fields
<1> HIDE DEF b, g
<1>8. ASSUME ~b.bad
      PROVE  /\ HasHead(r) /\ Answered(b) /\ b.state = "HEADERS_COMPLETE"
             /\ <<b.field, b.value>> \in {<<k.field, k.value>>} \cup PairsOf(r.calls)
  <2>1. ~f.bad /\ r.whole /\ f.state = "HEADERS_COMPLETE"
    BY <1>1, <1>7, <1>8
  <2>2. q.calls = r.calls /\ Kept(r.p, q.p)
    BY <1>1, <2>1
  <2>3. DOMAIN r.calls = 1 .. Len(r.calls) /\ Len(r.calls) \in Nat
    BY <1>2
  <2>4. Followed(m, r.calls, f, Len(r.calls))
    <3>1. m.prev \in {"none", "value"}
      BY <1>6 DEF Ready
    <3>2. QED BY <1>6, <2>2, <2>3, <3>1, AllFollowed DEF f
  <2>5. HasHead(r)
    <3>1. \E i \in 1 .. Len(r.calls) : r.calls[i][1] = "headers_complete"
      BY <1>6, <2>1, <2>4 DEF Followed
    <3>2. QED BY <2>1, <2>3, <3>1 DEF HasHead
  <2>6. AtEnd(r)
    BY <1>5, <2>5
  <2>7. f.prev # "field" /\ <<f.field, f.value>> \in {<<m.field, m.value>>} \cup PairsOf(r.calls)
    <3>1. Alternate(r.calls)
      BY <2>6 DEF AtEnd, Alternate
    <3>2. m.prev \in {"none", "value"}
      BY <1>6 DEF Ready
    <3>3. InHand(m, r.calls, f, Len(r.calls))
      BY <1>6, <2>2, <2>3, <3>1, <3>2, AllInHand DEF f
    <3>4. ~(Len(r.calls) # 0 /\ r.calls[Len(r.calls)][1] = "header_field")
      BY <2>3, <3>1 DEF Alternate
    <3>5. QED BY <2>1, <3>3, <3>4 DEF InHand
  <2>8. b.prev \in {"none", "value"} /\ b.parser = q.p
    BY <1>6, <1>7, <2>4, <2>7 DEF Followed, Prevs
  <2>9. Rested(q.p)
    BY <2>2, <2>6, RestedAfter DEF AtEnd
  <2>10. QED BY <1>4, <1>6, <1>7, <1>8, <2>1, <2>5, <2>7, <2>8, <2>9 DEF Answered
<1>9. ASSUME NEW headers, r.whole, CallsOf(r.calls, headers)
      PROVE  ~b.bad /\ b.headers \in {headers, <<<<k.field, k.value>>>> \o headers}
  <2>1. q.calls = r.calls /\ q.whole /\ Len(r.calls) \in Nat
    BY <1>1, <1>2, <1>9
  <2>2. k.prev \in {"none", "value"} /\ Heading(m, k.prev, k.field, k.value, << >>)
    BY <1>6 DEF Ready, Heading
  <2>3. ~f.bad /\ f.state = "HEADERS_COMPLETE" /\ f.headers \in {headers, <<<<k.field, k.value>>>> \o headers}
    <3>1. CallsOf(q.calls, headers) /\ Len(q.calls) \in Nat
      BY <1>9, <2>1
    <3> DEFINE prev == k.prev
               f0 == k.field
               v0 == k.value
               calls == q.calls
    <3>2. prev \in {"none", "value"} /\ Heading(m, prev, f0, v0, << >>)
      BY <2>2
    <3> HIDE DEF prev, f0, v0, calls
    <3>3. CallsOf(calls, headers) /\ Len(calls) \in Nat
      BY <3>1 DEF calls
    <3>4. LET l == Notified(m, calls) IN
          /\ ~l.bad /\ l.state = "HEADERS_COMPLETE"
          /\ l.headers \in {headers, <<<<f0, v0>>>> \o headers}
      BY <3>2, <3>3, HeadTold
    <3>5. QED BY <3>4 DEF f, f0, v0, calls
  <2>4. QED BY <1>7, <2>1, <2>3
<1>10. Takes(k, b, r)
  BY <1>4, <1>8, <1>9, Zenon DEF Takes
<1>11. QED BY <1>10 DEF b, r

-----------------------------------------------------------------------------
(* What was sent, what has arrived, and what was read last.                 *)

ClientFields == {"script", "sent", "got", "gone"}

\* Some packets of a script that follow one another.
PartOf(packets, read) ==
    \E i \in 1 .. Len(packets) : \E j \in i .. Len(packets) : read = SubSeq(packets, i, j)

Fed(c, k, arrived, read) ==
    /\ DOMAIN k = ClientFields /\ k.script \in Scripts[c] /\ k.sent \in 0 .. Len(k.script.packets)
    /\ \E n \in 0 .. k.sent : arrived = SubSeq(k.script.packets, n + 1, k.sent)
    /\ read = << >> \/ PartOf(k.script.packets, read)

Clients ==
    /\ DOMAIN client = Connections /\ DOMAIN inbox = Connections /\ DOMAIN last = Connections
    /\ \A c \in Connections : Fed(c, client[c], inbox[c], last[c])

\* What ScriptsRead says of some packets of a script.
Readable(s, i, j) ==
    LET text == Bytes(SubSeq(s.packets, i, j))
        run == Execute(NewParser, text)
    IN /\ text \in Seq(ToSet(text))
       /\ HasHead(run) => AtEnd(run)
       /\ i = j /\ (s.patient \/ HasHead(run)) => run.whole /\ CallsOf(run.calls, s.packets[i].headers)

LEMMA ScriptReadable ==
    ASSUME ScriptsRead, NEW c \in Connections, NEW s \in Scripts[c]
    PROVE  /\ s.packets \in Seq(ToSet(s.packets))
           /\ \A i \in 1 .. Len(s.packets) : \A j \in i .. Len(s.packets) : Readable(s, i, j)
  BY Zenon DEF ScriptsRead, Readable

\* The first l of the places n + 1 .. m of s, and the others.
Parts(s, n, m, l) ==
    LET part == SubSeq(s, n + 1, m) IN
    /\ SubSeq(part, 1, l) = SubSeq(s, n + 1, n + l) /\ Len(SubSeq(part, 1, l)) = l
    /\ SubSeq(part, 1, l)[1] = s[n + 1]
    /\ SubSeq(part, l + 1, Len(part)) = SubSeq(s, n + l + 1, m)

LEMMA PartOfPart ==
    ASSUME NEW S, NEW s \in Seq(S), NEW m \in 0 .. Len(s), NEW n \in 0 .. m, NEW l \in 1 .. m - n
    PROVE  Parts(s, n, m, l)
<1> DEFINE part == SubSeq(s, n + 1, m)
           x == SubSeq(part, 1, l)
           y == SubSeq(s, n + 1, n + l)
           v == SubSeq(part, l + 1, m - n)
           w == SubSeq(s, n + l + 1, m)
<1>1. /\ part \in Seq(S) /\ Len(part) = m - n /\ \A i \in 1 .. m - n : part[i] = s[n + i]
  OBVIOUS
<1>2. /\ y \in Seq(S) /\ Len(y) = l /\ \A i \in 1 .. l : y[i] = s[n + i]
      /\ w \in Seq(S) /\ Len(w) = m - n - l /\ \A i \in 1 .. m - n - l : w[i] = s[n + l + i]
  OBVIOUS
<1> HIDE DEF part
<1>3. /\ x \in Seq(S) /\ Len(x) = l /\ \A i \in 1 .. l : x[i] = part[i]
      /\ v \in Seq(S) /\ Len(v) = m - n - l /\ \A i \in 1 .. m - n - l : v[i] = part[l + i]
  BY <1>1
<1> HIDE DEF x, y, v, w
<1>4. x = y
  <2>1. \A i \in 1 .. l : i \in 1 .. m - n
    OBVIOUS
  <2>2. \A i \in 1 .. l : x[i] = y[i]
    BY <1>1, <1>2, <1>3, <2>1
  <2>3. QED BY <1>2, <1>3, <2>2, SameText
<1>5. v = w
  <2>1. \A i \in 1 .. m - n - l : part[l + i] = s[n + l + i]
    BY <1>1
  <2>2. QED BY <1>2, <1>3, <2>1, SameText
<1>6. x[1] = s[n + 1]
  BY <1>1, <1>3
<1>7. QED BY <1>1, <1>3, <1>4, <1>5, <1>6 DEF Parts, part, x, y, v, w

LEMMA OneArrives ==
    ASSUME NEW S, NEW s \in Seq(S), NEW m \in 0 .. Len(s) - 1, NEW n \in 0 .. m
    PROVE  Append(SubSeq(s, n + 1, m), s[m + 1]) = SubSeq(s, n + 1, m + 1)
<1> DEFINE x == Append(SubSeq(s, n + 1, m), s[m + 1])
           y == SubSeq(s, n + 1, m + 1)
<1>1. x \in Seq(S) /\ y \in Seq(S) /\ Len(x) = m + 1 - n /\ Len(y) = m + 1 - n
  OBVIOUS
<1>2. ASSUME NEW i \in 1 .. m + 1 - n PROVE x[i] = y[i]
  <2>1. y[i] = s[n + i] /\ Len(SubSeq(s, n + 1, m)) = m - n /\ SubSeq(s, n + 1, m) \in Seq(S)
    OBVIOUS
  <2>2. CASE i \in 1 .. m - n
    <3>1. SubSeq(s, n + 1, m)[i] = s[n + i]
      BY <2>2
    <3>2. x[i] = SubSeq(s, n + 1, m)[i]
      BY <2>1, <2>2
    <3>3. QED BY <2>1, <3>1, <3>2
  <2>3. CASE i = m - n + 1
    <3>1. x[i] = s[m + 1] /\ n + i = m + 1
      BY <2>1, <2>3
    <3>2. QED BY <2>1, <3>1
  <2>4. QED BY <2>2, <2>3
<1> HIDE DEF x, y
<1>3. x = y
  BY <1>1, <1>2, SameText
<1>4. QED BY <1>3 DEF x, y

\* What a read of n of the packets is, m of them having been read.
PartRead(packets, m, n, read) ==
    /\ m + 1 \in 1 .. Len(packets) /\ m + n \in m + 1 .. Len(packets)
    /\ read = SubSeq(packets, m + 1, m + n) /\ read[1] = packets[m + 1]

\* A read of n packets of those that have arrived.
LEMMA ReadFed ==
    ASSUME ScriptsRead, NEW c \in Connections, NEW k, NEW arrived, NEW read,
           Fed(c, k, arrived, read), NEW n \in 1 .. Len(arrived)
    PROVE  /\ Fed(c, k, SubSeq(arrived, n + 1, Len(arrived)), SubSeq(arrived, 1, n))
           /\ Len(SubSeq(arrived, 1, n)) = n
           /\ LET m == k.sent - Len(arrived) IN
              /\ m \in Nat /\ PartRead(k.script.packets, m, n, SubSeq(arrived, 1, n))
              /\ k.sent - Len(SubSeq(arrived, n + 1, Len(arrived))) = m + n
<1> DEFINE ps == k.script.packets
<1>1. ps \in Seq(ToSet(ps)) /\ k.sent \in 0 .. Len(ps)
  BY ScriptReadable DEF Fed
<1>2. PICK m \in 0 .. k.sent : arrived = SubSeq(ps, m + 1, k.sent)
  BY DEF Fed
<1> DEFINE x == SubSeq(arrived, 1, n)
           left == SubSeq(arrived, n + 1, Len(arrived))
<1> HIDE DEF ps
<1>3. k.sent \in Nat /\ Len(ps) \in Nat /\ k.sent <= Len(ps) /\ m \in Nat /\ m <= k.sent
  BY <1>1, <1>2
<1>4. Len(arrived) = k.sent - m
  BY <1>1, <1>2, <1>3
<1>5. n \in 1 .. k.sent - m
  BY <1>4
<1>6. /\ x = SubSeq(ps, m + 1, m + n) /\ Len(x) = n /\ x[1] = ps[m + 1]
      /\ left = SubSeq(ps, m + n + 1, k.sent)
      /\ k.sent - Len(arrived) = m
  <2>1. Parts(ps, m, k.sent, n)
    BY <1>1, <1>2, <1>5, PartOfPart
  <2>2. k.sent - Len(arrived) = m
    BY <1>3, <1>4
  <2>3. QED BY <1>2, <2>1, <2>2 DEF Parts
<1> HIDE DEF x, left
<1>7. /\ m + 1 \in 1 .. Len(ps) /\ m + n \in m + 1 .. Len(ps) /\ m + n \in 0 .. k.sent
  BY <1>3, <1>5
<1>8. PartOf(ps, x)
  BY <1>6, <1>7 DEF PartOf
<1>9. \E l \in 0 .. k.sent : left = SubSeq(ps, l + 1, k.sent)
  BY <1>6, <1>7
<1>10. Fed(c, k, left, x)
  BY <1>8, <1>9 DEF Fed, ps
<1>11. PartRead(ps, m, n, x)
  BY <1>6, <1>7 DEF PartRead
<1>12. k.sent - Len(left) = m + n
  <2>1. Len(left) = k.sent - (m + n)
    BY <1>1, <1>3, <1>6, <1>7
  <2>2. QED BY <1>3, <1>5, <2>1
<1>13. QED BY <1>3, <1>6, <1>10, <1>11, <1>12 DEF x, left, ps

LEMMA TransferFed ==
    ASSUME ScriptsRead, Clients, NEW c \in Connections, NEW k, NEW n \in 1 .. Len(inbox[c]),
           Transferred(c, k, n), UNCHANGED client
    PROVE  Clients'
<1> DEFINE x == SubSeq(inbox[c], 1, n)
           left == SubSeq(inbox[c], n + 1, Len(inbox[c]))
<1>1. Fed(c, client[c], left, x)
  BY ReadFed DEF Clients
<1>2. last' = [last EXCEPT ![c] = x] /\ inbox' = [inbox EXCEPT ![c] = left]
  BY DEF Transferred
<1> HIDE DEF x, left
<1>3. QED BY <1>1, <1>2 DEF Clients

LEMMA ClientsKept == ASSUME ScriptsRead, Clients, [ServerNext]_serverVars PROVE Clients'
<1>1. ASSUME UNCHANGED <<client, inbox, last>> PROVE Clients'
  BY <1>1, Zenon DEF Clients
<1>2. ASSUME NEW c \in Connections, Send(c) PROVE Clients'
  <2> DEFINE k == client[c]
             ps == k.script.packets
             k2 == [k EXCEPT !.sent = @ + 1]
             in2 == Append(inbox[c], ps[k.sent + 1])
  <2>1. Fed(c, k, inbox[c], last[c])
    BY DEF Clients
  <2>2. /\ client' = [client EXCEPT ![c] = k2] /\ inbox' = [inbox EXCEPT ![c] = in2]
        /\ last' = last /\ k.sent < Len(ps)
    BY <1>2 DEF Send, Clients
  <2>3. ps \in Seq(ToSet(ps))
    BY <2>1, ScriptReadable DEF Fed
  <2>4. PICK n \in 0 .. k.sent : inbox[c] = SubSeq(ps, n + 1, k.sent)
    BY <2>1 DEF Fed
  <2> HIDE DEF ps
  <2>5. k.sent \in 0 .. Len(ps) - 1 /\ Len(ps) \in Nat /\ k.sent + 1 \in 0 .. Len(ps) /\ n \in 0 .. k.sent + 1
    <3>1. Len(ps) \in Nat
      BY <2>3
    <3>2. k.sent \in 0 .. Len(ps)
      BY <2>1 DEF Fed, ps
    <3> HIDE DEF k
    <3>3. QED BY <2>2, <2>4, <3>1, <3>2
  <2>6. in2 = SubSeq(ps, n + 1, k.sent + 1)
    BY <2>3, <2>4, <2>5, OneArrives
  <2>7. /\ DOMAIN k2 = ClientFields /\ k2.script = k.script /\ k2.sent = k.sent + 1
    BY <2>1 DEF Fed, ClientFields
  <2> HIDE DEF k, k2, in2
  <2>8. Fed(c, k2, in2, last[c])
    BY <2>1, <2>5, <2>6, <2>7 DEF Fed, ps
  <2>9. QED BY <2>2, <2>8 DEF Clients
<1>3. ASSUME NEW c \in Connections, NEW k, client' = [client EXCEPT ![c] = k],
             DOMAIN k = ClientFields, k.script = client[c].script, k.sent = client[c].sent,
             UNCHANGED <<inbox, last>>
      PROVE  Clients'
  <2>1. Fed(c, k, inbox[c], last[c])
    BY <1>3 DEF Clients, Fed
  <2>2. QED BY <1>3, <2>1 DEF Clients
<1>4. ASSUME NEW c \in Connections, Leave(c) PROVE Clients'
  <2> DEFINE k == [client[c] EXCEPT !.gone = TRUE]
  <2>1. client' = [client EXCEPT ![c] = k] /\ UNCHANGED <<inbox, last>>
    BY <1>4 DEF Leave
  <2>2. DOMAIN k = ClientFields /\ k.script = client[c].script /\ k.sent = client[c].sent
    BY DEF Clients, Fed, ClientFields
  <2> HIDE DEF k
  <2>3. QED BY <1>3, <2>1, <2>2
<1>5. ASSUME NEW c \in Connections, Write(c) PROVE Clients'
  <2> DEFINE k == [client[c] EXCEPT !.got = IF crashed' THEN @ ELSE @ + 1]
  <2>1. client' = [client EXCEPT ![c] = k] /\ UNCHANGED <<inbox, last>>
    BY <1>5 DEF Write, Clients
  <2>2. DOMAIN k = ClientFields /\ k.script = client[c].script /\ k.sent = client[c].sent
    BY DEF Clients, Fed, ClientFields
  <2> HIDE DEF k
  <2>3. QED BY <1>3, <2>1, <2>2
<1>6. ASSUME NEW c \in Connections, ReadRequest(c) PROVE Clients'
  <2>1. UNCHANGED client /\ (UNCHANGED <<inbox, last>>
                             \/ \E k : \E n \in 1 .. Len(inbox[c]) : Transferred(c, k, n))
    BY <1>6, Zenon DEF ReadRequest
  <2>2. QED BY <1>1, <2>1, TransferFed
<1>7. ASSUME NEW c \in Connections, ReadCompleted(c) PROVE Clients'
  <2>1. UNCHANGED client /\ (UNCHANGED <<inbox, last>>
                             \/ \E k : \E n \in 1 .. Len(inbox[c]) : Transferred(c, k, n))
    BY <1>7, Zenon DEF ReadCompleted
  <2>2. QED BY <1>1, <2>1, TransferFed
<1>8. ASSUME NEW c \in Connections, ResponseFinish(c) \/ KeepAlive(c) \/ Close(c) \/ Destroy(c)
      PROVE  Clients'
  BY <1>1, <1>8 DEF ResponseFinish, KeepAlive, Close, Destroy
<1>9. ASSUME NEW f \in Acceptors,
             AcceptConnectionAsync(f) \/ \E c \in Connections : AcceptConnection(f, c)
      PROVE  Clients'
  BY <1>1, <1>9 DEF AcceptConnectionAsync, AcceptConnection
<1>10. CASE UNCHANGED serverVars
  BY <1>1, <1>10 DEF serverVars
<1>11. QED
  BY <1>2, <1>4, <1>5, <1>6, <1>7, <1>8, <1>9, <1>10, Zenon DEF ServerNext, FiberStep

-----------------------------------------------------------------------------
(* What a connection is while its fiber is at each of its steps.           *)

\* What the packets of c's client are, how many of them have been read, and which
\* of them last.
Seen(c) == [packets |-> client[c].script.packets, past |-> client[c].sent - Len(inbox[c]), last |-> last[c]]

\* What a connection may have heard of in the first n packets.
MayHold(packets, n) == {<<Indeterminate, Indeterminate>>} \cup HeadersHeard(packets, n)

HeadersOf(k, seen) ==
    k.state = "HEADERS_COMPLETE" /\ Len(seen.last) = 1 =>
        \/ k.headers = seen.last[1].headers
        \/ \E h \in MayHold(seen.packets, seen.past - Len(seen.last)) :
               k.headers = <<h>> \o seen.last[1].headers

Serving(k, seen) ==
    /\ k.pc \in {"read", "reading"} => Ready(k)
    /\ k.pc = "reading" => Blank(k)
    /\ k.pc \in {"write", "finish", "keepalive"} => Answered(k)
    /\ k.pc = "write" => k.state = "HEADERS_COMPLETE"
    /\ k.pc = "keepalive" => k.state = "INITIAL"
    /\ k.pc \in {"read", "reading", "write", "finish", "keepalive"} =>
           <<k.field, k.value>> \in MayHold(seen.packets, seen.past)
    /\ HeadersOf(k, seen)

AllServing == ~crashed => \A c \in Connections : Serving(conn[c], Seen(c))

Explained == InOrder => OnlyKnownCrashes

\* A crash that a read or an answer of c explains.
Blames(c) == Len(last[c]) > 1 \/ ~client[c].script.patient \/ client[c].gone

LEMMA ReadServes ==
    ASSUME ScriptsRead, Clients, NEW c \in Connections, NEW k, Ready(k), Blank(k),
           <<k.field, k.value>> \in MayHold(Seen(c).packets, Seen(c).past),
           NEW n \in 1 .. Len(inbox[c]), Transferred(c, k, n), UNCHANGED client
    PROVE  \E d : /\ Become(c, d)
                  /\ ~d.bad => Serving(d, Seen(c)')
                  /\ d.bad => Blames(c)'
                  /\ \A e \in Connections \ {c} : Seen(e)' = Seen(e)
<1> DEFINE s == client[c].script
           x == SubSeq(inbox[c], 1, n)
           p == ParseSome(k, Bytes(x))
           d == IF p.bad THEN p ELSE [ReleaseBuffer(p) EXCEPT !.pc = "write"]
           run == Execute(NewParser, Bytes(x))
           m == client[c].sent - Len(inbox[c])
           left == SubSeq(inbox[c], n + 1, Len(inbox[c]))
<1>1. Become(c, d) /\ last' = [last EXCEPT ![c] = x] /\ inbox' = [inbox EXCEPT ![c] = left]
  BY DEF Transferred
<1>2. /\ last'[c] = x /\ inbox'[c] = left
      /\ \A e \in Connections \ {c} : last'[e] = last[e] /\ inbox'[e] = inbox[e]
  BY <1>1 DEF Clients
<1>3. Fed(c, client[c], inbox[c], last[c]) /\ s \in Scripts[c]
  BY DEF Clients, Fed
<1>4. Len(x) = n
  BY <1>3, ReadFed
<1>5. m \in Nat /\ PartRead(s.packets, m, n, x) /\ client[c].sent - Len(left) = m + n
  BY <1>3, ReadFed
<1>6. /\ m + 1 \in 1 .. Len(s.packets) /\ m + n \in m + 1 .. Len(s.packets)
      /\ x = SubSeq(s.packets, m + 1, m + n) /\ x[1] = s.packets[m + 1]
  BY <1>5 DEF PartRead
<1>7. Seen(c)' = [packets |-> s.packets, past |-> m + n, last |-> x]
  BY <1>2, <1>5 DEF Seen
<1>8. Readable(s, m + 1, m + n)
  BY <1>3, <1>6, ScriptReadable
<1>9. /\ Bytes(x) \in Seq(ToSet(Bytes(x))) /\ (HasHead(run) => AtEnd(run))
      /\ n = 1 /\ (s.patient \/ HasHead(run)) => run.whole /\ CallsOf(run.calls, x[1].headers)
  BY <1>5, <1>6, <1>8 DEF Readable
<1>10. Takes(k, p, run)
  BY <1>9, ReadTold
<1>11. MayHold(s.packets, m) \cup PairsOf(run.calls) \subseteq MayHold(s.packets, m + n)
  <2>1. PairsOf(run.calls) = HeadersTold(Bytes(SubSeq(s.packets, m + 1, m + n)))
    BY <1>6 DEF PairsOf, HeadersTold
  <2>2. m + 1 \in 1 .. m + n /\ m + n \in 1 .. m + n /\ 1 .. m \subseteq 1 .. m + n
    BY <1>5
  <2> HIDE DEF m
  <2>3. PairsOf(run.calls) \subseteq HeadersHeard(s.packets, m + n)
    <3>1. \E i, j \in 1 .. m + n : PairsOf(run.calls) = HeadersTold(Bytes(SubSeq(s.packets, i, j)))
      BY <2>1, <2>2
    <3>2. QED BY <3>1 DEF HeadersHeard
  <2>4. HeadersHeard(s.packets, m) \subseteq HeadersHeard(s.packets, m + n)
    BY <2>2 DEF HeadersHeard
  <2>5. QED BY <2>3, <2>4 DEF MayHold
<1>12. <<k.field, k.value>> \in MayHold(s.packets, m)
  BY DEF Seen
<1> HIDE DEF p, run, x, m, left
<1>13. DOMAIN p = Fields
  BY <1>10 DEF Takes
<1>14. ASSUME ~p.bad
       PROVE  /\ ~d.bad /\ Answered(d) /\ d.pc = "write" /\ d.state = "HEADERS_COMPLETE"
              /\ d.headers = p.headers /\ <<d.field, d.value>> \in MayHold(s.packets, m + n)
  <2>1. /\ Answered(p) /\ p.state = "HEADERS_COMPLETE"
        /\ <<p.field, p.value>> \in {<<k.field, k.value>>} \cup PairsOf(run.calls)
    BY <1>10, <1>14 DEF Takes
  <2>2. d = [ReleaseBuffer(p) EXCEPT !.pc = "write"]
    BY <1>14
  <2>3. /\ DOMAIN d = Fields /\ d.bad = p.bad /\ d.prev = p.prev /\ d.parser = p.parser
        /\ d.pc = "write" /\ d.state = p.state /\ d.headers = p.headers
        /\ d.field = p.field /\ d.value = p.value
    BY <1>13, <2>2 DEF ReleaseBuffer, Fields
  <2>4. <<p.field, p.value>> \in MayHold(s.packets, m + n)
    BY <1>11, <1>12, <2>1
  <2>5. QED BY <1>14, <2>1, <2>3, <2>4 DEF Answered
<1>15. (d.bad <=> p.bad) /\ (p.bad => d = p)
  BY <1>14
<1> HIDE DEF d
<1>16. ASSUME ~d.bad PROVE Serving(d, Seen(c)')
  <2>1. ASSUME n = 1 PROVE d.headers \in {x[1].headers, <<<<k.field, k.value>>>> \o x[1].headers}
    <3>1. HasHead(run)
      BY <1>10, <1>15, <1>16 DEF Takes
    <3>2. run.whole /\ CallsOf(run.calls, x[1].headers)
      BY <1>9, <2>1, <3>1
    <3>3. p.headers \in {x[1].headers, <<<<k.field, k.value>>>> \o x[1].headers}
      BY <1>10, <3>2 DEF Takes
    <3>4. QED BY <1>14, <1>15, <1>16, <3>3
  <2>2. n = 1 => (m + n) - Len(x) = m
    BY <1>4, <1>5
  <2>3. HeadersOf(d, Seen(c)')
    <3> DEFINE seen == [packets |-> s.packets, past |-> m + n, last |-> x]
    <3>1. seen.packets = s.packets /\ seen.past = m + n /\ seen.last = x
      OBVIOUS
    <3>2. Seen(c)' = seen
      BY <1>7
    <3> HIDE DEF seen, s
    <3>3. ASSUME Len(x) = 1
          PROVE  \/ d.headers = x[1].headers
                 \/ \E h \in MayHold(s.packets, (m + n) - Len(x)) : d.headers = <<h>> \o x[1].headers
      BY <1>4, <1>12, <2>1, <2>2, <3>3
    <3>4. HeadersOf(d, seen)
      BY <3>1, <3>3, Zenon DEF HeadersOf
    <3>5. QED BY <3>2, <3>4
  <2>4. QED BY <1>7, <1>14, <1>15, <1>16, <2>3 DEF Serving
<1>17. ASSUME d.bad PROVE Blames(c)'
  <2>1. CASE n = 1
    <3>1. ~s.patient
      BY <1>9, <1>10, <1>15, <1>17, <2>1 DEF Takes
    <3>2. client'[c].script = s
      OBVIOUS
    <3>3. QED BY <3>1, <3>2 DEF Blames
  <2>2. CASE n # 1
    <3>1. Len(x) > 1
      BY <1>4, <2>2
    <3>2. QED BY <1>2, <3>1 DEF Blames
  <2>3. QED BY <2>1, <2>2
<1>18. \A e \in Connections \ {c} : Seen(e)' = Seen(e)
  BY <1>2 DEF Seen
<1>19. QED BY <1>1, <1>16, <1>17, <1>18

\* One connection changes.
LEMMA Becomes ==
    ASSUME Shaped, AllServing, ~crashed, NEW c \in Connections, NEW d, conn' = [conn EXCEPT ![c] = d],
           ~crashed' => Serving(d, Seen(c)'), \A e \in Connections \ {c} : Seen(e)' = Seen(e)
    PROVE  AllServing'
<1>1. conn'[c] = d /\ \A e \in Connections \ {c} : conn'[e] = conn[e]
  BY DEF Shaped
<1>2. QED BY <1>1 DEF AllServing

\* A read becomes d, or ends the process for a reason.
LEMMA ReadExplained ==
    ASSUME ScriptsRead, Shaped, Clients, AllServing, ~crashed, NEW c \in Connections,
           NEW k, Ready(k), Blank(k), <<k.field, k.value>> \in MayHold(Seen(c).packets, Seen(c).past),
           NEW n \in 1 .. Len(inbox[c]), Transferred(c, k, n), UNCHANGED client
    PROVE  AllServing' /\ (crashed' => Blames(c)')
<1>1. PICK d : /\ Become(c, d) /\ (~d.bad => Serving(d, Seen(c)')) /\ (d.bad => Blames(c)')
               /\ \A e \in Connections \ {c} : Seen(e)' = Seen(e)
  BY ReadServes
<1>2. conn' = [conn EXCEPT ![c] = d] /\ (crashed' <=> d.bad)
  BY <1>1 DEF Become
<1>3. AllServing'
  BY <1>1, <1>2, Becomes
<1>4. QED BY <1>1, <1>2, <1>3

LEMMA NewReady == ASSUME NEW seen PROVE Serving(NewConnection, seen)
<1>1. Waiting(NewParser)
  BY DEF Waiting, NewParser, ParserFields
<1>2. Ready(NewConnection) /\ NewConnection.pc = "read" /\ NewConnection.state = "INITIAL"
  BY <1>1 DEF Ready, NewConnection, Fields
<1>3. <<NewConnection.field, NewConnection.value>> = <<Indeterminate, Indeterminate>>
  BY DEF NewConnection
<1>4. QED BY <1>2, <1>3 DEF Serving, HeadersOf, MayHold

LEMMA ReadRequestServes ==
    ASSUME ScriptsRead, Shaped, Clients, AllServing, NEW c \in Connections, ReadRequest(c)
    PROVE  AllServing' /\ (crashed' => Blames(c)')
<1> DEFINE k == ResetHeaders(Require(conn[c], conn[c].state = "INITIAL"))
           reused == k.buffer = NoBuffer /\ pool # << >>
           new == k.buffer = NoBuffer /\ pool = << >>
           b == IF reused THEN [k EXCEPT !.buffer = Last(pool)]
                ELSE IF new THEN [k EXCEPT !.buffer = made + 1] ELSE k
           e == [b EXCEPT !.pc = IF client[c].gone THEN "failed" ELSE "reading"]
<1>1. /\ ~crashed /\ conn[c].pc = "read" /\ UNCHANGED client
      /\ \/ \E n \in 1 .. Len(inbox[c]) : Transferred(c, b, n)
         \/ Become(c, e) /\ UNCHANGED <<inbox, last>>
  BY DEF ReadRequest
<1>2. Ready(conn[c]) /\ <<conn[c].field, conn[c].value>> \in MayHold(Seen(c).packets, Seen(c).past)
  BY <1>1 DEF AllServing, Serving
<1>3. k = ResetHeaders(conn[c])
  BY <1>2 DEF Ready, Require
<1>4. Ready(k) /\ Blank(k) /\ k.field = conn[c].field /\ k.value = conn[c].value
  BY <1>2, <1>3 DEF ResetHeaders, Ready, Blank, Fields
<1> HIDE DEF k
<1>5. Ready(b) /\ Blank(b) /\ b.field = conn[c].field /\ b.value = conn[c].value
  <2>1. ASSUME NEW n
        PROVE  LET l == [k EXCEPT !.buffer = n] IN
               Ready(l) /\ Blank(l) /\ l.field = k.field /\ l.value = k.value
    BY <1>4 DEF Ready, Blank, Fields
  <2>2. QED BY <1>4, <2>1
<1> HIDE DEF b
<1>6. CASE \E n \in 1 .. Len(inbox[c]) : Transferred(c, b, n)
  BY <1>1, <1>2, <1>5, <1>6, ReadExplained
<1>7. CASE Become(c, e) /\ UNCHANGED <<inbox, last>>
  <2>1. /\ Ready(e) /\ Blank(e) /\ e.pc \in {"failed", "reading"} /\ ~e.bad /\ e.state = "INITIAL"
        /\ e.field = conn[c].field /\ e.value = conn[c].value
    BY <1>5 DEF Ready, Blank, Fields
  <2> HIDE DEF e
  <2>2. \A d \in Connections : Seen(d)' = Seen(d)
    BY <1>1, <1>7 DEF Seen
  <2>3. Serving(e, Seen(c)')
    BY <1>2, <2>1, <2>2 DEF Serving, HeadersOf
  <2>4. conn' = [conn EXCEPT ![c] = e] /\ (crashed' <=> e.bad)
    BY <1>7 DEF Become
  <2>5. QED BY <1>1, <2>1, <2>2, <2>3, <2>4, Becomes
<1>8. QED BY <1>1, <1>6, <1>7

LEMMA ReadCompletedServes ==
    ASSUME ScriptsRead, Shaped, Clients, AllServing, NEW c \in Connections, ReadCompleted(c)
    PROVE  AllServing' /\ (crashed' => Blames(c)')
<1> DEFINE e == [conn[c] EXCEPT !.pc = "failed"]
<1>1. /\ ~crashed /\ conn[c].pc = "reading" /\ UNCHANGED client
      /\ \/ \E n \in 1 .. Len(inbox[c]) : Transferred(c, conn[c], n)
         \/ Become(c, e) /\ UNCHANGED <<inbox, last>>
  BY DEF ReadCompleted
<1>2. /\ Ready(conn[c]) /\ Blank(conn[c])
      /\ <<conn[c].field, conn[c].value>> \in MayHold(Seen(c).packets, Seen(c).past)
  BY <1>1 DEF AllServing, Serving
<1>3. CASE \E n \in 1 .. Len(inbox[c]) : Transferred(c, conn[c], n)
  BY <1>1, <1>2, <1>3, ReadExplained
<1>4. CASE Become(c, e) /\ UNCHANGED <<inbox, last>>
  <2>1. e.pc = "failed" /\ ~e.bad /\ e.state = "INITIAL"
    BY <1>2 DEF Ready, Fields
  <2> HIDE DEF e
  <2>2. Serving(e, Seen(c)')
    BY <2>1 DEF Serving, HeadersOf
  <2>3. conn' = [conn EXCEPT ![c] = e] /\ (crashed' <=> e.bad)
    BY <1>4 DEF Become
  <2>4. \A d \in Connections : Seen(d)' = Seen(d)
    BY <1>1, <1>4 DEF Seen
  <2>5. QED BY <1>1, <2>1, <2>2, <2>3, <2>4, Becomes
<1>5. QED BY <1>1, <1>3, <1>4

LEMMA WriteServes ==
    ASSUME Shaped, AllServing, Clients, NEW c \in Connections, Write(c)
    PROVE  AllServing' /\ (crashed' => Blames(c)')
<1> DEFINE k == conn[c]
<1>1. ~crashed /\ k.pc = "write" /\ UNCHANGED <<inbox, last>>
  BY DEF Write
<1>2. \A d \in Connections : Seen(d)' = Seen(d)
  <2>1. ASSUME NEW d \in Connections
        PROVE  client'[d].script = client[d].script /\ client'[d].sent = client[d].sent
    BY DEF Write, Clients, Fed, ClientFields
  <2>2. QED BY <1>1, <2>1 DEF Seen
<1>3. Serving(k, Seen(c))
  BY <1>1 DEF AllServing
<1>4. /\ Answered(k) /\ k.state = "HEADERS_COMPLETE" /\ HeadersOf(k, Seen(c))
      /\ <<k.field, k.value>> \in MayHold(Seen(c).packets, Seen(c).past)
  BY <1>1, <1>3 DEF Serving
<1>5. PICK failed \in {FALSE, client[c].gone} : Become(c, [k EXCEPT !.bad = failed, !.pc = "finish"])
  BY <1>4 DEF Write
<1> DEFINE d == [k EXCEPT !.bad = failed, !.pc = "finish"]
<1>6. /\ DOMAIN d = Fields /\ d.bad = failed /\ d.pc = "finish" /\ d.prev = k.prev
      /\ d.parser = k.parser /\ d.state = k.state /\ d.headers = k.headers
      /\ d.field = k.field /\ d.value = k.value
  BY <1>4 DEF Answered, Fields
<1>7. Become(c, d)
  BY <1>5
<1> HIDE DEF d
<1>8. conn' = [conn EXCEPT ![c] = d] /\ (crashed' <=> failed)
  BY <1>6, <1>7 DEF Become
<1>9. ~crashed' => Serving(d, Seen(c)')
  BY <1>1, <1>4, <1>6, <1>8, <1>2 DEF Serving, Answered, HeadersOf
<1>10. AllServing'
  BY <1>1, <1>8, <1>9, <1>2, Becomes
<1>11. ASSUME crashed' PROVE Blames(c)'
  <2>1. client[c].gone
    BY <1>8, <1>11
  <2>2. client'[c].gone
    BY <2>1 DEF Write, Clients, Fed, ClientFields
  <2>3. QED BY <2>2 DEF Blames
<1>12. QED BY <1>10, <1>11

\* The other steps of a fiber, and of the sweep.
LEMMA RestServes ==
    ASSUME Shaped, AllServing, NEW c \in Connections,
           ResponseFinish(c) \/ KeepAlive(c) \/ Close(c) \/ Destroy(c)
    PROVE  AllServing' /\ ~crashed'
<1> DEFINE k == conn[c]
<1>1. /\ ~crashed /\ ~crashed' /\ c \in DOMAIN conn /\ DOMAIN k = Fields
      /\ \A d \in Connections : Seen(d)' = Seen(d)
  BY DEF ResponseFinish, KeepAlive, Close, Destroy, Shaped, Seen
<1>2. Serving(k, Seen(c))
  BY <1>1 DEF AllServing
<1>3. ASSUME NEW d, conn' = [conn EXCEPT ![c] = d], Serving(d, Seen(c)) PROVE AllServing'
  BY <1>1, <1>3, Becomes
<1>4. CASE ResponseFinish(c)
  <2> DEFINE d == [k EXCEPT !.pc = "keepalive", !.state = "INITIAL"]
  <2>1. /\ d.pc = "keepalive" /\ d.state = "INITIAL" /\ DOMAIN d = Fields /\ d.bad = k.bad
        /\ d.prev = k.prev /\ d.parser = k.parser /\ d.field = k.field /\ d.value = k.value
    BY <1>1 DEF Fields
  <2>2. conn' = [conn EXCEPT ![c] = d] /\ k.pc = "finish"
    BY <1>1, <1>4 DEF ResponseFinish
  <2> HIDE DEF d
  <2>3. Serving(d, Seen(c))
    BY <1>2, <2>1, <2>2 DEF Serving, Answered, HeadersOf
  <2>4. QED BY <1>1, <1>3, <2>2, <2>3
<1>5. CASE KeepAlive(c)
  <2> DEFINE next == IF ShouldKeepAlive(k.parser) /\ k.open THEN "read" ELSE "close"
             d == [k EXCEPT !.pc = next]
  <2>1. /\ d.pc = next /\ d.state = k.state /\ DOMAIN d = Fields /\ d.bad = k.bad
        /\ d.prev = k.prev /\ d.parser = k.parser /\ d.headers = k.headers
        /\ d.field = k.field /\ d.value = k.value
    BY <1>1 DEF Fields
  <2>2. conn' = [conn EXCEPT ![c] = d] /\ k.pc = "keepalive"
    BY <1>1, <1>5 DEF KeepAlive
  <2>3. Answered(k) /\ k.state = "INITIAL"
    BY <1>2, <2>2 DEF Serving
  <2>4. next = "read" => Waiting(k.parser)
    BY <2>3 DEF Answered, Rested, Waiting
  <2>5. next \in {"read", "close"}
    OBVIOUS
  <2> HIDE DEF d, next
  <2>6. next = "read" => Ready(d)
    BY <2>1, <2>3, <2>4 DEF Ready, Answered
  <2>7. Serving(d, Seen(c))
    BY <1>2, <2>1, <2>2, <2>3, <2>5, <2>6 DEF Serving, HeadersOf
  <2>8. QED BY <1>1, <1>3, <2>2, <2>7
<1>6. ASSUME NEW d, conn' = [conn EXCEPT ![c] = d], d.pc \in {"done", "swept"}, d.state = k.state,
             d.headers = k.headers
      PROVE  AllServing'
  <2>1. HeadersOf(k, Seen(c))
    BY <1>2 DEF Serving
  <2>2. Serving(d, Seen(c))
    BY <1>6, <2>1 DEF Serving, HeadersOf
  <2>3. QED BY <1>3, <1>6, <2>2
<1>7. CASE Close(c)
  <2> DEFINE d == [k EXCEPT !.pc = "done", !.open = FALSE]
  <2>1. d.pc = "done" /\ d.state = k.state /\ d.headers = k.headers
    BY <1>1 DEF Fields
  <2>2. conn' = [conn EXCEPT ![c] = d]
    BY <1>1, <1>7 DEF Close
  <2> HIDE DEF d
  <2>3. QED BY <1>1, <1>6, <2>1, <2>2
<1>8. CASE Destroy(c)
  <2> DEFINE d == [ReleaseBuffer(k) EXCEPT !.pc = "swept", !.open = FALSE]
  <2>1. d.pc = "swept" /\ d.state = k.state /\ d.headers = k.headers
    BY <1>1 DEF Fields, ReleaseBuffer
  <2>2. conn' = [conn EXCEPT ![c] = d]
    BY <1>1, <1>8 DEF Destroy
  <2> HIDE DEF d
  <2>3. QED BY <1>1, <1>6, <2>1, <2>2
<1>9. QED BY <1>4, <1>5, <1>7, <1>8

-----------------------------------------------------------------------------
Served == Inv /\ Clients /\ AllServing /\ Explained

LEMMA ServedFirst == ASSUME ScriptsRead, ServerInit PROVE Served
<1> DEFINE k == [NewConnection EXCEPT !.pc = "unborn"]
<1>1. /\ ~crashed /\ conn = [c \in Connections |-> k] /\ last = [c \in Connections |-> << >>]
      /\ inbox = [c \in Connections |-> << >>]
  BY DEF ServerInit
<1>2. k.pc = "unborn" /\ k.state = "INITIAL"
  BY DEF NewConnection
<1> HIDE DEF k
<1>3. AllServing
  BY <1>1, <1>2 DEF AllServing, Serving, HeadersOf
<1>4. PICK script : /\ \A c \in Connections : script[c] \in Scripts[c]
                    /\ client = [c \in Connections |->
                                     [script |-> script[c], sent |-> 0, got |-> 0, gone |-> FALSE]]
  BY DEF ServerInit
<1>5. ASSUME NEW c \in Connections PROVE Fed(c, client[c], inbox[c], last[c])
  <2> DEFINE s == script[c]
             ps == s.packets
  <2>1. /\ client[c] = [script |-> s, sent |-> 0, got |-> 0, gone |-> FALSE]
        /\ inbox[c] = << >> /\ last[c] = << >> /\ s \in Scripts[c]
    BY <1>1, <1>4
  <2>2. ps \in Seq(ToSet(ps))
    BY <2>1, ScriptReadable
  <2> HIDE DEF s, ps
  <2>3. 0 \in 0 .. Len(ps) /\ SubSeq(ps, 0 + 1, 0) = << >> /\ 0 \in 0 .. 0
    BY <2>2
  <2>4. \E n \in 0 .. 0 : inbox[c] = SubSeq(ps, n + 1, 0)
    BY <2>1, <2>3
  <2>5. DOMAIN client[c] = ClientFields /\ client[c].script = s /\ client[c].sent = 0
    BY <2>1 DEF ClientFields
  <2>6. QED BY <2>1, <2>3, <2>4, <2>5 DEF Fed, ps
<1>6. Clients
  BY <1>1, <1>4, <1>5 DEF Clients
<1>7. Explained
  BY <1>1 DEF Explained, OnlyKnownCrashes
<1>8. QED BY <1>3, <1>6, <1>7, InitInv DEF Served

\* A packet that is sent has not been read.
LEMMA SeenKept ==
    ASSUME ScriptsRead, Clients, NEW c \in Connections, Send(c) \/ Leave(c), NEW d \in Connections
    PROVE  Seen(d)' = Seen(d)
<1>1. /\ Fed(d, client[d], inbox[d], last[d]) /\ DOMAIN client = Connections /\ DOMAIN inbox = Connections
      /\ client[c].sent \in Nat
  BY DEF Clients, Fed
<1>2. CASE Leave(c)
  BY <1>1, <1>2 DEF Leave, Seen, Fed, ClientFields
<1>3. CASE Send(c)
  <2>1. ASSUME d = c PROVE Len(inbox'[c]) = Len(inbox[c]) + 1 /\ Len(inbox[c]) \in Nat
    <3>1. Fed(c, client[c], inbox[c], last[c])
      BY DEF Clients
    <3> DEFINE ps == client[c].script.packets
    <3>2. ps \in Seq(ToSet(ps))
      BY <3>1, ScriptReadable DEF Fed
    <3>3. ps \in Seq(ToSet(ps)) /\ \E n \in 0 .. client[c].sent : inbox[c] = SubSeq(ps, n + 1, client[c].sent)
      BY <3>1, <3>2 DEF Fed
    <3>4. client[c].sent + 1 \in 1 .. Len(ps)
      BY <1>1, <1>3, <3>2 DEF Send
    <3>5. inbox'[c] = Append(inbox[c], ps[client[c].sent + 1])
      BY <1>1, <1>3 DEF Send
    <3> HIDE DEF ps
    <3>6. inbox[c] \in Seq(ToSet(ps))
      BY <1>1, <3>3, <3>4
    <3>7. QED BY <3>5, <3>6
  <2>2. client'[d].script = client[d].script
    BY <1>1, <1>3 DEF Send, Fed, ClientFields
  <2>3. d # c => client'[d].sent = client[d].sent /\ inbox'[d] = inbox[d] 
    BY <1>1, <1>3 DEF Send
  <2>4. d = c => client'[d].sent = client[d].sent + 1
    BY <1>1, <1>3 DEF Send, Fed, ClientFields
  <2>5. last' = last
    BY <1>3 DEF Send
  <2>6. QED BY <1>1, <2>1, <2>2, <2>3, <2>4, <2>5 DEF Seen
<1>4. QED BY <1>2, <1>3

LEMMA ServedKept == ASSUME ScriptsRead, Served, [ServerNext]_serverVars PROVE Served'
<1>1. Inv' /\ Clients' /\ Shaped /\ Clients /\ AllServing
  BY NextInv, ClientsKept DEF Served, Inv, Buffers
<1>2. ASSUME NEW c \in Connections, AllServing' /\ (crashed' => Blames(c)')
      PROVE  AllServing' /\ Explained'
  BY <1>2 DEF Explained, OnlyKnownCrashes, Blames
<1>3. ASSUME NEW c \in Connections, ReadRequest(c) \/ ReadCompleted(c) \/ FiberStep(c) \/ Destroy(c)
      PROVE  AllServing' /\ Explained'
  <2>1. CASE ReadRequest(c)
    BY <1>1, <1>2, <2>1, ReadRequestServes
  <2>2. CASE ReadCompleted(c)
    BY <1>1, <1>2, <2>2, ReadCompletedServes
  <2>3. CASE Write(c)
    BY <1>1, <1>2, <2>3, WriteServes
  <2>4. CASE ResponseFinish(c) \/ KeepAlive(c) \/ Close(c) \/ Destroy(c)
    BY <1>1, <1>2, <2>4, RestServes
  <2>5. QED BY <1>3, <2>1, <2>2, <2>3, <2>4 DEF FiberStep
<1>4. ASSUME UNCHANGED <<conn, last, crashed>>, \A c \in Connections : Seen(c)' = Seen(c),
             \A c \in Connections : Blames(c) => Blames(c)'
      PROVE  AllServing' /\ Explained'
  <2>1. AllServing'
    BY <1>1, <1>4 DEF AllServing
  <2>2. Explained'
    BY <1>4 DEF Served, Explained, OnlyKnownCrashes, Blames
  <2>3. QED BY <2>1, <2>2
<1>5. ASSUME NEW c \in Connections, Send(c) \/ Leave(c) PROVE AllServing' /\ Explained'
  <2>1. UNCHANGED <<conn, last, crashed>>
    BY <1>5 DEF Send, Leave
  <2>2. DOMAIN client[c] = ClientFields /\ DOMAIN client = Connections
    BY <1>1 DEF Clients, Fed
  <2>3. \A d \in Connections : /\ client'[d].script = client[d].script
                               /\ client[d].gone => client'[d].gone
    BY <1>5, <2>2 DEF Send, Leave, ClientFields
  <2>4. \A d \in Connections : Blames(d) => Blames(d)'
    BY <2>1, <2>3 DEF Blames
  <2>5. ASSUME NEW d \in Connections PROVE Seen(d)' = Seen(d)
    BY <1>1, <1>5, SeenKept
  <2>6. QED BY <1>4, <2>1, <2>4, <2>5
<1>6. ASSUME NEW f \in Acceptors, AcceptConnectionAsync(f) PROVE AllServing' /\ Explained'
  <2>1. /\ ~crashed /\ crashed' = ~InOrder /\ conn' = conn
        /\ \A c \in Connections : Seen(c)' = Seen(c)
    BY <1>6 DEF AcceptConnectionAsync, Seen
  <2>2. AllServing'
    BY <1>1, <2>1 DEF AllServing
  <2>3. Explained'
    BY <2>1 DEF Explained, OnlyKnownCrashes
  <2>4. QED BY <2>2, <2>3
<1>7. ASSUME NEW f \in Acceptors, NEW c \in Connections, AcceptConnection(f, c)
      PROVE  AllServing' /\ Explained'
  <2>1. /\ ~crashed /\ ~crashed' /\ conn' = [conn EXCEPT ![c] = NewConnection]
        /\ \A d \in Connections : Seen(d)' = Seen(d)
    BY <1>7 DEF AcceptConnection, Seen
  <2>2. Serving(NewConnection, Seen(c)')
    BY NewReady
  <2> HIDE DEF NewConnection
  <2>3. AllServing'
    BY <1>1, <2>1, <2>2, Becomes
  <2>4. QED BY <2>1, <2>3 DEF Explained, OnlyKnownCrashes
<1>8. ASSUME UNCHANGED serverVars PROVE AllServing' /\ Explained'
  BY <1>4, <1>8 DEF serverVars, Blames, Seen
<1>9. AllServing' /\ Explained'
  BY <1>3, <1>5, <1>6, <1>7, <1>8, Zenon DEF ServerNext
<1>10. QED BY <1>1, <1>9 DEF Served

LEMMA ServedTells == Served => HeadersAreTheRequests /\ Explained
<1>1. AllServing => HeadersAreTheRequests
  BY DEF AllServing, Serving, HeadersOf, HeadersAreTheRequests, Seen, Stale, MayHold
<1>2. QED BY <1>1 DEF Served

\* HeadersAreTheRequests, for any connections and any scripts that ScriptsRead
\* allows: the headers of a request that was read alone are its own, but for one
\* entry before them, which is a whole header of an earlier read or was never set.
THEOREM HeadersKept == ASSUME ScriptsRead PROVE ServerSpec => []HeadersAreTheRequests
<1>1. Served /\ [ServerNext]_serverVars => Served'
  BY ServedKept
<1>2. ServerInit => Served
  BY ServedFirst
<1>3. QED BY <1>1, <1>2, ServedTells, PTL DEF ServerSpec

\* OnlyKnownCrashes, for the same scripts, in a build that evaluates the arguments
\* of async_accept in their order: a patient client that stays and whose requests
\* are read one at a time never ends the process.
THEOREM CrashesKnown == ASSUME ScriptsRead, InOrder PROVE ServerSpec => []OnlyKnownCrashes
<1>1. Served /\ [ServerNext]_serverVars => Served'
  BY ServedKept
<1>2. ServerInit => Served
  BY ServedFirst
<1>3. Served => OnlyKnownCrashes
  BY ServedTells DEF Explained
<1>4. QED BY <1>1, <1>2, <1>3, PTL DEF ServerSpec
=============================================================================
