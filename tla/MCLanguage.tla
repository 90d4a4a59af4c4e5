----------------------------- MODULE MCLanguage -----------------------------
(***************************************************************************)
(* Instances of Jit, the functions of the language, and of its collections *)
(* PersistentVector and PersistentMap, which share nothing in the models:  *)
(* a behaviour runs two fibers, or makes versions of a vector or of a map. *)
(***************************************************************************)
EXTENDS Jit, PersistentVector, PersistentMap

L(i) == [t |-> "local", i |-> i]
Lit(x) == [t |-> "lit", v |-> Val(x)]
S(name) == [t |-> "sym", name |-> name]
Let(i, e) == [t |-> "let", i |-> i, e |-> e]
Do(es) == [t |-> "do", es |-> es]
If(c, a, b) == [t |-> "branch", c |-> c, a |-> a, b |-> b]
C(site, f, args) == Applied(f, args, TRUE, site)
Try(site, f, args) == Applied(f, args, FALSE, site)
Note(site, e) == C(site, S("note"), <<e>>)
Closure(name, free) == [t |-> "fun", name |-> name, free |-> free]
F(arity, locals, body) == [arity |-> arity, locals |-> locals, body |-> body]

\* __apply_defers__ is the prelude's. say notes what it was made with. tidy has
\* two defers and ends as its argument says. again recurs with a defer. caller
\* calls its argument among pending arguments; both of the mains call it.
MCFunctions ==
    "__apply_defers__" :>
        F(1, 0, If(L(1),
                   Do(<<C("d1", C("d2", S("first"), <<L(1)>>), << >>),
                        [t |-> "recur", args |-> <<C("d3", S("next"), <<L(1)>>)>>]>>),
                   Lit("nil")))
    @@ "say" :> F(0, 0, Note("s1", [t |-> "free", i |-> 1]))
    @@ "tidy" :>
        F(1, 2, Do(<<Let(2, Lit("x")), Let(3, Lit("y")),
                     C("t1", S("defer"), <<Closure("say", <<2>>)>>),
                     C("t2", S("defer"), <<Closure("say", <<3>>)>>),
                     Let(2, C("t3", L(1), <<Lit("z")>>)),
                     [t |-> "return", e |-> L(2)], Note("t4", Lit("never"))>>))
    @@ "again" :>
        F(2, 1, Do(<<Let(3, L(1)), C("a1", S("defer"), <<Closure("say", <<3>>)>>),
                     If(L(2), [t |-> "recur", args |-> <<Lit("last"), Lit("false")>>],
                        Note("a2", L(3)))>>))
    @@ "caller" :> F(2, 0, C("c1", S("pair"), <<L(2), C("c2", L(1), <<L(2)>>)>>))
    @@ "pair" :> F(2, 0, Do(<<Note("p1", L(1)), Note("p2", L(2))>>))
    @@ "bad" :> F(1, 0, C("b1", S("error"), << >>))
    @@ "blocked" :> F(1, 0, C("k1", S("block"), <<C("k2", S("error"), << >>)>>))
    @@ "wait" :> F(1, 0, C("w1", S("block"), <<L(1)>>))
    @@ "quit" :> F(1, 0, C("q1", S("exit"), << >>))
    @@ "m1" :> F(0, 1, Do(<<C("m11", S("tidy"), <<S("wait")>>),
                            C("m12", S("again"), <<Lit("one"), Lit("true")>>),
                            Let(1, Try("m13", S("caller"), <<S("bad"), Lit("u")>>)),
                            C("m14", S("caller"), <<S("wait"), Lit("v")>>)>>))
    @@ "m2" :> F(0, 0, Do(<<Try("m21", S("tidy"), <<S("fail")>>),
                            C("m22", S("caller"), <<S("wait"), Lit("w")>>),
                            C("m23", S("tidy"), <<S("bad")>>), Note("m24", Lit("never"))>>))
    @@ "m3" :> F(0, 0, Do(<<Try("m31", S("tidy"), <<S("blocked")>>),
                            C("m32", S("tidy"), <<S("quit")>>)>>))

MCSites == {"d1", "d2", "d3", "s1", "t1", "t2", "t3", "t4", "a1", "a2", "c1", "c2", "p1", "p2",
            "b1", "k1", "k2", "w1", "q1", "m11", "m12", "m13", "m14", "m21", "m22", "m23",
            "m24", "m31", "m32", "defers"}

MCMains == {[fun |-> m, free |-> << >>] : m \in {"m1", "m2", "m3"}}

-----------------------------------------------------------------------------
MCKeys == 1 .. 9

\* Keys 1 to 4 fill the root; 1, 5, 6, 7 and 9 differ only in the third or the
\* fourth digit to the base 4; 6 and 8 have the same hash.
MCHash ==
    LET number == <<0, 1, 2, 3, 16, 32, 48, 32, 64>>
    IN [k \in MCKeys |-> [n \in 0 .. 3 |-> (number[k] \div (4 ^ n)) % 4]]

-----------------------------------------------------------------------------
LanguageInit == Init /\ VectorInit /\ MapInit

\* While versions are made both fibers have the first of the mains to run.
Waiting == Init /\ \A b \in Fibers : main[b].fun = "m1"

LanguageNext ==
    \/ VectorInit /\ MapInit /\ Next /\ UNCHANGED <<vectorVars, mapVars>>
    \/ Waiting /\ MapInit /\ VectorNext /\ UNCHANGED <<vars, mapVars>>
    \/ Waiting /\ VectorInit /\ MapNext /\ UNCHANGED <<vars, vectorVars>>

LanguageSpec == LanguageInit /\ [][LanguageNext]_<<vars, vectorVars, mapVars>>
=============================================================================
