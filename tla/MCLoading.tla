----------------------------- MODULE MCLoading ------------------------------
(***************************************************************************)
(* Programs for Startup, as the compiler writes them: modules that import  *)
(* each other or the main one, twice or in a circle; names that are        *)
(* missing or clash; sources that are newer than their packed form, or     *)
(* refused; functions within functions, with locals and data of their own. *)
(***************************************************************************)
EXTENDS Startup

\* What the compiler writes for each form.
Of(type, keys) == Dict(("type" :> Str(type)) @@ keys)
Symbol(x) == Of("symbol", "value" :> Str(x))
Var(x) == Of("local", "value" :> Str(x))
Global(x) == Of("global", "value" :> Str(x))
Literal(type, x) == Of(type, "value" :> Str(x))
Many(key, items) == key :> Vec(items)
Symbols(key, names) == Many(key, [i \in DOMAIN names |-> Symbol(names[i])])
CallOf(f, args) == Of("call", "line" :> Number(1) @@ "expr" :> f @@ Many("args", args))
TryOf(f) == Of("call", "line" :> Number(1) @@ "expr" :> f @@ Many("args", << >>)
                 @@ "data" :> Dict("qmark" :> Bool(TRUE)))
FunctionOf(name, parms, locals, free, stmts) ==
    Of("function", "name" :> Str(name) @@ Symbols("parms", parms) @@ Symbols("locals", locals)
        @@ Symbols("freevars", free) @@ Many("stmts", stmts))
LetOf(x, e) == Of("let", "name" :> Str(x) @@ "expr" :> e)
ReturnOf(e) == Of("return", "expr" :> e)
DefineOf(f) == Of("define", "name" :> f.m["name"] @@ "expr" :> f)
ConstOf(x, v) == Of("define", "name" :> Str(x) @@ "data" :> v)
ImportOf(from, names) == Of("import", "from" :> Str(from) @@ Symbols("imports", names))
ModuleOf(stmts) == Of("module", Many("stmts", stmts) @@ "data" :> Vec(<<Number(10), Number(20)>>))

\* function name() { f() ... }
Calls(name, fs) ==
    DefineOf(FunctionOf(name, << >>, << >>, << >>,
                [i \in DOMAIN fs |-> CallOf(Global(fs[i]), << >>)]))

\* A function with a local function whose names are its own too, at other places;
\* an if, a call whose error is a value, and locals mentioned after it.
Nested ==
    DefineOf(FunctionOf("f", <<"x", "y">>, <<"z", "g">>, << >>,
        <<LetOf("g", FunctionOf("g", <<"z">>, <<"x">>, <<"y">>,
            <<LetOf("x", Var("z")), ReturnOf(CallOf(Symbol("y"), <<Var("x")>>))>>)),
          Of("if_else_statement", "expr" :> TryOf(Var("g"))
              @@ Many("if_stmts", <<LetOf("z", Literal("integer", "1")), Var("y")>>)
              @@ Many("else_stmts", <<Of("recur", Many("args", <<Var("y"), Var("x")>>))>>)),
          ReturnOf(Var("z"))>>))

ConstDef == ConstOf("c", Vec(<<Number(7), Bool(FALSE), AtomOf(Number(0)),
                           Dict("type" :> Str("x") @@ "data" :> Dict("value" :> Number(1)))>>))
Record == Of("define", "name" :> Str("s") @@ "expr" :> Of("struct", "name" :> Str("s")
              @@ Many("stmts", <<Of("struct_field", "name" :> Str("a") @@ "data" :> Number(0))>>)))

Good(source) == [source |-> source, old |-> None, packed |-> << >>, newer |-> FALSE]
AnOrder == CHOOSE order \in Orders : TRUE
Edited(source, old, newer) ==
    [source |-> source, old |-> old, packed |-> Pack(old, AnOrder, FALSE), newer |-> newer]

M(imports, defines) == ModuleOf(imports \o defines)
Leaf == M(<< >>, <<Calls("f", << >>)>>)
MainOf(from, names) == M([i \in DOMAIN from |-> ImportOf(from[i], names[i])],
                         <<Calls("main", FlattenSeq(names))>>)

MCPrograms == {
    \* trees of every form
    "m" :> Good(MainOf(<<"a">>, <<<<"f", "c">>>>)) @@ "a" :> Good(M(<< >>, <<Nested, ConstDef, Record>>)),
    \* a diamond; the import of an imported module is mentioned
    "m" :> Good(MainOf(<<"a", "b">>, <<<<"f">>, <<"g">>>>)) @@ "a" :> Good(Leaf)
        @@ "b" :> Good(M(<<ImportOf("a", <<"f">>)>>, <<Calls("g", <<"h">>), Calls("h", <<"f">>)>>)),
    \* a circle that goes through the main module
    "m" :> Good(MainOf(<<"a">>, <<<<"f">>>>))
        @@ "a" :> Good(M(<<ImportOf("m", <<"main">>)>>, <<Calls("f", <<"f">>)>>)),
    \* a name that is not there, one that clashes, one defined twice
    "m" :> Good(MainOf(<<"a">>, <<<<"g">>>>)) @@ "a" :> Good(Leaf),
    "m" :> Good(M(<<ImportOf("a", <<"f">>)>>, <<Calls("main", << >>), Calls("f", << >>)>>))
        @@ "a" :> Good(Leaf),
    "m" :> Good(M(<< >>, <<Calls("main", << >>), Calls("main", << >>)>>)),
    \* no main; a module that is not there; an integer that is too long
    "m" :> Good(Leaf),
    "m" :> Good(MainOf(<<"a">>, <<<<"f">>>>)),
    "m" :> Good(M(<< >>, <<DefineOf(FunctionOf("main", << >>, << >>, << >>,
                               <<ReturnOf(Literal("integer", "big"))>>))>>)),
    \* an edited source: newer, in the same tick, refused
    "m" :> Edited(MainOf(<<"a">>, <<<<"f">>>>), Leaf, TRUE) @@ "a" :> Edited(Leaf, ModuleOf(<<Record>>), FALSE),
    "m" :> Good(MainOf(<<"a">>, <<<<"g">>>>)) @@ "a" :> Edited(None, M(<< >>, <<Calls("g", << >>)>>), TRUE)
    }

KeyOrder == <<"stmts", "data", "name", "expr", "type", "locals", "value", "args", "parms", "from",
              "line", "freevars", "if_stmts", "imports", "else_stmts", "qmark">>
MCOrders == {KeyOrder, Reverse(KeyOrder)}

\* The bounds leave room for what the programs need.
ASSUME LoadingAssumption ==
    Parameters /\ \A p \in MCPrograms : \A path \in DOMAIN p : p[path].source # None =>
        ToSet(Names(Defines(Meaning(p[path].source, << >>)))) \subseteq Identifiers
=============================================================================
