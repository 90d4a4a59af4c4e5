----------------------------- MODULE PackedCode -----------------------------
(***************************************************************************)
(* The packed form of a module: pack.cc writes the compiler's syntax tree, *)
(* a tree of dictionaries, as tagged and counted items, and the Reader of  *)
(* ast.cc makes the nodes that run. A dictionary has no order of its own:  *)
(* `order' is the one in which the map iterates over its keys. Bytes are   *)
(* left out: a token is a tag and a number or a string, and the keys of    *)
(* dictionaries are strings. The arguments of a call are evaluated from    *)
(* left to right (pack.cc:266), as the documented compiler does.           *)
(***************************************************************************)
EXTENDS Naturals, Sequences, SequencesExt

CONSTANTS
    BigIntegers,   \* the integer literals std::stoi does not take
    Builtins       \* the names find_builtin knows

Str(x) == [k |-> "str", str |-> x]
Number(x) == [k |-> "int", int |-> x]
Bool(x) == [k |-> "bool", bool |-> x]
Vec(items) == [k |-> "vec", items |-> items]
Dict(m) == [k |-> "dict", m |-> m]
AtomOf(v) == [k |-> "atom", v |-> v]

Each(items, f(_)) == FoldLeft(LAMBDA done, x : Append(done, f(x)), << >>, items)

-----------------------------------------------------------------------------
(* Writing. *)

\* NodePacker::visit(Map): the type of a node comes first, so that the reader
\* knows what it reads. Within "data", and for the builtin pack, plain is TRUE.
Keys(m, order, plain) ==
    LET inMap == SelectSeq(order, LAMBDA key : key \in DOMAIN m)
    IN IF plain THEN inMap
       ELSE SelectSeq(inMap, LAMBDA key : key = "type")
            \o SelectSeq(inMap, LAMBDA key : key # "type")

RECURSIVE Pack(_, _, _)
Pack(v, order, plain) ==
    CASE v.k = "dict" ->
            LET keys == Keys(v.m, order, plain)
                entry(key) == <<<<"str", key>>>> \o Pack(v.m[key], order, plain \/ key = "data")
            IN <<<<"dict", Len(keys)>>>> \o FlattenSeq([i \in DOMAIN keys |-> entry(keys[i])])
      [] v.k = "vec" ->
            <<<<"vec", Len(v.items)>>>>
            \o FlattenSeq([i \in DOMAIN v.items |-> Pack(v.items[i], order, plain)])
      [] v.k = "atom" -> <<<<"atom">>>> \o Pack(v.v, order, plain)
      [] v.k = "str" -> <<<<"str", v.str>>>>
      [] v.k = "int" -> <<<<"int", v.int>>>>
      [] v.k = "bool" -> <<<<"bool", v.bool>>>>

-----------------------------------------------------------------------------
(* Reading values back. *)

\* unpack: the value at the start of the tokens, and the tokens after it.
RECURSIVE Unpack(_), UnpackItems(_, _), UnpackPairs(_, _, _)
Unpack(ins) ==
    LET tag == Head(ins)[1]  rest == Tail(ins)
    IN CASE tag = "str" -> [v |-> Str(Head(ins)[2]), rest |-> rest]
         [] tag = "int" -> [v |-> Number(Head(ins)[2]), rest |-> rest]
         [] tag = "bool" -> [v |-> Bool(Head(ins)[2]), rest |-> rest]
         [] tag = "atom" ->
                LET u == Unpack(rest) IN [v |-> AtomOf(u.v), rest |-> u.rest]
         [] tag = "vec" ->
                LET u == UnpackItems(rest, Head(ins)[2])
                IN [v |-> Vec(u.items), rest |-> u.rest]
         [] tag = "dict" -> UnpackPairs(rest, Head(ins)[2], << >>)

UnpackItems(ins, n) ==
    IF n = 0 THEN [items |-> << >>, rest |-> ins]
    ELSE LET first == Unpack(ins)  others == UnpackItems(first.rest, n - 1)
         IN [items |-> <<first.v>> \o others.items, rest |-> others.rest]

\* assoc(unpack(), unpack()): the key is read first.
UnpackPairs(ins, n, m) ==
    IF n = 0 THEN [v |-> Dict(m), rest |-> ins]
    ELSE LET key == Unpack(ins)
             value == Unpack(key.rest)
         IN UnpackPairs(value.rest, n - 1, (key.v.str :> value.v) @@ m)

-----------------------------------------------------------------------------
(* Nodes. A node has a name and parts; a local also the index it is bound  *)
(* to, and, while its function is read, the place in the order of reading  *)
(* by which Reader::current_locals knows it.                               *)

Node(op, name, parts) == [op |-> op, name |-> name, parts |-> parts]
Local(name, index) == [op |-> "local", name |-> name, index |-> index, parts |-> << >>]
Data(v) == [op |-> "data", v |-> v, parts |-> << >>]

\* stmts_as_expr
StmtsAsExpr(stmts) ==
    CASE stmts = << >> -> Node("do", "", <<Node("literal", "nil", << >>)>>)
      [] Len(stmts) = 1 -> stmts[1]
      [] OTHER -> Node("do", "", stmts)

StringKeys == {"name", "value", "from"}
ListKeys == {"stmts", "if_stmts", "else_stmts", "args", "imports", "parms", "locals", "freevars"}

Given(keys, key) == IF key \in DOMAIN keys THEN keys[key] ELSE << >>

\* What the readers need to find among the keys; they throw without it.
Needed(type, keys) ==
    CASE type = "module" -> {"stmts"}
      [] type = "define" -> {"name", IF "expr" \in DOMAIN keys THEN "expr" ELSE "data"}
      [] type = "struct_field" -> {"name", "data"}
      [] type = "struct" -> {"name", "stmts"}
      [] type = "let" -> {"name", "expr"}
      [] type = "call" -> {"line", "expr"}
      [] type \in {"return", "if_else_statement"} -> {"expr"}
      [] type = "import" -> {"from", "imports"}
      [] type = "recur" -> {"args"}
      [] type = "function" -> {"parms", "locals", "freevars"}
      [] type \in {"symbol", "global", "local", "builtin", "integer",
                   "keyword", "string", "boolean"} -> {"value"}
      [] type \in {"vector", "dict"} -> {}
      [] OTHER -> {"an unknown type of node"}

\* read_module, read_define, read_struct_field, read_struct
TopLevelNode(type, keys) ==
    CASE type = "module" -> Node("module", "", keys["stmts"])
      [] type = "struct" -> Node("struct", keys["name"], keys["stmts"])
      [] type \in {"define", "struct_field"} ->
            Node("define", keys["name"],
                 <<IF "expr" \in DOMAIN keys THEN keys["expr"] ELSE Data(keys["data"])>>)

\* read_let, read_symbol, read_global
NameNode(type, keys) ==
    IF type = "let" THEN Node("let", keys["name"], <<keys["expr"]>>)
    ELSE Node(type, keys["value"], << >>)

\* read_if_else_statement, read_return, read_call: with data, a call does not
\* throw the error it gets.
StatementNode(type, keys) ==
    CASE type = "return" -> Node("return", "", <<keys["expr"]>>)
      [] type = "call" -> Node("apply", IF "data" \in DOMAIN keys THEN "as value" ELSE "throws",
                               <<keys["expr"]>> \o Given(keys, "args"))
      [] type = "if_else_statement" ->
            Node("branch", "", <<keys["expr"], StmtsAsExpr(Given(keys, "if_stmts")),
                                 StmtsAsExpr(Given(keys, "else_stmts"))>>)

\* read_builtin and the literals; the elements of a vector or a dictionary are
\* not in its node.
LiteralNode(type, keys) ==
    Node(IF type = "builtin" THEN "builtin" ELSE "literal",
         IF type \in {"vector", "dict"} THEN type ELSE keys["value"], << >>)

\* read_builtin throws on a name that is not known, read_integer on a value
\* that std::stoi cannot hold in an int.
LiteralThrows(type, keys) ==
    \/ type = "builtin" /\ keys["value"] \notin Builtins
    \/ type = "integer" /\ keys["value"] \in BigIntegers
    \/ type = "boolean" /\ keys["value"] \notin {"true", "false"}

\* read_recur, read_import
RecurOrImport(type, keys) ==
    IF type = "recur" THEN Node("recur", "", keys["args"])
    ELSE Node("import", keys["from"], keys["imports"])

\* Function::Function: the index of a parameter or a local, counted from one; of
\* two with one name, the later. Zero is none.
LocalIndex(symbols, name) ==
    LET places == {i \in DOMAIN symbols : symbols[i].name = name}
    IN IF places = {} THEN 0 ELSE CHOOSE i \in places : \A j \in places : j <= i

FunctionNode(keys) ==
    Node("function", IF "name" \in DOMAIN keys THEN keys["name"] ELSE "<unknown>",
         <<StmtsAsExpr(Given(keys, "stmts")), Node("parameters", "", keys["parms"]),
           Node("locals", "", keys["locals"]), Node("freevars", "", keys["freevars"])>>)

\* The node of a type with its keys, as each of the readers makes it.
MadeNode(type, keys) ==
    CASE type \in {"module", "define", "struct_field", "struct"} -> TopLevelNode(type, keys)
      [] type \in {"let", "symbol", "global"} -> NameNode(type, keys)
      [] type \in {"if_else_statement", "return", "call"} -> StatementNode(type, keys)
      [] type \in {"recur", "import"} -> RecurOrImport(type, keys)
      [] type = "function" -> FunctionNode(keys)
      [] OTHER -> LiteralNode(type, keys)

-----------------------------------------------------------------------------
(* The Reader: what is left of the tokens, current_locals (for each of the *)
(* functions being read, its locals), the locals read so far with the      *)
(* index each is bound to, and whether something was thrown.               *)

\* read_keys: the keys of a node, after its type, with what they hold.
RECURSIVE ReadNode(_), ReadNodes(_, _), ReadKeys(_, _, _)
ReadKeys(s, n, keys) ==
    IF n = 0 \/ s.thrown THEN [s |-> s, keys |-> keys]
    ELSE LET key == Head(s.ins)[2]
             after == [s EXCEPT !.ins = Tail(@)]
             read(v, then) == ReadKeys(then, n - 1, (key :> v) @@ keys)
         IN CASE key = "data" ->
                   LET u == Unpack(after.ins) IN read(u.v, [after EXCEPT !.ins = u.rest])
              [] key \in StringKeys \cup {"line"} ->
                   read(Head(after.ins)[2], [after EXCEPT !.ins = Tail(@)])
              [] key = "expr" -> LET r == ReadNode(after) IN read(r.node, r.s)
              [] key \in ListKeys ->
                   LET r == ReadNodes([after EXCEPT !.ins = Tail(@)], Head(after.ins)[2])
                   IN read(r.nodes, r.s)
              [] OTHER -> [s |-> [s EXCEPT !.thrown = TRUE], keys |-> keys]

ReadNodes(s, n) ==
    IF n = 0 \/ s.thrown THEN [s |-> s, nodes |-> << >>]
    ELSE LET first == ReadNode(s)  others == ReadNodes(first.s, n - 1)
         IN [s |-> others.s, nodes |-> <<first.node>> \o others.nodes]

\* read_local: the local belongs to the innermost function being read.
ReadLocal(s, keys) ==
    LET id == Len(s.index) + 1
    IN [s |-> [s EXCEPT !.index = Append(@, 0),
                        !.locals[Len(s.locals)] = Append(@, [id |-> id, name |-> keys["value"]])],
        node |-> Local(keys["value"], id)]

\* Each of the locals gets its index among the parameters and locals.
BindLocals(s, keys, locals) ==
    LET symbols == keys["parms"] \o keys["locals"]
        indexOf(i) == LocalIndex(symbols, (CHOOSE x \in ToSet(locals) : x.id = i).name)
        ids == {x.id : x \in ToSet(locals)}
    IN [s |-> [s EXCEPT !.locals = Front(@),
                        !.index = [i \in DOMAIN @ |-> IF i \in ids THEN indexOf(i) ELSE @[i]],
                        !.thrown = \E i \in ids : indexOf(i) = 0],
        node |-> FunctionNode(keys)]

\* A slip: the locals of a function stay with the function around it, too.
FaultReadFunction(s, keys) ==
    LET depth == Len(s.locals)
        r == BindLocals(s, keys, Last(s.locals))
    IN IF depth = 1 THEN r
       ELSE [r EXCEPT !.s.locals[depth - 1] = @ \o s.locals[depth]]

\* read_function: binds the locals read since it began.
ReadFunction(s, keys) == BindLocals(s, keys, Last(s.locals))

\* read_node: a map whose first key is the type. A function opens a list of
\* locals before its keys are read.
ReadNode(s) ==
    LET count == Head(s.ins)[2]
        type == s.ins[3][2]
        opened == [s EXCEPT !.ins = SubSeq(@, 4, Len(@)),
                            !.locals = IF type = "function" THEN Append(@, << >>) ELSE @]
        r == ReadKeys(opened, count - 1, << >>)
    IN CASE r.s.thrown \/ s.ins[2][2] # "type" \/ ~(Needed(type, r.keys) \subseteq DOMAIN r.keys)
            \/ LiteralThrows(type, r.keys) ->
              [s |-> [r.s EXCEPT !.thrown = TRUE], node |-> Node("none", "", << >>)]
         [] OTHER ->
              CASE type = "local" -> ReadLocal(r.s, r.keys)
                [] type = "function" -> ReadFunction(r.s, r.keys)
                [] OTHER -> [s |-> r.s, node |-> MadeNode(type, r.keys)]

\* The tree with each local at the index its function bound it to.
RECURSIVE Resolved(_, _)
Resolved(node, index) ==
    LET parts == Each(node.parts, LAMBDA part : Resolved(part, index))
    IN IF node.op = "local" THEN [node EXCEPT !.index = index[@]]
       ELSE [node EXCEPT !.parts = parts]

\* Reader::read
Read(tokens) ==
    LET r == ReadNode([ins |-> tokens, locals |-> << >>, index |-> << >>, thrown |-> FALSE])
    IN [thrown |-> r.s.thrown, left |-> r.s.ins,
        tree |-> IF r.s.thrown THEN r.node ELSE Resolved(r.node, r.s.index)]

-----------------------------------------------------------------------------
(* What the tree of dictionaries means, read without a detour: a local is  *)
(* a parameter or a local of the function it stands in.                    *)

RECURSIVE Meaning(_, _)
Meaning(v, symbols) ==
    LET nodes(x, inside) == Each(x.items, LAMBDA item : Meaning(item, inside))
        type == v.m["type"].str
        names(key) == IF type = "function" THEN nodes(v.m[key], << >>) ELSE << >>
        own == IF type = "function" THEN names("parms") \o names("locals") ELSE symbols
        held(key) == CASE key = "data" -> v.m[key]
                       [] key \in StringKeys -> v.m[key].str
                       [] key = "line" -> v.m[key].int
                       [] key = "expr" -> Meaning(v.m[key], own)
                       [] OTHER -> nodes(v.m[key], own)
        keys == FoldSet(LAMBDA key, done : (key :> held(key)) @@ done, << >>,
                        DOMAIN v.m \ {"type"})
    IN IF type = "local" THEN Local(keys["value"], LocalIndex(symbols, keys["value"]))
       ELSE MadeNode(type, keys)
=============================================================================
