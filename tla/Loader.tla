------------------------------- MODULE Loader -------------------------------
(***************************************************************************)
(* Loading a program (Loader in runtime.cc, Namespace): the main module    *)
(* and, from a stack, the modules it and they import, each compiled if its *)
(* packed form is missing or older than its source, then read, and its     *)
(* definitions put in a new namespace; at last the imports of the main     *)
(* module are linked. A definition is known by its namespace and its name. *)
(* A file is its source (None if the compiler refuses it), the packed form *)
(* beside it, the source that was packed, and whether the source is newer. *)
(* The modules of the boot, prelude and compiler, are left out.            *)
(***************************************************************************)
EXTENDS PackedCode

CONSTANTS
    Programs,     \* what there may be to load: files by path, the main one under Main
    Main,         \* the path given to the program
    Orders        \* the orders in which maps may iterate over their keys

VARIABLES
    files,        \* the files of the program, by path
    stage,        \* Loader::stage_, then "run", or "thrown"
    todo,         \* Loader::todo_: paths and names
    visited,      \* Loader::visited_: names
    modules,      \* Runtime::modules_: a namespace by name
    spaces        \* the namespaces: name, path, tree, and what they bind

loaderVars == <<files, stage, todo, visited, modules, spaces>>

None == [k |-> "none"]
MainName == "__main__"

LoaderInit ==
    /\ files \in Programs
    /\ stage = "load"
    /\ todo = <<[path |-> Main, name |-> MainName]>>
    /\ visited = {}
    /\ modules = << >>
    /\ spaces = << >>

\* Every source, what it is packed to, and what the Reader makes of that.
Sources == UNION {{p[path].source, p[path].old} : <<p, path>> \in
                    UNION {{p} \X DOMAIN p : p \in Programs}} \ {None}
Packed == [source \in Sources |-> [order \in Orders |-> Pack(source, order, FALSE)]]
Reading == [tokens \in {Packed[source][order] : source \in Sources, order \in Orders} |->
                Read(tokens)]

\* RuntimeImpl::compile. The compiler reports an error and leaves the packed
\* form as it is; the loader reads that.
Compile(file, order) ==
    IF (file.packed = << >> \/ file.newer) /\ file.source # None
    THEN [file EXCEPT !.packed = Packed[file.source][order],
                      !.old = file.source, !.newer = FALSE]
    ELSE file

Imports(tree) == SelectSeq(tree.parts, LAMBDA node : node.op = "import")
Defines(tree) == SelectSeq(tree.parts, LAMBDA node : node.op = "define")
Names(nodes) == [i \in DOMAIN nodes |-> nodes[i].name]

\* visit_import: the modules to load, unless they have been.
Pushed(tree, seen) ==
    LET from == SelectSeq(Names(Imports(tree)), LAMBDA name : name \notin seen)
    IN [i \in DOMAIN from |-> [path |-> from[i], name |-> from[i]]]

\* Namespace::define throws on a name that is bound.
CanDefine(names, bound) ==
    /\ \A i, j \in DOMAIN names : names[i] = names[j] => i = j
    /\ ToSet(names) \cap bound = {}

Throw == stage' = "thrown" /\ UNCHANGED <<todo, visited, modules, spaces>>

\* One round of the first loop of load_main_module.
Load ==
    /\ stage = "load" /\ todo # << >>
    /\ \E order \in Orders :
        LET next == Last(todo)
            file == IF next.path \in DOMAIN files THEN Compile(files[next.path], order) ELSE None
            seen == visited \cup {next.name}
            n == Len(spaces) + 1
            read == Reading[file.packed]
            defined == Names(Defines(read.tree))
        IN IF file = None \/ file.packed = << >> THEN Throw /\ UNCHANGED files
           ELSE /\ files' = [files EXCEPT ![next.path] = file]
                /\ IF read.thrown \/ ~CanDefine(defined, {}) THEN Throw
                   ELSE /\ todo' = Front(todo) \o Pushed(read.tree, seen)
                        /\ visited' = seen
                        /\ modules' = (next.name :> n) @@ modules
                        /\ spaces' = Append(spaces,
                               [name |-> next.name, path |-> next.path, tree |-> read.tree,
                                globals |-> [x \in ToSet(defined) |-> <<n, x>>]])
                        /\ UNCHANGED stage

\* A slip: nothing is left to link.
FaultStartLinking ==
    /\ stage = "load" /\ todo = << >>
    /\ stage' = "link"
    /\ UNCHANGED <<files, todo, visited, modules, spaces>>

\* Everything is loaded; linking starts with the main module.
StartLinking ==
    /\ stage = "load" /\ todo = << >>
    /\ stage' = "link"
    /\ todo' = <<[path |-> Main, name |-> MainName]>>
    /\ UNCHANGED <<files, visited, modules, spaces>>

\* A slip: the first namespace of that name, where there are two.
FaultOrigin(import) ==
    LET made == {i \in DOMAIN spaces : spaces[i].name = import.name}
    IN CHOOSE i \in made : \A j \in made : i <= j

\* Where the symbols of an import are looked up.
Origin(import) == modules[import.name]

\* One round of the second loop: visit_import looks every symbol up in its
\* module and binds it in the one that imports it. What has been loaded has
\* been visited, so that no other module is pushed, or linked.
Link ==
    /\ stage = "link" /\ todo # << >>
    /\ LET next == Last(todo)
           n == modules[next.name]
           imports == Imports(spaces[n].tree)
           origins == FlattenSeq([i \in DOMAIN imports |->
                        [j \in DOMAIN imports[i].parts |-> spaces[Origin(imports[i])].globals]])
           symbols == FlattenSeq([i \in DOMAIN imports |-> Names(imports[i].parts)])
       IN IF \/ \E i \in DOMAIN symbols : symbols[i] \notin DOMAIN origins[i]
             \/ ~CanDefine(symbols, DOMAIN spaces[n].globals)
          THEN Throw
          ELSE /\ spaces' = [spaces EXCEPT ![n].globals = @ @@
                    [x \in ToSet(symbols) |->
                        origins[CHOOSE i \in DOMAIN symbols : symbols[i] = x][x]]]
               /\ todo' = Front(todo) \o Pushed(spaces[n].tree, visited)
               /\ visited' = visited \cup {next.name}
               /\ UNCHANGED <<stage, modules>>
    /\ UNCHANGED files

\* Runtime::run finds the function main.
Start ==
    /\ stage = "link" /\ todo = << >>
    /\ IF "main" \in DOMAIN spaces[modules[MainName]].globals
       THEN stage' = "run" /\ UNCHANGED <<todo, visited, modules, spaces>>
       ELSE Throw
    /\ UNCHANGED files

LoaderNext == Load \/ StartLinking \/ Link \/ Start

-----------------------------------------------------------------------------
(* Properties. *)

Meant == [source \in Sources |-> Meaning(source, << >>)]

\* The nodes a module runs mean what its source says, whatever order the keys
\* of the packed maps had (pack.cc:199, ast.cc:591): each local is bound in its
\* own function. The source is an older one only if it was refused or is not
\* newer than the packed form (runtime.cc:318).
ReadsAsWritten ==
    \A i \in DOMAIN spaces :
        LET file == files[spaces[i].path]
        IN /\ spaces[i].tree = Meant[file.old]
           /\ file.old = file.source \/ file.source = None \/ ~file.newer

\* At the start every module that can be reached is loaded; the main module
\* binds its definitions and, to the definitions of the module it names, each
\* of its imports; every other module binds only its own definitions, with its
\* imports left unbound (runtime.cc:471).
NamesBound ==
    stage = "run" =>
        /\ \A i \in DOMAIN spaces : \A node \in ToSet(Imports(spaces[i].tree)) :
            node.name \in DOMAIN modules
        /\ \A i \in DOMAIN spaces :
            LET space == spaces[i]
                imports == IF space.name = MainName THEN ToSet(Imports(space.tree)) ELSE {}
                imported == UNION {ToSet(Names(node.parts)) : node \in imports}
            IN /\ DOMAIN space.globals = ToSet(Names(Defines(space.tree))) \cup imported
               /\ \A x \in DOMAIN space.globals \ imported : space.globals[x] = <<i, x>>
               /\ \A node \in imports : \A x \in ToSet(Names(node.parts)) :
                    space.globals[x] = <<modules[node.name], x>>
=============================================================================
