------------------------------ MODULE Startup -------------------------------
(***************************************************************************)
(* A program from its files to its calls: the Loader, and, once it has     *)
(* started, workers that use what was loaded for the first time.           *)
(***************************************************************************)
EXTENDS Loader, FirstUse

CONSTANTS MaxSpaces, Identifiers

Definitions == (1..MaxSpaces) \X Identifiers

ASSUME StartupAssumption == Functions = Definitions

DefineNode(d) ==
    LET nodes == IF d[1] \in DOMAIN spaces THEN Defines(spaces[d[1]].tree) ELSE << >>
    IN SelectSeq(nodes, LAMBDA node : node.name = d[2])

\* The names of the globals in a tree, in the order of evaluation. Functions
\* within it are taken to be called where they stand.
RECURSIVE Mentioned(_)
Mentioned(node) ==
    IF node.op = "global" THEN <<node.name>>
    ELSE FlattenSeq([i \in DOMAIN node.parts |-> Mentioned(node.parts[i])])

Mentions == [d \in Definitions |->
                LET nodes == DefineNode(d) IN IF nodes = << >> THEN << >> ELSE Mentioned(nodes[1])]

Scope == [d \in Definitions |->
            IF d[1] \in DOMAIN spaces THEN spaces[d[1]].globals ELSE << >>]

Closures == {d \in Definitions :
                \E node \in ToSet(DefineNode(d)) : node.parts[1].op = "function"}

startupVars == <<files, stage, todo, visited, modules, spaces, main, closures, uses, scope, pc, fn, at, got,
                 calls, memory, code, compiling, value, initialized, unbound>>

StartupInit ==
    /\ LoaderInit
    /\ main = NoFunction /\ closures = {}
    /\ uses = [d \in Definitions |-> << >>] /\ scope = [d \in Definitions |-> << >>]
    /\ Unused

\* What the loader made is given to the workers when the program starts.
Loading ==
    /\ LoaderNext
    /\ IF stage' = "run"
       THEN /\ main' = spaces[modules[MainName]].globals["main"]
            /\ closures' = Closures /\ uses' = Mentions /\ scope' = Scope
       ELSE UNCHANGED program
    /\ UNCHANGED useVars

Using(w) == stage = "run" /\ Step(w) /\ UNCHANGED <<loaderVars, program>>

StartupNext == Loading \/ \E w \in Workers : Using(w)

\* The thread that loads runs: weak fairness of Loading, which is enabled, and
\* takes the only steps there are, until the program runs or something is thrown.
LoadingRuns ==
    []<>(stage \in {"run", "thrown"}) \/ []<><<stage \in {"load", "link"}>>_startupVars

StartupSpec ==
    /\ StartupInit /\ [][StartupNext]_startupVars
    /\ LoadingRuns /\ \A w \in Workers : WF_startupVars(Using(w))

-----------------------------------------------------------------------------
(* Properties. *)

\* A program that has started fails at a global only in a module that is not
\* the main one, and only at a name that module imports (runtime.cc:471,
\* ast.cc:141): every other name a module mentions is bound at its first use.
OnlyImportsUnbound ==
    \A p \in unbound :
        LET space == spaces[p[1][1]]
            name == uses[p[1]][p[2]]
        IN /\ space.name # MainName
           /\ \E node \in ToSet(Imports(space.tree)) : name \in ToSet(Names(node.parts))

\* A program with modules that import each other ends: its loading throws, a
\* global is not found, or all the calls return, those too that waited for
\* another worker to compile (runtime.cc:467, compiler.cc:371).
RunCompletes ==
    <>(stage = "thrown" \/ unbound # {} \/ (stage = "run" /\ Done))
=============================================================================
