------------------------------ MODULE FirstUse ------------------------------
(***************************************************************************)
(* What is left to the first use of a function or a global: compiling the  *)
(* function (Compiler::code, by the first worker that dispatches to it,    *)
(* while others wait) and looking the global up in the namespace of its    *)
(* module (Global::initialize, once for each place that mentions it). Both *)
(* are tested without a lock first. A definition is a member of Functions; *)
(* what the loader made of the program is given: the closures among the    *)
(* definitions, the globals each mentions, in order, and what its module   *)
(* binds. The value of a global is the definition it is bound to. A worker *)
(* makes at most MaxCalls calls.                                           *)
(***************************************************************************)
EXTENDS Integers, Sequences

CONSTANTS Workers, Functions, NoFunction, MaxUses, MaxCalls

VARIABLES
    main,         \* the function the program starts with
    closures,     \* the definitions that can be called
    uses,         \* of each definition: the names of the globals it mentions
    scope         \* of each definition: what its module binds, by name

VARIABLES
    pc, fn, at,   \* of each worker: where it is, its function, the next global
    got,          \* of each worker: the address of the code it runs
    calls,        \* of each worker: the calls it has made
    memory,       \* the code memory: copies of functions, with who made them
    code,         \* Function::code_: an address, or 0
    compiling,    \* Compiler::Impl::compiling_
    value,        \* Global::value_ of each place
    initialized,  \* the places whose initialized_ is set
    unbound       \* the place whose global was not found: the program ends

program == <<main, closures, uses, scope>>
useVars == <<pc, fn, at, got, calls, memory, code, compiling, value, initialized, unbound>>
vars == <<main, closures, uses, scope, pc, fn, at, got, calls, memory, code, compiling,
          value, initialized, unbound>>

Places == Functions \X (1..MaxUses)
Place(w) == <<fn[w], at[w]>>

Parameters == NoFunction \notin Functions /\ MaxUses \in Nat

\* What the loader gives: a value for every name a module binds, and no
\* definition with more than MaxUses globals.
Loaded ==
    /\ closures \subseteq Functions
    /\ \A f \in Functions :
        /\ Len(uses[f]) \in 0..MaxUses
        /\ \A name \in DOMAIN scope[f] : scope[f][name] \in Functions

\* Nothing was called yet.
Unused ==
    /\ pc = [w \in Workers |-> "idle"]
    /\ fn = [w \in Workers |-> NoFunction]
    /\ at = [w \in Workers |-> 1]
    /\ got = [w \in Workers |-> 0]
    /\ calls = [w \in Workers |-> 0]
    /\ memory = << >>
    /\ code = [f \in Functions |-> 0]
    /\ compiling = {}
    /\ value = [p \in Places |-> NoFunction]
    /\ initialized = {}
    /\ unbound = {}

Init == Loaded /\ Unused

\* Compiler::Impl::lock_ is held from the copy to the notification; lock_ of a
\* global from its value to its flag.
LockFree == \A w \in Workers : pc[w] \notin {"copy", "publish"}
PlaceFree(p) == \A w \in Workers : ~(pc[w] = "flag" /\ Place(w) = p)

GoTo(w, step) == pc' = [pc EXCEPT ![w] = step]

-----------------------------------------------------------------------------
(* Compiler::code *)

\* A worker calls main, or a function it or another one got from a global: the
\* test of code_ without the lock.
Call(w, f) ==
    /\ pc[w] = "idle" /\ calls[w] < MaxCalls
    /\ f \in closures
    /\ f = main \/ \E p \in initialized : value[p] = f
    /\ fn' = [fn EXCEPT ![w] = f]
    /\ at' = [at EXCEPT ![w] = 1]
    /\ calls' = [calls EXCEPT ![w] = @ + 1]
    /\ GoTo(w, IF code[f] = 0 THEN "lock" ELSE "return")
    /\ UNCHANGED <<got, memory, code, compiling, value, initialized, unbound>>

\* With the lock: another worker is at it, which is waited for unless code_ is set
\* by now (an earlier compilation), or this one compiles, without the lock. Who
\* compiles does not test code_ again.
Enter(w) ==
    /\ pc[w] = "lock" /\ LockFree
    /\ IF fn[w] \in compiling
       THEN GoTo(w, IF code[fn[w]] = 0 THEN "wait" ELSE "return") /\ UNCHANGED compiling
       ELSE GoTo(w, "compile") /\ compiling' = compiling \cup {fn[w]}
    /\ UNCHANGED <<fn, at, got, calls, memory, code, value, initialized, unbound>>

\* A copy of its function, by w.
CopyBy(w, whole) == [fun |-> fn[w], by |-> w, whole |-> whole]

\* A slip: code_ is set as the copying starts.
FaultCopy(w) ==
    /\ pc[w] = "compile" /\ LockFree
    /\ memory' = Append(memory, CopyBy(w, FALSE))
    /\ code' = [code EXCEPT ![fn[w]] = Len(memory) + 1]
    /\ GoTo(w, "copy")
    /\ UNCHANGED <<fn, at, got, calls, compiling, value, initialized, unbound>>

\* Compiled; takes the lock again and starts to copy (make_executable).
Copy(w) ==
    /\ pc[w] = "compile" /\ LockFree
    /\ memory' = Append(memory, CopyBy(w, FALSE))
    /\ GoTo(w, "copy")
    /\ UNCHANGED <<fn, at, got, calls, code, compiling, value, initialized, unbound>>

\* A slip: code_ is left as it was.
FaultPublish(w) ==
    /\ pc[w] = "copy"
    /\ memory' = [memory EXCEPT ![Len(memory)] = CopyBy(w, TRUE)]
    /\ GoTo(w, "publish")
    /\ UNCHANGED <<fn, at, got, calls, code, compiling, value, initialized, unbound>>

\* The code is whole; code_ gets its address.
Publish(w) ==
    /\ pc[w] = "copy"
    /\ memory' = [memory EXCEPT ![Len(memory)] = CopyBy(w, TRUE)]
    /\ code' = [code EXCEPT ![fn[w]] = Len(memory)]
    /\ GoTo(w, "publish")
    /\ UNCHANGED <<fn, at, got, calls, compiling, value, initialized, unbound>>

\* A slip: those who wait are not told.
FaultNotify(w) ==
    /\ pc[w] = "publish"
    /\ compiling' = compiling \ {fn[w]}
    /\ GoTo(w, "return")
    /\ UNCHANGED <<fn, at, got, calls, memory, code, value, initialized, unbound>>

\* Everyone who waits wakes, for whatever function, and the lock is released.
Notify(w) ==
    /\ pc[w] = "publish"
    /\ compiling' = compiling \ {fn[w]}
    /\ pc' = [x \in Workers |-> IF x = w THEN "return"
                                ELSE IF pc[x] = "wait" THEN "woken" ELSE pc[x]]
    /\ UNCHANGED <<fn, at, got, calls, memory, code, value, initialized, unbound>>

Waken(w) ==
    /\ pc[w] = "woken" /\ LockFree
    /\ GoTo(w, IF code[fn[w]] = 0 THEN "wait" ELSE "return")
    /\ UNCHANGED <<fn, at, got, calls, memory, code, compiling, value, initialized, unbound>>

\* code_ is read once more, and the worker jumps there.
Return(w) ==
    /\ pc[w] = "return"
    /\ got' = [got EXCEPT ![w] = code[fn[w]]]
    /\ GoTo(w, "run")
    /\ UNCHANGED <<fn, at, calls, memory, code, compiling, value, initialized, unbound>>

-----------------------------------------------------------------------------
(* exec_global and Global::initialize *)

ExecGlobal(w) ==
    /\ pc[w] = "run" /\ at[w] <= Len(uses[fn[w]])
    /\ IF Place(w) \in initialized
       THEN at' = [at EXCEPT ![w] = @ + 1] /\ UNCHANGED pc
       ELSE GoTo(w, "initialize") /\ UNCHANGED at
    /\ UNCHANGED <<fn, got, calls, memory, code, compiling, value, initialized, unbound>>

Initialize(w) ==
    LET name == uses[fn[w]][at[w]] IN
    /\ pc[w] = "initialize" /\ PlaceFree(Place(w))
    /\ \/ /\ Place(w) \in initialized
          /\ GoTo(w, "run")
          /\ UNCHANGED <<value, unbound>>
       \/ /\ Place(w) \notin initialized /\ name \in DOMAIN scope[fn[w]]
          /\ value' = [value EXCEPT ![Place(w)] = scope[fn[w]][name]]
          /\ GoTo(w, "flag")
          /\ UNCHANGED unbound
       \/ /\ Place(w) \notin initialized /\ name \notin DOMAIN scope[fn[w]]
          /\ unbound' = {Place(w)}
          /\ UNCHANGED <<pc, value>>
    /\ UNCHANGED <<fn, at, got, calls, memory, code, compiling, initialized>>

SetInitialized(w) ==
    /\ pc[w] = "flag"
    /\ initialized' = initialized \cup {Place(w)}
    /\ GoTo(w, "run")
    /\ UNCHANGED <<fn, at, got, calls, memory, code, compiling, value, unbound>>

Finish(w) ==
    /\ pc[w] = "run" /\ at[w] > Len(uses[fn[w]])
    /\ GoTo(w, "idle")
    /\ UNCHANGED <<fn, at, got, calls, memory, code, compiling, value, initialized, unbound>>

-----------------------------------------------------------------------------

\* An exception that leaves compiled code ends the program.
Step(w) ==
    /\ unbound = {}
    /\ \/ \E f \in Functions : Call(w, f)
       \/ Enter(w) \/ Copy(w) \/ Publish(w) \/ Notify(w) \/ Waken(w) \/ Return(w)
       \/ ExecGlobal(w) \/ Initialize(w) \/ SetInitialized(w) \/ Finish(w)

Next == \E w \in Workers : Step(w)

\* The loader gives the workers their program.
LoaderGives == Unused /\ Loaded' /\ UNCHANGED useVars

Spec == Init /\ [][(Next /\ UNCHANGED program) \/ LoaderGives]_vars

Done == \A w \in Workers : pc[w] = "idle" /\ calls[w] = MaxCalls

-----------------------------------------------------------------------------
(* Properties. *)

\* Whoever runs code runs a whole copy of the function it called, and whoever
\* finds a global initialized finds its value there: both are tested without
\* the lock that is held while they are made (compiler.cc:367, fiber.cc:288).
UsesAreWhole ==
    /\ \A w \in Workers :
        pc[w] \in {"run", "initialize", "flag"} =>
            /\ got[w] \in DOMAIN memory
            /\ memory[got[w]].fun = fn[w] /\ memory[got[w]].whole
    /\ \A p \in initialized : value[p] # NoFunction

\* A function may be compiled more than once, since code_ is not tested again
\* with the lock (compiler.cc:369), but by no worker twice: the code memory,
\* which never shrinks, holds at most as many copies as there are workers.
OncePerWorker ==
    \A i, j \in DOMAIN memory :
        memory[i].fun = memory[j].fun /\ memory[i].by = memory[j].by => i = j
=============================================================================
