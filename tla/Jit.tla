--------------------------------- MODULE Jit --------------------------------
(***************************************************************************)
(* Compiled functions and the frames they run in: what compiler.cc emits   *)
(* for a syntax tree, and what the calls it emits do to the stack, the     *)
(* frames and the links of a fiber (fiber.cc, stack.h, frame.h). Call      *)
(* sites hold the target of the last dispatch and are shared by all        *)
(* fibers. An instruction is atomic; a call reads its site and enters, or  *)
(* finds a wrong target, writes the site and tries again. A fiber that     *)
(* blocks leaves the code and is resumed later, with a value or an error.  *)
(* Machine registers and the native stack, which stays flat, are left out; *)
(* calls with a wrong number of arguments are not made.                    *)
(***************************************************************************)
EXTENDS Integers, Sequences, SequencesExt

CONSTANTS
    Fibers,
    Functions,   \* by name: [arity, locals, body]; one is __apply_defers__
    Mains,       \* what a fiber may start with: [fun, free]
    Sites        \* the call sites of Functions

VARIABLES
    main,        \* of each fiber: the closure it runs
    fiber,       \* of each fiber: its machine
    target       \* Apply::target_ of each call site

vars == <<main, fiber, target>>

Nil == [k |-> "nil"]
Err == [k |-> "error"]
Val(x) == [k |-> "val", v |-> x]
Fun(name, free) == [k |-> "fun", name |-> name, free |-> free]
Builtin(name) == [k |-> "builtin", name |-> name]
List(items) == [k |-> "list", items |-> items]

Truth(v) ==
    CASE v.k = "list" -> v.items # << >>
      [] v.k = "val" -> v.v = "true"
      [] OTHER -> TRUE

Applied(callable, args, throws, site) ==
    [t |-> "apply", callable |-> callable, args |-> args, throws |-> throws, site |-> site]

\* APPLY_DEFERS: __apply_defers__(__defers__).
ExecDefers ==
    Applied([t |-> "sym", name |-> "__apply_defers__"], <<[t |-> "defers"]>>, TRUE, "defers")

\* The code of an expression, one operator per visit_ function. A jump adds to
\* the position after it; goto is to a label of the function.
RECURSIVE Compiled(_)
Compiled(e) ==
    LET all(es) == FoldLeft(LAMBDA code, x : code \o Compiled(x), << >>, es)
        defers == Compiled(ExecDefers) \o <<<<"pop">>>>
    IN CASE e.t = "lit" -> <<<<"push", e.v>>>>
         [] e.t = "sym" ->
                <<<<"push", IF e.name \in DOMAIN Functions THEN Fun(e.name, << >>)
                            ELSE Builtin(e.name)>>>>
         [] e.t = "defers" -> <<<<"defers">>>>
         [] e.t \in {"local", "free"} -> <<<<e.t, e.i>>>>
         [] e.t = "let" -> Compiled(e.e) \o <<<<"let", e.i>>>>
         [] e.t = "do" ->
                FoldLeft(LAMBDA code, x : code \o <<<<"pop">>>> \o Compiled(x),
                         Compiled(Head(e.es)), Tail(e.es))
         [] e.t = "branch" ->
                LET a == Compiled(e.a)
                    b == Compiled(e.b)
                IN Compiled(e.c) \o <<<<"bool">>, <<"jz", Len(a) + 1>>>>
                       \o a \o <<<<"jmp", Len(b)>>>> \o b
         [] e.t = "return" -> Compiled(e.e) \o <<<<"goto", "return">>>>
         [] e.t = "recur" ->
                all(e.args) \o <<<<"check_defers">>, <<"jz", Len(defers)>>>> \o defers
                    \o <<<<"recur", Len(e.args)>>, <<"goto", "recur">>>>
         [] e.t = "fun" -> <<<<"fun", e.name, e.free>>>>
         [] e.t = "apply" ->
                Compiled(e.callable) \o all(e.args)
                    \o <<<<"call", Len(e.args), e.throws, e.site>>>>

\* The code of a function after its prolog, and the position of return_label.
CodeOf(f) ==
    LET defers == Compiled(ExecDefers) \o <<<<"pop">>>>
    IN <<<<"checkpoint">>>> \o Compiled(f.body)
           \o <<<<"check_defers">>, <<"jz", Len(defers)>>>> \o defers \o <<<<"epilog">>>>

Code == [name \in DOMAIN Functions |-> CodeOf(Functions[name])]

ReturnLabel == [name \in DOMAIN Functions |-> Len(Compiled(Functions[name].body)) + 2]
RecurLabel == 1

-----------------------------------------------------------------------------
Entry == [fun |-> "entry", pc |-> 0]    \* the link of the first frame

Advance(f, n) == [f EXCEPT !.ip.pc = @ + n]
Push(f, v) == [f EXCEPT !.stack = Append(@, v)]
Pop(f, n) == [f EXCEPT !.stack = SubSeq(@, 1, Len(@) - n)]
Frame(f) == Last(f.frames)

\* What the fiber says of itself when it has ended (post_exit).
Ended(f, code) ==
    [f EXCEPT !.status = "ended", !.code = code, !.stack = << >>,
              !.result = IF code = 2 THEN Nil ELSE Last(f.stack)]

\* Where a call returns to, with the code rax (check_return_label).
Return(f, link, rax) ==
    IF link = Entry THEN Ended(f, rax)
    ELSE [f EXCEPT !.ip = IF rax = 0 THEN link ELSE [link EXCEPT !.pc = ReturnLabel[link.fun]]]

\* pop_frame: v takes the place of the callable and all above it.
PopFrame(f, v) ==
    [f EXCEPT !.stack = Append(SubSeq(@, 1, Frame(f).base - 1), v),
              !.frames = Front(@), !.links = Front(@)]

\* exec_function_prolog, once the site has the right target.
Prolog(f, callee, argc, throws) ==
    LET locals == Functions[callee.name].locals
    IN [f EXCEPT !.frames = Append(@, [base |-> Len(f.stack) - argc, argc |-> argc,
                                       locals |-> locals, throws |-> throws,
                                       defers |-> << >>]),
                 !.links = Append(@, [f.ip EXCEPT !.pc = @ + 1]),
                 !.stack = @ \o [i \in 1 .. locals |-> Nil],
                 !.ip = [fun |-> callee.name, pc |-> 1]]

\* exec_exit: a frame for the builtin that leaves the code.
Exit(f, argc) ==
    [f EXCEPT !.frames = Append(@, [base |-> Len(f.stack) - argc, argc |-> argc, locals |-> 0,
                                    throws |-> TRUE, defers |-> << >>]),
              !.links = Append(@, [f.ip EXCEPT !.pc = @ + 1])]

Defer(f, closure) ==
    [f EXCEPT !.frames[Len(f.frames)].defers = <<closure>> \o @]

\* A builtin with its arguments on the stack: note stands for any that does
\* something to be seen, fail for one that throws, block for one that blocks.
CallBuiltin(f, name, argc) ==
    LET arg == IF argc = 0 THEN Nil ELSE Last(f.stack)
        done(g, v) == Advance(Push(Pop(g, argc + 1), v), 1)
    IN CASE name = "note" -> done([f EXCEPT !.log = Append(@, arg)], arg)
         [] name = "defer" -> done(Defer(f, arg), arg)
         [] name = "first" -> done(f, Head(arg.items))
         [] name = "next" -> done(f, List(Tail(arg.items)))
         [] name = "error" -> done(f, Err)
         [] name = "fail" -> Return(done(f, Err), [f.ip EXCEPT !.pc = @ + 1], 1)
         [] name = "exit" -> Ended(Exit(f, argc), 2)
         [] name = "block" -> [Exit(f, argc) EXCEPT !.status = "blocked"]

\* exec_function_epilog: an error that is returned is thrown.
Epilog(f) ==
    LET v == Last(f.stack)
    IN Return(PopFrame(f, v), Last(f.links), IF v = Err /\ Frame(f).throws THEN 1 ELSE 0)

FaultRecur(f, n) ==
    [f EXCEPT !.stack =
         SubSeq(@, 1, Frame(f).base) \o SubSeq(@, Len(@) - n + 1, Len(@)),
              !.frames[Len(f.frames)].defers = << >>]

\* exec_recur: the arguments move down over the parameters (Stack::recur).
Recur(f, n) ==
    LET size == Len(f.stack)
        start == size - 2 * n - Frame(f).locals
        args == SubSeq(f.stack, size - n + 1, size)
    IN [f EXCEPT !.stack = SubSeq(@, 1, start) \o args \o SubSeq(@, start + n + 1, size - n),
                 !.frames[Len(f.frames)].defers = << >>]

\* One instruction that is no call.
Exec(f, ins) ==
    LET op == ins[1]
        slot == Frame(f).base
        local(i) == f.stack[slot + i]
    IN CASE op = "checkpoint" -> Advance(f, 1)
         [] op = "push" -> Advance(Push(f, ins[2]), 1)
         [] op = "local" -> Advance(Push(f, local(ins[2])), 1)
         [] op = "free" -> Advance(Push(f, f.stack[slot].free[ins[2]]), 1)
         [] op = "defers" -> Advance(Push(f, List(Frame(f).defers)), 1)
         [] op = "let" -> Advance([f EXCEPT !.stack[slot + ins[2]] = Last(f.stack)], 1)
         [] op = "pop" -> Advance(Pop(f, 1), 1)
         [] op = "bool" ->
                Advance([Pop(f, 1) EXCEPT !.rax = IF Truth(Last(f.stack)) THEN 1 ELSE 0], 1)
         [] op = "check_defers" ->
                Advance([f EXCEPT !.rax = IF Frame(f).defers # << >> THEN 1 ELSE 0], 1)
         [] op = "jz" -> Advance(f, IF f.rax = 0 THEN 1 + ins[2] ELSE 1)
         [] op = "jmp" -> Advance(f, 1 + ins[2])
         [] op = "goto" ->
                [f EXCEPT !.ip.pc = IF ins[2] = "return" THEN ReturnLabel[f.ip.fun] ELSE RecurLabel]
         [] op = "fun" ->
                Advance(Push(f, Fun(ins[2], [j \in DOMAIN ins[3] |-> local(ins[3][j])])), 1)
         [] op = "recur" -> Advance(Recur(f, ins[2]), 1)
         [] op = "epilog" -> Epilog(f)

-----------------------------------------------------------------------------
Instruction(f) == Code[f.ip.fun][f.ip.pc]

Callee(f, argc) == f.stack[Len(f.stack) - argc]

\* The first call of a fiber is not made by code: it finds no site.
Init ==
    /\ main \in [Fibers -> Mains]
    /\ fiber = [b \in Fibers |->
                   [stack |-> <<Fun(main[b].fun, main[b].free)>> \o
                              [i \in 1 .. Functions[main[b].fun].locals |-> Nil],
                    frames |-> <<[base |-> 1, argc |-> 0, throws |-> TRUE, defers |-> << >>,
                                  locals |-> Functions[main[b].fun].locals]>>,
                    links |-> <<Entry>>, ip |-> [fun |-> main[b].fun, pc |-> 1], rax |-> 0,
                    log |-> << >>, status |-> "running", code |-> 0, result |-> Nil]]
    /\ target = [s \in Sites |-> "exec_dispatch"]

Run(b) ==
    /\ fiber[b].status = "running"
    /\ Instruction(fiber[b])[1] # "call"
    /\ fiber' = [fiber EXCEPT ![b] = Exec(@, Instruction(@))]
    /\ UNCHANGED <<main, target>>

\* The target that dispatch finds for a callable is its code, which tests that it
\* was meant; only that of exit does not (_exit).
Matches(t, callee) == t \in {callee.name, "exit"}

FaultCall(b) ==
    LET f == fiber[b]
        argc == Instruction(f)[2]
        t == target[Instruction(f)[4]]
        callee == IF t = "exec_dispatch" THEN Callee(f, argc)
                  ELSE IF t \in DOMAIN Functions THEN Fun(t, << >>) ELSE Builtin(t)
    IN
    /\ f.status = "running"
    /\ Instruction(f)[1] = "call"
    /\ fiber' = [fiber EXCEPT ![b] =
                     IF callee.k = "fun" THEN Prolog(f, callee, argc, Instruction(f)[3])
                     ELSE CallBuiltin(f, callee.name, argc)]
    /\ target' = [target EXCEPT ![Instruction(f)[4]] = callee.name]
    /\ UNCHANGED main

\* A call whose site has a target that takes this callable.
Call(b) ==
    LET f == fiber[b]
        argc == Instruction(f)[2]
        callee == Callee(f, argc)
        t == target[Instruction(f)[4]]
    IN
    /\ f.status = "running"
    /\ Instruction(f)[1] = "call"
    /\ Matches(t, callee)
    /\ fiber' = [fiber EXCEPT ![b] =
                     IF callee.k = "fun" /\ t # "exit" THEN Prolog(f, callee, argc, Instruction(f)[3])
                     ELSE CallBuiltin(f, t, argc)]
    /\ UNCHANGED <<main, target>>

\* exec_dispatch: another target was there; the fiber tries again.
Dispatch(b) ==
    LET f == fiber[b]
        callee == Callee(f, Instruction(f)[2])
    IN
    /\ f.status = "running"
    /\ Instruction(f)[1] = "call"
    /\ ~Matches(target[Instruction(f)[4]], callee)
    /\ target' = [target EXCEPT ![Instruction(f)[4]] = callee.name]
    /\ UNCHANGED <<main, fiber>>

\* resume_sync and resume_async: the argument of block says how it turns out.
Resume(b) ==
    LET f == fiber[b]
        v == Last(f.stack)
    IN
    /\ f.status = "blocked"
    /\ fiber' = [fiber EXCEPT ![b] =
                     Return([PopFrame(f, v) EXCEPT !.status = "running"], Last(f.links),
                            IF v = Err THEN 1 ELSE 0)]
    /\ UNCHANGED <<main, target>>

Next == \E b \in Fibers : Run(b) \/ Call(b) \/ Dispatch(b) \/ Resume(b)

Spec == Init /\ [][Next]_vars

-----------------------------------------------------------------------------
(* What a program means. An evaluation is [v, sig, locals, free, defers,    *)
(* log]; sig says whether to go on.                                         *)

RECURSIVE Eval(_, _), Loop(_, _)

\* A function ends by value, by error or by exit; its defers run but for exit.
CallFun(callee, args, log) ==
    Loop(Functions[callee.name],
         [v |-> Nil, sig |-> "go", free |-> callee.free, defers |-> << >>, log |-> log,
          locals |-> args \o [i \in 1 .. Functions[callee.name].locals |-> Nil]])

Deferred(s) ==
    FoldLeft(LAMBDA t, d :
                 IF t.sig = "exit" THEN t
                 ELSE LET r == CallFun(d, << >>, t.log)
                      IN [t EXCEPT !.log = r.log, !.sig = IF r.sig = "exit" THEN "exit" ELSE @],
             s, s.defers)

Loop(fn, s) ==
    LET r == Eval(fn.body, s)
        d == Deferred(r)
    IN IF r.sig = "exit" THEN r
       ELSE IF r.sig = "recur" /\ d.sig # "exit"
       THEN Loop(fn, [d EXCEPT !.sig = "go", !.defers = << >>, !.v = Nil,
                               !.locals = r.v \o SubSeq(@, fn.arity + 1, Len(@))])
       ELSE d

EvalAll(es, s) ==
    FoldLeft(LAMBDA acc, e :
                 IF acc.s.sig # "go" THEN acc
                 ELSE LET r == Eval(e, acc.s) IN [s |-> r, vs |-> Append(acc.vs, r.v)],
             [s |-> s, vs |-> << >>], es)

Applying(s, callee, args, throws) ==
    LET arg == IF args = << >> THEN Nil ELSE args[1]
        r == CallFun(callee, args, s.log)
    IN IF callee.k = "fun"
       THEN [s EXCEPT !.log = r.log, !.v = r.v,
                      !.sig = IF r.sig = "exit" THEN "exit"
                              ELSE IF r.v = Err /\ throws THEN "throw" ELSE "go"]
       ELSE CASE callee.name = "note" -> [s EXCEPT !.v = arg, !.log = Append(@, arg)]
              [] callee.name = "defer" -> [s EXCEPT !.v = arg, !.defers = <<arg>> \o @]
              [] callee.name = "error" -> [s EXCEPT !.v = Err]
              [] callee.name = "fail" -> [s EXCEPT !.v = Err, !.sig = "throw"]
              [] callee.name = "block" ->
                     [s EXCEPT !.v = arg, !.sig = IF arg = Err THEN "throw" ELSE "go"]
              [] callee.name = "exit" -> [s EXCEPT !.v = Nil, !.sig = "exit"]

Eval(e, s) ==
    CASE e.t = "lit" -> [s EXCEPT !.v = e.v]
      [] e.t = "sym" ->
             [s EXCEPT !.v = IF e.name \in DOMAIN Functions THEN Fun(e.name, << >>)
                             ELSE Builtin(e.name)]
      [] e.t = "local" -> [s EXCEPT !.v = s.locals[e.i]]
      [] e.t = "free" -> [s EXCEPT !.v = s.free[e.i]]
      [] e.t = "let" ->
             LET r == Eval(e.e, s)
             IN IF r.sig = "go" THEN [r EXCEPT !.locals[e.i] = r.v] ELSE r
      [] e.t = "do" -> EvalAll(e.es, s).s
      [] e.t = "branch" ->
             LET r == Eval(e.c, s)
             IN IF r.sig # "go" THEN r ELSE Eval(IF Truth(r.v) THEN e.a ELSE e.b, r)
      [] e.t = "return" ->
             LET r == Eval(e.e, s) IN IF r.sig = "go" THEN [r EXCEPT !.sig = "return"] ELSE r
      [] e.t = "recur" ->
             LET r == EvalAll(e.args, s)
             IN IF r.s.sig = "go" THEN [r.s EXCEPT !.v = r.vs, !.sig = "recur"] ELSE r.s
      [] e.t = "fun" ->
             [s EXCEPT !.v = Fun(e.name, [j \in DOMAIN e.free |-> s.locals[e.free[j]]])]
      [] e.t = "apply" ->
             LET c == Eval(e.callable, s)
                 r == EvalAll(e.args, c)
             IN IF r.s.sig # "go" THEN r.s ELSE Applying(r.s, c.v, r.vs, e.throws)

Meaning ==
    [m \in Mains |->
        LET r == CallFun([name |-> m.fun, free |-> m.free], << >>, << >>)
        IN [log |-> r.log, result |-> r.v,
            code |-> IF r.sig = "exit" THEN 2 ELSE IF r.v = Err THEN 1 ELSE 0]]

-----------------------------------------------------------------------------
\* A fiber does and returns what its program means, whatever another fiber
\* leaves in the call sites they share, wherever it blocks, and whichever way
\* its functions end: value, return, recur, an error of a callee or of a
\* builtin, an error that a call takes as a value, or exit. Deferred calls run
\* last in first out at the end of the function or before it recurs.
RunsAsWritten ==
    \A b \in Fibers :
        fiber[b].status = "ended" =>
            [log |-> fiber[b].log, result |-> fiber[b].result, code |-> fiber[b].code]
                = Meaning[main[b]]

\* The frames of a fiber nest: each has its callable, arguments and locals below
\* the next one's callable, the callable of a frame of code is the function the
\* code is of, and a link lies in the function of the frame below.
FramesNest ==
    \A b \in Fibers :
        LET f == fiber[b]
            n == Len(f.frames)
        IN f.status # "ended" =>
               /\ Len(f.links) = n
               /\ \A i \in 1 .. n :
                      LET fr == f.frames[i]
                          above == IF i = n THEN Len(f.stack) + 1 ELSE f.frames[i + 1].base
                      IN fr.base + fr.argc + fr.locals < above
               /\ \A i \in 2 .. n : f.links[i].fun = f.stack[f.frames[i - 1].base].name
               /\ f.status = "running" => f.ip.fun = f.stack[Frame(f).base].name
=============================================================================
