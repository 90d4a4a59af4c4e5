--------------------------- MODULE FirstUseProofs ---------------------------
(***************************************************************************)
(* Theorems of FirstUse, for any program, any number of workers and calls. *)
(* The inductive invariant says, besides the types, who has a function     *)
(* under compilation and what the code memory holds of it.                 *)
(***************************************************************************)
EXTENDS FirstUse, TLAPS

Steps == {"idle", "lock", "compile", "copy", "publish", "wait", "woken", "return",
          "run", "initialize", "flag"}

\* The copies in the code memory.
CopyRecord == [fun : Functions, by : Workers, whole : BOOLEAN]

WorkersTyped ==
    /\ pc \in [Workers -> Steps]
    /\ fn \in [Workers -> Functions \cup {NoFunction}]
    /\ at \in [Workers -> Nat \ {0}]
    /\ got \in [Workers -> Nat]
    /\ \A w \in Workers : pc[w] # "idle" => fn[w] \in Functions

TablesTyped ==
    /\ memory \in Seq(CopyRecord)
    /\ code \in [Functions -> Nat]
    /\ value \in [Places -> Functions \cup {NoFunction}]
    /\ initialized \subseteq Places

Typed == WorkersTyped /\ TablesTyped

\* One worker at a time has the lock of the compiler.
Locking ==
    \A w, v \in Workers :
        pc[w] \in {"copy", "publish"} /\ pc[v] \in {"copy", "publish"} => w = v

\* A function that is compiled is compiled by one worker.
Compiling ==
    /\ \A w \in Workers : pc[w] \in {"compile", "copy", "publish"} => fn[w] \in compiling
    /\ \A w, v \in Workers :
        /\ pc[w] \in {"compile", "copy", "publish"} /\ pc[v] \in {"compile", "copy", "publish"}
        /\ fn[w] = fn[v]
        => w = v

\* The copy that is under way is the last one of the memory.
Copying ==
    \A w \in Workers : pc[w] = "copy" =>
        Len(memory) > 0 /\ memory[Len(memory)].fun = fn[w] /\ memory[Len(memory)].by = w

\* An address in code_ is that of a whole copy of the function.
CodeWhole ==
    \A f \in Functions : code[f] # 0 =>
        /\ code[f] \in DOMAIN memory
        /\ memory[code[f]].fun = f /\ memory[code[f]].whole

\* Who returns from Compiler::code finds an address; who runs has run from one.
Running ==
    /\ \A w \in Workers : pc[w] \in {"publish", "return"} => code[fn[w]] # 0
    /\ \A w \in Workers : pc[w] \in {"run", "initialize", "flag"} =>
        /\ got[w] \in DOMAIN memory
        /\ memory[got[w]].fun = fn[w] /\ memory[got[w]].whole

\* A worker about to compile a function has made no copy of it: once it has
\* made one, code_ is set before it calls again.
Fresh ==
    /\ \A w \in Workers : pc[w] \in {"lock", "compile"} =>
        \A i \in DOMAIN memory : ~(memory[i].fun = fn[w] /\ memory[i].by = w)
    /\ \A i \in DOMAIN memory :
        \/ code[memory[i].fun] # 0
        \/ pc[memory[i].by] = "copy" /\ fn[memory[i].by] = memory[i].fun

\* The value of a global is there before its flag.
Binding ==
    /\ \A w \in Workers : pc[w] \in {"initialize", "flag"} => at[w] <= Len(uses[fn[w]])
    /\ \A w \in Workers : pc[w] = "flag" => value[Place(w)] # NoFunction
    /\ \A p \in initialized : value[p] # NoFunction

Inv ==
    /\ Loaded /\ Typed /\ Locking /\ Compiling /\ Copying /\ CodeWhole /\ Running
    /\ Fresh /\ Binding /\ OncePerWorker

-----------------------------------------------------------------------------
(* Facts about the code memory. *)

\* A copy is appended: the others stay where they are.
LEMMA Appended ==
    ASSUME NEW s \in Seq(CopyRecord), NEW e \in CopyRecord
    PROVE  /\ Append(s, e) \in Seq(CopyRecord)
           /\ Len(Append(s, e)) = Len(s) + 1 /\ Len(s) \in Nat
           /\ DOMAIN Append(s, e) = 1..(Len(s) + 1) /\ DOMAIN s = 1..Len(s)
           /\ Append(s, e)[Len(s) + 1] = e
           /\ \A i \in 1..Len(s) : Append(s, e)[i] = s[i]
    OBVIOUS

\* One element is replaced: the others stay as they are.
LEMMA Replaced ==
    ASSUME NEW s \in Seq(CopyRecord), NEW n \in 1..Len(s), NEW e \in CopyRecord
    PROVE  /\ [s EXCEPT ![n] = e] \in Seq(CopyRecord) /\ Len([s EXCEPT ![n] = e]) = Len(s)
           /\ DOMAIN [s EXCEPT ![n] = e] = 1..Len(s) /\ DOMAIN s = 1..Len(s)
           /\ \A i \in 1..Len(s) : [s EXCEPT ![n] = e][i] = IF i = n THEN e ELSE s[i]
    OBVIOUS

\* Copy appends a copy of the worker's function.
LEMMA CopyAppended ==
    ASSUME Typed, NEW w \in Workers, Copy(w)
    PROVE  /\ memory' \in Seq(CopyRecord) /\ Len(memory) \in Nat /\ Len(memory') = Len(memory) + 1
           /\ DOMAIN memory' = 1..(Len(memory) + 1) /\ DOMAIN memory = 1..Len(memory)
           /\ memory'[Len(memory) + 1].fun = fn[w] /\ memory'[Len(memory) + 1].by = w
           /\ \A i \in 1..Len(memory) : memory'[i] = memory[i]
<1>1. CopyBy(w, FALSE) \in CopyRecord /\ memory \in Seq(CopyRecord)
  BY DEF CopyBy, CopyRecord, Copy, Typed, WorkersTyped, TablesTyped
<1>2. memory' = Append(memory, CopyBy(w, FALSE))
  BY DEF Copy
<1>. DEFINE m == Append(memory, CopyBy(w, FALSE))
<1>3. /\ m \in Seq(CopyRecord) /\ Len(m) = Len(memory) + 1 /\ Len(memory) \in Nat
      /\ DOMAIN m = 1..(Len(memory) + 1) /\ DOMAIN memory = 1..Len(memory)
      /\ m[Len(memory) + 1] = CopyBy(w, FALSE)
      /\ \A i \in 1..Len(memory) : m[i] = memory[i]
  BY <1>1, Appended
<1>4. CopyBy(w, FALSE).fun = fn[w] /\ CopyBy(w, FALSE).by = w
  BY DEF CopyBy
<1>5. memory' = m
  BY <1>2
<1>. HIDE DEF m
<1>. QED BY <1>3, <1>4, <1>5

\* Publish makes the last copy whole and changes nothing else.
LEMMA LastIsWhole ==
    ASSUME Typed, Copying, NEW w \in Workers, Publish(w)
    PROVE  /\ memory' \in Seq(CopyRecord)
           /\ Len(memory) \in Nat \ {0} /\ Len(memory') = Len(memory)
           /\ DOMAIN memory' = DOMAIN memory /\ DOMAIN memory = 1..Len(memory)
           /\ \A i \in DOMAIN memory :
                memory'[i].fun = memory[i].fun /\ memory'[i].by = memory[i].by
           /\ \A i \in DOMAIN memory : memory[i].whole => memory'[i].whole
           /\ memory'[Len(memory)].whole
           /\ memory[Len(memory)].fun = fn[w] /\ memory[Len(memory)].by = w
<1>1. memory \in Seq(CopyRecord) /\ Len(memory) > 0
      /\ memory[Len(memory)].fun = fn[w] /\ memory[Len(memory)].by = w
  BY DEF Typed, TablesTyped, Copying, Publish
<1>2. Len(memory) \in Nat \ {0} /\ DOMAIN memory = 1..Len(memory)
  BY <1>1
<1>3. CopyBy(w, TRUE) \in CopyRecord
  BY DEF CopyBy, CopyRecord, Publish, Typed, WorkersTyped
<1>4. memory' = [memory EXCEPT ![Len(memory)] = CopyBy(w, TRUE)]
  BY DEF Publish
<1>5. Len(memory) \in 1..Len(memory) /\ memory \in Seq(CopyRecord)
  BY <1>1, <1>2
<1>. DEFINE m == [memory EXCEPT ![Len(memory)] = CopyBy(w, TRUE)]
<1>6. /\ m \in Seq(CopyRecord) /\ Len(m) = Len(memory)
      /\ DOMAIN m = 1..Len(memory) /\ DOMAIN memory = 1..Len(memory)
      /\ \A i \in 1..Len(memory) : m[i] = IF i = Len(memory) THEN CopyBy(w, TRUE) ELSE memory[i]
  BY <1>3, <1>5, Replaced, Zenon
<1>. QED BY <1>1, <1>2, <1>4, <1>6 DEF CopyBy

-----------------------------------------------------------------------------
(* Types. *)

\* The initial state has its type.
LEMMA InitTyped == Init => Typed
  BY DEF Init, Unused, Loaded, Typed, WorkersTyped, TablesTyped, Steps, CopyRecord

\* What the loader gave stays as it is.
LEMMA LoadedStays == Loaded /\ [Next /\ UNCHANGED program]_vars => Loaded'
  BY DEF Loaded, program, vars

\* A worker that initializes a global is at one of the places there are.
LEMMA PlaceThere ==
    ASSUME Parameters, Loaded, Typed, Binding, NEW w \in Workers, pc[w] \in {"initialize", "flag"}
    PROVE  Place(w) \in Places
<1>1. fn[w] \in Functions /\ at[w] \in Nat \ {0}
  BY DEF Typed, WorkersTyped
<1>2. at[w] <= Len(uses[fn[w]]) /\ Len(uses[fn[w]]) \in 0..MaxUses
  BY <1>1 DEF Binding, Loaded
<1>. QED BY <1>1, <1>2 DEF Place, Places, Parameters

\* Each step keeps the types.
LEMMA StepTyped ==
    ASSUME Parameters, Loaded, Typed, Copying, Binding, NEW w \in Workers, Step(w)
    PROVE  Typed'
<1>. USE DEF Typed, WorkersTyped, TablesTyped, Steps
<1>1. ASSUME NEW f \in Functions, Call(w, f) PROVE Typed'
  BY <1>1 DEF Call, GoTo
<1>2. CASE Enter(w)
  BY <1>2 DEF Enter, GoTo
<1>3. CASE Copy(w)
  <2>2. memory' \in Seq(CopyRecord)
    BY <1>3, CopyAppended
  <2>. QED BY <1>3, <2>2 DEF Copy, GoTo
<1>4. CASE Publish(w)
  <2>1. memory' \in Seq(CopyRecord) /\ Len(memory) \in Nat
    BY <1>4, LastIsWhole
  <2>2. code' \in [Functions -> Nat] /\ pc' \in [Workers -> Steps]
    BY <1>4, <2>1 DEF Publish, GoTo
  <2>3. \A x \in Workers : pc'[x] # "idle" => fn'[x] \in Functions
    BY <1>4 DEF Publish, GoTo
  <2>. QED BY <1>4, <2>1, <2>2, <2>3 DEF Publish
<1>5. CASE Notify(w)
  BY <1>5 DEF Notify
<1>6. CASE Waken(w) \/ Finish(w)
  BY <1>6 DEF Waken, Finish, GoTo
<1>10. CASE ExecGlobal(w)
  <2>1. at[w] + 1 \in Nat \ {0}
    OBVIOUS
  <2>. QED BY <1>10, <2>1 DEF ExecGlobal, GoTo
<1>9. CASE Return(w)
  <2>1. code[fn[w]] \in Nat
    BY <1>9 DEF Return
  <2>. QED BY <1>9, <2>1 DEF Return, GoTo
<1>7. CASE Initialize(w)
  <2>. DEFINE name == uses[fn[w]][at[w]]
  <2>1. ASSUME name \in DOMAIN scope[fn[w]] PROVE scope[fn[w]][name] \in Functions
    BY <1>7, <2>1 DEF Initialize, Loaded
  <2>2. value' \in [Places -> Functions \cup {NoFunction}]
    BY <1>7, <2>1 DEF Initialize
  <2>. QED BY <1>7, <2>2 DEF Initialize, GoTo
<1>8. CASE SetInitialized(w)
  BY <1>8, PlaceThere DEF SetInitialized, GoTo
<1>. QED BY <1>1, <1>2, <1>3, <1>4, <1>5, <1>6, <1>7, <1>8, <1>9, <1>10 DEF Step

-----------------------------------------------------------------------------
(* What a step leaves alone. *)

\* A step of w changes nothing of another worker, except that it may wake.
LEMMA OthersStay ==
    ASSUME Typed, NEW w \in Workers, Step(w), NEW v \in Workers, v # w
    PROVE  /\ fn'[v] = fn[v] /\ at'[v] = at[v] /\ got'[v] = got[v]
           /\ pc'[v] = pc[v] \/ (pc[v] = "wait" /\ pc'[v] = "woken")
<1>. USE DEF Typed, WorkersTyped
<1>1. ASSUME NEW f \in Functions, Call(w, f) PROVE fn'[v] = fn[v] /\ at'[v] = at[v] /\ pc'[v] = pc[v] /\ got' = got
  BY <1>1 DEF Call, GoTo
<1>2. CASE Enter(w) \/ Copy(w) \/ Publish(w) \/ Waken(w)
  BY <1>2 DEF Enter, Copy, Publish, Waken, GoTo
<1>3. CASE Notify(w)
  BY <1>3 DEF Notify
<1>4. CASE Return(w) \/ ExecGlobal(w)
  BY <1>4 DEF Return, ExecGlobal, GoTo
<1>5. CASE Initialize(w) \/ SetInitialized(w) \/ Finish(w)
  BY <1>5 DEF Initialize, SetInitialized, Finish, GoTo
<1>. QED BY <1>1, <1>2, <1>3, <1>4, <1>5 DEF Step

\* Only Copy and Publish write the code memory, only Publish sets code_.
LEMMA TablesStay ==
    ASSUME NEW w \in Workers, Step(w)
    PROVE  /\ ~Copy(w) /\ ~Publish(w) => memory' = memory
           /\ ~Publish(w) => code' = code
  BY DEF Step, Call, Enter, Copy, Publish, Notify, Waken, Return, ExecGlobal, Initialize,
         SetInitialized, Finish

-----------------------------------------------------------------------------
(* The compiler. *)

LEMMA StepLocking ==
    ASSUME Typed, Locking, NEW w \in Workers, Step(w)
    PROVE  Locking'
<1>1. pc'[w] \in {"copy", "publish"} => \A v \in Workers : v # w => pc[v] \notin {"copy", "publish"}
  BY DEF Typed, WorkersTyped, Locking, LockFree, Step, Call, Enter, Copy, Publish, Notify, Waken,
         Return, ExecGlobal, Initialize, SetInitialized, Finish, GoTo
<1>2. \A v \in Workers : v # w /\ pc'[v] \in {"copy", "publish"} => pc[v] \in {"copy", "publish"}
  BY OthersStay
<1>. QED BY <1>1, <1>2 DEF Locking

LEMMA StepCompiling ==
    ASSUME Typed, Compiling, NEW w \in Workers, Step(w)
    PROVE  Compiling'
<1>. DEFINE Busy == {"compile", "copy", "publish"}
<1>0. \A v \in Workers : v # w => fn'[v] = fn[v] /\ (pc'[v] \in Busy => pc[v] \in Busy)
  BY OthersStay
<1>1. CASE Enter(w)
  <2>1. pc'[w] \in Busy => fn'[w] = fn[w] /\ fn[w] \notin compiling /\ compiling' = compiling \cup {fn[w]}
    BY <1>1 DEF Enter, GoTo, Typed, WorkersTyped
  <2>2. compiling \subseteq compiling'
    BY <1>1 DEF Enter
  <2>. QED BY <1>0, <2>1, <2>2 DEF Compiling
<1>2. CASE Notify(w)
  <2>1. compiling' = compiling \ {fn[w]} /\ pc'[w] = "return" /\ pc[w] \in Busy
    BY <1>2 DEF Notify, Typed, WorkersTyped
  <2>. QED BY <1>0, <2>1 DEF Compiling
<1>3. CASE Copy(w) \/ Publish(w)
  <2>1. compiling' = compiling /\ fn' = fn /\ pc[w] \in Busy
    BY <1>3 DEF Copy, Publish
  <2>. QED BY <1>0, <2>1 DEF Compiling
<1>4. CASE ~Enter(w) /\ ~Notify(w) /\ ~Copy(w) /\ ~Publish(w)
  <2>1. compiling' = compiling /\ pc'[w] \notin Busy
    BY <1>4 DEF Typed, WorkersTyped, Step, Call, Waken, Return, ExecGlobal, Initialize,
                SetInitialized, Finish, GoTo
  <2>. QED BY <1>0, <2>1 DEF Compiling
<1>. QED BY <1>1, <1>2, <1>3, <1>4

LEMMA StepCopying ==
    ASSUME Typed, Locking, Copying, NEW w \in Workers, Step(w)
    PROVE  Copying'
<1>0. memory \in Seq(CopyRecord) /\ Len(memory) \in Nat
  BY DEF Typed, TablesTyped
<1>1. CASE Copy(w)
  <2>1. \A v \in Workers : v # w => pc'[v] # "copy"
    BY <1>1, OthersStay DEF Copy, LockFree
  <2>2. fn' = fn
    BY <1>1 DEF Copy
  <2>. QED BY <1>1, <2>1, <2>2, CopyAppended DEF Copying
<1>2. CASE Publish(w)
  <2>1. \A v \in Workers : v # w => pc'[v] # "copy"
    BY <1>2, OthersStay DEF Publish, Locking
  <2>2. pc'[w] = "publish"
    BY <1>2 DEF Publish, GoTo, Typed, WorkersTyped
  <2>. QED BY <2>1, <2>2 DEF Copying
<1>3. CASE ~Copy(w) /\ ~Publish(w)
  <2>1. memory' = memory
    BY <1>3, TablesStay
  <2>2. pc'[w] # "copy"
    BY <1>3 DEF Typed, WorkersTyped, Step, Call, Enter, Notify, Waken, Return, ExecGlobal,
                Initialize, SetInitialized, Finish, GoTo
  <2>. QED BY <2>1, <2>2, OthersStay DEF Copying
<1>. QED BY <1>1, <1>2, <1>3

\* Whatever is in the memory, with whom it is from, stays in it.
LEMMA MemoryGrows ==
    ASSUME Typed, Copying, NEW w \in Workers, Step(w), NEW i \in DOMAIN memory
    PROVE  /\ i \in DOMAIN memory'
           /\ memory'[i].fun = memory[i].fun /\ memory'[i].by = memory[i].by
           /\ memory[i].whole => memory'[i].whole
<1>0. memory \in Seq(CopyRecord)
  BY DEF Typed, TablesTyped
<1>1. CASE Copy(w)
  BY <1>1, CopyAppended
<1>2. CASE Publish(w)
  BY <1>2, LastIsWhole
<1>3. CASE ~Copy(w) /\ ~Publish(w)
  BY <1>3, TablesStay
<1>. QED BY <1>1, <1>2, <1>3

LEMMA StepCodeWhole ==
    ASSUME Typed, Copying, CodeWhole, NEW w \in Workers, Step(w)
    PROVE  CodeWhole'
<1>1. CASE Publish(w)
  <2>1. code' = [code EXCEPT ![fn[w]] = Len(memory)] /\ fn[w] \in Functions
    BY <1>1 DEF Publish, Typed, WorkersTyped
  <2>2. /\ Len(memory) \in DOMAIN memory' /\ memory'[Len(memory)].fun = fn[w]
        /\ memory'[Len(memory)].whole
    BY <1>1, LastIsWhole
  <2>. QED BY <2>1, <2>2, MemoryGrows DEF CodeWhole, Typed, TablesTyped
<1>2. CASE ~Publish(w)
  <2>1. code' = code
    BY <1>2, TablesStay
  <2>. QED BY <2>1, MemoryGrows DEF CodeWhole
<1>. QED BY <1>1, <1>2

\* An address is never taken back.
LEMMA CodeStays ==
    ASSUME Typed, Copying, NEW w \in Workers, Step(w), NEW f \in Functions, code[f] # 0
    PROVE  code'[f] # 0
<1>1. CASE Publish(w)
  BY <1>1, LastIsWhole DEF Publish, Typed, TablesTyped
<1>2. CASE ~Publish(w)
  BY <1>2, TablesStay
<1>. QED BY <1>1, <1>2

LEMMA StepRunning ==
    ASSUME Typed, Copying, CodeWhole, Running, NEW w \in Workers, Step(w)
    PROVE  Running'
<1>. DEFINE Runs == {"run", "initialize", "flag"}
            Whole(v) == /\ got[v] \in DOMAIN memory
                        /\ memory[got[v]].fun = fn[v] /\ memory[got[v]].whole
<1>1. ASSUME NEW v \in Workers, v # w, pc'[v] \in {"publish", "return"} PROVE code'[fn'[v]] # 0
  <2>1. pc[v] \in {"publish", "return"} /\ fn'[v] = fn[v] /\ fn[v] \in Functions
    BY <1>1, OthersStay DEF Typed, WorkersTyped
  <2>. QED BY <2>1, CodeStays DEF Running
<1>2. ASSUME pc'[w] \in {"publish", "return"} PROVE code'[fn'[w]] # 0
  <2>1. CASE Publish(w)
    <3>1. Len(memory) \in Nat \ {0}
      BY <2>1, LastIsWhole
    <3>. QED BY <2>1, <3>1 DEF Publish, Typed, TablesTyped, WorkersTyped
  <2>2. CASE Notify(w)
    BY <2>2 DEF Notify, Running
  <2>3. CASE Waken(w)
    BY <1>2, <2>3 DEF Waken, GoTo, Typed, WorkersTyped
  <2>4. ASSUME NEW f \in Functions, Call(w, f) PROVE code'[fn'[w]] # 0
    BY <1>2, <2>4 DEF Call, GoTo, Typed, WorkersTyped
  <2>5. CASE Enter(w)
    BY <1>2, <2>5 DEF Enter, GoTo, Typed, WorkersTyped
  <2>6. CASE Copy(w) \/ Return(w) \/ ExecGlobal(w) \/ Initialize(w)
             \/ SetInitialized(w) \/ Finish(w)
    <3>1. pc'[w] \notin {"publish", "return"}
      BY <2>6 DEF Copy, Return, ExecGlobal, Initialize, SetInitialized, Finish, GoTo,
                  Typed, WorkersTyped
    <3>. QED BY <1>2, <3>1
  <2>. QED BY <2>1, <2>2, <2>3, <2>4, <2>5, <2>6 DEF Step
<1>3. ASSUME NEW v \in Workers, Whole(v), got'[v] = got[v], fn'[v] = fn[v] PROVE Whole(v)'
  BY <1>3, MemoryGrows
<1>4. ASSUME NEW v \in Workers, v # w, pc'[v] \in Runs PROVE Whole(v)'
  <2>1. pc[v] \in Runs /\ got'[v] = got[v] /\ fn'[v] = fn[v]
    BY <1>4, OthersStay
  <2>. QED BY <2>1, <1>3 DEF Running
<1>5. ASSUME pc'[w] \in Runs PROVE Whole(w)'
  <2>1. CASE Return(w)
    <3>1. got'[w] = code[fn[w]] /\ memory' = memory /\ fn' = fn /\ fn[w] \in Functions
      BY <2>1 DEF Return, Typed, WorkersTyped
    <3>2. code[fn[w]] # 0
      BY <2>1 DEF Return, Running
    <3>. QED BY <3>1, <3>2 DEF CodeWhole
  <2>2. CASE ExecGlobal(w) \/ Initialize(w) \/ SetInitialized(w) \/ Finish(w)
    <3>1. pc[w] \in Runs /\ got' = got /\ fn' = fn
      BY <2>2 DEF ExecGlobal, Initialize, SetInitialized, Finish
    <3>. QED BY <3>1, <1>3 DEF Running
  <2>3. CASE Enter(w) \/ Copy(w) \/ Publish(w) \/ Notify(w) \/ Waken(w)
    <3>1. pc'[w] \notin Runs
      BY <2>3 DEF Enter, Copy, Publish, Notify, Waken, GoTo, Typed, WorkersTyped
    <3>. QED BY <1>5, <3>1
  <2>4. ASSUME NEW f \in Functions, Call(w, f) PROVE pc'[w] \notin Runs
    BY <2>4 DEF Call, GoTo, Typed, WorkersTyped
  <2>. QED BY <1>5, <2>1, <2>2, <2>3, <2>4 DEF Step
<1>. QED BY <1>1, <1>2, <1>4, <1>5 DEF Running

LEMMA StepFresh ==
    ASSUME Typed, Copying, Running, Fresh, NEW w \in Workers, Step(w)
    PROVE  Fresh'
<1>. DEFINE None(v) == \A i \in DOMAIN memory : ~(memory[i].fun = fn[v] /\ memory[i].by = v)
            Made(i) == \/ code[memory[i].fun] # 0
                       \/ pc[memory[i].by] = "copy" /\ fn[memory[i].by] = memory[i].fun
<1>0. /\ memory \in Seq(CopyRecord) /\ DOMAIN memory = 1..Len(memory) /\ Len(memory) \in Nat
      /\ \A i \in DOMAIN memory : memory[i].fun \in Functions /\ memory[i].by \in Workers
  <2>1. memory \in Seq(CopyRecord)
    BY DEF Typed, TablesTyped
  <2>2. DOMAIN memory = 1..Len(memory) /\ Len(memory) \in Nat
        /\ \A i \in DOMAIN memory : memory[i] \in CopyRecord
    BY <2>1
  <2>. QED BY <2>1, <2>2 DEF CopyRecord
<1>1. CASE Copy(w)
  <2>1. /\ DOMAIN memory' = 1..(Len(memory) + 1)
        /\ memory'[Len(memory) + 1].fun = fn[w] /\ memory'[Len(memory) + 1].by = w
        /\ \A i \in DOMAIN memory : memory'[i] = memory[i]
    BY <1>1, CopyAppended
  <2>2. fn' = fn /\ code' = code /\ pc'[w] = "copy" /\ \A v \in Workers : v # w => pc'[v] = pc[v]
    BY <1>1 DEF Copy, GoTo, Typed, WorkersTyped
  <2>3. ASSUME NEW v \in Workers, pc'[v] \in {"lock", "compile"} PROVE None(v)'
    BY <1>0, <2>1, <2>2, <2>3 DEF Fresh
  <2>4. ASSUME NEW i \in DOMAIN memory' PROVE Made(i)'
    <3>1. CASE i = Len(memory) + 1
      BY <2>1, <2>2, <3>1
    <3>2. CASE i \in DOMAIN memory
      <4>1. Made(i) /\ memory'[i] = memory[i] /\ memory[i].by \in Workers
        BY <1>0, <2>1, <3>2 DEF Fresh
      <4>2. pc[w] # "copy"
        BY <1>1 DEF Copy
      <4>. QED BY <2>2, <4>1, <4>2
    <3>. QED BY <1>0, <2>1, <3>1, <3>2
  <2>. QED BY <2>3, <2>4 DEF Fresh
<1>2. CASE Publish(w)
  <2>1. /\ DOMAIN memory' = DOMAIN memory
        /\ \A i \in DOMAIN memory : memory'[i].fun = memory[i].fun /\ memory'[i].by = memory[i].by
        /\ Len(memory) # 0
    BY <1>2, LastIsWhole
  <2>2. /\ fn' = fn /\ pc'[w] = "publish" /\ \A v \in Workers : v # w => pc'[v] = pc[v]
        /\ code' = [code EXCEPT ![fn[w]] = Len(memory)] /\ code \in [Functions -> Nat]
        /\ fn[w] \in Functions
    BY <1>2 DEF Publish, GoTo, Typed, WorkersTyped, TablesTyped
  <2>3. ASSUME NEW v \in Workers, pc'[v] \in {"lock", "compile"} PROVE None(v)'
    BY <2>1, <2>2, <2>3 DEF Fresh
  <2>4. ASSUME NEW i \in DOMAIN memory' PROVE Made(i)'
    <3>1. Made(i) /\ memory[i].fun \in Functions /\ memory[i].by \in Workers
      BY <1>0, <2>1 DEF Fresh
    <3>. QED BY <2>1, <2>2, <3>1
  <2>. QED BY <2>3, <2>4 DEF Fresh
<1>3. CASE ~Copy(w) /\ ~Publish(w)
  <2>1. memory' = memory /\ code' = code
    BY <1>3, TablesStay
  <2>2. ASSUME NEW v \in Workers, v # w, pc'[v] \in {"lock", "compile"} PROVE None(v)'
    BY <2>1, <2>2, OthersStay DEF Fresh
  <2>3. ASSUME pc'[w] \in {"lock", "compile"} PROVE None(w)'
    <3>1. CASE Enter(w)
      BY <2>1, <3>1 DEF Enter, Fresh
    <3>2. ASSUME NEW f \in Functions, Call(w, f) PROVE None(w)'
      <4>1. code[f] = 0 /\ fn'[w] = f /\ pc[w] = "idle"
        BY <2>3, <3>2 DEF Call, GoTo, Typed, WorkersTyped
      <4>2. ASSUME NEW i \in DOMAIN memory, memory[i].fun = f, memory[i].by = w PROVE FALSE
        BY <4>1, <4>2 DEF Fresh
      <4>. QED BY <2>1, <4>1, <4>2
    <3>3. CASE Notify(w) \/ Waken(w) \/ Return(w) \/ ExecGlobal(w) \/ Initialize(w)
               \/ SetInitialized(w) \/ Finish(w)
      <4>1. pc'[w] \notin {"lock", "compile"}
        BY <3>3 DEF Notify, Waken, Return, ExecGlobal, Initialize, SetInitialized, Finish, GoTo,
                    Typed, WorkersTyped
      <4>. QED BY <2>3, <4>1
    <3>. QED BY <1>3, <3>1, <3>2, <3>3 DEF Step
  <2>4. ASSUME NEW i \in DOMAIN memory PROVE Made(i)'
    <3>1. Made(i) /\ memory[i].by \in Workers
      BY <1>0 DEF Fresh
    <3>2. CASE memory[i].by # w
      BY <2>1, <3>1, <3>2, OthersStay
    <3>3. CASE memory[i].by = w
      <4>1. pc[w] # "copy"
        BY <1>3 DEF Step, Call, Enter, Notify, Waken, Return, ExecGlobal, Initialize,
                    SetInitialized, Finish
      <4>. QED BY <2>1, <3>1, <3>3, <4>1
    <3>. QED BY <3>2, <3>3
  <2>. QED BY <2>1, <2>2, <2>3, <2>4 DEF Fresh
<1>. QED BY <1>1, <1>2, <1>3

LEMMA StepOncePerWorker ==
    ASSUME Typed, Copying, Fresh, OncePerWorker, NEW w \in Workers, Step(w)
    PROVE  OncePerWorker'
<1>1. CASE Copy(w)
  <2>1. /\ DOMAIN memory' = 1..(Len(memory) + 1) /\ DOMAIN memory = 1..Len(memory)
        /\ Len(memory) \in Nat
        /\ memory'[Len(memory) + 1].fun = fn[w] /\ memory'[Len(memory) + 1].by = w
        /\ \A i \in 1..Len(memory) : memory'[i] = memory[i]
    BY <1>1, CopyAppended
  <2>2. \A i \in DOMAIN memory : ~(memory[i].fun = fn[w] /\ memory[i].by = w)
    BY <1>1 DEF Copy, Fresh
  <2>. QED BY <2>1, <2>2 DEF OncePerWorker
<1>2. CASE Publish(w)
  BY <1>2, LastIsWhole DEF OncePerWorker
<1>3. CASE ~Copy(w) /\ ~Publish(w)
  BY <1>3, TablesStay DEF OncePerWorker
<1>. QED BY <1>1, <1>2, <1>3

-----------------------------------------------------------------------------
(* Globals. *)

LEMMA StepBinding ==
    ASSUME Parameters, Loaded, Typed, Binding, NEW w \in Workers, Step(w), UNCHANGED program
    PROVE  Binding'
<1>0. uses' = uses
  BY DEF program
<1>1. \A p \in Places : value[p] # NoFunction => value'[p] # NoFunction
  <2>1. CASE Initialize(w)
    <3>1. Place(w) \in Places /\ fn[w] \in Functions
      BY <2>1, PlaceThere DEF Initialize, Typed, WorkersTyped
    <3>2. value' = value \/ \E d \in Functions : value' = [value EXCEPT ![Place(w)] = d]
      BY <2>1, <3>1 DEF Initialize, Loaded
    <3>. QED BY <3>1, <3>2 DEF Parameters, Typed, TablesTyped
  <2>2. CASE ~Initialize(w)
    <3>1. value' = value
      BY <2>2 DEF Step, Call, Enter, Copy, Publish, Notify, Waken, Return, ExecGlobal,
                  SetInitialized, Finish
    <3>. QED BY <3>1
  <2>. QED BY <2>1, <2>2
<1>2. ASSUME NEW v \in Workers, pc'[v] \in {"initialize", "flag"} PROVE at'[v] <= Len(uses'[fn'[v]])
  <2>1. CASE v # w
    BY <1>0, <1>2, <2>1, OthersStay DEF Binding
  <2>2. CASE v = w
    <3>1. /\ at'[w] = at[w] /\ fn'[w] = fn[w] /\ at[w] <= Len(uses[fn[w]])
      BY <1>2, <2>2 DEF Step, Call, Enter, Copy, Publish, Notify, Waken, Return, ExecGlobal,
           Initialize, SetInitialized, Finish, GoTo, Binding, Typed, WorkersTyped
    <3>. QED BY <1>0, <2>2, <3>1
  <2>. QED BY <2>1, <2>2
<1>3. ASSUME NEW v \in Workers, pc'[v] = "flag" PROVE value'[Place(v)'] # NoFunction
  <2>1. CASE v # w
    <3>1. pc[v] = "flag" /\ Place(v)' = Place(v)
      BY <1>3, <2>1, OthersStay DEF Place
    <3>2. Place(v) \in Places
      BY <3>1, PlaceThere
    <3>. QED BY <1>1, <3>1, <3>2 DEF Binding
  <2>2. CASE v = w
    <3>1. Initialize(w)
      BY <1>3, <2>2 DEF Step, Call, Enter, Copy, Publish, Notify, Waken, Return, ExecGlobal,
           SetInitialized, Finish, GoTo, Typed, WorkersTyped
    <3>2. Place(w) \in Places /\ fn[w] \in Functions /\ Place(w)' = Place(w) /\ pc[w] = "initialize"
      BY <3>1, PlaceThere DEF Initialize, Typed, WorkersTyped, Place
    <3>3. \E d \in Functions : value' = [value EXCEPT ![Place(w)] = d]
      BY <1>3, <2>2, <3>1, <3>2 DEF Initialize, Loaded, GoTo, Typed, WorkersTyped
    <3>. QED BY <2>2, <3>2, <3>3 DEF Parameters, Typed, TablesTyped
  <2>. QED BY <2>1, <2>2
<1>4. ASSUME NEW p \in initialized' PROVE value'[p] # NoFunction
  <2>1. CASE p \in initialized
    BY <1>1, <2>1 DEF Binding, Typed, TablesTyped
  <2>2. CASE p \notin initialized
    <3>1. p = Place(w) /\ pc[w] = "flag" /\ value' = value
      BY <1>4, <2>2 DEF Step, Call, Enter, Copy, Publish, Notify, Waken, Return, ExecGlobal,
           Initialize, SetInitialized, Finish
    <3>. QED BY <3>1 DEF Binding
  <2>. QED BY <2>1, <2>2
<1>. QED BY <1>2, <1>3, <1>4 DEF Binding

-----------------------------------------------------------------------------
(* The theorems. *)

LEMMA InitInv == Init => Inv
<1>. SUFFICES ASSUME Init PROVE Inv
  OBVIOUS
<1>1. Typed
  BY InitTyped
<1>2. DOMAIN memory = {}
  BY DEF Init, Unused
<1>. QED BY <1>1, <1>2 DEF Init, Unused, Inv, Locking, Compiling, Copying, CodeWhole, Running, Fresh,
            Binding, OncePerWorker

\* A program that is given before anything was called is one to begin with.
LEMMA GivenInv == Parameters /\ LoaderGives => Inv'
<1>. SUFFICES ASSUME Parameters, LoaderGives PROVE Inv'
  OBVIOUS
<1>1. Unused'
  BY DEF LoaderGives, Unused, useVars, Places
<1>2. Init'
  BY <1>1 DEF LoaderGives, Init
<1>3. Typed'
  BY <1>2 DEF Init, Unused, Loaded, Typed, WorkersTyped, TablesTyped, Steps, CopyRecord
<1>4. (DOMAIN memory)' = {}
  BY <1>1 DEF Unused
<1>. QED BY <1>2, <1>3, <1>4 DEF Init, Unused, Inv, Locking, Compiling, Copying, CodeWhole, Running,
            Fresh, Binding, OncePerWorker

LEMMA NextInv == Parameters /\ Inv /\ [(Next /\ UNCHANGED program) \/ LoaderGives]_vars => Inv'
<1>. SUFFICES ASSUME Parameters, Inv, [Next /\ UNCHANGED program]_vars PROVE Inv'
  BY GivenInv
<1>0. Loaded'
  BY LoadedStays DEF Inv
<1>1. ASSUME NEW w \in Workers, Step(w), UNCHANGED program PROVE Inv'
  <2>1. Typed' /\ Locking' /\ Compiling' /\ Copying'
    BY <1>1, StepTyped, StepLocking, StepCompiling, StepCopying DEF Inv
  <2>2. CodeWhole' /\ Running' /\ Fresh' /\ Binding' /\ OncePerWorker'
    BY <1>1, StepCodeWhole, StepRunning, StepFresh, StepBinding, StepOncePerWorker DEF Inv
  <2>. QED BY <1>0, <2>1, <2>2 DEF Inv
<1>2. ASSUME UNCHANGED vars PROVE Inv'
  BY <1>2 DEF vars, Inv, Loaded, Typed, WorkersTyped, TablesTyped, Locking, Compiling, Copying,
              CodeWhole, Running, Fresh, Binding, OncePerWorker, Place
<1>. QED BY <1>1, <1>2 DEF Next

\* The invariant holds of every program.
LEMMA Invariance == ASSUME Parameters PROVE Spec => []Inv
  BY InitInv, NextInv, PTL DEF Spec

\* Whatever the program and however many workers race for its functions, no
\* worker compiles one twice: the copies in the code memory are bounded.
THEOREM CompiledOncePerWorker == ASSUME Parameters PROVE Spec => []OncePerWorker
<1>1. Inv => OncePerWorker
  BY DEF Inv
<1>. QED BY <1>1, Invariance, PTL

\* The tests without a lock are right: who passes one finds whole code, or a
\* bound global.
THEOREM UncheckedUsesAreWhole == ASSUME Parameters PROVE Spec => []UsesAreWhole
<1>1. Inv => UsesAreWhole
  BY DEF Inv, Running, Binding, UsesAreWhole
<1>. QED BY <1>1, Invariance, PTL
=============================================================================
