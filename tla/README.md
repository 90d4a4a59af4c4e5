# A TLA+ verification of the Park runtime

Park is a dynamically typed language with immutable values and lightweight
threads ("fibers"). Its runtime is C++: a module is packed by a compiler
written in Park, loaded, and compiled to machine code function by function;
compiled code runs on worker threads that share a boost.asio event loop; fibers
meet in channels; every fiber has a private heap with a copying collector, and
values that leave a fiber move to a shared heap with a concurrent
mark-and-sweep collector. An HTTP server is part of the runtime. All paths
below are relative to `src/src/lib/` unless they say otherwise.

The modules here describe that runtime as the code has it, TLC checks them on
small instances, and TLAPS proves the main safety properties for any number
of fibers, workers, channels, objects, blocks, functions and connections, and of
collections and streams of any size.

- [1 Inventory](#1-inventory)
- [2 Modules and how they correspond to the code](#2-modules-and-how-they-correspond-to-the-code)
- [3 Runs, bounds and fairness](#3-runs-bounds-and-fairness)
- [4 Where the code and its comments disagree](#4-where-the-code-and-its-comments-disagree)
- [5 Observations](#5-observations)
- [6 Proofs](#6-proofs)
- [7 Not modelled](#7-not-modelled)
- [8 Plan](#8-plan)

## 1 Inventory

| Component | State it keeps | Operations | What must be right |
|---|---|---|---|
| Fiber scheduling (`fiber.cc`, `fiber.h`, worker loop of `runtime.cc`) | `allocator_` of a fiber (is it attached), its stack of frames, `post_exit_callback_cc_resume`, handlers and timers in the event loop, `runtime.lock` | `enqueue`, `attach_and_exec`, `post_exit`, `resume_async`, `resume_sync`, `sleep`, `spawn`, worker loop | A fiber is on one worker at a time, every wakeup is delivered once, the frame of a blocking call is popped exactly once |
| Channels (`channel.cc`) | `senders_`, `receivers_` | `send`, `recv` and their callbacks, `walk` | Never a sender and a receiver asleep together, messages received once and in order, values kept alive |
| Stop-the-world handshake and fiber lists (`gc.cc`, `runtime.cc`) | `stw_mutators_wait`, `num_stopped_mutators_`, the lists running / grey / scanning / black, `write_barrier_`, `local_collect_barrier_` | `collect_shared`, `checkin_shared`, `checkin_local`, `fiber_created/attach/detach/exitted`, `stop` | Pauses exclude compiled code and come about, a fiber's roots are recorded before it mutates, the end of the program |
| Concurrent marking (`gc.cc`, `gc.h`) | mark bits, work lists, `ref_list_` of the allocators | `parallel_scan`, `mark_concurrent`, `ref_write`, `alloc_shared` | Nothing that is referred to is freed |
| Atoms (`atom.cc`) | one reference, an object lock | `deref`, `compare_and_set`, `swap` of `src/runtime/prelude.prk` | The barrier, no lost update |
| Shared heap: blocks, chunks, sweep (`gc_base.h`, `gc.h`, `gc.cc`) | head, rest, full and empty blocks per size, dirty bits and mask, marks, free chunks | `alloc_shared`, `next_head`, `sweep_concurrent`, `clear` | A slot in use is not freed, marks are clear when marking begins |
| Private heaps (`gc.cc`, `gc_base.h`) | from and to space of a fiber, forwarding addresses, counters | `alloc`, `collect_local_to_local`, `share` | The program's graph of values stays as it is |
| Chunks of private heaps and stacks (`gc_base.h`, `stack.cc`) | bits and `available_` of the blocks of a worker | `alloc_local`, `chunk_deleter` | A chunk is handed out once and its block counts it |
| Frames (`fiber.cc`, `stack.h`, `frame.h`) | stack of values, stack of frames, links, defers, exit code | call, return, `recur`, defer, `exit`, unhandled errors | Defers run once and in reverse order, a caller finds its frame as it left it |
| Just-in-time compiler (`compiler.cc`) | emitted code, labels, the target of each call site | what is emitted for each node, dispatch and patch | A function does what it says, whatever other fibers leave in the call sites |
| Compilation and lookup at first use (`compiler.cc`, `ast.cc`, `fiber.cc`) | `Function::code_`, `compiling_`, waiters, code memory; `value_` and `initialized_` of a global | `Compiler::code`, `Global::initialize` | Code is whole when it is run, nobody waits for ever |
| Packed code and syntax trees (`pack.cc`, `ast.cc`) | the packed tokens, the reader's symbol tables | `pack`, `unpack`, `AST::read` | The tree that runs is the tree that was written |
| Module loader and start (`runtime.cc`, `namespace.cc`) | stage, stack of modules to load, modules, namespaces | compile, read, define, link, start | Every name is bound to what it means, loading ends |
| Persistent vector and map (`vector.cc`, `map.cc`) | radix tree with a tail; hash trie | `nth`, `conj`, concatenation, iteration; `get`, `assoc` | They are a sequence and a function, and old versions do not change |
| HTTP parser (`http_parser.c`) | state, header state, flags, length | `http_parser_execute`, `http_should_keep_alive` | The division of the bytes into reads does not matter |
| HTTP server (`http.cc`, `pool.h`) | connection, parser, headers and buffer state | accept, read, write, keep-alive, close, destroy | Every request answered, headers are the request's own, buffers neither lost nor shared |
| Values, lexer; prelude and compiler in Park; vendored code | - | - | Sequential conversions, or not this repository's code |

### How they interact

- The **event loop** (`io_service`) is shared by all workers. A handler is a
  call of `attach_and_exec` for one fiber, posted by `enqueue` (spawn, a
  matched channel partner), by an expired timer or by the completion of a read or an accept.
- **`runtime.lock`** is one mutex for everything: attaching and detaching,
  the blocking callbacks of the channels, the lists of fibers, the count of
  stopped workers. `attach_and_exec` releases it for the body, that is while
  compiled code runs. The collector holds it except when it waits for a condition.
- A **blocking builtin** leaves compiled code with exit code 4 and a callback.
  `post_exit` runs it with the lock held; it either blocks the fiber (it is
  then published to a channel or a timer *before* it is detached) or resumes
  the fiber and its partner.
- The **collector** thread stops all workers twice in a cycle. Between the
  pauses it marks while fibers run; fibers that slept when the cycle began
  are scanned in batches, and `fiber_attach` makes a worker wait until its
  fiber is black. The worker does not check in while it waits there.
- **Compiled code** looks at `stw_mutators_wait` and
  `local_collect_barrier_` at the checkpoint of every function, without the lock.
- The **loader** works before the workers start and gives them syntax trees and
  namespaces. Compilation and the lookup of globals are left to the first use, by
  whichever worker comes first, with a test before the lock is taken.
- **Call sites** hold the target of their last dispatch. They lie in the code, which
  all workers share, and are patched without a lock.
- A value that is sent or put in an atom is **shared** first: copied from the private to the shared heap.

### What is hard

Two workers and the collector meet in windows nobody wrote a test for: a
fiber published before it is detached; a plain counter that is still up from
the last pause; a worker that waits for the collector while the collector
waits for the workers; a fiber spawned after the last look at a list; the end
of the program in the middle of a cycle; a reference that moves from a slot to
a stack behind the marker; a call site patched between the test and the call;
a function half copied when another worker finds it. And one thread alone has long
sequences that go wrong late: a read that ends within a header's name, a vector at a power of
its width, modules that import each other. `PROJECT.json` lists these hazards,
each with the line where it bites and the properties that watch it, those without a property too.

## 2 Modules and how they correspond to the code

| Module | What it is |
|---|---|
| `Rendezvous` | Abstract specification: what fibers and channels promise to a Park program, without workers, lock or event loop |
| `Scheduler` | Fibers, workers, event loop, lock, timers and channels; implements `Rendezvous` |
| `StopTheWorld` | The collector's cycle, the check-in of the workers, the lists of the fibers, the end of the program |
| `ConcurrentMark` | Objects, references, atoms, channels, roots, the marker and the write barrier |
| `SharedHeap` | The blocks of one allocator: `alloc_shared` and `next_head` interlocked with `sweep_concurrent` |
| `LocalHeap` | The private heap of a fiber: allocation, the copying collection, `share` |
| `LocalBlocks` | Where private heaps and stacks get their chunks from, and who frees them |
| `Jit` | What the compiler emits for a function, and the stack, frames, links and defers it works on |
| `PackedCode` | Packing a syntax tree, unpacking, and the reader that makes nodes of it |
| `Loader` | Loading a program: EXTENDS `PackedCode` |
| `FirstUse` | Compilation and lookup of globals at first use, by several workers |
| `Startup` | `Loader` and then `FirstUse`, composed: EXTENDS both |
| `PersistentVector`, `PersistentMap` | The collections |
| `HttpParser` | `http_parser_execute` as an operator from a parser and characters to a parser and callbacks |
| `HttpStream` | A client's bytes in any division into reads, over `HttpParser` |
| `HttpConnection` | Server, connections and buffers, over `HttpParser` |
| `SchedulerProofs`, `StopTheWorldProofs`, `ConcurrentMarkProofs`, `SharedHeapProofs`, `LocalHeapProofs`, `FirstUseProofs`, `CollectionsProofs`, `HttpProofs` | Theorems, section 6 |
| `MC...` | Finite instances for TLC, one per run |

**Scheduler.** A worker is a sequential process whose `wpc` follows
`attach_and_exec`: `TakePosted`/`TakeExpired` take a handler, `AttachPosted`/
`AttachExpired` are `fiber_attach` under the lock, then the body runs without
it. `CallSend`, `CallRecv`, `CallSleep`, `Spawn` and `Leave` are what compiled
code can do. `Relock` takes the lock again; from there to the end of
`post_exit` (`PostFinish`, `PostSleep`, `BlockSend`, `BlockRecv`, `MatchSend`,
`MatchRecv`) and to `Detach` the lock is held, which the model has as a variable
and not as atomicity, so that the publication of a fiber before its detach
is visible. `Matched` is the whole of a match: both frames popped, both results pushed, the
partner enqueued. `ResumeSync` is the step between the attach of a timer's handler and
its resumption. `frames` counts frames of blocking calls only and is an `Int`,
so that a pop too many shows. `results` is a history of what each operation
returned; a message is the pair of its sender and the number of the
operation, so that equal messages cannot hide a duplicate. `Promise` is `R!Spec`, with
`R` an instance of `Rendezvous` under a mapping from program counters to phases.

**StopTheWorld.** `gpc` is the place of the collector in `collect_shared`.
`RequestPause` and `EndPause` are `stw_start` and `stw_end` with the stop and
the restart of the event loop; `io_stopped` is also set by the return of main
(`MainReturns`), as in the code, which has one event loop for both uses. A
pause has a beginning (`PauseBegins1/2`, the count is reached) and an end (`TakeSnapshot`,
`FinishMarking`), because workers that run compiled code do not take the lock; every
action of a worker that needs the lock has the guard `LockFree`. `color` is
the list a fiber is in; `FinishMarking` swaps the black and the grey list
as the code does, whatever is in them. `TestLocal` is the test of
`local_collect_barrier_` at a checkpoint, without a lock, and `CollectLocal` the collection
that follows it, with any steps of others between. Fibers are spawned and main returns whenever
the program likes, whatever the collector is doing. `moved` and `late` are history: the fibers whose private heap changed
while the snapshot scan follows it (`MovedBy`), and those that were spawned after the
collector's last look at the grey list, until the lists have them right again.

**ConcurrentMark.** Objects have one slot (atoms, boxes) or a queue of values
(channels); a box stands for any immutable object. `Mark` and `Walk`
are separate steps of a marker thread, so that a slot is written between the
mark and the walk. `Shade` is `ref_write`'s barrier, which lists the old and the new
reference. `NextBatch`, `BatchMarked`, `Remark` and `FinishMarking` are the
loop of `collect_shared`. The pauses, which `StopTheWorld` looks at in detail, are one
step each here. Freeing takes place at the end of marking, the earliest time the
sweep could free anything. `taken` and `lost` are history: the values that `recv` took from a channel
not yet walked and that nothing has listed since, and whether a marking has ended with such a value.

**SharedHeap.** The blocks of one size of one allocator and the worker that owns it.
`NextHead` is the critical section of `alloc_shared` under the lock of the allocator,
`SweepHead` the one under the lock of the block, `AllocFast` and `AllocSlow`
the allocations without any lock. During the marking an allocation ends with the mark of its object, which is
not one step: `Alloc` reads the word of `marked_` (`Word`, the marks that share it) and `SetMark` writes it, with
the marks of the collector between them (`pending`). The collector's walk is `StartSweep`,
then `Visit`, `SweepBlock` (without the lock of the allocator, as in the code) and `Step`
for each block; `Successors` is `current->next` as the lists are at that moment,
which is nothing for a block the mutator took as its head. An object may be met by the marker several times
(`Mark` need not take it off `todo`). `FinishMarking` flips
`dirty_mask_` and moves the head to rest, `EndSweep` redistributes the full
blocks. `missed` and `overwritten` are history: the blocks that some walk has left out, and the objects in
use whose mark an allocation has overwritten.
The two modules of the shared heap rest on each other: `ConcurrentMark` has objects without
marks when a cycle begins, which is `MarksCleared` here; `SharedHeap` lets
the collector mark what was in use at the first pause, which is what
`ConcurrentMark` shows.

**LocalHeap.** `cells` is memory by address: what is in an object, the space it is
in, and the forwarding address that the collection writes over it. `MakeRef`, `Part` and
`Pop` are what a program can do with values. `StartCollect`, then `Copy`, `Forward` or
`SkipShared` for each reference in `todo`, then `EndCollect` are `collect_local_to_local` with
`mark_and_copy`; a reference is a place (a slot of the stack, a field of a copy) that is written back.
`StartShare`, `ShareCopy` and `EndShare` are `make_shared` and `share`, which leave no forwarding address.
`SharedSwept` removes shared objects that nothing refers to. A new object or copy goes to a `Free` address and has `HasSpace` for a
guard: how a heap gets its chunks is `LocalBlocks`. `born` is a
history: what each object referred to when it was made.

**LocalBlocks.** A fiber takes its chunks along when it moves to another worker. `Alloc` and `Free`
are the reads with which an allocation and a release begin, `StoreBits` and `StoreAvailable` their writes.

**Jit.** `Compiled` is the code that `X64Backend` emits for a node, as instructions of a
stack machine; `CodeOf` adds prolog, return label and epilog. `Exec` is one instruction on a fiber:
`Prolog`, `Epilog`, `Return`, `Exit`, `Defer`, `Recur`, `CallBuiltin` are the functions `exec_...` of `fiber.cc`
that the instruction calls. `Call` reads the call site, tests it and enters, or goes to
`Dispatch`, which writes the site and tries again; two fibers do that on the same sites. `Resume` is the end of a blocking
call, with a value or an error. `Meaning` at the end of the module is a direct
evaluator of the syntax trees, the reference for `RunsAsWritten`.

**PackedCode, Loader, FirstUse, Startup.** `Pack` and `Unpack` are `pack.cc`; `Read` and
what it uses are `AST::Reader`, which reads the keys of a dictionary in whatever
order they come, keeps a symbol table per function and binds the locals of a
function at its end. `Load` is one round of the loader's loop (compile if
need be, read, make a namespace, push the imports), `StartLinking`, `Link` and `Start` the rest of it.
In `FirstUse` a worker calls a function: `Enter` tests `code_` without the lock, then
`compile` waits or compiles, `Copy` and `Publish` are the two writes under the lock (the code, and then its address),
`Notify` and `Waken` the condition variable; `ExecGlobal`, `Initialize`, `SetInitialized` are `exec_global` and `Global::initialize`,
with `value_` written before `initialized_`. `main`, `closures`, `uses` and `scope` are the program; `LoaderGives` is the one step that changes
them, before any worker has begun. `Startup` is both modules side by side: its step `Loading` makes that step of `FirstUse` when the loader is
done, and `Using(w)` is a worker's.

**PersistentVector, PersistentMap.** Arrays of the vector are cells of a heap and
versions share them, so that a write through one version would show in another;
`versions` and `contents` hold all that were made and what they should be. Nodes of the map
are never written after construction and are values. The width (32 in the code) is a
constant. A hash is its digits, five bits each in the code, and so is a function of the level; the hash of each key is a constant too.
What the code writes as a loop over the levels of a tree, or as methods of nodes that call each other, is here a function of the
level: `array`, `copies` and `pushed` in the vector; in the map `way` for `find`, `down` and `up` for `assoc` on its way to a leaf
and with the new nodes back, and `row` for `iterate`.

**HttpParser, HttpStream, HttpConnection.** A character of the model is a piece
of a request that the parser tells apart from others; the pieces are small enough that a read can end inside a name
or a value. `Step` is one character in one state; the operators are named for the states. `Execute` is `Begin` (the text a former read was cut in is marked again),
`Eat` of each character and `End` (the marked text is handed out). `HttpStream` writes messages down
(`Rendered`) and says what their receiver has to be told (`Told`), independently of
the parser. `OneReadTells` says what one read of the beginning of a stream tells; it is about constants, and TLC evaluates it once
for all streams of the run (`OneReadAssumption` of `MCHttp`). `HttpConnection` is `http.cc` under the server of `examples/http.prk`: `ReadRequest` reads at once or leaves the read to the
event loop (`ReadCompleted`); `Transferred` is the parse with its callbacks, which `Notified` gives to the connection in their order; `Write`, `ResponseFinish`, `KeepAlive`, `Close` and `Destroy` follow. Its specification is `ServerSpec`. `pool` is the stack of free buffers. Whether the two
optionals of a header have a value is tested nowhere, so that `field` and `value` are what they hold; a reset leaves that in place, and
before anything was stored it is `Indeterminate`.
An uncaught exception, or an assertion in a build that has them, ends the process (`crashed`).

**Fault operators.** A definition whose name begins with `Fault` is a
variant of the definition after it with a plausible bug (a dropped guard, a
missing reset, a swapped order). None is used by a specification. Each
property has one: put in the place of the definition it makes TLC find the property
violated, which shows that the property says something about the code
(`mutants` in `PROJECT.json`).

## 3 Runs, bounds and fairness

| Run | Checks | Instance |
|---|---|---|
| `scheduler` | `TypeOK`, `DetachedBeforeAttach`, `OneWakeup`, `OneSided`, `ExactlyOnce`, `FrameDiscipline`, `Promise` | 3 fibers, 2 workers, 1 channel, two blocking operations of two fibers and one of the third (194,959 states) |
| `stop_the_world` | `TypeOK`, `PauseExclusive`, `AttachAsserts`, `SnapshotComplete`, `LocalMovesExcluded`, `PausesHappen`, `AttachProceeds`, `ShutdownCompletes` | 3 fibers, 2 workers, batches of 1; any number of cycles (222,690 states) |
| `concurrent_mark` | `OnlyTakenDangles`, `ProtectedButTaken` | 2 fibers, an atom, a box, a channel reached through the atom only; any number of cycles, up to a loss; symmetric (2,310,102 states) |
| `shared_heap` | `SweptAlone`, `LiveKept`, `MarksCleared`, `NewHeadHasRoom` | 3 blocks of 2 slots, 2 objects in use at a time; any number of cycles; symmetric (5,738,311 states) |
| `private_heap` | `GraphKept` | 3 objects of at most 2 references, 2 places on the stack (5,047,387 states) |
| `loading` | `ReadsAsWritten`, `NamesBound`, `UsesAreWhole`, `OncePerWorker`, `OnlyImportsUnbound`, `RunCompletes` | programs of up to three modules, 2 workers, 2 calls each (150,293 states) |
| `language` | `RunsAsWritten`, `FramesNest`, `VersionsKeepContents`, `IterationVisitsAll`, `MapIsFunction`, `ThrowsOnCollision` | 2 fibers, each with one of three main functions over nine more; width 2 and up to 13 elements, one fork; width 4 and 9 keys (623,201 states) |
| `http` | `SplitsDoNotMatter`, `KeepAliveAsAsked`, `BuffersAccounted`, `HeadersAreTheRequests`, `OnlyKnownCrashes`, `RequestsAnswered` | 96 streams of one or two messages, reads of 1 to 3 characters or the rest; 2 connections, 5 scripts of clients (111,748 states) |
| `channel_barrier` | `NoDangling`, violated: section 4 | as `concurrent_mark` |
| `local_blocks` | `UsedIsCount`, violated: section 4 | 2 workers, 2 fibers, a block of 3 slots per worker |
| `stop_in_cycle` | `StopIsSeen`, violated: section 4 | as `stop_the_world` |
| `lost_mark` | `OnlyGarbageFreed`, violated: section 4 | as `shared_heap` |

`language` and `http` each have two instances side by side, which share nothing: a behaviour steps in the one while the
other stays where it began.

What they show:

- *scheduler*: in every interleaving of two callbacks, timers, attaches and
  detaches, a fiber is resumed once and from one place, a message is received
  once and its send completes only then, the assertion of `attach_and_exec`
  holds, and `pop_frame` never takes a frame of the program. Seen from a Park
  program, channels match oldest first and a fiber that was matched or whose
  timer expired runs again, unless main returns: the refinement of `Rendezvous`
  with its liveness.
- *stop_the_world*: the pauses happen and exclude compiled code although the
  count is a plain integer that is still being lowered after the pause before; a worker blocked
  in `fiber_attach` gets its fiber; no fiber runs in the marking before its
  roots are recorded, and no assertion on its list fails, except for fibers spawned while a second pause is awaited (section 5) and
  for these no longer than until the lists have them right again; a local collection that has passed the test of the barrier still keeps out of the snapshot scan, since
  its worker has to stop for the first pause before the barrier goes up; a stop that no end of a pause undoes ends
  the program (section 4, 3, for the others).
- *concurrent_mark*: nothing that is in use is freed, wherever fibers move the channel, up to the fault of section 4, 1: the
  barrier `recv` does not have is the only one missing.
- *shared_heap*: the lock-free allocation is never in a block that is being swept, the
  new head has room although it is chosen, swept and used under different
  locks, no slot in use is freed and no mark is left over from the cycle before,
  in every block that was never left out by a walk (section 5) and with every mark that was not overwritten (section 4, 4).
- *private_heap*: whatever order a program makes values, takes them apart, shares and collects them in, it finds
  the graph it made; each object is moved once although many references lead to it; the counter that decides on the next collection is right.
- *language*: a fiber does and returns what its functions say, with another one patching the same call sites between
  every test and call, on every way out of a function: value, return, recur, an error of a callee or a builtin, an error taken as a value, exit.
  Every version of a vector stays the sequence it was made as and iteration visits it once, around
  every power of the width; a map is the function that was built, with hashes that agree in one digit, in all but the last, or in all, where `assoc` throws.
- *loading*: the tree that runs is the one the source says, in any order of the keys of a dictionary; every
  name is bound to the definition that is meant; workers run whole code only and none compiles a function twice; the program gets through.
- *http*: what a receiver is told does not depend on how the bytes were cut into reads, and the
  answer of `http_should_keep_alive` is what version and `Connection` headers ask for.
  No buffer is lost, given back twice or served to two connections; the headers of a request are its own, with one entry before them at most, which is a whole
  header of an earlier read or indeterminate (section 5);
  the process ends only for the reasons the code names (`TODO read more`, `TODO check nparsed`, assertions); a patient client is answered.

**Bounds.** Two workers make all the conflicts between a worker that detaches, one
that attaches and the collector possible; a third adds no new
kind of pair, and the theorems do not depend on the number. Three fibers
are needed for two to wait in a channel while the third serves them (order), and for one to run,
one to wait for its colour and one to wait to be scanned with
batches of one. `MaxOps` (blocking operations per fiber) is the only counter
of `Scheduler` that is capped; two let a fiber come back to a channel
after a timer and after a match. `StopTheWorld` and `ConcurrentMark` have no counters and run through cycle after cycle.
The box of `ConcurrentMark` is freed and allocated again without end. `SharedHeap` has one block for the head, one for the collector to visit and one to wait
behind it; two slots make a block empty, full or neither, and their marks share a word. `MaxLive` bounds the objects in use at
a time, not those allocated; two keep two blocks from becoming empty.
In `LocalHeap` three objects of two references give every shape in which one is reached along two paths of length two.
`MaxShared` 0 says that share begins when nothing is shared any more (`SharedSwept`); the copies it makes then stay, and may be collected around, until nothing refers to them.
The functions of `MCLanguage` have a defer, or two, on every way out; each behaviour is finite.
A width of 2 and 13 elements take a vector's root through three growths, each with every fill of the tail; one fork
makes two versions with the same arrays. The nine keys of the map fill a node, split at the first, the second and the third level, and collide.
The programs of `MCLoading` have circles, double imports, clashing and missing names, refused and stale sources. Symmetry is used for
invariants only, never for a temporal property.

`CHECK_DEADLOCK FALSE`: all these systems may stop. A program ends, and
fibers that all wait for each other in channels are a deadlock of the program, not of the
runtime.

**Constraints of `shared_heap` and `concurrent_mark`.** The constraint `Intact` stops a behaviour at
the step that frees an object in use, from where on the program's behaviour is
undefined; the step itself is checked. `LiveKept` and `MarksCleared` make an exception for the blocks in `missed`, and `LiveKept` for
the objects in `overwritten`; without it they do not hold, for the reasons of section 5 and section 4, 4.

**Restriction of `http`.** `InOrder = TRUE`: the arguments of `async_accept` (`http.cc:449`) are
evaluated from left to right, as the compiler of the documentation (clang) does. In the other order the first accept that has to wait dereferences a pointer that was moved from.

**Fairness.** Threads of the operating system run: every worker takes its next step if it has one
(weak fairness of `Trampoline(w)`, `Worker(w)` and `Using(w)`), and so do the collector and the thread that loads (`LoadingRuns`).
The event loop's queue is first-in first-out, hence each posted handler is taken by
some worker (`\E w : TakePosted(w, f)`); timers expire. Scheduling is
cooperative, so that `Promise` also assumes that compiled code leaves the worker at some
time (`Cooperative`): with all workers in endless loops nothing else runs, in the code as in the
model. `StopTheWorld` does *not* assume that a fiber blocks or
ends, only that it comes to a checkpoint, which every function call is. A checkpoint looks at `stw_mutators_wait` before it
thinks of a local collection, so that local collections cannot keep a worker from checking in: strong fairness of `Checkpoint(w)`.
In `HttpConnection` fibers run and the event loop delivers, connections are accepted; nothing is assumed of clients, who may leave or stay silent, or of the sweep.
Where the guard of a step is expensive to evaluate as `ENABLED` (a parse, a load), weak fairness is written out with an equivalent state predicate (`CanRead`, the stage of the loader).

## 4 Where the code and its comments disagree

Each is a run with the expectation "violation" and an entry under `findings`
with the lines that are quoted.

1. `channel_barrier`: "interactions of these with gc?, yes they would need write
   barrier" (`channel.cc:38`). `recv` takes the value out of the channel without one
   (`channel.cc:79`). If the channel was not walked yet and nothing else
   refers to the value, the value is on no list and is freed while the receiver
   has it. The run has the channel reached through the atom only. That this is the only way is what run
   `concurrent_mark` and the theorems on `ConcurrentMark` say.
2. `local_blocks`: the asserts that the count of a block is the number of its set bits (`gc_base.h:192`, `201`,
   `207`, `236`). `chunk_deleter` (`gc_base.h:533`) releases a chunk without a lock,
   and the chunk may lie in a block of another worker, which allocates from it
   at the same time; the chunks of stacks (`stack.cc:47`) go the same way. Both read,
   then both write: a bit or a count is lost. A block that is counted empty with a chunk in use may then be
   deleted by `pop_empty_blocks`.
3. `stop_in_cycle`: "wake up collector so that it sees the stop" (`runtime.cc:846`). Main returns during a cycle: `stw_end` restarts
   the event loop that `stop` has stopped (`runtime.cc:702`), and the workers poll a loop with nothing left; or the workers leave and
   the second pause waits for them for ever (`gc.cc:415`).
4. `lost_mark`: "a low pause (<1ms) concurrent garbage collector" (`README.md:289` of the repository). `block_t::alloc` sets the mark of
   a new object by a plain `|=` (`gc_base.h:226`), the markers theirs by `__sync_fetch_and_or` on the same
   64 marks (`gc_base.h:177`). A mark set between the read and the write of the `|=` is gone, and the sweep frees an object in use.

## 5 Observations

What else was met in the code while it was modelled. The operators named in the first five paragraphs state what the code claims. They are no properties of a run:
given to TLC as invariants of the run they are named with, they are violated.

*A late spawn* (`GreyEmptyAtSwap`, `stop_the_world`). "assert(fibers_sleeping_grey_->empty())" at the end of the second pause (`runtime.cc:704`):
a fiber spawned after the collector's last look at the grey list, before its worker checks in, is there. Without assertions the swap makes it
black: its next attach breaks the assertion of `runtime.cc:881` or, in the next cycle, it runs without a scan of its roots.

*An exited fiber* (`ExitedUnlisted`, `stop_the_world`). "assert(color_ == nullptr)" in `~Fiber` (`fiber.cc:655`): `fiber_detach` lists a fiber
again after `fiber_exitted` (`fiber.cc:552`), and it stays a root.

*An exit during the scan* (`SnapshotHeapStable`, `stop_the_world`). "local collection must be disabled to prevent concurrent modification of the
tree we are following" (`gc.cc:373`). It is, but a fiber that exits clears the same heap (`fiber.cc:452`).

*A missed block* (`SweepComplete`, `shared_heap`). The blocks in the lists "will be incrementally swept in the following phase"
(`gc.cc:504`). `sweep_concurrent` lets the lock of the allocator go while it sweeps a block.
If the mutator takes that very block as its head meanwhile, `current->next` is null
(`gc.cc:526`, `gc_base.h:373`) and the walk of the list ends there. The blocks behind keep their garbage, their old
marks and the old dirty bit. If a later marking is under way when the mutator takes such a block, it sweeps it then, and the
marks set so far in that cycle are lost with the old ones: the next sweep frees objects in use.

*A stale header* (`HeadersOfTheRequestOnly`, `http`). "append_header(); //finalize headers" (`http.cc:326`): `append_header` dereferences two
optionals that have no value (`http.cc:271`) when a request has no headers, and at the first header of a later request, since `prev_header_cb` is left
at value. The headers of such a request begin with an entry that is indeterminate or was left in the optionals by an earlier request: the reset
(`http.cc:497`) does not clear what they held.

*Private heap.* `share` leaves no forwarding address, so that what is
reached along two paths is copied twice; a structure of n levels that share their parts grows to 2^n objects, and identity is
lost. `clear` leaves the allocation pointers of the heap dangling, which does no harm because it is called when the fiber ends only.

*Compiled code.* `_exit` (`fiber.cc:169`) does not check that its call site's callable is still the one that was
tested, and neither does `Matches` for it; a site that has `exit` as its target runs it whatever comes next, until the prologue of
another function patches it. The programs of `MCLanguage` call it from sites of their own. Two fibers that alternate the target of one call site can take turns in patching it
for ever, so the model claims no liveness of calls. A deferred call that fails
jumps to the return label with the defers still set and is run again, for ever. The error of a
builtin goes up even where the caller asked for it as a value (`throws_`, `fiber.cc:597`, is looked at for functions only). `exit` runs no defers.
`walk` of a struct type throws (`struct.cc:78`). `lookup` in
`compiler.prk` looks among the globals before the locals of the enclosing function.

*Loading.* The imports of an imported module are never linked (`runtime.cc:471`): a name from there
is not found at its first use (`OnlyImportsUnbound` says that nothing else is). A module that is
imported twice before it is visited is loaded twice, and the main module a second time if it is imported. A source the compiler refuses is
loaded from the packed form of an earlier version if there is one (`runtime.cc:318`). A packed form of the same age as
its source counts as current. Integer literals are read with `std::stoi`
(`ast.cc:494`). `m->assoc(unpack, unpack)` leaves the order of key and value to the compiler (`pack.cc:266`). A function may be compiled once by each
worker, since `code_` is not tested again with the lock (`compiler.cc:369`); code memory is never given back (`compiler.cc:293`).

*HTTP.* After a request with `Upgrade` the rest of the same read is refused, but the next read is
parsed as HTTP again. A mismatch in a `Connection` value that begins like `close` or `keep-alive` swallows the comma; a folded line after a complete token forgets the token.
`src/examples/http.prk` registers the close of the connection after `handle_requests`, so that a read that fails leaves the
connection open. The headers keep pointers into the read buffer after it was given back to the pool; nothing follows them, since the debug print that did is
commented out (`http.cc:328`). If two requests
arrive in one read, the second is lost in a build without assertions.
`http.cc:449` relies on the order in which arguments are evaluated (section 3).

## 6 Proofs

All theorems hold for every value of the constants that the module's assumption allows.

**Scheduler** (`SchedulerProofs`), for any `Fibers`, `Workers`, `Channels` and
`MaxOps`, from `SchedulerAssumption` only:

- `TypeCorrect`, from `Typed == TypeOK /\ HasFiber`: types alone are not
  inductive, because the actions index by `wfib[w]`, which is a fiber only
  where the worker has one.
- `ChannelsOneSided`: `OneSided` is inductive with the types.
- `WakeupsOnce`: `OneWakeup` is inductive together with the types and `AbsentNowhere`
  (a fiber that was not created or has exited has no handler and waits nowhere; without it a spawn could
  post a second handler). The argument is ownership: a wakeup moves between the event loop,
  a worker and a channel, and every action takes it from where it was.
- `AttachAssertion`: `DetachedBeforeAttach` follows from `Locking` (the lock is held
  exactly from the end of the body to the end of the detach, and a fiber with an allocator is with the
  worker it has it from) and from `OneWakeup`: a second worker with a handler of the fiber exists
  only when the first is in `detach`, and then the lock is not free.
- `FramesBalanced` (`FrameDiscipline`), from `CallbackHeld` (a callback is there only while a worker is between the
  call and the end of `post_exit`) and `OneWakeup`: a match ends the calls of two fibers in one
  step, and neither has a second wakeup that could pop again.
- `MessagesOnce` (`ExactlyOnce`), from `SendersCurrent` (who waits in a channel offers the message of its present operation),
  `Unsettled` (a send that has not met a receiver has no result anywhere) and `ResultsOld` (no result is of an operation yet to come).
- `ImplementsRendezvous`: the initial states map to initial states of `Rendezvous`, and each step of the scheduler to one of its steps or to none. It is
  the safety part of `Promise`; the fairness is left to run `scheduler`.

**StopTheWorld** (`StopTheWorldProofs`), for any `Fibers`, any finite `Workers`
and any `Batch`:

- `TypeCorrect` and `PausesExclude` from `Typed`, which contains `Counting`: the flag
  is up exactly from the request of a pause to its end, and the count is the number of
  workers in `checkin_shared`. A worker lowers the count only when the
  flag is down, so a count that has reached the number of the workers stays there
  until the pause ends.
- `LocalCollectionsWait` (`LocalMovesExcluded`) from `Owned` (a worker has its fiber alone) and
  `ScanGuarded`: while the snapshot is scanned the local barrier is up and no worker is between the test of the barrier and its collection, since all
  were in `checkin_shared` when it went up; so `moved` has fibers that have exited only.
- `RootsRecorded` (`SnapshotComplete`) and `AttachmentsAssert` (`AttachAsserts`), without any condition on when fibers are spawned and when main returns, from `Colored`: what
  each list says of a fiber in each phase; in particular, once the second pause was requested only fibers in `late` are grey.
  The exception for `late` is needed: section 5.

**ConcurrentMark** (`ConcurrentMarkProofs`), for any fibers, atoms, boxes, channels and
messages, wherever the channels are:

- `NothingElseDangles` (`OnlyTakenDangles`) and `ScannedIsProtected` (`ProtectedButTaken`). The heart is `Tricolor`: while the
  collector marks, every set of objects that contains what it has listed, what it has yet to scan and the values in `taken`, and with each
  object that was not walked also that object's references, contains everything in use.
  A set is used, and not reachability, because that would need recursion. At `FinishMarking` nothing is listed or left to
  scan, so that, if nothing is in `taken`, the marked objects are such a set, and what is freed is not in use.
- Around it, `Control` (which phase has which work left) and `FreeIsEmpty` (a slot not allocated refers to nothing and nobody has it). All of it holds
  until `lost`. The exception for `taken` is needed: section 4, 1.

**SharedHeap** (`SharedHeapProofs`), for any blocks and any capacity:

- `TypeCorrect`, with `Placed` in it: a block is in one list, or the head, and there once. Lemmas say what `Moved` and the
  cut of `next_head` do to a list.
- `NeverSweptUnderAlloc` (`SweptAlone`) from `HeadClean` (a head the mutator allocates from has the dirty bit of this cycle, so that the collector passes
  it by) and `Walked` (the dirty bit is set before the sweep begins).
- `LiveObjectsKept` (`LiveKept`) and `NoMarkLeft` (`MarksCleared`) from `Sweeping`: of each block no walk has left out, a sweep is owed from the flip of
  the mask to `block_t::sweep`; until then what is in use and not in `overwritten` has its mark, and after that no mark is left. `Reading` says what the mutator
  has in hand between the two steps of an allocation: a word whose marks are still there. These two and the next are for `UpToALoss`, the behaviours
  that go on from `Intact` states only, as in the run.
- `NewHeadsHaveRoom` (`NewHeadHasRoom`). It holds in
  the blocks that were left out too. A marking may lose marks of such a block (section 5), so that objects in it are at
  risk (`AtRisk`); the order of the lists then says that the walk is yet to come to it, or
  the mutator about to sweep it (`Ahead`), so that the loss is in the same cycle and no later marking sets marks on slots that were
  freed. Hence marked slots are slots in use (`Agreeing`), and a sweep takes no room from the new head.

**LocalHeap** (`LocalHeapProofs`), for any memory, any objects and any threshold:

- `HeapKept` (`GraphKept`). What holds in the midst of a copy: `Graph` (each object refers to what it was made with, by identity, at every step),
  `Forwarding` (a private object is there once and has one copy at most, which no other has), `Followed` (a reference that is not on the
  work list any more leads to a copy or to the shared heap) and `Counted`. At the end of a collection the work list is empty, and what the old
  space has is not reached.

**FirstUse** (`FirstUseProofs`), for any workers and functions, for every program with `MaxUses` globals per function
at most (`Parameters` says only that `MaxUses` is a number and that `NoFunction` is no function):

- `CompiledOncePerWorker` and `UncheckedUsesAreWhole`: no worker compiles a function twice, and code or a
  global's value that was found without the lock is whole. From `Locking` and `Compiling` (at most one worker compiles a
  function at a time, and it is in `compiling_`), `Copying` and `CodeWhole` (an address is published after
  the code was copied), `Fresh` (a worker that compiles a function has no copy of it yet) and `Binding` (`initialized_` is set after `value_`), with `Given`, `Typed` and
  `Running`. They are theorems of `FirstUse` with any program given to it by `LoaderGives`. Run `loading` checks the same two
  definitions in `Startup`, whose workers do these steps; that `Startup` implements `FirstUse`, for the programs of the run, was checked with TLC.

**Vector** (`CollectionsProofs`), for any width from 2 on, any length and any number of versions:

- `ArraysAreFinal`: no step changes an array that was there before it. The lemmas on `Grow`, `WithChild`, `Copied` and `PushTail` end
  in `Grown(h, g)`, which says that the heap g is h and more.
- `VersionsKeep` (`VersionsKeepContents`) and `IterationVisits` (`IterationVisitsAll`), from `VectorInv`: in the heap, every version `Is` the
  vector of its contents. That means: there are arrays `P[l][x]` for each level l and each index x shifted to it, such that the array at `P[l][x]` has
  the arrays of the level below as its entries (`Tree`), those of the lowest level hold the elements in chunks of the width, and the tail holds the rest. `Is` goes over
  to any `Grown` heap (`IsKept`), so that what one version does cannot be seen in another. `ConjIs` is the induction over levels: from the copies of the arrays on the
  right edge, `pushTail` makes such a tree with one leaf more, in the same height or one level higher.

**Map** (`CollectionsProofs`), for any width from 2 on, any number of levels, any keys and any hashes:

- `MapIsAFunction` (`MapIsFunction`) and `CollisionsThrow` (`ThrowsOnCollision`), from `MapInv`: the nodes are the `Trie` of the function. At level n, on
  the way of the hash h, there is nothing, a leaf or an inner node as no key, one or several agree with h in the first n digits (`Place`);
  the children of an inner node are in the order of the digits that occur, which is what `map_index` counts (`IndexOnce`, `IndexOnto`, `IndexMore`).
- `FindIs` follows a key down. `AssocIs` says that the way down ends at the leaf of the key, at the leaf of another key with the same hash, where it throws,
  or nowhere; and that the nodes made on the way back, put in their places (`Grafted`), are the trie of the function with the new key. `KeysIs` goes through the levels: the
  nodes of each stand for the keys, every key under one of them (`RowIs`), and at the last level they are the leaves.
- That no two keys of a map have the same hash (`Apart`) is part of the invariant and not an assumption.

**HTTP server** (`HttpProofs`), for any connections and any requests:

- `BuffersKept` (`BuffersAccounted`), from `Accounted` (who may hold a buffer, in which state, that it is not in the pool, and that the pool has
  none twice) and `Unborn` (a connection in the backlog has not begun). Of the parser it needs only that it leaves the buffer alone (`ParsedShape`).
- `HeadersKept` (`HeadersAreTheRequests`) and `CrashesKnown` (`OnlyKnownCrashes`), under `ScriptsRead`, which says what the packets of a client are by how a
  *new* parser takes each run of consecutive packets of its script: a packet of a patient client, and any packet that has the head of a request, is one whole request
  and makes the calls for its headers; and no read ends after the head of one request and within another. It is about constants; TLC evaluates it for the scripts of run
  `http` (`ScriptsAssumption`). `CrashesKnown` assumes `InOrder` besides, without which `async_accept` may end the process (section 3).
- The parser of a connection is not a new one. `WaitingReads` closes that gap: a parser that waits between two requests takes any text as a new one
  does. The two runs are `Beside` each other and their parsers `Kept`: equal in each field that was set since the request began, and no field is read before
  (`StepCarried`, one lemma for each state, says so of `http_parser_execute`).
- The inductive invariant is `Served`: what is in the inbox and what was read last are consecutive packets of the script (`Clients`); and at each step
  of its fiber (`Serving`) a connection is `Ready` to read (state `INITIAL`, no header begun, the parser waiting), or has `Answered` with its
  parser `Rested`: it waits, or is dead and says that the connection is not kept. So `http_keepalive` never leads to a read with a parser that refuses it.
- `HeadTold` goes through the calls for one request, `AllFollowed` through any calls: a head without the end of its last header would leave
  `prev_header_cb` at field, which `ScriptsRead` rules out. The entry before the headers of a later request, and of one without headers, comes out of `HeadTold` as it
  does in the code (section 5). That it is a whole header of an earlier read, or was never set, is the part `InHand`: what the two optionals hold
  is a name with its own value from what the connection has heard (`Seen`, `MayHold`), since the calls of a read alternate between
  the two (`Alternate`, which is part of `ScriptsRead`).

**HTTP parser** (`HttpProofs` too), for any streams of requests and any sizes of reads, of which `StreamAssumption` says only that what is written is a
sequence:

- `ReadsAsOne`: at every moment the parser is where one read of the first n characters leaves it, the
  receiver was told what that read tells, with texts in pieces joined, and the characters behind n are unread. Two cases are apart. A
  read that fails may keep back the text it was in. And of a text that goes on after an upgrade nothing is said (`Uncut`), since the next read takes up what
  the parser has refused in the same one (section 5).
- The argument compares two runs over the same text cut at different places. They are `Alike`: the same
  parser, and the same told if the marked text is counted as told. `StepAlike` says that each character keeps this, by one lemma for each state, and `EatAlike` and
  `ReadsAlike` carry it over the loop and over a read. By the way, a state that marks a text meets no mark or its own, which is what
  `http_parser.c:2071` asserts.
- `SplitsTellTheSame` (`SplitsDoNotMatter`) and `SplitsKeepAliveTheSame` (`KeepAliveAsAsked`), under `OneReadTells`: if one read of each beginning of each stream tells what the
  messages say, and the parser answers for the connection as they ask, then so do any reads of it. The assumption is about the parser alone, has no behaviours in it and
  is evaluated by TLC for the 96 streams of run `http`: for those streams the two properties hold with reads of any size, not only of
  the sizes of the run.

The parts of the inductive invariants were checked with TLC on the instances of the runs
before they were proved. Where a theorem speaks of a recursive function (`Moved`, the
run of the parser, `LeadsTo`, the levels of a vector or a map), induction is by the least number for which a claim fails, which exists since the order of the
naturals is well-founded: the induction theorems of the library take an operator as parameter, which the provers do
not.

**Only model-checked.**

- Liveness: `PausesHappen`, `AttachProceeds`, `ShutdownCompletes`, `RequestsAnswered`, `RunCompletes` and the fairness in
  `Promise` are out of the prover's reach.
- `RunsAsWritten`, `FramesNest`, `ReadsAsWritten`, `NamesBound`, `OnlyImportsUnbound`: `Jit`, `PackedCode`, `Loader` and `Startup` have recursive
  operators, which the prover does not take. Syntax trees have no levels to count by, as collections have.
- `OneReadTells`, for streams other than those of the run, and `ScriptsRead`, for other scripts: what one read makes of one request, as it is written, needs an
  induction over the text of a message for each kind of header.

## 7 Not modelled

- The encoding of instructions and the registers: `Jit` has the order of what is emitted, its jumps and what it calls.
- What values compute (`integer`, `string`, `list`, `range`, `struct`, `error`, `type`): sequential
  functions without state of their own. A message is its identity, an object its references.
- The lexer (tables generated by lexertl) and the compiler written in Park, which run before anything else and alone.
- How `parallel_scan` divides its work among helper threads: any listed object may be
  marked next, by anyone, which allows every division.
- Several sizes, finalizers and byte counters of the shared heap (the
  lists of different sizes share nothing but the lock); the doubling of the chunks and the
  threshold of the private heap, where a collection may begin at any checkpoint instead.
- `roots()` writing references of a sleeping fiber back while a partner pops its frame (`fiber.cc:562`): roots are a set here.
- The retry loop of `swap`; `compare_and_set` is modelled.
- Memory order: `stw_mutators_wait`, `local_collect_barrier_`, `code_` and `initialized_` are `std::atomic` (`gc.h:209`, `gc.h:78`, `ast.h:418`, `ast.h:343`)
  and are read without a lock, in the model too. A checkpoint need not happen, so that a worker may see the first two late by any number of
  its own steps; nothing is seen out of order.
- In the HTTP parser: responses, `CONNECT`, the limit on the size of headers, the overflow of a length, versions above 999.
- boost, lexertl, asmjit and other code that is not the repository's own. The event loop and the sockets are modelled from their use.

## 8 Plan

In this order:

1. `StackScan`: `roots()` against a partner that pops the frame (`fiber.cc:562`). Property: no reference is
   written to a slot that was given to another frame.
2. `AtomSwap`: the retry loop over `compare_and_set`; no lost update, and some fiber always gets through.
3. Finalizers in `SharedHeap`, and a second size.
4. Responses in `HttpParser`.
5. Proofs: `FramesNest` of `Jit`, after its recursive operators were written as recursive functions; that
   the lists of `StopTheWorld` are what `ConcurrentMark` takes a pause for; what one read makes of one message.
