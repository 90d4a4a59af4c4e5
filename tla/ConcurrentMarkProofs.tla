------------------------ MODULE ConcurrentMarkProofs ------------------------
(***************************************************************************)
(* Theorems of ConcurrentMark, for any fibers, atoms, boxes and channels   *)
(* and whatever the runtime refers to.  The heart of the inductive         *)
(* invariant is Tricolor: a set that has what the collector has listed,    *)
(* what it has yet to scan and what was taken behind its back, and with an *)
(* object it has yet to walk also its children, has everything that is in  *)
(* use.  When the marking ends, the marked objects are such a set, if      *)
(* nothing was taken.                                                      *)
(***************************************************************************)
EXTENDS ConcurrentMark, TLAPS

-----------------------------------------------------------------------------
(* The parts of the invariant. *)

\* Where the collector is says which lists are empty and which colors there are.
Control ==
    /\ barrier <=> phase # "idle"
    /\ barrier => Globals \subseteq grey \cup marked
    /\ phase # "scan" => toscan = {}
    /\ \A f \in toscan : color[f] = "scanning"
    /\ \A f \in Fibers :
        /\ color[f] = "scanning" => phase = "scan"
        /\ color[f] = "black" => barrier
        /\ color[f] = "grey" => phase \in {"idle", "mark"}
    /\ phase \in {"idle", "stw2"} => grey = {} /\ walking = {}
    /\ phase \in {"idle", "remark"} => reflist = {}
    /\ phase = "idle" => marked = {}

\* Memory that is not allocated refers to nothing.
FreeIsEmpty == \A o \in Objs \ heap : Children(o) = {}

\* What the collector has in a list, will find on a stack, or was robbed of.
Had == Listed \cup taken \cup UNION {roots[f] : f \in Unscanned}

\* That, and what it will come to from there.
Closed(S) ==
    /\ Had \subseteq S
    /\ \A o \in walking \cup (S \ marked) : Children(o) \subseteq S

\* A set with everything that fibers can come to.
InUse(S) ==
    /\ \A f \in Fibers : roots[f] \subseteq S
    /\ \A o \in S : Children(o) \subseteq S

Tricolor == barrier => \A S \in SUBSET Objs : Closed(S) => InUse(S)

\* What holds until a value is lost.
Sound == NoDangling /\ FreeIsEmpty /\ Tricolor

Inv == TypeOK /\ Control /\ (~lost => Sound)

-----------------------------------------------------------------------------
(* Types. *)

\* The queues of a channel keep their types.
LEMMA QueueTypes ==
    ASSUME TypeOK, NEW c \in Chans
    PROVE  /\ \A e \in Fibers \X Objs :
                [senders EXCEPT ![c] = Append(@, e)] \in [Chans -> Seq(Fibers \X Objs)]
           /\ senders[c] # << >> =>
                /\ [senders EXCEPT ![c] = Tail(@)] \in [Chans -> Seq(Fibers \X Objs)]
                /\ Head(senders[c]) \in Fibers \X Objs
           /\ \A f \in Fibers :
                [receivers EXCEPT ![c] = Append(@, f)] \in [Chans -> Seq(Fibers)]
           /\ receivers[c] # << >> =>
                /\ [receivers EXCEPT ![c] = Tail(@)] \in [Chans -> Seq(Fibers)]
                /\ Head(receivers[c]) \in Fibers
<1>1. senders[c] \in Seq(Fibers \X Objs) /\ receivers[c] \in Seq(Fibers)
    BY DEF TypeOK
<1>2. \A e \in Fibers \X Objs : Append(senders[c], e) \in Seq(Fibers \X Objs)
    BY <1>1
<1>3. senders[c] # << >> =>
        Tail(senders[c]) \in Seq(Fibers \X Objs) /\ Head(senders[c]) \in Fibers \X Objs
    BY <1>1
<1>4. \A f \in Fibers : Append(receivers[c], f) \in Seq(Fibers)
    BY <1>1
<1>5. receivers[c] # << >> =>
        Tail(receivers[c]) \in Seq(Fibers) /\ Head(receivers[c]) \in Fibers
    BY <1>1
<1> QED
    BY <1>2, <1>3, <1>4, <1>5 DEF TypeOK

LEMMA FiberTypes ==
    ASSUME TypeOK, NEW f \in Fibers, Mutator(f)
    PROVE  TypeOK'
<1>1. ASSUME NEW o \in Objs, Load(f, o)  PROVE TypeOK'
    BY <1>1 DEF TypeOK, Load, objects, channels, marking, history
<1>2. ASSUME NEW o \in Objs, Drop(f, o)  PROVE TypeOK'
    BY <1>2 DEF TypeOK, Drop, objects, channels, marking, history
<1>3. ASSUME NEW a \in Atoms, NEW new \in Objs \cup {Null}, CompareAndSet(f, a, new)
      PROVE  TypeOK'
    BY <1>3 DEF TypeOK, CompareAndSet, Shade, channels, fibers, marking, history, Objs
<1>4. ASSUME NEW o \in Objs, NEW r \in Objs \cup {Null}, New(f, o, r)  PROVE TypeOK'
    BY <1>4 DEF TypeOK, New, Alloc, channels, history
<1>5. CASE Sleep(f)
    BY <1>5 DEF TypeOK, Sleep, Detach, Colors, objects, channels, marking, history
<1>6. CASE Attach(f)
    BY <1>6 DEF TypeOK, Attach, Colors, objects, channels, marking, history
<1>7. ASSUME NEW c \in Chans, NEW o \in Objs, SendBlocks(f, c, o)  PROVE TypeOK'
    BY <1>7, QueueTypes DEF TypeOK, SendBlocks, MakeShared, Alloc, Detach, Colors, history
<1>8. ASSUME NEW c \in Chans, NEW o \in Objs, SendMatches(f, c, o)  PROVE TypeOK'
    <2>1. /\ receivers' \in [Chans -> Seq(Fibers)]
          /\ Head(receivers[c]) \in Fibers
        BY <1>8, QueueTypes DEF SendMatches
    <2>2. roots' \in [Fibers -> SUBSET Objs]
        BY <1>8, <2>1 DEF TypeOK, SendMatches
    <2> QED
        BY <1>8, <2>1, <2>2 DEF TypeOK, SendMatches, MakeShared, Alloc, history
<1>9. ASSUME NEW c \in Chans, RecvBlocks(f, c)  PROVE TypeOK'
    BY <1>9, QueueTypes DEF TypeOK, RecvBlocks, Detach, Colors, marking, history
<1>10. ASSUME NEW c \in Chans, RecvMatches(f, c)  PROVE TypeOK'
    <2>1. /\ senders' \in [Chans -> Seq(Fibers \X Objs)]
          /\ Head(senders[c]) \in Fibers \X Objs
        BY <1>10, QueueTypes DEF RecvMatches
    <2>2. Head(senders[c])[1] \in Fibers /\ Head(senders[c])[2] \in Objs
        BY <2>1
    <2>3. roots' \in [Fibers -> SUBSET Objs]
        BY <1>10, <2>2 DEF TypeOK, RecvMatches
    <2> QED
        BY <1>10, <2>1, <2>3 DEF TypeOK, RecvMatches, marking, history
<1> QED
    BY <1>1, <1>2, <1>3, <1>4, <1>5, <1>6, <1>7, <1>8, <1>9, <1>10 DEF Mutator

LEMMA ChildrenTyped ==
    ASSUME TypeOK, NEW o \in Objs
    PROVE  Children(o) \subseteq Objs
<1>1. CASE o \in Chans
    <2>1. senders[o] \in Seq(Fibers \X Objs)
        BY <1>1 DEF TypeOK
    <2>2. \A i \in DOMAIN senders[o] : senders[o][i] \in Fibers \X Objs
        BY <2>1
    <2> QED
        BY <1>1, <2>2 DEF Children
<1>2. CASE o \notin Chans
    BY <1>2 DEF TypeOK, Children
<1> QED
    BY <1>1, <1>2

LEMMA CollectorTypes ==
    ASSUME TypeOK, Collector
    PROVE  TypeOK'
<1> USE DEF TypeOK
<1>1. CASE Snapshot
    BY <1>1, ConcurrentMarkAssumption DEF Snapshot, Phases, objects, channels, fibers, history, Objs
<1>2. CASE SnapshotMarked
    BY <1>2 DEF SnapshotMarked, NextBatch, Phases, Colors, objects, channels, marking, history
<1>3. CASE BatchMarked
    BY <1>3 DEF BatchMarked, Phases, Colors, objects, channels, history
<1>4. CASE Drained
    BY <1>4 DEF Drained, NextBatch, Phases, Colors, objects, channels, marking, history
<1>5. CASE Remark
    BY <1>5 DEF Remark, Phases, objects, channels, fibers, history
<1>6. CASE FinishMarking
    <2>1. << >> \in Seq(Fibers \X Objs) /\ << >> \in Seq(Fibers)
        OBVIOUS
    <2> QED
        BY <1>6, <2>1 DEF FinishMarking, Phases, Colors
<1>7. ASSUME NEW f \in Fibers, ScanRoots(f)  PROVE TypeOK'
    BY <1>7 DEF ScanRoots, objects, channels, fibers, history
<1>8. ASSUME NEW o \in Objs, Mark(o)  PROVE TypeOK'
    BY <1>8 DEF Mark, objects, channels, fibers, history
<1>9. ASSUME NEW o \in Objs, Walk(o)  PROVE TypeOK'
    BY <1>9, ChildrenTyped DEF Walk, objects, channels, fibers, history
<1> QED
    BY <1>1, <1>2, <1>3, <1>4, <1>5, <1>6, <1>7, <1>8, <1>9 DEF Collector

(* Where the collector is. *)

LEMMA FiberControl ==
    ASSUME TypeOK, Control, NEW f \in Fibers, Mutator(f)
    PROVE  Control'
<1> USE DEF Control, TypeOK
<1>1. ASSUME NEW o \in Objs, Load(f, o)  PROVE Control'
    BY <1>1 DEF Load, objects, channels, marking, history
<1>2. ASSUME NEW o \in Objs, Drop(f, o)  PROVE Control'
    BY <1>2 DEF Drop, objects, channels, marking, history
<1>3. ASSUME NEW a \in Atoms, NEW new \in Objs \cup {Null}, CompareAndSet(f, a, new)
      PROVE  Control'
    BY <1>3 DEF CompareAndSet, Runs, Shade, channels, fibers, marking, history
<1>4. ASSUME NEW o \in Objs, NEW r \in Objs \cup {Null}, New(f, o, r)  PROVE Control'
    BY <1>4 DEF New, Alloc, channels, history
<1>5. CASE Sleep(f)
    BY <1>5 DEF Sleep, Runs, Detach, Colors, objects, channels, marking, history
<1>6. CASE Attach(f)
    BY <1>6 DEF Attach, Colors, objects, channels, marking, history
<1>7. ASSUME NEW c \in Chans, NEW o \in Objs, SendBlocks(f, c, o)  PROVE Control'
    BY <1>7 DEF SendBlocks, Runs, MakeShared, Alloc, Detach, Colors
<1>8. ASSUME NEW c \in Chans, NEW o \in Objs, SendMatches(f, c, o)  PROVE Control'
    BY <1>8 DEF SendMatches, MakeShared, Alloc
<1>9. ASSUME NEW c \in Chans, RecvBlocks(f, c)  PROVE Control'
    BY <1>9 DEF RecvBlocks, Runs, Detach, Colors, marking, history
<1>10. ASSUME NEW c \in Chans, RecvMatches(f, c)  PROVE Control'
    BY <1>10 DEF RecvMatches, marking, history
<1> QED
    BY <1>1, <1>2, <1>3, <1>4, <1>5, <1>6, <1>7, <1>8, <1>9, <1>10 DEF Mutator

LEMMA CollectorControl ==
    ASSUME TypeOK, Control, Collector
    PROVE  Control'
<1> USE DEF Control, TypeOK
<1>1. CASE Snapshot
    BY <1>1 DEF Snapshot, objects, channels, fibers, history
<1>2. CASE SnapshotMarked
    BY <1>2 DEF SnapshotMarked, NextBatch, WorkDone, objects, channels, marking, history
<1>3. CASE BatchMarked
    BY <1>3 DEF BatchMarked, WorkDone, objects, channels, history
<1>4. CASE Drained
    BY <1>4 DEF Drained, NextBatch, WorkDone, objects, channels, marking, history
<1>5. CASE Remark
    BY <1>5 DEF Remark, objects, channels, fibers, history
<1>6. CASE FinishMarking
    BY <1>6 DEF FinishMarking, WorkDone
<1>7. ASSUME NEW f \in Fibers, ScanRoots(f)  PROVE Control'
    BY <1>7 DEF ScanRoots, objects, channels, fibers, history
<1>8. ASSUME NEW o \in Objs, Mark(o)  PROVE Control'
    BY <1>8 DEF Mark, objects, channels, fibers, history
<1>9. ASSUME NEW o \in Objs, Walk(o)  PROVE Control'
    BY <1>9 DEF Walk, objects, channels, fibers, history
<1> QED
    BY <1>1, <1>2, <1>3, <1>4, <1>5, <1>6, <1>7, <1>8, <1>9 DEF Collector

-----------------------------------------------------------------------------
(* What a step of a fiber can do. *)

\* What is in the queues after an element was added or taken.
LEMMA SenderAdded ==
    ASSUME TypeOK, NEW c \in Chans, NEW e \in Fibers \X Objs,
           senders' = [senders EXCEPT ![c] = Append(@, e)]
    PROVE  \A d \in Chans : \A i \in DOMAIN senders'[d] :
             \/ i \in DOMAIN senders[d] /\ senders'[d][i] = senders[d][i]
             \/ d = c /\ i = Len(senders[c]) + 1 /\ senders'[d][i] = e
<1>1. senders \in [Chans -> Seq(Fibers \X Objs)] /\ senders[c] \in Seq(Fibers \X Objs)
    BY DEF TypeOK
<1> QED
    BY <1>1

LEMMA SenderTaken ==
    ASSUME TypeOK, NEW c \in Chans, senders[c] # << >>,
           senders' = [senders EXCEPT ![c] = Tail(@)]
    PROVE  /\ 1 \in DOMAIN senders[c] /\ Head(senders[c]) = senders[c][1]
           /\ \A d \in Chans \ {c} : senders'[d] = senders[d]
           /\ \A i \in DOMAIN senders'[c] :
                /\ i \in Nat /\ i # 0 /\ i + 1 \in DOMAIN senders[c]
                /\ senders'[c][i] = senders[c][i + 1]
           /\ \A i \in DOMAIN senders[c] : i # 1 =>
                i - 1 \in DOMAIN senders'[c] /\ senders'[c][i - 1] = senders[c][i]
<1>1. senders \in [Chans -> Seq(Fibers \X Objs)] /\ senders[c] \in Seq(Fibers \X Objs)
    BY DEF TypeOK
<1> QED
    BY <1>1


\* What some stack refers to, and what a step allocates.
Used == UNION {roots[f] : f \in Fibers}
Fresh == heap' \ heap

LEMMA SharedIsUsed ==
    ASSUME NEW f \in Fibers, NEW o \in Objs, MakeShared(f, o)
    PROVE  o \in Used \cup Fresh
    BY DEF MakeShared, Alloc, Used, Fresh

\* Stacks come to refer to what they led to, or to what is new.
LEMMA FiberStacks ==
    ASSUME TypeOK, NEW f \in Fibers, Mutator(f)
    PROVE  \A g \in Fibers : \A x \in roots'[g] :
             x \in Used \cup Fresh \/ \E o \in Used : x \in Children(o)
<1> DEFINE Reached == \A g \in Fibers : \A x \in roots'[g] :
                         x \in Used \cup Fresh \/ \E o \in Used : x \in Children(o)
<1>1. ASSUME \A g \in Fibers : roots'[g] \subseteq roots[g]  PROVE Reached
    BY <1>1 DEF Used
<1>2. ASSUME NEW o \in Objs, Load(f, o)  PROVE Reached
    BY <1>2 DEF Load, TypeOK, Used, Children
<1>3. ASSUME NEW o \in Objs, NEW r \in Objs \cup {Null}, New(f, o, r)  PROVE Reached
    BY <1>3 DEF New, Alloc, TypeOK, Used, Fresh
<1>4. ASSUME NEW c \in Chans, NEW o \in Objs, SendMatches(f, c, o)  PROVE Reached
    <2>1. o \in Used \cup Fresh
        BY <1>4, SharedIsUsed DEF SendMatches
    <2>2. \A g \in Fibers : roots'[g] \subseteq roots[g] \cup {o}
        BY <1>4 DEF SendMatches, TypeOK
    <2> QED
        BY <2>1, <2>2 DEF Used
<1>5. ASSUME NEW c \in Chans, RecvMatches(f, c)  PROVE Reached
    <2>1. 1 \in DOMAIN senders[c] /\ Head(senders[c]) = senders[c][1]
        BY <1>5, SenderTaken DEF RecvMatches
    <2>2. c \in Used /\ Head(senders[c])[2] \in Children(c)
        BY <1>5, <2>1 DEF RecvMatches, Used, Children
    <2>3. \A g \in Fibers : roots'[g] \subseteq roots[g] \cup {Head(senders[c])[2]}
        BY <1>5 DEF RecvMatches, TypeOK
    <2> QED
        BY <2>2, <2>3 DEF Used
<1>6. ASSUME \/ \E o \in Objs : Drop(f, o)
             \/ \E a \in Atoms, new \in Objs \cup {Null} : CompareAndSet(f, a, new)
             \/ Sleep(f) \/ Attach(f)
             \/ \E c \in Chans, o \in Objs : SendBlocks(f, c, o)
             \/ \E c \in Chans : RecvBlocks(f, c)
      PROVE  Reached
    <2>1. \A g \in Fibers : roots'[g] \subseteq roots[g]
        BY <1>6 DEF Drop, CompareAndSet, Sleep, Attach, SendBlocks, RecvBlocks, fibers, TypeOK
    <2> QED
        BY <1>1, <2>1
<1> QED
    BY <1>2, <1>3, <1>4, <1>5, <1>6 DEF Mutator

\* An object comes to refer to what was on a stack, and is on one itself.
LEMMA FiberChildren ==
    ASSUME TypeOK, NEW f \in Fibers, Mutator(f)
    PROVE  \A o \in Objs : \A x \in Children(o)' :
             x \in Children(o) \/ (o \in Used \cup Fresh /\ x \in Used \cup Fresh)
<1> DEFINE Written == \A o \in Objs : \A x \in Children(o)' :
                         x \in Children(o) \/ (o \in Used \cup Fresh /\ x \in Used \cup Fresh)
<1>1. ASSUME UNCHANGED <<slot, senders>>  PROVE Written
    BY <1>1 DEF Children
<1>2. ASSUME NEW a \in Atoms, NEW new \in Objs \cup {Null}, CompareAndSet(f, a, new)
      PROVE  Written
    BY <1>2 DEF CompareAndSet, TypeOK, channels, Used, Children
<1>3. ASSUME NEW o \in Objs, NEW r \in Objs \cup {Null}, New(f, o, r)  PROVE Written
    BY <1>3 DEF New, Alloc, TypeOK, channels, Used, Fresh, Children
<1>4. ASSUME NEW c \in Chans, NEW o \in Objs, SendBlocks(f, c, o)  PROVE Written
    <2>1. o \in Used \cup Fresh /\ c \in Used /\ slot' = slot
        BY <1>4, SharedIsUsed DEF SendBlocks, Used
    <2>2. \A d \in Chans : \A i \in DOMAIN senders'[d] :
            \/ i \in DOMAIN senders[d] /\ senders'[d][i] = senders[d][i]
            \/ d = c /\ i = Len(senders[c]) + 1 /\ senders'[d][i] = <<f, o>>
        BY <1>4, SenderAdded DEF SendBlocks
    <2>3. \A d \in Chans : \A x \in Children(d)' : x \in Children(d) \/ (d = c /\ x = o)
        BY <2>2 DEF Children
    <2>4. \A x \in Objs \ Chans : Children(x)' = Children(x)
        BY <2>1 DEF Children
    <2> QED
        BY <2>1, <2>3, <2>4
<1>5. ASSUME NEW c \in Chans, RecvMatches(f, c)  PROVE Written
    <2>1. /\ \A d \in Chans \ {c} : senders'[d] = senders[d]
          /\ \A i \in DOMAIN senders'[c] :
                i + 1 \in DOMAIN senders[c] /\ senders'[c][i] = senders[c][i + 1]
        BY <1>5, SenderTaken DEF RecvMatches
    <2>2. slot' = slot
        BY <1>5 DEF RecvMatches
    <2> QED
        BY <2>1, <2>2 DEF Children
<1>6. ASSUME \/ \E o \in Objs : Load(f, o) \/ Drop(f, o)
             \/ Sleep(f) \/ Attach(f)
             \/ \E c \in Chans, o \in Objs : SendMatches(f, c, o)
             \/ \E c \in Chans : RecvBlocks(f, c)
      PROVE  Written
    <2>1. UNCHANGED <<slot, senders>>
        BY <1>6 DEF Load, Drop, Sleep, Attach, SendMatches, RecvBlocks, objects, channels
    <2> QED
        BY <1>1, <2>1
<1> QED
    BY <1>2, <1>3, <1>4, <1>5, <1>6 DEF Mutator

\* The lists and the marks, while the barrier is on.
LEMMA FiberLists ==
    ASSUME TypeOK, Control, barrier, NEW f \in Fibers, Mutator(f)
    PROVE  /\ barrier' /\ UNCHANGED <<grey, walking>>
           /\ heap \subseteq heap' /\ marked' = marked \cup Fresh
           /\ reflist \subseteq reflist' /\ taken \subseteq taken'
           /\ Unscanned' = Unscanned
           /\ \A g \in Unscanned : roots[g] \subseteq roots'[g]
<1>1. /\ color \in [Fibers -> Colors] /\ roots \in [Fibers -> SUBSET Objs] /\ toscan \subseteq Fibers
      /\ \A g \in Unscanned : g \in Fibers /\ color[g] # "running"
    BY DEF TypeOK, Control, Unscanned
<1> DEFINE Lists ==
             /\ barrier' /\ UNCHANGED <<grey, walking, toscan>>
             /\ heap \subseteq heap' /\ marked' = marked \cup Fresh
             /\ reflist \subseteq reflist' /\ taken \subseteq taken'
<1> DEFINE Stacks ==
             /\ \A g \in Fibers : color'[g] = "grey" <=> color[g] = "grey"
             /\ \A g \in Unscanned : roots[g] \subseteq roots'[g]
<1>2. ASSUME NEW o \in Objs, Load(f, o)  PROVE Lists /\ Stacks
    BY <1>1, <1>2 DEF Load, objects, marking, history, Fresh
<1>3. ASSUME NEW o \in Objs, Drop(f, o)  PROVE Lists /\ Stacks
    BY <1>1, <1>3 DEF Drop, Runs, objects, marking, history, Fresh
<1>4. ASSUME NEW a \in Atoms, NEW new \in Objs \cup {Null}, CompareAndSet(f, a, new)
      PROVE  Lists /\ Stacks
    BY <1>4 DEF CompareAndSet, Shade, fibers, marking, history, Fresh
<1>5. ASSUME NEW o \in Objs, NEW r \in Objs \cup {Null}, New(f, o, r)  PROVE Lists /\ Stacks
    <2>1. Lists /\ color' = color
        BY <1>5 DEF New, Alloc, history, Fresh
    <2>2. \A g \in Fibers : roots[g] \subseteq roots'[g]
        BY <1>1, <1>5 DEF New
    <2> QED
        BY <1>1, <2>1, <2>2
<1>6. ASSUME Sleep(f) \/ Attach(f)  PROVE Lists /\ Stacks
    BY <1>1, <1>6 DEF Sleep, Attach, Runs, Detach, objects, marking, history, Fresh
<1>7. ASSUME NEW c \in Chans, NEW o \in Objs, SendBlocks(f, c, o)  PROVE Lists /\ Stacks
    <2>1. Lists /\ roots' = roots
        BY <1>7 DEF SendBlocks, MakeShared, Alloc, history, Fresh
    <2> QED
        BY <1>1, <1>7, <2>1 DEF SendBlocks, Runs, Detach
<1>8. ASSUME NEW c \in Chans, NEW o \in Objs, SendMatches(f, c, o)  PROVE Lists /\ Stacks
    <2>1. Lists /\ color' = color
        BY <1>8 DEF SendMatches, MakeShared, Alloc, history, Fresh
    <2>2. \A g \in Fibers : roots[g] \subseteq roots'[g]
        BY <1>1, <1>8 DEF SendMatches
    <2> QED
        BY <1>1, <2>1, <2>2
<1>9. ASSUME NEW c \in Chans, RecvBlocks(f, c)  PROVE Lists /\ Stacks
    BY <1>1, <1>9 DEF RecvBlocks, Runs, Detach, marking, history, Fresh
<1>10. ASSUME NEW c \in Chans, RecvMatches(f, c)  PROVE Lists /\ Stacks
    <2>1. Lists /\ color' = color
        BY <1>10 DEF RecvMatches, marking, Fresh
    <2>2. \A g \in Fibers : roots[g] \subseteq roots'[g]
        BY <1>1, <1>10 DEF RecvMatches
    <2> QED
        BY <1>1, <2>1, <2>2
<1>11. Lists /\ Stacks
    BY <1>2, <1>3, <1>4, <1>5, <1>6, <1>7, <1>8, <1>9, <1>10 DEF Mutator
<1>12. Unscanned' = Unscanned
    BY <1>11 DEF Unscanned
<1> QED
    BY <1>11, <1>12

\* What an object refers to no more, the collector has, or walks the object no more.
LEMMA FiberForgets ==
    ASSUME TypeOK, Control, barrier, NEW f \in Fibers, Mutator(f),
           NEW o \in Objs, o \notin marked \ walking, o \in heap
    PROVE  Children(o) \subseteq Children(o)' \cup Had'
<1>1. CASE UNCHANGED <<slot, senders>>
    BY <1>1 DEF Children
<1>2. ASSUME NEW a \in Atoms, NEW new \in Objs \cup {Null}, CompareAndSet(f, a, new)
      PROVE  Children(o) \subseteq Children(o)' \cup Had'
    <2>1. slot[a] # Null => slot[a] \in Had'
        BY <1>2 DEF CompareAndSet, Shade, Had, Listed
    <2>2. senders' = senders /\ \A x \in Objs : x # a => slot'[x] = slot[x]
        BY <1>2 DEF CompareAndSet, TypeOK, channels
    <2> QED
        BY <2>1, <2>2 DEF Children
<1>3. ASSUME NEW x \in Objs, NEW r \in Objs \cup {Null}, New(f, x, r)
      PROVE  Children(o) \subseteq Children(o)' \cup Had'
    <2>1. senders' = senders /\ slot'[o] = slot[o]
        BY <1>3 DEF New, Alloc, TypeOK, channels
    <2> QED
        BY <2>1 DEF Children
<1>4. ASSUME NEW c \in Chans, NEW x \in Objs, SendBlocks(f, c, x)
      PROVE  Children(o) \subseteq Children(o)' \cup Had'
    <2>1. slot' = slot /\ senders' = [senders EXCEPT ![c] = Append(@, <<f, x>>)]
        BY <1>4 DEF SendBlocks
    <2>2. senders \in [Chans -> Seq(Fibers \X Objs)] /\ senders[c] \in Seq(Fibers \X Objs)
        BY DEF TypeOK
    <2>3. \A i \in DOMAIN senders[c] :
            i \in DOMAIN senders'[c] /\ senders'[c][i] = senders[c][i]
        BY <2>1, <2>2
    <2> QED
        BY <2>1, <2>2, <2>3 DEF Children
<1>5. ASSUME NEW c \in Chans, RecvMatches(f, c)
      PROVE  Children(o) \subseteq Children(o)' \cup Had'
    <2>1. /\ \A d \in Chans \ {c} : senders'[d] = senders[d]
          /\ Head(senders[c]) = senders[c][1]
          /\ \A i \in DOMAIN senders[c] : i # 1 =>
                i - 1 \in DOMAIN senders'[c] /\ senders'[c][i - 1] = senders[c][i]
        BY <1>5, SenderTaken DEF RecvMatches
    <2>2. CASE o # c
        BY <1>5, <2>1, <2>2 DEF RecvMatches, Children
    <2>3. CASE o = c
        <3>1. \A i \in DOMAIN senders[c] :
                i = 1 \/ senders[c][i][2] \in Children(c)'
            BY <2>1 DEF Children
        <3>2. senders[c][1][2] \in Had'
            <4> DEFINE sender == senders[c][1][1]
            <4> DEFINE value == senders[c][1][2]
            <4>1. /\ roots' = [roots EXCEPT ![f] = @ \cup {value}, ![sender] = @ \cup {value}]
                  /\ taken' = IF barrier /\ c \notin marked \ walking /\ sender \notin Unscanned
                              THEN taken \cup ({value} \ Listed) ELSE taken
                BY <1>5, <2>1 DEF RecvMatches
            <4>2. Listed' = Listed /\ Unscanned' = Unscanned
                BY <1>5 DEF RecvMatches, Listed, Unscanned, marking
            <4>3. CASE sender \in Unscanned
                <5>1. sender \in Fibers
                    BY <4>3 DEF Unscanned, TypeOK
                <5>2. value \in roots'[sender]
                    BY <4>1, <5>1 DEF TypeOK
                <5> QED
                    BY <4>2, <4>3, <5>2 DEF Had
            <4>4. CASE sender \notin Unscanned
                <5>1. value \in taken' \cup Listed'
                    BY <2>3, <4>1, <4>2, <4>4
                <5> QED
                    BY <5>1 DEF Had
            <4> QED
                BY <4>3, <4>4
        <3> QED
            BY <2>3, <3>1, <3>2 DEF Children
    <2> QED
        BY <2>2, <2>3
<1>6. ASSUME \/ \E x \in Objs : Load(f, x) \/ Drop(f, x)
             \/ Sleep(f) \/ Attach(f)
             \/ \E c \in Chans, x \in Objs : SendMatches(f, c, x)
             \/ \E c \in Chans : RecvBlocks(f, c)
      PROVE  UNCHANGED <<slot, senders>>
    BY <1>6 DEF Load, Drop, Sleep, Attach, SendMatches, RecvBlocks, objects, channels
<1> QED
    BY <1>1, <1>2, <1>3, <1>4, <1>5, <1>6 DEF Mutator

\* What was in use, and what is new, is all that a fiber can come to use.
LEMMA FiberInUse ==
    ASSUME TypeOK, TypeOK', FreeIsEmpty, NEW f \in Fibers, Mutator(f),
           NEW S \in SUBSET Objs, InUse(S), NEW T, T = S \cup Fresh
    PROVE  InUse(T)'
<1>1. Used \subseteq S /\ Fresh \subseteq Objs
    BY DEF InUse, Used, Fresh, TypeOK
<1>2. \A o \in Used : Children(o) \subseteq S
    BY <1>1 DEF InUse
<1>3. \A g \in Fibers : roots'[g] \subseteq T
    BY <1>1, <1>2, FiberStacks
<1>4. \A o \in T : Children(o) \subseteq S
    BY <1>1 DEF InUse, FreeIsEmpty, Fresh
<1>5. \A o \in T : Children(o)' \subseteq T
    BY <1>1, <1>4, FiberChildren
<1> QED
    BY <1>3, <1>5 DEF InUse

\* Fibers free nothing and end no marking.
LEMMA FiberFreesNothing ==
    ASSUME NEW f \in Fibers, Mutator(f)
    PROVE  heap \subseteq heap' /\ barrier' = barrier /\ lost' = lost
    BY DEF Mutator, Load, Drop, CompareAndSet, New, Sleep, Attach, SendBlocks, SendMatches,
           RecvBlocks, RecvMatches, MakeShared, Alloc, objects, history

LEMMA FiberClosed ==
    ASSUME TypeOK, Control, FreeIsEmpty, barrier, NEW f \in Fibers, Mutator(f),
           NEW S \in SUBSET Objs, Closed(S)'
    PROVE  Closed(S)
<1>1. /\ UNCHANGED <<grey, walking>> /\ marked' = marked \cup Fresh
      /\ reflist \subseteq reflist' /\ taken \subseteq taken' /\ Unscanned' = Unscanned
      /\ \A g \in Unscanned : roots[g] \subseteq roots'[g]
    BY FiberLists
<1>2. Had' \subseteq S /\ \A o \in walking' \cup (S \ marked') : Children(o)' \subseteq S
    BY DEF Closed
<1>3. Had \subseteq Had'
    BY <1>1 DEF Had, Listed
<1>4. ASSUME NEW o \in walking \cup (S \ marked)  PROVE Children(o) \subseteq S
    <2>1. o \in Objs /\ o \notin marked \ walking
        BY <1>4 DEF TypeOK
    <2>2. CASE o \notin heap
        BY <2>1, <2>2 DEF FreeIsEmpty
    <2>3. CASE o \in heap
        <3>1. o \in walking' \cup (S \ marked')
            BY <1>1, <1>4, <2>3 DEF Fresh
        <3> QED
            BY <1>2, <2>1, <2>3, <3>1, FiberForgets
    <2> QED
        BY <2>2, <2>3
<1> QED
    BY <1>2, <1>3, <1>4 DEF Closed

LEMMA FiberSound ==
    ASSUME TypeOK, TypeOK', Control, Sound, NEW f \in Fibers, Mutator(f)
    PROVE  Sound'
<1>1. TypeOK /\ NoDangling /\ FreeIsEmpty /\ Tricolor
    BY DEF Sound
<1>2. heap \subseteq heap' /\ barrier' = barrier
    BY FiberFreesNothing
<1>3. InUse(heap) /\ heap \in SUBSET Objs /\ Used \subseteq heap
    BY <1>1 DEF NoDangling, InUse, TypeOK, Used
<1>4. NoDangling'
    <2>1. PICK T : T = heap'
        OBVIOUS
    <2>2. InUse(T)'
        BY <1>1, <1>2, <1>3, <2>1, FiberInUse DEF Fresh
    <2> QED
        BY <1>1, <1>2, <2>1, <2>2 DEF InUse, NoDangling
<1>5. FreeIsEmpty'
    <2>1. \A o \in Objs \ heap' : o \notin Used \cup Fresh /\ Children(o) = {}
        BY <1>1, <1>2, <1>3 DEF FreeIsEmpty, Fresh
    <2> QED
        BY <2>1, FiberChildren DEF FreeIsEmpty
<1>6. Tricolor'
    <2> SUFFICES ASSUME barrier', NEW S \in SUBSET Objs, Closed(S)'
                 PROVE  InUse(S)'
        BY DEF Tricolor
    <2>1. barrier /\ Closed(S)
        BY <1>1, <1>2, FiberClosed
    <2>2. InUse(S)
        BY <1>1, <2>1 DEF Tricolor
    <2>3. S = S \cup Fresh
        <3>1. Fresh \subseteq marked' /\ marked' \subseteq S
            BY <2>1, FiberLists DEF Closed, Had, Listed
        <3> QED
            BY <3>1
    <2> QED
        BY <1>1, <2>2, <2>3, FiberInUse
<1> QED
    BY <1>4, <1>5, <1>6 DEF Sound

-----------------------------------------------------------------------------
(* What a step of the collector can do. *)

LEMMA ChildrenKept ==
    ASSUME UNCHANGED <<slot, senders>>
    PROVE  \A o : Children(o)' = Children(o)
    BY DEF Children

LEMMA CollectorClosed ==
    ASSUME TypeOK, Control, Collector, ~Snapshot, ~FinishMarking,
           NEW S \in SUBSET Objs, Closed(S)'
    PROVE  Closed(S)
<1>1. Had' \subseteq S /\ \A o \in walking' \cup (S \ marked') : Children(o)' \subseteq S
    BY DEF Closed
<1>2. UNCHANGED <<slot, senders, roots>>
    BY DEF Collector, SnapshotMarked, BatchMarked, Drained, Remark, ScanRoots,
           Mark, Walk, objects, channels, fibers
<1>3. \A o : Children(o)' = Children(o)
    BY <1>2, ChildrenKept
<1>4. ASSUME Had \subseteq Had', walking' = walking, marked' = marked  PROVE Closed(S)
    BY <1>1, <1>3, <1>4 DEF Closed
<1>5. CASE SnapshotMarked \/ Drained
    <2>1. Unscanned' = Unscanned
        BY <1>5 DEF SnapshotMarked, Drained, NextBatch, WorkDone, Unscanned, TypeOK
    <2>2. UNCHANGED <<grey, walking, marked, reflist, taken>>
        BY <1>5 DEF SnapshotMarked, Drained, marking, history
    <2> QED
        BY <1>2, <1>4, <2>1, <2>2 DEF Had, Listed
<1>6. CASE BatchMarked \/ Remark
    <2>1. Unscanned' = Unscanned
        BY <1>6 DEF BatchMarked, Remark, Unscanned, TypeOK, fibers
    <2>2. UNCHANGED <<walking, marked, taken>> /\ Listed' = Listed
        BY <1>6 DEF BatchMarked, Remark, WorkDone, Control, Listed, history
    <2> QED
        BY <1>2, <1>4, <2>1, <2>2 DEF Had
<1>7. ASSUME NEW f \in Fibers, ScanRoots(f)  PROVE Closed(S)
    <2>1. /\ UNCHANGED <<walking, marked, taken>> /\ Listed' = Listed \cup roots[f]
          /\ Unscanned \subseteq Unscanned' \cup {f}
        BY <1>7 DEF ScanRoots, Listed, Unscanned, fibers, history
    <2> QED
        BY <1>2, <1>4, <2>1 DEF Had
<1>8. ASSUME NEW o \in Objs, Mark(o)  PROVE Closed(S)
    <2>1. /\ Listed' = Listed /\ Unscanned' = Unscanned /\ taken' = taken \ {o} /\ o \in grey
          /\ marked' = marked \cup {o} /\ walking \subseteq walking'
          /\ o \in walking' \/ o \in marked
        BY <1>8 DEF Mark, Listed, Unscanned, fibers
    <2>2. Had \subseteq Had'
        BY <1>2, <2>1 DEF Had, Listed
    <2> QED
        BY <1>1, <1>3, <2>1, <2>2 DEF Closed
<1>9. ASSUME NEW o \in Objs, Walk(o)  PROVE Closed(S)
    <2>1. /\ Listed' = Listed \cup Children(o) /\ UNCHANGED <<marked, taken>>
          /\ walking' = walking \ {o} /\ Unscanned' = Unscanned
        BY <1>9 DEF Walk, Listed, Unscanned, fibers, history
    <2>2. Had \subseteq Had' /\ Children(o) \subseteq S
        BY <1>1, <1>2, <2>1 DEF Had
    <2> QED
        BY <1>1, <1>3, <2>1, <2>2 DEF Closed
<1> QED
    BY <1>5, <1>6, <1>7, <1>8, <1>9 DEF Collector

\* At the snapshot every fiber runs, or is yet to be scanned.
LEMMA SnapshotTricolor ==
    ASSUME TypeOK, Control, Snapshot
    PROVE  Tricolor'
<1> SUFFICES ASSUME NEW S \in SUBSET Objs, Closed(S)'
             PROVE  InUse(S)'
    BY DEF Tricolor
<1>1. /\ phase = "idle" /\ marked' = {} /\ UNCHANGED <<slot, senders, roots, color, toscan>>
      /\ grey' = Globals \cup UNION {roots[f] : f \in {g \in Fibers : color[g] = "running"}}
    BY DEF Snapshot, Control, objects, channels, fibers
<1>2. \A f \in Fibers : color[f] = "running" \/ f \in Unscanned'
    BY <1>1 DEF TypeOK, Colors, Control, Unscanned
<1>3. /\ grey' \subseteq S /\ \A f \in Unscanned' : roots[f] \subseteq S
      /\ \A o \in S : Children(o)' \subseteq S
    BY <1>1 DEF Closed, Had, Listed
<1>4. \A f \in Fibers : roots[f] \subseteq S
    BY <1>1, <1>2, <1>3
<1> QED
    BY <1>1, <1>3, <1>4 DEF InUse

\* When the marking ends, the marks are a closed set, if nothing was taken.
LEMMA FinishSound ==
    ASSUME TypeOK, Control, Sound, FinishMarking, ~lost'
    PROVE  Sound'
<1>1. /\ phase = "remark" /\ barrier /\ taken = {} /\ grey = {} /\ walking = {} /\ toscan = {}
      /\ reflist = {} /\ barrier' = FALSE /\ roots' = roots /\ heap' = heap \cap marked
      /\ Globals \subseteq marked /\ marked \subseteq Objs
    BY DEF FinishMarking, WorkDone, Control, TypeOK
<1>2. \A f \in Fibers : color[f] # "grey"
    BY <1>1 DEF Control
<1>3. Closed(marked)
    BY <1>1, <1>2 DEF Closed, Had, Listed, Unscanned
<1>4. InUse(marked)
    BY <1>1, <1>3 DEF Sound, Tricolor
<1>5. /\ \A o \in Objs \cap marked : Children(o)' = Children(o)
      /\ \A o \in Objs \ marked : Children(o)' = {}
    <2>1. /\ \A o \in Objs : slot'[o] = IF o \in marked THEN slot[o] ELSE Null
          /\ \A c \in Chans : senders'[c] = IF c \in marked THEN senders[c] ELSE << >>
        BY DEF FinishMarking
    <2>2. DOMAIN << >> = {}
        OBVIOUS
    <2> QED
        BY <2>1, <2>2 DEF Children
<1>6. NoDangling'
    <2>1. Globals \subseteq heap' /\ \A f \in Fibers : roots'[f] \subseteq heap'
        BY <1>1, <1>4 DEF Sound, NoDangling, InUse
    <2>2. \A o \in heap' : Children(o)' \subseteq heap'
        BY <1>1, <1>4, <1>5 DEF Sound, NoDangling, InUse, TypeOK
    <2> QED
        BY <2>1, <2>2 DEF NoDangling
<1>7. FreeIsEmpty'
    BY <1>1, <1>5 DEF Sound, FreeIsEmpty
<1>8. Tricolor'
    BY <1>1 DEF Tricolor
<1> QED
    BY <1>6, <1>7, <1>8 DEF Sound

LEMMA CollectorSound ==
    ASSUME TypeOK, Control, Sound, Collector, ~lost'
    PROVE  Sound'
<1>1. CASE FinishMarking
    BY <1>1, FinishSound
<1>2. CASE ~FinishMarking
    <2>1. UNCHANGED <<heap, slot, senders, roots>>
        BY <1>2 DEF Collector, Snapshot, SnapshotMarked, BatchMarked, Drained, Remark, ScanRoots,
                    Mark, Walk, objects, channels, fibers
    <2>2. \A o : Children(o)' = Children(o)
        BY <2>1, ChildrenKept
    <2>3. NoDangling' /\ FreeIsEmpty'
        BY <2>1, <2>2 DEF Sound, NoDangling, FreeIsEmpty
    <2>4. Tricolor'
        <3>1. CASE Snapshot
            BY <3>1, SnapshotTricolor
        <3>2. CASE ~Snapshot
            <4> SUFFICES ASSUME barrier', NEW S \in SUBSET Objs, Closed(S)'
                         PROVE  InUse(S)'
                BY DEF Tricolor
            <4>1. barrier
                BY <1>2, <3>2 DEF Collector, SnapshotMarked, BatchMarked, Drained, Remark,
                                  ScanRoots, Mark, Walk
            <4>2. InUse(S)
                BY <1>2, <3>2, <4>1, CollectorClosed DEF Sound, Tricolor
            <4> QED
                BY <2>1, <2>2, <4>2 DEF InUse
        <3> QED
            BY <3>1, <3>2
    <2> QED
        BY <2>3, <2>4 DEF Sound
<1> QED
    BY <1>1, <1>2

-----------------------------------------------------------------------------
(* The theorems. *)

LEMMA InitInv ==
    ASSUME Init
    PROVE  Inv
<1>1. TypeOK
    <2>1. << >> \in Seq(Fibers \X Objs) /\ << >> \in Seq(Fibers)
        OBVIOUS
    <2>2. Globals \subseteq Objs
        BY ConcurrentMarkAssumption
    <2> QED
        BY <2>1, <2>2, ConcurrentMarkAssumption DEF Init, TypeOK, Colors, Phases
<1>2. Control /\ Tricolor
    BY DEF Init, Control, Tricolor
<1>3. \A o \in Objs : Children(o) = IF o \in Chans THEN {} ELSE {slot[o]} \ {Null}
    <2>1. \A c \in Chans : DOMAIN senders[c] = {}
        BY DEF Init
    <2> QED
        BY <2>1 DEF Children
<1>4. NoDangling /\ FreeIsEmpty
    BY <1>3, ConcurrentMarkAssumption DEF Init, NoDangling, FreeIsEmpty
<1> QED
    BY <1>1, <1>2, <1>4 DEF Inv, Sound

LEMMA StepInv ==
    ASSUME Inv, [Next]_vars
    PROVE  Inv'
<1>1. CASE UNCHANGED vars
    <2>1. /\ UNCHANGED <<heap, slot, senders, receivers, roots, color, waiting, phase>>
          /\ UNCHANGED <<barrier, toscan, grey, walking, marked, reflist, taken, lost>>
        BY <1>1 DEF vars, objects, channels, fibers, marking, history
    <2>2. TypeOK' /\ Control'
        BY <2>1 DEF Inv, TypeOK, Control
    <2>3. Sound => Sound'
        <3>1. Sound => NoDangling' /\ FreeIsEmpty'
            BY <2>1 DEF Sound, NoDangling, FreeIsEmpty, Children
        <3>2. /\ \A o \in Objs : Children(o)' = Children(o)
              /\ Had' = Had
            BY <2>1 DEF Had, Children, Unscanned, Listed
        <3>3. \A S \in SUBSET Objs : (Closed(S)' <=> Closed(S)) /\ (InUse(S)' <=> InUse(S))
            BY <2>1, <3>2 DEF Inv, TypeOK, Closed, InUse
        <3>4. Sound => Tricolor'
            BY <2>1, <3>3 DEF Sound, Tricolor
        <3> QED
            BY <3>1, <3>4 DEF Sound
    <2> QED
        BY <2>1, <2>2, <2>3 DEF Inv
<1>2. ASSUME NEW f \in Fibers, Mutator(f)  PROVE Inv'
    <2>1. TypeOK' /\ Control'
        BY <1>2, FiberTypes, FiberControl DEF Inv
    <2> QED
        BY <1>2, <2>1, FiberSound, FiberFreesNothing DEF Inv
<1>3. CASE Collector
    <2>1. TypeOK' /\ Control'
        BY <1>3, CollectorTypes, CollectorControl DEF Inv
    <2>2. lost => lost'
        BY <1>3 DEF Collector, Snapshot, SnapshotMarked, BatchMarked, Drained, Remark, ScanRoots,
                    Mark, Walk, FinishMarking, history
    <2> QED
        BY <1>3, <2>1, <2>2, CollectorSound DEF Inv
<1> QED
    BY <1>1, <1>2, <1>3 DEF Next

\* The invariant holds in every state.
THEOREM InvHolds == Spec => []Inv
<1> QED
    BY InitInv, StepInv, PTL DEF Spec

\* Whatever the fibers load, overwrite, allocate and send during the marking,
\* what is freed when it ends is referred to by nobody: not by a fiber's stack,
\* not by the runtime, not by an object that is kept. The one way to lose a
\* reference is the value that recv takes out of a channel without a barrier.
THEOREM NothingElseDangles == Spec => []OnlyTakenDangles
<1>1. Inv => OnlyTakenDangles
    BY DEF Inv, Sound, OnlyTakenDangles
<1> QED
    BY <1>1, InvHolds, PTL

\* At any moment of the marking the collector has, or will come to, everything
\* that a fiber it has scanned refers to, with the same exception: no load hides
\* an object from it.
THEOREM ScannedIsProtected == Spec => []ProtectedButTaken
<1>1. ASSUME Inv  PROVE ProtectedButTaken
    <2> SUFFICES ASSUME barrier, ~lost, NEW f \in Fibers \ Unscanned, NEW S \in ClosedSets
                 PROVE  roots[f] \subseteq S
        BY DEF ProtectedButTaken
    <2>1. S \in SUBSET Objs /\ Closed(S)
        BY DEF ClosedSets, Closed, Had
    <2> QED
        BY <1>1, <2>1 DEF Inv, Sound, Tricolor, InUse
<1> QED
    BY <1>1, InvHolds, PTL
=============================================================================
