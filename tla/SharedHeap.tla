----------------------------- MODULE SharedHeap -----------------------------
(***************************************************************************)
(* The blocks of one allocator and one size of objects: how alloc_shared   *)
(* (gc.h, heap_t and block_t of gc_base.h) finds a slot while the          *)
(* collector marks and sweeps the same blocks (gc.cc: sweep_heads,         *)
(* sweep_concurrent, block_t::sweep).  The mutator is the worker that owns *)
(* the allocator.                                                          *)
(*                                                                         *)
(* allocator_t::lock_ guards the lists; the mutator holds it for the whole *)
(* of next_head and the collector for each step of its walk, so each is    *)
(* one step here.  The collector sweeps a block without lock_, under the   *)
(* lock of the block.  Markers set a mark by an atomic or; the mutator, in *)
(* the same word and without a lock, by a plain one: it reads the word and *)
(* writes it in two steps.  What ConcurrentMark shows is used: when        *)
(* marking ends, what was in use when it began has been met, in any order, *)
(* some of it more than once.                                              *)
(***************************************************************************)
EXTENDS Naturals, FiniteSets, SequencesExt

CONSTANTS Blocks,   (* memory for blocks, allocated and not                *)
          Capacity, (* slots of a block                                    *)
          WordSize, (* marks in a word of marked_, 64                      *)
          MaxLive,  (* bound: objects in use at a time                     *)
          None      (* a null pointer                                      *)

ASSUME SharedHeapAssumption ==
  /\ None \notin Blocks
  /\ Capacity \in Nat \ {0}
  /\ WordSize \in Nat \ {0}
  /\ MaxLive \in Nat \ {0}

VARIABLES
  gpc,      (* where the collector is                                      *)
  cur,      (* current of sweep_concurrent                                 *)
  pass,     (* the list sweep_concurrent is in                             *)
  todo,     (* objects of the snapshot that are met yet, or once more      *)
  mask,     (* dirty_mask_                                                 *)
  head,     (* head_blocks_, for one size a block at most                  *)
  rest,     (* rest_blocks_                                                *)
  full,     (* full_blocks_                                                *)
  empty,    (* empty_blocks_                                               *)
  dirty,    (* block -> dirty_                                             *)
  used,     (* block -> its allocated slots: bitmap_ and available_        *)
  mark,     (* block -> its marked slots: marked_                          *)
  mpc,      (* where the mutator is in alloc_shared                        *)
  pending,  (* in block_t::alloc: the new slot, and the marks of its word  *)
  kept,     (* objects the program refers to                               *)
  missed,   (* blocks that some sweep has left out                         *)
  overwritten (* objects the program refers to, whose mark was overwritten *)

lists == <<head, rest, full, empty>>
bits == <<dirty, used, mark>>
walk == <<gpc, cur, pass>>
vars == <<walk, todo, mask, lists, bits, mpc, pending, kept, missed, overwritten>>

Slots == 1..Capacity
Objects == Blocks \X Slots

(***************************************************************************)
(* Collector: "idle", "mark" between the pauses, "start" before the walk,  *)
(* "visit" at a block, "sweeping" inside of block_t::sweep, "step" before  *)
(* it goes on.  Mutator: "run", "sweep" with a new head, "alloc" from it,  *)
(* "mark" when it has read the word of marked_.                            *)
(***************************************************************************)
TypeOK ==
  /\ gpc \in {"idle", "mark", "start", "visit", "sweeping", "step"}
  /\ cur \in IF gpc \in {"visit", "sweeping", "step"} THEN Blocks ELSE {None}
  /\ pass \in {"rest", "full"}
  /\ todo \in SUBSET Objects
  /\ mask \in BOOLEAN
  /\ head \in IF mpc = "run" THEN Blocks \cup {None} ELSE Blocks
  /\ \A list \in {rest, full, empty} : list \in Seq(Blocks)
  /\ IsInjective(rest \o full \o empty \o IF head = None THEN <<>> ELSE <<head>>)
  /\ dirty \in [Blocks -> BOOLEAN]
  /\ used \in [Blocks -> SUBSET Slots]
  /\ mark \in [Blocks -> SUBSET Slots]
  /\ mpc \in {"run", "sweep", "alloc", "mark"}
  /\ pending \in IF mpc = "mark" THEN [slot : Slots, marks : SUBSET Slots] ELSE {None}
  /\ kept \in SUBSET Objects
  /\ missed \in SUBSET Blocks
  /\ overwritten \in SUBSET Objects

Allocated == ToSet(rest) \cup ToSet(full) \cup ToSet(empty) \cup ({head} \ {None})
Full(b) == used[b] = Slots
HasRoom(b) == ~Full(b)

\* The slots with their mark in the same word as that of s.
Word(s) == {t \in Slots : (t - 1) \div WordSize = (s - 1) \div WordSize}

\* The blocks of the list s that are in S, moved one by one to the front of onto.
Moved(s, S, onto) ==
  LET moved[i \in 0..Len(s)] ==
        IF i = 0 THEN onto
        ELSE IF s[i] \in S THEN <<s[i]>> \o moved[i - 1] ELSE moved[i - 1]
  IN moved[Len(s)]

Init ==
  /\ gpc = "idle" /\ cur = None /\ pass = "rest" /\ todo = {}
  /\ mask = FALSE
  /\ head = None /\ rest = <<>> /\ full = <<>> /\ empty = <<>>
  /\ dirty = [b \in Blocks |-> FALSE]
  /\ used = [b \in Blocks |-> {}]
  /\ mark = [b \in Blocks |-> {}]
  /\ mpc = "run" /\ pending = None
  /\ kept = {} /\ missed = {} /\ overwritten = {}
-----------------------------------------------------------------------------
(***************************************************************************)
(* The mutator.                                                            *)
(***************************************************************************)

FaultSweptMarksStay(b) ==
  /\ used' = [used EXCEPT ![b] = mark[b]]
  /\ UNCHANGED mark

\* block_t::sweep: what is not marked is free, and the marks are cleared.
Swept(b) ==
  /\ used' = [used EXCEPT ![b] = mark[b]]
  /\ mark' = [mark EXCEPT ![b] = {}]

\* What ends an allocation: the program has its object.
Done(b, s) ==
  /\ mpc' = "run" /\ pending' = None
  /\ kept' = kept \cup {<<b, s>>}

\* The lowest free slot.
Take(b, s) ==
  /\ s \notin used[b]
  /\ \A t \in 1..(s - 1) : t \in used[b]
  /\ used' = [used EXCEPT ![b] = @ \cup {s}]

FaultAllocUnmarked(b) ==
  \E s \in Slots :
    /\ Cardinality(kept) < MaxLive
    /\ Take(b, s)
    /\ Done(b, s)
    /\ UNCHANGED <<walk, todo, mask, lists, dirty, mark, missed, overwritten>>

\* block_t::alloc, up to its plain or of the mark: that begins with a read of the word.
Alloc(b) ==
  \E s \in Slots :
    /\ Cardinality(kept) < MaxLive
    /\ Take(b, s)
    /\ IF gpc = "mark"
       THEN /\ mpc' = "mark" /\ pending' = [slot |-> s, marks |-> mark[b] \cap Word(s)]
            /\ UNCHANGED kept
       ELSE Done(b, s)
    /\ UNCHANGED <<walk, todo, mask, lists, dirty, mark, missed, overwritten>>

\* alloc_shared with a valid head: without any lock.
AllocFast ==
  /\ mpc = "run" /\ head # None /\ HasRoom(head)
  /\ Alloc(head)

(***************************************************************************)
(* The or ends with the write of the word: marks set since the read go.    *)
(***************************************************************************)
SetMark ==
  LET s == pending.slot
      written == pending.marks \cup {s}
  IN
  /\ mpc = "mark"
  /\ mark' = [mark EXCEPT ![head] = (@ \ Word(s)) \cup written]
  /\ overwritten' = overwritten \cup {o \in kept : o[1] = head /\ o[2] \in mark[head] \ mark'[head]}
  /\ Done(head, s)
  /\ UNCHANGED <<walk, todo, mask, lists, dirty, used, missed>>

\* As if the first block of rest were taken without asking for room.
FaultNextHeadUnchecked ==
  LET old == IF head = None THEN <<>> ELSE <<head>>
  IN
  /\ mpc = "run" /\ (head # None => Full(head))
  /\ mpc' = "sweep"
  /\ full' = old \o full
  /\ rest' = IF rest = <<>> THEN <<>> ELSE Tail(rest)
  /\ \/ rest # <<>> /\ head' = Head(rest) /\ UNCHANGED <<empty, dirty>>
     \/ rest = <<>> /\ empty # <<>> /\ head' = Head(empty) /\ empty' = Tail(empty) /\ UNCHANGED dirty
     \/ /\ rest = <<>> /\ empty = <<>>
        /\ head' \in Blocks \ Allocated
        /\ dirty' = [dirty EXCEPT ![head'] = FALSE]
        /\ UNCHANGED empty
  /\ UNCHANGED <<walk, todo, mask, used, mark, pending, kept, missed, overwritten>>

(***************************************************************************)
(* next_head: a full head, and every full block in front of rest, goes to  *)
(* the full list; the new head is the first block of rest with room, an    *)
(* empty block or a new one.                                               *)
(***************************************************************************)
NextHead ==
  LET i == SelectInSeq(rest, HasRoom)
      skipped == IF i = 0 THEN rest ELSE SubSeq(rest, 1, i - 1)
      old == IF head = None THEN <<>> ELSE <<head>>
  IN
  /\ mpc = "run" /\ (head # None => Full(head))
  /\ mpc' = "sweep"
  /\ full' = Moved(skipped, Blocks, old \o full)
  /\ rest' = IF i = 0 THEN <<>> ELSE SubSeq(rest, i + 1, Len(rest))
  /\ \/ i # 0 /\ head' = rest[i] /\ UNCHANGED <<empty, dirty>>
     \/ i = 0 /\ empty # <<>> /\ head' = Head(empty) /\ empty' = Tail(empty) /\ UNCHANGED dirty
     \/ /\ i = 0 /\ empty = <<>>
        /\ head' \in Blocks \ Allocated
        /\ dirty' = [dirty EXCEPT ![head'] = FALSE]
        /\ UNCHANGED empty
  /\ UNCHANGED <<walk, todo, mask, used, mark, pending, kept, missed, overwritten>>

FaultSweepHeadUnlocked ==
  /\ mpc = "sweep"
  /\ mpc' = "alloc"
  /\ IF dirty[head] # mask
     THEN dirty' = [dirty EXCEPT ![head] = mask] /\ Swept(head)
     ELSE UNCHANGED bits
  /\ UNCHANGED <<walk, todo, mask, lists, pending, kept, missed, overwritten>>

\* sweep of the new head, under its block lock: at most one thread does it.
SweepHead ==
  /\ mpc = "sweep" /\ ~(gpc = "sweeping" /\ cur = head)
  /\ mpc' = "alloc"
  /\ IF dirty[head] # mask
     THEN dirty' = [dirty EXCEPT ![head] = mask] /\ Swept(head)
     ELSE UNCHANGED bits
  /\ UNCHANGED <<walk, todo, mask, lists, pending, kept, missed, overwritten>>

AllocSlow ==
  /\ mpc = "alloc"
  /\ Alloc(head)

\* The program loses its last reference to an object.
Drop(o) ==
  /\ o \in kept
  /\ kept' = kept \ {o} /\ overwritten' = overwritten \ {o}
  /\ UNCHANGED <<walk, todo, mask, lists, bits, mpc, pending, missed>>
-----------------------------------------------------------------------------
(***************************************************************************)
(* The collector.  In a pause the mutator is at a checkpoint.              *)
(***************************************************************************)

\* The first pause: empty blocks are given back, the roots are recorded.
StartMarking ==
  /\ gpc = "idle" /\ mpc = "run"
  /\ gpc' = "mark"
  /\ todo' = kept
  /\ empty' = <<>>
  /\ used' = [b \in Blocks |-> IF b \in ToSet(empty) THEN {} ELSE used[b]]
  /\ mark' = [b \in Blocks |-> IF b \in ToSet(empty) THEN {} ELSE mark[b]]
  /\ dirty' = [b \in Blocks |-> IF b \in ToSet(empty) THEN FALSE ELSE dirty[b]]
  /\ UNCHANGED <<cur, pass, mask, head, rest, full, mpc, pending, kept, missed, overwritten>>

\* set_mark_concurrent, some worker; other references to the object may follow.
Mark(o) ==
  /\ gpc = "mark" /\ o \in todo
  /\ todo' \in {todo, todo \ {o}}
  /\ mark' = [mark EXCEPT ![o[1]] = @ \cup {o[2]}]
  /\ overwritten' = overwritten \ {o}
  /\ UNCHANGED <<walk, mask, lists, dirty, used, mpc, pending, kept, missed>>

\* The end of the second pause: flip the mask, move the head to rest.
FinishMarking ==
  /\ gpc = "mark" /\ todo = {} /\ mpc = "run"
  /\ gpc' = "start"
  /\ mask' = ~mask
  /\ rest' = (IF head = None THEN <<>> ELSE <<head>>) \o rest
  /\ head' = None
  /\ UNCHANGED <<cur, pass, todo, full, empty, bits, mpc, pending, kept, missed, overwritten>>

\* redistribute_full_blocks, then the allocator is swept.
EndSweep ==
  /\ gpc' = "idle" /\ cur' = None /\ pass' = "rest"
  /\ full' = Moved(full, {b \in Blocks : Full(b)}, <<>>)
  /\ empty' = Moved(full, {b \in Blocks : used[b] = {}}, empty)
  /\ rest' = Moved(full, {b \in Blocks : HasRoom(b) /\ used[b] # {}}, rest)
  /\ missed' = missed \cup {b \in ToSet(rest) \cup ToSet(full) : dirty[b] # mask}
  /\ UNCHANGED head

\* The walk of the list that p names begins, or that of the next list.
BeginPass(p) ==
  \/ /\ p = "rest" /\ rest # <<>>
     /\ cur' = Head(rest) /\ pass' = "rest" /\ gpc' = "visit"
     /\ UNCHANGED <<lists, missed>>
  \/ /\ p = "full" \/ rest = <<>>
     /\ full # <<>>
     /\ cur' = Head(full) /\ pass' = "full" /\ gpc' = "visit"
     /\ UNCHANGED <<lists, missed>>
  \/ /\ p = "full" \/ rest = <<>>
     /\ full = <<>>
     /\ EndSweep

StartSweep ==
  /\ gpc = "start"
  /\ BeginPass("rest")
  /\ UNCHANGED <<todo, mask, bits, mpc, pending, kept, overwritten>>

\* dirty_cas under the lock of the block: it is swept by one thread only.
Visit ==
  /\ gpc = "visit"
  /\ gpc' = IF dirty[cur] # mask THEN "sweeping" ELSE "step"
  /\ dirty' = [dirty EXCEPT ![cur] = mask]
  /\ UNCHANGED <<cur, pass, todo, mask, lists, used, mark, mpc, pending, kept, missed, overwritten>>

SweepBlock ==
  /\ gpc = "sweeping"
  /\ Swept(cur)
  /\ gpc' = "step"
  /\ UNCHANGED <<cur, pass, todo, mask, lists, dirty, mpc, pending, kept, missed, overwritten>>

\* current->next, as the lists are now: a block that became the head has none.
Successors(b) ==
  {next \in Blocks : \E list \in {rest, full} :
      \E i \in 1..(Len(list) - 1) : list[i] = b /\ list[i + 1] = next}

Step ==
  /\ gpc = "step"
  /\ \/ /\ cur' \in Successors(cur)
        /\ gpc' = "visit"
        /\ UNCHANGED <<pass, lists, missed>>
     \/ /\ Successors(cur) = {}
        /\ IF pass = "rest" THEN BeginPass("full") ELSE EndSweep
  /\ UNCHANGED <<todo, mask, bits, mpc, pending, kept, overwritten>>
-----------------------------------------------------------------------------
Mutator ==
  \/ AllocFast \/ NextHead \/ SweepHead \/ AllocSlow \/ SetMark
  \/ \E o \in Objects : Drop(o)

Collector ==
  \/ StartMarking \/ FinishMarking \/ StartSweep \/ Visit \/ SweepBlock \/ Step
  \/ \E o \in Objects : Mark(o)

Next == Mutator \/ Collector

Spec == Init /\ [][Next]_vars
-----------------------------------------------------------------------------
(***************************************************************************)
(* Properties.  After a step that frees an object in use, which a block in *)
(* missed or a mark that was overwritten may lead to, the program is       *)
(* undefined and a run goes no further; of the properties only             *)
(* NewHeadHasRoom depends on that.                                         *)
(***************************************************************************)
Intact == \A o \in kept : o[2] \in used[o[1]]

(***************************************************************************)
(* The collector is never inside the sweep of a block the mutator is free  *)
(* to allocate from: alloc takes no lock, so it rests on dirty_ and on the *)
(* mutator waiting for the lock of its new head.                           *)
(***************************************************************************)
SweptAlone == gpc = "sweeping" /\ cur = head => mpc = "sweep"

(***************************************************************************)
(* An object the program refers to is not freed, whoever sweeps its block  *)
(* and whenever it was allocated, as long as no sweep has left the block   *)
(* out and no allocation has overwritten the object's mark.                *)
(***************************************************************************)
LiveKept == \A o \in kept : o[2] \in used[o[1]] \/ o[1] \in missed \/ o \in overwritten

(***************************************************************************)
(* Marking begins with no mark set in a block that was never left out: an  *)
(* object with a mark from before would not be walked.                     *)
(***************************************************************************)
MarksCleared == gpc = "idle" /\ mpc = "run" => \A b \in Blocks \ missed : mark[b] = {}

\* What block_t::alloc asserts: the new head has room.
NewHeadHasRoom == mpc = "alloc" => HasRoom(head)

(***************************************************************************)
(* Not so: what the comment of sweep_heads says, that the blocks in the    *)
(* lists are swept in the phase that follows.  The walk follows            *)
(* current->next after the mutator took the current block for its head.    *)
(***************************************************************************)
SweepComplete == gpc = "idle" => \A b \in ToSet(rest) \cup ToSet(full) : dirty[b] = mask

(***************************************************************************)
(* Not so: what a concurrent garbage collector promises, that it frees     *)
(* garbage only, even in the blocks that no sweep has left out.  The plain *)
(* or of block_t::alloc takes away the mark a marker has just set in the   *)
(* same word, and the sweep frees the object.                              *)
(***************************************************************************)
OnlyGarbageFreed == \A o \in kept : o[2] \in used[o[1]] \/ o[1] \in missed
=============================================================================
