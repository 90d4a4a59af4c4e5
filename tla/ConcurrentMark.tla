--------------------------- MODULE ConcurrentMark ---------------------------
(***************************************************************************)
(* Concurrent marking of the shared heap: collect_shared, parallel_scan    *)
(* and mark_concurrent (gc.cc), the write barrier and the allocation of    *)
(* marked objects (gc.h), atoms (atom.cc) and channels (channel.cc) as     *)
(* the shared objects that change, and fibers as the owners of roots.      *)
(* Module StopTheWorld shows that the pauses stop every fiber and that     *)
(* fibers change lists as they do here, so that a pause with nothing to    *)
(* wait for is one step.  What is not marked is freed when marking ends,   *)
(* the earliest the sweep of its block can free it.  A mark that was set   *)
(* stays; module SharedHeap shows where allocation can overwrite one.      *)
(***************************************************************************)
EXTENDS Naturals, Sequences

CONSTANTS Fibers,   (* fibers                                              *)
          Atoms,    (* objects with a slot that is written: atoms          *)
          Boxes,    (* objects with a slot that is never written           *)
          Chans,    (* channels                                            *)
          Null,     (* the reference of an object without one              *)
          Globals,  (* objects the runtime itself refers to                *)
          InitSlot  (* the objects there are at first, with their slots    *)

Objs == Atoms \cup Boxes \cup Chans

ASSUME ConcurrentMarkAssumption ==
  /\ Null \notin Objs
  /\ Globals \subseteq DOMAIN InitSlot
  /\ DOMAIN InitSlot \subseteq Objs
  /\ \A o \in DOMAIN InitSlot : InitSlot[o] \in DOMAIN InitSlot \cup {Null}

VARIABLES
  heap,       (* objects that are allocated                                *)
  slot,       (* atom or box -> its reference                              *)
  senders,    (* channel -> senders_, fibers with their shared values      *)
  receivers,  (* channel -> receivers_                                     *)
  roots,      (* fiber -> shared objects its stack refers to               *)
  color,      (* fiber -> the list it is in                                *)
  waiting,    (* fibers blocked in a channel                               *)
  phase,      (* where the collector is in collect_shared                  *)
  barrier,    (* write_barrier_ of the allocators                          *)
  toscan,     (* fibers of the batch whose stack is not scanned yet        *)
  grey,       (* objects in the lists of mark_concurrent                   *)
  walking,    (* objects whose mark is set and that are being walked       *)
  marked,     (* objects whose mark bit is set                             *)
  reflist,    (* ref_list_ of the allocators, filled by the write barrier  *)
  taken,      (* values that left a channel behind the collector's back and*)
              (* were not marked since                                     *)
  lost        (* there was such a value when the marking ended             *)

channels == <<senders, receivers>>
objects == <<heap, slot, channels>>
fibers == <<roots, color, waiting>>
marking == <<grey, walking, marked>>
history == <<taken, lost>>
vars == <<objects, fibers, phase, barrier, toscan, marking, reflist, history>>

Colors == {"running", "grey", "scanning", "black"}
Phases == {"idle", "mark", "scan", "drain", "stw2", "remark"}

TypeOK ==
  /\ heap \in SUBSET Objs
  /\ slot \in [Objs -> Objs \cup {Null}]
  /\ senders \in [Chans -> Seq(Fibers \X Objs)]
  /\ receivers \in [Chans -> Seq(Fibers)]
  /\ roots \in [Fibers -> SUBSET Objs]
  /\ color \in [Fibers -> Colors]
  /\ waiting \in SUBSET Fibers
  /\ phase \in Phases
  /\ barrier \in BOOLEAN
  /\ toscan \in SUBSET Fibers
  /\ grey \in SUBSET Objs
  /\ walking \in SUBSET Objs
  /\ marked \in SUBSET Objs
  /\ reflist \in SUBSET Objs
  /\ taken \in SUBSET Objs
  /\ lost \in BOOLEAN

\* What walk() of an object accepts; the fibers of a channel refer to nothing.
Children(o) ==
  IF o \in Chans THEN {senders[o][i][2] : i \in DOMAIN senders[o]}
  ELSE {slot[o]} \ {Null}

Init ==
  /\ heap = DOMAIN InitSlot
  /\ slot = [o \in Objs |-> IF o \in heap THEN InitSlot[o] ELSE Null]
  /\ senders = [c \in Chans |-> <<>>]
  /\ receivers = [c \in Chans |-> <<>>]
  /\ roots = [f \in Fibers |-> Globals]
  /\ color = [f \in Fibers |-> "grey"]
  /\ waiting = {} /\ toscan = {}
  /\ phase = "idle" /\ barrier = FALSE
  /\ grey = {} /\ walking = {} /\ marked = {} /\ reflist = {}
  /\ taken = {} /\ lost = FALSE

\* What the collector has met, and fibers whose stack it has yet to scan.
Listed == grey \cup marked \cup reflist
Unscanned == {f \in Fibers : color[f] = "grey"} \cup toscan
-----------------------------------------------------------------------------
(***************************************************************************)
(* Fibers.  A running one does all this, except in the pauses.             *)
(***************************************************************************)
Runs(f) == color[f] = "running" /\ phase # "remark"

\* deref of an atom, or a field of an immutable object.
Load(f, o) ==
  /\ Runs(f)
  /\ o \in roots[f] \ Chans /\ slot[o] # Null
  /\ roots' = [roots EXCEPT ![f] = @ \cup {slot[o]}]
  /\ UNCHANGED <<objects, color, waiting, phase, barrier, toscan, marking, reflist, history>>

\* A reference disappears from the stack.
Drop(f, o) ==
  /\ Runs(f)
  /\ o \in roots[f] \ Globals
  /\ roots' = [roots EXCEPT ![f] = @ \ {o}]
  /\ UNCHANGED <<objects, color, waiting, phase, barrier, toscan, marking, reflist, history>>

\* Fault: the barrier lists the new reference only.
FaultShadeNew(old, new) == reflist' = IF barrier THEN reflist \cup ({new} \ {Null}) ELSE reflist

\* The write barrier of ref_write: the old and the new reference are listed.
Shade(old, new) == reflist' = IF barrier THEN reflist \cup ({old, new} \ {Null}) ELSE reflist

\* compare_and_set, under the object lock of the atom.
CompareAndSet(f, a, new) ==
  /\ Runs(f)
  /\ a \in roots[f] \cap Atoms
  /\ new \in roots[f] \cup {Null}
  /\ slot[a] \in roots[f] \cup {Null}
  /\ Shade(slot[a], new)
  /\ slot' = [slot EXCEPT ![a] = new]
  /\ UNCHANGED <<heap, channels, fibers, phase, barrier, toscan, marking, history>>

\* alloc_shared: a new object, marked while the write barrier is on.
Alloc(o) ==
  /\ o \notin heap
  /\ heap' = heap \cup {o}
  /\ marked' = IF barrier THEN marked \cup {o} ELSE marked

\* A new atom, channel or shared immutable object; the first and the last refer to r.
New(f, o, r) ==
  /\ Runs(f)
  /\ Alloc(o)
  /\ r \in roots[f] \cup {Null} /\ (o \in Chans => r = Null)
  /\ slot' = [slot EXCEPT ![o] = r]
  /\ roots' = [roots EXCEPT ![f] = @ \cup {o}]
  /\ UNCHANGED <<channels, color, waiting, phase, barrier, toscan, grey, walking, reflist, history>>

(***************************************************************************)
(* fiber_detach: to the black list during the marking.                     *)
(***************************************************************************)
Detach(f) == color' = [color EXCEPT ![f] = IF barrier THEN "black" ELSE "grey"]

Sleep(f) ==
  /\ Runs(f)
  /\ Detach(f)
  /\ UNCHANGED <<objects, roots, waiting, phase, barrier, toscan, marking, reflist, history>>

\* Fault: a fiber whose stack is not scanned runs during the marking.
FaultAttachUnscanned(f) ==
  /\ f \notin waiting /\ phase # "remark"
  /\ color[f] \in {"grey", "black"}
  /\ color' = [color EXCEPT ![f] = "running"]
  /\ UNCHANGED <<objects, roots, waiting, phase, barrier, toscan, marking, reflist, history>>

\* fiber_attach: a fiber that is not black waits during the marking.
Attach(f) ==
  /\ f \notin waiting /\ phase # "remark"
  /\ color[f] = IF barrier THEN "black" ELSE "grey"
  /\ color' = [color EXCEPT ![f] = "running"]
  /\ UNCHANGED <<objects, roots, waiting, phase, barrier, toscan, marking, reflist, history>>

(***************************************************************************)
(* send's make_shared.  A value that is shared already stays as it is; a   *)
(* private one is copied, and the copy is on no stack: the sender's frame  *)
(* keeps the original.                                                     *)
(***************************************************************************)
MakeShared(f, o) ==
  \/ o \in roots[f] /\ UNCHANGED <<heap, marked>>
  \/ o \in Boxes /\ Alloc(o)

\* send without a receiver: the sender sleeps.
SendBlocks(f, c, o) ==
  /\ Runs(f)
  /\ c \in roots[f] \cap Chans
  /\ receivers[c] = <<>>
  /\ MakeShared(f, o)
  /\ senders' = [senders EXCEPT ![c] = Append(@, <<f, o>>)]
  /\ waiting' = waiting \cup {f}
  /\ Detach(f)
  /\ UNCHANGED <<slot, receivers, roots, phase, barrier, toscan, grey, walking, reflist, history>>

\* send with a receiver: both stacks get the value.
SendMatches(f, c, o) ==
  LET receiver == Head(receivers[c]) IN
  /\ Runs(f)
  /\ c \in roots[f] \cap Chans
  /\ receivers[c] # <<>>
  /\ MakeShared(f, o)
  /\ receivers' = [receivers EXCEPT ![c] = Tail(@)]
  /\ roots' = [roots EXCEPT ![f] = @ \cup {o}, ![receiver] = @ \cup {o}]
  /\ waiting' = waiting \ {receiver}
  /\ UNCHANGED <<slot, senders, color, phase, barrier, toscan, grey, walking, reflist, history>>

\* recv without a sender: the receiver sleeps.
RecvBlocks(f, c) ==
  /\ Runs(f)
  /\ c \in roots[f] \cap Chans
  /\ senders[c] = <<>>
  /\ receivers' = [receivers EXCEPT ![c] = Append(@, f)]
  /\ waiting' = waiting \cup {f}
  /\ Detach(f)
  /\ UNCHANGED <<heap, slot, senders, roots, phase, barrier, toscan, marking, reflist, history>>

(***************************************************************************)
(* recv with a sender: no write barrier, both stacks get the value.  It is *)
(* taken behind the collector's back if the channel is not walked yet,     *)
(* neither stack will be scanned any more and no list has it.              *)
(***************************************************************************)
RecvMatches(f, c) ==
  LET sender == Head(senders[c])[1]
      value == Head(senders[c])[2]
  IN
  /\ Runs(f)
  /\ c \in roots[f] \cap Chans
  /\ senders[c] # <<>>
  /\ senders' = [senders EXCEPT ![c] = Tail(@)]
  /\ roots' = [roots EXCEPT ![f] = @ \cup {value}, ![sender] = @ \cup {value}]
  /\ waiting' = waiting \ {sender}
  /\ taken' = IF barrier /\ c \notin marked \ walking /\ sender \notin Unscanned
              THEN taken \cup ({value} \ Listed) ELSE taken
  /\ UNCHANGED <<heap, slot, receivers, color, phase, barrier, toscan, marking, reflist, lost>>
-----------------------------------------------------------------------------
(***************************************************************************)
(* The collector.                                                          *)
(***************************************************************************)

\* The first pause: the roots of the runtime and of the running fibers.
Snapshot ==
  /\ phase = "idle"
  /\ phase' = "mark"
  /\ barrier' = TRUE
  /\ grey' = Globals \cup UNION {roots[f] : f \in {g \in Fibers : color[g] = "running"}}
  /\ UNCHANGED <<objects, fibers, toscan, walking, marked, reflist, history>>

\* mark_concurrent, some worker of it: set the mark, then walk the object.
Mark(o) ==
  /\ o \in grey
  /\ grey' = grey \ {o}
  /\ marked' = marked \cup {o}
  /\ walking' = IF o \in marked THEN walking ELSE walking \cup {o}
  /\ taken' = taken \ {o}
  /\ UNCHANGED <<objects, fibers, phase, barrier, toscan, reflist, lost>>

Walk(o) ==
  /\ o \in walking
  /\ walking' = walking \ {o}
  /\ grey' = grey \cup Children(o)
  /\ UNCHANGED <<objects, fibers, phase, barrier, toscan, marked, reflist, history>>

\* perform_all_work returns.
WorkDone == grey = {} /\ walking = {} /\ toscan = {}

\* The head of the incremental loop: scan the grey fibers or ask for pause 2.
NextBatch ==
  LET batch == {f \in Fibers : color[f] = "grey"} IN
  /\ toscan' = batch
  /\ color' = [f \in Fibers |-> IF f \in batch THEN "scanning" ELSE color[f]]
  /\ phase' = IF batch = {} THEN "stw2" ELSE "scan"

SnapshotMarked ==
  /\ phase = "mark" /\ WorkDone
  /\ NextBatch
  /\ UNCHANGED <<objects, roots, waiting, barrier, marking, reflist, history>>

\* scan_shared_roots of a sleeping fiber.
ScanRoots(f) ==
  /\ f \in toscan
  /\ toscan' = toscan \ {f}
  /\ grey' = grey \cup roots[f]
  /\ UNCHANGED <<objects, fibers, phase, barrier, walking, marked, reflist, history>>

\* The batch becomes black; the write barrier lists are work to do.
BatchMarked ==
  /\ phase = "scan" /\ WorkDone
  /\ color' = [f \in Fibers |-> IF color[f] = "scanning" THEN "black" ELSE color[f]]
  /\ grey' = reflist /\ reflist' = {}
  /\ phase' = "drain"
  /\ UNCHANGED <<objects, roots, waiting, barrier, toscan, walking, marked, history>>

Drained ==
  /\ phase = "drain" /\ WorkDone
  /\ NextBatch
  /\ UNCHANGED <<objects, roots, waiting, barrier, marking, reflist, history>>

\* The second pause: what the write barrier listed since is marked in it.
Remark ==
  /\ phase = "stw2"
  /\ grey' = reflist /\ reflist' = {}
  /\ phase' = "remark"
  /\ UNCHANGED <<objects, fibers, barrier, toscan, walking, marked, history>>

(***************************************************************************)
(* Its end: barrier off, lists swapped.  The sweep, which can free from    *)
(* now on what is not marked, clears the marks; a block gets new objects   *)
(* only after it was swept.                                                *)
(***************************************************************************)
FinishMarking ==
  /\ phase = "remark" /\ WorkDone
  /\ phase' = "idle"
  /\ barrier' = FALSE
  /\ color' = [f \in Fibers |-> IF color[f] = "black" THEN "grey" ELSE color[f]]
  /\ heap' = heap \cap marked
  /\ slot' = [o \in Objs |-> IF o \in marked THEN slot[o] ELSE Null]
  /\ senders' = [c \in Chans |-> IF c \in marked THEN senders[c] ELSE <<>>]
  /\ receivers' = [c \in Chans |-> IF c \in marked THEN receivers[c] ELSE <<>>]
  /\ marked' = {}
  /\ lost' = (lost \/ taken # {})
  /\ taken' = {}
  /\ UNCHANGED <<roots, waiting, toscan, grey, walking, reflist>>
-----------------------------------------------------------------------------
Mutator(f) ==
  \/ \E o \in Objs : Load(f, o) \/ Drop(f, o)
  \/ \E a \in Atoms, new \in Objs \cup {Null} : CompareAndSet(f, a, new)
  \/ \E o \in Objs, r \in Objs \cup {Null} : New(f, o, r)
  \/ Sleep(f) \/ Attach(f)
  \/ \E c \in Chans, o \in Objs : SendBlocks(f, c, o) \/ SendMatches(f, c, o)
  \/ \E c \in Chans : RecvBlocks(f, c) \/ RecvMatches(f, c)

Collector ==
  \/ Snapshot \/ SnapshotMarked \/ BatchMarked \/ Drained
  \/ Remark \/ FinishMarking
  \/ \E f \in Fibers : ScanRoots(f)
  \/ \E o \in Objs : Mark(o) \/ Walk(o)

Next == (\E f \in Fibers : Mutator(f)) \/ Collector

Spec == Init /\ [][Next]_vars
-----------------------------------------------------------------------------
(***************************************************************************)
(* Properties.                                                             *)
(***************************************************************************)

(***************************************************************************)
(* Nothing a fiber, the runtime or an object of the heap refers to is ever *)
(* freed, while fibers load, overwrite and allocate during the marking.    *)
(* The code keeps that only if the runtime refers to the channels.         *)
(***************************************************************************)
NoDangling ==
  /\ Globals \subseteq heap
  /\ \A f \in Fibers : roots[f] \subseteq heap
  /\ \A o \in heap : Children(o) \subseteq heap

(***************************************************************************)
(* Wherever the channels are: nothing is freed that is referred to, as     *)
(* long as no value that left a channel without a write barrier was found  *)
(* unmarked.  The barrier recv does not have is the only one missing.      *)
(***************************************************************************)
OnlyTakenDangles == ~lost => NoDangling

(***************************************************************************)
(* What a scanned fiber refers to while the barrier is on is marked, or    *)
(* the collector has it in a list, or can come to it from there, from a    *)
(* fiber it has yet to scan or from such a value: every set with all       *)
(* these, and with the children of its objects, has it too.                *)
(***************************************************************************)
ClosedSets ==
  {S \in SUBSET Objs :
     /\ Listed \cup taken \cup UNION {roots[f] : f \in Unscanned} \subseteq S
     /\ \A o \in walking : Children(o) \subseteq S
     /\ \A o \in S \ marked : Children(o) \subseteq S}

ProtectedButTaken ==
  barrier /\ ~lost =>
    \A f \in Fibers \ Unscanned : \A S \in ClosedSets : roots[f] \subseteq S
=============================================================================
