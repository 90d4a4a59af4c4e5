----------------------------- MODULE LocalHeap ------------------------------
(***************************************************************************)
(* The private heap of a fiber: objects are made on it, the copying        *)
(* collection moves those the stack leads to and leaves the address of the *)
(* copy in the old object, and share copies what a reference leads to into *)
(* the shared heap, for a channel or an atom, and leaves no address. An    *)
(* object is its birth, an Id, and its references; born says what an Id    *)
(* referred to when it was made, which no object may ever differ from.     *)
(* Both copies run to their end before the fiber goes on, one reference a  *)
(* step. Bounds: MaxRoots values on the stack, MaxKids references in an    *)
(* object, MaxShared shared objects when share is called.                  *)
(***************************************************************************)
EXTENDS Integers, Sequences, FiniteSets, SequencesExt

CONSTANTS Addresses, Ids, MaxRoots, MaxKids, MaxShared, Threshold, None

ASSUME LocalHeapAssumption ==
    /\ Addresses \subseteq Nat /\ Ids \subseteq Nat
    /\ IsFiniteSet(Addresses) /\ IsFiniteSet(Ids)
    /\ {MaxRoots, MaxKids, MaxShared, Threshold} \subseteq Nat
    /\ None \notin Addresses

VARIABLES
    cells,     \* by address: birth, references, space and forwarding address
    stack,     \* the references on the fiber's stack, its locals among them
    origin,    \* of each of them: the birth of the object the program put there
    value,     \* the reference that is shared: an argument of send, say
    mode,      \* the program runs, collects or shares
    todo,      \* the references that are still to be followed, nearest first
    used,      \* allocated_ - freed_ of the heap
    born       \* by birth: the births of what the object refers to

vars == <<cells, stack, origin, value, mode, todo, used, born>>

Private == {a \in DOMAIN cells : cells[a].space = "private"}
Copies == {a \in DOMAIN cells : cells[a].space = "new"}
Shared == {a \in DOMAIN cells : cells[a].space = "shared"}
Births == {cells[a].id : a \in DOMAIN cells}

\* The next address, and the next birth: which one it is makes no difference.
Free == Min(Addresses \ DOMAIN cells)
Unborn == Min(Ids \ Births)

\* Bound: the memory there is. Where it is exhausted the code ends.
HasSpace == Addresses \ DOMAIN cells # {}

\* The heap with the object at the next address.
Stored(object, heap) ==
    [a \in DOMAIN heap \cup {Free} |-> IF a = Free THEN object ELSE heap[a]]

\* The addresses the references in roots lead to.
LeadsTo(roots) ==
    LET reach[n \in 0..Cardinality(Addresses)] ==
            IF n = 0 THEN roots
            ELSE LET near == reach[n - 1]
                 IN near \cup UNION {ToSet(cells[a].kids) : a \in near \cap DOMAIN cells}
    IN reach[Cardinality(Addresses)]

\* What is remembered of births, in a heap that has become heap.
Remembered(heap) ==
    [id \in Ids |-> IF \E a \in DOMAIN heap : heap[a].id = id THEN born[id] ELSE << >>]

Init ==
    /\ cells = << >> /\ stack = << >> /\ origin = << >> /\ value = None
    /\ mode = "run" /\ todo = << >> /\ used = 0
    /\ born = [id \in Ids |-> << >>]

-----------------------------------------------------------------------------
(* The program. *)

\* A value is made of what is on the stack (make_ref, private_heap_t::alloc).
MakeRef(kids) ==
    /\ mode = "run" /\ Len(stack) < MaxRoots /\ Births # Ids
    /\ HasSpace
    /\ cells' = Stored([id |-> Unborn, kids |-> [i \in DOMAIN kids |-> stack[kids[i]]],
                        space |-> "private", forward |-> None], cells)
    /\ stack' = Append(stack, Free)
    /\ origin' = Append(origin, Unborn)
    /\ born' = [born EXCEPT ![Unborn] = [i \in DOMAIN kids |-> origin[kids[i]]]]
    /\ used' = used + 1
    /\ UNCHANGED <<value, mode, todo>>

\* A part of a value on the stack is put there too.
Part(i, k) ==
    /\ mode = "run" /\ Len(stack) < MaxRoots
    /\ stack' = Append(stack, cells[stack[i]].kids[k])
    /\ origin' = Append(origin, born[origin[i]][k])
    /\ UNCHANGED <<cells, value, mode, todo, used, born>>

Pop(i) ==
    /\ mode = "run"
    /\ stack' = RemoveAt(stack, i)
    /\ origin' = RemoveAt(origin, i)
    /\ UNCHANGED <<cells, value, mode, todo, used, born>>

\* The collector frees the shared objects that nothing leads to.
SharedSwept ==
    LET kept == Private \cup LeadsTo(Private \cup ToSet(stack)) IN
    /\ mode = "run" /\ kept # DOMAIN cells
    /\ cells' = [a \in kept |-> cells[a]]
    /\ born' = Remembered(cells')
    /\ UNCHANGED <<stack, origin, value, mode, todo, used>>

-----------------------------------------------------------------------------
(* What the two copies have in common. *)

\* A reference is where it stands: a place on the stack, in an object, or the
\* value that is shared.
Roots == [i \in DOMAIN stack |-> <<"stack", i, 0>>]
PartsOf(a) == [k \in DOMAIN cells[a].kids |-> <<"cell", a, k>>]

At(r) == CASE r[1] = "stack" -> stack[r[2]]
           [] r[1] = "cell" -> cells[r[2]].kids[r[3]]
           [] r[1] = "value" -> value

\* The reference r becomes a, in a heap that has become heap.
Becomes(r, a, heap) ==
    /\ stack' = IF r[1] = "stack" THEN [stack EXCEPT ![r[2]] = a] ELSE stack
    /\ cells' = IF r[1] = "cell" THEN [heap EXCEPT ![r[2]].kids[r[3]] = a] ELSE heap
    /\ value' = IF r[1] = "value" THEN a ELSE value

-----------------------------------------------------------------------------
(* collect_local_to_local *)

StartCollect ==
    /\ mode = "run" /\ used > Threshold
    /\ mode' = "collect" /\ todo' = Roots
    /\ UNCHANGED <<cells, stack, origin, value, used, born>>

\* A slip: no forwarding address is left.
FaultCopy ==
    LET old == At(Head(todo)) IN
    /\ mode = "collect" /\ todo # << >>
    /\ cells[old].space = "private" /\ cells[old].forward = None
    /\ Becomes(Head(todo), Free, Stored([cells[old] EXCEPT !.space = "new"], cells))
    /\ todo' = [k \in DOMAIN cells[old].kids |-> <<"cell", Free, k>>] \o Tail(todo)
    /\ UNCHANGED <<origin, mode, used, born>>

\* The first reference that leads to the object: it is copied, the old one
\* keeps the address of the copy, and the references in the copy are next.
Copy ==
    LET old == At(Head(todo)) IN
    /\ mode = "collect" /\ todo # << >>
    /\ cells[old].space = "private" /\ cells[old].forward = None /\ HasSpace
    /\ Becomes(Head(todo), Free,
               Stored([cells[old] EXCEPT !.space = "new"], [cells EXCEPT ![old].forward = Free]))
    /\ todo' = [k \in DOMAIN cells[old].kids |-> <<"cell", Free, k>>] \o Tail(todo)
    /\ UNCHANGED <<origin, mode, used, born>>

\* Another reference to an object that was copied.
Forward ==
    LET old == At(Head(todo)) IN
    /\ mode = "collect" /\ todo # << >>
    /\ cells[old].space = "private" /\ cells[old].forward # None
    /\ Becomes(Head(todo), cells[old].forward, cells)
    /\ todo' = Tail(todo)
    /\ UNCHANGED <<origin, mode, used, born>>

\* Shared objects stay where they are, for both.
SkipShared ==
    /\ mode # "run" /\ todo # << >> /\ cells[At(Head(todo))].space = "shared"
    /\ todo' = Tail(todo)
    /\ UNCHANGED <<cells, stack, origin, value, mode, used, born>>

\* The new heap takes the place of the old one, whose chunks are freed.
EndCollect ==
    /\ mode = "collect" /\ todo = << >>
    /\ cells' = [a \in Copies \cup Shared |->
                    IF a \in Copies THEN [cells[a] EXCEPT !.space = "private"] ELSE cells[a]]
    /\ used' = Cardinality(Copies)
    /\ mode' = "run"
    /\ born' = Remembered(cells')
    /\ UNCHANGED <<stack, origin, value, todo>>

-----------------------------------------------------------------------------
(* share *)

StartShare(i) ==
    /\ mode = "run" /\ Cardinality(Shared) <= MaxShared
    /\ value' = stack[i]
    /\ mode' = "share" /\ todo' = <<<<"value", i, 0>>>>
    /\ UNCHANGED <<cells, stack, origin, used, born>>

\* Each reference to a private object gets a copy of its own.
ShareCopy ==
    LET old == At(Head(todo)) IN
    /\ mode = "share" /\ todo # << >> /\ cells[old].space = "private" /\ HasSpace
    /\ Becomes(Head(todo), Free, Stored([cells[old] EXCEPT !.space = "shared"], cells))
    /\ todo' = [k \in DOMAIN cells[old].kids |-> <<"cell", Free, k>>] \o Tail(todo)
    /\ UNCHANGED <<origin, mode, used, born>>

\* The shared value is sent or stored; what the program gets back from there
\* replaces, in the model, one of its references to the private value.
EndShare(i) ==
    /\ mode = "share" /\ todo = << >>
    /\ cells[stack[i]].id = cells[value].id
    /\ stack' = [stack EXCEPT ![i] = value]
    /\ value' = None
    /\ mode' = "run"
    /\ UNCHANGED <<cells, origin, todo, used, born>>

-----------------------------------------------------------------------------

Next ==
    \/ \E kids \in BoundedSeq(DOMAIN stack, MaxKids) : MakeRef(kids)
    \/ \E i \in DOMAIN stack :
        \/ \E k \in DOMAIN cells[stack[i]].kids : Part(i, k)
        \/ Pop(i) \/ StartShare(i) \/ EndShare(i)
    \/ SharedSwept
    \/ StartCollect \/ Copy \/ Forward \/ SkipShared \/ EndCollect
    \/ ShareCopy

Spec == Init /\ [][Next]_vars

-----------------------------------------------------------------------------
(* Properties. *)

\* Between the copies the heap is the graph the program made (gc.cc:728, 541):
\* what the stack leads to exists and refers to what it was made with; a
\* private object exists once, although many references lead to it and each
\* was moved on its own; a shared object leads to shared ones only; and the
\* counters the next collection is decided by count what is on the heap.
GraphKept ==
    LET Reached == LeadsTo(ToSet(stack)) IN
    mode = "run" =>
        /\ Reached \subseteq DOMAIN cells
        /\ \A i \in DOMAIN stack : cells[stack[i]].id = origin[i]
        /\ \A a \in Reached :
            /\ [k \in DOMAIN cells[a].kids |-> cells[cells[a].kids[k]].id] = born[cells[a].id]
            /\ cells[a].space = "shared" => ToSet(cells[a].kids) \subseteq Shared
        /\ \A a, b \in Private : cells[a].id = cells[b].id => a = b
        /\ used = Cardinality(Private)
=============================================================================
