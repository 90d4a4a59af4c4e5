---------------------------- MODULE LocalBlocks -----------------------------
(***************************************************************************)
(* Where the chunks of private heaps and stacks come from: one block of    *)
(* the local heap of each worker. A fiber takes its chunks along when it   *)
(* moves to another worker, and they are freed by whoever runs it when it  *)
(* collects or exits, with no lock. An allocation and a free read the bits *)
(* of the block and write them back, and then its counter. The eight words *)
(* of bits are one here, and a worker's other blocks are left out: it      *)
(* allocates while this one is a valid head.                               *)
(***************************************************************************)
EXTENDS Integers, FiniteSets

CONSTANTS Workers, Fibers, Slots, None

VARIABLES
    on,          \* of each fiber: the worker that runs it
    chunks,      \* of each fiber: the slots its heap and its stack are in
    bits,        \* block_t::bitmap_ of the block of each worker
    available,   \* block_t::available_
    op           \* of each worker: the allocation or free it is in, if any

vars == <<on, chunks, bits, available, op>>

NoOp == [step |-> "none", block |-> None, slot |-> 0, bits |-> {}, available |-> 0]

Init ==
    /\ on = [f \in Fibers |-> None]
    /\ chunks = [f \in Fibers |-> {}]
    /\ bits = [w \in Workers |-> {}]
    /\ available = [w \in Workers |-> Slots]
    /\ op = [w \in Workers |-> NoOp]

\* FiberImpl::attach and detach swap the heap of the fiber in and out.
Attach(w, f) ==
    /\ on[f] = None /\ \A g \in Fibers : on[g] # w
    /\ on' = [on EXCEPT ![f] = w]
    /\ UNCHANGED <<chunks, bits, available, op>>

Detach(w, f) ==
    /\ on[f] = w /\ op[w] = NoOp
    /\ on' = [on EXCEPT ![f] = None]
    /\ UNCHANGED <<chunks, bits, available, op>>

\* alloc_local, when the heap or the stack of the fiber grows: the first slot
\* whose bit is clear.
Alloc(w, f) ==
    /\ on[f] = w /\ op[w] = NoOp /\ available[w] > 0
    /\ \E slot \in (1..Slots) \ bits[w] :
        /\ \A other \in (1..Slots) \ bits[w] : slot <= other
        /\ op' = [op EXCEPT ![w] = [step |-> "alloc", block |-> w, slot |-> slot,
                                    bits |-> bits[w] \cup {slot}, available |-> 0]]
    /\ UNCHANGED <<on, chunks, bits, available>>

\* chunk_deleter: the chunk is in the block of the worker that allocated it.
Free(w, f) ==
    /\ on[f] = w /\ op[w] = NoOp
    /\ \E c \in chunks[f] :
        /\ chunks' = [chunks EXCEPT ![f] = @ \ {c}]
        /\ op' = [op EXCEPT ![w] = [step |-> "free", block |-> c[1], slot |-> c[2],
                                    bits |-> bits[c[1]] \ {c[2]}, available |-> 0]]
    /\ UNCHANGED <<on, bits, available>>

\* The bits are written, and the counter is read.
StoreBits(w) ==
    /\ op[w].step \in {"alloc", "free"}
    /\ bits' = [bits EXCEPT ![op[w].block] = op[w].bits]
    /\ op' = [op EXCEPT ![w].step = IF @ = "alloc" THEN "taken" ELSE "freed",
                        ![w].available = available[op[w].block]]
    /\ UNCHANGED <<on, chunks, available>>

\* The counter is written, and an allocated slot is the fiber's.
StoreAvailable(w, f) ==
    /\ on[f] = w /\ op[w].step \in {"taken", "freed"}
    /\ available' = [available EXCEPT ![op[w].block] =
                        op[w].available + (IF op[w].step = "taken" THEN -1 ELSE 1)]
    /\ chunks' = IF op[w].step = "taken"
                 THEN [chunks EXCEPT ![f] = @ \cup {<<op[w].block, op[w].slot>>}]
                 ELSE chunks
    /\ op' = [op EXCEPT ![w] = NoOp]
    /\ UNCHANGED <<on, bits>>

Next ==
    \E w \in Workers :
        \/ StoreBits(w)
        \/ \E f \in Fibers :
            Attach(w, f) \/ Detach(w, f) \/ Alloc(w, f) \/ Free(w, f) \/ StoreAvailable(w, f)

Spec == Init /\ [][Next]_vars

-----------------------------------------------------------------------------
(* Properties. *)

\* The assertion that alloc and free begin and end with, used() == count(),
\* while no one is between the two (gc_base.h:192, 207). A block that counts
\* too few is taken for an empty one, and freed with a chunk in it.
UsedIsCount ==
    \A b \in Workers :
        (\A w \in Workers : op[w].block # b) => Slots - available[b] = Cardinality(bits[b])
=============================================================================
