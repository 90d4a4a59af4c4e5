---------------------------- MODULE MCSharedHeap ----------------------------
(***************************************************************************)
(* An instance of SharedHeap with three blocks of two slots: one can be    *)
(* the head, one be visited by the collector and one wait behind it.       *)
(***************************************************************************)
EXTENDS SharedHeap

CONSTANTS b1, b2, b3

MCBlocks == {b1, b2, b3}
Symmetry == Permutations(MCBlocks)
=============================================================================
