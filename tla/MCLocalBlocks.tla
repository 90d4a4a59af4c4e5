--------------------------- MODULE MCLocalBlocks ----------------------------
(***************************************************************************)
(* An instance of LocalBlocks: two workers, so that one frees what the     *)
(* other allocated, and three slots in a block.                            *)
(***************************************************************************)
EXTENDS LocalBlocks
=============================================================================
