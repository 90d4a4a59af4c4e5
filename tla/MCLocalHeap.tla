---------------------------- MODULE MCLocalHeap ----------------------------
(***************************************************************************)
(* An instance of LocalHeap: three objects, of two references each, so     *)
(* that one is reached along two paths of length two, and is copied once   *)
(* by the collection and four times by share; room for both.               *)
(***************************************************************************)
EXTENDS LocalHeap

MCAddresses == 1..16
MCIds == 1..3
=============================================================================
