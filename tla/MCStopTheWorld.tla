--------------------------- MODULE MCStopTheWorld ---------------------------
(***************************************************************************)
(* Instances of StopTheWorld: two workers, a main fiber and fibers it      *)
(* spawns.  With three fibers and a batch of one, fibers run, wait for     *)
(* their colour and wait to be scanned at the same time.                   *)
(***************************************************************************)
EXTENDS StopTheWorld

CONSTANTS main, f1, f2, w1, w2

MCFibers == {main, f1, f2}
MCWorkers == {w1, w2}
=============================================================================
