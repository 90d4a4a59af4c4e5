---------------------------- MODULE MCScheduler -----------------------------
(***************************************************************************)
(* An instance of Scheduler: three fibers on two workers, so that two      *)
(* callbacks, a callback and a timer, or an attach and a detach compete    *)
(* for the lock, and two fibers can wait on one channel.                   *)
(***************************************************************************)
EXTENDS Scheduler

CONSTANTS main, f1, f2, w1, w2

MCFibers == {main, f1, f2}
MCWorkers == {w1, w2}

\* One fiber blocks once; which one, apart from the main fiber, makes no difference.
MCMaxOps == [f \in MCFibers |-> IF f = f2 THEN 1 ELSE 2]
=============================================================================
