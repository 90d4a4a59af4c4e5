-------------------------- MODULE MCConcurrentMark --------------------------
(***************************************************************************)
(* An instance of ConcurrentMark: two fibers, an atom, a box that is       *)
(* allocated and freed again and again, and a channel.  The runtime refers *)
(* to the atom only, which at first holds the channel: fibers may move the *)
(* channel, lose it and make another one.                                  *)
(***************************************************************************)
EXTENDS ConcurrentMark, TLC

CONSTANTS f1, f2, a1, b1, c1

MCFibers == {f1, f2}
AtomOnly == {a1}
ChannelInAtom == a1 :> c1 @@ c1 :> Null

Symmetry == Permutations(MCFibers)

\* After a value in use was freed the program's behaviour is undefined.
Intact == ~lost
=============================================================================
