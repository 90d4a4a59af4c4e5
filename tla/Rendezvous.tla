----------------------------- MODULE Rendezvous -----------------------------
(***************************************************************************)
(* What fibers and channels promise to a Park program, without workers,    *)
(* locks or an event loop.  A channel holds the offers that found no       *)
(* partner, in the order they were made; an operation that finds an offer  *)
(* of the other direction takes the oldest one, completes both at once and *)
(* makes the partner runnable.  A runnable fiber runs again.               *)
(***************************************************************************)
EXTENDS Naturals, Sequences

CONSTANTS Fibers,   (* the fibers of the program                           *)
          Main,     (* the fiber whose return ends the program             *)
          Channels, (* the channels                                        *)
          Msgs      (* what can be sent                                    *)

VARIABLES pending,  (* channel -> sequence of unmatched offers             *)
          phase,    (* fiber -> what it is doing                           *)
          results,  (* fiber -> sequence of completed channel operations   *)
          halted    (* the main fiber has returned                         *)

vars == <<pending, phase, results, halted>>

Phases == {"new", "runnable", "running", "blocked", "exited"}

Init ==
  /\ pending = [c \in Channels |-> <<>>]
  /\ phase = [f \in Fibers |-> IF f = Main THEN "runnable" ELSE "new"]
  /\ results = [f \in Fibers |-> <<>>]
  /\ halted = FALSE

Spawn(f) ==
  /\ phase[f] = "new"
  /\ phase' = [phase EXCEPT ![f] = "runnable"]
  /\ UNCHANGED <<pending, results, halted>>

Run(f) ==
  /\ phase[f] = "runnable"
  /\ phase' = [phase EXCEPT ![f] = "running"]
  /\ UNCHANGED <<pending, results, halted>>

Sleep(f) ==
  /\ phase[f] = "running"
  /\ phase' = [phase EXCEPT ![f] = "runnable"]
  /\ UNCHANGED <<pending, results, halted>>

Finish(f) ==
  /\ phase[f] = "running"
  /\ phase' = [phase EXCEPT ![f] = "exited"]
  /\ halted' = (halted \/ f = Main)
  /\ UNCHANGED <<pending, results>>

\* The oldest offer of channel c is one the operation dir can complete.
Complementary(c, dir) == pending[c] # <<>> /\ Head(pending[c]).dir # dir

(***************************************************************************)
(* No partner is there: fiber f makes its offer and blocks.  The message   *)
(* of a receiver is of no interest, so it is left out of its offer.        *)
(***************************************************************************)
OfferSend(f, c, m) ==
  /\ phase[f] = "running"
  /\ ~Complementary(c, "send")
  /\ pending' = [pending EXCEPT ![c] = Append(@, [fib |-> f, dir |-> "send", msg |-> m])]
  /\ phase' = [phase EXCEPT ![f] = "blocked"]
  /\ UNCHANGED <<results, halted>>

OfferRecv(f, c) ==
  /\ phase[f] = "running"
  /\ ~Complementary(c, "recv")
  /\ pending' = [pending EXCEPT ![c] = Append(@, [fib |-> f, dir |-> "recv"])]
  /\ phase' = [phase EXCEPT ![f] = "blocked"]
  /\ UNCHANGED <<results, halted>>

(***************************************************************************)
(* A partner is there: both operations complete with the message of the    *)
(* sender, f goes on running and its partner becomes runnable.             *)
(***************************************************************************)
Complete(f, dir, c, partner, m) ==
  /\ pending' = [pending EXCEPT ![c] = Tail(@)]
  /\ phase' = [phase EXCEPT ![partner.fib] = "runnable"]
  /\ results' = [results EXCEPT ![f] = Append(@, [op |-> dir, msg |-> m]),
                                ![partner.fib] = Append(@, [op |-> partner.dir, msg |-> m])]
  /\ UNCHANGED halted

MatchSend(f, c, m) ==
  /\ phase[f] = "running"
  /\ Complementary(c, "send")
  /\ Complete(f, "send", c, Head(pending[c]), m)

MatchRecv(f, c) ==
  /\ phase[f] = "running"
  /\ Complementary(c, "recv")
  /\ Complete(f, "recv", c, Head(pending[c]), Head(pending[c]).msg)

Next ==
  \E f \in Fibers :
    \/ Spawn(f) \/ Run(f) \/ Sleep(f) \/ Finish(f)
    \/ \E c \in Channels : OfferRecv(f, c) \/ MatchRecv(f, c)
    \/ \E c \in Channels, m \in Msgs : OfferSend(f, c, m) \/ MatchSend(f, c, m)

\* A runnable fiber runs, unless the program ends first.
Fairness == \A f \in Fibers : WF_vars(~halted /\ Run(f))

Spec == Init /\ [][Next]_vars /\ Fairness
=============================================================================
