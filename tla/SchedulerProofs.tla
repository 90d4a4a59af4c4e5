--------------------------- MODULE SchedulerProofs --------------------------
(***************************************************************************)
(* Proofs about module Scheduler, for any number of fibers, workers and    *)
(* channels.  The inductive invariant is TypeOK with the named parts below *)
(* and OneWakeup itself; OneSided is inductive with TypeOK alone.          *)
(***************************************************************************)
EXTENDS Scheduler, SequenceTheorems, TLAPS

\* A worker has a fiber from the handler it takes to the end of the detach.
HasFiber == \A w \in Workers : wpc[w] \notin {"idle", "done"} => wfib[w] \in Fibers

\* The lock is held from the end of the body to the end of the detach.
LockHeld == \A w \in Workers : wpc[w] \in {"post", "detach"} <=> lock = w

\* A fiber that has an allocator is the one of the worker it has it from.
AttachedHere ==
  \A f \in Fibers, w \in Workers :
    attached[f] = w => wfib[w] = f /\ wpc[w] \in {"sync", "run", "exit", "post", "detach"}

\* A fiber that was not created yet or has exited is nowhere.
Alive == born \ exited

AbsentNowhere ==
  \A f \in Fibers \ Alive :
    InLoop(f) = 0 /\ ~Waits(f) /\ \A w \in Workers : ~Holds(w, f)

Typed == TypeOK /\ HasFiber
-----------------------------------------------------------------------------
(***************************************************************************)
(* Sequences: what Append and Tail do to the entries.                      *)
(***************************************************************************)
LEMMA AppendEntries ==
  ASSUME NEW S, NEW s \in Seq(S), NEW e \in S
  PROVE  /\ Append(s, e) \in Seq(S)
         /\ DOMAIN Append(s, e) = 1..(Len(s) + 1)
         /\ DOMAIN s = 1..Len(s)
         /\ Append(s, e)[Len(s) + 1] = e
         /\ \A i \in 1..Len(s) : Append(s, e)[i] = s[i]
  OBVIOUS

LEMMA TailEntries ==
  ASSUME NEW S, NEW s \in Seq(S), s # <<>>
  PROVE  /\ Head(s) \in S
         /\ Tail(s) \in Seq(S)
         /\ Head(s) = s[1]
         /\ 1 \in DOMAIN s
         /\ DOMAIN s = 1..Len(s)
         /\ DOMAIN Tail(s) = 1..(Len(s) - 1)
         /\ \A i \in 1..(Len(s) - 1) : Tail(s)[i] = s[i + 1]
  OBVIOUS

LEMMA MsgsTyped ==
  ASSUME TypeOK, NEW f \in Fibers
  PROVE  <<f, ops[f]>> \in Msgs
  BY DEF TypeOK, Msgs, OpCounts
-----------------------------------------------------------------------------
(***************************************************************************)
(* Type correctness.                                                       *)
(***************************************************************************)
LEMMA NoCallbackTyped == NoCallback \in Callback
  BY DEF NoCallback, Callback

LEMMA InitTyped == Init => Typed
<1>. SUFFICES ASSUME Init PROVE Typed
  OBVIOUS
<1>1. \A S : [f \in Fibers |-> <<>>] \in [Fibers -> Seq(S)]
  OBVIOUS
<1>2. \A S : [c \in Channels |-> <<>>] \in [Channels -> Seq(S)]
  OBVIOUS
<1>3. callback \in [Fibers -> Callback]
  BY NoCallbackTyped DEF Init
<1>4. ops \in OpCounts /\ frames \in [Fibers -> Int]
  BY SchedulerAssumption DEF Init, OpCounts
<1>5. senders \in [Channels -> Seq(Sending)] /\ receivers \in [Channels -> Seq(Fibers)]
  BY <1>2 DEF Init
<1>6. results \in [Fibers -> Seq(Result)]
  BY <1>1 DEF Init
<1>7. posted \in [Fibers -> Nat] /\ expired \in [Fibers -> Nat] /\ timers \in SUBSET Fibers
  BY DEF Init
<1>. QED
  BY <1>3, <1>4, <1>5, <1>6, <1>7, SchedulerAssumption DEF Init, Typed, TypeOK, HasFiber, PCs

LEMMA NextTyped == Typed /\ [Next]_vars => Typed'
<1>. SUFFICES ASSUME Typed, [Next]_vars PROVE Typed'
  OBVIOUS
<1>. USE DEF Typed, TypeOK, HasFiber, PCs, life, loop, chans
<1>0. ASSUME NEW w \in Workers, NEW call \in Callback, Block(w, call) PROVE Typed'
  <2>1. wfib[w] \in Fibers
    BY <1>0 DEF Block
  <2>2. ops[wfib[w]] \in Nat /\ MaxOps[wfib[w]] \in Nat /\ ops[wfib[w]] < MaxOps[wfib[w]]
    BY <1>0, <2>1, SchedulerAssumption DEF Block, OpCounts
  <2>3. ops' = [ops EXCEPT ![wfib[w]] = ops[wfib[w]] + 1]
    BY <1>0 DEF Block
  <2>5. ops' \in OpCounts
    <3>1. ops \in [Fibers -> Nat] /\ \A g \in Fibers : ops[g] <= MaxOps[g]
      BY DEF OpCounts
    <3>2. ops' \in [Fibers -> Nat]
      BY <2>1, <2>2, <2>3, <3>1
    <3>3. ASSUME NEW g \in Fibers PROVE ops'[g] <= MaxOps[g]
      BY <2>1, <2>2, <2>3, <3>1
    <3>. QED BY <3>2, <3>3 DEF OpCounts
  <2>4. frames' \in [Fibers -> Int]
    BY <1>0, <2>1 DEF Block
  <2>. QED BY <1>0, <2>1, <2>4, <2>5 DEF Block
<1>1. ASSUME NEW w \in Workers, NEW c \in Channels, CallSend(w, c) PROVE Typed'
  BY <1>0, <1>1 DEF CallSend, Callback
<1>2. ASSUME NEW w \in Workers, NEW c \in Channels, CallRecv(w, c) PROVE Typed'
  BY <1>0, <1>2 DEF CallRecv, Callback
<1>3. ASSUME NEW w \in Workers, CallSleep(w) PROVE Typed'
  BY <1>0, <1>3 DEF CallSleep, Callback
<1>4. ASSUME NEW w \in Workers, NEW f \in Fibers, Spawn(w, f) PROVE Typed'
  BY <1>4 DEF Spawn, Enqueue
<1>5. ASSUME NEW w \in Workers, Leave(w) PROVE Typed'
  BY <1>5 DEF Leave
<1>6. ASSUME NEW w \in Workers, AttachPosted(w) PROVE Typed'
  BY <1>6 DEF AttachPosted, Attach
<1>7. ASSUME NEW w \in Workers, AttachExpired(w) PROVE Typed'
  BY <1>7 DEF AttachExpired, Attach
<1>8. ASSUME NEW w \in Workers, ResumeSync(w) PROVE Typed'
  <2>1. wfib[w] \in Fibers
    BY <1>8 DEF ResumeSync
  <2>2. frames' \in [Fibers -> Int]
    BY <1>8, <2>1 DEF ResumeSync
  <2>. QED BY <1>8, <2>1, <2>2 DEF ResumeSync
<1>9. ASSUME NEW w \in Workers, Relock(w) PROVE Typed'
  BY <1>9 DEF Relock
<1>10. ASSUME NEW w \in Workers, PostFinish(w) PROVE Typed'
  BY <1>10 DEF PostFinish
<1>11. ASSUME NEW w \in Workers, PostSleep(w) PROVE Typed'
  BY <1>11, NoCallbackTyped DEF PostSleep, Blocked
<1>12. ASSUME NEW w \in Workers, NEW c \in Channels, BlockSend(w, c) PROVE Typed'
  <2>. DEFINE s == [fib |-> wfib[w], msg |-> <<wfib[w], ops[wfib[w]]>>]
  <2>1. wfib[w] \in Fibers
    BY <1>12 DEF BlockSend
  <2>2. s \in Sending
    BY <2>1, MsgsTyped DEF Sending
  <2>3. Append(senders[c], s) \in Seq(Sending)
    BY <2>2, AppendEntries
  <2>. QED BY <1>12, <2>1, <2>3, NoCallbackTyped DEF BlockSend, Blocked
<1>13. ASSUME NEW w \in Workers, NEW c \in Channels, BlockRecv(w, c) PROVE Typed'
  <2>1. wfib[w] \in Fibers
    BY <1>13 DEF BlockRecv
  <2>2. Append(receivers[c], wfib[w]) \in Seq(Fibers)
    BY <2>1, AppendEntries
  <2>. QED BY <1>13, <2>1, <2>2, NoCallbackTyped DEF BlockRecv, Blocked
<1>14. ASSUME NEW w \in Workers, NEW p \in Fibers, NEW mine \in Result, NEW theirs \in Result,
              wfib[w] \in Fibers, Matched(w, p, mine, theirs),
              senders' \in [Channels -> Seq(Sending)],
              receivers' \in [Channels -> Seq(Fibers)]
       PROVE  Typed'
  <2>1. results' \in [Fibers -> Seq(Result)]
    <3>1. \A q \in Fibers, e \in Result : Append(results[q], e) \in Seq(Result)
      BY AppendEntries
    <3>2. [results EXCEPT ![wfib[w]] = Append(@, mine)] \in [Fibers -> Seq(Result)]
      BY <1>14, <3>1
    <3>. QED BY <1>14, <3>1, <3>2 DEF Matched
  <2>2. frames' \in [Fibers -> Int]
    BY <1>14 DEF Matched
  <2>3. posted' \in [Fibers -> Nat]
    BY <1>14 DEF Matched, Enqueue
  <2>4. callback' \in [Fibers -> Callback]
    BY <1>14, NoCallbackTyped DEF Matched
  <2>5. lock' \in Workers \cup {NoWorker} /\ wpc' \in [Workers -> PCs] /\ HasFiber'
    BY <1>14 DEF Matched
  <2>. QED BY <1>14, <2>1, <2>2, <2>3, <2>4, <2>5 DEF Matched
<1>15. ASSUME NEW w \in Workers, NEW c \in Channels, MatchSend(w, c) PROVE Typed'
  <2>. DEFINE m == <<wfib[w], ops[wfib[w]]>>
  <2>1. wfib[w] \in Fibers
    BY <1>15 DEF MatchSend
  <2>2. [op |-> "send", msg |-> m] \in Result /\ [op |-> "recv", msg |-> m] \in Result
    BY <2>1, MsgsTyped DEF Result
  <2>3. Head(receivers[c]) \in Fibers /\ Tail(receivers[c]) \in Seq(Fibers)
    BY <1>15, TailEntries DEF MatchSend
  <2>4. receivers' \in [Channels -> Seq(Fibers)] /\ senders' \in [Channels -> Seq(Sending)]
    BY <1>15, <2>3 DEF MatchSend
  <2>5. Matched(w, Head(receivers[c]), [op |-> "send", msg |-> m], [op |-> "recv", msg |-> m])
    BY <1>15 DEF MatchSend
  <2>. QED BY <1>14, <2>1, <2>2, <2>3, <2>4, <2>5
<1>16. ASSUME NEW w \in Workers, NEW c \in Channels, MatchRecv(w, c) PROVE Typed'
  <2>. DEFINE m == Head(senders[c]).msg
  <2>1. wfib[w] \in Fibers
    BY <1>16 DEF MatchRecv
  <2>2. Head(senders[c]) \in Sending /\ Tail(senders[c]) \in Seq(Sending)
    BY <1>16, TailEntries DEF MatchRecv
  <2>3. /\ Head(senders[c]).fib \in Fibers
        /\ [op |-> "send", msg |-> m] \in Result /\ [op |-> "recv", msg |-> m] \in Result
    BY <2>2 DEF Sending, Result
  <2>4. receivers' \in [Channels -> Seq(Fibers)] /\ senders' \in [Channels -> Seq(Sending)]
    BY <1>16, <2>2 DEF MatchRecv
  <2>5. Matched(w, Head(senders[c]).fib, [op |-> "recv", msg |-> m], [op |-> "send", msg |-> m])
    BY <1>16 DEF MatchRecv
  <2>. QED BY <1>14, <2>1, <2>3, <2>4, <2>5
<1>17. ASSUME NEW w \in Workers, Detach(w) PROVE Typed'
  BY <1>17 DEF Detach
<1>18. ASSUME NEW w \in Workers, EndThread(w) PROVE Typed'
  BY <1>18 DEF EndThread
<1>19. ASSUME NEW w \in Workers, NEW f \in Fibers, TakePosted(w, f) PROVE Typed'
  BY <1>19 DEF TakePosted
<1>20. ASSUME NEW w \in Workers, NEW f \in Fibers, TakeExpired(w, f) PROVE Typed'
  BY <1>20 DEF TakeExpired
<1>21. ASSUME NEW f \in Fibers, TimerExpires(f) PROVE Typed'
  BY <1>21 DEF TimerExpires
<1>22. CASE UNCHANGED vars
  BY <1>22 DEF vars
<1>. QED
  BY <1>1, <1>2, <1>3, <1>4, <1>5, <1>6, <1>7, <1>8, <1>9, <1>10, <1>11, <1>12, <1>13,
     <1>15, <1>16, <1>17, <1>18, <1>19, <1>20, <1>21, <1>22 DEF Next, Program, Trampoline

(***************************************************************************)
(* In every behaviour the state has its type; in particular the event loop *)
(* never runs a handler that was not posted.                               *)
(***************************************************************************)
THEOREM TypeCorrect == Spec => []TypeOK
<1>1. Spec => []Typed
  BY InitTyped, NextTyped, PTL DEF Spec
<1>. QED BY <1>1, PTL DEF Typed
-----------------------------------------------------------------------------
(***************************************************************************)
(* The lock and the workers.                                               *)
(***************************************************************************)
Locking == LockHeld /\ AttachedHere

LEMMA InitLocking == Init => Locking
  BY SchedulerAssumption DEF Init, Locking, LockHeld, AttachedHere

LEMMA NextLocking == Typed /\ Locking /\ [Next]_vars => Locking'
<1>. SUFFICES ASSUME Typed, Locking, [Next]_vars PROVE Locking'
  OBVIOUS
<1>0. /\ wpc \in [Workers -> PCs]
      /\ wfib \in [Workers -> Fibers \cup {NoFiber}]
      /\ attached \in [Fibers -> Workers \cup {NoWorker}]
      /\ lock \in Workers \cup {NoWorker}
      /\ \A w \in Workers : wpc[w] \notin {"idle", "done"} => wfib[w] \in Fibers
  BY DEF Typed, TypeOK, HasFiber
<1>a. NoWorker \notin Workers /\ NoFiber \notin Fibers
  BY SchedulerAssumption
<1>. USE <1>0, <1>a DEF Locking, LockHeld, AttachedHere, PCs
<1>1. ASSUME NEW w \in Workers, NEW call, Block(w, call) PROVE Locking'
  BY <1>1 DEF Block
<1>2. ASSUME NEW w \in Workers, Program(w) PROVE Locking'
  <2>1. ASSUME NEW f \in Fibers, Spawn(w, f) PROVE Locking'
    BY <2>1 DEF Spawn
  <2>2. CASE Leave(w)
    BY <2>2 DEF Leave
  <2>. QED BY <1>1, <1>2, <2>1, <2>2 DEF Program, CallSend, CallRecv, CallSleep
<1>3. ASSUME NEW w \in Workers, AttachPosted(w) \/ AttachExpired(w) PROVE Locking'
  <2>. DEFINE f == wfib[w]
  <2>1. f \in Fibers /\ lock = NoWorker /\ attached' = [attached EXCEPT ![f] = w]
        /\ lock' = lock /\ wfib' = wfib
    BY <1>3 DEF AttachPosted, AttachExpired, Attach
  <2>2. /\ wpc[w] \in {"attach", "attach_sync"} /\ wpc'[w] \in {"run", "sync"}
        /\ \A v \in Workers \ {w} : wpc'[v] = wpc[v]
    BY <1>3 DEF AttachPosted, AttachExpired, Attach
  <2>. QED BY <2>1, <2>2
<1>4. ASSUME NEW w \in Workers, ResumeSync(w) \/ EndThread(w) PROVE Locking'
  BY <1>4 DEF ResumeSync, EndThread
<1>5. ASSUME NEW w \in Workers, Relock(w) PROVE Locking'
  BY <1>5 DEF Relock
<1>6. ASSUME NEW w \in Workers, PostFinish(w) \/ PostSleep(w) PROVE Locking'
  BY <1>6 DEF PostFinish, PostSleep, Blocked
<1>7. ASSUME NEW w \in Workers, NEW c \in Channels, BlockSend(w, c) \/ BlockRecv(w, c)
      PROVE  Locking'
  BY <1>7 DEF BlockSend, BlockRecv, Blocked
<1>8. ASSUME NEW w \in Workers, NEW c \in Channels, MatchSend(w, c) \/ MatchRecv(w, c)
      PROVE  Locking'
  <2>1. /\ wpc[w] = "post" /\ wpc' = [wpc EXCEPT ![w] = "run"] /\ lock' = NoWorker
        /\ UNCHANGED <<wfib, attached>>
    BY <1>8 DEF MatchSend, MatchRecv, Matched
  <2>. QED BY <2>1
<1>9. ASSUME NEW w \in Workers, Detach(w) PROVE Locking'
  BY <1>9 DEF Detach
<1>10. ASSUME NEW w \in Workers, NEW f \in Fibers, TakePosted(w, f) \/ TakeExpired(w, f)
       PROVE  Locking'
  BY <1>10 DEF TakePosted, TakeExpired
<1>11. ASSUME NEW f \in Fibers, TimerExpires(f) PROVE Locking'
  BY <1>11 DEF TimerExpires
<1>12. CASE UNCHANGED vars
  BY <1>12 DEF vars
<1>. QED
  BY <1>2, <1>3, <1>4, <1>5, <1>6, <1>7, <1>8, <1>9, <1>10, <1>11, <1>12
  DEF Next, Trampoline
-----------------------------------------------------------------------------
(***************************************************************************)
(* Channels are one-sided.                                                 *)
(***************************************************************************)
LEMMA NextOneSided == Typed /\ OneSided /\ [Next]_vars => OneSided'
<1>. SUFFICES ASSUME Typed, OneSided, [Next]_vars PROVE OneSided'
  OBVIOUS
<1>0. senders \in [Channels -> Seq(Sending)] /\ receivers \in [Channels -> Seq(Fibers)]
  BY DEF Typed, TypeOK
<1>1. ASSUME UNCHANGED chans PROVE OneSided'
  BY <1>1 DEF OneSided, chans
<1>2. ASSUME NEW w \in Workers, NEW c \in Channels, BlockSend(w, c) PROVE OneSided'
  BY <1>0, <1>2 DEF OneSided, BlockSend
<1>3. ASSUME NEW w \in Workers, NEW c \in Channels, BlockRecv(w, c) PROVE OneSided'
  BY <1>0, <1>3 DEF OneSided, BlockRecv
<1>4. ASSUME NEW w \in Workers, NEW c \in Channels, MatchSend(w, c) PROVE OneSided'
  BY <1>0, <1>4 DEF OneSided, MatchSend
<1>5. ASSUME NEW w \in Workers, NEW c \in Channels, MatchRecv(w, c) PROVE OneSided'
  BY <1>0, <1>5 DEF OneSided, MatchRecv
<1>6. ASSUME NEW w \in Workers, Program(w) PROVE UNCHANGED chans
  BY <1>6 DEF Program, CallSend, CallRecv, CallSleep, Block, Spawn, Leave
<1>7. ASSUME NEW w \in Workers,
             \/ AttachPosted(w) \/ AttachExpired(w) \/ ResumeSync(w) \/ Relock(w)
             \/ PostFinish(w) \/ PostSleep(w) \/ Detach(w) \/ EndThread(w)
      PROVE  UNCHANGED chans
  BY <1>7 DEF AttachPosted, AttachExpired, Attach, ResumeSync, Relock, PostFinish,
              PostSleep, Detach, EndThread
<1>8. ASSUME NEW f \in Fibers,
             TimerExpires(f) \/ \E w \in Workers : TakePosted(w, f) \/ TakeExpired(w, f)
      PROVE  UNCHANGED chans
  BY <1>8 DEF TimerExpires, TakePosted, TakeExpired
<1>. QED
  BY <1>1, <1>2, <1>3, <1>4, <1>5, <1>6, <1>7, <1>8 DEF Next, Trampoline, vars

(***************************************************************************)
(* No channel ever keeps a sender and a receiver waiting for each other.   *)
(***************************************************************************)
THEOREM ChannelsOneSided == Spec => []OneSided
<1>1. Init => OneSided
  BY DEF Init, OneSided
<1>. QED BY <1>1, InitTyped, NextTyped, NextOneSided, PTL DEF Spec
-----------------------------------------------------------------------------
(***************************************************************************)
(* Who waits in a channel: the effect of queueing a fiber and of taking    *)
(* the first one, in terms of Waits.                                       *)
(***************************************************************************)
LEMMA QueueSender ==
  ASSUME senders \in [Channels -> Seq(Sending)], receivers \in [Channels -> Seq(Fibers)],
         WaitsOnce, NEW c \in Channels, NEW s \in Sending, ~Waits(s.fib),
         senders' = [senders EXCEPT ![c] = Append(@, s)], receivers' = receivers
  PROVE  WaitsOnce' /\ \A g \in Fibers : Waits(g)' => Waits(g) \/ g = s.fib
<1>1. /\ DOMAIN senders'[c] = 1..(Len(senders[c]) + 1)
      /\ DOMAIN senders[c] = 1..Len(senders[c])
      /\ Len(senders[c]) \in Nat
      /\ senders'[c][Len(senders[c]) + 1] = s
      /\ \A i \in 1..Len(senders[c]) : senders'[c][i] = senders[c][i]
      /\ \A d \in Channels \ {c} : senders'[d] = senders[d]
  BY AppendEntries, LenProperties
<1>2. \A d \in Channels : \A i \in DOMAIN senders'[d] :
        \/ d = c /\ i = Len(senders[c]) + 1 /\ senders'[d][i] = s
        \/ i \in DOMAIN senders[d] /\ senders'[d][i] = senders[d][i]
  BY <1>1
<1>3. \A d \in Channels : \A i \in DOMAIN senders[d] : senders[d][i].fib # s.fib
  BY DEF Waits, WaitsToSend
<1>4. \A d \in Channels : \A i \in DOMAIN receivers[d] : receivers[d][i] # s.fib
  BY DEF Waits, WaitsToRecv
<1>5. WaitsOnce'
  BY <1>2, <1>3, <1>4 DEF WaitsOnce
<1>6. \A g \in Fibers : Waits(g)' => Waits(g) \/ g = s.fib
  BY <1>2 DEF Waits, WaitsToSend, WaitsToRecv
<1>. QED BY <1>5, <1>6

LEMMA QueueReceiver ==
  ASSUME senders \in [Channels -> Seq(Sending)], receivers \in [Channels -> Seq(Fibers)],
         WaitsOnce, NEW c \in Channels, NEW f \in Fibers, ~Waits(f),
         receivers' = [receivers EXCEPT ![c] = Append(@, f)], senders' = senders
  PROVE  WaitsOnce' /\ \A g \in Fibers : Waits(g)' => Waits(g) \/ g = f
<1>1. /\ DOMAIN receivers'[c] = 1..(Len(receivers[c]) + 1)
      /\ DOMAIN receivers[c] = 1..Len(receivers[c])
      /\ Len(receivers[c]) \in Nat
      /\ receivers'[c][Len(receivers[c]) + 1] = f
      /\ \A i \in 1..Len(receivers[c]) : receivers'[c][i] = receivers[c][i]
      /\ \A d \in Channels \ {c} : receivers'[d] = receivers[d]
  BY AppendEntries, LenProperties
<1>2. \A d \in Channels : \A i \in DOMAIN receivers'[d] :
        \/ d = c /\ i = Len(receivers[c]) + 1 /\ receivers'[d][i] = f
        \/ i \in DOMAIN receivers[d] /\ receivers'[d][i] = receivers[d][i]
  BY <1>1
<1>3. \A d \in Channels : \A i \in DOMAIN senders[d] : senders[d][i].fib # f
  BY DEF Waits, WaitsToSend
<1>4. \A d \in Channels : \A i \in DOMAIN receivers[d] : receivers[d][i] # f
  BY DEF Waits, WaitsToRecv
<1>5. WaitsOnce'
  BY <1>2, <1>3, <1>4 DEF WaitsOnce
<1>6. \A g \in Fibers : Waits(g)' => Waits(g) \/ g = f
  BY <1>2 DEF Waits, WaitsToSend, WaitsToRecv
<1>. QED BY <1>5, <1>6

LEMMA UnqueueSender ==
  ASSUME senders \in [Channels -> Seq(Sending)], receivers \in [Channels -> Seq(Fibers)],
         WaitsOnce, NEW c \in Channels, senders[c] # <<>>,
         senders' = [senders EXCEPT ![c] = Tail(@)], receivers' = receivers
  PROVE  /\ WaitsOnce'
         /\ Head(senders[c]).fib \in Fibers
         /\ Waits(Head(senders[c]).fib)
         /\ \A g \in Fibers : Waits(g)' => Waits(g) /\ g # Head(senders[c]).fib
<1>. DEFINE s == Head(senders[c])
<1>1. /\ s \in Sending /\ s = senders[c][1] /\ 1 \in DOMAIN senders[c]
      /\ DOMAIN senders[c] = 1..Len(senders[c])
      /\ Len(senders[c]) \in Nat
      /\ DOMAIN senders'[c] = 1..(Len(senders[c]) - 1)
      /\ \A i \in 1..(Len(senders[c]) - 1) : senders'[c][i] = senders[c][i + 1]
      /\ \A d \in Channels \ {c} : senders'[d] = senders[d]
  BY TailEntries, LenProperties
<1>. DEFINE at(d, i) == IF d = c THEN i + 1 ELSE i
<1>2. \A d \in Channels : \A i \in DOMAIN senders'[d] :
        /\ at(d, i) \in DOMAIN senders[d] /\ senders'[d][i] = senders[d][at(d, i)]
        /\ d = c => i \in Nat /\ at(d, i) = i + 1 /\ at(d, i) # 1
        /\ d # c => at(d, i) = i
  BY <1>1
<1>. HIDE DEF at
<1>3. WaitsOnce'
  <2>. SUFFICES ASSUME NEW c1 \in Channels', NEW c2 \in Channels'
                PROVE  /\ \A i \in DOMAIN senders'[c1], j \in DOMAIN senders'[c2] :
                            senders'[c1][i].fib = senders'[c2][j].fib => c1 = c2 /\ i = j
                       /\ \A i \in DOMAIN receivers'[c1], j \in DOMAIN receivers'[c2] :
                            receivers'[c1][i] = receivers'[c2][j] => c1 = c2 /\ i = j
                       /\ \A i \in DOMAIN senders'[c1], j \in DOMAIN receivers'[c2] :
                            senders'[c1][i].fib # receivers'[c2][j]
    BY DEF WaitsOnce
  <2>1. ASSUME NEW i \in DOMAIN senders'[c1], NEW j \in DOMAIN senders'[c2],
               senders'[c1][i].fib = senders'[c2][j].fib
        PROVE  c1 = c2 /\ i = j
    <3>1. c1 = c2 /\ at(c1, i) = at(c2, j)
      BY <1>2, <2>1 DEF WaitsOnce
    <3>2. CASE c1 = c
      BY <1>2, <3>1, <3>2
    <3>3. CASE c1 # c
      BY <1>2, <3>1, <3>3
    <3>. QED BY <3>2, <3>3
  <2>2. \A i \in DOMAIN receivers'[c1], j \in DOMAIN receivers'[c2] :
          receivers'[c1][i] = receivers'[c2][j] => c1 = c2 /\ i = j
    BY DEF WaitsOnce
  <2>3. \A i \in DOMAIN senders'[c1], j \in DOMAIN receivers'[c2] :
          senders'[c1][i].fib # receivers'[c2][j]
    BY SMTT(30), <1>2 DEF WaitsOnce
  <2>. QED BY <2>1, <2>2, <2>3
<1>4. s.fib \in Fibers /\ Waits(s.fib)
  BY <1>1 DEF Waits, WaitsToSend, Sending
<1>5. ASSUME NEW g \in Fibers, Waits(g)' PROVE Waits(g) /\ g # s.fib
  <2>1. CASE WaitsToSend(g)'
    <3>0. PICK d \in Channels : \E i \in DOMAIN senders'[d] : senders'[d][i].fib = g
      BY <2>1 DEF WaitsToSend
    <3>1. PICK i \in DOMAIN senders'[d] : senders'[d][i].fib = g
      BY <3>0
    <3>2. at(d, i) \in DOMAIN senders[d] /\ senders[d][at(d, i)].fib = g /\ (d = c => at(d, i) # 1)
      BY <1>2, <3>1
    <3>3. Waits(g)
      BY <3>2 DEF Waits, WaitsToSend
    <3>4. g # s.fib
      BY <1>1, <3>2 DEF WaitsOnce
    <3>. QED BY <3>3, <3>4
  <2>2. CASE WaitsToRecv(g)'
    BY <1>1, <2>2 DEF Waits, WaitsToRecv, WaitsOnce
  <2>. QED BY <1>5, <2>1, <2>2 DEF Waits
<1>. QED BY <1>3, <1>4, <1>5

LEMMA UnqueueReceiver ==
  ASSUME senders \in [Channels -> Seq(Sending)], receivers \in [Channels -> Seq(Fibers)],
         WaitsOnce, NEW c \in Channels, receivers[c] # <<>>,
         receivers' = [receivers EXCEPT ![c] = Tail(@)], senders' = senders
  PROVE  /\ WaitsOnce'
         /\ Head(receivers[c]) \in Fibers
         /\ Waits(Head(receivers[c]))
         /\ \A g \in Fibers : Waits(g)' => Waits(g) /\ g # Head(receivers[c])
<1>. DEFINE r == Head(receivers[c])
<1>1. /\ r \in Fibers /\ r = receivers[c][1] /\ 1 \in DOMAIN receivers[c]
      /\ DOMAIN receivers[c] = 1..Len(receivers[c])
      /\ Len(receivers[c]) \in Nat
      /\ DOMAIN receivers'[c] = 1..(Len(receivers[c]) - 1)
      /\ \A i \in 1..(Len(receivers[c]) - 1) : receivers'[c][i] = receivers[c][i + 1]
      /\ \A d \in Channels \ {c} : receivers'[d] = receivers[d]
  BY TailEntries, LenProperties
<1>. DEFINE at(d, i) == IF d = c THEN i + 1 ELSE i
<1>2. \A d \in Channels : \A i \in DOMAIN receivers'[d] :
        /\ at(d, i) \in DOMAIN receivers[d] /\ receivers'[d][i] = receivers[d][at(d, i)]
        /\ d = c => i \in Nat /\ at(d, i) = i + 1 /\ at(d, i) # 1
        /\ d # c => at(d, i) = i
  BY <1>1
<1>. HIDE DEF at
<1>3. WaitsOnce'
  <2>. SUFFICES ASSUME NEW c1 \in Channels', NEW c2 \in Channels'
                PROVE  /\ \A i \in DOMAIN senders'[c1], j \in DOMAIN senders'[c2] :
                            senders'[c1][i].fib = senders'[c2][j].fib => c1 = c2 /\ i = j
                       /\ \A i \in DOMAIN receivers'[c1], j \in DOMAIN receivers'[c2] :
                            receivers'[c1][i] = receivers'[c2][j] => c1 = c2 /\ i = j
                       /\ \A i \in DOMAIN senders'[c1], j \in DOMAIN receivers'[c2] :
                            senders'[c1][i].fib # receivers'[c2][j]
    BY DEF WaitsOnce
  <2>1. ASSUME NEW i \in DOMAIN receivers'[c1], NEW j \in DOMAIN receivers'[c2],
               receivers'[c1][i] = receivers'[c2][j]
        PROVE  c1 = c2 /\ i = j
    <3>1. c1 = c2 /\ at(c1, i) = at(c2, j)
      BY <1>2, <2>1 DEF WaitsOnce
    <3>2. CASE c1 = c
      BY <1>2, <3>1, <3>2
    <3>3. CASE c1 # c
      BY <1>2, <3>1, <3>3
    <3>. QED BY <3>2, <3>3
  <2>2. \A i \in DOMAIN senders'[c1], j \in DOMAIN senders'[c2] :
          senders'[c1][i].fib = senders'[c2][j].fib => c1 = c2 /\ i = j
    BY DEF WaitsOnce
  <2>3. \A i \in DOMAIN senders'[c1], j \in DOMAIN receivers'[c2] :
          senders'[c1][i].fib # receivers'[c2][j]
    BY <1>2 DEF WaitsOnce
  <2>. QED BY <2>1, <2>2, <2>3
<1>4. r \in Fibers /\ Waits(r)
  BY <1>1 DEF Waits, WaitsToRecv
<1>5. ASSUME NEW g \in Fibers, Waits(g)' PROVE Waits(g) /\ g # r
  <2>1. CASE WaitsToRecv(g)'
    <3>0. PICK d \in Channels : \E i \in DOMAIN receivers'[d] : receivers'[d][i] = g
      BY <2>1 DEF WaitsToRecv
    <3>1. PICK i \in DOMAIN receivers'[d] : receivers'[d][i] = g
      BY <3>0
    <3>2. at(d, i) \in DOMAIN receivers[d] /\ receivers[d][at(d, i)] = g /\ (d = c => at(d, i) # 1)
      BY <1>2, <3>1
    <3>3. Waits(g)
      BY <3>2 DEF Waits, WaitsToRecv
    <3>4. g # r
      BY <1>1, <3>2 DEF WaitsOnce
    <3>. QED BY <3>3, <3>4
  <2>2. CASE WaitsToSend(g)'
    BY <1>1, <2>2 DEF Waits, WaitsToSend, WaitsOnce
  <2>. QED BY <1>5, <2>1, <2>2 DEF Waits
<1>. QED BY <1>3, <1>4, <1>5
-----------------------------------------------------------------------------
(***************************************************************************)
(* Every fiber has one place.                                              *)
(***************************************************************************)
Placing == OneWakeup /\ AbsentNowhere /\ exited \subseteq born

LEMMA InitPlacing == Init => Placing
<1>. SUFFICES ASSUME Init PROVE Placing
  OBVIOUS
<1>1. \A c \in Channels : DOMAIN senders[c] = {} /\ DOMAIN receivers[c] = {}
  BY DEF Init
<1>2. \A f \in Fibers : ~Waits(f)
  BY <1>1 DEF Waits, WaitsToSend, WaitsToRecv
<1>3. ASSUME NEW f \in Fibers PROVE InLoop(f) = IF f = Main THEN 1 ELSE 0
  <2>1. posted[f] = (IF f = Main THEN 1 ELSE 0) /\ expired[f] = 0 /\ f \notin timers
    BY DEF Init
  <2>2. CASE f = Main
    BY <2>1, <2>2 DEF InLoop
  <2>3. CASE f # Main
    BY <2>1, <2>3 DEF InLoop
  <2>. QED BY <2>2, <2>3
<1>4. \A w \in Workers, f \in Fibers : ~Holds(w, f)
  BY SchedulerAssumption DEF Init, Holds, Taken, Executes
<1>5. WaitsOnce
  BY <1>1 DEF WaitsOnce
<1>. QED
  BY <1>2, <1>3, <1>4, <1>5
  DEF Init, Placing, OneWakeup, LoopOnce, HeldAlone, AbsentNowhere, Alive

\* What every step but those of channels, timers and the event loop does.
LEMMA QuietStep ==
  ASSUME Placing, UNCHANGED <<loop, chans, born, exited>>,
         \A w \in Workers, f \in Fibers : Holds(w, f)' => Holds(w, f)
  PROVE  Placing'
<1>1. \A f \in Fibers : InLoop(f)' = InLoop(f) /\ Waits(f)' = Waits(f)
  BY DEF InLoop, Waits, WaitsToSend, WaitsToRecv, loop, chans
<1>2. WaitsOnce'
  BY DEF Placing, OneWakeup, WaitsOnce, chans
<1>. QED BY <1>1, <1>2 DEF Placing, OneWakeup, LoopOnce, HeldAlone, AbsentNowhere, Alive

LEMMA NextPlacing == Typed /\ Placing /\ [Next]_vars => Placing'
<1>. SUFFICES ASSUME Typed, Placing, [Next]_vars PROVE Placing'
  OBVIOUS
<1>0. /\ wpc \in [Workers -> PCs]
      /\ wfib \in [Workers -> Fibers \cup {NoFiber}]
      /\ \A w \in Workers : wpc[w] \notin {"idle", "done"} => wfib[w] \in Fibers
      /\ posted \in [Fibers -> Nat] /\ expired \in [Fibers -> Nat] /\ timers \in SUBSET Fibers
      /\ senders \in [Channels -> Seq(Sending)] /\ receivers \in [Channels -> Seq(Fibers)]
      /\ \A f \in Fibers : <<f, ops[f]>> \in Msgs
  BY MsgsTyped DEF Typed, TypeOK, HasFiber
<1>i. \A f \in Fibers : InLoop(f) \in Nat
  BY <1>0 DEF InLoop
<1>. USE DEF PCs
<1>1. ASSUME NEW w \in Workers, NEW call, Block(w, call) PROVE Placing'
  BY <1>0, <1>1, QuietStep DEF Block, Holds, Taken, Executes, loop, chans
<1>2. ASSUME NEW w \in Workers, Leave(w) PROVE Placing'
  BY <1>0, <1>2, QuietStep DEF Leave, Holds, Taken, Executes, loop, chans, life
<1>3. ASSUME NEW w \in Workers, NEW f \in Fibers, Spawn(w, f) PROVE Placing'
  <2>1. InLoop(f) = 0 /\ ~Waits(f) /\ \A v \in Workers : ~Holds(v, f)
    BY <1>3 DEF Spawn, Placing, AbsentNowhere, Alive
  <2>2. InLoop(f)' = InLoop(f) + 1 /\ \A g \in Fibers \ {f} : InLoop(g)' = InLoop(g)
    BY <1>0, <1>3 DEF Spawn, Enqueue, InLoop
  <2>3. \A g \in Fibers : Waits(g)' = Waits(g) /\ \A v \in Workers : Holds(v, g)' = Holds(v, g)
    BY <1>3 DEF Spawn, chans, Waits, WaitsToSend, WaitsToRecv, Holds, Taken, Executes
  <2>4. WaitsOnce'
    BY <1>3 DEF Spawn, chans, Placing, OneWakeup, WaitsOnce
  <2>5. LoopOnce' /\ HeldAlone'
    BY <1>i, <2>1, <2>2, <2>3 DEF Placing, OneWakeup, LoopOnce, HeldAlone
  <2>6. AbsentNowhere'
    BY <1>3, <2>2, <2>3 DEF Spawn, Placing, AbsentNowhere, Alive
  <2>7. (exited \subseteq born)'
    BY <1>3 DEF Spawn, Placing
  <2>. QED BY <2>4, <2>5, <2>6, <2>7 DEF Placing, OneWakeup
<1>4. ASSUME NEW w \in Workers, AttachPosted(w) \/ AttachExpired(w) PROVE Placing'
  BY <1>0, <1>4, QuietStep
  DEF AttachPosted, AttachExpired, Attach, Holds, Taken, Executes, life
<1>5. ASSUME NEW w \in Workers, ResumeSync(w) \/ Relock(w) \/ Detach(w) \/ EndThread(w)
      PROVE  Placing'
  BY <1>0, <1>5, QuietStep
  DEF ResumeSync, Relock, Detach, EndThread, Holds, Taken, Executes, life
<1>6. ASSUME NEW w \in Workers, PostFinish(w) PROVE Placing'
  <2>0. PICK f \in Fibers : f = wfib[w]
    BY <1>0, <1>6 DEF PostFinish
  <2>1. Holds(w, f)
    BY <1>6, <2>0 DEF PostFinish, Holds, Executes
  <2>2. \A v \in Workers, g \in Fibers : Holds(v, g)' => Holds(v, g) /\ v # w
    BY <1>0, <1>6 DEF PostFinish, Holds, Taken, Executes
  <2>3. \A v \in Workers, g \in Fibers : Holds(v, g)' => Holds(v, g) /\ g # f
    BY <2>1, <2>2 DEF Placing, OneWakeup, HeldAlone
  <2>4. \A g \in Fibers : InLoop(g)' = InLoop(g) /\ Waits(g)' = Waits(g)
    BY <1>6 DEF PostFinish, InLoop, Waits, WaitsToSend, WaitsToRecv, loop, chans
  <2>5. WaitsOnce'
    BY <1>6 DEF PostFinish, Placing, OneWakeup, WaitsOnce, chans
  <2>6. LoopOnce' /\ HeldAlone'
    BY <2>3, <2>4 DEF Placing, OneWakeup, LoopOnce, HeldAlone
  <2>7. InLoop(f) = 0 /\ ~Waits(f) /\ f \in Alive
    BY <2>1 DEF Placing, OneWakeup, HeldAlone, AbsentNowhere
  <2>8. exited' = exited \cup {f} /\ born' = born
    BY <1>6, <2>0 DEF PostFinish
  <2>9. AbsentNowhere'
    BY <2>3, <2>4, <2>7, <2>8 DEF Placing, AbsentNowhere, Alive
  <2>. QED BY <2>5, <2>6, <2>7, <2>8, <2>9 DEF Placing, OneWakeup, Alive

\* The callback of a fiber publishes it, and its worker lets go of it.
<1>7. ASSUME NEW w \in Workers, NEW f \in Fibers, f = wfib[w], wpc[w] = "post", Blocked(w),
             WaitsOnce',
             \A g \in Fibers : g # f => InLoop(g)' = InLoop(g) /\ (Waits(g)' => Waits(g)),
             InLoop(f)' \in {0, 1},
             Waits(f)' => InLoop(f)' = 0
      PROVE  Placing'
  <2>1. Holds(w, f)
    BY <1>0, <1>7 DEF Holds, Executes
  <2>2. \A v \in Workers, g \in Fibers : Holds(v, g)' => Holds(v, g) /\ g # f
    <3>1. \A v \in Workers, g \in Fibers : Holds(v, g)' => Holds(v, g) /\ v # w
      BY <1>0, <1>7 DEF Blocked, Holds, Taken, Executes
    <3>. QED BY <2>1, <3>1 DEF Placing, OneWakeup, HeldAlone
  <2>3. LoopOnce' /\ HeldAlone'
    BY <1>7, <2>1, <2>2 DEF Placing, OneWakeup, LoopOnce, HeldAlone
  <2>4. f \in Alive /\ UNCHANGED <<born, exited>>
    BY <1>7, <2>1 DEF Placing, AbsentNowhere, Blocked, life
  <2>5. AbsentNowhere'
    BY <1>7, <2>1, <2>2, <2>4 DEF Placing, AbsentNowhere, Alive
  <2>. QED BY <1>7, <2>3, <2>4, <2>5 DEF Placing, OneWakeup
<1>8. ASSUME NEW w \in Workers, PostSleep(w) PROVE Placing'
  <2>0. PICK f \in Fibers : f = wfib[w]
    BY <1>0, <1>8 DEF PostSleep
  <2>1. Holds(w, f)
    BY <1>8, <2>0 DEF PostSleep, Holds, Executes
  <2>2. InLoop(f) = 0 /\ ~Waits(f)
    BY <2>1 DEF Placing, OneWakeup, HeldAlone
  <2>3. /\ InLoop(f)' \in {0, 1}
        /\ \A g \in Fibers : g # f => InLoop(g)' = InLoop(g)
    BY <1>0, <1>8, <2>0, <2>2 DEF PostSleep, Blocked, InLoop
  <2>4. \A g \in Fibers : Waits(g)' = Waits(g)
    BY <1>8 DEF PostSleep, chans, Waits, WaitsToSend, WaitsToRecv
  <2>5. WaitsOnce'
    BY <1>8 DEF PostSleep, chans, Placing, OneWakeup, WaitsOnce
  <2>. QED BY <1>7, <1>8, <2>0, <2>2, <2>3, <2>4, <2>5 DEF PostSleep
<1>9. ASSUME NEW w \in Workers, NEW c \in Channels, BlockSend(w, c) PROVE Placing'
  <2>0. PICK f \in Fibers : f = wfib[w]
    BY <1>0, <1>9 DEF BlockSend
  <2>1. Holds(w, f)
    BY <1>9, <2>0 DEF BlockSend, Holds, Executes
  <2>2. InLoop(f) = 0 /\ ~Waits(f)
    BY <2>1 DEF Placing, OneWakeup, HeldAlone
  <2>. DEFINE s == [fib |-> f, msg |-> <<f, ops[f]>>]
  <2>3. s \in Sending /\ s.fib = f
    BY <1>0, <2>1 DEF Sending
  <2>4. WaitsOnce' /\ \A g \in Fibers : Waits(g)' => Waits(g) \/ g = f
    BY <1>0, <1>9, <2>0, <2>2, <2>3, QueueSender DEF BlockSend, Placing, OneWakeup
  <2>5. \A g \in Fibers : InLoop(g)' = InLoop(g)
    BY <1>9 DEF BlockSend, Blocked, InLoop
  <2>. QED BY <1>7, <1>9, <2>0, <2>2, <2>4, <2>5 DEF BlockSend
<1>10. ASSUME NEW w \in Workers, NEW c \in Channels, BlockRecv(w, c) PROVE Placing'
  <2>0. PICK f \in Fibers : f = wfib[w]
    BY <1>0, <1>10 DEF BlockRecv
  <2>1. Holds(w, f)
    BY <1>10, <2>0 DEF BlockRecv, Holds, Executes
  <2>2. InLoop(f) = 0 /\ ~Waits(f)
    BY <2>1 DEF Placing, OneWakeup, HeldAlone
  <2>4. WaitsOnce' /\ \A g \in Fibers : Waits(g)' => Waits(g) \/ g = f
    BY <1>0, <1>10, <2>0, <2>2, QueueReceiver DEF BlockRecv, Placing, OneWakeup
  <2>5. \A g \in Fibers : InLoop(g)' = InLoop(g)
    BY <1>10 DEF BlockRecv, Blocked, InLoop
  <2>. QED BY <1>7, <1>10, <2>0, <2>2, <2>4, <2>5 DEF BlockRecv

\* A fiber leaves a channel for the event loop, its partner goes on running.
<1>11. ASSUME NEW w \in Workers, NEW p \in Fibers, NEW mine, NEW theirs,
              wpc[w] = "post", Matched(w, p, mine, theirs), WaitsOnce',
              Waits(p), \A g \in Fibers : Waits(g)' => Waits(g) /\ g # p
       PROVE  Placing'
  <2>1. InLoop(p) = 0 /\ \A v \in Workers : ~Holds(v, p)
    BY <1>11 DEF Placing, OneWakeup, LoopOnce, HeldAlone
  <2>2. InLoop(p)' = 1 /\ \A g \in Fibers : g # p => InLoop(g)' = InLoop(g)
    BY <1>0, <1>11, <2>1 DEF Matched, Enqueue, InLoop
  <2>3. \A v \in Workers, g \in Fibers : Holds(v, g)' => Holds(v, g)
    BY <1>0, <1>11 DEF Matched, Holds, Taken, Executes
  <2>4. LoopOnce' /\ HeldAlone'
    BY <1>11, <2>1, <2>2, <2>3 DEF Placing, OneWakeup, LoopOnce, HeldAlone
  <2>5. p \in Alive /\ UNCHANGED <<born, exited>>
    BY <1>11 DEF Placing, AbsentNowhere, Matched, life
  <2>6. AbsentNowhere'
    BY <1>11, <2>2, <2>3, <2>5 DEF Placing, AbsentNowhere, Alive
  <2>. QED BY <1>11, <2>4, <2>5, <2>6 DEF Placing, OneWakeup
<1>12. ASSUME NEW w \in Workers, NEW c \in Channels, MatchSend(w, c) PROVE Placing'
  <2>1. /\ WaitsOnce' /\ Head(receivers[c]) \in Fibers /\ Waits(Head(receivers[c]))
        /\ \A g \in Fibers : Waits(g)' => Waits(g) /\ g # Head(receivers[c])
    BY <1>0, <1>12, UnqueueReceiver DEF MatchSend, Placing, OneWakeup
  <2>. QED BY <1>11, <1>12, <2>1 DEF MatchSend
<1>13. ASSUME NEW w \in Workers, NEW c \in Channels, MatchRecv(w, c) PROVE Placing'
  <2>1. /\ WaitsOnce' /\ Head(senders[c]).fib \in Fibers /\ Waits(Head(senders[c]).fib)
        /\ \A g \in Fibers : Waits(g)' => Waits(g) /\ g # Head(senders[c]).fib
    BY <1>0, <1>13, UnqueueSender DEF MatchRecv, Placing, OneWakeup
  <2>. QED BY <1>11, <1>13, <2>1 DEF MatchRecv

\* A worker takes a handler of the event loop, or a timer expires.
<1>14. ASSUME NEW w \in Workers, NEW f \in Fibers, TakePosted(w, f) \/ TakeExpired(w, f)
       PROVE  Placing'
  <2>1. /\ InLoop(f) = 1 /\ InLoop(f)' = 0
        /\ \A g \in Fibers : g # f => InLoop(g)' = InLoop(g)
    <3>1. InLoop(f) <= 1
      BY DEF Placing, OneWakeup, LoopOnce
    <3>. QED BY <1>0, <1>14, <3>1 DEF TakePosted, TakeExpired, InLoop
  <2>2. ~Waits(f) /\ \A v \in Workers : ~Holds(v, f)
    BY <2>1 DEF Placing, OneWakeup, LoopOnce, HeldAlone
  <2>3. \A g \in Fibers : Waits(g)' = Waits(g)
    BY <1>14 DEF TakePosted, TakeExpired, chans, Waits, WaitsToSend, WaitsToRecv
  <2>4. WaitsOnce'
    BY <1>14 DEF TakePosted, TakeExpired, chans, Placing, OneWakeup, WaitsOnce
  <2>5. \A v \in Workers, g \in Fibers : Holds(v, g)' => (v = w /\ g = f) \/ Holds(v, g)
    BY <1>0, <1>14 DEF TakePosted, TakeExpired, Holds, Taken, Executes
  <2>6. \A g \in Fibers : ~Holds(w, g)
    BY <1>14 DEF TakePosted, TakeExpired, Holds, Taken, Executes
  <2>7. LoopOnce' /\ HeldAlone'
    BY <2>1, <2>2, <2>3, <2>5, <2>6 DEF Placing, OneWakeup, LoopOnce, HeldAlone
  <2>8. f \in Alive /\ UNCHANGED <<born, exited>>
    BY <1>14, <2>1 DEF TakePosted, TakeExpired, life, Placing, AbsentNowhere
  <2>9. AbsentNowhere'
    BY <2>1, <2>3, <2>5, <2>8 DEF Placing, AbsentNowhere, Alive
  <2>. QED BY <2>4, <2>7, <2>8, <2>9 DEF Placing, OneWakeup
<1>15. ASSUME NEW f \in Fibers, TimerExpires(f) PROVE Placing'
  <2>1. \A g \in Fibers : InLoop(g)' = InLoop(g)
    BY <1>0, <1>15 DEF TimerExpires, InLoop
  <2>2. \A g \in Fibers : Waits(g)' = Waits(g) /\ \A v \in Workers : Holds(v, g)' = Holds(v, g)
    BY <1>15 DEF TimerExpires, chans, Waits, WaitsToSend, WaitsToRecv, Holds, Taken, Executes
  <2>3. WaitsOnce' /\ UNCHANGED <<born, exited>>
    BY <1>15 DEF TimerExpires, chans, life, Placing, OneWakeup, WaitsOnce
  <2>. QED
    BY <2>1, <2>2, <2>3 DEF Placing, OneWakeup, LoopOnce, HeldAlone, AbsentNowhere, Alive
<1>16. CASE UNCHANGED vars
  BY <1>16, QuietStep DEF vars, life, Holds, Taken, Executes
<1>17. ASSUME NEW w \in Workers, Program(w) PROVE Placing'
  BY <1>1, <1>2, <1>3, <1>17 DEF Program, CallSend, CallRecv, CallSleep
<1>18. ASSUME NEW w \in Workers, Trampoline(w) PROVE Placing'
  BY <1>4, <1>5, <1>6, <1>8, <1>9, <1>10, <1>12, <1>13, <1>18 DEF Trampoline
<1>. QED
  BY <1>14, <1>15, <1>16, <1>17, <1>18 DEF Next

(***************************************************************************)
(* No wakeup is delivered twice and no fiber has two workers.              *)
(***************************************************************************)
THEOREM WakeupsOnce == Spec => []OneWakeup
<1>1. Placing => OneWakeup
  BY DEF Placing
<1>. QED BY <1>1, InitTyped, NextTyped, InitPlacing, NextPlacing, PTL DEF Spec

(***************************************************************************)
(* The assertion of attach_and_exec holds whenever a worker gets the lock. *)
(***************************************************************************)
THEOREM AttachAssertion == Spec => []DetachedBeforeAttach
<1>1. Typed /\ Locking /\ Placing => DetachedBeforeAttach
  <2>. SUFFICES ASSUME Typed, Locking, Placing, lock = NoWorker,
                       NEW w \in Workers, NEW f \in Fibers, Taken(w, f),
                       attached[f] # NoWorker
                PROVE  FALSE
    BY DEF DetachedBeforeAttach
  <2>1. PICK v \in Workers : attached[f] = v
    BY DEF Typed, TypeOK
  <2>2. Executes(v, f)
    BY <2>1, SchedulerAssumption DEF Locking, LockHeld, AttachedHere, Executes
  <2>3. v = w
    BY <2>2 DEF Placing, OneWakeup, HeldAlone, Holds
  <2>. QED BY <2>2, <2>3 DEF Taken, Executes
<1>. QED
  BY <1>1, InitTyped, NextTyped, InitLocking, NextLocking, InitPlacing, NextPlacing, PTL
  DEF Spec
-----------------------------------------------------------------------------
(***************************************************************************)
(* Exactly who waits after a fiber has queued up or the first one has left.*)
(***************************************************************************)
In(s, x) == \E i \in DOMAIN s : s[i] = x

LEMMA InAppend ==
  ASSUME NEW S, NEW s \in Seq(S), NEW e \in S
  PROVE  \A x : In(Append(s, e), x) <=> In(s, x) \/ x = e
<1>0. /\ DOMAIN Append(s, e) = 1..(Len(s) + 1) /\ DOMAIN s = 1..Len(s)
      /\ Len(s) \in Nat /\ Append(s, e)[Len(s) + 1] = e
      /\ \A i \in 1..Len(s) : Append(s, e)[i] = s[i]
  BY AppendEntries, LenProperties
<1>1. \A i \in DOMAIN Append(s, e) : i = Len(s) + 1 \/ i \in DOMAIN s
  BY <1>0
<1>2. \A i \in DOMAIN s : i \in DOMAIN Append(s, e) /\ Append(s, e)[i] = s[i]
  BY <1>0
<1>3. Len(s) + 1 \in DOMAIN Append(s, e)
  BY <1>0
<1>. QED BY <1>0, <1>1, <1>2, <1>3, Zenon DEF In

LEMMA InTail ==
  ASSUME NEW S, NEW s \in Seq(S), s # <<>>
  PROVE  \A x : In(s, x) <=> In(Tail(s), x) \/ x = Head(s)
<1>0. /\ DOMAIN s = 1..Len(s) /\ DOMAIN Tail(s) = 1..(Len(s) - 1)
      /\ Len(s) \in Nat /\ Head(s) = s[1] /\ 1 \in DOMAIN s
      /\ \A i \in 1..(Len(s) - 1) : Tail(s)[i] = s[i + 1]
  BY TailEntries, LenProperties
<1>1. \A i \in DOMAIN Tail(s) : i + 1 \in DOMAIN s /\ s[i + 1] = Tail(s)[i]
  BY <1>0
<1>2. \A i \in DOMAIN s : i = 1 \/ (i - 1 \in DOMAIN Tail(s) /\ Tail(s)[i - 1] = s[i])
  BY <1>0
<1>. QED BY <1>0, <1>1, <1>2, Zenon DEF In

\* The fibers that wait, in terms of the entries of the queues.
LEMMA WaitsIn ==
  \A g \in Fibers :
    Waits(g) <=> \/ \E c \in Channels : \E x : In(senders[c], x) /\ x.fib = g
                 \/ \E c \in Channels : In(receivers[c], g)
  BY Zenon DEF Waits, WaitsToSend, WaitsToRecv, In

LEMMA NextWaitsIn ==
  \A g \in Fibers :
    Waits(g)' <=> \/ \E c \in Channels : \E x : In(senders'[c], x) /\ x.fib = g
                  \/ \E c \in Channels : In(receivers'[c], g)
  BY Zenon DEF Waits, WaitsToSend, WaitsToRecv, In

LEMMA SenderWaits ==
  ASSUME senders \in [Channels -> Seq(Sending)], NEW c \in Channels, NEW s \in Sending,
         senders' = [senders EXCEPT ![c] = Append(@, s)], receivers' = receivers
  PROVE  \A g \in Fibers : Waits(g)' <=> Waits(g) \/ g = s.fib
<1>1. \A x : In(senders'[c], x) <=> In(senders[c], x) \/ x = s
  <2>1. senders[c] \in Seq(Sending) /\ senders'[c] = Append(senders[c], s)
    OBVIOUS
  <2>. QED BY <2>1, InAppend
<1>2. \A d \in Channels \ {c} : senders'[d] = senders[d]
  OBVIOUS
<1>. QED BY <1>1, <1>2, WaitsIn, NextWaitsIn, Zenon

LEMMA ReceiverWaits ==
  ASSUME receivers \in [Channels -> Seq(Fibers)], NEW c \in Channels, NEW f \in Fibers,
         receivers' = [receivers EXCEPT ![c] = Append(@, f)], senders' = senders
  PROVE  \A g \in Fibers : Waits(g)' <=> Waits(g) \/ g = f
<1>1. \A x : In(receivers'[c], x) <=> In(receivers[c], x) \/ x = f
  <2>1. receivers[c] \in Seq(Fibers) /\ receivers'[c] = Append(receivers[c], f)
    OBVIOUS
  <2>. QED BY <2>1, InAppend
<1>2. \A d \in Channels \ {c} : receivers'[d] = receivers[d]
  OBVIOUS
<1>. QED BY <1>1, <1>2, WaitsIn, NextWaitsIn, Zenon

LEMMA SenderLeaves ==
  ASSUME senders \in [Channels -> Seq(Sending)], NEW c \in Channels, senders[c] # <<>>,
         senders' = [senders EXCEPT ![c] = Tail(@)], receivers' = receivers
  PROVE  \A g \in Fibers : Waits(g) <=> Waits(g)' \/ g = Head(senders[c]).fib
<1>1. \A x : In(senders[c], x) <=> In(senders'[c], x) \/ x = Head(senders[c])
  <2>1. senders[c] \in Seq(Sending) /\ senders'[c] = Tail(senders[c])
    OBVIOUS
  <2>. QED BY <2>1, InTail
<1>2. \A d \in Channels \ {c} : senders'[d] = senders[d]
  OBVIOUS
<1>. QED BY <1>1, <1>2, WaitsIn, NextWaitsIn, ZenonT(30)

LEMMA ReceiverLeaves ==
  ASSUME receivers \in [Channels -> Seq(Fibers)], NEW c \in Channels, receivers[c] # <<>>,
         receivers' = [receivers EXCEPT ![c] = Tail(@)], senders' = senders
  PROVE  \A g \in Fibers : Waits(g) <=> Waits(g)' \/ g = Head(receivers[c])
<1>1. \A x : In(receivers[c], x) <=> In(receivers'[c], x) \/ x = Head(receivers[c])
  <2>1. receivers[c] \in Seq(Fibers) /\ receivers'[c] = Tail(receivers[c])
    OBVIOUS
  <2>. QED BY <2>1, InTail
<1>2. \A d \in Channels \ {c} : receivers'[d] = receivers[d]
  OBVIOUS
<1>. QED BY <1>1, <1>2, WaitsIn, NextWaitsIn, Zenon
-----------------------------------------------------------------------------
(***************************************************************************)
(* The frames of blocking calls.                                           *)
(***************************************************************************)

\* A callback is there from the call to the end of post_exit.
CallbackHeld ==
  \A f \in Fibers : callback[f].kind # "none" =>
    \E w \in Workers : wfib[w] = f /\ wpc[w] \in {"exit", "post"}

Framed == FrameDiscipline /\ CallbackHeld

\* Worker w resumes f from its timer.
Resumes(w, f) == wfib[w] = f /\ wpc[w] \in {"attach_sync", "sync"}

LEMMA InCallParts ==
  ASSUME NEW f
  PROVE  InCall(f) <=> \/ f \in timers \/ expired[f] > 0 \/ Waits(f)
                       \/ callback[f].kind # "none"
                       \/ \E w \in Workers : Resumes(w, f)
  BY DEF InCall, Resumes

\* A fiber whose code runs is in no call.
LEMMA RunningOutOfCall ==
  ASSUME Typed, Placing, Framed, NEW w \in Workers, wpc[w] = "run"
  PROVE  wfib[w] \in Fibers /\ ~InCall(wfib[w]) /\ frames[wfib[w]] = 0
<1>. DEFINE f == wfib[w]
<1>1. f \in Fibers /\ Holds(w, f)
  BY DEF Typed, HasFiber, Holds, Executes
<1>2. InLoop(f) = 0 /\ ~Waits(f) /\ \A v \in Workers : Holds(v, f) => v = w
  BY <1>1 DEF Placing, OneWakeup, HeldAlone
<1>3. f \notin timers /\ ~(expired[f] > 0)
  BY <1>1, <1>2 DEF InLoop, Typed, TypeOK
<1>4. \A v \in Workers : wfib[v] = f => ~(wpc[v] \in {"attach_sync", "sync", "exit", "post"})
  BY <1>2 DEF Holds, Taken, Executes
<1>5. ~InCall(f)
  BY <1>1, <1>2, <1>3, <1>4 DEF InCall, Framed, CallbackHeld
<1>. QED BY <1>1, <1>5 DEF Framed, FrameDiscipline

\* A step that resumes, times and publishes nobody, and leaves the callbacks.
LEMMA CallsStay ==
  ASSUME Framed, UNCHANGED <<frames, timers, expired, callback, chans>>,
         \A w \in Workers, g \in Fibers :
           /\ Resumes(w, g)' = Resumes(w, g)
           /\ wfib[w] = g /\ wpc[w] \in {"exit", "post"}
                => \/ wfib'[w] = g /\ wpc'[w] \in {"exit", "post"}
                   \/ callback[g].kind = "none"
  PROVE  Framed'
<1>1. \A g \in Fibers : Waits(g)' = Waits(g)
  BY DEF chans, Waits, WaitsToSend, WaitsToRecv
<1>2. \A g \in Fibers : InCall(g)' = InCall(g)
  BY <1>1, InCallParts DEF InCall, Resumes
<1>. QED BY <1>2 DEF Framed, FrameDiscipline, CallbackHeld

LEMMA NextFramed == Typed /\ Locking /\ Placing /\ Framed /\ [Next]_vars => Framed'
<1>. SUFFICES ASSUME Typed, Locking, Placing, Framed, [Next]_vars PROVE Framed'
  OBVIOUS
<1>0. /\ wpc \in [Workers -> PCs]
      /\ wfib \in [Workers -> Fibers \cup {NoFiber}]
      /\ \A w \in Workers : wpc[w] \notin {"idle", "done"} => wfib[w] \in Fibers
      /\ posted \in [Fibers -> Nat] /\ expired \in [Fibers -> Nat] /\ timers \in SUBSET Fibers
      /\ frames \in [Fibers -> Int] /\ callback \in [Fibers -> Callback]
      /\ senders \in [Channels -> Seq(Sending)] /\ receivers \in [Channels -> Seq(Fibers)]
      /\ \A f \in Fibers : <<f, ops[f]>> \in Msgs
  BY MsgsTyped DEF Typed, TypeOK, HasFiber
<1>. USE DEF PCs
\* The fiber of the worker that takes the step is the only one it concerns.
<1>a. ASSUME NEW f \in Fibers,
             \A g \in Fibers \ {f} : frames'[g] = frames[g] /\ InCall(g)' = InCall(g),
             frames'[f] = IF InCall(f)' THEN 1 ELSE 0
      PROVE  FrameDiscipline'
  BY <1>a DEF Framed, FrameDiscipline
<1>1. ASSUME NEW w \in Workers, NEW call \in Callback, call.kind # "none", Block(w, call)
      PROVE  Framed'
  <2>0. PICK f \in Fibers : f = wfib[w]
    BY <1>1, RunningOutOfCall DEF Block
  <2>1. frames[f] = 0
    BY <1>1, <2>0, RunningOutOfCall DEF Block
  <2>2. frames'[f] = 1 /\ callback'[f] = call
    BY <1>0, <1>1, <2>0, <2>1 DEF Block
  <2>3. ASSUME NEW g \in Fibers \ {f} PROVE frames'[g] = frames[g] /\ InCall(g)' = InCall(g)
    <3>1. frames'[g] = frames[g] /\ callback'[g] = callback[g]
      BY <1>0, <1>1, <2>0 DEF Block
    <3>2. Waits(g)' = Waits(g) /\ UNCHANGED <<timers, expired>>
      BY <1>1 DEF Block, loop, chans, Waits, WaitsToSend, WaitsToRecv
    <3>3. \A v \in Workers : Resumes(v, g)' = Resumes(v, g)
      BY <1>0, <1>1, <2>0 DEF Block, Resumes
    <3>. QED BY <3>1, <3>2, <3>3 DEF InCall, Resumes
  <2>4. InCall(f)'
    BY <1>1, <2>2 DEF InCall
  <2>5. FrameDiscipline'
    BY <1>a, <2>1, <2>2, <2>3, <2>4
  <2>6. CallbackHeld'
    BY <1>0, <1>1, <2>0 DEF Block, Framed, CallbackHeld
  <2>. QED BY <2>5, <2>6 DEF Framed
<1>2. ASSUME NEW w \in Workers, Leave(w) PROVE Framed'
  BY <1>0, <1>2, CallsStay DEF Leave, Resumes, loop, chans, life
<1>3. ASSUME NEW w \in Workers, NEW f \in Fibers, Spawn(w, f) PROVE Framed'
  BY <1>0, <1>3, CallsStay DEF Spawn, Resumes
<1>4. ASSUME NEW w \in Workers, AttachPosted(w) \/ AttachExpired(w) PROVE Framed'
  BY <1>0, <1>4, CallsStay DEF AttachPosted, AttachExpired, Attach, Resumes, loop
<1>5. ASSUME NEW w \in Workers, Relock(w) \/ Detach(w) \/ EndThread(w) PROVE Framed'
  BY <1>0, <1>5, CallsStay DEF Relock, Detach, EndThread, Resumes, loop
<1>6. ASSUME NEW w \in Workers, PostFinish(w) PROVE Framed'
  BY <1>0, <1>6, CallsStay DEF PostFinish, Resumes, loop
<1>7. ASSUME NEW w \in Workers, ResumeSync(w) PROVE Framed'
  <2>0. PICK f \in Fibers : f = wfib[w]
    BY <1>0, <1>7 DEF ResumeSync
  <2>1. Holds(w, f)
    BY <1>7, <2>0 DEF ResumeSync, Holds, Executes
  <2>2. InLoop(f) = 0 /\ ~Waits(f) /\ \A v \in Workers : Holds(v, f) => v = w
    BY <2>1 DEF Placing, OneWakeup, HeldAlone
  <2>3. f \notin timers /\ ~(expired[f] > 0)
    BY <1>0, <2>2 DEF InLoop
  <2>4. \A v \in Workers : wfib[v] = f /\ wpc[v] \in {"attach_sync", "sync", "exit", "post"} => v = w
    BY <2>2 DEF Holds, Taken, Executes
  <2>5. callback[f].kind = "none"
    BY <1>7, <2>4 DEF ResumeSync, Framed, CallbackHeld
  <2>6. \A g \in Fibers : Waits(g)' = Waits(g)
    BY <1>7 DEF ResumeSync, chans, Waits, WaitsToSend, WaitsToRecv
  <2>7. ~InCall(f)'
    <3>1. \A v \in Workers : ~Resumes(v, f)'
      BY <1>0, <1>7, <2>4 DEF ResumeSync, Resumes
    <3>. QED BY <1>7, <2>2, <2>3, <2>5, <2>6, <3>1 DEF ResumeSync, loop, InCall, Resumes
  <2>8. frames[f] = 1
    BY <1>7, <2>0 DEF ResumeSync, InCall, Framed, FrameDiscipline
  <2>9. ASSUME NEW g \in Fibers \ {f} PROVE frames'[g] = frames[g] /\ InCall(g)' = InCall(g)
    <3>1. \A v \in Workers : Resumes(v, g)' = Resumes(v, g)
      BY <1>0, <1>7, <2>0 DEF ResumeSync, Resumes
    <3>2. frames'[g] = frames[g] /\ UNCHANGED <<timers, expired, callback>>
      BY <1>0, <1>7, <2>0 DEF ResumeSync, loop
    <3>. QED BY <2>6, <3>1, <3>2 DEF InCall, Resumes
  <2>10. frames'[f] = 0
    BY <1>0, <1>7, <2>0, <2>8 DEF ResumeSync
  <2>11. FrameDiscipline'
    BY <1>a, <2>7, <2>9, <2>10
  <2>12. CallbackHeld'
    BY <1>0, <1>7 DEF ResumeSync, Framed, CallbackHeld
  <2>. QED BY <2>11, <2>12 DEF Framed
\* The callback publishes the fiber, which stays in its call, and is gone.
<1>8. ASSUME NEW w \in Workers, NEW f \in Fibers, f = wfib[w], wpc[w] = "post", Blocked(w),
             callback[f].kind # "none", f \in timers' \/ Waits(f)',
             \A g \in Fibers \ {f} :
               (Waits(g)' <=> Waits(g)) /\ (g \in timers' <=> g \in timers)
      PROVE  Framed'
  <2>1. UNCHANGED <<wfib, frames, expired>>
    BY <1>8 DEF Blocked
  <2>2. frames[f] = 1
    BY <1>8 DEF InCall, Framed, FrameDiscipline
  <2>3. InCall(f)'
    BY <1>8 DEF InCall
  <2>4. ASSUME NEW g \in Fibers \ {f} PROVE InCall(g)' = InCall(g)
    <3>1. callback'[g] = callback[g]
      BY <1>0, <1>8 DEF Blocked
    <3>2. \A v \in Workers : Resumes(v, g)' = Resumes(v, g)
      BY <1>0, <1>8 DEF Blocked, Resumes
    <3>. QED BY <1>8, <2>1, <3>1, <3>2 DEF InCall, Resumes
  <2>5. FrameDiscipline'
    BY <1>a, <2>1, <2>2, <2>3, <2>4
  <2>6. CallbackHeld'
    BY <1>0, <1>8 DEF Blocked, NoCallback, Framed, CallbackHeld
  <2>. QED BY <2>5, <2>6 DEF Framed
<1>9. ASSUME NEW w \in Workers, PostSleep(w) PROVE Framed'
  <2>0. PICK f \in Fibers : f = wfib[w]
    BY <1>0, <1>9 DEF PostSleep
  <2>1. \A g \in Fibers : Waits(g)' = Waits(g)
    BY <1>9 DEF PostSleep, chans, Waits, WaitsToSend, WaitsToRecv
  <2>. QED BY <1>8, <1>9, <2>0, <2>1 DEF PostSleep
<1>10. ASSUME NEW w \in Workers, NEW c \in Channels, BlockSend(w, c) PROVE Framed'
  <2>0. PICK f \in Fibers : f = wfib[w]
    BY <1>0, <1>10 DEF BlockSend
  <2>. DEFINE s == [fib |-> f, msg |-> <<f, ops[f]>>]
  <2>1. s \in Sending /\ s.fib = f
    BY <1>0 DEF Sending
  <2>2. \A g \in Fibers : Waits(g)' <=> Waits(g) \/ g = f
    BY <1>0, <1>10, <2>0, <2>1, SenderWaits DEF BlockSend
  <2>3. callback[f].kind # "none" /\ wpc[w] = "post" /\ Blocked(w) /\ timers' = timers
    BY <1>10, <2>0 DEF BlockSend
  <2>4. f \in timers' \/ Waits(f)'
    BY <2>2
  <2>5. \A g \in Fibers \ {f} : (Waits(g)' <=> Waits(g)) /\ (g \in timers' <=> g \in timers)
    BY <2>2, <2>3, Zenon
  <2>. QED BY <1>8, <2>0, <2>3, <2>4, <2>5
<1>11. ASSUME NEW w \in Workers, NEW c \in Channels, BlockRecv(w, c) PROVE Framed'
  <2>0. PICK f \in Fibers : f = wfib[w]
    BY <1>0, <1>11 DEF BlockRecv
  <2>2. \A g \in Fibers : Waits(g)' <=> Waits(g) \/ g = f
    BY <1>0, <1>11, <2>0, ReceiverWaits DEF BlockRecv
  <2>3. callback[f].kind # "none" /\ wpc[w] = "post" /\ Blocked(w) /\ timers' = timers
    BY <1>11, <2>0 DEF BlockRecv
  <2>4. f \in timers' \/ Waits(f)'
    BY <2>2
  <2>5. \A g \in Fibers \ {f} : (Waits(g)' <=> Waits(g)) /\ (g \in timers' <=> g \in timers)
    BY <2>2, <2>3, Zenon
  <2>. QED BY <1>8, <2>0, <2>3, <2>4, <2>5
\* Both calls of a match end, and with them the frames.
<1>12. ASSUME NEW w \in Workers, NEW p \in Fibers, NEW mine, NEW theirs,
              wpc[w] = "post", callback[wfib[w]].kind # "none", Matched(w, p, mine, theirs),
              Waits(p), ~Waits(p)', \A g \in Fibers \ {p} : Waits(g)' <=> Waits(g)
       PROVE  Framed'
  <2>0. PICK f \in Fibers : f = wfib[w]
    BY <1>0, <1>12
  <2>1. Holds(w, f)
    BY <1>12, <2>0 DEF Holds, Executes
  <2>2. InLoop(f) = 0 /\ ~Waits(f) /\ \A v \in Workers : Holds(v, f) => v = w
    BY <2>1 DEF Placing, OneWakeup, HeldAlone
  <2>3. InLoop(p) = 0 /\ p # f /\ \A v \in Workers : ~Holds(v, p)
    BY <1>12, <2>2 DEF Placing, OneWakeup, LoopOnce, HeldAlone
  <2>4. callback[p].kind = "none"
    BY <2>3 DEF Framed, CallbackHeld, Holds, Executes
  <2>5. \A g \in {f, p} : g \notin timers /\ ~(expired[g] > 0)
    BY <1>0, <2>2, <2>3 DEF InLoop
  <2>6. \A v \in Workers : ~Resumes(v, p) /\ ~Resumes(v, f)
    BY <1>12, <2>2, <2>3 DEF Resumes, Holds, Taken, Executes
  <2>7. \A v \in Workers, g \in Fibers : Resumes(v, g)' = Resumes(v, g)
    BY <1>0, <1>12 DEF Matched, Resumes
  <2>8. UNCHANGED <<timers, expired, wfib>>
    BY <1>12 DEF Matched
  <2>9. callback'[f].kind = "none" /\ \A g \in Fibers \ {f} : callback'[g] = callback[g]
    BY <1>0, <1>12, <2>0 DEF Matched, NoCallback
  <2>10. ~InCall(f)' /\ ~InCall(p)'
    <3>1. ~Waits(f)'
      BY <1>12, <2>2, <2>3
    <3>. QED BY <1>12, <2>4, <2>5, <2>6, <2>7, <2>8, <2>9, <2>3, <3>1 DEF InCall, Resumes
  <2>11. frames[f] = 1 /\ frames[p] = 1
    BY <1>12, <2>0 DEF InCall, Framed, FrameDiscipline
  <2>12. frames'[f] = 0 /\ frames'[p] = 0 /\ \A g \in Fibers \ {f, p} : frames'[g] = frames[g]
    BY <1>0, <1>12, <2>0, <2>3, <2>11 DEF Matched
  <2>13. \A g \in Fibers \ {f, p} : InCall(g)' = InCall(g)
    BY <1>12, <2>7, <2>8, <2>9 DEF InCall, Resumes
  <2>14. FrameDiscipline'
    BY <2>10, <2>12, <2>13 DEF Framed, FrameDiscipline
  <2>15. CallbackHeld'
    BY <1>0, <1>12, <2>0, <2>8, <2>9 DEF Matched, Framed, CallbackHeld
  <2>. QED BY <2>14, <2>15 DEF Framed
<1>13. ASSUME NEW w \in Workers, NEW c \in Channels, MatchSend(w, c) PROVE Framed'
  <2>. DEFINE p == Head(receivers[c])
  <2>1. p \in Fibers /\ Waits(p) /\ \A g \in Fibers : Waits(g)' => g # p
    BY <1>0, <1>13, UnqueueReceiver DEF MatchSend, Placing, OneWakeup
  <2>2. \A g \in Fibers : Waits(g) <=> Waits(g)' \/ g = p
    BY <1>0, <1>13, ReceiverLeaves DEF MatchSend
  <2>3. wpc[w] = "post" /\ callback[wfib[w]].kind # "none"
    BY <1>13 DEF MatchSend
  <2>4. \E mine, theirs : Matched(w, p, mine, theirs)
    BY <1>13 DEF MatchSend
  <2>. HIDE DEF p
  <2>5. \A g \in Fibers \ {p} : Waits(g)' <=> Waits(g)
    BY <2>2, Zenon
  <2>. QED BY <1>12, <2>1, <2>3, <2>4, <2>5
<1>14. ASSUME NEW w \in Workers, NEW c \in Channels, MatchRecv(w, c) PROVE Framed'
  <2>. DEFINE p == Head(senders[c]).fib
  <2>1. p \in Fibers /\ Waits(p) /\ \A g \in Fibers : Waits(g)' => g # p
    BY <1>0, <1>14, UnqueueSender DEF MatchRecv, Placing, OneWakeup
  <2>2. \A g \in Fibers : Waits(g) <=> Waits(g)' \/ g = p
    BY <1>0, <1>14, SenderLeaves DEF MatchRecv
  <2>3. wpc[w] = "post" /\ callback[wfib[w]].kind # "none"
    BY <1>14 DEF MatchRecv
  <2>4. \E mine, theirs : Matched(w, p, mine, theirs)
    BY <1>14 DEF MatchRecv
  <2>. HIDE DEF p
  <2>5. \A g \in Fibers \ {p} : Waits(g)' <=> Waits(g)
    BY <2>2, Zenon
  <2>. QED BY <1>12, <2>1, <2>3, <2>4, <2>5
<1>15. ASSUME NEW w \in Workers, NEW f \in Fibers, TakePosted(w, f) PROVE Framed'
  BY <1>0, <1>15, CallsStay DEF TakePosted, Resumes
\* The wakeup of a sleeping fiber moves from its timer to a worker.
<1>16. ASSUME NEW f \in Fibers, UNCHANGED <<frames, callback, chans>>, InCall(f), InCall(f)',
              \A g \in Fibers \ {f} :
                /\ (g \in timers' <=> g \in timers) /\ expired'[g] = expired[g]
                /\ \A v \in Workers : Resumes(v, g)' = Resumes(v, g)
       PROVE  FrameDiscipline'
  <2>1. \A g \in Fibers : Waits(g)' = Waits(g)
    BY <1>16 DEF chans, Waits, WaitsToSend, WaitsToRecv
  <2>2. \A g \in Fibers \ {f} : InCall(g)' = InCall(g)
    BY <1>16, <2>1 DEF InCall, Resumes
  <2>. QED BY <1>16, <2>2 DEF Framed, FrameDiscipline
<1>17. ASSUME NEW w \in Workers, NEW f \in Fibers, TakeExpired(w, f) PROVE Framed'
  <2>1. InCall(f) /\ InCall(f)'
    BY <1>0, <1>17 DEF TakeExpired, InCall
  <2>2. \A g \in Fibers \ {f} :
          expired'[g] = expired[g] /\ \A v \in Workers : Resumes(v, g)' = Resumes(v, g)
    BY <1>0, <1>17 DEF TakeExpired, Resumes
  <2>3. UNCHANGED <<frames, callback, chans, timers>>
    BY <1>17 DEF TakeExpired
  <2>4. FrameDiscipline'
    BY <1>16, <2>1, <2>2, <2>3
  <2>5. CallbackHeld'
    BY <1>0, <1>17 DEF TakeExpired, Framed, CallbackHeld
  <2>. QED BY <2>4, <2>5 DEF Framed
<1>18. ASSUME NEW f \in Fibers, TimerExpires(f) PROVE Framed'
  <2>1. InCall(f) /\ InCall(f)'
    BY <1>0, <1>18 DEF TimerExpires, InCall
  <2>2. \A g \in Fibers \ {f} :
          /\ (g \in timers' <=> g \in timers) /\ expired'[g] = expired[g]
          /\ \A v \in Workers : Resumes(v, g)' = Resumes(v, g)
    BY <1>0, <1>18 DEF TimerExpires, Resumes
  <2>3. UNCHANGED <<frames, callback, chans>>
    BY <1>18 DEF TimerExpires
  <2>4. FrameDiscipline'
    BY <1>16, <2>1, <2>2, <2>3
  <2>5. CallbackHeld'
    BY <1>18 DEF TimerExpires, Framed, CallbackHeld
  <2>. QED BY <2>4, <2>5 DEF Framed
<1>19. CASE UNCHANGED vars
  BY <1>19, CallsStay DEF vars, loop, Resumes
<1>20. ASSUME NEW w \in Workers, Program(w) PROVE Framed'
  BY <1>1, <1>2, <1>3, <1>20 DEF Program, CallSend, CallRecv, CallSleep, Callback
<1>21. ASSUME NEW w \in Workers, Trampoline(w) PROVE Framed'
  BY <1>4, <1>5, <1>6, <1>7, <1>9, <1>10, <1>11, <1>13, <1>14, <1>21 DEF Trampoline
<1>. QED
  BY <1>15, <1>17, <1>18, <1>19, <1>20, <1>21 DEF Next

LEMMA InitFramed == Init => Framed
<1>. SUFFICES ASSUME Init PROVE Framed
  OBVIOUS
<1>0. \A c \in Channels : DOMAIN senders[c] = {} /\ DOMAIN receivers[c] = {}
  BY DEF Init
<1>1. \A f \in Fibers : ~Waits(f)
  BY <1>0 DEF Waits, WaitsToSend, WaitsToRecv
<1>2. \A f \in Fibers : callback[f].kind = "none"
  BY DEF Init, NoCallback
<1>a. \A f \in Fibers : f \notin timers /\ expired[f] = 0
  BY DEF Init
<1>b. \A w \in Workers : wpc[w] = "idle"
  BY DEF Init
<1>3. ASSUME NEW f \in Fibers PROVE ~InCall(f)
  <2>1. ~(expired[f] > 0)
    BY <1>a
  <2>2. \A w \in Workers : wpc[w] # "sync" /\ wpc[w] # "attach_sync"
    BY <1>b
  <2>. QED BY <1>1, <1>2, <1>a, <2>1, <2>2, Zenon DEF InCall
<1>. QED BY <1>2, <1>3 DEF Init, Framed, FrameDiscipline, CallbackHeld

(***************************************************************************)
(* pop_frame takes exactly the frames blocking calls have left: at every   *)
(* moment a fiber has one such frame if it is in a blocking call and none  *)
(* otherwise.                                                              *)
(***************************************************************************)
THEOREM FramesBalanced == Spec => []FrameDiscipline
<1>1. Framed => FrameDiscipline
  BY DEF Framed
<1>. QED
  BY <1>1, InitTyped, NextTyped, InitLocking, NextLocking, InitPlacing, NextPlacing,
     InitFramed, NextFramed, PTL DEF Spec
-----------------------------------------------------------------------------
(***************************************************************************)
(* Messages and their results.                                             *)
(***************************************************************************)

\* A message whose operation has not started has no result.
ResultsOld ==
  \A g \in Fibers : \A i \in DOMAIN results[g] :
    results[g][i].msg[2] <= ops[results[g][i].msg[1]]

\* A sender that waits offers the message of its current operation.
SendersCurrent ==
  \A c \in Channels : \A i \in DOMAIN senders[c] :
    senders[c][i].msg = <<senders[c][i].fib, ops[senders[c][i].fib]>>

\* The send of f has not met its receiver.
Sends(f) == WaitsToSend(f) \/ callback[f].kind = "send"

\* As long as it has not, its message has no result.
Unsettled ==
  \A f \in Fibers : Sends(f) =>
    \A g \in Fibers : \A i \in DOMAIN results[g] : results[g][i].msg # <<f, ops[f]>>

Settling == ResultsOld /\ SendersCurrent /\ Unsettled /\ ExactlyOnce

\* The places of a result in histories rs, and ExactlyOnce of them.
Places(rs, op, m) ==
  {p \in UNION {{g} \X DOMAIN rs[g] : g \in Fibers} : rs[p[1]][p[2]] = [op |-> op, msg |-> m]}

OnceIn(rs) ==
  \A m \in Msgs :
    /\ \A p, q \in Places(rs, "recv", m) : p = q
    /\ Places(rs, "send", m) = {} <=> Places(rs, "recv", m) = {}
    /\ \A p \in Places(rs, "send", m) : p[1] = m[1]

LEMMA OncePlaces == (ExactlyOnce <=> OnceIn(results)) /\ (ExactlyOnce' <=> OnceIn(results'))
  BY DEF ExactlyOnce, Results, OnceIn, Places

LEMMA PlacesAt ==
  ASSUME NEW rs, NEW op, NEW m, NEW q
  PROVE  q \in Places(rs, op, m) <=>
           \E g \in Fibers : \E i \in DOMAIN rs[g] :
             q = <<g, i>> /\ rs[g][i] = [op |-> op, msg |-> m]
<1>1. q \in UNION {{g} \X DOMAIN rs[g] : g \in Fibers} <=>
        \E g \in Fibers : \E i \in DOMAIN rs[g] : q = <<g, i>>
  OBVIOUS
<1>2. \A g, i : <<g, i>>[1] = g /\ <<g, i>>[2] = i
  OBVIOUS
<1>. QED BY <1>1, <1>2 DEF Places

\* Histories new are rs with both results of a message m that had none.
BothAdded(rs, new, s, ls, sent, r, lr, got, m) ==
  /\ sent = [op |-> "send", msg |-> m] /\ got = [op |-> "recv", msg |-> m]
  /\ ls \in DOMAIN new[s] /\ new[s][ls] = sent
  /\ lr \in DOMAIN new[r] /\ new[r][lr] = got
  /\ \A g \in Fibers : \A i \in DOMAIN new[g] :
       \/ i \in DOMAIN rs[g] /\ new[g][i] = rs[g][i]
       \/ g = s /\ i = ls /\ new[g][i] = sent
       \/ g = r /\ i = lr /\ new[g][i] = got
  /\ \A g \in Fibers : \A i \in DOMAIN rs[g] :
       i \in DOMAIN new[g] /\ new[g][i] = rs[g][i] /\ rs[g][i].msg # m

LEMMA OnceMore ==
  ASSUME NEW rs, NEW new, NEW s \in Fibers, NEW r \in Fibers, NEW m, m[1] = s,
         NEW ls, NEW lr, NEW sent, NEW got, OnceIn(rs),
         BothAdded(rs, new, s, ls, sent, r, lr, got, m)
  PROVE  OnceIn(new)
<1>. USE DEF BothAdded
<1>1. \A g \in Fibers : \A i \in DOMAIN rs[g] : rs[g][i] # sent /\ rs[g][i] # got
  OBVIOUS
<1>2. sent # got
  OBVIOUS
<1>3. \A op, k, q : q \in Places(new, op, k) <=>
        \E g \in Fibers : \E i \in DOMAIN new[g] :
          q = <<g, i>> /\ new[g][i] = [op |-> op, msg |-> k]
  BY PlacesAt
<1>4. \A q : q \in Places(new, "send", m) <=> q = <<s, ls>>
  <2>1. \A q : q \in Places(new, "send", m) <=> \E g \in Fibers : \E i \in DOMAIN new[g] :
                 q = <<g, i>> /\ new[g][i] = sent
    BY <1>3
  <2>2. \A g \in Fibers : \A i \in DOMAIN new[g] : new[g][i] = sent <=> g = s /\ i = ls
    BY <1>1, <1>2
  <2>. QED BY <2>1, <2>2
<1>5. \A q : q \in Places(new, "recv", m) <=> q = <<r, lr>>
  <2>1. \A q : q \in Places(new, "recv", m) <=> \E g \in Fibers : \E i \in DOMAIN new[g] :
                 q = <<g, i>> /\ new[g][i] = got
    BY <1>3
  <2>2. \A g \in Fibers : \A i \in DOMAIN new[g] : new[g][i] = got <=> g = r /\ i = lr
    BY <1>1, <1>2
  <2>. QED BY <2>1, <2>2
<1>6. ASSUME NEW k \in Msgs, k # m, NEW op PROVE Places(new, op, k) = Places(rs, op, k)
  <2>. DEFINE e == [op |-> op, msg |-> k]
  <2>1. e # sent /\ e # got
    BY <1>6
  <2>2. \A q : q \in Places(rs, op, k) <=> \E g \in Fibers : \E i \in DOMAIN rs[g] :
                 q = <<g, i>> /\ rs[g][i] = e
    BY PlacesAt
  <2>3. \A q : q \in Places(new, op, k) <=> \E g \in Fibers : \E i \in DOMAIN new[g] :
                 q = <<g, i>> /\ new[g][i] = e
    BY <1>3
  <2>. HIDE DEF e
  <2>4. \A q : q \in Places(new, op, k) <=> q \in Places(rs, op, k)
    BY <2>1, <2>2, <2>3
  <2>. QED BY <2>4
<1>. SUFFICES ASSUME NEW k \in Msgs
              PROVE  /\ \A p, q \in Places(new, "recv", k) : p = q
                     /\ Places(new, "send", k) = {} <=> Places(new, "recv", k) = {}
                     /\ \A p \in Places(new, "send", k) : p[1] = k[1]
  BY DEF OnceIn
<1>7. CASE k = m
  <2>1. <<s, ls>> \in Places(new, "send", k) /\ <<r, lr>> \in Places(new, "recv", k)
    BY <1>4, <1>5, <1>7
  <2>2. \A p, q \in Places(new, "recv", k) : p = q
    BY <1>5, <1>7
  <2>3. \A p \in Places(new, "send", k) : p[1] = k[1]
    BY <1>4, <1>7
  <2>. QED BY <2>1, <2>2, <2>3
<1>8. CASE k # m
  BY <1>6, <1>8 DEF OnceIn
<1>. QED BY <1>7, <1>8

(***************************************************************************)
(* A send meets its receiver: both get the result of the message, which    *)
(* had none.                                                               *)
(***************************************************************************)
LEMMA Settled ==
  ASSUME Typed, Settling, NEW s \in Fibers, NEW r \in Fibers, s # r, Sends(s), NEW m,
         m = <<s, ops[s]>>,
         results'[s] = Append(results[s], [op |-> "send", msg |-> m]),
         results'[r] = Append(results[r], [op |-> "recv", msg |-> m]),
         \A g \in Fibers \ {s, r} : results'[g] = results[g],
         ops' = ops,
         \A g \in Fibers : Sends(g)' => Sends(g) /\ g # s
  PROVE  ResultsOld' /\ Unsettled' /\ ExactlyOnce'
<1>. DEFINE sent == [op |-> "send", msg |-> m]
            got == [op |-> "recv", msg |-> m]
            ls == Len(results[s]) + 1
            lr == Len(results[r]) + 1
<1>1. results \in [Fibers -> Seq(Result)] /\ ops \in [Fibers -> Nat]
  BY DEF Typed, TypeOK, OpCounts
<1>2. m \in Msgs /\ sent \in Result /\ got \in Result
  BY MsgsTyped DEF Typed, Result
<1>3. /\ ls \in DOMAIN results'[s] /\ results'[s][ls] = sent
      /\ \A i \in DOMAIN results'[s] : i = ls \/ i \in DOMAIN results[s]
      /\ \A i \in DOMAIN results[s] : i \in DOMAIN results'[s] /\ results'[s][i] = results[s][i]
  <2>1. results[s] \in Seq(Result)
    BY <1>1
  <2>. QED BY <1>2, <2>1, AppendEntries, LenProperties
<1>4. /\ lr \in DOMAIN results'[r] /\ results'[r][lr] = got
      /\ \A i \in DOMAIN results'[r] : i = lr \/ i \in DOMAIN results[r]
      /\ \A i \in DOMAIN results[r] : i \in DOMAIN results'[r] /\ results'[r][i] = results[r][i]
  <2>1. results[r] \in Seq(Result)
    BY <1>1
  <2>. QED BY <1>2, <2>1, AppendEntries, LenProperties
<1>. HIDE DEF sent, got, ls, lr
<1>5. \A g \in Fibers : \A i \in DOMAIN results'[g] :
        \/ i \in DOMAIN results[g] /\ results'[g][i] = results[g][i]
        \/ g = s /\ i = ls /\ results'[g][i] = sent
        \/ g = r /\ i = lr /\ results'[g][i] = got
  BY <1>3, <1>4
<1>6. \A g \in Fibers : \A i \in DOMAIN results[g] :
        i \in DOMAIN results'[g] /\ results'[g][i] = results[g][i]
  BY <1>3, <1>4
<1>7. sent.msg = m /\ got.msg = m /\ sent.op = "send" /\ got.op = "recv"
  BY DEF sent, got
<1>8. ResultsOld'
  <2>. SUFFICES ASSUME NEW g \in Fibers, NEW i \in DOMAIN results'[g]
                PROVE  results'[g][i].msg[2] <= ops[results'[g][i].msg[1]]
    BY DEF ResultsOld
  <2>1. m[2] <= ops[m[1]]
    BY <1>1
  <2>2. CASE i \in DOMAIN results[g] /\ results'[g][i] = results[g][i]
    BY <2>2 DEF Settling, ResultsOld
  <2>3. CASE results'[g][i].msg = m
    BY <2>1, <2>3
  <2>. QED BY <1>5, <1>7, <2>2, <2>3
<1>9. Unsettled'
  BY <1>5, <1>7 DEF Settling, Unsettled
<1>10. \A g \in Fibers : \A i \in DOMAIN results[g] : results[g][i].msg # m
  BY DEF Settling, Unsettled
<1>11. OnceIn(results')
  <2>1. m[1] = s /\ OnceIn(results)
    BY OncePlaces DEF Settling
  <2>2. \A g \in Fibers : \A i \in DOMAIN results[g] :
          i \in DOMAIN results'[g] /\ results'[g][i] = results[g][i] /\ results[g][i].msg # m
    BY <1>6, <1>10
  <2>3. sent = [op |-> "send", msg |-> m] /\ got = [op |-> "recv", msg |-> m]
    BY DEF sent, got
  <2>4. ls \in DOMAIN results'[s] /\ results'[s][ls] = sent
    BY <1>3
  <2>5. lr \in DOMAIN results'[r] /\ results'[r][lr] = got
    BY <1>4
  <2>6. BothAdded(results, results', s, ls, sent, r, lr, got, m)
    BY <1>5, <2>2, <2>3, <2>4, <2>5 DEF BothAdded
  <2>. QED BY <2>1, <2>6, OnceMore
<1>. QED BY <1>8, <1>9, <1>11, OncePlaces

\* A step that gives no results and starts no operation.
LEMMA NothingSettled ==
  ASSUME Settling, UNCHANGED <<results, ops>>, SendersCurrent',
         \A f \in Fibers : Sends(f)' => Sends(f)
  PROVE  Settling'
<1>1. ExactlyOnce'
  BY OncePlaces DEF Settling
<1>2. ResultsOld' /\ Unsettled'
  BY DEF Settling, ResultsOld, Unsettled
<1>. QED BY <1>1, <1>2 DEF Settling

LEMMA SendersStay ==
  ASSUME Settling, UNCHANGED <<results, ops, senders>>,
         \A f \in Fibers : callback'[f].kind = "send" => callback[f].kind = "send"
  PROVE  Settling'
<1>1. SendersCurrent'
  BY DEF Settling, SendersCurrent
<1>2. \A f \in Fibers : Sends(f)' => Sends(f)
  BY DEF Sends, WaitsToSend
<1>. QED BY <1>1, <1>2, NothingSettled

LEMMA NextSettling == Typed /\ Placing /\ Framed /\ Settling /\ [Next]_vars => Settling'
<1>. SUFFICES ASSUME Typed, Placing, Framed, Settling, [Next]_vars PROVE Settling'
  OBVIOUS
<1>0. /\ wpc \in [Workers -> PCs]
      /\ \A w \in Workers : wpc[w] \notin {"idle", "done"} => wfib[w] \in Fibers
      /\ callback \in [Fibers -> Callback] /\ ops \in [Fibers -> Nat]
      /\ senders \in [Channels -> Seq(Sending)] /\ receivers \in [Channels -> Seq(Fibers)]
      /\ results \in [Fibers -> Seq(Result)]
      /\ \A f \in Fibers : <<f, ops[f]>> \in Msgs
  BY MsgsTyped DEF Typed, TypeOK, HasFiber, OpCounts
<1>. USE DEF PCs
<1>1. ASSUME UNCHANGED <<results, ops, senders, callback>> PROVE Settling'
  BY <1>1, SendersStay
\* A new operation has a message no result and no other send has.
<1>2. ASSUME NEW w \in Workers, NEW call \in Callback, Block(w, call) PROVE Settling'
  <2>0. PICK f \in Fibers : f = wfib[w]
    BY <1>0, <1>2 DEF Block
  <2>1. ~Waits(f)
    BY <1>2, <2>0 DEF Block, Holds, Executes, Placing, OneWakeup, HeldAlone
  <2>2. /\ ops'[f] = ops[f] + 1 /\ \A g \in Fibers \ {f} : ops'[g] = ops[g]
        /\ \A g \in Fibers \ {f} : callback'[g] = callback[g]
        /\ UNCHANGED <<results, senders>>
    BY <1>0, <1>2, <2>0 DEF Block, chans
  <2>3. SendersCurrent'
    <3>1. \A c \in Channels : \A i \in DOMAIN senders[c] :
            senders[c][i].fib \in Fibers /\ senders[c][i].fib # f
      <4>1. \A c \in Channels : \A i \in DOMAIN senders[c] : senders[c][i] \in Sending
        BY <1>0
      <4>. QED BY <2>1, <4>1 DEF Waits, WaitsToSend, Sending
    <3>. QED BY <2>2, <3>1 DEF Settling, SendersCurrent
  <2>4. \A g \in Fibers : \A i \in DOMAIN results[g] : results[g][i].msg[1] \in Fibers
    <3>1. \A m \in Msgs : m[1] \in Fibers
      BY DEF Msgs
    <3>2. \A g \in Fibers : \A i \in DOMAIN results[g] : results[g][i] \in Result
      BY <1>0
    <3>. QED BY <3>1, <3>2 DEF Result
  <2>5. ResultsOld'
    <3>. SUFFICES ASSUME NEW g \in Fibers, NEW i \in DOMAIN results[g]
                  PROVE  results[g][i].msg[2] <= ops'[results[g][i].msg[1]]
      BY <2>2 DEF ResultsOld
    <3>0. ASSUME NEW k \in Fibers
          PROVE  ops[k] \in Nat /\ ops'[k] \in Nat /\ ops[k] <= ops'[k]
      <4>1. ops[k] \in Nat
        BY <1>0
      <4>2. CASE k = f
        BY <2>2, <4>1, <4>2
      <4>3. CASE k # f
        BY <2>2, <4>1, <4>3
      <4>. QED BY <4>2, <4>3
    <3>. DEFINE m == results[g][i].msg
    <3>1. m \in Msgs
      <4>1. results[g][i] \in Result
        BY <1>0
      <4>. QED BY <4>1 DEF Result
    <3>2. m[1] \in Fibers /\ m[2] \in Nat
      BY <3>1, SchedulerAssumption DEF Msgs
    <3>3. m[2] <= ops[m[1]]
      BY DEF Settling, ResultsOld
    <3>. HIDE DEF m
    <3>4. m[2] <= ops'[m[1]]
      BY <3>0, <3>2, <3>3
    <3>. QED BY <3>4 DEF m
  <2>6. Unsettled'
    <3>. SUFFICES ASSUME NEW h \in Fibers, Sends(h)', NEW g \in Fibers, NEW i \in DOMAIN results[g]
                  PROVE  results[g][i].msg # <<h, ops'[h]>>
      BY <2>2 DEF Unsettled
    <3>1. CASE h = f
      <4>1. results[g][i].msg[2] <= ops[results[g][i].msg[1]]
        BY DEF Settling, ResultsOld
      <4>. QED BY <1>0, <2>2, <3>1, <4>1
    <3>2. CASE h # f
      <4>1. Sends(h)
        BY <2>2, <3>2 DEF Sends, WaitsToSend
      <4>. QED BY <2>2, <3>2, <4>1 DEF Settling, Unsettled
    <3>. QED BY <3>1, <3>2
  <2>7. ExactlyOnce'
    BY <2>2, OncePlaces DEF Settling
  <2>. QED BY <2>3, <2>5, <2>6, <2>7 DEF Settling
<1>3. ASSUME NEW w \in Workers, PostSleep(w) PROVE Settling'
  <2>1. \A f \in Fibers : callback'[f].kind = "send" => callback[f].kind = "send"
    BY <1>0, <1>3 DEF PostSleep, Blocked, NoCallback
  <2>. QED BY <1>3, <2>1, SendersStay DEF PostSleep, Blocked, chans, life
<1>4. ASSUME NEW w \in Workers, NEW c \in Channels, BlockRecv(w, c) PROVE Settling'
  <2>1. \A f \in Fibers : callback'[f].kind = "send" => callback[f].kind = "send"
    BY <1>0, <1>4 DEF BlockRecv, Blocked, NoCallback
  <2>. QED BY <1>4, <2>1, SendersStay DEF BlockRecv, Blocked, life
<1>5. ASSUME NEW w \in Workers, NEW c \in Channels, BlockSend(w, c) PROVE Settling'
  <2>0. PICK f \in Fibers : f = wfib[w]
    BY <1>0, <1>5 DEF BlockSend
  <2>. DEFINE s == [fib |-> f, msg |-> <<f, ops[f]>>]
  <2>1. s \in Sending /\ s.fib = f /\ s.msg = <<f, ops[f]>>
    BY <1>0 DEF Sending
  <2>2. \A x : In(senders'[c], x) <=> In(senders[c], x) \/ x = s
    <3>1. senders[c] \in Seq(Sending) /\ senders'[c] = Append(senders[c], s)
      BY <1>0, <1>5, <2>0 DEF BlockSend
    <3>. HIDE DEF s
    <3>. QED BY <2>1, <3>1, InAppend
  <2>3. /\ \A d \in Channels \ {c} : senders'[d] = senders[d]
        /\ callback[f].kind = "send" /\ UNCHANGED <<results, ops>>
    BY <1>0, <1>5, <2>0 DEF BlockSend, Blocked, life
  <2>. HIDE DEF s
  <2>4. \A d \in Channels : \A x : In(senders'[d], x) => In(senders[d], x) \/ x = s
    BY <2>2, <2>3, Zenon
  <2>5. \A d \in Channels : \A x : In(senders[d], x) => x.msg = <<x.fib, ops[x.fib]>>
    BY DEF Settling, SendersCurrent, In
  <2>6. SendersCurrent'
    <3>1. \A d \in Channels : \A x : In(senders'[d], x) => x.msg = <<x.fib, ops[x.fib]>>
      BY <2>1, <2>4, <2>5
    <3>2. \A d \in Channels : \A i \in DOMAIN senders'[d] : In(senders'[d], senders'[d][i])
      BY DEF In
    <3>. QED BY <2>3, <3>1, <3>2 DEF SendersCurrent
  <2>7. ASSUME NEW g \in Fibers, Sends(g)' PROVE Sends(g)
    <3>1. CASE callback'[g].kind = "send"
      BY <1>0, <1>5, <3>1 DEF BlockSend, Blocked, NoCallback, Sends
    <3>2. CASE WaitsToSend(g)'
      <4>1. PICK d \in Channels : \E i \in DOMAIN senders'[d] : senders'[d][i].fib = g
        BY <3>2 DEF WaitsToSend
      <4>2. PICK x : In(senders'[d], x) /\ x.fib = g
        BY <4>1 DEF In
      <4>3. CASE In(senders[d], x)
        BY <4>2, <4>3 DEF In, Sends, WaitsToSend
      <4>4. CASE x = s
        BY <2>1, <2>3, <4>2, <4>4 DEF Sends
      <4>. QED BY <2>4, <4>2, <4>3, <4>4
    <3>. QED BY <2>7, <3>1, <3>2 DEF Sends
  <2>. QED BY <2>3, <2>6, <2>7, NothingSettled
\* The queues after a match.
<1>6. ASSUME NEW w \in Workers, NEW c \in Channels, MatchSend(w, c) PROVE Settling'
  <2>0. PICK f \in Fibers : f = wfib[w]
    BY <1>0, <1>6 DEF MatchSend
  <2>. DEFINE p == Head(receivers[c])
              m == <<f, ops[f]>>
  <2>1. p \in Fibers /\ Waits(p) /\ \A g \in Fibers : Waits(g)' => g # p
    BY <1>0, <1>6, UnqueueReceiver DEF MatchSend, Placing, OneWakeup
  <2>2. ~Waits(f)
    BY <1>6, <2>0 DEF MatchSend, Holds, Executes, Placing, OneWakeup, HeldAlone
  <2>3. p # f
    BY <2>1, <2>2
  <2>4. /\ results' = [results EXCEPT ![f] = Append(@, [op |-> "send", msg |-> m]),
                                      ![p] = Append(@, [op |-> "recv", msg |-> m])]
        /\ callback' = [callback EXCEPT ![f] = NoCallback]
        /\ ops' = ops /\ senders' = senders /\ callback[f].kind = "send"
    BY <1>6, <2>0 DEF MatchSend, Matched, life
  <2>5. SendersCurrent'
    BY <2>4 DEF Settling, SendersCurrent
  <2>6. \A g \in Fibers : Sends(g)' => Sends(g) /\ g # f
    <3>1. \A g \in Fibers : WaitsToSend(g)' <=> WaitsToSend(g)
      BY <2>4 DEF WaitsToSend
    <3>2. ~WaitsToSend(f)
      BY <2>2 DEF Waits
    <3>3. \A g \in Fibers : callback'[g].kind = "send" => callback[g].kind = "send" /\ g # f
      BY <1>0, <2>4 DEF NoCallback
    <3>. QED BY <3>1, <3>2, <3>3, Zenon DEF Sends
  <2>7. Sends(f)
    BY <2>4 DEF Sends
  <2>8. /\ results'[f] = Append(results[f], [op |-> "send", msg |-> m])
        /\ results'[p] = Append(results[p], [op |-> "recv", msg |-> m])
        /\ \A g \in Fibers \ {f, p} : results'[g] = results[g]
    BY <1>0, <2>1, <2>3, <2>4
  <2>. HIDE DEF p
  <2>9. ResultsOld' /\ Unsettled' /\ ExactlyOnce'
    BY <2>1, <2>3, <2>4, <2>6, <2>7, <2>8, Settled
  <2>. QED BY <2>5, <2>9 DEF Settling
<1>7. ASSUME NEW w \in Workers, NEW c \in Channels, MatchRecv(w, c) PROVE Settling'
  <2>0. PICK f \in Fibers : f = wfib[w]
    BY <1>0, <1>7 DEF MatchRecv
  <2>. DEFINE h == Head(senders[c])
              p == h.fib
              m == h.msg
  <2>1. p \in Fibers /\ Waits(p) /\ \A g \in Fibers : Waits(g)' => g # p
    BY <1>0, <1>7, UnqueueSender DEF MatchRecv, Placing, OneWakeup
  <2>2. ~Waits(f)
    BY <1>7, <2>0 DEF MatchRecv, Holds, Executes, Placing, OneWakeup, HeldAlone
  <2>3. p # f
    BY <2>1, <2>2
  <2>4. /\ results' = [results EXCEPT ![f] = Append(@, [op |-> "recv", msg |-> m]),
                                      ![p] = Append(@, [op |-> "send", msg |-> m])]
        /\ callback' = [callback EXCEPT ![f] = NoCallback]
        /\ ops' = ops /\ senders' = [senders EXCEPT ![c] = Tail(@)] /\ senders[c] # <<>>
    BY <1>7, <2>0 DEF MatchRecv, Matched, life
  <2>a. /\ senders[c] \in Seq(Sending) /\ senders'[c] = Tail(senders[c])
        /\ \A d \in Channels \ {c} : senders'[d] = senders[d]
    BY <1>0, <2>4
  <2>b. \A d \in Channels : \A x : In(senders'[d], x) => In(senders[d], x)
    <3>1. \A x : In(senders'[c], x) => In(senders[c], x)
      BY <2>4, <2>a, InTail
    <3>. QED BY <2>a, <3>1, Zenon
  <2>c. In(senders[c], h)
    BY <2>4, <2>a, InTail
  <2>d. \A d \in Channels : \A x : In(senders[d], x) => x.msg = <<x.fib, ops[x.fib]>>
    BY DEF Settling, SendersCurrent, In
  <2>5. SendersCurrent'
    <3>1. \A d \in Channels : \A x : In(senders'[d], x) => x.msg = <<x.fib, ops[x.fib]>>
      BY <2>b, <2>d
    <3>2. \A d \in Channels : \A i \in DOMAIN senders'[d] : In(senders'[d], senders'[d][i])
      BY DEF In
    <3>. QED BY <2>4, <3>1, <3>2 DEF SendersCurrent
  <2>6. \A g \in Fibers : Sends(g)' => Sends(g) /\ g # p
    <3>1. \A g \in Fibers : WaitsToSend(g)' => WaitsToSend(g)
      <4>1. \A g \in Fibers : WaitsToSend(g)' => \E d \in Channels : \E x : In(senders'[d], x) /\ x.fib = g
        BY DEF WaitsToSend, In
      <4>2. \A g \in Fibers : (\E d \in Channels : \E x : In(senders[d], x) /\ x.fib = g) => WaitsToSend(g)
        BY DEF WaitsToSend, In
      <4>. QED BY <2>b, <4>1, <4>2, Zenon
    <3>2. \A g \in Fibers : WaitsToSend(g)' => g # p
      BY <2>1 DEF Waits
    <3>3. callback[p].kind = "none"
      <4>1. \A v \in Workers : ~Holds(v, p)
        BY <2>1 DEF Placing, OneWakeup, HeldAlone
      <4>. QED BY <2>1, <4>1 DEF Framed, CallbackHeld, Holds, Executes
    <3>4. \A g \in Fibers : callback'[g].kind = "send" => callback[g].kind = "send" /\ g # p
      BY <1>0, <2>4, <3>3 DEF NoCallback
    <3>. QED BY <3>1, <3>2, <3>4, Zenon DEF Sends
  <2>7. Sends(p) /\ m = <<p, ops[p]>>
    BY <2>c, <2>d DEF Sends, WaitsToSend, In
  <2>8. /\ results'[p] = Append(results[p], [op |-> "send", msg |-> m])
        /\ results'[f] = Append(results[f], [op |-> "recv", msg |-> m])
        /\ \A g \in Fibers \ {p, f} : results'[g] = results[g]
    BY <1>0, <2>1, <2>3, <2>4
  <2>. HIDE DEF p, m
  <2>9. ResultsOld' /\ Unsettled' /\ ExactlyOnce'
    BY <2>1, <2>3, <2>4, <2>6, <2>7, <2>8, Settled
  <2>. QED BY <2>5, <2>9 DEF Settling
<1>8. ASSUME NEW w \in Workers, Program(w) PROVE Settling'
  <2>1. ASSUME NEW f \in Fibers, Spawn(w, f) PROVE Settling'
    BY <1>1, <2>1 DEF Spawn, chans
  <2>2. CASE Leave(w)
    BY <1>1, <2>2 DEF Leave, chans, life
  <2>. QED BY <1>2, <1>8, <2>1, <2>2 DEF Program, CallSend, CallRecv, CallSleep, Callback
<1>9. ASSUME NEW w \in Workers,
             \/ AttachPosted(w) \/ AttachExpired(w) \/ ResumeSync(w) \/ Relock(w)
             \/ PostFinish(w) \/ Detach(w) \/ EndThread(w)
      PROVE  Settling'
  BY <1>1, <1>9 DEF AttachPosted, AttachExpired, Attach, ResumeSync, Relock, PostFinish,
                    Detach, EndThread, chans, life
<1>10. ASSUME NEW w \in Workers, Trampoline(w) PROVE Settling'
  BY <1>3, <1>4, <1>5, <1>6, <1>7, <1>9, <1>10 DEF Trampoline
<1>11. ASSUME NEW f \in Fibers,
              TimerExpires(f) \/ \E w \in Workers : TakePosted(w, f) \/ TakeExpired(w, f)
       PROVE  Settling'
  BY <1>1, <1>11 DEF TimerExpires, TakePosted, TakeExpired, chans, life
<1>12. CASE UNCHANGED vars
  BY <1>1, <1>12 DEF vars, chans, life
<1>. QED
  BY <1>8, <1>10, <1>11, <1>12 DEF Next

(***************************************************************************)
(* Every message is received at most once, and its send has its result     *)
(* exactly when it was received.                                           *)
(***************************************************************************)
THEOREM MessagesOnce == Spec => []ExactlyOnce
<1>1. Init => Settling
  <2>. SUFFICES ASSUME Init PROVE Settling
    OBVIOUS
  <2>1. \A f \in Fibers : DOMAIN results[f] = {}
    <3>1. \A f \in Fibers : results[f] = <<>>
      BY Zenon DEF Init
    <3>2. DOMAIN <<>> = {}
      OBVIOUS
    <3>. QED BY <3>1, <3>2, Zenon
  <2>2. \A c \in Channels : DOMAIN senders[c] = {}
    BY DEF Init
  <2>3. \A op, m : Places(results, op, m) = {}
    BY <2>1 DEF Places
  <2>4. ExactlyOnce
    BY <2>3, OncePlaces DEF OnceIn
  <2>. QED BY <2>1, <2>2, <2>4 DEF Settling, ResultsOld, SendersCurrent, Unsettled
<1>2. Settling => ExactlyOnce
  BY DEF Settling
<1>. QED
  BY <1>1, <1>2, InitTyped, NextTyped, InitLocking, NextLocking, InitPlacing, NextPlacing,
     InitFramed, NextFramed, NextSettling, PTL DEF Spec

-----------------------------------------------------------------------------
(***************************************************************************)
(* Module Scheduler implements module Rendezvous: every step of a worker,  *)
(* of a fiber's code or of the event loop is one step of the channels and  *)
(* fibers a program sees, or none.  The safety part of Promise is proved;  *)
(* its fairness is checked by TLC.                                         *)
(***************************************************************************)

(***************************************************************************)
(* Sequences, entry by entry.                                              *)
(***************************************************************************)
Mapped(f, s) == [i \in DOMAIN s |-> f[s[i]]]
Maps(f, S, T) == f \in [S -> T]

LEMMA IntervalsEqual ==
  ASSUME NEW m \in Nat, NEW n \in Nat, 1..m = 1..n
  PROVE  m = n
<1>1. CASE m = 0
  BY <1>1
<1>2. CASE m > n
  <2>1. m \in 1..m /\ m \notin 1..n
    BY <1>2
  <2>. QED BY <2>1
<1>3. CASE n > m
  <2>1. n \in 1..n /\ n \notin 1..m
    BY <1>3
  <2>. QED BY <2>1
<1>. QED BY <1>1, <1>2, <1>3

LEMMA MapSeq ==
  ASSUME NEW S, NEW T, NEW f, Maps(f, S, T), NEW s \in Seq(S)
  PROVE  /\ Mapped(f, s) \in Seq(T)
         /\ Len(Mapped(f, s)) = Len(s)
         /\ \A i \in 1..Len(s) : Mapped(f, s)[i] = f[s[i]]
<1>1. Len(s) \in Nat /\ DOMAIN s = 1..Len(s) /\ \A i \in 1..Len(s) : s[i] \in S
  BY LenProperties, ElementOfSeq
<1>2. Mapped(f, s) \in [1..Len(s) -> T] /\ \A i \in 1..Len(s) : Mapped(f, s)[i] = f[s[i]]
  BY <1>1 DEF Mapped, Maps
<1>3. Mapped(f, s) \in Seq(T)
  BY <1>1, <1>2, SeqDef
<1>4. Len(Mapped(f, s)) \in Nat /\ DOMAIN Mapped(f, s) = 1..Len(Mapped(f, s))
  BY <1>3, LenProperties
<1>5. 1..Len(Mapped(f, s)) = 1..Len(s)
  BY <1>2, <1>4
<1>. QED BY <1>1, <1>2, <1>3, <1>4, <1>5, IntervalsEqual

LEMMA MapEmpty ==
  ASSUME NEW f
  PROVE  Mapped(f, <<>>) = <<>>
  BY DEF Mapped

LEMMA MapAppend ==
  ASSUME NEW S, NEW T, NEW f, Maps(f, S, T), NEW s \in Seq(S), NEW e \in S
  PROVE  Mapped(f, Append(s, e)) = Append(Mapped(f, s), f[e])
<1>. DEFINE l == Mapped(f, Append(s, e))
            r == Append(Mapped(f, s), f[e])
            n == Len(s)
<1>0. \A t \in Seq(S) : /\ Mapped(f, t) \in Seq(T) /\ Len(Mapped(f, t)) = Len(t)
                       /\ \A i \in 1..Len(t) : Mapped(f, t)[i] = f[t[i]]
  BY MapSeq
<1>1. n \in Nat /\ Append(s, e) \in Seq(S) /\ Len(Append(s, e)) = n + 1
  BY LenProperties
<1>2. l \in Seq(T) /\ Len(l) = n + 1 /\ \A i \in 1..(n + 1) : l[i] = f[Append(s, e)[i]]
  BY <1>0, <1>1
<1>3. Mapped(f, s) \in Seq(T) /\ Len(Mapped(f, s)) = n /\ f[e] \in T
  BY <1>0 DEF Maps
<1>4. r \in Seq(T) /\ Len(r) = n + 1
  BY <1>3
<1>5. ASSUME NEW i \in 1..(n + 1) PROVE l[i] = r[i]
  <2>1. CASE i = n + 1
    <3>1. Append(s, e)[i] = e /\ r[i] = f[e]
      BY <1>1, <1>3, <2>1, AppendEntries
    <3>. QED BY <1>2, <3>1
  <2>2. CASE i # n + 1
    <3>1. i \in 1..n
      BY <1>1, <2>2
    <3>2. Append(s, e)[i] = s[i] /\ r[i] = Mapped(f, s)[i]
      BY <1>1, <1>3, <3>1, AppendEntries
    <3>. QED BY <1>0, <1>2, <3>1, <3>2
  <2>. QED BY <2>1, <2>2
<1>. HIDE DEF l, r, n
<1>6. l = r
  BY <1>2, <1>4, <1>5, SeqEqual
<1>. QED BY <1>6 DEF l, r

LEMMA MapTail ==
  ASSUME NEW S, NEW T, NEW f, Maps(f, S, T), NEW s \in Seq(S), s # <<>>
  PROVE  /\ Mapped(f, s) # <<>>
         /\ Head(Mapped(f, s)) = f[Head(s)]
         /\ Tail(Mapped(f, s)) = Mapped(f, Tail(s))
<1>. DEFINE m == Mapped(f, s)
            l == Tail(m)
            r == Mapped(f, Tail(s))
<1>0. \A t \in Seq(S) : /\ Mapped(f, t) \in Seq(T) /\ Len(Mapped(f, t)) = Len(t)
                       /\ \A i \in 1..Len(t) : Mapped(f, t)[i] = f[t[i]]
  BY MapSeq
<1>1. Len(s) \in Nat \ {0} /\ Tail(s) \in Seq(S) /\ Len(Tail(s)) = Len(s) - 1
      /\ Head(s) = s[1] /\ \A i \in 1..(Len(s) - 1) : Tail(s)[i] = s[i + 1]
  BY EmptySeq, HeadTailProperties, TailEntries
<1>2. m \in Seq(T) /\ Len(m) = Len(s) /\ \A i \in 1..Len(s) : m[i] = f[s[i]]
  BY <1>0
<1>3. r \in Seq(T) /\ Len(r) = Len(s) - 1 /\ \A i \in 1..(Len(s) - 1) : r[i] = f[Tail(s)[i]]
  BY <1>0, <1>1
<1>. HIDE DEF m, r
<1>4. m # <<>>
  BY <1>1, <1>2, EmptySeq
<1>5. l \in Seq(T) /\ Len(l) = Len(s) - 1 /\ Head(m) = m[1]
      /\ \A i \in 1..(Len(s) - 1) : l[i] = m[i + 1]
  BY <1>2, <1>4, HeadTailProperties, TailEntries
<1>6. \A i \in 1..(Len(s) - 1) : l[i] = r[i]
  BY <1>1, <1>2, <1>3, <1>5
<1>. HIDE DEF l
<1>7. l = r
  BY <1>3, <1>5, <1>6, SeqEqual
<1>8. Head(m) = f[Head(s)]
  BY <1>1, <1>2, <1>5
<1>. QED BY <1>4, <1>7, <1>8 DEF m, l, r
-----------------------------------------------------------------------------
(***************************************************************************)
(* The offers of a channel, of which one queue is empty.                   *)
(***************************************************************************)
SendOffer == [s \in Sending |-> [fib |-> s.fib, dir |-> "send", msg |-> s.msg]]
RecvOffer == [f \in Fibers |-> [fib |-> f, dir |-> "recv"]]

SendOffers == [fib : Fibers, dir : {"send"}, msg : Msgs]
RecvOffers == [fib : Fibers, dir : {"recv"}]

LEMMA OfferMaps == Maps(SendOffer, Sending, SendOffers) /\ Maps(RecvOffer, Fibers, RecvOffers)
  BY DEF Maps, SendOffer, RecvOffer, SendOffers, RecvOffers, Sending

\* Offers as an operator of the two queues.
OffersOf(ss, rs) ==
  [i \in DOMAIN ss |-> [fib |-> ss[i].fib, dir |-> "send", msg |-> ss[i].msg]]
  \o [i \in DOMAIN rs |-> [fib |-> rs[i], dir |-> "recv"]]

LEMMA OffersAre ==
  \A c \in Channels : /\ Offers(c) = OffersOf(senders[c], receivers[c])
                      /\ Offers(c)' = OffersOf(senders'[c], receivers'[c])
  BY DEF Offers, OffersOf

LEMMA OnlySenders ==
  ASSUME NEW ss \in Seq(Sending)
  PROVE  OffersOf(ss, <<>>) = Mapped(SendOffer, ss)
<1>1. \A i \in DOMAIN ss : ss[i] \in Sending
  BY LenProperties, ElementOfSeq
<1>2. [i \in DOMAIN ss |-> [fib |-> ss[i].fib, dir |-> "send", msg |-> ss[i].msg]]
        = Mapped(SendOffer, ss)
  BY <1>1 DEF Mapped, SendOffer
<1>3. [i \in DOMAIN <<>> |-> [fib |-> <<>>[i], dir |-> "recv"]] = <<>>
  OBVIOUS
<1>4. Mapped(SendOffer, ss) \in Seq(SendOffers)
  BY OfferMaps, MapSeq
<1>5. Mapped(SendOffer, ss) \o <<>> = Mapped(SendOffer, ss)
  BY <1>4, ConcatEmptySeq
<1>. QED BY <1>2, <1>3, <1>5 DEF OffersOf

LEMMA OnlyReceivers ==
  ASSUME NEW rs \in Seq(Fibers)
  PROVE  OffersOf(<<>>, rs) = Mapped(RecvOffer, rs)
<1>1. \A i \in DOMAIN rs : rs[i] \in Fibers
  BY LenProperties, ElementOfSeq
<1>2. [i \in DOMAIN rs |-> [fib |-> rs[i], dir |-> "recv"]] = Mapped(RecvOffer, rs)
  BY <1>1 DEF Mapped, RecvOffer
<1>3. [i \in DOMAIN <<>> |-> [fib |-> <<>>[i].fib, dir |-> "send", msg |-> <<>>[i].msg]] = <<>>
  OBVIOUS
<1>4. Mapped(RecvOffer, rs) \in Seq(RecvOffers)
  BY OfferMaps, MapSeq
<1>5. <<>> \o Mapped(RecvOffer, rs) = Mapped(RecvOffer, rs)
  BY <1>4, ConcatEmptySeq
<1>. QED BY <1>2, <1>3, <1>5 DEF OffersOf
-----------------------------------------------------------------------------
(***************************************************************************)
(* The phase of a fiber follows from its place.                            *)
(***************************************************************************)
Running(f) == \E w \in Workers : Executes(w, f)

LEMMA PhaseCases ==
  ASSUME NEW f
  PROVE  /\ f \in exited => PhaseOf(f) = "exited"
         /\ f \notin exited /\ f \notin born => PhaseOf(f) = "new"
         /\ f \notin exited /\ f \in born /\ Waits(f) => PhaseOf(f) = "blocked"
         /\ f \notin exited /\ f \in born /\ ~Waits(f) /\ Running(f) => PhaseOf(f) = "running"
         /\ f \notin exited /\ f \in born /\ ~Waits(f) /\ ~Running(f) => PhaseOf(f) = "runnable"
  BY DEF PhaseOf, Running

LEMMA NextPhaseCases ==
  ASSUME NEW f
  PROVE  /\ f \in exited' => PhaseOf(f)' = "exited"
         /\ f \notin exited' /\ f \notin born' => PhaseOf(f)' = "new"
         /\ f \notin exited' /\ f \in born' /\ Waits(f)' => PhaseOf(f)' = "blocked"
         /\ f \notin exited' /\ f \in born' /\ ~Waits(f)' /\ Running(f)' => PhaseOf(f)' = "running"
         /\ f \notin exited' /\ f \in born' /\ ~Waits(f)' /\ ~Running(f)'
              => PhaseOf(f)' = "runnable"
  BY DEF PhaseOf, Running

LEMMA SamePhase ==
  ASSUME NEW f, f \in exited' <=> f \in exited, f \in born' <=> f \in born,
         Waits(f)' <=> Waits(f), Running(f)' <=> Running(f)
  PROVE  PhaseOf(f)' = PhaseOf(f)
  BY PhaseCases, NextPhaseCases

\* What a place says about a fiber's phase.
LEMMA PhaseByPlace ==
  ASSUME Placing, NEW f \in Fibers
  PROVE  /\ f \notin born => f \notin exited /\ PhaseOf(f) = "new"
         /\ Waits(f) => f \in Alive /\ PhaseOf(f) = "blocked"
         /\ \A w \in Workers : Executes(w, f) =>
              f \in Alive /\ ~Waits(f) /\ Running(f) /\ PhaseOf(f) = "running"
         /\ \A w \in Workers : Taken(w, f) =>
              f \in Alive /\ ~Waits(f) /\ ~Running(f) /\ PhaseOf(f) = "runnable"
<1>1. \A w \in Workers : Holds(w, f) => f \in Alive /\ ~Waits(f)
  BY DEF Placing, OneWakeup, HeldAlone, AbsentNowhere
<1>2. \A w \in Workers : Taken(w, f) => ~Running(f)
  <2>1. \A w, v \in Workers : Taken(w, f) /\ Executes(v, f) => v = w
    BY DEF Holds, Placing, OneWakeup, HeldAlone
  <2>. QED BY <2>1 DEF Running, Taken, Executes
<1>3. Waits(f) => f \in Alive
  BY DEF Placing, AbsentNowhere
<1>. QED BY <1>1, <1>2, <1>3, PhaseCases DEF Holds, Running, Alive, Placing

LEMMA PhaseStep ==
  ASSUME NEW f \in Fibers, NEW p, PhaseOf(f)' = p,
         \A g \in Fibers \ {f} : PhaseOf(g)' = PhaseOf(g)
  PROVE  [g \in Fibers |-> PhaseOf(g)]' = [[g \in Fibers |-> PhaseOf(g)] EXCEPT ![f] = p]
  OBVIOUS
-----------------------------------------------------------------------------
(***************************************************************************)
(* Steps a program does not see.                                           *)
(***************************************************************************)
LEMMA Unseen ==
  ASSUME UNCHANGED <<chans, born, exited, results, stopped>>,
         \A g \in Fibers : Running(g)' <=> Running(g)
  PROVE  UNCHANGED R!vars
<1>1. \A g \in Fibers : Waits(g)' <=> Waits(g)
  BY DEF chans, Waits, WaitsToSend, WaitsToRecv
<1>2. \A g \in Fibers : PhaseOf(g)' = PhaseOf(g)
  BY <1>1, SamePhase
<1>3. \A c \in Channels : Offers(c)' = Offers(c)
  BY DEF Offers, chans
<1>. QED BY <1>2, <1>3 DEF R!vars

\* A step that leaves the channels and changes the phase of f.
LEMMA OnePhase ==
  ASSUME UNCHANGED <<chans, results>>, NEW f \in Fibers, NEW p, PhaseOf(f)' = p,
         \A g \in Fibers \ {f} : /\ (g \in exited' <=> g \in exited)
                                 /\ (g \in born' <=> g \in born)
                                 /\ (Running(g)' <=> Running(g))
  PROVE  /\ [c \in Channels |-> Offers(c)]' = [c \in Channels |-> Offers(c)]
         /\ [g \in Fibers |-> PhaseOf(g)]' = [[g \in Fibers |-> PhaseOf(g)] EXCEPT ![f] = p]
<1>1. \A g \in Fibers : Waits(g)' <=> Waits(g)
  BY DEF chans, Waits, WaitsToSend, WaitsToRecv
<1>2. \A g \in Fibers \ {f} : PhaseOf(g)' = PhaseOf(g)
  BY <1>1, SamePhase
<1>3. \A c \in Channels : Offers(c)' = Offers(c)
  BY DEF Offers, chans
<1>. QED BY <1>2, <1>3, PhaseStep

LEMMA NextSeen == Typed /\ Placing /\ OneSided /\ [Next]_vars => [R!Next]_(R!vars)
<1>. SUFFICES ASSUME Typed, Placing, OneSided, [Next]_vars PROVE [R!Next]_(R!vars)
  OBVIOUS
<1>0. /\ wpc \in [Workers -> PCs]
      /\ wfib \in [Workers -> Fibers \cup {NoFiber}]
      /\ \A w \in Workers : wpc[w] \notin {"idle", "done"} => wfib[w] \in Fibers
      /\ senders \in [Channels -> Seq(Sending)] /\ receivers \in [Channels -> Seq(Fibers)]
      /\ \A f \in Fibers : <<f, ops[f]>> \in Msgs
  BY MsgsTyped DEF Typed, TypeOK, HasFiber
<1>. USE DEF PCs
<1>1. ASSUME NEW w \in Workers, NEW call, Block(w, call) PROVE UNCHANGED R!vars
  <2>1. \A g \in Fibers : Running(g)' <=> Running(g)
    BY <1>0, <1>1 DEF Block, Running, Executes
  <2>. QED BY <1>1, <2>1, Unseen DEF Block
<1>2. ASSUME NEW w \in Workers, Leave(w) \/ ResumeSync(w) \/ Relock(w) PROVE UNCHANGED R!vars
  <2>1. \A g \in Fibers : Running(g)' <=> Running(g)
    BY <1>0, <1>2 DEF Leave, ResumeSync, Relock, Running, Executes
  <2>. QED BY <1>2, <2>1, Unseen DEF Leave, ResumeSync, Relock, life
<1>3. ASSUME NEW w \in Workers, Detach(w) \/ EndThread(w) PROVE UNCHANGED R!vars
  <2>1. \A g \in Fibers : Running(g)' <=> Running(g)
    BY <1>0, <1>3 DEF Detach, EndThread, Running, Executes
  <2>. QED BY <1>3, <2>1, Unseen DEF Detach, EndThread, life
<1>4. ASSUME NEW w \in Workers, NEW f \in Fibers, TakePosted(w, f) \/ TakeExpired(w, f)
      PROVE  UNCHANGED R!vars
  <2>1. \A g \in Fibers : Running(g)' <=> Running(g)
    BY <1>0, <1>4 DEF TakePosted, TakeExpired, Running, Executes
  <2>. QED BY <1>4, <2>1, Unseen DEF TakePosted, TakeExpired, life
<1>5. ASSUME NEW f \in Fibers, TimerExpires(f) PROVE UNCHANGED R!vars
  BY <1>5, Unseen DEF TimerExpires, Running, Executes, life
<1>6. CASE UNCHANGED vars
  BY <1>6, Unseen DEF vars, Running, Executes, life
\* A fiber is created, gets a worker, ends or goes to sleep.
<1>7. ASSUME NEW w \in Workers, NEW f \in Fibers, Spawn(w, f) PROVE R!Spawn(f)
  <2>1. f \notin born /\ ~Waits(f) /\ \A v \in Workers : ~Holds(v, f)
    BY <1>7 DEF Spawn, Placing, AbsentNowhere, Alive
  <2>2. f \notin exited /\ PhaseOf(f) = "new"
    BY <2>1, PhaseByPlace
  <2>3. /\ born' = born \cup {f}
        /\ UNCHANGED <<chans, results, exited, stopped>>
    BY <1>7 DEF Spawn
  <2>4. \A g \in Fibers : (Waits(g)' <=> Waits(g)) /\ (Running(g)' <=> Running(g))
    BY <1>7 DEF Spawn, chans, Waits, WaitsToSend, WaitsToRecv, Running, Executes
  <2>5. PhaseOf(f)' = "runnable"
    <3>1. ~Running(f)
      BY <2>1 DEF Running, Holds
    <3>. QED BY <2>1, <2>2, <2>3, <2>4, <3>1, NextPhaseCases
  <2>6. \A g \in Fibers \ {f} : /\ (g \in exited' <=> g \in exited)
                                /\ (g \in born' <=> g \in born)
                                /\ (Running(g)' <=> Running(g))
    BY <2>3, <2>4
  <2>. QED BY <2>2, <2>3, <2>5, <2>6, OnePhase DEF R!Spawn
<1>8. ASSUME NEW w \in Workers, AttachPosted(w) \/ AttachExpired(w)
      PROVE  \E f \in Fibers : R!Run(f)
  <2>0. PICK f \in Fibers : f = wfib[w]
    BY <1>0, <1>8 DEF AttachPosted, AttachExpired
  <2>1. Taken(w, f)
    BY <1>8, <2>0 DEF AttachPosted, AttachExpired, Taken
  <2>2. f \in Alive /\ ~Waits(f) /\ PhaseOf(f) = "runnable"
    BY <2>1, PhaseByPlace
  <2>3. UNCHANGED <<chans, results, born, exited, stopped>>
    BY <1>8 DEF AttachPosted, AttachExpired, Attach, life
  <2>4. Running(f)'
    BY <1>0, <1>8, <2>0 DEF AttachPosted, AttachExpired, Attach, Running, Executes
  <2>5. PhaseOf(f)' = "running"
    <3>1. ~Waits(f)'
      BY <2>2, <2>3 DEF chans, Waits, WaitsToSend, WaitsToRecv
    <3>. QED BY <2>2, <2>3, <2>4, <3>1, NextPhaseCases DEF Alive
  <2>6. \A g \in Fibers \ {f} : Running(g)' <=> Running(g)
    BY <1>0, <1>8, <2>0 DEF AttachPosted, AttachExpired, Attach, Running, Executes
  <2>7. R!Run(f)
    BY <2>2, <2>3, <2>5, <2>6, OnePhase DEF R!Run
  <2>. QED BY <2>7
<1>9. ASSUME NEW w \in Workers, PostFinish(w) PROVE \E f \in Fibers : R!Finish(f)
  <2>0. PICK f \in Fibers : f = wfib[w]
    BY <1>0, <1>9 DEF PostFinish
  <2>1. Executes(w, f)
    BY <1>9, <2>0 DEF PostFinish, Executes
  <2>2. PhaseOf(f) = "running"
    BY <2>1, PhaseByPlace
  <2>3. /\ exited' = exited \cup {f} /\ stopped' = (stopped \/ f = Main)
        /\ UNCHANGED <<chans, results, born>>
    BY <1>9, <2>0 DEF PostFinish
  <2>4. PhaseOf(f)' = "exited"
    BY <2>3, NextPhaseCases
  <2>5. \A g \in Fibers \ {f} : Running(g)' <=> Running(g)
    BY <1>0, <1>9, <2>0 DEF PostFinish, Running, Executes
  <2>6. R!Finish(f)
    BY <2>2, <2>3, <2>4, <2>5, OnePhase DEF R!Finish
  <2>. QED BY <2>6
\* Its worker lets go of f, and no other one has it.
<1>10. ASSUME NEW w \in Workers, NEW f \in Fibers, f = wfib[w], wpc[w] = "post", Blocked(w)
       PROVE  /\ f \in Alive /\ ~Waits(f) /\ PhaseOf(f) = "running"
              /\ ~Running(f)' /\ \A g \in Fibers \ {f} : Running(g)' <=> Running(g)
              /\ UNCHANGED <<born, exited, results, stopped>>
  <2>1. Executes(w, f)
    BY <1>10 DEF Executes
  <2>2. \A v \in Workers : Executes(v, f) => v = w
    BY <2>1 DEF Placing, OneWakeup, HeldAlone, Holds
  <2>3. ~Running(f)'
    BY <1>0, <1>10, <2>2 DEF Blocked, Running, Executes
  <2>4. \A g \in Fibers \ {f} : Running(g)' <=> Running(g)
    BY <1>0, <1>10 DEF Blocked, Running, Executes
  <2>. QED BY <1>10, <2>1, <2>3, <2>4, PhaseByPlace DEF Blocked, life
<1>11. ASSUME NEW w \in Workers, PostSleep(w) PROVE \E f \in Fibers : R!Sleep(f)
  <2>0. PICK f \in Fibers : f = wfib[w]
    BY <1>0, <1>11 DEF PostSleep
  <2>1. wpc[w] = "post" /\ Blocked(w) /\ UNCHANGED chans
    BY <1>11 DEF PostSleep
  <2>2. ~Waits(f)'
    BY <1>10, <2>0, <2>1 DEF chans, Waits, WaitsToSend, WaitsToRecv
  <2>3. PhaseOf(f)' = "runnable"
    BY <1>10, <2>0, <2>1, <2>2, NextPhaseCases DEF Alive
  <2>4. R!Sleep(f)
    BY <1>10, <2>0, <2>1, <2>3, OnePhase DEF R!Sleep
  <2>. QED BY <2>4
\* The operations that find no partner.
<1>12. ASSUME NEW w \in Workers, NEW c \in Channels, BlockSend(w, c)
       PROVE  \E f \in Fibers, m \in Msgs : R!OfferSend(f, c, m)
  <2>0. PICK f \in Fibers : f = wfib[w]
    BY <1>0, <1>12 DEF BlockSend
  <2>. DEFINE m == <<f, ops[f]>>
              s == [fib |-> f, msg |-> m]
              o == [fib |-> f, dir |-> "send", msg |-> m]
              q == Mapped(SendOffer, senders[c])
  <2>1. /\ wpc[w] = "post" /\ Blocked(w) /\ receivers[c] = <<>>
        /\ senders' = [senders EXCEPT ![c] = Append(@, s)] /\ receivers' = receivers
    BY <1>12, <2>0 DEF BlockSend
  <2>2. s \in Sending /\ s.fib = f /\ m \in Msgs /\ SendOffer[s] = o
    BY <1>0 DEF Sending, SendOffer
  <2>3. \A g \in Fibers : Waits(g)' <=> Waits(g) \/ g = f
    BY <1>0, <2>1, <2>2, SenderWaits
  <2>. HIDE DEF s, o, m, q
  <2>4. Offers(c) = q /\ Offers(c)' = Append(q, o)
    <3>1. senders[c] \in Seq(Sending) /\ senders'[c] = Append(senders[c], s)
          /\ receivers'[c] = <<>>
      BY <1>0, <2>1
    <3>2. Append(senders[c], s) \in Seq(Sending)
      BY <2>2, <3>1, AppendEntries
    <3>3. Mapped(SendOffer, Append(senders[c], s)) = Append(q, SendOffer[s])
      BY <2>2, <3>1, OfferMaps, MapAppend DEF q
    <3>. QED BY <2>1, <2>2, <3>1, <3>2, <3>3, OffersAre, OnlySenders DEF q
  <2>5. \A d \in Channels \ {c} : Offers(d)' = Offers(d)
    BY <1>0, <2>1, OffersAre
  <2>6. q = <<>> \/ Head(q).dir = "send"
    <3>1. CASE senders[c] = <<>>
      BY <3>1, MapEmpty DEF q
    <3>2. CASE senders[c] # <<>>
      <4>1. senders[c] \in Seq(Sending) /\ Head(senders[c]) \in Sending
        BY <1>0, <3>2, TailEntries
      <4>2. Head(q) = SendOffer[Head(senders[c])]
        BY <3>2, <4>1, OfferMaps, MapTail DEF q
      <4>. QED BY <4>1, <4>2 DEF SendOffer
    <3>. QED BY <3>1, <3>2
  <2>7. ~R!Complementary(c, "send")
    BY <2>4, <2>6 DEF R!Complementary
  <2>8. PhaseOf(f)' = "blocked"
    BY <1>10, <2>0, <2>1, <2>3, NextPhaseCases DEF Alive
  <2>9. \A g \in Fibers \ {f} : PhaseOf(g)' = PhaseOf(g)
    BY <1>10, <2>0, <2>1, <2>3, SamePhase
  <2>10. [d \in Channels |-> Offers(d)]' = [[d \in Channels |-> Offers(d)] EXCEPT ![c] = Append(@, o)]
    BY <2>4, <2>5
  <2>11. [g \in Fibers |-> PhaseOf(g)]' = [[g \in Fibers |-> PhaseOf(g)] EXCEPT ![f] = "blocked"]
    BY <2>8, <2>9, PhaseStep
  <2>12. R!OfferSend(f, c, m)
    BY <1>10, <2>0, <2>1, <2>7, <2>10, <2>11 DEF R!OfferSend, o
  <2>. QED BY <2>2, <2>12
<1>13. ASSUME NEW w \in Workers, NEW c \in Channels, BlockRecv(w, c)
       PROVE  \E f \in Fibers : R!OfferRecv(f, c)
  <2>0. PICK f \in Fibers : f = wfib[w]
    BY <1>0, <1>13 DEF BlockRecv
  <2>. DEFINE o == [fib |-> f, dir |-> "recv"]
              q == Mapped(RecvOffer, receivers[c])
  <2>1. /\ wpc[w] = "post" /\ Blocked(w) /\ senders[c] = <<>>
        /\ receivers' = [receivers EXCEPT ![c] = Append(@, f)] /\ senders' = senders
    BY <1>13, <2>0 DEF BlockRecv
  <2>2. RecvOffer[f] = o
    BY DEF RecvOffer
  <2>3. \A g \in Fibers : Waits(g)' <=> Waits(g) \/ g = f
    BY <1>0, <2>1, ReceiverWaits
  <2>. HIDE DEF o, q
  <2>4. Offers(c) = q /\ Offers(c)' = Append(q, o)
    <3>1. receivers[c] \in Seq(Fibers) /\ receivers'[c] = Append(receivers[c], f)
          /\ senders'[c] = <<>>
      BY <1>0, <2>1
    <3>2. Append(receivers[c], f) \in Seq(Fibers)
      BY <3>1, AppendEntries
    <3>3. Mapped(RecvOffer, Append(receivers[c], f)) = Append(q, RecvOffer[f])
      BY <3>1, OfferMaps, MapAppend DEF q
    <3>. QED BY <2>1, <2>2, <3>1, <3>2, <3>3, OffersAre, OnlyReceivers DEF q
  <2>5. \A d \in Channels \ {c} : Offers(d)' = Offers(d)
    BY <1>0, <2>1, OffersAre
  <2>6. q = <<>> \/ Head(q).dir = "recv"
    <3>1. CASE receivers[c] = <<>>
      BY <3>1, MapEmpty DEF q
    <3>2. CASE receivers[c] # <<>>
      <4>1. receivers[c] \in Seq(Fibers) /\ Head(receivers[c]) \in Fibers
        BY <1>0, <3>2, TailEntries
      <4>2. Head(q) = RecvOffer[Head(receivers[c])]
        BY <3>2, <4>1, OfferMaps, MapTail DEF q
      <4>. QED BY <4>1, <4>2 DEF RecvOffer
    <3>. QED BY <3>1, <3>2
  <2>7. ~R!Complementary(c, "recv")
    BY <2>4, <2>6 DEF R!Complementary
  <2>8. PhaseOf(f)' = "blocked"
    BY <1>10, <2>0, <2>1, <2>3, NextPhaseCases DEF Alive
  <2>9. \A g \in Fibers \ {f} : PhaseOf(g)' = PhaseOf(g)
    BY <1>10, <2>0, <2>1, <2>3, SamePhase
  <2>10. [d \in Channels |-> Offers(d)]' = [[d \in Channels |-> Offers(d)] EXCEPT ![c] = Append(@, o)]
    BY <2>4, <2>5
  <2>11. [g \in Fibers |-> PhaseOf(g)]' = [[g \in Fibers |-> PhaseOf(g)] EXCEPT ![f] = "blocked"]
    BY <2>8, <2>9, PhaseStep
  <2>12. R!OfferRecv(f, c)
    BY <1>10, <2>0, <2>1, <2>7, <2>10, <2>11 DEF R!OfferRecv, o
  <2>. QED BY <2>12
\* A match makes the partner runnable and leaves the own fiber running.
<1>14. ASSUME NEW w \in Workers, NEW f \in Fibers, f = wfib[w], wpc[w] = "post",
              NEW p \in Fibers, Waits(p), ~Waits(p)', NEW mine, NEW theirs,
              Matched(w, p, mine, theirs),
              \A g \in Fibers \ {p} : Waits(g)' <=> Waits(g)
       PROVE  /\ PhaseOf(f) = "running" /\ stopped' = stopped
              /\ [g \in Fibers |-> PhaseOf(g)]' = [[g \in Fibers |-> PhaseOf(g)] EXCEPT ![p] = "runnable"]
  <2>1. Executes(w, f)
    BY <1>14 DEF Executes
  <2>2. p \in Alive /\ ~Running(p)
    <3>1. \A v \in Workers : ~Holds(v, p)
      BY <1>14 DEF Placing, OneWakeup, HeldAlone
    <3>. QED BY <1>14, <3>1, PhaseByPlace DEF Running, Holds
  <2>3. \A g \in Fibers : Running(g)' <=> Running(g)
    BY <1>0, <1>14 DEF Matched, Running, Executes
  <2>4. UNCHANGED <<born, exited, stopped>>
    BY <1>14 DEF Matched, life
  <2>5. PhaseOf(p)' = "runnable"
    BY <1>14, <2>2, <2>3, <2>4, NextPhaseCases DEF Alive
  <2>6. \A g \in Fibers \ {p} : PhaseOf(g)' = PhaseOf(g)
    BY <1>14, <2>3, <2>4, SamePhase
  <2>. QED BY <2>1, <2>4, <2>5, <2>6, PhaseByPlace, PhaseStep
<1>15. ASSUME NEW w \in Workers, NEW c \in Channels, MatchSend(w, c)
       PROVE  \E f \in Fibers, m \in Msgs : R!MatchSend(f, c, m)
  <2>0. PICK f \in Fibers : f = wfib[w]
    BY <1>0, <1>15 DEF MatchSend
  <2>a. PICK p \in Fibers : p = Head(receivers[c])
    BY <1>0, <1>15, TailEntries DEF MatchSend
  <2>. DEFINE m == <<f, ops[f]>>
              q == Mapped(RecvOffer, receivers[c])
  <2>1. /\ wpc[w] = "post" /\ receivers[c] # <<>> /\ senders[c] = <<>>
        /\ receivers' = [receivers EXCEPT ![c] = Tail(@)] /\ senders' = senders
        /\ Matched(w, p, [op |-> "send", msg |-> m], [op |-> "recv", msg |-> m])
    BY <1>15, <2>0, <2>a DEF MatchSend, OneSided
  <2>2. m \in Msgs
    BY <1>0
  <2>. HIDE DEF m, q
  <2>3. Waits(p) /\ ~Waits(p)'
    BY <1>0, <2>1, <2>a, UnqueueReceiver DEF Placing, OneWakeup
  <2>4. \A g \in Fibers : Waits(g) <=> Waits(g)' \/ g = p
    BY <1>0, <2>1, <2>a, ReceiverLeaves
  <2>b. \A g \in Fibers \ {p} : Waits(g)' <=> Waits(g)
    BY <2>4, Zenon
  <2>5. Offers(c) = q /\ Offers(c)' = Tail(q) /\ q # <<>> /\ Head(q) = [fib |-> p, dir |-> "recv"]
    <3>1. receivers[c] \in Seq(Fibers) /\ receivers'[c] = Tail(receivers[c])
          /\ senders'[c] = <<>>
      BY <1>0, <2>1
    <3>2. Tail(receivers[c]) \in Seq(Fibers)
      BY <2>1, <3>1, TailEntries
    <3>3. /\ q # <<>> /\ Head(q) = RecvOffer[p]
          /\ Mapped(RecvOffer, Tail(receivers[c])) = Tail(q)
      BY <2>1, <2>a, <3>1, OfferMaps, MapTail DEF q
    <3>4. RecvOffer[p] = [fib |-> p, dir |-> "recv"]
      BY DEF RecvOffer
    <3>. QED BY <2>1, <3>1, <3>2, <3>3, <3>4, OffersAre, OnlyReceivers DEF q
  <2>6. \A d \in Channels \ {c} : Offers(d)' = Offers(d)
    BY <1>0, <2>1, OffersAre
  <2>7. [d \in Channels |-> Offers(d)]' = [[d \in Channels |-> Offers(d)] EXCEPT ![c] = Tail(@)]
    BY <2>5, <2>6
  <2>8. results' = [results EXCEPT ![f] = Append(@, [op |-> "send", msg |-> m]),
                                   ![p] = Append(@, [op |-> "recv", msg |-> m])]
    BY <2>0, <2>1 DEF Matched
  <2>9. R!Complementary(c, "send")
    BY <2>5 DEF R!Complementary
  <2>10. PhaseOf(f) = "running" /\ stopped' = stopped
         /\ [g \in Fibers |-> PhaseOf(g)]' = [[g \in Fibers |-> PhaseOf(g)] EXCEPT ![p] = "runnable"]
    BY <1>14, <2>0, <2>1, <2>3, <2>b
  <2>11. R!Complete(f, "send", c, [fib |-> p, dir |-> "recv"], m)
    BY <2>7, <2>8, <2>10 DEF R!Complete
  <2>12. R!MatchSend(f, c, m)
    BY <2>5, <2>9, <2>10, <2>11 DEF R!MatchSend
  <2>. QED BY <2>2, <2>12
<1>16. ASSUME NEW w \in Workers, NEW c \in Channels, MatchRecv(w, c)
       PROVE  \E f \in Fibers : R!MatchRecv(f, c)
  <2>0. PICK f \in Fibers : f = wfib[w]
    BY <1>0, <1>16 DEF MatchRecv
  <2>a. PICK s \in Sending : s = Head(senders[c])
    BY <1>0, <1>16, TailEntries DEF MatchRecv
  <2>. DEFINE p == s.fib
              m == s.msg
              o == [fib |-> p, dir |-> "send", msg |-> m]
              q == Mapped(SendOffer, senders[c])
  <2>1. /\ wpc[w] = "post" /\ senders[c] # <<>> /\ receivers[c] = <<>>
        /\ senders' = [senders EXCEPT ![c] = Tail(@)] /\ receivers' = receivers
        /\ Matched(w, p, [op |-> "recv", msg |-> m], [op |-> "send", msg |-> m])
    BY <1>16, <2>0, <2>a DEF MatchRecv, OneSided
  <2>2. p \in Fibers
    BY DEF Sending
  <2>3. Waits(p) /\ \A g \in Fibers : Waits(g)' => g # p
    BY <1>0, <2>1, <2>a, UnqueueSender DEF Placing, OneWakeup
  <2>4. \A g \in Fibers : Waits(g) <=> Waits(g)' \/ g = p
    BY <1>0, <2>1, <2>a, SenderLeaves
  <2>5. Offers(c) = q /\ Offers(c)' = Tail(q) /\ q # <<>> /\ Head(q) = o
    <3>1. senders[c] \in Seq(Sending) /\ senders'[c] = Tail(senders[c])
          /\ receivers'[c] = <<>>
      BY <1>0, <2>1
    <3>2. Tail(senders[c]) \in Seq(Sending)
      BY <2>1, <3>1, TailEntries
    <3>3. /\ q # <<>> /\ Head(q) = SendOffer[s]
          /\ Mapped(SendOffer, Tail(senders[c])) = Tail(q)
      BY <2>1, <2>a, <3>1, OfferMaps, MapTail
    <3>4. SendOffer[s] = o
      BY DEF SendOffer
    <3>5. Offers(c) = q
      BY <2>1, <3>1, OffersAre, OnlySenders
    <3>6. Offers(c)' = Mapped(SendOffer, Tail(senders[c]))
      BY <3>1, <3>2, OffersAre, OnlySenders
    <3>. QED BY <3>3, <3>4, <3>5, <3>6
  <2>. HIDE DEF p, m, q
  <2>b. \A g \in Fibers \ {p} : Waits(g)' <=> Waits(g)
    BY <2>4, Zenon
  <2>6. \A d \in Channels \ {c} : Offers(d)' = Offers(d)
    BY <1>0, <2>1, OffersAre
  <2>7. [d \in Channels |-> Offers(d)]' = [[d \in Channels |-> Offers(d)] EXCEPT ![c] = Tail(@)]
    BY <2>5, <2>6
  <2>8. results' = [results EXCEPT ![f] = Append(@, [op |-> "recv", msg |-> m]),
                                   ![p] = Append(@, [op |-> "send", msg |-> m])]
    BY <2>0, <2>1 DEF Matched
  <2>9. R!Complementary(c, "recv")
    BY <2>5 DEF R!Complementary
  <2>10. PhaseOf(f) = "running" /\ stopped' = stopped
         /\ [g \in Fibers |-> PhaseOf(g)]' = [[g \in Fibers |-> PhaseOf(g)] EXCEPT ![p] = "runnable"]
    BY <1>14, <2>0, <2>1, <2>2, <2>3, <2>b
  <2>11. R!Complete(f, "recv", c, o, m)
    BY <2>7, <2>8, <2>10 DEF R!Complete
  <2>12. R!MatchRecv(f, c)
    BY <2>5, <2>9, <2>10, <2>11 DEF R!MatchRecv
  <2>. QED BY <2>12
<1>17. ASSUME NEW w \in Workers, Program(w) PROVE [R!Next]_(R!vars)
  BY <1>1, <1>2, <1>7, <1>17 DEF Program, CallSend, CallRecv, CallSleep, R!Next
<1>18. ASSUME NEW w \in Workers, Trampoline(w) PROVE [R!Next]_(R!vars)
  BY <1>2, <1>3, <1>8, <1>9, <1>11, <1>12, <1>13, <1>15, <1>16, <1>18 DEF Trampoline, R!Next
<1>. QED
  BY <1>4, <1>5, <1>6, <1>17, <1>18 DEF Next

LEMMA InitSeen == Init => R!Init
<1>. SUFFICES ASSUME Init PROVE R!Init
  OBVIOUS
<1>1. \A c \in Channels : senders[c] = <<>> /\ receivers[c] = <<>>
  BY Zenon DEF Init
<1>2. \A c \in Channels : Offers(c) = <<>>
  <2>1. OffersOf(<<>>, <<>>) = <<>>
    BY EmptySeq, OnlySenders, MapEmpty
  <2>. QED BY <1>1, <2>1, OffersAre
<1>3. \A f \in Fibers : PhaseOf(f) = IF f = Main THEN "runnable" ELSE "new"
  <2>1. \A f \in Fibers : ~Waits(f) /\ ~Running(f)
    <3>1. \A w \in Workers : wpc[w] = "idle"
      BY DEF Init
    <3>2. DOMAIN <<>> = {}
      OBVIOUS
    <3>. QED BY <1>1, <3>1, <3>2 DEF Waits, WaitsToSend, WaitsToRecv, Running, Executes
  <2>2. exited = {} /\ born = {Main}
    BY DEF Init
  <2>. QED BY <2>1, <2>2, PhaseCases
<1>4. results = [f \in Fibers |-> <<>>] /\ stopped = FALSE
  BY DEF Init
<1>. QED BY <1>2, <1>3, <1>4 DEF R!Init

(***************************************************************************)
(* Whatever workers, lock and event loop do, the program sees channels     *)
(* that match oldest first and complete both sides at once.                *)
(***************************************************************************)
THEOREM ImplementsRendezvous == Spec => R!Init /\ [][R!Next]_(R!vars)
<1>1. Init => OneSided
  BY DEF Init, OneSided
<1>. QED
  BY <1>1, InitSeen, NextSeen, InitTyped, NextTyped, InitPlacing, NextPlacing, NextOneSided, PTL
  DEF Spec
=============================================================================
