----------------------------- MODULE Scheduler ------------------------------
(***************************************************************************)
(* Fibers, the worker threads that run them and the channels they block    *)
(* on: fiber.cc (enqueue, attach_and_exec, post_exit, resume_async,        *)
(* resume_sync, sleep), channel.cc (recv, send) and the worker loop of     *)
(* runtime.cc.  Every worker is a sequential process that takes handlers   *)
(* from the event loop; runtime.lock is the mutex "lock" here, and what    *)
(* the code does without it is a step of its own.  The stop-the-world      *)
(* part of the worker loop is the subject of module StopTheWorld.          *)
(***************************************************************************)
EXTENDS Integers, Sequences

CONSTANTS Fibers,    (* fibers, born and unborn                            *)
          Main,      (* the main fiber                                     *)
          Workers,   (* worker threads of the event loop                   *)
          Channels,  (* channels                                           *)
          NoChannel, (* the channel of a callback that is not for one      *)
          MaxOps,    (* bound: blocking operations of each fiber            *)
          NoWorker,  (* nobody: owner of a free lock or detached fiber     *)
          NoFiber    (* nothing: the fiber of a worker that has none       *)

ASSUME SchedulerAssumption ==
  /\ Main \in Fibers
  /\ NoWorker \notin Workers
  /\ NoFiber \notin Fibers
  /\ NoChannel \notin Channels
  /\ MaxOps \in [Fibers -> Nat]

VARIABLES
  lock,       (* owner of runtime.lock                                     *)
  wpc,        (* worker -> where it is in attach_and_exec                  *)
  wfib,       (* worker -> the fiber its handler is for                    *)
  attached,   (* fiber -> worker whose allocator_ it has                   *)
  born,       (* fibers that were created                                  *)
  exited,     (* fibers that have exited                                   *)
  posted,     (* fiber -> number of handlers of enqueue in the event loop  *)
  expired,    (* fiber -> number of expired timers in the event loop       *)
  timers,     (* fibers with a deadline_timer that has not expired         *)
  callback,   (* fiber -> post_exit_callback_cc_resume                     *)
  frames,     (* fiber -> frames pushed by exec_exit, not yet popped       *)
  senders,    (* channel -> senders_                                       *)
  receivers,  (* channel -> receivers_                                     *)
  ops,        (* fiber -> number of blocking operations it started         *)
  results,    (* fiber -> results of its channel operations, in order      *)
  stopped     (* io_service.stop() was called                              *)

loop == <<posted, expired, timers>>
chans == <<senders, receivers>>
life == <<born, exited, ops, stopped>>
vars == <<lock, wpc, wfib, attached, callback, frames, results, loop, chans, life>>

OpCounts == {n \in [Fibers -> Nat] : \A f \in Fibers : n[f] <= MaxOps[f]}
Msgs == UNION {{f} \X (0..MaxOps[f]) : f \in Fibers}
Result == [op : {"send", "recv"}, msg : Msgs]
Sending == [fib : Fibers, msg : Msgs]
NoCallback == [kind |-> "none", ch |-> NoChannel]
Callback == [kind : {"none", "send", "recv", "sleep"}, ch : Channels \cup {NoChannel}]

(***************************************************************************)
(* Program counters.  "idle": in io_service.run(); "attach": a handler was *)
(* taken, the worker is about to lock; "attach_sync": the same for the     *)
(* handler of a timer; "sync": resume_sync has not popped the frame yet;   *)
(* "run": compiled code; "exit": the code returned an exit code, the       *)
(* worker is about to lock; "post": in post_exit, with the lock; "detach": *)
(* post_exit answered that there is nothing to resume; "done": the thread  *)
(* has ended.                                                              *)
(***************************************************************************)
PCs == {"idle", "attach", "attach_sync", "sync", "run", "exit", "post", "detach", "done"}

TypeOK ==
  /\ lock \in Workers \cup {NoWorker}
  /\ wpc \in [Workers -> PCs]
  /\ wfib \in [Workers -> Fibers \cup {NoFiber}]
  /\ attached \in [Fibers -> Workers \cup {NoWorker}]
  /\ born \in SUBSET Fibers
  /\ exited \in SUBSET Fibers
  /\ posted \in [Fibers -> Nat]
  /\ expired \in [Fibers -> Nat]
  /\ timers \in SUBSET Fibers
  /\ callback \in [Fibers -> Callback]
  /\ frames \in [Fibers -> Int]
  /\ senders \in [Channels -> Seq(Sending)]
  /\ receivers \in [Channels -> Seq(Fibers)]
  /\ ops \in OpCounts
  /\ results \in [Fibers -> Seq(Result)]
  /\ stopped \in BOOLEAN

-----------------------------------------------------------------------------
\* The runtime starts with the main fiber enqueued and all workers polling.
Init ==
  /\ lock = NoWorker
  /\ wpc = [w \in Workers |-> "idle"]
  /\ wfib = [w \in Workers |-> NoFiber]
  /\ attached = [f \in Fibers |-> NoWorker]
  /\ born = {Main}
  /\ exited = {}
  /\ posted = [f \in Fibers |-> IF f = Main THEN 1 ELSE 0]
  /\ expired = [f \in Fibers |-> 0]
  /\ timers = {}
  /\ callback = [f \in Fibers |-> NoCallback]
  /\ frames = [f \in Fibers |-> 0]
  /\ senders = [c \in Channels |-> <<>>]
  /\ receivers = [c \in Channels |-> <<>>]
  /\ ops = [f \in Fibers |-> 0]
  /\ results = [f \in Fibers |-> <<>>]
  /\ stopped = FALSE

\* enqueue: a handler that will attach fiber f and resume it.
Enqueue(f) == posted' = [posted EXCEPT ![f] = @ + 1]

\* Fault: a handler is run although none was posted.
FaultTakeUnposted(w, f) ==
  /\ wpc[w] = "idle" /\ ~stopped
  /\ posted' = [posted EXCEPT ![f] = @ - 1]
  /\ wpc' = [wpc EXCEPT ![w] = "attach"]
  /\ wfib' = [wfib EXCEPT ![w] = f]
  /\ UNCHANGED <<lock, attached, expired, timers, callback, frames, results, chans, life>>

(***************************************************************************)
(* The event loop hands out handlers, in any order and to any worker,      *)
(* until it is stopped.                                                    *)
(***************************************************************************)
TakePosted(w, f) ==
  /\ wpc[w] = "idle" /\ ~stopped /\ posted[f] > 0
  /\ posted' = [posted EXCEPT ![f] = @ - 1]
  /\ wpc' = [wpc EXCEPT ![w] = "attach"]
  /\ wfib' = [wfib EXCEPT ![w] = f]
  /\ UNCHANGED <<lock, attached, expired, timers, callback, frames, results, chans, life>>

(***************************************************************************)
(* The handler of an expired timer runs resume_sync, which attaches the    *)
(* fiber before it pops the frame: it goes on with AttachExpired.          *)
(***************************************************************************)
TimerExpires(f) ==
  /\ f \in timers /\ ~stopped
  /\ timers' = timers \ {f}
  /\ expired' = [expired EXCEPT ![f] = @ + 1]
  /\ UNCHANGED <<lock, wpc, wfib, attached, posted, callback, frames, results, chans, life>>

TakeExpired(w, f) ==
  /\ wpc[w] = "idle" /\ ~stopped /\ expired[f] > 0
  /\ expired' = [expired EXCEPT ![f] = @ - 1]
  /\ wpc' = [wpc EXCEPT ![w] = "attach_sync"]
  /\ wfib' = [wfib EXCEPT ![w] = f]
  /\ UNCHANGED <<lock, attached, posted, timers, callback, frames, results, chans, life>>

(***************************************************************************)
(* attach_and_exec: fiber_attach under the lock, which is then released    *)
(* for the body of the trampoline.                                         *)
(***************************************************************************)
Attach(w, next) ==
  /\ lock = NoWorker
  /\ attached' = [attached EXCEPT ![wfib[w]] = w]
  /\ wpc' = [wpc EXCEPT ![w] = next]
  /\ UNCHANGED <<lock, wfib, callback, frames, results, loop, chans, life>>

AttachPosted(w) == wpc[w] = "attach" /\ Attach(w, "run")
AttachExpired(w) == wpc[w] = "attach_sync" /\ Attach(w, "sync")

\* Fault: resume_sync resumes without popping the frame of sleep.
FaultResumeKeepsFrame(w) ==
  /\ wpc[w] = "sync"
  /\ wpc' = [wpc EXCEPT ![w] = "run"]
  /\ UNCHANGED <<lock, wfib, attached, callback, frames, results, loop, chans, life>>

\* resume_sync's body: pop the frame of sleep, push its result, resume.
ResumeSync(w) ==
  /\ wpc[w] = "sync"
  /\ frames' = [frames EXCEPT ![wfib[w]] = @ - 1]
  /\ wpc' = [wpc EXCEPT ![w] = "run"]
  /\ UNCHANGED <<lock, wfib, attached, callback, results, loop, chans, life>>
-----------------------------------------------------------------------------
(***************************************************************************)
(* Compiled code runs without the lock.  A blocking builtin stores its     *)
(* callback (cc_resume) and leaves with exit code 4; exec_exit pushes a    *)
(* frame on the way out.                                                   *)
(***************************************************************************)
Block(w, call) ==
  LET f == wfib[w] IN
  /\ wpc[w] = "run"
  /\ ops[f] < MaxOps[f]
  /\ callback' = [callback EXCEPT ![f] = call]
  /\ frames' = [frames EXCEPT ![f] = @ + 1]
  /\ ops' = [ops EXCEPT ![f] = @ + 1]
  /\ wpc' = [wpc EXCEPT ![w] = "exit"]
  /\ UNCHANGED <<lock, wfib, attached, results, loop, chans, born, exited, stopped>>

CallSend(w, c) == Block(w, [kind |-> "send", ch |-> c])
CallRecv(w, c) == Block(w, [kind |-> "recv", ch |-> c])
CallSleep(w) == Block(w, [kind |-> "sleep", ch |-> NoChannel])

\* spawn: fiber_created under the lock, then run enqueues the new fiber.
Spawn(w, f) ==
  /\ wpc[w] = "run"
  /\ lock = NoWorker
  /\ f \notin born
  /\ born' = born \cup {f}
  /\ Enqueue(f)
  /\ UNCHANGED <<lock, wpc, wfib, attached, expired, timers, callback, frames,
                 results, chans, exited, ops, stopped>>

\* The fiber's closure returns, fails with an unhandled error or calls exit.
Leave(w) ==
  /\ wpc[w] = "run"
  /\ wpc' = [wpc EXCEPT ![w] = "exit"]
  /\ UNCHANGED <<lock, wfib, attached, callback, frames, results, loop, chans, life>>
-----------------------------------------------------------------------------
\* Fault: post_exit is called without taking the lock.
FaultPostUnlocked(w) ==
  /\ wpc[w] = "exit"
  /\ wpc' = [wpc EXCEPT ![w] = "post"]
  /\ UNCHANGED <<lock, wfib, attached, callback, frames, results, loop, chans, life>>

\* Leaving the body of the trampoline takes the lock again.
Relock(w) ==
  /\ wpc[w] = "exit"
  /\ lock = NoWorker
  /\ lock' = w
  /\ wpc' = [wpc EXCEPT ![w] = "post"]
  /\ UNCHANGED <<wfib, attached, callback, frames, results, loop, chans, life>>

\* post_exit of an exit code other than 4: the fiber is finished.
PostFinish(w) ==
  LET f == wfib[w] IN
  /\ wpc[w] = "post"
  /\ callback[f].kind = "none"
  /\ exited' = exited \cup {f}
  /\ stopped' = (stopped \/ f = Main)
  /\ wpc' = [wpc EXCEPT ![w] = "detach"]
  /\ UNCHANGED <<lock, wfib, attached, callback, frames, results, loop, chans, born, ops>>

(***************************************************************************)
(* post_exit of exit code 4 when the callback answers false: the fiber     *)
(* stays blocked and will be detached.                                     *)
(***************************************************************************)
Blocked(w) ==
  /\ callback' = [callback EXCEPT ![wfib[w]] = NoCallback]
  /\ wpc' = [wpc EXCEPT ![w] = "detach"]
  /\ UNCHANGED <<lock, wfib, attached, frames, results, posted, expired, life>>

PostSleep(w) ==
  LET f == wfib[w] IN
  /\ wpc[w] = "post"
  /\ callback[f].kind = "sleep"
  /\ timers' = timers \cup {f}
  /\ Blocked(w)
  /\ UNCHANGED chans

\* Fault: a sender queues up without looking for a receiver.
FaultAlwaysQueue(w, c) ==
  LET f == wfib[w] IN
  /\ wpc[w] = "post"
  /\ callback[f] = [kind |-> "send", ch |-> c]
  /\ senders' = [senders EXCEPT ![c] = Append(@, [fib |-> f, msg |-> <<f, ops[f]>>])]
  /\ Blocked(w)
  /\ UNCHANGED <<receivers, timers>>

BlockSend(w, c) ==
  LET f == wfib[w] IN
  /\ wpc[w] = "post"
  /\ callback[f] = [kind |-> "send", ch |-> c]
  /\ receivers[c] = <<>>
  /\ senders' = [senders EXCEPT ![c] = Append(@, [fib |-> f, msg |-> <<f, ops[f]>>])]
  /\ Blocked(w)
  /\ UNCHANGED <<receivers, timers>>

BlockRecv(w, c) ==
  LET f == wfib[w] IN
  /\ wpc[w] = "post"
  /\ callback[f] = [kind |-> "recv", ch |-> c]
  /\ senders[c] = <<>>
  /\ receivers' = [receivers EXCEPT ![c] = Append(@, f)]
  /\ Blocked(w)
  /\ UNCHANGED <<senders, timers>>

(***************************************************************************)
(* post_exit of exit code 4 when the callback answers true: the partner's  *)
(* frame is popped, the message is pushed on its stack and it is enqueued  *)
(* (resume_async); the own frame is popped, the result is pushed and the   *)
(* trampoline resumes the fiber without the lock.                          *)
(***************************************************************************)
Matched(w, partner, mine, theirs) ==
  LET f == wfib[w] IN
  /\ frames' = [frames EXCEPT ![f] = @ - 1, ![partner] = @ - 1]
  /\ results' = [results EXCEPT ![f] = Append(@, mine), ![partner] = Append(@, theirs)]
  /\ Enqueue(partner)
  /\ callback' = [callback EXCEPT ![f] = NoCallback]
  /\ lock' = NoWorker
  /\ wpc' = [wpc EXCEPT ![w] = "run"]
  /\ UNCHANGED <<wfib, attached, expired, timers, life>>

\* Fault: the matched receiver stays in receivers_.
FaultReceiverStays(w, c) ==
  LET f == wfib[w]
      m == <<f, ops[f]>>
  IN
  /\ wpc[w] = "post"
  /\ callback[f] = [kind |-> "send", ch |-> c]
  /\ receivers[c] # <<>>
  /\ Matched(w, Head(receivers[c]), [op |-> "send", msg |-> m], [op |-> "recv", msg |-> m])
  /\ UNCHANGED chans

MatchSend(w, c) ==
  LET f == wfib[w]
      m == <<f, ops[f]>>
  IN
  /\ wpc[w] = "post"
  /\ callback[f] = [kind |-> "send", ch |-> c]
  /\ receivers[c] # <<>>
  /\ receivers' = [receivers EXCEPT ![c] = Tail(@)]
  /\ Matched(w, Head(receivers[c]), [op |-> "send", msg |-> m], [op |-> "recv", msg |-> m])
  /\ UNCHANGED senders

\* Fault: the matched sender stays in senders_.
FaultSenderStays(w, c) ==
  LET f == wfib[w]
      m == Head(senders[c]).msg
  IN
  /\ wpc[w] = "post"
  /\ callback[f] = [kind |-> "recv", ch |-> c]
  /\ senders[c] # <<>>
  /\ Matched(w, Head(senders[c]).fib, [op |-> "recv", msg |-> m], [op |-> "send", msg |-> m])
  /\ UNCHANGED chans

\* Fault: the newest sender is served first.
FaultNewestSender(w, c) ==
  LET f == wfib[w]
      last == senders[c][Len(senders[c])]
  IN
  /\ wpc[w] = "post"
  /\ callback[f] = [kind |-> "recv", ch |-> c]
  /\ senders[c] # <<>>
  /\ senders' = [senders EXCEPT ![c] = SubSeq(@, 1, Len(@) - 1)]
  /\ Matched(w, last.fib, [op |-> "recv", msg |-> last.msg], [op |-> "send", msg |-> last.msg])
  /\ UNCHANGED receivers

MatchRecv(w, c) ==
  LET f == wfib[w]
      m == Head(senders[c]).msg
  IN
  /\ wpc[w] = "post"
  /\ callback[f] = [kind |-> "recv", ch |-> c]
  /\ senders[c] # <<>>
  /\ senders' = [senders EXCEPT ![c] = Tail(@)]
  /\ Matched(w, Head(senders[c]).fib, [op |-> "recv", msg |-> m], [op |-> "send", msg |-> m])
  /\ UNCHANGED receivers

\* fiber_detach, then attach_and_exec returns to the event loop.
Detach(w) ==
  /\ wpc[w] = "detach"
  /\ attached' = [attached EXCEPT ![wfib[w]] = NoWorker]
  /\ wfib' = [wfib EXCEPT ![w] = NoFiber]
  /\ wpc' = [wpc EXCEPT ![w] = "idle"]
  /\ lock' = NoWorker
  /\ UNCHANGED <<callback, frames, results, loop, chans, life>>

\* io_service.run() returns once the loop was stopped; the thread ends.
EndThread(w) ==
  /\ wpc[w] = "idle" /\ stopped
  /\ wpc' = [wpc EXCEPT ![w] = "done"]
  /\ UNCHANGED <<lock, wfib, attached, callback, frames, results, loop, chans, life>>
-----------------------------------------------------------------------------
Program(w) ==
  \/ \E c \in Channels : CallSend(w, c) \/ CallRecv(w, c)
  \/ CallSleep(w)
  \/ \E f \in Fibers : Spawn(w, f)
  \/ Leave(w)

Trampoline(w) ==
  \/ AttachPosted(w) \/ AttachExpired(w) \/ ResumeSync(w)
  \/ Relock(w) \/ PostFinish(w) \/ PostSleep(w)
  \/ \E c \in Channels : BlockSend(w, c) \/ BlockRecv(w, c)
  \/ \E c \in Channels : MatchSend(w, c) \/ MatchRecv(w, c)
  \/ Detach(w) \/ EndThread(w)

Next ==
  \/ \E w \in Workers : Program(w) \/ Trampoline(w)
  \/ \E w \in Workers, f \in Fibers : TakePosted(w, f) \/ TakeExpired(w, f)
  \/ \E f \in Fibers : TimerExpires(f)

(***************************************************************************)
(* Worker threads keep running and the event loop keeps handing out every  *)
(* handler and expiring every timer.  Scheduling is cooperative: a fiber   *)
(* keeps its worker until it blocks or ends, so that a program gets its    *)
(* other fibers run only if each does so eventually (Cooperative).         *)
(***************************************************************************)
Cooperative == \A w \in Workers : WF_vars(Program(w))

Fairness ==
  /\ \A w \in Workers : WF_vars(Trampoline(w))
  /\ \A f \in Fibers :
       /\ WF_vars(TimerExpires(f))
       /\ WF_vars(\E w \in Workers : TakePosted(w, f))
       /\ WF_vars(\E w \in Workers : TakeExpired(w, f))

Spec == Init /\ [][Next]_vars /\ Fairness /\ Cooperative
-----------------------------------------------------------------------------
(***************************************************************************)
(* Properties.                                                             *)
(***************************************************************************)

\* Handlers of f the event loop has or will have.
InLoop(f) == posted[f] + expired[f] + (IF f \in timers THEN 1 ELSE 0)

WaitsToSend(f) == \E c \in Channels : \E i \in DOMAIN senders[c] : senders[c][i].fib = f
WaitsToRecv(f) == \E c \in Channels : \E i \in DOMAIN receivers[c] : receivers[c][i] = f
Waits(f) == WaitsToSend(f) \/ WaitsToRecv(f)

\* Worker w has a handler of f and is about to attach it.
Taken(w, f) == wfib[w] = f /\ wpc[w] \in {"attach", "attach_sync"}

\* Worker w has f and has not yet come to the decision to let go of it.
Executes(w, f) == wfib[w] = f /\ wpc[w] \in {"sync", "run", "exit", "post"}

Holds(w, f) == Taken(w, f) \/ Executes(w, f)

(***************************************************************************)
(* When a worker gets the lock to attach its fiber, no worker has it any   *)
(* more: the assertion attach_and_exec starts with.  A blocking callback   *)
(* publishes the fiber (to a channel, to a timer) before fiber_detach, so  *)
(* this rests on the lock being held from the callback to the detach.      *)
(***************************************************************************)
DetachedBeforeAttach ==
  lock = NoWorker =>
    \A w \in Workers : \A f \in Fibers : Taken(w, f) => attached[f] = NoWorker

(***************************************************************************)
(* A fiber can be resumed from at most one place, and from none while a    *)
(* worker has it: no wakeup is delivered twice and no fiber is executed by *)
(* two workers, whatever the order in which channels, timers and the event *)
(* loop act.                                                               *)
(***************************************************************************)
WaitsOnce ==
  \A c1, c2 \in Channels :
    /\ \A i \in DOMAIN senders[c1], j \in DOMAIN senders[c2] :
         senders[c1][i].fib = senders[c2][j].fib => c1 = c2 /\ i = j
    /\ \A i \in DOMAIN receivers[c1], j \in DOMAIN receivers[c2] :
         receivers[c1][i] = receivers[c2][j] => c1 = c2 /\ i = j
    /\ \A i \in DOMAIN senders[c1], j \in DOMAIN receivers[c2] :
         senders[c1][i].fib # receivers[c2][j]

LoopOnce == \A f \in Fibers : InLoop(f) <= 1 /\ (Waits(f) => InLoop(f) = 0)

HeldAlone ==
  \A w \in Workers, f \in Fibers :
    Holds(w, f) =>
      /\ InLoop(f) = 0 /\ ~Waits(f)
      /\ \A v \in Workers : Holds(v, f) => v = w

OneWakeup == WaitsOnce /\ LoopOnce /\ HeldAlone

(***************************************************************************)
(* A channel never keeps a sender and a receiver waiting for each other.   *)
(***************************************************************************)
OneSided == \A c \in Channels : senders[c] = <<>> \/ receivers[c] = <<>>

(***************************************************************************)
(* Every message is received at most once, and its send completes exactly  *)
(* when it has been received.  Positions are the history of each fiber.    *)
(***************************************************************************)
Results(op, m) ==
  {p \in UNION {{f} \X DOMAIN results[f] : f \in Fibers} :
     results[p[1]][p[2]] = [op |-> op, msg |-> m]}

ExactlyOnce ==
  \A m \in Msgs :
    /\ \A p, q \in Results("recv", m) : p = q
    /\ Results("send", m) = {} <=> Results("recv", m) = {}
    /\ \A p \in Results("send", m) : p[1] = m[1]

(***************************************************************************)
(* Exactly one frame waits on the stack of a fiber between the exit of a   *)
(* blocking call and its resumption, and none otherwise: pop_frame never   *)
(* takes a frame of the program.                                           *)
(***************************************************************************)
InCall(f) ==
  \/ f \in timers \/ expired[f] > 0
  \/ Waits(f)
  \/ callback[f].kind # "none"
  \/ \E w \in Workers : wfib[w] = f /\ wpc[w] \in {"attach_sync", "sync"}

FrameDiscipline == \A f \in Fibers : frames[f] = IF InCall(f) THEN 1 ELSE 0

(***************************************************************************)
(* The workers, the lock and the event loop implement module Rendezvous:   *)
(* channels match oldest first, and a matched or sleeping fiber runs again *)
(* unless the program ends.                                                *)
(***************************************************************************)
PhaseOf(f) ==
  IF f \in exited THEN "exited"
  ELSE IF f \notin born THEN "new"
  ELSE IF Waits(f) THEN "blocked"
  ELSE IF \E w \in Workers : Executes(w, f) THEN "running"
  ELSE "runnable"

Offers(c) ==
  [i \in DOMAIN senders[c] |->
     [fib |-> senders[c][i].fib, dir |-> "send", msg |-> senders[c][i].msg]]
  \o [i \in DOMAIN receivers[c] |-> [fib |-> receivers[c][i], dir |-> "recv"]]

R == INSTANCE Rendezvous WITH
  pending <- [c \in Channels |-> Offers(c)],
  phase <- [f \in Fibers |-> PhaseOf(f)],
  halted <- stopped

Promise == R!Spec
=============================================================================
