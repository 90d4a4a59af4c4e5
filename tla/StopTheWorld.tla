---------------------------- MODULE StopTheWorld ----------------------------
(***************************************************************************)
(* How the concurrent collector and the worker threads take turns: the two *)
(* stop-the-world pauses of collect_shared (gc.cc), the check-in of the    *)
(* workers (gc.cc, fiber.cc, the worker loop of runtime.cc), the lists     *)
(* ("colours") every fiber moves through so that its roots are scanned     *)
(* before it mutates anything, and the end of the program.                 *)
(*                                                                         *)
(* collector_t::lock_ is runtime.lock.  The collector holds it except      *)
(* while it waits on a condition variable, so everything it does between   *)
(* two waits is one step here, but for the pauses: compiled code runs      *)
(* without the lock, so each pause has a beginning and an end.             *)
(***************************************************************************)
EXTENDS Naturals, FiniteSets

CONSTANTS Fibers,         (* fibers, born and unborn                       *)
          Main,           (* the main fiber                                *)
          Workers,        (* worker threads of the event loop              *)
          NoFiber,        (* what a worker without a fiber has             *)
          Batch           (* fibers scanned per incremental round: 100     *)

ASSUME StopTheWorldAssumption ==
  /\ Main \in Fibers
  /\ NoFiber \notin Fibers
  /\ IsFiniteSet(Workers)
  /\ Batch \in Nat \ {0}

VARIABLES
  gpc,        (* where the collector is in collect_shared                  *)
  stw_wait,   (* stw_mutators_wait                                         *)
  num_stopped,(* num_stopped_mutators_                                     *)
  io_stopped, (* the event loop is stopped, by stw_start or runtime.stop   *)
  wpc,        (* worker -> where it is                                     *)
  wfib,       (* worker -> the fiber it has or is to attach                *)
  act,        (* fiber -> its state for the scheduler                      *)
  color,      (* fiber -> the list it is in                                *)
  barrier,    (* write_barrier_ of the allocators                          *)
  lcbarrier,  (* local_collect_barrier_ of the allocators                  *)
  snapshot,   (* running fibers whose roots are in the snapshot            *)
  scanned,    (* fibers whose roots were recorded or scanned this cycle    *)
  moved,      (* snapshot fibers whose private heap changed under the scan *)
  late        (* fibers spawned after the last look at the grey list, until*)
              (* the lists have them right again                           *)

collector == <<gpc, barrier, lcbarrier, snapshot, scanned>>
handshake == <<stw_wait, num_stopped, io_stopped>>
mutators == <<wpc, wfib, act, color>>
history == <<moved, late>>
vars == <<collector, handshake, mutators, history>>

(***************************************************************************)
(* Collector: "idle" waits for the threshold, "stw1"/"stw2" for the        *)
(* workers to stop, "pause1"/"pause2" are the pauses, "mark" scans the     *)
(* snapshot, "scan" a batch of sleeping fibers, "drain" the write barrier  *)
(* lists, "sweep" the blocks, "ended" is the end of collect_shared.        *)
(***************************************************************************)
Phases == {"idle", "stw1", "pause1", "mark", "scan", "drain", "stw2",
           "pause2", "sweep", "ended"}

(***************************************************************************)
(* Worker: "polling" in io_service.run(), "attach" about to lock with a    *)
(* handler, "waitblack" in fiber_attach's condition wait, "run" in         *)
(* compiled code, "collect" in checkin_local after its test; in            *)
(* checkin_shared from the worker loop ("stopped_idle") or from            *)
(* exec_function_checkpoint ("stopped_run"); "done".                       *)
(***************************************************************************)
WorkerPCs == {"polling", "attach", "waitblack", "run", "collect", "stopped_idle", "stopped_run", "done"}
Colors == {"none", "running", "grey", "scanning", "black"}
Acts == {"unborn", "blocked", "posted", "taken", "running", "exited"}

TypeOK ==
  /\ gpc \in Phases
  /\ stw_wait \in BOOLEAN
  /\ num_stopped \in Nat
  /\ io_stopped \in BOOLEAN
  /\ wpc \in [Workers -> WorkerPCs]
  /\ wfib \in [Workers -> Fibers \cup {NoFiber}]
  /\ act \in [Fibers -> Acts]
  /\ color \in [Fibers -> Colors]
  /\ barrier \in BOOLEAN
  /\ lcbarrier \in BOOLEAN
  /\ snapshot \in SUBSET Fibers
  /\ scanned \in SUBSET Fibers
  /\ moved \in SUBSET Fibers
  /\ late \in SUBSET Fibers

Grey == {f \in Fibers : color[f] = "grey"}
Stopped == {w \in Workers : wpc[w] \in {"stopped_idle", "stopped_run"}}
LockFree == gpc \notin {"pause1", "pause2"}

Init ==
  /\ gpc = "idle"
  /\ stw_wait = FALSE /\ num_stopped = 0 /\ io_stopped = FALSE
  /\ wpc = [w \in Workers |-> "polling"]
  /\ wfib = [w \in Workers |-> NoFiber]
  /\ act = [f \in Fibers |-> IF f = Main THEN "posted" ELSE "unborn"]
  /\ color = [f \in Fibers |-> IF f = Main THEN "grey" ELSE "none"]
  /\ barrier = FALSE /\ lcbarrier = FALSE
  /\ snapshot = {} /\ scanned = {}
  /\ moved = {} /\ late = {}
-----------------------------------------------------------------------------
(***************************************************************************)
(* Workers and fibers.                                                     *)
(***************************************************************************)

\* switch_color: out of the list the fiber is in, into another one.
SwitchColor(f, c) == color' = [color EXCEPT ![f] = c]

Step(w, to) == wpc' = [wpc EXCEPT ![w] = to]

\* io_service.run() hands a posted handler to a worker.
Take(w, f) ==
  /\ wpc[w] = "polling" /\ ~io_stopped /\ act[f] = "posted"
  /\ Step(w, "attach")
  /\ wfib' = [wfib EXCEPT ![w] = f]
  /\ act' = [act EXCEPT ![f] = "taken"]
  /\ UNCHANGED <<color, collector, handshake, history>>

\* The last lines of fiber_attach: the fiber becomes a running one.
Attached(w) ==
  /\ Step(w, "run")
  /\ SwitchColor(wfib[w], "running")
  /\ act' = [act EXCEPT ![wfib[w]] = "running"]
  /\ UNCHANGED <<wfib, collector, handshake, history>>

\* Fault: a fiber is attached without waiting for its roots to be scanned.
FaultAttachAtOnce(w) == wpc[w] = "attach" /\ LockFree /\ Attached(w)

(***************************************************************************)
(* fiber_attach: outside the concurrent marking, or with its roots scanned,*)
(* a fiber runs at once; a grey or scanning one waits until it is black.   *)
(***************************************************************************)
Attach(w) ==
  /\ wpc[w] = "attach" /\ LockFree
  /\ ~barrier \/ color[wfib[w]] \notin {"grey", "scanning"}
  /\ Attached(w)

AttachWaits(w) ==
  /\ wpc[w] = "attach" /\ LockFree
  /\ barrier /\ color[wfib[w]] \in {"grey", "scanning"}
  /\ Step(w, "waitblack")
  /\ UNCHANGED <<wfib, act, color, collector, handshake, history>>

AttachWoken(w) ==
  /\ wpc[w] = "waitblack" /\ LockFree
  /\ color[wfib[w]] = "black"
  /\ Attached(w)

\* checkin_shared up to its wait.
Checkin(w, to) ==
  /\ num_stopped' = num_stopped + 1
  /\ Step(w, to)
  /\ UNCHANGED <<stw_wait, io_stopped, wfib, act, color, collector, history>>

\* exec_function_checkpoint of a worker that sees stw_mutators_wait.
Checkpoint(w) ==
  /\ wpc[w] = "run" /\ stw_wait /\ LockFree
  /\ Checkin(w, "stopped_run")

\* Fault: a worker that leaves the loop takes itself off the count.
FaultLeaveUncounts(w) ==
  /\ wpc[w] = "polling" /\ io_stopped /\ LockFree
  /\ \/ stw_wait /\ Checkin(w, "stopped_idle")
     \/ /\ ~stw_wait
        /\ num_stopped' = num_stopped - 1
        /\ Step(w, "done")
        /\ UNCHANGED <<wfib, act, color, collector, stw_wait, io_stopped, history>>

\* The worker loop after io_service.run() returned: check in or leave.
RunReturns(w) ==
  /\ wpc[w] = "polling" /\ io_stopped /\ LockFree
  /\ \/ stw_wait /\ Checkin(w, "stopped_idle")
     \/ /\ ~stw_wait
        /\ Step(w, "done")
        /\ UNCHANGED <<wfib, act, color, collector, handshake, history>>

\* Fault: a worker that is let go stays counted.
FaultStaysCounted(w) ==
  /\ w \in Stopped /\ ~stw_wait /\ LockFree
  /\ Step(w, IF wpc[w] = "stopped_run" THEN "run" ELSE "polling")
  /\ UNCHANGED <<wfib, act, color, collector, handshake, history>>

\* The rest of checkin_shared, once its predicate holds.
Wake(w) ==
  /\ w \in Stopped /\ ~stw_wait /\ LockFree
  /\ num_stopped' = num_stopped - 1
  /\ Step(w, IF wpc[w] = "stopped_run" THEN "run" ELSE "polling")
  /\ UNCHANGED <<stw_wait, io_stopped, wfib, act, color, collector, history>>

(***************************************************************************)
(* The collector is scanning the snapshot, and worker w changes the        *)
(* private heap of a fiber whose roots are in it.                          *)
(***************************************************************************)
MovedBy(f) == IF gpc = "mark" /\ f \in snapshot THEN moved \cup {f} ELSE moved

\* Fault: local_collect_barrier_ is not looked at.
FaultTestNothing(w) ==
  /\ wpc[w] = "run"
  /\ Step(w, "collect")
  /\ UNCHANGED <<wfib, act, color, collector, handshake, history>>

\* must_collect_local at a checkpoint: the barrier is tested without a lock.
TestLocal(w) ==
  /\ wpc[w] = "run" /\ ~lcbarrier
  /\ Step(w, "collect")
  /\ UNCHANGED <<wfib, act, color, collector, handshake, history>>

\* checkin_local after the test: a copying collection of the private heap.
CollectLocal(w) ==
  /\ wpc[w] = "collect"
  /\ moved' = MovedBy(wfib[w])
  /\ Step(w, "run")
  /\ UNCHANGED <<wfib, act, color, collector, handshake, late>>

\* fiber_detach, the fiber's new state for the scheduler being next.  Outside
\* the marking that is the right list, whichever the fiber was in before.
Detach(w, next) ==
  /\ wpc[w] = "run" /\ LockFree
  /\ SwitchColor(wfib[w], IF barrier THEN "black" ELSE "grey")
  /\ act' = [act EXCEPT ![wfib[w]] = next]
  /\ wfib' = [wfib EXCEPT ![w] = NoFiber]
  /\ Step(w, "polling")
  /\ late' = IF barrier THEN late ELSE late \ {wfib[w]}
  /\ UNCHANGED <<collector, stw_wait, num_stopped>>

\* The fiber blocks: its callback answered false.
Block(w) == Detach(w, "blocked") /\ UNCHANGED <<io_stopped, history>>

(***************************************************************************)
(* A fiber other than main exits: post_exit clears its private heap and    *)
(* takes it off its list (fiber_exitted), attach_and_exec then detaches    *)
(* it, which puts it on a list again.                                      *)
(***************************************************************************)
Exit(w) ==
  /\ wfib[w] # Main
  /\ Detach(w, "exited")
  /\ moved' = MovedBy(wfib[w])
  /\ UNCHANGED io_stopped

\* The main fiber exits: runtime.stop().
MainReturns(w) ==
  /\ wfib[w] = Main
  /\ Detach(w, "exited")
  /\ io_stopped' = TRUE
  /\ UNCHANGED moved

\* spawn: fiber_created, then the new fiber is enqueued.
Spawn(w, f) ==
  /\ wpc[w] = "run" /\ LockFree
  /\ act[f] = "unborn"
  /\ act' = [act EXCEPT ![f] = "posted"]
  /\ SwitchColor(f, "grey")
  /\ late' = IF gpc = "stw2" THEN late \cup {f} ELSE late
  /\ UNCHANGED <<wpc, wfib, collector, handshake, moved>>

\* A partner or a timer resumes a blocked fiber.
Resume(f) ==
  /\ act[f] = "blocked" /\ LockFree
  /\ act' = [act EXCEPT ![f] = "posted"]
  /\ UNCHANGED <<wpc, wfib, color, collector, handshake, history>>
-----------------------------------------------------------------------------
(***************************************************************************)
(* The collector.                                                          *)
(***************************************************************************)

\* Fault: the event loop is not stopped, so idle workers see nothing.
FaultLoopGoesOn(phase) ==
  /\ stw_wait' = TRUE
  /\ gpc' = phase
  /\ UNCHANGED <<num_stopped, io_stopped>>

\* Ask the workers to stop: raise the flag, stop the event loop.
RequestPause(phase) ==
  /\ stw_wait' = TRUE /\ io_stopped' = TRUE
  /\ gpc' = phase
  /\ UNCHANGED num_stopped

\* Let them go: lower the flag, restart the event loop, notify.
EndPause(phase) ==
  /\ stw_wait' = FALSE /\ io_stopped' = FALSE
  /\ gpc' = phase
  /\ UNCHANGED num_stopped

\* Fault: collecting() is not asked before a cycle.
FaultStartAnyway ==
  /\ gpc = "idle"
  /\ RequestPause("stw1")
  /\ UNCHANGED <<barrier, lcbarrier, snapshot, scanned, mutators, history>>

\* The threshold or the timeout is reached and the program goes on.
StartCycle ==
  /\ gpc = "idle" /\ ~io_stopped
  /\ RequestPause("stw1")
  /\ UNCHANGED <<barrier, lcbarrier, snapshot, scanned, mutators, history>>

\* collecting() is false: the program was stopped.
EndCollector ==
  /\ gpc = "idle" /\ io_stopped
  /\ gpc' = "ended"
  /\ UNCHANGED <<barrier, lcbarrier, snapshot, scanned, handshake, mutators, history>>

PauseBegins(from, to) ==
  /\ gpc = from
  /\ num_stopped = Cardinality(Workers)
  /\ gpc' = to
  /\ UNCHANGED <<barrier, lcbarrier, snapshot, scanned, handshake, mutators, history>>

PauseBegins1 == PauseBegins("stw1", "pause1")
PauseBegins2 == PauseBegins("stw2", "pause2")

\* Record the roots of the running fibers, raise the barriers.
TakeSnapshot ==
  /\ gpc = "pause1"
  /\ snapshot' = {f \in Fibers : color[f] = "running"}
  /\ scanned' = snapshot'
  /\ moved' = {}
  /\ barrier' = TRUE /\ lcbarrier' = TRUE
  /\ EndPause("mark")
  /\ UNCHANGED <<mutators, late>>

(***************************************************************************)
(* The incremental loop looks at the grey list: the next batch of sleeping *)
(* fibers is scanned, or the second pause is requested.                    *)
(***************************************************************************)
NextBatch ==
  \/ /\ Grey # {}
     /\ \E batch \in SUBSET Grey :
          /\ Cardinality(batch) = IF Cardinality(Grey) < Batch THEN Cardinality(Grey) ELSE Batch
          /\ color' = [f \in Fibers |-> IF f \in batch THEN "scanning" ELSE color[f]]
     /\ gpc' = "scan"
     /\ UNCHANGED handshake
  \/ /\ Grey = {}
     /\ RequestPause("stw2")
     /\ UNCHANGED color

\* The snapshot is marked: local collections are allowed again.
SnapshotMarked ==
  /\ gpc = "mark"
  /\ lcbarrier' = FALSE
  /\ NextBatch
  /\ UNCHANGED <<barrier, snapshot, scanned, wpc, wfib, act, history>>

\* Fault: the scanned fibers are not made black.
FaultStaysScanning ==
  /\ gpc = "scan"
  /\ scanned' = scanned \cup {f \in Fibers : color[f] = "scanning"}
  /\ gpc' = "drain"
  /\ UNCHANGED <<barrier, lcbarrier, snapshot, color, handshake, wpc, wfib, act, history>>

\* The batch is marked: its fibers become black, waiting workers wake up.
BatchMarked ==
  /\ gpc = "scan"
  /\ color' = [f \in Fibers |-> IF color[f] = "scanning" THEN "black" ELSE color[f]]
  /\ scanned' = scanned \cup {f \in Fibers : color[f] = "scanning"}
  /\ gpc' = "drain"
  /\ UNCHANGED <<barrier, lcbarrier, snapshot, handshake, wpc, wfib, act, history>>

\* What the write barrier recorded is marked.
Drained ==
  /\ gpc = "drain"
  /\ NextBatch
  /\ UNCHANGED <<barrier, lcbarrier, snapshot, scanned, wpc, wfib, act, history>>

\* Fault: the black and the grey list are not swapped.
FaultNoSwap ==
  /\ gpc = "pause2"
  /\ barrier' = FALSE
  /\ EndPause("sweep")
  /\ UNCHANGED <<lcbarrier, snapshot, scanned, mutators, history>>

\* End of pause 2: barrier off, the black and the grey list are swapped.
FinishMarking ==
  /\ gpc = "pause2"
  /\ barrier' = FALSE
  /\ color' = [f \in Fibers |-> CASE color[f] = "black" -> "grey"
                                  [] color[f] = "grey" -> "black"
                                  [] OTHER -> color[f]]
  /\ late' = late \cap Grey
  /\ EndPause("sweep")
  /\ UNCHANGED <<lcbarrier, snapshot, scanned, wpc, wfib, act, moved>>

Sweep ==
  /\ gpc = "sweep"
  /\ gpc' = "idle"
  /\ UNCHANGED <<barrier, lcbarrier, snapshot, scanned, handshake, mutators, history>>
-----------------------------------------------------------------------------
Collector ==
  \/ StartCycle \/ EndCollector \/ PauseBegins1 \/ TakeSnapshot \/ SnapshotMarked
  \/ BatchMarked \/ Drained \/ PauseBegins2 \/ FinishMarking \/ Sweep

\* What a worker thread does on its own.
Worker(w) ==
  \/ Attach(w) \/ AttachWaits(w) \/ AttachWoken(w)
  \/ RunReturns(w) \/ Wake(w) \/ Checkpoint(w) \/ CollectLocal(w)

\* What the compiled code of its fiber decides.
Program(w) ==
  \/ Block(w) \/ Exit(w) \/ MainReturns(w) \/ TestLocal(w)
  \/ \E f \in Fibers : Spawn(w, f)

Next ==
  \/ Collector
  \/ \E w \in Workers : Worker(w) \/ Program(w)
  \/ \E w \in Workers, f \in Fibers : Take(w, f)
  \/ \E f \in Fibers : Resume(f)

(***************************************************************************)
(* Threads run.  Compiled code calls functions, so a running fiber comes   *)
(* to a checkpoint; it need not block or end.  A checkpoint looks at       *)
(* stw_mutators_wait before it thinks of a local collection, so a worker   *)
(* cannot go from one collection to the next for ever and never check in.  *)
(***************************************************************************)
Fairness ==
  /\ WF_vars(Collector)
  /\ \A w \in Workers : WF_vars(Worker(w)) /\ SF_vars(Checkpoint(w))

Spec == Init /\ [][Next]_vars /\ Fairness
-----------------------------------------------------------------------------
(***************************************************************************)
(* Properties.                                                             *)
(***************************************************************************)

(***************************************************************************)
(* During a pause every worker waits in checkin_shared: no compiled code   *)
(* runs while the collector records roots or switches the barriers, though *)
(* a worker may still be stopped from the first pause when the second one  *)
(* is requested, and is counted by a plain integer.                        *)
(***************************************************************************)
PauseExclusive == gpc \in {"pause1", "pause2"} => Stopped = Workers

(***************************************************************************)
(* What fiber_attach asserts when a worker gets the lock: outside the      *)
(* marking the fiber is grey, during it it is grey, scanning or black.  It *)
(* can fail for a fiber only that was spawned while the second pause was   *)
(* awaited, and for that one no longer than until its next detach outside  *)
(* a marking or the end of the next cycle.                                 *)
(***************************************************************************)
AttachAsserts ==
  LockFree =>
    \A w \in Workers :
      wpc[w] = "attach" =>
        \/ wfib[w] \in late
        \/ color[wfib[w]] \in IF barrier THEN {"grey", "scanning", "black"} ELSE {"grey"}

(***************************************************************************)
(* While the barrier is up, a fiber that runs, or could run at once, has   *)
(* had its roots recorded in this cycle; and when marking ends the roots   *)
(* of every fiber have been.  The only exceptions are, again, fibers that  *)
(* were spawned while a second pause was awaited, of this cycle or of the  *)
(* one before: no other fiber is ever mistaken for a scanned one.          *)
(***************************************************************************)
SnapshotComplete ==
  /\ barrier => \A f \in Fibers \ late : color[f] \in {"running", "black"} => f \in scanned
  /\ gpc = "pause2" => \A f \in Fibers \ late : color[f] # "none" => f \in scanned

(***************************************************************************)
(* A local collection never moves what the collector is walking for the    *)
(* snapshot, although the barrier is tested without a lock and the         *)
(* collection comes later: what did change is the heap of a fiber that has *)
(* exited since (see SnapshotHeapStable for that).                         *)
(***************************************************************************)
LocalMovesExcluded == \A f \in moved : act[f] = "exited"

(***************************************************************************)
(* A requested pause is achieved, the second one unless main has returned  *)
(* meanwhile: the workers that run code come to a checkpoint, the others   *)
(* are woken by the stop of the event loop, and one that waits for its     *)
(* fiber to become black gets it first.                                    *)
(***************************************************************************)
PausesHappen ==
  /\ gpc = "stw1" ~> gpc = "pause1"
  /\ gpc = "stw2" ~> gpc = "pause2" \/ act[Main] = "exited"

\* A worker blocked in fiber_attach gets its fiber, also if the program ends.
AttachProceeds == \A w \in Workers : wpc[w] = "waitblack" ~> wpc[w] = "run"

(***************************************************************************)
(* If the event loop is stopped and no pause is under way when the         *)
(* collector comes back to its threshold, the stop is main's: no cycle     *)
(* begins any more, the collector ends and every worker leaves its loop,   *)
(* but for those still in the code of some fiber.                          *)
(***************************************************************************)
ShutdownCompletes ==
  (gpc \in {"sweep", "idle"} /\ io_stopped) ~>
    /\ gpc = "ended"
    /\ \A w \in Workers : wpc[w] \in {"done", "run", "collect"}

(***************************************************************************)
(* Not so: what a comment of stop() says, that the collector is woken up   *)
(* "so that it sees the stop".  If main returns during a cycle, the end of *)
(* a pause restarts the event loop, or the workers leave and the second    *)
(* pause waits for them for ever.                                          *)
(***************************************************************************)
StopIsSeen == act[Main] = "exited" ~> gpc = "ended"

(***************************************************************************)
(* Not so: the assertion of the end of the second pause, that no fiber is  *)
(* grey.  A fiber spawned after the collector's last look at the grey list *)
(* is.                                                                     *)
(***************************************************************************)
GreyEmptyAtSwap == gpc = "pause2" => Grey = {}

(***************************************************************************)
(* Not so: the assertion of ~Fiber, that an exited fiber is on no list.    *)
(* fiber_detach lists it again after fiber_exitted took it off.            *)
(***************************************************************************)
ExitedUnlisted == \A f \in Fibers \ {Main} : act[f] = "exited" => color[f] = "none"

(***************************************************************************)
(* Not so: what the comment on the local barrier says, that nothing the    *)
(* scan of the snapshot follows is modified.  A fiber that exits clears    *)
(* its private heap whatever the barrier says.                             *)
(***************************************************************************)
SnapshotHeapStable == moved = {}
=============================================================================
