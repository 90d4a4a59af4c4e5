------------------------ MODULE StopTheWorldProofs -------------------------
(***************************************************************************)
(* Proofs about module StopTheWorld, for any number of fibers and workers  *)
(* and any size of a batch.  That the pauses exclude compiled code rests   *)
(* on the counting of the stopped workers (Counting); that roots are       *)
(* recorded in time on who has a fiber (Owned) and on the meaning of the   *)
(* lists (Colored), from which only late fibers depart, and in which ways. *)
(***************************************************************************)
EXTENDS StopTheWorld, FiniteSetTheorems, TLAPS

Pauses == {"pause1", "pause2"}
Waiting == {"attach", "waitblack"}
Running == {"run", "collect", "stopped_run"}
Marking == {"mark", "scan", "drain", "stw2", "pause2"}

\* The flag is up from the request of a pause to its end, the count is
\* right, and in a pause all workers are counted.
Counting ==
  /\ stw_wait <=> gpc \in {"stw1", "stw2"} \cup Pauses
  /\ num_stopped = Cardinality(Stopped)
  /\ gpc \in Pauses => Stopped = Workers

\* A worker that has a handler or executes a fiber has that fiber alone.
Owned ==
  /\ \A w \in Workers :
       /\ wpc[w] \in Waiting => act[wfib[w]] = "taken"
       /\ wpc[w] \in Running => act[wfib[w]] = "running"
  /\ \A w, v \in Workers :
       /\ wpc[w] \in Waiting \cup Running /\ wpc[v] \in Waiting \cup Running
       /\ wfib[w] = wfib[v]
       => w = v

HasFiber == \A w \in Workers : wpc[w] \in Waiting \cup Running => wfib[w] \in Fibers

Typed == TypeOK /\ HasFiber /\ Counting

\* What the lists say of a fiber, and when the barrier is up.
Colored ==
  /\ barrier <=> gpc \in Marking
  /\ \A f \in Fibers :
       /\ act[f] = "unborn" <=> color[f] = "none"
       /\ act[f] = "running" <=> color[f] = "running"
       /\ color[f] = "scanning" => gpc = "scan"
       /\ color[f] = "black" => barrier \/ f \in late
       /\ gpc \in {"stw2", "pause2"} /\ color[f] = "grey" => f \in late
-----------------------------------------------------------------------------
(***************************************************************************)
(* Counting the stopped workers.                                           *)
(***************************************************************************)
LEMMA StoppedFinite ==
  ASSUME NEW S \in SUBSET Workers
  PROVE  /\ IsFiniteSet(S) /\ Cardinality(S) \in Nat
         /\ Cardinality(S) = Cardinality(Workers) => S = Workers
  BY StopTheWorldAssumption, FS_Subset, FS_CardinalityType

LEMMA InitTyped == Init => Typed
<1>. SUFFICES ASSUME Init PROVE Typed
  OBVIOUS
<1>1. Stopped = {}
  BY DEF Init, Stopped
<1>2. Counting
  BY <1>1, FS_EmptySet DEF Init, Counting, Pauses
<1>3. TypeOK
  BY DEF Init, TypeOK, Phases, WorkerPCs, Colors, Acts
<1>4. HasFiber
  BY DEF Init, HasFiber, Waiting, Running
<1>. QED BY <1>2, <1>3, <1>4 DEF Typed

\* A step that neither stops nor lets go a worker, nor begins a pause.
LEMMA CountingKept ==
  ASSUME Counting, Stopped' = Stopped, num_stopped' = num_stopped,
         stw_wait' <=> gpc' \in {"stw1", "stw2"} \cup Pauses,
         gpc' \in Pauses => gpc \in Pauses
  PROVE  Counting'
  BY DEF Counting

LEMMA NextTyped == Typed /\ [Next]_vars => Typed'
<1>. SUFFICES ASSUME Typed, [Next]_vars PROVE Typed'
  OBVIOUS
<1>. USE DEF Typed, TypeOK, HasFiber, Phases, WorkerPCs, Colors, Acts, Waiting, Running,
             collector, handshake, mutators, history
<1>1. ASSUME NEW w \in Workers, NEW f \in Fibers, Take(w, f) PROVE Typed'
  <2>1. Stopped' = Stopped
    BY <1>1 DEF Take, Step, Stopped
  <2>. QED BY <1>1, <2>1, CountingKept DEF Take, Step, Counting
<1>2. ASSUME NEW w \in Workers, wpc[w] \in {"attach", "waitblack"}, Attached(w) PROVE Typed'
  <2>1. Stopped' = Stopped
    BY <1>2 DEF Attached, Step, Stopped
  <2>. QED BY <1>2, <2>1, CountingKept DEF Attached, Step, SwitchColor, Counting
<1>3. ASSUME NEW w \in Workers, AttachWaits(w) PROVE Typed'
  <2>1. Stopped' = Stopped
    BY <1>3 DEF AttachWaits, Step, Stopped
  <2>. QED BY <1>3, <2>1, CountingKept DEF AttachWaits, Step, Counting
<1>4. ASSUME NEW w \in Workers, NEW to \in {"stopped_idle", "stopped_run"},
             to = "stopped_run" => wpc[w] = "run", LockFree,
             w \notin Stopped, Checkin(w, to)
      PROVE  Typed'
  <2>1. Stopped' = Stopped \cup {w}
    BY <1>4 DEF Checkin, Step, Stopped
  <2>2. Cardinality(Stopped \cup {w}) = Cardinality(Stopped) + 1
    BY <1>4, StoppedFinite, FS_AddElement DEF Stopped
  <2>3. Counting'
    BY <1>4, <2>1, <2>2 DEF Checkin, Counting, LockFree, Pauses
  <2>4. TypeOK' /\ HasFiber'
    BY <1>4 DEF Checkin, Step
  <2>. QED BY <2>3, <2>4
<1>5. ASSUME NEW w \in Workers, Checkpoint(w) PROVE Typed'
  <2>1. w \notin Stopped
    BY <1>5 DEF Checkpoint, Stopped
  <2>. QED BY <1>4, <1>5, <2>1 DEF Checkpoint
<1>6. ASSUME NEW w \in Workers, RunReturns(w) PROVE Typed'
  <2>1. w \notin Stopped
    BY <1>6 DEF RunReturns, Stopped
  <2>2. CASE Checkin(w, "stopped_idle")
    BY <1>4, <1>6, <2>1, <2>2 DEF RunReturns
  <2>3. CASE Step(w, "done") /\ UNCHANGED <<wfib, act, color, collector, handshake, history>>
    <3>1. Stopped' = Stopped
      BY <1>6, <2>3 DEF RunReturns, Step, Stopped
    <3>. QED BY <1>6, <2>3, <3>1, CountingKept DEF RunReturns, Step, Counting
  <2>. QED BY <1>6, <2>2, <2>3 DEF RunReturns
<1>7. ASSUME NEW w \in Workers, Wake(w) PROVE Typed'
  <2>1. Stopped' = Stopped \ {w} /\ w \in Stopped
    BY <1>7 DEF Wake, Step, Stopped
  <2>2. Cardinality(Stopped \ {w}) = Cardinality(Stopped) - 1 /\ Cardinality(Stopped \ {w}) \in Nat
    <3>. HIDE DEF Typed, TypeOK, HasFiber, Phases, WorkerPCs, Colors, Acts, Waiting, Running
    <3>1. Stopped \in SUBSET Workers
      BY DEF Stopped
    <3>2. IsFiniteSet(Stopped) /\ Cardinality(Stopped) \in Nat
      BY <3>1, StoppedFinite
    <3>3. Cardinality(Stopped \ {w}) = Cardinality(Stopped) - 1
      BY <2>1, <3>2, FS_RemoveElement
    <3>4. Stopped \ {w} \in SUBSET Workers
      BY <3>1
    <3>. QED BY <3>3, <3>4, StoppedFinite
  <2>3. Counting' /\ num_stopped' \in Nat
    BY <1>7, <2>1, <2>2 DEF Wake, Counting, LockFree, Pauses
  <2>4. wpc' \in [Workers -> WorkerPCs] /\ HasFiber'
    BY <1>7 DEF Wake, Step, Stopped
  <2>. QED BY <1>7, <2>3, <2>4 DEF Wake
<1>8. ASSUME NEW w \in Workers, TestLocal(w) \/ CollectLocal(w) PROVE Typed'
  <2>1. Stopped' = Stopped
    BY <1>8 DEF TestLocal, CollectLocal, Step, Stopped
  <2>2. CASE TestLocal(w)
    BY <2>1, <2>2, CountingKept DEF TestLocal, Step, Counting
  <2>3. CASE CollectLocal(w)
    BY <2>1, <2>3, CountingKept DEF CollectLocal, Step, MovedBy, Counting
  <2>. QED BY <1>8, <2>2, <2>3
<1>9. ASSUME NEW w \in Workers, NEW next \in Acts, Detach(w, next),
             moved' \in SUBSET Fibers, io_stopped' \in BOOLEAN
      PROVE  Typed'
  <2>1. Stopped' = Stopped
    BY <1>9 DEF Detach, Step, Stopped
  <2>. QED BY <1>9, <2>1, CountingKept DEF Detach, Step, SwitchColor, Counting
<1>10. ASSUME NEW w \in Workers, Block(w) PROVE Typed'
  BY <1>9, <1>10 DEF Block
<1>11. ASSUME NEW w \in Workers, Exit(w) PROVE Typed'
  <2>1. moved' \in SUBSET Fibers
    BY <1>11 DEF Exit, MovedBy, Detach
  <2>. QED BY <1>9, <1>11, <2>1 DEF Exit
<1>12. ASSUME NEW w \in Workers, MainReturns(w) PROVE Typed'
  BY <1>9, <1>12 DEF MainReturns
<1>13. ASSUME NEW w \in Workers, NEW f \in Fibers, Spawn(w, f) PROVE Typed'
  <2>1. Stopped' = Stopped
    BY <1>13 DEF Spawn, Stopped
  <2>. QED BY <1>13, <2>1, CountingKept DEF Spawn, SwitchColor, Counting
<1>14. ASSUME NEW f \in Fibers, Resume(f) PROVE Typed'
  <2>1. Stopped' = Stopped
    BY <1>14 DEF Resume, Stopped
  <2>. QED BY <1>14, <2>1, CountingKept DEF Resume, Counting
<1>15. ASSUME StartCycle \/ EndCollector \/ Sweep PROVE Typed'
  <2>1. Stopped' = Stopped
    BY <1>15 DEF StartCycle, EndCollector, Sweep, Stopped
  <2>2. Counting'
    BY <1>15, <2>1, CountingKept DEF StartCycle, EndCollector, Sweep, RequestPause, Counting, Pauses
  <2>. QED BY <1>15, <2>2 DEF StartCycle, EndCollector, Sweep, RequestPause
<1>16. ASSUME PauseBegins1 \/ PauseBegins2 PROVE Typed'
  <2>1. Stopped' = Stopped
    BY <1>16 DEF PauseBegins1, PauseBegins2, PauseBegins, Stopped
  <2>2. Stopped = Workers
    BY <1>16, StoppedFinite DEF PauseBegins1, PauseBegins2, PauseBegins, Counting, Stopped
  <2>3. Counting'
    BY <1>16, <2>1, <2>2 DEF PauseBegins1, PauseBegins2, PauseBegins, Counting, Pauses
  <2>. QED BY <1>16, <2>3 DEF PauseBegins1, PauseBegins2, PauseBegins
<1>17. ASSUME TakeSnapshot \/ FinishMarking PROVE Typed'
  <2>1. Stopped' = Stopped
    BY <1>17 DEF TakeSnapshot, FinishMarking, Stopped
  <2>2. Counting'
    BY <1>17, <2>1, CountingKept DEF TakeSnapshot, FinishMarking, EndPause, Counting, Pauses
  <2>3. color' \in [Fibers -> Colors]
    BY <1>17 DEF TakeSnapshot, FinishMarking
  <2>. QED BY <1>17, <2>2, <2>3 DEF TakeSnapshot, FinishMarking, EndPause
<1>18. ASSUME BatchMarked PROVE Typed'
  <2>1. Stopped' = Stopped
    BY <1>18 DEF BatchMarked, Stopped
  <2>2. color' \in [Fibers -> Colors]
    BY <1>18 DEF BatchMarked
  <2>. QED BY <1>18, <2>1, <2>2, CountingKept DEF BatchMarked, Counting, Pauses
<1>19. ASSUME SnapshotMarked \/ Drained PROVE Typed'
  <2>1. Stopped' = Stopped
    BY <1>19 DEF SnapshotMarked, Drained, Stopped
  <2>2. color' \in [Fibers -> Colors]
    BY <1>19 DEF SnapshotMarked, Drained, NextBatch
  <2>3. gpc \in {"mark", "drain"} /\ gpc' \in {"scan", "stw2"} /\ num_stopped' = num_stopped
    BY <1>19 DEF SnapshotMarked, Drained, NextBatch, RequestPause
  <2>4. ~stw_wait
    BY <2>3 DEF Counting, Pauses
  <2>5. (stw_wait' <=> gpc' = "stw2") /\ io_stopped' \in BOOLEAN /\ stw_wait' \in BOOLEAN
    <3>1. CASE gpc' = "scan" /\ UNCHANGED handshake
      BY <2>4, <3>1
    <3>2. CASE RequestPause("stw2")
      BY <3>2 DEF RequestPause
    <3>. QED BY <1>19, <3>1, <3>2 DEF SnapshotMarked, Drained, NextBatch
  <2>6. Counting'
    BY <2>1, <2>3, <2>5, CountingKept DEF Pauses
  <2>. QED BY <1>19, <2>2, <2>3, <2>5, <2>6 DEF SnapshotMarked, Drained
<1>20. CASE UNCHANGED vars
  <2>1. Stopped' = Stopped
    BY <1>20 DEF vars, Stopped
  <2>. QED BY <1>20, <2>1, CountingKept DEF vars, history, Counting
<1>. QED
  BY <1>1, <1>2, <1>3, <1>5, <1>6, <1>7, <1>8, <1>10, <1>11, <1>12, <1>13, <1>14, <1>15,
     <1>16, <1>17, <1>18, <1>19, <1>20
  DEF Next, Collector, Worker, Program, Attach, AttachWoken

(***************************************************************************)
(* In every behaviour the state has its type; the counter of the stopped   *)
(* workers never becomes negative.                                         *)
(***************************************************************************)
THEOREM TypeCorrect == Spec => []TypeOK
<1>1. Typed => TypeOK
  BY DEF Typed
<1>. QED BY <1>1, InitTyped, NextTyped, PTL DEF Spec

(***************************************************************************)
(* No compiled code runs in a pause, for any number of workers.            *)
(***************************************************************************)
THEOREM PausesExclude == Spec => []PauseExclusive
<1>1. Typed => PauseExclusive
  BY DEF Typed, Counting, PauseExclusive, Pauses
<1>. QED BY <1>1, InitTyped, NextTyped, PTL DEF Spec
-----------------------------------------------------------------------------
(***************************************************************************)
(* Who has a fiber.                                                        *)
(***************************************************************************)
LEMMA InitOwned == Init => Owned
  BY DEF Init, Owned, Waiting, Running

LEMMA NextOwned == Typed /\ Owned /\ [Next]_vars => Owned'
<1>. SUFFICES ASSUME Typed, Owned, [Next]_vars PROVE Owned'
  OBVIOUS
<1>1. /\ wpc \in [Workers -> WorkerPCs] /\ wfib \in [Workers -> Fibers \cup {NoFiber}]
      /\ act \in [Fibers -> Acts] /\ HasFiber
  BY DEF Typed, TypeOK
<1>. USE DEF Owned, HasFiber, Waiting, Running
<1>2. ASSUME NEW w \in Workers, NEW f \in Fibers, Take(w, f) PROVE Owned'
  BY <1>1, <1>2 DEF Take, Step
<1>3. ASSUME NEW w \in Workers, wpc[w] \in Waiting, Attached(w) PROVE Owned'
  BY <1>1, <1>3 DEF Attached, Step
<1>4. ASSUME NEW w \in Workers, NEW to \in WorkerPCs, Step(w, to), UNCHANGED <<wfib, act>>,
             to \in Waiting => wpc[w] \in Waiting, to \in Running => wpc[w] \in Running
      PROVE  Owned'
  BY <1>1, <1>4 DEF Step
<1>5. ASSUME NEW w \in Workers, AttachWaits(w) PROVE Owned'
  BY <1>4, <1>5 DEF AttachWaits, WorkerPCs
<1>6. ASSUME NEW w \in Workers, Checkpoint(w) PROVE Owned'
  BY <1>4, <1>6 DEF Checkpoint, Checkin, WorkerPCs
<1>7. ASSUME NEW w \in Workers, RunReturns(w) PROVE Owned'
  BY <1>4, <1>7 DEF RunReturns, Checkin, WorkerPCs
<1>8. ASSUME NEW w \in Workers, Wake(w) PROVE Owned'
  BY <1>4, <1>8 DEF Wake, Stopped, WorkerPCs
<1>9. ASSUME NEW w \in Workers, NEW next \in Acts, Detach(w, next) PROVE Owned'
  BY <1>1, <1>9 DEF Detach, Step
<1>10. ASSUME NEW w \in Workers, Block(w) \/ Exit(w) \/ MainReturns(w) PROVE Owned'
  BY <1>9, <1>10 DEF Block, Exit, MainReturns, Acts
<1>11. ASSUME NEW f \in Fibers, NEW next \in Acts, act[f] \in {"unborn", "blocked"},
              act' = [act EXCEPT ![f] = next], UNCHANGED <<wpc, wfib>>
       PROVE  Owned'
  BY <1>1, <1>11
<1>12. ASSUME NEW w \in Workers, NEW f \in Fibers, Spawn(w, f) PROVE Owned'
  BY <1>11, <1>12 DEF Spawn, Acts
<1>13. ASSUME NEW f \in Fibers, Resume(f) PROVE Owned'
  BY <1>11, <1>13 DEF Resume, Acts
<1>14. ASSUME UNCHANGED <<wpc, wfib, act>> PROVE Owned'
  BY <1>14
<1>15. ASSUME NEW w \in Workers, TestLocal(w) \/ CollectLocal(w) PROVE Owned'
  BY <1>4, <1>15 DEF TestLocal, CollectLocal, WorkerPCs
<1>16. CASE Collector
  BY <1>14, <1>16
  DEF Collector, StartCycle, EndCollector, PauseBegins1, TakeSnapshot, SnapshotMarked, BatchMarked,
      Drained, PauseBegins2, FinishMarking, Sweep, PauseBegins, mutators
<1>17. CASE UNCHANGED vars
  BY <1>14, <1>17 DEF vars, mutators
<1>. QED
  BY <1>2, <1>3, <1>5, <1>6, <1>7, <1>8, <1>10, <1>12, <1>13, <1>15, <1>16, <1>17
  DEF Next, Worker, Program, Attach, AttachWoken
-----------------------------------------------------------------------------
(***************************************************************************)
(* Local collections during the scan of the snapshot.                      *)
(***************************************************************************)
ScanGuarded ==
  /\ lcbarrier <=> gpc = "mark"
  /\ \A w \in Workers : wpc[w] = "collect" => gpc # "mark"

LEMMA NextMoves ==
  Typed /\ Owned /\ ScanGuarded /\ LocalMovesExcluded /\ [Next]_vars
    => ScanGuarded' /\ LocalMovesExcluded'
<1>. SUFFICES ASSUME Typed, Owned, ScanGuarded, LocalMovesExcluded, [Next]_vars
              PROVE  ScanGuarded' /\ LocalMovesExcluded'
  OBVIOUS
<1>1. /\ act \in [Fibers -> Acts] /\ moved \subseteq Fibers /\ HasFiber
      /\ wpc \in [Workers -> WorkerPCs]
  BY DEF Typed, TypeOK
<1>. USE DEF ScanGuarded, LocalMovesExcluded
\* Of the workers only TestLocal leads to a collection.
<1>2. ASSUME NEW w \in Workers, NEW to \in WorkerPCs, Step(w, to) \/ UNCHANGED wpc,
             to # "collect" \/ ~lcbarrier, UNCHANGED <<gpc, lcbarrier>>
      PROVE  ScanGuarded'
  BY <1>1, <1>2 DEF Step
\* Nobody but its own step ever touches an exited fiber.
<1>3. ASSUME NEW f \in Fibers, NEW next \in Acts, act[f] # "exited",
             act' = [act EXCEPT ![f] = next], UNCHANGED moved
      PROVE  LocalMovesExcluded'
  BY <1>1, <1>3
<1>4. ASSUME NEW w \in Workers, wpc[w] \in Waiting \cup Running
      PROVE  wfib[w] \in Fibers /\ (wpc[w] \in Waiting \cup {"run"} => act[wfib[w]] # "exited")
  BY <1>1, <1>4 DEF HasFiber, Owned, Running
<1>5. ASSUME NEW w \in Workers, NEW f \in Fibers, Take(w, f) \/ Spawn(w, f)
      PROVE  ScanGuarded' /\ LocalMovesExcluded'
  <2>1. ScanGuarded'
    BY <1>2, <1>5 DEF Take, Spawn, WorkerPCs, collector
  <2>. QED BY <1>3, <1>5, <2>1 DEF Take, Spawn, Acts, history
<1>13. ASSUME NEW f \in Fibers, Resume(f) PROVE ScanGuarded' /\ LocalMovesExcluded'
  <2>1. ScanGuarded'
    BY <1>13 DEF Resume, collector
  <2>. QED BY <1>3, <1>13, <2>1 DEF Resume, Acts, history
<1>6. ASSUME NEW w \in Workers, wpc[w] \in {"attach", "waitblack"}, Attached(w)
      PROVE  ScanGuarded' /\ LocalMovesExcluded'
  <2>1. ScanGuarded'
    BY <1>2, <1>6 DEF Attached, WorkerPCs, collector
  <2>. QED BY <1>3, <1>4, <1>6, <2>1 DEF Attached, Acts, history, Waiting
<1>7. ASSUME NEW w \in Workers, AttachWaits(w) \/ Checkpoint(w) \/ RunReturns(w) \/ Wake(w) \/ TestLocal(w)
      PROVE  ScanGuarded' /\ LocalMovesExcluded'
  <2>1. ScanGuarded'
    BY <1>2, <1>7 DEF AttachWaits, Checkpoint, RunReturns, Wake, TestLocal, Checkin, WorkerPCs, collector
  <2>2. UNCHANGED <<act, moved>>
    BY <1>7 DEF AttachWaits, Checkpoint, RunReturns, Wake, TestLocal, Checkin, history
  <2>. QED BY <2>1, <2>2
<1>8. ASSUME NEW w \in Workers, Block(w) \/ MainReturns(w)
      PROVE  ScanGuarded' /\ LocalMovesExcluded'
  <2>1. ScanGuarded'
    BY <1>2, <1>8 DEF Block, MainReturns, Detach, WorkerPCs, collector
  <2>2. wfib[w] \in Fibers /\ act[wfib[w]] # "exited"
    BY <1>4, <1>8 DEF Block, MainReturns, Detach, Running
  <2>. QED BY <1>3, <1>8, <2>1, <2>2 DEF Block, MainReturns, Detach, Acts, history
<1>9. ASSUME NEW w \in Workers, Exit(w) PROVE ScanGuarded' /\ LocalMovesExcluded'
  <2>1. wfib[w] \in Fibers /\ act' = [act EXCEPT ![wfib[w]] = "exited"]
    BY <1>4, <1>9 DEF Exit, Detach, Running
  <2>2. moved' \subseteq moved \cup {wfib[w]}
    BY <1>9 DEF Exit, MovedBy
  <2>3. ScanGuarded'
    BY <1>2, <1>9 DEF Exit, Detach, WorkerPCs, collector
  <2>. QED BY <1>1, <2>1, <2>2, <2>3
\* The collection that follows a test is over when the snapshot is taken.
<1>10. ASSUME NEW w \in Workers, CollectLocal(w) PROVE ScanGuarded' /\ LocalMovesExcluded'
  <2>1. UNCHANGED <<moved, act>>
    BY <1>10 DEF CollectLocal, MovedBy
  <2>2. ScanGuarded'
    BY <1>2, <1>10 DEF CollectLocal, WorkerPCs, collector
  <2>. QED BY <2>1, <2>2
<1>11. CASE Collector
  <2>1. UNCHANGED <<act, wpc>> /\ moved' \subseteq moved
    BY <1>11
    DEF Collector, StartCycle, EndCollector, PauseBegins1, TakeSnapshot, SnapshotMarked, BatchMarked,
        Drained, PauseBegins2, FinishMarking, Sweep, PauseBegins, mutators, history
  <2>2. CASE TakeSnapshot
    <3>1. gpc = "pause1" /\ gpc' = "mark" /\ lcbarrier' = TRUE
      BY <2>2 DEF TakeSnapshot, EndPause
    <3>2. \A w \in Workers : wpc[w] # "collect"
      BY <3>1 DEF Typed, Counting, Pauses, Stopped
    <3>. QED BY <2>1, <3>1, <3>2
  <2>3. CASE Collector /\ ~TakeSnapshot
    <3>1. gpc' # "mark" /\ ~lcbarrier'
      BY <2>3
      DEF Collector, StartCycle, EndCollector, PauseBegins1, SnapshotMarked, BatchMarked,
          Drained, PauseBegins2, FinishMarking, Sweep, PauseBegins, RequestPause, EndPause, NextBatch
    <3>. QED BY <2>1, <3>1
  <2>. QED BY <1>11, <2>1, <2>2, <2>3
<1>12. CASE UNCHANGED vars
  BY <1>12 DEF vars, collector, mutators, history
<1>. QED
  BY <1>5, <1>6, <1>7, <1>8, <1>9, <1>10, <1>11, <1>12, <1>13
  DEF Next, Worker, Program, Attach, AttachWoken

(***************************************************************************)
(* What is walked for the snapshot is changed by no local collection,      *)
(* though each is tested for without a lock and done later, and whatever   *)
(* changed has exited.                                                     *)
(***************************************************************************)
THEOREM LocalCollectionsWait == Spec => []LocalMovesExcluded
<1>1. Init => ScanGuarded /\ LocalMovesExcluded
  BY DEF Init, ScanGuarded, LocalMovesExcluded
<1>. QED
  BY <1>1, InitTyped, NextTyped, InitOwned, NextOwned, NextMoves, PTL DEF Spec
-----------------------------------------------------------------------------
(***************************************************************************)
(* The lists, and what the fibers spawned too late do to them.             *)
(***************************************************************************)
LEMMA InitColored == Init => Colored /\ SnapshotComplete
<1>. SUFFICES ASSUME Init PROVE Colored /\ SnapshotComplete
  OBVIOUS
<1>1. Colored
  BY StopTheWorldAssumption DEF Init, Colored, Marking
<1>. QED BY <1>1 DEF Init, SnapshotComplete

\* At the end of marking no list but those of the scanned fibers is left.
LEMMA AllScanned ==
  ASSUME Typed, Colored,
         barrier => \A f \in Fibers \ late : color[f] \in {"running", "black"} => f \in scanned
  PROVE  SnapshotComplete
  BY DEF Typed, TypeOK, Colored, SnapshotComplete, Marking, Colors

LEMMA NextColored ==
  Typed /\ Typed' /\ Owned /\ Colored /\ SnapshotComplete /\ [Next]_vars
    => Colored' /\ SnapshotComplete'
<1>. SUFFICES ASSUME Typed, Typed', Owned, Colored, SnapshotComplete, [Next]_vars
              PROVE  Colored' /\ SnapshotComplete'
  OBVIOUS
<1>. DEFINE Recorded == barrier => \A f \in Fibers \ late : color[f] \in {"running", "black"} => f \in scanned
<1>1. /\ act \in [Fibers -> Acts] /\ color \in [Fibers -> Colors] /\ gpc \in Phases /\ HasFiber
      /\ barrier \in BOOLEAN /\ Recorded
  BY DEF Typed, TypeOK, SnapshotComplete
<1>2. SUFFICES Colored' /\ Recorded'
  <2>. SUFFICES ASSUME Colored', Recorded' PROVE Colored' /\ SnapshotComplete'
    BY <1>2
  <2>1. color' \in [Fibers -> Colors]
    BY DEF Typed, TypeOK
  <2>. QED BY <2>1 DEF Colored, SnapshotComplete, Marking, Colors
<1>3. ASSUME UNCHANGED <<gpc, barrier, scanned, act, color, late>> PROVE Colored' /\ Recorded'
  BY <1>1, <1>3 DEF Colored
\* A fiber changes its state for the scheduler and stays where it is.
<1>4. ASSUME NEW f \in Fibers, NEW next \in {"taken", "posted"}, act[f] \in {"posted", "blocked"},
             act' = [act EXCEPT ![f] = next], UNCHANGED <<gpc, barrier, scanned, color, late>>
      PROVE  Colored' /\ Recorded'
  BY <1>1, <1>4 DEF Colored
<1>5. ASSUME NEW w \in Workers, wpc[w] \in {"attach", "waitblack"}, Attached(w),
             ~barrier \/ color[wfib[w]] \notin {"grey", "scanning"}
      PROVE  Colored' /\ Recorded'
  <2>1. PICK f \in Fibers : f = wfib[w] /\ act[f] = "taken"
    BY <1>1, <1>5 DEF HasFiber, Owned, Waiting
  <2>2. /\ act' = [act EXCEPT ![f] = "running"] /\ color' = [color EXCEPT ![f] = "running"]
        /\ UNCHANGED <<gpc, barrier, scanned, late>>
    BY <1>5, <2>1 DEF Attached, SwitchColor, collector, history
  <2>3. Colored'
    BY <1>1, <2>1, <2>2 DEF Colored
  <2>4. barrier => color[f] = "black"
    BY <1>1, <1>5, <2>1 DEF Colored, Colors
  <2>5. Recorded'
    BY <1>1, <2>2, <2>4
  <2>. QED BY <2>3, <2>5
<1>6. ASSUME NEW w \in Workers, NEW next \in {"blocked", "exited"}, Detach(w, next)
      PROVE  Colored' /\ Recorded'
  <2>1. PICK f \in Fibers : f = wfib[w] /\ act[f] = "running" /\ color[f] = "running"
    BY <1>1, <1>6 DEF HasFiber, Owned, Running, Detach, Colored
  <2>2. /\ act' = [act EXCEPT ![f] = next]
        /\ color' = [color EXCEPT ![f] = IF barrier THEN "black" ELSE "grey"]
        /\ UNCHANGED <<gpc, barrier, scanned>>
        /\ late' = IF barrier THEN late ELSE late \ {f}
    BY <1>6, <2>1 DEF Detach, SwitchColor, collector
  <2>3. Colored'
    BY <1>1, <2>1, <2>2 DEF Colored, Marking
  <2>4. Recorded'
    BY <1>1, <2>1, <2>2
  <2>. QED BY <2>3, <2>4
<1>7. ASSUME NEW w \in Workers, NEW f \in Fibers, Spawn(w, f) PROVE Colored' /\ Recorded'
  <2>1. /\ gpc # "pause2" /\ UNCHANGED <<gpc, barrier, scanned>>
        /\ late' = IF gpc = "stw2" THEN late \cup {f} ELSE late
    BY <1>7 DEF Spawn, LockFree, collector
  <2>2. act[f] = "unborn" /\ act' = [act EXCEPT ![f] = "posted"] /\ color' = [color EXCEPT ![f] = "grey"]
    BY <1>7 DEF Spawn, SwitchColor
  <2>. QED BY <1>1, <2>1, <2>2 DEF Colored
<1>8. ASSUME NEW w \in Workers, NEW f \in Fibers, Take(w, f) PROVE Colored' /\ Recorded'
  BY <1>4, <1>8 DEF Take, collector, history
<1>9. ASSUME NEW f \in Fibers, Resume(f) PROVE Colored' /\ Recorded'
  BY <1>4, <1>9 DEF Resume, collector, history
<1>10. ASSUME NEW w \in Workers,
              AttachWaits(w) \/ Checkpoint(w) \/ RunReturns(w) \/ Wake(w) \/ TestLocal(w) \/ CollectLocal(w)
       PROVE  Colored' /\ Recorded'
  BY <1>3, <1>10
  DEF AttachWaits, Checkpoint, RunReturns, Wake, TestLocal, CollectLocal, Checkin, collector, mutators, history
<1>11. ASSUME NEW w \in Workers, Attach(w) \/ AttachWoken(w) PROVE Colored' /\ Recorded'
  BY <1>5, <1>11 DEF Attach, AttachWoken
<1>12. ASSUME NEW w \in Workers, Block(w) \/ Exit(w) \/ MainReturns(w) PROVE Colored' /\ Recorded'
  BY <1>6, <1>12 DEF Block, Exit, MainReturns
<1>13. CASE StartCycle \/ EndCollector \/ PauseBegins1 \/ PauseBegins2 \/ Sweep
  <2>1. UNCHANGED <<barrier, scanned, act, color, late>>
    BY <1>13 DEF StartCycle, EndCollector, PauseBegins1, PauseBegins2, PauseBegins, Sweep, mutators, history
  <2>2. \/ gpc \in {"idle", "stw1", "sweep"} /\ gpc' \in {"stw1", "ended", "pause1", "idle"}
        \/ gpc = "stw2" /\ gpc' = "pause2"
    BY <1>13 DEF StartCycle, EndCollector, PauseBegins1, PauseBegins2, PauseBegins, Sweep, RequestPause
  <2>. QED BY <1>1, <2>1, <2>2 DEF Colored, Marking
<1>14. CASE TakeSnapshot
  <2>1. /\ gpc = "pause1" /\ gpc' = "mark" /\ barrier' = TRUE /\ UNCHANGED <<act, color, late>>
        /\ scanned' = {f \in Fibers : color[f] = "running"}
    BY <1>14 DEF TakeSnapshot, EndPause, mutators
  <2>2. \A f \in Fibers : color[f] # "scanning" /\ (color[f] = "black" => f \in late)
    BY <1>1, <2>1 DEF Colored, Marking
  <2>. QED BY <1>1, <2>1, <2>2 DEF Colored, Marking
<1>15. CASE SnapshotMarked \/ Drained
  <2>1. gpc \in {"mark", "drain"} /\ UNCHANGED <<barrier, scanned, act, late>> /\ NextBatch
    BY <1>15 DEF SnapshotMarked, Drained, history
  <2>2. CASE gpc' = "scan" /\ \E batch \in SUBSET Grey :
                 color' = [f \in Fibers |-> IF f \in batch THEN "scanning" ELSE color[f]]
    BY <1>1, <2>1, <2>2 DEF Colored, Marking, Grey
  <2>3. CASE gpc' = "stw2" /\ Grey = {} /\ UNCHANGED color
    BY <1>1, <2>1, <2>3 DEF Colored, Marking, Grey
  <2>. QED BY <2>1, <2>2, <2>3 DEF NextBatch, RequestPause
<1>16. CASE BatchMarked
  <2>1. /\ gpc = "scan" /\ gpc' = "drain" /\ UNCHANGED <<barrier, act, late>>
        /\ color' = [f \in Fibers |-> IF color[f] = "scanning" THEN "black" ELSE color[f]]
        /\ scanned' = scanned \cup {f \in Fibers : color[f] = "scanning"}
    BY <1>16 DEF BatchMarked, history
  <2>. QED BY <1>1, <2>1 DEF Colored, Marking
<1>17. CASE FinishMarking
  <2>1. /\ gpc = "pause2" /\ gpc' = "sweep" /\ barrier' = FALSE /\ UNCHANGED act
        /\ color' = [f \in Fibers |-> CASE color[f] = "black" -> "grey"
                                        [] color[f] = "grey" -> "black"
                                        [] OTHER -> color[f]]
        /\ late' = late \cap Grey
    BY <1>17 DEF FinishMarking, EndPause
  <2>2. \A f \in Fibers : color[f] # "scanning" /\ (color[f] = "grey" => f \in late)
    BY <1>1, <2>1 DEF Colored
  <2>3. \A f \in Fibers : color'[f] = IF color[f] = "black" THEN "grey"
                                      ELSE IF color[f] = "grey" THEN "black" ELSE color[f]
    BY <2>1
  <2>. QED BY <1>1, <2>1, <2>2, <2>3 DEF Colored, Marking, Grey
<1>18. CASE UNCHANGED vars
  BY <1>3, <1>18 DEF vars, collector, mutators, history
<1>. QED
  BY <1>7, <1>8, <1>9, <1>10, <1>11, <1>12, <1>13, <1>14, <1>15, <1>16, <1>17, <1>18
  DEF Next, Collector, Worker, Program

(***************************************************************************)
(* No fiber mutates before its roots of this cycle are recorded, and when  *)
(* marking ends all are, however many fibers and workers there are,        *)
(* whatever the size of a batch and whenever a program spawns: but for the *)
(* fibers spawned while the collector waits for a second pause.            *)
(***************************************************************************)
THEOREM RootsRecorded == Spec => []SnapshotComplete
<1>. QED
  BY InitTyped, NextTyped, InitOwned, NextOwned, InitColored, NextColored, PTL DEF Spec

(***************************************************************************)
(* The assertions of fiber_attach on the list of the fiber hold for every  *)
(* fiber but these.                                                        *)
(***************************************************************************)
THEOREM AttachmentsAssert == Spec => []AttachAsserts
<1>1. Typed /\ Owned /\ Colored => AttachAsserts
  <2>. SUFFICES ASSUME Typed, Owned, Colored, NEW w \in Workers, wpc[w] = "attach", wfib[w] \notin late
                PROVE  color[wfib[w]] \in IF barrier THEN {"grey", "scanning", "black"} ELSE {"grey"}
    BY DEF AttachAsserts
  <2>1. wfib[w] \in Fibers /\ act[wfib[w]] = "taken" /\ color[wfib[w]] \in Colors
    BY DEF Typed, TypeOK, HasFiber, Owned, Waiting
  <2>2. color[wfib[w]] \notin {"none", "running"}
    BY <2>1 DEF Colored
  <2>. QED BY <2>1, <2>2 DEF Colored, Marking, Colors
<1>. QED
  BY <1>1, InitTyped, NextTyped, InitOwned, NextOwned, InitColored, NextColored, PTL DEF Spec
=============================================================================
