---------------------------------------- MODULE MCServices -----------------------------------------
(* Components of the control plane, each checked by itself: a behaviour runs one of the Scenes.   *)
(* The variables are shared, so that one exploration asks all the questions.                      *)
EXTENDS Integers, Sequences, TLAPS

CONSTANTS Scenes, Workers, Chunks, StoreFaults, Versioned, NoAgent, NoLease, ServerId, NoWorker,
    NoTime, NoEdit, NoJob, NoManifest

VARIABLES
  scene,  \* the component that runs
  \* its variables, in the order of its module
  v1, v2, v3, v4, v5, v6, v7, v8, v9, v10, v11, v12, v13, v14, v15, v16, v17, v18, v19, v20, v21,
  v22

vars == <<scene, v1, v2, v3, v4, v5, v6, v7, v8, v9, v10, v11, v12, v13, v14, v15, v16, v17, v18,
          v19, v20, v21, v22>>

\* A component with fewer variables leaves the others alone.
Rest16 == <<v16, v17, v18, v19, v20, v21, v22>>
Zero16 == v16 = 0 /\ v17 = 0 /\ v18 = 0 /\ v19 = 0 /\ v20 = 0 /\ v21 = 0 /\ v22 = 0
Rest14 == <<v14, v15, Rest16>>
Zero14 == v14 = 0 /\ v15 = 0 /\ Zero16

OneRun == {"r1"}
Kinds == {"approval", "input"}
Ids == {1, 2}
FirstWorker == CHOOSE w \in Workers : TRUE
ThreadOf == [r \in OneRun |-> r]
NoExecutor == [e \in {} |-> {}]
Sources == {"s1", "s2"}
Period == <<1, 2>>
Manifests == {1, 2}
Uses == [m \in Manifests |-> IF m = 1 THEN {1} ELSE Chunks]

\* One run, and a second worker that is free to do the maintenance.
Worker == INSTANCE ServerWorkerProofs WITH state <- v1, createdAt <- v2, initial <- v3, clock <- v4,
    assigned <- v5, leaseOwner <- v6, leaseToken <- v7, leaseLive <- v8, checkpoint <- v9,
    request <- v10, expiring <- v11, activeRuns <- v12, granted <- v13, overtaken <- v14, pc <- v15,
    lease <- v16, adapter <- v17, steps <- v18, call <- v19, outcome <- v20, renewing <- v21,
    doubt <- v22, Runs <- OneRun, Workers <- Workers, Executors <- {}, NoAgent <- NoAgent,
    ThreadOf <- ThreadOf, KeyOf <- ThreadOf, ServerRuns <- OneRun, CapableRuns <- OneRun,
    SnapshotRuns <- {}, Serves <- NoExecutor, MaxConcurrent <- NoExecutor, Quota <- 2,
    Kinds <- Kinds, NoLease <- NoLease, MaxSteps <- 2
AtWorker == scene = "worker"
KeepWorker == UNCHANGED scene

\* Two usage reports among four events, a client that is cut off once or twice.
Log == INSTANCE EventLog WITH nextSeq <- v1, rows <- v2, open <- v3, ended <- v4, usage <- v5,
    written <- v6, endSeq <- v7, handler <- v8, cursor <- v9, batch <- v10, wire <- v11,
    received <- v12, faults <- v13, Sources <- Sources, ServerId <- ServerId, Batch <- 2,
    MaxEvents <- 4, MaxFaults <- 2
AtLog == scene = "log"
KeepLog == UNCHANGED <<scene, Rest14>>

\* Schedules due at every instant and at every second one, two workers.
Plan == INSTANCE SchedulesProofs WITH now <- v1, nextRun <- v2, deleted <- v3, lock <- v4, pc <- v5,
    at <- v6, job <- v7, fired <- v8, edit <- v9, overQuota <- v10, edited <- v11, retried <- v12,
    crashes <- v13, Ids <- Ids, Workers <- Workers, NoWorker <- NoWorker, NoTime <- NoTime,
    NoJob <- NoJob, NoEdit <- NoEdit, Period <- Period, Editable <- {2}, Limited <- {1},
    MaxTime <- 2, MaxCrashes <- 1
AtPlan == scene = "schedules"
KeepPlan == UNCHANGED <<scene, Rest14>>

\* Two snapshots that share a chunk, one collector.
Store == INSTANCE SnapshotStoreProofs WITH status <- v1, mapped <- v2, reserved <- v3, chunk <- v4,
    refCount <- v5, object <- v6, versions <- v7, upload <- v8, commit <- v9, deletion <- v10,
    gc <- v11, raced <- v12, late <- v13, stranded <- v14, faults <- v15, Manifests <- Manifests,
    Chunks <- Chunks, Uses <- Uses, Collectors <- {1}, NoManifest <- NoManifest, Mergeable <- {2},
    Deletable <- {1}, Versioned <- Versioned, MaxFaults <- StoreFaults
AtStore == scene = "snapshots"
KeepStore == UNCHANGED <<scene, Rest16>>

Init ==
  /\ scene \in Scenes
  /\ \/ AtWorker /\ Worker!WorkerInit
     \/ AtLog /\ Log!Init /\ Zero14
     \/ AtPlan /\ Plan!Init /\ Zero14
     \/ AtStore /\ Store!Init /\ Zero16

Next ==
  \/ AtWorker /\ Worker!WorkerNext /\ KeepWorker
  \/ AtLog /\ Log!Next /\ KeepLog
  \/ AtPlan /\ Plan!Next /\ KeepPlan
  \/ AtStore /\ Store!Next /\ KeepStore

\* The fairness of the four components, of which one runs.
Fairness ==
  /\ WF_vars(\/ AtWorker /\ Worker!maintain_leases /\ KeepWorker
             \/ AtLog /\ Log!StreamStep /\ KeepLog
             \/ AtStore /\ Store!CollectStep(1) /\ KeepStore)
  /\ WF_vars(AtLog /\ Log!client_receives /\ KeepLog)
  /\ \A w \in Workers :
       /\ WF_vars(\/ AtWorker /\ Worker!Execute(w) /\ KeepWorker
                  \/ AtPlan /\ Plan!Trigger(w) /\ KeepPlan)
       /\ WF_vars(AtWorker /\ Worker!worker_heartbeat(w) /\ ~Worker!LeaseMatches(v16[w]) /\ KeepWorker)
  /\ \A r \in OneRun : WF_vars(AtWorker /\ Worker!Lapses(r) /\ KeepWorker)
  /\ \A r \in OneRun, k \in Kinds : WF_vars(AtWorker /\ Worker!maintain_requests(r, k) /\ KeepWorker)

Spec == Init /\ [][Next]_vars /\ Fairness
----------------------------------------------------------------------------------------------------
ASSUME ServicesAssumption ==
  /\ Worker!ConstantsAssumption /\ Worker!WorkerAssumption
  /\ Log!EventAssumption /\ Plan!ScheduleAssumption /\ Store!StoreAssumption

\* Every column and every process keeps its domain; only a worker that executes nothing has no
\* lease, and a worker's lease was granted to it.
TypeOK ==
  /\ AtWorker => Worker!WorkerTypeOK
  /\ AtLog => Log!TypeOK
  /\ AtPlan => Plan!TypeOK
  /\ AtStore => Store!TypeOK

\* While mutating work is in doubt (sent, its success not seen) the run's latest checkpoint says it
\* is unsafe to resume and the run is neither completed nor failed, crashes, lost leases and the
\* error paths of execute_run included.
InDoubtIsUnsafe == AtWorker => Worker!InDoubtIsUnsafe

\* As documented: approvals and input requests that nobody answers expire
\* (expire_pending_workflows).
RequestsExpire ==
  \A r \in OneRun, k \in Kinds :
    (AtWorker /\ Worker!Asks(r, k)) ~> (AtWorker /\ ~Worker!Asks(r, k))

\* Sequence numbers have no gap and are never given twice; a repeated usage report is stored and
\* charged once; a client sees the events in order, once, and none that is in the log is skipped
\* over any number of reconnections; the stream ends only when all up to the end of the run was
\* sent (append_event_tx, run_events, enforce_run_event_retention).
LogSound == AtLog => Log!LogSound

\* At most one run per occurrence, and every occurrence that was passed over is in exactly one
\* firing, however many workers poll, die or race with updates (trigger_due_schedules).
OccurrencesOnce == AtPlan => Plan!OccurrencesOnce

\* Reference counts are the number of manifests that refer to a chunk; what a snapshot refers to or
\* an upload reserved can be read back unless one of the named races hit it; what is expired holds
\* no chunk unless it was written to while being deleted (delete_snapshot, garbage_collect).
SnapshotsSound == AtStore => Store!SnapshotsSound

Unserved(i) ==
  CASE AtWorker -> IF i = 1 THEN Worker!Busy(FirstWorker)
                   ELSE \E r \in OneRun : Worker!HasLease(r)
    [] AtLog -> i = 1 /\ v4 /\ ~Log!EndKnown
    [] AtPlan -> Plan!Overlooked(i)
    [] AtStore -> i \in Chunks /\ Store!Uncollected(i)

\* Everything in the control plane that waits is served: a worker that took a run gets free again
\* and no run is left in a leased state, whatever crashes, is cancelled or waits for an answer that
\* never comes (execute_run, the poll loop); the client of an event stream learns how the run ended,
\* unless retention came first (run_events); a due schedule is dealt with, unless a due one
\* of a creator without quota ends every loop (trigger_due_schedules); a chunk that nothing refers
\* to is removed, unless a collector died over it or gave it up (garbage_collect).
Served == \A i \in 1..2 : ~<>[]Unserved(i)

\* As the error text of delete_snapshot says, `snapshot is retained by a project version': the
\* chunks of a version's snapshot stay referred to.
RetainedByVersion == AtStore => Store!RetainedByVersion
----------------------------------------------------------------------------------------------------
(* What the proofs of the components say of the composition: the scene that runs keeps the         *)
(* inductive invariant of its component.                                                           *)
WorkerPart == AtWorker => Worker!WorkerInv
LogPart == AtLog => Log!LogInv
PlanPart == AtPlan => Plan!ScheduleInv
StorePart == AtStore => Store!StoreInv

\* Every scene starts within the invariant of its component.
LEMMA ScenesInit ==
  ASSUME Init
  PROVE  WorkerPart /\ LogPart /\ PlanPart /\ StorePart
BY Worker!WorkerInitInv, Log!LogInit, Plan!ScheduleInit, Store!StoreInit, ServicesAssumption
   DEF Init, WorkerPart, LogPart, PlanPart, StorePart, AtLog, AtWorker, AtPlan, AtStore

\* A step is a step of the scene that runs.
LEMMA ScenesStep ==
  ASSUME [Next]_vars
  PROVE  /\ AtWorker' => AtWorker /\ [Worker!WorkerNext]_(Worker!allVars)
         /\ AtLog' => AtLog /\ [Log!Next]_(Log!vars)
         /\ AtPlan' => AtPlan /\ [Plan!Next]_(Plan!vars)
         /\ AtStore' => AtStore /\ [Store!Next]_(Store!vars)
<1> USE DEF Next, AtLog, AtWorker, AtPlan, AtStore, KeepLog, KeepPlan, KeepWorker, KeepStore, vars
<1>1. AtWorker' => AtWorker /\ [Worker!WorkerNext]_(Worker!allVars)
  BY DEF Worker!allVars, Worker!vars, Worker!workerVars
<1>2. AtLog' => AtLog /\ [Log!Next]_(Log!vars)
  BY DEF Log!vars, Log!logVars, Log!streamVars
<1>3. AtPlan' => AtPlan /\ [Plan!Next]_(Plan!vars)
  BY DEF Plan!vars
<1>4. AtStore' => AtStore /\ [Store!Next]_(Store!vars)
  BY DEF Store!vars
<1> QED
  BY <1>1, <1>2, <1>3, <1>4

\* The invariants of the four components hold together, whichever of them runs.
THEOREM ServicesInvariant == Spec => [](WorkerPart /\ LogPart /\ PlanPart /\ StorePart)
<1> DEFINE Parts == WorkerPart /\ LogPart /\ PlanPart /\ StorePart
<1>1. Init => Parts
  BY ScenesInit
<1>2. Parts /\ [Next]_vars => Parts'
  <2> SUFFICES ASSUME Parts, [Next]_vars PROVE Parts'
    OBVIOUS
  <2>1. WorkerPart'
    BY ScenesStep, Worker!WorkerStep, ServicesAssumption DEF WorkerPart
  <2>2. LogPart'
    BY ScenesStep, Log!LogStep, ServicesAssumption DEF LogPart
  <2>3. PlanPart'
    BY ScenesStep, Plan!ScheduleStep, ServicesAssumption DEF PlanPart
  <2>4. StorePart'
    BY ScenesStep, Store!StoreStep, ServicesAssumption DEF StorePart
  <2> QED
    BY <2>1, <2>2, <2>3, <2>4
<1> QED
  BY <1>1, <1>2, PTL DEF Spec

\* Every column and every process of worker.rs, the event log, the schedules and the snapshot storage
\* keeps its domain, a lease and a row lock their holder.
THEOREM ServicesTypeCorrect == Spec => []TypeOK
<1>1. WorkerPart /\ LogPart /\ PlanPart /\ StorePart => TypeOK
  BY Worker!WorkerInvSound, Log!LogInvSound, Plan!ScheduleInvSound, Store!StoreInvSound, ServicesAssumption
     DEF WorkerPart, LogPart, PlanPart, StorePart, TypeOK
<1> QED
  BY <1>1, ServicesInvariant, PTL

\* Mutating work in doubt is recorded as unsafe to resume (worker.rs).
THEOREM DoubtKept == Spec => []InDoubtIsUnsafe
<1>1. WorkerPart => InDoubtIsUnsafe
  BY Worker!WorkerInvSound, ServicesAssumption DEF WorkerPart, InDoubtIsUnsafe
<1> QED
  BY <1>1, ServicesInvariant, PTL

\* The event log of a run and its clients (append_event_tx, run_events): no gap, nothing twice,
\* nothing skipped.
THEOREM LogKept == Spec => []LogSound
<1>1. LogPart => LogSound
  BY Log!LogInvSound DEF LogPart, LogSound
<1> QED
  BY <1>1, ServicesInvariant, PTL

\* Every occurrence of a schedule is fired once (trigger_due_schedules).
THEOREM OccurrencesKept == Spec => []OccurrencesOnce
<1>1. PlanPart => OccurrencesOnce
  BY Plan!ScheduleInvSound DEF PlanPart, OccurrencesOnce
<1> QED
  BY <1>1, ServicesInvariant, PTL

\* What a snapshot holds is counted and can be read back, and what is expired holds nothing, up to the
\* named races (delete_snapshot, garbage_collect).
THEOREM SnapshotsKept == Spec => []SnapshotsSound
<1>1. StorePart => SnapshotsSound
  BY Store!StoreInvSound DEF StorePart, SnapshotsSound
<1> QED
  BY <1>1, ServicesInvariant, PTL
====================================================================================================
