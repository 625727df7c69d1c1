------------------------- MODULE ServerWorkerProofs -------------------------
(***************************************************************************)
(* Proofs about ServerWorker, for every set of runs and workers: every     *)
(* step of a worker is a transaction of the queue, and work in doubt is    *)
(* never recorded as safe.                                                 *)
(***************************************************************************)
EXTENDS ServerWorker, RunQueueProofs

\* A worker executes a lease of its own, over a run that nobody but itself
\* can complete or fail.  Before its work is sent, and wherever it would
\* record a safe checkpoint, complete or fail the run, the run is not in doubt.
WorkerSound(w) ==
  LET r == lease[w].run IN
  IF lease[w] = NoLease THEN ~renewing[w] ELSE
    /\ lease[w] \in granted /\ lease[w].owner = w
    /\ state[r] \notin {"completed", "failed"}
    /\ pc[w] \in {"model", "tool", "await"} => adapter[w] = "agent"
    /\ pc[w] = "report" => adapter[w] # "crew"
    /\ pc[w] \in {"model", "tool", "await", "dispatch", "completing", "fail"} => r \notin doubt
    /\ pc[w] = "report" /\ outcome[w] = "safe" => r \notin doubt
    /\ pc[w] \in {"send", "executing"} =>
         IF adapter[w] = "agent" /\ call[w] # "mutate" THEN r \notin doubt
                                                       ELSE checkpoint[r] = "unsafe"

\* A run in doubt was handed out, cannot be resumed and did not end well.
DoubtSound(r) ==
  r \in doubt =>
    /\ Dispatched(r)
    /\ checkpoint[r] = "unsafe" /\ state[r] \notin {"completed", "failed"}

WorkerInv ==
  /\ IInv
  /\ WorkerTypeOK
  /\ \A w \in Workers : WorkerSound(w)
  /\ \A r \in Runs : DoubtSound(r)
-----------------------------------------------------------------------------
\* Two workers never execute the same run: the run was handed out once.
LEMMA OwnRuns ==
  ASSUME WorkerInv, NEW v \in Workers, NEW w \in Workers, v # w,
         lease[v] # NoLease, lease[w] # NoLease
  PROVE  lease[v].run # lease[w].run
BY DEF WorkerInv, WorkerSound, IInv, DispatchedOnce

\* What a worker's lease is.
LEMMA LeaseHeld ==
  ASSUME WorkerInv, NEW w \in Workers, lease[w] # NoLease
  PROVE  /\ lease[w] \in granted /\ lease[w] \in Lease /\ lease[w].run \in Runs
         /\ lease[w].owner = w /\ pc[w] # "idle"
BY DEF WorkerInv, WorkerSound, IInv, TypeOK, Lease, WorkerTypeOK

\* A step of w that touches its own run only keeps the invariant if it keeps
\* what the invariant says of w and of that run.
LEMMA LocalStep ==
  ASSUME WorkerInv, IInv', WorkerTypeOK', NEW w \in Workers, lease[w] # NoLease,
         NEW m \in Runs, lease[w].run = m, granted' = granted,
         \A v \in Workers : v # w =>
           /\ pc'[v] = pc[v] /\ lease'[v] = lease[v] /\ adapter'[v] = adapter[v]
           /\ call'[v] = call[v] /\ outcome'[v] = outcome[v] /\ renewing'[v] = renewing[v],
         \A r \in Runs : r # m =>
           checkpoint'[r] = checkpoint[r] /\ state'[r] = state[r] /\ (r \in doubt' <=> r \in doubt),
         WorkerSound(w)', DoubtSound(m)'
  PROVE  WorkerInv'
<1>1. ASSUME NEW v \in Workers PROVE WorkerSound(v)'
  <2>1. CASE v = w
    BY <2>1
  <2>2. CASE v # w /\ lease[v] = NoLease
    BY <2>2 DEF WorkerInv, WorkerTypeOK, WorkerSound
  <2>3. CASE v # w /\ lease[v] # NoLease
    <3>1. lease[v].run # lease[w].run /\ lease[v].run \in Runs
      BY <2>3, OwnRuns, LeaseHeld
    <3>2. WorkerSound(v)
      BY DEF WorkerInv
    <3> QED
      BY <2>3, <3>1, <3>2 DEF WorkerSound
  <2> QED
    BY <2>1, <2>2, <2>3
<1>2. ASSUME NEW r \in Runs PROVE DoubtSound(r)'
  <2>1. CASE r = m
    BY <2>1
  <2>2. CASE r # m
    BY <2>2 DEF WorkerInv, DoubtSound, Dispatched
  <2> QED
    BY <2>1, <2>2
<1> QED
  BY <1>1, <1>2 DEF WorkerInv

\* A transaction of the queue that no worker makes for its run changes no
\* checkpoint and completes or fails nothing.
LEMMA OutsideStep ==
  ASSUME WorkerInv, IInv', UNCHANGED workerVars, granted' = granted, checkpoint' = checkpoint,
         \A r \in Runs : state'[r] = state[r] \/ state'[r] \notin {"completed", "failed"}
  PROVE  WorkerInv'
<1>1. WorkerTypeOK'
  BY DEF WorkerInv, WorkerTypeOK, workerVars, IInv
<1>2. ASSUME NEW v \in Workers PROVE WorkerSound(v)'
  <2>1. CASE lease[v] = NoLease
    BY <2>1 DEF WorkerInv, WorkerSound, WorkerTypeOK, workerVars
  <2>2. CASE lease[v] # NoLease
    BY <2>2, LeaseHeld DEF WorkerInv, WorkerSound, workerVars
  <2> QED
    BY <2>1, <2>2
<1>3. ASSUME NEW r \in Runs PROVE DoubtSound(r)'
  BY DEF WorkerInv, DoubtSound, Dispatched, workerVars
<1> QED
  BY <1>1, <1>2, <1>3 DEF WorkerInv
-----------------------------------------------------------------------------
\* Every step of the workers is a transaction of the queue, or leaves it alone.
LEMMA WorkerQueueStep ==
  ASSUME WorkerAssumption, WorkerInv, [WorkerNext]_allVars
  PROVE  [Next]_vars
<1>1. ASSUME NEW w \in Workers, poll_claim(w) PROVE Next
  BY <1>1 DEF poll_claim, Next, AgentStep
<1>2. ASSUME NEW w \in Workers, worker_heartbeat(w) PROVE [Next]_vars
  <2>1. lease[w] \in granted
    BY <1>2 DEF worker_heartbeat, WorkerInv, WorkerSound
  <2> QED
    BY <1>2, <2>1 DEF worker_heartbeat, Next, LeaseStep
<1>3. ASSUME NEW w \in Workers, pc[w] # "idle" PROVE lease[w] \in granted
  BY <1>3 DEF WorkerInv, WorkerTypeOK, WorkerSound
<1>4. ASSUME NEW w \in Workers, pc[w] # "idle", NEW k \in {"approval", "input"}, AskUser(w, k)
      PROVE  [Next]_vars
  BY <1>3, <1>4 DEF AskUser, Next, LeaseStep, WorkerAssumption
<1>5. ASSUME NEW w \in Workers, execute_tool(w) PROVE [Next]_vars
  BY <1>4, <1>5 DEF execute_tool
<1>6. ASSUME NEW w \in Workers, dispatch(w) \/ report_tool(w) PROVE [Next]_vars
  <2>1. lease[w] \in granted
    BY <1>3, <1>6 DEF dispatch, report_tool
  <2>2. (outcome[w] = "safe") \in BOOLEAN
    OBVIOUS
  <2> QED
    BY <1>6, <2>1, <2>2 DEF dispatch, report_tool, Next, LeaseStep
<1>7. ASSUME NEW w \in Workers, NEW s \in {"completed", "failed", "interrupted"},
             pc[w] # "idle", Settle(w, s)
      PROVE  [Next]_vars
  BY <1>3, <1>7 DEF Settle, Next, LeaseStep
<1>8. ASSUME NEW w \in Workers, complete_run(w) \/ fail_run(w) PROVE [Next]_vars
  BY <1>7, <1>8 DEF complete_run, fail_run
<1>9. ASSUME NEW w \in Workers,
             \/ model_turn(w) \/ await_request(w) \/ send_job(w) \/ job_returns(w)
             \/ read_safety(w) \/ await_fails(w) \/ crash(w)
      PROVE  UNCHANGED vars
  BY <1>9 DEF model_turn, await_request, send_job, job_returns, read_safety, await_fails, crash
<1>10. ASSUME NEW r \in Runs, NEW k \in Kinds, maintain_requests(r, k) PROVE Next
  BY <1>10 DEF maintain_requests, Next, RunStep
<1>11. ASSUME maintain_leases PROVE Next
  BY <1>11 DEF maintain_leases, Next, AgentStep
<1>12. ASSUME Outside PROVE Next
  BY <1>12 DEF Outside, Next, RunStep
<1>13. CASE UNCHANGED allVars
  BY <1>13 DEF allVars
<1> QED
  BY <1>1, <1>2, <1>5, <1>6, <1>8, <1>9, <1>10, <1>11, <1>12, <1>13 DEF WorkerNext, Execute

\* The workers start idle.
LEMMA WorkerInitInv ==
  ASSUME WorkerAssumption, WorkerInit
  PROVE  WorkerInv
<1>1. IInv
  BY QueuedIInv DEF WorkerInit
<1>2. WorkerTypeOK
  BY <1>1 DEF WorkerInit, WorkerTypeOK, IInv, Adapters, Calls, WorkerAssumption
<1>3. \A w \in Workers : WorkerSound(w)
  BY DEF WorkerInit, WorkerSound
<1>4. \A r \in Runs : DoubtSound(r)
  BY DEF WorkerInit, DoubtSound
<1> QED
  BY <1>1, <1>2, <1>3, <1>4 DEF WorkerInv
-----------------------------------------------------------------------------
\* A claim gives an idle worker a run that was never handed out before, so
\* nothing of it is in doubt and no other worker has it.
LEMMA ClaimKeeps ==
  ASSUME WorkerAssumption, WorkerInv, IInv', NEW w \in Workers, poll_claim(w)
  PROVE  WorkerInv'
<1>1. PICK r \in Runs : claim_server_run(w, r)
  BY DEF poll_claim
<1> DEFINE g == [run |-> r, owner |-> w, token |-> Cardinality(granted) + 1]
<1>2. granted' = granted \cup {g} /\ state' = [state EXCEPT ![r] = "running"]
      /\ UNCHANGED checkpoint /\ state[r] = "queued"
  BY <1>1 DEF claim_server_run, GrantLease
<1>3. /\ pc[w] = "idle" /\ lease[w] = NoLease
      /\ \E a \in Adapters :
           /\ adapter' = [adapter EXCEPT ![w] = a]
           /\ pc' = [pc EXCEPT ![w] = IF a = "agent" THEN "model" ELSE "dispatch"]
      /\ \E h \in granted' \ granted : lease' = [lease EXCEPT ![w] = h]
      /\ steps' = [steps EXCEPT ![w] = 0]
      /\ call' = [call EXCEPT ![w] = "read"]
      /\ outcome' = [outcome EXCEPT ![w] = "safe"]
      /\ renewing' = [renewing EXCEPT ![w] = TRUE]
      /\ UNCHANGED doubt
  BY DEF poll_claim, Goto, WorkerInv, WorkerTypeOK
<1>4. lease' = [lease EXCEPT ![w] = g]
  BY <1>2, <1>3
<1>5. ~Dispatched(r)
  BY <1>2 DEF WorkerInv, IInv, GrantedStarted, Dispatched, ClaimableStates
<1>6. g \in Lease /\ g # NoLease /\ g.run = r /\ g.owner = w
  BY <1>2 DEF IInv, TypeOK, WorkerAssumption, Lease
<1>7. WorkerTypeOK'
  <2>1. lease' \in [Workers -> granted' \cup {NoLease}]
    BY <1>2, <1>4 DEF WorkerInv, WorkerTypeOK
  <2>2. \A v \in Workers : (pc'[v] = "idle") <=> (lease'[v] = NoLease)
    BY <1>3, <1>4, <1>6 DEF WorkerInv, WorkerTypeOK
  <2>3. pc' \in [Workers -> {"idle", "model", "tool", "await", "dispatch", "send",
                              "executing", "report"} \cup Settling]
    BY <1>3 DEF WorkerInv, WorkerTypeOK
  <2> QED
    BY <1>3, <2>1, <2>2, <2>3 DEF WorkerInv, WorkerTypeOK, IInv, Adapters, Calls, WorkerAssumption
<1>8. ASSUME NEW v \in Workers PROVE WorkerSound(v)'
  <2>1. CASE v = w
    <3>1. lease'[v] = g /\ (pc'[v] = "dispatch" \/ (pc'[v] = "model" /\ adapter'[v] = "agent"))
      BY <1>3, <1>4, <2>1 DEF WorkerInv, WorkerTypeOK
    <3>2. r \notin doubt'
      BY <1>3, <1>5 DEF WorkerInv, DoubtSound
    <3>3. state'[r] = "running"
      BY <1>2 DEF WorkerInv, IInv, TypeOK
    <3> QED
      BY <1>2, <1>6, <2>1, <3>1, <3>2, <3>3 DEF WorkerSound
  <2>2. CASE v # w /\ lease[v] = NoLease
    BY <1>3, <1>4, <2>2 DEF WorkerInv, WorkerTypeOK, WorkerSound
  <2>3. CASE v # w /\ lease[v] # NoLease
    <3>1. lease[v].run # r /\ lease[v].run \in Runs /\ lease[v] \in granted'
      BY <1>2, <1>5, <2>3, LeaseHeld DEF Dispatched
    <3>2. /\ lease'[v] = lease[v] /\ pc'[v] = pc[v] /\ adapter'[v] = adapter[v]
          /\ call'[v] = call[v] /\ outcome'[v] = outcome[v]
      BY <1>3, <1>4, <2>3 DEF WorkerInv, WorkerTypeOK
    <3>3. state'[lease[v].run] = state[lease[v].run]
      BY <1>2, <3>1 DEF WorkerInv, IInv, TypeOK
    <3>4. WorkerSound(v)
      BY DEF WorkerInv
    <3> QED
      BY <1>2, <1>3, <2>3, <3>1, <3>2, <3>3, <3>4 DEF WorkerSound
  <2> QED
    BY <2>1, <2>2, <2>3
<1>9. ASSUME NEW q \in Runs PROVE DoubtSound(q)'
  <2>1. DoubtSound(q) /\ (q \in doubt => q # r)
    BY <1>5 DEF WorkerInv, DoubtSound
  <2> QED
    BY <1>2, <1>3, <2>1 DEF WorkerInv, IInv, TypeOK, DoubtSound, Dispatched
<1> QED
  BY <1>7, <1>8, <1>9 DEF WorkerInv

\* Where a worker may be; used with the definitions below.
LEMMA Places ==
  ASSUME WorkerInv, NEW w \in Workers, pc[w] # "idle"
  PROVE  /\ lease[w] # NoLease /\ lease[w].run \in Runs /\ lease[w] \in granted
         /\ WorkerSound(w) /\ DoubtSound(lease[w].run)
         /\ adapter[w] \in Adapters /\ call[w] \in Calls /\ outcome[w] \in {"safe", "unsafe"}
         /\ Dispatched(lease[w].run)
<1>1. lease[w] # NoLease
  BY DEF WorkerInv, WorkerTypeOK
<1> QED
  BY <1>1, LeaseHeld DEF WorkerInv, WorkerTypeOK, Dispatched

\* Moving on without a transaction and without sending or answering anything.
LEMMA ThinkKeeps ==
  ASSUME WorkerAssumption, WorkerInv, IInv', NEW w \in Workers,
         model_turn(w) \/ await_request(w) \/ await_fails(w) \/ read_safety(w)
  PROVE  WorkerInv'
<1>1. PICK m \in Runs : m = lease[w].run
  BY Places DEF model_turn, await_request, await_fails, read_safety
<1> DEFINE Place == {"idle", "model", "tool", "await", "dispatch", "send",
                     "executing", "report"} \cup Settling
<1>2. /\ pc[w] \in {"model", "await", "failing"}
      /\ UNCHANGED <<vars, lease, adapter, renewing, doubt>>
  BY DEF model_turn, await_request, await_fails, read_safety
<1>3. \E place \in Place \ {"idle"} : pc' = [pc EXCEPT ![w] = place]
  <2>1. pc = [pc EXCEPT ![w] = pc[w]]
    BY DEF WorkerInv, WorkerTypeOK
  <2> QED
    BY <1>2, <2>1 DEF model_turn, await_request, await_fails, read_safety, Goto, Output, HostError, Settling
<1>4. /\ call' = call \/ \E c \in Calls : call' = [call EXCEPT ![w] = c]
      /\ outcome' = outcome \/ \E o \in {"safe", "unsafe"} : outcome' = [outcome EXCEPT ![w] = o]
      /\ steps' = steps \/ (steps[w] < MaxSteps /\ steps' = [steps EXCEPT ![w] = @ + 1])
  BY DEF model_turn, await_request, await_fails, read_safety, Output, HostError
<1>5. WorkerTypeOK'
  BY <1>2, <1>3, <1>4 DEF WorkerInv, WorkerTypeOK, IInv, vars, WorkerAssumption
<1>6. WorkerSound(w)'
  <2>1. WorkerSound(w) /\ DoubtSound(m) /\ lease[w] # NoLease
    BY <1>1, <1>2, Places
  <2>2. CASE model_turn(w) \/ await_request(w) \/ await_fails(w)
    <3>1. pc[w] \in {"model", "await"} /\ m \notin doubt /\ adapter[w] = "agent"
      BY <1>1, <2>1, <2>2 DEF WorkerSound, model_turn, await_request, await_fails
    <3>2. pc'[w] \in {"model", "tool", "dispatch", "completing", "failing", "report"}
      BY <1>2, <2>2 DEF model_turn, await_request, await_fails, Goto, Output, HostError, WorkerInv, WorkerTypeOK
    <3> QED
      BY <1>1, <1>2, <2>1, <3>1, <3>2 DEF WorkerSound, vars
  <2>3. CASE read_safety(w)
    <3>1. pc'[w] = "interrupt" \/ (pc'[w] = "fail" /\ m \notin doubt)
      BY <1>1, <2>1, <2>3 DEF read_safety, Goto, WorkerInv, WorkerTypeOK, DoubtSound
    <3> QED
      BY <1>1, <1>2, <2>1, <3>1 DEF WorkerSound, vars
  <2> QED
    BY <2>2, <2>3
<1>7. DoubtSound(m)'
  BY <1>2 DEF WorkerInv, DoubtSound, Dispatched, vars
<1>8. \A v \in Workers : v # w =>
        /\ pc'[v] = pc[v] /\ lease'[v] = lease[v] /\ adapter'[v] = adapter[v]
        /\ call'[v] = call[v] /\ outcome'[v] = outcome[v] /\ renewing'[v] = renewing[v]
  BY <1>2, <1>3, <1>4 DEF WorkerInv, WorkerTypeOK
<1> QED
  BY <1>1, <1>2, <1>5, <1>6, <1>7, <1>8, LocalStep, Places DEF vars

\* The tool gate: a read is sent at once, anything else is refused, asked
\* about or dispatched.
LEMMA GateKeeps ==
  ASSUME WorkerAssumption, WorkerInv, IInv', NEW w \in Workers, execute_tool(w)
  PROVE  WorkerInv'
<1>1. PICK m \in Runs : m = lease[w].run
  BY Places DEF execute_tool
<1>2. /\ pc[w] = "tool" /\ lease[w] # NoLease /\ WorkerSound(w) /\ DoubtSound(m) /\ m \notin doubt
      /\ adapter[w] \in Adapters /\ call[w] \in Calls
  BY <1>1, Places DEF execute_tool, WorkerSound
<1>3. UNCHANGED <<lease, adapter, steps, call, renewing, doubt, checkpoint, granted>>
  BY DEF execute_tool, AskUser, create_request, leaseVars, vars
<1>4. state' = state \/ \E k \in Kinds : state' = [state EXCEPT ![m] = WaitState(k)]
  BY <1>1 DEF execute_tool, AskUser, create_request, vars, WorkerAssumption
<1>5. \/ pc' = [pc EXCEPT ![w] = "report"] /\ \E o \in {"safe", "unsafe"} : outcome' = [outcome EXCEPT ![w] = o]
      \/ outcome' = outcome /\ pc' = [pc EXCEPT ![w] = "await"]
      \/ outcome' = outcome /\ pc' = [pc EXCEPT ![w] = "dispatch"]
      \/ outcome' = outcome /\ pc' = [pc EXCEPT ![w] = "send"] /\ call[w] = "read"
  BY DEF execute_tool, AskUser, Output, Goto
<1>6. WorkerTypeOK'
  BY <1>2, <1>3, <1>5 DEF WorkerInv, WorkerTypeOK, IInv
<1>7. \A r \in Runs : (r # m => state'[r] = state[r])
        /\ (state'[r] = state[r] \/ state'[r] \notin {"completed", "failed"})
  BY <1>4 DEF WorkerInv, IInv, TypeOK, WaitState
<1>8. WorkerSound(w)'
  <2>1. pc'[w] \in {"report", "await", "dispatch"} \/ (pc'[w] = "send" /\ call[w] = "read")
    BY <1>5 DEF WorkerInv, WorkerTypeOK
  <2> QED
    BY <1>1, <1>2, <1>3, <1>7, <2>1 DEF WorkerSound
<1>9. DoubtSound(m)'
  BY <1>2, <1>3 DEF DoubtSound
<1>10. \A v \in Workers : v # w =>
        /\ pc'[v] = pc[v] /\ lease'[v] = lease[v] /\ adapter'[v] = adapter[v]
        /\ call'[v] = call[v] /\ outcome'[v] = outcome[v] /\ renewing'[v] = renewing[v]
  BY <1>3, <1>5 DEF WorkerInv, WorkerTypeOK
<1> QED
  BY <1>1, <1>2, <1>3, <1>6, <1>7, <1>8, <1>9, <1>10, LocalStep

\* The checkpoints: before a dispatch it says unsafe; with a tool's output it
\* says safe only if the output is, and then nothing is in doubt.
LEMMA CheckpointKeeps ==
  ASSUME WorkerAssumption, WorkerInv, IInv', NEW w \in Workers, dispatch(w) \/ report_tool(w)
  PROVE  WorkerInv'
<1>1. PICK m \in Runs : m = lease[w].run
  BY Places DEF dispatch, report_tool
<1>2. /\ pc[w] \in {"dispatch", "report"} /\ lease[w] # NoLease /\ WorkerSound(w) /\ DoubtSound(m)
      /\ adapter[w] \in Adapters /\ call[w] \in Calls /\ outcome[w] \in {"safe", "unsafe"}
  BY <1>1, Places DEF dispatch, report_tool
<1>3. UNCHANGED <<lease, adapter, steps, call, renewing, doubt, state, granted>>
  BY DEF dispatch, report_tool, create_checkpoint, rowVars, leaseVars, vars
<1>4. CASE dispatch(w)
  <2>1. m \notin doubt /\ pc[w] = "dispatch"
    BY <1>1, <1>2, <1>4 DEF dispatch, WorkerSound
  <2>2. \/ /\ checkpoint' = [checkpoint EXCEPT ![m] = "unsafe"]
           /\ pc' = [pc EXCEPT ![w] = "send"] /\ outcome' = outcome
        \/ /\ checkpoint' = checkpoint
           /\ \/ /\ adapter[w] = "agent" /\ pc' = [pc EXCEPT ![w] = "report"]
                 /\ outcome' = [outcome EXCEPT ![w] = "unsafe"]
              \/ pc' = [pc EXCEPT ![w] = "failing"] /\ outcome' = outcome
    BY <1>1, <1>4 DEF dispatch, create_checkpoint, HostError, Output, Goto, vars
  <2>3. WorkerTypeOK'
    BY <1>2, <1>3, <2>2 DEF WorkerInv, WorkerTypeOK, IInv, Settling
  <2>4. WorkerSound(w)'
    <3>1. \/ pc'[w] = "send" /\ checkpoint'[m] = "unsafe"
          \/ pc'[w] = "report" /\ adapter[w] = "agent" /\ outcome'[w] = "unsafe"
          \/ pc'[w] = "failing"
      BY <2>2 DEF WorkerInv, WorkerTypeOK, IInv, TypeOK
    <3> QED
      BY <1>1, <1>2, <1>3, <2>1, <3>1 DEF WorkerSound
  <2>5. DoubtSound(m)'
    BY <1>3, <2>1 DEF DoubtSound
  <2>6. \A v \in Workers : v # w =>
        /\ pc'[v] = pc[v] /\ lease'[v] = lease[v] /\ adapter'[v] = adapter[v]
        /\ call'[v] = call[v] /\ outcome'[v] = outcome[v] /\ renewing'[v] = renewing[v]
    BY <1>3, <2>2 DEF WorkerInv, WorkerTypeOK
  <2>7. \A r \in Runs : r # m => checkpoint'[r] = checkpoint[r]
    BY <2>2 DEF WorkerInv, IInv, TypeOK
  <2> QED
    BY <1>1, <1>2, <1>3, <2>3, <2>4, <2>5, <2>6, <2>7, LocalStep
<1>5. CASE report_tool(w)
  <2>1. /\ pc[w] = "report" /\ adapter[w] # "crew" /\ outcome' = outcome
        /\ outcome[w] = "safe" => m \notin doubt
    BY <1>1, <1>2, <1>5 DEF report_tool, WorkerSound
  <2>2. \/ /\ checkpoint' = [checkpoint EXCEPT ![m] = IF outcome[w] = "safe" THEN "safe" ELSE "unsafe"]
           /\ pc' = [pc EXCEPT ![w] = IF outcome[w] = "unsafe" THEN "failing"
                                      ELSE IF adapter[w] = "sandbox" THEN "completing" ELSE "model"]
        \/ checkpoint' = checkpoint /\ pc' = [pc EXCEPT ![w] = "failing"]
    BY <1>1, <1>5 DEF report_tool, create_checkpoint, Goto, vars
  <2>3. WorkerTypeOK'
    BY <1>2, <1>3, <2>1, <2>2 DEF WorkerInv, WorkerTypeOK, IInv, Settling
  <2>4. WorkerSound(w)'
    <3>1. \/ pc'[w] = "failing"
          \/ pc'[w] = "completing" /\ m \notin doubt
          \/ pc'[w] = "model" /\ m \notin doubt /\ adapter[w] = "agent"
      BY <1>2, <2>1, <2>2 DEF WorkerInv, WorkerTypeOK, Adapters
    <3> QED
      BY <1>1, <1>2, <1>3, <3>1 DEF WorkerSound
  <2>5. DoubtSound(m)'
    <3>1. m \in doubt => checkpoint'[m] = "unsafe"
      BY <1>2, <2>1, <2>2 DEF DoubtSound, WorkerInv, IInv, TypeOK
    <3> QED
      BY <1>2, <1>3, <3>1 DEF DoubtSound, Dispatched
  <2>6. \A v \in Workers : v # w =>
        /\ pc'[v] = pc[v] /\ lease'[v] = lease[v] /\ adapter'[v] = adapter[v]
        /\ call'[v] = call[v] /\ outcome'[v] = outcome[v] /\ renewing'[v] = renewing[v]
    BY <1>3, <2>1, <2>2 DEF WorkerInv, WorkerTypeOK
  <2>7. \A r \in Runs : r # m => checkpoint'[r] = checkpoint[r]
    BY <2>2 DEF WorkerInv, IInv, TypeOK
  <2> QED
    BY <1>1, <1>2, <1>3, <2>3, <2>4, <2>5, <2>6, <2>7, LocalStep
<1> QED
  BY <1>4, <1>5

\* Sending mutating work puts the run in doubt, its success takes it out.
LEMMA JobKeeps ==
  ASSUME WorkerAssumption, WorkerInv, IInv', NEW w \in Workers, send_job(w) \/ job_returns(w)
  PROVE  WorkerInv'
<1>1. PICK m \in Runs : m = lease[w].run
  BY Places DEF send_job, job_returns
<1>2. /\ pc[w] \in {"send", "executing"} /\ lease[w] # NoLease /\ WorkerSound(w) /\ DoubtSound(m)
      /\ adapter[w] \in Adapters /\ call[w] \in Calls /\ Dispatched(m)
  BY <1>1, Places DEF send_job, job_returns
<1>3. UNCHANGED <<vars, lease, adapter, steps, call, renewing>>
  BY DEF send_job, job_returns
<1>4. /\ state[m] \notin {"completed", "failed"}
      /\ \/ adapter[w] = "agent" /\ call[w] # "mutate" /\ m \notin doubt
         \/ ~(adapter[w] = "agent" /\ call[w] # "mutate") /\ checkpoint[m] = "unsafe"
  BY <1>1, <1>2 DEF WorkerSound
<1>5. /\ doubt' \in {doubt, doubt \cup {m}, doubt \ {m}}
      /\ \/ /\ pc' = [pc EXCEPT ![w] = "executing"] /\ outcome' = outcome
            /\ doubt' = IF adapter[w] # "agent" \/ call[w] = "mutate" THEN doubt \cup {m} ELSE doubt
         \/ /\ pc' = [pc EXCEPT ![w] = "report"] /\ outcome' = [outcome EXCEPT ![w] = "safe"]
            /\ adapter[w] # "crew"
            /\ doubt' = IF call[w] = "mutate" \/ adapter[w] = "sandbox" THEN doubt \ {m} ELSE doubt
         \/ pc' = [pc EXCEPT ![w] = "completing"] /\ outcome' = outcome /\ doubt' = doubt \ {m}
         \/ /\ pc' = [pc EXCEPT ![w] = "report"] /\ outcome' = [outcome EXCEPT ![w] = "unsafe"]
            /\ adapter[w] = "agent" /\ doubt' = doubt
         \/ pc' = [pc EXCEPT ![w] = "failing"] /\ outcome' = outcome /\ doubt' = doubt
  BY <1>1 DEF send_job, job_returns, HostError, Output, Goto
<1>6. WorkerTypeOK'
  BY <1>2, <1>3, <1>5 DEF WorkerInv, WorkerTypeOK, IInv, Settling, vars
<1>7. WorkerSound(w)'
  <2>1. \/ /\ pc'[w] = "executing"
           /\ (adapter[w] = "agent" /\ call[w] # "mutate") => doubt' = doubt
        \/ pc'[w] = "report" /\ outcome'[w] = "safe" /\ adapter[w] # "crew" /\ m \notin doubt'
        \/ pc'[w] = "report" /\ outcome'[w] = "unsafe" /\ adapter[w] = "agent"
        \/ pc'[w] = "completing" /\ m \notin doubt'
        \/ pc'[w] = "failing"
    BY <1>2, <1>4, <1>5 DEF WorkerInv, WorkerTypeOK, Adapters
  <2> QED
    BY <1>1, <1>2, <1>3, <1>4, <2>1 DEF WorkerSound, vars
<1>8. DoubtSound(m)'
  <2>1. m \in doubt' => checkpoint[m] = "unsafe"
    BY <1>2, <1>4, <1>5 DEF DoubtSound
  <2> QED
    BY <1>2, <1>3, <1>4, <2>1 DEF DoubtSound, Dispatched, vars
<1>9. \A v \in Workers : v # w =>
        /\ pc'[v] = pc[v] /\ lease'[v] = lease[v] /\ adapter'[v] = adapter[v]
        /\ call'[v] = call[v] /\ outcome'[v] = outcome[v] /\ renewing'[v] = renewing[v]
  BY <1>3, <1>5 DEF WorkerInv, WorkerTypeOK
<1>10. \A r \in Runs : r # m => (r \in doubt' <=> r \in doubt)
  BY <1>5
<1> QED
  BY <1>1, <1>2, <1>3, <1>6, <1>7, <1>8, <1>9, <1>10, LocalStep DEF vars

\* The end of an execution; a crash is an end without a transaction.
LEMMA SettleKeeps ==
  ASSUME WorkerAssumption, WorkerInv, IInv', NEW w \in Workers,
         complete_run(w) \/ fail_run(w) \/ crash(w)
  PROVE  WorkerInv'
<1>1. PICK m \in Runs : m = lease[w].run
  BY Places DEF complete_run, fail_run, crash
<1>2. /\ pc[w] # "idle" /\ lease[w] # NoLease /\ WorkerSound(w) /\ DoubtSound(m) /\ Dispatched(m)
  BY <1>1, Places DEF complete_run, fail_run, crash
<1>3. /\ UNCHANGED <<adapter, steps, call, outcome, doubt, granted, checkpoint>>
      /\ pc' = [pc EXCEPT ![w] = "idle"] /\ lease' = [lease EXCEPT ![w] = NoLease]
      /\ renewing' = [renewing EXCEPT ![w] = FALSE]
  BY DEF complete_run, fail_run, crash, Settle, finish_leased_run, EndLeases, Goto, vars
<1>4. \/ state' = state
      \/ state' = [r \in Runs |-> IF r \in {m} THEN "interrupted" ELSE state[r]]
      \/ /\ \E s \in {"completed", "failed"} :
              state' = [r \in Runs |-> IF r \in {m} THEN s ELSE state[r]]
         /\ pc[w] \in {"completing", "fail"}
  BY <1>1 DEF complete_run, fail_run, crash, Settle, finish_leased_run, EndLeases, vars
<1>5. pc[w] \in {"completing", "fail"} => m \notin doubt
  BY <1>1, <1>2 DEF WorkerSound
<1>6. WorkerTypeOK'
  BY <1>3 DEF WorkerInv, WorkerTypeOK, IInv
<1>7. WorkerSound(w)'
  BY <1>3 DEF WorkerSound, WorkerInv, WorkerTypeOK
<1>8. m \in doubt => state'[m] \notin {"completed", "failed"}
  BY <1>2, <1>4, <1>5 DEF DoubtSound
<1>9. DoubtSound(m)'
  BY <1>2, <1>3, <1>8 DEF DoubtSound, Dispatched
<1>10. \A v \in Workers : v # w =>
        /\ pc'[v] = pc[v] /\ lease'[v] = lease[v] /\ adapter'[v] = adapter[v]
        /\ call'[v] = call[v] /\ outcome'[v] = outcome[v] /\ renewing'[v] = renewing[v]
  BY <1>3 DEF WorkerInv, WorkerTypeOK
<1>11. \A r \in Runs : r # m => state'[r] = state[r]
  BY <1>4
<1> QED
  BY <1>1, <1>2, <1>3, <1>6, <1>7, <1>9, <1>10, <1>11, LocalStep

\* The heartbeat task renews the lease or ends.
LEMMA HeartbeatKeeps ==
  ASSUME WorkerInv, IInv', NEW w \in Workers, worker_heartbeat(w)
  PROVE  WorkerInv'
<1>1. /\ UNCHANGED <<pc, lease, adapter, steps, call, outcome, doubt, state, granted, checkpoint>>
      /\ renewing' = renewing \/ renewing' = [renewing EXCEPT ![w] = FALSE]
  BY DEF worker_heartbeat, renew_lease, rowVars, vars
<1>2. WorkerTypeOK'
  BY <1>1 DEF WorkerInv, WorkerTypeOK, IInv
<1>3. \A v \in Workers : WorkerSound(v)'
  BY <1>1 DEF WorkerInv, WorkerTypeOK, WorkerSound
<1>4. \A r \in Runs : DoubtSound(r)'
  BY <1>1 DEF WorkerInv, DoubtSound, Dispatched
<1> QED
  BY <1>2, <1>3, <1>4 DEF WorkerInv

\* Users, the clock and the maintenance of the queue.
LEMMA EnvironmentKeeps ==
  ASSUME WorkerInv, IInv',
         Outside \/ maintain_leases \/ \E r \in Runs, k \in Kinds : maintain_requests(r, k)
  PROVE  WorkerInv'
<1>1. UNCHANGED workerVars
  BY DEF Outside, maintain_leases, maintain_requests
<1> DEFINE Harmless == /\ granted' = granted /\ checkpoint' = checkpoint
                       /\ \A r \in Runs : state'[r] = state[r] \/ state'[r] \notin {"completed", "failed"}
<1> USE DEF WorkerInv, IInv, TypeOK, rowVars, leaseVars
<1>2. ASSUME interrupt_expired_leases PROVE Harmless
  BY <1>2 DEF interrupt_expired_leases, EndLeases
<1>3. ASSUME NEW r \in Runs, NEW s \in {"canceled", "expired"}, transition_run(r, s) PROVE Harmless
  BY <1>3 DEF transition_run
<1>4. ASSUME NEW r \in Runs, cancel_run(r) \/ LeaseExpires(r) PROVE Harmless
  BY <1>3, <1>4 DEF cancel_run, LeaseExpires
<1>5. ASSUME NEW r \in Runs, NEW k \in Kinds, expire_run(r, k) PROVE Harmless
  BY <1>3, <1>5 DEF expire_run
<1>6. ASSUME NEW r \in Runs, NEW k \in Kinds,
             expire_request(r, k) \/ expire_read_run(r, k) \/ expire_forgotten(r, k)
      PROVE  Harmless
  BY <1>6 DEF expire_request, expire_read_run, expire_forgotten
<1>7. ASSUME NEW r \in Runs, NEW k \in Kinds, answer_request(r, k) PROVE Harmless
  BY <1>7 DEF answer_request, resume_waiting_run, EndLeases
<1>8. Harmless
  BY <1>2, <1>4, <1>5, <1>6, <1>7 DEF Outside, maintain_leases, maintain_requests
<1> QED
  BY <1>1, <1>8, OutsideStep

\* What the invariant says of work in doubt.
LEMMA WorkerInvSound ==
  ASSUME WorkerInv
  PROVE  WorkerTypeOK /\ InDoubtIsUnsafe
BY DEF WorkerInv, WorkerTypeOK, DoubtSound, InDoubtIsUnsafe

\* Every step keeps the invariant.
LEMMA WorkerStep ==
  ASSUME WorkerAssumption, WorkerInv, [WorkerNext]_allVars
  PROVE  WorkerInv'
<1>1. IInv'
  BY WorkerQueueStep, StepIInv DEF WorkerInv
<1>2. CASE UNCHANGED allVars
  BY <1>1, <1>2, OutsideStep DEF allVars, vars
<1>3. CASE WorkerNext
  BY <1>1, <1>3, ClaimKeeps, ThinkKeeps, GateKeeps, CheckpointKeeps, JobKeeps, SettleKeeps,
     HeartbeatKeeps, EnvironmentKeeps DEF WorkerNext, Execute
<1> QED
  BY <1>2, <1>3
-----------------------------------------------------------------------------
\* The inductive invariant of the workers over the queue.
THEOREM WorkerInvariant ==
  ASSUME WorkerAssumption
  PROVE  WorkerSpec => []WorkerInv
BY WorkerInitInv, WorkerStep, PTL DEF WorkerSpec

\* Every worker is at a known place and executes a lease it was granted.
THEOREM WorkerTypeCorrect ==
  ASSUME WorkerAssumption
  PROVE  WorkerSpec => []WorkerTypeOK
BY WorkerInvariant, PTL DEF WorkerInv

\* While mutating work is in doubt, the run's latest checkpoint says unsafe and
\* the run is neither completed nor failed, for any number of workers, whatever
\* crashes, is cancelled, expires or fails in execute_run.
THEOREM DoubtRecorded ==
  ASSUME WorkerAssumption
  PROVE  WorkerSpec => []InDoubtIsUnsafe
<1>1. WorkerInv => InDoubtIsUnsafe
  BY WorkerInvSound
<1> QED
  BY <1>1, WorkerInvariant, PTL

\* Every step of the workers is a transaction of the queue (or none), so that
\* what is proved of the queue's steps holds of the workers.
THEOREM WorkersUseQueue ==
  ASSUME WorkerAssumption
  PROVE  WorkerSpec => [][Next]_vars
BY WorkerInvariant, WorkerQueueStep, PTL DEF WorkerSpec

\* Under the workers (worker::run, execute_run) with their crashes and error
\* paths the queue keeps its promises, and a run goes through the phases of
\* RunPhases once.
THEOREM WorkersKeepQueue ==
  ASSUME WorkerAssumption
  PROVE  WorkerSpec =>
           /\ [](LeaseMatchesState /\ DispatchedOnce /\ SerialUnlessOvertaken /\ WaitsForOpenRequest)
           /\ LegalTransitions
           /\ [][Phases!Next]_<<[r \in Runs |-> PhaseOf(state[r])], assigned>>
<1>1. WorkerInv => LeaseMatchesState /\ DispatchedOnce /\ SerialUnlessOvertaken /\ WaitsForOpenRequest
  BY QueuePromises DEF WorkerInv
<1>2. WorkerInv /\ [Next]_vars =>
        [\A r \in Runs : Inserted(r) => can_transition_to(state[r], state'[r])]_vars
  BY LegalStep DEF WorkerInv
<1>3. WorkerInv /\ WorkerInv' /\ [Next]_vars =>
        [Phases!Next]_<<[r \in Runs |-> PhaseOf(state[r])], assigned>>
  BY PhasesStep DEF WorkerInv
<1> QED
  BY <1>1, <1>2, <1>3, WorkerInvariant, WorkersUseQueue, PTL DEF LegalTransitions
=============================================================================
