---------------------------- MODULE ServerWorker ----------------------------
(***************************************************************************)
(* The worker process of the control plane: the poll loop worker::run, the *)
(* execution of one claimed run (execute_run, with its agent, crew and     *)
(* sandbox adapters and the turn loop of cowork-runtime), the tool gate    *)
(* execute_tool and the waits for approvals and inputs, on top of the run  *)
(* queue.  A worker executes its run inside the poll loop: the maintenance *)
(* of the queue is done only by workers that execute nothing.              *)
(*                                                                         *)
(* Several tool calls in one model answer are turns of their own here;     *)
(* events are left out, except that appending one needs a valid lease.     *)
(***************************************************************************)
EXTENDS RunQueue

CONSTANTS
  NoLease,   \* the worker executes nothing
  MaxSteps   \* max_steps of the agent runtime

WorkerAssumption ==
  /\ MaxSteps \in Nat /\ NoLease \notin Lease
  /\ Kinds = {"approval", "input"}

VARIABLES
  pc,        \* pc[w]: where the worker is
  lease,     \* lease[w]: the lease it executes
  adapter,   \* adapter[w]: which execute_*_run the run's frozen input selects
  steps,     \* steps[w]: model turns taken
  call,      \* call[w]: the tool call being handled
  outcome,   \* outcome[w]: safe_to_resume of the tool's output
  renewing,  \* renewing[w]: the heartbeat task of execute_run is alive
  doubt      \* history: mutating work of r was sent, its success never seen

workerVars == <<pc, lease, adapter, steps, call, outcome, renewing, doubt>>
allVars == <<vars, workerVars>>

Adapters == {"agent", "crew", "sandbox"}
Calls == {"read", "mutate", "ask"}
Settling == {"completing", "failing", "fail", "interrupt"}

\* Every worker is at a known place and executes a lease it was granted.
WorkerTypeOK ==
  /\ TypeOK
  /\ pc \in [Workers -> {"idle", "model", "tool", "await", "dispatch", "send",
                         "executing", "report"} \cup Settling]
  /\ lease \in [Workers -> granted \cup {NoLease}]
  /\ adapter \in [Workers -> Adapters] /\ steps \in [Workers -> 0..MaxSteps]
  /\ call \in [Workers -> Calls] /\ outcome \in [Workers -> {"safe", "unsafe"}]
  /\ renewing \in [Workers -> BOOLEAN] /\ doubt \subseteq Runs
  /\ \A w \in Workers : (pc[w] = "idle") <=> (lease[w] = NoLease)

WorkerInit ==
  /\ QueuedInit
  /\ pc = [w \in Workers |-> "idle"]
  /\ lease = [w \in Workers |-> NoLease]
  /\ adapter = [w \in Workers |-> "agent"]
  /\ steps = [w \in Workers |-> 0]
  /\ call = [w \in Workers |-> "read"]
  /\ outcome = [w \in Workers |-> "safe"]
  /\ renewing = [w \in Workers |-> FALSE]
  /\ doubt = {}

Leased(w) == verify_lease(lease[w])
Goto(w, place) == pc' = [pc EXCEPT ![w] = place]

\* The tool's output goes to the runtime, which reports and checkpoints it.
Output(w, safety) ==
  Goto(w, "report") /\ outcome' = [outcome EXCEPT ![w] = safety]

\* An error of the host becomes an unsafe output of the agent's tool; the
\* other adapters return it from execute_run.
HostError(w) ==
  IF adapter[w] = "agent" THEN Output(w, "unsafe")
                          ELSE Goto(w, "failing") /\ UNCHANGED outcome
-----------------------------------------------------------------------------
(* The poll loop.                                                          *)

poll_claim(w) ==
  /\ pc[w] = "idle"
  /\ \E r \in Runs : claim_server_run(w, r)
  /\ \E a \in Adapters :
       /\ adapter' = [adapter EXCEPT ![w] = a]
       /\ Goto(w, IF a = "agent" THEN "model" ELSE "dispatch")
  /\ \E g \in granted' \ granted : lease' = [lease EXCEPT ![w] = g]
  /\ steps' = [steps EXCEPT ![w] = 0]
  /\ call' = [call EXCEPT ![w] = "read"]
  /\ outcome' = [outcome EXCEPT ![w] = "safe"]
  /\ renewing' = [renewing EXCEPT ![w] = TRUE]
  /\ UNCHANGED doubt

\* The maintenance of one tick: expired leases, expired requests.
maintain_requests(r, k) ==
  /\ \E w \in Workers : pc[w] = "idle"
  /\ expire_request(r, k) \/ expire_read_run(r, k) \/ expire_run(r, k)
  /\ UNCHANGED workerVars

maintain_leases ==
  /\ \E w \in Workers : pc[w] = "idle"
  /\ interrupt_expired_leases
  /\ UNCHANGED workerVars
-----------------------------------------------------------------------------
(* execute_run.                                                            *)

\* The heartbeat task: it ends with the first renewal that is refused or
\* fails, and is aborted when the execution is over.
worker_heartbeat(w) ==
  /\ renewing[w] /\ pc[w] \notin Settling
  /\ \/ renew_lease(lease[w]) /\ UNCHANGED renewing
     \/ UNCHANGED vars /\ renewing' = [renewing EXCEPT ![w] = FALSE]
  /\ UNCHANGED <<pc, lease, adapter, steps, call, outcome, doubt>>

\* Mutant: one turn too many.
model_turn_off_by_one(w) ==
  /\ pc[w] = "model"
  /\ \/ Goto(w, "failing") /\ UNCHANGED <<steps, call>>
     \/ /\ Leased(w) /\ steps[w] <= MaxSteps
        /\ \E c \in Calls : call' = [call EXCEPT ![w] = c]
        /\ steps' = [steps EXCEPT ![w] = @ + 1]
        /\ Goto(w, "tool")
  /\ UNCHANGED <<vars, lease, adapter, outcome, renewing, doubt>>

\* One turn of AgentRuntime::execute: quota, ModelStarted, the model's
\* answer, ModelCompleted and ToolStarted; any of them may fail.  The answer
\* is final, or a tool call; the call of an unknown tool only costs the turn.
model_turn(w) ==
  /\ pc[w] = "model"
  /\ \/ Goto(w, "failing") /\ UNCHANGED <<steps, call>>
     \/ /\ Leased(w) /\ steps[w] < MaxSteps
        /\ steps' = [steps EXCEPT ![w] = @ + 1]
        /\ \/ Goto(w, "completing") /\ UNCHANGED call
           \/ UNCHANGED <<pc, call>>
           \/ Goto(w, "tool") /\ \E c \in Calls : call' = [call EXCEPT ![w] = c]
  /\ UNCHANGED <<vars, lease, adapter, outcome, renewing, doubt>>

\* The first transaction of await_worker_approval / await_worker_input.
AskUser(w, k) ==
  LET g == lease[w]
      asks == verify_lease(g) /\ state[g.run] = "running" /\ request[g.run][k] # "pending"
  IN \/ create_request(g, k) /\ Goto(w, "await") /\ UNCHANGED outcome
     \/ ~asks /\ UNCHANGED vars /\ Output(w, "unsafe")

\* Mutant: the call is not in the list of mutating tools.
execute_tool_unlisted(w) ==
  /\ pc[w] = "tool"
  /\ \/ call[w] = "ask" /\ AskUser(w, "input")
     \/ call[w] # "ask" /\ UNCHANGED <<vars, outcome>> /\ Goto(w, "send")
  /\ UNCHANGED <<lease, adapter, steps, call, renewing, doubt>>

\* execute_tool: the policy of the project decides about a mutating call.
execute_tool(w) ==
  /\ pc[w] = "tool"
  /\ \/ call[w] = "ask" /\ AskUser(w, "input")
     \/ call[w] = "read" /\ UNCHANGED <<vars, outcome>> /\ Goto(w, "send")
     \/ call[w] = "mutate" /\ UNCHANGED vars /\ Output(w, "safe")  \* read_only
     \/ call[w] = "mutate" /\ AskUser(w, "approval")               \* confirm_mutations
     \/ call[w] = "mutate" /\ UNCHANGED <<vars, outcome>> /\ Goto(w, "dispatch")
  /\ UNCHANGED <<lease, adapter, steps, call, renewing, doubt>>

\* The polling loop of await_worker_approval / await_worker_input looks at
\* the request only.  An answer to an approval may be yes or no.
await_request(w) ==
  LET k == IF call[w] = "ask" THEN "input" ELSE "approval"
      status == request[lease[w].run][k]
  IN
  /\ pc[w] = "await" /\ status # "pending"
  /\ \/ Output(w, "safe")
     \/ status = "answered" /\ k = "approval" /\ Goto(w, "dispatch") /\ UNCHANGED outcome
  /\ UNCHANGED <<vars, lease, adapter, steps, call, renewing, doubt>>

\* A read of the polling loop fails, which is an error of the tool; the
\* request stays as it is.
await_fails(w) ==
  /\ pc[w] = "await" /\ HostError(w)
  /\ UNCHANGED <<vars, lease, adapter, steps, call, renewing, doubt>>

\* The unsafe checkpoint that precedes the dispatch, or an error before it
\* (a lost lease, a missing runner, an exhausted quota).
dispatch(w) ==
  /\ pc[w] = "dispatch"
  /\ \/ create_checkpoint(lease[w], FALSE) /\ Goto(w, "send") /\ UNCHANGED outcome
     \/ UNCHANGED vars /\ HostError(w)
  /\ UNCHANGED <<lease, adapter, steps, call, renewing, doubt>>

\* The job goes to the sandbox runner, or is refused before it is sent: bad
\* arguments, or no lease for the event that announces it.
send_job(w) ==
  LET r == lease[w].run IN
  /\ pc[w] = "send"
  /\ \/ /\ adapter[w] = "agent" \/ Leased(w)
        /\ Goto(w, "executing")
        /\ doubt' = IF adapter[w] # "agent" \/ call[w] = "mutate"
                      THEN doubt \cup {r} ELSE doubt
        /\ UNCHANGED outcome
     \/ HostError(w) /\ UNCHANGED doubt
  /\ UNCHANGED <<vars, lease, adapter, steps, call, renewing>>

\* The runner answers.  Success of a tool or sandbox job is reported, of a
\* crew job it completes the run; failure, or silence, is an error.
job_returns(w) ==
  LET r == lease[w].run IN
  /\ pc[w] = "executing"
  /\ \/ /\ adapter[w] # "crew" /\ Output(w, "safe")
        /\ doubt' = IF call[w] = "mutate" \/ adapter[w] = "sandbox"
                      THEN doubt \ {r} ELSE doubt
     \/ /\ adapter[w] = "crew" /\ Leased(w)
        /\ Goto(w, "completing") /\ doubt' = doubt \ {r} /\ UNCHANGED outcome
     \/ HostError(w) /\ UNCHANGED doubt
  /\ UNCHANGED <<vars, lease, adapter, steps, call, renewing>>

\* ToolCompleted or ToolFailed, then the checkpoint with the output's safety
\* (either may fail); an unsafe output ends the run.
report_tool(w) ==
  /\ pc[w] = "report"
  /\ \/ /\ create_checkpoint(lease[w], outcome[w] = "safe")
        /\ Goto(w, IF outcome[w] = "unsafe" THEN "failing"
                   ELSE IF adapter[w] = "sandbox" THEN "completing" ELSE "model")
     \/ UNCHANGED vars /\ Goto(w, "failing")
  /\ UNCHANGED <<lease, adapter, steps, call, outcome, renewing, doubt>>

\* The execution is over: back to the poll loop, whatever the queue says.
Settle(w, result) ==
  /\ \/ finish_leased_run(lease[w], result)
     \/ /\ ~(Leased(w) /\ can_transition_to(state[lease[w].run], result))
        /\ UNCHANGED vars
  /\ Goto(w, "idle")
  /\ lease' = [lease EXCEPT ![w] = NoLease]
  /\ renewing' = [renewing EXCEPT ![w] = FALSE]
  /\ UNCHANGED <<adapter, steps, call, outcome, doubt>>

complete_run(w) == pc[w] = "completing" /\ Settle(w, "completed")

\* The error branch of execute_run reads the latest checkpoint ...
read_safety(w) ==
  /\ pc[w] = "failing"
  /\ Goto(w, IF checkpoint[lease[w].run] = "unsafe" THEN "interrupt" ELSE "fail")
  /\ UNCHANGED <<vars, lease, adapter, steps, call, outcome, renewing, doubt>>

\* ... and then fails or interrupts the run.
fail_run(w) ==
  \/ pc[w] = "fail" /\ Settle(w, "failed")
  \/ pc[w] = "interrupt" /\ Settle(w, "interrupted")

\* The process is killed and started again; an error of the transaction that
\* settles the run has the same effect.
crash(w) ==
  /\ pc[w] # "idle"
  /\ Goto(w, "idle")
  /\ lease' = [lease EXCEPT ![w] = NoLease]
  /\ renewing' = [renewing EXCEPT ![w] = FALSE]
  /\ UNCHANGED <<vars, adapter, steps, call, outcome, doubt>>
-----------------------------------------------------------------------------
\* The steps of an execution, which the process takes by itself.
Execute(w) ==
  \/ model_turn(w) \/ execute_tool(w) \/ await_request(w) \/ dispatch(w)
  \/ send_job(w) \/ job_returns(w) \/ report_tool(w) \/ complete_run(w)
  \/ read_safety(w) \/ fail_run(w)

\* Users, the clock, and a maintenance tick cut short.
Outside ==
  /\ UNCHANGED workerVars
  /\ \E r \in Runs : \/ cancel_run(r) \/ LeaseExpires(r)
                     \/ \E k \in Kinds : answer_request(r, k) \/ expire_forgotten(r, k)

WorkerNext ==
  \/ \E w \in Workers : poll_claim(w) \/ worker_heartbeat(w) \/ Execute(w) \/ await_fails(w) \/ crash(w)
  \/ \E r \in Runs, k \in Kinds : maintain_requests(r, k)
  \/ maintain_leases
  \/ Outside

\* A lease whose holder no longer renews it.
Lapses(r) ==
  /\ LeaseExpires(r)
  /\ \A w \in Workers : ~(renewing[w] /\ lease[w].run = r)
  /\ UNCHANGED workerVars

\* Executions go on (the model and the runner have time limits), idle workers
\* keep polling, and leases that nobody renews expire.  Nothing is assumed of
\* the users.
WorkerFairness ==
  /\ \A w \in Workers : WF_allVars(Execute(w)) /\ WF_allVars(worker_heartbeat(w) /\ ~LeaseMatches(lease[w]))
  /\ \A r \in Runs : WF_allVars(Lapses(r))
  /\ \A r \in Runs, k \in Kinds : WF_allVars(maintain_requests(r, k))
  /\ WF_allVars(maintain_leases)

WorkerSpec == WorkerInit /\ [][WorkerNext]_allVars /\ WorkerFairness
-----------------------------------------------------------------------------
\* While mutating work is in doubt (sent, and its success not seen by a
\* worker) the run's latest checkpoint says it is unsafe to resume and the
\* run is neither completed nor failed (which would say it is safe to resume):
\* crash, lease loss and the error paths of execute_run included.
InDoubtIsUnsafe ==
  \A r \in doubt : checkpoint[r] = "unsafe" /\ state[r] \notin {"completed", "failed"}

Busy(w) == pc[w] # "idle"
HasLease(r) == state[r] \in LeasedStates
Asks(r, k) == request[r][k] = "pending"

\* A worker that took a run gets free again, although it polls only the
\* request and never the run: a run cancelled or interrupted while it waits
\* for an answer does not hold its worker for ever.  Needs a second worker.
WorkerFreed == \A w \in Workers : Busy(w) ~> ~Busy(w)

\* No run is left in a leased state: whatever crashes or is lost, the run
\* completes, fails, expires, is cancelled or is interrupted.
LeasedRunsEnd == \A r \in Runs : HasLease(r) ~> ~HasLease(r)

\* As documented: waiting approvals and input requests expire (if nobody
\* answers them).
RequestsExpire == \A r \in Runs, k \in Kinds : Asks(r, k) ~> ~Asks(r, k)
=============================================================================
