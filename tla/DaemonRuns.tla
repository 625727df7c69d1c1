----------------------------- MODULE DaemonRuns -----------------------------
(***************************************************************************)
(* The run queue and the schedules of the local daemon                     *)
(* (agents/cowork-local-daemon/src/main.rs).  Three tasks share one SQLite *)
(* connection behind a mutex: serve_ipc answers the desktop application,   *)
(* scheduler_loop turns due schedules into runs, and worker_loop executes  *)
(* one run at a time over all threads.  A run that waits for an approval   *)
(* or an input keeps the worker; a run in doubt is set aside as            *)
(* "interrupted" and holds back the later runs of its thread.              *)
(*                                                                         *)
(* A run is an index into the sequence runs, which is in created_at order. *)
(***************************************************************************)
EXTENDS Integers, Sequences, SequencesExt, FiniteSets

CONSTANTS Threads,      \* conversation threads
          UserKeys,     \* idempotency keys the desktop application may send
          Schedules,    \* schedule identifiers
          Policies,     \* tool policies a run may be created with
          MaxRuns,      \* bound on the runs ever created
          MaxClock,     \* bound on the clock of the schedules
          MaxSteps,     \* max_steps of the agent configuration
          MaxFaults,    \* bound on failed loads and missing metadata
          MaxCrashes    \* bound on crashes and shutdowns

VARIABLES runs,     \* daemon_runs with their configs, checkpoints, requests
          worker,   \* what worker_loop holds: [pc, run, steps, tool]
          sched,    \* daemon_schedules: [row, next]; next = 0 is NULL
          due,      \* occurrences claimed by scheduler_loop, not yet triggered
          prepared, \* the template of Head(due) has been refreshed
          now,      \* the clock, in schedule intervals
          present,  \* which of "metadata" and "binding" a schedule would find
          up,       \* the daemon process is running
          faults, crashes,
          claimed,  \* history: occurrences claimed
          lost      \* history: claimed occurrences dropped by an error or exit

vars == <<runs, worker, sched, due, prepared, now, present, up, faults, crashes,
          claimed, lost>>

Terminal == {"completed", "failed", "canceled", "expired"}
Active == {"running", "waiting_approval", "waiting_input"}

Idle == [pc |-> "idle", run |-> 0, steps |-> 0, tool |-> "none"]

Ids == DOMAIN runs

(* create_run after its checks: one row, its configuration and its event   *)
(* in one transaction; a known idempotency key returns the existing row.   *)
NewRun(thread, key, policy) ==
  [thread |-> thread, key |-> key, policy |-> policy, st |-> "queued",
   cfg |-> TRUE, cp |-> "none", req |-> "none"]

(* Without the look-up of the idempotency key. *)
Known_never(key) == FALSE

Known(key) == \E i \in Ids : runs[i].key = key

Created(thread, key, policy) ==
  IF Known(key) THEN runs ELSE Append(runs, NewRun(thread, key, policy))

(* load_provider_binding, load_mcp_binding: the secrets of this device. *)
Bindings == "binding" \in present

(* schedule_entity: a live copy of the project, task, profile and crew.    *)
Metadata == "metadata" \in present

Init ==
  /\ runs = <<>>
  /\ worker = Idle
  /\ sched = [s \in Schedules |-> [row |-> "absent", next |-> 0]]
  /\ due = <<>> /\ prepared = FALSE
  /\ now = 1 /\ present = {"metadata", "binding"} /\ up = TRUE
  /\ faults = 0 /\ crashes = 0
  /\ claimed = {} /\ lost = {}

-----------------------------------------------------------------------------
(* serve_ipc: what the desktop application asks for.                       *)

create_run(thread, key, policy) ==
  /\ up /\ Bindings
  /\ Len(runs) < MaxRuns /\ ~Known(key)
  /\ runs' = Created(thread, key, policy)
  /\ UNCHANGED <<worker, sched, due, prepared, now, present, up, faults,
                 crashes, claimed, lost>>

(* cancel_run: a terminal run is returned as it is. *)
cancel_run(i) ==
  /\ up /\ runs[i].st \notin Terminal
  /\ runs' = [runs EXCEPT ![i].st = "canceled", ![i].cfg = FALSE]
  /\ UNCHANGED <<worker, sched, due, prepared, now, present, up, faults,
                 crashes, claimed, lost>>

(* resolve_local_approval and respond_local_input look at the request only *)
(* and not at the state of its run.                                        *)
resolve_request(i, answer) ==
  /\ up /\ runs[i].req = "pending"
  /\ runs' = [runs EXCEPT ![i].req = answer]
  /\ UNCHANGED <<worker, sched, due, prepared, now, present, up, faults,
                 crashes, claimed, lost>>

(* upsert_schedule computes the next occurrence from the clock of the call, *)
(* so that an occurrence due but not yet claimed is skipped by an edit.    *)
next_schedule_at == now + 1

(* delete_schedule removes the row; row is "on", "off" or "absent".        *)
put_schedule(s, row) ==
  /\ up /\ (row = "absent" => sched[s].row # "absent")
  /\ sched' = [sched EXCEPT ![s] =
        [row |-> row, next |-> IF row = "on" THEN next_schedule_at ELSE 0]]
  /\ UNCHANGED <<runs, worker, due, prepared, now, present, up, faults, crashes,
                 claimed, lost>>

(* run_schedule_now triggers with the present instant as its due_at, which *)
(* is no occurrence of the expression: its key is a negative number here.  *)
run_schedule_now(s) ==
  /\ up /\ sched[s].row # "absent" /\ Metadata /\ Bindings
  /\ Len(runs) < MaxRuns /\ ~Known(<<s, -now>>)
  /\ \E t \in Threads, p \in Policies : runs' = Created(t, <<s, -now>>, p)
  /\ UNCHANGED <<worker, sched, due, prepared, now, present, up, faults,
                 crashes, claimed, lost>>

(* upsert_provider_binding and delete_provider_binding, upsert_entity and  *)
(* delete_entity, and the MCP and workspace bindings with them.            *)
provide(x) ==
  /\ up /\ x \notin present /\ present' = present \cup {x}
  /\ UNCHANGED <<runs, worker, sched, due, prepared, now, up, faults, crashes,
                 claimed, lost>>

withdraw(x) ==
  /\ up /\ x \in present /\ present' = present \ {x}
  /\ faults < MaxFaults /\ faults' = faults + 1
  /\ UNCHANGED <<runs, worker, sched, due, prepared, now, up, crashes, claimed,
                 lost>>

Tick ==
  /\ now < MaxClock
  /\ now' = now + 1
  /\ UNCHANGED <<runs, worker, sched, due, prepared, present, up, faults,
                 crashes, claimed, lost>>

-----------------------------------------------------------------------------
(* scheduler_loop: claim every due schedule, then trigger them in turn.    *)

DueNow == {s \in Schedules : sched[s].row = "on" /\ sched[s].next <= now}


(* claim_due_schedules moves next_run_at past the clock before anything is *)
(* created, so that several missed intervals give one occurrence.          *)
Advance(S) ==
  [s \in Schedules |-> IF s \in S THEN [sched[s] EXCEPT !.next = next_schedule_at]
                       ELSE sched[s]]

claim_due_schedules ==
  /\ up /\ due = <<>> /\ DueNow # {}
  /\ due' = SetToSortSeq({<<s, sched[s].next>> : s \in DueNow},
               LAMBDA a, b : a[2] < b[2] \/ (a[2] = b[2] /\ a[1] < b[1]))
  /\ sched' = Advance(DueNow)
  /\ claimed' = claimed \cup ToSet(due')
  /\ UNCHANGED <<runs, worker, prepared, now, present, up, faults, crashes, lost>>

(* refresh_schedule_template_from_entities reads the current revisions and *)
(* bindings; a missing one fails the trigger.                              *)
refresh_template ==
  /\ up /\ due # <<>> /\ ~prepared /\ Metadata /\ Bindings
  /\ prepared' = TRUE
  /\ UNCHANGED <<runs, worker, sched, due, now, present, up, faults, crashes,
                 claimed, lost>>

(* create_run checks the binding a second time: the mutex was released.    *)
trigger_schedule ==
  /\ up /\ prepared /\ Bindings
  /\ Len(runs) < MaxRuns \/ Known(Head(due))
  /\ \E t \in Threads, p \in Policies : runs' = Created(t, Head(due), p)
  /\ due' = Tail(due) /\ prepared' = FALSE
  /\ UNCHANGED <<worker, sched, now, present, up, faults, crashes, claimed, lost>>

(* The failure is written to last_error; the occurrence is not retried.    *)
trigger_failed ==
  /\ up /\ due # <<>>
  /\ ~Bindings \/ (~prepared /\ ~Metadata) \/ Len(runs) = MaxRuns
  /\ lost' = lost \cup {Head(due)}
  /\ due' = Tail(due) /\ prepared' = FALSE
  /\ UNCHANGED <<runs, worker, sched, now, present, up, faults, crashes, claimed>>

-----------------------------------------------------------------------------
(* worker_loop                                                             *)

Earlier(i) == {j \in 1..(i-1) : runs[j].thread = runs[i].thread}

Claimable(i) ==
  /\ runs[i].st = "queued"
  /\ \A j \in Earlier(i) : runs[j].st \in Terminal

claim_run ==
  /\ up /\ worker.pc = "idle"
  /\ \E i \in Ids :
       /\ Claimable(i) /\ \A j \in 1..(i-1) : ~Claimable(j)
       /\ runs' = [runs EXCEPT ![i].st = "running"]
       /\ worker' = [Idle EXCEPT !.pc = "load", !.run = i]
  /\ UNCHANGED <<sched, due, prepared, now, present, up, faults, crashes,
                 claimed, lost>>

Me == worker.run
Goto(pc) == worker' = [worker EXCEPT !.pc = pc]
WorkerOnly == UNCHANGED <<sched, due, prepared, now, present, up, faults,
                          crashes, claimed, lost>>

(* execute_run reads the workspace and the configuration and builds the    *)
(* host.                                                                   *)
load_run ==
  /\ up /\ worker.pc = "load"
  /\ Goto("model")
  /\ UNCHANGED runs /\ WorkerOnly

(* An error before the adapter starts leaves execute_run by `?`: worker_loop *)
(* logs it and goes on, and the row stays "running" until a restart.       *)
load_failed ==
  /\ up /\ worker.pc = "load" /\ faults < MaxFaults
  /\ worker' = Idle /\ faults' = faults + 1
  /\ UNCHANGED <<runs, sched, due, prepared, now, present, up, crashes, claimed,
                 lost>>

(* execute_crew_adapter: a child process that ends, fails, exceeds its     *)
(* time or its output, or is ended when the 250 ms poll sees a cancel; a   *)
(* cancel that the poll has not seen leaves the child's own outcome.       *)
crew_adapter ==
  /\ up /\ worker.pc = "model" /\ worker.steps = 0
  /\ Goto("ok") \/ Goto("err")
  /\ UNCHANGED runs /\ WorkerOnly

(* One model step: emit refuses a canceled run before and after the call.  *)
model_step ==
  /\ up /\ worker.pc = "model"
  /\ IF runs[Me].st = "canceled" \/ worker.steps = MaxSteps THEN Goto("err")
     ELSE \/ Goto("ok")
          \/ Goto("err")
          \/ \E tool \in {"read", "ask", "write"} :
               worker' = [worker EXCEPT !.pc = "tool", !.tool = tool,
                                        !.steps = @ + 1]
  /\ UNCHANGED runs /\ WorkerOnly

(* set_local_run_state_locked refuses a terminal run. *)
Waits(st) ==
  IF runs[Me].st \in Terminal
  THEN /\ runs' = [runs EXCEPT ![Me].req = "pending"] /\ Goto("toolerr")
  ELSE /\ runs' = [runs EXCEPT ![Me].req = "pending", ![Me].st = st]
       /\ Goto("wait")

Dispatched == [runs EXCEPT ![Me].cp = "unsafe"]

(* execute_tool: AskUser waits for input, a mutating tool passes the policy *)
(* and writes an unsafe checkpoint before it acts.                         *)
execute_tool ==
  /\ up /\ worker.pc = "tool"
  /\ CASE worker.tool = "ask" -> Waits("waiting_input")
       [] worker.tool = "read" -> Goto("act") /\ UNCHANGED runs
       [] worker.tool = "write" /\ runs[Me].policy = "read_only" ->
            Goto("toolok") /\ UNCHANGED runs
       [] worker.tool = "write" /\ runs[Me].policy = "confirm_mutations" ->
            Waits("waiting_approval")
       [] OTHER -> Goto("act") /\ runs' = Dispatched
  /\ WorkerOnly

(* One poll of await_local_approval or await_local_input. *)
await_request ==
  /\ up /\ worker.pc = "wait"
  /\ runs[Me].st = "canceled" \/ runs[Me].req # "pending"
  /\ IF runs[Me].st = "canceled" THEN Goto("toolerr") /\ UNCHANGED runs
     ELSE IF runs[Me].req = "approved" /\ worker.tool = "write"
     THEN Goto("act") /\ runs' = [runs EXCEPT ![Me].st = "running",
                                              ![Me].cp = "unsafe"]
     ELSE Goto("toolok") /\ runs' = [runs EXCEPT ![Me].st = "running"]
  /\ WorkerOnly

(* Without the seven-day limit. *)
Expires_never == FALSE

(* Seven days later: an approval counts as rejected, an input is an error, *)
(* and then the state of the run is left as it is.                         *)
Expires == worker.pc = "wait" /\ runs[Me].req = "pending"

expire_request ==
  /\ up /\ Expires /\ runs[Me].st # "canceled"
  /\ IF worker.tool = "write"
     THEN Goto("toolok") /\ runs' = [runs EXCEPT ![Me].req = "expired",
                                                 ![Me].st = "running"]
     ELSE Goto("toolerr") /\ runs' = [runs EXCEPT ![Me].req = "expired"]
  /\ WorkerOnly

(* The tool's own work ends well or with an error. *)
tool_acts ==
  /\ up /\ worker.pc = "act"
  /\ Goto("toolok") \/ Goto("toolerr")
  /\ UNCHANGED runs /\ WorkerOnly

(* AgentRuntime::execute: emit the tool's end, write the checkpoint, and   *)
(* stop the run when the tool has no safe resume point.                    *)
tool_ended ==
  /\ up /\ worker.pc \in {"toolok", "toolerr"}
  /\ IF runs[Me].st = "canceled" THEN Goto("err") /\ UNCHANGED runs
     ELSE IF worker.pc = "toolok"
     THEN Goto("model") /\ runs' = [runs EXCEPT ![Me].cp = "safe"]
     ELSE Goto("err") /\ runs' = [runs EXCEPT ![Me].cp = "unsafe"]
  /\ WorkerOnly

(* Without reading the row again. *)
Outcome_stale(i) ==
  IF worker.pc = "ok" THEN "completed"
  ELSE IF runs[i].cp = "unsafe" THEN "interrupted" ELSE "failed"

(* Without a look at the checkpoint. *)
Outcome_unchecked(i) ==
  IF runs[i].st = "canceled" THEN "canceled"
  ELSE IF worker.pc = "ok" THEN "completed" ELSE "failed"

(* The end of execute_run reads the row again, keeps a canceled one, and   *)
(* sets a failed run aside when its last checkpoint is unsafe.             *)
Outcome(i) ==
  IF runs[i].st = "canceled" THEN "canceled"
  ELSE IF worker.pc = "ok" THEN "completed"
  ELSE IF runs[i].cp = "unsafe" THEN "interrupted" ELSE "failed"

execute_run_ends ==
  /\ up /\ worker.pc \in {"ok", "err"}
  /\ runs' = [runs EXCEPT ![Me].st = Outcome(Me),
                          ![Me].cfg = @ /\ Outcome(Me) \notin Terminal]
  /\ worker' = Idle
  /\ WorkerOnly

-----------------------------------------------------------------------------
(* The end of the process, and main's start.                               *)

Interrupted(rs) ==
  [i \in DOMAIN rs |-> IF rs[i].st \in Active
                       THEN [rs[i] EXCEPT !.st = "interrupted"] ELSE rs[i]]

Stops ==
  /\ up /\ crashes < MaxCrashes
  /\ crashes' = crashes + 1 /\ up' = FALSE
  /\ worker' = Idle
  /\ lost' = lost \cup ToSet(due) /\ due' = <<>> /\ prepared' = FALSE
  /\ UNCHANGED <<sched, now, present, faults, claimed>>

Crash == Stops /\ UNCHANGED runs

(* Aborting the tasks first, main interrupts the active runs itself. *)
Shutdown == Stops /\ runs' = Interrupted(runs)

(* The end of execute_run is four statements without a transaction: the    *)
(* process may end with the state saved and the configuration still there. *)
CrashWhileFinishing ==
  /\ worker.pc \in {"ok", "err"} /\ Stops
  /\ runs' = [runs EXCEPT ![Me].st = Outcome(Me)]

Start ==
  /\ ~up /\ up' = TRUE
  /\ runs' = Interrupted(runs)
  /\ UNCHANGED <<worker, sched, due, prepared, now, present, faults, crashes,
                 claimed, lost>>

-----------------------------------------------------------------------------
Worker == \/ claim_run \/ load_run \/ crew_adapter \/ model_step
          \/ execute_tool \/ await_request \/ expire_request \/ tool_acts \/ tool_ended
          \/ execute_run_ends

Scheduler == claim_due_schedules \/ refresh_template \/ trigger_schedule
             \/ trigger_failed

Ipc == \/ \E t \in Threads, k \in UserKeys, p \in Policies : create_run(t, k, p)
       \/ \E i \in Ids : cancel_run(i)
       \/ \E i \in Ids, a \in {"approved", "rejected"} : resolve_request(i, a)
       \/ \E s \in Schedules, r \in {"on", "off", "absent"} : put_schedule(s, r)
       \/ \E s \in Schedules : run_schedule_now(s)
       \/ \E x \in {"metadata", "binding"} : provide(x) \/ withdraw(x)

Next == \/ Worker \/ Scheduler \/ Ipc \/ Tick
        \/ load_failed \/ Crash \/ Shutdown \/ CrashWhileFinishing \/ Start

Spec == Init /\ [][Next]_vars

(* The tasks run as long as the process does, a request expires after its  *)
(* seven days, and the service manager starts a daemon that has ended.     *)
Fairness == WF_vars(Worker) /\ WF_vars(Scheduler) /\ WF_vars(Start)

LiveSpec == Spec /\ Fairness

-----------------------------------------------------------------------------
(* A run that has ended keeps its end: a cancel that arrives during a model *)
(* call, a tool or a wait is not overwritten when execute_run or            *)
(* interrupt_active_runs writes the row later.                              *)
EndsKeptStep == \A i \in Ids : runs[i].st \in Terminal => runs'[i].st = runs[i].st
EndsKept == [][EndsKeptStep]_vars

(* A run whose last tool may have acted without a recorded result is never  *)
(* shown as completed or failed: it is set aside for review or canceled     *)
(* (execute_run, interrupt_active_runs).                                    *)
InDoubtSetAside ==
  \A i \in Ids : runs[i].cp = "unsafe" => runs[i].st \notin {"completed", "failed"}

(* Each occurrence that scheduler_loop has claimed gives exactly one run,   *)
(* unless its trigger failed or the process ended with it in hand: advance- *)
(* before-create loses occurrences, it never repeats one.                   *)
OccurrencesAccounted ==
  /\ \A o \in claimed \ (lost \cup ToSet(due)) : \E i \in Ids : runs[i].key = o
  /\ \A i, j \in Ids : runs[i].key = runs[j].key => i = j
  /\ \A s \in Schedules : <<s, sched[s].next>> \notin claimed

(* An earlier run of the thread that the daemon will not finish by itself:  *)
(* interrupted, or left "running" by an error before its adapter started.   *)
Held(i) ==
  \E j \in Earlier(i) : \/ runs[j].st = "interrupted"
                        \/ runs[j].st \in Active /\ worker.run # j

(* Although one worker serves every thread and keeps a run through its      *)
(* waits, each queued run is started, canceled or held by a run of its own  *)
(* thread: the seven-day expiry frees the worker.                           *)
StillQueued(i) == i \in Ids /\ runs[i].st = "queued"
Moved(i) == i \in Ids /\ (runs[i].st # "queued" \/ Held(i))
QueueMoves == \A i \in 1..MaxRuns : StillQueued(i) ~> Moved(i)

=============================================================================
