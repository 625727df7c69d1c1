---------------------------- MODULE AppScheduler ----------------------------
(***************************************************************************)
(* The desktop application's own scheduler (app/src-tauri/src/lib.rs:      *)
(* run_scheduled_task_once, start_scheduler_worker, the scheduler_         *)
(* commands and provider_fallback_resolve, over the tables of db.rs).      *)
(* One worker thread lists the due tasks and runs them one by one, the     *)
(* main thread runs a task on demand and resolves fallback approvals, and  *)
(* every approved fallback runs its task on a thread of its own.  A step   *)
(* is one call of the database; the process may exit between any two.      *)
(***************************************************************************)
EXTENDS Integers, Sequences, FiniteSets, FiniteSetsExt

CONSTANTS Tasks,         \* scheduled_tasks ids: numbers, a smaller one has the higher priority
          Runs,          \* scheduled_runs ids, 1..n; a run's approval has its id
          Deps,          \* Deps[t]: depends_on_task_ids
          DaemonOwned,   \* tasks whose executorTarget is personal_device_daemon
          CrewTasks,     \* tasks of kind "crew"; the others are "prompt"
          Keep,          \* MAX_SCHEDULED_RUNS_PER_TASK
          MaxSlot,       \* bound on the occurrences of a schedule
          MaxCommands,   \* bound on the user's edits of tasks and manual runs
          MaxCrashes     \* bound on exits of the process

VARIABLES
    now,       \* the clock: one tick for every recorded timestamp
    passed,    \* passed[t]: occurrences of t's schedule that are in the past
    task,      \* task[t]: [there, active, next, last], 0 for a NULL instant
    run,       \* run[r]: [st, task, started, finished]
    approval,  \* approval[r]: [st, at] of the fallback approval of run r
    work,      \* work[t]: work_tasks.status of the task with the same id
    exec,      \* exec[k]: the call of run_scheduled_task_once on thread k
    listed,    \* the rows that the worker's list_due_scheduled_tasks returned
    resolving, \* main's provider_fallback_resolve in progress
    commands, crashes,
    starts,    \* history: starts[t][s]: worker runs of occurrence s of t
    rewound,   \* history: tasks whose next_run_at was set back by a finished run
    remade,    \* history: tasks deleted while an execution of theirs went on
    sent,      \* history: sent[r]: executions that approval r has paid for
    cut        \* history: runs whose approval was cut short or answered early

vars == <<now, passed, task, run, approval, work, exec, listed, resolving, commands,
          crashes, starts, rewound, remade, sent, cut>>

Main    == 0
Worker  == -1
Threads == {Main, Worker} \union Runs   \* thread r runs the fallback of run r

NoExec == [pc |-> "idle", task |-> 0, run |-> 0, at |-> 0, fin |-> 0, next |-> 0,
           slot |-> 0, out |-> "", paid |-> FALSE]
NoRun  == [st |-> "none", task |-> 0, started |-> 0, finished |-> 0]
NoTask == [there |-> FALSE, active |-> FALSE, next |-> 0, last |-> 0]
Idle   == [pc |-> "idle", run |-> 0, task |-> 0]

Init ==
    /\ now = 1
    /\ passed = [t \in Tasks |-> 0]
    /\ task = [t \in Tasks |-> [there |-> TRUE, active |-> TRUE, next |-> 1, last |-> 0]]
    /\ run = [r \in Runs |-> NoRun]
    /\ approval = [r \in Runs |-> [st |-> "none", at |-> 0]]
    /\ work = [t \in Tasks |-> "idle"]
    /\ exec = [k \in Threads |-> NoExec]
    /\ listed = <<>>
    /\ resolving = Idle
    /\ commands = 0 /\ crashes = 0
    /\ starts = [t \in Tasks |-> [s \in 1..MaxSlot |-> 0]]
    /\ rewound = {} /\ remade = {}
    /\ sent = [r \in Runs |-> 0]
    /\ cut = {}

history == <<starts, rewound, remade, sent, cut>>
bounds  == <<commands, crashes>>

-----------------------------------------------------------------------------
(* Rows of scheduled_runs. *)

RunsOf(t) == {r \in Runs : run[r].st # "none" /\ run[r].task = t}

\* latest_scheduled_run_status: by started_at.
Latest(t) == CHOOSE r \in RunsOf(t) : \A s \in RunsOf(t) : run[s].started <= run[r].started

\* scheduled_task_dependencies_ready, with the last_run_at that was listed.
DependenciesReady(t, last) ==
    \A d \in Deps[t] :
        /\ RunsOf(d) # {}
        /\ run[Latest(d)].st = "succeeded"
        /\ last # 0 => run[Latest(d)].finished > last

\* insert_scheduled_run: upsert by id, then keep the newest Keep rows of the
\* task.
Upserted(r, t, st, started, finished) ==
    LET rows == [run EXCEPT ![r] = [st |-> st, task |-> t, started |-> started,
                                    finished |-> finished]]
        mine == {s \in Runs : rows[s].st # "none" /\ rows[s].task = t}
        newer(s) == {u \in mine : \/ rows[u].started > rows[s].started
                                  \/ rows[u].started = rows[s].started /\ u > s}
    IN  [s \in Runs |-> IF s \in mine /\ Cardinality(newer(s)) >= Keep THEN NoRun ELSE rows[s]]

-----------------------------------------------------------------------------
(* run_scheduled_task_once on thread k. *)

AlreadyRunning_never(t) == RunsOf(t) = {} /\ RunsOf(t) # {}
\* begin_scheduled_run's check, made inside its immediate transaction.
AlreadyRunning(t) == \E r \in RunsOf(t) : run[r].st = "running"

\* next_run_from_expression: the first occurrence after now.
NextSlot(t) == passed[t] + 1

Advanced_after(t) == [task EXCEPT ![t].last = now]
\* begin_scheduled_run moves next_run_at in the transaction that inserts the run.
Advanced(t) == [task EXCEPT ![t].last = now, ![t].next = NextSlot(t)]

Unused == {r \in Runs : /\ run[r].st = "none" /\ approval[r].st = "none"
                        /\ \A k \in Threads : exec[k].run # r}

\* What is left of thread k's call at its end: a fallback thread still has to
\* write its work task.
Ended(k, pc) == [exec EXCEPT ![k] = IF @.paid THEN [@ EXCEPT !.pc = pc] ELSE NoExec]

\* begin_scheduled_run; a missing task fails the foreign key.
begin(k) ==
    LET t == exec[k].task r == Min(Unused) IN
    /\ exec[k].pc = "start" /\ Unused # {} /\ NextSlot(t) <= MaxSlot
    /\ IF task[t].there /\ ~AlreadyRunning(t)
       THEN /\ run' = [run EXCEPT ![r] = [st |-> "running", task |-> t,
                                           started |-> now, finished |-> 0]]
            /\ task' = Advanced(t)
            /\ exec' = [exec EXCEPT ![k].pc = "turn", ![k].run = r, ![k].at = now,
                                    ![k].next = NextSlot(t)]
            /\ now' = now + 1
            /\ starts' = IF k = Worker THEN [starts EXCEPT ![t][exec[k].slot] = @ + 1] ELSE starts
            /\ sent' = [q \in Runs |-> IF q = k THEN sent[q] + 1 ELSE sent[q]]
       ELSE /\ exec' = Ended(k, "refused")
            /\ UNCHANGED <<run, task, now, starts, sent>>
    /\ UNCHANGED <<passed, approval, work, listed, resolving, bounds, rewound, remade, cut>>

\* The turn of a model or crew: it succeeds, fails, or finds every Codex
\* account at its limit, which only a Codex-backed prompt can (an approved
\* fallback runs on an API profile).
turn(k) ==
    /\ exec[k].pc = "turn"
    /\ \E out \in {"succeeded", "failed", "limited"} :
        /\ out = "limited" => ~exec[k].paid /\ exec[k].task \notin CrewTasks
        /\ exec' = [exec EXCEPT ![k].out = out, ![k].fin = now,
                                ![k].pc = IF out = "limited" THEN "ask" ELSE "record"]
    /\ now' = now + 1
    /\ UNCHANGED <<passed, task, run, approval, work, listed, resolving, bounds, history>>

\* insert_scheduled_run with the outcome; the foreign key refuses a row whose
\* task is gone.
record(k) ==
    LET t == exec[k].task IN
    /\ exec[k].pc = "record"
    /\ IF task[t].there
       THEN /\ run' = Upserted(exec[k].run, t, exec[k].out, exec[k].at, exec[k].fin)
            /\ exec' = [exec EXCEPT ![k].pc = "update"]
       ELSE /\ exec' = Ended(k, "refused")
            /\ UNCHANGED run
    /\ UNCHANGED <<now, passed, task, approval, work, listed, resolving, bounds, history>>

\* update_scheduled_task_runtime writes the next_run_at that was computed
\* before the run began.
update_runtime(k) ==
    LET t == exec[k].task IN
    /\ exec[k].pc = "update"
    /\ task' = IF task[t].there
               THEN [task EXCEPT ![t].last = exec[k].fin, ![t].next = exec[k].next]
               ELSE task
    /\ rewound' = IF task[t].next > exec[k].next THEN rewound \union {t} ELSE rewound
    /\ exec' = Ended(k, "done")
    /\ UNCHANGED <<now, passed, run, approval, work, listed, resolving, bounds, starts,
                   remade, sent, cut>>

\* create_provider_fallback_approval, pending.
create_approval(k) ==
    /\ exec[k].pc = "ask"
    /\ approval' = [approval EXCEPT ![exec[k].run] = [st |-> "pending", at |-> exec[k].fin]]
    /\ exec' = [exec EXCEPT ![k].pc = "park"]
    /\ UNCHANGED <<now, passed, task, run, work, listed, resolving, bounds, history>>

\* The run is parked as waiting_approval and then its work task.
park_run(k) ==
    LET t == exec[k].task r == exec[k].run IN
    /\ exec[k].pc = "park"
    /\ IF task[t].there
       THEN /\ run' = Upserted(r, t, "waiting_approval", exec[k].at, 0)
            /\ exec' = [exec EXCEPT ![k].pc = "park_work"]
            /\ cut' = IF approval[r].st = "pending" THEN cut ELSE cut \union {r}
       ELSE /\ exec' = Ended(k, "refused")
            /\ UNCHANGED <<run, cut>>
    /\ UNCHANGED <<now, passed, task, approval, work, listed, resolving, bounds, starts,
                   rewound, remade, sent>>

park_work(k) ==
    /\ exec[k].pc = "park_work"
    /\ work' = [work EXCEPT ![exec[k].task] = "waiting_approval"]
    /\ exec' = Ended(k, "done")
    /\ UNCHANGED <<now, passed, task, run, approval, listed, resolving, bounds, history>>

\* The fallback thread's last update_work_task_status: completed for Ok(()),
\* which a failed turn returns as well, and failed for Err.
finish_fallback(k) ==
    /\ exec[k].pc \in {"done", "refused"}
    /\ exec' = [exec EXCEPT ![k] = NoExec]
    /\ work' = [work EXCEPT ![exec[k].task] =
                    IF exec[k].pc = "done" THEN "completed" ELSE "failed"]
    /\ UNCHANGED <<now, passed, task, run, approval, listed, resolving, bounds, history>>

-----------------------------------------------------------------------------
(* start_scheduler_worker. *)

DueTasks == {t \in Tasks : /\ task[t].there /\ task[t].active
                           /\ task[t].next # 0 /\ task[t].next <= passed[t]}

\* list_due_scheduled_tasks, by priority; the rows are used later.
list_due ==
    /\ exec[Worker].pc = "idle" /\ listed = <<>> /\ DueTasks # {}
    /\ LET order == CHOOSE s \in [1..Cardinality(DueTasks) -> DueTasks] :
                        \A i, j \in DOMAIN s : i < j => s[i] < s[j]
       IN  listed' = [i \in DOMAIN order |-> [task |-> order[i], last |-> task[order[i]].last,
                                              slot |-> task[order[i]].next]]
    /\ UNCHANGED <<now, passed, task, run, approval, work, exec, resolving, bounds, history>>

\* One row of the list: a daemon-owned task is only moved on, a task whose
\* dependencies are not ready is left for the next pass, any other is run.
next_due ==
    /\ exec[Worker].pc = "idle" /\ listed # <<>>
    /\ listed' = Tail(listed)
    /\ LET row == Head(listed) t == row.task IN
       IF t \in DaemonOwned
       THEN /\ NextSlot(t) <= MaxSlot
            /\ task' = IF task[t].there
                       THEN [task EXCEPT ![t].last = row.last, ![t].next = NextSlot(t)]
                       ELSE task
            /\ UNCHANGED exec
       ELSE /\ exec' = IF DependenciesReady(t, row.last)
                       THEN [exec EXCEPT ![Worker] = [NoExec EXCEPT !.pc = "start", !.task = t,
                                                                    !.slot = row.slot]]
                       ELSE exec
            /\ UNCHANGED task
    /\ UNCHANGED <<now, passed, run, approval, work, resolving, bounds, history>>

-----------------------------------------------------------------------------
(* Commands of the user interface; they run one at a time on the main      *)
(* thread.                                                                  *)

MainFree == exec[Main].pc = "idle" /\ resolving.pc = "idle"

scheduler_run_task_now(t) ==
    /\ MainFree /\ task[t].there /\ commands < MaxCommands
    /\ commands' = commands + 1
    /\ exec' = [exec EXCEPT ![Main] = [NoExec EXCEPT !.pc = "start", !.task = t]]
    /\ UNCHANGED <<now, passed, task, run, approval, work, listed, resolving, crashes, history>>

\* The row an edit writes keeps last_run_at; next_run_at is computed from the
\* expression, or cleared.
Edited(t, on) == [task EXCEPT ![t] = [there |-> TRUE, active |-> on, last |-> @.last,
                                      next |-> IF on THEN NextSlot(t) ELSE 0]]

scheduler_upsert_task(t, on) ==
    /\ MainFree /\ commands < MaxCommands /\ NextSlot(t) <= MaxSlot
    /\ task' = Edited(t, on)
    /\ commands' = commands + 1
    /\ UNCHANGED <<now, passed, run, approval, work, exec, listed, resolving, crashes, history>>

\* The same for an existing task.
scheduler_set_task_active(t, on) == task[t].there /\ scheduler_upsert_task(t, on)

\* delete_scheduled_task; the foreign key takes the task's runs with it.
scheduler_delete_task(t) ==
    /\ MainFree /\ task[t].there /\ commands < MaxCommands
    /\ task' = [task EXCEPT ![t] = NoTask]
    /\ run' = [r \in Runs |-> IF run[r].task = t THEN NoRun ELSE run[r]]
    /\ commands' = commands + 1
    /\ remade' = IF \E k \in Threads : exec[k].task = t THEN remade \union {t} ELSE remade
    /\ UNCHANGED <<now, passed, approval, work, exec, listed, resolving, crashes, starts,
                   rewound, sent, cut>>

Pending_open(r) == approval[r].st \in {"pending", "approved", "consumed"}
\* The approvals that can still be resolved: WHERE id=?1 AND status='pending'.
Pending(r) == approval[r].st = "pending"

\* provider_fallback_resolve, denied: the approval, then the run and its work task.
resolve_denied(r) ==
    /\ MainFree /\ Pending(r)
    /\ approval' = [approval EXCEPT ![r].st = "denied"]
    /\ resolving' = [pc |-> "denied", run |-> r, task |-> 0]
    /\ UNCHANGED <<now, passed, task, run, work, exec, listed, bounds, history>>

\* The insert_scheduled_run with which a resolved approval closes its run.
Closed(r, t, st) == Upserted(r, t, st, approval[r].at, now)

record_denied ==
    LET r == resolving.run IN
    /\ resolving.pc = "denied"
    /\ IF run[r].st # "none"
       THEN /\ run' = Closed(r, run[r].task, "denied")
            /\ work' = [work EXCEPT ![run[r].task] = "failed"]
       ELSE UNCHANGED <<run, work>>
    /\ now' = now + 1
    /\ resolving' = Idle
    /\ UNCHANGED <<passed, task, approval, exec, listed, bounds, history>>

\* provider_fallback_resolve, approved: only for an existing run of an existing
\* prompt task; a stale approval stays pending.
resolve_approved(r) ==
    /\ MainFree /\ Pending(r)
    /\ run[r].st # "none" /\ task[run[r].task].there /\ run[r].task \notin CrewTasks
    /\ approval' = [approval EXCEPT ![r].st = "approved"]
    /\ resolving' = [pc |-> "approved", run |-> r, task |-> run[r].task]
    /\ UNCHANGED <<now, passed, task, run, work, exec, listed, bounds, history>>

\* consume_provider_fallback_approval, before anything is dispatched.
consume ==
    /\ resolving.pc = "approved"
    /\ approval' = [approval EXCEPT ![resolving.run].st = "consumed"]
    /\ resolving' = [resolving EXCEPT !.pc = "consumed"]
    /\ UNCHANGED <<now, passed, task, run, work, exec, listed, bounds, history>>

\* The waiting run is closed and a thread runs the task again, on the API
\* profile that was approved.
dispatch ==
    LET r == resolving.run t == resolving.task IN
    /\ resolving.pc = "consumed"
    /\ run' = Closed(r, t, "fallback_approved")
    /\ exec' = [exec EXCEPT ![r] = [NoExec EXCEPT !.pc = "start", !.task = t, !.paid = TRUE]]
    /\ work' = [work EXCEPT ![t] = "running"]
    /\ now' = now + 1
    /\ resolving' = Idle
    /\ UNCHANGED <<passed, task, approval, listed, bounds, history>>

-----------------------------------------------------------------------------
(* Time and the process. *)

\* The next occurrence of t's schedule passes.
tick(t) ==
    /\ task[t].there /\ passed[t] < MaxSlot
    /\ passed' = [passed EXCEPT ![t] = @ + 1]
    /\ UNCHANGED <<now, task, run, approval, work, exec, listed, resolving, bounds, history>>

\* The process exits and starts again: recover_after_unclean_shutdown closes
\* what was running, in one transaction, before the worker starts.
restart ==
    /\ crashes < MaxCrashes
    /\ crashes' = crashes + 1
    /\ run' = [r \in Runs |-> IF run[r].st = "running"
                              THEN [run[r] EXCEPT !.st = "interrupted", !.finished = now]
                              ELSE run[r]]
    /\ work' = [t \in Tasks |-> IF work[t] = "running" THEN "failed" ELSE work[t]]
    /\ exec' = [k \in Threads |-> NoExec]
    /\ listed' = <<>>
    /\ resolving' = Idle
    /\ cut' = IF resolving.pc = "idle" THEN cut ELSE cut \union {resolving.run}
    /\ remade' = {}
    /\ now' = now + 1
    /\ UNCHANGED <<passed, task, approval, commands, starts, rewound, sent>>

Next ==
    \/ \E k \in Threads : \/ begin(k) \/ turn(k) \/ record(k) \/ update_runtime(k)
                          \/ create_approval(k) \/ park_run(k) \/ park_work(k) \/ finish_fallback(k)
    \/ list_due \/ next_due
    \/ \E t \in Tasks : \/ scheduler_run_task_now(t)
                        \/ \E on \in BOOLEAN : \/ scheduler_upsert_task(t, on)
                                               \/ scheduler_set_task_active(t, on)
                        \/ scheduler_delete_task(t) \/ tick(t)
    \/ \E r \in Runs : resolve_denied(r) \/ resolve_approved(r)
    \/ record_denied \/ consume \/ dispatch
    \/ restart

Spec == Init /\ [][Next]_vars

-----------------------------------------------------------------------------
(* Properties. *)

\* Whatever the worker, manual runs, approved fallbacks and restarts do, no two
\* threads execute one task at once (begin_scheduled_run), and the worker runs
\* an occurrence once: a run cut short by an exit is not repeated.  The code
\* does repeat one when a finishing run, between its two last statements, puts
\* back an earlier next_run_at, and does overlap two executions of a task
\* deleted and made again meanwhile.
OccurrencesOnce ==
    /\ \A t \in Tasks \ rewound : \A s \in 1..MaxSlot : starts[t][s] <= 1
    /\ \A j, k \in Threads : j # k /\ exec[j].pc = "turn" /\ exec[k].pc = "turn"
                             /\ exec[j].task = exec[k].task => exec[j].task \in remade

\* An approved fallback is a one-shot grant: it pays for at most one execution,
\* only after it is consumed, and never once denied; and a run that waits for
\* an approval can still be answered, unless the process exited while the
\* answer was recorded or the answer came before the run was parked.
FallbackOneShot ==
    \A r \in Runs :
        /\ sent[r] <= 1
        /\ sent[r] = 1 => approval[r].st = "consumed"
        /\ run[r].st = "waiting_approval" /\ r \notin cut
              => Pending(r) \/ resolving.run = r

=============================================================================
