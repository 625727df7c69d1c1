------------------------------- MODULE CrewRuns -------------------------------
(* Crews of the desktop application (app/src-tauri/src/lib.rs): governance and  *)
(* approvals before a crew starts, the two ways of running it (the Python       *)
(* runtime of crew_python_bridge.rs, and the mixed runner for Codex agents),    *)
(* stopping, replay and start-up recovery. One crew: its registries are keyed   *)
(* by the crew's id, not by the run's, so two runs of it share them.            *)
EXTENDS Integers, FiniteSets, TLC

CONSTANTS Execs,        \* calls of execute_crew_request, 1 .. n
          Tasks,        \* the crew's tasks, numbered in the order of the request
          Graphs,       \* the dependencies a crew may be saved with
          Approvals,    \* rows of crew_approvals
          Requests,     \* what callers ask: [mode, kind, tools]
          MaxParallel,  \* max_parallel_tasks
          StopOnFailure,
          MaxActs,      \* bound: approvals, answers, bindings, policy edits, stops
          MaxCrashes    \* bound: exits of the application

NoRequest == [mode |-> "none", kind |-> "none", tools |-> "none"]
NoExec == 0

VARIABLES deps,       \* deps[t]: the tasks t names as its dependencies
          approval,   \* [Approvals -> [state, gate, request]]
          bindings,   \* roles bound for this crew; "other": a binding of someone else
          shell,      \* policy: may the agents use the shell
          exec,       \* [Execs -> [at, request, resume]]
          work,       \* [Execs -> progress of the mixed runner]
          proc,       \* [Execs -> state of the Python process]
          active,     \* active_runs[crew]: whose process id is registered
          canceled,   \* registry.canceled holds the crew
          row,        \* [Execs -> status of its crew_runs row]
          granted,    \* requests whose approval was once answered "approved"
          reached,    \* executions a stop reached while they could be stopped
          crowded,    \* executions that overlapped another one of the crew
          acts, crashes

vars == <<deps, approval, bindings, shell, exec, work, proc, active, canceled, row,
          granted, reached, crowded, acts, crashes>>
decisions == <<deps, approval, bindings, shell, granted>>
registries == <<active, canceled, proc>>
counters == <<acts, crashes>>

-----------------------------------------------------------------------------
(* Validation                                                                 *)

(* detect_crew_cycle: depth first, "visiting" is the path, "visited" is closed. *)
RECURSIVE detect_crew_cycle(_, _, _)
detect_crew_cycle(todo, visiting, visited) ==
    IF todo \ visited = {} THEN [cycle |-> FALSE, visited |-> visited]
    ELSE LET t == CHOOSE u \in todo \ visited : TRUE
             below == detect_crew_cycle(deps[t], visiting \cup {t}, visited)
         IN IF t \in visiting \/ below.cycle THEN [cycle |-> TRUE, visited |-> visited]
            ELSE detect_crew_cycle(todo \ {t}, visiting, below.visited \cup {t})

(* validate_crew_request: no task names itself or an unknown task, no cycle.     *)
Valid_unwalked == \A t \in Tasks : t \notin deps[t] /\ deps[t] \subseteq Tasks
Valid == /\ Valid_unwalked
         /\ ~detect_crew_cycle(Tasks, {}, {}).cycle

-----------------------------------------------------------------------------
(* Governance                                                                 *)

Pending(gate) == \E a \in Approvals : /\ approval[a].state = "pending"
                                      /\ approval[a].gate = gate

Live(q) == q.tools \in {"read", "bash"}
Delegates(q) == q.tools = "delegate"

Risky_shell(q) == q.tools = "bash"
Risky(q) == q.tools \in {"bash", "delegate", "mcp"}

(* crew_role_allows_execution, crew_role_allows_tool_operations                *)
MayRun == bindings # {} => bindings \cap {"operator", "editor"} # {}
MayUseTools(q) == (bindings # {} /\ (Live(q) \/ Delegates(q))) => "operator" \in bindings

Blocked(q) == q.tools = "bash" /\ ~shell

RefusedFirst(q) == \/ Pending("run_gate")
                   \/ ~MayRun
                   \/ ~MayUseTools(q)
                   \/ q.mode = "read-only" /\ Risky(q)

Asks(q) == q.mode = "ask-all" \/ (q.mode = "ask-risky" /\ Risky(q))

RefusedLast(q) == \/ Pending("tool_gate") /\ Live(q)
                  \/ Pending("delegation_gate") /\ Delegates(q)
                  \/ Blocked(q)

-----------------------------------------------------------------------------
Idle == [at |-> "idle", request |-> NoRequest, resume |-> FALSE]
NoWork == [pending |-> {}, ready |-> {}, batch |-> {}, outputs |-> {}]

Init ==
    /\ deps \in Graphs
    /\ approval = [a \in Approvals |->
                     [state |-> "none", gate |-> "run_gate", request |-> NoRequest]]
    /\ bindings = {}
    /\ shell = TRUE
    /\ exec = [e \in Execs |-> Idle]
    /\ work = [e \in Execs |-> NoWork]
    /\ proc = [e \in Execs |-> "none"]
    /\ active = NoExec
    /\ canceled = FALSE
    /\ row = [e \in Execs |-> "none"]
    /\ granted = {} /\ reached = {} /\ crowded = {}
    /\ acts = 0 /\ crashes = 0

Goto(e, at) == exec' = [exec EXCEPT ![e].at = at]

Running(e) == exec[e].at \in {"launch", "reading", "round", "batch"}

(* Executions are used in order, each for one call.                             *)
Next1(e) == exec[e].at = "idle" /\ row[e] = "none" /\ \A d \in Execs : d < e => exec[d].at # "idle"

Called(e, q, resume) ==
    /\ Next1(e)
    /\ exec' = [exec EXCEPT ![e] = [at |-> IF Valid THEN "govern" ELSE "refused",
                                     request |-> q, resume |-> resume]]

crew_execute(e, q) ==
    /\ Called(e, q, FALSE)
    /\ UNCHANGED <<decisions, registries, work, row, reached, crowded, counters>>

(* crew_run_replay: the stored snapshot, without the approval it was started by. *)
crew_run_replay(e, d) ==
    /\ row[d] # "none"
    /\ Called(e, exec[d].request, FALSE)
    /\ UNCHANGED <<decisions, registries, work, row, reached, crowded, counters>>

(* collect_crew_governance_payload                                             *)
govern(e) ==
    /\ exec[e].at = "govern"
    /\ LET q == exec[e].request IN
       Goto(e, CASE RefusedFirst(q) -> "refused"
                 [] ~RefusedFirst(q) /\ ~exec[e].resume /\ Asks(q) -> "queue"
                 [] OTHER -> IF RefusedLast(q) THEN "refused" ELSE "start")
    /\ UNCHANGED <<decisions, registries, work, row, reached, crowded, counters>>

(* queue_crew_governance_approval: an open run gate is reused, whatever request *)
(* it carries.                                                                 *)
queue_approval(e) ==
    /\ exec[e].at = "queue"
    /\ Goto(e, "refused")
    /\ IF Pending("run_gate") THEN approval' = approval
       ELSE \E a \in Approvals :
              /\ approval[a].state = "none"
              /\ approval' = [approval EXCEPT ![a] =
                    [state |-> "pending", gate |-> "run_gate", request |-> exec[e].request]]
    /\ UNCHANGED <<deps, bindings, shell, granted, registries, work, row, reached, crowded, counters>>

(* The row is written, a stop from before it is forgotten.                     *)
start(e) ==
    /\ exec[e].at = "start"
    /\ row' = [row EXCEPT ![e] = "running"]
    /\ canceled' = FALSE
    /\ work' = [work EXCEPT ![e].pending = Tasks]
    /\ Goto(e, IF exec[e].request.kind = "mixed" THEN "round" ELSE "launch")
    /\ crowded' = LET live == {d \in Execs \ {e} : Running(d)}
                  IN  IF live = {} THEN crowded ELSE crowded \cup live \cup {e}
    /\ UNCHANGED <<decisions, active, proc, reached, counters>>

Persisted(e, status) == row' = [row EXCEPT ![e] = status]

-----------------------------------------------------------------------------
(* The Python runtime                                                         *)

(* crew_runtime_execute_request answers "not prepared" without persisting: the  *)
(* row stays "running".                                                        *)
not_prepared(e) ==
    /\ exec[e].at = "launch"
    /\ canceled' = FALSE
    /\ Goto(e, "done")
    /\ UNCHANGED <<decisions, active, proc, work, row, reached, crowded, counters>>

launch_failed(e) ==
    /\ exec[e].at = "launch"
    /\ canceled' = FALSE
    /\ Persisted(e, "failed")
    /\ Goto(e, "done")
    /\ UNCHANGED <<decisions, active, proc, work, reached, crowded, counters>>

launch(e) ==
    /\ exec[e].at = "launch"
    /\ proc' = [proc EXCEPT ![e] = "running"]
    /\ active' = e
    /\ Goto(e, "reading")
    /\ UNCHANGED <<decisions, canceled, work, row, reached, crowded, counters>>

process_exits(e) ==
    /\ proc[e] = "running"
    /\ \E s \in {"completed", "failed"} : proc' = [proc EXCEPT ![e] = s]
    /\ UNCHANGED <<decisions, active, canceled, exec, work, row, reached, crowded, counters>>

(* The end of run_python_json_command_with_events: clear_active_run removes     *)
(* whatever process id the crew has registered.                                *)
python_ends(e) ==
    /\ exec[e].at = "reading"
    /\ proc[e] \in {"completed", "failed", "killed"}
    /\ active' = NoExec
    /\ canceled' = FALSE
    /\ Persisted(e, IF proc[e] = "completed" THEN "completed" ELSE "failed")
    /\ Goto(e, "done")
    /\ UNCHANGED <<decisions, proc, work, reached, crowded, counters>>

-----------------------------------------------------------------------------
(* The mixed runner                                                           *)

Ready_pending(w) == {t \in w.pending : deps[t] \cap w.pending \subseteq w.outputs}
Ready(w) == {t \in w.pending : deps[t] \subseteq w.outputs}

FirstOf(S) == {t \in S : Cardinality({u \in S : u < t}) < MaxParallel}

Ends(e, status) ==
    /\ Persisted(e, status)
    /\ canceled' = FALSE
    /\ Goto(e, "done")

(* The loop's head: finished, stuck, or another round.                         *)
mixed_round(e) ==
    /\ exec[e].at = "round"
    /\ LET w == work[e]
           ready == Ready(w)
       IN \/ w.pending = {} /\ Ends(e, "completed") /\ work' = work
          \/ w.pending # {} /\ ready = {} /\ Ends(e, "failed") /\ work' = work
          \/ /\ ready # {}
             /\ work' = [work EXCEPT ![e].ready = ready, ![e].batch = FirstOf(ready)]
             /\ Goto(e, "batch")
             /\ UNCHANGED <<canceled, row>>
    /\ UNCHANGED <<decisions, active, proc, reached, crowded, counters>>

(* join_all of one batch: the tasks in ok gave an output. The cancel flag is    *)
(* read once the round's last batch is in.                                     *)
CancelSeen_never == FALSE
CancelSeen == canceled

mixed_batch(e) ==
    /\ exec[e].at = "batch"
    /\ \E ok \in SUBSET work[e].batch :
        LET w == work[e]
            rest == {t \in w.ready : \A b \in w.batch : t > b}
            through == [w EXCEPT !.outputs = @ \cup ok, !.batch = FirstOf(rest),
                                 !.pending = IF rest = {} THEN @ \ w.ready ELSE @]
        IN \/ /\ StopOnFailure /\ ok # w.batch
              /\ Ends(e, "failed") /\ work' = work
           \/ /\ ok = w.batch \/ ~StopOnFailure
              /\ work' = [work EXCEPT ![e] = through]
              /\ \/ rest = {} /\ CancelSeen /\ Ends(e, "canceled")
                 \/ /\ rest # {} \/ ~CancelSeen
                    /\ Goto(e, IF rest = {} THEN "round" ELSE "batch")
                    /\ UNCHANGED <<canceled, row>>
    /\ UNCHANGED <<decisions, active, proc, reached, crowded, counters>>

-----------------------------------------------------------------------------
(* Commands                                                                   *)

Act == acts < MaxActs /\ acts' = acts + 1 /\ UNCHANGED crashes

Killed_kept(p) == p
Killed(p) == [p EXCEPT ![active] = "killed"]

crew_stop ==
    /\ Act
    /\ LET kills == active # NoExec /\ proc[active] = "running" IN
       /\ proc' = IF kills THEN Killed(proc) ELSE proc
       /\ reached' = reached \cup {e \in Execs : kills /\ e = active}
                             \cup {e \in Execs : exec[e].at = "batch"}
    /\ active' = NoExec
    /\ canceled' = TRUE
    /\ UNCHANGED <<decisions, exec, work, row, crowded>>

crew_approval_create(a, gate) ==
    /\ Act
    /\ approval[a].state = "none"
    /\ approval' = [approval EXCEPT ![a] =
                      [state |-> "pending", gate |-> gate, request |-> NoRequest]]
    /\ UNCHANGED <<deps, bindings, shell, granted, registries, exec, work, row, reached, crowded>>

(* Nothing asks whether the approval is still pending: an answered one can be   *)
(* answered again, and approving it again starts its request again.             *)
crew_approval_resolve(a, status) ==
    /\ Act
    /\ approval[a].state # "none"
    /\ approval' = [approval EXCEPT ![a].state = status]
    /\ LET q == approval[a].request IN
       IF status = "approved" /\ q # NoRequest
       THEN /\ granted' = granted \cup {q}
            /\ \E e \in Execs : Called(e, q, TRUE)
       ELSE UNCHANGED <<granted, exec>>
    /\ UNCHANGED <<deps, bindings, shell, registries, work, row, reached, crowded>>

(* upsert_crew_role_binding: a new binding, or an old one given another role.   *)
crew_role_binding_upsert(r) ==
    /\ Act
    /\ \E gone \in SUBSET bindings :
         /\ Cardinality(gone) <= 1
         /\ bindings' = (bindings \ gone) \cup {r}
    /\ UNCHANGED <<deps, approval, shell, granted, registries, exec, work, row, reached, crowded>>

policy_set ==
    /\ Act
    /\ shell' = ~shell
    /\ UNCHANGED <<deps, approval, bindings, granted, registries, exec, work, row, reached, crowded>>

(* recover_after_unclean_shutdown; a Python process may outlive the application *)
restart ==
    /\ crashes < MaxCrashes
    /\ crashes' = crashes + 1
    /\ exec' = [e \in Execs |-> IF exec[e].at = "idle" THEN exec[e]
                                ELSE [exec[e] EXCEPT !.at = "done"]]
    /\ row' = [e \in Execs |-> IF row[e] = "running" THEN "interrupted" ELSE row[e]]
    /\ active' = NoExec
    /\ canceled' = FALSE
    /\ UNCHANGED <<decisions, work, proc, reached, crowded, acts>>

Step(e) == \/ govern(e) \/ queue_approval(e) \/ start(e)
           \/ not_prepared(e) \/ launch_failed(e) \/ launch(e)
           \/ process_exits(e) \/ python_ends(e)
           \/ mixed_round(e) \/ mixed_batch(e)

Next == \/ \E e \in Execs : Step(e)
        \/ \E e \in Execs, q \in Requests : crew_execute(e, q)
        \/ \E e, d \in Execs : crew_run_replay(e, d)
        \/ crew_stop
        \/ \E a \in Approvals, g \in {"run_gate", "tool_gate", "delegation_gate"} :
              crew_approval_create(a, g)
        \/ \E a \in Approvals, s \in {"approved", "rejected"} : crew_approval_resolve(a, s)
        \/ \E r \in {"operator", "editor", "viewer", "other"} : crew_role_binding_upsert(r)
        \/ policy_set
        \/ restart

Spec == Init /\ [][Next]_vars

-----------------------------------------------------------------------------
(* A crew whose mode asks before it acts has a run only after the user approved *)
(* that very request, also when it is replayed or was asked for twice at once   *)
(* (collect_crew_governance_payload, crew_approval_resolve).                    *)
Gated ==
    \A e \in Execs :
        LET q == exec[e].request IN
        (row[e] # "none" /\ (q.mode = "ask-all" \/ (q.mode = "ask-risky" /\ q.tools # "read")))
            => q \in granted

(* The mixed runner calls a run completed only when each of its tasks was run   *)
(* and none was skipped for want of a dependency's output: a task without an    *)
(* output (it failed) has no dependent (execute_mixed_crew_request).            *)
CompletedWhole ==
    \A e \in Execs :
        (row[e] = "completed" /\ exec[e].request.kind = "mixed")
            => /\ work[e].pending = {}
               /\ \A t \in Tasks : deps[t] \subseteq work[e].outputs

(* Stopping a crew whose run can be stopped (its process is registered, or a    *)
(* batch of the mixed runner is out) keeps that run from ending as completed,   *)
(* unless two runs of the crew overlap and share its registries (crew_stop).    *)
StopReaches ==
    \A e \in reached \ crowded : row[e] # "completed"

(* A run of the mixed runner finds no task it may start only after a task of it  *)
(* failed: no saved crew is stuck from the beginning (validate_crew_request).    *)
StuckOnlyAfterFailure ==
    \A e \in Execs :
        exec[e].at = "round" /\ work[e].pending # {} /\ Ready(work[e]) = {}
            => Tasks \ work[e].pending # work[e].outputs

CrewRunsSafe == Gated /\ CompletedWhole /\ StopReaches /\ StuckOnlyAfterFailure
=============================================================================
