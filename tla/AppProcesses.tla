----------------------------- MODULE AppProcesses -----------------------------
(* The processes the desktop application starts (app/src-tauri/src/                *)
(* process_manager.rs, terminal_sessions.rs, terminal_backends.rs,                  *)
(* process_control.rs): background processes with a row each and a thread that       *)
(* waits for them, terminals with a shell each, and commands run with a time limit.  *)
(* Commands of the user run one at a time; a process may end at any moment, and its   *)
(* process id be given to a stranger.                                                *)
EXTENDS Integers, FiniteSets

CONSTANTS Procs,      \* background processes, numbers from 1 on
          Pids,       \* process ids, numbers from 1 on
          Terms,      \* terminal sessions
          Shells,     \* shells of terminals, numbers from 1 on
          Execs,      \* commands on the local backend
          MaxRestarts, MaxFaults   \* bounds

Free == 0
Stranger == -1

VARIABLES row,        \* managed_processes: [status, pid, approved]
          os,         \* who has a process id
          waiting,    \* <<process, pid>> a monitor thread waits for
          recording,  \* <<process, pid>> that ended, before its row says so
          halted,     \* processes the user stopped
          excused,    \* processes started twice, or before the application's last start
          registry,   \* TerminalSessionRegistry: the shell of a session
          alive,      \* shells that run, with their session
          ended,      \* sessions the user interface was told have ended
          replaced,   \* sessions created while an earlier shell of theirs lived
          exec,       \* the commands
          restarts, faults

managed == <<row, os, waiting, recording, halted, excused>>
terminals == <<registry, alive, ended, replaced>>
vars == <<managed, terminals, exec, restarts, faults>>

NoRow == [status |-> "none", pid |-> Free, approved |-> FALSE]
NoExec == [at |-> "idle", shell |-> FALSE, helper |-> FALSE, guard |-> FALSE, detached |-> FALSE]

Init ==
    /\ row = [p \in Procs |-> NoRow] /\ os = [i \in Pids |-> Free]
    /\ waiting = {} /\ recording = {} /\ halted = {} /\ excused = {}
    /\ registry = [t \in Terms |-> Free] /\ alive = {} /\ ended = {} /\ replaced = {}
    /\ exec = [e \in Execs |-> NoExec]
    /\ restarts = 0 /\ faults = 0

Fault == faults < MaxFaults /\ faults' = faults + 1

-----------------------------------------------------------------------------
(* spawn_local_process: the process, the row, the monitor; a failure on the way kills  *)
(* the process, also when only the monitor cannot start (its guard is dropped).        *)
RunningRow_anonymous(r, pid) == [r EXCEPT !.status = "running"]
RunningRow(r, pid) == [r EXCEPT !.status = "running", !.pid = pid]

(* An earlier process of the same row still runs, or its monitor has not recorded its end. *)
Overlaps(p) == \E i \in Pids : os[i] = p \/ <<p, i>> \in recording
Excusing(p) == IF Overlaps(p) THEN excused \union {p} ELSE excused

Spawned(p, r) ==
    /\ halted' = halted \ {p}
    /\ excused' = Excusing(p)
    /\ \/ \E pid \in Pids :
            /\ os[pid] = Free
            /\ os' = [os EXCEPT ![pid] = p]
            /\ row' = [r EXCEPT ![p] = RunningRow(@, pid)]
            /\ waiting' = waiting \union {<<p, pid>>}
            /\ UNCHANGED faults
       \/ /\ Fault
          /\ \/ \E status \in {"error", "failed"} :
                   row' = [r EXCEPT ![p].status = status, ![p].pid = Free]
             \/ row' = r                           \* the row could not be written
          /\ UNCHANGED <<os, waiting>>

start_process(p, needs_admin) ==
    /\ row[p].status = "none"
    /\ IF needs_admin
       THEN /\ row' = [row EXCEPT ![p].status = "pending"]
            /\ UNCHANGED <<os, waiting, halted, excused, faults>>
       ELSE Spawned(p, row)
    /\ UNCHANGED <<recording, terminals, exec, restarts>>

(* The status of the row is not looked at: approving twice starts it twice.             *)
approve_and_start(p, approved) ==
    /\ row[p].status # "none"
    /\ IF approved
       THEN Spawned(p, [row EXCEPT ![p].approved = TRUE])
       ELSE /\ row' = [row EXCEPT ![p].status = "rejected", ![p].pid = Free]
            /\ halted' = halted \ {p}
            /\ excused' = Excusing(p)
            /\ UNCHANGED <<os, waiting, faults>>
    /\ UNCHANGED <<recording, terminals, exec, restarts>>

(* The pid of the row is signalled, whoever has it by now; a process may take a moment,  *)
(* or ignore it.                                                                          *)
stop_process(p) ==
    /\ row[p].status # "none"
    /\ row' = [row EXCEPT ![p].status = "stopped", ![p].pid = Free]
    /\ halted' = halted \union {p}
    /\ UNCHANGED <<os, waiting, recording, excused, terminals, exec, restarts, faults>>

process_ends(p, pid) ==
    /\ os[pid] = p
    /\ os' = [os EXCEPT ![pid] = Free]
    /\ waiting' = waiting \ {<<p, pid>>}
    /\ recording' = IF <<p, pid>> \in waiting THEN recording \union {<<p, pid>>} ELSE recording
    /\ UNCHANGED <<row, halted, excused, terminals, exec, restarts, faults>>

(* update_process_exit_if_running                                                          *)
Records_always(p) == TRUE
Records(p) == row[p].status = "running"

monitor_records(p, pid) ==
    /\ <<p, pid>> \in recording
    /\ recording' = recording \ {<<p, pid>>}
    /\ \E status \in {"stopped", "failed"} :
          row' = IF Records(p) THEN [row EXCEPT ![p].status = status, ![p].pid = Free] ELSE row
    /\ UNCHANGED <<os, waiting, halted, excused, terminals, exec, restarts, faults>>

(* The application ends and starts again: rows stay, monitors and terminals go. Where the   *)
(* process tree is a job, its processes go too.                                             *)
restart ==
    /\ restarts < MaxRestarts /\ restarts' = restarts + 1
    /\ \E gone \in SUBSET Pids : os' = [i \in Pids |-> IF i \in gone /\ os[i] # Stranger THEN Free ELSE os[i]]
    /\ waiting' = {} /\ recording' = {}
    /\ excused' = Procs
    /\ registry' = [t \in Terms |-> Free] /\ alive' = {} /\ ended' = {} /\ replaced' = {}
    /\ exec' = [e \in Execs |-> NoExec]
    /\ UNCHANGED <<row, halted, faults>>

stranger_gets(pid) ==
    /\ os[pid] = Free
    /\ os' = [os EXCEPT ![pid] = Stranger]
    /\ UNCHANGED <<row, waiting, recording, halted, excused, terminals, exec, restarts, faults>>

-----------------------------------------------------------------------------
(* A session that exists already is replaced and its shell killed.                          *)
terminal_create(t, shell) ==
    /\ \A x \in alive : x[2] # shell
    /\ shell \notin {registry[u] : u \in Terms}
    /\ alive' = alive \union {<<t, shell>>}
    /\ registry' = [registry EXCEPT ![t] = shell]
    /\ ended' = ended \ {t}
    /\ replaced' = IF \E x \in alive : x[1] = t THEN replaced \union {t} ELSE replaced
    /\ UNCHANGED <<managed, exec, restarts, faults>>

(* spawn_waiter: the exit event names the session, not the shell.                            *)
shell_ends(t, shell) ==
    /\ <<t, shell>> \in alive
    /\ alive' = alive \ {<<t, shell>>}
    /\ ended' = ended \union {t}
    /\ UNCHANGED <<managed, registry, replaced, exec, restarts, faults>>

terminal_close(t) ==
    /\ registry[t] # Free
    /\ registry' = [registry EXCEPT ![t] = Free]
    /\ UNCHANGED <<managed, alive, ended, replaced, exec, restarts, faults>>

-----------------------------------------------------------------------------
(* execute_local: a shell and what it leaves in the background, both with the output open.   *)
exec_start(e) ==
    /\ exec[e].at = "idle"
    /\ \/ /\ exec' = [exec EXCEPT ![e] = [NoExec EXCEPT !.at = "wait", !.shell = TRUE, !.guard = TRUE]]
          /\ UNCHANGED faults
       \/ Fault /\ exec' = [exec EXCEPT ![e] = [NoExec EXCEPT !.at = "wait", !.shell = TRUE]]
    /\ UNCHANGED <<managed, terminals, restarts>>

exec_forks(e) ==
    /\ exec[e].shell
    /\ exec' = [exec EXCEPT ![e].helper = TRUE]
    /\ UNCHANGED <<managed, terminals, restarts, faults>>

exec_ends(e) ==
    /\ \/ exec[e].shell /\ exec' = [exec EXCEPT ![e].shell = FALSE]
       \/ exec[e].helper /\ exec' = [exec EXCEPT ![e].helper = FALSE]
    /\ UNCHANGED <<managed, terminals, restarts, faults>>

exec_waited(e) ==
    /\ exec[e].at = "wait"
    /\ ~exec[e].shell
    /\ exec' = [exec EXCEPT ![e].at = "drop"]
    /\ UNCHANGED <<managed, terminals, restarts, faults>>

(* terminate_process_tree at the time limit: the whole tree, unless the shell ended by now.  *)
exec_times_out(e) ==
    /\ exec[e].at = "wait"
    /\ exec' = [exec EXCEPT ![e].at = "drop", ![e].shell = FALSE,
                              ![e].helper = @ /\ ~exec[e].shell]
    /\ UNCHANGED <<managed, terminals, restarts, faults>>

(* ... which fails: only the shell is killed, or nothing is and the output is given up.        *)
exec_kill_fails(e) ==
    /\ exec[e].at = "wait" /\ exec[e].shell
    /\ Fault
    /\ \/ exec' = [exec EXCEPT ![e].at = "drop", ![e].shell = FALSE]
       \/ exec' = [exec EXCEPT ![e].at = "drop", ![e].detached = TRUE]
    /\ UNCHANGED <<managed, terminals, restarts>>

(* drop(process_tree): what the shell left behind is killed.                                  *)
Dropped_kept(x) == x
Dropped(x) == IF x.guard THEN [x EXCEPT !.shell = FALSE, !.helper = FALSE] ELSE x

exec_drops(e) ==
    /\ exec[e].at = "drop"
    /\ exec' = [exec EXCEPT ![e] = [Dropped(exec[e]) EXCEPT !.at = "join"]]
    /\ UNCHANGED <<managed, terminals, restarts, faults>>

exec_answers(e) ==
    /\ exec[e].at = "join"
    /\ exec[e].detached \/ (~exec[e].shell /\ ~exec[e].helper)
    /\ exec' = [exec EXCEPT ![e].at = "done"]
    /\ UNCHANGED <<managed, terminals, restarts, faults>>

Next ==
    \/ \E p \in Procs :
        \/ stop_process(p)
        \/ \E b \in BOOLEAN : start_process(p, b) \/ approve_and_start(p, b)
        \/ \E pid \in Pids : process_ends(p, pid) \/ monitor_records(p, pid)
    \/ \E pid \in Pids : stranger_gets(pid)
    \/ \E t \in Terms :
        \/ terminal_close(t)
        \/ \E s \in Shells : terminal_create(t, s) \/ shell_ends(t, s)
    \/ \E e \in Execs :
        \/ exec_start(e) \/ exec_forks(e) \/ exec_ends(e) \/ exec_waited(e) \/ exec_times_out(e)
        \/ exec_kill_fails(e) \/ exec_drops(e) \/ exec_answers(e)
    \/ restart

Spec == Init /\ [][Next]_vars

(* The waiting loop sees the exit or the time limit, and goes on; nothing makes a process     *)
(* end by itself.                                                                              *)
LiveSpec ==
    /\ Spec
    /\ \A e \in Execs : WF_vars(exec_waited(e) \/ exec_times_out(e))
                        /\ WF_vars(exec_drops(e)) /\ WF_vars(exec_answers(e))

-----------------------------------------------------------------------------
(* A process the user stopped is reported as stopped from then on: the monitor that sees it    *)
(* end later does not overwrite that (stop_process, update_process_exit_if_running).            *)
StoppedStays == \A p \in halted : row[p].status = "stopped"

(* A process that runs can be stopped: its row names its process id, as long as it was started  *)
(* once, by this run of the application, and was not stopped already                             *)
(* (spawn_local_process, monitor_records).                                                       *)
LiveIsReachable ==
    \A p \in Procs \ (excused \union halted) : \A pid \in Pids :
        os[pid] = p => row[p].status = "running" /\ row[p].pid = pid

(* The exit event of a terminal is about the shell the session has, unless the session was        *)
(* created while a shell of that name lived (spawn_waiter, create_terminal_session).                              *)
EndedIsEnded ==
    \A t \in ended \ replaced : registry[t] # Free => <<t, registry[t]>> \notin alive

(* All three: what the application shows of its processes is true.                                *)
ProcessesTracked == StoppedStays /\ LiveIsReachable /\ EndedIsEnded

(* A command on the local backend is answered, whatever it leaves running with its output open,    *)
(* once its process tree was attached (execute_local, terminate_process_tree).                      *)
Waiting(e) == exec[e].at = "wait" /\ exec[e].guard
Returned(e) == exec[e].at \in {"done", "idle"}
ExecAnswered == \A e \in Execs : Waiting(e) ~> Returned(e)
=============================================================================
