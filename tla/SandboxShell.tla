----------------------------- MODULE SandboxShell -----------------------------
(***************************************************************************)
(* Shell commands under the sandbox account                                 *)
(* (app/src-tauri/src/native_windows_sandbox.rs).                           *)
(*                                                                          *)
(* Setup: an elevated helper creates the account or rotates its password;   *)
(* the application then stores the credential and, last, a marker.          *)
(*                                                                          *)
(* A command: the host starts its own executable as a runner under the      *)
(* account, puts it in a job object, sends it the request over a named pipe *)
(* and waits; the runner starts the shell, forwards its output as frames    *)
(* and ends with an exit frame.  The shell may leave a background process   *)
(* behind that holds the output open.  The user may cancel at any time.     *)
(***************************************************************************)
EXTENDS Integers, Sequences, FiniteSets, SequencesExt

CONSTANTS
    Setups,      \* calls of setup_start (a set of numbers; each makes its own password)
    Commands,    \* calls of execute, each with a stream id of its own
    MaxOutput,   \* bound: chunks a command writes
    MaxFaults    \* bound: operating system calls that fail

VARIABLES
    account,     \* the password the sandbox account has (0: no account)
    stored,      \* the password in the credential file
    marker,      \* the setup marker says ok
    setup,       \* progress of each setup_start
    host,        \* progress of each execute
    proc,        \* runner, shell and background process of each command
    pipe,        \* the shell's output, the frames in the named pipe, what the host captured
    jobs,        \* running_jobs: commands that can be cancelled
    cancelled,   \* commands whose cancel flag is set
    faults

vars == <<account, stored, marker, setup, host, proc, pipe, jobs, cancelled, faults>>
setupVars == <<account, stored, marker, setup>>
shellVars == <<host, proc, pipe, jobs, cancelled>>

Dead == [runner |-> "dead", shell |-> "dead", kid |-> "dead"]
Exit == -1     \* the exit frame; 0 is an error frame, 1.. are chunks of output
HostSteps == {"new", "spawned", "registered", "waiting", "closing", "joining", "done", "error"}

TypeOK ==
    /\ account \in Setups \cup {0} /\ stored \in Setups \cup {0}
    /\ marker \in BOOLEAN
    /\ setup \in [Setups -> {"new", "helper", "late", "stored", "done"}]
    /\ \A c \in Commands : host[c].at \in HostSteps
    /\ jobs \subseteq Commands /\ cancelled \subseteq Commands

Init ==
    /\ account = 0 /\ stored = 0 /\ marker = FALSE
    /\ setup = [s \in Setups |-> "new"]
    /\ host = [c \in Commands |-> [at |-> "new", cut |-> FALSE, stray |-> FALSE,
                                   answer |-> "none"]]
    /\ proc = [c \in Commands |-> Dead]
    /\ pipe = [c \in Commands |-> [written |-> 0, out |-> << >>, frames |-> << >>,
                                   captured |-> << >>, framed |-> FALSE]]
    /\ jobs = {} /\ cancelled = {} /\ faults = 0

Fault == faults < MaxFaults /\ faults' = faults + 1

------------------------------------------------------------------------------
(* Setup *)

\* The request with a fresh password is written and the elevated helper started.
setup_start(s) ==
    /\ setup[s] = "new"
    /\ setup' = [setup EXCEPT ![s] = "helper"]
    /\ UNCHANGED <<account, stored, marker, shellVars, faults>>

\* create_or_update_local_principal; the helper's result is ok.
helper_sets(s) ==
    /\ setup[s] \in {"helper", "late"}
    /\ account' = s
    /\ setup' = [setup EXCEPT ![s] = IF @ = "late" THEN "done" ELSE "stored"]
    /\ UNCHANGED <<stored, marker, shellVars, faults>>

\* The helper fails: its result is not ok, nothing is stored.
helper_fails(s) ==
    /\ setup[s] = "helper" /\ Fault
    /\ setup' = [setup EXCEPT ![s] = "done"]
    /\ UNCHANGED <<account, stored, marker, shellVars>>

\* Two minutes pass: the caller gives up, the helper does not.
setup_times_out(s) ==
    /\ setup[s] = "helper" /\ Fault
    /\ setup' = [setup EXCEPT ![s] = "late"]
    /\ UNCHANGED <<account, stored, marker, shellVars>>

\* Credential first, marker last.
store_credential(s) ==
    /\ setup[s] = "stored"
    /\ stored' = s /\ marker' = TRUE
    /\ setup' = [setup EXCEPT ![s] = "done"]
    /\ UNCHANGED <<account, shellVars, faults>>

\* The application dies with the password changed and the credential not stored.
setup_dies(s) ==
    /\ setup[s] = "stored" /\ Fault
    /\ setup' = [setup EXCEPT ![s] = "done"]
    /\ UNCHANGED <<account, stored, marker, shellVars>>

\* setup_status looks at the marker, the account and that a credential can be read.
Ready == marker /\ account # 0 /\ stored # 0
CanLogOn == stored = account

------------------------------------------------------------------------------
(* The host *)

\* execute: refused before anything is started, or the runner is created suspended.
execute(c) ==
    /\ host[c].at = "new"
    /\ Commands # {} /\ (Setups # {} => Ready /\ CanLogOn)
    /\ host' = [host EXCEPT ![c].at = "spawned"]
    /\ proc' = [proc EXCEPT ![c].runner = "suspended"]
    /\ UNCHANGED <<setupVars, pipe, jobs, cancelled, faults>>

\* The job object cannot be made or attached: the handles are closed and the
\* suspended runner is left behind.
attach_fails(c) ==
    /\ host[c].at = "spawned" /\ Fault
    /\ host' = [host EXCEPT ![c].at = "error", ![c].answer = "failed", ![c].stray = TRUE]
    /\ UNCHANGED <<setupVars, proc, pipe, jobs, cancelled>>

\* In the job, registered under its stream id, then resumed.
register(c) ==
    /\ host[c].at = "spawned"
    /\ jobs' = jobs \cup {c}
    /\ host' = [host EXCEPT ![c].at = "registered"]
    /\ proc' = [proc EXCEPT ![c].runner = "connecting"]
    /\ UNCHANGED <<setupVars, pipe, cancelled, faults>>

\* The runner connected with the expected process id and gets the request.
connect(c) ==
    /\ host[c].at = "registered" /\ proc[c].runner = "connected"
    /\ host' = [host EXCEPT ![c].at = "waiting"]
    /\ proc' = [proc EXCEPT ![c].runner = "requested"]
    /\ UNCHANGED <<setupVars, pipe, jobs, cancelled, faults>>

\* mutant: no time limit on the connection
GivesUp_dead(c) == proc[c].runner = "dead"

\* The runner died, or fifteen seconds passed without a connection.
GivesUp(c) == proc[c].runner \in {"dead", "connecting"}

\* Either way the entry is removed and the job terminated ...
Unconnected(c) ==
    /\ host[c].at = "registered"
    /\ jobs' = jobs \ {c}
    /\ proc' = [proc EXCEPT ![c] = Dead]
    /\ host' = [host EXCEPT ![c].at = "error", ![c].answer = "failed"]
    /\ UNCHANGED <<setupVars, pipe, cancelled>>

gives_up(c) == GivesUp(c) /\ Unconnected(c) /\ UNCHANGED faults

\* ... and so when the request cannot be written.
request_fails(c) == proc[c].runner = "connected" /\ Fault /\ Unconnected(c)

\* The wait loop ends: the runner exited, or the time is up and the job is terminated.
runner_exited(c) ==
    /\ host[c].at = "waiting" /\ proc[c].runner = "dead"
    /\ host' = [host EXCEPT ![c].at = "closing"]
    /\ UNCHANGED <<setupVars, proc, pipe, jobs, cancelled, faults>>

timed_out(c) ==
    /\ host[c].at = "waiting" /\ proc[c].runner # "dead"
    /\ host' = [host EXCEPT ![c].at = "closing", ![c].cut = TRUE]
    /\ proc' = [proc EXCEPT ![c] = Dead]
    /\ UNCHANGED <<setupVars, pipe, jobs, cancelled, faults>>


\* JOB_OBJECT_LIMIT_KILL_ON_JOB_CLOSE
Closed(c) == Dead

\* Out of running_jobs before the handle is closed.
close_job(c) ==
    /\ host[c].at = "closing"
    /\ jobs' = jobs \ {c}
    /\ proc' = [proc EXCEPT ![c] = Closed(c)]
    /\ host' = [host EXCEPT ![c].at = "joining"]
    /\ UNCHANGED <<setupVars, pipe, cancelled, faults>>

\* The reader thread has seen the end of the pipe.
Outcome(c) ==
    IF host[c].cut THEN "timeout"
    ELSE IF c \in cancelled THEN "cancelled"
    ELSE IF pipe[c].framed THEN "exited" ELSE "killed"

join_reader(c) ==
    /\ host[c].at = "joining"
    /\ proc[c].runner = "dead" /\ pipe[c].frames = << >>
    /\ host' = [host EXCEPT ![c].at = "done", ![c].answer = Outcome(c)]
    /\ UNCHANGED <<setupVars, proc, pipe, jobs, cancelled, faults>>

\* cancel(stream_id): only a registered command; the job is terminated.
cancel(c) ==
    /\ c \in jobs /\ c \notin cancelled
    /\ cancelled' = cancelled \cup {c}
    /\ proc' = [proc EXCEPT ![c] = Dead]
    /\ UNCHANGED <<setupVars, host, pipe, jobs, faults>>

\* spawn_ipc_reader: output is captured, an exit frame sets the code.
read_frame(c) ==
    LET frame == Head(pipe[c].frames) IN
    /\ host[c].at \in {"waiting", "closing", "joining"} /\ pipe[c].frames # << >>
    /\ pipe' = [pipe EXCEPT ![c].frames = Tail(@),
                            ![c].captured = IF frame = Exit THEN @ ELSE Append(@, frame),
                            ![c].framed = @ \/ frame = Exit]
    /\ UNCHANGED <<setupVars, host, proc, jobs, cancelled, faults>>

------------------------------------------------------------------------------
(* The runner and what it started *)

RunnerSends(c, frames) == pipe' = [pipe EXCEPT ![c].frames = @ \o frames]

runner_connects(c) ==
    /\ proc[c].runner = "connecting"
    /\ proc' = [proc EXCEPT ![c].runner = "connected"]
    /\ UNCHANGED <<setupVars, host, pipe, jobs, cancelled, faults>>

\* The restricted token, the desktop and the pipes are made, the shell started.
spawn_shell(c) ==
    /\ proc[c].runner = "requested"
    /\ proc' = [proc EXCEPT ![c].runner = "running", ![c].shell = "running"]
    /\ UNCHANGED <<setupVars, host, pipe, jobs, cancelled, faults>>

\* One of them fails: an error frame, an exit frame 125, and the runner ends.
spawn_shell_fails(c) ==
    /\ proc[c].runner = "requested" /\ Fault
    /\ RunnerSends(c, <<0, Exit>>)
    /\ proc' = [proc EXCEPT ![c] = Dead]
    /\ UNCHANGED <<setupVars, host, jobs, cancelled>>

Writer(c) == {p \in {"shell", "kid"} : proc[c][p] = "running"}

writes(c) ==
    /\ Writer(c) # {} /\ pipe[c].written < MaxOutput
    /\ pipe' = [pipe EXCEPT ![c].written = @ + 1, ![c].out = Append(@, pipe[c].written + 1)]
    /\ UNCHANGED <<setupVars, host, proc, jobs, cancelled, faults>>

\* spawn_runner_output_forwarder
forward(c) ==
    /\ proc[c].runner = "running" /\ pipe[c].out # << >>
    /\ pipe' = [pipe EXCEPT ![c].frames = Append(@, Head(pipe[c].out)), ![c].out = Tail(@)]
    /\ UNCHANGED <<setupVars, host, proc, jobs, cancelled, faults>>

\* The shell exits, perhaps leaving a process behind, with or without its output.
shell_exits(c) ==
    /\ proc[c].shell = "running"
    /\ \E kid \in {"dead", "running", "detached"} :
          proc' = [proc EXCEPT ![c].shell = "dead", ![c].kid = kid]
    /\ UNCHANGED <<setupVars, host, pipe, jobs, cancelled, faults>>

kid_exits(c) ==
    /\ proc[c].kid # "dead"
    /\ proc' = [proc EXCEPT ![c].kid = "dead"]
    /\ UNCHANGED <<setupVars, host, pipe, jobs, cancelled, faults>>

\* mutant: the forwarders are not joined
Drained_exited(c) == proc[c].shell = "dead"

\* Both forwarders have seen the end of the output: nobody holds it open.
Drained(c) == Writer(c) = {} /\ pipe[c].out = << >>

runner_ends(c) ==
    /\ proc[c].runner = "running" /\ Drained(c)
    /\ RunnerSends(c, <<Exit>>)
    /\ proc' = [proc EXCEPT ![c].runner = "dead"]
    /\ UNCHANGED <<setupVars, host, jobs, cancelled, faults>>

------------------------------------------------------------------------------
Setup(s) ==
    setup_start(s) \/ helper_sets(s) \/ helper_fails(s) \/ setup_times_out(s)
    \/ store_credential(s) \/ setup_dies(s)

Host(c) ==
    execute(c) \/ attach_fails(c) \/ register(c) \/ connect(c) \/ gives_up(c) \/ request_fails(c)
    \/ runner_exited(c) \/ timed_out(c) \/ close_job(c) \/ join_reader(c) \/ read_frame(c)

Guest(c) ==
    runner_connects(c) \/ spawn_shell(c) \/ spawn_shell_fails(c) \/ writes(c) \/ forward(c)
    \/ shell_exits(c) \/ kid_exits(c) \/ runner_ends(c)

Next ==
    \/ \E s \in Setups : Setup(s)
    \/ \E c \in Commands : Host(c) \/ Guest(c) \/ cancel(c)

\* The host's thread and its reader go on, and its clock reaches the time-out;
\* nothing is assumed of the runner, the shell or what it left behind.
HostStep(c) ==
    \/ register(c) \/ connect(c) \/ gives_up(c) \/ runner_exited(c) \/ timed_out(c)
    \/ close_job(c) \/ join_reader(c) \/ read_frame(c)

Fairness == \A c \in Commands : WF_vars(HostStep(c))

Spec == Init /\ [][Next]_vars /\ Fairness

------------------------------------------------------------------------------
\* A command that was neither cancelled nor cut off has delivered, in order, all
\* that the shell and what it started wrote before the output was closed.
OutputComplete ==
    \A c \in Commands : host[c].answer = "exited" =>
        \/ pipe[c].captured = [i \in 1..pipe[c].written |-> i]
        \/ pipe[c].captured = <<0>> /\ pipe[c].written = 0

\* Once a command is answered nothing it started is still alive, except the
\* suspended runner of a job that could not be attached.
NothingSurvives ==
    \A c \in Commands : (host[c].at \in {"done", "error"} /\ ~host[c].stray) =>
        proc[c] = Dead

\* A command that was started is answered, whatever a background process of
\* the shell does with the output it inherited.
Spawned(c) == host[c].at = "spawned"
Answered(c) == host[c].at \in {"done", "error"}
CommandAnswered == \A c \in Commands : Spawned(c) ~> Answered(c)
==============================================================================
