---------------------------------------- MODULE MCLiveness -----------------------------------------
(* Components that have to get something done, each checked by itself: a behaviour runs one of    *)
(* the Scenes. The variables are shared, so that one exploration asks all the questions.          *)
EXTENDS Integers, FiniteSets

CONSTANTS Scenes

VARIABLES
  scene,  \* the component that runs
  \* its variables, in the order of its module
  v1, v2, v3, v4, v5, v6, v7, v8, v9, v10, v11, v12, v13

vars == <<scene, v1, v2, v3, v4, v5, v6, v7, v8, v9, v10, v11, v12, v13>>

\* A component with fewer variables leaves the others alone.
Rest13 == <<v13>>
Zero13 == v13 = 0
Rest11 == <<v11, v12, Rest13>>
Zero11 == v11 = 0 /\ v12 = 0 /\ Zero13
Rest9 == <<v9, v10, Rest11>>
Zero9 == v9 = 0 /\ v10 = 0 /\ Zero11
Rest8 == <<v8, Rest9>>
Zero8 == v8 = 0 /\ Zero9
Rest7 == <<v7, Rest8>>
Zero7 == v7 = 0 /\ Zero8

Policies == {"confirm_mutations"}

\* One desktop session with one stream, one restart of the server.
Desktop == INSTANCE DesktopControl WITH target <- v1, run <- v2, row <- v3, start <- v4, box <- v5,
    sweep <- v6, stopping <- v7, ticket <- v8, relay <- v9, grants <- v10, restarts <- v11,
    stuck <- v12, leaked <- v13, Ids <- {1}, Tickets <- {1}, MaxRestarts <- 1
AtDesktop == scene = "desktop"
KeepDesktop == UNCHANGED scene

\* One delivery to two devices by two dispatchers.
Push == INSTANCE PushDelivery WITH subs <- v1, delivery <- v2, proc <- v3, got <- v4,
    reclaimed <- v5, faults <- v6, Deliveries <- {1}, Subscriptions <- {1, 2},
    Dispatchers <- {1, 2}, MaxAttempts <- 2, MaxFaults <- 2
AtPush == scene = "push"
KeepPush == UNCHANGED <<scene, Rest7>>

\* Two turns over two accounts.
Accounts == INSTANCE CodexAccounts WITH profile <- v1, proc <- v2, turn <- v3, copy <- v4,
    events <- v5, touched <- v6, gone <- v7, NProfiles <- 2, Turns <- {1, 2},
    MaxEvents <- 1
AtAccounts == scene = "accounts"
KeepAccounts == UNCHANGED <<scene, Rest8>>

\* A command of the Windows sandbox and two set-ups.
Shell == INSTANCE SandboxShell WITH account <- v1, stored <- v2, marker <- v3, setup <- v4,
    host <- v5, proc <- v6, pipe <- v7, jobs <- v8, cancelled <- v9, faults <- v10,
    Setups <- {1, 2}, Commands <- {1}, MaxOutput <- 2, MaxFaults <- 2
AtShell == scene = "shell"
KeepShell == UNCHANGED <<scene, Rest11>>

\* Two runs of the daemon and one crash.
Daemon == INSTANCE DaemonRuns WITH runs <- v1, worker <- v2, sched <- v3, due <- v4, prepared <- v5,
    now <- v6, present <- v7, up <- v8, faults <- v9, crashes <- v10, claimed <- v11, lost <- v12,
    Threads <- {"A", "B"}, UserKeys <- {1, 2}, Schedules <- {}, Policies <- Policies, MaxRuns <- 2,
    MaxClock <- 1, MaxSteps <- 1, MaxFaults <- 0, MaxCrashes <- 1
AtDaemon == scene = "daemon"
KeepDaemon == UNCHANGED <<scene, Rest13>>

\* Two Codex runs of the daemon over one process.
Codex == INSTANCE DaemonCodex WITH alive <- v1, stdin <- v2, stdout <- v3, turn <- v4, asked <- v5,
    pc <- v6, run <- v7, content <- v8, ended <- v9, canceled <- v10, notes <- v11, exits <- v12,
    Runs <- {1, 2}, MaxNotes <- 2, MaxExits <- 1
AtCodex == scene = "codex"
KeepCodex == UNCHANGED <<scene, Rest13>>

\* Two commands on the local terminal backend.
Exec == INSTANCE AppProcesses WITH row <- v1, os <- v2, waiting <- v3, recording <- v4,
    halted <- v5, excused <- v6, registry <- v7, alive <- v8, ended <- v9, replaced <- v10,
    exec <- v11, restarts <- v12, faults <- v13, Procs <- {}, Pids <- {}, Terms <- {}, Shells <- {},
    Execs <- {1, 2}, MaxRestarts <- 1, MaxFaults <- 1
AtExec == scene = "exec"
KeepExec == UNCHANGED scene

Init ==
  /\ scene \in Scenes
  /\ \/ AtDesktop /\ Desktop!Init
     \/ AtPush /\ Push!Init /\ Zero7
     \/ AtAccounts /\ Accounts!Init /\ Zero8
     \/ AtShell /\ Shell!Init /\ Zero11
     \/ AtDaemon /\ Daemon!Init /\ Zero13
     \/ AtCodex /\ Codex!Init /\ Zero13
     \/ AtExec /\ Exec!Init

Next ==
  \/ AtDesktop /\ Desktop!Next /\ KeepDesktop
  \/ AtPush /\ Push!Next /\ KeepPush
  \/ AtAccounts /\ Accounts!Next /\ KeepAccounts
  \/ AtShell /\ Shell!Next /\ KeepShell
  \/ AtDaemon /\ Daemon!Next /\ KeepDaemon
  \/ AtCodex /\ Codex!Next /\ KeepCodex
  \/ AtExec /\ Exec!Next /\ KeepExec

\* The fairness of the components: of the actions that share a condition only one component's runs.
Fairness ==
  /\ WF_vars(\/ AtDesktop /\ v2 = "over" /\ Desktop!end_sessions /\ KeepDesktop
             \/ AtPush /\ Push!grow_stale(1) /\ KeepPush
             \/ AtDaemon /\ Daemon!Worker /\ KeepDaemon
             \/ AtShell /\ Shell!HostStep(1) /\ KeepShell)
  /\ WF_vars(\/ AtDesktop /\ Desktop!finish_session_row(1) /\ KeepDesktop
             \/ AtPush /\ (\E p \in {1, 2} : Push!claim_delivery(p, 1)) /\ KeepPush
             \/ AtDaemon /\ Daemon!Scheduler /\ KeepDaemon
             \/ AtCodex /\ Codex!begin_run /\ KeepCodex)
  /\ WF_vars(\/ AtDesktop /\ Desktop!insert_session(1) /\ KeepDesktop
             \/ AtDaemon /\ Daemon!Start /\ KeepDaemon
             \/ AtCodex /\ Codex!times_out /\ KeepCodex)
  /\ \A p \in {1, 2} :
       /\ WF_vars(\/ AtDesktop /\ Desktop!stop_commit(<<IF p = 1 THEN "user" ELSE "sweep", 1>>) /\ KeepDesktop
                  \/ AtPush /\ Push!read_subscriptions(p) /\ KeepPush
                  \/ AtAccounts /\ Accounts!TurnStep(p) /\ KeepAccounts
                  \/ AtExec /\ (Exec!exec_waited(p) \/ Exec!exec_times_out(p)) /\ KeepExec)
       /\ WF_vars(\/ AtDesktop /\ p = 1 /\ Desktop!open_stream(p) /\ KeepDesktop
                  \/ AtPush /\ Push!settle(p) /\ KeepPush
                  \/ AtExec /\ Exec!exec_drops(p) /\ KeepExec)
       /\ WF_vars(\/ AtDesktop /\ p = 1 /\ (Desktop!runner_start(1) \/ Desktop!start_failed(1)) /\ KeepDesktop
                  \/ AtDesktop /\ p = 2 /\ (Desktop!record_start(1) \/ Desktop!record_start_refused(1)) /\ KeepDesktop
                  \/ AtPush /\ (\E i \in {1, 2}, outcome \in {"ok", "retry", "gone"} : Push!send(p, i, outcome))
                     /\ KeepPush
                  \/ AtExec /\ Exec!exec_answers(p) /\ KeepExec)

Spec == Init /\ [][Next]_vars /\ Fairness
----------------------------------------------------------------------------------------------------
Begun(i) ==
  CASE AtDesktop -> FALSE
    [] AtPush -> i = 1 /\ Push!Queued(1)
    [] AtAccounts -> Accounts!Begun(i)
    [] AtShell -> i = 1 /\ Shell!Spawned(1)
    [] AtDaemon -> Daemon!StillQueued(i)
    [] AtCodex -> TRUE
    [] AtExec -> Exec!Waiting(i)

Ended(i) ==
  CASE AtDesktop -> TRUE
    [] AtPush -> Push!Final(1)
    [] AtAccounts -> Accounts!Done(i)
    [] AtShell -> Shell!Answered(1)
    [] AtDaemon -> Daemon!Moved(i)
    [] AtCodex -> Codex!Over(i)
    [] AtExec -> Exec!Returned(i)




\* An automatic turn asks for a paid fallback only when it found every account limited or unusable,
\* unless a status was changed while it ran (run_codex_turn); an ended run of the daemon keeps its
\* end (execute_run, interrupt_active_runs).
EndsJustified ==
  [][/\ AtAccounts => Accounts!FallbackJustifiedStep
     /\ AtDaemon => Daemon!EndsKeptStep]_vars
====================================================================================================
