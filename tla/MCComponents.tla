--------------------------------------- MODULE MCComponents ----------------------------------------
(* Components of the server, the device agent, the daemon and the desktop application whose       *)
(* promises are about single states and steps, each checked by itself: a behaviour runs one of    *)
(* the Scenes. The variables are shared, so that one exploration asks all the questions.          *)
EXTENDS Integers, FiniteSets

CONSTANTS Scenes, NoToken, Unset

VARIABLES
  scene,  \* the component that runs
  \* its variables, in the order of its module
  v1, v2, v3, v4, v5, v6, v7, v8, v9, v10, v11, v12, v13, v14, v15, v16

vars == <<scene, v1, v2, v3, v4, v5, v6, v7, v8, v9, v10, v11, v12, v13, v14, v15, v16>>

\* A component with fewer variables leaves the others alone.
Rest16 == <<v16>>
Zero16 == v16 = 0
Rest14 == <<v14, v15, Rest16>>
Zero14 == v14 = 0 /\ v15 = 0 /\ Zero16
Rest13 == <<v13, Rest14>>
Zero13 == v13 = 0 /\ Zero14
Rest12 == <<v12, Rest13>>
Zero12 == v12 = 0 /\ Zero13
Rest11 == <<v11, Rest12>>
Zero11 == v11 = 0 /\ Zero12
Rest10 == <<v10, Rest11>>
Zero10 == v10 = 0 /\ Zero11
Rest9 == <<v9, Rest10>>
Zero9 == v9 = 0 /\ Zero10
Rest8 == <<v8, Rest9>>
Zero8 == v8 = 0 /\ Zero9
Rest7 == <<v7, Rest8>>
Zero7 == v7 = 0 /\ Zero8
Rest6 == <<v6, Rest7>>
Zero6 == v6 = 0 /\ Zero7
Rest4 == <<v4, v5, Rest6>>
Zero4 == v4 = 0 /\ v5 = 0 /\ Zero6

\* Values of constants.
ProjectionScenes == {
    [kinds |-> {"project", "thread", "message"}, projects |-> {"p1", "p2"}, requests |-> {"thread"}],
    [kinds |-> {"project", "thread", "task"}, projects |-> {"p1", "p2"}, requests |-> {"task"}],
    [kinds |-> {"project", "thread", "task", "schedule"}, projects |-> {"p1"},
     requests |-> {"schedule", "update"}],
    [kinds |-> {"project", "thread", "task", "schedule", "profile"}, projects |-> {"p1"},
     requests |-> {"schedule"}]}
NoDeps == <<{}>>
ParentOf == [r \in {"a", "c"} |-> IF r = "c" THEN "a" ELSE "-"]
Graphs == {<<{}, {}, {1}>>, <<{2}, {3}, {1}>>, <<{}, {1, 3}, {1}>>, <<{4}, {}, {}>>}
CrewRequests == {[mode |-> "ask-risky", kind |-> "mixed", tools |-> "delegate"],
                 [mode |-> "allow-all", kind |-> "python", tools |-> "bash"]}
Limits == [memory |-> 4, user |-> 5]
ScopeOf == [o \in {1, 2} |-> "terminal_backend"]

\* Two requests over a second factor, over a passkey, or over OpenID Connect.
Factor == INSTANCE SignIn WITH account <- v1, password <- v2, signedIn <- v3, clock <- v4,
    totp <- v5, recovery <- v6, req <- v7, code <- v8, passkey <- v9, challenge <- v10,
    login <- v11, identity <- v12, invite <- v13, spent <- v14, twice <- v15, provisioned <- v16,
    Reqs <- {"q1", "q2"}, NoOne <- "none", Users <- {"u1"}, Codes <- {"c1"}, Keys <- {},
    Challenges <- {}, Logins <- {}, Subjects <- {}, Invites <- {}, MaxStep <- 2, MaxSecret <- 1
AtFactor == scene = "factor"
KeepFactor == UNCHANGED scene

Passkey == INSTANCE SignIn WITH account <- v1, password <- v2, signedIn <- v3, clock <- v4,
    totp <- v5, recovery <- v6, req <- v7, code <- v8, passkey <- v9, challenge <- v10,
    login <- v11, identity <- v12, invite <- v13, spent <- v14, twice <- v15, provisioned <- v16,
    Reqs <- {"q1", "q2"}, NoOne <- "none", Users <- {"u1"}, Codes <- {"c1"}, Keys <- {"k1", "k2"},
    Challenges <- {"h1", "h2"}, Logins <- {}, Subjects <- {}, Invites <- {}, MaxStep <- 1,
    MaxSecret <- 0
AtPasskey == scene = "passkey"
KeepPasskey == UNCHANGED scene

Oidc == INSTANCE SignIn WITH account <- v1, password <- v2, signedIn <- v3, clock <- v4, totp <- v5,
    recovery <- v6, req <- v7, code <- v8, passkey <- v9, challenge <- v10, login <- v11,
    identity <- v12, invite <- v13, spent <- v14, twice <- v15, provisioned <- v16,
    Reqs <- {"q1", "q2"}, NoOne <- "none", Users <- {"u1", "u2"}, Codes <- {}, Keys <- {},
    Challenges <- {}, Logins <- {"o1"}, Subjects <- {"s1"}, Invites <- {"i1"}, MaxStep <- 1,
    MaxSecret <- 0
AtOidc == scene = "oidc"
KeepOidc == UNCHANGED scene

\* Two sessions, two holders of refresh tokens.
Auth == INSTANCE Sessions WITH session <- v1, access <- v2, held <- v3, revoking <- v4, subs <- v5,
    accepted <- v6, replayed <- v7, crossed <- v8, lingers <- v9, SessionIds <- {1, 2},
    Devices <- {"d1"}, Holders <- {"h1", "h2"}, MaxGen <- 3, NoToken <- NoToken
AtAuth == scene = "sessions"
KeepAuth == UNCHANGED <<scene, Rest10>>

\* One desktop session, two streams of it, one restart of the server.
Desktop == INSTANCE DesktopControl WITH target <- v1, run <- v2, row <- v3, start <- v4, box <- v5,
    sweep <- v6, stopping <- v7, ticket <- v8, relay <- v9, grants <- v10, restarts <- v11,
    stuck <- v12, leaked <- v13, Ids <- {1}, Tickets <- {1, 2}, MaxRestarts <- 1
AtDesktop == scene = "desktop"
KeepDesktop == UNCHANGED <<scene, Rest14>>

\* Three calls of the runner about a desktop, or about jobs and terminals, or two over time.
Boxes == INSTANCE SandboxRunner WITH up <- v1, clock <- v2, call <- v3, cache <- v4, hand <- v5,
    registry <- v6, box <- v7, jobbox <- v8, shells <- v9, volume <- v10, left <- v11, died <- v12,
    crashes <- v13, Sessions <- {1}, Calls <- {1, 2, 3}, Ops <- {"start", "stop", "stream", "gui"},
    Window <- 2, MaxSkew <- 0, MaxClock <- 2, MaxCrashes <- 1
AtBoxes == scene = "boxes"
KeepBoxes == UNCHANGED <<scene, Rest14>>

Jobs == INSTANCE SandboxRunner WITH up <- v1, clock <- v2, call <- v3, cache <- v4, hand <- v5,
    registry <- v6, box <- v7, jobbox <- v8, shells <- v9, volume <- v10, left <- v11, died <- v12,
    crashes <- v13, Sessions <- {1}, Calls <- {1, 2, 3}, Ops <- {"job", "terminal", "read"},
    Window <- 2, MaxSkew <- 0, MaxClock <- 2, MaxCrashes <- 1
AtJobs == scene = "jobs"
KeepJobs == UNCHANGED <<scene, Rest14>>

Nonces == INSTANCE SandboxRunner WITH up <- v1, clock <- v2, call <- v3, cache <- v4, hand <- v5,
    registry <- v6, box <- v7, jobbox <- v8, shells <- v9, volume <- v10, left <- v11, died <- v12,
    crashes <- v13, Sessions <- {1}, Calls <- {1, 2}, Ops <- {"read"},
    Window <- 2, MaxSkew <- 1, MaxClock <- 6, MaxCrashes <- 1
AtNonces == scene = "nonces"
KeepNonces == UNCHANGED <<scene, Rest14>>

\* Three terminals where two are allowed.
Terminals == INSTANCE Terminals WITH run <- v1, term <- v2, old <- v3, request <- v4, relay <- v5,
    overlap <- v6, lost <- v7, Terms <- {1, 2, 3}, MaxTerminals <- 2
AtTerminals == scene = "terminals"
KeepTerminals == UNCHANGED <<scene, Rest8>>

\* A team of three with one profile, two requests at once.
Teams == INSTANCE Teams WITH role <- v1, profile <- v2, feed <- v3, req <- v4, edits <- v5,
    raced <- v6, Users <- {"o", "a", "b"}, Owner <- "o", Profiles <- {"p1"}, Requests <- {1, 2},
    MaxRev <- 3, MaxEdits <- 4
AtTeams == scene = "teams"
KeepTeams == UNCHANGED <<scene, Rest7>>

\* Two MCP servers, two names, two edits while a run is prepared.
Context == INSTANCE RunContext WITH meta <- v1, crew <- v2, binding <- v3, role <- v4, pool <- v5,
    profile <- v6, req <- v7, run <- v8, edits <- v9, Entities <- {1, 2}, Names <- {"n1", "n2"},
    Requests <- {1, 2}, MaxEdits <- 2
AtContext == scene = "context"
KeepContext == UNCHANGED <<scene, Rest10>>

\* A thread that moves between two projects, with what hangs on it.
Projection == INSTANCE SyncProjection WITH db <- v1, request <- v2, scene <- v3,
    Projects <- {"p1", "p2"}, Threads <- {"t1"}, Messages <- {"m1"}, Tasks <- {"k1"},
    Schedules <- {"s1"}, Profiles <- {"f1"}, None <- Unset, Scenes <- ProjectionScenes
AtProjection == scene = "projection"
KeepProjection == UNCHANGED <<scene, Rest4>>

\* Two clients merge versions of one file.
Merge == INSTANCE ProjectMerge WITH versions <- v1, revision <- v2, current <- v3, client <- v4,
    applied <- v5, Clients <- {1, 2}, Paths <- {"p"}, Parts <- {0}, Blobs <- {7}, MaxUploads <- 3,
    MaxVersions <- 4, MaxRevision <- 3
AtMerge == scene = "merge"
KeepMerge == UNCHANGED <<scene, Rest6>>

\* A run that is leased again after a lost connection.
Workspace == INSTANCE DeviceWorkspace WITH device <- v1, folder <- v2, daemon <- v3, agent <- v4,
    server <- v5, published <- v6, base <- v7, final <- v8, lost <- v9, drops <- v10, faults <- v11,
    MaxChanges <- 2, MaxDrops <- 2, MaxFaults <- 2
AtWorkspace == scene = "workspace"
KeepWorkspace == UNCHANGED <<scene, Rest12>>

\* One task of the application, two runs of it.
AppPlan == INSTANCE AppScheduler WITH now <- v1, passed <- v2, task <- v3, run <- v4,
    approval <- v5, work <- v6, exec <- v7, listed <- v8, resolving <- v9, commands <- v10,
    crashes <- v11, starts <- v12, rewound <- v13, remade <- v14, sent <- v15, cut <- v16,
    Tasks <- {1}, Runs <- {1, 2}, Deps <- NoDeps, DaemonOwned <- {}, CrewTasks <- {}, Keep <- 2,
    MaxSlot <- 2, MaxCommands <- 2, MaxCrashes <- 1
AtAppPlan == scene = "appschedule"
KeepAppPlan == UNCHANGED scene

\* A schedule of the daemon, a crash and a failed load.
Daemon == INSTANCE DaemonRuns WITH runs <- v1, worker <- v2, sched <- v3, due <- v4, prepared <- v5,
    now <- v6, present <- v7, up <- v8, faults <- v9, crashes <- v10, claimed <- v11, lost <- v12,
    Threads <- {"A"}, UserKeys <- {}, Schedules <- {1}, Policies <- {"autonomous"}, MaxRuns <- 2,
    MaxClock <- 3, MaxSteps <- 0, MaxFaults <- 1, MaxCrashes <- 1
AtDaemon == scene = "daemonruns"
KeepDaemon == UNCHANGED <<scene, Rest13>>

\* Tool calls on two files, or on memories and skills.
Tools == INSTANCE DaemonTools WITH files <- v1, backups <- v2, temp <- v3, tool <- v4, raced <- v5,
    entities <- v6, calls <- v7, edits <- v8, Tokens <- {"x", "y"}, MaxCalls <- 3,
    Paths <- {"p", "q"}, Refs <- {0}, MaxEdits <- 1, MaxEntities <- 0
AtTools == scene = "tools"
KeepTools == UNCHANGED <<scene, Rest9>>

Knowledge == INSTANCE DaemonTools WITH files <- v1, backups <- v2, temp <- v3, tool <- v4,
    raced <- v5, entities <- v6, calls <- v7, edits <- v8, Tokens <- {"x", "y"}, MaxCalls <- 3,
    Paths <- {}, Refs <- {0, 1}, MaxEdits <- 2, MaxEntities <- 3
AtKnowledge == scene = "skills"
KeepKnowledge == UNCHANGED <<scene, Rest9>>

\* Two executions of a crew of three tasks.
Crew == INSTANCE CrewRuns WITH deps <- v1, approval <- v2, bindings <- v3, shell <- v4, exec <- v5,
    work <- v6, proc <- v7, active <- v8, canceled <- v9, row <- v10, granted <- v11,
    reached <- v12, crowded <- v13, acts <- v14, crashes <- v15, Execs <- {1, 2},
    Tasks <- {1, 2, 3}, Graphs <- Graphs, Approvals <- {"a1"}, Requests <- CrewRequests,
    MaxParallel <- 1, StopOnFailure <- FALSE, MaxActs <- 2, MaxCrashes <- 1
AtCrew == scene = "crew"
KeepCrew == UNCHANGED <<scene, Rest16>>

\* Two bundles that differ in the CrewAI version.
Runtime == INSTANCE CrewRuntime WITH bundle <- v1, files <- v2, marker <- v3, venv <- v4,
    actor <- v5, overlapped <- v6, ready <- v7, faults <- v8, restarts <- v9, calls <- v10,
    Parts <- {1, 2}, PythonOf <- <<1, 1>>, CrewOf <- <<1, 2>>, Sound <- {1, 2}, MaxFaults <- 1,
    MaxRestarts <- 2, MaxCalls <- 3
AtRuntime == scene = "runtime"
KeepRuntime == UNCHANGED <<scene, Rest11>>

\* Enough records to drop the oldest archive.
Audit == INSTANCE AuditLog WITH files <- v1, key <- v2, marker <- v3, writer <- v4, log <- v5,
    made <- v6, torn <- v7, lost <- v8, crashes <- v9, PerFile <- 2, MaxArchives <- 2,
    MaxRecords <- 7, MaxCrashes <- 2, MaxLosses <- 1
AtAudit == scene = "audit"
KeepAudit == UNCHANGED <<scene, Rest10>>

\* Two projects, one chat.
Library == INSTANCE AppLibrary WITH projects <- v1, threads <- v2, profiles <- v3, link <- v4,
    resources <- v5, tasks <- v6, schedules <- v7, default <- v8, reader <- v9, seen <- v10,
    ops <- v11, Projects <- {1, 2}, Threads <- {1}, Resources <- {1, 2}, Paths <- {1, 2},
    Tasks <- {1}, Profiles <- {1, 2}, MaxOps <- 6
AtLibrary == scene = "library"
KeepLibrary == UNCHANGED <<scene, Rest12>>

\* Two earlier copies where three are kept.
Database == INSTANCE AppDatabase WITH db <- v1, backups <- v2, app <- v3, original <- v4,
    faults <- v5, crashes <- v6, Threads <- {1}, Sessions <- {1, 2}, Runs <- {11}, Folders <- {1},
    Leftovers <- {8, 9}, Keep <- 3, MaxFaults <- 1, MaxCrashes <- 1
AtDatabase == scene = "database"
KeepDatabase == UNCHANGED <<scene, Rest7>>

\* Two background processes, or three shells of one terminal.
Processes == INSTANCE AppProcesses WITH row <- v1, os <- v2, waiting <- v3, recording <- v4,
    halted <- v5, excused <- v6, registry <- v7, alive <- v8, ended <- v9, replaced <- v10,
    exec <- v11, restarts <- v12, faults <- v13, Execs <- {}, MaxRestarts <- 1, MaxFaults <- 1,
    Procs <- {1, 2}, Pids <- {1, 2}, Terms <- {}, Shells <- {}
AtProcesses == scene = "processes"
KeepProcesses == UNCHANGED <<scene, Rest14>>

Windows == INSTANCE AppProcesses WITH row <- v1, os <- v2, waiting <- v3, recording <- v4,
    halted <- v5, excused <- v6, registry <- v7, alive <- v8, ended <- v9, replaced <- v10,
    exec <- v11, restarts <- v12, faults <- v13, Execs <- {}, MaxRestarts <- 1, MaxFaults <- 1,
    Procs <- {}, Pids <- {}, Terms <- {1}, Shells <- {1, 2, 3}
AtWindows == scene = "shells"
KeepWindows == UNCHANGED <<scene, Rest14>>

\* Three texts, of which two fit; one is blocked.
Memory == INSTANCE AppMemory WITH entry <- v1, doubled <- v2, byUser <- v3, thread <- v4,
    shown <- v5, skill <- v6, history <- v7, edited <- v8, torn <- v9, ops <- v10, crashes <- v11,
    Targets <- {"memory"}, Texts <- {1, 2, 3}, Blocked <- {3}, Keys <- {1, 2, 3}, Limits <- Limits,
    Gap <- 1, Threads <- {1}, Skills <- {1}, MaxOps <- 4, MaxCrashes <- 1
AtMemory == scene = "memory"
KeepMemory == UNCHANGED <<scene, Rest12>>

\* Two terminal backends and a command that resolves one.
Secrets == INSTANCE SecureConfigs WITH row <- v1, ring <- v2, cmd <- v3, reader <- v4, last <- v5,
    leaked <- v6, taken <- v7, commands <- v8, faults <- v9, crashes <- v10, Owners <- {1, 2},
    ScopeOf <- ScopeOf, Names <- {1, 2}, Lokal <- 1, Values <- {1, 2}, Revisions <- {1, 2, 3, 4},
    Readers <- {1}, MaxCommands <- 2, MaxFaults <- 1, MaxCrashes <- 1
AtSecrets == scene = "secrets"
KeepSecrets == UNCHANGED <<scene, Rest11>>

\* Two folders with one file each.
Disk == INSTANCE AppFiles WITH fs <- v1, backups <- v2, promised <- v3, collided <- v4,
    second <- v5, step <- v6, ops <- v7, faults <- v8, Nodes <- {1, 2, 3, 4},
    Parent <- <<0, 0, 1, 2>>, Base <- <<"a", "b", "x", "x">>, Texts <- {1, 2}, MaxSecond <- 1,
    MaxOps <- 2, MaxFaults <- 1
AtDisk == scene = "files"
KeepDisk == UNCHANGED <<scene, Rest9>>

\* One run over two files, one run over a file and its neighbour, or a parent and its child.
Sandbox == INSTANCE RunSandbox WITH original <- v1, run <- v2, row <- v3, copy <- v4, shell <- v5,
    cmd <- v6, count <- v7, agreed <- v8, raced <- v9, ParentOf <- ParentOf, NoRun <- "-",
    Runs <- {"a"}, Files <- {1, 2}, OutOfScope <- {}, MaxEdits <- 1, MaxWrites <- 2, MaxFaults <- 1,
    MaxCrashes <- 0
AtSandbox == scene = "sandbox"
KeepSandbox == UNCHANGED <<scene, Rest10>>

Neighbour == INSTANCE RunSandbox WITH original <- v1, run <- v2, row <- v3, copy <- v4, shell <- v5,
    cmd <- v6, count <- v7, agreed <- v8, raced <- v9, ParentOf <- ParentOf, NoRun <- "-",
    Runs <- {"a"}, Files <- {1, 2}, OutOfScope <- {2}, MaxEdits <- 1, MaxWrites <- 2,
    MaxFaults <- 0, MaxCrashes <- 1
AtNeighbour == scene = "neighbour"
KeepNeighbour == UNCHANGED <<scene, Rest10>>

Child == INSTANCE RunSandbox WITH original <- v1, run <- v2, row <- v3, copy <- v4, shell <- v5,
    cmd <- v6, count <- v7, agreed <- v8, raced <- v9, ParentOf <- ParentOf, NoRun <- "-",
    Runs <- {"a", "c"}, Files <- {1}, OutOfScope <- {}, MaxEdits <- 0, MaxWrites <- 1,
    MaxFaults <- 0, MaxCrashes <- 1
AtChild == scene = "child"
KeepChild == UNCHANGED <<scene, Rest10>>

Init ==
  /\ scene \in Scenes
  /\ \/ AtFactor /\ Factor!Init
     \/ AtPasskey /\ Passkey!Init
     \/ AtOidc /\ Oidc!Init
     \/ AtAuth /\ Auth!Init /\ Zero10
     \/ AtDesktop /\ Desktop!Init /\ Zero14
     \/ AtBoxes /\ Boxes!Init /\ Zero14
     \/ AtJobs /\ Jobs!Init /\ Zero14
     \/ AtNonces /\ Nonces!Init /\ Zero14
     \/ AtTerminals /\ Terminals!Init /\ Zero8
     \/ AtTeams /\ Teams!Init /\ Zero7
     \/ AtContext /\ Context!Init /\ Zero10
     \/ AtProjection /\ Projection!Init /\ Zero4
     \/ AtMerge /\ Merge!Init /\ Zero6
     \/ AtWorkspace /\ Workspace!Init /\ Zero12
     \/ AtAppPlan /\ AppPlan!Init
     \/ AtDaemon /\ Daemon!Init /\ Zero13
     \/ AtTools /\ Tools!Init /\ Zero9
     \/ AtKnowledge /\ Knowledge!Init /\ Zero9
     \/ AtCrew /\ Crew!Init /\ Zero16
     \/ AtRuntime /\ Runtime!Init /\ Zero11
     \/ AtAudit /\ Audit!Init /\ Zero10
     \/ AtLibrary /\ Library!Init /\ Zero12
     \/ AtDatabase /\ Database!Init /\ Zero7
     \/ AtProcesses /\ Processes!Init /\ Zero14
     \/ AtWindows /\ Windows!Init /\ Zero14
     \/ AtMemory /\ Memory!Init /\ Zero12
     \/ AtSecrets /\ Secrets!Init /\ Zero11
     \/ AtDisk /\ Disk!Init /\ Zero9
     \/ AtSandbox /\ Sandbox!Init /\ Zero10
     \/ AtNeighbour /\ Neighbour!Init /\ Zero10
     \/ AtChild /\ Child!Init /\ Zero10

Next ==
  \/ AtFactor /\ Factor!Next /\ KeepFactor
  \/ AtPasskey /\ Passkey!Next /\ KeepPasskey
  \/ AtOidc /\ Oidc!Next /\ KeepOidc
  \/ AtAuth /\ Auth!Next /\ KeepAuth
  \/ AtDesktop /\ Desktop!Next /\ KeepDesktop
  \/ AtBoxes /\ Boxes!Next /\ KeepBoxes
  \/ AtJobs /\ Jobs!Next /\ KeepJobs
  \/ AtNonces /\ Nonces!Next /\ KeepNonces
  \/ AtTerminals /\ Terminals!Next /\ KeepTerminals
  \/ AtTeams /\ Teams!Next /\ KeepTeams
  \/ AtContext /\ Context!Next /\ KeepContext
  \/ AtProjection /\ Projection!Next /\ KeepProjection
  \/ AtMerge /\ Merge!Next /\ KeepMerge
  \/ AtWorkspace /\ Workspace!Next /\ KeepWorkspace
  \/ AtAppPlan /\ AppPlan!Next /\ KeepAppPlan
  \/ AtDaemon /\ Daemon!Next /\ KeepDaemon
  \/ AtTools /\ Tools!Next /\ KeepTools
  \/ AtKnowledge /\ Knowledge!Next /\ KeepKnowledge
  \/ AtCrew /\ Crew!Next /\ KeepCrew
  \/ AtRuntime /\ Runtime!Next /\ KeepRuntime
  \/ AtAudit /\ Audit!Next /\ KeepAudit
  \/ AtLibrary /\ Library!Next /\ KeepLibrary
  \/ AtDatabase /\ Database!Next /\ KeepDatabase
  \/ AtProcesses /\ Processes!Next /\ KeepProcesses
  \/ AtWindows /\ Windows!Next /\ KeepWindows
  \/ AtMemory /\ Memory!Next /\ KeepMemory
  \/ AtSecrets /\ Secrets!Next /\ KeepSecrets
  \/ AtDisk /\ Disk!Next /\ KeepDisk
  \/ AtSandbox /\ Sandbox!Next /\ KeepSandbox
  \/ AtNeighbour /\ Neighbour!Next /\ KeepNeighbour
  \/ AtChild /\ Child!Next /\ KeepChild

Spec == Init /\ [][Next]_vars
----------------------------------------------------------------------------------------------------
\* Nothing that is good for one use admits twice: an invitation, a native code, a passkey challenge,
\* an OpenID Connect state, a TOTP step, a recovery code.  The bootstrap race has at most one winner,
\* and from the first account on there is an administrator unless auto-provisioning made that account
\* (auth.rs, oidc.rs, passkey.rs).
SignInsSound ==
  /\ AtFactor => Factor!AdmitsOnce /\ Factor!OneAdministrator
  /\ AtPasskey => Passkey!AdmitsOnce /\ Passkey!OneAdministrator
  /\ AtOidc => Oidc!AdmitsOnce /\ Oidc!OneAdministrator



\* No change that was applied to a project is lost by a merge and no conflict is settled by itself
\* (apply_project_version, apply_project_merge); a run of a device is completed with all that its
\* work left, across lost connections (publish_result_snapshot, cleanup_run_workspace).
ChangesKept ==
  /\ AtMerge => Merge!NoAppliedChangeLost
  /\ AtWorkspace => Workspace!CompletedWithChanges





\* As the application tells its user (`Some files changed outside the sandbox and were not
\* overwritten'): an apply never replaces a file the user changed since the copy was made.
UserEditKept == [][AtSandbox => Sandbox!UserEditKeptStep]_vars
====================================================================================================
