--------------------------- MODULE SandboxRunner ----------------------------
(***************************************************************************)
(* The sandbox runner (server/cowork-runner/src/main.rs) with the Docker   *)
(* commands it gives for one run.  The server signs a call; the runner     *)
(* admits its nonce once, and a handler then starts or stops a desktop,    *)
(* runs a job, opens a terminal or a stream, or reads a file.  A command   *)
(* is a step of its own, and a handler goes away in the middle when its    *)
(* caller hangs up, while the command it waited for goes on.               *)
(***************************************************************************)
EXTENDS Integers

CONSTANTS Sessions,   \* desktop sessions of the run
          Calls,      \* signed requests 1 .. n, each with a nonce of its own
          Ops,        \* what the calls ask for
          Window,     \* the 30 seconds of authenticate
          MaxSkew,    \* bound on how far the server's clock differs
          MaxClock,   \* bound on the clock
          MaxCrashes  \* bound on the runner's crashes

VARIABLES
    up,        \* the runner's process is there
    clock,     \* the runner's clock
    call,      \* call[c]: [op, i, ts, served, excused]
    cache,     \* replay_cache: cache[c] is seen_at of c's nonce, 0 when absent
    hand,      \* hand[<<c, n>>]: the handler of the n-th time c was admitted
    registry,  \* desktop_sessions: the session ids
    box,       \* box[i]: the container cowork-desktop-i, "none" | "booting" | "up"
    jobbox,    \* the handler that made the container cowork-job-<run>, or NoJob
    shells,    \* handlers whose container cowork-terminal-* exists
    volume,    \* the volume cowork-run-<run> exists
    left,      \* history: containers nobody in the runner waits for
    died,      \* history: sessions whose container ended by itself
    crashes

vars == <<up, clock, call, cache, hand, registry, box, jobbox, shells, volume, left, died, crashes>>
docker == <<box, jobbox, shells, volume, left, died>>

Handlers == Calls \X {1, 2}
NoJob == <<0, 0>>

\* A container, as left names it.
Desktop(i) == <<"desktop", i, 0>>
Job(h) == <<"job", h[1], h[2]>>
Shell(h) == <<"shell", h[1], h[2]>>

NoCall == [op |-> "none", i |-> 0, ts |-> 0, served |-> 0, excused |-> FALSE]

Init ==
    /\ up = TRUE
    /\ clock = 2
    /\ call = [c \in Calls |-> NoCall]
    /\ cache = [c \in Calls |-> 0]
    /\ hand = [h \in Handlers |-> "idle"]
    /\ registry = {}
    /\ box = [i \in Sessions |-> "none"]
    /\ jobbox = NoJob
    /\ shells = {}
    /\ volume = FALSE
    /\ left = {}
    /\ died = {}
    /\ crashes = 0

-----------------------------------------------------------------------------
(* Calls and their admission. *)

\* The server signs a call with the time of its own clock, which may differ.
send(c, op, i, ts) ==
    /\ call[c].op = "none"
    /\ c > 1 => call[c - 1].op # "none"
    /\ call' = [call EXCEPT ![c] = [NoCall EXCEPT !.op = op, !.i = i, !.ts = ts]]
    /\ UNCHANGED <<up, clock, cache, hand, registry, docker, crashes>>

tick ==
    /\ clock < MaxClock
    /\ clock' = clock + 1
    /\ UNCHANGED <<up, call, cache, hand, registry, docker, crashes>>

Fresh(c) == call[c].ts - clock \in (-Window) .. Window

\* Mutant: a nonce is dropped when its time is up, a moment before its call's.
Retained_short == [c \in Calls |-> IF clock - cache[c] < Window THEN cache[c] ELSE 0]

\* What replay_cache.retain keeps.
Retained == [c \in Calls |-> IF clock - cache[c] <= Window THEN cache[c] ELSE 0]

\* authenticate, for a call that arrives, perhaps once more.  A refused nonce
\* is entered again with the time of the refusal.
authenticate(c) ==
    LET n == call[c].served + 1 IN
    /\ up /\ call[c].op # "none" /\ Fresh(c)
    /\ cache' = [Retained EXCEPT ![c] = clock]
    /\ IF Retained[c] = 0 /\ n <= 2
       THEN /\ hand' = [hand EXCEPT ![<<c, n>>] = "begun"]
            /\ call' = [call EXCEPT ![c].served = n,
                                    ![c].excused = @ \/ call[c].ts > clock]
       ELSE UNCHANGED <<hand, call>>
    /\ UNCHANGED <<up, clock, registry, docker, crashes>>

Asks(h, ops) == call[h[1]].op \in ops
Session(h) == call[h[1]].i
Goes(h, st) == hand' = [hand EXCEPT ![h] = st]

\* validate_spec and the range checks of the handlers.
refuse(h) ==
    /\ hand[h] = "begun"
    /\ Goes(h, "done")
    /\ UNCHANGED <<up, clock, call, cache, registry, docker, crashes>>

-----------------------------------------------------------------------------
(* Desktops. *)

\* start_desktop_session looks at the registry, then launches without it.
start_desktop_session(h) ==
    /\ hand[h] = "begun" /\ Asks(h, {"start"})
    /\ Goes(h, IF Session(h) \in registry THEN "done" ELSE "launch")
    /\ UNCHANGED <<up, clock, call, cache, registry, docker, crashes>>

\* launch_desktop: the volume, then docker run, which fails on a used name.
launch_desktop(h) ==
    LET i == Session(h) IN
    /\ hand[h] = "launch"
    /\ volume' = TRUE
    /\ Goes(h, IF box[i] = "none" THEN "probe" ELSE "done")
    /\ box' = [box EXCEPT ![i] = IF @ = "none" THEN "booting" ELSE @]
    /\ UNCHANGED <<up, clock, call, cache, registry, jobbox, shells, left, died, crashes>>

desktop_ready(h) ==
    /\ hand[h] = "probe" /\ box[Session(h)] # "none"
    /\ box' = [box EXCEPT ![Session(h)] = "up"]
    /\ Goes(h, "ready")
    /\ UNCHANGED <<up, clock, call, cache, registry, jobbox, shells, volume, left, died, crashes>>

\* docker kill of a desktop; its failure is ignored and leaves the container.
Kill(i) ==
    \/ box' = [box EXCEPT ![i] = "none"] /\ left' = left \ {Desktop(i)}
    \/ box[i] # "none" /\ left' = left \cup {Desktop(i)} /\ UNCHANGED box

\* No answer on the capture port in 300 probes: the container is killed.
desktop_not_ready(h) ==
    /\ hand[h] = "probe"
    /\ Kill(Session(h))
    /\ Goes(h, "done")
    /\ UNCHANGED <<up, clock, call, cache, registry, jobbox, shells, volume, died, crashes>>

register(h) ==
    /\ hand[h] = "ready"
    /\ registry' = registry \cup {Session(h)}
    /\ Goes(h, "done")
    /\ UNCHANGED <<up, clock, call, cache, docker, crashes>>

\* stop_desktop_session forgets the session first ...
stop_desktop_session(h) ==
    /\ hand[h] = "begun" /\ Asks(h, {"stop"})
    /\ registry' = registry \ {Session(h)}
    /\ Goes(h, IF Session(h) \in registry THEN "kill" ELSE "done")
    /\ UNCHANGED <<up, clock, call, cache, docker, crashes>>

\* ... and then kills its container.
stop_kill(h) ==
    /\ hand[h] = "kill"
    /\ Kill(Session(h))
    /\ Goes(h, "done")
    /\ UNCHANGED <<up, clock, call, cache, registry, jobbox, shells, volume, died, crashes>>

\* stream_desktop_session relays VNC until either side ends.
stream_desktop_session(h) ==
    /\ hand[h] = "begun" /\ Asks(h, {"stream"})
    /\ Goes(h, IF Session(h) \in registry THEN "relay" ELSE "done")
    /\ UNCHANGED <<up, clock, call, cache, registry, docker, crashes>>

relay_vnc_ends(h) ==
    /\ hand[h] = "relay"
    /\ Goes(h, "done")
    /\ UNCHANGED <<up, clock, call, cache, registry, docker, crashes>>

-----------------------------------------------------------------------------
(* Jobs, terminals, files. *)

\* execute: a GUI job goes to a desktop of its run, another to a container.
execute(h) ==
    /\ hand[h] = "begun" /\ Asks(h, {"job", "gui"})
    /\ Goes(h, IF Asks(h, {"gui"}) /\ registry # {} THEN "exec" ELSE "create")
    /\ UNCHANGED <<up, clock, call, cache, registry, docker, crashes>>

\* execute_in_desktop: docker exec under `timeout', which ends it inside.
execute_in_desktop(h) ==
    /\ hand[h] = "exec"
    /\ Goes(h, "done")
    /\ UNCHANGED <<up, clock, call, cache, registry, docker, crashes>>

\* docker run of a job; with the name in use it answers an error code.
run_container(h) ==
    /\ hand[h] = "create"
    /\ volume' = TRUE
    /\ jobbox' = IF jobbox = NoJob THEN h ELSE jobbox
    /\ Goes(h, IF jobbox = NoJob THEN "running" ELSE "done")
    /\ UNCHANGED <<up, clock, call, cache, registry, box, shells, left, died, crashes>>

execute_ends(h) ==
    /\ hand[h] = "running" /\ jobbox # h
    /\ Goes(h, "done")
    /\ UNCHANGED <<up, clock, call, cache, registry, docker, crashes>>

\* The time limit: the container of that name is killed and removed, whoever
\* made it.  A docker run that has made none yet, pulling its image, goes on.
execute_times_out(h) ==
    /\ hand[h] \in {"create", "running"}
    /\ jobbox' = NoJob
    /\ left' = left \ {Job(jobbox)}
    /\ Goes(h, IF hand[h] = "create" THEN "late" ELSE "done")
    /\ UNCHANGED <<up, clock, call, cache, registry, box, shells, volume, died, crashes>>

\* stream_terminal wants the volume; the relay starts a container of its own.
stream_terminal(h) ==
    /\ hand[h] = "begun" /\ Asks(h, {"terminal"})
    /\ Goes(h, IF volume THEN "shell" ELSE "done")
    /\ shells' = IF volume THEN shells \cup {h} ELSE shells
    /\ UNCHANGED <<up, clock, call, cache, registry, box, jobbox, volume, left, died, crashes>>

\* relay_terminal removes the container at its end, if docker rm succeeds.
relay_terminal_ends(h) ==
    /\ hand[h] = "shell"
    /\ \/ shells' = shells \ {h} /\ UNCHANGED left
       \/ left' = left \cup {Shell(h)} /\ UNCHANGED shells
    /\ Goes(h, "done")
    /\ UNCHANGED <<up, clock, call, cache, registry, box, jobbox, volume, died, crashes>>

\* read_run_file mounts the volume, which docker run makes if there is none.
read_run_file(h) ==
    /\ hand[h] = "begun" /\ Asks(h, {"read"})
    /\ volume' = TRUE
    /\ Goes(h, "done")
    /\ UNCHANGED <<up, clock, call, cache, registry, box, jobbox, shells, left, died, crashes>>

-----------------------------------------------------------------------------
(* What goes wrong. *)

\* A docker command fails: docker()? ends the handler.
docker_fails(h) ==
    /\ hand[h] \in {"launch", "create", "late"}
    /\ Goes(h, "done")
    /\ UNCHANGED <<up, clock, call, cache, registry, docker, crashes>>

\* The caller hangs up and the handler is dropped where it waits; a docker
\* command in flight is not (kill_on_drop is off), and relays have no caller.
drop(h) ==
    /\ hand[h] \in {"launch", "probe", "ready", "create", "running", "exec"}
    /\ Goes(h, IF hand[h] \in {"launch", "create"} THEN "late" ELSE "done")
    /\ left' = left \cup
          (IF hand[h] \in {"probe", "ready"} /\ box[Session(h)] # "none" THEN {Desktop(Session(h))}
           ELSE IF jobbox = h THEN {Job(h)} ELSE {})
    /\ UNCHANGED <<up, clock, call, cache, registry, box, jobbox, shells, volume, died, crashes>>

\* A docker run that lost its handler makes its container after all.
late_run(h) ==
    LET i == Session(h) IN
    /\ hand[h] = "late"
    /\ volume' = TRUE
    /\ IF Asks(h, {"start"})
       THEN /\ box' = [box EXCEPT ![i] = IF @ = "none" THEN "booting" ELSE @]
            /\ left' = IF box[i] = "none" THEN left \cup {Desktop(i)} ELSE left
            /\ UNCHANGED jobbox
       ELSE /\ jobbox' = IF jobbox = NoJob THEN h ELSE jobbox
            /\ left' = IF jobbox = NoJob THEN left \cup {Job(h)} ELSE left
            /\ UNCHANGED box
    /\ Goes(h, "done")
    /\ UNCHANGED <<up, clock, call, cache, registry, shells, died, crashes>>

\* Containers end by themselves, and --rm removes them.
desktop_dies(i) ==
    /\ box[i] # "none"
    /\ box' = [box EXCEPT ![i] = "none"]
    /\ left' = left \ {Desktop(i)}
    /\ died' = died \cup {i}
    /\ UNCHANGED <<up, clock, call, cache, hand, registry, jobbox, shells, volume, crashes>>

job_exits ==
    /\ jobbox # NoJob
    /\ jobbox' = NoJob
    /\ left' = left \ {Job(jobbox)}
    /\ UNCHANGED <<up, clock, call, cache, hand, registry, box, shells, volume, died, crashes>>

shell_exits(h) ==
    /\ h \in shells
    /\ shells' = shells \ {h}
    /\ left' = left \ {Shell(h)}
    /\ UNCHANGED <<up, clock, call, cache, hand, registry, box, jobbox, volume, died, crashes>>

\* The process ends; the containers stay.
crash ==
    /\ up /\ crashes < MaxCrashes
    /\ up' = FALSE
    /\ crashes' = crashes + 1
    /\ call' = [c \in Calls |-> [call[c] EXCEPT !.excused = @ \/ call[c].served > 0]]
    /\ cache' = [c \in Calls |-> 0]
    /\ hand' = [h \in Handlers |-> IF hand[h] = "idle" THEN "idle" ELSE "done"]
    /\ registry' = {}
    /\ left' = {Desktop(i) : i \in {j \in Sessions : box[j] # "none"}}
               \cup {Job(h) : h \in {jobbox} \ {NoJob}}
               \cup {Shell(h) : h \in shells}
    /\ UNCHANGED <<clock, box, jobbox, shells, volume, died>>

\* Mutant: the registry starts empty.
Recovered_none == {}

\* The labelled containers that are there.
Recovered == {i \in Sessions : box[i] # "none"}

\* recover_desktop_sessions registers every desktop it can inspect, ready or
\* not, and kills the bad ones, where a failed kill is ignored; the terminals
\* and jobs of before are not sought.
recover_desktop_sessions(bad, kept) ==
    /\ ~up
    /\ up' = TRUE
    /\ registry' = Recovered \ bad
    /\ box' = [i \in Sessions |-> IF i \in bad \ kept THEN "none" ELSE box[i]]
    /\ left' = {x \in left : x[1] # "desktop"} \cup {Desktop(i) : i \in kept}
    /\ died' = {}
    /\ UNCHANGED <<clock, call, cache, hand, jobbox, shells, volume, crashes>>

Next ==
    \/ \E c \in Calls, op \in Ops, i \in Sessions, ts \in (clock - MaxSkew) .. (clock + MaxSkew) :
          send(c, op, i, ts)
    \/ tick
    \/ \E c \in Calls : authenticate(c)
    \/ \E h \in Handlers :
          \/ refuse(h) \/ docker_fails(h) \/ drop(h) \/ late_run(h) \/ shell_exits(h)
          \/ start_desktop_session(h) \/ launch_desktop(h) \/ desktop_ready(h)
          \/ desktop_not_ready(h) \/ register(h)
          \/ stop_desktop_session(h) \/ stop_kill(h)
          \/ stream_desktop_session(h) \/ relay_vnc_ends(h)
          \/ execute(h) \/ execute_in_desktop(h) \/ run_container(h)
          \/ execute_ends(h) \/ execute_times_out(h)
          \/ stream_terminal(h) \/ relay_terminal_ends(h) \/ read_run_file(h)
    \/ \E i \in Sessions : desktop_dies(i)
    \/ job_exits
    \/ crash
    \/ \E bad \in SUBSET Recovered : \E kept \in SUBSET bad : recover_desktop_sessions(bad, kept)

Spec == Init /\ [][Next]_vars

-----------------------------------------------------------------------------
\* Every container is waited for or known: a desktop is registered, being
\* started or being killed; a job's time limit is watched; a terminal has its
\* relay.  Left over are only containers whose caller hung up, whose docker
\* run outlived its handler, whose kill failed or whose runner crashed, and a
\* restart takes the desktops among them back.  A registered desktop runs
\* unless its container ended by itself (start_desktop_session, execute,
\* stop_desktop_session, recover_desktop_sessions).
ContainersAccounted ==
    /\ \A i \in Sessions : box[i] # "none" =>
          \/ i \in registry \/ Desktop(i) \in left
          \/ \E h \in Handlers : Session(h) = i /\ hand[h] \in {"probe", "ready", "kill"}
    /\ jobbox # NoJob =>
          \/ Job(jobbox) \in left
          \/ hand[jobbox] = "running"
    /\ \A h \in shells : hand[h] = "shell" \/ Shell(h) \in left
    /\ up => \A i \in registry : box[i] # "none" \/ i \in died

\* A call that arrives more than once is served once, as long as the runner
\* does not restart and the call's time was not ahead of the runner's clock
\* (authenticate: the window of the timestamp against the life of the nonce).
ServedOnce == \A c \in Calls : call[c].served <= 1 \/ call[c].excused
=============================================================================
