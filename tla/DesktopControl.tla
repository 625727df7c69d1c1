--------------------------- MODULE DesktopControl ---------------------------
(***************************************************************************)
(* The desktop sessions of one run (server/cowork-server/src/desktop.rs):  *)
(* a user or the worker starts a session, users stream it with one-minute  *)
(* tickets and may take control after a password re-check, and sessions    *)
(* end with the user, with the run or by the sweep of finished runs.  Each *)
(* statement on the database is a step of its own where the code commits   *)
(* it on its own; the desktop behind a session is a container at the       *)
(* runner ("server" target) or the device's own screen ("external").       *)
(***************************************************************************)
EXTENDS Naturals, FiniteSets

CONSTANTS Ids,       \* ids of desktop_sessions rows
          Tickets,   \* ids of desktop_stream_tickets rows, one stream each
          MaxRestarts  \* bound on the server restarts of a behaviour

VARIABLES
    target,    \* "server" | "external": run.spec.executor_target
    run,       \* "active" | "over": run.state as far as desktops care
    row,       \* row[i]: desktop_sessions.state, or "none"
    start,     \* start[i]: the request or worker call that starts session i
    box,       \* box[i]: a desktop container runs at the runner
    sweep,     \* rows that the running end_sessions call still has to end
    stopping,  \* <<caller, i>>: calls that have stopped i's container and not yet i's row
    ticket,    \* ticket[t]: [st, id, control]
    relay,     \* relay[t]: the WebSocket opened with ticket t
    grants,    \* unused reauthentication_grants of the user's session
    restarts,  \* server restarts so far
    stuck,     \* history: sessions whose controller vanished unrecorded
    leaked     \* history: containers that a failed or late call left behind

vars == <<target, run, row, start, box, sweep, stopping, ticket, relay, grants,
          restarts, stuck, leaked>>

Active == {"starting", "agent_controlled", "user_controlled", "paused"}
Closed == {"ended", "failed"}

NoTicket == [st |-> "none", id |-> CHOOSE i \in Ids : TRUE, control |-> FALSE]

\* The unique index desktop_sessions_active_run.
NoOtherActive(i) == \A j \in Ids \ {i} : row[j] \notin Active

Init ==
    /\ target \in {"server", "external"}
    /\ run = "active"
    /\ row = [i \in Ids |-> "none"]
    /\ start = [i \in Ids |-> "idle"]
    /\ box = [i \in Ids |-> FALSE]
    /\ sweep = {}
    /\ stopping = {}
    /\ ticket = [t \in Tickets |-> NoTicket]
    /\ relay = [t \in Tickets |-> "none"]
    /\ grants = 0
    /\ restarts = 0
    /\ stuck = {}
    /\ leaked = {}

-----------------------------------------------------------------------------
(* Starting a session. *)

\* start_session reads the run; the row is inserted only later.
check_start(i) ==
    /\ run = "active"
    /\ row[i] = "none" /\ start[i] = "idle"
    /\ start' = [start EXCEPT ![i] = "checked"]
    /\ UNCHANGED <<target, run, restarts, row, box, sweep, stopping, ticket, relay, grants, stuck, leaked>>

\* start_session inserts the row; a second active row of the run is refused.
insert_session(i) ==
    /\ start[i] = "checked"
    /\ IF NoOtherActive(i)
       THEN /\ row' = [row EXCEPT ![i] = "starting"]
            /\ start' = [start EXCEPT ![i] = "calling"]
       ELSE /\ start' = [start EXCEPT ![i] = "done"]
            /\ UNCHANGED row
    /\ UNCHANGED <<target, run, restarts, box, sweep, stopping, ticket, relay, grants, stuck, leaked>>

\* ensure_worker_session of the server worker while it executes the run.
ensure_worker_session(i) ==
    /\ target = "server" /\ run = "active"
    /\ row[i] = "none" /\ start[i] = "idle"
    /\ \A j \in Ids : row[j] \notin Active
    /\ row' = [row EXCEPT ![i] = "starting"]
    /\ start' = [start EXCEPT ![i] = "calling"]
    /\ UNCHANGED <<target, run, restarts, box, sweep, stopping, ticket, relay, grants, stuck, leaked>>

\* RunnerControl::start reaches the runner, which opens the container.  A call
\* that has already stopped it will end the row and leave the container behind.
runner_start(i) ==
    /\ target = "server" /\ start[i] = "calling"
    /\ box' = [box EXCEPT ![i] = TRUE]
    /\ start' = [start EXCEPT ![i] = "answered"]
    /\ leaked' = leaked \cup {c[2] : c \in {d \in stopping : d[2] = i}}
    /\ UNCHANGED <<target, run, restarts, row, sweep, stopping, ticket, relay, grants, stuck>>

\* The runner refuses: the row fails.
start_failed(i) ==
    /\ target = "server" /\ start[i] = "calling"
    /\ row' = [row EXCEPT ![i] = "failed"]
    /\ start' = [start EXCEPT ![i] = "done"]
    /\ UNCHANGED <<target, run, restarts, box, sweep, stopping, ticket, relay, grants, stuck, leaked>>

Started(i) == start[i] = IF target = "server" THEN "answered" ELSE "calling"

\* The answered start is recorded WHERE id = $1, whatever became of the row;
\* only the unique index can refuse it.
record_start(i) ==
    /\ Started(i)
    /\ NoOtherActive(i)
    /\ row' = [row EXCEPT ![i] = "agent_controlled"]
    /\ start' = [start EXCEPT ![i] = "done"]
    /\ UNCHANGED <<target, run, restarts, box, sweep, stopping, ticket, relay, grants, stuck, leaked>>

record_start_refused(i) ==
    /\ Started(i)
    /\ ~NoOtherActive(i)
    /\ start' = [start EXCEPT ![i] = "done"]
    /\ leaked' = IF box[i] THEN leaked \cup {i} ELSE leaked
    /\ UNCHANGED <<target, run, restarts, row, box, sweep, stopping, ticket, relay, grants, stuck>>

-----------------------------------------------------------------------------
(* Ending sessions. *)


\* RunnerControl::stop: the container goes, or it was not there (yet).
StopBox(i) == IF target = "server" THEN box' = [box EXCEPT ![i] = FALSE] ELSE UNCHANGED box

\* stop_session reads the row as active and stops the container ...
stop_session(i) ==
    /\ row[i] \in Active
    /\ <<"user", i>> \notin stopping
    /\ stopping' = stopping \cup {<<"user", i>>}
    /\ StopBox(i)
    /\ UNCHANGED <<target, run, restarts, row, start, sweep, ticket, relay, grants, stuck, leaked>>

\* ... and the row is ended in a transaction of its own, if it is not yet.
stop_commit(c) ==
    LET i == c[2] IN
    /\ c \in stopping
    /\ stopping' = stopping \ {c}
    /\ row' = [row EXCEPT ![i] = IF @ \in Closed THEN @ ELSE "ended"]
    /\ UNCHANGED <<target, run, restarts, start, box, sweep, ticket, relay, grants, stuck, leaked>>

\* The run reaches a terminal state, by its executor or by a user.
end_run ==
    /\ run = "active"
    /\ run' = "over"
    /\ UNCHANGED <<target, restarts, row, start, box, sweep, stopping, ticket, relay, grants, stuck, leaked>>

\* end_worker_sessions, end_external_sessions and reap_terminal_sessions read
\* the active rows of the run; the reaper keeps looking at finished runs.
end_sessions ==
    /\ run = "over" \/ target = "server"
    /\ sweep = {} /\ \A c \in stopping : c[1] # "sweep"
    /\ sweep' = {i \in Ids : row[i] \in Active}
    /\ sweep' # {}
    /\ UNCHANGED <<target, run, restarts, row, start, box, stopping, ticket, relay, grants, stuck, leaked>>

\* finish_session_rows: the container of each row is stopped in turn; a failed
\* stop is logged, and the row ends either way.
finish_session_row(i) ==
    /\ i \in sweep
    /\ \A c \in stopping : c[1] # "sweep"
    /\ sweep' = sweep \ {i}
    /\ stopping' = stopping \cup {<<"sweep", i>>}
    /\ \/ StopBox(i) /\ UNCHANGED leaked
       \/ /\ target = "server" /\ box[i]
          /\ leaked' = leaked \cup {i}
          /\ UNCHANGED box
    /\ UNCHANGED <<target, run, restarts, row, start, ticket, relay, grants, stuck>>

-----------------------------------------------------------------------------
(* Streams. *)

\* reauthenticate: the password is checked again and a grant is stored.
reauthenticate ==
    /\ grants < Cardinality(Tickets)
    /\ grants' = grants + 1
    /\ UNCHANGED <<target, run, restarts, row, start, box, sweep, stopping, ticket, relay, stuck, leaked>>

\* create_stream_ticket: control needs a free session and spends a grant.
create_stream_ticket(t, i, control) ==
    /\ ticket[t].st = "none"
    /\ row[i] \in (IF control THEN {"agent_controlled", "paused"}
                   ELSE {"agent_controlled", "user_controlled", "paused"})
    /\ control => grants > 0
    /\ grants' = IF control THEN grants - 1 ELSE grants
    /\ ticket' = [ticket EXCEPT ![t] = [st |-> "issued", id |-> i, control |-> control]]
    /\ UNCHANGED <<target, run, restarts, row, start, box, sweep, stopping, relay, stuck, leaked>>

\* stream spends the ticket first; then the session must still be streamable.
spend_ticket(t) ==
    /\ ticket[t].st = "issued"
    /\ ticket' = [ticket EXCEPT ![t].st = "used"]
    /\ relay' = [relay EXCEPT ![t] =
          IF row[ticket[t].id] \in {"agent_controlled", "user_controlled", "paused"}
          THEN "opening" ELSE "refused"]
    /\ UNCHANGED <<target, run, restarts, row, start, box, sweep, stopping, grants, stuck, leaked>>

\* Mutant: a second person takes control as well.
TakesControl_always(i) == TRUE

\* Control is taken by one guarded UPDATE.
TakesControl(i) == row[i] \in {"agent_controlled", "paused"}

open_stream(t) ==
    LET i == ticket[t].id IN
    /\ relay[t] = "opening"
    /\ IF ~ticket[t].control
       THEN relay' = [relay EXCEPT ![t] = "accepted"] /\ UNCHANGED row
       ELSE IF TakesControl(i)
       THEN /\ relay' = [relay EXCEPT ![t] = "accepted"]
            /\ row' = [row EXCEPT ![i] = "user_controlled"]
       ELSE relay' = [relay EXCEPT ![t] = "refused"] /\ UNCHANGED row
    /\ UNCHANGED <<target, run, restarts, start, box, sweep, stopping, ticket, grants, stuck, leaked>>

\* on_upgrade: the relay runs once the client has completed the handshake.
upgraded(t) ==
    /\ relay[t] = "accepted"
    /\ relay' = [relay EXCEPT ![t] = "live"]
    /\ UNCHANGED <<target, run, restarts, row, start, box, sweep, stopping, ticket, grants, stuck, leaked>>

Orphans(ts) == {ticket[t].id : t \in {u \in ts : ticket[u].control
                                    /\ row[ticket[u].id] = "user_controlled"}}

\* A client that never completes it leaves nobody to call finish_control_relay.
upgrade_lost(t) ==
    /\ relay[t] = "accepted"
    /\ relay' = [relay EXCEPT ![t] = "closed"]
    /\ stuck' = stuck \cup Orphans({t})
    /\ UNCHANGED <<target, run, restarts, row, start, box, sweep, stopping, ticket, grants, leaked>>

\* Either side closes, the runner or device does not answer within 300 s: the
\* relay ends and finish_control_relay hands the desktop back.
finish_control_relay(t) ==
    LET i == ticket[t].id IN
    /\ relay[t] = "live"
    /\ relay' = [relay EXCEPT ![t] = "closed"]
    /\ row' = IF ticket[t].control /\ row[i] = "user_controlled"
              THEN [row EXCEPT ![i] = "agent_controlled"] ELSE row
    /\ UNCHANGED <<target, run, restarts, start, box, sweep, stopping, ticket, grants, stuck, leaked>>

\* The server process stops: handlers, relays and the sweep are gone.  A start
\* that had opened its container leaves it to the next sweep of its row.
server_restarts ==
    LET streaming == {t \in Tickets : relay[t] \in {"opening", "accepted", "live"}} IN
    /\ restarts < MaxRestarts
    /\ restarts' = restarts + 1
    /\ stuck' = stuck \cup Orphans({t \in streaming : relay[t] # "opening"})
    /\ relay' = [t \in Tickets |-> IF t \in streaming THEN "closed" ELSE relay[t]]
    /\ start' = [i \in Ids |-> IF start[i] = "idle" THEN "idle" ELSE "done"]
    /\ leaked' = leaked \cup {i \in Ids : box[i] /\ start[i] = "answered" /\ row[i] \in Closed}
    /\ sweep' = {}
    /\ stopping' = {}
    /\ UNCHANGED <<target, run, row, box, ticket, grants>>

Next ==
    \/ \E i \in Ids :
          \/ check_start(i) \/ insert_session(i) \/ ensure_worker_session(i)
          \/ runner_start(i) \/ start_failed(i)
          \/ record_start(i) \/ record_start_refused(i)
          \/ stop_session(i) \/ finish_session_row(i)
    \/ \E c \in stopping : stop_commit(c)
    \/ end_run \/ end_sessions \/ reauthenticate \/ server_restarts
    \/ \E t \in Tickets :
          \/ \E i \in Ids, c \in BOOLEAN : create_stream_ticket(t, i, c)
          \/ spend_ticket(t) \/ open_stream(t) \/ upgraded(t) \/ upgrade_lost(t)
          \/ finish_control_relay(t)

\* The worker's poll loop repeats the sweep of finished runs, and handlers that
\* have begun go on; users and clients are free to stop.
Fairness ==
    /\ WF_vars(run = "over" /\ end_sessions)
    /\ \A i \in Ids :
          /\ WF_vars(finish_session_row(i))
          /\ \A who \in {"user", "sweep"} : WF_vars(stop_commit(<<who, i>>))
          /\ WF_vars(insert_session(i)) /\ WF_vars(runner_start(i) \/ start_failed(i))
          /\ WF_vars(record_start(i) \/ record_start_refused(i))
    /\ \A t \in Tickets : WF_vars(open_stream(t))

Spec == Init /\ [][Next]_vars /\ Fairness

-----------------------------------------------------------------------------
(* Properties. *)

Controls(t, i) == ticket[t].control /\ ticket[t].id = i /\ relay[t] \in {"accepted", "live"}

\* A person who holds the controls of an open session is the only one who
\* does, and the session says so: neither a second stream, nor a late start,
\* stop or sweep hands the desktop to the agent under that person's hands.
\* And a session says user_controlled only while somebody holds the controls,
\* or because the holder vanished between the UPDATE and the end of its relay:
\* a restart or an abandoned handshake, which nothing in the code repairs
\* before the session ends.
ControlTracksHolder ==
    \A i \in Ids :
        LET holders == {t \in Tickets : Controls(t, i)} IN
        /\ row[i] \in Active /\ holders # {} =>
              row[i] = "user_controlled" /\ Cardinality(holders) = 1
        /\ row[i] = "user_controlled" => i \in stuck \/ holders # {}

\* When the run is over every session of it ends up closed, and every desktop
\* container is stopped, even when the start of a session overtakes its end:
\* except for containers whose stop failed or whose late start was refused.
Swept == run = "over" => \A i \in Ids : row[i] \notin Active /\ (box[i] => i \in leaked)
=============================================================================
