---------------------------- MODULE DeviceRelay -----------------------------
(***************************************************************************)
(* A run of the control plane on a personal device: the device agent hands *)
(* it to the local daemon and relays the daemon's events, checkpoints and  *)
(* requests to the server, and the answers back.  The connection may be    *)
(* lost at any point; the daemon's run goes on, and the agent relays from  *)
(* the start of the daemon's log when it gets its lease back.              *)
(*                                                                         *)
(* One run.  The events of a model turn are one event here, the outcome of *)
(* a tool and its checkpoint one as well; events the relay skips are left  *)
(* out.  Artifacts are relayed as events are.                              *)
(***************************************************************************)
EXTENDS Naturals, Sequences, FiniteSetsExt

CONSTANTS
  MaxSteps,    \* model turns of the run (max_steps)
  Batch,       \* events in one answer of runs.events (LIMIT 1000)
  Approvals,   \* steps whose tool needs an approval; the others may ask the user
  MaxDrops,    \* bound: lost connections
  MaxFaults    \* bound: failed calls and restarts of the daemon

ASSUME RelayAssumption ==
  /\ MaxSteps \in Nat \ {0} /\ Batch \in Nat \ {0}
  /\ Approvals \subseteq 1..MaxSteps
  /\ MaxDrops \in Nat /\ MaxFaults \in Nat

VARIABLES
  local,       \* daemon_runs.state, or "absent"
  safe,        \* safe_to_resume of the daemon's latest checkpoint
  events,      \* daemon_run_events: records of a kind and a request
  asked,       \* the daemon's requests: status by number
  worker,      \* the daemon's worker: where it is, in which step
  relay,       \* the agent's task
  server,      \* runs.state on the server
  serverSafe,  \* safe_to_resume of the server's latest checkpoint
  serverLog,   \* what was relayed: numbers of events, and how
  serverAsked, \* the server's requests, by source_request_id
  stopped,     \* history: a user cancelled the run on the device
  decided,     \* history: requests that a user answered on the device
  cut,         \* history: a final read of the log was cut off by the limit
  drops,       \* connections lost so far
  faults       \* faults so far

daemonVars == <<local, safe, events, asked, worker>>
serverVars == <<server, serverSafe, serverLog, serverAsked>>
history == <<stopped, decided, cut, drops, faults>>
vars == <<daemonVars, relay, serverVars, history>>

Requests == 1..MaxSteps
Kinds == {"approval", "input"}
AskKind(r) == IF r \in Approvals THEN "approval" ELSE "input"
LocalOver == {"completed", "failed", "canceled"}
Waiting == {"waiting_approval", "waiting_input"}
Leased == server \in {"running"} \cup Waiting
WaitFor(kind) == IF kind = "approval" THEN "waiting_approval" ELSE "waiting_input"
Relaying == {"record", "events", "handle", "ask", "resolve"}

\* Every value keeps its domain; the relay never reads past the log.
TypeOK ==
  /\ local \in {"absent", "waiting_for_executor", "queued", "running", "interrupted"}
               \cup Waiting \cup LocalOver
  /\ safe \in BOOLEAN /\ serverSafe \in BOOLEAN
  /\ \A i \in 1..Len(events) :
       /\ events[i].kind \in {"event", "safe", "unsafe"} \cup Kinds
       /\ events[i].ask \in Requests \cup {0}
  /\ asked \in [Requests -> {"none", "pending", "approved", "rejected", "answered", "expired"}]
  /\ worker.at \in {"idle", "turn", "tool", "waiting", "approved", "working", "done",
                    "broken", "answer", "error"}
  /\ worker.step \in 0..(MaxSteps + 1)
  /\ relay.at \in Relaying \cup {"away", "import", "start", "cancel", "send", "idle"}
  /\ relay.cursor <= relay.upto /\ relay.upto <= Len(events)
  /\ server \in {"running", "completed", "failed", "interrupted", "ended"} \cup Waiting
  /\ \A i \in 1..Len(serverLog) :
       serverLog[i].n \in 1..Len(events) /\ serverLog[i].as \in {"itself", "warning"}
  /\ serverAsked \in [Requests -> {"none", "pending", "approved", "rejected", "expired"}]
  /\ stopped \in BOOLEAN /\ cut \in BOOLEAN /\ decided \subseteq Requests
  /\ drops \in 0..MaxDrops /\ faults \in 0..MaxFaults

Idle == [at |-> "idle", step |-> 0]
NewRelay == [at |-> "import", seen |-> "absent", cursor |-> 0, upto |-> 0,
             recovering |-> FALSE, result |-> "none"]

\* The server has just handed the run to the agent.
Init ==
  /\ local = "absent" /\ safe = TRUE /\ events = <<>>
  /\ asked = [r \in Requests |-> "none"]
  /\ worker = Idle
  /\ relay = NewRelay
  /\ server = "running" /\ serverSafe = TRUE /\ serverLog = <<>>
  /\ serverAsked = [r \in Requests |-> "none"]
  /\ stopped = FALSE /\ decided = {} /\ cut = FALSE /\ drops = 0 /\ faults = 0

Fault == faults < MaxFaults /\ faults' = faults + 1
-----------------------------------------------------------------------------
(* The daemon's worker.                                                    *)

append_event(kind, r) == events' = Append(events, [kind |-> kind, ask |-> r])
WorkerAt(at) == worker.at = at
WorkerTo(at) == worker' = [worker EXCEPT !.at = at]

\* Queued becomes running.
claim_run ==
  /\ local = "queued" /\ WorkerAt("idle")
  /\ local' = "running" /\ worker' = [at |-> "turn", step |-> 1]
  /\ UNCHANGED <<safe, events, asked, relay, serverVars, history>>

\* A model turn: the final answer, a tool call or a failure of the model.
\* Emitting fails once the run is canceled; the turns may be used up.
model_turn ==
  /\ WorkerAt("turn")
  /\ IF local # "canceled" /\ worker.step <= MaxSteps
       THEN /\ append_event("event", 0)
            /\ \E at \in {"answer", "tool", "error"} : WorkerTo(at)
       ELSE WorkerTo("error") /\ UNCHANGED events
  /\ UNCHANGED <<local, safe, asked, relay, serverVars, history>>

\* await_local_approval and await_local_input, first part: the request, the
\* state and the event.  A canceled run keeps its state; the request stays.
ask_user ==
  LET r == worker.step
      kind == AskKind(r)
  IN
  /\ WorkerAt("tool")
  /\ asked' = [asked EXCEPT ![r] = "pending"]
  /\ IF local = "canceled"
       THEN WorkerTo("broken") /\ UNCHANGED <<local, events>>
       ELSE /\ local' = WaitFor(kind) /\ append_event(kind, r) /\ WorkerTo("waiting")
  /\ UNCHANGED <<safe, relay, serverVars, history>>

\* Second part: polling the run and the request.
await_local_answer ==
  LET status == asked[worker.step] IN
  /\ WorkerAt("waiting")
  /\ \/ /\ local = "canceled" /\ WorkerTo("broken") /\ UNCHANGED <<local, asked>>
     \/ /\ local # "canceled" /\ status \in {"approved", "rejected", "answered"}
        /\ local' = "running" /\ UNCHANGED asked
        /\ WorkerTo(IF status = "approved" THEN "approved" ELSE "done")
     \/ /\ local = "waiting_approval" /\ status = "pending"
        /\ asked' = [asked EXCEPT ![worker.step] = "expired"]
        /\ local' = "running" /\ WorkerTo("done")
     \/ /\ local = "waiting_input" /\ status = "pending"
        /\ asked' = [asked EXCEPT ![worker.step] = "expired"]
        /\ WorkerTo("broken") /\ UNCHANGED local
  /\ UNCHANGED <<safe, events, relay, serverVars, history>>

\* execute_tool without a request: harmless (and maybe failing) or denied, or
\* mutating, which writes the unsafe checkpoint first.
execute_tool ==
  \/ /\ WorkerAt("tool") /\ (WorkerTo("done") \/ WorkerTo("broken"))
     /\ UNCHANGED <<local, safe, events, asked, relay, serverVars, history>>
  \/ /\ WorkerAt("tool") \/ WorkerAt("approved")
     /\ safe' = FALSE /\ append_event("unsafe", 0) /\ WorkerTo("working")
     /\ UNCHANGED <<local, asked, relay, serverVars, history>>

\* A mutating tool ends, or its outcome is unknown.
tool_ends ==
  /\ WorkerAt("working") /\ (WorkerTo("done") \/ WorkerTo("broken"))
  /\ UNCHANGED <<local, safe, events, asked, relay, serverVars, history>>

\* The outcome is reported with a checkpoint; an unsafe one ends the run.
report_tool ==
  /\ WorkerAt("done") \/ WorkerAt("broken")
  /\ IF local = "canceled"
       THEN WorkerTo("error") /\ UNCHANGED <<safe, events>>
       ELSE /\ safe' = WorkerAt("done")
            /\ append_event(IF WorkerAt("done") THEN "safe" ELSE "unsafe", 0)
            /\ worker' = IF WorkerAt("done") THEN [at |-> "turn", step |-> worker.step + 1]
                         ELSE [worker EXCEPT !.at = "error"]
  /\ UNCHANGED <<local, asked, relay, serverVars, history>>

\* execute_run, last part: the result, unless the run was canceled.
execute_run ==
  /\ WorkerAt("answer") \/ WorkerAt("error")
  /\ worker' = Idle
  /\ IF local = "canceled" THEN UNCHANGED <<local, events>>
     ELSE /\ local' = IF WorkerAt("answer") THEN "completed"
                      ELSE IF safe THEN "failed" ELSE "interrupted"
          /\ IF local' = "interrupted" THEN append_event("event", 0) ELSE UNCHANGED events
  /\ UNCHANGED <<safe, asked, relay, serverVars, history>>

\* The daemon stops or dies, and interrupt_active_runs ends what was going on.
interrupt_active_runs ==
  /\ worker # Idle /\ Fault
  /\ local' = IF local \in {"running"} \cup Waiting THEN "interrupted" ELSE local
  /\ worker' = Idle
  /\ UNCHANGED <<safe, events, asked, relay, serverVars, stopped, decided, cut, drops>>

\* cancel_run: whatever is not over is canceled.
Canceled == IF local \in LocalOver \cup {"absent"} THEN local ELSE "canceled"

\* A user of the device cancels the run, or answers a request there.
user_cancels ==
  /\ local \notin LocalOver \cup {"absent"} /\ ~stopped
  /\ local' = Canceled /\ stopped' = TRUE
  /\ UNCHANGED <<safe, events, asked, worker, relay, serverVars, decided, cut, drops, faults>>

Answers(r) == IF AskKind(r) = "input" THEN {"answered"} ELSE {"approved", "rejected"}

user_answers(r) ==
  /\ asked[r] = "pending"
  /\ \E answer \in Answers(r) : asked' = [asked EXCEPT ![r] = answer]
  /\ decided' = decided \cup {r}
  /\ UNCHANGED <<local, safe, events, worker, relay, serverVars, stopped, cut, drops, faults>>
-----------------------------------------------------------------------------
(* The server.                                                             *)

Stored(n, as) == \E i \in 1..Len(serverLog) : serverLog[i] = [n |-> n, as |-> as]

\* Mutant: an event reported again is stored again.
Store_again(n, as) == serverLog' = Append(serverLog, [n |-> n, as |-> as])

\* append_external_leased_event and create_checkpoint know their source id.
Store(n, as) ==
  serverLog' = IF Stored(n, as) THEN serverLog ELSE Append(serverLog, [n |-> n, as |-> as])

NewRequest(n) ==
  LET e == events[n] IN
  /\ server' = WaitFor(e.kind) /\ serverAsked' = [serverAsked EXCEPT ![e.ask] = "pending"]
  /\ Store(n, "itself") /\ relay' = [relay EXCEPT !.at = "ask", !.cursor = n]

Refused == relay' = [NewRelay EXCEPT !.at = "cancel"] /\ UNCHANGED <<server, serverAsked, serverLog>>

\* Mutant: the source_request_id is not looked up.
create_request_again(n) ==
  IF asked[events[n].ask] # "expired" /\ server = "running" THEN NewRequest(n) ELSE Refused

\* create_approval and create_input_request: the earlier request of the same
\* source, or a new one if the run is running; the expiry must be to come.
create_request(n) ==
  LET r == events[n].ask IN
  CASE asked[r] # "expired" /\ serverAsked[r] # "none" ->
         /\ relay' = [relay EXCEPT !.at = "ask", !.cursor = n]
         /\ UNCHANGED <<server, serverAsked, serverLog>>
    [] asked[r] # "expired" /\ serverAsked[r] = "none" /\ server = "running" -> NewRequest(n)
    [] OTHER -> Refused

\* No heartbeats: the lease may run out.
LeaseMayEnd == relay.at \in {"away", "idle"}

Answered(r) ==
  \E answer \in Answers(r) :
    serverAsked' = [serverAsked EXCEPT ![r] = IF answer = "answered" THEN "approved" ELSE answer]

\* Mutant: the run is not resumed.
server_answers_only(r) ==
  /\ serverAsked[r] = "pending" /\ server = WaitFor(AskKind(r))
  /\ Answered(r)
  /\ UNCHANGED <<daemonVars, relay, server, serverSafe, serverLog, history>>

\* resolve_approval and submit_input_response, which resume the run if the
\* lease is still good.
server_answers(r) ==
  /\ serverAsked[r] = "pending" /\ server = WaitFor(AskKind(r))
  /\ Answered(r)
  /\ server' = "running" \/ (LeaseMayEnd /\ server' = "interrupted")
  /\ UNCHANGED <<daemonVars, relay, serverSafe, serverLog, history>>

\* expire_pending_workflows, first part; the run may be ended later.
server_expires(r) ==
  /\ serverAsked[r] = "pending"
  /\ serverAsked' = [serverAsked EXCEPT ![r] = "expired"]
  /\ UNCHANGED <<daemonVars, relay, server, serverSafe, serverLog, history>>

\* The run is canceled or expired.
server_ends ==
  /\ Leased /\ server' = "ended"
  /\ UNCHANGED <<daemonVars, relay, serverSafe, serverLog, serverAsked, history>>

interrupt_expired_leases ==
  /\ Leased /\ LeaseMayEnd /\ server' = "interrupted"
  /\ UNCHANGED <<daemonVars, relay, serverSafe, serverLog, serverAsked, history>>

\* complete_leased_run, fail_leased_run: only a running run can complete.
Finished ==
  IF Leased /\ relay.result = "failed" THEN "failed"
  ELSE IF server = "running" THEN "completed" ELSE server
-----------------------------------------------------------------------------
(* The agent's task: execute_via_local_daemon.                             *)

RelayAt(at) == relay.at = at
RelayTo(at) == relay' = [relay EXCEPT !.at = at]
RelayRests(at, result) == relay' = [NewRelay EXCEPT !.at = at, !.result = result]
Report(result) == RelayRests("send", result)

\* server_runs.import returns the run, a new one or the one it has.
import_server_run ==
  /\ RelayAt("import")
  /\ local' = IF local = "absent" THEN "waiting_for_executor" ELSE local
  /\ relay' = [relay EXCEPT !.at = IF local' = "waiting_for_executor" THEN "start" ELSE "record",
                            !.recovering = local \in LocalOver]
  /\ UNCHANGED <<safe, events, asked, worker, serverVars, history>>

\* server_runs.start; an error ends the task without canceling the run.
start_imported_server_run ==
  /\ RelayAt("start")
  /\ local' = IF local = "waiting_for_executor" THEN "queued" ELSE local
  /\ IF local \in {"waiting_for_executor", "queued", "running"} THEN RelayTo("record")
     ELSE Report("failed")
  /\ UNCHANGED <<safe, events, asked, worker, serverVars, history>>

\* runs.get ...
relay_record ==
  /\ RelayAt("record")
  /\ relay' = [relay EXCEPT !.at = "events", !.seen = local]
  /\ UNCHANGED <<daemonVars, serverVars, history>>

\* Mutant: a full batch is assumed.
list_events_unchecked == relay.cursor + Batch

\* The last of the events after the cursor, at most Batch of them.
list_events == Min({relay.cursor + Batch, Len(events)})

\* ... and then runs.events.
relay_events ==
  /\ RelayAt("events")
  /\ relay' = [relay EXCEPT !.at = "handle", !.upto = list_events]
  /\ cut' = (cut \/ (relay.seen \in LocalOver /\ list_events < Len(events)))
  /\ UNCHANGED <<daemonVars, serverVars, stopped, decided, drops, faults>>

\* The next event is passed on; a refusal ends the loop with an error.
relay_event ==
  LET n == relay.cursor + 1
      e == events[n]
  IN
  /\ RelayAt("handle") /\ relay.cursor < relay.upto
  /\ IF ~Leased
       THEN RelayRests("cancel", "none") /\ UNCHANGED serverVars
       ELSE \/ /\ e.kind \in Kinds /\ ~relay.recovering
               /\ create_request(n) /\ UNCHANGED serverSafe
            \/ /\ e.kind \in Kinds /\ relay.recovering
               /\ Store(n, "warning") /\ relay' = [relay EXCEPT !.cursor = n]
               /\ UNCHANGED <<server, serverSafe, serverAsked>>
            \/ /\ e.kind \notin Kinds
               /\ Store(n, "itself") /\ relay' = [relay EXCEPT !.cursor = n]
               /\ serverSafe' = IF e.kind = "event" \/ Stored(n, "itself") THEN serverSafe
                                ELSE e.kind = "safe"
               /\ UNCHANGED <<server, serverAsked>>
  /\ UNCHANGED <<daemonVars, history>>

\* await_approval and await_input poll the server's request.
relay_answer ==
  /\ RelayAt("ask") /\ serverAsked[events[relay.cursor].ask] # "pending"
  /\ RelayTo("resolve")
  /\ UNCHANGED <<daemonVars, serverVars, history>>

\* resolve_local_approval and respond_local_input, which accept an answer to
\* a pending request only; otherwise the relay fails.
relay_resolve ==
  LET r == events[relay.cursor].ask
      answer == IF events[relay.cursor].kind = "input" THEN "answered"
                ELSE IF serverAsked[r] = "approved" THEN "approved" ELSE "rejected"
  IN
  /\ RelayAt("resolve")
  /\ IF asked[r] = "pending"
       THEN asked' = [asked EXCEPT ![r] = answer] /\ RelayTo("handle")
       ELSE UNCHANGED asked /\ RelayRests("cancel", "none")
  /\ UNCHANGED <<local, safe, events, worker, serverVars, history>>

\* Mutant: the record is looked at after the events.
relay_end_now ==
  /\ RelayAt("handle") /\ relay.cursor = relay.upto
  /\ CASE local = "completed" -> Report("completed")
       [] local \in {"failed", "canceled", "interrupted"} -> RelayRests("cancel", "none")
       [] OTHER -> RelayTo("record")
  /\ UNCHANGED <<daemonVars, serverVars, history>>

\* Mutant: an interrupted run is waited for.
relay_end_terminal ==
  /\ RelayAt("handle") /\ relay.cursor = relay.upto
  /\ CASE relay.seen = "completed" -> Report("completed")
       [] relay.seen \in {"failed", "canceled"} -> RelayRests("cancel", "none")
       [] OTHER -> RelayTo("record")
  /\ UNCHANGED <<daemonVars, serverVars, history>>

\* All events are passed on: the record read before them decides.
relay_end ==
  /\ RelayAt("handle") /\ relay.cursor = relay.upto
  /\ CASE relay.seen = "completed" -> Report("completed")
       [] relay.seen \in {"failed", "canceled", "interrupted"} -> RelayRests("cancel", "none")
       [] OTHER -> RelayTo("record")
  /\ UNCHANGED <<daemonVars, serverVars, history>>

\* After an error the daemon is asked to cancel the run.
relay_cancels ==
  /\ RelayAt("cancel") /\ Report("failed") /\ local' = Canceled
  /\ UNCHANGED <<safe, events, asked, worker, serverVars, history>>

\* A call to the daemon or the server fails, publishing the result of a
\* completed run included.
relay_fails ==
  /\ Fault
  /\ \/ relay.at \in {"import", "start"} /\ Report("failed")
     \/ RelayAt("send") /\ relay.result = "completed" /\ Report("failed")
     \/ relay.at \in Relaying /\ RelayRests("cancel", "none")
  /\ UNCHANGED <<daemonVars, serverVars, stopped, decided, cut, drops>>

\* The result is sent; the agent forgets the lease whatever the server says.
send_result ==
  /\ RelayAt("send") /\ RelayRests("idle", relay.result) /\ server' = Finished
  /\ UNCHANGED <<daemonVars, serverSafe, serverLog, serverAsked, history>>

\* The server cannot record that the executor is there and names the run in
\* the error: the run is canceled on the device and the task aborted.  (A
\* refused lease heartbeat names no run, and the agent ignores it.)
heartbeat_failed ==
  /\ Fault /\ relay.at \notin {"away", "idle"}
  /\ local' = Canceled /\ RelayRests("idle", "none")
  /\ UNCHANGED <<safe, events, asked, worker, serverVars, stopped, decided, cut, drops>>

\* The connection is lost and the task aborted.
disconnect ==
  /\ ~RelayAt("away") /\ drops < MaxDrops
  /\ drops' = drops + 1 /\ RelayRests("away", "none")
  /\ UNCHANGED <<daemonVars, serverVars, stopped, decided, cut, faults>>

\* recover_external_run on the new connection: the lease again, or the run is
\* interrupted if its latest checkpoint is unsafe.
reconnect ==
  /\ RelayAt("away")
  /\ relay' = IF Leased /\ serverSafe THEN NewRelay ELSE [NewRelay EXCEPT !.at = "idle"]
  /\ server' = IF Leased /\ ~serverSafe THEN "interrupted" ELSE server
  /\ UNCHANGED <<daemonVars, serverSafe, serverLog, serverAsked, history>>
-----------------------------------------------------------------------------
WorkerStep ==
  \/ claim_run \/ model_turn \/ await_local_answer \/ execute_tool \/ tool_ends
  \/ report_tool \/ execute_run \/ ask_user

RelayStep ==
  \/ import_server_run \/ start_imported_server_run \/ relay_record \/ relay_events
  \/ relay_event \/ relay_answer \/ relay_resolve \/ relay_end \/ relay_cancels
  \/ send_result \/ reconnect

Outside ==
  \/ user_cancels \/ interrupt_active_runs \/ relay_fails \/ heartbeat_failed
  \/ disconnect \/ server_ends
  \/ \E r \in Requests : user_answers(r) \/ server_answers(r)

Next ==
  \/ WorkerStep \/ RelayStep \/ Outside \/ interrupt_expired_leases
  \/ \E r \in Requests : server_expires(r)

\* The agent's task goes on and the agent reconnects; the server's worker
\* lets requests and leases run out.
Spec ==
  /\ Init /\ [][Next]_vars
  /\ WF_vars(RelayStep) /\ WF_vars(interrupt_expired_leases)
  /\ \A r \in Requests : WF_vars(server_expires(r))
-----------------------------------------------------------------------------
Relayed == {serverLog[i].n : i \in 1..Len(serverLog)}

\* The server's log of the run is the daemon's log up to some event: nothing
\* is missing in between, nothing is stored twice and the order is kept, over
\* lost connections and repeated relays.  Only the warnings that stand for
\* requests met in a finished run come where they come.
RelayedInOrder ==
  /\ Relayed = 1..(IF Relayed = {} THEN 0 ELSE Max(Relayed))
  /\ \A i, j \in 1..Len(serverLog) :
       i < j => /\ serverLog[i] # serverLog[j]
                /\ serverLog[i].as = "itself" /\ serverLog[j].as = "itself"
                     => serverLog[i].n < serverLog[j].n

\* A run that the server calls completed was completed on the device, and all
\* its events were relayed before: the record is read before the events.  The
\* exception is a log that was longer than one answer of runs.events when the
\* final record was read.
CompleteUnlessCut ==
  server = "completed" => local = "completed" /\ (Relayed = 1..Len(events) \/ cut)

\* A lost connection leaves the run on the device alive.  Unless a user, the
\* server, a fault, an unsafe tool or a request that ran out ended it, it is
\* canceled only because the relay met a request that had been answered
\* already: on the device, or before the connection was lost.
AliveUnlessAnswered ==
  (/\ local = "canceled" /\ ~stopped /\ faults = 0 /\ safe
   /\ server \notin {"ended", "interrupted"} /\ \A r \in Requests : serverAsked[r] # "expired")
    => \E r \in Requests : /\ asked[r] \notin {"none", "pending"}
                           /\ drops > 0 \/ r \in decided \/ asked[r] = "expired"

\* The result of a run is refused only if a user ended the run or the device
\* went on without an answer of the server: the request was answered on the
\* device, or ran out, while the server still waited.
RefusedOnlyIfWaiting ==
  (RelayAt("idle") /\ relay.result = "completed" /\ server # "completed")
    => \/ server = "ended"
       \/ \E r \in Requests :
            serverAsked[r] # "none" /\ (r \in decided \/ "expired" \in {asked[r], serverAsked[r]})

\* The server does not go on waiting for a run that is over on the device.
EndReported == local \in LocalOver \cup {"interrupted"} ~> ~Leased
=============================================================================
