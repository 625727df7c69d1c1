---------------------------- MODULE ExecutorLink ----------------------------
(***************************************************************************)
(* The WebSocket between the control plane and a device agent: the server  *)
(* loop run_socket / handle_message (executor_ws.rs), the agent loop       *)
(* run_websocket (cowork-device-agent), and the messages in flight between *)
(* them, on top of the run queue.                                          *)
(*                                                                         *)
(* A connection is free again when both ends have left.  Either end may    *)
(* leave first: an agent that loses its network reconnects on another      *)
(* connection while the server loop of the old one, which sends nothing    *)
(* while it is idle, goes on ticking.                                      *)
(* Acknowledgements and error messages without a run id change nothing at  *)
(* the agent and are left out.  The runs have been created before the      *)
(* first connection: a tick that finds no work is also a tick whose        *)
(* heartbeat fails.                                                        *)
(***************************************************************************)
EXTENDS RunQueue, Sequences

CONSTANTS
  Conns,       \* connections
  NoConn,      \* the agent is between two connections
  NoLease,     \* None in current_lease and active_lease
  ExecutorOf,  \* the executor whose credential opens each connection
  Outcomes,    \* what a task may end with: completed, failed
  MaxInFlight  \* bound: messages and errors on their way, per connection

ASSUME LinkAssumption ==
  /\ ExecutorOf \in [Conns -> Executors]
  /\ NoConn \notin Conns /\ NoLease \notin Lease
  /\ MaxInFlight \in Nat /\ Outcomes \subseteq {"completed", "failed"}

VARIABLES
  link,      \* link[c]: which ends of the connection are there
  tick,      \* tick[c]: how far the server loop is in its dispatch tick
  current,   \* current[c]: current_lease of the server loop
  toAgent,   \* toAgent[c]: messages on their way to the agent
  toServer,  \* toServer[c]: messages on their way to the server
  conn,      \* conn[e]: the agent's connection
  active,    \* active[e]: the agent's active_lease
  results    \* results[e]: the result channel of the agent's run_websocket

socketVars == <<link, tick, current>>
agentVars == <<conn, active, results>>
linkVars == <<link, tick, current, toAgent, toServer, conn, active, results>>
allVars == <<vars, linkVars>>

LinkState == {"unused", "open", "half_open", "server_closed"}

\* Both loops hold leases the queue granted, and their channels stay short.
LinkTypeOK ==
  /\ TypeOK
  /\ link \in [Conns -> LinkState]
  /\ tick \in [Conns -> {"idle", "heartbeat", "claim"}]
  /\ current \in [Conns -> granted \cup {NoLease}]
  /\ conn \in [Executors -> Conns \cup {NoConn}]
  /\ active \in [Executors -> granted \cup {NoLease}]
  /\ \A e \in Executors : Len(results[e]) <= 1
  /\ \A c \in Conns : Len(toServer[c]) <= MaxInFlight + 1

LinkInit ==
  /\ QueuedInit
  /\ link = [c \in Conns |-> "unused"]
  /\ tick = [c \in Conns |-> "idle"]
  /\ current = [c \in Conns |-> NoLease]
  /\ toAgent = [c \in Conns |-> <<>>]
  /\ toServer = [c \in Conns |-> <<>>]
  /\ conn = [e \in Executors |-> NoConn]
  /\ active = [e \in Executors |-> NoLease]
  /\ results = [e \in Executors |-> <<>>]

\* The server loop of c is running.
Serving(c) == link[c] \in {"open", "half_open"}

\* A message to an agent that has left is written to a dead socket.
SendToAgent(c, m) ==
  toAgent' = IF link[c] = "open" THEN [toAgent EXCEPT ![c] = Append(@, m)] ELSE toAgent

LeaseMessage(g) == [type |-> "lease", lease |-> g]
ErrorMessage(r) == [type |-> "error", run |-> r]
-----------------------------------------------------------------------------
(* The server side: run_socket.                                            *)

\* First part of the dispatch tick: an idle loop asks for a live lease of
\* the executor; unsafe work is interrupted instead of being returned.
tick_recover(c) ==
  LET e == ExecutorOf[c] IN
  /\ Serving(c) /\ tick[c] = "idle"
  /\ tick' = [tick EXCEPT ![c] = "heartbeat"]
  /\ UNCHANGED <<link, toServer, agentVars>>
  /\ IF current[c] = NoLease /\ \E r \in Runs : Recoverable(e, r)
       THEN \E r \in Runs :
              LET g == [run |-> r, owner |-> e, token |-> leaseToken[r]] IN
              /\ recover_external_run(e, r)
              /\ IF checkpoint[r] = "unsafe"
                   THEN UNCHANGED <<current, toAgent>>
                   ELSE /\ current' = [current EXCEPT ![c] = g]
                        /\ SendToAgent(c, LeaseMessage(g))
       ELSE UNCHANGED <<vars, current, toAgent>>

\* Mutant: the counter is left as the claims and releases made it.
tick_heartbeat_keeping_count(c) ==
  /\ Serving(c) /\ tick[c] = "heartbeat"
  /\ tick' = [tick EXCEPT ![c] = "claim"]
  /\ UNCHANGED <<vars, link, current, toAgent, toServer, agentVars>>

\* Second part: the executor's counter is overwritten with 0 or 1.
tick_heartbeat(c) ==
  /\ Serving(c) /\ tick[c] = "heartbeat"
  /\ heartbeat_executor(ExecutorOf[c], IF current[c] = NoLease THEN 0 ELSE 1)
  /\ tick' = [tick EXCEPT ![c] = "claim"]
  /\ UNCHANGED <<link, current, toAgent, toServer, agentVars>>

\* Mutant: the loop forgets its lease when it tells the agent to drop it.
tick_heartbeat_fails_forgetting(c) ==
  /\ Serving(c) /\ tick[c] = "heartbeat"
  /\ Len(toAgent[c]) < MaxInFlight
  /\ tick' = [tick EXCEPT ![c] = "idle"]
  /\ current' = [current EXCEPT ![c] = NoLease]
  /\ IF current[c] = NoLease THEN UNCHANGED toAgent
                             ELSE SendToAgent(c, ErrorMessage(current[c].run))
  /\ UNCHANGED <<vars, link, toServer, agentVars>>

\* The update fails: the tick ends with an error that names the current run.
tick_heartbeat_fails(c) ==
  /\ Serving(c) /\ tick[c] = "heartbeat"
  /\ Len(toAgent[c]) < MaxInFlight
  /\ tick' = [tick EXCEPT ![c] = "idle"]
  /\ IF current[c] = NoLease THEN UNCHANGED toAgent
                             ELSE SendToAgent(c, ErrorMessage(current[c].run))
  /\ UNCHANGED <<vars, link, current, toServer, agentVars>>

CanClaim(e, r) ==
  /\ activeRuns[e] < MaxConcurrent[e]
  /\ state[r] \in ClaimableStates /\ r \in Serves[e] /\ NoOpenPrior(r)

\* Mutant: the tick claims although the loop still has a lease.
tick_claim_when_busy(c) ==
  LET e == ExecutorOf[c] IN
  /\ Serving(c) /\ tick[c] = "claim"
  /\ tick' = [tick EXCEPT ![c] = "idle"]
  /\ UNCHANGED <<link, toServer, agentVars>>
  /\ \E r \in Runs : /\ claim_external_run(e, r)
                     /\ \E g \in granted' \ granted :
                          /\ current' = [current EXCEPT ![c] = g]
                          /\ SendToAgent(c, LeaseMessage(g))

\* Third part: a loop without a lease claims the next run.
tick_claim(c) ==
  LET e == ExecutorOf[c] IN
  /\ Serving(c) /\ tick[c] = "claim"
  /\ tick' = [tick EXCEPT ![c] = "idle"]
  /\ UNCHANGED <<link, toServer, agentVars>>
  /\ IF current[c] = NoLease /\ \E r \in Runs : CanClaim(e, r)
       THEN \E r \in Runs : /\ claim_external_run(e, r)
                            /\ \E g \in granted' \ granted :
                                 /\ current' = [current EXCEPT ![c] = g]
                                 /\ SendToAgent(c, LeaseMessage(g))
       ELSE UNCHANGED <<vars, current, toAgent>>

\* Recovery or the claim fails, or the claim passes over rows that another
\* transaction has locked: the tick goes on without a lease.
tick_without_lease(c) ==
  /\ Serving(c) /\ tick[c] \in {"idle", "claim"} /\ current[c] = NoLease
  /\ tick' = [tick EXCEPT ![c] = IF @ = "idle" THEN "heartbeat" ELSE "idle"]
  /\ UNCHANGED <<vars, link, current, toAgent, toServer, agentVars>>

\* handle_message.  A refused operation is answered by an error without a
\* run id and leaves current_lease as it is.
handle_message(c) ==
  LET e == ExecutorOf[c]
      m == Head(toServer[c])
  IN
  /\ Serving(c) /\ tick[c] = "idle" /\ toServer[c] # <<>>
  /\ toServer' = [toServer EXCEPT ![c] = Tail(@)]
  /\ UNCHANGED <<link, tick, toAgent, agentVars>>
  /\ \/ /\ m.type = "heartbeat"
        /\ heartbeat_executor(e, m.count)
        /\ UNCHANGED current
     \/ /\ m.type = "lease_heartbeat"
        /\ IF LeaseMatches(m.lease) THEN renew_lease(m.lease) ELSE UNCHANGED vars
        /\ UNCHANGED current
     \/ /\ m.type = "finish"
        /\ \/ /\ finish_leased_run(m.lease, m.outcome)
              /\ current' = IF current[c] # NoLease /\ current[c].run = m.lease.run
                              THEN [current EXCEPT ![c] = NoLease] ELSE current
           \/ /\ ~(verify_lease(m.lease) /\ can_transition_to(state[m.lease.run], m.outcome))
              /\ UNCHANGED <<vars, current>>

\* The loop ends: the peer's close was seen, a send failed (within a tick
\* too), or the server stopped.  Its current_lease goes with it.
socket_ends(c) ==
  /\ Serving(c)
  /\ tick' = [tick EXCEPT ![c] = "idle"]
  /\ link' = [link EXCEPT ![c] = IF link[c] = "open" THEN "server_closed" ELSE "unused"]
  /\ current' = [current EXCEPT ![c] = NoLease]
  /\ toServer' = [toServer EXCEPT ![c] = <<>>]
  /\ UNCHANGED <<vars, toAgent, agentVars>>
-----------------------------------------------------------------------------
(* The agent side: run_websocket.                                          *)

connect(e, c) ==
  /\ conn[e] = NoConn /\ link[c] = "unused" /\ ExecutorOf[c] = e
  /\ link' = [link EXCEPT ![c] = "open"]
  /\ conn' = [conn EXCEPT ![e] = c]
  /\ UNCHANGED <<vars, tick, current, toAgent, toServer, active, results>>

\* The connection breaks for the agent: the task is aborted, the lease and
\* the result channel are dropped.  What the agent had sent may still reach the server.
agent_leaves(e) ==
  LET c == conn[e] IN
  /\ c # NoConn
  /\ link' = [link EXCEPT ![c] = IF link[c] = "open" THEN "half_open" ELSE "unused"]
  /\ conn' = [conn EXCEPT ![e] = NoConn]
  /\ active' = [active EXCEPT ![e] = NoLease]
  /\ results' = [results EXCEPT ![e] = <<>>]
  /\ toAgent' = [toAgent EXCEPT ![c] = <<>>]
  /\ UNCHANGED <<vars, tick, current, toServer>>

\* A lease starts the task, unless one is running: then the agent bails
\* out of the connection.  An error naming the active run aborts the task,
\* whose result may be in the channel already.
agent_receives(e) ==
  LET c == conn[e] IN
  /\ c # NoConn /\ toAgent[c] # <<>>
  /\ LET m == Head(toAgent[c]) IN
     \/ /\ m.type = "lease" /\ active[e] # NoLease
        /\ agent_leaves(e)
     \/ /\ ~(m.type = "lease" /\ active[e] # NoLease)
        /\ active' = [active EXCEPT ![e] =
             CASE m.type = "lease" -> m.lease
               [] m.type = "error" /\ @ # NoLease ->
                    IF @.run = m.run THEN NoLease ELSE @
               [] OTHER -> @]
        /\ toAgent' = [toAgent EXCEPT ![c] = Tail(@)]
        /\ UNCHANGED <<vars, socketVars, toServer, conn, results>>

SendToServer(c, ms) ==
  /\ Len(toServer[c]) < MaxInFlight
  /\ toServer' = IF link[c] = "open" THEN [toServer EXCEPT ![c] = @ \o ms] ELSE toServer

\* The heartbeat tick: the load, and the active lease if there is one.
agent_heartbeat(e) ==
  LET c == conn[e] IN
  /\ c # NoConn
  /\ SendToServer(c,
       IF active[e] = NoLease
         THEN <<[type |-> "heartbeat", count |-> 0]>>
         ELSE <<[type |-> "heartbeat", count |-> 1],
                [type |-> "lease_heartbeat", lease |-> active[e]]>>)
  /\ UNCHANGED <<vars, socketVars, toAgent, agentVars>>

\* The task of the active lease ends with a result.
task_ends(e) ==
  /\ active[e] # NoLease /\ results[e] = <<>>
  /\ \E outcome \in Outcomes :
       results' = [results EXCEPT ![e] =
         Append(@, [type |-> "finish", lease |-> active[e], outcome |-> outcome])]
  /\ UNCHANGED <<vars, socketVars, toAgent, toServer, conn, active>>

\* The next result of the channel is sent and the active lease dropped,
\* whichever lease the result belongs to.
agent_finishes(e) ==
  LET c == conn[e] IN
  /\ active[e] # NoLease /\ results[e] # <<>>
  /\ SendToServer(c, <<Head(results[e])>>)
  /\ active' = [active EXCEPT ![e] = NoLease]
  /\ results' = [results EXCEPT ![e] = Tail(@)]
  /\ UNCHANGED <<vars, socketVars, toAgent, conn>>

\* The running task records checkpoints over REST.
agent_checkpoints(e, safe) ==
  /\ active[e] # NoLease /\ results[e] = <<>>
  /\ create_checkpoint(active[e], safe)
  /\ UNCHANGED linkVars
-----------------------------------------------------------------------------
\* Users, the clock and the reaper.
Outside ==
  /\ UNCHANGED linkVars
  /\ \/ \E r \in Runs : cancel_run(r) \/ LeaseExpires(r)
     \/ interrupt_expired_leases

SocketStep(c) ==
  \/ tick_recover(c) \/ tick_heartbeat(c) \/ tick_heartbeat_fails(c) \/ tick_claim(c)
  \/ tick_without_lease(c) \/ handle_message(c) \/ socket_ends(c)

AgentStepOf(e) ==
  \/ agent_receives(e) \/ agent_heartbeat(e) \/ task_ends(e) \/ agent_finishes(e)
  \/ \E safe \in BOOLEAN : agent_checkpoints(e, safe)

LinkNext ==
  \/ \E c \in Conns : SocketStep(c)
  \/ \E e \in Executors : AgentStepOf(e) \/ agent_leaves(e) \/ \E c \in Conns : connect(e, c)
  \/ Outside

LinkSpec == LinkInit /\ [][LinkNext]_allVars

\* The server loop's interval keeps ticking and its transactions do not
\* fail for ever; nothing is assumed of the agent or of the network.
LinkFairness ==
  \A c \in Conns :
    /\ WF_allVars(tick_recover(c))
    /\ SF_allVars(tick_heartbeat(c)) /\ SF_allVars(tick_claim(c))

FairLinkSpec == LinkSpec /\ LinkFairness
-----------------------------------------------------------------------------
\* What the agent works on is what its connection's server loop believes it
\* works on, and no second lease is on its way to it: the agent's assertion
\* `server assigned a second lease to a busy executor' cannot fail.
NoSecondLease ==
  \A e \in Executors : conn[e] # NoConn =>
    LET c == conn[e]
        leases == {i \in 1..Len(toAgent[c]) : toAgent[c][i].type = "lease"}
    IN /\ \A i, j \in leases : i = j
       /\ active[e] # NoLease =>
            /\ leases = {}
            /\ link[c] = "open" => current[c] = active[e]

\* The agent drops its active lease for whatever result comes out of the
\* channel; that result is always the active lease's own, although a result
\* left behind by an aborted task stays in the channel.
ResultOfActiveLease ==
  \A e \in Executors :
    active[e] # NoLease /\ results[e] # <<>> => Head(results[e]).lease = active[e]

\* A connected executor whose server loops are all without a lease is not
\* left without the work it could do, whatever the counter active_runs was
\* left at by claims, cancellations and lost connections.
IdleExecutorServed ==
  \A e \in Executors, r \in Runs :
    ~<>[](/\ conn[e] # NoConn /\ link[conn[e]] = "open"
          /\ \A c \in Conns : Serving(c) => current[c] = NoLease
          /\ r \in Serves[e] /\ state[r] \in ClaimableStates /\ NoOpenPrior(r))


\* For TLC: all connections are of one agent.
OneAgent == [c \in Conns |-> CHOOSE e \in Executors : TRUE]
=============================================================================
