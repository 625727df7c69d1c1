------------------------- MODULE ExecutorLinkProofs -------------------------
(***************************************************************************)
(* Proofs about ExecutorLink, for every set of executors, connections and  *)
(* runs.  The inductive invariant follows the one lease a connection deals *)
(* with: it is on its way to the agent, or the agent works on it (or has   *)
(* its result in the channel), or the result is on its way back, never two *)
(* of these; while both ends are there it is the server loop's lease.      *)
(***************************************************************************)
EXTENDS ExecutorLink, RunQueueProofs, SequenceTheorems

FinishMessages == [type : {"finish"}, lease : granted, outcome : {"completed", "failed"}]
AgentMessages == [type : {"lease"}, lease : granted] \cup [type : {"error"}, run : Runs]
ServerMessages ==
  [type : {"heartbeat"}, count : {0, 1}] \cup [type : {"lease_heartbeat"}, lease : granted]
    \cup FinishMessages

\* The messages and results in flight carry leases that were granted.
MessagesTyped ==
  /\ toAgent \in [Conns -> Seq(AgentMessages)]
  /\ toServer \in [Conns -> Seq(ServerMessages)]
  /\ results \in [Executors -> Seq(FinishMessages)]

LeaseAt(c, i) == i \in 1..Len(toAgent[c]) /\ toAgent[c][i].type = "lease"
FinishAt(c, i) == i \in 1..Len(toServer[c]) /\ toServer[c][i].type = "finish"
Working(e) == active[e] # NoLease \/ results[e] # <<>>

\* A connection the agent has left, or never used.
LeftSound(c) ==
  /\ link[c] \in {"half_open", "unused"} /\ toAgent[c] = <<>>
  /\ link[c] = "unused" => toServer[c] = <<>> /\ current[c] = NoLease

\* The agent's connection: one lease, in one place.
OneLease(c) ==
  LET e == ExecutorOf[c] IN
  /\ \A i, j : LeaseAt(c, i) /\ LeaseAt(c, j) => i = j
  /\ \A i, j : FinishAt(c, i) /\ FinishAt(c, j) => i = j
  /\ \A i : LeaseAt(c, i) => ~Working(e) /\ \A j : ~FinishAt(c, j)
  /\ Working(e) => \A j : ~FinishAt(c, j)
  /\ active[e] # NoLease /\ results[e] # <<>> => Head(results[e]).lease = active[e]

\* While both ends are there, it is the lease of the server loop.
SameLease(c) ==
  LET e == ExecutorOf[c] IN
  /\ \A i : LeaseAt(c, i) => current[c] = toAgent[c][i].lease
  /\ \A i : FinishAt(c, i) => current[c] = toServer[c][i].lease
  /\ active[e] # NoLease => current[c] = active[e]
  /\ results[e] # <<>> => current[c] = Head(results[e]).lease

ConnSound(c) ==
  IF conn[ExecutorOf[c]] # c THEN LeftSound(c) ELSE
    /\ OneLease(c)
    /\ \/ link[c] = "open" /\ SameLease(c)
       \/ link[c] = "server_closed" /\ toServer[c] = <<>> /\ current[c] = NoLease

\* An agent is on a connection of its own, or without work.
AgentSound(e) ==
  IF conn[e] = NoConn THEN ~Working(e) ELSE ExecutorOf[conn[e]] = e

LinkInv ==
  /\ IInv
  /\ LinkTypeOK
  /\ MessagesTyped
  /\ \A c \in Conns : ConnSound(c)
  /\ \A e \in Executors : AgentSound(e)
-----------------------------------------------------------------------------
(* Sequences.                                                              *)

\* Appending keeps the elements and adds one at the end.
LEMMA AppendAt ==
  ASSUME NEW S, NEW s \in Seq(S), NEW m \in S
  PROVE  /\ Append(s, m) \in Seq(S) /\ Len(Append(s, m)) = Len(s) + 1
         /\ \A i \in 1..Len(s) : Append(s, m)[i] = s[i]
         /\ Append(s, m)[Len(s) + 1] = m
BY AppendProperties

\* Taking the first element moves the others forward.
LEMMA TailAt ==
  ASSUME NEW S, NEW s \in Seq(S), s # <<>>
  PROVE  /\ Tail(s) \in Seq(S) /\ Len(Tail(s)) = Len(s) - 1 /\ Len(s) \in Nat \ {0}
         /\ \A i \in 1..Len(Tail(s)) : Tail(s)[i] = s[i + 1]
         /\ Head(s) = s[1] /\ Head(s) \in S
BY HeadTailProperties, ElementOfSeq, LenProperties

\* A sequence over a set is one over any larger set.
LEMMA LargerSet ==
  ASSUME NEW S, NEW T, S \subseteq T
  PROVE  Seq(S) \subseteq Seq(T)
OBVIOUS

\* As leases are granted, what is in flight stays well formed.
LEMMA MessagesGrow ==
  ASSUME MessagesTyped, granted \subseteq granted'
  PROVE  /\ toAgent \in [Conns -> Seq(AgentMessages')]
         /\ toServer \in [Conns -> Seq(ServerMessages')]
         /\ results \in [Executors -> Seq(FinishMessages')]
<1>1. FinishMessages \subseteq FinishMessages'
  BY DEF FinishMessages
<1>2. AgentMessages \subseteq AgentMessages'
  BY DEF AgentMessages
<1>3. ServerMessages \subseteq ServerMessages'
  BY <1>1 DEF ServerMessages
<1>4. /\ Seq(FinishMessages) \subseteq Seq(FinishMessages')
      /\ Seq(AgentMessages) \subseteq Seq(AgentMessages')
      /\ Seq(ServerMessages) \subseteq Seq(ServerMessages')
  BY <1>1, <1>2, <1>3, LargerSet
<1> QED
  BY <1>4 DEF MessagesTyped
-----------------------------------------------------------------------------
(* Frames.                                                                 *)

\* What is said of a connection survives a step that leaves it alone, unless
\* its agent comes or goes on it.
LEMMA SameConn ==
  ASSUME LinkInv, NEW c \in Conns,
         link'[c] = link[c], current'[c] = current[c],
         toAgent'[c] = toAgent[c], toServer'[c] = toServer[c],
         LET e == ExecutorOf[c] IN
           \/ conn'[e] = conn[e] /\ active'[e] = active[e] /\ results'[e] = results[e]
           \/ conn[e] # c /\ conn'[e] # c
  PROVE  ConnSound(c)'
<1>1. ConnSound(c)
  BY DEF LinkInv
<1>2. CASE conn[ExecutorOf[c]] # c
  <2>1. LeftSound(c) /\ conn'[ExecutorOf[c]] # c
    BY <1>1, <1>2 DEF ConnSound
  <2> QED
    BY <2>1 DEF ConnSound, LeftSound
<1>3. CASE conn[ExecutorOf[c]] = c
  <2>1. \A i : (LeaseAt(c, i)' <=> LeaseAt(c, i)) /\ (FinishAt(c, i)' <=> FinishAt(c, i))
    BY DEF LeaseAt, FinishAt
  <2>2. Working(ExecutorOf[c])' <=> Working(ExecutorOf[c])
    BY <1>3 DEF Working
  <2>3. OneLease(c)'
    BY <1>1, <1>3, <2>1, <2>2 DEF ConnSound, OneLease
  <2>4. SameLease(c) => SameLease(c)'
    BY <1>3, <2>1 DEF SameLease
  <2> QED
    BY <1>1, <1>3, <2>3, <2>4 DEF ConnSound
<1> QED
  BY <1>2, <1>3

\* A step of one connection and of its agent keeps the invariant if it keeps
\* what the invariant says of these two.
LEMMA LinkLocalStep ==
  ASSUME LinkInv, IInv', LinkTypeOK', MessagesTyped', LinkAssumption,
         NEW c \in Conns, NEW e \in Executors, e = ExecutorOf[c],
         \A d \in Conns : d # c =>
           /\ link'[d] = link[d] /\ current'[d] = current[d]
           /\ toAgent'[d] = toAgent[d] /\ toServer'[d] = toServer[d],
         \A x \in Executors : x # e =>
           conn'[x] = conn[x] /\ active'[x] = active[x] /\ results'[x] = results[x],
         \/ conn'[e] = conn[e] /\ active'[e] = active[e] /\ results'[e] = results[e]
         \/ {conn[e], conn'[e]} \subseteq {c, NoConn},
         ConnSound(c)', AgentSound(e)'
  PROVE  LinkInv'
<1>1. ASSUME NEW d \in Conns PROVE ConnSound(d)'
  <2>1. CASE d = c
    BY <2>1
  <2>2. CASE d # c
    <3>1. ExecutorOf[d] \in Executors /\ d # NoConn
      BY DEF LinkAssumption
    <3> QED
      BY <2>2, <3>1, SameConn
  <2> QED
    BY <2>1, <2>2
<1>2. ASSUME NEW x \in Executors PROVE AgentSound(x)'
  <2>1. CASE x # e
    BY <2>1 DEF LinkInv, AgentSound, Working
  <2> QED
    BY <2>1
<1> QED
  BY <1>1, <1>2 DEF LinkInv

\* A transaction of the queue that the connections have no part in.
LEMMA LinkIdleStep ==
  ASSUME LinkInv, IInv', UNCHANGED linkVars, granted' = granted, LinkAssumption
  PROVE  LinkInv'
<1>1. LinkTypeOK' /\ MessagesTyped'
  BY DEF LinkInv, LinkTypeOK, MessagesTyped, AgentMessages, ServerMessages, FinishMessages,
         linkVars, IInv
<1>2. \A c \in Conns : ConnSound(c)'
  BY SameConn DEF linkVars
<1>3. \A e \in Executors : AgentSound(e)'
  BY DEF LinkInv, AgentSound, Working, linkVars
<1> QED
  BY <1>1, <1>2, <1>3 DEF LinkInv
-----------------------------------------------------------------------------
(* The steps of the link, as transactions of the queue.                    *)

\* Every step of the link is a transaction of the queue, or leaves it alone:
\* the leases in messages and in active_lease were granted.
LEMMA LinkQueueStep ==
  ASSUME LinkAssumption, LinkInv, [LinkNext]_allVars
  PROVE  [Next]_vars
<1>1. ASSUME NEW c \in Conns, tick_recover(c) \/ tick_claim(c) PROVE [Next]_vars
  BY <1>1 DEF tick_recover, tick_claim, Next, AgentStep, LinkAssumption
<1>2. ASSUME NEW e \in Executors, NEW n \in {0, 1}, heartbeat_executor(e, n) PROVE Next
  <2>1. n \in 0..MaxConcurrent[e]
    BY ConstantsAssumption
  <2> QED
    BY <1>2, <2>1 DEF Next, AgentStep
<1>3. ASSUME NEW c \in Conns, tick_heartbeat(c) PROVE [Next]_vars
  BY <1>2, <1>3 DEF tick_heartbeat, LinkAssumption
<1>4. ASSUME NEW c \in Conns, handle_message(c) PROVE [Next]_vars
  <2>1. Head(toServer[c]) \in ServerMessages
    BY <1>4, TailAt DEF handle_message, LinkInv, MessagesTyped
  <2> DEFINE m == Head(toServer[c])
  <2>2. /\ m.type = "heartbeat" => m.count \in {0, 1}
        /\ m.type = "lease_heartbeat" => m.lease \in granted
        /\ m.type = "finish" => m.lease \in granted /\ m.outcome \in {"completed", "failed"}
    BY <2>1 DEF ServerMessages, FinishMessages
  <2>3. CASE m.type = "heartbeat"
    BY <1>2, <1>4, <2>2, <2>3 DEF handle_message, LinkAssumption
  <2>4. CASE m.type = "lease_heartbeat"
    BY <1>4, <2>2, <2>4 DEF handle_message, Next, LeaseStep
  <2>5. CASE m.type = "finish"
    BY <1>4, <2>2, <2>5 DEF handle_message, Next, LeaseStep, vars
  <2> QED
    BY <1>4, <2>3, <2>4, <2>5 DEF handle_message
<1>5. ASSUME NEW c \in Conns,
             tick_heartbeat_fails(c) \/ tick_without_lease(c) \/ socket_ends(c)
      PROVE  UNCHANGED vars
  BY <1>5 DEF tick_heartbeat_fails, tick_without_lease, socket_ends
<1>6. ASSUME NEW e \in Executors,
             \/ agent_receives(e) \/ agent_heartbeat(e) \/ task_ends(e) \/ agent_finishes(e)
             \/ agent_leaves(e) \/ \E c \in Conns : connect(e, c)
      PROVE  UNCHANGED vars
  BY <1>6 DEF agent_receives, agent_heartbeat, task_ends, agent_finishes, agent_leaves, connect
<1>7. ASSUME NEW e \in Executors, NEW safe \in BOOLEAN, agent_checkpoints(e, safe) PROVE Next
  <2>1. active[e] \in granted
    BY <1>7 DEF agent_checkpoints, LinkInv, LinkTypeOK
  <2> QED
    BY <1>7, <2>1 DEF agent_checkpoints, Next, LeaseStep
<1>8. ASSUME Outside PROVE Next
  BY <1>8 DEF Outside, Next, RunStep, AgentStep
<1>9. CASE UNCHANGED allVars
  BY <1>9 DEF allVars
<1> QED
  BY <1>1, <1>3, <1>4, <1>5, <1>6, <1>7, <1>8, <1>9 DEF LinkNext, SocketStep, AgentStepOf

\* The connections start unused.
LEMMA LinkInitInv ==
  ASSUME LinkAssumption, LinkInit
  PROVE  LinkInv
<1>1. IInv
  BY QueuedIInv DEF LinkInit
<1>2. LinkTypeOK
  BY <1>1 DEF LinkInit, LinkTypeOK, LinkState, IInv, LinkAssumption
<1>3. MessagesTyped
  BY DEF LinkInit, MessagesTyped
<1>4. \A c \in Conns : ConnSound(c)
  BY DEF LinkInit, ConnSound, LeftSound, LinkAssumption
<1>5. \A e \in Executors : AgentSound(e)
  BY DEF LinkInit, AgentSound, Working
<1> QED
  BY <1>1, <1>2, <1>3, <1>4, <1>5 DEF LinkInv
-----------------------------------------------------------------------------
(* The server loop.                                                        *)

\* What the loop of c knows: without the agent it has no way to send, with
\* it nothing is in flight unless the loop has a lease.
LEMMA ServingConn ==
  ASSUME LinkAssumption, LinkInv, NEW c \in Conns, Serving(c)
  PROVE  \/ link[c] = "half_open" /\ conn[ExecutorOf[c]] # c /\ LeftSound(c)
         \/ link[c] = "open" /\ conn[ExecutorOf[c]] = c /\ OneLease(c) /\ SameLease(c)
BY DEF LinkInv, ConnSound, LeftSound, Serving

\* Leases are not None.
LEMMA LeaseNotNone ==
  ASSUME LinkAssumption, LinkInv, NEW g \in granted
  PROVE  g # NoLease /\ g.run \in Runs
BY DEF LinkAssumption, LinkInv, IInv, TypeOK, Lease

\* While the loop has no lease, nothing of one is left between it and the agent.
LEMMA NothingInFlight ==
  ASSUME LinkAssumption, LinkInv, NEW c \in Conns, link[c] = "open", current[c] = NoLease
  PROVE  /\ \A i : ~LeaseAt(c, i) /\ ~FinishAt(c, i)
         /\ ~Working(ExecutorOf[c]) /\ conn[ExecutorOf[c]] = c
<1>1. conn[ExecutorOf[c]] = c /\ SameLease(c)
  BY ServingConn DEF Serving
<1>2. ExecutorOf[c] \in Executors
  BY DEF LinkAssumption
<1>3. ASSUME NEW i, LeaseAt(c, i) PROVE FALSE
  <2>1. toAgent[c][i] \in AgentMessages /\ toAgent[c][i].type = "lease"
    BY <1>3, ElementOfSeq DEF LeaseAt, LinkInv, MessagesTyped
  <2>2. toAgent[c][i].lease \in granted
    BY <2>1 DEF AgentMessages
  <2> QED
    BY <1>1, <1>3, <2>2, LeaseNotNone DEF SameLease
<1>4. ASSUME NEW i, FinishAt(c, i) PROVE FALSE
  <2>1. toServer[c][i] \in ServerMessages /\ toServer[c][i].type = "finish"
    BY <1>4, ElementOfSeq DEF FinishAt, LinkInv, MessagesTyped
  <2>2. toServer[c][i].lease \in granted
    BY <2>1 DEF ServerMessages, FinishMessages
  <2> QED
    BY <1>1, <1>4, <2>2, LeaseNotNone DEF SameLease
<1>5. ASSUME results[ExecutorOf[c]] # <<>> PROVE FALSE
  <2>1. Head(results[ExecutorOf[c]]) \in FinishMessages
    BY <1>2, <1>5, TailAt DEF LinkInv, MessagesTyped
  <2>2. Head(results[ExecutorOf[c]]).lease \in granted
    BY <2>1 DEF FinishMessages
  <2> QED
    BY <1>1, <1>5, <2>2, LeaseNotNone DEF SameLease
<1> QED
  BY <1>1, <1>3, <1>4, <1>5 DEF SameLease, Working

\* The loop takes a lease and sends it to the agent, if that is still there.
LEMMA DispatchSound ==
  ASSUME LinkAssumption, LinkInv, NEW c \in Conns, Serving(c), current[c] = NoLease,
         granted \subseteq granted', NEW g \in granted',
         current' = [current EXCEPT ![c] = g], SendToAgent(c, LeaseMessage(g)),
         UNCHANGED <<link, toServer, agentVars>>
  PROVE  ConnSound(c)' /\ toAgent' \in [Conns -> Seq(AgentMessages')]
<1>1. current'[c] = g
  BY DEF LinkInv, LinkTypeOK
<1>2. toAgent \in [Conns -> Seq(AgentMessages')]
  BY MessagesGrow DEF LinkInv
<1>3. CASE link[c] = "half_open"
  BY <1>2, <1>3, ServingConn DEF ConnSound, LeftSound, SendToAgent, agentVars
<1>4. CASE link[c] = "open"
  <2> DEFINE e == ExecutorOf[c]
  <2>1. \A i : ~LeaseAt(c, i) /\ ~FinishAt(c, i)
    BY <1>4, NothingInFlight
  <2>2. ~Working(e) /\ conn[e] = c
    BY <1>4, NothingInFlight
  <2>3. LeaseMessage(g) \in AgentMessages'
    BY DEF AgentMessages, LeaseMessage
  <2>4. toAgent' = [toAgent EXCEPT ![c] = Append(toAgent[c], LeaseMessage(g))]
    BY <1>4 DEF SendToAgent
  <2>5. toAgent' \in [Conns -> Seq(AgentMessages')]
    BY <1>2, <2>3, <2>4, AppendAt
  <2>6. ASSUME NEW i, LeaseAt(c, i)' PROVE i = Len(toAgent[c]) + 1 /\ toAgent'[c][i].lease = g
    <3>1. toAgent'[c] = Append(toAgent[c], LeaseMessage(g)) /\ toAgent[c] \in Seq(AgentMessages')
      BY <1>2, <2>4
    <3>2. CASE i \in 1..Len(toAgent[c])
      BY <2>1, <2>3, <2>6, <3>1, <3>2, AppendAt DEF LeaseAt
    <3>3. CASE i = Len(toAgent[c]) + 1
      BY <2>3, <3>1, <3>3, AppendAt DEF LeaseMessage
    <3>4. i \in 1..Len(toAgent[c]) + 1
      BY <2>3, <2>6, <3>1, AppendAt DEF LeaseAt
    <3>5. Len(toAgent[c]) \in Nat
      BY <3>1, LenProperties
    <3> QED
      BY <3>2, <3>3, <3>4, <3>5
  <2>7. \A i : ~FinishAt(c, i)'
    BY <2>1 DEF FinishAt
  <2>8. ~Working(e)'
    BY <2>2 DEF Working, agentVars
  <2>9. OneLease(c)'
    BY <2>6, <2>7, <2>8 DEF OneLease, Working
  <2>10. SameLease(c)'
    BY <1>1, <2>6, <2>7, <2>8 DEF SameLease, Working
  <2> QED
    BY <1>4, <2>2, <2>5, <2>9, <2>10 DEF ConnSound, agentVars
<1> QED
  BY <1>3, <1>4 DEF Serving
\* A tick that sends nothing and takes no lease.
LEMMA TickKeeps ==
  ASSUME LinkAssumption, LinkInv, IInv', NEW c \in Conns, granted' = granted,
         NEW t \in {"idle", "heartbeat", "claim"}, tick' = [tick EXCEPT ![c] = t],
         UNCHANGED <<link, current, toAgent, toServer, agentVars>>
  PROVE  LinkInv'
<1>1. LinkTypeOK' /\ MessagesTyped'
  BY DEF LinkInv, LinkTypeOK, MessagesTyped, AgentMessages, ServerMessages, FinishMessages,
         agentVars, IInv
<1>2. \A d \in Conns : ConnSound(d)'
  BY SameConn DEF agentVars
<1>3. \A e \in Executors : AgentSound(e)'
  BY DEF LinkInv, AgentSound, Working, agentVars
<1> QED
  BY <1>1, <1>2, <1>3 DEF LinkInv

\* A tick that takes a lease, recovered or claimed.
LEMMA DispatchKeeps ==
  ASSUME LinkAssumption, LinkInv, IInv', NEW c \in Conns, Serving(c), current[c] = NoLease,
         granted \subseteq granted', NEW g \in granted',
         NEW t \in {"idle", "heartbeat"}, tick' = [tick EXCEPT ![c] = t],
         current' = [current EXCEPT ![c] = g], SendToAgent(c, LeaseMessage(g)),
         UNCHANGED <<link, toServer, agentVars>>
  PROVE  LinkInv'
<1> DEFINE e == ExecutorOf[c]
<1>1. e \in Executors
  BY DEF LinkAssumption
<1>2. ConnSound(c)' /\ toAgent' \in [Conns -> Seq(AgentMessages')]
  BY DispatchSound
<1>3. MessagesTyped'
  BY <1>2, MessagesGrow DEF LinkInv, MessagesTyped, agentVars
<1>4. LinkTypeOK'
  BY DEF LinkInv, LinkTypeOK, agentVars, IInv
<1>5. \A x \in Executors : AgentSound(x)'
  BY DEF LinkInv, AgentSound, Working, agentVars
<1>6. \A d \in Conns : d # c =>
        /\ link'[d] = link[d] /\ current'[d] = current[d]
        /\ toAgent'[d] = toAgent[d] /\ toServer'[d] = toServer[d]
  BY DEF LinkInv, LinkTypeOK, MessagesTyped, SendToAgent
<1> QED
  BY <1>1, <1>2, <1>3, <1>4, <1>5, <1>6, LinkLocalStep DEF agentVars

\* The first part of the tick: a live lease of the executor is one it was
\* granted.
LEMMA RecoverKeeps ==
  ASSUME LinkAssumption, LinkInv, IInv', NEW c \in Conns, tick_recover(c)
  PROVE  LinkInv'
<1> DEFINE e == ExecutorOf[c]
<1>1. /\ Serving(c) /\ tick' = [tick EXCEPT ![c] = "heartbeat"]
      /\ UNCHANGED <<link, toServer, agentVars>>
  BY DEF tick_recover
<1>2. CASE UNCHANGED <<vars, current, toAgent>>
  BY <1>1, <1>2, TickKeeps DEF vars
<1>3. ASSUME NEW r \in Runs, recover_external_run(e, r), UNCHANGED <<current, toAgent>>
      PROVE  LinkInv'
  <2>1. granted' = granted
    BY <1>3 DEF recover_external_run, EndLeases
  <2> QED
    BY <1>1, <1>3, <2>1, TickKeeps
<1>4. ASSUME NEW r \in Runs, recover_external_run(e, r), current[c] = NoLease,
             NEW g, g = [run |-> r, owner |-> e, token |-> leaseToken[r]],
             current' = [current EXCEPT ![c] = g], SendToAgent(c, LeaseMessage(g))
      PROVE  LinkInv'
  <2>1. granted' = granted
    BY <1>4 DEF recover_external_run, EndLeases
  <2>2. g \in granted
    BY <1>4 DEF recover_external_run, Recoverable, LinkInv, IInv, LeaseMatchesState
  <2> QED
    BY <1>1, <1>4, <2>1, <2>2, DispatchKeeps
<1> QED
  BY <1>2, <1>3, <1>4 DEF tick_recover

\* The third part: a fresh lease.
LEMMA LinkClaimKeeps ==
  ASSUME LinkAssumption, LinkInv, IInv', NEW c \in Conns, tick_claim(c)
  PROVE  LinkInv'
<1> DEFINE e == ExecutorOf[c]
<1>1. /\ Serving(c) /\ tick' = [tick EXCEPT ![c] = "idle"]
      /\ UNCHANGED <<link, toServer, agentVars>>
  BY DEF tick_claim
<1>2. CASE UNCHANGED <<vars, current, toAgent>>
  BY <1>1, <1>2, TickKeeps DEF vars
<1>3. ASSUME NEW r \in Runs, claim_external_run(e, r), current[c] = NoLease,
             NEW g \in granted' \ granted,
             current' = [current EXCEPT ![c] = g], SendToAgent(c, LeaseMessage(g))
      PROVE  LinkInv'
  <2>1. granted \subseteq granted'
    BY <1>3 DEF claim_external_run, GrantLease
  <2> QED
    BY <1>1, <1>3, <2>1, DispatchKeeps
<1> QED
  BY <1>2, <1>3 DEF tick_claim

\* The other parts of a tick; the error message is no lease.
LEMMA HeartbeatTickKeeps ==
  ASSUME LinkAssumption, LinkInv, IInv', NEW c \in Conns,
         tick_heartbeat(c) \/ tick_heartbeat_fails(c) \/ tick_without_lease(c)
  PROVE  LinkInv'
<1>1. CASE tick_heartbeat(c)
  BY <1>1, TickKeeps DEF tick_heartbeat, heartbeat_executor, leaseVars
<1>2. CASE tick_without_lease(c)
  <2>1. \E t \in {"idle", "heartbeat"} : tick' = [tick EXCEPT ![c] = t]
    BY <1>2 DEF tick_without_lease
  <2> QED
    BY <1>2, <2>1, TickKeeps DEF tick_without_lease, vars
<1>3. CASE tick_heartbeat_fails(c) /\ toAgent' = toAgent
  BY <1>3, TickKeeps DEF tick_heartbeat_fails, vars
<1>4. CASE tick_heartbeat_fails(c) /\ toAgent' # toAgent
  <2> DEFINE e == ExecutorOf[c]
             m == ErrorMessage(current[c].run)
  <2>1. /\ toAgent' = [toAgent EXCEPT ![c] = Append(toAgent[c], m)] /\ link[c] = "open"
        /\ current[c] # NoLease /\ tick' = [tick EXCEPT ![c] = "idle"]
        /\ UNCHANGED <<vars, link, current, toServer, conn, active, results>>
    BY <1>4 DEF tick_heartbeat_fails, SendToAgent, agentVars
  <2>2. m \in AgentMessages /\ m.type = "error"
    <3>1. current[c].run \in Runs
      BY <2>1, LeaseNotNone DEF LinkInv, LinkTypeOK
    <3> QED
      BY <3>1 DEF AgentMessages, ErrorMessage
  <2>3. /\ toAgent[c] \in Seq(AgentMessages) /\ toAgent'[c] = Append(toAgent[c], m)
        /\ toAgent' \in [Conns -> Seq(AgentMessages)]
    BY <2>1, <2>2, AppendAt DEF LinkInv, MessagesTyped
  <2>4. ASSUME NEW i PROVE /\ LeaseAt(c, i)' => LeaseAt(c, i) /\ toAgent'[c][i] = toAgent[c][i]
                           /\ FinishAt(c, i)' <=> FinishAt(c, i)
    <3>1. CASE i \in 1..Len(toAgent[c])
      BY <2>1, <2>2, <2>3, <3>1, AppendAt DEF LeaseAt, FinishAt
    <3>2. CASE i = Len(toAgent[c]) + 1
      BY <2>1, <2>2, <2>3, <3>2, AppendAt DEF LeaseAt, FinishAt
    <3>3. LeaseAt(c, i)' => i \in 1..Len(toAgent[c]) + 1
      BY <2>2, <2>3, AppendAt DEF LeaseAt
    <3>4. Len(toAgent[c]) \in Nat
      BY <2>3, LenProperties
    <3> QED
      BY <2>1, <3>1, <3>2, <3>3, <3>4 DEF FinishAt
  <2>5. conn[e] = c /\ OneLease(c) /\ SameLease(c) /\ e \in Executors
    BY <2>1, ServingConn DEF Serving, LinkAssumption
  <2>6. OneLease(c)' /\ SameLease(c)'
    BY <2>1, <2>4, <2>5 DEF OneLease, SameLease, Working
  <2>7. ConnSound(c)'
    BY <2>1, <2>5, <2>6 DEF ConnSound
  <2>8. LinkTypeOK' /\ MessagesTyped'
    BY <2>1, <2>3 DEF LinkInv, LinkTypeOK, MessagesTyped, AgentMessages, ServerMessages,
                      FinishMessages, IInv, vars
  <2>9. \A d \in Conns : d # c => toAgent'[d] = toAgent[d]
    BY <2>1 DEF LinkInv, MessagesTyped
  <2>10. AgentSound(e)'
    BY <2>1, <2>5 DEF LinkInv, AgentSound, Working
  <2> QED
    BY <2>1, <2>5, <2>7, <2>8, <2>9, <2>10, LinkLocalStep
<1> QED
  BY <1>1, <1>2, <1>3, <1>4

\* A message is handled.  A result ends the lease it belongs to, and it was
\* the only sign of it on the connection.
LEMMA HandleKeeps ==
  ASSUME LinkAssumption, LinkInv, IInv', NEW c \in Conns, handle_message(c)
  PROVE  LinkInv'
<1> DEFINE e == ExecutorOf[c]
           m == Head(toServer[c])
<1>1. /\ Serving(c) /\ toServer[c] # <<>> /\ toServer' = [toServer EXCEPT ![c] = Tail(toServer[c])]
      /\ UNCHANGED <<link, tick, toAgent, conn, active, results>>
      /\ \/ UNCHANGED current
         \/ m.type = "finish" /\ current' = [current EXCEPT ![c] = NoLease]
  BY DEF handle_message, agentVars
<1>2. granted' = granted
  BY DEF handle_message, heartbeat_executor, renew_lease, finish_leased_run, EndLeases,
         leaseVars, vars
<1>3. /\ toServer[c] \in Seq(ServerMessages) /\ toServer'[c] = Tail(toServer[c])
      /\ toServer' \in [Conns -> Seq(ServerMessages)]
  BY <1>1, TailAt DEF LinkInv, MessagesTyped
<1>4. Len(toServer'[c]) < Len(toServer[c]) /\ Len(toServer[c]) <= MaxInFlight + 1
      /\ Len(toServer[c]) \in Nat /\ Len(toServer'[c]) \in Nat
  BY <1>1, <1>3, TailAt DEF LinkInv, LinkTypeOK
<1>5. LinkTypeOK'
  <2>1. \A d \in Conns : Len(toServer'[d]) <= MaxInFlight + 1
    BY <1>1, <1>4 DEF LinkInv, LinkTypeOK, MessagesTyped, LinkAssumption
  <2> QED
    BY <1>1, <1>2, <2>1 DEF LinkInv, LinkTypeOK, IInv
<1>6. MessagesTyped'
  BY <1>1, <1>2, <1>3 DEF LinkInv, MessagesTyped, AgentMessages, ServerMessages, FinishMessages
<1>7. ConnSound(c)'
  <2>1. CASE link[c] = "half_open"
    BY <1>1, <2>1, ServingConn DEF ConnSound, LeftSound
  <2>2. CASE link[c] = "open"
    <3>1. conn[e] = c /\ OneLease(c) /\ SameLease(c)
      BY <1>1, <2>2, ServingConn
    <3>2. ASSUME NEW i PROVE FinishAt(c, i)' => /\ FinishAt(c, i + 1) /\ i \in Nat \ {0}
                                                /\ toServer'[c][i] = toServer[c][i + 1]
      BY <1>1, <1>3, TailAt DEF FinishAt
    <3>3. m.type = "finish" => FinishAt(c, 1)
      BY <1>1, <1>3, <1>4, TailAt DEF FinishAt
    <3>4. m.type = "finish" => /\ \A i : ~LeaseAt(c, i) /\ ~FinishAt(c, i)'
                               /\ ~Working(e)
      BY <3>1, <3>2, <3>3 DEF OneLease
    <3>5. \A i : LeaseAt(c, i)' <=> LeaseAt(c, i)
      BY <1>1 DEF LeaseAt
    <3>6. OneLease(c)'
      <4>1. \A i, j : FinishAt(c, i)' /\ FinishAt(c, j)' => i = j
        BY <3>1, <3>2 DEF OneLease
      <4> QED
        BY <1>1, <3>1, <3>2, <3>5, <4>1 DEF OneLease, Working
    <3>7. SameLease(c)'
      <4>1. CASE UNCHANGED current
        <5>1. \A i : FinishAt(c, i)' => current'[c] = toServer'[c][i].lease
          BY <3>1, <3>2, <4>1 DEF SameLease
        <5> QED
          BY <1>1, <3>1, <3>5, <4>1, <5>1 DEF SameLease
      <4>2. CASE m.type = "finish"
        BY <1>1, <3>4, <3>5, <4>2 DEF SameLease, Working
      <4> QED
        BY <1>1, <4>1, <4>2
    <3> QED
      BY <1>1, <2>2, <3>1, <3>6, <3>7 DEF ConnSound
  <2> QED
    BY <1>1, <2>1, <2>2 DEF Serving
<1>8. \A d \in Conns : d # c => toServer'[d] = toServer[d] /\ current'[d] = current[d]
  BY <1>1 DEF LinkInv, LinkTypeOK, MessagesTyped
<1>9. e \in Executors /\ AgentSound(e)'
  BY <1>1 DEF LinkInv, AgentSound, Working, LinkAssumption
<1> QED
  BY <1>1, <1>5, <1>6, <1>7, <1>8, <1>9, LinkLocalStep

\* The loop ends and its lease with it.
LEMMA SocketEndKeeps ==
  ASSUME LinkAssumption, LinkInv, IInv', NEW c \in Conns, socket_ends(c)
  PROVE  LinkInv'
<1> DEFINE e == ExecutorOf[c]
<1>1. /\ Serving(c) /\ tick' = [tick EXCEPT ![c] = "idle"]
      /\ link' = [link EXCEPT ![c] = IF link[c] = "open" THEN "server_closed" ELSE "unused"]
      /\ current' = [current EXCEPT ![c] = NoLease]
      /\ toServer' = [toServer EXCEPT ![c] = <<>>]
      /\ UNCHANGED <<vars, toAgent, conn, active, results>>
  BY DEF socket_ends, agentVars
<1>2. toServer' \in [Conns -> Seq(ServerMessages)] /\ toServer'[c] = <<>> /\ current'[c] = NoLease
  BY <1>1 DEF LinkInv, LinkTypeOK, MessagesTyped
<1>3. LinkTypeOK'
  <2>1. \A d \in Conns : Len(toServer'[d]) <= MaxInFlight + 1
    BY <1>1 DEF LinkInv, LinkTypeOK, MessagesTyped, LinkAssumption
  <2> QED
    BY <1>1, <2>1 DEF LinkInv, LinkTypeOK, LinkState, IInv, vars
<1>4. MessagesTyped'
  BY <1>1, <1>2 DEF LinkInv, MessagesTyped, AgentMessages, ServerMessages, FinishMessages, vars
<1>5. ConnSound(c)'
  <2>1. CASE link[c] = "half_open"
    <3>1. link'[c] = "unused" /\ conn[e] # c /\ LeftSound(c)
      BY <1>1, <2>1, ServingConn DEF LinkInv, LinkTypeOK
    <3> QED
      BY <1>1, <1>2, <3>1 DEF ConnSound, LeftSound
  <2>2. CASE link[c] = "open"
    <3>1. link'[c] = "server_closed" /\ conn[e] = c /\ OneLease(c)
      BY <1>1, <2>2, ServingConn DEF LinkInv, LinkTypeOK
    <3>2. \A i : ~FinishAt(c, i)' /\ (LeaseAt(c, i)' <=> LeaseAt(c, i))
      BY <1>1, <1>2 DEF FinishAt, LeaseAt
    <3>3. OneLease(c)'
      BY <1>1, <3>1, <3>2 DEF OneLease, Working
    <3> QED
      BY <1>1, <1>2, <3>1, <3>3 DEF ConnSound
  <2> QED
    BY <1>1, <2>1, <2>2 DEF Serving
<1>6. \A d \in Conns : d # c =>
        link'[d] = link[d] /\ toServer'[d] = toServer[d] /\ current'[d] = current[d]
  BY <1>1 DEF LinkInv, LinkTypeOK, MessagesTyped
<1>7. e \in Executors /\ AgentSound(e)'
  BY <1>1 DEF LinkInv, AgentSound, Working, LinkAssumption
<1> QED
  BY <1>1, <1>3, <1>4, <1>5, <1>6, <1>7, LinkLocalStep
-----------------------------------------------------------------------------
(* The agent.                                                              *)

\* The agent takes a free connection; nothing of its last one is left.
LEMMA ConnectKeeps ==
  ASSUME LinkAssumption, LinkInv, IInv', NEW e \in Executors, NEW c \in Conns, connect(e, c)
  PROVE  LinkInv'
<1>1. /\ conn[e] = NoConn /\ link[c] = "unused" /\ ExecutorOf[c] = e
      /\ link' = [link EXCEPT ![c] = "open"] /\ conn' = [conn EXCEPT ![e] = c]
      /\ UNCHANGED <<vars, tick, current, toAgent, toServer, active, results>>
  BY DEF connect
<1>2. /\ ~Working(e) /\ toAgent[c] = <<>> /\ toServer[c] = <<>>
      /\ link'[c] = "open" /\ conn'[e] = c
  BY <1>1 DEF LinkInv, LinkTypeOK, AgentSound, ConnSound, LeftSound, LinkAssumption
<1>3. LinkTypeOK' /\ MessagesTyped'
  BY <1>1 DEF LinkInv, LinkTypeOK, LinkState, MessagesTyped, AgentMessages, ServerMessages,
              FinishMessages, IInv, vars
<1>4. \A i : ~LeaseAt(c, i)' /\ ~FinishAt(c, i)'
  BY <1>1, <1>2 DEF LeaseAt, FinishAt
<1>5. OneLease(c)' /\ SameLease(c)'
  BY <1>1, <1>2, <1>4 DEF OneLease, SameLease, Working
<1>6. ConnSound(c)'
  BY <1>1, <1>2, <1>5 DEF ConnSound
<1>7. \A d \in Conns : d # c => link'[d] = link[d]
  BY <1>1 DEF LinkInv, LinkTypeOK
<1>8. \A x \in Executors : x # e => conn'[x] = conn[x]
  BY <1>1 DEF LinkInv, LinkTypeOK
<1>9. AgentSound(e)'
  BY <1>1, <1>2 DEF AgentSound, LinkAssumption
<1> QED
  BY <1>1, <1>2, <1>3, <1>6, <1>7, <1>8, <1>9, LinkLocalStep

\* The agent's own connection.
LEMMA AgentConn ==
  ASSUME LinkAssumption, LinkInv, NEW e \in Executors, conn[e] # NoConn
  PROVE  /\ conn[e] \in Conns /\ ExecutorOf[conn[e]] = e
         /\ OneLease(conn[e])
         /\ \/ link[conn[e]] = "open" /\ SameLease(conn[e])
            \/ link[conn[e]] = "server_closed" /\ toServer[conn[e]] = <<>> /\ current[conn[e]] = NoLease
<1>1. conn[e] \in Conns /\ ExecutorOf[conn[e]] = e
  BY DEF LinkInv, LinkTypeOK, AgentSound
<1> QED
  BY <1>1 DEF LinkInv, ConnSound

\* A working agent is connected.
LEMMA WorkingConnected ==
  ASSUME LinkInv, NEW e \in Executors, active[e] # NoLease
  PROVE  conn[e] # NoConn
BY DEF LinkInv, AgentSound, Working

\* The agent leaves; the server loop may go on alone.
LEMMA LeaveKeeps ==
  ASSUME LinkAssumption, LinkInv, IInv', NEW e \in Executors, agent_leaves(e)
  PROVE  LinkInv'
<1>1. PICK c \in Conns : c = conn[e]
  BY AgentConn DEF agent_leaves
<1>2. /\ conn[e] # NoConn
      /\ link' = [link EXCEPT ![c] = IF link[c] = "open" THEN "half_open" ELSE "unused"]
      /\ conn' = [conn EXCEPT ![e] = NoConn]
      /\ active' = [active EXCEPT ![e] = NoLease]
      /\ results' = [results EXCEPT ![e] = <<>>]
      /\ toAgent' = [toAgent EXCEPT ![c] = <<>>]
      /\ UNCHANGED <<vars, tick, current, toServer>>
  BY <1>1 DEF agent_leaves
<1>3. /\ ExecutorOf[c] = e
      /\ link[c] = "open" \/ (link[c] = "server_closed" /\ toServer[c] = <<>> /\ current[c] = NoLease)
  BY <1>1, <1>2, AgentConn
<1>4. /\ toAgent' \in [Conns -> Seq(AgentMessages)] /\ toAgent'[c] = <<>>
      /\ results' \in [Executors -> Seq(FinishMessages)] /\ results'[e] = <<>>
      /\ active'[e] = NoLease /\ conn'[e] = NoConn
  BY <1>2 DEF LinkInv, LinkTypeOK, MessagesTyped
<1>5. LinkTypeOK'
  <2>1. \A x \in Executors : Len(results'[x]) <= 1
    BY <1>2 DEF LinkInv, LinkTypeOK, MessagesTyped
  <2> QED
    BY <1>2, <2>1 DEF LinkInv, LinkTypeOK, LinkState, IInv, vars
<1>6. MessagesTyped'
  BY <1>2, <1>4 DEF LinkInv, MessagesTyped, AgentMessages, ServerMessages, FinishMessages, vars
<1>7. ConnSound(c)'
  <2>1. link'[c] = IF link[c] = "open" THEN "half_open" ELSE "unused"
    BY <1>2 DEF LinkInv, LinkTypeOK
  <2>2. LeftSound(c)'
    BY <1>2, <1>3, <1>4, <2>1 DEF LeftSound
  <2>3. conn'[ExecutorOf[c]] # c
    BY <1>3, <1>4 DEF LinkAssumption
  <2> QED
    BY <2>2, <2>3 DEF ConnSound
<1>8. \A d \in Conns : d # c => link'[d] = link[d] /\ toAgent'[d] = toAgent[d]
  BY <1>2 DEF LinkInv, LinkTypeOK, MessagesTyped
<1>9. \A x \in Executors : x # e =>
        conn'[x] = conn[x] /\ active'[x] = active[x] /\ results'[x] = results[x]
  BY <1>2 DEF LinkInv, LinkTypeOK, MessagesTyped
<1>10. AgentSound(e)'
  BY <1>4 DEF AgentSound, Working
<1> QED
  BY <1>1, <1>2, <1>3, <1>4, <1>5, <1>6, <1>7, <1>8, <1>9, <1>10, LinkLocalStep

\* A lease starts the task of an agent without work, and it was the only
\* lease on the connection; an error may abort the task.
LEMMA ReceiveLinkKeeps ==
  ASSUME LinkAssumption, LinkInv, IInv', NEW e \in Executors, agent_receives(e)
  PROVE  LinkInv'
<1>1. CASE agent_leaves(e)
  BY <1>1, LeaveKeeps
<1>2. CASE ~agent_leaves(e)
  <2>1. PICK c \in Conns : c = conn[e]
    BY AgentConn DEF agent_receives
  <2> DEFINE m == Head(toAgent[c])
  <2>2. /\ conn[e] # NoConn /\ toAgent[c] # <<>>
        /\ ~(m.type = "lease" /\ active[e] # NoLease)
        /\ active' = [active EXCEPT ![e] =
             CASE m.type = "lease" -> m.lease
               [] m.type = "error" /\ @ # NoLease -> IF @.run = m.run THEN NoLease ELSE @
               [] OTHER -> @]
        /\ toAgent' = [toAgent EXCEPT ![c] = Tail(toAgent[c])]
        /\ UNCHANGED <<vars, link, tick, current, toServer, conn, results>>
    BY <1>2, <2>1 DEF agent_receives, socketVars
  <2>3. /\ ExecutorOf[c] = e /\ OneLease(c)
        /\ (link[c] = "open" /\ SameLease(c)) \/ link[c] = "server_closed"
        /\ link[c] = "server_closed" => toServer[c] = <<>> /\ current[c] = NoLease
    BY <2>1, <2>2, AgentConn
  <2>4. /\ toAgent[c] \in Seq(AgentMessages) /\ toAgent'[c] = Tail(toAgent[c])
        /\ m \in AgentMessages /\ m = toAgent[c][1] /\ Len(toAgent[c]) \in Nat \ {0}
    BY <2>2, TailAt DEF LinkInv, MessagesTyped
  <2>5. toAgent' \in [Conns -> Seq(AgentMessages)]
    BY <2>2, <2>4, TailAt DEF LinkInv, MessagesTyped
  <2>6. /\ m.type = "lease" => /\ m.lease \in granted /\ active[e] = NoLease
                               /\ active'[e] = m.lease
        /\ m.type # "lease" => active'[e] \in {active[e], NoLease}
    BY <2>2, <2>4 DEF AgentMessages, LinkInv, LinkTypeOK
  <2>7. active' \in [Executors -> granted \cup {NoLease}]
    <3>1. active'[e] \in granted \cup {NoLease}
      BY <2>6 DEF LinkInv, LinkTypeOK
    <3> QED
      BY <2>2, <3>1 DEF LinkInv, LinkTypeOK
  <2>8. LinkTypeOK' /\ MessagesTyped'
    BY <2>2, <2>5, <2>7 DEF LinkInv, LinkTypeOK, MessagesTyped, AgentMessages, ServerMessages,
                            FinishMessages, IInv, vars
  <2>9. ASSUME NEW i PROVE /\ LeaseAt(c, i)' => /\ LeaseAt(c, i + 1) /\ i \in Nat \ {0}
                                                /\ toAgent'[c][i] = toAgent[c][i + 1]
                           /\ FinishAt(c, i)' <=> FinishAt(c, i)
    <3>1. FinishAt(c, i)' <=> FinishAt(c, i)
      BY <2>2 DEF FinishAt
    <3>2. LeaseAt(c, i)' => /\ LeaseAt(c, i + 1) /\ i \in Nat \ {0}
                            /\ toAgent'[c][i] = toAgent[c][i + 1]
      <4>1. toAgent[c] \in Seq(AgentMessages) /\ toAgent[c] # <<>> /\ toAgent'[c] = Tail(toAgent[c])
        BY <2>2, <2>4
      <4> QED
        BY <4>1, TailAt DEF LeaseAt
    <3> QED
      BY <3>1, <3>2
  <2>10. m.type = "lease" => LeaseAt(c, 1)
    BY <2>4 DEF LeaseAt
  <2>11. ConnSound(c)'
    <3>1. CASE m.type = "lease"
      <4>1. /\ \A i : ~LeaseAt(c, i)' /\ ~FinishAt(c, i)'
            /\ results[e] = <<>>
        BY <2>3, <2>9, <2>10, <3>1 DEF OneLease, Working
      <4>2. SameLease(c) => current[c] = m.lease
        BY <2>4, <2>10, <3>1 DEF SameLease
      <4>3. OneLease(c)'
        BY <2>2, <2>3, <4>1 DEF OneLease, Working
      <4>4. SameLease(c) => SameLease(c)'
        BY <2>2, <2>3, <2>6, <3>1, <4>1, <4>2 DEF SameLease
      <4> QED
        BY <2>1, <2>2, <2>3, <4>3, <4>4 DEF ConnSound
    <3>2. CASE m.type # "lease"
      <4>1. active'[e] \in {active[e], NoLease} /\ (Working(e)' => Working(e))
        BY <2>2, <2>6, <3>2 DEF Working
      <4>2. \A i, j : LeaseAt(c, i)' /\ LeaseAt(c, j)' => i = j
        BY <2>3, <2>9 DEF OneLease
      <4>3. OneLease(c)'
        BY <2>2, <2>3, <2>9, <4>1, <4>2 DEF OneLease
      <4>4. SameLease(c) => \A i : LeaseAt(c, i)' => current[c] = toAgent'[c][i].lease
        BY <2>9 DEF SameLease
      <4>5. SameLease(c) => SameLease(c)'
        BY <2>2, <2>3, <2>9, <4>1, <4>4 DEF SameLease
      <4> QED
        BY <2>1, <2>2, <2>3, <4>3, <4>5 DEF ConnSound
    <3> QED
      BY <3>1, <3>2
  <2>12. \A d \in Conns : d # c => toAgent'[d] = toAgent[d]
    BY <2>2 DEF LinkInv, MessagesTyped
  <2>13. \A x \in Executors : x # e => active'[x] = active[x]
    BY <2>2 DEF LinkInv, LinkTypeOK
  <2>14. AgentSound(e)'
    BY <2>1, <2>2, <2>3 DEF AgentSound
  <2> QED
    BY <2>1, <2>2, <2>3, <2>8, <2>11, <2>12, <2>13, <2>14, LinkLocalStep
<1> QED
  BY <1>1, <1>2
\* What the agent sends arrives behind what is on its way already, if the
\* server loop is still there.
LEMMA SendAt ==
  ASSUME LinkInv, NEW c \in Conns, NEW ms \in Seq(ServerMessages), Len(ms) \in {1, 2},
         LinkAssumption, SendToServer(c, ms)
  PROVE  /\ toServer' \in [Conns -> Seq(ServerMessages)]
         /\ \A d \in Conns : Len(toServer'[d]) <= MaxInFlight + 1
         /\ \A d \in Conns : d # c => toServer'[d] = toServer[d]
         /\ link[c] # "open" => toServer'[c] = toServer[c]
         /\ link[c] = "open" => toServer'[c] = toServer[c] \o ms
<1>1. /\ toServer \in [Conns -> Seq(ServerMessages)] /\ Len(toServer[c]) < MaxInFlight
      /\ toServer' = IF link[c] = "open" THEN [toServer EXCEPT ![c] = toServer[c] \o ms] ELSE toServer
  BY DEF SendToServer, LinkInv, MessagesTyped
<1>2. /\ toServer[c] \o ms \in Seq(ServerMessages)
      /\ Len(toServer[c] \o ms) <= MaxInFlight + 1
  BY <1>1, ConcatProperties, LenProperties DEF LinkAssumption
<1>3. \A d \in Conns : Len(toServer[d]) <= MaxInFlight + 1
  BY DEF LinkInv, LinkTypeOK
<1> QED
  BY <1>1, <1>2, <1>3

\* The heartbeats carry no result.
LEMMA AgentHeartbeatKeeps ==
  ASSUME LinkAssumption, LinkInv, IInv', NEW e \in Executors, agent_heartbeat(e)
  PROVE  LinkInv'
<1>1. PICK c \in Conns : c = conn[e]
  BY AgentConn DEF agent_heartbeat
<1>2. /\ conn[e] # NoConn
      /\ UNCHANGED <<vars, link, tick, current, toAgent, conn, active, results>>
  BY <1>1 DEF agent_heartbeat, socketVars, agentVars
<1>3. /\ ExecutorOf[c] = e /\ OneLease(c)
      /\ (link[c] = "open" /\ SameLease(c)) \/ link[c] = "server_closed"
      /\ link[c] = "server_closed" => toServer[c] = <<>> /\ current[c] = NoLease
  BY <1>1, <1>2, AgentConn
<1>4. PICK ms : /\ ms \in Seq(ServerMessages) /\ Len(ms) \in {1, 2} /\ SendToServer(c, ms)
                /\ \A i \in 1..Len(ms) : ms[i].type # "finish"
  <2>1. CASE active[e] = NoLease
    <3> DEFINE h == [type |-> "heartbeat", count |-> 0]
    <3>1. h \in ServerMessages
      BY DEF ServerMessages
    <3> DEFINE hs == <<h>>
    <3>2. SendToServer(c, hs)
      BY <1>1, <2>1 DEF agent_heartbeat
    <3>3. hs \in Seq(ServerMessages) /\ Len(hs) = 1 /\ hs[1].type # "finish"
      BY <3>1
    <3>4. Len(hs) \in {1, 2} /\ \A i \in 1..Len(hs) : hs[i].type # "finish"
      BY <3>3
    <3> HIDE DEF hs
    <3> QED
      BY <3>2, <3>3, <3>4
  <2>2. CASE active[e] # NoLease
    <3> DEFINE h == [type |-> "heartbeat", count |-> 1]
               k == [type |-> "lease_heartbeat", lease |-> active[e]]
    <3>1. active[e] \in granted
      BY <2>2 DEF LinkInv, LinkTypeOK
    <3>2. h \in ServerMessages /\ k \in ServerMessages
      BY <3>1 DEF ServerMessages
    <3> DEFINE hs == <<h, k>>
    <3>3. SendToServer(c, hs)
      BY <1>1, <2>2 DEF agent_heartbeat
    <3>4. hs \in Seq(ServerMessages) /\ Len(hs) = 2 /\ hs[1].type # "finish" /\ hs[2].type # "finish"
      BY <3>2
    <3>5. Len(hs) \in {1, 2} /\ \A i \in 1..Len(hs) : hs[i].type # "finish"
      BY <3>4
    <3> HIDE DEF hs
    <3> QED
      BY <3>3, <3>4, <3>5
  <2> QED
    BY <2>1, <2>2
<1>5. /\ toServer' \in [Conns -> Seq(ServerMessages)]
      /\ \A d \in Conns : Len(toServer'[d]) <= MaxInFlight + 1
      /\ \A d \in Conns : d # c => toServer'[d] = toServer[d]
      /\ link[c] # "open" => toServer'[c] = toServer[c]
      /\ link[c] = "open" => toServer'[c] = toServer[c] \o ms
  BY <1>4, SendAt
<1>6. LinkTypeOK' /\ MessagesTyped'
  BY <1>2, <1>5 DEF LinkInv, LinkTypeOK, MessagesTyped, AgentMessages, ServerMessages,
                    FinishMessages, IInv, vars
<1>7. ASSUME NEW i PROVE FinishAt(c, i)' => FinishAt(c, i) /\ toServer'[c][i] = toServer[c][i]
  <2>1. toServer[c] \in Seq(ServerMessages) /\ Len(toServer[c]) \in Nat /\ Len(ms) \in Nat
    BY <1>4, LenProperties DEF LinkInv, MessagesTyped
  <2>2. CASE link[c] = "open" /\ i \in 1..Len(toServer[c])
    BY <1>4, <1>5, <2>1, <2>2, ConcatProperties DEF FinishAt
  <2>3. CASE link[c] = "open" /\ i \notin 1..Len(toServer[c]) /\ FinishAt(c, i)'
    <3>1. i \in 1..(Len(toServer[c]) + Len(ms)) /\ toServer'[c][i].type = "finish"
          /\ toServer'[c] = toServer[c] \o ms
      BY <1>4, <1>5, <2>1, <2>3, ConcatProperties DEF FinishAt
    <3>2. i - Len(toServer[c]) \in 1..Len(ms)
      BY <2>1, <2>3, <3>1
    <3>3. toServer'[c][i] = ms[i - Len(toServer[c])]
      BY <1>4, <2>1, <2>3, <3>1, ConcatProperties
    <3> QED
      BY <1>4, <3>1, <3>2, <3>3
  <2>4. CASE link[c] # "open"
    BY <1>5, <2>4 DEF FinishAt
  <2> QED
    BY <2>2, <2>3, <2>4
<1>8. ConnSound(c)'
  <2>1. \A i : LeaseAt(c, i)' <=> LeaseAt(c, i)
    BY <1>2 DEF LeaseAt
  <2>2. OneLease(c)'
    BY <1>2, <1>3, <1>7, <2>1 DEF OneLease, Working
  <2>3. SameLease(c) => SameLease(c)'
    <3>1. SameLease(c) => \A i : FinishAt(c, i)' => current[c] = toServer'[c][i].lease
      BY <1>7 DEF SameLease
    <3> QED
      BY <1>2, <2>1, <3>1 DEF SameLease
  <2> QED
    BY <1>1, <1>2, <1>3, <1>5, <2>2, <2>3 DEF ConnSound
<1>9. AgentSound(e)'
  BY <1>1, <1>2, <1>3 DEF AgentSound
<1> QED
  BY <1>1, <1>2, <1>3, <1>5, <1>6, <1>8, <1>9, LinkLocalStep

\* A task leaves the result of the lease it worked on.
LEMMA TaskEndKeeps ==
  ASSUME LinkAssumption, LinkInv, IInv', NEW e \in Executors, task_ends(e)
  PROVE  LinkInv'
<1>1. conn[e] # NoConn
  BY WorkingConnected DEF task_ends
<1>2. PICK c \in Conns : c = conn[e]
  BY <1>1, AgentConn
<1>3. PICK outcome \in Outcomes :
        results' = [results EXCEPT ![e] =
          Append(results[e], [type |-> "finish", lease |-> active[e], outcome |-> outcome])]
  BY DEF task_ends
<1> DEFINE f == [type |-> "finish", lease |-> active[e], outcome |-> outcome]
<1>4. /\ active[e] # NoLease /\ results[e] = <<>>
      /\ UNCHANGED <<vars, link, tick, current, toAgent, toServer, conn, active>>
  BY DEF task_ends, socketVars
<1>5. f \in FinishMessages
  BY <1>4 DEF FinishMessages, LinkInv, LinkTypeOK, LinkAssumption
<1>6. results'[e] = <<f>> /\ results' = [results EXCEPT ![e] = <<f>>]
  <2>1. Append(<<>>, f) = <<f>>
    OBVIOUS
  <2> QED
    BY <1>3, <1>4, <2>1 DEF LinkInv, MessagesTyped
<1>7. <<f>> \in Seq(FinishMessages) /\ Len(<<f>>) = 1 /\ Head(<<f>>) = f /\ <<f>> # <<>>
  BY <1>5
<1>8. LinkTypeOK'
  <2>1. \A x \in Executors : Len(results'[x]) <= 1
    BY <1>6, <1>7 DEF LinkInv, LinkTypeOK, MessagesTyped
  <2> QED
    BY <1>4, <2>1 DEF LinkInv, LinkTypeOK, IInv, vars
<1>9. MessagesTyped'
  <2>1. results' \in [Executors -> Seq(FinishMessages)]
    BY <1>6, <1>7 DEF LinkInv, MessagesTyped
  <2> QED
    BY <1>4, <2>1 DEF LinkInv, MessagesTyped, AgentMessages, ServerMessages, FinishMessages, vars
<1>10. /\ ExecutorOf[c] = e /\ OneLease(c)
       /\ (link[c] = "open" /\ SameLease(c)) \/ link[c] = "server_closed"
       /\ link[c] = "server_closed" => toServer[c] = <<>> /\ current[c] = NoLease
  BY <1>1, <1>2, AgentConn
<1>11. ConnSound(c)'
  <2>1. \A i : (LeaseAt(c, i)' <=> LeaseAt(c, i)) /\ (FinishAt(c, i)' <=> FinishAt(c, i))
    BY <1>4 DEF LeaseAt, FinishAt
  <2>2. Working(e)
    BY <1>4 DEF Working
  <2>3. Head(results'[e]).lease = active[e]
    BY <1>6, <1>7
  <2>4. OneLease(c)'
    BY <1>4, <1>10, <2>1, <2>2, <2>3 DEF OneLease
  <2>5. SameLease(c) => SameLease(c)'
    BY <1>4, <1>10, <2>1, <2>3 DEF SameLease
  <2> QED
    BY <1>2, <1>4, <1>10, <2>4, <2>5 DEF ConnSound
<1>12. \A x \in Executors : x # e => results'[x] = results[x]
  BY <1>6 DEF LinkInv, MessagesTyped
<1>13. AgentSound(e)'
  BY <1>1, <1>2, <1>4, <1>10 DEF AgentSound
<1> QED
  BY <1>1, <1>2, <1>4, <1>8, <1>9, <1>10, <1>11, <1>12, <1>13, LinkLocalStep

\* The result is sent and the agent is without work again.
LEMMA FinishKeeps ==
  ASSUME LinkAssumption, LinkInv, IInv', NEW e \in Executors, agent_finishes(e)
  PROVE  LinkInv'
<1>1. conn[e] # NoConn
  BY WorkingConnected DEF agent_finishes
<1>2. PICK c \in Conns : c = conn[e]
  BY <1>1, AgentConn
<1> DEFINE f == Head(results[e])
<1>3. /\ active[e] # NoLease /\ results[e] # <<>> /\ SendToServer(c, <<f>>)
      /\ active' = [active EXCEPT ![e] = NoLease]
      /\ results' = [results EXCEPT ![e] = Tail(results[e])]
      /\ UNCHANGED <<vars, link, tick, current, toAgent, conn>>
  BY <1>2 DEF agent_finishes, socketVars
<1>4. results[e] \in Seq(FinishMessages) /\ Len(results[e]) <= 1
  BY DEF LinkInv, MessagesTyped, LinkTypeOK
<1>5. f \in FinishMessages /\ Tail(results[e]) \in Seq(FinishMessages) /\ Len(Tail(results[e])) = 0
  BY <1>3, <1>4, TailAt
<1>6. /\ results' = [results EXCEPT ![e] = <<>>] /\ results'[e] = <<>> /\ active'[e] = NoLease
  <2>1. Tail(results[e]) = <<>>
    BY <1>5, EmptySeq
  <2> QED
    BY <1>3, <2>1 DEF LinkInv, MessagesTyped, LinkTypeOK
<1>7. f.type = "finish" /\ f \in ServerMessages
  BY <1>5 DEF FinishMessages, ServerMessages
<1>8. <<f>> \in Seq(ServerMessages) /\ Len(<<f>>) = 1 /\ <<f>>[1] = f
  BY <1>7
<1>9. /\ toServer' \in [Conns -> Seq(ServerMessages)]
      /\ \A d \in Conns : Len(toServer'[d]) <= MaxInFlight + 1
      /\ \A d \in Conns : d # c => toServer'[d] = toServer[d]
      /\ link[c] # "open" => toServer'[c] = toServer[c]
      /\ link[c] = "open" => toServer'[c] = toServer[c] \o <<f>>
  BY <1>3, <1>8, SendAt
<1>10. LinkTypeOK'
  <2>1. \A x \in Executors : Len(results'[x]) <= 1
    BY <1>6 DEF LinkInv, LinkTypeOK, MessagesTyped
  <2> QED
    BY <1>3, <1>9, <2>1 DEF LinkInv, LinkTypeOK, IInv, vars
<1>11. MessagesTyped'
  <2>1. results' \in [Executors -> Seq(FinishMessages)]
    BY <1>6 DEF LinkInv, MessagesTyped
  <2> QED
    BY <1>3, <1>9, <2>1 DEF LinkInv, MessagesTyped, AgentMessages, ServerMessages,
                            FinishMessages, vars
<1>12. /\ ExecutorOf[c] = e /\ OneLease(c)
       /\ (link[c] = "open" /\ SameLease(c)) \/ link[c] = "server_closed"
       /\ link[c] = "server_closed" => toServer[c] = <<>> /\ current[c] = NoLease
  BY <1>1, <1>2, AgentConn
<1>13. \A i : ~LeaseAt(c, i)' /\ ~FinishAt(c, i)
  <2>1. \A i : ~LeaseAt(c, i) /\ ~FinishAt(c, i)
    BY <1>3, <1>12 DEF OneLease, Working
  <2> QED
    BY <1>3, <2>1 DEF LeaseAt
<1>14. ASSUME NEW i, FinishAt(c, i)'
       PROVE  link[c] = "open" /\ i = Len(toServer[c]) + 1 /\ toServer'[c][i] = f
  <2>1. toServer[c] \in Seq(ServerMessages) /\ Len(toServer[c]) \in Nat
    BY LenProperties DEF LinkInv, MessagesTyped
  <2>2. link[c] = "open"
    BY <1>9, <1>13, <1>14 DEF FinishAt
  <2>3. /\ toServer'[c] = toServer[c] \o <<f>> /\ i \in 1..(Len(toServer[c]) + 1)
        /\ toServer'[c][i].type = "finish"
    <3>1. toServer'[c] = toServer[c] \o <<f>>
      BY <1>9, <2>2
    <3>2. Len(toServer[c] \o <<f>>) = Len(toServer[c]) + 1
      BY <1>8, <2>1, ConcatProperties
    <3> QED
      BY <1>14, <3>1, <3>2 DEF FinishAt
  <2>4. i \notin 1..Len(toServer[c])
    BY <1>8, <1>13, <2>1, <2>3, ConcatProperties DEF FinishAt
  <2>5. i = Len(toServer[c]) + 1
    BY <2>1, <2>3, <2>4
  <2>6. toServer'[c][i] = <<f>>[i - Len(toServer[c])]
    BY <1>8, <2>1, <2>3, <2>4, ConcatProperties
  <2> QED
    BY <1>8, <2>1, <2>2, <2>5, <2>6
<1>15. ConnSound(c)'
  <2>1. ~Working(e)'
    BY <1>6 DEF Working
  <2>2. OneLease(c)'
    BY <1>6, <1>12, <1>13, <1>14, <2>1 DEF OneLease
  <2>3. SameLease(c) => current[c] = f.lease
    BY <1>3, <1>12 DEF SameLease
  <2>4. SameLease(c) => SameLease(c)'
    BY <1>3, <1>6, <1>12, <1>13, <1>14, <2>3 DEF SameLease
  <2> QED
    BY <1>2, <1>3, <1>9, <1>12, <2>2, <2>4 DEF ConnSound
<1>16. \A x \in Executors : x # e => active'[x] = active[x] /\ results'[x] = results[x]
  BY <1>3, <1>6 DEF LinkInv, MessagesTyped, LinkTypeOK
<1>17. AgentSound(e)'
  BY <1>1, <1>2, <1>3, <1>12 DEF AgentSound
<1> QED
  BY <1>1, <1>2, <1>3, <1>9, <1>10, <1>11, <1>12, <1>15, <1>16, <1>17, LinkLocalStep

\* Checkpoints over REST, users, the clock and the reaper do not touch the link.
LEMMA QueueOnlyKeeps ==
  ASSUME LinkAssumption, LinkInv, IInv',
         Outside \/ \E e \in Executors, safe \in BOOLEAN : agent_checkpoints(e, safe)
  PROVE  LinkInv'
<1>1. UNCHANGED linkVars
  BY DEF Outside, agent_checkpoints
<1>2. granted' = granted
  BY DEF Outside, agent_checkpoints, create_checkpoint, cancel_run, transition_run, LeaseExpires,
         interrupt_expired_leases, EndLeases, leaseVars
<1> QED
  BY <1>1, <1>2, LinkIdleStep

\* Every step keeps the invariant.
LEMMA LinkStep ==
  ASSUME LinkAssumption, LinkInv, [LinkNext]_allVars
  PROVE  LinkInv'
<1>1. IInv'
  BY LinkQueueStep, StepIInv DEF LinkInv
<1>2. CASE UNCHANGED allVars
  BY <1>1, <1>2, LinkIdleStep DEF allVars, vars
<1>3. ASSUME NEW c \in Conns, SocketStep(c) PROVE LinkInv'
  BY <1>1, <1>3, RecoverKeeps, LinkClaimKeeps, HeartbeatTickKeeps, HandleKeeps, SocketEndKeeps
     DEF SocketStep
<1>4. ASSUME NEW e \in Executors,
             AgentStepOf(e) \/ agent_leaves(e) \/ \E c \in Conns : connect(e, c)
      PROVE  LinkInv'
  BY <1>1, <1>4, ReceiveLinkKeeps, AgentHeartbeatKeeps, TaskEndKeeps, FinishKeeps, QueueOnlyKeeps,
     LeaveKeeps, ConnectKeeps DEF AgentStepOf
<1>5. CASE Outside
  BY <1>1, <1>5, QueueOnlyKeeps
<1> QED
  BY <1>2, <1>3, <1>4, <1>5 DEF LinkNext
-----------------------------------------------------------------------------
\* The inductive invariant of the link over the queue.
THEOREM LinkInvariant ==
  ASSUME LinkAssumption
  PROVE  LinkSpec => []LinkInv
BY LinkInitInv, LinkStep, PTL DEF LinkSpec

\* The loops hold leases the queue granted and their channels stay short,
\* for any number of executors and connections.
THEOREM LinkTypeCorrect ==
  ASSUME LinkAssumption
  PROVE  LinkSpec => []LinkTypeOK
BY LinkInvariant, PTL DEF LinkInv

\* However ticks, messages, disconnections and reconnections interleave, no
\* second lease is on its way to a busy agent, and both ends of an open
\* connection agree on the lease (run_socket, run_websocket).
THEOREM OneLeasePerAgent ==
  ASSUME LinkAssumption
  PROVE  LinkSpec => []NoSecondLease
<1>1. ASSUME LinkInv PROVE NoSecondLease
  <2> SUFFICES ASSUME NEW e \in Executors, conn[e] # NoConn
               PROVE  LET c == conn[e]
                          leases == {i \in 1..Len(toAgent[c]) : toAgent[c][i].type = "lease"}
                      IN /\ \A i, j \in leases : i = j
                         /\ active[e] # NoLease =>
                              /\ leases = {}
                              /\ link[c] = "open" => current[c] = active[e]
    BY DEF NoSecondLease
  <2> DEFINE c == conn[e]
             leases == {i \in 1..Len(toAgent[c]) : toAgent[c][i].type = "lease"}
  <2>1. ExecutorOf[c] = e /\ OneLease(c) /\ (link[c] = "open" => SameLease(c))
    BY <1>1, AgentConn
  <2>2. \A i \in leases : LeaseAt(c, i)
    BY DEF LeaseAt
  <2> QED
    BY <2>1, <2>2 DEF OneLease, SameLease, Working
<1> QED
  BY <1>1, LinkInvariant, PTL

\* The result for which the agent drops its lease is always that lease's own.
THEOREM ResultsMatch ==
  ASSUME LinkAssumption
  PROVE  LinkSpec => []ResultOfActiveLease
<1>1. ASSUME LinkInv PROVE ResultOfActiveLease
  <2> SUFFICES ASSUME NEW e \in Executors, active[e] # NoLease, results[e] # <<>>
               PROVE  Head(results[e]).lease = active[e]
    BY DEF ResultOfActiveLease
  <2>1. ExecutorOf[conn[e]] = e /\ OneLease(conn[e])
    BY <1>1, WorkingConnected, AgentConn
  <2> QED
    BY <2>1 DEF OneLease
<1> QED
  BY <1>1, LinkInvariant, PTL

\* Every step of the server loops and of the agents is a transaction of the
\* queue (or none), so that what is proved of the queue's steps holds of them.
THEOREM LinkUsesQueue ==
  ASSUME LinkAssumption
  PROVE  LinkSpec => [][Next]_vars
BY LinkInvariant, LinkQueueStep, PTL DEF LinkSpec

\* Under the server loops and the agents (run_socket, run_websocket) the queue
\* keeps its promises, and a run goes through the phases of RunPhases once.
THEOREM AgentsKeepQueue ==
  ASSUME LinkAssumption
  PROVE  LinkSpec =>
           /\ [](LeaseMatchesState /\ DispatchedOnce /\ SerialUnlessOvertaken /\ WaitsForOpenRequest)
           /\ LegalTransitions
           /\ [][Phases!Next]_<<[r \in Runs |-> PhaseOf(state[r])], assigned>>
<1>1. LinkInv => LeaseMatchesState /\ DispatchedOnce /\ SerialUnlessOvertaken /\ WaitsForOpenRequest
  BY QueuePromises DEF LinkInv
<1>2. LinkInv /\ [Next]_vars =>
        [\A r \in Runs : Inserted(r) => can_transition_to(state[r], state'[r])]_vars
  BY LegalStep DEF LinkInv
<1>3. LinkInv /\ LinkInv' /\ [Next]_vars =>
        [Phases!Next]_<<[r \in Runs |-> PhaseOf(state[r])], assigned>>
  BY PhasesStep DEF LinkInv
<1> QED
  BY <1>1, <1>2, <1>3, LinkInvariant, LinkUsesQueue, PTL DEF LegalTransitions
=============================================================================
