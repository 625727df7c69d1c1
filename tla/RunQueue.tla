------------------------------ MODULE RunQueue ------------------------------
(***************************************************************************)
(* The durable run queue of the control plane: the tables `runs',          *)
(* `executors', `approval_requests', `run_input_requests' and              *)
(* `run_checkpoints', and every transaction of db.rs, workflow.rs and      *)
(* routes.rs that changes a run.  One action is one committed PostgreSQL   *)
(* transaction; a handler made of several transactions is several actions  *)
(* with its in-flight state in a variable of its own.                      *)
(*                                                                         *)
(* The module is an open system: a lease that was ever granted may be      *)
(* presented by its owner at any later time (a delayed request, a retry, a *)
(* paused process), a user may act at any time, and a lease may expire at  *)
(* any time.  The processes that use the queue are modelled in modules of  *)
(* their own, which extend this one.                                       *)
(***************************************************************************)
EXTENDS RunContracts, Naturals, FiniteSets

CONSTANTS
  Runs,          \* run ids
  Workers,       \* server worker processes (claim server_linux runs)
  Executors,     \* rows of the table executors: devices and pool members
  NoAgent,       \* SQL NULL in lease_owner and assigned_executor_id
  ThreadOf,      \* the thread each run belongs to
  KeyOf,         \* the (creator, idempotency key) pair of each run
  ServerRuns,    \* runs whose immutable target is server_linux
  CapableRuns,   \* server runs whose capabilities the server offers
  SnapshotRuns,  \* runs that can be created while their snapshot is missing
  Serves,        \* Serves[e]: runs targeted at e that e's registration supports
  MaxConcurrent, \* executors.max_concurrent_runs
  Quota,         \* quota_limits.concurrent_runs of the creating user
  Kinds          \* the request tables in use, "approval" and "input"

Agents == Workers \cup Executors
\* approved, rejected and submitted are one status here: the queue treats
\* every answer alike, the process that asked reads which one it was.
RequestStatus == {"none", "pending", "answered", "expired"}

ASSUME ConstantsAssumption ==
  /\ IsFiniteSet(Runs)
  /\ Workers \cap Executors = {}
  /\ NoAgent \notin Agents
  /\ ServerRuns \subseteq Runs /\ CapableRuns \subseteq ServerRuns
  /\ SnapshotRuns \subseteq Runs
  /\ Serves \in [Executors -> SUBSET (Runs \ ServerRuns)]
  /\ MaxConcurrent \in [Executors -> Nat \ {0}]
  /\ Quota \in Nat
  /\ Kinds \subseteq {"approval", "input"}

VARIABLES
  state,       \* runs.state, or "absent" / "prepared" before the row exists
  createdAt,   \* runs.created_at: the instant prepare_run read the clock
  initial,     \* the initial state prepare_run computed for the insert
  clock,       \* the wall clock, as far as created_at orders runs
  assigned,    \* runs.assigned_executor_id (never cleared)
  leaseOwner,  \* runs.lease_owner
  leaseToken,  \* runs.lease_token; 0 is SQL NULL
  leaseLive,   \* runs.lease_expires_at > now()
  checkpoint,  \* the latest run_checkpoints row: "none", "safe" or "unsafe"
  request,     \* request[r][k]: state of the latest request of kind k of run r
  expiring,    \* expiring[r][k]: progress of expire_pending_workflows
  activeRuns,  \* executors.active_runs
  granted,     \* every lease ever returned by a claim
  overtaken    \* history: inserted after a later run of the thread was claimed

rowVars == <<state, createdAt, initial, clock>>
leaseVars == <<assigned, leaseOwner, leaseToken, leaseLive, granted>>
vars == <<state, createdAt, initial, clock, assigned, leaseOwner, leaseToken,
          leaseLive, checkpoint, request, expiring, activeRuns, granted, overtaken>>

Unborn == {"absent", "prepared"}
Lease == [run : Runs, owner : Agents, token : Nat \ {0}]

\* One type invariant: every column keeps its domain.
TypeOK ==
  /\ state \in [Runs -> RunState \cup Unborn]
  /\ createdAt \in [Runs -> Nat]
  /\ initial \in [Runs -> ClaimableStates \cup {"waiting_for_snapshot"}]
  /\ clock \in Nat
  /\ assigned \in [Runs -> Agents \cup {NoAgent}]
  /\ leaseOwner \in [Runs -> Agents \cup {NoAgent}]
  /\ leaseToken \in [Runs -> Nat]
  /\ leaseLive \in [Runs -> BOOLEAN]
  /\ checkpoint \in [Runs -> {"none", "safe", "unsafe"}]
  /\ request \in [Runs -> [Kinds -> RequestStatus]]
  /\ expiring \in [Runs -> [Kinds -> {"none", "listed", "confirmed"}]]
  /\ activeRuns \in [Executors -> Nat]
  /\ granted \subseteq Lease
  /\ overtaken \subseteq Runs

Init ==
  /\ state = [r \in Runs |-> "absent"]
  /\ createdAt = [r \in Runs |-> 0]
  /\ initial = [r \in Runs |-> "queued"]
  /\ clock = 1
  /\ assigned = [r \in Runs |-> NoAgent]
  /\ leaseOwner = [r \in Runs |-> NoAgent]
  /\ leaseToken = [r \in Runs |-> 0]
  /\ leaseLive = [r \in Runs |-> FALSE]
  /\ checkpoint = [r \in Runs |-> "none"]
  /\ request = [r \in Runs |-> [k \in Kinds |-> "none"]]
  /\ expiring = [r \in Runs |-> [k \in Kinds |-> "none"]]
  /\ activeRuns = [e \in Executors |-> 0]
  /\ granted = {}
  /\ overtaken = {}
\* Where the modules of the queue's users start: every run was prepared, in
\* some order, and created as queued, and nothing else has happened.
QueuedInit ==
  LET n == Cardinality(Runs) IN
  /\ state = [r \in Runs |-> "queued"]
  /\ createdAt \in {f \in [Runs -> 1..n] : \A p, r \in Runs : f[p] = f[r] => p = r}
  /\ clock = n + 1
  /\ initial = [r \in Runs |-> "queued"]
  /\ assigned = [r \in Runs |-> NoAgent]
  /\ leaseOwner = [r \in Runs |-> NoAgent]
  /\ leaseToken = [r \in Runs |-> 0]
  /\ leaseLive = [r \in Runs |-> FALSE]
  /\ checkpoint = [r \in Runs |-> "none"]
  /\ request = [r \in Runs |-> [k \in Kinds |-> "none"]]
  /\ expiring = [r \in Runs |-> [k \in Kinds |-> "none"]]
  /\ activeRuns = [e \in Executors |-> 0]
  /\ granted = {}
  /\ overtaken = {}

-----------------------------------------------------------------------------
(* Creation.  prepare_run reads the clock and the initial state first and  *)
(* the insert commits later, in a transaction of its own.                  *)

\* initial_run_state: what the handler may find when it looks.  Whether a
\* snapshot is ready and whether an executor was seen in the last minute
\* is the environment's choice; the server's capabilities are fixed.
initial_run_state(r) ==
  (IF r \in SnapshotRuns THEN {"waiting_for_snapshot"} ELSE {}) \cup
  (IF r \in ServerRuns
     THEN {IF r \in CapableRuns THEN "queued" ELSE "waiting_for_executor"}
     ELSE {"queued", "waiting_for_executor"})

prepare_run(r) ==
  /\ state[r] = "absent"
  /\ \E s \in initial_run_state(r) : initial' = [initial EXCEPT ![r] = s]
  /\ state' = [state EXCEPT ![r] = "prepared"]
  /\ createdAt' = [createdAt EXCEPT ![r] = clock]
  /\ clock' = clock + 1
  /\ UNCHANGED <<leaseVars, checkpoint, request, expiring, activeRuns, overtaken>>

Inserted(r) == state[r] \notin Unborn
Dispatched(r) == \E g \in granted : g.run = r
Earlier(p, r) == ThreadOf[p] = ThreadOf[r] /\ createdAt[p] < createdAt[r]

\* create_run_tx: under the creator's advisory lock, the row is inserted
\* unless the idempotency key is taken (the existing run is returned) or
\* the quota of non-terminal runs is exhausted (an error).
create_run(r) ==
  /\ state[r] = "prepared"
  /\ \A q \in Runs : Inserted(q) => KeyOf[q] # KeyOf[r]
  /\ Cardinality({q \in Runs : Inserted(q) /\ ~is_terminal(state[q])}) < Quota
  /\ state' = [state EXCEPT ![r] = initial[r]]
  /\ overtaken' = IF \E q \in Runs : Earlier(r, q) /\ Dispatched(q)
                    THEN overtaken \cup {r} ELSE overtaken
  /\ UNCHANGED <<createdAt, initial, clock, leaseVars, checkpoint, request,
                 expiring, activeRuns>>
-----------------------------------------------------------------------------
(* Claiming.  FOR UPDATE SKIP LOCKED lets a claim pass over a row another  *)
(* transaction holds, so any row the WHERE clause admits may be taken.     *)

\* Mutant of the predecessor rule: it looks at leased runs only, so a
\* queued or interrupted predecessor no longer holds its thread back.
NoLeasedPrior(r) ==
  \A p \in Runs : ~(Inserted(p) /\ Earlier(p, r) /\ state[p] \in LeasedStates)

\* NOT EXISTS (SELECT 1 FROM runs prior ... prior.state <> ALL(TERMINAL))
NoOpenPrior(r) ==
  \A p \in Runs : ~(Inserted(p) /\ Earlier(p, r) /\ ~is_terminal(state[p]))

\* The UPDATE both claims share: a fresh token, the lease, the assignment.
GrantLease(r, a) ==
  LET token == Cardinality(granted) + 1 IN
  /\ state' = [state EXCEPT ![r] = "running"]
  /\ assigned' = [assigned EXCEPT ![r] = a]
  /\ leaseOwner' = [leaseOwner EXCEPT ![r] = a]
  /\ leaseToken' = [leaseToken EXCEPT ![r] = token]
  /\ leaseLive' = [leaseLive EXCEPT ![r] = TRUE]
  /\ granted' = granted \cup {[run |-> r, owner |-> a, token |-> token]}

claim_server_run(w, r) ==
  /\ state[r] = "queued" /\ r \in ServerRuns
  /\ NoOpenPrior(r)
  /\ GrantLease(r, w)
  /\ UNCHANGED <<createdAt, initial, clock, checkpoint, request, expiring,
                 activeRuns, overtaken>>

\* Mutant: an interrupted run is offered again to the executors.
claim_interrupted_run(e, r) ==
  /\ activeRuns[e] < MaxConcurrent[e]
  /\ state[r] \in ClaimableStates \cup {"interrupted"} /\ r \in Serves[e]
  /\ NoOpenPrior(r)
  /\ GrantLease(r, e)
  /\ activeRuns' = [activeRuns EXCEPT ![e] = @ + 1]
  /\ UNCHANGED <<createdAt, initial, clock, checkpoint, request, expiring, overtaken>>

claim_external_run(e, r) ==
  /\ activeRuns[e] < MaxConcurrent[e]
  /\ state[r] \in ClaimableStates /\ r \in Serves[e]
  /\ NoOpenPrior(r)
  /\ GrantLease(r, e)
  /\ activeRuns' = [activeRuns EXCEPT ![e] = @ + 1]
  /\ UNCHANGED <<createdAt, initial, clock, checkpoint, request, expiring, overtaken>>
-----------------------------------------------------------------------------
(* Leases.                                                                 *)

\* The WHERE clause of renew_lease: owner, token and state, not the expiry.
LeaseMatches(g) ==
  /\ leaseOwner[g.run] = g.owner
  /\ leaseToken[g.run] = g.token
  /\ state[g.run] \in LeasedStates

verify_lease(g) == LeaseMatches(g) /\ leaseLive[g.run]

\* Mutant: active_runs - 1 without GREATEST.
ReleasedBelowZero(S) ==
  [e \in Executors |-> activeRuns[e] - Cardinality({r \in S : assigned[r] = e})]

\* executors.active_runs = GREATEST(active_runs - 1, 0), once per run of S.
Released(S) ==
  [e \in Executors |->
     LET n == Cardinality({r \in S : assigned[r] = e})
     IN IF activeRuns[e] > n THEN activeRuns[e] - n ELSE 0]

\* Mutant: lease_expires_at is not reset.
ClearOwners(S) ==
  /\ leaseOwner' = [r \in Runs |-> IF r \in S THEN NoAgent ELSE leaseOwner[r]]
  /\ leaseToken' = [r \in Runs |-> IF r \in S THEN 0 ELSE leaseToken[r]]
  /\ UNCHANGED leaseLive

\* SET lease_owner = NULL, lease_token = NULL, lease_expires_at = NULL for S.
ClearLeases(S) ==
  /\ leaseOwner' = [r \in Runs |-> IF r \in S THEN NoAgent ELSE leaseOwner[r]]
  /\ leaseToken' = [r \in Runs |-> IF r \in S THEN 0 ELSE leaseToken[r]]
  /\ leaseLive' = [r \in Runs |-> IF r \in S THEN FALSE ELSE leaseLive[r]]

\* The runs of S move to state s, their leases are cleared and their
\* executors' counters released.
EndLeases(S, s) ==
  /\ state' = [r \in Runs |-> IF r \in S THEN s ELSE state[r]]
  /\ ClearLeases(S)
  /\ activeRuns' = Released(S)
  /\ UNCHANGED <<createdAt, initial, clock, assigned, granted, checkpoint, overtaken>>

renew_lease(g) ==
  /\ LeaseMatches(g)
  /\ leaseLive' = [leaseLive EXCEPT ![g.run] = TRUE]
  /\ UNCHANGED <<rowVars, assigned, leaseOwner, leaseToken, granted, checkpoint,
                 request, expiring, activeRuns, overtaken>>

\* Time passes: the lease of r is now in the past.
LeaseExpires(r) ==
  /\ leaseLive[r]
  /\ leaseLive' = [leaseLive EXCEPT ![r] = FALSE]
  /\ UNCHANGED <<rowVars, assigned, leaseOwner, leaseToken, granted, checkpoint,
                 request, expiring, activeRuns, overtaken>>

\* The rows a reconnecting executor may get back: its own live leases.
Recoverable(e, r) ==
  /\ assigned[r] = e /\ leaseOwner[r] = e /\ leaseLive[r]
  /\ state[r] \in LeasedStates

\* recover_external_run: unsafe work is interrupted, other work gets its
\* lease extended under the same token.
recover_external_run(e, r) ==
  /\ Recoverable(e, r)
  /\ \/ /\ checkpoint[r] = "unsafe"
        /\ EndLeases({r}, "interrupted")
        /\ UNCHANGED <<request, expiring>>
     \/ /\ checkpoint[r] # "unsafe"
        /\ leaseLive' = [leaseLive EXCEPT ![r] = TRUE]
        /\ UNCHANGED <<rowVars, assigned, leaseOwner, leaseToken, granted,
                       checkpoint, request, expiring, activeRuns, overtaken>>

\* finish_leased_run: complete, fail or interrupt under a valid lease.
finish_leased_run(g, outcome) ==
  /\ verify_lease(g)
  /\ can_transition_to(state[g.run], outcome)
  /\ EndLeases({g.run}, outcome)
  /\ UNCHANGED <<request, expiring>>

\* Mutant: the reaper returns expired runs to the queue.
requeue_expired_leases ==
  LET S == {r \in Runs : state[r] \in LeasedStates /\ ~leaseLive[r]} IN
  /\ S # {}
  /\ EndLeases(S, "queued")
  /\ UNCHANGED <<request, expiring>>

\* Mutant: the reaper looks at running runs only.
interrupt_running_leases ==
  LET S == {r \in Runs : state[r] = "running" /\ ~leaseLive[r]} IN
  /\ S # {}
  /\ EndLeases(S, "interrupted")
  /\ UNCHANGED <<request, expiring>>

\* interrupt_expired_leases: one transaction takes every run whose lease
\* has expired; none of them is retried.
interrupt_expired_leases ==
  LET S == {r \in Runs : state[r] \in LeasedStates /\ ~leaseLive[r]} IN
  /\ S # {}
  /\ EndLeases(S, "interrupted")
  /\ UNCHANGED <<request, expiring>>

\* heartbeat_executor overwrites the counter with what the caller reports.
heartbeat_executor(e, n) ==
  /\ activeRuns' = [activeRuns EXCEPT ![e] = n]
  /\ UNCHANGED <<rowVars, leaseVars, checkpoint, request, expiring, overtaken>>
-----------------------------------------------------------------------------
(* User and maintenance transitions.                                       *)

\* transition_run: the row is locked, the transition checked, a terminal
\* state clears the lease, and leaving the non-terminal states releases the
\* assigned executor (also when the lease had been released before).
transition_run(r, next) ==
  /\ Inserted(r)
  /\ can_transition_to(state[r], next)
  /\ state' = [state EXCEPT ![r] = next]
  /\ IF is_terminal(next)
       THEN ClearLeases({r})
       ELSE UNCHANGED <<leaseOwner, leaseToken, leaseLive>>
  /\ activeRuns' = IF is_terminal(next) /\ ~is_terminal(state[r])
                     THEN Released({r}) ELSE activeRuns
  /\ UNCHANGED <<createdAt, initial, clock, assigned, granted, checkpoint, overtaken>>

cancel_run(r) ==
  /\ transition_run(r, "canceled")
  /\ UNCHANGED <<request, expiring>>

\* One iteration of resume_snapshot_runs: the run was selected while it
\* waited for its snapshot and is moved by a transaction of its own, after
\* the executors were looked at (available or not).
resume_snapshot_run(r) ==
  /\ r \in SnapshotRuns /\ state[r] = "waiting_for_snapshot"
  /\ \E s \in initial_run_state(r) \ {"waiting_for_snapshot"} : transition_run(r, s)
  /\ UNCHANGED <<request, expiring>>
-----------------------------------------------------------------------------
(* Approvals and inputs.  The two request tables behave alike.             *)

WaitState(k) == IF k = "approval" THEN "waiting_approval" ELSE "waiting_input"

\* create_approval / create_input_request and the first transaction of
\* await_worker_approval / await_worker_input.  A pending request of the
\* run makes the insert fail on its unique index.
create_request(g, k) ==
  /\ verify_lease(g)
  /\ state[g.run] = "running"
  /\ request[g.run][k] # "pending"
  /\ request' = [request EXCEPT ![g.run][k] = "pending"]
  /\ state' = [state EXCEPT ![g.run] = WaitState(k)]
  /\ UNCHANGED <<createdAt, initial, clock, leaseVars, checkpoint, expiring,
                 activeRuns, overtaken>>

\* resume_waiting_run: the second half of an answer's transaction.
resume_waiting_run(r, k) ==
  /\ state[r] = WaitState(k)
  /\ \/ /\ leaseLive[r]
        /\ state' = [state EXCEPT ![r] = "running"]
        /\ UNCHANGED <<createdAt, initial, clock, leaseVars, checkpoint,
                       activeRuns, overtaken>>
     \/ /\ ~leaseLive[r]
        /\ EndLeases({r}, "interrupted")

\* Mutant: the answer is recorded but the run is not resumed with it.
answer_without_resuming(r, k) ==
  /\ request[r][k] = "pending"
  /\ request' = [request EXCEPT ![r][k] = "answered"]
  /\ UNCHANGED <<rowVars, leaseVars, checkpoint, expiring, activeRuns, overtaken>>

\* resolve_approval / submit_input_response: a pending request is answered
\* and its run resumed in one transaction, or nothing happens.
answer_request(r, k) ==
  /\ request[r][k] = "pending"
  /\ request' = [request EXCEPT ![r][k] = "answered"]
  /\ resume_waiting_run(r, k)
  /\ UNCHANGED expiring

\* Mutant: only requests of runs that still wait expire.
expire_waiting_request(r, k) ==
  /\ request[r][k] = "pending" /\ state[r] = WaitState(k)
  /\ request' = [request EXCEPT ![r][k] = "expired"]
  /\ expiring' = [expiring EXCEPT ![r][k] = "listed"]
  /\ UNCHANGED <<rowVars, leaseVars, checkpoint, activeRuns, overtaken>>

\* expire_pending_workflows, first half: due requests become expired and
\* their runs are remembered by the worker.  A request's own expiry time is
\* the environment's choice.
expire_request(r, k) ==
  /\ request[r][k] = "pending"
  /\ request' = [request EXCEPT ![r][k] = "expired"]
  /\ expiring' = [expiring EXCEPT ![r][k] = "listed"]
  /\ UNCHANGED <<rowVars, leaseVars, checkpoint, activeRuns, overtaken>>

\* ... then each run is read, outside any transaction ...
expire_read_run(r, k) ==
  /\ expiring[r][k] = "listed"
  /\ expiring' = [expiring EXCEPT
                    ![r][k] = IF state[r] = WaitState(k) THEN "confirmed" ELSE "none"]
  /\ UNCHANGED <<rowVars, leaseVars, checkpoint, request, activeRuns, overtaken>>

\* ... and moved to expired by transition_run, whose failure is ignored.
expire_run(r, k) ==
  /\ expiring[r][k] = "confirmed"
  /\ expiring' = [expiring EXCEPT ![r][k] = "none"]
  /\ UNCHANGED request
  /\ IF can_transition_to(state[r], "expired")
       THEN transition_run(r, "expired")
       ELSE UNCHANGED <<rowVars, leaseVars, checkpoint, activeRuns, overtaken>>

\* The worker stops between the two halves: the remembered run is lost.
expire_forgotten(r, k) ==
  /\ expiring[r][k] # "none"
  /\ expiring' = [expiring EXCEPT ![r][k] = "none"]
  /\ UNCHANGED <<rowVars, leaseVars, checkpoint, request, activeRuns, overtaken>>

\* create_checkpoint / create_worker_checkpoint: under a valid lease, in any
\* leased state.
create_checkpoint(g, safe) ==
  /\ verify_lease(g)
  /\ checkpoint' = [checkpoint EXCEPT ![g.run] = IF safe THEN "safe" ELSE "unsafe"]
  /\ UNCHANGED <<rowVars, leaseVars, request, expiring, activeRuns, overtaken>>
-----------------------------------------------------------------------------
LeaseStep ==
  \E g \in granted :
    \/ renew_lease(g)
    \/ \E outcome \in {"completed", "failed", "interrupted"} : finish_leased_run(g, outcome)
    \/ \E k \in Kinds : create_request(g, k)
    \/ \E safe \in BOOLEAN : create_checkpoint(g, safe)

RunStep ==
  \E r \in Runs :
    \/ prepare_run(r)
    \/ create_run(r)
    \/ cancel_run(r)
    \/ resume_snapshot_run(r)
    \/ LeaseExpires(r)
    \/ \E k \in Kinds :
         \/ answer_request(r, k)
         \/ expire_request(r, k)
         \/ expire_read_run(r, k)
         \/ expire_run(r, k)
         \/ expire_forgotten(r, k)

AgentStep ==
  \/ \E w \in Workers, r \in Runs : claim_server_run(w, r)
  \/ \E e \in Executors, r \in Runs : claim_external_run(e, r)
  \/ \E e \in Executors, r \in Runs : recover_external_run(e, r)
  \/ \E e \in Executors : \E n \in 0..MaxConcurrent[e] : heartbeat_executor(e, n)
  \/ interrupt_expired_leases

Next == LeaseStep \/ RunStep \/ AgentStep

Spec == Init /\ [][Next]_vars
-----------------------------------------------------------------------------
(* Properties.                                                             *)

\* A run row carries a lease (owner, token, possibly live) exactly while it
\* is in a leased state, and then the lease is the one its claim returned:
\* cancel, expiry, recovery and the reaper each clear all three columns.
LeaseMatchesState ==
  \A r \in Runs :
    /\ state[r] \in LeasedStates =>
         [run |-> r, owner |-> leaseOwner[r], token |-> leaseToken[r]] \in granted
    /\ state[r] \notin LeasedStates =>
         leaseOwner[r] = NoAgent /\ leaseToken[r] = 0 /\ ~leaseLive[r]

\* Exactly-once dispatch: whatever expires, reconnects or is reaped, no run
\* is ever handed out by two claims.
DispatchedOnce == \A g, h \in granted : g.run = h.run => g = h

\* Thread serialization as the SQL provides it: two runs of a thread hold
\* leases together only if the earlier-stamped one was inserted after the
\* later one had been claimed (created_at is read before the insert).
SerialUnlessOvertaken ==
  \A p, r \in Runs :
    /\ Earlier(p, r)
    /\ state[p] \in LeasedStates /\ state[r] \in LeasedStates
    => p \in overtaken

\* Thread serialization as documented: never two leased runs in a thread.
ThreadSerialized ==
  \A p, r \in Runs :
    /\ ThreadOf[p] = ThreadOf[r]
    /\ state[p] \in LeasedStates /\ state[r] \in LeasedStates
    => p = r

\* A run and its requests agree: a running run has no open question, and a
\* waiting run waits for a question that is open or has just expired, never
\* for one that was already answered (its answer would be lost).
WaitsForOpenRequest ==
  \A r \in Runs : \A k \in Kinds :
    /\ state[r] = "running" => request[r][k] # "pending"
    /\ state[r] = WaitState(k) => request[r][k] \in {"pending", "expired"}

\* Most of the SQL writes runs.state without calling ensure_run_transition;
\* every step that changes it is still a transition the contract allows,
\* so a finished run never restarts.
LegalTransitions ==
  [][\A r \in Runs : Inserted(r) => can_transition_to(state[r], state'[r])]_vars

\* The abstract view: waiting, held and stopped group the eleven states.
PhaseOf(s) == CASE s \in Unborn -> "new"
                [] s \in ClaimableStates \cup {"waiting_for_snapshot"} -> "waiting"
                [] s \in LeasedStates -> "held"
                [] s = "interrupted" -> "stopped"
                [] OTHER -> "done"

Phases == INSTANCE RunPhases WITH
            phase <- [r \in Runs |-> PhaseOf(state[r])],
            executor <- assigned

\* The queue implements RunPhases: one pass per run, one executor per run.
ImplementsPhases == Phases!Spec
-----------------------------------------------------------------------------
(* Values of the constants that a TLC configuration cannot write down.     *)
OneThread == [r \in Runs |-> "t1"]
OwnKey == [r \in Runs |-> r]
ServesAll == [e \in Executors |-> Runs \ ServerRuns]
OneAtATime == [e \in Executors |-> 1]
=============================================================================
