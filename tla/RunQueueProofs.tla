--------------------------- MODULE RunQueueProofs ---------------------------
(***************************************************************************)
(* Proofs about RunQueue, for every set of runs, workers and executors.    *)
(* The inductive invariant IInv adds to the properties what they need to   *)
(* be preserved: where a dispatched run can be, where a pending request    *)
(* can be, and that every dispatched run's predecessors are over.          *)
(***************************************************************************)
EXTENDS RunQueue, FiniteSetTheorems, TLAPS

\* A run that was handed out never returns to a claimable state.
GrantedStarted ==
  \A g \in granted :
    state[g.run] \notin Unborn \cup ClaimableStates \cup {"waiting_for_snapshot"}

\* The predecessors of a dispatched run that were there when it was claimed
\* are over, and stay over.
PriorsOver ==
  \A p, r \in Runs :
    Earlier(p, r) /\ Dispatched(r) /\ Inserted(p) /\ p \notin overtaken
      => is_terminal(state[p])

\* A request is pending only while its run waits for it, or after the run
\* was stopped under it.
PendingPlace ==
  \A r \in Runs : \A k \in Kinds :
    request[r][k] = "pending" =>
      state[r] \in {WaitState(k), "interrupted"} \/ is_terminal(state[r])

\* A waiting run's request is pending or expired.
WaitingHasRequest ==
  \A r \in Runs : \A k \in Kinds :
    state[r] = WaitState(k) => request[r][k] \in {"pending", "expired"}

IInv ==
  /\ TypeOK
  /\ IsFiniteSet(granted)
  /\ LeaseMatchesState
  /\ GrantedStarted
  /\ DispatchedOnce
  /\ PriorsOver
  /\ PendingPlace
  /\ WaitingHasRequest
-----------------------------------------------------------------------------
\* GREATEST(active_runs - n, 0) is a natural number whatever set is released.
LEMMA ReleasedType ==
  ASSUME TypeOK, NEW S \in SUBSET Runs
  PROVE  Released(S) \in [Executors -> Nat]
<1>1. ASSUME NEW e \in Executors
      PROVE  Cardinality({r \in S : assigned[r] = e}) \in Nat
  <2>1. {r \in S : assigned[r] = e} \subseteq Runs
    OBVIOUS
  <2>2. IsFiniteSet({r \in S : assigned[r] = e})
    BY <2>1, FS_Subset, ConstantsAssumption
  <2> QED
    BY <2>2, FS_CardinalityType
<1> QED
  BY <1>1 DEF Released, TypeOK

\* The states before, while and after a run is leased.
LEMMA StateSets ==
  /\ LeasedStates \subseteq RunState
  /\ \A s \in LeasedStates : s \notin Unborn /\ ~is_terminal(s) /\ s # "interrupted"
  /\ \A k \in Kinds : WaitState(k) \in LeasedStates
BY ConstantsAssumption DEF LeasedStates, RunState, Unborn, is_terminal, WaitState

\* The state the modules of the queue's users start in: nobody has claimed
\* anything yet.
LEMMA QueuedIInv == QueuedInit => IInv
<1> SUFFICES ASSUME QueuedInit PROVE IInv
  OBVIOUS
<1>1. IsFiniteSet(granted)
  BY FS_EmptySet DEF QueuedInit
<1>2. Cardinality(Runs) \in Nat
  BY ConstantsAssumption, FS_CardinalityType
<1>3. TypeOK
  BY <1>2, ConstantsAssumption
     DEF QueuedInit, TypeOK, RunState, Unborn, Lease, RequestStatus, ClaimableStates
<1>4. LeaseMatchesState /\ GrantedStarted /\ DispatchedOnce
  BY DEF QueuedInit, LeaseMatchesState, GrantedStarted, DispatchedOnce, LeasedStates
<1>5. PriorsOver
  BY DEF QueuedInit, PriorsOver, Dispatched
<1>6. PendingPlace /\ WaitingHasRequest
  BY ConstantsAssumption DEF QueuedInit, PendingPlace, WaitingHasRequest, WaitState
<1> QED
  BY <1>1, <1>3, <1>4, <1>5, <1>6 DEF IInv

\* The initial states satisfy the invariant.
LEMMA InitIInv == Init => IInv
<1> SUFFICES ASSUME Init PROVE IInv
  OBVIOUS
<1>1. IsFiniteSet(granted)
  BY FS_EmptySet DEF Init
<1>2. TypeOK
  BY ConstantsAssumption DEF Init, TypeOK, RunState, Unborn, Lease, RequestStatus,
                              ClaimableStates
<1>3. LeaseMatchesState /\ GrantedStarted /\ DispatchedOnce
  BY DEF Init, LeaseMatchesState, GrantedStarted, DispatchedOnce, LeasedStates
<1>4. PriorsOver
  BY DEF Init, PriorsOver, Dispatched
<1>5. PendingPlace /\ WaitingHasRequest
  BY ConstantsAssumption DEF Init, PendingPlace, WaitingHasRequest, WaitState
<1> QED
  BY <1>1, <1>2, <1>3, <1>4, <1>5 DEF IInv
-----------------------------------------------------------------------------
\* Ending leases (finish, recovery of unsafe work, the reaper, an answer that
\* comes too late) for a set of leased runs keeps every part of the invariant
\* as long as the request table is left alone or loses pending requests.
LEMMA EndLeasesIInv ==
  ASSUME IInv, NEW S \in SUBSET Runs,
         NEW s \in {"interrupted", "completed", "failed"},
         \A r \in S : state[r] \in LeasedStates,
         EndLeases(S, s),
         request' \in [Runs -> [Kinds -> RequestStatus]],
         \A r \in Runs : \A k \in Kinds :
           request'[r][k] = request[r][k] \/ (r \in S /\ request'[r][k] # "pending"),
         expiring' \in [Runs -> [Kinds -> {"none", "listed", "confirmed"}]]
  PROVE  IInv'
<1> USE DEF IInv
<1>1. TypeOK'
  <2>1. activeRuns' \in [Executors -> Nat]
    BY ReleasedType DEF EndLeases
  <2>2. state' \in [Runs -> RunState \cup Unborn]
    BY DEF EndLeases, TypeOK, RunState
  <2> QED
    BY <2>1, <2>2 DEF EndLeases, ClearLeases, TypeOK
<1>2. IsFiniteSet(granted)'
  BY DEF EndLeases
<1>3. LeaseMatchesState'
  BY DEF EndLeases, ClearLeases, LeaseMatchesState, TypeOK, LeasedStates
<1>4. GrantedStarted'
  BY DEF EndLeases, GrantedStarted, TypeOK, Lease, Unborn, ClaimableStates
<1>5. DispatchedOnce'
  BY DEF EndLeases, DispatchedOnce
<1>6. PriorsOver'
  BY StateSets DEF EndLeases, PriorsOver, Earlier, Dispatched, Inserted, TypeOK, is_terminal
<1>7. PendingPlace'
  BY StateSets DEF EndLeases, PendingPlace, TypeOK, is_terminal
<1>8. WaitingHasRequest'
  BY StateSets DEF EndLeases, WaitingHasRequest, TypeOK, LeasedStates
<1> QED
  BY <1>1, <1>2, <1>3, <1>4, <1>5, <1>6, <1>7, <1>8

\* transition_run to a terminal state, as cancel and expiry use it.
LEMMA TerminalTransitionIInv ==
  ASSUME IInv, NEW r \in Runs, NEW s \in {"canceled", "expired"},
         transition_run(r, s), UNCHANGED request,
         expiring' \in [Runs -> [Kinds -> {"none", "listed", "confirmed"}]]
  PROVE  IInv'
<1> USE DEF IInv
<1>0. ClearLeases({r})
  BY DEF transition_run, is_terminal
<1>1. TypeOK'
  <2>1. activeRuns' \in [Executors -> Nat]
    BY ReleasedType DEF transition_run, TypeOK
  <2>2. state' \in [Runs -> RunState \cup Unborn]
    BY DEF transition_run, TypeOK, RunState
  <2> QED
    BY <1>0, <2>1, <2>2 DEF transition_run, ClearLeases, TypeOK
<1>2. IsFiniteSet(granted)'
  BY DEF transition_run
<1>3. LeaseMatchesState'
  BY <1>0 DEF transition_run, ClearLeases, LeaseMatchesState, TypeOK, LeasedStates
<1>4. GrantedStarted'
  BY DEF transition_run, GrantedStarted, TypeOK, Lease, Unborn, ClaimableStates
<1>5. DispatchedOnce'
  BY DEF transition_run, DispatchedOnce
<1>6. PriorsOver'
  BY DEF transition_run, PriorsOver, Earlier, Dispatched, Inserted, TypeOK, is_terminal
<1>7. PendingPlace'
  BY DEF transition_run, PendingPlace, TypeOK, is_terminal
<1>8. WaitingHasRequest'
  BY StateSets DEF transition_run, WaitingHasRequest, TypeOK, LeasedStates, is_terminal
<1> QED
  BY <1>1, <1>2, <1>3, <1>4, <1>5, <1>6, <1>7, <1>8

\* A claim of run r by agent a, once the predecessor rule admits r.
LEMMA GrantIInv ==
  ASSUME IInv, NEW r \in Runs, NEW a \in Agents,
         state[r] \in ClaimableStates, NoOpenPrior(r), GrantLease(r, a),
         activeRuns' \in [Executors -> Nat],
         UNCHANGED <<createdAt, initial, clock, checkpoint, request, expiring, overtaken>>
  PROVE  IInv'
<1> USE DEF IInv
<1> DEFINE token == Cardinality(granted) + 1
<1> DEFINE g == [run |-> r, owner |-> a, token |-> token]
<1>1. token \in Nat \ {0}
  BY FS_CardinalityType
<1>2. granted' = granted \cup {g} /\ g \in Lease
  BY <1>1 DEF GrantLease, Lease
<1>3. leaseToken' = [leaseToken EXCEPT ![r] = token]
  BY DEF GrantLease
<1>a. state' = [state EXCEPT ![r] = "running"]
  BY DEF GrantLease
<1>b. \A h \in granted : h.run # r
  BY DEF GrantedStarted, ClaimableStates, Unborn
<1> HIDE DEF token
<1>4. TypeOK'
  BY <1>1, <1>2, <1>3, <1>a DEF GrantLease, TypeOK, RunState
<1>5. IsFiniteSet(granted)'
  BY <1>2, FS_AddElement
<1>6. LeaseMatchesState'
  <2>1. SUFFICES ASSUME NEW q \in Runs
                 PROVE  /\ state'[q] \in LeasedStates =>
                             [run |-> q, owner |-> leaseOwner'[q],
                              token |-> leaseToken'[q]] \in granted'
                        /\ state'[q] \notin LeasedStates =>
                             leaseOwner'[q] = NoAgent /\ leaseToken'[q] = 0 /\ ~leaseLive'[q]
    BY DEF LeaseMatchesState
  <2>2. CASE q = r
    BY <2>2, <1>2, <1>3, <1>a DEF GrantLease, TypeOK, LeasedStates
  <2>3. CASE q # r
    BY <2>3, <1>2, <1>3, <1>a DEF GrantLease, TypeOK, LeaseMatchesState
  <2> QED
    BY <2>2, <2>3
<1>7. GrantedStarted'
  BY <1>2, <1>a DEF GrantedStarted, TypeOK, Lease, Unborn, ClaimableStates
<1>8. DispatchedOnce'
  BY <1>2, <1>b DEF DispatchedOnce
<1>9. PriorsOver'
  BY <1>2, <1>a, <1>b DEF PriorsOver, NoOpenPrior, Earlier, Dispatched, Inserted,
                          TypeOK, ClaimableStates, is_terminal, Unborn
<1>10. PendingPlace'
  BY <1>a, StateSets DEF PendingPlace, TypeOK, ClaimableStates, is_terminal, LeasedStates
<1>11. WaitingHasRequest'
  BY <1>a, ConstantsAssumption DEF WaitingHasRequest, TypeOK, WaitState
<1> QED
  BY <1>4, <1>5, <1>6, <1>7, <1>8, <1>9, <1>10, <1>11

\* A step that only moves one inserted, unfinished run between states, with
\* the same lease columns, keeps the lease part of the invariant; used for
\* the steps that touch neither leases nor the thread order.
LEMMA QuietStep ==
  ASSUME IInv, TypeOK',
         UNCHANGED <<state, createdAt, leaseOwner, leaseToken, granted, overtaken>>,
         \A r \in Runs : leaseLive'[r] => state[r] \in LeasedStates,
         \A r \in Runs : \A k \in Kinds :
           \/ request'[r][k] = request[r][k]
           \/ request[r][k] = "pending" /\ request'[r][k] = "expired"
  PROVE  IInv'
<1> USE DEF IInv
<1>1. LeaseMatchesState'
  BY DEF LeaseMatchesState
<1>2. IsFiniteSet(granted)' /\ GrantedStarted' /\ DispatchedOnce'
  BY DEF GrantedStarted, DispatchedOnce
<1>3. PriorsOver'
  BY DEF PriorsOver, Earlier, Dispatched, Inserted
<1>4. PendingPlace' /\ WaitingHasRequest'
  BY DEF PendingPlace, WaitingHasRequest
<1> QED
  BY <1>1, <1>2, <1>3, <1>4

\* Every transaction that is made under a granted lease.
LEMMA LeaseStepIInv == IInv /\ LeaseStep => IInv'
<1> SUFFICES ASSUME IInv, LeaseStep PROVE IInv'
  OBVIOUS
<1> USE DEF IInv
<1>0. PICK g \in granted :
        \/ renew_lease(g)
        \/ \E outcome \in {"completed", "failed", "interrupted"} : finish_leased_run(g, outcome)
        \/ \E k \in Kinds : create_request(g, k)
        \/ \E safe \in BOOLEAN : create_checkpoint(g, safe)
  BY DEF LeaseStep
<1>a. g.run \in Runs
  BY DEF TypeOK, Lease
<1>1. CASE renew_lease(g)
  <2>1. TypeOK'
    BY <1>1, <1>a DEF renew_lease, TypeOK, rowVars
  <2>2. UNCHANGED <<state, createdAt, leaseOwner, leaseToken, granted, overtaken, request>>
    BY <1>1 DEF renew_lease, rowVars
  <2>3. \A r \in Runs : leaseLive'[r] => state[r] \in LeasedStates
    BY <1>1, <1>a DEF renew_lease, LeaseMatches, LeaseMatchesState, TypeOK
  <2> QED
    BY <2>1, <2>2, <2>3, QuietStep
<1>2. ASSUME NEW outcome \in {"completed", "failed", "interrupted"},
             finish_leased_run(g, outcome)
      PROVE  IInv'
  <2>1. EndLeases({g.run}, outcome) /\ UNCHANGED <<request, expiring>>
    BY <1>2 DEF finish_leased_run
  <2>2. \A r \in {g.run} : state[r] \in LeasedStates
    BY <1>2 DEF finish_leased_run, verify_lease, LeaseMatches
  <2>3. /\ request' \in [Runs -> [Kinds -> RequestStatus]]
        /\ expiring' \in [Runs -> [Kinds -> {"none", "listed", "confirmed"}]]
        /\ \A q \in Runs : \A k \in Kinds : request'[q][k] = request[q][k]
    BY <2>1 DEF TypeOK
  <2>4. {g.run} \in SUBSET Runs
    BY <1>a
  <2> QED
    BY <2>1, <2>2, <2>3, <2>4, EndLeasesIInv
<1>3. ASSUME NEW k \in Kinds, create_request(g, k)
      PROVE  IInv'
  <2> DEFINE r == g.run
  <2>1. /\ r \in Runs /\ state[r] = "running" /\ WaitState(k) \in LeasedStates
        /\ request' = [request EXCEPT ![r][k] = "pending"]
        /\ state' = [state EXCEPT ![r] = WaitState(k)]
    BY <1>3, <1>a, StateSets DEF create_request
  <2>2. UNCHANGED <<createdAt, initial, clock, assigned, leaseOwner, leaseToken, leaseLive,
                    granted, checkpoint, expiring, activeRuns, overtaken>>
    BY <1>3 DEF create_request, leaseVars
  <2> HIDE DEF r
  <2>3. TypeOK'
    BY <2>1, <2>2 DEF TypeOK, LeasedStates, RunState, RequestStatus
  <2>4. LeaseMatchesState'
    BY <2>1, <2>2 DEF LeaseMatchesState, TypeOK, LeasedStates
  <2>5. IsFiniteSet(granted)' /\ DispatchedOnce'
    BY <2>2 DEF DispatchedOnce
  <2>6. GrantedStarted'
    BY <2>1, <2>2, StateSets DEF GrantedStarted, TypeOK, Lease, LeasedStates, Unborn,
                                 ClaimableStates
  <2>7. PriorsOver'
    BY <2>1, <2>2, StateSets DEF PriorsOver, Earlier, Dispatched, Inserted, TypeOK,
                                 is_terminal, Unborn
  <2>8. PendingPlace'
    BY <2>1, <2>2, StateSets, ConstantsAssumption
       DEF PendingPlace, TypeOK, is_terminal, LeasedStates, WaitState
  <2>9. WaitingHasRequest'
    BY <2>1, <2>2, ConstantsAssumption DEF WaitingHasRequest, TypeOK, WaitState
  <2> QED
    BY <2>3, <2>4, <2>5, <2>6, <2>7, <2>8, <2>9
<1>4. ASSUME NEW safe \in BOOLEAN, create_checkpoint(g, safe)
      PROVE  IInv'
  <2>1. TypeOK'
    BY <1>4, <1>a DEF create_checkpoint, TypeOK, rowVars, leaseVars
  <2>2. UNCHANGED <<state, createdAt, leaseOwner, leaseToken, leaseLive, granted,
                    overtaken, request>>
    BY <1>4 DEF create_checkpoint, rowVars, leaseVars
  <2>3. \A r \in Runs : leaseLive'[r] => state[r] \in LeasedStates
    BY <2>2 DEF LeaseMatchesState
  <2> QED
    BY <2>1, <2>2, <2>3, QuietStep
<1> QED
  BY <1>0, <1>1, <1>2, <1>3, <1>4

\* Every step of a claiming process, of a heartbeat and of the reaper.
LEMMA AgentStepIInv == IInv /\ AgentStep => IInv'
<1> SUFFICES ASSUME IInv, AgentStep PROVE IInv'
  OBVIOUS
<1> USE DEF IInv
<1>1. ASSUME NEW w \in Workers, NEW r \in Runs, claim_server_run(w, r)
      PROVE  IInv'
  <2>1. /\ state[r] \in ClaimableStates /\ NoOpenPrior(r) /\ GrantLease(r, w)
        /\ UNCHANGED <<createdAt, initial, clock, checkpoint, request, expiring, overtaken>>
        /\ activeRuns' \in [Executors -> Nat] /\ w \in Agents
    BY <1>1 DEF claim_server_run, ClaimableStates, TypeOK, Agents
  <2> QED
    BY <2>1, GrantIInv
<1>2. ASSUME NEW e \in Executors, NEW r \in Runs, claim_external_run(e, r)
      PROVE  IInv'
  <2>1. /\ state[r] \in ClaimableStates /\ NoOpenPrior(r) /\ GrantLease(r, e)
        /\ UNCHANGED <<createdAt, initial, clock, checkpoint, request, expiring, overtaken>>
        /\ e \in Agents
    BY <1>2 DEF claim_external_run, Agents
  <2>2. activeRuns' \in [Executors -> Nat]
    BY <1>2 DEF claim_external_run, TypeOK
  <2> QED
    BY <2>1, <2>2, GrantIInv
<1>3. ASSUME NEW e \in Executors, NEW r \in Runs, recover_external_run(e, r)
      PROVE  IInv'
  <2>1. CASE EndLeases({r}, "interrupted") /\ UNCHANGED <<request, expiring>>
    <3>1. \A q \in {r} : state[q] \in LeasedStates
      BY <1>3 DEF recover_external_run, Recoverable
    <3>2. /\ request' \in [Runs -> [Kinds -> RequestStatus]]
          /\ expiring' \in [Runs -> [Kinds -> {"none", "listed", "confirmed"}]]
          /\ \A q \in Runs : \A k \in Kinds : request'[q][k] = request[q][k]
      BY <2>1 DEF TypeOK
    <3>3. {r} \in SUBSET Runs
      OBVIOUS
    <3> QED
      BY <2>1, <3>1, <3>2, <3>3, EndLeasesIInv
  <2>2. CASE /\ leaseLive' = [leaseLive EXCEPT ![r] = TRUE]
             /\ UNCHANGED <<rowVars, assigned, leaseOwner, leaseToken, granted,
                            checkpoint, request, expiring, activeRuns, overtaken>>
    <3>1. TypeOK'
      BY <2>2 DEF TypeOK, rowVars
    <3>2. UNCHANGED <<state, createdAt, leaseOwner, leaseToken, granted, overtaken, request>>
      BY <2>2 DEF rowVars
    <3>3. \A q \in Runs : leaseLive'[q] => state[q] \in LeasedStates
      BY <1>3, <2>2 DEF recover_external_run, Recoverable, LeaseMatchesState, TypeOK
    <3> QED
      BY <3>1, <3>2, <3>3, QuietStep
  <2> QED
    BY <1>3, <2>1, <2>2 DEF recover_external_run
<1>4. ASSUME NEW e \in Executors, NEW n \in 0..MaxConcurrent[e], heartbeat_executor(e, n)
      PROVE  IInv'
  <2>1. TypeOK'
    BY <1>4, ConstantsAssumption DEF heartbeat_executor, TypeOK, rowVars, leaseVars
  <2>2. UNCHANGED <<state, createdAt, leaseOwner, leaseToken, leaseLive, granted,
                    overtaken, request>>
    BY <1>4 DEF heartbeat_executor, rowVars, leaseVars
  <2>3. \A r \in Runs : leaseLive'[r] => state[r] \in LeasedStates
    BY <2>2 DEF LeaseMatchesState
  <2> QED
    BY <2>1, <2>2, <2>3, QuietStep
<1>5. CASE interrupt_expired_leases
  <2> DEFINE S == {r \in Runs : state[r] \in LeasedStates /\ ~leaseLive[r]}
  <2>1. EndLeases(S, "interrupted") /\ UNCHANGED <<request, expiring>>
    BY <1>5 DEF interrupt_expired_leases
  <2>2. /\ request' \in [Runs -> [Kinds -> RequestStatus]]
        /\ expiring' \in [Runs -> [Kinds -> {"none", "listed", "confirmed"}]]
        /\ \A q \in Runs : \A k \in Kinds : request'[q][k] = request[q][k]
    BY <2>1 DEF TypeOK
  <2>3. S \in SUBSET Runs /\ \A r \in S : state[r] \in LeasedStates
    OBVIOUS
  <2> HIDE DEF S
  <2> QED
    BY <2>1, <2>2, <2>3, EndLeasesIInv
<1> QED
  BY <1>1, <1>2, <1>3, <1>4, <1>5 DEF AgentStep

\* Every step of a user, of the clock and of the expiry pass.
LEMMA RunStepIInv == IInv /\ RunStep => IInv'
<1> SUFFICES ASSUME IInv, NEW r \in Runs,
               \/ prepare_run(r)
               \/ create_run(r)
               \/ cancel_run(r)
               \/ resume_snapshot_run(r)
               \/ LeaseExpires(r)
               \/ \E k \in Kinds :
                    \/ answer_request(r, k)
                    \/ expire_request(r, k)
                    \/ expire_read_run(r, k)
                    \/ expire_run(r, k)
                    \/ expire_forgotten(r, k)
             PROVE  IInv'
  BY DEF RunStep
<1> USE DEF IInv
<1>1. CASE prepare_run(r)
  <2>1. /\ state[r] = "absent" /\ state' = [state EXCEPT ![r] = "prepared"]
        /\ createdAt' = [createdAt EXCEPT ![r] = clock]
        /\ UNCHANGED <<leaseOwner, leaseToken, leaseLive, granted, request, overtaken>>
    BY <1>1 DEF prepare_run, leaseVars
  <2>2. TypeOK'
    <3>1. initial' \in [Runs -> ClaimableStates \cup {"waiting_for_snapshot"}]
      BY <1>1 DEF prepare_run, TypeOK, initial_run_state, ClaimableStates
    <3> QED
      BY <1>1, <3>1 DEF prepare_run, TypeOK, leaseVars, Unborn
  <2>3. \A g \in granted : g.run # r
    BY <2>1 DEF GrantedStarted, Unborn
  <2>4. LeaseMatchesState'
    BY <2>1 DEF LeaseMatchesState, TypeOK, LeasedStates
  <2>5. IsFiniteSet(granted)' /\ DispatchedOnce' /\ GrantedStarted'
    BY <2>1, <2>3 DEF DispatchedOnce, GrantedStarted, TypeOK, Lease
  <2>6. PriorsOver'
    BY <2>1, <2>3 DEF PriorsOver, Earlier, Dispatched, Inserted, TypeOK, Unborn
  <2>7. PendingPlace' /\ WaitingHasRequest'
    BY <2>1, StateSets DEF PendingPlace, WaitingHasRequest, TypeOK, LeasedStates, is_terminal
  <2> QED
    BY <2>2, <2>4, <2>5, <2>6, <2>7
<1>2. CASE create_run(r)
  <2>1. /\ state[r] = "prepared" /\ state' = [state EXCEPT ![r] = initial[r]]
        /\ UNCHANGED <<createdAt, leaseOwner, leaseToken, leaseLive, granted, request>>
        /\ overtaken \subseteq overtaken'
        /\ (\E q \in Runs : Earlier(r, q) /\ Dispatched(q)) => r \in overtaken'
        /\ overtaken' \subseteq Runs
    BY <1>2 DEF create_run, leaseVars, TypeOK
  <2>2. initial[r] \in ClaimableStates \cup {"waiting_for_snapshot"}
    BY DEF TypeOK
  <2>3. TypeOK'
    BY <1>2, <2>1, <2>2 DEF create_run, TypeOK, leaseVars, RunState, ClaimableStates
  <2>4. \A g \in granted : g.run # r
    BY <2>1 DEF GrantedStarted, Unborn
  <2>5. LeaseMatchesState'
    BY <2>1, <2>2 DEF LeaseMatchesState, TypeOK, LeasedStates, ClaimableStates
  <2>6. IsFiniteSet(granted)' /\ DispatchedOnce' /\ GrantedStarted'
    BY <2>1, <2>4 DEF DispatchedOnce, GrantedStarted, TypeOK, Lease
  <2>7. PriorsOver'
    <3> SUFFICES ASSUME NEW p \in Runs, NEW q \in Runs, Earlier(p, q), Dispatched(q),
                        Inserted(p)', p \notin overtaken'
                 PROVE  is_terminal(state'[p])
      BY <2>1 DEF PriorsOver, Earlier, Dispatched
    <3>1. p # r
      BY <2>1
    <3>2. state'[p] = state[p] /\ Inserted(p) /\ p \notin overtaken
      BY <2>1, <3>1 DEF TypeOK, Inserted
    <3> QED
      BY <3>2 DEF PriorsOver
  <2>8. PendingPlace' /\ WaitingHasRequest'
    BY <2>1, <2>2, StateSets
       DEF PendingPlace, WaitingHasRequest, TypeOK, LeasedStates, is_terminal, ClaimableStates
  <2> QED
    BY <2>3, <2>5, <2>6, <2>7, <2>8
<1>3. CASE cancel_run(r)
  <2>1. transition_run(r, "canceled") /\ UNCHANGED request
    BY <1>3 DEF cancel_run
  <2>2. expiring' \in [Runs -> [Kinds -> {"none", "listed", "confirmed"}]]
    BY <1>3 DEF cancel_run, TypeOK
  <2> QED
    BY <2>1, <2>2, TerminalTransitionIInv
<1>4. CASE resume_snapshot_run(r)
  <2>1. PICK s \in initial_run_state(r) \ {"waiting_for_snapshot"} : transition_run(r, s)
    BY <1>4 DEF resume_snapshot_run
  <2>2. s \in ClaimableStates /\ ~is_terminal(s)
    BY DEF initial_run_state, ClaimableStates, is_terminal
  <2>3. /\ state[r] = "waiting_for_snapshot" /\ state' = [state EXCEPT ![r] = s]
        /\ UNCHANGED <<createdAt, initial, clock, assigned, leaseOwner, leaseToken, leaseLive,
                       granted, checkpoint, request, expiring, activeRuns, overtaken>>
    BY <1>4, <2>1, <2>2 DEF resume_snapshot_run, transition_run
  <2>4. TypeOK'
    BY <2>2, <2>3 DEF TypeOK, RunState, ClaimableStates
  <2>5. \A g \in granted : g.run # r
    BY <2>3 DEF GrantedStarted
  <2>6. LeaseMatchesState'
    BY <2>2, <2>3 DEF LeaseMatchesState, TypeOK, LeasedStates, ClaimableStates
  <2>7. IsFiniteSet(granted)' /\ DispatchedOnce' /\ GrantedStarted'
    BY <2>3, <2>5 DEF DispatchedOnce, GrantedStarted, TypeOK, Lease
  <2>8. PriorsOver'
    BY <2>2, <2>3, <2>5
       DEF PriorsOver, Earlier, Dispatched, Inserted, TypeOK, Unborn, is_terminal
  <2>9. PendingPlace' /\ WaitingHasRequest'
    BY <2>2, <2>3, StateSets
       DEF PendingPlace, WaitingHasRequest, TypeOK, LeasedStates, is_terminal, ClaimableStates
  <2> QED
    BY <2>4, <2>6, <2>7, <2>8, <2>9
<1>5. CASE LeaseExpires(r)
  <2>1. TypeOK'
    BY <1>5 DEF LeaseExpires, TypeOK, rowVars
  <2>2. UNCHANGED <<state, createdAt, leaseOwner, leaseToken, granted, overtaken, request>>
    BY <1>5 DEF LeaseExpires, rowVars
  <2>3. \A q \in Runs : leaseLive'[q] => state[q] \in LeasedStates
    BY <1>5 DEF LeaseExpires, LeaseMatchesState, TypeOK
  <2> QED
    BY <2>1, <2>2, <2>3, QuietStep
<1>6. ASSUME NEW k \in Kinds, answer_request(r, k)
      PROVE  IInv'
  <2>1. /\ request[r][k] = "pending" /\ state[r] = WaitState(k)
        /\ request' = [request EXCEPT ![r][k] = "answered"]
        /\ UNCHANGED expiring /\ WaitState(k) \in LeasedStates
    BY <1>6, StateSets DEF answer_request, resume_waiting_run
  <2>2. /\ request' \in [Runs -> [Kinds -> RequestStatus]]
        /\ \A q \in Runs : \A j \in Kinds :
             request'[q][j] = request[q][j] \/ (q \in {r} /\ request'[q][j] # "pending")
    BY <2>1 DEF TypeOK, RequestStatus
  <2>3. CASE EndLeases({r}, "interrupted")
    <3>1. {r} \in SUBSET Runs /\ \A q \in {r} : state[q] \in LeasedStates
      BY <2>1
    <3>2. expiring' \in [Runs -> [Kinds -> {"none", "listed", "confirmed"}]]
      BY <2>1 DEF TypeOK
    <3> QED
      BY <2>2, <2>3, <3>1, <3>2, EndLeasesIInv
  <2>4. CASE /\ state' = [state EXCEPT ![r] = "running"]
             /\ UNCHANGED <<createdAt, initial, clock, leaseVars, checkpoint,
                            activeRuns, overtaken>>
    <3>1. UNCHANGED <<createdAt, initial, clock, assigned, leaseOwner, leaseToken, leaseLive,
                      granted, checkpoint, expiring, activeRuns, overtaken>>
      BY <2>1, <2>4 DEF leaseVars
    <3>2. TypeOK'
      BY <2>2, <2>4, <3>1 DEF TypeOK, RunState
    <3>3. LeaseMatchesState'
      BY <2>1, <2>4, <3>1 DEF LeaseMatchesState, TypeOK, LeasedStates
    <3>4. IsFiniteSet(granted)' /\ DispatchedOnce'
      BY <3>1 DEF DispatchedOnce
    <3>5. GrantedStarted'
      BY <2>4, <3>1 DEF GrantedStarted, TypeOK, Lease, Unborn, ClaimableStates
    <3>6. PriorsOver'
      BY <2>1, <2>4, <3>1, StateSets
         DEF PriorsOver, Earlier, Dispatched, Inserted, TypeOK, is_terminal, Unborn
    <3>7. PendingPlace'
      BY <2>1, <2>4, StateSets, ConstantsAssumption
         DEF PendingPlace, TypeOK, is_terminal, LeasedStates, WaitState
    <3>8. WaitingHasRequest'
      BY <2>1, <2>4, ConstantsAssumption DEF WaitingHasRequest, TypeOK, WaitState
    <3> QED
      BY <3>2, <3>3, <3>4, <3>5, <3>6, <3>7, <3>8
  <2> QED
    BY <1>6, <2>3, <2>4 DEF answer_request, resume_waiting_run
<1>7. ASSUME NEW k \in Kinds, expire_request(r, k)
      PROVE  IInv'
  <2>1. TypeOK'
    BY <1>7 DEF expire_request, TypeOK, rowVars, leaseVars, RequestStatus
  <2>2. UNCHANGED <<state, createdAt, leaseOwner, leaseToken, leaseLive, granted, overtaken>>
    BY <1>7 DEF expire_request, rowVars, leaseVars
  <2>3. \A q \in Runs : leaseLive'[q] => state[q] \in LeasedStates
    BY <2>2 DEF LeaseMatchesState
  <2>4. \A q \in Runs : \A j \in Kinds :
          \/ request'[q][j] = request[q][j]
          \/ request[q][j] = "pending" /\ request'[q][j] = "expired"
    BY <1>7 DEF expire_request, TypeOK
  <2> QED
    BY <2>1, <2>2, <2>3, <2>4, QuietStep
<1>8. ASSUME NEW k \in Kinds, expire_read_run(r, k) \/ expire_forgotten(r, k)
      PROVE  IInv'
  <2>a. \E v \in {"none", "confirmed"} : expiring' = [expiring EXCEPT ![r][k] = v]
    BY <1>8 DEF expire_read_run, expire_forgotten
  <2>b. UNCHANGED <<rowVars, leaseVars, checkpoint, request, activeRuns, overtaken>>
    BY <1>8 DEF expire_read_run, expire_forgotten
  <2>1. TypeOK'
    BY <2>a, <2>b DEF TypeOK, rowVars, leaseVars
  <2>2. UNCHANGED <<state, createdAt, leaseOwner, leaseToken, leaseLive, granted,
                    overtaken, request>>
    BY <1>8 DEF expire_read_run, expire_forgotten, rowVars, leaseVars
  <2>3. \A q \in Runs : leaseLive'[q] => state[q] \in LeasedStates
    BY <2>2 DEF LeaseMatchesState
  <2> QED
    BY <2>1, <2>2, <2>3, QuietStep
<1>9. ASSUME NEW k \in Kinds, expire_run(r, k)
      PROVE  IInv'
  <2>1. /\ expiring' \in [Runs -> [Kinds -> {"none", "listed", "confirmed"}]]
        /\ UNCHANGED request
    BY <1>9 DEF expire_run, TypeOK
  <2>2. CASE transition_run(r, "expired")
    BY <2>1, <2>2, TerminalTransitionIInv
  <2>3. CASE UNCHANGED <<rowVars, leaseVars, checkpoint, activeRuns, overtaken>>
    <3>1. TypeOK'
      BY <2>1, <2>3 DEF TypeOK, rowVars, leaseVars
    <3>2. UNCHANGED <<state, createdAt, leaseOwner, leaseToken, leaseLive, granted,
                      overtaken, request>>
      BY <2>1, <2>3 DEF rowVars, leaseVars
    <3>3. \A q \in Runs : leaseLive'[q] => state[q] \in LeasedStates
      BY <3>2 DEF LeaseMatchesState
    <3> QED
      BY <3>1, <3>2, <3>3, QuietStep
  <2> QED
    BY <1>9, <2>2, <2>3 DEF expire_run
<1> QED
  BY <1>1, <1>2, <1>3, <1>4, <1>5, <1>6, <1>7, <1>8, <1>9

\* Init and every step, together.
LEMMA StepIInv == IInv /\ [Next]_vars => IInv'
<1> SUFFICES ASSUME IInv, [Next]_vars PROVE IInv'
  OBVIOUS
<1>1. CASE UNCHANGED vars
  BY <1>1 DEF vars, IInv, TypeOK, LeaseMatchesState, GrantedStarted, DispatchedOnce,
              PriorsOver, Earlier, Dispatched, Inserted, PendingPlace, WaitingHasRequest
<1>2. CASE Next
  BY <1>2, LeaseStepIInv, RunStepIInv, AgentStepIInv DEF Next
<1> QED
  BY <1>1, <1>2

\* The inductive invariant holds throughout every behaviour of the queue.
THEOREM QueueInvariant == Spec => []IInv
BY InitIInv, StepIInv, PTL DEF Spec

\* Type correctness of every column, for every instance.
THEOREM TypeCorrect == Spec => []TypeOK
BY QueueInvariant, PTL DEF IInv

\* A row carries a lease, the one its claim returned, exactly in the leased
\* states: cancel, expiry, recovery, the reaper and late answers all clear it.
THEOREM LeaseCorrect == Spec => []LeaseMatchesState
BY QueueInvariant, PTL DEF IInv

\* Exactly-once dispatch: no run is handed out by two claims.
THEOREM ExactlyOnceDispatch == Spec => []DispatchedOnce
BY QueueInvariant, PTL DEF IInv

\* What the invariant says about leases, thread order and open questions.
LEMMA QueuePromises ==
  ASSUME IInv
  PROVE  LeaseMatchesState /\ DispatchedOnce /\ SerialUnlessOvertaken /\ WaitsForOpenRequest
<1>1. SerialUnlessOvertaken
  <2> SUFFICES ASSUME NEW p \in Runs, NEW r \in Runs, Earlier(p, r),
                      state[p] \in LeasedStates, state[r] \in LeasedStates
               PROVE  p \in overtaken
    BY DEF SerialUnlessOvertaken
  <2>1. Dispatched(r)
    BY DEF IInv, LeaseMatchesState, Dispatched
  <2>2. Inserted(p) /\ ~is_terminal(state[p])
    BY StateSets DEF Inserted
  <2> QED
    BY <2>1, <2>2 DEF IInv, PriorsOver
<1>2. WaitsForOpenRequest
  BY ConstantsAssumption
     DEF IInv, WaitsForOpenRequest, PendingPlace, WaitingHasRequest, WaitState, is_terminal
<1> QED
  BY <1>1, <1>2 DEF IInv

\* Two runs of a thread are leased together only when the earlier-stamped one
\* was inserted after the later one had been claimed.
THEOREM ThreadOrder == Spec => []SerialUnlessOvertaken
BY QueueInvariant, QueuePromises, PTL

\* A running run has no open question and no run waits for an answered one.
THEOREM RequestsAgree == Spec => []WaitsForOpenRequest
BY QueueInvariant, QueuePromises, PTL
-----------------------------------------------------------------------------
\* What one step may do to run r: its state stays, it is created, it is
\* claimed and thereby assigned, or it makes a transition the contract allows
\* other than back from interrupted to the queue.
StepOf(r) ==
  \/ state'[r] = state[r] /\ assigned'[r] = assigned[r]
  \/ state[r] = "absent" /\ state'[r] = "prepared" /\ assigned'[r] = assigned[r]
  \/ /\ state[r] = "prepared" /\ assigned'[r] = assigned[r]
     /\ state'[r] \in ClaimableStates \cup {"waiting_for_snapshot"}
  \/ state[r] \in ClaimableStates /\ state'[r] = "running" /\ assigned'[r] \in Agents
  \/ /\ state[r] = "waiting_for_snapshot" /\ assigned'[r] = assigned[r]
     /\ state'[r] \in ClaimableStates
  \/ state[r] \in LeasedStates /\ state'[r] \in LeasedStates /\ assigned'[r] = assigned[r]
       /\ can_transition_to(state[r], state'[r])
  \/ /\ state[r] \in LeasedStates /\ assigned'[r] = assigned[r]
     /\ state'[r] \in {"interrupted", "completed", "failed"}
     /\ can_transition_to(state[r], state'[r])
  \/ /\ Inserted(r) /\ assigned'[r] = assigned[r]
     /\ state'[r] \in {"canceled", "expired"}
     /\ can_transition_to(state[r], state'[r])

\* Ending the leases of a set of runs is such a step for every run.
LEMMA EndLeasesShape ==
  ASSUME IInv, NEW S \in SUBSET Runs, NEW s \in {"interrupted", "completed", "failed"},
         EndLeases(S, s),
         \A r \in S : state[r] \in LeasedStates /\ can_transition_to(state[r], s)
  PROVE  \A r \in Runs : StepOf(r)
BY DEF EndLeases, StepOf, IInv, TypeOK

\* Every step of the queue does to every run one of the things listed.
LEMMA StepShape == IInv /\ [Next]_vars => \A r \in Runs : StepOf(r)
<1> SUFFICES ASSUME IInv, [Next]_vars PROVE \A r \in Runs : StepOf(r)
  OBVIOUS
<1> USE DEF IInv
<1>i. \A s \in LeasedStates : can_transition_to(s, "interrupted")
  BY DEF LeasedStates, can_transition_to, Successors
<1>0. CASE UNCHANGED <<state, assigned>>
  BY <1>0 DEF StepOf
<1>1. CASE LeaseStep
  <2>0. PICK g \in granted :
          \/ renew_lease(g)
          \/ \E outcome \in {"completed", "failed", "interrupted"} : finish_leased_run(g, outcome)
          \/ \E k \in Kinds : create_request(g, k)
          \/ \E safe \in BOOLEAN : create_checkpoint(g, safe)
    BY <1>1 DEF LeaseStep
  <2>a. g.run \in Runs
    BY DEF TypeOK, Lease
  <2>1. CASE renew_lease(g) \/ \E safe \in BOOLEAN : create_checkpoint(g, safe)
    BY <2>1, <1>0 DEF renew_lease, create_checkpoint, rowVars, leaseVars
  <2>2. ASSUME NEW outcome \in {"completed", "failed", "interrupted"},
               finish_leased_run(g, outcome)
        PROVE  \A r \in Runs : StepOf(r)
    <3>1. {g.run} \in SUBSET Runs /\ EndLeases({g.run}, outcome)
      BY <2>2, <2>a DEF finish_leased_run
    <3>2. \A r \in {g.run} : state[r] \in LeasedStates /\ can_transition_to(state[r], outcome)
      BY <2>2 DEF finish_leased_run, verify_lease, LeaseMatches
    <3> QED
      BY <3>1, <3>2, EndLeasesShape
  <2>3. ASSUME NEW k \in Kinds, create_request(g, k)
        PROVE  \A r \in Runs : StepOf(r)
    <3>1. can_transition_to("running", WaitState(k)) /\ WaitState(k) \in LeasedStates
      BY StateSets DEF can_transition_to, Successors, WaitState
    <3>2. /\ state[g.run] = "running" /\ state' = [state EXCEPT ![g.run] = WaitState(k)]
          /\ assigned' = assigned
      BY <2>3 DEF create_request, leaseVars
    <3> QED
      BY <2>a, <3>1, <3>2 DEF StepOf, TypeOK, LeasedStates
  <2> QED
    BY <2>0, <2>1, <2>2, <2>3
<1>2. CASE AgentStep
  <2>1. ASSUME NEW a \in Agents, NEW r \in Runs, state[r] \in ClaimableStates, GrantLease(r, a)
        PROVE  \A q \in Runs : StepOf(q)
    BY <2>1 DEF GrantLease, StepOf, TypeOK
  <2>2. ASSUME NEW w \in Workers, NEW r \in Runs, claim_server_run(w, r)
        PROVE  \A q \in Runs : StepOf(q)
    BY <2>1, <2>2 DEF claim_server_run, Agents, ClaimableStates
  <2>3. ASSUME NEW e \in Executors, NEW r \in Runs, claim_external_run(e, r)
        PROVE  \A q \in Runs : StepOf(q)
    BY <2>1, <2>3 DEF claim_external_run, Agents
  <2>4. ASSUME NEW e \in Executors, NEW r \in Runs, recover_external_run(e, r)
        PROVE  \A q \in Runs : StepOf(q)
    <3>1. {r} \in SUBSET Runs /\ \A q \in {r} : state[q] \in LeasedStates
      BY <2>4 DEF recover_external_run, Recoverable
    <3>2. CASE EndLeases({r}, "interrupted")
      BY <1>i, <3>1, <3>2, EndLeasesShape
    <3>3. CASE UNCHANGED <<rowVars, assigned>>
      BY <3>3, <1>0 DEF rowVars
    <3> QED
      BY <2>4, <3>2, <3>3 DEF recover_external_run
  <2>5. CASE interrupt_expired_leases
    <3> DEFINE S == {r \in Runs : state[r] \in LeasedStates /\ ~leaseLive[r]}
    <3>1. S \in SUBSET Runs /\ \A r \in S : state[r] \in LeasedStates
      OBVIOUS
    <3>2. EndLeases(S, "interrupted")
      BY <2>5 DEF interrupt_expired_leases
    <3> HIDE DEF S
    <3> QED
      BY <1>i, <3>1, <3>2, EndLeasesShape
  <2>6. ASSUME NEW e \in Executors, NEW n \in 0..MaxConcurrent[e], heartbeat_executor(e, n)
        PROVE  \A q \in Runs : StepOf(q)
    BY <2>6, <1>0 DEF heartbeat_executor, rowVars, leaseVars
  <2> QED
    BY <1>2, <2>2, <2>3, <2>4, <2>5, <2>6 DEF AgentStep
<1>3. ASSUME NEW r \in Runs,
             \/ prepare_run(r) \/ create_run(r) \/ cancel_run(r)
             \/ resume_snapshot_run(r) \/ LeaseExpires(r)
      PROVE  \A q \in Runs : StepOf(q)
  <2>1. CASE prepare_run(r)
    BY <2>1 DEF prepare_run, leaseVars, StepOf, TypeOK
  <2>2. CASE create_run(r)
    BY <2>2 DEF create_run, leaseVars, StepOf, TypeOK
  <2>3. CASE cancel_run(r)
    BY <2>3 DEF cancel_run, transition_run, StepOf, TypeOK
  <2>4. CASE resume_snapshot_run(r)
    <3>1. PICK s \in initial_run_state(r) \ {"waiting_for_snapshot"} : transition_run(r, s)
      BY <2>4 DEF resume_snapshot_run
    <3>2. s \in ClaimableStates
      BY DEF initial_run_state, ClaimableStates
    <3> QED
      BY <2>4, <3>1, <3>2 DEF resume_snapshot_run, transition_run, StepOf, TypeOK
  <2>5. CASE LeaseExpires(r)
    BY <2>5, <1>0 DEF LeaseExpires, rowVars
  <2> QED
    BY <1>3, <2>1, <2>2, <2>3, <2>4, <2>5
<1>4. ASSUME NEW r \in Runs, NEW k \in Kinds,
             \/ answer_request(r, k) \/ expire_request(r, k) \/ expire_read_run(r, k)
             \/ expire_run(r, k) \/ expire_forgotten(r, k)
      PROVE  \A q \in Runs : StepOf(q)
  <2>1. CASE answer_request(r, k)
    <3>1. state[r] = WaitState(k) /\ WaitState(k) \in LeasedStates
      BY <2>1, StateSets DEF answer_request, resume_waiting_run
    <3>2. CASE EndLeases({r}, "interrupted")
      <4>1. /\ {r} \in SUBSET Runs
            /\ \A q \in {r} : state[q] \in LeasedStates /\ can_transition_to(state[q], "interrupted")
        BY <3>1, <1>i
      <4> QED
        BY <3>2, <4>1, EndLeasesShape
    <3>3. CASE state' = [state EXCEPT ![r] = "running"] /\ UNCHANGED assigned
      <4>1. can_transition_to(WaitState(k), "running") /\ "running" \in LeasedStates
        BY DEF can_transition_to, Successors, WaitState, LeasedStates
      <4> QED
        BY <3>1, <3>3, <4>1 DEF StepOf, TypeOK
    <3> QED
      BY <2>1, <3>2, <3>3 DEF answer_request, resume_waiting_run, leaseVars
  <2>2. CASE expire_request(r, k) \/ expire_read_run(r, k) \/ expire_forgotten(r, k)
    BY <2>2, <1>0 DEF expire_request, expire_read_run, expire_forgotten, rowVars, leaseVars
  <2>3. CASE expire_run(r, k)
    <3>1. CASE transition_run(r, "expired")
      BY <3>1 DEF transition_run, StepOf, TypeOK
    <3>2. CASE UNCHANGED <<rowVars, leaseVars>>
      BY <3>2, <1>0 DEF rowVars, leaseVars
    <3> QED
      BY <2>3, <3>1, <3>2 DEF expire_run
  <2> QED
    BY <1>4, <2>1, <2>2, <2>3
<1>5. CASE UNCHANGED vars
  BY <1>5, <1>0 DEF vars
<1> QED
  BY <1>1, <1>2, <1>3, <1>4, <1>5 DEF Next, RunStep

\* A step changes the state of an inserted run along the contract, if at all.
LEMMA LegalStep ==
  ASSUME IInv, [Next]_vars
  PROVE  \A r \in Runs : Inserted(r) => can_transition_to(state[r], state'[r])
<1> SUFFICES ASSUME NEW r \in Runs, Inserted(r)
             PROVE  can_transition_to(state[r], state'[r])
  OBVIOUS
<1>1. StepOf(r)
  BY StepShape
<1>2. /\ \A s \in ClaimableStates : can_transition_to(s, "running")
      /\ \A s \in ClaimableStates : can_transition_to("waiting_for_snapshot", s)
  BY DEF ClaimableStates, can_transition_to, Successors
<1>3. can_transition_to(state[r], state[r])
  BY DEF can_transition_to
<1> QED
  BY <1>1, <1>2, <1>3 DEF StepOf, Inserted, Unborn

\* Every state change of an inserted run is one the contract allows, also the
\* ones the SQL makes without asking ensure_run_transition.
THEOREM ContractRespected == Spec => LegalTransitions
<1>1. IInv /\ [Next]_vars =>
        [\A r \in Runs : Inserted(r) => can_transition_to(state[r], state'[r])]_vars
  BY LegalStep
<1> QED
  BY <1>1, QueueInvariant, PTL DEF Spec, LegalTransitions

\* Phase by phase: a step leaves a run where it is or moves it forward, and
\* assigns it exactly when it becomes held.
LEMMA PhaseStep ==
  ASSUME IInv, IInv', NEW r \in Runs, StepOf(r)
  PROVE  \/ PhaseOf(state'[r]) = PhaseOf(state[r]) /\ assigned'[r] = assigned[r]
         \/ /\ PhaseOf(state'[r]) # PhaseOf(state[r])
            /\ PhaseOf(state'[r]) \in Phases!Later(PhaseOf(state[r]))
            /\ IF PhaseOf(state'[r]) = "held" THEN assigned'[r] \in Agents
                                               ELSE assigned'[r] = assigned[r]
<1>1. state[r] \in RunState \cup Unborn /\ state'[r] \in RunState \cup Unborn
  BY DEF IInv, TypeOK
<1>2. CASE state'[r] = state[r] /\ assigned'[r] = assigned[r]
  BY <1>2
<1>3. CASE \/ state[r] = "absent" /\ state'[r] = "prepared" /\ assigned'[r] = assigned[r]
           \/ /\ state[r] = "waiting_for_snapshot" /\ assigned'[r] = assigned[r]
              /\ state'[r] \in ClaimableStates
           \/ state[r] \in LeasedStates /\ state'[r] \in LeasedStates /\ assigned'[r] = assigned[r]
  BY <1>3 DEF PhaseOf, Unborn, ClaimableStates, LeasedStates
<1>4. CASE /\ state[r] = "prepared" /\ assigned'[r] = assigned[r]
           /\ state'[r] \in ClaimableStates \cup {"waiting_for_snapshot"}
  BY <1>4 DEF PhaseOf, Unborn, ClaimableStates, LeasedStates, Phases!Later
<1>5. CASE state[r] \in ClaimableStates /\ state'[r] = "running" /\ assigned'[r] \in Agents
  BY <1>5 DEF PhaseOf, Unborn, ClaimableStates, LeasedStates, Phases!Later
<1>6. CASE /\ state[r] \in LeasedStates /\ assigned'[r] = assigned[r]
           /\ state'[r] \in {"interrupted", "completed", "failed"}
  BY <1>6 DEF PhaseOf, Unborn, ClaimableStates, LeasedStates, Phases!Later
<1>7. CASE /\ Inserted(r) /\ assigned'[r] = assigned[r]
           /\ state'[r] \in {"canceled", "expired"}
           /\ can_transition_to(state[r], state'[r])
  <2>1. PhaseOf(state'[r]) = "done"
    BY <1>7 DEF PhaseOf, Unborn, ClaimableStates, LeasedStates
  <2>2. PhaseOf(state[r]) \in {"waiting", "held", "stopped", "done"}
    BY <1>1, <1>7 DEF PhaseOf, Inserted
  <2> QED
    BY <1>7, <2>1, <2>2 DEF Phases!Later
<1> QED
  BY <1>2, <1>3, <1>4, <1>5, <1>6, <1>7 DEF StepOf

\* A step of the queue advances some runs of the abstract life cycle, or none.
LEMMA PhasesStep ==
  ASSUME IInv, IInv', [Next]_vars
  PROVE  [Phases!Next]_<<[r \in Runs |-> PhaseOf(state[r])], assigned>>
<1> SUFFICES ASSUME ~UNCHANGED <<[r \in Runs |-> PhaseOf(state[r])], assigned>>
             PROVE  Phases!Next
  OBVIOUS
<1> DEFINE S == {r \in Runs : PhaseOf(state'[r]) # PhaseOf(state[r])}
<1>1. \A r \in Runs : StepOf(r)
  BY StepShape
<1>2. \A r \in Runs :
        IF r \in S
          THEN /\ PhaseOf(state'[r]) \in Phases!Later(PhaseOf(state[r]))
               /\ IF PhaseOf(state'[r]) = "held" THEN assigned'[r] \in Agents
                                                  ELSE assigned'[r] = assigned[r]
          ELSE PhaseOf(state'[r]) = PhaseOf(state[r]) /\ assigned'[r] = assigned[r]
  BY <1>1, PhaseStep
<1>3. S # {}
  <2> SUFFICES ASSUME S = {} PROVE FALSE
    OBVIOUS
  <2>1. \A r \in Runs : PhaseOf(state'[r]) = PhaseOf(state[r]) /\ assigned'[r] = assigned[r]
    BY <1>2
  <2>2. assigned' = assigned
    BY <2>1 DEF IInv, TypeOK
  <2>3. [r \in Runs |-> PhaseOf(state[r])]' = [r \in Runs |-> PhaseOf(state[r])]
    BY <2>1
  <2> QED
    BY <2>2, <2>3
<1>4. [r \in Runs |-> PhaseOf(state'[r])] \in [Runs -> Phases!Phase]
  BY DEF PhaseOf, Phases!Phase
<1>5. assigned' \in [Runs -> Agents \cup {NoAgent}]
  BY DEF IInv, TypeOK
<1>6. S \in SUBSET Runs
  OBVIOUS
<1> HIDE DEF S
<1>7. Phases!Advance(S)
  BY <1>2, <1>3, <1>4, <1>5, <1>6 DEF Phases!Advance
<1> QED
  BY <1>6, <1>7 DEF Phases!Next

\* The queue implements the abstract one-pass life cycle: a run is given to
\* at most one executor, once, and never moves back.
THEOREM Refinement == Spec => ImplementsPhases
<1>1. Init => Phases!Init
  <2>1. PhaseOf("absent") = "new"
    BY DEF PhaseOf, Unborn, ClaimableStates, LeasedStates
  <2> QED
    BY <2>1 DEF Init, Phases!Init
<1>2. IInv /\ IInv' /\ [Next]_vars =>
        [Phases!Next]_<<[r \in Runs |-> PhaseOf(state[r])], assigned>>
  BY PhasesStep
<1> QED
  BY <1>1, <1>2, QueueInvariant, PTL DEF Spec, ImplementsPhases, Phases!Spec
=============================================================================
