---------------------------- MODULE PushDelivery ----------------------------
(***************************************************************************)
(* Push notifications of one account (server/cowork-server/src/push.rs):   *)
(* run events queue deliveries, and the dispatcher of each server process  *)
(* claims one, sends it to every active subscription and records the       *)
(* outcome.  A claim that is older than five minutes is claimed again, so  *)
(* a slow or dead dispatcher can be overtaken.                             *)
(***************************************************************************)
EXTENDS Naturals, FiniteSets

CONSTANTS Deliveries, Subscriptions, Dispatchers,
          MaxAttempts,   \* MAX_DELIVERY_ATTEMPTS
          MaxFaults      \* bound on crashes, failed statements and slow sends

VARIABLES
    subs,       \* subscriptions that are not revoked
    delivery,   \* delivery[q]: [st, attempts, stale], a row of push_deliveries
    proc,       \* proc[p]: the delivery dispatcher p works on
    got,        \* history: got[q][i]: times subscription i was sent delivery q
    reclaimed,  \* history: deliveries claimed again from a dispatcher
    faults      \* crashes, failed statements and slow sends so far

vars == <<subs, delivery, proc, got, reclaimed, faults>>

Resting == [op |-> "rest", q |-> CHOOSE q \in Deliveries : TRUE, todo |-> {}, sent |-> 0, attempts |-> 0]
NotQueued == [st |-> "none", attempts |-> 0, stale |-> FALSE]

Init ==
    /\ subs \in SUBSET Subscriptions
    /\ delivery = [q \in Deliveries |-> NotQueued]
    /\ proc = [p \in Dispatchers |-> Resting]
    /\ got = [q \in Deliveries |-> [i \in Subscriptions |-> 0]]
    /\ reclaimed = {}
    /\ faults = 0

\* append_event_tx: a delivery per event, if anybody has subscribed by then.
queue_delivery(q) ==
    /\ delivery[q].st = "none" /\ subs # {}
    /\ delivery' = [delivery EXCEPT ![q].st = "queued"]
    /\ UNCHANGED <<subs, proc, got, reclaimed, faults>>

\* register and remove; revoking a device's session removes its subscription.
register(i) ==
    /\ i \notin subs
    /\ subs' = subs \cup {i}
    /\ UNCHANGED <<delivery, proc, got, reclaimed, faults>>

remove(i) ==
    /\ i \in subs
    /\ subs' = subs \ {i}
    /\ UNCHANGED <<delivery, proc, got, reclaimed, faults>>

\* A claim grows five minutes old while its dispatcher is slow or gone.
grow_stale(q) ==
    /\ delivery[q].st = "processing" /\ ~delivery[q].stale
    /\ \/ \A p \in Dispatchers : proc[p].op = "rest" \/ proc[p].q # q
       \/ faults < MaxFaults
    /\ faults' = IF \E p \in Dispatchers : proc[p].op # "rest" /\ proc[p].q = q THEN faults + 1 ELSE faults
    /\ delivery' = [delivery EXCEPT ![q].stale = TRUE]
    /\ UNCHANGED <<subs, proc, got, reclaimed>>

\* Mutant: a claim left by a dead dispatcher is never taken over.
Claimable_queued(q) == delivery[q].st = "queued"

\* claim_delivery and the read of the subscriptions that follows it.
Claimable(q) == delivery[q].st = "queued" \/ (delivery[q].st = "processing" /\ delivery[q].stale)

claim_delivery(p, q) ==
    /\ proc[p].op = "rest"
    /\ Claimable(q)
    /\ delivery' = [delivery EXCEPT ![q].st = "processing", ![q].stale = FALSE]
    /\ reclaimed' = IF delivery[q].st = "processing" THEN reclaimed \cup {q} ELSE reclaimed
    /\ proc' = [proc EXCEPT ![p] = [op |-> "claimed", q |-> q, todo |-> {}, sent |-> 0,
                                    attempts |-> delivery[q].attempts]]
    /\ UNCHANGED <<subs, got, faults>>

\* Without a subscription the delivery counts as delivered.
read_subscriptions(p) ==
    /\ proc[p].op = "claimed"
    /\ IF subs = {}
       THEN /\ delivery' = [delivery EXCEPT ![proc[p].q].st = "delivered", ![proc[p].q].stale = FALSE]
            /\ proc' = [proc EXCEPT ![p] = Resting]
       ELSE /\ proc' = [proc EXCEPT ![p].op = "sending", ![p].todo = subs]
            /\ UNCHANGED delivery
    /\ UNCHANGED <<subs, got, reclaimed, faults>>

\* One send; a permanent failure (gone endpoint, unreadable secret) revokes it.
send(p, i, outcome) ==
    /\ proc[p].op = "sending" /\ i \in proc[p].todo
    /\ proc' = [proc EXCEPT ![p].todo = @ \ {i}, ![p].sent = IF outcome = "ok" THEN @ + 1 ELSE @]
    /\ got' = IF outcome = "ok" THEN [got EXCEPT ![proc[p].q][i] = @ + 1] ELSE got
    /\ subs' = IF outcome = "gone" THEN subs \ {i} ELSE subs
    /\ UNCHANGED <<delivery, reclaimed, faults>>

\* Mutant: one failed subscription queues the delivery again for all of them.
Settled_all(p) ==
    IF proc[p].sent > 1
    THEN [st |-> "delivered", attempts |-> delivery[proc[p].q].attempts, stale |-> FALSE]
    ELSE [st |-> IF proc[p].attempts + 1 >= MaxAttempts THEN "failed" ELSE "queued",
          attempts |-> proc[p].attempts + 1, stale |-> FALSE]

\* mark_delivery_success and mark_delivery_failure write WHERE id = $1.
Settled(p) ==
    IF proc[p].sent > 0
    THEN [st |-> "delivered", attempts |-> delivery[proc[p].q].attempts, stale |-> FALSE]
    ELSE [st |-> IF proc[p].attempts + 1 >= MaxAttempts THEN "failed" ELSE "queued",
          attempts |-> proc[p].attempts + 1, stale |-> FALSE]

settle(p) ==
    /\ proc[p].op = "sending" /\ proc[p].todo = {}
    /\ delivery' = [delivery EXCEPT ![proc[p].q] = Settled(p)]
    /\ proc' = [proc EXCEPT ![p] = Resting]
    /\ UNCHANGED <<subs, got, reclaimed, faults>>

\* The process dies or a statement fails: the claim stays until it is stale.
abandon(p) ==
    /\ proc[p].op # "rest"
    /\ faults < MaxFaults
    /\ faults' = faults + 1
    /\ proc' = [proc EXCEPT ![p] = Resting]
    /\ UNCHANGED <<subs, delivery, got, reclaimed>>

Next ==
    \/ \E q \in Deliveries : queue_delivery(q) \/ grow_stale(q)
    \/ \E i \in Subscriptions : register(i) \/ remove(i)
    \/ \E p \in Dispatchers :
          \/ \E q \in Deliveries : claim_delivery(p, q)
          \/ read_subscriptions(p) \/ settle(p) \/ abandon(p)
          \/ \E i \in Subscriptions, outcome \in {"ok", "retry", "gone"} : send(p, i, outcome)

\* run_dispatcher never ends, every send has a timeout, and time passes.
Fairness ==
    /\ \A q \in Deliveries :
          WF_vars(grow_stale(q)) /\ WF_vars(\E p \in Dispatchers : claim_delivery(p, q))
    /\ \A p \in Dispatchers :
          /\ WF_vars(read_subscriptions(p)) /\ WF_vars(settle(p))
          /\ WF_vars(\E i \in Subscriptions, outcome \in {"ok", "retry", "gone"} : send(p, i, outcome))

Spec == Init /\ [][Next]_vars /\ Fairness

-----------------------------------------------------------------------------
(* Properties. *)

\* A device is notified of an event at most once, unless the claim on the
\* delivery was taken over from a dispatcher that had died or was slow.
NotifiedOnce ==
    \A q \in Deliveries, i \in Subscriptions : got[q][i] > 1 => q \in reclaimed

\* Every queued delivery is settled for good: transient failures are given up
\* after the last attempt, and a dispatcher that dies gives its claim back.
Queued(q) == delivery[q].st = "queued"
Final(q) == delivery[q].st \in {"delivered", "failed"}
EveryDeliverySettles == \A q \in Deliveries : Queued(q) ~> Final(q)
=============================================================================
