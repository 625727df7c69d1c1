----------------------------- MODULE Terminals ------------------------------
(***************************************************************************)
(* Interactive terminals of one run on the server's sandbox                *)
(* (server/cowork-server/src/terminal.rs): a session is created with a     *)
(* one-minute ticket, the ticket connects it once, and the relay records   *)
(* its end.  The limit on terminals is read and used in one transaction    *)
(* that takes no lock, so the transactions of two requests overlap.        *)
(***************************************************************************)
EXTENDS Naturals, FiniteSets

CONSTANTS Terms, MaxTerminals   \* MAX_TERMINALS_PER_RUN

VARIABLES
    run,      \* "active" | "over"
    term,     \* term[k]: "none" | "created" | "connected" | "ended" | "failed"
    old,      \* created terminals that are more than a minute old
    request,  \* request[k]: [st, drop], the create_session transaction that makes k
    relay,    \* relay[k]: the stream of k
    overlap,  \* history: two create transactions were open at once
    lost      \* history: connected terminals whose relay never recorded an end

vars == <<run, term, old, request, relay, overlap, lost>>

Init ==
    /\ run = "active"
    /\ term = [k \in Terms |-> "none"]
    /\ old = {}
    /\ request = [k \in Terms |-> [st |-> "none", drop |-> {}]]
    /\ relay = [k \in Terms |-> "none"]
    /\ overlap = FALSE
    /\ lost = {}

Open == {k \in Terms : term[k] \in {"created", "connected"}}

end_run == run = "active" /\ run' = "over" /\ UNCHANGED <<term, old, request, relay, overlap, lost>>

\* A minute passes without a connection: the ticket is dead.
grow_old(k) ==
    /\ term[k] = "created" /\ k \notin old
    /\ old' = old \cup {k}
    /\ UNCHANGED <<run, term, request, relay, overlap, lost>>

\* Mutant: the terminal about to be made is not counted.
BelowLimit_late == Cardinality(Open \ old) <= MaxTerminals

\* create_session checks the run, closes terminals nobody connected to and
\* counts the others; the insert becomes visible with the commit.
BelowLimit == Cardinality(Open \ old) < MaxTerminals

create_session(k) ==
    /\ run = "active" /\ request[k].st = "none"
    /\ BelowLimit
    /\ request' = [request EXCEPT ![k] = [st |-> "counted", drop |-> old]]
    /\ overlap' = (overlap \/ \E j \in Terms : request[j].st = "counted")
    /\ UNCHANGED <<run, term, old, relay, lost>>

create_commit(k) ==
    /\ request[k].st = "counted"
    /\ request' = [request EXCEPT ![k].st = "done"]
    /\ term' = [j \in Terms |-> IF j = k THEN "created"
                                ELSE IF j \in request[k].drop THEN "ended" ELSE term[j]]
    /\ old' = old \ request[k].drop
    /\ UNCHANGED <<run, relay, overlap, lost>>

\* stream spends the ticket and connects the terminal in one transaction.
stream(k) ==
    /\ term[k] = "created" /\ k \notin old
    /\ relay[k] = "none"
    /\ term' = [term EXCEPT ![k] = "connected"]
    /\ relay' = [relay EXCEPT ![k] = "accepted"]
    /\ UNCHANGED <<run, old, request, overlap, lost>>

upgraded(k) ==
    /\ relay[k] = "accepted"
    /\ relay' = [relay EXCEPT ![k] = "live"]
    /\ UNCHANGED <<run, term, old, request, overlap, lost>>

\* The relay ends, in order or with an error, and records it.
relay_end(k, outcome) ==
    /\ relay[k] = "live"
    /\ relay' = [relay EXCEPT ![k] = "closed"]
    /\ term' = [term EXCEPT ![k] = IF @ = "connected" THEN outcome ELSE @]
    /\ UNCHANGED <<run, old, request, overlap, lost>>

\* The client never completes the handshake, or the server stops.
relay_lost(k) ==
    /\ relay[k] \in {"accepted", "live"}
    /\ relay' = [relay EXCEPT ![k] = "closed"]
    /\ lost' = lost \cup {k}
    /\ UNCHANGED <<run, term, old, request, overlap>>

Next ==
    \/ end_run
    \/ \E k \in Terms :
          \/ grow_old(k) \/ create_session(k) \/ create_commit(k) \/ stream(k)
          \/ upgraded(k) \/ relay_lost(k)
          \/ \E outcome \in {"ended", "failed"} : relay_end(k, outcome)

Spec == Init /\ [][Next]_vars

-----------------------------------------------------------------------------
(* Properties. *)

\* A run has no more terminals than the limit unless two requests were counted
\* at the same time; and a terminal takes up a place only while it waits for
\* its client, while its relay runs, or because the relay was lost, which
\* nothing in the code repairs.
TerminalsBounded ==
    /\ overlap \/ Cardinality(Open) <= MaxTerminals + Cardinality(old)
    /\ \A k \in Terms : term[k] = "connected" => relay[k] \in {"accepted", "live"} \/ k \in lost
=============================================================================
