---------------------------- MODULE CodexAccounts ----------------------------
(***************************************************************************)
(* Codex accounts of the desktop application: the app-server process that  *)
(* CodexRuntimeManager keeps per profile (codex_runtime.rs) and the turns  *)
(* that schedules and crews run over it (lib.rs, run_codex_turn), while    *)
(* the user signs in and out, reads limits and deletes profiles on the     *)
(* main thread.  A request to the process is one step, whose outcome is    *)
(* the reply, an error or, when the process stops, the drained registry.   *)
(***************************************************************************)
EXTENDS Naturals, FiniteSets, FiniteSetsExt

CONSTANTS NProfiles,   \* profiles 1..NProfiles, in priority order
          Turns,       \* calls of run_codex_turn
          MaxEvents    \* bound on the user's commands and on stops of processes

Profiles == 1..NProfiles
Automatic == 0         \* no auth_profile_id: any ready profile may be used

VARIABLES
    profile,  \* profile[p]: codex_auth_profiles.status, or "none"
    proc,     \* proc[p]: the entry of CodexRuntimeManager.processes
    turn,     \* turn[t]: [pc, pin, left, on, res]
    copy,     \* copy[t]: row that update_codex_runtime_status has read and not written
    events,   \* commands and stops so far
    touched,  \* history: turns during which another status than theirs was written
    gone      \* waiting turns that no process will speak to any more

vars == <<profile, proc, turn, copy, events, touched, gone>>

NoTurn == [pc |-> "idle", pin |-> Automatic, left |-> 0, on |-> 0, res |-> ""]
NoCopy == [p |-> 0, status |-> "none"]

Init ==
    /\ profile \in [Profiles -> {"ready", "signed_out"}]
    /\ proc = [p \in Profiles |-> "none"]
    /\ turn = [t \in Turns |-> NoTurn]
    /\ copy = [t \in Turns |-> NoCopy]
    /\ events = 0
    /\ touched = {} /\ gone = {}

Existing == {p \in Profiles : profile[p] # "none"}
Ready    == {p \in Profiles : profile[p] = "ready"}
Open     == {t \in Turns : turn[t].pc \notin {"idle", "done"}}

WaitingOn(p) == {t \in Turns : turn[t].pc = "waiting" /\ turn[t].on = p}

-----------------------------------------------------------------------------
(* The process registry. *)

\* process(): an entry of the registry is used as it is, a missing one is
\* spawned; nothing looks whether the process behind an entry still runs.
Served(p) == [proc EXCEPT ![p] = IF @ = "none" THEN "up" ELSE @]

\* A request is answered only by a running process.
Answers(p) == proc[p] \in {"none", "up"}

\* The reader thread ends: waiting requests are drained with an error; the
\* subscribers are kept and told nothing.
process_stops(p) ==
    /\ proc[p] = "up" /\ events < MaxEvents
    /\ proc' = [proc EXCEPT ![p] = "dead"]
    /\ events' = events + 1
    /\ gone' = gone \union WaitingOn(p)
    /\ UNCHANGED <<profile, turn, copy, touched>>

-----------------------------------------------------------------------------
(* run_codex_turn. *)

Ended(t, res) == [turn EXCEPT ![t].pc = "done", ![t].res = res]

Attempts_fewer == Max({1, Cardinality(Existing) - 1})
\* The loop makes one attempt for each profile that exists when it begins.
Attempts == Max({1, Cardinality(Existing)})

run_turn(t, pin) ==
    /\ turn[t].pc = "idle"
    /\ turn' = [turn EXCEPT ![t] = [NoTurn EXCEPT !.pc = "select", !.pin = pin, !.left = Attempts]]
    /\ UNCHANGED <<profile, proc, copy, events, touched, gone>>

\* select_codex_profile: a pinned account never switches, otherwise the first
\* ready one in priority order.
Usable(t) == IF turn[t].pin = Automatic THEN Ready ELSE Ready \intersect {turn[t].pin}

\* codex_thread_open_impl with no usable account: an automatic turn asks for a
\* fallback approval, a pinned one fails.
no_profile(t) ==
    /\ turn[t].pc = "select" /\ Usable(t) = {}
    /\ turn' = Ended(t, IF turn[t].pin = Automatic THEN "fallback" ELSE "failed")
    /\ UNCHANGED <<profile, proc, copy, events, touched, gone>>

\* codex_thread_open_impl resumes or starts the thread.
open_thread(t) ==
    LET p == Min(Usable(t)) IN
    /\ turn[t].pc = "select" /\ Usable(t) # {}
    /\ proc' = Served(p)
    /\ \/ Answers(p) /\ turn' = [turn EXCEPT ![t].pc = "opened", ![t].on = p]
       \/ turn' = Ended(t, "failed")
    /\ UNCHANGED <<profile, copy, events, touched, gone>>

\* subscribe, then turn/start.
start_turn(t) ==
    LET p == turn[t].on IN
    /\ turn[t].pc = "opened"
    /\ proc' = Served(p)
    /\ \/ Answers(p) /\ turn' = [turn EXCEPT ![t].pc = "waiting"]
       \/ turn' = Ended(t, "failed")
    /\ UNCHANGED <<profile, copy, events, touched, gone>>

\* The process the turn subscribed to can still speak to it.
Connected(t) == turn[t].pc = "waiting" /\ proc[turn[t].on] = "up" /\ t \notin gone

\* turn/completed, or an approval request, which a schedule declines.
turn_completed(t) ==
    /\ Connected(t)
    /\ \E res \in {"completed", "failed"} : turn' = Ended(t, res)
    /\ UNCHANGED <<profile, proc, copy, events, touched, gone>>

\* update_codex_runtime_status reads the row of the limited or unauthorized
\* account; a limit of a pinned account is an ordinary failure.
turn_refused(t) ==
    LET p == turn[t].on IN
    /\ Connected(t)
    /\ \E st \in {"limited", "requires_reauth"} :
        /\ st = "limited" => turn[t].pin = Automatic
        /\ IF p \in Existing
           THEN /\ copy' = [copy EXCEPT ![t] = [p |-> p, status |-> st]]
                /\ turn' = [turn EXCEPT ![t].pc = "marking"]
           ELSE /\ turn' = Ended(t, "failed")
                /\ UNCHANGED copy
    /\ UNCHANGED <<profile, proc, events, touched, gone>>

\* It writes the whole row back: a row deleted meanwhile is inserted again.
\* A limited account leaves the loop's next attempt to another one.
mark_profile(t) ==
    LET c == copy[t] IN
    /\ turn[t].pc = "marking"
    /\ profile' = [profile EXCEPT ![c.p] = c.status]
    /\ copy' = [copy EXCEPT ![t] = NoCopy]
    /\ turn' = IF c.status # "limited" THEN Ended(t, "failed")
               ELSE IF turn[t].left = 1 THEN Ended(t, "fallback")
               ELSE [turn EXCEPT ![t].pc = "select", ![t].left = @ - 1]
    /\ touched' = IF profile[c.p] = "none" THEN touched \union Open
                  ELSE touched \union (Open \ {t})
    /\ UNCHANGED <<proc, events, gone>>

\* recv_timeout of thirty minutes, or all senders dropped with the process.
CanTimeOut(t) == turn[t].pc = "waiting"

turn_timeout(t) ==
    /\ CanTimeOut(t)
    /\ turn' = Ended(t, "timeout")
    /\ UNCHANGED <<profile, proc, copy, events, touched, gone>>

-----------------------------------------------------------------------------
(* Commands of the user interface. *)

Command(p) == events < MaxEvents /\ events' = events + 1 /\ touched' = touched \union Open

\* codex_profile_upsert and codex_profile_mark_limited write the row alone.
write_profile(p, st) ==
    /\ Command(p)
    /\ profile' = [profile EXCEPT ![p] = st]
    /\ UNCHANGED <<proc, turn, copy, gone>>

\* codex_login_start, codex_account_read, codex_rate_limits_read and
\* codex_logout write the status that follows from the process's answer.
ask_profile(p, st) ==
    /\ Command(p) /\ p \in Existing /\ Answers(p)
    /\ proc' = Served(p)
    /\ profile' = [profile EXCEPT ![p] = st]
    /\ UNCHANGED <<turn, copy, gone>>

\* codex_profile_delete: logout, stop_profile, remove the data and the row.
codex_profile_delete(p) ==
    /\ Command(p) /\ p \in Existing
    /\ proc' = [proc EXCEPT ![p] = "none"]
    /\ profile' = [profile EXCEPT ![p] = "none"]
    /\ gone' = gone \union WaitingOn(p)
    /\ UNCHANGED <<turn, copy>>

-----------------------------------------------------------------------------

TurnStep(t) ==
    \/ no_profile(t) \/ open_thread(t) \/ start_turn(t) \/ mark_profile(t) \/ turn_timeout(t)

Next ==
    \/ \E t \in Turns : \/ \E pin \in {Automatic} \union Existing : run_turn(t, pin)
                        \/ TurnStep(t) \/ turn_completed(t) \/ turn_refused(t)
    \/ \E p \in Profiles : \/ process_stops(p) \/ codex_profile_delete(p)
                           \/ \E st \in {"ready", "limited", "signed_out", "login_pending"} :
                                 write_profile(p, st) \/ ask_profile(p, st)

\* A turn's thread runs, and its wait is bounded by recv_timeout.
Fairness == \A t \in Turns : WF_vars(TurnStep(t))

Spec == Init /\ [][Next]_vars /\ Fairness

-----------------------------------------------------------------------------
(* Properties. *)

\* An automatic turn asks for a paid fallback only when it has found every
\* account limited or unusable: none is ready when it ends so, unless the
\* user's commands or another turn changed a status while it ran (then the
\* loop may spend its attempts on one account twice).
FallbackJustifiedStep ==
    \A t \in Turns : turn[t].pc # "done" /\ turn'[t].pc = "done" /\ turn'[t].res = "fallback"
          => t \in touched \/ \A p \in Profiles : profile'[p] # "ready"
FallbackJustified == [][FallbackJustifiedStep]_vars

\* Every turn ends, also one whose process stopped without a word: the wait
\* for events is bounded.
Begun(t) == turn[t].pc = "select"
Done(t) == turn[t].pc = "done"
TurnsEnd == \A t \in Turns : Begun(t) ~> Done(t)

=============================================================================
