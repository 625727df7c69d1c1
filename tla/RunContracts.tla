---------------------------- MODULE RunContracts ----------------------------
(***************************************************************************)
(* The run state machine that every process of the system shares: the enum *)
(* RunState of crates/cowork-contracts, with its two methods, and the      *)
(* check `ensure_run_transition' that the control plane calls before most  *)
(* of its state changes.  Names are the wire names (snake_case).           *)
(***************************************************************************)

RunState == {"queued", "waiting_for_executor", "waiting_for_snapshot",
             "running", "waiting_approval", "waiting_input", "interrupted",
             "completed", "failed", "canceled", "expired"}

\* RunState::is_terminal, and the SQL list TERMINAL_STATES of the server.
is_terminal(s) == s \in {"completed", "failed", "canceled", "expired"}

\* The right-hand sides of RunState::can_transition_to, by current state.
Successors(s) ==
  CASE s = "queued" -> {"waiting_for_executor", "waiting_for_snapshot",
                        "running", "canceled", "expired"}
    [] s = "waiting_for_executor" -> {"queued", "running", "canceled", "expired"}
    [] s = "waiting_for_snapshot" ->
         {"queued", "waiting_for_executor", "canceled", "expired"}
    [] s = "running" -> {"waiting_approval", "waiting_input", "interrupted",
                         "completed", "failed", "canceled"}
    [] s \in {"waiting_approval", "waiting_input"} ->
         {"running", "interrupted", "failed", "canceled", "expired"}
    [] s = "interrupted" -> {"queued", "failed", "canceled", "expired"}
    [] OTHER -> {}

\* RunState::can_transition_to / ensure_run_transition: a state may always
\* be re-entered.
can_transition_to(s, next) == s = next \/ next \in Successors(s)

\* The states in which a run row carries a lease; the SQL of the server
\* spells the list out wherever a lease is verified, renewed or reaped.
LeasedStates == {"running", "waiting_approval", "waiting_input"}

\* The states in which an external executor may claim a run.
ClaimableStates == {"queued", "waiting_for_executor"}
=============================================================================
