----------------------------- MODULE RunPhases ------------------------------
(***************************************************************************)
(* What the run queue promises about a run, without tables, tokens or      *)
(* clocks: a run makes one pass.  It waits, it is given to one executor    *)
(* once, and from then on it is held by that executor until it stops or    *)
(* is done; it is never handed out a second time, and done is final.       *)
(* Waiting approval or input is still being held.                          *)
(***************************************************************************)
CONSTANTS Runs, Agents, NoAgent

VARIABLES phase, executor

Phase == {"new", "waiting", "held", "stopped", "done"}

Init ==
  /\ phase = [r \in Runs |-> "new"]
  /\ executor = [r \in Runs |-> NoAgent]

\* The only way forward, phase by phase.
Later(p) == CASE p = "new" -> {"waiting"}
              [] p = "waiting" -> {"held", "done"}
              [] p = "held" -> {"stopped", "done"}
              [] p = "stopped" -> {"done"}
              [] OTHER -> {}

\* Any set of runs moves on in one step (the reaper stops several at once);
\* a run gets its executor exactly when it becomes held.
Advance(S) ==
  /\ S # {}
  /\ phase' \in [Runs -> Phase] /\ executor' \in [Runs -> Agents \cup {NoAgent}]
  /\ \A r \in Runs :
       IF r \in S
         THEN /\ phase'[r] \in Later(phase[r])
              /\ IF phase'[r] = "held" THEN executor'[r] \in Agents
                                       ELSE executor'[r] = executor[r]
         ELSE phase'[r] = phase[r] /\ executor'[r] = executor[r]

Next == \E S \in SUBSET Runs : Advance(S)

Spec == Init /\ [][Next]_<<phase, executor>>
=============================================================================
