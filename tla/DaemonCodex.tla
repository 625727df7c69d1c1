---------------------------- MODULE DaemonCodex -----------------------------
(***************************************************************************)
(* The Codex adapter of the local daemon                                   *)
(* (agents/cowork-local-daemon/src/codex.rs): one App Server process per   *)
(* profile is kept between runs and spoken to over a pipe.  The adapter    *)
(* matches responses by request number and takes every notification for    *)
(* one of its own turn, so a run may only reuse a process on which no      *)
(* earlier turn is still going.                                            *)
(*                                                                         *)
(* The App Server itself is external: it answers requests in order, then   *)
(* sends the notifications and requests of a turn, and may exit.           *)
(***************************************************************************)
EXTENDS Integers, Sequences, SequencesExt, FiniteSets

CONSTANTS Runs,       \* the runs of the profile: 1..n, executed in this order
          MaxNotes,   \* bound on the notifications and requests of a turn
          MaxExits    \* bound on exits of the App Server

VARIABLES alive,    \* the App Server process runs
          stdin,    \* requests written to it and not yet read
          stdout,   \* lines it has written and the adapter has not read
          turn,     \* the turn the process is working on; 0 is none
          asked,    \* the process waits for the answer to a request of its own
          pc,       \* where execute_codex_adapter stands
          run,      \* the run being executed
          content,  \* for each run, the turns whose text it has taken
          ended,    \* for each run, how it ended
          canceled, \* runs whose row says canceled
          notes, exits

vars == <<alive, stdin, stdout, turn, asked, pc, run, content, ended, canceled,
          notes, exits>>

Server == <<turn, asked, notes, exits>>

Init ==
  /\ alive = FALSE /\ stdin = <<>> /\ stdout = <<>> /\ turn = 0 /\ asked = FALSE
  /\ pc = "idle" /\ run = 0
  /\ content = [r \in Runs |-> {}] /\ ended = [r \in Runs |-> "no"]
  /\ canceled = {} /\ notes = 0 /\ exits = 0

(* The worker takes the next run. *)
begin_run ==
  /\ pc = "idle" /\ run + 1 \in Runs
  /\ run' = run + 1 /\ pc' = "session"
  /\ UNCHANGED <<alive, stdin, stdout, content, ended, canceled>>
  /\ UNCHANGED Server

(* A process that has exited is dropped, and a missing one is started and  *)
(* takes part in the handshake; then thread/start is sent.                 *)
open_session ==
  /\ pc = "session"
  /\ alive' = TRUE /\ pc' = "thread"
  /\ IF alive THEN UNCHANGED <<stdout, turn, asked>> /\ stdin' = Append(stdin, "thread")
     ELSE /\ stdin' = <<"thread">> /\ stdout' = <<>>
          /\ turn' = 0 /\ asked' = FALSE
  /\ UNCHANGED <<run, content, ended, canceled, notes, exits>>

(* Without the end of the process. *)
Stopped_kept == UNCHANGED <<alive, stdin, stdout>>

(* stop_protocol ends the process with its tree and empties the session.   *)
Stopped == alive' = FALSE /\ stdin' = <<>> /\ stdout' = <<>>

Ends(how) ==
  /\ pc' = "idle"
  /\ ended' = [ended EXCEPT ![run] = how]
  /\ UNCHANGED <<run, canceled>> /\ UNCHANGED Server

Fails == Ends("failed") /\ Stopped /\ UNCHANGED content

Line == Head(stdout)
Read == stdout' = Tail(stdout)

(* wait_for_response: lines that are neither the response nor a request    *)
(* of the server are passed over, a request is answered.                   *)
wait_for_response ==
  /\ pc \in {"thread", "turn"} /\ stdout # <<>>
  /\ CASE Line.kind = "response" /\ pc = "thread" ->
            pc' = "turn" /\ stdin' = Append(stdin, "turn")
       [] Line.kind = "response" /\ pc = "turn" ->
            pc' = "events" /\ UNCHANGED stdin
       [] Line.kind = "request" -> stdin' = Append(stdin, "answer") /\ UNCHANGED pc
       [] OTHER -> UNCHANGED <<pc, stdin>>
  /\ Read
  /\ UNCHANGED <<alive, run, content, ended, canceled>> /\ UNCHANGED Server

(* The loop of execute_codex_turn: text is taken whatever turn it names,   *)
(* a request waits for the local user or runs a tool.                      *)
next_event ==
  /\ pc = "events" /\ stdout # <<>> /\ Line.kind # "completed"
  /\ Read
  /\ content' = IF Line.kind = "delta"
                THEN [content EXCEPT ![run] = @ \cup {Line.turn}] ELSE content
  /\ pc' = IF Line.kind = "request" THEN "wait" ELSE pc
  /\ UNCHANGED <<alive, stdin, run, ended, canceled>> /\ UNCHANGED Server

(* await_local_approval or execute_tool ends, and the answer is sent. *)
answer_request ==
  /\ pc = "wait" /\ run \notin canceled
  /\ pc' = "events" /\ stdin' = Append(stdin, "answer")
  /\ UNCHANGED <<alive, stdout, run, content, ended, canceled>>
  /\ UNCHANGED Server

(* turn/completed: a completed turn keeps the process for the next run. *)
turn_completed ==
  /\ pc = "events" /\ stdout # <<>> /\ Line.kind = "completed"
  /\ IF Line.ok THEN Ends("completed") /\ Read /\ UNCHANGED <<alive, stdin, content>>
     ELSE Fails

(* The pipe is at its end. *)
stopped_early ==
  /\ pc \in {"thread", "turn", "events"} /\ ~alive /\ stdout = <<>>
  /\ Fails

(* next_payload polls the row every 250 ms, as the waits do. *)
sees_cancel ==
  /\ pc \in {"thread", "turn", "events", "wait"} /\ run \in canceled
  /\ Fails

(* Without the deadline of the run. *)
TimedOut_never == FALSE

(* timeout_at covers the session's lock, the handshake and the turn. *)
TimedOut == pc \in {"session", "thread", "turn", "events", "wait"}

times_out == TimedOut /\ Fails

cancel_run(r) ==
  /\ r \notin canceled /\ ended[r] = "no" /\ canceled' = canceled \cup {r}
  /\ UNCHANGED <<alive, stdin, stdout, pc, run, content, ended>>
  /\ UNCHANGED Server

-----------------------------------------------------------------------------
(* The App Server.                                                         *)

Say(line) == stdout' = Append(stdout, line)

server_reads ==
  /\ alive /\ stdin # <<>>
  /\ stdin' = Tail(stdin)
  /\ CASE Head(stdin) = "thread" -> /\ Say([kind |-> "response", turn |-> 0, ok |-> TRUE])
                                    /\ UNCHANGED <<turn, asked>>
       [] Head(stdin) = "turn" -> /\ Say([kind |-> "response", turn |-> run, ok |-> TRUE])
                                  /\ turn' = run /\ UNCHANGED asked
       [] OTHER -> asked' = FALSE /\ UNCHANGED <<stdout, turn>>
  /\ UNCHANGED <<alive, pc, run, content, ended, canceled, notes, exits>>

server_says(kind) ==
  /\ alive /\ turn # 0 /\ ~asked /\ notes < MaxNotes
  /\ notes' = notes + 1
  /\ Say([kind |-> kind, turn |-> turn, ok |-> TRUE])
  /\ asked' = (kind = "request")
  /\ UNCHANGED <<alive, stdin, turn, pc, run, content, ended, canceled, exits>>

server_completes(ok) ==
  /\ alive /\ turn # 0 /\ ~asked
  /\ Say([kind |-> "completed", turn |-> turn, ok |-> ok])
  /\ turn' = 0
  /\ UNCHANGED <<alive, stdin, asked, pc, run, content, ended, canceled, notes,
                 exits>>

server_exits ==
  /\ alive /\ exits < MaxExits /\ exits' = exits + 1
  /\ alive' = FALSE /\ stdin' = <<>>
  /\ UNCHANGED <<stdout, turn, asked, pc, run, content, ended, canceled, notes>>

-----------------------------------------------------------------------------
Adapter == \/ begin_run \/ open_session \/ wait_for_response \/ next_event
           \/ answer_request \/ turn_completed \/ stopped_early \/ sees_cancel
           \/ times_out

Next == \/ Adapter
        \/ \E r \in Runs : cancel_run(r)
        \/ server_reads \/ (\E k \in {"delta", "request"} : server_says(k))
        \/ (\E ok \in BOOLEAN : server_completes(ok)) \/ server_exits

Spec == Init /\ [][Next]_vars

(* The deadline passes and the worker goes on: nothing is assumed of the   *)
(* App Server or of the user.                                              *)
LiveSpec == Spec /\ WF_vars(begin_run) /\ WF_vars(times_out)

-----------------------------------------------------------------------------
(* A run's text comes from its own turn alone, although notifications are   *)
(* not matched by turn and the process is shared by successive runs: every  *)
(* end other than turn/completed ends the process too.                      *)
OwnTextOnly == \A r \in Runs : content[r] \subseteq {r}

(* Every run of the profile ends, whether or not the App Server answers,    *)
(* exits or asks something nobody answers.                                  *)
Over(r) == ended[r] # "no"
CodexRunsEnd == \A r \in Runs : <>Over(r)

=============================================================================
