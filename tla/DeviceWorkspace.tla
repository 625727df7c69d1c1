--------------------------- MODULE DeviceWorkspace ---------------------------
(* The folder a run works in on a device (agents/cowork-device-agent/src/main.rs): it is made  *)
(* from the run's snapshot, listed before and after the work, published as the run's result     *)
(* snapshot if it changed, and removed. The local daemon does the work of a personal device       *)
(* and goes on when the agent's connection is lost; a managed device does it in the agent's        *)
(* task, which ends with the connection. The server hands the run out again.                        *)
(* One run; a folder is the number of changes that were made to it.                                 *)
EXTENDS Integers

CONSTANTS MaxChanges, MaxDrops, MaxFaults   \* bounds

Missing == -1
Torn == -2             \* removed in part

VARIABLES device,     \* [managed, snapshot]: a managed device or a personal one with a daemon; a
                      \* daemon works on a run without a snapshot in the user's folder
          folder,     \* the folder, Missing or Torn
          daemon,     \* the daemon's run
          agent,      \* the agent's task: where it is, the lists of before and after, its outcome
          server,     \* the run on the server
          published,  \* its result snapshot, or Missing
          base, final,   \* history: the folder when the work began and when it ended
          lost,       \* history: a task was aborted while it removed the folder, or after that
                      \* with a failure to report
          drops, faults

vars == <<device, folder, daemon, agent, server, published, base, final, lost, drops, faults>>

Managed == device.managed
Snapshot == device.snapshot
OwnFolder == Managed \/ Snapshot

Away == [at |-> "away", before |-> Missing, after |-> Missing, ok |-> TRUE, manifest |-> Missing]

Init ==
    /\ device \in [managed : BOOLEAN, snapshot : BOOLEAN]
    /\ folder = IF OwnFolder THEN Missing ELSE 0
    /\ daemon = "absent" /\ agent = Away
    /\ server = "queued" /\ published = Missing
    /\ base = Missing /\ final = Missing
    /\ lost = FALSE /\ drops = 0 /\ faults = 0

Goto(at) == agent' = [agent EXCEPT !.at = at]
Fails == agent' = [agent EXCEPT !.at = "cleanup", !.ok = FALSE]
Fault == faults < MaxFaults /\ faults' = faults + 1

-----------------------------------------------------------------------------
(* The server hands the run out, the first time or again.                                        *)
lease ==
    /\ server = "queued" /\ agent.at = "away"
    /\ server' = "leased"
    /\ agent' = [Away EXCEPT !.at = "begin"]
    /\ UNCHANGED <<folder, daemon, published, base, final, lost, drops, faults>>

(* materialize_run_workspace: a run the daemon already has keeps its folder; a run with a         *)
(* snapshot starts from an empty one; else what an earlier attempt left stays.                     *)
Materialized ==
    CASE ~OwnFolder \/ (~Managed /\ daemon # "absent") -> folder
      [] Snapshot -> 0
      [] OTHER -> IF folder = Missing THEN 0 ELSE folder

materialize_run_workspace ==
    /\ agent.at = "begin"
    /\ folder' = Materialized
    /\ Goto("import")
    /\ UNCHANGED <<daemon, server, published, base, final, lost, drops, faults>>

(* A call fails, a chunk does not have its digest: the folder may be there in part.                *)
materialize_fails ==
    /\ agent.at = "begin" /\ Fault
    /\ folder' \in {folder, Materialized}
    /\ Fails
    /\ UNCHANGED <<daemon, server, published, base, final, lost, drops>>

server_runs_import ==
    /\ agent.at = "import"
    /\ daemon' = IF Managed \/ daemon # "absent" THEN daemon ELSE "waiting_for_executor"
    /\ Goto("before")
    /\ UNCHANGED <<folder, server, published, base, final, lost, drops, faults>>

(* inventory_workspace before the work, unless the daemon has begun it.                             *)
Fresh == Managed \/ daemon = "waiting_for_executor"

inventory_before ==
    /\ agent.at = "before"
    /\ agent' = [agent EXCEPT !.at = "start", !.before = IF Fresh THEN folder ELSE Missing]
    /\ UNCHANGED <<folder, daemon, server, published, base, final, lost, drops, faults>>

server_runs_start ==
    /\ agent.at = "start"
    /\ IF Fresh THEN daemon' = "running" /\ base' = folder /\ final' = Missing
       ELSE UNCHANGED <<daemon, base, final>>
    /\ Goto("work")
    /\ UNCHANGED <<folder, server, published, lost, drops, faults>>

(* The work: by the daemon, whether or not the agent is there, or by the agent's task.               *)
Working == daemon = "running" /\ (Managed => agent.at = "work")

works ==
    /\ Working /\ folder \in 0..(MaxChanges - 1)
    /\ folder' = folder + 1
    /\ UNCHANGED <<daemon, agent, server, published, base, final, lost, drops, faults>>

work_ends ==
    /\ Working
    /\ \/ daemon' = "completed" /\ final' = folder
       \/ daemon' = "failed" /\ UNCHANGED final
    /\ UNCHANGED <<folder, agent, server, published, base, lost, drops, faults>>

(* The user saves a file in their own folder, at any time.                                            *)
user_saves ==
    /\ ~OwnFolder /\ folder < MaxChanges
    /\ folder' = folder + 1
    /\ UNCHANGED <<daemon, agent, server, published, base, final, lost, drops, faults>>

(* The end of the relay (or of runtime.execute): a failed run fails the task, and a relay that         *)
(* fails cancels the run.                                                                             *)
work_seen ==
    /\ agent.at = "work" /\ daemon \in {"completed", "failed", "canceled"}
    /\ IF daemon = "completed" THEN Goto("existing") ELSE Fails
    /\ UNCHANGED <<folder, daemon, server, published, base, final, lost, drops, faults>>

relay_fails ==
    /\ agent.at = "work" /\ Fault
    /\ daemon' = IF daemon \in {"completed", "failed"} THEN daemon ELSE "canceled"
    /\ Fails
    /\ UNCHANGED <<folder, server, published, base, final, lost, drops>>

(* existing_result_snapshot, by the relay only; then what there is to publish.                          *)
existing_result_snapshot ==
    /\ agent.at = "existing"
    /\ agent' = IF ~Managed /\ published # Missing
                THEN [agent EXCEPT !.at = "cleanup", !.manifest = published]
                ELSE [agent EXCEPT !.at = IF folder = Missing THEN "cleanup" ELSE "after"]
    /\ UNCHANGED <<folder, daemon, server, published, base, final, lost, drops, faults>>

SameFiles_missing(before, after) == before \in {Missing, after}
SameFiles(before, after) == before = after

inventory_after ==
    /\ agent.at = "after"
    /\ agent' = [agent EXCEPT !.after = folder,
                              !.at = IF SameFiles(agent.before, folder) THEN "cleanup" ELSE "publish"]
    /\ UNCHANGED <<folder, daemon, server, published, base, final, lost, drops, faults>>

(* publish_result_snapshot: every chunk is read again and must have the digest that was listed.          *)
publish_result_snapshot ==
    /\ agent.at = "publish"
    /\ IF folder = agent.after
       THEN /\ published' = agent.after
            /\ agent' = [agent EXCEPT !.at = "cleanup", !.manifest = agent.after]
       ELSE /\ UNCHANGED published
            /\ Fails
    /\ UNCHANGED <<folder, daemon, server, base, final, lost, drops, faults>>

publish_fails ==
    /\ agent.at \in {"existing", "after", "publish"} /\ Fault
    /\ published' \in {published, IF agent.at = "publish" THEN agent.after ELSE published}
    /\ Fails
    /\ UNCHANGED <<folder, daemon, server, base, final, lost, drops>>

(* cleanup_run_workspace: however the run ended, before that is reported.                                 *)
Removed == IF OwnFolder THEN Missing ELSE folder

cleanup_run_workspace ==
    /\ agent.at = "cleanup"
    /\ folder' = Removed
    /\ Goto("send")
    /\ UNCHANGED <<daemon, server, published, base, final, lost, drops, faults>>

cleanup_fails ==
    /\ agent.at = "cleanup" /\ Fault
    /\ agent' = [agent EXCEPT !.at = "send", !.ok = FALSE]
    /\ UNCHANGED <<folder, daemon, server, published, base, final, lost, drops>>

(* Complete or Fail.                                                                                       *)
report ==
    /\ agent.at = "send"
    /\ server' = IF agent.ok THEN "completed" ELSE "failed"
    /\ agent' = [agent EXCEPT !.at = "away"]
    /\ UNCHANGED <<folder, daemon, published, base, final, lost, drops, faults>>

(* The connection is lost: the task is aborted where it is and its report with it. The server              *)
(* hands the run out again or gives it up.                                                                 *)
drop ==
    /\ agent.at # "away" /\ drops < MaxDrops /\ drops' = drops + 1
    /\ agent' = Away
    /\ folder' \in {folder, IF agent.at = "cleanup" /\ Removed = Missing THEN Torn ELSE folder}
    /\ lost' = (lost \/ folder' # folder \/ (agent.at = "send" /\ ~agent.ok))
    /\ daemon' = IF Managed THEN "absent" ELSE daemon
    /\ server' \in {"queued", "interrupted"}
    /\ UNCHANGED <<published, base, final, faults>>

Next ==
    /\ \/ lease \/ materialize_run_workspace \/ materialize_fails \/ server_runs_import
       \/ inventory_before \/ server_runs_start \/ works \/ work_ends \/ user_saves
       \/ work_seen \/ relay_fails \/ existing_result_snapshot \/ inventory_after
       \/ publish_result_snapshot \/ publish_fails \/ cleanup_run_workspace \/ cleanup_fails
       \/ report \/ drop
    /\ UNCHANGED device

Spec == Init /\ [][Next]_vars

-----------------------------------------------------------------------------
(* A run is completed with what its work left: the result snapshot the agent names holds all that was     *)
(* there when the work ended, and there is none only if the work changed nothing, across lost connections   *)
(* and failed calls, unless a task was aborted in the middle of the removal of the folder, or after it        *)
(* with a failure to report (execute_via_local_daemon, execute_managed_mcp_run, publish_result_snapshot,       *)
(* cleanup_run_workspace).                                                                                      *)
CompletedWithChanges ==
    (server = "completed" /\ ~lost) =>
        IF agent.manifest = Missing THEN final = base ELSE agent.manifest >= final
=============================================================================
