------------------------------ MODULE RunSandbox ------------------------------
(***************************************************************************)
(* The desktop application's engine runs and their native sandboxes         *)
(* (app/src-tauri/src/lib.rs, worker_sandbox.rs, native_windows_sandbox.rs): *)
(* a run works on a copy of the user's files; when it ends the difference   *)
(* between the copy and a manifest taken at the start is shown to the user  *)
(* and, on request, applied to the originals.                               *)
(*                                                                          *)
(* Commands of the application are synchronous and run one at a time on its *)
(* main thread; `cmd` is the one in progress.  Between two file operations  *)
(* of a command the user may save a file, a shell command of the run (an    *)
(* asynchronous command) may write to the copy, and the process may die.    *)
(***************************************************************************)
EXTENDS Integers, FiniteSets, FiniteSetsExt, SequencesExt

CONSTANTS
    Runs,        \* run ids
    ParentOf,    \* the run a child run was delegated by, or NoRun
    NoRun,
    Files,       \* the paths a run may change, numbered in the order of the manifest
    OutOfScope,  \* the neighbours of a shared file: a copy may gain them, apply refuses them
    MaxEdits,    \* bound: files the user saves or deletes
    MaxWrites,   \* bound: writes and deletions by shell commands
    MaxFaults,   \* bound: file operations that fail
    MaxCrashes   \* bound: deaths of the application

VARIABLES
    original,    \* content of the user's files (0: absent)
    run,         \* engine_runs: status and whether there is a checkpoint
    row,         \* worker_sandboxes: the row of each run
    copy,        \* worker_sandboxes/<id>/ on disk: workspace and manifest.json
    shell,       \* runs with a shell command in flight
    cmd,         \* the command the main thread is in
    count,       \* edits, writes, faults, crashes so far
    agreed,      \* history: contents a file had whenever copy and original agreed on it
    raced        \* history: edits and writes that fell inside a command's window

vars == <<original, run, row, copy, shell, cmd, count, agreed, raced>>

Terminal == {"completed", "canceled", "interrupted"}
Idle == [op |-> "none", of |-> NoRun]
NoCopy == [on |-> FALSE, files |-> [f \in Files |-> 0],
           manifest |-> FALSE, base |-> [f \in Files |-> 0]]

Content == {0, 1} \cup {10 + k : k \in 1..MaxEdits} \cup {100 + k : k \in 1..MaxWrites}

TypeOK ==
    /\ original \in [Files -> Content]
    /\ \A r \in Runs : run[r].status \in {"none", "pending", "running"} \cup Terminal
    /\ \A r \in Runs : row[r].mode \in {"none", "read_only", "native"}
    /\ \A r \in Runs : copy[r].files \in [Files -> Content] /\ copy[r].base \in [Files -> Content]
    /\ shell \subseteq Runs

Init ==
    /\ original = [f \in Files |-> 1]
    /\ run = [r \in Runs |-> [status |-> "none", checkpoint |-> FALSE]]
    /\ row = [r \in Runs |-> [mode |-> "none", status |-> "none", home |-> r]]
    /\ copy = [r \in Runs |-> NoCopy]
    /\ shell = {}
    /\ cmd = Idle
    /\ count = [edits |-> 0, writes |-> 0, faults |-> 0, crashes |-> 0]
    /\ agreed = [r \in Runs |-> [f \in Files |-> {}]]
    /\ raced = {}

Free == cmd = Idle
Counted(what) == count' = [count EXCEPT ![what] = @ + 1]
CanFail == count.faults < MaxFaults

------------------------------------------------------------------------------
(* Run records *)

\* register_run_authorized_paths: an earlier row of the run is deleted, a read-only one inserted.
ReadOnlyRow(r) == [mode |-> "read_only", status |-> "active", home |-> r]
\* insert_worker_sandbox: a native row whose workspace is the copy of run `home`.
NativeRow(home) == [mode |-> "native", status |-> "active", home |-> home]
\* update_worker_sandbox and update_engine_run check no earlier status.
RowStatus(r, status) == [row EXCEPT ![r].status = status]
RunStatus(r, status) == [run EXCEPT ![r].status = status]
\* insert_engine_run_with_gateway_metadata
NewRun(checkpoint) == [status |-> "pending", checkpoint |-> checkpoint]

engine_run_create(r) ==
    /\ Free /\ run[r].status = "none"
    /\ ParentOf[r] # NoRun => run[ParentOf[r]].status # "none"
    /\ run' = [run EXCEPT ![r] = NewRun(FALSE)]
    /\ row' = [row EXCEPT ![r] = ReadOnlyRow(r)]
    /\ UNCHANGED <<original, copy, shell, cmd, count, agreed, raced>>

\* Any status may follow any other; a terminal one is copied onto the sandbox row.
engine_run_update(r, status) ==
    /\ Free /\ run[r].status \notin {"none", status}
    /\ run' = RunStatus(r, status)
    /\ row' = IF status \in Terminal THEN RowStatus(r, status) ELSE row
    /\ UNCHANGED <<original, copy, shell, cmd, count, agreed, raced>>

engine_run_cancel(r) ==
    /\ Free /\ run[r].status \in {"pending", "running", "completed"}
    /\ row' = RowStatus(r, "canceled")
    /\ run' = RunStatus(r, "canceled")
    /\ UNCHANGED <<original, copy, shell, cmd, count, agreed, raced>>

engine_run_checkpoint_add(r) ==
    /\ Free /\ run[r].status = "running"
    /\ run' = [run EXCEPT ![r].checkpoint = TRUE]
    /\ UNCHANGED <<original, row, copy, shell, cmd, count, agreed, raced>>

\* The run is running again; its sandbox row is left as it is.
engine_run_resume(r) ==
    /\ Free /\ run[r].checkpoint
    /\ run' = RunStatus(r, "running")
    /\ UNCHANGED <<original, row, copy, shell, cmd, count, agreed, raced>>

\* A new run with the old one's checkpoint and no sandbox row.
engine_run_retry(r, new) ==
    /\ Free /\ run[r].status # "none" /\ run[new].status = "none"
    /\ ParentOf[new] = ParentOf[r]
    /\ run' = [run EXCEPT ![new] = NewRun(run[r].checkpoint)]
    /\ UNCHANGED <<original, row, copy, shell, cmd, count, agreed, raced>>

------------------------------------------------------------------------------
(* Preparing a sandbox *)

Prepare(r, kind) == cmd' = [op |-> "copied", of |-> r, kind |-> kind]

\* copy_dir_recursive: an earlier copy of the run is removed first.  A shared
\* file's root holds that file alone, so its neighbours are not copied.
Snapshot == [f \in Files |-> IF f \in OutOfScope THEN 0 ELSE original[f]]

CopySource(r) ==
    /\ copy' = [copy EXCEPT ![r] = [NoCopy EXCEPT !.on = TRUE, !.files = Snapshot]]
    /\ agreed' = [agreed EXCEPT ![r] = [f \in Files |-> {Snapshot[f]}]]
    /\ raced' = {x \in raced : x[1] # r}

\* Setup not ready: the run reads the originals and nothing is copied (a run
\* just created has such a row already).
prepare_read_only(r) ==
    /\ Free /\ run[r].status # "none"
    /\ row[r].mode = "none"
    /\ row' = [row EXCEPT ![r] = ReadOnlyRow(r)]
    /\ UNCHANGED <<original, run, copy, shell, cmd, count, agreed, raced>>

\* engine_run_prepare_context, once a run: several roots, the manifest is taken from the copy.
engine_run_prepare_context(r) ==
    /\ Free /\ run[r].status # "none" /\ ParentOf[r] = NoRun
    /\ row[r].mode # "native"
    /\ CopySource(r) /\ Prepare(r, "multi")
    /\ UNCHANGED <<original, run, row, shell, count>>

\* sandbox_run_prepare of a child whose parent has a row: it must be native
\* and active, and the child works in its copy.
share_parent(r) ==
    LET parent == ParentOf[r] IN
    /\ Free /\ run[r].status # "none" /\ row[r].mode # "native"
    /\ parent # NoRun
    /\ row[parent].mode = "native" /\ row[parent].status = "active"
    /\ row' = [row EXCEPT ![r] = NativeRow(row[parent].home)]
    /\ UNCHANGED <<original, run, copy, shell, cmd, count, agreed, raced>>

\* sandbox_run_prepare without a parent's row: one root of its own.
sandbox_run_prepare(r) ==
    /\ Free /\ run[r].status # "none" /\ row[r].mode # "native"
    /\ (ParentOf[r] # NoRun) => (row[ParentOf[r]].mode = "none")
    /\ CopySource(r) /\ Prepare(r, "single")
    /\ UNCHANGED <<original, run, row, shell, count>>

\* write_run_manifest hashes the originals, prepare_workspace_snapshot_multi the copy.
Manifest(r) == IF cmd.kind = "single" THEN Snapshot ELSE copy[r].files

write_manifest ==
    LET r == cmd.of IN
    /\ cmd.op = "copied"
    /\ copy' = [copy EXCEPT ![r].manifest = TRUE, ![r].base = Manifest(r)]
    /\ cmd' = [cmd EXCEPT !.op = "probe"]
    /\ UNCHANGED <<original, run, row, shell, count, agreed, raced>>

\* The readiness probe ran as the sandbox account: the row becomes native.
probe_passed ==
    LET r == cmd.of IN
    /\ cmd.op = "probe"
    /\ row' = [row EXCEPT ![r] = NativeRow(r)]
    /\ cmd' = Idle
    /\ UNCHANGED <<original, run, copy, shell, count, agreed, raced>>

\* Fails closed: the copy is destroyed; the multi-root path falls back to read-only.
probe_failed ==
    LET r == cmd.of IN
    /\ cmd.op \in {"copied", "probe"} /\ CanFail
    /\ copy' = [copy EXCEPT ![r] = NoCopy]
    /\ row' = IF cmd.kind = "multi" THEN [row EXCEPT ![r] = ReadOnlyRow(r)] ELSE row
    /\ cmd' = Idle /\ Counted("faults")
    /\ UNCHANGED <<original, run, shell, agreed, raced>>

------------------------------------------------------------------------------
(* What happens meanwhile *)

\* A file saved while a single-root manifest is about to be taken, or between
\* apply's comparison and its replacement, is not noticed.
InWindow(f) ==
    \/ cmd.op = "copied" /\ cmd.kind = "single"
    \/ cmd.op = "checked" /\ cmd.file = f

user_edits(f, content) ==
    /\ count.edits < MaxEdits /\ content # original[f]
    /\ original' = [original EXCEPT ![f] = content]
    /\ raced' = IF InWindow(f) THEN raced \cup {<<cmd.of, "edit", f>>} ELSE raced
    /\ cmd' = IF cmd.op \in {"applying", "checked"}
              THEN [cmd EXCEPT !.touched = @ \cup {f}] ELSE cmd
    /\ Counted("edits")
    /\ UNCHANGED <<run, row, copy, shell, agreed>>

\* sandbox_exec_command: checked once, at the start.
Usable(r) == row[r].mode = "native" /\ row[r].status = "active"

sandbox_exec_command(r) ==
    /\ r \notin shell /\ Usable(r) /\ copy[row[r].home].on
    /\ shell' = shell \cup {r}
    /\ UNCHANGED <<original, run, row, copy, cmd, count, agreed, raced>>

exec_writes(r, f, content) ==
    LET home == row[r].home IN
    /\ r \in shell /\ copy[home].on
    /\ count.writes < MaxWrites /\ content # copy[home].files[f]
    /\ copy' = [copy EXCEPT ![home].files[f] = content]
    /\ raced' = IF cmd.op # "none" /\ cmd.of = home
                THEN raced \cup {<<home, "write", f>>} ELSE raced
    /\ Counted("writes")
    /\ UNCHANGED <<original, run, row, shell, cmd, agreed>>

\* The command exits, times out or is cancelled through its job object.
exec_ends(r) ==
    /\ r \in shell
    /\ shell' = shell \ {r}
    /\ UNCHANGED <<original, run, row, copy, cmd, count, agreed, raced>>

------------------------------------------------------------------------------
(* Showing, applying and discarding the changes *)

\* run_diff: only a sandbox with a directory and a manifest of its own has one.
HasDiff(r) == row[r].mode = "native" /\ copy[r].on /\ copy[r].manifest
Changes(r) == {f \in Files : copy[r].files[f] # copy[r].base[f]}

Destroy(r) ==
    /\ copy' = [copy EXCEPT ![r] = NoCopy]
    /\ row' = RowStatus(r, "destroyed")
    /\ cmd' = Idle

\* sandbox_run_diff finds no change ...
sandbox_run_diff(r) ==
    /\ Free /\ HasDiff(r) /\ Changes(r) = {}
    /\ cmd' = [op |-> "unchanged", of |-> r]
    /\ UNCHANGED <<original, run, row, copy, shell, count, agreed, raced>>

\* ... and removes the copy.
destroy_unchanged ==
    /\ cmd.op = "unchanged"
    /\ Destroy(cmd.of)
    /\ UNCHANGED <<original, run, shell, count, agreed, raced>>

sandbox_run_apply(r) ==
    /\ Free /\ HasDiff(r)
    /\ cmd' = [op |-> "applying", of |-> r,
               todo |-> Changes(r) \ OutOfScope,
               rejected |-> Changes(r) \cap OutOfScope,
               conflicts |-> {}, saved |-> [f \in {} |-> 0],
               before |-> original, had |-> agreed[r], touched |-> {}]
    /\ UNCHANGED <<original, run, row, copy, shell, count, agreed, raced>>

\* mutant: only the file's existence is compared
Conflicts_unhashed(r, f) == (original[f] = 0) # (copy[r].base[f] = 0)

\* The file must still hash as in the manifest.
Conflicts(r, f) == original[f] # copy[r].base[f]

apply_check ==
    LET f == Min(cmd.todo) IN
    /\ cmd.op = "applying" /\ cmd.todo # {}
    /\ cmd' = IF Conflicts(cmd.of, f)
              THEN [cmd EXCEPT !.todo = @ \ {f}, !.conflicts = @ \cup {f}]
              ELSE [cmd EXCEPT !.op = "checked"] @@ [file |-> f]
    /\ UNCHANGED <<original, run, row, copy, shell, count, agreed, raced>>

\* The original is backed up as it is now, then replaced or removed.
Saved(f) == cmd.saved @@ [g \in {f} |-> original[f]]
Applying == [k \in DOMAIN cmd \ {"file"} |-> cmd[k]]

apply_replace ==
    LET f == cmd.file
        r == cmd.of IN
    /\ cmd.op = "checked"
    /\ original' = [original EXCEPT ![f] = copy[r].files[f]]
    /\ agreed' = [agreed EXCEPT ![r][f] = @ \cup {copy[r].files[f]}]
    /\ cmd' = [Applying EXCEPT !.op = "applying", !.todo = @ \ {f}, !.saved = Saved(f)]
    /\ UNCHANGED <<run, row, copy, shell, count, raced>>

\* Hashing, checking or backing up a file fails: the command answers an error
\* and files already replaced stay replaced.
apply_aborted ==
    /\ cmd.op \in {"applying", "checked"} /\ CanFail
    /\ cmd.op = "applying" => cmd.todo # {}
    /\ cmd' = Idle /\ Counted("faults")
    /\ UNCHANGED <<original, run, row, copy, shell, agreed, raced>>

\* mutant: files the apply created are not removed again
RolledBack_existing(saved) ==
    [f \in {g \in DOMAIN saved : saved[g] # 0} |-> saved[f]] @@ original

RolledBack(saved) == saved @@ original
\* Replacing a file fails, or the manifest of a partial apply cannot be
\* written: every file backed up so far is restored.
apply_rolled_back ==
    /\ CanFail
    /\ \/ cmd.op = "checked" /\ original' = RolledBack(Saved(cmd.file))
       \/ /\ cmd.op = "applying" /\ cmd.todo = {} /\ cmd.saved # << >>
          /\ cmd.conflicts \cup cmd.rejected # {}
          /\ original' = RolledBack(cmd.saved)
    /\ agreed' = [agreed EXCEPT ![cmd.of] = cmd.had]
    /\ cmd' = Idle /\ Counted("faults")
    /\ UNCHANGED <<run, row, copy, shell, raced>>


\* Nothing is left over: the copy may go.
Clean == cmd.conflicts = {} /\ cmd.rejected = {}

apply_finished ==
    LET r == cmd.of IN
    /\ cmd.op = "applying" /\ cmd.todo = {}
    /\ \/ Clean /\ Destroy(r)
       \/ /\ ~Clean
          /\ copy' = [copy EXCEPT ![r].base =
                         [f \in DOMAIN cmd.saved |-> copy[r].files[f]] @@ @]
          /\ row' = RowStatus(r, "apply_conflicts")
          /\ cmd' = Idle
    /\ UNCHANGED <<original, run, shell, count, agreed, raced>>

\* sandbox_run_discard, worker_sandbox_destroy: asked for by the user.
sandbox_run_discard(r) ==
    /\ Free /\ row[r].mode # "none" /\ row[r].status # "destroyed"
    /\ Destroy(r)
    /\ UNCHANGED <<original, run, shell, count, agreed, raced>>

\* destroy_workspace_snapshot fails (a shell command holds the directory):
\* the manifest is gone, the row keeps its status.
destroy_fails ==
    LET r == cmd.of IN
    /\ CanFail
    /\ cmd.op = "unchanged" \/ (cmd.op = "applying" /\ cmd.todo = {} /\ Clean)
    /\ copy' = [copy EXCEPT ![r].manifest = FALSE]
    /\ cmd' = Idle /\ Counted("faults")
    /\ UNCHANGED <<original, run, row, shell, agreed, raced>>

\* The application dies; recover_after_unclean_shutdown at the next start.
\* The job objects close with the process and take the shell commands along.
crash ==
    /\ count.crashes < MaxCrashes
    /\ run' = [r \in Runs |-> IF run[r].status = "running"
                              THEN [run[r] EXCEPT !.status = "interrupted"] ELSE run[r]]
    /\ row' = [r \in Runs |-> IF row[r].status = "active"
                              THEN [row[r] EXCEPT !.status = "interrupted"] ELSE row[r]]
    /\ shell' = {} /\ cmd' = Idle /\ Counted("crashes")
    /\ UNCHANGED <<original, copy, agreed, raced>>

------------------------------------------------------------------------------
RunStep(r) ==
    \/ engine_run_create(r) \/ engine_run_cancel(r) \/ engine_run_resume(r)
    \/ engine_run_checkpoint_add(r)
    \/ \E s \in {"running", "completed"} : engine_run_update(r, s)
    \/ \E new \in Runs : engine_run_retry(r, new)
    \/ prepare_read_only(r) \/ engine_run_prepare_context(r)
    \/ share_parent(r) \/ sandbox_run_prepare(r)
    \/ sandbox_exec_command(r) \/ exec_ends(r)
    \/ \E f \in Files, c \in {0, 100 + count.writes + 1} : exec_writes(r, f, c)
    \/ sandbox_run_diff(r) \/ sandbox_run_apply(r) \/ sandbox_run_discard(r)

Next ==
    \/ \E r \in Runs : RunStep(r)
    \/ \E f \in Files \ OutOfScope, c \in {0, 10 + count.edits + 1} : user_edits(f, c)
    \/ write_manifest \/ probe_passed \/ probe_failed
    \/ destroy_unchanged \/ destroy_fails
    \/ apply_check \/ apply_replace \/ apply_aborted \/ apply_rolled_back \/ apply_finished
    \/ crash

Spec == Init /\ [][Next]_vars

------------------------------------------------------------------------------
Replaces(f) == cmd.op = "checked" /\ cmd.file = f /\ original'[f] # original[f]
               /\ cmd'.op = "applying"

\* "Some files changed outside the sandbox and were not overwritten": a file
\* the user changed after the copy was made is never replaced by an apply.
UserEditKeptStep == \A f \in Files : Replaces(f) => original[f] \in agreed[cmd.of][f]
UserEditKept == [][UserEditKeptStep]_vars

\* An apply replaces only content the run's copy started from or an earlier
\* apply of the same run left there, whatever conflicts, retries, rollbacks and
\* crashes came before; an edit is lost only when it fell between the copy and
\* a single-root manifest or between the comparison and the replacement.
EditsLostOnlyInWindowsStep ==
    \A f \in Files : Replaces(f) =>
        original[f] \in agreed[cmd.of][f] \/ <<cmd.of, "edit", f>> \in raced
EditsLostOnlyInWindows == [][EditsLostOnlyInWindowsStep]_vars

\* A copy removed without the user discarding it holds no change the originals
\* did not get, unless a shell command wrote while the changes were being
\* compared or applied.
RemovedOnlyIfDeliveredStep ==
    \A r \in Runs :
          (copy[r].on /\ ~copy'[r].on /\ cmd.op \in {"unchanged", "applying"}) =>
          \A f \in Files : \/ copy[r].files[f] \in agreed[r][f]
                           \/ <<r, "write", f>> \in raced
                           \/ <<r, "edit", f>> \in raced
RemovedOnlyIfDelivered == [][RemovedOnlyIfDeliveredStep]_vars

\* An apply that reports it was rolled back leaves every original as it was
\* when the apply began, except files the user changed meanwhile.
RollbackRestoresStep ==
    apply_rolled_back => \A f \in Files \ cmd.touched : original'[f] = cmd.before[f]
RollbackRestores == [][RollbackRestoresStep]_vars
==============================================================================
