------------------------------ MODULE AppLibrary ------------------------------
(* The desktop application's library (app/src-tauri/src/db.rs and its commands in  *)
(* lib.rs): projects, their resources and chats, work tasks, API profiles and the   *)
(* default backend. Every command holds the connection for one statement or one     *)
(* transaction; the context of a task is resolved on another thread in several      *)
(* reads, with commands in between.                                                *)
EXTENDS Integers, FiniteSets

CONSTANTS Projects, Threads, Resources, Paths, Tasks, Profiles, \* numbers from 1 on
          MaxOps      \* bound on the user's commands

None == 0

VARIABLES projects, threads, profiles,   \* rows that exist
          link,       \* project_threads, [Threads -> project]; no key to chat_threads
          resources,  \* project_resources, [Resources -> row]
          tasks,      \* work_tasks, [Tasks -> row]
          schedules,  \* scheduled_tasks that mirror a work task
          default,    \* app_backend_defaults
          reader,     \* the context being resolved
          seen,       \* <<project, path>> pairs that were good during the resolve
          ops

library == <<projects, threads, profiles, link, resources, tasks, schedules, default>>
vars == <<library, reader, seen, ops>>

NoResource == [project |-> None, path |-> None, enabled |-> FALSE]
NoTask == [exists |-> FALSE, thread |-> None]
Idle == [at |-> "idle", task |-> None, thread |-> None, project |-> None, paths |-> {}]

Init ==
    /\ projects = {} /\ threads = {} /\ profiles = Profiles
    /\ link = [t \in Threads |-> None]
    /\ resources = [r \in Resources |-> NoResource]
    /\ tasks = [k \in Tasks |-> NoTask]
    /\ schedules = {}
    /\ default = [backend |-> "unset", profile |-> 1]
    /\ reader = Idle /\ seen = {} /\ ops = 0

-----------------------------------------------------------------------------
(* Command: one of the user's.                                                     *)
Command ==
    /\ ops < MaxOps /\ ops' = ops + 1
    /\ UNCHANGED reader

db_save_thread(t) ==
    /\ Command
    /\ t \notin threads
    /\ threads' = threads \union {t}
    /\ UNCHANGED <<projects, profiles, link, resources, tasks, schedules, default>>

(* Deleting a chat row sets the thread of its work tasks to NULL.                   *)
WithoutThreads(gone) ==
    [k \in Tasks |-> IF tasks[k].thread \in gone THEN [tasks[k] EXCEPT !.thread = None] ELSE tasks[k]]

db_delete_thread(t) ==
    /\ Command
    /\ link' = [link EXCEPT ![t] = None]
    /\ \/ threads' = threads \ {t} /\ tasks' = WithoutThreads({t})
       \/ UNCHANGED <<threads, tasks>>          \* the process ends between the statements
    /\ UNCHANGED <<projects, profiles, resources, schedules, default>>

project_upsert(p) ==
    /\ Command
    /\ projects' = projects \union {p}
    /\ UNCHANGED <<threads, profiles, link, resources, tasks, schedules, default>>

Unlinked_kept(p) == link
Unlinked(p) == [t \in Threads |-> IF link[t] = p THEN None ELSE link[t]]

project_delete(p, delete_threads) ==
    /\ Command
    /\ LET gone == IF delete_threads THEN {t \in Threads : link[t] = p} ELSE {} IN
       /\ threads' = threads \ gone
       /\ tasks' = WithoutThreads(gone)
    /\ projects' = projects \ {p}
    /\ link' = Unlinked(p)
    /\ resources' = [r \in Resources |-> IF resources[r].project = p THEN NoResource ELSE resources[r]]
    /\ UNCHANGED <<profiles, schedules, default>>

(* A path the project has already keeps its row; a row's id is never reused.        *)
project_resource_upsert(r, p, path, enabled) ==
    /\ Command
    /\ p \in projects
    /\ LET same == {q \in Resources : resources[q].project = p /\ resources[q].path = path} IN
       IF same # {}
       THEN resources' = [q \in Resources |->
                IF q \in same THEN [resources[q] EXCEPT !.enabled = enabled] ELSE resources[q]]
       ELSE /\ resources[r] = NoResource
            /\ resources' = [resources EXCEPT
                    ![r] = [project |-> p, path |-> path, enabled |-> enabled]]
    /\ UNCHANGED <<projects, threads, profiles, link, tasks, schedules, default>>

project_resource_delete(r) ==
    /\ Command
    /\ resources' = [resources EXCEPT ![r] = NoResource]
    /\ UNCHANGED <<projects, threads, profiles, link, tasks, schedules, default>>

project_resource_set_enabled(r, enabled) ==
    /\ Command
    /\ resources[r] # NoResource
    /\ resources' = [resources EXCEPT ![r].enabled = enabled]
    /\ UNCHANGED <<projects, threads, profiles, link, tasks, schedules, default>>

(* One transaction: a project that is gone leaves the chat where it was.            *)
project_attach_thread(p, t) ==
    /\ Command
    /\ p \in projects
    /\ link' = [link EXCEPT ![t] = p]
    /\ UNCHANGED <<projects, threads, profiles, resources, tasks, schedules, default>>

project_detach_thread(p, t) ==
    /\ Command
    /\ link[t] = p
    /\ link' = [link EXCEPT ![t] = None]
    /\ UNCHANGED <<projects, threads, profiles, resources, tasks, schedules, default>>

work_task_upsert(k, t) ==
    /\ Command
    /\ t = None \/ t \in threads
    /\ tasks' = [tasks EXCEPT ![k] = [exists |-> TRUE, thread |-> t]]
    /\ schedules' \in {schedules, schedules \union {k}}     \* scheduler_upsert_task follows
    /\ UNCHANGED <<projects, threads, profiles, link, resources, default>>

work_task_delete(k) ==
    /\ Command
    /\ schedules' = schedules \ {k}
    /\ \/ tasks' = [tasks EXCEPT ![k] = NoTask]
       \/ UNCHANGED tasks                       \* the process ends between the statements
    /\ UNCHANGED <<projects, threads, profiles, link, resources, default>>

-----------------------------------------------------------------------------
api_profile_upsert(f) ==
    /\ Command
    /\ profiles' = profiles \union {f}
    /\ UNCHANGED <<projects, threads, link, resources, tasks, schedules, default>>

(* The default profile is never deleted: its row would set the default to NULL.      *)
Deletable_any(f) == TRUE
Deletable(f) == f # default.profile

api_profile_delete(f) ==
    /\ Command
    /\ Deletable(f)
    /\ profiles' = profiles \ {f}
    /\ default' = IF default.profile = f THEN [default EXCEPT !.profile = None] ELSE default
    /\ UNCHANGED <<projects, threads, link, resources, tasks, schedules>>

backend_defaults_write(backend, f) ==
    /\ Command
    /\ backend = "openai-compatible" => f # None
    /\ f = None \/ f \in profiles
    /\ default' = [backend |-> backend, profile |-> f]
    /\ UNCHANGED <<projects, threads, profiles, link, resources, tasks, schedules>>

api_default_profile_write(f) ==
    /\ Command
    /\ f \in profiles
    /\ default' = [default EXCEPT !.profile = f]
    /\ UNCHANGED <<projects, threads, profiles, link, resources, tasks, schedules>>

-----------------------------------------------------------------------------
(* What a context being resolved may rest on: the projects its chat was in (paired     *)
(* with None) and the sources that were enabled.                                       *)
Held(thread, lnk, res) ==
    {<<lnk[thread], None>>}
        \union {<<res[r].project, res[r].path>> : r \in {r \in Resources : res[r].enabled}}

(* resolve_task_project_run_context: the task's row, then the link of its chat, then  *)
(* the project, then its resources. A read that finds nothing ends it without paths.  *)
read_task(k) ==
    /\ reader.at = "idle"
    /\ tasks[k].exists
    /\ reader' = IF tasks[k].thread = None THEN Idle
                 ELSE [Idle EXCEPT !.at = "link", !.task = k, !.thread = tasks[k].thread]
    /\ seen' = IF tasks[k].thread = None THEN {} ELSE Held(tasks[k].thread, link, resources)
    /\ UNCHANGED <<library, ops>>

read_link ==
    /\ reader.at = "link"
    /\ reader' = IF link[reader.thread] = None THEN [reader EXCEPT !.at = "done"]
                 ELSE [reader EXCEPT !.at = "project", !.project = link[reader.thread]]
    /\ UNCHANGED <<library, seen, ops>>

read_project ==
    /\ reader.at = "project"
    /\ reader' = IF reader.project \in projects THEN [reader EXCEPT !.at = "resources"]
                 ELSE [reader EXCEPT !.at = "done", !.project = None]
    /\ UNCHANGED <<library, seen, ops>>

Ours_any(r) == resources[r].enabled
Ours(r) == resources[r].enabled /\ resources[r].project = reader.project

Authorized(readable) == {resources[r].path : r \in {r \in Resources : Ours(r)}} \intersect readable

(* A path the policy blocks, or that is missing on disk, is left out with a warning.  *)
read_resources ==
    /\ reader.at = "resources"
    /\ \E readable \in SUBSET Paths :
          reader' = [reader EXCEPT !.at = "done", !.paths = Authorized(readable)]
    /\ UNCHANGED <<library, seen, ops>>

(* Links are fetched after that and only add text.                                   *)
finish ==
    /\ reader.at = "done"
    /\ reader' = Idle /\ seen' = {}
    /\ UNCHANGED <<library, ops>>

Observed ==
    seen' = IF reader.thread = None THEN seen
            ELSE seen \union Held(reader.thread, link', resources')

Commands ==
    \/ \E t \in Threads : db_save_thread(t) \/ db_delete_thread(t)
    \/ \E p \in Projects :
        \/ project_upsert(p)
        \/ \E d \in BOOLEAN : project_delete(p, d)
        \/ \E t \in Threads : project_attach_thread(p, t) \/ project_detach_thread(p, t)
        \/ \E r \in Resources, path \in Paths, e \in BOOLEAN : project_resource_upsert(r, p, path, e)
    \/ \E r \in Resources :
        project_resource_delete(r) \/ \E e \in BOOLEAN : project_resource_set_enabled(r, e)
    \/ \E k \in Tasks :
        work_task_delete(k) \/ \E t \in Threads \union {None} : work_task_upsert(k, t)
    \/ \E f \in Profiles :
        api_profile_upsert(f) \/ api_profile_delete(f) \/ api_default_profile_write(f)
    \/ \E b \in {"codex", "openai-compatible"}, f \in Profiles \union {None} : backend_defaults_write(b, f)

Next ==
    \/ Commands /\ Observed
    \/ \E k \in Tasks : read_task(k)
    \/ read_link \/ read_project \/ read_resources \/ finish

Spec == Init /\ [][Next]_vars

-----------------------------------------------------------------------------
(* No sequence of deletions, moves and edits leaves a row that points to one that is   *)
(* gone: a chat in a project that was deleted, a resource of such a project, a task of   *)
(* a deleted chat (delete_project, delete_thread, the schema's ON DELETE clauses).       *)
NoDanglingRow ==
    /\ \A t \in Threads : link[t] # None => link[t] \in projects
    /\ \A r \in Resources : resources[r] # NoResource => resources[r].project \in projects
    /\ \A k \in Tasks : tasks[k].thread # None => tasks[k].thread \in threads

(* An OpenAI-compatible default always names a profile that exists                      *)
(* (delete_api_profile, backend_defaults_write, set_default_api_profile).                *)
DefaultUsable ==
    default.backend = "openai-compatible" => default.profile \in profiles

(* A run's context only opens paths that were an enabled source of a project its chat     *)
(* was in, while the context was resolved, whatever commands came between the reads        *)
(* (resolve_task_project_run_context).                                                     *)
ContextOfItsProject ==
    reader.at = "done" =>
        \A path \in reader.paths :
            \E p \in Projects : <<p, None>> \in seen /\ <<p, path>> \in seen

(* All three: what the commands promise about the library.                                *)
LibrarySound == NoDanglingRow /\ DefaultUsable /\ ContextOfItsProject
=============================================================================
