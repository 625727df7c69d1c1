----------------------------- MODULE RunContext -----------------------------
(***************************************************************************)
(* What a run freezes when it is created and what the server worker finds  *)
(* when it executes the run (server/cowork-server/src/routes.rs            *)
(* prepare_run, sync.rs freeze_runtime_context_for_run, mcp_bindings.rs,   *)
(* organization.rs ensure_run_context, providers.rs, worker.rs).           *)
(* prepare_run is a sequence of queries without a transaction: roles,      *)
(* metadata, bindings and profiles change between any two of them, and     *)
(* again before a worker takes the run.                                    *)
(***************************************************************************)
EXTENDS Naturals, FiniteSets

CONSTANTS Entities,   \* MCP metadata entities of the user
          Names,      \* names of MCP servers
          Requests,   \* calls of mcp_bindings::set in flight
          MaxEdits    \* bound on concurrent edits of a behaviour

VARIABLES
    meta,      \* meta[e]: [live, name], mcp_metadata in sync_entities
    crew,      \* names that the enabled agents of the crew ask for; {} = no crew
    binding,   \* binding[e]: [rev, name], server_mcp_bindings; rev 0 = no row
    role,      \* the creator's role in the project: "none" | "viewer" | "runner" | "editor"
    pool,      \* the executor pool is granted to the project
    profile,   \* [live, server, secret], the model profile
    req,       \* req[q]: a checked call of mcp_bindings::set
    run,       \* the run: how far prepare_run or the worker is, and what is frozen
    edits      \* edits so far

vars == <<meta, crew, binding, role, pool, profile, req, run, edits>>

NoReq == [st |-> "idle", e |-> CHOOSE e \in Entities : TRUE, name |-> CHOOSE n \in Names : TRUE, rev |-> 0]
NoBinding == [rev |-> 0, name |-> CHOOSE n \in Names : TRUE]
Ready == [st |-> "new", chosen |-> {}, crew |-> {}, frozen |-> {}, used |-> {}]

Init ==
    /\ meta \in [Entities -> [live : {TRUE}, name : Names]]
    /\ crew \in SUBSET Names
    /\ binding = [e \in Entities |-> NoBinding]
    /\ role = "runner"
    /\ pool \in BOOLEAN
    /\ profile = [live |-> TRUE, server |-> TRUE, secret |-> TRUE]
    /\ req = [q \in Requests |-> NoReq]
    /\ run = Ready
    /\ edits = 0

Edit == edits < MaxEdits /\ edits' = edits + 1

-----------------------------------------------------------------------------
(* Edits of others. *)

\* A device pushes a renamed or deleted MCP entry, or a changed crew.
push_metadata(e, n, alive) ==
    /\ Edit
    /\ meta[e].live
    /\ meta' = [meta EXCEPT ![e] = [live |-> alive, name |-> n]]
    /\ UNCHANGED <<crew, binding, role, pool, profile, req, run>>

push_crew(ns) ==
    /\ Edit
    /\ crew # {} /\ ns # {}
    /\ crew' = ns
    /\ UNCHANGED <<meta, binding, role, pool, profile, req, run>>

\* set_project_member: an editor changes the creator's role.
set_project_member(r) ==
    /\ Edit
    /\ role' = r
    /\ UNCHANGED <<meta, crew, binding, pool, profile, req, run>>

\* grant_executor_pool; a grant is never taken back.
grant_executor_pool ==
    /\ Edit
    /\ ~pool
    /\ pool' = TRUE
    /\ UNCHANGED <<meta, crew, binding, role, profile, req, run>>

\* Updates, secrets and deletion of the model profile.
edit_profile(new) ==
    /\ Edit
    /\ profile.live
    /\ profile' = new
    /\ UNCHANGED <<meta, crew, binding, role, pool, req, run>>

-----------------------------------------------------------------------------
(* Bindings. *)

\* ensure_owned_mcp_metadata: the entry is there and has the binding's name.
OwnedMetadata(e, n) == meta[e].live /\ meta[e].name = n

\* mcp_bindings::set checks that its name is the metadata's and seals the
\* binding before its transaction; expected is the revision the client knows.
check_set(q, e, n, expected) ==
    /\ Edit
    /\ req[q] = NoReq
    /\ OwnedMetadata(e, n)
    /\ req' = [req EXCEPT ![q] = [st |-> "checked", e |-> e, name |-> n, rev |-> expected]]
    /\ UNCHANGED <<meta, crew, binding, role, pool, profile, run>>

\* Mutant: the names of the project's other bindings are not looked at.
DuplicateName_unchecked(e, n) == FALSE

\* Read under the project's advisory lock.
DuplicateName(e, n) == \E o \in Entities \ {e} : binding[o].rev > 0 /\ binding[o].name = n

set_binding(q) ==
    LET e == req[q].e IN
    /\ req[q].st = "checked"
    /\ req' = [req EXCEPT ![q] = NoReq]
    /\ binding' = IF ~DuplicateName(e, req[q].name) /\ binding[e].rev = req[q].rev
                  THEN [binding EXCEPT ![e] = [rev |-> @.rev + 1, name |-> req[q].name]]
                  ELSE binding
    /\ UNCHANGED <<meta, crew, role, pool, profile, run, edits>>

\* mcp_bindings::delete WHERE revision = expected.
delete_binding(e) ==
    /\ Edit
    /\ binding[e].rev > 0
    /\ binding' = [binding EXCEPT ![e] = NoBinding]
    /\ UNCHANGED <<meta, crew, role, pool, profile, req, run>>

-----------------------------------------------------------------------------
(* Creating the run. *)

At(st) == run.st = st
Go(next) == run' = next /\ UNCHANGED <<meta, crew, binding, role, pool, profile, req, edits>>
Refuse == Go([run EXCEPT !.st = "refused"])

\* ensure_project_role: the creator runs what the project's runners may run.
MayRun == role \in {"runner", "editor"}

\* runtime_metadata_references: the entries that the request or its task
\* selects, each of them once.
References == SUBSET Entities

\* ensure_run_context: at least the runner role, and the pool is granted.
ensure_run_context(chosen) ==
    /\ At("new")
    /\ IF MayRun /\ pool
       THEN Go([run EXCEPT !.st = "context", !.chosen = chosen])
       ELSE Refuse

\* freeze_crew_definition_for_run reads the crew's newest revision.
freeze_crew_definition ==
    /\ At("context")
    /\ Go([run EXCEPT !.st = "crew", !.crew = crew])

\* freeze_metadata_entities: one query for all selected entries; one that is
\* deleted or has no name refuses the run.
freeze_metadata_entities ==
    /\ At("crew")
    /\ IF \A e \in run.chosen : meta[e].live
       THEN Go([run EXCEPT !.st = "frozen", !.frozen = {<<e, meta[e].name>> : e \in run.chosen}])
       ELSE Refuse

FrozenNames == {f[2] : f \in run.frozen}

\* ensure_crew_mcp_selection: exactly the servers that the crew asks for.
CrewSelection == run.crew = {} \/ run.crew = FrozenNames

\* ensure_server_bindings_for_run: a binding with the frozen name.
Bound(f) == binding[f[1]].rev > 0 /\ binding[f[1]].name = f[2]

ensure_server_bindings_for_run ==
    /\ At("frozen")
    /\ IF CrewSelection /\ \A f \in run.frozen : Bound(f)
       THEN Go([run EXCEPT !.st = "bound"])
       ELSE Refuse

\* ensure_profile_for_target: the profile is bound to the server.
ensure_profile_for_target ==
    /\ At("bound")
    /\ IF profile.live /\ profile.server
       THEN Go([run EXCEPT !.st = "queued"])
       ELSE Refuse

-----------------------------------------------------------------------------
(* Executing the run. *)

\* resolve_server_provider: bound to the server and, with bearer
\* authentication, with a secret.
resolve_server_provider ==
    /\ At("queued")
    /\ Go([run EXCEPT !.st = IF profile.live /\ profile.server /\ profile.secret
                             THEN "provided" ELSE "failed"])

\* resolve_server_bindings_for_run: one query for all rows; the sealed name
\* must still be the frozen one.  inject_crew_mcp_context or the agent host
\* then hands these servers to the run by name.
Resolves(f) == Bound(f)

resolve_server_bindings_for_run ==
    /\ At("provided")
    /\ IF \A f \in run.frozen : Resolves(f)
       THEN Go([run EXCEPT !.st = "dispatched", !.used = {<<f[1], binding[f[1]].name>> : f \in run.frozen}])
       ELSE Go([run EXCEPT !.st = "failed"])

Next ==
    \/ \E e \in Entities :
          \/ \E n \in Names, alive \in BOOLEAN : push_metadata(e, n, alive)
          \/ \E q \in Requests, n \in Names, x \in {0, binding[e].rev} : check_set(q, e, n, x)
          \/ delete_binding(e)
    \/ \E ns \in SUBSET Names : push_crew(ns)
    \/ \E r \in {"none", "viewer", "runner"} : set_project_member(r)
    \/ grant_executor_pool
    \/ \E new \in [live : BOOLEAN, server : BOOLEAN, secret : BOOLEAN] : edit_profile(new)
    \/ \E q \in Requests : set_binding(q)
    \/ \E chosen \in References : ensure_run_context(chosen)
    \/ freeze_crew_definition \/ freeze_metadata_entities
    \/ ensure_server_bindings_for_run \/ ensure_profile_for_target
    \/ resolve_server_provider \/ resolve_server_bindings_for_run

Spec == Init /\ [][Next]_vars

-----------------------------------------------------------------------------
(* Properties. *)

\* Whatever was renamed, rebound or deleted while the run was prepared or
\* waited, a run that is dispatched calls its MCP servers by the names that
\* were frozen with it, no two of them share a name (a call would be
\* ambiguous), and a crew has exactly the servers that its frozen definition
\* asks for.
ToolsAsFrozen ==
    run.st = "dispatched" =>
        /\ {u[2] : u \in run.used} = FrozenNames
        /\ \A a, b \in run.used : a[2] = b[2] => a = b
        /\ run.crew # {} => FrozenNames = run.crew
=============================================================================
